----------------------------- MODULE RemoteAmmo -----------------------------
(***************************************************************************)
(* Buying ammunition from afar.  The referee system knows only running     *)
(* totals: the sentry asks for one more purchase by raising, in every      *)
(* Decision it sends, the number of purchases it has asked for, and the    *)
(* referee answers by publishing (at 1 Hz, in Sentryinfo) how many it has  *)
(* granted.  Three nodes of the behaviour tree share the total on the      *)
(* blackboard and each keeps its own, possibly old, copy of Sentryinfo:    *)
(*                                                                         *)
(*   RecordRobotStatus   reconciles the total with the referee, times out  *)
(*   SendDecision        publishes the total towards the serial port       *)
(*   BuyBullet           raises the total when the mission branch wants    *)
(*                       ammunition                                        *)
(*                                                                         *)
(* One pass over the tree ticks them in that order; messages arrive        *)
(* between any two of them.                                                *)
(***************************************************************************)
EXTENDS Integers, Sequences, Topic

CONSTANTS
  CountSize,   (* passes before a purchase is given up: count_size         *)
  Depth,       (* history of the Sentryinfo subscriptions                  *)
  WireDepth,   (* Decisions on their way through robot_serial              *)
  MaxOrders    (* bound on the number of times BuyBullet raises the total  *)

ASSUME CountSizeAssumption == CountSize \in Nat \ {0}
ASSUME DepthAssumption     == Depth \in Nat \ {0}
ASSUME WireDepthAssumption == WireDepth \in Nat \ {0}
ASSUME MaxOrdersAssumption == MaxOrders \in Nat

VARIABLES
  pc,          (* the node of the pass that is ticked next                 *)
  number,      (* blackboard: buy_bullet_remote_number                     *)
  waiting,     (* blackboard: if_waiting_buy_bullet_remote                 *)
  received,    (* each node's received_sentryinfo_.number_of_get_ammunition*)
  timer,       (* RecordRobotStatus: count_buy_bullet_remote               *)
  inbox,       (* each node's unread Sentryinfo messages                   *)
  wire,        (* Decisions published and not yet seen by the referee      *)
  granted,     (* referee: remote purchases granted so far                 *)
  sent,        (* history: the total in the last Decision published        *)
  orders       (* history: times BuyBullet raised the total                *)

node  == <<number, waiting, received, timer>>
links == <<inbox, wire>>
vars  == <<pc, node, links, granted, sent, orders>>

Listeners == {"RecordRobotStatus", "BuyBullet"}

-----------------------------------------------------------------------------
Init ==
  /\ pc = "record"
  /\ number = 0
  /\ waiting = FALSE
  /\ received = [n \in Listeners |-> 0]
  /\ timer = 0
  /\ inbox = [n \in Listeners |-> <<>>]
  /\ wire = <<>>
  /\ granted = 0
  /\ sent = 0
  /\ orders = 0

(* callback_group_executor_.spin_some() of one node.                       *)
SpinSome(n) ==
  /\ received' = [received EXCEPT ![n] = Heard(inbox[n], @)]
  /\ inbox' = [inbox EXCEPT ![n] = Spun(@)]

(* The four outcomes of RecordRobotStatus for the remote total.            *)
(* Mutant of PurchaseConfirmed: a total above the referee's passes too.     *)
ConfirmedAhead(known) ==
  /\ number >= known
  /\ known # 0
  /\ waiting' = FALSE
  /\ UNCHANGED <<number, timer>>

PurchaseConfirmed(known) ==
  /\ number = known
  /\ known # 0
  /\ waiting' = FALSE
  /\ UNCHANGED <<number, timer>>

PurchasePending(known) ==
  /\ number = known + 1
  /\ timer + 1 < CountSize
  /\ timer' = timer + 1
  /\ waiting' = TRUE
  /\ UNCHANGED number

PurchaseTimedOut(known) ==
  /\ number = known + 1
  /\ timer + 1 >= CountSize
  /\ timer' = 0
  /\ number' = known
  /\ waiting' = FALSE

(* Mutants of Resynchronise: off by one; only the flag is reset.            *)
ResynchroniseOneAhead(known) ==
  /\ number # known + 1
  /\ ~ (number = known /\ known # 0)
  /\ number' = known + 1
  /\ waiting' = FALSE
  /\ UNCHANGED timer

ResynchroniseFlagOnly(known) ==
  /\ number # known + 1
  /\ ~ (number = known /\ known # 0)
  /\ waiting' = FALSE
  /\ UNCHANGED <<number, timer>>

Resynchronise(known) ==
  /\ number # known + 1
  /\ ~ (number = known /\ known # 0)
  /\ number' = known
  /\ waiting' = FALSE
  /\ UNCHANGED timer

RecordTick ==
  /\ pc = "record"
  /\ pc' = "send"
  /\ SpinSome("RecordRobotStatus")
  /\ LET known == received'["RecordRobotStatus"] IN
       \/ PurchaseConfirmed(known)
       \/ PurchasePending(known)
       \/ PurchaseTimedOut(known)
       \/ Resynchronise(known)
  /\ UNCHANGED <<wire, granted, sent, orders>>

SendDecisionTick ==
  /\ pc = "send"
  /\ pc' = "mission"
  /\ wire' = Publish(wire, number, WireDepth)
  /\ sent' = number
  /\ UNCHANGED <<node, inbox, granted, orders>>

(* The three outcomes of BuyBullet.                                        *)
RaiseTotal(known) ==
  /\ known = number
  /\ ~ waiting
  /\ orders < MaxOrders
  /\ number' = number + 1
  /\ waiting' = TRUE
  /\ orders' = orders + 1

AwaitAnswer(known) ==
  /\ number = known + 1
  /\ waiting' = TRUE
  /\ UNCHANGED <<number, orders>>

OutOfStep(known) ==
  /\ number # known + 1
  /\ ~ (known = number /\ ~ waiting)
  /\ waiting' = FALSE
  /\ UNCHANGED <<number, orders>>

BuyBulletTick ==
  /\ pc = "mission"
  /\ pc' = "record"
  /\ SpinSome("BuyBullet")
  /\ LET known == received'["BuyBullet"] IN
       \/ RaiseTotal(known)
       \/ AwaitAnswer(known)
       \/ OutOfStep(known)
  /\ UNCHANGED <<timer, wire, granted, sent>>

(* The mission branch of the pass does not reach BuyBullet.                *)
OtherMission ==
  /\ pc = "mission"
  /\ pc' = "record"
  /\ UNCHANGED <<node, links, granted, sent, orders>>

-----------------------------------------------------------------------------
(* The referee system and the links to it.                                 *)

(* A Decision that asks for one more purchase than were granted is granted *)
(* if the team can pay; any other changes nothing.                         *)
RefereeHears(grant) ==
  /\ wire # <<>>
  /\ wire' = Tail(wire)
  /\ grant => Head(wire) = granted + 1
  /\ granted' = IF grant THEN granted + 1 ELSE granted
  /\ UNCHANGED <<pc, node, inbox, sent, orders>>

(* Sentryinfo reaches the subscriptions in `reached`; the others lose it.  *)
RefereeReports(reached) ==
  /\ inbox' = [n \in Listeners |->
                 IF n \in reached THEN Publish(inbox[n], granted, Depth)
                                  ELSE inbox[n]]
  /\ UNCHANGED <<pc, node, wire, granted, sent, orders>>

Next ==
  \/ RecordTick
  \/ SendDecisionTick
  \/ BuyBulletTick
  \/ OtherMission
  \/ \E grant \in BOOLEAN : RefereeHears(grant)
  \/ \E reached \in SUBSET Listeners : RefereeReports(reached)

(* The tree is ticked for ever; Decisions are read off the serial line;    *)
(* Sentryinfo keeps coming, and is not lost for ever.                      *)
Fairness ==
  /\ WF_vars(RecordTick)
  /\ WF_vars(SendDecisionTick)
  /\ WF_vars(BuyBulletTick \/ OtherMission)
  /\ WF_vars(\E grant \in BOOLEAN : RefereeHears(grant))
  /\ WF_vars(RefereeReports(Listeners))

Spec     == Init /\ [][Next]_vars
FairSpec == Spec /\ Fairness

-----------------------------------------------------------------------------
TypeOK ==
  /\ pc \in {"record", "send", "mission"}
  /\ number \in Nat
  /\ waiting \in BOOLEAN
  /\ received \in [Listeners -> Nat]
  /\ timer \in 0 .. CountSize - 1
  /\ inbox \in [Listeners -> Seq(Nat)]
  /\ wire \in Seq(Nat)
  /\ granted \in Nat
  /\ sent \in Nat
  /\ orders \in 0 .. MaxOrders

(* The strengthening the theorems are proved with.  Reports reach a node   *)
(* in order and never overtake the referee; nothing on the wire asks for   *)
(* more than one purchase above what RecordRobotStatus knows; and the      *)
(* total moves in step with the pass.                                      *)
ReportsInOrder ==
  \A n \in Listeners :
    /\ received[n] <= granted
    /\ Within(inbox[n], received[n], granted)
    /\ Rising(inbox[n])

RequestsInWindow ==
  LET known == received["RecordRobotStatus"] IN
    /\ granted <= known + 1
    /\ number <= known + 1
    /\ sent <= known + 1
    /\ Within(wire, 0, known + 1)

RequestsOrdered ==
  /\ granted <= orders
  /\ number <= orders
  /\ sent <= orders
  /\ Within(wire, 0, orders)

PassInStep ==
  LET known == received["RecordRobotStatus"] IN
    /\ pc = "record"  => number <= sent + 1 /\ known <= sent
    /\ pc = "send"    => number <= sent + 1 /\ known <= number
    /\ pc = "mission" => number = sent /\ known <= number
    /\ pc # "record" /\ number # known => waiting

IInv ==
  /\ TypeOK
  /\ ReportsInOrder
  /\ RequestsInWindow
  /\ RequestsOrdered
  /\ PassInStep

(* The referee has never granted more than one purchase the decision       *)
(* maker has not heard of: with nodes that read the same topic at          *)
(* different moments, lost reports and time-outs, money is never spent     *)
(* twice on what the robot believes to be one purchase.                    *)
AtMostOneUnseenGrant == granted <= received["RecordRobotStatus"] + 1

(* Every grant answers an order of its own: asking again after a time-out  *)
(* does not buy twice when the first request was granted after all.        *)
GrantsWereOrdered == granted <= orders

(* BuyBullet never raises the total while a raise is still unanswered.     *)
OneRaiseAtATime == number <= received["RecordRobotStatus"] + 1

(* Decision.msg: the total a Decision carries rises by at most one from    *)
(* one Decision to the next (anything else is illegal to the referee).     *)
SentRisesByOne == [][sent' <= sent + 1]_sent

(* Once no more ammunition is ordered, the blackboard, the last Decision   *)
(* and the referee agree on the total, whatever was lost or timed out.     *)
TotalsConverge == <>[](number = granted /\ sent = granted)

(* The purchase as whoever pays for it sees it: the totals on the wire are *)
(* the pending requests.                                                   *)
Contract == INSTANCE PurchaseContract WITH pending <- Contents(wire)

(* The three nodes together, reading the same topic at different moments,  *)
(* keep the purchase contract.                                             *)
KeepsContract == Contract!Spec
=============================================================================
