----------------------------- MODULE RemoteBlood ----------------------------
(***************************************************************************)
(* Buying blood from afar.  The protocol is that of RemoteAmmo (a running  *)
(* total raised in every Decision, answered by the total Sentryinfo        *)
(* reports), but RecordRobotBlood settles a purchase by looking at two     *)
(* topics at once: the total of Sentryinfo, and the blood that /robot/hp   *)
(* reports, which a purchase makes jump.  The two travel separately.       *)
(* Whether a purchase is awaited is a member of RecordRobotBlood, copied   *)
(* to the blackboard in every pass; BuyBlood reads and overwrites the copy.*)
(***************************************************************************)
EXTENDS Integers, Sequences, Topic

CONSTANTS
  CountSize,   (* passes before a purchase is given up: count_size         *)
  Depth,       (* history of the Sentryinfo and Hp subscriptions           *)
  WireDepth,   (* Decisions on their way through robot_serial              *)
  HpLevels,    (* the blood the sentry can have                            *)
  FullHp,      (* blood at the start of the game                           *)
  MaxOrders,   (* bound on the number of times BuyBlood raises the total   *)
  MaxBlows     (* bound on the changes of blood no purchase explains       *)

ASSUME CountSizeAssumption == CountSize \in Nat \ {0}
ASSUME DepthAssumption     == Depth \in Nat \ {0} /\ WireDepth \in Nat \ {0}
ASSUME HpAssumption        == HpLevels \subseteq Nat /\ FullHp \in HpLevels
ASSUME BoundsAssumption    == MaxOrders \in Nat /\ MaxBlows \in Nat

VARIABLES
  pc,          (* the node of the pass that is ticked next                 *)
  number,      (* blackboard: buy_blood_number                             *)
  waiting,     (* blackboard: if_waiting_buy_blood                         *)
  awaiting,    (* RecordRobotBlood: if_waiting_buy_blood, its own member   *)
  received,    (* each node's received_sentryinfo_.number_of_get_blood     *)
  blood,       (* blackboard: red_sentry_blood, as of the last pass        *)
  timer,       (* RecordRobotBlood: count_buy_blood                        *)
  inbox,       (* each node's unread Sentryinfo messages                   *)
  hpInbox,     (* RecordRobotBlood's unread Hp messages                    *)
  wire,        (* Decisions published and not yet seen by the referee      *)
  granted,     (* referee: remote purchases of blood granted so far        *)
  hp,          (* referee: the sentry's blood                              *)
  blows,       (* history: changes of blood no purchase explains           *)
  sent,        (* history: the total in the last Decision published        *)
  orders       (* history: times BuyBlood raised the total                 *)

record  == <<awaiting, blood, timer>>
shared  == <<number, waiting>>
links   == <<inbox, hpInbox, wire>>
referee == <<granted, hp, blows>>
vars    == <<pc, record, shared, received, links, referee, sent, orders>>

Listeners == {"RecordRobotBlood", "BuyBlood"}
Jump      == 100      (* a rise of blood above this is a purchase          *)

-----------------------------------------------------------------------------
Init ==
  /\ pc = "record"
  /\ number = 0
  /\ waiting = FALSE
  /\ awaiting = FALSE
  /\ received = [n \in Listeners |-> 0]
  /\ blood = FullHp
  /\ timer = 0
  /\ inbox = [n \in Listeners |-> <<>>]
  /\ hpInbox = <<>>
  /\ wire = <<>>
  /\ granted = 0
  /\ hp = FullHp
  /\ blows = 0
  /\ sent = 0
  /\ orders = 0

(* callback_group_executor_.spin_some() of one node, Sentryinfo only.      *)
SpinSome(n) ==
  /\ received' = [received EXCEPT ![n] = Heard(inbox[n], @)]
  /\ inbox' = [inbox EXCEPT ![n] = Spun(@)]

(* The outcomes of RecordRobotBlood: `known` is the total it has heard,    *)
(* `rise` the change of blood since the last pass.                         *)
Hurt(rise) ==
  /\ rise < 0
  /\ UNCHANGED <<number, awaiting, timer>>

PurchaseSucceeded(known, rise) ==
  /\ rise > Jump
  /\ number = known
  /\ awaiting' = FALSE
  /\ UNCHANGED <<number, timer>>

PurchasePending(known, rise) ==
  /\ rise \in 0 .. Jump - 1
  /\ number = known + 1
  /\ timer + 1 < CountSize
  /\ timer' = timer + 1
  /\ awaiting' = TRUE
  /\ UNCHANGED number

PurchaseTimedOut(known, rise) ==
  /\ rise \in 0 .. Jump - 1
  /\ number = known + 1
  /\ timer + 1 >= CountSize
  /\ timer' = 0
  /\ number' = known
  /\ awaiting' = FALSE

(* Mutant of Resynchronise: only the flag is reset.                        *)
ResynchroniseFlagOnly(known, rise) ==
  /\ rise >= 0
  /\ number < known \/ number >= known + 2
  /\ awaiting' = FALSE
  /\ UNCHANGED <<number, timer>>

Resynchronise(known, rise) ==
  /\ rise >= 0
  /\ number < known \/ number >= known + 2
  /\ number' = known
  /\ awaiting' = FALSE
  /\ UNCHANGED timer

NothingToRecord(known, rise) ==
  /\ \/ number = known     /\ rise \in 0 .. Jump
     \/ number = known + 1 /\ rise >= Jump
  /\ UNCHANGED <<number, awaiting, timer>>

RecordTick ==
  /\ pc = "record"
  /\ pc' = "send"
  /\ SpinSome("RecordRobotBlood")
  /\ blood' = Heard(hpInbox, blood)
  /\ hpInbox' = Spun(hpInbox)
  /\ LET known == received'["RecordRobotBlood"]
         rise  == blood' - blood
     IN \/ Hurt(rise)
        \/ PurchaseSucceeded(known, rise)
        \/ PurchasePending(known, rise)
        \/ PurchaseTimedOut(known, rise)
        \/ Resynchronise(known, rise)
        \/ NothingToRecord(known, rise)
  /\ waiting' = awaiting'
  /\ UNCHANGED <<wire, referee, sent, orders>>

SendDecisionTick ==
  /\ pc = "send"
  /\ pc' = "mission"
  /\ wire' = Publish(wire, number, WireDepth)
  /\ sent' = number
  /\ UNCHANGED <<record, shared, received, inbox, hpInbox, referee, orders>>

(* Mutant of RaiseTotal: the total need not be the referee's.              *)
RaiseUnreconciled(known) ==
  /\ ~ waiting
  /\ orders < MaxOrders
  /\ number' = number + 1
  /\ waiting' = TRUE
  /\ orders' = orders + 1

(* The three outcomes of BuyBlood.                                         *)
RaiseTotal(known) ==
  /\ known = number
  /\ ~ waiting
  /\ orders < MaxOrders
  /\ number' = number + 1
  /\ waiting' = TRUE
  /\ orders' = orders + 1

AwaitAnswer(known) ==
  /\ number = known + 1
  /\ waiting' = TRUE
  /\ UNCHANGED <<number, orders>>

OutOfStep(known) ==
  /\ number # known + 1
  /\ ~ (known = number /\ ~ waiting)
  /\ waiting' = FALSE
  /\ UNCHANGED <<number, orders>>

BuyBloodTick ==
  /\ pc = "mission"
  /\ pc' = "record"
  /\ SpinSome("BuyBlood")
  /\ LET known == received'["BuyBlood"] IN
       \/ RaiseTotal(known)
       \/ AwaitAnswer(known)
       \/ OutOfStep(known)
  /\ UNCHANGED <<record, hpInbox, wire, referee, sent>>

(* The mission branch of the pass does not reach BuyBlood.                 *)
OtherMission ==
  /\ pc = "mission"
  /\ pc' = "record"
  /\ UNCHANGED <<record, shared, received, links, referee, sent, orders>>

-----------------------------------------------------------------------------
(* The referee system and the links to it.                                 *)

(* A Decision that asks for one more purchase than were granted is granted *)
(* if the team can pay, and the blood rises if there is room for it.       *)
RefereeGrants ==
  /\ wire # <<>>
  /\ Head(wire) = granted + 1
  /\ wire' = Tail(wire)
  /\ granted' = granted + 1
  /\ hp' \in {h \in HpLevels : h > hp \/ (h = hp /\ hp = FullHp)}
  /\ UNCHANGED <<pc, record, shared, received, inbox, hpInbox, blows, sent, orders>>

RefereeIgnores ==
  /\ wire # <<>>
  /\ wire' = Tail(wire)
  /\ UNCHANGED <<pc, record, shared, received, inbox, hpInbox, referee, sent, orders>>

(* The fight, the supply zone, a resurrection.                             *)
BloodChanges ==
  /\ blows < MaxBlows
  /\ blows' = blows + 1
  /\ hp' \in HpLevels \ {hp}
  /\ UNCHANGED <<pc, record, shared, received, links, granted, sent, orders>>

(* Sentryinfo reaches the subscriptions in `reached`; the others lose it.  *)
TotalReported(reached) ==
  /\ inbox' = [n \in Listeners |->
                 IF n \in reached THEN Publish(inbox[n], granted, Depth)
                                  ELSE inbox[n]]
  /\ UNCHANGED <<pc, record, shared, received, hpInbox, wire, referee, sent, orders>>

BloodReported ==
  /\ hpInbox' = Publish(hpInbox, hp, Depth)
  /\ UNCHANGED <<pc, record, shared, received, inbox, wire, referee, sent, orders>>

Next ==
  \/ RecordTick
  \/ SendDecisionTick
  \/ BuyBloodTick
  \/ OtherMission
  \/ RefereeGrants
  \/ RefereeIgnores
  \/ BloodChanges
  \/ \E reached \in SUBSET Listeners : TotalReported(reached)
  \/ BloodReported

(* The tree is ticked for ever; Decisions are read off the serial line;    *)
(* both reports keep coming.                                               *)
Fairness ==
  /\ WF_vars(RecordTick)
  /\ WF_vars(SendDecisionTick)
  /\ WF_vars(BuyBloodTick \/ OtherMission)
  /\ WF_vars(RefereeGrants \/ RefereeIgnores)
  /\ WF_vars(TotalReported(Listeners))
  /\ WF_vars(BloodReported)

Spec     == Init /\ [][Next]_vars
FairSpec == Spec /\ Fairness

-----------------------------------------------------------------------------
TypeOK ==
  /\ pc \in {"record", "send", "mission"}
  /\ number \in Nat
  /\ waiting \in BOOLEAN
  /\ awaiting \in BOOLEAN
  /\ received \in [Listeners -> Nat]
  /\ blood \in HpLevels
  /\ timer \in 0 .. CountSize - 1
  /\ inbox \in [Listeners -> Seq(Nat)]
  /\ hpInbox \in Seq(HpLevels)
  /\ wire \in Seq(Nat)
  /\ granted \in Nat
  /\ hp \in HpLevels
  /\ blows \in 0 .. MaxBlows
  /\ sent \in Nat
  /\ orders \in 0 .. MaxOrders

(* Every grant answers an order of its own: a purchase that is repeated    *)
(* after a time-out, or raised while the last one is lost from sight, does *)
(* not buy blood nobody ordered.                                           *)
GrantsWereOrdered == granted <= orders

(* Nothing the sentry asks for, on the blackboard or still on the wire,    *)
(* is more than one purchase above what the referee has granted, however   *)
(* far apart what the two nodes have heard of it is.                       *)
AsksOneAhead ==
  /\ number <= granted + 1
  /\ Within(wire, 0, granted + 1)

(* The strengthening the theorems are proved with: reports never overtake  *)
(* the referee, and no total anywhere exceeds the orders.                  *)
ReportsTrail ==
  \A n \in Listeners :
    received[n] <= granted /\ Within(inbox[n], 0, granted)

TotalsOrdered ==
  /\ granted <= orders
  /\ number <= orders
  /\ Within(wire, 0, orders)

IInv ==
  /\ TypeOK
  /\ ReportsTrail
  /\ TotalsOrdered
  /\ AsksOneAhead

(* Once no more blood is ordered, the blackboard, the last Decision and    *)
(* the referee agree on the total.                                         *)
TotalsConverge == <>[](number = granted /\ sent = granted)

(* The purchase as whoever pays for it sees it: the totals on the wire are *)
(* the pending requests.                                                   *)
Contract == INSTANCE PurchaseContract WITH pending <- Contents(wire)

(* The three nodes together, reading the same topic at different moments,  *)
(* keep the purchase contract.                                             *)
KeepsContract == Contract!Spec
=============================================================================
