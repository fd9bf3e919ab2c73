---------------------------- MODULE RecoveryAmmo ----------------------------
(***************************************************************************)
(* Buying ammunition in the supply zone.  What is requested is a running   *)
(* amount; the referee sells up to it while the sentry stands in the zone. *)
(* RecordRobotStatus reconciles the amount with the referee only while the *)
(* RFID message it has read says that the sentry is in the zone, and only  *)
(* once a purchase was ever ordered; BuyBulletInRecovery raises the amount *)
(* by the lot its XML port names.                                          *)
(***************************************************************************)
EXTENDS Integers, Sequences, FiniteSets, Topic

CONSTANTS
  CountSize,   (* passes before a purchase is given up:                    *)
               (* buy_bullet_at_recovery_count_size                        *)
  Depth,       (* history of the Sentryinfo and Rfidstatus subscriptions   *)
  WireDepth,   (* Decisions on their way through robot_serial              *)
  Lots,        (* the values of the number_of_bullet ports of the trees    *)
  MaxOrders,   (* bound on the number of times the amount is raised        *)
  MaxMoves     (* bound on the times the sentry enters or leaves the zone  *)

ASSUME CountSizeAssumption == CountSize \in Nat \ {0}
ASSUME DepthAssumption     == Depth \in Nat \ {0} /\ WireDepth \in Nat \ {0}
ASSUME LotsAssumption      == Lots \subseteq Nat \ {0} /\ IsFiniteSet(Lots)
ASSUME BoundsAssumption    == MaxOrders \in Nat /\ MaxMoves \in Nat

VARIABLES
  pc,          (* the node of the pass that is ticked next                 *)
  amount,      (* blackboard: buy_bullet_at_recovery                       *)
  lot,         (* blackboard: number_of_bullet_to_buy                      *)
  waiting,     (* blackboard: if_waiting_buy_bullet_at_recovery            *)
  awaiting,    (* RecordRobotStatus: if_waiting_buy_bullet_at_recovery     *)
  rfid,        (* RecordRobotStatus: if_rfid_in_recovery                   *)
  received,    (* each node's received_sentryinfo_.amount_of_get_ammunition*)
  timer,       (* RecordRobotStatus: count_buy_bullet_at_recovery          *)
  inbox,       (* each node's unread Sentryinfo messages                   *)
  rfidInbox,   (* RecordRobotStatus' unread Rfidstatus messages            *)
  wire,        (* Decisions published and not yet seen by the referee      *)
  inZone,      (* the sentry is in the supply zone                         *)
  sold,        (* referee: the amount sold so far                          *)
  moves,       (* history: times the sentry entered or left the zone       *)
  orders,      (* history: times the amount was raised                     *)
  ordered      (* history: the sum of the lots it was raised by            *)

record  == <<awaiting, rfid, timer>>
shared  == <<amount, lot, waiting>>
links   == <<inbox, rfidInbox, wire>>
world   == <<inZone, sold, moves>>
history == <<orders, ordered>>
vars    == <<pc, record, shared, received, links, world, history>>

Listeners == {"RecordRobotStatus", "BuyBulletInRecovery"}

-----------------------------------------------------------------------------
Init ==
  /\ pc = "record"
  /\ amount = 0
  /\ lot = 0
  /\ waiting = FALSE
  /\ awaiting = FALSE
  /\ rfid = FALSE
  /\ received = [n \in Listeners |-> 0]
  /\ timer = 0
  /\ inbox = [n \in Listeners |-> <<>>]
  /\ rfidInbox = <<>>
  /\ wire = <<>>
  /\ inZone \in BOOLEAN
  /\ sold = 0
  /\ moves = 0
  /\ orders = 0
  /\ ordered = 0

(* callback_group_executor_.spin_some() of one node, Sentryinfo only.      *)
SpinSome(n) ==
  /\ received' = [received EXCEPT ![n] = Heard(inbox[n], @)]
  /\ inbox' = [inbox EXCEPT ![n] = Spun(@)]

(* The outcomes of RecordRobotStatus for the amount.  Out of the zone, or  *)
(* before the first order, nothing is recorded.                            *)
Reconciles == rfid' /\ lot # 0

PurchaseConfirmed(known) ==
  /\ Reconciles
  /\ known = amount
  /\ awaiting' = FALSE
  /\ UNCHANGED <<amount, timer>>

(* Mutants of PurchasePending: the pass does not count; no limit.           *)
PendingUncounted(known) ==
  /\ Reconciles
  /\ known < amount
  /\ awaiting' = TRUE
  /\ UNCHANGED <<amount, timer>>

PendingUnlimited(known) ==
  /\ Reconciles
  /\ known < amount
  /\ timer' = timer + 1
  /\ awaiting' = TRUE
  /\ UNCHANGED amount

PurchasePending(known) ==
  /\ Reconciles
  /\ known < amount
  /\ timer + 1 < CountSize
  /\ timer' = timer + 1
  /\ awaiting' = TRUE
  /\ UNCHANGED amount

PurchaseTimedOut(known) ==
  /\ Reconciles
  /\ known < amount
  /\ timer + 1 >= CountSize
  /\ timer' = 0
  /\ amount' = known
  /\ awaiting' = FALSE

(* Mutants of Resynchronise: the lot is added again; only the flag falls.   *)
ResynchroniseAndRetry(known) ==
  /\ Reconciles
  /\ known > amount
  /\ amount' = known + lot
  /\ awaiting' = FALSE
  /\ UNCHANGED timer

Resynchronise(known) ==
  /\ Reconciles
  /\ known > amount
  /\ amount' = known
  /\ awaiting' = FALSE
  /\ UNCHANGED timer

NothingToRecord ==
  /\ ~ Reconciles
  /\ UNCHANGED <<amount, awaiting, timer>>

RecordTick ==
  /\ pc = "record"
  /\ pc' = "send"
  /\ SpinSome("RecordRobotStatus")
  /\ rfid' = Heard(rfidInbox, rfid)
  /\ rfidInbox' = Spun(rfidInbox)
  /\ LET known == received'["RecordRobotStatus"] IN
       \/ PurchaseConfirmed(known)
       \/ PurchasePending(known)
       \/ PurchaseTimedOut(known)
       \/ Resynchronise(known)
       \/ NothingToRecord
  /\ waiting' = awaiting'
  /\ UNCHANGED <<lot, wire, world, history>>

SendDecisionTick ==
  /\ pc = "send"
  /\ pc' = "mission"
  /\ wire' = Publish(wire, amount, WireDepth)
  /\ UNCHANGED <<record, shared, received, inbox, rfidInbox, world, history>>

(* Mutant of RaiseAmount: the amount need not be the referee's.            *)
RaiseUnreconciled(known, bullets) ==
  /\ ~ waiting
  /\ orders < MaxOrders
  /\ amount' = amount + bullets
  /\ waiting' = TRUE
  /\ orders' = orders + 1
  /\ ordered' = ordered + bullets

(* The three outcomes of BuyBulletInRecovery.                              *)
RaiseAmount(known, bullets) ==
  /\ known = amount
  /\ ~ waiting
  /\ orders < MaxOrders
  /\ amount' = amount + bullets
  /\ waiting' = TRUE
  /\ orders' = orders + 1
  /\ ordered' = ordered + bullets

AwaitAnswer(known) ==
  /\ known < amount
  /\ waiting' = TRUE
  /\ UNCHANGED <<amount, history>>

OutOfStep(known) ==
  /\ ~ (known < amount)
  /\ ~ (known = amount /\ ~ waiting)
  /\ waiting' = FALSE
  /\ UNCHANGED <<amount, history>>

BuyBulletInRecoveryTick(bullets) ==
  /\ pc = "mission"
  /\ pc' = "record"
  /\ SpinSome("BuyBulletInRecovery")
  /\ lot' = bullets
  /\ LET known == received'["BuyBulletInRecovery"] IN
       \/ RaiseAmount(known, bullets)
       \/ AwaitAnswer(known)
       \/ OutOfStep(known)
  /\ UNCHANGED <<record, rfidInbox, wire, world>>

(* The mission branch of the pass does not reach BuyBulletInRecovery.      *)
OtherMission ==
  /\ pc = "mission"
  /\ pc' = "record"
  /\ UNCHANGED <<record, shared, received, links, world, history>>

-----------------------------------------------------------------------------
(* The field, the referee system and the links to it.                      *)
EnterOrLeave ==
  /\ moves < MaxMoves
  /\ moves' = moves + 1
  /\ inZone' = ~ inZone
  /\ UNCHANGED <<pc, record, shared, received, links, sold, history>>

(* A Decision that asks for more than was sold is served in the zone.      *)
RefereeSells ==
  /\ wire # <<>>
  /\ inZone
  /\ Head(wire) > sold
  /\ sold' = Head(wire)
  /\ wire' = Tail(wire)
  /\ UNCHANGED <<pc, record, shared, received, inbox, rfidInbox, inZone, moves, history>>

(* Any other, or one the team cannot pay, changes nothing.                 *)
RefereeIgnores ==
  /\ wire # <<>>
  /\ wire' = Tail(wire)
  /\ UNCHANGED <<pc, record, shared, received, inbox, rfidInbox, world, history>>

(* Sentryinfo reaches the subscriptions in `reached`; the others lose it.  *)
AmountReported(reached) ==
  /\ inbox' = [n \in Listeners |->
                 IF n \in reached THEN Publish(inbox[n], sold, Depth)
                                  ELSE inbox[n]]
  /\ UNCHANGED <<pc, record, shared, received, rfidInbox, wire, world, history>>

ZoneReported ==
  /\ rfidInbox' = Publish(rfidInbox, inZone, Depth)
  /\ UNCHANGED <<pc, record, shared, received, inbox, wire, world, history>>

Next ==
  \/ RecordTick
  \/ SendDecisionTick
  \/ \E bullets \in Lots : BuyBulletInRecoveryTick(bullets)
  \/ OtherMission
  \/ EnterOrLeave
  \/ RefereeSells
  \/ RefereeIgnores
  \/ \E reached \in SUBSET Listeners : AmountReported(reached)
  \/ ZoneReported

(* The tree is ticked for ever; Decisions are read off the serial line;    *)
(* both reports keep coming.                                               *)
Fairness ==
  /\ WF_vars(RecordTick)
  /\ WF_vars(SendDecisionTick)
  /\ WF_vars(OtherMission \/ \E bullets \in Lots : BuyBulletInRecoveryTick(bullets))
  /\ WF_vars(RefereeSells \/ RefereeIgnores)
  /\ WF_vars(AmountReported(Listeners))
  /\ WF_vars(ZoneReported)

Spec     == Init /\ [][Next]_vars
FairSpec == Spec /\ Fairness

-----------------------------------------------------------------------------
TypeOK ==
  /\ pc \in {"record", "send", "mission"}
  /\ amount \in Nat
  /\ lot \in Lots \cup {0}
  /\ waiting \in BOOLEAN
  /\ awaiting \in BOOLEAN
  /\ rfid \in BOOLEAN
  /\ received \in [Listeners -> Nat]
  /\ timer \in 0 .. CountSize - 1
  /\ inbox \in [Listeners -> Seq(Nat)]
  /\ rfidInbox \in Seq(BOOLEAN)
  /\ wire \in Seq(Nat)
  /\ inZone \in BOOLEAN
  /\ sold \in Nat
  /\ moves \in 0 .. MaxMoves
  /\ orders \in 0 .. MaxOrders
  /\ ordered \in Nat

(* No money is spent on ammunition nobody ordered: an order repeated after *)
(* a time-out, or resumed after the sentry left the zone and came back,    *)
(* never sells more than the lots that were ordered.                       *)
SalesWereOrdered == sold <= ordered

(* Whatever the nodes have heard, and whatever is still on the wire, the   *)
(* sentry never asks for more than one lot above what was sold.            *)
AsksOneLotAhead ==
  \E bullets \in Lots \cup {0} :
    /\ \A larger \in Lots : larger <= bullets
    /\ amount <= sold + bullets
    /\ Within(wire, 0, sold + bullets)

(* While the sentry stays in the zone, an order is served or withdrawn.    *)
OrdersSettleInTheZone ==
  (<>[]inZone) =>
    ((amount > sold) ~> (amount <= sold))

=============================================================================
