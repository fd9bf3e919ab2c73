------------------------- MODULE RecoveryAmmoProofs -------------------------
(***************************************************************************)
(* No money is spent on ammunition nobody ordered, for every set of lots,  *)
(* every time-out and every history.  The amount requested follows three   *)
(* nodes' memories: what the nodes know trails the referee (ReportsTrail), *)
(* and what is requested, or still on the wire, exceeds neither the lots   *)
(* ordered nor the largest lot above what was sold.                        *)
(***************************************************************************)
EXTENDS RecoveryAmmo, TopicTheorems, FiniteSetTheorems

USE CountSizeAssumption, DepthAssumption, LotsAssumption, BoundsAssumption

(* The types of the pass and its nodes, of the links, of the world.        *)
NodesOK ==
  /\ pc \in {"record", "send", "mission"}
  /\ amount \in Nat /\ lot \in Lots \cup {0}
  /\ timer \in 0 .. CountSize - 1
  /\ received \in [Listeners -> Nat]

FlagsOK ==
  /\ waiting \in BOOLEAN /\ awaiting \in BOOLEAN /\ rfid \in BOOLEAN
  /\ inZone \in BOOLEAN

LinksOK ==
  /\ inbox \in [Listeners -> Seq(Nat)]
  /\ rfidInbox \in Seq(BOOLEAN)
  /\ wire \in Seq(Nat)

WorldOK ==
  /\ sold \in Nat /\ moves \in 0 .. MaxMoves
  /\ orders \in 0 .. MaxOrders /\ ordered \in Nat

Types == NodesOK /\ FlagsOK /\ LinksOK /\ WorldOK

(* No node knows, or will hear, of more than was sold.                     *)
ReportsTrail ==
  \A n \in Listeners : received[n] <= sold /\ Within(inbox[n], 0, sold)

(* A bound on what is requested and on what Decisions carry.               *)
RequestsUpTo(high) == amount <= high /\ Within(wire, 0, high)

RequestsOrdered == sold <= ordered /\ RequestsUpTo(ordered)

LargestLot(bullets) ==
  bullets \in Lots \cup {0} /\ \A larger \in Lots : larger <= bullets

OneLotAhead ==
  \A bullets \in Lots \cup {0} :
     LargestLot(bullets) => RequestsUpTo(sold + bullets)

IInv == Types /\ ReportsTrail /\ RequestsOrdered /\ OneLotAhead

(* Finitely many lots have a largest one: without, there were a smallest   *)
(* set of lots without.                                                    *)
LEMMA LargestLotExists == \E bullets \in Lots \cup {0} : LargestLot(bullets)
<1> DEFINE HasLargest(S) == \E m \in S : \A x \in S : x <= m
           Without == {S \in FiniteSubsetsOf(Lots) : S # {} /\ ~HasLargest(S)}
<1>1. Without = {}
  <2> SUFFICES ASSUME Without # {}
               PROVE  FALSE
      OBVIOUS
  <2>1. PICK S \in Without :
           \A T \in Without : ~(<<T, S>> \in StrictSubsetOrdering(Lots))
        BY FS_StrictSubsetOrderingWellFounded, WFMin, Zenon
  <2>2. S \subseteq Lots /\ IsFiniteSet(S) /\ S # {} /\ ~HasLargest(S)
        BY DEF FiniteSubsetsOf
  <2>3. PICK x \in S : TRUE
        OBVIOUS
  <2>4. /\ S \ {x} \in FiniteSubsetsOf(Lots)
        /\ <<S \ {x}, S>> \in StrictSubsetOrdering(Lots)
        BY FS_RemoveElement DEF FiniteSubsetsOf, StrictSubsetOrdering
  <2>5. CASE S \ {x} = {}
        BY <2>2, <2>5
  <2>6. CASE S \ {x} # {}
    <3>1. HasLargest(S \ {x})
          BY <2>1, <2>4, <2>6
    <3>2. PICK m \in S \ {x} : \A y \in S \ {x} : y <= m
          BY <3>1
    <3>3. x \in Nat /\ m \in Nat
          BY <2>2
    <3> QED
        BY <3>2, <3>3
  <2> QED
      BY <2>5, <2>6
<1>2. Lots \in FiniteSubsetsOf(Lots)
      BY DEF FiniteSubsetsOf
<1>3. CASE Lots = {}
      BY <1>3 DEF LargestLot
<1>4. CASE Lots # {}
  <2>1. HasLargest(Lots)
        BY <1>1, <1>2, <1>4
  <2> QED
      BY <2>1 DEF LargestLot
<1> QED
    BY <1>3, <1>4

(* Nothing is requested, sold or reported yet.                             *)
LEMMA InitHolds == Init => IInv
<1> SUFFICES ASSUME Init
             PROVE  IInv
    OBVIOUS
<1> USE DEF Init
<1>1. Types
  <2>1. NodesOK /\ LinksOK /\ WorldOK
        BY DEF NodesOK, LinksOK, WorldOK
  <2>2. FlagsOK
        BY DEF FlagsOK
  <2> QED
      BY <2>1, <2>2 DEF Types
<1>2. ReportsTrail
      BY DEF ReportsTrail, Within
<1>3. RequestsOrdered /\ OneLotAhead
      BY DEF RequestsOrdered, OneLotAhead, RequestsUpTo, Within
<1> QED
    BY <1>1, <1>2, <1>3 DEF IInv

-----------------------------------------------------------------------------
(* One spin of a node: it still knows no more than was sold.               *)
LEMMA SpinTrails ==
  ASSUME Types, ReportsTrail, NEW n \in Listeners, SpinSome(n), sold' = sold
  PROVE  /\ received' \in [Listeners -> Nat] /\ received'[n] <= sold
         /\ inbox' \in [Listeners -> Seq(Nat)]
         /\ ReportsTrail'
<1>1. /\ inbox[n] \in Seq(Nat) /\ received[n] \in Nat /\ sold \in Nat
      /\ received[n] <= sold /\ Within(inbox[n], 0, sold)
      BY DEF Types, NodesOK, LinksOK, WorldOK, ReportsTrail
<1>2. /\ Heard(inbox[n], received[n]) \in Nat /\ Spun(inbox[n]) \in Seq(Nat)
      /\ Heard(inbox[n], received[n]) <= sold
      /\ Within(Spun(inbox[n]), 0, sold)
      BY <1>1, SpinKeepsType, SpinWithin
<1>3. /\ received' = [received EXCEPT ![n] = Heard(inbox[n], received[n])]
      /\ inbox' = [inbox EXCEPT ![n] = Spun(inbox[n])]
      BY DEF SpinSome
<1> QED
    BY <1>2, <1>3 DEF Types, NodesOK, LinksOK, ReportsTrail

(* Reconciling leaves the amount alone or sets it to what is known of the  *)
(* sales, which is no more than was sold.                                  *)
LEMMA RecordHolds == IInv /\ RecordTick => IInv'
<1> SUFFICES ASSUME IInv, RecordTick
             PROVE  IInv'
    OBVIOUS
<1> DEFINE known == received'["RecordRobotStatus"]
<1>1. Types /\ ReportsTrail /\ RequestsOrdered /\ OneLotAhead
      BY DEF IInv
<1>2. /\ pc' = "send" /\ UNCHANGED <<lot, wire, world, history>>
      /\ SpinSome("RecordRobotStatus") /\ waiting' = awaiting'
      /\ rfid' = Heard(rfidInbox, rfid) /\ rfidInbox' = Spun(rfidInbox)
      BY DEF RecordTick
<1>3. sold' = sold /\ ordered' = ordered /\ sold \in Nat /\ ordered \in Nat
      BY <1>1, <1>2 DEF world, history, Types, WorldOK
<1>4. /\ received' \in [Listeners -> Nat] /\ known <= sold
      /\ inbox' \in [Listeners -> Seq(Nat)] /\ ReportsTrail'
      BY <1>1, <1>2, <1>3, SpinTrails DEF Listeners
<1>5. known \in Nat
      BY <1>4 DEF Listeners
<1>6. rfid' \in BOOLEAN /\ rfidInbox' \in Seq(BOOLEAN)
      BY <1>1, <1>2, SpinKeepsType DEF Types, FlagsOK, LinksOK
<1>7. /\ amount' \in {amount, known} /\ timer' \in 0 .. CountSize - 1
      BY <1>1
         DEF RecordTick, PurchaseConfirmed, PurchasePending, PurchaseTimedOut,
             Resynchronise, NothingToRecord, Types, NodesOK
<1>8. awaiting' \in BOOLEAN
      BY <1>1
         DEF RecordTick, PurchaseConfirmed, PurchasePending, PurchaseTimedOut,
             Resynchronise, NothingToRecord, Types, FlagsOK
<1>9. Types'
  <2>1. NodesOK' /\ LinksOK' /\ WorldOK'
        BY <1>1, <1>2, <1>4, <1>5, <1>6, <1>7
           DEF Types, NodesOK, LinksOK, WorldOK, world, history
  <2>2. FlagsOK'
        BY <1>1, <1>2, <1>6, <1>8 DEF Types, FlagsOK, world
  <2> QED
      BY <2>1, <2>2 DEF Types
<1>10. RequestsOrdered'
      BY <1>1, <1>2, <1>3, <1>4, <1>5, <1>7 DEF RequestsOrdered, RequestsUpTo
<1>11. OneLotAhead'
  <2> SUFFICES ASSUME NEW bullets \in Lots \cup {0}, LargestLot(bullets)
               PROVE  /\ amount' <= sold' + bullets
                      /\ Within(wire', 0, sold' + bullets)
      BY DEF OneLotAhead, RequestsUpTo
  <2>1. amount <= sold + bullets /\ Within(wire, 0, sold + bullets)
        BY <1>1 DEF OneLotAhead, RequestsUpTo
  <2> QED
      BY <1>2, <1>3, <1>4, <1>5, <1>7, <2>1
<1> QED
    BY <1>4, <1>9, <1>10, <1>11 DEF IInv

(* A Decision carries the amount, which keeps below the bounds.            *)
LEMMA SendHolds == IInv /\ SendDecisionTick => IInv'
<1> SUFFICES ASSUME IInv, SendDecisionTick
             PROVE  IInv'
    OBVIOUS
<1>1. Types /\ ReportsTrail /\ RequestsOrdered /\ OneLotAhead
      BY DEF IInv
<1>2. /\ pc' = "mission" /\ wire' = Publish(wire, amount, WireDepth)
      /\ UNCHANGED <<record, shared, received, inbox, rfidInbox, world,
                     history>>
      BY DEF SendDecisionTick
<1>3. /\ wire \in Seq(Nat) /\ amount \in Nat /\ sold \in Nat /\ ordered \in Nat
      /\ amount' = amount /\ sold' = sold /\ ordered' = ordered
      BY <1>1, <1>2
         DEF Types, NodesOK, LinksOK, WorldOK, shared, world, history
<1>4. ASSUME NEW high \in Nat, RequestsUpTo(high)
      PROVE  RequestsUpTo(high)'
      BY <1>2, <1>3, <1>4, PublishWithin DEF RequestsUpTo
<1>5. Types'
  <2>1. wire' \in Seq(Nat)
        BY <1>2, <1>3, PublishType
  <2> QED
      BY <1>1, <1>2, <2>1
         DEF Types, NodesOK, FlagsOK, LinksOK, WorldOK, record, shared, world,
             history
<1>6. ReportsTrail'
      BY <1>1, <1>2 DEF ReportsTrail, world
<1>7. RequestsOrdered'
      BY <1>1, <1>3, <1>4 DEF RequestsOrdered
<1>8. OneLotAhead'
      BY <1>1, <1>3, <1>4 DEF OneLotAhead
<1> QED
    BY <1>5, <1>6, <1>7, <1>8 DEF IInv

(* The amount is raised by one lot from what is known to be sold, or left. *)
LEMMA BuyHolds ==
  ASSUME IInv, NEW bullets \in Lots, BuyBulletInRecoveryTick(bullets)
  PROVE  IInv'
<1> DEFINE known == received'["BuyBulletInRecovery"]
<1>1. Types /\ ReportsTrail /\ RequestsOrdered /\ OneLotAhead
      BY DEF IInv
<1>2. /\ pc' = "record" /\ lot' = bullets
      /\ UNCHANGED <<record, rfidInbox, wire, world>>
      /\ SpinSome("BuyBulletInRecovery")
      BY DEF BuyBulletInRecoveryTick
<1>3. /\ sold' = sold /\ sold \in Nat /\ ordered \in Nat
      /\ amount \in Nat /\ wire \in Seq(Nat)
      BY <1>1, <1>2 DEF world, Types, WorldOK, NodesOK, LinksOK
<1>4. /\ received' \in [Listeners -> Nat] /\ known <= sold
      /\ inbox' \in [Listeners -> Seq(Nat)] /\ ReportsTrail'
      BY <1>1, <1>2, <1>3, SpinTrails DEF Listeners
<1>5. /\ orders' \in 0 .. MaxOrders
      /\ \/ amount' = amount /\ ordered' = ordered
         \/ /\ amount = known
            /\ amount' = amount + bullets /\ ordered' = ordered + bullets
      BY <1>1
         DEF BuyBulletInRecoveryTick, RaiseAmount, AwaitAnswer, OutOfStep,
             history, Types, WorldOK
<1>6. amount' \in Nat /\ ordered' \in Nat /\ ordered <= ordered'
      BY <1>3, <1>5
<1>10. waiting' \in BOOLEAN
       BY DEF BuyBulletInRecoveryTick, RaiseAmount, AwaitAnswer, OutOfStep
<1>7. Types'
  <2>1. NodesOK' /\ LinksOK' /\ WorldOK'
        BY <1>1, <1>2, <1>4, <1>5, <1>6
           DEF Types, NodesOK, LinksOK, WorldOK, record, world
  <2>2. FlagsOK'
        BY <1>1, <1>2, <1>10 DEF Types, FlagsOK, record, world
  <2> QED
      BY <2>1, <2>2 DEF Types
<1>8. RequestsOrdered'
  <2>1. Within(wire, 0, ordered')
        BY <1>1, <1>3, <1>6, WithinWider DEF RequestsOrdered, RequestsUpTo
  <2> QED
      BY <1>1, <1>2, <1>3, <1>5, <2>1 DEF RequestsOrdered, RequestsUpTo
<1>9. OneLotAhead'
  <2> SUFFICES ASSUME NEW most \in Lots \cup {0}, LargestLot(most)
               PROVE  amount' <= sold' + most /\ Within(wire', 0, sold' + most)
      BY DEF OneLotAhead, RequestsUpTo
  <2>1. amount <= sold + most /\ Within(wire, 0, sold + most)
        BY <1>1 DEF OneLotAhead, RequestsUpTo
  <2>2. most \in Nat /\ bullets \in Nat /\ bullets <= most
        BY DEF LargestLot
  <2> QED
      BY <1>2, <1>3, <1>4, <1>5, <2>1, <2>2
<1> QED
    BY <1>4, <1>7, <1>8, <1>9 DEF IInv

-----------------------------------------------------------------------------
(* One lot above more is more.                                             *)
LEMMA OneLotMore ==
  ASSUME NEW low \in Nat, NEW high \in Nat, low <= high,
         NEW bullets \in Lots \cup {0}
  PROVE  /\ low + bullets \in Nat /\ high + bullets \in Nat
         /\ low + bullets <= high + bullets
OBVIOUS

(* The referee takes a Decision off the wire; what it sells was asked for. *)
LEMMA RefereeHolds == IInv /\ (RefereeSells \/ RefereeIgnores) => IInv'
<1> SUFFICES ASSUME IInv, RefereeSells \/ RefereeIgnores
             PROVE  IInv'
    OBVIOUS
<1>1. Types /\ ReportsTrail /\ RequestsOrdered /\ OneLotAhead
      BY DEF IInv
<1>2. /\ wire # <<>> /\ wire' = Tail(wire)
      /\ \/ sold' = sold
         \/ sold' = Head(wire) /\ Head(wire) > sold
      /\ UNCHANGED <<pc, record, shared, received, inbox, rfidInbox, inZone,
                     moves, history>>
      BY DEF RefereeSells, RefereeIgnores, world
<1>3. /\ wire \in Seq(Nat) /\ amount \in Nat /\ sold \in Nat /\ ordered \in Nat
      /\ amount' = amount /\ ordered' = ordered
      BY <1>1, <1>2 DEF Types, NodesOK, LinksOK, WorldOK, shared, history
<1>4. Within(wire, 0, ordered)
      BY <1>1 DEF RequestsOrdered, RequestsUpTo
<1>5. wire' \in Seq(Nat) /\ Head(wire) \in Nat /\ Head(wire) <= ordered
      BY <1>2, <1>3, <1>4, TailWithin
<1>6. sold' \in Nat /\ sold <= sold' /\ sold' <= ordered
      BY <1>1, <1>2, <1>3, <1>5 DEF RequestsOrdered
<1>7. ASSUME NEW high \in Nat, NEW higher \in Nat, high <= higher,
             RequestsUpTo(high)
      PROVE  RequestsUpTo(higher)'
  <2>1. Within(Tail(wire), 0, higher)
        BY <1>2, <1>3, <1>5, <1>7, TailWithin, WithinWider DEF RequestsUpTo
  <2> QED
      BY <1>2, <1>3, <1>7, <2>1 DEF RequestsUpTo
<1>8. Types'
      BY <1>1, <1>2
         DEF Types, NodesOK, FlagsOK, LinksOK, WorldOK, record, shared, history
<1>9. ReportsTrail'
  <2> SUFFICES ASSUME NEW n \in Listeners
               PROVE  received[n] <= sold' /\ Within(inbox[n], 0, sold')
      BY <1>2 DEF ReportsTrail
  <2>1. /\ received[n] \in Nat /\ inbox[n] \in Seq(Nat)
        /\ received[n] <= sold /\ Within(inbox[n], 0, sold)
        BY <1>1 DEF Types, NodesOK, LinksOK, ReportsTrail
  <2>2. Within(inbox[n], 0, sold')
        BY <1>3, <1>6, <2>1, WithinWider
  <2> QED
      BY <1>3, <1>6, <2>1, <2>2
<1>10. RequestsOrdered'
       BY <1>1, <1>3, <1>6, <1>7 DEF RequestsOrdered
<1>11. OneLotAhead'
  <2> SUFFICES ASSUME NEW most \in Lots \cup {0}, LargestLot(most)
               PROVE  RequestsUpTo(sold + most)'
      BY DEF OneLotAhead
  <2>1. /\ sold + most \in Nat /\ sold' + most \in Nat
        /\ sold + most <= sold' + most
        BY <1>3, <1>6, OneLotMore
  <2>2. RequestsUpTo(sold + most)
        BY <1>1 DEF OneLotAhead
  <2> QED
      BY <1>7, <2>1, <2>2
<1> QED
    BY <1>8, <1>9, <1>10, <1>11 DEF IInv

(* The reports say what was sold, at the latest now.                       *)
LEMMA ReportHolds ==
  ASSUME IInv, NEW reached \in SUBSET Listeners, AmountReported(reached)
  PROVE  IInv'
<1>1. Types /\ ReportsTrail /\ RequestsOrdered /\ OneLotAhead
      BY DEF IInv
<1>2. /\ inbox' = [n \in Listeners |->
                     IF n \in reached THEN Publish(inbox[n], sold, Depth)
                                      ELSE inbox[n]]
      /\ UNCHANGED <<pc, record, shared, received, rfidInbox, wire, world,
                     history>>
      BY DEF AmountReported
<1>3. ASSUME NEW n \in Listeners
      PROVE  inbox'[n] \in Seq(Nat) /\ Within(inbox'[n], 0, sold)
  <2>1. inbox[n] \in Seq(Nat) /\ sold \in Nat /\ Within(inbox[n], 0, sold)
        BY <1>1 DEF Types, LinksOK, WorldOK, ReportsTrail
  <2>2. /\ Publish(inbox[n], sold, Depth) \in Seq(Nat)
        /\ Within(Publish(inbox[n], sold, Depth), 0, sold)
    <3>1. Depth \in Nat \ {0} /\ 0 \in Nat /\ 0 <= sold /\ sold <= sold
          BY <2>1
    <3> QED
        BY <2>1, <3>1, PublishType, PublishWithin
  <2> QED
      BY <1>2, <2>1, <2>2
<1>4. Types'
      BY <1>1, <1>2, <1>3
         DEF Types, NodesOK, FlagsOK, LinksOK, WorldOK, record, shared, world,
             history
<1>5. ReportsTrail'
      BY <1>1, <1>2, <1>3 DEF ReportsTrail, world
<1>6. RequestsOrdered' /\ OneLotAhead'
      BY <1>1, <1>2
         DEF RequestsOrdered, OneLotAhead, RequestsUpTo, shared, world, history
<1> QED
    BY <1>4, <1>5, <1>6 DEF IInv

(* The field, what is heard of the zone, and another mission touch no      *)
(* amount.                                                                 *)
LEMMA FieldHolds ==
  IInv /\ (EnterOrLeave \/ ZoneReported \/ OtherMission) => IInv'
<1> SUFFICES ASSUME IInv, EnterOrLeave \/ ZoneReported \/ OtherMission
             PROVE  IInv'
    OBVIOUS
<1>1. Types /\ ReportsTrail /\ RequestsOrdered /\ OneLotAhead
      BY DEF IInv
<1>2. /\ UNCHANGED <<amount, lot, waiting, record, received, inbox, wire, sold,
                     history>>
      /\ pc' \in {pc, "record"}
      BY DEF EnterOrLeave, ZoneReported, OtherMission, shared, links, world
<1>3. rfidInbox' \in Seq(BOOLEAN)
      BY <1>1, PublishKeepsType
         DEF EnterOrLeave, ZoneReported, OtherMission, links, Types, FlagsOK,
             LinksOK
<1>4. moves' \in 0 .. MaxMoves
      BY <1>1
         DEF EnterOrLeave, ZoneReported, OtherMission, world, Types, WorldOK
<1>5. inZone' \in BOOLEAN
      BY <1>1
         DEF EnterOrLeave, ZoneReported, OtherMission, world, Types, FlagsOK
<1>6. Types'
      BY <1>1, <1>2, <1>3, <1>4, <1>5
         DEF Types, NodesOK, FlagsOK, LinksOK, WorldOK, record, history
<1>7. (ReportsTrail /\ RequestsOrdered /\ OneLotAhead)'
      BY <1>1, <1>2
         DEF ReportsTrail, RequestsOrdered, OneLotAhead, RequestsUpTo, history
<1> QED
    BY <1>6, <1>7 DEF IInv

-----------------------------------------------------------------------------
(* IInv is inductive.                                                      *)
LEMMA NextHolds == IInv /\ [Next]_vars => IInv'
<1> SUFFICES ASSUME IInv, [Next]_vars
             PROVE  IInv'
    OBVIOUS
<1>1. CASE Next
      BY <1>1, RecordHolds, SendHolds, BuyHolds, RefereeHolds, ReportHolds,
         FieldHolds DEF Next
<1>2. CASE UNCHANGED vars
  <2> USE <1>2 DEF vars, record, shared, links, world, history, IInv
  <2>1. Types'
        BY DEF Types, NodesOK, FlagsOK, LinksOK, WorldOK
  <2>2. (ReportsTrail /\ RequestsOrdered /\ OneLotAhead)'
        BY DEF ReportsTrail, RequestsOrdered, OneLotAhead, RequestsUpTo
  <2> QED
      BY <2>1, <2>2
<1> QED
    BY <1>1, <1>2

LEMMA Invariant == Spec => []IInv
BY InitHolds, NextHolds, PTL DEF Spec

-----------------------------------------------------------------------------
(* Every variable keeps its type.                                          *)
THEOREM TypeCorrect == Spec => []TypeOK
<1>1. IInv => TypeOK
      BY DEF IInv, Types, NodesOK, FlagsOK, LinksOK, WorldOK, TypeOK
<1> QED
    BY <1>1, Invariant, PTL

(* The sentry never pays for more ammunition than was ordered, whatever is *)
(* repeated after a time-out or a visit to the zone                        *)
(* (record_robot_status.cpp, buy_bullet_in_recovery.cpp).                  *)
THEOREM EverySaleOrdered == Spec => []SalesWereOrdered
<1>1. IInv => SalesWereOrdered
      BY DEF IInv, RequestsOrdered, SalesWereOrdered
<1> QED
    BY <1>1, Invariant, PTL

(* It never asks for more than the largest lot above what was sold, on the *)
(* blackboard or on the wire.                                              *)
THEOREM OneLotAtATime == Spec => []AsksOneLotAhead
<1>1. IInv => AsksOneLotAhead
      BY LargestLotExists
         DEF IInv, OneLotAhead, LargestLot, RequestsUpTo, AsksOneLotAhead
<1> QED
    BY <1>1, Invariant, PTL
=============================================================================
