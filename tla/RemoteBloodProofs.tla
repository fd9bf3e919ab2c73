------------------------- MODULE RemoteBloodProofs --------------------------
(* RemoteBlood never asks for, or is granted, more than was ordered, for   *)
(* every time-out, queue length, range of blood and number of orders.      *)
EXTENDS RemoteBlood, TopicTheorems

USE CountSizeAssumption, DepthAssumption, HpAssumption, BoundsAssumption
    DEF Listeners

(* Counters that were just reset are in range.                             *)
LEMMA CountersReset ==
  /\ 0 \in 0 .. CountSize - 1
  /\ 0 \in 0 .. MaxOrders
  /\ 0 \in 0 .. MaxBlows
<1>1. CountSize \in Nat /\ CountSize # 0
  OBVIOUS
<1>2. CountSize - 1 \in Nat
  BY <1>1
<1>3. QED
  BY <1>2

LEMMA InitIInv == Init => IInv
<1> SUFFICES ASSUME Init PROVE IInv
  OBVIOUS
<1>1. <<>> \in Seq(Nat) /\ <<>> \in Seq(HpLevels)
  OBVIOUS
<1>2. /\ inbox \in [Listeners -> Seq(Nat)]
      /\ received \in [Listeners -> Nat]
  BY <1>1 DEF Init
<1>3. TypeOK
  BY <1>1, <1>2, CountersReset DEF Init, TypeOK
<1>4. QED
  BY <1>3 DEF Init, IInv, ReportsTrail, TotalsOrdered, AsksOneAhead, Within

(* One spin_some of a listener: what it hears is something the referee     *)
(* really granted, and so is what is left to read.                         *)
LEMMA SpinSomeTrails ==
  ASSUME TypeOK, ReportsTrail, NEW n \in Listeners, SpinSome(n)
  PROVE  /\ received' \in [Listeners -> Nat]
         /\ inbox' \in [Listeners -> Seq(Nat)]
         /\ \A m \in Listeners :
              received'[m] <= granted /\ Within(inbox'[m], 0, granted)
<1>1. /\ received \in [Listeners -> Nat]
      /\ inbox \in [Listeners -> Seq(Nat)]
      /\ granted \in Nat /\ 0 \in Nat
  BY DEF TypeOK
<1>2. /\ received' = [received EXCEPT ![n] = Heard(inbox[n], received[n])]
      /\ inbox' = [inbox EXCEPT ![n] = Spun(inbox[n])]
  BY DEF SpinSome
<1>3. /\ inbox[n] \in Seq(Nat) /\ received[n] \in Nat
      /\ 0 <= received[n] /\ received[n] <= granted
      /\ Within(inbox[n], 0, granted)
  BY <1>1 DEF ReportsTrail
<1>4. Heard(inbox[n], received[n]) \in Nat /\ Spun(inbox[n]) \in Seq(Nat)
  BY <1>3, SpinKeepsType
<1>5. /\ Heard(inbox[n], received[n]) <= granted
      /\ Within(Spun(inbox[n]), 0, granted)
  BY <1>1, <1>3, SpinWithin
<1>6. /\ received'[n] = Heard(inbox[n], received[n])
      /\ inbox'[n] = Spun(inbox[n])
      /\ \A m \in Listeners \ {n} :
           received'[m] = received[m] /\ inbox'[m] = inbox[m]
  BY <1>1, <1>2
<1>7. /\ received' \in [Listeners -> Nat]
      /\ inbox' \in [Listeners -> Seq(Nat)]
  BY <1>1, <1>2, <1>4
<1>8. QED
  BY <1>5, <1>6, <1>7 DEF ReportsTrail

(* RecordRobotBlood keeps the total or sets it to one that was granted.    *)
LEMMA RecordTickIInv == IInv /\ RecordTick => IInv'
<1> SUFFICES ASSUME IInv, RecordTick PROVE IInv'
  OBVIOUS
<1> DEFINE heard == received'["RecordRobotBlood"]
           rise  == blood' - blood
<1>1. TypeOK /\ ReportsTrail
  BY DEF IInv
<1>2. /\ SpinSome("RecordRobotBlood")
      /\ pc' = "send" /\ waiting' = awaiting'
      /\ wire' = wire /\ granted' = granted /\ hp' = hp
      /\ blows' = blows /\ sent' = sent /\ orders' = orders
  BY DEF RecordTick, referee
<1>3. /\ received' \in [Listeners -> Nat]
      /\ inbox' \in [Listeners -> Seq(Nat)]
      /\ \A m \in Listeners :
           received'[m] <= granted /\ Within(inbox'[m], 0, granted)
  BY <1>1, <1>2, SpinSomeTrails
<1>4. blood' \in HpLevels /\ hpInbox' \in Seq(HpLevels)
  <2>1. hpInbox \in Seq(HpLevels) /\ blood \in HpLevels
    BY <1>1 DEF TypeOK
  <2>2. Heard(hpInbox, blood) \in HpLevels /\ Spun(hpInbox) \in Seq(HpLevels)
    BY <2>1, SpinKeepsType
  <2>3. QED
    BY <2>2 DEF RecordTick
<1>5. heard \in Nat /\ heard <= granted
  BY <1>3
<1>6. /\ number' \in {number, heard}
      /\ awaiting' \in BOOLEAN
      /\ timer' \in 0 .. CountSize - 1
  <2>1. CASE Hurt(rise)
    BY <1>1, <2>1 DEF Hurt, TypeOK
  <2>2. CASE PurchaseSucceeded(heard, rise)
    BY <1>1, <2>2 DEF PurchaseSucceeded, TypeOK
  <2>3. CASE PurchasePending(heard, rise)
    BY <1>1, <2>3 DEF PurchasePending, TypeOK
  <2>4. CASE PurchaseTimedOut(heard, rise)
    BY <1>1, <2>4, CountersReset DEF PurchaseTimedOut, TypeOK
  <2>5. CASE Resynchronise(heard, rise)
    BY <1>1, <2>5 DEF Resynchronise, TypeOK
  <2>6. CASE NothingToRecord(heard, rise)
    BY <1>1, <2>6 DEF NothingToRecord, TypeOK
  <2>7. QED
    BY <2>1, <2>2, <2>3, <2>4, <2>5, <2>6 DEF RecordTick
<1>7. TypeOK'
  BY <1>1, <1>2, <1>3, <1>4, <1>5, <1>6 DEF TypeOK
<1>8. ReportsTrail'
  BY <1>2, <1>3 DEF ReportsTrail
<1>9. TotalsOrdered'
  BY <1>1, <1>2, <1>5, <1>6 DEF IInv, TotalsOrdered, TypeOK
<1>10. AsksOneAhead'
  BY <1>1, <1>2, <1>5, <1>6 DEF IInv, AsksOneAhead, TypeOK
<1>11. QED
  BY <1>7, <1>8, <1>9, <1>10 DEF IInv

LEMMA SendDecisionTickIInv == IInv /\ SendDecisionTick => IInv'
<1> SUFFICES ASSUME IInv, SendDecisionTick PROVE IInv'
  OBVIOUS
<1>1. /\ pc' = "mission"
      /\ wire' = Publish(wire, number, WireDepth) /\ sent' = number
      /\ number' = number /\ waiting' = waiting /\ awaiting' = awaiting
      /\ blood' = blood /\ timer' = timer /\ received' = received
      /\ inbox' = inbox /\ hpInbox' = hpInbox /\ granted' = granted
      /\ hp' = hp /\ blows' = blows /\ orders' = orders
  BY DEF SendDecisionTick, record, shared, referee
<1>2. /\ TypeOK
      /\ wire \in Seq(Nat) /\ number \in Nat /\ orders \in Nat
      /\ granted + 1 \in Nat /\ 0 \in Nat
      /\ 0 <= number /\ number <= orders /\ number <= granted + 1
  BY DEF IInv, TypeOK, TotalsOrdered, AsksOneAhead
<1>3. wire' \in Seq(Nat)
  BY <1>1, <1>2, PublishType
<1>4. Within(wire', 0, orders)
  BY <1>1, <1>2, PublishWithin DEF IInv, TotalsOrdered
<1>5. Within(wire', 0, granted + 1)
  BY <1>1, <1>2, PublishWithin DEF IInv, AsksOneAhead
<1>6. TypeOK'
  BY <1>1, <1>2, <1>3 DEF TypeOK
<1>7. QED
  BY <1>1, <1>2, <1>4, <1>5, <1>6
     DEF IInv, ReportsTrail, TotalsOrdered, AsksOneAhead

(* BuyBlood raises the total from one the referee granted, for an order    *)
(* counted in the same step.                                               *)
LEMMA BuyBloodTickIInv == IInv /\ BuyBloodTick => IInv'
<1> SUFFICES ASSUME IInv, BuyBloodTick PROVE IInv'
  OBVIOUS
<1> DEFINE heard == received'["BuyBlood"]
<1>1. TypeOK /\ ReportsTrail
  BY DEF IInv
<1>2. /\ SpinSome("BuyBlood")
      /\ pc' = "record" /\ awaiting' = awaiting /\ blood' = blood
      /\ timer' = timer /\ hpInbox' = hpInbox /\ wire' = wire
      /\ granted' = granted /\ hp' = hp /\ blows' = blows /\ sent' = sent
  BY DEF BuyBloodTick, record, referee
<1>3. /\ received' \in [Listeners -> Nat]
      /\ inbox' \in [Listeners -> Seq(Nat)]
      /\ \A m \in Listeners :
           received'[m] <= granted /\ Within(inbox'[m], 0, granted)
  BY <1>1, <1>2, SpinSomeTrails
<1>4. heard \in Nat /\ heard <= granted
  BY <1>3
<1>5. /\ waiting' \in BOOLEAN
      /\ \/ number' = number /\ orders' = orders
         \/ /\ number' = number + 1 /\ number <= granted
            /\ orders' = orders + 1 /\ orders < MaxOrders
  <2>1. CASE RaiseTotal(heard)
    BY <1>4, <2>1 DEF RaiseTotal
  <2>2. CASE AwaitAnswer(heard)
    BY <2>2 DEF AwaitAnswer
  <2>3. CASE OutOfStep(heard)
    BY <2>3 DEF OutOfStep
  <2>4. QED
    BY <2>1, <2>2, <2>3 DEF BuyBloodTick
<1>6. TypeOK'
  <2>1. number' \in Nat /\ orders' \in 0 .. MaxOrders
    BY <1>1, <1>5 DEF TypeOK
  <2>2. QED
    BY <1>1, <1>2, <1>3, <1>5, <2>1 DEF TypeOK
<1>7. ReportsTrail'
  BY <1>2, <1>3 DEF ReportsTrail
<1>8. TotalsOrdered'
  <2>1. /\ wire \in Seq(Nat) /\ 0 \in Nat
        /\ orders \in Nat /\ orders' \in Nat /\ orders <= orders'
    BY <1>1, <1>5 DEF TypeOK
  <2>2. Within(wire, 0, orders')
    BY <2>1, WithinWider DEF IInv, TotalsOrdered
  <2>3. QED
    BY <1>1, <1>2, <1>5, <2>2 DEF IInv, TotalsOrdered, TypeOK
<1>9. AsksOneAhead'
  BY <1>1, <1>2, <1>5 DEF IInv, AsksOneAhead, TypeOK
<1>10. QED
  BY <1>6, <1>7, <1>8, <1>9 DEF IInv

LEMMA OtherMissionIInv == IInv /\ OtherMission => IInv'
BY DEF OtherMission, record, shared, links, referee,
       IInv, TypeOK, ReportsTrail, TotalsOrdered, AsksOneAhead

(* A grant answers a Decision on the wire, none of which asks for more     *)
(* than was ordered.                                                       *)
LEMMA RefereeGrantsIInv == IInv /\ RefereeGrants => IInv'
<1> SUFFICES ASSUME IInv, RefereeGrants PROVE IInv'
  OBVIOUS
<1>1. /\ wire # <<>> /\ Head(wire) = granted + 1 /\ wire' = Tail(wire)
      /\ granted' = granted + 1 /\ hp' \in HpLevels
      /\ pc' = pc /\ number' = number /\ waiting' = waiting
      /\ awaiting' = awaiting /\ blood' = blood /\ timer' = timer
      /\ received' = received /\ inbox' = inbox /\ hpInbox' = hpInbox
      /\ blows' = blows /\ sent' = sent /\ orders' = orders
  BY DEF RefereeGrants, record, shared
<1>2. /\ TypeOK
      /\ wire \in Seq(Nat) /\ granted \in Nat /\ orders \in Nat
      /\ granted + 1 \in Nat /\ 0 \in Nat
  BY DEF IInv, TypeOK
<1>3. /\ wire' \in Seq(Nat)
      /\ Within(wire', 0, orders) /\ Head(wire) <= orders
  BY <1>1, <1>2, TailWithin DEF IInv, TotalsOrdered
<1>4. Within(wire', 0, granted + 1)
  BY <1>1, <1>2, TailWithin DEF IInv, AsksOneAhead
<1>5. Within(wire', 0, granted' + 1)
  <2>1. granted' + 1 \in Nat /\ granted + 1 <= granted' + 1
    BY <1>1, <1>2
  <2>2. QED
    BY <1>2, <1>3, <1>4, <2>1, WithinWider
<1>6. TypeOK'
  BY <1>1, <1>2, <1>3 DEF TypeOK
<1>7. ReportsTrail'
  <2>1. SUFFICES ASSUME NEW n \in Listeners
                 PROVE  /\ received[n] <= granted'
                        /\ Within(inbox[n], 0, granted')
    BY <1>1 DEF ReportsTrail
  <2>2. /\ inbox[n] \in Seq(Nat) /\ received[n] \in Nat
        /\ received[n] <= granted /\ Within(inbox[n], 0, granted)
    BY <1>2 DEF IInv, ReportsTrail, TypeOK
  <2>3. granted' \in Nat /\ granted <= granted'
    BY <1>1, <1>2
  <2>4. QED
    BY <1>2, <2>2, <2>3, WithinWider
<1>8. TotalsOrdered'
  BY <1>1, <1>2, <1>3 DEF IInv, TotalsOrdered, TypeOK
<1>9. AsksOneAhead'
  BY <1>1, <1>2, <1>5 DEF IInv, AsksOneAhead, TypeOK
<1>10. QED
  BY <1>6, <1>7, <1>8, <1>9 DEF IInv

LEMMA RefereeIgnoresIInv == IInv /\ RefereeIgnores => IInv'
<1> SUFFICES ASSUME IInv, RefereeIgnores PROVE IInv'
  OBVIOUS
<1>1. /\ wire # <<>> /\ wire' = Tail(wire)
      /\ pc' = pc /\ number' = number /\ waiting' = waiting
      /\ awaiting' = awaiting /\ blood' = blood /\ timer' = timer
      /\ received' = received /\ inbox' = inbox /\ hpInbox' = hpInbox
      /\ granted' = granted /\ hp' = hp
      /\ blows' = blows /\ sent' = sent /\ orders' = orders
  BY DEF RefereeIgnores, record, shared, referee
<1>2. /\ TypeOK /\ wire \in Seq(Nat) /\ orders \in Nat
      /\ granted + 1 \in Nat /\ 0 \in Nat
  BY DEF IInv, TypeOK
<1>3. wire' \in Seq(Nat) /\ Within(wire', 0, orders)
  BY <1>1, <1>2, TailWithin DEF IInv, TotalsOrdered
<1>4. Within(wire', 0, granted + 1)
  BY <1>1, <1>2, TailWithin DEF IInv, AsksOneAhead
<1>5. TypeOK'
  BY <1>1, <1>2, <1>3 DEF TypeOK
<1>6. QED
  BY <1>1, <1>3, <1>4, <1>5
     DEF IInv, ReportsTrail, TotalsOrdered, AsksOneAhead

LEMMA BloodChangesIInv == IInv /\ BloodChanges => IInv'
BY DEF BloodChanges, record, shared, links,
       IInv, TypeOK, ReportsTrail, TotalsOrdered, AsksOneAhead

LEMMA TotalReportedIInv ==
  ASSUME IInv, NEW reached \in SUBSET Listeners, TotalReported(reached)
  PROVE  IInv'
<1>1. /\ inbox' = [n \in Listeners |->
                     IF n \in reached THEN Publish(inbox[n], granted, Depth)
                                      ELSE inbox[n]]
      /\ pc' = pc /\ number' = number /\ waiting' = waiting
      /\ awaiting' = awaiting /\ blood' = blood /\ timer' = timer
      /\ received' = received /\ hpInbox' = hpInbox /\ wire' = wire
      /\ granted' = granted /\ hp' = hp
      /\ blows' = blows /\ sent' = sent /\ orders' = orders
  BY DEF TotalReported, record, shared, referee
<1>2. ASSUME NEW n \in Listeners
      PROVE  inbox'[n] \in Seq(Nat) /\ Within(inbox'[n], 0, granted)
  <2>1. /\ inbox[n] \in Seq(Nat) /\ granted \in Nat /\ 0 \in Nat
        /\ 0 <= granted /\ Within(inbox[n], 0, granted)
    BY DEF IInv, ReportsTrail, TypeOK
  <2>2. CASE n \in reached
    <3>1. inbox'[n] = Publish(inbox[n], granted, Depth)
      BY <1>1, <2>2
    <3>2. Publish(inbox[n], granted, Depth) \in Seq(Nat)
      BY <2>1, PublishType
    <3>3. Within(Publish(inbox[n], granted, Depth), 0, granted)
      BY <2>1, PublishWithin
    <3>4. QED
      BY <3>1, <3>2, <3>3
  <2>3. CASE n \notin reached
    BY <1>1, <2>1, <2>3
  <2>4. QED
    BY <2>2, <2>3
<1>3. TypeOK'
  <2>1. inbox' \in [Listeners -> Seq(Nat)]
    BY <1>1, <1>2
  <2>2. QED
    BY <1>1, <2>1 DEF IInv, TypeOK
<1>4. ReportsTrail'
  BY <1>1, <1>2 DEF IInv, ReportsTrail
<1>5. QED
  BY <1>1, <1>3, <1>4 DEF IInv, TotalsOrdered, AsksOneAhead

LEMMA BloodReportedIInv == IInv /\ BloodReported => IInv'
<1> SUFFICES ASSUME IInv, BloodReported PROVE IInv'
  OBVIOUS
<1>1. /\ hpInbox' = Publish(hpInbox, hp, Depth)
      /\ pc' = pc /\ number' = number /\ waiting' = waiting
      /\ awaiting' = awaiting /\ blood' = blood /\ timer' = timer
      /\ received' = received /\ inbox' = inbox /\ wire' = wire
      /\ granted' = granted /\ hp' = hp
      /\ blows' = blows /\ sent' = sent /\ orders' = orders
  BY DEF BloodReported, record, shared, referee
<1>2. hpInbox' \in Seq(HpLevels)
  <2>1. hpInbox \in Seq(HpLevels) /\ hp \in HpLevels /\ Depth \in Nat \ {0}
    BY DEF IInv, TypeOK
  <2>2. Publish(hpInbox, hp, Depth) \in Seq(HpLevels)
    BY <2>1, PublishKeepsType
  <2>3. QED
    BY <1>1, <2>2
<1>3. QED
  BY <1>1, <1>2 DEF IInv, TypeOK, ReportsTrail, TotalsOrdered, AsksOneAhead

LEMMA NextIInv == IInv /\ [Next]_vars => IInv'
<1> SUFFICES ASSUME IInv, [Next]_vars PROVE IInv'
  OBVIOUS
<1>1. CASE RecordTick
  BY <1>1, RecordTickIInv
<1>2. CASE SendDecisionTick
  BY <1>2, SendDecisionTickIInv
<1>3. CASE BuyBloodTick
  BY <1>3, BuyBloodTickIInv
<1>4. CASE OtherMission
  BY <1>4, OtherMissionIInv
<1>5. CASE RefereeGrants
  BY <1>5, RefereeGrantsIInv
<1>6. CASE RefereeIgnores
  BY <1>6, RefereeIgnoresIInv
<1>7. CASE BloodChanges
  BY <1>7, BloodChangesIInv
<1>8. CASE \E reached \in SUBSET Listeners : TotalReported(reached)
  BY <1>8, TotalReportedIInv
<1>9. CASE BloodReported
  BY <1>9, BloodReportedIInv
<1>10. CASE UNCHANGED vars
  BY <1>10 DEF vars, record, shared, links, referee,
       IInv, TypeOK, ReportsTrail, TotalsOrdered, AsksOneAhead
<1>11. QED
  BY <1>1, <1>2, <1>3, <1>4, <1>5, <1>6, <1>7, <1>8, <1>9, <1>10 DEF Next

(* The strengthening holds in every reachable state.                       *)
THEOREM Invariance == Spec => []IInv
BY InitIInv, NextIInv, PTL DEF Spec

(* Every variable keeps its type.                                          *)
THEOREM TypeCorrect == Spec => []TypeOK
<1>1. IInv => TypeOK
  BY DEF IInv
<1>2. QED
  BY Invariance, <1>1, PTL

(* The referee never grants blood BuyBlood did not order.                  *)
THEOREM EveryGrantOrdered == Spec => []GrantsWereOrdered
<1>1. IInv => GrantsWereOrdered
  BY DEF IInv, TotalsOrdered, GrantsWereOrdered
<1>2. QED
  BY Invariance, <1>1, PTL

(* No request runs more than one purchase ahead of the referee.            *)
THEOREM AlwaysOneAhead == Spec => []AsksOneAhead
<1>1. IInv => AsksOneAhead
  BY DEF IInv
<1>2. QED
  BY Invariance, <1>1, PTL

(* Every behaviour of the three nodes is one the purchase contract allows. *)
LEMMA InitContract == Init => Contract!Init
BY DEF Init, Contract!Init, Contents

LEMMA NextContract == IInv /\ [Next]_vars => [Contract!Next]_(Contract!cvars)
<1> SUFFICES ASSUME IInv, [Next]_vars PROVE [Contract!Next]_(Contract!cvars)
  OBVIOUS
<1>1. /\ wire \in Seq(Nat) /\ number \in Nat /\ orders \in Nat
      /\ granted \in Nat /\ number <= orders /\ number <= granted + 1
  BY DEF IInv, TypeOK, TotalsOrdered, AsksOneAhead
<1>2. CASE SendDecisionTick
  <2>1. /\ wire' = Publish(wire, number, WireDepth)
        /\ orders' = orders /\ granted' = granted
    BY <1>2 DEF SendDecisionTick, referee
  <2>2. WireDepth \in Nat \ {0}
    OBVIOUS
  <2>3. /\ number \in Contents(wire')
        /\ Contents(wire') \subseteq Contents(wire) \cup {number}
    BY <1>1, <2>1, <2>2, PublishContents
  <2>4. number \in 0 .. orders
    BY <1>1
  <2>5. QED
    BY <1>1, <2>1, <2>3, <2>4 DEF Contract!Next, Contract!Ask
<1>3. CASE BuyBloodTick
  <2>1. wire' = wire /\ granted' = granted
    BY <1>3 DEF BuyBloodTick, referee
  <2>2. orders' = orders \/ orders' = orders + 1
    BY <1>3 DEF BuyBloodTick, RaiseTotal, AwaitAnswer, OutOfStep
  <2>3. CASE orders' = orders
    BY <2>1, <2>3 DEF Contract!cvars
  <2>4. CASE orders' = orders + 1
    BY <2>1, <2>4 DEF Contract!Next, Contract!Order
  <2>5. QED
    BY <2>2, <2>3, <2>4
<1>4. CASE RefereeGrants
  <2>1. /\ wire # <<>> /\ Head(wire) = granted + 1 /\ wire' = Tail(wire)
        /\ granted' = granted + 1 /\ orders' = orders
    BY <1>4 DEF RefereeGrants
  <2>2. Head(wire) \in Contents(wire) /\ Contents(wire') \subseteq Contents(wire)
    BY <1>1, <2>1, TailContents
  <2>3. QED
    BY <2>1, <2>2 DEF Contract!Next, Contract!Grant
<1>5. CASE RefereeIgnores
  <2>1. /\ wire # <<>> /\ wire' = Tail(wire)
        /\ granted' = granted /\ orders' = orders
    BY <1>5 DEF RefereeIgnores, referee
  <2>2. Contents(wire') \subseteq Contents(wire)
    BY <1>1, <2>1, TailContents
  <2>3. QED
    BY <2>1, <2>2 DEF Contract!Next, Contract!Lose
<1>6. CASE \/ RecordTick \/ OtherMission \/ BloodChanges \/ BloodReported
           \/ (\E reached \in SUBSET Listeners : TotalReported(reached))
           \/ UNCHANGED vars
  <2>1. wire' = wire /\ granted' = granted /\ orders' = orders
    BY <1>6 DEF RecordTick, OtherMission, BloodChanges, BloodReported,
         TotalReported, vars, links, referee
  <2>2. QED
    BY <2>1 DEF Contract!cvars
<1>7. QED
  BY <1>2, <1>3, <1>4, <1>5, <1>6 DEF Next

(* The purchase of the three nodes implements the purchase contract.       *)
THEOREM RefinesContract == Spec => KeepsContract
BY InitContract, NextContract, Invariance, PTL
   DEF Spec, KeepsContract, Contract!Spec
=============================================================================
