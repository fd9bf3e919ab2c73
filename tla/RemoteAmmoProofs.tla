-------------------------- MODULE RemoteAmmoProofs --------------------------
(* RemoteAmmo is correct for every time-out, every queue length and every  *)
(* number of orders.                                                       *)
EXTENDS RemoteAmmo, TopicTheorems

USE CountSizeAssumption, DepthAssumption, WireDepthAssumption,
    MaxOrdersAssumption DEF Listeners

(* Counters that were just reset are in range.                             *)
LEMMA TimerReset ==
  /\ 0 \in 0 .. CountSize - 1
  /\ 0 \in 0 .. CountSize
  /\ 0 \in 0 .. MaxOrders
<1>1. CountSize \in Nat /\ CountSize # 0
  OBVIOUS
<1>2. CountSize - 1 \in Nat
  BY <1>1
<1>3. QED
  BY <1>1, <1>2

(* The initial state satisfies the inductive invariant.                    *)
LEMMA InitIInv == Init => IInv
<1>1. SUFFICES ASSUME Init PROVE IInv
  OBVIOUS
<1>2. TypeOK
  <2>1. <<>> \in Seq(Nat)
    OBVIOUS
  <2>2. /\ inbox \in [Listeners -> Seq(Nat)]
        /\ received \in [Listeners -> Nat]
    BY <1>1, <2>1 DEF Init
  <2>3. QED
    BY <1>1, <2>1, <2>2, TimerReset DEF Init, TypeOK
<1>3. QED
  BY <1>1, <1>2 DEF Init, IInv, ReportsInOrder, RequestsInWindow,
       RequestsOrdered, PassInStep, Within, Rising

(* What one spin_some of a listener does under the invariant: its copy     *)
(* rises, never past the referee, and the other listener is not disturbed. *)
LEMMA SpinSomeKeepsOrder ==
  ASSUME IInv, NEW n \in Listeners, SpinSome(n)
  PROVE  /\ received' \in [Listeners -> Nat]
         /\ inbox' \in [Listeners -> Seq(Nat)]
         /\ received[n] <= received'[n]
         /\ received'[n] <= granted
         /\ \A m \in Listeners \ {n} : received'[m] = received[m]
         /\ \A m \in Listeners :
              /\ received'[m] <= granted
              /\ Within(inbox'[m], received'[m], granted)
              /\ Rising(inbox'[m])
<1>1. /\ received \in [Listeners -> Nat]
      /\ inbox \in [Listeners -> Seq(Nat)]
      /\ granted \in Nat
  BY DEF IInv, TypeOK
<1>2. \A m \in Listeners :
        /\ received[m] <= granted
        /\ Within(inbox[m], received[m], granted)
        /\ Rising(inbox[m])
  BY DEF IInv, ReportsInOrder
<1>3. /\ Heard(inbox[n], received[n]) \in Nat
      /\ received[n] <= Heard(inbox[n], received[n])
      /\ Heard(inbox[n], received[n]) <= granted
      /\ Spun(inbox[n]) \in Seq(Nat)
      /\ Within(Spun(inbox[n]), Heard(inbox[n], received[n]), granted)
      /\ Rising(Spun(inbox[n]))
  <2>1. /\ inbox[n] \in Seq(Nat)
        /\ received[n] \in Nat
    BY <1>1
  <2>2. QED
    BY <1>1, <1>2, <2>1, SpinRises
<1>4. /\ received' = [received EXCEPT ![n] = Heard(inbox[n], received[n])]
      /\ inbox' = [inbox EXCEPT ![n] = Spun(inbox[n])]
  BY DEF SpinSome
<1>5. /\ received'[n] = Heard(inbox[n], received[n])
      /\ inbox'[n] = Spun(inbox[n])
      /\ \A m \in Listeners \ {n} :
           received'[m] = received[m] /\ inbox'[m] = inbox[m]
  BY <1>1, <1>4
<1>6. /\ received' \in [Listeners -> Nat]
      /\ inbox' \in [Listeners -> Seq(Nat)]
  BY <1>1, <1>3, <1>4
<1>7. QED
  BY <1>2, <1>3, <1>5, <1>6

(* RecordRobotStatus leaves the total at what it knows or one above it,    *)
(* and then the blackboard says the robot is waiting.                      *)
LEMMA RecordTickIInv == IInv /\ RecordTick => IInv'
<1> SUFFICES ASSUME IInv, RecordTick PROVE IInv'
  OBVIOUS
<1> DEFINE known == received["RecordRobotStatus"]
           heard == received'["RecordRobotStatus"]
<1>1. /\ SpinSome("RecordRobotStatus")
      /\ pc = "record" /\ pc' = "send"
      /\ wire' = wire /\ granted' = granted /\ sent' = sent
      /\ orders' = orders
  BY DEF RecordTick
<1>2. /\ received' \in [Listeners -> Nat]
      /\ inbox' \in [Listeners -> Seq(Nat)]
      /\ known <= heard
      /\ heard <= granted
      /\ \A m \in Listeners :
           /\ received'[m] <= granted
           /\ Within(inbox'[m], received'[m], granted)
           /\ Rising(inbox'[m])
  BY <1>1, SpinSomeKeepsOrder
<1>3. TypeOK /\ known \in Nat /\ heard \in Nat
  BY <1>2 DEF IInv, TypeOK
<1>4. /\ number' \in {heard, heard + 1}
      /\ number' \in {number, heard}
      /\ waiting' \in BOOLEAN
      /\ number' # heard => waiting'
      /\ timer' \in 0 .. CountSize - 1
  <2>1. CASE PurchaseConfirmed(heard)
    BY <1>3, <2>1 DEF PurchaseConfirmed, TypeOK
  <2>2. CASE PurchasePending(heard)
    BY <1>3, <2>2 DEF PurchasePending, TypeOK
  <2>3. CASE PurchaseTimedOut(heard)
    BY <1>3, <2>3, TimerReset DEF PurchaseTimedOut, TypeOK
  <2>4. CASE Resynchronise(heard)
    BY <1>3, <2>4 DEF Resynchronise, TypeOK
  <2>5. QED
    BY <2>1, <2>2, <2>3, <2>4 DEF RecordTick
<1>5. TypeOK'
  BY <1>1, <1>2, <1>3, <1>4 DEF TypeOK
<1>6. ReportsInOrder'
  BY <1>1, <1>2 DEF ReportsInOrder
<1>7. RequestsInWindow'
  <2>1. /\ granted <= known + 1 /\ sent <= known + 1
        /\ Within(wire, 0, known + 1)
    BY DEF IInv, RequestsInWindow
  <2>2. Within(wire, 0, heard + 1)
    <3>1. /\ wire \in Seq(Nat) /\ 0 \in Nat
          /\ known + 1 \in Nat /\ heard + 1 \in Nat
          /\ known + 1 <= heard + 1
      BY <1>2, <1>3 DEF TypeOK
    <3>2. QED
      BY <2>1, <3>1, WithinWider
  <2>3. QED
    BY <1>1, <1>2, <1>3, <1>4, <2>1, <2>2 DEF RequestsInWindow, TypeOK
<1>8. RequestsOrdered'
  BY <1>1, <1>2, <1>3, <1>4 DEF IInv, RequestsOrdered, TypeOK
<1>9. PassInStep'
  BY <1>1, <1>2, <1>3, <1>4
     DEF IInv, PassInStep, RequestsInWindow, TypeOK
<1>10. QED
  BY <1>5, <1>6, <1>7, <1>8, <1>9 DEF IInv

(* Publishing the total puts nothing on the wire outside the window.       *)
LEMMA SendDecisionTickIInv == IInv /\ SendDecisionTick => IInv'
<1> SUFFICES ASSUME IInv, SendDecisionTick PROVE IInv'
  OBVIOUS
<1> DEFINE known == received["RecordRobotStatus"]
<1>1. /\ pc = "send" /\ pc' = "mission"
      /\ wire' = Publish(wire, number, WireDepth) /\ sent' = number
      /\ number' = number /\ waiting' = waiting /\ received' = received
      /\ timer' = timer /\ inbox' = inbox /\ granted' = granted
      /\ orders' = orders
  BY DEF SendDecisionTick, node
<1>2. TypeOK /\ known \in Nat
  BY DEF IInv, TypeOK
<1>3. /\ wire \in Seq(Nat) /\ number \in Nat /\ orders \in Nat
      /\ 0 \in Nat /\ known + 1 \in Nat
  BY <1>2 DEF TypeOK
<1>4. wire' \in Seq(Nat)
  BY <1>1, <1>3, PublishType
<1>5. Within(wire', 0, known + 1)
  <2>1. Within(wire, 0, known + 1) /\ 0 <= number /\ number <= known + 1
    BY <1>3 DEF IInv, RequestsInWindow
  <2>2. QED
    BY <1>1, <1>3, <2>1, PublishWithin
<1>6. Within(wire', 0, orders)
  <2>1. Within(wire, 0, orders) /\ 0 <= number /\ number <= orders
    BY <1>3 DEF IInv, RequestsOrdered
  <2>2. QED
    BY <1>1, <1>3, <2>1, PublishWithin
<1>7. TypeOK'
  BY <1>1, <1>2, <1>4 DEF TypeOK
<1>8. ReportsInOrder'
  BY <1>1 DEF IInv, ReportsInOrder
<1>9. RequestsInWindow'
  BY <1>1, <1>5 DEF IInv, RequestsInWindow
<1>10. RequestsOrdered'
  BY <1>1, <1>6 DEF IInv, RequestsOrdered
<1>11. PassInStep'
  BY <1>1 DEF IInv, PassInStep
<1>12. QED
  BY <1>7, <1>8, <1>9, <1>10, <1>11 DEF IInv

(* BuyBullet raises the total only from what RecordRobotStatus knows: when *)
(* the total is above that, the blackboard says the robot is waiting.      *)
LEMMA BuyBulletTickIInv == IInv /\ BuyBulletTick => IInv'
<1> SUFFICES ASSUME IInv, BuyBulletTick PROVE IInv'
  OBVIOUS
<1> DEFINE known == received["RecordRobotStatus"]
           heard == received'["BuyBullet"]
<1>1. /\ SpinSome("BuyBullet")
      /\ pc = "mission" /\ pc' = "record"
      /\ timer' = timer /\ wire' = wire
      /\ granted' = granted /\ sent' = sent
  BY DEF BuyBulletTick
<1>2. /\ received' \in [Listeners -> Nat]
      /\ inbox' \in [Listeners -> Seq(Nat)]
      /\ received'["RecordRobotStatus"] = known
      /\ \A m \in Listeners :
           /\ received'[m] <= granted
           /\ Within(inbox'[m], received'[m], granted)
           /\ Rising(inbox'[m])
  BY <1>1, SpinSomeKeepsOrder
<1>3. TypeOK /\ known \in Nat /\ heard \in Nat
  BY <1>2 DEF IInv, TypeOK
<1>4. /\ number <= known + 1 /\ known <= number
      /\ number # known => waiting
      /\ number = sent
  BY <1>1 DEF IInv, RequestsInWindow, PassInStep
<1>5. /\ waiting' \in BOOLEAN
      /\ \/ number' = number /\ orders' = orders
         \/ /\ number = known
            /\ number' = number + 1
            /\ orders' = orders + 1
            /\ orders < MaxOrders
  <2>1. CASE RaiseTotal(heard)
    BY <1>3, <1>4, <2>1 DEF RaiseTotal, TypeOK
  <2>2. CASE AwaitAnswer(heard)
    BY <1>3, <2>2 DEF AwaitAnswer, TypeOK
  <2>3. CASE OutOfStep(heard)
    BY <1>3, <2>3 DEF OutOfStep, TypeOK
  <2>4. QED
    BY <2>1, <2>2, <2>3 DEF BuyBulletTick
<1>6. TypeOK'
  BY <1>1, <1>2, <1>3, <1>5 DEF TypeOK
<1>7. ReportsInOrder'
  BY <1>1, <1>2 DEF ReportsInOrder
<1>8. RequestsInWindow'
  BY <1>1, <1>2, <1>3, <1>4, <1>5 DEF IInv, RequestsInWindow, TypeOK
<1>9. RequestsOrdered'
  <2>1. Within(wire, 0, orders')
    <3>1. /\ wire \in Seq(Nat) /\ orders \in Nat /\ orders' \in Nat
          /\ orders <= orders' /\ 0 \in Nat
      BY <1>3, <1>5 DEF TypeOK
    <3>2. QED
      BY <3>1, WithinWider DEF IInv, RequestsOrdered
  <2>2. QED
    BY <1>1, <1>3, <1>5, <2>1 DEF IInv, RequestsOrdered, TypeOK
<1>10. PassInStep'
  BY <1>1, <1>2, <1>3, <1>4, <1>5 DEF PassInStep, TypeOK
<1>11. QED
  BY <1>6, <1>7, <1>8, <1>9, <1>10 DEF IInv

LEMMA OtherMissionIInv == IInv /\ OtherMission => IInv'
<1> SUFFICES ASSUME IInv, OtherMission PROVE IInv'
  OBVIOUS
<1>1. /\ pc = "mission" /\ pc' = "record"
      /\ number' = number /\ waiting' = waiting /\ received' = received
      /\ timer' = timer /\ inbox' = inbox /\ wire' = wire
      /\ granted' = granted /\ sent' = sent /\ orders' = orders
  BY DEF OtherMission, node, links
<1>2. PassInStep'
  BY <1>1 DEF IInv, PassInStep, TypeOK
<1>3. QED
  BY <1>1, <1>2 DEF IInv, TypeOK, ReportsInOrder, RequestsInWindow,
       RequestsOrdered

(* The referee grants only what stands on the wire, hence at most one      *)
(* purchase above what RecordRobotStatus knows and at most what was        *)
(* ordered.                                                                *)
LEMMA RefereeHearsIInv ==
  ASSUME IInv, NEW grant \in BOOLEAN, RefereeHears(grant)
  PROVE  IInv'
<1> DEFINE known == received["RecordRobotStatus"]
<1>1. /\ wire # <<>> /\ wire' = Tail(wire)
      /\ grant => Head(wire) = granted + 1
      /\ granted' = IF grant THEN granted + 1 ELSE granted
      /\ pc' = pc /\ number' = number /\ waiting' = waiting
      /\ received' = received /\ timer' = timer /\ inbox' = inbox
      /\ sent' = sent /\ orders' = orders
  BY DEF RefereeHears, node
<1>2. TypeOK /\ known \in Nat
  BY DEF IInv, TypeOK
<1>3. /\ wire \in Seq(Nat) /\ orders \in Nat /\ granted \in Nat
      /\ 0 \in Nat /\ known + 1 \in Nat
  BY <1>2 DEF TypeOK
<1>4. /\ wire' \in Seq(Nat)
      /\ Within(wire', 0, known + 1)
      /\ Head(wire) <= known + 1
  <2>1. Within(wire, 0, known + 1)
    BY DEF IInv, RequestsInWindow
  <2>2. QED
    BY <1>1, <1>3, <2>1, TailWithin
<1>5. /\ Within(wire', 0, orders)
      /\ Head(wire) <= orders
  <2>1. Within(wire, 0, orders)
    BY DEF IInv, RequestsOrdered
  <2>2. QED
    BY <1>1, <1>3, <2>1, TailWithin
<1>6. TypeOK'
  BY <1>1, <1>2, <1>4 DEF TypeOK
<1>7. /\ granted' \in Nat
      /\ granted <= granted'
      /\ granted' <= known + 1
      /\ granted' <= orders
  BY <1>1, <1>3, <1>4, <1>5 DEF IInv, RequestsInWindow, RequestsOrdered
<1>8. ReportsInOrder'
  <2>1. SUFFICES ASSUME NEW n \in Listeners
                 PROVE  /\ received[n] <= granted'
                        /\ Within(inbox[n], received[n], granted')
                        /\ Rising(inbox[n])
    BY <1>1 DEF ReportsInOrder
  <2>2. /\ inbox[n] \in Seq(Nat) /\ received[n] \in Nat
        /\ received[n] <= granted
        /\ Within(inbox[n], received[n], granted)
        /\ Rising(inbox[n])
    BY <1>2 DEF IInv, ReportsInOrder, TypeOK
  <2>3. QED
    BY <1>3, <1>7, <2>2, WithinWider
<1>9. RequestsInWindow'
  BY <1>1, <1>4, <1>7 DEF IInv, RequestsInWindow
<1>10. RequestsOrdered'
  BY <1>1, <1>5, <1>7 DEF IInv, RequestsOrdered
<1>11. PassInStep'
  BY <1>1 DEF IInv, PassInStep
<1>12. QED
  BY <1>6, <1>8, <1>9, <1>10, <1>11 DEF IInv

(* A report carries the referee's present count, the largest so far.       *)
LEMMA RefereeReportsIInv ==
  ASSUME IInv, NEW reached \in SUBSET Listeners, RefereeReports(reached)
  PROVE  IInv'
<1>1. /\ inbox' = [n \in Listeners |->
                     IF n \in reached THEN Publish(inbox[n], granted, Depth)
                                      ELSE inbox[n]]
      /\ pc' = pc /\ number' = number /\ waiting' = waiting
      /\ received' = received /\ timer' = timer /\ wire' = wire
      /\ granted' = granted /\ sent' = sent /\ orders' = orders
  BY DEF RefereeReports, node
<1>2. TypeOK
  BY DEF IInv
<1>3. ASSUME NEW n \in Listeners
      PROVE  /\ inbox'[n] \in Seq(Nat)
             /\ Within(inbox'[n], received[n], granted)
             /\ Rising(inbox'[n])
  <2>1. /\ inbox[n] \in Seq(Nat) /\ received[n] \in Nat
        /\ granted \in Nat /\ received[n] <= granted
        /\ Within(inbox[n], received[n], granted)
        /\ Rising(inbox[n])
    BY <1>2 DEF IInv, ReportsInOrder, TypeOK
  <2>2. CASE n \in reached
    <3>1. inbox'[n] = Publish(inbox[n], granted, Depth)
      BY <1>1, <2>2
    <3>2. Publish(inbox[n], granted, Depth) \in Seq(Nat)
      BY <2>1, PublishType
    <3>3. Within(Publish(inbox[n], granted, Depth), received[n], granted)
      BY <2>1, PublishWithin
    <3>4. Rising(Publish(inbox[n], granted, Depth))
      BY <2>1, PublishRising
    <3>5. QED
      BY <3>1, <3>2, <3>3, <3>4
  <2>3. CASE n \notin reached
    BY <1>1, <2>1, <2>3
  <2>4. QED
    BY <2>2, <2>3
<1>4. TypeOK'
  <2>1. inbox' \in [Listeners -> Seq(Nat)]
    BY <1>1, <1>3
  <2>2. QED
    BY <1>1, <1>2, <2>1 DEF TypeOK
<1>5. ReportsInOrder'
  BY <1>1, <1>3 DEF IInv, ReportsInOrder
<1>6. QED
  BY <1>1, <1>4, <1>5 DEF IInv, RequestsInWindow, RequestsOrdered, PassInStep

LEMMA StutterIInv == IInv /\ UNCHANGED vars => IInv'
BY DEF IInv, TypeOK, ReportsInOrder, RequestsInWindow, RequestsOrdered,
       PassInStep, vars, node, links

LEMMA NextIInv == IInv /\ [Next]_vars => IInv'
<1> SUFFICES ASSUME IInv, [Next]_vars PROVE IInv'
  OBVIOUS
<1>1. CASE RecordTick
  BY <1>1, RecordTickIInv
<1>2. CASE SendDecisionTick
  BY <1>2, SendDecisionTickIInv
<1>3. CASE BuyBulletTick
  BY <1>3, BuyBulletTickIInv
<1>4. CASE OtherMission
  BY <1>4, OtherMissionIInv
<1>5. CASE \E grant \in BOOLEAN : RefereeHears(grant)
  BY <1>5, RefereeHearsIInv
<1>6. CASE \E reached \in SUBSET Listeners : RefereeReports(reached)
  BY <1>6, RefereeReportsIInv
<1>7. CASE UNCHANGED vars
  BY <1>7, StutterIInv
<1>8. QED
  BY <1>1, <1>2, <1>3, <1>4, <1>5, <1>6, <1>7 DEF Next

(* The strengthening holds in every reachable state.                       *)
THEOREM Invariance == Spec => []IInv
BY InitIInv, NextIInv, PTL DEF Spec

(* Every variable keeps its type.                                          *)
THEOREM TypeCorrect == Spec => []TypeOK
<1>1. IInv => TypeOK
  BY DEF IInv
<1>2. QED
  BY Invariance, <1>1, PTL

(* RecordRobotStatus, BuyBullet and the referee never drift apart by more  *)
(* than one purchase, whatever is lost, late or timed out.                 *)
THEOREM UnseenGrantBound == Spec => []AtMostOneUnseenGrant
<1>1. IInv => AtMostOneUnseenGrant
  BY DEF IInv, RequestsInWindow, AtMostOneUnseenGrant
<1>2. QED
  BY Invariance, <1>1, PTL

(* The referee never grants a purchase BuyBullet did not order.            *)
THEOREM EveryGrantOrdered == Spec => []GrantsWereOrdered
<1>1. IInv => GrantsWereOrdered
  BY DEF IInv, RequestsOrdered, GrantsWereOrdered
<1>2. QED
  BY Invariance, <1>1, PTL

(* The total on the blackboard is at most one above what the reconciling   *)
(* node knows.                                                             *)
THEOREM RaiseBound == Spec => []OneRaiseAtATime
<1>1. IInv => OneRaiseAtATime
  BY DEF IInv, RequestsInWindow, OneRaiseAtATime
<1>2. QED
  BY Invariance, <1>1, PTL

(* The Decisions of Decision.msg: the total they carry rises by at most    *)
(* one.                                                                    *)
THEOREM LegalRises == Spec => SentRisesByOne
<1>1. IInv /\ [Next]_vars => [sent' <= sent + 1]_sent
  <2> SUFFICES ASSUME IInv, Next, sent' # sent PROVE sent' <= sent + 1
    BY DEF vars
  <2>1. CASE SendDecisionTick
    BY <2>1 DEF SendDecisionTick, IInv, PassInStep
  <2>2. QED
    BY <2>1 DEF Next, RecordTick, BuyBulletTick, OtherMission, RefereeHears,
         RefereeReports
<1>2. QED
  BY Invariance, <1>1, PTL DEF Spec, SentRisesByOne

(* Every behaviour of the three nodes is one the purchase contract allows. *)
LEMMA InitContract == Init => Contract!Init
BY DEF Init, Contract!Init, Contents

LEMMA NextContract == IInv /\ [Next]_vars => [Contract!Next]_(Contract!cvars)
<1> SUFFICES ASSUME IInv, [Next]_vars PROVE [Contract!Next]_(Contract!cvars)
  OBVIOUS
<1>1. /\ wire \in Seq(Nat) /\ number \in Nat /\ orders \in Nat
      /\ granted \in Nat /\ number <= orders /\ number <= granted + 1
  <2>1. received["RecordRobotStatus"] \in Nat
    BY DEF IInv, TypeOK
  <2>2. /\ received["RecordRobotStatus"] <= granted
        /\ number <= received["RecordRobotStatus"] + 1
    BY DEF IInv, ReportsInOrder, RequestsInWindow
  <2>3. QED
    BY <2>1, <2>2 DEF IInv, TypeOK, RequestsOrdered
<1>2. CASE SendDecisionTick
  <2>1. /\ wire' = Publish(wire, number, WireDepth)
        /\ orders' = orders /\ granted' = granted
    BY <1>2 DEF SendDecisionTick
  <2>2. WireDepth \in Nat \ {0}
    OBVIOUS
  <2>3. /\ number \in Contents(wire')
        /\ Contents(wire') \subseteq Contents(wire) \cup {number}
    BY <1>1, <2>1, <2>2, PublishContents
  <2>4. number \in 0 .. orders
    BY <1>1
  <2>5. QED
    BY <1>1, <2>1, <2>3, <2>4 DEF Contract!Next, Contract!Ask
<1>3. CASE BuyBulletTick
  <2>1. wire' = wire /\ granted' = granted
    BY <1>3 DEF BuyBulletTick
  <2>2. orders' = orders \/ orders' = orders + 1
    BY <1>3 DEF BuyBulletTick, RaiseTotal, AwaitAnswer, OutOfStep
  <2>3. CASE orders' = orders
    BY <2>1, <2>3 DEF Contract!cvars
  <2>4. CASE orders' = orders + 1
    BY <2>1, <2>4 DEF Contract!Next, Contract!Order
  <2>5. QED
    BY <2>2, <2>3, <2>4
<1>4. CASE \E grant \in BOOLEAN : RefereeHears(grant)
  <2>1. /\ wire # <<>> /\ wire' = Tail(wire) /\ orders' = orders
        /\ \/ granted' = granted
           \/ granted' = granted + 1 /\ Head(wire) = granted + 1
    BY <1>4 DEF RefereeHears
  <2>2. Head(wire) \in Contents(wire) /\ Contents(wire') \subseteq Contents(wire)
    BY <1>1, <2>1, TailContents
  <2>3. CASE granted' = granted
    BY <2>1, <2>2, <2>3 DEF Contract!Next, Contract!Lose
  <2>4. CASE granted' = granted + 1 /\ Head(wire) = granted + 1
    BY <2>1, <2>2, <2>4 DEF Contract!Next, Contract!Grant
  <2>5. QED
    BY <2>1, <2>3, <2>4
<1>5. CASE \/ RecordTick \/ OtherMission \/ UNCHANGED vars
           \/ (\E reached \in SUBSET Listeners : RefereeReports(reached))
  <2>1. wire' = wire /\ granted' = granted /\ orders' = orders
    BY <1>5 DEF RecordTick, OtherMission, RefereeReports, vars, links
  <2>2. QED
    BY <2>1 DEF Contract!cvars
<1>6. QED
  BY <1>2, <1>3, <1>4, <1>5 DEF Next

(* The purchase of the three nodes implements the purchase contract.       *)
THEOREM RefinesContract == Spec => KeepsContract
BY InitContract, NextContract, Invariance, PTL
   DEF Spec, KeepsContract, Contract!Spec
=============================================================================
