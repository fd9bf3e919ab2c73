------------------------ MODULE AimAndEscapeProofs ------------------------
(***************************************************************************)
(* What the sentry does in a fight: whom it aims at and chases, and how it *)
(* frees itself when it does not get on.  The two share no state.          *)
(*                                                                         *)
(* Turret and chassis follow the same enemy, for every list of robots,     *)
(* every priority and every delay.  Navigation is always sent after the    *)
(* weakest robot, the turret also after the hero; that these are the same  *)
(* needs to know that all robots are held to be equally weak (EqualBlood): *)
(* the blood points that are received are not believed.                    *)
(*                                                                         *)
(* Forced moves are whole, for every threshold and every length of a move. *)
(* That a move which is complete was whole needs to know how far one that  *)
(* is not complete has come: its counter and what was sent move in step    *)
(* (MoveInStep), and ForceMove only goes on with a move that is not        *)
(* complete (ChosenWhenComplete).                                          *)
(***************************************************************************)
EXTENDS SentryStrategy, Escape, WellFoundedInduction, TLAPS

-----------------------------------------------------------------------------
(* Aiming and chasing.                                                     *)

(* The types of what is seen and known, of what is held, and of what was   *)
(* answered.                                                               *)
SeenOK ==
  /\ detected \subseteq Targets /\ whitelist \subseteq Targets
  /\ omni \subseteq Robots
  /\ blood \in [Robots -> Nat]

HeldOK == omniId \in Robots \cup {None} /\ lostDelayCnt \in 0..LostDelay

FlagsOK == omniDetected \in BOOLEAN /\ lostWaiting \in BOOLEAN

OutputOK ==
  /\ dogCnt \in 0..DogThreshold
  /\ answer \in [err : 0..2, id : Targets \cup {None}]
  /\ goal \in Robots \cup {None}

EqualBlood == \A r, s \in Robots : blood[r] = blood[s]

HoldsARobot == omniDetected => omniId \in Robots

Types == SeenOK /\ HeldOK /\ FlagsOK /\ OutputOK
Held  == HoldsARobot /\ WaitHoldsATarget
Chase == ChasesTheForcedRobot /\ ChaseIsFresh

AimInv == Types /\ EqualBlood /\ Held /\ Chase

USE RobotsAssumption, DelaysAssumption

(* Numbers have a least one among them.                                    *)
LEMMA LeastNumber ==
  ASSUME NEW N \in SUBSET Nat, N # {}
  PROVE  \E i \in N : \A j \in N : i <= j
<1>1. PICK i \in N : \A j \in N : ~(<<j, i>> \in OpToRel(<, Nat))
      BY WFMin, NatLessThanWellFounded, Zenon
<1>2. \A j \in N : ~(j < i)
      BY <1>1 DEF OpToRel
<1> QED
    BY <1>2

(* A sequence with a member in S has a first one, which First finds.       *)
LEMMA FirstFound ==
  ASSUME NEW T, NEW seq \in Seq(T), NEW S, \E i \in DOMAIN seq : seq[i] \in S
  PROVE  First(seq, S) \in S /\ First(seq, S) \in T
<1> DEFINE Hits == {i \in DOMAIN seq : seq[i] \in S}
<1>1. Hits \subseteq Nat /\ Hits # {}
      OBVIOUS
<1>2. PICK i \in Hits : \A j \in Hits : i <= j
      BY <1>1, LeastNumber
<1>3. \A j \in Hits : ~(j < i)
      BY <1>2
<1>4. i \in DOMAIN seq /\ seq[i] \in S /\ \A j \in 1..(i - 1) : seq[j] \notin S
      BY <1>3
<1>5. PICK k \in DOMAIN seq :
        /\ seq[k] \in S /\ \A j \in 1..(k - 1) : seq[j] \notin S
        /\ First(seq, S) = seq[k]
      BY <1>4, Zenon DEF First
<1> QED
    BY <1>5

(* The first member of the sequence, when it is in S.                      *)
LEMMA FirstIsHead ==
  ASSUME NEW T, NEW seq \in Seq(T), NEW S, seq # <<>>, seq[1] \in S
  PROVE  First(seq, S) = seq[1]
<1>1. 1 \in DOMAIN seq /\ \A j \in 1..(1 - 1) : seq[j] \notin S
      OBVIOUS
<1>2. PICK k \in DOMAIN seq :
        /\ seq[k] \in S /\ \A j \in 1..(k - 1) : seq[j] \notin S
        /\ First(seq, S) = seq[k]
      BY <1>1, Zenon DEF First
<1> QED
    BY <1>2

(* Some locked robot has the least blood, and Weakest is one of those.     *)
LEMMA WeakestIsLocked ==
  ASSUME LockedRobots # {}, blood \in [Robots -> Nat]
  PROVE  Weakest \in LockedRobots
<1> DEFINE Points == {blood[r] : r \in LockedRobots}
           Least == {r \in LockedRobots :
                       \A s \in LockedRobots : blood[r] <= blood[s]}
<1>1. LockedRobots \subseteq Robots
      BY DEF LockedRobots
<1>2. Points \subseteq Nat /\ Points # {}
      BY <1>1
<1>3. \E b \in Points : \A c \in Points : b <= c
  <2> HIDE DEF Points
  <2> QED
      BY <1>2, LeastNumber
<1>4. PICK b \in Points : \A c \in Points : b <= c
      BY <1>3, Zenon
<1>5. PICK r \in LockedRobots : blood[r] = b
      OBVIOUS
<1>6. r \in Least
  <2>1. \A s \in LockedRobots : blood[s] \in Points
        OBVIOUS
  <2> QED
      BY <1>4, <1>5, <2>1, Zenon
<1>7. PICK i \in DOMAIN RobotOrder : RobotOrder[i] = r
      BY <1>1 DEF Robots
<1>8. \E j \in DOMAIN RobotOrder : RobotOrder[j] \in Least
      BY <1>6, <1>7
<1>9. First(RobotOrder, Least) \in Least
      BY <1>8, FirstFound
<1> QED
    BY <1>9 DEF Weakest

(* Among equals the weakest is the hero, when it is locked.                *)
LEMMA WeakestIsHero ==
  ASSUME EqualBlood, blood \in [Robots -> Nat], Hero \in LockedRobots
  PROVE  Weakest = Hero
<1> DEFINE Least == {r \in LockedRobots :
                       \A s \in LockedRobots : blood[r] <= blood[s]}
<1>1. \A r, s \in LockedRobots : blood[r] <= blood[s]
      BY DEF EqualBlood, LockedRobots
<1>2. Hero \in Least
      BY <1>1
<1>3. First(RobotOrder, Least) = Hero
      BY <1>2, FirstIsHead DEF Hero
<1> QED
    BY <1>3 DEF Weakest

(* What the slots of a message hold.                                       *)
LEMMA OrderType == Order \in Seq(Targets) /\ Len(Order) = Len(RobotOrder) + 2
<1>1. RobotOrder \in Seq(Targets) /\ <<"outpost", "base">> \in Seq(Targets)
      BY DEF Targets, Structures
<1> QED
    BY <1>1 DEF Order

LEMMA OrderEnds ==
  \A s \in Structures : \E i \in DOMAIN Order : Order[i] = s
<1> SUFFICES ASSUME NEW s \in Structures
             PROVE  \E i \in DOMAIN Order : Order[i] = s
    OBVIOUS
<1> DEFINE ends == <<"outpost", "base">>
           m == Len(RobotOrder)
<1>1. RobotOrder \in Seq(Targets) /\ ends \in Seq(Targets) /\ Len(ends) = 2
      BY DEF Targets, Structures
<1>2. m \in Nat /\ Len(Order) = m + 2
      BY OrderType
<1>3. Order[m + 1] = ends[1] /\ Order[m + 2] = ends[2]
      BY <1>1 DEF Order
<1>4. m + 1 \in DOMAIN Order /\ m + 2 \in DOMAIN Order
  <2>1. DOMAIN Order = 1..Len(Order)
        BY OrderType
  <2> QED
      BY <1>2, <2>1
<1>5. s = Order[m + 1] \/ s = Order[m + 2]
      BY <1>3 DEF Structures
<1> HIDE DEF m
<1> QED
    BY <1>4, <1>5, Zenon

LEMMA SlotsType ==
  /\ \A n \in 0..Len(Order) : Slots(n) \subseteq Targets
  /\ \A n \in 0..Len(RobotOrder) : Slots(n) \subseteq Robots
<1>1. \A n \in 0..Len(Order) : Slots(n) \subseteq Targets
      BY OrderType DEF Slots
<1>2. ASSUME NEW i \in 1..Len(RobotOrder)
      PROVE  Order[i] = RobotOrder[i] /\ RobotOrder[i] \in Robots
  <2>1. <<"outpost", "base">> \in Seq(Targets) /\ RobotOrder \in Seq(Targets)
        BY DEF Targets, Structures
  <2> QED
      BY <2>1 DEF Order
<1>3. \A n \in 0..Len(RobotOrder) : Slots(n) \subseteq Robots
  <2> SUFFICES ASSUME NEW n \in 0..Len(RobotOrder), NEW i \in 1..n
               PROVE  Order[i] \in Robots
      BY DEF Slots
  <2>1. i \in 1..Len(RobotOrder)
        OBVIOUS
  <2> QED
      BY <1>2, <2>1
<1> QED
    BY <1>1, <1>3

(* No target is held, and navigation does not chase.                       *)
LEMMA InitHolds == Init => AimInv
<1> SUFFICES ASSUME Init
             PROVE  AimInv
    OBVIOUS
<1> USE DEF Init
<1>1. SeenOK /\ HeldOK /\ OutputOK
      BY DEF SeenOK, HeldOK, OutputOK
<1>2. FlagsOK
      BY DEF FlagsOK
<1>3. EqualBlood /\ Held /\ Chase
      BY DEF EqualBlood, Held, HoldsARobot, WaitHoldsATarget, Chase,
             ChasesTheForcedRobot, ChaseIsFresh
<1> QED
    BY <1>1, <1>2, <1>3 DEF AimInv, Types

-----------------------------------------------------------------------------
(* What a request stores is still a set of targets.                        *)
LEMMA FuseType ==
  ASSUME SeenOK, NEW n \in 0..Len(Order), NEW seen,
         Fuse(n, seen), UNCHANGED advice
  PROVE  SeenOK'
BY SlotsType DEF SeenOK, Fuse, Store, advice

(* A target that is held, while only the omnidirectional cameras see it,   *)
(* is a robot; who waits for one keeps waiting for one.                    *)
LEMMA HoldKeeps ==
  ASSUME FlagsOK, HeldOK, HoldsARobot, WaitHoldsATarget,
         LostProtection, NEW r \in Robots, NEW seen, Hold(r, seen)
  PROVE  FlagsOK' /\ HeldOK' /\ Held'
<1>1. /\ lostWaiting' =
           (lostWaiting \/ (omniDetected /\ omniId \notin detected'))
      /\ lostDelayCnt' = lostDelayCnt
      BY DEF LostProtection
<1>2. omniDetected' = (omniDetected \/ r \notin seen)
      BY DEF Hold
<1>3. omniId' = IF r \in seen THEN omniId ELSE r
      BY DEF Hold
<1>4. FlagsOK'
      BY <1>1, <1>2, Zenon DEF FlagsOK
<1>5. HeldOK'
      BY <1>1, <1>3 DEF HeldOK
<1>6. Held'
  <2>1. CASE r \in seen
    <3>1. omniId' = omniId
          BY <1>3, <2>1
    <3> QED
        BY <1>1, <1>2, <2>1, <3>1, Zenon
           DEF Held, HoldsARobot, WaitHoldsATarget
  <2>2. CASE r \notin seen
    <3>1. omniId' = r
          BY <1>3, <2>2
    <3> QED
        BY <1>2, <2>2, <3>1, Zenon DEF Held, HoldsARobot, WaitHoldsATarget
  <2> QED
      BY <2>1, <2>2
<1> QED
    BY <1>4, <1>5, <1>6

LEMMA UnheldKeeps ==
  ASSUME FlagsOK, HeldOK, HoldsARobot, WaitHoldsATarget,
         LostProtection, UNCHANGED held
  PROVE  FlagsOK' /\ HeldOK' /\ Held'
<1>1. /\ lostWaiting' =
           (lostWaiting \/ (omniDetected /\ omniId \notin detected'))
      /\ lostDelayCnt' = lostDelayCnt
      BY DEF LostProtection
<1>2. omniDetected' = omniDetected /\ omniId' = omniId
      BY DEF held
<1>3. FlagsOK'
      BY <1>1, <1>2, Zenon DEF FlagsOK
<1>4. HeldOK'
      BY <1>1, <1>2 DEF HeldOK
<1>5. Held'
      BY <1>1, <1>2, Zenon DEF Held, HoldsARobot, WaitHoldsATarget
<1> QED
    BY <1>3, <1>4, <1>5

(* An answer with the robot that is chased, or without a chase.            *)
LEMMA AnswerKeeps ==
  ASSUME NEW err \in 0..2, NEW id \in Targets \cup {None}, Answer(err, id),
         goal' \in Robots \cup {None}, goal' # None => err = 1 /\ goal' = id
  PROVE  OutputOK' /\ Chase'
BY DEF Answer, OutputOK, Chase, ChasesTheForcedRobot, ChaseIsFresh

(* The request: rejected, or answered by the first strategy that applies.  *)
LEMMA RequestHolds ==
  ASSUME AimInv, NEW n \in 0..Len(Order), NEW seen,
         SentryStrategyServiceCallback(n, seen)
  PROVE  AimInv'
<1>1. /\ SeenOK /\ HeldOK /\ FlagsOK /\ OutputOK
      /\ EqualBlood /\ HoldsARobot /\ WaitHoldsATarget
      BY DEF AimInv, Types, Held
<1>2. UNCHANGED advice /\ Fuse(n, seen)
      BY DEF SentryStrategyServiceCallback, RejectRequest
<1>3. SeenOK' /\ EqualBlood'
      BY <1>1, <1>2, FuseType DEF EqualBlood, advice
<1>4. blood \in [Robots -> Nat] /\ blood' = blood
      BY <1>1, <1>2 DEF SeenOK, advice
<1>5. /\ LockedRobots \subseteq Robots /\ Robots \subseteq Targets
      /\ LockedRobots \subseteq detected'
      BY DEF LockedRobots, Locked, Targets
<1>6. CASE RejectRequest(n, seen)
  <2>1. OutputOK' /\ Chase'
        BY <1>6, AnswerKeeps DEF RejectRequest
  <2>2. FlagsOK' /\ HeldOK' /\ Held'
        BY <1>1, <1>6
           DEF RejectRequest, held, lost, FlagsOK, HeldOK, Held, HoldsARobot,
               WaitHoldsATarget
  <2> QED
      BY <1>3, <2>1, <2>2 DEF AimInv, Types
<1>7. CASE LostProtection /\ (SwitchOff \/ AttackStructure)
  <2>1. FlagsOK' /\ HeldOK' /\ Held'
        BY <1>1, <1>7, UnheldKeeps DEF SwitchOff, AttackStructure
  <2>2. CASE SwitchOff
    <3>1. OutputOK' /\ Chase'
          BY <2>2, AnswerKeeps DEF SwitchOff
    <3> QED
        BY <1>3, <2>1, <3>1 DEF AimInv, Types
  <2>3. CASE AttackStructure
    <3>1. First(Order, Locked \cap Structures) \in Targets
      <4>1. \E i \in DOMAIN Order : Order[i] \in Locked \cap Structures
        <5>1. PICK s \in Locked \cap Structures : TRUE
              BY <2>3 DEF AttackStructure
        <5>2. \E i \in DOMAIN Order : Order[i] = s
              BY OrderEnds, Zenon
        <5> QED
            BY <5>2
      <4> QED
          BY <4>1, FirstFound, OrderType
    <3>2. OutputOK' /\ Chase'
          BY <2>3, <3>1, AnswerKeeps DEF AttackStructure
    <3> QED
        BY <1>3, <2>1, <3>2 DEF AimInv, Types
  <2> QED
      BY <1>7, <2>2, <2>3
<1>8. CASE LostProtection /\ ChaseWeakOrHero(seen)
  <2> DEFINE target == IF Finishable THEN Weakest ELSE Hero
  <2>1. /\ Finishable \/ Hero \in Locked
        /\ Answer(1, target) /\ Hold(target, seen) /\ goal' = Weakest
        BY <1>8 DEF ChaseWeakOrHero
  <2>2. Hero \in Robots
        BY DEF Hero
  <2>3. LockedRobots # {}
        BY <2>1, <2>2 DEF Finishable, LockedRobots
  <2>4. Weakest \in Robots
        BY <1>4, <1>5, <2>3, WeakestIsLocked
  <2>5. target = Weakest
        BY <1>1, <1>4, <2>1, <2>2, WeakestIsHero DEF LockedRobots
  <2>6. FlagsOK' /\ HeldOK' /\ Held'
        BY <1>1, <1>8, <2>1, <2>4, <2>5, HoldKeeps
  <2>7. OutputOK' /\ Chase'
        BY <1>5, <2>1, <2>4, <2>5, AnswerKeeps
  <2> QED
      BY <1>3, <2>6, <2>7 DEF AimInv, Types
<1>9. CASE LostProtection /\ AttackPreferred(seen)
  <2> DEFINE target == First(Priority, detected')
  <2>1. /\ LockedRobots # {}
        /\ Answer(1, target) /\ Hold(target, seen)
        /\ goal' = IF DefaultChasing THEN target ELSE None
        BY <1>9 DEF AttackPreferred
  <2>2. \E i \in DOMAIN Priority : Priority[i] \in detected'
        BY <1>5, <2>1
  <2>3. target \in Robots
        BY <2>2, FirstFound
  <2>4. FlagsOK' /\ HeldOK' /\ Held'
        BY <1>1, <1>9, <2>1, <2>3, HoldKeeps
  <2>5. OutputOK' /\ Chase'
        BY <1>5, <2>1, <2>3, AnswerKeeps
  <2> QED
      BY <1>3, <2>4, <2>5 DEF AimInv, Types
<1> QED
    BY <1>6, <1>7, <1>8, <1>9 DEF SentryStrategyServiceCallback

-----------------------------------------------------------------------------
(* The whitelist comes with the same blood for all, and the watchdog stops *)
(* a chase nobody asked about any more.                                    *)
LEMMA StrategyHolds ==
  ASSUME AimInv, NEW allowed \in SUBSET Targets, NEW points \in BloodReports,
         AutoaimStrategyCallback(allowed, points)
  PROVE  AimInv'
<1> USE DEF AutoaimStrategyCallback
<1>1. Types /\ Held /\ Chase
      BY DEF AimInv
<1>2. /\ UNCHANGED <<detected, omni, omniDetected, omniId, lostWaiting,
                     lostDelayCnt, answer>>
      /\ whitelist' = allowed /\ blood' = [r \in Robots |-> 200]
      BY DEF cameras, held, lost
<1>3. SeenOK' /\ EqualBlood'
  <2>1. blood' \in [Robots -> Nat] /\ \A r \in Robots : blood'[r] = 200
        OBVIOUS
  <2>2. SeenOK'
        BY <1>1, <1>2 DEF Types, SeenOK
  <2> QED
      BY <2>1, <2>2 DEF EqualBlood
<1>4. HeldOK' /\ FlagsOK' /\ Held'
      BY <1>1, <1>2
         DEF Types, HeldOK, FlagsOK, Held, HoldsARobot, WaitHoldsATarget
<1>5. OutputOK'
      BY <1>1 DEF Types, OutputOK
<1>6. Chase'
      BY <1>1 DEF Chase, ChasesTheForcedRobot, ChaseIsFresh
<1> QED
    BY <1>3, <1>4, <1>5, <1>6 DEF AimInv, Types

(* What the omnidirectional cameras see; the held target and its wait end  *)
(* together.                                                               *)
LEMMA OcclusionHolds ==
  ASSUME AimInv, NEW n \in 0..Len(RobotOrder), NEW seen,
         OcclusionCallback(n, seen)
  PROVE  AimInv'
<1>1. Types /\ EqualBlood /\ Held /\ Chase
      BY DEF AimInv
<1>2. /\ UNCHANGED <<detected, whitelist, blood, dogCnt, answer, goal>>
      /\ omni' = Store(omni, n, seen)
      BY DEF OcclusionCallback, advice, output
<1>3. SeenOK' /\ EqualBlood'
      BY <1>1, <1>2, SlotsType DEF Types, SeenOK, EqualBlood, Store
<1>4. OutputOK' /\ Chase'
      BY <1>1, <1>2
         DEF Types, OutputOK, Chase, ChasesTheForcedRobot, ChaseIsFresh
<1>5. HeldOK'
      BY <1>1
         DEF OcclusionCallback, CountLostDelay, Counted, held, lost, Types,
             HeldOK
<1>6. FlagsOK' /\ Held'
  <2>1. CASE lostWaiting /\ CountLostDelay
    <3>1. \/ lostWaiting' = TRUE /\ omniDetected' = omniDetected
          \/ lostWaiting' = FALSE /\ omniDetected' = FALSE
      <4>1. CASE Counted < LostDelay
        <5>1. lostWaiting' = TRUE
              BY <2>1, <4>1 DEF CountLostDelay
        <5>2. omniDetected' = (omniDetected /\ Counted < LostDelay)
              BY <2>1 DEF CountLostDelay
        <5>3. omniDetected' = omniDetected
              BY <1>1, <4>1, <5>2, Zenon DEF Types, FlagsOK
        <5> QED
            BY <5>1, <5>3
      <4>2. CASE ~(Counted < LostDelay)
        <5>1. lostWaiting' \in BOOLEAN
              BY <2>1 DEF CountLostDelay
        <5>2. ~lostWaiting' /\ omniDetected' = FALSE
              BY <2>1, <4>2, Zenon DEF CountLostDelay
        <5> QED
            BY <5>1, <5>2, Zenon
      <4> QED
          BY <4>1, <4>2
    <3>2. omniId' = omniId
          BY <2>1 DEF CountLostDelay
    <3> QED
        BY <1>1, <2>1, <3>1, <3>2, Zenon
           DEF FlagsOK, Held, HoldsARobot, WaitHoldsATarget
  <2>2. CASE UNCHANGED <<held, lost>>
        BY <1>1, <2>2
           DEF held, lost, Types, FlagsOK, Held, HoldsARobot, WaitHoldsATarget
  <2> QED
      BY <2>1, <2>2 DEF OcclusionCallback
<1> QED
    BY <1>3, <1>4, <1>5, <1>6 DEF AimInv, Types

-----------------------------------------------------------------------------
(* AimInv is inductive.                                                    *)
LEMMA NextHolds == AimInv /\ [Next]_vars => AimInv'
<1> SUFFICES ASSUME AimInv, [Next]_vars
             PROVE  AimInv'
    OBVIOUS
<1>1. CASE Next
      BY <1>1, RequestHolds, StrategyHolds, OcclusionHolds DEF Next
<1>2. CASE UNCHANGED vars
      BY <1>2
         DEF vars, cameras, advice, held, lost, output, AimInv, Types, SeenOK,
             HeldOK, FlagsOK, OutputOK, EqualBlood, Held, HoldsARobot,
             WaitHoldsATarget, Chase, ChasesTheForcedRobot, ChaseIsFresh
<1> QED
    BY <1>1, <1>2

LEMMA Invariant == Spec => []AimInv
BY InitHolds, NextHolds, PTL DEF Spec

-----------------------------------------------------------------------------
(* Every variable keeps its type; every strategy that answers with an      *)
(* enemy finds one.                                                        *)
THEOREM TypeCorrect == Spec => []TypeOK
<1>1. AimInv => TypeOK
      BY Zenon DEF AimInv, Types, SeenOK, HeldOK, FlagsOK, OutputOK, TypeOK
<1> QED
    BY <1>1, Invariant, PTL

(* Navigation is only sent after the robot the turret was told to aim at   *)
(* (sentry_strategy_service.cpp).                                          *)
THEOREM SameEnemy == Spec => []ChasesTheForcedRobot
<1>1. AimInv => ChasesTheForcedRobot
      BY DEF AimInv, Chase
<1> QED
    BY <1>1, Invariant, PTL

(* Navigation does not chase on an answer older than the watchdog's limit. *)
THEOREM FreshChase == Spec => []ChaseIsFresh
<1>1. AimInv => ChaseIsFresh
      BY DEF AimInv, Chase
<1> QED
    BY <1>1, Invariant, PTL

(* Whoever waits for a lost target still holds one.                        *)
THEOREM WaitForATarget == Spec => []WaitHoldsATarget
<1>1. AimInv => WaitHoldsATarget
      BY DEF AimInv, Held
<1> QED
    BY <1>1, Invariant, PTL
-----------------------------------------------------------------------------
(* Forced moves.                                                           *)
USE ThresholdAssumption, CountAssumption

(* How far a move that is not complete has come.                           *)
MoveInStep ==
  ~complete =>
    /\ count >= 1
    /\ count <= CountSize - 2 => moved = count
    /\ count > CountSize - 2  => moved = CountSize - 2 /\ sent = Stop

ChosenWhenComplete == pc = "force" /\ complete => flags # {}

(* The types of what is true or false, of what is counted, of the rest.    *)
FactsOK ==
  /\ on \in BOOLEAN /\ caught \in BOOLEAN /\ fight \in BOOLEAN
  /\ reached \in BOOLEAN /\ complete \in BOOLEAN /\ declared \in BOOLEAN

CountersOK ==
  /\ stuck_cnt \in 0 .. Threshold /\ tries \in 0 .. 5
  /\ count \in 0 .. CountSize /\ moved \in 0 .. CountSize - 2

MovesOK ==
  /\ pc \in {"start", "guards", "stuck", "get_out", "force"}
  /\ flags \subseteq Directions \ {"right"}
  /\ force \in (Directions \ {"right"}) \union {Stop}
  /\ sent \in (Directions \ {"right"}) \union {Stop}

MoveInv ==
  /\ FactsOK /\ CountersOK /\ MovesOK
  /\ MovesAreWhole /\ MoveInStep /\ ChosenWhenComplete

(* Which direction a try chooses: never the right.                         *)
LEMMA DirectionType ==
  ASSUME NEW n \in 1 .. 6
  PROVE  Direction(n) \in Directions \ {"right"}
BY DEF Direction, Directions

(* The flag that is taken is one of those that are set.                    *)
LEMMA FirstType ==
  ASSUME MovesOK, flags # {}
  PROVE  FirstFlag \in flags
<1>1. PICK d \in {"forward", "backward", "left"} : d \in flags
      BY DEF MovesOK, Directions
<1>2. CASE "forward" \in flags
      BY <1>2 DEF FirstFlag
<1>3. CASE "forward" \notin flags /\ "backward" \in flags
      BY <1>3 DEF FirstFlag
<1>4. CASE "forward" \notin flags /\ "backward" \notin flags
           /\ "left" \in flags
      BY <1>4 DEF FirstFlag
<1> QED
    BY <1>1, <1>2, <1>3, <1>4

(* The tree starts with no move under way.                                 *)
LEMMA MoveInit == EscInit => MoveInv
<1> SUFFICES ASSUME EscInit
             PROVE  MoveInv
    OBVIOUS
<1>1. FactsOK
      BY DEF EscInit, FactsOK
<1>2. CountersOK
      BY DEF EscInit, CountersOK
<1>3. MovesOK
      BY DEF EscInit, MovesOK
<1>4. MovesAreWhole /\ MoveInStep /\ ChosenWhenComplete
      BY DEF EscInit, MovesAreWhole, MoveInStep, ChosenWhenComplete
<1> QED
    BY <1>1, <1>2, <1>3, <1>4 DEF MoveInv

-----------------------------------------------------------------------------
(* The robot, the fight and the referee change nothing a move depends on.  *)
LEMMA WorldKeeps == MoveInv /\ WorldChanges => MoveInv'
<1> SUFFICES ASSUME MoveInv, WorldChanges
             PROVE  MoveInv'
    OBVIOUS
<1>1. FactsOK /\ CountersOK /\ MovesOK
      BY DEF MoveInv
<1>2. FactsOK'
      BY <1>1 DEF FactsOK, WorldChanges, board, history
<1>3. CountersOK' /\ MovesOK'
      BY <1>1 DEF CountersOK, MovesOK, WorldChanges, node, board, history
<1>4. (MovesAreWhole /\ MoveInStep /\ ChosenWhenComplete)'
      BY DEF MoveInv, MovesAreWhole, MoveInStep, ChosenWhenComplete,
             WorldChanges, node, board, history
<1> QED
    BY <1>2, <1>3, <1>4 DEF MoveInv

(* The end of a game declares a move complete that need not be whole: the  *)
(* history says so, and keeps how far it came.                             *)
LEMMA SettledKeeps == MoveInv /\ GameSettled => MoveInv'
<1> SUFFICES ASSUME MoveInv, GameSettled
             PROVE  MoveInv'
    OBVIOUS
<1> USE DEF GameSettled, NoFlags, world, node
<1>1. FactsOK /\ CountersOK /\ MovesOK
      BY DEF MoveInv
<1>2. FactsOK'
      BY <1>1 DEF FactsOK
<1>3. CountersOK'
      BY <1>1 DEF CountersOK
<1>4. MovesOK'
      BY <1>1 DEF MovesOK
<1>5. (MovesAreWhole /\ MoveInStep /\ ChosenWhenComplete)'
      BY DEF MovesAreWhole, MoveInStep, ChosenWhenComplete
<1> QED
    BY <1>2, <1>3, <1>4, <1>5 DEF MoveInv

(* The ticks before GetOutOfStuck's leave moves alone.                     *)
LEMMA WatchingKeeps ==
  ASSUME MoveInv,
         GameGoesOn \/ GuardsTick \/ IfRobotStuckTick
  PROVE  MoveInv'
<1>1. FactsOK /\ CountersOK /\ MovesOK
      BY DEF MoveInv
<1>2. /\ UNCHANGED <<world, tries, count, force, board, history>>
      /\ pc' \in {"guards", "stuck", "get_out", "start"}
      BY DEF GameGoesOn, GuardsTick, IfRobotStuckTick, Away,
             Lingers, node
<1>3. stuck_cnt' \in 0 .. Threshold
      BY <1>1
         DEF CountersOK, GameGoesOn, GuardsTick,
             IfRobotStuckTick, Away, Lingers, node
<1>4. FactsOK'
      BY <1>1, <1>2 DEF FactsOK, world, board, history
<1>5. CountersOK' /\ MovesOK'
      BY <1>1, <1>2, <1>3 DEF CountersOK, MovesOK, board, history
<1>6. (MovesAreWhole /\ MoveInStep /\ ChosenWhenComplete)'
      BY <1>2
         DEF MoveInv, MovesAreWhole, MoveInStep, ChosenWhenComplete,
             board, history
<1> QED
    BY <1>4, <1>5, <1>6 DEF MoveInv

(* A direction is only chosen when the last move is complete.              *)
LEMMA GetOutKeeps == MoveInv /\ GetOutOfStuckTick => MoveInv'
<1> SUFFICES ASSUME MoveInv, GetOutOfStuckTick
             PROVE  MoveInv'
    OBVIOUS
<1>1. FactsOK /\ CountersOK /\ MovesOK
      BY DEF MoveInv
<1>2. /\ pc = "get_out" /\ pc' = "force"
      /\ UNCHANGED <<world, stuck_cnt, count, force, complete, sent,
                     moved, declared>>
      BY DEF GetOutOfStuckTick, history
<1>3. FactsOK' /\ (MovesAreWhole /\ MoveInStep)'
      BY <1>2 DEF FactsOK, world, MoveInv, MovesAreWhole, MoveInStep
<1>4. CASE complete
  <2>1. tries + 1 \in 1 .. 6
        BY <1>1 DEF CountersOK
  <2>2. Direction(tries + 1) \in Directions \ {"right"}
        BY <2>1, DirectionType
  <2>3. ChooseDirection
        BY <1>4 DEF GetOutOfStuckTick
  <2>4. CountersOK'
        BY <1>1, <1>2, <2>3 DEF CountersOK, ChooseDirection
  <2>5. MovesOK' /\ flags' # {}
        BY <1>1, <1>2, <2>2, <2>3 DEF MovesOK, ChooseDirection
  <2> QED
      BY <1>3, <2>4, <2>5 DEF MoveInv, ChosenWhenComplete
<1>5. CASE ~complete
  <2>1. UNCHANGED <<flags, tries>>
        BY <1>5 DEF GetOutOfStuckTick
  <2>2. CountersOK' /\ MovesOK'
        BY <1>1, <1>2, <2>1 DEF CountersOK, MovesOK
  <2>3. ChosenWhenComplete'
        BY <1>2, <1>5 DEF ChosenWhenComplete
  <2> QED
      BY <1>3, <2>2, <2>3 DEF MoveInv
<1> QED
    BY <1>4, <1>5

-----------------------------------------------------------------------------
(* ForceMove takes a flag or goes on with the move that is not complete.   *)
LEMMA ForceMoveKeeps == MoveInv /\ ForceMoveTick => MoveInv'
<1> SUFFICES ASSUME MoveInv, ForceMoveTick
             PROVE  MoveInv'
    OBVIOUS
<1>1. FactsOK /\ CountersOK /\ MovesOK
      BY DEF MoveInv
<1>2. /\ pc = "force" /\ pc' = "start"
      /\ UNCHANGED <<world, stuck_cnt, tries>>
      BY DEF ForceMoveTick
<1>3. ChosenWhenComplete'
      BY <1>2 DEF ChosenWhenComplete
<1>4. FactsOK'
      BY <1>1
         DEF FactsOK, world, ForceMoveTick, TakeFlag, GoOn,
             SendVelocity, SendStop, EndMove
<1>5. CASE TakeFlag
  <2>1. FirstFlag \in flags
        BY <1>1, <1>5, FirstType DEF TakeFlag
  <2>2. MovesOK'
        BY <1>1, <1>2, <1>5, <2>1 DEF MovesOK, TakeFlag, SendVelocity
  <2>3. count' = 1 /\ moved' = 1 /\ complete' = FALSE
        BY <1>5 DEF TakeFlag, SendVelocity
  <2>4. CountersOK'
        BY <1>1, <1>2, <2>3 DEF CountersOK
  <2>5. MovesAreWhole' /\ MoveInStep'
        BY <2>3 DEF MovesAreWhole, MoveInStep
  <2> QED
      BY <1>3, <1>4, <2>2, <2>4, <2>5 DEF MoveInv
<1>6. CASE GoOn
  <2>1. ~complete
        BY <1>2, <1>6 DEF GoOn, MoveInv, ChosenWhenComplete
  <2>2. MoveInStep
        BY DEF MoveInv
  <2>3. MovesOK'
        BY <1>1, <1>2, <1>6
           DEF MovesOK, GoOn, SendVelocity, SendStop, EndMove
  <2>4. CASE SendVelocity(force, count)
    <3>1. count < CountSize - 2 /\ moved' = count + 1 /\ count' = count + 1
          BY <1>1, <2>1, <2>2, <2>4
             DEF SendVelocity, CountersOK, MoveInStep
    <3>2. CountersOK'
          BY <1>1, <1>2, <3>1 DEF CountersOK
    <3>3. MovesAreWhole' /\ MoveInStep'
          BY <1>1, <2>4, <3>1
             DEF SendVelocity, CountersOK, MovesAreWhole, MoveInStep
    <3> QED
        BY <1>3, <1>4, <2>3, <3>2, <3>3 DEF MoveInv
  <2>5. CASE SendStop(count)
    <3>1. moved' = CountSize - 2 /\ sent' = Stop /\ count' = count + 1
          BY <2>1, <2>2, <2>5 DEF SendStop, MoveInStep
    <3>2. CountersOK'
          BY <1>1, <1>2, <2>5 DEF CountersOK, SendStop
    <3>3. MovesAreWhole' /\ MoveInStep'
          BY <2>5, <3>1 DEF SendStop, MovesAreWhole, MoveInStep
    <3> QED
        BY <1>3, <1>4, <2>3, <3>2, <3>3 DEF MoveInv
  <2>6. CASE EndMove(count)
    <3>1. moved = CountSize - 2 /\ sent = Stop
          BY <1>1, <2>1, <2>2, <2>6 DEF EndMove, CountersOK, MoveInStep
    <3>2. UNCHANGED <<count, moved, sent>> /\ complete'
          BY <2>6 DEF EndMove
    <3>3. CountersOK'
          BY <1>1, <1>2, <3>2 DEF CountersOK
    <3>4. MovesAreWhole' /\ MoveInStep'
          BY <3>1, <3>2 DEF MovesAreWhole, MoveInStep
    <3> QED
        BY <1>3, <1>4, <2>3, <3>3, <3>4 DEF MoveInv
  <2> QED
      BY <1>6, <2>4, <2>5, <2>6 DEF GoOn
<1> QED
    BY <1>5, <1>6 DEF ForceMoveTick

(* Every step keeps the invariant.                                         *)
LEMMA MoveStep == MoveInv /\ [EscNext]_escVars => MoveInv'
<1>1. MoveInv /\ UNCHANGED escVars => MoveInv'
      BY DEF MoveInv, FactsOK, CountersOK, MovesOK, MovesAreWhole,
             MoveInStep, ChosenWhenComplete, escVars, world, node, board,
             history
<1> QED
    BY <1>1, WorldKeeps, SettledKeeps, WatchingKeeps, GetOutKeeps,
       ForceMoveKeeps DEF EscNext, Tick

(* What the two theorems below rest on, in every state that is reached.    *)
THEOREM MoveInvariant == EscSpec => []MoveInv
<1> QED
    BY MoveInit, MoveStep, PTL DEF EscSpec

(* The counters stay within their limits whatever the threshold and the    *)
(* length of a move, and no try chooses the right.                         *)
THEOREM MoveTypeCorrect == EscSpec => []EscTypeOK
<1>1. MoveInv => EscTypeOK
      BY Zenon DEF MoveInv, EscTypeOK, FactsOK, CountersOK, MovesOK
<1> QED
    BY <1>1, MoveInvariant, PTL

(* A forced move that ForceMove completes was sent in all its passes and   *)
(* stopped, whatever interrupted it and wherever the game before cut a     *)
(* move off; one the end of a game declares complete is exempt             *)
(* (force_move.cpp:24-88, wait_for_game_start.cpp:105).                    *)
THEOREM CompleteMovesAreWhole == EscSpec => []MovesAreWhole
<1>1. MoveInv => MovesAreWhole
      BY DEF MoveInv
<1> QED
    BY <1>1, MoveInvariant, PTL
=============================================================================
