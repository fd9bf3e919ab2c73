---------------------------- MODULE SentryStrategy ----------------------------
(***************************************************************************)
(* SentryStrategyService: the node the gimbal computer asks which enemy to *)
(* aim at.  It fuses what the main camera sees (in the request) with what  *)
(* the omnidirectional cameras last saw (a topic), keeps to the whitelist  *)
(* the behaviour tree publishes, holds on to a target only the             *)
(* omnidirectional cameras see when they lose it for a moment, and tells   *)
(* navigation whether to chase.  Its callbacks run on one thread, so each  *)
(* is one action, but requests and both topics interleave freely.  An      *)
(* enemy is the index of its slot; its pose, name and bonus are left out.  *)
(***************************************************************************)
EXTENDS Integers, Sequences, FiniteSets

CONSTANTS
  RobotOrder,      (* the enemy robots by their index; the hero is first   *)
  Priority,        (* parameter aim_priority: the same robots in order     *)
  DefaultChasing,  (* parameter if_default_chasing                         *)
  LostDelay,       (* omnidirectional messages a lost target is held: 12   *)
  DogThreshold,    (* strategy messages without a request: 5.0 / 0.02      *)
  BloodReports,    (* the enemy_blood an AutoaimStrategy message may carry *)
  None             (* no enemy                                             *)

Robots     == {RobotOrder[i] : i \in DOMAIN RobotOrder}
Structures == {"outpost", "base"}
Targets    == Robots \cup Structures
Hero       == RobotOrder[1]
Order      == RobotOrder \o <<"outpost", "base">>

ASSUME RobotsAssumption ==
  /\ RobotOrder \in Seq(Robots) /\ RobotOrder # <<>>
  /\ Priority \in Seq(Robots) /\ {Priority[i] : i \in DOMAIN Priority} = Robots
  /\ Robots \cap Structures = {} /\ None \notin Targets
ASSUME DelaysAssumption ==
  LostDelay \in Nat \ {0} /\ DogThreshold \in Nat \ {0} /\ DefaultChasing \in BOOLEAN
ASSUME BloodAssumption ==
  BloodReports \subseteq [Robots -> Nat] /\ BloodReports # {}

VARIABLES
  detected,      (* enemies[].is_detected, fused from both sources         *)
  omni,          (* occlusion_detector[].is_detected                       *)
  whitelist,     (* received_autoaim_strategy.whitelist                    *)
  blood,         (* received_autoaim_strategy.enemy_blood                  *)
  omniDetected,  (* omni_detected: a target is held                        *)
  omniId,        (* omni_detected_id_index                                 *)
  lostWaiting,   (* if_in_lost_waiting                                     *)
  lostDelayCnt,  (* lost_delay_cnt, and dog_cnt: no longer counted once    *)
  dogCnt,        (* they reached their limits                              *)
  answer,        (* the last response's err_code and id                    *)
  goal           (* whose pose the last EnemyChasing carries; None: not in *)
                 (* chase                                                  *)

cameras == <<detected, omni>>
advice  == <<whitelist, blood>>
held    == <<omniDetected, omniId>>
lost    == <<lostWaiting, lostDelayCnt>>
output  == <<answer, goal>>
vars    == <<cameras, advice, held, lost, dogCnt, output>>

-----------------------------------------------------------------------------
(* Both containers are only reserve()d: what their slots hold before the   *)
(* first message is whatever the memory held.                              *)
Init ==
  /\ detected \in SUBSET Targets
  /\ omni \in SUBSET Robots
  /\ whitelist = {}
  /\ blood = [r \in Robots |-> 0]
  /\ omniDetected = FALSE
  /\ omniId = None
  /\ lostWaiting = FALSE
  /\ lostDelayCnt = 0
  /\ dogCnt = 0
  /\ answer = [err |-> 0, id |-> None]
  /\ goal = None

(* The first member of S in the sequence, which has one.                   *)
First(seq, S) ==
  seq[CHOOSE i \in DOMAIN seq :
        seq[i] \in S /\ \A j \in 1..(i - 1) : seq[j] \notin S]

(* The slots written by the first n entries of a message, in index order.  *)
Slots(n) == {Order[i] : i \in 1..n}

(* string_id2int_id fails on entry n + 1, or the message is too short      *)
(* (n = 0): what came before it is stored all the same.                    *)
Store(old, n, seen) == (old \ Slots(n)) \cup (seen \cap Slots(n))

(* A robot the main camera does not see is taken from the omnidirectional  *)
(* cameras; the outpost and the base are not.                              *)
Fuse(n, seen) ==
  /\ detected' = Store(detected, n, seen \cup omni)
  /\ UNCHANGED omni

Answer(err, id) ==
  /\ answer' = [err |-> err, id |-> id]
  /\ dogCnt' = 0

(* A message with fewer entries than there are targets, or with an unknown *)
(* id: listen to the gimbal's own choice.                                  *)
RejectRequest(n, seen) ==
  /\ Fuse(n, seen)
  /\ Answer(0, None)
  /\ goal' = None
  /\ UNCHANGED <<held, lost>>

(* The held target is gone: the wait begins, or goes on.  The response set *)
(* here is overwritten by every branch below.                              *)
LostProtection ==
  LET gone == omniDetected /\ omniId \notin detected' IN
    /\ lostWaiting' = (lostWaiting \/ gone)
    /\ UNCHANGED lostDelayCnt

(* is_lock; the robots in it with the least blood, lowest index first.     *)
Locked == detected' \cap whitelist
LockedRobots == Locked \cap Robots
Weakest ==
  First(RobotOrder, {r \in LockedRobots : \A s \in LockedRobots : blood[r] <= blood[s]})
Finishable == LockedRobots # {} /\ blood[Weakest] <= 100

(* The target is held while only the omnidirectional cameras see it: its   *)
(* occlusion flag, written anew by the request.  Mutant: a target the main *)
(* camera sees releases the held one without ending its wait.              *)
HoldLatest(r, seen) ==
  /\ omniDetected' = (r \notin seen)
  /\ omniId' = IF r \in seen THEN omniId ELSE r

Hold(r, seen) ==
  /\ omniDetected' = (omniDetected \/ r \notin seen)
  /\ omniId' = IF r \in seen THEN omniId ELSE r

SwitchOff ==
  /\ LockedRobots = {}
  /\ Answer(2, None)
  /\ goal' = None
  /\ UNCHANGED held

(* Strategies 1 and 2: a robot one blow from defeat, else the hero.  Both  *)
(* send navigation to the pose of the weakest robot.                       *)
ChaseWeakOrHero(seen) ==
  /\ Finishable \/ Hero \in Locked
  /\ LET target == IF Finishable THEN Weakest ELSE Hero IN
       Answer(1, target) /\ Hold(target, seen)
  /\ goal' = Weakest

(* Strategies 3 and 4: reached only when some robot is locked as well.     *)
(* Mutant: the chase goes on as with a robot.                              *)
ChaseStructure ==
  /\ LockedRobots # {} /\ ~ Finishable /\ Hero \notin Locked
  /\ Locked \cap Structures # {}
  /\ LET target == First(Order, Locked \cap Structures) IN
       Answer(1, target) /\ goal' = target
  /\ UNCHANGED held

AttackStructure ==
  /\ LockedRobots # {} /\ ~ Finishable /\ Hero \notin Locked
  /\ Locked \cap Structures # {}
  /\ Answer(1, First(Order, Locked \cap Structures))
  /\ goal' = None
  /\ UNCHANGED held

(* Strategy 5: the first of aim_priority among the robots seen.            *)
AttackPreferred(seen) ==
  /\ LockedRobots # {} /\ ~ Finishable /\ Hero \notin Locked
  /\ Locked \cap Structures = {}
  /\ LET target == First(Priority, detected') IN
       /\ Answer(1, target)
       /\ Hold(target, seen)
       /\ goal' = IF DefaultChasing THEN target ELSE None

SentryStrategyServiceCallback(n, seen) ==
  /\ UNCHANGED advice
  /\ \/ n < Len(Order) /\ RejectRequest(n, seen)
     \/ /\ n = Len(Order)
        /\ Fuse(n, seen)
        /\ LostProtection
        /\ \/ SwitchOff
           \/ ChaseWeakOrHero(seen)
           \/ AttackStructure
           \/ AttackPreferred(seen)

(* Mutants of AutoaimStrategyCallback: the blood points received are       *)
(* believed; the watchdog only counts.                                     *)
StrategyWithBlood(allowed, points) ==
  /\ whitelist' = allowed
  /\ blood' = points
  /\ dogCnt' = IF dogCnt < DogThreshold THEN dogCnt + 1 ELSE dogCnt
  /\ goal' = IF dogCnt + 1 >= DogThreshold THEN None ELSE goal
  /\ UNCHANGED <<cameras, held, lost, answer>>

StrategyWithoutStop(allowed, points) ==
  /\ whitelist' = allowed
  /\ blood' = [r \in Robots |-> 200]
  /\ dogCnt' = IF dogCnt < DogThreshold THEN dogCnt + 1 ELSE dogCnt
  /\ UNCHANGED <<cameras, held, lost, goal, answer>>

(* The blood points received are replaced by 200.  With the watchdog over  *)
(* its limit navigation is told to stop chasing.                           *)
AutoaimStrategyCallback(allowed, points) ==
  /\ UNCHANGED <<cameras, held, lost, answer>>
  /\ whitelist' = allowed
  /\ blood' = [r \in Robots |-> 200]
  /\ dogCnt' = IF dogCnt < DogThreshold THEN dogCnt + 1 ELSE dogCnt
  /\ goal' = IF dogCnt + 1 >= DogThreshold THEN None ELSE goal

Counted == IF lostDelayCnt < LostDelay THEN lostDelayCnt + 1 ELSE LostDelay

(* A mutant of CountLostDelay: the counter is set back at the limit, but   *)
(* the wait goes on.                                                       *)
CountAtTheLimit ==
  /\ lostDelayCnt' = IF Counted < LostDelay THEN Counted ELSE 0
  /\ UNCHANGED <<lostWaiting, held>>

(* The counter is never set back: a second wait starts where the first     *)
(* one ended.                                                              *)
CountLostDelay ==
  /\ lostDelayCnt' = Counted
  /\ lostWaiting' = (Counted < LostDelay)
  /\ omniDetected' = (omniDetected /\ Counted < LostDelay)
  /\ UNCHANGED omniId

(* An omnidirectional message: its robots up to the first unknown id, none *)
(* if there are not exactly five.                                          *)
OcclusionCallback(n, seen) ==
  /\ UNCHANGED <<detected, advice, dogCnt, output>>
  /\ omni' = Store(omni, n, seen)
  /\ \/ lostWaiting /\ CountLostDelay
     \/ ~ lostWaiting /\ UNCHANGED <<held, lost>>

Next ==
  \/ \E n \in 0..Len(Order) : \E seen \in SUBSET Slots(n) :
       SentryStrategyServiceCallback(n, seen)
  \/ \E allowed \in SUBSET Targets, points \in BloodReports :
       AutoaimStrategyCallback(allowed, points)
  \/ \E n \in 0..Len(RobotOrder) : \E seen \in SUBSET Slots(n) :
       OcclusionCallback(n, seen)

Spec == Init /\ [][Next]_vars

(* Both topics are published periodically, so their callbacks keep coming; *)
(* requests come when the gimbal computer likes.                           *)
FairSpec ==
  /\ Spec
  /\ WF_vars(\E allowed \in SUBSET Targets, points \in BloodReports :
               AutoaimStrategyCallback(allowed, points))
  /\ WF_vars(\E n \in 0..Len(RobotOrder) : \E seen \in SUBSET Slots(n) :
               OcclusionCallback(n, seen))

-----------------------------------------------------------------------------
TypeOK ==
  /\ detected \subseteq Targets /\ whitelist \subseteq Targets
  /\ omni \subseteq Robots
  /\ blood \in [Robots -> Nat]
  /\ omniDetected \in BOOLEAN /\ omniId \in Robots \cup {None}
  /\ lostWaiting \in BOOLEAN
  /\ lostDelayCnt \in 0..LostDelay
  /\ dogCnt \in 0..DogThreshold
  /\ answer \in [err : 0..2, id : Targets \cup {None}]
  /\ goal \in Robots \cup {None}

(* Navigation is only ever sent after the robot the gimbal was last told   *)
(* to aim at: the turret and the chassis follow the same enemy.            *)
ChasesTheForcedRobot == goal # None => answer = [err |-> 1, id |-> goal]

(* Navigation does not chase on an answer older than the watchdog's limit. *)
ChaseIsFresh == goal # None => dogCnt < DogThreshold

(* The lost wait is always for a target: the delay protection and the held *)
(* target begin and end together.                                          *)
WaitHoldsATarget == lostWaiting => omniDetected /\ omniId \in Robots

(* A wait for a lost target ends, however often the gimbal computer asks.  *)
LostWaitEnds == []<>(~ lostWaiting)
=============================================================================
