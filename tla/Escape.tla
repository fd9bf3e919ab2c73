------------------------------- MODULE Escape -------------------------------
(***************************************************************************)
(* How the behaviour tree frees a sentry that does not get on: in each     *)
(* pass of a game the subtree "get out of stuck" asks IsOutFight,          *)
(* IsGoalReached and IfRobotStuck; when all three want it, GetOutOfStuck   *)
(* cancels the goals and chooses a direction, and ForceMove sends its      *)
(* velocity on /cmd_vel, for as many passes as the move takes.  A pass     *)
(* whose conditions fail leaves a move where it is.                        *)
(*                                                                         *)
(* The robot, the fight and the game are external.  What the navigator     *)
(* writes to the same topic in between is not modelled: nothing here reads *)
(* it.                                                                     *)
(***************************************************************************)
EXTENDS Naturals

CONSTANTS
  Threshold,   (* stuck_threshold_cnt                                      *)
  CountSize    (* ForceMove's count_size_: passes of a forced move         *)

ASSUME ThresholdAssumption == Threshold \in Nat
ASSUME CountAssumption     == CountSize \in Nat /\ CountSize > 2

Directions == {"forward", "backward", "left", "right"}
Stop       == "stop"

VARIABLES
  pc,          (* the node of the pass that is ticked next                 *)
  on,          (* the last Gamestatus says that the game is on             *)
  caught,      (* the robot stays within stuck_threshold_distance of its   *)
               (* moving average                                           *)
  fight,       (* the last Sentryinfo says that the robot fights           *)
  reached,     (* it is at its goal, or has none                           *)
  stuck_cnt,   (* IfRobotStuck                                             *)
  tries,       (* GetOutOfStuck: count                                     *)
  flags,       (* blackboard: the is_force_move_... that are set           *)
  complete,    (* blackboard: is_force_move_complete                       *)
  count,       (* ForceMove: count, a static                               *)
  force,       (* ForceMove: force_v_x, force_v_y                          *)
  sent,        (* history: the last velocity ForceMove sent                *)
  moved,       (* history: the passes of its last move with a velocity     *)
  declared     (* history: no move since WaitForGameStart set complete     *)

world   == <<on, caught, fight, reached>>
node    == <<stuck_cnt, tries, count, force>>
board   == <<flags, complete>>
history == <<sent, moved, declared>>
escVars == <<pc, world, node, board, history>>

NoFlags == flags' = {} /\ complete' = TRUE

EscInit ==
  /\ pc = "start"
  /\ on = FALSE /\ caught = FALSE /\ fight = FALSE /\ reached = TRUE
  /\ stuck_cnt = 0 /\ tries = 0
  /\ flags = {} /\ complete = TRUE
  /\ count = CountSize /\ force = Stop
  /\ sent = Stop /\ moved = 0 /\ declared = TRUE

-----------------------------------------------------------------------------
(* Games begin and end, the robot is caught and let go, is shot at and     *)
(* left in peace, gets to its goal and is given another.                   *)
WorldChanges ==
  /\ \/ on'      = ~on      /\ UNCHANGED <<caught, fight, reached>>
     \/ caught'  = ~caught  /\ UNCHANGED <<on, fight, reached>>
     \/ fight'   = ~fight   /\ UNCHANGED <<on, caught, reached>>
     \/ reached' = ~reached /\ UNCHANGED <<on, caught, fight>>
  /\ UNCHANGED <<pc, node, board, history>>

(* WaitForGameStart: the pass goes on in a game.                           *)
GameGoesOn ==
  /\ pc = "start" /\ on
  /\ pc' = "guards"
  /\ UNCHANGED <<world, node, board, history>>

(* After a game the blackboard is reset, the nodes' members are not.  A    *)
(* move the end of the game cut off is declared complete, and no stop is   *)
(* sent for it.                                                            *)
GameSettled ==
  /\ pc = "start" /\ ~on
  /\ NoFlags
  /\ declared' = TRUE
  /\ UNCHANGED <<pc, world, node, sent, moved>>

(* IsOutFight and IsGoalReached.                                           *)
GuardsTick ==
  /\ pc = "guards"
  /\ pc' = IF ~fight /\ ~reached THEN "stuck" ELSE "start"
  /\ UNCHANGED <<world, node, board, history>>

(* IfRobotStuck.  The counter stays at its threshold while the robot is    *)
(* caught.                                                                 *)
Away ==
  /\ ~caught
  /\ stuck_cnt' = 0
  /\ pc' = "start"

(* Mutant: the robot is taken to be stuck one pass later.                  *)
LingersLate ==
  /\ stuck_cnt' = stuck_cnt + 1
  /\ pc' = IF stuck_cnt > Threshold THEN "get_out" ELSE "start"

Lingers ==
  IF stuck_cnt + 1 > Threshold
  THEN stuck_cnt' = Threshold     /\ pc' = "get_out"
  ELSE stuck_cnt' = stuck_cnt + 1 /\ pc' = "start"

IfRobotStuckTick ==
  /\ pc = "stuck"
  /\ Away \/ Lingers
  /\ UNCHANGED <<world, tries, count, force, board, history>>

-----------------------------------------------------------------------------
(* GetOutOfStuck.  The direction of the n-th try; n is raised before it is *)
(* looked at, so the first case is never chosen.                           *)
Direction(n) ==
  CASE n = 0           -> "right"
    [] n = 1           -> "left"
    [] n \in {2, 3, 4} -> "backward"
    [] n = 5           -> "forward"
    [] OTHER           -> "backward"

ChooseDirection ==
  /\ flags' = flags \union {Direction(tries + 1)}
  /\ tries' = IF tries + 1 > 5 THEN 0 ELSE tries + 1

GetOutOfStuckTick ==
  /\ pc = "get_out"
  /\ pc' = "force"
  /\ IF complete THEN ChooseDirection ELSE UNCHANGED <<flags, tries>>
  /\ UNCHANGED <<world, stuck_cnt, count, force, complete, history>>

-----------------------------------------------------------------------------
(* ForceMove.  Of the flags that are set the first in this order is taken. *)
FirstFlag ==
  CASE "forward"  \in flags -> "forward"
    [] "backward" \in flags -> "backward"
    [] "left"     \in flags -> "left"
    [] "right"    \in flags -> "right"

(* With the n-th pass of the move: the velocity, the stops of its last two *)
(* passes, and its end, which is recorded one pass later.                  *)
SendVelocity(v, n) ==
  /\ n < CountSize - 2
  /\ sent' = v
  /\ moved' = IF n = 0 THEN 1 ELSE moved + 1
  /\ count' = n + 1
  /\ complete' = FALSE

(* Mutant: one velocity more, and no stop.                                 *)
KeepTheVelocity(n) ==
  /\ n \in {CountSize - 2, CountSize - 1}
  /\ count' = n + 1
  /\ complete' = FALSE
  /\ UNCHANGED <<sent, moved>>

SendStop(n) ==
  /\ n \in {CountSize - 2, CountSize - 1}
  /\ sent' = Stop
  /\ count' = n + 1
  /\ complete' = FALSE
  /\ UNCHANGED moved

(* Mutant: the end is recorded in the member only.                         *)
EndUnrecorded(n) ==
  /\ n >= CountSize
  /\ count' = n
  /\ UNCHANGED <<complete, sent, moved>>

EndMove(n) ==
  /\ n >= CountSize
  /\ count' = n
  /\ complete' = TRUE
  /\ UNCHANGED <<sent, moved>>

TakeFlag ==
  /\ flags # {}
  /\ flags' = flags \ {FirstFlag}
  /\ force' = FirstFlag
  /\ SendVelocity(FirstFlag, 0)

GoOn ==
  /\ flags = {}
  /\ SendVelocity(force, count) \/ SendStop(count) \/ EndMove(count)
  /\ UNCHANGED <<flags, force>>

ForceMoveTick ==
  /\ pc = "force"
  /\ pc' = "start"
  /\ TakeFlag \/ GoOn
  /\ declared' = FALSE
  /\ UNCHANGED <<world, stuck_cnt, tries>>

Tick ==
  \/ GameGoesOn \/ GuardsTick \/ IfRobotStuckTick
  \/ GetOutOfStuckTick \/ ForceMoveTick

EscNext == WorldChanges \/ GameSettled \/ Tick

(* The tree is ticked again and again.                                     *)
Fairness == WF_escVars(Tick)

EscSpec == EscInit /\ [][EscNext]_escVars /\ Fairness

-----------------------------------------------------------------------------
(* The counters stay within their limits, tries below the number of        *)
(* directions GetOutOfStuck knows.                                         *)
EscTypeOK ==
  /\ pc \in {"start", "guards", "stuck", "get_out", "force"}
  /\ on \in BOOLEAN /\ caught \in BOOLEAN
  /\ fight \in BOOLEAN /\ reached \in BOOLEAN
  /\ stuck_cnt \in 0 .. Threshold
  /\ tries \in 0 .. 5
  /\ flags \subseteq Directions \ {"right"}
  /\ complete \in BOOLEAN
  /\ count \in 0 .. CountSize
  /\ force \in (Directions \ {"right"}) \union {Stop}
  /\ sent \in (Directions \ {"right"}) \union {Stop}
  /\ moved \in 0 .. CountSize - 2 /\ declared \in BOOLEAN

(* A forced move, however often the fight, the goal or a robot that got    *)
(* away interrupted it, is completed by ForceMove only when its velocity   *)
(* was sent in all its passes and a stop after them (force_move.cpp:26,    *)
(* 60-86).  The end of a game completes it with neither                    *)
(* (wait_for_game_start.cpp:105), which this exempts; the static counter   *)
(* it leaves behind in mid-count does not shorten the next game's move.    *)
MovesAreWhole ==
  complete /\ ~declared => sent = Stop /\ moved = CountSize - 2

(* A sentry that stays caught, out of a fight and off its goal is moved in   *)
(* three directions, each for a whole move, again and again                *)
(* (get_out_of_stuck.cpp:49-88).                                           *)
TriesThreeWays ==
  <>[](on /\ caught /\ ~fight /\ ~reached) =>
    \A d \in {"left", "backward", "forward"} :
      []<>(sent = d /\ moved = CountSize - 2)
=============================================================================
