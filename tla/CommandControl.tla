--------------------------- MODULE CommandControl ---------------------------
(***************************************************************************)
(* The operator (the gimbal pilot, "cloud hand") steering the sentry by    *)
(* hand.  The referee system forwards his last map command with every      *)
(* 0x0303 packet, again and again until he gives another one, and          *)
(* robot_serial publishes each of them.  One pass over the tree ticks      *)
(*                                                                         *)
(*   WaitForGameStart      lets the pass go on only during a game, and     *)
(*                         resets the blackboard when a game is settled    *)
(*   RecordCommandControl  turns the commands into in_command,             *)
(*                         cmd_keyboard, the goal and two selections       *)
(*   the emergencies       may end the pass there                          *)
(*   the missions          obey the command, or choose a goal of their own *)
(*                                                                         *)
(* in_command and cmd_keyboard live twice: in the node and on the          *)
(* blackboard.  Coordinates are centimetres.                               *)
(***************************************************************************)
EXTENDS Integers, Sequences, Topic

CONSTANTS
  Commands,    (* what the operator may send: records [key, at]            *)
  MissionGoals,(* goals the missions choose                                *)
  CountSize,   (* passes a forced move lasts: count_size                   *)
  Depth,       (* history of the Mapcommand subscription                   *)
  MaxPresses,  (* bound on the operator's commands in one game             *)
  MaxGames     (* bound on the games played without a restart              *)

Keys   == {"0", "G", "H", "T", "W", "Y"}
Points == Int \X Int
Idle   == [key |-> "0", at |-> <<0, 0>>]  (* nothing commanded             *)
Origin == <<0, 0>>
Home   == <<531, -88>>                    (* the supply zone               *)
Guard  == <<2, 10>>                       (* where a healed sentry goes    *)

ASSUME CommandsAssumption  == Commands \subseteq [key : Keys, at : Points]
ASSUME GoalsAssumption     == MissionGoals \subseteq Points /\ MissionGoals # {}
ASSUME CountSizeAssumption == CountSize \in Nat \ {0}
ASSUME DepthAssumption     == Depth \in Nat \ {0}
ASSUME BoundsAssumption    == MaxPresses \in Nat /\ MaxGames \in Nat \ {0}

VARIABLES
  pc,          (* what is ticked next; "done" when a pass came to its end  *)
  phase,       (* referee: "playing" or "settled"                          *)
  heard,       (* WaitForGameStart: gamestatus                             *)
  games,       (* games begun                                              *)
  place,       (* "field", or the supply zone while "hurt" or "healed"     *)
  command,     (* the referee system: the operator's last command          *)
  presses,     (* history: commands the operator gave in this game         *)
  inbox,       (* unread Mapcommand messages                               *)
  inCommand,   (* RecordCommandControl: in_command                         *)
  key,         (* its blackboard_cmd_keyboard                              *)
  forced,      (* its if_force_move                                        *)
  count,       (* its count, the passes of the forced move                 *)
  bbInCommand, (* blackboard: in_command                                   *)
  bbKey,       (* blackboard: cmd_keyboard                                 *)
  goal,        (* blackboard: goal                                         *)
  goFort,      (* blackboard: select_if_go_fort                            *)
  noResurrection (* blackboard: select_force_no_resurrection               *)

referee  == <<phase, games, command, presses>>
move     == <<inCommand, forced, count>>
node     == <<key, move>>
selected == <<goFort, noResurrection>>
board    == <<bbInCommand, bbKey, goal, selected>>
vars     == <<pc, heard, place, inbox, node, board, referee>>

-----------------------------------------------------------------------------
Init ==
  /\ pc = "wait"
  /\ phase = "playing"
  /\ heard = "none"
  /\ games = 1
  /\ place = "field"
  /\ command = Idle
  /\ presses = 0
  /\ inbox = <<>>
  /\ inCommand = FALSE
  /\ key = ""
  /\ forced = FALSE
  /\ count = 0
  /\ bbInCommand = FALSE
  /\ bbKey = ""
  /\ goal = Origin
  /\ goFort = TRUE
  /\ noResurrection = FALSE

(* The blackboard of WaitForGameStart when a game is settled.              *)
ResetBoard ==
  /\ bbInCommand' = FALSE
  /\ bbKey' = ""
  /\ goal' = Origin
  /\ goFort' = TRUE
  /\ noResurrection' = FALSE

(* WaitForGameStart may hear that the game began or ended.                 *)
WaitForGameStartTick ==
  /\ pc \in {"wait", "done"}
  /\ heard' \in {heard, phase}
  /\ pc' = IF heard' = "playing" THEN "record" ELSE "wait"
  /\ IF heard' = "settled" THEN ResetBoard ELSE UNCHANGED board
  /\ UNCHANGED <<place, inbox, node, referee>>

-----------------------------------------------------------------------------
(* RecordCommandControl.  The check for repeated messages compares the     *)
(* goal on the blackboard, a point of the navigation map, with the target  *)
(* as the referee system gives it; its second half asks for equality.      *)
Differs(at) ==
  \/ goal[1] - at[1] > 1
  \/ at[1] - goal[1] > 1
  \/ goal[2] = at[2]

(* A referee system target as a point of the navigation map.               *)
OnMap(at) == <<at[2] - 693, 2460 - at[1]>>

Recognised(c) == c.key # "0" \/ (c.at[1] # 0 /\ c.at[2] # 0)

Commanding == {"0", "G", "W"}             (* these begin the control       *)

(* The timer of a forced move, once per pass, after the callback: whether  *)
(* a move is under way and whether the operator is in command by then.     *)
TimeTheMove(moving, commanded) ==
  \/ ~ moving /\ forced' = FALSE /\ inCommand' = commanded /\ UNCHANGED count
  \/ /\ moving /\ count + 1 < CountSize
     /\ count' = count + 1 /\ forced' = TRUE /\ inCommand' = commanded
  \/ /\ moving /\ count + 1 >= CountSize
     /\ count' = 0 /\ forced' = FALSE /\ inCommand' = FALSE

(* mapcommandCallback, with the timer behind it.  Mutants: a key that ends *)
(* the control does not; a repeated move starts the timer again.           *)
Select(c) ==
  /\ goFort' = IF c.key = "H" THEN ~ goFort ELSE goFort
  /\ noResurrection' = (noResurrection \/ c.key = "T")

ObeyWithoutQuitting(c) ==
  /\ key' = c.key
  /\ TimeTheMove(forced \/ c.key = "W", inCommand \/ c.key \in Commanding)
  /\ goal' = IF c.key = "0" THEN OnMap(c.at) ELSE goal
  /\ Select(c)

ObeyAndRestart(c) ==
  /\ key' = c.key
  /\ IF c.key = "W"
     THEN forced' = TRUE /\ inCommand' = TRUE /\ count' = 0
     ELSE TimeTheMove(forced, c.key \in Commanding)
  /\ goal' = IF c.key = "0" THEN OnMap(c.at) ELSE goal
  /\ Select(c)

Obey(c) ==
  /\ key' = c.key
  /\ TimeTheMove(forced \/ c.key = "W", c.key \in Commanding)
  /\ goal' = IF c.key = "0" THEN OnMap(c.at) ELSE goal
  /\ Select(c)

Ignore ==
  /\ TimeTheMove(forced, inCommand)
  /\ UNCHANGED <<key, goal, selected>>

HearsACommand ==
  inbox # <<>> /\ Recognised(Head(inbox)) /\ Differs(Head(inbox).at)

RecordCommandControlTick ==
  /\ pc = "record"
  /\ pc' = "missions"
  /\ inbox' = Spun(inbox)
  /\ \/ HearsACommand /\ Obey(Head(inbox))
     \/ ~ HearsACommand /\ Ignore
  /\ bbKey' = key'
  /\ bbInCommand' = inCommand'
  /\ UNCHANGED <<heard, place, referee>>

-----------------------------------------------------------------------------
(* A robot that is stuck, a blocked tunnel, another map or a change of     *)
(* mode ends the pass, for as long as the emergency lasts.                 *)
EmergencyTick ==
  /\ pc = "missions"
  /\ pc' = "wait"
  /\ UNCHANGED <<heard, place, inbox, node, board, referee>>

(* The rest of the pass.  In the supply zone a hurt sentry stays and the   *)
(* pass ends there; a healed one is first sent away.  Then an operator's   *)
(* command keeps the missions from choosing a goal; mutant: it does not.   *)
GoalsWithoutCommand(before) == MissionGoals

GoalsThisPass(before) ==
  IF ~ bbInCommand THEN MissionGoals
  ELSE IF bbKey = "G" THEN {Home}
  ELSE {before}

MissionsTick ==
  /\ pc = "missions"
  /\ pc' = "done"
  /\ \/ place = "hurt" /\ goal' = Home
     \/ place = "healed" /\ goal' \in GoalsThisPass(Guard)
     \/ place = "field" /\ goal' \in GoalsThisPass(goal)
  /\ UNCHANGED <<heard, place, inbox, node, bbInCommand, bbKey,
                 selected, referee>>

Pass ==
  \/ WaitForGameStartTick
  \/ RecordCommandControlTick
  \/ EmergencyTick
  \/ MissionsTick

-----------------------------------------------------------------------------
(* External: the operator, the referee system, the robot on the field.     *)
OperatorCommands ==
  /\ phase = "playing" /\ presses < MaxPresses
  /\ command' \in Commands
  /\ presses' = presses + 1
  /\ UNCHANGED <<pc, phase, games, heard, place, inbox, node, board>>

CommandArrives ==
  /\ inbox' = Publish(inbox, command, Depth)
  /\ UNCHANGED <<pc, heard, place, node, board, referee>>

(* A phase of the match lasts longer than a pass, so it is always heard.   *)
GameEnds ==
  /\ phase = "playing" /\ heard = phase
  /\ phase' = "settled"
  /\ command' = Idle
  /\ UNCHANGED <<pc, heard, games, presses, place, inbox, node, board>>

GameBegins ==
  /\ phase = "settled" /\ heard = phase
  /\ games < MaxGames
  /\ phase' = "playing"
  /\ games' = games + 1
  /\ presses' = 0
  /\ UNCHANGED <<pc, heard, command, place, inbox, node, board>>

RobotMoves ==
  /\ place' \in {"field", "hurt", "healed"} \ {place}
  /\ UNCHANGED <<pc, heard, inbox, node, board, referee>>

Next ==
  \/ Pass
  \/ OperatorCommands \/ CommandArrives \/ GameEnds \/ GameBegins \/ RobotMoves

Spec == Init /\ [][Next]_vars

(* The tree is ticked by a timer and robot_serial publishes every packet;  *)
(* nothing is assumed of the operator, the match or the robot's way.       *)
FairSpec == Spec /\ WF_vars(Pass) /\ WF_vars(CommandArrives)

-----------------------------------------------------------------------------
TypeOK ==
  /\ pc \in {"wait", "record", "missions", "done"}
  /\ phase \in {"playing", "settled"}
  /\ heard \in {"none", "playing", "settled"}
  /\ games \in 1 .. MaxGames
  /\ place \in {"field", "hurt", "healed"}
  /\ command \in Commands \cup {Idle}
  /\ presses \in 0 .. MaxPresses
  /\ inbox \in Seq(Commands \cup {Idle}) /\ Len(inbox) <= Depth
  /\ inCommand \in BOOLEAN /\ bbInCommand \in BOOLEAN
  /\ key \in Keys \cup {""} /\ bbKey \in Keys \cup {""}
  /\ forced \in BOOLEAN /\ count \in 0 .. CountSize - 1
  /\ goal \in Points
  /\ goFort \in BOOLEAN /\ noResurrection \in BOOLEAN

(* While the operator commands a target or the way home, no mission's goal *)
(* is driven to once a pass is done: the goal is his, or the supply zone's.*)
(* RecordCommandControl outputs the goal, the missions run behind          *)
(* IfInCommand, and the supply zone's branch runs before both.  A command  *)
(* left over from an earlier game (NewGameIsFree) stays at the origin.     *)
OperatorsGoal ==
  \/ goal \in {Home, Guard}
  \/ games > 1 /\ goal = Origin
  \/ \E c \in Commands : c.key = "0" /\ goal = OnMap(c.at)

CommandedGoal ==
  (pc = "done" /\ bbInCommand) =>
    /\ bbKey = "G" => goal = Home
    /\ bbKey = "0" => OperatorsGoal

(* Why it holds.  A game after the first is entered from a blackboard that *)
(* was reset; from RecordCommandControl's tick to the next one the         *)
(* blackboard and the node agree; and a node that obeys a target has an    *)
(* operator's goal on the blackboard, also while the pass is under way.    *)
PhasesFollow ==
  /\ pc # "wait" => heard = "playing"
  /\ heard = "none" => phase = "playing" /\ ~ inCommand
  /\ heard = "settled" =>
       /\ goal = Origin
       /\ phase = "playing" => games > 1

BoardAgrees ==
  (heard = "playing" /\ pc # "record") =>
    bbInCommand = inCommand /\ bbKey = key

OnCourse ==
  (heard = "playing" /\ inCommand /\ key = "0") =>
    OperatorsGoal

IInv == TypeOK /\ CommandedGoal /\ PhasesFollow /\ BoardAgrees /\ OnCourse

(* A forced move is over CountSize passes after it began, however often    *)
(* the referee system repeats the key; the passes stop when a game ends.   *)
ForceMoveEnds ==
  (forced ~> ~ forced) \/ <>[](phase = "settled")

(* The operator gets out of command mode with Y: if that stays his last    *)
(* command, and it is not taken for a repetition, the sentry is on its own *)
(* again.                                                                  *)
QuitEnds ==
  <>[](command.key = "Y" /\ Differs(command.at)) =>
    <>[](phase = "settled") \/ <>[](~ bbInCommand)

(* "The whole blackboard is initialised" when a game is settled: in the    *)
(* next one the sentry is not commanded before the operator commands.      *)
NewGameIsFree ==
  (pc = "missions" /\ bbInCommand) => presses > 0
=============================================================================
