------------------------- MODULE CommandLinkProofs --------------------------
(* The goal of a commanded sentry is the operator's, for every set of      *)
(* commands and goals, every timer and every number of games; and what the *)
(* serial link costs and keeps, for all sizes of frames and bursts.        *)
EXTENDS CommandControl, SerialLink, TopicTheorems, FiniteSetTheorems,
        SequenceTheorems, WellFoundedInduction

Messages == Commands \cup {Idle}

(* Counters that were just reset are in range.                             *)
LEMMA Ranges ==
  /\ CountSize \in Nat /\ CountSize - 1 \in Nat
  /\ 0 \in 0 .. CountSize - 1
  /\ MaxPresses \in Nat /\ 0 \in 0 .. MaxPresses /\ 0 \in 0 .. MaxPresses + 1
  /\ MaxGames \in Nat /\ 1 \in 1 .. MaxGames
  /\ Depth \in Nat /\ 0 <= Depth
<1>1. CountSize \in Nat /\ CountSize # 0
  BY CountSizeAssumption
<1>2. CountSize - 1 \in Nat
  BY <1>1
<1>3. MaxPresses \in Nat /\ MaxGames \in Nat /\ MaxGames # 0
  BY BoundsAssumption
<1>4. QED
  BY <1>1, <1>2, <1>3, DepthAssumption

(* What the assumptions say of a message.                                  *)
LEMMA MessageType ==
  ASSUME NEW c \in Messages
  PROVE  c.key \in Keys /\ c.at \in Points
BY CommandsAssumption DEF Messages, Idle, Keys, Points

(* The goals the code names are points.                                    *)
LEMMA OriginIsAPoint == Origin \in Points
BY DEF Origin, Points

LEMMA SupplyZoneIsAPoint == Home \in Points /\ Guard \in Points
BY DEF Home, Guard, Points

(* What is left after one spin_some is no longer than before.              *)
LEMMA SpunType ==
  ASSUME NEW S, NEW q \in Seq(S), NEW d \in Nat, Len(q) <= d
  PROVE  /\ Spun(q) \in Seq(S)
         /\ Len(Spun(q)) <= d
         /\ q # <<>> => Head(q) \in S
<1>1. CASE q = <<>>
  BY <1>1 DEF Spun
<1>2. CASE q # <<>>
  <2>1. Head(q) \in S /\ Tail(q) \in Seq(S) /\ Len(Tail(q)) = Len(q) - 1
    BY <1>2
  <2>2. QED
    BY <1>2, <2>1 DEF Spun
<1>3. QED
  BY <1>1, <1>2

(* A history never grows beyond its depth.                                 *)
LEMMA PublishBounded ==
  ASSUME NEW S, NEW q \in Seq(S), NEW v \in S, NEW d \in Nat \ {0},
         Len(q) <= d
  PROVE  Len(Publish(q, v, d)) <= d
<1>1. CASE Len(q) < d
  BY <1>1 DEF Publish
<1>2. CASE ~ (Len(q) < d)
  <2>1. q # <<>> /\ Len(q) = d
    BY <1>2
  <2>2. Tail(q) \in Seq(S) /\ Len(Tail(q)) = Len(q) - 1
    BY <2>1
  <2>3. QED
    BY <1>2, <2>1, <2>2 DEF Publish
<1>3. QED
  BY <1>1, <1>2

(* The timer keeps its range and only ever takes the command away.         *)
LEMMA TimerOnlyEnds ==
  ASSUME NEW moving \in BOOLEAN, NEW commanded \in BOOLEAN,
         count \in 0 .. CountSize - 1, TimeTheMove(moving, commanded)
  PROVE  /\ count' \in 0 .. CountSize - 1
         /\ forced' \in BOOLEAN
         /\ inCommand' \in BOOLEAN
         /\ inCommand' => commanded
<1>1. count' \in 0 .. CountSize - 1
  <2>1. /\ CountSize \in Nat /\ 0 \in 0 .. CountSize - 1
        /\ count \in Nat
    BY Ranges
  <2>2. \/ count' = count
        \/ count + 1 < CountSize /\ count' = count + 1
        \/ count' = 0
    BY DEF TimeTheMove
  <2>3. QED
    BY <2>1, <2>2
<1>2. /\ forced' \in BOOLEAN /\ inCommand' \in BOOLEAN
      /\ inCommand' => commanded
  <2>1. CASE forced' = FALSE /\ inCommand' = commanded
    BY <2>1, Zenon
  <2>2. CASE forced' = TRUE /\ inCommand' = commanded
    BY <2>2, Zenon
  <2>3. CASE forced' = FALSE /\ inCommand' = FALSE
    BY <2>3, Zenon
  <2>4. QED
    BY <2>1, <2>2, <2>3, Zenon DEF TimeTheMove
<1>3. QED
  BY <1>1, <1>2

(* The initial state satisfies the inductive invariant.                    *)
LEMMA InitIInv == Init => IInv
<1>1. SUFFICES ASSUME Init PROVE IInv
  OBVIOUS
<1>2. TypeOK
  <2>1. inbox \in Seq(Commands \cup {Idle}) /\ Len(inbox) <= Depth
    <3>1. inbox = <<>>
      BY <1>1 DEF Init
    <3>2. QED
      BY <3>1, Ranges
  <2>2. goal \in Points
    BY <1>1, OriginIsAPoint DEF Init
  <2>3. /\ inCommand \in BOOLEAN /\ bbInCommand \in BOOLEAN
        /\ forced \in BOOLEAN
        /\ goFort \in BOOLEAN /\ noResurrection \in BOOLEAN
    BY <1>1, Zenon DEF Init
  <2>4. /\ pc = "wait" /\ phase = "playing" /\ heard = "none"
        /\ place = "field" /\ key = "" /\ bbKey = "" /\ command = Idle
        /\ games = 1 /\ presses = 0 /\ count = 0
    BY <1>1 DEF Init
  <2>5. QED
    BY <2>1, <2>2, <2>3, <2>4, Ranges DEF TypeOK
<1>3. QED
  BY <1>1, <1>2 DEF Init, IInv, CommandedGoal, PhasesFollow, BoardAgrees, OnCourse

(* WaitForGameStart: a pass begins only in a game; the blackboard is reset *)
(* between games.                                                          *)
LEMMA WaitTickIInv == IInv /\ WaitForGameStartTick => IInv'
<1> SUFFICES ASSUME IInv, WaitForGameStartTick PROVE IInv'
  OBVIOUS
<1>1. /\ pc \in {"wait", "done"} /\ heard' \in {heard, phase}
      /\ pc' = IF heard' = "playing" THEN "record" ELSE "wait"
      /\ UNCHANGED <<place, inbox, key, inCommand, forced, count>>
      /\ UNCHANGED <<phase, games, command, presses>>
  BY DEF WaitForGameStartTick, referee, node, move
<1>2. TypeOK
  BY DEF IInv
<1>3. \/ /\ heard' = "settled"
         /\ bbInCommand' = FALSE /\ bbKey' = "" /\ goal' = Origin
         /\ goFort' = TRUE /\ noResurrection' = FALSE
      \/ /\ heard' # "settled"
         /\ UNCHANGED <<bbInCommand, bbKey, goal, goFort, noResurrection>>
  BY DEF WaitForGameStartTick, ResetBoard, board, selected
<1>4. TypeOK'
  <2>1. Origin \in Points
    BY OriginIsAPoint
  <2>2. /\ pc' \in {"wait", "record"}
        /\ heard' \in {"none", "playing", "settled"}
    BY <1>1, <1>2 DEF TypeOK
  <2>3. /\ bbInCommand' \in BOOLEAN
        /\ goFort' \in BOOLEAN /\ noResurrection' \in BOOLEAN
    BY <1>2, <1>3, Zenon DEF TypeOK
  <2>4. goal' \in Points /\ bbKey' \in Keys \cup {""}
    BY <1>2, <1>3, <2>1 DEF TypeOK
  <2>5. QED
    BY <1>1, <1>2, <2>2, <2>3, <2>4 DEF TypeOK
<1>5. PhasesFollow'
  BY <1>1, <1>2, <1>3 DEF IInv, PhasesFollow, TypeOK
<1>6. BoardAgrees' /\ CommandedGoal'
  BY <1>1 DEF BoardAgrees, CommandedGoal
<1>7. OnCourse'
  <2>1. SUFFICES ASSUME heard' = "playing", inCommand, key = "0"
                 PROVE  OperatorsGoal'
    BY <1>1 DEF OnCourse
  <2>2. goal' = goal /\ games' = games
    BY <1>1, <1>3, <2>1
  <2>3. CASE heard = "playing"
    BY <2>1, <2>2, <2>3 DEF IInv, OnCourse, OperatorsGoal
  <2>4. CASE heard = "settled"
    <3>1. phase = "playing" /\ games > 1 /\ goal = Origin
      BY <1>1, <2>1, <2>4 DEF IInv, PhasesFollow
    <3>2. QED
      BY <2>2, <3>1 DEF OperatorsGoal
  <2>5. CASE heard = "none"
    BY <2>1, <2>5 DEF IInv, PhasesFollow
  <2>6. QED
    BY <1>2, <2>3, <2>4, <2>5 DEF TypeOK
<1>8. QED
  BY <1>4, <1>5, <1>6, <1>7 DEF IInv

(* What the callback and the timer leave: the node obeys a target only     *)
(* with an operator's goal on the blackboard.                              *)
LEMMA CallbackKeepsCourse ==
  ASSUME IInv, heard = "playing", games' = games,
         \/ HearsACommand /\ Obey(Head(inbox))
         \/ ~ HearsACommand /\ Ignore
  PROVE  /\ key' \in Keys \cup {""}
         /\ inCommand' \in BOOLEAN /\ forced' \in BOOLEAN
         /\ count' \in 0 .. CountSize - 1
         /\ goal' \in Points
         /\ goFort' \in BOOLEAN /\ noResurrection' \in BOOLEAN
         /\ inCommand' /\ key' = "0" => OperatorsGoal'
<1>1. /\ count \in 0 .. CountSize - 1 /\ goal \in Points
      /\ key \in Keys \cup {""}
      /\ inbox \in Seq(Messages) /\ Len(inbox) <= Depth /\ Depth \in Nat
  BY Ranges DEF IInv, TypeOK, Messages
<1>2. /\ forced \in BOOLEAN /\ inCommand \in BOOLEAN
      /\ goFort \in BOOLEAN /\ noResurrection \in BOOLEAN
  BY Zenon DEF IInv, TypeOK
<1>3. CASE HearsACommand /\ Obey(Head(inbox))
  <2> DEFINE c == Head(inbox)
  <2>1. c \in Messages
    <3>1. inbox # <<>>
      BY <1>3, Zenon DEF HearsACommand
    <3>2. QED
      BY <1>1, <3>1, SpunType
  <2>2. c.key \in Keys /\ c.at \in Points
    BY <2>1, MessageType
  <2> HIDE DEF c
  <2>3. /\ key' = c.key
        /\ goal' = IF c.key = "0" THEN OnMap(c.at) ELSE goal
        /\ TimeTheMove(forced \/ c.key = "W", c.key \in Commanding)
    BY <1>3 DEF Obey, c
  <2>4. goFort' \in BOOLEAN /\ noResurrection' \in BOOLEAN
    BY <1>2, <1>3, Zenon DEF Obey, Select
  <2>5. /\ count' \in 0 .. CountSize - 1
        /\ forced' \in BOOLEAN /\ inCommand' \in BOOLEAN
    <3>1. (forced \/ c.key = "W") \in BOOLEAN
      OBVIOUS
    <3>2. (c.key \in Commanding) \in BOOLEAN
      OBVIOUS
    <3>3. QED
      BY <1>1, <2>3, <3>1, <3>2, TimerOnlyEnds
  <2>6. goal' \in Points
    <3>1. OnMap(c.at) \in Points
      BY <2>2 DEF OnMap, Points
    <3>2. QED
      BY <1>1, <2>3, <3>1
  <2>7. c.key = "0" => OperatorsGoal'
    <3>1. c.key = "0" => c \in Commands
      BY <1>3, <2>1 DEF HearsACommand, Recognised, Messages, Idle, c
    <3>2. QED
      BY <2>3, <3>1 DEF OperatorsGoal
  <2>8. QED
    BY <2>2, <2>3, <2>4, <2>5, <2>6, <2>7
<1>4. CASE ~ HearsACommand /\ Ignore
  <2>1. /\ TimeTheMove(forced, inCommand)
        /\ UNCHANGED <<key, goal, goFort, noResurrection>>
    BY <1>4 DEF Ignore, selected
  <2>2. /\ count' \in 0 .. CountSize - 1
        /\ forced' \in BOOLEAN /\ inCommand' \in BOOLEAN
        /\ inCommand' => inCommand
    BY <1>1, <1>2, <2>1, TimerOnlyEnds
  <2>3. inCommand /\ key = "0" => OperatorsGoal
    BY DEF IInv, OnCourse
  <2>4. inCommand' /\ key' = "0" => OperatorsGoal'
    BY <2>1, <2>2, <2>3 DEF OperatorsGoal
  <2>5. QED
    BY <1>1, <1>2, <2>1, <2>2, <2>4
<1>5. QED
  BY <1>3, <1>4

(* RecordCommandControl: what it writes on the blackboard is what it keeps,*)
(* and a target it obeys is on the blackboard.                             *)
LEMMA RecordTickIInv == IInv /\ RecordCommandControlTick => IInv'
<1> SUFFICES ASSUME IInv, RecordCommandControlTick PROVE IInv'
  OBVIOUS
<1>1. /\ pc = "record" /\ pc' = "missions" /\ inbox' = Spun(inbox)
      /\ bbKey' = key' /\ bbInCommand' = inCommand'
      /\ UNCHANGED <<heard, place, phase, games, command, presses>>
  BY DEF RecordCommandControlTick, referee
<1>2. TypeOK /\ heard = "playing" /\ games' = games
  BY <1>1 DEF IInv, PhasesFollow
<1>3. /\ key' \in Keys \cup {""}
      /\ inCommand' \in BOOLEAN /\ forced' \in BOOLEAN
      /\ count' \in 0 .. CountSize - 1
      /\ goal' \in Points
      /\ goFort' \in BOOLEAN /\ noResurrection' \in BOOLEAN
      /\ inCommand' /\ key' = "0" => OperatorsGoal'
  BY <1>2, CallbackKeepsCourse DEF RecordCommandControlTick
<1>4. inbox' \in Seq(Commands \cup {Idle}) /\ Len(inbox') <= Depth
  <2>1. inbox \in Seq(Commands \cup {Idle}) /\ Len(inbox) <= Depth
    BY <1>2 DEF TypeOK
  <2>2. QED
    BY <1>1, <2>1, SpunType, Ranges
<1>5. TypeOK'
  BY <1>1, <1>2, <1>3, <1>4 DEF TypeOK
<1>6. PhasesFollow' /\ BoardAgrees' /\ OnCourse' /\ CommandedGoal'
  BY <1>1, <1>2, <1>3 DEF PhasesFollow, BoardAgrees, OnCourse, CommandedGoal
<1>7. QED
  BY <1>5, <1>6 DEF IInv

(* The missions: under command the goal is kept, or the supply zone's.     *)
LEMMA MissionsTickIInv == IInv /\ MissionsTick => IInv'
<1> SUFFICES ASSUME IInv, MissionsTick PROVE IInv'
  OBVIOUS
<1>1. /\ pc = "missions" /\ pc' = "done"
      /\ UNCHANGED <<heard, place, inbox, key, inCommand, forced, count>>
      /\ UNCHANGED <<bbInCommand, bbKey, goFort, noResurrection>>
      /\ UNCHANGED <<phase, games, command, presses>>
  BY DEF MissionsTick, referee, node, move, selected
<1>2. TypeOK /\ heard = "playing" /\ bbInCommand = inCommand /\ bbKey = key
  BY <1>1 DEF IInv, PhasesFollow, BoardAgrees
<1>3. inCommand /\ key = "0" => OperatorsGoal
  BY <1>2 DEF IInv, OnCourse
<1>4. goal' = Home \/ goal' \in GoalsThisPass(Guard) \/ goal' \in GoalsThisPass(goal)
  BY DEF MissionsTick
<1>5. /\ goal' \in Points
      /\ bbInCommand /\ bbKey = "G" => goal' = Home
      /\ bbInCommand /\ bbKey = "0" => goal' \in {Home, Guard, goal}
  <2>1. \/ goal' \in {Home, Guard, goal}
        \/ ~ bbInCommand /\ goal' \in MissionGoals
    BY <1>4 DEF GoalsThisPass
  <2>2. goal \in Points /\ MissionGoals \subseteq Points
    BY <1>2, GoalsAssumption DEF TypeOK
  <2>3. bbInCommand /\ bbKey = "G" => goal' = Home
    BY <1>4 DEF GoalsThisPass
  <2>4. QED
    BY <2>1, <2>2, <2>3, SupplyZoneIsAPoint
<1>6. TypeOK'
  BY <1>1, <1>2, <1>5 DEF TypeOK
<1>7. inCommand /\ key = "0" => OperatorsGoal'
  BY <1>1, <1>2, <1>3, <1>5 DEF OperatorsGoal
<1>8. PhasesFollow' /\ BoardAgrees' /\ OnCourse' /\ CommandedGoal'
  BY <1>1, <1>2, <1>5, <1>7
     DEF PhasesFollow, BoardAgrees, OnCourse, CommandedGoal
<1>9. QED
  BY <1>6, <1>8 DEF IInv

(* An emergency ends the pass and changes nothing else.                    *)
LEMMA EmergencyTickIInv == IInv /\ EmergencyTick => IInv'
<1> SUFFICES ASSUME IInv, EmergencyTick PROVE IInv'
  OBVIOUS
<1>1. /\ pc = "missions" /\ pc' = "wait"
      /\ UNCHANGED <<heard, place, inbox, key, inCommand, forced, count>>
      /\ UNCHANGED <<bbInCommand, bbKey, goal, goFort, noResurrection>>
      /\ UNCHANGED <<phase, games, command, presses>>
  BY DEF EmergencyTick, referee, node, move, board, selected
<1>2. TypeOK'
  <2>1. TypeOK
    BY DEF IInv
  <2>2. /\ inCommand' \in BOOLEAN /\ bbInCommand' \in BOOLEAN
        /\ forced' \in BOOLEAN
        /\ goFort' \in BOOLEAN /\ noResurrection' \in BOOLEAN
    <3>1. /\ inCommand' = inCommand /\ bbInCommand' = bbInCommand
          /\ forced' = forced /\ goFort' = goFort
          /\ noResurrection' = noResurrection
      BY <1>1
    <3>2. QED
      BY <2>1, <3>1, Zenon DEF TypeOK
  <2>3. QED
    BY <1>1, <2>1, <2>2 DEF TypeOK
<1>3. OperatorsGoal' = OperatorsGoal
  BY <1>1 DEF OperatorsGoal
<1>4. PhasesFollow' /\ BoardAgrees' /\ OnCourse' /\ CommandedGoal'
  BY <1>1, <1>3
     DEF IInv, PhasesFollow, BoardAgrees, OnCourse, CommandedGoal
<1>5. QED
  BY <1>2, <1>4 DEF IInv

(* The operator, the referee system and the robot's way leave the          *)
(* blackboard alone; a game that begins is not the first.                  *)
LEMMA ExternalIInv ==
  ASSUME IInv,
         OperatorCommands \/ CommandArrives \/ GameEnds \/ GameBegins \/ RobotMoves
  PROVE  IInv'
<1> USE DEF referee, node, move, board, selected
<1>1. /\ UNCHANGED <<pc, heard, inCommand, key, forced, count>>
      /\ UNCHANGED <<bbInCommand, bbKey, goal, goFort, noResurrection>>
  BY DEF OperatorCommands, CommandArrives, GameEnds, GameBegins, RobotMoves
<1>2. /\ TypeOK
      /\ games \in 1 .. MaxGames /\ games \in Nat
      /\ presses \in 0 .. MaxPresses /\ presses \in Nat
      /\ phase \in {"playing", "settled"}
  <2>1. /\ TypeOK
        /\ games \in 1 .. MaxGames /\ presses \in 0 .. MaxPresses
        /\ phase \in {"playing", "settled"}
    BY DEF IInv, TypeOK
  <2>2. MaxGames \in Nat /\ MaxPresses \in Nat
    BY BoundsAssumption
  <2>3. games \in Nat
    BY <2>1, <2>2
  <2>4. presses \in Nat
    BY <2>1, <2>2
  <2>5. QED
    BY <2>1, <2>3, <2>4
<1>3. /\ games' \in 1 .. MaxGames /\ games' >= games
      /\ phase' \in {"playing", "settled"}
      /\ heard = "none" => phase' = phase \/ phase = "settled"
      /\ heard = "settled" /\ phase' = "playing" => phase = "playing" \/ games' > 1
  <2>1. CASE GameBegins
    BY <1>2, <2>1, Ranges DEF GameBegins
  <2>2. CASE OperatorCommands \/ CommandArrives \/ GameEnds \/ RobotMoves
    BY <1>2, <2>2 DEF OperatorCommands, CommandArrives, GameEnds, RobotMoves
  <2>3. QED
    BY <2>1, <2>2
<1>4. /\ place' \in {"field", "hurt", "healed"}
      /\ command' \in Commands \cup {Idle}
  BY <1>2 DEF OperatorCommands, CommandArrives, GameEnds, GameBegins, RobotMoves,
              TypeOK
<1>5. /\ presses' \in 0 .. MaxPresses
  <2>1. CASE OperatorCommands
    BY <1>2, <2>1, Ranges DEF OperatorCommands
  <2>2. CASE GameBegins
    BY <1>2, <2>2, Ranges DEF GameBegins
  <2>3. CASE CommandArrives \/ GameEnds \/ RobotMoves
    BY <1>2, <2>3 DEF CommandArrives, GameEnds, RobotMoves, TypeOK
  <2>4. QED
    BY <2>1, <2>2, <2>3
<1>6. inbox' \in Seq(Commands \cup {Idle}) /\ Len(inbox') <= Depth
  <2>1. CASE CommandArrives
    BY <1>2, <2>1, DepthAssumption, PublishKeepsType, PublishBounded
       DEF CommandArrives, TypeOK
  <2>2. CASE OperatorCommands \/ GameEnds \/ GameBegins \/ RobotMoves
    BY <1>2, <2>2 DEF OperatorCommands, GameEnds, GameBegins, RobotMoves, TypeOK
  <2>3. QED
    BY <2>1, <2>2
<1>7. TypeOK'
  BY <1>1, <1>2, <1>3, <1>4, <1>5, <1>6 DEF TypeOK
<1>8. OperatorsGoal => OperatorsGoal'
  <2>1. games > 1 => games' > 1
    BY <1>2, <1>3
  <2>2. QED
    BY <1>1, <2>1 DEF OperatorsGoal
<1>9. PhasesFollow'
  <2>1. heard = "settled" /\ phase' = "playing" => games' > 1
    <3>1. heard = "settled" /\ phase = "playing" => games > 1
      BY DEF IInv, PhasesFollow
    <3>2. QED
      BY <1>2, <1>3, <3>1
  <2>2. heard = "none" => phase' = "playing"
    BY <1>3 DEF IInv, PhasesFollow
  <2>3. QED
    BY <1>1, <2>1, <2>2 DEF IInv, PhasesFollow
<1>10. BoardAgrees' /\ OnCourse' /\ CommandedGoal'
  BY <1>1, <1>8 DEF IInv, BoardAgrees, OnCourse, CommandedGoal
<1>11. QED
  BY <1>7, <1>9, <1>10 DEF IInv

(* The inductive invariant holds in every reachable state.                 *)
LEMMA Inductive == Spec => []IInv
<1>1. IInv /\ [Next]_vars => IInv'
  <2>1. SUFFICES ASSUME IInv, [Next]_vars PROVE IInv'
    OBVIOUS
  <2>2. CASE Pass
    BY <2>1, <2>2, WaitTickIInv, RecordTickIInv, EmergencyTickIInv,
       MissionsTickIInv DEF Pass
  <2>3. CASE OperatorCommands \/ CommandArrives \/ GameEnds \/ GameBegins \/ RobotMoves
    BY <2>1, <2>3, ExternalIInv
  <2>4. CASE UNCHANGED vars
    <3> USE DEF vars, referee, node, move, board, selected
    <3>1. TypeOK'
      <4>1. /\ pc' = pc /\ phase' = phase /\ heard' = heard /\ games' = games
            /\ place' = place /\ command' = command /\ presses' = presses
            /\ inbox' = inbox /\ key' = key /\ count' = count /\ bbKey' = bbKey
            /\ goal' = goal
        BY <2>4
      <4>2. /\ inCommand' = inCommand /\ bbInCommand' = bbInCommand
            /\ forced' = forced /\ goFort' = goFort
            /\ noResurrection' = noResurrection
        BY <2>4
      <4>3. TypeOK
        BY <2>1 DEF IInv
      <4>4. QED
        <5>1. /\ inCommand' \in BOOLEAN /\ bbInCommand' \in BOOLEAN
              /\ forced' \in BOOLEAN
              /\ goFort' \in BOOLEAN /\ noResurrection' \in BOOLEAN
          BY <4>2, <4>3, Zenon DEF TypeOK
        <5>2. QED
          BY <4>1, <4>3, <5>1 DEF TypeOK
    <3>2. OperatorsGoal' = OperatorsGoal
      BY <2>4 DEF OperatorsGoal
    <3>3. PhasesFollow' /\ BoardAgrees' /\ OnCourse' /\ CommandedGoal'
      BY <2>1, <2>4, <3>2
         DEF IInv, PhasesFollow, BoardAgrees, OnCourse, CommandedGoal
    <3>4. QED
      BY <3>1, <3>3 DEF IInv
  <2>5. QED
    BY <2>1, <2>2, <2>3, <2>4 DEF Next
<1>2. QED
  BY <1>1, InitIInv, PTL DEF Spec

(* Every state is well formed: the timer of a forced move stays below its  *)
(* limit, the subscription's history within its depth.                     *)
THEOREM TypeCorrect == Spec => []TypeOK
<1>1. IInv => TypeOK
  BY DEF IInv
<1>2. QED
  BY <1>1, Inductive, PTL

(* A sentry under the operator's command drives to his goal or to the      *)
(* supply zone's, whatever arrives between the nodes of a pass.            *)
THEOREM CommandedSentryObeys == Spec => []CommandedGoal
<1>1. IInv => CommandedGoal
  BY DEF IInv
<1>2. QED
  BY <1>1, Inductive, PTL

-----------------------------------------------------------------------------
(* A set of numbers has a least one.                                       *)
LEMMA LeastNumber ==
  ASSUME NEW N \in SUBSET Nat, N # {}
  PROVE  \E i \in N : \A j \in N : i <= j
<1>1. PICK i \in N : \A j \in N : ~(<<j, i>> \in OpToRel(<, Nat))
      BY WFMin, NatLessThanWellFounded, Zenon
<1>2. \A j \in N : ~(j < i)
      BY <1>1 DEF OpToRel
<1> QED
    BY <1>2

(* A finite set of numbers has a greatest one.                             *)
LEMMA MaxExists ==
  ASSUME NEW S \in SUBSET Nat, IsFiniteSet(S), S # {}
  PROVE  \E x \in S : \A y \in S : x >= y
<1> DEFINE Bad == {n \in Nat : \E T \in SUBSET Nat :
                     /\ IsFiniteSet(T) /\ T # {} /\ Cardinality(T) = n
                     /\ ~ \E x \in T : \A y \in T : x >= y}
<1>1. SUFFICES ASSUME Bad # {} PROVE FALSE
  <2>1. Cardinality(S) \in Nat
        BY FS_CardinalityType
  <2> QED
      BY <2>1
<1>2. PICK n \in Bad : \A j \in Bad : n <= j
  <2> HIDE DEF Bad
  <2>1. Bad \subseteq Nat
        BY DEF Bad
  <2> QED
      BY <1>1, <2>1, LeastNumber
<1>3. PICK T \in SUBSET Nat :
        /\ IsFiniteSet(T) /\ T # {} /\ Cardinality(T) = n
        /\ ~ \E x \in T : \A y \in T : x >= y
      OBVIOUS
<1>4. PICK z \in T : TRUE
      BY <1>3
<1>5. IsFiniteSet(T \ {z}) /\ Cardinality(T \ {z}) = n - 1
      BY <1>3, <1>4, FS_RemoveElement
<1>6. T \ {z} # {}
      BY <1>3, <1>4
<1>7. n - 1 \in Nat
      BY <1>5, FS_CardinalityType
<1>8. n - 1 \notin Bad
      BY <1>2, <1>7
<1>9. PICK x \in T \ {z} : \A y \in T \ {z} : x >= y
      BY <1>5, <1>6, <1>7, <1>8
<1> QED
    BY <1>3, <1>4, <1>9

(* What Max returns.                                                       *)
LEMMA MaxIsGreatest ==
  ASSUME NEW S \in SUBSET Nat, IsFiniteSet(S), S # {}
  PROVE  Max(S) \in S /\ \A y \in S : Max(S) >= y
BY MaxExists DEF Max

(* A set of positions can be listed in order.                              *)
Climbing(s, n) == \A i, j \in 1..n : i < j => s[i] < s[j]

(* There is a list to CHOOSE in Callbacks.                                 *)
LEMMA SortedExists ==
  ASSUME NEW m \in Nat, NEW S \in SUBSET (1..m)
  PROVE  /\ IsFiniteSet(S)
         /\ \E s \in [1..Cardinality(S) -> S] : Climbing(s, Cardinality(S))
<1> DEFINE Listed(T) == \E s \in [1..Cardinality(T) -> T] : Climbing(s, Cardinality(T))
           Bad == {n \in Nat : \E T \in SUBSET (1..n) : ~Listed(T)}
<1>0. \A n \in Nat : \A T \in SUBSET (1..n) :
         IsFiniteSet(T) /\ Cardinality(T) \in Nat
  <2> SUFFICES ASSUME NEW n \in Nat, NEW T \in SUBSET (1..n)
               PROVE  IsFiniteSet(T) /\ Cardinality(T) \in Nat
      OBVIOUS
  <2>1. IsFiniteSet(1..n)
        BY FS_Interval
  <2> QED
      BY <2>1, FS_Subset, FS_CardinalityType
<1>1. SUFFICES ASSUME Bad # {} PROVE FALSE
      BY <1>0
<1>2. PICK n \in Bad : \A j \in Bad : n <= j
  <2> HIDE DEF Bad
  <2>1. Bad \subseteq Nat
        BY DEF Bad
  <2> QED
      BY <1>1, <2>1, LeastNumber
<1>3. PICK T \in SUBSET (1..n) : ~Listed(T)
      OBVIOUS
<1>3a. n \in Nat
      BY DEF Bad
<1>4. T # {}
  <2> SUFFICES ASSUME T = {} PROVE FALSE
      OBVIOUS
  <2>1. Cardinality(T) = 0
        BY FS_EmptySet
  <2> DEFINE e == [i \in 1..0 |-> 0]
  <2>2. e \in [1..Cardinality(T) -> T] /\ Climbing(e, Cardinality(T))
        BY <2>1 DEF Climbing
  <2> QED
      BY <1>3, <2>2
<1>5. n >= 1 /\ n - 1 \in Nat
  <2> HIDE DEF Bad
  <2>1. PICK x \in 1..n : x \in T
        BY <1>4
  <2> QED
      BY <1>3a, <2>1
<1>6. n - 1 \notin Bad
  <2> HIDE DEF Bad
  <2> QED
      BY <1>2, <1>3a, <1>5
<1>7. n \in T
  <2> SUFFICES ASSUME n \notin T PROVE FALSE
      OBVIOUS
  <2>1. T \in SUBSET (1..(n - 1))
        BY <1>5
  <2> QED
      BY <1>3, <1>5, <1>6, <2>1
<1> DEFINE U == T \ {n}
           k == Cardinality(U)
<1>8. U \in SUBSET (1..(n - 1))
      BY <1>5
<1>9. k \in Nat /\ Cardinality(T) = k + 1
  <2>1. IsFiniteSet(T) /\ k \in Nat /\ Cardinality(T) \in Nat
        BY <1>0, <1>5, <1>8
  <2>2. k = Cardinality(T) - 1
        BY <1>7, <2>1, FS_RemoveElement
  <2> QED
      BY <2>1, <2>2
<1>10. PICK s \in [1..k -> U] : Climbing(s, k)
  <2>1. Listed(U)
        BY <1>5, <1>6, <1>8
  <2> HIDE DEF U
  <2> QED
      BY <2>1
<1> DEFINE t == [i \in 1..(k + 1) |-> IF i = k + 1 THEN n ELSE s[i]]
<1>11. t \in [1..(k + 1) -> T]
  <2> HIDE DEF k
  <2> QED
      BY <1>7, <1>9, <1>10
<1>12. Climbing(t, k + 1)
  <2> HIDE DEF k, U
  <2>1. \A i \in 1..k : s[i] < n
    <3>1. \A i \in 1..k : s[i] \in U
          BY <1>10
    <3>2. \A u \in U : u < n
          BY <1>3a, <1>8
    <3> QED
        BY <3>1, <3>2
  <2> QED
      BY <1>9, <1>10, <2>1 DEF Climbing
<1> QED
    BY <1>3, <1>9, <1>11, <1>12

-----------------------------------------------------------------------------
(* What bytes are.                                                         *)
Sizes == {data + Overhead : data \in DataSizes}

(* A byte that was not damaged, and the order in which bytes are sent.     *)
Real(b) == b[2] >= 1
Before(b, c) == b[1] < c[1] \/ (b[1] = c[1] /\ b[2] < c[2])

(* Only a byte that was not damaged says of which frame it is.             *)
ByteOK(b) ==
  /\ b[1] \in 0..MaxFrames /\ b[2] \in Nat /\ b[3] \in Nat
  /\ Real(b) => b[1] \in 1..MaxFrames /\ b[3] \in Sizes

(* A frame has data besides its head and tail.                             *)
LEMMA SizeBounds ==
  /\ Overhead \in Nat /\ HeadSize \in Nat /\ HeadSize >= 1
  /\ HeadSize < Overhead
  /\ \A n \in Sizes : n \in Nat /\ n > Overhead
BY SizesAssumption DEF Sizes, Overhead

LEMMA ByteType == \A b \in Bytes : ByteOK(b)
<1>1. ByteOK(Noise)
      BY LinkBoundsAssumption DEF ByteOK, Noise, Real
<1>2. ASSUME NEW size \in Sizes, NEW f \in 1..MaxFrames, NEW k \in 1..size
      PROVE  ByteOK(<<f, k, size>>)
      BY SizeBounds, LinkBoundsAssumption DEF ByteOK, Real
<1> QED
    BY <1>1, <1>2 DEF Bytes, Sizes

(* The bytes of a frame as it is sent.                                     *)
LEMMA FrameType ==
  ASSUME NEW f \in 1..MaxFrames, NEW size \in Sizes
  PROVE  /\ Frame(f, size) \in Seq(Bytes) /\ Len(Frame(f, size)) = size
         /\ \A k \in 1..size : Frame(f, size)[k] = <<f, k, size>>
<1>1. size \in Nat
      BY SizeBounds
<1>2. \A k \in 1..size : <<f, k, size>> \in Bytes
      BY DEF Bytes, Sizes
<1> QED
    BY <1>1, <1>2 DEF Frame

(* A damaged byte starts no frame.                                         *)
LEMMA NoiseType == Noise \in Bytes /\ ~Real(Noise) /\ Noise[2] # 1
BY DEF Noise, Bytes, Real

(* No frame is larger than the largest.                                    *)
LEMMA LargestBound == LargestFrame \in Nat /\ \A n \in Sizes : n <= LargestFrame
<1>1. Max(DataSizes) \in DataSizes /\ \A d \in DataSizes : Max(DataSizes) >= d
      BY SizesAssumption, MaxIsGreatest
<1>2. Max(DataSizes) \in Nat /\ \A d \in DataSizes : d \in Nat
      BY SizesAssumption, <1>1
<1>3. \A d \in DataSizes : d + Overhead <= Max(DataSizes) + Overhead
      BY <1>1, <1>2, SizeBounds
<1>4. Max(DataSizes) + Overhead \in Nat
      BY <1>2, SizeBounds
<1> QED
    BY <1>3, <1>4 DEF Sizes, LargestFrame

-----------------------------------------------------------------------------
(* Sequences of bytes.                                                     *)
IsStream(s) == s \in Seq(Bytes)

(* The bytes that were not damaged are in the order they were sent in.     *)
Sorted(s) ==
  \A i, j \in 1..Len(s) : i < j /\ Real(s[i]) /\ Real(s[j]) => Before(s[i], s[j])

(* Where the first byte of a frame is; the frames all of whose bytes follow*)
(* it; those that can not be completed, as they end after the last byte or *)
(* as a byte of another frame lies within.                                 *)
Starts(s)   == {p \in 1..Len(s) : s[p][2] = 1}
Complete(s) == {p \in Starts(s) : Whole(s, p, s[p][3])}
Torn(s) ==
  {p \in Starts(s) :
     \/ p + s[p][3] - 1 > Len(s)
     \/ \E q \in p..(p + s[p][3] - 1) : Real(s[q]) /\ s[q][1] # s[p][1]}

(* What the first byte says of its frame.                                  *)
LEMMA StartType ==
  ASSUME NEW s, IsStream(s), NEW p \in Starts(s)
  PROVE  /\ p \in 1..Len(s) /\ Len(s) \in Nat
         /\ Real(s[p]) /\ s[p][2] = 1
         /\ s[p][1] \in 1..MaxFrames /\ s[p][3] \in Sizes
         /\ s[p][3] \in Nat /\ s[p][3] > Overhead
<1>1. s[p] \in Bytes /\ Len(s) \in Nat
      BY DEF Starts, IsStream
<1>2. ByteOK(s[p])
      BY <1>1, ByteType
<1> QED
    BY <1>1, <1>2, SizeBounds DEF Starts, Real, ByteOK

(* Two frames' first bytes are not of the same frame.                      *)
LEMMA StartsDiffer ==
  ASSUME NEW s, IsStream(s), Sorted(s),
         NEW p \in Starts(s), NEW q \in Starts(s), p < q
  PROVE  s[p][1] < s[q][1]
<1>1. Before(s[p], s[q])
      BY StartType DEF Sorted
<1> QED
    BY <1>1, StartType DEF Before

(* A frame is not both complete and torn.                                  *)
LEMMA CompleteIsNotTorn ==
  ASSUME NEW s, IsStream(s), NEW p \in Complete(s)
  PROVE  p \in Starts(s) /\ p \notin Torn(s)
<1>1. p \in Starts(s) /\ Whole(s, p, s[p][3])
      BY DEF Complete
<1>2. p + s[p][3] - 1 <= Len(s)
      BY <1>1 DEF Whole
<1>3. \A q \in p..(p + s[p][3] - 1) : s[q][1] = s[p][1]
  <2> SUFFICES ASSUME NEW q \in p..(p + s[p][3] - 1)
               PROVE  s[q][1] = s[p][1]
      OBVIOUS
  <2>0. p \in Nat /\ s[p][3] \in Nat
        BY <1>1, StartType DEF Starts
  <2>1. q - p + 1 \in 1..s[p][3] /\ p + (q - p + 1) - 1 = q
        BY <2>0
  <2>2. s[q] = <<s[p][1], q - p + 1, s[p][3]>>
        BY <1>1, <2>1 DEF Whole
  <2> QED
      BY <2>2
<1> QED
    BY <1>1, <1>2, <1>3, StartType DEF Torn

(* A frame that is not torn is not reached into by another one.            *)
LEMMA NextStarts ==
  ASSUME NEW s, IsStream(s), Sorted(s),
         NEW p \in Starts(s), p \notin Torn(s), NEW q \in Starts(s), p < q
  PROVE  q >= p + s[p][3]
<1> SUFFICES ASSUME q < p + s[p][3]
             PROVE  FALSE
    BY StartType
<1>1. q \in p..(p + s[p][3] - 1)
      BY StartType
<1>2. s[q][1] = s[p][1]
      BY <1>1, StartType DEF Torn
<1> QED
    BY <1>2, StartsDiffer, StartType

(* The bytes of the frame at p are found in t, d positions further on.     *)
Kept(s, p, t, d) ==
  /\ p + d >= 1 /\ p + d + s[p][3] - 1 <= Len(t)
  /\ \A q \in p..(p + s[p][3] - 1) : t[q + d] = s[q]

(* A frame is complete when its bytes follow each other.                   *)
LEMMA CompleteMeans ==
  ASSUME NEW s, IsStream(s), NEW p \in Starts(s)
  PROVE  p \in Complete(s) <=>
           /\ p + s[p][3] - 1 <= Len(s)
           /\ \A q \in p..(p + s[p][3] - 1) :
                s[q] = <<s[p][1], q - p + 1, s[p][3]>>
<1>1. PICK n \in Nat : n = s[p][3] /\ p \in Nat
      BY StartType DEF Starts
<1>2. ASSUME \A k \in 1..n : s[p + k - 1] = <<s[p][1], k, n>>,
             NEW q \in p..(p + n - 1)
      PROVE  s[q] = <<s[p][1], q - p + 1, n>>
  <2>1. q - p + 1 \in 1..n /\ p + (q - p + 1) - 1 = q
        BY <1>1
  <2> QED
      BY <1>2, <2>1
<1>3. ASSUME \A q \in p..(p + n - 1) : s[q] = <<s[p][1], q - p + 1, n>>,
             NEW k \in 1..n
      PROVE  s[p + k - 1] = <<s[p][1], k, n>>
  <2>1. p + k - 1 \in p..(p + n - 1) /\ (p + k - 1) - p + 1 = k
        BY <1>1
  <2> QED
      BY <1>3, <2>1
<1> QED
    BY <1>1, <1>2, <1>3 DEF Complete, Whole

(* A frame whose bytes all moved by d is as complete as it was.            *)
LEMMA FramesMove ==
  ASSUME NEW s, IsStream(s), NEW t, IsStream(t), NEW p \in Starts(s),
         NEW d \in Int, Kept(s, p, t, d)
  PROVE  /\ p + d \in Starts(t) /\ t[p + d] = s[p]
         /\ p \in Complete(s) => p + d \in Complete(t)
         /\ p \notin Torn(s) => p + d \notin Torn(t)
<1>1. PICK n \in Nat : n = s[p][3] /\ n > 0 /\ p \in Nat
      BY StartType, SizeBounds DEF Starts
<1>2. PICK r \in Int : r = p + d
      BY <1>1
<1>3. /\ r >= 1 /\ r + n - 1 <= Len(t) /\ Len(t) \in Nat
      /\ \A q \in p..(p + n - 1) : t[q + d] = s[q]
      BY <1>1, <1>2 DEF Kept, IsStream
<1>4. t[r] = s[p]
  <2>1. p \in p..(p + n - 1)
        BY <1>1
  <2> QED
      BY <1>2, <1>3, <2>1
<1>5. r \in Starts(t)
  <2>1. r \in 1..Len(t)
        BY <1>1, <1>3
  <2> QED
      BY <1>4, <2>1 DEF Starts
<1>6. \A q \in r..(r + n - 1) :
        q - d \in p..(p + n - 1) /\ t[q] = s[q - d] /\ q - d - p = q - r
  <2> SUFFICES ASSUME NEW q \in r..(r + n - 1)
               PROVE  q - d \in p..(p + n - 1) /\ t[q] = s[q - d] /\ q - d - p = q - r
      OBVIOUS
  <2>1. q - d \in p..(p + n - 1) /\ q - d - p = q - r /\ (q - d) + d = q
        BY <1>1, <1>2
  <2> QED
      BY <1>3, <2>1
<1>7. ASSUME p \in Complete(s)
      PROVE  r \in Complete(t)
  <2>1. \A q \in p..(p + n - 1) : s[q] = <<s[p][1], q - p + 1, n>>
        BY <1>1, <1>7, CompleteMeans
  <2>2. ASSUME NEW q \in r..(r + n - 1)
        PROVE  t[q] = <<t[r][1], q - r + 1, n>>
        BY <1>4, <1>6, <2>1
  <2> QED
      BY <1>1, <1>3, <1>4, <1>5, <2>2, CompleteMeans
<1>8. ASSUME p \notin Torn(s)
      PROVE  r \notin Torn(t)
  <2>1. \A q \in p..(p + n - 1) : ~Real(s[q]) \/ s[q][1] = s[p][1]
        BY <1>1, <1>8 DEF Torn
  <2>2. \A q \in r..(r + n - 1) : ~Real(t[q]) \/ t[q][1] = t[r][1]
        BY <1>4, <1>6, <2>1
  <2>3. ~(r + n - 1 > Len(t))
        BY <1>1, <1>3
  <2> QED
      BY <1>1, <1>4, <2>2, <2>3 DEF Torn
<1> QED
    BY <1>2, <1>4, <1>5, <1>7, <1>8

(* The bytes of a frame that is not torn are its own or damaged.           *)
LEMMA NotTorn ==
  ASSUME NEW s, IsStream(s), NEW p \in Starts(s), p \notin Torn(s)
  PROVE  /\ p + s[p][3] - 1 <= Len(s)
         /\ \A q \in p..(p + s[p][3] - 1) : Real(s[q]) => s[q][1] = s[p][1]
<1>1. s[p][3] \in Nat /\ Len(s) \in Nat /\ p \in Nat
      BY StartType DEF Starts
<1> QED
    BY <1>1 DEF Torn

(* The first e bytes of s are gone in t.                                   *)
Rest(s, t, e) ==
  e <= Len(s) /\ Len(t) = Len(s) - e /\ \A x \in 1..Len(t) : t[x] = s[x + e]

(* Erasing at the front changes no frame that starts behind.               *)
LEMMA RestKeeps ==
  ASSUME NEW s, IsStream(s), NEW t, IsStream(t), NEW e \in Nat, Rest(s, t, e)
  PROVE  /\ Sorted(s) => Sorted(t)
         /\ \A p \in Starts(t) : p + e \in Starts(s) /\ t[p] = s[p + e]
         /\ \A p \in Torn(t) : p + e \in Torn(s)
         /\ \A p \in Complete(s) :
              p > e => p - e \in Complete(t) /\ t[p - e] = s[p]
         /\ \A p \in Complete(t) : p + e \in Complete(s)
<1>0. Len(s) \in Nat /\ Len(t) \in Nat /\ Len(s) = Len(t) + e
      BY DEF Rest, IsStream
<1>a. \A x \in 1..Len(t) : x + e \in 1..Len(s) /\ t[x] = s[x + e]
      BY <1>0 DEF Rest
<1>1. Sorted(s) => Sorted(t)
  <2> SUFFICES ASSUME Sorted(s), NEW i \in 1..Len(t), NEW j \in 1..Len(t),
                      i < j,
                      Real(t[i]), Real(t[j])
               PROVE  Before(t[i], t[j])
      BY DEF Sorted
  <2>1. i + e \in 1..Len(s) /\ j + e \in 1..Len(s) /\ i + e < j + e
        BY <1>0, <1>a
  <2>2. t[i] = s[i + e] /\ t[j] = s[j + e]
        BY <1>a
  <2> QED
      BY <2>1, <2>2 DEF Sorted
<1>2. ASSUME NEW p \in Starts(t)
      PROVE  p + e \in Starts(s) /\ t[p] = s[p + e]
      BY <1>a DEF Starts
<1>3. ASSUME NEW p \in Starts(s), p > e, p + s[p][3] - 1 <= Len(s)
      PROVE  Kept(s, p, t, -e)
  <2>1. PICK n \in Nat : n = s[p][3] /\ p \in Nat
        BY StartType DEF Starts
  <2>2. p + (-e) >= 1 /\ p + (-e) + n - 1 <= Len(t)
        BY <1>0, <1>3, <2>1
  <2>3. ASSUME NEW q \in p..(p + n - 1)
        PROVE  t[q + (-e)] = s[q]
    <3>1. q + (-e) \in 1..Len(t) /\ (q + (-e)) + e = q
          BY <1>0, <1>3, <2>1
    <3> QED
        BY <1>a, <3>1
  <2> QED
      BY <2>1, <2>2, <2>3 DEF Kept
<1>4. ASSUME NEW p \in Torn(t)
      PROVE  p + e \in Torn(s)
  <2>1. p \in Starts(t)
        BY DEF Torn
  <2>2. PICK r \in Starts(s) : r = p + e /\ r \in Nat /\ p \in 1..Len(t)
        BY <1>2, <2>1, StartType DEF Starts
  <2> SUFFICES ASSUME r \notin Torn(s)
               PROVE  FALSE
      BY <2>2
  <2>3. Kept(s, r, t, -e)
        BY <1>0, <1>3, <2>2, NotTorn
  <2>4. r + (-e) = p /\ -e \in Int
        BY <2>2
  <2> QED
      BY <2>2, <2>3, <2>4, FramesMove
<1>5. ASSUME NEW p \in Complete(s), p > e
      PROVE  p - e \in Complete(t) /\ t[p - e] = s[p]
  <2>1. p \in Starts(s) /\ p + s[p][3] - 1 <= Len(s)
        BY CompleteMeans DEF Complete
  <2>2. -e \in Int /\ p + (-e) = p - e
        BY <2>1, StartType
  <2> QED
      BY <1>3, <1>5, <2>1, <2>2, FramesMove
<1>6. ASSUME NEW p \in Complete(t)
      PROVE  p + e \in Complete(s)
  <2>1. p \in Starts(t) /\ p + t[p][3] - 1 <= Len(t)
        BY CompleteMeans DEF Complete
  <2>2. PICK n \in Nat : n = t[p][3] /\ p \in 1..Len(t)
        BY <2>1, StartType
  <2>3. p + e >= 1 /\ p + e + n - 1 <= Len(s)
        BY <1>0, <2>1, <2>2
  <2>4. \A q \in p..(p + n - 1) : q \in 1..Len(t)
        BY <1>0, <2>1, <2>2
  <2>5. Kept(t, p, s, e)
        BY <1>a, <2>2, <2>3, <2>4 DEF Kept
  <2> QED
      BY <2>1, <2>5, FramesMove
<1> QED
    BY <1>1, <1>2, <1>4, <1>5, <1>6

(* A frame later than all others is added to s in t.                       *)
Added(s, t, f, size) == t = s \o Frame(f, size)
Newer(s, f) == \A x \in 1..Len(s) : s[x][1] < f

(* Sending a frame completes it, and tears none.                           *)
LEMMA AddedKeeps ==
  ASSUME NEW s, IsStream(s), NEW t, NEW f \in 1..MaxFrames, NEW size \in Sizes,
         Added(s, t, f, size), Newer(s, f)
  PROVE  /\ IsStream(t)
         /\ Len(t) = Len(s) + size
         /\ Sorted(s) => Sorted(t)
         /\ \A p \in Starts(t) : p \in Starts(s) \/ t[p][1] = f
         /\ \A p \in 1..Len(t) : t[p][1] <= f
         /\ \A p \in Starts(s) : t[p] = s[p]
         /\ \E p \in Complete(t) : t[p][1] = f
         /\ \A p \in Torn(t) : p \in Torn(s)
         /\ \A p \in Complete(s) : p \in Complete(t)
<1>0. PICK m \in Nat : m = Len(s) /\ size \in Nat /\ size >= 1
      BY SizeBounds DEF IsStream
<1>1. /\ IsStream(t) /\ Len(t) = m + size
      /\ \A x \in 1..m : t[x] = s[x]
      /\ \A x \in (m + 1)..(m + size) : t[x] = <<f, x - m, size>>
  <2>1. /\ Frame(f, size) \in Seq(Bytes) /\ Len(Frame(f, size)) = size
        /\ \A k \in 1..size : Frame(f, size)[k] = <<f, k, size>>
        BY FrameType
  <2>2. s \in Seq(Bytes) /\ t = s \o Frame(f, size)
        BY DEF IsStream, Added
  <2>3. /\ t \in Seq(Bytes) /\ Len(t) = m + size
        /\ \A x \in 1..m : t[x] = s[x]
        /\ \A x \in (m + 1)..(m + size) : t[x] = Frame(f, size)[x - m]
    <3>1. PICK g \in Seq(Bytes) : g = Frame(f, size) /\ Len(g) = size
          BY <2>1
    <3>2. /\ s \o g \in Seq(Bytes) /\ Len(s \o g) = m + size
          /\ \A i \in 1..(m + size) :
               (s \o g)[i] = IF i <= m THEN s[i] ELSE g[i - m]
      <4>1. /\ s \o g \in Seq(Bytes) /\ Len(s \o g) = Len(s) + Len(g)
            /\ \A i \in 1..(Len(s) + Len(g)) :
                 (s \o g)[i] = IF i <= Len(s) THEN s[i] ELSE g[i - Len(s)]
            BY <2>2, ConcatProperties
      <4> QED
          BY <1>0, <3>1, <4>1
    <3> QED
        BY <1>0, <2>2, <3>1, <3>2
  <2>4. \A x \in (m + 1)..(m + size) : x - m \in 1..size
        BY <1>0
  <2> QED
      BY <2>1, <2>3, <2>4 DEF IsStream
<1>2. \A x \in 1..Len(t) :
        \/ x \in 1..m /\ t[x] = s[x] /\ s[x][1] < f
        \/ x \in (m + 1)..(m + size) /\ t[x] = <<f, x - m, size>>
      BY <1>0, <1>1 DEF Newer
<1>3. Sorted(s) => Sorted(t)
  <2> SUFFICES ASSUME Sorted(s), NEW i \in 1..Len(t), NEW j \in 1..Len(t),
                      i < j,
                      Real(t[i]), Real(t[j])
               PROVE  Before(t[i], t[j])
      BY DEF Sorted
  <2>1. CASE i \in 1..m /\ j \in 1..m
        BY <1>0, <1>1, <2>1 DEF Sorted
  <2>2. CASE i \in 1..m /\ j \in (m + 1)..(m + size)
    <3>1. t[j] = <<f, j - m, size>> /\ t[i][1] < f
          BY <1>0, <1>1, <2>2 DEF Newer
    <3> QED
        BY <3>1 DEF Before
  <2>3. CASE i \in (m + 1)..(m + size) /\ j \in (m + 1)..(m + size)
    <3>1. t[j] = <<f, j - m, size>> /\ t[i] = <<f, i - m, size>>
          BY <1>1, <2>3
    <3>2. i - m < j - m
          BY <1>0, <2>3
    <3> QED
        BY <3>1, <3>2 DEF Before
  <2>4. j \in 1..(m + size) /\ i \in 1..(m + size)
        BY <1>1
  <2> QED
      BY <1>0, <2>1, <2>2, <2>3, <2>4
<1>4. ASSUME NEW p \in Starts(t)
      PROVE  p \in Starts(s) \/ t[p][1] = f
      BY <1>0, <1>2 DEF Starts
<1>5. \A p \in 1..Len(t) : t[p][1] <= f
  <2> SUFFICES ASSUME NEW p \in 1..Len(t)
               PROVE  t[p][1] <= f
      OBVIOUS
  <2>1. CASE p \in 1..m
    <3>1. t[p] = s[p] /\ s[p][1] < f
          BY <1>0, <1>1, <2>1 DEF Newer
    <3>2. s[p] \in Bytes
          BY <1>0, <2>1 DEF IsStream
    <3>3. s[p][1] \in 0..MaxFrames
          BY <3>2, ByteType DEF ByteOK
    <3> QED
        BY <3>1, <3>3
  <2>2. CASE p \in (m + 1)..(m + size)
        BY <1>1, <2>2
  <2> QED
      BY <1>0, <1>1, <2>1, <2>2
<1>6. ASSUME NEW p \in Starts(s), p + s[p][3] - 1 <= Len(s)
      PROVE  Kept(s, p, t, 0)
  <2>1. PICK n \in Nat : n = s[p][3] /\ p \in 1..m
        BY <1>0, StartType
  <2>2. p + 0 >= 1 /\ p + 0 + n - 1 <= Len(t)
        BY <1>0, <1>1, <1>6, <2>1
  <2>3. \A q \in p..(p + n - 1) : q + 0 = q /\ q \in 1..m
        BY <1>0, <1>6, <2>1
  <2> QED
      BY <1>1, <2>1, <2>2, <2>3 DEF Kept
<1>7. \A p \in Starts(s) : t[p] = s[p] /\ p + 0 = p /\ p \in Starts(t)
      BY <1>0, <1>1 DEF Starts
<1>8. m + 1 \in Complete(t) /\ t[m + 1][1] = f
  <2>1. m + 1 \in (m + 1)..(m + size) /\ (m + 1) - m = 1
        BY <1>0
  <2>2. t[m + 1] = <<f, 1, size>>
        BY <1>1, <2>1
  <2>3. m + 1 \in Starts(t)
        BY <1>0, <1>1, <2>2 DEF Starts
  <2>4. (m + 1) + size - 1 <= Len(t)
        BY <1>0, <1>1
  <2>5. ASSUME NEW q \in (m + 1)..((m + 1) + size - 1)
        PROVE  t[q] = <<f, q - (m + 1) + 1, size>>
    <3>1. q \in (m + 1)..(m + size) /\ q - (m + 1) + 1 = q - m
          BY <1>0
    <3> QED
        BY <1>1, <3>1
  <2>6. PICK r \in Starts(t) : r = m + 1
        BY <2>3
  <2>7. t[r][1] = f /\ t[r][3] = size
        BY <2>2, <2>6
  <2>8. \A q \in r..(r + size - 1) : t[q] = <<f, q - r + 1, size>>
        BY <2>5, <2>6
  <2>9. r \in Complete(t)
        BY <1>1, <2>4, <2>6, <2>7, <2>8, CompleteMeans
  <2> QED
      BY <2>6, <2>7, <2>9
<1>9. ASSUME NEW p \in Torn(t)
      PROVE  p \in Torn(s)
  <2>1. p \in Starts(t)
        BY DEF Torn
  <2>2. p # m + 1
        BY <1>1, <1>8, CompleteIsNotTorn
  <2>3. p \in Starts(s)
    <3>1. CASE p \in 1..m
          BY <1>0, <1>1, <2>1, <3>1 DEF Starts
    <3>2. CASE p \in (m + 1)..(m + size)
      <4>1. t[p] = <<f, p - m, size>> /\ t[p][2] = 1
            BY <1>1, <2>1, <3>2 DEF Starts
      <4>2. p - m = 1
            BY <4>1
      <4> QED
          BY <1>0, <2>2, <3>2, <4>2
    <3> QED
        BY <1>2, <2>1, <3>1, <3>2 DEF Starts
  <2> SUFFICES ASSUME p \notin Torn(s)
               PROVE  FALSE
      OBVIOUS
  <2>4. Kept(s, p, t, 0)
        BY <1>6, <2>3, NotTorn
  <2> QED
      BY <1>1, <1>7, <2>3, <2>4, FramesMove
<1>10. ASSUME NEW p \in Complete(s)
       PROVE  p \in Complete(t)
  <2>1. p \in Starts(s) /\ p + s[p][3] - 1 <= Len(s)
        BY CompleteMeans DEF Complete
  <2>2. Kept(s, p, t, 0)
        BY <1>6, <2>1
  <2> QED
      BY <1>1, <1>7, <2>1, <2>2, FramesMove
<1> QED
    BY <1>0, <1>1, <1>3, <1>4, <1>5, <1>7, <1>8, <1>9, <1>10

(* Bytes a to b of s are missing in t.                                     *)
Gap(s, t, a, b) ==
  /\ a >= 1 /\ a <= b /\ b <= Len(s)
  /\ Len(t) = Len(s) - (b - a + 1)
  /\ \A x \in 1..Len(t) : t[x] = IF x < a THEN s[x] ELSE s[x + (b - a + 1)]

(* At most one frame that was not torn before is.                          *)
TearsOne(s, t) ==
  \E f : \A p \in Torn(t) : t[p][1] = f \/ \E r \in Torn(s) : s[r][1] = t[p][1]

(* A burst lost tears at most the frame it begins in: the others it hits   *)
(* lose their first byte, and the complete ones it misses stay complete.   *)
LEMMA GapKeeps ==
  ASSUME NEW s, IsStream(s), NEW t, IsStream(t), NEW a \in Nat, NEW b \in Nat,
         Gap(s, t, a, b), Sorted(s)
  PROVE  /\ Sorted(t)
         /\ \A x \in 1..Len(t) : \E y \in 1..Len(s) : t[x] = s[y]
         /\ \A p \in Starts(t) : \E r \in Starts(s) : t[p] = s[r]
         /\ TearsOne(s, t)
         /\ \A p \in Complete(s) :
              \/ \E x \in a..b : s[x][1] = s[p][1]
              \/ \E r \in Complete(t) : t[r][1] = s[p][1]
<1>0. PICK d \in Nat :
           /\ d = b - a + 1
           /\ d >= 1
           /\ Len(s) \in Nat
           /\ Len(t) \in Nat
                     /\ Len(s) = Len(t) + d /\ b = a + d - 1
                     /\ a >= 1 /\ a <= b /\ b <= Len(s)
      BY DEF Gap, IsStream
<1>1. /\ \A x \in 1..Len(t) : x < a => x \in 1..Len(s) /\ t[x] = s[x]
      /\ \A x \in 1..Len(t) : x >= a => x + d \in 1..Len(s) /\ t[x] = s[x + d]
      BY <1>0 DEF Gap
<1>2. Sorted(t)
  <2> SUFFICES ASSUME NEW i \in 1..Len(t), NEW j \in 1..Len(t), i < j,
                      Real(t[i]), Real(t[j])
               PROVE  Before(t[i], t[j])
      BY DEF Sorted
  <2>1. CASE j < a
    <3>1. i < a
          BY <2>1
    <3>2. t[i] = s[i] /\ t[j] = s[j] /\ i \in 1..Len(s) /\ j \in 1..Len(s)
          BY <1>1, <2>1, <3>1
    <3> QED
        BY <3>2 DEF Sorted
  <2>2. CASE i < a /\ j >= a
    <3>1. /\ t[i] = s[i] /\ t[j] = s[j + d] /\ i \in 1..Len(s)
          /\ j + d \in 1..Len(s)
          BY <1>1, <2>2
    <3>2. i < j + d
          BY <1>0
    <3> QED
        BY <3>1, <3>2 DEF Sorted
  <2>3. CASE i >= a
    <3>1. j >= a
          BY <1>0, <2>3
    <3>2. /\ t[i] = s[i + d] /\ t[j] = s[j + d]
          /\ i + d \in 1..Len(s) /\ j + d \in 1..Len(s)
          BY <1>1, <2>3, <3>1
    <3>3. i + d < j + d
          BY <1>0
    <3> QED
        BY <3>2, <3>3 DEF Sorted
  <2> QED
      BY <1>0, <2>1, <2>2, <2>3
<1>3. ASSUME NEW x \in 1..Len(t)
      PROVE  \E y \in 1..Len(s) : t[x] = s[y]
      BY <1>0, <1>1
<1>4. ASSUME NEW p \in Starts(t)
      PROVE  \E r \in Starts(s) : t[p] = s[r] /\ ((r = p /\ p < a) \/ (r = p + d /\ p >= a))
  <2>1. p \in 1..Len(t) /\ t[p][2] = 1
        BY DEF Starts
  <2>2. CASE p < a
    <3>1. p \in 1..Len(s) /\ t[p] = s[p]
          BY <1>1, <2>1, <2>2
    <3> QED
        BY <2>1, <2>2, <3>1 DEF Starts
  <2>3. CASE p >= a
    <3>1. p + d \in 1..Len(s) /\ t[p] = s[p + d]
          BY <1>1, <2>1, <2>3
    <3> QED
        BY <2>1, <2>3, <3>1 DEF Starts
  <2> QED
      BY <1>0, <2>1, <2>2, <2>3
<1>5. ASSUME NEW p \in Starts(s), NEW n \in Nat, n = s[p][3],
             p > b, p + n - 1 <= Len(s)
      PROVE  Kept(s, p, t, -d)
  <2>1. p \in Nat /\ b < p
        BY <1>5, StartType DEF Starts
  <2>2. p + (-d) >= 1 /\ p + (-d) + n - 1 <= Len(t)
    <3>0. /\ b = a + d - 1 /\ a >= 1 /\ d \in Nat /\ Len(s) = Len(t) + d
          /\ Len(t) \in Nat
          BY <1>0
    <3>1. p - d >= 1
          BY <3>0, <2>1
    <3>2. p + n - 1 <= Len(t) + d
          BY <1>5, <3>0, Z3
    <3>3. p - d + n - 1 <= Len(t)
          BY <3>2, <3>0, <2>1
    <3> QED
        BY <3>0, <2>1, <3>1, <3>3
  <2>3. ASSUME NEW q \in p..(p + n - 1)
        PROVE  t[q + (-d)] = s[q]
    <3>0. /\ b = a + d - 1 /\ a >= 1 /\ d \in Nat /\ Len(t) \in Nat
          /\ q \in Nat /\ q > b /\ q <= p + n - 1 /\ p + n - 1 <= Len(t) + d
          BY <1>0, <1>5, <2>1
    <3>1. q + (-d) \in 1..Len(t)
          BY <2>1, <3>0
    <3>2. (q + (-d)) + d = q /\ q + (-d) >= a
          BY <3>0
    <3> QED
        BY <1>1, <3>1, <3>2
  <2> QED
      BY <1>5, <2>1, <2>2, <2>3 DEF Kept
<1>6. ASSUME NEW p \in Starts(s), NEW n \in Nat, n = s[p][3], p + n - 1 < a
      PROVE  Kept(s, p, t, 0)
  <2>1. p \in Nat /\ p >= 1
        BY StartType DEF Starts
  <2>2. p + 0 >= 1 /\ p + 0 + n - 1 <= Len(t)
        BY <1>0, <1>6, <2>1
  <2>3. ASSUME NEW q \in p..(p + n - 1)
        PROVE  t[q + 0] = s[q]
    <3>0. q \in Nat /\ q >= 1 /\ q <= p + n - 1 /\ p + n - 1 < a
          BY <1>6, <2>1
    <3>1. q + 0 = q /\ q < a
          BY <2>1, <3>0
    <3>2. q \in 1..Len(t)
          BY <1>0, <3>0, <3>1
    <3> QED
        BY <1>1, <3>1, <3>2
  <2> QED
      BY <1>6, <2>1, <2>2, <2>3 DEF Kept
<1> DEFINE Cut(p) == /\ p \in Starts(s) /\ p \notin Torn(s)
                     /\ p < a /\ p + s[p][3] - 1 >= a
<1>7. ASSUME NEW p \in Torn(t)
      PROVE  \/ \E r \in Torn(s) : s[r][1] = t[p][1]
             \/ Cut(p) /\ t[p] = s[p]
  <2>1. p \in Starts(t)
        BY DEF Torn
  <2>2. PICK r \in Starts(s) :
          t[p] = s[r] /\ ((r = p /\ p < a) \/ (r = p + d /\ p >= a))
        BY <1>4, <2>1
  <2>3. PICK n \in Nat : n = s[r][3] /\ r \in Nat /\ p \in Nat
        BY <2>1, <2>2, StartType DEF Starts
  <2> SUFFICES ASSUME r \notin Torn(s)
               PROVE  Cut(p) /\ t[p] = s[p]
      BY <2>2
  <2>4. r + n - 1 <= Len(s)
        BY <2>3, NotTorn
  <2>5. p < a
    <3> SUFFICES ASSUME p >= a
                 PROVE  FALSE
        BY <1>0, <2>3
    <3>1. r = p + d /\ r > b /\ r + (-d) = p /\ -d \in Int
          BY <1>0, <2>2, <2>3
    <3>2. Kept(s, r, t, -d)
          BY <1>5, <2>3, <2>4, <3>1
    <3> QED
        BY <3>1, <3>2, FramesMove
  <2>6. r = p /\ p + 0 = p
        BY <2>2, <2>3, <2>5, <1>0
  <2>7. ~(p + n - 1 < a)
    <3> SUFFICES ASSUME p + n - 1 < a
                 PROVE  FALSE
        OBVIOUS
    <3>1. Kept(s, p, t, 0)
          BY <1>6, <2>3, <2>6
    <3> QED
        BY <2>6, <3>1, FramesMove
  <2>8. p + n - 1 >= a
        BY <1>0, <2>3, <2>7
  <2> QED
      BY <2>2, <2>3, <2>5, <2>6, <2>8
<1>8. TearsOne(s, t)
  <2>1. CASE \E c : Cut(c)
    <3>1. PICK c : Cut(c)
          BY <2>1
    <3>2. \A p : Cut(p) => p = c
      <4> SUFFICES ASSUME NEW p, Cut(p), p # c
                   PROVE  FALSE
          OBVIOUS
      <4>1. PICK n \in Nat, k \in Nat : n = s[p][3] /\ k = s[c][3]
            BY <3>1, StartType
      <4>2. p \in Nat /\ c \in Nat /\ (p < c \/ c < p)
            BY <3>1 DEF Starts
      <4>3. p < c => c >= p + n
            BY <3>1, <4>1, NextStarts
      <4>4. c < p => p >= c + k
            BY <3>1, <4>1, NextStarts
      <4>5. p < a /\ p + n - 1 >= a /\ c < a /\ c + k - 1 >= a
            BY <3>1, <4>1
      <4> HIDE DEF Cut
      <4>6. ~(p < c) /\ ~(c < p)
            BY <4>1, <4>2, <4>3, <4>4, <4>5
      <4> QED
          BY <4>2, <4>6
    <3> HIDE DEF Cut
    <3> QED
        BY <1>7, <3>2 DEF TearsOne
  <2>2. CASE ~\E c : Cut(c)
    <3> HIDE DEF Cut
    <3> QED
        BY <1>7, <2>2 DEF TearsOne
  <2> QED
      BY <2>1, <2>2
<1>9. ASSUME NEW p \in Complete(s)
      PROVE  \/ \E x \in a..b : s[x][1] = s[p][1]
             \/ \E r \in Complete(t) : t[r][1] = s[p][1]
  <2>1. PICK n \in Nat : n = s[p][3] /\ p \in Starts(s) /\ p \in 1..Len(s)
        BY StartType DEF Complete
  <2>2. /\ p + n - 1 <= Len(s)
        /\ \A q \in p..(p + n - 1) : s[q][1] = s[p][1]
    <3>1. /\ p + n - 1 <= Len(s)
          /\ \A q \in p..(p + n - 1) : s[q] = <<s[p][1], q - p + 1, n>>
          BY <2>1, CompleteMeans
    <3> QED
        BY <3>1
  <2>a. p \in Nat /\ p + n - 1 \in Int /\ p + 0 = p /\ 0 \in Int
        BY <2>1
  <2>3. CASE p > b
    <3>1. Kept(s, p, t, -d) /\ -d \in Int
          BY <1>0, <1>5, <2>1, <2>2, <2>3
    <3> QED
        BY <2>1, <3>1, FramesMove
  <2>4. CASE p + n - 1 < a
    <3>1. Kept(s, p, t, 0)
          BY <1>6, <2>1, <2>4
    <3> QED
        BY <2>1, <2>a, <3>1, FramesMove
  <2>5. CASE p <= b /\ p + n - 1 >= a
    <3>1. CASE p >= a
      <4>1. p \in a..b
            BY <1>0, <2>1, <2>5, <3>1
      <4> QED
          BY <4>1
    <3>2. CASE p < a
      <4>1. a \in p..(p + n - 1) /\ a \in a..b
            BY <1>0, <2>1, <2>5, <3>2
      <4> QED
          BY <2>2, <4>1
    <3> QED
        BY <1>0, <2>1, <3>1, <3>2
  <2>6. p > b \/ p + n - 1 < a \/ (p <= b /\ p + n - 1 >= a)
        BY <1>0, <2>a
  <2> QED
      BY <2>3, <2>4, <2>5, <2>6
<1> QED
    BY <1>2, <1>3, <1>4, <1>8, <1>9

(* Byte a of s is noise in t.                                              *)
Spoilt(s, t, a) ==
  /\ a \in 1..Len(s) /\ Len(t) = Len(s) /\ t[a] = Noise
  /\ \A x \in 1..Len(s) : x # a => t[x] = s[x]

(* A byte damaged tears no frame: what it hits is merely not complete.     *)
LEMMA SpoiltKeeps ==
  ASSUME NEW s, IsStream(s), NEW t, IsStream(t), NEW a \in Nat, Spoilt(s, t, a)
  PROVE  /\ Len(t) = Len(s)
         /\ Sorted(s) => Sorted(t)
         /\ \A x \in 1..Len(s) : (x = a /\ t[x] = Noise) \/ t[x] = s[x]
         /\ \A p \in Starts(t) : p \in Starts(s) /\ t[p] = s[p]
         /\ \A p \in Torn(t) : p \in Torn(s)
         /\ \A p \in Complete(s) :
              s[a][1] = s[p][1] \/ (p \in Complete(t) /\ t[p] = s[p])
<1>1. /\ IsStream(t) /\ Len(t) = Len(s) /\ Len(s) \in Nat
      /\ \A x \in 1..Len(s) : x # a => t[x] = s[x]
      /\ a \in 1..Len(s) /\ t[a] = Noise
      BY NoiseType DEF IsStream, Spoilt
<1>2. \A x \in 1..Len(s) : Real(t[x]) => x # a /\ t[x] = s[x]
      BY <1>1, NoiseType
<1>3. Sorted(s) => Sorted(t)
      BY <1>1, <1>2 DEF Sorted
<1>4. ASSUME NEW p \in Starts(t)
      PROVE  p \in Starts(s) /\ t[p] = s[p]
      BY <1>1, NoiseType DEF Starts
<1>5. ASSUME NEW p \in Torn(t)
      PROVE  p \in Torn(s)
  <2>1. p \in Starts(s) /\ t[p] = s[p] /\ p \in Starts(t)
        BY <1>4 DEF Torn
  <2> SUFFICES ASSUME p \notin Torn(s)
               PROVE  FALSE
      OBVIOUS
  <2>2. PICK n \in Nat : n = s[p][3] /\ p \in 1..Len(s)
        BY <2>1, StartType
  <2>3. /\ p + n - 1 <= Len(s)
        /\ \A q \in p..(p + n - 1) : Real(s[q]) => s[q][1] = s[p][1]
        BY <2>1, <2>2, NotTorn
  <2>4. PICK q \in p..(p + n - 1) : Real(t[q]) /\ t[q][1] # s[p][1]
    <3>1. ~(p + n - 1 > Len(t))
          BY <1>1, <2>2, <2>3
    <3> QED
        BY <2>1, <2>2, <3>1 DEF Torn
  <2>5. q \in 1..Len(s)
        BY <1>1, <2>2, <2>3
  <2> QED
      BY <1>2, <2>3, <2>4, <2>5
<1>6. ASSUME NEW p \in Complete(s), s[a][1] # s[p][1]
      PROVE  p \in Complete(t) /\ t[p] = s[p]
  <2>1. PICK n \in Nat : n = s[p][3] /\ p \in Starts(s) /\ p \in 1..Len(s)
        BY StartType DEF Complete
  <2>2. /\ p + n - 1 <= Len(s)
        /\ \A q \in p..(p + n - 1) : s[q][1] = s[p][1]
        BY <2>1, CompleteMeans
  <2>3. \A q \in p..(p + n - 1) : q + 0 = q /\ q \in 1..Len(s) /\ q # a
        BY <1>1, <1>6, <2>1, <2>2
  <2>4. p + 0 >= 1 /\ p + 0 + n - 1 <= Len(t) /\ p + 0 = p
        BY <1>1, <2>1, <2>2
  <2>5. Kept(s, p, t, 0)
        BY <1>1, <2>1, <2>3, <2>4 DEF Kept
  <2>6. 0 \in Int /\ IsStream(t)
        BY <1>1
  <2>7. p + 0 \in Complete(t) /\ t[p + 0] = s[p]
        BY <2>1, <2>5, <2>6, FramesMove
  <2> QED
      BY <2>4, <2>7
<1> QED
    BY <1>1, <1>2, <1>3, <1>4, <1>5, <1>6

-----------------------------------------------------------------------------
(* Listener::scan.                                                         *)

(* The frames found are the complete ones.                                 *)
LEMMA FoundIsComplete ==
  ASSUME NEW s, IsStream(s)
  PROVE  /\ Found(s) = Complete(s)
         /\ \A p \in Unfinished(s) :
              p \in Starts(s) /\ p + s[p][3] - 1 > Len(s) /\ p \in Tried(s)
         /\ \A p \in Starts(s) :
              p \in Tried(s) /\ Whole(s, p, HeadSize) /\ p + s[p][3] - 1 > Len(s)
                => p \in Unfinished(s)
<1>1. Len(s) \in Nat /\ Overhead \in Nat /\ HeadSize \in Nat /\ HeadSize >= 1
      BY SizeBounds DEF IsStream
<1>2. ASSUME NEW p \in GoodHeads(s)
      PROVE  p \in Starts(s) /\ p \in Tried(s)
  <2>1. p \in Tried(s) /\ Whole(s, p, HeadSize)
        BY DEF GoodHeads
  <2>2. p \in 1..Len(s)
        BY <1>1, <2>1 DEF Tried
  <2>3. 1 \in 1..HeadSize /\ p + 1 - 1 = p
        BY <1>1, <2>2
  <2>4. s[p] = <<s[p][1], 1, s[p][3]>>
        BY <2>1, <2>3 DEF Whole
  <2> QED
      BY <2>1, <2>2, <2>4 DEF Starts
<1>3. ASSUME NEW p \in Complete(s)
      PROVE  p \in Found(s)
  <2>1. p \in Starts(s) /\ Whole(s, p, s[p][3])
        BY DEF Complete
  <2>2. PICK n \in Nat :
             /\ n = s[p][3]
             /\ n > Overhead
             /\ HeadSize < n
             /\ p \in 1..Len(s)
        BY <1>1, <2>1, StartType, SizeBounds
  <2>3. p + n - 1 <= Len(s)
        BY <2>1, <2>2 DEF Whole
  <2>4. p \in Tried(s)
        BY <1>1, <2>2, <2>3 DEF Tried
  <2>5. Whole(s, p, HeadSize)
    <3>1. p + HeadSize - 1 <= Len(s)
          BY <1>1, <2>2, <2>3
    <3>2. \A k \in 1..HeadSize : k \in 1..n
          BY <1>1, <2>2
    <3> QED
        BY <2>1, <2>2, <3>1, <3>2 DEF Whole
  <2>6. ~(Len(s) - p + 1 < n)
        BY <1>1, <2>2, <2>3
  <2> QED
      BY <2>1, <2>2, <2>4, <2>5, <2>6 DEF GoodHeads, Unfinished, Found
<1>4. ASSUME NEW p \in Found(s)
      PROVE  p \in Complete(s)
      BY <1>2 DEF Found, Complete
<1>5. ASSUME NEW p \in Unfinished(s)
      PROVE  p \in Starts(s) /\ p + s[p][3] - 1 > Len(s) /\ p \in Tried(s)
  <2>1. p \in GoodHeads(s) /\ Len(s) - p + 1 < s[p][3]
        BY DEF Unfinished
  <2>2. PICK n \in Nat : n = s[p][3] /\ p \in 1..Len(s)
        BY <1>2, <2>1, StartType
  <2>3. p + n - 1 > Len(s)
        BY <1>1, <2>1, <2>2
  <2> QED
      BY <1>2, <2>1, <2>2, <2>3
<1>6. ASSUME NEW p \in Starts(s), p \in Tried(s), Whole(s, p, HeadSize),
             p + s[p][3] - 1 > Len(s)
      PROVE  p \in Unfinished(s)
  <2>1. PICK n \in Nat : n = s[p][3] /\ p \in 1..Len(s)
        BY StartType
  <2>2. Len(s) - p + 1 < n
        BY <1>1, <1>6, <2>1
  <2> QED
      BY <1>6, <2>1, <2>2 DEF GoodHeads, Unfinished
<1> QED
    BY <1>3, <1>4, <1>5, <1>6

(* How much of the buffer goes.                                            *)
LEMMA EraseBounds ==
  ASSUME NEW s, IsStream(s)
  PROVE  /\ EraseSize(s) \in 0..Len(s)
         /\ Found(s) \subseteq 1..EraseSize(s)
         /\ Len(s) - EraseSize(s) < LargestFrame
         /\ EraseSize(s) > 0 =>
              \/ EraseSize(s) \in Discarded(s) /\ EraseSize(s) \notin Found(s)
              \/ /\ EraseSize(s) = Len(s)
                 /\ \E q \in Found(s) : \A y \in Discarded(s) : y <= q
<1> DEFINE deciding == Found(s) \cup Discarded(s)
           last == Max(deciding)
           e == EraseSize(s)
<1>1. Len(s) \in Nat /\ Overhead \in Nat
      BY SizeBounds DEF IsStream
<1>2. Tried(s) \subseteq 1..Len(s) /\ deciding \subseteq Tried(s)
  <2>1. Found(s) \subseteq Tried(s)
        BY DEF Found, GoodHeads
  <2> QED
      BY <1>1, <2>1 DEF Tried, Discarded
<1>3. deciding # {} => last \in deciding /\ \A y \in deciding : last >= y
  <2>1. IsFiniteSet(1..Len(s))
        BY <1>1, FS_Interval
  <2>2. IsFiniteSet(deciding)
        BY <1>2, <2>1, FS_Subset
  <2>3. deciding \in SUBSET Nat
        BY <1>1, <1>2
  <2> HIDE DEF deciding
  <2> QED
      BY <2>2, <2>3, MaxIsGreatest
<1>4. e = IF deciding = {} THEN 0 ELSE IF last \in Found(s) THEN Len(s) ELSE last
      BY DEF EraseSize
<1> HIDE DEF e, last
<1>5. e \in 0..Len(s)
      BY <1>1, <1>2, <1>3, <1>4
<1>6. Found(s) \subseteq 1..e
      BY <1>1, <1>2, <1>3, <1>4
<1>7. e > 0 =>
        \/ e \in Discarded(s) /\ e \notin Found(s)
        \/ e = Len(s) /\ \E q \in Found(s) : \A y \in Discarded(s) : y <= q
      BY <1>1, <1>2, <1>3, <1>4
<1>8. Len(s) - e < LargestFrame
  <2>1. LargestFrame \in Nat /\ \A n \in Sizes : n <= LargestFrame
        BY LargestBound
  <2>2. \E n \in Sizes : n > Overhead /\ n \in Nat
        BY SizesAssumption, SizeBounds DEF Sizes
  <2>3. LargestFrame > Overhead
        BY <1>1, <2>1, <2>2
  <2>4. \A p \in Unfinished(s) : p \in 1..Len(s) /\ Len(s) - p + 1 < LargestFrame
    <3> SUFFICES ASSUME NEW p \in Unfinished(s)
                 PROVE  p \in 1..Len(s) /\ Len(s) - p + 1 < LargestFrame
        OBVIOUS
    <3>1. p \in Starts(s) /\ p + s[p][3] - 1 > Len(s)
          BY FoundIsComplete
    <3>2. PICK n \in Sizes : n = s[p][3] /\ n \in Nat /\ p \in 1..Len(s)
          BY <3>1, StartType
    <3> QED
        BY <1>1, <2>1, <3>1, <3>2
  <2>5. CASE e = Len(s)
        BY <1>1, <2>1, <2>3, <2>5
  <2>6. CASE e + 1 \in Tried(s) /\ e # Len(s)
    <3>1. e + 1 \notin deciding
          BY <1>1, <1>2, <1>3, <1>4, <2>6
    <3>2. PICK u \in Unfinished(s) : u <= e + 1
      <4>1. e + 1 \in Unfinished(s) \/ \E u \in Unfinished(s) : ~(e + 1 < u)
            BY <2>6, <3>1 DEF Discarded
      <4>2. e + 1 \in Nat /\ \A u \in Unfinished(s) : u \in Nat
            BY <1>5, <2>4
      <4> QED
          BY <4>1, <4>2
    <3>3. e \notin Discarded(s) \/ u = e + 1
      <4> SUFFICES ASSUME e \in Discarded(s), u # e + 1 PROVE FALSE
          OBVIOUS
      <4>1. e < u
            BY DEF Discarded
      <4> QED
          BY <1>5, <2>4, <3>2, <4>1
    <3>4. e = 0 \/ e \in Discarded(s)
          BY <1>5, <1>7, <2>6
    <3>5. u = e + 1
          BY <1>1, <2>4, <3>2, <3>3, <3>4
    <3>6. Len(s) - u + 1 < LargestFrame
          BY <2>4
    <3> QED
        BY <1>1, <1>5, <2>1, <3>5, <3>6
  <2>7. CASE e + 1 \notin Tried(s)
    <3>1. ~(e + 1 <= Len(s) - Overhead)
          BY <1>1, <1>5, <2>7 DEF Tried
    <3> QED
        BY <1>1, <1>5, <2>1, <2>3, <3>1
  <2> QED
      BY <2>5, <2>6, <2>7
<1> QED
    BY <1>5, <1>6, <1>7, <1>8 DEF e

-----------------------------------------------------------------------------
(* The buffer s is how the stream w begins.                                *)
Begins(s, w) == Len(s) <= Len(w) /\ \A x \in 1..Len(s) : s[x] = w[x]

(* A complete frame of the stream that is erased without being found       *)
(* reaches over the end of the buffer, and a torn one is erased as well.   *)
Overlooked(s, w, p) ==
  p \in Complete(w) /\ p <= EraseSize(s) /\ p \notin Found(s)

(* The buffer and the stream agree on the frames that end in the buffer.   *)
LEMMA PartStarts ==
  ASSUME NEW s, IsStream(s), NEW w, IsStream(w), Begins(s, w)
  PROVE  /\ \A p \in Starts(s) : p \in Starts(w) /\ s[p] = w[p]
         /\ Sorted(w) => Sorted(s)
         /\ \A p \in Complete(s) : p \in Complete(w)
         /\ \A p \in Complete(w) :
              p + w[p][3] - 1 <= Len(s) => p \in Complete(s)
<1>0. Len(s) \in Nat /\ Len(w) \in Nat /\ Len(s) <= Len(w)
      BY DEF IsStream, Begins
<1>1. \A x \in 1..Len(s) : x \in 1..Len(w) /\ s[x] = w[x]
      BY <1>0 DEF Begins
<1>2. \A p \in Starts(s) : p \in Starts(w) /\ s[p] = w[p]
      BY <1>1 DEF Starts
<1>3. Sorted(w) => Sorted(s)
      BY <1>1 DEF Sorted
<1>4. ASSUME NEW p \in Complete(s)
      PROVE  p \in Complete(w)
  <2>1. p \in Starts(s) /\ p + s[p][3] - 1 <= Len(s)
        BY CompleteMeans DEF Complete
  <2>2. PICK n \in Nat : n = s[p][3] /\ p \in 1..Len(s)
        BY <2>1, StartType
  <2>3. p + 0 >= 1 /\ p + 0 + n - 1 <= Len(w) /\ p + 0 = p /\ 0 \in Int
        BY <1>0, <2>1, <2>2
  <2>4. \A q \in p..(p + n - 1) : q + 0 = q /\ q \in 1..Len(s)
        BY <1>0, <2>1, <2>2
  <2>5. Kept(s, p, w, 0)
        BY <1>1, <2>2, <2>3, <2>4 DEF Kept
  <2>6. p + 0 \in Complete(w)
        BY <2>1, <2>3, <2>5, FramesMove
  <2> QED
      BY <2>3, <2>6
<1>5. ASSUME NEW p \in Complete(w), p + w[p][3] - 1 <= Len(s)
      PROVE  p \in Complete(s)
  <2>1. p \in Starts(w)
        BY DEF Complete
  <2>2. PICK n \in Nat : n = w[p][3] /\ p \in 1..Len(w)
        BY <2>1, StartType
  <2>3. p + 0 >= 1 /\ p + 0 + n - 1 <= Len(s) /\ p + 0 = p /\ 0 \in Int
        BY <1>0, <1>5, <2>2
  <2>4. \A q \in p..(p + n - 1) : q + 0 = q /\ q \in 1..Len(s)
        BY <1>0, <2>2, <2>3
  <2>5. Kept(w, p, s, 0)
        BY <1>1, <2>2, <2>3, <2>4 DEF Kept
  <2>6. p + 0 \in Complete(s)
        BY <2>1, <2>3, <2>5, FramesMove
  <2> QED
      BY <2>3, <2>6
<1> QED
    BY <1>2, <1>3, <1>4, <1>5

(* No two complete frames are overlooked by one scan.                      *)
LEMMA OneOverlooked ==
  ASSUME NEW s, IsStream(s), NEW w, IsStream(w), Begins(s, w), Sorted(w),
         NEW p, Overlooked(s, w, p)
  PROVE  /\ \A c : Overlooked(s, w, c) => c = p
         /\ \E u \in Torn(w) : u <= EraseSize(s)
<1>0. /\ Len(s) \in Nat /\ Len(w) \in Nat /\ Len(s) <= Len(w)
      /\ Overhead \in Nat /\ HeadSize \in Nat /\ HeadSize < Overhead
      BY SizeBounds DEF IsStream, Begins
<1>1. PICK e \in Nat : e = EraseSize(s) /\ e <= Len(s)
      BY <1>0, EraseBounds
<1>2. ASSUME NEW c, Overlooked(s, w, c)
      PROVE  /\ c \in Starts(w) /\ c \notin Torn(w) /\ c \in Complete(w)
             /\ c \in 1..Len(s) /\ c <= e
             /\ c \in Starts(s) /\ s[c] = w[c] /\ c \notin Found(s)
             /\ c + w[c][3] - 1 > Len(s)
  <2>1. c \in Complete(w) /\ c <= e /\ c \notin Found(s)
        BY <1>1, <1>2 DEF Overlooked
  <2>2. c \in Starts(w) /\ c \notin Torn(w)
        BY <2>1, CompleteIsNotTorn
  <2>3. PICK n \in Nat : n = w[c][3] /\ c \in 1..Len(w)
        BY <2>2, StartType
  <2>4. c \in 1..Len(s)
        BY <1>0, <1>1, <2>1, <2>3
  <2>5. c \in Starts(s) /\ s[c] = w[c]
        BY <2>2, <2>4 DEF Starts, Begins
  <2>6. ~(c + n - 1 <= Len(s))
        BY <2>1, <2>3, PartStarts, FoundIsComplete
  <2>7. c + n - 1 > Len(s)
        BY <1>0, <2>3, <2>6
  <2> QED
      BY <2>1, <2>2, <2>3, <2>4, <2>5, <2>7
<1>3. ASSUME NEW c, Overlooked(s, w, c), c # p
      PROVE  FALSE
  <2>1. PICK n \in Nat, k \in Nat : n = w[p][3] /\ k = w[c][3]
        BY <1>2, <1>3, StartType
  <2>2. p \in Nat /\ c \in Nat /\ (p < c \/ c < p) /\ p <= Len(s) /\ c <= Len(s)
        BY <1>0, <1>2, <1>3
  <2>3. p + n - 1 > Len(s) /\ c + k - 1 > Len(s)
        BY <1>2, <1>3, <2>1
  <2>4. p < c => c >= p + n
        BY <1>2, <1>3, <2>1, NextStarts
  <2>5. c < p => p >= c + k
        BY <1>2, <1>3, <2>1, NextStarts
  <2>6. ~(p < c)
        BY <1>0, <2>1, <2>2, <2>3, <2>4
  <2>7. ~(c < p)
        BY <1>0, <2>1, <2>2, <2>3, <2>5
  <2> QED
      BY <2>2, <2>6, <2>7
<1>4. PICK n \in Nat : n = w[p][3] /\ n > Overhead /\ p + n - 1 > Len(s)
      BY <1>2, StartType
<1>5. p \in Nat /\ p >= 1 /\ p <= Len(s) /\ p <= e
      BY <1>0, <1>2
<1>6. p \in Tried(s) => p \in Unfinished(s)
  <2> SUFFICES ASSUME p \in Tried(s)
               PROVE  p \in Unfinished(s)
      OBVIOUS
  <2>1. p <= Len(s) - Overhead
        BY DEF Tried
  <2>2. HeadSize <= n /\ p + HeadSize - 1 <= Len(s)
        BY <1>0, <1>4, <1>5, <2>1
  <2>3. \A k \in 1..HeadSize : k \in 1..n /\ p + k - 1 \in 1..Len(s)
    <3> SUFFICES ASSUME NEW k \in 1..HeadSize
                 PROVE  k \in 1..n /\ p + k - 1 \in 1..Len(s)
        OBVIOUS
    <3>1. k \in Nat /\ k >= 1 /\ k <= n /\ p + k - 1 <= p + HeadSize - 1
          BY <1>0, <1>5, <2>2
    <3>2. p + k - 1 \in Nat /\ p + k - 1 >= 1 /\ p + k - 1 <= Len(s)
          BY <1>0, <1>5, <2>2, <3>1
    <3> QED
        BY <1>0, <3>1, <3>2
  <2>4. \A k \in 1..n : w[p + k - 1] = <<w[p][1], k, n>>
        BY <1>2, <1>4 DEF Complete, Whole
  <2>5. \A k \in 1..HeadSize : s[p + k - 1] = <<s[p][1], k, s[p][3]>>
        BY <1>2, <1>4, <2>3, <2>4 DEF Begins
  <2>6. Whole(s, p, HeadSize)
        BY <2>2, <2>5 DEF Whole
  <2> QED
      BY <1>2, <1>4, <2>6, FoundIsComplete
<1>7. e \notin Discarded(s)
  <2> SUFFICES ASSUME e \in Discarded(s)
               PROVE  FALSE
      OBVIOUS
  <2>1. e \in Tried(s) /\ \A q \in Unfinished(s) : e < q
        BY DEF Discarded
  <2>2. p \in Tried(s)
        BY <1>0, <1>1, <1>5, <2>1 DEF Tried
  <2>3. e < p
        BY <1>6, <2>1, <2>2
  <2> QED
      BY <1>1, <1>5, <2>3
<1>8. PICK q \in Found(s) : e = Len(s) /\ \A y \in Discarded(s) : y <= q
      BY <1>1, <1>5, <1>7, EraseBounds
<1>9. /\ q \in Complete(s) /\ q \in Complete(w) /\ q \in Starts(s)
      /\ q \in Starts(w) /\ q \notin Torn(w) /\ s[q] = w[q]
      BY PartStarts, FoundIsComplete, CompleteIsNotTorn
<1>10. PICK k \in Nat : /\ k = s[q][3] /\ k > Overhead /\ q \in 1..Len(s)
                        /\ q + k - 1 <= Len(s)
                        /\ \A x \in q..(q + k - 1) : s[x] = <<s[q][1], x - q + 1, k>>
      BY <1>9, StartType, CompleteMeans
<1>11. q < p /\ p >= q + k
  <2>1. q # p
        BY <1>2
  <2>2. ~(p < q)
    <3> SUFFICES ASSUME p < q
                 PROVE  FALSE
        OBVIOUS
    <3>1. q >= p + n
          BY <1>2, <1>4, <1>9, NextStarts
    <3> QED
        BY <1>0, <1>4, <1>5, <1>10, <3>1
  <2>3. q < p
        BY <1>5, <1>10, <2>1, <2>2
  <2>4. p >= q + w[q][3]
        BY <1>2, <1>9, <2>3, NextStarts
  <2> QED
      BY <1>9, <1>10, <2>3, <2>4
<1>12. q \in Nat /\ q + 1 \in q..(q + k - 1) /\ (q + 1) - q + 1 = 2
  <2>1. q \in Nat /\ k \in Nat /\ k >= 2
    <3>1. k > Overhead /\ Overhead >= 1
          BY <1>0, <1>10
    <3> QED
        BY <1>0, <1>10, <3>1
  <2>2. q + 1 <= q + k - 1
        BY <2>1
  <2> QED
      BY <2>1, <2>2
<1>13. q + 1 \notin Starts(s)
  <2>1. s[q + 1] = <<s[q][1], 2, k>>
        BY <1>10, <1>12
  <2> QED
      BY <2>1 DEF Starts
<1>14. q + 1 \in Tried(s)
       BY <1>0, <1>5, <1>10, <1>11 DEF Tried
<1>15. PICK u \in Unfinished(s) : ~(q + 1 < u)
  <2>1. q + 1 \notin Found(s) /\ q + 1 \notin Unfinished(s)
        BY <1>13, FoundIsComplete DEF Complete
  <2>2. ~(q + 1 <= q)
        BY <1>12
  <2>3. q + 1 \notin Discarded(s)
        BY <1>8, <2>2
  <2> QED
      BY <1>14, <2>1, <2>3 DEF Discarded
<1>16. u \in Starts(s) /\ u + s[u][3] - 1 > Len(s)
       BY FoundIsComplete
<1>17. PICK m \in Nat : m = s[u][3] /\ u \in 1..Len(s) /\ u + m - 1 > Len(s)
       BY <1>16, StartType
<1>18. u < q
  <2>1. u # q + 1
        BY <1>13, <1>16
  <2>2. u # q
    <3> SUFFICES ASSUME u = q
                 PROVE  FALSE
        OBVIOUS
    <3>1. m = k
          BY <1>10, <1>17
    <3> QED
        BY <1>0, <1>10, <1>17, <3>1
  <2>3. u \in Nat /\ u <= q + 1
        BY <1>12, <1>15, <1>17
  <2> QED
      BY <1>12, <2>1, <2>2, <2>3
<1>19. u \in Torn(w)
  <2> SUFFICES ASSUME u \notin Torn(w)
               PROVE  FALSE
      OBVIOUS
  <2>1. u \in Starts(w) /\ s[u] = w[u]
        BY <1>16, PartStarts
  <2>2. q >= u + m
        BY <1>9, <1>17, <1>18, <2>1, NextStarts
  <2> QED
      BY <1>0, <1>10, <1>17, <2>2
<1>20. u <= e
       BY <1>0, <1>8, <1>17
<1> QED
    BY <1>1, <1>3, <1>19, <1>20

-----------------------------------------------------------------------------
(* A function on 1..n is a sequence.                                       *)
LEMMA ListIsSeq ==
  ASSUME NEW S, NEW n \in Nat, NEW f \in [1..n -> S]
  PROVE  f \in Seq(S) /\ Len(f) = n
<1>1. f \in Seq(S)
      BY SeqDef
<1>2. Len(f) = n
      BY <1>1
<1> QED
    BY <1>1, <1>2

(* The callbacks are those of the frames found, in the order of the        *)
(* stream, each of them once.                                              *)
LEMMA CallbacksInOrder ==
  ASSUME NEW s, IsStream(s), Sorted(s)
  PROVE  /\ Callbacks(s) \in Seq(1..MaxFrames)
         /\ Climbing(Callbacks(s), Len(Callbacks(s)))
         /\ \A i \in 1..Len(Callbacks(s)) :
              \E p \in Found(s) : Callbacks(s)[i] = s[p][1]
         /\ \A p \in Found(s) :
              \E i \in 1..Len(Callbacks(s)) : Callbacks(s)[i] = s[p][1]
<1> DEFINE F == Found(s)
           found == CHOOSE x \in [1..Cardinality(F) -> F] :
                      \A i, j \in 1..Cardinality(F) : i < j => x[i] < x[j]
<1>1. F \in SUBSET (1..Len(s)) /\ Len(s) \in Nat
      BY FoundIsComplete DEF Complete, Starts, IsStream
<1>1a. \A p \in F : p \in Nat
      BY <1>1
<1>2. IsFiniteSet(F) /\ \E x \in [1..Cardinality(F) -> F] : Climbing(x, Cardinality(F))
      BY <1>1, SortedExists
<1>3. PICK n \in Nat : n = Cardinality(F)
      BY <1>2, FS_CardinalityType
<1>4. /\ found \in [1..n -> F]
      /\ \A i, j \in 1..n : i < j => found[i] < found[j]
  <2> HIDE DEF F
  <2>1. \E x \in [1..n -> F] : \A i, j \in 1..n : i < j => x[i] < x[j]
        BY <1>2, <1>3 DEF Climbing
  <2> QED
      BY <1>3, <2>1
<1>5. Callbacks(s) = [i \in 1..n |-> s[found[i]][1]]
      BY <1>3 DEF Callbacks
<1> HIDE DEF found
<1>6. \A p \in F : p \in Starts(s) /\ s[p][1] \in 1..MaxFrames
  <2>1. F \subseteq Starts(s)
        BY FoundIsComplete DEF Complete
  <2> HIDE DEF F
  <2> QED
      BY <2>1, StartType
<1>7. Callbacks(s) \in Seq(1..MaxFrames) /\ Len(Callbacks(s)) = n
  <2> HIDE DEF F
  <2>1. ASSUME NEW i \in 1..n
        PROVE  s[found[i]][1] \in 1..MaxFrames
    <3>1. found[i] \in F
          BY <1>4
    <3> QED
        BY <1>6, <3>1
  <2>2. Callbacks(s) \in [1..n -> 1..MaxFrames]
        BY <1>5, <2>1
  <2> QED
      BY <2>2, ListIsSeq
<1>8. Climbing(Callbacks(s), n)
  <2> SUFFICES ASSUME NEW i \in 1..n, NEW j \in 1..n, i < j
               PROVE  s[found[i]][1] < s[found[j]][1]
      BY <1>5 DEF Climbing
  <2> HIDE DEF F
  <2>1. found[i] \in F /\ found[j] \in F /\ found[i] < found[j]
        BY <1>4
  <2> QED
      BY <1>6, <2>1, StartsDiffer
<1>9. \A p \in F : \E i \in 1..n : found[i] = p
  <2> HIDE DEF F
  <2>1. \A i, j \in 1..n : i # j => found[i] # found[j]
    <3> SUFFICES ASSUME NEW i \in 1..n, NEW j \in 1..n, i # j,
                        found[i] = found[j]
                 PROVE  FALSE
        OBVIOUS
    <3>1. i < j \/ j < i
          OBVIOUS
    <3>2. found[i] \in F /\ found[j] \in F
          BY <1>4
    <3>3. found[i] \in Nat /\ found[j] \in Nat
          BY <1>1a, <3>2
    <3> QED
        BY <1>4, <3>1, <3>3
  <2>2. found \in Injection(1..n, F)
        BY <1>4, <2>1 DEF Injection, IsInjective
  <2>3. Cardinality(1..n) = n
        BY <1>3, FS_Interval
  <2>4. found \in Surjection(1..n, F)
        BY <1>2, <1>3, <2>2, <2>3, FS_Injection
  <2> QED
      BY <2>4 DEF Surjection
<1> QED
    BY <1>4, <1>5, <1>7, <1>8, <1>9

-----------------------------------------------------------------------------
(* What is on its way to the callbacks, and what was lost of it.           *)
stream == rxBuffer \o line

(* The frames that start at the positions P.                               *)
FramesAt(s, P) == {s[p][1] : p \in P}

(* Of n frames sent, those not hit (h) that were not delivered (dl) and are*)
(* not complete in the stream w: they never will be.                       *)
NotDelivered(w, dl, h, n) ==
  {f \in 1..n : /\ f \notin h
                /\ \A i \in DOMAIN dl : dl[i] # f
                /\ f \notin FramesAt(w, Complete(w))}

Lost       == NotDelivered(stream, delivered, hurt, sent)
TornFrames == FramesAt(stream, Torn(stream))

(* These sets have a size.                                                 *)
LEMMA SetsAreFinite ==
  ASSUME NEW w, IsStream(w), NEW dl, NEW h, NEW n \in Nat
  PROVE  /\ IsFiniteSet(FramesAt(w, Torn(w)))
         /\ IsFiniteSet(NotDelivered(w, dl, h, n))
         /\ Cardinality(FramesAt(w, Torn(w))) \in Nat
         /\ Cardinality(NotDelivered(w, dl, h, n)) \in Nat
<1>1. IsFiniteSet(1..n) /\ IsFiniteSet(1..MaxFrames)
      BY LinkBoundsAssumption, FS_Interval
<1>2. FramesAt(w, Torn(w)) \subseteq 1..MaxFrames
  <2>1. Torn(w) \subseteq Starts(w)
        BY DEF Torn
  <2> QED
      BY <2>1, StartType DEF FramesAt
<1>3. NotDelivered(w, dl, h, n) \subseteq 1..n
      BY DEF NotDelivered
<1> QED
    BY <1>1, <1>2, <1>3, FS_Subset, FS_CardinalityType

(* How sizes compare when one element comes or goes.                       *)
LEMMA OneMore ==
  ASSUME NEW S, NEW T, NEW x, IsFiniteSet(T), S \subseteq T \cup {x}
  PROVE  /\ Cardinality(S) \in Nat /\ Cardinality(T) \in Nat
         /\ Cardinality(S) <= Cardinality(T) + 1
         /\ x \in T => Cardinality(S) <= Cardinality(T)
         /\ S \subseteq T => Cardinality(S) <= Cardinality(T)
         /\ x \in T /\ x \notin S => Cardinality(S) <= Cardinality(T) - 1
<1>1. /\ IsFiniteSet(T \cup {x}) /\ Cardinality(T) \in Nat
      /\ Cardinality(T \cup {x}) = IF x \in T THEN Cardinality(T) ELSE Cardinality(T) + 1
      BY FS_AddElement, FS_CardinalityType
<1>2. /\ IsFiniteSet(S) /\ Cardinality(S) \in Nat
      /\ Cardinality(S) <= Cardinality(T \cup {x})
      BY <1>1, FS_Subset, FS_CardinalityType
<1>3. S \subseteq T => Cardinality(S) <= Cardinality(T)
      BY FS_Subset
<1>4. x \in T /\ x \notin S => Cardinality(S) <= Cardinality(T) - 1
  <2> SUFFICES ASSUME x \in T, x \notin S
               PROVE  Cardinality(S) <= Cardinality(T) - 1
      OBVIOUS
  <2>1. IsFiniteSet(T \ {x}) /\ Cardinality(T \ {x}) = Cardinality(T) - 1
        BY FS_RemoveElement
  <2>2. S \subseteq T \ {x}
        OBVIOUS
  <2> QED
      BY <2>1, <2>2, FS_Subset
<1> QED
    BY <1>1, <1>2, <1>3, <1>4

-----------------------------------------------------------------------------
(* What holds of the bytes w on their way, the frames dl delivered, the    *)
(* frames h hit, the number n of frames sent and the number k of faults.   *)
Below(w, n) == \A x \in 1..Len(w) : w[x][1] <= n
Fresh(w, dl, n) ==
  \A i \in 1..Len(dl) : dl[i] <= n /\ \A p \in Starts(w) : dl[i] < w[p][1]
Cost(w, dl, h, n, k) ==
  Cardinality(NotDelivered(w, dl, h, n)) + Cardinality(FramesAt(w, Torn(w))) <= k

StreamInv(w, dl, h, n, k) ==
  /\ IsStream(w) /\ Sorted(w) /\ Below(w, n)
  /\ Fresh(w, dl, n) /\ Climbing(dl, Len(dl))
  /\ Cost(w, dl, h, n, k)

(* Cost from how the two sets grow and shrink.                             *)
LEMMA CostFromSubsets ==
  ASSUME NEW w, IsStream(w), NEW t, IsStream(t), NEW dl, NEW dl2, NEW h,
         NEW h2,
         NEW n \in Nat, NEW n2 \in Nat, NEW k \in Nat, Cost(w, dl, h, n, k),
         NotDelivered(t, dl2, h2, n2) \subseteq NotDelivered(w, dl, h, n)
  PROVE  /\ FramesAt(t, Torn(t)) \subseteq FramesAt(w, Torn(w))
              => Cost(t, dl2, h2, n2, k)
         /\ \A f : FramesAt(t, Torn(t)) \subseteq FramesAt(w, Torn(w)) \cup {f}
              => Cost(t, dl2, h2, n2, k + 1)
<1>1. PICK l \in Nat, l2 \in Nat : /\ l = Cardinality(NotDelivered(w, dl, h, n))
                                   /\ l2 = Cardinality(NotDelivered(t, dl2, h2, n2))
      BY SetsAreFinite
<1>2. PICK c \in Nat, c2 \in Nat : /\ c = Cardinality(FramesAt(w, Torn(w)))
                                   /\ c2 = Cardinality(FramesAt(t, Torn(t)))
      BY SetsAreFinite
<1>3. l2 <= l
      BY <1>1, SetsAreFinite, FS_Subset
<1>4. FramesAt(t, Torn(t)) \subseteq FramesAt(w, Torn(w)) => c2 <= c
      BY <1>2, SetsAreFinite, FS_Subset
<1>5. \A f : FramesAt(t, Torn(t)) \subseteq FramesAt(w, Torn(w)) \cup {f} => c2 <= c + 1
      BY <1>2, SetsAreFinite, OneMore
<1>6. l + c <= k
      BY <1>1, <1>2 DEF Cost
<1>7. c2 <= c => l2 + c2 <= k
      BY <1>3, <1>6
<1>8. c2 <= c + 1 => l2 + c2 <= k + 1
      BY <1>3, <1>6
<1> QED
    BY <1>1, <1>2, <1>4, <1>5, <1>7, <1>8 DEF Cost

(* The bytes up to e go, and the frames they are of are counted as hit.    *)
LEMMA SkipKeeps ==
  ASSUME NEW w, NEW t, NEW dl, NEW h, NEW h2, NEW n \in Nat, NEW k \in Nat,
         NEW e \in Nat, StreamInv(w, dl, h, n, k), IsStream(t), Rest(w, t, e),
         h \subseteq h2, \A x \in 1..e : w[x][1] \in h2
  PROVE  StreamInv(t, dl, h2, n, k)
<1>1. IsStream(w) /\ Sorted(w) /\ Below(w, n) /\ Fresh(w, dl, n)
      BY DEF StreamInv
<1>2. Sorted(t)
      BY <1>1, RestKeeps
<1>3. Below(t, n)
  <2>1. Len(t) \in Nat /\ Len(w) \in Nat
        BY <1>1 DEF IsStream
  <2>2. \A x \in 1..Len(t) : x + e \in 1..Len(w) /\ t[x] = w[x + e]
        BY <2>1 DEF Rest
  <2> QED
      BY <1>1, <2>2 DEF Below
<1>4. Fresh(t, dl, n)
  <2>1. \A p \in Starts(t) : p + e \in Starts(w) /\ t[p] = w[p + e]
        BY <1>1, RestKeeps
  <2> QED
      BY <1>1, <2>1 DEF Fresh
<1>5. FramesAt(t, Torn(t)) \subseteq FramesAt(w, Torn(w))
  <2>1. \A p \in Torn(t) : p + e \in Torn(w) /\ t[p] = w[p + e]
    <3>1. Torn(t) \subseteq Starts(t)
          BY DEF Torn
    <3> QED
        BY <1>1, <3>1, RestKeeps
  <2> QED
      BY <2>1 DEF FramesAt
<1>6. NotDelivered(t, dl, h2, n) \subseteq NotDelivered(w, dl, h, n)
  <2> SUFFICES ASSUME NEW f \in NotDelivered(t, dl, h2, n)
               PROVE  f \notin FramesAt(w, Complete(w))
      BY DEF NotDelivered
  <2> SUFFICES ASSUME NEW p \in Complete(w), f = w[p][1]
               PROVE  FALSE
      BY DEF FramesAt
  <2>1. f \notin h2 /\ f \notin FramesAt(t, Complete(t))
        BY DEF NotDelivered
  <2>2. p \in Nat /\ p >= 1
        BY DEF Complete, Starts
  <2>3. p > e
    <3>1. ~(p \in 1..e)
          BY <2>1
    <3> QED
        BY <2>2, <3>1
  <2>4. p - e \in Complete(t) /\ t[p - e] = w[p]
        BY <1>1, <2>3, RestKeeps
  <2> QED
      BY <2>1, <2>4 DEF FramesAt
<1>7. Cost(t, dl, h2, n, k)
      BY <1>1, <1>5, <1>6, CostFromSubsets DEF StreamInv
<1> QED
    BY <1>2, <1>3, <1>4, <1>7 DEF StreamInv

(* A frame is sent.                                                        *)
LEMMA SendKeeps ==
  ASSUME NEW w, NEW t, NEW dl, NEW h, NEW n \in Nat, NEW k \in Nat,
         NEW size \in Sizes, StreamInv(w, dl, h, n, k),
         Added(w, t, n + 1, size), n < MaxFrames, NEW m \in Nat, dl \in Seq(1..m)
  PROVE  StreamInv(t, dl, h, n + 1, k)
<1>1. IsStream(w) /\ Sorted(w) /\ Below(w, n) /\ Fresh(w, dl, n)
      BY DEF StreamInv
<1>2. PICK m1 \in 1..MaxFrames : m1 = n + 1 /\ m1 \in Nat
      BY LinkBoundsAssumption
<1>3. Newer(w, n + 1)
  <2> SUFFICES ASSUME NEW x \in 1..Len(w)
               PROVE  w[x][1] < n + 1
      BY DEF Newer
  <2>1. w[x] \in Bytes
        BY <1>1 DEF IsStream
  <2>2. w[x][1] <= n /\ w[x][1] \in 0..MaxFrames
        BY <1>1, <2>1, ByteType DEF Below, ByteOK
  <2> QED
      BY <2>2
<1>4. /\ IsStream(t) /\ Sorted(t) /\ Below(t, n + 1)
      /\ \A p \in Starts(t) : p \in Starts(w) \/ t[p][1] = n + 1
      /\ \A p \in Starts(w) : t[p] = w[p]
      /\ \E p \in Complete(t) : t[p][1] = n + 1
      /\ \A p \in Torn(t) : p \in Torn(w)
      /\ \A p \in Complete(w) : p \in Complete(t)
  <2>1. Added(w, t, m1, size) /\ Newer(w, m1)
        BY <1>2, <1>3
  <2>2. /\ IsStream(t) /\ Sorted(t)
        /\ \A p \in Starts(t) : p \in Starts(w) \/ t[p][1] = m1
        /\ \A p \in 1..Len(t) : t[p][1] <= m1
        /\ \A p \in Starts(w) : t[p] = w[p]
        /\ \E p \in Complete(t) : t[p][1] = m1
        /\ \A p \in Torn(t) : p \in Torn(w)
        /\ \A p \in Complete(w) : p \in Complete(t)
        BY <1>1, <2>1, AddedKeeps
  <2> QED
      BY <1>2, <2>2 DEF Below
<1>5. Fresh(t, dl, n + 1)
  <2> SUFFICES ASSUME NEW i \in 1..Len(dl)
               PROVE  dl[i] <= n + 1 /\ \A p \in Starts(t) : dl[i] < t[p][1]
      BY DEF Fresh
  <2>1. dl[i] <= n /\ dl[i] \in 1..m /\ \A p \in Starts(w) : dl[i] < w[p][1]
        BY <1>1, ElementOfSeq DEF Fresh
  <2>2. dl[i] <= n + 1 /\ dl[i] < n + 1
        BY <2>1
  <2> QED
      BY <1>4, <2>1, <2>2
<1>6. FramesAt(t, Torn(t)) \subseteq FramesAt(w, Torn(w))
  <2>1. Torn(w) \subseteq Starts(w)
        BY DEF Torn
  <2> QED
      BY <1>4, <2>1 DEF FramesAt
<1>7. NotDelivered(t, dl, h, n + 1) \subseteq NotDelivered(w, dl, h, n)
  <2> SUFFICES ASSUME NEW f \in NotDelivered(t, dl, h, n + 1)
               PROVE  f \in NotDelivered(w, dl, h, n)
      OBVIOUS
  <2>1. /\ f \in 1..(n + 1) /\ f \notin h /\ \A i \in DOMAIN dl : dl[i] # f
        /\ f \notin FramesAt(t, Complete(t))
        BY DEF NotDelivered
  <2>2. f # n + 1
        BY <1>4, <2>1 DEF FramesAt
  <2>3. f \in 1..n
        BY <2>1, <2>2
  <2>4. f \notin FramesAt(w, Complete(w))
    <3> SUFFICES ASSUME NEW p \in Complete(w), f = w[p][1]
                 PROVE  FALSE
        BY DEF FramesAt
    <3>1. p \in Complete(t) /\ t[p] = w[p]
          BY <1>4 DEF Complete
    <3> QED
        BY <2>1, <3>1 DEF FramesAt
  <2> QED
      BY <2>1, <2>3, <2>4 DEF NotDelivered
<1>8. Cost(t, dl, h, n + 1, k)
  <2>1. Cost(w, dl, h, n, k) /\ n + 1 \in Nat
        BY DEF StreamInv
  <2> QED
      BY <1>1, <1>4, <1>6, <1>7, <2>1, CostFromSubsets
<1> QED
    BY <1>4, <1>5, <1>8 DEF StreamInv

-----------------------------------------------------------------------------
(* The bytes a to b are lost.                                              *)
LEMMA LoseKeeps ==
  ASSUME NEW w, NEW t, NEW dl, NEW h, NEW h2, NEW n \in Nat, NEW k \in Nat,
         NEW a \in Nat, NEW b \in Nat, StreamInv(w, dl, h, n, k), IsStream(t),
         Gap(w, t, a, b), h \subseteq h2, \A x \in a..b : w[x][1] \in h2
  PROVE  StreamInv(t, dl, h2, n, k + 1)
<1>1. /\ IsStream(w) /\ Sorted(w) /\ Below(w, n) /\ Fresh(w, dl, n)
      /\ Cost(w, dl, h, n, k)
      BY DEF StreamInv
<1>2. /\ Sorted(t)
      /\ \A x \in 1..Len(t) : \E y \in 1..Len(w) : t[x] = w[y]
      /\ \A p \in Starts(t) : \E r \in Starts(w) : t[p] = w[r]
      /\ \A p \in Complete(w) :
           \/ \E x \in a..b : w[x][1] = w[p][1]
           \/ \E r \in Complete(t) : t[r][1] = w[p][1]
  <2>1. Sorted(t)
        BY <1>1, GapKeeps
  <2>2. \A x \in 1..Len(t) : \E y \in 1..Len(w) : t[x] = w[y]
        BY <1>1, GapKeeps
  <2>3. \A p \in Starts(t) : \E r \in Starts(w) : t[p] = w[r]
        BY <1>1, GapKeeps
  <2>4. \A p \in Complete(w) :
           \/ \E x \in a..b : w[x][1] = w[p][1]
           \/ \E r \in Complete(t) : t[r][1] = w[p][1]
        BY <1>1, GapKeeps
  <2> QED
      BY <2>1, <2>2, <2>3, <2>4
<1>3. Below(t, n) /\ Fresh(t, dl, n)
      BY <1>1, <1>2 DEF Below, Fresh
<1>4. \E f : FramesAt(t, Torn(t)) \subseteq FramesAt(w, Torn(w)) \cup {f}
  <2>1. TearsOne(w, t)
        BY <1>1, GapKeeps
  <2>2. PICK f : \A p \in Torn(t) :
          t[p][1] = f \/ \E r \in Torn(w) : w[r][1] = t[p][1]
        BY <2>1 DEF TearsOne
  <2> QED
      BY <2>2 DEF FramesAt
<1>5. NotDelivered(t, dl, h2, n) \subseteq NotDelivered(w, dl, h, n)
  <2> SUFFICES ASSUME NEW f \in NotDelivered(t, dl, h2, n)
               PROVE  f \notin FramesAt(w, Complete(w))
      BY DEF NotDelivered
  <2> SUFFICES ASSUME NEW p \in Complete(w), f = w[p][1]
               PROVE  FALSE
      BY DEF FramesAt
  <2>1. f \notin h2 /\ f \notin FramesAt(t, Complete(t))
        BY DEF NotDelivered
  <2> QED
      BY <1>2, <2>1 DEF FramesAt
<1>6. Cost(t, dl, h2, n, k + 1)
      BY <1>1, <1>4, <1>5, CostFromSubsets
<1> QED
    BY <1>2, <1>3, <1>6 DEF StreamInv

(* Byte a is damaged.                                                      *)
LEMMA DamageKeeps ==
  ASSUME NEW w, NEW t, NEW dl, NEW h, NEW h2, NEW n \in Nat, NEW k \in Nat,
         NEW a \in Nat, StreamInv(w, dl, h, n, k), IsStream(t),
         Spoilt(w, t, a), h \subseteq h2, w[a][1] \in h2
  PROVE  StreamInv(t, dl, h2, n, k + 1)
<1>1. /\ IsStream(w) /\ Sorted(w) /\ Below(w, n) /\ Fresh(w, dl, n)
      /\ Cost(w, dl, h, n, k)
      BY DEF StreamInv
<1>2. /\ Sorted(t) /\ Len(t) = Len(w)
      /\ \A x \in 1..Len(w) : (x = a /\ t[x] = Noise) \/ t[x] = w[x]
      /\ \A p \in Starts(t) : p \in Starts(w) /\ t[p] = w[p]
      /\ \A p \in Torn(t) : p \in Torn(w)
      /\ \A p \in Complete(w) :
           w[a][1] = w[p][1] \/ (p \in Complete(t) /\ t[p] = w[p])
      BY <1>1, SpoiltKeeps
<1>3. Below(t, n)
  <2>1. Noise[1] <= n
        BY DEF Noise
  <2> QED
      BY <1>1, <1>2, <2>1 DEF Below
<1>4. Fresh(t, dl, n)
      BY <1>1, <1>2 DEF Fresh
<1>5. FramesAt(t, Torn(t)) \subseteq FramesAt(w, Torn(w)) \cup {0}
  <2>1. Torn(t) \subseteq Starts(t)
        BY DEF Torn
  <2> QED
      BY <1>2, <2>1 DEF FramesAt
<1>6. NotDelivered(t, dl, h2, n) \subseteq NotDelivered(w, dl, h, n)
  <2> SUFFICES ASSUME NEW f \in NotDelivered(t, dl, h2, n)
               PROVE  f \notin FramesAt(w, Complete(w))
      BY DEF NotDelivered
  <2> SUFFICES ASSUME NEW p \in Complete(w), f = w[p][1]
               PROVE  FALSE
      BY DEF FramesAt
  <2>1. f \notin h2 /\ f \notin FramesAt(t, Complete(t))
        BY DEF NotDelivered
  <2> QED
      BY <1>2, <2>1 DEF FramesAt
<1>7. Cost(t, dl, h2, n, k + 1)
      BY <1>1, <1>2, <1>5, <1>6, CostFromSubsets
<1> QED
    BY <1>2, <1>3, <1>4, <1>7 DEF StreamInv

-----------------------------------------------------------------------------
(* The callbacks of all frames found were called.                          *)
AllCalled(s, w, dl) == \A p \in Found(s) : \E j \in DOMAIN dl : dl[j] = w[p][1]

(* The buffer s is scanned, and t is what stays of the bytes w.            *)
LEMMA ScanOrder ==
  ASSUME NEW w, NEW t, NEW s, NEW n \in Nat, NEW dl \in Seq(1..MaxFrames),
         NEW dl2,
         IsStream(w), Sorted(w), Below(w, n), Fresh(w, dl, n), Climbing(dl, Len(dl)),
         IsStream(t), IsStream(s), Begins(s, w), Rest(w, t, EraseSize(s)),
         dl2 = dl \o Callbacks(s)
  PROVE  /\ dl2 \in Seq(1..MaxFrames)
         /\ Below(t, n) /\ Fresh(t, dl2, n) /\ Climbing(dl2, Len(dl2))
         /\ \A i \in DOMAIN dl : \E j \in DOMAIN dl2 : dl2[j] = dl[i]
         /\ AllCalled(s, w, dl2)
<1>1. PICK e \in Nat : e = EraseSize(s) /\ Found(s) \subseteq 1..e
  <2>1. EraseSize(s) \in 0..Len(s) /\ Len(s) \in Nat
        BY EraseBounds DEF IsStream
  <2>2. EraseSize(s) \in Nat
        BY <2>1
  <2> QED
      BY <2>2, EraseBounds
<1>2. PICK cb \in Seq(1..MaxFrames) :
        /\ cb = Callbacks(s) /\ Climbing(cb, Len(cb))
        /\ \A i \in 1..Len(cb) : \E p \in Found(s) : cb[i] = w[p][1]
        /\ \A p \in Found(s) : \E i \in 1..Len(cb) : cb[i] = w[p][1]
  <2>1. Sorted(s) /\ \A p \in Found(s) : s[p] = w[p]
        BY PartStarts, FoundIsComplete DEF Complete
  <2>2. PICK cb \in Seq(1..MaxFrames) : cb = Callbacks(s)
        BY <2>1, CallbacksInOrder
  <2>3. /\ Climbing(cb, Len(cb))
        /\ \A i \in 1..Len(cb) : \E p \in Found(s) : cb[i] = s[p][1]
        /\ \A p \in Found(s) : \E i \in 1..Len(cb) : cb[i] = s[p][1]
        BY <2>1, <2>2, CallbacksInOrder, Zenon
  <2>4. ASSUME NEW i \in 1..Len(cb)
        PROVE  \E p \in Found(s) : cb[i] = w[p][1]
    <3>1. PICK p \in Found(s) : cb[i] = s[p][1]
          BY <2>3
    <3> QED
        BY <2>1, <3>1
  <2>5. ASSUME NEW p \in Found(s)
        PROVE  \E i \in 1..Len(cb) : cb[i] = w[p][1]
    <3>1. PICK i \in 1..Len(cb) : cb[i] = s[p][1]
          BY <2>3
    <3> QED
        BY <2>1, <3>1
  <2> QED
      BY <2>2, <2>3, <2>4, <2>5
<1>3. PICK l \in Nat, c \in Nat : l = Len(dl) /\ c = Len(cb)
      OBVIOUS
<1>4. /\ dl2 \in Seq(1..MaxFrames) /\ Len(dl2) = l + c
      /\ \A i \in 1..(l + c) : dl2[i] = IF i <= l THEN dl[i] ELSE cb[i - l]
      BY <1>2, <1>3, ConcatProperties
<1>5. \A i \in 1..l : dl2[i] = dl[i] /\ i \in 1..(l + c)
      BY <1>3, <1>4
<1>6. \A i \in 1..c : dl2[i + l] = cb[i] /\ i + l \in 1..(l + c)
  <2> SUFFICES ASSUME NEW i \in 1..c
               PROVE  dl2[i + l] = cb[i] /\ i + l \in 1..(l + c)
      OBVIOUS
  <2>1. i + l \in 1..(l + c) /\ ~(i + l <= l) /\ (i + l) - l = i
        OBVIOUS
  <2> QED
      BY <1>4, <2>1
<1>7. \A i \in 1..(l + c) : i \in 1..l \/ (i - l \in 1..c /\ (i - l) + l = i)
      OBVIOUS
<1>8. \A p \in Starts(t) : p + e \in Starts(w) /\ t[p] = w[p + e] /\ p \in Nat /\ p >= 1
      BY <1>1, RestKeeps DEF Starts
<1>9. \A q \in Found(s) : q \in Starts(w) /\ q \in Nat /\ q <= e
  <2>1. \A q \in Found(s) : q \in Starts(w)
        BY PartStarts, FoundIsComplete DEF Complete
  <2>2. \A q \in Found(s) : q \in 1..e
        BY <1>1
  <2> QED
      BY <1>1, <2>1, <2>2
<1>10. Below(t, n)
  <2>1. Len(t) \in Nat /\ Len(w) \in Nat
        BY DEF IsStream
  <2>2. \A x \in 1..Len(t) : x + e \in 1..Len(w) /\ t[x] = w[x + e]
        BY <1>1, <2>1 DEF Rest
  <2> QED
      BY <2>2 DEF Below
<1>11. Fresh(t, dl2, n)
  <2> SUFFICES ASSUME NEW i \in 1..(l + c)
               PROVE  dl2[i] <= n /\ \A p \in Starts(t) : dl2[i] < t[p][1]
      BY <1>4 DEF Fresh
  <2>1. CASE i \in 1..l
        BY <1>3, <1>5, <1>8, <2>1 DEF Fresh
  <2>2. CASE i - l \in 1..c /\ (i - l) + l = i
    <3>0. dl2[i] = cb[i - l]
          BY <1>6, <2>2
    <3>1. PICK q \in Found(s) : dl2[i] = w[q][1]
          BY <1>2, <1>3, <2>2, <3>0
    <3>2. q \in Starts(w) /\ q \in 1..Len(w)
          BY <1>9 DEF Starts
    <3>3. w[q][1] <= n
          BY <3>2 DEF Below
    <3>4. ASSUME NEW p \in Starts(t)
          PROVE  w[q][1] < t[p][1]
      <4>1. p + e \in Starts(w) /\ t[p] = w[p + e] /\ q < p + e
            BY <1>1, <1>8, <1>9
      <4> QED
          BY <3>2, <4>1, StartsDiffer
    <3> QED
        BY <3>1, <3>3, <3>4
  <2> QED
      BY <1>7, <2>1, <2>2
<1>12. Climbing(dl2, l + c)
  <2> SUFFICES ASSUME NEW i \in 1..(l + c), NEW j \in 1..(l + c), i < j
               PROVE  dl2[i] < dl2[j]
      BY DEF Climbing
  <2>1. CASE i \in 1..l /\ j \in 1..l
        BY <1>3, <1>5, <2>1 DEF Climbing
  <2>2. CASE i \in 1..l /\ j - l \in 1..c /\ (j - l) + l = j
    <3>0. dl2[j] = cb[j - l]
          BY <1>6, <2>2
    <3>1. PICK q \in Found(s) : dl2[j] = w[q][1]
          BY <1>2, <1>3, <2>2, <3>0
    <3> QED
        BY <1>3, <1>5, <1>9, <2>2, <3>1 DEF Fresh
  <2>3. CASE i - l \in 1..c /\ (i - l) + l = i /\ j - l \in 1..c /\ (j - l) + l = j
    <3>1. i - l < j - l
          OBVIOUS
    <3>2. cb[i - l] < cb[j - l]
          BY <1>2, <1>3, <2>3, <3>1 DEF Climbing
    <3> QED
        BY <1>6, <2>3, <3>2
  <2>4. ~(i - l \in 1..c /\ j \in 1..l)
        OBVIOUS
  <2> QED
      BY <1>7, <2>1, <2>2, <2>3, <2>4
<1>13. DOMAIN dl = 1..l /\ DOMAIN dl2 = 1..(l + c)
       BY <1>3, <1>4
<1>14. \A i \in DOMAIN dl : \E j \in DOMAIN dl2 : dl2[j] = dl[i]
       BY <1>5, <1>13
<1>15. \A p \in Found(s) : \E j \in DOMAIN dl2 : dl2[j] = w[p][1]
  <2> SUFFICES ASSUME NEW p \in Found(s)
               PROVE  \E j \in 1..(l + c) : dl2[j] = w[p][1]
      BY <1>13
  <2>1. PICK i \in 1..c : cb[i] = w[p][1]
        BY <1>2, <1>3
  <2> QED
      BY <1>6, <2>1
<1> QED
    BY <1>4, <1>10, <1>11, <1>12, <1>14, <1>15 DEF AllCalled

-----------------------------------------------------------------------------
(* A scan costs a frame only where a torn one goes with it.                *)
LEMMA ScanKeeps ==
  ASSUME NEW w, NEW t, NEW s, NEW h, NEW n \in Nat, NEW k \in Nat,
         NEW dl \in Seq(1..MaxFrames), NEW dl2, StreamInv(w, dl, h, n, k),
         IsStream(t), IsStream(s), Begins(s, w), Rest(w, t, EraseSize(s)),
         dl2 = dl \o Callbacks(s)
  PROVE  dl2 \in Seq(1..MaxFrames) /\ StreamInv(t, dl2, h, n, k)
<1>1. /\ IsStream(w) /\ Sorted(w) /\ Below(w, n) /\ Fresh(w, dl, n)
      /\ Climbing(dl, Len(dl)) /\ Cost(w, dl, h, n, k)
      BY DEF StreamInv
<1>2. /\ dl2 \in Seq(1..MaxFrames)
      /\ Below(t, n) /\ Fresh(t, dl2, n) /\ Climbing(dl2, Len(dl2))
      /\ \A i \in DOMAIN dl : \E j \in DOMAIN dl2 : dl2[j] = dl[i]
      /\ \A p \in Found(s) : \E j \in DOMAIN dl2 : dl2[j] = w[p][1]
  <2>1. dl2 \in Seq(1..MaxFrames) /\ Below(t, n)
        BY <1>1, ScanOrder
  <2>2. Fresh(t, dl2, n) /\ Climbing(dl2, Len(dl2))
        BY <1>1, ScanOrder
  <2>3. \A i \in DOMAIN dl : \E j \in DOMAIN dl2 : dl2[j] = dl[i]
        BY <1>1, ScanOrder
  <2>4. AllCalled(s, w, dl2)
        BY <1>1, ScanOrder
  <2> QED
      BY <2>1, <2>2, <2>3, <2>4 DEF AllCalled
<1>3. PICK e \in Nat : e = EraseSize(s)
  <2>1. EraseSize(s) \in 0..Len(s) /\ Len(s) \in Nat
        BY EraseBounds DEF IsStream
  <2> QED
      BY <2>1
<1>4. Sorted(t)
      BY <1>1, <1>3, RestKeeps
<1>5. \A p \in Torn(t) : p + e \in Torn(w) /\ t[p] = w[p + e] /\ p \in Nat /\ p >= 1
  <2>1. \A p \in Torn(t) : p \in Starts(t) /\ p \in Nat /\ p >= 1
        BY DEF Torn, Starts
  <2> QED
      BY <1>1, <1>3, <2>1, RestKeeps
<1>6. FramesAt(t, Torn(t)) \subseteq FramesAt(w, Torn(w))
      BY <1>5 DEF FramesAt
<1>7. ASSUME NEW f \in NotDelivered(t, dl2, h, n), f \notin NotDelivered(w, dl, h, n)
      PROVE  \E c : Overlooked(s, w, c) /\ f = w[c][1]
  <2>1. /\ f \in 1..n /\ f \notin h /\ f \notin FramesAt(t, Complete(t))
        /\ \A j \in DOMAIN dl2 : dl2[j] # f
        BY DEF NotDelivered
  <2>2. \A i \in DOMAIN dl : dl[i] # f
        BY <1>2, <2>1
  <2>3. PICK c \in Complete(w) : f = w[c][1]
        BY <1>7, <2>1, <2>2 DEF NotDelivered, FramesAt
  <2>4. c \in Nat
        BY DEF Complete, Starts
  <2>5. c \notin Found(s)
        BY <1>2, <2>1, <2>3
  <2>6. ~(c > e)
    <3> SUFFICES ASSUME c > e
                 PROVE  FALSE
        OBVIOUS
    <3>1. c - e \in Complete(t) /\ t[c - e] = w[c]
          BY <1>1, <1>3, RestKeeps
    <3> QED
        BY <2>1, <2>3, <3>1 DEF FramesAt
  <2>7. c <= e
        BY <2>4, <2>6
  <2> QED
      BY <1>3, <2>3, <2>5, <2>7 DEF Overlooked
<1>8. Cost(t, dl2, h, n, k)
  <2>1. CASE ~ \E c : Overlooked(s, w, c)
    <3>1. NotDelivered(t, dl2, h, n) \subseteq NotDelivered(w, dl, h, n)
          BY <1>7, <2>1
    <3> QED
        BY <1>1, <1>6, <3>1, CostFromSubsets
  <2>2. CASE \E c : Overlooked(s, w, c)
    <3>1. PICK c : Overlooked(s, w, c)
          BY <2>2
    <3>2. PICK u \in Torn(w) : u <= e
          BY <1>1, <1>3, <3>1, OneOverlooked
    <3>3. \A x : Overlooked(s, w, x) => x = c
          BY <1>1, <3>1, OneOverlooked
    <3>4. NotDelivered(t, dl2, h, n) \subseteq NotDelivered(w, dl, h, n) \cup {w[c][1]}
          BY <1>7, <3>3
    <3>5. w[u][1] \in FramesAt(w, Torn(w))
          BY DEF FramesAt
    <3>6. w[u][1] \notin FramesAt(t, Torn(t))
      <4> SUFFICES ASSUME NEW p \in Torn(t), t[p][1] = w[u][1]
                   PROVE  FALSE
          BY DEF FramesAt
      <4>1. /\ p + e \in Starts(w) /\ u \in Starts(w) /\ t[p] = w[p + e]
            /\ p \in Nat /\ p >= 1
            BY <1>5 DEF Torn
      <4>2. u \in Nat /\ u < p + e
            BY <3>2, <4>1 DEF Starts
      <4>3. w[u][1] < w[p + e][1]
            BY <1>1, <4>1, <4>2, StartsDiffer
      <4>4. w[u][1] \in Nat
            BY <1>1, <4>1, StartType
      <4> QED
          BY <4>1, <4>3, <4>4
    <3>7. FramesAt(t, Torn(t)) \subseteq FramesAt(w, Torn(w)) \cup {w[u][1]}
          BY <1>6
    <3>8. PICK l \in Nat, l2 \in Nat : /\ l = Cardinality(NotDelivered(w, dl, h, n))
                                       /\ l2 = Cardinality(NotDelivered(t, dl2, h, n))
          BY <1>1, SetsAreFinite
    <3>9. PICK d \in Nat, d2 \in Nat : /\ d = Cardinality(FramesAt(w, Torn(w)))
                                       /\ d2 = Cardinality(FramesAt(t, Torn(t)))
          BY <1>1, SetsAreFinite
    <3>10. l2 <= l + 1
           BY <1>1, <3>4, <3>8, SetsAreFinite, OneMore
    <3>11. d2 <= d - 1
           BY <1>1, <3>5, <3>6, <3>7, <3>9, SetsAreFinite, OneMore
    <3>12. l + d <= k
           BY <1>1, <3>8, <3>9 DEF Cost
    <3>13. l2 + d2 <= k
           BY <3>10, <3>11, <3>12
    <3> QED
        BY <3>8, <3>9, <3>13 DEF Cost
  <2> QED
      BY <2>1, <2>2
<1> QED
    BY <1>2, <1>4, <1>8 DEF StreamInv

-----------------------------------------------------------------------------
(* How bytes are joined and cut.                                           *)
LEMMA Joined ==
  ASSUME NEW s, IsStream(s), NEW t, IsStream(t)
  PROVE  /\ IsStream(s \o t) /\ Len(s) \in Nat /\ Len(t) \in Nat
         /\ Len(s \o t) = Len(s) + Len(t)
         /\ \A x \in 1..Len(s) : (s \o t)[x] = s[x]
         /\ \A x \in 1..Len(t) : (s \o t)[Len(s) + x] = t[x]
<1>1. PICK m \in Nat, n \in Nat : m = Len(s) /\ n = Len(t)
      BY DEF IsStream
<1>2. /\ s \o t \in Seq(Bytes) /\ Len(s \o t) = m + n
      /\ \A i \in 1..(m + n) : (s \o t)[i] = IF i <= m THEN s[i] ELSE t[i - m]
      BY <1>1, ConcatProperties DEF IsStream
<1>3. \A x \in 1..m : (s \o t)[x] = s[x]
      BY <1>2
<1>4. \A x \in 1..n : (s \o t)[m + x] = t[x]
  <2> SUFFICES ASSUME NEW x \in 1..n
               PROVE  (s \o t)[m + x] = t[x]
      OBVIOUS
  <2>1. m + x \in 1..(m + n) /\ ~(m + x <= m) /\ (m + x) - m = x
        OBVIOUS
  <2> QED
      BY <1>2, <2>1
<1> QED
    BY <1>1, <1>2, <1>3, <1>4 DEF IsStream

(* The bytes a to b of a sequence.                                         *)
LEMMA CutOut ==
  ASSUME NEW s, IsStream(s), NEW a \in Nat, NEW b \in Nat,
         a >= 1, b <= Len(s), a <= b + 1
  PROVE  /\ IsStream(SubSeq(s, a, b)) /\ Len(SubSeq(s, a, b)) = b - a + 1
         /\ \A x \in 1..(b - a + 1) : SubSeq(s, a, b)[x] = s[a + x - 1]
<1>1. Len(s) \in Nat /\ \A i \in 1..Len(s) : s[i] \in Bytes
      BY DEF IsStream
<1>2. \A i \in a..b : i \in 1..Len(s)
      BY <1>1
<1>3. \A i \in a..b : s[i] \in Bytes
      BY <1>1, <1>2
<1>4. a <= b \/ b - a + 1 = 0
      OBVIOUS
<1>5. /\ SubSeq(s, a, b) \in Seq(Bytes)
      /\ Len(SubSeq(s, a, b)) = IF a <= b THEN b - a + 1 ELSE 0
      /\ \A i \in 1..(b - a + 1) : SubSeq(s, a, b)[i] = s[a + i - 1]
      BY <1>3, SubSeqProperties
<1> QED
    BY <1>4, <1>5 DEF IsStream

-----------------------------------------------------------------------------
(* The bytes of both buffers after the first n of the line were read and   *)
(* the scan erased e.                                                      *)
Takes(rx, ln, n, s, ln2) ==
  s = rx \o SubSeq(ln, 1, n) /\ ln2 = SubSeq(ln, n + 1, Len(ln))
Erases(s, e, rx2) == rx2 = SubSeq(s, e + 1, Len(s))

(* Reading only moves the border between buffer and line.                  *)
LEMMA ReadMoves ==
  ASSUME NEW rx, IsStream(rx), NEW ln, IsStream(ln), NEW n \in Nat,
         n >= 1, n <= Len(ln), NEW s, NEW e \in Nat, e <= Len(s), NEW rx2, NEW ln2,
         Takes(rx, ln, n, s, ln2), Erases(s, e, rx2)
  PROVE  /\ IsStream(s) /\ IsStream(rx2) /\ IsStream(ln2)
         /\ Begins(s, rx \o ln)
         /\ Rest(s, rx2, e) /\ Rest(rx \o ln, rx2 \o ln2, e)
         /\ Len(rx2) = Len(s) - e
<1>1. PICK r \in Nat, l \in Nat : r = Len(rx) /\ l = Len(ln) /\ n <= l
      BY DEF IsStream
<1>n. PICK new : new = SubSeq(ln, 1, n)
      OBVIOUS
<1>2. /\ IsStream(new) /\ Len(new) = n
      /\ \A x \in 1..n : new[x] = ln[x]
  <2>1. IsStream(new) /\ Len(new) = n - 1 + 1 /\ \A x \in 1..(n - 1 + 1) : new[x] = ln[1 + x - 1]
        BY <1>1, <1>n, CutOut
  <2>2. n - 1 + 1 = n /\ \A x \in 1..n : 1 + x - 1 = x
        BY <1>1
  <2> QED
      BY <2>1, <2>2
<1>3. /\ IsStream(ln2) /\ Len(ln2) = l - n
      /\ \A x \in 1..(l - n) : ln2[x] = ln[n + x]
  <2>1. /\ IsStream(ln2) /\ Len(ln2) = l - (n + 1) + 1
        /\ \A x \in 1..(l - (n + 1) + 1) : ln2[x] = ln[(n + 1) + x - 1]
    <3>1. n + 1 \in Nat /\ n + 1 >= 1 /\ n + 1 <= l + 1
          BY <1>1
    <3>2. ln2 = SubSeq(ln, n + 1, l)
          BY <1>1 DEF Takes
    <3> QED
        BY <1>1, <3>1, <3>2, CutOut
  <2>2. l - (n + 1) + 1 = l - n /\ \A x \in 1..(l - n) : (n + 1) + x - 1 = n + x
        BY <1>1
  <2> QED
      BY <2>1, <2>2
<1>4. /\ IsStream(s) /\ Len(s) = r + n
      /\ \A x \in 1..r : s[x] = rx[x]
      /\ \A x \in 1..n : s[r + x] = ln[x]
  <2>1. s = rx \o new
        BY <1>n DEF Takes
  <2>2. /\ IsStream(rx \o new) /\ Len(rx \o new) = Len(rx) + Len(new)
        /\ \A x \in 1..Len(rx) : (rx \o new)[x] = rx[x]
        /\ \A x \in 1..Len(new) : (rx \o new)[Len(rx) + x] = new[x]
    <3>1. IsStream(new)
          BY <1>2
    <3> QED
        BY <3>1, Joined
  <2> QED
      BY <1>1, <1>2, <2>1, <2>2
<1>5. e \in Nat /\ e <= r + n
      BY <1>1, <1>4
<1>6. /\ IsStream(rx2) /\ Len(rx2) = r + n - e
      /\ \A x \in 1..(r + n - e) : rx2[x] = s[e + x]
  <2>1. /\ IsStream(rx2) /\ Len(rx2) = (r + n) - (e + 1) + 1
        /\ \A x \in 1..((r + n) - (e + 1) + 1) : rx2[x] = s[(e + 1) + x - 1]
    <3>1. PICK a \in Nat, b \in Nat : a = e + 1 /\ b = r + n
          BY <1>1, <1>5
    <3>2. a >= 1 /\ a <= b + 1
          BY <1>1, <1>5, <3>1
    <3>4. b = Len(s) /\ rx2 = SubSeq(s, a, b)
          BY <1>4, <3>1 DEF Erases
    <3>3. /\ IsStream(rx2) /\ Len(rx2) = b - a + 1
          /\ \A x \in 1..(b - a + 1) : rx2[x] = s[a + x - 1]
          BY <1>4, <3>2, <3>4, CutOut
    <3> QED
        BY <3>1, <3>3
  <2>2. (r + n) - (e + 1) + 1 = r + n - e /\ \A x \in 1..(r + n - e) : (e + 1) + x - 1 = e + x
        BY <1>1, <1>5
  <2> QED
      BY <2>1, <2>2
<1> DEFINE w == rx \o ln
           t == rx2 \o ln2
<1>7. /\ IsStream(w) /\ Len(w) = r + l
      /\ \A x \in 1..r : w[x] = rx[x]
      /\ \A x \in 1..l : w[r + x] = ln[x]
      BY <1>1, Joined
<1>8. /\ IsStream(t) /\ Len(t) = (r + n - e) + (l - n)
      /\ \A x \in 1..(r + n - e) : t[x] = rx2[x]
      /\ \A x \in 1..(l - n) : t[(r + n - e) + x] = ln2[x]
  <2>1. /\ IsStream(t) /\ Len(t) = Len(rx2) + Len(ln2)
        /\ \A x \in 1..Len(rx2) : t[x] = rx2[x]
        /\ \A x \in 1..Len(ln2) : t[Len(rx2) + x] = ln2[x]
    <3>1. IsStream(rx2) /\ IsStream(ln2)
          BY <1>3, <1>6
    <3> QED
        BY <3>1, Joined
  <2> QED
      BY <1>3, <1>6, <2>1
<1> HIDE DEF w, t
<1>9. \A x \in 1..(r + n) : s[x] = w[x]
  <2> SUFFICES ASSUME NEW x \in 1..(r + n)
               PROVE  s[x] = w[x]
      OBVIOUS
  <2>1. CASE x <= r
    <3>1. x \in 1..r
          BY <1>1, <2>1
    <3> QED
        BY <1>4, <1>7, <3>1
  <2>2. CASE ~(x <= r)
    <3>1. x - r \in 1..n /\ x - r \in 1..l /\ r + (x - r) = x
          BY <1>1, <2>2
    <3> QED
        BY <1>4, <1>7, <3>1
  <2> QED
      BY <2>1, <2>2
<1>10. Begins(s, w)
  <2>1. r + n <= r + l
        BY <1>1
  <2> QED
      BY <1>4, <1>7, <1>9, <2>1 DEF Begins
<1>11. Rest(s, rx2, e)
  <2>1. \A x \in 1..(r + n - e) : x + e = e + x
        BY <1>5
  <2> QED
      BY <1>4, <1>5, <1>6, <2>1 DEF Rest
<1>12. Rest(w, t, e)
  <2>1. (r + n - e) + (l - n) = (r + l) - e /\ e <= r + l
        BY <1>1, <1>5
  <2> SUFFICES ASSUME NEW x \in 1..((r + l) - e)
               PROVE  t[x] = w[x + e]
      BY <1>7, <1>8, <2>1 DEF Rest
  <2>2. CASE x <= r + n - e
    <3>1. x \in 1..(r + n - e) /\ e + x = x + e /\ e + x \in 1..(r + n)
          BY <1>1, <1>5, <2>2
    <3> QED
        BY <1>6, <1>8, <1>9, <3>1
  <2>3. CASE ~(x <= r + n - e)
    <3>0. PICK y \in Int : y = x - (r + n - e)
      <4>1. x - (r + n - e) \in Int
            BY <1>1, <1>5
      <4> QED
          BY <4>1
    <3>1. y \in 1..(l - n) /\ (r + n - e) + y = x
          BY <1>1, <1>5, <2>3, <3>0
    <3>2. n + y \in 1..l /\ r + (n + y) = x + e
          BY <1>1, <1>5, <3>0, <3>1
    <3>3. t[x] = ln2[y]
          BY <1>8, <3>1
    <3>4. ln2[y] = ln[n + y]
          BY <1>3, <3>1
    <3>5. w[x + e] = ln[n + y]
          BY <1>7, <3>2
    <3> QED
        BY <3>3, <3>4, <3>5
  <2> QED
      BY <2>2, <2>3
<1> QED
    BY <1>3, <1>4, <1>6, <1>10, <1>11, <1>12 DEF w, t

-----------------------------------------------------------------------------
(* Bytes i to j of the line are lost.                                      *)
Loses(ln, i, j, ln2) == ln2 = SubSeq(ln, 1, i - 1) \o SubSeq(ln, j + 1, Len(ln))

(* Where the bytes of the line are found in the stream.                    *)
FromLine(rx, ln, i, j) ==
  \A x \in (Len(rx) + i)..(Len(rx) + j) :
    \E k \in i..j : (rx \o ln)[x] = ln[k]

(* Bytes the line loses leave a gap in the stream.                         *)
LEMMA LineLoses ==
  ASSUME NEW rx, IsStream(rx), NEW ln, IsStream(ln), NEW i \in Nat,
         NEW j \in Nat,
         1 <= i, i <= j, j <= Len(ln), NEW ln2, Loses(ln, i, j, ln2)
  PROVE  /\ IsStream(ln2) /\ IsStream(rx \o ln2) /\ IsStream(rx \o ln)
         /\ Gap(rx \o ln, rx \o ln2, Len(rx) + i, Len(rx) + j)
         /\ FromLine(rx, ln, i, j)
<1>1. PICK r \in Nat, l \in Nat : r = Len(rx) /\ l = Len(ln) /\ j <= l
      BY DEF IsStream
<1>2. PICK hd : hd = SubSeq(ln, 1, i - 1)
      OBVIOUS
<1>3. PICK tl : tl = SubSeq(ln, j + 1, l)
      OBVIOUS
<1>4. IsStream(hd) /\ Len(hd) = i - 1 /\ \A x \in 1..(i - 1) : hd[x] = ln[x]
  <2>1. PICK b \in Nat : b = i - 1 /\ b <= l /\ 1 <= b + 1
        BY <1>1
  <2>2. /\ IsStream(SubSeq(ln, 1, b)) /\ Len(SubSeq(ln, 1, b)) = b - 1 + 1
        /\ \A x \in 1..(b - 1 + 1) : SubSeq(ln, 1, b)[x] = ln[1 + x - 1]
    <3>1. 1 \in Nat /\ 1 >= 1 /\ b <= Len(ln)
          BY <1>1, <2>1
    <3> QED
        BY <2>1, <3>1, CutOut
  <2>3. b - 1 + 1 = b /\ \A x \in 1..b : 1 + x - 1 = x
        OBVIOUS
  <2>4. hd = SubSeq(ln, 1, b)
        BY <1>2, <2>1
  <2>5. IsStream(hd) /\ Len(hd) = b /\ \A x \in 1..b : hd[x] = ln[x]
        BY <2>2, <2>3, <2>4
  <2> QED
      BY <2>1, <2>5
<1>5. IsStream(tl) /\ Len(tl) = l - j /\ \A x \in 1..(l - j) : tl[x] = ln[j + x]
  <2>1. j + 1 \in Nat /\ j + 1 >= 1 /\ j + 1 <= l + 1
        BY <1>1
  <2>2. /\ IsStream(tl) /\ Len(tl) = l - (j + 1) + 1
        /\ \A x \in 1..(l - (j + 1) + 1) : tl[x] = ln[(j + 1) + x - 1]
        BY <1>1, <1>3, <2>1, CutOut
  <2>3. l - (j + 1) + 1 = l - j /\ \A x \in 1..(l - j) : (j + 1) + x - 1 = j + x
        BY <1>1
  <2> QED
      BY <2>2, <2>3
<1>6. /\ IsStream(ln2) /\ Len(ln2) = (i - 1) + (l - j)
      /\ \A x \in 1..(i - 1) : ln2[x] = ln[x]
      /\ \A x \in 1..(l - j) : ln2[(i - 1) + x] = ln[j + x]
  <2>1. ln2 = hd \o tl
        BY <1>1, <1>2, <1>3 DEF Loses
  <2>2. IsStream(hd) /\ IsStream(tl)
        BY <1>4, <1>5
  <2>3. /\ IsStream(hd \o tl) /\ Len(hd \o tl) = Len(hd) + Len(tl)
        /\ \A x \in 1..Len(hd) : (hd \o tl)[x] = hd[x]
        /\ \A x \in 1..Len(tl) : (hd \o tl)[Len(hd) + x] = tl[x]
        BY <2>2, Joined
  <2> QED
      BY <1>4, <1>5, <2>1, <2>3
<1> DEFINE w == rx \o ln
           t == rx \o ln2
<1>7. /\ IsStream(w) /\ Len(w) = r + l
      /\ \A x \in 1..r : w[x] = rx[x]
      /\ \A x \in 1..l : w[r + x] = ln[x]
      BY <1>1, Joined
<1>8. /\ IsStream(t) /\ Len(t) = r + (i - 1) + (l - j)
      /\ \A x \in 1..r : t[x] = rx[x]
      /\ \A x \in 1..(i - 1) : t[r + x] = ln[x]
      /\ \A x \in 1..(l - j) : t[r + (i - 1) + x] = ln[j + x]
  <2>0. IsStream(ln2)
        BY <1>6
  <2>1. /\ IsStream(t) /\ Len(t) = Len(rx) + Len(ln2)
        /\ \A x \in 1..Len(rx) : t[x] = rx[x]
        /\ \A x \in 1..Len(ln2) : t[Len(rx) + x] = ln2[x]
        BY <2>0, Joined
  <2> HIDE DEF t
  <2>2. /\ \A x \in 1..r : t[x] = rx[x]
        /\ \A x \in 1..((i - 1) + (l - j)) : t[r + x] = ln2[x]
        /\ Len(t) = r + (i - 1) + (l - j)
        BY <1>1, <1>6, <2>1
  <2>3. ASSUME NEW x \in 1..(i - 1)
        PROVE  t[r + x] = ln[x]
    <3>1. x \in 1..((i - 1) + (l - j))
          BY <1>1
    <3> QED
        BY <1>6, <2>2, <3>1
  <2>4. ASSUME NEW x \in 1..(l - j)
        PROVE  t[r + (i - 1) + x] = ln[j + x]
    <3>1. /\ (i - 1) + x \in 1..((i - 1) + (l - j))
          /\ r + ((i - 1) + x) = r + (i - 1) + x
          BY <1>1
    <3> QED
        BY <1>6, <2>2, <3>1
  <2> QED
      BY <2>1, <2>2, <2>3, <2>4
<1> HIDE DEF w, t
<1>9. Gap(w, t, r + i, r + j)
  <2>1. /\ r + i >= 1 /\ r + i <= r + j /\ r + j <= r + l
        /\ (r + j) - (r + i) + 1 = j - i + 1
        /\ r + (i - 1) + (l - j) = (r + l) - (j - i + 1)
        BY <1>1
  <2>2. ASSUME NEW x \in 1..Len(t)
        PROVE  t[x] = IF x < r + i THEN w[x] ELSE w[x + (j - i + 1)]
    <3>1. CASE x <= r
      <4>1. x \in 1..r /\ x < r + i
            BY <1>1, <1>8, <3>1
      <4> QED
          BY <1>7, <1>8, <4>1
    <3>2. CASE x > r /\ x < r + i
      <4>1. x - r \in 1..(i - 1) /\ x - r \in 1..l /\ r + (x - r) = x
            BY <1>1, <1>8, <3>2
      <4> QED
          BY <1>7, <1>8, <3>2, <4>1
    <3>3. CASE x >= r + i
      <4>0. x - (r + (i - 1)) \in Int /\ x <= r + (i - 1) + (l - j)
            BY <1>1, <1>8
      <4>1. PICK y \in Int : y = x - (r + (i - 1))
            BY <4>0
      <4>2. y \in 1..(l - j) /\ r + (i - 1) + y = x
            BY <1>1, <3>3, <4>0, <4>1
      <4>3. j + y \in 1..l /\ r + (j + y) = x + (j - i + 1) /\ ~(x < r + i)
            BY <1>1, <3>3, <4>1, <4>2
      <4>4. t[x] = ln[j + y]
            BY <1>8, <4>2
      <4>5. w[x + (j - i + 1)] = ln[j + y]
            BY <1>7, <4>3
      <4> QED
          BY <4>3, <4>4, <4>5
    <3> QED
        BY <1>1, <1>8, <3>1, <3>2, <3>3
  <2> QED
      BY <1>7, <1>8, <2>1, <2>2 DEF Gap
<1>10. ASSUME NEW x \in (r + i)..(r + j)
       PROVE  \E k \in i..j : w[x] = ln[k]
  <2>1. x - r \in i..j /\ x - r \in 1..l /\ r + (x - r) = x
        BY <1>1
  <2> QED
      BY <1>7, <2>1
<1> QED
    BY <1>1, <1>6, <1>7, <1>8, <1>9, <1>10 DEF w, t, FromLine

(* Byte i of the line is damaged.                                          *)
Damages(ln, i, ln2) == i \in 1..Len(ln) /\ ln2 = [ln EXCEPT ![i] = Noise]

(* A byte damaged on the line is damaged in the stream.                    *)
LEMMA LineDamaged ==
  ASSUME NEW rx, IsStream(rx), NEW ln, IsStream(ln), NEW i \in Nat,
         NEW ln2, Damages(ln, i, ln2)
  PROVE  /\ IsStream(ln2) /\ IsStream(rx \o ln2) /\ IsStream(rx \o ln)
         /\ Spoilt(rx \o ln, rx \o ln2, Len(rx) + i)
         /\ (rx \o ln)[Len(rx) + i] = ln[i]
<1>1. PICK r \in Nat, l \in Nat : r = Len(rx) /\ l = Len(ln)
      BY DEF IsStream
<1>2. i \in 1..l
      BY <1>1 DEF Damages
<1>3. /\ IsStream(ln2) /\ Len(ln2) = l /\ ln2[i] = Noise
      /\ \A x \in 1..l : x # i => ln2[x] = ln[x]
      BY <1>1, NoiseType DEF Damages, IsStream
<1> DEFINE w == rx \o ln
           t == rx \o ln2
<1>4. /\ IsStream(w) /\ Len(w) = r + l
      /\ \A x \in 1..r : w[x] = rx[x]
      /\ \A x \in 1..l : w[r + x] = ln[x]
      BY <1>1, Joined
<1>5. /\ IsStream(t) /\ Len(t) = r + l
      /\ \A x \in 1..r : t[x] = rx[x]
      /\ \A x \in 1..l : t[r + x] = ln2[x]
  <2>0. IsStream(ln2)
        BY <1>3
  <2>1. /\ IsStream(t) /\ Len(t) = Len(rx) + Len(ln2)
        /\ \A x \in 1..Len(rx) : t[x] = rx[x]
        /\ \A x \in 1..Len(ln2) : t[Len(rx) + x] = ln2[x]
        BY <2>0, Joined
  <2> QED
      BY <1>1, <1>3, <2>1
<1> HIDE DEF w, t
<1>6. ASSUME NEW x \in 1..(r + l), x # r + i
      PROVE  t[x] = w[x]
  <2>1. CASE x <= r
    <3>1. x \in 1..r
          BY <2>1
    <3> QED
        BY <1>4, <1>5, <3>1
  <2>2. CASE x > r
    <3>1. x - r \in 1..l /\ x - r # i /\ r + (x - r) = x
          BY <1>6, <2>2
    <3> QED
        BY <1>3, <1>4, <1>5, <3>1
  <2> QED
      BY <2>1, <2>2
<1>7. r + i \in 1..(r + l)
      BY <1>2
<1> QED
    BY <1>1, <1>2, <1>3, <1>4, <1>5, <1>6, <1>7 DEF w, t, Spoilt

-----------------------------------------------------------------------------
(* The inductive invariant of the receiving side.                          *)
IsListing(d) == d \in Seq(1..MaxFrames)

BytesOK ==
  /\ IsStream(line) /\ IsStream(rxBuffer)
  /\ Len(rxBuffer) < LargestFrame /\ Complete(rxBuffer) = {}
  /\ IsListing(delivered)
  /\ sent \in 0..MaxFrames /\ faults \in 0..MaxFaults
  /\ hurt \subseteq 0..MaxFrames

WatchdogOK ==
  /\ dogCnt \in 0..(DogThreshold + 1)
  /\ loaded \in -1..DogThreshold
  /\ down \in BOOLEAN
  /\ silence \in 0..(DogThreshold + 1)
  /\ ~down => dogCnt <= DogThreshold

StreamOK == StreamInv(stream, delivered, hurt, sent, faults)

LinkInv == BytesOK /\ WatchdogOK /\ StreamOK

(* Nothing was sent yet.                                                   *)
LEMMA LinkInvInit == LinkInit => LinkInv
<1> SUFFICES ASSUME LinkInit
             PROVE  LinkInv
    OBVIOUS
<1>1. /\ IsStream(<<>>) /\ IsListing(<<>>) /\ Len(<<>>) = 0
      /\ (<<>> \o <<>>) = <<>>
      BY EmptySeq, ConcatEmptySeq DEF IsStream, IsListing
<1>2. Starts(<<>>) = {}
      BY <1>1 DEF Starts
<1>3. Complete(<<>>) = {} /\ Torn(<<>>) = {}
      BY <1>2 DEF Complete, Torn
<1>4. LargestFrame > 0
  <2>1. LargestFrame \in Nat /\ \A n \in Sizes : n <= LargestFrame /\ n > Overhead /\ n \in Nat
        BY LargestBound, SizeBounds
  <2>2. \E n \in Sizes : TRUE
        BY SizesAssumption DEF Sizes
  <2> QED
      BY <2>1, <2>2, SizeBounds
<1>5. BytesOK
      BY <1>1, <1>3, <1>4, LinkBoundsAssumption DEF LinkInit, BytesOK
<1>6. WatchdogOK
  <2>1. DogThreshold \in Nat
        BY SizesAssumption
  <2>2. /\ 0 \in 0..(DogThreshold + 1) /\ -1 \in -1..DogThreshold
        /\ 0 <= DogThreshold
        BY <2>1
  <2> QED
      BY <2>2 DEF LinkInit, WatchdogOK
<1>7. NotDelivered(<<>>, <<>>, {}, 0) = {} /\ FramesAt(<<>>, Torn(<<>>)) = {}
      BY <1>3 DEF NotDelivered, FramesAt
<1>8. Cost(<<>>, <<>>, {}, 0, 0)
  <2>1. /\ Cardinality(NotDelivered(<<>>, <<>>, {}, 0)) = 0
        /\ Cardinality(FramesAt(<<>>, Torn(<<>>))) = 0
        BY <1>7, FS_EmptySet
  <2> QED
      BY <2>1 DEF Cost
<1>9. StreamInv(<<>>, <<>>, {}, 0, 0)
      BY <1>1, <1>8 DEF StreamInv, Sorted, Below, Fresh, Climbing
<1> QED
    BY <1>1, <1>5, <1>6, <1>9 DEF LinkInit, LinkInv, StreamOK, stream

(* The watchdog touches no byte.                                           *)
LEMMA TimerKeepsInv ==
  ASSUME LinkInv, TimerLoads \/ TimerStores
  PROVE  LinkInv'
<1>1. /\ line' = line /\ rxBuffer' = rxBuffer /\ delivered' = delivered
      /\ sent' = sent /\ faults' = faults /\ hurt' = hurt
      BY DEF TimerLoads, TimerStores, reader, history
<1>2. BytesOK'
      BY <1>1 DEF LinkInv, BytesOK
<1>3. StreamOK'
      BY <1>1 DEF LinkInv, StreamOK, stream
<1>4. WatchdogOK'
  <2>0. DogThreshold \in Nat /\ WatchdogOK
        BY SizesAssumption DEF LinkInv
  <2>1. CASE TimerLoads
    <3>1. /\ dogCnt' = dogCnt /\ down' = down /\ ~down /\ loaded' = dogCnt
          /\ silence' = IF silence > DogThreshold THEN silence ELSE silence + 1
          BY <2>1 DEF TimerLoads
    <3>2. dogCnt \in 0..(DogThreshold + 1) /\ dogCnt <= DogThreshold
          BY <2>0, <3>1 DEF WatchdogOK
    <3>3. dogCnt \in -1..DogThreshold
          BY <2>0, <3>2
    <3>4. silence' \in 0..(DogThreshold + 1)
      <4>1. silence \in 0..(DogThreshold + 1)
            BY <2>0 DEF WatchdogOK
      <4> QED
          BY <2>0, <3>1, <4>1
    <3> QED
        BY <2>0, <3>1, <3>3, <3>4 DEF WatchdogOK
  <2>2. CASE TimerStores
    <3>1. /\ loaded # -1 /\ loaded' = -1 /\ dogCnt' = loaded + 1
          /\ down' = (loaded + 1 > DogThreshold) /\ silence' = silence
          BY <2>2 DEF TimerStores
    <3>2. loaded \in -1..DogThreshold /\ silence \in 0..(DogThreshold + 1)
          BY <2>0 DEF WatchdogOK
    <3>3. /\ loaded + 1 \in 0..(DogThreshold + 1) /\ -1 \in -1..DogThreshold
          /\ loaded + 1 <= DogThreshold <=> ~(loaded + 1 > DogThreshold)
          BY <2>0, <3>1, <3>2
    <3>4. down' \in BOOLEAN /\ (~down' => dogCnt' <= DogThreshold)
      <4>1. down' \in BOOLEAN
            BY <3>1
      <4>2. loaded + 1 > DogThreshold => down'
            BY <3>1, Zenon
      <4> QED
          BY <3>1, <3>3, <4>1, <4>2
    <3> QED
        BY <3>1, <3>2, <3>3, <3>4 DEF WatchdogOK
  <2> QED
      BY <2>1, <2>2
<1> QED
    BY <1>2, <1>3, <1>4 DEF LinkInv

(* A turn of the read loop.                                                *)
LEMMA ReadKeepsInv ==
  ASSUME LinkInv, NEW n \in 1..MaxReadOnce, n <= Len(line), ReadLoop(n)
  PROVE  LinkInv'
<1>1. n \in Nat /\ n >= 1
      BY SizesAssumption
<1>2. PICK s : s = rxBuffer \o SubSeq(line, 1, n)
      OBVIOUS
<1>3. /\ ~down /\ down' = down /\ loaded' = loaded
      /\ sent' = sent /\ faults' = faults /\ hurt' = hurt
      /\ \/ dogCnt' = 0 /\ silence' = 0
         \/ dogCnt' = dogCnt /\ silence' = silence
      BY DEF ReadLoop, timer, history
<1>4. /\ Takes(rxBuffer, line, n, s, line')
      /\ Erases(s, EraseSize(s), rxBuffer')
      /\ delivered' = delivered \o Callbacks(s)
      BY <1>2 DEF ReadLoop, Takes, Erases
<1>5. /\ IsStream(line) /\ IsStream(rxBuffer) /\ IsListing(delivered)
      /\ sent \in Nat /\ faults \in Nat
      /\ StreamInv(stream, delivered, hurt, sent, faults)
      BY LinkBoundsAssumption DEF LinkInv, BytesOK, StreamOK
<1>6. IsStream(s)
  <2>1. 1 \in Nat /\ 1 <= n + 1
        BY <1>1
  <2>2. IsStream(SubSeq(line, 1, n))
        BY <1>1, <1>5, <2>1, CutOut
  <2> QED
      BY <1>2, <1>5, <2>2, Joined
<1>7. PICK e \in Nat : e = EraseSize(s) /\ e <= Len(s)
  <2>1. EraseSize(s) \in 0..Len(s) /\ Len(s) \in Nat
        BY <1>6, EraseBounds DEF IsStream
  <2> QED
      BY <2>1
<1>8. /\ IsStream(rxBuffer') /\ IsStream(line')
      /\ Begins(s, stream) /\ Rest(s, rxBuffer', e) /\ Rest(stream, stream', e)
      /\ Len(rxBuffer') = Len(s) - e
  <2>1. PICK rx2, ln2 : rx2 = rxBuffer' /\ ln2 = line'
        OBVIOUS
  <2>2. Takes(rxBuffer, line, n, s, ln2) /\ Erases(s, e, rx2)
        BY <1>4, <1>7, <2>1
  <2>3. /\ IsStream(rx2) /\ IsStream(ln2) /\ Len(rx2) = Len(s) - e
        /\ Begins(s, rxBuffer \o line)
        /\ Rest(s, rx2, e) /\ Rest(rxBuffer \o line, rx2 \o ln2, e)
    <3>1. /\ IsStream(rxBuffer) /\ IsStream(line) /\ n \in Nat /\ n >= 1
          /\ n <= Len(line) /\ e \in Nat /\ e <= Len(s)
          BY <1>1, <1>5, <1>7
    <3>2. IsStream(rx2) /\ IsStream(ln2)
          BY <2>2, <3>1, ReadMoves
    <3>3. Begins(s, rxBuffer \o line)
          BY <2>2, <3>1, ReadMoves
    <3>4. Rest(s, rx2, e)
          BY <2>2, <3>1, ReadMoves
    <3>6. Len(rx2) = Len(s) - e
          BY <3>4 DEF Rest
    <3>5. Rest(rxBuffer \o line, rx2 \o ln2, e)
          BY <2>2, <3>1, ReadMoves
    <3> QED
        BY <3>2, <3>3, <3>4, <3>5, <3>6
  <2>4. stream = rxBuffer \o line /\ stream' = rx2 \o ln2
        BY <2>1 DEF stream
  <2> QED
      BY <2>1, <2>3, <2>4
<1>9. IsStream(stream')
      BY <1>8, Joined DEF stream
<1>10. /\ IsListing(delivered')
       /\ StreamInv(stream', delivered', hurt, sent, faults)
  <2>1. PICK t, dl2 : t = stream' /\ dl2 = delivered'
        OBVIOUS
  <2>2. /\ dl2 = delivered \o Callbacks(s) /\ IsStream(t)
        /\ Begins(s, stream) /\ Rest(stream, t, EraseSize(s))
        BY <1>4, <1>7, <1>8, <1>9, <2>1
  <2>3. IsListing(dl2) /\ StreamInv(t, dl2, hurt, sent, faults)
        BY <1>5, <1>6, <2>2, ScanKeeps DEF IsListing
  <2> QED
      BY <2>1, <2>3
<1>11. StreamOK'
       BY <1>3, <1>10 DEF StreamOK
<1>12. Complete(rxBuffer') = {}
  <2> SUFFICES ASSUME NEW p \in Complete(rxBuffer')
               PROVE  FALSE
      OBVIOUS
  <2>1. p + e \in Complete(s)
        BY <1>6, <1>8, RestKeeps
  <2>2. p + e \in 1..e
        BY <1>6, <1>7, <2>1, FoundIsComplete, EraseBounds
  <2>3. p \in Nat /\ p >= 1
        BY DEF Complete, Starts
  <2> QED
      BY <2>2, <2>3
<1>13. Len(rxBuffer') < LargestFrame
       BY <1>6, <1>7, <1>8, EraseBounds
<1>14. BytesOK'
       BY <1>3, <1>8, <1>10, <1>12, <1>13 DEF LinkInv, BytesOK
<1>15. WatchdogOK'
       BY <1>3, SizesAssumption DEF LinkInv, WatchdogOK
<1> QED
    BY <1>11, <1>14, <1>15 DEF LinkInv

(* A restart empties the buffer, and hits every frame with bytes in it.    *)
LEMMA RestartKeepsInv ==
  ASSUME LinkInv, Restart
  PROVE  LinkInv'
<1>1. /\ rxBuffer' = <<>> /\ line' = line /\ delivered' = delivered
      /\ sent' = sent /\ faults' = faults
      /\ hurt' = hurt \cup {rxBuffer[i][1] : i \in DOMAIN rxBuffer}
      BY DEF Restart
<1>2. WatchdogOK'
  <2>1. DogThreshold \in Nat
        BY SizesAssumption
  <2>2. 0 \in 0..(DogThreshold + 1) /\ 0 <= DogThreshold
        BY <2>1
  <2> QED
      BY <2>2 DEF LinkInv, WatchdogOK, Restart
<1>3. /\ IsStream(line) /\ IsStream(rxBuffer) /\ Len(rxBuffer) < LargestFrame
      /\ sent \in Nat /\ faults \in Nat
      /\ StreamInv(stream, delivered, hurt, sent, faults)
      BY LinkBoundsAssumption DEF LinkInv, BytesOK, StreamOK
<1>4. PICK r \in Nat : r = Len(rxBuffer) /\ DOMAIN rxBuffer = 1..r
      BY <1>3 DEF IsStream
<1>5. IsStream(<<>>) /\ Len(<<>>) = 0 /\ <<>> \o line = line
      BY <1>3, EmptySeq, ConcatEmptySeq DEF IsStream
<1>6. stream' = line
      BY <1>1, <1>5 DEF stream
<1>7. /\ Rest(stream, line, r)
      /\ \A x \in 1..r : stream[x] = rxBuffer[x]
  <2>1. /\ Len(line) \in Nat /\ Len(stream) = r + Len(line)
        /\ \A x \in 1..r : stream[x] = rxBuffer[x]
        /\ \A x \in 1..Len(line) : stream[r + x] = line[x]
        BY <1>3, <1>4, Joined DEF stream
  <2>2. \A x \in 1..Len(line) : r + x = x + r
        BY <1>4
  <2>3. r <= r + Len(line) /\ (r + Len(line)) - r = Len(line)
        BY <1>4, <2>1
  <2> QED
      BY <2>1, <2>2, <2>3 DEF Rest
<1>8. hurt \subseteq hurt' /\ \A x \in 1..r : stream[x][1] \in hurt'
      BY <1>1, <1>4, <1>7
<1>9. StreamInv(line, delivered, hurt', sent, faults)
      BY <1>3, <1>7, <1>8, SkipKeeps
<1>10. StreamOK'
       BY <1>1, <1>6, <1>9 DEF StreamOK
<1>11. hurt' \subseteq 0..MaxFrames
  <2>1. ASSUME NEW i \in 1..r
        PROVE  rxBuffer[i][1] \in 0..MaxFrames
    <3>1. rxBuffer[i] \in Bytes
          BY <1>3, <1>4, ElementOfSeq DEF IsStream
    <3> QED
        BY <3>1, ByteType DEF ByteOK
  <2> QED
      BY <1>1, <1>4, <2>1 DEF LinkInv, BytesOK
<1>12. Complete(<<>>) = {}
       BY <1>5 DEF Complete, Starts
<1>13. Len(<<>>) < LargestFrame
       BY <1>3, <1>4, <1>5, LargestBound
<1>14. BytesOK'
       BY <1>1, <1>5, <1>11, <1>12, <1>13 DEF LinkInv, BytesOK
<1> QED
    BY <1>2, <1>10, <1>14 DEF LinkInv

(* The micro-controller sends a frame.                                     *)
LEMMA SendKeepsInv ==
  ASSUME LinkInv, NEW data \in DataSizes, SendFrame(data)
  PROVE  LinkInv'
<1>1. /\ sent < MaxFrames /\ sent' = sent + 1
      /\ line' = line \o Frame(sent + 1, data + Overhead)
      /\ rxBuffer' = rxBuffer /\ delivered' = delivered
      /\ dogCnt' = dogCnt /\ loaded' = loaded /\ down' = down
      /\ faults' = faults /\ hurt' = hurt /\ silence' = silence
      BY DEF SendFrame, reader, timer
<1>2. /\ IsStream(line) /\ IsStream(rxBuffer) /\ IsListing(delivered)
      /\ sent \in Nat /\ faults \in Nat
      /\ StreamInv(stream, delivered, hurt, sent, faults)
      BY LinkBoundsAssumption DEF LinkInv, BytesOK, StreamOK
<1>3. PICK size \in Sizes, f \in 1..MaxFrames :
        size = data + Overhead /\ f = sent + 1
  <2>1. data + Overhead \in Sizes
        BY DEF Sizes
  <2>2. sent + 1 \in 1..MaxFrames
        BY <1>1, <1>2, LinkBoundsAssumption
  <2> QED
      BY <2>1, <2>2
<1>4. PICK g : g = Frame(f, size) /\ g \in Seq(Bytes)
      BY FrameType
<1>5. line' = line \o g
      BY <1>1, <1>3, <1>4
<1>6. IsStream(line')
      BY <1>2, <1>4, <1>5, Joined DEF IsStream
<1>7. Added(stream, stream', sent + 1, size)
  <2>1. stream' = rxBuffer \o (line \o g)
        BY <1>1, <1>5 DEF stream
  <2>2. rxBuffer \o (line \o g) = (rxBuffer \o line) \o g
        BY <1>2, <1>4, ConcatAssociative DEF IsStream
  <2>3. g = Frame(sent + 1, size)
        BY <1>3, <1>4
  <2> QED
      BY <2>1, <2>2, <2>3 DEF Added, stream
<1>8. StreamInv(stream', delivered, hurt, sent + 1, faults)
      BY <1>1, <1>2, <1>7, LinkBoundsAssumption, SendKeeps DEF IsListing
<1>9. StreamOK'
      BY <1>1, <1>8 DEF StreamOK
<1>10. BytesOK'
  <2>1. sent' \in 0..MaxFrames
        BY <1>1, <1>2, LinkBoundsAssumption
  <2> QED
      BY <1>1, <1>6, <2>1 DEF LinkInv, BytesOK
<1>11. WatchdogOK'
       BY <1>1 DEF LinkInv, WatchdogOK
<1> QED
    BY <1>9, <1>10, <1>11 DEF LinkInv

(* What the bytes i to j of the line hit.                                  *)
LEMMA HarmKeeps ==
  ASSUME LinkInv, NEW i \in DOMAIN line, NEW j \in DOMAIN line, i <= j,
         Harm(i, j)
  PROVE  /\ WatchdogOK' /\ rxBuffer' = rxBuffer /\ delivered' = delivered
         /\ sent' = sent /\ faults' = faults + 1 /\ faults' \in 0..MaxFaults
         /\ hurt \subseteq hurt' /\ hurt' \subseteq 0..MaxFrames
         /\ \A k \in i..j : line[k][1] \in hurt'
         /\ i \in Nat /\ j \in Nat /\ 1 <= i /\ j <= Len(line)
<1>1. /\ faults < MaxFaults /\ faults' = faults + 1
      /\ hurt' = hurt \cup {line[k][1] : k \in i..j}
      /\ rxBuffer' = rxBuffer /\ delivered' = delivered /\ sent' = sent
      /\ dogCnt' = dogCnt /\ loaded' = loaded /\ down' = down
      /\ silence' = silence
      BY DEF Harm, reader, timer
<1>2. IsStream(line) /\ faults \in Nat
      BY LinkBoundsAssumption DEF LinkInv, BytesOK
<1>3. PICK l \in Nat : l = Len(line) /\ DOMAIN line = 1..l
      BY <1>2 DEF IsStream
<1>4. i \in 1..l /\ j \in 1..l
      BY <1>3
<1>5. ASSUME NEW k \in i..j
      PROVE  line[k][1] \in 0..MaxFrames
  <2>1. k \in 1..l
        BY <1>4
  <2>2. line[k] \in Bytes
        BY <1>2, <1>3, <2>1, ElementOfSeq DEF IsStream
  <2> QED
      BY <2>2, ByteType DEF ByteOK
<1>6. hurt' \subseteq 0..MaxFrames
      BY <1>1, <1>5 DEF LinkInv, BytesOK
<1>7. faults' \in 0..MaxFaults
      BY <1>1, <1>2, LinkBoundsAssumption
<1>8. WatchdogOK'
      BY <1>1 DEF LinkInv, WatchdogOK
<1>9. hurt \subseteq hurt' /\ \A k \in i..j : line[k][1] \in hurt'
      BY <1>1
<1>10. i \in Nat /\ j \in Nat /\ 1 <= i /\ j <= Len(line)
       BY <1>3, <1>4
<1> QED
    BY <1>1, <1>6, <1>7, <1>8, <1>9, <1>10

(* A burst of bytes is lost.                                               *)
LEMMA LoseKeepsInv ==
  ASSUME LinkInv, NEW i \in DOMAIN line, NEW j \in DOMAIN line, i <= j,
         LoseBytes(i, j)
  PROVE  LinkInv'
<1>1. /\ WatchdogOK' /\ rxBuffer' = rxBuffer /\ delivered' = delivered
      /\ sent' = sent /\ faults' = faults + 1 /\ faults' \in 0..MaxFaults
      /\ hurt \subseteq hurt' /\ hurt' \subseteq 0..MaxFrames
      /\ \A k \in i..j : line[k][1] \in hurt'
      /\ i \in Nat /\ j \in Nat /\ 1 <= i /\ j <= Len(line)
      BY HarmKeeps DEF LoseBytes
<1>2. Loses(line, i, j, line')
      BY DEF LoseBytes, Loses
<1>3. /\ IsStream(line) /\ IsStream(rxBuffer)
      /\ sent \in Nat /\ faults \in Nat
      /\ StreamInv(stream, delivered, hurt, sent, faults)
      BY LinkBoundsAssumption DEF LinkInv, BytesOK, StreamOK
<1>4. PICK a \in Nat, b \in Nat :
           /\ a = Len(rxBuffer) + i
           /\ b = Len(rxBuffer) + j
      BY <1>1, <1>3 DEF IsStream
<1>5. stream' = rxBuffer \o line'
      BY <1>1 DEF stream
<1>6. /\ IsStream(line') /\ IsStream(stream') /\ Gap(stream, stream', a, b)
      /\ \A x \in a..b : \E k \in i..j : stream[x] = line[k]
  <2>1. PICK ln2 : ln2 = line' /\ Loses(line, i, j, ln2)
        BY <1>2
  <2>2. /\ IsStream(ln2) /\ IsStream(rxBuffer \o ln2)
        /\ Gap(rxBuffer \o line, rxBuffer \o ln2, Len(rxBuffer) + i, Len(rxBuffer) + j)
        /\ \A x \in (Len(rxBuffer) + i)..(Len(rxBuffer) + j) :
             \E k \in i..j : (rxBuffer \o line)[x] = line[k]
    <3>1. /\ IsStream(rxBuffer) /\ IsStream(line) /\ i \in Nat /\ j \in Nat
          /\ 1 <= i /\ i <= j /\ j <= Len(line)
          BY <1>1, <1>3
    <3>2. /\ IsStream(ln2) /\ IsStream(rxBuffer \o ln2)
          /\ Gap(rxBuffer \o line, rxBuffer \o ln2,
                  Len(rxBuffer) + i, Len(rxBuffer) + j)
          BY <2>1, <3>1, LineLoses
    <3>3. FromLine(rxBuffer, line, i, j)
          BY <2>1, <3>1, LineLoses
    <3> QED
        BY <3>2, <3>3 DEF FromLine
  <2>3. stream = rxBuffer \o line /\ stream' = rxBuffer \o ln2
        BY <1>5, <2>1 DEF stream
  <2> QED
      BY <1>4, <2>1, <2>2, <2>3
<1>7. \A x \in a..b : stream[x][1] \in hurt'
      BY <1>1, <1>6
<1>8. StreamInv(stream', delivered, hurt', sent, faults + 1)
      BY <1>1, <1>3, <1>6, <1>7, LoseKeeps
<1>9. StreamOK'
      BY <1>1, <1>8 DEF StreamOK
<1>10. BytesOK'
       BY <1>1, <1>6 DEF LinkInv, BytesOK
<1> QED
    BY <1>1, <1>9, <1>10 DEF LinkInv

(* A byte is damaged.                                                      *)
LEMMA DamageKeepsInv ==
  ASSUME LinkInv, NEW i \in DOMAIN line, DamageByte(i)
  PROVE  LinkInv'
<1>0. IsStream(line) /\ IsStream(rxBuffer) /\ i \in 1..Len(line) /\ i <= i
  <2>1. IsStream(line) /\ IsStream(rxBuffer)
        BY DEF LinkInv, BytesOK
  <2>2. i \in 1..Len(line)
        BY <2>1 DEF IsStream
  <2> QED
      BY <2>1, <2>2
<1>1. /\ WatchdogOK' /\ rxBuffer' = rxBuffer /\ delivered' = delivered
      /\ sent' = sent /\ faults' = faults + 1 /\ faults' \in 0..MaxFaults
      /\ hurt \subseteq hurt' /\ hurt' \subseteq 0..MaxFrames
      /\ \A k \in i..i : line[k][1] \in hurt'
      /\ i \in Nat
      BY <1>0, HarmKeeps DEF DamageByte
<1>2. Damages(line, i, line')
      BY <1>0 DEF DamageByte, Damages
<1>3. /\ sent \in Nat /\ faults \in Nat
      /\ StreamInv(stream, delivered, hurt, sent, faults)
      BY LinkBoundsAssumption DEF LinkInv, BytesOK, StreamOK
<1>4. PICK a \in Nat : a = Len(rxBuffer) + i
      BY <1>0, <1>1 DEF IsStream
<1>5. stream' = rxBuffer \o line'
      BY <1>1 DEF stream
<1>6. /\ IsStream(line') /\ IsStream(stream') /\ Spoilt(stream, stream', a)
      /\ stream[a] = line[i]
      BY <1>0, <1>1, <1>2, <1>4, <1>5, LineDamaged DEF stream
<1>7. stream[a][1] \in hurt'
      BY <1>1, <1>6
<1>8. StreamInv(stream', delivered, hurt', sent, faults + 1)
      BY <1>1, <1>3, <1>6, <1>7, DamageKeeps
<1>9. StreamOK'
      BY <1>1, <1>8 DEF StreamOK
<1>10. BytesOK'
       BY <1>1, <1>6 DEF LinkInv, BytesOK
<1> QED
    BY <1>1, <1>9, <1>10 DEF LinkInv

(* Every step keeps the invariant.                                         *)
LEMMA LinkInvStep == LinkInv /\ [LinkNext]_linkVars => LinkInv'
<1> SUFFICES ASSUME LinkInv, [LinkNext]_linkVars
             PROVE  LinkInv'
    OBVIOUS
<1>1. CASE UNCHANGED linkVars
  <2>1. /\ line' = line /\ rxBuffer' = rxBuffer /\ delivered' = delivered
        /\ dogCnt' = dogCnt /\ loaded' = loaded /\ down' = down
        /\ sent' = sent /\ faults' = faults /\ hurt' = hurt
        /\ silence' = silence
        BY <1>1 DEF linkVars, reader, timer, history
  <2> QED
      BY <2>1 DEF LinkInv, BytesOK, WatchdogOK, StreamOK, stream
<1>2. CASE \E n \in 1..MaxReadOnce : n <= Len(line) /\ ReadLoop(n)
      BY <1>2, ReadKeepsInv
<1>3. CASE TimerLoads \/ TimerStores
      BY <1>3, TimerKeepsInv
<1>4. CASE \E data \in DataSizes : SendFrame(data)
      BY <1>4, SendKeepsInv
<1>5. CASE \E i, j \in DOMAIN line : i <= j /\ LoseBytes(i, j)
      BY <1>5, LoseKeepsInv
<1>6. CASE \E i \in DOMAIN line : DamageByte(i)
      BY <1>6, DamageKeepsInv
<1>7. CASE Restart
      BY <1>7, RestartKeepsInv
<1> QED
    BY <1>1, <1>2, <1>3, <1>4, <1>5, <1>6, <1>7 DEF LinkNext

(* It always holds.                                                        *)
LEMMA LinkInvHolds == LinkSpec => []LinkInv
BY LinkInvInit, LinkInvStep, PTL DEF LinkSpec

(* However bursts are lost and bytes damaged, what a scan leaves in the    *)
(* Listener's buffer is shorter than one frame, and every variable has its *)
(* type.                                                                   *)
THEOREM LinkTypeCorrect == LinkSpec => []LinkTypeOK
<1>1. LinkInv => LinkTypeOK
      BY DEF LinkInv, BytesOK, WatchdogOK, LinkTypeOK, IsStream, IsListing
<1> QED
    BY <1>1, LinkInvHolds, PTL

(* scan hands no frame to a callback twice and none out of order, however  *)
(* the bytes are cut into reads and whatever was lost or damaged.          *)
THEOREM LinkInOrderOnce == LinkSpec => []InOrderOnce
<1>1. LinkInv => InOrderOnce
  <2> SUFFICES ASSUME LinkInv, NEW i \in 1..(Len(delivered) - 1)
               PROVE  delivered[i] < delivered[i + 1]
      BY DEF InOrderOnce
  <2>1. Climbing(delivered, Len(delivered)) /\ Len(delivered) \in Nat
        BY DEF LinkInv, BytesOK, IsListing, StreamOK, StreamInv
  <2>2. i \in 1..Len(delivered) /\ i + 1 \in 1..Len(delivered) /\ i < i + 1
        BY <2>1
  <2> QED
      BY <2>1, <2>2 DEF Climbing
<1> QED
    BY <1>1, LinkInvHolds, PTL

(* A burst lost or a byte damaged costs at most one frame besides those it *)
(* hits, although a found frame erases the whole buffer and a discarded    *)
(* position everything before it; without a fault no frame is missed.      *)
THEOREM LinkLossesBounded == LinkSpec => []LossesBounded
<1>1. LinkInv => LossesBounded
  <2> SUFFICES ASSUME LinkInv
               PROVE  LossesBounded
      OBVIOUS
  <2>1. /\ IsStream(line) /\ IsStream(rxBuffer) /\ IsStream(stream)
        /\ sent \in Nat /\ faults \in Nat /\ Complete(rxBuffer) = {}
        /\ Cost(stream, delivered, hurt, sent, faults)
        BY LinkBoundsAssumption DEF LinkInv, BytesOK, StreamOK, StreamInv
  <2>2. Missing \subseteq Lost
    <3> SUFFICES ASSUME NEW f \in Missing, NEW p \in Complete(stream),
                        f = stream[p][1]
                 PROVE  FALSE
        BY DEF Missing, Lost, NotDelivered, FramesAt
    <3>1. PICK r \in Nat, l \in Nat :
            /\ r = Len(rxBuffer) /\ l = Len(line) /\ DOMAIN line = 1..l
            /\ Len(stream) = r + l
            /\ \A x \in 1..l : stream[r + x] = line[x]
            /\ \A x \in 1..r : stream[x] = rxBuffer[x]
          BY <2>1, Joined DEF stream, IsStream
    <3>2. PICK n \in Nat : /\ n = stream[p][3] /\ p \in 1..(r + l) /\ n >= 1
                           /\ p \in Starts(stream) /\ p + n - 1 <= r + l
                           /\ \A q \in p..(p + n - 1) :
                                stream[q] = <<stream[p][1], q - p + 1, n>>
      <4>1. p \in Starts(stream)
            BY DEF Complete
      <4>2. PICK n \in Nat : n = stream[p][3] /\ n > Overhead
            BY <2>1, <4>1, StartType
      <4>3. n >= 1 /\ p \in 1..(r + l)
            BY <2>1, <3>1, <4>1, <4>2, StartType, SizeBounds
      <4>4. /\ p + n - 1 <= r + l
            /\ \A q \in p..(p + n - 1) :
                 stream[q] = <<stream[p][1], q - p + 1, n>>
        <5>1. IsStream(stream) /\ Len(stream) = r + l
              BY <2>1, <3>1
        <5>2. /\ p + stream[p][3] - 1 <= Len(stream)
              /\ \A q \in p..(p + stream[p][3] - 1) :
                   stream[q] = <<stream[p][1], q - p + 1, stream[p][3]>>
              BY <4>1, <5>1, CompleteMeans
        <5> QED
            BY <4>2, <5>1, <5>2
      <4> QED
          BY <4>1, <4>2, <4>3, <4>4
    <3>3. PICK q \in Nat : q = p + n - 1 /\ q \in p..(p + n - 1)
          BY <3>1, <3>2
    <3>4. stream[q][1] = f
          BY <3>2, <3>3
    <3>5. CASE q > r
      <4>1. q - r \in 1..l /\ r + (q - r) = q
            BY <3>1, <3>2, <3>3, <3>5
      <4>2. line[q - r][1] = f
            BY <3>1, <3>4, <4>1
      <4> QED
          BY <3>1, <4>1, <4>2 DEF Missing
    <3>6. CASE q <= r
      <4>1. Begins(rxBuffer, stream)
            BY <3>1 DEF Begins
      <4>2. p \in Complete(rxBuffer)
            BY <2>1, <3>1, <3>2, <3>3, <3>6, <4>1, PartStarts
      <4> QED
          BY <2>1, <4>2
    <3> QED
        BY <3>3, <3>5, <3>6
  <2>3. PICK m \in Nat, c \in Nat, d \in Nat :
          /\ m = Cardinality(Missing) /\ m <= c
          /\ c = Cardinality(Lost) /\ d = Cardinality(TornFrames)
          /\ c + d <= faults
    <3>1. /\ IsFiniteSet(Lost) /\ Cardinality(Lost) \in Nat
          /\ Cardinality(TornFrames) \in Nat
          BY <2>1, SetsAreFinite DEF Lost, TornFrames
    <3>2. /\ Cardinality(Missing) <= Cardinality(Lost)
          /\ Cardinality(Missing) \in Nat
          BY <2>2, <3>1, FS_Subset, FS_CardinalityType
    <3>3. Cardinality(Lost) + Cardinality(TornFrames) <= faults
          BY <2>1 DEF Cost, Lost, TornFrames
    <3> QED
        BY <3>1, <3>2, <3>3
  <2>4. m <= faults
        BY <2>1, <2>3
  <2> QED
      BY <2>3, <2>4 DEF LossesBounded
<1> QED
    BY <1>1, LinkInvHolds, PTL
=============================================================================
