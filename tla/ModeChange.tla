----------------------------- MODULE ModeChange -----------------------------
(***************************************************************************)
(* Changing the navigation between controlling the chassis and controlling *)
(* the gimbal.  One pass over the tree ticks                               *)
(*                                                                         *)
(*   WaitForGameStart    lets the pass go on, or resets the blackboard     *)
(*   SendPatrol          tells the chassis the mode of the blackboard      *)
(*   ChangeMode          when the mode has changed: one set_parameters     *)
(*                       call after the other to five servers, each        *)
(*                       awaited without a time-out; the first that is     *)
(*                       rejected ends the tick                            *)
(*   NavigateToPose      drives to the goal, unless IsGoalUpdate finds     *)
(*                       that it has moved                                 *)
(*   the emergencies     escape, tunnel, map, and last of them the wait    *)
(*                       after a mode change, which cancels every goal     *)
(*   the writers         supply zone, SetSpin, SetPatrol of the mission    *)
(*                                                                         *)
(* A profile is what one mode change writes: the frame (odom_frame) all    *)
(* five servers get and the eight FollowPath limits that go to the         *)
(* controller alone.                                                       *)
(***************************************************************************)
EXTENDS Integers, Sequences

CONSTANTS
  Orders,      (* the <<mode, spin>> of the tree's SetPatrol nodes         *)
  Goals,       (* goals the missions choose                                *)
  Origin,      (* the goal of a reset blackboard, and of no mission        *)
  CountSize    (* passes a wait lasts: count_size                          *)

ASSUME OrdersAssumption == Orders \subseteq {<<0, 0>>, <<1, 0>>, <<1, 1>>}
ASSUME GoalsAssumption  == Goals # {} /\ Origin \notin Goals
ASSUME SizeAssumption   == CountSize \in Nat /\ CountSize >= 2

(* The five servers in the order in which ChangeMode calls them.           *)
Servers == <<"controller_server", "bt_navigator", "local_costmap",
             "global_costmap", "behavior_server">>

Modes    == {0, 1, 2}       (* chassis, gimbal, not chosen yet             *)
Profiles == {"launch", "chassis", "gimbal", "spin"}
Mixed    == "mixed"         (* some limits of one profile, some of another *)

VARIABLES
  pc,          (* what is ticked next                                      *)
  mode, spin,  (* blackboard                                               *)
  changing,    (* blackboard: if_in_mode_changing                          *)
  goal,        (* blackboard: goal                                         *)
  last,        (* ChangeMode: last_decision_mode_                          *)
  profile,     (* ChangeMode: frame_id and the eight limits                *)
  call,        (* index in Servers of the call that is awaited             *)
  held,        (* server -> profile it works with                          *)
  count,       (* WaitForInputPeriod: count                                *)
  lastGoal,    (* IsGoalUpdate: last_goal                                  *)
  sent,        (* mode in the last Action message to the chassis           *)
  driving,     (* NavigateToPose has a goal that is being driven to        *)
  cancelling,  (* a cancel request is on its way                           *)
  drivenFor,   (* history: last when the driven goal was sent              *)
  rejected,    (* history: a call of the last mode change was rejected     *)
  waited,      (* history: passes spent waiting since the last mode change *)
  interrupted  (* history: that change came before the last one was waited *)

node  == <<last, profile, call, held, rejected>>
drive == <<driving, cancelling, drivenFor>>
wait  == <<changing, count, waited, interrupted>>
order == <<mode, spin>>
vars  == <<pc, order, goal, lastGoal, sent, node, drive, wait>>

Init ==
  /\ pc = "start"
  /\ mode = 2 /\ spin = 0
  /\ changing = FALSE
  /\ goal = Origin /\ lastGoal = Origin
  /\ last = 2
  /\ profile = "launch"
  /\ call = 0
  /\ held = [s \in 1..Len(Servers) |-> "launch"]
  /\ count = 0
  /\ sent = 2
  /\ driving = FALSE /\ cancelling = FALSE /\ drivenFor = 2
  /\ rejected = FALSE /\ waited = 0 /\ interrupted = FALSE

-----------------------------------------------------------------------------
(* WaitForGameStart during a game, and when one is settled.                *)
GameGoesOn ==
  /\ pc = "start"
  /\ pc' = "send"
  /\ UNCHANGED <<order, goal, lastGoal, sent, node, drive, wait>>

NewGame ==
  /\ pc = "start"
  /\ mode' = 0 /\ spin' = 0 /\ goal' = Origin
  /\ UNCHANGED <<pc, lastGoal, sent, node, drive, wait>>

SendPatrolTick ==
  /\ pc = "send"
  /\ sent' = mode
  /\ pc' = "change"
  /\ UNCHANGED <<order, goal, lastGoal, node, drive, wait>>

-----------------------------------------------------------------------------
(* ChangeMode up to its first call.                                        *)
ChosenProfile ==
  CASE spin = 1              -> "spin"
    [] spin # 1 /\ mode = 0  -> "chassis"
    [] spin # 1 /\ mode = 1  -> "gimbal"
    [] OTHER                 -> profile

ModeUnchanged ==
  /\ pc = "change"
  /\ mode = last
  /\ pc' = "navigate"
  /\ UNCHANGED <<order, goal, lastGoal, sent, node, drive, wait>>

ModeChanged ==
  /\ pc = "change"
  /\ mode # last
  /\ last' = IF spin = 1 \/ mode \in {0, 1} THEN mode ELSE last
  /\ profile' = ChosenProfile
  /\ changing' = TRUE
  /\ call' = 1
  /\ rejected' = FALSE
  /\ waited' = 0
  /\ interrupted' = changing
  /\ pc' = "call"
  /\ UNCHANGED <<order, goal, lastGoal, sent, held, drive, count>>

(* A call follows until the last server has answered.  Mutant: one too     *)
(* few.                                                                    *)
AnotherButOne == call < Len(Servers) - 1
Another == call < Len(Servers)

(* The server answers that every parameter is set: on to the next server,  *)
(* or out of the tick.                                                     *)
CallSucceeds ==
  /\ pc = "call"
  /\ held' = [held EXCEPT ![call] = profile]
  /\ IF Another
       THEN call' = call + 1 /\ UNCHANGED <<pc, last>>
       ELSE call' = 0 /\ last' = mode /\ pc' = "navigate"
  /\ UNCHANGED <<order, goal, lastGoal, sent, drive, wait, profile, rejected>>

(* It rejects at least one.  Each parameter is set on its own, so a        *)
(* controller that rejects one may have taken others; the rest of the      *)
(* servers is asked for one parameter each.                                *)
CallRejected ==
  /\ pc = "call"
  /\ \/ UNCHANGED held
     \/ call = 1 /\ held' = [held EXCEPT ![call] = Mixed]
  /\ rejected' = TRUE
  /\ call' = 0
  /\ pc' = "navigate"
  /\ UNCHANGED <<order, goal, lastGoal, sent, drive, wait, last, profile>>

-----------------------------------------------------------------------------
(* ReactiveFallback(IsGoalUpdate, NavigateToPose): a goal that moved halts *)
(* NavigateToPose, which cancels its goal and waits for that; otherwise a  *)
(* goal is sent unless one is driven to already.                           *)
NavigateTick ==
  /\ pc = "navigate"
  /\ pc' = "emergency"
  /\ lastGoal' = goal
  /\ driving' = (goal = lastGoal)
  /\ drivenFor' = IF driving THEN drivenFor ELSE last
  /\ UNCHANGED <<order, goal, sent, node, wait, cancelling>>

(* The goal is reached or given up.                                        *)
GoalEnds ==
  /\ driving
  /\ driving' = FALSE
  /\ UNCHANGED <<pc, order, goal, lastGoal, sent, node, wait, cancelling, drivenFor>>

(* The cancel request arrives and meets whatever goal is driven to.        *)
CancelArrives ==
  /\ cancelling
  /\ cancelling' = FALSE
  /\ driving' = FALSE
  /\ UNCHANGED <<pc, order, goal, lastGoal, sent, node, wait, drivenFor>>

-----------------------------------------------------------------------------
(* The emergencies: one of the first three succeeds and the pass is over   *)
(* before the wait is looked at.                                           *)
Emergency ==
  /\ pc = "emergency"
  /\ pc' = "start"
  /\ UNCHANGED <<order, goal, lastGoal, sent, node, drive, wait>>

(* WaitForInputPeriod, ticked while IfModeChange holds, ends the pass too. *)
(* Mutants: the size compared the wrong way round at the limit; the size   *)
(* less one.                                                               *)
StillLate  == count <= CountSize
StillShort == count < CountSize - 1
Still == count < CountSize

(* The end of the wait, on the blackboard.  Mutant: in the node alone.     *)
EndInTheNode == UNCHANGED changing
EndWait == changing' = FALSE

(* Mutant: no goal is cancelled.                                           *)
LeaveGoals == UNCHANGED cancelling
CancelAllGoals == cancelling' = TRUE

WaitOver ==
  /\ pc = "emergency" /\ changing
  /\ ~Still
  /\ count' = 1
  /\ EndWait
  /\ pc' = "start"
  /\ UNCHANGED <<order, goal, lastGoal, sent, node, drive, waited, interrupted>>

WaitOn ==
  /\ pc = "emergency" /\ changing
  /\ Still
  /\ count' = count + 1
  /\ CancelAllGoals
  /\ waited' = IF waited < CountSize THEN waited + 1 ELSE waited
  /\ pc' = "start"
  /\ UNCHANGED <<order, goal, lastGoal, sent, node, driving, drivenFor,
                 changing, interrupted>>

WaitForInputPeriodTick == WaitOver \/ WaitOn

(* IfModeChange fails.                                                     *)
NoModeChange == ~changing

NoEmergency ==
  /\ pc = "emergency" /\ NoModeChange
  /\ pc' = "supply"
  /\ UNCHANGED <<order, goal, lastGoal, sent, node, drive, wait>>

-----------------------------------------------------------------------------
SetSpinTick(s) ==
  /\ spin' = s
  /\ mode' = IF s = 1 THEN 1 ELSE mode

(* Hurt, in the supply zone: stay there spinning, and the pass is over.    *)
SupplyTick ==
  /\ pc = "supply"
  /\ \/ /\ SetSpinTick(1)
        /\ goal' \in Goals
        /\ pc' = "start"
     \/ pc' = "spin" /\ UNCHANGED <<order, goal>>
  /\ UNCHANGED <<lastGoal, sent, node, drive, wait>>

SpinControl ==
  /\ pc = "spin"
  /\ \E s \in {0, 1} : SetSpinTick(s)
  /\ pc' = "mission"
  /\ UNCHANGED <<goal, lastGoal, sent, node, drive, wait>>

(* SetPatrol writes the mission's order, or spins when the sentry is hurt  *)
(* or in a fight.                                                          *)
SetPatrolTick(o, inFight) ==
  /\ mode' = IF inFight THEN 1 ELSE o[1]
  /\ spin' = IF inFight THEN 1 ELSE o[2]

(* A mission may choose a goal and an order, or neither.                   *)
MissionTick ==
  /\ pc = "mission"
  /\ \/ \E o \in Orders, inFight \in BOOLEAN : SetPatrolTick(o, inFight)
     \/ UNCHANGED order
  /\ goal' \in Goals \union {goal}
  /\ pc' = "start"
  /\ UNCHANGED <<lastGoal, sent, node, drive, wait>>

-----------------------------------------------------------------------------
ChangeModeTick == ModeUnchanged \/ ModeChanged
CallReturns    == CallSucceeds \/ CallRejected
Writers        == SupplyTick \/ SpinControl \/ MissionTick
QuietEmergencies == WaitForInputPeriodTick \/ NoEmergency

Next ==
  \/ GameGoesOn \/ NewGame \/ SendPatrolTick
  \/ ChangeModeTick \/ CallReturns \/ NavigateTick
  \/ GoalEnds \/ CancelArrives
  \/ Emergency \/ QuietEmergencies \/ Writers

(* The tree is ticked again and again, the servers answer, games last and  *)
(* no emergency lasts for ever.                                            *)
Fairness ==
  /\ WF_vars(GameGoesOn \/ SendPatrolTick \/ ChangeModeTick \/ NavigateTick)
  /\ WF_vars(CallReturns)
  /\ WF_vars(Emergency \/ Writers)
  /\ SF_vars(QuietEmergencies)

Spec == Init /\ [][Next]_vars /\ Fairness

-----------------------------------------------------------------------------
(* Every variable keeps its type; the count never passes the size.         *)
TypeOK ==
  /\ pc \in {"start", "send", "change", "call", "navigate", "emergency",
             "supply", "spin", "mission"}
  /\ mode \in Modes /\ spin \in Modes /\ last \in Modes /\ sent \in Modes
  /\ drivenFor \in Modes
  /\ goal \in Goals \union {Origin} /\ lastGoal \in Goals \union {Origin}
  /\ profile \in Profiles
  /\ call \in 0..Len(Servers) /\ (call = 0 <=> pc # "call")
  /\ held \in [1..Len(Servers) -> Profiles \union {Mixed}]
  /\ count \in 0..CountSize /\ waited \in 0..CountSize
  /\ changing \in BOOLEAN /\ driving \in BOOLEAN /\ cancelling \in BOOLEAN
  /\ rejected \in BOOLEAN /\ interrupted \in BOOLEAN

(* The profiles that suit a mode the chassis was told of.                  *)
Suits == [m \in Modes |-> CASE m = 0 -> {"chassis"}
                            [] m = 1 -> {"gimbal", "spin"}
                            [] m = 2 -> {"launch"}]

(* A goal is only sent or kept while all five servers hold one profile, of *)
(* the mode the chassis was told in the same pass, unless the last mode    *)
(* change was rejected: whatever a rejected change left behind, the next   *)
(* one that is not rejected repairs.                                       *)
ServersSuitTheChassis ==
  pc = "navigate" /\ ~rejected =>
     \E p \in Suits[sent] : \A s \in DOMAIN held : held[s] = p

(* A wait lasts its passes but one, unless a new game began another change *)
(* in the middle of it: however many emergencies cut in, the wait is       *)
(* stretched and never shortened.                                          *)
WaitIsLongEnough ==
  [][changing /\ ~changing' => waited >= CountSize - 1 \/ interrupted]_vars

(* When the wait is over the goal the sentry drives to was sent after the  *)
(* mode change: the one of the old mode was cancelled, or its cancellation *)
(* is still on its way.  Only a new game in the middle of a wait, which    *)
(* leaves the count where it is, can end it with the old goal alive.       *)
OldGoalIsDropped ==
  ~changing /\ driving => drivenFor = last \/ cancelling \/ interrupted

(* Every wait for a mode change ends, however the servers answer and       *)
(* however often a game is settled meanwhile.                              *)
WaitEnds == []<>~changing
=============================================================================
