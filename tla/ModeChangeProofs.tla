-------------------------- MODULE ModeChangeProofs --------------------------
(***************************************************************************)
(* The servers suit the chassis and no old goal survives a wait, for every *)
(* length of a wait.  What the servers hold is known between two mode      *)
(* changes (HeldTogether) and in the middle of one (CalledInStep); how     *)
(* long a wait has lasted is known from its count, as long as it started   *)
(* from where a wait that is over leaves it (CountTrails).                 *)
(***************************************************************************)
EXTENDS ModeChange, TLAPS

(* The types of the blackboard, of ChangeMode, of the wait, and of what    *)
(* is true or false.                                                       *)
BoardOK ==
  /\ pc \in {"start", "send", "change", "call", "navigate", "emergency",
             "supply", "spin", "mission"}
  /\ mode \in Modes /\ spin \in {0, 1} /\ sent \in Modes
  /\ goal \in Goals \union {Origin} /\ lastGoal \in Goals \union {Origin}

NodeOK ==
  /\ last \in Modes /\ profile \in Profiles
  /\ call \in 0..Len(Servers) /\ (call = 0 <=> pc # "call")
  /\ held \in [1..Len(Servers) -> Profiles \union {Mixed}]

CountsOK ==
  /\ drivenFor \in Modes
  /\ count \in 0..CountSize /\ waited \in 0..CountSize

FlagsOK ==
  /\ changing \in BOOLEAN /\ driving \in BOOLEAN /\ cancelling \in BOOLEAN
  /\ rejected \in BOOLEAN /\ interrupted \in BOOLEAN

(* Who spins controls the gimbal; a mode once chosen is never unchosen.    *)
OrderFits ==
  /\ spin = 1 => mode = 1
  /\ mode = 2 => last = 2

(* What the chassis was told is still the mode when the servers are used,  *)
(* and ChangeMode knows it.                                                *)
ToldTheMode ==
  /\ pc \in {"change", "call", "navigate"} => sent = mode
  /\ pc \in {"call", "navigate"} => last = mode

(* The profile is one of the last mode, also after a rejected change.      *)
ProfileSuits == profile \in Suits[last]

(* During a change the servers called hold the profile, after it all do.   *)
CalledInStep ==
  pc = "call" => ~rejected /\ \A s \in 1 .. call - 1 : held[s] = profile

HeldTogether ==
  pc # "call" /\ ~rejected => \A s \in DOMAIN held : held[s] = profile

(* The count of a wait nothing interrupted is at most one ahead of the     *)
(* passes waited.                                                          *)
CountTrails ==
  /\ ~changing => count <= 1
  /\ changing /\ ~interrupted => count <= waited + 1

(* The first pass of a wait cancels the goal of the old mode.              *)
OldGoalFades ==
  driving /\ drivenFor # last =>
     cancelling \/ interrupted \/ (changing /\ waited = 0)

Types == BoardOK /\ NodeOK /\ CountsOK /\ FlagsOK
InStep ==
  OrderFits /\ ToldTheMode /\ ProfileSuits /\ CalledInStep /\ HeldTogether
Waits == CountTrails /\ OldGoalFades

IInv == Types /\ InStep /\ Waits

USE SizeAssumption

LEMMA ServersLength == Len(Servers) = 5
BY DEF Servers

USE ServersLength

(* Nothing is chosen, nothing driven, and all servers are as launched.     *)
LEMMA InitHolds == Init => IInv
<1> SUFFICES ASSUME Init
             PROVE  IInv
    OBVIOUS
<1> USE DEF Init
<1>1. BoardOK /\ NodeOK /\ CountsOK
      BY DEF BoardOK, NodeOK, CountsOK, Modes, Profiles
<1>2. FlagsOK
      BY DEF FlagsOK
<1>3. InStep
      BY DEF InStep, OrderFits, ToldTheMode, ProfileSuits, Suits, Modes,
             CalledInStep, HeldTogether
<1>4. Waits
      BY DEF Waits, CountTrails, OldGoalFades
<1> QED
    BY <1>1, <1>2, <1>3, <1>4 DEF IInv, Types

(* The ticks that only move the pass on, or tell the chassis.              *)
LEMMA PassHolds ==
  ASSUME IInv, \/ GameGoesOn \/ SendPatrolTick \/ ModeUnchanged
               \/ Emergency \/ NoEmergency
  PROVE  IInv'
<1> USE DEF GameGoesOn, SendPatrolTick, ModeUnchanged, Emergency, NoEmergency,
            node, drive, wait, order
<1>1. Types /\ InStep /\ Waits
      BY DEF IInv
<1>2. Types'
  <2>1. BoardOK'
        BY <1>1 DEF Types, BoardOK
  <2>2. NodeOK'
        BY <1>1 DEF Types, NodeOK
  <2>3. CountsOK'
        BY <1>1 DEF Types, CountsOK
  <2>4. FlagsOK'
        BY <1>1 DEF Types, FlagsOK
  <2> QED
      BY <2>1, <2>2, <2>3, <2>4 DEF Types
<1>3. InStep'
      BY <1>1
         DEF InStep, OrderFits, ToldTheMode, ProfileSuits, CalledInStep,
             HeldTogether
<1>4. Waits'
      BY <1>1 DEF Waits, CountTrails, OldGoalFades
<1> QED
    BY <1>2, <1>3, <1>4 DEF IInv

(* A game that is settled resets the blackboard, but no wait.              *)
LEMMA NewGameHolds ==
  ASSUME IInv, NewGame
  PROVE  IInv'
<1> USE DEF NewGame, node, drive, wait
<1>1. Types /\ InStep /\ Waits
      BY DEF IInv
<1>2. Types'
  <2>1. BoardOK'
        BY <1>1 DEF Types, BoardOK, Modes
  <2>2. NodeOK'
        BY <1>1 DEF Types, NodeOK
  <2>3. CountsOK'
        BY <1>1 DEF Types, CountsOK
  <2>4. FlagsOK'
        BY <1>1 DEF Types, FlagsOK
  <2> QED
      BY <2>1, <2>2, <2>3, <2>4 DEF Types
<1>3. InStep'
      BY <1>1
         DEF Modes, InStep, OrderFits, ToldTheMode, ProfileSuits, CalledInStep,
             HeldTogether
<1>4. Waits'
      BY <1>1 DEF Waits, CountTrails, OldGoalFades
<1> QED
    BY <1>2, <1>3, <1>4 DEF IInv

(* A mode change chooses the profile and begins a wait.                    *)
LEMMA ModeChangedHolds ==
  ASSUME IInv, ModeChanged
  PROVE  IInv'
<1> USE DEF ModeChanged, ChosenProfile, drive, order
<1>1. Types /\ InStep /\ Waits
      BY DEF IInv
<1>2. Types'
  <2>1. BoardOK'
        BY <1>1 DEF Types, BoardOK
  <2>2. NodeOK'
        BY <1>1
           DEF Types, NodeOK, Modes, Profiles, InStep, OrderFits
  <2>3. CountsOK'
        BY <1>1 DEF Types, CountsOK
  <2>4. FlagsOK'
        BY <1>1 DEF Types, FlagsOK
  <2> QED
      BY <2>1, <2>2, <2>3, <2>4 DEF Types
<1>3. InStep'
      BY <1>1
         DEF Types, BoardOK, Modes, Suits, InStep, OrderFits, ToldTheMode,
             ProfileSuits, CalledInStep, HeldTogether
<1>4. Waits'
      BY <1>1 DEF Waits, CountTrails, OldGoalFades
<1> QED
    BY <1>2, <1>3, <1>4 DEF IInv

(* One more server holds the profile.                                      *)
LEMMA CallSucceedsHolds ==
  ASSUME IInv, CallSucceeds
  PROVE  IInv'
<1> USE DEF CallSucceeds, Another, drive, wait, order
<1>1. Types /\ InStep /\ Waits
      BY DEF IInv
<1>2. Types'
  <2>1. BoardOK'
        BY <1>1 DEF Types, BoardOK
  <2>2. NodeOK'
        BY <1>1 DEF Types, BoardOK, NodeOK
  <2>3. CountsOK'
        BY <1>1 DEF Types, CountsOK
  <2>4. FlagsOK'
        BY <1>1 DEF Types, FlagsOK
  <2> QED
      BY <2>1, <2>2, <2>3, <2>4 DEF Types
<1>3. InStep'
      BY <1>1
         DEF Types, NodeOK, Modes, InStep, OrderFits, ToldTheMode,
             ProfileSuits, CalledInStep, HeldTogether
<1>4. Waits'
      BY <1>1 DEF InStep, ToldTheMode, Waits, CountTrails, OldGoalFades
<1> QED
    BY <1>2, <1>3, <1>4 DEF IInv

(* A rejected call ends the change.                                        *)
LEMMA CallRejectedHolds ==
  ASSUME IInv, CallRejected
  PROVE  IInv'
<1> USE DEF CallRejected, drive, wait, order
<1>1. Types /\ InStep /\ Waits
      BY DEF IInv
<1>2. Types'
  <2>1. BoardOK'
        BY <1>1 DEF Types, BoardOK
  <2>2. NodeOK'
        BY <1>1 DEF Types, NodeOK
  <2>3. CountsOK'
        BY <1>1 DEF Types, CountsOK
  <2>4. FlagsOK'
        BY <1>1 DEF Types, FlagsOK
  <2> QED
      BY <2>1, <2>2, <2>3, <2>4 DEF Types
<1>3. InStep'
      BY <1>1
         DEF InStep, OrderFits, ToldTheMode, ProfileSuits, CalledInStep,
             HeldTogether
<1>4. Waits'
      BY <1>1 DEF Waits, CountTrails, OldGoalFades
<1> QED
    BY <1>2, <1>3, <1>4 DEF IInv

(* A goal is kept, dropped, or sent for the last mode.                     *)
LEMMA NavigateHolds ==
  ASSUME IInv, NavigateTick
  PROVE  IInv'
<1> USE DEF NavigateTick, node, wait, order
<1>1. Types /\ InStep /\ Waits
      BY DEF IInv
<1>2. Types'
  <2>1. BoardOK'
        BY <1>1 DEF Types, BoardOK
  <2>2. NodeOK'
        BY <1>1 DEF Types, NodeOK
  <2>3. CountsOK'
        BY <1>1 DEF Types, NodeOK, CountsOK
  <2>4. FlagsOK'
        BY <1>1 DEF Types, FlagsOK
  <2> QED
      BY <2>1, <2>2, <2>3, <2>4 DEF Types
<1>3. InStep'
      BY <1>1
         DEF InStep, OrderFits, ToldTheMode, ProfileSuits, CalledInStep,
             HeldTogether
<1>4. Waits'
      BY <1>1 DEF Waits, CountTrails, OldGoalFades
<1> QED
    BY <1>2, <1>3, <1>4 DEF IInv

(* A goal ends by itself or by a cancellation.                             *)
LEMMA GoalHolds ==
  ASSUME IInv, GoalEnds \/ CancelArrives
  PROVE  IInv'
<1> USE DEF GoalEnds, CancelArrives, node, wait, order
<1>1. Types /\ InStep /\ Waits
      BY DEF IInv
<1>2. Types'
  <2>1. BoardOK'
        BY <1>1 DEF Types, BoardOK
  <2>2. NodeOK'
        BY <1>1 DEF Types, NodeOK
  <2>3. CountsOK'
        BY <1>1 DEF Types, CountsOK
  <2>4. FlagsOK'
        BY <1>1 DEF Types, FlagsOK
  <2> QED
      BY <2>1, <2>2, <2>3, <2>4 DEF Types
<1>3. InStep'
      BY <1>1
         DEF Types, NodeOK, Modes, InStep, OrderFits, ToldTheMode,
             ProfileSuits, CalledInStep, HeldTogether
<1>4. Waits'
      BY <1>1 DEF Waits, CountTrails, OldGoalFades
<1> QED
    BY <1>2, <1>3, <1>4 DEF IInv

(* A pass of the wait, or its end.                                         *)
LEMMA WaitHolds ==
  ASSUME IInv, WaitForInputPeriodTick
  PROVE  IInv'
<1> USE DEF WaitForInputPeriodTick, WaitOver, WaitOn, Still, EndWait,
            CancelAllGoals, node, drive, order
<1>1. Types /\ InStep /\ Waits
      BY DEF IInv
<1>2. Types'
  <2>1. BoardOK'
        BY <1>1 DEF Types, BoardOK
  <2>2. NodeOK'
        BY <1>1 DEF Types, NodeOK
  <2>3. CountsOK'
        BY <1>1 DEF Types, CountsOK
  <2>4. FlagsOK'
        BY <1>1 DEF Types, FlagsOK
  <2> QED
      BY <2>1, <2>2, <2>3, <2>4 DEF Types
<1>3. InStep'
      BY <1>1
         DEF InStep, OrderFits, ToldTheMode, ProfileSuits, CalledInStep,
             HeldTogether
<1>4. Waits'
      BY <1>1 DEF Types, CountsOK, Waits, CountTrails, OldGoalFades
<1> QED
    BY <1>2, <1>3, <1>4 DEF IInv

(* The nodes that choose goal, mode and spin.                              *)
LEMMA WritersHold ==
  ASSUME IInv, Writers
  PROVE  IInv'
<1> USE DEF Writers, SupplyTick, SpinControl, MissionTick, SetSpinTick,
            SetPatrolTick, node, drive, wait, order
<1>1. Types /\ InStep /\ Waits
      BY DEF IInv
<1>2. Types'
      BY <1>1, OrdersAssumption
         DEF Types, BoardOK, NodeOK, CountsOK, FlagsOK, Modes
<1>3. InStep'
      BY <1>1, OrdersAssumption
         DEF Types, NodeOK, Modes, InStep, OrderFits, ToldTheMode,
             ProfileSuits, CalledInStep, HeldTogether
<1>4. Waits'
      BY <1>1 DEF Waits, CountTrails, OldGoalFades
<1> QED
    BY <1>2, <1>3, <1>4 DEF IInv

-----------------------------------------------------------------------------
(* IInv is inductive.                                                      *)
LEMMA NextHolds == IInv /\ [Next]_vars => IInv'
<1> SUFFICES ASSUME IInv, [Next]_vars
             PROVE  IInv'
    OBVIOUS
<1>1. CASE Next
      BY <1>1, PassHolds, NewGameHolds, ModeChangedHolds, CallSucceedsHolds,
         CallRejectedHolds, NavigateHolds, GoalHolds, WaitHolds, WritersHold
         DEF Next, ChangeModeTick, CallReturns, QuietEmergencies
<1>2. CASE UNCHANGED vars
  <2> USE <1>2 DEF vars, node, drive, wait, order, IInv
  <2>1. Types'
        BY DEF Types, BoardOK, NodeOK, CountsOK, FlagsOK
  <2>2. InStep'
        BY DEF InStep, OrderFits, ToldTheMode, ProfileSuits, CalledInStep,
               HeldTogether
  <2>3. Waits'
        BY DEF Waits, CountTrails, OldGoalFades
  <2> QED
      BY <2>1, <2>2, <2>3
<1> QED
    BY <1>1, <1>2

LEMMA Invariant == Spec => []IInv
BY InitHolds, NextHolds, PTL DEF Spec

-----------------------------------------------------------------------------
(* Every variable keeps its type; no count passes the size of the wait.    *)
THEOREM TypeCorrect == Spec => []TypeOK
<1>1. IInv => TypeOK
      BY DEF IInv, Types, BoardOK, NodeOK, CountsOK, FlagsOK, Modes, TypeOK
<1> QED
    BY <1>1, Invariant, PTL

(* Whatever a rejected mode change left behind, the next one that is not   *)
(* rejected leaves all five servers with one profile of the mode the       *)
(* chassis was told in the same pass (change_mode.cpp:24-125).             *)
THEOREM ServersAgree == Spec => []ServersSuitTheChassis
<1>1. IInv => ServersSuitTheChassis
      BY DEF IInv, InStep, ToldTheMode, ProfileSuits, HeldTogether,
             ServersSuitTheChassis
<1> QED
    BY <1>1, Invariant, PTL

(* The wait after a mode change leaves no goal of the old mode behind but  *)
(* one whose cancellation is on its way, unless a new game cut into it     *)
(* (wait_for_input_period.cpp:27-46).                                      *)
THEOREM OldGoalsEnd == Spec => []OldGoalIsDropped
<1>1. IInv => OldGoalIsDropped
      BY DEF IInv, Waits, OldGoalFades, OldGoalIsDropped
<1> QED
    BY <1>1, Invariant, PTL

(* No step ends a wait before its passes but one, unless a new game began  *)
(* another mode change in the middle of it (wait_for_input_period.cpp).    *)
THEOREM WaitsAreLongEnough == Spec => WaitIsLongEnough
<1>1. IInv /\ [Next]_vars =>
        [changing /\ ~changing' => waited >= CountSize - 1 \/ interrupted]_vars
  <2> SUFFICES ASSUME IInv, Next, changing, ~changing'
               PROVE  waited >= CountSize - 1 \/ interrupted
      OBVIOUS
  <2>1. WaitOver
        BY DEF Next, GameGoesOn, NewGame, SendPatrolTick, ChangeModeTick,
               ModeUnchanged, ModeChanged, CallReturns, CallSucceeds,
               CallRejected, NavigateTick, GoalEnds, CancelArrives, Emergency,
               QuietEmergencies, WaitForInputPeriodTick, WaitOn, NoEmergency,
               Writers, SupplyTick, SpinControl, MissionTick, wait
  <2> QED
      BY <2>1 DEF WaitOver, Still, IInv, Types, CountsOK, Waits, CountTrails
<1> QED
    BY <1>1, Invariant, PTL DEF Spec, WaitIsLongEnough
=============================================================================
