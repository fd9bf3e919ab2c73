----------------------------- MODULE Navigator ------------------------------
(***************************************************************************)
(* bt_navigator: two navigators, "pose" and "poses", each with an action   *)
(* server, a behaviour tree, a blackboard and a thread of its own, and the *)
(* NavigatorMuxer both share.  The executor accepts goals, cancellations   *)
(* and changes of the node's life cycle, one callback at a time; a thread  *)
(* takes its goal through                                                  *)
(*                                                                         *)
(*   received    Navigator::onGoalReceived asks the muxer                  *)
(*   loading     goalReceived loads the tree and fills the blackboard      *)
(*   starting    the muxer is taken                                        *)
(*   loop        the tree is ticked unless a cancellation was asked for    *)
(*   onloop      onLoop, after each tick: a pending goal preempts          *)
(*   accepting, refusing   what onPreempt decided for the pending goal     *)
(*   completing  onCompletion gives the muxer back                         *)
(*   result      the action server sends the result                        *)
(*   next        the pending goal, if there is one, comes next             *)
(*                                                                         *)
(* The action server (SimpleActionServer, BtActionServer of Nav2) is not   *)
(* part of the repository.  A goal names the tree it wants, or none, which *)
(* means the default one.                                                  *)
(***************************************************************************)
CONSTANTS
  Goals,       (* the goals clients may send, each once                    *)
  Cancels,     (* those they may ask to be canceled                        *)
  NavOf,       (* goal -> the navigator it is sent to                      *)
  TreeOf,      (* goal -> behavior_tree, "" when empty                     *)
  Default,     (* the default tree                                         *)
  Loadable,    (* the trees whose files can be loaded                      *)
  Failing      (* the trees whose files may fail to load                   *)

None == "none"              (* no goal, no navigator                       *)
Navigators == {"pose", "poses"}
Trees == {TreeOf[g] : g \in Goals} \union {Default}
File(t) == IF t = "" THEN Default ELSE t

ASSUME GoalsAssumption == None \notin Goals /\ Cancels \subseteq Goals
ASSUME NavAssumption   == NavOf \in [Goals -> Navigators]
ASSUME TreeAssumption  ==
  /\ DOMAIN TreeOf = Goals /\ Default # ""
  /\ \A t \in Trees : File(t) \in Loadable \union Failing

VARIABLES
  life,        (* "active", "poses" or "pose" being deactivated, "inactive"*)
  muxer,       (* NavigatorMuxer: current_navigator_                       *)
  pc,          (* navigator -> where its thread is, "idle" without a goal  *)
  active,      (* navigator -> current goal of its action server           *)
  pending,     (* navigator -> pending goal                                *)
  tree,        (* navigator -> current BT file                             *)
  board,       (* navigator -> goal on its blackboard                      *)
  rc,          (* navigator -> what the tree returned                      *)
  result,      (* goal -> "unsent", "open" or how it ended                 *)
  asked        (* goals whose cancellation was asked for                   *)

server == <<active, pending, result>>
run    == <<tree, board, rc>>
vars   == <<life, muxer, pc, server, run, asked>>

Init ==
  /\ life = "active"
  /\ muxer = None
  /\ pc = [n \in Navigators |-> "idle"]
  /\ active = [n \in Navigators |-> None]
  /\ pending = [n \in Navigators |-> None]
  /\ tree = [n \in Navigators |-> Default]
  /\ board = [n \in Navigators |-> None]
  /\ rc = [n \in Navigators |-> "running"]
  /\ result = [g \in Goals |-> "unsent"]
  /\ asked = {}

Goto(n, l) == pc' = [pc EXCEPT ![n] = l]

-----------------------------------------------------------------------------
(* External: the action server.                                            *)
Up(n) == life = "active" \/ (n = "pose" /\ life = "poses")
ExecutorFree == life \in {"active", "inactive"}

(* terminate(): canceled when that was asked for, aborted otherwise.       *)
(* Mutant: canceled in any case.                                           *)
AllCanceled(gs, res) ==
  [g \in Goals |-> IF g \in gs THEN "canceled" ELSE res[g]]
Terminated(gs, res) ==
  [g \in Goals |-> IF g \notin gs THEN res[g]
                   ELSE IF g \in asked THEN "canceled" ELSE "aborted"]

(* Mutant: the current goal gets its result and stays.                     *)
ReportCurrent(n) ==
  result' = Terminated({active[n]}, result) /\ UNCHANGED <<active, pending>>

TerminateCurrent(n) ==
  /\ result' = Terminated({active[n]}, result)
  /\ active' = [active EXCEPT ![n] = None]
  /\ UNCHANGED pending

(* What becomes of the goal that waited.  Mutant: nobody hears of it.      *)
ForgetPending(n) == result
ReplacePending(n) == Terminated({pending[n]}, result)

(* handle_accepted: a goal that comes while one is executed waits, in the  *)
(* place of the one that waited before.                                    *)
SendGoal(g) ==
  LET n == NavOf[g] IN
  /\ ExecutorFree /\ Up(n)
  /\ result[g] = "unsent"
  /\ IF pc[n] = "idle"
       THEN /\ active' = [active EXCEPT ![n] = g]
            /\ Goto(n, "received")
            /\ result' = [result EXCEPT ![g] = "open"]
            /\ UNCHANGED pending
       ELSE /\ pending' = [pending EXCEPT ![n] = g]
            /\ result' = [ReplacePending(n) EXCEPT ![g] = "open"]
            /\ UNCHANGED <<active, pc>>
  /\ UNCHANGED <<life, muxer, run, asked>>

Cancel(g) ==
  /\ ExecutorFree
  /\ g \in Cancels \ asked /\ result[g] = "open"
  /\ asked' = asked \union {g}
  /\ UNCHANGED <<life, muxer, pc, server, run>>

(* is_cancel_requested looks at the pending goal when there is one.        *)
CancelRequested(n) ==
  \/ IF pending[n] # None THEN pending[n] \in asked ELSE active[n] \in asked
  \/ ~Up(n)

-----------------------------------------------------------------------------
(* initializeGoalPose(s).  Mutant: a preempting goal keeps the old pose.   *)
FirstPoseOnly(n, g) ==
  board' = IF pc[n] = "accepting" THEN board ELSE [board EXCEPT ![n] = g]
InitializeGoalPose(n, g) == board' = [board EXCEPT ![n] = g]

(* onGoalReceived: refused while any navigator holds the muxer.            *)
OnGoalReceived(n) ==
  /\ pc[n] = "received"
  /\ IF muxer # None
       THEN TerminateCurrent(n) /\ Goto(n, "next")
       ELSE Goto(n, "loading") /\ UNCHANGED server
  /\ UNCHANGED <<life, muxer, run, asked>>

(* goalReceived loads the tree the goal asks for.                          *)
GoalReceived(n) ==
  LET wanted == File(TreeOf[active[n]]) IN
  /\ pc[n] = "loading"
  /\ \/ /\ wanted \in Loadable
        /\ tree' = [tree EXCEPT ![n] = wanted]
        /\ InitializeGoalPose(n, active[n])
        /\ Goto(n, "starting")
        /\ UNCHANGED server
     \/ /\ wanted \in Failing
        /\ TerminateCurrent(n)
        /\ Goto(n, "next")
        /\ UNCHANGED <<tree, board>>
  /\ UNCHANGED <<life, muxer, rc, asked>>

StartNavigating(n) ==
  /\ pc[n] = "starting"
  /\ muxer' = n
  /\ Goto(n, "loop")
  /\ UNCHANGED <<life, server, run, asked>>

-----------------------------------------------------------------------------
(* External: one turn of BehaviorTreeEngine::run.                          *)
TreeCanceled(n) ==
  /\ pc[n] = "loop" /\ CancelRequested(n)
  /\ rc' = [rc EXCEPT ![n] = "canceled"]
  /\ Goto(n, "completing")
  /\ UNCHANGED <<life, muxer, server, tree, board, asked>>

TreeTicked(n) ==
  /\ pc[n] = "loop" /\ ~CancelRequested(n)
  /\ \E r \in {"running", "succeeded", "failed"} : rc' = [rc EXCEPT ![n] = r]
  /\ Goto(n, "onloop")
  /\ UNCHANGED <<life, muxer, server, tree, board, asked>>

AfterLoop(n) == IF rc[n] = "running" THEN "loop" ELSE "completing"

(* onPreempt looks at the pending goal, and then accepts or refuses the    *)
(* one that is pending by then.                                            *)
SameTree(n, g) ==
  \/ TreeOf[g] = tree[n]
  \/ TreeOf[g] = "" /\ tree[n] = Default

OnPreempt(n) ==
  /\ pc[n] = "onloop"
  /\ Goto(n, IF pending[n] = None THEN AfterLoop(n)
             ELSE IF SameTree(n, pending[n]) THEN "accepting" ELSE "refusing")
  /\ UNCHANGED <<life, muxer, server, run, asked>>

AcceptPending(n) ==
  /\ pc[n] = "accepting"
  /\ result' = [result EXCEPT ![active[n]] = "aborted"]
  /\ active' = [active EXCEPT ![n] = pending[n]]
  /\ pending' = [pending EXCEPT ![n] = None]
  /\ InitializeGoalPose(n, pending[n])
  /\ Goto(n, AfterLoop(n))
  /\ UNCHANGED <<life, muxer, tree, rc, asked>>

(* Mutant: a refused goal is left pending.                                 *)
LeavePendingGoal(n) == UNCHANGED <<result, pending>>
TerminatePendingGoal(n) ==
  /\ result' = Terminated({pending[n]}, result)
  /\ pending' = [pending EXCEPT ![n] = None]

RefusePending(n) ==
  /\ pc[n] = "refusing"
  /\ TerminatePendingGoal(n)
  /\ Goto(n, AfterLoop(n))
  /\ UNCHANGED <<life, muxer, active, run, asked>>

-----------------------------------------------------------------------------
(* stopNavigating leaves the muxer to a navigator that took it meanwhile.  *)
(* Mutant: it is not called for a canceled goal.                           *)
StopUnlessCanceled(n) ==
  muxer' = IF muxer = n /\ rc[n] # "canceled" THEN None ELSE muxer
StopNavigating(n) == muxer' = IF muxer = n THEN None ELSE muxer

OnCompletion(n) ==
  /\ pc[n] = "completing"
  /\ StopNavigating(n)
  /\ Goto(n, "result")
  /\ UNCHANGED <<life, server, run, asked>>

(* External: the result, and the end of one turn of the server's thread.   *)
SendResult(n) ==
  /\ pc[n] = "result"
  /\ result' = CASE rc[n] = "succeeded" -> [result EXCEPT ![active[n]] = "succeeded"]
                 [] rc[n] = "failed"    -> Terminated({active[n]}, result)
                 [] rc[n] = "canceled"  ->
                      Terminated({active[n], pending[n]} \ {None}, result)
  /\ active' = [active EXCEPT ![n] = None]
  /\ pending' = IF rc[n] = "canceled" THEN [pending EXCEPT ![n] = None] ELSE pending
  /\ Goto(n, "next")
  /\ UNCHANGED <<life, muxer, run, asked>>

NextGoal(n) ==
  /\ pc[n] = "next"
  /\ IF pending[n] # None /\ Up(n)
       THEN /\ active' = [active EXCEPT ![n] = pending[n]]
            /\ Goto(n, "received")
            /\ UNCHANGED result
       ELSE /\ result' = Terminated({pending[n]}, result)
            /\ Goto(n, "idle")
            /\ UNCHANGED active
  /\ pending' = [pending EXCEPT ![n] = None]
  /\ UNCHANGED <<life, muxer, run, asked>>

-----------------------------------------------------------------------------
(* The life cycle: each server in turn is told to stop, and its thread is  *)
(* waited for in the executor.                                             *)
OnDeactivate ==
  /\ life = "active"
  /\ life' = "poses"
  /\ UNCHANGED <<muxer, pc, server, run, asked>>

PosesStopped ==
  /\ life = "poses" /\ pc["poses"] = "idle"
  /\ life' = "pose"
  /\ UNCHANGED <<muxer, pc, server, run, asked>>

PoseStopped ==
  /\ life = "pose" /\ pc["pose"] = "idle"
  /\ life' = "inactive"
  /\ UNCHANGED <<muxer, pc, server, run, asked>>

OnActivate ==
  /\ life = "inactive"
  /\ life' = "active"
  /\ UNCHANGED <<muxer, pc, server, run, asked>>

-----------------------------------------------------------------------------
ThreadStep(n) ==
  \/ OnGoalReceived(n) \/ GoalReceived(n) \/ StartNavigating(n)
  \/ TreeCanceled(n) \/ TreeTicked(n)
  \/ OnPreempt(n) \/ AcceptPending(n) \/ RefusePending(n)
  \/ OnCompletion(n) \/ SendResult(n) \/ NextGoal(n)

Stopped == PosesStopped \/ PoseStopped

Next ==
  \/ \E g \in Goals : SendGoal(g) \/ Cancel(g)
  \/ \E n \in Navigators : ThreadStep(n)
  \/ OnDeactivate \/ Stopped \/ OnActivate

(* Threads run and the executor comes back from a deactivation.  A tree    *)
(* may run for ever.                                                       *)
Fairness ==
  /\ \A n \in Navigators : WF_vars(ThreadStep(n))
  /\ WF_vars(Stopped)

Spec == Init /\ [][Next]_vars /\ Fairness

-----------------------------------------------------------------------------
Running == {"loop", "onloop", "accepting", "refusing", "completing"}
Ended   == {"succeeded", "aborted", "canceled"}

(* Every variable keeps its type; a thread without a goal idles or is      *)
(* about to take the pending one.                                          *)
TypeOK ==
  /\ life \in {"active", "poses", "pose", "inactive"}
  /\ muxer \in Navigators \union {None}
  /\ pc \in [Navigators -> Running \union
          {"idle", "received", "loading", "starting", "result", "next"}]
  /\ active \in [Navigators -> Goals \union {None}]
  /\ pending \in [Navigators -> Goals \union {None}]
  /\ tree \in [Navigators -> {File(t) : t \in Trees}]
  /\ board \in [Navigators -> Goals \union {None}]
  /\ rc \in [Navigators -> {"running", "succeeded", "failed", "canceled"}]
  /\ result \in [Goals -> Ended \union {"unsent", "open"}]
  /\ asked \subseteq Goals
  /\ \A n \in Navigators : active[n] = None <=> pc[n] \in {"idle", "next"}

(* Whatever preempts, refuses, cancels or shuts down: an accepted goal     *)
(* without a result is the current or the pending goal of the navigator it *)
(* was sent to, so that no client waits for a goal the server has          *)
(* forgotten, and no goal is held after its result.                        *)
OpenGoalsAreHeld ==
  \A g \in Goals :
     result[g] = "open" <=> g \in {active[NavOf[g]], pending[NavOf[g]]}

(* The muxer names a navigator that is running: although two navigators    *)
(* can take it from each other, it is never left behind taken, which would *)
(* refuse every goal from then on.                                         *)
MuxerIsHeldByARunner == muxer # None => pc[muxer] \in Running

(* The goal on the blackboard of a running tree is the one the action      *)
(* server reports on, however often it was preempted.                      *)
BoardIsTheGoal ==
  \A n \in Navigators : pc[n] \in Running => board[n] = active[n]

(* Both navigators together keep the contract of an action server.         *)
Contract == INSTANCE GoalContract
KeepsContract == Contract!Spec

(* A goal whose cancellation was asked for ends, even behind or before a   *)
(* pending one and under a tree that never returns.                        *)
CancelEnds == \A g \in Goals : []<>(g \in asked => result[g] \in Ended)

=============================================================================
