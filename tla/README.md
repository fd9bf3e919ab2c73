# Auto Sentry: a TLA+ model of the sentry's decision software

Auto Sentry is the ROS 2 software of a RoboMaster sentry robot.  Lidars and
odometry feed a map and the Nav2 navigation stack; a behaviour tree decides
where to go, what to shoot at and what to buy; a serial link carries the
decisions to the micro-controller and brings the referee system's data back.
This directory models the parts that decide and communicate, checks them with
TLC and proves the main results with TLAPS.  Paths below are relative to the
repository; `BT/` stands for
`src/robot_behavior_tree/robot_behavior_tree/`.

## 1. Inventory

| component | state it keeps | operations | interacts with |
|---|---|---|---|
| decision maker (`robot_bt_decision_maker`) | the blackboard, the tree | load the tree, write the initial blackboard, tick the tree from a timer | owns every behaviour tree node |
| remote ammunition (`RecordRobotStatus`, `SendDecision`, `BuyBullet`) | running total and waiting flag on the blackboard; each node's last `Sentryinfo`; a pass counter | one tick each per pass | `Sentryinfo` in, `Decision` out, both through the serial node to the referee system |
| remote blood (`RecordRobotBlood`, `SendDecision`, `BuyBlood`) | the same for blood, a member waiting flag, the last blood seen, timers for invincibility and darts | one tick each per pass | `Sentryinfo`, `Robothp` in, `Decision` out |
| supply-zone ammunition (`RecordRobotStatus`, `BuyBulletInRecovery`) | running amount, lot, two waiting flags, RFID state | one tick each per pass | `Sentryinfo`, `Rfidstatus` in, `Decision` out |
| free ammunition and weak state (`RecordRobotStatus`) | counters of rounds free to fetch | game clock callback | `Gamestatus`, `Buff` in |
| operator's command (`RecordCommandControl`, `IfInCommand`, `WaitForGameStart`) | `in_command`, the key, a forced move's timer, two selections, each also on the blackboard | callback and tick; the reset between games | `Mapcommand` in; the missions read the goal |
| target choice (`sentry_strategy_service`) | the enemies seen by two camera systems, a held target, a delay counter, a watchdog | one service and two subscriptions | the gimbal computer asks; navigation is told whom to chase |
| serial link, receiving (`robot_serial`, `serial_pro`) | receive buffer, watchdog counter | read thread, timer, one callback per package | micro-controller; publishes nearly every topic above |
| serial link, sending (`robot_serial`) | packed structures | one subscription per topic | `Decision` and others to the micro-controller |
| navigation mode (`ChangeMode`, `WaitForInputPeriod`, `IfModeChange`, `SendPatrol`, `SetPatrol`, `SetSpin`) | mode, spin and the changing flag on the blackboard; the last mode and the limits of each node; a pass counter | one tick each per pass; five parameter services in sequence, awaited; one cancel request, not awaited | controller, navigator, cost maps, behaviour server; the chassis hears the mode |
| escape (`IfRobotStuck`, `GetOutOfStuck`, `ForceMove`) | a counter each, one of them `static`; the chosen direction; flags and "complete" on the blackboard | one tick each per pass, the last two only while the guards before them want it | `/cmd_vel`; the flags are the only link between the two nodes |
| other tree nodes (`RoutinePatrol`, tunnel nodes, ...) | a counter or a flag each, some of them `static` | one tick each | blackboard |
| navigator (`robot_bt_navigator`) | two navigators, each with a thread, tree, blackboard, current and pending goal; one muxer | goal, cancel, preempt, complete; activation and deactivation | the decision tree sends goals |
| recovery behaviours (`robot_behaviors`) | the running behaviour | action server | called by the navigator's tree |
| parameter modifier (`config_dynamic_modifier`) | regions, configurations | pose timer, parameter client | parameters of other nodes |
| lidar monitor and merging (`lidar_monitor`, the merging part of `Point-LIO`) | a watchdog per lidar, `lidar_flag` and a copy of it, the last stamp and frame accepted | one callback per scan and IMU message, a timer | scans go to Point-LIO merged, or those of one lidar alone |
| mapping and perception (`robot_mapping`, `obstacle_segmentation_tc`, `nav2_custom_costmap_plugin`) | grids and clouds | cloud callbacks | cost maps |
| vendored (`teb_local_planner`, `Point-LIO`, `rog_map`, the Livox driver) | - | - | - |

How the parts meet.  The decision maker's timer ticks the whole tree; a pass is
`WaitForGameStart`, then every `Record...` node and `SendDecision`, then the
emergencies, then one mission.  A node that listens to a topic has an executor
of its own and calls `spin_some` once per tick, so it hears at most one message
per pass and its own copy may be older than that of the node before it.  Nodes
share state through the blackboard only; several of them hold the same fact
twice, as a member and as a blackboard entry.  `robot_serial` is the gate to
the referee system in both directions; it runs a read thread beside the ROS
executor.  The strategy service is a process of its own.

### What is hard

* *Stale copies.*  Two nodes of one pass work with different `Sentryinfo`
  messages; the code has to keep them from both acting on one purchase.
* *Requests by running total.*  A purchase is asked for by raising a number
  that every `Decision` repeats.  Decisions and reports are lost or late, and a
  purchase that timed out may be granted afterwards.
* *Two topics for one fact.*  Bought blood shows as a total in one topic and as
  a rise in another; the zone's RFID message and the amount sold are separate.
* *Members that outlive the blackboard.*  Between games the blackboard is
  reset and the nodes are not.
* *Repetition.*  The referee system sends the operator's last command again and
  again; the node must tell a repetition from a new command.
* *Unsynchronised threads, damaged bytes, restarts* on the serial link.
* *Waits and watchdogs* counted in messages or passes, in several nodes.
* *Changes in several steps.*  A mode change is five calls, a flag, a wait and a
  cancellation; each can fail, be late, or be cut short by an emergency or a
  new game.
* *Two threads and an executor over one goal.*  The muxer, the action servers
  and the trees of two navigators are used from three threads.
* *Two copies of one decision.*  Whether lidars are merged is decided in two
  processes, by copies of a flag that are not updated together.

`PROJECT.json` lists each of these hazards at the line where it bites, with the
properties that look for it or the reason why none does yet.

### What makes the components correct

* Purchases: nobody pays for what was not ordered; at most one purchase is
  outstanding; an order is settled; all parties agree in the end.
* Target choice: gimbal and chassis follow the same enemy; the chase is not
  based on an old answer; waits and chases end.
* Serial link: every undamaged frame is handed on once and in order; damage
  stays local; the buffer is bounded; silence is noticed, and only silence.
* Operator's command: a commanded sentry goes where the operator says; a
  command that is given once is over some time; games are independent.
* Mode change: a goal is only driven while the five servers and the chassis work
  in the same mode; the robot waits between modes and drops the old goal.
* Escape: within a game a forced move is whole however it is interrupted, and
  is stopped before it counts as complete; a robot that stays held is moved in
  every direction the code tries.
* Navigator: a goal that is accepted gets one result, and never blocks others.
* Lidars: while one works the map is fed, by each scan once; the two processes
  agree in the end.

## 2. Modules

| module | models | lines of code it stands for |
|---|---|---|
| `Topic` | a ROS 2 subscription with keep-last history, read one message per `spin_some` | external (rclcpp), as `spin_some` is used by the nodes |
| `PurchaseContract` | the abstract specification of a purchase by running total | what `Decision.msg` and `Sentryinfo` promise |
| `RemoteAmmo` | `record_robot_status.cpp`, `send_decision.cpp`, `buy_bullet.cpp` as far as remote ammunition goes | state machine, 3 nodes + referee + links |
| `RemoteBlood` | `record_robot_blood.cpp`, `send_decision.cpp`, `buy_blood.cpp` | state machine, 3 nodes + referee + fight |
| `RecoveryAmmo` | the supply-zone part of `record_robot_status.cpp`, `buy_bullet_in_recovery.cpp` | state machine, with the sentry entering and leaving the zone |
| `SentryStrategy` | `sentry_strategy_service.cpp` | one action per callback |
| `SerialLink` | read loop and watchdog of `robot_serial.cpp`, the search of `serial_pro/listener.h` | reader, timer, line with faults, respawn |
| `CommandControl` | `record_command_control.cpp`, `wait_for_game_start.cpp`, and the tree (`BT` XML) as far as it sets the goal | pass + operator + referee + match |
| `ModeChange` | `change_mode.cpp`, `wait_for_input_period.cpp`, `if_mode_change.cpp`, `send_patrol.cpp`, `set_patrol.cpp`, `set_spin.cpp`, `is_goal_update.cpp` and the tree as far as it orders them | pass + five servers + drive + emergencies + new games |
| `GoalContract` | the abstract specification of an action server's goals | what the `nav2_msgs` actions promise a client |
| `Navigator` | `navigator.hpp`, `navigate_to_pose.cpp`, `navigate_through_poses.cpp`, `bt_navigator.cpp` | executor + two navigator threads + clients |
| `LidarMonitor` | `lidar_monitor.cpp`; the synchroniser, `lidarCallback`, `livox_pcl_cbk` and `lidarFlagCallback` of Point-LIO | two lidars + monitor + Point-LIO, in timer passes |
| `Escape` | `if_robot_stuck.cpp`, `get_out_of_stuck.cpp`, `force_move.cpp`, the guards before them and the game's reset | pass + robot, fight and game |
| `TopicTheorems` | - | lemmas about the operators of `Topic` |
| `RemoteAmmoProofs`, `RemoteBloodProofs`, `RecoveryAmmoProofs`, `ModeChangeProofs` | - | the theorems about each |
| `AimAndEscapeProofs` | - | the theorems about `SentryStrategy` and `Escape`; it extends both, which share no names |
| `CommandLinkProofs` | - | the theorems about `CommandControl` and, in its second part, `SerialLink`; it extends both likewise |
| `LidarNavigatorProofs` | - | the theorems about `LidarMonitor` and, in its second part, `Navigator`; it extends both likewise |
| `MC...` | - | constants of the runs |

**State.**  A variable carries the name of the C++ member or blackboard entry
where there is one; the comment on it says which.  Where a fact is held twice
there are two variables (`waiting` on the blackboard and `awaiting` in the node;
`inCommand` and `bbInCommand`).  Variables marked *history* are not in the code:
they count orders, lost bytes and the like for the properties.

**Actions.**  `pc` is the node of the pass that is ticked next.  One action is
one whole tick of a node, with its `spin_some`, its branches in the order of
the code, and its writes to the blackboard; the environment (referee, links,
operator, robot) moves between any two ticks.  A service or a subscription
callback of a single-threaded node is one action.  On the serial link, where
two threads share a counter, the timer's read-modify-write is two actions
(`TimerLoads`, `TimerStores`).  In `ModeChange` the tick of `ChangeMode` is one
action up to the first call and one per answer, since servers, the drive and
late cancellations go on while it waits.  In `Navigator` a thread's step is what
lies between two calls into the muxer or the action server, whose mutexes
make each of those calls one step (`OnGoalReceived`, `GoalReceived` and
`StartNavigating` are the check, the loading of the tree and the taking of
the muxer, which the code does not do under one lock).  In `LidarMonitor` each
message is one action at either process, in any order within its scan period.

**External parts** are kept as weak as the code's use of them allows: the
referee grants or ignores a request as it likes, a report reaches any subset of
its listeners, the operator presses any key at any time, bytes are lost
anywhere, and the memory behind a container that was only `reserve`d holds
anything.  A parameter server rejects any call; a cancel request arrives at any
time, also after the goal it was meant for; clients send, replace and cancel
goals as they like, and a tree runs as long as it likes.  Nav2's
`SimpleActionServer` and `BtActionServer` are not in the repository; what the
model says of them is what the navigators rely on (a pending goal per server, a
new one terminates the pending one before it, a cancellation is seen by the
thread between two ticks, deactivation waits for the thread).  Lidars fail and
return at any time, but then stay so for `Rest` passes.

Point-LIO pairs the scans of the two lidars by `message_filters`'
`ApproximateTime` policy, of which the repository holds the use only
(`laserMapping.h:367`, `laserMapping.cpp:180-183`).  The model has it hand on a
pair at once when the stamps are the same, and otherwise with the next scan of
the lidar whose stamp is the earlier one, since until then a better match might
come; so a pair comes a scan period late, or much later when that lidar falls
silent meanwhile.  The merged cloud carries the stamp of lidar 2, and is dropped
when that is older than the last one accepted; which of the two stamps of a
period is older is left open.  A pair more than 5 ms apart is never handed on.
**The model supposes that the two stamps of a period are closer than that.**
Each lidar stamps its own packets and nothing in the repository brings their
clocks together: if they drift apart, nothing is merged while both work, and no
property of `LidarMonitor` about merged scans, `MapIsFed` before all, carries
over.  The policy's queue of 10 is not modelled.  It only drops a pair that waits
for a silent lidar, and by the time that one is back Point-LIO has accepted
later scans (`HeldLong` of `LidarNavigatorProofs`), so that the pair is not
accepted either way.

**Abstractions.**  Poses, names, colours and log output are left out.  Ids of
robots are small sets; coordinates are centimetres and are kept where the code
compares them (`Differs`, `OnMap`).  A checksum tells a whole frame from
anything else.  `lost_delay_cnt` and `dog_cnt` of the strategy service are no
longer counted once they passed their limits, since nothing distinguishes
larger values; enemies' `occlusion` flags are written anew by every request
that reads them and are not kept.  Totals are unbounded numbers: the 4 and 11
bits they have on the wire belong to the sending side of the serial link,
which is not modelled (section 6).  `ModeChange` keeps of the eight limits and the frame which
profile they are from; a profile half written is `"mixed"`.  `Navigator` keeps of
a tree its file and of a pose the goal it belongs to; feedback is left out.  The
action server's own window in which it ends a goal while another arrives is
not modelled, and neither is Point-LIO's cutting and joining of frames, both
of which are off in the configuration in use.  `LidarMonitor` counts time in timer
passes and stamps in scan periods.  `Escape` reduces the distances that make
a robot held, away or at its goal to those facts; the cancel request it sends and
the navigator's own velocities are left out.

Smaller things that the actions leave out of the code they stand for:

* `LidarCallback`: `lookupTransform` (`lidar_monitor.cpp:69`) waits up to half a
  second for the transform and may throw; the model has it at hand.
* `RecoveryAmmo`: the tree has two `BuyBulletInRecovery` nodes, for lots of 80
  and 50, each with a subscription of its own; the model has one listener for both.
* `SentryStrategy`: an answer is the index of a slot, where the code answers with
  the id string stored there, which may never have been set.  The properties
  speak of slots; they do not see an answer with an undefined id.
* `SerialLink`: the exception for a negative length (`serial_pro.h:46-48`), and
  what may happen between the store of the counter and its comparison
  (`robot_serial.cpp:372-376`), which are one step.
* `ModeChange`: `cancel_all_goals` waits up to 5 s for the action server and
  returns without a request when it is not there
  (`wait_for_input_period.cpp:52-56`); the model has the server there.
* `Navigator`: each navigator has a default tree of its own; the model has one
  name, `Default`, for both, as trees of different navigators are never compared.

## 3. Runs

Every passing run checks safety and liveness together, under the fair
specification (`FairSpec`; in the four last modules `Spec` states it itself).

| run | bounds | distinct states |
|---|---|---|
| `remote_ammo` | `CountSize` 3, two-message histories on every link, 5 orders | 44 846 |
| `remote_blood` | `CountSize` 2, one-message histories, blood 0/100/400, 2 orders, 2 blows | 85 687 |
| `recovery_ammo` | `CountSize` 2, lots of 5 and 8, 2 orders, the zone entered or left twice | 250 450 |
| `sentry_strategy` | two robots, outpost and base, `LostDelay` 2, `DogThreshold` 2, one report of blood; any number of requests | 87 680 |
| `serial_link` | head 2, tail 1, data 1 or 5 bytes, reads of up to 4 bytes, 3 frames, 1 fault, `DogThreshold` 1 | 356 240 |
| `command_control` | five keys and a target, 2 goals, `CountSize` 2, two-message history, 2 commands per game, 2 games | 544 344 |
| `mode_change` | three orders (chassis, gimbal, gimbal with spin), one goal and the origin, waits of 3 passes; any number of changes, rejections, emergencies, games | 2 350 000 (about) |
| `navigator` | three goals for a pose, one of them with another tree, one through poses whose tree may not load; two of them may be cancelled; any number of activations | 261 580 |
| `lidar_monitor` | watchdogs of 3 passes, a flag every 3, a scan every 2, a change of a lidar every 12 at most; for ever | 574 762 |
| `escape` | stuck after 3 passes, moves of 5; any number of fights, goals and games | 11 792 |

* **`remote_ammo`**.  `AtMostOneUnseenGrant` and `KeepsContract`: the nodes'
  views of the referee may differ, reports and Decisions may be lost and
  purchases time out, and still no more is bought than was ordered, nor asked
  for than one above what was granted, nor granted unseen than one.
  `KeepsContract` is refinement of `PurchaseContract`.  `TotalsConverge`: when no
  more is ordered all totals agree.  Two-message histories let the two
  listeners be a whole message apart; five orders let several be raised after
  a time-out and a late grant of the one before.
* **`remote_blood`**.  `KeepsContract`, `TotalsConverge`, with the rise of blood
  that confirms a purchase hidden by blows or arriving in another pass.  The
  three levels of blood give rises below, at and above 100.
  `AtMostOneUnseenGrant` does not hold here.  `BuyBlood` raises the total from
  what it heard itself, and `RecordRobotBlood`, which may have heard less, then
  sets it back while the raised one is on the wire and may be granted: so more
  than one grant can be unknown to it, and it catches up with several at once.
  What is asked is still at most one above what the referee has granted.
* **`recovery_ammo`**.  `SalesWereOrdered`, `AsksOneLotAhead`: leaving the zone
  in the middle of an order, coming back, and ordering another size of lot never
  sell or ask for more than that.  `OrdersSettleInTheZone` assumes that the
  sentry stays in the zone in the end, as the reconciliation runs there only.
* **`sentry_strategy`**.  `ChasesTheForcedRobot`: the robot navigation chases is
  the one in the last answer.  (The first two strategies send the pose of the
  *weakest* robot with the id of the hero; they agree only because
  `sentry_strategy_service.cpp:451` replaces every blood value by 200, which
  also makes strategy 1 unreachable after the first message.  The mutant that
  believes the blood received breaks the property.)  `ChaseIsFresh`,
  `WaitHoldsATarget`, `LostWaitEnds`.  Two robots are enough for a wrong one to
  be chased; malformed messages cut at every position.
* **`serial_link`**.  `InOrderOnce`, `LossesBounded` (with no fault nothing is
  lost; a fault costs at most one frame beside the one it hits),
  `SilenceIsNoticed`; `LinkTypeOK` holds the buffer below one frame, which `push()`
  does not.  The long frame is just long enough to claim a whole short
  frame and a byte of the next one when it is cut, which is the case in which
  the search gives up an intact frame; reads of four bytes cut frames anywhere.
* **`command_control`**.  `CommandedGoal`: at the end of a pass a commanded
  sentry's goal is the operator's, or the supply zone's.  `ForceMoveEnds` and
  `QuitEnds`: a forced move ends although its key is repeated; Y ends the command
  unless the position sent with it is taken for a repetition.  Two games are
  needed for what one game leaves behind; two commands for one to interrupt the
  other.
* **`mode_change`**.  `ServersSuitTheChassis`: a goal is sent or kept only while
  the five servers hold one profile of the mode the chassis was told, whatever
  rejected changes, spins and new games came before; after a change of which a
  call was rejected it claims nothing until the next one.  `OldGoalIsDropped`:
  when the wait is over, the goal driven to is one of the new mode, or its
  cancellation is on its way.  Both name what a new game in the middle of a wait
  may do, which resets the mode and not the wait.  `WaitIsLongEnough`: however
  the emergencies cut in, a wait lasts its passes but one (see the divergences
  below for the one).  `WaitEnds`.  A wait of three passes lets a new game, an
  escape and another change fall into it.
* **`navigator`**.  `KeepsContract` is refinement of `GoalContract`: every
  accepted goal gets one result, "canceled" only when that was asked for.
  `OpenGoalsAreHeld`: the server never forgets an accepted goal nor keeps a
  finished one; `BoardIsTheGoal`: a running tree drives to the goal reported on;
  `MuxerIsHeldByARunner`: although both navigators can pass the muxer's check at
  once, it is never left taken; `CancelEnds`.  Three goals for one server are
  needed for one to be executed, one pending and one to replace it; the other
  tree for refusals; the second server for the muxer.  A cancellation of a
  pending and of a current goal are both reached.
* **`lidar_monitor`**.  `MapIsFed`: while a lidar works, Point-LIO goes without a
  scan for fewer than max(`Dog`, `PubEvery`) + 5 `ScanTicks` - 1 passes, which for
  the shipped configuration (watchdogs of 20 passes, a flag every 26, a timer of
  50 Hz, scans at 10 Hz) is at most 49 passes, 1 s, provided the lidars' stamps
  are within the synchroniser's 5 ms (section 2).  One of the five scan periods
  is what a pair costs that the synchroniser holds back.  The bound is sharp: the
  run has a state with `gap` one below it.  `OneScanTwice` and `FrameTurnsOnce`:
  what one failure or return of a lidar may disturb, with pairs handed on late
  between the clouds of one lidar.  `ImuIsThatOfTheScans`: scans and IMU come from
  one lidar in the end.  The run's watchdog is the shortest that `QuietAssumption`
  allows for its scan period, and a flag every 3 passes falls on either pass of a
  scan period.  `Rest` is the one assumption about how lidars fail: one that fails
  and returns faster than the flag is published can keep both ways closed, so
  that `MapIsFed` is not bounded without it.  `QuietAssumption` says how long
  `Rest` has to be; the run's 12 is the least it allows.
* **`escape`**.  `MovesAreWhole`: a forced move that fights, goals or a robot that
  got away interrupt is completed by `ForceMove` only when its velocity was sent
  in all its passes and a stop after them, also in a game whose predecessor left
  the static counter in mid-count.  It is *not* so for the move that the end of a
  game cuts off: `WaitForGameStart` declares it complete
  (`wait_for_game_start.cpp:105`) with no stop sent, its last velocity left as
  it was.  The history `declared` tells the two apart, and the property exempts
  that move.  `TriesThreeWays`: a sentry that
  stays held, out of fights and off its goal is moved left, backward and forward
  again and again.

Runs that find a violation, each of a statement in the repository:

| run | property | what the code does |
|---|---|---|
| `serial_link_race` | `EndsOnlyInSilence` (`robot_serial.cpp:375`) | `dog_cnt_++` and `dog_cnt_ = 0` on two threads: the process may end right after a frame |
| `command_control_newgame` | `NewGameIsFree` (`wait_for_game_start.cpp:66`) | the node's `in_command` survives the reset and is written back |

Every property of a passing run has a mutant in `PROJECT.json`: a variant of one
operator, with a bug that code might well have, under which TLC finds the
property violated in the same run.  The type invariants of `RemoteAmmo`,
`RemoteBlood` and `CommandControl` and several of their safety properties
(`GrantsWereOrdered`, `OneRaiseAtATime`, `SentRisesByOne`, `AsksOneAhead`) are
proved (section 5) and are not checked by runs as well.

### Divergences read in the code and not given a run

* `record_robot_status.cpp:97`: after a time-out the total is set back and a
  smaller one is sent, where `Decision.msg:5` asks for a monotone one.
* `record_robot_status.cpp:88,94`: the pass counter is set back by a time-out and
  not by a purchase that succeeded, so that the next one may be given up after
  fewer passes than `record_robot_status.hpp:26` and `record_robot_blood.hpp:22`
  say.
* `record_robot_blood.cpp:132`: a total set back too early and granted after all
  is caught up with at once: the Decisions say 2, 0, 2, where `Decision.msg:6`
  allows steps of one.
* `record_robot_blood.cpp:111`: the node's own waiting flag falls only with a
  rise above 100, a time-out or a mismatch, so a purchase whose report comes
  without such a rise leaves it up (the totals agree all the same:
  `TotalsConverge`).
* `record_robot_status.cpp:151`: the free rounds are counted per `Gamestatus`
  message whose remaining time is divisible by 60, not once every 60 seconds as
  the header says.
* `record_command_control.cpp:87`: a forced move's repetitions all count as new
  commands, where `record_command_control.hpp:28` promises a check for
  repetitions against just that.
* `sentry_strategy_service.cpp:474`: the delay counter is never set back, so
  only the first lost target is waited for as `sentry_strategy_service.hpp:148`
  says; a later wait ends with its first message.
* `sentry_strategy_service.cpp:225-267`: the answer that forces a lost target is
  overwritten by the branches below it, against the comment at line 220.
* `sentry_strategy_service.cpp:267`: with only the outpost or the base locked,
  aiming is switched off, though the header lists both as priorities.
* `sentry_strategy_service.cpp:390`: the last strategy walks through all robots
  seen, also those the whitelist forbids.
* `listener.h:117`: a whole frame behind an unfinished one erases the unfinished
  one as well, which `robot_sentry.h:21` says is tried again; `LossesBounded`
  says how much this can cost.
* `record_command_control.cpp:94`: the fort's selection is flipped by every
  repetition of its key.
* `record_command_control.cpp:65,111`: the timer of an earlier forced move ends
  the way home that was commanded after it; nothing ends the way home when the
  sentry is healed.  The keys in the header's comment are not the ones the code
  compares with.
* `wait_for_input_period.cpp:35,45`: the counter restarts at 1 after the first
  wait, so every later wait is one pass shorter than `change_mode.hpp:68`'s half
  second; `WaitIsLongEnough` says that it is no more than one.
* `change_mode.cpp:112`: only a change of the mode is looked at.  When spin alone
  changes, the controller keeps the limits of the profile before.
* `bt_navigator.cpp:117`: `robot_base_frame` is read when the node is configured,
  so `ChangeMode`'s second call, which sets it, has no effect on a running
  navigator.
* `navigator.hpp:249-266`: the muxer's check and its taking are two critical
  sections, so two navigators can be let through at once, against
  `navigator.hpp:47`.
* `navigate_to_pose.cpp:189-196`: the tree that is compared is that of the goal
  pending when `onPreempt` is called, the goal accepted is the one pending then.
* `navigate_to_pose.cpp` and `bt_navigator.cpp`: a goal that preempts at the last
  tick of the tree is reported as succeeded with the one before it.
* `get_out_of_stuck.cpp:51,67`: the try is counted before it is looked at, and the
  case for 0 is never reached: "right" is never tried.
* `force_move.cpp:21`: the factor is 10000 where milliseconds want 1000; a move
  takes ten times the `force_move_time` of the tree.
* `lidar_monitor.h:110`: "when the main lidar works its scans are passed on
  directly"; the code passes them on only while the other one has failed.

## 4. Fairness

In the first six modules `Spec` has none and carries the safety properties;
`FairSpec` adds weak fairness of

* every tick of the pass: the decision maker ticks the tree from a timer.  This
  supposes that no tick blocks; the one that can, `ChangeMode`'s wait for a
  service without a time-out, is listed as a hazard;
* the referee reading Decisions off the wire (it may ignore each), and the
  periodic reports: `robot_serial` publishes every package it receives;
* both topics of the strategy service, published by timers.  Nothing is assumed
  of its requests: `LostWaitEnds` has their absence as its hypothesis;
* the timer and the respawn of `robot_serial`, which the launch file asks for.
  Nothing is assumed of its read thread.

In the other modules `Spec` includes its fairness:

* `ModeChange`: the tree is ticked again and again; servers answer, either way
  (the code waits for them without a limit); games are not settled without end,
  and no emergency before the wait in the tree lasts for ever (strong fairness of
  the pass getting to it, since emergencies come and go).  Cancellations may
  stay on their way for ever.
* `Navigator`: each thread runs, and the executor comes back from a
  deactivation once the thread it waits for has ended.  A tree may run for ever.
* `LidarMonitor`: the timer runs and every message is handled, in the period it
  was sent in.  Nothing is assumed of the lidars.
* `Escape`: the tree is ticked.

Nothing is assumed of the operator, the fight, the robot's way, faults, or the
choice between missions.

## 5. Theorems

`tlapm` checks every proof to the last leaf.  The theorems hold for all values
of the constants that satisfy the named assumptions of the modules, which are
only that counts and depths are (positive) numbers and the sets have the right
elements: all histories, time-outs, numbers of orders, presses and games, all
sets of goals, lots and robots.  Only `LidarMonitor` asks for more, in
`QuietAssumption`: a watchdog runs for almost two scan periods, and a lidar that
failed or came back stays so until both copies of the flag are right again.  The
shipped numbers (20 passes, a flag every 26, a scan every 5) satisfy the first
part, 9 <= 20, and make the second 60 passes of silence or work, 1.2 s.

| theorem | says |
|---|---|
| `RemoteAmmoProofs!TypeCorrect`, `UnseenGrantBound`, `EveryGrantOrdered`, `RaiseBound`, `LegalRises` | the safety properties of `RemoteAmmo` |
| `RemoteAmmoProofs!RefinesContract` | `RemoteAmmo` implements `PurchaseContract` |
| `RemoteBloodProofs!TypeCorrect`, `EveryGrantOrdered`, `AlwaysOneAhead`, `RefinesContract` | the same for `RemoteBlood` |
| `CommandLinkProofs!TypeCorrect`, `CommandedSentryObeys` | `TypeOK` and `CommandedGoal` of `CommandControl` |
| `CommandLinkProofs!LinkTypeCorrect`, `LinkInOrderOnce`, `LinkLossesBounded` | all invariants of `SerialLink` |
| `RecoveryAmmoProofs!TypeCorrect`, `EverySaleOrdered`, `OneLotAtATime` | all safety properties of `RecoveryAmmo` |
| `LidarNavigatorProofs!TypeCorrect`, `NoGoalIsForgotten`, `MuxerIsGivenBack`, `TreeWorksOnTheGoal` | `TypeOK`, `OpenGoalsAreHeld`, `MuxerIsHeldByARunner`, `BoardIsTheGoal` |
| `LidarNavigatorProofs!RefinesContract` | `Navigator` implements `GoalContract` (`KeepsContract`) |
| `LidarNavigatorProofs!LidTypeCorrect`, `LidFed`, `LidOneScanTwice`, `LidFrameTurnsOnce` | all invariants of `LidarMonitor` |
| `ModeChangeProofs!TypeCorrect`, `ServersAgree`, `OldGoalsEnd`, `WaitsAreLongEnough` | `TypeOK`, `ServersSuitTheChassis`, `OldGoalIsDropped`, and the action property `WaitIsLongEnough` |
| `AimAndEscapeProofs!TypeCorrect`, `SameEnemy`, `FreshChase`, `WaitForATarget` | all invariants of `SentryStrategy` |
| `AimAndEscapeProofs!MoveTypeCorrect`, `CompleteMovesAreWhole` | `EscTypeOK` and `MovesAreWhole` of `Escape` |

*RemoteAmmo.*  That no more is granted than ordered does not carry over a step by
itself: it depends on what is on the wire, which depends on the blackboard, which
depends on what `RecordRobotStatus` believes.  `IInv` adds: reports reach a node
in order and never overtake the referee (`ReportsInOrder`); neither the
blackboard nor any Decision on the wire asks for more than one purchase above
what `RecordRobotStatus` knows (`RequestsInWindow`); none exceeds the orders
(`RequestsOrdered`); and the total moves in step with the pass, which is what
keeps two nodes from raising it (`PassInStep`).  One lemma per action, with the
branches of a tick as cases.

*RemoteBlood.*  Here the node that raises the total does so from what it knows
itself, and reports never run ahead of the referee (`ReportsTrail`); together
with `AsksOneAhead` and `TotalsOrdered` that is inductive.

*The contract.*  The refinement mapping takes the set of totals on the wire for
the pending requests.  A `SendDecisionTick` is `Ask`, a grant is `Grant`, a raise
is `Order`, everything else `Lose` or a stutter; `TopicTheorems` says what
publishing and reading do to the set of messages of a history.

*CommandControl.*  `CommandedGoal` speaks of the end of a pass; `IInv` says why
it holds there: the blackboard and the node agree from `RecordCommandControl`'s
tick on (`BoardAgrees`), a node that obeys a target has an operator's goal on the
blackboard (`OnCourse`), and the blackboard of a later game was reset
(`PhasesFollow`).

*Escape.*  That a complete move was whole says nothing of one under way, so
`MoveInv` says how far that one has come: its counter and the passes sent move in
step, and the last two passes stop (`MoveInStep`).  `ForceMove` would raise the
counter of a complete move, had `GetOutOfStuck` not set a flag in the same pass
(`ChosenWhenComplete`).  The end of a game, which declares any move complete, is
the step that needs it: what `sent`, `moved` and `count` are then is whatever the
move had come to, and the next move is whole because the flag sets the count
back.

*SerialLink.*  None of its properties says anything of the bytes that are still
on their way, on which all three depend.  `LinkInv` looks at buffer and line as
one `stream`, of which a read only moves the border (`ReadMoves`).  Its bytes
that were not damaged are in the order they were sent in (`Sorted`), and every
frame in it is later than all that were delivered (`Fresh`): `InOrderOnce`
follows.  For `LossesBounded` the frames are told apart by what the stream
holds of them: *complete* where all bytes follow each other, *torn* where they
can not any more.  The invariant `Cost` says that the frames lost so far **and**
those torn in the stream are together at most the faults.  A fault tears at most
one frame (`GapKeeps`, `SpoiltKeeps`) and sending none (`AddedKeeps`).  The
interesting step is the scan, which erases the whole buffer after a found frame,
and with it the beginning of a later frame that was intact.  `OneOverlooked` says
that it overlooks at most one such frame in a scan, and only because an
unfinished frame before it claims its bytes: that one is torn and is erased with
it, so what `Cost` loses on one side it gains on the other.  That a finite set
of positions can be listed in order, which the CHOOSE in `Callbacks` needs, is
proved from the least counterexample (`SortedExists`, by `WFMin`), as is that it
has a greatest element.

*RecoveryAmmo.*  The amount on the blackboard is a running total that two nodes
write: one sets it to what it knows of the sales, the other adds a lot.  What a
node knows trails the referee (`ReportsTrail`).  Both bounds, the rounds ordered
and the largest lot above what was sold, are instances of one statement about
the blackboard and the wire (`RequestsUpTo`), so that each action is reasoned
about once; a sale raises both sides.  That a finite set of lots has a largest
one (`LargestLotExists`) would be an induction; it is proved instead from a
smallest set of lots without one, which `WFMin` gives.

*Navigator.*  That no accepted goal is forgotten (`OpenGoalsAreHeld`) is not
preserved alone: the thread that goes idle drops a pending goal unless there is
none (`PendingFits`), the current goal must not be pending as well
(`HoldsNoneTwice`) nor belong to the other navigator (`HoldsItsGoals`), and the
result that closes it must be one of a tree that has returned (`TreeReturned`).
What `onPreempt` saw pending may be replaced before it acts, by a callback of
the executor: `PendingFits` promises it some goal, not the one it saw.  The
muxer's invariant rests on `HasAGoal`, and `BoardIsTheGoal` on the goal being
written to the blackboard before the muxer is taken (`BoardIsLoaded`).

*GoalContract.*  Its state is the model's own `result` and `asked`; a step that
changes neither is a stutter, the others are shown to be the contract's one by
one.  That a result is never reported twice is where `OpenGoalsAreHeld` is needed:
a result is sent for the current goal, which is open.

*ModeChange.*  The five servers are called one after another, so in the middle of
a change those called hold the chosen profile (`CalledInStep`), and outside of one
that was not rejected all do (`HeldTogether`); the profile always suits the last
mode (`ProfileSuits`) and the chassis was told that mode (`ToldTheMode`).  The
wait's counter is left at one by the wait before, and where it was by a new
game: a wait nothing cut into is at most one count ahead of its passes
(`CountTrails`), the one pass `WaitIsLongEnough` gives away, and its first pass
cancels the old goal (`OldGoalFades`).

*SentryStrategy.*  Navigation is always sent after the weakest robot, the turret
also after the hero.  That both are the same enemy holds only because the code
takes every robot to have 200 points of blood whatever it is told (`EqualBlood`):
among equals the weakest is the first, which is the hero.  `First` and `Weakest`
are CHOOSEs; that what they choose exists is proved from the least number of a
set, once more by `WFMin`.

*LidarMonitor.*  Its three properties count what happened since the last change
of a lidar; none says anything of why it can not happen again.  `LidInv` follows
a failure or return through the two processes.  The monitor: both watchdogs tell
the truth, or one does and the other's lidar is *coming*, with its first scan
not yet looked at, or *leaving*, with its counter still running (`Watched`).
What is under way: the clouds on `/livox/lidar` are of one lidar in the order of
their stamps, and that lidar is held for working (`Sorted`, `Queue`), as is one
whose scan was accepted lately (`Used`); scans of the other lidar were accepted
only by merging, before those that wait (`MergedBefore`).  Point-LIO's copy of
the flag: wrong for as long as the watchdogs take, then until the next
publication, then until it is received (`Told`), and a 0 that is right stays so
(`ToldZero`).  With that the time without a scan is bounded by which lidars work
and what the monitor holds them for, each case with a bound of its own that the
steps between the cases hand over: `OneLess` while a failure is not yet noticed,
`OneWorks` until and while the other lidar's scans are passed on, `NoneWorks`,
`BothTurns` until a return is noticed, `BothFed` until Point-LIO merges again.
`BothMerge` closes the circle: it does merge when the next failure may come,
which `QuietAssumption` is for.  `BothSettle` and `Twice` count the scans
accepted twice, since the way that closes is empty before the other opens but
for one scan.  A pair that the synchroniser holds back can come in long after the scans
it is made of were sent, so the invariant also says what is held (`Held`): one
pair at most, either of this period and complete (`HeldNow`), or of the last one,
before anything that came since is passed on (`HeldBack`), or one whose lidar
fell silent, which is too old to enter by the time that lidar is back
(`HeldLong`).  `BothApart` says that after a return what came in alone is forgotten
before scans are merged again.

Only model-checked:

* the liveness properties, `TotalsConverge`, `OrdersSettleInTheZone`, `LostWaitEnds`,
  `SilenceIsNoticed`, `ForceMoveEnds`, `QuitEnds`, `WaitEnds`, `CancelEnds`,
  `ImuIsThatOfTheScans` and `TriesThreeWays`: the provers have no ENABLED, so no
  fairness;
* the two properties that are violated.

## 6. What is not modelled, and the plan

Every invariant and action property of the passing runs is proved, and every
refinement; the liveness properties stay with TLC.

Not modelled, and why:

* The sending side of the link.  Its callbacks keep no state but the frame they
  write; what could go wrong is the width of the totals on the wire (4 and 11
  bits), at the sixteenth purchase of a game or the 2048th round, where it would
  need one module with the purchases; it is listed under hazards.
* The reset between games over the purchase modules; the timers of
  `RecordRobotBlood` (invincibility, darts) and the free rounds of
  `RecordRobotStatus`: counters no mission of the trees in use acts on.
* `RoutinePatrol` and the tunnel nodes: choice among fixed points by time and
  position; what was read of them is under hazards.
* The recovery behaviours: continuous control with one exit condition each, over
  an action server of Nav2.
* The feedback of the navigators, computed from paths and poses.
* `pointcloud_merge_node`, which no launch file starts; the cutting and joining
  of frames in Point-LIO's buffer, both off in the configuration in use; the
  rest of Point-LIO, a filter.
* Mapping, perception and planning: numerical code with no protocol to check.
* The vendored packages: `rog_map` with its copy of `fmt`, `Point-LIO` with its
  `ikd-Tree`, `teb_local_planner`, the Livox driver.  They hold most of the
  lines of the repository.
* The field by field copies of received packages into messages;
  `config_dynamic_modifier`, used between games to tune parameters.

## 7. Running

    tlc -config RemoteAmmo.cfg MCRemoteAmmo.tla      # likewise the other runs
    tlc -config Escape.cfg Escape.tla                # no MC module: LidarMonitor, Escape
    tlapm RemoteAmmoProofs.tla                       # likewise the other proofs
