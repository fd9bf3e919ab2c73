---------------------------- MODULE LidarMonitor ----------------------------
(***************************************************************************)
(* Two lidars, "1" (187) and "2" (104, the main one), feed Point-LIO.      *)
(* While both work, Point-LIO itself merges their scans of a period; when  *)
(* one fell silent, LidarMonitorNode passes on the scans of the other on   *)
(* /livox/lidar.  Which of the two happens is decided by lidar_flag twice: *)
(* by the monitor's own, recomputed at each pass of its timer, and by the  *)
(* copy Point-LIO holds of the one published at every PubEvery-th pass.    *)
(*                                                                         *)
(* Time is counted in passes of the timer, and stamps in scan periods      *)
(* before the current one: 0 is this period's, Old stands for all that are *)
(* too old to be under way still.  The two stamps of a period are in any   *)
(* order or equal, and within the 5 ms Point-LIO's synchroniser allows: it *)
(* never hands on a pair that is further apart, and with such lidars       *)
(* nothing would be merged.  Its queue of 10 is left out: it is longer     *)
(* than any pair waits that is accepted.  A message is handled in the      *)
(* period it was sent in, a cloud on /livox/lidar in the next one at the   *)
(* latest.  pointcloud_merge_node is not launched beside Point-LIO.        *)
(***************************************************************************)
EXTENDS Naturals, Sequences, FiniteSets

CONSTANTS
  Dog,         (* lidar_1_dog, lidar_2_dog: passes without a scan          *)
  PubEvery,    (* passes between two messages on /lidar_flag               *)
  ScanTicks,   (* passes per scan period                                   *)
  Rest         (* passes a lidar keeps silent or working, at the least     *)

ASSUME DogAssumption    == Dog \in Nat /\ PubEvery \in Nat \ {0}
ASSUME PeriodAssumption == ScanTicks \in Nat \ {0} /\ Rest \in Nat

(* The watchdog is no shorter than the time between two handled scans, and *)
(* a lidar keeps silent or working until both copies of the flag settle    *)
(* and Point-LIO accepts a scan by the way they leave.  As shipped, with   *)
(* 50 passes a second and 10 scans, Dog is 20, PubEvery 26 and ScanTicks 5 *)
(* so that Rest is to be 60, a second and a fifth.                         *)
Longest == IF Dog < PubEvery THEN PubEvery ELSE Dog

ASSUME QuietAssumption ==
  /\ 2 * ScanTicks - 1 <= Dog
  /\ Rest >= Dog + PubEvery + 3 * ScanTicks - 1
  /\ Rest >= Longest + 5 * ScanTicks - 1

Lidars == {"1", "2"}
Old    == 2
Same   == "same"

VARIABLES
  up,          (* the lidars that work                                     *)
  rest,        (* passes since one began or ceased to, at most Rest        *)
  phase,       (* pass within the scan period                              *)
  inbox,       (* this period's scans the monitor has yet to handle        *)
  mapbox,      (* those Point-LIO has yet to receive                       *)
  pair,        (* those it has received                                    *)
  held,        (* pairs its synchroniser holds back: the lidar whose next  *)
               (* scan it waits for, and their age                         *)
  cnt,         (* lidar_1_cnt_, lidar_2_cnt_, at most Dog + 1              *)
  lidar_flag,  (* the monitor's                                            *)
  pub_cnt,     (* passes since the last message on /lidar_flag             *)
  flags,       (* /lidar_flag                                              *)
  clouds,      (* /livox/lidar: whose scan it is, and its stamp            *)
  merge_flag,  (* Point-LIO's lidar_flag                                   *)
  last,        (* last_timestamp_lidar                                     *)
  frame,       (* the lidar whose frame the last scan accepted is in       *)
  imu,         (* the lidar whose IMU was last passed on                   *)
  gap,         (* history: passes since a scan was accepted, with a lidar  *)
  used,        (* history: the scans accepted, by lidar and stamp          *)
  twice,       (* history: clouds with a scan accepted before, and         *)
  turns        (* history: changes of frame, since a lidar failed or came  *)

lidars  == <<up, rest>>
monitor == <<cnt, lidar_flag, pub_cnt>>
buffer  == <<last, frame, gap, used, twice, turns>>
mapper  == <<merge_flag, buffer>>
lidVars == <<lidars, phase, inbox, mapbox, pair, held, monitor, flags,
             clouds, mapper, imu>>

LidInit ==
  /\ up = Lidars /\ rest = 0 /\ phase = 0
  /\ inbox = Lidars /\ mapbox = Lidars /\ pair = {} /\ held = {}
  /\ cnt = [l \in Lidars |-> 0]
  /\ lidar_flag = 0 /\ pub_cnt = 0
  /\ flags = <<>> /\ clouds = <<>>
  /\ merge_flag = 0 /\ last = Old /\ frame = "2" /\ imu = "2"
  /\ gap = 0 /\ used = {} /\ twice = 0 /\ turns = 0

-----------------------------------------------------------------------------
(* The lidars.  External: a lidar falls silent or works again.             *)
Fail(l) ==
  /\ l \in up /\ rest = Rest
  /\ up' = up \ {l} /\ rest' = 0
  /\ twice' = 0 /\ turns' = 0
  /\ UNCHANGED <<phase, inbox, mapbox, pair, held, monitor, flags, clouds,
                 merge_flag, last, frame, gap, used, imu>>

Recover(l) ==
  /\ l \notin up /\ rest = Rest
  /\ up' = up \union {l} /\ rest' = 0
  /\ twice' = 0 /\ turns' = 0
  /\ UNCHANGED <<phase, inbox, mapbox, pair, held, monitor, flags, clouds,
                 merge_flag, last, frame, gap, used, imu>>

-----------------------------------------------------------------------------
(* LidarMonitorNode.  A scan resets the watchdog and is passed on when the *)
(* lidar is the only one.                                                  *)
OnlyFlag(l) == IF l = "1" THEN 1 ELSE 2

(* Mutant: the main lidar's scans are passed on whenever it works.         *)
PassesOnMain(l) == lidar_flag = OnlyFlag(l) \/ (l = "2" /\ lidar_flag = 0)
PassesOn(l) == lidar_flag = OnlyFlag(l)

(* Mutant: the scan does not reset the watchdog.                           *)
LidarCallbackNoReset(l) ==
  /\ l \in inbox
  /\ inbox' = inbox \ {l}
  /\ clouds' = IF PassesOn(l)
               THEN Append(clouds, [of |-> l, stamp |-> 0]) ELSE clouds
  /\ UNCHANGED <<lidars, phase, mapbox, pair, held, monitor, flags, mapper,
                 imu>>
LidarCallback(l) ==
  /\ l \in inbox
  /\ inbox' = inbox \ {l}
  /\ cnt' = [cnt EXCEPT ![l] = 0]
  /\ clouds' = IF PassesOn(l)
               THEN Append(clouds, [of |-> l, stamp |-> 0]) ELSE clouds
  /\ UNCHANGED <<lidars, phase, mapbox, pair, held, lidar_flag, pub_cnt, flags,
                 mapper, imu>>

(* imu1Callback and imu2Callback: the main lidar's IMU is passed on unless *)
(* the other lidar is the only one.                                        *)
(* Mutant: the main lidar's IMU is forgotten when it is the only one.      *)
ImuFlagsBothOnly(l) == IF l = "1" THEN {1} ELSE {0}
ImuFlags(l) == IF l = "1" THEN {1} ELSE {0, 2}

ImuCallback(l) ==
  /\ l \in up /\ lidar_flag \in ImuFlags(l)
  /\ imu' = l
  /\ UNCHANGED <<lidars, phase, inbox, mapbox, pair, held, monitor, flags,
                 clouds, mapper>>

(* The lidars whose watchdog has not run out, and the flag for them.       *)
Heard(c) == {l \in Lidars : c[l] <= Dog}

FlagFor(heard) ==
  CASE heard = Lidars -> 0
    [] heard = {"1"}  -> 1
    [] heard = {"2"}  -> 2
    [] heard = {}     -> 3

(* timer_callback.                                                         *)
(* Mutant: the flag is published a pass late.                              *)
WatchLate ==
  LET ticked == [l \in Lidars |-> IF cnt[l] > Dog THEN cnt[l] ELSE cnt[l] + 1]
      flag   == FlagFor(Heard(ticked))
      due    == pub_cnt = PubEvery
  IN  /\ cnt' = ticked
      /\ lidar_flag' = flag
      /\ pub_cnt' = IF due THEN 0 ELSE pub_cnt + 1
      /\ flags' = IF due THEN Append(flags, flag) ELSE flags
Watch ==
  LET ticked == [l \in Lidars |-> IF cnt[l] > Dog THEN cnt[l] ELSE cnt[l] + 1]
      flag   == FlagFor(Heard(ticked))
      due    == pub_cnt + 1 = PubEvery
  IN  /\ cnt' = ticked
      /\ lidar_flag' = flag
      /\ pub_cnt' = IF due THEN 0 ELSE pub_cnt + 1
      /\ flags' = IF due THEN Append(flags, flag) ELSE flags

-----------------------------------------------------------------------------
(* Point-LIO, as far as its buffer of scans: clouds of the scans of ls,    *)
(* one of each of these stamps, in the frame of l.                         *)
Accept(ls, l, stamps) ==
  /\ last' \in stamps /\ \A s \in stamps : last' <= s
  /\ frame' = l
  /\ gap' = 0
  /\ used' = used \union (ls \X stamps)
  /\ twice' = twice +
       Cardinality({s \in stamps : (ls \X {s}) \intersect used # {}})
  /\ turns' = IF l = frame THEN turns ELSE turns + 1

(* The clouds accepted of those that come in with stamps of l: the ones    *)
(* not older than the last accepted.  Of the two stamps of a period either *)
(* may be the older one.                                                   *)
(* Mutant: none is dropped.                                                *)
FreshAnyway(l, stamps) == {stamps}
Fresh(l, stamps) ==
  {fresh \in SUBSET stamps :
     \A s \in stamps : IF s = last THEN l = frame => s \in fresh
                                   ELSE s \in fresh <=> s < last}

ComeIn(ls, l, stamps) ==
  \E fresh \in Fresh(l, stamps) :
     IF fresh = {} THEN UNCHANGED buffer ELSE Accept(ls, l, fresh)

(* The synchroniser.  l's scan completes a pair in which e's stamp is the  *)
(* earlier one, or they are the same: then it is handed on at once, else   *)
(* with e's next scan, which might match better.                           *)
Completed(l, e) == IF pair \union {l} = Lidars THEN {<<e, 0>>} ELSE {}

HandedOn(l, e) ==
  {h \in held : h[1] = l} \union {h \in Completed(l, e) : h[1] = Same}

(* lidarCallback, for the pairs handed on; the cloud has the stamp of "2". *)
ScanArrives(l) ==
  /\ l \in mapbox
  /\ mapbox' = mapbox \ {l} /\ pair' = pair \union {l}
  /\ \E e \in Lidars \union {Same} :
       /\ held' = (held \union Completed(l, e)) \ HandedOn(l, e)
       /\ IF merge_flag = 0
          THEN ComeIn(Lidars, "2", {h[2] : h \in HandedOn(l, e)})
          ELSE UNCHANGED buffer
  /\ UNCHANGED <<lidars, phase, inbox, monitor, flags, clouds, merge_flag,
                 imu>>

(* livox_pcl_cbk.                                                          *)
CloudArrives ==
  /\ clouds # <<>>
  /\ clouds' = Tail(clouds)
  /\ LET cloud == Head(clouds)
     IN  ComeIn({cloud.of}, cloud.of, {cloud.stamp})
  /\ UNCHANGED <<lidars, phase, inbox, mapbox, pair, held, monitor, flags,
                 merge_flag, imu>>

(* lidarFlagCallback.                                                      *)
FlagArrives ==
  /\ flags # <<>>
  /\ merge_flag' = Head(flags) /\ flags' = Tail(flags)
  /\ UNCHANGED <<lidars, phase, inbox, mapbox, pair, held, monitor, clouds,
                 buffer, imu>>

-----------------------------------------------------------------------------
(* The timer of the monitor fires; with the last pass of a scan period the *)
(* next scans are there, and the stamps under way are a period older.  A   *)
(* pair that would be dropped when it comes in is forgotten.               *)
Older(s) == IF s < Old THEN s + 1 ELSE Old

GapCap == 2 * (Dog + PubEvery + 3 * ScanTicks)   (* gap stays at it      *)

Passed ==
  /\ gap' = IF up = {} THEN 0 ELSE IF gap < GapCap THEN gap + 1 ELSE gap
  /\ rest' = IF rest < Rest THEN rest + 1 ELSE rest
  /\ UNCHANGED <<up, merge_flag, frame, twice, turns, imu>>

Tick ==
  /\ phase < ScanTicks - 1
  /\ phase' = phase + 1
  /\ Watch /\ Passed
  /\ UNCHANGED <<inbox, mapbox, pair, held, clouds, last, used>>

NextPeriod ==
  /\ phase = ScanTicks - 1
  /\ inbox = {} /\ mapbox = {} /\ flags = <<>>
  /\ \A i \in DOMAIN clouds : clouds[i].stamp = 0
  /\ phase' = 0
  /\ inbox' = up /\ mapbox' = up /\ pair' = {}
  /\ held' = {<<h[1], Older(h[2])>> : h \in {k \in held : k[2] <= last}}
  /\ clouds' = [i \in DOMAIN clouds |-> [clouds[i] EXCEPT !.stamp = 1]]
  /\ last' = Older(last)
  /\ used' = {<<l, 1>> : l \in {k \in Lidars : <<k, 0>> \in used}}
  /\ Watch /\ Passed

LidNext ==
  \/ \E l \in Lidars : \/ Fail(l) \/ Recover(l)
                      \/ LidarCallback(l) \/ ImuCallback(l) \/ ScanArrives(l)
  \/ CloudArrives \/ FlagArrives \/ Tick \/ NextPeriod

(* The timer goes on, and what a working lidar sends is handled.           *)
LidFairness ==
  /\ WF_lidVars(Tick) /\ WF_lidVars(NextPeriod)
  /\ WF_lidVars(CloudArrives) /\ WF_lidVars(FlagArrives)
  /\ \A l \in Lidars :
       /\ WF_lidVars(LidarCallback(l)) /\ WF_lidVars(ImuCallback(l))
       /\ WF_lidVars(ScanArrives(l))

LidSpec == LidInit /\ [][LidNext]_lidVars /\ LidFairness

-----------------------------------------------------------------------------
(* Types.  No scan older than a period is accepted, however long the       *)
(* synchroniser held its pair back.                                        *)
LidTypeOK ==
  /\ up \subseteq Lidars /\ rest \in 0 .. Rest /\ phase \in 0 .. ScanTicks - 1
  /\ inbox \subseteq Lidars /\ mapbox \subseteq Lidars /\ pair \subseteq Lidars
  /\ held \subseteq Lidars \X (0 .. Old)
  /\ cnt \in [Lidars -> 0 .. Dog + 1] /\ lidar_flag \in 0 .. 3
  /\ pub_cnt \in 0 .. PubEvery - 1
  /\ flags \in Seq(0 .. 3) /\ merge_flag \in 0 .. 3
  /\ clouds \in Seq([of : Lidars, stamp : 0 .. 1])
  /\ last \in 0 .. Old /\ frame \in Lidars /\ imu \in Lidars
  /\ gap \in 0 .. GapCap /\ used \subseteq Lidars \X (0 .. 1)
  /\ twice \in Nat /\ turns \in Nat

(* While a lidar works, Point-LIO goes without a scan no longer than it    *)
(* takes to miss a lidar, or to publish that it is back, and for the next  *)
(* pair to come in: the two copies of the flag never leave both ways       *)
(* closed for longer, with a pair held back for a lidar that fell silent.  *)
MapIsFed == gap < Longest + 5 * ScanTicks - 1

(* A failure or return of a lidar lets at most one scan enter Point-LIO by *)
(* both ways, merged and alone.                                            *)
OneScanTwice == twice <= 1

(* Each change of frame makes Point-LIO restart from another initial pose. *)
(* A failure or return of a lidar causes one; a scan that entered twice    *)
(* may take the frame back and forth once more, and nothing else does.     *)
FrameTurnsOnce == turns <= 1 + 2 * twice

(* Once lidars stop failing and returning and one of them works, the scans *)
(* Point-LIO accepts and the IMU messages passed on come from the same     *)
(* lidar for good, which takes both copies of the flag to settle.          *)
ImuIsThatOfTheScans ==
  \A ls \in SUBSET Lidars \ {{}} : <>[](up = ls) => <>[](imu = frame)
=============================================================================
