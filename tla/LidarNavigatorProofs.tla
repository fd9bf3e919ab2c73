------------------------ MODULE LidarNavigatorProofs ------------------------
(***************************************************************************)
(* The navigation side, for every size of its parameters.                  *)
(*                                                                         *)
(* First the lidars: Point-LIO keeps being fed, and never with one scan    *)
(* twice or in frames that change more than once, when one of the two      *)
(* fails or comes back.  Each of these depends on how far the two copies   *)
(* of lidar_flag can be apart, so LidInv says what the monitor knows of    *)
(* the lidars, what Point-LIO has been told of that, what is under way     *)
(* between the two, and when the next scan is due, by which lidars work;   *)
(* and, as Point-LIO's synchroniser may hand on a pair of scans a period   *)
(* late, which pairs it holds back (Held) and which of them may still be   *)
(* accepted when the flag or the lidars change (BothApart).                *)
(*                                                                         *)
(* Then the navigators, which keep the contract of an action server for    *)
(* every set of goals and trees.  That no accepted goal is forgotten       *)
(* depends on what the threads know of the goals: an idle thread leaves    *)
(* none behind (PendingFits), no goal is held twice or by the wrong        *)
(* navigator, and the result that is sent is one of a tree that has        *)
(* returned (TreeReturned).                                                *)
(***************************************************************************)
EXTENDS LidarMonitor, Navigator, FiniteSetTheorems, TLAPS

-----------------------------------------------------------------------------
(* THE LIDARS                                                              *)

Other(l) == IF l = "1" THEN "2" ELSE "1"

(* The monitor holds l for working.                                        *)
On(l) == lidar_flag \in {0, OnlyFlag(l)}

(* A period more, for what is of the last period or not yet handled.       *)
Late(b) == IF b THEN ScanTicks ELSE 0

(* The scans on /livox/lidar.                                              *)
waiting == {<<clouds[i].of, clouds[i].stamp>> : i \in DOMAIN clouds}

(* This period's scans, received by Point-LIO or not: the monitor has yet  *)
(* to handle some of them.  A lidar that works has none there, and one     *)
(* that does not has one, only if it came or failed in this period.        *)
Scans ==
  /\ inbox \subseteq mapbox \union pair /\ mapbox \intersect pair = {}
  /\ \A l \in Lidars :
       IF l \in up
       THEN l \notin mapbox \union pair => rest <= phase /\ ~On(l)
       ELSE l \in mapbox \union pair => rest <= phase

(* The watchdogs.  What the monitor holds l for is what it is, and a scan  *)
(* keeps its count from running out;                                       *)
Settled(l) ==
  IF l \in up
  THEN On(l) /\ cnt[l] <= phase + Late(l \in inbox)
  ELSE ~On(l) /\ cnt[l] = Dog + 1 /\ l \notin mapbox \union pair

(* l is back and its first scan not yet handled, or no pass was since;     *)
Coming(l) ==
  /\ l \in up /\ ~On(l)
  /\ \/ /\ cnt[l] = Dog + 1 /\ rest <= phase + Late(l \in inbox)
        /\ l \in mapbox \union pair => l \in inbox
     \/ /\ cnt[l] = 0 /\ l \in mapbox \union pair /\ l \notin inbox
        /\ rest <= phase + ScanTicks

(* l is gone and its count still runs.                                     *)
Leaving(l) ==
  /\ l \notin up /\ On(l)
  /\ cnt[l] <= Dog /\ rest <= cnt[l] + ScanTicks - 1
  /\ rest <= phase =>
       l \in mapbox \union pair /\ cnt[l] <= phase + Late(l \in inbox)

(* Only one of the two is ever in doubt.                                   *)
Watched ==
  \A l \in Lidars :
     Settled(l) \/ ((Coming(l) \/ Leaving(l)) /\ Settled(Other(l)))

(* The scans on /livox/lidar are of one lidar, the older ones first.       *)
Sorted ==
  \A i \in DOMAIN clouds, j \in DOMAIN clouds : i < j =>
     clouds[i].of = clouds[j].of /\ clouds[i].stamp > clouds[j].stamp

(* A lidar whose scan is on the topic is on, and was heard when it was     *)
(* scanned;                                                                *)
Queue ==
  \A l \in Lidars, s \in 0 .. 1 : <<l, s>> \in waiting =>
     /\ On(l) /\ cnt[l] <= phase + Late(s = 1)
     /\ s = 0 => l \notin inbox

(* so was one whose scan Point-LIO accepted; if that scan was not merged,  *)
(* it came from the topic, and what waits there is newer.                  *)
Used ==
  \A l \in Lidars, s \in 0 .. 1 : <<l, s>> \in used =>
    /\ On(l) /\ cnt[l] <= phase + Late(s = 1 \/ l \in inbox)
    /\ <<Other(l), s>> \notin used =>
         /\ s = 0 => l \notin inbox
         /\ \A t \in 0 .. 1 : <<l, t>> \in waiting => t < s

(* Scans of this period are all received once both were accepted.          *)
MergedLast == (\A l \in Lidars : <<l, 0>> \in used) => mapbox = {}

(* When l's scans wait on the topic, one of the other lidar was accepted   *)
(* only as a part of a merged scan, and not after those that wait.         *)
MergedBefore ==
  \A l \in Lidars, s \in 0 .. 1, t \in 0 .. 1 :
     <<l, t>> \in waiting /\ <<Other(l), s>> \in used =>
       <<l, s>> \in used /\ s <= t

(* This period's scans are accepted both or neither,                       *)
Paired == (<<"1", 0>> \in used) <=> (<<"2", 0>> \in used)

(* and so were those of the last.                                          *)
WerePaired == (<<"1", 1>> \in used) <=> (<<"2", 1>> \in used)

(* The last scan accepted is in the frame of its lidar, and was accepted   *)
(* in a period it is of, or the one after.                                 *)
LastUsed == last < Old =>
  <<frame, last>> \in used /\ gap <= phase + Late(last = 1)

(* Pairs held back.  There is one at most: one of this period, complete,   *)
(* and not accepted by Point-LIO;                                          *)
HeldNow == \A l \in Lidars : <<l, 0>> \in held =>
  pair = Lidars /\ ~(Lidars \X {0} \subseteq used)

(* or one of the last, of which neither lidar is missed yet, and no scan   *)
(* of this period is passed on;                                            *)
HeldBack == \A l \in Lidars : <<l, 1>> \in held =>
  /\ l \notin pair /\ ~(Lidars \X {1} \subseteq used)
  /\ lidar_flag = 0 /\ Paired
  /\ \A k \in Lidars :
       /\ cnt[k] <= phase + ScanTicks /\ <<k, 0>> \notin waiting
       /\ k \notin up => last = 0 \/ rest <= gap + ScanTicks
       /\ twice = 1 => <<k, 1>> \notin used

(* or one whose lidar fell silent, which is overtaken before that is back. *)
HeldLong == \A l \in Lidars : <<l, Old>> \in held =>
  /\ l \notin mapbox \union pair
  /\ last < Old \/ (l \notin up /\ up # {} /\ rest <= gap + ScanTicks)

Held ==
  /\ \A g \in held, h \in held : g = h
  /\ HeldNow /\ HeldBack /\ HeldLong

(* How long after a failure or a return the monitor's flag may be wrong;   *)
Settling ==
  IF up = Lidars THEN 2 * ScanTicks - 1 ELSE Dog + ScanTicks - 1

(* the last flag published, received or not;                               *)
latest == IF flags = <<>> THEN merge_flag ELSE flags[Len(flags)]

(* and how long what was published, is under way, or is Point-LIO's copy   *)
(* may be.                                                                 *)
Told ==
  /\ latest # FlagFor(up) => rest <= Settling + pub_cnt
  /\ \A i \in DOMAIN flags :
       flags[i] # FlagFor(up) => rest <= Settling + phase
  /\ merge_flag # FlagFor(up) => rest <= Settling + PubEvery + phase

(* While both work, what is told of that is true and stays so.             *)
ToldZero == up = Lidars =>
  /\ merge_flag = 0 => lidar_flag = 0 /\ \A i \in DOMAIN flags : flags[i] = 0
  /\ \A i \in DOMAIN flags : flags[i] = 0 =>
       lidar_flag = 0 /\ \A j \in DOMAIN flags : i <= j => flags[j] = 0

(* A match of this period is under way, or held back;                      *)
Matching == mapbox # {} \/ \E l \in Lidars : <<l, 0>> \in held

(* one of the last period is to be handed in in this.                      *)
Returning == \E l \in mapbox : <<l, 1>> \in held

(* Point-LIO merges: a scan was accepted in this period, or will be in the *)
(* next at the latest.                                                     *)
Merging ==
  \/ gap <= phase
  \/ Matching /\ gap <= phase + ScanTicks
  \/ Returning /\ gap <= phase + 2 * ScanTicks

(* x passes went by without a scan, of c and those a period takes; or the  *)
(* next is still to be handled by the monitor, or waits on the topic.      *)
Due(x, k, c) ==
  \/ x <= c + phase
  \/ k \in inbox /\ x <= c + ScanTicks + phase
  \/ \E l \in Lidars, s \in 0 .. 1 :
       <<l, s>> \in waiting /\ x <= c + ScanTicks + phase + Late(s = 1)

(* One lidar is gone and the monitor has not missed it: nothing is passed  *)
(* on, and Point-LIO waits for matches that end with the failure.          *)
OneLess == up # Lidars /\ lidar_flag = 0 =>
  /\ merge_flag = 0 /\ \A i \in DOMAIN flags : flags[i] = 0
  /\ waiting = {} /\ Paired /\ WerePaired /\ frame = "2" /\ turns = 0
  /\ rest <= phase => Merging
  /\ rest > phase => \A l \in Lidars \ up : gap <= cnt[l] + 2*ScanTicks - 1

(* Both work again.  What was passed on of the one alone comes in soon     *)
(* after the return, long before Point-LIO may be told to merge;           *)
BothSettle == up = Lidars =>
  /\ \A l \in Lidars, s \in 0 .. 1 :
       <<l, s>> \in waiting => rest <= phase + ScanTicks + Late(s = 1)
  /\ ~Paired => rest <= phase + ScanTicks
  /\ \A s \in 0 .. 1 : Lidars \X {s} \subseteq used => merge_flag = 0

(* and what has come in alone is forgotten as soon;                        *)
BothApart == up = Lidars =>
  /\ ~WerePaired => rest <= phase + 2 * ScanTicks
  /\ frame = "1" /\ last < Old =>
       rest <= phase + ScanTicks + Late(last = 1)

(* the frame is that of the lidar that worked alone until merged scans     *)
(* follow, and changes with the first of them if at all;                   *)
BothTurns == up = Lidars =>
  /\ \A k \in Lidars :
       lidar_flag = OnlyFlag(k) => frame = k /\ turns = 0 /\ Due(gap, k, 0)
  /\ \A s \in 0 .. 1 : <<"2", s>> \in waiting => frame = "2"
  /\ \A s \in 0 .. 1 : <<"1", s>> \in waiting /\ frame = "2" => last < Old
  /\ turns <= 2 * twice + (IF frame = "1" THEN 0 ELSE 1)

(* Point-LIO merges by the time the next failure may come;                 *)
BothMerge == up = Lidars =>
  \/ frame = "2" /\ Merging
  \/ rest <= 2*ScanTicks - 1 + PubEvery + phase
  \/ Matching /\ rest <= 3*ScanTicks - 1 + PubEvery + phase
  \/ Returning /\ rest <= 4*ScanTicks - 1 + PubEvery + phase

(* and until then it lacks a scan for as long as the flag takes to be      *)
(* published and received, and the match after it.                         *)
BothFed == up = Lidars /\ lidar_flag = 0 =>
  \/ \E l \in Lidars, s \in 0 .. 1 :
       <<l, s>> \in waiting /\ gap <= ScanTicks + phase + Late(s = 1)
  \/ latest # 0 /\ gap <= 2*ScanTicks - 1 + pub_cnt
  \/ latest = 0 /\ gap <= 2*ScanTicks - 1 + PubEvery + phase
  \/ merge_flag = 0 /\ Matching /\ gap <= 3*ScanTicks - 1 + PubEvery + phase
  \/ merge_flag = 0 /\ Returning /\ gap <= 4*ScanTicks - 1 + PubEvery + phase

(* A scan is accepted twice once at most, at the switch to merging.        *)
Twice ==
  \/ twice = 0
  \/ twice = 1 /\ up = Lidars /\ lidar_flag = 0 /\ waiting = {} /\ Paired

(* One works.  Its scans come regularly and in its frame, or its watchdog  *)
(* and its next scan are yet to come; without a flag for either lidar it   *)
(* came just now.                                                          *)
OneWorks == \A k \in Lidars : up = {k} =>
  /\ turns = 0 \/ (turns = 1 /\ frame = k)
  /\ (frame = k /\ Due(gap, k, 0)) \/ Due(rest, k, Dog + ScanTicks - 1)
  /\ lidar_flag = OnlyFlag(k) => Due(gap, k, Dog + 2*ScanTicks - 1)
  /\ lidar_flag = 3 => gap <= rest

(* None works: no pass counts, and the frame is that of the last to fail.  *)
NoneWorks == up = {} =>
  /\ turns = 0 /\ gap <= 3 * ScanTicks - 1 /\ (rest > 0 => gap = 0)
  /\ \A l \in Lidars : lidar_flag = OnlyFlag(l) => frame = l

LidInv ==
  /\ LidTypeOK /\ Scans /\ Watched
  /\ Sorted /\ Queue /\ Used /\ MergedLast /\ MergedBefore /\ LastUsed /\ Held
  /\ Told /\ ToldZero /\ OneLess
  /\ BothSettle /\ BothApart /\ BothTurns /\ BothMerge /\ BothFed
  /\ Twice /\ OneWorks /\ NoneWorks

LidBounds ==
  /\ ScanTicks \in Nat /\ ScanTicks >= 1 /\ Dog \in Nat
  /\ PubEvery \in Nat /\ PubEvery >= 1 /\ Rest \in Nat

(* The assumptions on the constants, as numbers.                           *)
LEMMA LidBoundsHold == LidBounds
  BY DogAssumption, PeriodAssumption DEF LidBounds

(* The values of lidar_flag.                                               *)
LEMMA FlagForType == \A h \in SUBSET Lidars : FlagFor(h) \in 0 .. 3
  BY DEF FlagFor, Lidars

(* Which lidars heard give which.                                          *)
LEMMA FlagForValues ==
  FlagFor(Lidars) = 0 /\ FlagFor({"1"}) = 1 /\ FlagFor({"2"}) = 2
    /\ FlagFor({}) = 3
<1>1. Lidars # {"1"} /\ Lidars # {"2"} /\ Lidars # {} /\ {"1"} # {"2"}
        /\ {"1"} # {} /\ {"2"} # {}
  BY DEF Lidars
<1> QED BY <1>1 DEF FlagFor

(* The types hold when the nodes start.                                    *)
LEMMA LidTypesInit == LidInit => LidTypeOK
<1> SUFFICES ASSUME LidInit PROVE LidTypeOK OBVIOUS
<1>1. LidBounds BY LidBoundsHold
<1>2. GapCap \in Nat BY <1>1 DEF LidBounds, GapCap
<1> QED BY <1>1, <1>2 DEF LidInit, LidTypeOK, LidBounds, Lidars, Old

(* A pass of timer_callback keeps the types of the monitor's state.        *)
LEMMA PassTypes ==
  ASSUME LidTypeOK, Watch, Passed
  PROVE  /\ cnt' \in [Lidars -> 0 .. Dog + 1] /\ lidar_flag' \in 0 .. 3
         /\ pub_cnt' \in 0 .. PubEvery - 1 /\ flags' \in Seq(0 .. 3)
         /\ rest' \in 0 .. Rest /\ gap' \in 0 .. GapCap
<1> DEFINE ticked == [l \in Lidars |-> IF cnt[l] > Dog THEN cnt[l]
  ELSE cnt[l] + 1]
           flag   == FlagFor(Heard(ticked))
<1>1. LidBounds BY LidBoundsHold
<1>2. GapCap \in Nat BY <1>1 DEF LidBounds, GapCap
<1>3. ticked \in [Lidars -> 0 .. Dog + 1]
  BY <1>1 DEF LidTypeOK, LidBounds
<1>4. flag \in 0 .. 3 BY FlagForType DEF Heard
<1>5. cnt' = ticked /\ lidar_flag' = flag
      /\ pub_cnt' = (IF pub_cnt + 1 = PubEvery THEN 0 ELSE pub_cnt + 1)
      /\ flags' = (IF pub_cnt + 1 = PubEvery THEN Append(flags, flag)
           ELSE flags)
  BY DEF Watch
<1> HIDE DEF ticked, flag
<1>6. cnt' \in [Lidars -> 0 .. Dog + 1] /\ lidar_flag' \in 0 .. 3
  BY <1>3, <1>4, <1>5
<1>7. pub_cnt' \in 0 .. PubEvery - 1
  BY <1>1, <1>5 DEF LidTypeOK, LidBounds
<1>8. flags' \in Seq(0 .. 3)
  BY <1>4, <1>5 DEF LidTypeOK
<1>9. rest' \in 0 .. Rest
  BY <1>1 DEF Passed, LidTypeOK, LidBounds
<1>10. gap' \in 0 .. GapCap
  BY <1>2 DEF Passed, LidTypeOK
<1> QED BY <1>6, <1>7, <1>8, <1>9, <1>10

(* How many of the ages of a scan that is still under way.                 *)
LEMMA CountAges ==
  /\ Cardinality({}) = 0 /\ Cardinality({0, 1}) = 2
  /\ \A s \in Nat : Cardinality({s}) = 1
  /\ \A S \in SUBSET (0 .. 1) : S \in {{}, {0}, {1}, {0, 1}}
  /\ \A S \in SUBSET (0 .. 1) : Cardinality(S) \in 0 .. 2
<1>1. Cardinality({}) = 0 /\ IsFiniteSet({})
  BY FS_EmptySet
<1>2. \A s \in Nat : Cardinality({s}) = 1 /\ IsFiniteSet({s})
  BY FS_Singleton
<1>3. Cardinality({0, 1}) = 2
  <2>1. Cardinality({0} \union {1}) = Cardinality({0}) + 1
    BY <1>2, FS_AddElement
  <2>2. {0} \union {1} = {0, 1} OBVIOUS
  <2>3. Cardinality({0}) = 1 BY <1>2
  <2> QED BY <2>1, <2>2, <2>3
<1>4. ASSUME NEW S \in SUBSET (0 .. 1) PROVE S \in {{}, {0}, {1}, {0, 1}}
  <2>1. \A s \in S : s = 0 \/ s = 1 OBVIOUS
  <2>2. CASE 0 \in S /\ 1 \in S
    <3>1. S = {0, 1} BY <2>1, <2>2
    <3> QED BY <3>1
  <2>3. CASE 0 \in S /\ 1 \notin S
    <3>1. S = {0} BY <2>1, <2>3
    <3> QED BY <3>1
  <2>4. CASE 0 \notin S /\ 1 \in S
    <3>1. S = {1} BY <2>1, <2>4
    <3> QED BY <3>1
  <2>5. CASE 0 \notin S /\ 1 \notin S
    <3>1. S = {} BY <2>1, <2>5
    <3> QED BY <3>1
  <2> QED BY <2>2, <2>3, <2>4, <2>5
<1>5. ASSUME NEW S \in SUBSET (0 .. 1) PROVE Cardinality(S) \in 0 .. 2
  <2>1. Cardinality({0}) = 1 /\ Cardinality({1}) = 1 BY <1>2
  <2>2. \/ Cardinality(S) = Cardinality({})
        \/ Cardinality(S) = Cardinality({0})
        \/ Cardinality(S) = Cardinality({1})
        \/ Cardinality(S) = Cardinality({0, 1})
    BY <1>4, Zenon
  <2>3. Cardinality(S) \in {0, 1, 2}
    BY <1>1, <1>3, <2>1, <2>2
  <2> QED BY <2>3
<1> QED BY <1>1, <1>2, <1>3, <1>4, <1>5

(* So do clouds accepted, of what Point-LIO keeps of the clouds.           *)
LEMMA AcceptTypes ==
  ASSUME LidTypeOK, NEW ls \in SUBSET Lidars, NEW S \in SUBSET (0 .. 1),
         NEW l \in Lidars,
         Accept(ls, l, S)
  PROVE  /\ last' \in 0 .. Old /\ frame' \in Lidars /\ gap' \in 0 .. GapCap
         /\ used' \subseteq Lidars \X (0 .. 1) /\ twice' \in Nat
         /\ turns' \in Nat
<1>1. LidBounds BY LidBoundsHold
<1>2. GapCap \in Nat BY <1>1 DEF LidBounds, GapCap
<1>3. used' \subseteq Lidars \X (0 .. 1)
  BY DEF Accept, LidTypeOK
<1>4. twice' \in Nat
  <2> DEFINE T == {s \in S : (ls \X {s}) \intersect used # {}}
  <2>1. T \in SUBSET (0 .. 1) OBVIOUS
  <2>2. twice' = twice + Cardinality(T) BY DEF Accept
  <2> HIDE DEF T
  <2>3. Cardinality(T) \in 0 .. 2 BY <2>1, CountAges
  <2> QED BY <2>2, <2>3 DEF LidTypeOK
<1>5. turns' \in Nat
  BY DEF Accept, LidTypeOK
<1>6. last' \in 0 .. Old
  BY DEF Accept, Old
<1> QED BY <1>2, <1>3, <1>4, <1>5, <1>6 DEF Accept

(* And so do clouds that come in.                                          *)
LEMMA ComeInTypes ==
  ASSUME LidTypeOK, NEW ls \in SUBSET Lidars, NEW S \in SUBSET (0 .. 1),
         NEW l \in Lidars,
         ComeIn(ls, l, S)
  PROVE  /\ last' \in 0 .. Old /\ frame' \in Lidars /\ gap' \in 0 .. GapCap
         /\ used' \subseteq Lidars \X (0 .. 1) /\ twice' \in Nat
         /\ turns' \in Nat
<1>1. CASE UNCHANGED buffer
  BY <1>1 DEF LidTypeOK, buffer
<1>2. ASSUME NEW fresh \in SUBSET S, Accept(ls, l, fresh)
      PROVE  /\ last' \in 0 .. Old /\ frame' \in Lidars
             /\ gap' \in 0 .. GapCap /\ used' \subseteq Lidars \X (0 .. 1)
             /\ twice' \in Nat /\ turns' \in Nat
  BY <1>2, AcceptTypes
<1> QED BY <1>1, <1>2 DEF ComeIn, Fresh

(* The pairs the synchroniser hands on are of this period or the last.     *)
LEMMA HandedAges ==
  ASSUME LidTypeOK, HeldLong, NEW l \in Lidars, l \in mapbox,
         NEW e \in Lidars \union {Same}
  PROVE  /\ {h[2] : h \in HandedOn(l, e)} \in SUBSET (0 .. 1)
         /\ (held \union Completed(l, e)) \ HandedOn(l, e)
               \subseteq Lidars \X (0 .. Old)
<1>1. ASSUME NEW h \in held, h[1] = l PROVE h[2] \in 0 .. 1
  <2>1. h = <<l, h[2]>> /\ h[2] \in 0 .. Old BY <1>1 DEF LidTypeOK
  <2>2. h[2] # Old BY <1>1, <2>1 DEF HeldLong
  <2> QED BY <2>1, <2>2 DEF Old
<1>2. ASSUME NEW h \in Completed(l, e) PROVE h = <<e, 0>>
  BY <1>2 DEF Completed
<1>3. ASSUME NEW h \in HandedOn(l, e) PROVE h[2] \in 0 .. 1
  <2>1. CASE h \in held /\ h[1] = l BY <1>1, <2>1
  <2>2. CASE h \in Completed(l, e)
    <3>1. h = <<e, 0>> BY <1>2, <2>2
    <3> QED BY <3>1
  <2> QED BY <1>3, <2>1, <2>2 DEF HandedOn
<1>4. ASSUME NEW h \in (held \union Completed(l, e)) \ HandedOn(l, e)
      PROVE  h \in Lidars \X (0 .. Old)
  <2>1. CASE h \in held BY <2>1 DEF LidTypeOK
  <2>2. CASE h \in Completed(l, e)
    <3>1. h = <<e, 0>> BY <1>2, <2>2
    <3>2. e # Same BY <1>4, <2>2, <3>1 DEF HandedOn
    <3> QED BY <3>1, <3>2 DEF Old
  <2> QED BY <1>4, <2>1, <2>2
<1> QED BY <1>3, <1>4

(* The clouds.                                                             *)
Clouds == [of : Lidars, stamp : 0 .. 1]
(* A cloud keeps its type as it is sent and as it ages.                    *)
LEMMA CloudTypes ==
  /\ LidTypeOK => clouds \in Seq(Clouds)
  /\ \A c \in Clouds : c.of \in Lidars /\ c.stamp \in 0 .. 1
  /\ \A l \in Lidars : [of |-> l, stamp |-> 0] \in Clouds
  /\ \A c \in Clouds :
       [c EXCEPT !.stamp = 1] \in Clouds /\ [c EXCEPT !.stamp = 1].of = c.of
         /\ [c EXCEPT !.stamp = 1].stamp = 1
  BY DEF LidTypeOK, Clouds

(* Every step of the three nodes keeps the types.                          *)
LEMMA LidTypesStep ==
  ASSUME LidTypeOK, HeldLong, [LidNext]_lidVars
  PROVE  LidTypeOK'
<1> USE DEF lidars, monitor, buffer, mapper
<1>0. LidBounds BY LidBoundsHold
<1>1. ASSUME NEW l \in Lidars, Fail(l) \/ Recover(l) PROVE LidTypeOK'
  <2>1. up' \subseteq Lidars /\ rest' \in 0 .. Rest /\ twice' \in Nat
          /\ turns' \in Nat
    BY <1>0, <1>1 DEF Fail, Recover, LidTypeOK, LidBounds
  <2>2. UNCHANGED <<phase, inbox, mapbox, pair, held, cnt, lidar_flag, pub_cnt,
          flags, clouds,
                    merge_flag, last, frame, gap, used, imu>>
    BY <1>1 DEF Fail, Recover
  <2> QED BY <2>1, <2>2 DEF LidTypeOK
<1>2. ASSUME NEW l \in Lidars, LidarCallback(l) PROVE LidTypeOK'
  <2>1. cnt' \in [Lidars -> 0 .. Dog + 1]
    BY <1>0, <1>2 DEF LidarCallback, LidTypeOK, LidBounds
  <2>2. clouds' \in Seq([of : Lidars, stamp : 0 .. 1])
    <3>1. clouds' \in Seq(Clouds)
      BY <1>2, CloudTypes DEF LidarCallback
    <3> QED BY <3>1 DEF Clouds
  <2> QED BY <1>2, <2>1, <2>2 DEF LidarCallback, LidTypeOK
<1>3. ASSUME NEW l \in Lidars, ImuCallback(l) PROVE LidTypeOK'
  BY <1>3 DEF ImuCallback, LidTypeOK
<1>4. ASSUME NEW l \in Lidars, ScanArrives(l) PROVE LidTypeOK'
  <2>1. PICK e \in Lidars \union {Same} :
          /\ held' = (held \union Completed(l, e)) \ HandedOn(l, e)
          /\ \/ ComeIn(Lidars, "2", {h[2] : h \in HandedOn(l, e)})
             \/ UNCHANGED buffer
    BY <1>4 DEF ScanArrives
  <2>2. l \in mapbox BY <1>4 DEF ScanArrives
  <2>3. held' \subseteq Lidars \X (0 .. Old)
    BY <2>1, <2>2, HandedAges
  <2>4. /\ last' \in 0 .. Old /\ frame' \in Lidars /\ gap' \in 0 .. GapCap
        /\ used' \subseteq Lidars \X (0 .. 1) /\ twice' \in Nat
        /\ turns' \in Nat
    <3>1. CASE ComeIn(Lidars, "2", {h[2] : h \in HandedOn(l, e)})
      <4>1. {h[2] : h \in HandedOn(l, e)} \in SUBSET (0 .. 1)
        BY <2>2, HandedAges
      <4>2. "2" \in Lidars /\ Lidars \in SUBSET Lidars BY DEF Lidars
      <4> QED BY <3>1, <4>1, <4>2, ComeInTypes
    <3>2. CASE UNCHANGED buffer
      BY <3>2 DEF LidTypeOK
    <3> QED BY <2>1, <3>1, <3>2
  <2> QED BY <1>4, <2>3, <2>4 DEF ScanArrives, LidTypeOK
<1>5. ASSUME CloudArrives PROVE LidTypeOK'
  <2>1. Head(clouds) \in [of : Lidars, stamp : 0 .. 1]
          /\ Tail(clouds) \in Seq([of : Lidars, stamp : 0 .. 1])
    <3>1. Head(clouds) \in Clouds /\ Tail(clouds) \in Seq(Clouds)
      BY <1>5, CloudTypes DEF CloudArrives
    <3> QED BY <3>1 DEF Clouds
  <2>2. /\ last' \in 0 .. Old /\ frame' \in Lidars /\ gap' \in 0 .. GapCap
        /\ used' \subseteq Lidars \X (0 .. 1) /\ twice' \in Nat
        /\ turns' \in Nat
    <3>1. Head(clouds).of \in Lidars /\ {Head(clouds).of} \in SUBSET Lidars
            /\ {Head(clouds).stamp} \in SUBSET (0 .. 1)
      BY <2>1
    <3>2. ComeIn({Head(clouds).of}, Head(clouds).of, {Head(clouds).stamp})
      BY <1>5 DEF CloudArrives
    <3> QED BY <3>1, <3>2, ComeInTypes
  <2> QED BY <1>5, <2>1, <2>2 DEF CloudArrives, LidTypeOK
<1>6. ASSUME FlagArrives PROVE LidTypeOK'
  <2>1. Head(flags) \in 0 .. 3 /\ Tail(flags) \in Seq(0 .. 3)
    BY <1>6 DEF FlagArrives, LidTypeOK
  <2> QED BY <1>6, <2>1 DEF FlagArrives, LidTypeOK
<1>7. ASSUME Tick PROVE LidTypeOK'
  <2>1. phase' \in 0 .. ScanTicks - 1
    BY <1>0, <1>7 DEF Tick, LidTypeOK, LidBounds
  <2>2. Watch /\ Passed BY <1>7 DEF Tick
  <2> QED BY <1>7, <2>1, <2>2, PassTypes DEF Tick, Passed, LidTypeOK
<1>8. ASSUME NextPeriod PROVE LidTypeOK'
  <2>1. phase' \in 0 .. ScanTicks - 1
    BY <1>0, <1>8 DEF NextPeriod, LidTypeOK, LidBounds
  <2>2. Watch /\ Passed BY <1>8 DEF NextPeriod
  <2>3. clouds' \in Seq([of : Lidars, stamp : 0 .. 1])
    <3>1. clouds' = [i \in 1 .. Len(clouds) |-> [clouds[i] EXCEPT !.stamp = 1]]
      BY <1>8 DEF NextPeriod, LidTypeOK
    <3>2. \A i \in 1 .. Len(clouds) : [clouds[i] EXCEPT !.stamp = 1] \in Clouds
      BY CloudTypes
    <3>3. Len(clouds) \in Nat BY CloudTypes
    <3>4. clouds' \in Seq(Clouds) BY <3>1, <3>2, <3>3
    <3> QED BY <3>4 DEF Clouds
  <2>4. last' \in 0 .. Old
    BY <1>8 DEF NextPeriod, Older, LidTypeOK, Old
  <2>5. used' \subseteq Lidars \X (0 .. 1)
    <3>1. used' = {<<l, 1>> : l \in {k \in Lidars : <<k, 0>> \in used}}
      BY <1>8 DEF NextPeriod
    <3>2. \A l \in Lidars : <<l, 1>> \in Lidars \X (0 .. 1) OBVIOUS
    <3>3. ASSUME NEW u \in used' PROVE u \in Lidars \X (0 .. 1)
      <4>1. PICK l \in Lidars : u = <<l, 1>> BY <3>1, Zenon
      <4> QED BY <3>2, <4>1, Zenon
    <3> QED BY <3>3
  <2>6. /\ cnt' \in [Lidars -> 0 .. Dog + 1] /\ lidar_flag' \in 0 .. 3
        /\ pub_cnt' \in 0 .. PubEvery - 1 /\ flags' \in Seq(0 .. 3)
        /\ rest' \in 0 .. Rest /\ gap' \in 0 .. GapCap
    BY <2>2, PassTypes
  <2>7. up' = up /\ inbox' = up /\ mapbox' = up /\ pair' = {}
        /\ UNCHANGED <<merge_flag, frame, twice, turns, imu>>
    BY <1>8 DEF NextPeriod, Passed
  <2>8. held' \subseteq Lidars \X (0 .. Old)
    <3>1. held' = {<<h[1], Older(h[2])>> : h \in {k \in held : k[2] <= last}}
      BY <1>8 DEF NextPeriod
    <3>2. ASSUME NEW h \in held
          PROVE  h[1] \in Lidars /\ Older(h[2]) \in 0 .. Old
      <4>1. h \in Lidars \X (0 .. Old) BY DEF LidTypeOK
      <4>2. h[1] \in Lidars /\ h[2] \in 0 .. Old BY <4>1
      <4> QED BY <4>2 DEF Older, Old
    <3> QED BY <3>1, <3>2
  <2> QED BY <2>1, <2>3, <2>4, <2>5, <2>6, <2>7, <2>8 DEF LidTypeOK
<1>9. CASE UNCHANGED lidVars
  BY <1>9 DEF lidVars, LidTypeOK
<1> QED BY <1>1, <1>2, <1>3, <1>4, <1>5, <1>6, <1>7, <1>8, <1>9 DEF LidNext

-----------------------------------------------------------------------------
(* There are two lidars, each the other's other, with a flag of its own.   *)
LEMMA TwoLidars ==
  /\ Lidars = {"1", "2"} /\ "1" # "2" /\ "1" \in Lidars /\ "2" \in Lidars
  /\ \A l \in Lidars : /\ Other(l) \in Lidars /\ Other(l) # l
       /\ Other(Other(l)) = l
                        /\ Lidars = {l, Other(l)}
                        /\ OnlyFlag(l) \in 1 .. 2
                        /\ OnlyFlag(l) # OnlyFlag(Other(l))
  BY DEF Lidars, Other, OnlyFlag

(* Both lidars work, none, or one.                                         *)
LEMMA UpIs ==
  ASSUME LidTypeOK
  PROVE  up = Lidars \/ up = {} \/ \E k \in Lidars : up = {k}
  BY DEF LidTypeOK, Lidars

(* lidar_flag says which lidars the monitor holds for working.             *)
LEMMA OnIs ==
  ASSUME LidTypeOK
  PROVE  /\ lidar_flag = 0 <=> \A l \in Lidars : On(l)
         /\ \A l \in Lidars : lidar_flag = OnlyFlag(l)
              <=> On(l) /\ ~On(Other(l))
         /\ lidar_flag = 3 <=> \A l \in Lidars : ~On(l)
  BY DEF LidTypeOK, Lidars, On, OnlyFlag, Other

(* A pass of timer_callback: the counts, the flag they give, its           *)
(* publication, and the time that passed.                                  *)
LEMMA PassDoes ==
  ASSUME LidTypeOK, Watch, Passed
  PROVE  /\ \A l \in Lidars :
              cnt'[l] = IF cnt[l] > Dog THEN cnt[l] ELSE cnt[l] + 1
         /\ \A l \in Lidars : On(l)' <=> cnt'[l] <= Dog
         /\ pub_cnt' = (IF pub_cnt + 1 = PubEvery THEN 0 ELSE pub_cnt + 1)
         /\ flags' = (IF pub_cnt + 1 = PubEvery
              THEN Append(flags, lidar_flag') ELSE flags)
         /\ rest' = (IF rest < Rest THEN rest + 1 ELSE rest)
         /\ gap' = 0 \/ gap' <= gap + 1
         /\ up = {} => gap' = 0
         /\ UNCHANGED <<up, merge_flag, frame, twice, turns, imu>>
<1> DEFINE ticked == [l \in Lidars |-> IF cnt[l] > Dog THEN cnt[l]
  ELSE cnt[l] + 1]
<1>1. cnt' = ticked /\ lidar_flag' = FlagFor(Heard(ticked))
      /\ pub_cnt' = (IF pub_cnt + 1 = PubEvery THEN 0 ELSE pub_cnt + 1)
      /\ flags' = (IF pub_cnt + 1 = PubEvery
           THEN Append(flags, FlagFor(Heard(ticked))) ELSE flags)
  BY DEF Watch
<1>2. \A l \in Lidars : cnt'[l] = IF cnt[l] > Dog THEN cnt[l] ELSE cnt[l] + 1
  BY <1>1
<1>3. ASSUME NEW l \in Lidars PROVE On(l)' <=> cnt'[l] <= Dog
  <2>1. \A h \in SUBSET Lidars : FlagFor(h) \in {0, OnlyFlag(l)} <=> l \in h
    <3> TAKE h \in SUBSET Lidars
    <3>1. h = Lidars \/ h = {} \/ h = {"1"} \/ h = {"2"}
      BY DEF Lidars
    <3>2. (l = "1" /\ OnlyFlag(l) = 1) \/ (l = "2" /\ OnlyFlag(l) = 2)
      BY DEF Lidars, OnlyFlag
    <3>3. CASE h = Lidars BY <3>3, FlagForValues
    <3>4. CASE h = {} BY <3>2, <3>4, FlagForValues
    <3>5. CASE h = {"1"} BY <3>2, <3>5, FlagForValues
    <3>6. CASE h = {"2"} BY <3>2, <3>6, FlagForValues
    <3> QED BY <3>1, <3>3, <3>4, <3>5, <3>6
  <2>2. Heard(ticked) \in SUBSET Lidars /\ (l \in Heard(ticked)
          <=> ticked[l] <= Dog)
    BY DEF Heard
  <2> HIDE DEF ticked
  <2>3. cnt'[l] = ticked[l] /\ lidar_flag' = FlagFor(Heard(ticked)) BY <1>1
  <2> QED BY <2>1, <2>2, <2>3 DEF On
<1>4. rest' = (IF rest < Rest THEN rest + 1 ELSE rest)
      /\ UNCHANGED <<up, merge_flag, frame, twice, turns, imu>>
  BY DEF Passed
<1>5. (gap' = 0 \/ gap' <= gap + 1) /\ (up = {} => gap' = 0)
  BY DEF Passed, LidTypeOK
<1> HIDE DEF ticked
<1> QED BY <1>1, <1>2, <1>3, <1>4, <1>5

(* A cloud on /livox/lidar is a lidar's scan of this period or the last.   *)
LEMMA WaitingTypes ==
  ASSUME LidTypeOK
  PROVE  waiting \subseteq Lidars \X (0 .. 1)
<1>1. clouds \in Seq(Clouds) BY CloudTypes
<1>2. \A i \in DOMAIN clouds :
        clouds[i].of \in Lidars /\ clouds[i].stamp \in 0 .. 1
  BY <1>1, CloudTypes
<1>3. ASSUME NEW w \in waiting PROVE w \in Lidars \X (0 .. 1)
  <2>1. PICK i \in DOMAIN clouds : w = <<clouds[i].of, clouds[i].stamp>>
    BY DEF waiting
  <2> QED BY <1>2, <2>1
<1> QED BY <1>3

(* A scan waits when a cloud of it does;                                   *)
LEMMA WaitingIs ==
  ASSUME NEW l, NEW s
  PROVE  <<l, s>> \in waiting
           <=> \E i \in DOMAIN clouds : clouds[i].of = l /\ clouds[i].stamp = s
  BY DEF waiting

(* so after the step.                                                      *)
LEMMA WaitingIsNext ==
  ASSUME NEW l, NEW s
  PROVE  <<l, s>> \in waiting'
           <=> \E i \in DOMAIN clouds' :
             clouds'[i].of = l /\ clouds'[i].stamp = s
  BY DEF waiting

(* A cloud is published behind the older ones of its lidar.                *)
LEMMA WaitAppend ==
  ASSUME LidTypeOK, Sorted, NEW k \in Lidars,
         clouds' = Append(clouds, [of |-> k, stamp |-> 0]),
         \A l \in Lidars, s \in 0 .. 1 : <<l, s>> \in waiting => l = k /\ s = 1
  PROVE  /\ Sorted'
         /\ \A l \in Lidars, s \in 0 .. 1 :
              <<l, s>> \in waiting'
                <=> <<l, s>> \in waiting \/ (l = k /\ s = 0)
<1> DEFINE new == [of |-> k, stamp |-> 0]
<1>1. clouds \in Seq(Clouds) /\ new \in Clouds /\ new.of = k /\ new.stamp = 0
  BY CloudTypes
<1> HIDE DEF new
<1>2. clouds' = Append(clouds, new) BY DEF new
<1>3. Len(clouds) \in Nat /\ DOMAIN clouds = 1 .. Len(clouds)
        /\ DOMAIN clouds' = 1 .. Len(clouds) + 1
      /\ clouds'[Len(clouds) + 1] = new /\ \A i \in 1 .. Len(clouds) :
           clouds'[i] = clouds[i]
  BY <1>1, <1>2
<1>4. ASSUME NEW i \in 1 .. Len(clouds)
     PROVE clouds[i].of = k /\ clouds[i].stamp = 1
  <2>1. clouds[i].of \in Lidars /\ clouds[i].stamp \in 0 .. 1
    BY <1>1, CloudTypes
  <2>2. <<clouds[i].of, clouds[i].stamp>> \in waiting
    BY <1>3 DEF waiting
  <2> QED BY <2>1, <2>2
<1>5. Sorted'
  <2> SUFFICES ASSUME NEW i \in DOMAIN clouds', NEW j \in DOMAIN clouds', i < j
               PROVE  clouds'[i].of = clouds'[j].of
                        /\ clouds'[i].stamp > clouds'[j].stamp
    BY DEF Sorted
  <2>1. i \in 1 .. Len(clouds) BY <1>3
  <2>2. CASE j = Len(clouds) + 1
    BY <1>1, <1>3, <1>4, <2>1, <2>2
  <2>3. CASE j \in 1 .. Len(clouds)
    <3>1. clouds[i].stamp > clouds[j].stamp BY <1>3, <2>1, <2>3 DEF Sorted
    <3> QED BY <1>3, <1>4, <2>1, <2>3, <3>1
  <2> QED BY <1>3, <2>2, <2>3
<1>6. ASSUME NEW l \in Lidars, NEW s \in 0 .. 1
      PROVE  <<l, s>> \in waiting' <=> <<l, s>> \in waiting \/ (l = k /\ s = 0)
  <2>1. CASE <<l, s>> \in waiting'
    <3>1. PICK i \in DOMAIN clouds' : clouds'[i].of = l /\ clouds'[i].stamp = s
      BY <2>1, WaitingIsNext
    <3>2. CASE i = Len(clouds) + 1
      BY <1>1, <1>3, <2>1, <3>1, <3>2
    <3>3. CASE i \in 1 .. Len(clouds)
      <4>1. i \in DOMAIN clouds /\ clouds[i].of = l /\ clouds[i].stamp = s
        BY <1>3, <3>1, <3>3
      <4> QED BY <2>1, <4>1, WaitingIs
    <3>4. i \in 1 .. Len(clouds) + 1 BY <1>3
    <3> QED BY <1>3, <3>2, <3>3, <3>4
  <2>2. CASE <<l, s>> \in waiting
    <3>1. PICK i \in DOMAIN clouds : clouds[i].of = l /\ clouds[i].stamp = s
      BY <2>2, WaitingIs
    <3>2. i \in DOMAIN clouds' /\ clouds'[i].of = l /\ clouds'[i].stamp = s
      BY <1>3, <3>1
    <3> QED BY <2>2, <3>2, WaitingIsNext
  <2>3. CASE l = k /\ s = 0
    <3>1. Len(clouds) + 1 \in DOMAIN clouds'
            /\ clouds'[Len(clouds) + 1].of = l
            /\ clouds'[Len(clouds) + 1].stamp = s
      BY <1>1, <1>3, <2>3
    <3> QED BY <2>3, <3>1, WaitingIsNext
  <2> QED BY <2>1, <2>2, <2>3
<1> QED BY <1>5, <1>6

(* A cloud is received, before the newer ones of its lidar.                *)
LEMMA WaitTail ==
  ASSUME LidTypeOK, Sorted, clouds # <<>>, clouds' = Tail(clouds),
         NEW h, h = Head(clouds)
  PROVE  /\ Sorted' /\ h.of \in Lidars /\ h.stamp \in 0 .. 1
         /\ <<h.of, h.stamp>> \in waiting
         /\ \A l \in Lidars, s \in 0 .. 1 :
              <<l, s>> \in waiting'
                <=> <<l, s>> \in waiting /\ ~(l = h.of /\ s = h.stamp)
         /\ \A l \in Lidars, s \in 0 .. 1 : <<l, s>> \in waiting' =>
              l = h.of /\ s < h.stamp
<1>1. clouds \in Seq(Clouds) BY CloudTypes
<1>2. Len(clouds) \in Nat /\ Len(clouds) >= 1
        /\ DOMAIN clouds = 1 .. Len(clouds)
      /\ DOMAIN clouds' = 1 .. Len(clouds) - 1 /\ h = clouds[1]
      /\ \A i \in 1 .. Len(clouds) - 1 : clouds'[i] = clouds[i + 1]
  BY <1>1
<1>3. h \in Clouds /\ h.of \in Lidars /\ h.stamp \in 0 .. 1
        /\ <<h.of, h.stamp>> \in waiting
  BY <1>1, <1>2, CloudTypes DEF waiting
<1>4. Sorted'
  <2> SUFFICES ASSUME NEW i \in DOMAIN clouds', NEW j \in DOMAIN clouds', i < j
               PROVE  clouds'[i].of = clouds'[j].of
                        /\ clouds'[i].stamp > clouds'[j].stamp
    BY DEF Sorted
  <2>1. i + 1 \in DOMAIN clouds /\ j + 1 \in DOMAIN clouds /\ i + 1 < j + 1
    BY <1>2
  <2>2. clouds'[i] = clouds[i + 1] /\ clouds'[j] = clouds[j + 1]
    BY <1>2
  <2> QED BY <2>1, <2>2 DEF Sorted
<1>5. ASSUME NEW l \in Lidars, NEW s \in 0 .. 1, <<l, s>> \in waiting'
      PROVE  <<l, s>> \in waiting /\ l = h.of /\ s < h.stamp
  <2>1. PICK i \in DOMAIN clouds' : clouds'[i].of = l /\ clouds'[i].stamp = s
    BY <1>5, WaitingIsNext
  <2>2. i + 1 \in DOMAIN clouds /\ 1 \in DOMAIN clouds /\ 1 < i + 1
        /\ clouds[i + 1].of = l /\ clouds[i + 1].stamp = s
    BY <1>2, <2>1
  <2>3. clouds[1].of = l /\ clouds[1].stamp > s
    BY <2>2 DEF Sorted
  <2>4. <<l, s>> \in waiting BY <2>2, WaitingIs
  <2> QED BY <1>2, <2>2, <2>3, <2>4
<1>6. ASSUME NEW l \in Lidars, NEW s \in 0 .. 1, <<l, s>> \in waiting,
             ~(l = h.of /\ s = h.stamp)
      PROVE  <<l, s>> \in waiting'
  <2>1. PICK i \in DOMAIN clouds : clouds[i].of = l /\ clouds[i].stamp = s
    BY <1>6, WaitingIs
  <2>2. i # 1 BY <1>2, <1>6, <2>1
  <2>3. i - 1 \in 1 .. Len(clouds) - 1 BY <1>2, <2>2
  <2>4. (i - 1) + 1 = i BY <1>2
  <2>5. i - 1 \in DOMAIN clouds' /\ clouds'[i - 1] = clouds[i]
    BY <1>2, <2>3, <2>4
  <2> QED BY <2>1, <2>5, WaitingIsNext
<1>7. ASSUME NEW l \in Lidars, NEW s \in 0 .. 1
      PROVE  <<l, s>> \in waiting'
               <=> <<l, s>> \in waiting /\ ~(l = h.of /\ s = h.stamp)
  <2>1. CASE <<l, s>> \in waiting'
    <3>1. <<l, s>> \in waiting /\ s < h.stamp BY <1>5, <2>1
    <3>2. s # h.stamp BY <1>3, <3>1
    <3> QED BY <2>1, <3>1, <3>2
  <2>2. CASE <<l, s>> \notin waiting'
    BY <1>6, <2>2
  <2> QED BY <2>1, <2>2
<1> QED BY <1>3, <1>4, <1>5, <1>7

(* The clouds on the topic are a period older.                             *)
LEMMA WaitAge ==
  ASSUME LidTypeOK, Sorted, \A i \in DOMAIN clouds : clouds[i].stamp = 0,
         clouds' = [i \in DOMAIN clouds |-> [clouds[i] EXCEPT !.stamp = 1]]
  PROVE  /\ Sorted'
         /\ \A l \in Lidars : <<l, 1>> \notin waiting
         /\ \A l \in Lidars, s \in 0 .. 1 : <<l, s>> \in waiting'
              <=> s = 1 /\ <<l, 0>> \in waiting
<1>1. clouds \in Seq(Clouds) BY CloudTypes
<1>2. /\ DOMAIN clouds' = DOMAIN clouds
      /\ \A i \in DOMAIN clouds : clouds[i] \in Clouds
      /\ \A i \in DOMAIN clouds : clouds'[i] = [clouds[i] EXCEPT !.stamp = 1]
  BY <1>1
<1>3. \A i \in DOMAIN clouds :
        clouds'[i].of = clouds[i].of /\ clouds'[i].stamp = 1
  BY <1>2, CloudTypes
<1>4. Sorted'
  <2> SUFFICES ASSUME NEW i \in DOMAIN clouds', NEW j \in DOMAIN clouds', i < j
               PROVE  FALSE
    BY DEF Sorted
  <2>1. clouds[i].stamp > clouds[j].stamp /\ clouds[i].stamp = 0
          /\ clouds[j].stamp = 0
    BY <1>2 DEF Sorted
  <2> QED BY <2>1
<1>5. ASSUME NEW l \in Lidars PROVE <<l, 1>> \notin waiting
  <2>1. ~\E i \in DOMAIN clouds : clouds[i].of = l /\ clouds[i].stamp = 1
    OBVIOUS
  <2> QED BY <2>1, WaitingIs
<1>6. ASSUME NEW l \in Lidars, NEW s \in 0 .. 1
      PROVE  <<l, s>> \in waiting' <=> s = 1 /\ <<l, 0>> \in waiting
  <2>1. CASE s = 1 /\ <<l, 0>> \in waiting
    <3>1. PICK i \in DOMAIN clouds : clouds[i].of = l /\ clouds[i].stamp = 0
      BY <2>1, WaitingIs
    <3> QED BY <1>2, <1>3, <2>1, <3>1, WaitingIsNext
  <2>2. CASE <<l, s>> \in waiting'
    <3>1. PICK i \in DOMAIN clouds' : clouds'[i].of = l /\ clouds'[i].stamp = s
      BY <2>2, WaitingIsNext
    <3>2. s = 1 /\ clouds[i].of = l /\ clouds[i].stamp = 0
      BY <1>2, <1>3, <3>1
    <3>3. i \in DOMAIN clouds BY <1>2
    <3>4. <<l, 0>> \in waiting BY <3>2, <3>3, WaitingIs
    <3> QED BY <2>2, <3>2, <3>4
  <2> QED BY <2>1, <2>2
<1> QED BY <1>4, <1>5, <1>6

(* What the quiet between two failures or returns suffices for.            *)
LEMMA QuietIs ==
  /\ LidBounds
  /\ 2 * ScanTicks - 1 <= Dog
  /\ Rest >= Dog + PubEvery + 3 * ScanTicks - 1
  /\ Rest >= Dog + 5 * ScanTicks - 1
  /\ Rest >= PubEvery + 5 * ScanTicks - 1
  BY LidBoundsHold, QuietAssumption DEF Longest, LidBounds

(* The flag names the lidars that are heard, and no other value does.      *)
LEMMA FlagOf ==
  ASSUME NEW f \in 0 .. 3, NEW u \in SUBSET Lidars
  PROVE  /\ (\A l \in Lidars : f \in {0, OnlyFlag(l)} <=> l \in u) =>
              f = FlagFor(u)
         /\ FlagFor(u) = 0 <=> u = Lidars
         /\ \A l \in Lidars : FlagFor(u) = OnlyFlag(l) <=> u = {l}
<1>1. "1" \in Lidars /\ "2" \in Lidars /\ OnlyFlag("1") = 1
        /\ OnlyFlag("2") = 2
      /\ \A l \in Lidars : l = "1" \/ l = "2"
  BY DEF Lidars, OnlyFlag
<1>2. Lidars # {"1"} /\ Lidars # {"2"} /\ Lidars # {} /\ {"1"} # {"2"}
        /\ {"1"} # {} /\ {"2"} # {}
  BY DEF Lidars
<1>3. CASE u = Lidars BY <1>1, <1>2, <1>3, FlagForValues
<1>4. CASE u = {} BY <1>1, <1>2, <1>4, FlagForValues
<1>5. CASE u = {"1"} BY <1>1, <1>2, <1>5, FlagForValues
<1>6. CASE u = {"2"} BY <1>1, <1>2, <1>6, FlagForValues
<1>7. u = Lidars \/ u = {} \/ u = {"1"} \/ u = {"2"}
  BY DEF Lidars
<1> QED BY <1>3, <1>4, <1>5, <1>6, <1>7

(* Once Rest passes went by, both watchdogs tell the truth.                *)
LEMMA QuietSettled ==
  ASSUME LidTypeOK, Watched, rest = Rest
  PROVE  \A l \in Lidars : Settled(l)
<1> TAKE l \in Lidars
<1>2. ~Coming(l) /\ ~Leaving(l)
  BY QuietIs DEF LidTypeOK, Coming, Leaving, Late, LidBounds
<1> QED BY <1>2 DEF Watched

(* Every step keeps what is known of this period's scans.                  *)
LEMMA ScansHold ==
  ASSUME LidTypeOK, Scans, Watched, [LidNext]_lidVars
  PROVE  Scans'
<1> USE DEF lidars, monitor, buffer, mapper
<1>0. LidBounds BY LidBoundsHold
<1>1. ASSUME NEW l \in Lidars, Fail(l) \/ Recover(l) PROVE Scans'
  <2>1. \A k \in Lidars : Settled(k) BY <1>1, QuietSettled DEF Fail, Recover
  <2>2. rest = Rest /\ rest' = 0 /\ Rest > phase /\ 0 <= phase
    BY <1>1, QuietIs DEF Fail, Recover, LidTypeOK, LidBounds
  <2>3. UNCHANGED <<inbox, mapbox, pair, lidar_flag, phase>>
    BY <1>1 DEF Fail, Recover
  <2>4. up' \subseteq Lidars /\ \A k \in Lidars : k # l =>
          (k \in up' <=> k \in up)
    BY <1>1 DEF Fail, Recover, LidTypeOK
  <2>5. l \in up' => ~On(l) BY <1>1, <2>1 DEF Fail, Recover, Settled
  <2> QED BY <2>2, <2>3, <2>4, <2>5, Zenon DEF Scans, On
<1>2. ASSUME NEW l \in Lidars, LidarCallback(l) PROVE Scans'
  BY <1>2 DEF LidarCallback, Scans, On
<1>3. ASSUME NEW l \in Lidars, ScanArrives(l) PROVE Scans'
  BY <1>3 DEF ScanArrives, Scans, On
<1>4. CASE Tick
  <2>1. Watch /\ Passed BY <1>4 DEF Tick
  <2>2. \A k \in Lidars :
          k \in up /\ ~On(k) /\ k \notin mapbox \union pair => cnt[k] = Dog + 1
    BY <1>0 DEF Watched, Coming, Settled, Leaving, Scans
  <2>3. phase' = phase + 1 /\ UNCHANGED <<up, inbox, mapbox, pair>>
          /\ rest' <= rest + 1
    BY <1>4, <2>1, PassDoes DEF Tick, LidTypeOK
  <2>4. \A k \in Lidars : k \in up /\ k \notin mapbox \union pair => ~On(k)'
    <3> TAKE k \in Lidars
    <3> HAVE k \in up /\ k \notin mapbox \union pair
    <3>1. cnt[k] = Dog + 1 BY <2>2 DEF Scans
    <3> QED BY <1>0, <2>1, <3>1, PassDoes DEF LidBounds
  <2>5. rest \in 0 .. Rest /\ phase \in 0 .. ScanTicks - 1
          /\ rest' \in 0 .. Rest
    BY <2>1, PassTypes DEF LidTypeOK
  <2>6. rest <= phase => rest' <= phase' BY <1>0, <2>3, <2>5 DEF LidBounds
  <2>7. ASSUME NEW k \in Lidars
        PROVE  IF k \in up'
               THEN k \notin mapbox' \union pair' => rest' <= phase' /\ ~On(k)'
               ELSE k \in mapbox' \union pair' => rest' <= phase'
    BY <2>3, <2>4, <2>6 DEF Scans
  <2> QED BY <2>3, <2>7 DEF Scans
<1>5. CASE NextPeriod
  BY <1>5 DEF NextPeriod, Passed, Scans, LidTypeOK
<1>6. CASE CloudArrives \/ FlagArrives \/ (\E l \in Lidars : ImuCallback(l))
             \/ UNCHANGED lidVars
  BY <1>6 DEF CloudArrives, FlagArrives, ImuCallback, lidVars, Scans, On
<1> QED BY <1>1, <1>2, <1>3, <1>4, <1>5, <1>6 DEF LidNext

(* A pass keeps a settled watchdog settled, and an unsettled one becomes   *)
(* so in time.                                                             *)
LEMMA PassWatched ==
  ASSUME LidTypeOK, Scans, Watched, Tick \/ NextPeriod, NEW l \in Lidars
  PROVE  /\ Settled(l) => Settled(l)'
         /\ Coming(l) => Coming(l)' \/ Settled(l)'
         /\ Leaving(l) => Leaving(l)' \/ Settled(l)'
<1>0. LidBounds BY LidBoundsHold
<1>1. Watch /\ Passed BY DEF Tick, NextPeriod
<1>2. /\ cnt'[l] = IF cnt[l] > Dog THEN cnt[l] ELSE cnt[l] + 1
      /\ On(l)' <=> cnt'[l] <= Dog
      /\ rest' = (IF rest < Rest THEN rest + 1 ELSE rest)
      /\ up' = up
  BY <1>1, PassDoes
<1>3. cnt[l] \in 0 .. Dog + 1 /\ rest \in 0 .. Rest
        /\ phase \in 0 .. ScanTicks - 1
  BY DEF LidTypeOK
<1>5. CASE Tick
  <2>1. phase' = phase + 1 /\ phase < ScanTicks - 1
          /\ UNCHANGED <<inbox, mapbox, pair>>
    BY <1>5 DEF Tick
  <2>2. Settled(l) => Settled(l)'
    BY <1>0, <1>2, <1>3, <2>1, QuietIs DEF Settled, Late, LidBounds
  <2>3. Coming(l) => Coming(l)' \/ Settled(l)'
    BY <1>0, <1>2, <1>3, <2>1, QuietIs DEF Settled, Coming, Late, LidBounds
  <2>4. Leaving(l) => Leaving(l)' \/ Settled(l)'
    BY <1>0, <1>2, <1>3, <2>1, QuietIs DEF Settled, Leaving, Scans, Late,
       LidBounds
  <2> QED BY <2>2, <2>3, <2>4
<1>6. CASE NextPeriod
  <2>1. phase' = 0 /\ phase = ScanTicks - 1 /\ inbox = {} /\ inbox' = up
          /\ mapbox' = up /\ pair' = {}
    BY <1>6 DEF NextPeriod
  <2>2. Settled(l) => Settled(l)'
    BY <1>0, <1>2, <1>3, <2>1, QuietIs DEF Settled, Late, LidBounds
  <2>3. Coming(l) => Coming(l)' \/ Settled(l)'
    BY <1>0, <1>2, <1>3, <2>1, QuietIs DEF Settled, Coming, Late, LidBounds
  <2>4. Leaving(l) => Leaving(l)' \/ Settled(l)'
    BY <1>0, <1>2, <1>3, <2>1, QuietIs DEF Settled, Leaving, Scans, Late,
       LidBounds
  <2> QED BY <2>2, <2>3, <2>4
<1> QED BY <1>5, <1>6

(* Every step keeps one of the watchdogs settled at least.                 *)
LEMMA WatchedHolds ==
  ASSUME LidTypeOK, Scans, Watched, [LidNext]_lidVars
  PROVE  Watched'
<1> USE DEF lidars, monitor, buffer, mapper
<1>0. LidBounds BY LidBoundsHold
<1>1. ASSUME NEW l \in Lidars, Fail(l) PROVE Watched'
  <2>1. \A k \in Lidars : Settled(k) BY <1>1, QuietSettled DEF Fail
  <2>2. rest = Rest /\ rest' = 0 /\ Rest > phase /\ l \in up
        /\ UNCHANGED <<inbox, mapbox, pair, lidar_flag, phase, cnt>>
    BY <1>1, QuietIs DEF Fail, LidTypeOK, LidBounds
  <2>3. \A k \in Lidars : k # l => Settled(k)'
    BY <1>1, <2>1, <2>2 DEF Fail, Settled, On
  <2>4. cnt[l] \in 0 .. Dog + 1 /\ phase \in 0 .. ScanTicks - 1
    BY DEF LidTypeOK
  <2>5. l \in mapbox \union pair BY <2>1, <2>2 DEF Scans, Settled
  <2>6. l \notin up' BY <1>1 DEF Fail
  <2>7. Leaving(l)'
    BY <1>0, <2>1, <2>2, <2>4, <2>5, <2>6, QuietIs DEF Settled, Leaving, Late,
       On, LidBounds
  <2> QED BY <2>3, <2>7, TwoLidars DEF Watched
<1>2. ASSUME NEW l \in Lidars, Recover(l) PROVE Watched'
  <2>1. \A k \in Lidars : Settled(k) BY <1>2, QuietSettled DEF Recover
  <2>2. rest' = 0 /\ l \notin up
          /\ UNCHANGED <<inbox, mapbox, pair, lidar_flag, phase, cnt>>
    BY <1>2 DEF Recover
  <2>3. \A k \in Lidars : k # l => Settled(k)'
    BY <1>2, <2>1, <2>2 DEF Recover, Settled, On
  <2>4. phase \in 0 .. ScanTicks - 1 BY DEF LidTypeOK
  <2>5. l \in up' BY <1>2 DEF Recover
  <2>6. Coming(l)'
    BY <1>0, <2>1, <2>2, <2>4, <2>5 DEF Settled, Coming, Late, On, LidBounds
  <2> QED BY <2>3, <2>6, TwoLidars DEF Watched
<1>3. ASSUME NEW l \in Lidars, LidarCallback(l) PROVE Watched'
  <2>1. /\ l \in inbox /\ l \notin inbox' /\ \A k \in Lidars : k # l =>
             (k \in inbox' <=> k \in inbox)
        /\ cnt'[l] = 0 /\ \A k \in Lidars : k # l => cnt'[k] = cnt[k]
        /\ UNCHANGED <<up, rest, mapbox, pair, lidar_flag, phase>>
    BY <1>3 DEF LidarCallback, LidTypeOK
  <2>2. cnt[l] \in 0 .. Dog + 1 /\ rest \in 0 .. Rest
          /\ phase \in 0 .. ScanTicks - 1
        /\ l \in mapbox \union pair
    BY <2>1 DEF LidTypeOK, Scans
  <2>3. Settled(l) => Settled(l)'
    BY <1>0, <2>1, <2>2 DEF Settled, Late, On, LidBounds
  <2>4. Coming(l) => Coming(l)'
    BY <1>0, <2>1, <2>2 DEF Coming, Late, On, LidBounds
  <2>5. Leaving(l) => Leaving(l)'
    BY <1>0, <2>1, <2>2 DEF Leaving, Scans, Late, On, LidBounds
  <2>6. ASSUME NEW k \in Lidars
        PROVE  /\ Settled(k) => Settled(k)'
               /\ Coming(k) => Coming(k)'
               /\ Leaving(k) => Leaving(k)'
    <3>1. CASE k = l BY <2>3, <2>4, <2>5, <3>1
    <3>2. CASE k # l BY <2>1, <3>2 DEF Settled, Coming, Leaving, On, Late
    <3> QED BY <3>1, <3>2
  <2> SUFFICES ASSUME NEW k \in Lidars
               PROVE  Settled(k)' \/ ((Coming(k)' \/ Leaving(k)')
                        /\ Settled(Other(k))')
    BY DEF Watched
  <2>7. Other(k) \in Lidars BY TwoLidars
  <2>8. Settled(Other(k)) => Settled(Other(k))' BY <2>6, <2>7
  <2>9. Settled(k) \/ ((Coming(k) \/ Leaving(k)) /\ Settled(Other(k)))
    BY DEF Watched
  <2> QED BY <2>6, <2>8, <2>9
<1>4. ASSUME NEW l \in Lidars, ScanArrives(l) PROVE Watched'
  <2>1. (mapbox \union pair)' = mapbox \union pair
          /\ UNCHANGED <<up, rest, phase, inbox, cnt, lidar_flag>>
    BY <1>4 DEF ScanArrives
  <2> QED BY <2>1 DEF Watched, Settled, Coming, Leaving, On, Late
<1>5. CASE Tick \/ NextPeriod
  <2> SUFFICES ASSUME NEW l \in Lidars
               PROVE  Settled(l)' \/ ((Coming(l)' \/ Leaving(l)')
                        /\ Settled(Other(l))')
    BY DEF Watched
  <2>1. Other(l) \in Lidars BY TwoLidars
  <2> QED BY <1>5, <2>1, PassWatched DEF Watched
<1>6. CASE CloudArrives \/ FlagArrives \/ (\E l \in Lidars : ImuCallback(l))
             \/ UNCHANGED lidVars
  <2>1. UNCHANGED <<up, rest, phase, inbox, mapbox, pair, cnt, lidar_flag>>
    BY <1>6 DEF CloudArrives, FlagArrives, ImuCallback, lidVars
  <2> QED BY <2>1 DEF Watched, Settled, Coming, Leaving, On, Late
<1> QED BY <1>1, <1>2, <1>3, <1>4, <1>5, <1>6 DEF LidNext

-----------------------------------------------------------------------------
(* What clouds accepted change.                                            *)
LEMMA AcceptDoes ==
  ASSUME LidTypeOK, NEW ls \in SUBSET Lidars, NEW S \in SUBSET (0 .. 1),
         NEW f \in Lidars, Accept(ls, f, S)
  PROVE  /\ last' \in S /\ \A s \in S : last' <= s
         /\ frame' = f /\ gap' = 0
         /\ \A l \in Lidars, s \in 0 .. 1 :
              <<l, s>> \in used' <=> <<l, s>> \in used \/ (l \in ls /\ s \in S)
         /\ turns' = IF f = frame THEN turns ELSE turns + 1
  BY DEF Accept

(* A cloud with a scan accepted before counts once,                        *)
LEMMA AcceptCounts ==
  ASSUME LidTypeOK, NEW ls \in SUBSET Lidars, NEW S \in SUBSET (0 .. 1),
         NEW f \in Lidars, Accept(ls, f, S),
         NEW t \in S, NEW k \in ls, <<k, t>> \in used,
         \A l \in ls, s \in S : s # t => <<l, s>> \notin used
  PROVE  twice' = twice + 1
<1> DEFINE T == {s \in S : (ls \X {s}) \intersect used # {}}
<1>1. twice' = twice + Cardinality(T) BY DEF Accept
<1>2. <<k, t>> \in (ls \X {t}) \intersect used OBVIOUS
<1>3. ASSUME NEW s \in S, s # t PROVE (ls \X {s}) \intersect used = {}
  <2>1. ASSUME NEW x \in (ls \X {s}) \intersect used PROVE FALSE
    <3>1. x[1] \in ls /\ x = <<x[1], s>> OBVIOUS
    <3> QED BY <1>3, <3>1
  <2> QED BY <2>1
<1>4. T = {t} BY <1>2, <1>3
<1> HIDE DEF T
<1>5. t \in Nat OBVIOUS
<1>6. Cardinality(T) = 1 BY <1>4, <1>5, CountAges
<1> QED BY <1>1, <1>6

(* and one without does not.                                               *)
LEMMA AcceptAnew ==
  ASSUME LidTypeOK, NEW ls \in SUBSET Lidars, NEW S \in SUBSET (0 .. 1),
         NEW f \in Lidars, Accept(ls, f, S),
         \A l \in ls, s \in S : <<l, s>> \notin used
  PROVE  twice' = twice
<1> DEFINE T == {s \in S : (ls \X {s}) \intersect used # {}}
<1>1. twice' = twice + Cardinality(T) BY DEF Accept
<1>2. ASSUME NEW s \in S PROVE (ls \X {s}) \intersect used = {}
  <2>1. ASSUME NEW x \in (ls \X {s}) \intersect used PROVE FALSE
    <3>1. x[1] \in ls /\ x = <<x[1], s>> OBVIOUS
    <3> QED BY <3>1
  <2> QED BY <2>1
<1>3. T = {} BY <1>2
<1> HIDE DEF T
<1> QED BY <1>1, <1>3, CountAges DEF LidTypeOK

(* The count of such clouds never falls.                                   *)
LEMMA AcceptMore ==
  ASSUME LidTypeOK, NEW ls \in SUBSET Lidars, NEW S \in SUBSET (0 .. 1),
         NEW f \in Lidars, Accept(ls, f, S)
  PROVE  twice' \in Nat /\ twice' >= twice
<1> DEFINE T == {s \in S : (ls \X {s}) \intersect used # {}}
<1>1. T \in SUBSET (0 .. 1) OBVIOUS
<1>2. twice' = twice + Cardinality(T) BY DEF Accept
<1> HIDE DEF T
<1>3. Cardinality(T) \in 0 .. 2 BY <1>1, CountAges
<1> QED BY <1>2, <1>3 DEF LidTypeOK

(* A new period ages what was accepted.                                    *)
LEMMA AgeDoes ==
  ASSUME NextPeriod, NEW l \in Lidars, NEW s
  PROVE  <<l, s>> \in used' <=> s = 1 /\ <<l, 0>> \in used
<1>1. used' = {<<k, 1>> : k \in {j \in Lidars : <<j, 0>> \in used}}
  BY DEF NextPeriod
<1> QED BY <1>1

(* Steps that leave the topic alone leave what waits there.                *)
LEMMA SameWaiting ==
  ASSUME UNCHANGED clouds
  PROVE  UNCHANGED waiting
  BY DEF waiting

(* lidar1Callback, lidar2Callback: the scan joins the topic when its lidar *)
(* is the only one.                                                        *)
LEMMA PassOnDoes ==
  ASSUME LidTypeOK, Sorted, Queue, NEW k \in Lidars, LidarCallback(k)
  PROVE  /\ Sorted'
         /\ \A l \in Lidars, s \in 0 .. 1 :
              <<l, s>> \in waiting'
                <=> <<l, s>> \in waiting \/ (l = k /\ s = 0 /\ PassesOn(k))
         /\ PassesOn(k) =>
              \A l \in Lidars, s \in 0 .. 1 : <<l, s>> \in waiting =>
                l = k /\ s = 1
<1>1. CASE PassesOn(k)
  <2>1. On(k) /\ ~On(Other(k)) BY <1>1, OnIs DEF PassesOn
  <2>2. \A l \in Lidars : On(l) => l = k BY <2>1, TwoLidars
  <2>3. k \in inbox BY DEF LidarCallback
  <2>4. \A l \in Lidars, s \in 0 .. 1 : <<l, s>> \in waiting => l = k /\ s = 1
    <3> TAKE l \in Lidars, s \in 0 .. 1
    <3> HAVE <<l, s>> \in waiting
    <3>1. On(l) /\ (s = 0 => l \notin inbox) BY DEF Queue
    <3> QED BY <2>2, <2>3, <3>1
  <2>5. clouds' = Append(clouds, [of |-> k, stamp |-> 0])
    BY <1>1 DEF LidarCallback
  <2>6. /\ Sorted'
        /\ \A l \in Lidars, s \in 0 .. 1 :
              <<l, s>> \in waiting'
                <=> <<l, s>> \in waiting \/ (l = k /\ s = 0)
    BY <2>4, <2>5, WaitAppend
  <2> QED BY <1>1, <2>4, <2>6
<1>2. CASE ~PassesOn(k)
  <2>1. UNCHANGED clouds BY <1>2 DEF LidarCallback
  <2> QED BY <1>2, <2>1, SameWaiting DEF Sorted
<1> QED BY <1>1, <1>2

(* livox_pcl_cbk: the cloud leaves the topic, and is accepted when it is   *)
(* no older than the last, and only if it is.                              *)
LEMMA CloudDoes ==
  ASSUME LidTypeOK, Sorted, CloudArrives, NEW h, h = Head(clouds)
  PROVE  /\ Sorted' /\ h.of \in Lidars /\ h.stamp \in 0 .. 1
         /\ <<h.of, h.stamp>> \in waiting
         /\ \A l \in Lidars, s \in 0 .. 1 :
              <<l, s>> \in waiting'
                <=> <<l, s>> \in waiting /\ ~(l = h.of /\ s = h.stamp)
         /\ \A l \in Lidars, s \in 0 .. 1 : <<l, s>> \in waiting' =>
              l = h.of /\ s < h.stamp
         /\ \/ /\ h.stamp <= last /\ Accept({h.of}, h.of, {h.stamp})
               /\ last' = h.stamp /\ frame' = h.of /\ gap' = 0
               /\ turns' = IF h.of = frame THEN turns ELSE turns + 1
               /\ \A l \in Lidars, s \in 0 .. 1 :
                    <<l, s>> \in used'
                      <=> <<l, s>> \in used \/ (l = h.of /\ s = h.stamp)
               /\ twice' = IF <<h.of, h.stamp>> \in used THEN twice + 1
                           ELSE twice
            \/ /\ h.stamp > last \/ (h.stamp = last /\ h.of # frame)
               /\ UNCHANGED <<last, frame, gap, used, twice, turns>>
<1>1. clouds # <<>> /\ clouds' = Tail(clouds) BY DEF CloudArrives
<1>2. h.of \in Lidars /\ h.stamp \in 0 .. 1 BY <1>1, WaitTail
<1>3. PICK fresh \in Fresh(h.of, {h.stamp}) :
        IF fresh = {} THEN UNCHANGED buffer
        ELSE Accept({h.of}, h.of, fresh)
  BY DEF CloudArrives, ComeIn
<1>4. CASE fresh # {}
  <2>1. fresh = {h.stamp} /\ Accept({h.of}, h.of, {h.stamp})
    BY <1>3, <1>4 DEF Fresh
  <2>2. h.stamp <= last BY <1>2, <1>3, <2>1 DEF Fresh, LidTypeOK
  <2>3. {h.of} \in SUBSET Lidars /\ {h.stamp} \in SUBSET (0 .. 1) BY <1>2
  <2>4. /\ last' \in {h.stamp} /\ frame' = h.of /\ gap' = 0
        /\ turns' = IF h.of = frame THEN turns ELSE turns + 1
        /\ \A l \in Lidars, s \in 0 .. 1 :
             <<l, s>> \in used'
               <=> <<l, s>> \in used \/ (l \in {h.of} /\ s \in {h.stamp})
    <3> DEFINE ls == {h.of}
               S == {h.stamp}
    <3>1. Accept(ls, h.of, S) /\ ls \in SUBSET Lidars /\ S \in SUBSET (0 .. 1)
      BY <2>1, <2>3
    <3> HIDE DEF ls, S
    <3>2. /\ last' \in S /\ frame' = h.of /\ gap' = 0
          /\ turns' = IF h.of = frame THEN turns ELSE turns + 1
          /\ \A l \in Lidars, s \in 0 .. 1 :
               <<l, s>> \in used'
                 <=> <<l, s>> \in used \/ (l \in ls /\ s \in S)
      BY <1>2, <3>1, AcceptDoes
    <3> QED BY <3>2 DEF ls, S
  <2>5. twice' = IF <<h.of, h.stamp>> \in used THEN twice + 1 ELSE twice
    <3> DEFINE ls == {h.of}
               S == {h.stamp}
    <3>1. Accept(ls, h.of, S) /\ ls \in SUBSET Lidars /\ S \in SUBSET (0 .. 1)
      BY <2>1, <2>3
    <3>2. h.of \in ls /\ h.stamp \in S /\ \A s \in S : s = h.stamp OBVIOUS
    <3>3. \A l \in ls : l = h.of OBVIOUS
    <3> HIDE DEF ls, S
    <3>4. CASE <<h.of, h.stamp>> \in used
      <4>2. \A l \in ls, s \in S : s # h.stamp => <<l, s>> \notin used
        BY <3>2
      <4>3. twice' = twice + 1
        BY <1>2, <3>1, <3>2, <3>4, <4>2, AcceptCounts
      <4> QED BY <3>4, <4>3
    <3>5. CASE <<h.of, h.stamp>> \notin used
      <4>1. \A l \in ls, s \in S : <<l, s>> \notin used BY <3>2, <3>3, <3>5
      <4>2. twice' = twice BY <1>2, <3>1, <4>1, AcceptAnew
      <4> QED BY <3>5, <4>2
    <3> QED BY <3>4, <3>5
  <2> QED BY <1>1, <2>1, <2>2, <2>4, <2>5, WaitTail
<1>5. CASE fresh = {}
  <2>1. UNCHANGED <<last, frame, gap, used, twice, turns>>
    BY <1>3, <1>5 DEF buffer
  <2>2. h.stamp > last \/ (h.stamp = last /\ h.of # frame)
    BY <1>2, <1>3, <1>5 DEF Fresh, LidTypeOK, Old
  <2> QED BY <1>1, <2>1, <2>2, WaitTail
<1> QED BY <1>4, <1>5

(* Every step keeps the topic in order and to one lidar: the other can be  *)
(* passed on only after a period in which it was emptied.                  *)
LEMMA SortedHolds ==
  ASSUME LidTypeOK, Sorted, Queue, [LidNext]_lidVars
  PROVE  Sorted'
<1>1. ASSUME NEW k \in Lidars, LidarCallback(k) PROVE Sorted'
  BY <1>1, PassOnDoes
<1>2. CASE CloudArrives BY <1>2, CloudDoes
<1>3. CASE NextPeriod BY <1>3, WaitAge DEF NextPeriod
<1>4. CASE UNCHANGED clouds BY <1>4 DEF Sorted
<1> QED BY <1>1, <1>2, <1>3, <1>4
        DEF LidNext, Fail, Recover, ImuCallback, ScanArrives, FlagArrives,
          Tick, lidVars

(* A lidar whose scan is handled late is still on at the next pass.        *)
LEMMA StaysOn ==
  ASSUME LidTypeOK, Tick \/ NextPeriod, NEW l \in Lidars,
         NEW b \in {0, ScanTicks},
         cnt[l] <= phase + b, NextPeriod => b = 0
  PROVE  /\ On(l)'
         /\ Tick => cnt'[l] <= phase' + b
         /\ NextPeriod => cnt'[l] <= phase' + ScanTicks
<1>1. Watch /\ Passed BY DEF Tick, NextPeriod
<1>2. (On(l)' <=> cnt'[l] <= Dog) /\ cnt'[l] = IF cnt[l] > Dog THEN cnt[l]
        ELSE cnt[l] + 1
  BY <1>1, PassDoes
<1>3. cnt[l] \in 0 .. Dog + 1 /\ phase \in 0 .. ScanTicks - 1 BY DEF LidTypeOK
<1>4. CASE Tick
  <2>1. phase' = phase + 1 /\ phase < ScanTicks - 1 BY <1>4 DEF Tick
  <2>2. ~NextPeriod BY <1>3, <2>1, QuietIs DEF NextPeriod, LidBounds
  <2> QED BY <1>2, <1>3, <2>1, <2>2, QuietIs DEF LidBounds
<1>5. CASE NextPeriod
  <2>1. phase' = 0 /\ phase = ScanTicks - 1 BY <1>5 DEF NextPeriod
  <2>2. ~Tick BY <1>3, <2>1, QuietIs DEF Tick, LidBounds
  <2> QED BY <1>2, <1>3, <1>5, <2>1, <2>2, QuietIs DEF LidBounds
<1> QED BY <1>4, <1>5

(* Every step keeps a lidar on while its scans wait on the topic.          *)
LEMMA QueueHolds ==
  ASSUME LidTypeOK, Sorted, Queue, [LidNext]_lidVars
  PROVE  Queue'
<1> USE DEF lidars, monitor, buffer, mapper
<1>0. LidBounds /\ phase \in 0 .. ScanTicks - 1 BY LidBoundsHold DEF LidTypeOK
<1> SUFFICES ASSUME NEW l \in Lidars, NEW s \in 0 .. 1, <<l, s>> \in waiting'
             PROVE  /\ On(l)' /\ cnt'[l] <= phase' + Late(s = 1)
                    /\ s = 0 => l \notin inbox'
  BY DEF Queue, Late
<1>a. cnt[l] \in 0 .. Dog + 1 BY DEF LidTypeOK
<1>1. ASSUME NEW k \in Lidars, LidarCallback(k)
      PROVE  /\ On(l)' /\ cnt'[l] <= phase' + Late(s = 1)
             /\ s = 0 => l \notin inbox'
  <2>1. /\ k \notin inbox' /\ inbox' \subseteq inbox /\ cnt'[k] = 0
        /\ (l # k => cnt'[l] = cnt[l])
        /\ UNCHANGED <<phase, lidar_flag>>
    BY <1>1 DEF LidarCallback, LidTypeOK
  <2>2. CASE <<l, s>> \in waiting
    <3>1. On(l) /\ cnt[l] <= phase + Late(s = 1) /\ (s = 0 => l \notin inbox)
      BY <2>2 DEF Queue
    <3>2. s = 0 => l \notin inbox' BY <2>1, <3>1
    <3>3. cnt'[l] <= phase' + Late(s = 1)
      BY <1>0, <1>a, <2>1, <3>1 DEF Late, LidBounds
    <3> QED BY <2>1, <3>1, <3>2, <3>3 DEF On
  <2>3. CASE l = k /\ s = 0 /\ PassesOn(k)
    <3>1. On(k) BY <2>3, OnIs DEF PassesOn
    <3> QED BY <1>0, <2>1, <2>3, <3>1 DEF On, Late, LidBounds
  <2> QED BY <1>1, <2>2, <2>3, PassOnDoes
<1>2. CASE CloudArrives
  <2>1. <<l, s>> \in waiting BY <1>2, CloudDoes
  <2>2. UNCHANGED <<lidar_flag, cnt, phase, inbox>> BY <1>2 DEF CloudArrives
  <2> QED BY <2>1, <2>2 DEF Queue, On, Late
<1>3. CASE Tick
  <2>1. UNCHANGED <<clouds, inbox>> BY <1>3 DEF Tick
  <2>2. <<l, s>> \in waiting BY <2>1, SameWaiting
  <2>3. Late(s = 1) \in {0, ScanTicks} /\ cnt[l] <= phase + Late(s = 1)
    BY <2>2 DEF Queue, Late
  <2>4. ~NextPeriod BY <1>0, <1>3 DEF Tick, NextPeriod, LidBounds
  <2>5. On(l)' /\ cnt'[l] <= phase' + Late(s = 1) BY <1>3, <2>3, <2>4, StaysOn
  <2> QED BY <2>1, <2>2, <2>5 DEF Queue
<1>4. CASE NextPeriod
  <2>1. s = 1 /\ <<l, 0>> \in waiting BY <1>4, WaitAge DEF NextPeriod
  <2>2. cnt[l] <= phase + 0 BY <1>0, <1>a, <2>1 DEF Queue, Late, LidBounds
  <2>3. On(l)' /\ cnt'[l] <= phase' + ScanTicks BY <1>4, <2>2, StaysOn
  <2> QED BY <2>1, <2>3 DEF Late
<1>5. CASE UNCHANGED <<clouds, lidar_flag, cnt, phase, inbox>>
  <2>1. <<l, s>> \in waiting BY <1>5, SameWaiting
  <2> QED BY <1>5, <2>1 DEF Queue, On, Late
<1> QED BY <1>1, <1>2, <1>3, <1>4, <1>5
        DEF LidNext, Fail, Recover, ImuCallback, ScanArrives, FlagArrives,
          lidVars

(* The scans of a lidar just gone are merged while it is still held for    *)
(* working.                                                                *)
LEMMA MergingIsOn ==
  ASSUME LidTypeOK, Scans, Watched, ToldZero, merge_flag = 0,
         mapbox \union pair = Lidars
  PROVE  /\ lidar_flag = 0
         /\ \A l \in Lidars : On(l) /\ cnt[l] <= phase + Late(l \in inbox)
<1>1. ASSUME NEW l \in Lidars, Settled(l) PROVE l \in up
  BY <1>1 DEF Settled
<1>2. ASSUME NEW l \in Lidars, Leaving(l)
     PROVE On(l) /\ cnt[l] <= phase + Late(l \in inbox)
  <2>1. rest <= phase BY <1>2 DEF Leaving, Scans
  <2> QED BY <1>2, <2>1 DEF Leaving
<1>3. ASSUME NEW l \in Lidars, ~Coming(l)
     PROVE On(l) /\ cnt[l] <= phase + Late(l \in inbox)
  <2>1. CASE Settled(l) BY <1>1, <2>1 DEF Settled
  <2>2. CASE Leaving(l) BY <1>2, <2>2
  <2> QED BY <1>3, <2>1, <2>2 DEF Watched
<1>4. ASSUME NEW l \in Lidars, Coming(l) PROVE FALSE
  <2>1. Settled(Other(l)) BY <1>4 DEF Watched, Coming, Settled
  <2>2. l \in up /\ Other(l) \in up BY <1>1, <1>4, <2>1, TwoLidars DEF Coming
  <2>3. up = Lidars
    <3>1. Lidars = {l, Other(l)} BY TwoLidars
    <3>2. up \subseteq Lidars BY DEF LidTypeOK
    <3> QED BY <2>2, <3>1, <3>2
  <2>4. lidar_flag = 0 BY <2>3 DEF ToldZero
  <2> QED BY <1>4, <2>4 DEF Coming, On
<1>5. \A l \in Lidars : On(l) /\ cnt[l] <= phase + Late(l \in inbox)
  BY <1>3, <1>4
<1> QED BY <1>5, OnIs

(* What the synchroniser hands on, and holds back, when a scan arrives.    *)
LEMMA HandsOn ==
  ASSUME LidTypeOK, Scans, Held, NEW l \in Lidars, ScanArrives(l),
         NEW e \in Lidars \union {Same},
         held' = (held \union Completed(l, e)) \ HandedOn(l, e),
         NEW F, F = {h[2] : h \in HandedOn(l, e)}
  PROVE  /\ l \in mapbox /\ \A k \in Lidars : <<k, 0>> \notin held
         /\ \A h \in held' :
              \/ h \in held /\ h[1] # l
              \/ pair \union {l} = Lidars /\ h[1] \in Lidars /\ h[2] = 0
         /\ \A h \in held : h[1] # l => h \in held'
         /\ F \in SUBSET (0 .. 1)
         /\ 0 \in F => pair \union {l} = Lidars /\ held' = {}
         /\ 1 \in F <=> <<l, 1>> \in held
         /\ pair \union {l} = Lidars =>
              0 \in F \/ \E k \in Lidars : <<k, 0>> \in held'
<1>1. l \in mapbox BY DEF ScanArrives
<1>2. ASSUME NEW k \in Lidars PROVE <<k, 0>> \notin held
  BY <1>1 DEF Held, HeldNow, Scans
<1>3. ASSUME NEW h \in held
      PROVE  h = <<h[1], h[2]>> /\ h[1] \in Lidars /\ h[2] \in 1 .. Old
  <2>1. h = <<h[1], h[2]>> /\ h[1] \in Lidars /\ h[2] \in 0 .. Old
    BY DEF LidTypeOK
  <2>2. h[2] # 0 BY <1>2, <2>1
  <2> QED BY <2>1, <2>2 DEF Old
<1>4. ASSUME NEW h \in held, h[1] = l PROVE h = <<l, 1>>
  <2>1. <<l, Old>> \notin held BY <1>1 DEF Held, HeldLong
  <2>2. h[2] # Old BY <1>3, <1>4, <2>1
  <2> QED BY <1>3, <1>4, <2>2 DEF Old
<1>5. ASSUME NEW h \in held, h[1] # l PROVE pair \union {l} # Lidars
  <2>1. h[1] \notin pair
    <3>1. h = <<h[1], 1>> \/ h = <<h[1], Old>> BY <1>3 DEF Old
    <3> QED BY <1>3, <3>1 DEF Held, HeldBack, HeldLong
  <2> QED BY <1>3, <1>5, <2>1
<1>6. l # Same BY DEF Lidars, Same
<1>7. \A h : h \in HandedOn(l, e) <=>
        \/ h = <<l, 1>> /\ h \in held
        \/ h = <<Same, 0>> /\ e = Same /\ pair \union {l} = Lidars
  <2> TAKE h
  <2>1. h \in Completed(l, e) /\ h[1] = Same <=>
          h = <<Same, 0>> /\ e = Same /\ pair \union {l} = Lidars
    BY DEF Completed
  <2>2. h \in held /\ h[1] = l <=> h = <<l, 1>> /\ h \in held BY <1>4
  <2> QED BY <2>1, <2>2 DEF HandedOn
<1>8. F \in SUBSET (0 .. 1) /\ (1 \in F <=> <<l, 1>> \in held)
        /\ (0 \in F <=> e = Same /\ pair \union {l} = Lidars)
  <2>1. \A x : x \in F <=> \E h \in HandedOn(l, e) : x = h[2] OBVIOUS
  <2>2. <<l, 1>>[2] = 1 /\ <<Same, 0>>[2] = 0 OBVIOUS
  <2>3. ASSUME NEW x \in F
        PROVE  \/ x = 1 /\ <<l, 1>> \in held
               \/ x = 0 /\ e = Same /\ pair \union {l} = Lidars
    <3>1. PICK h \in HandedOn(l, e) : x = h[2] BY <2>1
    <3> QED BY <1>7, <2>2, <3>1
  <2>4. <<l, 1>> \in held => 1 \in F BY <1>7, <2>1, <2>2
  <2>5. e = Same /\ pair \union {l} = Lidars => 0 \in F BY <1>7, <2>1, <2>2
  <2> QED BY <2>3, <2>4, <2>5
<1>9. \A h : h \in Completed(l, e) <=>
        h = <<e, 0>> /\ pair \union {l} = Lidars
  BY DEF Completed
<1>10. \A h : h \in held' <=>
        \/ h \in held /\ h[1] # l
        \/ h = <<e, 0>> /\ e # Same /\ pair \union {l} = Lidars
  <2> TAKE h
  <2>1. h \in held' <=>
          (h \in held \/ (h = <<e, 0>> /\ pair \union {l} = Lidars))
            /\ ~(h = <<l, 1>> /\ h \in held)
            /\ ~(h = <<Same, 0>> /\ e = Same /\ pair \union {l} = Lidars)
    BY <1>7, <1>9
  <2>2. h \in held => h[1] # Same /\ (h[1] = l <=> h = <<l, 1>>)
    BY <1>3, <1>4, <1>6 DEF Lidars, Same
  <2>3. <<e, 0>> # <<l, 1>> OBVIOUS
  <2>4. h \in held => h # <<Same, 0>> BY <2>2
  <2>5. CASE h \in held BY <2>1, <2>2, <2>3, <2>4, <2>5
  <2>6. CASE h \notin held
    <3>1. h = <<e, 0>> => (h = <<Same, 0>> <=> e = Same) OBVIOUS
    <3> QED BY <2>1, <2>6, <3>1
  <2> QED BY <2>5, <2>6
<1>11. 0 \in F => held' = {} BY <1>5, <1>8, <1>10
<1>12. ASSUME pair \union {l} = Lidars
       PROVE  0 \in F \/ \E k \in Lidars : <<k, 0>> \in held'
  BY <1>8, <1>10, <1>12
<1>13. \A h \in held' :
         \/ h \in held /\ h[1] # l
         \/ pair \union {l} = Lidars /\ h[1] \in Lidars /\ h[2] = 0
  <2>1. <<e, 0>>[1] = e /\ <<e, 0>>[2] = 0 /\ (e # Same => e \in Lidars)
    OBVIOUS
  <2> TAKE h \in held'
  <2>2. CASE h \in held /\ h[1] # l BY <2>2
  <2>3. CASE ~(h \in held /\ h[1] # l)
    <3>1. h = <<e, 0>> /\ e # Same /\ pair \union {l} = Lidars
      BY <1>10, <2>3
    <3> QED BY <2>1, <3>1
  <2> QED BY <2>2, <2>3
<1>14. \A h \in held : h[1] # l => h \in held' BY <1>10
<1> QED BY <1>1, <1>2, <1>8, <1>11, <1>12, <1>13, <1>14

(* lidarCallback: what was handed on is accepted, when the flag is 0 and   *)
(* it is no older than the last accepted.                                  *)
LEMMA ScanDoes ==
  ASSUME LidTypeOK, Scans, Held, NEW l \in Lidars, ScanArrives(l)
  PROVE  /\ l \in mapbox /\ \A k \in Lidars : <<k, 0>> \notin held
         /\ \A h \in held' :
              \/ h \in held /\ h[1] # l
              \/ mapbox \union pair = Lidars /\ mapbox' = {}
                   /\ h[1] \in Lidars /\ h[2] = 0
         /\ \A h \in held : h[1] # l => h \in held'
         /\ \/ /\ merge_flag = 0
               /\ \E F \in SUBSET (0 .. 1) :
                    /\ Accept(Lidars, "2", F)
                    /\ 0 \in F => mapbox \union pair = Lidars
                                    /\ mapbox' = {} /\ held' = {}
                    /\ 1 \in F => <<l, 1>> \in held
            \/ /\ UNCHANGED <<last, frame, gap, used, twice, turns>>
               /\ merge_flag = 0 =>
                    \/ last = 0 \/ (last = 1 /\ frame = "1")
                    \/ /\ <<l, 1>> \notin held
                       /\ mapbox \union pair = Lidars => Matching'
<1>1. mapbox' = mapbox \ {l} /\ pair' = pair \union {l} BY DEF ScanArrives
<1>2. PICK e \in Lidars \union {Same} :
        /\ held' = (held \union Completed(l, e)) \ HandedOn(l, e)
        /\ IF merge_flag = 0
           THEN ComeIn(Lidars, "2", {h[2] : h \in HandedOn(l, e)})
           ELSE UNCHANGED buffer
  BY DEF ScanArrives
<1> DEFINE H == {h[2] : h \in HandedOn(l, e)}
<1>3. /\ l \in mapbox /\ \A k \in Lidars : <<k, 0>> \notin held
      /\ \A h \in held' :
              \/ h \in held /\ h[1] # l
              \/ pair \union {l} = Lidars /\ h[1] \in Lidars /\ h[2] = 0
      /\ \A h \in held : h[1] # l => h \in held'
      /\ H \in SUBSET (0 .. 1)
      /\ 0 \in H => pair \union {l} = Lidars /\ held' = {}
      /\ 1 \in H <=> <<l, 1>> \in held
      /\ pair \union {l} = Lidars =>
              0 \in H \/ \E k \in Lidars : <<k, 0>> \in held'
  BY <1>2, HandsOn
<1>4. pair \union {l} = Lidars =>
        mapbox \union pair = Lidars /\ mapbox' = {}
  BY <1>1, <1>3 DEF Scans, LidTypeOK
<1>5. mapbox \union pair = Lidars =>
        mapbox' # {} \/ pair \union {l} = Lidars
  BY <1>1
<1>6. merge_flag = 0 => ComeIn(Lidars, "2", H) BY <1>2
<1>7. merge_flag # 0 => UNCHANGED <<last, frame, gap, used, twice, turns>>
  BY <1>2 DEF buffer
<1> HIDE DEF H
<1>8. CASE merge_flag = 0
  <2>1. PICK fresh \in Fresh("2", H) :
          IF fresh = {} THEN UNCHANGED buffer ELSE Accept(Lidars, "2", fresh)
    BY <1>6, <1>8 DEF ComeIn
  <2>2. fresh \in SUBSET H BY DEF Fresh
  <2>3. CASE fresh # {}
    <3>1. Accept(Lidars, "2", fresh) BY <2>1, <2>3
    <3>2. fresh \in SUBSET (0 .. 1) BY <1>3, <2>2
    <3> QED BY <1>3, <1>4, <1>8, <2>2, <3>1, <3>2
  <2>4. CASE fresh = {}
    <3>1. UNCHANGED <<last, frame, gap, used, twice, turns>>
      BY <2>1, <2>4 DEF buffer
    <3>2. 1 \in H => last = 0 \/ (last = 1 /\ frame = "1")
      BY <2>4, TwoLidars DEF Fresh, LidTypeOK, Old
    <3>3. 0 \in H => last = 0
      BY <2>4 DEF Fresh, LidTypeOK, Old
    <3>4. ASSUME 0 \notin H, mapbox \union pair = Lidars PROVE Matching'
      BY <1>3, <1>5, <3>4 DEF Matching
    <3> QED BY <1>3, <1>4, <3>1, <3>2, <3>3, <3>4
  <2> QED BY <2>3, <2>4
<1>9. CASE merge_flag # 0
  BY <1>3, <1>4, <1>7, <1>9
<1> QED BY <1>8, <1>9

(* Every step keeps a lidar on while its accepted scans are recent.        *)
LEMMA UsedHolds ==
  ASSUME LidTypeOK, Scans, Watched, Sorted, Queue, Used, MergedBefore,
         Held, ToldZero, [LidNext]_lidVars
  PROVE  Used'
<1> USE DEF lidars, monitor, buffer, mapper
<1>0. LidBounds /\ phase \in 0 .. ScanTicks - 1 BY LidBoundsHold DEF LidTypeOK
<1> SUFFICES ASSUME NEW l \in Lidars, NEW s \in 0 .. 1, <<l, s>> \in used'
             PROVE  /\ On(l)' /\ cnt'[l] <= phase' + Late(s = 1
                         \/ l \in inbox')
                    /\ <<Other(l), s>> \notin used' =>
                         /\ s = 0 => l \notin inbox'
                         /\ \A t \in 0 .. 1 : <<l, t>> \in waiting' => t < s
  BY DEF Used, Late
<1>a. cnt[l] \in 0 .. Dog + 1 /\ Other(l) \in Lidars /\ Other(l) # l
  BY TwoLidars DEF LidTypeOK
<1>b. <<l, s>> \in used =>
        /\ On(l) /\ cnt[l] <= phase + Late(s = 1 \/ l \in inbox)
        /\ <<Other(l), s>> \notin used =>
             /\ s = 0 => l \notin inbox
             /\ \A t \in 0 .. 1 : <<l, t>> \in waiting => t < s
  BY DEF Used
<1>1. ASSUME NEW k \in Lidars, LidarCallback(k)
      PROVE  /\ On(l)' /\ cnt'[l] <= phase' + Late(s = 1 \/ l \in inbox')
             /\ <<Other(l), s>> \notin used' =>
                  /\ s = 0 => l \notin inbox'
                  /\ \A t \in 0 .. 1 : <<l, t>> \in waiting' => t < s
  <2>1. /\ k \in inbox /\ k \notin inbox' /\ inbox' \subseteq inbox
        /\ cnt'[k] = 0
        /\ (l # k => cnt'[l] = cnt[l] /\ (l \in inbox <=> l \in inbox'))
        /\ UNCHANGED <<phase, lidar_flag, used>>
    BY <1>1 DEF LidarCallback, LidTypeOK
  <2>2. On(l)' BY <1>b, <2>1 DEF On
  <2>3. cnt'[l] <= phase' + Late(s = 1 \/ l \in inbox')
    BY <1>0, <1>a, <1>b, <2>1 DEF Late, LidBounds
  <2>4. ASSUME <<Other(l), s>> \notin used'
        PROVE  /\ s = 0 => l \notin inbox'
               /\ \A t \in 0 .. 1 : <<l, t>> \in waiting' => t < s
    <3>1. (s = 0 => l \notin inbox) /\ \A t \in 0 .. 1 :
            <<l, t>> \in waiting => t < s
      BY <1>b, <2>1, <2>4
    <3>2. s = 0 => l \notin inbox' BY <2>1, <3>1
    <3>3. ASSUME NEW t \in 0 .. 1, <<l, t>> \in waiting' PROVE t < s
      <4>1. <<l, t>> \in waiting \/ (l = k /\ t = 0) BY <1>1, <3>3, PassOnDoes
      <4> QED BY <2>1, <3>1, <4>1
    <3> QED BY <3>2, <3>3
  <2> QED BY <2>2, <2>3, <2>4
<1>2. ASSUME NEW k \in Lidars, ScanArrives(k)
      PROVE  /\ On(l)' /\ cnt'[l] <= phase' + Late(s = 1 \/ l \in inbox')
             /\ <<Other(l), s>> \notin used' =>
                  /\ s = 0 => l \notin inbox'
                  /\ \A t \in 0 .. 1 : <<l, t>> \in waiting' => t < s
  <2>1. UNCHANGED <<lidar_flag, cnt, phase, inbox, clouds>>
    BY <1>2 DEF ScanArrives
  <2>2. UNCHANGED waiting BY <2>1, SameWaiting
  <2>3. CASE UNCHANGED used
    BY <1>b, <2>1, <2>2, <2>3 DEF On
  <2>4. ASSUME NEW F \in SUBSET (0 .. 1), merge_flag = 0,
               Accept(Lidars, "2", F),
               0 \in F => mapbox \union pair = Lidars,
               1 \in F => <<k, 1>> \in held
        PROVE  /\ On(l)' /\ cnt'[l] <= phase' + Late(s = 1 \/ l \in inbox')
               /\ <<Other(l), s>> \notin used' =>
                    /\ s = 0 => l \notin inbox'
                    /\ \A t \in 0 .. 1 : <<l, t>> \in waiting' => t < s
    <3>1. \A j \in Lidars, t \in 0 .. 1 :
            <<j, t>> \in used' <=> <<j, t>> \in used \/ t \in F
      BY <2>4, AcceptDoes, TwoLidars
    <3>2. CASE <<l, s>> \in used
      <4>1. <<Other(l), s>> \notin used' => <<Other(l), s>> \notin used
        BY <1>a, <3>1
      <4> QED BY <1>b, <2>1, <2>2, <3>2, <4>1 DEF On
    <3>3. CASE s \in F
      <4>1. <<Other(l), s>> \in used' BY <1>a, <3>1, <3>3
      <4>2. CASE s = 0
        <5>1. On(l) /\ cnt[l] <= phase + Late(l \in inbox)
          BY <2>4, <3>3, <4>2, MergingIsOn
        <5>2. cnt'[l] <= phase' + Late(s = 1 \/ l \in inbox')
          BY <2>1, <4>2, <5>1 DEF Late
        <5> QED BY <2>1, <4>1, <5>1, <5>2 DEF On
      <4>3. CASE s = 1
        <5>1. lidar_flag = 0 /\ cnt[l] <= phase + ScanTicks
          BY <2>4, <3>3, <4>3 DEF Held, HeldBack
        <5>2. On(l)' BY <2>1, <5>1 DEF On
        <5> QED BY <2>1, <4>1, <4>3, <5>1, <5>2 DEF Late
      <4> QED BY <4>2, <4>3
    <3> QED BY <3>1, <3>2, <3>3
  <2>5. \/ UNCHANGED used
        \/ /\ merge_flag = 0
           /\ \E F \in SUBSET (0 .. 1) :
                /\ Accept(Lidars, "2", F)
                /\ 0 \in F => mapbox \union pair = Lidars
                /\ 1 \in F => <<k, 1>> \in held
    BY <1>2, ScanDoes
  <2> QED BY <2>3, <2>4, <2>5
<1>3. ASSUME CloudArrives
      PROVE  /\ On(l)' /\ cnt'[l] <= phase' + Late(s = 1 \/ l \in inbox')
             /\ <<Other(l), s>> \notin used' =>
                  /\ s = 0 => l \notin inbox'
                  /\ \A t \in 0 .. 1 : <<l, t>> \in waiting' => t < s
  <2> DEFINE h == Head(clouds)
  <2>1. UNCHANGED <<lidar_flag, cnt, phase, inbox>> BY <1>3 DEF CloudArrives
  <2>2. /\ h.of \in Lidars /\ h.stamp \in 0 .. 1
        /\ <<h.of, h.stamp>> \in waiting
        /\ \A j \in Lidars, t \in 0 .. 1 :
             <<j, t>> \in waiting'
               <=> <<j, t>> \in waiting /\ ~(j = h.of /\ t = h.stamp)
        /\ \A j \in Lidars, t \in 0 .. 1 : <<j, t>> \in waiting' =>
             j = h.of /\ t < h.stamp
        /\ \/ \A j \in Lidars, t \in 0 .. 1 :
                 <<j, t>> \in used'
                   <=> <<j, t>> \in used \/ (j = h.of /\ t = h.stamp)
           \/ UNCHANGED used
    BY <1>3, CloudDoes
  <2> HIDE DEF h
  <2>3. <<Other(l), s>> \in used => <<Other(l), s>> \in used' BY <1>a, <2>2
  <2>4. CASE <<l, s>> \in used
    <3>1. On(l)' /\ cnt'[l] <= phase' + Late(s = 1 \/ l \in inbox')
      BY <1>b, <2>1, <2>4 DEF On
    <3> QED BY <1>b, <2>1, <2>2, <2>3, <2>4, <3>1
  <2>5. CASE l = h.of /\ s = h.stamp
    <3>1. On(l) /\ cnt[l] <= phase + Late(s = 1) /\ (s = 0 => l \notin inbox)
      BY <2>2, <2>5 DEF Queue
    <3>2. On(l)' /\ cnt'[l] <= phase' + Late(s = 1 \/ l \in inbox')
      BY <1>0, <1>a, <2>1, <3>1 DEF On, Late, LidBounds
    <3> QED BY <2>1, <2>2, <2>5, <3>1, <3>2
  <2> QED BY <2>2, <2>4, <2>5
<1>4. CASE Tick
  <2>1. UNCHANGED <<clouds, inbox, used>> BY <1>4 DEF Tick
  <2>2. UNCHANGED waiting BY <2>1, SameWaiting
  <2>3. Late(s = 1 \/ l \in inbox) \in {0, ScanTicks}
        /\ cnt[l] <= phase + Late(s = 1 \/ l \in inbox)
    BY <1>b, <2>1 DEF Late
  <2>4. ~NextPeriod BY <1>0, <1>4 DEF Tick, NextPeriod, LidBounds
  <2>5. On(l)' /\ cnt'[l] <= phase' + Late(s = 1 \/ l \in inbox)
    BY <1>4, <2>3, <2>4, StaysOn
  <2> QED BY <1>b, <2>1, <2>2, <2>5
<1>5. CASE NextPeriod
  <2>1. s = 1 /\ <<l, 0>> \in used BY <1>5, AgeDoes
  <2>2. inbox = {} BY <1>5 DEF NextPeriod
  <2>3. cnt[l] <= phase + 0
    <3>1. \A u \in 0 .. 1 : <<l, u>> \in used =>
            cnt[l] <= phase + Late(u = 1 \/ l \in inbox)
      BY DEF Used
    <3>2. cnt[l] <= phase + Late(0 = 1 \/ l \in inbox) BY <2>1, <3>1
    <3> QED BY <1>0, <1>a, <2>2, <3>2 DEF Late, LidBounds
  <2>4. On(l)' /\ cnt'[l] <= phase' + ScanTicks BY <1>5, <2>3, StaysOn
  <2>5. ASSUME <<Other(l), s>> \notin used', NEW t \in 0 .. 1,
               <<l, t>> \in waiting'
       PROVE FALSE
    <3>1. <<Other(l), 0>> \notin used BY <1>5, <1>a, <2>1, <2>5, AgeDoes
    <3>2. <<l, 0>> \in waiting BY <1>5, <2>5, WaitAge DEF NextPeriod
    <3>3. \A v \in 0 .. 1 : <<l, v>> \in used /\ <<Other(l), v>> \notin used =>
               \A u \in 0 .. 1 : <<l, u>> \in waiting => u < v
      BY DEF Used
    <3>4. \A u \in 0 .. 1 : <<l, u>> \in waiting => u < 0 BY <2>1, <3>1, <3>3
    <3> QED BY <3>2, <3>4
  <2> QED BY <2>1, <2>4, <2>5 DEF Late
<1>6. CASE UNCHANGED <<used, clouds, lidar_flag, cnt, phase, inbox>>
  <2>1. UNCHANGED waiting BY <1>6, SameWaiting
  <2> QED BY <1>b, <1>6, <2>1 DEF On
<1> QED BY <1>1, <1>2, <1>3, <1>4, <1>5, <1>6
        DEF LidNext, Fail, Recover, ImuCallback, FlagArrives, lidVars

(* Scans merged are the last Point-LIO receives in a period.               *)
LEMMA MergedLastHolds ==
  ASSUME LidTypeOK, Scans, Sorted, MergedLast, MergedBefore, Held,
         [LidNext]_lidVars
  PROVE  MergedLast'
<1> USE DEF lidars, monitor, buffer, mapper
<1> SUFFICES ASSUME \A l \in Lidars : <<l, 0>> \in used' PROVE mapbox' = {}
  BY DEF MergedLast
<1>0. 0 \in 0 .. 1 /\ \A l \in Lidars : Other(l) \in Lidars /\ Other(l) # l
  BY TwoLidars
<1>1. ASSUME NEW k \in Lidars, ScanArrives(k) PROVE mapbox' = {}
  <2>1. CASE UNCHANGED used
    <3>1. mapbox = {} BY <2>1 DEF MergedLast
    <3> QED BY <1>1, <3>1 DEF ScanArrives
  <2>2. ASSUME NEW F \in SUBSET (0 .. 1), Accept(Lidars, "2", F),
               0 \in F => mapbox' = {}
        PROVE  mapbox' = {}
    <3>1. \A j \in Lidars, t \in 0 .. 1 :
            <<j, t>> \in used' <=> <<j, t>> \in used \/ t \in F
      BY <2>2, AcceptDoes, TwoLidars
    <3>2. CASE 0 \notin F
      <4>1. mapbox = {} BY <1>0, <3>1, <3>2 DEF MergedLast
      <4> QED BY <1>1, <4>1 DEF ScanArrives
    <3> QED BY <2>2, <3>2
  <2>3. \/ UNCHANGED used
        \/ \E F \in SUBSET (0 .. 1) :
             Accept(Lidars, "2", F) /\ (0 \in F => mapbox' = {})
    BY <1>1, ScanDoes
  <2> QED BY <2>1, <2>2, <2>3
<1>2. CASE CloudArrives
  <2> DEFINE h == Head(clouds)
  <2>1. /\ h.of \in Lidars /\ h.stamp \in 0 .. 1
        /\ <<h.of, h.stamp>> \in waiting
        /\ \/ \A j \in Lidars, t \in 0 .. 1 :
                 <<j, t>> \in used'
                   <=> <<j, t>> \in used \/ (j = h.of /\ t = h.stamp)
           \/ UNCHANGED used
    BY <1>2, CloudDoes
  <2>2. UNCHANGED mapbox BY <1>2 DEF CloudArrives
  <2> HIDE DEF h
  <2>3. \A l \in Lidars : l # h.of => <<l, 0>> \in used BY <1>0, <2>1
  <2>4. <<h.of, 0>> \in used BY <1>0, <2>1, <2>3 DEF MergedBefore
  <2> QED BY <2>2, <2>3, <2>4 DEF MergedLast
<1>3. CASE NextPeriod
  BY <1>3, TwoLidars, AgeDoes
<1>4. CASE UNCHANGED <<used, mapbox>>
  BY <1>4 DEF MergedLast
<1> QED BY <1>1, <1>2, <1>3, <1>4
        DEF LidNext, Fail, Recover, LidarCallback, ImuCallback, FlagArrives,
          Tick, lidVars

(* Scans of one lidar wait on the topic only if the other's were merged,   *)
(* at the latest when those were scanned.                                  *)
LEMMA MergedBeforeHolds ==
  ASSUME LidTypeOK, Scans, Sorted, Queue, Used, MergedBefore, Held,
         [LidNext]_lidVars
  PROVE  MergedBefore'
<1> USE DEF lidars, monitor, buffer, mapper
<1> SUFFICES ASSUME NEW l \in Lidars, NEW s \in 0 .. 1, NEW t \in 0 .. 1,
                    <<l, t>> \in waiting', <<Other(l), s>> \in used'
             PROVE  <<l, s>> \in used' /\ s <= t
  BY DEF MergedBefore
<1>0. Other(l) \in Lidars /\ Other(l) # l /\ 0 \in 0 .. 1 BY TwoLidars
<1>a. <<l, t>> \in waiting /\ <<Other(l), s>> \in used =>
        <<l, s>> \in used /\ s <= t
  BY DEF MergedBefore
<1>1. ASSUME NEW k \in Lidars, LidarCallback(k)
     PROVE <<l, s>> \in used' /\ s <= t
  <2>1. UNCHANGED used BY <1>1 DEF LidarCallback
  <2>2. CASE l = k /\ t = 0 /\ PassesOn(k)
    <3>1. On(Other(l)) BY <1>0, <2>1 DEF Used
    <3> QED BY <2>2, <3>1, OnIs DEF PassesOn
  <2>3. CASE <<l, t>> \in waiting BY <1>a, <2>1, <2>3
  <2> QED BY <1>1, <2>2, <2>3, PassOnDoes
<1>2. ASSUME NEW k \in Lidars, ScanArrives(k)
     PROVE <<l, s>> \in used' /\ s <= t
  <2>1. UNCHANGED waiting BY <1>2, SameWaiting DEF ScanArrives
  <2>2. CASE UNCHANGED used BY <1>a, <2>1, <2>2
  <2>3. ASSUME NEW F \in SUBSET (0 .. 1), Accept(Lidars, "2", F),
               1 \in F => <<k, 1>> \in held
        PROVE  <<l, s>> \in used' /\ s <= t
    <3>1. \A j \in Lidars, u \in 0 .. 1 :
            <<j, u>> \in used' <=> <<j, u>> \in used \/ u \in F
      BY <2>3, AcceptDoes, TwoLidars
    <3>2. CASE <<Other(l), s>> \in used BY <1>a, <2>1, <3>1, <3>2
    <3>3. CASE s \in F
      <4>1. <<l, s>> \in used' BY <3>1, <3>3
      <4>2. s <= t
        <5>1. s = 1 => <<l, 0>> \notin waiting
          BY <2>3, <3>3 DEF Held, HeldBack
        <5>2. <<l, t>> \in waiting BY <2>1
        <5> QED BY <5>1, <5>2
      <4> QED BY <4>1, <4>2
    <3> QED BY <1>0, <3>1, <3>2, <3>3
  <2>4. \/ UNCHANGED used
        \/ \E F \in SUBSET (0 .. 1) :
             Accept(Lidars, "2", F) /\ (1 \in F => <<k, 1>> \in held)
    BY <1>2, ScanDoes
  <2> QED BY <2>2, <2>3, <2>4
<1>3. CASE CloudArrives
  <2> DEFINE h == Head(clouds)
  <2>1. /\ h.of \in Lidars /\ h.stamp \in 0 .. 1
        /\ \A j \in Lidars, u \in 0 .. 1 :
             <<j, u>> \in waiting'
               <=> <<j, u>> \in waiting /\ ~(j = h.of /\ u = h.stamp)
        /\ \A j \in Lidars, u \in 0 .. 1 : <<j, u>> \in waiting' =>
             j = h.of /\ u < h.stamp
        /\ \/ \A j \in Lidars, u \in 0 .. 1 :
                 <<j, u>> \in used'
                   <=> <<j, u>> \in used \/ (j = h.of /\ u = h.stamp)
           \/ UNCHANGED used
    BY <1>3, CloudDoes
  <2> HIDE DEF h
  <2> QED BY <1>0, <1>a, <2>1
<1>4. CASE NextPeriod
  <2>1. t = 1 /\ <<l, 0>> \in waiting BY <1>4, WaitAge DEF NextPeriod
  <2>2. s = 1 /\ <<Other(l), 0>> \in used BY <1>0, <1>4, AgeDoes
  <2>3. <<l, 0>> \in used BY <1>0, <2>1, <2>2 DEF MergedBefore
  <2> QED BY <1>4, <2>1, <2>2, <2>3, AgeDoes
<1>5. CASE UNCHANGED <<used, clouds>>
  BY <1>5, <1>a, SameWaiting
<1> QED BY <1>1, <1>2, <1>3, <1>4, <1>5
        DEF LidNext, Fail, Recover, ImuCallback, FlagArrives, Tick, lidVars

(* The last stamp is that of a scan in the frame it was accepted in.       *)
LEMMA LastUsedHolds ==
  ASSUME LidTypeOK, Scans, Sorted, LastUsed, Held, [LidNext]_lidVars
  PROVE  LastUsed'
<1> USE DEF lidars, monitor, buffer, mapper
<1>0. LidBounds /\ phase \in 0 .. ScanTicks - 1 /\ gap \in Nat
  BY LidBoundsHold DEF LidTypeOK
<1>1. ASSUME NEW ls \in SUBSET Lidars, NEW S \in SUBSET (0 .. 1),
             NEW f \in Lidars, f \in ls, Accept(ls, f, S), UNCHANGED phase
      PROVE  LastUsed'
  <2>1. last' \in S /\ frame' = f /\ gap' = 0 BY <1>1, AcceptDoes
  <2>2. <<f, last'>> \in used' BY <1>1, <2>1, AcceptDoes
  <2> QED BY <1>0, <1>1, <2>1, <2>2 DEF LastUsed, Late, LidBounds
<1>2. CASE UNCHANGED <<last, frame, used, gap, phase>>
  BY <1>2 DEF LastUsed, Late
<1>3. CASE CloudArrives
  <2> DEFINE h == Head(clouds)
  <2>1. h.of \in Lidars /\ h.stamp \in 0 .. 1
        /\ \/ Accept({h.of}, h.of, {h.stamp})
           \/ UNCHANGED <<last, frame, gap, used, twice, turns>>
    BY <1>3, CloudDoes
  <2>2. UNCHANGED phase BY <1>3 DEF CloudArrives
  <2> HIDE DEF h
  <2>3. {h.of} \in SUBSET Lidars /\ {h.stamp} \in SUBSET (0 .. 1)
          /\ h.of \in {h.of}
    BY <2>1
  <2>4. CASE Accept({h.of}, h.of, {h.stamp}) BY <1>1, <2>1, <2>2, <2>3, <2>4
  <2> QED BY <1>2, <2>1, <2>2, <2>4
<1>4. ASSUME NEW l \in Lidars, ScanArrives(l) PROVE LastUsed'
  <2>1. UNCHANGED phase BY <1>4 DEF ScanArrives
  <2>2. ASSUME NEW F \in SUBSET (0 .. 1), Accept(Lidars, "2", F)
        PROVE  LastUsed'
    BY <1>1, <2>1, <2>2, TwoLidars
  <2>3. \/ UNCHANGED <<last, frame, gap, used, twice, turns>>
        \/ \E F \in SUBSET (0 .. 1) : Accept(Lidars, "2", F)
    BY <1>4, ScanDoes
  <2> QED BY <1>2, <2>1, <2>2, <2>3
<1>5. CASE NextPeriod
  <2>1. UNCHANGED frame /\ frame \in Lidars /\ last \in 0 .. 2
    BY <1>5 DEF NextPeriod, Passed, LidTypeOK, Old
  <2>2. last' = IF last < 2 THEN last + 1 ELSE last
    BY <1>5, <2>1 DEF NextPeriod, Older, Old
  <2>3. CASE last = 0
    <3>1. <<frame, 0>> \in used BY <2>3 DEF LastUsed, Old
    <3>2. <<frame, 1>> \in used' BY <1>5, <2>1, <3>1, AgeDoes
    <3>3. gap <= phase BY <1>0, <2>3 DEF LastUsed, Old, Late, LidBounds
    <3>4. phase = ScanTicks - 1 /\ phase' = 0 BY <1>5 DEF NextPeriod
    <3>5. gap' <= ScanTicks
      <4>1. gap' = 0 \/ gap' <= gap + 1 BY <1>5, PassDoes DEF NextPeriod
      <4>2. gap' \in 0 .. GapCap BY <1>5, PassTypes DEF NextPeriod
      <4> QED BY <1>0, <3>3, <3>4, <4>1, <4>2 DEF LidBounds
    <3>6. last' = 1 BY <2>2, <2>3
    <3> QED BY <1>0, <2>1, <3>2, <3>4, <3>5, <3>6
            DEF LastUsed, Late, LidBounds
  <2>4. CASE last # 0
    BY <2>1, <2>2, <2>4 DEF LastUsed, Old
  <2> QED BY <2>3, <2>4
<1>6. CASE Tick
  <2>1. Watch /\ Passed /\ phase' = phase + 1 /\ UNCHANGED <<last, used>>
    BY <1>6 DEF Tick
  <2>2. UNCHANGED frame /\ (gap' = 0 \/ gap' <= gap + 1) BY <2>1, PassDoes
  <2>3. gap' \in 0 .. GapCap BY <2>1, PassTypes
  <2> QED BY <1>0, <2>1, <2>2, <2>3 DEF LastUsed, Late, LidBounds
<1> QED BY <1>2, <1>3, <1>4, <1>5, <1>6
        DEF LidNext, Fail, Recover, LidarCallback, ImuCallback, FlagArrives,
          lidVars

-----------------------------------------------------------------------------
(* How long the watchdogs take, at most.                                   *)
LEMMA SettlingIs ==
  /\ Settling \in Nat /\ Settling >= 2 * ScanTicks - 1
  /\ Settling <= Dog + ScanTicks - 1
  /\ up = Lidars => Settling = 2 * ScanTicks - 1
  /\ up # Lidars => Settling = Dog + ScanTicks - 1
  BY QuietIs DEF Settling, LidBounds

(* lidarFlagCallback: the oldest flag under way is received; the last      *)
(* published stays the last.                                               *)
LEMMA FlagArrivesDoes ==
  ASSUME LidTypeOK, FlagArrives
  PROVE  /\ 1 \in DOMAIN flags /\ merge_flag' = flags[1] /\ latest' = latest
         /\ \A i \in DOMAIN flags' :
              i + 1 \in DOMAIN flags /\ flags'[i] = flags[i + 1]
                /\ i \in 1 .. Len(flags)
<1>1. flags \in Seq(0 .. 3) /\ flags # <<>> /\ merge_flag' = Head(flags)
        /\ flags' = Tail(flags)
  BY DEF LidTypeOK, FlagArrives
<1>2. Len(flags) \in Nat /\ Len(flags) >= 1 /\ DOMAIN flags = 1 .. Len(flags)
        /\ merge_flag' = flags[1]
      /\ Len(flags') = Len(flags) - 1 /\ DOMAIN flags' = 1 .. Len(flags) - 1
      /\ \A i \in 1 .. Len(flags) - 1 : flags'[i] = flags[i + 1]
  BY <1>1
<1>3. latest' = latest
  <2>1. latest = flags[Len(flags)] BY <1>1 DEF latest
  <2>2. CASE Len(flags) = 1
    <3>0. flags' \in Seq(0 .. 3) /\ Len(flags') = 0 BY <1>1, <1>2, <2>2
    <3>1. flags' = <<>> BY <3>0
    <3> QED BY <1>2, <2>1, <2>2, <3>1 DEF latest
  <2>3. CASE Len(flags) # 1
    <3>a. Len(flags') # 0 BY <1>2, <2>3
    <3>1. flags' # <<>> BY <3>a
    <3>2. Len(flags) - 1 \in 1 .. Len(flags) - 1
            /\ (Len(flags) - 1) + 1 = Len(flags)
      BY <1>2, <2>3
    <3>3. flags'[Len(flags')] = flags[Len(flags)] BY <1>2, <3>2
    <3> QED BY <2>1, <3>1, <3>3 DEF latest
  <2> QED BY <2>2, <2>3
<1>4. \A i \in DOMAIN flags' :
        i + 1 \in DOMAIN flags /\ flags'[i] = flags[i + 1]
          /\ i \in 1 .. Len(flags)
  BY <1>2
<1> QED BY <1>2, <1>3, <1>4

(* Every PubEvery-th pass publishes the flag it has computed.              *)
LEMMA PublishDoes ==
  ASSUME LidTypeOK, Watch, Passed
  PROVE  \/ /\ pub_cnt + 1 = PubEvery /\ pub_cnt' = 0 /\ latest' = lidar_flag'
            /\ \A i \in DOMAIN flags' :
                 (i \in DOMAIN flags /\ flags'[i] = flags[i])
                 \/ (i \in Nat /\ flags'[i] = lidar_flag'
                      /\ \A j \in DOMAIN flags : j < i)
         \/ /\ pub_cnt + 1 # PubEvery /\ pub_cnt' = pub_cnt + 1
            /\ latest' = latest /\ UNCHANGED flags
<1>1. flags \in Seq(0 .. 3) /\ lidar_flag' \in 0 .. 3
  BY PassTypes DEF LidTypeOK
<1>2. CASE pub_cnt + 1 = PubEvery
  <2>1. pub_cnt' = 0 /\ flags' = Append(flags, lidar_flag') BY <1>2, PassDoes
  <2>2. Len(flags) \in Nat /\ DOMAIN flags = 1 .. Len(flags)
          /\ Len(flags') = Len(flags) + 1
        /\ DOMAIN flags' = 1 .. Len(flags) + 1
        /\ flags'[Len(flags) + 1] = lidar_flag' /\ \A i \in 1 .. Len(flags) :
             flags'[i] = flags[i]
    BY <1>1, <2>1
  <2>3. flags' # <<>> BY <2>2, <1>1, <2>1
  <2>4. latest' = lidar_flag' BY <2>2, <2>3 DEF latest
  <2>a. flags' \in Seq(0 .. 3) BY <1>1, <2>1
  <2>5. ASSUME NEW i \in DOMAIN flags'
        PROVE  (i \in DOMAIN flags /\ flags'[i] = flags[i])
               \/ (i \in Nat /\ flags'[i] = lidar_flag'
                    /\ \A j \in DOMAIN flags : j < i)
    BY <2>2
  <2>6. \A i \in DOMAIN flags' :
                 (i \in DOMAIN flags /\ flags'[i] = flags[i])
                 \/ (i \in Nat /\ flags'[i] = lidar_flag'
                      /\ \A j \in DOMAIN flags : j < i)
    BY <2>5, Zenon
  <2> QED BY <1>2, <2>1, <2>4, <2>6, Zenon
<1>3. CASE pub_cnt + 1 # PubEvery
  <2>1. pub_cnt' = pub_cnt + 1 /\ UNCHANGED <<flags, merge_flag>>
    BY <1>3, PassDoes
  <2> QED BY <1>3, <2>1 DEF latest
<1> QED BY <1>2, <1>3

(* The flag of the next pass is the right one once the watchdogs ran out.  *)
LEMMA FlagIsRight ==
  ASSUME LidTypeOK, Scans, Watched, Tick \/ NextPeriod
  PROVE  lidar_flag' = FlagFor(up) \/ rest' <= Settling
<1> SUFFICES ASSUME ~(rest' <= Settling) PROVE lidar_flag' = FlagFor(up)
  OBVIOUS
<1>0. LidBounds BY LidBoundsHold
<1>1. Watch /\ Passed BY DEF Tick, NextPeriod
<1>2. lidar_flag' \in 0 .. 3 /\ rest' <= rest + 1 /\ up' = up
      /\ phase' \in 0 .. ScanTicks - 1 /\ rest' \in 0 .. Rest
      /\ cnt' \in [Lidars -> 0 .. Dog + 1]
  <2>1. phase' \in 0 .. ScanTicks - 1
    <3>1. CASE Tick BY <1>0, <3>1 DEF Tick, LidTypeOK, LidBounds
    <3>2. CASE NextPeriod BY <1>0, <3>2 DEF NextPeriod, LidBounds
    <3> QED BY <3>1, <3>2
  <2>2. lidar_flag' \in 0 .. 3 /\ rest' \in 0 .. Rest
          /\ cnt' \in [Lidars -> 0 .. Dog + 1]
    BY <1>1, PassTypes
  <2>3. rest' <= rest + 1 /\ up' = up
    <3>1. rest' = (IF rest < Rest THEN rest + 1 ELSE rest) /\ up' = up
      BY <1>1, PassDoes
    <3>2. rest \in 0 .. Rest BY DEF LidTypeOK
    <3> QED BY <3>1, <3>2
  <2> QED BY <2>1, <2>2, <2>3
<1>a. rest' \in Nat /\ phase' \in 0 .. ScanTicks - 1
  BY <1>0, <1>2 DEF LidBounds
<1>b. Settling \in Nat /\ Settling >= 2 * ScanTicks - 1 BY SettlingIs
<1>3. ASSUME NEW l \in Lidars PROVE On(l)' <=> l \in up
  <2>1. CASE Settled(l)'
    BY <1>2, <2>1 DEF Settled
  <2>2. CASE Coming(l)'
    <3>1. rest' <= phase' + ScanTicks \/ rest' <= phase' + 0
      BY <2>2 DEF Coming, Late
    <3> DEFINE r == rest'  p == phase'
    <3>2. r \in Nat /\ p \in 0 .. ScanTicks - 1
            /\ (r <= p + ScanTicks \/ r <= p + 0)
      BY <1>a, <3>1
    <3> HIDE DEF r, p
    <3>3. r <= Settling BY <1>0, <1>b, <3>2 DEF LidBounds
    <3> QED BY <3>3 DEF r
  <2>3. CASE Leaving(l)'
    <3>1. l \notin up /\ rest' <= Dog + ScanTicks - 1
      BY <1>0, <1>2, <2>3 DEF Leaving, LidBounds
    <3> QED BY <3>1, SettlingIs
  <2>4. Settled(l) \/ Coming(l) \/ Leaving(l) BY DEF Watched
  <2> QED BY <2>1, <2>2, <2>3, <2>4, PassWatched
<1>4. up \in SUBSET Lidars BY DEF LidTypeOK
<1>5. \A l \in Lidars : lidar_flag' \in {0, OnlyFlag(l)} <=> l \in up
  BY <1>3 DEF On
<1> QED BY <1>2, <1>4, <1>5, FlagOf

(* Every step keeps the time for which Point-LIO may be told a wrong flag. *)
LEMMA ToldHolds ==
  ASSUME LidTypeOK, Scans, Watched, Told, [LidNext]_lidVars
  PROVE  Told'
<1> USE DEF lidars, monitor, buffer, mapper
<1>0. /\ LidBounds /\ Settling \in Nat /\ phase \in 0 .. ScanTicks - 1
      /\ pub_cnt \in 0 .. PubEvery - 1
      /\ rest \in 0 .. Rest
  BY LidBoundsHold, SettlingIs DEF LidTypeOK
<1>1. ASSUME NEW l \in Lidars, Fail(l) \/ Recover(l) PROVE Told'
  <2>1. rest' = 0 /\ UNCHANGED <<phase, pub_cnt>> BY <1>1 DEF Fail, Recover
  <2>2. Settling' \in Nat
    BY QuietIs DEF Settling, LidBounds
  <2>3. \A s \in Nat : /\ 0 <= s + pub_cnt /\ 0 <= s + phase
                      /\ 0 <= s + PubEvery + phase
    BY <1>0 DEF LidBounds
  <2> QED BY <2>1, <2>2, <2>3 DEF Told
<1>2. CASE FlagArrives
  <2>1. UNCHANGED <<rest, up, phase, pub_cnt>> BY <1>2 DEF FlagArrives
  <2>2. Settling' = Settling BY <2>1 DEF Settling
  <2>3. merge_flag' # FlagFor(up) => rest <= Settling + phase
    BY <1>2, FlagArrivesDoes DEF Told
  <2>4. \A i \in DOMAIN flags' : flags'[i] # FlagFor(up) =>
          rest <= Settling + phase
    BY <1>2, FlagArrivesDoes DEF Told
  <2>5. latest' # FlagFor(up) => rest <= Settling + pub_cnt
    BY <1>2, FlagArrivesDoes DEF Told
  <2>6. merge_flag' # FlagFor(up) => rest <= Settling + PubEvery + phase
    BY <1>0, <2>3 DEF LidBounds
  <2> QED BY <2>1, <2>2, <2>4, <2>5, <2>6 DEF Told
<1>3. CASE Tick \/ NextPeriod
  <2>1. Watch /\ Passed BY <1>3 DEF Tick, NextPeriod
  <2>2. rest' <= rest + 1 /\ rest' \in Nat /\ UNCHANGED <<up, merge_flag>>
    <3>1. rest' \in 0 .. Rest BY <2>1, PassTypes
    <3> QED BY <1>0, <2>1, <3>1, PassDoes
  <2>3. Settling' = Settling BY <2>2 DEF Settling
  <2>4. lidar_flag' # FlagFor(up) => rest' <= Settling BY <1>3, FlagIsRight
  <2>5. latest # FlagFor(up) => rest <= Settling + pub_cnt BY DEF Told
  <2>6. latest' # FlagFor(up) => rest' <= Settling + pub_cnt'
    <3>1. CASE pub_cnt' = 0 /\ latest' = lidar_flag'
      BY <1>0, <2>4, <3>1
    <3>2. CASE pub_cnt' = pub_cnt + 1 /\ latest' = latest
      BY <1>0, <2>2, <2>5, <3>2
    <3> QED BY <2>1, <3>1, <3>2, PublishDoes
  <2>7. phase' \in Nat /\ (Tick => phase' = phase + 1) /\ (NextPeriod =>
          phase' = 0 /\ flags = <<>>)
    BY <1>0, <1>3 DEF Tick, NextPeriod
  <2>8. ASSUME NEW i \in DOMAIN flags', flags'[i] # FlagFor(up)
       PROVE rest' <= Settling + phase'
    <3>1. CASE flags'[i] = lidar_flag'
      <4>1. rest' <= Settling BY <2>4, <2>8, <3>1
      <4> DEFINE r == rest'  p == phase'
      <4>2. r \in Nat /\ p \in Nat /\ r <= Settling BY <2>2, <2>7, <4>1
      <4> HIDE DEF r, p
      <4>3. r <= Settling + p BY <1>0, <4>2
      <4> QED BY <4>3 DEF r, p
    <3>2. CASE i \in DOMAIN flags /\ flags'[i] = flags[i]
      <4>1. rest <= Settling + phase BY <2>8, <3>2 DEF Told
      <4>2. ~NextPeriod BY <2>7, <3>2
      <4>3. phase' = phase + 1 BY <1>3, <2>7, <4>2
      <4>4. rest \in Nat /\ phase \in Nat BY <1>0 DEF LidBounds
      <4> QED BY <1>0, <2>2, <4>1, <4>3, <4>4
    <3> QED BY <2>1, <3>1, <3>2, PublishDoes
  <2>9. ASSUME merge_flag # FlagFor(up)
       PROVE rest' <= Settling + PubEvery + phase'
    <3>1. CASE Tick
      <4>1. rest <= Settling + PubEvery + phase BY <2>9 DEF Told
      <4> QED BY <1>0, <2>2, <2>7, <3>1, <4>1 DEF LidBounds
    <3>2. CASE NextPeriod
      <4>1. latest = merge_flag BY <2>7, <3>2 DEF latest
      <4>2. rest <= Settling + pub_cnt BY <2>5, <2>9, <4>1
      <4> QED BY <1>0, <2>2, <2>7, <3>2, <4>2 DEF LidBounds
    <3> QED BY <1>3, <3>1, <3>2
  <2> QED BY <2>2, <2>3, <2>6, <2>8, <2>9 DEF Told
<1>4. CASE UNCHANGED <<up, rest, phase, pub_cnt, merge_flag, flags>>
  BY <1>4 DEF Told, Settling, latest
<1> QED BY <1>1, <1>2, <1>3, <1>4
        DEF LidNext, LidarCallback, ImuCallback, ScanArrives, CloudArrives,
          lidVars

(* Once Rest passes went by, the monitor, the topic and Point-LIO have the *)
(* right flag.                                                             *)
LEMMA QuietTold ==
  ASSUME LidTypeOK, Watched, Told, rest = Rest
  PROVE  /\ lidar_flag = FlagFor(up) /\ merge_flag = FlagFor(up)
         /\ latest = FlagFor(up)
         /\ \A i \in DOMAIN flags : flags[i] = FlagFor(up)
<1>1. LidBounds /\ phase \in 0 .. ScanTicks - 1
        /\ pub_cnt \in 0 .. PubEvery - 1
  BY LidBoundsHold DEF LidTypeOK
<1>2. Settling \in Nat /\ Settling <= Dog + ScanTicks - 1 BY SettlingIs
<1>3. Rest >= Dog + PubEvery + 3 * ScanTicks - 1 BY QuietIs
<1>4. Rest > Settling + PubEvery + phase BY <1>1, <1>2, <1>3 DEF LidBounds
<1>5. Rest > Settling + phase /\ Rest > Settling + pub_cnt
  BY <1>1, <1>2, <1>4 DEF LidBounds
<1>6. lidar_flag = FlagFor(up)
  <2>1. \A l \in Lidars : On(l) <=> l \in up BY QuietSettled DEF Settled
  <2>2. lidar_flag \in 0 .. 3 /\ up \in SUBSET Lidars BY DEF LidTypeOK
  <2>3. \A l \in Lidars : lidar_flag \in {0, OnlyFlag(l)} <=> l \in up
    BY <2>1 DEF On
  <2> QED BY <2>2, <2>3, FlagOf
<1>7. Rest \in Nat BY <1>1 DEF LidBounds
<1>8. merge_flag = FlagFor(up) BY <1>1, <1>2, <1>4, <1>7 DEF Told, LidBounds
<1>9. latest = FlagFor(up) BY <1>1, <1>2, <1>5, <1>7 DEF Told, LidBounds
<1>10. \A i \in DOMAIN flags : flags[i] = FlagFor(up)
  BY <1>1, <1>2, <1>5, <1>7 DEF Told, LidBounds
<1> QED BY <1>6, <1>8, <1>9, <1>10

(* Every step keeps a flag 0 true while both lidars work.                  *)
LEMMA ToldZeroHolds ==
  ASSUME LidTypeOK, Scans, Watched, Told, ToldZero, [LidNext]_lidVars
  PROVE  ToldZero'
<1> USE DEF lidars, monitor, buffer, mapper
<1>1. ASSUME NEW l \in Lidars, Fail(l) \/ Recover(l) PROVE ToldZero'
  <2>1. up' # up /\ UNCHANGED <<lidar_flag, merge_flag, flags>>
    BY <1>1 DEF Fail, Recover, LidTypeOK
  <2>2. CASE up' = Lidars
    <3>1. up # Lidars BY <2>1, <2>2
    <3>2. FlagFor(up) # 0 BY <3>1, FlagOf DEF LidTypeOK
    <3>3. merge_flag # 0 /\ \A i \in DOMAIN flags : flags[i] # 0
      BY <1>1, <3>2, QuietTold DEF Fail, Recover
    <3> QED BY <2>1, <3>3 DEF ToldZero
  <2> QED BY <2>2 DEF ToldZero
<1>2. CASE FlagArrives
  <2>1. UNCHANGED <<up, lidar_flag>> BY <1>2 DEF FlagArrives
  <2>2. SUFFICES ASSUME up = Lidars
        PROVE  /\ merge_flag' = 0 =>
                    lidar_flag = 0 /\ \A i \in DOMAIN flags' : flags'[i] = 0
               /\ \A i \in DOMAIN flags' : flags'[i] = 0 =>
                    lidar_flag = 0 /\ \A j \in DOMAIN flags' : i <= j =>
                      flags'[j] = 0
    BY <2>1 DEF ToldZero
  <2>3. \A i \in DOMAIN flags : flags[i] = 0 =>
          lidar_flag = 0 /\ \A j \in DOMAIN flags : i <= j => flags[j] = 0
    BY <2>2 DEF ToldZero
  <2>4. 1 \in DOMAIN flags /\ merge_flag' = flags[1] BY <1>2, FlagArrivesDoes
  <2>5. \A i \in DOMAIN flags' :
          i + 1 \in DOMAIN flags /\ flags'[i] = flags[i + 1] /\ i \in Nat
            /\ 1 <= i + 1
    BY <1>2, FlagArrivesDoes
  <2>6. ASSUME merge_flag' = 0
       PROVE lidar_flag = 0 /\ \A i \in DOMAIN flags' : flags'[i] = 0
    BY <2>3, <2>4, <2>5, <2>6
  <2>7. ASSUME NEW i \in DOMAIN flags', flags'[i] = 0
        PROVE  lidar_flag = 0 /\ \A j \in DOMAIN flags' : i <= j =>
                 flags'[j] = 0
    <3>1. lidar_flag = 0 /\ \A j \in DOMAIN flags : i + 1 <= j => flags[j] = 0
      BY <2>3, <2>5, <2>7
    <3>2. ASSUME NEW j \in DOMAIN flags', i <= j PROVE flags'[j] = 0
      <4>1. i + 1 <= j + 1 BY <2>5, <3>2
      <4> QED BY <2>5, <3>1, <4>1
    <3> QED BY <3>1, <3>2
  <2> QED BY <2>6, <2>7
<1>3. CASE Tick \/ NextPeriod
  <2>1. Watch /\ Passed BY <1>3 DEF Tick, NextPeriod
  <2>2. UNCHANGED <<up, merge_flag>> BY <2>1, PassDoes
  <2>3. SUFFICES ASSUME up = Lidars
        PROVE  /\ merge_flag = 0 =>
                    lidar_flag' = 0 /\ \A i \in DOMAIN flags' : flags'[i] = 0
               /\ \A i \in DOMAIN flags' : flags'[i] = 0 =>
                    lidar_flag' = 0 /\ \A j \in DOMAIN flags' : i <= j =>
                      flags'[j] = 0
    BY <2>2 DEF ToldZero
  <2>4. ASSUME lidar_flag = 0 PROVE lidar_flag' = 0
    <3>1. ASSUME NEW l \in Lidars PROVE On(l)'
      <4>1. Settled(l) BY <2>3, <2>4 DEF Watched, Coming, Leaving, On
      <4>2. Settled(l)' BY <1>3, <4>1, PassWatched
      <4> QED BY <2>2, <2>3, <4>2 DEF Settled
    <3>2. \A l \in Lidars : lidar_flag' \in {0, OnlyFlag(l)} BY <3>1 DEF On
    <3> QED BY <3>2, TwoLidars
  <2>5. \A i \in DOMAIN flags' :
                 (i \in DOMAIN flags /\ flags'[i] = flags[i])
                 \/ (i \in Nat /\ flags'[i] = lidar_flag'
                      /\ \A j \in DOMAIN flags : j < i)
    BY <2>1, PublishDoes
  <2>6. ASSUME merge_flag = 0
       PROVE lidar_flag' = 0 /\ \A i \in DOMAIN flags' : flags'[i] = 0
    BY <2>3, <2>4, <2>5, <2>6 DEF ToldZero
  <2>7. ASSUME NEW i \in DOMAIN flags', flags'[i] = 0
        PROVE  lidar_flag' = 0 /\ \A j \in DOMAIN flags' : i <= j =>
                 flags'[j] = 0
    <3>1. CASE i \in DOMAIN flags /\ flags'[i] = flags[i]
      <4>1. lidar_flag = 0 /\ \A j \in DOMAIN flags : i <= j => flags[j] = 0
        BY <2>3, <2>7, <3>1 DEF ToldZero
      <4> QED BY <2>4, <2>5, <4>1
    <3>2. CASE i \in Nat /\ flags'[i] = lidar_flag'
                 /\ \A j \in DOMAIN flags : j < i
      <4>1. DOMAIN flags \subseteq Nat
        <5>1. flags \in Seq(0 .. 3) BY DEF LidTypeOK
        <5> QED BY <5>1
      <4>2. ASSUME NEW j \in DOMAIN flags', i <= j PROVE flags'[j] = 0
        <5>1. j \notin DOMAIN flags BY <3>2, <4>1, <4>2
        <5> QED BY <2>5, <2>7, <3>2, <5>1
      <4> QED BY <2>7, <3>2, <4>2
    <3> QED BY <2>5, <3>1, <3>2
  <2> QED BY <2>6, <2>7
<1>4. CASE UNCHANGED <<up, lidar_flag, merge_flag, flags>>
  BY <1>4 DEF ToldZero
<1> QED BY <1>1, <1>2, <1>3, <1>4
        DEF LidNext, LidarCallback, ImuCallback, ScanArrives, CloudArrives,
          lidVars

-----------------------------------------------------------------------------
(* A flag by which of the lidars it says work.                             *)
LEMMA OnOf ==
  ASSUME NEW f \in 0 .. 3, NEW k \in Lidars
  PROVE  /\ f = 0 <=> f \in {0, OnlyFlag(k)} /\ f \in {0, OnlyFlag(Other(k))}
         /\ f = OnlyFlag(k)
              <=> f \in {0, OnlyFlag(k)} /\ f \notin {0, OnlyFlag(Other(k))}
         /\ f = OnlyFlag(Other(k))
              <=> f \notin {0, OnlyFlag(k)} /\ f \in {0, OnlyFlag(Other(k))}
         /\ f = 3 <=> f \notin {0, OnlyFlag(k)}
              /\ f \notin {0, OnlyFlag(Other(k))}
  BY DEF Lidars, OnlyFlag, Other

(* One lidar works and the other does not.                                 *)
LEMMA OneUp ==
  ASSUME NEW k \in Lidars, up = {k}
  PROVE  k \in up /\ Other(k) \notin up /\ Other(k) \in Lidars
           /\ Other(Other(k)) = k
         /\ Lidars \ up = {Other(k)} /\ up # Lidars
  BY TwoLidars

(* Which flags are possible, by which lidars work.                         *)
LEMMA WhoIsOn ==
  ASSUME LidTypeOK, Watched
  PROVE  /\ up = Lidars => lidar_flag # 3
         /\ up = Lidars /\ lidar_flag = 0 => \A l \in Lidars : Settled(l)
         /\ up = {} => lidar_flag # 0
         /\ \A k \in Lidars : up = {k} =>
              /\ lidar_flag # OnlyFlag(Other(k))
              /\ lidar_flag = 0 => Leaving(Other(k)) /\ Settled(k)
              /\ lidar_flag = 3 => Coming(k)
<1>0. lidar_flag \in 0 .. 3 BY DEF LidTypeOK
<1>1. ASSUME up = Lidars
     PROVE lidar_flag # 3 /\ (lidar_flag = 0 => \A l \in Lidars : Settled(l))
  <2>1. \A l \in Lidars : Settled(l) \/ Coming(l) BY <1>1 DEF Watched, Leaving
  <2>2. ASSUME lidar_flag = 3 PROVE FALSE
    <3>1. Settled("1") \/ Settled(Other("1")) BY TwoLidars DEF Watched
    <3>2. On("1") \/ On(Other("1")) BY <1>1, <3>1, TwoLidars DEF Settled
    <3> QED BY <2>2, <3>2, OnIs, TwoLidars
  <2>3. ASSUME lidar_flag = 0, NEW l \in Lidars PROVE Settled(l)
    BY <2>1, <2>3 DEF Coming, On
  <2> QED BY <2>2, <2>3
<1>2. ASSUME up = {}, lidar_flag = 0 PROVE FALSE
  <2>1. On("1") /\ On(Other("1")) BY <1>2 DEF On
  <2>2. Settled("1") \/ Settled(Other("1")) BY TwoLidars DEF Watched
  <2> QED BY <1>2, <2>1, <2>2 DEF Settled
<1>3. ASSUME NEW k \in Lidars, up = {k}
      PROVE  /\ lidar_flag # OnlyFlag(Other(k))
             /\ lidar_flag = 0 => Leaving(Other(k)) /\ Settled(k)
             /\ lidar_flag = 3 => Coming(k)
  <2>1. k \in up /\ Other(k) \notin up /\ Other(k) \in Lidars
          /\ Other(Other(k)) = k
    BY <1>3, OneUp
  <2>2. On(Other(k)) => Leaving(Other(k)) BY <2>1 DEF Watched, Settled, Coming
  <2>3. Leaving(Other(k)) => Settled(k) BY <2>1 DEF Watched, Settled, Leaving
  <2>4. ~On(k) => Coming(k) BY <2>1 DEF Watched, Settled, Leaving
  <2>5. lidar_flag # OnlyFlag(Other(k))
    <3>1. SUFFICES ASSUME lidar_flag = OnlyFlag(Other(k)) PROVE FALSE OBVIOUS
    <3>2. On(Other(k)) /\ ~On(k) BY <1>0, <3>1, OnOf DEF On
    <3> QED BY <2>1, <2>2, <2>3, <3>2 DEF Settled
  <2>6. lidar_flag = 0 => Leaving(Other(k)) /\ Settled(k) BY <2>2, <2>3 DEF On
  <2>7. lidar_flag = 3 => Coming(k)
    <3>1. lidar_flag = 3 => ~On(k) BY <1>0, OnOf DEF On
    <3> QED BY <2>4, <3>1
  <2> QED BY <2>5, <2>6, <2>7
<1> QED BY <1>1, <1>2, <1>3

(* A pass never drops a lidar that works nor takes up one that does not.   *)
LEMMA PassKeepsOn ==
  ASSUME LidTypeOK, Scans, Watched, Tick \/ NextPeriod, NEW l \in Lidars
  PROVE  /\ l \in up /\ On(l) => On(l)'
         /\ l \notin up /\ On(l)' => On(l)
<1>1. Watch /\ Passed BY DEF Tick, NextPeriod
<1>2. (On(l)' <=> cnt'[l] <= Dog)
        /\ (cnt'[l] = IF cnt[l] > Dog THEN cnt[l] ELSE cnt[l] + 1) /\ up' = up
  BY <1>1, PassDoes
<1>3. ASSUME l \in up, On(l) PROVE On(l)'
  <2>1. Settled(l)' BY <1>3, PassWatched DEF Watched, Coming, Leaving
  <2> QED BY <1>2, <1>3, <2>1 DEF Settled
<1>4. ASSUME l \notin up, On(l)' PROVE On(l)
  <2>1. cnt[l] # Dog + 1 BY <1>2, <1>4, LidBoundsHold DEF LidTypeOK, LidBounds
  <2> QED BY <1>4, <2>1 DEF Watched, Settled, Coming, Leaving
<1> QED BY <1>3, <1>4

(* So it changes the flag only towards what is.                            *)
LEMMA PassFlag ==
  ASSUME LidTypeOK, Scans, Watched, Tick \/ NextPeriod
  PROVE  /\ lidar_flag' \in 0 .. 3
         /\ up = Lidars /\ lidar_flag = 0 => lidar_flag' = 0
         /\ up = Lidars => \A k \in Lidars : lidar_flag' = OnlyFlag(k) =>
              lidar_flag = OnlyFlag(k)
         /\ up # Lidars /\ lidar_flag' = 0 => lidar_flag = 0
         /\ \A k \in Lidars : up = {k} /\ lidar_flag' = 3 => lidar_flag = 3
         /\ up = {} => \A k \in Lidars : lidar_flag' = OnlyFlag(k) =>
              lidar_flag = OnlyFlag(k)
<1>0. lidar_flag \in 0 .. 3 BY DEF LidTypeOK
<1>1. lidar_flag' \in 0 .. 3
  <2>1. Watch /\ Passed BY DEF Tick, NextPeriod
  <2> QED BY <2>1, PassTypes
<1>2. ASSUME NEW l \in Lidars
      PROVE  /\ l \in up /\ lidar_flag \in {0, OnlyFlag(l)} =>
                  lidar_flag' \in {0, OnlyFlag(l)}
             /\ l \notin up /\ lidar_flag' \in {0, OnlyFlag(l)} =>
                  lidar_flag \in {0, OnlyFlag(l)}
  BY PassKeepsOn DEF On
<1>3. ASSUME NEW l \in Lidars
      PROVE  Other(l) \in Lidars /\ (Settled(l) \/ Settled(Other(l)))
             /\ (l \in up => Settled(l) \/ Coming(l)) /\ (l \notin up =>
                  Settled(l) \/ Leaving(l))
             /\ (Coming(l) \/ Leaving(l) => Settled(Other(l)))
  BY TwoLidars DEF Watched, Coming, Leaving, Settled
<1>4. ASSUME up = Lidars, lidar_flag = 0 PROVE lidar_flag' = 0
  BY <1>1, <1>2, <1>4, OnOf, TwoLidars
<1>5. ASSUME up = Lidars, NEW k \in Lidars, lidar_flag' = OnlyFlag(k)
     PROVE lidar_flag = OnlyFlag(k)
  <2>1. lidar_flag' \notin {0, OnlyFlag(Other(k))} BY <1>1, <1>5, OnOf
  <2>2. lidar_flag \notin {0, OnlyFlag(Other(k))} BY <1>2, <1>3, <1>5, <2>1
  <2>3. lidar_flag \in {0, OnlyFlag(k)}
    BY <1>3, <1>5, <2>2 DEF Settled, On
  <2> QED BY <1>0, <2>2, <2>3, OnOf
<1>6. ASSUME up # Lidars, lidar_flag' = 0 PROVE lidar_flag = 0
  <2>1. PICK l \in Lidars : l \notin up BY <1>6 DEF LidTypeOK
  <2>2. lidar_flag \in {0, OnlyFlag(l)} BY <1>2, <1>6, <2>1
  <2>3. Settled(Other(l)) BY <1>3, <2>1, <2>2 DEF Settled, On
  <2>4. Other(l) \in up => lidar_flag \in {0, OnlyFlag(Other(l))}
    BY <2>3 DEF Settled, On
  <2>5. Other(l) \notin up => lidar_flag \in {0, OnlyFlag(Other(l))}
    BY <1>2, <1>3, <1>6
  <2> QED BY <1>0, <2>2, <2>4, <2>5, OnOf
<1>7. ASSUME NEW k \in Lidars, up = {k}, lidar_flag' = 3 PROVE lidar_flag = 3
  <2>1. k \in up /\ Other(k) \notin up BY <1>7, OneUp
  <2>2. lidar_flag \notin {0, OnlyFlag(k)} BY <1>1, <1>2, <1>7, <2>1, OnOf
  <2>3. Settled(Other(k)) BY <1>3, <2>1, <2>2 DEF Settled, On
  <2>4. lidar_flag \notin {0, OnlyFlag(Other(k))} BY <2>1, <2>3 DEF Settled, On
  <2> QED BY <1>0, <2>2, <2>4, OnOf
<1>8. ASSUME up = {}, NEW k \in Lidars, lidar_flag' = OnlyFlag(k)
     PROVE lidar_flag = OnlyFlag(k)
  <2>1. lidar_flag \in {0, OnlyFlag(k)} BY <1>2, <1>8
  <2>2. Settled(Other(k)) BY <1>3, <1>8, <2>1 DEF Settled, On
  <2>3. lidar_flag \notin {0, OnlyFlag(Other(k))} BY <1>8, <2>2 DEF Settled, On
  <2> QED BY <1>0, <2>1, <2>3, OnOf
<1> QED BY <1>1, <1>4, <1>5, <1>6, <1>7, <1>8

(* What the two kinds of passes do to the time and to this period's scans. *)
LEMMA PassTime ==
  ASSUME LidTypeOK, Tick \/ NextPeriod
  PROVE  /\ \/ /\ phase' = phase + 1 /\ phase + 1 \in 0 .. ScanTicks - 1
               /\ ~NextPeriod
               /\ UNCHANGED <<inbox, mapbox, pair, clouds, last, used,
                    waiting>>
            \/ /\ phase' = 0 /\ phase = ScanTicks - 1 /\ NextPeriod
               /\ inbox = {} /\ mapbox = {} /\ flags = <<>> /\ inbox' = up
               /\ mapbox' = up /\ pair' = {}
         /\ UNCHANGED <<up, merge_flag, frame, twice, turns, imu>>
         /\ rest' \in Nat /\ rest' <= rest + 1 /\ (rest < Rest =>
              rest' = rest + 1)
         /\ (rest = Rest => rest' = rest)
         /\ gap' \in Nat /\ gap' <= gap + 1 /\ gap \in Nat
         /\ rest \in 0 .. Rest
         /\ phase \in 0 .. ScanTicks - 1 /\ pub_cnt \in 0 .. PubEvery - 1
<1>0. LidBounds /\ GapCap \in Nat BY LidBoundsHold DEF LidBounds, GapCap
<1>1. Watch /\ Passed BY DEF Tick, NextPeriod
<1>2. \/ /\ phase' = phase + 1 /\ phase + 1 \in 0 .. ScanTicks - 1
         /\ ~NextPeriod
         /\ UNCHANGED <<inbox, mapbox, pair, clouds, last, used, waiting>>
      \/ /\ phase' = 0 /\ phase = ScanTicks - 1 /\ NextPeriod
         /\ inbox = {} /\ mapbox = {} /\ flags = <<>> /\ inbox' = up
         /\ mapbox' = up /\ pair' = {}
  <2>1. CASE Tick
    <3>1. phase' = phase + 1 /\ phase + 1 \in 0 .. ScanTicks - 1
      BY <1>0, <2>1 DEF Tick, LidTypeOK, LidBounds
    <3>2. ~NextPeriod BY <1>0, <2>1 DEF Tick, NextPeriod, LidTypeOK, LidBounds
    <3>3. UNCHANGED <<inbox, mapbox, pair, clouds, last, used, waiting>>
      BY <2>1, SameWaiting DEF Tick
    <3> QED BY <3>1, <3>2, <3>3
  <2>2. CASE NextPeriod BY <2>2 DEF NextPeriod
  <2> QED BY <2>1, <2>2
<1>3. UNCHANGED <<up, merge_flag, frame, twice, turns, imu>>
        /\ rest' = (IF rest < Rest THEN rest + 1 ELSE rest)
  BY <1>1, PassDoes
<1>4. rest \in 0 .. Rest /\ rest \in Nat /\ gap \in 0 .. GapCap
      /\ phase \in 0 .. ScanTicks - 1 /\ pub_cnt \in 0 .. PubEvery - 1
  BY <1>0 DEF LidTypeOK
<1>5. rest' \in Nat /\ rest' <= rest + 1 /\ (rest < Rest => rest' = rest + 1)
        /\ (rest = Rest => rest' = rest)
  BY <1>0, <1>3, <1>4 DEF LidBounds
<1>6. gap' \in Nat /\ gap' <= gap + 1 /\ gap \in Nat
  <2>1. gap' = (IF up = {} THEN 0 ELSE IF gap < GapCap THEN gap + 1 ELSE gap)
    BY <1>1 DEF Passed
  <2> QED BY <1>0, <1>4, <2>1
<1> QED BY <1>2, <1>3, <1>4, <1>5, <1>6

(* The next scan of a lidar passed on comes in time, pass by pass.         *)
LEMMA DueStep ==
  ASSUME LidTypeOK, Sorted, Tick \/ NextPeriod, NEW k \in up,
         NEW x \in Nat, NEW y \in Nat, NEW c \in Nat, y <= x + 1, Due(x, k, c)
  PROVE  \/ y <= c + phase'
         \/ k \in inbox' /\ y <= c + ScanTicks + phase'
         \/ \E l \in Lidars, s \in 0 .. 1 :
              <<l, s>> \in waiting'
                /\ y <= c + ScanTicks + phase' + Late(s = 1)
<1>0. ScanTicks \in Nat /\ phase \in Nat
  BY LidBoundsHold DEF LidTypeOK, LidBounds
<1>1. CASE Tick
  <2>1. phase' = phase + 1 /\ inbox' = inbox /\ waiting' = waiting
    <3>1. ~NextPeriod BY <1>0, <1>1 DEF Tick, NextPeriod, LidTypeOK
    <3> QED BY <1>1, <3>1, PassTime DEF Tick
  <2>2. CASE x <= c + phase
    BY <1>0, <2>1, <2>2
  <2>3. CASE k \in inbox /\ x <= c + ScanTicks + phase
    BY <1>0, <2>1, <2>3
  <2>4. ASSUME NEW l \in Lidars, NEW s \in 0 .. 1, <<l, s>> \in waiting,
               x <= c + ScanTicks + phase + Late(s = 1)
        PROVE  <<l, s>> \in waiting'
                 /\ y <= c + ScanTicks + phase' + Late(s = 1)
    <3>1. Late(s = 1) \in Nat BY <1>0 DEF Late
    <3> QED BY <1>0, <2>1, <2>4, <3>1
  <2> QED BY <2>2, <2>3, <2>4 DEF Due
<1>2. CASE NextPeriod
  <2>1. phase' = 0 /\ phase = ScanTicks - 1 /\ inbox = {} /\ inbox' = up
    BY <1>2 DEF NextPeriod
  <2>2. CASE x <= c + phase
    BY <1>0, <2>1, <2>2
  <2>4. ASSUME NEW l \in Lidars, NEW s \in 0 .. 1, <<l, s>> \in waiting,
               x <= c + ScanTicks + phase + Late(s = 1)
        PROVE  <<l, 1>> \in waiting'
                 /\ y <= c + ScanTicks + phase' + Late(1 = 1)
    <3>1. s = 0 /\ <<l, 1>> \in waiting' BY <1>2, <2>4, WaitAge DEF NextPeriod
    <3>2. x <= c + ScanTicks + phase + 0 BY <2>4, <3>1 DEF Late
    <3> QED BY <1>0, <2>1, <3>1, <3>2 DEF Late
  <2> QED BY <2>1, <2>2, <2>4 DEF Due
<1> QED BY <1>1, <1>2

(* Nothing waits where nothing did and nothing was published.              *)
LEMMA NoneWaits ==
  ASSUME LidTypeOK, waiting = {}, UNCHANGED clouds \/ NextPeriod
  PROVE  waiting' = {}
<1>1. CASE UNCHANGED clouds BY <1>1, SameWaiting
<1>2. CASE NextPeriod
  <2>1. DOMAIN clouds' = DOMAIN clouds BY <1>2 DEF NextPeriod
  <2>2. DOMAIN clouds = {} BY DEF waiting
  <2> QED BY <2>1, <2>2 DEF waiting
<1> QED BY <1>1, <1>2

(* Nothing waits when no scan does.                                        *)
LEMMA WaitsFor ==
  ASSUME LidTypeOK, \A l \in Lidars, s \in 0 .. 1 : <<l, s>> \notin waiting
  PROVE  waiting = {}
<1>1. ASSUME NEW w \in waiting PROVE FALSE
  <2>1. w \in Lidars \X (0 .. 1) BY WaitingTypes
  <2>2. PICK l \in Lidars, s \in 0 .. 1 : w = <<l, s>> BY <2>1
  <2> QED BY <2>2
<1> QED BY <1>1

(* Both scans were accepted, lidar by lidar.                               *)
LEMMA PairedIs ==
  /\ \A s \in 0 .. 1 : Lidars \X {s} \subseteq used
       <=> \A l \in Lidars : <<l, s>> \in used
  /\ Paired <=> \A l \in Lidars : <<l, 0>> \in used
       <=> <<Other(l), 0>> \in used
  /\ WerePaired <=> \A l \in Lidars : <<l, 1>> \in used
       <=> <<Other(l), 1>> \in used
<1>1. ASSUME NEW s \in 0 .. 1
      PROVE  Lidars \X {s} \subseteq used
               <=> \A l \in Lidars : <<l, s>> \in used
  OBVIOUS
<1>2. Other("1") = "2" /\ Other("2") = "1" BY DEF Other
<1>3. Paired <=> \A l \in Lidars : <<l, 0>> \in used
        <=> <<Other(l), 0>> \in used
  BY <1>2, TwoLidars DEF Paired
<1>4. WerePaired <=> \A l \in Lidars : <<l, 1>> \in used
        <=> <<Other(l), 1>> \in used
  BY <1>2, TwoLidars DEF WerePaired
<1> QED BY <1>1, <1>3, <1>4

(* A match keeps coming in, pass by pass, held back for a period at most.  *)
LEMMA MatchStep ==
  ASSUME LidTypeOK, Tick \/ NextPeriod, up = Lidars,
         NEW x \in Nat, NEW y \in Nat, NEW c \in Nat, y <= x + 1
  PROVE  /\ x <= c + phase =>
              \/ y <= c + phase'
              \/ Matching' /\ y <= c + ScanTicks + phase'
         /\ Matching /\ x <= c + ScanTicks + phase =>
              \/ Matching' /\ y <= c + ScanTicks + phase'
              \/ Returning' /\ y <= c + 2 * ScanTicks + phase'
         /\ Returning /\ x <= c + 2 * ScanTicks + phase =>
              Returning' /\ y <= c + 2 * ScanTicks + phase'
<1>0. ScanTicks \in Nat /\ phase \in Nat
  BY LidBoundsHold DEF LidTypeOK, LidBounds
<1>1. CASE Tick
  <2>1. phase' = phase + 1 /\ UNCHANGED <<mapbox, held>> BY <1>1 DEF Tick
  <2>2. (Matching <=> Matching') /\ (Returning <=> Returning')
    BY <2>1 DEF Matching, Returning
  <2> QED BY <1>0, <2>1, <2>2
<1>2. CASE NextPeriod
  <2>1. phase = ScanTicks - 1 /\ phase' = 0 /\ mapbox = {} /\ mapbox' = Lidars
    BY <1>2 DEF NextPeriod
  <2>2. ~Returning /\ Matching'
    BY <2>1, TwoLidars DEF Matching, Returning
  <2>3. ASSUME Matching PROVE Returning'
    <3>1. PICK l \in Lidars : <<l, 0>> \in held BY <2>1, <2>3 DEF Matching
    <3>2. held' = {<<h[1], Older(h[2])>> : h \in {k \in held : k[2] <= last}}
      BY <1>2 DEF NextPeriod
    <3>3. <<l, 0>>[1] = l /\ <<l, 0>>[2] = 0 /\ 0 <= last /\ Older(0) = 1
      BY DEF LidTypeOK, Older, Old
    <3>4. <<l, 0>> \in {k \in held : k[2] <= last} BY <3>1, <3>3
    <3>5. <<<<l, 0>>[1], Older(<<l, 0>>[2])>> \in held' BY <3>2, <3>4
    <3>6. <<l, 1>> \in held' BY <3>3, <3>5
    <3> QED BY <2>1, <3>6 DEF Returning
  <2> QED BY <1>0, <2>1, <2>2, <2>3
<1> QED BY <1>1, <1>2

(* A scan of which nothing came in leaves the match that is to come in.    *)
LEMMA ScanKeeps ==
  ASSUME LidTypeOK, NEW l \in Lidars, ScanArrives(l), <<l, 1>> \notin held,
         mapbox \union pair = Lidars => Matching',
         mapbox \union pair = Lidars,
         \A h \in held : h[1] # l => h \in held'
  PROVE  Matching' /\ (Returning => Returning')
<1>1. ASSUME Returning PROVE Returning'
  <2>1. PICK k \in mapbox : <<k, 1>> \in held BY <1>1 DEF Returning
  <2>2. k # l BY <2>1
  <2>3. k \in mapbox' BY <2>2 DEF ScanArrives
  <2>4. <<k, 1>>[1] = k OBVIOUS
  <2>5. <<k, 1>> \in held' BY <2>1, <2>2, <2>4
  <2> QED BY <2>3, <2>5 DEF Returning
<1> QED BY <1>1

(* Every step keeps what holds between a failure and the watchdog that     *)
(* finds it: the last match ends the scans, and nothing is passed on.      *)
LEMMA OneLessHolds ==
  ASSUME LidInv, [LidNext]_lidVars
  PROVE  OneLess'
<1> USE DEF lidars, monitor, buffer, mapper
<1> SUFFICES ASSUME up' # Lidars, lidar_flag' = 0
             PROVE  /\ merge_flag' = 0 /\ \A i \in DOMAIN flags' :
                         flags'[i] = 0
                    /\ waiting' = {} /\ Paired' /\ WerePaired'
                    /\ frame' = "2" /\ turns' = 0
                    /\ rest' <= phase' => Merging'
                    /\ rest' > phase' =>
                         \A l \in Lidars \ up' :
                           gap' <= cnt'[l] + 2*ScanTicks - 1
  BY DEF OneLess
<1>i. LidTypeOK /\ Scans /\ Watched /\ Told /\ Sorted /\ Held BY DEF LidInv
<1>0. /\ ScanTicks \in Nat /\ ScanTicks >= 1 /\ Dog \in Nat
      /\ PubEvery \in Nat /\ PubEvery >= 1
      /\ Rest \in Nat /\ phase \in 0 .. ScanTicks - 1 /\ rest \in 0 .. Rest
      /\ gap \in Nat
  <2>1. GapCap \in Nat BY LidBoundsHold DEF GapCap, LidBounds
  <2> QED BY <1>i, <2>1, LidBoundsHold DEF LidTypeOK, LidBounds
<1>a. up # Lidars /\ lidar_flag = 0 =>
      /\ merge_flag = 0 /\ \A i \in DOMAIN flags : flags[i] = 0
      /\ waiting = {} /\ Paired /\ WerePaired /\ frame = "2" /\ turns = 0
      /\ rest <= phase => Merging
      /\ rest > phase => \A l \in Lidars \ up : gap <= cnt[l] + 2*ScanTicks - 1
  BY DEF LidInv, OneLess
<1>1. ASSUME NEW m \in Lidars, Fail(m)
      PROVE  /\ merge_flag' = 0 /\ \A i \in DOMAIN flags' : flags'[i] = 0
             /\ waiting' = {} /\ Paired' /\ WerePaired'
             /\ frame' = "2" /\ turns' = 0
             /\ rest' <= phase' => Merging'
             /\ rest' > phase' =>
                  \A l \in Lidars \ up' : gap' <= cnt'[l] + 2*ScanTicks - 1
  <2>1. /\ rest = Rest /\ rest' = 0 /\ turns' = 0
        /\ UNCHANGED <<phase, mapbox, held, lidar_flag, merge_flag, flags,
             clouds, used, frame, gap>>
    BY <1>1 DEF Fail
  <2>2. lidar_flag = FlagFor(up) /\ merge_flag = FlagFor(up)
          /\ \A i \in DOMAIN flags : flags[i] = FlagFor(up)
    BY <1>i, <2>1, QuietTold
  <2>3. up = Lidars
    <3>1. up \in SUBSET Lidars /\ FlagFor(up) = 0
      BY <1>i, <2>1, <2>2 DEF LidTypeOK
    <3> QED BY <3>1, FlagOf, TwoLidars, FlagForType
  <2>4. Rest >= PubEvery + 5 * ScanTicks - 1 BY QuietIs
  <2>5. waiting = {}
    <3>1. ASSUME NEW l \in Lidars, NEW s \in 0 .. 1, <<l, s>> \in waiting
         PROVE FALSE
      <4>1. rest <= phase + ScanTicks + Late(s = 1)
        BY <2>3, <3>1 DEF LidInv, BothSettle
      <4>2. Late(s = 1) \in 0 .. ScanTicks BY <1>0 DEF Late
      <4> QED BY <1>0, <2>1, <2>4, <4>1, <4>2
    <3> QED BY <1>i, <3>1, WaitsFor
  <2>6. Paired /\ WerePaired
    <3>1. /\ ~Paired => rest <= phase + ScanTicks
          /\ ~WerePaired => rest <= phase + 2 * ScanTicks
      BY <2>3 DEF LidInv, BothSettle, BothApart
    <3> QED BY <1>0, <2>1, <2>4, <3>1
  <2>7. frame = "2" /\ Merging
    <3>1. \/ frame = "2" /\ Merging
          \/ rest <= 2*ScanTicks - 1 + PubEvery + phase
          \/ rest <= 3*ScanTicks - 1 + PubEvery + phase
          \/ rest <= 4*ScanTicks - 1 + PubEvery + phase
      BY <2>3 DEF LidInv, BothMerge
    <3> QED BY <1>0, <2>1, <2>4, <3>1
  <2>8. waiting' = {} BY <2>1, <2>5, SameWaiting
  <2>9. Paired' /\ WerePaired' /\ Merging'
    BY <2>1, <2>6, <2>7 DEF Paired, WerePaired, Merging, Matching, Returning
  <2>10. ~(rest' > phase') BY <1>0, <2>1
  <2>11. merge_flag' = 0 /\ \A i \in DOMAIN flags' : flags'[i] = 0
    BY <2>1, <2>2, <2>3, FlagForValues
  <2>12. frame' = "2" /\ turns' = 0 BY <2>1, <2>7
  <2> QED BY <2>8, <2>9, <2>10, <2>11, <2>12
<1>2. ASSUME NEW m \in Lidars, Recover(m) PROVE FALSE
  <2>1. up' = up \union {m} /\ m \notin up /\ lidar_flag = 0
    BY <1>2 DEF Recover
  <2>2. up = {}
    <3>1. up \subseteq Lidars /\ Lidars = {m, Other(m)} /\ Other(m) # m
      BY <1>i, TwoLidars DEF LidTypeOK
    <3>2. Other(m) \notin up
      <4>1. SUFFICES ASSUME Other(m) \in up PROVE FALSE OBVIOUS
      <4>2. up' = Lidars BY <2>1, <3>1, <4>1
      <4> QED BY <4>2
    <3> QED BY <2>1, <3>1, <3>2
  <2> QED BY <1>i, <2>1, <2>2, WhoIsOn
<1>3. ASSUME NEW k \in Lidars, LidarCallback(k)
      PROVE  /\ merge_flag' = 0 /\ \A i \in DOMAIN flags' : flags'[i] = 0
             /\ waiting' = {} /\ Paired' /\ WerePaired'
             /\ frame' = "2" /\ turns' = 0
             /\ rest' <= phase' => Merging'
             /\ rest' > phase' =>
                  \A l \in Lidars \ up' : gap' <= cnt'[l] + 2*ScanTicks - 1
  <2>1. /\ k \in inbox /\ cnt' = [cnt EXCEPT ![k] = 0]
        /\ UNCHANGED <<up, rest, phase, mapbox, held, lidar_flag, merge_flag,
             flags, used, frame, gap, turns>>
    BY <1>3 DEF LidarCallback
  <2>2. UNCHANGED clouds
    <3>1. ~PassesOn(k) BY <2>1, TwoLidars DEF PassesOn
    <3> QED BY <1>3, <3>1 DEF LidarCallback
  <2>3. waiting' = {} BY <1>a, <1>i, <2>1, <2>2, NoneWaits
  <2>4. ASSUME rest' > phase', NEW l \in Lidars \ up'
       PROVE gap' <= cnt'[l] + 2*ScanTicks - 1
    <3>1. l # k
      <4>1. k \in mapbox \union pair BY <1>i, <2>1 DEF Scans
      <4>2. k \notin up => rest <= phase BY <1>i, <4>1 DEF Scans
      <4> QED BY <1>0, <2>1, <2>4, <4>2
    <3>2. cnt'[l] = cnt[l] BY <1>i, <2>1, <3>1 DEF LidTypeOK
    <3> QED BY <1>a, <2>1, <2>4, <3>2
  <2>5. Paired' /\ WerePaired' /\ (rest' <= phase' => Merging')
    BY <1>a, <2>1 DEF Paired, WerePaired, Merging, Matching, Returning
  <2> QED BY <1>a, <2>1, <2>3, <2>4, <2>5
<1>4. ASSUME NEW k \in Lidars, ScanArrives(k)
      PROVE  /\ merge_flag' = 0 /\ \A i \in DOMAIN flags' : flags'[i] = 0
             /\ waiting' = {} /\ Paired' /\ WerePaired'
             /\ frame' = "2" /\ turns' = 0
             /\ rest' <= phase' => Merging'
             /\ rest' > phase' =>
                  \A l \in Lidars \ up' : gap' <= cnt'[l] + 2*ScanTicks - 1
  <2>1. UNCHANGED <<up, rest, phase, cnt, lidar_flag, merge_flag, flags,
          clouds>>
    BY <1>4 DEF ScanArrives
  <2>2. waiting' = {} BY <1>a, <1>i, <2>1, NoneWaits
  <2>3. ASSUME NEW F \in SUBSET (0 .. 1), Accept(Lidars, "2", F)
        PROVE  /\ Paired' /\ WerePaired' /\ frame' = "2" /\ turns' = 0
               /\ Merging'
               /\ \A l \in Lidars : gap' <= cnt'[l] + 2*ScanTicks - 1
    <3>1. gap' = 0 /\ frame' = "2" /\ turns' = turns
      BY <1>a, <1>i, <2>1, <2>3, AcceptDoes, TwoLidars
    <3>2. Paired' /\ WerePaired'
      <4>1. \A l \in Lidars, s \in 0 .. 1 :
              <<l, s>> \in used' <=> <<l, s>> \in used \/ s \in F
        BY <1>i, <2>3, AcceptDoes, TwoLidars
      <4> QED BY <1>a, <2>1, <4>1, TwoLidars DEF Paired, WerePaired
    <3>3. Merging' BY <1>0, <2>1, <3>1 DEF Merging
    <3>4. \A l \in Lidars : gap' <= cnt'[l] + 2*ScanTicks - 1
      <4>1. \A l \in Lidars : cnt[l] \in Nat BY <1>0, <1>i DEF LidTypeOK
      <4> QED BY <1>0, <2>1, <3>1, <4>1
    <3> QED BY <1>a, <2>1, <3>1, <3>2, <3>3, <3>4
  <2>4. ASSUME UNCHANGED <<last, frame, gap, used, twice, turns>>,
               \/ last = 0 \/ (last = 1 /\ frame = "1")
               \/ /\ <<k, 1>> \notin held
                  /\ mapbox \union pair = Lidars => Matching',
               rest <= phase
        PROVE  Merging'
    <3>1. Merging BY <1>a, <2>1, <2>4
    <3>2. CASE last = 0
      <4>1. gap <= phase + 0 BY <1>i, <3>2 DEF LidInv, LastUsed, Late, Old
      <4> QED BY <1>0, <2>1, <2>4, <4>1 DEF Merging
    <3>3. CASE <<k, 1>> \notin held
               /\ (mapbox \union pair = Lidars => Matching')
      <4>1. ASSUME NEW l \in Lidars PROVE l \in mapbox \union pair
        <5>1. On(l) BY <2>1 DEF On
        <5>2. CASE l \in up BY <1>i, <5>1, <5>2 DEF Scans
        <5>3. CASE l \notin up
          BY <1>i, <2>4, <5>1, <5>3 DEF Watched, Settled, Coming, Leaving
        <5> QED BY <5>2, <5>3
      <4>2. mapbox \union pair = Lidars BY <1>i, <4>1 DEF LidTypeOK
      <4>3. \A h \in held : h[1] # k => h \in held' BY <1>4, <1>i, ScanDoes
      <4>4. Matching' /\ (Returning => Returning')
        BY <1>4, <1>i, <3>3, <4>2, <4>3, ScanKeeps
      <4> QED BY <2>1, <2>4, <3>1, <4>4 DEF Merging
    <3>4. frame = "2" BY <1>a, <2>1
    <3> QED BY <2>4, <3>2, <3>3, <3>4
  <2>5. \/ \E F \in SUBSET (0 .. 1) : Accept(Lidars, "2", F)
        \/ /\ UNCHANGED <<last, frame, gap, used, twice, turns>>
           /\ \/ last = 0 \/ (last = 1 /\ frame = "1")
              \/ /\ <<k, 1>> \notin held
                 /\ mapbox \union pair = Lidars => Matching'
    <3>1. merge_flag = 0 BY <1>a, <2>1
    <3> QED BY <1>4, <1>i, <3>1, ScanDoes
  <2>6. CASE \E F \in SUBSET (0 .. 1) : Accept(Lidars, "2", F)
    BY <1>a, <2>1, <2>2, <2>3, <2>6
  <2>7. CASE /\ UNCHANGED <<last, frame, gap, used, twice, turns>>
             /\ \/ last = 0 \/ (last = 1 /\ frame = "1")
                \/ /\ <<k, 1>> \notin held
                   /\ mapbox \union pair = Lidars => Matching'
    <3>1. rest' <= phase' => Merging' BY <2>1, <2>4, <2>7
    <3>2. Paired' /\ WerePaired' BY <1>a, <2>1, <2>7 DEF Paired, WerePaired
    <3> QED BY <1>a, <2>1, <2>2, <2>7, <3>1, <3>2
  <2> QED BY <2>5, <2>6, <2>7
<1>5. ASSUME CloudArrives PROVE FALSE
  <2>1. up # Lidars /\ lidar_flag = 0 BY <1>5 DEF CloudArrives
  <2>2. waiting # {} BY <1>5, <1>i, CloudDoes
  <2> QED BY <1>a, <2>1, <2>2
<1>6. ASSUME FlagArrives
      PROVE  /\ merge_flag' = 0 /\ \A i \in DOMAIN flags' : flags'[i] = 0
             /\ waiting' = {} /\ Paired' /\ WerePaired'
             /\ frame' = "2" /\ turns' = 0
             /\ rest' <= phase' => Merging'
             /\ rest' > phase' =>
                  \A l \in Lidars \ up' : gap' <= cnt'[l] + 2*ScanTicks - 1
  <2>1. UNCHANGED <<up, rest, phase, cnt, mapbox, held, lidar_flag, clouds,
          used, frame, gap, turns>>
    BY <1>6 DEF FlagArrives
  <2>2. waiting' = {} BY <1>a, <1>i, <2>1, NoneWaits
  <2>3. merge_flag' = 0 /\ \A i \in DOMAIN flags' : flags'[i] = 0
    BY <1>6, <1>a, <1>i, <2>1, FlagArrivesDoes
  <2>4. Paired' /\ WerePaired' /\ (rest' <= phase' => Merging')
    BY <1>a, <2>1 DEF Paired, WerePaired, Merging, Matching, Returning
  <2> QED BY <1>a, <2>1, <2>2, <2>3, <2>4
<1>7. ASSUME Tick \/ NextPeriod
      PROVE  /\ merge_flag' = 0 /\ \A i \in DOMAIN flags' : flags'[i] = 0
             /\ waiting' = {} /\ Paired' /\ WerePaired'
             /\ frame' = "2" /\ turns' = 0
             /\ rest' <= phase' => Merging'
             /\ rest' > phase' =>
                  \A l \in Lidars \ up' : gap' <= cnt'[l] + 2*ScanTicks - 1
  <2>0. Watch /\ Passed BY <1>7 DEF Tick, NextPeriod
  <2>1. /\ UNCHANGED <<up, merge_flag, frame, twice, turns, imu>>
        /\ rest' \in Nat /\ (rest < Rest => rest' = rest + 1)
             /\ (rest = Rest => rest' = rest)
        /\ gap' \in Nat /\ gap' <= gap + 1
    BY <1>7, <1>i, PassTime
  <2>2. up # Lidars /\ lidar_flag = 0 BY <1>7, <1>i, <2>1, PassFlag
  <2>3. waiting' = {} BY <1>7, <1>a, <1>i, <2>2, NoneWaits DEF Tick
  <2>4. \A i \in DOMAIN flags' : flags'[i] = 0
    BY <1>a, <1>i, <2>0, <2>2, PublishDoes
  <2>5. Rest >= PubEvery + 5 * ScanTicks - 1 BY QuietIs
  <2>6. ASSUME NEW l \in Lidars \ up
       PROVE cnt[l] \in Nat /\ cnt'[l] = cnt[l] + 1
    <3>1. On(l) BY <2>2 DEF On
    <3>2. cnt[l] <= Dog /\ cnt[l] \in Nat
      BY <1>0, <1>i, <2>6, <3>1 DEF Watched, Settled, Coming, Leaving,
         LidTypeOK
    <3> QED BY <1>0, <1>i, <2>0, <3>2, PassDoes
  <2>7. CASE NextPeriod
    <3>1. phase = ScanTicks - 1 /\ phase' = 0 /\ mapbox = {}
      BY <2>7 DEF NextPeriod
    <3>2. Paired' /\ WerePaired'
      BY <1>a, <2>2, <2>7, AgeDoes, TwoLidars DEF Paired, WerePaired
    <3>3. ~(rest' <= phase') BY <1>0, <2>1, <2>5, <3>1
    <3>4. ASSUME NEW l \in Lidars \ up PROVE gap' <= cnt'[l] + 2*ScanTicks - 1
      <4>1. CASE rest <= phase
        <5>1. ~Returning BY <3>1 DEF Returning
        <5>2. gap <= phase + ScanTicks
          BY <1>0, <1>a, <2>2, <4>1, <5>1 DEF Merging
        <5> QED BY <1>0, <2>1, <2>6, <3>1, <5>2
      <4>2. CASE rest > phase
        <5>1. gap <= cnt[l] + 2*ScanTicks - 1 BY <1>a, <2>2, <3>4, <4>2
        <5> QED BY <1>0, <2>1, <2>6, <3>4, <5>1
      <4> QED BY <1>0, <4>1, <4>2
    <3> QED BY <1>a, <2>1, <2>2, <2>3, <2>4, <3>2, <3>3, <3>4
  <2>8. CASE Tick
    <3>1. phase' = phase + 1 /\ UNCHANGED <<mapbox, held, used>>
      BY <2>8 DEF Tick
    <3>2. Paired' /\ WerePaired' BY <1>a, <2>2, <3>1 DEF Paired, WerePaired
    <3>3. rest' <= phase' => rest <= phase BY <1>0, <2>1, <2>5, <3>1
    <3>4. rest' > phase' => rest > phase BY <1>0, <2>1, <2>5, <3>1
    <3>5. ASSUME rest' <= phase' PROVE Merging'
      <4>1. Merging BY <1>a, <2>2, <3>3, <3>5
      <4>2. CASE gap <= phase
        <5>1. gap' <= phase' BY <1>0, <2>1, <3>1, <4>2
        <5> QED BY <5>1 DEF Merging
      <4>3. CASE Matching /\ gap <= phase + ScanTicks
        <5>1. gap' <= phase' + ScanTicks BY <1>0, <2>1, <3>1, <4>3
        <5> QED BY <3>1, <4>3, <5>1 DEF Merging, Matching
      <4>4. CASE Returning /\ gap <= phase + 2 * ScanTicks
        <5>1. gap' <= phase' + 2 * ScanTicks BY <1>0, <2>1, <3>1, <4>4
        <5> QED BY <3>1, <4>4, <5>1 DEF Merging, Returning
      <4> QED BY <4>1, <4>2, <4>3, <4>4 DEF Merging
    <3>6. ASSUME rest' > phase', NEW l \in Lidars \ up
         PROVE gap' <= cnt'[l] + 2*ScanTicks - 1
      <4>1. gap <= cnt[l] + 2*ScanTicks - 1 BY <1>a, <2>2, <3>4, <3>6
      <4> QED BY <1>0, <2>1, <2>6, <3>6, <4>1
    <3> QED BY <1>a, <2>1, <2>2, <2>3, <2>4, <3>2, <3>5, <3>6
  <2> QED BY <1>7, <2>7, <2>8
<1>8. CASE UNCHANGED <<up, rest, phase, mapbox, held, cnt, lidar_flag, flags,
             clouds, merge_flag, frame, gap, used, turns>>
  <2>1. OneLess'
    BY <1>8, SameWaiting
    DEF LidInv, OneLess, Paired, WerePaired, Merging, Matching, Returning
  <2> QED BY <2>1 DEF OneLess
<1> QED BY <1>1, <1>2, <1>3, <1>4, <1>5, <1>6, <1>7, <1>8
        DEF LidNext, ImuCallback, lidVars

(* What holds of the numbers in every state.                               *)
LEMMA Numbers ==
  ASSUME LidTypeOK
  PROVE  /\ ScanTicks \in Nat /\ ScanTicks >= 1 /\ Dog \in Nat
         /\ PubEvery \in Nat /\ PubEvery >= 1
         /\ Rest \in Nat /\ phase \in 0 .. ScanTicks - 1
         /\ rest \in 0 .. Rest /\ gap \in Nat
         /\ pub_cnt \in 0 .. PubEvery - 1 /\ turns \in Nat /\ twice \in Nat
         /\ last \in 0 .. 2
<1>1. GapCap \in Nat BY LidBoundsHold DEF GapCap, LidBounds
<1>2. LidBounds BY LidBoundsHold
<1> QED BY <1>1, <1>2 DEF LidTypeOK, LidBounds, Old

(* A scan that is due comes within two periods.                            *)
LEMMA DueAtMost ==
  ASSUME LidTypeOK, NEW k \in Lidars, NEW x \in Nat, NEW c \in Nat,
         Due(x, k, c)
  PROVE  x <= c + phase + 2 * ScanTicks
<1>1. CASE \E l \in Lidars, s \in 0 .. 1 :
             x <= c + ScanTicks + phase + (IF s = 1 THEN ScanTicks ELSE 0)
  <2>1. PICK l \in Lidars,
          s \in 0 .. 1 :
            x <= c + ScanTicks + phase + (IF s = 1 THEN ScanTicks ELSE 0)
    BY <1>1
  <2> QED BY <2>1, Numbers
<1>2. CASE x <= c + phase \/ x <= c + ScanTicks + phase
  BY <1>2, Numbers
<1> QED BY <1>1, <1>2 DEF Due, Late

(* The next failure or return finds the lidar that works alone on, and its *)
(* scans coming.                                                           *)
LEMMA AloneFor ==
  ASSUME LidInv, rest = Rest, NEW k \in Lidars, up = {k}
  PROVE  /\ lidar_flag = OnlyFlag(k)
         /\ frame = k /\ Due(gap, k, 0) /\ gap <= 3 * ScanTicks - 1
<1>0. LidTypeOK /\ Watched /\ Told BY DEF LidInv
<1>1. lidar_flag = OnlyFlag(k)
  <2>1. lidar_flag = FlagFor(up) BY <1>0, QuietTold
  <2>2. FlagFor(up) \in 0 .. 3 /\ up \in SUBSET Lidars
    BY <1>0, FlagForType DEF LidTypeOK
  <2> QED BY <2>1, <2>2, FlagOf
<1>2. \A x \in Nat, c \in Nat : Due(x, k, c) => x <= c + phase + 2 * ScanTicks
  BY <1>0, DueAtMost
<1>3. ~Due(rest, k, Dog + ScanTicks - 1)
  <2>1. SUFFICES ASSUME Due(rest, k, Dog + ScanTicks - 1) PROVE FALSE OBVIOUS
  <2>2. Rest >= Dog + 5 * ScanTicks - 1 BY QuietIs
  <2>3. rest \in Nat /\ Dog + ScanTicks - 1 \in Nat BY <1>0, Numbers
  <2>4. rest <= Dog + ScanTicks - 1 + phase + 2 * ScanTicks BY <1>2, <2>1, <2>3
  <2> QED BY <1>0, <2>2, <2>4, Numbers
<1>4. frame = k /\ Due(gap, k, 0) BY <1>0, <1>3 DEF LidInv, OneWorks
<1>5. gap <= 3 * ScanTicks - 1
  <2>1. gap \in Nat /\ 0 \in Nat BY <1>0, Numbers
  <2>2. gap <= 0 + phase + 2 * ScanTicks BY <1>2, <1>4, <2>1
  <2> QED BY <1>0, <2>2, Numbers
<1> QED BY <1>1, <1>4, <1>5

(* A scan passed on while its lidar is the only one is not dropped.        *)
LEMMA AloneIsFresh ==
  ASSUME LidInv, CloudArrives, NEW j \in Lidars, lidar_flag = OnlyFlag(j),
         NEW h, h = Head(clouds)
  PROVE  /\ h.of = j /\ h.stamp <= last
         /\ ~(h.stamp = last /\ h.of # frame)
<1>i. LidTypeOK /\ Sorted BY DEF LidInv
<1>1. h.of \in Lidars /\ h.stamp \in 0 .. 1 /\ <<h.of, h.stamp>> \in waiting
  BY <1>i, CloudDoes
<1>2. On(h.of) BY <1>1 DEF LidInv, Queue
<1>3. ~On(Other(j)) BY <1>i, OnIs
<1>4. h.of = j BY <1>1, <1>2, <1>3, TwoLidars
<1>5. h.stamp <= last
  <2>1. SUFFICES ASSUME ~(h.stamp <= last) PROVE FALSE OBVIOUS
  <2>2. h.stamp = 1 /\ last = 0 BY <1>i, <1>1, <2>1, Numbers
  <2>3. <<frame, 0>> \in used /\ frame \in Lidars
    BY <1>i, <2>2 DEF LidInv, LastUsed, Old, LidTypeOK
  <2>4. On(frame)
    <3>1. 0 \in 0 .. 1 OBVIOUS
    <3> QED BY <2>3, <3>1 DEF LidInv, Used
  <2>5. <<j, 0>> \in used BY <1>3, <2>3, <2>4, TwoLidars
  <2>6. <<Other(j), 0>> \notin used BY <1>3, TwoLidars DEF LidInv, Used
  <2>7. <<j, 0>> \in used /\ <<Other(j), 0>> \notin used /\ 0 \in 0 .. 1 =>
          \A t \in 0 .. 1 : <<j, t>> \in waiting => t < 0
    BY DEF LidInv, Used
  <2> QED BY <1>1, <1>4, <2>2, <2>5, <2>6, <2>7
<1>6. ASSUME h.stamp = last PROVE h.of = frame
  <2>1. <<frame, last>> \in used /\ frame \in Lidars /\ last \in 0 .. 1
    BY <1>i, <1>1, <1>6 DEF LidInv, LastUsed, Old, LidTypeOK
  <2>2. On(frame) BY <2>1 DEF LidInv, Used
  <2> QED BY <1>3, <1>4, <2>1, <2>2, TwoLidars
<1> QED BY <1>4, <1>5, <1>6

(* Every step keeps what was passed on of a lidar alone apart from what is *)
(* merged after the return of the other.                                   *)
LEMMA BothSettleHolds ==
  ASSUME LidInv, [LidNext]_lidVars
  PROVE  BothSettle'
<1> USE DEF lidars, monitor, buffer, mapper, Late
<1> SUFFICES ASSUME up' = Lidars
             PROVE  /\ \A l \in Lidars, s \in 0 .. 1 :
                         <<l, s>> \in waiting' =>
                           rest' <= phase' + ScanTicks + Late(s = 1)
                    /\ ~Paired' => rest' <= phase' + ScanTicks
                    /\ \A s \in 0..1 :
                         (\A l \in Lidars : <<l, s>> \in used') =>
                           merge_flag' = 0
  <2>1. \A s \in 0 .. 1 : Lidars \X {s} \subseteq used' =>
          \A l \in Lidars : <<l, s>> \in used'
    OBVIOUS
  <2> QED BY <2>1 DEF BothSettle
<1>i. LidTypeOK /\ Scans /\ Watched /\ Told /\ Sorted /\ Queue /\ Held
  BY DEF LidInv
<1>0. /\ ScanTicks \in Nat /\ ScanTicks >= 1 /\ phase \in 0 .. ScanTicks - 1
      /\ rest \in Nat
  <2>1. rest \in Nat BY <1>i, Numbers
  <2> QED BY <1>i, <2>1, Numbers
<1>a. up = Lidars =>
      /\ \A l \in Lidars, s \in 0 .. 1 : <<l, s>> \in waiting =>
           rest <= phase + ScanTicks + Late(s = 1)
      /\ ~Paired => rest <= phase + ScanTicks
      /\ \A s \in 0..1 : (\A l \in Lidars : <<l, s>> \in used) =>
           merge_flag = 0
      /\ \A l \in Lidars : <<l, 0>> \in waiting => rest <= phase + ScanTicks
  <2>2. 0 \in 0 .. 1 /\ phase + ScanTicks + 0 = phase + ScanTicks
          /\ (IF 0 = 1 THEN ScanTicks ELSE 0) = 0
    BY <1>0
  <2>3. ASSUME up = Lidars, NEW l \in Lidars, <<l, 0>> \in waiting
       PROVE rest <= phase + ScanTicks
    <3>1. rest <= phase + ScanTicks + (IF 0 = 1 THEN ScanTicks ELSE 0)
      BY <2>2, <2>3 DEF LidInv, BothSettle
    <3> QED BY <1>0, <3>1
  <2>1. \A s \in 0 .. 1 : (\A l \in Lidars : <<l, s>> \in used) =>
          Lidars \X {s} \subseteq used
    OBVIOUS
  <2> QED BY <2>1, <2>3 DEF LidInv, BothSettle
<1>1. ASSUME NEW m \in Lidars, Fail(m) PROVE FALSE
  BY <1>1 DEF Fail
<1>2. ASSUME NEW m \in Lidars, Recover(m)
      PROVE  /\ \A l \in Lidars, s \in 0 .. 1 :
                  <<l, s>> \in waiting' =>
                    rest' <= phase' + ScanTicks + Late(s = 1)
             /\ ~Paired' => rest' <= phase' + ScanTicks
             /\ \A s \in 0..1 : (\A l \in Lidars : <<l, s>> \in used') =>
                  merge_flag' = 0
  <2>1. rest' = 0 /\ rest = Rest /\ m \notin up /\ UNCHANGED <<phase, used>>
    BY <1>2 DEF Recover
  <2>2. lidar_flag # 0
    <3>1. lidar_flag = FlagFor(up) BY <1>i, <2>1, QuietTold
    <3>2. up \in SUBSET Lidars /\ up # Lidars BY <1>i, <2>1 DEF LidTypeOK
    <3> QED BY <3>1, <3>2, FlagOf, FlagForType
  <2>3. ASSUME NEW s \in 0 .. 1, \A l \in Lidars : <<l, s>> \in used
       PROVE FALSE
    <3>1. \A l \in Lidars : On(l) BY <2>3 DEF LidInv, Used
    <3> QED BY <1>i, <2>2, <3>1, OnIs
  <2>4. \A s \in 0 .. 1 : rest' <= phase' + ScanTicks + Late(s = 1)
    BY <1>0, <2>1
  <2> QED BY <1>0, <2>1, <2>3, <2>4
<1>3. ASSUME NEW k \in Lidars, LidarCallback(k)
      PROVE  /\ \A l \in Lidars, s \in 0 .. 1 :
                  <<l, s>> \in waiting' =>
                    rest' <= phase' + ScanTicks + Late(s = 1)
             /\ ~Paired' => rest' <= phase' + ScanTicks
             /\ \A s \in 0..1 : (\A l \in Lidars : <<l, s>> \in used') =>
                  merge_flag' = 0
  <2>1. UNCHANGED <<up, rest, phase, used, merge_flag>>
    BY <1>3 DEF LidarCallback
  <2>2. ASSUME PassesOn(k) PROVE rest <= phase + ScanTicks
    <3>1. ~On(Other(k)) BY <1>i, <2>2, OnIs DEF PassesOn
    <3>2. Coming(Other(k))
      BY <1>i, <2>1, <3>1, TwoLidars DEF Watched, Settled, Leaving
    <3> QED BY <1>0, <3>2 DEF Coming
  <2>3. ASSUME NEW l \in Lidars, NEW s \in 0 .. 1, <<l, s>> \in waiting'
        PROVE  rest <= phase + ScanTicks + Late(s = 1)
    <3>1. CASE <<l, s>> \in waiting BY <1>a, <2>1, <3>1
    <3>2. CASE s = 0 /\ PassesOn(k) BY <1>0, <2>2, <3>2
    <3> QED BY <1>3, <1>i, <2>3, <3>1, <3>2, PassOnDoes
  <2> QED BY <1>a, <2>1, <2>3 DEF Paired
<1>4. ASSUME NEW k \in Lidars, ScanArrives(k)
      PROVE  /\ \A l \in Lidars, s \in 0 .. 1 :
                  <<l, s>> \in waiting' =>
                    rest' <= phase' + ScanTicks + Late(s = 1)
             /\ ~Paired' => rest' <= phase' + ScanTicks
             /\ \A s \in 0..1 : (\A l \in Lidars : <<l, s>> \in used') =>
                  merge_flag' = 0
  <2>1. UNCHANGED <<up, rest, phase, merge_flag, clouds>>
    BY <1>4 DEF ScanArrives
  <2>2. UNCHANGED waiting BY <2>1, SameWaiting
  <2>3. CASE UNCHANGED used BY <1>a, <2>1, <2>2, <2>3 DEF Paired
  <2>4. ASSUME NEW F \in SUBSET (0 .. 1), Accept(Lidars, "2", F)
        PROVE  Paired' <=> (0 \in F \/ Paired)
    <3>1. \A j \in Lidars, s \in 0 .. 1 :
            <<j, s>> \in used' <=> <<j, s>> \in used \/ s \in F
      BY <1>i, <2>4, AcceptDoes, TwoLidars
    <3> QED BY <3>1, TwoLidars DEF Paired
  <2>5. \/ UNCHANGED used
        \/ merge_flag = 0 /\ \E F \in SUBSET (0 .. 1) : Accept(Lidars, "2", F)
    BY <1>4, <1>i, ScanDoes
  <2>6. CASE merge_flag = 0
             /\ \E F \in SUBSET (0 .. 1) : Accept(Lidars, "2", F)
    BY <1>a, <2>1, <2>2, <2>4, <2>6
  <2> QED BY <2>3, <2>5, <2>6
<1>5. ASSUME CloudArrives
      PROVE  /\ \A l \in Lidars, s \in 0 .. 1 :
                  <<l, s>> \in waiting' =>
                    rest' <= phase' + ScanTicks + Late(s = 1)
             /\ ~Paired' => rest' <= phase' + ScanTicks
             /\ \A s \in 0..1 : (\A l \in Lidars : <<l, s>> \in used') =>
                  merge_flag' = 0
  <2> DEFINE h == Head(clouds)
  <2>1. /\ h.of \in Lidars /\ h.stamp \in 0 .. 1
        /\ <<h.of, h.stamp>> \in waiting
        /\ \A l \in Lidars, s \in 0 .. 1 : <<l, s>> \in waiting' =>
             <<l, s>> \in waiting
        /\ \/ \A l \in Lidars, s \in 0 .. 1 :
                 <<l, s>> \in used'
                   <=> <<l, s>> \in used \/ (l = h.of /\ s = h.stamp)
           \/ UNCHANGED used
    BY <1>5, <1>i, CloudDoes
  <2>2. UNCHANGED <<up, rest, phase, merge_flag>> BY <1>5 DEF CloudArrives
  <2> HIDE DEF h
  <2>3. ASSUME NEW s \in 0 .. 1, \A l \in Lidars : <<l, s>> \in used'
       PROVE \A l \in Lidars : <<l, s>> \in used
    <3>1. CASE s # h.stamp BY <2>1, <2>3, <3>1
    <3>2. CASE s = h.stamp
      <4>1. Other(h.of) \in Lidars /\ Other(h.of) # h.of
              /\ Lidars = {h.of, Other(h.of)}
        BY <2>1, TwoLidars
      <4>2. <<Other(h.of), s>> \in used BY <2>1, <2>3, <4>1
      <4>3. <<h.of, s>> \in used BY <2>1, <3>2, <4>2 DEF LidInv, MergedBefore
      <4> QED BY <4>1, <4>2, <4>3
    <3> QED BY <3>1, <3>2
  <2>4. ASSUME ~Paired' PROVE rest <= phase + ScanTicks
    <3>1. CASE h.stamp = 0
      <4>1. rest <= phase + ScanTicks BY <1>a, <2>1, <2>2, <3>1
      <4> QED BY <1>0, <4>1
    <3>2. CASE h.stamp # 0
      <4>1. Paired' = Paired BY <2>1, <3>2, TwoLidars DEF Paired
      <4> QED BY <1>a, <2>2, <2>4, <4>1
    <3> QED BY <3>1, <3>2
  <2> QED BY <1>a, <2>1, <2>2, <2>3, <2>4
<1>6. ASSUME FlagArrives
      PROVE  /\ \A l \in Lidars, s \in 0 .. 1 :
                  <<l, s>> \in waiting' =>
                    rest' <= phase' + ScanTicks + Late(s = 1)
             /\ ~Paired' => rest' <= phase' + ScanTicks
             /\ \A s \in 0..1 : (\A l \in Lidars : <<l, s>> \in used') =>
                  merge_flag' = 0
  <2>1. UNCHANGED <<up, rest, phase, used, clouds>> BY <1>6 DEF FlagArrives
  <2>2. UNCHANGED waiting BY <2>1, SameWaiting
  <2>3. merge_flag = 0 => merge_flag' = 0
    <3>1. 1 \in DOMAIN flags /\ merge_flag' = flags[1]
      BY <1>6, <1>i, FlagArrivesDoes
    <3> QED BY <2>1, <3>1 DEF LidInv, ToldZero
  <2> QED BY <1>a, <2>1, <2>2, <2>3 DEF Paired
<1>7. ASSUME Tick \/ NextPeriod
      PROVE  /\ \A l \in Lidars, s \in 0 .. 1 :
                  <<l, s>> \in waiting' =>
                    rest' <= phase' + ScanTicks + Late(s = 1)
             /\ ~Paired' => rest' <= phase' + ScanTicks
             /\ \A s \in 0..1 : (\A l \in Lidars : <<l, s>> \in used') =>
                  merge_flag' = 0
  <2>1. UNCHANGED <<up, merge_flag>> /\ rest' \in Nat /\ rest' <= rest + 1
    BY <1>7, <1>i, PassTime
  <2>2. CASE phase' = phase + 1 /\ UNCHANGED <<used, waiting>>
    <3>1. ASSUME NEW l \in Lidars, NEW s \in 0 .. 1, <<l, s>> \in waiting'
          PROVE  rest' <= phase' + ScanTicks + Late(s = 1)
      <4>1. rest <= phase + ScanTicks + Late(s = 1) BY <1>a, <2>1, <2>2, <3>1
      <4> QED BY <1>0, <2>1, <2>2, <4>1
    <3>2. ASSUME ~Paired' PROVE rest' <= phase' + ScanTicks
      <4>1. rest <= phase + ScanTicks BY <1>a, <2>1, <2>2, <3>2 DEF Paired
      <4> QED BY <1>0, <2>1, <2>2, <4>1
    <3> QED BY <1>a, <2>1, <2>2, <3>1, <3>2
  <2>3. CASE NextPeriod
    <3>0. phase = ScanTicks - 1 /\ phase' = 0 BY <2>3 DEF NextPeriod
    <3>1. ASSUME NEW l \in Lidars, NEW s \in 0 .. 1, <<l, s>> \in waiting'
          PROVE  rest' <= phase' + ScanTicks + Late(s = 1)
      <4>1. s = 1 /\ <<l, 0>> \in waiting
        BY <1>i, <2>3, <3>1, WaitAge DEF NextPeriod
      <4>2. rest <= phase + ScanTicks BY <1>a, <2>1, <4>1
      <4>3. rest' <= phase' + ScanTicks + ScanTicks BY <1>0, <2>1, <3>0, <4>2
      <4> QED BY <1>0, <4>1, <4>3
    <3>2. Paired' BY <2>3, AgeDoes, TwoLidars DEF Paired
    <3>3. ASSUME NEW s \in 0 .. 1, \A l \in Lidars : <<l, s>> \in used'
         PROVE \A l \in Lidars : <<l, 0>> \in used
      BY <2>3, <3>3, AgeDoes
    <3> QED BY <1>a, <2>1, <3>1, <3>2, <3>3
  <2> QED BY <1>7, <1>i, <2>2, <2>3, PassTime
<1>8. CASE UNCHANGED <<up, rest, phase, clouds, merge_flag, used>>
  <2>1. UNCHANGED waiting BY <1>8, SameWaiting
  <2> QED BY <1>8, <1>a, <2>1 DEF Paired
<1> QED BY <1>1, <1>2, <1>3, <1>4, <1>5, <1>6, <1>7, <1>8
        DEF LidNext, ImuCallback, lidVars

(* Every step keeps what is known of the scans that came in alone.         *)
LEMMA BothApartHolds ==
  ASSUME LidInv, [LidNext]_lidVars
  PROVE  BothApart'
<1> USE DEF lidars, monitor, buffer, mapper
<1> SUFFICES ASSUME up' = Lidars
             PROVE  /\ ~WerePaired' => rest' <= phase' + 2 * ScanTicks
                    /\ frame' = "1" /\ last' < Old =>
                         rest' <= phase' + ScanTicks + Late(last = 1)'
  BY DEF BothApart
<1>i. LidTypeOK /\ Scans /\ Sorted /\ Held BY DEF LidInv
<1>0. /\ ScanTicks \in Nat /\ ScanTicks >= 1 /\ phase \in 0 .. ScanTicks - 1
      /\ rest \in Nat /\ last \in 0 .. 2
  <2>1. rest \in Nat BY <1>i, Numbers
  <2> QED BY <1>i, <2>1, Numbers
<1>a. up = Lidars =>
      /\ ~WerePaired => rest <= phase + 2 * ScanTicks
      /\ frame = "1" /\ last < Old =>
           rest <= phase + ScanTicks + Late(last = 1)
      /\ ~Paired => rest <= phase + ScanTicks
      /\ \A l \in Lidars, s \in 0 .. 1 : <<l, s>> \in waiting =>
           rest <= phase + ScanTicks + Late(s = 1)
  BY DEF LidInv, BothApart, BothSettle
<1>1. ASSUME NEW m \in Lidars, Fail(m) PROVE FALSE
  BY <1>1 DEF Fail
<1>2. ASSUME NEW m \in Lidars, Recover(m) PROVE BothApart'
  <2>1. rest' = 0 /\ phase' = phase BY <1>2 DEF Recover
  <2> QED BY <1>0, <2>1 DEF BothApart, Late
<1>3. ASSUME NEW k \in Lidars, ScanArrives(k) PROVE BothApart'
  <2>1. UNCHANGED <<up, rest, phase>> BY <1>3 DEF ScanArrives
  <2>2. ASSUME NEW F \in SUBSET (0 .. 1), Accept(Lidars, "2", F)
        PROVE  BothApart'
    <3>1. \A j \in Lidars, s \in 0 .. 1 :
            <<j, s>> \in used' <=> <<j, s>> \in used \/ s \in F
      BY <1>i, <2>2, AcceptDoes, TwoLidars
    <3>2. WerePaired => WerePaired' BY <3>1, TwoLidars DEF WerePaired
    <3>3. frame' = "2" BY <1>i, <2>2, AcceptDoes, TwoLidars
    <3> QED BY <1>a, <2>1, <3>2, <3>3 DEF BothApart
  <2>3. \/ UNCHANGED <<last, frame, gap, used, twice, turns>>
        \/ \E F \in SUBSET (0 .. 1) : Accept(Lidars, "2", F)
    BY <1>3, <1>i, ScanDoes
  <2>4. CASE UNCHANGED <<last, frame, gap, used, twice, turns>>
    BY <1>a, <2>1, <2>4 DEF BothApart, WerePaired, Late
  <2> QED BY <2>2, <2>3, <2>4
<1>4. ASSUME CloudArrives PROVE BothApart'
  <2> DEFINE h == Head(clouds)
  <2>1. /\ h.of \in Lidars /\ h.stamp \in 0 .. 1
        /\ <<h.of, h.stamp>> \in waiting
        /\ \/ /\ last' = h.stamp /\ frame' = h.of
              /\ \A l \in Lidars, s \in 0 .. 1 :
                    <<l, s>> \in used'
                      <=> <<l, s>> \in used \/ (l = h.of /\ s = h.stamp)
           \/ UNCHANGED <<last, frame, gap, used, twice, turns>>
    BY <1>4, <1>i, CloudDoes
  <2>2. UNCHANGED <<up, rest, phase>> BY <1>4 DEF CloudArrives
  <2> HIDE DEF h
  <2>3. rest <= phase + ScanTicks + Late(h.stamp = 1)
    BY <1>a, <2>1, <2>2
  <2>4. CASE UNCHANGED <<last, frame, gap, used, twice, turns>>
    BY <1>a, <2>2, <2>4 DEF BothApart, WerePaired, Late
  <2>5. CASE /\ last' = h.stamp /\ frame' = h.of
             /\ \A l \in Lidars, s \in 0 .. 1 :
                    <<l, s>> \in used'
                      <=> <<l, s>> \in used \/ (l = h.of /\ s = h.stamp)
    <3>1. rest' <= phase' + ScanTicks + Late(last' = 1)
      BY <2>2, <2>3, <2>5
    <3>2. ~WerePaired' => rest' <= phase' + 2 * ScanTicks
      <4>1. CASE h.stamp = 1
        BY <1>0, <2>2, <2>3, <4>1 DEF Late
      <4>2. CASE h.stamp # 1
        <5>1. WerePaired' = WerePaired
          BY <2>5, <4>2, TwoLidars DEF WerePaired
        <5> QED BY <1>a, <2>2, <5>1
      <4> QED BY <4>1, <4>2
    <3> QED BY <3>1, <3>2 DEF BothApart, Late
  <2> QED BY <2>1, <2>4, <2>5
<1>5. ASSUME Tick \/ NextPeriod PROVE BothApart'
  <2>1. UNCHANGED <<up, frame>> /\ rest' \in Nat /\ rest' <= rest + 1
    BY <1>5, <1>i, PassTime
  <2>2. CASE phase' = phase + 1 /\ UNCHANGED <<used, last>>
    <3>1. Late(last = 1)' = Late(last = 1) /\ Late(last = 1) \in Nat
      BY <1>0, <2>2 DEF Late
    <3>2. WerePaired' = WerePaired BY <2>2 DEF WerePaired
    <3>3. ~WerePaired' => rest' <= phase' + 2 * ScanTicks
      BY <1>0, <1>a, <2>1, <2>2, <3>2
    <3>4. frame' = "1" /\ last' < Old =>
            rest' <= phase' + ScanTicks + Late(last = 1)
      BY <1>0, <1>a, <2>1, <2>2, <3>1
    <3> QED BY <3>1, <3>3, <3>4 DEF BothApart
  <2>3. CASE NextPeriod
    <3>1. phase = ScanTicks - 1 /\ phase' = 0
            /\ last' = (IF last < 2 THEN last + 1 ELSE 2)
      BY <2>3 DEF NextPeriod, Older, Old
    <3>2. WerePaired' = Paired
      BY <2>3, AgeDoes, TwoLidars DEF Paired, WerePaired
    <3>3. ~WerePaired' => rest' <= phase' + 2 * ScanTicks
      BY <1>0, <1>a, <2>1, <3>1, <3>2
    <3>4. ASSUME frame' = "1", last' < Old
          PROVE  rest' <= phase' + ScanTicks + Late(last' = 1)
      <4>1. last = 0 /\ last' = 1 BY <1>0, <3>1, <3>4 DEF Old
      <4>2. rest <= phase + ScanTicks + 0
        BY <1>a, <2>1, <3>4, <4>1 DEF Late, Old
      <4> QED BY <1>0, <2>1, <3>1, <4>1, <4>2 DEF Late
    <3> QED BY <3>3, <3>4 DEF BothApart, Late
  <2> QED BY <1>5, <1>i, <2>2, <2>3, PassTime
<1>6. CASE UNCHANGED <<up, rest, phase, last, frame, used>>
  BY <1>6, <1>a DEF BothApart, WerePaired, Late
<1> QED BY <1>1, <1>2, <1>3, <1>4, <1>5, <1>6
        DEF LidNext, LidarCallback, ImuCallback, FlagArrives, lidVars,
            BothApart

(* Every step keeps the frame that of the lidar that was alone, until the  *)
(* first merge.                                                            *)
LEMMA BothTurnsHold ==
  ASSUME LidInv, [LidNext]_lidVars
  PROVE  BothTurns'
<1> USE DEF lidars, monitor, buffer, mapper
<1> DEFINE A == \A k \in Lidars : lidar_flag = OnlyFlag(k) =>
  frame = k /\ turns = 0 /\ Due(gap, k, 0)
           B == \A s \in 0 .. 1 : <<"2", s>> \in waiting => frame = "2"
           C == \A s \in 0 .. 1 : <<"1", s>> \in waiting /\ frame = "2" =>
             last < Old
           D == turns <= 2 * twice + (IF frame = "1" THEN 0 ELSE 1)
<1> SUFFICES ASSUME up' = Lidars PROVE A' /\ B' /\ C' /\ D'
  BY DEF BothTurns
<1>i. LidTypeOK /\ Scans /\ Watched /\ Told /\ Sorted /\ Queue
        /\ MergedBefore /\ ToldZero /\ Held
  BY DEF LidInv
<1>0. /\ ScanTicks \in Nat /\ ScanTicks >= 1 /\ phase \in 0 .. ScanTicks - 1
      /\ gap \in Nat
      /\ turns \in Nat /\ twice \in Nat /\ last \in 0 .. 2 /\ frame \in Lidars
  <2>1. frame \in Lidars BY <1>i DEF LidTypeOK
  <2> QED BY <1>i, <2>1, Numbers
<1>a. up = Lidars => A /\ B /\ C /\ D
  BY DEF LidInv, BothTurns
<1>1. ASSUME NEW m \in Lidars, Fail(m) PROVE FALSE
  BY <1>1 DEF Fail
<1>2. ASSUME NEW m \in Lidars, Recover(m) PROVE A' /\ B' /\ C' /\ D'
  <2>1. /\ turns' = 0 /\ twice' = 0 /\ m \notin up /\ up' = up \union {m}
        /\ UNCHANGED <<phase, lidar_flag, frame, gap, inbox, clouds, last>>
    BY <1>2 DEF Recover
  <2>2. PICK k \in Lidars : up = {k}
    <3>1. Other(m) \in Lidars /\ Lidars = {m, Other(m)} /\ Other(m) # m
            /\ up \subseteq Lidars
      BY <1>i, TwoLidars DEF LidTypeOK
    <3>2. up = {Other(m)} BY <2>1, <3>1
    <3> QED BY <3>1, <3>2
  <2>3. lidar_flag = OnlyFlag(k) /\ frame = k /\ Due(gap, k, 0)
    BY <1>2, <2>2, AloneFor DEF Recover
  <2>4. UNCHANGED waiting BY <2>1, SameWaiting
  <2>5. ASSUME NEW l \in Lidars, NEW s \in 0 .. 1, <<l, s>> \in waiting
       PROVE l = k
    <3>1. On(l) BY <1>i, <2>5 DEF Queue
    <3>2. ~On(Other(k)) BY <1>i, <2>3, OnIs
    <3> QED BY <3>1, <3>2, TwoLidars
  <2>6. A'
    <3>1. Due(gap, k, 0)' BY <2>1, <2>3, <2>4 DEF Due
    <3>2. ASSUME NEW j \in Lidars, lidar_flag = OnlyFlag(j) PROVE j = k
      BY <2>3, <3>2, TwoLidars
    <3> QED BY <2>1, <2>3, <3>1, <3>2
  <2>7. B' BY <2>1, <2>3, <2>4, <2>5, TwoLidars
  <2>8. C' BY <2>1, <2>3, <2>4, <2>5, TwoLidars
  <2>9. D' BY <2>1
  <2> QED BY <2>6, <2>7, <2>8, <2>9
<1>3. ASSUME NEW k \in Lidars, LidarCallback(k) PROVE A' /\ B' /\ C' /\ D'
  <2>1. /\ UNCHANGED <<up, phase, lidar_flag, frame, gap, last, turns, twice>>
        /\ inbox' = inbox \ {k}
    BY <1>3 DEF LidarCallback
  <2>2. \A l \in Lidars, s \in 0 .. 1 :
          <<l, s>> \in waiting'
            <=> <<l, s>> \in waiting \/ (l = k /\ s = 0 /\ PassesOn(k))
    BY <1>3, <1>i, PassOnDoes
  <2>b. A /\ B /\ C /\ D BY <1>a, <2>1
  <2>3. PassesOn(k) => frame = k BY <2>b DEF PassesOn
  <2>4. ASSUME NEW j \in Lidars, lidar_flag = OnlyFlag(j) PROVE Due(gap, j, 0)'
    <3>0. Due(gap, j, 0) BY <2>4, <2>b
    <3>1. CASE gap <= 0 + phase BY <2>1, <3>1 DEF Due
    <3>2. CASE j \in inbox /\ gap <= 0 + ScanTicks + phase
      <4>1. CASE j = k
        <5>a. PassesOn(k) /\ 0 \in 0 .. 1 BY <2>4, <4>1 DEF PassesOn
        <5>1. <<k, 0>> \in waiting' BY <2>2, <5>a
        <5>2. gap' <= 0 + ScanTicks + phase' + Late(0 = 1)
          BY <1>0, <2>1, <3>2 DEF Late
        <5> QED BY <5>1, <5>2 DEF Due
      <4>2. CASE j # k BY <2>1, <3>2, <4>2 DEF Due
      <4> QED BY <4>1, <4>2
    <3>3. ASSUME NEW l \in Lidars, NEW s \in 0 .. 1, <<l, s>> \in waiting,
                 gap <= 0 + ScanTicks + phase + Late(s = 1)
          PROVE  Due(gap, j, 0)'
      <4>1. <<l, s>> \in waiting' BY <2>2, <3>3
      <4>2. gap' <= 0 + ScanTicks + phase' + Late(s = 1) BY <2>1, <3>3
      <4> QED BY <4>1, <4>2 DEF Due
    <3> QED BY <3>0, <3>1, <3>2, <3>3 DEF Due
  <2>5. A' BY <2>1, <2>4, <2>b
  <2>6. B' BY <2>1, <2>2, <2>3, <2>b, TwoLidars
  <2>7. C' BY <2>1, <2>2, <2>3, <2>b, TwoLidars
  <2>8. D' BY <2>1, <2>b
  <2> QED BY <2>5, <2>6, <2>7, <2>8
<1>4. ASSUME NEW k \in Lidars, ScanArrives(k) PROVE A' /\ B' /\ C' /\ D'
  <2>1. UNCHANGED <<up, phase, lidar_flag, inbox, clouds>>
    BY <1>4 DEF ScanArrives
  <2>2. UNCHANGED waiting BY <2>1, SameWaiting
  <2>b. A /\ B /\ C /\ D BY <1>a, <2>1
  <2>3. CASE UNCHANGED <<last, frame, gap, turns, twice>>
    <3>1. A' BY <2>1, <2>2, <2>3, <2>b DEF Due
    <3>2. B' /\ C' /\ D' BY <2>1, <2>2, <2>3, <2>b
    <3> QED BY <3>1, <3>2
  <2>4. ASSUME merge_flag = 0, NEW F \in SUBSET (0 .. 1),
               Accept(Lidars, "2", F)
        PROVE  A' /\ B' /\ C' /\ D'
    <3>1. lidar_flag = 0 BY <2>1, <2>4, <1>i DEF ToldZero
    <3>2. /\ last' < 2 /\ frame' = "2"
          /\ turns' = (IF frame = "2" THEN turns ELSE turns + 1)
          /\ twice' \in Nat /\ twice' >= twice
      <4>1. last' \in F /\ frame' = "2"
            /\ turns' = (IF "2" = frame THEN turns ELSE turns + 1)
        BY <1>i, <2>4, AcceptDoes, TwoLidars
      <4>2. twice' \in Nat /\ twice' >= twice
        BY <1>i, <2>4, AcceptMore, TwoLidars
      <4> QED BY <4>1, <4>2
    <3>3. A' BY <2>1, <3>1, TwoLidars
    <3>4. B' /\ C' BY <3>2 DEF Old
    <3>5. D'
      <4>1. frame = "1" \/ frame = "2" BY <1>0 DEF Lidars
      <4>2. turns' <= 2 * twice + 1 /\ turns' \in Nat
        BY <1>0, <2>b, <3>2, <4>1
      <4>3. turns' <= 2 * twice' + 1
        <5> DEFINE t == twice'  u == turns'
        <5>1. t \in Nat /\ t >= twice /\ u \in Nat /\ u <= 2 * twice + 1
          BY <3>2, <4>2
        <5> HIDE DEF t, u
        <5>2. u <= 2 * t + 1 BY <1>0, <5>1
        <5> QED BY <5>2 DEF t, u
      <4> QED BY <3>2, <4>3
    <3> QED BY <3>3, <3>4, <3>5
  <2>5. \/ UNCHANGED <<last, frame, gap, used, twice, turns>>
        \/ merge_flag = 0 /\ \E F \in SUBSET (0 .. 1) : Accept(Lidars, "2", F)
    BY <1>4, <1>i, ScanDoes
  <2> QED BY <2>3, <2>4, <2>5
<1>5. ASSUME CloudArrives PROVE A' /\ B' /\ C' /\ D'
  <2> DEFINE h == Head(clouds)
  <2>1. /\ h.of \in Lidars /\ h.stamp \in 0 .. 1
        /\ <<h.of, h.stamp>> \in waiting
        /\ \A l \in Lidars, s \in 0 .. 1 : <<l, s>> \in waiting' =>
             <<l, s>> \in waiting /\ l = h.of
        /\ \/ /\ h.stamp <= last
              /\ last' = h.stamp /\ frame' = h.of /\ gap' = 0
              /\ turns' = IF h.of = frame THEN turns ELSE turns + 1
              /\ twice' = IF <<h.of, h.stamp>> \in used THEN twice + 1
                          ELSE twice
           \/ /\ h.stamp > last \/ (h.stamp = last /\ h.of # frame)
              /\ UNCHANGED <<last, frame, gap, used, twice, turns>>
    BY <1>5, <1>i, CloudDoes
  <2>2. UNCHANGED <<up, phase, lidar_flag, inbox>> BY <1>5 DEF CloudArrives
  <2>b. A /\ B /\ C /\ D BY <1>a, <2>2
  <2>c. \A j \in Lidars : lidar_flag = OnlyFlag(j) =>
          h.of = j /\ h.stamp <= last /\ ~(h.stamp = last /\ h.of # frame)
    BY <1>5, AloneIsFresh
  <2> HIDE DEF h
  <2>3. CASE /\ h.stamp > last \/ (h.stamp = last /\ h.of # frame)
             /\ UNCHANGED <<last, frame, gap, used, twice, turns>>
    <3>0. \A j \in Lidars : lidar_flag # OnlyFlag(j)
      BY <1>0, <2>1, <2>3, <2>c
    <3>1. A' BY <2>2, <3>0
    <3>2. B' BY <2>1, <2>3, <2>b, TwoLidars
    <3>3. C' BY <2>1, <2>3, <2>b, TwoLidars
    <3>4. D' BY <2>3, <2>b
    <3> QED BY <3>1, <3>2, <3>3, <3>4
  <2>4. CASE /\ h.stamp <= last
             /\ last' = h.stamp /\ frame' = h.of /\ gap' = 0
             /\ turns' = IF h.of = frame THEN turns ELSE turns + 1
             /\ twice' = IF <<h.of, h.stamp>> \in used THEN twice + 1
                         ELSE twice
    <3>1. /\ last' = h.stamp /\ frame' = h.of /\ gap' = 0
          /\ (h.of = frame => turns' = turns) /\ (h.of # frame =>
               turns' = turns + 1)
          /\ twice' = twice \/ twice' = twice + 1
          /\ <<h.of, h.stamp>> \in used => twice' = twice + 1
      BY <2>4
    <3>2. A'
      <4>1. ASSUME NEW j \in Lidars, lidar_flag' = OnlyFlag(j)
           PROVE frame' = j /\ turns' = 0 /\ Due(gap, j, 0)'
        <5>1. frame = j /\ turns = 0 /\ h.of = j BY <2>2, <2>b, <2>c, <4>1
        <5>2. gap' <= 0 + phase' BY <1>0, <2>2, <3>1
        <5> QED BY <3>1, <5>1, <5>2 DEF Due
      <4> QED BY <4>1
    <3>3. B' /\ C' BY <2>1, <3>1, TwoLidars
    <3>4. D'
      <4>1. CASE h.of = frame
        <5>1. turns' = turns /\ frame' = frame BY <3>1, <4>1
        <5>2. turns <= 2 * twice' + (IF frame = "1" THEN 0 ELSE 1)
          BY <1>0, <2>b, <3>1
        <5> QED BY <5>1, <5>2
      <4>2. CASE h.of # frame
        <5>1. h.of = "1" /\ frame = "2" BY <1>0, <2>1, <2>b, <4>2, TwoLidars
        <5>2. last < Old BY <2>1, <2>b, <5>1
        <5>3. <<"2", last>> \in used BY <5>1, <5>2 DEF LidInv, LastUsed
        <5>4. last \in 0 .. 1 /\ Other("1") = "2" BY <1>0, <5>2 DEF Old, Other
        <5>5. <<"1", last>> \in used /\ last <= h.stamp
          BY <1>i, <2>1, <5>1, <5>3, <5>4, TwoLidars DEF MergedBefore
        <5>6. last = h.stamp BY <1>0, <2>1, <2>4, <5>5
        <5>7. twice' = twice + 1 BY <3>1, <5>1, <5>5, <5>6
        <5>8. turns' = turns + 1 /\ frame' = "1" BY <3>1, <4>2, <5>1
        <5>9. turns + 1 <= 2 * (twice + 1) + 0 BY <1>0, <2>b, <5>1
        <5> QED BY <5>7, <5>8, <5>9
      <4> QED BY <4>1, <4>2
    <3> QED BY <3>2, <3>3, <3>4
  <2> QED BY <2>1, <2>3, <2>4
<1>7. ASSUME Tick \/ NextPeriod PROVE A' /\ B' /\ C' /\ D'
  <2>1. UNCHANGED <<up, frame, twice, turns>> /\ gap' \in Nat
          /\ gap' <= gap + 1
    BY <1>7, <1>i, PassTime
  <2>b. A /\ B /\ C /\ D BY <1>a, <2>1
  <2>2. A'
    <3>1. ASSUME NEW k \in Lidars, lidar_flag' = OnlyFlag(k)
         PROVE frame' = k /\ turns' = 0 /\ Due(gap, k, 0)'
      <4>1. lidar_flag = OnlyFlag(k) BY <1>7, <1>i, <2>1, <3>1, PassFlag
      <4>2. frame = k /\ turns = 0 /\ Due(gap, k, 0) BY <2>b, <4>1
      <4>3. k \in up BY <2>1
      <4>4. 0 \in Nat OBVIOUS
      <4>5. \/ gap' <= 0 + phase'
            \/ k \in inbox' /\ gap' <= 0 + ScanTicks + phase'
            \/ \E l \in Lidars, s \in 0 .. 1 :
                 <<l, s>> \in waiting'
                   /\ gap' <= 0 + ScanTicks + phase' + Late(s = 1)
        BY <1>0, <1>7, <1>i, <2>1, <4>2, <4>3, <4>4, DueStep
      <4> QED BY <2>1, <4>2, <4>5 DEF Due
    <3> QED BY <3>1
  <2>3. ASSUME NEW l \in Lidars, NEW s \in 0 .. 1, <<l, s>> \in waiting'
        PROVE  \E t \in 0 .. 1 : <<l, t>> \in waiting /\ (NextPeriod => t = 0)
    <3>1. CASE UNCHANGED waiting /\ ~NextPeriod BY <2>3, <3>1
    <3>2. CASE NextPeriod
      <4>1. <<l, 0>> \in waiting BY <1>i, <2>3, <3>2, WaitAge DEF NextPeriod
      <4> QED BY <4>1
    <3> QED BY <1>7, <1>i, <3>1, <3>2, PassTime
  <2>4. B' BY <2>1, <2>3, <2>b, TwoLidars
  <2>5. C'
    <3>1. ASSUME NEW s \in 0 .. 1, <<"1", s>> \in waiting', frame = "2"
         PROVE last' < Old
      <4>1. PICK t \in 0 .. 1 : <<"1", t>> \in waiting /\ (NextPeriod => t = 0)
        BY <2>3, <3>1, TwoLidars
      <4>2. last < 2 BY <2>b, <3>1, <4>1 DEF Old
      <4>3. CASE UNCHANGED last BY <4>2, <4>3 DEF Old
      <4>4. CASE NextPeriod
        <5>1. last' = last + 1 BY <4>2, <4>4 DEF NextPeriod, Older, Old
        <5>2. last # 1
          <6>1. SUFFICES ASSUME last = 1 PROVE FALSE OBVIOUS
          <6>2. <<"2", 1>> \in used BY <3>1, <6>1 DEF LidInv, LastUsed, Old
          <6>3. Other("1") = "2" BY DEF Other
          <6>4. 1 <= t BY <1>i, <4>1, <6>2, <6>3, TwoLidars DEF MergedBefore
          <6> QED BY <4>1, <4>4, <6>4
        <5>3. last = 0 BY <1>0, <4>2, <5>2
        <5> QED BY <5>1, <5>3 DEF Old
      <4> QED BY <1>7, <1>i, <4>3, <4>4, PassTime
    <3> QED BY <2>1, <3>1
  <2>6. D' BY <2>1, <2>b
  <2> QED BY <2>2, <2>4, <2>5, <2>6
<1>8. CASE UNCHANGED <<up, phase, lidar_flag, inbox, clouds, frame, gap,
             last, turns, twice>>
  <2>1. UNCHANGED waiting BY <1>8, SameWaiting
  <2>b. A /\ B /\ C /\ D BY <1>a, <1>8
  <2>2. A' BY <1>8, <2>1, <2>b DEF Due
  <2>3. B' /\ C' /\ D' BY <1>8, <2>1, <2>b
  <2> QED BY <2>2, <2>3
<1> QED BY <1>1, <1>2, <1>3, <1>4, <1>5, <1>7, <1>8
        DEF LidNext, ImuCallback, FlagArrives, lidVars

(* Every step keeps Point-LIO merging by the time the next failure may     *)
(* come.                                                                   *)
LEMMA BothMergeHolds ==
  ASSUME LidInv, [LidNext]_lidVars
  PROVE  BothMerge'
<1> USE DEF lidars, monitor, buffer, mapper
<1> DEFINE A == frame = "2" /\ Merging
           B == rest <= 2*ScanTicks - 1 + PubEvery + phase
           C == Matching /\ rest <= 3*ScanTicks - 1 + PubEvery + phase
           D == Returning /\ rest <= 4*ScanTicks - 1 + PubEvery + phase
<1> SUFFICES ASSUME up' = Lidars PROVE A' \/ B' \/ C' \/ D'
  BY DEF BothMerge
<1>i. LidTypeOK /\ Scans /\ Watched /\ Told /\ Sorted /\ Held /\ ToldZero
        /\ LastUsed
  BY DEF LidInv
<1>0. /\ ScanTicks \in Nat /\ ScanTicks >= 1 /\ phase \in 0 .. ScanTicks - 1
      /\ gap \in Nat
      /\ rest \in Nat /\ PubEvery \in Nat /\ PubEvery >= 1
  <2>1. rest \in Nat BY <1>i, Numbers
  <2> QED BY <1>i, <2>1, Numbers
<1>a. up = Lidars => A \/ B \/ C \/ D
  BY DEF LidInv, BothMerge
<1>1. ASSUME NEW m \in Lidars, Fail(m) PROVE FALSE
  BY <1>1 DEF Fail
<1>2. ASSUME NEW m \in Lidars, Recover(m) PROVE B'
  BY <1>0, <1>2 DEF Recover
<1>4. ASSUME NEW k \in Lidars, ScanArrives(k) PROVE A' \/ B' \/ C' \/ D'
  <2>1. UNCHANGED <<up, rest, phase, merge_flag, lidar_flag>>
    BY <1>4 DEF ScanArrives
  <2>2. ASSUME NEW F \in SUBSET (0 .. 1), Accept(Lidars, "2", F) PROVE A'
    <3>1. gap' = 0 /\ frame' = "2" BY <2>2 DEF Accept
    <3>2. gap' <= phase' BY <1>0, <2>1, <3>1
    <3> QED BY <3>1, <3>2 DEF Merging
  <2>3. CASE /\ UNCHANGED <<last, frame, gap, used, twice, turns>>
             /\ merge_flag = 0 =>
                  \/ last = 0 \/ (last = 1 /\ frame = "1")
                  \/ /\ <<k, 1>> \notin held
                     /\ mapbox \union pair = Lidars => Matching'
    <3>1. CASE merge_flag # 0
      <4>1. FlagFor(up) = 0 BY <2>1, FlagForValues
      <4>2. rest <= Settling + PubEvery + phase BY <1>i, <3>1, <4>1 DEF Told
      <4>3. Settling = 2 * ScanTicks - 1 BY <2>1, SettlingIs
      <4> QED BY <2>1, <4>2, <4>3
    <3>2. CASE last = 0 \/ (last = 1 /\ frame = "1")
      <4>1. CASE frame = "1"
        <5>1. rest <= phase + ScanTicks + Late(last = 1)
          BY <2>1, <3>2, <4>1 DEF LidInv, BothApart, Old
        <5>2. rest <= 2*ScanTicks - 1 + PubEvery + phase
          BY <1>0, <5>1 DEF Late
        <5> QED BY <2>1, <5>2
      <4>2. CASE frame = "2"
        <5>1. last = 0 BY <3>2, <4>2
        <5>2. gap <= phase + Late(last = 1)
          BY <1>i, <5>1 DEF LastUsed, Old
        <5>3. gap' <= phase' BY <1>0, <2>1, <2>3, <5>1, <5>2 DEF Late
        <5> QED BY <2>3, <4>2, <5>3 DEF Merging
      <4> QED BY <1>i, <4>1, <4>2 DEF LidTypeOK, Lidars
    <3>3. CASE merge_flag = 0 /\ <<k, 1>> \notin held
                 /\ (mapbox \union pair = Lidars => Matching')
      <4>1. mapbox \union pair = Lidars
        <5>1. lidar_flag = 0 BY <1>i, <2>1, <3>3 DEF ToldZero
        <5>2. ASSUME NEW l \in Lidars PROVE l \in mapbox \union pair
          BY <1>i, <2>1, <5>1 DEF Scans, On
        <5> QED BY <1>i, <5>2 DEF LidTypeOK
      <4>2. \A h \in held : h[1] # k => h \in held' BY <1>4, <1>i, ScanDoes
      <4>3. Matching' /\ (Returning => Returning')
        BY <1>4, <1>i, <3>3, <4>1, <4>2, ScanKeeps
      <4> QED BY <1>a, <2>1, <2>3, <4>3 DEF Merging
    <3> QED BY <2>3, <3>1, <3>2, <3>3
  <2>4. \/ /\ UNCHANGED <<last, frame, gap, used, twice, turns>>
           /\ merge_flag = 0 =>
                \/ last = 0 \/ (last = 1 /\ frame = "1")
                \/ /\ <<k, 1>> \notin held
                   /\ mapbox \union pair = Lidars => Matching'
        \/ merge_flag = 0 /\ \E F \in SUBSET (0 .. 1) : Accept(Lidars, "2", F)
    BY <1>4, <1>i, ScanDoes
  <2> QED BY <2>2, <2>3, <2>4
<1>5. ASSUME CloudArrives PROVE A' \/ B' \/ C' \/ D'
  <2> DEFINE h == Head(clouds)
  <2>1. /\ h.of \in Lidars /\ h.stamp \in 0 .. 1
        /\ <<h.of, h.stamp>> \in waiting
    BY <1>5, <1>i, CloudDoes
  <2>2. UNCHANGED <<up, rest, phase, mapbox, held>> BY <1>5 DEF CloudArrives
  <2> HIDE DEF h
  <2>4. rest <= phase + ScanTicks + ScanTicks
    <3>1. rest <= phase + ScanTicks + (IF h.stamp = 1 THEN ScanTicks ELSE 0)
      BY <2>1, <2>2 DEF LidInv, BothSettle, Late
    <3> QED BY <1>0, <3>1
  <2> QED BY <1>0, <2>2, <2>4
<1>7. ASSUME Tick \/ NextPeriod PROVE A' \/ B' \/ C' \/ D'
  <2>1. /\ UNCHANGED <<up, frame>> /\ gap' \in Nat /\ gap' <= gap + 1
        /\ rest' \in Nat /\ rest' <= rest + 1
    BY <1>7, <1>i, PassTime
  <2>2. rest \in Nat BY <1>0
  <2>3. CASE A
    <3>1. /\ gap <= 0 + phase =>
                \/ gap' <= 0 + phase'
                \/ Matching' /\ gap' <= 0 + ScanTicks + phase'
          /\ Matching /\ gap <= 0 + ScanTicks + phase =>
                \/ Matching' /\ gap' <= 0 + ScanTicks + phase'
                \/ Returning' /\ gap' <= 0 + 2 * ScanTicks + phase'
          /\ Returning /\ gap <= 0 + 2 * ScanTicks + phase =>
                Returning' /\ gap' <= 0 + 2 * ScanTicks + phase'
      BY <1>0, <1>7, <1>i, <2>1, MatchStep
    <3>2. phase' \in Nat BY <1>7, <1>i, <1>0, PassTime
    <3>3. Merging'
      <4> DEFINE g == gap'  p == phase'
      <4>1. p \in Nat => 0 + p = p /\ 0 + ScanTicks + p = p + ScanTicks
              /\ 0 + 2 * ScanTicks + p = p + 2 * ScanTicks
        <5> HIDE DEF p
        <5> QED BY <1>0
      <4>2. 0 + phase = phase /\ 0 + ScanTicks + phase = phase + ScanTicks
              /\ 0 + 2 * ScanTicks + phase = phase + 2 * ScanTicks
        BY <1>0
      <4>3. \/ g <= p
            \/ Matching' /\ g <= p + ScanTicks
            \/ Returning' /\ g <= p + 2 * ScanTicks
        BY <2>3, <3>1, <3>2, <4>1, <4>2 DEF Merging
      <4> QED BY <4>3 DEF Merging
    <3> QED BY <2>1, <2>3, <3>3
  <2>4. CASE B \/ C \/ D
    <3> DEFINE c == 2 * ScanTicks - 1 + PubEvery
    <3>1. c \in Nat /\ 3 * ScanTicks - 1 + PubEvery = c + ScanTicks
            /\ 4 * ScanTicks - 1 + PubEvery = c + 2 * ScanTicks
      BY <1>0
    <3> HIDE DEF c
    <3>2. /\ rest <= c + phase =>
                \/ rest' <= c + phase'
                \/ Matching' /\ rest' <= c + ScanTicks + phase'
          /\ Matching /\ rest <= c + ScanTicks + phase =>
                \/ Matching' /\ rest' <= c + ScanTicks + phase'
                \/ Returning' /\ rest' <= c + 2 * ScanTicks + phase'
          /\ Returning /\ rest <= c + 2 * ScanTicks + phase =>
                Returning' /\ rest' <= c + 2 * ScanTicks + phase'
      BY <1>7, <1>i, <2>1, <2>2, <3>1, MatchStep
    <3>3. B <=> rest <= c + phase BY DEF c
    <3>4. (C <=> Matching /\ rest <= c + ScanTicks + phase)
            /\ (D <=> Returning /\ rest <= c + 2 * ScanTicks + phase)
      BY <3>1
    <3>5. B' <=> rest' <= c + phase' BY DEF c
    <3>6. (C' <=> Matching' /\ rest' <= c + ScanTicks + phase')
            /\ (D' <=> Returning' /\ rest' <= c + 2 * ScanTicks + phase')
      BY <3>1
    <3> QED BY <2>4, <3>2, <3>3, <3>4, <3>5, <3>6
  <2> QED BY <1>a, <2>1, <2>3, <2>4
<1>8. CASE UNCHANGED <<up, rest, phase, mapbox, held, frame, gap>>
  BY <1>8, <1>a DEF Merging, Matching, Returning
<1> QED BY <1>1, <1>2, <1>4, <1>5, <1>7, <1>8
        DEF LidNext, LidarCallback, ImuCallback, FlagArrives, lidVars

(* While Point-LIO merges, the last flag published is 0.                   *)
LEMMA LatestIs ==
  ASSUME LidTypeOK, ToldZero, up = Lidars, merge_flag = 0
  PROVE  latest = 0
<1>1. \A i \in DOMAIN flags : flags[i] = 0 BY DEF ToldZero
<1>2. flags \in Seq(0 .. 3) BY DEF LidTypeOK
<1>3. CASE flags # <<>>
  <2>1. Len(flags) \in DOMAIN flags
    <3>1. Len(flags) \in Nat /\ Len(flags) # 0
            /\ DOMAIN flags = 1 .. Len(flags)
      BY <1>2, <1>3
    <3> QED BY <3>1
  <2> QED BY <1>1, <1>3, <2>1 DEF latest
<1> QED BY <1>3 DEF latest

(* Every step keeps the time without a scan bounded as both lidars work:   *)
(* by the publication of the flag, its way to Point-LIO, and the match     *)
(* after it.                                                               *)
LEMMA BothFedHolds ==
  ASSUME LidInv, [LidNext]_lidVars
  PROVE  BothFed'
<1> USE DEF lidars, monitor, buffer, mapper, Late
<1> DEFINE A == \E l \in Lidars, s \in 0 .. 1 :
  <<l, s>> \in waiting /\ gap <= ScanTicks + phase + Late(s = 1)
           B == latest # 0 /\ gap <= 2*ScanTicks - 1 + pub_cnt
           C == latest = 0 /\ gap <= 2*ScanTicks - 1 + PubEvery + phase
           D == merge_flag = 0 /\ Matching
             /\ gap <= 3*ScanTicks - 1 + PubEvery + phase
           G == merge_flag = 0 /\ Returning
             /\ gap <= 4*ScanTicks - 1 + PubEvery + phase
<1> SUFFICES ASSUME up' = Lidars, lidar_flag' = 0
             PROVE  A' \/ B' \/ C' \/ D' \/ G'
  BY DEF BothFed
<1>i. LidTypeOK /\ Scans /\ Watched /\ Told /\ Sorted /\ ToldZero /\ Held
        /\ LastUsed
  BY DEF LidInv
<1>0. /\ ScanTicks \in Nat /\ ScanTicks >= 1 /\ phase \in 0 .. ScanTicks - 1
      /\ gap \in Nat
      /\ PubEvery \in Nat /\ PubEvery >= 1 /\ pub_cnt \in Nat
      /\ last \in 0 .. 2
  <2>1. pub_cnt \in Nat BY <1>i, Numbers
  <2> QED BY <1>i, <2>1, Numbers
<1>a. up = Lidars /\ lidar_flag = 0 => A \/ B \/ C \/ D \/ G
  BY DEF LidInv, BothFed
<1>b. last < 2 => gap <= 2 * ScanTicks - 1
  BY <1>0, <1>i DEF LastUsed, Old
<1>1. ASSUME NEW m \in Lidars, Fail(m) PROVE FALSE
  BY <1>1 DEF Fail
<1>2. ASSUME NEW m \in Lidars, Recover(m) PROVE FALSE
  <2>1. rest = Rest /\ m \notin up /\ lidar_flag = 0 BY <1>2 DEF Recover
  <2>2. lidar_flag = FlagFor(up) BY <1>i, <2>1, QuietTold
  <2>3. up \in SUBSET Lidars /\ up # Lidars BY <1>i, <2>1 DEF LidTypeOK
  <2> QED BY <2>1, <2>2, <2>3, FlagOf, FlagForType
<1>3. ASSUME NEW k \in Lidars, LidarCallback(k)
      PROVE  A' \/ B' \/ C' \/ D' \/ G'
  <2>1. UNCHANGED <<up, lidar_flag, phase, pub_cnt, flags, merge_flag,
          mapbox, held, gap>>
    BY <1>3 DEF LidarCallback
  <2>2. UNCHANGED clouds
    <3>1. ~PassesOn(k) BY <2>1, TwoLidars DEF PassesOn
    <3> QED BY <1>3, <3>1 DEF LidarCallback
  <2>3. UNCHANGED waiting BY <2>2, SameWaiting
  <2> QED BY <1>a, <2>1, <2>3 DEF latest, Matching, Returning
<1>4. ASSUME NEW k \in Lidars, ScanArrives(k)
      PROVE  A' \/ B' \/ C' \/ D' \/ G'
  <2>1. UNCHANGED <<up, lidar_flag, phase, pub_cnt, flags, merge_flag, clouds>>
    BY <1>4 DEF ScanArrives
  <2>2. UNCHANGED waiting /\ UNCHANGED latest BY <2>1, SameWaiting DEF latest
  <2>3. ASSUME NEW F \in SUBSET (0 .. 1), Accept(Lidars, "2", F)
        PROVE  B' \/ C'
    <3>1. gap' = 0 BY <2>3 DEF Accept
    <3> QED BY <1>0, <2>1, <2>2, <3>1
  <2>4. CASE /\ UNCHANGED <<last, frame, gap, used, twice, turns>>
             /\ merge_flag = 0 =>
                  \/ last = 0 \/ (last = 1 /\ frame = "1")
                  \/ /\ <<k, 1>> \notin held
                     /\ mapbox \union pair = Lidars => Matching'
    <3>1. CASE merge_flag = 0 /\ last < 2
      <4>1. latest = 0 BY <1>i, <2>1, <3>1, LatestIs
      <4>2. gap <= 2*ScanTicks - 1 + PubEvery + phase BY <1>0, <1>b, <3>1
      <4> QED BY <2>1, <2>2, <2>4, <4>1, <4>2
    <3>2. CASE merge_flag = 0 /\ <<k, 1>> \notin held
                 /\ (mapbox \union pair = Lidars => Matching')
      <4>1. mapbox \union pair = Lidars
        <5>1. ASSUME NEW l \in Lidars PROVE l \in mapbox \union pair
          BY <1>i, <2>1 DEF Scans, On
        <5> QED BY <1>i, <5>1 DEF LidTypeOK
      <4>2. \A h \in held : h[1] # k => h \in held' BY <1>4, <1>i, ScanDoes
      <4>3. Matching' /\ (Returning => Returning')
        BY <1>4, <1>i, <3>2, <4>1, <4>2, ScanKeeps
      <4> QED BY <1>a, <2>1, <2>2, <2>4, <4>3
    <3>3. CASE merge_flag # 0 BY <1>a, <2>1, <2>2, <2>4, <3>3
    <3> QED BY <2>4, <3>1, <3>2, <3>3
  <2>5. \/ /\ UNCHANGED <<last, frame, gap, used, twice, turns>>
           /\ merge_flag = 0 =>
                \/ last = 0 \/ (last = 1 /\ frame = "1")
                \/ /\ <<k, 1>> \notin held
                   /\ mapbox \union pair = Lidars => Matching'
        \/ merge_flag = 0 /\ \E F \in SUBSET (0 .. 1) : Accept(Lidars, "2", F)
    BY <1>4, <1>i, ScanDoes
  <2> QED BY <2>3, <2>4, <2>5
<1>5. ASSUME CloudArrives PROVE A' \/ B' \/ C' \/ D' \/ G'
  <2> DEFINE h == Head(clouds)
  <2>1. /\ h.stamp \in 0 .. 1
        /\ \/ gap' = 0
           \/ /\ h.stamp > last \/ (h.stamp = last /\ h.of # frame)
              /\ UNCHANGED <<last, frame, gap, used, twice, turns>>
    BY <1>5, <1>i, CloudDoes
  <2>2. UNCHANGED <<up, lidar_flag, phase, pub_cnt, flags, merge_flag>>
    BY <1>5 DEF CloudArrives
  <2>3. UNCHANGED latest BY <2>2 DEF latest
  <2> HIDE DEF h
  <2>4. CASE gap' = 0 BY <1>0, <2>2, <2>3, <2>4
  <2>5. CASE /\ h.stamp > last \/ (h.stamp = last /\ h.of # frame)
             /\ UNCHANGED <<last, frame, gap, used, twice, turns>>
    <3>1. last < 2 BY <1>0, <2>1, <2>5
    <3>2. gap <= 2*ScanTicks - 1 + pub_cnt
            /\ gap <= 2*ScanTicks - 1 + PubEvery + phase
      BY <1>0, <1>b, <3>1
    <3> QED BY <2>2, <2>3, <2>5, <3>2
  <2> QED BY <2>1, <2>4, <2>5
<1>6. ASSUME FlagArrives PROVE A' \/ B' \/ C' \/ D' \/ G'
  <2>1. UNCHANGED <<up, lidar_flag, phase, pub_cnt, mapbox, held, gap,
          clouds>>
    BY <1>6 DEF FlagArrives
  <2>2. UNCHANGED waiting BY <2>1, SameWaiting
  <2>3. latest' = latest /\ (merge_flag = 0 => merge_flag' = 0)
    <3>1. 1 \in DOMAIN flags /\ merge_flag' = flags[1] /\ latest' = latest
      BY <1>6, <1>i, FlagArrivesDoes
    <3> QED BY <1>i, <2>1, <3>1 DEF ToldZero
  <2> QED BY <1>a, <2>1, <2>2, <2>3 DEF Matching, Returning
<1>7. ASSUME Tick \/ NextPeriod PROVE A' \/ B' \/ C' \/ D' \/ G'
  <2>0. Watch /\ Passed BY <1>7 DEF Tick, NextPeriod
  <2>1. /\ UNCHANGED <<up, merge_flag>> /\ gap' \in Nat /\ gap' <= gap + 1
        /\ \/ phase' = phase + 1 /\ UNCHANGED <<mapbox, waiting>>
           \/ /\ phase' = 0 /\ phase = ScanTicks - 1 /\ NextPeriod
              /\ mapbox = {} /\ mapbox' = up /\ flags = <<>>
    BY <1>7, <1>i, PassTime
  <2>2. \/ pub_cnt + 1 = PubEvery /\ pub_cnt' = 0 /\ latest' = 0
        \/ pub_cnt' = pub_cnt + 1 /\ latest' = latest
    BY <1>i, <2>0, PublishDoes
  <2>3. phase' \in Nat /\ pub_cnt' \in Nat BY <1>0, <2>1, <2>2
  <2>4. CASE lidar_flag = 0
    <3>1. CASE A
      <4>1. PICK l \in Lidars,
              s \in 0 .. 1 :
                <<l, s>> \in waiting /\ gap <= ScanTicks + phase + Late(s = 1)
        BY <3>1
      <4>2. CASE phase' = phase + 1 /\ UNCHANGED <<mapbox, waiting>>
        <5>1. gap' <= ScanTicks + phase' + Late(s = 1)
          BY <1>0, <2>1, <4>1, <4>2
        <5> QED BY <4>1, <4>2, <5>1
      <4>3. CASE phase' = 0 /\ phase = ScanTicks - 1 /\ NextPeriod
        <5>1. s = 0 /\ <<l, 1>> \in waiting'
          BY <1>i, <4>1, <4>3, WaitAge DEF NextPeriod
        <5>2. gap' <= ScanTicks + phase' + Late(1 = 1)
          BY <1>0, <2>1, <4>1, <4>3, <5>1
        <5> QED BY <5>1, <5>2
      <4> QED BY <2>1, <4>2, <4>3
    <3>2. CASE B
      <4>1. CASE pub_cnt + 1 = PubEvery /\ pub_cnt' = 0 /\ latest' = 0
        <5>1. gap' <= 2*ScanTicks - 1 + PubEvery BY <1>0, <2>1, <3>2, <4>1
        <5>2. gap' <= 2*ScanTicks - 1 + PubEvery + phase'
          <6> DEFINE g == gap'  p == phase'
          <6>1. g \in Nat /\ p \in Nat /\ g <= 2*ScanTicks - 1 + PubEvery
            BY <2>1, <2>3, <5>1
          <6> HIDE DEF g, p
          <6>2. g <= 2*ScanTicks - 1 + PubEvery + p BY <1>0, <6>1
          <6> QED BY <6>2 DEF g, p
        <5> QED BY <4>1, <5>2
      <4>2. CASE pub_cnt' = pub_cnt + 1 /\ latest' = latest
        <5>1. gap' <= 2*ScanTicks - 1 + pub_cnt' BY <1>0, <2>1, <3>2, <4>2
        <5> QED BY <3>2, <4>2, <5>1
      <4> QED BY <2>2, <4>1, <4>2
    <3>3. CASE C
      <4>0. latest' = 0 BY <2>2, <3>3
      <4>1. CASE phase' = phase + 1
        <5>1. gap' <= 2*ScanTicks - 1 + PubEvery + phase'
          BY <1>0, <2>1, <3>3, <4>1
        <5> QED BY <4>0, <5>1
      <4>2. CASE phase' = 0 /\ phase = ScanTicks - 1 /\ flags = <<>>
                   /\ mapbox' = up
        <5>1. merge_flag' = 0 BY <2>1, <3>3, <4>2 DEF latest
        <5>2. gap' <= 3*ScanTicks - 1 + PubEvery + phase'
          BY <1>0, <2>1, <3>3, <4>2
        <5>3. Matching' BY <2>1, <4>2, TwoLidars DEF Matching
        <5> QED BY <5>1, <5>2, <5>3
      <4> QED BY <2>1, <4>1, <4>2
    <3>4. CASE D \/ G
      <4> DEFINE c == 2 * ScanTicks - 1 + PubEvery
      <4>1. c \in Nat /\ 3 * ScanTicks - 1 + PubEvery = c + ScanTicks
              /\ 4 * ScanTicks - 1 + PubEvery = c + 2 * ScanTicks
        BY <1>0
      <4> HIDE DEF c
      <4>2. /\ Matching /\ gap <= c + ScanTicks + phase =>
                  \/ Matching' /\ gap' <= c + ScanTicks + phase'
                  \/ Returning' /\ gap' <= c + 2 * ScanTicks + phase'
            /\ Returning /\ gap <= c + 2 * ScanTicks + phase =>
                  Returning' /\ gap' <= c + 2 * ScanTicks + phase'
        BY <1>0, <1>7, <1>i, <2>1, <4>1, MatchStep
      <4> QED BY <2>1, <3>4, <4>1, <4>2
    <3> QED BY <1>a, <2>1, <2>4, <3>1, <3>2, <3>3, <3>4
  <2>5. CASE lidar_flag # 0
    <3>1. PICK k \in Lidars : lidar_flag = OnlyFlag(k)
      <4>1. lidar_flag # 3 /\ lidar_flag \in 0 .. 3
        BY <1>i, <2>1, WhoIsOn DEF LidTypeOK
      <4> QED BY <2>5, <4>1, TwoLidars DEF OnlyFlag
    <3>2. Due(gap, k, 0) BY <2>1, <3>1 DEF LidInv, BothTurns
    <3>3. \/ gap' <= 0 + phase'
          \/ k \in inbox' /\ gap' <= 0 + ScanTicks + phase'
          \/ \E l \in Lidars, s \in 0 .. 1 :
               <<l, s>> \in waiting'
                 /\ gap' <= 0 + ScanTicks + phase' + Late(s = 1)
      <4>1. k \in up /\ 0 \in Nat BY <2>1
      <4> QED BY <1>0, <1>7, <1>i, <2>1, <3>2, <4>1, DueStep
    <3>4. CASE gap' <= ScanTicks + phase'
      <4>1. phase' <= ScanTicks - 1 BY <1>0, <1>7, <1>i, PassTime
      <4>2. gap' <= 2*ScanTicks - 1 + pub_cnt'
              /\ gap' <= 2*ScanTicks - 1 + PubEvery + phase'
        <5> DEFINE g == gap'  p == phase'  c == pub_cnt'
        <5>1. g \in Nat /\ p \in Nat /\ c \in Nat /\ g <= ScanTicks + p
                /\ p <= ScanTicks - 1
          BY <2>1, <2>3, <3>4, <4>1
        <5> HIDE DEF g, p, c
        <5>2. g <= 2*ScanTicks - 1 + c /\ g <= 2*ScanTicks - 1 + PubEvery + p
          BY <1>0, <5>1
        <5> QED BY <5>2 DEF g, p, c
      <4> QED BY <4>2
    <3>5. CASE gap' <= 0 + phase' \/ gap' <= 0 + ScanTicks + phase'
      <4>1. gap' <= ScanTicks + phase'
        <5> DEFINE g == gap'  p == phase'
        <5>1. g \in Nat /\ p \in Nat /\ (g <= 0 + p \/ g <= 0 + ScanTicks + p)
          BY <2>1, <2>3, <3>5
        <5> HIDE DEF g, p
        <5>2. g <= ScanTicks + p BY <1>0, <5>1
        <5> QED BY <5>2 DEF g, p
      <4> QED BY <3>4, <4>1
    <3>6. ASSUME NEW l \in Lidars, NEW s \in 0 .. 1,
                 <<l, s>> \in waiting',
                   gap' <= 0 + ScanTicks + phase' + Late(s = 1)
          PROVE  A'
      <4>1. 0 + ScanTicks = ScanTicks BY <1>0
      <4> QED BY <3>6, <4>1
    <3> QED BY <3>3, <3>5, <3>6
  <2> QED BY <2>4, <2>5
<1>8. CASE UNCHANGED <<up, lidar_flag, phase, pub_cnt, flags, merge_flag,
             mapbox, held, gap, clouds>>
  <2>1. UNCHANGED waiting /\ UNCHANGED latest BY <1>8, SameWaiting DEF latest
  <2> QED BY <1>8, <1>a, <2>1 DEF Matching, Returning
<1> QED BY <1>1, <1>2, <1>3, <1>4, <1>5, <1>6, <1>7, <1>8
        DEF LidNext, ImuCallback, lidVars

(* Receiving a cloud leaves no more to wait.                               *)
LEMMA TailWaits ==
  ASSUME LidTypeOK, clouds # <<>>, clouds' = Tail(clouds)
  PROVE  waiting' \subseteq waiting
<1>1. clouds \in Seq(Clouds) BY CloudTypes
<1>2. Len(clouds) \in Nat /\ Len(clouds) # 0
        /\ DOMAIN clouds = 1 .. Len(clouds)
      /\ DOMAIN clouds' = 1 .. Len(clouds) - 1
      /\ \A i \in 1 .. Len(clouds) - 1 : clouds'[i] = clouds[i + 1]
  BY <1>1
<1>3. ASSUME NEW w \in waiting' PROVE w \in waiting
  <2>1. PICK i \in DOMAIN clouds' : w = <<clouds'[i].of, clouds'[i].stamp>>
    BY DEF waiting
  <2>2. i + 1 \in DOMAIN clouds /\ clouds'[i] = clouds[i + 1] BY <1>2
  <2> QED BY <2>1, <2>2 DEF waiting
<1> QED BY <1>3

(* Every step keeps to one scan accepted twice since the last failure or   *)
(* return.                                                                 *)
LEMMA TwiceHolds ==
  ASSUME LidInv, [LidNext]_lidVars
  PROVE  Twice'
<1> USE DEF lidars, monitor, buffer, mapper
<1>i. LidTypeOK /\ Scans /\ Watched /\ Sorted /\ Queue /\ MergedBefore
        /\ ToldZero /\ Twice /\ Held
  BY DEF LidInv
<1>a. twice = 0 \/ (twice = 1 /\ up = Lidars /\ lidar_flag = 0
        /\ waiting = {} /\ Paired)
  BY <1>i DEF Twice
<1>b. \A l \in Lidars, t \in 0 .. 1 :
        <<l, t>> \in waiting /\ <<l, t>> \in used => <<Other(l), t>> \in used
  <2>1. SUFFICES ASSUME NEW l \in Lidars, NEW t \in 0 .. 1,
                        <<l, t>> \in waiting, <<l, t>> \in used,
                        <<Other(l), t>> \notin used
                 PROVE FALSE
    OBVIOUS
  <2>2. t < t BY <2>1 DEF LidInv, Used
  <2> QED BY <2>2
<1>c. up # Lidars /\ lidar_flag = 0 => waiting = {} /\ Paired /\ WerePaired
  BY DEF LidInv, OneLess
<1>1. ASSUME NEW m \in Lidars, Fail(m) \/ Recover(m) PROVE twice' = 0
  BY <1>1 DEF Fail, Recover
<1>3. ASSUME NEW k \in Lidars, LidarCallback(k) PROVE Twice'
  <2>1. UNCHANGED <<up, lidar_flag, twice, used>> BY <1>3 DEF LidarCallback
  <2>2. CASE lidar_flag = 0
    <3>1. ~PassesOn(k) BY <2>2, TwoLidars DEF PassesOn
    <3>2. UNCHANGED clouds BY <1>3, <3>1 DEF LidarCallback
    <3> QED BY <1>a, <2>1, <3>2, SameWaiting DEF Twice, Paired
  <2>3. CASE lidar_flag # 0 BY <1>a, <2>1, <2>3 DEF Twice
  <2> QED BY <2>2, <2>3
<1>4. ASSUME NEW k \in Lidars, ScanArrives(k) PROVE Twice'
  <2>1. UNCHANGED <<up, lidar_flag, clouds>> /\ k \in mapbox
    BY <1>4 DEF ScanArrives
  <2>2. UNCHANGED waiting BY <2>1, SameWaiting
  <2>3. CASE UNCHANGED <<used, twice>>
    BY <1>a, <2>1, <2>2, <2>3 DEF Twice, Paired
  <2>4. ASSUME merge_flag = 0, NEW F \in SUBSET (0 .. 1),
               Accept(Lidars, "2", F),
               0 \in F => mapbox \union pair = Lidars,
               1 \in F => <<k, 1>> \in held
        PROVE  Twice'
    <3>0. /\ Lidars \in SUBSET Lidars /\ "2" \in Lidars
          /\ \A s \in F : s = 0 \/ s = 1
      BY TwoLidars
    <3>1. 1 \in F =>
            /\ ~(\A l \in Lidars : <<l, 1>> \in used)
            /\ lidar_flag = 0 /\ Paired
            /\ \A l \in Lidars : /\ <<l, 0>> \notin waiting
                                 /\ twice = 1 => <<l, 1>> \notin used
      <4>1. 1 \in 0 .. 1 OBVIOUS
      <4> QED BY <1>i, <2>4, <4>1, PairedIs DEF Held, HeldBack
    <3>2. lidar_flag = 0
      <4>1. 0 \in F \/ 1 \in F BY <1>i, <2>4, <3>0, AcceptDoes
      <4> QED BY <1>i, <2>4, <3>1, <4>1, MergingIsOn
    <3>3. ~(\A l \in Lidars : <<l, 0>> \in used)
      BY <2>1 DEF LidInv, MergedLast
    <3>4. Paired'
      <4>1. \A l \in Lidars, s \in 0 .. 1 :
              <<l, s>> \in used' <=> <<l, s>> \in used \/ s \in F
        BY <1>i, <2>4, AcceptDoes, TwoLidars
      <4>2. 0 \in F \/ Paired
        <5>1. 0 \in F \/ 1 \in F BY <1>i, <2>4, <3>0, AcceptDoes
        <5> QED BY <3>1, <5>1
      <4> QED BY <4>1, <4>2, TwoLidars DEF Paired
    <3>5. CASE \A l \in Lidars, s \in F : <<l, s>> \notin used
      <4>1. twice' = twice BY <1>i, <2>4, <3>0, <3>5, AcceptAnew
      <4> QED BY <1>a, <2>1, <2>2, <3>4, <4>1 DEF Twice
    <3>6. ASSUME NEW l \in Lidars, NEW s \in F, <<l, s>> \in used
          PROVE  Twice'
      <4>1. <<Other(l), s>> \notin used
        BY <3>0, <3>1, <3>3, <3>6, TwoLidars
      <4>2. s = 0 => ~Paired BY <3>6, <4>1, PairedIs
      <4>3. s = 1 => ~WerePaired BY <3>6, <4>1, PairedIs
      <4>4. twice = 0 BY <1>a, <3>0, <3>1, <3>6, <4>2
      <4>5. ASSUME NEW j \in Lidars, NEW t \in F, t # s
           PROVE <<j, t>> \notin used
        <5>1. s = 1 /\ t = 0 /\ Paired BY <3>0, <3>1, <4>2, <4>5
        <5>2. <<j, 0>> \in used => <<Other(j), 0>> \in used
          BY <5>1, PairedIs
        <5> QED BY <3>3, <5>1, <5>2, TwoLidars
      <4>6. twice' = 1
        <5>1. twice' = twice + 1
          BY <1>i, <2>4, <3>0, <3>6, <4>5, AcceptCounts
        <5> QED BY <4>4, <5>1
      <4>7. up = Lidars BY <1>c, <3>0, <3>2, <4>2, <4>3
      <4>8. ASSUME NEW j \in Lidars, NEW t \in 0 .. 1, <<j, t>> \in waiting
           PROVE FALSE
        <5>1. CASE j = l
          <6>1. t < s BY <3>6, <4>1, <4>8, <5>1 DEF LidInv, Used
          <6>2. s = 1 /\ t = 0 BY <3>0, <6>1
          <6> QED BY <3>1, <4>8, <6>2
        <5>2. CASE j = Other(l)
          <6>1. Other(j) = l BY <5>2, TwoLidars
          <6>2. <<j, s>> \in used BY <1>i, <3>6, <4>8, <6>1 DEF MergedBefore
          <6> QED BY <4>1, <5>2, <6>2
        <5> QED BY <5>1, <5>2, TwoLidars
      <4>9. waiting = {} BY <1>i, <4>8, WaitsFor
      <4> QED BY <2>1, <2>2, <3>2, <3>4, <4>6, <4>7, <4>9 DEF Twice
    <3> QED BY <3>5, <3>6
  <2>5. \/ UNCHANGED <<last, frame, gap, used, twice, turns>>
        \/ /\ merge_flag = 0
           /\ \E F \in SUBSET (0 .. 1) :
                /\ Accept(Lidars, "2", F)
                /\ 0 \in F => mapbox \union pair = Lidars
                /\ 1 \in F => <<k, 1>> \in held
    BY <1>4, <1>i, ScanDoes
  <2> QED BY <2>3, <2>4, <2>5
<1>5. ASSUME CloudArrives PROVE Twice'
  <2> DEFINE h == Head(clouds)
  <2>1. /\ h.of \in Lidars /\ h.stamp \in 0 .. 1
        /\ <<h.of, h.stamp>> \in waiting
        /\ \A l \in Lidars, s \in 0 .. 1 : <<l, s>> \in waiting' =>
             l = h.of /\ s < h.stamp
        /\ \/ /\ \A l \in Lidars, s \in 0 .. 1 :
                   <<l, s>> \in used'
                     <=> <<l, s>> \in used \/ (l = h.of /\ s = h.stamp)
              /\ twice' = IF <<h.of, h.stamp>> \in used THEN twice + 1
                          ELSE twice
           \/ UNCHANGED <<last, frame, gap, used, twice, turns>>
    BY <1>5, <1>i, CloudDoes
  <2>2. UNCHANGED <<up, lidar_flag>> /\ waiting' \subseteq waiting
    BY <1>5, <1>i, TailWaits DEF CloudArrives
  <2> HIDE DEF h
  <2>3. twice = 0 BY <1>a, <2>1
  <2>4. CASE UNCHANGED <<last, frame, gap, used, twice, turns>>
    BY <2>3, <2>4 DEF Twice
  <2>5. CASE /\ \A l \in Lidars, s \in 0 .. 1 :
                   <<l, s>> \in used'
                     <=> <<l, s>> \in used \/ (l = h.of /\ s = h.stamp)
             /\ twice' = IF <<h.of, h.stamp>> \in used THEN twice + 1
                         ELSE twice
    <3>1. CASE <<h.of, h.stamp>> \notin used
      <4>1. twice' = twice BY <2>5, <3>1
      <4> QED BY <2>3, <4>1 DEF Twice
    <3>2. CASE <<h.of, h.stamp>> \in used
      <4>0. Other(h.of) \in Lidars /\ Other(h.of) # h.of
              /\ Lidars = {h.of, Other(h.of)} /\ 0 \in 0 .. 1
        BY <2>1, TwoLidars
      <4>1. twice' = 1 BY <2>3, <2>5, <3>2
      <4>2. <<Other(h.of), h.stamp>> \in used BY <1>b, <2>1, <3>2
      <4>3. lidar_flag = 0
        <5>1. On(h.of) /\ On(Other(h.of))
          BY <2>1, <3>2, <4>0, <4>2 DEF LidInv, Used
        <5> QED BY <1>i, <4>0, <5>1, OnIs
      <4>4. up = Lidars BY <1>c, <2>1, <4>3
      <4>5. waiting' = {}
        <5>1. ASSUME NEW w \in waiting' PROVE FALSE
          <6>1. w \in Lidars \X (0 .. 1) BY <1>i, <2>2, <5>1, WaitingTypes
          <6>2. PICK j \in Lidars, u \in 0 .. 1 : w = <<j, u>> BY <6>1
          <6>3. j = h.of /\ u < h.stamp /\ <<j, u>> \in waiting
            BY <2>1, <2>2, <5>1, <6>2
          <6>4. h.stamp <= u BY <1>i, <2>1, <4>2, <6>3 DEF MergedBefore
          <6> QED BY <2>1, <6>3, <6>4
        <5> QED BY <5>1
      <4>6. Paired'
        <5>1. CASE h.stamp = 0
          <6>1. \A l \in Lidars : <<l, 0>> \in used'
            BY <2>5, <3>2, <4>0, <4>2, <5>1
          <6> QED BY <6>1, TwoLidars DEF Paired
        <5>2. CASE h.stamp # 0
          <6>0. h.stamp = 1 BY <2>1, <5>2
          <6>1. Paired' = Paired BY <2>5, <5>2, TwoLidars DEF Paired
          <6>2. <<Other(h.of), 0>> \in used => <<h.of, 0>> \in used
            BY <1>i, <2>1, <4>0 DEF MergedBefore
          <6>3. <<h.of, 0>> \in used => <<Other(h.of), 0>> \in used
            <7>1. SUFFICES ASSUME <<h.of, 0>> \in used,
                                  <<Other(h.of), 0>> \notin used
                 PROVE FALSE OBVIOUS
            <7>2. h.stamp < 0 BY <2>1, <4>0, <7>1 DEF LidInv, Used
            <7> QED BY <6>0, <7>2
          <6>4. Other(Other(h.of)) = h.of BY <2>1, TwoLidars
          <6>5. Paired BY <4>0, <6>2, <6>3, <6>4, PairedIs
          <6> QED BY <6>1, <6>5
        <5> QED BY <5>1, <5>2
      <4> QED BY <2>2, <4>1, <4>3, <4>4, <4>5, <4>6 DEF Twice
    <3> QED BY <3>1, <3>2
  <2> QED BY <2>1, <2>4, <2>5
<1>7. ASSUME Tick \/ NextPeriod PROVE Twice'
  <2>1. UNCHANGED <<up, twice>> BY <1>7, <1>i, PassTime
  <2>2. CASE twice = 0 BY <2>1, <2>2 DEF Twice
  <2>3. CASE twice # 0
    <3>1. up = Lidars /\ lidar_flag = 0 /\ waiting = {} /\ Paired /\ twice = 1
      BY <1>a, <2>3
    <3>2. lidar_flag' = 0 BY <1>7, <1>i, <3>1, PassFlag
    <3>3. waiting' = {} BY <1>7, <1>i, <3>1, NoneWaits DEF Tick
    <3>4. CASE UNCHANGED used BY <2>1, <3>1, <3>2, <3>3, <3>4 DEF Twice, Paired
    <3>5. CASE NextPeriod
      <4>1. Paired' BY <3>5, AgeDoes, TwoLidars DEF Paired
      <4> QED BY <2>1, <3>1, <3>2, <3>3, <4>1 DEF Twice
    <3> QED BY <1>7, <1>i, <3>4, <3>5, PassTime
  <2> QED BY <2>2, <2>3
<1>8. CASE UNCHANGED <<up, lidar_flag, clouds, used, twice>>
  BY <1>8, <1>a, SameWaiting DEF Twice, Paired
<1> QED BY <1>1, <1>3, <1>4, <1>5, <1>7, <1>8
        DEF LidNext, ImuCallback, FlagArrives, lidVars, Twice

(* Point-LIO merges only while the monitor holds both lidars for working.  *)
LEMMA MergesWhenBoth ==
  ASSUME LidInv, NEW k \in Lidars, ScanArrives(k)
  PROVE  \/ UNCHANGED <<last, frame, gap, used, twice, turns>>
         \/ /\ merge_flag = 0 /\ lidar_flag = 0
            /\ \E F \in SUBSET (0 .. 1) : Accept(Lidars, "2", F)
<1>i. LidTypeOK /\ Scans /\ Watched /\ Held /\ ToldZero BY DEF LidInv
<1>1. ASSUME merge_flag = 0, NEW F \in SUBSET (0 .. 1),
             Accept(Lidars, "2", F),
             0 \in F => mapbox \union pair = Lidars,
             1 \in F => <<k, 1>> \in held
      PROVE  lidar_flag = 0
  <2>0. last' \in F BY <1>i, <1>1, AcceptDoes, TwoLidars
  <2>1. 0 \in F \/ 1 \in F BY <2>0
  <2>2. <<k, 1>> \in held => lidar_flag = 0 BY <1>i DEF Held, HeldBack
  <2> QED BY <1>i, <1>1, <2>1, <2>2, MergingIsOn
<1>2. \/ UNCHANGED <<last, frame, gap, used, twice, turns>>
      \/ /\ merge_flag = 0
         /\ \E F \in SUBSET (0 .. 1) :
              /\ Accept(Lidars, "2", F)
              /\ 0 \in F => mapbox \union pair = Lidars
              /\ 1 \in F => <<k, 1>> \in held
  BY <1>i, ScanDoes
<1> QED BY <1>1, <1>2

(* Every step keeps what is known as neither lidar works.                  *)
LEMMA NoneWorksHolds ==
  ASSUME LidInv, [LidNext]_lidVars
  PROVE  NoneWorks'
<1> USE DEF lidars, monitor, buffer, mapper
<1> DEFINE A == turns = 0 /\ gap <= 3 * ScanTicks - 1 /\ (rest > 0 => gap = 0)
           B == \A l \in Lidars : lidar_flag = OnlyFlag(l) => frame = l
<1> SUFFICES ASSUME up' = {} PROVE A' /\ B'
  BY DEF NoneWorks
<1>i. LidTypeOK /\ Scans /\ Watched /\ Sorted /\ Queue /\ ToldZero
  BY DEF LidInv
<1>0. ScanTicks \in Nat /\ ScanTicks >= 1 /\ gap \in Nat /\ Rest \in Nat
  BY <1>i, Numbers
<1>a. up = {} => A /\ B
  BY DEF LidInv, NoneWorks
<1>b. up = {} => lidar_flag # 0 BY <1>i, WhoIsOn
<1>1. ASSUME NEW m \in Lidars, Fail(m) PROVE A' /\ B'
  <2>1. /\ rest = Rest /\ up = {m} /\ rest' = 0 /\ turns' = 0
        /\ UNCHANGED <<gap, lidar_flag, frame>>
    BY <1>1 DEF Fail
  <2>2. lidar_flag = OnlyFlag(m) /\ frame = m /\ gap <= 3 * ScanTicks - 1
    BY <2>1, AloneFor
  <2>3. A' BY <2>1, <2>2
  <2>4. B' BY <2>1, <2>2, TwoLidars
  <2> QED BY <2>3, <2>4
<1>2. ASSUME NEW m \in Lidars, Recover(m) PROVE FALSE
  BY <1>2 DEF Recover
<1>4. ASSUME NEW k \in Lidars, ScanArrives(k) PROVE A' /\ B'
  <2>1. UNCHANGED <<up, rest, lidar_flag>> BY <1>4 DEF ScanArrives
  <2>3. UNCHANGED <<last, frame, gap, used, twice, turns>>
    BY <1>4, <1>b, <2>1, MergesWhenBoth
  <2> QED BY <1>a, <2>1, <2>3
<1>5. ASSUME CloudArrives PROVE A' /\ B'
  <2> DEFINE h == Head(clouds)
  <2>1. /\ h.of \in Lidars /\ h.stamp \in 0 .. 1
        /\ <<h.of, h.stamp>> \in waiting
        /\ \/ /\ frame' = h.of /\ gap' = 0
              /\ turns' = IF h.of = frame THEN turns ELSE turns + 1
           \/ UNCHANGED <<last, frame, gap, used, twice, turns>>
    BY <1>5, <1>i, CloudDoes
  <2>2. UNCHANGED <<up, rest, lidar_flag>> BY <1>5 DEF CloudArrives
  <2> HIDE DEF h
  <2>3. lidar_flag = OnlyFlag(h.of)
    <3>1. On(h.of) BY <1>i, <2>1 DEF Queue
    <3> QED BY <1>b, <2>2, <3>1 DEF On
  <2>4. frame = h.of BY <1>a, <2>1, <2>2, <2>3
  <2>5. CASE /\ frame' = h.of /\ gap' = 0
             /\ turns' = IF h.of = frame THEN turns ELSE turns + 1
    <3>1. gap' = 0 /\ turns' = turns /\ frame' = frame BY <2>4, <2>5
    <3> QED BY <1>0, <1>a, <2>2, <3>1
  <2> QED BY <1>a, <2>1, <2>2, <2>5
<1>7. ASSUME Tick \/ NextPeriod PROVE A' /\ B'
  <2>0. Watch /\ Passed BY <1>7 DEF Tick, NextPeriod
  <2>1. UNCHANGED <<up, frame, turns>> BY <1>7, <1>i, PassTime
  <2>2. gap' = 0 BY <1>i, <2>0, <2>1, PassDoes
  <2>3. A' BY <1>0, <1>a, <2>1, <2>2
  <2>4. B' BY <1>7, <1>a, <1>i, <2>1, PassFlag
  <2> QED BY <2>3, <2>4
<1>8. CASE UNCHANGED <<up, rest, lidar_flag, frame, gap, turns>>
  BY <1>8, <1>a
<1> QED BY <1>1, <1>2, <1>4, <1>5, <1>7, <1>8
        DEF LidNext, LidarCallback, ImuCallback, FlagArrives, lidVars

(* Every step keeps what is known as one works: its scans come in its      *)
(* frame, or its watchdog or its first scan will still change the flag.    *)
LEMMA OneWorksHolds ==
  ASSUME LidInv, [LidNext]_lidVars
  PROVE  OneWorks'
<1> USE DEF lidars, monitor, buffer, mapper
<1> SUFFICES ASSUME NEW k \in Lidars, up' = {k}
             PROVE  /\ turns' = 0 \/ (turns' = 1 /\ frame' = k)
                    /\ (frame' = k /\ Due(gap, k, 0)')
                         \/ Due(rest, k, Dog + ScanTicks - 1)'
                    /\ lidar_flag' = OnlyFlag(k) =>
                         Due(gap, k, Dog + 2*ScanTicks - 1)'
                    /\ lidar_flag' = 3 => gap' <= rest'
  BY DEF OneWorks
<1> DEFINE A == turns = 0 \/ (turns = 1 /\ frame = k)
           B == (frame = k /\ Due(gap, k, 0))
             \/ Due(rest, k, Dog + ScanTicks - 1)
           C == lidar_flag = OnlyFlag(k) =>
             Due(gap, k, Dog + 2*ScanTicks - 1)
           D == lidar_flag = 3 => gap <= rest
<1> SUFFICES A' /\ B' /\ C' /\ D' OBVIOUS
<1>i. LidTypeOK /\ Scans /\ Watched /\ Told /\ Sorted /\ Queue /\ ToldZero
  BY DEF LidInv
<1>0. /\ ScanTicks \in Nat /\ ScanTicks >= 1 /\ phase \in 0 .. ScanTicks - 1
      /\ gap \in Nat
      /\ Dog \in Nat /\ Dog >= 1 /\ Dog >= 2 * ScanTicks - 1
      /\ rest \in 0 .. Rest /\ Rest \in Nat
      /\ Dog + ScanTicks - 1 \in Nat /\ Rest >= Dog + 4 * ScanTicks - 1
      /\ Dog + 2*ScanTicks - 1 \in Nat
  BY <1>i, Numbers, QuietIs
<1>a. up = {k} => A /\ B /\ C /\ D
  BY DEF LidInv, OneWorks
<1>b. up = {k} =>
        /\ lidar_flag # OnlyFlag(Other(k))
        /\ lidar_flag = 0 => rest <= Dog + ScanTicks - 1
        /\ lidar_flag = 3 => rest <= phase + ScanTicks
        /\ lidar_flag = 0 \/ lidar_flag = OnlyFlag(k) \/ lidar_flag = 3
  <2> SUFFICES ASSUME up = {k}
               PROVE  /\ lidar_flag # OnlyFlag(Other(k))
                      /\ lidar_flag = 0 => rest <= Dog + ScanTicks - 1
                      /\ lidar_flag = 3 => rest <= phase + ScanTicks
                      /\ lidar_flag = 0 \/ lidar_flag = OnlyFlag(k)
                           \/ lidar_flag = 3
    OBVIOUS
  <2>1. /\ lidar_flag # OnlyFlag(Other(k))
        /\ lidar_flag = 0 => Leaving(Other(k))
        /\ lidar_flag = 3 => Coming(k)
    BY <1>i, WhoIsOn
  <2>2. ASSUME Leaving(Other(k)) PROVE rest <= Dog + ScanTicks - 1
    <3>1. cnt[Other(k)] \in Nat /\ cnt[Other(k)] <= Dog
            /\ rest <= cnt[Other(k)] + ScanTicks - 1
      BY <1>0, <1>i, <2>2, TwoLidars DEF Leaving, LidTypeOK
    <3> QED BY <1>0, <3>1
  <2>3. Coming(k) => rest <= phase + ScanTicks BY <1>0 DEF Coming, Late
  <2>4. lidar_flag = 0 \/ lidar_flag = OnlyFlag(k) \/ lidar_flag = 3
    BY <1>i, <2>1, OnOf DEF LidTypeOK
  <2> QED BY <2>1, <2>2, <2>3, <2>4
<1>c. up = {k} => up # Lidars BY OneUp
<1>d. OnlyFlag(k) # 0 /\ OnlyFlag(k) # 3 BY TwoLidars
<1>1. ASSUME NEW m \in Lidars, Fail(m) PROVE A' /\ B' /\ C' /\ D'
  <2>1. rest = Rest /\ rest' = 0 /\ turns' = 0 /\ m \in up /\ up' = up \ {m}
          /\ UNCHANGED <<phase, lidar_flag>>
    BY <1>1 DEF Fail
  <2>2. up = Lidars
    <3>1. k # m /\ k \in up BY <2>1
    <3> QED BY <1>i, <2>1, <3>1, TwoLidars DEF LidTypeOK
  <2>3. lidar_flag = 0 BY <1>i, <2>1, <2>2, QuietTold, FlagForValues
  <2>4. Due(rest, k, Dog + ScanTicks - 1)'
    <3>1. rest' <= Dog + ScanTicks - 1 + phase' BY <1>0, <2>1
    <3> QED BY <3>1 DEF Due
  <2> QED BY <1>d, <2>1, <2>3, <2>4
<1>2. ASSUME NEW m \in Lidars, Recover(m) PROVE A' /\ B' /\ C' /\ D'
  <2>1. /\ rest = Rest /\ rest' = 0 /\ turns' = 0 /\ m \notin up
        /\ up' = up \union {m}
        /\ UNCHANGED <<phase, lidar_flag, gap>>
    BY <1>2 DEF Recover
  <2>2. up = {} BY <2>1
  <2>3. lidar_flag = 3 BY <1>i, <2>1, <2>2, QuietTold, FlagForValues
  <2>4. gap = 0 BY <1>0, <2>1, <2>2 DEF LidInv, NoneWorks
  <2>5. Due(rest, k, Dog + ScanTicks - 1)'
    <3>1. rest' <= Dog + ScanTicks - 1 + phase' BY <1>0, <2>1
    <3> QED BY <3>1 DEF Due
  <2> QED BY <1>d, <2>1, <2>3, <2>4, <2>5
<1>3. ASSUME NEW j \in Lidars, LidarCallback(j) PROVE A' /\ B' /\ C' /\ D'
  <2>1. /\ UNCHANGED <<up, rest, phase, lidar_flag, frame, gap, turns>>
        /\ inbox' = inbox \ {j} /\ j \in inbox
    BY <1>3 DEF LidarCallback
  <2>2. \A l \in Lidars, s \in 0 .. 1 :
          <<l, s>> \in waiting'
            <=> <<l, s>> \in waiting \/ (l = j /\ s = 0 /\ PassesOn(j))
    BY <1>3, <1>i, PassOnDoes
  <2>b. A /\ B /\ C /\ D BY <1>a, <2>1
  <2>3. ASSUME NEW x \in Nat, NEW c \in Nat, Due(x, k, c),
               lidar_flag = OnlyFlag(k)
        PROVE  \/ x <= c + phase'
               \/ k \in inbox' /\ x <= c + ScanTicks + phase'
               \/ \E l \in Lidars, s \in 0 .. 1 :
                    <<l, s>> \in waiting'
                      /\ x <= c + ScanTicks + phase' + Late(s = 1)
    <3>1. CASE x <= c + phase BY <2>1, <3>1
    <3>2. CASE k \in inbox /\ x <= c + ScanTicks + phase
      <4>1. CASE j = k
        <5>1. PassesOn(k) /\ 0 \in 0 .. 1 BY <2>3 DEF PassesOn
        <5>2. <<k, 0>> \in waiting' BY <2>2, <4>1, <5>1
        <5>3. x <= c + ScanTicks + phase' + Late(0 = 1)
          BY <1>0, <2>1, <3>2 DEF Late
        <5> QED BY <5>1, <5>2, <5>3
      <4>2. CASE j # k BY <2>1, <3>2, <4>2
      <4> QED BY <4>1, <4>2
    <3>3. ASSUME NEW l \in Lidars, NEW s \in 0 .. 1, <<l, s>> \in waiting,
                 x <= c + ScanTicks + phase + Late(s = 1)
          PROVE  <<l, s>> \in waiting'
                   /\ x <= c + ScanTicks + phase' + Late(s = 1)
      BY <2>1, <2>2, <3>3
    <3> QED BY <2>3, <3>1, <3>2, <3>3 DEF Due
  <2>4. CASE lidar_flag = OnlyFlag(k)
    <3>0. gap \in Nat /\ rest \in Nat /\ 0 \in Nat
            /\ Dog + ScanTicks - 1 \in Nat /\ Dog + 2*ScanTicks - 1 \in Nat
      BY <1>0
    <3>1. Due(gap, k, 0) => Due(gap, k, 0)' BY <2>1, <2>3, <2>4, <3>0 DEF Due
    <3>2. Due(gap, k, Dog + 2*ScanTicks - 1) =>
            Due(gap, k, Dog + 2*ScanTicks - 1)'
      BY <2>1, <2>3, <2>4, <3>0 DEF Due
    <3>3. Due(rest, k, Dog + ScanTicks - 1) =>
            Due(rest, k, Dog + ScanTicks - 1)'
      BY <2>1, <2>3, <2>4, <3>0 DEF Due
    <3> QED BY <2>1, <2>b, <2>4, <3>1, <3>2, <3>3
  <2>5. CASE lidar_flag # OnlyFlag(k)
    <3>1. rest <= Dog + ScanTicks - 1 + phase
      <4>1. lidar_flag = 0 => rest <= Dog + ScanTicks - 1 BY <1>b, <2>1
      <4>2. lidar_flag = 3 => rest <= phase + ScanTicks BY <1>b, <2>1
      <4>3. lidar_flag = 0 \/ lidar_flag = 3 BY <1>b, <2>1, <2>5
      <4> QED BY <1>0, <4>1, <4>2, <4>3
    <3>2. Due(rest, k, Dog + ScanTicks - 1)' BY <2>1, <3>1 DEF Due
    <3> QED BY <2>1, <2>b, <2>5, <3>2
  <2> QED BY <2>4, <2>5
<1>4. ASSUME NEW j \in Lidars, ScanArrives(j) PROVE A' /\ B' /\ C' /\ D'
  <2>1. UNCHANGED <<up, rest, phase, lidar_flag, inbox, clouds>>
    BY <1>4 DEF ScanArrives
  <2>2. UNCHANGED waiting BY <2>1, SameWaiting
  <2>b. A /\ B /\ C /\ D BY <1>a, <2>1
  <2>3. CASE UNCHANGED <<last, frame, gap, used, twice, turns>>
    <3>1. B' BY <2>1, <2>2, <2>3, <2>b DEF Due
    <3>2. C' BY <2>1, <2>2, <2>3, <2>b DEF Due
    <3> QED BY <2>1, <2>3, <2>b, <3>1, <3>2
  <2>4. ASSUME lidar_flag = 0, NEW F \in SUBSET (0 .. 1),
               Accept(Lidars, "2", F)
        PROVE  A' /\ B' /\ C' /\ D'
    <3>1. lidar_flag = 0 BY <2>4
    <3>2. frame = "2" /\ turns = 0 BY <1>c, <2>1, <3>1 DEF LidInv, OneLess
    <3>3. turns' = 0 BY <2>4, <3>2 DEF Accept
    <3>4. rest <= Dog + ScanTicks - 1 + phase
      <4>1. rest <= Dog + ScanTicks - 1 BY <1>b, <2>1, <3>1
      <4> QED BY <1>0, <4>1
    <3>5. Due(rest, k, Dog + ScanTicks - 1)' BY <2>1, <3>4 DEF Due
    <3> QED BY <1>d, <2>1, <3>1, <3>3, <3>5
  <2> QED BY <1>4, <2>3, <2>4, MergesWhenBoth
<1>5. ASSUME CloudArrives PROVE A' /\ B' /\ C' /\ D'
  <2> DEFINE h == Head(clouds)
  <2>1. /\ h.of \in Lidars /\ h.stamp \in 0 .. 1
        /\ <<h.of, h.stamp>> \in waiting
        /\ \/ /\ frame' = h.of /\ gap' = 0
              /\ turns' = IF h.of = frame THEN turns ELSE turns + 1
           \/ h.stamp > last \/ (h.stamp = last /\ h.of # frame)
    BY <1>5, <1>i, CloudDoes
  <2>2. UNCHANGED <<up, rest, phase, lidar_flag>> BY <1>5 DEF CloudArrives
  <2>3. lidar_flag = OnlyFlag(k)
    <3>1. lidar_flag # 0 BY <1>c, <2>1, <2>2 DEF LidInv, OneLess
    <3>2. lidar_flag # 3
      <4>1. lidar_flag \in {0, OnlyFlag(h.of)} BY <1>i, <2>1 DEF Queue, On
      <4> QED BY <2>1, <4>1, TwoLidars
    <3> QED BY <1>b, <2>2, <3>1, <3>2
  <2>4. h.of = k /\ h.stamp <= last /\ ~(h.stamp = last /\ h.of # frame)
    BY <1>5, <2>3, AloneIsFresh
  <2> HIDE DEF h
  <2>5. gap' = 0 /\ frame' = k
          /\ turns' = (IF k = frame THEN turns ELSE turns + 1)
    BY <1>i, <2>1, <2>4, Numbers
  <2>b. A BY <1>a, <2>2
  <2>6. A' BY <2>5, <2>b
  <2>7. Due(gap, k, 0)' /\ Due(gap, k, Dog + 2*ScanTicks - 1)'
    <3>1. gap' <= 0 + phase' /\ gap' <= Dog + 2*ScanTicks - 1 + phase'
      BY <1>0, <2>2, <2>5
    <3> QED BY <3>1 DEF Due
  <2> QED BY <1>d, <2>2, <2>3, <2>5, <2>6, <2>7
<1>7. ASSUME Tick \/ NextPeriod PROVE A' /\ B' /\ C' /\ D'
  <2>1. /\ UNCHANGED <<up, frame, turns>> /\ gap' \in Nat /\ gap' <= gap + 1
        /\ rest' \in Nat /\ rest' <= rest + 1 /\ (rest < Rest =>
             rest' = rest + 1)
        /\ \/ phase' = phase + 1 /\ phase + 1 \in 0 .. ScanTicks - 1
           \/ phase' = 0 /\ phase = ScanTicks - 1 /\ inbox' = up
    BY <1>7, <1>i, PassTime
  <2>b. A /\ B /\ C /\ D BY <1>a, <2>1
  <2>k. k \in up /\ up # Lidars BY <1>c, <2>1
  <2>2. ASSUME NEW x \in Nat, NEW y \in Nat, NEW c \in Nat, Due(x, k, c),
               y <= x + 1
        PROVE  \/ y <= c + phase'
               \/ k \in inbox' /\ y <= c + ScanTicks + phase'
               \/ \E l \in Lidars, s \in 0 .. 1 :
                    <<l, s>> \in waiting'
                      /\ y <= c + ScanTicks + phase' + Late(s = 1)
    BY <1>7, <1>i, <2>2, <2>k, DueStep
  <2>3. B'
    <3>0. gap \in Nat /\ rest \in Nat /\ 0 \in Nat
            /\ Dog + ScanTicks - 1 \in Nat
      BY <1>0
    <3>1. Due(gap, k, 0) => Due(gap, k, 0)' BY <2>1, <2>2, <3>0 DEF Due
    <3>2. Due(rest, k, Dog + ScanTicks - 1) =>
            Due(rest, k, Dog + ScanTicks - 1)'
      BY <2>1, <2>2, <3>0 DEF Due
    <3> QED BY <2>1, <2>b, <3>1, <3>2
  <2>4. C'
    <3>1. CASE lidar_flag = OnlyFlag(k)
      <4>0. gap \in Nat /\ Dog + 2*ScanTicks - 1 \in Nat BY <1>0
      <4>1. Due(gap, k, Dog + 2*ScanTicks - 1) BY <2>b, <3>1
      <4> QED BY <2>1, <2>2, <4>0, <4>1 DEF Due
    <3>2. ASSUME gap <= Dog + 2*ScanTicks - 1
          PROVE  Due(gap, k, Dog + 2*ScanTicks - 1)'
      <4>1. CASE phase' = phase + 1
        <5>1. gap' <= Dog + 2*ScanTicks - 1 + phase' BY <1>0, <2>1, <3>2, <4>1
        <5> QED BY <5>1 DEF Due
      <4>2. CASE phase' = 0 /\ inbox' = up
        <5>1. gap' <= Dog + 2*ScanTicks - 1 + ScanTicks + phase'
          BY <1>0, <2>1, <3>2, <4>2
        <5> QED BY <2>k, <4>2, <5>1 DEF Due
      <4> QED BY <2>1, <4>1, <4>2
    <3>3. CASE lidar_flag = 0
      <4>1. /\ rest <= phase => Merging
            /\ rest > phase =>
                 \A l \in Lidars \ up : gap <= cnt[l] + 2*ScanTicks - 1
        BY <2>k, <3>3 DEF LidInv, OneLess
      <4>2. CASE rest <= phase
        <5>1. gap <= phase + 2 * ScanTicks BY <1>0, <4>1, <4>2 DEF Merging
        <5>2. gap <= Dog + 2*ScanTicks - 1 BY <1>0, <5>1
        <5> QED BY <3>2, <5>2
      <4>3. CASE rest > phase
        <5>1. Leaving(Other(k)) /\ Other(k) \in Lidars \ up
          BY <1>i, <2>1, <3>3, OneUp, WhoIsOn
        <5>2. gap <= cnt[Other(k)] + 2*ScanTicks - 1 /\ cnt[Other(k)] <= Dog
                /\ cnt[Other(k)] \in Nat
          BY <1>0, <1>i, <4>1, <4>3, <5>1 DEF Leaving, LidTypeOK
        <5>3. gap <= Dog + 2*ScanTicks - 1 BY <1>0, <5>2
        <5> QED BY <3>2, <5>3
      <4> QED BY <1>0, <4>2, <4>3
    <3>4. CASE lidar_flag = 3
      <4>1. gap <= Dog + 2*ScanTicks - 1 BY <1>0, <1>b, <2>1, <2>b, <3>4
      <4> QED BY <3>2, <4>1
    <3> QED BY <1>b, <2>1, <3>1, <3>3, <3>4
  <2>5. D'
    <3>1. ASSUME lidar_flag' = 3 PROVE gap' <= rest'
      <4>1. lidar_flag = 3 BY <1>7, <1>i, <2>1, <3>1, PassFlag
      <4>2. gap <= rest /\ rest <= phase + ScanTicks BY <1>b, <2>1, <2>b, <4>1
      <4>3. rest < Rest BY <1>0, <4>2
      <4> QED BY <1>0, <2>1, <4>2, <4>3
    <3> QED BY <3>1
  <2>6. A' BY <2>1, <2>b
  <2> QED BY <2>3, <2>4, <2>5, <2>6
<1>8. CASE UNCHANGED <<up, rest, phase, lidar_flag, inbox, clouds, frame,
             gap, turns>>
  <2>1. UNCHANGED waiting BY <1>8, SameWaiting
  <2>b. A /\ B /\ C /\ D BY <1>a, <1>8
  <2>2. B' BY <1>8, <2>1, <2>b DEF Due
  <2>3. C' BY <1>8, <2>1, <2>b DEF Due
  <2> QED BY <1>8, <2>b, <2>2, <2>3
<1> QED BY <1>1, <1>2, <1>3, <1>4, <1>5, <1>7, <1>8
        DEF LidNext, ImuCallback, FlagArrives, lidVars

(* LidInv bounds the time without a scan, by which lidars work.            *)
LEMMA FedFollows == LidInv => MapIsFed
<1> SUFFICES ASSUME LidInv PROVE MapIsFed OBVIOUS
<1>i. LidTypeOK /\ Watched BY DEF LidInv
<1>0. /\ ScanTicks \in Nat /\ ScanTicks >= 1 /\ phase \in 0 .. ScanTicks - 1
      /\ gap \in Nat
      /\ Dog \in Nat /\ PubEvery \in Nat /\ pub_cnt \in 0 .. PubEvery - 1
      /\ 2 * ScanTicks - 1 <= Dog
      /\ rest \in Nat /\ Dog + 2*ScanTicks - 1 \in Nat
  <2>1. rest \in Nat BY <1>i, Numbers
  <2> QED BY <1>i, <2>1, Numbers, QuietIs
<1>1. Longest \in Nat /\ Longest >= Dog /\ Longest >= PubEvery
  BY <1>0 DEF Longest
<1>2. CASE up = Lidars
  <2>1. CASE lidar_flag = 0
    <3>1. \/ \E l \in Lidars, s \in 0 .. 1 :
               gap <= ScanTicks + phase + (IF s = 1 THEN ScanTicks ELSE 0)
          \/ gap <= 2*ScanTicks - 1 + pub_cnt
          \/ gap <= 2*ScanTicks - 1 + PubEvery + phase
          \/ gap <= 3*ScanTicks - 1 + PubEvery + phase
          \/ gap <= 4*ScanTicks - 1 + PubEvery + phase
      BY <1>2, <2>1 DEF LidInv, BothFed, Late
    <3>2. CASE \E l \in Lidars, s \in 0 .. 1 :
                 gap <= ScanTicks + phase + (IF s = 1 THEN ScanTicks ELSE 0)
      <4>1. PICK s \in 0 .. 1 :
              gap <= ScanTicks + phase + (IF s = 1 THEN ScanTicks ELSE 0)
        BY <3>2
      <4> QED BY <1>0, <1>1, <4>1 DEF MapIsFed
    <3> QED BY <1>0, <1>1, <3>1, <3>2 DEF MapIsFed
  <2>2. CASE lidar_flag # 0
    <3>1. lidar_flag # 3 /\ lidar_flag \in 0 .. 3
      BY <1>2, <1>i, WhoIsOn DEF LidTypeOK
    <3>2. PICK k \in Lidars : lidar_flag = OnlyFlag(k)
      BY <2>2, <3>1, TwoLidars DEF OnlyFlag
    <3>3. Due(gap, k, 0) BY <1>2, <3>2 DEF LidInv, BothTurns
    <3>4. gap <= 0 + phase + 2 * ScanTicks
      <4>1. 0 \in Nat OBVIOUS
      <4> QED BY <1>0, <1>i, <3>3, <4>1, DueAtMost
    <3> QED BY <1>0, <1>1, <3>4 DEF MapIsFed
  <2> QED BY <2>1, <2>2
<1>3. ASSUME NEW k \in Lidars, up = {k} PROVE MapIsFed
  <2>1. /\ lidar_flag # OnlyFlag(Other(k))
        /\ lidar_flag = 0 => Leaving(Other(k))
        /\ lidar_flag = 3 => Coming(k)
    BY <1>3, <1>i, WhoIsOn
  <2>2. CASE lidar_flag = OnlyFlag(k)
    <3>1. Due(gap, k, Dog + 2*ScanTicks - 1) BY <1>3, <2>2 DEF LidInv, OneWorks
    <3>2. gap <= Dog + 2*ScanTicks - 1 + phase + 2 * ScanTicks
      BY <1>0, <1>i, <3>1, DueAtMost
    <3> QED BY <1>0, <1>1, <3>2 DEF MapIsFed
  <2>3. CASE lidar_flag = 3
    <3>1. gap <= rest BY <1>3, <2>3 DEF LidInv, OneWorks
    <3>2. rest <= phase + ScanTicks BY <1>0, <2>1, <2>3 DEF Coming, Late
    <3> QED BY <1>0, <1>1, <3>1, <3>2 DEF MapIsFed
  <2>4. CASE lidar_flag = 0
    <3>0. up # Lidars /\ Other(k) \in Lidars \ up BY <1>3, OneUp
    <3>1. /\ rest <= phase => Merging
          /\ rest > phase =>
               \A l \in Lidars \ up : gap <= cnt[l] + 2*ScanTicks - 1
      BY <2>4, <3>0 DEF LidInv, OneLess
    <3>2. CASE rest <= phase
      <4>1. gap <= phase + 2 * ScanTicks BY <1>0, <3>1, <3>2 DEF Merging
      <4> QED BY <1>0, <1>1, <4>1 DEF MapIsFed
    <3>3. CASE rest > phase
      <4>1. gap <= cnt[Other(k)] + 2*ScanTicks - 1 /\ cnt[Other(k)] <= Dog
              /\ cnt[Other(k)] \in Nat
        BY <1>0, <1>i, <2>1, <2>4, <3>0, <3>1, <3>3 DEF Leaving, LidTypeOK
      <4> QED BY <1>0, <1>1, <4>1 DEF MapIsFed
    <3> QED BY <1>0, <3>2, <3>3
  <2> QED BY <1>3, <1>i, <2>1, <2>2, <2>3, <2>4, OnOf DEF LidTypeOK
<1>4. CASE up = {}
  <2>1. gap <= 3 * ScanTicks - 1 BY <1>4 DEF LidInv, NoneWorks
  <2> QED BY <1>0, <1>1, <2>1 DEF MapIsFed
<1> QED BY <1>2, <1>3, <1>4, <1>i, UpIs

(* While a lidar works every pass counts.                                  *)
LEMMA GapGrows ==
  ASSUME LidInv, Passed, up # {}
  PROVE  gap' = gap + 1
<1>1. LidTypeOK /\ MapIsFed BY FedFollows DEF LidInv
<1>2. LidBounds BY LidBoundsHold
<1>3. gap < GapCap
  <2>1. gap < Longest + 5 * ScanTicks - 1 BY <1>1 DEF MapIsFed
  <2>2. (Longest = Dog \/ Longest = PubEvery) /\ gap \in Nat
    BY <1>1, Numbers DEF Longest
  <2> QED BY <1>2, <2>1, <2>2 DEF GapCap, LidBounds
<1> QED BY <1>3 DEF Passed

(* A pair held back since long is overtaken when a lidar fails or returns. *)
LEMMA HeldByLidars ==
  ASSUME LidInv, NEW m \in Lidars, Fail(m) \/ Recover(m)
  PROVE  Held'
<1>i. LidTypeOK /\ Watched /\ Told /\ Held BY DEF LidInv
<1>0. /\ ScanTicks \in Nat /\ gap \in Nat /\ Rest \in Nat
      /\ Rest >= Dog + 5 * ScanTicks - 1 /\ Dog \in Nat /\ ScanTicks >= 1
  BY <1>i, Numbers, QuietIs
<1>1. /\ rest = Rest /\ rest' = 0 /\ twice' = 0
      /\ UNCHANGED <<phase, inbox, mapbox, pair, held, clouds, lidar_flag,
             cnt, last, gap, used>>
      /\ up' = up \ {m} \/ (m \notin up /\ up' = up \union {m})
  BY DEF Fail, Recover, monitor
<1>2. UNCHANGED waiting BY <1>1, SameWaiting
<1>3. ASSUME NEW l \in Lidars, <<l, Old>> \in held
      PROVE  l \notin mapbox \union pair /\ last < Old
  <2>1. /\ l \notin mapbox \union pair
        /\ last < Old \/ (l \notin up /\ up # {} /\ rest <= gap + ScanTicks)
    BY <1>i, <1>3 DEF Held, HeldLong
  <2>2. SUFFICES ASSUME l \notin up, up # {}, rest <= gap + ScanTicks
                 PROVE FALSE
    BY <2>1
  <2>3. PICK k \in Lidars : up = {k} BY <1>i, <2>2, UpIs
  <2>4. gap <= 3 * ScanTicks - 1 BY <1>1, <2>3, AloneFor
  <2> QED BY <1>0, <1>1, <2>2, <2>4
<1>4. HeldLong' BY <1>1, <1>3 DEF HeldLong
<1>5. HeldNow' BY <1>1, <1>i DEF Held, HeldNow
<1>6. HeldBack'
  <2>1. ASSUME NEW l \in Lidars, <<l, 1>> \in held PROVE HeldBack'
    <3>1. /\ l \notin pair /\ ~(Lidars \X {1} \subseteq used)
          /\ lidar_flag = 0 /\ Paired
          /\ \A k \in Lidars :
               cnt[k] <= phase + ScanTicks /\ <<k, 0>> \notin waiting
      BY <1>i, <2>1 DEF Held, HeldBack
    <3>2. \A j \in Lidars : <<j, 1>> \in held => j = l
      BY <1>i, <2>1 DEF Held
    <3>3. rest' <= gap' + ScanTicks BY <1>0, <1>1
    <3>4. Paired' BY <1>1, <3>1 DEF Paired
    <3> QED BY <1>1, <1>2, <3>1, <3>2, <3>3, <3>4 DEF HeldBack
  <2>2. CASE \A l \in Lidars : <<l, 1>> \notin held
    BY <1>1, <2>2 DEF HeldBack
  <2> QED BY <2>1, <2>2
<1> QED BY <1>1, <1>4, <1>5, <1>6, <1>i DEF Held

(* A scan completes at most one pair, and ends that of its lidar.          *)
LEMMA HeldByScan ==
  ASSUME LidInv, NEW l \in Lidars, ScanArrives(l)
  PROVE  Held'
<1> USE DEF lidars, monitor, buffer, mapper
<1>i. LidTypeOK /\ Scans /\ Held BY DEF LidInv
<1>1. /\ UNCHANGED <<up, rest, phase, inbox, lidar_flag, cnt, clouds>>
      /\ l \in mapbox /\ mapbox' = mapbox \ {l} /\ pair' = pair \union {l}
  BY DEF ScanArrives
<1>2. UNCHANGED waiting BY <1>1, SameWaiting
<1>3. PICK e \in Lidars \union {Same} :
        held' = (held \union Completed(l, e)) \ HandedOn(l, e)
  BY DEF ScanArrives
<1>4. /\ \A k \in Lidars : <<k, 0>> \notin held
      /\ \A h \in held' :
           \/ h \in held /\ h[1] # l
           \/ mapbox \union pair = Lidars /\ mapbox' = {}
                /\ h[1] \in Lidars /\ h[2] = 0
      /\ \/ UNCHANGED <<last, frame, gap, used, twice, turns>>
         \/ \E F \in SUBSET (0 .. 1) :
              /\ Accept(Lidars, "2", F)
              /\ 0 \in F => mapbox \union pair = Lidars
                              /\ mapbox' = {} /\ held' = {}
              /\ 1 \in F => <<l, 1>> \in held
  BY <1>i, ScanDoes
<1>5. ASSUME NEW k \in Lidars, NEW a \in 1 .. Old, <<k, a>> \in held'
      PROVE  /\ <<k, a>> \in held /\ k # l /\ k \notin pair'
             /\ ~(mapbox \union pair = Lidars /\ mapbox' = {})
  <2>1. <<k, a>>[1] = k /\ <<k, a>>[2] = a /\ a # 0 OBVIOUS
  <2>2. <<k, a>> \in held /\ k # l BY <1>4, <1>5, <2>1
  <2>3. a = 1 \/ a = Old BY DEF Old
  <2>4. k \notin pair
    BY <1>i, <2>2, <2>3 DEF Held, HeldBack, HeldLong
  <2> QED BY <1>1, <2>2, <2>4
<1>o. 1 \in 1 .. Old /\ Old \in 1 .. Old BY DEF Old
<1>6. ASSUME NEW k \in Lidars, <<k, 0>> \in held'
      PROVE  k = e /\ mapbox \union pair = Lidars /\ mapbox' = {}
  <2>1. <<k, 0>>[2] = 0 OBVIOUS
  <2>2. <<k, 0>> \in Completed(l, e) BY <1>3, <1>4, <1>6
  <2>3. <<k, 0>> = <<e, 0>> BY <2>2 DEF Completed
  <2>4. k = e BY <2>3
  <2> QED BY <1>4, <1>6, <2>4
<1>7. ASSUME NEW h \in held'
      PROVE  \E k \in Lidars, a \in 0 .. Old : h = <<k, a>>
  <2>1. CASE h \in held BY <1>i, <2>1 DEF LidTypeOK
  <2>2. CASE h \in Completed(l, e)
    <3>1. h = <<e, 0>> BY <2>2 DEF Completed
    <3>2. h[1] \in Lidars
      <4>1. h \notin held \/ h \in held OBVIOUS
      <4> QED BY <1>4, <1>i DEF LidTypeOK
    <3>3. e \in Lidars BY <3>1, <3>2
    <3> QED BY <3>1, <3>3 DEF Old
  <2> QED BY <1>3, <2>1, <2>2
<1>8. ASSUME NEW g \in held', NEW h \in held' PROVE g = h
  <2>1. PICK j \in Lidars, a \in 0 .. Old : g = <<j, a>> BY <1>7
  <2>2. PICK k \in Lidars, b \in 0 .. Old : h = <<k, b>> BY <1>7
  <2>3. (a = 0 \/ a \in 1 .. Old) /\ (b = 0 \/ b \in 1 .. Old) BY DEF Old
  <2>4. CASE a = 0 /\ b = 0 BY <1>6, <2>1, <2>2, <2>4
  <2>5. CASE a = 0 /\ b \in 1 .. Old BY <1>5, <1>6, <2>1, <2>2, <2>5
  <2>6. CASE a \in 1 .. Old /\ b = 0 BY <1>5, <1>6, <2>1, <2>2, <2>6
  <2>7. CASE a \in 1 .. Old /\ b \in 1 .. Old
    BY <1>5, <1>i, <2>1, <2>2, <2>7 DEF Held
  <2> QED BY <2>3, <2>4, <2>5, <2>6, <2>7
<1>9. HeldNow'
  <2>1. SUFFICES ASSUME NEW k \in Lidars, <<k, 0>> \in held'
                 PROVE  pair' = Lidars /\ ~(Lidars \X {0} \subseteq used')
    BY DEF HeldNow
  <2>2. pair' = Lidars BY <1>1, <1>6, <1>i, <2>1 DEF LidTypeOK
  <2>3. ~(\A j \in Lidars : <<j, 0>> \in used)
    BY <1>1 DEF LidInv, MergedLast
  <2>4. CASE UNCHANGED used BY <2>2, <2>3, <2>4, PairedIs
  <2>5. ASSUME NEW F \in SUBSET (0 .. 1), Accept(Lidars, "2", F), 0 \notin F
        PROVE  ~(Lidars \X {0} \subseteq used')
    <3>1. \A j \in Lidars, s \in 0 .. 1 :
            <<j, s>> \in used' <=> <<j, s>> \in used \/ s \in F
      BY <1>i, <2>5, AcceptDoes, TwoLidars
    <3>2. 0 \in 0 .. 1 OBVIOUS
    <3>3. PICK j \in Lidars : <<j, 0>> \notin used BY <2>3
    <3>4. <<j, 0>> \notin used' BY <2>5, <3>1, <3>2, <3>3
    <3> QED BY <3>4
  <2> QED BY <1>4, <2>1, <2>2, <2>4, <2>5
<1>10. ASSUME NEW k \in Lidars, <<k, 1>> \in held' \/ <<k, Old>> \in held'
       PROVE  \/ UNCHANGED <<last, frame, gap, used, twice, turns>>
              \/ last' < Old /\ <<k, 1>> \notin held'
  <2>1. \E a \in 1 .. Old : <<k, a>> \in held' BY <1>10 DEF Old
  <2>2. ~(mapbox \union pair = Lidars /\ mapbox' = {}) BY <1>5, <2>1
  <2>3. ASSUME NEW F \in SUBSET (0 .. 1), Accept(Lidars, "2", F),
               0 \notin F, 1 \in F => <<l, 1>> \in held
        PROVE  last' < Old /\ <<k, 1>> \notin held'
    <3>1. last' \in F BY <1>i, <2>3, AcceptDoes, TwoLidars
    <3>2. last' = 1 /\ <<l, 1>> \in held BY <2>3, <3>1
    <3>3. ASSUME <<k, 1>> \in held' PROVE FALSE
      <4>1. <<k, 1>> \in held /\ k # l BY <1>5, <1>o, <3>3
      <4> QED BY <1>i, <3>2, <4>1 DEF Held
    <3> QED BY <3>2, <3>3 DEF Old
  <2> QED BY <1>4, <2>2, <2>3
<1>11. HeldBack'
  <2>1. ASSUME NEW k \in Lidars, <<k, 1>> \in held' PROVE HeldBack'
    <3>1. <<k, 1>> \in held /\ k \notin pair' BY <1>5, <1>o, <2>1
    <3>2. UNCHANGED <<last, frame, gap, used, twice, turns>> BY <1>10, <2>1
    <3>3. \A j \in Lidars : <<j, 1>> \in held' => j = k
      BY <1>8, <2>1
    <3>4. /\ ~(Lidars \X {1} \subseteq used)
          /\ lidar_flag = 0 /\ Paired
          /\ \A j \in Lidars :
               /\ cnt[j] <= phase + ScanTicks /\ <<j, 0>> \notin waiting
               /\ j \notin up => last = 0 \/ rest <= gap + ScanTicks
               /\ twice = 1 => <<j, 1>> \notin used
      BY <1>i, <3>1 DEF Held, HeldBack
    <3>5. Paired' BY <3>2, <3>4 DEF Paired
    <3> QED BY <1>1, <1>2, <3>1, <3>2, <3>3, <3>4, <3>5 DEF HeldBack
  <2>2. CASE \A k \in Lidars : <<k, 1>> \notin held' BY <2>2 DEF HeldBack
  <2> QED BY <2>1, <2>2
<1>12. HeldLong'
  <2>1. SUFFICES ASSUME NEW k \in Lidars, <<k, Old>> \in held'
                 PROVE  /\ k \notin mapbox' \union pair'
                        /\ \/ last' < Old
                           \/ k \notin up' /\ up' # {}
                                /\ rest' <= gap' + ScanTicks
    BY DEF HeldLong, Old
  <2>2. <<k, Old>> \in held BY <1>5, <1>o, <2>1
  <2>3. /\ k \notin mapbox \union pair
        /\ last < Old \/ (k \notin up /\ up # {} /\ rest <= gap + ScanTicks)
    BY <1>i, <2>2 DEF Held, HeldLong
  <2>4. k \notin mapbox' \union pair' BY <1>1, <2>3
  <2> QED BY <1>1, <1>10, <2>1, <2>3, <2>4
<1> QED BY <1>8, <1>9, <1>11, <1>12 DEF Held

(* A cloud of the lidar that was alone comes in before the first merge.    *)
LEMMA HeldByCloud ==
  ASSUME LidInv, CloudArrives
  PROVE  Held'
<1> USE DEF lidars, monitor, buffer, mapper
<1>i. LidTypeOK /\ Sorted /\ Held /\ MergedBefore BY DEF LidInv
<1> DEFINE h == Head(clouds)
<1>1. /\ h.of \in Lidars /\ h.stamp \in 0 .. 1
      /\ <<h.of, h.stamp>> \in waiting
      /\ \A l \in Lidars, s \in 0 .. 1 : <<l, s>> \in waiting' =>
           <<l, s>> \in waiting
      /\ \/ /\ last' = h.stamp /\ gap' = 0
            /\ \A l \in Lidars, s \in 0 .. 1 :
                 <<l, s>> \in used'
                   <=> <<l, s>> \in used \/ (l = h.of /\ s = h.stamp)
            /\ twice' = IF <<h.of, h.stamp>> \in used THEN twice + 1
                        ELSE twice
         \/ UNCHANGED <<last, frame, gap, used, twice, turns>>
  BY <1>i, CloudDoes
<1>2. UNCHANGED <<up, rest, phase, inbox, mapbox, pair, held, lidar_flag, cnt>>
  BY DEF CloudArrives
<1> HIDE DEF h
<1>3. \A s \in 0 .. 1 :
        (\A l \in Lidars : <<l, s>> \in used')
          => \A l \in Lidars : <<l, s>> \in used
  <2>1. SUFFICES ASSUME NEW s \in 0 .. 1, s = h.stamp,
                        \A l \in Lidars : <<l, s>> \in used'
                 PROVE  \A l \in Lidars : <<l, s>> \in used
    BY <1>1
  <2>2. /\ Other(h.of) \in Lidars /\ Other(h.of) # h.of
        /\ Lidars = {h.of, Other(h.of)}
    BY <1>1, TwoLidars
  <2>3. <<Other(h.of), s>> \in used BY <1>1, <2>1, <2>2
  <2>4. <<h.of, s>> \in used BY <1>1, <1>i, <2>1, <2>3 DEF MergedBefore
  <2> QED BY <2>2, <2>3, <2>4
<1>4. \A s \in 0 .. 1 :
        Lidars \X {s} \subseteq used' => Lidars \X {s} \subseteq used
  <2>1. ASSUME NEW s \in 0 .. 1, Lidars \X {s} \subseteq used'
        PROVE  \A l \in Lidars : <<l, s>> \in used'
    BY <2>1
  <2> QED BY <1>3, <2>1, PairedIs
<1>5. HeldNow' BY <1>2, <1>4, <1>i DEF Held, HeldNow
<1>6. HeldLong'
  <2>1. last' < Old \/ UNCHANGED <<last, gap>> BY <1>1 DEF Old
  <2> QED BY <1>2, <1>i, <2>1 DEF Held, HeldLong
<1>7. HeldBack'
  <2>1. ASSUME NEW l \in Lidars, <<l, 1>> \in held PROVE HeldBack'
    <3>1. /\ l \notin pair /\ ~(Lidars \X {1} \subseteq used)
          /\ lidar_flag = 0 /\ Paired
          /\ \A k \in Lidars :
               /\ cnt[k] <= phase + ScanTicks /\ <<k, 0>> \notin waiting
               /\ k \notin up => last = 0 \/ rest <= gap + ScanTicks
               /\ twice = 1 => <<k, 1>> \notin used
      BY <1>i, <2>1 DEF Held, HeldBack
    <3>2. \A j \in Lidars : <<j, 1>> \in held => j = l
      BY <1>i, <2>1 DEF Held
    <3>3. h.stamp = 1
      <4>1. h.of \in Lidars /\ <<h.of, h.stamp>> \in waiting
              /\ (h.stamp = 0 \/ h.stamp = 1)
        BY <1>1
      <4>2. <<h.of, 0>> \notin waiting BY <3>1, <4>1
      <4> QED BY <4>1, <4>2
    <3>4. up = Lidars BY <1>1, <3>1 DEF LidInv, OneLess
    <3>5. twice = 0 BY <1>1 DEF LidInv, Twice
    <3>6. <<h.of, 1>> \notin used
      <4>1. SUFFICES ASSUME <<h.of, 1>> \in used PROVE FALSE OBVIOUS
      <4>2. 1 \in 0 .. 1 /\ Other(h.of) \in Lidars
              /\ Lidars = {h.of, Other(h.of)}
        BY <1>1, TwoLidars
      <4>3. <<Other(h.of), 1>> \notin used BY <3>1, <4>1, <4>2
      <4>4. 1 < 1 BY <1>1, <3>3, <4>1, <4>2, <4>3 DEF LidInv, Used
      <4> QED BY <4>4
    <3>7. twice' = 0 BY <1>1, <3>3, <3>5, <3>6
    <3>8. Paired' BY <1>1, <3>1, <3>3, TwoLidars DEF Paired
    <3>9. ~(Lidars \X {1} \subseteq used') BY <1>4, <3>1
    <3>10. \A k \in Lidars : <<k, 0>> \notin waiting'
      <4>1. 0 \in 0 .. 1 OBVIOUS
      <4> QED BY <1>1, <3>1, <4>1
    <3>11. \A k \in Lidars :
             /\ cnt'[k] <= phase' + ScanTicks /\ <<k, 0>> \notin waiting'
             /\ k \in up' /\ twice' # 1
      <4>1. twice' # 1 BY <3>7
      <4>2. up' = Lidars /\ cnt' = cnt /\ phase' = phase BY <1>2, <3>4
      <4> QED BY <3>1, <3>10, <4>1, <4>2
    <3> QED BY <1>2, <3>1, <3>2, <3>8, <3>9, <3>11 DEF HeldBack
  <2>2. CASE \A l \in Lidars : <<l, 1>> \notin held
    BY <1>2, <2>2 DEF HeldBack
  <2> QED BY <2>1, <2>2
<1> QED BY <1>2, <1>5, <1>6, <1>7, <1>i DEF Held

(* The next scan of a pair held back comes before either lidar is missed.  *)
LEMMA HeldByTick ==
  ASSUME LidInv, Tick
  PROVE  Held'
<1>i. LidTypeOK /\ Watched /\ Held BY DEF LidInv
<1>0. /\ ScanTicks \in Nat /\ gap \in Nat /\ rest \in Nat
      /\ phase \in 0 .. ScanTicks - 1
  <2>1. rest \in Nat BY <1>i, Numbers
  <2> QED BY <1>i, <2>1, Numbers
<1>1. Watch /\ Passed
        /\ UNCHANGED <<inbox, mapbox, pair, held, clouds, last, used>>
  BY DEF Tick
<1>2. /\ UNCHANGED <<up, twice>> /\ UNCHANGED waiting
      /\ phase' = phase + 1
      /\ rest' \in Nat /\ rest' <= rest + 1
  <2>1. phase' = phase + 1 BY DEF Tick
  <2> QED BY <1>1, <1>i, <2>1, PassTime, SameWaiting
<1>3. up # {} => gap' = gap + 1 BY <1>1, GapGrows
<1>4. ASSUME rest <= gap + ScanTicks, up # {} PROVE rest' <= gap' + ScanTicks
  BY <1>0, <1>2, <1>3, <1>4
<1>5. HeldNow' BY <1>1, <1>i DEF Held, HeldNow
<1>6. HeldLong' BY <1>1, <1>2, <1>4, <1>i DEF Held, HeldLong
<1>7. HeldBack'
  <2>1. ASSUME NEW l \in Lidars, <<l, 1>> \in held PROVE HeldBack'
    <3>1. /\ l \notin pair /\ ~(Lidars \X {1} \subseteq used)
          /\ lidar_flag = 0 /\ Paired
          /\ \A k \in Lidars :
               /\ cnt[k] <= phase + ScanTicks /\ <<k, 0>> \notin waiting
               /\ k \notin up => last = 0 \/ rest <= gap + ScanTicks
               /\ twice = 1 => <<k, 1>> \notin used
      BY <1>i, <2>1 DEF Held, HeldBack
    <3>2. \A j \in Lidars : <<j, 1>> \in held => j = l
      BY <1>i, <2>1 DEF Held
    <3>3. up # {} BY <1>i, <3>1, WhoIsOn
    <3>4. \A k \in Lidars : On(k)' /\ cnt'[k] <= phase' + ScanTicks
      <4>1. SUFFICES ASSUME NEW k \in Lidars
                     PROVE On(k)' /\ cnt'[k] <= phase' + ScanTicks
        OBVIOUS
      <4>2. ~NextPeriod
        BY <1>0 DEF Tick, NextPeriod
      <4>3. ScanTicks \in {0, ScanTicks} /\ cnt[k] <= phase + ScanTicks
        BY <3>1
      <4> QED BY <1>i, <4>2, <4>3, StaysOn
    <3>5. lidar_flag' = 0
      <4>1. lidar_flag' \in 0 .. 3 BY <1>1, <1>i, PassTypes
      <4>2. lidar_flag' \in {0, OnlyFlag("1")}
              /\ lidar_flag' \in {0, OnlyFlag(Other("1"))}
        BY <3>4, TwoLidars DEF On
      <4> QED BY <4>1, <4>2, OnOf, TwoLidars
    <3>6. Paired' BY <1>1, <3>1 DEF Paired
    <3>7. \A k \in Lidars : k \notin up' =>
            last' = 0 \/ rest' <= gap' + ScanTicks
      BY <1>1, <1>2, <1>4, <3>1, <3>3
    <3> QED BY <1>1, <1>2, <3>1, <3>2, <3>4, <3>5, <3>6, <3>7 DEF HeldBack
  <2>2. CASE \A l \in Lidars : <<l, 1>> \notin held
    BY <1>1, <2>2 DEF HeldBack
  <2> QED BY <2>1, <2>2
<1> QED BY <1>1, <1>5, <1>6, <1>7, <1>i DEF Held

(* A pair is held back into the next period as both lidars are heard of;   *)
(* afterwards one of them fell silent.                                     *)
LEMMA HeldByPeriod ==
  ASSUME LidInv, NextPeriod
  PROVE  Held'
<1>i. LidTypeOK /\ Scans /\ Watched /\ Sorted /\ Held BY DEF LidInv
<1>0. /\ ScanTicks \in Nat /\ ScanTicks >= 1 /\ gap \in Nat /\ rest \in Nat
      /\ Dog \in Nat /\ 2 * ScanTicks - 1 <= Dog
  <2>1. rest \in Nat BY <1>i, Numbers
  <2> QED BY <1>i, <2>1, Numbers, QuietIs
<1>1. /\ Watch /\ Passed /\ phase = ScanTicks - 1 /\ phase' = 0
      /\ inbox = {} /\ mapbox = {} /\ mapbox' = up /\ pair' = {}
      /\ held' = {<<h[1], Older(h[2])>> : h \in {k \in held : k[2] <= last}}
      /\ last' = Older(last)
  BY DEF NextPeriod
<1>2. /\ UNCHANGED <<up, twice>> /\ rest' \in Nat /\ rest' <= rest + 1
      /\ gap' \in Nat
  BY <1>i, PassTime
<1>3. up # {} => gap' = gap + 1 BY <1>1, GapGrows
<1>4. ASSUME rest <= gap + ScanTicks, up # {} PROVE rest' <= gap' + ScanTicks
  <2> DEFINE r == rest'
  <2>1. r \in Nat /\ r <= rest + 1 BY <1>2
  <2> HIDE DEF r
  <2>2. r <= gap + 1 + ScanTicks BY <1>0, <1>4, <2>1
  <2> QED BY <1>3, <1>4, <2>2 DEF r
<1>5. ASSUME NEW l \in Lidars, NEW a, <<l, a>> \in held'
      PROVE  \E b \in 0 .. Old : <<l, b>> \in held /\ b <= last /\ a = Older(b)
  <2>1. PICK h \in held : h[2] <= last /\ <<l, a>> = <<h[1], Older(h[2])>>
    BY <1>1, <1>5
  <2>2. h = <<h[1], h[2]>> /\ h[2] \in 0 .. Old BY <1>i DEF LidTypeOK
  <2> QED BY <2>1, <2>2
<1>6. ASSUME NEW g \in held', NEW h \in held' PROVE g = h
  BY <1>1, <1>i DEF Held
<1>7. ASSUME NEW b \in 0 .. Old
      PROVE  /\ Older(b) # 0 /\ (Older(b) = 1 => b = 0)
             /\ Older(b) = Old => b = 1 \/ b = Old
  BY DEF Older, Old
<1>8. HeldNow' BY <1>5, <1>7 DEF HeldNow
<1>9. HeldBack'
  <2>1. ASSUME NEW l \in Lidars, <<l, 1>> \in held' PROVE HeldBack'
    <3>1. <<l, 0>> \in held BY <1>5, <1>7, <2>1
    <3>2. pair = Lidars /\ ~(Lidars \X {0} \subseteq used)
      BY <1>i, <3>1 DEF Held, HeldNow
    <3>3. ASSUME NEW k \in Lidars PROVE cnt[k] <= phase
      <4>1. k \in pair /\ k \notin inbox /\ k \in mapbox \union pair
        BY <1>1, <3>2
      <4>2. CASE Settled(k)
        <5>1. cnt[k] <= phase + 0
          BY <4>1, <4>2 DEF Settled, Late
        <5> QED BY <1>0, <1>1, <1>i, <5>1 DEF LidTypeOK
      <4>3. CASE Coming(k)
        <5>1. cnt[k] = 0 BY <4>1, <4>3 DEF Coming
        <5> QED BY <1>0, <1>1, <5>1
      <4>4. CASE Leaving(k)
        <5>1. rest <= phase BY <1>i, <4>1, <4>4 DEF Scans, Leaving
        <5>2. cnt[k] <= phase + 0 BY <4>1, <4>4, <5>1 DEF Leaving, Late
        <5> QED BY <1>0, <1>1, <1>i, <5>2 DEF LidTypeOK
      <4> QED BY <1>i, <4>2, <4>3, <4>4 DEF Watched
    <3>4. \A k \in Lidars : On(k)' /\ cnt'[k] <= phase' + ScanTicks
      <4>1. SUFFICES ASSUME NEW k \in Lidars
                     PROVE On(k)' /\ cnt'[k] <= phase' + ScanTicks
        OBVIOUS
      <4>2. 0 \in {0, ScanTicks} /\ cnt[k] <= phase + 0
        <5>1. cnt[k] <= phase /\ phase + 0 = phase BY <1>0, <1>1, <3>3
        <5> QED BY <5>1
      <4> QED BY <1>i, <4>2, StaysOn
    <3>5. lidar_flag' = 0
      <4>1. lidar_flag' \in 0 .. 3 BY <1>1, <1>i, PassTypes
      <4>2. lidar_flag' \in {0, OnlyFlag("1")}
              /\ lidar_flag' \in {0, OnlyFlag(Other("1"))}
        BY <3>4, TwoLidars DEF On
      <4> QED BY <4>1, <4>2, OnOf, TwoLidars
    <3>6. Paired' BY AgeDoes, TwoLidars DEF Paired
    <3>7. ~(\A k \in Lidars : <<k, 0>> \in used) BY <3>2, PairedIs
    <3>8. ~(Lidars \X {1} \subseteq used')
      <4>1. PICK k \in Lidars : <<k, 0>> \notin used BY <3>7
      <4>2. <<k, 1>> \notin used' BY <4>1, AgeDoes
      <4> QED BY <4>2
    <3>9. ASSUME NEW k \in Lidars
          PROVE  /\ cnt'[k] <= phase' + ScanTicks /\ <<k, 0>> \notin waiting'
                 /\ k \notin up' => last' = 0 \/ rest' <= gap' + ScanTicks
                 /\ twice' = 1 => <<k, 1>> \notin used'
      <4>1. <<k, 0>> \notin waiting'
        <5>1. 0 \in 0 .. 1 /\ 0 # 1 OBVIOUS
        <5> QED BY <1>i, <5>1, WaitAge DEF NextPeriod
      <4>2. ASSUME k \notin up' PROVE rest' <= gap' + ScanTicks
        <5>1. rest <= phase BY <1>2, <1>i, <3>2, <4>2 DEF Scans
        <5> DEFINE r == rest'  g == gap'
        <5>2. r \in Nat /\ r <= rest + 1 /\ g \in Nat BY <1>2
        <5> HIDE DEF r, g
        <5>3. r <= g + ScanTicks BY <1>0, <1>1, <5>1, <5>2
        <5> QED BY <5>3 DEF r, g
      <4>3. ASSUME twice' = 1 PROVE <<k, 1>> \notin used'
        <5>1. Paired BY <1>2, <4>3 DEF LidInv, Twice
        <5>2. <<k, 0>> \in used => <<Other(k), 0>> \in used
          BY <5>1, PairedIs
        <5>3. <<k, 0>> \notin used BY <3>7, <5>2, TwoLidars
        <5> QED BY <5>3, AgeDoes
      <4> QED BY <3>4, <4>1, <4>2, <4>3
    <3>10. \A j \in Lidars : <<j, 1>> \in held' => j = l
      BY <1>6, <2>1
    <3> QED BY <1>1, <3>5, <3>6, <3>8, <3>9, <3>10 DEF HeldBack
  <2>2. CASE \A l \in Lidars : <<l, 1>> \notin held'
    BY <2>2 DEF HeldBack
  <2> QED BY <2>1, <2>2
<1>10. HeldLong'
  <2>1. SUFFICES ASSUME NEW l \in Lidars, <<l, Old>> \in held'
                 PROVE  /\ l \notin mapbox' \union pair'
                        /\ l \notin up' /\ up' # {}
                             /\ rest' <= gap' + ScanTicks
    BY DEF HeldLong, Old
  <2>2. PICK b \in 0 .. Old :
          <<l, b>> \in held /\ b <= last /\ Old = Older(b)
    BY <1>5, <2>1
  <2>3. b = 1 \/ b = Old BY <1>7, <2>2
  <2>4. l \notin up /\ up # {} /\ rest <= gap + ScanTicks
    <3>1. CASE b = 1
      <4>1. /\ l \notin pair /\ lidar_flag = 0
            /\ l \notin up => last = 0 \/ rest <= gap + ScanTicks
        BY <1>i, <2>2, <3>1 DEF Held, HeldBack
      <4>2. up # {} BY <1>i, <4>1, WhoIsOn
      <4>3. l \notin up BY <1>1, <1>i, <4>1 DEF Scans, On
      <4>4. last # 0 BY <2>2, <3>1
      <4> QED BY <4>1, <4>2, <4>3, <4>4
    <3>2. CASE b = Old
      <4>1. last = Old BY <1>i, <2>2, <3>2 DEF LidTypeOK, Old
      <4> QED BY <1>i, <2>2, <3>2, <4>1 DEF Held, HeldLong, Old
    <3> QED BY <2>3, <3>1, <3>2
  <2> QED BY <1>1, <1>2, <1>4, <2>4
<1> QED BY <1>6, <1>8, <1>9, <1>10 DEF Held

(* Every step keeps what is known of the pair held back.                   *)
LEMMA HeldHolds ==
  ASSUME LidInv, [LidNext]_lidVars
  PROVE  Held'
<1> USE DEF lidars, monitor, buffer, mapper
<1>i. LidTypeOK /\ Sorted /\ Held BY DEF LidInv
<1>1. ASSUME NEW l \in Lidars, LidarCallback(l) PROVE Held'
  <2>1. /\ UNCHANGED <<up, rest, phase, mapbox, pair, held, lidar_flag, last,
             gap, used, twice>>
        /\ cnt' = [cnt EXCEPT ![l] = 0]
    BY <1>1 DEF LidarCallback
  <2>2. HeldNow' BY <2>1, <1>i DEF Held, HeldNow
  <2>3. HeldLong' BY <2>1, <1>i DEF Held, HeldLong
  <2>4. HeldBack'
    <3>1. SUFFICES ASSUME NEW j \in Lidars, <<j, 1>> \in held,
                          \A k \in Lidars : <<k, 1>> \in held => k = j
                   PROVE  HeldBack'
      BY <2>1, <1>i DEF Held, HeldBack
    <3>2. /\ j \notin pair /\ ~(Lidars \X {1} \subseteq used)
          /\ lidar_flag = 0 /\ Paired
          /\ \A k \in Lidars :
               /\ cnt[k] <= phase + ScanTicks /\ <<k, 0>> \notin waiting
               /\ k \notin up => last = 0 \/ rest <= gap + ScanTicks
               /\ twice = 1 => <<k, 1>> \notin used
      BY <1>i, <3>1 DEF Held, HeldBack
    <3>3. UNCHANGED waiting
      <4>1. ~PassesOn(l) BY <3>2, TwoLidars DEF PassesOn
      <4>2. UNCHANGED clouds BY <1>1, <4>1 DEF LidarCallback
      <4> QED BY <4>2, SameWaiting
    <3>4. \A k \in Lidars : cnt'[k] <= phase' + ScanTicks
      <4>1. 0 <= phase + ScanTicks
        <5>1. phase \in Nat /\ ScanTicks \in Nat BY <1>i, Numbers
        <5> QED BY <5>1
      <4>2. \A k \in Lidars : cnt'[k] = 0 \/ cnt'[k] = cnt[k]
        BY <1>i, <2>1 DEF LidTypeOK
      <4> QED BY <2>1, <3>2, <4>1, <4>2
    <3>5. Paired' BY <2>1, <3>2 DEF Paired
    <3> QED BY <2>1, <3>1, <3>2, <3>3, <3>4, <3>5 DEF HeldBack
  <2> QED BY <2>1, <2>2, <2>3, <2>4, <1>i DEF Held
<1>2. CASE UNCHANGED <<up, rest, phase, mapbox, pair, held, lidar_flag, cnt,
             clouds, last, gap, used, twice>>
  <2>1. UNCHANGED waiting BY <1>2, SameWaiting
  <2> QED BY <1>2, <1>i, <2>1
      DEF Held, HeldNow, HeldBack, HeldLong, Paired
<1> QED BY <1>1, <1>2, HeldByLidars, HeldByScan, HeldByCloud, HeldByTick,
           HeldByPeriod
        DEF LidNext, ImuCallback, FlagArrives, lidVars

(* The nodes start with both lidars at work and nothing under way.         *)
LEMMA LidInvInit == LidInit => LidInv
<1> SUFFICES ASSUME LidInit PROVE LidInv OBVIOUS
<1>0. LidBounds BY LidBoundsHold
<1>1. /\ up = Lidars /\ rest = 0 /\ phase = 0 /\ inbox = Lidars
      /\ mapbox = Lidars /\ pair = {} /\ held = {}
      /\ lidar_flag = 0 /\ pub_cnt = 0 /\ flags = <<>> /\ clouds = <<>>
      /\ merge_flag = 0 /\ last = Old /\ frame = "2" /\ gap = 0 /\ used = {}
      /\ twice = 0 /\ turns = 0
      /\ \A l \in Lidars : cnt[l] = 0
  BY DEF LidInit
<1>2. LidTypeOK BY LidTypesInit
<1>3. waiting = {} /\ DOMAIN clouds = {} /\ DOMAIN flags = {}
  <2>1. DOMAIN clouds = {} /\ DOMAIN flags = {} BY <1>1
  <2> QED BY <2>1 DEF waiting
<1>4. Scans BY <1>1 DEF Scans
<1>5. Watched
  <2>1. ASSUME NEW l \in Lidars PROVE Settled(l)
    BY <1>0, <1>1 DEF Settled, On, Late, LidBounds
  <2> QED BY <2>1 DEF Watched
<1>6. Sorted BY <1>3 DEF Sorted
<1>7. Queue /\ Used /\ MergedLast /\ MergedBefore
  BY <1>1, <1>3, TwoLidars DEF Queue, Used, MergedLast, MergedBefore
<1>8. LastUsed BY <1>1 DEF LastUsed, Old
<1>9. Told
  <2>1. FlagFor(up) = 0 /\ latest = 0 BY <1>1, FlagForValues DEF latest
  <2> QED BY <1>1, <1>3, <2>1 DEF Told
<1>10. ToldZero BY <1>1, <1>3 DEF ToldZero
<1>11. OneLess BY <1>1 DEF OneLess
<1>12. BothSettle
  <2>1. Paired BY <1>1 DEF Paired
  <2>2. \A s \in 0 .. 1 : ~(Lidars \X {s} \subseteq used)
    <3>1. \A s \in 0 .. 1 : <<"1", s>> \in Lidars \X {s} BY TwoLidars
    <3> QED BY <1>1, <3>1
  <2> QED BY <1>1, <1>3, <2>1, <2>2 DEF BothSettle
<1>h. Held BY <1>1 DEF Held, HeldNow, HeldBack, HeldLong
<1>b. BothApart
  <2>1. WerePaired BY <1>1 DEF WerePaired
  <2> QED BY <1>1, <2>1 DEF BothApart
<1>13. BothTurns
  <2>1. \A k \in Lidars : lidar_flag # OnlyFlag(k) BY <1>1, TwoLidars
  <2>2. turns <= 2 * twice + (IF frame = "1" THEN 0 ELSE 1) BY <1>1
  <2> QED BY <1>3, <2>1, <2>2 DEF BothTurns
<1>14. Merging BY <1>1 DEF Merging
<1>15. BothMerge BY <1>1, <1>14 DEF BothMerge
<1>16. BothFed
  <2>1. latest = 0 BY <1>1 DEF latest
  <2>2. gap <= 2*ScanTicks - 1 + PubEvery + phase BY <1>0, <1>1 DEF LidBounds
  <2> QED BY <2>1, <2>2 DEF BothFed
<1>17. Twice /\ OneWorks /\ NoneWorks
  <2>1. up # {} /\ \A k \in Lidars : up # {k} BY <1>1, TwoLidars
  <2> QED BY <1>1, <2>1 DEF Twice, OneWorks, NoneWorks
<1> QED
  BY <1>2, <1>4, <1>5, <1>6, <1>7, <1>8, <1>9, <1>10, <1>11, <1>12, <1>13,
     <1>15, <1>16, <1>17, <1>h, <1>b DEF LidInv

(* LidInv is inductive.                                                    *)
LEMMA LidInvStep == LidInv /\ [LidNext]_lidVars => LidInv'
<1> SUFFICES ASSUME LidInv, [LidNext]_lidVars PROVE LidInv' OBVIOUS
<1>i. /\ LidTypeOK /\ Scans /\ Watched /\ Sorted /\ Queue /\ Used
      /\ MergedLast /\ MergedBefore
      /\ LastUsed /\ Told /\ ToldZero /\ Held
  BY DEF LidInv
<1>1. LidTypeOK' BY <1>i, LidTypesStep DEF Held
<1>2. Scans' /\ Watched' BY <1>i, ScansHold, WatchedHolds
<1>3. Sorted' /\ Queue' BY <1>i, SortedHolds, QueueHolds
<1>4. Used' /\ MergedLast' BY <1>i, UsedHolds, MergedLastHolds
<1>5. MergedBefore' /\ LastUsed' BY <1>i, MergedBeforeHolds, LastUsedHolds
<1>6. Told' /\ ToldZero' BY <1>i, ToldHolds, ToldZeroHolds
<1>7. OneLess' /\ BothSettle' /\ BothTurns' /\ BothMerge' /\ BothFed'
  BY OneLessHolds, BothSettleHolds, BothTurnsHold, BothMergeHolds, BothFedHolds
<1>8. Twice' /\ OneWorks' /\ NoneWorks'
  BY TwiceHolds, OneWorksHolds, NoneWorksHolds
<1>9. Held' /\ BothApart' BY HeldHolds, BothApartHolds
<1> QED BY <1>1, <1>2, <1>3, <1>4, <1>5, <1>6, <1>7, <1>8, <1>9 DEF LidInv

(* The monitor, what is under way and Point-LIO fit the lidars that work,  *)
(* in every state.                                                         *)
THEOREM LidInvariant == LidSpec => []LidInv
  BY LidInvInit, LidInvStep, PTL DEF LidSpec

(* Every variable of the two lidars, of LidarMonitorNode and of Point-     *)
(* LIO's buffer keeps its type; the watchdogs' counters stay within one    *)
(* above the limit.                                                        *)
THEOREM LidTypeCorrect == LidSpec => []LidTypeOK
<1>1. LidInv => LidTypeOK BY DEF LidInv
<1> QED BY <1>1, LidInvariant, PTL

(* And the changes of frame.                                               *)
LEMMA TurnsFollow == LidInv => FrameTurnsOnce
<1> SUFFICES ASSUME LidInv PROVE FrameTurnsOnce OBVIOUS
<1>i. LidTypeOK BY DEF LidInv
<1>0. turns \in Nat /\ twice \in Nat BY <1>i, Numbers
<1>1. CASE up = Lidars
  <2>1. turns <= 2 * twice + (IF frame = "1" THEN 0 ELSE 1)
    BY <1>1 DEF LidInv, BothTurns
  <2> QED BY <1>0, <2>1 DEF FrameTurnsOnce
<1>2. ASSUME NEW k \in Lidars, up = {k} PROVE FrameTurnsOnce
  <2>1. turns = 0 \/ turns = 1 BY <1>2 DEF LidInv, OneWorks
  <2> QED BY <1>0, <2>1 DEF FrameTurnsOnce
<1>3. CASE up = {}
  <2>1. turns = 0 BY <1>3 DEF LidInv, NoneWorks
  <2> QED BY <1>0, <2>1 DEF FrameTurnsOnce
<1> QED BY <1>1, <1>2, <1>3, <1>i, UpIs

(* While a lidar works, Point-LIO lacks scans for the longer of the        *)
(* watchdog's limit and the period of publication, and under five scan     *)
(* periods: the flag of LidarMonitorNode, recomputed in timer_callback and *)
(* published at every PubEvery-th pass, and the copy of it in              *)
(* lidarFlagCallback agree again by then, and a pair of scans that the     *)
(* synchroniser before lidarCallback held back is handed on or replaced.   *)
THEOREM LidFed == LidSpec => []MapIsFed
  BY LidInvariant, FedFollows, PTL

(* Between two changes of the lidars at work, one cloud at most holds a    *)
(* scan that Point-LIO has accepted before: one passed on by the monitor,  *)
(* then merged by lidarCallback under the flag that came since.            *)
THEOREM LidOneScanTwice == LidSpec => []OneScanTwice
<1>1. LidInv => OneScanTwice BY DEF LidInv, Twice, OneScanTwice
<1> QED BY <1>1, LidInvariant, PTL

(* Between two changes of the lidars at work, the frame of the clouds      *)
(* changes once, but for the turns a scan accepted twice brings along.     *)
THEOREM LidFrameTurnsOnce == LidSpec => []FrameTurnsOnce
  BY LidInvariant, TurnsFollow, PTL

-----------------------------------------------------------------------------
(* THE NAVIGATORS                                                          *)

(* The types of the life cycle and the threads, of the action server, of   *)
(* what the tree works with.                                               *)
ThreadsOK ==
  /\ life \in {"active", "poses", "pose", "inactive"}
  /\ muxer \in Navigators \union {None}
  /\ pc \in [Navigators -> Running \union
          {"idle", "received", "loading", "starting", "result", "next"}]

ServerOK ==
  /\ active \in [Navigators -> Goals \union {None}]
  /\ pending \in [Navigators -> Goals \union {None}]
  /\ result \in [Goals -> Ended \union {"unsent", "open"}]
  /\ asked \subseteq Goals

TreeOK ==
  /\ tree \in [Navigators -> {File(t) : t \in Trees}]
  /\ board \in [Navigators -> Goals \union {None}]
  /\ rc \in [Navigators -> {"running", "succeeded", "failed", "canceled"}]

HasAGoal ==
  \A n \in Navigators : active[n] = None <=> pc[n] \in {"idle", "next"}

(* A navigator holds goals sent to it, and none twice.                     *)
HoldsItsGoals ==
  \A n \in Navigators, g \in Goals :
     g \in {active[n], pending[n]} => NavOf[g] = n

HoldsNoneTwice ==
  \A n \in Navigators : active[n] # None => active[n] # pending[n]

(* Nothing waits for an idle thread, and what onPreempt saw pending still  *)
(* is, though maybe not the same goal.                                     *)
PendingFits ==
  \A n \in Navigators :
    /\ pc[n] = "idle" => pending[n] = None
    /\ pc[n] \in {"accepting", "refusing"} => pending[n] # None

(* A tree that is completed has returned.                                  *)
TreeReturned ==
  \A n \in Navigators : pc[n] \in {"completing", "result"} => rc[n] # "running"

(* The goal is on the blackboard before the muxer is taken.                *)
BoardIsLoaded ==
  \A n \in Navigators :
     pc[n] \in Running \union {"starting"} => board[n] = active[n]

Types   == ThreadsOK /\ ServerOK /\ TreeOK /\ HasAGoal
Holding == HoldsItsGoals /\ HoldsNoneTwice /\ OpenGoalsAreHeld
Threads == PendingFits /\ TreeReturned /\ BoardIsLoaded /\ MuxerIsHeldByARunner

IInv == Types /\ Holding /\ Threads

USE GoalsAssumption, NavAssumption

(* Both navigators start idle, nothing is open.                            *)
LEMMA InitHolds == Init => IInv
<1> SUFFICES ASSUME Init
             PROVE  IInv
    OBVIOUS
<1> USE DEF Init
<1>1. ThreadsOK /\ ServerOK /\ HasAGoal
      BY DEF ThreadsOK, ServerOK, HasAGoal
<1>2. TreeOK
      BY DEF TreeOK, Trees, File
<1>3. Holding
      BY DEF Holding, HoldsItsGoals, HoldsNoneTwice, OpenGoalsAreHeld
<1>4. Threads
      BY DEF Threads, PendingFits, TreeReturned, BoardIsLoaded,
             MuxerIsHeldByARunner
<1> QED
    BY <1>1, <1>2, <1>3, <1>4 DEF IInv, Types

-----------------------------------------------------------------------------
(* A goal is accepted: current when the thread idles, else pending, where  *)
(* it ends the goal that waited before.                                    *)
LEMMA SendGoalHolds ==
  ASSUME NEW g \in Goals, IInv, SendGoal(g)
  PROVE  IInv'
<1> DEFINE n == NavOf[g]
<1>1. Types /\ Holding /\ Threads
      BY DEF IInv
<1>2. /\ n \in Navigators /\ result[g] = "unsent"
      /\ UNCHANGED <<life, muxer, run, asked>>
      BY DEF SendGoal
<1>3. CASE pc[n] = "idle"
  <2>1. /\ active' = [active EXCEPT ![n] = g] /\ pending' = pending
        /\ pc' = [pc EXCEPT ![n] = "received"]
        /\ result' = [result EXCEPT ![g] = "open"]
        BY <1>3 DEF SendGoal, Goto
  <2>2. Types'
        BY <1>1, <1>2, <2>1
           DEF Types, ThreadsOK, ServerOK, TreeOK, HasAGoal, run
  <2>3. Holding'
        BY <1>1, <1>2, <1>3, <2>1
           DEF Types, ServerOK, HasAGoal, Holding, HoldsItsGoals,
               HoldsNoneTwice, OpenGoalsAreHeld
  <2>4. Threads'
        BY <1>1, <1>2, <1>3, <2>1
           DEF Threads, PendingFits, TreeReturned, BoardIsLoaded,
               MuxerIsHeldByARunner, Running, run
  <2> QED
      BY <2>2, <2>3, <2>4 DEF IInv
<1>4. CASE pc[n] # "idle"
  <2>1. /\ pending' = [pending EXCEPT ![n] = g] /\ UNCHANGED <<active, pc>>
        /\ result' = [ReplacePending(n) EXCEPT ![g] = "open"]
        BY <1>4 DEF SendGoal
  <2>2. /\ ReplacePending(n) \in [Goals -> Ended \union {"unsent", "open"}]
        /\ \A h \in Goals : ReplacePending(n)[h] = "open"
              <=> result[h] = "open" /\ h # pending[n]
        BY <1>1 DEF Types, ServerOK, ReplacePending, Terminated, Ended
  <2>3. Types'
        BY <1>1, <1>2, <2>1, <2>2
           DEF Types, ThreadsOK, ServerOK, TreeOK, HasAGoal, run
  <2>4. Holding'
        BY <1>1, <1>2, <2>1, <2>2
           DEF Types, ServerOK, Holding, HoldsItsGoals, HoldsNoneTwice,
               OpenGoalsAreHeld
  <2>5. Threads'
        BY <1>1, <1>2, <1>4, <2>1
           DEF Threads, PendingFits, TreeReturned, BoardIsLoaded,
               MuxerIsHeldByARunner, run
  <2> QED
      BY <2>3, <2>4, <2>5 DEF IInv
<1> QED
    BY <1>3, <1>4

(* A cancellation only adds to what was asked for.                         *)
LEMMA CancelHolds ==
  ASSUME NEW g \in Goals, IInv, Cancel(g)
  PROVE  IInv'
<1> USE DEF Cancel, server, run
<1>1. Types /\ Holding /\ Threads
      BY DEF IInv
<1>2. ThreadsOK' /\ TreeOK'
      BY <1>1 DEF Types, ThreadsOK, TreeOK
<1>3. ServerOK' /\ HasAGoal'
      BY <1>1 DEF Types, ServerOK, HasAGoal
<1>4. Holding'
      BY <1>1 DEF Holding, HoldsItsGoals, HoldsNoneTwice, OpenGoalsAreHeld
<1>5. Threads'
      BY <1>1
         DEF Threads, PendingFits, TreeReturned, BoardIsLoaded,
             MuxerIsHeldByARunner
<1> QED
    BY <1>2, <1>3, <1>4, <1>5 DEF IInv, Types

-----------------------------------------------------------------------------
(* A goal is refused, or goes on.                                          *)
LEMMA OnGoalReceivedHolds ==
  ASSUME NEW n \in Navigators, IInv, OnGoalReceived(n)
  PROVE  IInv'
<1> USE DEF OnGoalReceived, TerminateCurrent, Terminated, Goto, server, run
<1>1. Types /\ Holding /\ Threads
      BY DEF IInv
<1>2. ThreadsOK' /\ TreeOK'
      BY <1>1 DEF Types, ThreadsOK, TreeOK
<1>3. ServerOK' /\ HasAGoal'
      BY <1>1 DEF Types, ThreadsOK, ServerOK, HasAGoal, Ended
<1>4. Holding'
      BY <1>1
         DEF Types, ServerOK, Holding, HoldsItsGoals, HoldsNoneTwice,
             OpenGoalsAreHeld
<1>5. Threads'
      BY <1>1
         DEF Types, ThreadsOK, ServerOK, Threads, PendingFits, TreeReturned,
             BoardIsLoaded, MuxerIsHeldByARunner, Running
<1> QED
    BY <1>2, <1>3, <1>4, <1>5 DEF IInv, Types

(* The goal's tree is loaded and its goal put on the blackboard, or not.   *)
LEMMA GoalReceivedHolds ==
  ASSUME NEW n \in Navigators, IInv, GoalReceived(n)
  PROVE  IInv'
<1> USE DEF GoalReceived, TerminateCurrent, Terminated, InitializeGoalPose,
            Goto, server
<1>1. Types /\ Holding /\ Threads
      BY DEF IInv
<1>2. ThreadsOK' /\ TreeOK'
      BY <1>1 DEF Types, ThreadsOK, TreeOK, ServerOK, Trees, HasAGoal
<1>3. ServerOK' /\ HasAGoal'
      BY <1>1 DEF Types, ThreadsOK, ServerOK, HasAGoal, Ended
<1>4. Holding'
      BY <1>1
         DEF Types, ServerOK, Holding, HoldsItsGoals, HoldsNoneTwice,
             OpenGoalsAreHeld
<1>5. Threads'
      BY <1>1
         DEF Types, ThreadsOK, ServerOK, TreeOK, Threads, PendingFits,
             TreeReturned, BoardIsLoaded, MuxerIsHeldByARunner, Running
<1> QED
    BY <1>2, <1>3, <1>4, <1>5 DEF IInv, Types

(* The steps that leave the action server alone.                           *)
LEMMA QuietStepHolds ==
  ASSUME NEW n \in Navigators, IInv,
         StartNavigating(n) \/ TreeCanceled(n) \/ TreeTicked(n) \/ OnPreempt(n)
           \/ OnCompletion(n)
  PROVE  IInv'
<1> USE DEF StartNavigating, TreeCanceled, TreeTicked, OnPreempt, OnCompletion,
            StopNavigating, AfterLoop, Goto, server, run
<1>1. Types /\ Holding /\ Threads
      BY DEF IInv
<1>2. ThreadsOK' /\ TreeOK'
      BY <1>1 DEF Types, ThreadsOK, TreeOK, Running
<1>3. ServerOK' /\ HasAGoal'
      BY <1>1 DEF Types, ThreadsOK, ServerOK, HasAGoal
<1>4. Holding'
      BY <1>1 DEF Holding, HoldsItsGoals, HoldsNoneTwice, OpenGoalsAreHeld
<1>5. Threads'
      BY <1>1
         DEF Types, ThreadsOK, TreeOK, Threads, PendingFits, TreeReturned,
             BoardIsLoaded, MuxerIsHeldByARunner, Running
<1> QED
    BY <1>2, <1>3, <1>4, <1>5 DEF IInv, Types

(* The pending goal takes the place of the current one, on the blackboard  *)
(* too.                                                                    *)
LEMMA AcceptPendingHolds ==
  ASSUME NEW n \in Navigators, IInv, AcceptPending(n)
  PROVE  IInv'
<1> USE DEF AcceptPending, InitializeGoalPose, AfterLoop, Goto
<1>1. Types /\ Holding /\ Threads
      BY DEF IInv
<1>2. ThreadsOK' /\ TreeOK'
      BY <1>1 DEF Types, ThreadsOK, TreeOK, Running, ServerOK
<1>3. ServerOK' /\ HasAGoal'
      BY <1>1 DEF Types, ServerOK, HasAGoal, Ended, Threads, PendingFits
<1>4. Holding'
      BY <1>1
         DEF Types, ServerOK, Holding, HoldsItsGoals, HoldsNoneTwice,
             OpenGoalsAreHeld
<1>5. Threads'
      BY <1>1
         DEF Types, ThreadsOK, ServerOK, TreeOK, Threads, PendingFits,
             TreeReturned, BoardIsLoaded, MuxerIsHeldByARunner, Running
<1> QED
    BY <1>2, <1>3, <1>4, <1>5 DEF IInv, Types

(* The pending goal is refused.                                            *)
LEMMA RefusePendingHolds ==
  ASSUME NEW n \in Navigators, IInv, RefusePending(n)
  PROVE  IInv'
<1> USE DEF RefusePending, TerminatePendingGoal, Terminated, AfterLoop, Goto,
            run
<1>1. Types /\ Holding /\ Threads
      BY DEF IInv
<1>2. ThreadsOK' /\ TreeOK'
      BY <1>1 DEF Types, ThreadsOK, TreeOK, Running
<1>3. ServerOK' /\ HasAGoal'
      BY <1>1 DEF Types, ServerOK, HasAGoal, Ended
<1>4. Holding'
      BY <1>1
         DEF Types, ServerOK, Holding, HoldsItsGoals, HoldsNoneTwice,
             OpenGoalsAreHeld
<1>5. Threads'
      BY <1>1
         DEF Types, ThreadsOK, Threads, PendingFits, TreeReturned,
             BoardIsLoaded, MuxerIsHeldByARunner, Running
<1> QED
    BY <1>2, <1>3, <1>4, <1>5 DEF IInv, Types

(* The result of the current goal; when it was canceled, so is the pending *)
(* one.                                                                    *)
LEMMA SendResultHolds ==
  ASSUME NEW n \in Navigators, IInv, SendResult(n)
  PROVE  IInv'
<1> USE DEF SendResult, Terminated, Goto, run
<1>1. Types /\ Holding /\ Threads
      BY DEF IInv
<1>2. ThreadsOK' /\ TreeOK'
      BY <1>1 DEF Types, ThreadsOK, TreeOK
<1>3. ServerOK' /\ HasAGoal'
      BY <1>1
         DEF Types, ThreadsOK, ServerOK, HasAGoal, Ended, TreeOK, Threads,
             TreeReturned
<1>4. Holding'
      BY <1>1
         DEF Types, ServerOK, Holding, HoldsItsGoals, HoldsNoneTwice,
             OpenGoalsAreHeld, TreeOK, Threads, TreeReturned
<1>5. Threads'
      BY <1>1
         DEF Threads, PendingFits, TreeReturned, BoardIsLoaded,
             MuxerIsHeldByARunner, Running
<1> QED
    BY <1>2, <1>3, <1>4, <1>5 DEF IInv, Types

(* The pending goal comes next, or ends with the turn of the thread.       *)
LEMMA NextGoalHolds ==
  ASSUME NEW n \in Navigators, IInv, NextGoal(n)
  PROVE  IInv'
<1> USE DEF NextGoal, Terminated, Goto, run
<1>1. Types /\ Holding /\ Threads
      BY DEF IInv
<1>2. ThreadsOK' /\ TreeOK'
      BY <1>1 DEF Types, ThreadsOK, TreeOK
<1>3. ServerOK' /\ HasAGoal'
      BY <1>1 DEF Types, ThreadsOK, ServerOK, HasAGoal, Ended
<1>4. Holding'
      BY <1>1
         DEF Types, ServerOK, Holding, HoldsItsGoals, HoldsNoneTwice,
             OpenGoalsAreHeld, HasAGoal
<1>5. Threads'
      BY <1>1
         DEF Types, ThreadsOK, ServerOK, Threads, PendingFits, TreeReturned,
             BoardIsLoaded, MuxerIsHeldByARunner, Running
<1> QED
    BY <1>2, <1>3, <1>4, <1>5 DEF IInv, Types

(* Activation and deactivation change no goal and no thread.               *)
LEMMA LifeCycleHolds ==
  ASSUME IInv, OnDeactivate \/ Stopped \/ OnActivate
  PROVE  IInv'
<1> USE DEF OnDeactivate, Stopped, PosesStopped, PoseStopped, OnActivate,
            server, run
<1>1. Types /\ Holding /\ Threads
      BY DEF IInv
<1>2. ThreadsOK' /\ TreeOK'
      BY <1>1 DEF Types, ThreadsOK, TreeOK
<1>3. ServerOK' /\ HasAGoal'
      BY <1>1 DEF Types, ServerOK, HasAGoal
<1>4. Holding'
      BY <1>1 DEF Holding, HoldsItsGoals, HoldsNoneTwice, OpenGoalsAreHeld
<1>5. Threads'
      BY <1>1
         DEF Threads, PendingFits, TreeReturned, BoardIsLoaded,
             MuxerIsHeldByARunner
<1> QED
    BY <1>2, <1>3, <1>4, <1>5 DEF IInv, Types

-----------------------------------------------------------------------------
(* IInv is inductive.                                                      *)
LEMMA NextHolds == IInv /\ [Next]_vars => IInv'
<1> SUFFICES ASSUME IInv, [Next]_vars
             PROVE  IInv'
    OBVIOUS
<1>1. ASSUME NEW g \in Goals, SendGoal(g) \/ Cancel(g)
      PROVE  IInv'
      BY <1>1, SendGoalHolds, CancelHolds
<1>2. ASSUME NEW n \in Navigators, ThreadStep(n)
      PROVE  IInv'
      BY <1>2, OnGoalReceivedHolds, GoalReceivedHolds, QuietStepHolds,
         AcceptPendingHolds, RefusePendingHolds, SendResultHolds, NextGoalHolds
         DEF ThreadStep
<1>3. CASE OnDeactivate \/ Stopped \/ OnActivate
      BY <1>3, LifeCycleHolds
<1>4. CASE UNCHANGED vars
      BY <1>4
         DEF vars, server, run, IInv, Types, ThreadsOK, ServerOK, TreeOK,
             HasAGoal, Holding, HoldsItsGoals, HoldsNoneTwice,
             OpenGoalsAreHeld, Threads, PendingFits, TreeReturned,
             BoardIsLoaded, MuxerIsHeldByARunner
<1> QED
    BY <1>1, <1>2, <1>3, <1>4 DEF Next

LEMMA Invariant == Spec => []IInv
BY InitHolds, NextHolds, PTL DEF Spec

-----------------------------------------------------------------------------
(* Every variable keeps its type, and a thread has a current goal unless   *)
(* it idles or is about to take the next one.                              *)
THEOREM TypeCorrect == Spec => []TypeOK
<1>1. IInv => TypeOK
      BY DEF IInv, Types, ThreadsOK, ServerOK, TreeOK, HasAGoal, TypeOK
<1> QED
    BY <1>1, Invariant, PTL

(* An accepted goal without a result is the current or the pending goal of *)
(* its navigator (bt_action_server and simple_action_server of Nav2 as     *)
(* navigate_to_pose.cpp and navigate_through_poses.cpp use them).          *)
THEOREM NoGoalIsForgotten == Spec => []OpenGoalsAreHeld
<1>1. IInv => OpenGoalsAreHeld
      BY DEF IInv, Holding
<1> QED
    BY <1>1, Invariant, PTL

(* The muxer is never left behind taken.                                   *)
THEOREM MuxerIsGivenBack == Spec => []MuxerIsHeldByARunner
<1>1. IInv => MuxerIsHeldByARunner
      BY DEF IInv, Threads
<1> QED
    BY <1>1, Invariant, PTL

(* A running tree works on the goal the action server reports on.          *)
THEOREM TreeWorksOnTheGoal == Spec => []BoardIsTheGoal
<1>1. IInv => BoardIsTheGoal
      BY DEF IInv, Threads, BoardIsLoaded, BoardIsTheGoal
<1> QED
    BY <1>1, Invariant, PTL

-----------------------------------------------------------------------------
(* The steps of the navigators that change the result of a goal, or what   *)
(* was asked for, as steps of the contract; the others are stutters.       *)
LEMMA InitContract == Init => Contract!Init
BY DEF Init, Contract!Init

LEMMA NextContract ==
  IInv /\ [Next]_vars => [Contract!Next]_<<result, asked>>
<1> SUFFICES ASSUME IInv, [Next]_vars
             PROVE  [Contract!Next]_<<result, asked>>
    OBVIOUS
<1> USE DEF Contract!Next, Contract!Moves, Contract!Ended
<1>1. Types /\ Holding /\ Threads /\ ServerOK
      BY DEF IInv, Types
<1>2. ASSUME NEW g \in Goals, SendGoal(g)
      PROVE  Contract!Next
  <2>1. /\ result[g] = "unsent" /\ asked' = asked
        /\ \/ result' = [result EXCEPT ![g] = "open"]
           \/ result' = [ReplacePending(NavOf[g]) EXCEPT ![g] = "open"]
        BY <1>2 DEF SendGoal
  <2>2. /\ DOMAIN ReplacePending(NavOf[g]) = Goals
        /\ \A h \in Goals :
             \/ ReplacePending(NavOf[g])[h] = result[h]
             \/ /\ result[h] = "open"
                /\ \/ ReplacePending(NavOf[g])[h] = "aborted"
                   \/ ReplacePending(NavOf[g])[h] = "canceled" /\ h \in asked
        BY <1>1
           DEF ReplacePending, Terminated, Holding, HoldsItsGoals,
               OpenGoalsAreHeld
  <2>3. /\ DOMAIN result' = Goals /\ result'[g] = "open"
        /\ \A h \in Goals \ {g} : result'[h] = result[h]
                                  \/ result'[h] = ReplacePending(NavOf[g])[h]
        BY <1>1, <2>1, <2>2 DEF ServerOK
  <2> QED
      BY <2>1, <2>2, <2>3
<1>3. ASSUME NEW g \in Goals, Cancel(g)
      PROVE  Contract!Next
      BY <1>1, <1>3 DEF Cancel, server, ServerOK
<1>4. ASSUME NEW n \in Navigators, ThreadStep(n)
      PROVE  Contract!Next \/ UNCHANGED <<result, asked>>
  <2> USE DEF ServerOK, Holding, HoldsItsGoals, OpenGoalsAreHeld
  <2>1. CASE OnGoalReceived(n)
        BY <1>1, <2>1 DEF OnGoalReceived, TerminateCurrent, Terminated, server
  <2>2. CASE GoalReceived(n)
        BY <1>1, <2>2 DEF GoalReceived, TerminateCurrent, Terminated, server
  <2>3. CASE StartNavigating(n) \/ TreeCanceled(n) \/ TreeTicked(n)
               \/ OnPreempt(n) \/ OnCompletion(n)
        BY <2>3
           DEF StartNavigating, TreeCanceled, TreeTicked, OnPreempt,
               OnCompletion, server
  <2>4. CASE AcceptPending(n)
        BY <1>1, <2>4 DEF AcceptPending
  <2>5. CASE RefusePending(n)
        BY <1>1, <2>5 DEF RefusePending, TerminatePendingGoal, Terminated
  <2>6. CASE SendResult(n)
        BY <1>1, <2>6
           DEF SendResult, Terminated, Types, TreeOK, Threads, TreeReturned
  <2>7. CASE NextGoal(n)
        BY <1>1, <2>7 DEF NextGoal, Terminated
  <2> QED
      BY <1>4, <2>1, <2>2, <2>3, <2>4, <2>5, <2>6, <2>7 DEF ThreadStep
<1>5. CASE OnDeactivate \/ Stopped \/ OnActivate
      BY <1>5
         DEF OnDeactivate, Stopped, PosesStopped, PoseStopped, OnActivate,
             server
<1>6. CASE UNCHANGED vars
      BY <1>6 DEF vars, server
<1> QED
    BY <1>2, <1>3, <1>4, <1>5, <1>6 DEF Next

(* Both navigators together implement the contract of an action server:    *)
(* every accepted goal stays open until it gets its one result, and only   *)
(* one whose cancellation was asked for is reported as canceled.           *)
THEOREM RefinesContract == Spec => KeepsContract
BY InitContract, NextContract, Invariant, PTL
   DEF Spec, KeepsContract, Contract!Spec
=============================================================================
