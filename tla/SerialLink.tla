------------------------------ MODULE SerialLink ------------------------------
(***************************************************************************)
(* The receiving side of robot_serial: the read loop that hands what the   *)
(* serial port has to the Listener, the Listener's search for frames in    *)
(* its buffer, and the watchdog that ends the process when no frame comes. *)
(* The read loop runs on a thread of its own, the watchdog on the node's   *)
(* timer; they share the counter dog_cnt_ without any synchronisation.     *)
(*                                                                         *)
(* A byte is <<frame, k, size>>: byte k of the size bytes of a frame.  The *)
(* checksums tell a head or a frame that arrived whole from anything else. *)
(***************************************************************************)
EXTENDS Integers, Sequences, FiniteSets, FiniteSetsExt

CONSTANTS
  HeadSize,      (* sizeof(Head)                                           *)
  TailSize,      (* sizeof(Tail)                                           *)
  DataSizes,     (* the sizes of the packages the micro-controller sends   *)
  MaxReadOnce,   (* MAX_READ_ONCE_CHAR                                     *)
  DogThreshold,  (* parameter dog_threshold                                *)
  MaxFrames,     (* bound on the frames sent                               *)
  MaxFaults      (* bound on the bursts of bytes lost or bytes damaged     *)

ASSUME SizesAssumption ==
  /\ HeadSize \in Nat \ {0} /\ TailSize \in Nat \ {0}
  /\ DataSizes \subseteq Nat \ {0} /\ DataSizes # {} /\ IsFiniteSet(DataSizes)
  /\ MaxReadOnce \in Nat \ {0} /\ DogThreshold \in Nat
ASSUME LinkBoundsAssumption == MaxFrames \in Nat /\ MaxFaults \in Nat

VARIABLES
  line,       (* bytes on their way                                        *)
  rxBuffer,   (* Listener: bytes read and not erased                       *)
  delivered,  (* the frames given to a callback, in order                  *)
  dogCnt,     (* dog_cnt_                                                  *)
  loaded,     (* the timer's copy of dog_cnt_ while it counts; else -1     *)
  down,       (* the watchdog ended the process                            *)
  sent,       (* history: frames sent                                      *)
  faults,     (* history: bursts lost and bytes damaged                    *)
  hurt,       (* history: the frames hit by them or by a restart           *)
  silence     (* history: timer calls since a frame was delivered, counted *)
              (* to one above the threshold                                *)

reader   == <<rxBuffer, delivered>>
timer    == <<loaded, down>>
history  == <<sent, faults, hurt>>
linkVars == <<line, reader, dogCnt, timer, history, silence>>

Overhead == HeadSize + TailSize
Noise    == <<0, 0, 0>>
Frame(f, size) == [k \in 1..size |-> <<f, k, size>>]

LinkInit ==
  /\ line = <<>>
  /\ rxBuffer = <<>>
  /\ delivered = <<>>
  /\ dogCnt = 0
  /\ loaded = -1
  /\ down = FALSE
  /\ sent = 0
  /\ faults = 0
  /\ hurt = {}
  /\ silence = 0

-----------------------------------------------------------------------------
(* Listener::scan as a function of the buffer.                             *)

(* n bytes from position p are the first n of one frame.                   *)
Whole(buffer, p, n) ==
  /\ p + n - 1 <= Len(buffer)
  /\ \A k \in 1..n : buffer[p + k - 1] = <<buffer[p][1], k, buffer[p][3]>>

(* The positions tried: the last one a frame without data could start at   *)
(* is left out.                                                            *)
Tried(buffer) == 1..(Len(buffer) - Overhead)

GoodHeads(buffer) == {p \in Tried(buffer) : Whole(buffer, p, HeadSize)}
Unfinished(buffer) ==
  {p \in GoodHeads(buffer) : Len(buffer) - p + 1 < buffer[p][3]}
Found(buffer) ==
  {p \in GoodHeads(buffer) \ Unfinished(buffer) : Whole(buffer, p, buffer[p][3])}

(* A position is discarded when it starts no frame, unless an unfinished   *)
(* frame was met before it.                                                *)
Discarded(buffer) ==
  {p \in Tried(buffer) \ (Found(buffer) \cup Unfinished(buffer)) :
     \A q \in Unfinished(buffer) : p < q}

(* Mutants of EraseSize: nothing is erased before a frame is found; a      *)
(* found frame erases only what precedes it; it erases the whole buffer    *)
(* whatever follows.                                                       *)
EraseOnlyFound(buffer) == IF Found(buffer) = {} THEN 0 ELSE Len(buffer)

EraseUpToFound(buffer) ==
  LET deciding == Found(buffer) \cup Discarded(buffer) IN
    IF deciding = {} THEN 0
    ELSE LET last == Max(deciding) IN
      IF last \in Found(buffer) THEN last - 1 ELSE last

EraseAfterFound(buffer) ==
  IF Found(buffer) # {} THEN Len(buffer)
  ELSE IF Discarded(buffer) = {} THEN 0 ELSE Max(Discarded(buffer))

(* eraseSize is set anew at every found and every discarded position, and  *)
(* the last one decides: a found frame erases the whole buffer.            *)
EraseSize(buffer) ==
  LET deciding == Found(buffer) \cup Discarded(buffer) IN
    IF deciding = {} THEN 0
    ELSE LET last == Max(deciding) IN
      IF last \in Found(buffer) THEN Len(buffer) ELSE last

(* The frames found, in the order their callbacks are called.              *)
Callbacks(buffer) ==
  LET number == Cardinality(Found(buffer))
      found  == CHOOSE s \in [1..number -> Found(buffer)] :
                  \A i, j \in 1..number : i < j => s[i] < s[j]
  IN  [i \in 1..number |-> buffer[found[i]][1]]

(* One turn of the read loop: at most MaxReadOnce bytes are read, the      *)
(* buffer is scanned, and every callback sets the watchdog back.           *)
ReadLoop(n) ==
  /\ ~ down
  /\ line' = SubSeq(line, n + 1, Len(line))
  /\ LET buffer == rxBuffer \o SubSeq(line, 1, n) IN
       /\ rxBuffer' = SubSeq(buffer, EraseSize(buffer) + 1, Len(buffer))
       /\ delivered' = delivered \o Callbacks(buffer)
  /\ IF delivered' # delivered THEN dogCnt' = 0 /\ silence' = 0
                               ELSE UNCHANGED <<dogCnt, silence>>
  /\ UNCHANGED <<timer, history>>

-----------------------------------------------------------------------------
(* timer_callback.  dog_cnt_++ is not atomic: the read thread's store can  *)
(* fall between its load and its store.                                    *)
TimerLoads ==
  /\ ~ down
  /\ loaded = -1
  /\ loaded' = dogCnt
  /\ silence' = IF silence > DogThreshold THEN silence ELSE silence + 1
  /\ UNCHANGED <<line, reader, dogCnt, down, history>>

(* Mutant of TimerStores: the call does not count.                         *)
TimerStoresUncounted ==
  /\ ~ down
  /\ loaded # -1
  /\ loaded' = -1
  /\ dogCnt' = loaded
  /\ down' = (loaded > DogThreshold)
  /\ UNCHANGED <<line, reader, history, silence>>

(* The counter is read again for the comparison; throw without an          *)
(* exception to rethrow terminates the process.                            *)
TimerStores ==
  /\ ~ down
  /\ loaded # -1
  /\ loaded' = -1
  /\ dogCnt' = loaded + 1
  /\ down' = (loaded + 1 > DogThreshold)
  /\ UNCHANGED <<line, reader, history, silence>>

-----------------------------------------------------------------------------
(* The launch file starts the process again (respawn); the bytes the old   *)
(* one had read are gone with it.                                          *)
Restart ==
  /\ down
  /\ down' = FALSE
  /\ rxBuffer' = <<>>
  /\ hurt' = hurt \cup {rxBuffer[i][1] : i \in DOMAIN rxBuffer}
  /\ dogCnt' = 0
  /\ silence' = 0
  /\ UNCHANGED <<line, delivered, loaded, sent, faults>>

(* The micro-controller and the line.                                      *)
SendFrame(data) ==
  /\ sent < MaxFrames
  /\ sent' = sent + 1
  /\ line' = line \o Frame(sent + 1, data + Overhead)
  /\ UNCHANGED <<reader, dogCnt, timer, faults, hurt, silence>>

Harm(i, j) ==
  /\ faults < MaxFaults
  /\ faults' = faults + 1
  /\ hurt' = hurt \cup {line[k][1] : k \in i..j}
  /\ UNCHANGED <<reader, dogCnt, timer, sent, silence>>

LoseBytes(i, j) ==
  /\ Harm(i, j)
  /\ line' = SubSeq(line, 1, i - 1) \o SubSeq(line, j + 1, Len(line))

DamageByte(i) ==
  /\ Harm(i, i)
  /\ line' = [line EXCEPT ![i] = Noise]

LinkNext ==
  \/ \E n \in 1..MaxReadOnce : n <= Len(line) /\ ReadLoop(n)
  \/ TimerLoads
  \/ TimerStores
  \/ \E data \in DataSizes : SendFrame(data)
  \/ \E i, j \in DOMAIN line : i <= j /\ LoseBytes(i, j)
  \/ \E i \in DOMAIN line : DamageByte(i)
  \/ Restart

LinkSpec == LinkInit /\ [][LinkNext]_linkVars

(* The timer is scheduled and the process is respawned.                    *)
LinkFairSpec ==
  LinkSpec /\ WF_linkVars(TimerLoads) /\ WF_linkVars(TimerStores) /\ WF_linkVars(Restart)

-----------------------------------------------------------------------------
LargestFrame == Max(DataSizes) + Overhead
Bytes == {Noise} \cup UNION {{<<f, k, size>> : f \in 1..MaxFrames, k \in 1..size} :
                               size \in {data + Overhead : data \in DataSizes}}

(* Every variable keeps its type, and what the scan leaves in the buffer,  *)
(* which push() does not limit, is less than one frame, also when bytes    *)
(* are damaged.                                                            *)
LinkTypeOK ==
  /\ line \in Seq(Bytes) /\ rxBuffer \in Seq(Bytes)
  /\ Len(rxBuffer) < LargestFrame
  /\ delivered \in Seq(1..MaxFrames)
  /\ dogCnt \in 0..(DogThreshold + 1)
  /\ loaded \in -1..DogThreshold
  /\ down \in BOOLEAN
  /\ sent \in 0..MaxFrames /\ faults \in 0..MaxFaults
  /\ hurt \subseteq 0..MaxFrames
  /\ silence \in 0..(DogThreshold + 1)

(* No frame is handed on twice and none overtakes another, however the     *)
(* bytes are cut into reads and whatever was damaged before.               *)
InOrderOnce == \A i \in 1..(Len(delivered) - 1) : delivered[i] < delivered[i + 1]

(* The frames whose bytes were all read although none was hurt, and whose  *)
(* callback was not called.                                                *)
Missing == {f \in 1..sent :
              /\ f \notin hurt
              /\ \A i \in DOMAIN line : line[i][1] # f
              /\ \A i \in DOMAIN delivered : delivered[i] # f}

(* A fault costs at most one frame besides the one it hits, and nothing is *)
(* lost without one.                                                       *)
LossesBounded == Cardinality(Missing) <= faults

(* The process ends itself only after a long silence: the threshold's      *)
(* worth of timer calls without a frame.                                   *)
EndsOnlyInSilence == down => silence > DogThreshold

(* When nothing comes any more the watchdog ends the process, again and    *)
(* again until the link is back.                                           *)
SilenceIsNoticed == []<>down
=============================================================================
