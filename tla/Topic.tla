------------------------------- MODULE Topic --------------------------------
(***************************************************************************)
(* A ROS 2 topic as one of its subscriptions sees it: a history of the     *)
(* last `depth` messages nobody has read yet.  Publishing to a full        *)
(* history drops the oldest message; one spin_some of the executor a       *)
(* behaviour-tree node owns hands at most one message to the callback,     *)
(* which only stores it.                                                   *)
(***************************************************************************)
EXTENDS Naturals, Sequences

(* Keep-last history: the publisher never blocks.                          *)
Publish(queue, message, depth) ==
  Append(IF Len(queue) < depth THEN queue ELSE Tail(queue), message)

(* What the node has stored after one spin_some: the next message, or what *)
(* it already had when there is none.                                      *)
Heard(queue, stored) == IF queue = <<>> THEN stored ELSE Head(queue)

(* What is left to read after one spin_some.                               *)
Spun(queue) == IF queue = <<>> THEN queue ELSE Tail(queue)

(* The messages of a history, in no order.                                 *)
Contents(queue) == {queue[i] : i \in 1 .. Len(queue)}

(* The vocabulary of invariants about counters sent over topics: every     *)
(* message of a history lies in low .. high; later messages are not lower. *)
Within(queue, low, high) ==
  \A i \in 1 .. Len(queue) : low <= queue[i] /\ queue[i] <= high

Rising(queue) ==
  \A i, j \in 1 .. Len(queue) : i <= j => queue[i] <= queue[j]
=============================================================================
