--------------------------- MODULE TopicTheorems ----------------------------
(* What publishing and spinning do to a history of counters.               *)
EXTENDS Topic, TLAPS

(* A history stays a sequence of messages when one more is published.      *)
LEMMA PublishKeepsType ==
  ASSUME NEW S, NEW q \in Seq(S), NEW v \in S, NEW d \in Nat \ {0}
  PROVE  Publish(q, v, d) \in Seq(S)
<1>1. CASE Len(q) < d
  BY <1>1 DEF Publish
<1>2. CASE ~ (Len(q) < d)
  <2>1. q # <<>>
    BY <1>2
  <2>2. Tail(q) \in Seq(S)
    BY <2>1
  <2>3. QED
    BY <1>2, <2>2 DEF Publish
<1>3. QED
  BY <1>1, <1>2

LEMMA PublishType ==
  ASSUME NEW q \in Seq(Nat), NEW v \in Nat, NEW d \in Nat \ {0}
  PROVE  Publish(q, v, d) \in Seq(Nat)
BY PublishKeepsType

(* One spin leaves the node a message, and messages to read.               *)
LEMMA SpinKeepsType ==
  ASSUME NEW S, NEW q \in Seq(S), NEW stored \in S
  PROVE  Heard(q, stored) \in S /\ Spun(q) \in Seq(S)
<1>1. CASE q = <<>>
  BY <1>1 DEF Heard, Spun
<1>2. CASE q # <<>>
  <2>1. Head(q) \in S /\ Tail(q) \in Seq(S)
    BY <1>2
  <2>2. QED
    BY <1>2, <2>1 DEF Heard, Spun
<1>3. QED
  BY <1>1, <1>2

(* A message published is the new one or was in the history before it, at  *)
(* the same place or one later.                                            *)
LEMMA PublishElement ==
  ASSUME NEW q \in Seq(Nat), NEW v \in Nat, NEW d \in Nat \ {0},
         NEW i \in 1 .. Len(Publish(q, v, d))
  PROVE  \/ Publish(q, v, d)[i] = v /\ i = Len(Publish(q, v, d))
         \/ /\ Len(q) < d
            /\ i \in 1 .. Len(q)
            /\ Publish(q, v, d)[i] = q[i]
         \/ /\ ~ (Len(q) < d)
            /\ i + 1 \in 1 .. Len(q)
            /\ Publish(q, v, d)[i] = q[i + 1]
<1>1. CASE Len(q) < d
  BY <1>1 DEF Publish
<1>2. CASE ~ (Len(q) < d)
  <2>1. q # <<>>
    BY <1>2
  <2>2. /\ Tail(q) \in Seq(Nat)
        /\ Len(Tail(q)) = Len(q) - 1
        /\ \A j \in 1 .. Len(q) - 1 : Tail(q)[j] = q[j + 1]
    BY <2>1
  <2>3. Publish(q, v, d) = Append(Tail(q), v)
    BY <1>2 DEF Publish
  <2>4. /\ Len(Append(Tail(q), v)) = Len(q)
        /\ Append(Tail(q), v)[Len(q)] = v
        /\ \A j \in 1 .. Len(q) - 1 : Append(Tail(q), v)[j] = Tail(q)[j]
    BY <2>2
  <2>5. i \in 1 .. Len(q)
    BY <2>3, <2>4
  <2>6. CASE i = Len(q)
    BY <2>3, <2>4, <2>6
  <2>7. CASE i \in 1 .. Len(q) - 1
    BY <1>2, <2>2, <2>3, <2>4, <2>7
  <2>8. QED
    BY <2>5, <2>6, <2>7
<1>3. QED
  BY <1>1, <1>2

(* Publishing a number of a range keeps the history in the range.          *)
LEMMA PublishWithin ==
  ASSUME NEW q \in Seq(Nat), NEW v \in Nat, NEW d \in Nat \ {0},
         NEW low \in Nat, NEW high \in Nat,
         Within(q, low, high), low <= v, v <= high
  PROVE  Within(Publish(q, v, d), low, high)
<1>1. SUFFICES ASSUME NEW i \in 1 .. Len(Publish(q, v, d))
               PROVE  /\ low <= Publish(q, v, d)[i]
                      /\ Publish(q, v, d)[i] <= high
  BY DEF Within
<1>2. QED
  BY <1>1, PublishElement DEF Within

(* Publishing a number no smaller than any before keeps the history rising.*)
LEMMA PublishRising ==
  ASSUME NEW q \in Seq(Nat), NEW v \in Nat, NEW d \in Nat \ {0},
         NEW low \in Nat, Rising(q), Within(q, low, v)
  PROVE  Rising(Publish(q, v, d))
<1> DEFINE p == Publish(q, v, d)
<1>1. p \in Seq(Nat)
  BY PublishType
<1>2. SUFFICES ASSUME NEW i \in 1 .. Len(p), NEW j \in 1 .. Len(p), i <= j
               PROVE  p[i] <= p[j]
  BY DEF Rising
<1>3. p[i] <= v
  BY PublishElement DEF Within
<1>4. CASE j = Len(p)
  <2>1. p[Len(p)] = v
    <3>1. \E t \in Seq(Nat) : p = Append(t, v)
      <4>1. CASE Len(q) < d
        BY <4>1 DEF Publish
      <4>2. CASE ~ (Len(q) < d)
        <5>1. Tail(q) \in Seq(Nat)
          BY <4>2
        <5>2. QED
          BY <4>2, <5>1 DEF Publish
      <4>3. QED
        BY <4>1, <4>2
    <3>2. PICK t \in Seq(Nat) : p = Append(t, v)
      BY <3>1
    <3>3. Append(t, v)[Len(Append(t, v))] = v
      OBVIOUS
    <3>4. QED
      BY <3>2, <3>3
  <2>2. QED
    BY <1>3, <1>4, <2>1
<1>5. CASE j # Len(p)
  <2>1. i # Len(p)
    BY <1>1, <1>2, <1>5
  <2>2. CASE Len(q) < d
    <3>1. /\ i \in 1 .. Len(q) /\ p[i] = q[i]
          /\ j \in 1 .. Len(q) /\ p[j] = q[j]
      BY <1>5, <2>1, <2>2, PublishElement
    <3>2. QED
      BY <1>2, <3>1 DEF Rising
  <2>3. CASE ~ (Len(q) < d)
    <3>1. /\ i + 1 \in 1 .. Len(q) /\ p[i] = q[i + 1]
          /\ j + 1 \in 1 .. Len(q) /\ p[j] = q[j + 1]
      BY <1>5, <2>1, <2>3, PublishElement
    <3>2. QED
      BY <1>2, <3>1 DEF Rising
  <2>4. QED
    BY <2>2, <2>3
<1>6. QED
  BY <1>4, <1>5

(* One spin of a rising history whose messages lie between what the node   *)
(* has stored and high: the node's copy rises, and so it goes on.          *)
LEMMA SpinRises ==
  ASSUME NEW q \in Seq(Nat), NEW stored \in Nat, NEW high \in Nat,
         stored <= high, Within(q, stored, high), Rising(q)
  PROVE  /\ Heard(q, stored) \in Nat
         /\ stored <= Heard(q, stored)
         /\ Heard(q, stored) <= high
         /\ Spun(q) \in Seq(Nat)
         /\ Within(Spun(q), Heard(q, stored), high)
         /\ Rising(Spun(q))
<1>1. CASE q = <<>>
  BY <1>1 DEF Heard, Spun, Within, Rising
<1>2. CASE q # <<>>
  <2>1. /\ Heard(q, stored) = q[1]
        /\ Spun(q) = Tail(q)
        /\ 1 \in 1 .. Len(q)
        /\ q[1] \in Nat
    BY <1>2 DEF Heard, Spun
  <2>2. /\ Tail(q) \in Seq(Nat)
        /\ Len(Tail(q)) = Len(q) - 1
        /\ \A j \in 1 .. Len(q) - 1 : Tail(q)[j] = q[j + 1] /\ j + 1 \in 1 .. Len(q)
    BY <1>2
  <2>3. /\ stored <= q[1]
        /\ q[1] <= high
    BY <2>1 DEF Within
  <2>4. Within(Tail(q), q[1], high)
    BY <2>1, <2>2 DEF Within, Rising
  <2>5. Rising(Tail(q))
    BY <2>2 DEF Rising
  <2>6. QED
    BY <2>1, <2>2, <2>3, <2>4, <2>5
<1>3. QED
  BY <1>1, <1>2

(* One spin of a history whose messages lie, like what the node has        *)
(* stored, in low .. high.                                                 *)
LEMMA SpinWithin ==
  ASSUME NEW q \in Seq(Nat), NEW stored \in Nat,
         NEW low \in Nat, NEW high \in Nat,
         low <= stored, stored <= high, Within(q, low, high)
  PROVE  /\ low <= Heard(q, stored)
         /\ Heard(q, stored) <= high
         /\ Within(Spun(q), low, high)
<1>1. CASE q = <<>>
  BY <1>1 DEF Heard, Spun
<1>2. CASE q # <<>>
  <2>1. /\ Heard(q, stored) = q[1]
        /\ Spun(q) = Tail(q)
        /\ 1 \in 1 .. Len(q)
        /\ \A j \in 1 .. Len(Tail(q)) :
             Tail(q)[j] = q[j + 1] /\ j + 1 \in 1 .. Len(q)
    BY <1>2 DEF Heard, Spun
  <2>2. QED
    BY <2>1 DEF Within
<1>3. QED
  BY <1>1, <1>2

(* The oldest message leaves; the range of the others is kept, and may be  *)
(* widened upwards.                                                        *)
LEMMA TailWithin ==
  ASSUME NEW q \in Seq(Nat), q # <<>>,
         NEW low \in Nat, NEW high \in Nat, Within(q, low, high)
  PROVE  /\ Tail(q) \in Seq(Nat)
         /\ Within(Tail(q), low, high)
         /\ Head(q) \in Nat
         /\ low <= Head(q)
         /\ Head(q) <= high
<1>1. /\ Tail(q) \in Seq(Nat)
      /\ Len(Tail(q)) = Len(q) - 1
      /\ \A j \in 1 .. Len(q) - 1 : Tail(q)[j] = q[j + 1] /\ j + 1 \in 1 .. Len(q)
      /\ Head(q) = q[1] /\ 1 \in 1 .. Len(q) /\ q[1] \in Nat
  OBVIOUS
<1>2. QED
  BY <1>1 DEF Within

LEMMA WithinWider ==
  ASSUME NEW q \in Seq(Nat), NEW low \in Nat, NEW high \in Nat,
         NEW higher \in Nat, Within(q, low, high), high <= higher
  PROVE  Within(q, low, higher)
BY DEF Within

(* As a set, a history gains only the message published, and certainly it. *)
LEMMA PublishContents ==
  ASSUME NEW q \in Seq(Nat), NEW v \in Nat, NEW d \in Nat \ {0}
  PROVE  /\ v \in Contents(Publish(q, v, d))
         /\ Contents(Publish(q, v, d)) \subseteq Contents(q) \cup {v}
<1> DEFINE p == Publish(q, v, d)
<1>1. /\ p \in Seq(Nat)
      /\ Len(p) \in 1 .. Len(p)
      /\ p[Len(p)] = v
  <2>1. PICK t \in Seq(Nat) : p = Append(t, v)
    <3>1. CASE Len(q) < d
      BY <3>1 DEF Publish
    <3>2. CASE ~ (Len(q) < d)
      <4>1. Tail(q) \in Seq(Nat)
        BY <3>2
      <4>2. QED
        BY <3>2, <4>1 DEF Publish
    <3>3. QED
      BY <3>1, <3>2
  <2>2. /\ Append(t, v) \in Seq(Nat)
        /\ Len(Append(t, v)) \in 1 .. Len(Append(t, v))
        /\ Append(t, v)[Len(Append(t, v))] = v
    OBVIOUS
  <2>3. QED
    BY <2>1, <2>2
<1>2. v \in Contents(p)
  BY <1>1 DEF Contents
<1>3. ASSUME NEW i \in 1 .. Len(p)
      PROVE  p[i] \in Contents(q) \cup {v}
  BY <1>3, PublishElement DEF Contents
<1>4. QED
  BY <1>2, <1>3 DEF Contents

(* Taking the oldest message takes a message that was there, and adds none.*)
LEMMA TailContents ==
  ASSUME NEW q \in Seq(Nat), q # <<>>
  PROVE  /\ Head(q) \in Contents(q)
         /\ Contents(Tail(q)) \subseteq Contents(q)
<1>1. /\ Head(q) = q[1] /\ 1 \in 1 .. Len(q)
      /\ \A j \in 1 .. Len(Tail(q)) :
           Tail(q)[j] = q[j + 1] /\ j + 1 \in 1 .. Len(q)
  OBVIOUS
<1>2. QED
  BY <1>1 DEF Contents
=============================================================================
