----------------------------- MODULE QueueLemmas ------------------------------
(***************************************************************************)
(* What the proofs of the components need about queues. The models keep a  *)
(* Go channel, or a slice that is appended to and taken from at the front, *)
(* as a sequence. The properties that say that something is in one place   *)
(* only count positions; their inductive invariants say instead that a     *)
(* queue is Distinct and that the Contents of two queues do not meet.      *)
(***************************************************************************)
EXTENDS Naturals, Sequences, FiniteSets, SequenceTheorems, FiniteSetTheorems, TLAPS

Contents(s) == {s[i] : i \in DOMAIN s}
Positions(s, e) == {i \in DOMAIN s : s[i] = e}
Distinct(s) == \A i, j \in DOMAIN s : s[i] = s[j] => i = j

\* A set without two different elements has at most one.
LEMMA AtMostOne ==
    ASSUME NEW S, \A x, y \in S : x = y
    PROVE  /\ Cardinality(S) \in {0, 1}
           /\ S = {} <=> Cardinality(S) = 0
  <1>1. CASE S = {}
    BY <1>1, FS_EmptySet
  <1>2. CASE S # {}
    <2>1. PICK x \in S : TRUE
      BY <1>2
    <2>2. S = {x}
      BY <2>1
    <2> QED BY <2>2, FS_Singleton
  <1> QED BY <1>1, <1>2

\* In a queue without duplicates an element has one position, if it is there.
LEMMA CountInQueue ==
    ASSUME NEW s, NEW e, Distinct(s)
    PROVE  /\ Cardinality(Positions(s, e)) \in {0, 1}
           /\ e \notin Contents(s) => Cardinality(Positions(s, e)) = 0
  <1>1. \A x, y \in Positions(s, e) : x = y
    BY DEF Positions, Distinct
  <1>2. e \notin Contents(s) => Positions(s, e) = {}
    BY DEF Positions, Contents
  <1> QED BY <1>1, <1>2, AtMostOne

\* The empty queue.
LEMMA EmptyQueue == Contents(<<>>) = {} /\ Distinct(<<>>)
  BY DEF Contents, Distinct

\* What is in a queue of elements of T.
LEMMA ContentsType ==
    ASSUME NEW T, NEW s \in Seq(T)
    PROVE  Contents(s) \subseteq T /\ (Contents(s) = {} <=> s = <<>>)
  <1>1. DOMAIN s = 1..Len(s) /\ Len(s) \in Nat
    BY LenProperties
  <1>2. \A i \in DOMAIN s : s[i] \in T
    BY <1>1, ElementOfSeq
  <1>3. s # <<>> => 1 \in DOMAIN s
    BY <1>1, EmptySeq
  <1> QED BY <1>1, <1>2, <1>3, EmptyQueue DEF Contents

\* A send appends to the queue.
LEMMA AppendToQueue ==
    ASSUME NEW T, NEW s \in Seq(T), NEW e \in T
    PROVE  /\ Append(s, e) \in Seq(T)
           /\ Contents(Append(s, e)) = Contents(s) \union {e}
           /\ Distinct(s) /\ e \notin Contents(s) => Distinct(Append(s, e))
  <1> DEFINE q == Append(s, e)
             n == Len(s)
  <1>1. /\ q \in Seq(T)
        /\ n \in Nat /\ DOMAIN s = 1..n /\ DOMAIN q = 1..(n + 1)
        /\ \A i \in 1..n : q[i] = s[i]
        /\ q[n + 1] = e
    BY AppendProperties, LenProperties
  <1> HIDE DEF q, n
  <1>2. \A i \in 1..(n + 1) : i \in 1..n \/ i = n + 1
    BY <1>1
  <1>3. \A i \in 1..n : i \in 1..(n + 1)
    BY <1>1
  <1>4. n + 1 \in 1..(n + 1)
    BY <1>1
  <1>5. Contents(q) = Contents(s) \union {e}
    BY <1>1, <1>2, <1>3, <1>4 DEF Contents
  <1>6. ASSUME Distinct(s), e \notin Contents(s) PROVE Distinct(q)
    BY <1>1, <1>2, <1>6 DEF Distinct, Contents
  <1> QED BY <1>1, <1>5, <1>6 DEF q

\* A receive takes the head of the queue.
LEMMA TakeFromQueue ==
    ASSUME NEW T, NEW s \in Seq(T), s # <<>>
    PROVE  /\ Head(s) \in T /\ Tail(s) \in Seq(T)
           /\ Contents(s) = Contents(Tail(s)) \union {Head(s)}
           /\ Distinct(s) => Distinct(Tail(s)) /\ Head(s) \notin Contents(Tail(s))
  <1> DEFINE q == Tail(s)
             n == Len(s)
  <1>1. /\ Head(s) \in T /\ q \in Seq(T)
        /\ Head(s) = s[1]
        /\ Len(q) = n - 1
        /\ \A i \in 1..Len(q) : q[i] = s[i + 1]
    BY HeadTailProperties
  <1>2. n \in Nat \ {0} /\ DOMAIN s = 1..n
    BY LenProperties, EmptySeq
  <1>3. DOMAIN q = 1..(n - 1)
    BY <1>1, LenProperties
  <1> HIDE DEF q, n
  <1>4. \A i \in 1..n : i = 1 \/ (i - 1 \in 1..(n - 1) /\ i = (i - 1) + 1)
    BY <1>2
  <1>5. \A i \in 1..(n - 1) : i + 1 \in 1..n /\ i + 1 # 1
    BY <1>2
  <1>6. 1 \in 1..n
    BY <1>2
  <1>7. \A x : x \in Contents(s) => x \in Contents(q) \union {Head(s)}
    <2> SUFFICES ASSUME NEW i \in 1..n PROVE s[i] \in Contents(q) \union {Head(s)}
      BY <1>2 DEF Contents
    <2>1. CASE i = 1
      BY <2>1, <1>1
    <2>2. CASE i # 1
      <3>1. i - 1 \in 1..(n - 1) /\ (i - 1) + 1 = i
        BY <1>4, <2>2
      <3>2. q[i - 1] = s[i]
        BY <3>1, <1>1
      <3> QED BY <3>1, <3>2, <1>3 DEF Contents
    <2> QED BY <2>1, <2>2
  <1>8. \A x : x \in Contents(q) \union {Head(s)} => x \in Contents(s)
    BY <1>1, <1>2, <1>3, <1>5, <1>6 DEF Contents
  <1>9. ASSUME Distinct(s) PROVE Distinct(q) /\ Head(s) \notin Contents(q)
    <2>1. Head(s) \notin Contents(q)
      BY <1>1, <1>2, <1>3, <1>5, <1>6, <1>9 DEF Contents, Distinct
    <2>2. ASSUME NEW i \in 1..(n - 1), NEW j \in 1..(n - 1), q[i] = q[j] PROVE i = j
      <3>1. s[i + 1] = s[j + 1] /\ i + 1 \in 1..n /\ j + 1 \in 1..n
        BY <1>1, <1>3, <1>5, <2>2
      <3>2. i + 1 = j + 1
        BY <1>2, <1>9, <3>1 DEF Distinct
      <3> QED BY <3>2
    <2> QED BY <1>3, <2>1, <2>2 DEF Distinct
  <1> QED BY <1>1, <1>7, <1>8, <1>9 DEF q

\* What is taken from the front of one queue and put at the end of another stays in
\* its place in the two together.
LEMMA HandOver ==
    ASSUME NEW T, NEW s \in Seq(T), NEW w \in Seq(T), w # <<>>
    PROVE  Append(s, Head(w)) \o Tail(w) = s \o w
  <1> DEFINE p == Append(s, Head(w))
             q == Tail(w)
  <1>1. Head(w) \in T /\ q \in Seq(T) /\ Len(q) = Len(w) - 1 /\ Head(w) = w[1]
        /\ \A i \in 1..Len(q) : q[i] = w[i + 1]
    BY HeadTailProperties
  <1>2. p \in Seq(T) /\ Len(p) = Len(s) + 1 /\ p[Len(s) + 1] = Head(w)
        /\ \A i \in 1..Len(s) : p[i] = s[i]
    BY <1>1, AppendProperties
  <1>3. Len(s) \in Nat /\ Len(w) \in Nat \ {0} /\ Len(q) \in Nat
    BY <1>1, LenProperties, EmptySeq
  <1> HIDE DEF p, q
  <1>4. /\ p \o q \in Seq(T) /\ Len(p \o q) = Len(p) + Len(q)
        /\ \A i \in 1..(Len(p) + Len(q)) : (p \o q)[i] = IF i <= Len(p) THEN p[i] ELSE q[i - Len(p)]
    BY <1>1, <1>2, ConcatProperties
  <1>5. /\ s \o w \in Seq(T) /\ Len(s \o w) = Len(s) + Len(w)
        /\ \A i \in 1..(Len(s) + Len(w)) : (s \o w)[i] = IF i <= Len(s) THEN s[i] ELSE w[i - Len(s)]
    BY ConcatProperties
  <1>6. Len(p \o q) = Len(s \o w)
    BY <1>1, <1>2, <1>3, <1>4, <1>5
  <1>7. ASSUME NEW i \in 1..Len(p \o q) PROVE (p \o q)[i] = (s \o w)[i]
    <2>0. i \in 1..(Len(s) + Len(w))
      BY <1>1, <1>2, <1>3, <1>4
    <2>1. CASE i <= Len(s)
      BY <1>1, <1>2, <1>3, <1>4, <1>5, <2>1
    <2>2. CASE i = Len(s) + 1
      BY <1>1, <1>2, <1>3, <1>4, <1>5, <2>2
    <2>3. CASE i > Len(s) + 1
      <3>1. (p \o q)[i] = q[i - Len(p)] /\ (s \o w)[i] = w[i - Len(s)]
        BY <1>1, <1>2, <1>3, <1>4, <1>5, <2>3
      <3>2. i - Len(p) \in 1..Len(q) /\ i - Len(p) + 1 = i - Len(s)
        BY <1>1, <1>2, <1>3, <1>4, <2>3
      <3> QED BY <1>1, <3>1, <3>2
    <2> QED BY <1>3, <2>0, <2>1, <2>2, <2>3
  <1>8. p \o q = s \o w
    BY <1>4, <1>5, <1>6, <1>7, SeqEqual
  <1> QED BY <1>8 DEF p, q

\* An element put at the end of the second of two queues is at the end of both.
LEMMA AppendToSecond ==
    ASSUME NEW T, NEW s \in Seq(T), NEW w \in Seq(T), NEW e \in T
    PROVE  s \o Append(w, e) = Append(s \o w, e)
  <1>1. /\ s \o w \in Seq(T) /\ Len(s \o w) = Len(s) + Len(w)
        /\ \A i \in 1..(Len(s) + Len(w)) : (s \o w)[i] = IF i <= Len(s) THEN s[i] ELSE w[i - Len(s)]
    BY ConcatProperties
  <1>2. Len(s) \in Nat /\ Len(w) \in Nat
    BY LenProperties
  <1> DEFINE p == Append(w, e)
             q == Append(s \o w, e)
  <1>3. p \in Seq(T) /\ Len(p) = Len(w) + 1 /\ p[Len(w) + 1] = e
        /\ \A i \in 1..Len(w) : p[i] = w[i]
    BY AppendProperties
  <1>4. q \in Seq(T) /\ Len(q) = Len(s) + Len(w) + 1 /\ q[Len(s) + Len(w) + 1] = e
        /\ \A i \in 1..(Len(s) + Len(w)) : q[i] = (s \o w)[i]
    BY <1>1, AppendProperties
  <1> HIDE DEF p, q
  <1>5. /\ s \o p \in Seq(T) /\ Len(s \o p) = Len(s) + Len(p)
        /\ \A i \in 1..(Len(s) + Len(p)) : (s \o p)[i] = IF i <= Len(s) THEN s[i] ELSE p[i - Len(s)]
    BY <1>3, ConcatProperties
  <1>6. Len(s \o p) = Len(q)
    BY <1>2, <1>3, <1>4, <1>5
  <1>7. ASSUME NEW i \in 1..Len(s \o p) PROVE (s \o p)[i] = q[i]
    <2>0. i \in 1..(Len(s) + Len(w) + 1)
      BY <1>2, <1>3, <1>5
    <2>1. CASE i <= Len(s)
      BY <1>1, <1>2, <1>3, <1>4, <1>5, <2>1
    <2>2. CASE i > Len(s) /\ i <= Len(s) + Len(w)
      <3>1. i - Len(s) \in 1..Len(w) /\ i \in 1..(Len(s) + Len(w)) /\ i \in 1..(Len(s) + Len(p))
        BY <1>2, <1>3, <2>2
      <3>2. (s \o p)[i] = p[i - Len(s)] /\ (s \o w)[i] = w[i - Len(s)]
        BY <1>1, <1>2, <1>5, <2>2, <3>1
      <3> QED BY <1>3, <1>4, <3>1, <3>2
    <2>3. CASE i = Len(s) + Len(w) + 1
      <3>1. i - Len(s) = Len(w) + 1 /\ ~(i <= Len(s))
        BY <1>2, <2>3
      <3> QED BY <1>3, <1>4, <1>5, <2>3, <3>1
    <2> QED BY <1>2, <2>0, <2>1, <2>2, <2>3
  <1>8. s \o p = q
    BY <1>4, <1>5, <1>6, <1>7, SeqEqual
  <1> QED BY <1>8 DEF p, q

=============================================================================
