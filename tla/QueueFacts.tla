------------------------------ MODULE QueueFacts ------------------------------
(***************************************************************************)
(* What Append and Tail do to the set of jobs in a queue, and that they    *)
(* keep a queue free of repetitions.  Both job queues rest on these facts. *)
(***************************************************************************)
EXTENDS SequencesExt, TLAPS

\* Appending adds the new item and keeps the others (executor.submit, rpush).
LEMMA AppendHas ==
    ASSUME NEW S, NEW s \in Seq(S), NEW x \in S
    PROVE  /\ Append(s, x) \in Seq(S)
           /\ \A y : Contains(Append(s, x), y) <=> Contains(s, y) \/ y = x
<1> DEFINE t == Append(s, x)
<1>1. t \in Seq(S) /\ Len(t) = Len(s) + 1 /\ Len(s) \in Nat
  OBVIOUS
<1>2. \A i \in 1..Len(s) : t[i] = s[i]
  OBVIOUS
<1>3. t[Len(s) + 1] = x
  OBVIOUS
<1>4. ASSUME NEW y PROVE Contains(t, y) <=> Contains(s, y) \/ y = x
  <2>1. ASSUME Contains(t, y) PROVE Contains(s, y) \/ y = x
    <3>1. PICK i \in 1..Len(t) : t[i] = y
      BY <2>1 DEF Contains
    <3>2. CASE i = Len(s) + 1
      BY <3>1, <3>2, <1>3
    <3>3. CASE i \in 1..Len(s)
      BY <3>1, <3>3, <1>2 DEF Contains
    <3>4. QED BY <3>2, <3>3, <1>1
  <2>2. ASSUME Contains(s, y) PROVE Contains(t, y)
    <3>1. PICK i \in 1..Len(s) : s[i] = y
      BY <2>2 DEF Contains
    <3>2. i \in 1..Len(t) /\ t[i] = y
      BY <3>1, <1>1, <1>2
    <3>3. QED BY <3>2 DEF Contains
  <2>3. ASSUME y = x PROVE Contains(t, y)
    <3>1. Len(s) + 1 \in 1..Len(t)
      BY <1>1
    <3>2. QED BY <2>3, <3>1, <1>3 DEF Contains
  <2>4. QED BY <2>1, <2>2, <2>3
<1>5. QED BY <1>1, <1>4

\* Appending an item that is not in the queue repeats nothing.
LEMMA AppendNoRepeats ==
    ASSUME NEW S, NEW s \in Seq(S), NEW x \in S, IsInjective(s), ~Contains(s, x)
    PROVE  IsInjective(Append(s, x))
<1> DEFINE t == Append(s, x)
<1>1. Len(t) = Len(s) + 1 /\ Len(s) \in Nat
  OBVIOUS
<1>2. \A i \in 1..Len(s) : t[i] = s[i] /\ t[i] # x
  BY DEF Contains
<1>3. t[Len(s) + 1] = x
  OBVIOUS
<1>4. ASSUME NEW i \in 1..Len(t), NEW k \in 1..Len(t), t[i] = t[k] PROVE i = k
  <2>1. CASE i \in 1..Len(s) /\ k \in 1..Len(s)
    BY <2>1, <1>2, <1>4 DEF IsInjective
  <2>2. CASE i = Len(s) + 1 \/ k = Len(s) + 1
    BY <2>2, <1>1, <1>2, <1>3, <1>4
  <2>3. QED BY <2>1, <2>2, <1>1
<1>5. QED BY <1>4 DEF IsInjective

\* Taking the head of a queue without repetitions removes exactly that item
\* (a worker thread of the pool, BLPOP).
LEMMA TailHas ==
    ASSUME NEW S, NEW s \in Seq(S), s # << >>, IsInjective(s)
    PROVE  /\ Head(s) \in S /\ Contains(s, Head(s))
           /\ Tail(s) \in Seq(S)
           /\ IsInjective(Tail(s))
           /\ \A y : Contains(Tail(s), y) <=> Contains(s, y) /\ y # Head(s)
<1> DEFINE t == Tail(s)
<1>1. Len(s) \in Nat /\ Len(s) > 0 /\ t \in Seq(S) /\ Len(t) = Len(s) - 1
  OBVIOUS
<1>2. \A i \in 1..Len(t) : i + 1 \in 1..Len(s) /\ t[i] = s[i + 1]
  BY <1>1
<1>3. Head(s) = s[1] /\ 1 \in 1..Len(s) /\ s[1] \in S
  BY <1>1
<1>4. IsInjective(t)
  BY <1>1, <1>2 DEF IsInjective
<1>5. ASSUME NEW y PROVE Contains(t, y) <=> Contains(s, y) /\ y # Head(s)
  <2>1. ASSUME Contains(t, y) PROVE Contains(s, y) /\ y # Head(s)
    <3>1. PICK i \in 1..Len(t) : t[i] = y
      BY <2>1 DEF Contains
    <3>2. i + 1 \in 1..Len(s) /\ s[i + 1] = y /\ i + 1 # 1
      BY <3>1, <1>1, <1>2
    <3>3. QED BY <3>2, <1>3 DEF Contains, IsInjective
  <2>2. ASSUME Contains(s, y), y # Head(s) PROVE Contains(t, y)
    <3>1. PICK i \in 1..Len(s) : s[i] = y
      BY <2>2 DEF Contains
    <3>2. i # 1
      BY <3>1, <2>2, <1>3
    <3>3. i - 1 \in 1..Len(t) /\ (i - 1) + 1 = i
      BY <3>1, <3>2, <1>1
    <3>4. t[i - 1] = y
      BY <3>1, <3>3, <1>2
    <3>5. QED BY <3>3, <3>4 DEF Contains
  <2>3. QED BY <2>1, <2>2
<1>6. QED BY <1>1, <1>3, <1>4, <1>5 DEF Contains
===============================================================================
