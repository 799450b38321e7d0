--------------------------- MODULE RateLimiterProofs ---------------------------
(***************************************************************************)
(* Proofs about RateLimiter for any limit, window, clients and faults.     *)
(***************************************************************************)
EXTENDS RateLimiter, FiniteSetTheorems, SequenceTheorems, TLAPS

-------------------------------------------------------------------------------
(* The inductive invariant: a deque is the end of the history, and what it *)
(* no longer holds is outside of the window.                               *)

\* Deque h and history l of one key at time t.
Shape(h, l) == /\ h \in Seq(Nat) /\ l \in Seq(Nat)
               /\ Len(h) <= MaxRequests /\ Len(h) <= Len(l)
Suffix(h, l) == \A i \in 1..Len(h) : h[i] = l[Len(l) - Len(h) + i]
Gone(h, l, t) == \A i \in 1..(Len(l) - Len(h)) : l[i] < t - Window
Sorted(l) == \A i, j \in 1..Len(l) : i <= j => l[i] <= l[j]
Past(l, t) == \A i \in 1..Len(l) : l[i] <= t
Spaced(l) == \A i \in 1..Len(l) :
                 i + MaxRequests <= Len(l) => l[i + MaxRequests] - l[i] > Window

WindowInv(h, l, t) == /\ Shape(h, l) /\ Suffix(h, l) /\ Gone(h, l, t)
                      /\ Sorted(l) /\ Past(l, t) /\ Spaced(l)

Typed ==
    /\ stage \in [Requests -> {"new", "exempt", "inside", "responding", "refusing",
                               "rejected", "answered", "raised", "died", "died refused"}]
    /\ audit \in [Requests -> Seq({"rate_limit_exceeded", "api_access"})]
    /\ unwritten \subseteq Requests

IInv == /\ now \in Nat
        /\ hits = [k \in Keys |-> hits[k]]
        /\ log = [k \in Keys |-> log[k]]
        /\ \A k \in Keys : WindowInv(hits[k], log[k], now)

-------------------------------------------------------------------------------
(* One call of allow(), for a deque h and a history l at time t *)

\* The while loop, as in Removes.
Cut(h, n, t) == /\ n <= Len(h)
                /\ \A i \in 1..n : h[i] < t - Window
                /\ n < Len(h) => ~(h[n + 1] < t - Window)

\* Popping n hits from the left.
LEMMA Kept ==
    ASSUME NEW s \in Seq(Nat), NEW n \in Nat, n <= Len(s)
    PROVE  /\ SubSeq(s, n + 1, Len(s)) \in Seq(Nat)
           /\ Len(SubSeq(s, n + 1, Len(s))) = Len(s) - n
           /\ \A i \in 1..(Len(s) - n) : SubSeq(s, n + 1, Len(s))[i] = s[n + i]
<1>1. SubSeq(s, n + 1, Len(s)) \in Seq(Nat)
  OBVIOUS
<1>2. Len(SubSeq(s, n + 1, Len(s))) = Len(s) - n
  OBVIOUS
<1>3. ASSUME NEW i \in 1..(Len(s) - n) PROVE SubSeq(s, n + 1, Len(s))[i] = s[n + i]
  OBVIOUS
<1> QED BY <1>1, <1>2, <1>3

\* Calls up to the last removed one are outside of the window.
LEMMA CutOutside ==
    ASSUME NEW h, NEW l, NEW t \in Nat, NEW n \in Nat, Shape(h, l), Suffix(h, l),
           Gone(h, l, t), Cut(h, n, t), NEW i \in 1..(Len(l) - Len(h) + n)
    PROVE  l[i] < t - Window
<1>1. Len(h) \in Nat /\ Len(l) \in Nat /\ Len(h) <= Len(l) /\ n <= Len(h)
  BY DEF Shape, Cut
<1>2. CASE i <= Len(l) - Len(h)
  BY <1>1, <1>2 DEF Gone
<1>3. CASE i > Len(l) - Len(h)
  <2> DEFINE m == i - (Len(l) - Len(h))
  <2>1. m \in 1..n /\ m \in 1..Len(h) /\ Len(l) - Len(h) + m = i
    BY <1>1, <1>3
  <2>2. h[m] < t - Window
    BY <2>1 DEF Cut
  <2>3. h[m] = l[Len(l) - Len(h) + m]
    BY <2>1 DEF Suffix
  <2> QED BY <2>1, <2>2, <2>3
<1> QED BY <1>1, <1>2, <1>3

\* Calls from the first kept one on are in the window.
LEMMA CutInside ==
    ASSUME NEW h, NEW l, NEW t \in Nat, NEW n \in Nat, Shape(h, l), Suffix(h, l),
           Sorted(l), Cut(h, n, t), NEW i \in (Len(l) - Len(h) + n + 1)..Len(l)
    PROVE  l[i] >= t - Window
<1>1. Len(h) \in Nat /\ Len(l) \in Nat /\ Len(h) <= Len(l) /\ n <= Len(h)
  BY SMTT(30) DEF Shape, Cut
<1> DEFINE m == Len(l) - Len(h) + (n + 1)
<1>2. n < Len(h) /\ n + 1 \in 1..Len(h) /\ m \in 1..Len(l) /\ i \in 1..Len(l) /\ m <= i
  BY <1>1
<1>3. ~(h[n + 1] < t - Window)
  BY <1>2 DEF Cut
<1>4. h[n + 1] = l[m]
  BY <1>2 DEF Suffix
<1>5. l[m] <= l[i]
  BY <1>2 DEF Sorted
<1>6. \A j \in 1..Len(l) : l[j] \in Nat
  BY DEF Shape
<1>7. l[m] \in Nat /\ l[i] \in Nat
  BY <1>2, <1>6
<1> HIDE DEF m
<1> QED BY <1>3, <1>4, <1>5, <1>7, RateLimiterAssumption

\* The calls still in the deque are exactly those in the window.
LEMMA KeptAreRecent ==
    ASSUME NEW h, NEW l, NEW t \in Nat, NEW n \in Nat, WindowInv(h, l, t), Cut(h, n, t)
    PROVE  Cardinality({i \in 1..Len(l) : l[i] >= t - Window}) = Len(h) - n
<1> DEFINE first == Len(l) - Len(h) + n + 1
<1>1. Len(h) \in Nat /\ Len(l) \in Nat /\ Len(h) <= Len(l) /\ n <= Len(h)
  BY DEF WindowInv, Shape, Cut
<1>2. first \in Nat /\ first >= 1 /\ first <= Len(l) + 1 /\ first - 1 = Len(l) - Len(h) + n
  BY <1>1
<1>3. \A i \in 1..(first - 1) : l[i] < t - Window
  BY <1>2, CutOutside DEF WindowInv
<1>4. \A i \in first..Len(l) : l[i] >= t - Window
  BY CutInside DEF WindowInv
<1>5. \A i \in 1..Len(l) : l[i] \in Nat
  BY DEF WindowInv, Shape
<1>6. Len(l) - first + 1 = Len(h) - n /\ (first > Len(l) => Len(h) - n = 0)
  BY <1>1
<1> HIDE DEF first
<1>7. {i \in 1..Len(l) : l[i] >= t - Window} = first..Len(l)
  <2>1. ASSUME NEW i \in 1..Len(l), l[i] >= t - Window PROVE i \in first..Len(l)
    <3>1. ~(i \in 1..(first - 1))
      BY <1>3, <1>5, <2>1, RateLimiterAssumption
    <3> QED BY <1>1, <1>2, <3>1
  <2>2. \A i \in first..Len(l) : i \in 1..Len(l) /\ l[i] >= t - Window
    BY <1>1, <1>2, <1>4
  <2> QED BY <2>1, <2>2
<1>8. Cardinality(first..Len(l)) = IF first > Len(l) THEN 0 ELSE Len(l) - first + 1
  <2>1. first \in Int /\ Len(l) \in Int
    BY <1>1, <1>2
  <2> QED BY <2>1, FS_Interval
<1> QED BY <1>6, <1>7, <1>8

\* The verdict of allow() is that of an exact window over the whole history.
LEMMA Exact ==
    ASSUME now \in Nat, NEW k \in Keys, NEW n \in Nat,
           WindowInv(hits[k], log[k], now), Removes(k, n)
    PROVE  ~Full(Len(hits[k]) - n) <=> Limit!Under(k)
<1>1. Cut(hits[k], n, now)
  BY DEF Removes, Outdated, Cut
<1>2. Cardinality(Limit!Recent(k)) = Len(hits[k]) - n
  BY <1>1, KeptAreRecent DEF Limit!Recent
<1>3. Len(hits[k]) \in Nat /\ MaxRequests \in Nat
  BY RateLimiterAssumption DEF WindowInv, Shape
<1>4. ~(Len(hits[k]) - n >= MaxRequests) <=> Len(hits[k]) - n < MaxRequests
  BY <1>3
<1>5. Limit!Cardinality(Limit!Recent(k)) = Cardinality(Limit!Recent(k))
  BY DEF Limit!Cardinality, Cardinality
<1> QED BY <1>2, <1>4, <1>5 DEF Limit!Under, Full

\* Dropping the hits that are outside of the window keeps the relation.
LEMMA PrunedInv ==
    ASSUME NEW h, NEW l, NEW t \in Nat, NEW n \in Nat, WindowInv(h, l, t), Cut(h, n, t)
    PROVE  WindowInv(SubSeq(h, n + 1, Len(h)), l, t)
<1> DEFINE p == SubSeq(h, n + 1, Len(h))
<1>1. /\ Len(h) \in Nat /\ Len(l) \in Nat /\ Len(h) <= Len(l) /\ n <= Len(h)
      /\ h \in Seq(Nat) /\ l \in Seq(Nat) /\ Len(h) <= MaxRequests
  BY DEF WindowInv, Shape, Cut
<1>2. p \in Seq(Nat) /\ Len(p) = Len(h) - n /\ \A i \in 1..(Len(h) - n) : p[i] = h[n + i]
  BY <1>1, Kept
<1> HIDE DEF p
<1>3. Shape(p, l)
  BY <1>1, <1>2, RateLimiterAssumption DEF Shape
<1>4. Suffix(p, l)
  <2> SUFFICES ASSUME NEW i \in 1..Len(p) PROVE p[i] = l[Len(l) - Len(p) + i]
    BY DEF Suffix
  <2>1. n + i \in 1..Len(h) /\ Len(l) - Len(h) + (n + i) = Len(l) - Len(p) + i
    BY <1>1, <1>2
  <2>2. h[n + i] = l[Len(l) - Len(h) + (n + i)]
    BY <2>1 DEF WindowInv, Suffix
  <2> QED BY <1>2, <2>1, <2>2
<1>5. Gone(p, l, t)
  <2>1. Len(l) - Len(p) = Len(l) - Len(h) + n
    BY <1>1, <1>2
  <2> QED BY <2>1, CutOutside DEF Gone, WindowInv
<1> QED BY <1>3, <1>4, <1>5 DEF WindowInv, p

\* Recording a call in a window that is not full keeps the relation and the limit.
LEMMA RecordedInv ==
    ASSUME NEW p, NEW l, NEW t \in Nat, WindowInv(p, l, t), Len(p) < MaxRequests
    PROVE  WindowInv(Append(p, t), Append(l, t), t)
<1> DEFINE b == Append(p, t)
           m == Append(l, t)
<1>1. /\ Len(p) \in Nat /\ Len(l) \in Nat /\ Len(p) <= Len(l)
      /\ p \in Seq(Nat) /\ l \in Seq(Nat) /\ MaxRequests \in Nat /\ Window \in Nat
  BY RateLimiterAssumption DEF WindowInv, Shape
<1>2. /\ b \in Seq(Nat) /\ Len(b) = Len(p) + 1 /\ b[Len(p) + 1] = t
      /\ \A i \in 1..Len(p) : b[i] = p[i]
  BY <1>1, AppendProperties
<1>3. /\ m \in Seq(Nat) /\ Len(m) = Len(l) + 1 /\ m[Len(l) + 1] = t
      /\ \A i \in 1..Len(l) : m[i] = l[i]
  BY <1>1, AppendProperties
<1> HIDE DEF b, m
<1>4. Len(m) - Len(b) = Len(l) - Len(p)
  BY <1>1, <1>2, <1>3
<1>5. Shape(b, m)
  BY <1>1, <1>2, <1>3 DEF Shape
<1>6. Suffix(b, m)
  <2> SUFFICES ASSUME NEW i \in 1..Len(b) PROVE b[i] = m[Len(l) - Len(p) + i]
    BY <1>4 DEF Suffix
  <2>1. CASE i = Len(p) + 1
    <3>1. Len(l) - Len(p) + i = Len(l) + 1
      BY <1>1, <2>1
    <3> QED BY <1>2, <1>3, <2>1, <3>1
  <2>2. CASE i \in 1..Len(p)
    <3>1. Len(l) - Len(p) + i \in 1..Len(l)
      BY <1>1, <2>2
    <3>2. p[i] = l[Len(l) - Len(p) + i]
      BY <2>2 DEF WindowInv, Suffix
    <3> QED BY <1>2, <1>3, <2>2, <3>1, <3>2
  <2> QED BY <1>1, <1>2, <2>1, <2>2
<1>7. Gone(b, m, t)
  <2> SUFFICES ASSUME NEW i \in 1..(Len(l) - Len(p)) PROVE m[i] < t - Window
    BY <1>4 DEF Gone
  <2>1. i \in 1..Len(l)
    BY <1>1
  <2> QED BY <1>3, <2>1 DEF WindowInv, Gone
<1>8. Past(m, t)
  <2> SUFFICES ASSUME NEW i \in 1..Len(m) PROVE m[i] <= t
    BY DEF Past
  <2>1. CASE i \in 1..Len(l)
    BY <1>3, <2>1 DEF WindowInv, Past
  <2>2. CASE i = Len(l) + 1
    BY <1>3, <2>2
  <2> QED BY <1>1, <1>3, <2>1, <2>2
<1>9. Sorted(m)
  <2> SUFFICES ASSUME NEW i \in 1..Len(m), NEW j \in 1..Len(m), i <= j PROVE m[i] <= m[j]
    BY DEF Sorted
  <2>1. CASE j = Len(l) + 1
    BY <1>3, <1>8, <2>1 DEF Past
  <2>2. CASE j \in 1..Len(l)
    <3>1. i \in 1..Len(l)
      BY <1>1, <2>2
    <3>2. l[i] <= l[j]
      BY <2>2, <3>1 DEF WindowInv, Sorted
    <3> QED BY <1>3, <2>2, <3>1, <3>2
  <2> QED BY <1>1, <1>3, <2>1, <2>2
<1>10. Spaced(m)
  <2> SUFFICES ASSUME NEW i \in 1..Len(m), i + MaxRequests <= Len(m)
               PROVE m[i + MaxRequests] - m[i] > Window
    BY DEF Spaced
  <2>1. CASE i + MaxRequests = Len(l) + 1
    <3>1. i \in 1..(Len(l) - Len(p)) /\ i \in 1..Len(l)
      BY <1>1, <2>1
    <3>2. l[i] < t - Window /\ l[i] \in Nat
      BY <1>1, <3>1, SMTT(30) DEF WindowInv, Gone
    <3>3. m[i] = l[i] /\ m[i + MaxRequests] = t
      BY <1>3, <2>1, <3>1
    <3> QED BY <1>1, <3>2, <3>3
  <2>2. CASE i + MaxRequests <= Len(l)
    <3>1. i \in 1..Len(l) /\ i + MaxRequests \in 1..Len(l)
      BY <1>1, <2>2
    <3>2. m[i] = l[i] /\ m[i + MaxRequests] = l[i + MaxRequests]
      BY <1>3, <3>1
    <3>3. l[i + MaxRequests] - l[i] > Window
      BY <2>2, <3>1 DEF WindowInv, Spaced
    <3> QED BY <3>2, <3>3
  <2>3. i \in Nat
    OBVIOUS
  <2>4. i + MaxRequests <= Len(l) + 1
    BY <1>3
  <2>5. i + MaxRequests = Len(l) + 1 \/ i + MaxRequests <= Len(l)
    <3>1. \A x, y \in Int : x <= y + 1 => x = y + 1 \/ x <= y
      OBVIOUS
    <3>2. i + MaxRequests \in Int /\ Len(l) \in Int
      BY <1>1, <2>3
    <3> QED BY <2>4, <3>1, <3>2
  <2> QED BY <2>1, <2>2, <2>5
<1> QED BY <1>5, <1>6, <1>7, <1>8, <1>9, <1>10 DEF WindowInv, b, m

\* A call of allow() keeps the relation of deque and history.
LEMMA Charge ==
    ASSUME now \in Nat, NEW k \in Keys, NEW n \in Nat,
           WindowInv(hits[k], log[k], now), Removes(k, n)
    PROVE  WindowInv(Bucket(k, n),
                     IF ~Full(Len(hits[k]) - n) THEN Append(log[k], now) ELSE log[k], now)
<1> DEFINE p == SubSeq(hits[k], n + 1, Len(hits[k]))
<1>1. Cut(hits[k], n, now)
  BY DEF Removes, Outdated, Cut
<1>2. WindowInv(p, log[k], now)
  BY <1>1, PrunedInv
<1>3. Len(p) = Len(hits[k]) - n
  BY <1>1, Kept DEF Cut, WindowInv, Shape
<1>4. CASE Full(Len(hits[k]) - n)
  BY <1>2, <1>4 DEF Bucket
<1>5. CASE ~Full(Len(hits[k]) - n)
  <2>1. Len(p) < MaxRequests
    BY <1>2, <1>3, <1>5, RateLimiterAssumption DEF Full, WindowInv, Shape
  <2>2. WindowInv(Append(p, now), Append(log[k], now), now)
    BY <1>2, <2>1, RecordedInv
  <2> QED BY <1>5, <2>2 DEF Bucket
<1> QED BY <1>4, <1>5

-------------------------------------------------------------------------------
(* The invariant *)

\* All deques are empty at first.
LEMMA InitIInv == Init => IInv
BY RateLimiterAssumption DEF Init, IInv, WindowInv, Shape, Suffix, Gone, Sorted, Past, Spaced

\* What a request does to each key it charges and to those it does not.
LEMMA DispatchKeys ==
    ASSUME IInv, NEW q \in Requests, Dispatch(q)
    PROVE  /\ now' = now
           /\ \A k \in Keys : WindowInv(hits'[k], log'[k], now)
           /\ hits' = [k \in Keys |-> hits'[k]] /\ log' = [k \in Keys |-> log'[k]]
<1>1. PICK K \in Charged, n \in [Keys -> 0..MaxRequests] :
         /\ \A k \in Keys : IF k \in K THEN Removes(k, n[k]) ELSE n[k] = 0
         /\ hits' = [k \in Keys |-> IF k \in K THEN Bucket(k, n[k]) ELSE hits[k]]
         /\ log' = [k \in Keys |-> IF k \in K /\ ~Full(Len(hits[k]) - n[k])
                                   THEN Append(log[k], now) ELSE log[k]]
  BY DEF Dispatch
<1>2. now' = now
  BY DEF Dispatch
<1>3. ASSUME NEW k \in Keys PROVE WindowInv(hits'[k], log'[k], now)
  <2>1. now \in Nat /\ WindowInv(hits[k], log[k], now)
    BY DEF IInv
  <2>2. CASE k \in K
    <3>1. n[k] \in Nat /\ Removes(k, n[k])
      BY <1>1, <2>2, RateLimiterAssumption
    <3>2. WindowInv(Bucket(k, n[k]),
                    IF ~Full(Len(hits[k]) - n[k]) THEN Append(log[k], now) ELSE log[k], now)
      BY <2>1, <3>1, Charge
    <3> QED BY <1>1, <2>2, <3>2
  <2>3. CASE k \notin K
    BY <1>1, <2>1, <2>3
  <2> QED BY <2>2, <2>3
<1> QED BY <1>1, <1>2, <1>3

\* Every step keeps the invariant.
LEMMA NextIInv == IInv /\ [Next]_vars => IInv'
<1> SUFFICES ASSUME IInv, [Next]_vars PROVE IInv'
  OBVIOUS
<1>1. ASSUME NEW q \in Requests, Dispatch(q) PROVE IInv'
  BY <1>1, DispatchKeys DEF IInv
<1>2. ASSUME UNCHANGED <<now, limiter>> PROVE IInv'
  BY <1>2 DEF IInv, limiter
<1>3. ASSUME NEW q \in Requests, Exempt(q) \/ Respond(q) \/ Send(q) \/ RaiseInside(q)
      PROVE IInv'
  BY <1>2, <1>3 DEF Exempt, Respond, Send, RaiseInside
<1>4. CASE Crash
  <2>1. \A k \in Keys : WindowInv(<< >>, << >>, now)
    BY RateLimiterAssumption DEF WindowInv, Shape, Suffix, Gone, Sorted, Past, Spaced
  <2> QED BY <1>4, <2>1 DEF Crash, IInv
<1>5. CASE Tick
  <2>1. now \in Nat /\ now' = now + 1 /\ UNCHANGED <<hits, log>>
    BY <1>5 DEF Tick, IInv, limiter
  <2>2. ASSUME NEW k \in Keys PROVE WindowInv(hits[k], log[k], now + 1)
    <3>1. WindowInv(hits[k], log[k], now)
      BY DEF IInv
    <3>2. /\ Len(hits[k]) \in Nat /\ Len(log[k]) \in Nat /\ Len(hits[k]) <= Len(log[k])
          /\ \A i \in 1..Len(log[k]) : log[k][i] \in Nat
      BY <3>1 DEF WindowInv, Shape
    <3>3. Gone(hits[k], log[k], now + 1)
      <4>1. ASSUME NEW i \in 1..(Len(log[k]) - Len(hits[k]))
            PROVE log[k][i] < (now + 1) - Window
        <5>1. i \in 1..Len(log[k])
          BY <3>2
        <5>2. log[k][i] \in Nat /\ log[k][i] < now - Window
          BY <3>1, <3>2, <5>1 DEF WindowInv, Gone
        <5> QED BY <2>1, <5>2, RateLimiterAssumption
      <4> QED BY <4>1 DEF Gone
    <3>4. Past(log[k], now + 1)
      BY <2>1, <3>1, <3>2 DEF WindowInv, Past
    <3> QED BY <3>1, <3>3, <3>4 DEF WindowInv
  <2> QED BY <2>1, <2>2 DEF IInv
<1>6. CASE UNCHANGED vars
  BY <1>2, <1>6 DEF vars
<1> QED BY <1>1, <1>3, <1>4, <1>5, <1>6 DEF Next, RequestStep

\* The invariant always holds.
LEMMA Invariant == Spec => []IInv
BY InitIInv, NextIInv, PTL DEF Spec

\* Every step keeps the types of what happens to requests.
LEMMA StagesTyped == Spec => []Typed
<1>1. Init => Typed
  BY DEF Init, Typed
<1>2. Typed /\ [Next]_vars => Typed'
  <2> SUFFICES ASSUME Typed, [Next]_vars PROVE Typed'
    OBVIOUS
  <2>1. ASSUME NEW q \in Requests, RequestStep(q) PROVE Typed'
    <3>1. ASSUME NEW event \in {"rate_limit_exceeded", "api_access"}, SaveAuditLog(q, event)
          PROVE audit' \in [Requests -> Seq({"rate_limit_exceeded", "api_access"})]
                /\ unwritten' \subseteq Requests
      <4>1. CASE audit' = [audit EXCEPT ![q] = Append(@, event)] /\ unwritten' = unwritten
        <5>1. Append(audit[q], event) \in Seq({"rate_limit_exceeded", "api_access"})
          BY AppendProperties DEF Typed
        <5> QED BY <4>1, <5>1 DEF Typed
      <4>2. CASE audit' = audit /\ unwritten' = unwritten \cup {q}
        BY <4>2 DEF Typed
      <4> QED BY <3>1, <4>1, <4>2 DEF SaveAuditLog
    <3>2. CASE Exempt(q) \/ Send(q) \/ RaiseInside(q)
      BY <3>2 DEF Typed, Exempt, Send, RaiseInside
    <3>3. CASE Respond(q)
      BY <3>1, <3>3 DEF Typed, Respond
    <3>4. CASE Dispatch(q)
      <4>1. \/ stage' = [stage EXCEPT ![q] = "inside"] /\ UNCHANGED <<audit, unwritten>>
            \/ stage' = [stage EXCEPT ![q] = "refusing"] /\ SaveAuditLog(q, "rate_limit_exceeded")
        BY <3>4 DEF Dispatch, Reject
      <4> QED BY <3>1, <4>1 DEF Typed
    <3> QED BY <2>1, <3>2, <3>3, <3>4 DEF RequestStep
  <2>2. CASE Crash
    BY <2>2 DEF Typed, Crash, Died
  <2>3. CASE Tick
    BY <2>3 DEF Typed, Tick
  <2>4. CASE UNCHANGED vars
    BY <2>4 DEF Typed, vars
  <2> QED BY <2>1, <2>2, <2>3, <2>4 DEF Next
<1> QED BY <1>1, <1>2, PTL DEF Spec

-------------------------------------------------------------------------------
(* The theorems *)

\* Types; in particular no deque grows beyond the limit (allow never deletes a key).
THEOREM TypeCorrect == Spec => []TypeOK
<1>1. IInv /\ Typed => TypeOK
  BY DEF IInv, Typed, TypeOK, WindowInv, Shape
<1> QED BY <1>1, Invariant, StagesTyped, PTL

\* The limit holds for every window of time, of every key (allow).
THEOREM WindowsAreRespected == Spec => []WindowRespected
<1>1. IInv => WindowRespected
  BY DEF IInv, WindowInv, Spaced, WindowRespected
<1> QED BY <1>1, Invariant, PTL

\* The pruned deques decide every request as an exact window over the whole history
\* would (allow, dispatch).
THEOREM LimiterIsExact == Spec => ImplementsWindowLimit
<1> DEFINE verdict(st) == IF st \in {"new", "exempt"} THEN "none"
                          ELSE IF st \in {"refusing", "rejected", "died refused"}
                          THEN "rejected" ELSE "passed"
<1>1. Init => Limit!Init
  BY DEF Init, Limit!Init
<1>2. IInv /\ Typed /\ [Next]_vars => [Limit!Next]_(Limit!vars)
  <2> SUFFICES ASSUME IInv, Typed, [Next]_vars PROVE [Limit!Next]_(Limit!vars)
    OBVIOUS
  <2>1. ASSUME NEW q \in Requests, Dispatch(q) PROVE Limit!Next
    <3>1. PICK K \in Charged, n \in [Keys -> 0..MaxRequests] :
             /\ \A k \in Keys : IF k \in K THEN Removes(k, n[k]) ELSE n[k] = 0
             /\ log' = [k \in Keys |-> IF k \in K /\ ~Full(Len(hits[k]) - n[k])
                                       THEN Append(log[k], now) ELSE log[k]]
             /\ IF \A k \in K : ~Full(Len(hits[k]) - n[k])
                THEN stage' = [stage EXCEPT ![q] = "inside"]
                ELSE stage' = [stage EXCEPT ![q] = "refusing"]
      BY <2>1 DEF Dispatch, Reject
    <3>2. stage[q] = "new" /\ now' = now
      BY <2>1 DEF Dispatch
    <3>3. K \subseteq Keys
      BY DEF Charged, Keys
    <3>4. ASSUME NEW k \in K PROVE ~Full(Len(hits[k]) - n[k]) <=> Limit!Under(k)
      <4>1. k \in Keys /\ n[k] \in Nat /\ Removes(k, n[k])
        BY <3>1, <3>3, RateLimiterAssumption
      <4> QED BY <4>1, Exact DEF IInv
    <3>5. log' = [k \in Keys |-> IF k \in K /\ Limit!Under(k) THEN Append(log[k], now)
                                                              ELSE log[k]]
      BY <3>1, <3>4
    <3>6. stage' = [stage EXCEPT ![q] = IF \A k \in K : Limit!Under(k) THEN "inside"
                                                                       ELSE "refusing"]
      BY <3>1, <3>4
    <3>7. [r \in Requests |-> verdict(stage'[r])]
            = [[r \in Requests |-> verdict(stage[r])] EXCEPT
                 ![q] = IF \A k \in K : Limit!Under(k) THEN "passed" ELSE "rejected"]
      BY <3>6 DEF Typed
    <3>8. [r \in Requests |-> verdict(stage[r])][q] = "none"
      BY <3>2
    <3>9. Limit!Decide(q, K)
      BY <3>2, <3>5, <3>7, <3>8 DEF Limit!Decide
    <3> QED BY <3>3, <3>9 DEF Limit!Next
  <2>2. ASSUME UNCHANGED <<now, log>>,
               \A r \in Requests : verdict(stage'[r]) = verdict(stage[r])
        PROVE UNCHANGED Limit!vars
    BY <2>2 DEF Limit!vars
  <2>3. ASSUME NEW q \in Requests, Exempt(q) \/ Respond(q) \/ Send(q) \/ RaiseInside(q)
        PROVE UNCHANGED Limit!vars
    <3>1. UNCHANGED <<now, log>>
      BY <2>3 DEF Exempt, Respond, Send, RaiseInside, limiter
    <3>2. \A r \in Requests : verdict(stage'[r]) = verdict(stage[r])
      BY <2>3 DEF Exempt, Respond, Send, RaiseInside, Typed
    <3> QED BY <2>2, <3>1, <3>2
  <2>4. CASE Crash
    <3>1. \A r \in Requests : verdict(stage'[r]) = verdict(stage[r])
      BY <2>4 DEF Crash, Died, Typed
    <3>2. [r \in Requests |-> verdict(stage'[r])] = [r \in Requests |-> verdict(stage[r])]
      BY <3>1
    <3> QED BY <2>4, <3>2 DEF Crash, Limit!Forget, Limit!Next
  <2>5. CASE Tick
    BY <2>5 DEF Tick, Limit!Pass, Limit!Next, limiter
  <2>6. CASE UNCHANGED vars
    BY <2>2, <2>6 DEF vars, limiter
  <2> QED BY <2>1, <2>3, <2>4, <2>5, <2>6 DEF Next, RequestStep
<1>3. Spec => []Typed
  BY StagesTyped
<1> QED BY <1>1, <1>2, <1>3, Invariant, PTL DEF Spec, ImplementsWindowLimit, Limit!Spec
-------------------------------------------------------------------------------
(* The rows of audit_logs *)

\* RowPerAnswer is inductive once a row that was refused belongs to a request that was
\* decided: for one still inside a row will be written later.
Rows == RowPerAnswer /\ \A q \in unwritten : stage[q] \notin {"new", "exempt", "inside", "raised"}

\* RowPerAnswer for one request in stage st, with the rows a.
RowsOf(st, a, refused) ==
    LET rows(event) == a = IF refused THEN << >> ELSE <<event>>
    IN  /\ st \in {"new", "exempt", "inside", "raised"} => ~refused
        /\ st \in {"new", "exempt", "inside"} => a = << >>
        /\ st \in {"responding", "answered"} => rows("api_access")
        /\ st \in {"refusing", "rejected", "died refused"} => rows("rate_limit_exceeded")
        /\ st = "died" => a \in {<< >>, <<"api_access">>}
        /\ Len(a) <= 1

\* The rows, one request at a time.
LEMMA RowsEach ==
    ASSUME Typed
    PROVE  Rows <=> \A q \in Requests : RowsOf(stage[q], audit[q], q \in unwritten)
BY DEF Typed, Rows, RowPerAnswer, RowsOf

\* What save_audit_log() leaves behind for a request that had no row.
LEMMA RowSaved ==
    ASSUME Typed, NEW q \in Requests, audit[q] = << >>, q \notin unwritten,
           NEW event \in {"rate_limit_exceeded", "api_access"}, SaveAuditLog(q, event)
    PROVE  /\ audit'[q] = IF q \in unwritten' THEN << >> ELSE <<event>>
           /\ \A r \in Requests : r # q => /\ audit'[r] = audit[r]
                                           /\ r \in unwritten' <=> r \in unwritten
<1>1. CASE audit' = [audit EXCEPT ![q] = Append(@, event)] /\ unwritten' = unwritten
  <2>1. Append(<< >>, event) = <<event>>
    OBVIOUS
  <2> QED BY <1>1, <2>1 DEF Typed
<1>2. CASE audit' = audit /\ unwritten' = unwritten \cup {q}
  BY <1>2 DEF Typed
<1> QED BY <1>1, <1>2 DEF SaveAuditLog

\* A step of one request that keeps its own rows keeps them all.
LEMMA RowsOfOne ==
    ASSUME Typed, Typed', Rows, NEW q \in Requests,
           NEW st, stage' = [stage EXCEPT ![q] = st],
           RowsOf(st, audit'[q], q \in unwritten'),
           \A r \in Requests : r # q => /\ audit'[r] = audit[r]
                                        /\ r \in unwritten' <=> r \in unwritten
    PROVE  Rows'
<1>1. stage'[q] = st /\ \A r \in Requests : r # q => stage'[r] = stage[r]
  BY DEF Typed
<1>2. ASSUME NEW r \in Requests PROVE RowsOf(stage'[r], audit'[r], r \in unwritten')
  <2>1. CASE r = q
    BY <1>1, <2>1
  <2>2. CASE r # q
    <3>1. RowsOf(stage[r], audit[r], r \in unwritten)
      BY RowsEach
    <3>2. stage'[r] = stage[r] /\ audit'[r] = audit[r] /\ (r \in unwritten' <=> r \in unwritten)
      BY <1>1, <2>2
    <3> QED BY <3>1, <3>2 DEF RowsOf
  <2> QED BY <2>1, <2>2
<1>3. (\A r \in Requests : RowsOf(stage[r], audit[r], r \in unwritten))' => Rows'
  BY DEF Typed, Rows, RowPerAnswer, RowsOf
<1> QED BY <1>2, <1>3

\* A request that saves its row, before it is answered.
LEMMA RowsDecided ==
    ASSUME Typed, Typed', Rows, NEW q \in Requests, stage[q] \in {"new", "inside"}, NEW st,
           stage' = [stage EXCEPT ![q] = st],
           \/ st = "responding" /\ SaveAuditLog(q, "api_access")
           \/ st = "refusing" /\ SaveAuditLog(q, "rate_limit_exceeded")
    PROVE  Rows'
<1>1. audit[q] = << >> /\ q \notin unwritten
  BY RowsEach DEF RowsOf
<1>2. PICK event \in {"rate_limit_exceeded", "api_access"} :
        /\ SaveAuditLog(q, event)
        /\ st = IF event = "api_access" THEN "responding" ELSE "refusing"
  OBVIOUS
<1>3. /\ audit'[q] = IF q \in unwritten' THEN << >> ELSE <<event>>
      /\ \A r \in Requests : r # q => /\ audit'[r] = audit[r]
                                      /\ r \in unwritten' <=> r \in unwritten
  BY <1>1, <1>2, RowSaved
<1>4. RowsOf(st, audit'[q], q \in unwritten')
  BY <1>2, <1>3 DEF RowsOf
<1> QED BY <1>3, <1>4, RowsOfOne

\* A request that goes on without a row.
LEMMA RowsMoved ==
    ASSUME Typed, Typed', Rows, NEW q \in Requests, NEW st, stage' = [stage EXCEPT ![q] = st],
           UNCHANGED <<audit, unwritten>>,
           \/ stage[q] = "new" /\ st \in {"exempt", "inside"}
           \/ stage[q] = "inside" /\ st = "raised"
           \/ stage[q] = "responding" /\ st = "answered"
           \/ stage[q] = "refusing" /\ st = "rejected"
    PROVE  Rows'
<1>1. RowsOf(stage[q], audit[q], q \in unwritten)
  BY RowsEach
<1>2. RowsOf(st, audit'[q], q \in unwritten')
  BY <1>1 DEF RowsOf
<1> QED BY <1>2, RowsOfOne

\* Every step keeps the rows.
LEMMA RowsStep == Typed /\ Typed' /\ Rows /\ [Next]_vars => Rows'
<1> SUFFICES ASSUME Typed, Typed', Rows, [Next]_vars PROVE Rows'
  OBVIOUS
<1>1. ASSUME NEW q \in Requests, RequestStep(q) PROVE Rows'
  <2>1. CASE Exempt(q)
    BY <2>1, RowsMoved DEF Exempt
  <2>2. CASE Dispatch(q)
    <3>1. /\ stage[q] = "new"
          /\ \/ /\ stage' = [stage EXCEPT ![q] = "inside"]
                /\ UNCHANGED <<audit, unwritten>>
             \/ /\ stage' = [stage EXCEPT ![q] = "refusing"]
                /\ SaveAuditLog(q, "rate_limit_exceeded")
      BY <2>2 DEF Dispatch, Reject
    <3> QED BY <3>1, RowsMoved, RowsDecided
  <2>3. CASE Respond(q)
    BY <2>3, RowsDecided DEF Respond
  <2>4. CASE Send(q)
    <3>1. /\ UNCHANGED <<audit, unwritten>>
          /\ \/ stage[q] = "responding" /\ stage' = [stage EXCEPT ![q] = "answered"]
             \/ stage[q] = "refusing" /\ stage' = [stage EXCEPT ![q] = "rejected"]
      BY <2>4 DEF Send
    <3> QED BY <3>1, RowsMoved
  <2>5. CASE RaiseInside(q)
    BY <2>5, RowsMoved DEF RaiseInside
  <2> QED BY <1>1, <2>1, <2>2, <2>3, <2>4, <2>5 DEF RequestStep
<1>2. CASE Crash
  <2>1. UNCHANGED <<audit, unwritten>> /\ stage' = [q \in Requests |-> Died(stage[q])]
    BY <1>2 DEF Crash
  <2>2. ASSUME NEW q \in Requests PROVE RowsOf(stage'[q], audit'[q], q \in unwritten')
    <3>1. RowsOf(stage[q], audit[q], q \in unwritten)
      BY RowsEach
    <3> QED BY <2>1, <3>1 DEF RowsOf, Died
  <2>3. (\A r \in Requests : RowsOf(stage[r], audit[r], r \in unwritten))' => Rows'
    BY DEF Typed, Rows, RowPerAnswer, RowsOf
  <2> QED BY <2>2, <2>3
<1>3. CASE Tick \/ UNCHANGED vars
  BY <1>3 DEF Tick, vars, Rows, RowPerAnswer
<1> QED BY <1>1, <1>2, <1>3 DEF Next

\* No answer goes out before its row, and no request gets two rows: neither a death
\* between row and answer, nor a refused row, nor another request in between changes
\* that (dispatch).
THEOREM EveryAnswerHasItsRow == Spec => []RowPerAnswer
<1>1. Init => Rows
  BY DEF Init, Rows, RowPerAnswer
<1>2. Rows => RowPerAnswer
  BY DEF Rows
<1> QED BY <1>1, <1>2, RowsStep, StagesTyped, PTL DEF Spec
===============================================================================
