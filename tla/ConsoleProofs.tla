----------------------------- MODULE ConsoleProofs -----------------------------
(***************************************************************************)
(* Proofs about Console, for any number of prompts and any faults.         *)
(*                                                                         *)
(* The properties speak of what is left when the runs are over, or have    *)
(* been interrupted anywhere; the invariant speaks of what is still to     *)
(* come.  For every prompt it has a story: what the session already holds  *)
(* of the prompt fits the steps that are left of its run.  The orders a    *)
(* story needs of a run (the log line before the row, a count before or    *)
(* after its row, one alarm, one answer) are first proved of every run of  *)
(* every console (EveryRun), then kept step by step (StoryMoves).          *)
(***************************************************************************)
EXTENDS Console, FiniteSetTheorems, SequenceTheorems, TLAPS

-------------------------------------------------------------------------------
(* Runs: which steps a run has, and in which order.  Each notion is inherited by *)
(* what is left of a run when its first step is done.                            *)

Has(r, B) == \E i \in 1..Len(r) : r[i] \in B
Preceded(r, A, B) == \A i \in 1..Len(r) : r[i] \in A => \E k \in 1..(i - 1) : r[k] \in B
Followed(r, A, B) == \A i \in 1..Len(r) : r[i] \in A => \E k \in (i + 1)..Len(r) : r[k] \in B
Once(r, B) == \A i, k \in 1..Len(r) : r[i] \in B /\ r[k] \in B => i = k
Twice(r, B) == \A i, k, l \in 1..Len(r) :
                 r[i] \in B /\ r[k] \in B /\ r[l] \in B => i = k \/ i = l \/ k = l

\* Nothing is left of a run that is over.
LEMMA NothingLeft ==
    \A A, B : /\ ~Has(<< >>, B) /\ Preceded(<< >>, A, B) /\ Followed(<< >>, A, B)
              /\ Once(<< >>, B) /\ Twice(<< >>, B)
BY DEF Has, Preceded, Followed, Once, Twice

\* The first step and what is left.
LEMMA FirstStep ==
    ASSUME NEW S, NEW r \in Seq(S), r # << >>
    PROVE  /\ Tail(r) \in Seq(S)
           /\ \A B : Has(r, B) <=> Head(r) \in B \/ Has(Tail(r), B)
           /\ \A A, B : Preceded(r, A, B) <=> /\ Head(r) \notin A
                                              /\ Head(r) \in B \/ Preceded(Tail(r), A, B)
           /\ \A A, B : Followed(r, A, B) <=> /\ Followed(Tail(r), A, B)
                                              /\ Head(r) \in A => Has(Tail(r), B)
           /\ \A B : Once(r, B) <=> Once(Tail(r), B) /\ (Head(r) \in B => ~Has(Tail(r), B))
           /\ \A B : Twice(r, B) <=> Twice(Tail(r), B) /\ (Head(r) \in B => Once(Tail(r), B))
<1> DEFINE t == Tail(r)
<1>1. t \in Seq(S) /\ Len(r) \in Nat /\ Len(r) > 0 /\ Len(t) = Len(r) - 1 /\ Head(r) = r[1]
  OBVIOUS
<1>2. \A i \in 1..Len(t) : i + 1 \in 2..Len(r) /\ t[i] = r[i + 1]
  BY <1>1
<1>3. \A i \in 2..Len(r) : i - 1 \in 1..Len(t) /\ (i - 1) + 1 = i /\ t[i - 1] = r[i]
  BY <1>1, <1>2
<1>c. \A i \in 1..Len(r) : i = 1 \/ i \in 2..Len(r)
  BY <1>1
<1>4. \A C : Has(r, C) <=> Head(r) \in C \/ Has(t, C)
  <2> SUFFICES ASSUME NEW C PROVE Has(r, C) <=> Head(r) \in C \/ Has(t, C)
    OBVIOUS
  <2>1. Has(r, C) => Head(r) \in C \/ Has(t, C)
    <3> SUFFICES ASSUME NEW i \in 1..Len(r), r[i] \in C, i # 1 PROVE Has(t, C)
      BY <1>1 DEF Has
    <3>1. i \in 2..Len(r)
      BY <1>1
    <3> QED BY <1>3, <3>1 DEF Has
  <2>2. Head(r) \in C => Has(r, C)
    BY <1>1 DEF Has
  <2>3. Has(t, C) => Has(r, C)
    BY <1>1, <1>2 DEF Has
  <2> QED BY <2>1, <2>2, <2>3
<1>5. ASSUME NEW A, NEW B
      PROVE  Preceded(r, A, B) <=> Head(r) \notin A /\ (Head(r) \in B \/ Preceded(t, A, B))
  <2>1. Preceded(r, A, B) => Head(r) \notin A
    BY <1>1 DEF Preceded
  <2>2. ASSUME Preceded(r, A, B), Head(r) \notin B, NEW i \in 1..Len(t), t[i] \in A
        PROVE  \E k \in 1..(i - 1) : t[k] \in B
    <3>1. PICK k \in 1..i : r[k] \in B
      BY <1>1, <1>2, <2>2 DEF Preceded
    <3>2. k \in 2..Len(r) /\ k - 1 \in 1..(i - 1)
      BY <1>1, <2>2, <3>1
    <3> QED BY <1>3, <3>1, <3>2
  <2>3. ASSUME Head(r) \notin A, Head(r) \in B \/ Preceded(t, A, B), NEW i \in 1..Len(r), r[i] \in A
        PROVE  \E k \in 1..(i - 1) : r[k] \in B
    <3>1. i \in 2..Len(r)
      BY <1>1, <1>c, <2>3
    <3>2. CASE Head(r) \in B
      BY <1>1, <3>1, <3>2
    <3>3. CASE Preceded(t, A, B)
      <4>1. PICK k \in 1..((i - 1) - 1) : t[k] \in B
        BY <1>3, <2>3, <3>1, <3>3 DEF Preceded
      <4>2. k \in 1..Len(t) /\ k + 1 \in 1..(i - 1)
        BY <1>1, <3>1, <4>1
      <4> QED BY <1>2, <4>1, <4>2
    <3> QED BY <2>3, <3>2, <3>3
  <2> QED BY <2>1, <2>2, <2>3 DEF Preceded
<1>6. ASSUME NEW A, NEW B
      PROVE  Followed(r, A, B) <=> Followed(t, A, B) /\ (Head(r) \in A => Has(t, B))
  <2>1. ASSUME Followed(r, A, B), NEW i \in 1..Len(t), t[i] \in A
        PROVE  \E k \in (i + 1)..Len(t) : t[k] \in B
    <3>1. PICK k \in (i + 2)..Len(r) : r[k] \in B
      BY <1>1, <1>2, <2>1 DEF Followed
    <3>2. k \in 2..Len(r) /\ k - 1 \in (i + 1)..Len(t)
      BY <1>1, <3>1
    <3> QED BY <1>3, <3>1, <3>2
  <2>2. ASSUME Followed(r, A, B), Head(r) \in A PROVE Has(t, B)
    <3>1. PICK k \in 2..Len(r) : r[k] \in B
      BY <1>1, <2>2 DEF Followed
    <3> QED BY <1>3, <3>1 DEF Has
  <2>3. ASSUME Followed(t, A, B), Head(r) \in A => Has(t, B), NEW i \in 1..Len(r), r[i] \in A
        PROVE  \E k \in (i + 1)..Len(r) : r[k] \in B
    <3>1. CASE i = 1
      <4>1. PICK k \in 1..Len(t) : t[k] \in B
        BY <1>1, <2>3, <3>1 DEF Has
      <4> QED BY <1>1, <1>2, <3>1, <4>1
    <3>2. CASE i \in 2..Len(r)
      <4>1. PICK k \in ((i - 1) + 1)..Len(t) : t[k] \in B
        BY <1>3, <2>3, <3>2 DEF Followed
      <4>2. k \in 1..Len(t) /\ k + 1 \in (i + 1)..Len(r)
        BY <1>1, <3>2, <4>1
      <4> QED BY <1>2, <4>1, <4>2
    <3> QED BY <1>c, <3>1, <3>2
  <2> QED BY <2>1, <2>2, <2>3 DEF Followed
<1>7. ASSUME NEW B
      PROVE  Once(r, B) <=> Once(t, B) /\ (Head(r) \in B => ~Has(t, B))
  <2>1. Once(r, B) => Once(t, B) /\ (Head(r) \in B => ~Has(t, B))
    BY <1>1, <1>2 DEF Once, Has
  <2>2. ASSUME Once(t, B), Head(r) \in B => ~Has(t, B),
               NEW i \in 1..Len(r), NEW k \in 1..Len(r), r[i] \in B, r[k] \in B
        PROVE  i = k
    BY <1>1, <1>3, <1>c, <2>2 DEF Once, Has
  <2> QED BY <2>1, <2>2 DEF Once
<1>8. ASSUME NEW B
      PROVE  Twice(r, B) <=> Twice(t, B) /\ (Head(r) \in B => Once(t, B))
  <2>1. Twice(r, B) => Twice(t, B) /\ (Head(r) \in B => Once(t, B))
    BY <1>1, <1>2 DEF Once, Twice
  <2>2. ASSUME Twice(t, B), Head(r) \in B => Once(t, B),
               NEW i \in 1..Len(r), NEW k \in 1..Len(r), NEW l \in 1..Len(r),
               r[i] \in B, r[k] \in B, r[l] \in B
        PROVE  i = k \/ i = l \/ k = l
    <3>0. ASSUME Head(r) \in B, NEW m \in 2..Len(r), NEW n \in 2..Len(r), r[m] \in B, r[n] \in B
          PROVE  m = n
      <4>1. Once(t, B) /\ t[m - 1] \in B /\ t[n - 1] \in B
        BY <1>1, <1>3, <2>2, <3>0
      <4>2. m - 1 = n - 1
        BY <1>3, <4>1 DEF Once
      <4> QED BY <4>2
    <3>1. CASE i = 1
      BY <1>1, <1>c, <2>2, <3>0, <3>1
    <3>3. CASE k = 1
      BY <1>1, <1>c, <2>2, <3>0, <3>3
    <3>4. CASE l = 1
      BY <1>1, <1>c, <2>2, <3>0, <3>4
    <3>2. CASE i \in 2..Len(r) /\ k \in 2..Len(r) /\ l \in 2..Len(r)
      <4>1. i - 1 \in 1..Len(t) /\ k - 1 \in 1..Len(t) /\ l - 1 \in 1..Len(t)
        BY <1>3, <3>2
      <4>2. t[i - 1] \in B /\ t[k - 1] \in B /\ t[l - 1] \in B
        BY <1>3, <2>2, <3>2
      <4>3. i - 1 = k - 1 \/ i - 1 = l - 1 \/ k - 1 = l - 1
        BY <2>2, <4>1, <4>2 DEF Twice
      <4> QED BY <4>3
    <3> QED BY <1>c, <3>1, <3>2, <3>3, <3>4
  <2> QED BY <2>1, <2>2 DEF Twice
<1> QED BY <1>1, <1>4, <1>5, <1>6, <1>7, <1>8

-------------------------------------------------------------------------------
(* The runs of the consoles *)

RowSteps == {Remember(risk) : risk \in Risks \cup {"INFO"}}
CountSteps == {Count(1), Count(3)}
SeriousSteps == {Remember("CRITICAL"), Remember("MEDIUM")}
OtherSteps == {Tool, Subdomains, Read, Ask, Save}
AllSteps == {Log, Say, Alarm, Offline} \cup OtherSteps \cup CountSteps \cup RowSteps

\* A run by its first step and the rest.
Then(x, r) == <<x>> \o r
Runs == Seq(AllSteps)

LEMMA ThenFacts ==
    \A x \in AllSteps, r \in Runs :
      /\ Then(x, r) \in Runs
      /\ \A B : Has(Then(x, r), B) <=> x \in B \/ Has(r, B)
      /\ \A A, B : Preceded(Then(x, r), A, B) <=> x \notin A /\ (x \in B \/ Preceded(r, A, B))
      /\ \A A, B : Followed(Then(x, r), A, B) <=> Followed(r, A, B) /\ (x \in A => Has(r, B))
      /\ \A B : Once(Then(x, r), B) <=> Once(r, B) /\ (x \in B => ~Has(r, B))
      /\ \A B : Twice(Then(x, r), B) <=> Twice(r, B) /\ (x \in B => Once(r, B))
<1> TAKE x \in AllSteps, r \in Runs
<1> DEFINE s == Then(x, r)
<1>1. s \in Runs /\ s # << >> /\ Head(s) = x /\ Tail(s) = r
  BY DEF Then, Runs
<1>2. s \in Seq(AllSteps)
  BY <1>1 DEF Runs
<1> HIDE DEF s
<1>3. /\ \A B : Has(s, B) <=> x \in B \/ Has(r, B)
      /\ \A A, B : Preceded(s, A, B) <=> x \notin A /\ (x \in B \/ Preceded(r, A, B))
      /\ \A A, B : Followed(s, A, B) <=> Followed(r, A, B) /\ (x \in A => Has(r, B))
      /\ \A B : Once(s, B) <=> Once(r, B) /\ (x \in B => ~Has(r, B))
      /\ \A B : Twice(s, B) <=> Twice(r, B) /\ (x \in B => Once(r, B))
  BY <1>1, <1>2, FirstStep
<1> QED BY <1>1, <1>3 DEF s

\* The kinds of steps are different.
LEMMA StepKinds ==
    /\ \A x \in {Log, Say, Alarm, Offline} \cup OtherSteps : x \notin CountSteps /\ x \notin RowSteps
    /\ \A x \in CountSteps : x \notin RowSteps
    /\ Say \notin {Log, Alarm, Offline} /\ Say \notin OtherSteps
    /\ Alarm \notin {Log, Say, Offline} /\ Alarm \notin OtherSteps
    /\ Log \notin {Say, Alarm, Offline} /\ Log \notin OtherSteps
    /\ Offline \notin {Say, Alarm, Log} /\ Offline \notin OtherSteps
    /\ SeriousSteps \subseteq RowSteps
    /\ \A a, b : Remember(a) = Remember(b) => a = b
BY DEF RowSteps, CountSteps, SeriousSteps, OtherSteps, Remember, Count, Risks,
       Log, Tool, Subdomains, Read, Ask, Say, Alarm, Save, Offline

LEMMA StepNames ==
    /\ {Tool, Ask, Read, Subdomains, Save} \subseteq OtherSteps
    /\ Count(1) \in CountSteps /\ Count(3) \in CountSteps
    /\ \A risk \in Risks \cup {"INFO"} : Remember(risk) \in RowSteps
BY DEF OtherSteps, CountSteps, RowSteps

-------------------------------------------------------------------------------
(* What every run of a console observes *)

Quiet(r) == ~Has(r, RowSteps \ {Remember("LOW")})

\* The order of its steps, its log line aside.
Ordered(c, r) ==
    /\ r \in Runs
    /\ Preceded(r, RowSteps, {Say})
    /\ Followed(r, CountSteps, RowSteps \cup {Offline})
    /\ Followed(r, {Alarm}, SeriousSteps \cup {Offline})
    /\ c \in Persists => Preceded(r, RowSteps, CountSteps)
    /\ c = "gui" => Preceded(r, {Remember("CRITICAL")}, {Alarm}) \/ ~Has(r, CountSteps)
    /\ c = "test" => Preceded(r, SeriousSteps, {Alarm})
    /\ Once(r, {Alarm})
    /\ Once(r, {Say}) \/ (c \in Persists /\ Twice(r, {Say}) /\ Quiet(r))

WellFormed(c, r) == Ordered(c, r) /\ Preceded(r, RowSteps, {Log})

\* A step of no consequence in front changes nothing.
LEMMA QuietFirst ==
    ASSUME NEW c, NEW x \in OtherSteps \cup {Log}, NEW r, Ordered(c, r)
    PROVE  Ordered(c, Then(x, r))
<1>1. x \in AllSteps /\ r \in Runs /\ x \notin RowSteps /\ x \notin CountSteps /\ x # Alarm /\ x # Say
  BY StepKinds DEF Ordered, AllSteps
<1>2. x \notin SeriousSteps /\ x # Remember("CRITICAL")
  BY <1>1, StepKinds, StepNames DEF Risks
<1> QED BY <1>1, <1>2, ThenFacts DEF Ordered, Quiet

LEMMA LogFirst ==
    ASSUME NEW c, NEW r, Ordered(c, r)
    PROVE  WellFormed(c, Then(Log, r))
<1>1. Log \in AllSteps /\ r \in Runs /\ Log \notin RowSteps
  BY StepKinds DEF Ordered, AllSteps
<1> QED BY <1>1, ThenFacts, QuietFirst DEF WellFormed

LEMMA OtherFirst ==
    ASSUME NEW c, NEW x \in OtherSteps, NEW r, WellFormed(c, r)
    PROVE  WellFormed(c, Then(x, r))
<1>1. x \in AllSteps /\ r \in Runs /\ x \notin RowSteps
  BY StepKinds DEF WellFormed, Ordered, AllSteps
<1> QED BY <1>1, ThenFacts, QuietFirst DEF WellFormed
\* What follows the count of a scan: tools and the model, then its answer and its row.
Marks == CountSteps \cup RowSteps \cup {Alarm, Say, Offline}
Idle(e) == e \in Runs /\ ~Has(e, Marks)

LEMMA Vacuous ==
    ASSUME NEW r, NEW A, NEW B, ~Has(r, A)
    PROVE  Preceded(r, A, B) /\ Followed(r, A, B) /\ Once(r, A) /\ Twice(r, A)
           /\ \A C \in SUBSET A : ~Has(r, C)
BY DEF Preceded, Followed, Once, Twice, Has

LEMMA Idles ==
    ASSUME NEW e, Idle(e)
    PROVE  \A A \in SUBSET Marks : /\ ~Has(e, A) /\ Once(e, A) /\ Twice(e, A)
                                   /\ \A B : Preceded(e, A, B) /\ Followed(e, A, B)
BY Vacuous DEF Idle

LEMMA MarkSets ==
    {RowSteps, CountSteps, {Alarm}, {Say}, SeriousSteps, {Remember("CRITICAL")},
     RowSteps \ {Remember("LOW")}}
      \subseteq SUBSET Marks
BY StepKinds, StepNames DEF Marks, Risks

LEMMA Plain ==
    ASSUME NEW c, NEW e, Idle(e)
    PROVE  Ordered(c, e) /\ Ordered(c, Then(Say, e)) /\ Ordered(c, Then(Offline, e))
<1>1. e \in Runs /\ Say \in AllSteps /\ Offline \in AllSteps
  BY DEF Idle, AllSteps
<1>2. /\ Say \notin RowSteps /\ Say \notin CountSteps /\ Say # Alarm
      /\ Offline \notin RowSteps /\ Offline \notin CountSteps /\ Offline # Alarm /\ Offline # Say
      /\ {Say, Offline} \cap SeriousSteps = {}
      /\ Say # Remember("CRITICAL") /\ Offline # Remember("CRITICAL")
  BY StepKinds, StepNames DEF Risks
<1>3. Ordered(c, e)
  BY <1>1, Idles, MarkSets DEF Ordered
<1>4. Ordered(c, Then(Say, e))
  BY <1>1, <1>2, <1>3, Idles, MarkSets, ThenFacts DEF Ordered
<1>5. Ordered(c, Then(Offline, e))
  BY <1>1, <1>2, <1>3, Idles, MarkSets, ThenFacts DEF Ordered, Quiet
<1> QED BY <1>3, <1>4, <1>5

\* An answer with its row, and nothing that is counted.
Report(m, risk) ==
    /\ m \in Runs
    /\ ~Has(m, CountSteps) /\ ~Has(m, {Alarm}) /\ ~Has(m, RowSteps \ {Remember(risk)})
    /\ Has(m, {Remember(risk)})
    /\ Preceded(m, RowSteps, {Say}) /\ Once(m, {Say})

AnyRisk == Risks \cup {"INFO"}
Grave == {"CRITICAL", "MEDIUM"}

LEMMA ReportMade ==
    ASSUME NEW e, Idle(e), NEW risk \in AnyRisk
    PROVE  Report(Then(Say, Then(Remember(risk), e)), risk)
<1> DEFINE x == Remember(risk)
           m == Then(x, e)
<1>1. e \in Runs /\ Say \in AllSteps /\ x \in AllSteps /\ m \in Runs
  BY StepNames, ThenFacts DEF Idle, AllSteps, AnyRisk
<1>2. /\ x \in RowSteps /\ x \notin CountSteps /\ x # Alarm /\ x # Say
      /\ Say \notin RowSteps /\ Say \notin CountSteps /\ Say # Alarm
  BY StepKinds, StepNames DEF AnyRisk
<1>3. RowSteps \ {x} \in SUBSET Marks
  BY DEF Marks
<1>4. ~Has(e, CountSteps) /\ ~Has(e, {Alarm}) /\ ~Has(e, RowSteps \ {x}) /\ ~Has(e, {Say})
  BY <1>3, MarkSets, Idles
<1> HIDE DEF x
<1>5. /\ ~Has(m, CountSteps) /\ ~Has(m, {Alarm}) /\ ~Has(m, RowSteps \ {x}) /\ ~Has(m, {Say})
      /\ Has(m, {x})
  BY <1>1, <1>2, <1>4, ThenFacts
<1>6. Once(m, {Say})
  BY <1>5, Vacuous
<1> QED BY <1>1, <1>2, <1>5, <1>6, ThenFacts DEF Report, x

LEMMA ReportLater ==
    ASSUME NEW risk, NEW m, Report(m, risk), NEW q \in OtherSteps
    PROVE  Report(Then(q, m), risk)
<1>1. q \in AllSteps /\ q \notin RowSteps /\ q \notin CountSteps /\ q # Alarm /\ q # Say
  BY StepKinds DEF AllSteps
<1> QED BY <1>1, ThenFacts DEF Report

\* Which rows a report lacks, and which marks it is good for.
LEMMA ReportFacts ==
    ASSUME NEW risk \in AnyRisk, NEW m, Report(m, risk)
    PROVE  /\ \A A : A \subseteq RowSteps /\ Remember(risk) \notin A => ~Has(m, A)
           /\ \A A : Remember(risk) \in A => Has(m, A)
           /\ risk \notin Grave => ~Has(m, SeriousSteps)
           /\ risk # "CRITICAL" => ~Has(m, {Remember("CRITICAL")})
           /\ risk \in Grave => Has(m, SeriousSteps)
           /\ risk = "LOW" => Quiet(m)
           /\ Has(m, RowSteps)
<1>1. ASSUME NEW A, A \subseteq RowSteps, Remember(risk) \notin A PROVE ~Has(m, A)
  BY <1>1 DEF Has, Report
<1>2. ASSUME NEW A, Remember(risk) \in A PROVE Has(m, A)
  BY <1>2 DEF Has, Report
<1>3. Remember(risk) \in RowSteps /\ Remember("CRITICAL") \in RowSteps
  BY StepNames DEF AnyRisk, Risks
<1>4. risk \in Grave <=> Remember(risk) \in SeriousSteps
  BY StepKinds DEF Grave, SeriousSteps
<1>5. risk # "CRITICAL" => Remember(risk) \notin {Remember("CRITICAL")}
  BY StepKinds
<1> QED BY <1>1, <1>2, <1>3, <1>4, <1>5, StepKinds DEF Report, Quiet

\* Nothing counts it: a log analysis of the GUI, a whois.
LEMMA ReportAlone ==
    ASSUME NEW c, c \notin Persists, NEW risk \in AnyRisk, NEW m, Report(m, risk),
           c = "test" => risk \notin Grave
    PROVE  Ordered(c, m)
<1>1. \A B : Followed(m, CountSteps, B) /\ Followed(m, {Alarm}, B) /\ Once(m, {Alarm})
  BY Vacuous DEF Report
<1>2. c = "test" => Preceded(m, SeriousSteps, {Alarm})
  BY ReportFacts, Vacuous
<1> QED BY <1>1, <1>2 DEF Ordered, Report

\* The scan is counted first.
LEMMA ReportCounted ==
    ASSUME NEW c, NEW risk \in AnyRisk, NEW m, Report(m, risk), NEW k \in CountSteps,
           c = "gui" => risk # "CRITICAL", c = "test" => risk \notin Grave
    PROVE  Ordered(c, Then(k, m))
<1> DEFINE r == Then(k, m)
<1>1. /\ k \in AllSteps /\ k \notin RowSteps /\ k # Alarm /\ k # Say
      /\ k \notin SeriousSteps /\ k # Remember("CRITICAL") /\ m \in Runs
  BY StepKinds, StepNames DEF AllSteps, Report, Risks
<1>2. r \in Runs /\ ~Has(r, {Alarm}) /\ Preceded(r, RowSteps, {Say}) /\ Once(r, {Say})
      /\ Preceded(r, RowSteps, CountSteps)
  BY <1>1, ThenFacts DEF Report
<1>3. \A B : Followed(r, {Alarm}, B) /\ Once(r, {Alarm})
  BY <1>2, Vacuous
<1>4. Has(m, RowSteps \cup {Offline}) /\ Followed(m, CountSteps, RowSteps \cup {Offline})
  BY ReportFacts, Vacuous, StepNames DEF Report, AnyRisk
<1>5. Followed(r, CountSteps, RowSteps \cup {Offline})
  BY <1>1, <1>4, ThenFacts
<1>6. c = "test" => Preceded(r, SeriousSteps, {Alarm})
  BY <1>1, ReportFacts, Vacuous, ThenFacts
<1>7. c = "gui" => Preceded(r, {Remember("CRITICAL")}, {Alarm})
  BY <1>1, ReportFacts, Vacuous, ThenFacts
<1> QED BY <1>2, <1>3, <1>5, <1>6, <1>7 DEF Ordered

\* The log analysis of copilot_test.py raises the alarm before it reads the file.
LEMMA ReportAlarmed ==
    ASSUME NEW risk \in Grave, NEW m, Report(m, risk)
    PROVE  Ordered("test", Then(Alarm, m))
<1> DEFINE r == Then(Alarm, m)
<1>1. /\ Alarm \in AllSteps /\ Alarm \notin RowSteps /\ Alarm \notin CountSteps /\ Alarm # Say
      /\ Alarm \notin SeriousSteps /\ m \in Runs /\ risk \in AnyRisk
  BY StepKinds, StepNames DEF AllSteps, Report, Risks, Grave, AnyRisk
<1>2. r \in Runs /\ ~Has(r, CountSteps) /\ Preceded(r, RowSteps, {Say}) /\ Once(r, {Say})
      /\ Preceded(r, SeriousSteps, {Alarm}) /\ Once(r, {Alarm})
  <2>1. Once(m, {Alarm})
    BY Vacuous DEF Report
  <2> QED BY <1>1, <2>1, ThenFacts DEF Report
<1>3. \A B : Followed(r, CountSteps, B)
  BY <1>2, Vacuous
<1>4. Has(m, SeriousSteps \cup {Offline}) /\ Followed(m, {Alarm}, SeriousSteps \cup {Offline})
  BY <1>1, ReportFacts, Vacuous DEF Report, Has
<1>5. Followed(r, {Alarm}, SeriousSteps \cup {Offline})
  BY <1>1, <1>4, ThenFacts
<1> QED BY <1>2, <1>3, <1>5 DEF Ordered, Persists
\* JSON that is not an object: the audit is announced twice.
LEMMA SaidTwice ==
    ASSUME NEW c \in Persists, NEW e, Idle(e), NEW k \in CountSteps, NEW q \in OtherSteps
    PROVE  Ordered(c, Then(k, Then(q, Then(Say, Then(Say, Then(Remember("LOW"), e))))))
<1> DEFINE m == Then(Say, Then(Remember("LOW"), e))
           r3 == Then(Say, m)
           r2 == Then(q, r3)
           r1 == Then(k, r2)
<1>1. "LOW" \in AnyRisk /\ "LOW" \notin Grave /\ Report(m, "LOW")
  BY ReportMade DEF AnyRisk, Risks, Grave
<1>2. /\ m \in Runs /\ Quiet(m) /\ Has(m, RowSteps) /\ Once(m, {Say})
      /\ ~Has(m, CountSteps) /\ ~Has(m, {Alarm})
  BY <1>1, ReportFacts DEF Report
<1> HIDE DEF m
<1>3. /\ Say \in AllSteps /\ q \in AllSteps /\ k \in AllSteps
      /\ Say \notin RowSteps /\ Say \notin CountSteps /\ Say # Alarm
      /\ q \notin RowSteps /\ q \notin CountSteps /\ q # Alarm /\ q # Say
      /\ k \notin RowSteps /\ k # Say /\ k # Alarm
  BY StepKinds DEF AllSteps
<1>4. r3 \in Runs /\ r2 \in Runs /\ r1 \in Runs
  BY <1>2, <1>3, ThenFacts
<1>5. Quiet(r1) /\ ~Has(r1, {Alarm}) /\ ~Has(r2, CountSteps) /\ Has(r2, RowSteps)
  BY <1>2, <1>3, <1>4, ThenFacts DEF Quiet
<1>6. Has(r2, RowSteps \cup {Offline})
  BY <1>5 DEF Has
<1>7. Followed(r2, CountSteps, RowSteps \cup {Offline})
  BY <1>5, Vacuous
<1>8. Followed(r1, CountSteps, RowSteps \cup {Offline})
  BY <1>2, <1>3, <1>4, <1>6, <1>7, ThenFacts
<1>9. \A B : Followed(r1, {Alarm}, B) /\ Once(r1, {Alarm})
  BY <1>5, Vacuous
<1>10. Preceded(r1, RowSteps, {Say}) /\ Preceded(r1, RowSteps, CountSteps)
  BY <1>2, <1>3, <1>4, ThenFacts
<1>11. Twice(m, {Say})
  BY <1>2 DEF Once, Twice
<1>12. Twice(r1, {Say})
  BY <1>2, <1>3, <1>4, <1>11, ThenFacts
<1> QED BY <1>4, <1>5, <1>8, <1>9, <1>10, <1>12 DEF Ordered, Persists, m

\* The direct tools of the newest console count the scan after they have answered.
LEMMA CountedLate ==
    ASSUME NEW c \in Persists
    PROVE  Ordered(c, Then(Say, Then(Count(1), Then(Remember("LOW"), << >>))))
<1> DEFINE x == Remember("LOW")
           r3 == Then(x, << >>)
           r2 == Then(Count(1), r3)
           r1 == Then(Say, r2)
<1>1. /\ << >> \in Runs /\ Say \in AllSteps /\ Count(1) \in AllSteps /\ x \in AllSteps
      /\ x \in RowSteps /\ x \notin CountSteps /\ x # Alarm /\ x # Say
      /\ Say \notin RowSteps /\ Say \notin CountSteps /\ Say # Alarm
      /\ Count(1) \in CountSteps /\ Count(1) \notin RowSteps /\ Count(1) # Say /\ Count(1) # Alarm
  BY StepKinds, StepNames DEF AllSteps, Runs, Risks
<1> HIDE DEF x
<1>2. r3 \in Runs /\ r2 \in Runs /\ r1 \in Runs
  BY <1>1, ThenFacts
<1>3. Preceded(r1, RowSteps, {Say}) /\ Preceded(r1, RowSteps, CountSteps)
  <2>1. Preceded(r2, RowSteps, CountSteps)
    BY <1>1, <1>2, ThenFacts
  <2>2. Preceded(r1, RowSteps, CountSteps)
    BY <1>1, <1>2, <2>1, ThenFacts
  <2>3. Preceded(r1, RowSteps, {Say})
    BY <1>1, <1>2, ThenFacts
  <2> QED BY <2>2, <2>3
<1>4. ~Has(r1, {Alarm}) /\ ~Has(r2, {Say}) /\ ~Has(r3, CountSteps) /\ Has(r3, RowSteps \cup {Offline})
  BY <1>1, <1>2, ThenFacts, NothingLeft
<1>5. /\ Once(r1, {Alarm}) /\ Once(r2, {Say})
      /\ \A B : Followed(r1, {Alarm}, B) /\ Followed(r3, CountSteps, B)
  BY <1>4, Vacuous
<1>6. Followed(r2, CountSteps, RowSteps \cup {Offline})
  BY <1>1, <1>2, <1>4, <1>5, ThenFacts
<1>7. Followed(r1, CountSteps, RowSteps \cup {Offline})
  BY <1>1, <1>2, <1>6, ThenFacts
<1>8. Once(r1, {Say})
  <2>1. ~Has(r2, {Say}) /\ Once(r2, {Say})
    BY <1>4, <1>5
  <2> QED BY <1>1, <1>2, <2>1, ThenFacts
<1> QED BY <1>2, <1>3, <1>5, <1>7, <1>8 DEF Ordered, Persists, x

\* A scan without a database that finds something grave: counted, said, alarmed, kept.
LEMMA AlarmedScan ==
    ASSUME NEW c \in {"gui", "test"}, NEW e, Idle(e), NEW risk \in Grave
    PROVE  Ordered(c, Then(Count(1), Then(Tool, Then(Ask, Then(Say,
                          Then(Alarm, Then(Remember(risk), e)))))))
<1> DEFINE x == Remember(risk)
           r6 == Then(x, e)
           r5 == Then(Alarm, r6)
           r4 == Then(Say, r5)
           r3 == Then(Ask, r4)
           r2 == Then(Tool, r3)
           r1 == Then(Count(1), r2)
<1>1. /\ e \in Runs /\ {Say, Alarm, Ask, Tool, Count(1), x} \subseteq AllSteps
      /\ x \in RowSteps /\ x \in SeriousSteps /\ x \notin CountSteps /\ x # Alarm /\ x # Say
      /\ \A y \in {Say, Alarm, Ask, Tool} : y \notin RowSteps /\ y \notin CountSteps
      /\ Say # Alarm /\ Ask # Say /\ Ask # Alarm /\ Tool # Say /\ Tool # Alarm
      /\ Count(1) \in CountSteps /\ Count(1) \notin RowSteps /\ Count(1) # Say /\ Count(1) # Alarm
  BY StepKinds, StepNames DEF AllSteps, Idle, Risks, Grave, SeriousSteps
<1> HIDE DEF x
<1>2. r6 \in Runs /\ r5 \in Runs /\ r4 \in Runs /\ r3 \in Runs /\ r2 \in Runs /\ r1 \in Runs
  BY <1>1, ThenFacts
<1>3. ~Has(e, CountSteps) /\ ~Has(e, {Alarm}) /\ ~Has(e, {Say})
  BY MarkSets, Idles
<1>4. ~Has(r2, CountSteps) /\ ~Has(r6, {Alarm}) /\ ~Has(r5, {Say})
      /\ Has(r6, SeriousSteps) /\ Has(r2, RowSteps)
  BY <1>1, <1>2, <1>3, ThenFacts
<1>5. Has(r2, RowSteps \cup {Offline}) /\ Has(r6, SeriousSteps \cup {Offline})
  BY <1>4 DEF Has
<1>6. /\ \A B : Followed(r2, CountSteps, B) /\ Followed(r6, {Alarm}, B)
      /\ Once(r6, {Alarm}) /\ Once(r5, {Say})
  BY <1>4, Vacuous
<1>7. Followed(r1, CountSteps, RowSteps \cup {Offline})
  BY <1>1, <1>2, <1>5, <1>6, ThenFacts
<1>8. Followed(r5, {Alarm}, SeriousSteps \cup {Offline}) /\ Once(r5, {Alarm})
  <2>1. Alarm \in AllSteps /\ r6 \in Runs
    BY <1>1, <1>2
  <2> DEFINE B == SeriousSteps \cup {Offline}
  <2> HIDE DEF B, r6
  <2>2. Followed(r6, {Alarm}, B) /\ Has(r6, B)
    BY <1>5, <1>6 DEF B
  <2>3. Followed(r5, {Alarm}, B)
    BY <2>1, <2>2, ThenFacts
  <2> QED BY <1>4, <1>6, <2>1, <2>3, ThenFacts DEF B
<1>9. Followed(r1, {Alarm}, SeriousSteps \cup {Offline})
  <2>1. Followed(r4, {Alarm}, SeriousSteps \cup {Offline})
    BY <1>1, <1>2, <1>8, ThenFacts
  <2>2. Followed(r2, {Alarm}, SeriousSteps \cup {Offline})
    BY <1>1, <1>2, <2>1, ThenFacts
  <2> QED BY <1>1, <1>2, <2>2, ThenFacts
<1>a. Once(r1, {Alarm})
  BY <1>1, <1>2, <1>8, ThenFacts
<1>b. Once(r1, {Say})
  <2>1. Once(r4, {Say})
    BY <1>1, <1>2, <1>4, <1>6, ThenFacts
  <2>2. Once(r2, {Say})
    BY <1>1, <1>2, <2>1, ThenFacts
  <2> QED BY <1>1, <1>2, <2>2, ThenFacts
<1>c. Preceded(r1, RowSteps, {Say})
  BY <1>1, <1>2, ThenFacts
<1>10. Preceded(r1, RowSteps, {Alarm})
  BY <1>1, <1>2, ThenFacts
<1>11. Preceded(r1, SeriousSteps, {Alarm}) /\ Preceded(r1, {Remember("CRITICAL")}, {Alarm})
  <2>1. SeriousSteps \subseteq RowSteps /\ Remember("CRITICAL") \in RowSteps
    BY StepKinds, StepNames DEF Risks
  <2> QED BY <1>10, <2>1 DEF Preceded
<1> QED BY <1>2, <1>7, <1>9, <1>a, <1>b, <1>c, <1>11 DEF Ordered, Persists, x
-------------------------------------------------------------------------------
(* Every run of every console is well formed *)

\* Runs written out, step by step.
LEMMA Unrolled ==
    ASSUME NEW s \in Runs, s # << >>, NEW r \in Runs
    PROVE  s = Then(Head(s), Tail(s)) /\ s \o r = Then(Head(s), Tail(s) \o r)
BY DEF Then, Runs

LEMMA Written1 == \A a \in AllSteps : <<a>> = Then(a, << >>)
BY DEF Then

LEMMA Written2 == \A a, b \in AllSteps : <<a, b>> = Then(a, <<b>>)
<1> TAKE a, b \in AllSteps
<1> HIDE DEF AllSteps
<1>1. <<a, b>> \in Runs /\ <<a, b>> # << >>
  BY DEF Runs
<1>2. Head(<<a, b>>) = a /\ Tail(<<a, b>>) = <<b>>
  OBVIOUS
<1> QED BY <1>1, <1>2, Unrolled

LEMMA Written3 == \A a, b, c \in AllSteps : <<a, b, c>> = Then(a, <<b, c>>)
<1> TAKE a, b, c \in AllSteps
<1> HIDE DEF AllSteps
<1>1. <<a, b, c>> \in Runs /\ <<a, b, c>> # << >>
  BY DEF Runs
<1>2. Head(<<a, b, c>>) = a /\ Tail(<<a, b, c>>) = <<b, c>>
  OBVIOUS
<1> QED BY <1>1, <1>2, Unrolled

LEMMA Written4 == \A a, b, c, d \in AllSteps : <<a, b, c, d>> = Then(a, <<b, c, d>>)
<1> TAKE a, b, c, d \in AllSteps
<1> HIDE DEF AllSteps
<1>1. <<a, b, c, d>> \in Runs /\ <<a, b, c, d>> # << >>
  BY DEF Runs
<1>2. Head(<<a, b, c, d>>) = a /\ Tail(<<a, b, c, d>>) = <<b, c, d>>
  OBVIOUS
<1> QED BY <1>1, <1>2, Unrolled

LEMMA Written5 == \A a, b, c, d, e \in AllSteps : <<a, b, c, d, e>> = Then(a, <<b, c, d, e>>)
<1> TAKE a, b, c, d, e \in AllSteps
<1> HIDE DEF AllSteps
<1>1. <<a, b, c, d, e>> \in Runs /\ <<a, b, c, d, e>> # << >>
  BY DEF Runs
<1>2. Head(<<a, b, c, d, e>>) = a /\ Tail(<<a, b, c, d, e>>) = <<b, c, d, e>>
  OBVIOUS
<1> QED BY <1>1, <1>2, Unrolled

LEMMA Written6 == \A a, b, c, d, e, f \in AllSteps : <<a, b, c, d, e, f>> = Then(a, <<b, c, d, e, f>>)
<1> TAKE a, b, c, d, e, f \in AllSteps
<1> HIDE DEF AllSteps
<1>1. <<a, b, c, d, e, f>> \in Runs /\ <<a, b, c, d, e, f>> # << >>
  BY DEF Runs
<1>2. Head(<<a, b, c, d, e, f>>) = a /\ Tail(<<a, b, c, d, e, f>>) = <<b, c, d, e, f>>
  OBVIOUS
<1> QED BY <1>1, <1>2, Unrolled

\* Concatenation under a name the provers do not take apart.
Glued(r, s) == r \o s

LEMMA Grouped ==
    \A r, s, t \in Runs : Glued(r, s) \in Runs /\ Glued(Glued(r, s), t) = Glued(r, Glued(s, t))
<1> TAKE r, s, t \in Runs
<1> HIDE DEF AllSteps
<1> QED BY ConcatProperties, ConcatAssociative DEF Runs, Glued

LEMMA Regrouped ==
    \A r1, r2, r3, r4 \in Runs :
        Glued(Glued(Glued(r1, r2), r3), r4) = Glued(r1, Glued(r2, Glued(r3, r4)))
BY Grouped

LEMMA Joined ==
    /\ \A r \in Runs : << >> \o r = r
    /\ \A x \in AllSteps, s, r \in Runs : Then(x, s) \o r = Then(x, s \o r)
    /\ \A s, r \in Runs : s \o r \in Runs
<1> HIDE DEF AllSteps
<1>1. ASSUME NEW x \in AllSteps, NEW s \in Runs, NEW r \in Runs
      PROVE  Then(x, s) \o r = Then(x, s \o r)
  <2>1. Then(x, s) \in Runs /\ Then(x, s) # << >> /\ Head(Then(x, s)) = x /\ Tail(Then(x, s)) = s
    BY DEF Then, Runs
  <2> QED BY <2>1, Unrolled
<1> QED BY <1>1 DEF Runs

LEMMA Prefix1 == \A a \in AllSteps, r \in Runs : <<a>> \o r = Then(a, r)
BY DEF Then

LEMMA Prefix2 ==
    \A a, b \in AllSteps, r \in Runs :
      <<a, b>> \o r = Then(a, Then(b, r))
<1> TAKE a, b \in AllSteps, r \in Runs
<1> DEFINE t == <<b>>
<1>1. <<a, b>> = Then(a, t)
  BY Written2
<1>2. t \in Runs
  <2> HIDE DEF AllSteps
  <2> QED BY DEF Runs
<1>3. t \o r = Then(b, r)
  BY Prefix1
<1> HIDE DEF t
<1>4. Then(a, t) \o r = Then(a, t \o r)
  BY <1>2, Joined
<1> QED BY <1>1, <1>3, <1>4

LEMMA Prefix3 ==
    \A a, b, c \in AllSteps, r \in Runs :
      <<a, b, c>> \o r = Then(a, Then(b, Then(c, r)))
<1> TAKE a, b, c \in AllSteps, r \in Runs
<1> DEFINE t == <<b, c>>
<1>1. <<a, b, c>> = Then(a, t)
  BY Written3
<1>2. t \in Runs
  <2> HIDE DEF AllSteps
  <2> QED BY DEF Runs
<1>3. t \o r = Then(b, Then(c, r))
  BY Prefix2
<1> HIDE DEF t
<1>4. Then(a, t) \o r = Then(a, t \o r)
  BY <1>2, Joined
<1> QED BY <1>1, <1>3, <1>4

LEMMA Prefix4 ==
    \A a, b, c, d \in AllSteps, r \in Runs :
      <<a, b, c, d>> \o r = Then(a, Then(b, Then(c, Then(d, r))))
<1> TAKE a, b, c, d \in AllSteps, r \in Runs
<1> DEFINE t == <<b, c, d>>
<1>1. <<a, b, c, d>> = Then(a, t)
  BY Written4
<1>2. t \in Runs
  <2> HIDE DEF AllSteps
  <2> QED BY DEF Runs
<1>3. t \o r = Then(b, Then(c, Then(d, r)))
  BY Prefix3
<1> HIDE DEF t
<1>4. Then(a, t) \o r = Then(a, t \o r)
  BY <1>2, Joined
<1> QED BY <1>1, <1>3, <1>4

LEMMA Prefix5 ==
    \A a, b, c, d, e \in AllSteps, r \in Runs :
      <<a, b, c, d, e>> \o r = Then(a, Then(b, Then(c, Then(d, Then(e, r)))))
<1> TAKE a, b, c, d, e \in AllSteps, r \in Runs
<1> DEFINE t == <<b, c, d, e>>
<1>1. <<a, b, c, d, e>> = Then(a, t)
  BY Written5
<1>2. t \in Runs
  <2> HIDE DEF AllSteps
  <2> QED BY DEF Runs
<1>3. t \o r = Then(b, Then(c, Then(d, Then(e, r))))
  BY Prefix4
<1> HIDE DEF t
<1>4. Then(a, t) \o r = Then(a, t \o r)
  BY <1>2, Joined
<1> QED BY <1>1, <1>3, <1>4

LEMMA StepsKnown ==
    /\ {Log, Say, Alarm, Offline, Tool, Subdomains, Read, Ask, Save, Count(1), Count(3)}
         \subseteq AllSteps
    /\ \A risk \in AnyRisk : Remember(risk) \in AllSteps
BY StepNames DEF AllSteps, AnyRisk

\* Nothing at the end of a run, or a last line in the log, or a report file.
LEMMA IdleEnds == Idle(<< >>) /\ Idle(<<Log>>) /\ Idle(<<Save>>)
<1>1. << >> \in Runs /\ ~Has(<< >>, Marks)
  BY NothingLeft DEF Runs
<1>2. Log \in AllSteps /\ Save \in AllSteps /\ Log \notin Marks /\ Save \notin Marks
  BY StepKinds, StepNames DEF AllSteps, Marks
<1>3. <<Log>> = Then(Log, << >>) /\ <<Save>> = Then(Save, << >>)
  BY <1>2, Written1
<1> QED BY <1>1, <1>2, <1>3, ThenFacts DEF Idle

LEMMA WellFormedIdle == \A c : WellFormed(c, << >>)
BY IdleEnds, Plain, NothingLeft DEF WellFormed

\* The model is not there.
LEMMA OfflineRun ==
    ASSUME NEW c, NEW k \in CountSteps
    PROVE  <<Offline>> \in Runs /\ Ordered(c, <<Offline>>) /\ Ordered(c, Then(k, <<Offline>>))
<1>1. Offline \in AllSteps /\ k \in AllSteps /\ << >> \in Runs
  BY DEF AllSteps, Runs
<1>2. <<Offline>> = Then(Offline, << >>)
  BY <1>1, Written1
<1>3. <<Offline>> \in Runs /\ Ordered(c, <<Offline>>)
  <2>1. Then(Offline, << >>) \in Runs
    BY <1>1, ThenFacts
  <2>2. Ordered(c, Then(Offline, << >>))
    BY IdleEnds, Plain
  <2> QED BY <1>2, <2>1, <2>2
<1> DEFINE r == Then(Offline, << >>)
           s == Then(k, r)
<1>4. Offline \notin RowSteps /\ Offline \notin CountSteps /\ Offline # Alarm /\ Offline # Say
  BY StepKinds
<1>5. ~Has(r, RowSteps) /\ ~Has(r, CountSteps) /\ ~Has(r, {Alarm}) /\ ~Has(r, {Say})
      /\ Has(r, RowSteps \cup {Offline})
  BY <1>1, <1>4, ThenFacts, NothingLeft
<1>r. r \in Runs
  BY <1>1, ThenFacts
<1>6. k \notin RowSteps /\ k # Alarm /\ k # Say
  BY StepKinds
<1> HIDE DEF r
<1>7. s \in Runs /\ ~Has(s, RowSteps) /\ ~Has(s, {Alarm}) /\ ~Has(s, {Say})
  BY <1>1, <1>r, <1>5, <1>6, ThenFacts
<1>8. Followed(s, CountSteps, RowSteps \cup {Offline})
  <2>1. Followed(r, CountSteps, RowSteps \cup {Offline})
    BY <1>5, Vacuous
  <2> QED BY <1>1, <1>r, <1>5, <2>1, ThenFacts
<1>9. SeriousSteps \subseteq RowSteps /\ {Remember("CRITICAL")} \subseteq RowSteps
  BY StepKinds, StepNames DEF Risks
<1>10. /\ \A B : /\ Preceded(s, RowSteps, B) /\ Followed(s, {Alarm}, B)
                 /\ Preceded(s, SeriousSteps, B) /\ Preceded(s, {Remember("CRITICAL")}, B)
       /\ Once(s, {Alarm}) /\ Once(s, {Say})
  BY <1>7, <1>9, Vacuous
<1>11. Ordered(c, s)
  BY <1>7, <1>8, <1>10 DEF Ordered
<1> QED BY <1>2, <1>3, <1>11 DEF r

\* The model is asked, answers, and the scan gets its row.
LEMMA AskedRun ==
    ASSUME NEW c \in Persists, NEW k \in CountSteps, NEW risk \in AnyRisk
    PROVE  /\ <<Ask, Say, Remember(risk)>> \in Runs
           /\ Ordered(c, Then(k, <<Ask, Say, Remember(risk)>>))
<1> DEFINE q == <<Ask, Say, Remember(risk)>>
           m == Then(Say, Then(Remember(risk), << >>))
<1>1. Remember(risk) \in AllSteps /\ Ask \in AllSteps /\ Say \in AllSteps /\ Ask \in OtherSteps
  BY StepsKnown, StepNames
<1>2. q = Then(Ask, m)
  BY <1>1, Written1, Written2, Written3
<1>3. Report(m, risk)
  BY IdleEnds, ReportMade
<1>4. Report(Then(Ask, m), risk)
  BY <1>1, <1>3, ReportLater
<1>5. q \in Runs /\ Ordered(c, Then(k, q))
  BY <1>2, <1>4, ReportCounted DEF Report, Persists
<1> QED BY <1>5

\* The database consoles.
LEMMA ChainRuns ==
    ASSUME NEW c \in Persists, NEW p \in Prompts, NEW run \in ChainRoute(p)
    PROVE  WellFormed(c, run)
<1> SUFFICES ASSUME run # << >> PROVE WellFormed(c, run)
  BY WellFormedIdle
<1> DEFINE front == <<Log, Tool, Log, Tool, Log>>
<1>1. PICK ph \in {<<Log, Tool, Log>>, <<Log>>}, q \in WithModel({<<Ask, Say, Remember("MEDIUM")>>}) :
         run = ((front \o ph) \o <<Count(3)>>) \o q
  BY DEF ChainRoute, Prefixed
<1> DEFINE u == Then(Count(3), q)
<1>2. q \in Runs /\ Ordered(c, u)
  <2>1. CASE q = <<Offline>>
    BY <2>1, OfflineRun, StepNames
  <2>2. CASE q = <<Ask, Say, Remember("MEDIUM")>>
    BY <2>2, AskedRun, StepNames DEF AnyRisk, Risks
  <2> QED BY <2>1, <2>2 DEF WithModel
<1>a. Log \in AllSteps /\ Tool \in AllSteps /\ Count(3) \in AllSteps /\ Count(3) \in CountSteps
  BY StepsKnown, StepNames
<1>b. ph \in Runs /\ front \in Runs /\ <<Count(3)>> \in Runs /\ u \in Runs
  <2>1. front \in Runs
    BY <1>a DEF Runs
  <2>2. <<Log, Tool, Log>> \in Runs /\ <<Log>> \in Runs /\ <<Count(3)>> \in Runs
    BY <1>a DEF Runs
  <2>3. u \in Runs
    BY <1>2 DEF Ordered
  <2> QED BY <1>1, <2>1, <2>2, <2>3
<1>c. run = front \o (ph \o u)
  <2>1. <<Count(3)>> \o q = u
    BY DEF Then
  <2>2. ((front \o ph) \o <<Count(3)>>) \o q = front \o (ph \o (<<Count(3)>> \o q))
    <3> DEFINE one == <<Count(3)>>
    <3>1. one \in Runs /\ ph \in Runs /\ front \in Runs /\ q \in Runs
      BY <1>2, <1>b
    <3> HIDE DEF one, front
    <3>2. Glued(Glued(Glued(front, ph), one), q) = Glued(front, Glued(ph, Glued(one, q)))
      BY <3>1, Regrouped
    <3> QED BY <3>2 DEF one, front, Glued
  <2> QED BY <1>1, <2>1, <2>2
<1>3. run = Then(Log, Then(Tool, Then(Log, Then(Tool, Then(Log, ph \o u)))))
  <2>1. ph \o u \in Runs
    BY <1>b, Joined
  <2> DEFINE v == ph \o u
  <2>2. v \in Runs
    BY <2>1
  <2> HIDE DEF v
  <2>3. front \o v = Then(Log, Then(Tool, Then(Log, Then(Tool, Then(Log, v)))))
    BY <1>a, <2>2, Prefix5
  <2> QED BY <1>c, <2>3 DEF v
<1>4. ph \o u = Then(Log, Then(Tool, Then(Log, u))) \/ ph \o u = Then(Log, u)
  <2> HIDE DEF u
  <2>0. u \in Runs
    BY <1>b
  <2>1. <<Log, Tool, Log>> \o u = Then(Log, Then(Tool, Then(Log, u)))
    BY <1>a, <2>0, Prefix3
  <2>2. <<Log>> \o u = Then(Log, u)
    BY <1>a, <1>b, Prefix1
  <2> QED BY <1>1, <2>1, <2>2
<1>5. Ordered(c, ph \o u)
  <2>1. Ordered(c, Then(Log, u)) /\ Log \in OtherSteps \cup {Log} /\ Tool \in OtherSteps \cup {Log}
    BY <1>2, QuietFirst, StepNames
  <2>2. Ordered(c, Then(Log, Then(Tool, Then(Log, u))))
    BY <2>1, QuietFirst
  <2> QED BY <1>4, <2>1, <2>2
<1>6. Ordered(c, Then(Tool, Then(Log, Then(Tool, Then(Log, ph \o u)))))
  <2> DEFINE v == ph \o u
  <2> HIDE DEF v
  <2>0. Ordered(c, v) /\ Log \in OtherSteps \cup {Log} /\ Tool \in OtherSteps \cup {Log}
    BY <1>5, StepNames DEF v
  <2>1. Ordered(c, Then(Log, v))
    BY <2>0, QuietFirst
  <2>2. Ordered(c, Then(Tool, Then(Log, v)))
    BY <2>0, <2>1, QuietFirst
  <2>3. Ordered(c, Then(Log, Then(Tool, Then(Log, v))))
    BY <2>0, <2>2, QuietFirst
  <2>4. Ordered(c, Then(Tool, Then(Log, Then(Tool, Then(Log, v)))))
    BY <2>0, <2>3, QuietFirst
  <2> QED BY <2>4 DEF v
<1> QED BY <1>3, <1>6, LogFirst

\* A run without a row needs no log line.
LEMMA Rowless ==
    ASSUME NEW c, NEW r, Ordered(c, r), ~Has(r, RowSteps)
    PROVE  WellFormed(c, r)
BY Vacuous DEF WellFormed

\* The log line, a tool, and what follows.
LEMMA LogTool ==
    ASSUME NEW c, NEW q \in OtherSteps, NEW u, Ordered(c, u)
    PROVE  WellFormed(c, Then(Log, Then(q, u)))
<1>1. Ordered(c, Then(q, u))
  BY QuietFirst
<1> QED BY <1>1, LogFirst

LEMMA SayRuns ==
    \A c : /\ WellFormed(c, <<Say>>) /\ Ordered(c, <<Say>>)
           /\ WellFormed(c, <<Ask, Say>>)
<1> TAKE c
<1>1. /\ Ask \in AllSteps /\ Say \in AllSteps /\ Ask \in OtherSteps /\ Say \notin RowSteps
      /\ << >> \in Runs
  BY StepsKnown, StepNames, StepKinds DEF Runs
<1>2. <<Say>> = Then(Say, << >>)
  BY <1>1, Written1
<1>3. Ordered(c, <<Say>>)
  BY <1>2, IdleEnds, Plain
<1>4. ~Has(<<Say>>, RowSteps)
  BY <1>1, <1>2, ThenFacts, NothingLeft
<1>5. WellFormed(c, <<Say>>)
  BY <1>3, <1>4, Rowless
<1>6. <<Ask, Say>> = Then(Ask, <<Say>>)
  BY <1>1, Written2
<1>7. WellFormed(c, <<Ask, Say>>)
  BY <1>1, <1>5, <1>6, OtherFirst
<1> QED BY <1>3, <1>5, <1>7

LEMMA HeaderRuns ==
    ASSUME NEW c \in Persists, NEW p \in Prompts, NEW run \in HeaderRoute(p)
    PROVE  WellFormed(c, run)
<1> SUFFICES ASSUME run # << >> PROVE WellFormed(c, run)
  BY WellFormedIdle
<1>1. PICK y \in {<<Say>>} \cup Prefixed(<<Count(1)>>, WithModel(Prefixed(<<Ask>>, HeaderAnswers))) :
         run = <<Log, Tool>> \o y
  BY DEF HeaderRoute, Prefixed
<1>2. /\ Log \in AllSteps /\ Tool \in AllSteps /\ Say \in AllSteps /\ Ask \in AllSteps
      /\ Count(1) \in AllSteps /\ Count(1) \in CountSteps /\ Tool \in OtherSteps /\ Ask \in OtherSteps
  BY StepsKnown, StepNames
<1>3. Ordered(c, y)
  <2>1. CASE y = <<Say>>
    BY <2>1, SayRuns
  <2>2. CASE y \in Prefixed(<<Count(1)>>, WithModel(Prefixed(<<Ask>>, HeaderAnswers)))
    <3>1. PICK z \in WithModel(Prefixed(<<Ask>>, HeaderAnswers)) : y = <<Count(1)>> \o z
      BY <2>2 DEF Prefixed
    <3>2. z \in Runs /\ Ordered(c, Then(Count(1), z))
      <4>1. CASE z = <<Offline>>
        BY <1>2, <4>1, OfflineRun
      <4>2. ASSUME NEW risk \in Risks, z = <<Ask>> \o <<Say, Remember(risk)>>
            PROVE  z \in Runs /\ Ordered(c, Then(Count(1), z))
        <5>1. Remember(risk) \in AllSteps /\ risk \in AnyRisk
          BY StepsKnown DEF AnyRisk
        <5>2. <<Say, Remember(risk)>> \in Runs
          BY <1>2, <5>1 DEF Runs
        <5>3. z = Then(Ask, <<Say, Remember(risk)>>)
          BY <1>2, <4>2, <5>2, Prefix1
        <5>4. z = <<Ask, Say, Remember(risk)>>
          BY <1>2, <5>1, <5>3, Written3
        <5> QED BY <1>2, <5>1, <5>4, AskedRun
      <4>3. ASSUME z = <<Ask>> \o <<Say, Say, Remember("LOW")>>
            PROVE  z \in Runs /\ Ordered(c, Then(Count(1), z))
        <5>1. Remember("LOW") \in AllSteps
          BY StepsKnown DEF AnyRisk, Risks
        <5> DEFINE w == <<Say, Say, Remember("LOW")>>
        <5>2. w \in Runs
          BY <1>2, <5>1 DEF Runs
        <5>3. w = Then(Say, Then(Say, Then(Remember("LOW"), << >>)))
          <6>1. w = Then(Say, <<Say, Remember("LOW")>>)
            BY <1>2, <5>1, Written3
          <6>2. <<Say, Remember("LOW")>> = Then(Say, <<Remember("LOW")>>)
            BY <1>2, <5>1, Written2
          <6>3. <<Remember("LOW")>> = Then(Remember("LOW"), << >>)
            BY DEF Then
          <6> QED BY <6>1, <6>2, <6>3
        <5>4. z = Then(Ask, w)
          BY <1>2, <4>3, <5>2, Prefix1
        <5>5. z \in Runs
          BY <1>2, <5>2, <5>4, ThenFacts
        <5>6. Ordered(c, Then(Count(1), Then(Ask, Then(Say, Then(Say, Then(Remember("LOW"), << >>))))))
          BY <1>2, SaidTwice, IdleEnds
        <5> QED BY <5>3, <5>4, <5>5, <5>6
      <4> QED BY <4>1, <4>2, <4>3 DEF WithModel, Prefixed, HeaderAnswers
    <3> QED BY <1>2, <3>1, <3>2, Prefix1
  <2> QED BY <1>1, <2>1, <2>2
<1>4. run = Then(Log, Then(Tool, y))
  BY <1>1, <1>2, <1>3, Prefix2 DEF Ordered
<1> QED BY <1>2, <1>3, <1>4, LogTool

LEMMA DirectRuns ==
    ASSUME NEW c \in Persists, NEW q \in {Tool, Subdomains}
    PROVE  WellFormed(c, <<Log, q, Say, Count(1), Remember("LOW")>>)
<1> DEFINE x == Remember("LOW")
<1>1. /\ Log \in AllSteps /\ q \in AllSteps /\ Say \in AllSteps /\ Count(1) \in AllSteps
      /\ x \in AllSteps /\ q \in OtherSteps
  BY StepsKnown, StepNames DEF AnyRisk, Risks
<1>2. Ordered(c, Then(Say, Then(Count(1), Then(x, << >>))))
  BY CountedLate
<1> HIDE DEF x
<1>3. <<Say, Count(1), x>> = Then(Say, Then(Count(1), Then(x, << >>)))
  BY <1>1, Written1, Written2, Written3
<1>4. <<Log, q, Say, Count(1), x>> = Then(Log, Then(q, <<Say, Count(1), x>>))
  <2>1. <<Log, q, Say, Count(1), x>> = Then(Log, <<q, Say, Count(1), x>>)
    BY <1>1, Written5
  <2>2. <<q, Say, Count(1), x>> = Then(q, <<Say, Count(1), x>>)
    BY <1>1, Written4
  <2> QED BY <2>1, <2>2
<1> QED BY <1>1, <1>2, <1>3, <1>4, LogTool DEF x

LEMMA ChatRuns ==
    ASSUME NEW c, NEW run \in ChatRoute
    PROVE  WellFormed(c, run)
<1>1. CASE run = <<Ask, Say>>
  BY <1>1, SayRuns
<1>2. CASE run = <<Offline>>
  <2>1. Offline \in AllSteps /\ << >> \in Runs /\ Offline \notin RowSteps /\ Count(1) \in CountSteps
    BY StepsKnown, StepKinds, StepNames DEF Runs
  <2>2. <<Offline>> = Then(Offline, << >>)
    BY <2>1, Written1
  <2>3. ~Has(<<Offline>>, RowSteps)
    BY <2>1, <2>2, ThenFacts, NothingLeft
  <2> QED BY <1>2, <2>1, <2>3, OfflineRun, Rowless
<1> QED BY <1>1, <1>2 DEF ChatRoute, WithModel

LEMMA PersistRuns ==
    ASSUME NEW c \in Persists, NEW p \in Prompts, NEW run \in Routes(c, p)
    PROVE  WellFormed(c, run)
<1>1. ASSUME NEW target, NEW r \in DirectRoute(p, target) PROVE WellFormed(c, r)
  BY <1>1, DirectRuns, WellFormedIdle DEF DirectRoute
<1>2. ASSUME NEW r \in SubdomainRoute(p) PROVE WellFormed(c, r)
  BY <1>2, DirectRuns, WellFormedIdle DEF SubdomainRoute
<1>3. ASSUME NEW r \in ProRoutes(p) PROVE WellFormed(c, r)
  BY <1>3, ChainRuns, HeaderRuns, ChatRuns DEF ProRoutes
<1>4. ASSUME NEW r \in NewestRoutes(p) PROVE WellFormed(c, r)
  BY <1>1, <1>2, <1>4, ChainRuns, HeaderRuns, ChatRuns DEF NewestRoutes
<1>5. run \in NewestRoutes(p) \/ run \in ProRoutes(p)
  BY DEF Persists, Routes, OlderRoutes
<1> QED BY <1>3, <1>4, <1>5

\* The consoles without a database.  First the ends of their runs: a row, and perhaps a
\* last line in the log.
LEMMA RowEnds ==
    ASSUME NEW risk \in AnyRisk, NEW x, x = Remember(risk)
    PROVE  /\ x \in AllSteps
           /\ <<x>> = Then(x, << >>) /\ <<x>> \in Runs
           /\ <<x, Log>> = Then(x, <<Log>>) /\ <<x, Log>> \in Runs
           /\ <<Alarm, x, Log>> = Then(Alarm, <<x, Log>>) /\ <<Alarm, x, Log>> \in Runs
<1>1. x \in AllSteps /\ Log \in AllSteps /\ Alarm \in AllSteps /\ << >> \in Runs
  BY StepsKnown DEF Runs
<1>2. <<Log>> \in Runs
  BY <1>1 DEF Runs
<1>3. <<x>> = Then(x, << >>) /\ <<x>> \in Runs
  BY <1>1 DEF Then, Runs
<1>4. <<x, Log>> = Then(x, <<Log>>) /\ <<x, Log>> \in Runs
  BY <1>1, Written2 DEF Runs
<1>5. <<Alarm, x, Log>> = Then(Alarm, <<x, Log>>) /\ <<Alarm, x, Log>> \in Runs
  BY <1>1, Written3 DEF Runs
<1> QED BY <1>1, <1>3, <1>4, <1>5

LEMMA ScanReports ==
    ASSUME NEW risk \in AnyRisk, NEW e, Idle(e)
    PROVE  LET m == Then(Ask, Then(Say, Then(Remember(risk), e)))
           IN  Report(m, risk) /\ Report(Then(Tool, m), risk) /\ Report(Then(Read, m), risk)
BY ReportMade, ReportLater, StepNames

\* A scan of the GUI or of copilot_test.py.
LEMMA ScanRuns ==
    ASSUME NEW c \in {"gui", "test"}, NEW risk \in {"CRITICAL", "MEDIUM", "LOW"}, NEW y,
           \/ risk \in Grave /\ y = <<Alarm, Remember(risk), Log>>
           \/ /\ c = "gui" => risk # "CRITICAL"
              /\ c = "test" => risk \notin Grave
              /\ y = <<Remember(risk), Log>>
    PROVE  WellFormed(c, <<Log, Count(1), Tool, Ask, Say>> \o y)
<1> DEFINE x == Remember(risk)
           u == Then(Count(1), Then(Tool, Then(Ask, Then(Say, y))))
<1>1. /\ {Log, Count(1), Tool, Ask, Say} \subseteq AllSteps
      /\ Count(1) \in CountSteps /\ risk \in AnyRisk /\ Idle(<<Log>>)
  BY StepsKnown, StepNames, IdleEnds DEF AnyRisk, Risks
<1>2. y \in Runs /\ (y = Then(Alarm, Then(x, <<Log>>)) \/ y = Then(x, <<Log>>))
  BY <1>1, RowEnds
<1>3. Ordered(c, u)
  <2>1. CASE risk \in Grave /\ y = Then(Alarm, Then(x, <<Log>>))
    BY <1>1, <2>1, AlarmedScan
  <2>2. CASE /\ c = "gui" => risk # "CRITICAL"
             /\ c = "test" => risk \notin Grave
             /\ y = Then(x, <<Log>>)
    <3>1. Report(Then(Tool, Then(Ask, Then(Say, Then(x, <<Log>>)))), risk)
      BY <1>1, ScanReports
    <3> QED BY <1>1, <2>2, <3>1, ReportCounted
  <2> QED BY <1>1, <2>1, <2>2, RowEnds
<1>4. <<Log, Count(1), Tool, Ask, Say>> \o y = Then(Log, u)
  BY <1>1, <1>2, Prefix5
<1> QED BY <1>3, <1>4, LogFirst

\* An analysis of a log file, with or without an alarm before it.
LEMMA LogRuns ==
    ASSUME NEW risk \in Grave
    PROVE  /\ WellFormed("gui", <<Log, Read, Ask, Say>> \o <<Remember(risk)>>)
           /\ WellFormed("test", <<Log, Alarm, Read, Ask, Say>> \o <<Remember(risk), Log>>)
<1> DEFINE x == Remember(risk)
<1>1. /\ {Log, Alarm, Read, Ask, Say} \subseteq AllSteps
      /\ risk \in AnyRisk /\ Idle(<<Log>>) /\ Idle(<< >>)
  BY StepsKnown, IdleEnds DEF AnyRisk, Risks, Grave
<1>2. Report(Then(Read, Then(Ask, Then(Say, Then(x, << >>)))), risk)
      /\ Report(Then(Read, Then(Ask, Then(Say, Then(x, <<Log>>)))), risk)
  BY <1>1, ScanReports
<1>3. /\ <<x>> = Then(x, << >>) /\ <<x>> \in Runs
      /\ <<x, Log>> = Then(x, <<Log>>) /\ <<x, Log>> \in Runs
  BY <1>1, RowEnds
<1> HIDE DEF x
<1>4. Ordered("gui", Then(Read, Then(Ask, Then(Say, <<x>>))))
  BY <1>1, <1>2, <1>3, ReportAlone DEF Persists
<1>5. Ordered("test", Then(Alarm, Then(Read, Then(Ask, Then(Say, <<x, Log>>)))))
  BY <1>2, <1>3, ReportAlarmed
<1>6. \A y \in Runs : <<Log, Read, Ask, Say>> \o y = Then(Log, Then(Read, Then(Ask, Then(Say, y))))
  BY <1>1, Prefix4
<1>7. \A y \in Runs : <<Log, Alarm, Read, Ask, Say>> \o y
                        = Then(Log, Then(Alarm, Then(Read, Then(Ask, Then(Say, y)))))
  BY <1>1, Prefix5
<1>8. WellFormed("gui", <<Log, Read, Ask, Say>> \o <<x>>)
  BY <1>3, <1>4, <1>6, LogFirst
<1>9. WellFormed("test", <<Log, Alarm, Read, Ask, Say>> \o <<x, Log>>)
  BY <1>3, <1>5, <1>7, LogFirst
<1> QED BY <1>8, <1>9 DEF x

LEMMA WhoisRuns ==
    /\ WellFormed("gui", <<Log, Tool, Ask, Say, Remember("LOW")>>)
    /\ WellFormed("test", <<Log, Tool, Ask, Say, Remember("INFO"), Log>>)
<1> DEFINE x == Remember("LOW")
           z == Remember("INFO")
<1>1. /\ {Log, Tool, Ask, Say, x, z} \subseteq AllSteps
      /\ "LOW" \in AnyRisk /\ "INFO" \in AnyRisk \ Grave /\ Idle(<<Log>>) /\ Idle(<< >>)
  BY StepsKnown, IdleEnds DEF AnyRisk, Risks, Grave
<1>2. Report(Then(Tool, Then(Ask, Then(Say, Then(x, << >>)))), "LOW")
      /\ Report(Then(Tool, Then(Ask, Then(Say, Then(z, <<Log>>)))), "INFO")
  BY <1>1, ScanReports
<1>3. Ordered("gui", Then(Tool, Then(Ask, Then(Say, Then(x, << >>)))))
      /\ Ordered("test", Then(Tool, Then(Ask, Then(Say, Then(z, <<Log>>)))))
  BY <1>1, <1>2, ReportAlone DEF Persists
<1> HIDE DEF x, z
<1>4. <<Log, Tool, Ask, Say, x>> = Then(Log, Then(Tool, Then(Ask, Then(Say, Then(x, << >>)))))
  <2>1. <<Ask, Say, x>> = Then(Ask, <<Say, x>>) /\ <<Say, x>> = Then(Say, <<x>>)
    BY <1>1, Written2, Written3
  <2>2. <<Tool, Ask, Say, x>> = Then(Tool, <<Ask, Say, x>>)
    BY <1>1, Written4
  <2>3. <<Log, Tool, Ask, Say, x>> = Then(Log, <<Tool, Ask, Say, x>>)
    BY <1>1, Written5
  <2>4. <<x>> = Then(x, << >>)
    BY <1>1, Written1
  <2> QED BY <2>1, <2>2, <2>3, <2>4
<1>5. <<Log, Tool, Ask, Say, z, Log>> = Then(Log, Then(Tool, Then(Ask, Then(Say, Then(z, <<Log>>)))))
  <2>1. <<Ask, Say, z, Log>> = Then(Ask, <<Say, z, Log>>)
    BY <1>1, Written4
  <2>2. <<Say, z, Log>> = Then(Say, <<z, Log>>) /\ <<z, Log>> = Then(z, <<Log>>)
    BY <1>1, Written2, Written3
  <2>3. <<Tool, Ask, Say, z, Log>> = Then(Tool, <<Ask, Say, z, Log>>)
    BY <1>1, Written5
  <2>4. <<Log, Tool, Ask, Say, z, Log>> = Then(Log, <<Tool, Ask, Say, z, Log>>)
    BY <1>1, Written6
  <2> QED BY <2>1, <2>2, <2>3, <2>4
<1> QED BY <1>3, <1>4, <1>5, LogFirst DEF x, z

LEMMA GuiRuns ==
    ASSUME NEW p \in Prompts, NEW run \in GuiRoutes(p)
    PROVE  WellFormed("gui", run)
<1> SUFFICES ASSUME run # << >>, run # <<Ask, Say>> PROVE WellFormed("gui", run)
  BY WellFormedIdle, SayRuns
<1>1. CASE run \in GuiScan(p)
  <2>1. PICK y \in {<<Alarm, Remember("CRITICAL"), Log>>, <<Remember("MEDIUM"), Log>>,
                    <<Remember("LOW"), Log>>} :
           run = <<Log, Count(1), Tool, Ask, Say>> \o y
    BY <1>1 DEF GuiScan, Prefixed
  <2> QED BY <2>1, ScanRuns DEF Grave
<1>2. CASE run \in GuiLogAnalysis(p)
  <2>1. \E risk \in Grave : run = <<Log, Read, Ask, Say>> \o <<Remember(risk)>>
    BY <1>2 DEF GuiLogAnalysis, Prefixed, Grave
  <2> QED BY <2>1, LogRuns
<1>3. CASE run \in GuiWhois(p)
  BY <1>3, WhoisRuns DEF GuiWhois
<1> QED BY <1>1, <1>2, <1>3 DEF GuiRoutes

LEMMA TestRuns ==
    ASSUME NEW p \in Prompts, NEW run \in TestRoutes(p)
    PROVE  WellFormed("test", run)
<1>0. PICK d \in Decisions : \E r \in TestHandler(p, d) : run = <<Ask>> \o r
  BY DEF TestRoutes, Prefixed
<1>1. PICK r \in TestHandler(p, d) : run = <<Ask>> \o r
  BY <1>0
<1>2. WellFormed("test", r)
  <2> SUFFICES ASSUME r # << >>, r # <<Say>> PROVE WellFormed("test", r)
    BY WellFormedIdle, SayRuns
  <2>1. CASE r \in TestScan
    <3>1. PICK y \in {<<Alarm, Remember("CRITICAL"), Log>>, <<Alarm, Remember("MEDIUM"), Log>>,
                      <<Remember("LOW"), Log>>} :
             r = <<Log, Count(1), Tool, Ask, Say>> \o y
      BY <2>1 DEF TestScan, Prefixed
    <3> QED BY <3>1, ScanRuns DEF Grave
  <2>2. CASE r \in TestLogAnalysis
    <3>1. \E risk \in Grave : r = <<Log, Alarm, Read, Ask, Say>> \o <<Remember(risk), Log>>
      BY <2>2 DEF TestLogAnalysis, Prefixed, Grave
    <3> QED BY <3>1, LogRuns
  <2>3. CASE r \in TestWhois
    BY <2>3, WhoisRuns DEF TestWhois
  <2> QED BY <1>1, <2>1, <2>2, <2>3 DEF TestHandler
<1>3. run = Then(Ask, r)
  BY <1>1 DEF Then
<1> QED BY <1>2, <1>3, OtherFirst, StepNames

\* The chat page and the command line: nothing but answers.
LEMMA AgentRuns ==
    ASSUME NEW p \in Prompts, NEW run \in AgentRoutes(p)
    PROVE  WellFormed("agent", run)
<1>1. /\ Ask \in AllSteps /\ Tool \in AllSteps /\ Say \in AllSteps
      /\ Ask \in OtherSteps /\ Tool \in OtherSteps
  BY StepsKnown, StepNames
<1>2. <<Ask, Tool, Ask, Say>> = Then(Ask, <<Tool, Ask, Say>>)
  BY <1>1, Written4
<1>3. <<Tool, Ask, Say>> = Then(Tool, <<Ask, Say>>)
  BY <1>1, Written3
<1>4. WellFormed("agent", <<Tool, Ask, Say>>)
  BY <1>1, <1>3, SayRuns, OtherFirst
<1>5. WellFormed("agent", <<Ask, Tool, Ask, Say>>)
  BY <1>1, <1>2, <1>4, OtherFirst
<1> QED BY <1>5, SayRuns DEF AgentRoutes

LEMMA CliRuns ==
    ASSUME NEW p \in Prompts, NEW run \in CliRoutes(p)
    PROVE  WellFormed("cli", run)
<1>1. PICK r \in {<< >>, CliReport, <<Say>>} : run = <<Ask>> \o r
  BY DEF CliRoutes, Prefixed
<1>2. /\ Ask \in AllSteps /\ Tool \in AllSteps /\ Say \in AllSteps /\ Save \in AllSteps
      /\ Ask \in OtherSteps /\ Tool \in OtherSteps
  BY StepsKnown, StepNames
<1>3. WellFormed("cli", CliReport)
  <2>1. <<Say, Save>> = Then(Say, <<Save>>)
    BY <1>2, Written2
  <2>2. <<Ask, Say, Save>> = Then(Ask, <<Say, Save>>)
    BY <1>2, Written3
  <2>3. CliReport = Then(Tool, <<Ask, Say, Save>>)
    BY <1>2, Written4 DEF CliReport
  <2>4. Ordered("cli", <<Say, Save>>)
    BY <2>1, IdleEnds, Plain
  <2>5. ~Has(<<Say, Save>>, RowSteps)
    <3>1. ~Has(<<Save>>, RowSteps) /\ <<Save>> \in Runs /\ Say \notin RowSteps
      BY IdleEnds, Idles, MarkSets, StepKinds DEF Idle
    <3> QED BY <1>2, <2>1, <3>1, ThenFacts
  <2>6. WellFormed("cli", <<Say, Save>>)
    BY <2>4, <2>5, Rowless
  <2>7. WellFormed("cli", <<Ask, Say, Save>>)
    BY <1>2, <2>2, <2>6, OtherFirst
  <2> QED BY <1>2, <2>3, <2>7, OtherFirst
<1>4. WellFormed("cli", r)
  BY <1>1, <1>3, WellFormedIdle, SayRuns
<1>5. run = Then(Ask, r)
  BY <1>1 DEF Then
<1> QED BY <1>2, <1>4, <1>5, OtherFirst

LEMMA EveryRun ==
    ASSUME NEW c \in Consoles, NEW p \in Prompts, NEW run \in Routes(c, p)
    PROVE  WellFormed(c, run)
<1>1. CASE c \in Persists
  BY <1>1, PersistRuns
<1>2. CASE c = "gui"
  BY <1>2, GuiRuns DEF Routes
<1>3. CASE c = "test"
  BY <1>3, TestRuns DEF Routes
<1>4. CASE c = "agent"
  BY <1>4, AgentRuns DEF Routes
<1>5. CASE c = "cli"
  BY <1>5, CliRuns DEF Routes
<1> QED BY <1>1, <1>2, <1>3, <1>4, <1>5 DEF Consoles, Persists

-------------------------------------------------------------------------------
(* The story of a prompt: what its run has done, and what is left of it *)

\* r is left of the run of p, which has given n answers and has rows with the risks R; the
\* sets are those of the session: the prompts with a log line, those counted as a scan and
\* as a threat, and those whose run stopped short.
Story(c, r, p, n, R, announced, counted, alarmed, cut) ==
    /\ r \in Runs
    /\ p \in announced \/ (R = {} /\ Preceded(r, RowSteps, {Log}))
    /\ n > 0 \/ (R = {} /\ Preceded(r, RowSteps, {Say}))
    /\ c \in Persists => p \in counted \/ (R = {} /\ Preceded(r, RowSteps, CountSteps))
    /\ c = "test" => p \in alarmed \/ (R \cap Grave = {} /\ Preceded(r, SeriousSteps, {Alarm}))
    /\ c = "gui" => \/ p \in alarmed
                    \/ p \notin counted /\ ~Has(r, CountSteps)
                    \/ "CRITICAL" \notin R /\ Preceded(r, {Remember("CRITICAL")}, {Alarm})
    /\ Followed(r, CountSteps, RowSteps \cup {Offline})
    /\ p \in counted \ cut => R # {} \/ Has(r, RowSteps \cup {Offline})
    /\ Followed(r, {Alarm}, SeriousSteps \cup {Offline})
    /\ p \in alarmed \ cut => R \cap Grave # {} \/ Has(r, SeriousSteps \cup {Offline})
    /\ Once(r, {Alarm}) /\ (p \in alarmed => ~Has(r, {Alarm}))
    /\ LET lowOnly == c \in Persists /\ R \subseteq {"LOW"} /\ Quiet(r)
       IN  \/ n = 0 /\ (Once(r, {Say}) \/ (lowOnly /\ Twice(r, {Say})))
           \/ n = 1 /\ (~Has(r, {Say}) \/ (lowOnly /\ Once(r, {Say})))
           \/ n = 2 /\ ~Has(r, {Say}) /\ lowOnly

Left(p) == IF p = prompt THEN todo ELSE << >>
Answers(p) == Cardinality(Said("assistant", p))
RisksOf(p) == {row.risk : row \in RowsOf(p)}

StoryOf(p) == Story(console, Left(p), p, Answers(p), RisksOf(p), session.announced,
                    session.counted, session.alarmed, session.cut)

Roles == {"user", "assistant"}
Sessions == [talk : Seq(Roles \X Numbers), timeline : SUBSET RowSet, announced : SUBSET Numbers,
             scans : Nat, threats : Nat,
             counted : SUBSET Numbers, alarmed : SUBSET Numbers, cut : SUBSET Numbers]
Tables == [logs : SUBSET Numbers, scans : SUBSET RowSet]

Typed == /\ console \in Consoles /\ prompt \in 0..MaxPrompts
         /\ todo \in Runs /\ (todo # << >> => prompt > 0)
         /\ session \in Sessions /\ tables \in Tables /\ refused \in Tables

\* Nothing is known of a prompt that was not typed yet.
Numbered == /\ \A i \in DOMAIN session.talk : session.talk[i][2] <= prompt
            /\ \A row \in session.timeline \cup tables.scans : row.prompt <= prompt
            /\ \A p \in UNION {session.announced, session.counted, session.alarmed, session.cut} :
                 p <= prompt

\* The run that goes on belongs to the message at the end of the conversation.
Talking == /\ todo # << >> => /\ session.talk # << >>
                              /\ session.talk[Len(session.talk)][2] = prompt
           /\ \A i \in DOMAIN session.talk :
                session.talk[i][1] = "assistant" => i > 1 /\ session.talk[i - 1][2] = session.talk[i][2]
           /\ \A i, k \in DOMAIN session.talk :
                session.talk[i][1] = "user" /\ session.talk[i] = session.talk[k] => i = k

Stored == /\ console \in Persists =>
               /\ session.timeline \subseteq tables.scans \cup refused.scans
               /\ session.announced \subseteq tables.logs \cup refused.logs
          /\ \A row \in tables.scans : /\ row.prompt \in Asked => row \in session.timeline
                                       /\ row.prompt \in tables.logs \cup refused.logs
                                       /\ row.risk # "null"

Tallied == /\ session.scans >= Fresh(console).scans + Cardinality(session.counted)
           /\ session.threats = Fresh(console).threats + Cardinality(session.alarmed)

IInv == /\ Typed /\ Numbered /\ Talking /\ Stored /\ Tallied
        /\ \A p \in Numbers : StoryOf(p)

-------------------------------------------------------------------------------
(* How a story goes on.  It begins with a run of the console, ends where its run ends, *)
(* and each step of the run adds what it does.                                         *)

LEMMA StoryBegins ==
    ASSUME NEW c, NEW r, WellFormed(c, r), NEW p,
           NEW an, NEW cn, NEW al, NEW ct, p \notin cn, p \notin al
    PROVE  Story(c, r, p, 0, {}, an, cn, al, ct)
BY DEF Story, WellFormed, Ordered

LEMMA StoryUntold ==
    ASSUME NEW c, NEW p, NEW an, NEW cn, NEW al, NEW ct, p \notin cn, p \notin al
    PROVE  Story(c, << >>, p, 0, {}, an, cn, al, ct)
BY StoryBegins, WellFormedIdle

\* What stopped short, or said that the model is not there, need not end well.
LEMMA StoryStops ==
    ASSUME NEW c, NEW p, NEW n, NEW R, NEW an, NEW cn, NEW al, NEW ct,
           NEW r, Story(c, r, p, n, R, an, cn, al, ct)
    PROVE  Story(c, << >>, p, n, R, an, cn, al, ct \cup {p})
<1>1. << >> \in Runs
  BY DEF Runs
<1>2. Quiet(<< >>)
  BY NothingLeft DEF Quiet
<1> QED BY <1>1, <1>2, NothingLeft DEF Story

\* The risk of the row that a step adds, if it adds one.
RisksIn(step) == {risk \in AnyRisk : step = Remember(risk)}

\* One step of the run: what the session and the rows gain by it.
LEMMA StoryMoves ==
    ASSUME NEW c, NEW p, NEW n \in Nat, NEW R, NEW an, NEW cn, NEW al, NEW ct,
           NEW r, r # << >>, Story(c, r, p, n, R, an, cn, al, ct)
    PROVE  Story(c, Tail(r), p,
                 IF Head(r) = Say THEN n + 1 ELSE n,
                 R \cup RisksIn(Head(r)),
                 an \cup (IF Head(r) = Log THEN {p} ELSE {}),
                 cn \cup (IF Head(r) \in CountSteps THEN {p} ELSE {}),
                 al \cup (IF Head(r) = Alarm THEN {p} ELSE {}),
                 ct \cup (IF Head(r) = Offline THEN {p} ELSE {}))
<1> DEFINE x == Head(r)
           t == Tail(r)
           n2 == IF x = Say THEN n + 1 ELSE n
           R2 == R \cup RisksIn(x)
           an2 == an \cup (IF x = Log THEN {p} ELSE {})
           cn2 == cn \cup (IF x \in CountSteps THEN {p} ELSE {})
           al2 == al \cup (IF x = Alarm THEN {p} ELSE {})
           ct2 == ct \cup (IF x = Offline THEN {p} ELSE {})
<1>1. r \in Seq(AllSteps)
  BY DEF Story, Runs
<1>2. /\ t \in Runs
      /\ \A B : Has(r, B) <=> x \in B \/ Has(t, B)
      /\ \A A, B : Preceded(r, A, B) <=> x \notin A /\ (x \in B \/ Preceded(t, A, B))
      /\ \A A, B : Followed(r, A, B) <=> Followed(t, A, B) /\ (x \in A => Has(t, B))
      /\ \A B : Once(r, B) <=> Once(t, B) /\ (x \in B => ~Has(t, B))
      /\ \A B : Twice(r, B) <=> Twice(t, B) /\ (x \in B => Once(t, B))
  BY <1>1, FirstStep DEF Runs
<1> HIDE DEF x, t
<1> HIDE DEF n2, R2, an2, cn2, al2, ct2
<1>3. /\ Preceded(r, RowSteps, {Log}) => x \notin RowSteps /\ (x = Log \/ Preceded(t, RowSteps, {Log}))
      /\ Preceded(r, RowSteps, {Say}) => x \notin RowSteps /\ (x = Say \/ Preceded(t, RowSteps, {Say}))
      /\ Preceded(r, RowSteps, CountSteps)
           => x \notin RowSteps /\ (x \in CountSteps \/ Preceded(t, RowSteps, CountSteps))
      /\ Preceded(r, SeriousSteps, {Alarm})
           => x \notin SeriousSteps /\ (x = Alarm \/ Preceded(t, SeriousSteps, {Alarm}))
      /\ Preceded(r, {Remember("CRITICAL")}, {Alarm})
           => x # Remember("CRITICAL") /\ (x = Alarm \/ Preceded(t, {Remember("CRITICAL")}, {Alarm}))
  BY <1>2
<1>4. /\ Followed(r, CountSteps, RowSteps \cup {Offline})
           => /\ Followed(t, CountSteps, RowSteps \cup {Offline})
              /\ x \in CountSteps => Has(t, RowSteps \cup {Offline})
      /\ Followed(r, {Alarm}, SeriousSteps \cup {Offline})
           => /\ Followed(t, {Alarm}, SeriousSteps \cup {Offline})
              /\ x = Alarm => Has(t, SeriousSteps \cup {Offline})
  BY <1>2
<1>5. /\ Has(r, CountSteps) <=> x \in CountSteps \/ Has(t, CountSteps)
      /\ Has(r, RowSteps \cup {Offline})
           <=> x \in RowSteps \/ x = Offline \/ Has(t, RowSteps \cup {Offline})
      /\ Has(r, SeriousSteps \cup {Offline})
           <=> x \in SeriousSteps \/ x = Offline \/ Has(t, SeriousSteps \cup {Offline})
      /\ Has(r, {Alarm}) <=> x = Alarm \/ Has(t, {Alarm})
      /\ Has(r, {Say}) <=> x = Say \/ Has(t, {Say})
      /\ Quiet(r) <=> (x \in RowSteps => x = Remember("LOW")) /\ Quiet(t)
  BY <1>2 DEF Quiet
<1>6. /\ Once(r, {Alarm}) => Once(t, {Alarm}) /\ (x = Alarm => ~Has(t, {Alarm}))
      /\ Once(r, {Say}) => Once(t, {Say}) /\ (x = Say => ~Has(t, {Say}))
      /\ Twice(r, {Say}) => Twice(t, {Say}) /\ (x = Say => Once(t, {Say}))
  BY <1>2
<1>7. t \in Runs
  BY <1>2
<1>8. /\ x \in RowSteps => x \notin CountSteps /\ x # Log /\ x # Say /\ x # Alarm /\ x # Offline
      /\ x \in CountSteps => x # Log /\ x # Say /\ x # Alarm /\ x # Offline
      /\ Log # Say /\ Log # Alarm /\ Log # Offline
      /\ Say # Alarm /\ Say # Offline /\ Alarm # Offline
      /\ x \in SeriousSteps => x \in RowSteps
      /\ x = Remember("CRITICAL") => x \in SeriousSteps
  BY StepKinds DEF SeriousSteps
<1>9. /\ x \notin RowSteps => R2 = R
      /\ x \in RowSteps => R2 # {}
      /\ R # {} => R2 # {}
      /\ "CRITICAL" \in R2 <=> "CRITICAL" \in R \/ x = Remember("CRITICAL")
  BY DEF R2, RisksIn, RowSteps, AnyRisk, Risks
<1>10. R2 \cap Grave = {} <=> R \cap Grave = {} /\ x \notin SeriousSteps
  BY DEF R2, RisksIn, Grave, SeriousSteps, AnyRisk, Risks
<1>11. R2 \subseteq {"LOW"} <=> R \subseteq {"LOW"} /\ (x \in RowSteps => x = Remember("LOW"))
  BY StepKinds DEF R2, RisksIn, RowSteps, AnyRisk
<1>12. /\ p \in an2 <=> p \in an \/ x = Log
       /\ p \in cn2 <=> p \in cn \/ x \in CountSteps
       /\ p \in al2 <=> p \in al \/ x = Alarm
       /\ p \in ct2 <=> p \in ct \/ x = Offline
       /\ x = Say => n2 = n + 1 /\ n2 > 0
       /\ x # Say => n2 = n
  BY DEF n2, an2, cn2, al2, ct2
<1>a. p \in an2 \/ (R2 = {} /\ Preceded(t, RowSteps, {Log}))
  BY <1>3, <1>9, <1>12 DEF Story
<1>b. n2 > 0 \/ (R2 = {} /\ Preceded(t, RowSteps, {Say}))
  BY <1>3, <1>9, <1>12 DEF Story
<1>c. c \in Persists => p \in cn2 \/ (R2 = {} /\ Preceded(t, RowSteps, CountSteps))
  BY <1>3, <1>9, <1>12 DEF Story
<1>d. c = "test" => p \in al2 \/ (R2 \cap Grave = {} /\ Preceded(t, SeriousSteps, {Alarm}))
  BY <1>3, <1>10, <1>12 DEF Story
<1>e. c = "gui" => \/ p \in al2
                   \/ p \notin cn2 /\ ~Has(t, CountSteps)
                   \/ "CRITICAL" \notin R2 /\ Preceded(t, {Remember("CRITICAL")}, {Alarm})
  BY <1>3, <1>5, <1>9, <1>12 DEF Story
<1>f. /\ Followed(t, CountSteps, RowSteps \cup {Offline})
      /\ p \in cn2 \ ct2 => R2 # {} \/ Has(t, RowSteps \cup {Offline})
  BY <1>4, <1>5, <1>9, <1>12 DEF Story
<1>g. /\ Followed(t, {Alarm}, SeriousSteps \cup {Offline})
      /\ p \in al2 \ ct2 => R2 \cap Grave # {} \/ Has(t, SeriousSteps \cup {Offline})
  BY <1>4, <1>5, <1>10, <1>12 DEF Story
<1>h. /\ Once(t, {Alarm}) /\ (p \in al2 => ~Has(t, {Alarm}))
  BY <1>5, <1>6, <1>12 DEF Story
<1>i. LET lowOnly == c \in Persists /\ R2 \subseteq {"LOW"} /\ Quiet(t)
      IN  \/ n2 = 0 /\ (Once(t, {Say}) \/ (lowOnly /\ Twice(t, {Say})))
          \/ n2 = 1 /\ (~Has(t, {Say}) \/ (lowOnly /\ Once(t, {Say})))
          \/ n2 = 2 /\ ~Has(t, {Say}) /\ lowOnly
  <2> DEFINE low == c \in Persists /\ R \subseteq {"LOW"} /\ Quiet(r)
             low2 == c \in Persists /\ R2 \subseteq {"LOW"} /\ Quiet(t)
  <2>1. low => low2
    BY <1>5, <1>11
  <2>2. \/ n = 0 /\ (Once(r, {Say}) \/ (low /\ Twice(r, {Say})))
        \/ n = 1 /\ (~Has(r, {Say}) \/ (low /\ Once(r, {Say})))
        \/ n = 2 /\ ~Has(r, {Say}) /\ low
    BY DEF Story
  <2> HIDE DEF low, low2
  <2>3. \/ n2 = 0 /\ (Once(t, {Say}) \/ (low2 /\ Twice(t, {Say})))
        \/ n2 = 1 /\ (~Has(t, {Say}) \/ (low2 /\ Once(t, {Say})))
        \/ n2 = 2 /\ ~Has(t, {Say}) /\ low2
    BY <1>5, <1>6, <1>12, <2>1, <2>2
  <2> QED BY <2>3 DEF low2
<1>13. Story(c, t, p, n2, R2, an2, cn2, al2, ct2)
  BY <1>7, <1>a, <1>b, <1>c, <1>d, <1>e, <1>f, <1>g, <1>h, <1>i DEF Story
<1> QED BY <1>13 DEF x, t, n2, R2, an2, cn2, al2, ct2

-------------------------------------------------------------------------------
(* The conversation *)

Messages == Roles \X Numbers
Places(talk, m) == {i \in DOMAIN talk : talk[i] = m}

LEMMA Appended ==
    ASSUME NEW talk \in Seq(Messages), NEW m \in Messages
    PROVE  /\ Append(talk, m) \in Seq(Messages)
           /\ DOMAIN talk = 1..Len(talk) /\ Len(talk) \in Nat
           /\ DOMAIN Append(talk, m) = 1..(Len(talk) + 1)
           /\ Append(talk, m) # << >> /\ Len(Append(talk, m)) = Len(talk) + 1
           /\ Append(talk, m)[Len(talk) + 1] = m
           /\ \A i \in 1..Len(talk) : Append(talk, m)[i] = talk[i]
           /\ \A x : x # m => Places(Append(talk, m), x) = Places(talk, x)
           /\ Places(Append(talk, m), m) = Places(talk, m) \cup {Len(talk) + 1}
           /\ \A x : IsFiniteSet(Places(talk, x))
           /\ Cardinality(Places(Append(talk, m), m)) = Cardinality(Places(talk, m)) + 1
<1> DEFINE long == Append(talk, m)
           len == Len(talk)
<1> HIDE DEF Messages
<1>1. /\ long \in Seq(Messages) /\ DOMAIN talk = 1..len /\ len \in Nat
      /\ DOMAIN long = 1..(len + 1) /\ long # << >> /\ Len(long) = len + 1
      /\ long[len + 1] = m
      /\ \A i \in 1..len : long[i] = talk[i]
  OBVIOUS
<1> HIDE DEF long, len
<1>2. \A i \in 1..(len + 1) : i = len + 1 \/ i \in 1..len
  BY <1>1
<1>3. 1..len \subseteq 1..(len + 1) /\ len + 1 \in 1..(len + 1) /\ len + 1 \notin 1..len
  BY <1>1
<1>4. \A x : x # m => Places(long, x) = Places(talk, x)
  BY <1>1, <1>2, <1>3 DEF Places
<1>5. Places(long, m) = Places(talk, m) \cup {len + 1}
  BY <1>1, <1>2, <1>3 DEF Places
<1>6. \A x : IsFiniteSet(Places(talk, x))
  <2> TAKE x
  <2>1. Places(talk, x) \subseteq 1..len
    BY <1>1 DEF Places
  <2>2. IsFiniteSet(1..len)
    BY <1>1, FS_Interval
  <2> QED BY <2>1, <2>2, FS_Subset
<1>7. len + 1 \notin Places(talk, m)
  BY <1>1, <1>3 DEF Places
<1>8. Cardinality(Places(long, m)) = Cardinality(Places(talk, m)) + 1
  BY <1>5, <1>6, <1>7, FS_AddElement
<1> QED BY <1>1, <1>4, <1>5, <1>6, <1>8 DEF long, len

\* A message of the longer conversation is an old one or the new one.
LEMMA Longer ==
    ASSUME NEW talk \in Seq(Messages), NEW m \in Messages, NEW i \in DOMAIN Append(talk, m)
    PROVE  \/ i \in DOMAIN talk /\ Append(talk, m)[i] = talk[i]
           \/ i = Len(talk) + 1 /\ Append(talk, m)[i] = m
<1>1. i \in 1..Len(talk) \/ i = Len(talk) + 1
  BY Appended
<1> QED BY <1>1, Appended

LEMMA SaidPlaces == \A role, p : Said(role, p) = Places(session.talk, <<role, p>>)
BY DEF Said, Places

-------------------------------------------------------------------------------
(* The steps of a console, by what they change *)

\* The steps of a run that do not end it.
Move == \/ AddLog \/ AddHistory \/ Answer \/ CountScans \/ RaiseAlarm \/ Consult \/ GiveUp

\* A run that is stopped, and a session that is dropped.
Halt == /\ todo' = << >> /\ UNCHANGED <<console, prompt, tables, refused>>
        /\ session' = Stopped(session)
Renew == /\ todo' = << >> /\ UNCHANGED <<console, prompt, tables, refused>>
         /\ session' = NewSession

LEMMA Kinds == Next => Prompt \/ Move \/ Halt \/ Renew
BY DEF Next, RunStep, Move, Halt, Renew, Interrupt, Reload, Raise

LEMMA FreshTyped == \A c \in Consoles : Fresh(c).scans \in Nat /\ Fresh(c).threats \in Nat
BY DEF Consoles, Fresh, NewestSession, ProSession, OlderSession, GuiSession, TestSession, NoCounters

LEMMA NewSessionIs ==
    ASSUME console \in Consoles
    PROVE  /\ NewSession \in Sessions
           /\ NewSession.talk = << >> /\ NewSession.timeline = {} /\ NewSession.announced = {}
           /\ NewSession.counted = {} /\ NewSession.alarmed = {} /\ NewSession.cut = {}
           /\ NewSession.scans = Fresh(console).scans /\ NewSession.threats = Fresh(console).threats
BY FreshTyped DEF NewSession, Sessions

LEMMA StoppedIs ==
    ASSUME Typed
    PROVE  LET s == Stopped(session)
           IN  /\ s \in Sessions
               /\ s.talk = session.talk /\ s.timeline = session.timeline
               /\ s.announced = session.announced /\ s.counted = session.counted
               /\ s.alarmed = session.alarmed
               /\ s.scans = session.scans /\ s.threats = session.threats
               /\ s.cut = session.cut \cup (IF todo = << >> THEN {} ELSE {prompt})
<1>1. CASE todo = << >>
  BY <1>1 DEF Typed, Stopped, Sessions
<1>2. CASE todo # << >>
  <2>1. prompt \in Numbers
    BY <1>2, ConsoleAssumption DEF Typed, Numbers
  <2>2. Stopped(session) = [session EXCEPT !.cut = @ \cup {prompt}]
    BY <1>2 DEF Stopped
  <2>3. session \in Sessions
    BY DEF Typed
  <2> QED BY <1>2, <2>1, <2>2, <2>3 DEF Sessions
<1> QED BY <1>1, <1>2

\* The row that the next step of the run adds to the timeline.
NewRows == {[prompt |-> prompt, risk |-> risk] : risk \in RisksIn(Head(todo))}

LEMMA MoveIs ==
    ASSUME Typed, Move
    PROVE  /\ todo # << >> /\ todo' = Tail(todo) /\ Head(todo) \in AllSteps
           /\ console' = console /\ prompt' = prompt /\ prompt \in Numbers
           /\ session' \in Sessions /\ tables' \in Tables /\ refused' \in Tables
           /\ session'.talk = IF Head(todo) = Say
                              THEN Append(session.talk, <<"assistant", prompt>>) ELSE session.talk
           /\ session'.timeline = session.timeline \cup NewRows
           /\ session'.announced = session.announced \cup (IF Head(todo) = Log THEN {prompt} ELSE {})
           /\ session'.counted = session.counted \cup
                                   (IF Head(todo) \in CountSteps THEN {prompt} ELSE {})
           /\ session'.alarmed = session.alarmed \cup (IF Head(todo) = Alarm THEN {prompt} ELSE {})
           /\ session'.cut = session.cut \cup (IF Head(todo) = Offline THEN {prompt} ELSE {})
           /\ IF Head(todo) \in CountSteps THEN session'.scans > session.scans
                                           ELSE session'.scans = session.scans
           /\ session'.threats = session.threats + (IF Head(todo) = Alarm THEN 1 ELSE 0)
<1>1. todo # << >> /\ todo' = Tail(todo)
  BY DEF Move, AddLog, AddHistory, Answer, CountScans, RaiseAlarm, Consult, GiveUp, Steps
<1>2. Head(todo) \in AllSteps /\ prompt \in Numbers
  BY <1>1, ConsoleAssumption DEF Typed, Runs, Numbers
<1>3. /\ session \in Sessions /\ tables \in Tables /\ refused \in Tables
  BY DEF Typed
<1>4. /\ Head(todo) = Log => Head(todo) \notin CountSteps \cup RowSteps \cup {Say, Alarm, Offline}
      /\ Head(todo) = Say => Head(todo) \notin CountSteps \cup RowSteps \cup {Log, Alarm, Offline}
      /\ Head(todo) = Alarm => Head(todo) \notin CountSteps \cup RowSteps \cup {Log, Say, Offline}
      /\ Head(todo) = Offline => Head(todo) \notin CountSteps \cup RowSteps \cup {Log, Say, Alarm}
      /\ Head(todo) \in CountSteps => Head(todo) \notin RowSteps \cup {Log, Say, Alarm, Offline}
      /\ Head(todo) \in RowSteps => Head(todo) \notin CountSteps \cup {Log, Say, Alarm, Offline}
      /\ Head(todo) \in OtherSteps
           => Head(todo) \notin RowSteps \cup CountSteps \cup {Log, Say, Alarm, Offline}
  BY StepKinds
<1>5. Head(todo) \notin RowSteps => NewRows = {}
  BY StepNames DEF AnyRisk, RisksIn, NewRows
<1>a. session.scans \in Nat /\ session.threats \in Nat
  BY <1>3 DEF Sessions
<1>6. CASE AddLog
  <2>1. Head(todo) = Log /\ console' = console /\ prompt' = prompt
        /\ session' = [session EXCEPT !.announced = @ \cup {prompt}]
    BY <1>6 DEF AddLog, Steps
  <2>2. tables' \in Tables /\ refused' \in Tables
    BY <1>2, <1>3, <1>6 DEF AddLog, SaveLog, Tables
  <2>f. /\ session' \in Sessions
        /\ session'.announced = session.announced \cup {prompt}
        /\ session'.talk = session.talk /\ session'.timeline = session.timeline
        /\ session'.counted = session.counted
        /\ session'.alarmed = session.alarmed /\ session'.cut = session.cut
        /\ session'.scans = session.scans
        /\ session'.threats = session.threats
    BY <1>2, <1>3, <2>1 DEF Sessions
  <2> QED BY <2>f, <1>1, <1>2, <1>3, <1>4, <1>5, <1>a, <2>1, <2>2
<1>7. CASE AddHistory
  <2>1. PICK risk \in AnyRisk :
           /\ Head(todo) = Remember(risk) /\ console' = console /\ prompt' = prompt
           /\ session' = [session EXCEPT !.timeline = @ \cup {[prompt |-> prompt, risk |-> risk]}]
           /\ SaveScan([prompt |-> prompt, risk |-> risk])
    BY <1>7 DEF AddHistory, Steps, AnyRisk
  <2>2. NewRows = {[prompt |-> prompt, risk |-> risk]}
    BY <2>1, StepKinds DEF RisksIn, NewRows
  <2>3. [prompt |-> prompt, risk |-> risk] \in RowSet
    BY <1>2, <2>1 DEF RowSet, AnyRisk
  <2>4. tables' \in Tables /\ refused' \in Tables
    BY <1>3, <2>1, <2>3 DEF SaveScan, Tables
  <2>5. Head(todo) \in RowSteps
    BY <2>1, StepNames DEF AnyRisk
  <2>f. /\ session' \in Sessions
        /\ session'.timeline = session.timeline \cup {[prompt |-> prompt, risk |-> risk]}
        /\ session'.talk = session.talk /\ session'.announced = session.announced
        /\ session'.counted = session.counted
        /\ session'.alarmed = session.alarmed /\ session'.cut = session.cut
        /\ session'.scans = session.scans
        /\ session'.threats = session.threats
    BY <1>2, <1>3, <2>1, <2>3 DEF Sessions
  <2> QED BY <2>f, <1>1, <1>2, <1>3, <1>4, <1>5, <1>a, <2>1, <2>2, <2>3, <2>4, <2>5
<1>8. CASE Answer
  <2>1. Head(todo) = Say /\ UNCHANGED <<console, prompt, tables, refused>>
        /\ session' = [session EXCEPT !.talk = Append(@, <<"assistant", prompt>>)]
    BY <1>8 DEF Answer, Steps
  <2>2. Append(session.talk, <<"assistant", prompt>>) \in Seq(Roles \X Numbers)
    BY <1>2, <1>3 DEF Sessions, Roles
  <2>f. /\ session' \in Sessions
        /\ session'.talk = Append(session.talk, <<"assistant", prompt>>)
        /\ session'.timeline = session.timeline /\ session'.announced = session.announced
        /\ session'.counted = session.counted
        /\ session'.alarmed = session.alarmed /\ session'.cut = session.cut
        /\ session'.scans = session.scans
        /\ session'.threats = session.threats
    BY <1>2, <1>3, <2>1, <2>2 DEF Sessions
  <2> QED BY <2>f, <1>1, <1>2, <1>3, <1>4, <1>5, <1>a, <2>1, <2>2
<1>9. CASE CountScans
  <2>1. PICK k \in {1, 3} :
           /\ Head(todo) = Count(k) /\ UNCHANGED <<console, prompt, tables, refused>>
           /\ session' = [session EXCEPT !.scans = @ + k, !.counted = @ \cup {prompt}]
    BY <1>9 DEF CountScans, Steps
  <2>2. Head(todo) \in CountSteps
    BY <2>1 DEF CountSteps
  <2>g. session.scans + k \in Nat /\ session.scans + k > session.scans
    BY <1>a, <2>1
  <2>f. /\ session' \in Sessions
        /\ session'.counted = session.counted \cup {prompt}
        /\ session'.scans = session.scans + k
        /\ session'.talk = session.talk /\ session'.timeline = session.timeline
        /\ session'.announced = session.announced
        /\ session'.alarmed = session.alarmed /\ session'.cut = session.cut
        /\ session'.threats = session.threats
    BY <1>2, <1>3, <2>1, <2>g DEF Sessions
  <2> QED BY <2>f, <2>g, <1>1, <1>2, <1>3, <1>4, <1>5, <1>a, <2>1, <2>2
<1>10. CASE RaiseAlarm
  <2>1. Head(todo) = Alarm /\ UNCHANGED <<console, prompt, tables, refused>>
        /\ session' = [session EXCEPT !.threats = @ + 1, !.alarmed = @ \cup {prompt}]
    BY <1>10 DEF RaiseAlarm, Steps
  <2>g. session.threats + 1 \in Nat
    BY <1>a
  <2>f. /\ session' \in Sessions
        /\ session'.alarmed = session.alarmed \cup {prompt}
        /\ session'.threats = session.threats + 1
        /\ session'.talk = session.talk /\ session'.timeline = session.timeline
        /\ session'.announced = session.announced
        /\ session'.counted = session.counted /\ session'.cut = session.cut
        /\ session'.scans = session.scans
    BY <1>2, <1>3, <2>1, <2>g DEF Sessions
  <2> QED BY <2>f, <1>1, <1>2, <1>3, <1>4, <1>5, <1>a, <2>1
<1>11. CASE Consult
  <2>1. Head(todo) \in OtherSteps /\ UNCHANGED <<console, prompt, session, tables, refused>>
    BY <1>11 DEF Consult, Steps, OtherSteps
  <2> QED BY <1>1, <1>2, <1>3, <1>4, <1>5, <2>1 DEF Sessions
<1>12. CASE GiveUp
  <2>1. Head(todo) = Offline /\ UNCHANGED <<console, prompt, tables, refused>>
        /\ session' = [session EXCEPT !.cut = @ \cup {prompt}]
    BY <1>12 DEF GiveUp, Steps
  <2>f. /\ session' \in Sessions
        /\ session'.cut = session.cut \cup {prompt}
        /\ session'.talk = session.talk /\ session'.timeline = session.timeline
        /\ session'.announced = session.announced
        /\ session'.counted = session.counted /\ session'.alarmed = session.alarmed
        /\ session'.scans = session.scans
        /\ session'.threats = session.threats
    BY <1>2, <1>3, <2>1 DEF Sessions
  <2> QED BY <2>f, <1>1, <1>2, <1>3, <1>4, <1>5, <1>a, <2>1
<1> QED BY <1>6, <1>7, <1>8, <1>9, <1>10, <1>11, <1>12 DEF Move

\* What a step of a run does to the tables.
LEMMA MoveTables ==
    ASSUME Typed, Move
    PROVE  /\ tables.logs \subseteq tables'.logs /\ refused.logs \subseteq refused'.logs
           /\ tables.scans \subseteq tables'.scans /\ refused.scans \subseteq refused'.scans
           /\ tables'.scans \subseteq tables.scans \cup {row \in NewRows : row.risk # "null"}
           /\ console \notin Persists => tables'.scans = tables.scans
           /\ console \in Persists => NewRows \subseteq tables'.scans \cup refused'.scans
           /\ console \in Persists /\ Head(todo) = Log => prompt \in tables'.logs \cup refused'.logs
<1>1. tables \in Tables /\ refused \in Tables
  BY DEF Typed
<1>2. Head(todo) \notin RowSteps => NewRows = {}
  BY StepNames DEF AnyRisk, RisksIn, NewRows
<1>3. CASE AddLog
  <2>1. Head(todo) = Log /\ SaveLog
    BY <1>3 DEF AddLog, Steps
  <2>2. NewRows = {}
    BY <1>2, <2>1, StepKinds
  <2>3. CASE console \notin Persists
    BY <2>1, <2>2, <2>3 DEF SaveLog
  <2>4. CASE console \in Persists
    <3>1. PICK ok \in Taken("text") :
             /\ tables' = IF ok THEN [tables EXCEPT !.logs = @ \cup {prompt}] ELSE tables
             /\ refused' = IF ok THEN refused ELSE [refused EXCEPT !.logs = @ \cup {prompt}]
      BY <2>1, <2>4 DEF SaveLog
    <3>2. CASE ok
      BY <1>1, <2>2, <2>4, <3>1, <3>2 DEF Tables
    <3>3. CASE ~ok
      BY <1>1, <2>2, <2>4, <3>1, <3>3 DEF Tables
    <3> QED BY <3>2, <3>3
  <2> QED BY <2>3, <2>4
<1>4. CASE AddHistory
  <2>1. PICK risk \in AnyRisk : Head(todo) = Remember(risk) /\ SaveScan([prompt |-> prompt, risk |-> risk])
    BY <1>4 DEF AddHistory, Steps, AnyRisk
  <2> DEFINE row == [prompt |-> prompt, risk |-> risk]
  <2>2. NewRows = {row} /\ Head(todo) # Log
    BY <2>1, StepKinds, StepNames DEF RisksIn, NewRows, AnyRisk
  <2>3. CASE console \notin Persists
    BY <2>1, <2>2, <2>3 DEF SaveScan
  <2>4. CASE console \in Persists
    <3>1. PICK ok \in Taken(risk) :
             /\ tables' = IF ok THEN [tables EXCEPT !.scans = @ \cup {row}] ELSE tables
             /\ refused' = IF ok THEN refused ELSE [refused EXCEPT !.scans = @ \cup {row}]
      BY <2>1, <2>4 DEF SaveScan
    <3>2. ok => risk # "null"
      BY <3>1 DEF Taken
    <3> HIDE DEF row
    <3>3. CASE ok
      <4>1. row.risk # "null"
        BY <3>2, <3>3 DEF row
      <4>2. tables'.scans = tables.scans \cup {row} /\ tables'.logs = tables.logs /\ refused' = refused
        BY <1>1, <3>1, <3>3 DEF Tables
      <4> QED BY <2>2, <2>4, <4>1, <4>2
    <3>4. CASE ~ok
      <4>1. refused'.scans = refused.scans \cup {row} /\ refused'.logs = refused.logs /\ tables' = tables
        BY <1>1, <3>1, <3>4 DEF Tables
      <4> QED BY <2>2, <2>4, <4>1
    <3> QED BY <3>3, <3>4
  <2> QED BY <2>3, <2>4
<1>5. CASE Answer \/ CountScans \/ RaiseAlarm \/ Consult \/ GiveUp
  <2>1. tables' = tables /\ refused' = refused
    BY <1>5 DEF Answer, CountScans, RaiseAlarm, Consult, GiveUp
  <2>2. Head(todo) \in {Say, Alarm, Offline} \cup OtherSteps \cup CountSteps
    BY <1>5 DEF Answer, CountScans, RaiseAlarm, Consult, GiveUp, Steps, OtherSteps, CountSteps
  <2>3. Head(todo) \notin RowSteps /\ Head(todo) # Log
    BY <2>2, StepKinds
  <2> QED BY <1>2, <2>1, <2>3
<1> QED BY <1>3, <1>4, <1>5 DEF Move

LEMMA PromptIs ==
    ASSUME Typed, Prompt
    PROVE  /\ console' = console /\ prompt' = prompt + 1 /\ prompt' \in Numbers
           /\ tables' = tables /\ refused' = refused
           /\ WellFormed(console, todo') /\ todo' \in Runs
           /\ session' \in Sessions
           /\ session'.talk = Append(session.talk, <<"user", prompt + 1>>)
           /\ session'.timeline = session.timeline /\ session'.announced = session.announced
           /\ session'.counted = session.counted /\ session'.alarmed = session.alarmed
           /\ session'.scans = session.scans /\ session'.threats = session.threats
           /\ session'.cut = session.cut \cup (IF todo = << >> THEN {} ELSE {prompt})
<1>1. /\ console' = console /\ prompt' = prompt + 1 /\ prompt < MaxPrompts
      /\ tables' = tables /\ refused' = refused
      /\ session' = [Stopped(session) EXCEPT !.talk = Append(@, <<"user", prompt + 1>>)]
  BY DEF Prompt
<1>2. prompt' \in Numbers
  BY <1>1, ConsoleAssumption DEF Typed, Numbers
<1>3. WellFormed(console, todo')
  <2>1. PICK p \in Prompts : \E run \in Routes(console, p) : todo' = run
    BY DEF Prompt
  <2> QED BY <2>1, EveryRun DEF Typed
<1>4. Stopped(session) \in Sessions
  BY StoppedIs
<1>5. Append(Stopped(session).talk, <<"user", prompt + 1>>) \in Seq(Roles \X Numbers)
  BY <1>1, <1>2, <1>4 DEF Sessions, Roles
<1>6. /\ session' \in Sessions
      /\ session'.talk = Append(Stopped(session).talk, <<"user", prompt + 1>>)
      /\ session'.timeline = Stopped(session).timeline
      /\ session'.announced = Stopped(session).announced
      /\ session'.counted = Stopped(session).counted
      /\ session'.alarmed = Stopped(session).alarmed
      /\ session'.scans = Stopped(session).scans
      /\ session'.threats = Stopped(session).threats
      /\ session'.cut = Stopped(session).cut
  BY <1>1, <1>4, <1>5 DEF Sessions
<1> QED BY <1>1, <1>2, <1>3, <1>6, StoppedIs DEF WellFormed, Ordered

-------------------------------------------------------------------------------
(* The invariant *)

LEMMA IInvInit == Init => IInv
<1> SUFFICES ASSUME Init PROVE IInv
  OBVIOUS
<1>1. /\ console \in Consoles /\ prompt = 0 /\ todo = << >> /\ session = NewSession
      /\ tables = NoRows /\ refused = NoRows
  BY DEF Init
<1>2. Typed
  BY <1>1, NewSessionIs, ConsoleAssumption DEF Typed, Runs, Tables, NoRows
<1>3. Numbered /\ Talking /\ Stored
  BY <1>1, NewSessionIs DEF Numbered, Talking, Stored, NoRows
<1>4. Tallied
  <2>1. /\ session.scans = Fresh(console).scans /\ session.threats = Fresh(console).threats
        /\ session.counted = {} /\ session.alarmed = {}
    BY <1>1, NewSessionIs
  <2>2. Cardinality({}) = 0
    BY FS_EmptySet
  <2>3. Fresh(console).scans \in Nat /\ Fresh(console).threats \in Nat
    BY <1>1, FreshTyped
  <2> QED BY <2>1, <2>2, <2>3 DEF Tallied
<1>5. \A p \in Numbers : StoryOf(p)
  <2> TAKE p \in Numbers
  <2>1. Left(p) = << >> /\ RisksOf(p) = {} /\ Said("assistant", p) = {}
    BY <1>1, NewSessionIs DEF Left, RisksOf, RowsOf, Said
  <2>2. Answers(p) = 0
    BY <2>1, FS_EmptySet DEF Answers
  <2> QED BY <1>1, <2>1, <2>2, NewSessionIs, StoryUntold DEF StoryOf
<1> QED BY <1>2, <1>3, <1>4, <1>5 DEF IInv

LEMMA TypedStep == Typed /\ [Next]_vars => Typed'
<1> SUFFICES ASSUME Typed, [Next]_vars PROVE Typed'
  OBVIOUS
<1>1. CASE Prompt
  BY <1>1, PromptIs, ConsoleAssumption DEF Typed, Numbers
<1>2. CASE Move
  <2>1. todo' \in Runs
    <3>1. todo \in Seq(AllSteps) /\ todo # << >> /\ todo' = Tail(todo)
      BY <1>2, MoveIs DEF Typed, Runs
    <3> HIDE DEF AllSteps
    <3> QED BY <3>1 DEF Runs
  <2> QED BY <1>2, <2>1, MoveIs, ConsoleAssumption DEF Typed, Numbers
<1>3. CASE Halt
  BY <1>3, StoppedIs DEF Typed, Halt, Runs
<1>4. CASE Renew
  BY <1>4, NewSessionIs DEF Typed, Renew, Runs
<1>5. CASE UNCHANGED vars
  BY <1>5 DEF Typed, vars
<1> QED BY <1>1, <1>2, <1>3, <1>4, <1>5, Kinds

LEMMA NumberedStep == Typed /\ Numbered /\ [Next]_vars => Numbered'
<1> SUFFICES ASSUME Typed, Numbered, [Next]_vars PROVE Numbered'
  OBVIOUS
<1>0. /\ session.talk \in Seq(Messages) /\ prompt \in Int
      /\ \A p \in Numbers : p \in Int
      /\ UNION {session.announced, session.counted, session.alarmed, session.cut} \subseteq Numbers
      /\ \A row \in session.timeline \cup tables.scans : row.prompt \in Numbers
  BY ConsoleAssumption DEF Typed, Sessions, Messages, Numbers, Tables, RowSet
<1>1. CASE Prompt
  <2>1. prompt' = prompt + 1 /\ <<"user", prompt + 1>> \in Messages
    BY <1>1, PromptIs DEF Messages, Roles
  <2>2. \A i \in DOMAIN session.talk : session.talk[i][2] \in Int
    BY <1>0 DEF Messages
  <2>3. \A i \in DOMAIN session'.talk : session'.talk[i][2] <= prompt'
    <3>1. session'.talk = Append(session.talk, <<"user", prompt + 1>>)
      BY <1>1, PromptIs
    <3>2. \A i \in DOMAIN session'.talk : \/ i \in DOMAIN session.talk /\ session'.talk[i] = session.talk[i]
                                          \/ session'.talk[i] = <<"user", prompt + 1>>
      BY <1>0, <2>1, <3>1, Longer
    <3> QED BY <1>0, <2>1, <2>2, <3>2 DEF Numbered
  <2>4. \A row \in session'.timeline \cup tables'.scans : row.prompt <= prompt'
    BY <1>0, <1>1, <2>1, PromptIs DEF Numbered
  <2>5. \A p \in UNION {session'.announced, session'.counted, session'.alarmed, session'.cut} :
          p <= prompt'
    BY <1>0, <1>1, <2>1, PromptIs DEF Numbered
  <2> QED BY <2>3, <2>4, <2>5 DEF Numbered
<1>2. CASE Move
  <2>1. prompt' = prompt /\ <<"assistant", prompt>> \in Messages
    BY <1>2, MoveIs DEF Messages, Roles
  <2>2. \A i \in DOMAIN session'.talk : session'.talk[i][2] <= prompt'
    <3>1. CASE Head(todo) = Say
      <4>1. session'.talk = Append(session.talk, <<"assistant", prompt>>)
        BY <1>2, <3>1, MoveIs
      <4>2. \A i \in DOMAIN session'.talk : \/ i \in DOMAIN session.talk /\ session'.talk[i] = session.talk[i]
                                            \/ session'.talk[i] = <<"assistant", prompt>>
        BY <1>0, <2>1, <4>1, Longer
      <4> QED BY <1>0, <2>1, <4>2 DEF Numbered
    <3>2. CASE Head(todo) # Say
      BY <1>0, <1>2, <2>1, <3>2, MoveIs DEF Numbered
    <3> QED BY <3>1, <3>2
  <2>3. \A row \in NewRows : row.prompt = prompt
    BY DEF NewRows
  <2>4. \A row \in session'.timeline : row.prompt <= prompt'
    BY <1>0, <1>2, <2>1, <2>3, MoveIs DEF Numbered
  <2>5. \A row \in tables'.scans : row.prompt <= prompt'
    BY <1>0, <1>2, <2>1, <2>3, MoveTables DEF Numbered
  <2>6. \A p \in UNION {session'.announced, session'.counted, session'.alarmed, session'.cut} :
          p <= prompt'
    BY <1>0, <1>2, <2>1, MoveIs DEF Numbered
  <2> QED BY <2>2, <2>4, <2>5, <2>6 DEF Numbered
<1>3. CASE Halt
  BY <1>0, <1>3, StoppedIs DEF Numbered, Halt
<1>4. CASE Renew
  BY <1>4, NewSessionIs DEF Numbered, Renew, Typed
<1>5. CASE UNCHANGED vars
  BY <1>5 DEF Numbered, vars
<1> QED BY <1>1, <1>2, <1>3, <1>4, <1>5, Kinds

LEMMA TalkingStep == Typed /\ Numbered /\ Talking /\ [Next]_vars => Talking'
<1> SUFFICES ASSUME Typed, Numbered, Talking, [Next]_vars PROVE Talking'
  OBVIOUS
<1>0. /\ session.talk \in Seq(Messages) /\ prompt \in Nat
      /\ DOMAIN session.talk = 1..Len(session.talk) /\ Len(session.talk) \in Nat
  BY ConsoleAssumption DEF Typed, Sessions, Messages
<1> DEFINE talk == session.talk
           last == Len(session.talk)
\* A new message: the question of the next prompt, or an answer to the last message.
<1>1. ASSUME NEW m \in Messages, session'.talk = Append(talk, m), prompt' = m[2],
             \/ m[1] = "user" /\ \A i \in DOMAIN talk : talk[i] # m
             \/ m[1] = "assistant" /\ talk # << >> /\ talk[last][2] = m[2]
      PROVE  Talking'
  <2>1. /\ DOMAIN session'.talk = 1..(last + 1) /\ Len(session'.talk) = last + 1
        /\ session'.talk # << >> /\ session'.talk[last + 1] = m
        /\ \A i \in 1..last : session'.talk[i] = talk[i]
    BY <1>0, <1>1, Appended
  <2>2. \A i \in 1..(last + 1) : i \in 1..last \/ i = last + 1
    BY <1>0
  <2>3. session'.talk # << >> /\ session'.talk[Len(session'.talk)][2] = prompt'
    BY <1>1, <2>1
  <2>4. ASSUME NEW i \in DOMAIN session'.talk, session'.talk[i][1] = "assistant"
        PROVE  i > 1 /\ session'.talk[i - 1][2] = session'.talk[i][2]
    <3>1. CASE i \in 1..last
      <4>1. i > 1 /\ talk[i - 1][2] = talk[i][2]
        BY <1>0, <2>1, <2>4, <3>1 DEF Talking
      <4>2. i - 1 \in 1..last
        BY <1>0, <3>1, <4>1
      <4> QED BY <2>1, <3>1, <4>1, <4>2
    <3>2. CASE i = last + 1
      <4>1. talk # << >> /\ talk[last][2] = m[2]
        BY <1>1, <2>1, <2>4, <3>2
      <4>2. last > 0
        BY <1>0, <4>1
      <4>3. i > 1 /\ i - 1 = last /\ last \in 1..last
        BY <1>0, <3>2, <4>2
      <4> QED BY <2>1, <3>2, <4>1, <4>3
    <3> QED BY <2>1, <2>2, <3>1, <3>2
  <2>5. ASSUME NEW i \in DOMAIN session'.talk, NEW k \in DOMAIN session'.talk,
               session'.talk[i][1] = "user", session'.talk[i] = session'.talk[k]
        PROVE  i = k
    BY <1>0, <1>1, <2>1, <2>2, <2>5 DEF Talking
  <2> QED BY <2>3, <2>4, <2>5 DEF Talking
<1>2. CASE Prompt
  <2>1. prompt' = prompt + 1 /\ <<"user", prompt + 1>> \in Messages
        /\ session'.talk = Append(talk, <<"user", prompt + 1>>)
    BY <1>2, PromptIs DEF Messages, Roles
  <2>2. \A i \in DOMAIN talk : talk[i] # <<"user", prompt + 1>>
    BY <1>0 DEF Numbered
  <2> QED BY <1>1, <2>1, <2>2
<1>3. CASE Move
  <2>1. prompt' = prompt /\ todo # << >> /\ prompt \in Numbers
    BY <1>3, MoveIs
  <2>2. CASE Head(todo) = Say
    <3>1. <<"assistant", prompt>> \in Messages /\ session'.talk = Append(talk, <<"assistant", prompt>>)
      BY <1>3, <2>1, <2>2, MoveIs DEF Messages, Roles
    <3> QED BY <1>1, <2>1, <3>1 DEF Talking
  <2>3. CASE Head(todo) # Say
    <3>1. session'.talk = talk
      BY <1>3, <2>3, MoveIs
    <3> QED BY <2>1, <3>1 DEF Talking
  <2> QED BY <2>2, <2>3
<1>4. CASE Halt
  BY <1>4, StoppedIs DEF Talking, Halt
<1>5. CASE Renew
  BY <1>5, NewSessionIs DEF Talking, Renew, Typed
<1>6. CASE UNCHANGED vars
  BY <1>6 DEF Talking, vars
<1> QED BY <1>2, <1>3, <1>4, <1>5, <1>6, Kinds

LEMMA StoredStep ==
    Typed /\ Numbered /\ Stored /\ (todo # << >> => StoryOf(prompt)) /\ [Next]_vars => Stored'
<1> SUFFICES ASSUME Typed, Numbered, Stored, todo # << >> => StoryOf(prompt), [Next]_vars
             PROVE  Stored'
  OBVIOUS
<1>0. prompt \in Nat /\ session.talk \in Seq(Messages) /\ Numbers \subseteq Nat
  BY ConsoleAssumption DEF Typed, Sessions, Messages, Numbers
<1>1. CASE Prompt
  <2>1. /\ console' = console /\ tables' = tables /\ refused' = refused
        /\ session'.timeline = session.timeline /\ session'.announced = session.announced
    BY <1>1, PromptIs
  <2>2. \A row \in tables.scans : row.prompt \in Asked' => row.prompt \in Asked
    <3>1. session'.talk = Append(session.talk, <<"user", prompt + 1>>) /\ prompt' = prompt + 1
          /\ <<"user", prompt + 1>> \in Messages
      BY <1>1, PromptIs DEF Messages, Roles
    <3>2. \A x : x # <<"user", prompt + 1>> => Places(session'.talk, x) = Places(session.talk, x)
      BY <1>0, <3>1, Appended
    <3>3. ASSUME NEW row \in tables.scans, row.prompt \in Asked' PROVE row.prompt \in Asked
      <4>1. row.prompt <= prompt /\ row.prompt \in Numbers
        BY <3>3 DEF Numbered, Asked
      <4>2. <<"user", row.prompt>> # <<"user", prompt + 1>>
        BY <1>0, <4>1
      <4> QED BY <3>2, <3>3, <4>2 DEF Asked, Said, Places
    <3> QED BY <3>3
  <2> QED BY <2>1, <2>2 DEF Stored
<1>2. CASE Move
  <2>1. /\ todo # << >> /\ console' = console /\ prompt' = prompt
        /\ session'.timeline = session.timeline \cup NewRows
        /\ session'.announced = session.announced \cup (IF Head(todo) = Log THEN {prompt} ELSE {})
    BY <1>2, MoveIs
  <2>2. Asked' = Asked
    <3>1. CASE Head(todo) = Say
      <4>1. /\ session'.talk = Append(session.talk, <<"assistant", prompt>>)
            /\ <<"assistant", prompt>> \in Messages
        BY <1>2, <3>1, MoveIs DEF Messages, Roles
      <4>2. \A p : <<"user", p>> # <<"assistant", prompt>>
        OBVIOUS
      <4>3. \A p : Places(session'.talk, <<"user", p>>) = Places(session.talk, <<"user", p>>)
        BY <1>0, <4>1, <4>2, Appended
      <4> QED BY <4>3 DEF Asked, Said, Places
    <3>2. CASE Head(todo) # Say
      <4>1. session'.talk = session.talk
        BY <1>2, <3>2, MoveIs
      <4> QED BY <4>1 DEF Asked, Said
    <3> QED BY <3>1, <3>2
  <2>3. \A row \in NewRows : console \in Persists => row.prompt \in tables.logs \cup refused.logs
    <3> SUFFICES ASSUME NEW row \in NewRows, console \in Persists
                 PROVE  row.prompt \in tables.logs \cup refused.logs
      OBVIOUS
    <3>1. row.prompt = prompt /\ Head(todo) \in RowSteps
      BY StepNames DEF NewRows, RisksIn, AnyRisk
    <3>2. prompt \in session.announced
      <4>1. Story(console, todo, prompt, Answers(prompt), RisksOf(prompt), session.announced,
                  session.counted, session.alarmed, session.cut)
        BY <2>1 DEF StoryOf, Left
      <4>2. prompt \in session.announced \/ Preceded(todo, RowSteps, {Log})
        BY <4>1 DEF Story
      <4>3. todo \in Seq(AllSteps)
        BY DEF Typed, Runs
      <4> QED BY <2>1, <3>1, <4>2, <4>3, FirstStep
    <3> QED BY <3>1, <3>2 DEF Stored
  <2>4. console \in Persists => session'.timeline \subseteq tables'.scans \cup refused'.scans
    BY <1>2, <2>1, MoveTables DEF Stored
  <2>5. console \in Persists => session'.announced \subseteq tables'.logs \cup refused'.logs
    BY <1>2, <2>1, MoveTables DEF Stored
  <2>6. ASSUME NEW row \in tables'.scans
        PROVE  /\ row.prompt \in Asked => row \in session'.timeline
               /\ row.prompt \in tables'.logs \cup refused'.logs
               /\ row.risk # "null"
    <3>1. CASE row \in tables.scans
      BY <1>2, <2>1, <3>1, MoveTables DEF Stored
    <3>2. CASE row \in NewRows /\ row.risk # "null" /\ console \in Persists
      BY <1>2, <2>1, <2>3, <3>2, MoveTables
    <3> QED BY <1>2, <2>6, <3>1, <3>2, MoveTables
  <2> QED BY <2>1, <2>2, <2>4, <2>5, <2>6 DEF Stored
<1>3. CASE Halt
  BY <1>3, StoppedIs DEF Stored, Halt, Asked, Said
<1>4. CASE Renew
  <2>1. Asked' = {}
    BY <1>4, NewSessionIs DEF Asked, Said, Renew, Typed
  <2> QED BY <1>4, <2>1, NewSessionIs DEF Stored, Renew, Typed
<1>5. CASE UNCHANGED vars
  BY <1>5 DEF Stored, vars, Asked, Said
<1> QED BY <1>1, <1>2, <1>3, <1>4, <1>5, Kinds

LEMMA NumbersFinite == \A S \in SUBSET Numbers : IsFiniteSet(S) /\ Cardinality(S) \in Nat
<1>1. IsFiniteSet(Numbers)
  BY ConsoleAssumption, FS_Interval DEF Numbers
<1> QED BY <1>1, FS_Subset, FS_CardinalityType

LEMMA TalliedStep == Typed /\ Tallied /\ (todo # << >> => StoryOf(prompt)) /\ [Next]_vars => Tallied'
<1> SUFFICES ASSUME Typed, Tallied, todo # << >> => StoryOf(prompt), [Next]_vars PROVE Tallied'
  OBVIOUS
<1>0. /\ session.counted \in SUBSET Numbers /\ session.alarmed \in SUBSET Numbers
      /\ session.scans \in Nat /\ session.threats \in Nat
      /\ Fresh(console).scans \in Nat /\ Fresh(console).threats \in Nat
  BY FreshTyped DEF Typed, Sessions
<1>1. CASE Prompt
  BY <1>1, PromptIs DEF Tallied
<1>2. CASE Move
  <2>1. todo # << >> /\ console' = console
    BY <1>2, MoveIs
  <2>2. session'.scans >= Fresh(console).scans + Cardinality(session'.counted)
    <3>1. CASE Head(todo) \in CountSteps
      <4>1. session'.counted = session.counted \cup {prompt} /\ session'.scans > session.scans
            /\ session'.scans \in Nat
        BY <1>2, <3>1, MoveIs DEF Sessions
      <4>2. Cardinality(session.counted \cup {prompt}) <= Cardinality(session.counted) + 1
        <5>1. IsFiniteSet(session.counted) /\ Cardinality(session.counted) \in Nat
          BY <1>0, NumbersFinite
        <5>2. Cardinality(session.counted \cup {prompt})
                = IF prompt \in session.counted THEN Cardinality(session.counted)
                                                ELSE Cardinality(session.counted) + 1
          BY <5>1, FS_AddElement
        <5> QED BY <5>1, <5>2
      <4>3. Cardinality(session.counted) \in Nat /\ Cardinality(session.counted \cup {prompt}) \in Nat
        <5>1. prompt \in Numbers
          BY <1>2, MoveIs
        <5> QED BY <1>0, <5>1, NumbersFinite
      <4> QED BY <1>0, <4>1, <4>2, <4>3 DEF Tallied
    <3>2. CASE Head(todo) \notin CountSteps
      BY <1>2, <3>2, MoveIs DEF Tallied
    <3> QED BY <3>1, <3>2
  <2>3. session'.threats = Fresh(console).threats + Cardinality(session'.alarmed)
    <3>1. CASE Head(todo) = Alarm
      <4>1. session'.alarmed = session.alarmed \cup {prompt} /\ session'.threats = session.threats + 1
        BY <1>2, <3>1, MoveIs
      <4>2. prompt \notin session.alarmed
        <5>1. Story(console, todo, prompt, Answers(prompt), RisksOf(prompt), session.announced,
                    session.counted, session.alarmed, session.cut)
          BY <2>1 DEF StoryOf, Left
        <5>2. prompt \in session.alarmed => ~Has(todo, {Alarm})
          BY <5>1 DEF Story
        <5>3. todo \in Seq(AllSteps)
          BY DEF Typed, Runs
        <5> QED BY <2>1, <3>1, <5>2, <5>3, FirstStep
      <4>3. IsFiniteSet(session.alarmed) /\ Cardinality(session.alarmed) \in Nat
        BY <1>0, NumbersFinite
      <4>4. Cardinality(session.alarmed \cup {prompt}) = Cardinality(session.alarmed) + 1
        BY <4>2, <4>3, FS_AddElement
      <4> QED BY <1>0, <4>1, <4>3, <4>4 DEF Tallied
    <3>2. CASE Head(todo) # Alarm
      BY <1>0, <1>2, <3>2, MoveIs DEF Tallied
    <3> QED BY <3>1, <3>2
  <2> QED BY <2>1, <2>2, <2>3 DEF Tallied
<1>3. CASE Halt
  BY <1>3, StoppedIs DEF Tallied, Halt
<1>4. CASE Renew
  <2>1. /\ console' = console
        /\ session'.scans = Fresh(console).scans /\ session'.threats = Fresh(console).threats
        /\ session'.counted = {} /\ session'.alarmed = {}
    BY <1>4, NewSessionIs DEF Renew, Typed
  <2> QED BY <1>0, <2>1, FS_EmptySet DEF Tallied
<1>5. CASE UNCHANGED vars
  BY <1>5 DEF Tallied, vars
<1> QED BY <1>1, <1>2, <1>3, <1>4, <1>5, Kinds

LEMMA AnswersTyped == Typed => \A p \in Numbers : Answers(p) \in Nat
<1> SUFFICES ASSUME Typed, NEW p \in Numbers PROVE Answers(p) \in Nat
  OBVIOUS
<1> DEFINE S == Said("assistant", p)
<1>1. session.talk \in Seq(Messages) /\ <<"assistant", p>> \in Messages
  BY DEF Typed, Sessions, Messages, Roles
<1>2. IsFiniteSet(S)
  BY <1>1, SaidPlaces, Appended
<1> QED BY <1>2, FS_CardinalityType DEF Answers

LEMMA StoriesStep ==
    ASSUME Typed, Numbered, \A p \in Numbers : StoryOf(p), [Next]_vars, NEW q \in Numbers
    PROVE  StoryOf(q)'
<1>0. /\ session.talk \in Seq(Messages) /\ prompt \in Nat /\ Numbers \subseteq Nat
      /\ session.timeline \subseteq RowSet
  BY ConsoleAssumption DEF Typed, Sessions, Messages, Numbers
<1>s. Story(console, Left(q), q, Answers(q), RisksOf(q), session.announced,
            session.counted, session.alarmed, session.cut)
  BY DEF StoryOf
<1>1. CASE Prompt
  <2>1. /\ console' = console /\ prompt' = prompt + 1 /\ WellFormed(console, todo')
        /\ session'.timeline = session.timeline /\ session'.announced = session.announced
        /\ session'.counted = session.counted /\ session'.alarmed = session.alarmed
        /\ session'.cut = session.cut \cup (IF todo = << >> THEN {} ELSE {prompt})
    BY <1>1, PromptIs
  <2>2. Answers(q)' = Answers(q) /\ RisksOf(q)' = RisksOf(q)
    <3>1. session'.talk = Append(session.talk, <<"user", prompt + 1>>)
          /\ <<"user", prompt + 1>> \in Messages
      BY <1>1, PromptIs DEF Messages, Roles
    <3>2. <<"assistant", q>> # <<"user", prompt + 1>>
      OBVIOUS
    <3>3. Said("assistant", q)' = Said("assistant", q)
      BY <1>0, <3>1, <3>2, Appended DEF Said, Places
    <3> QED BY <2>1, <3>3 DEF Answers, RisksOf, RowsOf
  <2>3. CASE q = prompt + 1
    <3>1. Left(q)' = todo' /\ q # prompt
      BY <1>0, <2>1, <2>3 DEF Left
    <3>2. q \notin session.announced /\ q \notin session.counted /\ q \notin session.alarmed
      BY <1>0, <2>3 DEF Numbered
    <3>3. RisksOf(q) = {}
      BY <1>0, <2>3 DEF Numbered, RisksOf, RowsOf
    <3>4. Answers(q) = 0
      <4>1. Said("assistant", q) = {}
        BY <1>0, <2>3 DEF Numbered, Said
      <4> QED BY <4>1, FS_EmptySet DEF Answers
    <3>5. Story(console, todo', q, 0, {}, session'.announced, session'.counted,
                session'.alarmed, session'.cut)
      BY <2>1, <3>2, StoryBegins
    <3> QED BY <2>1, <2>2, <3>1, <3>3, <3>4, <3>5 DEF StoryOf
  <2>4. CASE q # prompt + 1
    <3>1. Left(q)' = << >>
      BY <2>1, <2>4 DEF Left
    <3>2. CASE q = prompt /\ todo # << >>
      <4>1. session'.cut = session.cut \cup {q}
        BY <2>1, <3>2
      <4>2. Story(console, << >>, q, Answers(q), RisksOf(q), session.announced,
                  session.counted, session.alarmed, session.cut \cup {q})
        BY <1>s, StoryStops
      <4> QED BY <2>1, <2>2, <3>1, <4>1, <4>2 DEF StoryOf
    <3>3. CASE ~(q = prompt /\ todo # << >>)
      <4>1. Left(q) = << >> /\ (q \in session'.cut <=> q \in session.cut)
        BY <2>1, <3>3 DEF Left
      <4>2. Story(console, << >>, q, Answers(q), RisksOf(q), session'.announced,
                  session'.counted, session'.alarmed, session'.cut)
        BY <1>s, <2>1, <4>1 DEF Story
      <4> QED BY <2>1, <2>2, <3>1, <4>2 DEF StoryOf
    <3> QED BY <3>2, <3>3
  <2> QED BY <2>3, <2>4
<1>2. CASE Move
  <2>1. /\ todo # << >> /\ todo' = Tail(todo) /\ Head(todo) \in AllSteps
        /\ console' = console /\ prompt' = prompt /\ prompt \in Numbers
        /\ session'.timeline = session.timeline \cup NewRows
        /\ session'.announced = session.announced \cup (IF Head(todo) = Log THEN {prompt} ELSE {})
        /\ session'.counted = session.counted \cup
                                (IF Head(todo) \in CountSteps THEN {prompt} ELSE {})
        /\ session'.alarmed = session.alarmed \cup (IF Head(todo) = Alarm THEN {prompt} ELSE {})
        /\ session'.cut = session.cut \cup (IF Head(todo) = Offline THEN {prompt} ELSE {})
    BY <1>2, MoveIs
  <2>2. Answers(q)' = IF q = prompt /\ Head(todo) = Say THEN Answers(q) + 1 ELSE Answers(q)
    <3>1. CASE Head(todo) = Say
      <4>1. /\ session'.talk = Append(session.talk, <<"assistant", prompt>>)
            /\ <<"assistant", prompt>> \in Messages
        BY <1>2, <2>1, <3>1, MoveIs DEF Messages, Roles
      <4>2. /\ Answers(q) = Cardinality(Places(session.talk, <<"assistant", q>>))
            /\ Answers(q)' = Cardinality(Places(session'.talk, <<"assistant", q>>))
        BY DEF Answers, Said, Places
      <4>3. CASE q = prompt
        <5>1. Cardinality(Places(session'.talk, <<"assistant", prompt>>))
                = Cardinality(Places(session.talk, <<"assistant", prompt>>)) + 1
          BY <1>0, <4>1, Appended
        <5> QED BY <3>1, <4>2, <4>3, <5>1
      <4>4. CASE q # prompt
        <5>1. <<"assistant", q>> # <<"assistant", prompt>>
          BY <4>4
        <5>2. Places(session'.talk, <<"assistant", q>>) = Places(session.talk, <<"assistant", q>>)
          BY <1>0, <4>1, <5>1, Appended
        <5> QED BY <4>2, <4>4, <5>2
      <4> QED BY <4>3, <4>4
    <3>2. CASE Head(todo) # Say
      <4>1. session'.talk = session.talk
        BY <1>2, <3>2, MoveIs
      <4> QED BY <3>2, <4>1 DEF Answers, Said
    <3> QED BY <3>1, <3>2
  <2>3. RisksOf(q)' = IF q = prompt THEN RisksOf(q) \cup RisksIn(Head(todo)) ELSE RisksOf(q)
    <3>1. CASE q = prompt
      <4>1. \A row \in NewRows : row.prompt = q
        BY <3>1 DEF NewRows
      <4>2. RowsOf(q)' = RowsOf(q) \cup NewRows
        BY <2>1, <4>1 DEF RowsOf
      <4>3. {row.risk : row \in NewRows} = RisksIn(Head(todo))
        <5>1. \A k : [prompt |-> prompt, risk |-> k].risk = k
          OBVIOUS
        <5> QED BY <5>1 DEF NewRows
      <4> QED BY <3>1, <4>2, <4>3 DEF RisksOf
    <3>2. CASE q # prompt
      BY <2>1, <3>2 DEF RisksOf, RowsOf, NewRows
    <3> QED BY <3>1, <3>2
  <2>4. CASE q = prompt
    <3>1. Left(q) = todo /\ Left(q)' = Tail(todo)
      BY <2>1, <2>4 DEF Left
    <3>2. Answers(q) \in Nat
      BY AnswersTyped
    <3>3. Story(console, todo, q, Answers(q), RisksOf(q), session.announced,
                session.counted, session.alarmed, session.cut)
      BY <1>s, <3>1
    <3>4. Story(console, Tail(todo), q,
                IF Head(todo) = Say THEN Answers(q) + 1 ELSE Answers(q),
                RisksOf(q) \cup RisksIn(Head(todo)),
                session.announced \cup (IF Head(todo) = Log THEN {q} ELSE {}),
                session.counted \cup (IF Head(todo) \in CountSteps THEN {q} ELSE {}),
                session.alarmed \cup (IF Head(todo) = Alarm THEN {q} ELSE {}),
                session.cut \cup (IF Head(todo) = Offline THEN {q} ELSE {}))
      <4>1. todo # << >>
        BY <2>1
      <4> QED BY <3>2, <3>3, <4>1, StoryMoves
    <3>5. Story(console, Tail(todo), q, Answers(q)', RisksOf(q)', session'.announced,
                session'.counted, session'.alarmed, session'.cut)
      BY <2>1, <2>2, <2>3, <2>4, <3>4
    <3> QED BY <2>1, <3>1, <3>5 DEF StoryOf
  <2>5. CASE q # prompt
    <3>1. Left(q) = << >> /\ Left(q)' = << >>
      BY <2>1, <2>5 DEF Left
    <3>2. /\ q \in session'.announced <=> q \in session.announced
          /\ q \in session'.counted <=> q \in session.counted
          /\ q \in session'.alarmed <=> q \in session.alarmed
          /\ q \in session'.cut <=> q \in session.cut
      BY <2>1, <2>5
    <3>3. Story(console, << >>, q, Answers(q), RisksOf(q), session'.announced,
                session'.counted, session'.alarmed, session'.cut)
      BY <1>s, <3>1, <3>2 DEF Story
    <3> QED BY <2>1, <2>2, <2>3, <2>5, <3>1, <3>3 DEF StoryOf
  <2> QED BY <2>4, <2>5
<1>3. CASE Halt
  <2>1. /\ console' = console /\ prompt' = prompt /\ todo' = << >>
        /\ session'.timeline = session.timeline /\ session'.announced = session.announced
        /\ session'.counted = session.counted /\ session'.alarmed = session.alarmed
        /\ session'.talk = session.talk
        /\ session'.cut = session.cut \cup (IF todo = << >> THEN {} ELSE {prompt})
    BY <1>3, StoppedIs DEF Halt
  <2>2. Answers(q)' = Answers(q) /\ RisksOf(q)' = RisksOf(q) /\ Left(q)' = << >>
    BY <2>1 DEF Answers, Said, RisksOf, RowsOf, Left
  <2>3. CASE q = prompt /\ todo # << >>
    <3>1. session'.cut = session.cut \cup {q}
      BY <2>1, <2>3
    <3>2. Story(console, << >>, q, Answers(q), RisksOf(q), session.announced,
                session.counted, session.alarmed, session.cut \cup {q})
      BY <1>s, StoryStops
    <3> QED BY <2>1, <2>2, <3>1, <3>2 DEF StoryOf
  <2>4. CASE ~(q = prompt /\ todo # << >>)
    <3>1. Left(q) = << >> /\ (q \in session'.cut <=> q \in session.cut)
      BY <2>1, <2>4 DEF Left
    <3>2. Story(console, << >>, q, Answers(q), RisksOf(q), session'.announced,
                session'.counted, session'.alarmed, session'.cut)
      BY <1>s, <2>1, <3>1 DEF Story
    <3> QED BY <2>1, <2>2, <3>2 DEF StoryOf
  <2> QED BY <2>3, <2>4
<1>4. CASE Renew
  <2>1. /\ console' = console /\ todo' = << >> /\ session'.talk = << >> /\ session'.timeline = {}
        /\ session'.counted = {} /\ session'.alarmed = {}
    BY <1>4, NewSessionIs DEF Renew, Typed
  <2>2. Said("assistant", q)' = {} /\ RisksOf(q)' = {} /\ Left(q)' = << >>
    BY <2>1 DEF Said, RisksOf, RowsOf, Left
  <2>3. Answers(q)' = 0
    BY <2>2, FS_EmptySet DEF Answers
  <2>4. Story(console, << >>, q, 0, {}, session'.announced, session'.counted,
              session'.alarmed, session'.cut)
    BY <2>1, StoryUntold
  <2> QED BY <2>1, <2>2, <2>3, <2>4 DEF StoryOf
<1>5. CASE UNCHANGED vars
  BY <1>5, <1>s DEF StoryOf, Left, Answers, Said, RisksOf, RowsOf, vars
<1> QED BY <1>1, <1>2, <1>3, <1>4, <1>5, Kinds

LEMMA IInvStep == IInv /\ [Next]_vars => IInv'
<1> SUFFICES ASSUME IInv, [Next]_vars PROVE IInv'
  OBVIOUS
<1>1. Typed /\ Numbered /\ Talking /\ Stored /\ Tallied /\ \A p \in Numbers : StoryOf(p)
  BY DEF IInv
<1>2. todo # << >> => StoryOf(prompt)
  BY <1>1, ConsoleAssumption DEF Typed, Numbers
<1>3. Typed'
  BY <1>1, TypedStep
<1>4. Numbered' /\ Talking' /\ Stored' /\ Tallied'
  BY <1>1, <1>2, NumberedStep, TalkingStep, StoredStep, TalliedStep
<1>5. \A p \in Numbers : StoryOf(p)'
  BY <1>1, StoriesStep
<1> QED BY <1>3, <1>4, <1>5 DEF IInv

\* In every run of every console, for any number of prompts and any faults.
THEOREM Invariant == Spec => []IInv
BY IInvInit, IInvStep, PTL DEF Spec

-------------------------------------------------------------------------------
(* What the invariant says of the dashboard *)

\* The session and the tables of a console (its session_state and database.py) keep their types.
THEOREM TypeCorrect == Spec => []TypeOK
<1>1. IInv => TypeOK
  <2> SUFFICES ASSUME Typed PROVE TypeOK
    BY DEF IInv
  <2>1. session.talk \in Seq(Messages) /\ DOMAIN session.talk = 1..Len(session.talk)
    BY DEF Typed, Sessions, Messages
  <2>2. \A i \in DOMAIN session.talk : session.talk[i] \in Messages
    BY <2>1
  <2> QED BY <2>2 DEF Typed, TypeOK, Sessions, Tables, Messages, Roles
<1> QED BY <1>1, Invariant, PTL

\* The timeline of a session and the tables tell what happened: a row was announced in
\* the log and answered, is stored or was refused, and the tables hold nothing else
\* (add_log, add_history, save_log, save_scan).
THEOREM TimelineTrue == Spec => []TimelineIsTrue
<1>1. IInv => TimelineIsTrue
  <2> SUFFICES ASSUME IInv PROVE TimelineIsTrue
    OBVIOUS
  <2>1. ASSUME NEW row \in session.timeline
        PROVE  /\ row.prompt \in session.announced
               /\ Said("assistant", row.prompt) # {}
               /\ console \in Persists => row \in tables.scans \cup refused.scans
    <3> DEFINE p == row.prompt
    <3>1. p \in Numbers /\ StoryOf(p)
      BY <2>1 DEF IInv, Typed, Sessions, RowSet
    <3>2. RisksOf(p) # {}
      BY <2>1 DEF RisksOf, RowsOf
    <3>3. p \in session.announced /\ Answers(p) > 0
      BY <3>1, <3>2 DEF StoryOf, Story
    <3>4. Said("assistant", p) # {}
      BY <3>3, FS_EmptySet DEF Answers
    <3> QED BY <2>1, <3>3, <3>4 DEF IInv, Stored
  <2> QED BY <2>1 DEF TimelineIsTrue, IInv, Stored
<1> QED BY <1>1, Invariant, PTL

\* The counters of the dashboard, total_scans and threats_found, agree with its timeline.
THEOREM CountersRight == Spec => []CountersAgree
<1>1. IInv => CountersAgree
  <2> SUFFICES ASSUME IInv PROVE CountersAgree
    OBVIOUS
  <2> DEFINE serious(row) == row.risk \in {"CRITICAL", "MEDIUM"}
  <2>1. ASSUME NEW p \in Asked, Over(p), p \notin session.cut
        PROVE  /\ p \in session.counted => RowsOf(p) # {}
               /\ p \in session.alarmed => \E row \in RowsOf(p) : serious(row)
    <3>1. p \in Numbers /\ StoryOf(p) /\ Left(p) = << >>
      BY <2>1 DEF IInv, Asked, Over, Left
    <3>2. /\ p \in session.counted => RisksOf(p) # {}
          /\ p \in session.alarmed => RisksOf(p) \cap Grave # {}
      BY <2>1, <3>1, NothingLeft DEF StoryOf, Story
    <3> QED BY <3>2 DEF RisksOf, Grave
  <2>2. ASSUME NEW row \in session.timeline
        PROVE  /\ console \in Persists => row.prompt \in session.counted
               /\ console = "gui" /\ row.risk = "CRITICAL" /\ row.prompt \in session.counted
                    => row.prompt \in session.alarmed
               /\ console = "test" /\ serious(row) => row.prompt \in session.alarmed
    <3> DEFINE p == row.prompt
    <3>1. p \in Numbers /\ StoryOf(p)
      BY <2>2 DEF IInv, Typed, Sessions, RowSet
    <3>2. row.risk \in RisksOf(p)
      BY <2>2 DEF RisksOf, RowsOf
    <3> QED BY <3>1, <3>2 DEF StoryOf, Story, Grave
  <2> QED BY <2>1, <2>2 DEF CountersAgree, IInv, Tallied
<1> QED BY <1>1, Invariant, PTL

\* An answer stands under its own prompt, and a prompt has one, whatever interrupts it;
\* a header audit of a database console may have two, and is then a LOW one.
THEOREM AnswersRight == Spec => []AnswersInPlace
<1>1. IInv => AnswersInPlace
  <2> SUFFICES ASSUME IInv PROVE AnswersInPlace
    OBVIOUS
  <2>1. ASSUME NEW p \in Asked
        PROVE  /\ Cardinality(Said("user", p)) = 1
               /\ Cardinality(Said("assistant", p)) <= IF console \in Persists THEN 2 ELSE 1
               /\ Cardinality(Said("assistant", p)) = 2 => \A row \in RowsOf(p) : row.risk = "LOW"
    <3>1. p \in Numbers /\ StoryOf(p)
      BY DEF IInv, Asked
    <3>2. Cardinality(Said("user", p)) = 1
      <4>1. PICK i \in Said("user", p) : TRUE
        BY DEF Asked
      <4>2. Said("user", p) = {i}
        BY <4>1 DEF IInv, Talking, Said
      <4> QED BY <4>2, FS_Singleton
    <3>3. /\ Answers(p) \in {0, 1} \/ (Answers(p) = 2 /\ console \in Persists)
          /\ Answers(p) = 2 => RisksOf(p) \subseteq {"LOW"}
      BY <3>1 DEF StoryOf, Story
    <3>4. Answers(p) <= IF console \in Persists THEN 2 ELSE 1
      BY <3>3
    <3>5. Answers(p) = 2 => \A row \in RowsOf(p) : row.risk = "LOW"
      BY <3>3 DEF RisksOf
    <3> QED BY <3>2, <3>4, <3>5 DEF Answers
  <2> QED BY <2>1 DEF AnswersInPlace, IInv, Talking
<1> QED BY <1>1, Invariant, PTL
===============================================================================
