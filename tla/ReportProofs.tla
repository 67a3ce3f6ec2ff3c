------------------------------ MODULE ReportProofs ------------------------------
(* What is written of a run, for every registry, options and number of     *)
(* invocations: finished reports are honest, and the others look it.       *)
EXTENDS RunnerProofs

----------------------------------------------------------------------------
(* Counting lines                                                          *)

LEMMA AmongFinite ==
  ASSUME NEW S, NEW s \in Seq(S), NEW kind
  PROVE  /\ Among(s, kind) \subseteq 1 .. Len(s) /\ Len(s) \in Nat
         /\ IsFiniteSet(Among(s, kind)) /\ Cardinality(Among(s, kind)) \in Nat
  <1>1. Among(s, kind) \subseteq 1 .. Len(s) /\ Len(s) \in Nat
    BY LenProperties DEF Among
  <1>2. IsFiniteSet(1 .. Len(s))
    BY <1>1, FS_Interval
  <1> QED
    BY <1>1, <1>2, FS_Subset, FS_CardinalityType

(* A line of interest and details that are not, written after others. *)
LEMMA AmongConcat ==
  ASSUME NEW S, NEW s \in Seq(S), NEW a \in S, NEW d \in Seq(S)
  PROVE  LET t == s \o (<<a>> \o d) IN
           /\ t \in Seq(S) /\ Len(t) = Len(s) + 1 + Len(d)
           /\ Len(s) \in Nat /\ Len(d) \in Nat
           /\ \A i \in 1 .. Len(s) : t[i] = s[i]
           /\ t[Len(s) + 1] = a
           /\ \A i \in 1 .. Len(d) : t[Len(s) + 1 + i] = d[i]
  <1> DEFINE u == <<a>> \o d
             t == s \o u
  <1>1. /\ u \in Seq(S) /\ Len(u) = 1 + Len(d) /\ u[1] = a
        /\ Len(d) \in Nat /\ \A i \in 1 .. Len(d) : u[1 + i] = d[i]
    <2>1. <<a>> \in Seq(S) /\ Len(<<a>>) = 1 /\ <<a>>[1] = a
      OBVIOUS
    <2>2. Len(d) \in Nat
      BY LenProperties
    <2> QED
      BY <2>1, <2>2, ConcatProperties
  <1> HIDE DEF u
  <1>2. Len(s) \in Nat /\ t \in Seq(S) /\ Len(t) = Len(s) + Len(u)
    BY <1>1, ConcatProperties, LenProperties
  <1>3. \A i \in 1 .. Len(t) : t[i] = IF i <= Len(s) THEN s[i] ELSE u[i - Len(s)]
    BY <1>1, ConcatProperties
  <1>4. \A i \in 1 .. Len(s) : t[i] = s[i]
    BY <1>1, <1>2, <1>3
  <1>5. t[Len(s) + 1] = a
    BY <1>1, <1>2, <1>3
  <1>6. \A i \in 1 .. Len(d) : t[Len(s) + 1 + i] = d[i]
    <2> TAKE i \in 1 .. Len(d)
    <2>1. /\ Len(s) + 1 + i \in 1 .. Len(t) /\ ~(Len(s) + 1 + i <= Len(s))
          /\ (Len(s) + 1 + i) - Len(s) = 1 + i
      BY <1>1, <1>2
    <2> QED
      BY <1>1, <1>3, <2>1
  <1> QED
    BY <1>1, <1>2, <1>4, <1>5, <1>6 DEF u

LEMMA OneMore ==
  ASSUME NEW S, NEW s \in Seq(S), NEW a \in S, NEW d \in Seq(S), NEW kind,
         \A i \in 1 .. Len(d) : d[i] \notin kind
  PROVE  LET t == s \o (<<a>> \o d) IN
           /\ Among(t, kind) = Among(s, kind) \cup (IF a \in kind THEN {Len(s) + 1} ELSE {})
           /\ Cardinality(Among(t, kind)) =
                Cardinality(Among(s, kind)) + (IF a \in kind THEN 1 ELSE 0)
  <1> DEFINE t == s \o (<<a>> \o d)
  <1>1. /\ t \in Seq(S) /\ Len(t) = Len(s) + 1 + Len(d)
        /\ Len(s) \in Nat /\ Len(d) \in Nat
        /\ \A i \in 1 .. Len(s) : t[i] = s[i]
        /\ t[Len(s) + 1] = a
        /\ \A i \in 1 .. Len(d) : t[Len(s) + 1 + i] = d[i]
    BY AmongConcat, SMTT(30)
  <1> HIDE DEF t
  <1>2. DOMAIN t = 1 .. Len(t) /\ DOMAIN s = 1 .. Len(s)
    BY <1>1, LenProperties
  <1>3. \A i \in 1 .. Len(t) : \/ i \in 1 .. Len(s)
                               \/ i = Len(s) + 1
                               \/ \E j \in 1 .. Len(d) : i = Len(s) + 1 + j
    <2> TAKE i \in 1 .. Len(t)
    <2>1. CASE i > Len(s) + 1
      <3>1. i - Len(s) - 1 \in 1 .. Len(d) /\ i = Len(s) + 1 + (i - Len(s) - 1)
        BY <1>1, <2>1
      <3> QED
        BY <3>1
    <2> QED
      BY <1>1, <2>1
  <1>4. Among(t, kind) = Among(s, kind) \cup (IF a \in kind THEN {Len(s) + 1} ELSE {})
    <2>1. \A i \in 1 .. Len(d) : Len(s) + 1 + i \notin Among(t, kind)
      BY <1>1 DEF Among
    <2>2. Len(s) + 1 \in Among(t, kind) <=> a \in kind
      BY <1>1, <1>2 DEF Among
    <2>3. \A i \in 1 .. Len(s) : i \in Among(t, kind) <=> i \in Among(s, kind)
      BY <1>1, <1>2 DEF Among
    <2>4. Among(t, kind) \subseteq 1 .. Len(t) /\ Among(s, kind) \subseteq 1 .. Len(s)
      BY <1>2 DEF Among
    <2> QED
      BY <1>3, <2>1, <2>2, <2>3, <2>4
  <1>5. IsFiniteSet(Among(s, kind)) /\ Len(s) + 1 \notin Among(s, kind)
        /\ Cardinality(Among(s, kind)) \in Nat
    BY <1>1, AmongFinite
  <1>6. Cardinality(Among(s, kind) \cup {Len(s) + 1}) = Cardinality(Among(s, kind)) + 1
    BY <1>5, FS_AddElement
  <1>7. CASE a \in kind
    BY <1>4, <1>6, <1>7 DEF t
  <1>8. CASE a \notin kind
    <2>1. Among(t, kind) = Among(s, kind)
      BY <1>4, <1>8
    <2> QED
      BY <1>5, <1>8, <2>1 DEF t
  <1> QED
    BY <1>7, <1>8

(* Lines are numbered from 1, and the one more is the last. *)
LEMMA NthRange ==
  ASSUME NEW S, NEW s \in Seq(S), NEW kind, NEW i \in Among(s, kind)
  PROVE  Nth(s, kind, i) \in 1 .. Cardinality(Among(s, kind))
  <1> DEFINE all == Among(s, kind)
             upto == {j \in all : j <= i}
  <1>1. IsFiniteSet(all) /\ Cardinality(all) \in Nat /\ all \subseteq 1 .. Len(s)
        /\ Len(s) \in Nat
    BY AmongFinite
  <1>2. upto \subseteq all /\ i \in upto
    BY <1>1
  <1> HIDE DEF all, upto
  <1>3. IsFiniteSet(upto) /\ Cardinality(upto) <= Cardinality(all)
        /\ Cardinality(upto) \in Nat
    BY <1>1, <1>2, FS_Subset, FS_CardinalityType
  <1>4. Cardinality(upto) # 0
    BY <1>2, <1>3, FS_EmptySet
  <1>5. Cardinality(upto) \in 1 .. Cardinality(all)
    BY <1>1, <1>3, <1>4
  <1> QED
    BY <1>5 DEF Nth, all, upto

(* What the one more line a does to the numbers of the others of its kind. *)
Numbered(s, a, kind, t) ==
  \A i \in Among(t, kind) :
    \/ i \in Among(s, kind) /\ t[i] = s[i] /\ Nth(t, kind, i) = Nth(s, kind, i)
    \/ /\ i = Len(s) + 1 /\ t[i] = a
       /\ Nth(t, kind, i) = Cardinality(Among(s, kind)) + 1

LEMMA NthAfter ==
  ASSUME NEW S, NEW s \in Seq(S), NEW a \in S, NEW d \in Seq(S), NEW kind,
         a \in kind, \A i \in 1 .. Len(d) : d[i] \notin kind
  PROVE  Numbered(s, a, kind, s \o (<<a>> \o d))
  <1> DEFINE t == s \o (<<a>> \o d)
  <1> SUFFICES ASSUME NEW i \in Among(t, kind)
               PROVE  \/ /\ i \in Among(s, kind) /\ t[i] = s[i]
                         /\ Nth(t, kind, i) = Nth(s, kind, i)
                      \/ /\ i = Len(s) + 1 /\ t[i] = a
                         /\ Nth(t, kind, i) = Cardinality(Among(s, kind)) + 1
    BY Zenon DEF Numbered
  <1> DEFINE old == Among(s, kind)
             new == Among(t, kind)
             n == Len(s)
  <1>1. n \in Nat /\ t[n + 1] = a /\ \A j \in 1 .. n : t[j] = s[j]
    BY AmongConcat, SMTT(30)
  <1>2. new = old \cup {n + 1} /\ Cardinality(new) = Cardinality(old) + 1
    BY OneMore, SMTT(30)
  <1>3. old \subseteq 1 .. n
    BY AmongFinite
  <1>4. /\ i \in new /\ Nth(t, kind, i) = Cardinality({j \in new : j <= i})
        /\ Nth(s, kind, i) = Cardinality({j \in old : j <= i})
    BY Zenon DEF Nth
  <1> HIDE DEF t, old, new, n
  <1>5. CASE i = n + 1
    <2>1. {j \in new : j <= i} = new
      <3>1. \A j \in new : j <= i
        BY <1>1, <1>2, <1>3, <1>5
      <3> QED
        BY <3>1
    <2>2. Nth(t, kind, i) = Cardinality(old) + 1 /\ t[i] = a
      BY <1>1, <1>2, <1>4, <1>5, <2>1
    <2> QED
      BY <1>5, <2>2 DEF old, n
  <1>6. CASE i # n + 1
    <2>1. i \in old /\ i \in 1 .. n
      BY <1>2, <1>3, <1>4, <1>6
    <2>2. {j \in new : j <= i} = {j \in old : j <= i}
      BY <1>1, <1>2, <2>1
    <2> QED
      BY <1>1, <1>4, <2>1, <2>2 DEF old
  <1> QED
    BY <1>5, <1>6

(* A reporter holds one more result. *)
LEMMA OneMoreHeld ==
  ASSUME NEW s \in Seq(ResultType), NEW r \in ResultType, NEW outcomes
  PROVE  Cardinality(Among(Append(s, r), WithOutcome(outcomes))) =
           Cardinality(Among(s, WithOutcome(outcomes)))
             + (IF r.outcome \in outcomes THEN 1 ELSE 0)
  <1> DEFINE none == << >>
             kind == WithOutcome(outcomes)
  <1>1. /\ Append(s, r) = s \o (<<r>> \o none)
        /\ none \in Seq(ResultType) /\ \A i \in 1 .. Len(none) : none[i] \notin kind
    <2>1. <<r>> \in Seq(ResultType) /\ none \in Seq(ResultType)
      OBVIOUS
    <2>2. <<r>> \o none = <<r>>
      BY <2>1, ConcatEmptySeq
    <2> QED
      BY <2>1, <2>2, AppendIsConcat
  <1>2. r \in kind <=> r.outcome \in outcomes
    BY DEF WithOutcome
  <1> HIDE DEF none, kind
  <1>3. Cardinality(Among(s \o (<<r>> \o none), kind)) =
          Cardinality(Among(s, kind)) + (IF r \in kind THEN 1 ELSE 0)
    BY <1>1, OneMore
  <1> QED
    BY <1>1, <1>2, <1>3 DEF kind

----------------------------------------------------------------------------
(* The lines of one result                                                 *)

(* The detail lines are of no other kind. *)
LEMMA Details ==
  ASSUME NEW r \in ResultType
  PROVE  /\ DetailLines(r) \in Seq(LineType)
         /\ \A i \in 1 .. Len(DetailLines(r)) : DetailLines(r)[i].line = "detail"
  <1>1. CASE ~Ok(r) /\ r.detail # ""
    <2> DEFINE d == [line |-> "detail", detail |-> r.detail]
    <2>1. d \in LineType /\ d.line = "detail"
      <3>1. d \in [line : {"detail"}, detail : {"std", "nonstd", "failures", "deadline"}]
        BY <1>1 DEF ResultType
      <3> QED
        BY <3>1 DEF LineType
    <2>2. DetailLines(r) = <<d>>
      BY <1>1 DEF DetailLines
    <2> HIDE DEF d
    <2> QED
      BY <2>1, <2>2
  <1>2. CASE ~(~Ok(r) /\ r.detail # "")
    <2>1. DetailLines(r) = << >>
      BY <1>2 DEF DetailLines
    <2> QED
      BY <2>1
  <1> QED
    BY <1>1, <1>2

(* They stand behind the line of the result, and stay there. *)
Behind(t, i, z) == i + 1 \in DOMAIN t /\ t[i + 1] = z

LEMMA LineBehind ==
  ASSUME NEW S, NEW s \in Seq(S), NEW a \in S, NEW d \in Seq(S)
  PROVE  Len(d) = 1 => Behind(s \o (<<a>> \o d), Len(s) + 1, d[1])
  <1> DEFINE t == s \o (<<a>> \o d)
  <1>1. /\ t \in Seq(S) /\ Len(t) = Len(s) + 1 + Len(d)
        /\ Len(s) \in Nat /\ Len(d) \in Nat
        /\ \A i \in 1 .. Len(s) : t[i] = s[i]
        /\ t[Len(s) + 1] = a
        /\ \A i \in 1 .. Len(d) : t[Len(s) + 1 + i] = d[i]
    BY AmongConcat, SMTT(30)
  <1> HIDE DEF t
  <1>2. DOMAIN t = 1 .. Len(t)
    BY <1>1, LenProperties
  <1>3. Len(d) = 1 => Behind(t, Len(s) + 1, d[1])
    BY <1>1, <1>2 DEF Behind
  <1> QED
    BY <1>3 DEF t

LEMMA OneLine ==
  ASSUME NEW z, NEW d, d = <<z>>
  PROVE  Len(d) = 1 /\ d[1] = z
  OBVIOUS

LEMMA ExplainedHere ==
  ASSUME NEW s \in Seq(LineType), NEW r \in ResultType, NEW a \in LineType
  PROVE  Explained(s \o (<<a>> \o DetailLines(r)), Len(s) + 1, r)
  <1> DEFINE z == [line |-> "detail", detail |-> r.detail]
  <1> SUFFICES ASSUME r.outcome # "Passed" /\ r.detail # ""
               PROVE  Behind(s \o (<<a>> \o DetailLines(r)), Len(s) + 1, z)
    BY Zenon DEF Explained, Behind
  <1>1. DetailLines(r) = <<z>>
    BY Zenon DEF DetailLines, Ok
  <1> HIDE DEF z
  <1>2. Len(DetailLines(r)) = 1 /\ DetailLines(r)[1] = z
    BY <1>1, OneLine, Zenon
  <1>3. DetailLines(r) \in Seq(LineType)
    BY Details
  <1> QED
    BY <1>2, <1>3, LineBehind, Zenon

LEMMA ExplainedStill ==
  ASSUME NEW S, NEW s \in Seq(S), NEW t \in Seq(S), Len(s) <= Len(t),
         \A i \in 1 .. Len(s) : t[i] = s[i],
         NEW i, NEW r, Explained(s, i, r)
  PROVE  Explained(t, i, r)
  <1>1. DOMAIN s = 1 .. Len(s) /\ DOMAIN t = 1 .. Len(t) /\ Len(s) \in Nat /\ Len(t) \in Nat
    BY LenProperties
  <1>2. \A j : j \in DOMAIN s => j \in DOMAIN t /\ t[j] = s[j]
    BY <1>1
  <1> QED
    BY <1>2, Zenon DEF Explained

Shown(r) == [line |-> "result", test |-> r.test, outcome |-> r.outcome]
Point(n, r) == [line |-> "point", test |-> r.test, ok |-> Ok(r), index |-> n,
                timeout |-> r.outcome = "Timeout"]

LEMMA ShownType ==
  ASSUME NEW r \in ResultType
  PROVE  /\ Shown(r) \in ResultLine /\ Shown(r) \in LineType
         /\ \A o : Shown(r) \in ShowingLine(o) <=> r.outcome = o
         /\ ResultShows(Shown(r), r)
  <1>1. Shown(r) \in LineType
    BY DEF Shown, LineType, ResultType
  <1> QED
    BY <1>1 DEF Shown, ResultLine, ShowingLine, ResultShows

LEMMA PointType ==
  ASSUME NEW r \in ResultType, NEW n \in Nat
  PROVE  /\ Point(n, r) \in PointLine /\ Point(n, r) \in LineType
         /\ Point(n, r) \in OkLine <=> r.outcome = "Passed"
         /\ Point(n, r).index = n /\ PointShows(Point(n, r), r)
  <1>1. Point(n, r) \in LineType
    BY DEF Point, LineType, ResultType, Ok
  <1> QED
    BY <1>1 DEF Point, PointLine, OkLine, Ok, PointShows

LEMMA CountSums ==
  ASSUME NEW s \in SummaryType, NEW o \in Outcomes
  PROVE  LET c == Count(s, o) IN
           /\ c.total = s.total
           /\ c.passed = s.passed + (IF o = "Passed" THEN 1 ELSE 0)
           /\ c.failed = s.failed + (IF o = "Failed" THEN 1 ELSE 0)
           /\ c.timed_out + c.errored =
                s.timed_out + s.errored + (IF o \in {"Timeout", "Error"} THEN 1 ELSE 0)
           /\ c.passed + NotPassed(c) = s.passed + NotPassed(s) + 1
  BY DEF SummaryType, Outcomes, Count, NotPassed

LEMMA TotalSums ==
  ASSUME NEW s \in SummaryType, NEW o \in Outcomes, NEW q \in Outcomes
  PROVE  Total(Count(s, o), q) = Total(s, q) + (IF o = q THEN 1 ELSE 0)
  BY DEF SummaryType, Outcomes, Count, Total

(* The new result is the last of the run, and the others stay in place. *)
LEMMA ResultsGrow ==
  ASSUME TypeOK, pos <= Len(results), NEW r \in ResultType, Return(r)
  PROVE  /\ pos \in Nat /\ pos' = pos + 1 /\ pos' <= Len(results')
         /\ RunResults'[pos + 1] = r
         /\ \A k \in 1 .. pos : RunResults'[k] = RunResults[k]
  <1> DEFINE n == Len(results)
  <1>1. /\ pos \in Nat /\ n \in Nat /\ results \in Seq(ResultType)
        /\ pos' = pos + 1 /\ results' = Append(results, r)
    BY LenProperties DEF TypeOK, Return
  <1>2. /\ Len(results') = n + 1 /\ results'[n + 1] = r
        /\ \A i \in 1 .. n : results'[i] = results[i]
    BY <1>1, AppendProperties
  <1>3. pos <= n
    OBVIOUS
  <1>4. RunResults = [k \in 1 .. pos |-> results[n - pos + k]]
    BY DEF RunResults
  <1>5. RunResults' = [k \in 1 .. pos' |-> results'[Len(results') - pos' + k]]
    BY DEF RunResults
  <1> HIDE DEF n
  <1>6. Len(results') - pos' = n - pos /\ pos' <= Len(results')
    BY <1>1, <1>2, <1>3
  <1>7. RunResults' = [k \in 1 .. pos + 1 |-> results'[n - pos + k]]
    BY <1>1, <1>5, <1>6
  <1>8. RunResults'[pos + 1] = r
    <2>1. pos + 1 \in 1 .. pos + 1 /\ n - pos + (pos + 1) = n + 1
      BY <1>1
    <2> QED
      BY <1>2, <1>7, <2>1
  <1>9. ASSUME NEW k \in 1 .. pos PROVE RunResults'[k] = RunResults[k]
    <2>1. k \in 1 .. pos + 1 /\ n - pos + k \in 1 .. n
      BY <1>1, <1>3
    <2> QED
      BY <1>2, <1>4, <1>7, <2>1
  <1> QED
    BY <1>1, <1>6, <1>8, <1>9

----------------------------------------------------------------------------
(* One result told to each reporter                                        *)

(* What writing a line and details does to a report that is not finished. *)
LEMMA LinesAfter ==
  ASSUME out \in Seq(LineType), ~Finished, NEW r \in ResultType, NEW a \in LineType,
         a.line \notin {"summary", "comment", "end"},
         out' = out \o (<<a>> \o DetailLines(r))
  PROVE  /\ out' \in Seq(LineType) /\ out' # << >> /\ ~Finished'
         /\ out # << >> => out'[1] = out[1]
         /\ Len(out) \in Nat /\ \A i \in 1 .. Len(out) : out'[i] = out[i]
         /\ out'[Len(out) + 1] = a /\ Len(out) <= Len(out')
  <1> DEFINE d == DetailLines(r)
  <1>1. d \in Seq(LineType) /\ \A i \in 1 .. Len(d) : d[i].line = "detail"
    BY Details
  <1> HIDE DEF d
  <1> DEFINE t == out \o (<<a>> \o d)
  <1>2. /\ t \in Seq(LineType) /\ Len(t) = Len(out) + 1 + Len(d)
        /\ Len(out) \in Nat /\ Len(d) \in Nat
        /\ \A i \in 1 .. Len(out) : t[i] = out[i]
        /\ t[Len(out) + 1] = a
        /\ \A i \in 1 .. Len(d) : t[Len(out) + 1 + i] = d[i]
    BY <1>1, AmongConcat
  <1>3. out' = t
    BY DEF d
  <1> HIDE DEF t
  <1>4. t # << >> /\ Len(out) <= Len(t)
    BY <1>2
  <1>5. out # << >> => t[1] = out[1]
    BY <1>2, EmptySeq
  <1>6. t[Len(t)].line \in {a.line, "detail"}
    <2>1. CASE Len(d) = 0
      <3>1. Len(t) = Len(out) + 1
        BY <1>2, <2>1
      <3> QED
        BY <1>2, <3>1
    <2>2. CASE Len(d) > 0
      <3>1. Len(d) \in 1 .. Len(d)
        BY <1>2, <2>2
      <3>2. t[Len(t)] = d[Len(d)]
        BY <1>2, <3>1
      <3> QED
        BY <1>1, <3>1, <3>2
    <2> QED
      BY <1>2, <2>1, <2>2
  <1> QED
    BY <1>2, <1>3, <1>4, <1>5, <1>6 DEF Finished

LEMMA ConsoleResult ==
  ASSUME TypeOK, out \in Seq(LineType), ~Finished, ConsoleWritten,
         pos <= Len(results), reporter.format = "Console", NEW r \in ResultType, Return(r)
  PROVE  out' \in Seq(LineType) /\ ~Finished' /\ ConsoleWritten'
  <1> DEFINE a == Shown(r)
             d == DetailLines(r)
  <1>1. out' = out \o (<<a>> \o d)
    BY DEF Return, ResultLines, Shown
  <1>2. /\ a \in LineType /\ a \in ResultLine /\ a.line = "result"
        /\ \A o : a \in ShowingLine(o) <=> r.outcome = o
        /\ ResultShows(a, r)
    BY ShownType DEF Shown
  <1>3. d \in Seq(LineType) /\ \A i \in 1 .. Len(d) : d[i].line = "detail"
    BY Details
  <1>4. \A i \in 1 .. Len(d) : /\ d[i] \notin ResultLine
                              /\ \A o : d[i] \notin ShowingLine(o)
    BY <1>3 DEF ResultLine, ShowingLine
  <1>5. /\ out' \in Seq(LineType) /\ out' # << >> /\ ~Finished' /\ out'[1] = out[1]
        /\ Len(out) <= Len(out') /\ \A i \in 1 .. Len(out) : out'[i] = out[i]
    BY <1>1, <1>2, LinesAfter DEF ConsoleWritten
  <1>6. Explained(out', Len(out) + 1, r)
    BY <1>1, <1>2, ExplainedHere
  <1> HIDE DEF a, d
  <1>7. Cardinality(Among(out', ResultLine)) = Cardinality(Among(out, ResultLine)) + 1
    BY <1>1, <1>2, <1>3, <1>4, OneMore
  <1>8. ASSUME NEW o \in Outcomes
        PROVE  Cardinality(Among(out', ShowingLine(o))) = Total(summary', o)
    <2>1. a \in LineType /\ \A i \in 1 .. Len(d) : d[i] \notin ShowingLine(o)
      BY <1>2, <1>4
    <2>2. Cardinality(Among(out \o (<<a>> \o d), ShowingLine(o))) =
            Cardinality(Among(out, ShowingLine(o))) + (IF a \in ShowingLine(o) THEN 1 ELSE 0)
      BY <1>3, <2>1, OneMore
    <2>3. Cardinality(Among(out, ShowingLine(o))) = Total(summary, o)
      BY DEF ConsoleWritten
    <2>4. Total(summary', o) = Total(summary, o) + (IF r.outcome = o THEN 1 ELSE 0)
      BY TotalSums DEF Return, TypeOK, ResultType
    <2>5. a \in ShowingLine(o) <=> r.outcome = o
      BY <1>2
    <2> QED
      BY <1>1, <2>2, <2>3, <2>4, <2>5
  <1>9. pos' = pos + 1 /\ selected' = selected
    BY DEF Return
  <1>10. ASSUME NEW i \in Among(out', ResultLine)
         PROVE  LET q == RunResults'[Nth(out', ResultLine, i)]
                IN  ResultShows(out'[i], q) /\ Explained(out', i, q)
    <2>1. Cardinality(Among(out, ResultLine)) = pos
      BY DEF ConsoleWritten
    <2>2. \/ /\ i \in Among(out, ResultLine) /\ out'[i] = out[i]
             /\ Nth(out', ResultLine, i) = Nth(out, ResultLine, i)
          \/ i = Len(out) + 1 /\ out'[i] = a /\ Nth(out', ResultLine, i) = pos + 1
      <3>1. /\ a \in LineType /\ a \in ResultLine /\ d \in Seq(LineType)
            /\ \A j \in 1 .. Len(d) : d[j] \notin ResultLine
        BY <1>2, <1>3, <1>4
      <3>2. Numbered(out, a, ResultLine, out')
        BY <1>1, <3>1, NthAfter
      <3> QED
        BY <2>1, <3>2, Zenon DEF Numbered
    <2>3. CASE i = Len(out) + 1 /\ out'[i] = a /\ Nth(out', ResultLine, i) = pos + 1
      BY <1>2, <1>6, <2>3, ResultsGrow, Zenon
    <2>4. CASE /\ i \in Among(out, ResultLine) /\ out'[i] = out[i]
               /\ Nth(out', ResultLine, i) = Nth(out, ResultLine, i)
      <3> DEFINE k == Nth(out, ResultLine, i)
      <3>1. k \in 1 .. pos
        BY <2>1, <2>4, NthRange
      <3>2. RunResults'[k] = RunResults[k]
        BY <3>1, ResultsGrow, Zenon
      <3>3. ResultShows(out[i], RunResults[k]) /\ Explained(out, i, RunResults[k])
        BY <2>4, Zenon DEF ConsoleWritten
      <3> HIDE DEF k
      <3>4. Explained(out', i, RunResults[k])
        BY <1>5, <3>3, ExplainedStill
      <3> QED
        BY <2>4, <3>2, <3>3, <3>4, Zenon DEF k
    <2> QED
      BY <2>2, <2>3, <2>4
  <1>11. Cardinality(Among(out', ResultLine)) = pos'
    BY <1>7, <1>9 DEF ConsoleWritten
  <1>12. out'[1] = [line |-> "running", total |-> Len(selected')]
    BY <1>5, <1>9 DEF ConsoleWritten
  <1> QED
    BY <1>5, <1>8, <1>10, <1>11, <1>12, Zenon DEF ConsoleWritten

LEMMA JunitResult ==
  ASSUME TypeOK, out \in Seq(LineType), ~Finished, JunitWritten,
         pos <= Len(results), reporter.format = "Junit", NEW r \in ResultType, Return(r)
  PROVE  out' \in Seq(LineType) /\ ~Finished' /\ JunitWritten'
  <1>1. out' = << >>
    <2>1. << >> \o << >> = << >>
      OBVIOUS
    <2> QED
      BY <2>1 DEF Return, ResultLines, JunitWritten
  <1>2. reporter.held \in Seq(ResultType) /\ reporter'.held = Append(reporter.held, r)
    BY DEF Return, AfterResult, TypeOK
  <1>3. /\ Len(reporter'.held) = Len(reporter.held) + 1
        /\ reporter'.held[Len(reporter.held) + 1] = r
        /\ \A k \in 1 .. Len(reporter.held) : reporter'.held[k] = reporter.held[k]
    BY <1>2, AppendProperties
  <1>4. \A outcomes :
          Cardinality(Among(reporter'.held, WithOutcome(outcomes))) =
            Cardinality(Among(reporter.held, WithOutcome(outcomes)))
              + (IF r.outcome \in outcomes THEN 1 ELSE 0)
    BY <1>2, OneMoreHeld
  <1>5. /\ summary'.passed = summary.passed + (IF r.outcome = "Passed" THEN 1 ELSE 0)
        /\ summary'.failed = summary.failed + (IF r.outcome = "Failed" THEN 1 ELSE 0)
        /\ summary'.timed_out + summary'.errored =
             summary.timed_out + summary.errored
               + (IF r.outcome \in {"Timeout", "Error"} THEN 1 ELSE 0)
        /\ pos' = pos + 1
    BY CountSums DEF Return, TypeOK, ResultType
  <1>6. Len(reporter.held) = pos /\ \A k \in 1 .. pos : reporter.held[k] = RunResults[k]
    BY DEF JunitWritten
  <1>7. ASSUME NEW k \in 1 .. pos + 1 PROVE reporter'.held[k] = RunResults'[k]
    <2>1. pos \in Nat
      BY DEF TypeOK
    <2>2. CASE k = pos + 1
      BY <1>3, <1>6, <2>2, ResultsGrow
    <2>3. CASE k # pos + 1
      <3>1. k \in 1 .. pos
        BY <2>1, <2>3
      <3> QED
        BY <1>3, <1>6, <3>1, ResultsGrow
    <2> QED
      BY <2>2, <2>3
  <1>8. JunitWritten'
    <2>1. \A k \in 1 .. pos' : reporter'.held[k] = RunResults'[k]
      BY <1>5, <1>7
    <2> QED
      BY <1>1, <1>3, <1>4, <1>5, <2>1 DEF JunitWritten
  <1> QED
    BY <1>1, <1>8 DEF Finished

LEMMA TapResult ==
  ASSUME TypeOK, out \in Seq(LineType), ~Finished, TapWritten,
         pos <= Len(results), reporter.format = "Tap", NEW r \in ResultType, Return(r)
  PROVE  out' \in Seq(LineType) /\ ~Finished' /\ TapWritten'
  <1> DEFINE a == Point(pos + 1, r)
             d == DetailLines(r)
  <1>1. out' = out \o (<<a>> \o d) /\ pos \in Nat
    BY DEF Return, ResultLines, Point, TapWritten, TypeOK
  <1>2. /\ a \in LineType /\ a \in PointLine /\ a.line = "point" /\ a.index = pos + 1
        /\ a \in OkLine <=> r.outcome = "Passed"
        /\ PointShows(a, r)
    BY <1>1, PointType DEF Point
  <1>3. d \in Seq(LineType) /\ \A i \in 1 .. Len(d) : d[i].line = "detail"
    BY Details
  <1>4. \A i \in 1 .. Len(d) : d[i] \notin PointLine
    BY <1>3 DEF PointLine
  <1>5. /\ out' \in Seq(LineType) /\ out' # << >> /\ ~Finished' /\ out'[1] = out[1]
        /\ Len(out) <= Len(out') /\ \A i \in 1 .. Len(out) : out'[i] = out[i]
    BY <1>1, <1>2, LinesAfter DEF TapWritten
  <1>6. Explained(out', Len(out) + 1, r)
    BY <1>1, <1>2, ExplainedHere
  <1> HIDE DEF a, d
  <1>7. Cardinality(Among(out', PointLine)) = Cardinality(Among(out, PointLine)) + 1
    BY <1>1, <1>2, <1>3, <1>4, OneMore
  <1>8. Cardinality(Among(out', OkLine)) =
          Cardinality(Among(out, OkLine)) + (IF r.outcome = "Passed" THEN 1 ELSE 0)
    <2>1. a \in LineType /\ \A i \in 1 .. Len(d) : d[i] \notin OkLine
      BY <1>2, <1>4 DEF OkLine
    <2>2. Cardinality(Among(out \o (<<a>> \o d), OkLine)) =
            Cardinality(Among(out, OkLine)) + (IF a \in OkLine THEN 1 ELSE 0)
      BY <1>3, <2>1, OneMore
    <2> QED
      BY <1>1, <1>2, <2>2
  <1>9. /\ summary'.passed = summary.passed + (IF r.outcome = "Passed" THEN 1 ELSE 0)
        /\ pos' = pos + 1 /\ selected' = selected
        /\ reporter'.index = reporter.index + 1
    BY CountSums DEF Return, TypeOK, ResultType, AfterResult
  <1>10. ASSUME NEW i \in Among(out', PointLine)
         PROVE  LET q == RunResults'[Nth(out', PointLine, i)]
                IN  /\ out'[i].index = Nth(out', PointLine, i)
                    /\ PointShows(out'[i], q) /\ Explained(out', i, q)
    <2>1. Cardinality(Among(out, PointLine)) = pos
      BY DEF TapWritten
    <2>2. \/ /\ i \in Among(out, PointLine) /\ out'[i] = out[i]
             /\ Nth(out', PointLine, i) = Nth(out, PointLine, i)
          \/ i = Len(out) + 1 /\ out'[i] = a /\ Nth(out', PointLine, i) = pos + 1
      <3>1. /\ a \in LineType /\ a \in PointLine /\ d \in Seq(LineType)
            /\ \A j \in 1 .. Len(d) : d[j] \notin PointLine
        BY <1>2, <1>3, <1>4
      <3>2. Numbered(out, a, PointLine, out')
        BY <1>1, <3>1, NthAfter
      <3> QED
        BY <2>1, <3>2, Zenon DEF Numbered
    <2>3. CASE i = Len(out) + 1 /\ out'[i] = a /\ Nth(out', PointLine, i) = pos + 1
      BY <1>2, <1>6, <2>3, ResultsGrow, Zenon
    <2>4. CASE /\ i \in Among(out, PointLine) /\ out'[i] = out[i]
               /\ Nth(out', PointLine, i) = Nth(out, PointLine, i)
      <3> DEFINE k == Nth(out, PointLine, i)
      <3>1. k \in 1 .. pos
        BY <2>1, <2>4, NthRange
      <3>2. RunResults'[k] = RunResults[k]
        BY <3>1, ResultsGrow, Zenon
      <3>3. /\ out[i].index = k
            /\ PointShows(out[i], RunResults[k]) /\ Explained(out, i, RunResults[k])
        BY <2>4, Zenon DEF TapWritten
      <3> HIDE DEF k
      <3>4. Explained(out', i, RunResults[k])
        BY <1>5, <3>3, ExplainedStill
      <3> QED
        BY <2>4, <3>2, <3>3, <3>4, Zenon DEF k
    <2> QED
      BY <2>2, <2>3, <2>4
  <1>11. /\ Cardinality(Among(out', PointLine)) = pos'
         /\ Cardinality(Among(out', OkLine)) = summary'.passed
         /\ reporter'.index = pos'
    BY <1>7, <1>8, <1>9 DEF TapWritten
  <1>12. out'[1] = [line |-> "plan", total |-> Len(selected')]
    BY <1>5, <1>9 DEF TapWritten
  <1> QED
    BY <1>5, <1>10, <1>11, <1>12, Zenon DEF TapWritten

----------------------------------------------------------------------------
(* The lines around the results                                            *)

Suites(s) == [line |-> "testsuites", tests |-> s.total, failures |-> s.failed,
              errors |-> s.errored + s.timed_out]
Testcase(r) == [line |-> "testcase", test |-> r.test, child |-> Child(r)]
Closed == [line |-> "end"]

LEMMA TestcaseType ==
  ASSUME NEW r \in ResultType
  PROVE  Testcase(r) \in LineType
  BY DEF Testcase, Child, Ok, LineType, Children, ResultType

LEMMA TestcaseChild ==
  ASSUME NEW r \in ResultType
  PROVE  /\ Testcase(r).line = "testcase"
         /\ (Testcase(r).child = "failure") <=> r \in WithOutcome({"Failed"})
         /\ (Testcase(r).child \in {"error:timeout", "error:exception"})
              <=> r \in WithOutcome({"Timeout", "Error"})
         /\ TestcaseShows(Testcase(r), r)
  <1>1. r.outcome \in Outcomes
    BY DEF ResultType
  <1>2. Testcase(r).line = "testcase" /\ Testcase(r).child = Child(r)
    BY DEF Testcase
  <1>3. /\ (Child(r) = "failure") <=> (r.outcome = "Failed")
        /\ (Child(r) \in {"error:timeout", "error:exception"})
             <=> r.outcome \in {"Timeout", "Error"}
    BY <1>1 DEF Child, Ok, Outcomes
  <1>4. TestcaseShows(Testcase(r), r)
    BY <1>1 DEF TestcaseShows, Testcase, Child, Ok, Outcomes
  <1> QED
    BY <1>2, <1>3, <1>4 DEF WithOutcome

(* JUnit's report, written at the end from what it held. *)
LEMMA JunitLines ==
  ASSUME NEW rep \in [format : Formats, index : Nat, held : Seq(ResultType)],
         rep.format = "Junit", NEW s \in SummaryType
  PROVE  LET t == EndLines(rep, s)
             n == Len(rep.held)
         IN  /\ t \in Seq(LineType) /\ n \in Nat /\ Len(t) = n + 2
             /\ t[1] = Suites(s) /\ t[n + 2] = Closed
             /\ \A i \in 1 .. n : t[i + 1] = Testcase(rep.held[i])
  <1> DEFINE n == Len(rep.held)
             c == [i \in DOMAIN rep.held |-> Testcase(rep.held[i])]
             a == Suites(s)
             u == <<a>> \o c
             z == Closed
  <1>1. /\ rep.held \in Seq(ResultType) /\ n \in Nat /\ DOMAIN rep.held = 1 .. n
        /\ \A i \in 1 .. n : rep.held[i] \in ResultType
    BY LenProperties, ElementOfSeq
  <1>2. c \in Seq(LineType) /\ Len(c) = n /\ \A i \in 1 .. n : c[i] = Testcase(rep.held[i])
    BY <1>1, TestcaseType
  <1>3. a \in LineType /\ z \in LineType
    BY DEF Suites, Closed, LineType, SummaryType
  <1>4. EndLines(rep, s) = u \o <<z>>
    BY DEF EndLines, Suites, Testcase, Closed
  <1> HIDE DEF c, a, z
  <1>5. /\ u \in Seq(LineType) /\ Len(u) = 1 + n /\ u[1] = a
        /\ \A i \in 1 .. n : u[1 + i] = c[i]
    <2>1. <<a>> \in Seq(LineType) /\ Len(<<a>>) = 1 /\ <<a>>[1] = a
      BY <1>3
    <2> QED
      BY <1>1, <1>2, <2>1, ConcatProperties
  <1> HIDE DEF u
  <1>6. /\ u \o <<z>> \in Seq(LineType) /\ Len(u \o <<z>>) = n + 2
        /\ (u \o <<z>>)[n + 2] = z
        /\ \A i \in 1 .. n + 1 : (u \o <<z>>)[i] = u[i]
    <2>1. <<z>> \in Seq(LineType) /\ Len(<<z>>) = 1 /\ <<z>>[1] = z
      BY <1>3
    <2> QED
      BY <1>1, <1>5, <2>1, ConcatProperties
  <1>7. \A i \in 1 .. n : i + 1 \in 1 .. n + 1 /\ i + 1 = 1 + i
    BY <1>1
  <1>8. 1 \in 1 .. n + 1
    BY <1>1
  <1> QED
    BY <1>1, <1>2, <1>4, <1>5, <1>6, <1>7, <1>8, ZenonT(60) DEF a, z

(* The one line that closes the other reports. *)
LEMMA LastLine ==
  ASSUME NEW rep, rep.format \in {"Console", "Tap"}, NEW s \in SummaryType
  PROVE  \E z \in LineType :
           /\ EndLines(rep, s) = <<z>> /\ z.line \in {"summary", "comment"}
           /\ rep.format = "Console" => z = [line |-> "summary", counts |-> s]
           /\ rep.format = "Tap" =>
                z = [line |-> "comment", passed |-> s.passed, total |-> s.total]
  <1>1. CASE rep.format = "Console"
    <2> DEFINE z == [line |-> "summary", counts |-> s]
    <2>1. z \in LineType
      BY DEF LineType
    <2>2. EndLines(rep, s) = <<z>>
      BY <1>1 DEF EndLines
    <2> QED
      BY <1>1, <2>1, <2>2
  <1>2. CASE rep.format = "Tap"
    <2> DEFINE z == [line |-> "comment", passed |-> s.passed, total |-> s.total]
    <2>1. z \in LineType
      BY DEF LineType, SummaryType
    <2>2. EndLines(rep, s) = <<z>>
      BY <1>2 DEF EndLines
    <2> QED
      BY <1>2, <2>1, <2>2
  <1> QED
    BY <1>1, <1>2

LEMMA EndLinesType ==
  ASSUME NEW rep \in [format : Formats, index : Nat, held : Seq(ResultType)],
         NEW s \in SummaryType
  PROVE  EndLines(rep, s) \in Seq(LineType)
  <1>1. CASE rep.format = "Junit"
    BY <1>1, JunitLines
  <1>2. CASE rep.format \in {"Console", "Tap"}
    <2>1. PICK z \in LineType : EndLines(rep, s) = <<z>>
      BY <1>2, LastLine
    <2> QED
      BY <2>1
  <1> QED
    BY <1>1, <1>2 DEF Formats

----------------------------------------------------------------------------
(* The report of a run in progress                                         *)

(* Steps that write nothing and leave the run, if they change it, for good. *)
Unwritten ==
  /\ UNCHANGED <<opts, selected, pos, results, summary, reporter, out, verdict>>
  /\ Running' => Running
  /\ main' = "select" => main = "select"
  /\ main' = "idle" => main = "idle"

LEMMA ReportSteps ==
  ASSUME TypeOK, Control, [Next]_vars
  PROVE  \/ OpenFails \/ CallRun \/ SelectNext \/ ListSelected \/ BeginRun \/ EndRun
         \/ ReturnTimeout \/ ReturnJoined
         \/ Unwritten
  <1> USE DEF Unwritten, runVars, Running, InRunOne, Waiting
  <1>1. CASE Spawn \/ SpawnFails
    BY <1>1 DEF Spawn, SpawnFails
  <1>2. CASE Waits
    <2>1. main \in InRunOne /\ main' \in InRunOne /\ UNCHANGED <<opts, runVars>>
      BY <1>2, WaitStep
    <2> QED
      BY <2>1
  <1>3. ASSUME NEW w \in Invocations, Work(w) PROVE Unwritten
    BY <1>3 DEF Work
  <1>4. CASE ReturnFromMain \/ DestroyRegistry \/ ProcessEnds \/ Crash
    BY <1>4 DEF ReturnFromMain, DestroyRegistry, ProcessEnds, Crash
  <1>5. CASE UNCHANGED vars
    BY <1>5 DEF vars
  <1> QED
    BY <1>1, <1>2, <1>3, <1>4, <1>5, StepKinds DEF Elsewhere

(* The opening of a report, in each format. *)
LEMMA Opened ==
  ASSUME TypeOK, BeginRun
  PROVE  Written'
  <1> DEFINE n == Len(selected)
             rep == NewReporter(opts.format)
  <1>1. n \in Nat /\ opts.format \in Formats /\ opts' = opts /\ selected' = selected
    BY LenProperties, RunnerAssumption DEF TypeOK, OptionType, BeginRun
  <1>2. /\ main' = "loop" /\ reporter' = rep /\ out' = BeginLines(rep, n)
        /\ summary' = NewSummary(n) /\ pos' = 0
    BY DEF BeginRun
  <1>3. rep.format = opts.format /\ rep.index = 0 /\ rep.held = << >>
    BY DEF NewReporter
  <1>4. /\ summary'.total = n /\ summary'.passed = 0 /\ summary'.failed = 0
        /\ summary'.timed_out = 0 /\ summary'.errored = 0 /\ NotPassed(summary') = 0
    BY <1>2 DEF NewSummary, NotPassed
  <1>5. ASSUME NEW a \in LineType, a.line \in {"running", "plan"}, out' = <<a>>
        PROVE  /\ out' \in Seq(LineType) /\ out' # << >> /\ out'[1] = a /\ ~Finished'
               /\ Among(out', ResultLine) = {} /\ \A o : Among(out', ShowingLine(o)) = {}
               /\ Among(out', PointLine) = {} /\ Among(out', OkLine) = {}
    <2>1. /\ out' \in Seq(LineType) /\ out' # << >> /\ DOMAIN out' = {1}
          /\ Len(out') = 1 /\ out'[1] = a
      BY <1>5
    <2> QED
      BY <1>5, <2>1 DEF Finished, Among, ResultLine, ShowingLine, PointLine, OkLine
  <1>6. pos' <= Len(results')
    BY <1>2, LenProperties DEF BeginRun, TypeOK
  <1>7. CASE opts.format = "Console"
    <2> DEFINE a == [line |-> "running", total |-> n]
    <2>1. a \in LineType /\ out' = <<a>>
      BY <1>1, <1>2, <1>3, <1>7 DEF BeginLines, LineType
    <2>2. \A o \in Outcomes : Total(summary', o) = 0
      BY <1>4 DEF Total, Outcomes
    <2>3. ConsoleWritten'
      BY <1>1, <1>2, <1>5, <2>1, <2>2, FS_EmptySet DEF ConsoleWritten
    <2> QED
      BY <1>1, <1>2, <1>3, <1>4, <1>5, <1>6, <1>7, <2>1, <2>3 DEF Written
  <1>8. CASE opts.format = "Tap"
    <2> DEFINE a == [line |-> "plan", total |-> n]
    <2>1. a \in LineType /\ out' = <<a>>
      BY <1>1, <1>2, <1>3, <1>8 DEF BeginLines, LineType
    <2>2. TapWritten'
      BY <1>1, <1>2, <1>3, <1>4, <1>5, <2>1, FS_EmptySet DEF TapWritten
    <2> QED
      BY <1>1, <1>2, <1>3, <1>4, <1>5, <1>6, <1>8, <2>1, <2>2 DEF Written
  <1>9. CASE opts.format = "Junit"
    <2>1. out' = << >> /\ ~Finished' /\ out' \in Seq(LineType)
      BY <1>2, <1>3, <1>9 DEF BeginLines, Finished
    <2>2. \A outcomes : Among(reporter'.held, WithOutcome(outcomes)) = {}
      BY <1>2, <1>3 DEF Among
    <2>3. Len(reporter'.held) = 0
      BY <1>2, <1>3
    <2>4. \A outcomes : Cardinality(Among(reporter'.held, WithOutcome(outcomes))) = 0
      BY <2>2, FS_EmptySet
    <2>5. JunitWritten'
      BY <1>2, <1>4, <2>1, <2>3, <2>4 DEF JunitWritten
    <2> QED
      BY <1>1, <1>2, <1>3, <1>4, <1>6, <1>9, <2>1, <2>5 DEF Written
  <1> QED
    BY <1>1, <1>7, <1>8, <1>9 DEF Formats

LEMMA WrittenStep ==
  ASSUME TypeOK, Control, Written, [Next]_vars
  PROVE  Written'
  <1>1. CASE OpenFails
    BY <1>1 DEF OpenFails, Written, Running, InRunOne, Waiting
  <1>2. CASE CallRun
    BY <1>2 DEF CallRun, Written, Running, InRunOne, Waiting
  <1>3. CASE SelectNext
    BY <1>3 DEF SelectNext, Written, Running, InRunOne, Waiting
  <1>4. CASE ListSelected
    <2>1. \A i \in DOMAIN selected : [line |-> "case", test |-> selected[i]] \in LineType
      <3>1. \A i \in DOMAIN selected : selected[i] \in TestCases
        BY ElementOfSeq, LenProperties DEF TypeOK
      <3> QED
        BY <3>1 DEF LineType
    <2>2. out' \in Seq(LineType) /\ main' = "idle"
      <3> DEFINE n == Len(selected)
                 s == [i \in 1 .. n |-> [line |-> "case", test |-> selected[i]]]
      <3>1. n \in Nat /\ DOMAIN selected = 1 .. n
        BY LenProperties DEF TypeOK
      <3>2. s \in Seq(LineType)
        <4>1. s \in [1 .. n -> LineType]
          BY <2>1, <3>1
        <4> HIDE DEF n, s
        <4> QED
          BY <3>1, <4>1
      <3>3. out' = s /\ main' = "idle"
        BY <1>4, <3>1, Zenon DEF ListSelected
      <3> QED
        BY <3>2, <3>3
    <2> QED
      BY <2>2 DEF Written, Running, InRunOne, Waiting
  <1>5. CASE BeginRun
    BY <1>5, Opened
  <1>6. CASE EndRun
    <2>1. out' \in Seq(LineType) /\ main' = "idle"
      BY <1>6, EndLinesType, ConcatProperties DEF EndRun, TypeOK, Written
    <2> QED
      BY <2>1 DEF Written, Running, InRunOne, Waiting
  <1>7. CASE ReturnTimeout \/ ReturnJoined
    <2>1. PICK r \in ResultType : Return(r)
      BY <1>7, ReturnedResult
    <2>2. Running /\ main' = "loop" /\ opts' = opts /\ selected' = selected
      BY <1>7, <2>1 DEF Return, ReturnTimeout, ReturnJoined, Running, InRunOne
    <2>3. opts.format \in Formats
      BY RunnerAssumption DEF TypeOK, OptionType
    <2>4. reporter'.format = reporter.format
      BY <2>1, <2>2, <2>3 DEF Return, AfterResult, Written, TypeOK, Formats
    <2>5. /\ summary'.total = summary.total
          /\ summary'.passed + NotPassed(summary') = pos'
      <3>1. summary.passed + NotPassed(summary) = pos
        BY <2>2 DEF Written
      <3>2. summary' = Count(summary, r.outcome) /\ pos' = pos + 1
        BY <2>1 DEF Return
      <3>3. summary \in SummaryType /\ r.outcome \in Outcomes
        BY DEF TypeOK, ResultType
      <3> QED
        BY <3>1, <3>2, <3>3, CountSums
    <2>6. pos <= Len(results) /\ pos' <= Len(results')
      <3>1. pos <= Len(results)
        BY <2>2 DEF Written
      <3> QED
        BY <2>1, <3>1, ResultsGrow
    <2>7. CASE opts.format = "Console"
      <3>1. ConsoleWritten /\ ~Finished /\ reporter.format = "Console"
        BY <2>2, <2>7 DEF Written
      <3>2. out' \in Seq(LineType) /\ ~Finished' /\ ConsoleWritten'
        BY <2>1, <2>6, <3>1, ConsoleResult DEF Written
      <3> QED
        BY <2>2, <2>4, <2>5, <2>6, <2>7, <3>1, <3>2 DEF Written
    <2>8. CASE opts.format = "Tap"
      <3>1. TapWritten /\ ~Finished /\ reporter.format = "Tap"
        BY <2>2, <2>8 DEF Written
      <3>2. out' \in Seq(LineType) /\ ~Finished' /\ TapWritten'
        BY <2>1, <2>6, <3>1, TapResult DEF Written
      <3> QED
        BY <2>2, <2>4, <2>5, <2>6, <2>8, <3>1, <3>2 DEF Written
    <2>9. CASE opts.format = "Junit"
      <3>1. JunitWritten /\ ~Finished /\ reporter.format = "Junit"
        BY <2>2, <2>9 DEF Written
      <3>2. out' \in Seq(LineType) /\ ~Finished' /\ JunitWritten'
        BY <2>1, <2>6, <3>1, JunitResult DEF Written
      <3> QED
        BY <2>2, <2>4, <2>5, <2>6, <2>9, <3>1, <3>2 DEF Written
    <2> QED
      BY <2>3, <2>7, <2>8, <2>9 DEF Formats
  <1>8. CASE Unwritten
    <2>1. UNCHANGED <<opts, selected, pos, results, summary, reporter, out>>
      BY <1>8 DEF Unwritten
    <2>2. (Running' => Running) /\ (main' = "select" => main = "select")
      BY <1>8 DEF Unwritten
    <2>3. RunResults' = RunResults
      BY <2>1 DEF RunResults
    <2>4. /\ ConsoleWritten => ConsoleWritten'
          /\ TapWritten => TapWritten'
          /\ JunitWritten => JunitWritten'
          /\ ~Finished => ~Finished'
      BY <2>1, <2>3 DEF ConsoleWritten, TapWritten, JunitWritten, Finished
    <2>5. out' \in Seq(LineType) /\ (main' = "select" => out' = << >>)
      BY <2>1, <2>2 DEF Written
    <2>6. CASE ~Running'
      BY <2>5, <2>6 DEF Written
    <2>7. CASE Running'
      <3>1. /\ pos' <= Len(results') /\ reporter'.format = opts'.format
            /\ summary'.total = Len(selected')
            /\ summary'.passed + NotPassed(summary') = pos'
            /\ ~Finished'
        BY <2>1, <2>2, <2>4, <2>7 DEF Written
      <3>2. /\ opts.format = "Console" => ConsoleWritten
            /\ opts.format = "Tap" => TapWritten
            /\ opts.format = "Junit" => JunitWritten
        BY <2>2, <2>7 DEF Written
      <3>3. opts.format \in Formats
        BY RunnerAssumption DEF TypeOK, OptionType
      <3>4. CASE opts.format = "Console"
        BY <2>1, <2>4, <2>5, <3>1, <3>2, <3>4 DEF Written
      <3>5. CASE opts.format = "Tap"
        BY <2>1, <2>4, <2>5, <3>1, <3>2, <3>5 DEF Written
      <3>6. CASE opts.format = "Junit"
        BY <2>1, <2>4, <2>5, <3>1, <3>2, <3>6 DEF Written
      <3> QED
        BY <3>3, <3>4, <3>5, <3>6 DEF Formats
    <2> QED
      BY <2>6, <2>7
  <1> QED
    BY <1>1, <1>2, <1>3, <1>4, <1>5, <1>6, <1>7, <1>8, ReportSteps

----------------------------------------------------------------------------
(* A report that was cut short looks it                                    *)

LEMMA ListsOnlyStep ==
  ASSUME TypeOK, Control, ListsOnly, [Next]_vars
  PROVE  ListsOnly'
  <1>1. opts' = opts
    BY StepKinds, ElsewhereStep, WaitStep, ReturnedResult DEF Spawn, Return, Work
  <1> SUFFICES ASSUME opts.list_only
               PROVE  /\ ~Running' /\ status' \notin {"terminate", "signal"}
                      /\ \A w \in Invocations : wpc'[w] = "none"
    BY <1>1 DEF ListsOnly
  <1>2. /\ ~Running /\ status \notin {"terminate", "signal"}
        /\ \A w \in Invocations : wpc[w] = "none"
    BY DEF ListsOnly
  <1> USE DEF Running, InRunOne, Waiting
  <1>3. CASE OpenFails \/ CallRun \/ SelectNext \/ ListSelected \/ ReturnFromMain
               \/ DestroyRegistry \/ ProcessEnds
    BY <1>2, <1>3 DEF OpenFails, CallRun, SelectNext, ListSelected, ReturnFromMain,
                      DestroyRegistry, ProcessEnds, procVars, runVars, workerVars
  <1>4. CASE BeginRun \/ EndRun \/ Spawn \/ SpawnFails \/ ReturnTimeout \/ ReturnJoined
    BY <1>2, <1>4 DEF BeginRun, EndRun, Spawn, SpawnFails, ReturnTimeout, ReturnJoined
  <1>5. CASE Waits
    BY <1>2, <1>5, WaitStep
  <1>6. ASSUME NEW w \in Invocations,
               Work(w) \/ FaultOnDestroyedCase(w) \/ HelperAsserts(w)
        PROVE  FALSE
    BY <1>2, <1>6, WorkerMoves DEF Work, FaultOnDestroyedCase, HelperAsserts, TypeOK
  <1>7. CASE Gone \/ UNCHANGED vars
    BY <1>2, <1>7 DEF Gone, vars, procVars, workerVars
  <1> QED
    BY <1>3, <1>4, <1>5, <1>6, <1>7 DEF Next, Progress, Waits

(* While the run goes on, what it has written says it is not over. *)
LEMMA RunningUndecided ==
  ASSUME TypeOK, Written, Running
  PROVE  Undecided
  <1>1. /\ ~Finished /\ out \in Seq(LineType)
        /\ opts.format = "Tap" => TapWritten
        /\ opts.format = "Junit" => JunitWritten
    BY DEF Written
  <1>2. Among(out, PointLine) = {i \in DOMAIN out : out[i].line = "point"}
    BY <1>1, ElementOfSeq, LenProperties DEF Among, PointLine
  <1>3. CASE opts.format = "Tap"
    <2>1. /\ Cardinality({i \in DOMAIN out : out[i].line = "point"}) = pos
          /\ out[1].total = Len(selected)
      BY <1>1, <1>2, <1>3 DEF TapWritten
    <2> QED
      BY <1>1, <1>3, <2>1 DEF Undecided
  <1>4. CASE opts.format # "Tap"
    BY <1>1, <1>4 DEF Undecided, JunitWritten
  <1> QED
    BY <1>3, <1>4

LEMMA UndecidedStep ==
  ASSUME TypeOK, Control, Written, Undecided, [Next]_vars, Running' => Undecided'
  PROVE  Undecided'
  <1>1. CASE Running'
    BY <1>1
  <1>2. CASE OpenFails \/ CallRun \/ SelectNext
    <2>1. out' = << >>
      BY <1>2 DEF OpenFails, CallRun, SelectNext, Written
    <2> QED
      BY <2>1 DEF Undecided, Finished
  <1>3. CASE ListSelected
    BY <1>3 DEF ListSelected, Undecided
  <1>4. CASE EndRun
    <2>1. pos' = Len(selected') /\ pos' \in Nat
      BY <1>4 DEF EndRun, TypeOK
    <2> QED
      BY <2>1 DEF Undecided
  <1>5. CASE BeginRun \/ ReturnTimeout \/ ReturnJoined
    <2>1. main' = "loop"
      BY <1>5 DEF BeginRun, ReturnTimeout, ReturnJoined, Return
    <2> QED
      BY <1>1, <2>1 DEF Running
  <1>6. CASE Unwritten
    BY <1>6 DEF Unwritten, Undecided, Finished
  <1> QED
    BY <1>2, <1>3, <1>4, <1>5, <1>6, ReportSteps

(* While a run is in progress its report says what the runner knows: the   *)
(* plan it opened with; in console and TAP one line for each result of the *)
(* run, the k-th showing the test and the outcome of the k-th result, a    *)
(* bad one explained on the line behind it, TAP's k-th point numbered k;   *)
(* in JUnit nothing yet, but the reporter holds exactly those results in   *)
(* that order.  The lines of each outcome (in TAP, of ok) are as many as   *)
(* summary_ counts, and nothing closes the report (runner.cpp:185-211,     *)
(* reporter.cpp:31-193).                                                   *)
THEOREM WrittenHolds == Spec => []Written
  <1>1. Init => Written
    BY DEF Init, Written, Running, InRunOne, Waiting
  <1>2. Typing /\ Written /\ [Next]_vars => Written'
    BY WrittenStep DEF Typing
  <1> QED
    BY <1>1, <1>2, TypingHolds, PTL DEF Spec

(* A listing runs no test, so it can neither crash nor be running; and as  *)
(* long as a selected test is undecided, between runs and after the        *)
(* process has died too, the report is open (runner.cpp:170-222).          *)
THEOREM ReportsStayOpen == Spec => [](ListsOnly /\ Undecided)
  <1> DEFINE Inv == ListsOnly /\ Undecided
             Open == Running => Undecided
  <1>1. Init => Inv
    <2> SUFFICES ASSUME Init PROVE Inv
      OBVIOUS
    <2>1. ListsOnly
      BY DEF Init, WorkerInit, ListsOnly, Running, InRunOne, Waiting
    <2>2. Undecided
      BY DEF Init, Undecided, Finished
    <2> QED
      BY <2>1, <2>2
  <1>2. Typing /\ Written => Open
    BY RunningUndecided DEF Typing
  <1>3. Typing /\ Written /\ Open' /\ Inv /\ [Next]_vars => Inv'
    BY ListsOnlyStep, UndecidedStep DEF Typing
  <1> HIDE DEF Inv, Open
  <1>4. Spec => []Inv
    BY <1>1, <1>2, <1>3, TypingHolds, WrittenHolds, PTL DEF Spec
  <1> QED
    BY <1>4 DEF Inv

(* However the process dies, between two lines or in the middle of a       *)
(* listing's or an earlier run's aftermath, no report with undecided tests *)
(* reads like a finished one (runner.cpp:185-222, reporter.cpp:115-193).   *)
THEOREM CutShortLooksIt == Spec => []CutShortIsVisible
  <1>1. ListsOnly /\ Undecided => CutShortIsVisible
    BY DEF ListsOnly, Undecided, CutShortIsVisible, Lines
  <1> QED
    BY <1>1, ReportsStayOpen, PTL

----------------------------------------------------------------------------
(* A finished report shows the run and agrees with the answer              *)

(* The lines and the results it is about are one place apart. *)
LEMMA Shifted ==
  ASSUME NEW S \in SUBSET Nat, IsFiniteSet(S), NEW T \in SUBSET (Nat \ {0}),
         \A i \in Nat : i \in S <=> i + 1 \in T
  PROVE  IsFiniteSet(T) /\ Cardinality(T) = Cardinality(S)
  <1> DEFINE f == [i \in S |-> i + 1]
  <1>1. f \in [S -> T] /\ \A i, j \in S : f[i] = f[j] => i = j
    OBVIOUS
  <1>2. \A j \in T : \E i \in S : f[i] = j
    <2> TAKE j \in T
    <2>1. j - 1 \in Nat /\ (j - 1) + 1 = j
      OBVIOUS
    <2>2. j - 1 \in S
      BY <2>1
    <2> WITNESS j - 1 \in S
    <2> QED
      BY <2>1
  <1> HIDE DEF f
  <1>3. f \in Injection(S, T) /\ f \in Surjection(S, T)
    <2>1. \A j \in T : \E i \in S : f[i] = j
      BY <1>2
    <2>2. \A i, j \in S : f[i] = f[j] => i = j
      BY <1>1
    <2> QED
      BY <1>1, <2>1, <2>2, Zenon DEF Injection, Surjection, IsInjective
  <1>4. f \in Bijection(S, T)
    BY <1>3 DEF Bijection
  <1>5. ExistsBijection(S, T)
    BY <1>4 DEF ExistsBijection
  <1> QED
    BY <1>5, FS_Bijection

(* One more line, at the end. *)
LEMMA LineAdded ==
  ASSUME NEW S, NEW s \in Seq(S), NEW z \in S, s # << >>
  PROVE  LET t == s \o <<z>> IN
           /\ t \in Seq(S) /\ t # << >> /\ t[1] = s[1] /\ t[Len(t)] = z
           /\ Len(s) \in Nat /\ Len(t) = Len(s) + 1
           /\ \A i \in 1 .. Len(s) : t[i] = s[i]
           /\ \A kind : z \notin kind =>
                /\ Among(t, kind) = Among(s, kind)
                /\ \A i : Nth(t, kind, i) = Nth(s, kind, i)
  <1> DEFINE t == s \o <<z>>
  <1>1. <<z>> \in Seq(S) /\ Len(<<z>>) = 1 /\ <<z>>[1] = z
    OBVIOUS
  <1>2. /\ t \in Seq(S) /\ Len(s) \in Nat /\ Len(t) = Len(s) + 1
        /\ \A i \in 1 .. Len(s) : t[i] = s[i]
        /\ t[Len(s) + 1] = z
    BY <1>1, ConcatProperties, LenProperties
  <1> HIDE DEF t
  <1>3. Len(s) > 0
    BY <1>2, EmptySeq
  <1>4. t # << >> /\ t[1] = s[1] /\ t[Len(t)] = z
    BY <1>2, <1>3
  <1>5. ASSUME NEW kind, z \notin kind PROVE Among(t, kind) = Among(s, kind)
    <2>1. DOMAIN t = 1 .. Len(s) + 1 /\ DOMAIN s = 1 .. Len(s)
      BY <1>2, LenProperties
    <2>2. Len(s) + 1 \notin Among(t, kind)
      BY <1>2, <1>5 DEF Among
    <2> QED
      BY <1>2, <2>1, <2>2 DEF Among
  <1>6. ASSUME NEW kind, NEW i, z \notin kind PROVE Nth(t, kind, i) = Nth(s, kind, i)
    BY <1>5, <1>6, Zenon DEF Nth
  <1> QED
    BY <1>2, <1>4, <1>5, <1>6 DEF t

(* The summary tells a run that passed from one that did not. *)
LEMMA PassedIsAll ==
  ASSUME TypeOK, summary.passed + NotPassed(summary) = pos,
         NEW all, IsFiniteSet(all), NEW good \in SUBSET all,
         Cardinality(all) = pos, Cardinality(good) = summary.passed
  PROVE  NotPassed(summary) = 0 <=> good = all
  <1>1. summary.passed \in Nat /\ NotPassed(summary) \in Nat
    BY SMTT(30) DEF TypeOK, SummaryType, NotPassed
  <1>2. NotPassed(summary) = 0 <=> Cardinality(good) = Cardinality(all)
    BY <1>1
  <1> QED
    BY <1>2, FS_Subset

LEMMA ConsoleEnds ==
  ASSUME TypeOK, Written, opts.format = "Console", EndRun
  PROVE  ConsoleHonest'
  <1>1. /\ ConsoleWritten /\ reporter.format = "Console" /\ out \in Seq(LineType)
        /\ summary.total = Len(selected) /\ summary.passed + NotPassed(summary) = pos
    BY DEF EndRun, Written, Running
  <1> DEFINE z == [line |-> "summary", counts |-> summary]
             results_ == Among(out, ResultLine)
             showing(o) == Among(out, ShowingLine(o))
  <1>2. z \in LineType /\ out' = out \o <<z>>
    <2>1. z \in LineType
      BY DEF TypeOK, LineType
    <2> QED
      BY <1>1, <2>1 DEF EndRun, EndLines
  <1>3. z \notin ResultLine /\ (\A o : z \notin ShowingLine(o)) /\ z.counts = summary
    BY DEF ResultLine, ShowingLine
  <1>4. /\ out' \in Seq(LineType) /\ out'[1] = out[1] /\ out'[Len(out')] = z
        /\ Among(out', ResultLine) = results_
        /\ \A o : Among(out', ShowingLine(o)) = showing(o)
        /\ Len(out) <= Len(out') /\ \A i \in 1 .. Len(out) : out'[i] = out[i]
    <2> HIDE DEF z
    <2>1. out # << >>
      BY <1>1 DEF ConsoleWritten
    <2>2. Len(out) <= Len(out')
      BY <1>1, <1>2, <2>1, LineAdded
    <2> QED
      BY <1>1, <1>2, <1>3, <2>1, <2>2, LineAdded
  <1>5. /\ {i \in DOMAIN out' : out'[i].line = "result"} = results_
        /\ \A o : {i \in results_ : out'[i].outcome = o} = showing(o)
    <2>1. \A i \in DOMAIN out' : out'[i] \in LineType
      BY <1>4, ElementOfSeq, LenProperties
    <2>2. {i \in DOMAIN out' : out'[i].line = "result"} = Among(out', ResultLine)
      BY <2>1 DEF Among, ResultLine
    <2>3. \A o : {i \in Among(out', ResultLine) : out'[i].outcome = o}
                  = Among(out', ShowingLine(o))
      BY DEF Among, ShowingLine
    <2> HIDE DEF z, results_, showing
    <2> QED
      BY <1>4, <2>2, <2>3
  <1>6. /\ IsFiniteSet(results_) /\ Cardinality(results_) = pos
        /\ results_ \subseteq 1 .. Len(out)
        /\ \A o \in Outcomes : Cardinality(showing(o)) = Total(summary, o)
        /\ showing("Passed") \subseteq results_
    <2>1. showing("Passed") \subseteq results_
      BY DEF Among, ShowingLine
    <2> QED
      BY <1>1, <2>1, AmongFinite DEF ConsoleWritten
  <1>7. /\ pos = Len(selected) /\ pos' = pos /\ verdict' = (NotPassed(summary) = 0)
        /\ RunResults' = RunResults
    BY DEF EndRun, RunResults
  <1>8. verdict' <=> showing("Passed") = results_
    <2>1. Cardinality(showing("Passed")) = summary.passed
      BY <1>6 DEF Outcomes, Total
    <2> HIDE DEF showing, results_
    <2> QED
      BY <1>1, <1>6, <1>7, <2>1, PassedIsAll
  <1>9. out'[1].total = pos' /\ out'[Len(out')].counts = summary /\ summary.total = pos'
    BY <1>1, <1>3, <1>4, <1>7 DEF ConsoleWritten
  <1>10. ASSUME NEW i \in results_
         PROVE  LET q == RunResults'[Cardinality({j \in results_ : j <= i})]
                IN  ResultShows(out'[i], q) /\ Explained(out', i, q)
    <2> DEFINE q == RunResults[Nth(out, ResultLine, i)]
    <2>1. ResultShows(out[i], q) /\ Explained(out, i, q)
      BY <1>1, Zenon DEF ConsoleWritten
    <2>2. Nth(out, ResultLine, i) = Cardinality({j \in results_ : j <= i})
      BY DEF Nth
    <2> HIDE DEF q, results_
    <2>3. out'[i] = out[i] /\ Explained(out', i, q)
      BY <1>1, <1>4, <1>6, <2>1, ExplainedStill
    <2> QED
      BY <1>7, <2>1, <2>2, <2>3, Zenon DEF q
  <1> HIDE DEF z, results_, showing
  <1>11. ASSUME NEW o \in Outcomes
         PROVE  Cardinality({i \in results_ : out'[i].outcome = o}) = Total(summary, o)
    BY <1>5, <1>6
  <1>12. verdict' <=> {i \in results_ : out'[i].outcome = "Passed"} = results_
    BY <1>5, <1>8
  <1>13. Cardinality(results_) = pos'
    BY <1>6, <1>7
  <1>14. {i \in DOMAIN out' : out'[i].line = "result"} = results_
    BY <1>5
  <1> QED
    BY <1>9, <1>10, <1>11, <1>12, <1>13, <1>14, Zenon DEF ConsoleHonest, Lines

LEMMA TapEnds ==
  ASSUME TypeOK, Written, opts.format = "Tap", EndRun
  PROVE  TapHonest'
  <1>1. /\ TapWritten /\ reporter.format = "Tap" /\ out \in Seq(LineType)
        /\ summary.total = Len(selected) /\ summary.passed + NotPassed(summary) = pos
    BY DEF EndRun, Written, Running
  <1> DEFINE z == [line |-> "comment", passed |-> summary.passed, total |-> summary.total]
             points == Among(out, PointLine)
             good == Among(out, OkLine)
  <1>2. z \in LineType /\ out' = out \o <<z>>
    <2>1. z \in LineType
      BY DEF TypeOK, SummaryType, LineType
    <2> QED
      BY <1>1, <2>1 DEF EndRun, EndLines
  <1>3. /\ z \notin PointLine /\ z \notin OkLine
        /\ z.passed = summary.passed /\ z.total = summary.total
    BY DEF PointLine, OkLine
  <1>4. /\ out' \in Seq(LineType) /\ out'[1] = out[1] /\ out'[Len(out')] = z
        /\ Among(out', PointLine) = points /\ Among(out', OkLine) = good
        /\ Len(out) <= Len(out') /\ \A i \in 1 .. Len(out) : out'[i] = out[i]
    <2> HIDE DEF z
    <2>1. out # << >>
      BY <1>1 DEF TapWritten
    <2>2. Len(out) <= Len(out')
      BY <1>1, <1>2, <2>1, LineAdded
    <2> QED
      BY <1>1, <1>2, <1>3, <2>1, <2>2, LineAdded
  <1>5. /\ {i \in DOMAIN out' : out'[i].line = "point"} = points
        /\ {i \in DOMAIN out' : out'[i].line = "point" /\ out'[i].ok} = good
    <2>1. \A i \in DOMAIN out' : out'[i] \in LineType
      BY <1>4, ElementOfSeq, LenProperties
    <2> HIDE DEF z
    <2>2. {i \in DOMAIN out' : out'[i].line = "point"} = Among(out', PointLine)
      BY <2>1 DEF Among, PointLine
    <2>3. {i \in DOMAIN out' : out'[i].line = "point" /\ out'[i].ok} = Among(out', OkLine)
      BY <2>1 DEF Among, PointLine, OkLine
    <2> QED
      BY <1>4, <2>2, <2>3
  <1>6. /\ IsFiniteSet(points) /\ Cardinality(points) = pos /\ points \subseteq 1 .. Len(out)
        /\ Cardinality(good) = summary.passed /\ good \subseteq points
    <2>1. good \subseteq points
      BY DEF Among, OkLine
    <2> QED
      BY <1>1, <2>1, AmongFinite DEF TapWritten
  <1>7. /\ pos = Len(selected) /\ pos' = pos /\ verdict' = (NotPassed(summary) = 0)
        /\ RunResults' = RunResults
    BY DEF EndRun, RunResults
  <1>8. verdict' <=> good = points
    <2> HIDE DEF good, points
    <2> QED
      BY <1>1, <1>6, <1>7, PassedIsAll
  <1>9. /\ out'[1].total = pos'
        /\ out'[Len(out')].total = pos' /\ out'[Len(out')].passed = summary.passed
    BY <1>1, <1>3, <1>4, <1>7 DEF TapWritten
  <1>10. ASSUME NEW i \in points
         PROVE  LET n == Cardinality({j \in points : j <= i})
                IN  /\ out'[i].index = n
                    /\ PointShows(out'[i], RunResults'[n])
                    /\ Explained(out', i, RunResults'[n])
    <2> DEFINE n == Nth(out, PointLine, i)
               q == RunResults[n]
    <2>1. out[i].index = n /\ PointShows(out[i], q) /\ Explained(out, i, q)
      BY <1>1, Zenon DEF TapWritten
    <2>2. n = Cardinality({j \in points : j <= i})
      BY DEF Nth
    <2> HIDE DEF n, q, points
    <2>3. out'[i] = out[i] /\ Explained(out', i, q)
      BY <1>1, <1>4, <1>6, <2>1, ExplainedStill
    <2> QED
      BY <1>7, <2>1, <2>2, <2>3, Zenon DEF q
  <1> HIDE DEF z, points, good
  <1>11. Cardinality(points) = pos' /\ summary.passed = Cardinality(good)
    BY <1>6, <1>7
  <1> QED
    BY <1>5, <1>8, <1>9, <1>10, <1>11, Zenon DEF TapHonest, Lines

LEMMA JunitEnds ==
  ASSUME TypeOK, Written, opts.format = "Junit", EndRun
  PROVE  JunitHonest'
  <1> DEFINE held_ == reporter.held
             n == Len(held_)
             failed == Among(held_, WithOutcome({"Failed"}))
             broken == Among(held_, WithOutcome({"Timeout", "Error"}))
             Child_(i) == out'[i].child
             fails == {i \in DOMAIN out' : out'[i].line = "testcase" /\ Child_(i) = "failure"}
             errs == {i \in DOMAIN out' : out'[i].line = "testcase"
                                 /\ Child_(i) \in {"error:timeout", "error:exception"}}
  <1>1. /\ JunitWritten /\ reporter.format = "Junit"
        /\ summary.total = Len(selected) /\ summary.passed + NotPassed(summary) = pos
    BY DEF EndRun, Written, Running
  <1>2. /\ reporter \in [format : Formats, index : Nat, held : Seq(ResultType)]
        /\ held_ \in Seq(ResultType) /\ summary \in SummaryType
    BY DEF TypeOK
  <1>3. out' = EndLines(reporter, summary)
    <2>1. EndLines(reporter, summary) \in Seq(LineType) /\ out = << >>
      BY <1>1, <1>2, EndLinesType DEF JunitWritten
    <2> QED
      BY <2>1, ConcatEmptySeq DEF EndRun
  <1>4. /\ DOMAIN out' = 1 .. n + 2 /\ n \in Nat
        /\ out'[1] = Suites(summary) /\ out'[n + 2] = Closed
        /\ \A i \in 1 .. n : out'[i + 1] = Testcase(held_[i])
    BY <1>1, <1>2, <1>3, JunitLines, LenProperties
  <1>5. \A i \in 1 .. n + 2 : i = 1 \/ i = n + 2 \/ (i - 1 \in 1 .. n /\ (i - 1) + 1 = i)
    BY <1>4
  <1>6. out'[1].line = "testsuites" /\ out'[n + 2].line = "end"
    BY <1>4 DEF Suites, Closed
  <1>7. \A i \in 1 .. n :
          /\ i + 1 \in 1 .. n + 2 /\ out'[i + 1].line = "testcase"
          /\ (Child_(i + 1) = "failure") <=> i \in failed
          /\ (Child_(i + 1) \in {"error:timeout", "error:exception"}) <=> i \in broken
          /\ TestcaseShows(out'[i + 1], held_[i])
    <2> TAKE i \in 1 .. n
    <2>1. held_[i] \in ResultType /\ i \in DOMAIN held_
      BY <1>2, ElementOfSeq, LenProperties
    <2>2. i + 1 \in 1 .. n + 2 /\ out'[i + 1] = Testcase(held_[i])
      BY <1>4
    <2>3. /\ i \in failed <=> held_[i] \in WithOutcome({"Failed"})
          /\ i \in broken <=> held_[i] \in WithOutcome({"Timeout", "Error"})
      BY <2>1 DEF Among
    <2> HIDE DEF failed, broken, held_, n
    <2> QED
      BY <2>1, <2>2, <2>3, TestcaseChild
  <1>8. {i \in DOMAIN out' : out'[i].line = "testcase"} = 2 .. n + 1
    <2>1. \A i \in 1 .. n + 2 : out'[i].line = "testcase" => i \in 2 .. n + 1
      <3> HIDE DEF failed, broken, held_, n
      <3> SUFFICES ASSUME NEW i \in 1 .. n + 2, out'[i].line = "testcase"
                   PROVE  i \in 2 .. n + 1
        OBVIOUS
      <3>1. i # 1 /\ i # n + 2
        BY <1>6
      <3> QED
        BY <1>4, <3>1
    <2>2. \A i \in 2 .. n + 1 : i \in 1 .. n + 2 /\ out'[i].line = "testcase"
      <3> HIDE DEF failed, broken, held_, n
      <3> TAKE i \in 2 .. n + 1
      <3>1. i - 1 \in 1 .. n /\ (i - 1) + 1 = i
        BY <1>4
      <3> QED
        BY <1>7, <3>1
    <2>3. DOMAIN out' = 1 .. n + 2
      BY <1>4
    <2> QED
      BY <2>1, <2>2, <2>3, Zenon
  <1>9. \A k \in 1 .. n : TestcaseShows(out'[k + 1], RunResults'[k])
    <2>1. RunResults' = RunResults /\ n = pos
      BY <1>1 DEF EndRun, RunResults, JunitWritten
    <2>2. \A k \in 1 .. n : held_[k] = RunResults[k]
      BY <1>1, <2>1 DEF JunitWritten
    <2> HIDE DEF n, held_, failed, broken
    <2> QED
      BY <1>7, <2>1, <2>2
  <1>10. /\ failed \subseteq 1 .. n /\ IsFiniteSet(failed)
         /\ broken \subseteq 1 .. n /\ IsFiniteSet(broken)
    BY <1>2, AmongFinite
  <1>11. IsFiniteSet(fails) /\ Cardinality(fails) = Cardinality(failed)
    <2>1. \A i \in 1 .. n : i \in failed <=> i + 1 \in fails
      <3> HIDE DEF failed, held_, n
      <3> QED
        BY <1>4, <1>7
    <2>2. fails \subseteq 2 .. n + 1
      BY <1>8
    <2>3. failed \in SUBSET Nat /\ fails \in SUBSET (Nat \ {0})
      BY <1>4, <1>10, <2>2
    <2>4. \A i \in Nat : i \in failed <=> i + 1 \in fails
      BY <1>4, <1>10, <2>1, <2>2
    <2> HIDE DEF failed, fails
    <2> QED
      BY <1>10, <2>3, <2>4, Shifted
  <1>12. IsFiniteSet(errs) /\ Cardinality(errs) = Cardinality(broken)
    <2>1. \A i \in 1 .. n : i \in broken <=> i + 1 \in errs
      <3> HIDE DEF broken, held_, n
      <3> QED
        BY <1>4, <1>7
    <2>2. errs \subseteq 2 .. n + 1
      BY <1>8
    <2>3. broken \in SUBSET Nat /\ errs \in SUBSET (Nat \ {0})
      BY <1>4, <1>10, <2>2
    <2>4. \A i \in Nat : i \in broken <=> i + 1 \in errs
      BY <1>4, <1>10, <2>1, <2>2
    <2> HIDE DEF broken, errs
    <2> QED
      BY <1>10, <2>3, <2>4, Shifted
  <1>13. /\ n = pos /\ pos' = pos /\ pos = Len(selected) /\ verdict' = (NotPassed(summary) = 0)
         /\ Cardinality(failed) = summary.failed
         /\ Cardinality(broken) = summary.timed_out + summary.errored
    BY <1>1 DEF EndRun, JunitWritten
  <1>14. /\ out'[1].tests = pos' /\ out'[1].failures = Cardinality(fails)
         /\ out'[1].errors = Cardinality(errs)
    BY <1>1, <1>2, <1>4, <1>11, <1>12, <1>13 DEF Suites, SummaryType
  <1>15. verdict' <=> fails \cup errs = {}
    <2>0. /\ Cardinality(fails) = summary.failed
          /\ Cardinality(errs) = summary.timed_out + summary.errored
          /\ verdict' = (summary.failed + summary.timed_out + summary.errored = 0)
      BY <1>11, <1>12, <1>13 DEF NotPassed
    <2>1. (summary.failed + summary.timed_out + summary.errored = 0)
            <=> (summary.failed = 0 /\ summary.timed_out + summary.errored = 0)
      BY <1>2 DEF SummaryType
    <2>2. /\ (Cardinality(fails) = 0) <=> (fails = {})
          /\ (Cardinality(errs) = 0) <=> (errs = {})
      BY <1>11, <1>12, FS_EmptySet
    <2> HIDE DEF fails, errs
    <2>3. (summary.failed + summary.timed_out + summary.errored = 0)
            <=> (fails = {} /\ errs = {})
      BY <2>0, <2>1, <2>2, Zenon
    <2>4. (fails \cup errs = {}) <=> (fails = {} /\ errs = {})
      OBVIOUS
    <2> QED
      BY <2>0, <2>3, <2>4, Zenon
  <1>16. /\ {i \in DOMAIN out' : out'[i].line = "testcase"} = 2 .. pos' + 1
         /\ \A k \in 1 .. pos' : TestcaseShows(out'[k + 1], RunResults'[k])
    BY <1>8, <1>9, <1>13
  <1> QED
    BY <1>14, <1>15, <1>16 DEF JunitHonest, Lines

LEMMA HonestStep ==
  ASSUME TypeOK, Control, Written, ReportHonest, [Next]_vars
  PROVE  ReportHonest'
  <1> SUFFICES ASSUME main' = "idle", Finished'
               PROVE  (CASE opts.format = "Console" -> ConsoleHonest
                         [] opts.format = "Tap"     -> TapHonest
                         [] opts.format = "Junit"   -> JunitHonest)'
    BY DEF ReportHonest
  <1>1. ~(CallRun \/ SelectNext \/ BeginRun \/ ReturnTimeout \/ ReturnJoined)
    BY ReturnedResult DEF CallRun, SelectNext, BeginRun, Return
  <1>2. ~OpenFails
    BY DEF OpenFails, Finished
  <1>3. ~ListSelected
    <2> SUFFICES ASSUME ListSelected PROVE FALSE
      OBVIOUS
    <2>1. Len(selected) \in Nat /\ DOMAIN selected = 1 .. Len(selected)
      BY LenProperties DEF TypeOK
    <2>2. /\ DOMAIN out' = 1 .. Len(selected)
          /\ \A i \in 1 .. Len(selected) : out'[i].line = "case"
      <3> DEFINE line_(i) == [line |-> "case", test |-> selected[i]]
      <3>1. out' = [i \in 1 .. Len(selected) |-> line_(i)]
        BY <2>1 DEF ListSelected
      <3>2. \A i : line_(i).line = "case"
        OBVIOUS
      <3> HIDE DEF line_
      <3>3. DOMAIN out' = 1 .. Len(selected) /\ \A i \in 1 .. Len(selected) : out'[i] = line_(i)
        BY <3>1, Zenon
      <3> QED
        BY <3>2, <3>3, Zenon
    <2>3. out' \in Seq(LineType) /\ Len(out') = Len(selected)
      <3>1. out' \in Seq(LineType)
        BY WrittenStep DEF Written
      <3> QED
        BY <2>1, <2>2, <3>1, LenProperties
    <2>4. Len(out') \in 1 .. Len(selected)
      BY <2>1, <2>3, EmptySeq DEF Finished
    <2> QED
      BY <2>2, <2>4 DEF Finished
  <1>4. CASE EndRun
    <2>1. opts' = opts /\ opts.format \in Formats
      BY <1>4, RunnerAssumption DEF EndRun, TypeOK, OptionType
    <2>2. /\ opts.format = "Console" => ConsoleHonest'
          /\ opts.format = "Tap" => TapHonest'
          /\ opts.format = "Junit" => JunitHonest'
      BY <1>4, ConsoleEnds, TapEnds, JunitEnds
    <2> QED
      BY <2>1, <2>2 DEF Formats
  <1>5. CASE Unwritten
    <2>1. /\ main = "idle" /\ opts' = opts /\ out' = out /\ verdict' = verdict
          /\ pos' = pos /\ RunResults' = RunResults
      BY <1>5 DEF Unwritten, RunResults
    <2>2. CASE opts.format = "Console"
      <3>1. ConsoleHonest
        BY <2>1, <2>2 DEF ReportHonest, Finished
      <3> QED
        BY <2>1, <2>2, <3>1 DEF ConsoleHonest, Lines
    <2>3. CASE opts.format = "Tap"
      <3>1. TapHonest
        BY <2>1, <2>3 DEF ReportHonest, Finished
      <3> QED
        BY <2>1, <2>3, <3>1 DEF TapHonest, Lines
    <2>4. CASE opts.format = "Junit"
      <3>1. JunitHonest
        BY <2>1, <2>4 DEF ReportHonest, Finished
      <3> QED
        BY <2>1, <2>4, <3>1 DEF JunitHonest, Lines
    <2>5. opts.format \in Formats
      BY RunnerAssumption DEF TypeOK, OptionType
    <2> QED
      BY <2>2, <2>3, <2>4, <2>5 DEF Formats
  <1> QED
    BY <1>1, <1>2, <1>3, <1>4, <1>5, ReportSteps

(* Every report that is finished when run() has returned shows the results *)
(* of that run, each once and in order, in all three formats: the k-th     *)
(* result line, point or testcase has the test of the k-th result and the  *)
(* outcome, ok or child element that goes with it, the console and TAP     *)
(* explain a bad one on the next line, TAP numbers the k-th point k; plan  *)
(* and totals are the number of results, each count the number of lines it *)
(* is about, and there is no bad line exactly when run() said that         *)
(* everything passed (runner.cpp:185-222, reporter.cpp:31-193).            *)
THEOREM ReportsAreHonest == Spec => []ReportHonest
  <1>1. Init => ReportHonest
    BY DEF Init, ReportHonest, Finished
  <1>2. Typing /\ Written /\ ReportHonest /\ [Next]_vars => ReportHonest'
    BY HonestStep DEF Typing
  <1> QED
    BY <1>1, <1>2, TypingHolds, WrittenHolds, PTL DEF Spec

(* The three together are the inductive invariant of the report.           *)
THEOREM ReportInvariant == Spec => []ReportInv
  <1>1. Written /\ (ListsOnly /\ Undecided) /\ ReportHonest => ReportInv
    BY DEF ReportInv
  <1> QED
    BY <1>1, WrittenHolds, ReportsStayOpen, ReportsAreHonest, PTL
================================================================================
