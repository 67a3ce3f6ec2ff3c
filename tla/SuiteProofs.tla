------------------------------- MODULE SuiteProofs -------------------------------
(* Runner implements Suite, for every registry, options and number of      *)
(* invocations: a run decides the admitted tests in registration order,    *)
(* each once, and answers for exactly these decisions.                     *)
EXTENDS RunnerProofs, IntervalInduction

----------------------------------------------------------------------------
(* The plan                                                                *)

(* What the selection loop keeps of the first n cases.  (The length of the *)
(* registry is an opaque number here: the function is not a sequence.)     *)
LEMMA AdmittedSteps ==
  ASSUME NEW o
  PROVE  /\ Admitted(o)[0] = << >>
         /\ \A n \in 0 .. Len(cases) : Admitted(o)[n] \in Seq(TestCases)
         /\ \A n \in 1 .. Len(cases) :
              Admitted(o)[n] = IF Selected(o, cases[n])
                               THEN Append(Admitted(o)[n - 1], cases[n])
                               ELSE Admitted(o)[n - 1]
  <1> DEFINE L == Len(cases)
             V == Seq(TestCases)
             Step(i, s) == IF Selected(o, cases[i]) THEN Append(s, cases[i]) ELSE s
             g == [i \in Nat |-> [s \in V |-> IF i \in 1 .. L THEN Step(i, s) ELSE s]]
             Is(f) == f = [n \in 0 .. L |-> IF n = 0 THEN << >> ELSE Step(n, f[n - 1])]
  <1>1. L \in Nat /\ \A i \in 1 .. L : cases[i] \in TestCases
    BY RunnerAssumption, LenProperties, ElementOfSeq
  <1>2. \A i \in 1 .. L : \A s \in V : Step(i, s) \in V
    BY <1>1, AppendProperties
  <1>3. << >> \in V
    OBVIOUS
  <1>4. ASSUME NEW f, Is(f) PROVE Is(Admitted(o))
    BY <1>4, Zenon DEF Admitted
  <1> SUFFICES /\ Admitted(o)[0] = << >>
               /\ \A n \in 0 .. L : Admitted(o)[n] \in V
               /\ \A n \in 1 .. L : Admitted(o)[n] = Step(n, Admitted(o)[n - 1])
    BY Zenon
  <1> HIDE DEF L, V, Step
  <1>5. g \in [Nat -> [V -> V]] /\ \A i \in 1 .. L : \A s \in V : g[i][s] = Step(i, s)
    BY <1>1, <1>2
  <1> HIDE DEF g
  <1>6. PICK f : Repeats(f, L, V, << >>, g)
    <2>1. L \in Nat /\ << >> \in V /\ g \in StepsIn(V)
      BY <1>1, <1>3, <1>5 DEF StepsIn
    <2> QED
      BY <2>1, Recursion
  <1>7. \A i \in 1 .. L : f[i - 1] \in V /\ f[i] = Step(i, f[i - 1])
    <2> TAKE i \in 1 .. L
    <2>1. i - 1 \in 0 .. L
      BY <1>1
    <2>2. f \in [0 .. L -> V] /\ f[i] = g[i][f[i - 1]]
      BY <1>6, Zenon DEF Repeats
    <2> QED
      BY <1>5, <2>1, <2>2
  <1>8. Is(f)
    <2>1. \A i \in 0 .. L : i = 0 \/ i \in 1 .. L
      BY <1>1
    <2>2. f = [n \in 0 .. L |-> f[n]]
      BY <1>6 DEF Repeats
    <2> QED
      BY <1>6, <1>7, <2>1, <2>2, Zenon DEF Repeats
  <1>9. Is(Admitted(o))
    BY <1>4, <1>8
  <1> DEFINE kept == Admitted(o)
  <1>10. kept = [n \in 0 .. L |-> IF n = 0 THEN << >> ELSE Step(n, kept[n - 1])]
    BY <1>9, Zenon
  <1> HIDE DEF kept, Is
  <1>11. kept[0] = << >> /\ \A n \in 1 .. L : kept[n] = Step(n, kept[n - 1])
    <2>1. 0 \in 0 .. L /\ \A n \in 1 .. L : n \in 0 .. L /\ n # 0
      BY <1>1
    <2> QED
      BY <1>10, <2>1, Zenon
  <1>12. \A n \in 0 .. L : kept[n] \in V
    <2> DEFINE S == {n \in Nat : n <= L => kept[n] \in V}
    <2>1. 0 \in S
      BY <1>3, <1>11
    <2>2. ASSUME NEW n \in S PROVE n + 1 \in S
      <3>1. CASE n + 1 <= L
        <4>1. n + 1 \in 1 .. L /\ (n + 1) - 1 = n /\ kept[n] \in V
          BY <1>1, <3>1
        <4> QED
          BY <1>2, <1>11, <4>1
      <3> QED
        BY <3>1
    <2> HIDE DEF S
    <2>3. S = Nat
      <3>1. S \in SUBSET Nat
        BY DEF S
      <3> QED
        BY <2>1, <2>2, <3>1, Induction
    <2> QED
      BY <1>1, <2>3 DEF S
  <1> QED
    BY <1>11, <1>12 DEF kept

----------------------------------------------------------------------------
(* The walk, the plan and the results of the run                           *)

LEMMA PlanInit == Init => PlanInv
  <1> SUFFICES ASSUME Init PROVE PlanInv
    OBVIOUS
  <1> QED
    BY DEF Init, PlanInv, Running, InRunOne, Waiting

LEMMA OptionsStay ==
  ASSUME TypeOK, Control, [Next]_vars
  PROVE  opts' = opts
  BY StepKinds, ElsewhereStep, WaitStep, ReturnedResult DEF Spawn, Return, Work

(* Only run() itself and a recorded result touch the walk and the run.     *)
Aside ==
  /\ UNCHANGED <<opts, walked, selected, pos, results, verdict>>
  /\ main' = "select" => main = "select"
  /\ Running' => Running

LEMMA PlanSteps ==
  ASSUME TypeOK, Control, [Next]_vars
  PROVE  \/ OpenFails \/ CallRun \/ SelectNext \/ ListSelected \/ BeginRun \/ EndRun
         \/ ReturnTimeout \/ ReturnJoined
         \/ Aside /\ (Spawn \/ Waits \/ \E w \in Invocations : Work(w))
         \/ Aside /\ (SpawnFails \/ Crash)
         \/ Aside /\ (ReturnFromMain \/ DestroyRegistry \/ ProcessEnds \/ UNCHANGED vars)
  <1> USE DEF Aside, runVars, Running, InRunOne, Waiting
  <1>1. CASE Spawn
    BY <1>1 DEF Spawn
  <1>2. CASE Waits
    BY <1>2, WaitStep
  <1>3. ASSUME NEW w \in Invocations, Work(w) PROVE Aside
    BY <1>3 DEF Work
  <1>4. CASE SpawnFails \/ Crash
    BY <1>4 DEF SpawnFails, Crash
  <1>5. CASE ReturnFromMain \/ DestroyRegistry \/ ProcessEnds \/ UNCHANGED vars
    BY <1>5 DEF ReturnFromMain, DestroyRegistry, ProcessEnds, vars
  <1> QED
    BY <1>1, <1>2, <1>3, <1>4, <1>5, StepKinds DEF Elsewhere

LEMMA PlanStep ==
  ASSUME TypeOK, Control, PlanInv, [Next]_vars
  PROVE  PlanInv'
  <1>0. opts' = opts
    BY OptionsStay
  <1> USE DEF PlanInv, Running, InRunOne, Waiting
  <1>1. CASE OpenFails \/ CallRun \/ ListSelected \/ EndRun
    BY <1>0, <1>1, AdmittedSteps DEF OpenFails, CallRun, ListSelected, EndRun, procVars
  <1>2. CASE SelectNext
    <2>1. Len(cases) \in Nat /\ walked \in 0 .. Len(cases)
      BY RunnerAssumption, LenProperties DEF TypeOK
    <2>2. /\ walked + 1 \in 1 .. Len(cases) /\ (walked + 1) - 1 = walked
          /\ selected = Admitted(opts)[walked] /\ walked' = walked + 1
          /\ selected' = IF Selected(opts, cases[walked + 1])
                         THEN Append(selected, cases[walked + 1]) ELSE selected
          /\ main' = "select" /\ main = "select" /\ status' = status
      BY <1>2, <2>1 DEF SelectNext, procVars
    <2>3. selected' = Admitted(opts)[walked']
      BY <2>2, AdmittedSteps
    <2> QED
      BY <1>0, <2>2, <2>3
  <1>3. CASE BeginRun
    <2>1. Len(results) \in Nat
      BY LenProperties DEF TypeOK
    <2>2. /\ selected' = Admitted(opts)[Len(cases)] /\ main' = "loop" /\ main = "select"
          /\ pos' = 0 /\ results' = results /\ status' = status
      BY <1>3 DEF BeginRun, procVars
    <2> QED
      BY <1>0, <2>1, <2>2
  <1>4. CASE ReturnTimeout \/ ReturnJoined
    <2>1. PICK r \in ResultType : Return(r) /\ r.test = case
      BY <1>4, ReturnedResult
    <2>2. /\ Running /\ main' = "loop" /\ selected' = selected /\ pos' = pos + 1
          /\ registry' = registry /\ status' = status
      BY <1>4, <2>1 DEF ReturnTimeout, ReturnJoined, Return, procVars
    <2>3. /\ Len(results) \in Nat /\ Len(results') = Len(results) + 1
          /\ results'[Len(results) + 1] = r /\ pos \in Nat /\ pos <= Len(results)
          /\ \A k \in 1 .. Len(results) : results'[k] = results[k]
      BY <2>1, <2>2, ReturnResults DEF cur, TypeOK
    <2>4. \A i \in 1 .. pos : results[Len(results) - pos + i].test = selected[i]
      BY <2>2
    <2>5. ASSUME NEW i \in 1 .. pos'
          PROVE  results'[Len(results') - pos' + i].test = selected[i]
      <3>1. Len(results') - pos' + i = Len(results) - pos + i
        BY <2>2, <2>3
      <3>2. CASE i = pos + 1
        <4>1. Len(results) - pos + i = Len(results) + 1
          BY <2>3, <3>2
        <4> QED
          BY <2>1, <2>3, <3>1, <3>2, <4>1 DEF case
      <3>3. CASE i # pos + 1
        <4>1. i \in 1 .. pos /\ Len(results) - pos + i \in 1 .. Len(results)
          BY <2>2, <2>3, <3>3
        <4> QED
          BY <2>3, <2>4, <3>1, <4>1
      <3> QED
        BY <3>2, <3>3
    <2>6. pos' <= Len(results')
      BY <2>2, <2>3
    <2>7. selected' = Admitted(opts)[Len(cases)]
      BY <2>2
    <2> QED
      BY <1>0, <2>2, <2>5, <2>6, <2>7
  <1>5. CASE Aside
    <2>1. (status \in {"terminate", "signal"} => main = "gone")'
      <3>1. ASSUME NEW w \in Invocations, Work(w)
            PROVE  main' = main /\ status' = status
        BY <3>1 DEF Work, procVars
      <3>2. CASE Spawn \/ Waits
        BY <3>2, WaitStep DEF Spawn, procVars
      <3>3. CASE SpawnFails \/ Crash \/ ReturnFromMain \/ DestroyRegistry \/ ProcessEnds
        BY <3>3 DEF SpawnFails, Crash, ReturnFromMain, DestroyRegistry, ProcessEnds, procVars
      <3>4. CASE UNCHANGED vars
        BY <3>4 DEF vars, procVars
      <3>5. CASE OpenFails \/ CallRun \/ SelectNext \/ ListSelected \/ BeginRun \/ EndRun
        BY <3>5 DEF OpenFails, CallRun, SelectNext, ListSelected, BeginRun, EndRun, procVars
      <3>6. CASE ReturnTimeout \/ ReturnJoined
        <4>1. PICK r \in ResultType : Return(r)
          BY <3>6, ReturnedResult
        <4> QED
          BY <3>6, <4>1 DEF Return, ReturnTimeout, ReturnJoined, procVars
      <3> QED
        BY <3>1, <3>2, <3>3, <3>4, <3>5, <3>6, StepKinds DEF Elsewhere
    <2>2. (main = "select" => selected = Admitted(opts)[walked])'
      BY <1>0, <1>5 DEF Aside
    <2>3. (Running => /\ selected = Admitted(opts)[Len(cases)]
                      /\ pos <= Len(results)
                      /\ \A i \in 1 .. pos : results[Len(results) - pos + i].test = selected[i])'
      <3> SUFFICES ASSUME Running'
                   PROVE  (/\ selected = Admitted(opts)[Len(cases)]
                           /\ pos <= Len(results)
                           /\ \A i \in 1 .. pos :
                                results[Len(results) - pos + i].test = selected[i])'
        BY Zenon
      <3>1. Running /\ UNCHANGED <<opts, selected, pos, results>>
        BY <1>0, <1>5 DEF Aside
      <3> QED
        BY <3>1
    <2> QED
      BY <2>1, <2>2, <2>3
  <1> QED
    BY <1>1, <1>2, <1>3, <1>4, <1>5, PlanSteps

(* Whatever is run is what the options admit, in registration order, and   *)
(* the results of a run are about its tests, one for one (runner.cpp:23-49,*)
(* 152-219).                                                               *)
THEOREM PlanIsFollowed == Spec => []PlanInv
  <1>1. Typing /\ PlanInv /\ [Next]_vars => PlanInv'
    BY PlanStep DEF Typing
  <1> QED
    BY <1>1, PlanInit, TypingHolds, PTL DEF Spec

----------------------------------------------------------------------------
(* What Suite sees of Runner                                               *)

DecisionType == [test : TestCases, outcome : Outcomes]

LEMMA FixedStays ==
  ASSUME opts' = opts
  PROVE  Plan' = Plan /\ Limited' = Limited
  BY DEF Plan, Limited, Deadline

LEMMA PlanType ==
  Plan \in Seq(TestCases)
  <1>1. Len(cases) \in 0 .. Len(cases)
    BY RunnerAssumption, LenProperties
  <1> QED
    BY <1>1, AdmittedSteps DEF Plan

LEMMA DecidedStays ==
  ASSUME Running' <=> Running, UNCHANGED <<pos, results>>
  PROVE  Decided' = Decided
  BY DEF Decided

(* The decisions of a run are its results, in order. *)
Decisions(list, p) == [i \in 1 .. p |-> Decision(list[Len(list) - p + i])]

LEMMA DecisionsList ==
  ASSUME NEW list \in Seq(ResultType), NEW p \in Nat, p <= Len(list)
  PROVE  /\ Decisions(list, p) \in Seq(DecisionType) /\ Len(Decisions(list, p)) = p
         /\ Len(list) \in Nat
         /\ \A i \in 1 .. p :
              /\ Len(list) - p + i \in 1 .. Len(list)
              /\ Decisions(list, p)[i] = Decision(list[Len(list) - p + i])
  <1>1. Len(list) \in Nat
    BY LenProperties
  <1>2. \A i \in 1 .. p : /\ Len(list) - p + i \in 1 .. Len(list)
                          /\ Decision(list[Len(list) - p + i]) \in DecisionType
    <2> TAKE i \in 1 .. p
    <2>1. Len(list) - p + i \in 1 .. Len(list)
      BY <1>1
    <2>2. list[Len(list) - p + i] \in ResultType
      BY <2>1, ElementOfSeq
    <2> QED
      BY <2>1, <2>2 DEF Decision, DecisionType, ResultType
  <1> DEFINE d(i) == Decision(list[Len(list) - p + i])
             f == [i \in 1 .. p |-> d(i)]
  <1> HIDE DEF d
  <1>3. f \in [1 .. p -> DecisionType]
    BY <1>2 DEF d
  <1>4. DOMAIN f = 1 .. p /\ \A i \in 1 .. p : f[i] = d(i)
    OBVIOUS
  <1> HIDE DEF f
  <1>5. f \in Seq(DecisionType) /\ Len(f) = p
    BY <1>3, <1>4
  <1>6. Decisions(list, p) = f
    BY Zenon DEF Decisions, f, d
  <1> QED
    BY <1>1, <1>2, <1>4, <1>5, <1>6 DEF d

LEMMA DecisionsGrow ==
  ASSUME NEW list \in Seq(ResultType), NEW p \in Nat, p <= Len(list), NEW r \in ResultType
  PROVE  Decisions(Append(list, r), p + 1) = Append(Decisions(list, p), Decision(r))
  <1> DEFINE more == Append(list, r)
             d == Decisions(list, p)
             e == Decisions(more, p + 1)
             f == Append(d, Decision(r))
  <1>1. /\ more \in Seq(ResultType) /\ Len(list) \in Nat /\ Len(more) = Len(list) + 1
        /\ \A k \in 1 .. Len(list) : more[k] = list[k]
        /\ more[Len(list) + 1] = r
    BY LenProperties, AppendProperties
  <1>2. /\ d \in Seq(DecisionType) /\ Len(d) = p
        /\ \A i \in 1 .. p : /\ Len(list) - p + i \in 1 .. Len(list)
                             /\ d[i] = Decision(list[Len(list) - p + i])
    BY DecisionsList
  <1> HIDE DEF more
  <1>3. /\ e \in Seq(DecisionType) /\ Len(e) = p + 1
        /\ \A i \in 1 .. p + 1 : e[i] = Decision(more[Len(more) - (p + 1) + i])
    <2>1. p + 1 \in Nat /\ p + 1 <= Len(more)
      BY <1>1
    <2> QED
      BY <1>1, <2>1, DecisionsList
  <1>4. Decision(r) \in DecisionType
    BY DEF Decision, DecisionType, ResultType
  <1> HIDE DEF d, e
  <1>5. /\ f \in Seq(DecisionType) /\ Len(f) = p + 1
        /\ \A i \in 1 .. p : f[i] = d[i]
        /\ f[p + 1] = Decision(r)
    BY <1>2, <1>4, AppendProperties
  <1> HIDE DEF f
  <1>6. ASSUME NEW i \in 1 .. p + 1 PROVE e[i] = f[i]
    <2>1. e[i] = Decision(more[Len(more) - (p + 1) + i])
      BY <1>3
    <2>2. CASE i = p + 1
      <3>1. Len(more) - (p + 1) + i = Len(list) + 1
        BY <1>1, <2>2
      <3> QED
        BY <1>1, <1>5, <2>1, <2>2, <3>1, Zenon
    <2>3. CASE i # p + 1
      <3>1. /\ i \in 1 .. p /\ Len(more) - (p + 1) + i = Len(list) - p + i
            /\ Len(list) - p + i \in 1 .. Len(list)
        BY <1>1, <2>3
      <3> QED
        BY <1>1, <1>2, <1>5, <2>1, <3>1, ZenonT(60)
    <2> QED
      BY <2>2, <2>3
  <1>7. e = f
    BY <1>3, <1>5, <1>6, SeqEqual
  <1> QED
    BY <1>7 DEF e, f, d, more

(* A run has passed when nothing else is counted. *)
LEMMA AnswerIsOfTheDecisions ==
  ASSUME TypeOK, PlanInv, Counted, Running
  PROVE  (NotPassed(summary) = 0) <=> \A i \in DOMAIN Decided : Decided[i].outcome = "Passed"
  <1> DEFINE n == Len(results)
             Bad == Latest("Failed") \cup Latest("Timeout") \cup Latest("Error")
  <1>1. /\ Decided = Decisions(results, pos) /\ DOMAIN Decided = 1 .. pos
        /\ n \in Nat /\ pos \in 0 .. n
        /\ \A i \in 1 .. pos : /\ n - pos + i \in 1 .. n
                               /\ Decided[i] = Decision(results[n - pos + i])
    <2>1. Decided = Decisions(results, pos)
      BY DEF Decided, Decisions
    <2>2. results \in Seq(ResultType) /\ pos \in Nat /\ pos <= Len(results)
      BY DEF TypeOK, PlanInv
    <2> QED
      BY <2>1, <2>2, DecisionsList, LenProperties, SMTT(30)
  <1>2. \A i \in 1 .. pos : Decided[i].outcome = results[n - pos + i].outcome
    <2> HIDE DEF n
    <2>1. \A r : Decision(r).outcome = r.outcome
      BY DEF Decision
    <2> TAKE i \in 1 .. pos
    <2>2. Decided[i] = Decision(results[n - pos + i])
      BY <1>1, Zenon
    <2> QED
      BY <2>1, <2>2, Zenon
  <1>3. \A k \in 1 .. n : results[k].outcome \in Outcomes
    <2> TAKE k \in 1 .. n
    <2>1. results \in Seq(ResultType)
      BY DEF TypeOK
    <2>2. results[k] \in ResultType
      BY <2>1, ElementOfSeq
    <2> QED
      BY <2>2 DEF ResultType
  <1>4. /\ Cardinality(Latest("Failed")) = summary.failed
        /\ Cardinality(Latest("Timeout")) = summary.timed_out
        /\ Cardinality(Latest("Error")) = summary.errored
        /\ summary.failed \in Nat /\ summary.timed_out \in Nat /\ summary.errored \in Nat
    BY DEF Counted, SummaryMatchesResults, TypeOK, SummaryType
  <1>5. (NotPassed(summary) = 0)
          <=> summary.failed = 0 /\ summary.timed_out = 0 /\ summary.errored = 0
    BY <1>4 DEF NotPassed
  <1>6. \A o : (Cardinality(Latest(o)) = 0) <=> (Latest(o) = {})
    BY LatestIsFinite, FS_EmptySet
  <1>7. (NotPassed(summary) = 0) <=> (Bad = {})
    BY <1>4, <1>5, <1>6
  <1>8. (Bad = {}) <=> \A i \in 1 .. pos : results[n - pos + i].outcome = "Passed"
    <2>1. ASSUME Bad = {}, NEW i \in 1 .. pos
          PROVE  results[n - pos + i].outcome = "Passed"
      <3>1. n - pos + i \in n - pos + 1 .. n /\ results[n - pos + i].outcome \in Outcomes
        BY <1>1, <1>3
      <3> QED
        BY <2>1, <3>1 DEF Latest, Outcomes
    <2>2. ASSUME \A i \in 1 .. pos : results[n - pos + i].outcome = "Passed", NEW k \in Bad
          PROVE  FALSE
      <3>1. k \in n - pos + 1 .. n /\ results[k].outcome # "Passed"
        BY DEF Latest
      <3>2. k - (n - pos) \in 1 .. pos /\ n - pos + (k - (n - pos)) = k
        BY <1>1, <3>1
      <3> QED
        BY <2>2, <3>1, <3>2
    <2> QED
      BY <2>1, <2>2
  <1> HIDE DEF Bad
  <1> QED
    BY <1>1, <1>2, <1>7, <1>8

----------------------------------------------------------------------------
(* Every step of Runner is a step of Suite or changes nothing of it        *)

LEMMA SuiteInit == Init => suite!Init
  <1> SUFFICES ASSUME Init PROVE suite!Init
    OBVIOUS
  <1>1. ~Running /\ Phase = "idle" /\ verdict = FALSE /\ status = "running"
    BY DEF Init, Running, InRunOne, Waiting, Phase
  <1>2. Decided = << >>
    BY <1>1 DEF Decided
  <1> QED
    BY <1>1, <1>2 DEF suite!Init

(* Once the main thread is gone, nothing happens any more. *)
LEMMA NothingAfterTheEnd ==
  ASSUME [Next]_vars, main = "gone"
  PROVE  UNCHANGED vars
  BY DEF Next, Progress, OpenFails, CallRun, SelectNext, ListSelected, BeginRun, EndRun,
         Spawn, SpawnFails, MainStep, Lock, FindDone, FindExpired, FindNotDone, Sleep,
         WakeUp, SpuriousWakeUp, DeadlinePasses, Waiting, ReturnTimeout, ReturnJoined,
         ReturnFromMain, DestroyRegistry, ProcessEnds, Work, FaultOnDestroyedCase,
         HelperAsserts, Gone

(* Only a test that has a deadline is decided to have missed it. *)
LEMMA TimeoutIsLimited ==
  ASSUME TypeOK, Control, Deadlines, main = "detach"
  PROVE  case \in Limited
  <1>1. cur \in expired /\ main \in InRunOne
    BY DEF Deadlines, InRunOne
  <1>2. tc[cur] = case /\ pos < Len(selected) /\ pos \in Nat /\ selected \in Seq(TestCases)
    BY <1>1 DEF Control, TypeOK
  <1>3. case \in TestCases
    BY <1>2, ElementOfSeq, LenProperties DEF case
  <1> QED
    BY <1>1, <1>2, <1>3 DEF Deadlines, Limited

LEMMA DecidedSoFar ==
  ASSUME TypeOK, PlanInv, Running
  PROVE  /\ Decided = Decisions(results, pos) /\ Len(Decided) = pos /\ pos \in Nat
         /\ Plan = selected
  <1>1. Decided = Decisions(results, pos)
    BY DEF Decided, Decisions
  <1>2. results \in Seq(ResultType) /\ pos \in Nat /\ pos <= Len(results)
    BY DEF TypeOK, PlanInv
  <1> QED
    BY <1>1, <1>2, DecisionsList DEF PlanInv, Plan

LEMMA DecideStep ==
  ASSUME TypeOK, Control, Deadlines, PlanInv, ReturnTimeout \/ ReturnJoined, opts' = opts
  PROVE  suite!Next
  <1>1. PICK r \in ResultType :
          /\ Return(r) /\ r.test = case
          /\ r.outcome = "Timeout" => main = "detach" \/ r.outcome = Verdict(shared[cur]).outcome
    BY ReturnedResult
  <1>2. main \in InRunOne /\ Running /\ main' = "loop" /\ Running'
    BY <1>1 DEF ReturnTimeout, ReturnJoined, Return, Running, InRunOne
  <1>3. /\ results' = Append(results, r) /\ pos' = pos + 1
        /\ UNCHANGED <<selected, verdict, status>>
    BY <1>1 DEF Return, procVars
  <1>4. /\ Decided = Decisions(results, pos) /\ Len(Decided) = pos /\ pos \in Nat
        /\ Plan = selected
    BY <1>2, DecidedSoFar
  <1>5. pos < Len(Plan) /\ Plan[pos + 1] = case
    BY <1>2, <1>4 DEF Control, case
  <1>6. Decided' = Append(Decided, Decision(r))
    <2>1. Decided' = Decisions(Append(results, r), pos + 1)
      BY <1>2, <1>3, Zenon DEF Decided, Decisions
    <2>2. results \in Seq(ResultType) /\ pos <= Len(results)
      BY <1>2 DEF TypeOK, PlanInv
    <2> QED
      BY <1>4, <2>1, <2>2, DecisionsGrow
  <1>7. r.outcome = "Timeout" => case \in Limited
    <2>1. Verdict(shared[cur]).outcome # "Timeout"
      BY DEF Verdict
    <2> QED
      BY <1>1, <2>1, TimeoutIsLimited
  <1>8. Phase = "running" /\ Phase' = "running"
    BY <1>2 DEF Phase, Running, InRunOne, Waiting
  <1>9. Plan' = Plan /\ Limited' = Limited
    BY FixedStays
  <1>10. suite!Decide(r.outcome)
    BY <1>1, <1>3, <1>4, <1>5, <1>6, <1>7, <1>8, <1>9 DEF suite!Decide, suite!fixed, Decision
  <1>11. r.outcome \in {"Passed", "Failed", "Timeout", "Error"}
    BY DEF ResultType, Outcomes
  <1> QED
    BY <1>10, <1>11 DEF suite!Next

LEMMA AnswerStep ==
  ASSUME TypeOK, PlanInv, Counted, EndRun
  PROVE  suite!Answer
  <1>1. /\ Running /\ pos = Len(selected) /\ main' = "idle" /\ ~Running'
        /\ UNCHANGED <<opts, status>> /\ verdict' = (NotPassed(summary) = 0)
    BY DEF EndRun, Running, InRunOne, Waiting, procVars
  <1>2. Len(Decided) = Len(Plan)
    BY <1>1, DecidedSoFar
  <1>3. Phase = "running" /\ Phase' = "idle"
    BY <1>1 DEF Phase, EndRun
  <1>4. Decided' = << >>
    BY <1>1 DEF Decided
  <1>5. verdict' = (\A i \in DOMAIN Decided : Decided[i].outcome = "Passed")
    BY <1>1, AnswerIsOfTheDecisions, Zenon
  <1>6. Plan' = Plan /\ Limited' = Limited
    BY <1>1, FixedStays
  <1> QED
    BY <1>1, <1>2, <1>3, <1>4, <1>5, <1>6 DEF suite!Answer, suite!fixed

LEMMA SuiteStep ==
  ASSUME TypeOK, Control, Deadlines, Counted, PlanInv, [Next]_vars
  PROVE  [suite!Next]_(suite!vars)
  <1>1. opts' = opts /\ Plan' = Plan /\ Limited' = Limited
    BY OptionsStay, FixedStays
  <1> USE DEF Phase, Running, InRunOne, Waiting, procVars
  <1>2. CASE OpenFails
    <2>1. /\ Phase = "idle" /\ Phase' = "idle" /\ ~Running /\ ~Running'
          /\ opts.to_file /\ verdict' = FALSE /\ status' = status
      BY <1>2 DEF OpenFails
    <2>2. Decided' = Decided
      BY <2>1 DEF Decided
    <2>3. suite!Refuse
      BY <1>1, <2>1, <2>2 DEF suite!Refuse, suite!fixed
    <2> QED
      BY <2>3 DEF suite!Next
  <1>3. CASE CallRun \/ SelectNext
    <2>1. Phase' = Phase /\ ~Running /\ ~Running' /\ UNCHANGED <<verdict, status>>
      BY <1>3 DEF CallRun, SelectNext
    <2>2. Decided' = Decided
      BY <2>1 DEF Decided
    <2> QED
      BY <1>1, <2>1, <2>2 DEF suite!vars, suite!fixed
  <1>4. CASE ListSelected
    <2>1. /\ Phase = "idle" /\ Phase' = "idle" /\ ~Running /\ ~Running'
          /\ opts.list_only /\ verdict' = TRUE /\ status' = status
      BY <1>4 DEF ListSelected
    <2>2. Decided' = Decided
      BY <2>1 DEF Decided
    <2>3. suite!List
      BY <1>1, <2>1, <2>2 DEF suite!List, suite!fixed
    <2> QED
      BY <2>3 DEF suite!Next
  <1>5. CASE BeginRun
    <2>1. /\ Phase = "idle" /\ Phase' = "running" /\ ~Running /\ Running' /\ pos' = 0
          /\ ~opts.list_only /\ UNCHANGED <<verdict, status>>
      BY <1>5 DEF BeginRun
    <2>2. Decided = << >> /\ Decided' = << >>
      BY <2>1 DEF Decided
    <2>3. suite!Begin
      BY <1>1, <2>1, <2>2 DEF suite!Begin, suite!fixed
    <2> QED
      BY <2>3 DEF suite!Next
  <1>6. CASE EndRun
    BY <1>6, AnswerStep DEF suite!Next
  <1>7. CASE ReturnTimeout \/ ReturnJoined
    BY <1>1, <1>7, DecideStep
  <1>8. CASE Spawn \/ Waits \/ \E w \in Invocations : Work(w)
    <2>1. /\ Phase' = Phase /\ (Running' <=> Running)
          /\ UNCHANGED <<pos, results, verdict, status>>
      BY <1>8, WaitStep DEF Spawn, Work, runVars
    <2>2. Decided' = Decided
      BY <2>1, DecidedStays
    <2> QED
      BY <1>1, <2>1, <2>2 DEF suite!vars, suite!fixed
  <1>9. CASE SpawnFails \/ Crash
    <2>1. CASE main = "gone"
      <3>1. UNCHANGED vars
        BY <2>1, NothingAfterTheEnd
      <3>2. ~Running /\ ~Running' /\ Phase' = Phase /\ UNCHANGED <<verdict, status>>
        BY <2>1, <3>1 DEF vars, runVars
      <3>3. Decided' = Decided
        BY <3>2 DEF Decided
      <3> QED
        BY <1>1, <3>2, <3>3 DEF suite!vars, suite!fixed
    <2>2. CASE main # "gone"
      <3>1. /\ status \notin {"terminate", "signal"} /\ ~Running' /\ Phase' = "stopped"
            /\ (Phase = "running" /\ status' = "terminate") \/ status' = "signal"
            /\ verdict' = verdict
        BY <1>9, <2>2 DEF SpawnFails, Crash, PlanInv, runVars
      <3>2. Decided' = << >>
        BY <3>1 DEF Decided
      <3>3. suite!Die
        BY <1>1, <3>1, <3>2 DEF suite!Die, suite!fixed
      <3> QED
        BY <3>3 DEF suite!Next
    <2> QED
      BY <2>1, <2>2
  <1>10. CASE ReturnFromMain
    <2>1. /\ Phase = "idle" /\ Phase' = "stopped" /\ ~Running /\ ~Running'
          /\ status' = (IF verdict THEN "exit 0" ELSE "exit 1") /\ verdict' = verdict
      BY <1>10 DEF ReturnFromMain, runVars
    <2>2. Decided' = Decided
      BY <2>1 DEF Decided
    <2>3. suite!Exit
      BY <1>1, <2>1, <2>2 DEF suite!Exit, suite!fixed
    <2> QED
      BY <2>3 DEF suite!Next
  <1>11. CASE DestroyRegistry \/ ProcessEnds \/ UNCHANGED vars
    <2>1. /\ Phase' = Phase /\ (Running' <=> Running)
          /\ UNCHANGED <<pos, results, verdict, status>>
      BY <1>11 DEF DestroyRegistry, ProcessEnds, vars, runVars
    <2>2. Decided' = Decided
      BY <2>1, DecidedStays
    <2> QED
      BY <1>1, <2>1, <2>2 DEF suite!vars, suite!fixed
  <1> QED
    BY <1>2, <1>3, <1>4, <1>5, <1>6, <1>7, <1>8, <1>9, <1>10, <1>11, PlanSteps

(* Runner keeps the promise of Suite, which knows no threads, deadlines or *)
(* reporters: the planned tests are decided one after the other, each once *)
(* and in the order of the plan, only a test with a deadline can miss it,  *)
(* run() answers TRUE exactly when every decision of its own run was       *)
(* "Passed", and the exit code is the last answer (runner.cpp:71-219,       *)
(* 321-330).                                                               *)
THEOREM RunnerImplementsSuite == Spec => ImplementsSuite
  <1> DEFINE I == TypeOK /\ Control /\ Deadlines /\ Counted /\ PlanInv
  <1>1. Spec => []I
    <2>1. IInv => TypeOK /\ Control /\ Deadlines
      BY DEF IInv
    <2> QED
      BY <2>1, InvariantHolds, CountedHolds, PlanIsFollowed, PTL
  <1>2. I /\ [Next]_vars => [suite!Next]_(suite!vars)
    BY SuiteStep
  <1> QED
    BY <1>1, <1>2, SuiteInit, PTL DEF Spec, ImplementsSuite, suite!Spec
================================================================================
