------------------------------ MODULE RunnerProofs ------------------------------
(* The safety properties of Runner for every registry, options and number  *)
(* of invocations.                                                         *)
EXTENDS Runner, SequenceTheorems, FiniteSetTheorems, TLAPS

(* The part of the inductive invariant every other part rests on. *)
Typing == TypeOK /\ Control

----------------------------------------------------------------------------
(* Operators                                                               *)

LEMMA NewBlockType == NewShared \in BlockType
  BY DEF NewShared, BlockType

LEMMA CountType ==
  ASSUME NEW s \in SummaryType, NEW o \in Outcomes
  PROVE  Count(s, o) \in SummaryType
  BY DEF SummaryType, Outcomes, Count

LEMMA AfterResultType ==
  ASSUME NEW rep \in [format : Formats, index : Nat, held : Seq(ResultType)],
         NEW r \in ResultType
  PROVE  AfterResult(rep, r) \in [format : Formats, index : Nat, held : Seq(ResultType)]
  <1> DEFINE T == Seq(ResultType)
  <1>1. rep.index \in Nat /\ rep.held \in T /\ rep.format \in Formats
    OBVIOUS
  <1>2. rep.index + 1 \in Nat /\ Append(rep.held, r) \in T
    BY <1>1, AppendProperties
  <1> HIDE DEF T
  <1>3. /\ [rep EXCEPT !.index = rep.index + 1] \in [format : Formats, index : Nat, held : T]
        /\ [rep EXCEPT !.held = Append(rep.held, r)] \in [format : Formats, index : Nat, held : T]
    BY <1>2 DEF T
  <1> QED
    BY <1>3 DEF AfterResult, Formats, T

LEMMA NewReporterType ==
  ASSUME NEW f \in Formats
  PROVE  NewReporter(f) \in [format : Formats, index : Nat, held : Seq(ResultType)]
  BY DEF NewReporter

(* The result of a joined worker is a result. *)
LEMMA VerdictType ==
  ASSUME NEW block \in BlockType
  PROVE  /\ Verdict(block).outcome \in {"Passed", "Failed", "Error"}
         /\ Verdict(block).detail \in {"", "std", "nonstd", "failures"}
  BY DEF Verdict, BlockType

----------------------------------------------------------------------------
(* Types and control                                                       *)

LEMMA TypingInit == Init => Typing
  <1> SUFFICES ASSUME Init PROVE Typing
    OBVIOUS
  <1>1. WorkerTypeOK
    BY NewBlockType DEF Init, WorkerInit, CountsType, WorkerTypeOK, WorkerStates, Exits, Holders
  <1>2. reporter \in [format : Formats, index : Nat, held : Seq(ResultType)]
    BY NewReporterType DEF Init, Formats
  <1>3. summary \in SummaryType
    BY DEF Init, NewSummary, SummaryType
  <1>4. 0 \in 0 .. Len(cases)
    BY RunnerAssumption, LenProperties
  <1>5. selected \in Seq(TestCases) /\ results \in Seq(ResultType)
    BY DEF Init
  <1>6. TypeOK
    BY <1>1, <1>2, <1>3, <1>4, <1>5 DEF Init, TypeOK, MainStates, Statuses
  <1>7. Control
    BY DEF Init, WorkerInit, Control, Running, InRunOne, Waiting
  <1> QED
    BY <1>6, <1>7 DEF Typing

----------------------------------------------------------------------------
(* Types: the worker's variables, then the runner's                        *)

(* An assertion only counts, wherever active_sink() points. *)
LEMMA AssertionType ==
  ASSUME WorkerTypeOK, NEW w \in Invocations, NEW ok \in BOOLEAN, Assertion(w, ok)
  PROVE  /\ shared' \in [Invocations -> BlockType]
         /\ asserted' \in [Invocations -> CountsType]
  <1>1. ASSUME NEW b \in BlockType PROVE Recorded(b, TRUE) \in BlockType
    <2>1. Recorded(b, TRUE) = [b EXCEPT !.passed = b.passed + 1]
      BY DEF Recorded, BlockType
    <2>2. b.passed \in Nat
      BY DEF BlockType
    <2>3. b.passed + 1 \in Nat
      BY <2>2
    <2> QED
      BY <2>1, <2>3 DEF BlockType
  <1>2. ASSUME NEW b \in BlockType PROVE Recorded(b, FALSE) \in BlockType
    <2>1. Recorded(b, FALSE) = [b EXCEPT !.failed = b.failed + 1]
      BY DEF Recorded, BlockType
    <2>2. b.failed \in Nat
      BY DEF BlockType
    <2>3. b.failed + 1 \in Nat
      BY <2>2
    <2> QED
      BY <2>1, <2>3 DEF BlockType
  <1>3. \A c \in CountsType :
          Recorded(c, TRUE) \in CountsType /\ Recorded(c, FALSE) \in CountsType
    BY DEF Recorded, CountsType
  <1> QED
    BY <1>1, <1>2, <1>3 DEF WorkerTypeOK, Assertion

LEMMA WorkerStutterType ==
  ASSUME WorkerTypeOK, UNCHANGED workerVars
  PROVE  WorkerTypeOK'
  BY DEF WorkerTypeOK, workerVars

LEMMA WorkerTypeStep ==
  ASSUME WorkerTypeOK, NEW w \in Invocations, WorkerStep(w)
  PROVE  WorkerTypeOK'
  <1>1. ASSUME NEW ok \in BOOLEAN, Assertion(w, ok) PROVE WorkerTypeOK'
    BY <1>1, AssertionType DEF Assertion, WorkerTypeOK
  <1>2. CASE BodyEnds(w)
    <2>1. PICK how \in Exits \ {"running"} : LeaveBody(w, how)
      BY <1>2 DEF BodyEnds
    <2>2. CASE how \in {"return", "abort"}
      BY <2>1, <2>2 DEF LeaveBody, history, WorkerTypeOK, WorkerStates, Exits
    <2>3. CASE how \in {"std", "nonstd"}
      <3>1. \A b \in BlockType :
              [b EXCEPT !.outcome = "Error", !.detail = how] \in BlockType
        BY <2>3 DEF BlockType
      <3>2. shared' \in [Invocations -> BlockType]
        BY <2>1, <2>3, <3>1 DEF LeaveBody, WorkerTypeOK
      <3> QED
        BY <2>1, <3>2 DEF LeaveBody, history, WorkerTypeOK, WorkerStates, Exits
    <2> QED
      BY <2>2, <2>3 DEF Exits
  <1>3. CASE BindSink(w)
    BY <1>3 DEF BindSink, history, WorkerTypeOK, WorkerStates
  <1>4. CASE CallBody(w) \/ Unbind(w)
    BY <1>4 DEF CallBody, Unbind, history, WorkerTypeOK, WorkerStates
  <1>5. CASE SetDone(w)
    BY <1>5 DEF SetDone, WorkerTypeOK, WorkerStates
  <1>6. CASE Notify(w)
    BY <1>6 DEF Notify, history, WorkerTypeOK, WorkerStates
  <1> QED
    BY <1>1, <1>2, <1>3, <1>4, <1>5, <1>6 DEF WorkerStep, BodyStep, FrameworkStep

LEMMA StartWorkerType ==
  ASSUME WorkerTypeOK, NEW w \in Invocations, NEW t \in TestCases, StartWorker(w, t)
  PROVE  WorkerTypeOK'
  BY DEF StartWorker, history, WorkerTypeOK, WorkerStates, Holders

(* run_one returning a result: what it does to the types. *)
LEMMA ReturnType ==
  ASSUME TypeOK, cur \in Invocations, NEW r \in ResultType, Return(r)
  PROVE  TypeOK'
  <1>1. results' \in Seq(ResultType)
    BY AppendProperties DEF Return, TypeOK
  <1>2. summary' \in SummaryType
    BY CountType DEF Return, TypeOK, ResultType
  <1>3. reporter' \in [format : Formats, index : Nat, held : Seq(ResultType)]
    BY AfterResultType DEF Return, TypeOK
  <1>4. WorkerTypeOK'
    BY DEF Return, TypeOK, WorkerTypeOK, history
  <1> QED
    BY <1>1, <1>2, <1>3, <1>4 DEF Return, TypeOK, MainStates, procVars

LEMMA TypeStep ==
  ASSUME TypeOK, Control, [Next]_vars
  PROVE  TypeOK'
  <1> USE DEF runVars, procVars, workerVars, history
  <1>0. Len(cases) \in Nat /\ \A i \in 1 .. Len(cases) : cases[i] \in TestCases
    BY RunnerAssumption
  <1>1. CASE OpenFails
    <2>1. WorkerTypeOK'
      BY <1>1, WorkerStutterType DEF OpenFails, TypeOK
    <2>2. runs' \in Nat
      BY <1>1 DEF OpenFails, TypeOK
    <2>3. verdict' \in BOOLEAN
      BY <1>1 DEF OpenFails
    <2> QED
      BY <1>1, <2>1, <2>2, <2>3 DEF OpenFails, TypeOK
  <1>2. CASE CallRun
    <2>1. WorkerTypeOK'
      BY <1>2, WorkerStutterType DEF CallRun, TypeOK
    <2>2. selected' \in Seq(TestCases) /\ walked' \in 0 .. Len(cases)
      BY <1>2, <1>0 DEF CallRun
    <2> QED
      BY <1>2, <2>1, <2>2 DEF CallRun, TypeOK, MainStates
  <1>3. CASE SelectNext
    <2>1. cases[walked + 1] \in TestCases /\ walked + 1 \in 0 .. Len(cases)
      BY <1>3, <1>0 DEF SelectNext, TypeOK
    <2>2. selected' \in Seq(TestCases)
      BY <1>3, <2>1, AppendProperties DEF SelectNext, TypeOK
    <2> QED
      BY <1>3, <2>1, <2>2 DEF SelectNext, TypeOK, WorkerTypeOK
  <1>4. CASE ListSelected
    BY <1>4 DEF ListSelected, TypeOK, WorkerTypeOK, MainStates
  <1>5. CASE BeginRun
    <2>1. opts.format \in Formats
      BY RunnerAssumption DEF TypeOK, OptionType
    <2>2. Len(selected) \in Nat
      BY LenProperties DEF TypeOK
    <2>3. NewSummary(Len(selected)) \in SummaryType
      BY <2>2 DEF NewSummary, SummaryType
    <2> QED
      BY <1>5, <2>1, <2>3, NewReporterType
      DEF BeginRun, TypeOK, WorkerTypeOK, MainStates
  <1>6. CASE EndRun
    BY <1>6 DEF EndRun, TypeOK, WorkerTypeOK, MainStates
  <1>7. CASE Spawn
    <2>1. case \in TestCases
      BY <1>7 DEF Spawn, TypeOK, case
    <2>2. WorkerTypeOK'
      BY <1>7, <2>1, StartWorkerType DEF Spawn, TypeOK
    <2> QED
      BY <1>7, <2>2 DEF Spawn, TypeOK, MainStates, InRunOne, Waiting
  <1>8. CASE SpawnFails
    BY <1>8 DEF SpawnFails, TypeOK, WorkerTypeOK, MainStates, Statuses
  <1>9. CASE Lock \/ FindDone \/ FindExpired \/ FindNotDone \/ Sleep \/ WakeUp
              \/ SpuriousWakeUp \/ DeadlinePasses
    <2>1. cur \in Invocations
      BY <1>9 DEF Control, InRunOne, Waiting, MainStep, Lock, FindDone, FindExpired,
                  FindNotDone, Sleep, WakeUp, SpuriousWakeUp, DeadlinePasses
    <2>2. WorkerTypeOK'
      BY <1>9, <2>1 DEF TypeOK, WorkerTypeOK, MainStep, Lock, FindDone, FindExpired,
                        FindNotDone, Sleep, WakeUp, SpuriousWakeUp, DeadlinePasses
    <2>3. main' \in MainStates
      BY <1>9 DEF TypeOK, MainStates, InRunOne, Waiting, MainStep, Lock, FindDone,
                  FindExpired, FindNotDone, Sleep, WakeUp, SpuriousWakeUp, DeadlinePasses
    <2> QED
      BY <1>9, <2>2, <2>3 DEF TypeOK, MainStep, Lock, FindDone, FindExpired,
                  FindNotDone, Sleep, WakeUp, SpuriousWakeUp, DeadlinePasses
  <1>10. CASE ReturnTimeout
    <2>1. cur \in Invocations /\ case \in TestCases
      BY <1>10 DEF ReturnTimeout, Control, InRunOne, TypeOK, case
    <2> QED
      BY <1>10, <2>1, ReturnType DEF ReturnTimeout, ResultType, Outcomes
  <1>11. CASE ReturnJoined
    <2>1. cur \in Invocations /\ case \in TestCases
      BY <1>11 DEF ReturnJoined, Control, InRunOne, TypeOK, case
    <2>2. [test |-> case, outcome |-> Verdict(shared[cur]).outcome,
           passed |-> shared[cur].passed, failed |-> shared[cur].failed,
           detail |-> Verdict(shared[cur]).detail] \in ResultType
      BY <2>1, VerdictType DEF TypeOK, WorkerTypeOK, BlockType, ResultType, Outcomes
    <2> QED
      BY <1>11, <2>1, <2>2, ReturnType DEF ReturnJoined
  <1>12. CASE ReturnFromMain \/ DestroyRegistry \/ ProcessEnds
    BY <1>12 DEF ReturnFromMain, DestroyRegistry, ProcessEnds, TypeOK, WorkerTypeOK,
                 MainStates, Statuses
  <1>13. ASSUME NEW w \in Invocations, Work(w) PROVE TypeOK'
    BY <1>13, WorkerTypeStep DEF Work, TypeOK
  <1>14. CASE Crash
    BY <1>14 DEF Crash, TypeOK, WorkerTypeOK, MainStates, Statuses
  <1>15. CASE Gone \/ UNCHANGED vars
    BY <1>15 DEF Gone, vars, TypeOK, WorkerTypeOK
  <1> QED
    BY <1>1, <1>2, <1>3, <1>4, <1>5, <1>6, <1>7, <1>8, <1>9, <1>10, <1>11, <1>12,
       <1>13, <1>14, <1>15 DEF Next, Progress, FaultOnDestroyedCase, HelperAsserts

----------------------------------------------------------------------------
(* Control: where run() and run_one() are                                  *)

(* run_one returning appends one result. *)
LEMMA ReturnResults ==
  ASSUME TypeOK, NEW r \in ResultType, Return(r)
  PROVE  /\ Len(results) \in Nat /\ Len(results') = Len(results) + 1
         /\ results'[cur] = r
         /\ \A k \in 1 .. Len(results) : results'[k] = results[k]
  BY AppendProperties DEF Return, TypeOK, cur

(* ReturnTimeout and ReturnJoined return a result of the case under way. *)
LEMMA ReturnedResult ==
  ASSUME TypeOK, Control, ReturnTimeout \/ ReturnJoined
  PROVE  \E r \in ResultType :
           /\ Return(r) /\ r.test = case
           /\ \/ ReturnTimeout /\ main = "detach" /\ r.outcome = "Timeout"
              \/ /\ ReturnJoined /\ r.outcome = Verdict(shared[cur]).outcome
                 /\ r.passed = shared[cur].passed /\ r.failed = shared[cur].failed
  <1>1. cur \in Invocations /\ case \in TestCases
    BY DEF ReturnTimeout, ReturnJoined, Control, InRunOne, TypeOK, case
  <1>2. CASE ReturnTimeout
    <2> DEFINE r == [test |-> case, outcome |-> "Timeout", passed |-> 0, failed |-> 0,
                     detail |-> "deadline"]
    <2>1. r \in ResultType
      BY <1>1 DEF ResultType, Outcomes
    <2>2. Return(r) /\ main = "detach"
      BY <1>2 DEF ReturnTimeout
    <2> QED
      BY <1>2, <2>1, <2>2
  <1>3. CASE ReturnJoined
    <2> DEFINE block == shared[cur]
               r == [test |-> case, outcome |-> Verdict(block).outcome,
                     passed |-> block.passed, failed |-> block.failed,
                     detail |-> Verdict(block).detail]
    <2>1. r \in ResultType
      BY <1>1, VerdictType DEF TypeOK, WorkerTypeOK, BlockType, ResultType, Outcomes
    <2>2. Return(r)
      BY <1>3 DEF ReturnJoined
    <2> QED
      BY <1>3, <2>1, <2>2
  <1> QED
    BY <1>2, <1>3

(* A worker moves from a state it was started in to another one. *)
LEMMA WorkerMoves ==
  ASSUME WorkerTypeOK, NEW w \in Invocations, WorkerStep(w)
  PROVE  /\ wpc[w] \in {"started", "bound", "body", "unbind", "lock", "notify"}
         /\ wpc'[w] # "none"
         /\ \A v \in Invocations \ {w} : wpc'[v] = wpc[v]
         /\ tc' = tc
  BY DEF WorkerTypeOK, WorkerStep, FrameworkStep, BodyStep, BodyEnds, BindSink, CallBody,
         Unbind, SetDone, Notify, Assertion, LeaveBody

LEMMA ControlStep ==
  ASSUME TypeOK, Control, [Next]_vars
  PROVE  Control'
  <1> USE DEF runVars, procVars, workerVars, cur, case, Running, InRunOne, Waiting
  <1>0. Len(results) \in Nat /\ Len(selected) \in Nat
    BY LenProperties DEF TypeOK
  <1>1. CASE OpenFails \/ CallRun \/ SelectNext \/ ListSelected \/ EndRun
    BY <1>1, <1>0 DEF OpenFails, CallRun, SelectNext, ListSelected, EndRun, Control
  <1>2. CASE BeginRun
    BY <1>2, <1>0 DEF BeginRun, Control
  <1>3. CASE Spawn
    BY <1>3, <1>0 DEF Spawn, StartWorker, Control, TypeOK, WorkerTypeOK
  <1>4. CASE SpawnFails \/ ReturnFromMain \/ DestroyRegistry \/ ProcessEnds
    BY <1>4, <1>0 DEF SpawnFails, ReturnFromMain, DestroyRegistry, ProcessEnds, Control
  <1>5. CASE Lock \/ FindDone \/ FindExpired \/ FindNotDone \/ Sleep \/ WakeUp
              \/ SpuriousWakeUp \/ DeadlinePasses
    BY <1>5, <1>0 DEF Control, MainStep, Lock, FindDone, FindExpired, FindNotDone, Sleep,
                      WakeUp, SpuriousWakeUp, DeadlinePasses
  <1>6. CASE ReturnTimeout \/ ReturnJoined
    <2>1. PICK r \in ResultType : Return(r)
      BY <1>6, ReturnedResult
    <2>2. main \in InRunOne
      BY <1>6 DEF ReturnTimeout, ReturnJoined
    <2>3. Len(results') = Len(results) + 1
      BY <2>1, ReturnResults
    <2>4. pos' <= Len(selected') /\ main' = "loop"
      BY <2>1, <2>2, <1>0 DEF Return, Control, TypeOK
    <2>5. ASSUME NEW w \in Invocations, w > Len(results') PROVE wpc'[w] = "none"
      <3>1. w \in Nat /\ w > Len(results) /\ w # cur
        BY <2>3, <2>5, <1>0, WorkerAssumption
      <3> QED
        BY <2>1, <3>1 DEF Return, Control
    <2>6. 1 .. Len(results') \subseteq Invocations
      BY <2>2, <2>3, <1>0 DEF Control
    <2> QED
      BY <2>4, <2>5, <2>6 DEF Control
  <1>7. ASSUME NEW w \in Invocations, Work(w) PROVE Control'
    <2>1. /\ wpc[w] # "none" /\ wpc'[w] # "none" /\ tc' = tc
          /\ \A v \in Invocations \ {w} : wpc'[v] = wpc[v]
      BY <1>7, WorkerMoves DEF Work, TypeOK
    <2> QED
      BY <1>7, <2>1 DEF Work, Control
  <1>8. CASE Crash
    BY <1>8 DEF Crash, Control
  <1>9. CASE Gone \/ UNCHANGED vars
    BY <1>9 DEF Gone, vars, Control
  <1> QED
    BY <1>1, <1>2, <1>3, <1>4, <1>5, <1>6, <1>7, <1>8, <1>9
    DEF Next, Progress, FaultOnDestroyedCase, HelperAsserts

(* The types of every variable, and which case run_one is on, in every     *)
(* reachable state (runner.cpp:51-222).                                    *)
THEOREM TypingHolds == Spec => []Typing
  <1>1. Init => Typing
    BY TypingInit
  <1>2. Typing /\ [Next]_vars => Typing'
    BY TypeStep, ControlStep DEF Typing
  <1> QED
    BY <1>1, <1>2, PTL DEF Spec

(* The variables of the runner and of its workers stay in their types      *)
(* (runner.cpp:51-222).                                                    *)
THEOREM TypeCorrect == Spec => []TypeOK
  <1>1. Typing => TypeOK
    BY DEF Typing
  <1> QED
    BY <1>1, TypingHolds, PTL

----------------------------------------------------------------------------
(* The steps of Next by what they do to the workers and their blocks       *)

(* Steps outside run_one, which leave the workers and results_ alone. *)
Elsewhere ==
  \/ OpenFails \/ CallRun \/ SelectNext \/ ListSelected \/ BeginRun \/ EndRun
  \/ SpawnFails \/ ReturnFromMain \/ DestroyRegistry \/ ProcessEnds \/ Crash

Waits ==
  \/ Lock \/ FindDone \/ FindExpired \/ FindNotDone \/ Sleep \/ WakeUp
  \/ SpuriousWakeUp \/ DeadlinePasses

LEMMA StepKinds ==
  ASSUME TypeOK, Control, [Next]_vars
  PROVE  \/ Elsewhere \/ UNCHANGED vars
         \/ Waits
         \/ Spawn
         \/ ReturnTimeout \/ ReturnJoined
         \/ \E w \in Invocations : Work(w)
  BY DEF Next, Progress, Elsewhere, Waits, Gone, FaultOnDestroyedCase, HelperAsserts

LEMMA ElsewhereStep ==
  ASSUME Elsewhere \/ UNCHANGED vars
  PROVE  /\ UNCHANGED <<workerVars, opts, results>>
         /\ main' \in InRunOne => UNCHANGED <<main, pos, selected>>
  BY DEF Elsewhere, OpenFails, CallRun, SelectNext, ListSelected, BeginRun, EndRun,
         SpawnFails, ReturnFromMain, DestroyRegistry, ProcessEnds, Crash,
         vars, runVars, InRunOne, Waiting

LEMMA WaitStep ==
  ASSUME Waits
  PROVE  /\ main \in InRunOne /\ main' \in InRunOne
         /\ UNCHANGED <<opts, runVars, procVars, wpc, tc, tls, shared, refs, done, thrown,
                        asserted, inTime>>
  BY DEF Waits, MainStep, Lock, FindDone, FindExpired, FindNotDone, Sleep, WakeUp,
         SpuriousWakeUp, DeadlinePasses, history, InRunOne, Waiting

----------------------------------------------------------------------------
(* Nobody touches a block after its last shared_ptr is gone                *)

LEMMA BlocksStep ==
  ASSUME TypeOK, Control, Blocks, [Next]_vars
  PROVE  Blocks'
  <1>1. CASE Elsewhere \/ UNCHANGED vars
    BY <1>1, ElsewhereStep DEF Blocks, workerVars, cur
  <1>2. CASE Waits
    BY <1>2, WaitStep DEF Blocks, runVars, cur
  <1>3. CASE Spawn
    BY <1>3 DEF Spawn, StartWorker, Blocks, runVars, cur, Holders, TypeOK, WorkerTypeOK
  <1>4. CASE ReturnTimeout \/ ReturnJoined
    <2>1. PICK r \in ResultType : Return(r)
      BY <1>4, ReturnedResult
    <2>2. cur \in Invocations
      BY <1>4 DEF Control, ReturnTimeout, ReturnJoined, InRunOne
    <2> QED
      BY <2>1, <2>2 DEF Return, Blocks, TypeOK, WorkerTypeOK, InRunOne, Waiting
  <1>5. ASSUME NEW w \in Invocations, Work(w) PROVE Blocks'
    <2>1. CASE Notify(w)
      BY <1>5, <2>1 DEF Work, Notify, Blocks, TypeOK, WorkerTypeOK, runVars, cur
    <2>2. CASE ~Notify(w)
      <3>1. refs' = refs /\ wpc[w] \notin {"none", "finished"}
        BY <1>5, <2>2 DEF Work, WorkerStep, FrameworkStep, BodyStep, BodyEnds, BindSink,
           CallBody, Unbind, SetDone, Assertion,
           LeaveBody
      <3>2. \A v \in Invocations \ {w} : wpc'[v] = wpc[v]
        BY <1>5, WorkerMoves DEF Work, TypeOK
      <3> QED
        BY <1>5, <3>1, <3>2 DEF Work, Blocks, runVars, cur
    <2> QED
      BY <2>1, <2>2
  <1> QED
    BY <1>1, <1>2, <1>3, <1>4, <1>5, StepKinds

(* No use after free of a Shared block, in any schedule of any number of   *)
(* detached workers (runner.cpp:64-77).                                    *)
THEOREM BlocksAreHeld == Spec => []NoUseAfterFree
  <1>1. Init => Blocks
    BY DEF Init, WorkerInit, Blocks, InRunOne, Waiting
  <1>2. Typing /\ Blocks /\ [Next]_vars => Blocks'
    BY BlocksStep DEF Typing
  <1>3. Blocks => NoUseAfterFree
    BY DEF Blocks, NoUseAfterFree
  <1> QED
    BY <1>1, <1>2, <1>3, TypingHolds, PTL DEF Spec

----------------------------------------------------------------------------
(* A result says what its own worker did                                   *)

(* A handler of the worker notes how the body ended and no more. *)
LEMMA HandlerNotes ==
  ASSUME WorkerTypeOK, NEW w \in Invocations, NEW how \in Exits \ {"running"},
         LeaveBody(w, how)
  PROVE  /\ \A v \in Invocations \ {w} : shared'[v] = shared[v]
         /\ shared'[w].passed = shared[w].passed
         /\ shared'[w].failed = shared[w].failed
         /\ how \in {"return", "abort"} => shared'[w].outcome = shared[w].outcome
         /\ how \in {"std", "nonstd"} => shared'[w].outcome = "Error"
  <1>1. CASE how \in {"return", "abort"}
    BY <1>1 DEF LeaveBody
  <1>2. CASE how \in {"std", "nonstd"}
    <2>1. ASSUME NEW b \in BlockType
          PROVE  LET n == [b EXCEPT !.outcome = "Error", !.detail = how] IN
                   n.passed = b.passed /\ n.failed = b.failed /\ n.outcome = "Error"
      BY DEF BlockType
    <2>2. shared' = [shared EXCEPT ![w] =
                       [shared[w] EXCEPT !.outcome = "Error", !.detail = how]]
      BY <1>2 DEF LeaveBody, WorkerTypeOK
    <2> QED
      BY <1>2, <2>1, <2>2 DEF WorkerTypeOK
  <1> QED
    BY <1>1, <1>2 DEF Exits

(* No step takes a worker to another worker's block, or counts there what  *)
(* its body did not evaluate.                                              *)
LEMMA SinksStep ==
  ASSUME TypeOK, Control, Sinks, [Next]_vars
  PROVE  Sinks'
  <1>1. CASE Elsewhere \/ UNCHANGED vars
    BY <1>1, ElsewhereStep DEF Sinks, workerVars
  <1>2. CASE Waits
    BY <1>2, WaitStep DEF Sinks
  <1>3. CASE Spawn
    BY <1>3 DEF Spawn, StartWorker, Sinks, history, TypeOK, WorkerTypeOK
  <1>4. CASE ReturnTimeout \/ ReturnJoined
    <2>1. PICK r \in ResultType : Return(r)
      BY <1>4, ReturnedResult
    <2> QED
      BY <2>1 DEF Return, Sinks, history
  <1>5. ASSUME NEW w \in Invocations, Work(w) PROVE Sinks'
    <2>1. ASSUME NEW ok \in BOOLEAN, Assertion(w, ok) PROVE Sinks'
      <3>2. wpc[w] = "body" /\ tls[w] = w /\ tls' = tls /\ wpc' = wpc
        BY <2>1 DEF Assertion, Sinks
      <3>3. /\ shared' = [shared EXCEPT ![w] = Recorded(@, ok)]
            /\ asserted' = [asserted EXCEPT ![w] = Recorded(@, ok)]
        BY <2>1, <3>2 DEF Assertion
      <3>4. ASSUME NEW b \in BlockType, NEW c \in CountsType,
                   b.passed = c.passed, b.failed = c.failed
            PROVE  /\ Recorded(b, ok).passed = Recorded(c, ok).passed
                   /\ Recorded(b, ok).failed = Recorded(c, ok).failed
        BY <3>4 DEF Recorded, BlockType, CountsType
      <3>5. \A v \in Invocations : /\ shared'[v].passed = asserted'[v].passed
                                   /\ shared'[v].failed = asserted'[v].failed
        BY <3>3, <3>4 DEF Sinks, TypeOK, WorkerTypeOK
      <3> QED
        BY <3>2, <3>5 DEF Sinks
    <2>2. CASE BodyEnds(w)
      <3>1. \A v \in Invocations : /\ shared'[v].passed = shared[v].passed
                                   /\ shared'[v].failed = shared[v].failed
        BY <2>2, HandlerNotes DEF BodyEnds, TypeOK
      <3> QED
        BY <2>2, <3>1 DEF BodyEnds, LeaveBody, history, Sinks, TypeOK, WorkerTypeOK
    <2>3. CASE FrameworkStep(w)
      BY <2>3 DEF FrameworkStep, BindSink, CallBody, Unbind, SetDone, Notify, history,
                  Sinks, TypeOK, WorkerTypeOK
    <2> QED
      BY <1>5, <2>1, <2>2, <2>3 DEF Work, WorkerStep, BodyStep
  <1> QED
    BY <1>1, <1>2, <1>3, <1>4, <1>5, StepKinds

LEMMA EndsStep ==
  ASSUME TypeOK, Control, Sinks, Ends, [Next]_vars
  PROVE  Ends'
  <1>1. CASE Elsewhere \/ UNCHANGED vars
    BY <1>1, ElsewhereStep DEF Ends, workerVars
  <1>2. CASE Waits
    BY <1>2, WaitStep DEF Ends
  <1>3. CASE Spawn
    <2>1. Len(results) \in Nat
      BY LenProperties DEF TypeOK
    <2>2. wpc[cur] = "none"
      BY <1>3, <2>1 DEF Spawn, Control, cur, InRunOne, Waiting
    <2> QED
      BY <1>3, <2>2 DEF Spawn, StartWorker, Ends, history, TypeOK, WorkerTypeOK
  <1>4. CASE ReturnTimeout \/ ReturnJoined
    <2>1. PICK r \in ResultType : Return(r)
      BY <1>4, ReturnedResult
    <2> QED
      BY <2>1 DEF Return, Ends, history
  <1>5. ASSUME NEW w \in Invocations, Work(w) PROVE Ends'
    <2>1. ASSUME NEW ok \in BOOLEAN, Assertion(w, ok) PROVE Ends'
      <3>1. /\ tls[w] = w /\ wpc' = wpc /\ thrown' = thrown
            /\ shared' = [shared EXCEPT ![w] = Recorded(@, ok)]
            /\ asserted' = [asserted EXCEPT ![w] = Recorded(@, ok)]
        BY <2>1 DEF Assertion, Sinks
      <3>2. \A b \in BlockType : Recorded(b, ok).outcome = b.outcome
        BY DEF Recorded, BlockType
      <3>3. \A v \in Invocations : shared'[v].outcome = shared[v].outcome
        BY <3>1, <3>2 DEF TypeOK, WorkerTypeOK
      <3>4. ASSUME NEW c \in CountsType, c.failed > 0 PROVE Recorded(c, ok).failed > 0
        BY <3>4 DEF Recorded, CountsType
      <3>5. \A v \in Invocations : asserted[v].failed > 0 => asserted'[v].failed > 0
        BY <3>1, <3>4 DEF TypeOK, WorkerTypeOK
      <3> QED
        BY <3>1, <3>3, <3>5 DEF Ends
    <2>2. CASE BodyEnds(w)
      <3>1. PICK how \in Exits \ {"running"} : LeaveBody(w, how)
        BY <2>2 DEF BodyEnds
      <3>2. /\ thrown' = [thrown EXCEPT ![w] = how] /\ asserted' = asserted
            /\ wpc' = [wpc EXCEPT ![w] = "unbind"] /\ wpc[w] = "body"
            /\ thrown[w] = "running"
            /\ how = "abort" => asserted[w].failed > 0
        BY <3>1 DEF LeaveBody, history, Ends
      <3>3. /\ \A v \in Invocations \ {w} : shared'[v] = shared[v]
            /\ shared'[w].outcome = "Error" <=> how \in {"std", "nonstd"}
        BY <3>1, <3>2, HandlerNotes, ZenonT(40) DEF Ends, TypeOK, Exits
      <3> QED
        BY <3>2, <3>3 DEF Ends, TypeOK, WorkerTypeOK, Exits
    <2>3. CASE FrameworkStep(w)
      BY <2>3 DEF FrameworkStep, BindSink, CallBody, Unbind, SetDone, Notify, history,
                  Ends, TypeOK, WorkerTypeOK
    <2> QED
      BY <1>5, <2>1, <2>2, <2>3 DEF Work, WorkerStep, BodyStep
  <1> QED
    BY <1>1, <1>2, <1>3, <1>4, <1>5, StepKinds

(* What a joined worker's block says is what its body did. *)
LEMMA VerdictFaithful ==
  ASSUME TypeOK, Sinks, Ends, NEW w \in Invocations, wpc[w] = "finished"
  PROVE  LET o == Verdict(shared[w]).outcome IN
           /\ o = "Error" <=> thrown[w] \in {"std", "nonstd"}
           /\ o = "Passed" <=> thrown[w] = "return" /\ asserted[w].failed = 0
  <1>1. /\ shared[w].failed = asserted[w].failed /\ asserted[w].failed \in Nat
        /\ thrown[w] \in Exits \ {"running"}
    BY DEF Sinks, Ends, TypeOK, WorkerTypeOK, CountsType
  <1>2. /\ shared[w].outcome = "Error" <=> thrown[w] \in {"std", "nonstd"}
        /\ thrown[w] = "abort" => asserted[w].failed > 0
    BY DEF Ends
  <1> QED
    BY <1>1, <1>2 DEF Verdict, Exits

(* A worker's own records change in its own steps only. *)
LEMMA WorkerKeepsToItself ==
  ASSUME WorkerTypeOK, NEW w \in Invocations, WorkerStep(w),
         NEW k \in Invocations \ {w}
  PROVE  wpc'[k] = wpc[k] /\ asserted'[k] = asserted[k] /\ thrown'[k] = thrown[k]
  <1>1. CASE FrameworkStep(w)
    BY <1>1 DEF FrameworkStep, BindSink, CallBody, Unbind, SetDone, Notify, history,
                WorkerTypeOK
  <1>2. CASE BodyStep(w)
    BY <1>2 DEF BodyStep, BodyEnds, Assertion,
                LeaveBody, history, WorkerTypeOK
  <1> QED
    BY <1>1, <1>2 DEF WorkerStep

LEMMA ResultsFaithfulStep ==
  ASSUME TypeOK, Control, Sinks, Ends, ResultsFaithful, [Next]_vars
  PROVE  ResultsFaithful'
  <1>0. Len(results) \in Nat
    BY LenProperties DEF TypeOK
  <1>1. CASE Elsewhere \/ UNCHANGED vars
    BY <1>1, ElsewhereStep DEF ResultsFaithful, workerVars
  <1>2. CASE Waits
    BY <1>2, WaitStep DEF ResultsFaithful, runVars
  <1>3. CASE Spawn
    <2>1. results' = results /\ asserted' = asserted /\ thrown' = thrown
      BY <1>3 DEF Spawn, StartWorker, runVars, history
    <2>2. \A k \in 1 .. Len(results) : wpc[k] = "finished" => wpc'[k] = "finished"
      BY <1>3, <1>0 DEF Spawn, StartWorker, cur, TypeOK, WorkerTypeOK
    <2> QED
      BY <2>1, <2>2 DEF ResultsFaithful
  <1>4. CASE ReturnTimeout \/ ReturnJoined
    <2>1. PICK r \in ResultType :
            /\ Return(r)
            /\ \/ ReturnTimeout /\ main = "detach" /\ r.outcome = "Timeout"
               \/ /\ ReturnJoined /\ r.outcome = Verdict(shared[cur]).outcome
                  /\ r.passed = shared[cur].passed /\ r.failed = shared[cur].failed
      BY <1>4, ReturnedResult
    <2>2. /\ Len(results') = Len(results) + 1 /\ results'[cur] = r
          /\ \A k \in 1 .. Len(results) : results'[k] = results[k]
      BY <2>1, ReturnResults
    <2>3. cur \in Invocations
      BY <1>4 DEF Control, ReturnTimeout, ReturnJoined, InRunOne
    <2>4. wpc' = wpc /\ asserted' = asserted /\ thrown' = thrown
      BY <2>1 DEF Return, history
    <2>5. r.outcome # "Timeout" =>
            /\ wpc[cur] = "finished"
            /\ r.passed = asserted[cur].passed /\ r.failed = asserted[cur].failed
            /\ r.outcome = "Error" <=> thrown[cur] \in {"std", "nonstd"}
            /\ r.outcome = "Passed" <=> thrown[cur] = "return" /\ asserted[cur].failed = 0
      BY <2>1, <2>3, VerdictFaithful DEF ReturnJoined, Sinks
    <2>6. \A k \in 1 .. Len(results') : k \in 1 .. Len(results) \/ k = cur
      BY <2>2, <1>0 DEF cur
    <2> QED
      BY <2>2, <2>4, <2>5, <2>6 DEF ResultsFaithful
  <1>5. ASSUME NEW w \in Invocations, Work(w) PROVE ResultsFaithful'
    <2>1. results' = results
      BY <1>5 DEF Work, runVars
    <2>2. ASSUME NEW k \in 1 .. Len(results), wpc[k] = "finished"
          PROVE  wpc'[k] = wpc[k] /\ asserted'[k] = asserted[k] /\ thrown'[k] = thrown[k]
      <3>1. k \in Invocations \ {w}
        BY <1>5, <2>2, WorkerMoves DEF Work, TypeOK, Control
      <3> QED
        BY <1>5, <3>1, WorkerKeepsToItself DEF Work, TypeOK
    <2> QED
      BY <2>1, <2>2 DEF ResultsFaithful
  <1> QED
    BY <1>1, <1>2, <1>3, <1>4, <1>5, StepKinds

LEMMA FaithfulInit == Init => Sinks /\ Ends /\ ResultsFaithful
  <1> SUFFICES ASSUME Init PROVE Sinks /\ Ends /\ ResultsFaithful
    OBVIOUS
  <1>1. Sinks
    BY DEF Init, WorkerInit, NewShared, Sinks
  <1>2. Ends
    BY DEF Init, WorkerInit, NewShared, Ends
  <1>3. ResultsFaithful
    BY DEF Init, ResultsFaithful
  <1> QED
    BY <1>1, <1>2, <1>3

(* Timed-out workers, however many and however late, never change what is  *)
(* reported about another test (runner.cpp:70-139).                        *)
THEOREM ResultsAreFaithful == Spec => []ResultsFaithful
  <1> DEFINE Inv == Sinks /\ Ends /\ ResultsFaithful
  <1>1. Init => Inv
    BY FaithfulInit
  <1>2. Typing /\ Inv /\ [Next]_vars => Inv'
    BY SinksStep, EndsStep, ResultsFaithfulStep DEF Typing
  <1>3. Inv => ResultsFaithful
    OBVIOUS
  <1> HIDE DEF Inv
  <1> QED
    BY <1>1, <1>2, <1>3, TypingHolds, PTL DEF Spec

----------------------------------------------------------------------------
(* Only what is late is a timeout                                          *)

LEMMA DeadlinesStep ==
  ASSUME TypeOK, Control, Deadlines, [Next]_vars
  PROVE  Deadlines'
  <1>0. Len(results) \in Nat /\ opts' = opts
    <2>1. Len(results) \in Nat
      BY LenProperties DEF TypeOK
    <2> QED
      BY <2>1, StepKinds, ElsewhereStep, WaitStep, ReturnedResult
      DEF Spawn, Return, Work
  <1>1. CASE Elsewhere \/ UNCHANGED vars
    BY <1>0, <1>1, ElsewhereStep DEF Deadlines, Deadline, workerVars, cur, InRunOne
  <1>2. CASE Waits
    <2>1. UNCHANGED <<results, wpc, tc, done, inTime>>
      BY <1>2, WaitStep DEF runVars
    <2>2. CASE DeadlinePasses
      <3>1. /\ cur \in Invocations /\ tc[cur] = case /\ wpc[cur] # "none"
            /\ Deadline(case) > 0 /\ expired' = expired \cup {cur} /\ main' = main
        BY <2>2 DEF DeadlinePasses, Control, InRunOne
      <3> QED
        BY <1>0, <2>1, <3>1 DEF Deadlines, Deadline, cur
    <2>3. CASE ~DeadlinePasses
      <3>1. expired' = expired
        BY <1>2, <2>3 DEF Waits, MainStep, Lock, FindDone, FindExpired, FindNotDone,
                          Sleep, WakeUp, SpuriousWakeUp
      <3>2. main' = "detach" => cur \in expired /\ cur \notin done
        BY <1>2, <2>3 DEF Waits, MainStep, Lock, FindDone, FindExpired, FindNotDone,
                          Sleep, WakeUp, SpuriousWakeUp
      <3> QED
        BY <1>0, <2>1, <3>1, <3>2 DEF Deadlines, Deadline, cur
    <2> QED
      BY <2>2, <2>3
  <1>3. CASE Spawn
    <2>1. /\ UNCHANGED <<results, done, inTime, expired>> /\ main' = "lock"
          /\ \A w \in Invocations \ {cur} : wpc'[w] = wpc[w] /\ tc'[w] = tc[w]
      BY <1>3 DEF Spawn, StartWorker, runVars, history, TypeOK, WorkerTypeOK
    <2>2. wpc[cur] = "none"
      BY <1>0, <1>3 DEF Spawn, Control, cur, InRunOne, Waiting
    <2>3. cur \notin expired /\ expired \subseteq Invocations
      BY <2>2 DEF Deadlines, TypeOK, WorkerTypeOK
    <2> QED
      BY <1>0, <2>1, <2>3 DEF Deadlines, Deadline
  <1>4. CASE ReturnTimeout \/ ReturnJoined
    <2>1. PICK r \in ResultType :
            Return(r) /\ (r.outcome = "Timeout" => main = "detach")
      <3>1. \A b : Verdict(b).outcome # "Timeout"
        BY DEF Verdict
      <3> QED
        BY <1>4, <3>1, ReturnedResult
    <2>2. /\ Len(results') = Len(results) + 1 /\ results'[cur] = r
          /\ \A k \in 1 .. Len(results) : results'[k] = results[k]
      BY <2>1, ReturnResults
    <2>3. UNCHANGED <<wpc, tc, done, inTime, expired>> /\ main' = "loop"
      BY <2>1 DEF Return, history
    <2>4. \A k \in 1 .. Len(results') : k \in 1 .. Len(results) \/ k = cur
      BY <2>2, <1>0 DEF cur
    <2> QED
      BY <1>0, <2>1, <2>2, <2>3, <2>4 DEF Deadlines, Deadline
  <1>5. ASSUME NEW w \in Invocations, Work(w) PROVE Deadlines'
    <2>1. UNCHANGED <<results, main>>
      BY <1>5 DEF Work, runVars
    <2>2. tc' = tc /\ \A v \in Invocations : wpc[v] # "none" => wpc'[v] # "none"
      BY <1>5, WorkerMoves DEF Work, TypeOK
    <2>3. expired' = expired /\ expired \subseteq Invocations
      BY <1>5 DEF Work, WorkerStep, FrameworkStep, BodyStep, BodyEnds, BindSink,
         CallBody, Unbind, SetDone, Notify, Assertion, LeaveBody, TypeOK, WorkerTypeOK
    <2>4. inTime' \subseteq done' /\ inTime' \cap expired = inTime \cap expired
      BY <1>5 DEF Deadlines, Work, WorkerStep, FrameworkStep, BodyStep, BodyEnds,
         BindSink, CallBody, Unbind, SetDone, Notify, Assertion, LeaveBody, history
    <2> QED
      BY <1>0, <2>1, <2>2, <2>3, <2>4 DEF Deadlines, Deadline, cur
  <1> QED
    BY <1>1, <1>2, <1>3, <1>4, <1>5, StepKinds

(* A TIMEOUT is reported of tests with a deadline only, and never of one   *)
(* that set `done' in time (runner.cpp:105-123).                           *)
THEOREM TimeoutsAreJustified == Spec => []TimeoutsJustified
  <1>1. Init => Deadlines
    BY DEF Init, WorkerInit, Deadlines
  <1>2. Typing /\ Deadlines /\ [Next]_vars => Deadlines'
    BY DeadlinesStep DEF Typing
  <1>3. Deadlines => TimeoutsJustified
    BY DEF Deadlines, TimeoutsJustified
  <1> QED
    BY <1>1, <1>2, <1>3, TypingHolds, PTL DEF Spec

----------------------------------------------------------------------------
(* The whole invariant                                                     *)

(* Every part of the invariant at once: types, control, ownership, counts, *)
(* ends, deadlines and results (runner.cpp:51-222).                        *)
THEOREM InvariantHolds == Spec => []IInv
  <1>1. Init => IInv
    <2>1. Init => TypeOK /\ Control
      BY TypingInit DEF Typing
    <2>2. Init => Blocks
      BY DEF Init, WorkerInit, Blocks, InRunOne, Waiting
    <2>3. Init => Deadlines
      BY DEF Init, WorkerInit, Deadlines
    <2> QED
      BY <2>1, <2>2, <2>3, FaithfulInit DEF IInv
  <1>2. IInv /\ [Next]_vars => IInv'
    BY TypeStep, ControlStep, BlocksStep, SinksStep, EndsStep, ResultsFaithfulStep,
       DeadlinesStep DEF IInv, Typing
  <1> QED
    BY <1>1, <1>2, PTL DEF Spec

----------------------------------------------------------------------------
(* The summary counts the latest run                                       *)

(* pos results of the latest run are among all those recorded. *)
Counted == pos <= Len(results) /\ SummaryMatchesResults

LEMMA LatestIsFinite ==
  ASSUME TypeOK, NEW o
  PROVE  IsFiniteSet(Latest(o))
  <1>1. Len(results) \in Nat /\ pos \in Nat
    BY LenProperties DEF TypeOK
  <1>2. IsFiniteSet(Len(results) - pos + 1 .. Len(results))
    BY <1>1, FS_Interval
  <1>3. Latest(o) \subseteq Len(results) - pos + 1 .. Len(results)
    BY DEF Latest
  <1> QED
    BY <1>2, <1>3, FS_Subset

(* One more result of the run: it is counted where it belongs. *)
LEMMA LatestGrows ==
  ASSUME TypeOK, pos <= Len(results), NEW r \in ResultType, Return(r), NEW o
  PROVE  Cardinality(Latest(o)') =
           IF r.outcome = o THEN Cardinality(Latest(o)) + 1 ELSE Cardinality(Latest(o))
  <1>1. /\ Len(results) \in Nat /\ Len(results') = Len(results) + 1
        /\ results'[cur] = r
        /\ \A k \in 1 .. Len(results) : results'[k] = results[k]
    BY ReturnResults
  <1>2. pos \in Nat /\ pos' = pos + 1 /\ cur = Len(results) + 1
    BY DEF Return, TypeOK, cur
  <1>3. Latest(o)' = IF r.outcome = o THEN Latest(o) \cup {cur} ELSE Latest(o)
    BY <1>1, <1>2 DEF Latest
  <1>4. cur \notin Latest(o)
    BY <1>1, <1>2 DEF Latest
  <1> QED
    BY <1>3, <1>4, LatestIsFinite, FS_AddElement

LEMMA CountedStep ==
  ASSUME TypeOK, Control, Counted, [Next]_vars
  PROVE  Counted'
  <1>0. Len(results) \in Nat /\ pos \in Nat
    BY LenProperties DEF TypeOK
  <1>1. CASE BeginRun
    <2>1. pos' = 0 /\ results' = results /\ summary' = NewSummary(Len(selected))
      BY <1>1 DEF BeginRun
    <2>2. \A o : Cardinality(Latest(o)') = 0
      <3> TAKE o
      <3>1. Latest(o)' = {}
        BY <1>0, <2>1 DEF Latest
      <3> QED
        BY <3>1, FS_EmptySet
    <2>3. pos' <= Len(results')
      BY <1>0, <2>1
    <2> QED
      BY <2>1, <2>2, <2>3 DEF Counted, SummaryMatchesResults, NewSummary
  <1>2. CASE ReturnTimeout \/ ReturnJoined
    <2>1. PICK r \in ResultType : Return(r)
      BY <1>2, ReturnedResult
    <2>2. Len(results') = Len(results) + 1
      BY <2>1, ReturnResults
    <2>3. \A o : Cardinality(Latest(o)') =
                   IF r.outcome = o THEN Cardinality(Latest(o)) + 1
                                    ELSE Cardinality(Latest(o))
      BY <2>1, LatestGrows DEF Counted
    <2>4. summary' = Count(summary, r.outcome) /\ pos' = pos + 1
      BY <2>1 DEF Return
    <2>5. r.outcome \in Outcomes /\ summary \in SummaryType
      BY DEF ResultType, TypeOK
    <2>6. /\ summary'.passed = Cardinality(Latest("Passed"))'
          /\ summary'.failed = Cardinality(Latest("Failed"))'
          /\ summary'.timed_out = Cardinality(Latest("Timeout"))'
          /\ summary'.errored = Cardinality(Latest("Error"))'
      BY <2>3, <2>4, <2>5
      DEF Count, Counted, SummaryMatchesResults, Outcomes, SummaryType
    <2> QED
      BY <1>0, <2>2, <2>4, <2>6 DEF Counted, SummaryMatchesResults
  <1>3. CASE ~BeginRun /\ ~ReturnTimeout /\ ~ReturnJoined
    <2>1. UNCHANGED <<pos, results, summary>>
      BY <1>3 DEF Next, Progress, OpenFails, CallRun, SelectNext, ListSelected, EndRun,
         Spawn, SpawnFails, MainStep, Lock, FindDone, FindExpired, FindNotDone, Sleep,
         WakeUp, SpuriousWakeUp, DeadlinePasses, ReturnFromMain, DestroyRegistry,
         ProcessEnds, Gone, Work, Crash, FaultOnDestroyedCase, HelperAsserts, runVars, vars
    <2>2. \A o : Latest(o)' = Latest(o)
      BY <2>1 DEF Latest
    <2> QED
      BY <2>1, <2>2 DEF Counted, SummaryMatchesResults
  <1> QED
    BY <1>1, <1>2, <1>3

LEMMA CountedHolds == Spec => []Counted
  <1>1. Init => Counted
    <2> SUFFICES ASSUME Init PROVE Counted
      OBVIOUS
    <2>1. Len(results) = 0 /\ pos = 0 /\ summary = NewSummary(0)
      BY EmptySeq DEF Init
    <2>2. \A o : Cardinality(Latest(o)) = 0
      BY <2>1, FS_EmptySet DEF Latest
    <2> QED
      BY <2>1, <2>2 DEF Counted, SummaryMatchesResults, NewSummary
  <1>2. Typing /\ Counted /\ [Next]_vars => Counted'
    BY CountedStep DEF Typing
  <1> QED
    BY <1>1, <1>2, TypingHolds, PTL DEF Spec

(* summary_ counts the latest run however often run() is called, although  *)
(* results_ only grows (runner.cpp:183-219).                               *)
THEOREM SummaryCountsTheLatestRun == Spec => []SummaryMatchesResults
  <1>1. Counted => SummaryMatchesResults
    BY DEF Counted
  <1> QED
    BY <1>1, CountedHolds, PTL
================================================================================
