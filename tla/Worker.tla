--------------------------------- MODULE Worker ---------------------------------
(***************************************************************************)
(* The worker thread Runner::run_one starts for a test (the lambda of      *)
(* src/src/runner.cpp:81-101), the Shared block it has in common with the  *)
(* runner, and the CheckSink the assertion macros reach through the        *)
(* thread-local active_sink().                                             *)
(*                                                                         *)
(* An invocation is one call of run_one; it has one worker thread and one  *)
(* Shared block, both named by the invocation's number.  The bool fields   *)
(* of the blocks are sets of invocations: w \in done iff `done' is true in *)
(* w's block.  The body of a test is any sequence of assertions that ends  *)
(* in a return or an exception, or never ends.                             *)
(***************************************************************************)
EXTENDS Integers, Sequences

CONSTANTS
  TestCases,    \* the TestCase records of the registry
  NoCase,       \* not a test case: the invocation has not been made
  Invocations,  \* numbers of the calls of run_one, from 1
  MaxChecks     \* bound: assertions a body evaluates

ASSUME WorkerAssumption ==
  /\ NoCase \notin TestCases
  /\ Invocations \subseteq Nat \ {0}
  /\ MaxChecks \in Nat

VARIABLES
  wpc,       \* where the worker thread of an invocation is
  tc,        \* the TestCase it captured by reference
  tls,       \* its thread-local active_sink(): a block, or NoSink
  shared,    \* Shared: the sink's two counters, outcome and detail
  refs,      \* who holds a shared_ptr to the block
  done,      \* Shared::done
  held,      \* Shared::m is locked by the runner
  waiting,   \* the runner is blocked in Shared::cv
  expired,   \* the deadline of the invocation has passed
  thrown,    \* how the body ended
  asserted,  \* history: the assertions the body itself evaluated
  inTime     \* history: invocations that set done before their deadline

workerVars == <<wpc, tc, tls, shared, refs, done, held, waiting, expired,
                thrown, asserted, inTime>>
history == <<asserted, inTime>>

NoSink == 0

WorkerStates == {"none", "started", "bound", "body", "unbind", "lock", "notify",
                 "finished"}
Exits == {"running", "return", "abort", "std", "nonstd"}
Holders == {"runner", "worker"}

NewShared == [passed |-> 0, failed |-> 0, outcome |-> "Passed", detail |-> ""]

WorkerInit ==
  /\ wpc = [w \in Invocations |-> "none"]
  /\ tc = [w \in Invocations |-> NoCase]
  /\ tls = [w \in Invocations |-> NoSink]
  /\ shared = [w \in Invocations |-> NewShared]
  /\ refs = [w \in Invocations |-> {}]
  /\ done = {} /\ held = {} /\ waiting = {} /\ expired = {}
  /\ thrown = [w \in Invocations |-> "running"]
  /\ asserted = [w \in Invocations |-> [passed |-> 0, failed |-> 0]]
  /\ inTime = {}

(* Broken: the lambda captures the block by reference. *)
StartWorkerByReference(w, case) ==
  /\ wpc' = [wpc EXCEPT ![w] = "started"]
  /\ tc' = [tc EXCEPT ![w] = case]
  /\ refs' = [refs EXCEPT ![w] = {"runner"}]
  /\ UNCHANGED <<tls, shared, done, held, waiting, expired, thrown, history>>

(* make_shared<Shared>() and std::thread worker([state, &tc] ...). *)
StartWorker(w, case) ==
  /\ wpc' = [wpc EXCEPT ![w] = "started"]
  /\ tc' = [tc EXCEPT ![w] = case]
  /\ refs' = [refs EXCEPT ![w] = Holders]
  /\ UNCHANGED <<tls, shared, done, held, waiting, expired, thrown, history>>

(* Broken: active_sink() is one global. *)
BindSinkGlobally(w) ==
  /\ wpc[w] = "started"
  /\ wpc' = [wpc EXCEPT ![w] = "bound"]
  /\ tls' = [v \in Invocations |-> w]
  /\ UNCHANGED <<tc, shared, refs, done, held, waiting, expired, thrown, history>>

BindSink(w) ==
  /\ wpc[w] = "started"
  /\ wpc' = [wpc EXCEPT ![w] = "bound"]
  /\ tls' = [tls EXCEPT ![w] = w]
  /\ UNCHANGED <<tc, shared, refs, done, held, waiting, expired, thrown, history>>

(* tc.body(): reads the TestCase through the captured reference. *)
CallBody(w) ==
  /\ wpc[w] = "bound"
  /\ wpc' = [wpc EXCEPT ![w] = "body"]
  /\ UNCHANGED <<tc, tls, shared, refs, done, held, waiting, expired, thrown, history>>

(* CheckSink::record_pass, record_failure. *)
Recorded(sink, ok) == IF ok THEN [sink EXCEPT !.passed = @ + 1]
                            ELSE [sink EXCEPT !.failed = @ + 1]

(* One assertion: it counts in the block active_sink() points to.  A fatal  *)
(* one that fails then throws AssertionAbort: the body may leave by it, or  *)
(* stop it on the way (a fixture's handler, EXPECT_THROWS) and go on.       *)
Assertion(w, ok) ==
  /\ wpc[w] = "body"
  /\ asserted[w].passed + asserted[w].failed < MaxChecks
  /\ shared' = [shared EXCEPT ![tls[w]] = Recorded(@, ok)]
  /\ asserted' = [asserted EXCEPT ![w] = Recorded(@, ok)]
  /\ UNCHANGED <<wpc, tc, tls, refs, done, held, waiting, expired, thrown, inTime>>

(* Broken: every handler records an outcome, the one for aborts a failure. *)
LeaveBodyAsFailure(w, how) ==
  /\ wpc[w] = "body"
  /\ how = "abort" => asserted[w].failed > 0
  /\ wpc' = [wpc EXCEPT ![w] = "unbind"]
  /\ thrown' = [thrown EXCEPT ![w] = how]
  /\ shared' = IF how = "return" THEN shared
               ELSE [shared EXCEPT ![w] = [@ EXCEPT !.outcome = "Failed", !.detail = how]]
  /\ UNCHANGED <<tc, tls, refs, done, held, waiting, expired, history>>

(* The body returns or throws: AssertionAbort, which only a failed fatal   *)
(* assertion throws and whose handler does nothing, or something else,     *)
(* which a handler notes.                                                  *)
LeaveBody(w, how) ==
  /\ wpc[w] = "body"
  /\ how = "abort" => asserted[w].failed > 0
  /\ wpc' = [wpc EXCEPT ![w] = "unbind"]
  /\ thrown' = [thrown EXCEPT ![w] = how]
  /\ shared' = IF how \in {"return", "abort"} THEN shared
               ELSE [shared EXCEPT ![w] = [@ EXCEPT !.outcome = "Error", !.detail = how]]
  /\ UNCHANGED <<tc, tls, refs, done, held, waiting, expired, history>>

Unbind(w) ==
  /\ wpc[w] = "unbind"
  /\ wpc' = [wpc EXCEPT ![w] = "lock"]
  /\ tls' = [tls EXCEPT ![w] = NoSink]
  /\ UNCHANGED <<tc, shared, refs, done, held, waiting, expired, thrown, history>>

(* Broken: `done' is set without the mutex. *)
SetDoneUnlocked(w) ==
  /\ wpc[w] = "lock"
  /\ wpc' = [wpc EXCEPT ![w] = "notify"]
  /\ done' = done \cup {w}
  /\ inTime' = IF w \in expired THEN inTime ELSE inTime \cup {w}
  /\ UNCHANGED <<tc, tls, shared, refs, held, waiting, expired, thrown, asserted>>

(* The critical section of the worker. *)
SetDone(w) ==
  /\ wpc[w] = "lock"
  /\ w \notin held
  /\ wpc' = [wpc EXCEPT ![w] = "notify"]
  /\ done' = done \cup {w}
  /\ inTime' = IF w \in expired THEN inTime ELSE inTime \cup {w}
  /\ UNCHANGED <<tc, tls, shared, refs, held, waiting, expired, thrown, asserted>>

(* Broken: the worker keeps its shared_ptr. *)
NotifyAndKeep(w) ==
  /\ wpc[w] = "notify"
  /\ wpc' = [wpc EXCEPT ![w] = "finished"]
  /\ waiting' = waiting \ {w}
  /\ UNCHANGED <<tc, tls, shared, refs, done, held, expired, thrown, history>>

(* Broken: the worker frees the block. *)
NotifyAndFree(w) ==
  /\ wpc[w] = "notify"
  /\ wpc' = [wpc EXCEPT ![w] = "finished"]
  /\ waiting' = waiting \ {w}
  /\ refs' = [refs EXCEPT ![w] = {}]
  /\ UNCHANGED <<tc, tls, shared, done, held, expired, thrown, history>>

(* notify_one(); then the lambda ends and drops its shared_ptr. *)
Notify(w) ==
  /\ wpc[w] = "notify"
  /\ wpc' = [wpc EXCEPT ![w] = "finished"]
  /\ waiting' = waiting \ {w}
  /\ refs' = [refs EXCEPT ![w] = @ \ {"worker"}]
  /\ UNCHANGED <<tc, tls, shared, done, held, expired, thrown, history>>

(* What the framework's own code does in the thread, and the body. *)
FrameworkStep(w) ==
  BindSink(w) \/ CallBody(w) \/ Unbind(w) \/ SetDone(w) \/ Notify(w)

BodyEnds(w) == \E how \in Exits \ {"running"} : LeaveBody(w, how)

BodyStep(w) == (\E ok \in BOOLEAN : Assertion(w, ok)) \/ BodyEnds(w)

WorkerStep(w) == FrameworkStep(w) \/ BodyStep(w)

CountsType == [passed : Nat, failed : Nat]

BlockType == [passed : Nat, failed : Nat, outcome : {"Passed", "Error"},
              detail : {"", "std", "nonstd"}]

WorkerTypeOK ==
  /\ wpc \in [Invocations -> WorkerStates]
  /\ tc \in [Invocations -> TestCases \cup {NoCase}]
  /\ tls \in [Invocations -> Invocations \cup {NoSink}]
  /\ shared \in [Invocations -> BlockType]
  /\ refs \in [Invocations -> SUBSET Holders]
  /\ done \subseteq Invocations
  /\ held \subseteq Invocations
  /\ waiting \subseteq Invocations
  /\ expired \subseteq Invocations
  /\ thrown \in [Invocations -> Exits]
  /\ asserted \in [Invocations -> CountsType]
  /\ inTime \subseteq Invocations
================================================================================
