------------------------------- MODULE FixtureCase -------------------------------
(***************************************************************************)
(* The body TEST_SUITE_F registers (src/include/edtf/registry.hpp:127-150): *)
(* a fresh fixture, set_up, run_body, tear_down, whatever is thrown, and    *)
(* EXPECT_THROWS / ASSERT_THROWS in any of them (assertions.hpp:154-172).   *)
(* The constructor, the hooks and run_body are user code: any sequence of   *)
(* assertions, nested EDTF_CHECK_THROWS statements and throws.              *)
(***************************************************************************)
EXTENDS Integers, Sequences

CONSTANTS
  MaxChecks,   \* bound: assertions of the whole case
  MaxNesting   \* bound: EDTF_CHECK_THROWS statements inside one another

ASSUME FixtureAssumption == MaxChecks \in Nat /\ MaxNesting \in Nat

VARIABLES
  at,       \* the user code that runs; "handler" is tear_down in the catch
  guards,   \* the EDTF_CHECK_THROWS around it, innermost first
  flying,   \* the exception on its way out, if any
  caught,   \* the exception the handler has caught
  left,     \* how the lambda ended
  sink,     \* CheckSink: passed and failed
  ran,      \* history: the hooks that were called
  escaped,  \* history: the exceptions that left a hook, in order
  wrong     \* history: how many assertions failed and exceptions left a hook

vars == <<at, guards, flying, caught, left, sink, ran, escaped, wrong>>

Exceptions == {"abort", "std", "nonstd"}
UserCode == {"construct", "set_up", "run_body", "tear_down", "handler"}
Guard == [type : Exceptions, fatal : BOOLEAN]

Init ==
  /\ at = "construct" /\ guards = <<>>
  /\ flying = "none" /\ caught = "none" /\ left = "running"
  /\ sink = [passed |-> 0, failed |-> 0]
  /\ ran = <<>> /\ escaped = <<>> /\ wrong = 0

Running == at \in UserCode /\ flying = "none"

(* Every guard will still evaluate one assertion, its own. *)
Room == sink.passed + sink.failed + Len(guards) < MaxChecks

Pass ==
  /\ sink' = [sink EXCEPT !.passed = @ + 1]
  /\ flying' = "none"
  /\ UNCHANGED wrong

(* Broken: a fatal failure throws before it is recorded. *)
FailThrowingFirst(fatal) ==
  /\ sink' = IF fatal THEN sink ELSE [sink EXCEPT !.failed = @ + 1]
  /\ flying' = IF fatal THEN "abort" ELSE "none"
  /\ wrong' = wrong + 1

(* EDTF_FAIL_IMPL. *)
Fail(fatal) ==
  /\ sink' = [sink EXCEPT !.failed = @ + 1]
  /\ flying' = IF fatal THEN "abort" ELSE "none"
  /\ wrong' = wrong + 1

Check ==
  /\ Running /\ Room
  /\ Pass \/ \E fatal \in BOOLEAN : Fail(fatal)
  /\ UNCHANGED <<at, guards, caught, left, ran, escaped>>

Throw ==
  /\ Running
  /\ flying' \in Exceptions \ {"abort"}
  /\ UNCHANGED <<at, guards, caught, left, sink, ran, escaped, wrong>>

(* EDTF_CHECK_THROWS: the statement begins, ends, or throws. *)
BeginStatement ==
  /\ Running /\ Room /\ Len(guards) < MaxNesting
  /\ \E g \in Guard : guards' = <<g>> \o guards
  /\ UNCHANGED <<at, flying, caught, left, sink, ran, escaped, wrong>>

EndStatement ==
  /\ Running /\ guards # <<>>
  /\ guards' = Tail(guards)
  /\ Fail(Head(guards).fatal)
  /\ UNCHANGED <<at, caught, left, ran, escaped>>

(* AssertionAbort is an exception like any other to catch (...). *)
StatementThrows ==
  /\ flying # "none" /\ guards # <<>>
  /\ guards' = Tail(guards)
  /\ IF Head(guards).type = flying THEN Pass ELSE Fail(Head(guards).fatal)
  /\ UNCHANGED <<at, caught, left, ran, escaped>>

Call(hook) == at' = hook /\ ran' = Append(ran, hook) /\ UNCHANGED left

Leave(how) == at' = "out" /\ left' = how /\ UNCHANGED ran

(* Broken: the handler does not rethrow. *)
HookReturnsWithoutRethrow ==
  /\ Running /\ guards = <<>>
  /\ \/ at = "construct" /\ Call("set_up")
     \/ at = "set_up" /\ Call("run_body")
     \/ at = "run_body" /\ Call("tear_down")
     \/ at \in {"tear_down", "handler"} /\ Leave("return")
  /\ UNCHANGED <<guards, flying, caught, sink, escaped, wrong>>

(* Broken: the code after the catch block is inside it. *)
HookReturnsIntoHandler ==
  /\ Running /\ guards = <<>>
  /\ \/ at = "construct" /\ Call("set_up")
     \/ at = "set_up" /\ Call("run_body")
     \/ at = "run_body" /\ at' = "handler" /\ ran' = Append(ran, "tear_down")
                        /\ UNCHANGED left
     \/ at = "handler" /\ Leave(caught)
  /\ UNCHANGED <<guards, flying, caught, sink, escaped, wrong>>

HookReturns ==
  /\ Running /\ guards = <<>>
  /\ \/ at = "construct" /\ Call("set_up")
     \/ at = "set_up" /\ Call("run_body")
     \/ at = "run_body" /\ Call("tear_down")
     \/ at = "tear_down" /\ Leave("return")
     \/ at = "handler" /\ Leave(caught)
  /\ UNCHANGED <<guards, flying, caught, sink, escaped, wrong>>

Handle ==
  /\ at' = "handler" /\ ran' = Append(ran, "tear_down")
  /\ caught' = flying
  /\ UNCHANGED left

(* Broken: the call of tear_down is inside the try block. *)
HookThrowsIntoHandler ==
  /\ flying # "none" /\ guards = <<>>
  /\ flying' = "none"
  /\ escaped' = Append(escaped, flying)
  /\ wrong' = wrong + 1
  /\ \/ at \in {"run_body", "tear_down"} /\ Handle
     \/ at \notin {"run_body", "tear_down"} /\ Leave(flying) /\ UNCHANGED caught
  /\ UNCHANGED <<guards, sink>>

(* Broken: what tear_down throws in the handler is dropped. *)
HookThrowsKeepingTheFirst ==
  /\ flying # "none" /\ guards = <<>>
  /\ flying' = "none"
  /\ escaped' = Append(escaped, flying)
  /\ wrong' = wrong + 1
  /\ \/ at = "run_body" /\ Handle
     \/ at = "handler" /\ Leave(caught) /\ UNCHANGED caught
     \/ at \notin {"run_body", "handler"} /\ Leave(flying) /\ UNCHANGED caught
  /\ UNCHANGED <<guards, sink>>

(* An exception leaves a hook: the try block is around run_body only. *)
HookThrows ==
  /\ flying # "none" /\ guards = <<>>
  /\ flying' = "none"
  /\ escaped' = Append(escaped, flying)
  /\ wrong' = wrong + 1
  /\ \/ at = "run_body" /\ Handle
     \/ at # "run_body" /\ Leave(flying) /\ UNCHANGED caught
  /\ UNCHANGED <<guards, sink>>

Ended == at = "out" /\ UNCHANGED vars

Next ==
  \/ Check \/ Throw \/ BeginStatement \/ EndStatement \/ StatementThrows
  \/ HookReturns \/ HookThrows \/ Ended

Spec == Init /\ [][Next]_vars

----------------------------------------------------------------------------
(* The variables stay in their types, and the handler of the lambda runs   *)
(* with the exception it caught: there is one from the moment it is        *)
(* entered, and none in any other place of the lambda                      *)
(* (registry.hpp:141-146).                                                 *)
TypeOK ==
  /\ at \in UserCode \cup {"out"}
  /\ guards \in Seq(Guard)
  /\ flying \in Exceptions \cup {"none"}
  /\ caught \in Exceptions \cup {"none"}
  /\ at = "handler" => caught # "none"
  /\ caught # "none" => at \in {"handler", "out"}
  /\ left \in Exceptions \cup {"return", "running"}
  /\ sink \in [passed : Nat, failed : Nat]
  /\ ran \in Seq({"set_up", "run_body", "tear_down"})
  /\ escaped \in Seq(Exceptions)
  /\ wrong \in Nat

(* tear_down is called once for every fixture that was set up, and for no  *)
(* other, whatever run_body and tear_down itself throw                     *)
(* (registry.hpp:139-147).                                                 *)
TornDownOnce ==
  at = "out" =>
    ran \in {<<>>, <<"set_up">>, <<"set_up", "run_body", "tear_down">>}

(* The exception that leaves the lambda is the latest one that left a      *)
(* hook: tear_down's replaces run_body's (registry.hpp:143-146).           *)
LatestExceptionLeaves ==
  at = "out" => left = IF escaped = <<>> THEN "return" ELSE escaped[Len(escaped)]

(* The case passes, as run_one sees it, exactly when no assertion in it    *)
(* failed and no exception left a hook: nothing EXPECT_THROWS catches and  *)
(* nothing the handler replaces is forgotten (runner.cpp:130-138).         *)
Passed == left = "return" /\ sink.failed = 0

NothingIsForgotten == at = "out" => (Passed <=> wrong = 0)

(* The comment at assertions.hpp:22: an AssertionAbort unwinds out of the  *)
(* test body. A statement that names AssertionAbort as the exception it    *)
(* waits for is left out: it catches what its author asked for.            *)
Unwinding ==
  /\ at = "run_body" /\ flying = "abort"
  /\ \A k \in DOMAIN guards : guards[k].type # "abort"

AbortUnwinds == [][Unwinding => flying' = "abort" \/ at' # at]_vars

(* What run_one's worker calls is a body as Worker describes it: it counts *)
(* one assertion at a time, and leaves by an abort only after a failure.   *)
One(v) == [w \in {1} |-> v]

worker == INSTANCE Worker WITH
  TestCases <- {"case"}, NoCase <- "none", Invocations <- {1},
  wpc    <- One(IF at = "out" THEN "unbind" ELSE "body"),
  tc     <- One("case"),
  tls    <- One(1),
  shared <- One([passed  |-> sink.passed, failed |-> sink.failed,
                 outcome |-> IF left \in {"std", "nonstd"} THEN "Error" ELSE "Passed",
                 detail  |-> IF left \in {"std", "nonstd"} THEN left ELSE ""]),
  refs   <- One({"runner", "worker"}),
  done   <- {}, held <- {}, waiting <- {}, expired <- {},
  thrown <- One(left),
  asserted <- One(sink),
  inTime <- {}

IsABody == [][worker!BodyStep(1)]_(worker!workerVars)
================================================================================
