------------------------------ MODULE FixtureProofs ------------------------------
(* What TEST_SUITE_F promises, for every fixture and every way through it:  *)
(* any number of assertions, statements nested to any depth.                *)
EXTENDS FixtureCase, SequenceTheorems, TLAPS

(* Which hooks have run and what has left them, by where the lambda is. *)
Progress ==
  /\ at = "construct" => ran = <<>>
  /\ at = "set_up"    => ran = <<"set_up">>
  /\ at = "run_body"  => ran = <<"set_up", "run_body">>
  /\ at \in {"tear_down", "handler"} => ran = <<"set_up", "run_body", "tear_down">>
  /\ at = "handler" => caught # "none" /\ escaped = <<caught>>
  /\ at \notin {"handler", "out"} => escaped = <<>>
  /\ at = "out" <=> left # "running"
  /\ at = "out" => flying = "none" /\ guards = <<>>

(* What went wrong is in the sink or has left a hook; an abort is preceded *)
(* by the failure it is about.                                             *)
Recall ==
  /\ wrong = sink.failed + Len(escaped)
  /\ flying = "abort" \/ caught = "abort" => sink.failed > 0

(* Every statement under way can still evaluate its assertion. *)
Budget == sink.passed + sink.failed + Len(guards) <= MaxChecks

Inv == TypeOK /\ Progress /\ Recall /\ Budget /\ TornDownOnce /\ LatestExceptionLeaves

LEMMA Appends ==
  ASSUME NEW a, NEW b, NEW c
  PROVE  /\ Append(<<>>, a) = <<a>>
         /\ Append(<<a>>, b) = <<a, b>>
         /\ Append(<<a, b>>, c) = <<a, b, c>>
  <1> DEFINE S == {a, b, c}
  <1>1. <<>> \in Seq(S) /\ <<a>> \in Seq(S) /\ <<a, b>> \in Seq(S) /\ <<a, b, c>> \in Seq(S)
    OBVIOUS
  <1>2. ASSUME NEW s \in Seq(S), NEW t \in Seq(S), NEW x \in S, Len(t) = Len(s) + 1,
               t[Len(t)] = x, \A i \in 1 .. Len(s) : t[i] = s[i]
        PROVE  Append(s, x) = t
    <2>1. Len(s) \in Nat /\ \A i \in 1 .. Len(t) : i \in 1 .. Len(s) \/ i = Len(s) + 1
      BY <1>2, LenProperties
    <2>2. /\ Append(s, x) \in Seq(S) /\ Len(Append(s, x)) = Len(t)
          /\ \A i \in 1 .. Len(s) : Append(s, x)[i] = t[i]
          /\ Append(s, x)[Len(s) + 1] = t[Len(s) + 1]
      BY <1>2, AppendProperties
    <2> QED
      BY <2>1, <2>2, SeqEqual
  <1>3. Append(<<>>, a) = <<a>>
    BY <1>1, <1>2
  <1>4. Append(<<a>>, b) = <<a, b>>
    <2>1. \A i \in 1 .. Len(<<a>>) : <<a, b>>[i] = <<a>>[i]
      OBVIOUS
    <2>2. b \in S /\ Len(<<a, b>>) = Len(<<a>>) + 1 /\ <<a, b>>[Len(<<a, b>>)] = b
      OBVIOUS
    <2> HIDE DEF S
    <2> QED
      BY <1>1, <1>2, <2>1, <2>2
  <1>5. Append(<<a, b>>, c) = <<a, b, c>>
    <2>1. \A i \in 1 .. Len(<<a, b>>) : i = 1 \/ i = 2
      OBVIOUS
    <2>2. \A i \in 1 .. Len(<<a, b>>) : <<a, b, c>>[i] = <<a, b>>[i]
      BY <2>1
    <2>3. /\ c \in S /\ Len(<<a, b, c>>) = Len(<<a, b>>) + 1
          /\ <<a, b, c>>[Len(<<a, b, c>>)] = c
      OBVIOUS
    <2> HIDE DEF S
    <2> QED
      BY <1>1, <1>2, <2>2, <2>3
  <1> QED
    BY <1>3, <1>4, <1>5

LEMMA RanAppend ==
  ASSUME TypeOK, NEW hook \in {"set_up", "run_body", "tear_down"}
  PROVE  Append(ran, hook) \in Seq({"set_up", "run_body", "tear_down"})
  BY AppendProperties DEF TypeOK

LEMMA InvInit == Init => Inv
  <1> SUFFICES ASSUME Init PROVE Inv
    OBVIOUS
  <1>1. TypeOK
    BY DEF Init, TypeOK, UserCode, Exceptions
  <1>2. Budget
    BY FixtureAssumption DEF Init, Budget
  <1>3. Progress
    BY DEF Init, Progress
  <1>4. Recall
    BY DEF Init, Recall
  <1>5. TornDownOnce /\ LatestExceptionLeaves
    BY DEF Init, TornDownOnce, LatestExceptionLeaves
  <1> QED
    BY <1>1, <1>2, <1>3, <1>4, <1>5 DEF Inv

(* An assertion is counted; a fatal one that fails starts to unwind. *)
LEMMA Counting ==
  ASSUME TypeOK, NEW fatal \in BOOLEAN, Pass \/ Fail(fatal)
  PROVE  /\ sink' \in [passed : Nat, failed : Nat]
         /\ sink'.passed + sink'.failed = sink.passed + sink.failed + 1
         /\ sink'.failed >= sink.failed
         /\ flying' \in {"abort", "none"}
         /\ flying' = "abort" => sink'.failed > 0
         /\ wrong' - wrong = sink'.failed - sink.failed /\ wrong' \in Nat
  BY SMTT(30) DEF TypeOK, Pass, Fail

LEMMA GuardsStep ==
  ASSUME TypeOK
  PROVE  /\ \A g \in Guard : /\ <<g>> \o guards \in Seq(Guard)
                             /\ Len(<<g>> \o guards) = Len(guards) + 1
         /\ guards # <<>> => /\ Head(guards) \in Guard /\ Tail(guards) \in Seq(Guard)
                             /\ Len(Tail(guards)) = Len(guards) - 1
         /\ Len(guards) \in Nat
  BY ConcatProperties, HeadTailProperties, LenProperties DEF TypeOK

(* Assertions and statements: the hook goes on or unwinds. *)
InsideAHook == Check \/ Throw \/ BeginStatement \/ EndStatement \/ StatementThrows

(* Hooks and exits do not change inside a hook. *)
LEMMA InsideKeeps ==
  ASSUME Inv, at # "out", UNCHANGED <<at, caught, left, ran, escaped>>
  PROVE  Progress' /\ TornDownOnce' /\ LatestExceptionLeaves'
  BY DEF Inv, Progress, TornDownOnce, LatestExceptionLeaves

LEMMA CountedStep ==
  ASSUME Inv, UNCHANGED <<at, caught, left, ran, escaped>>,
         NEW fatal \in BOOLEAN, Pass \/ Fail(fatal),
         guards' \in Seq(Guard),
         sink.passed + sink.failed + 1 + Len(guards') <= MaxChecks
  PROVE  TypeOK' /\ Recall' /\ Budget'
  <1>1. TypeOK'
    BY Counting DEF Inv, TypeOK, Exceptions
  <1>2. sink.failed \in Nat /\ sink'.failed \in Nat /\ sink'.failed >= sink.failed
    BY <1>1, Counting DEF Inv, TypeOK
  <1>3. wrong' = sink'.failed + Len(escaped')
    <2>1. Len(escaped) \in Nat /\ escaped' = escaped
      BY LenProperties DEF Inv, TypeOK
    <2>2. wrong' - wrong = sink'.failed - sink.failed /\ wrong' \in Nat /\ wrong \in Nat
      BY Counting DEF Inv, TypeOK
    <2>3. wrong = sink.failed + Len(escaped)
      BY DEF Inv, Recall
    <2> QED
      BY <1>2, <2>1, <2>2, <2>3, SMTT(30)
  <1>4. flying' = "abort" \/ caught' = "abort" => sink'.failed > 0
    BY <1>2, Counting DEF Inv, Recall
  <1>5. Budget'
    BY Counting DEF Inv, Budget
  <1> QED
    BY <1>1, <1>3, <1>4, <1>5 DEF Recall

LEMMA InsideStep ==
  ASSUME Inv, InsideAHook
  PROVE  Inv'
  <1>1. UNCHANGED <<at, caught, left, ran, escaped>> /\ at # "out"
    BY DEF InsideAHook, Check, Throw, BeginStatement, EndStatement, StatementThrows,
           Running, UserCode, Inv, Progress
  <1>2. /\ Len(guards) \in Nat /\ sink.passed \in Nat /\ sink.failed \in Nat
        /\ MaxChecks \in Nat
    BY GuardsStep, FixtureAssumption DEF Inv, TypeOK
  <1>3. CASE Check
    <2>1. guards' = guards /\ Room /\ \E fatal \in BOOLEAN : Pass \/ Fail(fatal)
      BY <1>3 DEF Check
    <2>2. /\ sink.passed + sink.failed + 1 + Len(guards') <= MaxChecks
          /\ guards' \in Seq(Guard)
      BY <1>2, <2>1 DEF Room, Inv, TypeOK
    <2> QED
      BY <1>1, <2>1, <2>2, InsideKeeps, CountedStep DEF Inv
  <1>4. CASE Throw
    <2>1. TypeOK'
      BY <1>1, <1>4 DEF Throw, Inv, TypeOK, Exceptions
    <2>2. Recall' /\ Budget'
      BY <1>1, <1>4 DEF Throw, Inv, Recall, Budget, Exceptions
    <2> QED
      BY <1>1, <2>1, <2>2, InsideKeeps DEF Inv
  <1>5. CASE BeginStatement
    <2>1. PICK g \in Guard : guards' = <<g>> \o guards
      BY <1>5 DEF BeginStatement
    <2>2. UNCHANGED <<flying, sink, wrong>> /\ Room
      BY <1>5 DEF BeginStatement
    <2>3. guards' \in Seq(Guard) /\ Len(guards') = Len(guards) + 1
      BY <2>1, GuardsStep DEF Inv
    <2>4. TypeOK'
      BY <1>1, <2>2, <2>3 DEF Inv, TypeOK
    <2>5. Recall'
      BY <1>1, <2>2 DEF Inv, Recall
    <2>6. Budget'
      BY <1>2, <2>2, <2>3 DEF Room, Budget
    <2> QED
      BY <1>1, <2>4, <2>5, <2>6, InsideKeeps DEF Inv
  <1>6. CASE EndStatement \/ StatementThrows
    <2>1. guards # <<>> /\ guards' = Tail(guards)
      BY <1>6 DEF EndStatement, StatementThrows
    <2>2. /\ guards' \in Seq(Guard) /\ Len(guards') = Len(guards) - 1
          /\ Head(guards).fatal \in BOOLEAN
      BY <2>1, GuardsStep DEF Inv, Guard
    <2>3. Pass \/ Fail(Head(guards).fatal)
      BY <1>6 DEF EndStatement, StatementThrows
    <2>4. sink.passed + sink.failed + 1 + Len(guards') <= MaxChecks
      BY <1>2, <2>2 DEF Inv, Budget
    <2> QED
      BY <1>1, <2>2, <2>3, <2>4, InsideKeeps, CountedStep DEF Inv
  <1> QED
    BY <1>3, <1>4, <1>5, <1>6 DEF InsideAHook

(* A hook returns to the next one, or to the end. *)
LEMMA ReturnsStep ==
  ASSUME Inv, HookReturns
  PROVE  Inv'
  <1>1. /\ UNCHANGED <<guards, flying, caught, sink, escaped, wrong>>
        /\ guards = <<>> /\ flying = "none"
    BY DEF HookReturns, Running
  <1>2. Recall' /\ Budget'
    BY <1>1 DEF Inv, Recall, Budget
  <1>3. /\ at' \in UserCode \cup {"out"}
        /\ left' \in Exceptions \cup {"return", "running"}
        /\ ran' \in Seq({"set_up", "run_body", "tear_down"})
    <2>1. /\ ran \in Seq({"set_up", "run_body", "tear_down"})
          /\ left \in Exceptions \cup {"return", "running"}
          /\ caught \in Exceptions \cup {"none"}
          /\ at = "handler" => caught # "none"
      BY DEF Inv, TypeOK, Progress
    <2>2. \A h \in {"set_up", "run_body", "tear_down"} :
            Append(ran, h) \in Seq({"set_up", "run_body", "tear_down"})
      BY RanAppend DEF Inv
    <2>3. at' \in UserCode \cup {"out"}
      BY DEF HookReturns, Call, Leave, UserCode
    <2>4. CASE Call("set_up") \/ Call("run_body") \/ Call("tear_down")
      BY <2>1, <2>2, <2>3, <2>4 DEF Call
    <2>5. CASE Leave("return")
      BY <2>1, <2>3, <2>5 DEF Leave
    <2>6. CASE at = "handler" /\ Leave(caught)
      BY <2>1, <2>3, <2>6 DEF Leave
    <2> QED
      BY <2>4, <2>5, <2>6 DEF HookReturns
  <1>4. TypeOK'
    <2>1. at' # "handler" /\ (at \in {"handler", "out"} => at' = "out")
      BY DEF HookReturns, Call, Leave, Running, UserCode
    <2> QED
      BY <1>1, <1>3, <2>1 DEF Inv, TypeOK
  <1>5. Progress'
    <2>1. CASE at \in {"construct", "set_up", "run_body"}
      <3>1. /\ Append(<<>>, "set_up") = <<"set_up">>
            /\ Append(<<"set_up">>, "run_body") = <<"set_up", "run_body">>
            /\ Append(<<"set_up", "run_body">>, "tear_down")
                 = <<"set_up", "run_body", "tear_down">>
        BY Appends
      <3> QED
        BY <1>1, <2>1, <3>1 DEF HookReturns, Call, Inv, Progress
    <2>2. CASE at \in {"tear_down", "handler"}
      BY <1>1, <2>2 DEF HookReturns, Leave, Inv, Progress, TypeOK, Exceptions
    <2> QED
      BY <2>1, <2>2 DEF HookReturns
  <1>6. TornDownOnce'
    BY <1>1 DEF HookReturns, Call, Leave, Inv, Progress, TornDownOnce
  <1>7. LatestExceptionLeaves'
    <2>1. CASE at # "tear_down" /\ at # "handler"
      BY <2>1 DEF HookReturns, Call, LatestExceptionLeaves
    <2>2. CASE at = "tear_down"
      <3>1. left' = "return" /\ escaped' = <<>>
        BY <1>1, <2>2 DEF HookReturns, Leave, Inv, Progress
      <3> QED
        BY <3>1, Zenon DEF LatestExceptionLeaves
    <2>3. CASE at = "handler"
      <3>1. left' = caught /\ escaped' = <<caught>>
        BY <1>1, <2>3 DEF HookReturns, Leave, Inv, Progress
      <3>2. <<caught>> # <<>> /\ <<caught>>[Len(<<caught>>)] = caught
        OBVIOUS
      <3> QED
        BY <3>1, <3>2, Zenon DEF LatestExceptionLeaves
    <2> QED
      BY <2>1, <2>2, <2>3
  <1> QED
    BY <1>2, <1>4, <1>5, <1>6, <1>7 DEF Inv

LEMMA ThrowsStep ==
  ASSUME Inv, HookThrows
  PROVE  Inv'
  <1>1. /\ UNCHANGED <<guards, sink>> /\ guards = <<>>
        /\ flying # "none" /\ flying' = "none" /\ wrong' = wrong + 1
        /\ escaped' = Append(escaped, flying)
        /\ flying \in Exceptions /\ at # "out"
    BY DEF HookThrows, Inv, TypeOK, Progress
  <1>2. /\ escaped' \in Seq(Exceptions) /\ escaped' # <<>>
        /\ escaped'[Len(escaped')] = flying
        /\ Len(escaped') = Len(escaped) + 1 /\ Len(escaped) \in Nat
    BY <1>1, AppendProperties, LenProperties DEF Inv, TypeOK
  <1>3. /\ at' \in UserCode \cup {"out"}
        /\ left' \in Exceptions \cup {"return", "running"}
        /\ ran' \in Seq({"set_up", "run_body", "tear_down"})
        /\ caught' \in {caught, flying}
    <2>1. /\ ran \in Seq({"set_up", "run_body", "tear_down"})
          /\ left \in Exceptions \cup {"return", "running"}
      BY DEF Inv, TypeOK
    <2>2. Append(ran, "tear_down") \in Seq({"set_up", "run_body", "tear_down"})
      BY RanAppend DEF Inv
    <2>3. CASE Handle
      BY <2>1, <2>2, <2>3 DEF Handle, UserCode
    <2>4. CASE Leave(flying) /\ UNCHANGED caught
      BY <1>1, <2>1, <2>4 DEF Leave
    <2> QED
      BY <2>3, <2>4 DEF HookThrows
  <1>4. TypeOK'
    <2>1. \/ at' = "handler" /\ caught' = flying
          \/ at' = "out" /\ caught' = caught
      BY DEF HookThrows, Handle, Leave
    <2>2. caught' \in Exceptions \cup {"none"} /\ flying # "none"
      BY <1>1, <2>1 DEF Inv, TypeOK
    <2> QED
      BY <1>1, <1>2, <1>3, <2>1, <2>2 DEF Inv, TypeOK
  <1>5. Recall'
    BY <1>1, <1>2, <1>3 DEF Inv, TypeOK, Recall
  <1>6. Budget'
    BY <1>1 DEF Inv, Budget
  <1>7. CASE at = "run_body" /\ Handle
    <2>1. /\ escaped' = <<flying>> /\ caught' = flying /\ at' = "handler" /\ left' = left
          /\ ran' = <<"set_up", "run_body", "tear_down">>
      BY <1>1, <1>7, Appends DEF Handle, Inv, Progress
    <2>2. Progress' /\ TornDownOnce' /\ LatestExceptionLeaves'
      BY <1>1, <1>7, <2>1 DEF Inv, Progress, TornDownOnce, LatestExceptionLeaves
    <2> QED
      BY <1>4, <1>5, <1>6, <2>2 DEF Inv
  <1>8. CASE at # "run_body" /\ Leave(flying) /\ UNCHANGED caught
    <2>1. at' = "out" /\ left' = flying /\ ran' = ran
      BY <1>8 DEF Leave
    <2>2. ran \in {<<>>, <<"set_up">>, <<"set_up", "run_body", "tear_down">>}
      BY <1>1, <1>8 DEF Inv, TypeOK, UserCode, Progress
    <2>3. TornDownOnce' /\ LatestExceptionLeaves'
      BY <1>2, <2>1, <2>2 DEF TornDownOnce, LatestExceptionLeaves
    <2>4. Progress'
      BY <1>1, <2>1 DEF Progress, Exceptions
    <2> QED
      BY <1>4, <1>5, <1>6, <2>3, <2>4 DEF Inv
  <1> QED
    BY <1>7, <1>8 DEF HookThrows

(* Types, hooks and exceptions, in every reachable state                   *)
(* (registry.hpp:127-150).                                                 *)
THEOREM InvHolds == Spec => []Inv
  <1>1. Inv /\ [Next]_vars => Inv'
    <2>1. Inv /\ UNCHANGED vars => Inv'
      BY DEF vars, Inv, TypeOK, Progress, Recall, Budget, TornDownOnce,
             LatestExceptionLeaves
    <2> QED
      BY <2>1, InsideStep, ReturnsStep, ThrowsStep DEF Next, InsideAHook, Ended
  <1> QED
    BY <1>1, InvInit, PTL DEF Spec

(* Guards, exceptions and counters keep their types, and the case is in    *)
(* one of the places of its body or out of it (registry.hpp:127-150).      *)
THEOREM TypeCorrect == Spec => []TypeOK
  <1>1. Inv => TypeOK
    BY DEF Inv
  <1> QED
    BY <1>1, InvHolds, PTL

(* Every fixture that was set up is torn down once, and no other           *)
(* (registry.hpp:139-147).                                                 *)
THEOREM EverySetUpIsTornDown == Spec => []TornDownOnce
  <1>1. Inv => TornDownOnce
    BY DEF Inv
  <1> QED
    BY <1>1, InvHolds, PTL

(* The latest exception is the one run_one hears of (registry.hpp:143-146). *)
THEOREM LatestExceptionIsReported == Spec => []LatestExceptionLeaves
  <1>1. Inv => LatestExceptionLeaves
    BY DEF Inv
  <1> QED
    BY <1>1, InvHolds, PTL

(* A case passes exactly when nothing went wrong in it, however its        *)
(* exceptions were caught and replaced (runner.cpp:130-138).               *)
THEOREM NothingForgotten == Spec => []NothingIsForgotten
  <1>1. Inv => NothingIsForgotten
    <2> SUFFICES ASSUME Inv, at = "out" PROVE Passed <=> wrong = 0
      BY DEF NothingIsForgotten
    <2>1. escaped # <<>> => escaped[Len(escaped)] \in Exceptions
      BY LenProperties DEF Inv, TypeOK
    <2>2. left = "return" <=> escaped = <<>>
      BY <2>1 DEF Inv, LatestExceptionLeaves, Exceptions
    <2>3. Len(escaped) \in Nat /\ (escaped = <<>> <=> Len(escaped) = 0)
      BY LenProperties, EmptySeq DEF Inv, TypeOK
    <2> QED
      BY <2>2, <2>3 DEF Inv, TypeOK, Recall, Passed
  <1> QED
    BY <1>1, InvHolds, PTL
----------------------------------------------------------------------------
(* The case is a body of Worker                                            *)

LEMMA AssertionStep ==
  ASSUME Inv, NEW fatal \in BOOLEAN, Pass \/ Fail(fatal),
         UNCHANGED <<at, left>>, at # "out", Len(guards) > 0 \/ Room
  PROVE  \E ok \in BOOLEAN : worker!Assertion(1, ok)
  <1>1. sink.passed + sink.failed < MaxChecks
    BY GuardsStep, FixtureAssumption DEF Inv, TypeOK, Budget, Room
  <1>2. ASSUME NEW ok \in BOOLEAN, sink' = worker!Recorded(sink, ok)
        PROVE  worker!Assertion(1, ok)
    <2> DEFINE Block(sk) ==
           [passed  |-> sk.passed, failed |-> sk.failed,
            outcome |-> IF left \in {"std", "nonstd"} THEN "Error" ELSE "Passed",
            detail  |-> IF left \in {"std", "nonstd"} THEN left ELSE ""]
    <2>1. /\ ok => sink'.passed = sink.passed + 1 /\ sink'.failed = sink.failed
          /\ ~ok => sink'.passed = sink.passed /\ sink'.failed = sink.failed + 1
      BY <1>2 DEF worker!Recorded, Inv, TypeOK
    <2>2. Block(sink') = worker!Recorded(Block(sink), ok)
      BY <2>1 DEF worker!Recorded
    <2>3. One(Block(sink')) = [One(Block(sink)) EXCEPT ![1] = worker!Recorded(@, ok)]
      BY <2>2 DEF One
    <2>4. One(sink') = [One(sink) EXCEPT ![1] = worker!Recorded(@, ok)]
      BY <1>2 DEF One
    <2> QED
      BY <1>1, <2>3, <2>4 DEF worker!Assertion, One
  <1> QED
    BY <1>2 DEF Pass, Fail, worker!Recorded

(* A case with a fixture is what Worker takes a body for: one assertion at *)
(* a time, then one end, and never an abort without a failure              *)
(* (registry.hpp:127-150, runner.cpp:80-96).                               *)
THEOREM FixtureCaseIsABody == Spec => IsABody
  <1>1. Inv /\ [Next]_vars => [worker!BodyStep(1)]_(worker!workerVars)
    <2> SUFFICES ASSUME Inv, [Next]_vars
                 PROVE  worker!BodyStep(1) \/ UNCHANGED worker!workerVars
      OBVIOUS
    <2>1. CASE UNCHANGED <<at, left, sink>>
      BY <2>1 DEF worker!workerVars, One
    <2>2. CASE Check \/ EndStatement \/ StatementThrows
      <3>1. \E fatal \in BOOLEAN : Pass \/ Fail(fatal)
        BY <2>2, GuardsStep DEF Check, EndStatement, StatementThrows, Inv, Guard
      <3>2. UNCHANGED <<at, left>> /\ at # "out" /\ (Len(guards) > 0 \/ Room)
        <4>1. guards # <<>> => Len(guards) > 0
          BY GuardsStep, EmptySeq DEF Inv, TypeOK
        <4> QED
          BY <2>2, <4>1 DEF Check, EndStatement, StatementThrows, Running, UserCode,
                            Inv, Progress
      <3> QED
        BY <3>1, <3>2, AssertionStep DEF worker!BodyStep
    <2>3. CASE HookReturns \/ HookThrows
      <3>1. CASE at' # "out"
        BY <2>3, <3>1 DEF HookReturns, HookThrows, Call, Leave, Handle, worker!workerVars,
                          One, Inv, Progress
      <3>2. CASE at' = "out"
        <4>1. /\ UNCHANGED sink /\ at # "out" /\ left = "running"
              /\ left' \in Exceptions \cup {"return"}
              /\ left' = "abort" => sink.failed > 0
          BY <2>3, <3>2 DEF HookReturns, HookThrows, Call, Leave, Handle, Running,
                            UserCode, Inv, TypeOK, Progress, Recall
        <4>2. worker!LeaveBody(1, left')
          BY <3>2, <4>1 DEF worker!LeaveBody, worker!history, One, Exceptions
        <4> QED
          BY <4>1, <4>2 DEF worker!BodyStep, worker!BodyEnds, worker!Exits, Exceptions
      <3> QED
        BY <3>1, <3>2
    <2> QED
      BY <2>1, <2>2, <2>3 DEF Next, Throw, BeginStatement, Ended, vars
  <1> QED
    BY <1>1, InvHolds, PTL DEF Spec, IsABody
================================================================================
