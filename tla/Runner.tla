--------------------------------- MODULE Runner ---------------------------------
(***************************************************************************)
(* edtf::Runner (src/src/runner.cpp): run() selects cases from the         *)
(* Registry, hands each one to run_one(), which waits for a worker thread  *)
(* under a deadline, records the result and tells the reporter.  The       *)
(* program around it may call run() again, and returns from main, after    *)
(* which the Registry is destroyed and the process ends whatever detached  *)
(* workers are doing.                                                      *)
(***************************************************************************)
EXTENDS Worker, Reporters, FiniteSets

CONSTANTS
  cases,     \* Registry::cases(), in registration order
  timeout,   \* TestCase::timeout, in milliseconds
  tags,      \* TestCase::tags
  Options,   \* the RunOptions the program may construct its Runner with
  Halting,   \* the cases whose body always ends (used by fairness only)
  Threaded,  \* the cases whose body starts threads that evaluate assertions
  MaxRuns    \* bound: calls of run()

(* RunOptions: `matching' is the set of cases whose full name contains the *)
(* name filter (every case, for the empty filter).                         *)
OptionType(o) ==
  /\ o.matching \subseteq TestCases
  /\ o.default_timeout \in Int
  /\ o.list_only \in BOOLEAN
  /\ o.to_file \in BOOLEAN
  /\ o.format \in Formats

ASSUME RunnerAssumption ==
  /\ cases \in Seq(TestCases)
  /\ timeout \in [TestCases -> Int]
  /\ \A o \in Options : OptionType(o)
  /\ MaxRuns \in Nat

VARIABLES
  opts,      \* opts_
  main,      \* where the thread that calls run() is
  runs,      \* calls of run() so far
  walked,    \* registry cases the selection loop has visited
  selected,  \* the cases it kept
  pos,       \* results of the latest run
  results,   \* results_
  summary,   \* summary_
  reporter,  \* the Reporter object of the run
  out,       \* the lines this call of run() has written
  verdict,   \* what the latest call of run() returned
  registry,  \* the Registry singleton: "alive" or "destroyed"
  status     \* how the process ended

runVars == <<selected, walked, pos, results, summary, reporter, out, verdict, runs>>
procVars == <<registry, status>>
vars == <<opts, main, runVars, procVars, workerVars>>

(* The invocation run_one is in, the case it was given, its deadline. *)
cur == Len(results) + 1
case == selected[pos + 1]
Deadline(t) == IF timeout[t] = 0 THEN opts.default_timeout ELSE timeout[t]

Waiting == {"check", "sleep", "blocked", "relock"}
InRunOne == {"lock", "join", "detach"} \cup Waiting
Running == main \in {"loop"} \cup InRunOne
MainStates == {"idle", "select", "loop", "exiting", "gone"} \cup InRunOne
Statuses == {"running", "exit 0", "exit 1", "terminate", "signal"}

Init ==
  /\ opts \in Options
  /\ main = "idle" /\ runs = 0
  /\ walked = 0 /\ selected = <<>> /\ pos = 0
  /\ results = <<>> /\ summary = NewSummary(0)
  /\ reporter = NewReporter("Console") /\ out = <<>> /\ verdict = FALSE
  /\ registry = "alive" /\ status = "running"
  /\ WorkerInit

----------------------------------------------------------------------------
(* run(err) and run(out, err)                                              *)

(* run(err) cannot open the configured output file. *)
OpenFails ==
  /\ main = "idle" /\ runs < MaxRuns
  /\ opts.to_file
  /\ runs' = runs + 1
  /\ verdict' = FALSE
  /\ out' = <<>>
  /\ UNCHANGED <<opts, main, selected, walked, pos, results, summary, reporter,
                 procVars, workerVars>>

(* Broken: what the previous run selected stays selected. *)
CallRunKeepingSelection ==
  /\ main = "idle" /\ runs < MaxRuns
  /\ main' = "select"
  /\ runs' = runs + 1
  /\ walked' = 0 /\ out' = <<>>
  /\ UNCHANGED <<opts, selected, pos, results, summary, reporter, verdict, procVars,
                 workerVars>>

CallRun ==
  /\ main = "idle" /\ runs < MaxRuns
  /\ main' = "select"
  /\ runs' = runs + 1
  /\ walked' = 0 /\ selected' = <<>> /\ out' = <<>>
  /\ UNCHANGED <<opts, pos, results, summary, reporter, verdict, procVars, workerVars>>

Selected(o, t) ==
  /\ t \in o.matching
  /\ o.include_tags # {} => tags[t] \cap o.include_tags # {}
  /\ o.exclude_tags # {} => tags[t] \cap o.exclude_tags = {}

SelectNext ==
  /\ main = "select" /\ walked < Len(cases)
  /\ walked' = walked + 1
  /\ selected' = IF Selected(opts, cases[walked + 1])
                 THEN Append(selected, cases[walked + 1]) ELSE selected
  /\ UNCHANGED <<opts, main, pos, results, summary, reporter, out, verdict, runs,
                 procVars, workerVars>>

ListSelected ==
  /\ main = "select" /\ walked = Len(cases) /\ opts.list_only
  /\ main' = "idle"
  /\ out' = [i \in DOMAIN selected |-> [line |-> "case", test |-> selected[i]]]
  /\ verdict' = TRUE
  /\ UNCHANGED <<opts, selected, walked, pos, results, summary, reporter, runs,
                 procVars, workerVars>>

(* Broken: the counts of the previous run are kept. *)
BeginRunKeepingCounts ==
  /\ main = "select" /\ walked = Len(cases) /\ ~opts.list_only
  /\ main' = "loop"
  /\ reporter' = NewReporter(opts.format)
  /\ out' = BeginLines(NewReporter(opts.format), Len(selected))
  /\ summary' = [summary EXCEPT !.total = Len(selected)]
  /\ pos' = 0
  /\ UNCHANGED <<opts, selected, walked, results, verdict, runs, procVars, workerVars>>

(* Broken: the runs of a Runner share one Reporter. *)
BeginRunKeepingReporter ==
  /\ main = "select" /\ walked = Len(cases) /\ ~opts.list_only
  /\ main' = "loop"
  /\ reporter' = IF runs = 1 THEN NewReporter(opts.format) ELSE reporter
  /\ out' = BeginLines(NewReporter(opts.format), Len(selected))
  /\ summary' = NewSummary(Len(selected))
  /\ pos' = 0
  /\ UNCHANGED <<opts, selected, walked, results, verdict, runs, procVars, workerVars>>

BeginRun ==
  /\ main = "select" /\ walked = Len(cases) /\ ~opts.list_only
  /\ main' = "loop"
  /\ reporter' = NewReporter(opts.format)
  /\ out' = BeginLines(NewReporter(opts.format), Len(selected))
  /\ summary' = NewSummary(Len(selected))
  /\ pos' = 0
  /\ UNCHANGED <<opts, selected, walked, results, verdict, runs, procVars, workerVars>>

(* Broken: the verdict is over results_, which every run adds to. *)
EndRunOverAllResults ==
  /\ main = "loop" /\ pos = Len(selected)
  /\ main' = "idle"
  /\ out' = out \o EndLines(reporter, summary)
  /\ verdict' = (\A i \in DOMAIN results : Ok(results[i]))
  /\ UNCHANGED <<opts, selected, walked, pos, results, summary, reporter, runs,
                 procVars, workerVars>>

EndRun ==
  /\ main = "loop" /\ pos = Len(selected)
  /\ main' = "idle"
  /\ out' = out \o EndLines(reporter, summary)
  /\ verdict' = (NotPassed(summary) = 0)
  /\ UNCHANGED <<opts, selected, walked, pos, results, summary, reporter, runs,
                 procVars, workerVars>>

----------------------------------------------------------------------------
(* run_one(tc), and the body of the loop of run() after it                 *)

(* Invocations bounds the calls of run_one. *)
Spawn ==
  /\ main = "loop" /\ pos < Len(selected) /\ cur \in Invocations
  /\ main' = "lock"
  /\ StartWorker(cur, case)
  /\ UNCHANGED <<opts, runVars, procVars>>

(* Broken: the report is closed as if the run had ended. *)
SpawnFailsInAFinishedReport ==
  /\ main = "loop" /\ pos < Len(selected)
  /\ main' = "gone"
  /\ status' = "terminate"
  /\ out' = out \o EndLines(reporter, summary)
  /\ UNCHANGED <<opts, selected, walked, pos, results, summary, reporter, verdict, runs,
                 registry, workerVars>>

(* The std::thread constructor throws and nothing on the way to main       *)
(* catches it: std::terminate.                                             *)
SpawnFails ==
  /\ main = "loop" /\ pos < Len(selected)
  /\ main' = "gone"
  /\ status' = "terminate"
  /\ UNCHANGED <<opts, runVars, registry, workerVars>>

MainStep(from, to) ==
  /\ main = from
  /\ main' = to
  /\ UNCHANGED <<opts, runVars, procVars, wpc, tc, tls, shared, refs, done,
                 expired, thrown, history>>

Lock ==
  /\ cur \notin held
  /\ \E from \in {"lock", "relock"} : MainStep(from, "check")
  /\ held' = held \cup {cur}
  /\ UNCHANGED waiting

(* The predicate of wait_for is read under the lock; false and in time, it *)
(* blocks.  (With the deadline already past, the code makes one empty      *)
(* wait before it reads the predicate again, which is a slower `Lock'.)    *)
FindDone ==
  /\ cur \in done
  /\ MainStep("check", "join")
  /\ held' = held \ {cur}
  /\ UNCHANGED waiting

(* Broken: a late runner does not read `done' again. *)
FindExpiredUnchecked ==
  /\ cur \in expired
  /\ MainStep("check", "detach")
  /\ held' = held \ {cur}
  /\ UNCHANGED waiting

FindExpired ==
  /\ cur \notin done /\ cur \in expired
  /\ MainStep("check", "detach")
  /\ held' = held \ {cur}
  /\ UNCHANGED waiting

FindNotDone ==
  /\ cur \notin done /\ cur \notin expired
  /\ MainStep("check", "sleep")
  /\ UNCHANGED <<held, waiting>>

(* Blocking releases the mutex and joins the waiters in one atomic step. *)
Sleep ==
  /\ MainStep("sleep", "blocked")
  /\ held' = held \ {cur}
  /\ waiting' = waiting \cup {cur}

(* Notified, timed out, or a spurious wakeup. *)
WakeUp ==
  /\ cur \notin waiting \/ cur \in expired
  /\ MainStep("blocked", "relock")
  /\ waiting' = waiting \ {cur}
  /\ UNCHANGED held

SpuriousWakeUp ==
  /\ cur \in waiting
  /\ MainStep("blocked", "relock")
  /\ waiting' = waiting \ {cur}
  /\ UNCHANGED held

(* The deadline counts from the call of wait_for, under the first lock.    *)
DeadlinePasses ==
  /\ main \in Waiting /\ Deadline(case) > 0
  /\ cur \notin expired
  /\ expired' = expired \cup {cur}
  /\ UNCHANGED <<opts, main, runVars, procVars, wpc, tc, tls, shared, refs, done,
                 held, waiting, thrown, history>>

(* run_one returns r: its shared_ptr goes, and run() records the result. *)
Return(r) ==
  /\ main' = "loop"
  /\ refs' = [refs EXCEPT ![cur] = @ \ {"runner"}]
  /\ results' = Append(results, r)
  /\ out' = out \o ResultLines(reporter, r)
  /\ reporter' = AfterResult(reporter, r)
  /\ summary' = Count(summary, r.outcome)
  /\ pos' = pos + 1
  /\ UNCHANGED <<opts, selected, walked, verdict, runs, procVars, wpc, tc, tls,
                 shared, done, held, waiting, expired, thrown, history>>

ReturnTimeout ==
  /\ main = "detach"
  /\ Return([test |-> case, outcome |-> "Timeout", passed |-> 0, failed |-> 0,
             detail |-> "deadline"])

(* The result of a joined worker, from its block. *)
Verdict(block) ==
  CASE block.outcome = "Error" -> [outcome |-> "Error", detail |-> block.detail]
    [] block.outcome # "Error" /\ block.failed > 0 ->
         [outcome |-> "Failed", detail |-> "failures"]
    [] OTHER -> [outcome |-> "Passed", detail |-> ""]

(* Broken: blocks are numbered by the position in the run. *)
ReturnJoinedByPosition ==
  /\ main = "join" /\ wpc[cur] = "finished"
  /\ LET block == shared[pos + 1] IN
       Return([test |-> case, outcome |-> Verdict(block).outcome,
               passed |-> block.passed, failed |-> block.failed,
               detail |-> Verdict(block).detail])

ReturnJoined ==
  /\ main = "join" /\ wpc[cur] = "finished"
  /\ LET block == shared[cur] IN
       Return([test |-> case, outcome |-> Verdict(block).outcome,
               passed |-> block.passed, failed |-> block.failed,
               detail |-> Verdict(block).detail])

----------------------------------------------------------------------------
(* The end of the process                                                  *)

(* run_all: the exit code is the verdict; main returns. *)
ReturnFromMain ==
  /\ main = "idle" /\ runs > 0
  /\ main' = "exiting"
  /\ status' = IF verdict THEN "exit 0" ELSE "exit 1"
  /\ UNCHANGED <<opts, runVars, registry, workerVars>>

(* exit() runs the destructor of the static Registry, then _exit. *)
DestroyRegistry ==
  /\ main = "exiting" /\ registry = "alive"
  /\ registry' = "destroyed"
  /\ UNCHANGED <<opts, main, runVars, status, workerVars>>

ProcessEnds ==
  /\ main = "exiting" /\ registry = "destroyed"
  /\ main' = "gone"
  /\ UNCHANGED <<opts, runVars, procVars, workerVars>>

Crash ==
  /\ main' = "gone"
  /\ status' = "signal"
  /\ UNCHANGED <<opts, runVars, registry, workerVars>>

(* Calling the body of a destroyed TestCase is undefined: it may still     *)
(* work (WorkerStep), or fault.                                            *)
FaultOnDestroyedCase(w) ==
  /\ main = "exiting" /\ registry = "destroyed"
  /\ wpc[w] = "bound"
  /\ Crash

(* active_sink() is null in a thread the body started, which may outlive   *)
(* the body and its worker; an assertion there dereferences it.            *)
HelperAsserts(w) ==
  /\ main # "gone"
  /\ tc[w] \in Threaded
  /\ wpc[w] \notin {"none", "started", "bound"}
  /\ Crash

----------------------------------------------------------------------------
Work(w) ==
  /\ main # "gone"
  /\ WorkerStep(w)
  /\ UNCHANGED <<opts, main, runVars, procVars>>

Gone == main = "gone" /\ UNCHANGED vars

Progress ==
  \/ SelectNext \/ ListSelected \/ BeginRun \/ EndRun \/ Spawn
  \/ Lock \/ FindDone \/ FindExpired \/ FindNotDone \/ Sleep \/ WakeUp
  \/ ReturnTimeout \/ ReturnJoined

Next ==
  \/ OpenFails \/ CallRun \/ Progress \/ SpawnFails \/ SpuriousWakeUp
  \/ DeadlinePasses
  \/ ReturnFromMain \/ DestroyRegistry \/ ProcessEnds
  \/ \E w \in Invocations : Work(w) \/ FaultOnDestroyedCase(w) \/ HelperAsserts(w)
  \/ Gone

Spec == Init /\ [][Next]_vars

(***************************************************************************)
(* Fairness: the scheduler runs every thread that can run, a clock that    *)
(* was started reaches the deadline, and a mutex that is released again    *)
(* and again is not refused to the worker forever (strong fairness, as     *)
(* spurious wakeups may make the runner take it any number of times).      *)
(* Nothing is assumed of a body unless its case is in Halting.             *)
(***************************************************************************)
Thread(w, step) == main # "gone" /\ step /\ UNCHANGED <<opts, main, runVars, procVars>>

Fairness ==
  /\ WF_vars(Progress)
  /\ WF_vars(DeadlinePasses)
  /\ \A w \in Invocations :
       /\ WF_vars(Thread(w, BindSink(w) \/ CallBody(w) \/ Unbind(w) \/ Notify(w)))
       /\ SF_vars(Thread(w, SetDone(w)))
       /\ WF_vars(Thread(w, tc[w] \in Halting /\ BodyEnds(w)))

FairSpec == Spec /\ Fairness

----------------------------------------------------------------------------
(* Properties                                                              *)

ResultType == [test : TestCases, outcome : Outcomes, passed : Nat, failed : Nat,
               detail : {"", "std", "nonstd", "failures", "deadline"}]

SummaryType == [total : Nat, passed : Nat, failed : Nat, timed_out : Nat,
                errored : Nat]

(* The variables of the runner and of its workers stay in their types.     *)
TypeOK ==
  /\ opts \in Options
  /\ main \in MainStates
  /\ runs \in Nat
  /\ selected \in Seq(TestCases)
  /\ walked \in 0 .. Len(cases)
  /\ pos \in Nat
  /\ results \in Seq(ResultType)
  /\ summary \in SummaryType
  /\ reporter \in [format : Formats, index : Nat, held : Seq(ResultType)]
  /\ verdict \in BOOLEAN
  /\ registry \in {"alive", "destroyed"}
  /\ status \in Statuses
  /\ WorkerTypeOK

(* Nobody touches a Shared block after its last shared_ptr is gone: not a  *)
(* worker that was detached long ago, not the runner (runner.cpp:64-77).   *)
NoUseAfterFree ==
  /\ \A w \in Invocations : wpc[w] \notin {"none", "finished"} => refs[w] # {}
  /\ main \in InRunOne => refs[cur] # {}

(* A result that is not a timeout says what its own worker did, whatever   *)
(* timed-out workers of other invocations did in the meantime: the         *)
(* assertions its body evaluated, and an outcome that fits its end         *)
(* (reporter.hpp:13-18).                                                   *)
ResultsFaithful ==
  \A k \in 1 .. Len(results) :
    results[k].outcome # "Timeout" =>
      /\ wpc[k] = "finished"
      /\ results[k].passed = asserted[k].passed
      /\ results[k].failed = asserted[k].failed
      /\ results[k].outcome = "Error" <=> thrown[k] \in {"std", "nonstd"}
      /\ results[k].outcome = "Passed" <=> thrown[k] = "return" /\ asserted[k].failed = 0

(* Only a test with a deadline is reported as TIMEOUT, and never one whose *)
(* worker set `done' before the deadline, however late the runner wakes    *)
(* up: wait_for reads its predicate once more (runner.cpp:105-111).        *)
TimeoutsJustified ==
  \A k \in 1 .. Len(results) :
    results[k].outcome = "Timeout" => k \notin inTime /\ Deadline(tc[k]) > 0

(* summary_ counts the results of the latest run and those only, although  *)
(* results_ keeps the results of every run of this Runner.                 *)
Latest(outcome) ==
  {k \in Len(results) - pos + 1 .. Len(results) : results[k].outcome = outcome}

SummaryMatchesResults ==
  /\ summary.passed = Cardinality(Latest("Passed"))
  /\ summary.failed = Cardinality(Latest("Failed"))
  /\ summary.timed_out = Cardinality(Latest("Timeout"))
  /\ summary.errored = Cardinality(Latest("Error"))

(* What a consumer reads in a finished report is what the run decided: in  *)
(* console and TAP the k-th line about a test shows the k-th result of the *)
(* run, with its detail behind it, in JUnit the k-th testcase does; plan,  *)
(* totals and the counts of each outcome agree with those lines, and no    *)
(* bad line is there exactly when run() said so.                           *)
Lines(P(_)) == {i \in DOMAIN out : P(out[i])}

Finished == out # <<>> /\ out[Len(out)].line \in {"summary", "comment", "end"}

(* The results of the latest run, of which results_ holds older ones too. *)
RunResults == [k \in 1 .. pos |-> results[Len(results) - pos + k]]

(* The count of an outcome in a summary. *)
Total(s, outcome) ==
  CASE outcome = "Passed"  -> s.passed
    [] outcome = "Failed"  -> s.failed
    [] outcome = "Timeout" -> s.timed_out
    [] outcome = "Error"   -> s.errored

(* Which line a result is shown by, and which one tells why it is not ok. *)
ResultShows(l, r) == l.test = r.test /\ l.outcome = r.outcome

PointShows(l, r) ==
  /\ l.test = r.test
  /\ l.ok <=> r.outcome = "Passed"
  /\ l.timeout <=> r.outcome = "Timeout"

TestcaseShows(l, r) ==
  /\ l.test = r.test
  /\ l.child = "none" <=> r.outcome = "Passed"
  /\ l.child = "failure" <=> r.outcome = "Failed"
  /\ l.child = "error:timeout" <=> r.outcome = "Timeout"

Explained(s, i, r) ==
  r.outcome # "Passed" /\ r.detail # "" =>
    i + 1 \in DOMAIN s /\ s[i + 1] = [line |-> "detail", detail |-> r.detail]

ConsoleHonest ==
  LET Result(l) == l.line = "result"
      Showing(outcome) == {i \in Lines(Result) : out[i].outcome = outcome}
      Nth(i) == Cardinality({j \in Lines(Result) : j <= i})
      counts == out[Len(out)].counts
  IN  /\ out[1].total = pos /\ counts.total = pos
      /\ Cardinality(Lines(Result)) = pos
      /\ \A i \in Lines(Result) :
           /\ ResultShows(out[i], RunResults[Nth(i)])
           /\ Explained(out, i, RunResults[Nth(i)])
      /\ \A outcome \in Outcomes :
           Cardinality(Showing(outcome)) = Total(counts, outcome)
      /\ verdict <=> Showing("Passed") = Lines(Result)

TapHonest ==
  LET Point(l) == l.line = "point"
      Good(l) == l.line = "point" /\ l.ok
      Nth(i) == Cardinality({j \in Lines(Point) : j <= i})
  IN  /\ out[1].total = pos /\ out[Len(out)].total = pos
      /\ Cardinality(Lines(Point)) = pos
      /\ \A i \in Lines(Point) :
           /\ out[i].index = Nth(i)
           /\ PointShows(out[i], RunResults[Nth(i)])
           /\ Explained(out, i, RunResults[Nth(i)])
      /\ out[Len(out)].passed = Cardinality(Lines(Good))
      /\ verdict <=> Lines(Good) = Lines(Point)

JunitHonest ==
  LET Case(l) == l.line = "testcase"
      Failure(l) == l.line = "testcase" /\ l.child = "failure"
      Problem(l) == l.line = "testcase" /\ l.child \in {"error:timeout", "error:exception"}
  IN  /\ out[1].tests = pos
      /\ Lines(Case) = 2 .. pos + 1
      /\ \A k \in 1 .. pos : TestcaseShows(out[k + 1], RunResults[k])
      /\ out[1].failures = Cardinality(Lines(Failure))
      /\ out[1].errors = Cardinality(Lines(Problem))
      /\ verdict <=> Lines(Failure) \cup Lines(Problem) = {}

ReportHonest ==
  main = "idle" /\ Finished =>
    CASE opts.format = "Console" -> ConsoleHonest
      [] opts.format = "Tap"     -> TapHonest
      [] opts.format = "Junit"   -> JunitHonest

(* A process that dies with selected tests undecided (std::terminate, a    *)
(* fault in a thread of some earlier test) leaves no report that could be  *)
(* taken for a finished one: TAP has fewer points than its plan, JUnit     *)
(* nothing at all (runner.cpp:185-222, reporter.cpp:115-193).              *)
CutShortIsVisible ==
  LET Point(l) == l.line = "point"
  IN  status \in {"terminate", "signal"} /\ pos < Len(selected) =>
        /\ ~Finished
        /\ opts.format = "Tap" /\ out # <<>> => Cardinality(Lines(Point)) < out[1].total
        /\ opts.format = "Junit" => out = <<>>

(* The comment at runner.cpp:64-68: every piece of state the worker        *)
(* touches outlives it.  The TestCase it calls is such a piece.            *)
CasesOutliveWorkers ==
  [][\A w \in Invocations : wpc[w] = "bound" /\ wpc'[w] = "body"
                              => registry = "alive"]_vars

(* A test with a deadline, or whose body ends, gets a result: whatever     *)
(* earlier tests still do, however often the runner wakes up for nothing,  *)
(* and no notification is lost (runner.cpp:96-111).                        *)
EveryTestIsDecided ==
  \A w \in Invocations :
    (wpc[w] = "started" /\ (Deadline(tc[w]) > 0 \/ tc[w] \in Halting))
      ~> (Len(results) >= w \/ main = "gone")

(* The block of a test whose body ends is freed, timed out or not.         *)
BlocksAreFreed ==
  \A w \in Invocations :
    (wpc[w] = "started" /\ tc[w] \in Halting) ~> (refs[w] = {} \/ main = "gone")

----------------------------------------------------------------------------
(* The inductive invariant behind the safety properties above              *)

(* run_one is called on the next selected case, for the next invocation,   *)
(* and no later invocation has been made.                                  *)
Control ==
  /\ 1 .. Len(results) \subseteq Invocations
  /\ Running => pos <= Len(selected)
  /\ main \in InRunOne =>
       /\ pos < Len(selected)
       /\ cur \in Invocations /\ tc[cur] = case /\ wpc[cur] # "none"
  /\ \A w \in Invocations :
       w > Len(results) /\ ~(main \in InRunOne \cup {"gone"} /\ w = cur) => wpc[w] = "none"

(* Each side holds its own shared_ptr while it may touch the block. *)
Blocks ==
  /\ \A w \in Invocations : wpc[w] \notin {"none", "finished"} => "worker" \in refs[w]
  /\ main \in InRunOne => "runner" \in refs[cur]

(* A worker counts in its own block, and nobody else does. *)
Sinks ==
  \A w \in Invocations :
    /\ wpc[w] \in {"bound", "body"} => tls[w] = w
    /\ shared[w].passed = asserted[w].passed
    /\ shared[w].failed = asserted[w].failed

(* The block remembers how the body ended. *)
Ends ==
  \A w \in Invocations :
    /\ wpc[w] \in {"none", "started", "bound", "body"} <=> thrown[w] = "running"
    /\ shared[w].outcome = "Error" <=> thrown[w] \in {"std", "nonstd"}
    /\ thrown[w] = "abort" => asserted[w].failed > 0

(* What made the runner give up on a worker stays true. *)
Deadlines ==
  /\ inTime \subseteq done
  /\ \A w \in expired : Deadline(tc[w]) > 0 /\ wpc[w] # "none"
  /\ main = "detach" => cur \in expired \ inTime
  /\ \A k \in 1 .. Len(results) :
       results[k].outcome = "Timeout" => k \in expired \ inTime

IInv ==
  /\ TypeOK /\ Control /\ Blocks /\ Sinks /\ Ends /\ Deadlines
  /\ ResultsFaithful

(* The invariant behind the properties of the report.  A line is one of    *)
(* those the runner or a reporter writes.                                  *)
Children == {"none", "failure", "error:timeout", "error:exception"}
LineType ==
  [line : {"case"}, test : TestCases]
    \cup [line : {"running", "plan"}, total : Nat]
    \cup [line : {"result"}, test : TestCases, outcome : Outcomes]
    \cup [line : {"point"}, test : TestCases, ok : BOOLEAN, index : Nat, timeout : BOOLEAN]
    \cup [line : {"detail"}, detail : {"std", "nonstd", "failures", "deadline"}]
    \cup [line : {"summary"}, counts : SummaryType]
    \cup [line : {"comment"}, passed : Nat, total : Nat]
    \cup [line : {"testsuites"}, tests : Nat, failures : Nat, errors : Nat]
    \cup [line : {"testcase"}, test : TestCases, child : Children]
    \cup [line : {"end"}]

(* The lines of the report, or the results JUnit holds, that are of a kind. *)
Among(s, kind) == {i \in DOMAIN s : s[i] \in kind}
ResultLine == {l \in LineType : l.line = "result"}
ShowingLine(outcome) == {l \in ResultLine : l.outcome = outcome}
PointLine == {l \in LineType : l.line = "point"}
OkLine == {l \in PointLine : l.ok}
WithOutcome(outcomes) == {r \in ResultType : r.outcome \in outcomes}

(* The lines of the kind up to line i. *)
Nth(s, kind, i) == Cardinality({j \in Among(s, kind) : j <= i})

ConsoleWritten ==
  /\ out # <<>> /\ out[1] = [line |-> "running", total |-> Len(selected)]
  /\ Cardinality(Among(out, ResultLine)) = pos
  /\ \A i \in Among(out, ResultLine) :
       LET r == RunResults[Nth(out, ResultLine, i)]
       IN  ResultShows(out[i], r) /\ Explained(out, i, r)
  /\ \A outcome \in Outcomes :
       Cardinality(Among(out, ShowingLine(outcome))) = Total(summary, outcome)

TapWritten ==
  /\ out # <<>> /\ out[1] = [line |-> "plan", total |-> Len(selected)]
  /\ Cardinality(Among(out, PointLine)) = pos
  /\ Cardinality(Among(out, OkLine)) = summary.passed
  /\ reporter.index = pos
  /\ \A i \in Among(out, PointLine) :
       LET r == RunResults[Nth(out, PointLine, i)]
       IN  /\ out[i].index = Nth(out, PointLine, i)
           /\ PointShows(out[i], r) /\ Explained(out, i, r)

JunitWritten ==
  LET Held(outcomes) == Cardinality(Among(reporter.held, WithOutcome(outcomes)))
  IN  /\ out = <<>>
      /\ Len(reporter.held) = pos
      /\ \A k \in 1 .. pos : reporter.held[k] = RunResults[k]
      /\ Held({"Passed"}) = summary.passed
      /\ Held({"Failed"}) = summary.failed
      /\ Held({"Timeout", "Error"}) = summary.timed_out + summary.errored

(* A run in progress has told the reporter of each of its results, in      *)
(* order, and the reporter its reader (JUnit's keeps them to the end), and *)
(* nothing it has written closes the report.                               *)
Written ==
  /\ out \in Seq(LineType)
  /\ main = "select" => out = <<>>
  /\ Running =>
       /\ pos <= Len(results)
       /\ reporter.format = opts.format
       /\ summary.total = Len(selected)
       /\ summary.passed + NotPassed(summary) = pos
       /\ ~Finished
       /\ CASE opts.format = "Console" -> ConsoleWritten
            [] opts.format = "Tap"     -> TapWritten
            [] opts.format = "Junit"   -> JunitWritten

(* A listing starts no worker, so nothing can crash it. *)
ListsOnly ==
  opts.list_only =>
    /\ ~Running /\ status \notin {"terminate", "signal"}
    /\ \A w \in Invocations : wpc[w] = "none"

(* Whatever is left undecided, the report shows it, dead or alive. *)
Undecided == ~opts.list_only /\ pos < Len(selected) =>
  /\ ~Finished
  /\ opts.format = "Tap" /\ out # <<>> =>
       Cardinality({i \in DOMAIN out : out[i].line = "point"}) < out[1].total
  /\ opts.format = "Junit" => out = <<>>

ReportInv == Written /\ ListsOnly /\ Undecided /\ ReportHonest

----------------------------------------------------------------------------
(* The cases that options o admit among the first n of the registry.       *)
Admitted(o) ==
  LET kept[n \in 0 .. Len(cases)] ==
        IF n = 0 THEN <<>>
        ELSE IF Selected(o, cases[n]) THEN Append(kept[n - 1], cases[n])
                                      ELSE kept[n - 1]
  IN  kept

(* What ties the walk over the registry, the plan and the results of the   *)
(* run together, behind the refinement below.                              *)
PlanInv ==
  /\ main = "select" => selected = Admitted(opts)[walked]
  /\ Running =>
       /\ selected = Admitted(opts)[Len(cases)]
       /\ pos <= Len(results)
       /\ \A i \in 1 .. pos : results[Len(results) - pos + i].test = selected[i]
  /\ status \in {"terminate", "signal"} => main = "gone"

(* Runner implements Suite: the cases the options admit, in registration   *)
(* order, one decision each, and an answer and an exit code that follow    *)
(* from the decisions.                                                     *)
Phase == IF main \in {"idle", "select"} THEN "idle"
         ELSE IF Running THEN "running" ELSE "stopped"
Plan == Admitted(opts)[Len(cases)]
Limited == {t \in TestCases : Deadline(t) > 0}
Decision(r) == [test |-> r.test, outcome |-> r.outcome]
Decided == IF Running THEN [i \in 1 .. pos |-> Decision(results[Len(results) - pos + i])]
                      ELSE <<>>

suite == INSTANCE Suite WITH
  phase <- Phase, plan <- Plan, limited <- Limited, listing <- opts.list_only,
  mayRefuse <- opts.to_file, decided <- Decided, answer <- verdict

ImplementsSuite == suite!Spec
================================================================================
