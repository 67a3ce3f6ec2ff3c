# A formal model of edtf

This directory holds TLA+ specifications of the Embedded Device Test Framework
(`edtf`), the TLC configurations that check them on small instances, and proofs
about them that TLAPS checks. Paths below are those of the repository
(`src/runner.cpp`, `include/edtf/...`, `examples/...`).

## The system

`edtf` is a C++17 unit-test framework for host-side tests of embedded drivers.
Static initialisers put `TestCase`s into a `Registry`; `run_all` parses the
command line and calls `Runner::run`, which selects cases and gives each to
`run_one`; `run_one` starts a worker thread for the body and waits for it under
a deadline; assertions in the body count in a `CheckSink` found through a
thread-local pointer; results go to a `Reporter`. Three mocks stand in for
hardware, and an example driver for a TMP102 sensor runs on one of them.

### Components

| Component | State | Operations | Interacts with |
|---|---|---|---|
| Runner (`runner.cpp`, `runner.hpp`) | `opts_`, `results_`, `summary_`, the selected cases and the position in them | `run(err)`, `run(out, err)`, `selected`, `run_one` | reads the Registry, starts and waits for workers, calls the reporter in order |
| Worker thread (`runner.cpp:81-101`) | its thread-local sink; its `shared_ptr` to a `Shared` block (sink, outcome, detail, `done`, mutex, condition variable) | bind the sink, call the body, note an exception, unbind, set `done`, notify | shares the block with `run_one`; reads the `TestCase` in the Registry |
| Assertions (`assertions.hpp`) | `CheckSink`: passed, failed, failure text | `ASSERT_*`, `EXPECT_*`, `ADD_FAILURE`, `FAIL` | write the active sink; a fatal one throws `AssertionAbort`; `*_THROWS` catches whatever its statement throws |
| Reporters (`reporter.cpp`, `reporter.hpp`) | TAP: a point number; JUnit: the results so far | `begin_run`, `on_result`, `end_run` | called by the Runner |
| Registry and registration (`registry.cpp`, `registry.hpp`) | a static vector of `TestCase` | `add`, `cases`, `register_case`, `parse_tags` | filled before `main`, destroyed by `exit` |
| Fixtures (`registry.hpp:127-150`) | one fixture object per test | `set_up`, body, `tear_down` | run inside the worker |
| Command line (`runner.cpp:243-319`) | `RunOptions` | `parse_args` | feeds the Runner |
| `MockI2CBus` (`mock_hardware.hpp:97-217`) | devices, log, expectations, cursor | test side: `attach_device`, `set_register`, `expect_*`, `clear_log`, `verify`; driver side: `read_register`, `write_register` | shared by a test and its driver, on one thread |
| `MockRegisterBank`, `MockSerialPort` | registers, hooks, counters; byte buffers | reads, writes, backdoor access | likewise |
| TMP102 driver (`examples/temperature_sensor.hpp`) | none of its own | `read_celsius`, `trigger_one_shot`, `set_*_limit_celsius` | two bus accesses per call |

What is hard is the first two rows. A worker that exceeds its deadline is
detached and runs on, next to the workers of later tests, later runs, and the
process's exit. The condition variable races the deadline. The summary, the
result list and the reports are kept by different objects with different
lifetimes. On the mocks, the hard part is failure in the middle: an access that
throws between its own steps, or between the two accesses of one driver call.
`PROJECT.json` lists each of these under `hazards` at its line, with the
properties that cover it or the reason why none does yet.

### What makes each component correct

- Runner and workers: a result is what its own worker did; a timeout is one;
  blocks are neither used after they are freed nor kept for ever; every test
  with a deadline or an end is decided; a run answers TRUE exactly when all
  selected cases passed, each decided once, in registration order.
- Reporters: a finished report shows every result of its run once, in its place,
  under its own test and as its outcome is shown, with its detail behind it, and agrees in its
  totals with them and with the answer of `run`; an escaped text reads back as
  what was escaped; no line of a detail is lost; an unfinished report cannot be
  taken for a finished one.
- I2C mock: the script is followed in order; a refused access changes nothing;
  scripted reads return what they promise; a verified script is the traffic.
- Driver: a limit is stored whole and reads back; a temperature reads back;
  the register pairs do not disturb each other.
- Fixture: torn down exactly once after a completed `set_up`, whatever throws;
  the verdict is about the latest exception; no failed assertion and no
  exception is forgotten.
- Registry: `main` finds each declared case once, with its own tags and its own
  deadline, in whatever order the units were initialised.
- Command line: the options are the ones asked for; a command line with
  something wrong anywhere runs no test, and the exit code tells which it was.
- Register bank: an access takes effect and counts once, when it completes,
  whatever its hook does in the middle; one that fails has no effect.
- Serial port: no byte is lost, repeated or reordered.
- Texts: no line of a failure's message can be taken for one of the report's
  own; escaping can be undone; no tag is empty or cut.

## Modules

| Module | Models |
|---|---|
| `Worker` | worker threads and `Shared` blocks: one action per step of the lambda, for each invocation of `run_one` |
| `Reporters` | the three reporters as operators: the lines each call writes and the reporter after it |
| `Runner` | `Runner::run`, `run_one` and the end of the process; extends `Worker` and `Reporters` |
| `Suite` | what a Runner promises its caller: no threads, no deadlines, no reports |
| `RunnerProofs` | theorems about `Runner`: types, blocks, results, deadlines, the summary |
| `ReportProofs` | theorems about the reports of a `Runner` |
| `SuiteProofs` | that `Runner` implements `Suite` |
| `IntervalInduction` | induction and recursion over the numbers, for the proofs |
| `FixtureCase`, `FixtureProofs` | the lambda of `TEST_SUITE_F` with its hooks, `EDTF_CHECK_THROWS`, as a body of `Worker`; its theorems |
| `Text` | `parse_tags`, `indent`, `xml_escape`, character by character |
| `Registration` | the registration macros before `main`; extends `Text` |
| `Arguments` | `parse_args` and `run_all` |
| `StartupProofs` | theorems about the program up to its first test |
| `I2CBus` | `MockI2CBus` |
| `RegisterBank`, `RegisterFile` | `MockRegisterBank` with hooks; a register file with atomic accesses |
| `SerialPort`, `ByteStream` | `MockSerialPort`; a byte stream |
| `MockProofs` | theorems about the three mocks; that the bank implements a register file and the port a byte stream |
| `Conversion` | the driver's arithmetic |
| `TemperatureSensor` | the driver and `SensorFixture` on `I2CBus` |
| `MCRunner` | instances of `Runner` |
| `MCStartup` | `Registration`, then `Arguments`, as the program up to its first test; the texts |
| `MCMocks` | the three mocks |
| `MCTemperatureSensor`, `MCDriver` | the driver's instances; `MCDriver` adds the conversions |
| `DriverProofs` | theorems about the conversions and the driver |

A definition commented `Broken:` is not part of the model. It is a variant of
the definition after it, with the kind of mistake the code could have; put in
its place, it makes the property it is paired with in `PROJECT.json`
(`mutants`) fail.

### State and actions against the code

*Worker.* An invocation is one call of `run_one`, numbered from 1; there is one
worker and one block per invocation. `wpc` is the worker's place in the lambda.
The booleans of the blocks are sets of invocations (`done`, `held` for the
mutex when the runner has it, `waiting` for a runner blocked in `cv`). `refs`
is the set of holders behind the block's `shared_ptr` count. The worker's
critical section (`:96-99`) is one action, `SetDone`, enabled when the runner
does not hold the mutex; the runner's, in which it can block, is several.
`BindSink`, `CallBody`, `Assertion`, `LeaveBody`, `Unbind`, `SetDone` and
`Notify` are the lambda in order. A body is any sequence of assertions that
ends in any way or never; a failed fatal assertion allows it to end by an abort
and does not force it to, as `EXPECT_THROWS` or a handler may stop the abort on
its way. `asserted`, `thrown` and `inTime` are
histories: what the body did whatever sink it wrote to, how it ended, and
whether `done` was set before the deadline.

*Runner.* `main` is where the calling thread is. `CallRun` and `SelectNext` are
`run()` up to the filter, `ListSelected` or `BeginRun` what follows it; `Spawn`
is `run_one` up to the thread's constructor and `SpawnFails` the constructor
throwing. `Lock` ... `SpuriousWakeUp` are `wait_for` and `wait` with a
predicate, as the standard defines them: check under the lock, block (releasing
the lock and joining the waiters in one step), relock, check again; a deadline
that has passed ends the wait only after one more check. `ReturnTimeout` and
`ReturnJoined` are the two ends of `run_one` with the body of `run()`'s loop
after it: the result appended, the reporter told, the count made.
`ReturnFromMain`, `DestroyRegistry`, `ProcessEnds` and `FaultOnDestroyedCase`
are the exit; calling a destroyed `std::function` is undefined, so the model
lets it either work or fault. `HelperAsserts` is an assertion in a thread that
the body of a case in `Threaded` has started: `active_sink()` is thread-local
and null there, so the process dies, perhaps in the middle of the report of a
later run.

*Reporters.* A line is a record of what a reader of the report takes from it:
the test, the outcome (or what the format makes of it), the number, the detail.

*Suite.* `Runner!suite` maps `main` to `phase`, the filtered registry to
`plan`, the results since the run began to `decided`, the verdict to `answer`.

*FixtureCase.* `at` is the user code that runs: the constructor, `set_up`,
`run_body`, `tear_down` after it, or `tear_down` in the `catch` ("handler").
User code may evaluate an assertion (`Check`), throw (`Throw`), enter and leave
the statement of an `EDTF_CHECK_THROWS` (`BeginStatement`, `EndStatement`,
`StatementThrows`, with `guards` the stack of those), return (`HookReturns`) or
let an exception out (`HookThrows`). `escaped`, `ran` and `wrong` are histories.
`IsABody` maps it to one worker of `Worker` and says that each of its steps is a
`BodyStep` there (or changes nothing `Worker` has): what is checked and proved
of the Runner with arbitrary bodies therefore covers fixtures.

*Registration.* `declared` is the source: for each unit the option chains of its
macros. `BuildOptions` initialises an `edtf_opts_` constant, `RegisterCase` the
`edtf_reg_` constant after it. The steps of the units interleave, which
includes every order of whole units that a linker may choose. A chain's
`timeout_ms_` may be negative, as a `long long` may.

*Arguments.* An action is one turn of the loop of `parse_args`, by what
`argv[i]` is. `RunTests` and `Exit` are the two ends of `run_all`. The property
compares the options with a definition that has no loop: which arguments are
options and which are values is a recursive function on positions (`Option`),
and what they ask for is said of the places of the options (`AskedFor`).

*I2CBus.* A method is one action, or one per outcome: `NoDevice` (no such
device), `Refuse` (the script does not allow it), `Perform`. `strayed` and
`backdoor` are histories that the properties need: whether a driver access was
ever refused, and which registers the test set after the driver used them.

*RegisterBank.* `Begin` is `read` or `write` up to its hook, or to its end
when no hook is set; `frames` is the stack of accesses whose hooks run.
`HookReturns` is the rest of the innermost access; `HookThrows`, `Unwind` and
`Catch` take an exception through any number of them. Every call but the first
is made by the hook on top of the stack. `RegisterFile` has none of this: one
step per completed access. The steps are told apart by their outcome: a backdoor
access, a write with the word it stored, a read with the word it returned, an
access that threw. A failed access therefore cannot pass for a backdoor one, and
a write stores what was written or what the hook made of it.

*SerialPort.* A method is one action. `call` and `result` are the latest call
and what it returned, which `ByteStream` relates. A `char` is a number from
-128 to 127, its conversion to `uint8_t` is `% 256`.

*TemperatureSensor.* A method is its two bus accesses with the byte it carries
from one to the other; an access that throws ends the method. A temperature is
in hundredths of a degree, so `static_cast<int>(celsius / 0.0625)` is integer
division toward zero by 100/16; dividing by a power of two is exact in binary
floating point, and a value that is a whole number of counts is a multiple of
0.25 when it is written with two decimals and hence exact too.

## Runs

| Run | Asks | Result | Distinct states |
|---|---|---|---|
| `run` | one run, seven option sets, two tests, death at any moment: types, the inductive invariant, no use after free, faithful results, justified timeouts, reports that show each result in its place, reports cut short that look it, `Suite` | holds | 1 055 138 |
| `repeat` | two runs of one Runner, three invocations, or two listings: summary against results, faithful results, honest reports, the inductive invariants of the proofs about reports and `Suite` | holds | 605 617 |
| `live` | fair scheduling: every test with a deadline or an end is decided, every block of a test that ends is freed | holds | 90 000 |
| `destroyed` | the worker's state outlives it | violated | |
| `fixture` | every way through a fixture: torn down once, latest exception, nothing forgotten, a body of `Worker` | holds | 6 965 |
| `abort` | a fatal failure ends the body | violated | |
| `startup` | every order of initialisation, every command line of four arguments, every short text; the invariants of registration and of `parse_args`'s loop | holds | 920 256 |
| `mocks` | each mock under every order of calls: types, order of the script, log against devices, the two abstract specifications | holds | 603 584 |
| `reads` | a scripted read returns what it promises | violated | |
| `exact` | a verified script is the traffic | violated | |
| `driver` | the driver's calls in any order, scripted or not: limits and temperatures read back; the arithmetic against reference definitions | holds | 427 602 |
| `separate` | the register pairs do not overlap | violated | |

Three runs put several questions into one state space. `startup` composes two
parts that follow each other in the program, and varies one of its three inputs
at a time (`MCStartup!Init`), since neither part reads the other's state.
`mocks` lets a test use one of the mocks: they share nothing. In `driver` the
calls happen in the states where no conversion is being tried.

The five violated properties are statements of comments and of the session
file; `PROJECT.json` quotes them under `findings`:

- `destroyed`: the comment at `runner.cpp:64-68` says that all state the worker
  touches is in its block; the `TestCase` is captured by reference. TLC's
  trace: the deadline passes before the worker reaches `tc.body()`, the run
  ends, `main` returns, the registry is destroyed, the worker calls the body.
- `reads`: `expect_read` seeds the device when the expectation is queued, so of
  two expected reads of one register both return the second value. (The run
  uses `ScriptedSpec`, in which the test does not set registers behind its own
  script's back.)
- `exact`: `verify()` cannot see an access that was refused. It matters for a
  driver that catches bus errors, to retry for example; one that lets
  `HardwareError` through turns its test into an ERROR.
- `separate`: the driver treats the byte after a register as its low byte, while
  the register map puts the next register there. Each call of one setter
  overwrites the high byte of T_HIGH or the low byte of T_LOW, and
  `trigger_one_shot` the low byte of TEMP. `LatestLimitReadsBack` (the registers
  of the limit set last hold the bytes of it the bus took, and otherwise what
  they held before the call) and `ReadingIsWhatWasLoaded` are what does hold.
- `abort`: `EDTF_CHECK_THROWS` evaluates its statement under `catch (...)`, so
  the `AssertionAbort` of a fatal assertion in it does not end the test. In the
  trace the body of the test is in the statement of an `EXPECT_THROWS` that
  expects a `std::exception`, an assertion fails fatally, and the body goes on
  behind the statement; `Unwinding` leaves out the bodies whose author named
  `AssertionAbort` as the type expected. The failure itself is not lost:
  `NothingIsForgotten` holds.

### Bounds

- Two tests, `hung` with a deadline and `quick` without or with the default
  one, are the least number for which a timed-out worker meets a later test;
  the body of either may do anything, `hung` and `quick` differ in deadline,
  tag and fairness only. Three invocations and two runs (`repeat`) let the
  worker of a first run meet the second; a run that would need a fourth
  stops at `Spawn`'s bound in `Invocations` (only `SpawnFails` and the other
  threads go on), which cuts behaviours off and adds none.
- `MaxChecks` 2 lets a body pass one assertion and fail another; 1 suffices
  where the counts are not the question.
- `MCOptions` has each format, with a default deadline or a negative one (which
  the code treats as none), tags included and excluded, a name filter, a
  listing, an output file. In `repeat` the negative timeout is the test's own.
- `Threaded` is `hung`, whose worker may be attached, detached or over when one
  of its threads asserts.
- `MaxChecks` 4 and `MaxNesting` 2 in `fixture`: a failure in each of two nested
  `EXPECT_THROWS`, in the body and in `tear_down`. A guard reserves the
  assertion it will itself evaluate, so that the bound never traps it.
- Two units of up to two cases, with five option chains: nothing, each option,
  both, one twice (its second timeout negative). Two cases of a unit are needed to mix their options up, two
  units to interleave.
- `MaxArgs` 4 over all spellings of the options and three words: two options
  with values, or values that are options' spellings followed by either.
  `MaxTags`, `MaxLines` 6 and `MaxMarkup` 5 hold two separators in a row at
  each place, two empty lines, an entity typed by the user.
- `MaxScript` 2 on two addresses and two values lets a script be followed,
  deviated from, exhausted and cleared; with `MaxLog` 2 (3 in the violated runs)
  the properties relate at most two entries of either. `MaxLog` 6 is three calls
  of the driver; a limit, another limit and a reading already show every overlap
  of register pairs.
- `MaxCalls` 4 and `MaxDepth` 2: a hook that accesses the bank under a hook that
  does, with an access after it. The value 2 of `Words` is one no register
  starts with and no counter is confused with.
- `MaxRx` 3, `MaxTx` 2, `MaxAsked` 4: a read of less than, exactly and more than
  what is there, an injection between two reads; 255 is the byte -1 must not
  become.
- `Span` goes beyond both ends of the representable range.

### Fairness

`FairSpec` assumes weak fairness of the runner's own progress (its thread is
scheduled), of the passing of a deadline once the wait for it has begun (the
clock runs), and of each framework step of each worker. `SetDone` gets strong
fairness: `SpuriousWakeUp` may make the runner lock and unlock the mutex over
and over, and a mutex that becomes free again and again is assumed not to be
withheld from the worker for ever. Nothing is assumed of a body, except that
the bodies in `Halting` end; no fairness makes `CallRun`, `SpawnFails`,
`OpenFails`, a spurious wakeup or the exit happen. `main = "gone"` is an
alternative in both liveness properties: a process that ends takes its threads
with it.

Deadlock is checked in every run. `Gone` lets a process that has ended stutter;
every other state must have a step.

## Proofs

The theorems hold for every registry, tags, deadlines, option set, set of
invocations, bound on checks and number of runs that satisfy the named
assumptions `WorkerAssumption` and `RunnerAssumption`, and likewise for
`FixtureAssumption`, `RegistrationAssumption`, `ArgumentsAssumption`,
`BusAssumption`, `BankAssumption`, `SerialAssumption` and `SensorAssumption`:
the bounds are arbitrary numbers there, so that no bound of a run matters. TLC evaluates the assumptions in each run. The driver's says that
bytes are bytes and that what the test loads as a temperature is one the sensor
can have (`raw12` in `SensorFixture::load_temperature` takes 12 bits), which a
limit need not be. `MCDriver`'s two inputs are any integer and any 16-bit word.
A text of `MCStartup` is any sequence over any set of characters.

| Theorem | States |
|---|---|
| `TypingHolds` | types, and `Control` |
| `TypeCorrect` (`RunnerProofs`) | `TypeOK` |
| `BlocksAreHeld` | `NoUseAfterFree` |
| `ResultsAreFaithful` | `ResultsFaithful` |
| `TimeoutsAreJustified` | `TimeoutsJustified` |
| `InvariantHolds` | `IInv`, the inductive invariant of `Runner` |
| `SummaryCountsTheLatestRun` | `SummaryMatchesResults` |
| `WrittenHolds` | `Written`: what the reporters have written of each result so far |
| `ReportsStayOpen` | `ListsOnly` and `Undecided` |
| `CutShortLooksIt` | `CutShortIsVisible` |
| `ReportsAreHonest` | `ReportHonest` |
| `ReportInvariant` | `ReportInv`, the four together |
| `PlanIsFollowed` | `PlanInv` |
| `RunnerImplementsSuite` | `ImplementsSuite` |
| `TypeCorrect` (`FixtureProofs`) | `TypeOK` |
| `InvHolds` | the inductive invariant of `FixtureCase` |
| `EverySetUpIsTornDown` | `TornDownOnce` |
| `LatestExceptionIsReported` | `LatestExceptionLeaves` |
| `NothingForgotten` | `NothingIsForgotten` |
| `FixtureCaseIsABody` | `IsABody` |
| `RegistryInvariant` | `RegistrySoFar` |
| `RegistersWhatIsDeclared` | `RegistryIsWhatWasDeclared` |
| `TagsAreRuns` | `TagsAreMaximalRuns` |
| `LinesIndented` | `LinesStayIndented` |
| `EscapesAreReversible` | `EscapeIsReversible` |
| `LoopInvariant` | `LoopInv` |
| `RunsWhatWasAskedFor` | `TheRunIsTheOneAskedFor` |
| `FirstProblemDecides` | `ExitCodeTellsWhy` |
| `BusTypeCorrect` | `BusTypeOK` |
| `TrafficInOrder` | `InOrder` |
| `LogIsTheHistory` | `LogExplainsDevices` |
| `BankTypeCorrect` | `BankTypeOK` |
| `BankImplementsRegisterFile` | `ImplementsRegisterFile` |
| `PortTypeCorrect` | `PortTypeOK` |
| `PortImplementsStream` | `ImplementsStream` |
| `LimitsRoundTrip` | `LimitRoundTrips` |
| `DecodesTwosComplement` | `DecodeIsTwosComplement` |
| `LimitReadsBack` | `LatestLimitReadsBack` |
| `ReadsWhatWasLoaded` | `ReadingIsWhatWasLoaded` |

None of `Runner`'s safety properties is inductive. `IInv` is: `TypeOK` and

- `Control`: run_one is on the next selected case with the next invocation, and
  no later invocation exists. It is what makes `cur` name a live block.
- `Blocks`: a worker that is not over holds its block, and so does a runner in
  `run_one`. `NoUseAfterFree` follows, but is not inductive itself, as a
  non-empty `refs` does not say whose reference is left.
- `Sinks`: a bound worker is bound to its own block, and the counts in a block
  are those of its own body.
- `Ends`: the outcome and detail in the block tell how the body ended, and an
  abort implies a failure.
- `Deadlines`: what expired had a deadline, and whoever set `done` in time is
  never given up on, as the runner checks `done` after the expiry it acts on.
- `ResultsFaithful` of the results already there: their workers are finished
  and change nothing any more.

The proofs group the disjuncts of `Next` (`Elsewhere`, `Waits`, `Spawn`,
`Work`, the two returns) by what they touch, and prove one lemma per conjunct
over these groups (`TypeStep`, `ControlStep`, `BlocksStep`, `SinksStep`,
`EndsStep`, `DeadlinesStep`, `ResultsFaithfulStep`). The run `run` checks
`IInv` as an invariant too. `SummaryMatchesResults` is inductive with `pos` not
larger than the number of results: a result returned adds one element to one of
four finite sets.

*Reports.* `ReportHonest` says of a finished report that it shows the results of
its run, each once and in order: the k-th result line, point or testcase has the
test of the k-th result and what goes with its outcome, a bad result is explained
on the line behind its own (console, TAP), and plan, totals, counts and answer
agree with those lines. What makes it true is what has been written before, and
`Written` says it of the report so far: it opens with the plan of the selected
cases, has one such line for each recorded result of the run (in JUnit: the
reporter holds exactly those results, and has written nothing), and as many of
each outcome as `summary_` counts. Which result a line is about is its number
among the lines of its kind (`Nth`); every call of a reporter is a lemma about
the places of those lines (`Among`), how they grow when a line and its details
are appended (`OneMore`), and what that does to the numbers (`NthAfter`: the new
line is the last, the others keep theirs). A result returned is the last of the
run and moves none of the others (`ResultsGrow`). `Written` is an invariant of
the run in progress; `ReportHonest` follows from it and the totals at the step
that ends the run, and nothing writes after that until the next run.
`CutShortIsVisible` needs more, as the process may die in states that are not
within a run: `ListsOnly` (a listing starts no worker, so nothing kills it) and
`Undecided` (as long as a selected case is undecided the report is open), which
are inductive given `Written`. Run `repeat` checks all of it as `ReportInv`.

*Suite.* The refinement maps the walk over the registry to a stutter, `BeginRun`
to the choice of a plan, each return of `run_one` to a decision, the end of the
run to the answer, and all of worker, waiting and reporting to stutters.
`Suite`'s plan is what the options admit in the whole registry, while `selected`
grows case by case; `PlanInv` closes that gap with `Admitted(o)[n]`, the cases
admitted among the first `n`: it is `selected` during the walk, and equal to the
plan when the walk is over. It also says that the last `pos` results are about
the first `pos` selected cases, in order. That a TIMEOUT is a decision only of a
case with a deadline is `Deadlines`; that the answer is about exactly the run's
decisions is `Counted`.

`Admitted` is a recursive function. The library's induction theorems take a
predicate and are beyond the provers here; `IntervalInduction` proves induction
for sets of numbers instead (`Least`, `Induction`: a set that holds 0 and is
closed under successor holds every number, from the well-foundedness of `<`),
and from it that such a function exists and satisfies its equation
(`Recursion`).

*Registration.* `RegistrySoFar`, with types, is inductive (`Registering`): the
constants built so far are the options their own chains ask for, at most one of
a unit is ahead of its registrations, and the registry is the first cases of
each unit. Its second step is that a case appended counts for its own unit and
no other (`OneMoreCase`). What a chain asks for is its last call of each kind
(`LastCallsCount`), by induction along the chain.

*Texts.* `parse_tags`, a chain of options, and the readers of lines and of
references are folds. `FoldExists` and `FoldRepeats` show that the community
module's fold is the recursion that takes one element after the other
(`FlattenSeq` likewise, in `Flattening`); each property is then an invariant of
that recursion, proved by `Induction` on the number of characters. For the tags
(`ScannedTo`) it says that the scanner holds the run that began last, and that
the tags so far are the runs that have ended. For the lines, that after the
pieces of `indent` the reader holds the lines behind their prefixes, the last one
still open. For the escapes, that after the entities and characters written for
the first characters of a text the reader has read those characters and is
within no reference (`WrittenRead`); that an entity is letters between an
ampersand and a semicolon (`EntitySpelling`), and no other character's
(`Injective`), is all it needs to know of the five spellings.

*Command line.* `LoopInv` says at every turn of the loop that `i` is at an
option, that nothing before it is a problem, and that `RunOptions` is
`AskedFor(argv, i)`, what the arguments before `i` ask for. That `i` is at an
option is what keeps a value from being taken for an option and an option for a
value: `Option` alternates as the loop does (`OptionSteps`, `AfterAValue`,
`AfterASwitch`). The rest is that one more option changes the field it is about
and no other (`AskedValue`, `AskedSwitch`, from `LatestValue`, `MoreValues`,
`MoreSwitches`), and that the loop is left exactly at a problem. At the end of
`argv`, `AskedFor(argv, i)` is about all of it; at a problem, nothing before it
is one, so it is the first.

`FixtureCase`: `Inv` says for each value of `at` which hooks have run and which
exceptions have left them (`Progress`), that what went wrong so far is in the
sink or among those exceptions, and an abort after a failure (`Recall`), and that
the guards still have room for their own assertions (`Budget`). The three properties are its instances at
`at = "out"`; `IsABody` needs `Recall` for the guard on aborts.

`I2CBus`: `BusTypeOK /\ InOrder` is inductive: `Perform` is the only step that
moves the cursor and the only one that appends to the log, and expectations are
only ever appended. For `LogExplainsDevices` the steps fall into three kinds:
those of the test behind the log's back (`Behind`), an access, which appends the
entry that explains its register (`Effect`), and those that touch neither.

The two refinements are step simulations under the type invariants. Of the
serial port, the lemmas are about what is left of a buffer behind a position
(`RestGrows`, `RestSplits`); a call of the bank maps to a step of `RegisterFile`
exactly when it completes and to a stutter until then.

*Driver.* The arithmetic is linear once `Hi` and `Lo` are known to take a word
apart (`Bytewise`): a count in range, shifted to the left of a word, keeps its
sign (`TwelveBits`). `SensorInv` is `Typed`; `Carried`, what a method knows
between its two accesses (in `read_celsius` the byte it has read is still that
of the register, in `write_limit` the first register has the high byte);
`LoadedStays` and `LimitStays`, what the registers of the temperature and of the
latest limit hold until something is written to them (of the limit: what the bus
has `accepted` of it, and the bytes from `before` the call otherwise); and
`ReadingIsWhatWasLoaded`. A script queued by the test may itself set registers
(`expect_read` seeds them); `loaded` and `latest` are histories of what the test
and the driver asked for, and such a script ends what they say of a register
pair it touches (`Seeds`).

SMT encodes `Len` by an equivalence that holds of sequences only: of a function
that is no sequence, such as one on `0..n`, it could prove too much. Where such
functions occur (`Admitted`), the steps keep `Len` out, or go to Zenon. Every
SMT obligation that mentions `Len` has also been proved with an encoding in
which `Len` is constrained on sequences only.

Model-checked only:

- the two liveness properties: liveness under fairness is out of the prover's
  reach;
- the five violated properties, where a counterexample is all there is to show.

## Not modelled

- Durations, colours and wording; what is compared by an assertion and how its
  operands are put into words; `describe` and `hex2`.
- Errors of writing to a report's file, and which part of a buffered report
  survives a crash: the model's `out` is what was given to the stream. The
  destruction of the standard streams at exit.
- The conversion to `int` of a limit of more than 2^31 counts, which is undefined
  and comes before the range is checked (`temperature_sensor.hpp:71-72`); the
  model's conversion is exact. What `--timeout` should make of a value that is no
  number: the model has `atoll`'s 0 and no document says otherwise.
- Characters that XML 1.0 excludes, which `xml_escape` copies.
- A case registered while the tests run: the macros act at static initialisation
  only, and nothing else calls `Registry::add`.
- User code that throws an `AssertionAbort` without a failed assertion, a
  fixture whose destructor throws or checks anything, a hook of the register
  bank that replaces itself or recurses without end, and
  `port.write(port.tx_data())`, which inserts a vector into itself.
- `TEST_SUITE_F` with one case name in two fixtures of a unit does not compile;
  the comment that calls the option `.timeout_ms(250)` (`registry.hpp:78`) names
  the method `timeout_ms_`. Neither has a behaviour to model.
- The self-tests (`tests/framework_tests.cpp`), read for what they expect, and
  the build files.

Two things a user may trip over are in the model and are no disagreement with a
document: a `set_up` that throws skips `tear_down` (`README.md:43`), and the
last `.tags()` of a chain replaces the earlier ones. As the order of units is
open, so is the order of their tests in a report.

## Plan

Done, in this order: `Worker`, `Reporters`, `Runner` with `Suite` (the core) and
their proofs; `I2CBus` with its proofs; `Conversion` and `TemperatureSensor`
composed with it; `FixtureCase` as a body of `Worker`; `SerialPort` and
`RegisterBank` with the specifications they implement; `Text`, `Registration`
and `Arguments`; proofs for all of these that are within reach.

Then proofs of the properties of reports, of the step simulation of `Runner` ⇒
`Suite`, of the driver's invariants, and of the command line.

Then `RegistryIsWhatWasDeclared` and the three properties of `Text`, by
`Induction`; with them every safety property that a run checks and finds to hold
is a theorem.

What is left needs more of the code rather than more of the prover: the errors
of a report's file (`runner.cpp:152`), and what `static_cast<int>` makes of a
limit beyond `int` (`temperature_sensor.hpp:71`), both under *Not modelled*.
