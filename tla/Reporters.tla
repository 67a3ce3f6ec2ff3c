------------------------------- MODULE Reporters -------------------------------
(***************************************************************************)
(* The three implementations of edtf::Reporter (src/src/reporter.cpp) as   *)
(* operators on a reporter object: the lines each call writes, and the     *)
(* object after the call.  A line is a record that keeps what a consumer   *)
(* of the report reads (which test, ok or not, counts) and drops wording,  *)
(* colours, durations and escaping.                                        *)
(***************************************************************************)
EXTENDS Naturals, Sequences

Formats  == {"Console", "Tap", "Junit"}
Outcomes == {"Passed", "Failed", "Timeout", "Error"}

(* RunSummary: what begins as RunSummary{} with its total, is counted once *)
(* per result, and is asked for not_passed() at the end.                   *)
NewSummary(total) ==
  [total |-> total, passed |-> 0, failed |-> 0, timed_out |-> 0, errored |-> 0]

Count(s, outcome) ==
  CASE outcome = "Passed"  -> [s EXCEPT !.passed = @ + 1]
    [] outcome = "Failed"  -> [s EXCEPT !.failed = @ + 1]
    [] outcome = "Timeout" -> [s EXCEPT !.timed_out = @ + 1]
    [] outcome = "Error"   -> [s EXCEPT !.errored = @ + 1]

(* Broken: a timeout does not count against the run. *)
NotPassedButTimeouts(s) == s.failed + s.errored

NotPassed(s) == s.failed + s.timed_out + s.errored

(* TestResult::ok() *)
Ok(r) == r.outcome = "Passed"

(* make_*_reporter: TAP numbers its points with index_, JUnit keeps every  *)
(* result in results_ and writes nothing before end_run.                   *)
NewReporter(format) == [format |-> format, index |-> 0, held |-> <<>>]

BeginLines(rep, total) ==
  CASE rep.format = "Console" -> <<[line |-> "running", total |-> total]>>
    [] rep.format = "Tap"     -> <<[line |-> "plan", total |-> total]>>
    [] rep.format = "Junit"   -> <<>>

AfterResult(rep, r) ==
  CASE rep.format = "Console" -> rep
    [] rep.format = "Tap"     -> [rep EXCEPT !.index = @ + 1]
    [] rep.format = "Junit"   -> [rep EXCEPT !.held = Append(@, r)]

(* The indented detail under a result that is not ok. *)
DetailLines(r) ==
  IF ~Ok(r) /\ r.detail # "" THEN <<[line |-> "detail", detail |-> r.detail]>>
                             ELSE <<>>

ResultLines(rep, r) ==
  CASE rep.format = "Console" ->
         <<[line |-> "result", test |-> r.test, outcome |-> r.outcome]>>
           \o DetailLines(r)
    [] rep.format = "Tap" ->
         <<[line |-> "point", test |-> r.test, ok |-> Ok(r),
            index |-> rep.index + 1, timeout |-> r.outcome = "Timeout"]>>
           \o DetailLines(r)
    [] rep.format = "Junit" -> <<>>

(* The child element of a <testcase>. *)
Child(r) ==
  CASE Ok(r)                 -> "none"
    [] r.outcome = "Failed"  -> "failure"
    [] r.outcome = "Timeout" -> "error:timeout"
    [] OTHER                 -> "error:exception"

(* Broken: JUnit counts only exceptions as errors. *)
EndLinesWithoutTimeouts(rep, s) ==
  CASE rep.format = "Console" -> <<[line |-> "summary", counts |-> s]>>
    [] rep.format = "Tap" ->
         <<[line |-> "comment", passed |-> s.passed, total |-> s.total]>>
    [] rep.format = "Junit" ->
         <<[line |-> "testsuites", tests |-> s.total, failures |-> s.failed,
            errors |-> s.errored]>>
           \o [i \in DOMAIN rep.held |->
                 [line |-> "testcase", test |-> rep.held[i].test,
                  child |-> Child(rep.held[i])]]
           \o <<[line |-> "end"]>>

EndLines(rep, s) ==
  CASE rep.format = "Console" -> <<[line |-> "summary", counts |-> s]>>
    [] rep.format = "Tap" ->
         <<[line |-> "comment", passed |-> s.passed, total |-> s.total]>>
    [] rep.format = "Junit" ->
         <<[line |-> "testsuites", tests |-> s.total, failures |-> s.failed,
            errors |-> s.errored + s.timed_out]>>
           \o [i \in DOMAIN rep.held |->
                 [line |-> "testcase", test |-> rep.held[i].test,
                  child |-> Child(rep.held[i])]]
           \o <<[line |-> "end"]>>
================================================================================
