\* Two runs of one Runner, the workers of earlier runs still running.
SPECIFICATION Spec
CONSTANTS
  hung = hung
  quick = quick
  Slow = Slow
  NoCase = NoCase
  TestCases = {hung, quick}
  cases <- MCCases
  timeout <- MCRepeatTimeout
  tags <- MCTags
  Options <- MCRepeatOptions
  Halting = {quick}
  Threaded = {}
  Invocations = {1, 2, 3}
  MaxRuns = 2
  MaxChecks = 1
INVARIANTS
  SummaryMatchesResults
  ResultsFaithful
  ReportHonest
  ReportInv
  PlanInv
