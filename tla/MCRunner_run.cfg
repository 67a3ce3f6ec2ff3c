\* One run, every format: what is reported about the tests is true, and a process
\* that dies leaves no report that looks finished.
SPECIFICATION Spec
CONSTANTS
  hung = hung
  quick = quick
  Slow = Slow
  NoCase = NoCase
  TestCases = {hung, quick}
  cases <- MCCases
  timeout <- MCTimeout
  tags <- MCTags
  Options <- MCOptions
  Halting = {quick}
  Threaded = {hung}
  Invocations = {1, 2}
  MaxRuns = 1
  MaxChecks = 2
INVARIANTS
  TypeOK
  IInv
  NoUseAfterFree
  ResultsFaithful
  TimeoutsJustified
  ReportHonest
  CutShortIsVisible
PROPERTIES
  ImplementsSuite
