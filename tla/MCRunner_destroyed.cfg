\* A detached worker may call the body of a test the exit destroyed.
SPECIFICATION Spec
CONSTANTS
  hung = hung
  quick = quick
  Slow = Slow
  NoCase = NoCase
  TestCases = {hung, quick}
  cases <- MCCases
  timeout <- MCTimeout
  tags <- MCTags
  Options <- MCPlainOptions
  Halting = {quick}
  Threaded = {}
  Invocations = {1, 2}
  MaxRuns = 1
  MaxChecks = 1
PROPERTIES
  CasesOutliveWorkers
