\* Every test with a deadline or an end is decided, and its block freed.
SPECIFICATION FairSpec
CONSTANTS
  hung = hung
  quick = quick
  Slow = Slow
  NoCase = NoCase
  TestCases = {hung, quick}
  cases <- MCCases
  timeout <- MCTimeout
  tags <- MCTags
  Options <- MCLiveOptions
  Halting = {quick}
  Threaded = {}
  Invocations = {1, 2}
  MaxRuns = 1
  MaxChecks = 1
PROPERTIES
  EveryTestIsDecided
  BlocksAreFreed
