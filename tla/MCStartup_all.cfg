\* Two files of up to two cases in every order of static initialisation; every
\* command line of up to four arguments; every short text.
SPECIFICATION Spec
CONSTANTS
  Units = {core, drivers}
  MaxCases = 2
  Words = {"tap", "junit", "50"}
  MaxArgs = 4
  MaxTags = 6
  MaxLines = 6
  MaxMarkup = 5
CONSTANT Chains <- MCChains
CONSTANT atoll <- MCAtoll
INVARIANTS
  RegistryIsWhatWasDeclared
  RegistrySoFar
  TheRunIsTheOneAskedFor
  ExitCodeTellsWhy
  LoopInv
  TagsAreMaximalRuns
  LinesStayIndented
  EscapeIsReversible
