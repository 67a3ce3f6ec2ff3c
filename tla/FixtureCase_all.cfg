\* Every way through set_up, run_body and tear_down.
SPECIFICATION Spec
CONSTANTS
  MaxChecks = 4
  MaxNesting = 2
INVARIANTS
  TypeOK
  TornDownOnce
  LatestExceptionLeaves
  NothingIsForgotten
PROPERTIES
  IsABody
