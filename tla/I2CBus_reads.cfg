\* A later expectation overwrites what an earlier one seeded.
SPECIFICATION ScriptedSpec
CONSTANTS
  Addresses = {72, 73}
  Registers = {0}
  Bytes = {0, 1}
  MaxScript = 2
  MaxLog = 3
INVARIANTS
  ReadsReturnTheScript
