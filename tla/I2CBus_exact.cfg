\* A refused access leaves no trace in verify().
SPECIFICATION BusSpec
CONSTANTS
  Addresses = {72, 73}
  Registers = {0}
  Bytes = {0, 1}
  MaxScript = 2
  MaxLog = 3
INVARIANTS
  VerifiedMeansExact
