\* Each call of the driver overwrites a byte of its neighbour.
SPECIFICATION Spec
CONSTANTS
  Addresses = {72}
  Registers = {0, 1, 2, 3, 4}
  Bytes <- MCBytes
  MaxScript = 2
  MaxLog = 6
  Sensor = 72
  Limits <- MCLimits
  Samples <- MCSamples
  ScriptLines <- MCScriptLines
INVARIANTS
  RegistersAreSeparate
