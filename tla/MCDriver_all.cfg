\* Calls of the driver in any order, scripted or not; every temperature between
\* -131 and 131 degrees and every 16-bit word converted.
SPECIFICATION MCSpec
CONSTANTS
  Addresses = {72}
  Registers = {0, 1, 2, 3, 4}
  Bytes <- MCBytes
  MaxScript = 2
  MaxLog = 6
  Sensor = 72
  Limits <- MCLimits
  Samples <- MCSamples
  ScriptLines <- MCScriptLines
  Span = 13100
INVARIANTS
  LatestLimitReadsBack
  ReadingIsWhatWasLoaded
  LimitRoundTrips
  DecodeIsTwosComplement
