-------------------------- MODULE MCTemperatureSensor --------------------------
(* Small instances of TemperatureSensor for TLC. *)
EXTENDS TemperatureSensor

MCBytes == 0 .. 255

(* -0.07 and 80 degrees, and one that no count represents. *)
MCLimits == {-7, 8000, 12800}

(* 25 and -10 degrees: the temperatures of example_suite.cpp. *)
MCSamples == {400, -160}

(* The script of tmp102_session.txt:24-32. *)
MCScriptLines ==
  {Transaction("Read", Sensor, kRegConfig, 96),
   Transaction("Write", Sensor, kRegConfig, 225),
   Transaction("Write", Sensor, kRegTHigh, 80),
   Transaction("Write", Sensor, kRegTHigh + 1, 0)}
================================================================================
