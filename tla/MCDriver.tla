-------------------------------- MODULE MCDriver --------------------------------
(* The driver for TLC: its calls in any order, and its conversions against *)
(* reference definitions, one input per state.                             *)
EXTENDS MCTemperatureSensor

CONSTANT Span   \* bound: temperatures tried, in hundredths, either way from 0

VARIABLES celsius, word   \* an argument of write_limit, a word read back

NoInput == celsius = 0 /\ word = 0

MCInit ==
  /\ Init
  /\ \/ celsius \in -Span .. Span /\ word = 0
     \/ celsius = 0 /\ word \in Word

(* The driver is called where no input is being tried. *)
MCNext ==
  /\ \/ NoInput /\ Next
     \/ ~NoInput /\ UNCHANGED vars
  /\ UNCHANGED <<celsius, word>>

MCSpec == MCInit /\ [][MCNext]_<<vars, celsius, word>>

Magnitude(n) == IF n >= 0 THEN n ELSE -n

(* A limit that is accepted is stored as a temperature less than one LSB   *)
(* nearer to zero, and decodes to it; one that is refused really lies      *)
(* outside -128 .. 127.9375 degrees (temperature_sensor.hpp:70-79).        *)
LimitRoundTrips ==
  LET counts == Counts(celsius)
      raw == Raw(counts)
  IN  IF Representable(counts)
      THEN /\ Hi(raw) \in Byte /\ Lo(raw) \in Byte
           /\ Decode(Hi(raw), Lo(raw)) = counts
           /\ Magnitude(counts) * 100 <= Magnitude(celsius) * 16
           /\ Magnitude(celsius) * 16 < (Magnitude(counts) + 1) * 100
           /\ counts * celsius >= 0
      ELSE celsius * 16 < -2048 * 100 \/ celsius * 16 > 2047 * 100

(* Shifting the signed word right is the decoding of a left-justified      *)
(* 12-bit two's complement number (temperature_sensor.hpp:45-50).          *)
DecodeIsTwosComplement ==
  LET bits == word \div 16 IN
    Decode(Hi(word), Lo(word)) = IF bits >= 2048 THEN bits - 4096 ELSE bits
================================================================================
