------------------------------- MODULE Conversion -------------------------------
(***************************************************************************)
(* The arithmetic of TemperatureSensor (src/examples/temperature_sensor.   *)
(* hpp).  A temperature is an integer number of hundredths of a degree, a  *)
(* count is 0.0625 degrees, and a register pair is a 16-bit word.  The     *)
(* temperatures are those whose count is an int: beyond them the           *)
(* conversion of :71 is undefined, before the range check of :72.          *)
(***************************************************************************)
EXTENDS Integers

Byte == 0 .. 255
Word == 0 .. 65535

(* Broken: rounds down. *)
CountsRoundedDown(celsius) == (celsius * 16) \div 100

(* static_cast<int>(celsius / 0.0625): truncates toward zero. *)
Counts(celsius) == IF celsius >= 0 THEN (celsius * 16) \div 100
                                   ELSE -((-celsius * 16) \div 100)

Representable(counts) == counts >= -2048 /\ counts <= 2047

(* (counts & 0x0FFF) << 4, in two's complement; its two bytes. *)
Raw(counts) == (counts % 4096) * 16
Hi(raw) == raw \div 256
Lo(raw) == raw % 256

(* The conversion to int16_t. *)
Signed16(word) == IF word >= 32768 THEN word - 65536 ELSE word

(* Broken: the shift is a logical one. *)
DecodeUnsigned(hi, lo) == (hi * 256 + lo) \div 16

(* The arithmetic shift right by four. *)
Decode(hi, lo) == Signed16(hi * 256 + lo) \div 16

(* cfg | kCfgShutdown | kCfgOneShot *)
WithOneShot(cfg) == cfg + (IF cfg % 2 = 0 THEN 1 ELSE 0)
                        + (IF cfg \div 128 = 0 THEN 128 ELSE 0)
================================================================================
