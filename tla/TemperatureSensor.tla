---------------------------- MODULE TemperatureSensor ----------------------------
(***************************************************************************)
(* The TMP102 driver of src/examples/temperature_sensor.hpp on a           *)
(* MockI2CBus, in a test with SensorFixture (example_suite.cpp).  A method *)
(* of the driver makes two bus accesses; when the first throws, the        *)
(* exception takes the second away.  Test and driver share one thread, so  *)
(* the test acts between two calls of the driver only.                     *)
(***************************************************************************)
EXTENDS I2CBus, Conversion

CONSTANTS
  Sensor,       \* addr_
  Limits,       \* limits the test asks for, in hundredths of a degree
  Samples,      \* temperatures the test loads (raw12), in counts
  ScriptLines   \* transactions the test scripts

kRegTemp == 0
kRegConfig == 1
kRegTLow == 2
kRegTHigh == 3

ASSUME SensorAssumption ==
  /\ Sensor \in Addresses
  /\ kRegTemp .. kRegTHigh + 1 \subseteq Registers
  /\ Bytes = Byte
  /\ Limits \subseteq Int
  /\ \A counts \in Samples : counts \in Int /\ Representable(counts)
  /\ ScriptLines \subseteq Transactions

VARIABLES
  pc,         \* "idle", or the access a method makes next
  arg,        \* the register and the byte it carries to it
  reading,    \* what read_celsius last returned, in counts
  loaded,     \* history: what the test last loaded, None if it seeded a byte since
  triggered,  \* history: trigger_one_shot has written CONFIG since
  limits,     \* history: what was last asked for in each limit register
  latest,     \* history: the limit register asked for last
  before,     \* history: the two bytes that pair held when it was
  accepted    \* history: how many of the limit's two bytes the bus has taken

sensorVars ==
  <<pc, arg, reading, loaded, triggered, limits, latest, before, accepted>>
written == <<limits, latest, before, accepted>>
vars == <<busVars, sensorVars>>

None == 4096   \* neither a count nor a register
Idle == [reg |-> kRegTemp, byte |-> 0]

(* SensorFixture::set_up *)
Init ==
  /\ attached = {Sensor}
  /\ devices = [a \in Addresses |-> [r \in Registers |->
                  IF a = Sensor /\ r = kRegConfig THEN 96 ELSE 0]]
  /\ log = <<>> /\ expectations = <<>> /\ cursor = 0
  /\ threw = FALSE /\ strayed = FALSE
  /\ backdoor = {Sensor} \X Registers
  /\ pc = "idle" /\ arg = Idle /\ reading = None
  /\ loaded = None /\ triggered = FALSE
  /\ limits = [r \in {kRegTLow, kRegTHigh} |-> None] /\ latest = None
  /\ before = [hi |-> 0, lo |-> 0] /\ accepted = 0

----------------------------------------------------------------------------
(* The test                                                                *)

(* SensorFixture::load_temperature: two set_register. *)
LoadTemperature(counts) ==
  /\ pc = "idle"
  /\ devices' = [devices EXCEPT ![Sensor][kRegTemp] = Hi(Raw(counts)),
                             ![Sensor][kRegTemp + 1] = Lo(Raw(counts))]
  /\ backdoor' = backdoor \cup {<<Sensor, kRegTemp>>, <<Sensor, kRegTemp + 1>>}
  /\ threw' = FALSE
  /\ loaded' = counts /\ triggered' = FALSE /\ reading' = None
  /\ UNCHANGED <<attached, log, expectations, cursor, strayed, pc, arg, written>>

(* A scripted read seeds its register: the test has set that pair then.    *)
Seeds(line, pair) == line.op = "Read" /\ line.addr = Sensor /\ line.reg \in pair .. pair + 1

Script(line) ==
  /\ pc = "idle"
  /\ \/ line.op = "Read" /\ ExpectRead(line.addr, line.reg, line.value)
     \/ line.op = "Write" /\ ExpectWrite(line.addr, line.reg, line.value)
  /\ loaded' = IF Seeds(line, kRegTemp) THEN None ELSE loaded
  /\ limits' = [r \in DOMAIN limits |-> IF Seeds(line, r) THEN None ELSE limits[r]]
  /\ latest' = IF Seeds(line, latest) THEN None ELSE latest
  /\ UNCHANGED <<pc, arg, reading, triggered, before, accepted>>

----------------------------------------------------------------------------
(* The driver                                                              *)

(* Broken: a method goes on after its first access was refused. *)
FirstGoingOn(access, next, carried) ==
  /\ pc = "idle" /\ Len(log) + 2 <= MaxLog
  /\ access
  /\ pc' = next /\ arg' = carried

(* The first access of a method, and the exception that ends it there. *)
First(access, next, carried) ==
  /\ pc = "idle" /\ Len(log) + 2 <= MaxLog
  /\ access
  /\ pc' = IF threw' THEN "idle" ELSE next
  /\ arg' = IF threw' THEN Idle ELSE carried

Second(step, access) ==
  /\ pc = step
  /\ access
  /\ pc' = "idle" /\ arg' = Idle

Held(r) == devices[Sensor][r]

(* read_celsius *)
ReadHi ==
  /\ First(ReadRegister(Sensor, kRegTemp), "read lo",
           [reg |-> kRegTemp + 1, byte |-> Held(kRegTemp)])
  /\ UNCHANGED <<reading, loaded, triggered, written>>

ReadLo ==
  /\ Second("read lo", ReadRegister(Sensor, arg.reg))
  /\ reading' = IF threw' THEN reading ELSE Decode(arg.byte, Held(arg.reg))
  /\ UNCHANGED <<loaded, triggered, written>>

(* trigger_one_shot *)
ReadConfig ==
  /\ First(ReadRegister(Sensor, kRegConfig), "write config",
           [reg |-> kRegConfig, byte |-> WithOneShot(Held(kRegConfig))])
  /\ UNCHANGED <<reading, loaded, triggered, written>>

WriteConfig ==
  /\ Second("write config", WriteRegister(Sensor, arg.reg, arg.byte))
  /\ triggered' = (triggered \/ ~threw')
  /\ UNCHANGED <<reading, loaded, written>>

(* write_limit: an unrepresentable one is refused before the bus is used. *)
RejectLimit(celsius) ==
  /\ pc = "idle" /\ ~Representable(Counts(celsius))
  /\ UNCHANGED vars

WriteLimitHi(reg, celsius) ==
  /\ Representable(Counts(celsius))
  /\ LET raw == Raw(Counts(celsius)) IN
       First(WriteRegister(Sensor, reg, Hi(raw)), "write limit lo",
             [reg |-> reg + 1, byte |-> Lo(raw)])
  /\ limits' = [limits EXCEPT ![reg] = Counts(celsius)]
  /\ latest' = reg
  /\ before' = [hi |-> Held(reg), lo |-> Held(reg + 1)]
  /\ accepted' = IF threw' THEN 0 ELSE 1
  /\ UNCHANGED <<reading, loaded, triggered>>

WriteLimitLo ==
  /\ Second("write limit lo", WriteRegister(Sensor, arg.reg, arg.byte))
  /\ accepted' = IF threw' THEN accepted ELSE accepted + 1
  /\ UNCHANGED <<reading, loaded, triggered, limits, latest, before>>

Next ==
  \/ \E counts \in Samples : LoadTemperature(counts)
  \/ \E line \in ScriptLines : Script(line)
  \/ ReadHi \/ ReadLo \/ ReadConfig \/ WriteConfig \/ WriteLimitLo
  \/ \E celsius \in Limits :
       \/ RejectLimit(celsius)
       \/ \E reg \in {kRegTLow, kRegTHigh} : WriteLimitHi(reg, celsius)

Spec == Init /\ [][Next]_vars

----------------------------------------------------------------------------
(* Properties                                                              *)

Pair(reg) == Decode(Held(reg), Held(reg + 1))

(* Between calls, the limit asked for last reads back whole if the bus     *)
(* took both its bytes; if it refused the second, the pair holds the new   *)
(* high byte above the old low one, and if it refused the first, what it   *)
(* held before the call. A refusal of any other access, before or after,   *)
(* makes no difference (temperature_sensor.hpp:70-79).                     *)
AsFarAsAccepted ==
  /\ accepted = 2 => Pair(latest) = limits[latest]
  /\ accepted = 1 => Held(latest) = Hi(Raw(limits[latest]))
  /\ accepted = 0 => Held(latest) = before.hi
  /\ accepted < 2 => Held(latest + 1) = before.lo

LatestLimitReadsBack == pc = "idle" /\ latest # None => AsFarAsAccepted

(* read_celsius returns the temperature the test loaded, negative ones     *)
(* included (temperature_sensor.hpp:42-51), as long as trigger_one_shot    *)
(* has not written CONFIG, which shares a byte with it.                    *)
ReadingIsWhatWasLoaded ==
  reading # None /\ loaded # None /\ ~triggered => reading = loaded

(* The register map of tmp102_session.txt:11-15, and the comment at        *)
(* temperature_sensor.hpp:76: TEMP, CONFIG and the two limits are          *)
(* registers of their own.  A limit that was set, and a temperature that   *)
(* was loaded, stay until they are set or loaded again.                    *)
LimitsCoexist ==
  pc = "idle" /\ ~strayed =>
    \A reg \in {kRegTLow, kRegTHigh} : limits[reg] # None => Pair(reg) = limits[reg]

ReadingSurvivesOneShot == reading # None /\ loaded # None => reading = loaded

RegistersAreSeparate == LimitsCoexist /\ ReadingSurvivesOneShot
================================================================================
