---------------------------------- MODULE I2CBus ----------------------------------
(***************************************************************************)
(* MockI2CBus (src/include/edtf/mock_hardware.hpp): devices with byte      *)
(* registers, the log of transactions, and a script of expected ones.      *)
(* A register that a device's map lacks reads 0, so a device is a total    *)
(* function.  A call that throws HardwareError sets `threw' and nothing    *)
(* else.                                                                   *)
(***************************************************************************)
EXTENDS Naturals, Sequences

CONSTANTS
  Addresses,   \* device addresses
  Registers,   \* register codes
  Bytes,       \* byte values
  MaxScript,   \* bound: expectations a test queues
  MaxLog       \* bound: transactions a test makes between two clear_log

ASSUME BusAssumption ==
  /\ 0 \in Bytes
  /\ MaxScript \in Nat /\ MaxLog \in Nat

VARIABLES
  attached,      \* addresses of devices_
  devices,       \* the register maps of devices_
  log,           \* log_
  expectations,  \* expectations_
  cursor,        \* expect_cursor_
  threw,         \* the latest call threw HardwareError
  strayed,       \* history: a driver's access has been refused by the script
  backdoor       \* history: registers the test set since the driver used them

busVars == <<attached, devices, log, expectations, cursor, threw, strayed, backdoor>>

Devices == [Registers -> Bytes]
Transactions == [op : {"Read", "Write"}, addr : Addresses, reg : Registers, value : Bytes]
Transaction(op, a, r, v) == [op |-> op, addr |-> a, reg |-> r, value |-> v]

BusInit ==
  /\ attached = {}
  /\ devices = [a \in Addresses |-> [r \in Registers |-> 0]]
  /\ log = <<>> /\ expectations = <<>> /\ cursor = 0
  /\ threw = FALSE /\ strayed = FALSE /\ backdoor = {}

(* device(addr) throws. *)
NoDevice(a) ==
  /\ a \notin attached
  /\ threw' = TRUE
  /\ UNCHANGED <<attached, devices, log, expectations, cursor, strayed, backdoor>>

----------------------------------------------------------------------------
(* Set-up by the test                                                      *)

(* Broken: the address is shifted to its 8-bit form. *)
AttachDeviceShifted(a, initial) ==
  /\ attached' = attached \cup {2 * a}
  /\ devices' = [devices EXCEPT ![a] = initial]
  /\ backdoor' = backdoor \cup ({a} \X Registers)
  /\ threw' = FALSE
  /\ UNCHANGED <<log, expectations, cursor, strayed>>

AttachDevice(a, initial) ==
  /\ attached' = attached \cup {a}
  /\ devices' = [devices EXCEPT ![a] = initial]
  /\ backdoor' = backdoor \cup ({a} \X Registers)
  /\ threw' = FALSE
  /\ UNCHANGED <<log, expectations, cursor, strayed>>

SetRegister(a, r, v) ==
  \/ NoDevice(a)
  \/ /\ a \in attached
     /\ devices' = [devices EXCEPT ![a][r] = v]
     /\ backdoor' = backdoor \cup {<<a, r>>}
     /\ threw' = FALSE
     /\ UNCHANGED <<attached, log, expectations, cursor, strayed>>

(* expect_read seeds the register it expects to be read. *)
ExpectRead(a, r, returns) ==
  /\ Len(expectations) < MaxScript
  /\ \/ NoDevice(a)
     \/ /\ a \in attached
        /\ devices' = [devices EXCEPT ![a][r] = returns]
        /\ backdoor' = backdoor \cup {<<a, r>>}
        /\ expectations' = Append(expectations, Transaction("Read", a, r, returns))
        /\ threw' = FALSE
        /\ UNCHANGED <<attached, log, cursor, strayed>>

(* expect_write does not look for the device. *)
ExpectWrite(a, r, v) ==
  /\ Len(expectations) < MaxScript
  /\ expectations' = Append(expectations, Transaction("Write", a, r, v))
  /\ threw' = FALSE
  /\ UNCHANGED <<attached, devices, log, cursor, strayed, backdoor>>

ClearLog ==
  /\ log' = <<>>
  /\ threw' = FALSE
  /\ UNCHANGED <<attached, devices, expectations, cursor, strayed, backdoor>>

----------------------------------------------------------------------------
(* The driver's side                                                       *)

Matches(e, t) ==
  /\ e.op = t.op /\ e.addr = t.addr /\ e.reg = t.reg
  /\ t.op = "Write" => e.value = t.value

(* Broken: any expectation ahead of the cursor will do. *)
ExpectedInAnyOrder(t) ==
  \/ expectations = <<>>
  \/ \E i \in cursor + 1 .. Len(expectations) : Matches(expectations[i], t)

(* match_expectation(t) returns; it throws otherwise. *)
Expected(t) ==
  \/ expectations = <<>>
  \/ cursor < Len(expectations) /\ Matches(expectations[cursor + 1], t)

(* Broken: the register is stored before the match. *)
RefuseAfterTheStore(t) ==
  /\ t.addr \in attached /\ ~Expected(t)
  /\ threw' = TRUE
  /\ strayed' = TRUE
  /\ devices' = IF t.op = "Write" THEN [devices EXCEPT ![t.addr][t.reg] = t.value] ELSE devices
  /\ UNCHANGED <<attached, log, expectations, cursor, backdoor>>

Refuse(t) ==
  /\ t.addr \in attached /\ ~Expected(t)
  /\ threw' = TRUE
  /\ strayed' = TRUE
  /\ UNCHANGED <<attached, devices, log, expectations, cursor, backdoor>>

(* The match, the effect on the device, the log. *)
Perform(t) ==
  /\ t.addr \in attached /\ Expected(t) /\ Len(log) < MaxLog
  /\ cursor' = IF expectations = <<>> THEN cursor ELSE cursor + 1
  /\ devices' = IF t.op = "Write" THEN [devices EXCEPT ![t.addr][t.reg] = t.value] ELSE devices
  /\ log' = Append(log, t)
  /\ backdoor' = backdoor \ {<<t.addr, t.reg>>}
  /\ threw' = FALSE
  /\ UNCHANGED <<attached, expectations, strayed>>

Access(t) == NoDevice(t.addr) \/ Refuse(t) \/ Perform(t)

ReadRegister(a, r) == Access(Transaction("Read", a, r, devices[a][r]))

WriteRegister(a, r, v) == Access(Transaction("Write", a, r, v))

(* verify() returns the empty string. *)
Verified == cursor >= Len(expectations)

BusNext ==
  \/ ClearLog
  \/ \E a \in Addresses, initial \in Devices : AttachDevice(a, initial)
  \/ \E a \in Addresses, r \in Registers :
       \/ ReadRegister(a, r)
       \/ \E v \in Bytes : \/ SetRegister(a, r, v) \/ WriteRegister(a, r, v)
                           \/ ExpectRead(a, r, v) \/ ExpectWrite(a, r, v)

BusSpec == BusInit /\ [][BusNext]_busVars

(* A test that leaves its devices to the script once there is one. *)
ScriptedNext ==
  \/ expectations = <<>> /\ \E a \in Addresses, initial \in Devices :
                              AttachDevice(a, initial)
  \/ \E a \in Addresses, r \in Registers :
       \/ ReadRegister(a, r)
       \/ \E v \in Bytes :
            WriteRegister(a, r, v) \/ ExpectRead(a, r, v) \/ ExpectWrite(a, r, v)

ScriptedSpec == BusInit /\ [][ScriptedNext]_busVars

----------------------------------------------------------------------------
(* Properties                                                              *)

BusTypeOK ==
  /\ attached \subseteq Addresses
  /\ devices \in [Addresses -> Devices]
  /\ log \in Seq(Transactions)
  /\ expectations \in Seq(Transactions)
  /\ cursor \in Nat
  /\ threw \in BOOLEAN /\ strayed \in BOOLEAN
  /\ backdoor \subseteq Addresses \X Registers

(* The log, as far as clear_log has left it, ends with the expectations    *)
(* before the cursor, in order and nothing in between: no access is logged *)
(* that was not matched, or matched and not logged, once there is a script *)
(* (mock_hardware.hpp:130-143, 187-203).                                   *)
InOrder ==
  /\ cursor <= Len(expectations)
  /\ \A i \in 0 .. cursor - 1 :
       i < Len(log) => Matches(expectations[cursor - i], log[Len(log) - i])

(* The log explains the devices: a register the driver has used, and the   *)
(* test has not set behind its back since, holds what the last transaction *)
(* on it says, so a refused access has changed neither the one nor the     *)
(* other (mock_hardware.hpp:130-143).                                      *)
LogExplainsDevices ==
  \A i \in DOMAIN log :
    LET t == log[i]
        last == \A j \in i + 1 .. Len(log) :
                  log[j].addr # t.addr \/ log[j].reg # t.reg
    IN  last /\ <<t.addr, t.reg>> \notin backdoor => devices[t.addr][t.reg] = t.value

(* The comment at mock_hardware.hpp:148: a scripted read returns the value *)
(* its expectation promises.                                               *)
ReadsReturnTheScript ==
  \A i \in 0 .. cursor - 1 :
    i < Len(log) /\ log[Len(log) - i].op = "Read"
      => log[Len(log) - i].value = expectations[cursor - i].value

(* The comment at mock_hardware.hpp:93-95: a script that verifies says     *)
(* that the driver issued exactly the traffic the author intended.         *)
VerifiedMeansExact == expectations # <<>> /\ Verified => ~strayed
================================================================================
