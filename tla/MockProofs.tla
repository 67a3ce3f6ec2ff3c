-------------------------------- MODULE MockProofs --------------------------------
(* The three mocks: the scripted bus for every set of devices, registers   *)
(* and bytes, the register bank for every size, every word and hooks       *)
(* nested to any depth, the serial port as a byte stream for every byte    *)
(* and any amount of them.                                                 *)
EXTENDS I2CBus, RegisterBank, SerialPort, SequenceTheorems, TLAPS

----------------------------------------------------------------------------
(* The bus: types                                                          *)

LEMMA TransactionType ==
  ASSUME NEW o \in {"Read", "Write"}, NEW a \in Addresses, NEW r \in Registers,
         NEW v \in Bytes
  PROVE  Transaction(o, a, r, v) \in Transactions
  BY DEF Transaction, Transactions

(* Setting one register of one device. *)
LEMMA RegisterSet ==
  ASSUME NEW d \in [Addresses -> Devices], NEW a \in Addresses, NEW r \in Registers,
         NEW v \in Bytes
  PROVE  [d EXCEPT ![a][r] = v] \in [Addresses -> Devices]
  <1>1. [d[a] EXCEPT ![r] = v] \in Devices
    BY DEF Devices
  <1> QED
    BY <1>1

LEMMA NoDeviceType ==
  ASSUME BusTypeOK, NEW a \in Addresses, NoDevice(a)
  PROVE  BusTypeOK'
  BY DEF BusTypeOK, NoDevice

LEMMA AttachDeviceType ==
  ASSUME BusTypeOK, NEW a \in Addresses, NEW initial \in Devices, AttachDevice(a, initial)
  PROVE  BusTypeOK'
  <1>1. devices' \in [Addresses -> Devices]
    BY DEF BusTypeOK, AttachDevice
  <1>2. attached' \subseteq Addresses /\ backdoor' \subseteq Addresses \X Registers
    BY DEF BusTypeOK, AttachDevice
  <1> QED
    BY <1>1, <1>2 DEF BusTypeOK, AttachDevice

LEMMA SetRegisterType ==
  ASSUME BusTypeOK, NEW a \in Addresses, NEW r \in Registers, NEW v \in Bytes,
         SetRegister(a, r, v), ~NoDevice(a)
  PROVE  BusTypeOK'
  <1>1. devices' \in [Addresses -> Devices]
    BY RegisterSet DEF BusTypeOK, SetRegister
  <1>2. backdoor' \subseteq Addresses \X Registers
    BY DEF BusTypeOK, SetRegister
  <1> QED
    BY <1>1, <1>2 DEF BusTypeOK, SetRegister

LEMMA ExpectType ==
  ASSUME BusTypeOK, NEW a \in Addresses, NEW r \in Registers, NEW v \in Bytes,
         ExpectRead(a, r, v) \/ ExpectWrite(a, r, v), ~NoDevice(a)
  PROVE  BusTypeOK'
  <1>1. expectations' \in Seq(Transactions)
    <2>1. PICK o \in {"Read", "Write"} :
            expectations' = Append(expectations, Transaction(o, a, r, v))
      BY DEF ExpectRead, ExpectWrite
    <2>2. Transaction(o, a, r, v) \in Transactions
      BY TransactionType
    <2> QED
      BY <2>1, <2>2, AppendProperties DEF BusTypeOK
  <1>2. devices' \in [Addresses -> Devices]
    <2>1. devices' = [devices EXCEPT ![a][r] = v] \/ devices' = devices
      BY DEF ExpectRead, ExpectWrite
    <2> QED
      BY <2>1, RegisterSet DEF BusTypeOK
  <1>3. backdoor' \subseteq Addresses \X Registers
    BY DEF BusTypeOK, ExpectRead, ExpectWrite
  <1> QED
    BY <1>1, <1>2, <1>3 DEF BusTypeOK, ExpectRead, ExpectWrite

LEMMA PerformType ==
  ASSUME BusTypeOK, NEW t \in Transactions, Perform(t)
  PROVE  BusTypeOK'
  <1>1. t.addr \in Addresses /\ t.reg \in Registers /\ t.value \in Bytes
    BY DEF Transactions
  <1>2. devices' \in [Addresses -> Devices]
    BY <1>1, RegisterSet DEF BusTypeOK, Perform
  <1>3. log' \in Seq(Transactions)
    BY AppendProperties DEF BusTypeOK, Perform
  <1>4. cursor' \in Nat
    BY DEF BusTypeOK, Perform
  <1> QED
    BY <1>2, <1>3, <1>4 DEF BusTypeOK, Perform

LEMMA AccessType ==
  ASSUME BusTypeOK, NEW t \in Transactions, Access(t)
  PROVE  BusTypeOK'
  <1>1. CASE NoDevice(t.addr)
    BY <1>1, NoDeviceType DEF Transactions
  <1>2. CASE Refuse(t)
    BY <1>2 DEF BusTypeOK, Refuse
  <1>3. CASE Perform(t)
    BY <1>3, PerformType
  <1> QED
    BY <1>1, <1>2, <1>3 DEF Access

(* read_register and write_register make an access. *)
LEMMA AccessesAreTransactions ==
  ASSUME BusTypeOK, NEW a \in Addresses, NEW r \in Registers, NEW v \in Bytes,
         ReadRegister(a, r) \/ WriteRegister(a, r, v)
  PROVE  \E t \in Transactions : Access(t)
  <1>1. devices[a][r] \in Bytes
    BY DEF BusTypeOK, Devices
  <1> QED
    BY <1>1, TransactionType DEF ReadRegister, WriteRegister

LEMMA BusTypeStep ==
  ASSUME BusTypeOK, [BusNext]_busVars
  PROVE  BusTypeOK'
  <1>1. ASSUME NEW a \in Addresses, NEW initial \in Devices, AttachDevice(a, initial)
        PROVE  BusTypeOK'
    BY <1>1, AttachDeviceType
  <1>2. ASSUME NEW a \in Addresses, NEW r \in Registers, NEW v \in Bytes,
               SetRegister(a, r, v) \/ ExpectRead(a, r, v) \/ ExpectWrite(a, r, v)
        PROVE  BusTypeOK'
    BY <1>2, NoDeviceType, SetRegisterType, ExpectType
  <1>3. ASSUME NEW t \in Transactions, Access(t) PROVE BusTypeOK'
    BY <1>3, AccessType
  <1>4. CASE ClearLog
    <2>1. log' \in Seq(Transactions)
      BY <1>4 DEF ClearLog
    <2> QED
      BY <1>4, <2>1 DEF ClearLog, BusTypeOK
  <1>5. CASE UNCHANGED busVars
    BY <1>5 DEF busVars, BusTypeOK
  <1> QED
    BY <1>1, <1>2, <1>3, <1>4, <1>5, AccessesAreTransactions, BusAssumption DEF BusNext

(* Every bus variable keeps its type, whatever the test and the driver do  *)
(* (mock_hardware.hpp:97-217).                                             *)
THEOREM BusTypeCorrect == BusSpec => []BusTypeOK
  <1>1. BusInit => BusTypeOK
    <2> SUFFICES ASSUME BusInit PROVE BusTypeOK
      OBVIOUS
    <2>1. devices \in [Addresses -> Devices]
      BY BusAssumption DEF BusInit, Devices
    <2>2. log \in Seq(Transactions) /\ expectations \in Seq(Transactions)
      BY DEF BusInit
    <2> QED
      BY <2>1, <2>2 DEF BusInit, BusTypeOK
  <1>2. BusTypeOK /\ [BusNext]_busVars => BusTypeOK'
    BY BusTypeStep
  <1> QED
    BY <1>1, <1>2, PTL DEF BusSpec

----------------------------------------------------------------------------
(* The bus: the script                                                     *)

(* What a step does to the log, the script and the cursor. *)
LEMMA ScriptSteps ==
  ASSUME BusTypeOK, [BusNext]_busVars
  PROVE  \/ /\ UNCHANGED <<log, cursor>>
            /\ \/ expectations' = expectations
               \/ \E e \in Transactions : expectations' = Append(expectations, e)
         \/ log' = <<>> /\ UNCHANGED <<cursor, expectations>>
         \/ \E t \in Transactions : Perform(t)
  <1>1. ASSUME NEW a \in Addresses, NEW r \in Registers, NEW v \in Bytes,
               ExpectRead(a, r, v) \/ ExpectWrite(a, r, v)
        PROVE  /\ UNCHANGED <<log, cursor>>
               /\ \/ expectations' = expectations
                  \/ \E e \in Transactions : expectations' = Append(expectations, e)
    BY <1>1, TransactionType DEF ExpectRead, ExpectWrite, NoDevice
  <1>2. ASSUME NEW a \in Addresses, NEW r \in Registers, NEW v \in Bytes,
               SetRegister(a, r, v)
        PROVE  UNCHANGED <<log, cursor, expectations>>
    BY <1>2 DEF SetRegister, NoDevice
  <1>3. ASSUME NEW a \in Addresses, NEW initial \in Devices, AttachDevice(a, initial)
        PROVE  UNCHANGED <<log, cursor, expectations>>
    BY <1>3 DEF AttachDevice
  <1>4. ASSUME NEW t \in Transactions, Access(t)
        PROVE  Perform(t) \/ UNCHANGED <<log, cursor, expectations>>
    BY <1>4 DEF Access, NoDevice, Refuse
  <1>5. CASE ClearLog
    BY <1>5 DEF ClearLog
  <1>6. CASE UNCHANGED busVars
    BY <1>6 DEF busVars
  <1> QED
    BY <1>1, <1>2, <1>3, <1>4, <1>5, <1>6, AccessesAreTransactions, BusAssumption
    DEF BusNext

LEMMA InOrderStep ==
  ASSUME BusTypeOK, InOrder, [BusNext]_busVars
  PROVE  InOrder'
  <1>0. /\ Len(log) \in Nat /\ Len(expectations) \in Nat
        /\ cursor \in Nat /\ cursor <= Len(expectations)
    BY LenProperties DEF BusTypeOK, InOrder
  <1>1. ASSUME NEW e \in Transactions, UNCHANGED <<log, cursor>>,
               expectations' = Append(expectations, e)
        PROVE  InOrder'
    <2>1. /\ Len(expectations') = Len(expectations) + 1
          /\ \A k \in 1 .. Len(expectations) : expectations'[k] = expectations[k]
      BY <1>1, AppendProperties DEF BusTypeOK
    <2>2. \A i \in 0 .. cursor - 1 : cursor - i \in 1 .. Len(expectations)
      BY <1>0
    <2> QED
      BY <1>0, <1>1, <2>1, <2>2 DEF InOrder
  <1>2. CASE log' = <<>> /\ UNCHANGED <<cursor, expectations>>
    BY <1>0, <1>2 DEF InOrder
  <1>3. ASSUME NEW t \in Transactions, Perform(t) PROVE InOrder'
    <2>1. /\ Len(log') = Len(log) + 1 /\ log'[Len(log) + 1] = t
          /\ \A k \in 1 .. Len(log) : log'[k] = log[k]
          /\ expectations' = expectations
      BY <1>3, AppendProperties DEF Perform, BusTypeOK
    <2>2. CASE expectations = <<>>
      BY <1>0, <1>3, <2>1, <2>2 DEF Perform, InOrder
    <2>3. CASE expectations # <<>>
      <3>1. /\ cursor < Len(expectations) /\ cursor' = cursor + 1
            /\ Matches(expectations[cursor + 1], t)
        BY <1>3, <2>3 DEF Perform, Expected
      <3>2. ASSUME NEW i \in 0 .. cursor' - 1, i < Len(log')
            PROVE  Matches(expectations'[cursor' - i], log'[Len(log') - i])
        <4>1. CASE i = 0
          BY <1>0, <2>1, <3>1, <4>1
        <4>2. CASE i # 0
          <5> DEFINE j == i - 1
          <5>1. /\ j \in 0 .. cursor - 1 /\ j < Len(log)
                /\ cursor' - i = cursor - j /\ Len(log') - i = Len(log) - j
                /\ Len(log) - j \in 1 .. Len(log)
            BY <1>0, <2>1, <3>1, <3>2, <4>2
          <5>2. Matches(expectations[cursor - j], log[Len(log) - j])
            BY <5>1 DEF InOrder
          <5> QED
            BY <2>1, <5>1, <5>2
        <4> QED
          BY <4>1, <4>2
      <3> QED
        BY <1>0, <2>1, <3>1, <3>2 DEF InOrder
    <2> QED
      BY <2>2, <2>3
  <1>4. CASE UNCHANGED <<log, cursor, expectations>>
    BY <1>4 DEF InOrder
  <1> QED
    BY <1>1, <1>2, <1>3, <1>4, ScriptSteps

(* With a script, the transactions the device sees are the scripted ones,  *)
(* in order, for scripts and logs of any length                            *)
(* (mock_hardware.hpp:130-143, 187-203).                                   *)
THEOREM TrafficInOrder == BusSpec => []InOrder
  <1>1. BusInit => InOrder
    BY DEF BusInit, InOrder
  <1>2. BusTypeOK /\ InOrder /\ [BusNext]_busVars => InOrder'
    BY InOrderStep
  <1> QED
    BY <1>1, <1>2, BusTypeCorrect, PTL DEF BusSpec

----------------------------------------------------------------------------
(* The bus: the log                                                        *)

(* A step that logs nothing changes a register only behind the log's back. *)
Behind ==
  /\ log' = log /\ backdoor \subseteq backdoor'
  /\ \A a \in Addresses, r \in Registers :
       <<a, r>> \notin backdoor' => devices'[a][r] = devices[a][r]

LEMMA TestIsBehind ==
  ASSUME BusTypeOK, NEW a \in Addresses, NEW r \in Registers, NEW v \in Bytes,
         SetRegister(a, r, v) \/ ExpectRead(a, r, v) \/ ExpectWrite(a, r, v)
  PROVE  Behind
  <1>1. ASSUME devices' = [devices EXCEPT ![a][r] = v], log' = log,
               backdoor' = backdoor \cup {<<a, r>>}
        PROVE  Behind
    <2>1. ASSUME NEW b \in Addresses, NEW q \in Registers, <<b, q>> \notin backdoor'
          PROVE  devices'[b][q] = devices[b][q]
      <3>1. b # a \/ q # r
        BY <1>1, <2>1
      <3> QED
        BY <1>1, <3>1 DEF BusTypeOK, Devices
    <2> QED
      BY <1>1, <2>1 DEF Behind
  <1>2. CASE UNCHANGED <<log, devices, backdoor>>
    BY <1>2 DEF Behind
  <1> QED
    BY <1>1, <1>2 DEF SetRegister, ExpectRead, ExpectWrite, NoDevice

(* An access that is performed leaves its value in its register, and in no *)
(* other.                                                                  *)
Effect(t) ==
  /\ log' = Append(log, t) /\ backdoor' = backdoor \ {<<t.addr, t.reg>>}
  /\ devices'[t.addr][t.reg] = t.value
  /\ \A a \in Addresses, r \in Registers :
       a # t.addr \/ r # t.reg => devices'[a][r] = devices[a][r]

LEMMA AccessHasItsEffect ==
  ASSUME BusTypeOK, NEW a \in Addresses, NEW r \in Registers, NEW v \in Bytes,
         ReadRegister(a, r) \/ WriteRegister(a, r, v)
  PROVE  Behind \/ \E t \in Transactions : Effect(t)
  <1>1. PICK t \in Transactions :
          /\ Access(t)
          /\ t.op = "Read" => t.value = devices[t.addr][t.reg]
    <2>1. CASE ReadRegister(a, r)
      <3> DEFINE t == Transaction("Read", a, r, devices[a][r])
      <3>1. t \in Transactions
        BY TransactionType DEF BusTypeOK, Devices
      <3>2. t.value = devices[t.addr][t.reg]
        BY DEF Transaction
      <3> QED
        BY <2>1, <3>1, <3>2 DEF ReadRegister
    <2>2. CASE WriteRegister(a, r, v)
      <3> DEFINE t == Transaction("Write", a, r, v)
      <3>1. t \in Transactions /\ t.op = "Write"
        BY TransactionType DEF Transaction
      <3> QED
        BY <2>2, <3>1 DEF WriteRegister
    <2> QED
      BY <2>1, <2>2
  <1>2. CASE NoDevice(t.addr) \/ Refuse(t)
    BY <1>2 DEF NoDevice, Refuse, Behind
  <1>3. CASE Perform(t)
    <2>1. /\ t.addr \in Addresses /\ t.reg \in Registers /\ t.value \in Bytes
          /\ t.op \in {"Read", "Write"}
      BY DEF Transactions
    <2>2. /\ log' = Append(log, t) /\ backdoor' = backdoor \ {<<t.addr, t.reg>>}
          /\ devices' = IF t.op = "Write" THEN [devices EXCEPT ![t.addr][t.reg] = t.value]
                                          ELSE devices
      BY <1>3 DEF Perform
    <2>3. devices'[t.addr][t.reg] = t.value
      BY <1>1, <2>1, <2>2 DEF BusTypeOK, Devices
    <2>4. ASSUME NEW b \in Addresses, NEW q \in Registers, b # t.addr \/ q # t.reg
          PROVE  devices'[b][q] = devices[b][q]
      BY <2>1, <2>2, <2>4 DEF BusTypeOK, Devices
    <2> QED
      BY <2>2, <2>3, <2>4 DEF Effect
  <1> QED
    BY <1>1, <1>2, <1>3 DEF Access

LEMMA LogSteps ==
  ASSUME BusTypeOK, [BusNext]_busVars
  PROVE  Behind \/ log' = <<>> \/ \E t \in Transactions : Effect(t)
  <1>1. CASE UNCHANGED busVars
    BY <1>1 DEF busVars, Behind
  <1>2. CASE ClearLog
    BY <1>2 DEF ClearLog
  <1>3. ASSUME NEW a \in Addresses, NEW initial \in Devices, AttachDevice(a, initial)
        PROVE  Behind
    <2>1. /\ log' = log /\ devices' = [devices EXCEPT ![a] = initial]
          /\ backdoor' = backdoor \cup ({a} \X Registers)
      BY <1>3 DEF AttachDevice
    <2>2. ASSUME NEW b \in Addresses, NEW q \in Registers, <<b, q>> \notin backdoor'
          PROVE  devices'[b][q] = devices[b][q]
      BY <2>1, <2>2 DEF BusTypeOK
    <2> QED
      BY <2>1, <2>2 DEF Behind
  <1> QED
    BY <1>1, <1>2, <1>3, TestIsBehind, AccessHasItsEffect, BusAssumption DEF BusNext

LEMMA LogStep ==
  ASSUME BusTypeOK, LogExplainsDevices, [BusNext]_busVars
  PROVE  LogExplainsDevices'
  <1>0. log \in Seq(Transactions) /\ Len(log) \in Nat /\ DOMAIN log = 1 .. Len(log)
    BY LenProperties DEF BusTypeOK
  <1>1. ASSUME NEW i \in DOMAIN log
        PROVE  log[i].addr \in Addresses /\ log[i].reg \in Registers
    <2>1. log[i] \in Transactions
      BY <1>0, <1>1, ElementOfSeq
    <2> QED
      BY <2>1 DEF Transactions
  <1>2. CASE Behind
    <2>1. ASSUME NEW i \in DOMAIN log',
                 \A j \in i + 1 .. Len(log') :
                   log'[j].addr # log'[i].addr \/ log'[j].reg # log'[i].reg,
                 <<log'[i].addr, log'[i].reg>> \notin backdoor'
          PROVE  devices'[log'[i].addr][log'[i].reg] = log'[i].value
      <3>1. log' = log /\ <<log[i].addr, log[i].reg>> \notin backdoor
        BY <1>2, <2>1 DEF Behind
      <3>2. devices[log[i].addr][log[i].reg] = log[i].value
        BY <2>1, <3>1 DEF LogExplainsDevices
      <3> QED
        BY <1>1, <1>2, <2>1, <3>1, <3>2 DEF Behind
    <2> QED
      BY <2>1 DEF LogExplainsDevices
  <1>3. CASE log' = <<>>
    BY <1>3 DEF LogExplainsDevices
  <1>4. ASSUME NEW t \in Transactions, Effect(t) PROVE LogExplainsDevices'
    <2>1. /\ Len(log') = Len(log) + 1 /\ log'[Len(log) + 1] = t
          /\ \A k \in 1 .. Len(log) : log'[k] = log[k]
          /\ DOMAIN log' = 1 .. Len(log')
      BY <1>0, <1>4, AppendProperties, LenProperties DEF Effect
    <2>2. ASSUME NEW i \in DOMAIN log',
                 \A j \in i + 1 .. Len(log') :
                   log'[j].addr # log'[i].addr \/ log'[j].reg # log'[i].reg,
                 <<log'[i].addr, log'[i].reg>> \notin backdoor'
          PROVE  devices'[log'[i].addr][log'[i].reg] = log'[i].value
      <3>1. CASE i = Len(log) + 1
        BY <1>4, <2>1, <3>1 DEF Effect
      <3>2. CASE i # Len(log) + 1
        <4>1. i \in DOMAIN log /\ log'[i] = log[i] /\ Len(log) + 1 \in i + 1 .. Len(log')
          BY <1>0, <2>1, <2>2, <3>2
        <4>2. t.addr # log[i].addr \/ t.reg # log[i].reg
          BY <2>1, <2>2, <4>1
        <4>3. <<log[i].addr, log[i].reg>> \notin backdoor
          BY <1>4, <2>2, <4>1, <4>2 DEF Effect
        <4>4. \A j \in i + 1 .. Len(log) :
                log[j].addr # log[i].addr \/ log[j].reg # log[i].reg
          BY <1>0, <2>1, <2>2, <4>1
        <4>5. devices[log[i].addr][log[i].reg] = log[i].value
          BY <4>1, <4>3, <4>4 DEF LogExplainsDevices
        <4> QED
          BY <1>1, <1>4, <4>1, <4>2, <4>5 DEF Effect
      <3> QED
        BY <3>1, <3>2
    <2> QED
      BY <2>2 DEF LogExplainsDevices
  <1> QED
    BY <1>2, <1>3, <1>4, LogSteps

(* For every device map and log, the last access to a register that the    *)
(* log has is what the register holds: a refused write has not been stored *)
(* and an unlogged one has not happened (mock_hardware.hpp:128-143).       *)
THEOREM LogIsTheHistory == BusSpec => []LogExplainsDevices
  <1>1. BusInit => LogExplainsDevices
    BY DEF BusInit, LogExplainsDevices
  <1>2. BusTypeOK /\ LogExplainsDevices /\ [BusNext]_busVars => LogExplainsDevices'
    BY LogStep
  <1> QED
    BY <1>1, <1>2, BusTypeCorrect, PTL DEF BusSpec

----------------------------------------------------------------------------
(* The register bank: types                                                *)

(* frames under Begin and at a return or an unwinding. *)
LEMMA FramesStep ==
  ASSUME BankTypeOK
  PROVE  /\ \A access \in Frame : access.op \in hooked =>
              /\ <<access>> \o frames \in Seq(Frame)
              /\ \A i \in DOMAIN (<<access>> \o frames) : (<<access>> \o frames)[i].op \in hooked
         /\ frames # <<>> =>
              /\ Head(frames) \in Frame /\ Head(frames).op \in hooked
              /\ Tail(frames) \in Seq(Frame)
              /\ \A i \in DOMAIN Tail(frames) : Tail(frames)[i].op \in hooked
  <1>1. ASSUME NEW access \in Frame, access.op \in hooked
        PROVE  /\ <<access>> \o frames \in Seq(Frame)
               /\ \A i \in DOMAIN (<<access>> \o frames) : (<<access>> \o frames)[i].op \in hooked
    <2>1. <<access>> \in Seq(Frame) /\ Len(<<access>>) = 1 /\ <<access>>[1] = access
      OBVIOUS
    <2>2. /\ <<access>> \o frames \in Seq(Frame)
          /\ Len(<<access>> \o frames) = 1 + Len(frames)
          /\ \A i \in 1 .. 1 + Len(frames) :
               (<<access>> \o frames)[i] = IF i <= 1 THEN <<access>>[i] ELSE frames[i - 1]
      BY <2>1, ConcatProperties DEF BankTypeOK
    <2>3. Len(frames) \in Nat /\ \A i \in 1 .. Len(frames) : frames[i].op \in hooked
      BY LenProperties DEF BankTypeOK
    <2>4. DOMAIN (<<access>> \o frames) = 1 .. 1 + Len(frames)
      BY <2>2, LenProperties
    <2> QED
      BY <1>1, <2>1, <2>2, <2>3, <2>4
  <1>2. ASSUME frames # <<>>
        PROVE  /\ Head(frames) \in Frame /\ Head(frames).op \in hooked
               /\ Tail(frames) \in Seq(Frame)
               /\ \A i \in DOMAIN Tail(frames) : Tail(frames)[i].op \in hooked
    BY <1>2, HeadTailProperties, LenProperties, EmptySeq DEF BankTypeOK
  <1> QED
    BY <1>1, <1>2

LEMMA FinishType ==
  ASSUME BankTypeOK, NEW access \in Frame, NEW value \in Words, Finish(access, value)
  PROVE  regs' \in [WordAddresses -> Words] /\ reads' \in Nat /\ writes' \in Nat
  BY DEF BankTypeOK, Finish, FinishRead, FinishWrite, Frame

LEMMA BankTypeStep ==
  ASSUME BankTypeOK, [BankNext]_bankVars
  PROVE  BankTypeOK'
  <1>1. CASE OutOfRange \/ HookThrows \/ Catch \/ UNCHANGED bankVars
    BY <1>1 DEF BankTypeOK, OutOfRange, HookThrows, Catch, bankVars
  <1>2. CASE Unwind
    BY <1>2, FramesStep DEF BankTypeOK, Unwind
  <1>3. ASSUME NEW a \in WordAddresses, NEW v \in Words, Poke(a, v)
        PROVE  BankTypeOK'
    BY <1>3 DEF BankTypeOK, Poke
  <1>4. ASSUME NEW op \in Ops, SetHook(op)
        PROVE  BankTypeOK'
    BY <1>4 DEF BankTypeOK, SetHook, Ops
  <1>5. ASSUME NEW access \in Frame, Begin(access)
        PROVE  BankTypeOK'
    <2>1. UNCHANGED <<hooked, flying>> /\ begun' \in Nat
      BY <1>5 DEF Begin, BankTypeOK
    <2>2. CASE access.op \in hooked
      BY <1>5, <2>1, <2>2, FramesStep DEF Begin, BankTypeOK
    <2>3. CASE access.op \notin hooked
      <3>1. (IF access.op = "read" THEN regs[access.addr] ELSE access.value) \in Words
        BY DEF BankTypeOK, Frame
      <3>2. frames' = frames
            /\ Finish(access, IF access.op = "read" THEN regs[access.addr] ELSE access.value)
        BY <1>5, <2>3 DEF Begin
      <3> QED
        BY <2>1, <3>1, <3>2, FinishType DEF BankTypeOK
    <2> QED
      BY <2>2, <2>3
  <1>6. ASSUME NEW v \in Words, HookReturns(v)
        PROVE  BankTypeOK'
    <2>1. Head(frames) \in Frame /\ Finish(Head(frames), v) /\ frames' = Tail(frames)
      BY <1>6, FramesStep DEF HookReturns
    <2> QED
      BY <1>6, <2>1, FinishType, FramesStep DEF HookReturns, BankTypeOK
  <1> QED
    BY <1>1, <1>2, <1>3, <1>4, <1>5, <1>6 DEF BankNext

(* The bank's variables stay in their types, and a hook that runs is set   *)
(* (mock_hardware.hpp:44-57).                                              *)
THEOREM BankTypeCorrect == BankSpec => []BankTypeOK
  <1>1. BankInit => BankTypeOK
    <2> SUFFICES ASSUME BankInit PROVE BankTypeOK
      OBVIOUS
    <2>1. regs \in [WordAddresses -> Words]
      BY BankAssumption DEF BankInit
    <2>2. frames \in Seq(Frame) /\ \A i \in DOMAIN frames : frames[i].op \in hooked
      BY EmptySeq DEF BankInit
    <2> QED
      BY <2>1, <2>2 DEF BankInit, BankTypeOK
  <1> QED
    BY <1>1, BankTypeStep, PTL DEF BankSpec

----------------------------------------------------------------------------
(* The register bank: refinement                                           *)

(* The end of an access is the access. *)
LEMMA FinishImplements ==
  ASSUME BankTypeOK, NEW access \in Frame, NEW value \in Words, Finish(access, value),
         UNCHANGED hooked,
         \/ access.op \in hooked
         \/ value = IF access.op = "read" THEN regs[access.addr] ELSE access.value
  PROVE  file!Next
  <1>1. access.op \in Ops /\ access.addr \in WordAddresses /\ access.value \in Words
    BY DEF Frame
  <1>2. CASE access.op = "read"
    <2>1. file!Load(access.addr, value)
      BY <1>2 DEF Finish, FinishRead, file!Load, file!Result
    <2> QED
      BY <1>1, <2>1 DEF file!Next
  <1>3. CASE access.op = "write"
    <2>1. file!Store(access.addr, access.value, value)
      BY <1>3 DEF Finish, FinishWrite, file!Store, file!Stored
    <2> QED
      BY <1>1, <2>1 DEF file!Next
  <1> QED
    BY <1>1, <1>2, <1>3 DEF Ops

LEMMA StepImplements ==
  ASSUME BankTypeOK, [BankNext]_bankVars
  PROVE  [file!Next]_(file!vars)
  <1>1. CASE UNCHANGED <<regs, reads, writes, hooked, outcome>>
    BY <1>1 DEF file!vars
  <1>2. CASE OutOfRange \/ Unwind
    BY <1>2 DEF OutOfRange, Unwind, Threw, file!Next, file!Fail, file!Threw
  <1>3. ASSUME NEW a \in WordAddresses, NEW v \in Words, Poke(a, v)
        PROVE  file!Next
    BY <1>3 DEF Poke, file!Next, file!Poke, file!Result
  <1>4. ASSUME NEW op \in Ops, SetHook(op)
        PROVE  file!Next
    BY <1>4 DEF SetHook, Ops, BankTypeOK, file!Next, file!SetHooks
  <1>5. ASSUME NEW access \in Frame, Begin(access), access.op \notin hooked
        PROVE  file!Next
    <2>1. (IF access.op = "read" THEN regs[access.addr] ELSE access.value) \in Words
      BY DEF BankTypeOK, Frame
    <2> QED
      BY <1>5, <2>1, FinishImplements DEF Begin
  <1>6. ASSUME NEW v \in Words, HookReturns(v)
        PROVE  file!Next
    BY <1>6, FramesStep, FinishImplements DEF HookReturns
  <1> QED
    BY <1>1, <1>2, <1>3, <1>4, <1>5, <1>6
    DEF BankNext, HookThrows, Catch, Begin, bankVars

(* Hooks that run in the middle of an access, use the bank themselves and  *)
(* throw do not show: every access is one step (mock_hardware.hpp:44-57).  *)
THEOREM BankImplementsRegisterFile == BankSpec => ImplementsRegisterFile
  <1>1. BankInit => file!Init
    BY DEF BankInit, Threw, file!Init, file!Threw
  <1>2. BankTypeOK /\ [BankNext]_bankVars => [file!Next]_(file!vars)
    BY StepImplements
  <1> QED
    BY <1>1, <1>2, BankTypeCorrect, PTL DEF BankSpec, ImplementsRegisterFile, file!Spec

----------------------------------------------------------------------------
(* The serial port: what is left of a buffer                               *)

(* What is left to read after position p. *)
Rest(s, p) == SubSeq(s, p + 1, Len(s))

LEMMA RestProperties ==
  ASSUME NEW S, NEW s \in Seq(S), NEW p \in 0 .. Len(s)
  PROVE  /\ Rest(s, p) \in Seq(S) /\ Len(Rest(s, p)) = Len(s) - p
         /\ \A i \in 1 .. Len(s) - p : Rest(s, p)[i] = s[p + i]
         /\ Rest(s, p) = <<>> <=> p = Len(s)
  <1>1. Len(s) \in Nat
    BY LenProperties
  <1>2. p + 1 \in 1 .. Len(s) + 1 /\ Len(s) \in p + 1 - 1 .. Len(s)
    BY <1>1
  <1>3. /\ Rest(s, p) \in Seq(S) /\ Len(Rest(s, p)) = Len(s) - p
        /\ \A i \in 1 .. Len(s) - p : Rest(s, p)[i] = s[p + i]
    BY <1>1, <1>2, SubSeqProperties DEF Rest
  <1> QED
    BY <1>1, <1>3, EmptySeq

(* What is injected is read after what was there. *)
LEMMA RestGrows ==
  ASSUME NEW S, NEW s \in Seq(S), NEW t \in Seq(S), NEW p \in 0 .. Len(s)
  PROVE  Rest(s \o t, p) = Rest(s, p) \o t
  <1>1. Len(s) \in Nat /\ Len(t) \in Nat
    BY LenProperties
  <1>2. /\ s \o t \in Seq(S) /\ Len(s \o t) = Len(s) + Len(t)
        /\ \A i \in 1 .. Len(s) + Len(t) :
             (s \o t)[i] = IF i <= Len(s) THEN s[i] ELSE t[i - Len(s)]
    BY ConcatProperties
  <1>3. p \in 0 .. Len(s \o t)
    BY <1>1, <1>2
  <1>4. /\ Rest(s, p) \in Seq(S) /\ Len(Rest(s, p)) = Len(s) - p
        /\ \A i \in 1 .. Len(s) - p : Rest(s, p)[i] = s[p + i]
    BY RestProperties
  <1>5. /\ Rest(s \o t, p) \in Seq(S) /\ Len(Rest(s \o t, p)) = Len(s) + Len(t) - p
        /\ \A i \in 1 .. Len(s) + Len(t) - p : Rest(s \o t, p)[i] = (s \o t)[p + i]
    <2> DEFINE u == s \o t
    <2>1. u \in Seq(S) /\ p \in 0 .. Len(u)
      BY <1>2, <1>3
    <2>4. Len(u) = Len(s) + Len(t)
      BY <1>2
    <2> HIDE DEF u
    <2>2. /\ Rest(u, p) \in Seq(S) /\ Len(Rest(u, p)) = Len(u) - p
          /\ \A i \in 1 .. Len(u) - p : Rest(u, p)[i] = u[p + i]
      BY <2>1, RestProperties
    <2>3. /\ Rest(u, p) \in Seq(S) /\ Len(Rest(u, p)) = Len(s) + Len(t) - p
          /\ \A i \in 1 .. Len(s) + Len(t) - p : Rest(u, p)[i] = u[p + i]
      BY <2>2, <2>4
    <2> QED
      BY <2>3 DEF u
  <1>6. /\ Rest(s, p) \o t \in Seq(S) /\ Len(Rest(s, p) \o t) = Len(s) - p + Len(t)
        /\ \A i \in 1 .. Len(s) - p + Len(t) :
             (Rest(s, p) \o t)[i] = IF i <= Len(s) - p THEN Rest(s, p)[i]
                                    ELSE t[i - (Len(s) - p)]
    <2> DEFINE r == Rest(s, p)
    <2>1. r \in Seq(S) /\ Len(r) = Len(s) - p
      BY <1>4
    <2> HIDE DEF r
    <2>2. /\ r \o t \in Seq(S) /\ Len(r \o t) = Len(r) + Len(t)
          /\ \A i \in 1 .. Len(r) + Len(t) :
               (r \o t)[i] = IF i <= Len(r) THEN r[i] ELSE t[i - Len(r)]
      BY <2>1, ConcatProperties
    <2> QED
      BY <2>1, <2>2 DEF r
  <1>7. Len(Rest(s \o t, p)) = Len(Rest(s, p) \o t)
    BY <1>1, <1>5, <1>6
  <1>8. ASSUME NEW i \in 1 .. Len(s) + Len(t) - p
        PROVE  Rest(s \o t, p)[i] = (Rest(s, p) \o t)[i]
    <2>1. p + i \in 1 .. Len(s) + Len(t) /\ i \in 1 .. Len(s) - p + Len(t)
      BY <1>1
    <2>2. CASE i <= Len(s) - p
      <3>1. (s \o t)[p + i] = s[p + i]
        BY <1>1, <1>2, <2>1, <2>2
      <3>2. (Rest(s, p) \o t)[i] = s[p + i]
        BY <1>1, <1>4, <1>6, <2>1, <2>2
      <3> QED
        BY <1>5, <2>1, <3>1, <3>2
    <2>3. CASE ~(i <= Len(s) - p)
      <3>1. (s \o t)[p + i] = t[p + i - Len(s)]
        BY <1>1, <1>2, <2>1, <2>3
      <3>2. (Rest(s, p) \o t)[i] = t[i - (Len(s) - p)]
        BY <1>6, <2>1, <2>3
      <3>3. p + i - Len(s) = i - (Len(s) - p)
        BY <1>1
      <3>4. Rest(s \o t, p)[i] = (s \o t)[p + i]
        BY <1>5
      <3> QED
        BY <3>1, <3>2, <3>3, <3>4, Zenon
    <2> QED
      BY <2>2, <2>3
  <1> DEFINE x == Rest(s \o t, p)
             y == Rest(s, p) \o t
  <1>9. x \in Seq(S) /\ y \in Seq(S) /\ Len(x) = Len(y) /\ \A i \in 1 .. Len(x) : x[i] = y[i]
    BY <1>5, <1>6, <1>7, <1>8
  <1> HIDE DEF x, y
  <1>10. x = y
    BY <1>9, SeqEqual, Zenon
  <1> QED
    BY <1>10 DEF x, y

(* Reading splits what is left. *)
LEMMA RestSplits ==
  ASSUME NEW S, NEW s \in Seq(S), NEW p \in 0 .. Len(s), NEW q \in p .. Len(s)
  PROVE  /\ SubSeq(s, p + 1, q) \in Seq(S) /\ Len(SubSeq(s, p + 1, q)) = q - p
         /\ SubSeq(s, p + 1, q) \o Rest(s, q) = Rest(s, p)
  <1>1. Len(s) \in Nat
    BY LenProperties
  <1>2. /\ p + 1 \in 1 .. Len(s) + 1 /\ q \in p + 1 - 1 .. Len(s)
        /\ Len(s) \in q .. Len(s)
    BY <1>1
  <1>3. SubSeq(s, p + 1, q) \in Seq(S) /\ Len(SubSeq(s, p + 1, q)) = q - p
    BY <1>1, <1>2, SubSeqProperties
  <1>4. SubSeq(s, p + 1, q) \o SubSeq(s, q + 1, Len(s)) = SubSeq(s, p + 1, Len(s))
    <2> DEFINE m == p + 1
               n == Len(s)
    <2>1. m \in 1 .. Len(s) + 1 /\ q \in m - 1 .. Len(s) /\ n \in q .. Len(s)
      BY <1>2
    <2> HIDE DEF m, n
    <2>2. SubSeq(s, m, q) \o SubSeq(s, q + 1, n) = SubSeq(s, m, n)
      BY <2>1, ConcatAdjacentSubSeq
    <2> QED
      BY <2>2 DEF m, n
  <1> QED
    BY <1>3, <1>4 DEF Rest

(* Reading one byte is reading a block of one. *)
LEMMA OneTaken ==
  ASSUME NEW S, NEW s \in Seq(S), NEW p \in 0 .. Len(s), NEW q \in p .. Len(s), q = p + 1
  PROVE  <<s[q]>> \o Rest(s, q) = Rest(s, p)
  <1> DEFINE t == SubSeq(s, p + 1, q)
             u == <<s[q]>>
  <1>1. Len(s) \in Nat /\ q - p = 1 /\ q \in 1 .. Len(s)
    BY LenProperties
  <1>2. t \in Seq(S) /\ Len(t) = q - p /\ t \o Rest(s, q) = Rest(s, p)
    BY RestSplits
  <1>3. t[1] = s[q]
    BY <1>1, SubSeqProperties
  <1>4. s[q] \in S
    BY <1>1, ElementOfSeq
  <1>5. u \in Seq(S) /\ Len(u) = 1 /\ u[1] = s[q]
    BY <1>4
  <1> HIDE DEF t, u
  <1>6. u = t
    BY <1>1, <1>2, <1>3, <1>5, SeqEqual
  <1> QED
    BY <1>2, <1>6 DEF u

----------------------------------------------------------------------------
(* The serial port: types                                                  *)

LEMMA BlocksAreSequences ==
  ASSUME NEW S, NEW n \in Nat, NEW b \in Blocks(S, n)
  PROVE  b \in Seq(S) /\ DOMAIN b = 1 .. Len(b) /\ Len(b) \in Nat
  <1>1. PICK k \in 0 .. n : b \in [1 .. k -> S]
    BY DEF Blocks
  <1>2. b \in Seq(S)
    BY <1>1
  <1> QED
    BY <1>2, LenProperties

LEMMA BytesInSequences ==
  ASSUME NEW b \in Seq(PortBytes)
  PROVE  b \in Seq(0 .. 255)
  <1> DEFINE T == 0 .. 255
  <1>1. PortBytes \subseteq T
    BY SerialAssumption
  <1> HIDE DEF T
  <1>2. b \in Seq(T)
    BY <1>1, SeqMonotonic
  <1> QED
    BY <1>2 DEF T

(* The conversion of the chars of a string, both ways of putting it. *)
LEMMA CharsAreBytes ==
  ASSUME NEW s \in Seq(Chars)
  PROVE  /\ [i \in DOMAIN s |-> s[i] % 256] \in Seq(0 .. 255)
         /\ [i \in DOMAIN s |-> s[i] % 256] = [i \in DOMAIN s |-> stream!ByteOf(s[i])]
  <1>1. DOMAIN s = 1 .. Len(s) /\ Len(s) \in Nat /\ \A i \in 1 .. Len(s) : s[i] \in Chars
    BY LenProperties, ElementOfSeq
  <1>2. ASSUME NEW c \in Chars
        PROVE  c % 256 \in 0 .. 255 /\ c % 256 = stream!ByteOf(c)
    <2>1. c \in Int /\ -128 <= c /\ c <= 127
      BY DEF Chars
    <2>2. CASE c < 0
      <3>1. c % 256 = c + 256
        BY <2>1, <2>2
      <3> QED
        BY <2>1, <2>2, <3>1 DEF stream!ByteOf
    <2>3. CASE ~(c < 0)
      <3>1. c % 256 = c
        BY <2>1, <2>3
      <3> QED
        BY <2>1, <2>3, <3>1 DEF stream!ByteOf
    <2> QED
      BY <2>2, <2>3
  <1>5. [i \in DOMAIN s |-> s[i] % 256] \in Seq(0 .. 255)
    <2> DEFINE T == 0 .. 255
               Byte(i) == s[i] % 256
    <2>1. \A i \in 1 .. Len(s) : Byte(i) \in T
      BY <1>1, <1>2
    <2> HIDE DEF T, Byte
    <2>2. [i \in 1 .. Len(s) |-> Byte(i)] \in [1 .. Len(s) -> T]
      BY <2>1
    <2>3. [i \in 1 .. Len(s) |-> Byte(i)] \in Seq(T)
      BY <1>1, <2>2
    <2> QED
      BY <1>1, <2>3 DEF T, Byte
  <1>6. [i \in DOMAIN s |-> s[i] % 256] = [i \in DOMAIN s |-> stream!ByteOf(s[i])]
    BY <1>1, <1>2
  <1> QED
    BY <1>5, <1>6

LEMMA TakenBounds ==
  ASSUME PortTypeOK, NEW max \in Nat
  PROVE  /\ rx_pos + Taken(max) \in rx_pos .. Len(rx)
         /\ \/ Taken(max) = max
            \/ Taken(max) < max /\ rx_pos + Taken(max) = Len(rx)
  <1>1. Len(rx) \in Nat /\ rx_pos \in 0 .. Len(rx)
    BY LenProperties DEF PortTypeOK
  <1> DEFINE n == Len(rx)
             d == n - rx_pos
  <1>2. d \in Nat /\ rx_pos + d = n /\ rx_pos \in Nat /\ n \in Nat
    BY <1>1
  <1>3. Taken(max) = IF d <= 0 THEN 0 ELSE IF max < d THEN max ELSE d
    BY DEF Taken
  <1> HIDE DEF n, d
  <1>4. CASE max < d
    <2>1. Taken(max) = max
      BY <1>2, <1>3, <1>4
    <2>2. rx_pos + max \in rx_pos .. n
      BY <1>2, <1>4
    <2> QED
      BY <2>1, <2>2, Zenon DEF n
  <1>5. CASE ~(max < d)
    <2>1. Taken(max) = d
      BY <1>2, <1>3, <1>5
    <2>2. n \in rx_pos .. n /\ (d = max \/ d < max)
      BY <1>2, <1>5
    <2> QED
      BY <1>2, <2>1, <2>2, Zenon DEF n
  <1> QED
    BY <1>4, <1>5

LEMMA PortTypeStep ==
  ASSUME PortTypeOK, [PortNext]_portVars
  PROVE  PortTypeOK'
  <1>0. Len(rx) \in Nat /\ rx_pos \in 0 .. Len(rx)
    BY LenProperties DEF PortTypeOK
  <1>1. ASSUME NEW b \in Seq(0 .. 255)
        PROVE  /\ tx \o b \in Seq(0 .. 255) /\ rx \o b \in Seq(0 .. 255)
               /\ rx_pos \in 0 .. Len(rx \o b)
    BY <1>0, ConcatProperties, LenProperties DEF PortTypeOK
  <1>2. ASSUME NEW b, \/ b \in Blocks(PortBytes, MaxTx) /\ Write(b)
                      \/ b \in Blocks(PortBytes, MaxRx) /\ InjectRx(b)
        PROVE  PortTypeOK'
    <2>1. b \in Seq(PortBytes)
      BY <1>2, BlocksAreSequences, SerialAssumption
    <2>2. b \in Seq(0 .. 255)
      BY <2>1, BytesInSequences
    <2>3. /\ tx \o b \in Seq(0 .. 255) /\ rx \o b \in Seq(0 .. 255)
          /\ rx_pos \in 0 .. Len(rx \o b)
      BY <1>1, <2>2
    <2>4. CASE Write(b)
      <3>1. tx' = tx \o b /\ rx' = rx /\ rx_pos' = rx_pos
        BY <2>4 DEF Write
      <3> QED
        BY <2>3, <3>1 DEF PortTypeOK
    <2>5. CASE InjectRx(b)
      <3>1. tx' = tx /\ rx' = rx \o b /\ rx_pos' = rx_pos
        BY <2>5 DEF InjectRx
      <3> QED
        BY <2>3, <3>1 DEF PortTypeOK
    <2> QED
      BY <1>2, <2>4, <2>5
  <1>3. ASSUME NEW s \in Blocks(Chars, MaxRx), InjectRxString(s)
        PROVE  PortTypeOK'
    <2>1. [i \in DOMAIN s |-> s[i] % 256] \in Seq(0 .. 255)
      BY BlocksAreSequences, CharsAreBytes, SerialAssumption
    <2> QED
      BY <1>1, <1>3, <2>1 DEF PortTypeOK, InjectRxString
  <1>4. ASSUME NEW max \in 0 .. MaxAsked, Read(max)
        PROVE  PortTypeOK'
    <2>1. max \in Nat
      BY SerialAssumption
    <2> QED
      BY <1>0, <1>4, <2>1, TakenBounds DEF PortTypeOK, Read
  <1>5. CASE ReadByte
    BY <1>0, <1>5 DEF ReadByte, PortTypeOK
  <1>6. CASE ClearPort
    BY <1>6, EmptySeq DEF ClearPort, PortTypeOK
  <1>7. CASE UNCHANGED portVars
    BY <1>7 DEF PortTypeOK, portVars
  <1> QED
    BY <1>2, <1>3, <1>4, <1>5, <1>6, <1>7 DEF PortNext

(* The position never passes the end of the buffer, so that rx_remaining   *)
(* does not wrap (mock_hardware.hpp:226-264).                              *)
THEOREM PortTypeCorrect == PortSpec => []PortTypeOK
  <1>1. PortInit => PortTypeOK
    BY EmptySeq DEF PortInit, PortTypeOK
  <1> QED
    BY <1>1, PortTypeStep, PTL DEF PortSpec

----------------------------------------------------------------------------
(* The serial port: refinement                                             *)

LEMMA WriteImplements ==
  ASSUME NEW b, Write(b)
  PROVE  stream!Next
  BY DEF Write, Called, stream!Next, stream!Send

(* An injection extends what is left to read. *)
LEMMA InjectionExtends ==
  ASSUME PortTypeOK, NEW b \in Seq(0 .. 255)
  PROVE  Rest(rx \o b, rx_pos) = Rest(rx, rx_pos) \o b
  <1> DEFINE T == 0 .. 255
  <1>1. b \in Seq(T) /\ rx \in Seq(T) /\ rx_pos \in 0 .. Len(rx)
    BY DEF PortTypeOK
  <1> HIDE DEF T
  <1> QED
    BY <1>1, RestGrows

LEMMA InjectImplements ==
  ASSUME PortTypeOK, NEW b, b \in Blocks(PortBytes, MaxRx), InjectRx(b)
  PROVE  stream!Next
  <1>1. b \in Seq(PortBytes)
    BY BlocksAreSequences, SerialAssumption
  <1>2. b \in Seq(0 .. 255)
    BY <1>1, BytesInSequences
  <1>3. SubSeq(rx \o b, rx_pos + 1, Len(rx \o b)) = SubSeq(rx, rx_pos + 1, Len(rx)) \o b
    BY <1>2, InjectionExtends DEF Rest
  <1>4. stream!Inject
    BY <1>3 DEF InjectRx, Called, stream!Inject
  <1> QED
    BY <1>4 DEF stream!Next

LEMMA InjectStringImplements ==
  ASSUME PortTypeOK, NEW s \in Blocks(Chars, MaxRx), InjectRxString(s)
  PROVE  stream!Next
  <1> DEFINE b == [i \in DOMAIN s |-> s[i] % 256]
  <1>1. b \in Seq(0 .. 255) /\ b = [i \in DOMAIN s |-> stream!ByteOf(s[i])]
    BY BlocksAreSequences, CharsAreBytes, SerialAssumption
  <1>2. SubSeq(rx \o b, rx_pos + 1, Len(rx \o b)) = SubSeq(rx, rx_pos + 1, Len(rx)) \o b
    BY <1>1, InjectionExtends DEF Rest
  <1>3. rx' = rx \o b /\ rx_pos' = rx_pos /\ tx' = tx /\ result' = <<>>
        /\ call'.op = "inject_string" /\ call'.data = s
    BY DEF InjectRxString, Called
  <1> HIDE DEF b
  <1>4. stream!Inject
    BY <1>1, <1>2, <1>3 DEF stream!Inject
  <1> QED
    BY <1>4 DEF stream!Next

LEMMA ReadImplements ==
  ASSUME PortTypeOK, NEW max \in 0 .. MaxAsked, Read(max)
  PROVE  stream!Next
  <1>1. /\ rx' = rx /\ tx' = tx /\ rx_pos' = rx_pos + Taken(max)
        /\ result' = SubSeq(rx, rx_pos + 1, rx_pos')
        /\ call'.op = "read" /\ call'.max = max
    BY DEF Read, Called
  <1>2. max \in Nat /\ rx_pos \in 0 .. Len(rx) /\ Len(rx) \in Nat
    BY SerialAssumption, LenProperties DEF PortTypeOK
  <1>3. /\ rx_pos' \in rx_pos .. Len(rx)
        /\ rx_pos' - rx_pos = max \/ (rx_pos' - rx_pos < max /\ rx_pos' = Len(rx))
    <2> DEFINE n == Taken(max)
    <2>1. n \in Int
      BY <1>2 DEF Taken
    <2>2. /\ rx_pos + n \in rx_pos .. Len(rx)
          /\ n = max \/ (n < max /\ rx_pos + n = Len(rx))
      BY <1>2, TakenBounds
    <2>3. rx_pos' = rx_pos + n
      BY <1>1
    <2> HIDE DEF n
    <2> QED
      BY <1>2, <2>1, <2>2, <2>3
  <1>4. Len(result') = rx_pos' - rx_pos /\ result' \o Rest(rx, rx_pos') = Rest(rx, rx_pos)
    <2> DEFINE T == 0 .. 255
               q == rx_pos'
    <2>1. rx \in Seq(T) /\ rx_pos \in 0 .. Len(rx) /\ q \in rx_pos .. Len(rx)
      BY <1>2, <1>3 DEF PortTypeOK
    <2> HIDE DEF T, q
    <2>2. /\ Len(SubSeq(rx, rx_pos + 1, q)) = q - rx_pos
          /\ SubSeq(rx, rx_pos + 1, q) \o Rest(rx, q) = Rest(rx, rx_pos)
      BY <2>1, RestSplits
    <2> QED
      BY <1>1, <2>2 DEF q
  <1>5. rx_pos' = Len(rx) => Rest(rx, rx_pos') = <<>>
    BY <1>2, <1>3, RestProperties DEF PortTypeOK
  <1>6. stream!Receive
    BY <1>1, <1>3, <1>4, <1>5 DEF stream!Receive, Rest
  <1> QED
    BY <1>6 DEF stream!Next

LEMMA ReadByteImplements ==
  ASSUME PortTypeOK, ReadByte
  PROVE  stream!Next
  <1>1. rx_pos \in 0 .. Len(rx) /\ Len(rx) \in Nat
    BY LenProperties DEF PortTypeOK
  <1>2. rx' = rx /\ tx' = tx /\ call'.op = "read_byte" /\ call'.max = 1
    BY DEF ReadByte, Called
  <1>3. Rest(rx, rx_pos) = <<>> <=> rx_pos = Len(rx)
    BY <1>1, RestProperties DEF PortTypeOK
  <1>4. CASE rx_pos = Len(rx)
    <2>1. result' = <<-1>> /\ rx_pos' = rx_pos
      BY <1>1, <1>4 DEF ReadByte
    <2>2. stream!Receive
      BY <1>2, <1>3, <1>4, <2>1 DEF stream!Receive, Rest
    <2> QED
      BY <2>2 DEF stream!Next
  <1>5. CASE rx_pos # Len(rx)
    <2>1. /\ result' = <<rx[rx_pos + 1]>> /\ rx_pos' = rx_pos + 1
          /\ rx_pos' \in rx_pos .. Len(rx)
      <3>1. result' = <<rx[rx_pos + 1]>> /\ rx_pos' = rx_pos + 1
        BY <1>1, <1>5 DEF ReadByte, PortTypeOK
      <3>2. rx_pos + 1 \in rx_pos .. Len(rx)
        BY <1>1, <1>5 DEF PortTypeOK
      <3> QED
        BY <3>1, <3>2, Zenon
    <2>2. <<rx[rx_pos']>> \o Rest(rx, rx_pos') = Rest(rx, rx_pos)
      BY <1>1, <2>1, OneTaken DEF PortTypeOK
    <2>3. result' \o Rest(rx, rx_pos') = Rest(rx, rx_pos) /\ Len(result') = 1
      BY <2>1, <2>2
    <2>4. stream!Receive
      BY <1>2, <1>3, <1>5, <2>3 DEF stream!Receive, Rest
    <2> QED
      BY <2>4 DEF stream!Next
  <1> QED
    BY <1>4, <1>5

LEMMA ClearImplements ==
  ASSUME ClearPort
  PROVE  stream!Next
  <1>1. SubSeq(rx', rx_pos' + 1, Len(rx')) = <<>>
    BY DEF ClearPort
  <1>2. stream!Clear
    BY <1>1 DEF ClearPort, Called, stream!Clear
  <1> QED
    BY <1>2 DEF stream!Next

(* However writes, injections, reads and clear alternate, the port is two  *)
(* byte streams (mock_hardware.hpp:226-264).                               *)
THEOREM PortImplementsStream == PortSpec => ImplementsStream
  <1>1. PortInit => stream!Init
    <2>1. SubSeq(<<>>, 0 + 1, Len(<<>>)) = <<>>
      OBVIOUS
    <2> QED
      BY <2>1 DEF PortInit, stream!Init, stream!NoCall
  <1>2. PortTypeOK /\ [PortNext]_portVars => [stream!Next]_(stream!vars)
    <2>1. UNCHANGED portVars => UNCHANGED stream!vars
      BY DEF portVars, stream!vars
    <2> QED
      BY <2>1, WriteImplements, InjectImplements, InjectStringImplements,
         ReadImplements, ReadByteImplements, ClearImplements DEF PortNext
  <1> QED
    BY <1>1, <1>2, PortTypeCorrect, PTL DEF PortSpec, ImplementsStream, stream!Spec
================================================================================
