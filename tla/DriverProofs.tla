------------------------------ MODULE DriverProofs ------------------------------
(* The conversions of the TMP102 driver for every temperature and word,    *)
(* and the driver on the bus for every script.                             *)
EXTENDS MCDriver, SequenceTheorems, TLAPS

----------------------------------------------------------------------------
(* Conversions                                                             *)

(* Whole quotients and remainders, for the divisors of the driver. *)
Twelve == 0 .. 4095

LEMMA TwelveBits ==
  ASSUME NEW n \in Int, Representable(n)
  PROVE  /\ n % 4096 \in Twelve
         /\ Signed16((n % 4096) * 16) = n * 16
  BY SMTT(30) DEF Representable, Twelve, Signed16

LEMMA Shifted ==
  ASSUME NEW m \in Twelve
  PROVE  m * 16 \in Word
  BY SMTT(30) DEF Twelve, Word

LEMMA Bytewise ==
  ASSUME NEW n \in Word
  PROVE  Hi(n) \in Byte /\ Lo(n) \in Byte /\ Hi(n) * 256 + Lo(n) = n
  BY SMTT(30) DEF Hi, Lo, Byte, Word

(* What the driver writes or the test loads decodes to what it was.        *)
LEMMA DecodesBack ==
  ASSUME NEW n \in Int, Representable(n)
  PROVE  /\ Hi(Raw(n)) \in Byte /\ Lo(Raw(n)) \in Byte
         /\ Decode(Hi(Raw(n)), Lo(Raw(n))) = n
  <1>1. Raw(n) \in Word
    BY TwelveBits, Shifted DEF Raw
  <1>2. /\ Hi(Raw(n)) \in Byte /\ Lo(Raw(n)) \in Byte
        /\ Hi(Raw(n)) * 256 + Lo(Raw(n)) = Raw(n)
    BY <1>1, Bytewise
  <1>3. Signed16(Raw(n)) = n * 16
    BY TwelveBits DEF Raw
  <1>4. (n * 16) \div 16 = n
    OBVIOUS
  <1> QED
    BY <1>2, <1>3, <1>4 DEF Decode

LEMMA TruncatesTowardZero ==
  ASSUME NEW c \in Int
  PROVE  /\ Counts(c) \in Int
         /\ c >= 0 => /\ Counts(c) >= 0 /\ Counts(c) * 100 <= c * 16
                      /\ c * 16 < (Counts(c) + 1) * 100
         /\ c < 0 => /\ Counts(c) <= 0 /\ c * 16 <= Counts(c) * 100
                     /\ (Counts(c) - 1) * 100 < c * 16
  BY DEF Counts

(* Every limit, stored and read back.                                      *)
LEMMA StoredLimit ==
  ASSUME NEW c \in Int
  PROVE  LET counts == Counts(c)
             raw == Raw(counts)
         IN  IF Representable(counts)
             THEN /\ Hi(raw) \in Byte /\ Lo(raw) \in Byte
                  /\ Decode(Hi(raw), Lo(raw)) = counts
                  /\ Magnitude(counts) * 100 <= Magnitude(c) * 16
                  /\ Magnitude(c) * 16 < (Magnitude(counts) + 1) * 100
                  /\ counts * c >= 0
             ELSE c * 16 < -2048 * 100 \/ c * 16 > 2047 * 100
  <1> DEFINE n == Counts(c)
  <1>1. /\ n \in Int
        /\ c >= 0 => n >= 0 /\ n * 100 <= c * 16 /\ c * 16 < (n + 1) * 100
        /\ c < 0 => n <= 0 /\ c * 16 <= n * 100 /\ (n - 1) * 100 < c * 16
    BY TruncatesTowardZero
  <1> HIDE DEF n
  <1>2. n * c >= 0
    <2>1. \A a \in Nat : \A b \in Nat : a * b >= 0
      OBVIOUS
    <2>2. CASE c >= 0
      BY <1>1, <2>1, <2>2
    <2>3. CASE c < 0
      BY <1>1, <2>1, <2>3
    <2> QED
      BY <2>2, <2>3
  <1>3. /\ Magnitude(n) * 100 <= Magnitude(c) * 16
        /\ Magnitude(c) * 16 < (Magnitude(n) + 1) * 100
    BY <1>1 DEF Magnitude
  <1>4. ~Representable(n) => c * 16 < -2048 * 100 \/ c * 16 > 2047 * 100
    BY <1>1 DEF Representable
  <1>5. Representable(n) => /\ Hi(Raw(n)) \in Byte /\ Lo(Raw(n)) \in Byte
                            /\ Decode(Hi(Raw(n)), Lo(Raw(n))) = n
    BY <1>1, DecodesBack
  <1> QED
    BY <1>2, <1>3, <1>4, <1>5, SMT DEF n

LEMMA Inputs == MCSpec => [](celsius \in Int /\ word \in Word)
  <1>1. MCInit => celsius \in Int /\ word \in Word
    <2>1. 0 \in Word
      BY DEF Word
    <2> QED
      BY <2>1 DEF MCInit
  <1>2. /\ celsius \in Int /\ word \in Word
        /\ [MCNext]_<<vars, celsius, word>>
        => (celsius \in Int /\ word \in Word)'
    BY DEF MCNext
  <1> QED
    BY <1>1, <1>2, PTL DEF MCSpec

(* Whatever limit is asked for, the driver stores the nearest count toward *)
(* zero or rightly refuses (temperature_sensor.hpp:70-79).                 *)
THEOREM LimitsRoundTrip == MCSpec => []LimitRoundTrips
  <1>1. celsius \in Int => LimitRoundTrips
    BY StoredLimit DEF LimitRoundTrips
  <1> QED
    BY <1>1, Inputs, PTL

(* Every word decodes as a left-justified 12-bit two's complement number   *)
(* (temperature_sensor.hpp:45-50).                                         *)
THEOREM DecodesTwosComplement == MCSpec => []DecodeIsTwosComplement
  <1>1. ASSUME NEW w \in Word
        PROVE  Decode(Hi(w), Lo(w)) = IF w \div 16 >= 2048 THEN w \div 16 - 4096 ELSE w \div 16
    <2>1. Hi(w) * 256 + Lo(w) = w
      BY Bytewise
    <2>2. Signed16(w) \div 16 = IF w \div 16 >= 2048 THEN w \div 16 - 4096 ELSE w \div 16
      BY SMTT(30) DEF Signed16, Word
    <2> QED
      BY <2>1, <2>2 DEF Decode
  <1>2. word \in Word => DecodeIsTwosComplement
    BY <1>1 DEF DecodeIsTwosComplement
  <1> QED
    BY <1>2, Inputs, PTL

----------------------------------------------------------------------------
(* The driver on the bus                                                   *)

LimitRegisters == {kRegTLow, kRegTHigh}

Typed ==
  /\ Sensor \in attached /\ devices \in [Addresses -> Devices]
  /\ pc \in {"idle", "read lo", "write config", "write limit lo"}
  /\ limits \in [LimitRegisters -> Int] /\ latest \in LimitRegisters \cup {None}

(* What a method carries from its first access to the second: no step of   *)
(* the test comes between them.                                            *)
Carry(r, b) == [reg |-> r, byte |-> b]

Carried ==
  /\ pc = "read lo" => arg = Carry(kRegTemp + 1, Held(kRegTemp))
  /\ pc = "write config" => \E b \in Byte : arg = Carry(kRegConfig, b)
  /\ pc = "write limit lo" =>
       /\ latest \in LimitRegisters /\ accepted = 1
       /\ Held(latest) = Hi(Raw(limits[latest])) /\ Held(latest + 1) = before.lo
       /\ \E b \in Byte : /\ arg = Carry(latest + 1, b)
                          /\ Decode(Held(latest), b) = limits[latest]

LoadedStays == loaded # None /\ ~triggered => Pair(kRegTemp) = loaded

LimitStays ==
  latest # None /\ pc # "write limit lo" => AsFarAsAccepted

SensorInv == Typed /\ Carried /\ LoadedStays /\ LimitStays /\ ReadingIsWhatWasLoaded

LEMMA RegisterMap ==
  /\ 0 \in Registers /\ 1 \in Registers /\ 2 \in Registers /\ 3 \in Registers
  /\ 4 \in Registers
  /\ Sensor \in Addresses /\ Bytes = Byte
  BY SensorAssumption DEF kRegTemp, kRegTHigh

LEMMA OneShotIsAByte ==
  ASSUME NEW cfg \in Byte
  PROVE  WithOneShot(cfg) \in Byte
  BY DEF WithOneShot, Byte

(* One register of one device is set, and nothing else. *)
Set(d, a, r, v) == [d EXCEPT ![a][r] = v]

LEMMA OneRegister ==
  ASSUME NEW d \in [Addresses -> Devices], NEW a \in Addresses, NEW r \in Registers,
         NEW v \in Byte
  PROVE  /\ Set(d, a, r, v) \in [Addresses -> Devices]
         /\ Set(d, a, r, v)[a][r] = v
         /\ \A q \in Registers \ {r} : Set(d, a, r, v)[a][q] = d[a][q]
  <1> USE DEF Set
  <1>1. d[a] \in [Registers -> Byte]
    BY RegisterMap DEF Devices
  <1>2. Set(d, a, r, v)[a] = [d[a] EXCEPT ![r] = v]
    OBVIOUS
  <1>3. Set(d, a, r, v) \in [Addresses -> Devices]
    BY <1>1, RegisterMap DEF Devices
  <1> QED
    BY <1>1, <1>2, <1>3

LEMMA OneRegisterSet ==
  ASSUME Typed, NEW r \in Registers, NEW v \in Byte,
         devices' = [devices EXCEPT ![Sensor][r] = v]
  PROVE  /\ devices' \in [Addresses -> Devices]
         /\ Held(r)' = v
         /\ \A q \in Registers : q # r => Held(q)' = Held(q)
  <1>1. devices \in [Addresses -> Devices] /\ Sensor \in Addresses
    BY RegisterMap DEF Typed
  <1>2. devices' = Set(devices, Sensor, r, v)
    BY DEF Set
  <1>3. /\ devices' \in [Addresses -> Devices] /\ devices'[Sensor][r] = v
        /\ \A q \in Registers \ {r} : devices'[Sensor][q] = devices[Sensor][q]
    <2>1. LET e == Set(devices, Sensor, r, v)
          IN  /\ e \in [Addresses -> Devices] /\ e[Sensor][r] = v
              /\ \A q \in Registers \ {r} : e[Sensor][q] = devices[Sensor][q]
      BY <1>1, OneRegister
    <2> QED
      BY <1>2, <2>1, Zenon
  <1> QED
    BY <1>3 DEF Held

(* An access is refused and changes nothing, or a write is stored.         *)
LEMMA AccessEffect ==
  ASSUME Typed, NEW o \in {"Read", "Write"}, NEW r \in Registers, NEW v \in Byte,
         Access(Transaction(o, Sensor, r, v))
  PROVE  /\ Sensor \in attached' /\ devices' \in [Addresses -> Devices]
         /\ threw' \in BOOLEAN
         /\ threw' => \A q \in Registers : Held(q)' = Held(q)
         /\ ~threw' => /\ o = "Write" => Held(r)' = v
                       /\ \A q \in Registers : o = "Read" \/ q # r => Held(q)' = Held(q)
  <1> DEFINE t == Transaction(o, Sensor, r, v)
  <1>1. t.op = o /\ t.addr = Sensor /\ t.reg = r /\ t.value = v
    BY DEF Transaction
  <1> HIDE DEF t
  <1>2. CASE Refuse(t)
    BY <1>1, <1>2 DEF Refuse, Held, Typed
  <1>3. CASE Perform(t)
    <2>1. CASE o = "Write"
      <3>1. devices' = [devices EXCEPT ![Sensor][r] = v]
        BY <1>1, <1>3, <2>1 DEF Perform
      <3> QED
        BY <1>3, <2>1, <3>1, OneRegisterSet DEF Perform, Typed
    <2>2. CASE o = "Read"
      BY <1>1, <1>3, <2>2 DEF Perform, Held, Typed
    <2> QED
      BY <2>1, <2>2
  <1>4. ~NoDevice(t.addr)
    BY <1>1 DEF NoDevice, Typed
  <1> QED
    BY <1>2, <1>3, <1>4 DEF Access, t

LEMMA SensorInit == Init => SensorInv
  <1> SUFFICES ASSUME Init PROVE SensorInv
    OBVIOUS
  <1> USE DEF Init, None
  <1>1. 0 \in Byte /\ 96 \in Byte
    BY DEF Byte
  <1>2. devices \in [Addresses -> Devices]
    BY <1>1, RegisterMap DEF Devices
  <1>3. Typed
    BY <1>1, <1>2, RegisterMap DEF Typed, Idle, LimitRegisters, kRegTemp
  <1> QED
    BY <1>3 DEF SensorInv, Carried, LoadedStays, ReadingIsWhatWasLoaded, LimitStays

LEMMA BothBytes == \A r \in {2, 3} : r \in {2, 3, 4} /\ r + 1 \in {2, 3, 4}
  OBVIOUS

LEMMA LimitsUndisturbed ==
  ASSUME Typed, LimitStays, pc # "write limit lo", UNCHANGED written,
         \A q \in {2, 3, 4} : Held(q)' = Held(q)
  PROVE  LimitStays'
  <1> SUFFICES ASSUME latest # None PROVE AsFarAsAccepted'
    BY DEF LimitStays, written
  <1>1. AsFarAsAccepted /\ latest \in {2, 3}
    BY DEF LimitStays, Typed, LimitRegisters, kRegTLow, kRegTHigh
  <1>2. Held(latest)' = Held(latest) /\ Held(latest + 1)' = Held(latest + 1)
    <2>1. latest' = latest
      BY DEF written
    <2>2. latest \in {2, 3, 4} /\ latest + 1 \in {2, 3, 4}
      BY <1>1, BothBytes, Zenon
    <2> QED
      BY <2>1, <2>2 DEF Held
  <1>3. UNCHANGED written
    OBVIOUS
  <1> QED
    BY <1>1, <1>2, <1>3, Zenon DEF AsFarAsAccepted, Pair, written

LEMMA LoadStep ==
  ASSUME SensorInv, NEW counts \in Samples, LoadTemperature(counts)
  PROVE  SensorInv'
  <1> USE DEF kRegTemp, kRegTLow, kRegTHigh, LimitRegisters
  <1> DEFINE hi == Hi(Raw(counts))
             lo == Lo(Raw(counts))
  <1>1. Typed /\ pc = "idle"
    BY DEF SensorInv, LoadTemperature
  <1>2. hi \in Byte /\ lo \in Byte /\ Decode(hi, lo) = counts
    BY SensorAssumption, DecodesBack
  <1> HIDE DEF hi, lo
  <1>3. /\ devices' \in [Addresses -> Devices]
        /\ Held(0)' = hi /\ Held(1)' = lo
        /\ \A q \in Registers \ {0, 1} : Held(q)' = Held(q)
    <2> DEFINE half == Set(devices, Sensor, 0, hi)
               full == Set(half, Sensor, 1, lo)
    <2>1. devices' = full
      BY <1>1, RegisterMap DEF LoadTemperature, Typed, hi, lo, Set
    <2>2. /\ half \in [Addresses -> Devices] /\ half[Sensor][0] = hi
          /\ \A q \in Registers \ {0} : half[Sensor][q] = devices[Sensor][q]
      BY <1>1, <1>2, RegisterMap, OneRegister DEF Typed
    <2> HIDE DEF half
    <2>3. /\ full \in [Addresses -> Devices] /\ full[Sensor][1] = lo
          /\ \A q \in Registers \ {1} : full[Sensor][q] = half[Sensor][q]
      BY <1>2, <2>2, RegisterMap, OneRegister
    <2> HIDE DEF full
    <2> QED
      BY <2>1, <2>2, <2>3, RegisterMap DEF Held
  <1>4. Typed'
    BY <1>1, <1>3 DEF Typed, LoadTemperature, written
  <1>5. Carried'
    BY <1>1 DEF Carried, LoadTemperature
  <1>6. LoadedStays'
    BY <1>2, <1>3 DEF LoadedStays, Pair, LoadTemperature
  <1>7. ReadingIsWhatWasLoaded'
    BY DEF ReadingIsWhatWasLoaded, LoadTemperature
  <1>8. LimitStays'
    <2>1. \A q \in {2, 3, 4} : Held(q)' = Held(q)
      BY <1>3, RegisterMap
    <2> QED
      BY <1>1, <2>1, LimitsUndisturbed DEF SensorInv, LoadTemperature
  <1> QED
    BY <1>4, <1>5, <1>6, <1>7, <1>8 DEF SensorInv

LEMMA ScriptStep ==
  ASSUME SensorInv, NEW line \in ScriptLines, Script(line)
  PROVE  SensorInv'
  <1> USE DEF kRegTemp, kRegTLow, kRegTHigh, LimitRegisters
  <1>1. Typed /\ pc = "idle" /\ pc' = "idle" /\ UNCHANGED <<arg, reading, triggered, strayed>>
    BY DEF SensorInv, Script, ExpectRead, ExpectWrite, NoDevice
  <1>2. /\ line.reg \in Registers /\ line.value \in Byte /\ line.addr \in Addresses
        /\ line.op \in {"Read", "Write"}
    BY SensorAssumption DEF Transactions
  <1>3. /\ devices' \in [Addresses -> Devices] /\ attached' = attached
        /\ \A q \in Registers :
             \/ line.op = "Read" /\ line.addr = Sensor /\ line.reg = q
             \/ Held(q)' = Held(q)
    <2>1. CASE devices' = devices
      BY <1>1, <2>1 DEF Typed, Held, Script, ExpectRead, ExpectWrite, NoDevice
    <2>2. CASE line.op = "Read" /\ devices' = [devices EXCEPT ![line.addr][line.reg] = line.value]
      <3>1. attached' = attached
        BY DEF Script, ExpectRead, ExpectWrite, NoDevice
      <3>2. CASE line.addr = Sensor
        BY <1>1, <1>2, <2>2, <3>1, <3>2, OneRegisterSet
      <3>3. CASE line.addr # Sensor
        <4>1. devices' \in [Addresses -> Devices] /\ devices'[Sensor] = devices[Sensor]
          BY <1>1, <1>2, <2>2, <3>3, RegisterMap DEF Typed, Devices
        <4> QED
          BY <3>1, <4>1 DEF Held
      <3> QED
        BY <3>2, <3>3
    <2> QED
      BY <2>1, <2>2 DEF Script, ExpectRead, ExpectWrite, NoDevice
  <1>4. /\ loaded' = IF Seeds(line, 0) THEN None ELSE loaded
        /\ latest' = IF Seeds(line, latest) THEN None ELSE latest
        /\ limits' = [r \in LimitRegisters |-> IF Seeds(line, r) THEN None ELSE limits[r]]
    BY <1>1 DEF Script, Typed
  <1>5. Typed'
    BY <1>1, <1>3, <1>4 DEF Typed, None
  <1>6. Carried'
    BY <1>1 DEF Carried
  <1>7. \A r \in {0, 2, 3} : Seeds(line, r) \/ Pair(r)' = Pair(r)
    <2> TAKE r \in {0, 2, 3}
    <2>1. r \in Registers /\ r + 1 \in Registers /\ r \in r .. r + 1 /\ r + 1 \in r .. r + 1
      BY RegisterMap
    <2> QED
      BY <1>3, <2>1 DEF Pair, Seeds
  <1>8. LoadedStays'
    BY <1>1, <1>4, <1>7 DEF SensorInv, LoadedStays
  <1>9. ReadingIsWhatWasLoaded'
    BY <1>1, <1>4 DEF SensorInv, ReadingIsWhatWasLoaded
  <1>10. LimitStays'
    <2> SUFFICES ASSUME latest' # None PROVE AsFarAsAccepted'
      BY DEF LimitStays
    <2>1. ~Seeds(line, latest) /\ latest' = latest /\ latest \in {2, 3}
      BY <1>1, <1>4 DEF Typed
    <2>2. limits'[latest'] = limits[latest] /\ AsFarAsAccepted
      BY <1>1, <1>4, <2>1 DEF SensorInv, LimitStays, None
    <2>3. latest \in latest .. latest + 1 /\ latest + 1 \in latest .. latest + 1
      BY <2>1
    <2>4. Held(latest)' = Held(latest) /\ Held(latest + 1)' = Held(latest + 1)
      BY <1>3, <2>1, <2>3, RegisterMap DEF Seeds, Held
    <2>5. UNCHANGED <<before, accepted>>
      BY DEF Script
    <2> QED
      BY <2>2, <2>4, <2>5, Zenon DEF AsFarAsAccepted, Pair
  <1> QED
    BY <1>5, <1>6, <1>8, <1>9, <1>10 DEF SensorInv

LEMMA HeldIsAByte ==
  ASSUME Typed, NEW r \in Registers
  PROVE  Held(r) \in Byte
  BY RegisterMap DEF Typed, Devices, Held

(* The three pairs. *)
LEMMA Pairs ==
  /\ Pair(0) = Decode(Held(0), Held(1)) /\ Pair(0)' = Decode(Held(0)', Held(1)')
  /\ Pair(2) = Decode(Held(2), Held(3)) /\ Pair(2)' = Decode(Held(2)', Held(3)')
  /\ Pair(3) = Decode(Held(3), Held(4)) /\ Pair(3)' = Decode(Held(3)', Held(4)')
  <1>1. 0 + 1 = 1 /\ 2 + 1 = 3 /\ 3 + 1 = 4
    OBVIOUS
  <1> QED
    BY <1>1, Zenon DEF Pair

(* What an access that stores nothing leaves as it was. *)
LEMMA Undisturbed ==
  ASSUME SensorInv, pc # "write limit lo", \A q \in Registers : Held(q)' = Held(q),
         UNCHANGED <<loaded, triggered, written>>
  PROVE  LoadedStays' /\ LimitStays'
  <1>1. Pair(0)' = Pair(0)
    BY RegisterMap, Pairs
  <1>2. LoadedStays'
    BY <1>1 DEF SensorInv, LoadedStays, kRegTemp
  <1>3. \A q \in {2, 3, 4} : Held(q)' = Held(q)
    BY RegisterMap
  <1> QED
    BY <1>2, <1>3, LimitsUndisturbed DEF SensorInv

LEMMA CarryFields ==
  ASSUME NEW r, NEW b
  PROVE  Carry(r, b).reg = r /\ Carry(r, b).byte = b
  BY Zenon DEF Carry

LEMMA ReadHiStep ==
  ASSUME SensorInv, ReadHi
  PROVE  SensorInv'
  <1> USE DEF kRegTemp, kRegTLow, kRegTHigh, LimitRegisters
  <1>1. Access(Transaction("Read", Sensor, 0, Held(0)))
    BY Zenon DEF ReadHi, First, ReadRegister, Held
  <1>2. Typed /\ Held(0) \in Byte
    BY HeldIsAByte, RegisterMap DEF SensorInv
  <1>3. /\ Sensor \in attached' /\ devices' \in [Addresses -> Devices]
        /\ \A q \in Registers : Held(q)' = Held(q)
    BY <1>1, <1>2, RegisterMap, AccessEffect
  <1>4. \/ pc' = "idle" /\ arg' = Idle
        \/ pc' = "read lo" /\ arg' = Carry(0 + 1, Held(0))
    BY Zenon DEF ReadHi, First, Carry
  <1>5. UNCHANGED <<reading, loaded, triggered, written>> /\ pc = "idle"
    BY DEF ReadHi, First
  <1>6. Typed'
    BY <1>2, <1>3, <1>4, <1>5 DEF Typed, written
  <1>7. Carried'
    <2>1. Held(0)' = Held(0)
      BY <1>3, RegisterMap
    <2> QED
      BY <1>4, <2>1, Zenon DEF Carried
  <1>8. LoadedStays' /\ LimitStays' /\ ReadingIsWhatWasLoaded'
    BY <1>3, <1>5, Undisturbed DEF SensorInv, ReadingIsWhatWasLoaded
  <1> QED
    BY <1>6, <1>7, <1>8 DEF SensorInv

LEMMA ReadLoStep ==
  ASSUME SensorInv, ReadLo
  PROVE  SensorInv'
  <1> USE DEF kRegTemp, kRegTLow, kRegTHigh, LimitRegisters
  <1>1. pc = "read lo" /\ pc' = "idle" /\ Typed
    BY DEF ReadLo, Second, SensorInv
  <1>2. arg = Carry(1, Held(0)) /\ 0 + 1 = 1
    <2>1. arg = Carry(0 + 1, Held(0))
      BY <1>1, Zenon DEF SensorInv, Carried
    <2>2. 0 + 1 = 1
      OBVIOUS
    <2> QED
      BY <2>1, <2>2, Zenon
  <1>3. Access(Transaction("Read", Sensor, 1, Held(1)))
    BY <1>2, CarryFields, Zenon DEF ReadLo, Second, ReadRegister, Held
  <1>4. reading' = reading \/ reading' = Pair(0)
    BY <1>2, CarryFields, Zenon DEF ReadLo, Pair
  <1>5. /\ Sensor \in attached' /\ devices' \in [Addresses -> Devices]
        /\ \A q \in Registers : Held(q)' = Held(q)
    BY <1>1, <1>3, HeldIsAByte, RegisterMap, AccessEffect
  <1>6. UNCHANGED <<loaded, triggered, written>>
    BY DEF ReadLo
  <1>7. Typed'
    BY <1>1, <1>5, <1>6 DEF Typed, written
  <1>8. Carried'
    BY <1>1 DEF Carried
  <1>9. LoadedStays' /\ LimitStays'
    BY <1>1, <1>5, <1>6, Undisturbed
  <1>10. ReadingIsWhatWasLoaded'
    BY <1>4, <1>6 DEF SensorInv, LoadedStays, ReadingIsWhatWasLoaded
  <1> QED
    BY <1>7, <1>8, <1>9, <1>10 DEF SensorInv

LEMMA ReadConfigStep ==
  ASSUME SensorInv, ReadConfig
  PROVE  SensorInv'
  <1> USE DEF kRegTemp, kRegTLow, kRegTHigh, LimitRegisters
  <1> DEFINE cfg == WithOneShot(Held(1))
  <1>1. Access(Transaction("Read", Sensor, 1, Held(1)))
    BY Zenon DEF ReadConfig, First, ReadRegister, Held, kRegConfig
  <1>2. Typed /\ Held(1) \in Byte /\ cfg \in Byte
    BY HeldIsAByte, OneShotIsAByte, RegisterMap DEF SensorInv
  <1>3. /\ Sensor \in attached' /\ devices' \in [Addresses -> Devices]
        /\ \A q \in Registers : Held(q)' = Held(q)
    BY <1>1, <1>2, RegisterMap, AccessEffect
  <1>4. \/ pc' = "idle"
        \/ pc' = "write config" /\ arg' = Carry(kRegConfig, cfg)
    BY Zenon DEF ReadConfig, First, Carry, kRegConfig
  <1>5. UNCHANGED <<reading, loaded, triggered, written>> /\ pc = "idle"
    BY DEF ReadConfig, First
  <1> HIDE DEF cfg
  <1>6. Typed'
    BY <1>2, <1>3, <1>4, <1>5 DEF Typed, written
  <1>7. Carried'
    BY <1>2, <1>4, Zenon DEF Carried
  <1>8. LoadedStays' /\ LimitStays' /\ ReadingIsWhatWasLoaded'
    BY <1>3, <1>5, Undisturbed DEF SensorInv, ReadingIsWhatWasLoaded
  <1> QED
    BY <1>6, <1>7, <1>8 DEF SensorInv

LEMMA WriteConfigStep ==
  ASSUME SensorInv, WriteConfig
  PROVE  SensorInv'
  <1> USE DEF kRegTemp, kRegTLow, kRegTHigh, LimitRegisters
  <1>1. pc = "write config" /\ pc' = "idle" /\ Typed
    BY DEF WriteConfig, Second, SensorInv
  <1>2. PICK b \in Byte : arg = Carry(1, b)
    BY <1>1, Zenon DEF SensorInv, Carried, kRegConfig
  <1>3. Access(Transaction("Write", Sensor, 1, b))
    BY <1>2, CarryFields, Zenon DEF WriteConfig, Second, WriteRegister
  <1>4. /\ Sensor \in attached' /\ devices' \in [Addresses -> Devices]
        /\ \A q \in Registers : threw' \/ q # 1 => Held(q)' = Held(q)
    BY <1>1, <1>3, RegisterMap, AccessEffect
  <1>5. UNCHANGED <<reading, loaded, written>> /\ triggered' = (triggered \/ ~threw')
    BY DEF WriteConfig
  <1>6. Typed'
    BY <1>1, <1>4, <1>5 DEF Typed, written
  <1>7. Carried'
    BY <1>1 DEF Carried
  <1>8. ~triggered' => ~triggered /\ threw'
    BY <1>5, Zenon
  <1>9. LoadedStays'
    <2>1. ~triggered' => Pair(0)' = Pair(0)
      BY <1>4, <1>8, RegisterMap, Pairs
    <2> QED
      BY <1>5, <1>8, <2>1 DEF SensorInv, LoadedStays
  <1>10. ReadingIsWhatWasLoaded'
    BY <1>5, <1>8 DEF SensorInv, ReadingIsWhatWasLoaded
  <1>11. LimitStays'
    <2>1. \A q \in {2, 3, 4} : Held(q)' = Held(q)
      BY <1>4, RegisterMap
    <2> QED
      BY <1>1, <1>5, <2>1, LimitsUndisturbed DEF SensorInv
  <1> QED
    BY <1>6, <1>7, <1>9, <1>10, <1>11 DEF SensorInv

LEMMA WriteLimitHiStep ==
  ASSUME SensorInv, NEW reg \in LimitRegisters, NEW c \in Limits, WriteLimitHi(reg, c)
  PROVE  SensorInv'
  <1> DEFINE n == Counts(c)
             hi == Hi(Raw(n))
             lo == Lo(Raw(n))
  <1>1. Typed /\ pc = "idle"
    BY DEF SensorInv, WriteLimitHi, First
  <1>2. n \in Int /\ Representable(n)
    BY SensorAssumption, TruncatesTowardZero DEF WriteLimitHi
  <1>3. hi \in Byte /\ lo \in Byte /\ Decode(hi, lo) = n
    BY <1>2, DecodesBack
  <1>4. Access(Transaction("Write", Sensor, reg, hi))
    BY Zenon DEF WriteLimitHi, First, WriteRegister
  <1>5. \/ threw' /\ pc' = "idle"
        \/ ~threw' /\ pc' = "write limit lo" /\ arg' = Carry(reg + 1, lo)
    BY Zenon DEF WriteLimitHi, First, Carry
  <1>6. /\ limits' = [limits EXCEPT ![reg] = n] /\ latest' = reg
        /\ before' = [hi |-> Held(reg), lo |-> Held(reg + 1)]
        /\ accepted' = IF threw' THEN 0 ELSE 1
        /\ UNCHANGED <<reading, loaded, triggered>>
    BY DEF WriteLimitHi
  <1> HIDE DEF n, hi, lo
  <1>7. reg \in Registers /\ reg # 0 /\ reg # 1
    BY RegisterMap DEF LimitRegisters, kRegTLow, kRegTHigh
  <1>8. /\ Sensor \in attached' /\ devices' \in [Addresses -> Devices]
        /\ threw' => \A q \in Registers : Held(q)' = Held(q)
        /\ ~threw' => Held(reg)' = hi
        /\ \A q \in Registers : q # reg => Held(q)' = Held(q)
    BY <1>1, <1>3, <1>4, <1>7, AccessEffect
  <1>9. Typed'
    BY <1>1, <1>2, <1>5, <1>6, <1>8 DEF Typed
  <1>10. /\ before'.hi = Held(reg) /\ before'.lo = Held(reg + 1)
         /\ Held(reg + 1)' = Held(reg + 1)
         /\ limits'[reg] = n
    <2>1. reg + 1 \in Registers /\ reg + 1 # reg
      BY RegisterMap DEF LimitRegisters, kRegTLow, kRegTHigh
    <2> QED
      BY <1>1, <1>2, <1>6, <1>8, <2>1 DEF Typed
  <1>14. Carried'
    <2>1. ~threw' => /\ Decode(Held(reg)', lo) = limits'[reg]
                     /\ Held(reg)' = Hi(Raw(limits'[reg])) /\ accepted' = 1
      <3>1. hi = Hi(Raw(n))
        BY DEF hi
      <3> QED
        BY <1>3, <1>6, <1>8, <1>10, <3>1
    <2>2. Held(reg)' = Held(latest)' /\ Held(reg + 1)' = Held(latest + 1)'
      BY <1>6 DEF Held
    <2> QED
      BY <1>3, <1>5, <1>6, <1>10, <2>1, <2>2, Zenon DEF Carried
  <1>11. LoadedStays'
    <2>1. Pair(0)' = Pair(0)
      BY <1>7, <1>8, RegisterMap, Pairs
    <2> QED
      BY <1>6, <2>1 DEF SensorInv, LoadedStays, kRegTemp
  <1>12. LimitStays'
    <2> SUFFICES ASSUME threw' PROVE AsFarAsAccepted'
      BY <1>5 DEF LimitStays
    <2>1. Held(latest)' = Held(reg) /\ Held(latest + 1)' = Held(reg + 1)
      BY <1>6, <1>7, <1>8, <1>10 DEF Held
    <2>2. accepted' = 0
      BY <1>6
    <2> QED
      BY <1>10, <2>1, <2>2 DEF AsFarAsAccepted
  <1>13. ReadingIsWhatWasLoaded'
    BY <1>6 DEF SensorInv, ReadingIsWhatWasLoaded
  <1> QED
    BY <1>9, <1>11, <1>12, <1>13, <1>14 DEF SensorInv

LEMMA WriteLimitLoStep ==
  ASSUME SensorInv, WriteLimitLo
  PROVE  SensorInv'
  <1>1. pc = "write limit lo" /\ pc' = "idle" /\ Typed
    BY DEF WriteLimitLo, Second, SensorInv
  <1>2. PICK b \in Byte : /\ latest \in LimitRegisters /\ arg = Carry(latest + 1, b)
                          /\ Decode(Held(latest), b) = limits[latest]
                          /\ Held(latest) = Hi(Raw(limits[latest])) /\ accepted = 1
                          /\ Held(latest + 1) = before.lo
    BY <1>1, Zenon DEF SensorInv, Carried
  <1>3. Access(Transaction("Write", Sensor, latest + 1, b))
    BY <1>2, CarryFields, ZenonT(60) DEF WriteLimitLo, Second, WriteRegister
  <1>4. /\ UNCHANGED <<reading, loaded, triggered, limits, latest, before>>
        /\ accepted' = IF threw' THEN accepted ELSE accepted + 1
    BY DEF WriteLimitLo
  <1>5. /\ latest \in Registers /\ latest + 1 \in Registers /\ latest # latest + 1
        /\ latest + 1 # 0 /\ latest + 1 # 1
    BY <1>2, RegisterMap DEF LimitRegisters, kRegTLow, kRegTHigh
  <1>6. /\ Sensor \in attached' /\ devices' \in [Addresses -> Devices]
        /\ threw' => \A q \in Registers : Held(q)' = Held(q)
        /\ ~threw' => Held(latest + 1)' = b
        /\ \A q \in Registers : q # latest + 1 => Held(q)' = Held(q)
    <2>1. PICK r \in Registers : r = latest + 1
      BY <1>5
    <2>2. Access(Transaction("Write", Sensor, r, b))
      BY <1>3, <2>1, Zenon
    <2>3. /\ Sensor \in attached' /\ devices' \in [Addresses -> Devices]
          /\ threw' => \A q \in Registers : Held(q)' = Held(q)
          /\ ~threw' => Held(r)' = b
          /\ \A q \in Registers : q # r => Held(q)' = Held(q)
      BY <1>1, <2>2, AccessEffect
    <2>4. r' = r /\ (latest + 1)' = latest + 1
      BY <1>4
    <2> QED
      BY <2>1, <2>3, <2>4, Zenon
  <1>7. Typed'
    BY <1>1, <1>4, <1>6 DEF Typed
  <1>8. Carried'
    BY <1>1 DEF Carried
  <1>9. LoadedStays'
    <2>1. Pair(0)' = Pair(0)
      BY <1>5, <1>6, RegisterMap, Pairs
    <2> QED
      BY <1>4, <2>1 DEF SensorInv, LoadedStays, kRegTemp
  <1>10. LimitStays'
    <2>1. Held(latest)' = Held(latest)
      BY <1>4, <1>5, <1>6
    <2>2. Held(latest + 1)' = IF threw' THEN Held(latest + 1) ELSE b
      BY <1>4, <1>5, <1>6
    <2>3. ~threw' => Pair(latest)' = Decode(Held(latest), b)
      BY <1>4, <2>1, <2>2, Zenon DEF Pair
    <2>4. accepted' = IF threw' THEN 1 ELSE 2
      BY <1>2, <1>4
    <2>5. CASE threw'
      <3>1. /\ accepted' = 1 /\ 1 # 2 /\ 1 # 0 /\ Held(latest + 1)' = before'.lo
            /\ Held(latest)' = Hi(Raw(limits'[latest']))
        BY <1>2, <1>4, <2>1, <2>2, <2>4, <2>5
      <3> QED
        BY <1>4, <3>1, Zenon DEF LimitStays, AsFarAsAccepted
    <2>6. CASE ~threw'
      <3>1. accepted' = 2 /\ 2 # 1 /\ 2 # 0 /\ ~(2 < 2)
        BY <2>4, <2>6
      <3> QED
        BY <1>2, <1>4, <2>3, <2>6, <3>1, Zenon DEF LimitStays, AsFarAsAccepted
    <2> QED
      BY <2>5, <2>6
  <1>11. ReadingIsWhatWasLoaded'
    BY <1>4 DEF SensorInv, ReadingIsWhatWasLoaded
  <1> QED
    BY <1>7, <1>8, <1>9, <1>10, <1>11 DEF SensorInv

LEMMA SensorStep == SensorInv /\ [Next]_vars => SensorInv'
  <1> SUFFICES ASSUME SensorInv, [Next]_vars PROVE SensorInv'
    OBVIOUS
  <1>1. ASSUME UNCHANGED vars PROVE SensorInv'
    BY <1>1 DEF vars, busVars, sensorVars, SensorInv, Typed, Carried, LoadedStays, LimitStays,
                ReadingIsWhatWasLoaded, AsFarAsAccepted, Pair, Held, written
  <1>2. ASSUME NEW c \in Limits, RejectLimit(c) PROVE UNCHANGED vars
    BY <1>2 DEF RejectLimit
  <1> QED
    BY <1>1, <1>2, LoadStep, ScriptStep, ReadHiStep, ReadLoStep, ReadConfigStep,
       WriteConfigStep, WriteLimitHiStep, WriteLimitLoStep DEF Next, LimitRegisters

LEMMA SensorInvHolds == Spec => []SensorInv
  BY SensorInit, SensorStep, PTL DEF Spec

(* However the driver's calls follow on one another and on the script, the *)
(* two registers of the limit asked for last hold what the bus took of it, *)
(* and what they held before otherwise (temperature_sensor.hpp:70-79).     *)
THEOREM LimitReadsBack == Spec => []LatestLimitReadsBack
  <1>1. SensorInv => LatestLimitReadsBack
    BY DEF SensorInv, LimitStays, LatestLimitReadsBack
  <1> QED
    BY <1>1, SensorInvHolds, PTL

(* read_celsius returns what was loaded until trigger_one_shot has written *)
(* CONFIG, whatever limits were set in between (temperature_sensor.hpp:    *)
(* 42-51).                                                                 *)
THEOREM ReadsWhatWasLoaded == Spec => []ReadingIsWhatWasLoaded
  <1>1. SensorInv => ReadingIsWhatWasLoaded
    BY DEF SensorInv
  <1> QED
    BY <1>1, SensorInvHolds, PTL
================================================================================
