-------------------------------- MODULE SerialPort --------------------------------
(***************************************************************************)
(* MockSerialPort (src/include/edtf/mock_hardware.hpp:223-270): a transmit *)
(* buffer, a receive buffer that keeps what has been read, and a position  *)
(* in it.  The test and its driver call it from one thread.                *)
(***************************************************************************)
EXTENDS Integers, Sequences

CONSTANTS
  PortBytes, \* values of uint8_t that are used
  MaxTx,     \* bound: bytes written between two calls of clear
  MaxRx,     \* bound: bytes injected between two calls of clear
  MaxAsked   \* bound: bytes asked for in one read

ASSUME SerialAssumption ==
  /\ PortBytes \subseteq 0 .. 255
  /\ MaxTx \in Nat /\ MaxRx \in Nat /\ MaxAsked \in Nat

VARIABLES tx, rx, rx_pos,  \* tx_, rx_, rx_pos_
          call, result     \* history: the latest call and its result

portVars == <<tx, rx, rx_pos, call, result>>

Called(op, data, max) == call' = [op |-> op, data |-> data, max |-> max]

PortInit ==
  /\ tx = <<>> /\ rx = <<>> /\ rx_pos = 0
  /\ call = [op |-> "none", data |-> <<>>, max |-> 0] /\ result = <<>>

(* write; write_byte is the block of one byte. *)
Write(block) ==
  /\ Len(tx) + Len(block) <= MaxTx
  /\ tx' = tx \o block
  /\ result' = <<>>
  /\ Called("write", block, 0)
  /\ UNCHANGED <<rx, rx_pos>>

InjectRx(block) ==
  /\ Len(rx) + Len(block) <= MaxRx
  /\ rx' = rx \o block
  /\ result' = <<>>
  /\ Called("inject", block, 0)
  /\ UNCHANGED <<tx, rx_pos>>

(* Each char is converted to uint8_t. *)
InjectRxString(s) ==
  /\ Len(rx) + Len(s) <= MaxRx
  /\ rx' = rx \o [i \in DOMAIN s |-> s[i] % 256]
  /\ result' = <<>>
  /\ Called("inject_string", s, 0)
  /\ UNCHANGED <<tx, rx_pos>>

(* What the loop of read takes. *)
Taken(max) == LET left == Len(rx) - rx_pos IN
  IF left <= 0 THEN 0 ELSE IF max < left THEN max ELSE left

Read(max) ==
  /\ rx_pos' = rx_pos + Taken(max)
  /\ result' = SubSeq(rx, rx_pos + 1, rx_pos')
  /\ Called("read", <<>>, max)
  /\ UNCHANGED <<tx, rx>>

(* Broken: the byte is returned as a char. *)
ReadByteAsChar ==
  /\ Called("read_byte", <<>>, 1)
  /\ IF rx_pos >= Len(rx)
     THEN result' = <<-1>> /\ UNCHANGED rx_pos
     ELSE /\ result' = <<IF rx[rx_pos + 1] < 128 THEN rx[rx_pos + 1]
                         ELSE rx[rx_pos + 1] - 256>>
          /\ rx_pos' = rx_pos + 1
  /\ UNCHANGED <<tx, rx>>

ReadByte ==
  /\ Called("read_byte", <<>>, 1)
  /\ IF rx_pos >= Len(rx)
     THEN result' = <<-1>> /\ UNCHANGED rx_pos
     ELSE result' = <<rx[rx_pos + 1]>> /\ rx_pos' = rx_pos + 1
  /\ UNCHANGED <<tx, rx>>

(* Broken: the position stays. *)
ClearBuffersOnly ==
  /\ tx' = <<>> /\ rx' = <<>>
  /\ result' = <<>>
  /\ Called("clear", <<>>, 0)
  /\ UNCHANGED rx_pos

ClearPort ==
  /\ tx' = <<>> /\ rx' = <<>> /\ rx_pos' = 0
  /\ result' = <<>>
  /\ Called("clear", <<>>, 0)

(* The chars, signed, whose bytes are in use. *)
Chars == {c \in -128 .. 127 : c % 256 \in PortBytes}

Blocks(S, n) == UNION {[1 .. k -> S] : k \in 0 .. n}

PortNext ==
  \/ \E block \in Blocks(PortBytes, MaxTx) : Write(block)
  \/ \E block \in Blocks(PortBytes, MaxRx) : InjectRx(block)
  \/ \E s \in Blocks(Chars, MaxRx) : InjectRxString(s)
  \/ \E max \in 0 .. MaxAsked : Read(max)
  \/ ReadByte \/ ClearPort

PortSpec == PortInit /\ [][PortNext]_portVars

----------------------------------------------------------------------------
(* The buffers hold bytes, and the position is in the receive buffer or at *)
(* its end, so that rx_remaining, an unsigned difference, is what is left  *)
(* to read.                                                                *)
PortTypeOK ==
  /\ tx \in Seq(0 .. 255) /\ rx \in Seq(0 .. 255)
  /\ rx_pos \in 0 .. Len(rx)

(* The port is a byte stream: reading by a position that injections,       *)
(* reads and clear move apart from the buffer loses, repeats and reorders  *)
(* nothing (mock_hardware.hpp:226-264).                                    *)
stream == INSTANCE ByteStream WITH
  incoming <- SubSeq(rx, rx_pos + 1, Len(rx)),
  sent     <- tx

ImplementsStream == stream!Spec
================================================================================
