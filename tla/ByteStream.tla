-------------------------------- MODULE ByteStream --------------------------------
(***************************************************************************)
(* What MockSerialPort promises: the bytes a test injects reach the driver *)
(* once each and in order, the bytes the driver writes reach the test      *)
(* likewise, and the end of the input is not a byte.                       *)
(***************************************************************************)
EXTENDS Integers, Sequences

VARIABLES
  incoming,  \* bytes injected and not yet read
  sent,      \* bytes written since the last clear
  call,      \* the latest call: its name, the data given, the bytes asked for
  result     \* what it gave back

vars == <<incoming, sent, call, result>>

NoCall == [op |-> "none", data |-> <<>>, max |-> 0]

Init == incoming = <<>> /\ sent = <<>> /\ call = NoCall /\ result = <<>>

(* A char is a byte, counted from -128. *)
ByteOf(c) == IF c < 0 THEN 256 + c ELSE c

Send ==
  /\ call'.op = "write"
  /\ sent' = sent \o call'.data
  /\ result' = <<>>
  /\ UNCHANGED incoming

Inject ==
  /\ \/ call'.op = "inject" /\ incoming' = incoming \o call'.data
     \/ /\ call'.op = "inject_string"
        /\ incoming' = incoming \o [i \in DOMAIN call'.data |-> ByteOf(call'.data[i])]
  /\ result' = <<>>
  /\ UNCHANGED sent

(* As many bytes as were asked for, or all there are; read_byte says -1    *)
(* when there are none.                                                    *)
Receive ==
  /\ call'.op \in {"read", "read_byte"}
  /\ IF call'.op = "read_byte" /\ incoming = <<>>
     THEN result' = <<-1>> /\ UNCHANGED incoming
     ELSE /\ result' \o incoming' = incoming
          /\ \/ Len(result') = call'.max
             \/ Len(result') < call'.max /\ incoming' = <<>>
  /\ UNCHANGED sent

Clear ==
  /\ call'.op = "clear"
  /\ incoming' = <<>> /\ sent' = <<>> /\ result' = <<>>

Next == Send \/ Inject \/ Receive \/ Clear

Spec == Init /\ [][Next]_vars
================================================================================
