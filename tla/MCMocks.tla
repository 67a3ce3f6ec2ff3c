--------------------------------- MODULE MCMocks ---------------------------------
(* The three mocks in one instance for TLC: a test uses one of them. *)
EXTENDS I2CBus, RegisterBank, SerialPort

VARIABLE used   \* the mock the test is about

vars == <<used, busVars, bankVars, portVars>>

Init ==
  /\ used \in {"bus", "bank", "port"}
  /\ BusInit /\ BankInit /\ PortInit

Next ==
  \/ used = "bus" /\ BusNext /\ UNCHANGED <<used, bankVars, portVars>>
  \/ used = "bank" /\ BankNext /\ UNCHANGED <<used, busVars, portVars>>
  \/ used = "port" /\ PortNext /\ UNCHANGED <<used, busVars, bankVars>>

Spec == Init /\ [][Next]_vars
================================================================================
