------------------------------- MODULE RegisterFile -------------------------------
(***************************************************************************)
(* What MockRegisterBank promises: an access takes effect in one step, the *)
(* one in which it completes, and is counted then; one that fails has no   *)
(* effect. Every step that can change a register says so in result.        *)
(***************************************************************************)
EXTENDS Naturals

CONSTANTS Addresses, Words

VARIABLES
  regs, reads, writes,
  hooked,   \* the kinds of access, "read" or "write", whose values a hook decides
  result    \* how the latest call ended, and with what

vars == <<regs, reads, writes, hooked, result>>

Threw == [op |-> "threw"]
Result(op, addr, value) == [op |-> op, addr |-> addr, value |-> value]
Stored(addr, value, stored) ==
  [op |-> "write", addr |-> addr, value |-> value, stored |-> stored]

Init ==
  /\ regs = [a \in Addresses |-> 0]
  /\ reads = 0 /\ writes = 0 /\ hooked = {} /\ result = Threw

Load(a, v) ==
  /\ "read" \notin hooked => v = regs[a]
  /\ reads' = reads + 1
  /\ result' = Result("read", a, v)
  /\ UNCHANGED <<regs, writes, hooked>>

(* v was given, and stored is what a hook made of it. *)
Store(a, v, stored) ==
  /\ "write" \notin hooked => stored = v
  /\ regs' = [regs EXCEPT ![a] = stored]
  /\ writes' = writes + 1
  /\ result' = Stored(a, v, stored)
  /\ UNCHANGED <<reads, hooked>>

Fail == result' = Threw /\ UNCHANGED <<regs, reads, writes, hooked>>

Poke(a, v) ==
  /\ regs' = [regs EXCEPT ![a] = v]
  /\ result' = Result("poke", a, v)
  /\ UNCHANGED <<reads, writes, hooked>>

SetHooks == hooked' \in SUBSET {"read", "write"} /\ UNCHANGED <<regs, reads, writes, result>>

Next ==
  \/ \E a \in Addresses, v \in Words :
       Load(a, v) \/ Poke(a, v) \/ \E stored \in Words : Store(a, v, stored)
  \/ Fail \/ SetHooks

Spec == Init /\ [][Next]_vars
================================================================================
