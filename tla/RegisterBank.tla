------------------------------- MODULE RegisterBank -------------------------------
(***************************************************************************)
(* MockRegisterBank (src/include/edtf/mock_hardware.hpp:36-89).  A hook is *)
(* user code that runs in the middle of read or write: it is given what    *)
(* the register held, may itself use the bank, throw or catch, and returns *)
(* any word.  A call whose hook is running is a frame; the code that runs, *)
(* the test and its driver or the innermost hook, makes the next call.     *)
(***************************************************************************)
EXTENDS Naturals, Sequences

CONSTANTS
  Size,      \* size_words
  Words,     \* the values of uint32_t that are used
  MaxDepth,  \* bound: hooks inside hooks
  MaxCalls   \* bound: reads and writes begun

ASSUME BankAssumption ==
  /\ Size \in Nat \ {0} /\ 0 \in Words
  /\ MaxDepth \in Nat /\ MaxCalls \in Nat

VARIABLES
  regs, reads, writes,  \* regs_, reads_, writes_
  hooked,               \* which of read_hook_ and write_hook_ are set
  frames,               \* the calls whose hooks are running, innermost first
  flying,               \* an exception is on its way to whoever catches it
  outcome,              \* history: how the latest call ended, and with what
  begun                 \* history: reads and writes begun

bankVars == <<regs, reads, writes, hooked, frames, flying, outcome, begun>>

WordAddresses == 0 .. Size - 1
Ops == {"read", "write"}
Frame == [op : Ops, addr : WordAddresses, value : Words]
Threw == [op |-> "threw"]

BankInit ==
  /\ regs = [a \in WordAddresses |-> 0]
  /\ reads = 0 /\ writes = 0 /\ hooked = {}
  /\ frames = <<>> /\ flying = FALSE
  /\ outcome = Threw /\ begun = 0

(* read, write, peek or poke outside the bank: check_addr throws. *)
OutOfRange ==
  /\ ~flying
  /\ flying' = TRUE /\ outcome' = Threw
  /\ UNCHANGED <<regs, reads, writes, hooked, frames, begun>>

Poke(addr, value) ==
  /\ ~flying
  /\ regs' = [regs EXCEPT ![addr] = value]
  /\ outcome' = [op |-> "poke", addr |-> addr, value |-> value]
  /\ UNCHANGED <<reads, writes, hooked, frames, flying, begun>>

(* A hook that replaced itself would be destroyed while it runs. *)
SetHook(op) ==
  /\ ~flying /\ \A i \in DOMAIN frames : frames[i].op # op
  /\ hooked' = IF op \in hooked THEN hooked \ {op} ELSE hooked \cup {op}
  /\ UNCHANGED <<regs, reads, writes, frames, flying, outcome, begun>>

(* The end of read, with the value it returns. *)
FinishRead(call, value) ==
  /\ reads' = reads + 1
  /\ outcome' = [op |-> "read", addr |-> call.addr, value |-> value]
  /\ UNCHANGED <<regs, writes>>

(* The end of write, with the value it stores. *)
FinishWrite(call, value) ==
  /\ regs' = [regs EXCEPT ![call.addr] = value]
  /\ writes' = writes + 1
  /\ outcome' = [op |-> "write", addr |-> call.addr, value |-> call.value,
                 stored |-> value]
  /\ UNCHANGED reads

Finish(call, value) ==
  \/ call.op = "read" /\ FinishRead(call, value)
  \/ call.op = "write" /\ FinishWrite(call, value)

(* Broken: the hook is called whether it is set or not. *)
BeginUnchecked(call) ==
  /\ ~flying /\ begun < MaxCalls
  /\ begun' = begun + 1
  /\ Len(frames) < MaxDepth
  /\ frames' = <<call>> \o frames
  /\ UNCHANGED <<regs, reads, writes, hooked, flying, outcome>>

(* Broken: write stores the word it is given before its hook is called. *)
BeginStoring(call) ==
  /\ ~flying /\ begun < MaxCalls
  /\ begun' = begun + 1
  /\ IF call.op \in hooked
     THEN /\ Len(frames) < MaxDepth
          /\ frames' = <<call>> \o frames
          /\ regs' = IF call.op = "write"
                     THEN [regs EXCEPT ![call.addr] = call.value] ELSE regs
          /\ UNCHANGED <<reads, writes, outcome>>
     ELSE /\ Finish(call, IF call.op = "read" THEN regs[call.addr] ELSE call.value)
          /\ UNCHANGED frames
  /\ UNCHANGED <<hooked, flying>>

(* read and write, up to the hook or, without one, to the end. *)
Begin(call) ==
  /\ ~flying /\ begun < MaxCalls
  /\ begun' = begun + 1
  /\ IF call.op \in hooked
     THEN /\ Len(frames) < MaxDepth
          /\ frames' = <<call>> \o frames
          /\ UNCHANGED <<regs, reads, writes, outcome>>
     ELSE /\ Finish(call, IF call.op = "read" THEN regs[call.addr] ELSE call.value)
          /\ UNCHANGED frames
  /\ UNCHANGED <<hooked, flying>>

HookReturns(value) ==
  /\ ~flying /\ frames # <<>>
  /\ Finish(Head(frames), value)
  /\ frames' = Tail(frames)
  /\ UNCHANGED <<hooked, flying, begun>>

HookThrows ==
  /\ ~flying /\ frames # <<>>
  /\ flying' = TRUE
  /\ UNCHANGED <<regs, reads, writes, hooked, frames, outcome, begun>>

(* The exception leaves the call under way. *)
Unwind ==
  /\ flying /\ frames # <<>>
  /\ frames' = Tail(frames)
  /\ outcome' = Threw
  /\ UNCHANGED <<regs, reads, writes, hooked, flying, begun>>

(* The code that made the call catches the exception. *)
Catch ==
  /\ flying
  /\ flying' = FALSE
  /\ UNCHANGED <<regs, reads, writes, hooked, frames, outcome, begun>>

BankNext ==
  \/ OutOfRange \/ HookThrows \/ Unwind \/ Catch
  \/ \E a \in WordAddresses, v \in Words : Poke(a, v)
  \/ \E op \in Ops : SetHook(op)
  \/ \E call \in Frame : Begin(call)
  \/ \E v \in Words : HookReturns(v)

BankSpec == BankInit /\ [][BankNext]_bankVars

----------------------------------------------------------------------------
(* The variables stay in their types, and every call under way has a hook. *)
BankTypeOK ==
  /\ regs \in [WordAddresses -> Words]
  /\ reads \in Nat /\ writes \in Nat /\ begun \in Nat
  /\ hooked \subseteq Ops
  /\ frames \in Seq(Frame)
  /\ \A i \in DOMAIN frames : frames[i].op \in hooked
  /\ flying \in BOOLEAN

(* An access, nested or not, takes effect and counts once, when it         *)
(* completes, and a write then leaves in its register the word its hook    *)
(* returned, whatever the hook had poked or written there before; one      *)
(* whose hook throws, or is thrown through, changes no register and no     *)
(* counter. Nothing else but a poke changes a register                     *)
(* (mock_hardware.hpp:44-67).                                              *)
file == INSTANCE RegisterFile WITH Addresses <- WordAddresses, result <- outcome

ImplementsRegisterFile == file!Spec
================================================================================
