---------------------------------- MODULE Suite ----------------------------------
(***************************************************************************)
(* What edtf::Runner promises its caller, without threads, deadlines or    *)
(* reporters: a run decides the planned tests one after the other, each    *)
(* once, in the order of the plan, and answers TRUE exactly when all of    *)
(* them passed; the process exits with that answer.                        *)
(***************************************************************************)
EXTENDS Naturals, Sequences

VARIABLES
  phase,      \* "idle", "running" or "stopped"
  plan,       \* the tests of every run, in order
  limited,    \* the tests that have a deadline
  listing,    \* runs only list the plan
  mayRefuse,  \* a run may fail before it starts, its file not opened
  decided,    \* the decisions of the run in progress
  answer,     \* what the latest run returned
  status      \* how the process ended

fixed == <<plan, limited, listing, mayRefuse>>
vars == <<phase, fixed, decided, answer, status>>

Init ==
  /\ phase = "idle"
  /\ decided = <<>>
  /\ answer = FALSE
  /\ status = "running"

Begin ==
  /\ phase = "idle" /\ ~listing
  /\ phase' = "running"
  /\ UNCHANGED <<fixed, decided, answer, status>>

Decide(outcome) ==
  /\ phase = "running" /\ Len(decided) < Len(plan)
  /\ LET test == plan[Len(decided) + 1] IN
       /\ outcome = "Timeout" => test \in limited
       /\ decided' = Append(decided, [test |-> test, outcome |-> outcome])
  /\ UNCHANGED <<phase, fixed, answer, status>>

Answer ==
  /\ phase = "running" /\ Len(decided) = Len(plan)
  /\ phase' = "idle"
  /\ answer' = (\A i \in DOMAIN decided : decided[i].outcome = "Passed")
  /\ decided' = <<>>
  /\ UNCHANGED <<fixed, status>>

(* Calls that run nothing: a listing succeeds, a refusal fails. *)
List ==
  /\ phase = "idle" /\ listing
  /\ answer' = TRUE
  /\ UNCHANGED <<phase, fixed, decided, status>>

Refuse ==
  /\ phase = "idle" /\ mayRefuse
  /\ answer' = FALSE
  /\ UNCHANGED <<phase, fixed, decided, status>>

(* The process returns from main, or dies. *)
Exit ==
  /\ phase = "idle"
  /\ phase' = "stopped"
  /\ status' = IF answer THEN "exit 0" ELSE "exit 1"
  /\ UNCHANGED <<fixed, decided, answer>>

(* Only a run needs a thread that may not be had; user code may crash the  *)
(* process at any time.                                                    *)
Die ==
  /\ status \notin {"terminate", "signal"}
  /\ \/ phase = "running" /\ status' = "terminate"
     \/ status' = "signal"
  /\ phase' = "stopped"
  /\ decided' = <<>>
  /\ UNCHANGED <<fixed, answer>>

Next ==
  \/ Begin \/ Answer \/ List \/ Refuse \/ Exit \/ Die
  \/ \E outcome \in {"Passed", "Failed", "Timeout", "Error"} : Decide(outcome)

Spec == Init /\ [][Next]_vars
================================================================================
