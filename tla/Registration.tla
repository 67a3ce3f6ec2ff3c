------------------------------ MODULE Registration ------------------------------
(***************************************************************************)
(* TEST_CASE and TEST_SUITE_F before main (src/include/edtf/registry.hpp,  *)
(* src/src/registry.cpp).  Each use of a macro leaves two file-scope       *)
(* constants, edtf_opts_ and edtf_reg_, initialised one after the other;   *)
(* the language orders the constants of one translation unit and says      *)
(* nothing about those of two.  main runs when all are initialised.        *)
(***************************************************************************)
EXTENDS Text

CONSTANTS
  Units,    \* translation units
  Chains,   \* the option chains call sites write: calls of tags and timeout_ms_
  MaxCases  \* bound: cases of a unit

ASSUME RegistrationAssumption ==
  /\ MaxCases \in Nat
  /\ \A c \in Chains : c \in Seq([call : {"tags"}, arg : Seq(STRING)]
                                   \cup [call : {"timeout_ms_"}, arg : Int])

VARIABLES
  declared,  \* the chains in each unit's source, case by case
  built,     \* the edtf_opts_ constants of each unit so far
  cases      \* Registry::cases_

registryVars == <<declared, built, cases>>

CaseOptions == [tag_spec |-> <<>>, timeout_ms |-> 0]

(* CaseOptions::tags and timeout_ms_ assign, whatever was there before. *)
Apply(o, c) == IF c.call = "tags" THEN [o EXCEPT !.tag_spec = c.arg]
                                  ELSE [o EXCEPT !.timeout_ms = c.arg]

(* choose_options: no argument is an empty chain. *)
choose_options(chain) == FoldLeft(Apply, CaseOptions, chain)

(* How many cases of a unit a registry holds. *)
Registered(registry, u) == Cardinality({j \in DOMAIN registry : registry[j].unit = u})

Sources == [Units -> SeqOf(Chains, MaxCases)]

RegistryInit ==
  /\ built = [u \in Units |-> <<>>]
  /\ cases = <<>>

(* Broken: opts() hands out one builder that keeps what was set before. *)
BuildOptionsShared(u) ==
  /\ Len(built[u]) = Registered(cases, u)
  /\ Len(built[u]) < Len(declared[u])
  /\ LET before == IF built[u] = <<>> THEN CaseOptions ELSE Last(built[u])
     IN  built' = [built EXCEPT ![u] =
                     Append(@, FoldLeft(Apply, before, declared[u][Len(@) + 1]))]
  /\ UNCHANGED <<declared, cases>>

BuildOptions(u) ==
  /\ Len(built[u]) = Registered(cases, u)
  /\ Len(built[u]) < Len(declared[u])
  /\ built' = [built EXCEPT ![u] = Append(@, choose_options(declared[u][Len(@) + 1]))]
  /\ UNCHANGED <<declared, cases>>

(* Broken: edtf_reg_ comes first and reads an edtf_opts_ that is not        *)
(* initialised yet, static memory of zeros.                                *)
RegisterCaseFirst(u) ==
  /\ Registered(cases, u) < Len(declared[u])
  /\ LET n == Registered(cases, u) + 1
         o == IF n \in DOMAIN built[u] THEN built[u][n] ELSE CaseOptions
     IN  cases' = Append(cases, [unit |-> u, n |-> n, tags |-> parse_tags(o.tag_spec),
                                 timeout |-> o.timeout_ms])
  /\ UNCHANGED <<declared, built>>

(* register_case; case n of the unit stands for its names and its body. *)
RegisterCase(u) ==
  /\ Registered(cases, u) < Len(built[u])
  /\ LET n == Registered(cases, u) + 1
         o == built[u][n]
     IN  cases' = Append(cases, [unit |-> u, n |-> n, tags |-> parse_tags(o.tag_spec),
                                 timeout |-> o.timeout_ms])
  /\ UNCHANGED <<declared, built>>

AtMain == \A u \in Units : Registered(cases, u) = Len(declared[u])

RegistryNext == \E u \in Units : BuildOptions(u) \/ RegisterCase(u)

RegistrySpec == declared \in Sources /\ RegistryInit /\ [][RegistryNext]_registryVars

----------------------------------------------------------------------------
(* The last tags (or timeout_ms_) of a call site's chain is the one that   *)
(* counts, and a chain without one leaves the default.                     *)
LastOf(chain, call, default) ==
  LET calls == {j \in DOMAIN chain : chain[j].call = call}
  IN  IF calls = {} THEN default ELSE chain[Max(calls)].arg

OptionsOf(chain) == [tag_spec |-> LastOf(chain, "tags", <<>>),
                     timeout_ms |-> LastOf(chain, "timeout_ms_", 0)]

(* The registry's entry for case n of unit u, with that chain in its source. *)
AsDeclared(chain, u, n) ==
  [unit |-> u, n |-> n, tags |-> parse_tags(OptionsOf(chain).tag_spec),
   timeout |-> OptionsOf(chain).timeout_ms]

FirstOf(u, n) == {AsDeclared(declared[u][k], u, k) : k \in 1 .. n}

InSourceOrder ==
  \A j, k \in DOMAIN cases :
    j < k /\ cases[j].unit = cases[k].unit => cases[j].n < cases[k].n

(* In whatever order the units are initialised, main finds every declared  *)
(* case once, those of a unit in the order of its source, each with its    *)
(* own tags and its own deadline and nothing of another case's             *)
(* (registry.hpp:89-123, registry.cpp:43-56).                              *)
RegistryIsWhatWasDeclared ==
  AtMain => /\ Range(cases) = UNION {FirstOf(u, Len(declared[u])) : u \in Units}
            /\ InSourceOrder

(* And on the way there: a unit is at most one constant ahead of its       *)
(* registrations, and the registry holds its first cases as declared       *)
(* (registry.hpp:108-123).                                                 *)
RegistrySoFar ==
  /\ \A u \in Units :
       /\ Registered(cases, u) <= Len(built[u]) /\ Len(built[u]) <= Registered(cases, u) + 1
       /\ Len(built[u]) <= Len(declared[u])
       /\ \A n \in DOMAIN built[u] : built[u][n] = OptionsOf(declared[u][n])
  /\ Range(cases) = UNION {FirstOf(u, Registered(cases, u)) : u \in Units}
  /\ InSourceOrder
================================================================================
