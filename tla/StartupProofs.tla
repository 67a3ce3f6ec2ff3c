------------------------------ MODULE StartupProofs ------------------------------
(* The program up to its first test: any number of translation units,      *)
(* cases, options and arguments, and tag specifications of any length.     *)
EXTENDS MCStartup, SequenceTheorems, FiniteSetTheorems, IntervalInduction

----------------------------------------------------------------------------
(* Registration: the options of a case                                     *)

(* What a call site may write, and the builder it writes to. *)
Calls == [call : {"tags"}, arg : Seq(STRING)] \cup [call : {"timeout_ms_"}, arg : Int]
Builder == [tag_spec : Seq(STRING), timeout_ms : Int]

(* The builder after each call of a chain. *)
Chained(f, chain) ==
  /\ f \in [0 .. Len(chain) -> Builder] /\ f[0] = CaseOptions
  /\ \A n \in 1 .. Len(chain) : f[n] = Apply(f[n - 1], chain[n])

(* A call leaves a builder. *)
LEMMA ApplyType ==
  ASSUME NEW o \in Builder, NEW c \in Calls
  PROVE  Apply(o, c) \in Builder
  BY DEF Apply, Builder, Calls

(* choose_options is the builder after the last call. *)
LEMMA Chaining ==
  ASSUME NEW chain \in Seq(Calls)
  PROVE  \E f : Chained(f, chain) /\ choose_options(chain) = f[Len(chain)]
  <1> DEFINE L == Len(chain)
             Iter(f) == f = [t \in SUBSET DOMAIN chain |->
                               IF t = {} THEN CaseOptions
                               ELSE Apply(f[t \ {Max(t)}], chain[Max(t)])]
             Step(p, o) == IF p \in 1 .. L THEN Apply(o, chain[p]) ELSE o
             g == [p \in Nat |-> [o \in Builder |-> Step(p, o)]]
  <1>1. L \in Nat /\ DOMAIN chain = 1 .. L /\ CaseOptions \in Builder
    BY LenProperties DEF CaseOptions, Builder
  <1>2. \A p \in 1 .. L : \A o \in Builder : Apply(o, chain[p]) \in Builder /\ p \in Nat
    BY ApplyType, ElementOfSeq
  <1> HIDE DEF L
  <1>3. g \in StepsIn(Builder)
    <2>1. \A p \in Nat : \A o \in Builder : Step(p, o) \in Builder
      BY <1>2
    <2> HIDE DEF Step
    <2> QED
      BY <2>1 DEF StepsIn
  <1>4. PICK f : Iter(f) /\ choose_options(chain) = f[DOMAIN chain]
    <2> HIDE DEF g
    <2>2. PICK f : FoldsUp(f, L, Builder, CaseOptions, g)
      BY <1>1, <1>3, FoldExists
    <2>3. ASSUME NEW t \in SUBSET (1 .. L)
          PROVE  f[t] = IF t = {} THEN CaseOptions ELSE Apply(f[t \ {Max(t)}], chain[Max(t)])
      <3>1. CASE t = {}
        BY <2>2, <3>1, Zenon DEF FoldsUp
      <3>2. CASE t # {}
        <4>1. Max(t) \in 1 .. L /\ f[t] = g[Max(t)][f[t \ {Max(t)}]]
          BY <2>2, <3>2, Zenon DEF FoldsUp
        <4>2. t \ {Max(t)} \in SUBSET (1 .. L)
          OBVIOUS
        <4>3. f[t \ {Max(t)}] \in Builder /\ Max(t) \in Nat
          BY <1>2, <2>2, <4>1, <4>2 DEF FoldsUp
        <4>4. g[Max(t)][f[t \ {Max(t)}]] = Apply(f[t \ {Max(t)}], chain[Max(t)])
          BY <4>1, <4>3, Zenon DEF g
        <4> QED
          BY <3>2, <4>1, <4>4
      <3> QED
        BY <3>1, <3>2
    <2>4. Iter(f)
      BY <1>1, <2>2, <2>3, Zenon DEF FoldsUp
    <2> QED
      BY <2>4, Zenon DEF choose_options, FoldLeft, MapThenFoldSet
  <1>5. f[{}] = CaseOptions
    <2>1. {} \in SUBSET DOMAIN chain
      OBVIOUS
    <2> QED
      BY <1>4, <2>1, Zenon
  <1>6. ASSUME NEW n \in 1 .. L, f[1 .. n - 1] \in Builder
        PROVE  f[1 .. n] = g[n][f[1 .. n - 1]]
    <2>1. f[1 .. n] = Apply(f[1 .. n - 1], chain[n])
      BY <1>1, <1>4, Initial, Zenon
    <2> QED
      BY <1>2, <1>6, <2>1, Zenon
  <1> HIDE DEF g
  <1>7. PICK h : Repeats(h, L, Builder, CaseOptions, g) /\ h[L] = f[1 .. L]
    BY <1>1, <1>3, <1>5, <1>6, FoldRepeats
  <1>8. ASSUME NEW n \in 1 .. L PROVE h[n] = Apply(h[n - 1], chain[n])
    <2>1. h[n - 1] \in Builder
      <3>1. n - 1 \in 0 .. L
        BY <1>1
      <3> QED
        BY <1>7, <3>1, Zenon DEF Repeats
    <2> QED
      BY <1>2, <1>7, <2>1, Zenon DEF Repeats, g
  <1>9. Chained(h, chain)
    BY <1>7, <1>8, Zenon DEF Chained, Repeats, L
  <1> QED
    BY <1>1, <1>4, <1>7, <1>9, Zenon DEF L

(* The calls before the n-th that are to tags (or to timeout_ms_), and the *)
(* argument of the latest of some calls.                                   *)
CallsTo(chain, call, n) == {j \in DOMAIN chain : j <= n /\ chain[j].call = call}
LatestArg(chain, G, d) == IF G = {} THEN d ELSE chain[Max(G)].arg

(* The next call replaces the argument of its own kind and no other's. *)
LEMMA OneMoreCall ==
  ASSUME NEW chain \in Seq(Calls), NEW n \in Nat, n + 1 \in DOMAIN chain, NEW call, NEW d
  PROVE  LatestArg(chain, CallsTo(chain, call, n + 1), d) =
           IF chain[n + 1].call = call THEN chain[n + 1].arg
           ELSE LatestArg(chain, CallsTo(chain, call, n), d)
  <1> DEFINE G == CallsTo(chain, call, n + 1)
  <1>1. \A j \in DOMAIN chain : j <= n + 1 <=> j <= n \/ j = n + 1
    BY LenProperties
  <1>2. CASE chain[n + 1].call = call
    <2>1. n + 1 \in G
      BY <1>2 DEF CallsTo
    <2>2. \A j \in G : n + 1 >= j /\ (j >= n + 1 => j = n + 1)
      BY LenProperties DEF CallsTo
    <2> HIDE DEF G
    <2>3. Max(G) = n + 1
      BY <2>1, <2>2, Zenon DEF Max
    <2> QED
      BY <1>2, <2>1, <2>3 DEF LatestArg, G
  <1>3. CASE chain[n + 1].call # call
    <2>1. G = CallsTo(chain, call, n)
      BY <1>1, <1>3, Zenon DEF CallsTo
    <2> QED
      BY <1>3, <2>1
  <1> QED
    BY <1>2, <1>3

(* What the builder is handed out with is what the chain's last calls say. *)
LEMMA LastCallsCount ==
  ASSUME NEW chain \in Seq(Calls)
  PROVE  choose_options(chain) = OptionsOf(chain) /\ choose_options(chain) \in Builder
  <1> DEFINE L == Len(chain)
             Arg(call, d, n) == LatestArg(chain, CallsTo(chain, call, n), d)
             Right(o, n) == /\ o.tag_spec = Arg("tags", <<>>, n)
                            /\ o.timeout_ms = Arg("timeout_ms_", 0, n)
  <1>1. PICK f : Chained(f, chain) /\ choose_options(chain) = f[L]
    BY Chaining
  <1>2. L \in Nat /\ DOMAIN chain = 1 .. L /\ f \in [0 .. L -> Builder]
    BY <1>1, LenProperties DEF Chained
  <1> DEFINE S == {n \in Nat : n \in 0 .. L => Right(f[n], n)}
  <1> HIDE DEF L
  <1>3. 0 \in S
    <2>1. \A call : CallsTo(chain, call, 0) = {}
      BY <1>2 DEF CallsTo
    <2>2. f[0] = CaseOptions
      BY <1>1 DEF Chained
    <2> QED
      BY <2>1, <2>2 DEF CaseOptions, LatestArg
  <1>4. ASSUME NEW n \in S PROVE n + 1 \in S
    <2>1. n \in Nat /\ n + 1 \in Nat /\ (n + 1) - 1 = n
      OBVIOUS
    <2> SUFFICES ASSUME n + 1 \in 0 .. L PROVE Right(f[n + 1], n + 1)
      BY <2>1
    <2>2. n \in 0 .. L /\ n + 1 \in 1 .. L
      BY <1>2, <2>1
    <2>3. f[n + 1] = Apply(f[n], chain[n + 1]) /\ f[n] \in Builder /\ Right(f[n], n)
      BY <1>1, <1>2, <2>1, <2>2 DEF Chained, L
    <2>4. \A call, d : Arg(call, d, n + 1) = IF chain[n + 1].call = call THEN chain[n + 1].arg
                                            ELSE Arg(call, d, n)
      BY <1>2, <2>1, <2>2, OneMoreCall
    <2>5. chain[n + 1] \in Calls
      BY <1>2, <2>2, ElementOfSeq DEF L
    <2> HIDE DEF Arg
    <2>6. chain[n + 1].call \in {"tags", "timeout_ms_"}
      BY <2>5 DEF Calls
    <2> QED
      BY <2>3, <2>4, <2>6 DEF Apply, Builder
  <1>5. S = Nat
    <2> HIDE DEF S
    <2>1. S \in SUBSET Nat
      BY DEF S
    <2> QED
      BY <1>3, <1>4, <2>1, Induction
  <1>6. Right(f[L], L) /\ f[L] \in Builder
    <2>1. L \in 0 .. L
      BY <1>2
    <2> QED
      BY <1>2, <1>5, <2>1
  <1>7. ASSUME NEW call, NEW d PROVE Arg(call, d, L) = LastOf(chain, call, d)
    <2>1. CallsTo(chain, call, L) = {j \in DOMAIN chain : chain[j].call = call}
      BY <1>2 DEF CallsTo
    <2> QED
      BY <2>1, Zenon DEF LastOf, LatestArg
  <1>8. f[L] = [tag_spec |-> f[L].tag_spec, timeout_ms |-> f[L].timeout_ms]
    BY <1>6 DEF Builder
  <1> HIDE DEF Arg
  <1>9. f[L] = OptionsOf(chain)
    BY <1>6, <1>7, <1>8, Zenon DEF OptionsOf
  <1> QED
    BY <1>1, <1>6, <1>9

----------------------------------------------------------------------------
(* Registration: the registry                                              *)

(* Entries of the registry, whatever the source says. *)
Entry == [unit : Units, n : Nat, tags : {parse_tags(spec) : spec \in Seq(STRING)}, timeout : Int]

(* The inductive invariant: what RegistrySoFar says, of values that have   *)
(* their types.                                                            *)
Registering ==
  /\ declared \in [Units -> Seq(Chains)] /\ built \in [Units -> Seq(Builder)]
  /\ cases \in Seq(Entry) /\ RegistrySoFar

(* What is assumed of the call sites. *)
LEMMA ChainsAreCalls == \A c \in Chains : c \in Seq(Calls)
  BY RegistrationAssumption DEF Calls

(* The cases of a unit are finitely many. *)
LEMMA CasesAreCounted ==
  ASSUME NEW cs \in Seq(Entry), NEW u
  PROVE  LET S == {j \in DOMAIN cs : cs[j].unit = u} IN IsFiniteSet(S) /\ Registered(cs, u) \in Nat
  <1> DEFINE S == {j \in DOMAIN cs : cs[j].unit = u}
  <1>1. DOMAIN cs = 1 .. Len(cs) /\ Len(cs) \in Nat
    BY LenProperties
  <1>2. IsFiniteSet(1 .. Len(cs)) /\ S \in SUBSET (1 .. Len(cs))
    BY <1>1, FS_Interval
  <1> HIDE DEF S
  <1>3. IsFiniteSet(S) /\ Cardinality(S) \in Nat
    BY <1>2, FS_Subset, FS_CardinalityType
  <1> QED
    BY <1>3 DEF S, Registered

(* One more case counts for its own unit. *)
LEMMA OneMoreCase ==
  ASSUME NEW cs \in Seq(Entry), NEW e \in Entry, NEW u
  PROVE  Registered(Append(cs, e), u) = Registered(cs, u) + (IF e.unit = u THEN 1 ELSE 0)
  <1> DEFINE S == {j \in DOMAIN cs : cs[j].unit = u}
             n == Len(cs) + 1
             T == {j \in DOMAIN Append(cs, e) : Append(cs, e)[j].unit = u}
  <1>1. /\ DOMAIN cs = 1 .. Len(cs) /\ Len(cs) \in Nat
        /\ DOMAIN Append(cs, e) = 1 .. n /\ Append(cs, e)[n] = e
        /\ \A j \in 1 .. Len(cs) : Append(cs, e)[j] = cs[j]
    BY LenProperties, AppendProperties
  <1>3. IsFiniteSet(S) /\ Cardinality(S) \in Nat
    BY CasesAreCounted DEF Registered
  <1>4. T = IF e.unit = u THEN S \cup {n} ELSE S
    <2>1. \A j : j \in 1 .. n <=> j \in 1 .. Len(cs) \/ j = n
      BY <1>1
    <2> HIDE DEF n
    <2> QED
      BY <1>1, <2>1
  <1>5. n \notin S
    BY <1>1
  <1> HIDE DEF S, T, n
  <1>6. Cardinality(T) = Cardinality(S) + (IF e.unit = u THEN 1 ELSE 0)
    <2>1. Cardinality(S \cup {n}) = Cardinality(S) + 1
      BY <1>3, <1>5, FS_AddElement
    <2> QED
      BY <1>3, <1>4, <2>1
  <1> QED
    BY <1>6 DEF Registered, S, T

(* Before the first constant. *)
LEMMA RegisteringInit == declared \in Sources /\ RegistryInit => Registering
  <1> SUFFICES ASSUME declared \in Sources, RegistryInit PROVE Registering
    OBVIOUS
  <1>1. declared \in [Units -> Seq(Chains)]
    BY DEF Sources, SeqOf
  <1>2. /\ built \in [Units -> Seq(Builder)]
        /\ \A u \in Units : Len(built[u]) = 0 /\ DOMAIN built[u] = {}
    BY DEF RegistryInit
  <1>3. cases = <<>> /\ cases \in Seq(Entry) /\ DOMAIN cases = {}
    BY DEF RegistryInit
  <1>4. \A u : Registered(cases, u) = 0
    BY <1>3, FS_EmptySet DEF Registered
  <1>5. \A u \in Units : FirstOf(u, Registered(cases, u)) = {}
    BY <1>4 DEF FirstOf
  <1>6. Range(cases) = {} /\ InSourceOrder
    BY <1>3 DEF Range, InSourceOrder
  <1>7. \A u \in Units : Len(declared[u]) \in Nat
    BY <1>1, LenProperties
  <1>8. UNION {FirstOf(u, Registered(cases, u)) : u \in Units} = {}
    BY <1>5
  <1> QED
    BY <1>1, <1>2, <1>3, <1>4, <1>6, <1>7, <1>8 DEF Registering, RegistrySoFar

(* edtf_opts_ is initialised. *)
LEMMA BuildStep ==
  ASSUME Registering, NEW u \in Units, BuildOptions(u)
  PROVE  Registering'
  <1> DEFINE n == Len(built[u]) + 1
             o == choose_options(declared[u][n])
  <1>1. /\ UNCHANGED <<declared, cases>> /\ Len(built[u]) = Registered(cases, u)
        /\ built' = [built EXCEPT ![u] = Append(@, o)] /\ n <= Len(declared[u])
    BY LenProperties DEF BuildOptions, Registering
  <1>2. n \in 1 .. Len(declared[u]) /\ Len(built[u]) \in Nat /\ DOMAIN built[u] = 1 .. Len(built[u])
    BY <1>1, LenProperties DEF Registering
  <1>3. declared[u][n] \in Seq(Calls)
    BY <1>2, ChainsAreCalls, ElementOfSeq DEF Registering
  <1>4. o = OptionsOf(declared[u][n]) /\ o \in Builder
    BY <1>3, LastCallsCount
  <1> HIDE DEF o
  <1>5. built' \in [Units -> Seq(Builder)]
    BY <1>1, <1>4, AppendProperties DEF Registering
  <1>6. /\ built'[u] = Append(built[u], o) /\ Len(built'[u]) = n
        /\ DOMAIN built'[u] = 1 .. n /\ built'[u][n] = o
        /\ \A k \in 1 .. Len(built[u]) : built'[u][k] = built[u][k]
    BY <1>1, <1>4, AppendProperties, LenProperties DEF Registering
  <1>7. \A k \in 1 .. n : k \in 1 .. Len(built[u]) \/ k = n
    BY <1>2
  <1>8. \A k \in DOMAIN built'[u] : built'[u][k] = OptionsOf(declared[u][k])
    BY <1>2, <1>4, <1>6, <1>7 DEF Registering, RegistrySoFar
  <1>9. ASSUME NEW w \in Units
        PROVE  /\ Registered(cases, w) <= Len(built'[w])
               /\ Len(built'[w]) <= Registered(cases, w) + 1
               /\ Len(built'[w]) <= Len(declared[w])
               /\ \A k \in DOMAIN built'[w] : built'[w][k] = OptionsOf(declared[w][k])
    <2>1. CASE w = u
      BY <1>1, <1>2, <1>6, <1>8, <2>1
    <2>2. CASE w # u
      <3>1. built'[w] = built[w]
        BY <1>1, <2>2 DEF Registering
      <3> QED
        BY <3>1 DEF Registering, RegistrySoFar
    <2> QED
      BY <2>1, <2>2
  <1>10. (Range(cases) = UNION {FirstOf(w, Registered(cases, w)) : w \in Units})' /\ InSourceOrder'
    BY <1>1 DEF Registering, RegistrySoFar, FirstOf, InSourceOrder
  <1> QED
    BY <1>1, <1>5, <1>9, <1>10 DEF Registering, RegistrySoFar

(* edtf_reg_ is initialised. *)
LEMMA RegisterStep ==
  ASSUME Registering, NEW u \in Units, RegisterCase(u)
  PROVE  Registering'
  <1> DEFINE n == Registered(cases, u) + 1
             o == built[u][n]
             e == [unit |-> u, n |-> n, tags |-> parse_tags(o.tag_spec), timeout |-> o.timeout_ms]
             K == Len(cases) + 1
  <1>1. /\ UNCHANGED <<declared, built>> /\ cases' = Append(cases, e)
        /\ Registered(cases, u) < Len(built[u])
    BY DEF RegisterCase
  <1>2. Registered(cases, u) \in Nat /\ n \in DOMAIN built[u] /\ n = Len(built[u])
    <2>1. cases \in Seq(Entry)
      BY DEF Registering
    <2>2. Registered(cases, u) \in Nat
      BY <2>1, CasesAreCounted
    <2> QED
      BY <1>1, <2>2, LenProperties DEF Registering, RegistrySoFar
  <1>3. o \in Builder /\ o = OptionsOf(declared[u][n])
    BY <1>2, ElementOfSeq, LenProperties DEF Registering, RegistrySoFar
  <1>4. e = AsDeclared(declared[u][n], u, n)
    BY <1>3 DEF AsDeclared
  <1>5. e \in Entry /\ e.unit = u /\ e.n = n
    BY <1>2, <1>3 DEF Entry, Builder
  <1> HIDE DEF e, o
  <1>6. /\ cases' \in Seq(Entry) /\ DOMAIN cases = 1 .. Len(cases) /\ Len(cases) \in Nat
        /\ DOMAIN cases' = 1 .. K /\ cases'[K] = e
        /\ \A j \in 1 .. Len(cases) : cases'[j] = cases[j]
    BY <1>1, <1>5, AppendProperties, LenProperties DEF Registering
  <1>7. ASSUME NEW w \in Units
        PROVE  Registered(cases', w) = IF w = u THEN n ELSE Registered(cases, w)
    <2>1. cases \in Seq(Entry)
      BY DEF Registering
    <2>2. Registered(cases, w) \in Nat /\
          Registered(cases', w) = Registered(cases, w) + (IF e.unit = w THEN 1 ELSE 0)
      BY <1>1, <1>5, <2>1, CasesAreCounted, OneMoreCase
    <2> QED
      BY <1>5, <2>2
  <1>8. \A j : j \in 1 .. K <=> j \in 1 .. Len(cases) \/ j = K
    BY <1>6
  <1>9. Range(cases') = Range(cases) \cup {e}
    <2> HIDE DEF K
    <2> QED
      BY <1>6, <1>8, Zenon DEF Range
  <1>10. ASSUME NEW w \in Units
         PROVE  FirstOf(w, Registered(cases', w)) =
                  IF w = u THEN FirstOf(w, Registered(cases, w)) \cup {e}
                  ELSE FirstOf(w, Registered(cases, w))
    <2>1. \A k : k \in 1 .. n <=> k \in 1 .. Registered(cases, u) \/ k = n
      BY <1>2
    <2> HIDE DEF n
    <2>2. FirstOf(u, n) = FirstOf(u, Registered(cases, u)) \cup {e}
      BY <1>4, <2>1, Zenon DEF FirstOf
    <2> QED
      BY <1>7, <2>2, Zenon
  <1>11. Range(cases') = UNION {FirstOf(w, Registered(cases', w)) : w \in Units}
    <2>1. Range(cases) = UNION {FirstOf(w, Registered(cases, w)) : w \in Units}
      BY DEF Registering, RegistrySoFar
    <2> QED
      BY <1>9, <1>10, <2>1
  <1>12. \A w, m : FirstOf(w, m)' = FirstOf(w, m)
    BY <1>1 DEF FirstOf
  <1>13. ASSUME NEW j \in 1 .. Len(cases), cases[j].unit = u
         PROVE  cases[j].n < n
    <2>1. cases[j] \in Range(cases)
      BY <1>6 DEF Range
    <2>2. PICK w \in Units : cases[j] \in FirstOf(w, Registered(cases, w))
      BY <2>1 DEF Registering, RegistrySoFar
    <2>3. PICK k \in 1 .. Registered(cases, w) : cases[j] = AsDeclared(declared[w][k], w, k)
      BY <2>2 DEF FirstOf
    <2>4. cases[j].unit = w /\ cases[j].n = k
      BY <2>3 DEF AsDeclared
    <2> QED
      BY <1>2, <1>13, <2>3, <2>4
  <1>14. InSourceOrder'
    <2> SUFFICES ASSUME NEW j \in 1 .. K, NEW k \in 1 .. K, j < k, cases'[j].unit = cases'[k].unit
                 PROVE  cases'[j].n < cases'[k].n
      BY <1>6 DEF InSourceOrder
    <2>1. j \in 1 .. Len(cases) /\ cases'[j] = cases[j]
      BY <1>6
    <2>2. CASE k = K
      BY <1>5, <1>6, <1>13, <2>1, <2>2
    <2>3. CASE k # K
      <3>1. k \in 1 .. Len(cases) /\ cases'[k] = cases[k]
        BY <1>6, <2>3
      <3> QED
        BY <1>6, <2>1, <3>1 DEF Registering, RegistrySoFar, InSourceOrder
    <2> QED
      BY <2>2, <2>3
  <1>15. ASSUME NEW w \in Units
         PROVE  /\ Registered(cases', w) <= Len(built[w])
                /\ Len(built[w]) <= Registered(cases', w) + 1
                /\ Len(built[w]) <= Len(declared[w])
                /\ \A k \in DOMAIN built[w] : built[w][k] = OptionsOf(declared[w][k])
    <2>1. CASE w = u
      BY <1>1, <1>2, <1>7, <2>1 DEF Registering, RegistrySoFar
    <2>2. CASE w # u
      BY <1>7, <2>2 DEF Registering, RegistrySoFar
    <2> QED
      BY <2>1, <2>2
  <1>16. (Range(cases) = UNION {FirstOf(w, Registered(cases, w)) : w \in Units})'
    BY <1>11, <1>12, Zenon
  <1> QED
    BY <1>1, <1>6, <1>14, <1>15, <1>16 DEF Registering, RegistrySoFar

LEMMA RegisteringHolds == RegistrySpec => []Registering
  <1>1. Registering /\ [RegistryNext]_registryVars => Registering'
    <2> SUFFICES ASSUME Registering, [RegistryNext]_registryVars PROVE Registering'
      OBVIOUS
    <2>1. CASE UNCHANGED registryVars
      BY <2>1 DEF registryVars, Registering, RegistrySoFar, FirstOf, InSourceOrder
    <2> QED
      BY <2>1, BuildStep, RegisterStep DEF RegistryNext
  <1> QED
    BY <1>1, RegisteringInit, PTL DEF RegistrySpec

(* Whatever the units, their cases and the order they are initialised in:  *)
(* at every moment the registry holds the first cases of each unit, each   *)
(* with what its own chain's last calls set (registry.hpp:108-123).        *)
THEOREM RegistryInvariant == RegistrySpec => []RegistrySoFar
  <1>1. Registering => RegistrySoFar
    BY DEF Registering
  <1> QED
    BY <1>1, RegisteringHolds, PTL

(* So main finds every declared case once, in the order of its unit, with  *)
(* its own tags and deadline (registry.hpp:89-123, registry.cpp:43-56).    *)
THEOREM RegistersWhatIsDeclared == RegistrySpec => []RegistryIsWhatWasDeclared
  <1>1. Registering => RegistryIsWhatWasDeclared
    <2> SUFFICES ASSUME Registering, AtMain PROVE RegistryIsWhatWasDeclared
      BY DEF RegistryIsWhatWasDeclared
    <2>1. \A u \in Units : FirstOf(u, Registered(cases, u)) = FirstOf(u, Len(declared[u]))
      BY DEF AtMain
    <2>2. Range(cases) = UNION {FirstOf(u, Registered(cases, u)) : u \in Units} /\ InSourceOrder
      BY DEF Registering, RegistrySoFar
    <2> QED
      BY <2>1, <2>2, Zenon DEF RegistryIsWhatWasDeclared
  <1> QED
    BY <1>1, RegisteringHolds, PTL

----------------------------------------------------------------------------
(* Tags: the scanner                                                       *)

(* The scanner after each character of a specification. *)
Scanners(C) == [out : SUBSET Seq(C), cur : Seq(C)]
Scanner == [out |-> {}, cur |-> <<>>]
Scanned(f, spec, C) ==
  /\ f \in [0 .. Len(spec) -> Scanners(C)] /\ f[0] = Scanner
  /\ \A n \in 1 .. Len(spec) : f[n] = Scan(f[n - 1], spec[n])

(* A character leaves a scanner. *)
LEMMA ScanType ==
  ASSUME NEW C, NEW s \in Scanners(C), NEW c \in C
  PROVE  Scan(s, c) \in Scanners(C)
  BY AppendProperties DEF Scan, Flush, Scanners

(* parse_tags flushes the scanner after the last character. *)
LEMMA Scanning ==
  ASSUME NEW C, NEW spec \in Seq(C)
  PROVE  \E f : Scanned(f, spec, C) /\ parse_tags(spec) = Flush(f[Len(spec)]).out
  <1> DEFINE L == Len(spec)
             V == Scanners(C)
             Iter(f) == f = [t \in SUBSET DOMAIN spec |->
                               IF t = {} THEN Scanner ELSE Scan(f[t \ {Max(t)}], spec[Max(t)])]
             Step(p, s) == IF p \in 1 .. L THEN Scan(s, spec[p]) ELSE s
             g == [p \in Nat |-> [s \in V |-> Step(p, s)]]
  <1>1. L \in Nat /\ DOMAIN spec = 1 .. L /\ Scanner \in V
    BY LenProperties DEF Scanner, Scanners
  <1>2. \A p \in 1 .. L : \A s \in V : Scan(s, spec[p]) \in V /\ p \in Nat
    BY ScanType, ElementOfSeq
  <1> HIDE DEF L, V
  <1>3. g \in StepsIn(V)
    <2>1. \A p \in Nat : \A s \in V : Step(p, s) \in V
      BY <1>2
    <2> HIDE DEF Step
    <2> QED
      BY <2>1 DEF StepsIn
  <1>4. PICK f : Iter(f) /\ parse_tags(spec) = Flush(f[DOMAIN spec]).out
    <2> HIDE DEF g
    <2>1. PICK f : FoldsUp(f, L, V, Scanner, g)
      BY <1>1, <1>3, FoldExists
    <2>2. ASSUME NEW t \in SUBSET (1 .. L)
          PROVE  f[t] = IF t = {} THEN Scanner ELSE Scan(f[t \ {Max(t)}], spec[Max(t)])
      <3>1. CASE t = {}
        BY <2>1, <3>1, Zenon DEF FoldsUp
      <3>2. CASE t # {}
        <4>1. Max(t) \in 1 .. L /\ f[t] = g[Max(t)][f[t \ {Max(t)}]]
          BY <2>1, <3>2, Zenon DEF FoldsUp
        <4>2. t \ {Max(t)} \in SUBSET (1 .. L)
          OBVIOUS
        <4>3. f[t \ {Max(t)}] \in V /\ Max(t) \in Nat
          BY <1>2, <2>1, <4>1, <4>2 DEF FoldsUp
        <4>4. g[Max(t)][f[t \ {Max(t)}]] = Scan(f[t \ {Max(t)}], spec[Max(t)])
          BY <4>1, <4>3, Zenon DEF g
        <4> QED
          BY <3>2, <4>1, <4>4
      <3> QED
        BY <3>1, <3>2
    <2>3. Iter(f)
      BY <1>1, <2>1, <2>2, Zenon DEF FoldsUp
    <2> QED
      BY <2>3, Zenon DEF parse_tags, Scanner, FoldLeft, MapThenFoldSet
  <1>5. f[{}] = Scanner
    <2>1. {} \in SUBSET DOMAIN spec
      OBVIOUS
    <2> QED
      BY <1>4, <2>1, Zenon
  <1>6. ASSUME NEW n \in 1 .. L, f[1 .. n - 1] \in V
        PROVE  f[1 .. n] = g[n][f[1 .. n - 1]]
    <2>1. f[1 .. n] = Scan(f[1 .. n - 1], spec[n])
      BY <1>1, <1>4, Initial, Zenon
    <2> QED
      BY <1>2, <1>6, <2>1, Zenon
  <1> HIDE DEF g
  <1>7. PICK h : Repeats(h, L, V, Scanner, g) /\ h[L] = f[1 .. L]
    BY <1>1, <1>3, <1>5, <1>6, FoldRepeats
  <1>8. ASSUME NEW n \in 1 .. L PROVE h[n] = Scan(h[n - 1], spec[n])
    <2>1. h[n - 1] \in V
      <3>1. n - 1 \in 0 .. L
        BY <1>1
      <3> QED
        BY <1>7, <3>1, Zenon DEF Repeats
    <2> QED
      BY <1>2, <1>7, <2>1, Zenon DEF Repeats, g
  <1>9. Scanned(h, spec, C)
    BY <1>7, <1>8, Zenon DEF Scanned, Repeats, L, V
  <1> QED
    BY <1>1, <1>4, <1>7, <1>9, Zenon DEF L

----------------------------------------------------------------------------
(* Tags: runs of characters that are no separators                         *)

(* A run begins the text or comes after a separator, and ends likewise.    *)
Begins(n) == n = 1 \/ text[n - 1] \in Separators
Over(n) == n = Len(text) \/ text[n + 1] \in Separators
Tagged(n) == {SubSeq(text, ij[1], ij[2]) : ij \in
                {ij \in (DOMAIN text) \X (DOMAIN text) :
                   Run(ij[1], ij[2]) /\ Begins(ij[1]) /\ Over(ij[2]) /\ ij[2] <= n}}

(* Having read n characters, the scanner is in the run that begins at b.   *)
ScannedTo(s, b, n) ==
  /\ b \in 1 .. n + 1 /\ Begins(b)
  /\ \A k \in b .. n : text[k] \notin Separators
  /\ s.cur = SubSeq(text, b, n)
  /\ s.out = Tagged(n - 1)

(* The runs that end at n are the one that began last, if it is not empty. *)
LEMMA OneRunEnds ==
  ASSUME NEW C, text \in Seq(C), NEW n \in 0 .. Len(text), NEW s, NEW b, ScannedTo(s, b, n), Over(n)
  PROVE  Tagged(n) = IF b <= n THEN Tagged(n - 1) \cup {SubSeq(text, b, n)} ELSE Tagged(n - 1)
  <1> DEFINE P(a, e) == Run(a, e) /\ Begins(a) /\ Over(e)
  <1>1. Len(text) \in Nat /\ DOMAIN text = 1 .. Len(text) /\ n \in Nat /\ b \in 1 .. n + 1
    BY LenProperties DEF ScannedTo
  <1>2. \A m \in Int : Tagged(m) =
          {SubSeq(text, ij[1], ij[2]) : ij \in
             {ij \in (DOMAIN text) \X (DOMAIN text) : P(ij[1], ij[2]) /\ ij[2] <= m}}
    BY Zenon DEF Tagged
  <1>3. \A m \in Int : \A r : r \in Tagged(m) <=>
          \E a, e \in DOMAIN text : P(a, e) /\ e <= m /\ r = SubSeq(text, a, e)
    <2> TAKE m \in Int
    <2> TAKE r
    <2> HIDE DEF P
    <2>1. ASSUME r \in Tagged(m)
          PROVE  \E a, e \in DOMAIN text : P(a, e) /\ e <= m /\ r = SubSeq(text, a, e)
      <3>1. PICK ij \in (DOMAIN text) \X (DOMAIN text) :
              P(ij[1], ij[2]) /\ ij[2] <= m /\ r = SubSeq(text, ij[1], ij[2])
        BY <1>2, <2>1, Zenon
      <3>2. ij[1] \in DOMAIN text /\ ij[2] \in DOMAIN text
        OBVIOUS
      <3> QED
        BY <3>1, <3>2
    <2>2. ASSUME NEW a \in DOMAIN text, NEW e \in DOMAIN text,
                 P(a, e), e <= m, r = SubSeq(text, a, e)
          PROVE  r \in Tagged(m)
      <3> DEFINE ij == <<a, e>>
      <3>1. ij \in (DOMAIN text) \X (DOMAIN text) /\ ij[1] = a /\ ij[2] = e
        OBVIOUS
      <3> HIDE DEF ij
      <3> QED
        BY <1>2, <2>2, <3>1, Zenon
    <2> QED
      BY <2>1, <2>2
  <1>4. ASSUME NEW a \in DOMAIN text, P(a, n)
        PROVE  a = b /\ b <= n
    <2>1. a \in 1 .. Len(text) /\ a <= n /\ \A k \in a .. n : text[k] \notin Separators
      BY <1>1, <1>4 DEF Run
    <2>2. (b = 1 \/ text[b - 1] \in Separators) /\ (a = 1 \/ text[a - 1] \in Separators)
          /\ \A k \in b .. n : text[k] \notin Separators
      BY <1>4 DEF ScannedTo, Begins
    <2>3. ~(a < b)
      <3> SUFFICES ASSUME a < b PROVE FALSE
        OBVIOUS
      <3>1. b - 1 \in a .. n /\ b # 1
        BY <1>1, <2>1
      <3> QED
        BY <2>1, <2>2, <3>1
    <2>4. ~(b < a)
      <3> SUFFICES ASSUME b < a PROVE FALSE
        OBVIOUS
      <3>1. a - 1 \in b .. n /\ a # 1
        BY <1>1, <2>1
      <3> QED
        BY <2>2, <3>1
    <2> QED
      BY <1>1, <2>1, <2>3, <2>4
  <1>5. ASSUME b <= n PROVE b \in DOMAIN text /\ n \in DOMAIN text /\ P(b, n)
    BY <1>1, <1>5 DEF ScannedTo, Run
  <1> HIDE DEF P
  <1>6. \A e \in DOMAIN text : e <= n <=> e <= n - 1 \/ e = n
    BY <1>1
  <1>7. n \in Int /\ n - 1 \in Int /\ n <= n
    BY <1>1
  <1>8. \A r : r \in Tagged(n) <=> r \in Tagged(n - 1) \/ (b <= n /\ r = SubSeq(text, b, n))
    <2> TAKE r
    <2>1. ASSUME r \in Tagged(n) PROVE r \in Tagged(n - 1) \/ (b <= n /\ r = SubSeq(text, b, n))
      <3>1. PICK a, e \in DOMAIN text : P(a, e) /\ e <= n /\ r = SubSeq(text, a, e)
        BY <1>3, <1>7, <2>1
      <3>2. CASE e <= n - 1
        BY <1>3, <1>7, <3>1, <3>2, Zenon
      <3>3. CASE e = n
        BY <1>4, <3>1, <3>3, Zenon
      <3> QED
        BY <1>6, <3>1, <3>2, <3>3
    <2>2. ASSUME r \in Tagged(n - 1) PROVE r \in Tagged(n)
      <3>1. PICK a, e \in DOMAIN text : P(a, e) /\ e <= n - 1 /\ r = SubSeq(text, a, e)
        BY <1>3, <1>7, <2>2
      <3> QED
        BY <1>3, <1>6, <1>7, <3>1, Zenon
    <2>3. ASSUME b <= n, r = SubSeq(text, b, n) PROVE r \in Tagged(n)
      BY <1>3, <1>5, <1>7, <2>3, Zenon
    <2> QED
      BY <2>1, <2>2, <2>3
  <1>9. CASE b <= n
    BY <1>8, <1>9, Zenon
  <1>10. CASE ~(b <= n)
    BY <1>8, <1>10, Zenon
  <1> QED
    BY <1>9, <1>10, Zenon

(* What is read but not yet flushed is empty when the run is.              *)
LEMMA CurrentRun ==
  ASSUME NEW C, text \in Seq(C), NEW n \in 0 .. Len(text), NEW s, NEW b, ScannedTo(s, b, n)
  PROVE  s.cur = <<>> <=> ~(b <= n)
  <1>1. n \in Nat /\ b \in 1 .. n + 1 /\ s.cur = SubSeq(text, b, n) /\ n <= Len(text)
    BY LenProperties DEF ScannedTo
  <1>2. ASSUME b <= n PROVE s.cur # <<>>
    <2>1. \A k \in b .. n : text[k] \in C
      BY <1>1, ElementOfSeq, LenProperties
    <2>2. Len(s.cur) = n - b + 1 /\ n - b + 1 # 0
      BY <1>1, <1>2, <2>1, SubSeqProperties
    <2> QED
      BY <2>2
  <1>3. ASSUME ~(b <= n) PROVE s.cur = <<>>
    BY <1>1, <1>3, SubSeqEmpty
  <1> QED
    BY <1>2, <1>3

(* Flushing at the end of a run adds it, if it is not empty.               *)
LEMMA FlushStep ==
  ASSUME NEW C, text \in Seq(C), NEW n \in 0 .. Len(text), NEW s \in Scanners(C), NEW b,
         ScannedTo(s, b, n), Over(n)
  PROVE  Flush(s).out = Tagged(n) /\ Flush(s).cur = <<>>
  <1>1. Tagged(n) = IF b <= n THEN Tagged(n - 1) \cup {s.cur} ELSE Tagged(n - 1)
    BY OneRunEnds DEF ScannedTo
  <1>2. s.cur = <<>> <=> ~(b <= n)
    BY CurrentRun
  <1>3. s.out = Tagged(n - 1)
    BY DEF ScannedTo
  <1> QED
    BY <1>1, <1>2, <1>3 DEF Flush

(* One more character. *)
LEMMA ScanStep ==
  ASSUME NEW C, text \in Seq(C), NEW n \in 0 .. Len(text), n # Len(text),
         NEW s \in Scanners(C), NEW b, ScannedTo(s, b, n)
  PROVE  \E a : ScannedTo(Scan(s, text[n + 1]), a, n + 1)
  <1> DEFINE c == text[n + 1]
  <1>1. /\ n \in Nat /\ n + 1 \in Nat /\ n + 1 \in 1 .. Len(text) /\ Len(text) \in Nat
        /\ c \in C /\ b \in 1 .. n + 1 /\ (n + 1) - 1 = n /\ (n + 2) - 1 = n + 1
    BY LenProperties, ElementOfSeq DEF ScannedTo
  <1>2. CASE c \in Separators
    <2>1. Over(n)
      BY <1>2 DEF Over
    <2>2. Flush(s).out = Tagged(n) /\ Flush(s).cur = <<>>
      BY <2>1, FlushStep
    <2>3. n + 2 \in 1 .. (n + 1) + 1 /\ \A k \in n + 2 .. n + 1 : FALSE
      BY <1>1
    <2>4. Begins(n + 2)
      BY <1>1, <1>2 DEF Begins
    <2>5. SubSeq(text, n + 2, n + 1) = <<>>
      BY <1>1, SubSeqEmpty
    <2>6. Scan(s, c) = Flush(s)
      BY <1>2 DEF Scan
    <2>7. ScannedTo(Scan(s, c), n + 2, n + 1)
      BY <1>1, <2>2, <2>3, <2>4, <2>5, <2>6 DEF ScannedTo
    <2> QED
      BY <2>7
  <1>3. CASE c \notin Separators
    <2>1. Scan(s, c).cur = Append(s.cur, c) /\ Scan(s, c).out = s.out
      BY <1>3 DEF Scan, Scanners
    <2>2. Append(s.cur, c) = SubSeq(text, b, n + 1)
      <3>1. SubSeq(text, b, n + 1) = SubSeq(text, b, n) \o <<c>>
        <4>1. b \in 1 .. Len(text) /\ n + 1 \in b .. Len(text)
          BY <1>1
        <4> QED
          BY <1>1, <4>1, SubSeqRecursiveSecond
      <3>2. s.cur \o <<c>> = Append(s.cur, c)
        BY <1>1, AppendIsConcat DEF Scanners
      <3> QED
        BY <3>1, <3>2 DEF ScannedTo
    <2>3. Tagged(n) = Tagged(n - 1)
      <3>1. ~Over(n)
        BY <1>1, <1>3 DEF Over
      <3>2. \A e \in DOMAIN text : e <= n <=> e <= n - 1 \/ e = n
        BY <1>1, LenProperties
      <3> QED
        BY <3>1, <3>2, Zenon DEF Tagged
    <2>4. b \in 1 .. (n + 1) + 1 /\ \A k \in b .. n + 1 : text[k] \notin Separators
      BY <1>1, <1>3 DEF ScannedTo
    <2>5. ScannedTo(Scan(s, c), b, n + 1)
      BY <1>1, <2>1, <2>2, <2>3, <2>4 DEF ScannedTo
    <2> QED
      BY <2>5
  <1> QED
    BY <1>2, <1>3

(* For every text: its tags are its maximal runs of characters that are no *)
(* separators (registry.cpp:23-41).                                        *)
THEOREM TagsAreRuns ==
  ASSUME NEW C, text \in Seq(C)
  PROVE  TagsAreMaximalRuns
  <1> DEFINE L == Len(text)
  <1>1. PICK f : Scanned(f, text, C) /\ parse_tags(text) = Flush(f[L]).out
    BY Scanning
  <1>2. L \in Nat /\ DOMAIN text = 1 .. L /\ f \in [0 .. L -> Scanners(C)]
    BY <1>1, LenProperties DEF Scanned
  <1> DEFINE S == {n \in Nat : n \in 0 .. L => \E b : ScannedTo(f[n], b, n)}
  <1> HIDE DEF L
  <1>3. 0 \in S
    <2>1. SubSeq(text, 1, 0) = <<>>
      BY SubSeqEmpty
    <2>2. Tagged(0 - 1) = {}
      BY <1>2 DEF Tagged
    <2>3. ScannedTo(f[0], 1, 0)
      BY <1>1, <2>1, <2>2 DEF ScannedTo, Scanned, Scanner, Begins
    <2> QED
      BY <2>3
  <1>4. ASSUME NEW n \in S PROVE n + 1 \in S
    <2>1. n \in Nat /\ n + 1 \in Nat /\ (n + 1) - 1 = n
      OBVIOUS
    <2> SUFFICES ASSUME n + 1 \in 0 .. L PROVE \E b : ScannedTo(f[n + 1], b, n + 1)
      BY <2>1
    <2>2. n \in 0 .. L /\ n # L /\ n + 1 \in 1 .. L
      BY <1>2, <2>1
    <2>3. PICK b : ScannedTo(f[n], b, n)
      BY <2>2
    <2>4. f[n + 1] = Scan(f[n], text[n + 1]) /\ f[n] \in Scanners(C)
      BY <1>1, <1>2, <2>1, <2>2, Zenon DEF Scanned, L
    <2> QED
      BY <2>2, <2>3, <2>4, ScanStep DEF L
  <1>5. S = Nat
    <2> HIDE DEF S
    <2>1. S \in SUBSET Nat
      BY DEF S
    <2> QED
      BY <1>3, <1>4, <2>1, Induction
  <1>6. PICK b : ScannedTo(f[L], b, L)
    BY <1>2, <1>5
  <1>7. L \in 0 .. L /\ Over(L) /\ f[L] \in Scanners(C)
    BY <1>2 DEF Over, L
  <1>8. parse_tags(text) = Tagged(L)
    BY <1>1, <1>6, <1>7, FlushStep DEF L
  <1>9. \A ij \in (DOMAIN text) \X (DOMAIN text) : ij[2] <= L
    BY <1>2
  <1> QED
    BY <1>8, <1>9 DEF TagsAreMaximalRuns, Tagged, Begins, Over, L

----------------------------------------------------------------------------
(* Texts: lines                                                            *)

(* The reader of lines after some characters: std::getline takes one after  *)
(* the other.  A line holds no newline.                                     *)
NoLines == [lines |-> <<>>, cur |-> <<>>]
LinesRead(t) == FoldLeft(ReadChar, NoLines, t)
Line(C) == Seq(C \ {"\n"})
LineReaders(C) == [lines : Seq(Line(C)), cur : Line(C)]
LineSteps(t, C) ==
  [p \in Nat |-> [s \in LineReaders(C) |-> IF p \in DOMAIN t THEN ReadChar(s, t[p]) ELSE s]]

(* A character leaves a reader. *)
LEMMA ReadCharType ==
  ASSUME NEW C, NEW s \in LineReaders(C), NEW c \in C
  PROVE  ReadChar(s, c) \in LineReaders(C)
  <1>1. s.lines \in Seq(Line(C)) /\ s.cur \in Line(C)
    BY DEF LineReaders
  <1>2. <<>> \in Line(C) /\ Append(s.lines, s.cur) \in Seq(Line(C))
    BY <1>1, AppendProperties DEF Line
  <1>3. c # "\n" => Append(s.cur, c) \in Line(C)
    BY <1>1, AppendProperties DEF Line
  <1> QED
    BY <1>1, <1>2, <1>3 DEF ReadChar, LineReaders

(* Reading a text takes one step for each of its characters. *)
LEMMA LinesReading ==
  ASSUME NEW C, NEW t \in Seq(C)
  PROVE  \E f : /\ Repeats(f, Len(t), LineReaders(C), NoLines, LineSteps(t, C))
                /\ LinesRead(t) = f[Len(t)]
  <1> DEFINE L == Len(t)
             V == LineReaders(C)
             g == LineSteps(t, C)
             Iter(f) == f = [d \in SUBSET DOMAIN t |->
                               IF d = {} THEN NoLines
                               ELSE ReadChar(f[d \ {Max(d)}], t[Max(d)])]
  <1>1. L \in Nat /\ DOMAIN t = 1 .. L
    BY LenProperties
  <1>2. NoLines \in V
    BY DEF NoLines, LineReaders, Line
  <1>3. \A p \in 1 .. L : \A s \in V : ReadChar(s, t[p]) \in V
    BY ReadCharType, ElementOfSeq
  <1> HIDE DEF L, V
  <1>4. \A p \in 1 .. L : \A s \in V : p \in Nat /\ g[p][s] = ReadChar(s, t[p])
    BY <1>1 DEF LineSteps, V
  <1>5. g \in StepsIn(V)
    <2> DEFINE Step(p, s) == IF p \in DOMAIN t THEN ReadChar(s, t[p]) ELSE s
    <2>1. \A p \in Nat : \A s \in V : Step(p, s) \in V
      BY <1>1, <1>3
    <2>2. g = [p \in Nat |-> [s \in V |-> Step(p, s)]]
      BY Zenon DEF LineSteps, V
    <2> HIDE DEF Step
    <2> QED
      BY <2>1, <2>2 DEF StepsIn
  <1> HIDE DEF g
  <1>6. PICK f : Iter(f) /\ LinesRead(t) = f[DOMAIN t]
    <2>1. PICK f : FoldsUp(f, L, V, NoLines, g)
      BY <1>1, <1>2, <1>5, FoldExists
    <2>2. ASSUME NEW d \in SUBSET (1 .. L)
          PROVE  f[d] = IF d = {} THEN NoLines ELSE ReadChar(f[d \ {Max(d)}], t[Max(d)])
      <3>1. CASE d = {}
        BY <2>1, <3>1, Zenon DEF FoldsUp
      <3>2. CASE d # {}
        <4>1. Max(d) \in 1 .. L /\ f[d] = g[Max(d)][f[d \ {Max(d)}]]
          BY <2>1, <3>2, Zenon DEF FoldsUp
        <4>2. d \ {Max(d)} \in SUBSET (1 .. L)
          OBVIOUS
        <4>3. f[d \ {Max(d)}] \in V
          BY <2>1, <4>2 DEF FoldsUp
        <4> QED
          BY <1>4, <3>2, <4>1, <4>3, Zenon
      <3> QED
        BY <3>1, <3>2
    <2>3. Iter(f)
      BY <1>1, <2>1, <2>2, Zenon DEF FoldsUp
    <2> QED
      BY <2>3, Zenon DEF LinesRead, FoldLeft, MapThenFoldSet
  <1>7. f[{}] = NoLines
    <2>1. {} \in SUBSET DOMAIN t
      OBVIOUS
    <2> QED
      BY <1>6, <2>1, Zenon
  <1>8. ASSUME NEW n \in 1 .. L, f[1 .. n - 1] \in V
        PROVE  f[1 .. n] = g[n][f[1 .. n - 1]]
    <2>1. f[1 .. n] = ReadChar(f[1 .. n - 1], t[n])
      BY <1>1, <1>6, Initial, Zenon
    <2> QED
      BY <1>4, <1>8, <2>1, Zenon
  <1>9. PICK h : Repeats(h, L, V, NoLines, g) /\ h[L] = f[1 .. L]
    BY <1>1, <1>2, <1>5, <1>7, <1>8, FoldRepeats
  <1> QED
    BY <1>1, <1>6, <1>9, Zenon DEF L, V, g

(* No character, no line. *)
LEMMA ReadNothing == LinesRead(<<>>) = NoLines
  <1>1. <<>> \in Seq({}) /\ Len(<<>>) = 0
    OBVIOUS
  <1>2. PICK f : /\ Repeats(f, Len(<<>>), LineReaders({}), NoLines, LineSteps(<<>>, {}))
                 /\ LinesRead(<<>>) = f[Len(<<>>)]
    BY <1>1, LinesReading, Zenon
  <1> QED
    BY <1>1, <1>2, Zenon DEF Repeats

(* The last character is read after the others. *)
LEMMA ReadOneMore ==
  ASSUME NEW C, NEW t \in Seq(C), NEW c \in C
  PROVE  LinesRead(t) \in LineReaders(C) /\ LinesRead(Append(t, c)) = ReadChar(LinesRead(t), c)
  <1> DEFINE u == Append(t, c)
             L == Len(t)
  <1>1. /\ L \in Nat /\ u \in Seq(C) /\ Len(u) = L + 1 /\ u[L + 1] = c
        /\ DOMAIN t = 1 .. L /\ DOMAIN u = 1 .. L + 1 /\ \A n \in 1 .. L : u[n] = t[n]
    BY LenProperties, AppendProperties
  <1> HIDE DEF u, L
  <1>2. PICK f : Repeats(f, L, LineReaders(C), NoLines, LineSteps(t, C)) /\ LinesRead(t) = f[L]
    BY LinesReading DEF L
  <1>3. PICK h : /\ Repeats(h, L + 1, LineReaders(C), NoLines, LineSteps(u, C))
                 /\ LinesRead(u) = h[L + 1]
    BY <1>1, LinesReading
  <1>4. /\ L \in 0 .. L /\ L + 1 \in Nat /\ L + 1 \in 1 .. L + 1 /\ (L + 1) - 1 = L /\ L <= L + 1
        /\ \A n \in 1 .. L : n \in Nat /\ n \in 1 .. L + 1
    BY <1>1
  <1>5. \A n \in 1 .. L : LineSteps(t, C)[n] = LineSteps(u, C)[n]
    BY <1>1, <1>4, Zenon DEF LineSteps
  <1>6. f[L] = h[L]
    BY <1>1, <1>2, <1>3, <1>4, <1>5, RepeatsAgree
  <1>7. f[L] \in LineReaders(C)
    BY <1>2, <1>4, Zenon DEF Repeats
  <1>8. h[L + 1] = LineSteps(u, C)[L + 1][h[L]]
    BY <1>3, <1>4, Zenon DEF Repeats
  <1>9. LineSteps(u, C)[L + 1][h[L]] = ReadChar(h[L], c)
    BY <1>1, <1>4, <1>6, <1>7, Zenon DEF LineSteps
  <1> QED
    BY <1>2, <1>3, <1>6, <1>7, <1>8, <1>9, Zenon DEF u

----------------------------------------------------------------------------
(* Texts: writing piece by piece                                           *)

(* Writing the pieces of a text one after the other. *)
Flattened(f, seqs, C) ==
  /\ f \in [0 .. Len(seqs) -> Seq(C)] /\ f[0] = <<>>
  /\ \A n \in 1 .. Len(seqs) : f[n] = f[n - 1] \o seqs[n]

(* The text is there when the last piece is written. *)
LEMMA Flattening ==
  ASSUME NEW C, NEW seqs \in Seq(Seq(C))
  PROVE  \E f : Flattened(f, seqs, C) /\ FlattenSeq(seqs) = f[Len(seqs)]
  <1> DEFINE L == Len(seqs)
             V == Seq(C)
             Step(p, s) == IF p \in 1 .. L THEN s \o seqs[p] ELSE s
             g == [p \in Nat |-> [s \in V |-> Step(p, s)]]
             Is(h) == h = [j \in 1 .. L |-> IF j = 1 THEN seqs[j] ELSE h[j - 1] \o seqs[j]]
  <1>1. L \in Nat /\ DOMAIN seqs = 1 .. L /\ \A p \in 1 .. L : seqs[p] \in V
    BY LenProperties, ElementOfSeq
  <1>2. <<>> \in V
    OBVIOUS
  <1> HIDE DEF L
  <1>3. \A p \in Nat : \A s \in V : Step(p, s) \in V
    BY <1>1, ConcatProperties
  <1> HIDE DEF V
  <1>4. PICK f : Repeats(f, L, V, <<>>, g)
    <2>1. g \in StepsIn(V)
      <3> HIDE DEF Step
      <3> QED
        BY <1>3 DEF StepsIn
    <2> HIDE DEF g
    <2> QED
      BY <1>1, <1>2, <2>1, Recursion
  <1>5. ASSUME NEW n \in 1 .. L PROVE f[n - 1] \in V /\ f[n] = f[n - 1] \o seqs[n]
    <2>1. n - 1 \in 0 .. L /\ n \in Nat
      BY <1>1
    <2>2. f[n - 1] \in V /\ f[n] = g[n][f[n - 1]]
      BY <1>4, <2>1, Zenon DEF Repeats
    <2> QED
      BY <2>1, <2>2, Zenon
  <1>6. Flattened(f, seqs, C)
    BY <1>4, <1>5, Zenon DEF Flattened, Repeats, L, V
  <1>7. PICK flatten : Is(flatten) /\ (L # 0 => FlattenSeq(seqs) = flatten[L])
    <2> DEFINE h == [j \in 1 .. L |-> f[j]]
    <2>1. ASSUME NEW j \in 1 .. L PROVE f[j] = IF j = 1 THEN seqs[j] ELSE h[j - 1] \o seqs[j]
      <3>1. CASE j = 1
        <4>1. f[0] = <<>> /\ f[1] = f[0] \o seqs[1] /\ seqs[1] \in V
          <5>1. 1 - 1 = 0
            OBVIOUS
          <5> QED
            BY <1>1, <1>4, <1>5, <3>1, <5>1, Zenon DEF Repeats
        <4> QED
          BY <3>1, <4>1, ConcatEmptySeq DEF V
      <3>2. CASE j # 1
        <4>1. j - 1 \in 1 .. L
          BY <1>1, <3>2
        <4>2. h[j - 1] = f[j - 1]
          BY <4>1, Zenon
        <4> QED
          BY <1>5, <3>2, <4>2, Zenon
      <3> QED
        BY <3>1, <3>2
    <2>2. Is(h)
      BY <2>1, Zenon
    <2> HIDE DEF h
    <2> QED
      BY <2>2, Zenon DEF FlattenSeq, L
  <1> DEFINE S == {n \in Nat : n \in 1 .. L => flatten[n] = f[n]}
  <1>8. 0 \in S
    OBVIOUS
  <1>9. ASSUME NEW n \in S PROVE n + 1 \in S
    <2>1. n \in Nat /\ n + 1 \in Nat /\ (n + 1) - 1 = n
      OBVIOUS
    <2> SUFFICES ASSUME n + 1 \in 1 .. L PROVE flatten[n + 1] = f[n + 1]
      BY <2>1
    <2>2. flatten[n + 1] = IF n + 1 = 1 THEN seqs[n + 1] ELSE flatten[n] \o seqs[n + 1]
      BY <1>7, <2>1, Zenon
    <2>3. f[n + 1] = f[n] \o seqs[n + 1]
      BY <1>5, <2>1, Zenon
    <2>4. CASE n = 0
      <3>1. n + 1 = 1
        BY <2>4
      <3>2. f[0] = <<>> /\ seqs[1] \in V
        BY <1>1, <1>4, <3>1, Zenon DEF Repeats
      <3>3. f[1] = f[0] \o seqs[1] /\ flatten[1] = seqs[1]
        BY <2>2, <2>3, <2>4, <3>1, Zenon
      <3> QED
        BY <3>1, <3>2, <3>3, ConcatEmptySeq DEF V
    <2>5. CASE n # 0
      <3>1. n \in 1 .. L
        BY <1>1, <2>1, <2>5
      <3>2. flatten[n] = f[n] /\ n + 1 # 1
        BY <2>1, <2>5, <3>1
      <3> QED
        BY <2>2, <2>3, <3>2, Zenon
    <2> QED
      BY <2>4, <2>5
  <1>10. S = Nat
    <2> HIDE DEF S
    <2>1. S \in SUBSET Nat
      BY DEF S
    <2> QED
      BY <1>8, <1>9, <2>1, Induction, Zenon
  <1>11. CASE L = 0
    <2>1. seqs = <<>> /\ FlattenSeq(seqs) = seqs
      <3>1. Len(seqs) = 0
        BY <1>11, Zenon DEF L
      <3>2. seqs = <<>>
        BY <3>1, EmptySeq, Zenon
      <3>3. FlattenSeq(seqs) = seqs
        BY <3>1, <3>2, Zenon DEF FlattenSeq
      <3> QED
        BY <3>2, <3>3
    <2>2. f[0] = <<>>
      BY <1>4 DEF Repeats
    <2> QED
      BY <1>6, <1>11, <2>1, <2>2 DEF L
  <1>12. CASE L # 0
    <2>1. L \in Nat /\ L \in 1 .. L
      BY <1>1, <1>12
    <2>2. flatten[L] = f[L]
      <3> HIDE DEF Is
      <3> QED
        BY <1>10, <2>1
    <2> QED
      BY <1>6, <1>7, <1>12, <2>2, Zenon DEF L
  <1> QED
    BY <1>11, <1>12

(* What was read is lines, whatever was written. *)
LEMMA LinesReadType ==
  ASSUME NEW C, NEW t \in Seq(C)
  PROVE  LinesRead(t) \in LineReaders(C)
  <1>1. PICK f : /\ Repeats(f, Len(t), LineReaders(C), NoLines, LineSteps(t, C))
                 /\ LinesRead(t) = f[Len(t)]
    BY LinesReading
  <1>2. Len(t) \in 0 .. Len(t)
    BY LenProperties
  <1> QED
    BY <1>1, <1>2, Zenon DEF Repeats

(* What follows the last newline is a line unless it is empty. *)
LEMMA LinesAre ==
  ASSUME NEW t
  PROVE  Lines(t) = IF LinesRead(t).cur = <<>> THEN LinesRead(t).lines
                    ELSE Append(LinesRead(t).lines, LinesRead(t).cur)
  BY Zenon DEF Lines, LinesRead, NoLines

(* The last character may be joined first. *)
LEMMA ConcatAppend ==
  ASSUME NEW C, NEW s \in Seq(C), NEW t \in Seq(C), NEW c \in C
  PROVE  s \o Append(t, c) = Append(s \o t, c)
  <1>1. <<c>> \in Seq(C) /\ s \o t \in Seq(C)
    BY ConcatProperties
  <1>2. Append(t, c) = t \o <<c>> /\ Append(s \o t, c) = (s \o t) \o <<c>>
    BY <1>1, AppendIsConcat
  <1>3. s \o (t \o <<c>>) = (s \o t) \o <<c>>
    BY <1>1, ConcatAssociative
  <1> QED
    BY <1>2, <1>3

(* The first n + 1 elements are the first n and one more. *)
LEMMA SubSeqAppend ==
  ASSUME NEW C, NEW s \in Seq(C), NEW n \in Nat, n + 1 \in 1 .. Len(s)
  PROVE  /\ SubSeq(s, 1, n) \in Seq(C) /\ s[n + 1] \in C
         /\ SubSeq(s, 1, n + 1) = Append(SubSeq(s, 1, n), s[n + 1])
  <1>1. n + 1 \in 1 .. Len(s) /\ 1 \in 1 .. Len(s) /\ (n + 1) - 1 = n /\ Len(s) \in Nat
    BY LenProperties
  <1>2. \A k \in 1 .. n : s[k] \in C
    BY <1>1, ElementOfSeq
  <1>3. SubSeq(s, 1, n) \in Seq(C)
    BY <1>2, SubSeqProperties
  <1>4. SubSeq(s, 1, n + 1) = SubSeq(s, 1, n) \o <<s[n + 1]>>
    BY <1>1, SubSeqRecursiveSecond
  <1>5. s[n + 1] \in C
    BY <1>1, ElementOfSeq
  <1> QED
    BY <1>3, <1>4, <1>5, AppendIsConcat

(* Characters that are no newlines go to the current line. *)
LEMMA ReadInLine ==
  ASSUME NEW C, NEW t \in Seq(C), NEW l \in Line(C)
  PROVE  LinesRead(t \o l) = [lines |-> LinesRead(t).lines, cur |-> LinesRead(t).cur \o l]
  <1> DEFINE L == Len(l)
             r == LinesRead(t)
             Upto(n) == SubSeq(l, 1, n)
             S == {n \in Nat : n \in 0 .. L =>
                     LinesRead(t \o Upto(n)) = [lines |-> r.lines, cur |-> r.cur \o Upto(n)]}
  <1>1. l \in Seq(C) /\ L \in Nat /\ r \in LineReaders(C) /\ l \in Seq(C \ {"\n"})
    BY LenProperties, SeqMonotonic, LinesReadType DEF Line
  <1>2. r.lines \in Seq(Line(C)) /\ r.cur \in Seq(C) /\ r = [lines |-> r.lines, cur |-> r.cur]
    <2>1. r.cur \in Seq(C \ {"\n"})
      BY <1>1 DEF LineReaders, Line
    <2> QED
      BY <1>1, <2>1, SeqMonotonic DEF LineReaders
  <1> HIDE DEF L, r
  <1>3. 0 \in S
    <2>1. Upto(0) = <<>>
      BY SubSeqEmpty
    <2>2. t \o <<>> = t /\ r.cur \o <<>> = r.cur
      BY <1>2, ConcatEmptySeq
    <2>3. [lines |-> r.lines, cur |-> r.cur \o Upto(0)] = r
      BY <1>2, <2>1, <2>2, Zenon
    <2> QED
      BY <2>1, <2>2, <2>3, Zenon DEF r
  <1>4. ASSUME NEW n \in S PROVE n + 1 \in S
    <2>1. n \in Nat /\ n + 1 \in Nat
      OBVIOUS
    <2> SUFFICES ASSUME n + 1 \in 0 .. L
                 PROVE  LinesRead(t \o Upto(n + 1)) =
                          [lines |-> r.lines, cur |-> r.cur \o Upto(n + 1)]
      BY <2>1
    <2>2. n \in 0 .. L /\ n + 1 \in 1 .. L
      BY <1>1, <2>1
    <2> DEFINE c == l[n + 1]
               u == Upto(n)
    <2>3. u \in Seq(C) /\ c \in C \ {"\n"} /\ Upto(n + 1) = Append(u, c)
      <3>1. u \in Seq(C \ {"\n"}) /\ c \in C \ {"\n"} /\ Upto(n + 1) = Append(u, c)
        BY <1>1, <2>1, <2>2, SubSeqAppend DEF L
      <3> QED
        BY <3>1, SeqMonotonic
    <2>4. LinesRead(t \o u) = [lines |-> r.lines, cur |-> r.cur \o u]
      BY <2>2
    <2> HIDE DEF u, c, Upto
    <2>5. t \o Append(u, c) = Append(t \o u, c) /\ r.cur \o Append(u, c) = Append(r.cur \o u, c)
      <3>1. c \in C /\ u \in Seq(C) /\ r.cur \in Seq(C)
        BY <1>2, <2>3
      <3>2. \A s \in Seq(C) : s \o Append(u, c) = Append(s \o u, c)
        BY <3>1, ConcatAppend
      <3> QED
        BY <3>1, <3>2
    <2>6. t \o u \in Seq(C)
      BY <2>3, ConcatProperties
    <2>7. LinesRead(Append(t \o u, c)) = ReadChar(LinesRead(t \o u), c)
      BY <2>3, <2>6, ReadOneMore
    <2>8. ReadChar([lines |-> r.lines, cur |-> r.cur \o u], c) =
            [lines |-> r.lines, cur |-> Append(r.cur \o u, c)]
      BY <2>3 DEF ReadChar
    <2>9. LinesRead(t \o Upto(n + 1)) = [lines |-> r.lines, cur |-> Append(r.cur \o u, c)]
      BY <2>3, <2>4, <2>5, <2>7, <2>8, Zenon
    <2>10. r.cur \o Upto(n + 1) = Append(r.cur \o u, c)
      BY <2>3, <2>5, Zenon
    <2> QED
      BY <2>9, <2>10, Zenon
  <1>5. S = Nat
    <2> HIDE DEF S
    <2>1. S \in SUBSET Nat
      BY DEF S
    <2> QED
      BY <1>3, <1>4, <2>1, Induction
  <1>6. L \in 0 .. L /\ Upto(L) = l
    BY <1>1, SubSeqFull DEF L
  <1> QED
    BY <1>1, <1>5, <1>6 DEF r

----------------------------------------------------------------------------
(* Texts: indentation                                                      *)

(* The first n of some lines behind the prefix. *)
Prefixed(lines, n) == [k \in 1 .. n |-> prefix \o lines[k]]

(* One more line stands behind the prefix. *)
LEMMA PrefixedGrows ==
  ASSUME NEW C, NEW lines \in Seq(Line(C)), prefix \in Line(C),
         NEW n \in Nat, n + 1 \in 1 .. Len(lines)
  PROVE  /\ prefix \o lines[n + 1] \in Line(C) /\ Prefixed(lines, n) \in Seq(Line(C))
         /\ Prefixed(lines, n + 1) = Append(Prefixed(lines, n), prefix \o lines[n + 1])
  <1>1. \A k \in 1 .. n + 1 : k \in 1 .. Len(lines)
    BY LenProperties
  <1>2. \A k \in 1 .. n + 1 : prefix \o lines[k] \in Line(C)
    <2>1. \A k \in 1 .. n + 1 : lines[k] \in Line(C)
      BY <1>1, ElementOfSeq
    <2> QED
      BY <2>1, ConcatProperties DEF Line
  <1>3. Prefixed(lines, n) \in Seq(Line(C)) /\ Prefixed(lines, n + 1) \in Seq(Line(C))
    <2> DEFINE e(k) == prefix \o lines[k]
    <2>1. \A k \in 1 .. n + 1 : e(k) \in Line(C)
      BY <1>2
    <2> HIDE DEF e
    <2>2. [k \in 1 .. n + 1 |-> e(k)] \in Seq(Line(C)) /\ [k \in 1 .. n |-> e(k)] \in Seq(Line(C))
      BY <2>1
    <2> QED
      BY <2>2, Zenon DEF Prefixed, e
  <1>4. n + 1 \in 1 .. n + 1
    OBVIOUS
  <1>5. Prefixed(lines, n + 1) = Append(Prefixed(lines, n), prefix \o lines[n + 1])
    <2> DEFINE e(k) == prefix \o lines[k]
    <2> HIDE DEF e
    <2>1. [k \in 1 .. n + 1 |-> e(k)] = Append([k \in 1 .. n |-> e(k)], e(n + 1))
      OBVIOUS
    <2> QED
      BY <2>1, Zenon DEF Prefixed, e
  <1> QED
    BY <1>2, <1>3, <1>4, <1>5

(* The prefix is four spaces. *)
LEMMA FourTimes ==
  ASSUME NEW S, NEW c \in S
  PROVE  <<c, c, c, c>> \in Seq(S) /\ Len(<<c, c, c, c>>) = 4
  OBVIOUS

(* Three texts are the same one joined from the left or from the right. *)
Joined(s, t, u) == s \o t \o u = s \o (t \o u)

(* Joining is associative. *)
LEMMA JoinedInAnyOrder ==
  ASSUME NEW C, NEW s \in Seq(C), NEW t \in Seq(C), NEW u \in Seq(C)
  PROVE  Joined(s, t, u)
  BY ConcatAssociative DEF Joined

(* It has no newline. *)
LEMMA PrefixSpelling ==
  ASSUME NEW S, " " \in S
  PROVE  prefix \in Seq(S) /\ Len(prefix) = 4
  BY FourTimes, Zenon DEF prefix

(* indent writes the prefix before each line, and a newline between two. *)
LEMMA IndentedLines ==
  ASSUME NEW C, text \in Seq(C)
  PROVE  LET lines == Lines(text) IN
         lines \in Seq(Line(C)) /\ Lines(indent(text, prefix)) = Prefixed(lines, Len(lines))
  <1> DEFINE lines == Lines(text)
             N == Len(lines)
             D == C \cup {" ", "\n"}
             Piece(n) == (IF n = 1 THEN <<>> ELSE <<"\n">>) \o prefix \o lines[n]
             pieces == [n \in DOMAIN lines |-> Piece(n)]
  <1>1. lines \in Seq(Line(C)) /\ lines \in Seq(Line(D))
    <2>1. LinesRead(text).lines \in Seq(Line(C)) /\ LinesRead(text).cur \in Line(C)
      BY LinesReadType DEF LineReaders
    <2>2. Append(LinesRead(text).lines, LinesRead(text).cur) \in Seq(Line(C))
      BY <2>1, AppendProperties
    <2>3. lines \in Seq(Line(C))
      BY <2>1, <2>2, LinesAre
    <2>4. Line(C) \subseteq Line(D)
      <3>1. C \ {"\n"} \subseteq D \ {"\n"}
        OBVIOUS
      <3> HIDE DEF D
      <3> QED
        BY <3>1, SeqMonotonic DEF Line
    <2> HIDE DEF D, lines
    <2> QED
      BY <2>3, <2>4, SeqMonotonic
  <1>2. /\ prefix \in Line(D) /\ Len(prefix) = 4 /\ "\n" \in D
        /\ N \in Nat /\ DOMAIN lines = 1 .. N
    <2>1. " " \in D \ {"\n"}
      OBVIOUS
    <2> HIDE DEF D, lines
    <2>2. prefix \in Line(D) /\ Len(prefix) = 4
      BY <2>1, PrefixSpelling, Zenon DEF Line
    <2> QED
      BY <1>1, <2>2, LenProperties DEF D
  <1> HIDE DEF D, lines, N
  <1>3. ASSUME NEW n \in 1 .. N
        PROVE  /\ lines[n] \in Line(D) /\ prefix \o lines[n] \in Line(D)
               /\ prefix \o lines[n] \in Seq(D) /\ prefix \in Seq(D) /\ lines[n] \in Seq(D)
    <2>1. lines[n] \in Line(D)
      BY <1>1, ElementOfSeq DEF N
    <2>2. prefix \o lines[n] \in Line(D)
      BY <1>2, <2>1, ConcatProperties DEF Line
    <2> QED
      BY <1>2, <2>1, <2>2, SeqMonotonic DEF Line
  <1>4. ASSUME NEW n \in 1 .. N
        PROVE  /\ Piece(n) \in Seq(D)
               /\ n = 1 => Piece(n) = prefix \o lines[n]
               /\ n # 1 => Piece(n) = <<"\n">> \o (prefix \o lines[n])
    <2>1. <<"\n">> \in Seq(D) /\ <<>> \in Seq(D)
      BY <1>2
    <2>2. <<>> \o prefix = prefix
      BY <1>3, ConcatEmptySeq
    <2>3. (<<"\n">> \o prefix) \o lines[n] = <<"\n">> \o (prefix \o lines[n])
      <3> DEFINE newline == <<"\n">>
      <3>1. newline \in Seq(D)
        BY <2>1
      <3> HIDE DEF newline
      <3>2. Joined(newline, prefix, lines[n])
        BY <1>3, <3>1, JoinedInAnyOrder
      <3> QED
        BY <3>2, Zenon DEF newline, Joined
    <2>4. <<"\n">> \o (prefix \o lines[n]) \in Seq(D)
      BY <1>3, <2>1, ConcatProperties
    <2> QED
      BY <1>3, <2>2, <2>3, <2>4
  <1> HIDE DEF Piece
  <1>5. pieces \in Seq(Seq(D)) /\ Len(pieces) = N
    BY <1>2, <1>4
  <1>6. indent(text, prefix) = FlattenSeq(pieces)
    BY Zenon DEF indent, Piece, lines
  <1> HIDE DEF pieces
  <1>7. PICK f : Flattened(f, pieces, D) /\ FlattenSeq(pieces) = f[N]
    BY <1>5, Flattening
  <1>8. /\ f[0] = <<>>
        /\ \A n \in 0 .. N : f[n] \in Seq(D)
        /\ \A n \in 1 .. N : f[n] = f[n - 1] \o Piece(n)
    <2>1. \A n \in 1 .. N : pieces[n] = Piece(n)
      BY <1>2, Zenon DEF pieces
    <2> QED
      BY <1>5, <1>7, <2>1 DEF Flattened
  <1> DEFINE Read(n) == [lines |-> Prefixed(lines, n - 1), cur |-> prefix \o lines[n]]
             S == {n \in Nat : n \in 1 .. N => LinesRead(f[n]) = Read(n)}
  <1>9. 0 \in S
    OBVIOUS
  <1>10. ASSUME NEW n \in S PROVE n + 1 \in S
    <2>1. n \in Nat /\ n + 1 \in Nat /\ (n + 1) - 1 = n
      OBVIOUS
    <2> SUFFICES ASSUME n + 1 \in 1 .. N PROVE LinesRead(f[n + 1]) = Read(n + 1)
      BY <2>1
    <2>2. n \in 0 .. N /\ f[n] \in Seq(D) /\ f[n + 1] = f[n] \o Piece(n + 1)
      <3>1. n \in 0 .. N
        BY <1>2, <2>1
      <3> QED
        BY <1>8, <2>1, <3>1, Zenon
    <2> DEFINE l == prefix \o lines[n + 1]
    <2>3. l \in Line(D) /\ l \in Seq(D)
      BY <1>3
    <2>4. CASE n = 0
      <3>1. f[n + 1] = <<>> \o l
        <4>1. Piece(n + 1) = l /\ f[n] = <<>>
          BY <1>4, <1>8, <2>4
        <4> QED
          BY <2>2, <4>1, Zenon
      <3>2. LinesRead(<<>> \o l) = [lines |-> <<>>, cur |-> <<>> \o l]
        <4>1. <<>> \in Seq(D)
          OBVIOUS
        <4> HIDE DEF l
        <4>2. LinesRead(<<>> \o l) =
                [lines |-> LinesRead(<<>>).lines, cur |-> LinesRead(<<>>).cur \o l]
          BY <2>3, <4>1, ReadInLine
        <4>3. LinesRead(<<>>).lines = <<>> /\ LinesRead(<<>>).cur = <<>>
          BY ReadNothing DEF NoLines
        <4> QED
          BY <4>2, <4>3, Zenon
      <3>3. <<>> \o l = l /\ Prefixed(lines, 0) = <<>>
        <4>1. Prefixed(lines, 0) = <<>>
          BY DEF Prefixed
        <4> HIDE DEF l
        <4> QED
          BY <2>3, <4>1, ConcatEmptySeq
      <3>4. (n + 1) - 1 = 0
        BY <2>4
      <3> QED
        BY <3>1, <3>2, <3>3, <3>4, Zenon
    <2>5. CASE n # 0
      <3>1. n \in 1 .. N /\ LinesRead(f[n]) = Read(n)
        BY <1>2, <2>1, <2>5
      <3>2. f[n + 1] = Append(f[n], "\n") \o l
        <4>1. Piece(n + 1) = <<"\n">> \o l
          BY <1>4, <2>1, <2>5
        <4>2. <<"\n">> \in Seq(D) /\ Append(f[n], "\n") = f[n] \o <<"\n">>
          BY <1>2, <2>2, AppendIsConcat
        <4> HIDE DEF l
        <4>3. (f[n] \o <<"\n">>) \o l = f[n] \o (<<"\n">> \o l)
          <5> DEFINE newline == <<"\n">>
          <5>1. newline \in Seq(D)
            BY <4>2
          <5> HIDE DEF newline
          <5>2. Joined(f[n], newline, l)
            BY <2>2, <2>3, <5>1, JoinedInAnyOrder
          <5> QED
            BY <5>2, Zenon DEF newline, Joined
        <4> QED
          BY <2>2, <4>1, <4>2, <4>3
      <3>3. LinesRead(Append(f[n], "\n")) = [lines |-> Prefixed(lines, n), cur |-> <<>>]
        <4>1. LinesRead(Append(f[n], "\n")) = ReadChar(Read(n), "\n")
          BY <1>2, <2>2, <3>1, ReadOneMore
        <4>2. ReadChar(Read(n), "\n") =
                [lines |-> Append(Prefixed(lines, n - 1), prefix \o lines[n]), cur |-> <<>>]
          BY DEF ReadChar
        <4>3. Append(Prefixed(lines, n - 1), prefix \o lines[n]) = Prefixed(lines, n)
          <5>1. n - 1 \in Nat /\ (n - 1) + 1 = n
            BY <3>1
          <5> QED
            BY <1>1, <1>2, <3>1, <5>1, PrefixedGrows DEF N
        <4> QED
          BY <4>1, <4>2, <4>3
      <3>4. Append(f[n], "\n") \in Seq(D)
        BY <1>2, <2>2, AppendProperties
      <3>5. LinesRead(f[n + 1]) = [lines |-> Prefixed(lines, n), cur |-> <<>> \o l]
        <4> HIDE DEF l
        <4>1. LinesRead(Append(f[n], "\n") \o l) =
                [lines |-> LinesRead(Append(f[n], "\n")).lines,
                 cur |-> LinesRead(Append(f[n], "\n")).cur \o l]
          BY <2>3, <3>4, ReadInLine
        <4>2. /\ LinesRead(Append(f[n], "\n")).lines = Prefixed(lines, n)
              /\ LinesRead(Append(f[n], "\n")).cur = <<>>
          BY <3>3
        <4> QED
          BY <3>2, <4>1, <4>2, Zenon
      <3>6. <<>> \o l = l
        <4> HIDE DEF l
        <4> QED
          BY <2>3, ConcatEmptySeq
      <3> QED
        BY <2>1, <3>5, <3>6, Zenon
    <2> QED
      BY <2>4, <2>5
  <1>11. S = Nat
    <2> HIDE DEF S
    <2>1. S \in SUBSET Nat
      BY DEF S
    <2> QED
      BY <1>9, <1>10, <2>1, Induction
  <1>12. Lines(f[N]) = Prefixed(lines, N)
    <2>1. CASE N = 0
      <3>1. LinesRead(f[N]) = NoLines
        BY <1>8, <2>1, ReadNothing
      <3>2. Prefixed(lines, N) = <<>>
        BY <2>1 DEF Prefixed
      <3> QED
        BY <3>1, <3>2, LinesAre DEF NoLines
    <2>2. CASE N # 0
      <3>1. N \in 1 .. N /\ N - 1 \in Nat /\ (N - 1) + 1 = N /\ N \in Nat
        BY <1>2, <2>2
      <3>2. LinesRead(f[N]) = Read(N)
        BY <1>11, <3>1
      <3>3. prefix \o lines[N] # <<>>
        <4>1. lines[N] \in Seq(D) /\ prefix \in Seq(D)
          BY <1>3, <3>1
        <4>2. Len(prefix \o lines[N]) = Len(prefix) + Len(lines[N]) /\ Len(lines[N]) \in Nat
          BY <4>1, ConcatProperties, LenProperties, Zenon
        <4>3. Len(prefix \o lines[N]) # 0
          BY <1>2, <4>2
        <4> QED
          BY <4>3
      <3>4. Append(Prefixed(lines, N - 1), prefix \o lines[N]) = Prefixed(lines, N)
        BY <1>1, <1>2, <3>1, PrefixedGrows DEF N
      <3>5. /\ LinesRead(f[N]).lines = Prefixed(lines, N - 1)
            /\ LinesRead(f[N]).cur = prefix \o lines[N]
        BY <3>2
      <3> QED
        BY <3>3, <3>4, <3>5, LinesAre, Zenon
    <2> QED
      BY <2>1, <2>2
  <1> QED
    BY <1>1, <1>6, <1>7, <1>12, Zenon DEF lines, N

(* For every text: indent puts the prefix in front of each line of it and   *)
(* adds no line and loses none (reporter.cpp:34-46).                        *)
THEOREM LinesIndented ==
  ASSUME NEW C, text \in Seq(C)
  PROVE  LinesStayIndented
  <1> DEFINE lines == Lines(text)
  <1>1. lines \in Seq(Line(C)) /\ Lines(indent(text, prefix)) = Prefixed(lines, Len(lines))
    BY IndentedLines
  <1>2. Len(lines) \in Nat /\ DOMAIN lines = 1 .. Len(lines)
    BY <1>1, LenProperties
  <1> HIDE DEF lines
  <1>3. /\ Len(Prefixed(lines, Len(lines))) = Len(lines)
        /\ \A n \in 1 .. Len(lines) : Prefixed(lines, Len(lines))[n] = prefix \o lines[n]
    BY <1>2 DEF Prefixed
  <1> QED
    BY <1>1, <1>2, <1>3, Zenon DEF LinesStayIndented, lines

----------------------------------------------------------------------------
(* Texts: entities                                                         *)

(* An entity is a name between an ampersand and a semicolon. *)
Letters == {"a", "g", "l", "m", "o", "p", "q", "s", "t", "u"}
Between(e, x, y) == \E name \in Seq(Letters) : e = Append(<<x>> \o name, y)

(* Names of two, three and four letters. *)
LEMMA Spelling2 ==
  ASSUME NEW j \in Letters, NEW k \in Letters, NEW x, NEW y,
         NEW e, e = <<x, j, k, y>>
  PROVE  Between(e, x, y)
  <1>1. <<j, k>> \in Seq(Letters) /\ <<x, j, k, y>> = Append(<<x>> \o <<j, k>>, y)
    OBVIOUS
  <1> QED
    BY <1>1, Zenon DEF Between

LEMMA Spelling3 ==
  ASSUME NEW j \in Letters, NEW k \in Letters, NEW l \in Letters, NEW x, NEW y,
         NEW e, e = <<x, j, k, l, y>>
  PROVE  Between(e, x, y)
  <1>1. <<j, k, l>> \in Seq(Letters) /\ <<x, j, k, l, y>> = Append(<<x>> \o <<j, k, l>>, y)
    OBVIOUS
  <1> QED
    BY <1>1, Zenon DEF Between

LEMMA Spelling4 ==
  ASSUME NEW j \in Letters, NEW k \in Letters, NEW l \in Letters, NEW m \in Letters,
         NEW x, NEW y, NEW e, e = <<x, j, k, l, m, y>>
  PROVE  Between(e, x, y)
  <1>1. /\ <<j, k, l, m>> \in Seq(Letters)
        /\ <<x, j, k, l, m, y>> = Append(<<x>> \o <<j, k, l, m>>, y)
    OBVIOUS
  <1> QED
    BY <1>1, Zenon DEF Between

(* Every entity is such a name between the two. *)
LEMMA EntitySpelling == \A c \in Markup : Between(Entity(c), "&", ";")
  <1>1. /\ "a" \in Letters /\ "g" \in Letters /\ "l" \in Letters /\ "m" \in Letters
        /\ "o" \in Letters /\ "p" \in Letters /\ "q" \in Letters /\ "s" \in Letters
        /\ "t" \in Letters /\ "u" \in Letters
    BY DEF Letters
  <1>2. /\ Entity("<") = <<"&", "l", "t", ";">> /\ Entity(">") = <<"&", "g", "t", ";">>
        /\ Entity("&") = <<"&", "a", "m", "p", ";">>
        /\ Entity("\"") = <<"&", "q", "u", "o", "t", ";">>
        /\ Entity("'") = <<"&", "a", "p", "o", "s", ";">>
    BY DEF Entity
  <1>3. Between(Entity("<"), "&", ";")
    BY <1>1, <1>2, Spelling2, Zenon
  <1>4. Between(Entity(">"), "&", ";")
    BY <1>1, <1>2, Spelling2, Zenon
  <1>5. Between(Entity("&"), "&", ";")
    BY <1>1, <1>2, Spelling3, Zenon
  <1>6. Between(Entity("\""), "&", ";")
    BY <1>1, <1>2, Spelling4, Zenon
  <1>7. Between(Entity("'"), "&", ";")
    BY <1>1, <1>2, Spelling4, Zenon
  <1> QED
    BY <1>3, <1>4, <1>5, <1>6, <1>7, Zenon DEF Markup

(* No two characters have the same entity. *)
LEMMA Injective ==
  ASSUME NEW c \in Markup, NEW d \in Markup, Entity(c) = Entity(d)
  PROVE  c = d
  <1>1. /\ Entity("&")[2] = "a" /\ Entity("&")[3] = "m"
        /\ Entity("<")[2] = "l" /\ Entity(">")[2] = "g" /\ Entity("\"")[2] = "q"
        /\ Entity("'")[2] = "a" /\ Entity("'")[3] = "p"
    BY DEF Entity
  <1> QED
    BY <1>1 DEF Markup

----------------------------------------------------------------------------
(* Texts: reading a report back                                            *)

(* The reader of characters and references. *)
NothingRead == [out |-> <<>>, ref |-> <<>>]
MarkupReaders(C) == [out : Seq(C \cup Markup \cup {""}), ref : Seq(C)]
MarkupSteps(t, C) ==
  [p \in Nat |-> [s \in MarkupReaders(C) |-> IF p \in DOMAIN t THEN ReadMarkup(s, t[p]) ELSE s]]

(* A reference stands for a character, or for none. *)
LEMMA ReferredType == ASSUME NEW ref PROVE Referred(ref) \in Markup \cup {""}
  <1>1. CASE \E c \in Markup : Entity(c) = ref
    BY <1>1, Zenon DEF Referred
  <1>2. CASE ~\E c \in Markup : Entity(c) = ref
    BY <1>2, Zenon DEF Referred
  <1> QED
    BY <1>1, <1>2

(* A character leaves a reader. *)
LEMMA ReadMarkupType ==
  ASSUME NEW C, NEW s \in MarkupReaders(C), NEW c \in C
  PROVE  ReadMarkup(s, c) \in MarkupReaders(C)
  <1> DEFINE D == C \cup Markup \cup {""}
  <1>1. s.out \in Seq(D) /\ s.ref \in Seq(C)
    BY DEF MarkupReaders
  <1>2. Append(s.ref, c) \in Seq(C) /\ c \in D
    BY <1>1, AppendProperties
  <1>3. Referred(Append(s.ref, c)) \in D
    BY ReferredType
  <1> HIDE DEF D
  <1>0. \A o \in Seq(D), r \in Seq(C) : [out |-> o, ref |-> r] \in MarkupReaders(C)
    BY DEF MarkupReaders, D
  <1>4. \A d \in D : Append(s.out, d) \in Seq(D)
    BY <1>1, AppendProperties
  <1>5. CASE s.ref = <<>> /\ c # "&"
    <2>1. ReadMarkup(s, c) = [s EXCEPT !.out = Append(@, c)]
      BY <1>5, Zenon DEF ReadMarkup
    <2> QED
      BY <1>1, <1>2, <1>4, <2>1 DEF MarkupReaders, D
  <1>6. CASE s.ref # <<>> /\ c = ";"
    <2> DEFINE o == Append(s.out, Referred(Append(s.ref, c)))
    <2>1. ReadMarkup(s, c) = [out |-> o, ref |-> <<>>]
      BY <1>6, Zenon DEF ReadMarkup
    <2>2. o \in Seq(D) /\ <<>> \in Seq(C)
      BY <1>3, <1>4
    <2> HIDE DEF o
    <2> QED
      BY <1>0, <2>1, <2>2, Zenon
  <1>7. CASE ~(s.ref = <<>> /\ c # "&") /\ ~(s.ref # <<>> /\ c = ";")
    <2>1. ReadMarkup(s, c) = [s EXCEPT !.ref = Append(@, c)]
      BY <1>7, Zenon DEF ReadMarkup
    <2> QED
      BY <1>1, <1>2, <2>1 DEF MarkupReaders, D
  <1> QED
    BY <1>5, <1>6, <1>7

(* Reading a report takes one step for each of its characters. *)
LEMMA Unescaping ==
  ASSUME NEW C, NEW t \in Seq(C)
  PROVE  \E f : /\ Repeats(f, Len(t), MarkupReaders(C), NothingRead, MarkupSteps(t, C))
                /\ Unescape(t) = f[Len(t)]
  <1> DEFINE L == Len(t)
             V == MarkupReaders(C)
             g == MarkupSteps(t, C)
             Iter(f) == f = [d \in SUBSET DOMAIN t |->
                               IF d = {} THEN NothingRead
                               ELSE ReadMarkup(f[d \ {Max(d)}], t[Max(d)])]
  <1>1. L \in Nat /\ DOMAIN t = 1 .. L
    BY LenProperties
  <1>2. NothingRead \in V
    BY DEF NothingRead, MarkupReaders
  <1>3. \A p \in 1 .. L : \A s \in V : ReadMarkup(s, t[p]) \in V
    BY ReadMarkupType, ElementOfSeq
  <1> HIDE DEF L, V
  <1>4. \A p \in 1 .. L : \A s \in V : p \in Nat /\ g[p][s] = ReadMarkup(s, t[p])
    BY <1>1 DEF MarkupSteps, V
  <1>5. g \in StepsIn(V)
    <2> DEFINE Step(p, s) == IF p \in DOMAIN t THEN ReadMarkup(s, t[p]) ELSE s
    <2>1. \A p \in Nat : \A s \in V : Step(p, s) \in V
      BY <1>1, <1>3
    <2>2. g = [p \in Nat |-> [s \in V |-> Step(p, s)]]
      BY Zenon DEF MarkupSteps, V
    <2> HIDE DEF Step
    <2> QED
      BY <2>1, <2>2 DEF StepsIn
  <1> HIDE DEF g
  <1>6. PICK f : Iter(f) /\ Unescape(t) = f[DOMAIN t]
    <2>1. PICK f : FoldsUp(f, L, V, NothingRead, g)
      BY <1>1, <1>2, <1>5, FoldExists
    <2>2. ASSUME NEW d \in SUBSET (1 .. L)
          PROVE  f[d] = IF d = {} THEN NothingRead ELSE ReadMarkup(f[d \ {Max(d)}], t[Max(d)])
      <3>1. CASE d = {}
        BY <2>1, <3>1, Zenon DEF FoldsUp
      <3>2. CASE d # {}
        <4>1. Max(d) \in 1 .. L /\ f[d] = g[Max(d)][f[d \ {Max(d)}]]
          BY <2>1, <3>2, Zenon DEF FoldsUp
        <4>2. d \ {Max(d)} \in SUBSET (1 .. L)
          OBVIOUS
        <4>3. f[d \ {Max(d)}] \in V
          BY <2>1, <4>2 DEF FoldsUp
        <4> QED
          BY <1>4, <3>2, <4>1, <4>3, Zenon
      <3> QED
        BY <3>1, <3>2
    <2>3. Iter(f)
      BY <1>1, <2>1, <2>2, Zenon DEF FoldsUp
    <2> QED
      BY <2>3, Zenon DEF Unescape, NothingRead, FoldLeft, MapThenFoldSet
  <1>7. f[{}] = NothingRead
    <2>1. {} \in SUBSET DOMAIN t
      OBVIOUS
    <2> QED
      BY <1>6, <2>1, Zenon
  <1>8. ASSUME NEW n \in 1 .. L, f[1 .. n - 1] \in V
        PROVE  f[1 .. n] = g[n][f[1 .. n - 1]]
    <2>1. f[1 .. n] = ReadMarkup(f[1 .. n - 1], t[n])
      BY <1>1, <1>6, Initial, Zenon
    <2> QED
      BY <1>4, <1>8, <2>1, Zenon
  <1>9. PICK h : Repeats(h, L, V, NothingRead, g) /\ h[L] = f[1 .. L]
    BY <1>1, <1>2, <1>5, <1>7, <1>8, FoldRepeats
  <1> QED
    BY <1>1, <1>6, <1>9, Zenon DEF L, V, g

(* No character, nothing read. *)
LEMMA UnescapeNothing == Unescape(<<>>) = NothingRead
  <1>1. <<>> \in Seq({}) /\ Len(<<>>) = 0
    OBVIOUS
  <1>2. PICK f : /\ Repeats(f, Len(<<>>), MarkupReaders({}), NothingRead, MarkupSteps(<<>>, {}))
                 /\ Unescape(<<>>) = f[Len(<<>>)]
    BY <1>1, Unescaping, Zenon
  <1> QED
    BY <1>1, <1>2, Zenon DEF Repeats

(* The last character is read after the others. *)
LEMMA UnescapeOneMore ==
  ASSUME NEW C, NEW t \in Seq(C), NEW c \in C
  PROVE  Unescape(t) \in MarkupReaders(C) /\ Unescape(Append(t, c)) = ReadMarkup(Unescape(t), c)
  <1> DEFINE u == Append(t, c)
             L == Len(t)
  <1>1. /\ L \in Nat /\ u \in Seq(C) /\ Len(u) = L + 1 /\ u[L + 1] = c
        /\ DOMAIN t = 1 .. L /\ DOMAIN u = 1 .. L + 1 /\ \A n \in 1 .. L : u[n] = t[n]
    BY LenProperties, AppendProperties
  <1> HIDE DEF u, L
  <1>2. PICK f : /\ Repeats(f, L, MarkupReaders(C), NothingRead, MarkupSteps(t, C))
                 /\ Unescape(t) = f[L]
    BY Unescaping DEF L
  <1>3. PICK h : /\ Repeats(h, L + 1, MarkupReaders(C), NothingRead, MarkupSteps(u, C))
                 /\ Unescape(u) = h[L + 1]
    BY <1>1, Unescaping
  <1>4. /\ L \in 0 .. L /\ L + 1 \in Nat /\ L + 1 \in 1 .. L + 1 /\ (L + 1) - 1 = L /\ L <= L + 1
        /\ \A n \in 1 .. L : n \in Nat /\ n \in 1 .. L + 1
    BY <1>1
  <1>5. \A n \in 1 .. L : MarkupSteps(t, C)[n] = MarkupSteps(u, C)[n]
    BY <1>1, <1>4, Zenon DEF MarkupSteps
  <1>6. f[L] = h[L]
    BY <1>1, <1>2, <1>3, <1>4, <1>5, RepeatsAgree
  <1>7. f[L] \in MarkupReaders(C)
    BY <1>2, <1>4, Zenon DEF Repeats
  <1>8. h[L + 1] = MarkupSteps(u, C)[L + 1][h[L]]
    BY <1>3, <1>4, Zenon DEF Repeats
  <1>9. MarkupSteps(u, C)[L + 1][h[L]] = ReadMarkup(h[L], c)
    BY <1>1, <1>4, <1>6, <1>7, Zenon DEF MarkupSteps
  <1> QED
    BY <1>2, <1>3, <1>6, <1>7, <1>8, <1>9, Zenon DEF u

(* What was read is characters and the beginning of a reference. *)
LEMMA UnescapeType ==
  ASSUME NEW C, NEW t \in Seq(C)
  PROVE  /\ Unescape(t) \in MarkupReaders(C)
         /\ Unescape(t) = [out |-> Unescape(t).out, ref |-> Unescape(t).ref]
         /\ Unescape(t).out \in Seq(C \cup Markup \cup {""}) /\ Unescape(t).ref \in Seq(C)
  <1>1. PICK f : /\ Repeats(f, Len(t), MarkupReaders(C), NothingRead, MarkupSteps(t, C))
                 /\ Unescape(t) = f[Len(t)]
    BY Unescaping
  <1>2. Len(t) \in 0 .. Len(t)
    BY LenProperties
  <1>3. Unescape(t) \in MarkupReaders(C)
    BY <1>1, <1>2, Zenon DEF Repeats
  <1> QED
    BY <1>3 DEF MarkupReaders

(* What begins and ends a reference. *)
Ampersand == "&"
Semicolon == ";"

(* What may stand between the ampersand and the semicolon. *)
Names(C) == Seq(C \ {";"})

(* The reader is within a reference. *)
Begun(ref) == ref # <<>>

(* It stays within the reference it has begun. *)
LEMMA BegunGrows ==
  ASSUME NEW C, NEW r \in Seq(C), NEW l \in Seq(C), Begun(r)
  PROVE  Begun(r \o l)
  <1>1. Len(r \o l) = Len(r) + Len(l) /\ Len(r) \in Nat /\ Len(l) \in Nat
    BY ConcatProperties, LenProperties, Zenon
  <1>2. Len(r) # 0
    BY EmptySeq DEF Begun
  <1>3. Len(r \o l) # 0
    BY <1>1, <1>2
  <1> QED
    BY <1>3 DEF Begun

(* Within a reference, characters other than a semicolon are kept for it. *)
LEMMA ReadInReference ==
  ASSUME NEW C, NEW t \in Seq(C), NEW l \in Names(C), Begun(Unescape(t).ref)
  PROVE  Unescape(t \o l) = [out |-> Unescape(t).out, ref |-> Unescape(t).ref \o l]
  <1> DEFINE L == Len(l)
             r == Unescape(t)
             Upto(n) == SubSeq(l, 1, n)
             S == {n \in Nat : n \in 0 .. L =>
                     Unescape(t \o Upto(n)) = [out |-> r.out, ref |-> r.ref \o Upto(n)]}
  <1>1. l \in Seq(C) /\ L \in Nat
    BY LenProperties, SeqMonotonic DEF Names
  <1>2. r.ref \in Seq(C) /\ r = [out |-> r.out, ref |-> r.ref] /\ Begun(r.ref)
    BY UnescapeType, Zenon
  <1> HIDE DEF L, r
  <1>3. 0 \in S
    <2>1. Upto(0) = <<>>
      BY SubSeqEmpty
    <2>2. t \o <<>> = t /\ r.ref \o <<>> = r.ref
      BY <1>2, ConcatEmptySeq
    <2>3. [out |-> r.out, ref |-> r.ref \o Upto(0)] = r
      BY <1>2, <2>1, <2>2, Zenon
    <2> QED
      BY <2>1, <2>2, <2>3, Zenon DEF r
  <1>4. ASSUME NEW n \in S PROVE n + 1 \in S
    <2>1. n \in Nat /\ n + 1 \in Nat
      OBVIOUS
    <2> SUFFICES ASSUME n + 1 \in 0 .. L
                 PROVE  Unescape(t \o Upto(n + 1)) =
                          [out |-> r.out, ref |-> r.ref \o Upto(n + 1)]
      BY <2>1
    <2>2. n \in 0 .. L /\ n + 1 \in 1 .. L
      BY <1>1, <2>1
    <2> DEFINE c == l[n + 1]
               u == Upto(n)
    <2>3. u \in Seq(C) /\ c \in C \ {";"} /\ Upto(n + 1) = Append(u, c)
      <3>1. u \in Seq(C \ {";"}) /\ c \in C \ {";"} /\ Upto(n + 1) = Append(u, c)
        BY <1>1, <2>1, <2>2, SubSeqAppend DEF L, Names
      <3> QED
        BY <3>1, SeqMonotonic
    <2>4. Unescape(t \o u) = [out |-> r.out, ref |-> r.ref \o u]
      BY <2>2
    <2> HIDE DEF u, c, Upto
    <2>5. t \o Append(u, c) = Append(t \o u, c) /\ r.ref \o Append(u, c) = Append(r.ref \o u, c)
      <3>1. c \in C /\ u \in Seq(C) /\ r.ref \in Seq(C)
        BY <1>2, <2>3
      <3>2. \A s \in Seq(C) : s \o Append(u, c) = Append(s \o u, c)
        BY <3>1, ConcatAppend
      <3> QED
        BY <3>1, <3>2
    <2>6. t \o u \in Seq(C)
      BY <2>3, ConcatProperties
    <2>7. Unescape(Append(t \o u, c)) = ReadMarkup(Unescape(t \o u), c)
      BY <2>3, <2>6, UnescapeOneMore
    <2>8. Begun(r.ref \o u)
      BY <1>2, <2>3, BegunGrows
    <2>9. ReadMarkup([out |-> r.out, ref |-> r.ref \o u], c) =
            [out |-> r.out, ref |-> Append(r.ref \o u, c)]
      <3> DEFINE s == [out |-> r.out, ref |-> r.ref \o u]
      <3>1. s.out = r.out /\ s.ref = r.ref \o u
        OBVIOUS
      <3>2. ReadMarkup(s, c) = [s EXCEPT !.ref = Append(@, c)]
        <4>1. s.ref # <<>> /\ c # ";"
          BY <2>3, <2>8, <3>1 DEF Begun
        <4> HIDE DEF s
        <4> QED
          BY <4>1, Zenon DEF ReadMarkup
      <3> QED
        BY <3>2
    <2>10. r.ref \o Upto(n + 1) = Append(r.ref \o u, c)
      BY <2>3, <2>5, Zenon
    <2> QED
      BY <2>3, <2>4, <2>5, <2>7, <2>9, <2>10, Zenon
  <1>5. S = Nat
    <2> HIDE DEF S
    <2>1. S \in SUBSET Nat
      BY DEF S
    <2> QED
      BY <1>3, <1>4, <2>1, Induction
  <1>6. L \in 0 .. L /\ Upto(L) = l
    BY <1>1, SubSeqFull DEF L
  <1> QED
    BY <1>1, <1>5, <1>6 DEF r

(* An entity refers to the character it stands for. *)
LEMMA ReferredBack ==
  ASSUME NEW c \in Markup
  PROVE  Referred(Entity(c)) = c
  <1>1. \A d \in Markup : Entity(d) = Entity(c) => d = c
    BY Injective
  <1>2. Referred(Entity(c)) = CHOOSE d \in Markup : Entity(d) = Entity(c)
    BY Zenon DEF Referred
  <1> HIDE DEF Markup
  <1>3. (CHOOSE d \in Markup : Entity(d) = Entity(c)) = c
    BY <1>1, Zenon
  <1> QED
    BY <1>2, <1>3

(* The reader reads an entity as the character it stands for. *)
LEMMA ReadEntity ==
  ASSUME NEW C, NEW t \in Seq(C), Ampersand \in C, Semicolon \in C, Letters \subseteq C,
         NEW c \in Markup, ~Begun(Unescape(t).ref)
  PROVE  /\ Entity(c) \in Seq(C)
         /\ Unescape(t \o Entity(c)) = [out |-> Append(Unescape(t).out, c), ref |-> <<>>]
  <1> DEFINE o == Unescape(t).out
             r == Unescape(t).ref
             first == <<Ampersand>>
             u == Append(t, Ampersand)
  <1>1. PICK name \in Seq(Letters) : Entity(c) = Append(first \o name, Semicolon)
    BY EntitySpelling, Zenon DEF Between, Ampersand, Semicolon
  <1>2. name \in Seq(C) /\ name \in Names(C)
    <2>1. Letters \subseteq C \ {";"}
      BY DEF Letters
    <2> HIDE DEF Letters
    <2> QED
      BY <2>1, SeqMonotonic DEF Names
  <1>3. Unescape(t) = [out |-> o, ref |-> r] /\ r \in Seq(C) /\ r = <<>>
    BY UnescapeType DEF Begun
  <1>4. first \in Seq(C) /\ Append(r, Ampersand) = first /\ Begun(first) /\ Len(first) = 1
    BY <1>3 DEF Begun
  <1>5. t \o first = u /\ u \in Seq(C)
    BY <1>4, AppendIsConcat, AppendProperties
  <1>6. ReadMarkup(Unescape(t), Ampersand) = [Unescape(t) EXCEPT !.ref = Append(@, Ampersand)]
    <2>1. ~(Unescape(t).ref = <<>> /\ Ampersand # "&")
      BY DEF Ampersand
    <2>2. ~(Unescape(t).ref # <<>> /\ Ampersand = ";")
      BY <1>3
    <2> QED
      BY <2>1, <2>2, Zenon DEF ReadMarkup
  <1>7. Unescape(u) = ReadMarkup(Unescape(t), Ampersand)
    BY UnescapeOneMore
  <1> HIDE DEF first, o, r, u
  <1>8. Unescape(u) = [out |-> o, ref |-> first]
    <2>1. [Unescape(t) EXCEPT !.ref = Append(@, Ampersand)] =
            [out |-> o, ref |-> Append(r, Ampersand)]
      BY <1>3
    <2> QED
      BY <1>4, <1>6, <1>7, <2>1, Zenon
  <1>9. Unescape(u).out = o /\ Unescape(u).ref = first
    BY <1>8
  <1>10. Unescape(u \o name) = [out |-> o, ref |-> first \o name]
    <2>1. Unescape(u \o name) =
            [out |-> Unescape(u).out, ref |-> Unescape(u).ref \o name]
      BY <1>2, <1>4, <1>5, <1>9, ReadInReference
    <2> QED
      BY <1>9, <2>1, Zenon
  <1>11. first \o name \in Seq(C) /\ u \o name \in Seq(C) /\ Begun(first \o name)
    BY <1>2, <1>4, <1>5, ConcatProperties, BegunGrows
  <1>12. Unescape(Append(u \o name, Semicolon)) = ReadMarkup(Unescape(u \o name), Semicolon)
    BY <1>11, UnescapeOneMore
  <1>13. Append(first \o name, Semicolon) = Entity(c)
    BY <1>1, Zenon
  <1>14. ReadMarkup([out |-> o, ref |-> first \o name], Semicolon) =
           [out |-> Append(o, c), ref |-> <<>>]
    <2> DEFINE s == [out |-> o, ref |-> first \o name]
    <2>1. s.out = o /\ s.ref = first \o name
      OBVIOUS
    <2>2. s.ref # <<>>
      BY <1>11, <2>1 DEF Begun
    <2> HIDE DEF s
    <2>3. ReadMarkup(s, Semicolon) =
            [out |-> Append(s.out, Referred(Append(s.ref, Semicolon))), ref |-> <<>>]
      BY <2>2, Zenon DEF ReadMarkup, Semicolon
    <2>4. Referred(Append(s.ref, Semicolon)) = c
      BY <1>13, <2>1, ReferredBack, Zenon
    <2> QED
      BY <2>1, <2>3, <2>4, Zenon DEF s
  <1>15. t \o Entity(c) = Append(u \o name, Semicolon)
    <2>1. t \o Append(first \o name, Semicolon) = Append(t \o (first \o name), Semicolon)
      BY <1>11, ConcatAppend
    <2>2. Joined(t, first, name)
      BY <1>2, <1>4, JoinedInAnyOrder
    <2> QED
      BY <1>5, <1>13, <2>1, <2>2, Zenon DEF Joined
  <1>16. Entity(c) \in Seq(C)
    BY <1>11, <1>13, AppendProperties
  <1> QED
    BY <1>10, <1>12, <1>14, <1>15, <1>16, Zenon DEF o

(* A character that is no ampersand is read as itself. *)
LEMMA ReadPlain ==
  ASSUME NEW C, NEW t \in Seq(C), NEW c \in C, c # Ampersand, ~Begun(Unescape(t).ref)
  PROVE  Unescape(Append(t, c)) = [out |-> Append(Unescape(t).out, c), ref |-> <<>>]
  <1> DEFINE o == Unescape(t).out
             r == Unescape(t).ref
  <1>1. Unescape(t) = [out |-> o, ref |-> r] /\ r = <<>>
    BY UnescapeType DEF Begun
  <1>2. Unescape(Append(t, c)) = ReadMarkup(Unescape(t), c)
    BY UnescapeOneMore
  <1>3. ReadMarkup(Unescape(t), c) = [Unescape(t) EXCEPT !.out = Append(@, c)]
    BY <1>1, Zenon DEF ReadMarkup, Ampersand
  <1> HIDE DEF o, r
  <1>4. [Unescape(t) EXCEPT !.out = Append(@, c)] = [out |-> Append(o, c), ref |-> r]
    BY <1>1
  <1> QED
    BY <1>1, <1>2, <1>3, <1>4, Zenon DEF o

(* What a report may hold. *)
Reported(C) == (C \cup Letters \cup {Ampersand, Semicolon}) \ (Markup \ {Ampersand})

(* What xml_escape writes for one character. *)
Written(c) == IF c \in Markup THEN Entity(c) ELSE <<c>>

(* Behind whole references, the reader reads the character that was written. *)
LEMMA WrittenRead ==
  ASSUME NEW C, NEW t \in Seq(Reported(C)), NEW c \in C, ~Begun(Unescape(t).ref)
  PROVE  /\ Written(c) \in Seq(Reported(C))
         /\ Unescape(t \o Written(c)) = [out |-> Append(Unescape(t).out, c), ref |-> <<>>]
  <1> DEFINE R == Reported(C)
  <1>1. CASE c \in Markup
    <2>1. Ampersand \in R /\ Semicolon \in R /\ Letters \subseteq R
      BY DEF Reported, Letters, Markup, Ampersand, Semicolon
    <2> HIDE DEF R
    <2>2. t \in Seq(R)
      BY DEF R
    <2>3. Entity(c) \in Seq(R)
          /\ Unescape(t \o Entity(c)) = [out |-> Append(Unescape(t).out, c), ref |-> <<>>]
      BY <1>1, <2>1, <2>2, ReadEntity
    <2> QED
      BY <1>1, <2>3, Zenon DEF Written, R
  <1>2. CASE c \notin Markup
    <2>1. c \in R /\ c # Ampersand
      BY <1>2 DEF Reported, Markup, Ampersand
    <2> HIDE DEF R
    <2>2. t \in Seq(R)
      BY DEF R
    <2>3. <<c>> \in Seq(R) /\ t \o <<c>> = Append(t, c)
      BY <2>1, <2>2, AppendIsConcat
    <2>4. Unescape(Append(t, c)) = [out |-> Append(Unescape(t).out, c), ref |-> <<>>]
      BY <2>1, <2>2, ReadPlain
    <2> QED
      BY <1>2, <2>3, <2>4, Zenon DEF Written, R
  <1> QED
    BY <1>1, <1>2

(* For every text: a parser of the report reads it back as it was, and the  *)
(* report holds no markup of the text's (reporter.cpp:49-63).               *)
THEOREM EscapesAreReversible ==
  ASSUME NEW C, text \in Seq(C)
  PROVE  EscapeIsReversible
  <1> DEFINE N == Len(text)
             R == Reported(C)
             pieces == [n \in DOMAIN text |-> Written(text[n])]
             Upto(n) == SubSeq(text, 1, n)
  <1>1. /\ N \in Nat /\ DOMAIN text = 1 .. N /\ \A n \in 1 .. N : text[n] \in C
    BY LenProperties, ElementOfSeq
  <1>2. Unescape(<<>>) = [out |-> <<>>, ref |-> <<>>] /\ ~Begun(Unescape(<<>>).ref)
    <2>1. Unescape(<<>>) = [out |-> <<>>, ref |-> <<>>]
      BY UnescapeNothing, Zenon DEF NothingRead
    <2>2. Unescape(<<>>).ref = <<>>
      BY <2>1
    <2> QED
      BY <2>1, <2>2, Zenon DEF Begun
  <1>3. xml_escape(text) = FlattenSeq(pieces)
    BY Zenon DEF xml_escape, Written
  <1>4. pieces \in Seq(Seq(R)) /\ Len(pieces) = N
    <2>1. \A c \in C : Written(c) \in Seq(R)
      <3>1. <<>> \in Seq(R)
        OBVIOUS
      <3> HIDE DEF R
      <3> QED
        BY <1>2, <3>1, WrittenRead DEF R
    <2> HIDE DEF R, N
    <2> QED
      BY <1>1, <2>1
  <1>5. \A n \in 1 .. N : pieces[n] = Written(text[n])
    BY <1>1, Zenon
  <1> HIDE DEF pieces, R, N
  <1>6. PICK f : Flattened(f, pieces, R) /\ FlattenSeq(pieces) = f[N]
    BY <1>4, Flattening
  <1>7. /\ f[0] = <<>>
        /\ \A n \in 0 .. N : f[n] \in Seq(R)
        /\ \A n \in 1 .. N : f[n] = f[n - 1] \o Written(text[n])
    BY <1>4, <1>5, <1>6 DEF Flattened
  <1> DEFINE S == {n \in Nat : n \in 0 .. N => Unescape(f[n]) = [out |-> Upto(n), ref |-> <<>>]}
  <1>8. 0 \in S
    <2>1. Upto(0) = <<>>
      BY SubSeqEmpty
    <2> QED
      BY <1>2, <1>7, <2>1, Zenon
  <1>9. ASSUME NEW n \in S PROVE n + 1 \in S
    <2>1. n \in Nat /\ n + 1 \in Nat /\ (n + 1) - 1 = n
      OBVIOUS
    <2> SUFFICES ASSUME n + 1 \in 0 .. N
                 PROVE  Unescape(f[n + 1]) = [out |-> Upto(n + 1), ref |-> <<>>]
      BY <2>1
    <2>2. n \in 0 .. N /\ n + 1 \in 1 .. N
      BY <1>1, <2>1
    <2>3. Unescape(f[n]) = [out |-> Upto(n), ref |-> <<>>]
      BY <2>2
    <2>4. Unescape(f[n]).out = Upto(n) /\ ~Begun(Unescape(f[n]).ref)
      BY <2>3 DEF Begun
    <2>5. f[n] \in Seq(Reported(C)) /\ text[n + 1] \in C
      BY <1>1, <1>7, <2>2 DEF R
    <2>6. f[n + 1] = f[n] \o Written(text[n + 1])
      BY <1>7, <2>1, <2>2, Zenon
    <2>7. Unescape(f[n] \o Written(text[n + 1])) =
            [out |-> Append(Unescape(f[n]).out, text[n + 1]), ref |-> <<>>]
      BY <2>4, <2>5, WrittenRead
    <2>8. Upto(n + 1) = Append(Upto(n), text[n + 1])
      BY <2>1, <2>2, SubSeqAppend DEF N
    <2> QED
      BY <2>4, <2>6, <2>7, <2>8, Zenon
  <1>10. S = Nat
    <2> HIDE DEF S
    <2>1. S \in SUBSET Nat
      BY DEF S
    <2> QED
      BY <1>8, <1>9, <2>1, Induction
  <1>11. N \in 0 .. N /\ Upto(N) = text /\ N \in Nat
    <2>1. N \in 0 .. N
      BY <1>1
    <2> QED
      BY <1>1, <2>1, SubSeqFull DEF N
  <1>12. Unescape(f[N]) = [out |-> text, ref |-> <<>>]
    <2>1. Unescape(f[N]) = [out |-> Upto(N), ref |-> <<>>]
      BY <1>10, <1>11
    <2> QED
      BY <1>11, <2>1, Zenon
  <1>13. \A n \in DOMAIN f[N] : f[N][n] \notin Markup \ {"&"}
    <2>1. f[N] \in Seq(R)
      BY <1>7, <1>11
    <2>2. \A n \in DOMAIN f[N] : f[N][n] \in R
      BY <2>1, ElementOfSeq, LenProperties
    <2>3. \A c \in R : c \notin Markup \ {"&"}
      BY DEF R, Reported, Ampersand
    <2> QED
      BY <2>2, <2>3, Zenon
  <1> QED
    BY <1>3, <1>6, <1>12, <1>13, Zenon DEF EscapeIsReversible

----------------------------------------------------------------------------
(* The command line: spellings                                             *)

(* An option's spelling has one meaning and is no other option's, and no   *)
(* word is an option.                                                      *)
LEMMA ValuedSpelling ==
  ASSUME NEW a \in Spellings(Valued)
  PROVE  /\ Meaning(Valued, a) \in DOMAIN Valued /\ a \in Valued[Meaning(Valued, a)]
         /\ \A k \in DOMAIN Valued : a \in Valued[k] => k = Meaning(Valued, a)
         /\ a \notin Help /\ a \notin Words
         /\ a \notin Switches.list /\ a \notin Switches.no_color
  <1>1. PICK k \in DOMAIN Valued : a \in Valued[k]
    BY Zenon DEF Spellings
  <1>2. \A j \in DOMAIN Valued : a \in Valued[j] => j = k
    BY <1>1 DEF Valued
  <1>3. Meaning(Valued, a) = k
    BY <1>1, <1>2, Zenon DEF Meaning
  <1>4. a \notin Help /\ a \notin Switches.list /\ a \notin Switches.no_color
    BY <1>1 DEF Valued, Help, Switches
  <1>5. a \in Options
    BY Zenon DEF Options
  <1> QED
    BY <1>1, <1>2, <1>3, <1>4, <1>5, ArgumentsAssumption

LEMMA SwitchSpelling ==
  ASSUME NEW a
  PROVE  /\ a \in Switches.list => a \notin Switches.no_color
         /\ a \in Switches.list \cup Switches.no_color =>
              a \notin Help /\ a \notin Words /\ a \notin Spellings(Valued) /\ a \in Options
  <1>1. a \in Switches.list => a \notin Switches.no_color
    BY DEF Switches
  <1>2. a \in Switches.list \cup Switches.no_color => a \notin Help
    BY DEF Switches, Help
  <1>3. a \in Switches.list \cup Switches.no_color => a \in Spellings(Switches)
    BY DEF Switches, Spellings
  <1>4. a \in Switches.list \cup Switches.no_color => a \in Options /\ a \notin Words
    BY <1>3, ArgumentsAssumption DEF Options
  <1> QED
    BY <1>1, <1>2, <1>4, ValuedSpelling

(* A reporter's kind is what --reporter is followed by. *)
LEMMA ReporterSpelling == "reporter" \in DOMAIN Valued /\ Valued["reporter"] = Valued.reporter
  BY DEF Valued

LEMMA NoValueNoTimeout == Milliseconds("--timeout") = 0 /\ Kinds["console"] = "Console"
  <1>1. "--timeout" \in Spellings(Valued)
    BY DEF Spellings, Valued
  <1> QED
    BY <1>1, ArgumentsAssumption DEF Milliseconds, Options, Kinds

----------------------------------------------------------------------------
(* The command line: which arguments are options                           *)

(* Option is the function its definition describes. *)
LEMMA OptionSteps ==
  ASSUME NEW args \in Seq(Argument)
  PROVE  \A p \in 1 .. Len(args) :
           /\ Option(args)[p] \in BOOLEAN
           /\ Option(args)[p] <=>
                p = 1 \/ ~Option(args)[p - 1] \/ args[p - 1] \notin Spellings(Valued)
  <1> DEFINE L == Len(args)
             V == {TRUE, FALSE}
             After(p, b) == p = 1 \/ ~b \/ args[p - 1] \notin Spellings(Valued)
             g == [p \in Nat |-> [b \in V |-> After(p, b)]]
             Is(f) == f = [p \in DOMAIN args |-> After(p, f[p - 1])]
  <1>1. L \in Nat /\ DOMAIN args = 1 .. L
    BY LenProperties
  <1>2. ASSUME NEW f, Is(f) PROVE Is(Option(args))
    BY <1>2, Zenon DEF Option
  <1> HIDE DEF L
  <1>3. PICK f : Repeats(f, L, V, FALSE, g)
    <2>1. g \in StepsIn(V)
      BY DEF StepsIn
    <2> HIDE DEF g
    <2> QED
      BY <1>1, <2>1, Recursion
  <1>4. \A p \in 1 .. L : f[p] \in V /\ f[p] = After(p, f[p - 1])
    <2> TAKE p \in 1 .. L
    <2>1. p \in Nat /\ p \in 0 .. L /\ p - 1 \in 0 .. L
      BY <1>1
    <2>2. f[p] \in V /\ f[p - 1] \in V /\ f[p] = g[p][f[p - 1]]
      BY <1>3, <2>1, Zenon DEF Repeats
    <2>3. g[p][f[p - 1]] = After(p, f[p - 1])
      BY <2>1, <2>2, Zenon
    <2> QED
      BY <2>2, <2>3
  <1> DEFINE h == [p \in 1 .. L |-> f[p]]
  <1>5. Is(h)
    <2>1. ASSUME NEW p \in 1 .. L PROVE f[p] = After(p, h[p - 1])
      <3>1. CASE p = 1
        BY <1>4, <3>1
      <3>2. CASE p # 1
        <4>1. p - 1 \in 1 .. L
          BY <1>1, <3>2
        <4> QED
          BY <1>4, <4>1, Zenon
      <3> QED
        BY <3>1, <3>2
    <2> QED
      BY <1>1, <2>1, Zenon
  <1>6. Is(Option(args))
    BY <1>2, <1>5, Zenon
  <1>7. \A p \in 1 .. L : Option(args)[p] = After(p, Option(args)[p - 1])
    BY <1>1, <1>6, Zenon
  <1> QED
    BY <1>7, Zenon DEF L

----------------------------------------------------------------------------
(* The command line: what one more option asks for                         *)

(* A value is no option, and what follows it is one again.                 *)
LEMMA AfterAValue ==
  ASSUME NEW args \in Seq(Argument), NEW n \in 1 .. Len(args), n < Len(args),
         Option(args)[n], args[n] \in Spellings(Valued)
  PROVE  /\ n + 1 \in 1 .. Len(args) /\ ~Option(args)[n + 1]
         /\ n + 2 \in 1 .. Len(args) => Option(args)[n + 2]
  <1>1. Len(args) \in Nat
    BY LenProperties
  <1>2. n + 1 \in 1 .. Len(args) /\ (n + 1) - 1 = n /\ n + 1 # 1 /\ (n + 2) - 1 = n + 1
    BY <1>1
  <1>3. ~Option(args)[n + 1]
    BY <1>2, OptionSteps, Zenon
  <1> QED
    BY <1>2, <1>3, OptionSteps, Zenon

LEMMA AfterASwitch ==
  ASSUME NEW args \in Seq(Argument), NEW n \in 1 .. Len(args), Option(args)[n],
         args[n] \notin Spellings(Valued)
  PROVE  n + 1 \in 1 .. Len(args) => Option(args)[n + 1]
  <1>1. (n + 1) - 1 = n
    BY LenProperties
  <1> QED
    BY <1>1, OptionSteps, Zenon

LEMMA GivenWithValue ==
  ASSUME NEW args \in Seq(Argument), NEW n \in 1 .. Len(args), n < Len(args),
         Option(args)[n], args[n] \in Spellings(Valued), NEW k \in DOMAIN Valued
  PROVE  Given(args, k, n + 2) =
           IF k = Meaning(Valued, args[n]) THEN Given(args, k, n) \cup {n} ELSE Given(args, k, n)
  <1>1. Len(args) \in Nat /\ DOMAIN args = 1 .. Len(args)
    BY LenProperties
  <1>2. ~Option(args)[n + 1]
    BY AfterAValue
  <1>3. args[n] \in Valued[k] <=> k = Meaning(Valued, args[n])
    BY ValuedSpelling, Zenon
  <1>4. ASSUME NEW p \in 1 .. Len(args)
        PROVE  p < n + 2 <=> p < n \/ p = n \/ p = n + 1
    BY <1>1
  <1>5. Given(args, k, n + 2) =
          {p \in 1 .. Len(args) : /\ p < n \/ p = n
                                  /\ p < Len(args) /\ Option(args)[p] /\ args[p] \in Valued[k]}
    BY <1>1, <1>2, <1>4, Zenon DEF Given
  <1>6. Given(args, k, n) =
          {p \in 1 .. Len(args) : /\ p < n
                                  /\ p < Len(args) /\ Option(args)[p] /\ args[p] \in Valued[k]}
    BY <1>1, Zenon DEF Given
  <1> QED
    BY <1>3, <1>5, <1>6, Zenon

LEMMA GivenWithSwitch ==
  ASSUME NEW args \in Seq(Argument), NEW n \in 1 .. Len(args),
         args[n] \notin Spellings(Valued), NEW k \in DOMAIN Valued
  PROVE  Given(args, k, n + 1) = Given(args, k, n)
  <1>1. Len(args) \in Nat /\ DOMAIN args = 1 .. Len(args)
    BY LenProperties
  <1>2. args[n] \notin Valued[k]
    BY Zenon DEF Spellings
  <1>3. \A p \in 1 .. Len(args) : p < n + 1 <=> p < n \/ p = n
    BY <1>1
  <1> QED
    BY <1>1, <1>2, <1>3, Zenon DEF Given

(* The value of the latest of a set of places. *)
LEMMA LatestValue ==
  ASSUME NEW args \in Seq(Argument), NEW n \in 1 .. Len(args), n < Len(args),
         Option(args)[n], args[n] \in Spellings(Valued), NEW k \in DOMAIN Valued, NEW d
  PROVE  LastValue(args, k, d, n + 2) =
           IF k = Meaning(Valued, args[n]) THEN args[n + 1] ELSE LastValue(args, k, d, n)
  <1>1. CASE k = Meaning(Valued, args[n])
    <2>1. Given(args, k, n + 2) = Given(args, k, n) \cup {n}
      BY <1>1, GivenWithValue
    <2>2. \A p \in Given(args, k, n) : p \in Nat /\ p < n
      BY LenProperties DEF Given
    <2>3. \A p \in Given(args, k, n + 2) : p \in Nat /\ p <= n
      BY <2>1, <2>2
    <2>4. \A p \in Given(args, k, n + 2) : n <= p => p = n
      BY <2>3
    <2>5. (CHOOSE p \in Given(args, k, n + 2) : \A q \in Given(args, k, n + 2) : q <= p) = n
      BY <2>1, <2>3, <2>4, Zenon
    <2>6. Given(args, k, n + 2) # {}
      BY <2>1
    <2>7. LastValue(args, k, d, n + 2) = args[n + 1]
      BY <2>5, <2>6, Zenon DEF LastValue
    <2> QED
      BY <1>1, <2>7
  <1>2. CASE k # Meaning(Valued, args[n])
    <2>1. Given(args, k, n + 2) = Given(args, k, n)
      BY <1>2, GivenWithValue
    <2> DEFINE Latest(G) == IF G = {} THEN d
                            ELSE args[(CHOOSE p \in G : \A q \in G : q <= p) + 1]
    <2>2. LastValue(args, k, d, n + 2) = LastValue(args, k, d, n)
      <3>1. \A m : LastValue(args, k, d, m) = Latest(Given(args, k, m))
        BY Zenon DEF LastValue
      <3> HIDE DEF Latest
      <3> QED
        BY <2>1, <3>1, Zenon
    <2> QED
      BY <1>2, <2>2
  <1> QED
    BY <1>1, <1>2

LEMMA MoreValues ==
  ASSUME NEW args \in Seq(Argument), NEW n \in 1 .. Len(args), n < Len(args),
         Option(args)[n], args[n] \in Spellings(Valued), NEW k \in DOMAIN Valued
  PROVE  Values(args, k, n + 2) =
           IF k = Meaning(Valued, args[n]) THEN Values(args, k, n) \cup {args[n + 1]}
           ELSE Values(args, k, n)
  <1>1. CASE k = Meaning(Valued, args[n])
    <2>1. Given(args, k, n + 2) = Given(args, k, n) \cup {n}
      BY <1>1, GivenWithValue
    <2>2. Values(args, k, n + 2) = Values(args, k, n) \cup {args[n + 1]}
      BY <2>1, Zenon DEF Values
    <2> QED
      BY <1>1, <2>2
  <1>2. CASE k # Meaning(Valued, args[n])
    <2>1. Given(args, k, n + 2) = Given(args, k, n)
      BY <1>2, GivenWithValue
    <2>2. Values(args, k, n + 2) = Values(args, k, n)
      BY <2>1, Zenon DEF Values
    <2> QED
      BY <1>2, <2>2
  <1> QED
    BY <1>1, <1>2

LEMMA SameSwitches ==
  ASSUME NEW args \in Seq(Argument), NEW n \in 1 .. Len(args), n < Len(args),
         Option(args)[n], args[n] \in Spellings(Valued), NEW k \in DOMAIN Switches
  PROVE  Switched(args, k, n + 2) = Switched(args, k, n)
  <1>1. Len(args) \in Nat /\ DOMAIN args = 1 .. Len(args)
    BY LenProperties
  <1>2. ~Option(args)[n + 1]
    BY AfterAValue
  <1>3. args[n] \notin Switches[k]
    BY ValuedSpelling DEF Switches
  <1>4. \A p \in 1 .. Len(args) : p < n + 2 <=> p < n \/ p = n \/ p = n + 1
    BY <1>1
  <1> QED
    BY <1>1, <1>2, <1>3, <1>4, Zenon DEF Switched

LEMMA MoreSwitches ==
  ASSUME NEW args \in Seq(Argument), NEW n \in 1 .. Len(args), Option(args)[n],
         NEW k \in DOMAIN Switches
  PROVE  Switched(args, k, n + 1) = (Switched(args, k, n) \/ args[n] \in Switches[k])
  <1>1. Len(args) \in Nat /\ DOMAIN args = 1 .. Len(args)
    BY LenProperties
  <1>2. \A p \in 1 .. Len(args) : p < n + 1 <=> p < n \/ p = n
    BY <1>1
  <1> QED
    BY <1>1, <1>2, Zenon DEF Switched

(* RunOptions, field by field. *)
Record(nf, it, et, dt, lo, co, fo, js, op) ==
  [name_filter |-> nf, include_tags |-> it, exclude_tags |-> et, default_timeout |-> dt,
   list_only |-> lo, color |-> co, format |-> fo, junit_suite |-> js, output_path |-> op]

LEMMA AskedFields ==
  ASSUME NEW args, NEW n
  PROVE  AskedFor(args, n) =
           Record(LastValue(args, "filter", "", n),
                  Values(args, "tag", n), Values(args, "exclude", n),
                  Milliseconds(LastValue(args, "timeout", "--timeout", n)),
                  Switched(args, "list", n), ~Switched(args, "no_color", n),
                  Kinds[LastValue(args, "reporter", "console", n)],
                  LastValue(args, "suite", "edtf", n), LastValue(args, "output", "", n))
  BY Zenon DEF AskedFor, Record

(* Before the first argument nothing is asked for. *)
LEMMA AskedNothing ==
  ASSUME NEW args \in Seq(Argument)
  PROVE  AskedFor(args, 1) = RunOptions
  <1>1. DOMAIN args = 1 .. Len(args) /\ \A p \in DOMAIN args : ~(p < 1)
    BY LenProperties
  <1>2. \A k : Given(args, k, 1) = {} /\ Values(args, k, 1) = {} /\ ~Switched(args, k, 1)
    BY <1>1, Zenon DEF Given, Values, Switched
  <1>3. \A k, d : LastValue(args, k, d, 1) = d
    BY <1>2, Zenon DEF LastValue
  <1>4. Switched(args, "list", 1) = FALSE /\ (~Switched(args, "no_color", 1)) = TRUE
    BY <1>2
  <1>5. RunOptions = Record("", {}, {}, 0, FALSE, TRUE, "Console", "edtf", "")
    BY Zenon DEF RunOptions, Record
  <1> QED
    BY <1>2, <1>3, <1>4, <1>5, AskedFields, NoValueNoTimeout, Zenon

(* One more option with a value sets what it is about and nothing else.    *)
LEMMA AskedValue ==
  ASSUME NEW args \in Seq(Argument), NEW n \in 1 .. Len(args), n < Len(args),
         Option(args)[n], args[n] \in Spellings(Valued)
  PROVE  AskedFor(args, n + 2) = Set(AskedFor(args, n), Meaning(Valued, args[n]), args[n + 1])
  <1> DEFINE K == Meaning(Valued, args[n])
             v == args[n + 1]
             Same(k) == LET Late(d) == LastValue(args, k, d, n + 2) = LastValue(args, k, d, n)
                        IN  Late("") /\ Late("--timeout") /\ Late("console") /\ Late("edtf")
                            /\ Values(args, k, n + 2) = Values(args, k, n)
             New(k) == LET Late(d) == LastValue(args, k, d, n + 2) = v
                       IN  Late("") /\ Late("--timeout") /\ Late("console") /\ Late("edtf")
                           /\ Values(args, k, n + 2) = Values(args, k, n) \cup {v}
  <1>1. DOMAIN Valued = {"filter", "tag", "exclude", "timeout", "reporter", "output", "suite"}
        /\ DOMAIN Switches = {"list", "no_color"}
    BY DEF Valued, Switches
  <1>2. K \in DOMAIN Valued
    BY ValuedSpelling
  <1>3. \A k \in DOMAIN Valued : IF k = K THEN New(k) ELSE Same(k)
    <2> TAKE k \in DOMAIN Valued
    <2>1. CASE k = K
      BY <2>1, LatestValue, MoreValues, ZenonT(60)
    <2>2. CASE k # K
      BY <2>2, LatestValue, MoreValues, ZenonT(60)
    <2> QED
      BY <2>1, <2>2
  <1>4. Switched(args, "list", n + 2) = Switched(args, "list", n)
        /\ Switched(args, "no_color", n + 2) = Switched(args, "no_color", n)
    BY <1>1, SameSwitches
  <1> HIDE DEF K, v, Same, New
  <1> DEFINE nf == LastValue(args, "filter", "", n)
             it == Values(args, "tag", n)
             et == Values(args, "exclude", n)
             dt == Milliseconds(LastValue(args, "timeout", "--timeout", n))
             lo == Switched(args, "list", n)
             co == ~Switched(args, "no_color", n)
             fo == Kinds[LastValue(args, "reporter", "console", n)]
             js == LastValue(args, "suite", "edtf", n)
             op == LastValue(args, "output", "", n)
             now == Record(nf, it, et, dt, lo, co, fo, js, op)
  <1>5. AskedFor(args, n) = now
    BY AskedFields, Zenon
  <1>6. /\ Set(now, "filter", v) = Record(v, it, et, dt, lo, co, fo, js, op)
        /\ Set(now, "tag", v) = Record(nf, it \cup {v}, et, dt, lo, co, fo, js, op)
        /\ Set(now, "exclude", v) = Record(nf, it, et \cup {v}, dt, lo, co, fo, js, op)
        /\ Set(now, "timeout", v) = Record(nf, it, et, Milliseconds(v), lo, co, fo, js, op)
        /\ Set(now, "reporter", v) = Record(nf, it, et, dt, lo, co, Kinds[v], js, op)
        /\ Set(now, "output", v) = Record(nf, it, et, dt, lo, co, fo, js, v)
        /\ Set(now, "suite", v) = Record(nf, it, et, dt, lo, co, fo, v, op)
    <2> HIDE DEF nf, it, et, dt, lo, co, fo, js, op
    <2> QED
      BY DEF Set, Record
  <1>7. CASE K = "filter"
    <2>1. /\ New("filter") /\ Same("tag") /\ Same("exclude") /\ Same("timeout")
          /\ Same("reporter") /\ Same("output") /\ Same("suite")
      BY <1>1, <1>3, <1>7
    <2>2. AskedFor(args, n + 2) = Record(v, it, et, dt, lo, co, fo, js, op)
      BY <1>4, <2>1, AskedFields, Zenon DEF Same, New
    <2>3. AskedFor(args, n + 2) = Set(AskedFor(args, n), K, v)
      <3> HIDE DEF now, nf, it, et, dt, lo, co, fo, js, op
      <3> QED
        BY <1>5, <1>6, <1>7, <2>2, Zenon
    <2> QED
      BY <2>3 DEF K, v
  <1>8. CASE K = "tag"
    <2>1. /\ New("tag") /\ Same("filter") /\ Same("exclude") /\ Same("timeout")
          /\ Same("reporter") /\ Same("output") /\ Same("suite")
      BY <1>1, <1>3, <1>8
    <2>2. AskedFor(args, n + 2) = Record(nf, it \cup {v}, et, dt, lo, co, fo, js, op)
      BY <1>4, <2>1, AskedFields, Zenon DEF Same, New
    <2>3. AskedFor(args, n + 2) = Set(AskedFor(args, n), K, v)
      <3> HIDE DEF now, nf, it, et, dt, lo, co, fo, js, op
      <3> QED
        BY <1>5, <1>6, <1>8, <2>2, Zenon
    <2> QED
      BY <2>3 DEF K, v
  <1>9. CASE K = "exclude"
    <2>1. /\ New("exclude") /\ Same("filter") /\ Same("tag") /\ Same("timeout")
          /\ Same("reporter") /\ Same("output") /\ Same("suite")
      BY <1>1, <1>3, <1>9
    <2>2. AskedFor(args, n + 2) = Record(nf, it, et \cup {v}, dt, lo, co, fo, js, op)
      BY <1>4, <2>1, AskedFields, Zenon DEF Same, New
    <2>3. AskedFor(args, n + 2) = Set(AskedFor(args, n), K, v)
      <3> HIDE DEF now, nf, it, et, dt, lo, co, fo, js, op
      <3> QED
        BY <1>5, <1>6, <1>9, <2>2, Zenon
    <2> QED
      BY <2>3 DEF K, v
  <1>10. CASE K = "timeout"
    <2>1. /\ New("timeout") /\ Same("filter") /\ Same("tag") /\ Same("exclude")
          /\ Same("reporter") /\ Same("output") /\ Same("suite")
      BY <1>1, <1>3, <1>10
    <2>2. AskedFor(args, n + 2) = Record(nf, it, et, Milliseconds(v), lo, co, fo, js, op)
      BY <1>4, <2>1, AskedFields, Zenon DEF Same, New
    <2>3. AskedFor(args, n + 2) = Set(AskedFor(args, n), K, v)
      <3> HIDE DEF now, nf, it, et, dt, lo, co, fo, js, op
      <3> QED
        BY <1>5, <1>6, <1>10, <2>2, Zenon
    <2> QED
      BY <2>3 DEF K, v
  <1>11. CASE K = "reporter"
    <2>1. /\ New("reporter") /\ Same("filter") /\ Same("tag") /\ Same("exclude")
          /\ Same("timeout") /\ Same("output") /\ Same("suite")
      BY <1>1, <1>3, <1>11
    <2>2. AskedFor(args, n + 2) = Record(nf, it, et, dt, lo, co, Kinds[v], js, op)
      BY <1>4, <2>1, AskedFields, Zenon DEF Same, New
    <2>3. AskedFor(args, n + 2) = Set(AskedFor(args, n), K, v)
      <3> HIDE DEF now, nf, it, et, dt, lo, co, fo, js, op
      <3> QED
        BY <1>5, <1>6, <1>11, <2>2, Zenon
    <2> QED
      BY <2>3 DEF K, v
  <1>12. CASE K = "output"
    <2>1. /\ New("output") /\ Same("filter") /\ Same("tag") /\ Same("exclude")
          /\ Same("timeout") /\ Same("reporter") /\ Same("suite")
      BY <1>1, <1>3, <1>12
    <2>2. AskedFor(args, n + 2) = Record(nf, it, et, dt, lo, co, fo, js, v)
      BY <1>4, <2>1, AskedFields, Zenon DEF Same, New
    <2>3. AskedFor(args, n + 2) = Set(AskedFor(args, n), K, v)
      <3> HIDE DEF now, nf, it, et, dt, lo, co, fo, js, op
      <3> QED
        BY <1>5, <1>6, <1>12, <2>2, Zenon
    <2> QED
      BY <2>3 DEF K, v
  <1>13. CASE K = "suite"
    <2>1. /\ New("suite") /\ Same("filter") /\ Same("tag") /\ Same("exclude")
          /\ Same("timeout") /\ Same("reporter") /\ Same("output")
      BY <1>1, <1>3, <1>13
    <2>2. AskedFor(args, n + 2) = Record(nf, it, et, dt, lo, co, fo, v, op)
      BY <1>4, <2>1, AskedFields, Zenon DEF Same, New
    <2>3. AskedFor(args, n + 2) = Set(AskedFor(args, n), K, v)
      <3> HIDE DEF now, nf, it, et, dt, lo, co, fo, js, op
      <3> QED
        BY <1>5, <1>6, <1>13, <2>2, Zenon
    <2> QED
      BY <2>3 DEF K, v
  <1> QED
    BY <1>1, <1>2, <1>7, <1>8, <1>9, <1>10, <1>11, <1>12, <1>13 DEF K, v

LEMMA AskedSwitch ==
  ASSUME NEW args \in Seq(Argument), NEW n \in 1 .. Len(args), Option(args)[n]
  PROVE  /\ args[n] \in Switches.list =>
              AskedFor(args, n + 1) = [AskedFor(args, n) EXCEPT !.list_only = TRUE]
         /\ args[n] \in Switches.no_color =>
              AskedFor(args, n + 1) = [AskedFor(args, n) EXCEPT !.color = FALSE]
  <1> SUFFICES
        ASSUME args[n] \in Switches.list \cup Switches.no_color
        PROVE  /\ args[n] \in Switches.list =>
                    AskedFor(args, n + 1) = [AskedFor(args, n) EXCEPT !.list_only = TRUE]
               /\ args[n] \in Switches.no_color =>
                    AskedFor(args, n + 1) = [AskedFor(args, n) EXCEPT !.color = FALSE]
    OBVIOUS
  <1>1. args[n] \notin Spellings(Valued)
    BY SwitchSpelling
  <1>2. \A k \in DOMAIN Valued : Given(args, k, n + 1) = Given(args, k, n)
    BY <1>1, GivenWithSwitch
  <1>3. \A k \in DOMAIN Valued : Values(args, k, n + 1) = Values(args, k, n)
    BY <1>2, Zenon DEF Values
  <1>4. ASSUME NEW k \in DOMAIN Valued, NEW d
        PROVE  LastValue(args, k, d, n + 1) = LastValue(args, k, d, n)
    <2> DEFINE Latest(G) == IF G = {} THEN d
                            ELSE args[(CHOOSE p \in G : \A q \in G : q <= p) + 1]
    <2>1. \A m : LastValue(args, k, d, m) = Latest(Given(args, k, m))
      BY Zenon DEF LastValue
    <2> HIDE DEF Latest
    <2> QED
      BY <1>2, <2>1, Zenon
  <1>5. /\ "list" \in DOMAIN Switches /\ Switches["list"] = Switches.list
        /\ "no_color" \in DOMAIN Switches /\ Switches["no_color"] = Switches.no_color
    BY DEF Switches
  <1>6. {"filter", "tag", "exclude", "timeout", "reporter", "output", "suite"}
          \subseteq DOMAIN Valued
    BY DEF Valued
  <1> DEFINE nf == LastValue(args, "filter", "", n)
             it == Values(args, "tag", n)
             et == Values(args, "exclude", n)
             dt == Milliseconds(LastValue(args, "timeout", "--timeout", n))
             lo == Switched(args, "list", n)
             co == ~Switched(args, "no_color", n)
             fo == Kinds[LastValue(args, "reporter", "console", n)]
             js == LastValue(args, "suite", "edtf", n)
             op == LastValue(args, "output", "", n)
  <1>7. AskedFor(args, n) = Record(nf, it, et, dt, lo, co, fo, js, op)
    BY AskedFields, Zenon
  <1>8. CASE args[n] \in Switches.list
    <2>1. /\ Switched(args, "list", n + 1) = TRUE
          /\ Switched(args, "no_color", n + 1) = Switched(args, "no_color", n)
      <3>1. /\ Switched(args, "list", n + 1) =
                 (Switched(args, "list", n) \/ args[n] \in Switches.list)
            /\ Switched(args, "no_color", n + 1) =
                 (Switched(args, "no_color", n) \/ args[n] \in Switches.no_color)
        BY <1>5, MoreSwitches, Zenon
      <3>2. args[n] \in Switches.list /\ args[n] \notin Switches.no_color
        BY <1>8, SwitchSpelling, Zenon
      <3>3. Switched(args, "list", n) \in BOOLEAN /\ Switched(args, "no_color", n) \in BOOLEAN
        BY Zenon DEF Switched
      <3> QED
        BY <3>1, <3>2, <3>3, Zenon
    <2>2. AskedFor(args, n + 1) = Record(nf, it, et, dt, TRUE, co, fo, js, op)
      BY <1>3, <1>4, <1>6, <2>1, AskedFields, Zenon
    <2>3. [AskedFor(args, n) EXCEPT !.list_only = TRUE] =
            Record(nf, it, et, dt, TRUE, co, fo, js, op)
      <3> HIDE DEF nf, it, et, dt, lo, co, fo, js, op
      <3>1. ASSUME NEW x
            PROVE  [Record(nf, it, et, dt, lo, co, fo, js, op) EXCEPT !.list_only = x] =
                     Record(nf, it, et, dt, x, co, fo, js, op)
        BY DEF Record
      <3> QED
        BY <1>7, <3>1, Zenon
    <2> QED
      BY <1>8, <2>2, <2>3, SwitchSpelling, Zenon
  <1>9. CASE args[n] \in Switches.no_color
    <2>1. /\ (~Switched(args, "no_color", n + 1)) = FALSE
          /\ Switched(args, "list", n + 1) = Switched(args, "list", n)
      <3>1. /\ Switched(args, "list", n + 1) =
                 (Switched(args, "list", n) \/ args[n] \in Switches.list)
            /\ Switched(args, "no_color", n + 1) =
                 (Switched(args, "no_color", n) \/ args[n] \in Switches.no_color)
        BY <1>5, MoreSwitches, Zenon
      <3>2. args[n] \in Switches.no_color /\ args[n] \notin Switches.list
        BY <1>9, SwitchSpelling, Zenon
      <3>3. Switched(args, "list", n) \in BOOLEAN /\ Switched(args, "no_color", n) \in BOOLEAN
        BY Zenon DEF Switched
      <3> QED
        BY <3>1, <3>2, <3>3, Zenon
    <2>2. AskedFor(args, n + 1) = Record(nf, it, et, dt, lo, FALSE, fo, js, op)
      BY <1>3, <1>4, <1>6, <2>1, AskedFields, Zenon
    <2>3. [AskedFor(args, n) EXCEPT !.color = FALSE] = Record(nf, it, et, dt, lo, FALSE, fo, js, op)
      <3> HIDE DEF nf, it, et, dt, lo, co, fo, js, op
      <3>1. ASSUME NEW x
            PROVE  [Record(nf, it, et, dt, lo, co, fo, js, op) EXCEPT !.color = x] =
                     Record(nf, it, et, dt, lo, x, fo, js, op)
        BY DEF Record
      <3> QED
        BY <1>7, <3>1, Zenon
    <2> QED
      BY <1>9, <2>2, <2>3, SwitchSpelling, Zenon
  <1> QED
    BY <1>8, <1>9

----------------------------------------------------------------------------
(* The command line: the loop                                              *)

(* Where the loop is. *)
Walking == argv \in Seq(Argument) /\ LoopInv

LEMMA WalkingInit == argv \in CommandLines /\ ArgumentsInit => Walking
  <1> SUFFICES ASSUME argv \in CommandLines, ArgumentsInit PROVE Walking
    OBVIOUS
  <1>1. argv \in Seq(Argument)
    BY DEF CommandLines, SeqOf
  <1>2. Len(argv) \in Nat
    BY <1>1, LenProperties
  <1>3. i = 1 /\ i \in 1 .. Len(argv) + 1 /\ \A p \in 1 .. i - 1 : ~Problem(argv, p)
    BY <1>2 DEF ArgumentsInit
  <1>4. i \in DOMAIN argv => Option(argv)[i]
    BY <1>1, <1>3, LenProperties, OptionSteps
  <1>5. opts = AskedFor(argv, i)
    BY <1>1, <1>3, AskedNothing DEF ArgumentsInit
  <1> QED
    BY <1>1, <1>3, <1>4, <1>5 DEF ArgumentsInit, Walking, LoopInv

(* What parse_args prints in front of a problem goes to err. *)
LEMMA Diagnostics ==
  /\ \A m \in {<<"err", "requires a value">>} : m[1] = "err"
  /\ \A m \in {<<"err", "unknown reporter">>} : m[1] = "err"
  /\ \A m \in {<<"err", "unknown argument">>, <<"err", "usage">>} : m[1] = "err"
  OBVIOUS

(* parse_args leaves its loop in front of a problem. *)
LEMMA LeaveStep ==
  ASSUME Walking, PrintHelp \/ ValueMissing \/ UnknownReporter \/ UnknownArgument
  PROVE  Walking'
  <1>1. /\ at = "parsing" /\ i <= Len(argv) /\ ~ran /\ UNCHANGED <<argv, i, opts, ran>>
        /\ should_exit' = TRUE /\ at' = "parsed"
    BY DEF Walking, LoopInv, PrintHelp, ValueMissing, UnknownReporter, UnknownArgument,
           Reading, Leave
  <1>2. i \in 1 .. Len(argv) /\ i \in DOMAIN argv /\ Option(argv)[i]
    BY <1>1, LenProperties DEF Walking, LoopInv
  <1> DEFINE code == IF argv[i] \in Help THEN 0 ELSE 2
             Where(m) == m[1] = IF argv[i] \in Help THEN "out" ELSE "err"
  <1>3. Problem(argv, i) /\ exit_code' = code /\ printed' # {} /\ \A m \in printed' : Where(m)
    <2>1. CASE PrintHelp
      BY <1>1, <1>2, <2>1 DEF PrintHelp, Reading, Leave, Problem
    <2>2. CASE ValueMissing
      <3>1. argv[i] \notin Help
        BY <2>2, ValuedSpelling DEF ValueMissing, Reading
      <3>2. Problem(argv, i)
        BY <1>2, <2>2, <3>1 DEF ValueMissing, Reading, Problem
      <3>3. exit_code' = 2 /\ printed' = {<<"err", "requires a value">>}
        BY <2>2 DEF ValueMissing, Leave
      <3>4. printed' # {} /\ \A m \in printed' : m[1] = "err"
        BY <3>3, Diagnostics, Zenon
      <3> QED
        BY <3>1, <3>2, <3>3, <3>4
    <2>3. CASE UnknownReporter
      <3>1. argv[i] \in Spellings(Valued)
        BY <2>3, ReporterSpelling DEF UnknownReporter, Reading, Spellings
      <3>2. argv[i] \notin Help
        BY <3>1, ValuedSpelling
      <3>3. Problem(argv, i)
        BY <1>2, <2>3, <3>1 DEF UnknownReporter, Reading, Problem
      <3>4. exit_code' = 2 /\ printed' = {<<"err", "unknown reporter">>}
        BY <2>3 DEF UnknownReporter, Leave
      <3>5. printed' # {} /\ \A m \in printed' : m[1] = "err"
        BY <3>4, Diagnostics, Zenon
      <3> QED
        BY <3>2, <3>3, <3>4, <3>5
    <2>4. CASE UnknownArgument
      <3>1. argv[i] \in Words /\ argv[i] \notin Help
        BY <2>4 DEF UnknownArgument, Reading, Argument, Options
      <3>2. Problem(argv, i)
        BY <1>2, <2>4, <3>1 DEF UnknownArgument, Reading, Problem
      <3>3. exit_code' = 2 /\ printed' = {<<"err", "unknown argument">>, <<"err", "usage">>}
        BY <2>4 DEF UnknownArgument, Leave
      <3>4. printed' # {} /\ \A m \in printed' : m[1] = "err"
        BY <3>3, Diagnostics, Zenon
      <3> QED
        BY <3>1, <3>2, <3>3, <3>4
    <2> QED
      BY <2>1, <2>2, <2>3, <2>4
  <1>4. i' \in Problems(argv')
    BY <1>1, <1>2, <1>3 DEF Problems
  <1>5. Told(i)'
    BY <1>1, <1>3 DEF Told
  <1> QED
    BY <1>1, <1>4, <1>5 DEF Walking, LoopInv

(* A turn of the loop that goes on, to n + 1 or past a value to n + 2.     *)
LEMMA GoOnStep ==
  ASSUME Walking, NEW o, NEW k \in {1, 2}, GoOn(o, k), at = "parsing", i + k <= Len(argv) + 1,
         i + k \in DOMAIN argv => Option(argv)[i + k],
         \A p \in i .. i + k - 1 : ~Problem(argv, p), o = AskedFor(argv, i + k)
  PROVE  Walking'
  <1>1. /\ UNCHANGED <<argv, should_exit, exit_code, printed, at, ran>>
        /\ opts' = o /\ i' = i + k /\ ~should_exit /\ printed = {} /\ ~ran
        /\ i \in 1 .. Len(argv) + 1 /\ argv \in Seq(Argument)
    BY DEF GoOn, Walking, LoopInv
  <1>2. i' \in 1 .. Len(argv) + 1
    BY <1>1, LenProperties
  <1>3. \A p \in 1 .. i' - 1 : p \in 1 .. i - 1 \/ p \in i .. i + k - 1
    BY <1>1, LenProperties
  <1>4. \A p \in 1 .. i' - 1 : ~Problem(argv, p)
    BY <1>3 DEF Walking, LoopInv
  <1> QED
    BY <1>1, <1>2, <1>4 DEF Walking, LoopInv

LEMMA TakeValueStep ==
  ASSUME Walking, TakeValue
  PROVE  Walking'
  <1> DEFINE k == Meaning(Valued, argv[i])
  <1>1. /\ at = "parsing" /\ i \in 1 .. Len(argv) /\ i < Len(argv) /\ i \in DOMAIN argv
        /\ argv[i] \in Spellings(Valued) /\ argv \in Seq(Argument) /\ Option(argv)[i]
        /\ opts = AskedFor(argv, i)
    BY LenProperties DEF Walking, LoopInv, TakeValue, Reading
  <1>2. GoOn(Set(opts, k, argv[i + 1]), 2) /\ (k = "reporter" => argv[i + 1] \in DOMAIN Kinds)
    BY DEF TakeValue
  <1>3. Set(opts, k, argv[i + 1]) = AskedFor(argv, i + 2)
    BY <1>1, AskedValue
  <1>4. i + 2 <= Len(argv) + 1 /\ (i + 2 \in DOMAIN argv => Option(argv)[i + 2])
    BY <1>1, AfterAValue, LenProperties
  <1>5. ~Problem(argv, i)
    <2>1. argv[i] \notin Help \cup Words /\ (argv[i] \in Valued.reporter => k = "reporter")
      BY <1>1, ValuedSpelling, ReporterSpelling
    <2> QED
      BY <1>1, <1>2, <2>1 DEF Problem
  <1>6. ~Problem(argv, i + 1)
    BY <1>1, AfterAValue DEF Problem
  <1>7. \A p \in i .. i + 2 - 1 : p = i \/ p = i + 1
    BY <1>1, LenProperties
  <1>8. \A p \in i .. i + 2 - 1 : ~Problem(argv, p)
    BY <1>5, <1>6, <1>7
  <1> QED
    BY <1>1, <1>2, <1>3, <1>4, <1>8, GoOnStep

LEMMA SwitchStep ==
  ASSUME Walking, Switch
  PROVE  Walking'
  <1>1. /\ at = "parsing" /\ i \in 1 .. Len(argv) /\ i \in DOMAIN argv
        /\ argv[i] \in Switches.list \cup Switches.no_color
        /\ argv \in Seq(Argument) /\ Option(argv)[i] /\ opts = AskedFor(argv, i)
    BY LenProperties DEF Walking, LoopInv, Switch, Reading
  <1>2. PICK o : GoOn(o, 1) /\ o = AskedFor(argv, i + 1)
    BY <1>1, AskedSwitch DEF Switch, Reading
  <1>3. argv[i] \notin Help \cup Words /\ argv[i] \notin Spellings(Valued)
    BY <1>1, SwitchSpelling
  <1>4. ~Problem(argv, i)
    <2>1. argv[i] \notin Valued.reporter
      BY <1>3, ReporterSpelling DEF Spellings
    <2> QED
      BY <1>3, <2>1 DEF Problem
  <1>5. i + 1 <= Len(argv) + 1 /\ (i + 1 \in DOMAIN argv => Option(argv)[i + 1])
    BY <1>1, <1>3, AfterASwitch, LenProperties
  <1>6. \A p \in i .. i + 1 - 1 : p = i
    BY <1>1, LenProperties
  <1> QED
    BY <1>1, <1>2, <1>4, <1>5, <1>6, GoOnStep

LEMMA EndStep ==
  ASSUME Walking, ParseEnds \/ Exit \/ (\E ok \in BOOLEAN : RunTests(ok)) \/ UNCHANGED argVars
  PROVE  Walking'
  <1>1. UNCHANGED <<argv, i, opts, should_exit, printed>>
    BY DEF ParseEnds, Exit, RunTests, argVars
  <1>2. CASE ParseEnds
    <2>1. i = Len(argv) + 1
      BY <1>2, LenProperties DEF ParseEnds, Walking, LoopInv
    <2> QED
      BY <1>1, <1>2, <2>1 DEF ParseEnds, Walking, LoopInv
  <1>3. CASE Exit
    BY <1>1, <1>3 DEF Exit, Walking, LoopInv, Told
  <1>4. CASE \E ok \in BOOLEAN : RunTests(ok)
    BY <1>1, <1>4 DEF RunTests, Walking, LoopInv
  <1>5. CASE UNCHANGED argVars
    BY <1>1, <1>5 DEF argVars, Walking, LoopInv, Told
  <1> QED
    BY <1>2, <1>3, <1>4, <1>5

LEMMA WalkingHolds == ArgumentsSpec => []Walking
  <1>1. Walking /\ [ArgumentsNext]_argVars => Walking'
    BY LeaveStep, TakeValueStep, SwitchStep, EndStep DEF ArgumentsNext, Ended
  <1> QED
    BY <1>1, WalkingInit, PTL DEF ArgumentsSpec

(* In the middle of any command line, everything read so far was in order  *)
(* and has been taken for what it is (runner.cpp:251-318).                 *)
THEOREM LoopInvariant == ArgumentsSpec => []LoopInv
  <1>1. Walking => LoopInv
    BY DEF Walking
  <1> QED
    BY <1>1, WalkingHolds, PTL

(* For command lines of any length: the tests are run with the options     *)
(* that were asked for and no others (runner.cpp:243-318).                 *)
THEOREM RunsWhatWasAskedFor == ArgumentsSpec => []TheRunIsTheOneAskedFor
  <1>1. Walking => TheRunIsTheOneAskedFor
    BY DEF Walking, LoopInv, TheRunIsTheOneAskedFor
  <1> QED
    BY <1>1, WalkingHolds, PTL

(* For command lines of any length: the first problem decides, whatever    *)
(* follows it, and without one the tests are run (runner.cpp:251-331).     *)
THEOREM FirstProblemDecides == ArgumentsSpec => []ExitCodeTellsWhy
  <1>1. Walking => ExitCodeTellsWhy
    <2> SUFFICES ASSUME Walking, at = "ended" PROVE ExitCodeTellsWhy
      BY DEF ExitCodeTellsWhy
    <2>1. DOMAIN argv = 1 .. Len(argv) /\ Len(argv) \in Nat /\ i \in 1 .. Len(argv) + 1
      BY LenProperties DEF Walking, LoopInv
    <2>2. CASE should_exit
      <3>1. i \in Problems(argv) /\ ~ran /\ Told(i)
        BY <2>2 DEF Walking, LoopInv
      <3>2. \A q \in Problems(argv) : q \in 1 .. Len(argv) /\ ~(q \in 1 .. i - 1)
        BY <2>1 DEF Problems, Walking, LoopInv
      <3>3. \A q \in Problems(argv) : i <= q
        BY <2>1, <3>2
      <3>4. \A p \in Problems(argv) : p <= i => p = i
        BY <2>1, <3>2, <3>3
      <3>5. (CHOOSE p \in Problems(argv) : \A q \in Problems(argv) : p <= q) = i
        BY <3>1, <3>3, <3>4, Zenon
      <3> QED
        BY <3>1, <3>5 DEF ExitCodeTellsWhy
    <2>3. CASE ~should_exit
      <3>1. i = Len(argv) + 1 /\ ran /\ exit_code \in {0, 1} /\ printed = {}
        BY <2>3 DEF Walking, LoopInv
      <3>2. \A q \in DOMAIN argv : q \in 1 .. i - 1
        BY <2>1, <3>1
      <3>3. Problems(argv) = {}
        BY <3>2 DEF Problems, Walking, LoopInv
      <3> QED
        BY <3>1, <3>3 DEF ExitCodeTellsWhy
    <2> QED
      BY <2>2, <2>3
  <1> QED
    BY <1>1, WalkingHolds, PTL
================================================================================
