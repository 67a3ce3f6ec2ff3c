------------------------------ MODULE IntervalInduction ------------------------------
(* Induction and recursion over the natural numbers, stated of sets and    *)
(* functions, so that the theorems can be used without an operator for the *)
(* property.                                                               *)
EXTENDS Integers, SequencesExt, WellFoundedInduction, TLAPS

(* A set of numbers has a least one. *)
LEMMA Least ==
  ASSUME NEW S \in SUBSET Nat, S # {}
  PROVE  \E n \in S : \A m \in S : n <= m
  <1> DEFINE R == {p \in Nat \X Nat : p[1] < p[2]}
  <1>1. IsWellFoundedOn(R, Nat)
    <2>1. R = OpToRel(<, Nat)
      BY DEF OpToRel
    <2> QED
      BY <2>1, NatLessThanWellFounded
  <1>2. PICK n \in S : \A m \in S : ~(<<m, n>> \in R)
    <2> HIDE DEF R
    <2> QED
      BY <1>1, WFMin
  <1>3. \A m \in S : n <= m
    <2> TAKE m \in S
    <2>1. m \in Nat /\ n \in Nat /\ ~(m < n)
      BY <1>2
    <2> QED
      BY <2>1
  <1> QED
    BY <1>3

(* A set that holds 0 and with each number the next holds them all. *)
LEMMA Induction ==
  ASSUME NEW S \in SUBSET Nat, 0 \in S, \A n \in S : n + 1 \in S
  PROVE  S = Nat
  <1> SUFFICES ASSUME Nat \ S # {} PROVE FALSE
    OBVIOUS
  <1>1. PICK n \in Nat \ S : \A m \in Nat \ S : n <= m
    BY Least
  <1>2. n # 0 /\ n - 1 \in Nat /\ n - 1 \notin Nat \ S
    BY <1>1
  <1> QED
    BY <1>2

(* A function on 0 .. L may be given by its value at 0 and a step. *)
StepsIn(V) == [Nat -> [V -> V]]
Repeats(f, L, V, b, g) ==
  f \in [0 .. L -> V] /\ f[0] = b /\ \A i \in 1 .. L : f[i] = g[i][f[i - 1]]

LEMMA Recursion ==
  ASSUME NEW L \in Nat, NEW V, NEW b \in V, NEW g \in StepsIn(V)
  PROVE  \E f : Repeats(f, L, V, b, g)
  <1> USE DEF StepsIn, Repeats
  <1> DEFINE Good(f, n) == f[0] = b /\ \A i \in 1 .. n : f[i] = g[i][f[i - 1]]
             S == {n \in Nat : \E f \in [0 .. n -> V] : Good(f, n)}
  <1>1. 0 \in S
    <2> DEFINE f == [i \in 0 .. 0 |-> b]
    <2>1. f \in [0 .. 0 -> V] /\ Good(f, 0)
      OBVIOUS
    <2> QED
      BY <2>1
  <1>2. ASSUME NEW n \in S PROVE n + 1 \in S
    <2>1. PICK f \in [0 .. n -> V] : Good(f, n)
      OBVIOUS
    <2> DEFINE h == [i \in 0 .. n + 1 |-> IF i <= n THEN f[i] ELSE g[n + 1][f[n]]]
    <2>2. n \in Nat /\ f[n] \in V /\ g[n + 1][f[n]] \in V
      <3>1. n \in Nat /\ f[n] \in V /\ n + 1 \in Nat
        OBVIOUS
      <3> QED
        BY <3>1
    <2>3. h \in [0 .. n + 1 -> V]
      BY <2>2
    <2>4. h[0] = b
      BY <2>1, <2>2
    <2>5. ASSUME NEW i \in 1 .. n + 1 PROVE h[i] = g[i][h[i - 1]]
      <3>1. CASE i = n + 1
        BY <2>2, <3>1
      <3>2. CASE i # n + 1
        <4>1. i \in 1 .. n /\ i <= n /\ i - 1 <= n /\ i \in 0 .. n + 1 /\ i - 1 \in 0 .. n + 1
          BY <2>2, <3>2
        <4> QED
          BY <2>1, <4>1
      <3> QED
        BY <3>1, <3>2
    <2> HIDE DEF h
    <2>6. Good(h, n + 1)
      BY <2>4, <2>5
    <2>7. n + 1 \in Nat
      BY <2>2
    <2> HIDE DEF Good
    <2> QED
      BY <2>3, <2>6, <2>7
  <1>3. S = Nat
    <2> HIDE DEF S
    <2>1. S \in SUBSET Nat
      BY DEF S
    <2> QED
      BY <1>1, <1>2, <2>1, Induction
  <1> QED
    BY <1>3

(* A function on the subsets of 1 .. L may be given by a step at the       *)
(* largest element, as the folds of the community modules are.             *)
FoldsUp(f, L, V, b, g) ==
  /\ f \in [SUBSET (1 .. L) -> V]
  /\ \A t \in SUBSET (1 .. L) :
       IF t = {} THEN f[t] = b
       ELSE Max(t) \in t /\ f[t] = g[Max(t)][f[t \ {Max(t)}]]

LEMMA FoldExists ==
  ASSUME NEW L \in Nat, NEW V, NEW b \in V, NEW g \in StepsIn(V)
  PROVE  \E f : FoldsUp(f, L, V, b, g)
  <1> USE DEF FoldsUp
  <1> DEFINE Good(f, n) == \A t \in SUBSET (1 .. n) :
               IF t = {} THEN f[t] = b
               ELSE Max(t) \in t /\ f[t] = g[Max(t)][f[t \ {Max(t)}]]
             S == {n \in Nat : \E f \in [SUBSET (1 .. n) -> V] : Good(f, n)}
  <1>1. 0 \in S
    <2> DEFINE f == [t \in SUBSET (1 .. 0) |-> b]
    <2>1. \A t \in SUBSET (1 .. 0) : t = {}
      OBVIOUS
    <2>2. f \in [SUBSET (1 .. 0) -> V] /\ Good(f, 0)
      BY <2>1
    <2> QED
      BY <2>2
  <1>2. ASSUME NEW n \in S PROVE n + 1 \in S
    <2>1. n \in Nat /\ n + 1 \in Nat
      OBVIOUS
    <2>2. PICK f \in [SUBSET (1 .. n) -> V] : Good(f, n)
      OBVIOUS
    <2> DEFINE h == [t \in SUBSET (1 .. n + 1) |->
                       IF n + 1 \in t THEN g[n + 1][f[t \ {n + 1}]] ELSE f[t]]
    <2>3. ASSUME NEW t \in SUBSET (1 .. n + 1)
          PROVE  /\ t \ {n + 1} \in SUBSET (1 .. n)
                 /\ n + 1 \notin t => t \in SUBSET (1 .. n)
                 /\ n + 1 \in t => Max(t) = n + 1
      <3>1. \A i \in t : i \in 1 .. n + 1 /\ (i # n + 1 => i \in 1 .. n)
        BY <2>1
      <3>2. ASSUME n + 1 \in t PROVE Max(t) = n + 1
        <4>1. \A i \in t : n + 1 >= i /\ (i >= n + 1 => i = n + 1)
          BY <2>1, <3>1
        <4> QED
          BY <3>2, <4>1, Zenon DEF Max
      <3> QED
        BY <3>1, <3>2
    <2>4. ASSUME NEW t \in SUBSET (1 .. n + 1)
          PROVE  h[t] \in V
      <3>1. CASE n + 1 \in t
        <4>1. f[t \ {n + 1}] \in V /\ g[n + 1] \in [V -> V]
          BY <2>1, <2>3 DEF StepsIn
        <4> QED
          BY <3>1, <4>1
      <3>2. CASE n + 1 \notin t
        BY <2>3, <3>2
      <3> QED
        BY <3>1, <3>2
    <2>5. ASSUME NEW t \in SUBSET (1 .. n + 1)
          PROVE  IF t = {} THEN h[t] = b
                 ELSE Max(t) \in t /\ h[t] = g[Max(t)][h[t \ {Max(t)}]]
      <3>1. CASE n + 1 \in t
        <4>1. t \ {n + 1} \in SUBSET (1 .. n + 1) /\ n + 1 \notin t \ {n + 1} /\ t # {}
          BY <3>1
        <4>2. h[t \ {n + 1}] = f[t \ {n + 1}]
          BY <4>1, Zenon
        <4>3. Max(t) = n + 1
          BY <2>3, <3>1
        <4> QED
          BY <3>1, <4>1, <4>2, <4>3, Zenon
      <3>2. CASE n + 1 \notin t
        <4>1. t \in SUBSET (1 .. n) /\ h[t] = f[t]
          BY <2>3, <3>2
        <4>2. IF t = {} THEN f[t] = b
              ELSE Max(t) \in t /\ f[t] = g[Max(t)][f[t \ {Max(t)}]]
          BY <2>2, <4>1, Zenon
        <4>3. t \ {Max(t)} \in SUBSET (1 .. n + 1) /\ n + 1 \notin t \ {Max(t)}
          BY <3>2
        <4>4. h[t \ {Max(t)}] = f[t \ {Max(t)}]
          BY <4>3, Zenon
        <4> HIDE DEF h
        <4> QED
          BY <4>1, <4>2, <4>4, Zenon
      <3> QED
        BY <3>1, <3>2
    <2> HIDE DEF h
    <2>6. h \in [SUBSET (1 .. n + 1) -> V]
      BY <2>4 DEF h
    <2>7. Good(h, n + 1)
      BY <2>5, Zenon
    <2> HIDE DEF Good
    <2> QED
      BY <2>1, <2>6, <2>7
  <1>3. S = Nat
    <2> HIDE DEF S
    <2>1. S \in SUBSET Nat
      BY DEF S
    <2> QED
      BY <1>1, <1>2, <2>1, Induction
  <1> QED
    BY <1>3

(* What such a function is on the prefixes of 1 .. L. *)
LEMMA Initial ==
  ASSUME NEW L \in Nat, NEW n \in 1 .. L
  PROVE  /\ 1 .. n \in SUBSET (1 .. L) /\ 1 .. n # {}
         /\ Max(1 .. n) = n /\ (1 .. n) \ {Max(1 .. n)} = 1 .. n - 1
  <1>1. \A i \in 1 .. n : n >= i /\ (i >= n => i = n)
    OBVIOUS
  <1>2. n \in 1 .. n
    OBVIOUS
  <1>3. Max(1 .. n) = n
    BY <1>1, <1>2, Zenon DEF Max
  <1>4. (1 .. n) \ {n} = 1 .. n - 1
    OBVIOUS
  <1>5. 1 .. n \in SUBSET (1 .. L)
    OBVIOUS
  <1>6. 1 .. n # {}
    BY <1>2
  <1> QED
    BY <1>3, <1>4, <1>5, <1>6, Zenon

(* A fold taken one element after the other. *)
LEMMA FoldRepeats ==
  ASSUME NEW L \in Nat, NEW V, NEW b \in V, NEW g \in StepsIn(V), NEW f, f[{}] = b,
         \A n \in 1 .. L : f[1 .. n - 1] \in V => f[1 .. n] = g[n][f[1 .. n - 1]]
  PROVE  \E h : Repeats(h, L, V, b, g) /\ h[L] = f[1 .. L]
  <1> DEFINE h == [n \in 0 .. L |-> f[1 .. n]]
             S == {n \in Nat : n \in 0 .. L => f[1 .. n] \in V}
  <1>1. 1 .. 0 = {} /\ 0 \in 0 .. L /\ L \in 0 .. L
    OBVIOUS
  <1>2. 0 \in S
    BY <1>1
  <1>3. ASSUME NEW n \in S PROVE n + 1 \in S
    <2>1. n \in Nat /\ n + 1 \in Nat /\ (n + 1) - 1 = n
      OBVIOUS
    <2>2. n + 1 \in 0 .. L => n + 1 \in 1 .. L /\ n \in 0 .. L
      BY <2>1
    <2>3. \A v \in V : g[n + 1][v] \in V
      BY <2>1 DEF StepsIn
    <2>4. n + 1 \in 0 .. L => f[1 .. n + 1] \in V
      BY <2>1, <2>2, <2>3, Zenon
    <2> QED
      BY <2>1, <2>4
  <1>4. S = Nat
    <2> HIDE DEF S
    <2>1. S \in SUBSET Nat
      BY DEF S
    <2> QED
      BY <1>2, <1>3, <2>1, Induction
  <1>5. \A n \in 0 .. L : f[1 .. n] \in V
    BY <1>4
  <1>6. h \in [0 .. L -> V] /\ h[0] = b /\ h[L] = f[1 .. L]
    BY <1>1, <1>5, Zenon
  <1>7. ASSUME NEW n \in 1 .. L PROVE h[n] = g[n][h[n - 1]]
    <2>1. n \in 0 .. L /\ n - 1 \in 0 .. L
      OBVIOUS
    <2> QED
      BY <1>5, <2>1, Zenon
  <1> HIDE DEF h
  <1> QED
    BY <1>6, <1>7, Zenon DEF Repeats

(* Two functions that step alike stay together. *)
LEMMA RepeatsAgree ==
  ASSUME NEW L \in Nat, NEW M \in Nat, L <= M, NEW V, NEW b, NEW f, NEW h, NEW g, NEW k,
         Repeats(f, L, V, b, g), Repeats(h, M, V, b, k), \A n \in 1 .. L : g[n] = k[n]
  PROVE  f[L] = h[L]
  <1> DEFINE S == {n \in Nat : n \in 0 .. L => f[n] = h[n]}
  <1>1. 0 \in S
    BY DEF Repeats
  <1>2. ASSUME NEW n \in S PROVE n + 1 \in S
    <2>1. n \in Nat /\ n + 1 \in Nat /\ (n + 1) - 1 = n
      OBVIOUS
    <2> SUFFICES ASSUME n + 1 \in 0 .. L PROVE f[n + 1] = h[n + 1]
      BY <2>1
    <2>2. n \in 0 .. L /\ n + 1 \in 1 .. L /\ n + 1 \in 1 .. M
      BY <2>1
    <2>3. f[n] = h[n]
      BY <2>2
    <2>4. f[n + 1] = g[n + 1][f[n]] /\ h[n + 1] = k[n + 1][h[n]]
      BY <2>1, <2>2, Zenon DEF Repeats
    <2> QED
      BY <2>2, <2>3, <2>4, Zenon
  <1>3. S = Nat
    <2> HIDE DEF S
    <2>1. S \in SUBSET Nat
      BY DEF S
    <2> QED
      BY <1>1, <1>2, <2>1, Induction
  <1>4. L \in 0 .. L
    OBVIOUS
  <1> QED
    BY <1>3, <1>4
================================================================================
