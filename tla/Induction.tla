------------------------------ MODULE Induction ------------------------------
(***************************************************************************)
(* Induction over the naturals with a set in place of a predicate: no      *)
(* operator has to be instantiated, so every backend can use it.  The      *)
(* proofs about recursive functions (the requests in a Modbus stream, the  *)
(* checksum of an image, the loops of the applied instructions) go through *)
(* these facts.                                                            *)
(***************************************************************************)
EXTENDS Integers, WellFoundedInduction, TLAPS

\* A non-empty set of naturals has a least element: what Min returns for the
\* free slots of modbus_tcp.c and the token ends of wifi_config.c.
LEMMA LeastNat ==
    ASSUME NEW T \in SUBSET Nat, T # {}
    PROVE  \E n \in T : \A m \in T : n <= m
  <1>1. PICK n \in T : \A m \in T : <<m, n>> \notin OpToRel(<, Nat)
    BY WFMin, NatLessThanWellFounded
  <1>2. \A m \in T : ~(m < n)
    BY <1>1 DEF OpToRel
  <1> QED BY <1>2

\* A set that holds 0 and the successor of each of its elements holds every
\* natural number.
LEMMA SetInduction ==
    ASSUME NEW S \in SUBSET Nat, 0 \in S, \A n \in Nat : n \in S => n + 1 \in S
    PROVE  S = Nat
  <1> SUFFICES ASSUME Nat \ S # {} PROVE FALSE
    OBVIOUS
  <1>1. PICK n \in Nat \ S : \A m \in Nat \ S : n <= m
    BY LeastNat
  <1>2. n # 0 /\ n - 1 \in Nat
    BY <1>1
  <1>3. n - 1 \in S
    BY <1>1, <1>2
  <1>4. (n - 1) + 1 \in S
    BY <1>2, <1>3
  <1> QED BY <1>1, <1>2, <1>4

\* The equation of a recursive function on a set of naturals.
Unfolds(g, a0, step, D) == \A k \in D : g[k] = IF k = 0 THEN a0 ELSE step[<<g[k - 1], k>>]

\* A recursive function on 0..N exists: what each step makes of the value before
\* is given by a function, so that the fact can be used for any step that has a
\* type.
LEMMA PrefixRecursion ==
    ASSUME NEW A, NEW a0 \in A, NEW step \in [A \X Nat -> A], NEW N \in Nat
    PROVE  \E g \in [0..N -> A] : Unfolds(g, a0, step, 0..N)
  <1> DEFINE Rec(g, n) == Unfolds(g, a0, step, 0..n)
             S == {n \in Nat : \E g \in [0..n -> A] : Rec(g, n)}
  <1>1. 0 \in S
    <2>1. [k \in 0..0 |-> a0] \in [0..0 -> A] /\ Rec([k \in 0..0 |-> a0], 0)
      BY DEF Unfolds
    <2> HIDE DEF Rec
    <2> QED BY <2>1
  <1>2. ASSUME NEW n \in Nat, n \in S
        PROVE  n + 1 \in S
    <2>1. PICK f \in [0..n -> A] : Rec(f, n)
      BY <1>2
    <2> DEFINE h == [k \in 0..(n + 1) |-> IF k = n + 1 THEN step[<<f[n], k>>] ELSE f[k]]
    <2>2. h \in [0..(n + 1) -> A]
      <3>1. ASSUME NEW k \in 0..(n + 1)
            PROVE  (IF k = n + 1 THEN step[<<f[n], k>>] ELSE f[k]) \in A
        OBVIOUS
      <3> QED BY <3>1
    <2>3. ASSUME NEW k \in 0..(n + 1)
          PROVE  h[k] = IF k = 0 THEN a0 ELSE step[<<h[k - 1], k>>]
      <3>1. CASE k = n + 1
        BY <3>1
      <3>2. CASE k # n + 1
        <4>1. k \in 0..n /\ (k # 0 => k - 1 \in 0..n)
          BY <3>2
        <4>2. h[k] = f[k] /\ (k # 0 => h[k - 1] = f[k - 1])
          BY <4>1
        <4> HIDE DEF h
        <4> QED BY <2>1, <4>1, <4>2 DEF Unfolds
      <3> QED BY <3>1, <3>2
    <2>4. Rec(h, n + 1)
      <3> HIDE DEF h
      <3> QED BY <2>3 DEF Unfolds
    <2>5. \E g \in [0..(n + 1) -> A] : Rec(g, n + 1)
      <3> HIDE DEF h, Rec
      <3> QED BY <2>2, <2>4
    <2> QED BY <2>5
  <1>3. S = Nat
    <2> HIDE DEF S
    <2>1. S \in SUBSET Nat
      BY DEF S
    <2> QED BY <1>1, <1>2, <2>1, SetInduction
  <1> QED BY <1>3

\* A recursive function on the naturals exists.
LEMMA NatRecursion ==
    ASSUME NEW A, NEW a0 \in A, NEW step \in [A \X Nat -> A]
    PROVE  \E g \in [Nat -> A] : Unfolds(g, a0, step, Nat)
  <1>0. \A n \in Nat : \E g \in [0..n -> A] : Unfolds(g, a0, step, 0..n)
    BY PrefixRecursion
  <1> DEFINE Rec(g, n) == Unfolds(g, a0, step, 0..n)
             P(n) == CHOOSE g \in [0..n -> A] : Rec(g, n)
             f == [n \in Nat |-> P(n)[n]]
             S == {k \in Nat : \A n \in Nat : k <= n => P(n)[k] = f[k]}
  <1>1. ASSUME NEW n \in Nat
        PROVE  P(n) \in [0..n -> A] /\ Rec(P(n), n)
    <2>1. \E g \in [0..n -> A] : Rec(g, n)
      BY <1>0, Zenon
    <2> HIDE DEF Rec
    <2> QED BY <2>1
  <1>2. f \in [Nat -> A]
    <2>1. \A n \in Nat : P(n)[n] \in A
      <3> HIDE DEF P
      <3> QED BY <1>1
    <2> HIDE DEF P
    <2> QED BY <2>1
  <1>3. \A n \in Nat : f[n] = P(n)[n]
    OBVIOUS
  <1>4. \A n \in Nat, k \in Nat : k <= n =>
            P(n)[k] = IF k = 0 THEN a0 ELSE step[<<P(n)[k - 1], k>>]
    <2>1. \A n \in Nat, k \in Nat : k <= n => k \in 0..n
      OBVIOUS
    <2> HIDE DEF P
    <2> QED BY <1>1, <2>1 DEF Unfolds
  <1> HIDE DEF f, P
  <1>5. 0 \in S
    <2>1. ASSUME NEW n \in Nat
          PROVE  P(n)[0] = a0
      <3>1. 0 \in 0..n
        OBVIOUS
      <3> QED BY <3>1, <1>1, Zenon DEF Unfolds
    <2>2. \A n \in Nat : P(n)[0] = f[0]
      BY <1>3, <2>1
    <2> QED BY <2>2
  <1>6. ASSUME NEW k \in Nat, k \in S
        PROVE  k + 1 \in S
    <2>1. ASSUME NEW n \in Nat, k + 1 <= n
          PROVE  P(n)[k + 1] = step[<<f[k], k + 1>>]
      <3>1. k + 1 # 0 /\ (k + 1) - 1 = k /\ k <= n /\ k + 1 \in Nat
        BY <2>1
      <3>2. P(n)[k] = f[k]
        BY <1>6, <3>1
      <3>3. P(n)[k + 1] = step[<<P(n)[k], k + 1>>]
        BY <1>4, <2>1, <3>1
      <3> QED BY <3>2, <3>3
    <2>2. f[k + 1] = P(k + 1)[k + 1] /\ k + 1 \in Nat /\ k + 1 <= k + 1
      BY <1>3
    <2>3. f[k + 1] = step[<<f[k], k + 1>>]
      BY <2>1, <2>2
    <2> QED BY <2>1, <2>3
  <1>7. S = Nat
    <2> HIDE DEF S
    <2>1. S \in SUBSET Nat
      BY DEF S
    <2> QED BY <1>5, <1>6, <2>1, SetInduction
  <1>8. ASSUME NEW k \in Nat
        PROVE  f[k] = IF k = 0 THEN a0 ELSE step[<<f[k - 1], k>>]
    <2>1. f[k] = IF k = 0 THEN a0 ELSE step[<<P(k)[k - 1], k>>]
      BY <1>3, <1>4
    <2>2. ASSUME k # 0
          PROVE  P(k)[k - 1] = f[k - 1]
      <3>1. k - 1 \in Nat /\ k - 1 <= k
        BY <2>2
      <3> QED BY <3>1, <1>7
    <2> QED BY <2>1, <2>2
  <1> QED BY <1>2, <1>8 DEF Unfolds

==============================================================================
