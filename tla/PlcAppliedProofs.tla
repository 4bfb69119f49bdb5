-------------------------- MODULE PlcAppliedProofs ---------------------------
(***************************************************************************)
(* Proofs about PlcApplied, for words of every width, every number of      *)
(* registers and bits and every decoded program.                           *)
(***************************************************************************)
EXTENDS PlcApplied, Induction

(***************************************************************************)
(* Integer division                                                        *)
(***************************************************************************)

\* Quotient and remainder of a division by a positive number.
LEMMA DivMod ==
    ASSUME NEW a \in Int, NEW b \in Nat \ {0}
    PROVE  /\ a \div b \in Int /\ a % b \in 0..(b - 1)
           /\ a = b * (a \div b) + (a % b)
           /\ a >= 0 => a \div b \in Nat
  BY Z3

\* There is no other quotient and remainder.
LEMMA DivUnique ==
    ASSUME NEW a \in Int, NEW b \in Nat \ {0}, NEW q \in Int, NEW r \in Int,
           0 <= r, r < b, a = b * q + r
    PROVE  a \div b = q /\ a % b = r
  <1> DEFINE Q == a \div b
             R == a % b
  <1>1. Q \in Int /\ R \in Int /\ 0 <= R /\ R < b /\ a = b * Q + R
    BY DivMod
  <1> HIDE DEF Q, R
  <1>2. \A x, y \in Int : x + 1 <= y => b * x + b <= b * y
    <2> SUFFICES ASSUME NEW x \in Int, NEW y \in Int, x + 1 <= y PROVE b * x + b <= b * y
      OBVIOUS
    <2>1. \A u \in Nat : b * u \in Nat
      OBVIOUS
    <2>2. y - x - 1 \in Nat
      OBVIOUS
    <2>3. b * (y - x - 1) \in Nat
      BY <2>1, <2>2
    <2>4. b * (y - x - 1) = b * y - b * x - b
      OBVIOUS
    <2>5. b * x \in Int /\ b * y \in Int
      OBVIOUS
    <2> QED BY <2>3, <2>4, <2>5
  <1>3. b * q \in Int /\ b * Q \in Int /\ b \in Int
    BY <1>1
  <1>4. ~(q + 1 <= Q) /\ ~(Q + 1 <= q)
    <2>1. q + 1 <= Q => b * q + b <= b * Q
      BY <1>1, <1>2
    <2>2. Q + 1 <= q => b * Q + b <= b * q
      BY <1>1, <1>2
    <2> QED BY <2>1, <2>2, <1>1, <1>3
  <1>5. Q = q
    BY <1>1, <1>4
  <1>6. R = r
    BY <1>1, <1>3, <1>5
  <1> QED BY <1>5, <1>6 DEF Q, R

\* Whole multiples of the divisor go into the quotient.
LEMMA DivAdd ==
    ASSUME NEW a \in Int, NEW b \in Nat \ {0}, NEW c \in Int
    PROVE  (a + b * c) \div b = (a \div b) + c /\ (a + b * c) % b = a % b
  <1> DEFINE q == a \div b
             r == a % b
  <1>1. q \in Int /\ r \in Int /\ 0 <= r /\ r < b /\ a = b * q + r
    BY DivMod
  <1> HIDE DEF q, r
  <1>2. b * (q + c) = b * q + b * c /\ b * q \in Int /\ b * c \in Int
    BY <1>1
  <1>3. a + b * c = b * (q + c) + r /\ q + c \in Int /\ a + b * c \in Int
    BY <1>1, <1>2
  <1>4. (a + b * c) \div b = q + c /\ (a + b * c) % b = r
    BY <1>1, <1>3, DivUnique
  <1> QED BY <1>4 DEF q, r

\* Dividing twice is dividing by the product.
LEMMA DivDiv ==
    ASSUME NEW x \in Nat, NEW a \in Nat \ {0}, NEW b \in Nat \ {0}
    PROVE  (x \div a) \div b = x \div (a * b)
  <1> DEFINE q == x \div a
             r == x % a
             Q == q \div b
             R == q % b
  <1>1. q \in Nat /\ r \in Int /\ 0 <= r /\ r < a /\ x = a * q + r
    BY DivMod
  <1> HIDE DEF q, r
  <1>2. Q \in Int /\ R \in Int /\ 0 <= R /\ R < b /\ q = b * Q + R
    BY <1>1, DivMod
  <1> HIDE DEF Q, R
  <1>3. a * b \in Nat \ {0}
    OBVIOUS
  <1>4. a * R \in Nat /\ a * R + a <= a * b
    <2>1. \A u, v \in Nat : u * v \in Nat
      OBVIOUS
    <2>2. R \in Nat /\ b - 1 - R \in Nat /\ a \in Nat
      BY <1>2
    <2>3. a * R \in Nat /\ a * (b - 1 - R) \in Nat
      BY <2>1, <2>2
    <2>4. a * (b - 1 - R) = a * b - a - a * R
      BY <2>2
    <2> QED BY <2>3, <2>4, <1>3
  <1>5. a * q = (a * b) * Q + a * R
    <2>1. a * (b * Q + R) = (a * b) * Q + a * R
      BY <1>2
    <2> QED BY <2>1, <1>2
  <1>6. x = (a * b) * Q + (a * R + r) /\ a * R + r \in Int /\ 0 <= a * R + r /\ a * R + r < a * b
    <2>1. (a * b) * Q \in Int
      BY <1>2, <1>3
    <2> QED BY <2>1, <1>1, <1>3, <1>4, <1>5
  <1>7. x \div (a * b) = Q
    BY <1>2, <1>3, <1>6, DivUnique
  <1> QED BY <1>7 DEF Q, q

(***************************************************************************)
(* Powers of two                                                           *)
(***************************************************************************)

\* The recursion of Pow2, unfolded.
LEMMA Pow2Def ==
    /\ Pow2[0] = 1
    /\ \A n \in Nat : Pow2[n] \in Nat \ {0} /\ Pow2[n + 1] = 2 * Pow2[n]
  <1> DEFINE step == [x \in (Nat \ {0}) \X Nat |-> 2 * x[1]]
             Eq(g) == g = [n \in Nat |-> IF n = 0 THEN 1 ELSE 2 * g[n - 1]]
  <1>1. step \in [(Nat \ {0}) \X Nat -> Nat \ {0}] /\ 1 \in Nat \ {0}
    OBVIOUS
  <1>2. PICK g \in [Nat -> Nat \ {0}] : Unfolds(g, 1, step, Nat)
    <2> HIDE DEF step
    <2> QED BY <1>1, NatRecursion
  <1>3. \A n \in Nat : g[n] = IF n = 0 THEN 1 ELSE 2 * g[n - 1]
    <2> SUFFICES ASSUME NEW n \in Nat, n # 0 PROVE g[n] = 2 * g[n - 1]
      BY <1>2 DEF Unfolds
    <2>1. n - 1 \in Nat /\ g[n - 1] \in Nat \ {0}
      BY <1>2
    <2>2. g[n] = step[<<g[n - 1], n>>]
      BY <1>2 DEF Unfolds
    <2> QED BY <2>1, <2>2
  <1>4. Eq(g)
    BY <1>2, <1>3
  <1>5. Pow2 = CHOOSE f : Eq(f)
    BY DEF Pow2
  <1>6. Eq(Pow2)
    <2> HIDE DEF Eq
    <2> QED BY <1>4, <1>5
  <1>7. \A n \in Nat : Pow2[n] = IF n = 0 THEN 1 ELSE 2 * Pow2[n - 1]
    BY <1>6
  <1>8. \A n \in Nat : Pow2[n + 1] = 2 * Pow2[n]
    BY <1>7
  <1> DEFINE S == {n \in Nat : Pow2[n] \in Nat \ {0}}
  <1>9. 0 \in S
    BY <1>7
  <1>10. \A n \in Nat : n \in S => n + 1 \in S
    BY <1>8
  <1>11. S = Nat
    <2> HIDE DEF S
    <2>1. S \in SUBSET Nat
      BY DEF S
    <2> QED BY <1>9, <1>10, <2>1, SetInduction
  <1>12. Pow2[0] = 1
    BY <1>7
  <1>13. \A n \in Nat : Pow2[n] \in Nat \ {0}
    BY <1>11
  <1> QED BY <1>8, <1>12, <1>13

\* Powers multiply as exponents add.
LEMMA Pow2Sum ==
    ASSUME NEW a \in Nat, NEW b \in Nat
    PROVE  Pow2[a + b] = Pow2[a] * Pow2[b]
  <1> DEFINE S == {n \in Nat : Pow2[a + n] = Pow2[a] * Pow2[n]}
  <1>1. 0 \in S
    BY Pow2Def
  <1>2. ASSUME NEW n \in Nat, n \in S
        PROVE  n + 1 \in S
    <2>1. a + (n + 1) = (a + n) + 1 /\ a + n \in Nat
      OBVIOUS
    <2>2. Pow2[a + (n + 1)] = 2 * Pow2[a + n] /\ Pow2[n + 1] = 2 * Pow2[n]
      BY <2>1, Pow2Def
    <2>3. \A x, y, z \in Nat : z = x * y => 2 * z = x * (2 * y)
      OBVIOUS
    <2>4. Pow2[a] \in Nat /\ Pow2[n] \in Nat /\ Pow2[a + n] \in Nat
      BY <2>1, Pow2Def
    <2>5. Pow2[a + n] = Pow2[a] * Pow2[n]
      BY <1>2
    <2>6. 2 * Pow2[a + n] = Pow2[a] * (2 * Pow2[n])
      BY <2>3, <2>4, <2>5
    <2> QED BY <2>2, <2>6
  <1>3. S = Nat
    <2> HIDE DEF S
    <2>1. S \in SUBSET Nat
      BY DEF S
    <2> QED BY <1>1, <1>2, <2>1, SetInduction
  <1> QED BY <1>3

\* A word has an even number of values, and numbers every register.
LEMMA WordSize ==
    /\ WORD \in Nat /\ WORD >= 2 /\ WORD = 2 * (WORD \div 2) /\ WORD \div 2 \in Nat
    /\ PLC_NUM_D \in Nat /\ 0 < PLC_NUM_D /\ PLC_NUM_D < WORD
    /\ NUM_BITS \in Nat /\ 0 < NUM_BITS
  <1>1. WIDTH \in Nat \ {0}
    BY AppliedAssumption
  <1>2. WIDTH - 1 \in Nat /\ (WIDTH - 1) + 1 = WIDTH
    BY <1>1
  <1>3. WORD = 2 * Pow2[WIDTH - 1] /\ Pow2[WIDTH - 1] \in Nat \ {0}
    BY <1>2, Pow2Def DEF WORD
  <1>4. \A h \in Nat \ {0} : 2 * h >= 2 /\ (2 * h) \div 2 = h
    OBVIOUS
  <1> QED BY <1>3, <1>4, AppliedAssumption

(***************************************************************************)
(* Loops of moves                                                          *)
(***************************************************************************)

\* A move keeps the type.
LEMMA MoveType ==
    ASSUME NEW R, NEW V, 0 \in V, NEW f \in [R -> V], NEW m
    PROVE  /\ Move(f, m) \in [R -> V]
           /\ \A r \in R : Move(f, m)[r] = IF r = m[1] THEN IF m[2] \in R THEN f[m[2]] ELSE 0
                                           ELSE f[r]
  BY DEF Move

\* The values a loop of moves goes through.
Course(after, f, moves) ==
    /\ after[0] = f /\ Moved(f, moves) = after[Len(moves)]
    /\ \A k \in 1..Len(moves) : after[k] = Move(after[k - 1], moves[k])

LEMMA MovedSteps ==
    ASSUME NEW R, NEW V, 0 \in V, NEW f \in [R -> V], NEW moves, Len(moves) \in Nat
    PROVE  \E after \in [0..Len(moves) -> [R -> V]] : Course(after, f, moves)
  <1>0. \A h \in [R -> V] : \A m : Move(h, m) \in [R -> V]
    BY MoveType
  <1> DEFINE n == Len(moves)
             A == [R -> V]
             step == [x \in A \X Nat |-> Move(x[1], moves[x[2]])]
             Eq(g) == g = [k \in 0..n |-> IF k = 0 THEN f ELSE Move(g[k - 1], moves[k])]
             loop == CHOOSE g : Eq(g)
  <1>1. step \in [A \X Nat -> A]
    <2>1. \A x \in A \X Nat : Move(x[1], moves[x[2]]) \in A
      <3> SUFFICES ASSUME NEW x \in A \X Nat PROVE Move(x[1], moves[x[2]]) \in A
        OBVIOUS
      <3>1. x[1] \in [R -> V]
        OBVIOUS
      <3> QED BY <3>1, <1>0
    <2> QED BY <2>1
  <1>2. PICK g \in [0..n -> A] : Unfolds(g, f, step, 0..n)
    <2>1. f \in A
      OBVIOUS
    <2> HIDE DEF step, A
    <2> QED BY <1>1, <2>1, PrefixRecursion
  <1>3. \A k \in 0..n : g[k] = IF k = 0 THEN f ELSE Move(g[k - 1], moves[k])
    <2> SUFFICES ASSUME NEW k \in 0..n, k # 0 PROVE g[k] = Move(g[k - 1], moves[k])
      BY <1>2 DEF Unfolds
    <2>1. k - 1 \in 0..n /\ k \in Nat
      OBVIOUS
    <2>2. <<g[k - 1], k>> \in A \X Nat
      BY <1>2, <2>1, Zenon
    <2>3. g[k] = step[<<g[k - 1], k>>]
      BY <1>2 DEF Unfolds
    <2> HIDE DEF A
    <2> QED BY <2>2, <2>3
  <1>4. g = [k \in 0..n |-> g[k]]
    BY <1>2
  <1>5. Eq(g)
    BY <1>3, <1>4
  <1>6. Eq(loop)
    <2> HIDE DEF Eq
    <2> QED BY <1>5
  <1>7. Moved(f, moves) = loop[n]
    BY DEF Moved
  <1>8. \A k \in 0..n : loop[k] = IF k = 0 THEN f ELSE Move(loop[k - 1], moves[k])
    BY <1>6
  <1> HIDE DEF loop
  <1> DEFINE S == {k \in Nat : k <= n => loop[k] \in A}
  <1>9. 0 \in S
    BY <1>8
  <1>10. ASSUME NEW k \in Nat, k \in S
         PROVE  k + 1 \in S
    <2> SUFFICES ASSUME k + 1 <= n PROVE loop[k + 1] \in A
      OBVIOUS
    <2>1. k + 1 \in 0..n /\ k + 1 # 0 /\ (k + 1) - 1 = k /\ k <= n
      OBVIOUS
    <2>2. loop[k] \in [R -> V]
      BY <1>10, <2>1
    <2>3. loop[k + 1] = Move(loop[k], moves[k + 1])
      BY <1>8, <2>1
    <2> QED BY <2>2, <2>3, <1>0
  <1>11. S = Nat
    <2> HIDE DEF S
    <2>1. S \in SUBSET Nat
      BY DEF S
    <2> QED BY <1>9, <1>10, <2>1, SetInduction
  <1>12. loop \in [0..n -> A]
    <2>1. loop = [k \in 0..n |-> loop[k]]
      <3>1. loop = [k \in 0..n |-> IF k = 0 THEN f ELSE Move(loop[k - 1], moves[k])]
        BY <1>6, Zenon
      <3> QED BY <3>1
    <2>2. \A k \in 0..n : loop[k] \in A
      BY <1>11
    <2> HIDE DEF A
    <2> QED BY <2>1, <2>2
  <1>13. loop[0] = f
    BY <1>8
  <1>14. \A k \in 1..n : loop[k] = Move(loop[k - 1], moves[k])
    BY <1>8
  <1>15. Course(loop, f, moves)
    BY <1>7, <1>13, <1>14, Zenon DEF Course
  <1> QED BY <1>12, <1>15

\* A loop of moves writes only where it moves to.
Unmoved(f, moves) ==
    \A r \in DOMAIN f : (\A j \in 1..Len(moves) : moves[j][1] # r) => Moved(f, moves)[r] = f[r]

LEMMA MovedElsewhere ==
    ASSUME NEW R, NEW V, 0 \in V, NEW f \in [R -> V], NEW moves, Len(moves) \in Nat
    PROVE  Moved(f, moves) \in [R -> V] /\ Unmoved(f, moves)
  <1> DEFINE n == Len(moves)
  <1>0. PICK after \in [0..n -> [R -> V]] : Course(after, f, moves)
    BY MovedSteps
  <1>1. /\ after[0] = f /\ Moved(f, moves) = after[n]
        /\ \A k \in 1..n : after[k] = Move(after[k - 1], moves[k])
    BY <1>0 DEF Course
  <1> DEFINE S == {k \in Nat : k <= n =>
                     \A r \in R : (\A j \in 1..k : moves[j][1] # r) => after[k][r] = f[r]}
  <1>2. 0 \in S
    BY <1>1
  <1>3. ASSUME NEW k \in Nat, k \in S
        PROVE  k + 1 \in S
    <2> SUFFICES ASSUME k + 1 <= n, NEW r \in R, \A j \in 1..(k + 1) : moves[j][1] # r
                 PROVE  after[k + 1][r] = f[r]
      OBVIOUS
    <2>1. k + 1 \in 1..n /\ (k + 1) - 1 = k /\ k <= n /\ k \in 0..n /\ k + 1 \in 1..(k + 1)
      OBVIOUS
    <2>2. after[k + 1] = Move(after[k], moves[k + 1]) /\ after[k] \in [R -> V]
      BY <1>1, <2>1
    <2>3. moves[k + 1][1] # r
      BY <2>1
    <2>4. after[k + 1][r] = after[k][r]
      BY <2>2, <2>3 DEF Move
    <2>5. \A j \in 1..k : moves[j][1] # r
      OBVIOUS
    <2> QED BY <1>3, <2>1, <2>4, <2>5
  <1>4. S = Nat
    <2> HIDE DEF S
    <2>1. S \in SUBSET Nat
      BY DEF S
    <2> QED BY <1>2, <1>3, <2>1, SetInduction
  <1>5. \A r \in R : (\A j \in 1..n : moves[j][1] # r) => after[n][r] = f[r]
    BY <1>4
  <1>6. DOMAIN f = R
    OBVIOUS
  <1> QED BY <1>1, <1>5, <1>6 DEF Unmoved

\* A loop in which no move reads or writes what one before it wrote moves
\* everything at once.
LEMMA MovedAtOnce ==
    ASSUME NEW R, NEW V, 0 \in V, NEW f \in [R -> V], NEW moves, Len(moves) \in Nat,
           \A k \in 1..Len(moves) : \A j \in 1..(k - 1) :
               moves[k][1] # moves[j][1] /\ moves[k][2] # moves[j][1]
    PROVE  \A j \in 1..Len(moves) : moves[j][1] \in R /\ moves[j][2] \in R =>
               Moved(f, moves)[moves[j][1]] = f[moves[j][2]]
  <1> DEFINE n == Len(moves)
  <1>0. PICK after \in [0..n -> [R -> V]] : Course(after, f, moves)
    BY MovedSteps
  <1>1. /\ after[0] = f /\ Moved(f, moves) = after[n]
        /\ \A k \in 1..n : after[k] = Move(after[k - 1], moves[k])
    BY <1>0 DEF Course
  <1> DEFINE S == {k \in Nat : k <= n =>
                     /\ \A r \in R : (\A j \in 1..k : moves[j][1] # r) => after[k][r] = f[r]
                     /\ \A j \in 1..k : moves[j][1] \in R /\ moves[j][2] \in R =>
                           after[k][moves[j][1]] = f[moves[j][2]]}
  <1>2. 0 \in S
    BY <1>1
  <1>3. ASSUME NEW k \in Nat, k \in S
        PROVE  k + 1 \in S
    <2> SUFFICES ASSUME k + 1 <= n
                 PROVE  /\ \A r \in R : (\A j \in 1..(k + 1) : moves[j][1] # r) =>
                              after[k + 1][r] = f[r]
                        /\ \A j \in 1..(k + 1) : moves[j][1] \in R /\ moves[j][2] \in R =>
                              after[k + 1][moves[j][1]] = f[moves[j][2]]
      OBVIOUS
    <2>1. k + 1 \in 1..n /\ (k + 1) - 1 = k /\ k <= n /\ k \in 0..n /\ k + 1 \in 1..(k + 1)
      OBVIOUS
    <2>2. after[k + 1] = Move(after[k], moves[k + 1]) /\ after[k] \in [R -> V]
      BY <1>1, <2>1
    <2>3. \A r \in R : after[k + 1][r] =
              IF r = moves[k + 1][1]
              THEN IF moves[k + 1][2] \in R THEN after[k][moves[k + 1][2]] ELSE 0
              ELSE after[k][r]
      BY <2>2 DEF Move
    <2>4. \A j \in 1..k : moves[k + 1][1] # moves[j][1] /\ moves[k + 1][2] # moves[j][1]
      BY <2>1
    <2>5. /\ \A r \in R : (\A j \in 1..k : moves[j][1] # r) => after[k][r] = f[r]
          /\ \A j \in 1..k : moves[j][1] \in R /\ moves[j][2] \in R =>
                after[k][moves[j][1]] = f[moves[j][2]]
      BY <1>3, <2>1
    <2>6. \A j \in 1..(k + 1) : j = k + 1 \/ j \in 1..k
      OBVIOUS
    <2>7. \A j \in 1..k : j \in 1..(k + 1)
      OBVIOUS
    <2>8. ASSUME NEW r \in R, \A j \in 1..(k + 1) : moves[j][1] # r
          PROVE  after[k + 1][r] = f[r]
      BY <2>1, <2>3, <2>5, <2>7, <2>8
    <2>9. ASSUME NEW j \in 1..(k + 1), moves[j][1] \in R, moves[j][2] \in R
          PROVE  after[k + 1][moves[j][1]] = f[moves[j][2]]
      <3>1. CASE j = k + 1
        BY <2>3, <2>4, <2>5, <2>9, <3>1
      <3>2. CASE j \in 1..k
        BY <2>3, <2>4, <2>5, <2>9, <3>2
      <3> QED BY <2>6, <3>1, <3>2
    <2> QED BY <2>8, <2>9
  <1>4. S = Nat
    <2> HIDE DEF S
    <2>1. S \in SUBSET Nat
      BY DEF S
    <2> QED BY <1>2, <1>3, <2>1, SetInduction
  <1>5. \A j \in 1..n : moves[j][1] \in R /\ moves[j][2] \in R =>
            after[n][moves[j][1]] = f[moves[j][2]]
    BY <1>4
  <1> QED BY <1>1, <1>5

\* When no move reads or writes what one before it wrote, and that then all are
\* made at once.
Separate(moves) ==
    \A k \in 1..Len(moves) : \A j \in 1..(k - 1) :
        moves[k][1] # moves[j][1] /\ moves[k][2] # moves[j][1]
AtOnce(f, moves) ==
    \A j \in 1..Len(moves) : moves[j][1] \in DOMAIN f /\ moves[j][2] \in DOMAIN f =>
        Moved(f, moves)[moves[j][1]] = f[moves[j][2]]

LEMMA MoveLoop ==
    ASSUME NEW R, NEW V, 0 \in V, NEW f \in [R -> V], NEW moves, Len(moves) \in Nat
    PROVE  /\ Moved(f, moves) \in [R -> V] /\ Unmoved(f, moves)
           /\ Separate(moves) => AtOnce(f, moves)
  <1>1. DOMAIN f = R
    OBVIOUS
  <1>2. Moved(f, moves) \in [R -> V] /\ Unmoved(f, moves)
    BY MovedElsewhere
  <1>3. ASSUME Separate(moves)
        PROVE  AtOnce(f, moves)
    <2>1. \A k \in 1..Len(moves) : \A j \in 1..(k - 1) :
              moves[k][1] # moves[j][1] /\ moves[k][2] # moves[j][1]
      BY <1>3 DEF Separate
    <2>2. \A j \in 1..Len(moves) : moves[j][1] \in R /\ moves[j][2] \in R =>
              Moved(f, moves)[moves[j][1]] = f[moves[j][2]]
      BY <2>1, MovedAtOnce
    <2> QED BY <1>1, <2>2 DEF AtOnce
  <1> QED BY <1>2, <1>3

(***************************************************************************)
(* Bits of a word                                                          *)
(***************************************************************************)

\* A bit of a number, and of the number with a multiple of a higher power added.
LEMMA BitType ==
    ASSUME NEW v \in Nat, NEW j \in Nat
    PROVE  BitOf(v, j) \in {0, 1}
  <1>1. Pow2[j] \in Nat \ {0}
    BY Pow2Def
  <1>2. v \div Pow2[j] \in Int
    BY <1>1, DivMod
  <1>3. \A x \in Int : x % 2 \in {0, 1}
    OBVIOUS
  <1> QED BY <1>2, <1>3 DEF BitOf

LEMMA BitHigh ==
    ASSUME NEW v \in Nat, NEW c \in Nat, NEW j \in Nat, NEW n \in Nat, j < n
    PROVE  BitOf(v + Pow2[n] * c, j) = BitOf(v, j)
  <1>1. n - j - 1 \in Nat /\ j + 1 \in Nat /\ (j + 1) + (n - j - 1) = n
    OBVIOUS
  <1>2. Pow2[n] = Pow2[j + 1] * Pow2[n - j - 1] /\ Pow2[j + 1] = 2 * Pow2[j]
    <2>1. Pow2[(j + 1) + (n - j - 1)] = Pow2[j + 1] * Pow2[n - j - 1]
      BY <1>1, Pow2Sum, Zenon
    <2>2. Pow2[j + 1] = 2 * Pow2[j]
      BY Pow2Def
    <2> QED BY <2>1, <2>2, <1>1, Zenon
  <1>3. Pow2[j] \in Nat \ {0} /\ Pow2[n - j - 1] \in Nat
    BY <1>1, Pow2Def
  <1> DEFINE e == Pow2[n - j - 1] * c
  <1>4. e \in Nat /\ 2 * e \in Nat
    <2>1. \A x, y \in Nat : x * y \in Nat /\ 2 * (x * y) \in Nat
      OBVIOUS
    <2> QED BY <1>3, <2>1
  <1>5. Pow2[n] * c = Pow2[j] * (2 * e)
    <2>1. \A a, b, z \in Nat : ((2 * a) * b) * z = a * (2 * (b * z))
      OBVIOUS
    <2> QED BY <1>2, <1>3, <2>1
  <1> HIDE DEF e
  <1>6. (v + Pow2[j] * (2 * e)) \div Pow2[j] = (v \div Pow2[j]) + 2 * e
    <2>1. v \in Int /\ 2 * e \in Int
      BY <1>4
    <2> QED BY <1>3, <2>1, DivAdd, Zenon
  <1>7. v \div Pow2[j] \in Int
    BY <1>3, DivMod
  <1>8. \A x \in Int : (x + 2 * e) % 2 = x % 2
    BY <1>4
  <1> QED BY <1>5, <1>6, <1>7, <1>8 DEF BitOf

\* The bits of what is below a power, at that power and above it.
LEMMA BitTop ==
    ASSUME NEW v \in Nat, NEW n \in Nat, v < Pow2[n]
    PROVE  /\ BitOf(v + Pow2[n], n) = 1
           /\ \A j \in Nat : j >= n => BitOf(v, j) = 0
  <1>1. Pow2[n] \in Nat \ {0}
    BY Pow2Def
  <1>2. (v + Pow2[n]) \div Pow2[n] = 1
    <2>1. v + Pow2[n] = Pow2[n] * 1 + v /\ v + Pow2[n] \in Int
      BY <1>1
    <2> QED BY <1>1, <2>1, DivUnique
  <1>3. ASSUME NEW j \in Nat, j >= n
        PROVE  BitOf(v, j) = 0
    <2>1. Pow2[j] = Pow2[n] * Pow2[j - n] /\ j - n \in Nat
      <3>1. j - n \in Nat /\ n + (j - n) = j
        BY <1>3
      <3> QED BY <3>1, Pow2Sum
    <2>2. Pow2[j] \in Nat \ {0} /\ Pow2[j - n] \in Nat \ {0}
      BY <2>1, Pow2Def
    <2>3. \A x, y \in Nat \ {0} : x <= x * y
      OBVIOUS
    <2>4. v < Pow2[j]
      BY <1>1, <2>1, <2>2, <2>3
    <2>5. v = Pow2[j] * 0 + v
      BY <2>2
    <2>6. v \div Pow2[j] = 0
      BY <2>2, <2>4, <2>5, DivUnique
    <2> QED BY <2>6 DEF BitOf
  <1>4. BitOf(v + Pow2[n], n) = 1
    BY <1>2 DEF BitOf
  <1> QED BY <1>3, <1>4

\* For every set of bits there is a word with those bits on.
LEMMA WordExists ==
    ASSUME NEW B \in SUBSET (0..(WIDTH - 1))
    PROVE  \E v \in 0..(WORD - 1) : Bits(v) = B
  <1> DEFINE On(v, n) == {j \in 0..(n - 1) : BitOf(v, j) = 1}
             S == {n \in Nat : \A C \in SUBSET (0..(n - 1)) :
                                  \E v \in Nat : v < Pow2[n] /\ On(v, n) = C}
  <1>1. 0 \in S
    <2>1. 0 < Pow2[0]
      BY Pow2Def
    <2>2. \A C \in SUBSET (0..(0 - 1)) : On(0, 0) = C
      OBVIOUS
    <2> HIDE DEF On
    <2> QED BY <2>1, <2>2
  <1>2. ASSUME NEW n \in Nat, n \in S
        PROVE  n + 1 \in S
    <2> SUFFICES ASSUME NEW C \in SUBSET (0..((n + 1) - 1))
                 PROVE  \E v \in Nat : v < Pow2[n + 1] /\ On(v, n + 1) = C
      OBVIOUS
    <2>1. PICK v \in Nat : v < Pow2[n] /\ On(v, n) = C \ {n}
      <3>1. C \ {n} \in SUBSET (0..(n - 1))
        OBVIOUS
      <3> HIDE DEF On
      <3> QED BY <1>2, <3>1
    <2>2. Pow2[n] \in Nat /\ Pow2[n + 1] = 2 * Pow2[n]
      BY Pow2Def
    <2> DEFINE c == IF n \in C THEN 1 ELSE 0
               u == v + Pow2[n] * c
    <2>3. c \in {0, 1} /\ u = IF n \in C THEN v + Pow2[n] ELSE v
      BY <2>2
    <2>4. u \in Nat /\ u < Pow2[n + 1]
      BY <2>1, <2>2, <2>3
    <2>5. \A j \in 0..(n - 1) : BitOf(u, j) = BitOf(v, j)
      <3>1. c \in Nat
        OBVIOUS
      <3> HIDE DEF c
      <3> QED BY <3>1, BitHigh
    <2>6. BitOf(u, n) = c
      BY <2>1, <2>3, BitTop
    <2> HIDE DEF u
    <2>7. \A j \in 0..((n + 1) - 1) : BitOf(u, j) = 1 <=> j \in C
      <3> SUFFICES ASSUME NEW j \in 0..((n + 1) - 1) PROVE BitOf(u, j) = 1 <=> j \in C
        OBVIOUS
      <3>1. CASE j = n
        BY <2>6, <3>1
      <3>2. CASE j \in 0..(n - 1)
        BY <2>1, <2>5, <3>2
      <3> QED BY <3>1, <3>2
    <2>8. On(u, n + 1) = C
      BY <2>7
    <2> HIDE DEF On
    <2> QED BY <2>4, <2>8
  <1>3. S = Nat
    <2> HIDE DEF S
    <2>1. S \in SUBSET Nat
      BY DEF S
    <2> QED BY <1>1, <1>2, <2>1, SetInduction
  <1>4. WIDTH \in Nat
    BY AppliedAssumption
  <1>5. PICK v \in Nat : v < Pow2[WIDTH] /\ On(v, WIDTH) = B
    <2>1. WIDTH \in S /\ B \in SUBSET (0..(WIDTH - 1))
      BY <1>3, <1>4
    <2> HIDE DEF On
    <2> QED BY <2>1
  <1>6. v \in 0..(WORD - 1)
    BY <1>5, WordSize DEF WORD
  <1> QED BY <1>5, <1>6 DEF Bits

\* The word of a set of bits has those bits on.
LEMMA WordOfBits ==
    ASSUME NEW B \in SUBSET (0..(WIDTH - 1))
    PROVE  WordOf(B) \in 0..(WORD - 1) /\ Bits(WordOf(B)) = B
  BY WordExists DEF WordOf

(***************************************************************************)
(* Registers and operands                                                  *)
(***************************************************************************)

RegFile == [Registers -> 0..(WORD - 1)]

\* The remainder by the size of a word is a word, and a word is its own.
LEMMA ModWord ==
    ASSUME NEW v \in Int
    PROVE  v % WORD \in 0..(WORD - 1) /\ (v \in 0..(WORD - 1) => v % WORD = v)
  <1>1. WORD \in Nat \ {0}
    BY WordSize
  <1>2. v % WORD \in 0..(WORD - 1)
    BY <1>1, DivMod
  <1>3. ASSUME v \in 0..(WORD - 1)
        PROVE  v % WORD = v
    <2>1. v = WORD * 0 + v /\ 0 <= v /\ v < WORD
      BY <1>1, <1>3
    <2> QED BY <1>1, <2>1, DivUnique
  <1> QED BY <1>2, <1>3

\* plc_set_d writes one register, and the word it holds then.
LEMMA SetReg ==
    ASSUME NEW regs \in RegFile, NEW r, NEW v \in Int
    PROVE  /\ set_d(regs, r, v) \in RegFile
           /\ \A x \in Registers : set_d(regs, r, v)[x] = IF x = r THEN v % WORD ELSE regs[x]
  <1>1. v % WORD \in 0..(WORD - 1)
    BY ModWord
  <1> QED BY <1>1 DEF set_d, RegFile

\* plc_set_d32 writes a pair of them.
LEMMA SetPair ==
    ASSUME NEW regs \in RegFile, NEW r \in Int, NEW v \in Int
    PROVE  /\ set_d32(regs, r, v) \in RegFile
           /\ \A x \in Registers : set_d32(regs, r, v)[x] =
                 IF x = r THEN v % WORD ELSE IF x = r + 1 THEN (v \div WORD) % WORD ELSE regs[x]
  <1>1. WORD \in Nat \ {0}
    BY WordSize
  <1>2. v \div WORD \in Int
    BY <1>1, DivMod
  <1>3. /\ set_d(regs, r, v) \in RegFile
        /\ \A x \in Registers : set_d(regs, r, v)[x] = IF x = r THEN v % WORD ELSE regs[x]
    BY SetReg
  <1> DEFINE low == set_d(regs, r, v)
  <1> HIDE DEF low
  <1>4. /\ set_d(low, r + 1, v \div WORD) \in RegFile
        /\ \A x \in Registers : set_d(low, r + 1, v \div WORD)[x] =
              IF x = r + 1 THEN (v \div WORD) % WORD ELSE low[x]
    <2>1. low \in RegFile
      BY <1>3 DEF low
    <2> QED BY <2>1, <1>2, SetReg
  <1>5. set_d32(regs, r, v) = set_d(low, r + 1, v \div WORD)
    BY DEF set_d32, low
  <1>6. \A x \in Registers : low[x] = IF x = r THEN v % WORD ELSE regs[x]
    BY <1>3 DEF low
  <1>7. r # r + 1
    OBVIOUS
  <1> QED BY <1>4, <1>5, <1>6, <1>7

\* An operand is a word; a word read as signed.
LEMMA ValueType ==
    ASSUME d \in RegFile, NEW o \in WordOperand
    PROVE  Value(o) \in 0..(WORD - 1) /\ Value(o) \in Nat
  <1>1. 0 \in 0..(WORD - 1)
    BY WordSize
  <1>2. \/ o[1] = "K" /\ o[2] \in 0..(WORD - 1)
        \/ o[1] = "D"
    BY DEF WordOperand
  <1>3. Value(o) \in 0..(WORD - 1)
    BY <1>1, <1>2 DEF Value, get_d, RegFile
  <1> QED BY <1>3, WordSize

LEMMA SignedType ==
    ASSUME NEW v \in 0..(WORD - 1)
    PROVE  /\ Signed(v) \in Int /\ -(WORD \div 2) <= Signed(v) /\ Signed(v) < WORD \div 2
           /\ Signed(v) = 0 => v = 0
           /\ Signed(v) = v \/ Signed(v) = v - WORD
  BY WordSize DEF Signed

\* Signed division rounds to zero: the remainder is smaller than the divisor
\* and has the sign of the dividend.
LEMMA Division ==
    ASSUME NEW a \in Int, NEW b \in Int, b # 0
    PROVE  /\ quotient(a, b) \in Int /\ remainder(a, b) \in Int
           /\ a = b * quotient(a, b) + remainder(a, b)
           /\ Magnitude(remainder(a, b)) < Magnitude(b)
           /\ remainder(a, b) = 0 \/ (remainder(a, b) < 0 <=> a < 0)
           /\ Magnitude(quotient(a, b)) <= Magnitude(a)
  <1> DEFINE A == Magnitude(a)
             B == Magnitude(b)
             Q == A \div B
             R == A % B
  <1>1. A \in Nat /\ B \in Nat \ {0}
    BY DEF Magnitude
  <1> HIDE DEF A, B
  <1>2. Q \in Nat /\ R \in Int /\ 0 <= R /\ R < B /\ A = B * Q + R
    BY <1>1, DivMod
  <1> HIDE DEF Q, R
  <1>3. quotient(a, b) = IF a < 0 <=> b < 0 THEN Q ELSE -Q
    BY DEF quotient, Q, A, B, Magnitude
  <1>4. b * Q = (IF b < 0 THEN -(B * Q) ELSE B * Q) /\ b * (-Q) = -(b * Q) /\ B * Q \in Nat
    <2>1. B = IF b < 0 THEN -b ELSE b
      BY DEF B, Magnitude
    <2>2. \A x, y \in Nat : x * y \in Nat
      OBVIOUS
    <2>3. B * Q \in Nat
      BY <1>1, <1>2, <2>2
    <2>4. (-b) * Q = -(b * Q) /\ b * (-Q) = -(b * Q) /\ b * Q \in Int
      BY <1>2
    <2> QED BY <2>1, <2>3, <2>4
  <1>5. remainder(a, b) = IF a < 0 THEN -R ELSE R
    <2>1. A = IF a < 0 THEN -a ELSE a
      BY DEF A, Magnitude
    <2>2. b * Q \in Int
      BY <1>2
    <2> QED BY <1>2, <1>3, <1>4, <2>1, <2>2 DEF remainder
  <1>6. b * quotient(a, b) \in Int
    BY <1>2, <1>3
  <1>7. Q <= A
    <2>1. \A x \in Nat \ {0} : \A y \in Nat : y <= x * y
      OBVIOUS
    <2>2. Q <= B * Q
      BY <1>1, <1>2, <2>1
    <2> QED BY <1>2, <1>4, <2>2
  <1>8. remainder(a, b) = a - b * quotient(a, b)
    BY DEF remainder
  <1>9. A = Magnitude(a) /\ B = Magnitude(b)
    BY DEF A, B
  <1> QED BY <1>2, <1>3, <1>5, <1>6, <1>7, <1>8, <1>9 DEF Magnitude

(***************************************************************************)
(* What the word instructions do                                           *)
(***************************************************************************)

\* BMOV acts as if all words moved at once, however source and destination
\* overlap.
LEMMA BlockMove ==
    ASSUME d \in RegFile, NEW a \in Nat, NEW t \in Nat, NEW n \in Nat,
           a + n <= PLC_NUM_D, t + n <= PLC_NUM_D
    PROVE  /\ BMOV(a, t, n) \in RegFile
           /\ BMOV(a, t, n) = [r \in Registers |-> IF r \in t..(t + n - 1) THEN d[a + r - t] ELSE d[r]]
  <1> DEFINE order == copy_order(a, t, n)
             moves == [j \in 1..n |-> <<t + order[j], a + order[j]>>]
             M == Moved(d, moves)
  <1>0. 0 \in 0..(WORD - 1) /\ PLC_NUM_D \in Nat
    BY WordSize
  <1>1. Len(moves) = n
    OBVIOUS
  <1>2. order = (IF t > a /\ t < a + n THEN [j \in 1..n |-> n - j] ELSE [j \in 1..n |-> j - 1])
    BY DEF copy_order, Up, Down
  <1>3. \A j \in 1..n : order[j] = IF t > a /\ t < a + n THEN n - j ELSE j - 1
    BY <1>2
  <1>4. \A j \in 1..n : moves[j][1] = t + order[j] /\ moves[j][2] = a + order[j]
    OBVIOUS
  <1> HIDE DEF order, moves
  <1>5. Separate(moves)
    <2> SUFFICES ASSUME NEW k \in 1..n, NEW j \in 1..(k - 1)
                 PROVE  moves[k][1] # moves[j][1] /\ moves[k][2] # moves[j][1]
      BY <1>1 DEF Separate
    <2>1. j \in 1..n /\ j < k
      OBVIOUS
    <2>2. CASE t > a /\ t < a + n
      BY <2>1, <2>2, <1>3, <1>4
    <2>3. CASE ~(t > a /\ t < a + n)
      BY <2>1, <2>3, <1>3, <1>4
    <2> QED BY <2>2, <2>3
  <1>6. Moved(d, moves) \in RegFile /\ Unmoved(d, moves) /\ AtOnce(d, moves)
    BY <1>0, <1>1, <1>5, MoveLoop DEF RegFile
  <1>7. DOMAIN d = Registers
    BY DEF RegFile
  <1> HIDE DEF M
  <1>8. ASSUME NEW r \in Registers, r \in t..(t + n - 1)
        PROVE  M[r] = d[a + r - t]
    <2>1. r - t \in 0..(n - 1) /\ a + (r - t) = a + r - t /\ t + (r - t) = r
      BY <1>8
    <2>2. a + r - t \in Registers
      BY <2>1, <1>0 DEF Registers
    <2>3. PICK j \in 1..n : order[j] = r - t
      <3>1. CASE t > a /\ t < a + n
        <4>1. n - (r - t) \in 1..n /\ n - (n - (r - t)) = r - t
          BY <2>1
        <4> QED BY <3>1, <4>1, <1>3
      <3>2. CASE ~(t > a /\ t < a + n)
        <4>1. (r - t) + 1 \in 1..n /\ ((r - t) + 1) - 1 = r - t
          BY <2>1
        <4> QED BY <3>2, <4>1, <1>3
      <3> QED BY <3>1, <3>2
    <2>4. moves[j][1] = r /\ moves[j][2] = a + r - t
      BY <2>1, <2>3, <1>4
    <2> QED BY <2>2, <2>4, <1>1, <1>6, <1>7 DEF AtOnce, M
  <1>9. ASSUME NEW r \in Registers, r \notin t..(t + n - 1)
        PROVE  M[r] = d[r]
    <2>1. \A j \in 1..n : order[j] \in 0..(n - 1)
      BY <1>3
    <2>2. \A j \in 1..n : moves[j][1] # r
      BY <2>1, <1>4, <1>9
    <2> QED BY <2>2, <1>1, <1>6, <1>7 DEF Unmoved, M
  <1>10. M = [r \in Registers |-> M[r]]
    BY <1>6 DEF RegFile, M
  <1>11. BMOV(a, t, n) = M
    BY DEF BMOV, M, moves, order
  <1>12. M \in RegFile
    BY <1>6 DEF M
  <1> QED BY <1>8, <1>9, <1>10, <1>11, <1>12

\* The greatest element of a set of naturals below a bound.
LEMMA MaxBelow ==
    ASSUME NEW N \in Nat, NEW T \in SUBSET (0..N), T # {}
    PROVE  Max(T) \in T /\ \A x \in T : x <= Max(T)
  <1> DEFINE U == {N - x : x \in T}
  <1>0. \A x \in T : x \in Int /\ N - x \in Nat
    <2>1. \A x \in 0..N : x \in Int /\ N - x \in Nat
      OBVIOUS
    <2> QED BY <2>1
  <1>1. U \in SUBSET Nat /\ U # {}
    BY <1>0
  <1>2. PICK u \in U : \A v \in U : u <= v
    <2> HIDE DEF U
    <2> QED BY <1>1, LeastNat
  <1>3. PICK m \in T : u = N - m
    BY <1>2
  <1>4. \A x \in T : N - x \in U
    OBVIOUS
  <1>5. \A x \in T : m >= x
    <2> SUFFICES ASSUME NEW x \in T PROVE m >= x
      OBVIOUS
    <2>1. u <= N - x
      <3>1. N - x \in U
        BY <1>4
      <3> HIDE DEF U
      <3> QED BY <1>2, <3>1
    <2> QED BY <2>1, <1>0, <1>3
  <1>6. Max(T) \in T /\ \A x \in T : Max(T) >= x
    BY <1>3, <1>5 DEF Max
  <1>7. \A x, y \in 0..N : x >= y => y <= x
    OBVIOUS
  <1> QED BY <1>6, <1>7

\* What an instruction makes of the registers: words, and the ones it names.
Within(g, A) == g \in RegFile /\ \A r \in Registers : g[r] # d[r] => r \in A

LEMMA OneWithin ==
    ASSUME d \in RegFile, NEW t, NEW v \in Int
    PROVE  Within(set_d(d, t, v), {t})
  BY SetReg DEF Within

LEMMA PairWithin ==
    ASSUME d \in RegFile, NEW t \in Int, NEW v \in Int
    PROVE  Within(set_d32(d, t, v), {t, t + 1})
  BY SetPair DEF Within

LEMMA Widen ==
    ASSUME NEW g, NEW A, NEW B, Within(g, A), A \subseteq B
    PROVE  Within(g, B)
  BY DEF Within

\* The rest of the words written: the logical instructions and the rotations.
LEMMA LogicType ==
    ASSUME NEW a, NEW b
    PROVE  /\ WAND(a, b) \in 0..(WORD - 1) /\ Bits(WAND(a, b)) = Bits(a) \cap Bits(b)
           /\ WOR(a, b) \in 0..(WORD - 1) /\ Bits(WOR(a, b)) = Bits(a) \cup Bits(b)
           /\ WXOR(a, b) \in 0..(WORD - 1)
           /\ Bits(WXOR(a, b)) = (Bits(a) \cup Bits(b)) \ (Bits(a) \cap Bits(b))
  <1>1. Bits(a) \in SUBSET (0..(WIDTH - 1)) /\ Bits(b) \in SUBSET (0..(WIDTH - 1))
    BY DEF Bits
  <1> DEFINE X == Bits(a)
             Y == Bits(b)
  <1>2. X \cap Y \in SUBSET (0..(WIDTH - 1)) /\ X \cup Y \in SUBSET (0..(WIDTH - 1))
        /\ (X \cup Y) \ (X \cap Y) \in SUBSET (0..(WIDTH - 1))
    <2> HIDE DEF X, Y
    <2>1. X \in SUBSET (0..(WIDTH - 1)) /\ Y \in SUBSET (0..(WIDTH - 1))
      BY <1>1 DEF X, Y
    <2> QED BY <2>1
  <1>3. /\ WordOf(X \cap Y) \in 0..(WORD - 1) /\ Bits(WordOf(X \cap Y)) = X \cap Y
        /\ WordOf(X \cup Y) \in 0..(WORD - 1) /\ Bits(WordOf(X \cup Y)) = X \cup Y
        /\ WordOf((X \cup Y) \ (X \cap Y)) \in 0..(WORD - 1)
        /\ Bits(WordOf((X \cup Y) \ (X \cap Y))) = (X \cup Y) \ (X \cap Y)
    <2> HIDE DEF X, Y
    <2> QED BY <1>2, WordOfBits
  <1> QED BY <1>3 DEF WAND, WOR, WXOR

\* SFWR: the pointer and one word after it.
LEMMA PutWithin ==
    ASSUME d \in RegFile, NEW v \in Int, NEW t \in Registers, NEW n \in Nat, n >= 2
    PROVE  Within(SFWR(v, t, n), t..(t + n - 1))
  <1>1. d[t] \in 0..(WORD - 1) /\ d[t] \in Nat /\ t \in Nat
    BY WordSize DEF RegFile, Registers
  <1>2. CASE d[t] >= n - 1
    BY <1>2 DEF SFWR, Within
  <1>3. CASE d[t] < n - 1
    <2> DEFINE g == set_d(d, t, d[t] + 1)
               h == set_d(g, t + d[t] + 1, v)
    <2>1. d[t] + 1 \in Int
      BY <1>1
    <2>2. g \in RegFile /\ \A x \in Registers : g[x] = IF x = t THEN (d[t] + 1) % WORD ELSE d[x]
      BY <2>1, SetReg
    <2> HIDE DEF g
    <2>3. h \in RegFile /\ \A x \in Registers : h[x] = IF x = t + d[t] + 1 THEN v % WORD ELSE g[x]
      BY <2>2, SetReg
    <2>4. SFWR(v, t, n) = h
      BY <1>1, <1>3 DEF SFWR, g
    <2> HIDE DEF h
    <2>5. t \in t..(t + n - 1) /\ t + d[t] + 1 \in t..(t + n - 1)
      BY <1>1, <1>3
    <2> QED BY <2>2, <2>3, <2>4, <2>5 DEF Within
  <1> QED BY <1>1, <1>2, <1>3

\* SFRD: the pointer, the words it counts, and the register read into.
LEMMA TakeEffect ==
    ASSUME d \in RegFile, NEW a \in Registers, NEW t \in Registers, NEW n \in Nat
    PROVE  /\ SFRD(a, t, n) \in RegFile
           /\ d[a] < n /\ a + n <= PLC_NUM_D => Within(SFRD(a, t, n), {t} \cup a..(a + n - 1))
  <1>0. /\ d[a] \in 0..(WORD - 1) /\ d[a] \in Nat /\ a \in Nat /\ 0 \in 0..(WORD - 1)
        /\ PLC_NUM_D \in Nat /\ PLC_NUM_D < WORD
    BY WordSize DEF RegFile, Registers
  <1>1. CASE d[a] = 0
    BY <1>1 DEF SFRD, Within
  <1>2. CASE d[a] # 0
    <2> DEFINE v == get_d(d, a + 1)
               f == set_d(d, t, v)
               moves == [j \in 1..(d[a] - 1) |-> <<(a + j) % WORD, (a + j + 1) % WORD>>]
               g == Moved(f, moves)
               h == set_d(g, a, d[a] - 1)
    <2>1. v \in Int
      BY WordSize DEF get_d, RegFile
    <2>2. f \in RegFile /\ \A x \in Registers : f[x] = IF x = t THEN v % WORD ELSE d[x]
      BY <2>1, SetReg
    <2>3. Len(moves) = d[a] - 1 /\ d[a] - 1 \in Nat
      BY <1>0, <1>2
    <2>4. \A j \in 1..(d[a] - 1) : moves[j][1] = (a + j) % WORD
      OBVIOUS
    <2>5. SFRD(a, t, n) = h
      BY <1>2 DEF SFRD
    <2> HIDE DEF f, moves
    <2>6. g \in [Registers -> 0..(WORD - 1)] /\ Unmoved(f, moves)
      BY <1>0, <2>2, <2>3, MoveLoop DEF RegFile
    <2>7. \A r \in Registers : (\A j \in 1..(d[a] - 1) : moves[j][1] # r) => g[r] = f[r]
      <3>1. DOMAIN f = Registers
        BY <2>2 DEF RegFile
      <3> QED BY <3>1, <2>3, <2>6 DEF Unmoved
    <2>8. g \in RegFile
      BY <2>6 DEF RegFile
    <2> HIDE DEF g
    <2>9. d[a] - 1 \in Int
      BY <1>0
    <2>10. h \in RegFile /\ \A x \in Registers : h[x] = IF x = a THEN (d[a] - 1) % WORD ELSE g[x]
      BY <2>8, <2>9, SetReg
    <2> HIDE DEF h
    <2>11. ASSUME d[a] < n, a + n <= PLC_NUM_D, NEW r \in Registers, h[r] # d[r]
           PROVE  r \in {t} \cup a..(a + n - 1)
      <3> SUFFICES ASSUME r # t, r # a PROVE r \in a..(a + n - 1)
        BY <1>0, <2>11
      <3>1. h[r] = g[r] /\ f[r] = d[r]
        BY <2>2, <2>10
      <3>2. PICK j \in 1..(d[a] - 1) : moves[j][1] = r
        BY <2>7, <2>11, <3>1
      <3>3. a + j \in 0..(WORD - 1) /\ a + j \in Int /\ a + j < a + n
        <4>1. j \in Nat /\ j < d[a]
          BY <1>0
        <4>2. WORD \in Nat
          BY WordSize
        <4> QED BY <1>0, <2>11, <4>1, <4>2
      <3>4. r = a + j
        BY <2>4, <3>2, <3>3, ModWord
      <3> QED BY <1>0, <3>3, <3>4
    <2> QED BY <2>5, <2>10, <2>11 DEF Within
  <1> QED BY <1>1, <1>2

LEMMA PairType ==
    ASSUME d \in RegFile, NEW o \in WordOperand \X WordOperand
    PROVE  Pair(o) \in Nat /\ Pair(o) < WORD * WORD
  <1>1. o[1] \in WordOperand /\ o[2] \in WordOperand
    OBVIOUS
  <1>2. /\ Value(o[1]) \in Nat /\ Value(o[1]) < WORD
        /\ Value(o[2]) \in Nat /\ Value(o[2]) + 1 <= WORD /\ WORD \in Nat
    BY <1>1, ValueType, WordSize
  <1>3. \A x, y \in Nat : x < WORD /\ y + 1 <= WORD => x + WORD * y \in Nat /\ x + WORD * y < WORD * WORD
    <2> SUFFICES ASSUME NEW x \in Nat, NEW y \in Nat, x < WORD, y + 1 <= WORD
                 PROVE  x + WORD * y \in Nat /\ x + WORD * y < WORD * WORD
      OBVIOUS
    <2>1. WORD * y \in Nat /\ WORD * (WORD - 1 - y) \in Nat
      <3>1. \A u, v \in Nat : u * v \in Nat
        OBVIOUS
      <3>2. WORD - 1 - y \in Nat /\ WORD \in Nat
        BY <1>2
      <3> QED BY <3>1, <3>2
    <2>2. WORD * (WORD - 1 - y) = WORD * WORD - WORD - WORD * y /\ WORD * WORD \in Nat
      BY <1>2
    <2> QED BY <1>2, <2>1, <2>2
  <1> QED BY <1>2, <1>3 DEF Pair

\* An operand of the decoding, by instruction.
LEMMA Operands ==
    ASSUME d \in RegFile, NEW i, Decoded(i), i.op \in WordOps \cup BitOps
    PROVE  /\ i.op \in WordOps => i.t \in Registers
           /\ i.op \in BitOps => i.t \in BitNumbers
           /\ i.op \in {"BMOV", "SFRD"} => i.a \in Registers
           /\ i.op \in MathOps \cup {"FMOV", "SFWR"} => Value(i.s) \in 0..(WORD - 1)
           /\ i.op \in MathOps => Value(i.s2) \in 0..(WORD - 1)
           /\ i.op \in {"DMOV", "DDIV_TIME"} => Pair(i.s) \in Nat
           /\ i.op = "DDIV_TIME" => Pair(i.s2) \in Nat
           /\ i.op \notin MathOps \cup {"NEG", "DMOV", "DDIV_TIME"} =>
                 LengthOf(i) \in Nat /\ LengthOf(i) < WORD
           /\ i.op \in {"SFTR", "SFTL"} => Value(i.k) \in Nat
  <1>1. \A o \in WordOperand : Value(o) \in 0..(WORD - 1) /\ Value(o) \in Nat
    BY ValueType
  <1>2. \A o \in WordOperand \X WordOperand : Pair(o) \in Nat
    BY PairType
  <1>3. i.op \notin MathOps \cup {"NEG", "DMOV", "DDIV_TIME"} => i.n \in WordOperand
    BY DEF Decoded
  <1>4. i.op \notin MathOps \cup {"NEG", "DMOV", "DDIV_TIME"} =>
            LengthOf(i) \in Nat /\ LengthOf(i) < WORD
    BY <1>1, <1>3, WordSize DEF LengthOf
  <1> QED BY <1>1, <1>2, <1>4 DEF Decoded

\* DIV: quotient and remainder.
LEMMA DivEffect ==
    ASSUME d \in RegFile, NEW u \in 0..(WORD - 1), NEW v \in 0..(WORD - 1), v # 0, NEW t \in Int
    PROVE  /\ DIV(u, v, t) \in RegFile
           /\ quotient(Signed(u), Signed(v)) \in Int /\ remainder(Signed(u), Signed(v)) \in Int
           /\ \A x \in Registers : DIV(u, v, t)[x] =
                 IF x = t THEN quotient(Signed(u), Signed(v)) % WORD
                 ELSE IF x = t + 1 THEN remainder(Signed(u), Signed(v)) % WORD
                 ELSE d[x]
  <1> DEFINE q == quotient(Signed(u), Signed(v))
             r == remainder(Signed(u), Signed(v))
             low == set_d(d, t, q)
             high == set_d(low, t + 1, r)
  <1>1. Signed(u) \in Int /\ Signed(v) \in Int /\ Signed(v) # 0
    BY SignedType
  <1>2. q \in Int /\ r \in Int
    BY <1>1, Division
  <1>3. DIV(u, v, t) = high
    BY DEF DIV
  <1> HIDE DEF q, r
  <1>4. low \in RegFile /\ \A x \in Registers : low[x] = IF x = t THEN q % WORD ELSE d[x]
    BY <1>2, SetReg
  <1> HIDE DEF low
  <1>5. high \in RegFile /\ \A x \in Registers : high[x] = IF x = t + 1 THEN r % WORD ELSE low[x]
    BY <1>2, <1>4, SetReg
  <1> HIDE DEF high
  <1>6. \A x \in Registers : high[x] = IF x = t THEN q % WORD ELSE IF x = t + 1 THEN r % WORD ELSE d[x]
    BY <1>4, <1>5
  <1> QED BY <1>2, <1>3, <1>5, <1>6 DEF q, r

\* DDIV: the same in pairs of registers.
TimeWritten(h, q, m, t) ==
    \A r \in Registers : h[r] =
        IF r = t THEN q % WORD
        ELSE IF r = t + 1 THEN (q \div WORD) % WORD
        ELSE IF r = t + 2 THEN m % WORD
        ELSE IF r = t + 3 THEN (m \div WORD) % WORD
        ELSE d[r]

LEMMA TimeEffect ==
    ASSUME d \in RegFile, NEW x \in Nat, NEW y \in Nat \ {0}, NEW t \in Int
    PROVE  /\ Within(DDIV_TIME(x, y, t), t..(t + 3))
           /\ x \div y \in Nat /\ x % y \in 0..(y - 1)
           /\ TimeWritten(DDIV_TIME(x, y, t), x \div y, x % y, t)
  <1> DEFINE q == x \div y
             m == x % y
             low == set_d32(d, t, q)
             high == set_d32(low, t + 2, m)
  <1>1. q \in Nat /\ m \in 0..(y - 1)
    <2>1. x \in Int /\ x >= 0
      OBVIOUS
    <2>2. /\ x \div y \in Int /\ x % y \in 0..(y - 1)
          /\ x >= 0 => x \div y \in Nat
      BY <2>1, DivMod
    <2> QED BY <2>1, <2>2
  <1>2. DDIV_TIME(x, y, t) = high
    BY DEF DDIV_TIME
  <1> HIDE DEF q, m
  <1>3. q \in Int /\ m \in Int /\ t + 2 \in Int
    BY <1>1
  <1>4. /\ low \in RegFile
        /\ \A r \in Registers : low[r] =
              IF r = t THEN q % WORD ELSE IF r = t + 1 THEN (q \div WORD) % WORD ELSE d[r]
    BY <1>3, SetPair
  <1> HIDE DEF low
  <1>5. /\ high \in RegFile
        /\ \A r \in Registers : high[r] =
              IF r = t + 2 THEN m % WORD ELSE IF r = (t + 2) + 1 THEN (m \div WORD) % WORD ELSE low[r]
    BY <1>3, <1>4, SetPair
  <1> HIDE DEF high
  <1>6. (t + 2) + 1 = t + 3 /\ t # t + 2 /\ t # t + 3 /\ t + 1 # t + 2 /\ t + 1 # t + 3
    OBVIOUS
  <1>7. TimeWritten(high, q, m, t)
    BY <1>4, <1>5, <1>6 DEF TimeWritten
  <1>8. \A r \in Registers : r \notin t..(t + 3) => high[r] = d[r]
    <2>1. \A r \in Registers : r \notin t..(t + 3) => r # t /\ r # t + 1 /\ r # t + 2 /\ r # t + 3
      OBVIOUS
    <2> QED BY <1>7, <2>1 DEF TimeWritten
  <1>9. Within(high, t..(t + 3))
    BY <1>5, <1>8 DEF Within
  <1> QED BY <1>1, <1>2, <1>7, <1>9 DEF q, m

\* MUL: the product, in two's complement of a pair.
LEMMA MulEffect ==
    ASSUME d \in RegFile, NEW u \in 0..(WORD - 1), NEW v \in 0..(WORD - 1), NEW t \in Int
    PROVE  /\ MUL(u, v, t) \in RegFile
           /\ (Signed(u) * Signed(v)) % (WORD * WORD) \in 0..(WORD * WORD - 1)
           /\ \A x \in Registers : MUL(u, v, t)[x] =
                 IF x = t THEN ((Signed(u) * Signed(v)) % (WORD * WORD)) % WORD
                 ELSE IF x = t + 1 THEN (((Signed(u) * Signed(v)) % (WORD * WORD)) \div WORD) % WORD
                 ELSE d[x]
  <1> DEFINE p == (Signed(u) * Signed(v)) % (WORD * WORD)
  <1>1. Signed(u) \in Int /\ Signed(v) \in Int
    BY SignedType
  <1>2. Signed(u) * Signed(v) \in Int
    <2>1. \A x, y \in Int : x * y \in Int
      OBVIOUS
    <2> QED BY <1>1, <2>1
  <1>3. WORD * WORD \in Nat \ {0}
    <2>1. \A x \in Nat \ {0} : x * x \in Nat \ {0}
      OBVIOUS
    <2> QED BY <2>1, WordSize
  <1>4. p \in 0..(WORD * WORD - 1)
    BY <1>2, <1>3, DivMod
  <1>5. MUL(u, v, t) = set_d32(d, t, p)
    BY DEF MUL
  <1> HIDE DEF p
  <1>6. p \in Int
    BY <1>3, <1>4
  <1> QED BY <1>4, <1>5, <1>6, SetPair DEF p

\* ENCO: a number.
LEMMA EncodeType ==
    ASSUME NEW n \in Nat, NEW s, NEW q
    PROVE  ENCO(s, q, n) \in 0..(Pow2[n] - 1)
  <1> DEFINE on == {x \in 0..(Pow2[n] - 1) : IF s # <<>> THEN BitOf(Value(s), x) = 1 ELSE bits[q + x]}
             T == on \cup {0}
  <1>1. Pow2[n] - 1 \in Nat
    BY Pow2Def
  <1>2. T \in SUBSET (0..(Pow2[n] - 1)) /\ T # {}
    BY <1>1
  <1>3. ENCO(s, q, n) = Max(T)
    BY DEF ENCO
  <1> HIDE DEF T
  <1>4. Max(T) \in T
    BY <1>1, <1>2, MaxBelow
  <1> QED BY <1>2, <1>3, <1>4

\* The word instructions leave words in the registers, and write only those
\* they name; an SFRD needs the pointer to lie in its table for that.
LEMMA WordEffect ==
    ASSUME d \in RegFile, NEW i, Decoded(i), i.op \in WordOps \cup BitOps, Valid(i)
    PROVE  /\ WordOp(i) \in RegFile
           /\ (i.op = "SFRD" => d[i.a] < LengthOf(i)) => Within(WordOp(i), Reach(i, LengthOf(i)))
  <1> DEFINE n == LengthOf(i)
             A == Reach(i, n)
  <1>01. n = LengthOf(i) /\ A = Reach(i, n)
    OBVIOUS
  <1>02. \A r \in Registers :
            /\ i.op \in WordOps \ {"BMOV", "FMOV"} /\ r = i.t => r \in A
            /\ i.op \in {"BMOV", "FMOV", "SFWR"} /\ r \in i.t..(i.t + n - 1) => r \in A
            /\ i.op = "SFRD" /\ r \in i.a..(i.a + n - 1) => r \in A
            /\ i.op \in {"MUL", "DIV", "DMOV"} /\ r = i.t + 1 => r \in A
            /\ i.op = "DDIV_TIME" /\ r \in i.t..(i.t + 3) => r \in A
    BY DEF Reach
  <1> HIDE DEF A
  <1>03. \A g : \A B : Within(g, B) /\ (\A r \in Registers : r \in B => r \in A) => Within(g, A)
    BY DEF Within
  <1>04. i.op \notin MathOps \cup {"NEG", "DMOV", "DDIV_TIME"} => n \in Nat
    BY Operands
  <1> HIDE DEF n
  <1>05. \A r \in Registers : r \in Nat /\ r \in Int
    BY WordSize DEF Registers
  <1>1. ASSUME i.op = "BMOV"
        PROVE  Within(WordOp(i), A)
    <2>1. WordOp(i) = BMOV(i.a, i.t, n)
      BY <1>1, <1>01 DEF WordOp
    <2>2. n \in Nat /\ i.a \in Nat /\ i.t \in Nat /\ i.a + n <= PLC_NUM_D /\ i.t + n <= PLC_NUM_D
      BY <1>1, <1>01, <1>04, <1>05, Operands DEF Valid, WordOps, MathOps
    <2>3. /\ BMOV(i.a, i.t, n) \in RegFile
          /\ BMOV(i.a, i.t, n) =
                [r \in Registers |-> IF r \in i.t..(i.t + n - 1) THEN d[i.a + r - i.t] ELSE d[r]]
      BY <2>2, BlockMove
    <2>4. Within(BMOV(i.a, i.t, n), i.t..(i.t + n - 1))
      BY <2>3 DEF Within
    <2> QED BY <1>1, <1>02, <1>03, <2>1, <2>4
  <1>2. ASSUME i.op = "FMOV"
        PROVE  Within(WordOp(i), A)
    <2>1. WordOp(i) = FMOV(Value(i.s), i.t, n)
      BY <1>2, <1>01 DEF WordOp
    <2>2. Value(i.s) \in 0..(WORD - 1)
      BY <1>2, Operands DEF WordOps
    <2>3. Within(FMOV(Value(i.s), i.t, n), i.t..(i.t + n - 1))
      BY <2>2 DEF Within, FMOV, RegFile
    <2> QED BY <1>2, <1>02, <1>03, <2>1, <2>3
  <1>3. ASSUME i.op = "MUL"
        PROVE  Within(WordOp(i), A)
    <2>1. WordOp(i) = MUL(Value(i.s), Value(i.s2), i.t)
      BY <1>3 DEF WordOp
    <2>2. i.t \in Int /\ Value(i.s) \in 0..(WORD - 1) /\ Value(i.s2) \in 0..(WORD - 1)
      BY <1>3, <1>05, Operands DEF WordOps, MathOps
    <2>3. Within(MUL(Value(i.s), Value(i.s2), i.t), {i.t, i.t + 1})
      BY <2>2, MulEffect DEF Within
    <2> QED BY <1>3, <1>02, <1>03, <2>1, <2>3 DEF WordOps, MathOps
  <1>4. ASSUME i.op = "DIV"
        PROVE  Within(WordOp(i), A)
    <2>1. WordOp(i) = DIV(Value(i.s), Value(i.s2), i.t)
      BY <1>4 DEF WordOp
    <2>2. i.t \in Int /\ Value(i.s) \in 0..(WORD - 1) /\ Value(i.s2) \in 0..(WORD - 1) /\ Value(i.s2) # 0
      BY <1>4, <1>05, Operands DEF WordOps, MathOps, Valid
    <2>3. Within(DIV(Value(i.s), Value(i.s2), i.t), {i.t, i.t + 1})
      BY <2>2, DivEffect DEF Within
    <2> QED BY <1>4, <1>02, <1>03, <2>1, <2>3 DEF WordOps, MathOps
  <1>5. ASSUME i.op \in {"WAND", "WOR", "WXOR", "NEG", "ROR", "ROL", "ENCO"}
        PROVE  Within(WordOp(i), A)
    <2>1. \E v \in Int : WordOp(i) = set_d(d, i.t, v)
      <3>1. \A x : x \in 0..(WORD - 1) => x \in Int
        BY WordSize
      <3>2. CASE i.op = "WAND"
        BY <3>1, <3>2, LogicType DEF WordOp
      <3>3. CASE i.op = "WOR"
        BY <3>1, <3>3, LogicType DEF WordOp
      <3>4. CASE i.op = "WXOR"
        BY <3>1, <3>4, LogicType DEF WordOp
      <3>5. CASE i.op = "NEG"
        <4>1. WordOp(i) = set_d(d, i.t, -Signed(d[i.t])) /\ i.t \in Registers
          BY <3>5, Operands DEF WordOp, WordOps
        <4>2. Signed(d[i.t]) \in Int
          BY <4>1, SignedType DEF RegFile
        <4> QED BY <4>1, <4>2
      <3>6. CASE i.op = "ROR"
        BY <3>1, <3>6, LogicType DEF WordOp, ROR
      <3>7. CASE i.op = "ROL"
        BY <3>1, <3>7, LogicType DEF WordOp, ROL
      <3>8. CASE i.op = "ENCO"
        <4>1. WordOp(i) = set_d(d, i.t, ENCO(i.s, i.q, n))
          BY <3>8, <1>01 DEF WordOp
        <4>2. n \in Nat
          BY <3>8, <1>04 DEF MathOps
        <4>3. ENCO(i.s, i.q, n) \in 0..(Pow2[n] - 1)
          BY <4>2, EncodeType
        <4>4. Pow2[n] - 1 \in Int
          BY <4>2, Pow2Def
        <4> QED BY <4>1, <4>3, <4>4
      <3> QED BY <1>5, <3>2, <3>3, <3>4, <3>5, <3>6, <3>7, <3>8
    <2>2. Within(WordOp(i), {i.t})
      BY <2>1, OneWithin
    <2>3. i.op \in WordOps \ {"BMOV", "FMOV"}
      BY <1>5 DEF WordOps, MathOps
    <2> QED BY <1>02, <1>03, <2>2, <2>3
  <1>6. ASSUME i.op = "DMOV"
        PROVE  Within(WordOp(i), A)
    <2>1. WordOp(i) = set_d32(d, i.t, Pair(i.s))
      BY <1>6 DEF WordOp
    <2>2. Pair(i.s) \in Int /\ i.t \in Int
      BY <1>6, <1>05, Operands DEF WordOps
    <2>3. Within(set_d32(d, i.t, Pair(i.s)), {i.t, i.t + 1})
      BY <2>2, PairWithin
    <2> QED BY <1>6, <1>02, <1>03, <2>1, <2>3 DEF WordOps
  <1>7. ASSUME i.op = "DDIV_TIME"
        PROVE  Within(WordOp(i), A)
    <2>1. WordOp(i) = DDIV_TIME(Pair(i.s), Pair(i.s2), i.t)
      BY <1>7 DEF WordOp
    <2>2. Pair(i.s) \in Nat /\ Pair(i.s2) \in Nat \ {0} /\ i.t \in Int
      BY <1>7, <1>05, Operands DEF WordOps, Valid
    <2>3. Within(DDIV_TIME(Pair(i.s), Pair(i.s2), i.t), i.t..(i.t + 3))
      BY <2>2, TimeEffect
    <2> QED BY <1>7, <1>02, <1>03, <2>1, <2>3
  <1>8. ASSUME i.op = "SFWR"
        PROVE  Within(WordOp(i), A)
    <2>1. WordOp(i) = SFWR(Value(i.s), i.t, n)
      BY <1>8, <1>01 DEF WordOp
    <2>2. i.t \in Registers /\ Value(i.s) \in 0..(WORD - 1) /\ n \in Nat /\ n >= 2
      BY <1>8, <1>01, <1>04, Operands DEF Valid, WordOps, MathOps
    <2>3. Value(i.s) \in Int
      BY <2>2, WordSize
    <2>4. Within(SFWR(Value(i.s), i.t, n), i.t..(i.t + n - 1))
      BY <2>2, <2>3, PutWithin
    <2> QED BY <1>8, <1>02, <1>03, <2>1, <2>4
  <1>9. ASSUME i.op = "SFRD"
        PROVE  WordOp(i) \in RegFile /\ (d[i.a] < n => Within(WordOp(i), A))
    <2>1. WordOp(i) = SFRD(i.a, i.t, n)
      BY <1>9, <1>01 DEF WordOp
    <2>2. i.t \in Registers /\ i.a \in Registers /\ n \in Nat /\ i.a + n <= PLC_NUM_D
      BY <1>9, <1>01, <1>04, Operands DEF Valid, WordOps, MathOps
    <2>3. /\ SFRD(i.a, i.t, n) \in RegFile
          /\ d[i.a] < n => Within(SFRD(i.a, i.t, n), {i.t} \cup i.a..(i.a + n - 1))
      BY <2>2, TakeEffect
    <2>4. \A r \in Registers : r \in {i.t} \cup i.a..(i.a + n - 1) => r \in A
      BY <1>9, <1>02 DEF WordOps
    <2> QED BY <1>03, <2>1, <2>3, <2>4
  <1>10. ASSUME i.op \in BitOps
         PROVE  Within(WordOp(i), A)
    <2>1. WordOp(i) = d
      BY <1>10 DEF WordOp, BitOps
    <2> QED BY <2>1 DEF Within
  <1>11. \/ i.op \in {"BMOV", "FMOV", "MUL", "DIV", "DMOV", "DDIV_TIME", "SFWR", "SFRD"}
         \/ i.op \in {"WAND", "WOR", "WXOR", "NEG", "ROR", "ROL", "ENCO"}
         \/ i.op \in BitOps
    BY DEF WordOps, MathOps
  <1>12. i.op # "SFRD" => Within(WordOp(i), A)
    BY <1>1, <1>2, <1>3, <1>4, <1>5, <1>6, <1>7, <1>8, <1>10, <1>11
  <1>13. \A g : \A B : Within(g, B) => g \in RegFile
    BY DEF Within
  <1> QED BY <1>01, <1>9, <1>12, <1>13

(***************************************************************************)
(* What the bit instructions do                                            *)
(***************************************************************************)

BitArea == [BitNumbers -> BOOLEAN]

\* What a loop that moves every bit by one place does, and the load after it.
LEMMA DownEffect ==
    ASSUME NEW b \in BitArea, NEW t \in Nat, NEW n \in Nat \ {0}, t + n <= NUM_BITS, NEW fill \in BOOLEAN
    PROVE  ShiftDown(t, n, fill, b) =
              [x \in BitNumbers |-> IF x \in t..(t + n - 2) THEN b[x + 1]
                                    ELSE IF x = t + n - 1 THEN fill ELSE b[x]]
  <1> DEFINE moves == [j \in 1..(n - 1) |-> <<t + j - 1, t + j>>]
             V == BOOLEAN \cup {0}
             M == Moved(b, moves)
  <1>1. Len(moves) = n - 1 /\ n - 1 \in Nat
    OBVIOUS
  <1>2. \A j \in 1..(n - 1) : moves[j][1] = t + j - 1 /\ moves[j][2] = t + j
    OBVIOUS
  <1> HIDE DEF moves
  <1>3. Separate(moves)
    BY <1>1, <1>2 DEF Separate
  <1>4. b \in [BitNumbers -> V] /\ 0 \in V
    BY DEF BitArea
  <1>5. M \in [BitNumbers -> V] /\ Unmoved(b, moves) /\ AtOnce(b, moves)
    <2> HIDE DEF V
    <2> QED BY <1>1, <1>3, <1>4, MoveLoop
  <1>6. DOMAIN b = BitNumbers
    BY DEF BitArea
  <1>7. ASSUME NEW x \in BitNumbers, x \in t..(t + n - 2)
        PROVE  M[x] = b[x + 1]
    <2> DEFINE j == x - t + 1
    <2>1. j \in 1..(n - 1) /\ t + j - 1 = x /\ t + j = x + 1 /\ x + 1 \in BitNumbers
      BY <1>7, WordSize DEF BitNumbers
    <2> HIDE DEF j
    <2>2. moves[j][1] = x /\ moves[j][2] = x + 1
      BY <1>2, <2>1
    <2> QED BY <1>1, <1>5, <1>6, <2>1, <2>2 DEF AtOnce
  <1>8. ASSUME NEW x \in BitNumbers, x \notin t..(t + n - 2)
        PROVE  M[x] = b[x]
    <2>1. \A j \in 1..(n - 1) : moves[j][1] # x
      BY <1>2, <1>8
    <2> QED BY <1>1, <1>5, <1>6, <2>1 DEF Unmoved
  <1>9. ShiftDown(t, n, fill, b) = [M EXCEPT ![t + n - 1] = fill]
    BY DEF ShiftDown, write_bit, moves
  <1> HIDE DEF M
  <1>10. ShiftDown(t, n, fill, b) = [x \in BitNumbers |-> IF x = t + n - 1 THEN fill ELSE M[x]]
    <2>1. t + n - 1 \in BitNumbers
      BY WordSize DEF BitNumbers
    <2>2. DOMAIN M = BitNumbers
      BY <1>5
    <2> QED BY <1>9, <2>1, <2>2
  <1>11. \A x \in BitNumbers : x \in t..(t + n - 2) => x # t + n - 1
    OBVIOUS
  <1> QED BY <1>7, <1>8, <1>10, <1>11

LEMMA UpEffect ==
    ASSUME NEW b \in BitArea, NEW t \in Nat, NEW n \in Nat \ {0}, t + n <= NUM_BITS, NEW fill \in BOOLEAN
    PROVE  ShiftUp(t, n, fill, b) =
              [x \in BitNumbers |-> IF x \in (t + 1)..(t + n - 1) THEN b[x - 1]
                                    ELSE IF x = t THEN fill ELSE b[x]]
  <1> DEFINE moves == [j \in 1..(n - 1) |-> <<t + n - j, t + n - j - 1>>]
             V == BOOLEAN \cup {0}
             M == Moved(b, moves)
  <1>1. Len(moves) = n - 1 /\ n - 1 \in Nat
    OBVIOUS
  <1>2. \A j \in 1..(n - 1) : moves[j][1] = t + n - j /\ moves[j][2] = t + n - j - 1
    OBVIOUS
  <1> HIDE DEF moves
  <1>3. Separate(moves)
    BY <1>1, <1>2 DEF Separate
  <1>4. b \in [BitNumbers -> V] /\ 0 \in V
    BY DEF BitArea
  <1>5. M \in [BitNumbers -> V] /\ Unmoved(b, moves) /\ AtOnce(b, moves)
    <2> HIDE DEF V
    <2> QED BY <1>1, <1>3, <1>4, MoveLoop
  <1>6. DOMAIN b = BitNumbers
    BY DEF BitArea
  <1>7. ASSUME NEW x \in BitNumbers, x \in (t + 1)..(t + n - 1)
        PROVE  M[x] = b[x - 1]
    <2> DEFINE j == t + n - x
    <2>1. j \in 1..(n - 1) /\ t + n - j = x /\ x - 1 \in BitNumbers
      BY <1>7, WordSize DEF BitNumbers
    <2> HIDE DEF j
    <2>2. moves[j][1] = x /\ moves[j][2] = x - 1
      BY <1>2, <2>1
    <2> QED BY <1>1, <1>5, <1>6, <2>1, <2>2 DEF AtOnce
  <1>8. ASSUME NEW x \in BitNumbers, x \notin (t + 1)..(t + n - 1)
        PROVE  M[x] = b[x]
    <2>1. \A j \in 1..(n - 1) : moves[j][1] # x
      BY <1>2, <1>8
    <2> QED BY <1>1, <1>5, <1>6, <2>1 DEF Unmoved
  <1>9. ShiftUp(t, n, fill, b) = [M EXCEPT ![t] = fill]
    BY DEF ShiftUp, write_bit, moves
  <1> HIDE DEF M
  <1>10. ShiftUp(t, n, fill, b) = [x \in BitNumbers |-> IF x = t THEN fill ELSE M[x]]
    <2>1. t \in BitNumbers
      BY WordSize DEF BitNumbers
    <2>2. DOMAIN M = BitNumbers
      BY <1>5
    <2> QED BY <1>9, <2>1, <2>2
  <1>11. \A x \in BitNumbers : x \in (t + 1)..(t + n - 1) => x # t
    OBVIOUS
  <1> QED BY <1>7, <1>8, <1>10, <1>11

\* Every bit p places on, the source loaded once, and the rest off.
Shifted(down, q, t, n, p) ==
    [x \in BitNumbers |->
        IF x \notin t..(t + n - 1) THEN bits[x]
        ELSE IF (IF down THEN x + p ELSE x - p) \in t..(t + n - 1)
        THEN bits[IF down THEN x + p ELSE x - p]
        ELSE x = (IF down THEN t + n - p ELSE t + p - 1) /\ bits[q]]

LEMMA ShiftType ==
    ASSUME NEW b \in BitArea, NEW t \in Nat, NEW n \in Nat \ {0}, t + n <= NUM_BITS,
           NEW fill \in BOOLEAN, NEW down \in BOOLEAN
    PROVE  Shift(down, t, n, fill, b) \in BitArea
  <1>1. \A x \in BitNumbers : x \in t..(t + n - 2) => x + 1 \in BitNumbers
    BY WordSize DEF BitNumbers
  <1>2. \A x \in BitNumbers : x \in (t + 1)..(t + n - 1) => x - 1 \in BitNumbers
    BY WordSize DEF BitNumbers
  <1>3. ShiftDown(t, n, fill, b) \in BitArea
    BY <1>1, DownEffect DEF BitArea
  <1>4. ShiftUp(t, n, fill, b) \in BitArea
    BY <1>2, UpEffect DEF BitArea
  <1> QED BY <1>3, <1>4 DEF Shift

LEMMA ShiftedType ==
    ASSUME bits \in BitArea, NEW q \in BitNumbers, NEW t \in Nat, NEW n \in Nat \ {0},
           t + n <= NUM_BITS, NEW down \in BOOLEAN, NEW p \in Nat
    PROVE  Shifted(down, q, t, n, p) \in BitArea
  <1>1. \A x \in Int : x \in t..(t + n - 1) => x \in BitNumbers
    BY WordSize DEF BitNumbers
  <1>2. bits[q] \in BOOLEAN /\ \A x \in BitNumbers : bits[x] \in BOOLEAN /\ x \in Int
    BY WordSize DEF BitArea, BitNumbers
  <1>3. \A x \in Int : x + p \in Int /\ x - p \in Int
    OBVIOUS
  <1> QED BY <1>1, <1>2, <1>3 DEF Shifted, BitArea

LEMMA ShiftStep ==
    ASSUME bits \in BitArea, NEW q \in BitNumbers, NEW t \in Nat, NEW n \in Nat \ {0},
           t + n <= NUM_BITS, NEW down \in BOOLEAN, NEW p \in Nat, p < n
    PROVE  Shift(down, t, n, p + 1 = 1 /\ bits[q], Shifted(down, q, t, n, p)) =
              Shifted(down, q, t, n, p + 1)
  <1> DEFINE b == Shifted(down, q, t, n, p)
             fill == p + 1 = 1 /\ bits[q]
  <1>1. \A x \in Int : x \in t..(t + n - 1) => x \in BitNumbers
    BY WordSize DEF BitNumbers
  <1>2. bits[q] \in BOOLEAN /\ \A x \in BitNumbers : bits[x] \in BOOLEAN /\ x \in Int
    BY WordSize DEF BitArea, BitNumbers
  <1>3. b \in BitArea
    BY ShiftedType
  <1>4. \A x \in BitNumbers : b[x] =
            IF x \notin t..(t + n - 1) THEN bits[x]
            ELSE IF (IF down THEN x + p ELSE x - p) \in t..(t + n - 1)
            THEN bits[IF down THEN x + p ELSE x - p]
            ELSE x = (IF down THEN t + n - p ELSE t + p - 1) /\ bits[q]
    BY DEF Shifted
  <1>5. fill \in BOOLEAN /\ (p = 0 => fill = bits[q]) /\ (p # 0 => fill = FALSE)
    BY <1>2
  <1> HIDE DEF b, fill
  <1>6. CASE down
    <2>1. Shift(down, t, n, fill, b) =
              [x \in BitNumbers |-> IF x \in t..(t + n - 2) THEN b[x + 1]
                                    ELSE IF x = t + n - 1 THEN fill ELSE b[x]]
      BY <1>3, <1>5, <1>6, DownEffect DEF Shift
    <2>2. ASSUME NEW x \in BitNumbers
          PROVE  (IF x \in t..(t + n - 2) THEN b[x + 1] ELSE IF x = t + n - 1 THEN fill ELSE b[x]) =
                 (IF x \notin t..(t + n - 1) THEN bits[x]
                  ELSE IF x + (p + 1) \in t..(t + n - 1) THEN bits[x + (p + 1)]
                  ELSE x = t + n - (p + 1) /\ bits[q])
      <3>1. x \in Int
        BY <1>2
      <3>2. CASE x \in t..(t + n - 2)
        <4>1. x + 1 \in t..(t + n - 1) /\ x + 1 \in BitNumbers /\ (x + 1) + p = x + (p + 1)
          BY <1>1, <3>1, <3>2
        <4>2. b[x + 1] = IF x + (p + 1) \in t..(t + n - 1) THEN bits[x + (p + 1)]
                         ELSE x + 1 = t + n - p /\ bits[q]
          BY <1>4, <1>6, <4>1
        <4>3. x + 1 = t + n - p <=> x = t + n - (p + 1)
          BY <3>1
        <4> QED BY <3>2, <4>1, <4>2, <4>3
      <3>3. CASE x = t + n - 1
        <4>1. x \in t..(t + n - 1) /\ x \notin t..(t + n - 2) /\ x + (p + 1) \notin t..(t + n - 1)
              /\ (x = t + n - (p + 1) <=> p = 0)
          BY <3>1, <3>3
        <4> QED BY <1>2, <1>5, <3>3, <4>1
      <3>4. CASE x \notin t..(t + n - 1)
        <4>1. x \notin t..(t + n - 2) /\ x # t + n - 1
          BY <3>1, <3>4
        <4> QED BY <1>4, <3>4, <4>1
      <3>5. x \in t..(t + n - 2) \/ x = t + n - 1 \/ x \notin t..(t + n - 1)
        BY <3>1
      <3> QED BY <3>2, <3>3, <3>4, <3>5
    <2>3. Shifted(down, q, t, n, p + 1) =
              [x \in BitNumbers |->
                  IF x \notin t..(t + n - 1) THEN bits[x]
                  ELSE IF x + (p + 1) \in t..(t + n - 1) THEN bits[x + (p + 1)]
                  ELSE x = t + n - (p + 1) /\ bits[q]]
      BY <1>6 DEF Shifted
    <2>4. Shift(down, t, n, fill, b) = Shifted(down, q, t, n, p + 1)
      BY <2>1, <2>2, <2>3
    <2> QED BY <2>4 DEF b, fill
  <1>7. CASE ~down
    <2>1. Shift(down, t, n, fill, b) =
              [x \in BitNumbers |-> IF x \in (t + 1)..(t + n - 1) THEN b[x - 1]
                                    ELSE IF x = t THEN fill ELSE b[x]]
      BY <1>3, <1>5, <1>7, UpEffect DEF Shift
    <2>2. ASSUME NEW x \in BitNumbers
          PROVE  (IF x \in (t + 1)..(t + n - 1) THEN b[x - 1] ELSE IF x = t THEN fill ELSE b[x]) =
                 (IF x \notin t..(t + n - 1) THEN bits[x]
                  ELSE IF x - (p + 1) \in t..(t + n - 1) THEN bits[x - (p + 1)]
                  ELSE x = t + (p + 1) - 1 /\ bits[q])
      <3>1. x \in Int
        BY <1>2
      <3>2. CASE x \in (t + 1)..(t + n - 1)
        <4>1. x - 1 \in t..(t + n - 1) /\ x - 1 \in BitNumbers /\ (x - 1) - p = x - (p + 1)
              /\ x \in t..(t + n - 1)
          BY <1>1, <3>1, <3>2
        <4>2. b[x - 1] = IF x - (p + 1) \in t..(t + n - 1) THEN bits[x - (p + 1)]
                         ELSE x - 1 = t + p - 1 /\ bits[q]
          BY <1>4, <1>7, <4>1
        <4>3. x - 1 = t + p - 1 <=> x = t + (p + 1) - 1
          BY <3>1
        <4> QED BY <3>2, <4>1, <4>2, <4>3
      <3>3. CASE x = t
        <4>1. x \in t..(t + n - 1) /\ x \notin (t + 1)..(t + n - 1) /\ x - (p + 1) \notin t..(t + n - 1)
              /\ (x = t + (p + 1) - 1 <=> p = 0)
          BY <3>1, <3>3
        <4> QED BY <1>2, <1>5, <3>3, <4>1
      <3>4. CASE x \notin t..(t + n - 1)
        <4>1. x \notin (t + 1)..(t + n - 1) /\ x # t
          BY <3>1, <3>4
        <4> QED BY <1>4, <3>4, <4>1
      <3>5. x \in (t + 1)..(t + n - 1) \/ x = t \/ x \notin t..(t + n - 1)
        BY <3>1
      <3> QED BY <3>2, <3>3, <3>4, <3>5
    <2>3. Shifted(down, q, t, n, p + 1) =
              [x \in BitNumbers |->
                  IF x \notin t..(t + n - 1) THEN bits[x]
                  ELSE IF x - (p + 1) \in t..(t + n - 1) THEN bits[x - (p + 1)]
                  ELSE x = t + (p + 1) - 1 /\ bits[q]]
      BY <1>7 DEF Shifted
    <2>4. Shift(down, t, n, fill, b) = Shifted(down, q, t, n, p + 1)
      BY <2>1, <2>2, <2>3
    <2> QED BY <2>4 DEF b, fill
  <1> QED BY <1>6, <1>7

\* SFTR and SFTL by k places.
LEMMA PassesEffect ==
    ASSUME bits \in BitArea, NEW q \in BitNumbers, NEW t \in Nat, NEW n \in Nat \ {0},
           t + n <= NUM_BITS, NEW down \in BOOLEAN, NEW k \in Nat, k <= n
    PROVE  Passes(down, q, t, n, k) = Shifted(down, q, t, n, k)
  <1>0. bits[q] \in BOOLEAN
    BY DEF BitArea
  <1>1. \A b \in BitArea : \A fill \in BOOLEAN : Shift(down, t, n, fill, b) \in BitArea
    BY ShiftType
  <1> DEFINE Fill(p) == p = 1 /\ bits[q]
             step == [x \in BitArea \X Nat |-> Shift(down, t, n, Fill(x[2]), x[1])]
             Eq(g) == g = [p \in 0..k |-> IF p = 0 THEN bits ELSE Shift(down, t, n, Fill(p), g[p - 1])]
             after == CHOOSE g : Eq(g)
  <1>2. \A p : Fill(p) \in BOOLEAN
    OBVIOUS
  <1>3. step \in [BitArea \X Nat -> BitArea]
    <2> HIDE DEF Fill
    <2>1. \A x \in BitArea \X Nat : Shift(down, t, n, Fill(x[2]), x[1]) \in BitArea
      <3> SUFFICES ASSUME NEW x \in BitArea \X Nat
                   PROVE  Shift(down, t, n, Fill(x[2]), x[1]) \in BitArea
        OBVIOUS
      <3>1. x[1] \in BitArea
        OBVIOUS
      <3> QED BY <3>1, <1>1, <1>2
    <2> QED BY <2>1
  <1>4. PICK g \in [0..k -> BitArea] : Unfolds(g, bits, step, 0..k)
    <2> HIDE DEF step
    <2> QED BY <1>3, PrefixRecursion
  <1> HIDE DEF Fill
  <1>5. \A p \in 0..k : g[p] = IF p = 0 THEN bits ELSE Shift(down, t, n, Fill(p), g[p - 1])
    <2> SUFFICES ASSUME NEW p \in 0..k, p # 0 PROVE g[p] = Shift(down, t, n, Fill(p), g[p - 1])
      BY <1>4 DEF Unfolds
    <2>1. p - 1 \in 0..k /\ p \in Nat
      OBVIOUS
    <2>2. <<g[p - 1], p>> \in BitArea \X Nat
      BY <1>4, <2>1, Zenon
    <2>3. g[p] = step[<<g[p - 1], p>>]
      BY <1>4 DEF Unfolds
    <2> QED BY <2>2, <2>3
  <1>6. g = [p \in 0..k |-> g[p]]
    BY <1>4
  <1>7. Eq(g)
    BY <1>5, <1>6
  <1>8. Eq(after)
    <2> HIDE DEF Eq
    <2> QED BY <1>7
  <1>9. Passes(down, q, t, n, k) = after[k]
    BY DEF Passes, Fill
  <1>10. \A p \in 0..k : after[p] = IF p = 0 THEN bits ELSE Shift(down, t, n, Fill(p), after[p - 1])
    BY <1>8
  <1> HIDE DEF after
  <1> DEFINE S == {p \in Nat : p <= k => after[p] = Shifted(down, q, t, n, p)}
  <1>11. 0 \in S
    <2>1. after[0] = bits
      BY <1>10
    <2>2. Shifted(down, q, t, n, 0) = bits
      <3>1. \A x \in BitNumbers : x + 0 = x /\ x - 0 = x
        BY DEF BitNumbers
      <3>2. Shifted(down, q, t, n, 0) = [x \in BitNumbers |-> bits[x]]
        BY <3>1 DEF Shifted
      <3> QED BY <3>2 DEF BitArea
    <2> QED BY <2>1, <2>2
  <1>12. ASSUME NEW p \in Nat, p \in S
         PROVE  p + 1 \in S
    <2> SUFFICES ASSUME p + 1 <= k PROVE after[p + 1] = Shifted(down, q, t, n, p + 1)
      OBVIOUS
    <2>1. p + 1 \in 0..k /\ p + 1 # 0 /\ (p + 1) - 1 = p /\ p <= k /\ p < n
      OBVIOUS
    <2>2. after[p] = Shifted(down, q, t, n, p)
      BY <1>12, <2>1
    <2>3. after[p + 1] = Shift(down, t, n, Fill(p + 1), after[p])
      BY <1>10, <2>1
    <2>4. Fill(p + 1) = (p + 1 = 1 /\ bits[q])
      BY DEF Fill
    <2>5. Shift(down, t, n, p + 1 = 1 /\ bits[q], Shifted(down, q, t, n, p)) = Shifted(down, q, t, n, p + 1)
      BY <2>1, ShiftStep
    <2> QED BY <2>2, <2>3, <2>4, <2>5
  <1>13. S = Nat
    <2> HIDE DEF S
    <2>1. S \in SUBSET Nat
      BY DEF S
    <2> QED BY <1>11, <1>12, <2>1, SetInduction
  <1> QED BY <1>9, <1>13

\* The bit instructions leave bits in the area, and write only those they name.
LEMMA BitEffect ==
    ASSUME d \in RegFile, bits \in BitArea,
           NEW i, Decoded(i), i.op \in WordOps \cup BitOps, Valid(i)
    PROVE  /\ BitOp(i) \in BitArea
           /\ \A b \in BitNumbers : BitOp(i)[b] # bits[b] => b \in BitTarget(i)
  <1> DEFINE n == LengthOf(i)
  <1>01. n = LengthOf(i)
    OBVIOUS
  <1>02. i.op \in BitOps => n \in Nat /\ i.t \in BitNumbers
    BY Operands DEF BitOps, MathOps
  <1>03. \A x \in BitNumbers : x \in Nat /\ bits[x] \in BOOLEAN
    BY WordSize DEF BitNumbers, BitArea
  <1>04. d[INDEX] \in Nat
    BY AppliedAssumption, WordSize DEF RegFile
  <1>1. ASSUME i.op \in {"SFTR", "SFTL"}
        PROVE  /\ BitOp(i) \in BitArea
               /\ \A b \in BitNumbers : BitOp(i)[b] # bits[b] => b \in BitTarget(i)
    <2> DEFINE k == Value(i.k)
               down == i.op = "SFTR"
               g == Shifted(down, i.q, i.t, n, k)
    <2>1. BitOp(i) = Passes(down, i.q, i.t, n, k) /\ down \in BOOLEAN
      BY <1>1 DEF BitOp, SFTR, SFTL
    <2>2. /\ i.q \in BitNumbers /\ i.t \in Nat /\ n \in Nat \ {0} /\ i.t + n <= NUM_BITS
          /\ k \in Nat /\ k <= n
      BY <1>1, <1>02, <1>03, Operands DEF Valid, BitOps, Decoded
    <2> HIDE DEF n, k, down
    <2>3. BitOp(i) = g
      BY <2>1, <2>2, PassesEffect
    <2>4. g \in BitArea
      BY <2>1, <2>2, ShiftedType
    <2>5. \A b \in BitNumbers : b \notin i.t..(i.t + n - 1) => g[b] = bits[b]
      BY DEF Shifted
    <2>6. \A b \in BitNumbers : b \in i.t..(i.t + n - 1) => b \in BitTarget(i)
      BY <1>01, <1>1 DEF BitTarget
    <2> QED BY <2>3, <2>4, <2>5, <2>6
  <1>2. ASSUME i.op = "ABSD"
        PROVE  /\ BitOp(i) \in BitArea
               /\ \A b \in BitNumbers : BitOp(i)[b] # bits[b] => b \in BitTarget(i)
    <2>1. BitOp(i) = ABSD(i.a, i.t, n)
      BY <1>2 DEF BitOp
    <2>2. ABSD(i.a, i.t, n) \in BitArea
      BY <1>03 DEF ABSD, BitArea
    <2>3. \A b \in BitNumbers : b \notin i.t..(i.t + n - 1) => ABSD(i.a, i.t, n)[b] = bits[b]
      BY DEF ABSD
    <2>4. \A b \in BitNumbers : b \in i.t..(i.t + n - 1) => b \in BitTarget(i)
      BY <1>2 DEF BitTarget
    <2> QED BY <2>1, <2>2, <2>3, <2>4
  <1>3. ASSUME i.op = "DECO"
        PROVE  /\ BitOp(i) \in BitArea
               /\ \A b \in BitNumbers : BitOp(i)[b] # bits[b] => b \in BitTarget(i)
    <2>1. BitOp(i) = DECO(i.t, n)
      BY <1>3 DEF BitOp
    <2>2. DECO(i.t, n) \in BitArea
      BY <1>03 DEF DECO, BitArea
    <2>3. \A b \in BitNumbers : b \notin i.t..(i.t + Pow2[n] - 1) => DECO(i.t, n)[b] = bits[b]
      BY DEF DECO
    <2>4. \A b \in BitNumbers : b \in i.t..(i.t + Pow2[n] - 1) => b \in BitTarget(i)
      BY <1>3 DEF BitTarget
    <2> QED BY <2>1, <2>2, <2>3, <2>4
  <1>4. ASSUME i.op = "BON"
        PROVE  /\ BitOp(i) \in BitArea
               /\ \A b \in BitNumbers : BitOp(i)[b] # bits[b] => b \in BitTarget(i)
    <2>1. BitOp(i) = BON(i)
      BY <1>4 DEF BitOp
    <2>2. n \in Nat /\ i.t \in BitNumbers /\ i.q \in BitNumbers
      BY <1>4, <1>02 DEF BitOps, Decoded
    <2>3. \A v \in BOOLEAN : \A x \in BitNumbers :
              /\ write_bit(bits, x, v) \in BitArea
              /\ \A b \in BitNumbers : write_bit(bits, x, v)[b] # bits[b] => b = x
      BY DEF write_bit, BitArea
    <2>4. CASE i.t_array /\ ~i.q_array
      <3>1. i.t + d[INDEX] + n < NUM_BITS
        BY <1>4, <1>04, <2>2, <2>4, <1>03 DEF Valid
      <3>2. i.t + d[INDEX] + n \in BitNumbers
        BY <1>03, <1>04, <2>2, <3>1, WordSize DEF BitNumbers
      <3>3. BON(i) = write_bit(bits, i.t + d[INDEX] + n, bits[i.q])
        BY <2>4 DEF BON
      <3>4. i.t + d[INDEX] + n \in BitTarget(i)
        BY <1>4, <3>2 DEF BitTarget
      <3>5. bits[i.q] \in BOOLEAN
        BY <1>03, <2>2
      <3> QED BY <2>1, <2>3, <3>2, <3>3, <3>4, <3>5
    <2>5. CASE ~(i.t_array /\ ~i.q_array)
      <3> DEFINE x == i.q + n + (IF i.q_array THEN d[INDEX] ELSE 0)
      <3>1. x \in Int
        BY <1>03, <1>04, <2>2
      <3>2. BON(i) = write_bit(bits, i.t, bits[x % NUM_BITS])
        BY <2>5 DEF BON
      <3> HIDE DEF x
      <3>3. x % NUM_BITS \in BitNumbers
        BY <3>1, WordSize, DivMod DEF BitNumbers
      <3>4. bits[x % NUM_BITS] \in BOOLEAN
        BY <1>03, <3>3
      <3>5. i.t \in BitTarget(i)
        BY <1>4, <2>2 DEF BitTarget
      <3> QED BY <2>1, <2>2, <2>3, <3>2, <3>4, <3>5
    <2> QED BY <2>4, <2>5
  <1>5. ASSUME i.op \notin BitOps
        PROVE  BitOp(i) = bits
    BY <1>5 DEF BitOp, BitOps
  <1>6. i.op \in {"SFTR", "SFTL"} \/ i.op = "ABSD" \/ i.op = "DECO" \/ i.op = "BON" \/ i.op \notin BitOps
    BY DEF BitOps
  <1> QED BY <1>1, <1>2, <1>3, <1>4, <1>5, <1>6

(***************************************************************************)
(* Types                                                                   *)
(***************************************************************************)

\* What the assumptions say of an instruction of the program loaded.
LEMMA Instruction ==
    ASSUME TypeOK, NEW i \in prog.code
    PROVE  /\ i.op \in WordOps \cup BitOps /\ Decoded(i)
           /\ prog.fifo \in BOOLEAN
           /\ prog.fifo => KeepsQueue(i)
           /\ ~prog.fifo => i.op \notin {"SFWR", "SFRD"}
  BY ProgramAssumption, QueueAssumption DEF TypeOK

LEMMA InitType == Init => TypeOK
  <1> SUFFICES ASSUME Init PROVE TypeOK
    OBVIOUS
  <1>1. 0 \in 0..(WORD - 1)
    BY WordSize
  <1>2. d \in [Registers -> 0..(WORD - 1)] /\ bits \in [BitNumbers -> BOOLEAN]
    BY <1>1 DEF Init
  <1>3. prog \in PROGRAMS /\ count \in Int
    BY ProgramAssumption DEF Init
  <1> QED BY <1>2, <1>3 DEF Init, TypeOK

LEMMA StepType == TypeOK /\ [Next]_vars => TypeOK'
  <1> SUFFICES ASSUME TypeOK, [Next]_vars
               PROVE  TypeOK'
    OBVIOUS
  <1>0. d \in RegFile /\ bits \in BitArea
    BY DEF TypeOK, RegFile, BitArea
  <1>1. ASSUME NEW i \in prog.code, NEW enabled \in BOOLEAN, execute_applied(i, enabled)
        PROVE  TypeOK'
    <2>1. bad' \in BOOLEAN /\ UNCHANGED <<prog, count>>
      <3>1. (~Valid(i)) \in BOOLEAN
        OBVIOUS
      <3> QED BY <1>1, <3>1 DEF execute_applied
    <2>2. CASE Valid(i) /\ enabled
      <3>1. WordOp(i) \in RegFile /\ BitOp(i) \in BitArea
        BY <1>0, <1>1, <2>2, Instruction, WordEffect, BitEffect
      <3>2. d' = WordOp(i) /\ bits' = BitOp(i)
        BY <1>1, <2>2 DEF execute_applied
      <3>3. m8022' \in BOOLEAN
        <4>1. (d[i.t] >= LengthOf(i) - 1) \in BOOLEAN
          OBVIOUS
        <4> QED BY <1>1, <4>1 DEF execute_applied, TypeOK
      <3>4. m8020' \in BOOLEAN
        BY <1>1 DEF execute_applied, TypeOK
      <3> QED BY <2>1, <3>1, <3>2, <3>3, <3>4 DEF TypeOK, RegFile, BitArea
    <2>3. CASE ~(Valid(i) /\ enabled)
      BY <1>1, <2>1, <2>3 DEF execute_applied, TypeOK
    <2> QED BY <2>2, <2>3
  <1>2. ASSUME NEW r \in prog.host, NEW v \in prog.values, HostWrite(r, v)
        PROVE  TypeOK'
    <2>1. r \in Registers /\ v \in 0..(WORD - 1)
      BY ProgramAssumption DEF TypeOK
    <2> QED BY <1>2, <2>1 DEF HostWrite, TypeOK
  <1>3. ASSUME NEW b \in prog.field, Field(b)
        PROVE  TypeOK'
    <2>1. b \in BitNumbers
      BY ProgramAssumption DEF TypeOK
    <2> QED BY <1>3, <2>1 DEF Field, TypeOK
  <1>4. ASSUME NEW c \in prog.counts, Count(c)
        PROVE  TypeOK'
    <2>1. c \in Int
      BY ProgramAssumption DEF TypeOK
    <2> QED BY <1>4, <2>1 DEF Count, TypeOK
  <1>5. CASE UNCHANGED vars
    BY <1>5 DEF vars, TypeOK
  <1> QED BY <1>1, <1>2, <1>3, <1>4, <1>5 DEF Next

\* Whatever the instructions compute, registers hold words and devices bits:
\* plc_set_d cuts every value, and no loop reads past an array.
THEOREM AppliedType == Spec => []TypeOK
  <1>1. Init => TypeOK
    BY InitType
  <1>2. TypeOK /\ [Next]_vars => TypeOK'
    BY StepType
  <1> QED BY <1>1, <1>2, PTL DEF Spec

(***************************************************************************)
(* Block moves and shifts                                                  *)
(***************************************************************************)

\* BMOV, SFTR and SFTL move as if at once: BlockMove and PassesEffect for the
\* instructions of a program.
THEOREM MovesAtOnce == Spec => MovesAsOne
  <1> DEFINE Block ==
               \A i \in Code({"BMOV"}) : Done(i) =>
                  d' = [r \in Registers |-> IF r \in i.t..(i.t + LengthOf(i) - 1)
                                            THEN d[i.a + r - i.t] ELSE d[r]]
             Places ==
               \A i \in Code({"SFTR", "SFTL"}) : Done(i) =>
                  LET n == LengthOf(i)
                      k == Value(i.k)
                      From(j) == IF i.op = "SFTR" THEN j + k ELSE j - k
                      loaded == IF i.op = "SFTR" THEN n - k ELSE k - 1
                  IN \A j \in 0..(n - 1) :
                        bits'[i.t + j] = CASE From(j) \in 0..(n - 1) -> bits[i.t + From(j)]
                                           [] j = loaded -> bits[i.q]
                                           [] OTHER -> FALSE
  <1>1. ASSUME TypeOK
        PROVE  Block
    <2> SUFFICES ASSUME NEW i \in prog.code, i.op = "BMOV", execute_applied(i, TRUE), ~bad'
                 PROVE  d' = [r \in Registers |-> IF r \in i.t..(i.t + LengthOf(i) - 1)
                                                  THEN d[i.a + r - i.t] ELSE d[r]]
      BY DEF Code, Done
    <2> DEFINE n == LengthOf(i)
    <2>1. d \in RegFile /\ Decoded(i) /\ i.op \in WordOps \cup BitOps
      BY <1>1, Instruction DEF TypeOK, RegFile
    <2>2. Valid(i) /\ d' = BMOV(i.a, i.t, n)
      BY DEF execute_applied, WordOp
    <2>3. i.a \in Registers /\ i.t \in Registers /\ n \in Nat
      BY <2>1, Operands DEF WordOps, MathOps
    <2>4. i.a \in Nat /\ i.t \in Nat /\ i.a + n <= PLC_NUM_D /\ i.t + n <= PLC_NUM_D
      BY <2>2, <2>3, WordSize DEF Valid, Registers
    <2> HIDE DEF n
    <2>5. BMOV(i.a, i.t, n) =
              [r \in Registers |-> IF r \in i.t..(i.t + n - 1) THEN d[i.a + r - i.t] ELSE d[r]]
      BY <2>1, <2>3, <2>4, BlockMove
    <2> QED BY <2>2, <2>5 DEF n
  <1>2. ASSUME TypeOK
        PROVE  Places
    <2> SUFFICES ASSUME NEW i \in prog.code, i.op \in {"SFTR", "SFTL"}, execute_applied(i, TRUE), ~bad',
                        NEW j \in 0..(LengthOf(i) - 1)
                 PROVE  LET n == LengthOf(i)
                            k == Value(i.k)
                            From == IF i.op = "SFTR" THEN j + k ELSE j - k
                            loaded == IF i.op = "SFTR" THEN n - k ELSE k - 1
                        IN bits'[i.t + j] = CASE From \in 0..(n - 1) -> bits[i.t + From]
                                              [] j = loaded -> bits[i.q]
                                              [] OTHER -> FALSE
      BY DEF Code, Done
    <2> DEFINE n == LengthOf(i)
               k == Value(i.k)
               down == i.op = "SFTR"
               x == i.t + j
    <2>1. d \in RegFile /\ bits \in BitArea /\ Decoded(i) /\ i.op \in WordOps \cup BitOps
      BY <1>2, Instruction DEF TypeOK, RegFile, BitArea
    <2>2. Valid(i) /\ bits' = Passes(down, i.q, i.t, n, k) /\ down \in BOOLEAN
      BY DEF execute_applied, BitOp, SFTR, SFTL
    <2>3. /\ i.q \in BitNumbers /\ i.t \in Nat /\ n \in Nat \ {0} /\ i.t + n <= NUM_BITS
          /\ k \in Nat /\ k <= n
      <3>1. n \in Nat /\ k \in Nat /\ i.t \in BitNumbers
        BY <2>1, Operands DEF BitOps, MathOps
      <3>2. n > 0 /\ k <= n /\ i.t + n <= NUM_BITS
        BY <2>2 DEF Valid
      <3>3. i.q \in BitNumbers
        BY <2>1 DEF Decoded
      <3> QED BY <3>1, <3>2, <3>3, WordSize DEF BitNumbers
    <2>4. j \in 0..(n - 1)
      OBVIOUS
    <2>5. (i.op = "SFTR") = down
      OBVIOUS
    <2> HIDE DEF n, k, down
    <2>6. bits' = Shifted(down, i.q, i.t, n, k)
      BY <2>1, <2>2, <2>3, PassesEffect
    <2>7. x \in BitNumbers /\ x \in i.t..(i.t + n - 1) /\ j \in Int
      BY <2>3, <2>4, WordSize DEF BitNumbers
    <2>8. bits'[x] = IF (IF down THEN x + k ELSE x - k) \in i.t..(i.t + n - 1)
                     THEN bits[IF down THEN x + k ELSE x - k]
                     ELSE x = (IF down THEN i.t + n - k ELSE i.t + k - 1) /\ bits[i.q]
      BY <2>6, <2>7 DEF Shifted
    <2> DEFINE From == IF down THEN j + k ELSE j - k
               loaded == IF down THEN n - k ELSE k - 1
    <2>9. /\ (IF down THEN x + k ELSE x - k) = i.t + From /\ From \in Int /\ loaded \in Int
          /\ (IF down THEN i.t + n - k ELSE i.t + k - 1) = i.t + loaded
      BY <2>2, <2>3, <2>4
    <2> HIDE DEF From, loaded
    <2>10. bits'[x] = IF From \in 0..(n - 1) THEN bits[i.t + From] ELSE j = loaded /\ bits[i.q]
      <3>1. i.t + From \in i.t..(i.t + n - 1) <=> From \in 0..(n - 1)
        BY <2>3, <2>9
      <3>2. x = i.t + loaded <=> j = loaded
        BY <2>3, <2>7, <2>9
      <3> QED BY <2>8, <2>9, <3>1, <3>2
    <2>11. bits[i.q] \in BOOLEAN
      BY <2>1, <2>3 DEF BitArea
    <2>12. bits'[x] = CASE From \in 0..(n - 1) -> bits[i.t + From]
                        [] j = loaded -> bits[i.q]
                        [] OTHER -> FALSE
      <3>1. From \in 0..(n - 1) => j # loaded
        BY <2>3, <2>4 DEF From, loaded
      <3> QED BY <2>10, <2>11, <3>1
    <2> QED BY <2>5, <2>12 DEF From, loaded, n, k
  <1>3. TypeOK /\ [Next]_vars => [Block /\ Places]_vars
    BY <1>1, <1>2
  <1> QED BY <1>3, AppliedType, PTL DEF Spec, MovesAsOne

(***************************************************************************)
(* The queue                                                               *)
(***************************************************************************)

\* What the footprint of SFRD and the refinement of the queue need beyond the
\* types: the pointer stays within the table.
QueueBound == prog.fifo => d[FIFO] <= FIFO_LEN - 1
IInv == TypeOK /\ QueueBound

LEMMA QueueArith ==
    /\ FIFO \in Registers /\ FIFO_OUT \in Registers /\ FIFO_LEN \in Nat /\ FIFO_LEN >= 2
    /\ FIFO \in Nat /\ FIFO_OUT \in Nat /\ FIFO + FIFO_LEN <= PLC_NUM_D
    /\ FIFO_OUT \notin FIFO..(FIFO + FIFO_LEN - 1)
    /\ PLC_NUM_D \in Nat /\ PLC_NUM_D < WORD /\ WORD \in Nat
  BY QueueAssumption, WordSize DEF Registers, QueueArea

\* SFWR on a table with room.
LEMMA PutEffect ==
    ASSUME d \in RegFile, NEW v \in 0..(WORD - 1), NEW t \in Nat, NEW n \in Nat,
           n >= 2, t + n <= PLC_NUM_D, d[t] < n - 1
    PROVE  \A x \in Registers : SFWR(v, t, n)[x] =
              IF x = t THEN d[t] + 1 ELSE IF x = t + d[t] + 1 THEN v ELSE d[x]
  <1>1. t \in Registers
    BY WordSize DEF Registers
  <1>2. d[t] \in 0..(WORD - 1) /\ d[t] \in Nat /\ d[t] + 1 \in 0..(WORD - 1)
    BY <1>1, WordSize DEF RegFile
  <1> DEFINE g == set_d(d, t, d[t] + 1)
             h == set_d(g, t + d[t] + 1, v)
  <1>3. d[t] + 1 \in Int /\ v \in Int
    BY <1>2, WordSize
  <1>4. (d[t] + 1) % WORD = d[t] + 1 /\ v % WORD = v
    BY <1>2, <1>3, ModWord
  <1>5. g \in RegFile /\ \A x \in Registers : g[x] = IF x = t THEN d[t] + 1 ELSE d[x]
    BY <1>3, <1>4, SetReg
  <1> HIDE DEF g
  <1>6. \A x \in Registers : h[x] = IF x = t + d[t] + 1 THEN v ELSE g[x]
    BY <1>3, <1>4, <1>5, SetReg
  <1>7. SFWR(v, t, n) = h
    BY <1>2 DEF SFWR, g
  <1>8. t # t + d[t] + 1
    BY <1>2
  <1> HIDE DEF h
  <1> QED BY <1>5, <1>6, <1>7, <1>8

\* SFRD from a table that is not empty, into a register outside of it: every
\* word moves down by one.
LEMMA TakeMoves ==
    ASSUME d \in RegFile, NEW a \in Nat, NEW t \in Registers, NEW n \in Nat,
           n >= 2, a + n <= PLC_NUM_D, t \notin a..(a + n - 1), d[a] # 0, d[a] <= n - 1
    PROVE  /\ SFRD(a, t, n)[t] = d[a + 1] /\ SFRD(a, t, n)[a] = d[a] - 1
           /\ \A j \in 1..(d[a] - 1) : SFRD(a, t, n)[a + j] = d[a + j + 1]
  <1>1. a \in Registers /\ a + 1 \in Registers /\ PLC_NUM_D < WORD /\ WORD \in Nat /\ PLC_NUM_D \in Nat
    BY WordSize DEF Registers
  <1>2. d[a] \in 0..(WORD - 1) /\ d[a] \in Nat /\ d[a] - 1 \in 0..(WORD - 1) /\ 0 \in 0..(WORD - 1)
    BY <1>1 DEF RegFile
  <1> DEFINE v == get_d(d, a + 1)
             f == set_d(d, t, v)
             moves == [j \in 1..(d[a] - 1) |-> <<(a + j) % WORD, (a + j + 1) % WORD>>]
             g == Moved(f, moves)
             h == set_d(g, a, d[a] - 1)
  <1>3. v = d[a + 1] /\ v \in 0..(WORD - 1) /\ v \in Int
    BY <1>1 DEF get_d, RegFile
  <1>4. SFRD(a, t, n) = h
    BY DEF SFRD
  <1>5. \A j \in 1..(d[a] - 1) : moves[j] = <<(a + j) % WORD, (a + j + 1) % WORD>>
    OBVIOUS
  <1>6. Len(moves) = d[a] - 1 /\ d[a] - 1 \in Nat
    BY <1>2
  <1> HIDE DEF v, moves
  <1>7. f \in RegFile /\ \A x \in Registers : f[x] = IF x = t THEN d[a + 1] ELSE d[x]
    <2>1. f \in RegFile /\ \A x \in Registers : f[x] = IF x = t THEN v % WORD ELSE d[x]
      BY <1>3, SetReg
    <2>2. v % WORD = v
      BY <1>3, ModWord
    <2> QED BY <1>3, <2>1, <2>2
  <1> HIDE DEF f
  <1>8. ASSUME NEW j \in 1..(d[a] - 1)
        PROVE  /\ moves[j][1] = a + j /\ moves[j][2] = a + j + 1
               /\ a + j \in Registers /\ a + j + 1 \in Registers /\ a + j # t /\ a + j + 1 # t /\ a + j # a
    <2>1. j \in Nat /\ j >= 1 /\ j + 1 <= n - 1
      BY <1>2
    <2>2. a + j \in 0..(WORD - 1) /\ a + j + 1 \in 0..(WORD - 1) /\ a + j \in Int /\ a + j + 1 \in Int
      BY <1>1, <2>1
    <2>3. (a + j) % WORD = a + j /\ (a + j + 1) % WORD = a + j + 1
      BY <2>2, ModWord
    <2>4. a + j \in Registers /\ a + j + 1 \in Registers
      BY <1>1, <2>1 DEF Registers
    <2>5. a + j \in a..(a + n - 1) /\ a + j + 1 \in a..(a + n - 1) /\ a + j # a
      BY <2>1
    <2> QED BY <1>5, <2>3, <2>4, <2>5
  <1>9. Separate(moves)
    <2> SUFFICES ASSUME NEW k \in 1..(d[a] - 1), NEW j \in 1..(k - 1)
                 PROVE  moves[k][1] # moves[j][1] /\ moves[k][2] # moves[j][1]
      BY <1>6 DEF Separate
    <2>1. j \in 1..(d[a] - 1) /\ j < k /\ j \in Int /\ k \in Int
      BY <1>6
    <2>2. moves[k][1] = a + k /\ moves[k][2] = a + k + 1 /\ moves[j][1] = a + j
      BY <1>8, <2>1
    <2> QED BY <2>1, <2>2
  <1>10. g \in RegFile /\ Unmoved(f, moves) /\ AtOnce(f, moves)
    BY <1>2, <1>6, <1>7, <1>9, MoveLoop DEF RegFile
  <1>11. DOMAIN f = Registers
    BY <1>7 DEF RegFile
  <1>12. \A r \in Registers : (\A j \in 1..(d[a] - 1) : moves[j][1] # r) => g[r] = f[r]
    BY <1>6, <1>10, <1>11 DEF Unmoved
  <1>13. \A j \in 1..(d[a] - 1) : g[a + j] = f[a + j + 1]
    <2> SUFFICES ASSUME NEW j \in 1..(d[a] - 1) PROVE g[a + j] = f[a + j + 1]
      OBVIOUS
    <2>1. moves[j][1] = a + j /\ moves[j][2] = a + j + 1 /\ a + j \in Registers /\ a + j + 1 \in Registers
      BY <1>8
    <2> QED BY <1>6, <1>10, <1>11, <2>1 DEF AtOnce
  <1>14. g[t] = d[a + 1]
    <2>1. \A j \in 1..(d[a] - 1) : moves[j][1] # t
      BY <1>8
    <2> QED BY <1>7, <1>12, <2>1
  <1> HIDE DEF g
  <1>15. \A x \in Registers : h[x] = IF x = a THEN d[a] - 1 ELSE g[x]
    <2>1. d[a] - 1 \in Int
      BY <1>2
    <2>2. \A x \in Registers : h[x] = IF x = a THEN (d[a] - 1) % WORD ELSE g[x]
      BY <1>10, <2>1, SetReg
    <2>3. (d[a] - 1) % WORD = d[a] - 1
      BY <1>2, <2>1, ModWord
    <2> QED BY <2>2, <2>3
  <1> HIDE DEF h
  <1>16. a # t /\ a \in Registers
    BY <1>1
  <1>17. \A j \in 1..(d[a] - 1) : h[a + j] = d[a + j + 1]
    <2> SUFFICES ASSUME NEW j \in 1..(d[a] - 1) PROVE h[a + j] = d[a + j + 1]
      OBVIOUS
    <2>1. a + j \in Registers /\ a + j + 1 \in Registers /\ a + j # a /\ a + j + 1 # t
      BY <1>8
    <2> QED BY <1>7, <1>13, <1>15, <2>1
  <1> QED BY <1>4, <1>14, <1>15, <1>16, <1>17

\* What an executed instruction does to a program's queue: an SFWR or SFRD is one
\* of FIFO_LEN words, and no other writes where the queue is.
LEMMA QueueStep ==
    ASSUME IInv, prog.fifo, NEW i \in prog.code, Valid(i)
    PROVE  /\ i.op = "SFWR" => i.t = FIFO /\ LengthOf(i) = FIFO_LEN /\ Value(i.s) \in 0..(WORD - 1)
           /\ i.op = "SFRD" => i.a = FIFO /\ i.t = FIFO_OUT /\ LengthOf(i) = FIFO_LEN
           /\ i.op \notin {"SFWR", "SFRD"} =>
                 \A r \in QueueArea \cup {FIFO_OUT} : WordOp(i)[r] = d[r]
  <1>1. i.op \in WordOps \cup BitOps /\ Decoded(i) /\ KeepsQueue(i) /\ d \in RegFile
    BY Instruction DEF IInv, TypeOK, RegFile
  <1>2. ASSUME i.op \in {"SFWR", "SFRD"}
        PROVE  LengthOf(i) = FIFO_LEN
    <2>1. i.n[1] = "K" /\ (i.n[2] >= 2 /\ FIFO + i.n[2] <= PLC_NUM_D => i.n[2] = FIFO_LEN)
      BY <1>1, <1>2 DEF KeepsQueue
    <2>2. LengthOf(i) = i.n[2]
      BY <2>1 DEF LengthOf, Value
    <2>3. LengthOf(i) >= 2 /\ FIFO + LengthOf(i) <= PLC_NUM_D
      BY <1>1, <1>2 DEF KeepsQueue, Valid
    <2> QED BY <2>1, <2>2, <2>3
  <1>3. i.op = "SFWR" => i.t = FIFO /\ Value(i.s) \in 0..(WORD - 1)
    BY <1>1, Operands DEF KeepsQueue, WordOps
  <1>4. i.op = "SFRD" => i.a = FIFO /\ i.t = FIFO_OUT
    BY <1>1 DEF KeepsQueue
  <1>5. ASSUME i.op \notin {"SFWR", "SFRD"}, NEW r \in QueueArea \cup {FIFO_OUT}
        PROVE  WordOp(i)[r] = d[r]
    <2>1. Within(WordOp(i), Reach(i, LengthOf(i)))
      BY <1>1, <1>5, WordEffect
    <2>2. r \in Registers
      BY QueueArith DEF QueueArea, Registers
    <2>3. r \notin Reach(i, LengthOf(i))
      <3>1. CASE i.op \in {"BMOV", "FMOV"}
        <4>1. i.n[1] = "K" /\ Reach(i, i.n[2]) \cap (QueueArea \cup {FIFO_OUT}) = {}
          BY <1>1, <1>5, <3>1 DEF KeepsQueue
        <4>2. LengthOf(i) = i.n[2]
          BY <4>1 DEF LengthOf, Value
        <4> QED BY <1>5, <4>1, <4>2
      <3>2. CASE i.op \notin {"BMOV", "FMOV"}
        <4>1. Reach(i, 0) \cap (QueueArea \cup {FIFO_OUT}) = {}
          BY <1>1, <1>5, <3>2 DEF KeepsQueue
        <4>2. Reach(i, LengthOf(i)) = Reach(i, 0)
          BY <1>5, <3>2 DEF Reach
        <4> QED BY <1>5, <4>1, <4>2
      <3> QED BY <3>1, <3>2
    <2> QED BY <2>1, <2>2, <2>3 DEF Within
  <1> QED BY <1>2, <1>3, <1>4, <1>5

LEMMA InitQueue == Init => IInv
  <1> SUFFICES ASSUME Init PROVE QueueBound
    BY InitType DEF IInv
  <1>1. d[FIFO] = 0
    BY QueueArith DEF Init
  <1> QED BY <1>1, QueueArith DEF QueueBound

LEMMA StepQueue == IInv /\ [Next]_vars => IInv'
  <1> SUFFICES ASSUME IInv, [Next]_vars, prog'.fifo
               PROVE  d'[FIFO] <= FIFO_LEN - 1
    BY StepType DEF IInv, QueueBound
  <1>0. /\ FIFO \in QueueArea /\ FIFO \in Registers
        /\ d \in RegFile /\ d[FIFO] \in Nat
    BY QueueArith DEF QueueArea, IInv, TypeOK, RegFile, Registers
  <1>1. ASSUME NEW i \in prog.code, NEW enabled \in BOOLEAN, execute_applied(i, enabled)
        PROVE  d'[FIFO] <= FIFO_LEN - 1
    <2>1. prog.fifo /\ d[FIFO] <= FIFO_LEN - 1
      BY <1>1 DEF execute_applied, IInv, QueueBound
    <2>2. CASE ~(Valid(i) /\ enabled)
      BY <1>1, <2>1, <2>2 DEF execute_applied
    <2>3. CASE Valid(i) /\ enabled
      <3>1. d' = WordOp(i)
        BY <1>1, <2>3 DEF execute_applied
      <3>2. CASE i.op = "SFWR"
        <4>1. i.t = FIFO /\ LengthOf(i) = FIFO_LEN /\ Value(i.s) \in 0..(WORD - 1)
          BY <2>1, <2>3, <3>2, QueueStep
        <4>2. d' = SFWR(Value(i.s), FIFO, FIFO_LEN)
          BY <3>1, <3>2, <4>1 DEF WordOp
        <4>3. CASE d[FIFO] >= FIFO_LEN - 1
          BY <2>1, <4>2, <4>3 DEF SFWR
        <4>4. CASE d[FIFO] < FIFO_LEN - 1
          <5>1. d'[FIFO] = d[FIFO] + 1
            BY <1>0, <4>1, <4>2, <4>4, QueueArith, PutEffect
          <5> QED BY <1>0, <4>4, <5>1, QueueArith
        <4> QED BY <1>0, <4>3, <4>4, QueueArith
      <3>3. CASE i.op = "SFRD"
        <4>1. i.a = FIFO /\ i.t = FIFO_OUT /\ LengthOf(i) = FIFO_LEN
          BY <2>1, <2>3, <3>3, QueueStep
        <4>2. d' = SFRD(FIFO, FIFO_OUT, FIFO_LEN)
          BY <3>1, <3>3, <4>1 DEF WordOp
        <4>3. CASE d[FIFO] = 0
          BY <2>1, <4>2, <4>3 DEF SFRD
        <4>4. CASE d[FIFO] # 0
          <5>1. d'[FIFO] = d[FIFO] - 1
            BY <1>0, <2>1, <4>2, <4>4, QueueArith, TakeMoves
          <5> QED BY <1>0, <2>1, <5>1, QueueArith
        <4> QED BY <4>3, <4>4
      <3>4. CASE i.op \notin {"SFWR", "SFRD"}
        <4>1. WordOp(i)[FIFO] = d[FIFO]
          BY <1>0, <2>1, <2>3, <3>4, QueueStep
        <4> QED BY <2>1, <3>1, <4>1
      <3> QED BY <3>2, <3>3, <3>4
    <2> QED BY <2>2, <2>3
  <1>2. ASSUME NEW r \in prog.host, NEW v \in prog.values, HostWrite(r, v)
        PROVE  d'[FIFO] <= FIFO_LEN - 1
    <2>1. prog.fifo /\ d[FIFO] <= FIFO_LEN - 1
      BY <1>2 DEF HostWrite, IInv, QueueBound
    <2>2. r # FIFO
      BY <1>0, <2>1, QueueAssumption DEF IInv, TypeOK
    <2> QED BY <1>0, <1>2, <2>1, <2>2 DEF HostWrite, RegFile
  <1>3. CASE UNCHANGED <<prog, d>>
    BY <1>3 DEF IInv, QueueBound
  <1> QED BY <1>1, <1>2, <1>3 DEF Next, Field, Count, vars

LEMMA QueueInvariant == Spec => []IInv
  <1>1. Init => IInv
    BY InitQueue
  <1>2. IInv /\ [Next]_vars => IInv'
    BY StepQueue
  <1> QED BY <1>1, <1>2, PTL DEF Spec

\* An instruction writes only its destination.  SFRD, whose loop is bounded by
\* the pointer register and not by the length, does because the pointer stays
\* within the table.
THEOREM InstructionFootprint == Spec => Footprint
  <1> DEFINE Only ==
               \A i \in prog.code : execute_applied(i, TRUE) =>
                 /\ \A r \in Registers : d'[r] # d[r] => ~bad' /\ r \in Reach(i, LengthOf(i))
                 /\ \A b \in BitNumbers : bits'[b] # bits[b] => ~bad' /\ b \in BitTarget(i)
  <1>1. ASSUME IInv
        PROVE  Only
    <2> SUFFICES ASSUME NEW i \in prog.code, execute_applied(i, TRUE)
                 PROVE  /\ \A r \in Registers : d'[r] # d[r] => ~bad' /\ r \in Reach(i, LengthOf(i))
                        /\ \A b \in BitNumbers : bits'[b] # bits[b] => ~bad' /\ b \in BitTarget(i)
      OBVIOUS
    <2>1. CASE ~Valid(i)
      BY <2>1 DEF execute_applied
    <2>2. CASE Valid(i)
      <3>1. d' = WordOp(i) /\ bits' = BitOp(i) /\ ~bad'
        BY <2>2 DEF execute_applied
      <3>2. /\ i.op \in WordOps \cup BitOps /\ Decoded(i) /\ d \in RegFile /\ bits \in BitArea
            /\ prog.fifo \in BOOLEAN /\ (~prog.fifo => i.op \notin {"SFWR", "SFRD"})
        BY <1>1, Instruction DEF IInv, TypeOK, RegFile, BitArea
      <3>3. i.op = "SFRD" => d[i.a] < LengthOf(i)
        <4> SUFFICES ASSUME i.op = "SFRD" PROVE d[i.a] < LengthOf(i)
          OBVIOUS
        <4>1. prog.fifo
          BY <3>2
        <4>2. i.a = FIFO /\ LengthOf(i) = FIFO_LEN
          BY <1>1, <2>2, <4>1, QueueStep
        <4>3. d[FIFO] <= FIFO_LEN - 1 /\ d[FIFO] \in Int
          BY <1>1, <3>2, <4>1, QueueArith DEF IInv, QueueBound, RegFile
        <4> QED BY <4>2, <4>3, QueueArith
      <3>4. Within(WordOp(i), Reach(i, LengthOf(i)))
        BY <2>2, <3>2, <3>3, WordEffect
      <3>5. \A b \in BitNumbers : BitOp(i)[b] # bits[b] => b \in BitTarget(i)
        BY <2>2, <3>2, BitEffect
      <3> QED BY <3>1, <3>4, <3>5 DEF Within
    <2> QED BY <2>1, <2>2
  <1>2. IInv /\ [Next]_vars => [Only]_vars
    BY <1>1
  <1> QED BY <1>2, QueueInvariant, PTL DEF Spec, Footprint

\* A sequence with one more element at the end, and with the first one gone.
LEMMA Appended ==
    ASSUME NEW S, NEW n \in Nat, NEW s \in [1..n -> S], NEW v \in S, NEW u \in [1..(n + 1) -> S],
           \A i \in 1..n : u[i] = s[i], u[n + 1] = v
    PROVE  Len(s) = n /\ u = Append(s, v)
  <1>1. s \in Seq(S) /\ Len(s) = n
    OBVIOUS
  <1>2. Append(s, v) \in Seq(S) /\ Len(Append(s, v)) = n + 1
    BY <1>1
  <1>3. \A i \in 1..(n + 1) : Append(s, v)[i] = u[i]
    BY <1>1
  <1>4. u \in Seq(S) /\ Len(u) = n + 1
    OBVIOUS
  <1> QED BY <1>1, <1>2, <1>3, <1>4

LEMMA Removed ==
    ASSUME NEW S, NEW n \in Nat \ {0}, NEW s \in [1..n -> S], NEW u \in [1..(n - 1) -> S],
           \A i \in 1..(n - 1) : u[i] = s[i + 1]
    PROVE  s # <<>> /\ s[1] = Head(s) /\ u = Tail(s)
  <1>1. s \in Seq(S) /\ Len(s) = n /\ s # <<>>
    OBVIOUS
  <1>2. Tail(s) \in Seq(S) /\ Len(Tail(s)) = n - 1
    BY <1>1
  <1>3. \A i \in 1..(n - 1) : Tail(s)[i] = u[i]
    BY <1>1
  <1>4. u \in Seq(S) /\ Len(u) = n - 1
    OBVIOUS
  <1>5. Head(s) = s[1]
    BY <1>1
  <1> QED BY <1>1, <1>2, <1>3, <1>4, <1>5

\* The words in the table, and the register read into: what the refinement maps
\* the queue and the word got to.
Held == IF prog.fifo THEN [i \in 1..d[FIFO] |-> d[FIFO + i]] ELSE <<>>
Got == IF prog.fifo THEN d[FIFO_OUT] ELSE 0

LEMMA HeldType ==
    ASSUME IInv, prog.fifo
    PROVE  /\ d[FIFO] \in 0..(FIFO_LEN - 1) /\ d[FIFO] \in Nat /\ d \in RegFile
           /\ Held \in [1..d[FIFO] -> 0..(WORD - 1)] /\ Len(Held) = d[FIFO]
           /\ \A i \in 1..d[FIFO] : Held[i] = d[FIFO + i]
           /\ \A i \in 0..(FIFO_LEN - 1) : FIFO + i \in Registers /\ FIFO + i \in QueueArea
  <1>1. d[FIFO] \in Nat /\ d \in RegFile
    BY QueueArith DEF IInv, TypeOK, RegFile
  <1>2. d[FIFO] \in 0..(FIFO_LEN - 1)
    BY <1>1, QueueArith DEF IInv, QueueBound
  <1>3. \A i \in 0..(FIFO_LEN - 1) : FIFO + i \in Registers /\ FIFO + i \in QueueArea
    BY QueueArith DEF Registers, QueueArea
  <1>4. \A i \in 1..d[FIFO] : d[FIFO + i] \in 0..(WORD - 1)
    <2>1. \A i \in 1..d[FIFO] : i \in 0..(FIFO_LEN - 1)
      BY <1>2, QueueArith
    <2> QED BY <1>1, <1>3, <2>1 DEF RegFile
  <1>5. Held = [i \in 1..d[FIFO] |-> d[FIFO + i]]
    BY DEF Held
  <1> QED BY <1>1, <1>2, <1>3, <1>4, <1>5

\* A step that leaves the table and its register alone leaves the queue alone.
LEMMA HeldSame ==
    ASSUME IInv, UNCHANGED prog,
           prog.fifo => \A r \in QueueArea \cup {FIFO_OUT} : d'[r] = d[r]
    PROVE  Held' = Held /\ Got' = Got
  <1>1. CASE ~prog.fifo
    BY <1>1 DEF Held, Got
  <1>2. CASE prog.fifo
    <2>1. \A i \in 0..(FIFO_LEN - 1) : d'[FIFO + i] = d[FIFO + i]
      BY <1>2, HeldType
    <2>2. d'[FIFO] = d[FIFO] /\ d'[FIFO_OUT] = d[FIFO_OUT]
      BY <1>2, QueueArith DEF QueueArea
    <2>3. \A i \in 1..d[FIFO] : i \in 0..(FIFO_LEN - 1)
      BY <1>2, HeldType, QueueArith
    <2> QED BY <1>2, <2>1, <2>2, <2>3 DEF Held, Got
  <1> QED BY <1>1, <1>2

\* An SFWR is a Write, an SFRD a Read.
LEMMA PutIsWrite ==
    ASSUME IInv, NEW v \in 0..(WORD - 1), prog.fifo, UNCHANGED <<prog, m8020>>,
           d' = SFWR(v, FIFO, FIFO_LEN), m8022' = (d[FIFO] >= FIFO_LEN - 1), IInv'
    PROVE  Queue!Write(v)
  <1>1. /\ d[FIFO] \in 0..(FIFO_LEN - 1) /\ d[FIFO] \in Nat /\ d \in RegFile
        /\ Held \in [1..d[FIFO] -> 0..(WORD - 1)] /\ Len(Held) = d[FIFO]
        /\ \A i \in 1..d[FIFO] : Held[i] = d[FIFO + i]
        /\ \A i \in 0..(FIFO_LEN - 1) : FIFO + i \in Registers /\ FIFO + i \in QueueArea
    BY HeldType
  <1>2. m8022' = (Len(Held) = FIFO_LEN - 1)
    <2>1. (d[FIFO] >= FIFO_LEN - 1) = (d[FIFO] = FIFO_LEN - 1)
      BY <1>1, QueueArith
    <2> QED BY <1>1, <2>1
  <1>3. /\ Held' = (IF m8022' THEN Held ELSE Append(Held, v))
        /\ Got' = Got
    <2>1. CASE d[FIFO] >= FIFO_LEN - 1
      <3>1. d' = d
        BY <2>1 DEF SFWR
      <3>2. m8022'
        BY <2>1
      <3> QED BY <3>1, <3>2 DEF Held, Got
    <2>2. CASE d[FIFO] < FIFO_LEN - 1
      <3>1. \A x \in Registers : d'[x] =
                IF x = FIFO THEN d[FIFO] + 1 ELSE IF x = FIFO + d[FIFO] + 1 THEN v ELSE d[x]
        BY <1>1, <2>2, QueueArith, PutEffect
      <3>2. d'[FIFO] = d[FIFO] + 1
        BY <3>1, QueueArith
      <3>3. /\ FIFO_OUT # FIFO /\ FIFO_OUT # FIFO + d[FIFO] + 1
            /\ FIFO + (d[FIFO] + 1) = FIFO + d[FIFO] + 1 /\ d[FIFO] + 1 \in 0..(FIFO_LEN - 1)
            /\ FIFO # FIFO + d[FIFO] + 1
        BY <1>1, <2>2, QueueArith
      <3>4. d'[FIFO_OUT] = d[FIFO_OUT]
        BY <3>1, <3>3, QueueArith
      <3>5. d'[FIFO + (d[FIFO] + 1)] = v
        BY <1>1, <3>1, <3>3
      <3>6. ASSUME NEW i \in 1..d[FIFO]
            PROVE  d'[FIFO + i] = d[FIFO + i]
        <4>1. i \in 0..(FIFO_LEN - 1) /\ FIFO + i # FIFO /\ FIFO + i # FIFO + d[FIFO] + 1
          BY <1>1, QueueArith
        <4> QED BY <1>1, <3>1, <4>1
      <3>7. /\ Held' \in [1..(d[FIFO] + 1) -> 0..(WORD - 1)]
            /\ \A i \in 1..(d[FIFO] + 1) : Held'[i] = d'[FIFO + i]
        <4>1. Held' = [i \in 1..(d[FIFO] + 1) |-> d'[FIFO + i]]
          BY <3>2 DEF Held
        <4>2. \A i \in 1..(d[FIFO] + 1) : d'[FIFO + i] \in 0..(WORD - 1)
          <5>1. \A i \in 1..(d[FIFO] + 1) : i \in 0..(FIFO_LEN - 1)
            BY <1>1, <3>3, QueueArith
          <5>2. d' \in [Registers -> 0..(WORD - 1)]
            BY DEF IInv, TypeOK
          <5> QED BY <1>1, <5>1, <5>2
        <4> QED BY <4>1, <4>2
      <3>8. Held' = Append(Held, v)
        <4> DEFINE n == d[FIFO]
                   u == Held'
        <4>1. n \in Nat /\ Held \in [1..n -> 0..(WORD - 1)] /\ u \in [1..(n + 1) -> 0..(WORD - 1)]
          BY <1>1, <3>7
        <4>2. \A i \in 1..n : u[i] = Held[i]
          <5>1. \A i \in 1..n : i \in 1..(n + 1)
            BY <1>1
          <5> QED BY <1>1, <3>6, <3>7, <5>1
        <4>3. u[n + 1] = v
          <5>1. n + 1 \in 1..(n + 1)
            BY <1>1
          <5> QED BY <3>5, <3>7, <5>1
        <4> HIDE DEF n, u
        <4>4. u = Append(Held, v)
          BY <4>1, <4>2, <4>3, Appended
        <4> QED BY <4>4 DEF u
      <3>9. ~m8022'
        <4>1. ~(d[FIFO] >= FIFO_LEN - 1)
          BY <1>1, <2>2, QueueArith
        <4> QED BY <4>1
      <3> QED BY <3>4, <3>8, <3>9 DEF Got
    <2> QED BY <1>1, <2>1, <2>2, QueueArith
  <1> QED BY <1>2, <1>3 DEF Queue!Write, Held, Got

LEMMA TakeIsRead ==
    ASSUME IInv, prog.fifo, UNCHANGED <<prog, m8022>>,
           d' = SFRD(FIFO, FIFO_OUT, FIFO_LEN), m8020' = (d[FIFO] = 0), IInv'
    PROVE  Queue!Read
  <1>1. /\ d[FIFO] \in 0..(FIFO_LEN - 1) /\ d[FIFO] \in Nat /\ d \in RegFile
        /\ Held \in [1..d[FIFO] -> 0..(WORD - 1)] /\ Len(Held) = d[FIFO]
        /\ \A i \in 1..d[FIFO] : Held[i] = d[FIFO + i]
        /\ \A i \in 0..(FIFO_LEN - 1) : FIFO + i \in Registers /\ FIFO + i \in QueueArea
    BY HeldType
  <1>2. CASE d[FIFO] = 0
    <2>1. d' = d /\ m8020'
      BY <1>2 DEF SFRD
    <2>2. Held = <<>>
      BY <1>1, <1>2
    <2>3. Held' = Held /\ Got' = Got
      BY <2>1 DEF Held, Got
    <2> QED BY <2>1, <2>2, <2>3 DEF Queue!Read, Held, Got
  <1>3. CASE d[FIFO] # 0
    <2> DEFINE n == d[FIFO]
               u == Held'
    <2>1. /\ d'[FIFO_OUT] = d[FIFO + 1] /\ d'[FIFO] = n - 1
          /\ \A j \in 1..(n - 1) : d'[FIFO + j] = d[FIFO + j + 1]
      BY <1>1, <1>3, QueueArith, TakeMoves
    <2>2. n \in Nat \ {0} /\ Held \in [1..n -> 0..(WORD - 1)]
      BY <1>1, <1>3
    <2>3. u = [j \in 1..(n - 1) |-> d'[FIFO + j]]
      BY <2>1 DEF Held
    <2>4. \A j \in 1..(n - 1) : j + 1 \in 1..n /\ FIFO + (j + 1) = FIFO + j + 1
      BY <2>2, QueueArith
    <2>5. \A j \in 1..(n - 1) : Held[j + 1] = d[FIFO + j + 1]
      BY <1>1, <2>4
    <2>6. \A j \in 1..(n - 1) : u[j] = Held[j + 1]
      BY <2>1, <2>3, <2>5
    <2>7. u \in [1..(n - 1) -> 0..(WORD - 1)]
      <3>1. \A j \in 1..(n - 1) : Held[j + 1] \in 0..(WORD - 1)
        BY <2>2, <2>4
      <3>2. \A j \in 1..(n - 1) : d'[FIFO + j] \in 0..(WORD - 1)
        BY <2>1, <2>5, <3>1
      <3> QED BY <2>3, <3>2
    <2>8. Held[1] = d[FIFO + 1]
      <3>1. 1 \in 1..n
        BY <2>2
      <3> QED BY <1>1, <3>1
    <2> HIDE DEF n, u
    <2>9. Held # <<>> /\ Held[1] = Head(Held) /\ u = Tail(Held)
      BY <2>2, <2>6, <2>7, Removed
    <2>10. Got' = Head(Held) /\ Held' = Tail(Held) /\ ~m8020'
      BY <1>3, <2>1, <2>8, <2>9 DEF Got, u
    <2>11. m8020' = (Held = <<>>)
      <3>1. (d[FIFO] = 0) = FALSE /\ (Held = <<>>) = FALSE
        BY <1>3, <2>9
      <3> QED BY <3>1
    <2> QED BY <2>10, <2>11 DEF Queue!Read, Held, Got
  <1> QED BY <1>2, <1>3

\* SFWR and SFRD are a first-in first-out queue of FIFO_LEN - 1 words: every
\* step of a program is a Write, a Read or none of the queue's.
THEOREM QueueRefinement == Spec => ImplementsQueue
  <1>1. Init => Queue!Init
    <2> SUFFICES ASSUME Init PROVE Queue!Init
      OBVIOUS
    <2>1. d[FIFO] = 0 /\ d[FIFO_OUT] = 0
      BY QueueArith DEF Init
    <2>2. Held = <<>> /\ Got = 0
      BY <2>1 DEF Held, Got
    <2> QED BY <2>2 DEF Queue!Init, Held, Got, Init
  <1>2. IInv /\ IInv' /\ [Next]_vars => [Queue!Next]_(Queue!qvars)
    <2> SUFFICES ASSUME IInv, IInv', [Next]_vars
                 PROVE  Queue!Next \/ UNCHANGED <<Held, Got, m8022, m8020>>
      BY DEF Queue!qvars, Held, Got
    <2>1. ASSUME NEW i \in prog.code, NEW enabled \in BOOLEAN, execute_applied(i, enabled)
          PROVE  Queue!Next \/ UNCHANGED <<Held, Got, m8022, m8020>>
      <3>1. UNCHANGED prog
        BY <2>1 DEF execute_applied
      <3>2. CASE ~(Valid(i) /\ enabled)
        <4>1. UNCHANGED <<d, m8022, m8020>>
          BY <2>1, <3>2 DEF execute_applied
        <4> QED BY <3>1, <4>1 DEF Held, Got
      <3>3. CASE Valid(i) /\ enabled
        <4>1. d' = WordOp(i)
          BY <2>1, <3>3 DEF execute_applied
        <4>2. prog.fifo \in BOOLEAN /\ (~prog.fifo => i.op \notin {"SFWR", "SFRD"})
          BY Instruction DEF IInv
        <4>3. CASE i.op = "SFWR"
          <5>1. i.t = FIFO /\ LengthOf(i) = FIFO_LEN /\ Value(i.s) \in 0..(WORD - 1)
            BY <3>3, <4>2, <4>3, QueueStep
          <5>2. d' = SFWR(Value(i.s), FIFO, FIFO_LEN)
            BY <4>1, <4>3, <5>1 DEF WordOp
          <5>3. m8022' = (d[FIFO] >= FIFO_LEN - 1)
            BY <2>1, <3>3, <4>3, <5>1 DEF execute_applied
          <5>4. UNCHANGED m8020
            BY <2>1, <4>3 DEF execute_applied
          <5>5. PICK v \in 0..(WORD - 1) : v = Value(i.s)
            BY <5>1
          <5>6. d' = SFWR(v, FIFO, FIFO_LEN)
            BY <5>2, <5>5
          <5>7. Queue!Write(v)
            BY <3>1, <4>2, <4>3, <5>3, <5>4, <5>6, PutIsWrite
          <5> QED BY <5>7 DEF Queue!Next
        <4>4. CASE i.op = "SFRD"
          <5>1. i.a = FIFO /\ i.t = FIFO_OUT /\ LengthOf(i) = FIFO_LEN
            BY <3>3, <4>2, <4>4, QueueStep
          <5>2. d' = SFRD(FIFO, FIFO_OUT, FIFO_LEN)
            BY <4>1, <4>4, <5>1 DEF WordOp
          <5>3. m8020' = (d[FIFO] = 0)
            BY <2>1, <3>3, <4>4, <5>1 DEF execute_applied
          <5>4. UNCHANGED m8022
            BY <2>1, <4>4 DEF execute_applied
          <5>5. Queue!Read
            BY <3>1, <4>2, <4>4, <5>1, <5>2, <5>3, <5>4, TakeIsRead
          <5> QED BY <5>5 DEF Queue!Next
        <4>5. CASE i.op \notin {"SFWR", "SFRD"}
          <5>1. UNCHANGED <<m8022, m8020>>
            BY <2>1, <4>5 DEF execute_applied
          <5>2. prog.fifo => \A r \in QueueArea \cup {FIFO_OUT} : d'[r] = d[r]
            BY <3>3, <4>1, <4>5, QueueStep
          <5> QED BY <3>1, <5>1, <5>2, HeldSame
        <4> QED BY <4>3, <4>4, <4>5
      <3> QED BY <3>2, <3>3
    <2>2. ASSUME NEW r \in prog.host, NEW v \in prog.values, HostWrite(r, v)
          PROVE  UNCHANGED <<Held, Got, m8022, m8020>>
      <3>1. UNCHANGED <<prog, m8022, m8020>> /\ d' = [d EXCEPT ![r] = v]
        BY <2>2 DEF HostWrite
      <3>2. prog.fifo => \A x \in QueueArea \cup {FIFO_OUT} : d'[x] = d[x]
        <4> SUFFICES ASSUME prog.fifo, NEW x \in QueueArea \cup {FIFO_OUT} PROVE d'[x] = d[x]
          OBVIOUS
        <4>1. prog.host \cap (QueueArea \cup {FIFO_OUT}) = {}
          BY QueueAssumption DEF IInv, TypeOK
        <4>2. x \in Registers /\ d \in RegFile
          BY QueueArith DEF QueueArea, Registers, IInv, TypeOK, RegFile
        <4> QED BY <3>1, <4>1, <4>2 DEF RegFile
      <3> QED BY <3>1, <3>2, HeldSame
    <2>3. CASE UNCHANGED <<prog, d, m8022, m8020>>
      BY <2>3 DEF Held, Got
    <2> QED BY <2>1, <2>2, <2>3 DEF Next, Field, Count, vars
  <1> QED BY <1>1, <1>2, QueueInvariant, PTL DEF Spec, ImplementsQueue, Queue!Spec

(***************************************************************************)
(* What is computed                                                        *)
(***************************************************************************)

\* Any integer cut to a word and read as signed is it but for a multiple of the
\* size of a word, and is it when it fits.
LEMMA SignedMod ==
    ASSUME NEW x \in Int
    PROVE  /\ \E c \in Int : Signed(x % WORD) = x + WORD * c
           /\ -(WORD \div 2) <= x /\ x < WORD \div 2 => Signed(x % WORD) = x
  <1> DEFINE H == WORD \div 2
             m == x % WORD
             q == x \div WORD
  <1>1. WORD \in Nat \ {0} /\ H \in Nat /\ WORD = 2 * H
    BY WordSize
  <1>2. m \in 0..(WORD - 1) /\ q \in Int /\ x = WORD * q + m
    BY <1>1, DivMod
  <1>3. Signed(m) = IF m >= H THEN m - WORD ELSE m
    BY DEF Signed
  <1>4. ASSUME -H <= x, x < H
        PROVE  Signed(x % WORD) = x
    <2>1. CASE x >= 0
      <3>1. m = x
        BY <1>1, <1>4, <2>1, ModWord
      <3>2. ~(m >= H)
        BY <1>1, <1>4, <3>1
      <3> QED BY <1>3, <3>1, <3>2
    <2>2. CASE x < 0
      <3>1. x = WORD * (-1) + (x + WORD) /\ 0 <= x + WORD /\ x + WORD < WORD /\ x + WORD \in Int
        BY <1>1, <1>4, <2>2
      <3>2. m = x + WORD
        BY <1>1, <3>1, DivUnique
      <3> QED BY <1>1, <1>3, <1>4, <2>2, <3>2
    <2> QED BY <2>1, <2>2
  <1>5. \E c \in Int : Signed(x % WORD) = x + WORD * c
    <2>1. WORD * q \in Int /\ WORD * (-q) = -(WORD * q) /\ WORD * (-q - 1) = -(WORD * q) - WORD
      BY <1>1, <1>2
    <2>2. m = x + WORD * (-q) /\ m - WORD = x + WORD * (-q - 1)
      BY <1>1, <1>2, <2>1
    <2>3. -q \in Int /\ -q - 1 \in Int
      BY <1>2
    <2> QED BY <1>3, <2>2, <2>3
  <1> HIDE DEF H, m
  <1> QED BY <1>4, <1>5 DEF H

\* A pair of registers holds what was split into it.
LEMMA PairSplit ==
    ASSUME NEW v \in Nat, v < WORD * WORD
    PROVE  /\ (v % WORD) + WORD * ((v \div WORD) % WORD) = v
           /\ v \div WORD \in 0..(WORD - 1) /\ (v \div WORD) % WORD = v \div WORD
           /\ v % WORD \in 0..(WORD - 1)
  <1> DEFINE q == v \div WORD
             r == v % WORD
  <1>1. WORD \in Nat \ {0}
    BY WordSize
  <1>2. q \in Int /\ r \in 0..(WORD - 1) /\ v = WORD * q + r /\ q \in Nat
    <2>1. v \in Int /\ v >= 0
      OBVIOUS
    <2>2. /\ v \div WORD \in Int /\ v % WORD \in 0..(WORD - 1)
          /\ v = WORD * (v \div WORD) + (v % WORD)
          /\ v >= 0 => v \div WORD \in Nat
      BY <1>1, <2>1, DivMod
    <2> QED BY <2>1, <2>2
  <1>3. q < WORD
    <2> SUFFICES ASSUME q >= WORD PROVE FALSE
      BY <1>1, <1>2
    <2>1. \A x, y, z \in Nat : y >= x => z * y >= z * x
      <3> SUFFICES ASSUME NEW x \in Nat, NEW y \in Nat, NEW z \in Nat, y >= x PROVE z * y >= z * x
        OBVIOUS
      <3>1. \A a, b \in Nat : a * b \in Nat
        OBVIOUS
      <3>2. z * (y - x) \in Nat /\ z * (y - x) = z * y - z * x /\ z * y \in Nat /\ z * x \in Nat
        <4>1. y - x \in Nat
          OBVIOUS
        <4> QED BY <3>1, <4>1
      <3> QED BY <3>2
    <2>2. WORD * q >= WORD * WORD
      BY <1>1, <1>2, <2>1
    <2>3. WORD * q \in Int /\ WORD * WORD \in Int
      BY <1>1, <1>2
    <2> QED BY <1>1, <1>2, <2>2, <2>3
  <1>4. q \in 0..(WORD - 1)
    BY <1>1, <1>2, <1>3
  <1>5. q % WORD = q
    BY <1>2, <1>4, ModWord
  <1> HIDE DEF q, r
  <1>6. r + WORD * (q % WORD) = v
    <2>1. WORD * q \in Int
      BY <1>1, <1>2
    <2> QED BY <1>1, <1>2, <1>5, <2>1
  <1> QED BY <1>2, <1>4, <1>5, <1>6 DEF q, r

\* DIV.
LEMMA DivComputes ==
    ASSUME d \in RegFile, NEW u \in 0..(WORD - 1), NEW v \in 0..(WORD - 1), v # 0,
           NEW t \in Nat, t + 1 < PLC_NUM_D
    PROVE  LET a == Signed(u)
               b == Signed(v)
               q == Signed(DIV(u, v, t)[t])
               r == Signed(DIV(u, v, t)[t + 1])
           IN /\ (q * b + r - a) % WORD = 0
              /\ Magnitude(r) < Magnitude(b) /\ (r = 0 \/ (r < 0) = (a < 0))
  <1> DEFINE a == Signed(u)
             b == Signed(v)
             Q == quotient(a, b)
             R == remainder(a, b)
             q == Signed(DIV(u, v, t)[t])
             r == Signed(DIV(u, v, t)[t + 1])
             H == WORD \div 2
  <1>1. a \in Int /\ b \in Int /\ b # 0 /\ -H <= b /\ b < H
    BY SignedType
  <1>2. WORD \in Nat \ {0} /\ H \in Nat /\ t \in Registers /\ t + 1 \in Registers /\ t # t + 1
    BY WordSize DEF Registers
  <1>3. DIV(u, v, t)[t] = Q % WORD /\ DIV(u, v, t)[t + 1] = R % WORD
    BY <1>2, DivEffect
  <1>4. q = Signed(Q % WORD) /\ r = Signed(R % WORD)
    BY <1>3
  <1> HIDE DEF a, b, q, r
  <1>5. /\ Q \in Int /\ R \in Int /\ a = b * Q + R
        /\ Magnitude(R) < Magnitude(b) /\ (R = 0 \/ (R < 0 <=> a < 0))
    BY <1>1, Division
  <1> HIDE DEF Q, R
  <1>6. -H <= R /\ R < H
    BY <1>1, <1>2, <1>5 DEF Magnitude
  <1>7. r = R
    <2> HIDE DEF H
    <2>1. -(WORD \div 2) <= R /\ R < WORD \div 2
      BY <1>6 DEF H
    <2> QED BY <1>4, <1>5, <2>1, SignedMod
  <1>8. PICK c \in Int : q = Q + WORD * c
    BY <1>4, <1>5, SignedMod
  <1>9. (q * b + r - a) % WORD = 0
    <2>1. (Q + WORD * c) * b = b * Q + WORD * (c * b)
      BY <1>1, <1>2, <1>5
    <2>2. c * b \in Int /\ b * Q \in Int
      BY <1>1, <1>5
    <2>3. WORD * (c * b) \in Int
      BY <1>2, <2>2
    <2>4. q * b + r - a = WORD * (c * b) + 0 /\ q * b + r - a \in Int
      BY <1>1, <1>5, <1>7, <1>8, <2>1, <2>2, <2>3
    <2>5. 0 <= 0 /\ 0 < WORD /\ 0 \in Int
      BY <1>2
    <2> DEFINE e == q * b + r - a
    <2> HIDE DEF e
    <2>6. e = WORD * (c * b) + 0 /\ e \in Int
      BY <2>4 DEF e
    <2>7. e % WORD = 0
      BY <1>2, <2>2, <2>5, <2>6, DivUnique
    <2> QED BY <2>7 DEF e
  <1> QED BY <1>5, <1>7, <1>9 DEF a, b, q, r

\* DDIV.
LEMMA TimeComputes ==
    ASSUME d \in RegFile, NEW x \in Nat, NEW y \in Nat \ {0}, x < WORD * WORD, y < WORD * WORD,
           NEW t \in Nat, t + 3 < PLC_NUM_D
    PROVE  LET h == DDIV_TIME(x, y, t)
               r == h[t + 2] + WORD * h[t + 3]
           IN (h[t] + WORD * h[t + 1]) * y + r = x /\ r < y
  <1>0. TimeWritten(DDIV_TIME(x, y, t), x \div y, x % y, t)
    <2>1. t \in Int
      OBVIOUS
    <2> QED BY <2>1, TimeEffect
  <1> DEFINE h == DDIV_TIME(x, y, t)
             Q == x \div y
             R == x % y
  <1>1. /\ t \in Registers /\ t + 1 \in Registers /\ t + 2 \in Registers /\ t + 3 \in Registers
        /\ WORD \in Nat \ {0}
    BY WordSize DEF Registers
  <1>2. Q \in Nat /\ R \in 0..(y - 1) /\ x = y * Q + R
    <2>1. x \in Int /\ x >= 0
      OBVIOUS
    <2>2. /\ x \div y \in Int /\ x % y \in 0..(y - 1) /\ x = y * (x \div y) + (x % y)
          /\ x >= 0 => x \div y \in Nat
      BY <2>1, DivMod
    <2> QED BY <2>1, <2>2
  <1>3. TimeWritten(h, Q, R, t)
    BY <1>0
  <1> HIDE DEF h, Q, R
  <1>4. /\ h[t] = Q % WORD /\ h[t + 1] = (Q \div WORD) % WORD
        /\ h[t + 2] = R % WORD /\ h[t + 3] = (R \div WORD) % WORD
    BY <1>1, <1>3 DEF TimeWritten
  <1>5. Q <= x /\ y * Q \in Nat
    <2>1. \A a \in Nat \ {0} : \A b \in Nat : b <= a * b /\ a * b \in Nat
      OBVIOUS
    <2>2. Q <= y * Q /\ y * Q \in Nat
      BY <1>2, <2>1
    <2> QED BY <1>2, <2>2
  <1>6. WORD * WORD \in Nat
    BY <1>1
  <1>7. Q < WORD * WORD /\ R \in Nat /\ R < WORD * WORD /\ R < y
    BY <1>2, <1>5, <1>6
  <1>8. (Q % WORD) + WORD * ((Q \div WORD) % WORD) = Q
    BY <1>2, <1>7, PairSplit
  <1>9. (R % WORD) + WORD * ((R \div WORD) % WORD) = R
    BY <1>7, PairSplit
  <1>10. h[t] + WORD * h[t + 1] = Q /\ h[t + 2] + WORD * h[t + 3] = R
    BY <1>4, <1>8, <1>9
  <1>11. Q * y + R = x
    <2>1. Q * y = y * Q
      BY <1>2
    <2> QED BY <1>2, <2>1
  <1>12. (h[t] + WORD * h[t + 1]) * y + (h[t + 2] + WORD * h[t + 3]) = x
         /\ h[t + 2] + WORD * h[t + 3] < y
    BY <1>7, <1>10, <1>11
  <1> QED BY <1>12 DEF h

\* MUL.
LEMMA MulComputes ==
    ASSUME d \in RegFile, NEW u \in 0..(WORD - 1), NEW v \in 0..(WORD - 1),
           NEW t \in Nat, t + 1 < PLC_NUM_D
    PROVE  MUL(u, v, t)[t] + WORD * Signed(MUL(u, v, t)[t + 1]) = Signed(u) * Signed(v)
  <1> DEFINE x == Signed(u)
             y == Signed(v)
             H == WORD \div 2
             P == x * y
             p == P % (WORD * WORD)
             g == MUL(u, v, t)
  <1>1. WORD \in Nat \ {0} /\ H \in Nat \ {0} /\ WORD = 2 * H /\ WORD * WORD \in Nat \ {0}
    <2>1. WORD \in Nat \ {0} /\ H \in Nat \ {0} /\ WORD = 2 * H
      BY WordSize
    <2>2. \A a \in Nat \ {0} : a * a \in Nat \ {0}
      OBVIOUS
    <2> QED BY <2>1, <2>2
  <1>2. x \in Int /\ y \in Int /\ -H <= x /\ x < H /\ -H <= y /\ y < H
    BY SignedType
  <1>3. t \in Registers /\ t + 1 \in Registers
    BY WordSize DEF Registers
  <1>4. p \in 0..(WORD * WORD - 1) /\ g[t] = p % WORD /\ g[t + 1] = (p \div WORD) % WORD
    <2>1. t # t + 1
      OBVIOUS
    <2> QED BY <1>3, <2>1, MulEffect
  <1> HIDE DEF x, y, H, g
  <1>5. P \in Int /\ -(H * H) <= P /\ P <= H * H /\ H * H \in Nat
    <2>1. \A a, b \in Nat : a * b \in Nat
      OBVIOUS
    <2>2. \A a, b \in Int : a * b \in Int
      OBVIOUS
    <2>3. (H - x) * (H - y) \in Nat /\ (H + x) * (H + y) \in Nat
          /\ (H + x) * (H - y) \in Nat /\ (H - x) * (H + y) \in Nat
      <3>1. H - x \in Nat /\ H + x \in Nat /\ H - y \in Nat /\ H + y \in Nat
        BY <1>1, <1>2
      <3> QED BY <2>1, <3>1
    <2>4. /\ (H - x) * (H - y) = H * H - H * y - H * x + P
          /\ (H + x) * (H + y) = H * H + H * y + H * x + P
          /\ (H + x) * (H - y) = H * H - H * y + H * x - P
          /\ (H - x) * (H + y) = H * H + H * y - H * x - P
      BY <1>1, <1>2
    <2>5. P \in Int /\ H * H \in Nat /\ H * x \in Int /\ H * y \in Int
      BY <1>1, <1>2, <2>1, <2>2
    <2> QED BY <2>3, <2>4, <2>5
  <1> HIDE DEF P
  <1>6. WORD * WORD = 4 * (H * H) /\ WORD * H = 2 * (H * H)
    <2>1. (2 * H) * (2 * H) = 4 * (H * H) /\ (2 * H) * H = 2 * (H * H)
      BY <1>1
    <2> QED BY <1>1, <2>1
  <1>7. p = IF P >= 0 THEN P ELSE P + WORD * WORD
    <2>1. CASE P >= 0
      <3>1. P = (WORD * WORD) * 0 + P /\ P < WORD * WORD
        BY <1>1, <1>5, <1>6, <2>1
      <3> QED BY <1>1, <1>5, <2>1, <3>1, DivUnique
    <2>2. CASE P < 0
      <3> DEFINE e == P + WORD * WORD
      <3>1. P = (WORD * WORD) * (-1) + e /\ 0 <= e /\ e < WORD * WORD /\ e \in Int
        BY <1>1, <1>5, <1>6, <2>2
      <3> HIDE DEF e
      <3>2. P % (WORD * WORD) = e
        BY <1>1, <1>5, <3>1, DivUnique
      <3> QED BY <2>2, <3>2, <1>5 DEF e
    <2> QED BY <1>5, <2>1, <2>2
  <1> HIDE DEF p
  <1> DEFINE low == p % WORD
             high == p \div WORD
  <1>8. p \in Nat /\ p < WORD * WORD
    BY <1>1, <1>4
  <1>9. high \in 0..(WORD - 1) /\ high % WORD = high /\ low + WORD * high = p /\ low \in 0..(WORD - 1)
    <2>1. /\ (p % WORD) + WORD * ((p \div WORD) % WORD) = p
          /\ p \div WORD \in 0..(WORD - 1) /\ (p \div WORD) % WORD = p \div WORD
          /\ p % WORD \in 0..(WORD - 1)
      BY <1>8, PairSplit
    <2> QED BY <2>1
  <1>10. g[t] = low /\ g[t + 1] = high
    BY <1>4, <1>9
  <1> HIDE DEF low, high
  <1>11. Signed(high) = IF high >= H THEN high - WORD ELSE high
    BY DEF Signed, H
  <1>12. high >= H <=> P < 0
    <2>1. \A a \in Nat : (a >= H => WORD * a >= WORD * H) /\ (a < H => WORD * a + WORD <= WORD * H)
      <3> SUFFICES ASSUME NEW a \in Nat
                   PROVE  (a >= H => WORD * a >= WORD * H) /\ (a < H => WORD * a + WORD <= WORD * H)
        OBVIOUS
      <3>1. \A b, c \in Nat : b * c \in Nat
        OBVIOUS
      <3>2. a >= H => WORD * (a - H) \in Nat
        BY <1>1, <3>1
      <3>3. a < H => WORD * (H - 1 - a) \in Nat
        BY <1>1, <3>1
      <3>4. /\ WORD * (a - H) = WORD * a - WORD * H
            /\ WORD * (H - 1 - a) = WORD * H - WORD - WORD * a
            /\ WORD * a \in Int /\ WORD * H \in Int
        BY <1>1
      <3> QED BY <1>1, <3>2, <3>3, <3>4
    <2>2. high \in Nat /\ low \in Nat /\ low < WORD /\ WORD * high \in Nat
      BY <1>1, <1>9
    <2>3. CASE P >= 0
      <3>1. p <= H * H /\ p < 2 * (H * H)
        <4>1. H * H # 0
          BY <1>1
        <4> QED BY <1>5, <1>7, <2>3, <4>1
      <3>2. WORD * high < WORD * H
        BY <1>5, <1>6, <1>9, <2>2, <3>1
      <3>3. ~(high >= H)
        BY <2>1, <2>2, <3>2, <1>5, <1>6
      <3> QED BY <2>3, <3>3, <1>5
    <2>4. CASE P < 0
      <3>1. p >= 3 * (H * H)
        BY <1>5, <1>6, <1>7, <2>4
      <3>2. ~(WORD * high + WORD <= WORD * H)
        <4>1. H * H \in Nat /\ p < WORD * high + WORD
          BY <1>5, <1>9, <2>2, <1>1
        <4> QED BY <1>1, <1>5, <1>6, <1>8, <2>2, <3>1, <4>1
      <3>3. high >= H
        BY <1>1, <2>1, <2>2, <3>2
      <3> QED BY <2>4, <3>3
    <2> QED BY <1>5, <2>3, <2>4
  <1>13. low + WORD * Signed(high) = P
    <2>1. high \in Nat /\ WORD * (high - WORD) = WORD * high - WORD * WORD /\ WORD * high \in Nat
      BY <1>1, <1>9
    <2>2. low \in Int
      BY <1>9
    <2>3. CASE P >= 0
      BY <1>5, <1>7, <1>9, <1>11, <1>12, <2>3
    <2>4. CASE P < 0
      BY <1>1, <1>5, <1>7, <1>9, <1>11, <1>12, <2>1, <2>2, <2>4
    <2> QED BY <1>5, <2>3, <2>4
  <1> QED BY <1>10, <1>13 DEF g, P, x, y

\* The bits of a word shifted down.
LEMMA BitsDown ==
    ASSUME NEW v \in Nat, NEW n \in Nat, NEW j \in Nat
    PROVE  BitOf(v \div Pow2[n], j) = BitOf(v, j + n)
  <1>1. Pow2[n] \in Nat \ {0} /\ Pow2[j] \in Nat \ {0}
    BY Pow2Def
  <1>2. (v \div Pow2[n]) \div Pow2[j] = v \div (Pow2[n] * Pow2[j])
    BY <1>1, DivDiv
  <1>3. Pow2[n + j] = Pow2[n] * Pow2[j] /\ n + j = j + n
    BY Pow2Sum
  <1> QED BY <1>2, <1>3 DEF BitOf

\* What is left of a word shifted up by m places.
CutUp(v, m) == (v * Pow2[m]) % WORD

\* Its bits: zeroes below, and the bits of the word m places up.
LEMMA BitsUp ==
    ASSUME NEW v \in Nat, NEW m \in Nat, NEW j \in Nat, j < WIDTH
    PROVE  BitOf(CutUp(v, m), j) = IF j < m THEN 0 ELSE BitOf(v, j - m)
  <1>1. Pow2[m] \in Nat \ {0} /\ Pow2[j] \in Nat \ {0} /\ WORD \in Nat \ {0} /\ WIDTH \in Nat
    BY Pow2Def, WordSize, AppliedAssumption
  <1> DEFINE x == v * Pow2[m]
             r == x % WORD
             c == x \div WORD
  <1>2. x \in Nat
    <2>1. \A a, b \in Nat : a * b \in Nat
      OBVIOUS
    <2> QED BY <1>1, <2>1
  <1>3. x = Pow2[m] * v
    BY <1>1
  <1> HIDE DEF x
  <1>4. r \in Nat /\ c \in Nat /\ x = WORD * c + r /\ WORD * c \in Nat
    <2>1. x \in Int /\ x >= 0
      BY <1>2
    <2>2. /\ c \in Int /\ r \in 0..(WORD - 1) /\ x = WORD * c + r
          /\ x >= 0 => c \in Nat
      BY <1>1, <2>1, DivMod
    <2>3. \A a, b \in Nat : a * b \in Nat
      OBVIOUS
    <2>4. c \in Nat
      BY <2>1, <2>2
    <2>5. WORD * c \in Nat
      BY <1>1, <2>3, <2>4
    <2>6. r \in Nat
      BY <1>1, <2>2
    <2> QED BY <2>2, <2>4, <2>5, <2>6
  <1> HIDE DEF r, c
  <1>5. BitOf(r, j) = BitOf(x, j)
    <2>1. BitOf(r + Pow2[WIDTH] * c, j) = BitOf(r, j)
      BY <1>1, <1>4, BitHigh
    <2>2. x = r + Pow2[WIDTH] * c
      BY <1>4 DEF WORD
    <2> QED BY <2>1, <2>2
  <1>6. ASSUME j < m
        PROVE  BitOf(r, j) = 0
    <2>1. BitOf(0 + Pow2[m] * v, j) = BitOf(0, j)
      BY <1>6, BitHigh
    <2>2. 0 + Pow2[m] * v = x
      BY <1>2, <1>3
    <2>3. BitOf(0, j) = 0
      <3>1. 0 \in Nat /\ 0 < Pow2[0] /\ j >= 0
        BY Pow2Def
      <3> QED BY <3>1, BitTop
    <2> QED BY <1>5, <2>1, <2>2, <2>3
  <1>7. ASSUME j >= m
        PROVE  BitOf(r, j) = BitOf(v, j - m)
    <2>1. j - m \in Nat /\ m + (j - m) = j
      BY <1>7
    <2>2. Pow2[j] = Pow2[m] * Pow2[j - m] /\ Pow2[j - m] \in Nat \ {0}
      <3>1. Pow2[m + (j - m)] = Pow2[m] * Pow2[j - m]
        BY <2>1, Pow2Sum
      <3> QED BY <2>1, <3>1, Pow2Def
    <2>3. (x \div Pow2[m]) \div Pow2[j - m] = x \div Pow2[j]
      BY <1>1, <1>2, <2>2, DivDiv
    <2>4. x \div Pow2[m] = v
      <3>1. x = Pow2[m] * v + 0 /\ x \in Int /\ v \in Int /\ 0 < Pow2[m]
        BY <1>1, <1>2, <1>3
      <3> QED BY <1>1, <3>1, DivUnique
    <2>5. BitOf(x, j) = BitOf(v, j - m)
      BY <2>3, <2>4 DEF BitOf
    <2> QED BY <1>5, <2>5
  <1>8. CutUp(v, m) = r
    BY DEF r, x, CutUp
  <1>9. BitOf(r, j) = IF j < m THEN 0 ELSE BitOf(v, j - m)
    BY <1>6, <1>7
  <1> QED BY <1>8, <1>9

\* ROR and ROL.
LEMMA TurnComputes ==
    ASSUME NEW v \in 0..(WORD - 1), NEW n \in Nat, NEW j \in 0..(WIDTH - 1)
    PROVE  /\ BitOf(ROR(v, rotated_by(n)), j) = BitOf(v, (j + n) % WIDTH)
           /\ BitOf(ROL(v, rotated_by(n)), j) = BitOf(v, (j - n) % WIDTH)
  <1> DEFINE k == n % WIDTH
             c == n \div WIDTH
  <1>1. WIDTH \in Nat \ {0} /\ v \in Nat /\ v < Pow2[WIDTH] /\ j \in Nat /\ j < WIDTH /\ WORD \in Nat
    BY AppliedAssumption, WordSize DEF WORD
  <1>2. k \in Nat /\ k < WIDTH /\ c \in Int /\ n = WIDTH * c + k
    <2>1. c \in Int /\ k \in 0..(WIDTH - 1) /\ n = WIDTH * c + k
      <3>1. n \in Int
        OBVIOUS
      <3> QED BY <1>1, <3>1, DivMod
    <2> QED BY <1>1, <2>1
  <1>3. rotated_by(n) = k
    BY DEF rotated_by
  <1> HIDE DEF k, c
  <1>4. WIDTH * c \in Int /\ WIDTH * (c + 1) = WIDTH * c + WIDTH
        /\ WIDTH * (-c) = -(WIDTH * c) /\ WIDTH * (-c - 1) = -(WIDTH * c) - WIDTH
    BY <1>1, <1>2
  <1>5. (j + n) % WIDTH = IF j + k < WIDTH THEN j + k ELSE j + k - WIDTH
    <2>1. CASE j + k < WIDTH
      <3>1. j + n = WIDTH * c + (j + k) /\ j + n \in Int /\ j + k \in Int /\ 0 <= j + k
        BY <1>1, <1>2, <1>4
      <3>2. (j + n) % WIDTH = j + k
        BY <1>1, <1>2, <2>1, <3>1, DivUnique
      <3> QED BY <2>1, <3>2
    <2>2. CASE j + k >= WIDTH
      <3>1. j + n = WIDTH * (c + 1) + (j + k - WIDTH) /\ j + n \in Int /\ j + k - WIDTH \in Int
            /\ 0 <= j + k - WIDTH /\ j + k - WIDTH < WIDTH /\ c + 1 \in Int
        BY <1>1, <1>2, <1>4, <2>2
      <3>2. (j + n) % WIDTH = j + k - WIDTH
        BY <1>1, <3>1, DivUnique
      <3> QED BY <1>1, <1>2, <2>2, <3>2
    <2> QED BY <1>1, <1>2, <2>1, <2>2
  <1>6. (j - n) % WIDTH = IF j >= k THEN j - k ELSE j - k + WIDTH
    <2>1. CASE j >= k
      <3>1. j - n = WIDTH * (-c) + (j - k) /\ j - n \in Int /\ j - k \in Int /\ 0 <= j - k
            /\ j - k < WIDTH /\ -c \in Int
        BY <1>1, <1>2, <1>4, <2>1
      <3>2. (j - n) % WIDTH = j - k
        BY <1>1, <3>1, DivUnique
      <3> QED BY <2>1, <3>2
    <2>2. CASE j < k
      <3>1. j - n = WIDTH * (-c - 1) + (j - k + WIDTH) /\ j - n \in Int /\ j - k + WIDTH \in Int
            /\ 0 <= j - k + WIDTH /\ j - k + WIDTH < WIDTH /\ -c - 1 \in Int
        BY <1>1, <1>2, <1>4, <2>2
      <3>2. (j - n) % WIDTH = j - k + WIDTH
        BY <1>1, <3>1, DivUnique
      <3> QED BY <1>1, <1>2, <2>2, <3>2
    <2> QED BY <1>1, <1>2, <2>1, <2>2
  <1>7. \A a, b : BitOf(WOR(a, b), j) = 1 <=> BitOf(a, j) = 1 \/ BitOf(b, j) = 1
    <2> SUFFICES ASSUME NEW a, NEW b
                 PROVE  BitOf(WOR(a, b), j) = 1 <=> BitOf(a, j) = 1 \/ BitOf(b, j) = 1
      OBVIOUS
    <2>1. Bits(WOR(a, b)) = Bits(a) \cup Bits(b)
      BY LogicType
    <2>2. \A x : BitOf(x, j) = 1 <=> j \in Bits(x)
      BY DEF Bits
    <2> QED BY <2>1, <2>2
  <1>8. \A a, b : WOR(a, b) \in Nat
    BY <1>1, LogicType
  <1>9. \A x, y \in Nat : BitOf(x, j) \in {0, 1}
    BY <1>1, BitType
  <1>10. \A l \in Nat : l >= WIDTH => BitOf(v, l) = 0
    BY <1>1, BitTop
  <1>11. \A l \in Nat : BitOf(v, l) \in {0, 1}
    BY <1>1, BitType
  <1>12. k \in Nat /\ WIDTH - k \in Nat /\ Pow2[k] \in Nat \ {0} /\ Pow2[WIDTH - k] \in Nat \ {0}
    <2>1. k \in Nat /\ WIDTH - k \in Nat
      BY <1>1, <1>2
    <2> QED BY <2>1, Pow2Def
  <1>13. BitOf(ROR(v, k), j) = BitOf(v, (j + n) % WIDTH)
    <2>1. BitOf(v \div Pow2[k], j) = BitOf(v, j + k)
      BY <1>1, <1>2, BitsDown
    <2>2. BitOf(CutUp(v, WIDTH - k), j) =
              IF j < WIDTH - k THEN 0 ELSE BitOf(v, j - (WIDTH - k))
      BY <1>1, <1>12, BitsUp
    <2>3. BitOf(ROR(v, k), j) = 1 <=>
              BitOf(v \div Pow2[k], j) = 1 \/ BitOf(CutUp(v, WIDTH - k), j) = 1
      BY <1>7 DEF ROR, CutUp
    <2>4. BitOf(ROR(v, k), j) \in {0, 1}
      BY <1>8, <1>9 DEF ROR
    <2>5. CASE j + k < WIDTH
      <3>1. j < WIDTH - k /\ j + k \in Nat
        BY <1>1, <1>2, <2>5
      <3>2. BitOf(ROR(v, k), j) = 1 <=> BitOf(v, j + k) = 1
        BY <2>1, <2>2, <2>3, <3>1
      <3>3. BitOf(v, j + k) \in {0, 1}
        BY <1>11, <3>1
      <3> QED BY <1>5, <2>4, <2>5, <3>2, <3>3
    <2>6. CASE j + k >= WIDTH
      <3>1. ~(j < WIDTH - k) /\ j + k \in Nat /\ j - (WIDTH - k) = j + k - WIDTH /\ j + k - WIDTH \in Nat
            /\ ~(j + k < WIDTH)
        BY <1>1, <1>2, <2>6
      <3>2. BitOf(v, j + k) = 0
        BY <1>10, <2>6, <3>1
      <3>3. BitOf(ROR(v, k), j) = 1 <=> BitOf(v, j + k - WIDTH) = 1
        BY <2>1, <2>2, <2>3, <3>1, <3>2
      <3>4. BitOf(v, j + k - WIDTH) \in {0, 1}
        BY <1>11, <3>1
      <3> QED BY <1>5, <2>4, <3>1, <3>3, <3>4
    <2> QED BY <1>1, <1>2, <2>5, <2>6
  <1>14. BitOf(ROL(v, k), j) = BitOf(v, (j - n) % WIDTH)
    <2>1. BitOf(v \div Pow2[WIDTH - k], j) = BitOf(v, j + (WIDTH - k))
      BY <1>1, <1>12, BitsDown
    <2>2. BitOf(CutUp(v, k), j) = IF j < k THEN 0 ELSE BitOf(v, j - k)
      BY <1>1, <1>12, BitsUp
    <2>3. BitOf(ROL(v, k), j) = 1 <=>
              BitOf(CutUp(v, k), j) = 1 \/ BitOf(v \div Pow2[WIDTH - k], j) = 1
      BY <1>7 DEF ROL, CutUp
    <2>4. BitOf(ROL(v, k), j) \in {0, 1}
      BY <1>8, <1>9 DEF ROL
    <2>5. CASE j >= k
      <3>1. ~(j < k) /\ j - k \in Nat /\ j + (WIDTH - k) \in Nat /\ j + (WIDTH - k) >= WIDTH
        BY <1>1, <1>2, <2>5
      <3>2. BitOf(v, j + (WIDTH - k)) = 0
        BY <1>10, <3>1
      <3>3. BitOf(ROL(v, k), j) = 1 <=> BitOf(v, j - k) = 1
        BY <2>1, <2>2, <2>3, <3>1, <3>2
      <3>4. BitOf(v, j - k) \in {0, 1}
        BY <1>11, <3>1
      <3> QED BY <1>6, <2>4, <2>5, <3>3, <3>4
    <2>6. CASE j < k
      <3>1. ~(j >= k) /\ j + (WIDTH - k) = j - k + WIDTH /\ j - k + WIDTH \in Nat
        BY <1>1, <1>2, <2>6
      <3>2. BitOf(ROL(v, k), j) = 1 <=> BitOf(v, j - k + WIDTH) = 1
        BY <2>1, <2>2, <2>3, <2>6, <3>1
      <3>3. BitOf(v, j - k + WIDTH) \in {0, 1}
        BY <1>11, <3>1
      <3> QED BY <1>6, <2>4, <3>1, <3>2, <3>3
    <2> QED BY <1>1, <1>2, <2>5, <2>6
  <1> QED BY <1>3, <1>13, <1>14

\* DECO: the bit the counter numbers.
LEMMA DecodeComputes ==
    ASSUME NEW n \in Nat, NEW t \in Nat, t + Pow2[n] <= NUM_BITS, count \in Int
    PROVE  {j \in 0..(Pow2[n] - 1) : DECO(t, n)[t + j]} = {count} \cap 0..(Pow2[n] - 1)
  <1>1. Pow2[n] \in Nat \ {0} /\ NUM_BITS \in Nat
    BY Pow2Def, AppliedAssumption
  <1>2. ASSUME NEW j \in 0..(Pow2[n] - 1)
        PROVE  DECO(t, n)[t + j] <=> count = j
    <2>1. t + j \in BitNumbers /\ t + j \in t..(t + Pow2[n] - 1) /\ (t + j) - t = j
      BY <1>1 DEF BitNumbers
    <2>2. DECO(t, n)[t + j] = (count = (t + j) - t)
      BY <2>1 DEF DECO
    <2> QED BY <2>1, <2>2
  <1> QED BY <1>2

\* The highest of one bit that is on.
LEMMA MaxOfOne ==
    ASSUME NEW n \in Nat, NEW c \in 0..n
    PROVE  Max({c} \cup {0}) = c
  <1> DEFINE T == {c} \cup {0}
  <1>1. T \in SUBSET (0..n) /\ T # {} /\ \A x \in T : x = c \/ x = 0
    OBVIOUS
  <1>2. c \in T
    OBVIOUS
  <1> HIDE DEF T
  <1>3. Max(T) \in T /\ c <= Max(T)
    BY <1>1, <1>2, MaxBelow
  <1>4. Max(T) = c \/ Max(T) = 0
    BY <1>1, <1>3
  <1>5. Max(T) = c
    BY <1>3, <1>4
  <1> QED BY <1>5 DEF T

\* What the computing instructions leave is the mathematical result, for every
\* operand and every width of a word.
THEOREM ComputedExactly == Spec => Computes
  <1> DEFINE Quotient ==
               \A i \in Code({"DIV"}) : Done(i) =>
                  LET a == Signed(Value(i.s))
                      b == Signed(Value(i.s2))
                      q == Signed(d'[i.t])
                      r == Signed(d'[i.t + 1])
                  IN /\ (q * b + r - a) % WORD = 0
                     /\ Magnitude(r) < Magnitude(b) /\ (r = 0 \/ (r < 0) = (a < 0))
             Time ==
               \A i \in Code({"DDIV_TIME"}) : Done(i) =>
                  LET r == d'[i.t + 2] + WORD * d'[i.t + 3]
                  IN /\ (d'[i.t] + WORD * d'[i.t + 1]) * Pair(i.s2) + r = Pair(i.s)
                     /\ r < Pair(i.s2)
             Product ==
               \A i \in Code({"MUL"}) : Done(i) =>
                  d'[i.t] + WORD * Signed(d'[i.t + 1]) = Signed(Value(i.s)) * Signed(Value(i.s2))
             Turn ==
               \A i \in Code({"ROR", "ROL"}) : Done(i) =>
                  \A j \in 0..(WIDTH - 1) :
                     BitOf(d'[i.t], j) =
                        BitOf(d[i.t], (IF i.op = "ROR" THEN j + LengthOf(i) ELSE j - LengthOf(i)) % WIDTH)
             Decode ==
               \A i \in Code({"DECO"}) : Done(i) =>
                  LET n == LengthOf(i)
                      on == {j \in 0..(Pow2[n] - 1) : bits'[i.t + j]}
                  IN on = {count} \cap 0..(Pow2[n] - 1) /\ (on # {} => ENCO(<<>>, i.t, n)' = count)
  <1>1. ASSUME TypeOK
        PROVE  Quotient
    <2> SUFFICES ASSUME NEW i \in prog.code, i.op = "DIV", execute_applied(i, TRUE), ~bad'
                 PROVE  LET a == Signed(Value(i.s))
                            b == Signed(Value(i.s2))
                            q == Signed(d'[i.t])
                            r == Signed(d'[i.t + 1])
                        IN /\ (q * b + r - a) % WORD = 0
                           /\ Magnitude(r) < Magnitude(b) /\ (r = 0 \/ (r < 0) = (a < 0))
      BY DEF Code, Done
    <2> DEFINE u == Value(i.s)
               v == Value(i.s2)
    <2>1. d \in RegFile /\ Decoded(i) /\ i.op \in WordOps \cup BitOps
      BY <1>1, Instruction DEF TypeOK, RegFile
    <2>2. Valid(i) /\ d' = DIV(u, v, i.t)
      BY DEF execute_applied, WordOp
    <2>3. u \in 0..(WORD - 1) /\ v \in 0..(WORD - 1) /\ i.t \in Nat
      <3>1. u \in 0..(WORD - 1) /\ v \in 0..(WORD - 1) /\ i.t \in Registers
        BY <2>1, Operands DEF WordOps, MathOps
      <3> QED BY <3>1, WordSize DEF Registers
    <2>4. v # 0 /\ i.t + 1 < PLC_NUM_D
      BY <2>2 DEF Valid
    <2>5. \A x, y \in 0..(WORD - 1) : \A t \in Nat :
             y # 0 /\ t + 1 < PLC_NUM_D =>
                LET a == Signed(x)
                    b == Signed(y)
                    q == Signed(DIV(x, y, t)[t])
                    r == Signed(DIV(x, y, t)[t + 1])
                IN /\ (q * b + r - a) % WORD = 0
                   /\ Magnitude(r) < Magnitude(b) /\ (r = 0 \/ (r < 0) = (a < 0))
      BY <2>1, DivComputes
    <2> QED BY <2>2, <2>3, <2>4, <2>5
  <1>2. ASSUME TypeOK
        PROVE  Time
    <2> SUFFICES ASSUME NEW i \in prog.code, i.op = "DDIV_TIME", execute_applied(i, TRUE), ~bad'
                 PROVE  LET r == d'[i.t + 2] + WORD * d'[i.t + 3]
                        IN /\ (d'[i.t] + WORD * d'[i.t + 1]) * Pair(i.s2) + r = Pair(i.s)
                           /\ r < Pair(i.s2)
      BY DEF Code, Done
    <2> DEFINE x == Pair(i.s)
               y == Pair(i.s2)
    <2>1. d \in RegFile /\ Decoded(i) /\ i.op \in WordOps \cup BitOps
      BY <1>2, Instruction DEF TypeOK, RegFile
    <2>2. Valid(i) /\ d' = DDIV_TIME(x, y, i.t)
      BY DEF execute_applied, WordOp
    <2>3. i.s \in WordOperand \X WordOperand /\ i.s2 \in WordOperand \X WordOperand /\ i.t \in Nat
      <3>1. i.s \in WordOperand \X WordOperand /\ i.s2 \in WordOperand \X WordOperand
            /\ i.t \in Registers
        BY <2>1 DEF Decoded, WordOps
      <3> QED BY <3>1, WordSize DEF Registers
    <2>4. y # 0 /\ i.t + 3 < PLC_NUM_D
      BY <2>2 DEF Valid
    <2>5. x \in Nat /\ x < WORD * WORD /\ y \in Nat \ {0} /\ y < WORD * WORD
      <3>1. \A o \in WordOperand \X WordOperand : Pair(o) \in Nat /\ Pair(o) < WORD * WORD
        BY <2>1, PairType
      <3> QED BY <2>3, <2>4, <3>1
    <2>6. \A p \in Nat : \A c \in Nat \ {0} : \A t \in Nat :
             p < WORD * WORD /\ c < WORD * WORD /\ t + 3 < PLC_NUM_D =>
                LET h == DDIV_TIME(p, c, t)
                    r == h[t + 2] + WORD * h[t + 3]
                IN (h[t] + WORD * h[t + 1]) * c + r = p /\ r < c
      BY <2>1, TimeComputes
    <2> HIDE DEF x, y
    <2>7. LET r == d'[i.t + 2] + WORD * d'[i.t + 3]
          IN (d'[i.t] + WORD * d'[i.t + 1]) * y + r = x /\ r < y
      BY <2>2, <2>3, <2>4, <2>5, <2>6
    <2> QED BY <2>7 DEF x, y
  <1>3. ASSUME TypeOK
        PROVE  Product
    <2> SUFFICES ASSUME NEW i \in prog.code, i.op = "MUL", execute_applied(i, TRUE), ~bad'
                 PROVE  d'[i.t] + WORD * Signed(d'[i.t + 1]) = Signed(Value(i.s)) * Signed(Value(i.s2))
      BY DEF Code, Done
    <2> DEFINE u == Value(i.s)
               v == Value(i.s2)
    <2>1. d \in RegFile /\ Decoded(i) /\ i.op \in WordOps \cup BitOps
      BY <1>3, Instruction DEF TypeOK, RegFile
    <2>2. Valid(i) /\ d' = MUL(u, v, i.t)
      BY DEF execute_applied, WordOp
    <2>3. u \in 0..(WORD - 1) /\ v \in 0..(WORD - 1) /\ i.t \in Nat
      <3>1. u \in 0..(WORD - 1) /\ v \in 0..(WORD - 1) /\ i.t \in Registers
        BY <2>1, Operands DEF WordOps, MathOps
      <3> QED BY <3>1, WordSize DEF Registers
    <2>4. i.t + 1 < PLC_NUM_D
      BY <2>2 DEF Valid
    <2>5. \A x, y \in 0..(WORD - 1) : \A t \in Nat :
             t + 1 < PLC_NUM_D =>
                MUL(x, y, t)[t] + WORD * Signed(MUL(x, y, t)[t + 1]) = Signed(x) * Signed(y)
      BY <2>1, MulComputes
    <2> QED BY <2>2, <2>3, <2>4, <2>5
  <1>4. ASSUME TypeOK
        PROVE  Turn
    <2> SUFFICES ASSUME NEW i \in prog.code, i.op \in {"ROR", "ROL"}, execute_applied(i, TRUE), ~bad',
                        NEW j \in 0..(WIDTH - 1)
                 PROVE  BitOf(d'[i.t], j) =
                          BitOf(d[i.t], (IF i.op = "ROR" THEN j + LengthOf(i) ELSE j - LengthOf(i)) % WIDTH)
      BY DEF Code, Done
    <2> DEFINE n == LengthOf(i)
               v == d[i.t]
    <2>1. d \in RegFile /\ Decoded(i) /\ i.op \in WordOps \cup BitOps
      BY <1>4, Instruction DEF TypeOK, RegFile
    <2>2. d' = IF i.op = "ROR" THEN set_d(d, i.t, ROR(v, rotated_by(n)))
                               ELSE set_d(d, i.t, ROL(v, rotated_by(n)))
      BY DEF execute_applied, WordOp
    <2>3. i.t \in Registers /\ n \in Nat
      BY <2>1, Operands DEF WordOps, MathOps
    <2>4. v \in 0..(WORD - 1)
      BY <2>1, <2>3 DEF RegFile
    <2>5. \A x \in 0..(WORD - 1) : set_d(d, i.t, x)[i.t] = x
      <3>1. \A x \in 0..(WORD - 1) : x \in Int /\ x % WORD = x
        BY ModWord
      <3> QED BY <2>1, <2>3, <3>1, SetReg
    <2>6. ROR(v, rotated_by(n)) \in 0..(WORD - 1) /\ ROL(v, rotated_by(n)) \in 0..(WORD - 1)
      BY LogicType DEF ROR, ROL
    <2>7. d'[i.t] = IF i.op = "ROR" THEN ROR(v, rotated_by(n)) ELSE ROL(v, rotated_by(n))
      BY <2>2, <2>5, <2>6
    <2>8. \A x \in 0..(WORD - 1) : \A m \in Nat :
             /\ BitOf(ROR(x, rotated_by(m)), j) = BitOf(x, (j + m) % WIDTH)
             /\ BitOf(ROL(x, rotated_by(m)), j) = BitOf(x, (j - m) % WIDTH)
      BY TurnComputes
    <2> QED BY <2>3, <2>4, <2>7, <2>8
  <1>5. ASSUME TypeOK
        PROVE  Decode
    <2> SUFFICES ASSUME NEW i \in prog.code, i.op = "DECO", execute_applied(i, TRUE), ~bad'
                 PROVE  LET n == LengthOf(i)
                            on == {j \in 0..(Pow2[n] - 1) : bits'[i.t + j]}
                        IN on = {count} \cap 0..(Pow2[n] - 1) /\ (on # {} => ENCO(<<>>, i.t, n)' = count)
      BY DEF Code, Done
    <2> DEFINE n == LengthOf(i)
               on == {j \in 0..(Pow2[n] - 1) : bits'[i.t + j]}
    <2>1. d \in RegFile /\ Decoded(i) /\ i.op \in WordOps \cup BitOps /\ count \in Int
      BY <1>5, Instruction DEF TypeOK, RegFile
    <2>2. Valid(i) /\ bits' = DECO(i.t, n) /\ d' = d
      BY DEF execute_applied, WordOp, BitOp
    <2>3. n \in Nat /\ i.t \in Nat /\ i.t + Pow2[n] <= NUM_BITS
      <3>1. n \in Nat /\ i.t \in BitNumbers
        BY <2>1, Operands DEF BitOps, MathOps
      <3>2. i.t + Pow2[n] <= NUM_BITS
        BY <2>2 DEF Valid
      <3> QED BY <3>1, <3>2, WordSize DEF BitNumbers
    <2>4. on = {count} \cap 0..(Pow2[n] - 1)
      <3>1. \A m \in Nat : \A t \in Nat :
               t + Pow2[m] <= NUM_BITS =>
                  {j \in 0..(Pow2[m] - 1) : DECO(t, m)[t + j]} = {count} \cap 0..(Pow2[m] - 1)
        BY <2>1, DecodeComputes
      <3> QED BY <2>2, <2>3, <3>1
    <2>5. ENCO(<<>>, i.t, n)' = Max(on \cup {0})
      <3>1. n' = n
        BY <2>2 DEF LengthOf, Value, get_d
      <3>2. ENCO(<<>>, i.t, n)' = Max({j \in 0..(Pow2[n'] - 1) : bits'[i.t + j]} \cup {0})
        BY DEF ENCO
      <3> QED BY <3>1, <3>2
    <2>6. on # {} => Max(on \cup {0}) = count
      <3> HIDE DEF n
      <3> SUFFICES ASSUME on # {}
                   PROVE  Max(on \cup {0}) = count
        OBVIOUS
      <3>1. on = {count} /\ count \in 0..(Pow2[n] - 1)
        BY <2>4
      <3>2. Pow2[n] - 1 \in Nat
        BY <2>3, Pow2Def
      <3>3. \A c \in 0..(Pow2[n] - 1) : Max({c} \cup {0}) = c
        BY <3>2, MaxOfOne
      <3> QED BY <3>1, <3>3
    <2> QED BY <2>4, <2>5, <2>6
  <1>6. TypeOK /\ [Next]_vars => [Quotient /\ Time /\ Product /\ Turn /\ Decode]_vars
    BY <1>1, <1>2, <1>3, <1>4, <1>5
  <1> QED BY <1>6, AppliedType, PTL DEF Spec, Computes

==============================================================================
