------------------------------ MODULE PlcApplied ------------------------------
(***************************************************************************)
(* The applied instructions of plc_exec.c that move, shift, queue and      *)
(* compute words and bits: the rest of execute_applied, and SFTL, ABSD and *)
(* DECO.  (PlcExec has MOV, CMP, ADD, SUB, INC and DEC and the decoding.)  *)
(*                                                                         *)
(* A loop of the code that updates an array in place is a sequence of      *)
(* moves, made in the order of the loop.  An instruction is a record of    *)
(* decoded operands: op, words s and s2 (<<"K", constant>> or              *)
(* <<"D", register>>), register a, destination register or bit t, source   *)
(* bit q, length n and, for the shifts, the number k of places.            *)
(***************************************************************************)
EXTENDS Integers, Sequences, FiniteSetsExt

CONSTANTS
    WIDTH,          \* bits of a word: 16
    PLC_NUM_D,
    NUM_BITS,       \* bits an operand byte can number: 256
    INDEX,          \* the register structured code indexes arrays with: D28
    FIFO, FIFO_LEN, FIFO_OUT,   \* the queue of a program that keeps one
    PROGRAMS        \* code: instructions; host, values: registers the host writes
                    \* and with what; field: bits that change from outside;
                    \* counts: values of the counter; fifo: whether it has the queue

\* 2^n.
Pow2[n \in Nat] == IF n = 0 THEN 1 ELSE 2 * Pow2[n - 1]

WORD == Pow2[WIDTH]
Registers == 0..(PLC_NUM_D - 1)
BitNumbers == 0..(NUM_BITS - 1)

ASSUME AppliedAssumption ==
    /\ WIDTH \in Nat \ {0}
    /\ \E e \in 0..WIDTH : WIDTH = Pow2[e]   \* so that n & (WIDTH - 1) is n % WIDTH
    /\ PLC_NUM_D \in 1..(WORD - 1)           \* registers are numbered in a word
    /\ NUM_BITS \in Nat \ {0} /\ INDEX \in Registers

\* What the decoding leaves in the operands: read_word_operand takes any
\* register number, word_operand_register only one that exists.
WordOperand == ({"K"} \X (0..(WORD - 1))) \cup ({"D"} \X Nat)
MathOps == {"MUL", "DIV", "WAND", "WOR", "WXOR"}
WordOps == MathOps \cup
    {"BMOV", "FMOV", "NEG", "ROR", "ROL", "DMOV", "DDIV_TIME", "SFWR", "SFRD", "ENCO"}
BitOps == {"SFTR", "SFTL", "ABSD", "DECO", "BON"}
Decoded(i) ==
    /\ i.op \in WordOps => i.t \in Registers
    /\ i.op \in BitOps => i.t \in BitNumbers
    /\ i.op \in {"BMOV", "SFRD"} => i.a \in Registers
    /\ i.op = "ABSD" => i.a \in Nat
    /\ i.op \in MathOps \cup {"FMOV", "SFWR"} => i.s \in WordOperand
    /\ i.op \in MathOps => i.s2 \in WordOperand
    /\ i.op \in {"DMOV", "DDIV_TIME"} => i.s \in WordOperand \X WordOperand
    /\ i.op = "DDIV_TIME" => i.s2 \in WordOperand \X WordOperand
    /\ i.op \in (WordOps \cup BitOps) \ (MathOps \cup {"NEG", "DMOV", "DDIV_TIME"}) =>
          i.n \in WordOperand
    /\ i.op \in {"SFTR", "SFTL"} => i.k \in WordOperand
    /\ i.op \in {"SFTR", "SFTL", "BON"} \/ (i.op = "ENCO" /\ i.s = <<>>) => i.q \in BitNumbers
    /\ i.op = "ENCO" => i.s = <<>> \/ i.s \in WordOperand
    /\ i.op = "BON" => i.t_array \in BOOLEAN /\ i.q_array \in BOOLEAN

ASSUME ProgramAssumption ==
    \A p \in PROGRAMS :
        /\ \A i \in p.code : i.op \in WordOps \cup BitOps /\ Decoded(i)
        /\ p.host \subseteq Registers /\ p.values \subseteq 0..(WORD - 1)
        /\ p.field \subseteq BitNumbers /\ p.counts \subseteq Int /\ p.fifo \in BOOLEAN

\* The registers an instruction with length n names as its destination.
Reach(i, n) ==
    {r \in Registers :
        \/ i.op \in WordOps \ {"BMOV", "FMOV"} /\ r = i.t
        \/ i.op \in {"BMOV", "FMOV", "SFWR"} /\ r \in i.t..(i.t + n - 1)
        \/ i.op = "SFRD" /\ r \in i.a..(i.a + n - 1)
        \/ i.op \in {"MUL", "DIV", "DMOV"} /\ r = i.t + 1
        \/ i.op = "DDIV_TIME" /\ r \in i.t..(i.t + 3)}

\* A program that keeps a queue keeps one, in registers it writes in no other
\* way; an SFWR or SFRD of another length is one that is refused.
QueueArea == FIFO..(FIFO + FIFO_LEN - 1)
KeepsQueue(i) ==
    IF i.op \in {"SFWR", "SFRD"}
    THEN /\ i.op = "SFWR" => i.t = FIFO
         /\ i.op = "SFRD" => i.a = FIFO /\ i.t = FIFO_OUT
         /\ i.n[1] = "K"
         /\ i.n[2] >= 2 /\ FIFO + i.n[2] <= PLC_NUM_D => i.n[2] = FIFO_LEN
    ELSE /\ i.op \in {"BMOV", "FMOV"} => i.n[1] = "K"
         /\ LET n == IF i.op \in {"BMOV", "FMOV"} THEN i.n[2] ELSE 0
            IN Reach(i, n) \cap (QueueArea \cup {FIFO_OUT}) = {}

ASSUME QueueAssumption ==
    /\ FIFO \in Registers /\ FIFO_LEN \in Nat \ {0, 1} /\ FIFO + FIFO_LEN <= PLC_NUM_D
    /\ FIFO_OUT \in Registers \ QueueArea
    /\ \A p \in PROGRAMS :
          IF p.fifo
          THEN p.host \cap (QueueArea \cup {FIFO_OUT}) = {} /\ \A i \in p.code : KeepsQueue(i)
          ELSE \A i \in p.code : i.op \notin {"SFWR", "SFRD"}

VARIABLES
    prog,           \* the program loaded
    d, bits,        \* data registers, one area of bit devices
    m8020, m8022,   \* zero and carry
    count,          \* the counter
    bad             \* the last instruction was counted as unknown

vars == <<prog, d, bits, m8020, m8022, count, bad>>

Init ==
    /\ prog \in PROGRAMS
    /\ d = [r \in Registers |-> 0] /\ bits = [b \in BitNumbers |-> FALSE]
    /\ m8020 = FALSE /\ m8022 = FALSE /\ bad = FALSE
    /\ count \in prog.counts

get_d(regs, r) == IF r \in Registers THEN regs[r] ELSE 0
set_d(regs, r, v) == IF r \in Registers THEN [regs EXCEPT ![r] = v % WORD] ELSE regs
set_d32(regs, r, v) == set_d(set_d(regs, r, v), r + 1, v \div WORD)

Value(o) == IF o[1] = "K" THEN o[2] ELSE get_d(d, o[2])
Signed(v) == IF v >= WORD \div 2 THEN v - WORD ELSE v
LengthOf(i) == Value(i.n)
Pair(o) == Value(o[1]) + WORD * Value(o[2])

Up(n) == [i \in 1..n |-> i - 1]
Down(n) == [i \in 1..n |-> n - i]

-----------------------------------------------------------------------------
\* Words

\* A loop of moves <<to, from>>: what it makes of f.  Past the end, nothing is
\* written and 0 is read.
Move(f, m) ==
    IF m[1] \in DOMAIN f
    THEN [f EXCEPT ![m[1]] = IF m[2] \in DOMAIN f THEN f[m[2]] ELSE 0]
    ELSE f
Moved(f, moves) ==
    LET after[k \in 0..Len(moves)] == IF k = 0 THEN f ELSE Move(after[k - 1], moves[k])
    IN  after[Len(moves)]

\* Mutant of copy_order: always upwards.
copy_order_up(a, t, n) == Up(n)
copy_order(a, t, n) == IF t > a /\ t < a + n THEN Down(n) ELSE Up(n)

BMOV(a, t, n) ==
    LET order == copy_order(a, t, n)
    IN  Moved(d, [j \in 1..n |-> <<t + order[j], a + order[j]>>])

\* Mutant of FMOV: one word too many.
FMOV_over(v, t, n) == [r \in Registers |-> IF r \in t..(t + n) THEN v ELSE d[r]]
FMOV(v, t, n) == [r \in Registers |-> IF r \in t..(t + n - 1) THEN v ELSE d[r]]

\* The bits of a word that are on, and the word with the bits of B on.
BitOf(v, j) == (v \div Pow2[j]) % 2
Bits(v) == {j \in 0..(WIDTH - 1) : BitOf(v, j) = 1}
WordOf(B) == CHOOSE v \in 0..(WORD - 1) : Bits(v) = B

WAND(a, b) == WordOf(Bits(a) \cap Bits(b))
WOR(a, b) == WordOf(Bits(a) \cup Bits(b))
WXOR(a, b) == WordOf((Bits(a) \cup Bits(b)) \ (Bits(a) \cap Bits(b)))

\* Division of C: the quotient is rounded towards zero.  Mutant: downwards.
quotient_floor(a, b) == IF b > 0 THEN a \div b ELSE (-a) \div (-b)
quotient(a, b) ==
    LET abs(x) == IF x < 0 THEN -x ELSE x
    IN IF (a < 0) = (b < 0) THEN abs(a) \div abs(b) ELSE -(abs(a) \div abs(b))
remainder(a, b) == a - b * quotient(a, b)

DIV(a, b, t) ==
    set_d(set_d(d, t, quotient(Signed(a), Signed(b))), t + 1, remainder(Signed(a), Signed(b)))

MUL(a, b, t) == set_d32(d, t, (Signed(a) * Signed(b)) % (WORD * WORD))

DDIV_TIME(x, y, t) == set_d32(set_d32(d, t, x \div y), t + 2, x % y)

rotated_by(n) == n % WIDTH

ROR(v, n) == WOR(v \div Pow2[n], (v * Pow2[WIDTH - n]) % WORD)
ROL(v, n) == WOR((v * Pow2[n]) % WORD, v \div Pow2[WIDTH - n])

SFWR(v, t, n) ==
    IF d[t] >= n - 1 THEN d ELSE set_d(set_d(d, t, d[t] + 1), t + d[t] + 1, v)

\* As many words are moved down as the pointer register counts; n is not
\* compared with it, and the register numbers wrap like the uint16_t they are.
\* Mutant: the loop starts one word late.
SFRD_late(a, t, n) ==
    LET moves == [j \in 1..(d[a] - 1) |-> <<(a + j + 1) % WORD, (a + j + 2) % WORD>>]
    IN  IF d[a] = 0 THEN d
        ELSE set_d(Moved(set_d(d, t, get_d(d, a + 1)), moves), a, d[a] - 1)
SFRD(a, t, n) ==
    LET moves == [j \in 1..(d[a] - 1) |-> <<(a + j) % WORD, (a + j + 1) % WORD>>]
    IN  IF d[a] = 0 THEN d
        ELSE set_d(Moved(set_d(d, t, get_d(d, a + 1)), moves), a, d[a] - 1)

-----------------------------------------------------------------------------
\* Bits

write_bit(b, i, v) == [b EXCEPT ![i] = v]

\* One place towards lower numbers, from the bottom up; then the top is loaded.
ShiftDown(t, n, fill, b) ==
    write_bit(Moved(b, [j \in 1..(n - 1) |-> <<t + j - 1, t + j>>]), t + n - 1, fill)
\* Towards higher numbers, from the top down; then the bottom is loaded.
ShiftUp(t, n, fill, b) ==
    write_bit(Moved(b, [j \in 1..(n - 1) |-> <<t + n - j, t + n - j - 1>>]), t, fill)

\* A place in k passes.  The source is read before the first pass and loaded by it.
Shift(down, t, n, fill, b) == IF down THEN ShiftDown(t, n, fill, b) ELSE ShiftUp(t, n, fill, b)
Passes(down, q, t, n, k) ==
    LET after[p \in 0..k] ==
          IF p = 0 THEN bits ELSE Shift(down, t, n, p = 1 /\ bits[q], after[p - 1])
    IN  after[k]
SFTR(q, t, n, k) == Passes(TRUE, q, t, n, k)
SFTL(q, t, n, k) == Passes(FALSE, q, t, n, k)

DECO(t, n) ==
    [b \in BitNumbers |-> IF b \in t..(t + Pow2[n] - 1) THEN count = b - t ELSE bits[b]]

\* The number of the highest bit that is on; 0 also when none is.
ENCO(s, q, n) ==
    LET on == {i \in 0..(Pow2[n] - 1) :
                 IF s # <<>> THEN BitOf(Value(s), i) = 1 ELSE bits[q + i]}
    IN Max(on \cup {0})

ABSD(a, t, n) ==
    [b \in BitNumbers |->
        IF b \in t..(t + n - 1)
        THEN count >= get_d(d, a + 2 * (b - t)) /\ count < get_d(d, a + 2 * (b - t) + 1)
        ELSE bits[b]]

\* An operand marked as an array is indexed through INDEX.
BON(i) ==
    IF i.t_array /\ ~i.q_array
    THEN write_bit(bits, i.t + d[INDEX] + LengthOf(i), bits[i.q])
    ELSE write_bit(bits, i.t,
                   bits[(i.q + LengthOf(i) + (IF i.q_array THEN d[INDEX] ELSE 0)) % NUM_BITS])

-----------------------------------------------------------------------------
\* execute_applied

\* What each instruction requires of its operands before it writes anything.
Valid(i) ==
    CASE i.op = "BMOV" -> i.a + LengthOf(i) <= PLC_NUM_D /\ i.t + LengthOf(i) <= PLC_NUM_D
      [] i.op = "FMOV" -> i.t + LengthOf(i) <= PLC_NUM_D
      [] i.op \in {"MUL", "DMOV"} -> i.t + 1 < PLC_NUM_D
      [] i.op = "DIV" -> i.t + 1 < PLC_NUM_D /\ Value(i.s2) # 0
      [] i.op = "DDIV_TIME" -> i.t + 3 < PLC_NUM_D /\ Pair(i.s2) # 0
      [] i.op = "SFWR" -> LengthOf(i) >= 2 /\ i.t + LengthOf(i) <= PLC_NUM_D
      [] i.op = "SFRD" -> LengthOf(i) >= 2 /\ i.a + LengthOf(i) <= PLC_NUM_D
      [] i.op \in {"SFTR", "SFTL"} ->
            /\ LengthOf(i) > 0 /\ Value(i.k) <= LengthOf(i)
            /\ i.t + LengthOf(i) <= NUM_BITS
      [] i.op = "ABSD" ->
            LengthOf(i) <= 64 /\ i.a + 2 * LengthOf(i) <= PLC_NUM_D /\ i.t + LengthOf(i) <= NUM_BITS
      [] i.op = "DECO" -> LengthOf(i) \in 1..8 /\ i.t + Pow2[LengthOf(i)] <= NUM_BITS
      [] i.op = "ENCO" -> LengthOf(i) \in 1..4 /\ (i.s # <<>> \/ i.q + Pow2[LengthOf(i)] <= NUM_BITS)
      [] i.op = "BON" ->
            /\ LengthOf(i) <= 15
            /\ i.q + (IF i.q_array THEN d[INDEX] + LengthOf(i) ELSE 0) < NUM_BITS
            /\ i.t + (IF i.t_array THEN d[INDEX] + LengthOf(i) ELSE 0) < NUM_BITS
      [] OTHER -> TRUE

WordOp(i) ==
    CASE i.op = "BMOV" -> BMOV(i.a, i.t, LengthOf(i))
      [] i.op = "FMOV" -> FMOV(Value(i.s), i.t, LengthOf(i))
      [] i.op = "MUL" -> MUL(Value(i.s), Value(i.s2), i.t)
      [] i.op = "DIV" -> DIV(Value(i.s), Value(i.s2), i.t)
      [] i.op = "WAND" -> set_d(d, i.t, WAND(Value(i.s), Value(i.s2)))
      [] i.op = "WOR" -> set_d(d, i.t, WOR(Value(i.s), Value(i.s2)))
      [] i.op = "WXOR" -> set_d(d, i.t, WXOR(Value(i.s), Value(i.s2)))
      [] i.op = "NEG" -> set_d(d, i.t, -Signed(d[i.t]))
      [] i.op = "ROR" -> set_d(d, i.t, ROR(d[i.t], rotated_by(LengthOf(i))))
      [] i.op = "ROL" -> set_d(d, i.t, ROL(d[i.t], rotated_by(LengthOf(i))))
      [] i.op = "DMOV" -> set_d32(d, i.t, Pair(i.s))
      [] i.op = "DDIV_TIME" -> DDIV_TIME(Pair(i.s), Pair(i.s2), i.t)
      [] i.op = "SFWR" -> SFWR(Value(i.s), i.t, LengthOf(i))
      [] i.op = "SFRD" -> SFRD(i.a, i.t, LengthOf(i))
      [] i.op = "ENCO" -> set_d(d, i.t, ENCO(i.s, i.q, LengthOf(i)))
      [] OTHER -> d

BitOp(i) ==
    CASE i.op = "SFTR" -> SFTR(i.q, i.t, LengthOf(i), Value(i.k))
      [] i.op = "SFTL" -> SFTL(i.q, i.t, LengthOf(i), Value(i.k))
      [] i.op = "ABSD" -> ABSD(i.a, i.t, LengthOf(i))
      [] i.op = "DECO" -> DECO(i.t, LengthOf(i))
      [] i.op = "BON" -> BON(i)
      [] OTHER -> bits

execute_applied(i, enabled) ==
    /\ bad' = ~Valid(i)
    /\ d' = IF Valid(i) /\ enabled THEN WordOp(i) ELSE d
    /\ bits' = IF Valid(i) /\ enabled THEN BitOp(i) ELSE bits
    /\ m8022' = IF Valid(i) /\ enabled /\ i.op = "SFWR" THEN d[i.t] >= LengthOf(i) - 1 ELSE m8022
    /\ m8020' = IF Valid(i) /\ enabled /\ i.op = "SFRD" THEN d[i.a] = 0 ELSE m8020
    /\ UNCHANGED <<prog, count>>

HostWrite(r, v) ==
    /\ d' = [d EXCEPT ![r] = v]
    /\ UNCHANGED <<prog, bits, m8020, m8022, count, bad>>

\* A contact of the program: an input bit of the area, or the counter moving.
Field(b) ==
    /\ bits' = [bits EXCEPT ![b] = ~bits[b]]
    /\ UNCHANGED <<prog, d, m8020, m8022, count, bad>>

Count(c) ==
    /\ count' = c
    /\ UNCHANGED <<prog, d, bits, m8020, m8022, bad>>

Next ==
    \/ \E i \in prog.code, enabled \in BOOLEAN : execute_applied(i, enabled)
    \/ \E r \in prog.host, v \in prog.values : HostWrite(r, v)
    \/ \E b \in prog.field : Field(b)
    \/ \E c \in prog.counts : Count(c)

Spec == Init /\ [][Next]_vars

-----------------------------------------------------------------------------

\* Whatever is computed, a register holds a word and a bit device a bit.
TypeOK ==
    /\ prog \in PROGRAMS
    /\ d \in [Registers -> 0..(WORD - 1)] /\ bits \in [BitNumbers -> BOOLEAN]
    /\ m8020 \in BOOLEAN /\ m8022 \in BOOLEAN /\ count \in Int /\ bad \in BOOLEAN

\* SFWR and SFRD together are a first-in first-out queue of FIFO_LEN - 1 words,
\* with M8022 and M8020 for a full and an empty one, although the code keeps it
\* as a counted table in ordinary registers that it shifts word by word.
Queue == INSTANCE WordQueue WITH
    Words <- 0..(WORD - 1), CAPACITY <- FIFO_LEN - 1,
    queue <- IF prog.fifo THEN [i \in 1..d[FIFO] |-> d[FIFO + i]] ELSE <<>>,
    got <- IF prog.fifo THEN d[FIFO_OUT] ELSE 0,
    full <- m8022, empty <- m8020

ImplementsQueue == Queue!Spec

Done(i) == execute_applied(i, TRUE) /\ ~bad'
Code(ops) == {i \in prog.code : i.op \in ops}

\* The loops that move words or bits in place act as if all at once.  BMOV does
\* when source and destination overlap in either direction; SFTR and SFTL by k
\* places move every bit k places, load the source once and clear the rest,
\* also when the source is one of the bits they shift.
MovesAsOne ==
    [][/\ \A i \in Code({"BMOV"}) : Done(i) =>
            d' = [r \in Registers |-> IF r \in i.t..(i.t + LengthOf(i) - 1)
                                      THEN d[i.a + r - i.t] ELSE d[r]]
       /\ \A i \in Code({"SFTR", "SFTL"}) : Done(i) =>
            LET n == LengthOf(i)
                k == Value(i.k)
                From(j) == IF i.op = "SFTR" THEN j + k ELSE j - k
                loaded == IF i.op = "SFTR" THEN n - k ELSE k - 1
            IN \A j \in 0..(n - 1) :
                  bits'[i.t + j] = CASE From(j) \in 0..(n - 1) -> bits[i.t + From(j)]
                                     [] j = loaded -> bits[i.q]
                                     [] OTHER -> FALSE]_vars

Magnitude(x) == IF x < 0 THEN -x ELSE x

\* The computing instructions give the mathematical result.  DIV: quotient and
\* remainder of signed division rounded to zero, including the most negative
\* word divided by -1, whose quotient does not fit; DDIV: those of unsigned
\* 32-bit division; MUL: the whole product; ROR and ROL: every bit n places
\* round, for every n; DECO: the bit the counter numbers and no other, none
\* when it is out of range, which ENCO reads back.
Computes ==
    [][/\ \A i \in Code({"DIV"}) : Done(i) =>
            LET a == Signed(Value(i.s))
                b == Signed(Value(i.s2))
                q == Signed(d'[i.t])
                r == Signed(d'[i.t + 1])
            IN /\ (q * b + r - a) % WORD = 0
               /\ Magnitude(r) < Magnitude(b) /\ (r = 0 \/ (r < 0) = (a < 0))
       /\ \A i \in Code({"DDIV_TIME"}) : Done(i) =>
            LET r == d'[i.t + 2] + WORD * d'[i.t + 3]
            IN /\ (d'[i.t] + WORD * d'[i.t + 1]) * Pair(i.s2) + r = Pair(i.s)
               /\ r < Pair(i.s2)
       /\ \A i \in Code({"MUL"}) : Done(i) =>
            d'[i.t] + WORD * Signed(d'[i.t + 1]) = Signed(Value(i.s)) * Signed(Value(i.s2))
       /\ \A i \in Code({"ROR", "ROL"}) : Done(i) =>
            \A j \in 0..(WIDTH - 1) :
               BitOf(d'[i.t], j) =
                  BitOf(d[i.t], (IF i.op = "ROR" THEN j + LengthOf(i) ELSE j - LengthOf(i)) % WIDTH)
       /\ \A i \in Code({"DECO"}) : Done(i) =>
            LET n == LengthOf(i)
                on == {j \in 0..(Pow2[n] - 1) : bits'[i.t + j]}
            IN on = {count} \cap 0..(Pow2[n] - 1) /\ (on # {} => ENCO(<<>>, i.t, n)' = count)]_vars

\* The bits an instruction names as its destination.
BitTarget(i) ==
    {b \in BitNumbers :
        \/ i.op = "DECO" /\ b \in i.t..(i.t + Pow2[LengthOf(i)] - 1)
        \/ i.op = "BON" /\ b \in {i.t, i.t + d[INDEX] + LengthOf(i)}
        \/ i.op \in {"SFTR", "SFTL", "ABSD"} /\ b \in i.t..(i.t + LengthOf(i) - 1)}

\* An instruction writes nothing outside the destination it names, and a
\* refused one nothing at all: what lies next to a table, a queue or a bit
\* field is another part of the program's.
Footprint ==
    [][\A i \in prog.code : execute_applied(i, TRUE) =>
         /\ \A r \in Registers : d'[r] # d[r] => ~bad' /\ r \in Reach(i, LengthOf(i))
         /\ \A b \in BitNumbers : bits'[b] # bits[b] => ~bad' /\ b \in BitTarget(i)]_vars

==============================================================================
