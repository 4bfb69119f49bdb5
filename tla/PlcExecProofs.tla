----------------------------- MODULE PlcExecProofs ---------------------------
(***************************************************************************)
(* The interpreter for every program of every length: its arrays are never *)
(* overrun, whatever was downloaded, and what a program has to respect for *)
(* the interpreter to execute it as it was meant.                          *)
(***************************************************************************)
EXTENDS PlcExec, Induction, TLAPS

(* The type invariant, in the parts an instruction changes together. *)

FixedInv ==
    /\ prog \in PROGRAMS /\ prog.code \in Seq(WordType)
    /\ phase \in {"idle", "scan"} /\ first \in BOOLEAN
    /\ before \subseteq Devices({"X"})

MemInv == bits \in [BITS -> BOOLEAN] /\ d \in [0..(NUM_D - 1) -> 0..(WORD - 1)]

PulseInv ==
    /\ pulse_prev \subseteq 1..PROGRAM_WORDS /\ pulse_pending \in {"none", "PLS", "PLF"}
    /\ pulsed \subseteq 1..PROGRAM_WORDS

\* The first word of the program is word 1.
RungInv == off \in Nat \ {0} /\ result \in BOOLEAN

FlagInv == unknown \in BOOLEAN /\ output_just_executed \in BOOLEAN

StlInv == stl \in StlType /\ Len(stl.sources) <= STL_MAX_SOURCES

StackInv ==
    /\ branch \in Seq(BOOLEAN) /\ Len(branch) <= BRANCH_DEPTH
    /\ block \in Seq(BOOLEAN) /\ Len(block) <= BLOCK_DEPTH
    /\ full \in Seq(BOOLEAN)

CallInv == call_return \in Seq(1..(PROGRAM_WORDS + 3)) /\ Len(call_return) <= CALL_STACK_DEPTH

ExecInv == FixedInv /\ MemInv /\ PulseInv /\ RungInv /\ FlagInv /\ StlInv /\ StackInv /\ CallInv

------------------------------------------------------------------------------
(* Operands and memory *)

\* Whatever is downloaded, every word that is fetched has a number.
LEMMA FetchType ==
    ASSUME FixedInv, NEW i
    PROVE  fetch(i).n \in Nat /\ Raw(i) \in Nat /\ Raw(i) \div 2 \in Nat
  <1>1. ASSUME NEW j \in DOMAIN prog.code PROVE prog.code[j].n \in Nat
    <2>1. prog.code[j] \in WordType
      BY DEF FixedInv
    <2> QED BY <2>1 DEF WordType
  <1>2. ASSUME NEW j PROVE fetch(j).n \in Nat
    BY <1>1 DEF fetch, BLANK
  <1>3. Raw(i) \in Nat
    BY <1>2 DEF Raw
  <1>4. ASSUME NEW r \in Nat PROVE r \div 2 \in Nat
    BY <1>4
  <1> QED BY <1>2, <1>3, <1>4

\* Registers hold words.
LEMMA ModWord ==
    ASSUME NEW v \in Int
    PROVE  v % WORD \in 0..(WORD - 1)
  <1>1. ASSUME NEW m \in Nat \ {0} PROVE v % m \in 0..(m - 1)
    BY <1>1, Z3
  <1> QED BY <1>1, ExecAssumption

\* So does a register after a write, and what get_d returns is a word.
LEMMA RegisterType ==
    ASSUME MemInv, NEW i \in Nat, NEW v \in Int
    PROVE  get_d(i) \in 0..(WORD - 1) /\ set_d(i, v) \in [0..(NUM_D - 1) -> 0..(WORD - 1)]
  <1>1. NUM_D \in Nat /\ WORD \in Nat \ {0}
    BY ExecAssumption
  <1>2. get_d(i) \in 0..(WORD - 1)
    BY <1>1 DEF get_d, MemInv
  <1>3. v % WORD \in 0..(WORD - 1)
    BY ModWord
  <1>4. set_d(i, v) \in [0..(NUM_D - 1) -> 0..(WORD - 1)]
    <2> DEFINE u == v % WORD
    <2>1. u \in 0..(WORD - 1)
      BY <1>3
    <2> HIDE DEF u
    <2>2. [d EXCEPT ![i] = u] \in [0..(NUM_D - 1) -> 0..(WORD - 1)]
      BY <2>1 DEF MemInv
    <2> QED BY <2>2 DEF set_d, u, MemInv
  <1> QED BY <1>2, <1>4

\* The value of a word operand.
LEMMA ValueType ==
    ASSUME FixedInv, MemInv, NEW i
    PROVE  WordValue(i) \in Nat
  <1>1. Raw(i) \in Nat /\ Raw(i) \div 2 \in Nat
    BY FetchType
  <1>2. get_d(Raw(i) \div 2) \in 0..(WORD - 1) /\ WORD \in Nat
    BY <1>1, RegisterType, ExecAssumption
  <1>3. get_d(Raw(i) \div 2) \in Nat
    BY <1>2
  <1> QED BY <1>1, <1>3 DEF WordValue

\* A write changes bit devices to bits.
LEMMA WriteType ==
    ASSUME MemInv
    PROVE  /\ \A writes : (\A q \in DOMAIN writes : writes[q] \in BOOLEAN)
                            => write_bits(writes) \in [BITS -> BOOLEAN]
           /\ \A dev, n : \A v \in BOOLEAN : write_bit(dev, n, v) \in [BITS -> BOOLEAN]
           /\ \A dev, n : OpenContact(dev, n) \in [BITS -> BOOLEAN]
           /\ \A dev, n : read_bit(dev, n) \in BOOLEAN
  <1>1. ASSUME NEW writes, \A q \in DOMAIN writes : writes[q] \in BOOLEAN
        PROVE  write_bits(writes) \in [BITS -> BOOLEAN]
    BY <1>1 DEF write_bits, MemInv
  <1>2. ASSUME NEW dev, NEW n, NEW v \in BOOLEAN
        PROVE  write_bit(dev, n, v) \in [BITS -> BOOLEAN]
    <2> DEFINE f == [q \in {<<dev, n>>} |-> v]
    <2>1. \A q \in DOMAIN f : f[q] \in BOOLEAN
      OBVIOUS
    <2> HIDE DEF f
    <2>2. write_bits(f) \in [BITS -> BOOLEAN]
      BY <2>1, <1>1
    <2> QED BY <2>2 DEF write_bit, f
  <1>3. ASSUME NEW dev, NEW n PROVE OpenContact(dev, n) \in [BITS -> BOOLEAN]
    BY DEF OpenContact, MemInv
  <1>4. ASSUME NEW dev, NEW n PROVE read_bit(dev, n) \in BOOLEAN
    BY DEF read_bit, MemInv
  <1> QED BY <1>1, <1>2, <1>3, <1>4

\* A comparison is true or false, also for a relation nibble that means nothing.
LEMMA CompareType ==
    \A relation : \A a, b \in Int : comparison_result(relation, a, b) \in BOOLEAN
  <1> TAKE relation
  <1> TAKE a, b \in Int
  <1>1. \A x, y : (x = y) \in BOOLEAN /\ (x # y) \in BOOLEAN
    BY Zenon
  <1>2. (a > b) \in BOOLEAN /\ (a < b) \in BOOLEAN /\ (a <= b) \in BOOLEAN /\ (a >= b) \in BOOLEAN
    OBVIOUS
  <1> QED BY <1>1, <1>2, Zenon DEF comparison_result

\* The stacks, with their limit.
LEMMA StackType ==
    ASSUME NEW T, NEW stack \in Seq(T), NEW v \in T, NEW depth \in Nat, NEW default
    PROVE  /\ Push(stack, depth, v) \in Seq(T)
           /\ Len(stack) <= depth => Len(Push(stack, depth, v)) <= depth
           /\ Pop(stack) \in Seq(T)
           /\ Len(stack) <= depth => Len(Pop(stack)) <= depth
           /\ stack # <<>> => Top(stack, default) \in T
           /\ stack = <<>> => Top(stack, default) = default
           /\ Append(stack, v) \in Seq(T)
           /\ Len(Append(stack, v)) = Len(stack) + 1
  <1>1. /\ Append(stack, v) \in Seq(T) /\ Len(Append(stack, v)) = Len(stack) + 1
        /\ Len(stack) \in Nat
    OBVIOUS
  <1>2. /\ Push(stack, depth, v) \in Seq(T)
        /\ Len(stack) <= depth => Len(Push(stack, depth, v)) <= depth
    BY <1>1 DEF Push
  <1>3. ASSUME stack # <<>>
        PROVE  /\ SubSeq(stack, 1, Len(stack) - 1) \in Seq(T)
               /\ Len(SubSeq(stack, 1, Len(stack) - 1)) = Len(stack) - 1
               /\ stack[Len(stack)] \in T
    <2>1. Len(stack) \in 1..Len(stack)
      BY <1>3
    <2>2. ASSUME NEW n \in Nat, n <= Len(stack)
          PROVE  SubSeq(stack, 1, n) \in Seq(T) /\ Len(SubSeq(stack, 1, n)) = n
      <3>1. \A i \in 1..n : stack[i] \in T
        BY <2>2
      <3> QED BY <2>2, <3>1
    <2>3. Len(stack) - 1 \in Nat /\ Len(stack) - 1 <= Len(stack)
      BY <2>1
    <2>4. /\ SubSeq(stack, 1, Len(stack) - 1) \in Seq(T)
          /\ Len(SubSeq(stack, 1, Len(stack) - 1)) = Len(stack) - 1
      BY <2>2, <2>3
    <2> QED BY <2>1, <2>4
  <1>4. Pop(stack) \in Seq(T) /\ (Len(stack) <= depth => Len(Pop(stack)) <= depth)
    BY <1>1, <1>3 DEF Pop
  <1>5. stack # <<>> => Top(stack, default) \in T
    BY <1>3 DEF Top
  <1>6. stack = <<>> => Top(stack, default) = default
    BY DEF Top
  <1> QED BY <1>1, <1>2, <1>4, <1>5, <1>6

\* find_subroutine returns a word of the program, or 0.
LEMMA SubroutineType ==
    ASSUME FixedInv, NEW p
    PROVE  /\ find_subroutine(p) \in Nat
           /\ find_subroutine(p) # 0 => \E i \in DOMAIN prog.code :
                 Is(fetch(i), "P", "-") /\ find_subroutine(p) = i + 1
  <1> DEFINE at == {i \in DOMAIN prog.code : Is(fetch(i), "P", "-") /\ fetch(i).n = p}
  <1>1. at \in SUBSET Nat
    BY DEF FixedInv
  <1>2. find_subroutine(p) = IF at = {} THEN 0 ELSE 1 + CHOOSE i \in at : \A j \in at : i <= j
    BY DEF find_subroutine
  <1>3. at # {} => \E i \in at : \A j \in at : i <= j
    <2> HIDE DEF at
    <2> QED BY <1>1, LeastNat
  <1>4. at # {} => (CHOOSE i \in at : \A j \in at : i <= j) \in at
    <2> HIDE DEF at
    <2> QED BY <1>3
  <1> DEFINE c == CHOOSE i \in at : \A j \in at : i <= j
  <1>5. at # {} => c \in at
    BY <1>4
  <1>6. \A i \in at : i \in DOMAIN prog.code /\ Is(fetch(i), "P", "-")
    BY Zenon
  <1>7. find_subroutine(p) = IF at = {} THEN 0 ELSE 1 + c
    BY <1>2
  <1> HIDE DEF at, c
  <1>8. at # {} => c \in Nat
    BY <1>5, <1>1, Zenon
  <1>9. find_subroutine(p) \in Nat
    BY <1>7, <1>8
  <1>10. find_subroutine(p) # 0 => at # {} /\ find_subroutine(p) = c + 1
    BY <1>7, <1>8
  <1> QED BY <1>5, <1>6, <1>9, <1>10

------------------------------------------------------------------------------
(* One instruction, part by part *)

\* Every instruction runs inside a scan and leaves the program alone.
LEMMA Executes ==
    ASSUME Instruction
    PROVE  /\ Running /\ UNCHANGED fixed
           /\ \/ output_just_executed' = output_just_executed
              \/ output_just_executed' = (w.op = "OUT")
  <1>1. CASE Blank
    BY <1>1 DEF Blank
  <1>2. CASE OutPreset
    BY <1>2 DEF OutPreset, Decode
  <1>3. CASE Call
    BY <1>3 DEF Call, Misc, Decode
  <1>4. CASE Sret
    BY <1>4 DEF Sret, Misc, Decode
  <1>5. CASE Contact
    BY <1>5 DEF Contact, Decode
  <1>6. CASE MpsMrdMpp
    BY <1>6 DEF MpsMrdMpp, Decode
  <1>7. CASE AnbOrb
    BY <1>7 DEF AnbOrb, Decode
  <1>8. CASE InlineComparison
    BY <1>8 DEF InlineComparison, Decode
  <1>9. CASE OutCEnable
    BY <1>9 DEF OutCEnable, Decode
  <1>10. CASE Stl
    BY <1>10 DEF Stl, Decode
  <1>11. CASE Ret
    BY <1>11 DEF Ret, Decode
  <1>12. CASE SetRstOutS
    BY <1>12 DEF SetRstOutS, Misc, Decode
  <1>13. CASE Out
    BY <1>13 DEF Out, Decode
  <1>14. CASE Set
    BY <1>14 DEF Set, Decode
  <1>15. CASE Rst
    BY <1>15 DEF Rst, Decode
  <1>16. CASE RstC
    BY <1>16 DEF RstC, Misc, Decode
  <1>17. CASE PulsePrefix
    BY <1>17 DEF PulsePrefix, Misc, Decode
  <1>18. CASE Pls
    BY <1>18 DEF Pls, Decode
  <1>19. CASE Zrst
    BY <1>19 DEF Zrst, Misc, Decode
  <1>20. CASE Mov
    BY <1>20 DEF Mov, Misc, Decode
  <1>21. CASE execute_applied
    BY <1>21 DEF execute_applied, Misc, Decode
  <1>22. CASE Other
    BY <1>22 DEF Other, Decode
  <1> QED BY <1>1, <1>2, <1>3, <1>4, <1>5, <1>6, <1>7, <1>8, <1>9, <1>10, <1>11, <1>12, <1>13, <1>14, <1>15, <1>16, <1>17, <1>18, <1>19, <1>20, <1>21, <1>22 DEF Instruction

\* The count of rejected instructions only grows.
LEMMA FlagStep ==
    ASSUME Instruction
    PROVE  unknown' = TRUE \/ unknown' = unknown
  <1>1. CASE Blank
    BY <1>1 DEF Blank
  <1>2. CASE OutPreset
    BY <1>2 DEF OutPreset, accepted, bad_instruction
  <1>3. CASE Call
    BY <1>3 DEF Call, accepted, bad_instruction
  <1>4. CASE Sret
    BY <1>4 DEF Sret, accepted, bad_instruction
  <1>5. CASE Contact
    BY <1>5 DEF Contact, accepted, bad_instruction
  <1>6. CASE MpsMrdMpp
    BY <1>6 DEF MpsMrdMpp, accepted, bad_instruction
  <1>7. CASE AnbOrb
    BY <1>7 DEF AnbOrb, accepted, bad_instruction
  <1>8. CASE InlineComparison
    BY <1>8 DEF InlineComparison, accepted, bad_instruction
  <1>9. CASE OutCEnable
    BY <1>9 DEF OutCEnable, accepted, bad_instruction
  <1>10. CASE Stl
    BY <1>10 DEF Stl, accepted, bad_instruction
  <1>11. CASE Ret
    BY <1>11 DEF Ret, accepted, bad_instruction
  <1>12. CASE SetRstOutS
    BY <1>12 DEF SetRstOutS, accepted, bad_instruction
  <1>13. CASE Out
    BY <1>13 DEF Out, accepted, bad_instruction
  <1>14. CASE Set
    BY <1>14 DEF Set, accepted, bad_instruction
  <1>15. CASE Rst
    BY <1>15 DEF Rst, accepted, bad_instruction
  <1>16. CASE RstC
    BY <1>16 DEF RstC, accepted, bad_instruction
  <1>17. CASE PulsePrefix
    BY <1>17 DEF PulsePrefix, accepted, bad_instruction
  <1>18. CASE Pls
    BY <1>18 DEF Pls, accepted, bad_instruction
  <1>19. CASE Zrst
    BY <1>19 DEF Zrst, accepted, bad_instruction
  <1>20. CASE Mov
    BY <1>20 DEF Mov, accepted, bad_instruction
  <1>21. CASE execute_applied
    BY <1>21 DEF execute_applied, accepted, bad_instruction
  <1>22. CASE Other
    BY <1>22 DEF Other, accepted, bad_instruction
  <1> QED BY <1>1, <1>2, <1>3, <1>4, <1>5, <1>6, <1>7, <1>8, <1>9, <1>10, <1>11, <1>12, <1>13, <1>14, <1>15, <1>16, <1>17, <1>18, <1>19, <1>20, <1>21, <1>22 DEF Instruction

\* No call overruns the call stack, and what is on it are addresses a return
\* may go to.
LEMMA CallStep ==
    ASSUME ExecInv, Instruction
    PROVE  CallInv'
  <1>0. /\ CallInv /\ off \in Nat /\ off >= 1 /\ off <= PROGRAM_WORDS
        /\ PROGRAM_WORDS \in Nat /\ CALL_STACK_DEPTH \in Nat /\ Len(call_return) \in Nat
    BY Executes, ExecAssumption DEF ExecInv, Running, RungInv, CallInv
  <1>1. CASE Blank
    BY <1>1, <1>0 DEF Blank, CallInv, keep_rung
  <1>2. CASE OutPreset
    BY <1>2, <1>0 DEF OutPreset, CallInv
  <1>3. CASE Call
    <2>1. CASE call_return' = call_return
      BY <2>1, <1>0 DEF CallInv
    <2>2. CASE call_return' # call_return
      <3>1. Len(call_return) < CALL_STACK_DEPTH /\ call_return' = Append(call_return, off + 3)
        BY <1>3, <2>2, <1>0 DEF Call, call_fits
      <3>2. off + 3 \in 1..(PROGRAM_WORDS + 3)
        BY <1>0
      <3> QED BY <3>1, <3>2, <1>0, StackType DEF CallInv
    <2> QED BY <2>1, <2>2
  <1>4. CASE Sret
    <2>1. call_return' \in {call_return, Pop(call_return)}
      BY <1>4 DEF Sret, pop_call, Pop
    <2>2. off \in 1..(PROGRAM_WORDS + 3)
      BY <1>0
    <2>3. Pop(call_return) \in Seq(1..(PROGRAM_WORDS + 3)) /\ Len(Pop(call_return)) <= CALL_STACK_DEPTH
      BY <1>0, <2>2, StackType DEF CallInv
    <2> QED BY <2>1, <2>3, <1>0 DEF CallInv
  <1>5. CASE Contact
    BY <1>5, <1>0 DEF Contact, CallInv
  <1>6. CASE MpsMrdMpp
    BY <1>6, <1>0 DEF MpsMrdMpp, CallInv
  <1>7. CASE AnbOrb
    BY <1>7, <1>0 DEF AnbOrb, CallInv
  <1>8. CASE InlineComparison
    BY <1>8, <1>0 DEF InlineComparison, CallInv
  <1>9. CASE OutCEnable
    BY <1>9, <1>0 DEF OutCEnable, CallInv
  <1>10. CASE Stl
    BY <1>10, <1>0 DEF Stl, CallInv
  <1>11. CASE Ret
    BY <1>11, <1>0 DEF Ret, CallInv
  <1>12. CASE SetRstOutS
    BY <1>12, <1>0 DEF SetRstOutS, CallInv, keep_rung
  <1>13. CASE Out
    BY <1>13, <1>0 DEF Out, CallInv
  <1>14. CASE Set
    BY <1>14, <1>0 DEF Set, CallInv
  <1>15. CASE Rst
    BY <1>15, <1>0 DEF Rst, CallInv
  <1>16. CASE RstC
    BY <1>16, <1>0 DEF RstC, CallInv, keep_rung
  <1>17. CASE PulsePrefix
    BY <1>17, <1>0 DEF PulsePrefix, CallInv
  <1>18. CASE Pls
    BY <1>18, <1>0 DEF Pls, CallInv
  <1>19. CASE Zrst
    BY <1>19, <1>0 DEF Zrst, CallInv, keep_rung
  <1>20. CASE Mov
    BY <1>20, <1>0 DEF Mov, CallInv, keep_rung
  <1>21. CASE execute_applied
    BY <1>21, <1>0 DEF execute_applied, CallInv, keep_rung
  <1>22. CASE Other
    BY <1>22, <1>0 DEF Other, CallInv, keep_rung
  <1> QED BY <1>1, <1>2, <1>3, <1>4, <1>5, <1>6, <1>7, <1>8, <1>9, <1>10, <1>11, <1>12, <1>13, <1>14, <1>15, <1>16, <1>17, <1>18, <1>19, <1>20, <1>21, <1>22 DEF Instruction


\* The branch and the block stack stay within their arrays.
LEMMA StackStep ==
    ASSUME ExecInv, Instruction
    PROVE  StackInv'
  <1>0. /\ branch \in Seq(BOOLEAN) /\ Len(branch) <= BRANCH_DEPTH
        /\ block \in Seq(BOOLEAN) /\ Len(block) <= BLOCK_DEPTH
        /\ full \in Seq(BOOLEAN) /\ result \in BOOLEAN
        /\ BRANCH_DEPTH \in Nat /\ BLOCK_DEPTH \in Nat
    BY ExecAssumption DEF ExecInv, StackInv, RungInv
  <1>01. <<>> \in Seq(BOOLEAN) /\ Len(<<>>) = 0
    OBVIOUS
  <1>1. CASE Blank
    BY <1>1, <1>0, <1>01 DEF Blank, StackInv, stacks, keep_rung
  <1>2. CASE OutPreset
    <2>1. UNCHANGED stacks \/ EndRung
      BY <1>2, Zenon DEF OutPreset
    <2>2. CASE UNCHANGED stacks
      BY <2>2, <1>0 DEF StackInv, stacks
    <2>3. CASE EndRung
      BY <2>3, <1>0, <1>01 DEF StackInv, EndRung, discard_blocks
    <2> QED BY <2>1, <2>2, <2>3
  <1>3. CASE Call
    BY <1>3, <1>0, <1>01 DEF Call, StackInv, stacks
  <1>4. CASE Sret
    BY <1>4, <1>0, <1>01 DEF Sret, StackInv, stacks
  <1>5. CASE Contact
    <2>1. branch' = branch
      BY <1>5 DEF Contact
    <2>2. block' \in {block, Push(block, BLOCK_DEPTH, result)}
      BY <1>5, Zenon DEF Contact
    <2>3. full' \in {full, Append(full, result)}
      BY <1>5, Zenon DEF Contact
    <2>4. Push(block, BLOCK_DEPTH, result) \in Seq(BOOLEAN) /\ Len(Push(block, BLOCK_DEPTH, result)) <= BLOCK_DEPTH
      BY <1>0, StackType
    <2>5. Append(full, result) \in Seq(BOOLEAN)
      BY <1>0, StackType
    <2> QED BY <2>1, <2>2, <2>3, <2>4, <2>5, <1>0 DEF StackInv
  <1>6. CASE MpsMrdMpp
    <2>1. block' = block /\ full' = full
      BY <1>6 DEF MpsMrdMpp
    <2>2. branch' \in {branch, Push(branch, BRANCH_DEPTH, result), Pop(branch)}
      BY <1>6, Zenon DEF MpsMrdMpp
    <2>3. /\ Push(branch, BRANCH_DEPTH, result) \in Seq(BOOLEAN) /\ Len(Push(branch, BRANCH_DEPTH, result)) <= BRANCH_DEPTH
          /\ Pop(branch) \in Seq(BOOLEAN) /\ Len(Pop(branch)) <= BRANCH_DEPTH
      BY <1>0, StackType
    <2> QED BY <2>1, <2>2, <2>3, <1>0 DEF StackInv
  <1>7. CASE AnbOrb
    <2>1. block' = Pop(block) /\ full' = Pop(full) /\ branch' = branch
      BY <1>7 DEF AnbOrb
    <2>2. Pop(block) \in Seq(BOOLEAN) /\ Len(Pop(block)) <= BLOCK_DEPTH
      BY <1>0, StackType
    <2>3. Pop(full) \in Seq(BOOLEAN)
      BY <1>0, StackType
    <2> QED BY <2>1, <2>2, <2>3, <1>0 DEF StackInv
  <1>8. CASE InlineComparison
    BY <1>8, <1>0, <1>01 DEF InlineComparison, StackInv, stacks
  <1>9. CASE OutCEnable
    BY <1>9, <1>0, <1>01 DEF OutCEnable, StackInv, stacks
  <1>10. CASE Stl
    BY <1>10, <1>0, <1>01 DEF Stl, StackInv, stacks
  <1>11. CASE Ret
    BY <1>11, <1>0, <1>01 DEF Ret, StackInv, stacks
  <1>12. CASE SetRstOutS
    BY <1>12, <1>0, <1>01 DEF SetRstOutS, StackInv, stacks, keep_rung
  <1>13. CASE Out
    BY <1>13, <1>0, <1>01 DEF Out, StackInv, stacks, EndRung, discard_blocks
  <1>14. CASE Set
    BY <1>14, <1>0, <1>01 DEF Set, StackInv, stacks, EndRung, discard_blocks
  <1>15. CASE Rst
    BY <1>15, <1>0, <1>01 DEF Rst, StackInv, stacks, EndRung, discard_blocks
  <1>16. CASE RstC
    BY <1>16, <1>0, <1>01 DEF RstC, StackInv, stacks, keep_rung
  <1>17. CASE PulsePrefix
    BY <1>17, <1>0, <1>01 DEF PulsePrefix, StackInv, stacks
  <1>18. CASE Pls
    BY <1>18, <1>0, <1>01 DEF Pls, StackInv, stacks, EndRung, discard_blocks
  <1>19. CASE Zrst
    BY <1>19, <1>0, <1>01 DEF Zrst, StackInv, stacks, keep_rung
  <1>20. CASE Mov
    BY <1>20, <1>0, <1>01 DEF Mov, StackInv, stacks, keep_rung
  <1>21. CASE execute_applied
    BY <1>21, <1>0, <1>01 DEF execute_applied, StackInv, stacks, keep_rung
  <1>22. CASE Other
    BY <1>22, <1>0, <1>01 DEF Other, StackInv, stacks, keep_rung
  <1> QED BY <1>1, <1>2, <1>3, <1>4, <1>5, <1>6, <1>7, <1>8, <1>9, <1>10, <1>11, <1>12, <1>13, <1>14, <1>15, <1>16, <1>17, <1>18, <1>19, <1>20, <1>21, <1>22 DEF Instruction

\* Edge memory has a bit for every step of the program and no other.
LEMMA PulseStep ==
    ASSUME ExecInv, Instruction
    PROVE  PulseInv'
  <1>0. PulseInv /\ off \in 1..PROGRAM_WORDS
    BY Executes, ExecAssumption DEF ExecInv, Running, RungInv
  <1>1. CASE Blank
    BY <1>1, <1>0 DEF Blank, PulseInv, keep_rung
  <1>2. CASE OutPreset
    BY <1>2, <1>0 DEF OutPreset, PulseInv
  <1>3. CASE Call
    BY <1>3, <1>0 DEF Call, PulseInv
  <1>4. CASE Sret
    BY <1>4, <1>0 DEF Sret, PulseInv
  <1>5. CASE Contact
    BY <1>5, <1>0 DEF Contact, PulseInv
  <1>6. CASE MpsMrdMpp
    BY <1>6, <1>0 DEF MpsMrdMpp, PulseInv
  <1>7. CASE AnbOrb
    BY <1>7, <1>0 DEF AnbOrb, PulseInv
  <1>8. CASE InlineComparison
    BY <1>8, <1>0 DEF InlineComparison, PulseInv
  <1>9. CASE OutCEnable
    BY <1>9, <1>0 DEF OutCEnable, PulseInv
  <1>10. CASE Stl
    BY <1>10, <1>0 DEF Stl, PulseInv
  <1>11. CASE Ret
    BY <1>11, <1>0 DEF Ret, PulseInv
  <1>12. CASE SetRstOutS
    BY <1>12, <1>0 DEF SetRstOutS, PulseInv, keep_rung
  <1>13. CASE Out
    BY <1>13, <1>0 DEF Out, PulseInv
  <1>14. CASE Set
    BY <1>14, <1>0 DEF Set, PulseInv
  <1>15. CASE Rst
    BY <1>15, <1>0 DEF Rst, PulseInv
  <1>16. CASE RstC
    BY <1>16, <1>0 DEF RstC, PulseInv, keep_rung
  <1>17. CASE PulsePrefix
    <2>1. pulse_prev' = pulse_prev /\ pulsed' = pulsed
          /\ pulse_pending' \in {pulse_pending, w.dev} /\ w.dev \in {"PLS", "PLF"}
      BY <1>17 DEF PulsePrefix, Misc
    <2> QED BY <2>1, <1>0 DEF PulseInv
  <1>18. CASE Pls
    <2>1. /\ pulse_pending' = "none"
          /\ pulse_prev' \in {pulse_prev, pulse_prev \cup {off}, pulse_prev \ {off}}
          /\ pulsed' \in {pulsed, pulsed \cup {off}}
      BY <1>18, Zenon DEF Pls
    <2> QED BY <2>1, <1>0 DEF PulseInv
  <1>19. CASE Zrst
    BY <1>19, <1>0 DEF Zrst, PulseInv, keep_rung
  <1>20. CASE Mov
    BY <1>20, <1>0 DEF Mov, PulseInv, keep_rung
  <1>21. CASE execute_applied
    BY <1>21, <1>0 DEF execute_applied, PulseInv, keep_rung
  <1>22. CASE Other
    BY <1>22, <1>0 DEF Other, PulseInv, keep_rung
  <1> QED BY <1>1, <1>2, <1>3, <1>4, <1>5, <1>6, <1>7, <1>8, <1>9, <1>10, <1>11, <1>12, <1>13, <1>14, <1>15, <1>16, <1>17, <1>18, <1>19, <1>20, <1>21, <1>22 DEF Instruction

\* The operands of an applied instruction are at most three.
LEMMA Kinds ==
    /\ DOMAIN OperandKinds = {"CMP", "ADD", "SUB", "INC", "DEC"}
    /\ \A name \in DOMAIN OperandKinds :
          /\ Len(OperandKinds[name]) \in 1..3
          /\ DOMAIN OperandKinds[name] = 1..Len(OperandKinds[name])
  <1>1. DOMAIN OperandKinds = {"CMP", "ADD", "SUB", "INC", "DEC"}
    BY DEF OperandKinds
  <1>2. /\ OperandKinds["CMP"] = <<"value", "value", "bit">>
        /\ OperandKinds["ADD"] = <<"value", "value", "register">>
        /\ OperandKinds["SUB"] = <<"value", "value", "register">>
        /\ OperandKinds["INC"] = <<"register">> /\ OperandKinds["DEC"] = <<"register">>
    BY DEF OperandKinds
  <1>3. \A x, y, z : Len(<<x, y, z>>) = 3 /\ DOMAIN <<x, y, z>> = 1..3
    OBVIOUS
  <1>4. \A x : Len(<<x>>) = 1 /\ DOMAIN <<x>> = 1..1
    OBVIOUS
  <1>5. ASSUME NEW name \in DOMAIN OperandKinds
        PROVE  Len(OperandKinds[name]) \in 1..3 /\ DOMAIN OperandKinds[name] = 1..Len(OperandKinds[name])
    <2>1. \/ Len(OperandKinds[name]) = 3 /\ DOMAIN OperandKinds[name] = 1..3
          \/ Len(OperandKinds[name]) = 1 /\ DOMAIN OperandKinds[name] = 1..1
      <3>1. CASE name \in {"CMP", "ADD", "SUB"}
        <4>1. \E x, y, z : OperandKinds[name] = <<x, y, z>>
          BY <1>2, <3>1
        <4> QED BY <1>3, <4>1, Zenon
      <3>2. CASE name \in {"INC", "DEC"}
        <4>1. OperandKinds[name] = <<"register">>
          BY <1>2, <3>2
        <4> QED BY <1>4, <4>1, Zenon
      <3> QED BY <1>1, <3>1, <3>2
    <2>2. 3 \in 1..3 /\ 1 \in 1..3
      OBVIOUS
    <2> QED BY <2>1, <2>2, Zenon
  <1> QED BY <1>1, <1>5

\* Where execute_applied leaves off: behind its operands if all of them are of
\* their kind, behind the first that is not otherwise.
LEMMA AppliedNext ==
    ASSUME off \in Nat, execute_applied
    PROVE  \E m \in 1..Len(OperandKinds[w.dev]) :
              /\ off' = off + 1 + 2 * m
              /\ (\A k \in 1..Len(OperandKinds[w.dev]) :
                     OperandOk(OperandKinds[w.dev][k], off + 1 + 2 * (k - 1)))
                 => m = Len(OperandKinds[w.dev])
  <1> DEFINE kinds == OperandKinds[w.dev]
             at(k) == off + 1 + 2 * (k - 1)
             wrong == {k \in DOMAIN kinds : ~OperandOk(kinds[k], at(k))}
             c == CHOOSE k \in wrong : \A j \in wrong : k <= j
  <1>1. off' = IF wrong = {} THEN at(Len(kinds)) + 2 ELSE 2 + at(c)
    BY Zenon DEF execute_applied, Goto
  <1>2. w.dev \in DOMAIN OperandKinds
    BY DEF execute_applied, Misc
  <1>3. Len(kinds) \in 1..3 /\ DOMAIN kinds = 1..Len(kinds)
    BY <1>2, Kinds
  <1>4. wrong \in SUBSET (1..Len(kinds))
    BY <1>3, Zenon
  <1>5. wrong = {} <=> \A k \in 1..Len(kinds) : OperandOk(kinds[k], at(k))
    BY <1>3, Zenon
  <1> HIDE DEF wrong
  <1>6. wrong # {} => c \in wrong
    <2>1. wrong \in SUBSET Nat
      BY <1>3, <1>4
    <2>2. wrong # {} => \E k \in wrong : \A j \in wrong : k <= j
      BY <2>1, LeastNat
    <2> QED BY <2>2
  <1>7. wrong # {} => c \in 1..Len(kinds)
    BY <1>4, <1>6, Zenon
  <1> HIDE DEF c, kinds
  <1>8. CASE wrong = {}
    <2>1. off' = off + 1 + 2 * Len(kinds)
      BY <1>1, <1>3, <1>8
    <2>2. Len(kinds) \in 1..Len(kinds)
      BY <1>3
    <2> QED BY <2>1, <2>2, Zenon DEF kinds
  <1>9. CASE wrong # {}
    <2>1. off' = off + 1 + 2 * c
      BY <1>1, <1>3, <1>7, <1>9
    <2>2. ~(\A k \in 1..Len(kinds) : OperandOk(kinds[k], at(k)))
      BY <1>5, <1>9
    <2> QED BY <2>1, <2>2, <1>7, <1>9, Zenon DEF kinds
  <1> QED BY <1>8, <1>9

\* The next word is always a word of code memory, or behind it.
LEMMA OffStep ==
    ASSUME ExecInv, Instruction
    PROVE  off' \in Nat \ {0}
  <1>0. /\ off \in Nat \ {0} /\ FixedInv /\ call_return \in Seq(1..(PROGRAM_WORDS + 3))
        /\ PROGRAM_WORDS \in Nat
    BY ExecAssumption DEF ExecInv, RungInv, CallInv
  <1>1. CASE Blank
    BY <1>1, <1>0 DEF Blank
  <1>2. CASE OutPreset
    BY <1>2, <1>0 DEF OutPreset, Goto
  <1>3. CASE Call
    <2>1. \/ off' = off + 3
          \/ \E p : off' = find_subroutine(p) /\ find_subroutine(p) # 0
      BY <1>3, Zenon DEF Call, Goto
    <2> QED BY <2>1, <1>0, SubroutineType
  <1>4. CASE Sret
    <2>1. off' = off + 1 \/ (call_return # <<>> /\ off' = call_return[Len(call_return)])
      BY <1>4 DEF Sret, Goto
    <2>2. call_return # <<>> => call_return[Len(call_return)] \in 1..(PROGRAM_WORDS + 3)
      BY <1>0
    <2> QED BY <2>1, <2>2, <1>0
  <1>5. CASE Contact
    BY <1>5, <1>0 DEF Contact, Goto
  <1>6. CASE MpsMrdMpp
    BY <1>6, <1>0 DEF MpsMrdMpp, Goto
  <1>7. CASE AnbOrb
    BY <1>7, <1>0 DEF AnbOrb, Goto
  <1>8. CASE InlineComparison
    BY <1>8, <1>0 DEF InlineComparison, Goto
  <1>9. CASE OutCEnable
    BY <1>9, <1>0 DEF OutCEnable, Goto
  <1>10. CASE Stl
    BY <1>10, <1>0 DEF Stl
  <1>11. CASE Ret
    BY <1>11, <1>0 DEF Ret
  <1>12. CASE SetRstOutS
    BY <1>12, <1>0 DEF SetRstOutS
  <1>13. CASE Out
    BY <1>13, <1>0 DEF Out
  <1>14. CASE Set
    BY <1>14, <1>0 DEF Set
  <1>15. CASE Rst
    BY <1>15, <1>0 DEF Rst, Goto
  <1>16. CASE RstC
    BY <1>16, <1>0 DEF RstC, Goto
  <1>17. CASE PulsePrefix
    BY <1>17, <1>0 DEF PulsePrefix, Goto
  <1>18. CASE Pls
    BY <1>18, <1>0 DEF Pls, Goto
  <1>19. CASE Zrst
    BY <1>19, <1>0 DEF Zrst, Goto
  <1>20. CASE Mov
    BY <1>20, <1>0 DEF Mov, Goto
  <1>21. CASE execute_applied
    <2>1. PICK m \in 1..Len(OperandKinds[w.dev]) : off' = off + 1 + 2 * m
      BY <1>21, <1>0, AppliedNext
    <2>2. m \in Nat
      OBVIOUS
    <2> QED BY <2>1, <2>2, <1>0
  <1>22. CASE Other
    BY <1>22, <1>0 DEF Other, Goto
  <1> QED BY <1>1, <1>2, <1>3, <1>4, <1>5, <1>6, <1>7, <1>8, <1>9, <1>10, <1>11, <1>12, <1>13, <1>14, <1>15, <1>16, <1>17, <1>18, <1>19, <1>20, <1>21, <1>22 DEF Instruction

\* The result of the rung is a truth value.
LEMMA ResultStep ==
    ASSUME ExecInv, Instruction
    PROVE  result' \in BOOLEAN
  <1>0. /\ result \in BOOLEAN /\ FixedInv /\ MemInv /\ stl \in StlType
        /\ branch \in Seq(BOOLEAN)
    BY DEF ExecInv, RungInv, StlInv, StackInv
  <1>1. CASE Blank
    BY <1>1, <1>0 DEF Blank, keep_rung
  <1>2. CASE OutPreset
    BY <1>2, <1>0 DEF OutPreset
  <1>3. CASE Call
    BY <1>3, <1>0 DEF Call
  <1>4. CASE Sret
    BY <1>4, <1>0 DEF Sret
  <1>5. CASE Contact
    <2>1. read_bit(w.dev, w.n) \in BOOLEAN
      BY <1>0, WriteType
    <2>2. ASSUME NEW closed \in BOOLEAN PROVE power(closed) \in BOOLEAN
      BY <1>0 DEF power, Bus, StlType
    <2>3. (read_bit(w.dev, w.n) = (w.op \in {"LD", "AND", "OR"})) \in BOOLEAN
      BY Zenon
    <2>4. PICK closed \in BOOLEAN : result' \in {power(closed), result /\ closed, result \/ power(closed)}
      BY <1>5, <2>3, Zenon DEF Contact
    <2> QED BY <2>2, <2>4, <1>0
  <1>6. CASE MpsMrdMpp
    <2>1. result' = result \/ result' = Top(branch, result)
      BY <1>6 DEF MpsMrdMpp
    <2>2. Top(branch, result) \in BOOLEAN
      BY <1>0, StackType, ExecAssumption
    <2> QED BY <2>1, <2>2, <1>0
  <1>7. CASE AnbOrb
    <2>1. result' = (Top(block, TRUE) /\ result) \/ result' = (Top(block, FALSE) \/ result)
      BY <1>7 DEF AnbOrb
    <2> QED BY <2>1, Zenon
  <1>8. CASE InlineComparison
    <2>1. Signed(WordValue(off + 1)) \in Int /\ Signed(WordValue(off + 3)) \in Int
      <3>1. WordValue(off + 1) \in Nat /\ WordValue(off + 3) \in Nat
        BY <1>0, ValueType
      <3>2. ASSUME NEW v \in Nat PROVE Signed(v) \in Int
        BY ExecAssumption DEF Signed
      <3> QED BY <3>1, <3>2
    <2>2. comparison_result(w.dev, Signed(WordValue(off + 1)), Signed(WordValue(off + 3))) \in BOOLEAN
      BY <2>1, CompareType
    <2>3. PICK closed \in BOOLEAN : result' \in {FALSE, closed, result /\ closed, result \/ closed}
      BY <1>8, <2>2, Zenon DEF InlineComparison, Decode
    <2> QED BY <2>3, <1>0
  <1>9. CASE OutCEnable
    <2>1. read_bit("X", fetch(off + 1).n) \in BOOLEAN
      BY <1>0, WriteType
    <2> QED BY <1>9, <2>1 DEF OutCEnable
  <1>10. CASE Stl
    <2>1. result' = stl'.step_gate /\ \E merge : stl' = stl_begin_step(w.n, merge)
      BY <1>10, Zenon DEF Stl
    <2>2. PICK merge : stl' = stl_begin_step(w.n, merge)
      BY <2>1
    <2>3. stl'.step_gate = ((IF merge THEN stl.step_gate ELSE TRUE) /\ read_bit("S", w.n))
      BY <2>2 DEF stl_begin_step
    <2> QED BY <2>1, <2>3
  <1>11. CASE Ret
    BY <1>11, <1>0 DEF Ret
  <1>12. CASE SetRstOutS
    BY <1>12, <1>0 DEF SetRstOutS, keep_rung
  <1>13. CASE Out
    BY <1>13, <1>0 DEF Out
  <1>14. CASE Set
    BY <1>14, <1>0 DEF Set
  <1>15. CASE Rst
    BY <1>15, <1>0 DEF Rst
  <1>16. CASE RstC
    BY <1>16, <1>0 DEF RstC, keep_rung
  <1>17. CASE PulsePrefix
    BY <1>17, <1>0 DEF PulsePrefix
  <1>18. CASE Pls
    BY <1>18, <1>0 DEF Pls
  <1>19. CASE Zrst
    BY <1>19, <1>0 DEF Zrst, keep_rung
  <1>20. CASE Mov
    BY <1>20, <1>0 DEF Mov, keep_rung
  <1>21. CASE execute_applied
    BY <1>21, <1>0 DEF execute_applied, keep_rung
  <1>22. CASE Other
    BY <1>22, <1>0 DEF Other, keep_rung
  <1> QED BY <1>1, <1>2, <1>3, <1>4, <1>5, <1>6, <1>7, <1>8, <1>9, <1>10, <1>11, <1>12, <1>13, <1>14, <1>15, <1>16, <1>17, <1>18, <1>19, <1>20, <1>21, <1>22 DEF Instruction

\* The STL context after each of the things an instruction does to it.
StlFits(s) == s \in StlType /\ Len(s.sources) <= STL_MAX_SOURCES

\* None of them overruns the source list.
LEMMA StlUpdates ==
    ASSUME StlInv
    PROVE  /\ LeaveSources => StlFits(stl')
           /\ StlFits(stl_queue_transfer)
           /\ \A n \in Nat, merge \in BOOLEAN : StlFits(stl_begin_step(n, merge))
  <1>0. /\ stl.in_stl \in BOOLEAN /\ stl.accepting_sources \in BOOLEAN /\ stl.step_gate \in BOOLEAN
        /\ stl.sources \in Seq(Nat) /\ stl.reset_at_end \in SUBSET States
        /\ Len(stl.sources) <= STL_MAX_SOURCES /\ stl \in StlType /\ STL_MAX_SOURCES \in Nat
    BY ExecAssumption DEF StlInv, StlType
  <1>1. LeaveSources => StlFits(stl')
    BY <1>0 DEF LeaveSources, StlFits, StlType
  <1>2. StlFits(stl_queue_transfer)
    <2> DEFINE r == stl.reset_at_end \cup ({stl.sources[i] : i \in DOMAIN stl.sources} \cap States)
    <2>1. r \in SUBSET States
      BY <1>0
    <2>2. stl_queue_transfer = [stl EXCEPT !.accepting_sources = FALSE, !.reset_at_end = r]
      BY DEF stl_queue_transfer
    <2> HIDE DEF r
    <2> QED BY <1>0, <2>1, <2>2 DEF StlFits, StlType
  <1>3. ASSUME NEW n \in Nat, NEW merge \in BOOLEAN
        PROVE  StlFits(stl_begin_step(n, merge))
    <2> DEFINE s == IF merge THEN stl.sources ELSE <<>>
               g == IF merge THEN stl.step_gate ELSE TRUE
    <2>1. s \in Seq(Nat) /\ Len(s) <= STL_MAX_SOURCES
      BY <1>0
    <2>2. Push(s, STL_MAX_SOURCES, n) \in Seq(Nat) /\ Len(Push(s, STL_MAX_SOURCES, n)) <= STL_MAX_SOURCES
      <3> HIDE DEF s
      <3> QED BY <2>1, <1>0, StackType
    <2>3. (g /\ read_bit("S", n)) \in BOOLEAN
      BY Zenon
    <2>4. stl_begin_step(n, merge) =
            [in_stl |-> TRUE, accepting_sources |-> TRUE, step_gate |-> g /\ read_bit("S", n),
             sources |-> Push(s, STL_MAX_SOURCES, n), reset_at_end |-> stl.reset_at_end]
      BY DEF stl_begin_step
    <2> HIDE DEF s, g
    <2> QED BY <1>0, <2>2, <2>3, <2>4 DEF StlFits, StlType
  <1> QED BY <1>1, <1>2, <1>3

\* The source list of a merge stays within its array.
LEMMA StlStep ==
    ASSUME ExecInv, Instruction
    PROVE  StlInv'
  <1>0. StlInv /\ FixedInv
    BY DEF ExecInv
  <1>1. CASE Blank
    BY <1>1, <1>0 DEF Blank, StlInv
  <1>2. CASE OutPreset
    BY <1>2, <1>0, StlUpdates DEF OutPreset, Goto, StlFits, StlInv
  <1>3. CASE Call
    <2>1. LeaveSources
      BY <1>3, Zenon DEF Call, Goto
    <2> QED BY <2>1, <1>0, StlUpdates DEF StlFits, StlInv
  <1>4. CASE Sret
    <2>1. LeaveSources
      BY <1>4, Zenon DEF Sret, Goto
    <2> QED BY <2>1, <1>0, StlUpdates DEF StlFits, StlInv
  <1>5. CASE Contact
    BY <1>5, <1>0, StlUpdates DEF Contact, Goto, StlFits, StlInv
  <1>6. CASE MpsMrdMpp
    BY <1>6, <1>0, StlUpdates DEF MpsMrdMpp, Goto, StlFits, StlInv
  <1>7. CASE AnbOrb
    BY <1>7, <1>0, StlUpdates DEF AnbOrb, Goto, StlFits, StlInv
  <1>8. CASE InlineComparison
    BY <1>8, <1>0, StlUpdates DEF InlineComparison, Goto, StlFits, StlInv
  <1>9. CASE OutCEnable
    BY <1>9, <1>0, StlUpdates DEF OutCEnable, Goto, StlFits, StlInv
  <1>10. CASE Stl
    <2>1. \E merge \in BOOLEAN : stl' = stl_begin_step(w.n, merge)
      BY <1>10, Zenon DEF Stl
    <2>2. w.n \in Nat
      BY <1>0, FetchType DEF w
    <2> QED BY <2>1, <2>2, <1>0, StlUpdates DEF StlFits, StlInv
  <1>11. CASE Ret
    <2>1. <<>> \in Seq(Nat) /\ Len(<<>>) = 0
      OBVIOUS
    <2>2. stl' = [stl EXCEPT !.in_stl = FALSE, !.accepting_sources = FALSE,
                             !.sources = <<>>, !.step_gate = TRUE]
      BY <1>11 DEF Ret
    <2>3. ASSUME NEW s \in StlType, NEW e \in Seq(Nat)
          PROVE  /\ [s EXCEPT !.in_stl = FALSE, !.accepting_sources = FALSE,
                                !.sources = e, !.step_gate = TRUE] \in StlType
                 /\ [s EXCEPT !.in_stl = FALSE, !.accepting_sources = FALSE,
                                !.sources = e, !.step_gate = TRUE].sources = e
      BY DEF StlType
    <2>4. stl' \in StlType /\ stl'.sources = <<>>
      BY <2>1, <2>2, <2>3, <1>0 DEF StlInv
    <2>5. Len(stl'.sources) = 0 /\ STL_MAX_SOURCES \in Nat
      BY <2>1, <2>4, ExecAssumption
    <2> QED BY <2>4, <2>5 DEF StlInv
  <1>12. CASE SetRstOutS
    <2>1. LeaveSources \/ stl' = stl_queue_transfer
      BY <1>12 DEF SetRstOutS, Transfer
    <2> QED BY <2>1, <1>0, StlUpdates DEF StlFits, StlInv
  <1>13. CASE Out
    <2>1. LeaveSources \/ stl' = stl_queue_transfer
      BY <1>13 DEF Out, Transfer
    <2> QED BY <2>1, <1>0, StlUpdates DEF StlFits, StlInv
  <1>14. CASE Set
    <2>1. LeaveSources \/ stl' = stl_queue_transfer
      BY <1>14 DEF Set, Transfer
    <2> QED BY <2>1, <1>0, StlUpdates DEF StlFits, StlInv
  <1>15. CASE Rst
    BY <1>15, <1>0, StlUpdates DEF Rst, Goto, StlFits, StlInv
  <1>16. CASE RstC
    BY <1>16, <1>0, StlUpdates DEF RstC, Goto, StlFits, StlInv
  <1>17. CASE PulsePrefix
    BY <1>17, <1>0, StlUpdates DEF PulsePrefix, Goto, StlFits, StlInv
  <1>18. CASE Pls
    BY <1>18, <1>0, StlUpdates DEF Pls, Goto, StlFits, StlInv
  <1>19. CASE Zrst
    BY <1>19, <1>0, StlUpdates DEF Zrst, Goto, StlFits, StlInv
  <1>20. CASE Mov
    BY <1>20, <1>0, StlUpdates DEF Mov, Goto, StlFits, StlInv
  <1>21. CASE execute_applied
    <2>1. LeaveSources
      BY <1>21, Zenon DEF execute_applied, Goto
    <2> QED BY <2>1, <1>0, StlUpdates DEF StlFits, StlInv
  <1>22. CASE Other
    BY <1>22, <1>0, StlUpdates DEF Other, Goto, StlFits, StlInv
  <1> QED BY <1>1, <1>2, <1>3, <1>4, <1>5, <1>6, <1>7, <1>8, <1>9, <1>10, <1>11, <1>12, <1>13, <1>14, <1>15, <1>16, <1>17, <1>18, <1>19, <1>20, <1>21, <1>22 DEF Instruction

\* Bit devices stay bits and registers stay words.
LEMMA MemStep ==
    ASSUME ExecInv, Instruction
    PROVE  MemInv'
  <1>0. MemInv /\ FixedInv /\ result \in BOOLEAN /\ off \in Nat
    BY DEF ExecInv, RungInv
  <1>1. CASE Blank
    BY <1>1, <1>0 DEF Blank, mem, MemInv
  <1>2. CASE OutPreset
    <2>0. d' = d
      BY <1>2 DEF OutPreset
    <2>1. bits' = bits \/ \E closed \in BOOLEAN : \E q :
             bits' = [b \in BITS |-> IF b # q THEN bits[b]
                                     ELSE IF result THEN bits[b] \/ closed ELSE w.op = "OUT_C" /\ bits[b]]
      <3> DEFINE z == <<IF w.op = "OUT_T" THEN "T" ELSE "C", w.n>>
                 set(closed, q) ==
                     [b \in BITS |-> IF b # q THEN bits[b]
                                     ELSE IF result THEN bits[b] \/ closed ELSE w.op = "OUT_C" /\ bits[b]]
      <3>1. bits' = bits \/ \E closed \in IF result THEN BOOLEAN ELSE {FALSE} : bits' = set(closed, z)
        <4>1. CASE read_word_operand(off + 1)
          BY <1>2, <4>1, Zenon DEF OutPreset
        <4>2. CASE ~read_word_operand(off + 1)
          BY <1>2, <4>2, Zenon DEF OutPreset
        <4> QED BY <4>1, <4>2
      <3>2. \A closed \in IF result THEN BOOLEAN ELSE {FALSE} : closed \in BOOLEAN
        OBVIOUS
      <3>3. bits' = bits \/ \E closed \in BOOLEAN : \E q : bits' = set(closed, q)
        <4> HIDE DEF set, z
        <4> QED BY <3>1, <3>2, Zenon
      <3> QED BY <3>3, Zenon
    <2>2. ASSUME NEW closed \in BOOLEAN, NEW q
          PROVE  [b \in BITS |-> IF b # q THEN bits[b]
                                 ELSE IF result THEN bits[b] \/ closed ELSE w.op = "OUT_C" /\ bits[b]]
                   \in [BITS -> BOOLEAN]
      BY <1>0 DEF MemInv
    <2>3. bits' \in [BITS -> BOOLEAN]
      BY <2>1, <2>2, <1>0 DEF MemInv
    <2> QED BY <2>0, <2>3, <1>0 DEF MemInv
  <1>3. CASE Call
    BY <1>3, <1>0 DEF Call, mem, MemInv
  <1>4. CASE Sret
    BY <1>4, <1>0 DEF Sret, mem, MemInv
  <1>5. CASE Contact
    BY <1>5, <1>0 DEF Contact, mem, MemInv
  <1>6. CASE MpsMrdMpp
    BY <1>6, <1>0 DEF MpsMrdMpp, mem, MemInv
  <1>7. CASE AnbOrb
    BY <1>7, <1>0 DEF AnbOrb, mem, MemInv
  <1>8. CASE InlineComparison
    BY <1>8, <1>0 DEF InlineComparison, mem, MemInv
  <1>9. CASE OutCEnable
    BY <1>9, <1>0 DEF OutCEnable, mem, MemInv
  <1>10. CASE Stl
    BY <1>10, <1>0 DEF Stl, mem, MemInv
  <1>11. CASE Ret
    BY <1>11, <1>0 DEF Ret, mem, MemInv
  <1>12. CASE SetRstOutS
    <2>0. d' = d
      BY <1>12 DEF SetRstOutS
    <2>1. (w.dev = "SET_S") \in BOOLEAN
      BY Zenon
    <2>2. bits' = bits \/ \E n : \E v \in BOOLEAN : bits' = write_bit("S", n, v)
      BY <1>12, <2>1, <1>0, Zenon DEF SetRstOutS
    <2>3. bits' \in [BITS -> BOOLEAN]
      BY <2>2, <1>0, WriteType DEF MemInv
    <2> QED BY <2>0, <2>3, <1>0 DEF MemInv
  <1>13. CASE Out
    <2>0. d' = d
      BY <1>13 DEF Out
    <2>1. bits' = bits \/ bits' = write_bit(w.dev, w.n, result)
      BY <1>13 DEF Out
    <2>2. write_bit(w.dev, w.n, result) \in [BITS -> BOOLEAN]
      BY <1>0, WriteType, Zenon
    <2>3. bits' \in [BITS -> BOOLEAN]
      BY <2>1, <2>2, <1>0, WriteType DEF MemInv
    <2> QED BY <2>0, <2>3, <1>0 DEF MemInv
  <1>14. CASE Set
    <2>0. d' = d
      BY <1>14 DEF Set
    <2>1. bits' = bits \/ bits' = write_bit(w.dev, w.n, TRUE)
      BY <1>14 DEF Set
    <2>2. write_bit(w.dev, w.n, TRUE) \in [BITS -> BOOLEAN]
      BY <1>0, WriteType, Zenon
    <2>3. bits' \in [BITS -> BOOLEAN]
      BY <2>1, <2>2, <1>0, WriteType DEF MemInv
    <2> QED BY <2>0, <2>3, <1>0 DEF MemInv
  <1>15. CASE Rst
    <2>0. d' = d
      BY <1>15 DEF Rst
    <2>1. bits' = bits \/ bits' = OpenContact(w.dev, w.n) \/ bits' = write_bit(w.dev, w.n, FALSE)
      BY <1>15 DEF Rst
    <2>2. /\ write_bit(w.dev, w.n, FALSE) \in [BITS -> BOOLEAN]
          /\ OpenContact(w.dev, w.n) \in [BITS -> BOOLEAN]
      BY <1>0, WriteType, Zenon
    <2>3. bits' \in [BITS -> BOOLEAN]
      BY <2>1, <2>2, <1>0, WriteType DEF MemInv
    <2> QED BY <2>0, <2>3, <1>0 DEF MemInv
  <1>16. CASE RstC
    <2>0. d' = d
      BY <1>16 DEF RstC
    <2>1. bits' = bits \/ \E q : bits' = OpenContact(q.dev, q.n)
      BY <1>16, Zenon DEF RstC
    <2>3. bits' \in [BITS -> BOOLEAN]
      BY <2>1, <1>0, WriteType DEF MemInv
    <2> QED BY <2>0, <2>3, <1>0 DEF MemInv
  <1>17. CASE PulsePrefix
    BY <1>17, <1>0 DEF PulsePrefix, mem, MemInv
  <1>18. CASE Pls
    <2>0. d' = d
      BY <1>18 DEF Pls
    <2>1. pulse_edge(off, result, pulse_pending = "PLF") \in BOOLEAN
      BY <1>0, Zenon DEF pulse_edge
    <2>2. bits' = bits \/ bits' = write_bit(w.dev, w.n, pulse_edge(off, result, pulse_pending = "PLF"))
      BY <1>18 DEF Pls
    <2>3. bits' \in [BITS -> BOOLEAN]
      BY <2>1, <2>2, <1>0, WriteType DEF MemInv
    <2> QED BY <2>0, <2>3, <1>0 DEF MemInv
  <1>19. CASE Zrst
    <2>0. d' = d
      BY <1>19 DEF Zrst
    <2>1. bits' = bits \/ \E Q : bits' = write_bits([q \in Q |-> FALSE])
      BY <1>19, Zenon DEF Zrst
    <2>2. ASSUME NEW Q PROVE write_bits([q \in Q |-> FALSE]) \in [BITS -> BOOLEAN]
      <3> DEFINE f == [q \in Q |-> FALSE]
      <3>1. \A q \in DOMAIN f : f[q] \in BOOLEAN
        OBVIOUS
      <3> HIDE DEF f
      <3>2. write_bits(f) \in [BITS -> BOOLEAN]
        BY <3>1, <1>0, WriteType
      <3> QED BY <3>2 DEF f
    <2>3. bits' \in [BITS -> BOOLEAN]
      BY <2>1, <2>2, <1>0 DEF MemInv
    <2> QED BY <2>0, <2>3, <1>0 DEF MemInv
  <1>20. CASE Mov
    <2> DEFINE src == Device(fetch(off + 2).n)
               dst == Device(fetch(off + 4).n)
               from == fetch(off + 1).n
               to == fetch(off + 3).n
               f == [q \in {<<dst, (to + i) % 256>> : i \in 0..15} |->
                       read_bit(src, (from + ((q[2] - to) % 256)) % 256)]
    <2>1. bits' = bits \/ bits' = write_bits(f)
      BY <1>20, Zenon DEF Mov
    <2>2. \A q \in DOMAIN f : f[q] \in BOOLEAN
      <3>1. \A dev, n : read_bit(dev, n) \in BOOLEAN
        BY <1>0, WriteType
      <3> DEFINE g(q) == read_bit(src, (from + ((q[2] - to) % 256)) % 256)
      <3>2. \A q : g(q) \in BOOLEAN
        BY <3>1, Zenon
      <3> HIDE DEF g
      <3>3. \A V : \A q \in DOMAIN [p \in V |-> g(p)] : [p \in V |-> g(p)][q] \in BOOLEAN
        BY <3>2, Zenon
      <3> DEFINE V == {<<dst, (to + i) % 256>> : i \in 0..15}
      <3>4. f = [p \in V |-> g(p)]
        BY DEF g
      <3> HIDE DEF V, f
      <3> QED BY <3>3, <3>4, Zenon
    <2>3. write_bits(f) \in [BITS -> BOOLEAN]
      <3> HIDE DEF f
      <3> QED BY <2>2, <1>0, WriteType
    <2>4. bits' \in [BITS -> BOOLEAN]
      <3> HIDE DEF f
      <3> QED BY <2>1, <2>3, <1>0 DEF MemInv
    <2>5. d' = d \/ d' = set_d(Raw(off + 3) \div 2, WordValue(off + 1))
      BY <1>20, Zenon DEF Mov
    <2>6. WordValue(off + 1) \in Nat /\ Raw(off + 3) \div 2 \in Nat
      BY <1>0, FetchType, ValueType
    <2>7. set_d(Raw(off + 3) \div 2, WordValue(off + 1)) \in [0..(NUM_D - 1) -> 0..(WORD - 1)]
      BY <2>6, <1>0, RegisterType
    <2> QED BY <2>4, <2>5, <2>7, <1>0 DEF MemInv
  <1>21. CASE execute_applied
    <2>1. PICK last, a, b, reg, at :
             /\ bits' = bits \/ bits' = write_bits(CmpWrites(a, b, last))
             /\ d' = d \/ (w.dev \in {"ADD", "SUB", "INC", "DEC"} /\ d' = set_d(reg,
                  CASE w.dev = "ADD" -> a + b [] w.dev = "SUB" -> a - b
                    [] w.dev = "INC" -> get_d(reg) + 1 [] w.dev = "DEC" -> get_d(reg) - 1))
             /\ reg = Raw(last) \div 2 /\ a = WordValue(at) /\ b = WordValue(at + 2)
      <3>1. w.dev \in {"CMP", "ADD", "SUB", "INC", "DEC"}
        BY <1>21, Kinds DEF execute_applied, Misc
      <3> DEFINE kinds == OperandKinds[w.dev]
                 place(k) == off + 1 + 2 * (k - 1)
                 l == place(Len(kinds))
                 x == WordValue(place(1))
                 y == WordValue(place(2))
                 r == Raw(l) \div 2
      <3>2. /\ bits' = bits \/ bits' = write_bits(CmpWrites(x, y, l))
            /\ d' = d \/ (w.dev \in {"ADD", "SUB", "INC", "DEC"} /\ d' = set_d(r,
                 CASE w.dev = "ADD" -> x + y [] w.dev = "SUB" -> x - y
                   [] w.dev = "INC" -> get_d(r) + 1 [] w.dev = "DEC" -> get_d(r) - 1))
        BY <1>21, <3>1, Zenon DEF execute_applied
      <3>3. place(2) = place(1) + 2
        BY <1>0
      <3>4. r = Raw(l) \div 2 /\ x = WordValue(place(1)) /\ y = WordValue(place(1) + 2)
        BY <3>3, Zenon
      <3> HIDE DEF kinds, place, l, x, y, r
      <3> QED BY <3>2, <3>4, Zenon
    <2>2. a \in Nat /\ b \in Nat /\ reg \in Nat
      BY <2>1, <1>0, FetchType, ValueType
    <2>3. write_bits(CmpWrites(a, b, last)) \in [BITS -> BOOLEAN]
      <3>1. ASSUME NEW v \in Nat PROVE Signed(v) \in Int
        BY ExecAssumption DEF Signed
      <3>2. Signed(a) \in Int /\ Signed(b) \in Int
        BY <2>2, <3>1
      <3>3. \A rel : comparison_result(rel, Signed(a), Signed(b)) \in BOOLEAN
        BY <3>2, CompareType
      <3>4. \A q \in DOMAIN CmpWrites(a, b, last) : CmpWrites(a, b, last)[q] \in BOOLEAN
        BY <3>3, Zenon DEF CmpWrites
      <3> QED BY <3>4, <1>0, WriteType
    <2>4. bits' \in [BITS -> BOOLEAN]
      BY <2>1, <2>3, <1>0 DEF MemInv
    <2>5. get_d(reg) \in Int
      <3>1. get_d(reg) \in 0..(WORD - 1)
        BY <2>2, <1>0, RegisterType
      <3> QED BY <3>1, ExecAssumption
    <2>6. d' = d \/ \E v \in Int : d' = set_d(reg, v)
      <3>1. a + b \in Int /\ a - b \in Int /\ get_d(reg) + 1 \in Int /\ get_d(reg) - 1 \in Int
        BY <2>2, <2>5
      <3> QED BY <2>1, <3>1, Zenon
    <2>7. \A v \in Int : set_d(reg, v) \in [0..(NUM_D - 1) -> 0..(WORD - 1)]
      BY <2>2, <1>0, RegisterType
    <2> QED BY <2>4, <2>6, <2>7, <1>0 DEF MemInv
  <1>22. CASE Other
    BY <1>22, <1>0 DEF Other, mem, MemInv
  <1> QED BY <1>1, <1>2, <1>3, <1>4, <1>5, <1>6, <1>7, <1>8, <1>9, <1>10, <1>11, <1>12, <1>13, <1>14, <1>15, <1>16, <1>17, <1>18, <1>19, <1>20, <1>21, <1>22 DEF Instruction

------------------------------------------------------------------------------
(* The arrays of the interpreter *)

\* Every instruction keeps the invariant.
LEMMA InstructionStep ==
    ASSUME ExecInv, Instruction
    PROVE  ExecInv'
  <1>1. FixedInv'
    BY Executes DEF ExecInv, FixedInv, fixed
  <1>2. FlagInv'
    <2>1. unknown' \in BOOLEAN
      BY FlagStep DEF ExecInv, FlagInv
    <2>2. output_just_executed' \in BOOLEAN
      BY Executes DEF ExecInv, FlagInv
    <2> QED BY <2>1, <2>2 DEF FlagInv
  <1>3. RungInv'
    BY OffStep, ResultStep DEF RungInv
  <1> QED BY <1>1, <1>2, <1>3, MemStep, PulseStep, StlStep, StackStep, CallStep DEF ExecInv

\* The empty stacks and the context a scan begins with.
LEMMA Fresh ==
    /\ NoStl \in StlType /\ Len(NoStl.sources) <= STL_MAX_SOURCES
    /\ \A T : <<>> \in Seq(T)
    /\ \A n \in Nat : Len(<<>>) <= n
  <1>1. \A T : <<>> \in Seq(T)
    OBVIOUS
  <1>2. Len(<<>>) = 0
    OBVIOUS
  <1>3. \A n \in Nat : Len(<<>>) <= n
    BY <1>2
  <1>4. NoStl \in StlType /\ NoStl.sources = <<>>
    <2>1. <<>> \in Seq(Nat)
      BY <1>1
    <2>2. ASSUME NEW e \in Seq(Nat)
          PROVE  [in_stl |-> FALSE, accepting_sources |-> FALSE, step_gate |-> FALSE,
                  sources |-> e, reset_at_end |-> {}] \in StlType
      BY DEF StlType
    <2> QED BY <2>1, <2>2 DEF NoStl
  <1> QED BY <1>1, <1>3, <1>4, ExecAssumption

\* A scan begins with empty stacks.
LEMMA BeginStep ==
    ASSUME ExecInv, NEW inputs \in SUBSET Devices({"X"}), BeginScan(inputs)
    PROVE  ExecInv'
  <1>0. FixedInv /\ MemInv /\ PulseInv
    BY DEF ExecInv
  <1>1. FixedInv'
    <2>1. prog' = prog /\ first' = first /\ phase' = "scan"
      BY DEF BeginScan
    <2>2. before' \subseteq Devices({"X"})
      <3>1. before' = {} \/ before' = {q \in Devices({"X"}) : bits[q]}
        BY Zenon DEF BeginScan
      <3> QED BY <3>1, Zenon
    <2> QED BY <2>1, <2>2, <1>0 DEF FixedInv
  <1>2. MemInv'
    <2>1. /\ d' = d
          /\ bits' = [q \in BITS |-> CASE q[1] = "X" -> q \in inputs
                                       [] q = <<"MS", 0>> -> TRUE
                                       [] q = <<"MS", 2>> -> first
                                       [] OTHER -> bits[q]]
      BY Zenon DEF BeginScan
    <2>2. ASSUME NEW q \in BITS
          PROVE  (CASE q[1] = "X" -> q \in inputs [] q = <<"MS", 0>> -> TRUE
                    [] q = <<"MS", 2>> -> first [] OTHER -> bits[q]) \in BOOLEAN
      <3>1. (q \in inputs) \in BOOLEAN /\ first \in BOOLEAN /\ bits[q] \in BOOLEAN
        BY <1>0 DEF FixedInv, MemInv
      <3> QED BY <3>1, Zenon
    <2>3. bits' \in [BITS -> BOOLEAN]
      BY <2>1, <2>2, Zenon
    <2> QED BY <2>1, <2>3, <1>0 DEF MemInv
  <1>3. PulseInv'
    BY <1>0 DEF BeginScan, forget_pulses, PulseInv
  <1>4. RungInv' /\ FlagInv'
    <2>1. off' = 1 /\ result' = FALSE /\ unknown' = FALSE /\ output_just_executed' = FALSE
      BY DEF BeginScan
    <2>2. 1 \in Nat \ {0}
      OBVIOUS
    <2> QED BY <2>1, <2>2, Zenon DEF RungInv, FlagInv
  <1>5. StlInv'
    BY Fresh DEF BeginScan, StlInv
  <1>6. StackInv' /\ CallInv'
    BY Fresh, ExecAssumption DEF BeginScan, StackInv, CallInv
  <1> QED BY <1>1, <1>2, <1>3, <1>4, <1>5, <1>6 DEF ExecInv

\* The end of a scan, and STOP.
LEMMA IdleStep ==
    ASSUME ExecInv, EndScan \/ Restart \/ UNCHANGED vars
    PROVE  ExecInv'
  <1>0. /\ FixedInv /\ MemInv /\ PulseInv /\ RungInv /\ FlagInv /\ StlInv /\ StackInv /\ CallInv
        /\ NUM_D \in Nat /\ WORD \in Nat \ {0}
    BY ExecAssumption DEF ExecInv
  <1>1. CASE EndScan
    <2>1. /\ bits' = [q \in BITS |-> IF q[1] = "S" /\ q[2] \in stl.reset_at_end THEN FALSE ELSE bits[q]]
          /\ phase' = "idle" /\ first' = FALSE
          /\ UNCHANGED <<prog, before, d, pulse_prev, pulsed, unknown, off, result, pulse_pending, stl,
                         stacks, call_return, output_just_executed>>
      BY <1>1 DEF EndScan, Leave, stl_finish_scan
    <2>2. MemInv'
      BY <2>1, <1>0 DEF MemInv
    <2>3. FixedInv' /\ PulseInv' /\ RungInv' /\ FlagInv' /\ CallInv'
      BY <2>1, <1>0 DEF FixedInv, PulseInv, RungInv, FlagInv, CallInv
    <2>4. StlInv' /\ StackInv'
      BY <2>1, <1>0 DEF StlInv, StackInv, stacks
    <2> QED BY <2>2, <2>3, <2>4 DEF ExecInv
  <1>2. CASE Restart
    <2>1. /\ bits' = [q \in BITS |-> IF q[1] \in {"X", "MS"} \/ (q[1] = "C" /\ q[2] >= 100)
                                     THEN bits[q] ELSE FALSE]
          /\ d' = [i \in 0..(NUM_D - 1) |-> 0]
          /\ first' = TRUE
          /\ UNCHANGED <<prog, phase, before, pulse_prev, pulsed, unknown, off, result, pulse_pending, stl,
                         stacks, call_return, output_just_executed>>
      BY <1>2 DEF Restart
    <2>2. MemInv'
      <3>1. bits' \in [BITS -> BOOLEAN]
        BY <2>1, <1>0 DEF MemInv
      <3>2. 0 \in 0..(WORD - 1)
        BY <1>0
      <3>3. d' \in [0..(NUM_D - 1) -> 0..(WORD - 1)]
        BY <2>1, <3>2, Zenon
      <3> QED BY <3>1, <3>3 DEF MemInv
    <2>3. FixedInv' /\ PulseInv' /\ RungInv' /\ FlagInv' /\ CallInv'
      BY <2>1, <1>0 DEF FixedInv, PulseInv, RungInv, FlagInv, CallInv
    <2>4. StlInv' /\ StackInv'
      BY <2>1, <1>0 DEF StlInv, StackInv, stacks
    <2> QED BY <2>2, <2>3, <2>4 DEF ExecInv
  <1>3. CASE UNCHANGED vars
    <2>1. FixedInv' /\ MemInv' /\ PulseInv' /\ RungInv' /\ FlagInv' /\ CallInv'
      BY <1>3, <1>0 DEF vars, fixed, mem, FixedInv, MemInv, PulseInv, RungInv, FlagInv, CallInv
    <2>2. StlInv' /\ StackInv'
      BY <1>3, <1>0 DEF vars, StlInv, StackInv, stacks
    <2> QED BY <2>1, <2>2 DEF ExecInv
  <1> QED BY <1>1, <1>2, <1>3

\* ExecInv holds whatever the program and whatever the inputs of each scan.
LEMMA ExecAlways == Spec => []ExecInv
  <1>1. ASSUME Init PROVE ExecInv
    <2>1. prog \in PROGRAMS /\ prog.code \in Seq(WordType)
      BY <1>1, ExecAssumption DEF Init
    <2>2. FixedInv
      BY <1>1, <2>1 DEF Init, FixedInv
    <2>3. MemInv
      <3>1. 0 \in 0..(WORD - 1)
        BY ExecAssumption
      <3> QED BY <1>1, <3>1 DEF Init, MemInv
    <2>4. PulseInv /\ RungInv /\ FlagInv
      <3>1. 1 \in Nat \ {0}
        OBVIOUS
      <3> QED BY <1>1, <3>1, Zenon DEF Init, PulseInv, RungInv, FlagInv
    <2>5. StlInv
      BY <1>1, Fresh DEF Init, StlInv
    <2>6. StackInv /\ CallInv
      BY <1>1, Fresh, ExecAssumption DEF Init, StackInv, CallInv
    <2> QED BY <2>2, <2>3, <2>4, <2>5, <2>6 DEF ExecInv
  <1>2. ASSUME ExecInv, [Next]_vars PROVE ExecInv'
    BY <1>2, InstructionStep, BeginStep, IdleStep DEF Next
  <1> QED BY <1>1, <1>2, PTL DEF Spec

\* plc_exec_scan never indexes its call, branch, block and source arrays past
\* their end, nor edge memory past the last step: for every program, also one
\* that calls itself, never pops what it pushes or is not a program at all.
THEOREM ArraysHold == Spec => []TypeOK
  <1>1. ExecInv => TypeOK
    BY DEF ExecInv, TypeOK, FixedInv, MemInv, PulseInv, RungInv, FlagInv, StlInv, StackInv, CallInv
  <1> QED BY <1>1, ExecAlways, PTL

------------------------------------------------------------------------------
(* Blocks *)

\* ANB and ORB are executed only while all the blocks that are open are on the
\* block stack (an LD beyond its depth is not pushed).
BlocksFit == Running /\ w.op = "STACK" /\ w.dev \in {"ANB", "ORB"} => Len(full) <= BLOCK_DEPTH

\* The first blocks of a stack f without a limit.
Kept(f) == IF Len(f) <= BLOCK_DEPTH THEN f ELSE SubSeq(f, 1, BLOCK_DEPTH)

\* One more block: the newest is lost when the stack is full.
LEMMA KeptPush ==
    ASSUME NEW f \in Seq(BOOLEAN), NEW v \in BOOLEAN
    PROVE  Push(Kept(f), BLOCK_DEPTH, v) = Kept(Append(f, v))
  <1>0. BLOCK_DEPTH \in Nat /\ Len(f) \in Nat
    BY ExecAssumption
  <1> DEFINE g == Append(f, v)
  <1>1. /\ g \in Seq(BOOLEAN) /\ Len(g) = Len(f) + 1
        /\ \A k \in 1..Len(f) : g[k] = f[k]
    OBVIOUS
  <1>2. CASE Len(f) < BLOCK_DEPTH
    <2>1. Kept(f) = f /\ Kept(g) = g
      BY <1>0, <1>1, <1>2 DEF Kept
    <2> QED BY <1>2, <2>1 DEF Push
  <1>3. CASE Len(f) >= BLOCK_DEPTH
    <2>1. Kept(g) = SubSeq(g, 1, BLOCK_DEPTH)
      BY <1>0, <1>1, <1>3 DEF Kept
    <2>2. SubSeq(g, 1, BLOCK_DEPTH) = SubSeq(f, 1, BLOCK_DEPTH)
      BY <1>0, <1>1, <1>3, Z3
    <2>3. Kept(f) = SubSeq(f, 1, BLOCK_DEPTH) /\ Len(Kept(f)) = BLOCK_DEPTH
      <3>1. CASE Len(f) = BLOCK_DEPTH
        BY <1>0, <3>1 DEF Kept
      <3>2. CASE Len(f) > BLOCK_DEPTH
        BY <1>0, <3>2 DEF Kept
      <3> QED BY <1>0, <1>3, <3>1, <3>2
    <2>4. Push(Kept(f), BLOCK_DEPTH, v) = Kept(f)
      BY <1>0, <2>3 DEF Push
    <2> QED BY <2>1, <2>2, <2>3, <2>4
  <1> QED BY <1>0, <1>2, <1>3

\* The block stack holds the first of the blocks of a stack without a limit.
LEMMA SameStack ==
    ASSUME ExecInv, block = Kept(full), Instruction, BlocksFit
    PROVE  block' = Kept(full')
  <1>e. Kept(<<>>) = <<>>
    BY ExecAssumption DEF Kept
  <1>0. full \in Seq(BOOLEAN) /\ result \in BOOLEAN /\ BLOCK_DEPTH \in Nat /\ Len(full) \in Nat
    BY ExecAssumption DEF ExecInv, StackInv, RungInv
  <1>1. CASE Blank
    BY <1>1 DEF Blank, keep_rung, stacks
  <1>2. CASE OutPreset
    <2>1. UNCHANGED stacks \/ EndRung
      BY <1>2, Zenon DEF OutPreset
    <2> QED BY <2>1, <1>e DEF stacks, EndRung, discard_blocks
  <1>3. CASE Call
    BY <1>3 DEF Call, stacks
  <1>4. CASE Sret
    BY <1>4 DEF Sret, stacks
  <1>5. CASE Contact
    <2>1. CASE block' = block /\ full' = full
      BY <2>1
    <2>2. CASE block' = Push(block, BLOCK_DEPTH, result) /\ full' = Append(full, result)
      BY <2>2, <1>0, KeptPush
    <2> QED BY <1>5, <2>1, <2>2, Zenon DEF Contact
  <1>6. CASE MpsMrdMpp
    BY <1>6 DEF MpsMrdMpp, stacks
  <1>7. CASE AnbOrb
    <2>1. Len(full) <= BLOCK_DEPTH
      BY <1>7 DEF AnbOrb, Decode, BlocksFit
    <2>2. block = full
      BY <2>1 DEF Kept
    <2>3. Len(Pop(full)) <= BLOCK_DEPTH
      BY <1>0, <2>1 DEF Pop
    <2> QED BY <1>7, <2>2, <2>3 DEF AnbOrb, Kept
  <1>8. CASE InlineComparison
    BY <1>8 DEF InlineComparison, stacks
  <1>9. CASE OutCEnable
    BY <1>9 DEF OutCEnable, stacks
  <1>10. CASE Stl
    BY <1>10 DEF Stl, stacks
  <1>11. CASE Ret
    BY <1>11 DEF Ret, stacks
  <1>12. CASE SetRstOutS
    BY <1>12 DEF SetRstOutS, keep_rung, stacks
  <1>13. CASE Out
    BY <1>13, <1>e DEF Out, stacks, EndRung, discard_blocks
  <1>14. CASE Set
    BY <1>14, <1>e DEF Set, stacks, EndRung, discard_blocks
  <1>15. CASE Rst
    BY <1>15, <1>e DEF Rst, stacks, EndRung, discard_blocks
  <1>16. CASE RstC
    BY <1>16 DEF RstC, keep_rung, stacks
  <1>17. CASE PulsePrefix
    BY <1>17 DEF PulsePrefix, stacks
  <1>18. CASE Pls
    BY <1>18, <1>e DEF Pls, stacks, EndRung, discard_blocks
  <1>19. CASE Zrst
    BY <1>19 DEF Zrst, keep_rung, stacks
  <1>20. CASE Mov
    BY <1>20 DEF Mov, keep_rung, stacks
  <1>21. CASE execute_applied
    BY <1>21 DEF execute_applied, keep_rung, stacks
  <1>22. CASE Other
    BY <1>22 DEF Other, keep_rung, stacks
  <1> QED BY <1>1, <1>2, <1>3, <1>4, <1>5, <1>6, <1>7, <1>8, <1>9, <1>10, <1>11, <1>12, <1>13, <1>14, <1>15, <1>16, <1>17, <1>18, <1>19, <1>20, <1>21, <1>22 DEF Instruction

\* ANB and ORB combine with the result that preceded the last LD still open, in
\* every program that uses them only while the blocks fit.  An applied
\* instruction does not empty the stack, so that is a condition on a row of
\* such rungs together.
THEOREM BlocksMatch == Spec /\ []BlocksFit => []BlockTop
  <1>1. Init => block = Kept(full)
    BY ExecAssumption DEF Init, Kept
  <1>2. ASSUME ExecInv, block = Kept(full), BlocksFit, [Next]_vars
        PROVE  (block = Kept(full))'
    <2>1. CASE Instruction
      BY <1>2, <2>1, SameStack
    <2>2. CASE \E inputs \in SUBSET Devices({"X"}) : BeginScan(inputs)
      <3>1. block' = <<>> /\ full' = <<>>
        BY <2>2, Zenon DEF BeginScan
      <3> QED BY <3>1, ExecAssumption DEF Kept
    <2>3. CASE EndScan \/ Restart
      BY <1>2, <2>3 DEF EndScan, Leave, Restart, stacks
    <2>4. CASE UNCHANGED vars
      BY <1>2, <2>4 DEF vars, stacks
    <2> QED BY <1>2, <2>1, <2>2, <2>3, <2>4 DEF Next
  <1>3. block = Kept(full) /\ BlocksFit => BlockTop
    BY DEF BlockTop, BlocksFit, Kept
  <1> QED BY <1>1, <1>2, <1>3, ExecAlways, PTL DEF Spec

------------------------------------------------------------------------------
(* Steps *)

\* The program combines blocks with ORB, and a stack without a true entry.
UsesOrb == \E i \in DOMAIN prog.code : Is(prog.code[i], "STACK", "ORB")
AllOff(s) == \A k \in DOMAIN s : ~s[k]

\* In an inactive step no LD or OR comparison and no OUT_C_ENABLE is executed,
\* which make a result without a look at the gate, and no PLF, whose coil goes
\* on because its rung went off.
Inactive == phase = "scan" /\ stl.in_stl /\ ~stl.step_gate
StepsGated ==
    Running /\ Inactive => w.op \notin {"LD_CMP", "OR_CMP", "OUT_C_ENABLE"} /\ ~Is(w, "MISC", "PLF")

\* No step begins between an MPS and its MPP, between PLF and its coil or, where
\* ORB may pick it up, with a block left open.
StepsClosed ==
    Running /\ w.op = "STL" =>
        branch = <<>> /\ pulse_pending # "PLF" /\ (UsesOrb => block = <<>>)

\* In an inactive step the rung is off, and so is every branch and block of it.
Off == ~result /\ AllOff(branch) /\ (UsesOrb => AllOff(block))
GateInv == Inactive => Off /\ pulse_pending # "PLF"

\* Pushing an off rung and popping keep a stack off, and its top is off.
LEMMA StaysOff ==
    ASSUME NEW s \in Seq(BOOLEAN), AllOff(s), NEW n \in Nat
    PROVE  AllOff(<<>>) /\ AllOff(Push(s, n, FALSE)) /\ AllOff(Pop(s)) /\ Top(s, FALSE) = FALSE
  <1>0. Len(s) \in Nat /\ \A k \in DOMAIN s : s[k] = FALSE
    BY DEF AllOff
  <1>1. AllOff(<<>>)
    BY DEF AllOff
  <1>2. AllOff(Push(s, n, FALSE))
    BY <1>0 DEF AllOff, Push
  <1>3. AllOff(Pop(s))
    <2>1. CASE s = <<>>
      BY <1>1, <2>1 DEF Pop
    <2>2. CASE s # <<>>
      <3>1. Len(s) - 1 \in Nat
        BY <2>2, <1>0
      <3>2. ASSUME NEW k \in DOMAIN SubSeq(s, 1, Len(s) - 1)
            PROVE  SubSeq(s, 1, Len(s) - 1)[k] = FALSE
        <4>1. k \in 1..(Len(s) - 1) /\ SubSeq(s, 1, Len(s) - 1)[k] = s[k] /\ k \in DOMAIN s
          BY <3>1, <3>2, <1>0
        <4> QED BY <4>1, <1>0
      <3> QED BY <2>2, <3>2 DEF Pop, AllOff
    <2> QED BY <2>1, <2>2
  <1>4. Top(s, FALSE) = FALSE
    <2>1. s # <<>> => Len(s) \in DOMAIN s
      BY <1>0
    <2> QED BY <2>1, <1>0 DEF Top
  <1> QED BY <1>1, <1>2, <1>3, <1>4

\* What an instruction other than STL and RET makes of the gate.
LEMMA SameGate ==
    ASSUME StlInv, stl' = stl \/ LeaveSources \/ stl' = stl_queue_transfer
    PROVE  /\ stl'.in_stl = stl.in_stl /\ stl'.step_gate = stl.step_gate
           /\ stl'.sources = stl.sources
  <1>0. stl \in StlType
    BY DEF StlInv
  <1>1. CASE LeaveSources
    BY <1>0, <1>1 DEF LeaveSources, StlType
  <1>2. CASE stl' = stl_queue_transfer
    <2>1. PICK r : stl_queue_transfer = [stl EXCEPT !.accepting_sources = FALSE, !.reset_at_end = r]
      BY Zenon DEF stl_queue_transfer
    <2> QED BY <1>0, <1>2, <2>1 DEF StlType
  <1> QED BY <1>1, <1>2

\* The step, and whether it is active, as long as no other begins.
SameStep ==
    stl'.in_stl => stl.in_stl /\ stl'.step_gate = stl.step_gate /\ stl'.sources = stl.sources

\* Only STL begins a step or makes one inactive.
LEMMA GateKept ==
    ASSUME ExecInv, Instruction, ~Stl
    PROVE  SameStep /\ (Inactive' => Inactive)
  <1>0. StlInv /\ phase = "scan"
    BY Executes DEF ExecInv, Running
  <1>1. CASE Blank
    <2>1. stl' = stl \/ LeaveSources \/ stl' = stl_queue_transfer
      BY <1>1, Zenon DEF Blank
    <2> QED BY <2>1, <1>0, SameGate DEF Inactive, SameStep
  <1>2. CASE OutPreset
    <2>1. stl' = stl \/ LeaveSources \/ stl' = stl_queue_transfer
      BY <1>2, Zenon DEF OutPreset, Goto
    <2> QED BY <2>1, <1>0, SameGate DEF Inactive, SameStep
  <1>3. CASE Call
    <2>1. stl' = stl \/ LeaveSources \/ stl' = stl_queue_transfer
      BY <1>3, Zenon DEF Call, Goto
    <2> QED BY <2>1, <1>0, SameGate DEF Inactive, SameStep
  <1>4. CASE Sret
    <2>1. stl' = stl \/ LeaveSources \/ stl' = stl_queue_transfer
      BY <1>4, Zenon DEF Sret, Goto
    <2> QED BY <2>1, <1>0, SameGate DEF Inactive, SameStep
  <1>5. CASE Contact
    <2>1. stl' = stl \/ LeaveSources \/ stl' = stl_queue_transfer
      BY <1>5, Zenon DEF Contact, Goto
    <2> QED BY <2>1, <1>0, SameGate DEF Inactive, SameStep
  <1>6. CASE MpsMrdMpp
    <2>1. stl' = stl \/ LeaveSources \/ stl' = stl_queue_transfer
      BY <1>6, Zenon DEF MpsMrdMpp, Goto
    <2> QED BY <2>1, <1>0, SameGate DEF Inactive, SameStep
  <1>7. CASE AnbOrb
    <2>1. stl' = stl \/ LeaveSources \/ stl' = stl_queue_transfer
      BY <1>7, Zenon DEF AnbOrb, Goto
    <2> QED BY <2>1, <1>0, SameGate DEF Inactive, SameStep
  <1>8. CASE InlineComparison
    <2>1. stl' = stl \/ LeaveSources \/ stl' = stl_queue_transfer
      BY <1>8, Zenon DEF InlineComparison, Goto
    <2> QED BY <2>1, <1>0, SameGate DEF Inactive, SameStep
  <1>9. CASE OutCEnable
    <2>1. stl' = stl \/ LeaveSources \/ stl' = stl_queue_transfer
      BY <1>9, Zenon DEF OutCEnable, Goto
    <2> QED BY <2>1, <1>0, SameGate DEF Inactive, SameStep
  <1>10. CASE Stl
    BY <1>10
  <1>11. CASE Ret
    <2>1. stl' = [stl EXCEPT !.in_stl = FALSE, !.accepting_sources = FALSE,
                             !.sources = <<>>, !.step_gate = TRUE]
      BY <1>11 DEF Ret
    <2>2. ASSUME NEW s \in StlType, NEW e
          PROVE  [s EXCEPT !.in_stl = FALSE, !.accepting_sources = FALSE,
                           !.sources = e, !.step_gate = TRUE].in_stl = FALSE
      BY DEF StlType
    <2> QED BY <2>1, <2>2, <1>0 DEF Inactive, StlInv, SameStep
  <1>12. CASE SetRstOutS
    <2>1. stl' = stl \/ LeaveSources \/ stl' = stl_queue_transfer
      BY <1>12, Zenon DEF SetRstOutS, Transfer
    <2> QED BY <2>1, <1>0, SameGate DEF Inactive, SameStep
  <1>13. CASE Out
    <2>1. stl' = stl \/ LeaveSources \/ stl' = stl_queue_transfer
      BY <1>13, Zenon DEF Out, Transfer
    <2> QED BY <2>1, <1>0, SameGate DEF Inactive, SameStep
  <1>14. CASE Set
    <2>1. stl' = stl \/ LeaveSources \/ stl' = stl_queue_transfer
      BY <1>14, Zenon DEF Set, Transfer
    <2> QED BY <2>1, <1>0, SameGate DEF Inactive, SameStep
  <1>15. CASE Rst
    <2>1. stl' = stl \/ LeaveSources \/ stl' = stl_queue_transfer
      BY <1>15, Zenon DEF Rst, Goto
    <2> QED BY <2>1, <1>0, SameGate DEF Inactive, SameStep
  <1>16. CASE RstC
    <2>1. stl' = stl \/ LeaveSources \/ stl' = stl_queue_transfer
      BY <1>16, Zenon DEF RstC, Goto
    <2> QED BY <2>1, <1>0, SameGate DEF Inactive, SameStep
  <1>17. CASE PulsePrefix
    <2>1. stl' = stl \/ LeaveSources \/ stl' = stl_queue_transfer
      BY <1>17, Zenon DEF PulsePrefix, Goto
    <2> QED BY <2>1, <1>0, SameGate DEF Inactive, SameStep
  <1>18. CASE Pls
    <2>1. stl' = stl \/ LeaveSources \/ stl' = stl_queue_transfer
      BY <1>18, Zenon DEF Pls, Goto
    <2> QED BY <2>1, <1>0, SameGate DEF Inactive, SameStep
  <1>19. CASE Zrst
    <2>1. stl' = stl \/ LeaveSources \/ stl' = stl_queue_transfer
      BY <1>19, Zenon DEF Zrst, Goto
    <2> QED BY <2>1, <1>0, SameGate DEF Inactive, SameStep
  <1>20. CASE Mov
    <2>1. stl' = stl \/ LeaveSources \/ stl' = stl_queue_transfer
      BY <1>20, Zenon DEF Mov, Goto
    <2> QED BY <2>1, <1>0, SameGate DEF Inactive, SameStep
  <1>21. CASE execute_applied
    <2>1. stl' = stl \/ LeaveSources \/ stl' = stl_queue_transfer
      BY <1>21, Zenon DEF execute_applied, Goto
    <2> QED BY <2>1, <1>0, SameGate DEF Inactive, SameStep
  <1>22. CASE Other
    <2>1. stl' = stl \/ LeaveSources \/ stl' = stl_queue_transfer
      BY <1>22, Zenon DEF Other, Goto
    <2> QED BY <2>1, <1>0, SameGate DEF Inactive, SameStep
  <1> QED BY <1>1, <1>2, <1>3, <1>4, <1>5, <1>6, <1>7, <1>8, <1>9, <1>10, <1>11, <1>12, <1>13, <1>14, <1>15, <1>16, <1>17, <1>18, <1>19, <1>20, <1>21, <1>22 DEF Instruction


\* An instruction in an inactive step leaves its rung off.
LEMMA OffKept ==
    ASSUME ExecInv, StepsGated, Inactive, Off, Instruction, ~Stl
    PROVE  Off'
  <1>0. /\ result = FALSE /\ branch \in Seq(BOOLEAN) /\ block \in Seq(BOOLEAN)
        /\ AllOff(branch) /\ (UsesOrb => AllOff(block))
        /\ BRANCH_DEPTH \in Nat /\ BLOCK_DEPTH \in Nat
    BY ExecAssumption DEF Off, ExecInv, RungInv, StackInv
  <1>00. Running /\ UsesOrb' = UsesOrb
         /\ w.op \notin {"LD_CMP", "OR_CMP", "OUT_C_ENABLE"} /\ ~Is(w, "MISC", "PLF")
    BY Executes DEF StepsGated, fixed, UsesOrb
  <1>01. ~Bus
    BY DEF Bus, Inactive
  <1>02. AllOff(<<>>)
    BY DEF AllOff
  <1>k. ASSUME result' = FALSE, AllOff(branch'), block' = block \/ block' = <<>>
        PROVE  Off'
    BY <1>k, <1>0, <1>00, <1>02 DEF Off, AllOff
  <1>1. CASE Blank
    BY <1>1, <1>k, <1>0 DEF Blank, stacks, keep_rung, EndRung, discard_blocks
  <1>2. CASE OutPreset
    <2>1. result' = result /\ (UNCHANGED stacks \/ EndRung)
      BY <1>2, Zenon DEF OutPreset
    <2> QED BY <2>1, <1>k, <1>0 DEF stacks, EndRung, discard_blocks
  <1>3. CASE Call
    BY <1>3, <1>k, <1>0 DEF Call, stacks, keep_rung, EndRung, discard_blocks
  <1>4. CASE Sret
    BY <1>4, <1>k, <1>0 DEF Sret, stacks, keep_rung, EndRung, discard_blocks
  <1>5. CASE Contact
    <2>1. branch' = branch
      BY <1>5 DEF Contact
    <2>2. result' = FALSE
      BY <1>5, <1>0, <1>01, Zenon DEF Contact, power
    <2>3. block' = block \/ block' = Push(block, BLOCK_DEPTH, FALSE)
      BY <1>5, <1>0, Zenon DEF Contact
    <2>4. UsesOrb => AllOff(block')
      BY <2>3, <1>0, StaysOff
    <2> QED BY <2>1, <2>2, <2>4, <1>0, <1>00 DEF Off, AllOff
  <1>6. CASE MpsMrdMpp
    <2>1. /\ Top(branch, FALSE) = FALSE
          /\ AllOff(Push(branch, BRANCH_DEPTH, FALSE)) /\ AllOff(Pop(branch))
      BY <1>0, StaysOff
    <2>2. result' = FALSE /\ block' = block
      BY <1>6, <2>1, <1>0 DEF MpsMrdMpp
    <2>3. branch' = Push(branch, BRANCH_DEPTH, FALSE) \/ branch' = branch \/ branch' = Pop(branch)
      BY <1>6, <1>0, Zenon DEF MpsMrdMpp
    <2>4. AllOff(branch')
      BY <2>1, <2>3, <1>0, Zenon
    <2> QED BY <1>k, <2>2, <2>4
  <1>7. CASE AnbOrb
    <2>1. w.dev \in {"ANB", "ORB"} /\ w.op = "STACK" /\ branch' = branch /\ block' = Pop(block)
      BY <1>7 DEF AnbOrb, Decode
    <2>2. w.dev = "ORB" => UsesOrb
      <3>1. off \in DOMAIN prog.code /\ w = prog.code[off]
        BY <2>1 DEF w, fetch, BLANK
      <3> QED BY <2>1, <3>1 DEF UsesOrb, Is
    <2>3. UsesOrb => AllOff(Pop(block)) /\ Top(block, FALSE) = FALSE
      BY <1>0, StaysOff
    <2>4. result' = FALSE
      BY <1>7, <2>1, <2>2, <2>3, <1>0, Zenon DEF AnbOrb
    <2> QED BY <2>1, <2>3, <2>4, <1>0, <1>00 DEF Off, AllOff
  <1>8. CASE InlineComparison
    <2>1. w.op = "AND_CMP" /\ branch' = branch /\ block' = block
      BY <1>8, <1>00 DEF InlineComparison, Decode, stacks
    <2>2. result' = FALSE
      BY <1>8, <2>1, <1>0, Zenon DEF InlineComparison
    <2> QED BY <2>1, <2>2, <1>k, <1>0
  <1>9. CASE OutCEnable
    BY <1>9, <1>00 DEF OutCEnable, Decode
  <1>10. CASE Stl
    BY <1>10
  <1>11. CASE Ret
    BY <1>11, <1>k, <1>0 DEF Ret, stacks, keep_rung, EndRung, discard_blocks
  <1>12. CASE SetRstOutS
    BY <1>12, <1>k, <1>0 DEF SetRstOutS, stacks, keep_rung, EndRung, discard_blocks
  <1>13. CASE Out
    BY <1>13, <1>k, <1>0 DEF Out, stacks, keep_rung, EndRung, discard_blocks
  <1>14. CASE Set
    BY <1>14, <1>k, <1>0 DEF Set, stacks, keep_rung, EndRung, discard_blocks
  <1>15. CASE Rst
    BY <1>15, <1>k, <1>0 DEF Rst, stacks, keep_rung, EndRung, discard_blocks
  <1>16. CASE RstC
    BY <1>16, <1>k, <1>0 DEF RstC, stacks, keep_rung, EndRung, discard_blocks
  <1>17. CASE PulsePrefix
    BY <1>17, <1>k, <1>0 DEF PulsePrefix, stacks, keep_rung, EndRung, discard_blocks
  <1>18. CASE Pls
    BY <1>18, <1>k, <1>0 DEF Pls, stacks, keep_rung, EndRung, discard_blocks
  <1>19. CASE Zrst
    BY <1>19, <1>k, <1>0 DEF Zrst, stacks, keep_rung, EndRung, discard_blocks
  <1>20. CASE Mov
    BY <1>20, <1>k, <1>0 DEF Mov, stacks, keep_rung, EndRung, discard_blocks
  <1>21. CASE execute_applied
    BY <1>21, <1>k, <1>0 DEF execute_applied, stacks, keep_rung, EndRung, discard_blocks
  <1>22. CASE Other
    BY <1>22, <1>k, <1>0 DEF Other, stacks, keep_rung, EndRung, discard_blocks
  <1> QED BY <1>1, <1>2, <1>3, <1>4, <1>5, <1>6, <1>7, <1>8, <1>9, <1>10, <1>11, <1>12, <1>13, <1>14, <1>15, <1>16, <1>17, <1>18, <1>19, <1>20, <1>21, <1>22 DEF Instruction


\* Only a prefix makes a pulse pending.
LEMMA PulseKept ==
    ASSUME Instruction
    PROVE  pulse_pending' \in {pulse_pending, "none"} \/ PulsePrefix
  <1>1. CASE Blank
    BY <1>1 DEF Blank, keep_rung
  <1>2. CASE OutPreset
    BY <1>2 DEF OutPreset
  <1>3. CASE Call
    BY <1>3 DEF Call
  <1>4. CASE Sret
    BY <1>4 DEF Sret
  <1>5. CASE Contact
    BY <1>5 DEF Contact
  <1>6. CASE MpsMrdMpp
    BY <1>6 DEF MpsMrdMpp
  <1>7. CASE AnbOrb
    BY <1>7 DEF AnbOrb
  <1>8. CASE InlineComparison
    BY <1>8 DEF InlineComparison
  <1>9. CASE OutCEnable
    BY <1>9 DEF OutCEnable
  <1>10. CASE Stl
    BY <1>10 DEF Stl
  <1>11. CASE Ret
    BY <1>11 DEF Ret
  <1>12. CASE SetRstOutS
    BY <1>12 DEF SetRstOutS, keep_rung
  <1>13. CASE Out
    BY <1>13 DEF Out
  <1>14. CASE Set
    BY <1>14 DEF Set
  <1>15. CASE Rst
    BY <1>15 DEF Rst
  <1>16. CASE RstC
    BY <1>16 DEF RstC, keep_rung
  <1>17. CASE PulsePrefix
    BY <1>17
  <1>18. CASE Pls
    BY <1>18 DEF Pls
  <1>19. CASE Zrst
    BY <1>19 DEF Zrst, keep_rung
  <1>20. CASE Mov
    BY <1>20 DEF Mov, keep_rung
  <1>21. CASE execute_applied
    BY <1>21 DEF execute_applied, keep_rung
  <1>22. CASE Other
    BY <1>22 DEF Other, keep_rung
  <1> QED BY <1>1, <1>2, <1>3, <1>4, <1>5, <1>6, <1>7, <1>8, <1>9, <1>10, <1>11, <1>12, <1>13, <1>14, <1>15, <1>16, <1>17, <1>18, <1>19, <1>20, <1>21, <1>22 DEF Instruction

\* So the rungs of inactive steps are off.
LEMMA GateStep ==
    ASSUME ExecInv, GateInv, StepsGated, StepsClosed, [Next]_vars
    PROVE  GateInv'
  <1>1. CASE Instruction
    <2>1. CASE Stl
      <3>1. /\ branch = <<>> /\ branch' = branch /\ result' = stl'.step_gate
            /\ block' = block /\ (UsesOrb => block = <<>>)
            /\ pulse_pending' = pulse_pending /\ pulse_pending # "PLF"
        BY <1>1, <2>1, Executes DEF Stl, Decode, StepsClosed, stacks
      <3>2. UsesOrb' = UsesOrb /\ AllOff(<<>>)
        BY <1>1, Executes DEF fixed, UsesOrb, AllOff
      <3>3. AllOff(branch') /\ (UsesOrb => AllOff(block'))
        BY <3>1, <3>2
      <3> QED BY <3>1, <3>2, <3>3 DEF GateInv, Inactive, Off, AllOff
    <2>2. CASE ~Stl
      <3> SUFFICES ASSUME Inactive' PROVE Off' /\ pulse_pending' # "PLF"
        BY DEF GateInv
      <3>1. Inactive /\ Off /\ pulse_pending # "PLF"
        BY <1>1, <2>2, GateKept DEF GateInv
      <3>2. Off'
        BY <1>1, <2>2, <3>1, OffKept
      <3>3. pulse_pending' \in {pulse_pending, "none"} \/ PulsePrefix
        BY <1>1, PulseKept
      <3>4. CASE PulsePrefix
        <4>1. ~Is(w, "MISC", "PLF")
          BY <3>1, <3>4, <1>1, Executes DEF StepsGated
        <4>2. w.op = "MISC" /\ pulse_pending' \in {pulse_pending, w.dev}
          BY <3>4 DEF PulsePrefix, Misc, Decode
        <4> QED BY <3>1, <3>2, <4>1, <4>2 DEF Is
      <3> QED BY <3>1, <3>2, <3>3, <3>4
    <2> QED BY <2>1, <2>2
  <1>2. CASE \E inputs \in SUBSET Devices({"X"}) : BeginScan(inputs)
    <2>1. stl' = NoStl
      BY <1>2, Zenon DEF BeginScan
    <2> QED BY <2>1 DEF GateInv, Inactive, NoStl
  <1>3. CASE EndScan \/ Restart
    <2>1. phase' = "idle"
      BY <1>3 DEF EndScan, Leave, Restart
    <2> QED BY <2>1 DEF GateInv, Inactive
  <1>4. CASE UNCHANGED vars
    BY <1>4 DEF vars, fixed, stacks, GateInv, Inactive, Off, AllOff, UsesOrb
  <1> QED BY <1>1, <1>2, <1>3, <1>4 DEF Next

\* Devices are not switched on, registers not written and transitions not
\* taken by a rung that is off.
Isolated ==
    /\ \A q \in BITS : bits'[q] => bits[q]
    /\ d' = d
    /\ stl'.reset_at_end \subseteq stl.reset_at_end

\* Writing FALSE switches nothing on.
LEMMA WriteOff ==
    ASSUME MemInv
    PROVE  /\ \A dev, n : \A q \in BITS : write_bit(dev, n, FALSE)[q] => bits[q]
  <1>1. ASSUME NEW dev, NEW n, NEW q \in BITS, write_bit(dev, n, FALSE)[q]
        PROVE  bits[q]
    <2> DEFINE f == [x \in {<<dev, n>>} |-> FALSE]
    <2>1. write_bits(f)[q]
      BY <1>1 DEF write_bit
    <2>2. write_bits(f)[q] = IF q \in DOMAIN f /\ q[1] \in {"X", "Y", "M", "S", "MS"} THEN f[q] ELSE bits[q]
      <3> HIDE DEF f
      <3> QED BY DEF write_bits
    <2>3. q \in DOMAIN f => f[q] = FALSE
      OBVIOUS
    <2> HIDE DEF f
    <2> QED BY <2>1, <2>2, <2>3, Zenon
  <1> QED BY <1>1

\* The transfers queued stay the same unless one happens.
LEMMA SameQueue ==
    ASSUME StlInv, stl' = stl \/ LeaveSources \/ \E n \in Nat, m \in BOOLEAN : stl' = stl_begin_step(n, m)
    PROVE  stl'.reset_at_end = stl.reset_at_end
  <1>0. stl \in StlType
    BY DEF StlInv
  <1>1. CASE LeaveSources
    BY <1>0, <1>1 DEF LeaveSources, StlType
  <1>2. ASSUME NEW n \in Nat, NEW m \in BOOLEAN, stl' = stl_begin_step(n, m)
        PROVE  stl'.reset_at_end = stl.reset_at_end
    BY <1>2 DEF stl_begin_step
  <1> QED BY <1>1, <1>2


\* In an inactive step no instruction has an effect outside the interpreter.
LEMMA IsolationStep ==
    ASSUME ExecInv, GateInv, Inactive, Instruction
    PROVE  Isolated
  <1>0. result = FALSE /\ pulse_pending # "PLF" /\ StlInv /\ MemInv /\ FixedInv
    BY DEF ExecInv, GateInv, Off, RungInv
  <1>1. CASE Blank
    <2>1. bits' = bits /\ d' = d /\ (stl' = stl \/ LeaveSources)
      BY <1>1, Zenon DEF Blank, mem
    <2> QED BY <2>1, <1>0, SameQueue DEF Isolated
  <1>2. CASE OutPreset
    <2>1. d' = d /\ LeaveSources
      BY <1>2, <1>0, Zenon DEF OutPreset, Goto
    <2>2. bits' = bits \/ \E q :
             bits' = [b \in BITS |-> IF b # q THEN bits[b] ELSE w.op = "OUT_C" /\ bits[b]]
      BY <1>2, <1>0, Zenon DEF OutPreset
    <2>3. \A q \in BITS : bits'[q] => bits[q]
      BY <2>2, Zenon
    <2> QED BY <2>1, <2>3, <1>0, SameQueue DEF Isolated
  <1>3. CASE Call
    <2>1. bits' = bits /\ d' = d /\ (stl' = stl \/ LeaveSources)
      BY <1>3, Zenon DEF Call, mem, Goto
    <2> QED BY <2>1, <1>0, SameQueue DEF Isolated
  <1>4. CASE Sret
    <2>1. bits' = bits /\ d' = d /\ (stl' = stl \/ LeaveSources)
      BY <1>4, Zenon DEF Sret, mem, Goto
    <2> QED BY <2>1, <1>0, SameQueue DEF Isolated
  <1>5. CASE Contact
    <2>1. bits' = bits /\ d' = d /\ (stl' = stl \/ LeaveSources)
      BY <1>5, Zenon DEF Contact, mem, Goto
    <2> QED BY <2>1, <1>0, SameQueue DEF Isolated
  <1>6. CASE MpsMrdMpp
    <2>1. bits' = bits /\ d' = d /\ (stl' = stl \/ LeaveSources)
      BY <1>6, Zenon DEF MpsMrdMpp, mem, Goto
    <2> QED BY <2>1, <1>0, SameQueue DEF Isolated
  <1>7. CASE AnbOrb
    <2>1. bits' = bits /\ d' = d /\ (stl' = stl \/ LeaveSources)
      BY <1>7, Zenon DEF AnbOrb, mem, Goto
    <2> QED BY <2>1, <1>0, SameQueue DEF Isolated
  <1>8. CASE InlineComparison
    <2>1. bits' = bits /\ d' = d /\ (stl' = stl \/ LeaveSources)
      BY <1>8, Zenon DEF InlineComparison, mem, Goto
    <2> QED BY <2>1, <1>0, SameQueue DEF Isolated
  <1>9. CASE OutCEnable
    <2>1. bits' = bits /\ d' = d /\ (stl' = stl \/ LeaveSources)
      BY <1>9, Zenon DEF OutCEnable, mem, Goto
    <2> QED BY <2>1, <1>0, SameQueue DEF Isolated
  <1>10. CASE Stl
    <2>1. bits' = bits /\ d' = d /\ \E m \in BOOLEAN : stl' = stl_begin_step(w.n, m)
      BY <1>10, Zenon DEF Stl, mem
    <2>2. w.n \in Nat
      BY <1>0, FetchType DEF w
    <2> QED BY <2>1, <2>2, <1>0, SameQueue DEF Isolated
  <1>11. CASE Ret
    <2>1. /\ bits' = bits /\ d' = d
          /\ stl' = [stl EXCEPT !.in_stl = FALSE, !.accepting_sources = FALSE,
                                !.sources = <<>>, !.step_gate = TRUE]
      BY <1>11 DEF Ret, mem
    <2>2. ASSUME NEW s \in StlType, NEW e
          PROVE  [s EXCEPT !.in_stl = FALSE, !.accepting_sources = FALSE,
                           !.sources = e, !.step_gate = TRUE].reset_at_end = s.reset_at_end
      BY DEF StlType
    <2> QED BY <2>1, <2>2, <1>0 DEF Isolated, StlInv
  <1>12. CASE SetRstOutS
    <2>1. d' = d /\ LeaveSources
      BY <1>12, <1>0, Zenon DEF SetRstOutS, Transfer
    <2>2. bits' = bits \/ bits' = write_bit("S", fetch(off + 1).n, FALSE)
      BY <1>12, <1>0, Zenon DEF SetRstOutS
    <2>3. \A q \in BITS : bits'[q] => bits[q]
      BY <2>2, <1>0, WriteOff, Zenon
    <2> QED BY <2>1, <2>3, <1>0, SameQueue DEF Isolated
  <1>13. CASE Out
    <2>1. d' = d /\ LeaveSources
      BY <1>13, <1>0, Zenon DEF Out, Transfer
    <2>2. bits' = bits \/ bits' = write_bit(w.dev, w.n, FALSE)
      BY <1>13, <1>0, Zenon DEF Out
    <2>3. \A q \in BITS : bits'[q] => bits[q]
      BY <2>2, <1>0, WriteOff, Zenon
    <2> QED BY <2>1, <2>3, <1>0, SameQueue DEF Isolated
  <1>14. CASE Set
    <2>1. d' = d /\ LeaveSources
      BY <1>14, <1>0, Zenon DEF Set, Transfer
    <2>2. bits' = bits
      BY <1>14, <1>0, Zenon DEF Set
    <2> QED BY <2>1, <2>2, <1>0, SameQueue DEF Isolated
  <1>15. CASE Rst
    <2>1. d' = d /\ LeaveSources
      BY <1>15, <1>0, Zenon DEF Rst, Goto
    <2>2. bits' = bits
      BY <1>15, <1>0, Zenon DEF Rst
    <2> QED BY <2>1, <2>2, <1>0, SameQueue DEF Isolated
  <1>16. CASE RstC
    <2>1. d' = d /\ LeaveSources
      BY <1>16, <1>0, Zenon DEF RstC, Goto
    <2>2. bits' = bits
      BY <1>16, <1>0, Zenon DEF RstC
    <2> QED BY <2>1, <2>2, <1>0, SameQueue DEF Isolated
  <1>17. CASE PulsePrefix
    <2>1. bits' = bits /\ d' = d /\ (stl' = stl \/ LeaveSources)
      BY <1>17, Zenon DEF PulsePrefix, mem, Goto
    <2> QED BY <2>1, <1>0, SameQueue DEF Isolated
  <1>18. CASE Pls
    <2>1. d' = d /\ LeaveSources
      BY <1>18, <1>0, Zenon DEF Pls, Goto
    <2>2. pulse_edge(off, result, pulse_pending = "PLF") = FALSE
      BY <1>0, Zenon DEF pulse_edge
    <2>3. bits' = bits \/ bits' = write_bit(w.dev, w.n, FALSE)
      BY <1>18, <2>2, Zenon DEF Pls
    <2>4. \A q \in BITS : bits'[q] => bits[q]
      BY <2>3, <1>0, WriteOff, Zenon
    <2> QED BY <2>1, <2>4, <1>0, SameQueue DEF Isolated
  <1>19. CASE Zrst
    <2>1. d' = d /\ LeaveSources
      BY <1>19, <1>0, Zenon DEF Zrst, Goto
    <2>2. bits' = bits
      BY <1>19, <1>0, Zenon DEF Zrst
    <2> QED BY <2>1, <2>2, <1>0, SameQueue DEF Isolated
  <1>20. CASE Mov
    <2>1. d' = d /\ LeaveSources
      BY <1>20, <1>0, Zenon DEF Mov, Goto
    <2>2. bits' = bits
      BY <1>20, <1>0, Zenon DEF Mov
    <2> QED BY <2>1, <2>2, <1>0, SameQueue DEF Isolated
  <1>21. CASE execute_applied
    <2>1. d' = d /\ LeaveSources
      BY <1>21, <1>0, Zenon DEF execute_applied, Goto
    <2>2. bits' = bits
      BY <1>21, <1>0, Zenon DEF execute_applied
    <2> QED BY <2>1, <2>2, <1>0, SameQueue DEF Isolated
  <1>22. CASE Other
    <2>1. bits' = bits /\ d' = d /\ (stl' = stl \/ LeaveSources)
      BY <1>22, Zenon DEF Other, mem, Goto
    <2> QED BY <2>1, <1>0, SameQueue DEF Isolated
  <1> QED BY <1>1, <1>2, <1>3, <1>4, <1>5, <1>6, <1>7, <1>8, <1>9, <1>10, <1>11, <1>12, <1>13, <1>14, <1>15, <1>16, <1>17, <1>18, <1>19, <1>20, <1>21, <1>22 DEF Instruction

\* While a step of plc_exec_scan is inactive, nothing in it switches a device
\* on, writes a register or takes a transition, in every program that closes its
\* steps and keeps the instructions that disregard the gate out of them.
THEOREM InactiveSteps == Spec /\ []StepsGated /\ []StepsClosed => InactiveIsolation
  <1>1. Init => GateInv
    BY DEF Init, GateInv, Inactive
  <1>2. ExecInv /\ GateInv /\ StepsGated /\ StepsClosed /\ [Next]_vars => GateInv'
    BY GateStep
  <1>3. ASSUME ExecInv, GateInv, [Next]_vars
        PROVE  [phase = "scan" /\ stl.in_stl /\ ~stl.step_gate =>
                  /\ \A q \in BITS : bits'[q] => bits[q]
                  /\ d' = d
                  /\ stl'.reset_at_end \subseteq stl.reset_at_end]_vars
    <2> SUFFICES ASSUME Next, Inactive PROVE Isolated
      BY <1>3 DEF Inactive, Isolated
    <2>1. CASE Instruction
      BY <1>3, <2>1, IsolationStep
    <2>2. CASE EndScan
      <3>1. /\ d' = d /\ stl' = stl
            /\ bits' = [q \in BITS |-> IF q[1] = "S" /\ q[2] \in stl.reset_at_end THEN FALSE ELSE bits[q]]
        BY <2>2 DEF EndScan, Leave, stl_finish_scan
      <3> QED BY <3>1 DEF Isolated
    <2>3. CASE Restart \/ \E inputs \in SUBSET Devices({"X"}) : BeginScan(inputs)
      BY <2>3, Zenon DEF Restart, BeginScan, Inactive
    <2> QED BY <2>1, <2>2, <2>3 DEF Next
  <1> QED BY <1>1, <1>2, <1>3, ExecAlways, PTL DEF Spec, InactiveIsolation


------------------------------------------------------------------------------
(* Operands *)

\* The words an instruction takes, by its first one.
Words(word) ==
    CASE word.op \in {"OUT_T", "OUT_C"} \/ Is(word, "MISC", "CALL") -> 3
      [] word.op \in {"LD_CMP", "AND_CMP", "OR_CMP"} -> 5
      [] word.op = "OUT_C_ENABLE" -> 2
      [] word.op = "MISC" /\ word.dev \in {"SET_S", "RST_S", "OUT_S", "RST_C"} -> 2
      [] word.op = "MISC" /\ word.dev \in {"ZRST", "MOV"} -> 5
      [] word.op = "MISC" /\ word.dev \in DOMAIN OperandKinds -> 1 + 2 * Len(OperandKinds[word.dev])
      [] OTHER -> 1

\* A word at which an instruction begins, or behind the program.
AtHead(i) == i \in DOMAIN prog.code => i \in prog.heads

\* What is to be checked of a program: instruction follows instruction, a
\* subroutine begins with one, and the operands of an applied instruction are
\* of the kind it wants.
HeadsClosed ==
    /\ AtHead(1)
    /\ \A i \in DOMAIN prog.code :
          /\ Is(fetch(i), "P", "-") => AtHead(i + 1)
          /\ i \in prog.heads =>
                /\ AtHead(i + Words(fetch(i)))
                /\ fetch(i).op = "MISC" /\ fetch(i).dev \in DOMAIN OperandKinds =>
                      \A k \in 1..Len(OperandKinds[fetch(i).dev]) :
                          OperandOk(OperandKinds[fetch(i).dev][k], i + 1 + 2 * (k - 1))

\* The next word is a head, and so is every word a subroutine returns to.
HeadInv == HeadsClosed /\ AtHead(off) /\ \A k \in DOMAIN call_return : AtHead(call_return[k])

\* They depend on the program alone.
LEMMA SameProgram ==
    ASSUME prog' = prog
    PROVE  /\ HeadsClosed => HeadsClosed'
           /\ \A i : AtHead(i)' = AtHead(i)
  <1>1. \A i : fetch(i)' = fetch(i)
    BY DEF fetch
  <1>2. ASSUME NEW i PROVE AtHead(i)' = AtHead(i)
    BY DEF AtHead
  <1>3. ASSUME NEW kind, NEW i PROVE OperandOk(kind, i)' = OperandOk(kind, i)
    BY <1>1, Zenon DEF OperandOk, read_word_operand, word_operand_register, read_bit_operand, Raw, Is
  <1>4. ASSUME NEW i PROVE Words(fetch(i))' = Words(fetch(i))
    BY <1>1, Zenon DEF Words, Is
  <1>5. ASSUME NEW i, HeadsClosed, i \in DOMAIN prog'.code
        PROVE  (Is(fetch(i), "P", "-") => AtHead(i + 1))'
    BY <1>1, <1>2, <1>5, Zenon DEF HeadsClosed, Is
  <1>6. ASSUME NEW i, HeadsClosed, i \in DOMAIN prog'.code, i \in prog'.heads
        PROVE  AtHead(i + Words(fetch(i)))'
    BY <1>2, <1>4, <1>6, Zenon DEF HeadsClosed
  <1>7. ASSUME NEW i, HeadsClosed, i \in DOMAIN prog'.code, i \in prog'.heads,
               fetch(i).op = "MISC", fetch(i).dev \in DOMAIN OperandKinds,
               NEW k \in 1..Len(OperandKinds[fetch(i).dev])
        PROVE  OperandOk(OperandKinds[fetch(i).dev][k], i + 1 + 2 * (k - 1))'
    BY <1>1, <1>3, <1>7, Zenon DEF HeadsClosed
  <1>8. HeadsClosed => HeadsClosed'
    <2>1. AtHead(1)' = AtHead(1)
      BY <1>2
    <2> QED BY <1>1, <1>5, <1>6, <1>7, <2>1, Zenon DEF HeadsClosed
  <1> QED BY <1>2, <1>8, Zenon

\* Behind the instruction at a head there is a head.
LEMMA HeadBehind ==
    ASSUME ExecInv, HeadInv
    PROVE  AtHead(off + Words(w))
  <1>0. off \in Nat \ {0} /\ prog.code \in Seq(WordType) /\ Len(prog.code) \in Nat
    BY DEF ExecInv, RungInv, FixedInv
  <1>1. CASE off \in DOMAIN prog.code
    BY <1>1, Zenon DEF HeadInv, AtHead, HeadsClosed, w
  <1>2. CASE off \notin DOMAIN prog.code
    <2>1. w = BLANK
      BY <1>2 DEF w, fetch
    <2>2. Words(w) = 1
      BY <2>1 DEF Words, BLANK, Is
    <2>3. off + 1 \notin DOMAIN prog.code
      BY <1>0, <1>2
    <2> QED BY <2>2, <2>3 DEF AtHead
  <1> QED BY <1>1, <1>2

\* Every instruction but CALL and SRET goes on behind itself.
LEMMA GoesOn ==
    ASSUME ExecInv, HeadInv, Instruction, ~Call, ~Sret
    PROVE  off' = off + Words(w)
  <1>1. CASE Blank
    <2>1. off' = off + 1
      BY <1>1 DEF Blank
    <2>2. Words(w) = 1
      BY <1>1, Kinds DEF Blank, Words, Is
    <2> QED BY <2>1, <2>2
  <1>2. CASE OutPreset
    <2>1. off' = off + 3
      BY <1>2 DEF OutPreset, Goto
    <2>2. Words(w) = 3
      BY <1>2, Kinds DEF OutPreset, Decode, Words, Is
    <2> QED BY <2>1, <2>2
  <1>3. CASE Call
    BY <1>3
  <1>4. CASE Sret
    BY <1>4
  <1>5. CASE Contact
    <2>1. off' = off + 1
      BY <1>5 DEF Contact, Goto
    <2>2. Words(w) = 1
      BY <1>5, Kinds DEF Contact, Decode, Words, Is
    <2> QED BY <2>1, <2>2
  <1>6. CASE MpsMrdMpp
    <2>1. off' = off + 1
      BY <1>6 DEF MpsMrdMpp, Goto
    <2>2. Words(w) = 1
      BY <1>6, Kinds DEF MpsMrdMpp, Decode, Words, Is
    <2> QED BY <2>1, <2>2
  <1>7. CASE AnbOrb
    <2>1. off' = off + 1
      BY <1>7 DEF AnbOrb, Goto
    <2>2. Words(w) = 1
      BY <1>7, Kinds DEF AnbOrb, Decode, Words, Is
    <2> QED BY <2>1, <2>2
  <1>8. CASE InlineComparison
    <2>1. off' = off + 5
      BY <1>8 DEF InlineComparison, Goto
    <2>2. Words(w) = 5
      BY <1>8, Kinds DEF InlineComparison, Decode, Words, Is
    <2> QED BY <2>1, <2>2
  <1>9. CASE OutCEnable
    <2>1. off' = off + 2
      BY <1>9 DEF OutCEnable, Goto
    <2>2. Words(w) = 2
      BY <1>9, Kinds DEF OutCEnable, Decode, Words, Is
    <2> QED BY <2>1, <2>2
  <1>10. CASE Stl
    <2>1. off' = off + 1
      BY <1>10 DEF Stl
    <2>2. Words(w) = 1
      BY <1>10, Kinds DEF Stl, Decode, Words, Is
    <2> QED BY <2>1, <2>2
  <1>11. CASE Ret
    <2>1. off' = off + 1
      BY <1>11 DEF Ret
    <2>2. Words(w) = 1
      BY <1>11, Kinds DEF Ret, Decode, Words, Is
    <2> QED BY <2>1, <2>2
  <1>12. CASE SetRstOutS
    <2>1. off' = off + 2
      BY <1>12 DEF SetRstOutS
    <2>2. Words(w) = 2
      BY <1>12, Kinds DEF SetRstOutS, Misc, Decode, Words, Is
    <2> QED BY <2>1, <2>2
  <1>13. CASE Out
    <2>1. off' = off + 1
      BY <1>13 DEF Out
    <2>2. Words(w) = 1
      BY <1>13, Kinds DEF Out, Decode, Words, Is
    <2> QED BY <2>1, <2>2
  <1>14. CASE Set
    <2>1. off' = off + 1
      BY <1>14 DEF Set
    <2>2. Words(w) = 1
      BY <1>14, Kinds DEF Set, Decode, Words, Is
    <2> QED BY <2>1, <2>2
  <1>15. CASE Rst
    <2>1. off' = off + 1
      BY <1>15 DEF Rst, Goto
    <2>2. Words(w) = 1
      BY <1>15, Kinds DEF Rst, Decode, Words, Is
    <2> QED BY <2>1, <2>2
  <1>16. CASE RstC
    <2>1. off' = off + 2
      BY <1>16 DEF RstC, Goto
    <2>2. Words(w) = 2
      BY <1>16, Kinds DEF RstC, Misc, Decode, Words, Is
    <2> QED BY <2>1, <2>2
  <1>17. CASE PulsePrefix
    <2>1. off' = off + 1
      BY <1>17 DEF PulsePrefix, Goto
    <2>2. Words(w) = 1
      BY <1>17, Kinds DEF PulsePrefix, Misc, Decode, Words, Is
    <2> QED BY <2>1, <2>2
  <1>18. CASE Pls
    <2>1. off' = off + 1
      BY <1>18 DEF Pls, Goto
    <2>2. Words(w) = 1
      BY <1>18, Kinds DEF Pls, Decode, Words, Is
    <2> QED BY <2>1, <2>2
  <1>19. CASE Zrst
    <2>1. off' = off + 5
      BY <1>19 DEF Zrst, Goto
    <2>2. Words(w) = 5
      BY <1>19, Kinds DEF Zrst, Misc, Decode, Words, Is
    <2> QED BY <2>1, <2>2
  <1>20. CASE Mov
    <2>1. off' = off + 5
      BY <1>20 DEF Mov, Goto
    <2>2. Words(w) = 5
      BY <1>20, Kinds DEF Mov, Misc, Decode, Words, Is
    <2> QED BY <2>1, <2>2
  <1>21. CASE execute_applied
    <2>0. off \in Nat
      BY DEF ExecInv, RungInv
    <2>1. w.op = "MISC" /\ w.dev \in DOMAIN OperandKinds
      BY <1>21 DEF execute_applied, Misc, Decode
    <2>2. Words(w) = 1 + 2 * Len(OperandKinds[w.dev])
      BY <2>1, Kinds DEF Words, Is
    <2>3. off \in DOMAIN prog.code
      <3>1. w # BLANK
        BY <2>1 DEF BLANK
      <3> QED BY <3>1 DEF w, fetch
    <2>4. \A k \in 1..Len(OperandKinds[w.dev]) : OperandOk(OperandKinds[w.dev][k], off + 1 + 2 * (k - 1))
      BY <2>1, <2>3, Zenon DEF HeadInv, HeadsClosed, AtHead, w
    <2>5. off' = off + 1 + 2 * Len(OperandKinds[w.dev])
      BY <2>0, <2>4, <1>21, AppliedNext
    <2>6. PICK n \in Nat : n = Len(OperandKinds[w.dev])
      BY <2>1, Kinds
    <2>7. Words(w) = 1 + 2 * n /\ off' = off + 1 + 2 * n
      BY <2>2, <2>5, <2>6, Zenon
    <2>8. off + (1 + 2 * n) = off + 1 + 2 * n
      BY <2>0
    <2> QED BY <2>7, <2>8, Zenon
  <1>22. CASE Other
    <2>1. off' = off + 1
      BY <1>22 DEF Other, Goto
    <2>2. Words(w) = 1
      BY <1>22, Kinds DEF Other, Decode, Words, Is
    <2> QED BY <2>1, <2>2
  <1> QED BY <1>1, <1>2, <1>3, <1>4, <1>5, <1>6, <1>7, <1>8, <1>9, <1>10, <1>11, <1>12, <1>13, <1>14, <1>15, <1>16, <1>17, <1>18, <1>19, <1>20, <1>21, <1>22 DEF Instruction

\* Only CALL and SRET touch the call stack.
LEMMA SameCalls ==
    ASSUME Instruction, ~Call, ~Sret
    PROVE  call_return' = call_return
  <1>1. CASE Blank
    BY <1>1 DEF Blank, keep_rung
  <1>2. CASE OutPreset
    BY <1>2 DEF OutPreset
  <1>3. CASE Call
    BY <1>3
  <1>4. CASE Sret
    BY <1>4
  <1>5. CASE Contact
    BY <1>5 DEF Contact
  <1>6. CASE MpsMrdMpp
    BY <1>6 DEF MpsMrdMpp
  <1>7. CASE AnbOrb
    BY <1>7 DEF AnbOrb
  <1>8. CASE InlineComparison
    BY <1>8 DEF InlineComparison
  <1>9. CASE OutCEnable
    BY <1>9 DEF OutCEnable
  <1>10. CASE Stl
    BY <1>10 DEF Stl
  <1>11. CASE Ret
    BY <1>11 DEF Ret
  <1>12. CASE SetRstOutS
    BY <1>12 DEF SetRstOutS, keep_rung
  <1>13. CASE Out
    BY <1>13 DEF Out
  <1>14. CASE Set
    BY <1>14 DEF Set
  <1>15. CASE Rst
    BY <1>15 DEF Rst
  <1>16. CASE RstC
    BY <1>16 DEF RstC, keep_rung
  <1>17. CASE PulsePrefix
    BY <1>17 DEF PulsePrefix
  <1>18. CASE Pls
    BY <1>18 DEF Pls
  <1>19. CASE Zrst
    BY <1>19 DEF Zrst, keep_rung
  <1>20. CASE Mov
    BY <1>20 DEF Mov, keep_rung
  <1>21. CASE execute_applied
    BY <1>21 DEF execute_applied, keep_rung
  <1>22. CASE Other
    BY <1>22 DEF Other, keep_rung
  <1> QED BY <1>1, <1>2, <1>3, <1>4, <1>5, <1>6, <1>7, <1>8, <1>9, <1>10, <1>11, <1>12, <1>13, <1>14, <1>15, <1>16, <1>17, <1>18, <1>19, <1>20, <1>21, <1>22 DEF Instruction

\* Every step keeps the invariant.
LEMMA HeadStep ==
    ASSUME ExecInv, HeadInv, [Next]_vars
    PROVE  HeadInv'
  <1>0. prog' = prog
    <2>1. CASE Instruction
      BY <2>1, Executes DEF fixed
    <2>2. CASE ~Instruction
      BY <2>2, Zenon DEF Next, BeginScan, EndScan, Leave, Restart, vars, fixed
    <2> QED BY <2>1, <2>2
  <1>1. HeadsClosed' /\ \A i : AtHead(i)' = AtHead(i)
    BY <1>0, SameProgram DEF HeadInv
  <1> SUFFICES ASSUME TRUE PROVE AtHead(off') /\ \A k \in DOMAIN call_return' : AtHead(call_return'[k])
    <2>1. AtHead(off)' = AtHead(off') /\ \A k : AtHead(call_return[k])' = AtHead(call_return'[k])
      BY <1>0 DEF AtHead
    <2> QED BY <1>1, <2>1, Zenon DEF HeadInv
  <1>2. CASE Instruction
    <2>0. /\ off \in Nat \ {0} /\ prog.code \in Seq(WordType)
          /\ call_return \in Seq(1..(PROGRAM_WORDS + 3)) /\ Len(call_return) \in Nat
      BY DEF ExecInv, RungInv, CallInv, FixedInv
    <2>1. CASE Call
      <3>1. Words(w) = 3
        BY <2>1, Kinds DEF Call, Misc, Decode, Words, Is
      <3>2. AtHead(off + 3)
        BY <3>1, HeadBehind
      <3>3. \A p : find_subroutine(p) # 0 => AtHead(find_subroutine(p))
        <4>1. \A p : find_subroutine(p) # 0 => \E i \in DOMAIN prog.code :
                 Is(fetch(i), "P", "-") /\ find_subroutine(p) = i + 1
          BY SubroutineType DEF ExecInv
        <4> QED BY <4>1, Zenon DEF HeadInv, HeadsClosed
      <3>4. off' = off + 3 \/ \E p : off' = find_subroutine(p) /\ find_subroutine(p) # 0
        BY <2>1, Zenon DEF Call, Goto
      <3>5. call_return' \in {call_return, Append(call_return, off + 3)}
        BY <2>1, Zenon DEF Call
      <3>6. \A k \in DOMAIN call_return : AtHead(call_return[k])
        BY DEF HeadInv
      <3>7. ASSUME NEW k \in DOMAIN Append(call_return, off + 3)
            PROVE  \/ k \in DOMAIN call_return /\ Append(call_return, off + 3)[k] = call_return[k]
                   \/ Append(call_return, off + 3)[k] = off + 3
        BY <2>0
      <3>8. \A k \in DOMAIN Append(call_return, off + 3) : AtHead(Append(call_return, off + 3)[k])
        BY <3>2, <3>6, <3>7, Zenon
      <3> QED BY <3>2, <3>3, <3>4, <3>5, <3>6, <3>8, Zenon
    <2>2. CASE Sret
      <3>1. CASE call_return # <<>>
        <4>1. off' = call_return[Len(call_return)]
              /\ call_return' = SubSeq(call_return, 1, Len(call_return) - 1)
          BY <2>2, <3>1 DEF Sret, Goto, pop_call
        <4>2. Len(call_return) \in DOMAIN call_return /\ Len(call_return) - 1 \in Nat
          BY <2>0, <3>1
        <4>3. ASSUME NEW n \in Nat, n <= Len(call_return), NEW k \in DOMAIN SubSeq(call_return, 1, n)
              PROVE  SubSeq(call_return, 1, n)[k] = call_return[k] /\ k \in DOMAIN call_return
          BY <2>0, <4>3
        <4>4. Len(call_return) - 1 <= Len(call_return)
          BY <2>0
        <4>5. \A k \in DOMAIN call_return' : call_return'[k] = call_return[k] /\ k \in DOMAIN call_return
          BY <4>1, <4>2, <4>3, <4>4
        <4> QED BY <4>1, <4>2, <4>5, Zenon DEF HeadInv
      <3>2. CASE call_return = <<>>
        <4>1. off' = off + 1 /\ call_return' = call_return
          BY <2>2, <3>2 DEF Sret, Goto
        <4>2. Words(w) = 1
          BY <2>2, Kinds DEF Sret, Misc, Decode, Words, Is
        <4> QED BY <4>1, <4>2, HeadBehind DEF HeadInv
      <3> QED BY <3>1, <3>2
    <2>3. CASE ~Call /\ ~Sret
      <3>1. call_return' = call_return
        BY <1>2, <2>3, SameCalls
      <3>2. off' = off + Words(w)
        BY <1>2, <2>3, GoesOn
      <3> QED BY <3>1, <3>2, HeadBehind DEF HeadInv
    <2> QED BY <2>1, <2>2, <2>3
  <1>3. CASE \E inputs \in SUBSET Devices({"X"}) : BeginScan(inputs)
    <2>1. off' = 1 /\ call_return' = <<>>
      BY <1>3, Zenon DEF BeginScan
    <2>2. DOMAIN call_return' = {}
      BY <2>1
    <2> QED BY <2>1, <2>2, Zenon DEF HeadInv, HeadsClosed
  <1>4. CASE EndScan \/ Restart
    BY <1>4 DEF EndScan, Leave, Restart, HeadInv
  <1>5. CASE UNCHANGED vars
    BY <1>5 DEF vars, HeadInv
  <1> QED BY <1>2, <1>3, <1>4, <1>5 DEF Next

\* An operand word is never decoded as an instruction, in every program whose
\* instructions follow each other, and with whatever it calls.
THEOREM OperandsSkipped == Spec /\ HeadsClosed => []OperandsNotExecuted
  <1>1. ASSUME Init, HeadsClosed PROVE HeadInv
    <2>1. off = 1 /\ call_return = <<>>
      BY <1>1 DEF Init
    <2>2. DOMAIN call_return = {}
      BY <2>1
    <2> QED BY <1>1, <2>1, <2>2, Zenon DEF HeadInv, HeadsClosed
  <1>2. ExecInv /\ HeadInv /\ [Next]_vars => HeadInv'
    BY HeadStep
  <1>3. HeadInv => OperandsNotExecuted
    BY DEF HeadInv, AtHead, OperandsNotExecuted
  <1> QED BY <1>1, <1>2, <1>3, ExecAlways, PTL DEF Spec

------------------------------------------------------------------------------
(* Pulse coils *)

\* The steps of a pulse coil: each behind the contact that is its rung, and the
\* prefix that makes it a pulse.
CoilSteps(p) ==
    {c \in 3..PROGRAM_WORDS :
        /\ fetch(c - 2).op = "LD" /\ p.rung = <<fetch(c - 2).dev, fetch(c - 2).n>>
        /\ Is(fetch(c - 1), "MISC", p.kind)
        /\ fetch(c).op = "PLS" /\ p.coil = <<fetch(c).dev, fetch(c).n>>}

\* What is assumed of a program with pulse coils.  Each has a rung as above, an
\* input for its contact and a coil that no scan or transfer sets.
PulsesWritten ==
    \A p \in prog.pulses :
        /\ p.kind \in {"PLS", "PLF"} /\ CoilSteps(p) # {}
        /\ p.rung \in Devices({"X"}) /\ p.coil \in Devices({"Y", "M"})

\* Each of these rungs is executed once in every scan, outside inactive steps.
PulsesOnce ==
    \A p \in prog.pulses : \A c \in CoilSteps(p) :
        /\ phase = "scan" /\ off = c => c \notin pulsed
        /\ phase = "idle" /\ ~first => c \in pulsed
        /\ phase = "scan" /\ off = c - 2 => Bus

\* No call, return or operand leads into the middle of one.
PulsesEntered ==
    [][\A p \in prog.pulses : \A c \in CoilSteps(p) :
          off' \in {c - 1, c} => off' \in {off, off + 1}]_vars

\* In a scan nothing else writes the coil, and nothing the input.
PulsesAlone ==
    [][phase = "scan" =>
         \A p \in prog.pulses :
            /\ bits'[p.rung] = bits[p.rung]
            /\ off \notin CoilSteps(p) => bits'[p.coil] = bits[p.coil]]_vars

\* A pulse coil is on exactly in the scan of its edge.
Exact(p) ==
    bits[p.coil] = IF p.kind = "PLS" THEN bits[p.rung] /\ p.rung \notin before
                   ELSE ~bits[p.rung] /\ p.rung \in before

\* What PulseExact rests on: edge memory of a step says what its rung was in the
\* last scan until the step is executed, and what it is from then on; the first
\* scan in RUN begins with it empty, whatever STOP left in it.
EdgeInv ==
    \A p \in prog.pulses : \A c \in CoilSteps(p) :
        /\ (phase = "idle" /\ ~first) \/ (phase = "scan" /\ c \in pulsed) =>
              (c \in pulse_prev <=> bits[p.rung]) /\ Exact(p)
        /\ phase = "scan" /\ c \notin pulsed => (c \in pulse_prev <=> p.rung \in before)
        /\ phase = "scan" /\ off \in {c - 1, c} => (result <=> bits[p.rung])
        /\ phase = "scan" /\ off = c => pulse_pending = p.kind

\* Only a coil touches edge memory, and at its own step.
LEMMA EdgeKept ==
    ASSUME Instruction
    PROVE  (pulse_prev' = pulse_prev /\ pulsed' = pulsed) \/ Pls
  <1>1. CASE Blank
    BY <1>1 DEF Blank, keep_rung
  <1>2. CASE OutPreset
    BY <1>2 DEF OutPreset
  <1>3. CASE Call
    BY <1>3 DEF Call
  <1>4. CASE Sret
    BY <1>4 DEF Sret
  <1>5. CASE Contact
    BY <1>5 DEF Contact
  <1>6. CASE MpsMrdMpp
    BY <1>6 DEF MpsMrdMpp
  <1>7. CASE AnbOrb
    BY <1>7 DEF AnbOrb
  <1>8. CASE InlineComparison
    BY <1>8 DEF InlineComparison
  <1>9. CASE OutCEnable
    BY <1>9 DEF OutCEnable
  <1>10. CASE Stl
    BY <1>10 DEF Stl
  <1>11. CASE Ret
    BY <1>11 DEF Ret
  <1>12. CASE SetRstOutS
    BY <1>12 DEF SetRstOutS, keep_rung
  <1>13. CASE Out
    BY <1>13 DEF Out
  <1>14. CASE Set
    BY <1>14 DEF Set
  <1>15. CASE Rst
    BY <1>15 DEF Rst
  <1>16. CASE RstC
    BY <1>16 DEF RstC, keep_rung
  <1>17. CASE PulsePrefix
    BY <1>17 DEF PulsePrefix
  <1>18. CASE Pls
    BY <1>18
  <1>19. CASE Zrst
    BY <1>19 DEF Zrst, keep_rung
  <1>20. CASE Mov
    BY <1>20 DEF Mov, keep_rung
  <1>21. CASE execute_applied
    BY <1>21 DEF execute_applied, keep_rung
  <1>22. CASE Other
    BY <1>22 DEF Other, keep_rung
  <1> QED BY <1>1, <1>2, <1>3, <1>4, <1>5, <1>6, <1>7, <1>8, <1>9, <1>10, <1>11, <1>12, <1>13, <1>14, <1>15, <1>16, <1>17, <1>18, <1>19, <1>20, <1>21, <1>22 DEF Instruction

\* Contacts, pulses and transfers are executed as what they are.
LEMMA RungWords ==
    ASSUME Instruction
    PROVE  /\ w.op = "LD" => Contact
           /\ w.op = "SET" => Set
           /\ w.op = "OUT" => Out
           /\ Is(w, "MISC", "SET_S") => SetRstOutS
           /\ Is(w, "MISC", "PLS") \/ Is(w, "MISC", "PLF") => PulsePrefix
           /\ w.op = "PLS" => Pls
  <1>1. CASE Blank
    BY <1>1 DEF Is, Blank
  <1>2. CASE OutPreset
    BY <1>2 DEF Is, OutPreset, Decode
  <1>3. CASE Call
    BY <1>3 DEF Is, Call, Misc, Decode
  <1>4. CASE Sret
    BY <1>4 DEF Is, Sret, Misc, Decode
  <1>5. CASE Contact
    BY <1>5 DEF Contact, Is, Decode
  <1>6. CASE MpsMrdMpp
    BY <1>6 DEF Is, MpsMrdMpp, Decode
  <1>7. CASE AnbOrb
    BY <1>7 DEF Is, AnbOrb, Decode
  <1>8. CASE InlineComparison
    BY <1>8 DEF Is, InlineComparison, Decode
  <1>9. CASE OutCEnable
    BY <1>9 DEF Is, OutCEnable, Decode
  <1>10. CASE Stl
    BY <1>10 DEF Is, Stl, Decode
  <1>11. CASE Ret
    BY <1>11 DEF Is, Ret, Decode
  <1>12. CASE SetRstOutS
    BY <1>12 DEF Is, SetRstOutS, Misc, Decode
  <1>13. CASE Out
    BY <1>13 DEF Is, Out, Decode
  <1>14. CASE Set
    BY <1>14 DEF Is, Set, Decode
  <1>15. CASE Rst
    BY <1>15 DEF Is, Rst, Decode
  <1>16. CASE RstC
    BY <1>16 DEF Is, RstC, Misc, Decode
  <1>17. CASE PulsePrefix
    BY <1>17 DEF PulsePrefix, Is, Misc, Decode
  <1>18. CASE Pls
    BY <1>18 DEF Pls, Is, Decode
  <1>19. CASE Zrst
    BY <1>19 DEF Is, Zrst, Misc, Decode
  <1>20. CASE Mov
    BY <1>20 DEF Is, Mov, Misc, Decode
  <1>21. CASE execute_applied
    BY <1>21 DEF Is, execute_applied, Misc, Decode, OperandKinds
  <1>22. CASE Other
    BY <1>22 DEF Is, Other, Decode
  <1> QED BY <1>1, <1>2, <1>3, <1>4, <1>5, <1>6, <1>7, <1>8, <1>9, <1>10, <1>11, <1>12, <1>13, <1>14, <1>15, <1>16, <1>17, <1>18, <1>19, <1>20, <1>21, <1>22 DEF Instruction

\* The rungs depend on the program alone.
LEMMA SameRungs ==
    ASSUME prog' = prog
    PROVE  /\ \A p : CoilSteps(p)' = CoilSteps(p)
           /\ PulsesWritten => PulsesWritten'
  <1>1. \A i : fetch(i)' = fetch(i)
    BY DEF fetch
  <1>2. ASSUME NEW p PROVE CoilSteps(p)' = CoilSteps(p)
    BY <1>1, Zenon DEF CoilSteps, Is
  <1>3. \A p : CoilSteps(p)' = CoilSteps(p)
    BY <1>2
  <1> QED BY <1>3, Zenon DEF PulsesWritten

\* A pulse coil in the scan in which its step is executed.
LEMMA CoilStep ==
    ASSUME ExecInv, Instruction, EdgeInv, PulsesWritten, PulsesOnce,
           NEW p \in prog.pulses, off \in CoilSteps(p), bits'[p.rung] = bits[p.rung]
    PROVE  /\ off \in pulsed' /\ off' = off + 1
           /\ off \in pulse_prev' <=> bits'[p.rung]
           /\ Exact(p)'
  <1>1. /\ phase = "scan" /\ before' = before /\ prog' = prog
        /\ w.op = "PLS" /\ p.coil = <<w.dev, w.n>>
    BY Executes DEF Running, fixed, CoilSteps, w
  <1>2. /\ p.kind \in {"PLS", "PLF"}
        /\ p.coil \in BITS /\ p.coil[1] \in {"Y", "M"} /\ p.rung \in BITS
    BY DEF PulsesWritten, Devices
  <1>3. Pls
    BY <1>1, RungWords
  <1>4. /\ off \notin pulsed
        /\ off \in pulse_prev <=> p.rung \in before
        /\ result <=> bits[p.rung]
        /\ pulse_pending = p.kind
    BY <1>1 DEF PulsesOnce, EdgeInv
  <1>5. /\ bits' = write_bit(w.dev, w.n, pulse_edge(off, result, pulse_pending = "PLF"))
        /\ pulse_prev' = IF result THEN pulse_prev \cup {off} ELSE pulse_prev \ {off}
        /\ pulsed' = pulsed \cup {off}
        /\ off' = off + 1
    BY <1>2, <1>3, <1>4 DEF Pls, Goto
  <1>6. bits'[p.coil] = pulse_edge(off, result, pulse_pending = "PLF")
    <2> DEFINE v == pulse_edge(off, result, pulse_pending = "PLF")
               writes == [q \in {p.coil} |-> v]
    <2> HIDE DEF v
    <2>1. bits' = write_bits(writes)
      BY <1>1, <1>5 DEF write_bit, v
    <2>2. p.coil \in DOMAIN writes /\ writes[p.coil] = v
      OBVIOUS
    <2> HIDE DEF writes
    <2>3. bits'[p.coil] = v
      BY <1>2, <2>1, <2>2 DEF write_bits
    <2> QED BY <2>3 DEF v
  <1>7. result \in BOOLEAN /\ bits[p.rung] \in BOOLEAN
    BY <1>2 DEF ExecInv, RungInv, MemInv
  <1>8. off \in pulse_prev' <=> bits'[p.rung]
    BY <1>4, <1>5
  <1>9. bits'[p.coil] = IF p.kind = "PLS" THEN bits'[p.rung] /\ p.rung \notin before
                        ELSE ~bits'[p.rung] /\ p.rung \in before
    BY <1>2, <1>4, <1>6, <1>7 DEF pulse_edge
  <1>10. Exact(p)'
    BY <1>1, <1>9 DEF Exact
  <1> QED BY <1>5, <1>8, <1>10

\* One step of the account, and the theorem below it, take the assumptions on
\* steps without their temporal operator.
Entered == \A p \in prog.pulses : \A c \in CoilSteps(p) : off' \in {c - 1, c} => off' \in {off, off + 1}
Alone ==
    phase = "scan" =>
        \A p \in prog.pulses :
            /\ bits'[p.rung] = bits[p.rung]
            /\ off \notin CoilSteps(p) => bits'[p.coil] = bits[p.coil]

\* The rung of a pulse coil, up to the coil.
LEMMA RungStep ==
    ASSUME ExecInv, Instruction, EdgeInv, PulsesWritten, PulsesOnce, Entered, Alone,
           NEW p \in prog.pulses, NEW c \in CoilSteps(p), off' \in {c - 1, c}
    PROVE  /\ result' <=> bits'[p.rung]
           /\ off' = c => pulse_pending' = p.kind
  <1>1. /\ phase = "scan" /\ off \in Nat /\ c \in Nat
        /\ fetch(c - 2).op = "LD" /\ p.rung = <<fetch(c - 2).dev, fetch(c - 2).n>>
        /\ Is(fetch(c - 1), "MISC", p.kind) /\ fetch(c).op = "PLS"
        /\ p.kind \in {"PLS", "PLF"} /\ p.rung \in BITS
    BY Executes DEF Running, CoilSteps, PulsesWritten, Devices, ExecInv, RungInv
  <1>2. bits'[p.rung] = bits[p.rung] /\ bits[p.rung] \in BOOLEAN
    BY <1>1 DEF Alone, ExecInv, MemInv
  <1>3. off = c - 1 => PulsePrefix
    <2> SUFFICES ASSUME off = c - 1 PROVE PulsePrefix
      OBVIOUS
    <2>1. Is(w, "MISC", "PLS") \/ Is(w, "MISC", "PLF")
      BY <1>1 DEF w
    <2> QED BY <2>1, RungWords
  <1>4. off = c => Pls
    BY <1>1, RungWords DEF w
  <1>5. off' = off + 1
    <2>1. off' \in {off, off + 1}
      BY DEF Entered
    <2>2. off' # off
      <3>1. CASE off = c - 1
        BY <1>1, <1>3, <3>1 DEF PulsePrefix, Goto
      <3>2. CASE off = c
        BY <1>1, <1>4, <3>2 DEF Pls, Goto
      <3> QED BY <3>1, <3>2
    <2> QED BY <2>1, <2>2
  <1>6. CASE off' = c - 1
    <2>1. off = c - 2 /\ off' # c
      BY <1>1, <1>5, <1>6
    <2>2. w.op = "LD" /\ p.rung = <<w.dev, w.n>> /\ Bus
      BY <1>1, <2>1 DEF w, PulsesOnce
    <2>3. result' = power(read_bit(w.dev, w.n) = TRUE)
      <3>1. Contact
        BY <2>2, RungWords
      <3> QED BY <2>2, <3>1 DEF Contact
    <2>4. read_bit(w.dev, w.n) = bits[p.rung]
      BY <1>1, <1>2, <2>2 DEF read_bit
    <2>5. result' <=> bits[p.rung]
      BY <1>2, <2>2, <2>3, <2>4 DEF power
    <2> QED BY <1>2, <2>1, <2>5
  <1>7. CASE off' = c
    <2>1. off = c - 1
      BY <1>1, <1>5, <1>7
    <2>2. PulsePrefix /\ w = fetch(c - 1) /\ fetch(off + 1) = fetch(c)
      BY <1>1, <1>3, <2>1 DEF w
    <2>3. result' = result /\ pulse_pending' = p.kind
      BY <1>1, <2>2 DEF PulsePrefix, Is
    <2>4. result <=> bits[p.rung]
      BY <1>1, <2>1 DEF EdgeInv
    <2> QED BY <1>2, <2>3, <2>4
  <1> QED BY <1>6, <1>7

\* One instruction.
LEMMA EdgeStep ==
    ASSUME ExecInv, Instruction, EdgeInv, PulsesWritten, PulsesOnce, Entered, Alone
    PROVE  EdgeInv'
  <1>1. phase = "scan" /\ UNCHANGED <<prog, phase, first, before>>
    BY Executes DEF Running, fixed
  <1>2. \A p : CoilSteps(p)' = CoilSteps(p)
    BY <1>1, SameRungs
  <1>3. \A p \in prog.pulses : bits'[p.rung] = bits[p.rung]
    BY <1>1 DEF Alone
  <1>4. ASSUME NEW p \in prog.pulses, NEW c \in CoilSteps(p), c \in pulsed'
        PROVE  (c \in pulse_prev' <=> bits'[p.rung]) /\ Exact(p)'
    <2>1. CASE off = c
      BY <1>3, <2>1, CoilStep
    <2>2. CASE off # c
      <3>1. (c \in pulsed' <=> c \in pulsed) /\ (c \in pulse_prev' <=> c \in pulse_prev)
        BY <2>2, EdgeKept DEF Pls
      <3>2. (c \in pulse_prev <=> bits[p.rung]) /\ Exact(p)
        BY <1>1, <1>4, <3>1 DEF EdgeInv
      <3>3. CASE off \in CoilSteps(p)
        BY <1>3, <3>1, <3>2, <3>3, CoilStep
      <3>4. CASE off \notin CoilSteps(p)
        <4>1. bits'[p.coil] = bits[p.coil]
          BY <1>1, <3>4 DEF Alone
        <4>2. Exact(p)'
          BY <1>1, <1>3, <3>2, <4>1 DEF Exact
        <4> QED BY <1>3, <3>1, <3>2, <4>2
      <3> QED BY <3>3, <3>4
    <2> QED BY <2>1, <2>2
  <1>5. ASSUME NEW p \in prog.pulses, NEW c \in CoilSteps(p), c \notin pulsed'
        PROVE  c \in pulse_prev' <=> p.rung \in before'
    <2>1. off # c
      BY <1>3, <1>5, CoilStep
    <2>2. (c \in pulsed' <=> c \in pulsed) /\ (c \in pulse_prev' <=> c \in pulse_prev)
      BY <2>1, EdgeKept DEF Pls
    <2> QED BY <1>1, <1>5, <2>2 DEF EdgeInv
  <1>6. ASSUME NEW p \in prog.pulses, NEW c \in CoilSteps(p), off' \in {c - 1, c}
        PROVE  (result' <=> bits'[p.rung]) /\ (off' = c => pulse_pending' = p.kind)
    BY <1>6, RungStep
  <1> QED BY <1>1, <1>2, <1>4, <1>5, <1>6 DEF EdgeInv

\* A scan begins with the edge memory of the scan before it, or with none.
LEMMA EdgeBegin ==
    ASSUME EdgeInv, PulsesWritten, NEW inputs \in SUBSET Devices({"X"}), BeginScan(inputs)
    PROVE  EdgeInv'
  <1>1. /\ phase = "idle" /\ phase' = "scan" /\ prog' = prog /\ off' = 1 /\ pulsed' = {}
        /\ before' = IF first THEN {} ELSE {q \in Devices({"X"}) : bits[q]}
        /\ pulse_prev' = IF first THEN {} ELSE pulse_prev
    BY DEF BeginScan, forget_pulses
  <1>2. \A p : CoilSteps(p)' = CoilSteps(p)
    BY <1>1, SameRungs
  <1>3. ASSUME NEW p \in prog.pulses, NEW c \in CoilSteps(p)
        PROVE  (c \in pulse_prev' <=> p.rung \in before') /\ c \notin pulsed' /\ off' \notin {c - 1, c}
    <2>1. p.rung \in Devices({"X"}) /\ c \in 3..PROGRAM_WORDS
      BY DEF PulsesWritten, CoilSteps
    <2>2. ~first => (c \in pulse_prev <=> bits[p.rung])
      BY <1>1 DEF EdgeInv
    <2>3. c # 1 /\ c - 1 # 1
      BY <2>1, ExecAssumption
    <2> QED BY <1>1, <2>1, <2>2, <2>3
  <1>4. ASSUME NEW p \in prog.pulses, NEW c \in CoilSteps(p)
        PROVE  /\ ~((phase' = "idle" /\ ~first') \/ (phase' = "scan" /\ c \in pulsed'))
               /\ ~(phase' = "scan" /\ off' \in {c - 1, c}) /\ ~(phase' = "scan" /\ off' = c)
    BY <1>1, <1>3
  <1> QED BY <1>1, <1>2, <1>3, <1>4 DEF EdgeInv

\* At the end of a scan every pulse rung has been executed.
LEMMA EdgeEnd ==
    ASSUME EdgeInv, PulsesWritten, PulsesOnce', EndScan
    PROVE  EdgeInv'
  <1>1. /\ phase = "scan" /\ phase' = "idle" /\ ~first'
        /\ prog' = prog /\ before' = before /\ pulse_prev' = pulse_prev /\ pulsed' = pulsed
        /\ bits' = [q \in BITS |-> IF q[1] = "S" /\ q[2] \in stl.reset_at_end THEN FALSE ELSE bits[q]]
    BY DEF EndScan, Leave, stl_finish_scan
  <1>2. \A p : CoilSteps(p)' = CoilSteps(p)
    BY <1>1, SameRungs
  <1>3. ASSUME NEW p \in prog.pulses, NEW c \in CoilSteps(p)
        PROVE  (c \in pulse_prev' <=> bits'[p.rung]) /\ Exact(p)'
    <2>1. p.rung \in BITS /\ p.rung[1] # "S" /\ p.coil \in BITS /\ p.coil[1] # "S"
      BY DEF PulsesWritten, Devices
    <2>2. bits'[p.rung] = bits[p.rung] /\ bits'[p.coil] = bits[p.coil]
      BY <1>1, <2>1
    <2>3. c \in pulsed
      BY <1>1, <1>2 DEF PulsesOnce
    <2>4. (c \in pulse_prev <=> bits[p.rung]) /\ Exact(p)
      BY <1>1, <2>3 DEF EdgeInv
    <2> QED BY <1>1, <2>2, <2>4 DEF Exact
  <1> QED BY <1>1, <1>2, <1>3 DEF EdgeInv

\* A pulse coil is on in exactly the scans in which its input has changed the
\* right way since the scan before, in every program in which each pulse coil
\* has a rung of its own that is executed once per scan.
THEOREM PulsesExact ==
    Spec /\ PulsesWritten /\ []PulsesOnce /\ PulsesEntered /\ PulsesAlone => []PulseExact
  <1>1. Init => EdgeInv
    BY DEF Init, EdgeInv
  <1>2. ASSUME ExecInv, EdgeInv, PulsesWritten, PulsesOnce, PulsesOnce', [Next]_vars,
               [Entered]_vars, [Alone]_vars
        PROVE  EdgeInv' /\ PulsesWritten'
    <2>1. CASE UNCHANGED vars
      <3>1. UNCHANGED <<prog, phase, first, before, bits, pulse_prev, pulsed, off, result, pulse_pending>>
        BY <2>1 DEF vars, fixed, mem
      <3>2. \A p : CoilSteps(p)' = CoilSteps(p) /\ Exact(p)' = Exact(p)
        BY <3>1, SameRungs DEF Exact
      <3>3. EdgeInv'
        BY <1>2, <3>1, <3>2 DEF EdgeInv
      <3> QED BY <1>2, <3>1, <3>3, SameRungs
    <2>2. CASE vars' # vars
      <3>1. Next /\ Entered /\ Alone
        BY <1>2, <2>2
      <3>2. CASE Instruction
        BY <1>2, <3>1, <3>2, EdgeStep, SameRungs, Executes DEF fixed
      <3>3. CASE \E inputs \in SUBSET Devices({"X"}) : BeginScan(inputs)
        <4>1. PICK inputs \in SUBSET Devices({"X"}) : BeginScan(inputs)
          BY <3>3
        <4>2. prog' = prog
          BY <4>1 DEF BeginScan
        <4> QED BY <1>2, <4>1, <4>2, EdgeBegin, SameRungs
      <3>4. CASE EndScan
        <4>1. prog' = prog
          BY <3>4 DEF EndScan, Leave
        <4> QED BY <1>2, <3>4, <4>1, EdgeEnd, SameRungs
      <3>5. CASE Restart
        <4>1. prog' = prog /\ phase' = "idle" /\ first'
          BY <3>5 DEF Restart
        <4>2. EdgeInv'
          BY <4>1 DEF EdgeInv
        <4> QED BY <1>2, <4>1, <4>2, SameRungs
      <3> QED BY <3>1, <3>2, <3>3, <3>4, <3>5 DEF Next
    <2> QED BY <2>1, <2>2
  <1>3. EdgeInv /\ PulsesWritten => PulseExact
    <2> SUFFICES ASSUME EdgeInv, PulsesWritten, phase = "idle", ~first, NEW p \in prog.pulses
                 PROVE  Exact(p)
      BY DEF PulseExact, Exact
    <2>1. PICK c \in CoilSteps(p) : TRUE
      BY DEF PulsesWritten
    <2> QED BY <2>1 DEF EdgeInv
  <1>4. PulsesEntered <=> [][Entered]_vars
    BY PTL DEF PulsesEntered, Entered
  <1>5. PulsesAlone <=> [][Alone]_vars
    BY PTL DEF PulsesAlone, Alone
  <1> QED BY <1>1, <1>2, <1>3, <1>4, <1>5, ExecAlways, PTL DEF Spec

------------------------------------------------------------------------------
(* Charts *)

\* The step at which transition t sets the k-th of the states it leads to.  The
\* targets of a fork are set one after the other, by two-word instructions.
Place(t, k) == t.at + 2 * (k - 1)
Reached(t, k) == {t.to[j] : j \in 1..k}
SetsState(i, s) ==
    \/ Is(fetch(i), "MISC", "SET_S") /\ fetch(i + 1).n = s
    \/ fetch(i).op \in {"SET", "OUT"} /\ fetch(i).dev = "S" /\ fetch(i).n = s

\* A transition leads from states to others, and the program has steps of its own
\* for each of them; whatever legal marking it leaves, the one it makes is legal.
TransitionWritten(t) ==
    /\ t.at \in Nat /\ t.from \subseteq States /\ t.to \in Seq(States) /\ t.to # <<>>
    /\ t.from \cap Reached(t, Len(t.to)) = {}
    /\ \A V \in prog.markings :
          t.from \subseteq V => (V \ t.from) \cup Reached(t, Len(t.to)) \in prog.markings
    /\ \A k \in 1..Len(t.to) :
          /\ Place(t, k) \in 4..PROGRAM_WORDS /\ SetsState(Place(t, k), t.to[k])
          /\ Len(t.to) > 1 => fetch(Place(t, k)).op = "MISC"
          /\ \A u \in prog.flow : \A l \in 1..Len(u.to) : Place(t, k) = Place(u, l) => t = u /\ k = l

\* What is to be checked of a chart.  The first rung sets an initial step in the
\* first scan, and every transition is written as above.
ChartWritten ==
    /\ fetch(1).op = "LD" /\ fetch(1).dev = "MS" /\ fetch(1).n = 2 /\ <<"MS", 2>> \in BITS
    /\ Is(fetch(2), "MISC", "SET_S") /\ fetch(3).n \in States /\ {fetch(3).n} \in prog.markings
    /\ PROGRAM_WORDS >= 2
    /\ \A t \in prog.flow : TransitionWritten(t)

\* An instruction that may write a state.
WritesState ==
    \/ w.op \in {"OUT", "SET", "RST", "PLS"} /\ w.dev = "S"
    \/ w.op = "MISC" /\ w.dev \in {"SET_S", "RST_S", "OUT_S"}
    \/ w.op = "MISC" /\ w.dev = "ZRST" /\ Device(fetch(off + 2).n) = "S"
    \/ w.op = "MISC" /\ w.dev = "MOV" /\ read_bit_operand(off + 3) /\ Device(fetch(off + 4).n) = "S"
    \/ w.op = "MISC" /\ w.dev = "CMP" /\ read_bit_operand(off + 5) /\ Device(fetch(off + 6).n) = "S"

\* Its transitions are all that writes states, each is executed in the steps it
\* leaves, and it is not taken when one of these or a state it leads to has been
\* left before in the same scan.
ChartFollowed ==
    Running =>
        /\ WritesState => off = 2 \/ \E t \in prog.flow : \E k \in 1..Len(t.to) : off = Place(t, k)
        /\ \A t \in prog.flow : \A k \in 1..Len(t.to) : off = Place(t, k) =>
              stl.in_stl /\ {stl.sources[i] : i \in DOMAIN stl.sources} = t.from
        /\ \A t \in prog.flow : off = t.at /\ result =>
              stl.reset_at_end \cap (t.from \cup Reached(t, Len(t.to))) = {}

\* No call, return or operand leads into the first rung or the middle of a fork.
ChartEntered ==
    [][phase = "scan" =>
         /\ off' = 1 => off = 1
         /\ off' = 2 => off \in {1, 2}
         /\ \A t \in prog.flow : \A k \in 2..Len(t.to) :
               off' = Place(t, k) => off \in {Place(t, k), Place(t, k - 1)}]_vars

\* States, and devices in general, are bits.
LEMMA StateBits == \A i : i \in States <=> <<"S", i>> \in BITS
  <1>1. ASSUME NEW q \in BITS PROVE q = <<q[1], q[2]>>
    BY DeviceAssumption
  <1> QED BY <1>1 DEF States

\* Memory m has the states as they are; an instruction leaves them so, and queues
\* nothing.
StatesAsIn(m) == \A i \in States : m[<<"S", i>>] = bits[<<"S", i>>]
SameStates == StatesAsIn(bits') /\ stl'.reset_at_end = stl.reset_at_end

\* Writes to devices of another kind.
LEMMA WriteElsewhere ==
    /\ StatesAsIn(bits)
    /\ \A f : (\A q \in DOMAIN f : q[1] # "S") => StatesAsIn(write_bits(f))
    /\ \A dev, n, v : dev # "S" => StatesAsIn(write_bit(dev, n, v))
    /\ \A dev, n : dev # "S" => StatesAsIn(OpenContact(dev, n))
  <1>1. ASSUME NEW f, \A q \in DOMAIN f : q[1] # "S", NEW i \in States
        PROVE  write_bits(f)[<<"S", i>>] = bits[<<"S", i>>]
    <2>1. <<"S", i>> \in BITS /\ <<"S", i>> \notin DOMAIN f
      BY <1>1, StateBits
    <2> QED BY <2>1 DEF write_bits
  <1>2. ASSUME NEW dev, NEW n, NEW v, dev # "S", NEW i \in States
        PROVE  write_bit(dev, n, v)[<<"S", i>>] = bits[<<"S", i>>]
    <2> DEFINE f == [q \in {<<dev, n>>} |-> v]
    <2>1. \A q \in DOMAIN f : q[1] # "S"
      BY <1>2
    <2> HIDE DEF f
    <2>2. write_bits(f)[<<"S", i>>] = bits[<<"S", i>>]
      BY <1>1, <2>1
    <2> QED BY <2>2 DEF write_bit, f
  <1>3. ASSUME NEW dev, NEW n, dev # "S", NEW i \in States
        PROVE  OpenContact(dev, n)[<<"S", i>>] = bits[<<"S", i>>]
    <2>1. <<"S", i>> \in BITS /\ <<"S", i>> # <<dev, n>>
      BY <1>3, StateBits
    <2> QED BY <2>1 DEF OpenContact
  <1> QED BY <1>1, <1>2, <1>3 DEF StatesAsIn

\* Only an instruction that may write a state does, or takes a transition.
LEMMA StatesKept ==
    ASSUME ExecInv, Instruction, ~WritesState
    PROVE  SameStates
  <1>0. StlInv /\ FixedInv
    BY DEF ExecInv
  <1>k. ASSUME stl' = stl \/ LeaveSources, StatesAsIn(bits')
        PROVE  SameStates
    BY <1>0, <1>k, SameQueue, WriteElsewhere DEF SameStates
  <1>1. CASE Blank
    <2>1. bits' = bits /\ (stl' = stl \/ LeaveSources)
      BY <1>1, Zenon DEF Blank, mem, Goto
    <2> QED BY <2>1, <1>k, WriteElsewhere
  <1>2. CASE OutPreset
    <2>1. LeaveSources
      BY <1>2, Zenon DEF OutPreset, Goto
    <2> DEFINE dev == IF w.op = "OUT_T" THEN "T" ELSE "C"
    <2>2. dev # "S"
      OBVIOUS
    <2> HIDE DEF dev
    <2>3. bits' = bits \/ \E closed : bits' = [b \in BITS |-> IF b # <<dev, w.n>> THEN bits[b]
                                              ELSE IF result THEN bits[b] \/ closed
                                              ELSE w.op = "OUT_C" /\ bits[b]]
      BY <1>2, Zenon DEF OutPreset, dev
    <2>4. \A b \in BITS : b # <<dev, w.n>> => bits'[b] = bits[b]
      BY <2>3, Zenon
    <2>5. \A i \in States : <<"S", i>> \in BITS /\ <<"S", i>> # <<dev, w.n>>
      BY <2>2, StateBits
    <2>6. StatesAsIn(bits')
      BY <2>4, <2>5, Zenon DEF StatesAsIn
    <2> QED BY <2>1, <2>6, <1>k
  <1>3. CASE Call
    <2>1. bits' = bits /\ (stl' = stl \/ LeaveSources)
      BY <1>3, Zenon DEF Call, mem, Goto
    <2> QED BY <2>1, <1>k, WriteElsewhere
  <1>4. CASE Sret
    <2>1. bits' = bits /\ (stl' = stl \/ LeaveSources)
      BY <1>4, Zenon DEF Sret, mem, Goto
    <2> QED BY <2>1, <1>k, WriteElsewhere
  <1>5. CASE Contact
    <2>1. bits' = bits /\ (stl' = stl \/ LeaveSources)
      BY <1>5, Zenon DEF Contact, mem, Goto
    <2> QED BY <2>1, <1>k, WriteElsewhere
  <1>6. CASE MpsMrdMpp
    <2>1. bits' = bits /\ (stl' = stl \/ LeaveSources)
      BY <1>6, Zenon DEF MpsMrdMpp, mem, Goto
    <2> QED BY <2>1, <1>k, WriteElsewhere
  <1>7. CASE AnbOrb
    <2>1. bits' = bits /\ (stl' = stl \/ LeaveSources)
      BY <1>7, Zenon DEF AnbOrb, mem, Goto
    <2> QED BY <2>1, <1>k, WriteElsewhere
  <1>8. CASE InlineComparison
    <2>1. bits' = bits /\ (stl' = stl \/ LeaveSources)
      BY <1>8, Zenon DEF InlineComparison, mem, Goto
    <2> QED BY <2>1, <1>k, WriteElsewhere
  <1>9. CASE OutCEnable
    <2>1. bits' = bits /\ (stl' = stl \/ LeaveSources)
      BY <1>9, Zenon DEF OutCEnable, mem, Goto
    <2> QED BY <2>1, <1>k, WriteElsewhere
  <1>10. CASE Stl
    <2>1. bits' = bits /\ \E m \in BOOLEAN : stl' = stl_begin_step(w.n, m)
      BY <1>10, Zenon DEF Stl, mem
    <2>2. w.n \in Nat
      BY <1>0, FetchType DEF w
    <2> QED BY <2>1, <2>2, <1>0, SameQueue, WriteElsewhere DEF SameStates
  <1>11. CASE Ret
    <2>1. /\ bits' = bits
          /\ stl' = [stl EXCEPT !.in_stl = FALSE, !.accepting_sources = FALSE,
                                !.sources = <<>>, !.step_gate = TRUE]
      BY <1>11 DEF Ret, mem
    <2>2. ASSUME NEW s \in StlType, NEW e
          PROVE  [s EXCEPT !.in_stl = FALSE, !.accepting_sources = FALSE,
                           !.sources = e, !.step_gate = TRUE].reset_at_end = s.reset_at_end
      BY DEF StlType
    <2> QED BY <2>1, <2>2, <1>0, WriteElsewhere DEF SameStates, StlInv
  <1>12. CASE SetRstOutS
    BY <1>12 DEF SetRstOutS, Misc, Decode, WritesState
  <1>13. CASE Out
    <2>1. w.dev # "S"
      BY <1>13 DEF Out, Decode, WritesState
    <2>2. LeaveSources
      BY <1>13, <2>1, Zenon DEF Out, Transfer
    <2>3. bits' = bits \/ bits' = write_bit(w.dev, w.n, result)
      BY <1>13, Zenon DEF Out
    <2>4. StatesAsIn(bits')
      BY <2>1, <2>2, <2>3, WriteElsewhere, Zenon
    <2> QED BY <2>2, <2>4, <1>k
  <1>14. CASE Set
    <2>1. w.dev # "S"
      BY <1>14 DEF Set, Decode, WritesState
    <2>2. LeaveSources
      BY <1>14, <2>1, Zenon DEF Set, Transfer
    <2>3. bits' = bits \/ bits' = write_bit(w.dev, w.n, TRUE)
      BY <1>14, Zenon DEF Set
    <2>4. StatesAsIn(bits')
      BY <2>1, <2>2, <2>3, WriteElsewhere, Zenon
    <2> QED BY <2>2, <2>4, <1>k
  <1>15. CASE Rst
    <2>1. w.dev # "S" /\ LeaveSources
      BY <1>15 DEF Rst, Decode, Goto, WritesState
    <2>2. \/ bits' = bits \/ bits' = OpenContact(w.dev, w.n) \/ bits' = write_bit(w.dev, w.n, FALSE)
      BY <1>15, Zenon DEF Rst
    <2>4. StatesAsIn(bits')
      BY <2>1, <2>2, WriteElsewhere, Zenon
    <2> QED BY <2>1, <2>4, <1>k
  <1>16. CASE RstC
    <2>1. LeaveSources
      BY <1>16 DEF RstC, Goto
    <2>2. \/ bits' = bits
          \/ fetch(off + 1).dev \in {"C", "T"} /\ bits' = OpenContact(fetch(off + 1).dev, fetch(off + 1).n)
      BY <1>16, Zenon DEF RstC
    <2>3. fetch(off + 1).dev \in {"C", "T"} => fetch(off + 1).dev # "S"
      OBVIOUS
    <2>4. StatesAsIn(bits')
      BY <2>1, <2>2, <2>3, WriteElsewhere, Zenon
    <2> QED BY <2>1, <2>4, <1>k
  <1>17. CASE PulsePrefix
    <2>1. bits' = bits /\ (stl' = stl \/ LeaveSources)
      BY <1>17, Zenon DEF PulsePrefix, mem, Goto
    <2> QED BY <2>1, <1>k, WriteElsewhere
  <1>18. CASE Pls
    <2>1. w.dev # "S" /\ LeaveSources
      BY <1>18 DEF Pls, Decode, Goto, WritesState
    <2>2. bits' = bits \/ bits' = write_bit(w.dev, w.n, pulse_edge(off, result, pulse_pending = "PLF"))
      BY <1>18, Zenon DEF Pls
    <2>3. \A v : StatesAsIn(write_bit(w.dev, w.n, v))
      BY <2>1, WriteElsewhere
    <2>4. StatesAsIn(bits')
      BY <2>2, <2>3, WriteElsewhere, Zenon
    <2> QED BY <2>1, <2>4, <1>k
  <1>19. CASE Zrst
    <2> DEFINE dev == Device(fetch(off + 2).n)
               writes == [q \in {dev} \X (fetch(off + 1).n..fetch(off + 3).n) |-> FALSE]
    <2>1. dev # "S" /\ LeaveSources
      BY <1>19 DEF Zrst, Misc, Decode, Goto, WritesState
    <2>2. bits' = bits \/ bits' = write_bits(writes)
      BY <1>19, Zenon DEF Zrst
    <2>3. \A q \in DOMAIN writes : q[1] # "S"
      <3> HIDE DEF dev
      <3> QED BY <2>1
    <2> HIDE DEF writes
    <2>4. StatesAsIn(bits')
      BY <2>1, <2>2, <2>3, WriteElsewhere, Zenon
    <2> QED BY <2>1, <2>4, <1>k
  <1>20. CASE Mov
    <2> DEFINE packed == read_bit_operand(off + 1) /\ read_bit_operand(off + 3)
               src == Device(fetch(off + 2).n)
               dst == Device(fetch(off + 4).n)
               from == fetch(off + 1).n
               to == fetch(off + 3).n
               writes == [q \in {<<dst, (to + i) % 256>> : i \in 0..15} |->
                            read_bit(src, (from + ((q[2] - to) % 256)) % 256)]
    <2>1. (packed => dst # "S") /\ LeaveSources
      <3> HIDE DEF packed
      <3>1. w.op = "MISC" /\ w.dev = "MOV" /\ LeaveSources
        BY <1>20 DEF Mov, Misc, Decode, Goto
      <3>2. packed => read_bit_operand(off + 3)
        BY DEF packed
      <3> QED BY <3>1, <3>2 DEF WritesState
    <2>2. bits' = bits \/ (packed /\ bits' = write_bits(writes))
      BY <1>20, Zenon DEF Mov
    <2>3. dst # "S" => \A q \in DOMAIN writes : q[1] # "S"
      <3> HIDE DEF dst
      <3>1. \A q \in DOMAIN writes : \E n : q = <<dst, n>>
        OBVIOUS
      <3> QED BY <3>1
    <2> HIDE DEF writes, packed
    <2>4. StatesAsIn(bits')
      BY <2>1, <2>2, <2>3, WriteElsewhere, Zenon
    <2> QED BY <2>1, <2>4, <1>k
  <1>21. CASE execute_applied
    <2>1. LeaveSources
      BY <1>21, Zenon DEF execute_applied, Goto
    <2>2. CASE w.dev # "CMP"
      <3>1. bits' = bits
        BY <1>21, <2>2, Zenon DEF execute_applied
      <3> QED BY <2>1, <3>1, <1>k, WriteElsewhere
    <2>3. CASE w.dev = "CMP"
      <3>1. w.op = "MISC" /\ OperandKinds[w.dev] = <<"value", "value", "bit">>
        BY <1>21, <2>3 DEF execute_applied, Misc, Decode, OperandKinds
      <3> DEFINE kinds == OperandKinds[w.dev]
                 at(k) == off + 1 + 2 * (k - 1)
                 wrong == {k \in DOMAIN kinds : ~OperandOk(kinds[k], at(k))}
      <3>2. bits' = bits \/ (wrong = {} /\ \E a, b : bits' = write_bits(CmpWrites(a, b, at(Len(kinds)))))
        BY <1>21, Zenon DEF execute_applied
      <3>3. off \in Nat /\ at(Len(kinds)) = off + 5
        BY <3>1 DEF ExecInv, RungInv
      <3>4. wrong = {} => read_bit_operand(off + 5)
        <4>1. 3 \in DOMAIN kinds /\ kinds[3] = "bit" /\ at(3) = off + 5
          BY <3>1, <3>3
        <4> HIDE DEF kinds, at
        <4> QED BY <4>1 DEF OperandOk
      <3> HIDE DEF wrong, kinds, at
      <3>5. wrong = {} => Device(fetch(off + 6).n) # "S"
        BY <3>1, <3>4, <2>3 DEF WritesState
      <3>6. ASSUME NEW a, NEW b, Device(fetch(off + 6).n) # "S"
            PROVE  \A q \in DOMAIN CmpWrites(a, b, off + 5) : q[1] # "S"
        <4>1. off + 5 + 1 = off + 6
          BY <3>3
        <4>2. \A q \in DOMAIN CmpWrites(a, b, off + 5) : \E n : q = <<Device(fetch(off + 5 + 1).n), n>>
          BY DEF CmpWrites
        <4> QED BY <3>6, <4>1, <4>2
      <3>7. StatesAsIn(bits')
        BY <3>2, <3>3, <3>5, <3>6, WriteElsewhere, Zenon
      <3> QED BY <2>1, <3>7, <1>k
    <2> QED BY <2>2, <2>3
  <1>22. CASE Other
    <2>1. bits' = bits /\ (stl' = stl \/ LeaveSources)
      BY <1>22, Zenon DEF Other, mem, Goto
    <2> QED BY <2>1, <1>k, WriteElsewhere
  <1> QED BY <1>1, <1>2, <1>3, <1>4, <1>5, <1>6, <1>7, <1>8, <1>9, <1>10, <1>11, <1>12, <1>13, <1>14, <1>15, <1>16, <1>17, <1>18, <1>19, <1>20, <1>21, <1>22 DEF Instruction

\* The states that are on, and those that stay on when the scan ends.
Active == {i \in States : bits[<<"S", i>>]}
Marking == Active \ stl.reset_at_end

\* A fork has set some of the states it leads to, and queued those it leaves.
Midway(t, k) ==
    \E V \in prog.markings :
        /\ t.from \subseteq V /\ Marking = (V \ t.from) \cup Reached(t, k - 1)
        /\ t.from \subseteq stl.reset_at_end
        /\ stl.reset_at_end \cap Reached(t, Len(t.to)) = {}

\* An active step has all its states on.
StepOn == stl.in_stl /\ stl.step_gate => \A i \in DOMAIN stl.sources : stl.sources[i] \in Active

\* What LegalMarking rests on: the states without those queued to be reset are a
\* legal marking at every step of a scan, except within a fork and before the
\* first rung of the first scan.
ChartInv ==
    /\ phase = "idle" => IF first THEN Active = {} ELSE Active \in prog.markings
    /\ phase = "scan" /\ off \in {1, 2} =>
          /\ IF first THEN Active = {} ELSE Active \in prog.markings
          /\ ~stl.in_stl /\ stl.reset_at_end = {}
          /\ (bits[<<"MS", 2>>] <=> first) /\ (off = 2 => (result <=> first))
    /\ phase = "scan" /\ off \notin {1, 2} =>
          \/ Marking \in prog.markings
          \/ \E t \in prog.flow : \E k \in 2..Len(t.to) : off = Place(t, k) /\ result
    /\ phase = "scan" => \A t \in prog.flow : \A k \in 2..Len(t.to) :
          off = Place(t, k) /\ result => Midway(t, k)
    /\ phase = "scan" => StepOn

\* The chart depends on the program alone.
LEMMA SameChart ==
    ASSUME prog' = prog
    PROVE  ChartWritten => ChartWritten'
  <1>1. \A i : fetch(i)' = fetch(i)
    BY DEF fetch
  <1>2. \A i, n : SetsState(i, n) => SetsState(i, n)'
    BY <1>1 DEF SetsState, Is
  <1>3. ASSUME NEW t, TransitionWritten(t) PROVE TransitionWritten(t)'
    BY <1>1, <1>2, <1>3, Zenon DEF TransitionWritten, States
  <1> QED BY <1>1, <1>3, Zenon DEF ChartWritten, Is, States

\* The states on depend on what is written to them alone.
LEMMA ActiveIs ==
    /\ SameStates => Active' = Active /\ Marking' = Marking
    /\ \A n \in States : bits' = write_bit("S", n, TRUE) => Active' = Active \cup {n}
  <1>1. ASSUME SameStates PROVE Active' = Active /\ Marking' = Marking
    BY <1>1 DEF SameStates, StatesAsIn, Active, Marking, States
  <1>2. ASSUME NEW n \in States, bits' = write_bit("S", n, TRUE)
        PROVE  Active' = Active \cup {n}
    <2> DEFINE f == [q \in {<<"S", n>>} |-> TRUE]
    <2>1. bits' = write_bits(f)
      BY <1>2 DEF write_bit
    <2>2. \A q : q \in DOMAIN f <=> q = <<"S", n>>
      OBVIOUS
    <2>3. f[<<"S", n>>] = TRUE
      OBVIOUS
    <2> HIDE DEF f
    <2>4. ASSUME NEW i \in States
          PROVE  bits'[<<"S", i>>] = IF i = n THEN TRUE ELSE bits[<<"S", i>>]
      <3>1. <<"S", i>> \in BITS /\ (<<"S", i>> \in DOMAIN f <=> i = n)
        BY <2>2, StateBits
      <3> QED BY <2>1, <2>3, <3>1 DEF write_bits
    <2> QED BY <2>4 DEF Active, States
  <1> QED BY <1>1, <1>2

\* A transfer that happens switches its target on and queues the states of its
\* step, and one that does not leaves both alone.
LEMMA TransferStep ==
    ASSUME ExecInv, Instruction, NEW n \in States, SetsState(off, n), stl.in_stl
    PROVE  /\ result' = result /\ w.op # "STL"
           /\ off' # off /\ (w.op = "MISC" => off' = off + 2)
           /\ ~result => SameStates
           /\ result => /\ Active' = Active \cup {n}
                        /\ stl'.reset_at_end = stl.reset_at_end
                              \cup ({stl.sources[i] : i \in DOMAIN stl.sources} \cap States)
  <1>0. stl.in_stl = TRUE /\ StlInv /\ stl \in StlType /\ result \in BOOLEAN /\ off \in Nat
    BY DEF ExecInv, StlInv, RungInv, StlType
  <1>k. ASSUME result' = result, w.op # "STL", off' # off, w.op = "MISC" => off' = off + 2,
               result => bits' = write_bit("S", n, TRUE) /\ stl' = stl_queue_transfer,
               ~result => bits' = bits /\ LeaveSources
        PROVE  /\ result' = result /\ w.op # "STL"
               /\ off' # off /\ (w.op = "MISC" => off' = off + 2)
               /\ ~result => SameStates
               /\ result => /\ Active' = Active \cup {n}
                            /\ stl'.reset_at_end = stl.reset_at_end
                                  \cup ({stl.sources[i] : i \in DOMAIN stl.sources} \cap States)
    <2>1. ~result => SameStates
      BY <1>0, <1>k, SameQueue, WriteElsewhere DEF SameStates
    <2>2. result => Active' = Active \cup {n}
      BY <1>k, ActiveIs
    <2>3. stl' = stl_queue_transfer => stl'.reset_at_end = stl.reset_at_end
                                  \cup ({stl.sources[i] : i \in DOMAIN stl.sources} \cap States)
      <3> DEFINE q == {stl.sources[i] : i \in DOMAIN stl.sources} \cap States
      <3>1. stl_queue_transfer = [stl EXCEPT !.accepting_sources = FALSE, !.reset_at_end = @ \cup q]
        BY Zenon DEF stl_queue_transfer
      <3> HIDE DEF q
      <3>2. stl_queue_transfer.reset_at_end = stl.reset_at_end \cup q
        BY <1>0, <3>1 DEF StlType
      <3> QED BY <3>2 DEF q
    <2> QED BY <1>k, <2>1, <2>2, <2>3
  <1>1. CASE Is(fetch(off), "MISC", "SET_S") /\ fetch(off + 1).n = n
    <2>1. SetRstOutS
      BY <1>1, RungWords DEF w
    <2>2. w.op = "MISC" /\ w.dev = "SET_S" /\ fetch(off + 1).n = n
      BY <1>1 DEF w, Is
    <2>3. result' = result /\ off' = off + 2
      BY <2>1 DEF SetRstOutS, keep_rung
    <2>4. result => bits' = write_bit("S", n, TRUE) /\ stl' = stl_queue_transfer
      BY <1>0, <2>1, <2>2, Zenon DEF SetRstOutS, Transfer
    <2>5. ~result => bits' = bits /\ LeaveSources
      BY <1>0, <2>1, <2>2, Zenon DEF SetRstOutS, Transfer
    <2>6. w.op # "STL" /\ off' # off /\ (w.op = "MISC" => off' = off + 2)
      BY <1>0, <2>2, <2>3
    <2> QED BY <2>3, <2>4, <2>5, <2>6, <1>k
  <1>2. CASE fetch(off).op = "SET" /\ fetch(off).dev = "S" /\ fetch(off).n = n
    <2>1. Set
      BY <1>2, RungWords DEF w
    <2>2. w.op = "SET" /\ w.dev = "S" /\ w.n = n
      BY <1>2 DEF w, Is
    <2>3. result' = result /\ off' = off + 1
      BY <2>1 DEF Set, keep_rung
    <2>4. result => bits' = write_bit("S", n, TRUE) /\ stl' = stl_queue_transfer
      BY <1>0, <2>1, <2>2, Zenon DEF Set, Transfer
    <2>5. ~result => bits' = bits /\ LeaveSources
      BY <1>0, <2>1, <2>2, Zenon DEF Set, Transfer
    <2>6. w.op # "STL" /\ off' # off /\ (w.op = "MISC" => off' = off + 2)
      BY <1>0, <2>2, <2>3
    <2> QED BY <2>3, <2>4, <2>5, <2>6, <1>k
  <1>3. CASE fetch(off).op = "OUT" /\ fetch(off).dev = "S" /\ fetch(off).n = n
    <2>1. Out
      BY <1>3, RungWords DEF w
    <2>2. w.op = "OUT" /\ w.dev = "S" /\ w.n = n
      BY <1>3 DEF w, Is
    <2>3. result' = result /\ off' = off + 1
      BY <2>1 DEF Out, keep_rung
    <2>4. result => bits' = write_bit("S", n, TRUE) /\ stl' = stl_queue_transfer
      BY <1>0, <2>1, <2>2, Zenon DEF Out, Transfer
    <2>5. ~result => bits' = bits /\ LeaveSources
      BY <1>0, <2>1, <2>2, Zenon DEF Out, Transfer
    <2>6. w.op # "STL" /\ off' # off /\ (w.op = "MISC" => off' = off + 2)
      BY <1>0, <2>2, <2>3
    <2> QED BY <2>3, <2>4, <2>5, <2>6, <1>k
  <1> QED BY <1>1, <1>2, <1>3 DEF SetsState

\* Unless an STL begins a step or the states change, an active step is on.
LEMMA StepKept ==
    ASSUME ExecInv, Instruction, ~Stl, StepOn, Active \subseteq Active'
    PROVE  StepOn'
  <1>1. SameStep
    BY GateKept
  <1> QED BY <1>1 DEF SameStep, StepOn

\* An STL makes its step active only when all its states are on.
LEMMA StepBegins ==
    ASSUME ExecInv, Stl, StepOn
    PROVE  StepOn'
  <1>0. stl \in StlType /\ STL_MAX_SOURCES \in Nat
    BY ExecAssumption DEF ExecInv, StlInv
  <1> DEFINE merge == stl.in_stl /\ stl.accepting_sources
             sources == IF merge THEN stl.sources ELSE <<>>
             gate == IF merge THEN stl.step_gate ELSE TRUE
  <1>1. stl' = stl_begin_step(w.n, merge) /\ bits' = bits
    BY Zenon DEF Stl, mem
  <1>2. stl'.step_gate = (gate /\ read_bit("S", w.n)) /\ stl'.sources = Push(sources, STL_MAX_SOURCES, w.n)
    BY <1>1 DEF stl_begin_step
  <1>3. SUFFICES ASSUME stl'.step_gate, NEW i \in DOMAIN stl'.sources
                 PROVE  stl'.sources[i] \in Active
    BY <1>1 DEF StepOn, Active
  <1>4. gate /\ read_bit("S", w.n)
    BY <1>2, <1>3
  <1>5. w.n \in Active
    BY <1>4, StateBits DEF read_bit, Active
  <1>6. \A j \in DOMAIN sources : sources[j] \in Active
    BY <1>0, <1>4 DEF StepOn
  <1>7. sources \in Seq(Nat)
    BY <1>0 DEF StlType
  <1> HIDE DEF sources
  <1>8. CASE stl'.sources = sources
    BY <1>3, <1>6, <1>8
  <1>9. CASE stl'.sources = Append(sources, w.n)
    <2>1. i \in DOMAIN sources \/ i = Len(sources) + 1
      BY <1>3, <1>7, <1>9
    <2> QED BY <2>1, <1>5, <1>6, <1>7, <1>9
  <1> QED BY <1>2, <1>8, <1>9 DEF Push

\* A step of the invariant takes the assumption on steps without its temporal
\* operator.
EntersChart ==
    phase = "scan" =>
        /\ off' = 1 => off = 1
        /\ off' = 2 => off \in {1, 2}
        /\ \A t \in prog.flow : \A k \in 2..Len(t.to) :
              off' = Place(t, k) => off \in {Place(t, k), Place(t, k - 1)}

\* Different targets have different steps.
LEMMA PlaceUnique ==
    ASSUME ChartWritten
    PROVE  \A t, u \in prog.flow : \A k \in 1..Len(t.to), l \in 1..Len(u.to) :
              Place(t, k) = Place(u, l) => t = u /\ k = l
  <1>1. \A t \in prog.flow : TransitionWritten(t)
    BY DEF ChartWritten
  <1> QED BY <1>1, Zenon DEF TransitionWritten

\* The transition a transfer belongs to.
LEMMA PlaceFacts ==
    ASSUME ChartWritten, NEW t \in prog.flow, NEW k \in 1..Len(t.to)
    PROVE  /\ TransitionWritten(t) /\ Place(t, k) \in Nat /\ Place(t, k) >= 4
           /\ Place(t, k) <= PROGRAM_WORDS
           /\ Len(t.to) \in Nat /\ t.to[k] \in States /\ SetsState(Place(t, k), t.to[k])
           /\ Place(t, 1) = t.at /\ Place(t, k + 1) = Place(t, k) + 2
           /\ Reached(t, 0) = {} /\ Reached(t, k) = Reached(t, k - 1) \cup {t.to[k]}
           /\ Reached(t, k) \subseteq Reached(t, Len(t.to)) /\ t.to[k] \in Reached(t, Len(t.to))
  <1>0. TransitionWritten(t)
    BY DEF ChartWritten
  <1>1. TransitionWritten(t) /\ t.at \in Nat /\ t.to \in Seq(States) /\ Len(t.to) \in Nat
    <2>1. t.at \in Nat /\ t.to \in Seq(States)
      BY <1>0, Zenon DEF TransitionWritten
    <2> QED BY <1>0, <2>1
  <1>2. Place(t, k) \in 4..PROGRAM_WORDS /\ SetsState(Place(t, k), t.to[k])
    BY <1>1, Zenon DEF TransitionWritten
  <1>3. PROGRAM_WORDS \in Nat
    BY ExecAssumption
  <1>4. Place(t, 1) = t.at /\ Place(t, k + 1) = Place(t, k) + 2
    BY <1>1 DEF Place
  <1>5. /\ Reached(t, 0) = {} /\ Reached(t, k) = Reached(t, k - 1) \cup {t.to[k]}
        /\ Reached(t, k) \subseteq Reached(t, Len(t.to)) /\ t.to[k] \in Reached(t, Len(t.to))
    BY <1>1 DEF Reached
  <1> QED BY <1>1, <1>2, <1>3, <1>4, <1>5

\* Before a transition sets its k-th target, in a scan in which it happens.
LEMMA MidwayAt ==
    ASSUME ExecInv, GateInv, ChartInv, ChartWritten, ChartFollowed, Running,
           NEW t \in prog.flow, NEW k \in 1..Len(t.to), off = Place(t, k), result
    PROVE  \E V \in prog.markings :
              /\ t.from \subseteq V /\ Marking \ t.from = (V \ t.from) \cup Reached(t, k - 1)
              /\ stl.reset_at_end \cap Reached(t, Len(t.to)) = {}
  <1>1. phase = "scan" /\ off \notin {1, 2}
    BY PlaceFacts DEF Running
  <1>2. CASE k # 1
    <2>1. k \in 2..Len(t.to)
      BY <1>2, PlaceFacts
    <2>2. PICK V \in prog.markings :
             /\ t.from \subseteq V /\ Marking = (V \ t.from) \cup Reached(t, k - 1)
             /\ stl.reset_at_end \cap Reached(t, Len(t.to)) = {}
      BY <1>1, <2>1 DEF ChartInv, Midway
    <2>3. Reached(t, k - 1) \cap t.from = {}
      <3>1. Reached(t, k) \subseteq Reached(t, Len(t.to)) /\ Reached(t, k - 1) \subseteq Reached(t, k)
        BY PlaceFacts
      <3>2. t.from \cap Reached(t, Len(t.to)) = {}
        BY PlaceFacts DEF TransitionWritten
      <3> QED BY <3>1, <3>2
    <2>4. Marking \ t.from = (V \ t.from) \cup Reached(t, k - 1)
      BY <2>2, <2>3
    <2> QED BY <2>2, <2>4
  <1>3. CASE k = 1
    <2>1. Marking \in prog.markings
      <3> SUFFICES ASSUME NEW u \in prog.flow, NEW l \in 2..Len(u.to), off = Place(u, l) PROVE FALSE
        BY <1>1 DEF ChartInv
      <3>1. l \in 1..Len(u.to) /\ l # 1
        <4>1. Len(u.to) \in Nat
          BY DEF ChartWritten, TransitionWritten
        <4> QED BY <4>1
      <3>2. k = l
        <4>1. Place(t, k) = Place(u, l)
          OBVIOUS
        <4> QED BY <3>1, <4>1, PlaceUnique
      <3> QED BY <1>3, <3>1, <3>2
    <2>2. off = t.at
      BY <1>3, PlaceFacts
    <2>3. /\ stl.in_stl /\ {stl.sources[i] : i \in DOMAIN stl.sources} = t.from
          /\ stl.reset_at_end \cap (t.from \cup Reached(t, Len(t.to))) = {}
      BY <2>2 DEF ChartFollowed
    <2>4. stl.step_gate
      BY <1>1, <2>3 DEF GateInv, Inactive, Off
    <2>5. t.from \subseteq Active
      BY <1>1, <2>3, <2>4 DEF ChartInv, StepOn
    <2>6. t.from \subseteq Marking
      BY <2>3, <2>5 DEF Marking
    <2>7. Reached(t, k - 1) = {}
      BY <1>3, PlaceFacts
    <2>8. stl.reset_at_end \cap Reached(t, Len(t.to)) = {}
      BY <2>3
    <2>9. Marking \ t.from = (Marking \ t.from) \cup Reached(t, k - 1)
      BY <2>7
    <2> QED BY <2>1, <2>6, <2>8, <2>9
  <1> QED BY <1>2, <1>3

\* The first rung: the contact of M8002, and the initial step in the first scan.
LEMMA FirstRung ==
    ASSUME ExecInv, ChartInv, ChartWritten, EntersChart, Instruction, off \in {1, 2}
    PROVE  ChartInv'
  <1>1. /\ phase = "scan" /\ phase' = "scan" /\ first' = first /\ prog' = prog /\ off \in Nat
        /\ StlInv /\ stl \in StlType
    BY Executes DEF Running, fixed, ExecInv, RungInv, StlInv
  <1>2. /\ IF first THEN Active = {} ELSE Active \in prog.markings
        /\ ~stl.in_stl /\ stl.reset_at_end = {}
        /\ (bits[<<"MS", 2>>] <=> first) /\ (off = 2 => (result <=> first))
    BY <1>1 DEF ChartInv
  <1>3. ASSUME NEW t \in prog.flow, NEW k \in 2..Len(t.to), off' = Place(t, k) PROVE FALSE
    <2>1. Len(t.to) \in Nat
      BY DEF ChartWritten, TransitionWritten
    <2>2. k \in 1..Len(t.to) /\ k - 1 \in 1..Len(t.to)
      BY <2>1
    <2>3. Place(t, k) >= 4 /\ Place(t, k - 1) >= 4 /\ Place(t, k) \in Nat /\ Place(t, k - 1) \in Nat
      BY <2>2, PlaceFacts
    <2>4. off \in {Place(t, k), Place(t, k - 1)}
      BY <1>1, <1>3 DEF EntersChart
    <2> QED BY <2>3, <2>4
  <1>4. CASE off = 1
    <2>1. w.op = "LD" /\ w.dev = "MS" /\ w.n = 2 /\ <<"MS", 2>> \in BITS
      BY <1>4 DEF ChartWritten, w
    <2>2. Contact
      BY <2>1, RungWords
    <2>3. off' = 2 /\ bits' = bits /\ LeaveSources
      BY <1>4, <2>2 DEF Contact, Goto, mem
    <2>4. result' = power(read_bit("MS", 2) = TRUE)
      BY <2>1, <2>2 DEF Contact
    <2>5. result' <=> first
      BY <1>2, <2>1, <2>4 DEF power, Bus, read_bit
    <2>6. stl'.reset_at_end = {} /\ ~stl'.in_stl
      BY <1>1, <1>2, <2>3 DEF LeaveSources, StlType
    <2>7. Active' = Active
      BY <2>3 DEF Active, States
    <2> QED BY <1>1, <1>2, <1>3, <2>3, <2>5, <2>6, <2>7 DEF ChartInv, StepOn
  <1>5. CASE off = 2
    <2>1. w.op = "MISC" /\ w.dev = "SET_S" /\ fetch(off + 1).n \in States
          /\ {fetch(off + 1).n} \in prog.markings
      BY <1>5 DEF ChartWritten, w, Is
    <2>2. SetRstOutS
      BY <2>1, RungWords DEF Is
    <2>3. off' = 4 /\ LeaveSources
      <3>1. LeaveSources
        BY <1>2, <2>2, Zenon DEF SetRstOutS, Transfer
      <3>2. off' = off + 2
        BY <2>2 DEF SetRstOutS
      <3> QED BY <1>5, <3>1, <3>2
    <2>4. bits' = IF result THEN write_bit("S", fetch(off + 1).n, TRUE) ELSE bits
      BY <2>1, <2>2 DEF SetRstOutS
    <2>5. stl'.reset_at_end = {} /\ ~stl'.in_stl
      BY <1>1, <1>2, <2>3 DEF LeaveSources, StlType
    <2>6. Active' \in prog.markings
      <3>1. CASE result
        <4>1. Active' = Active \cup {fetch(off + 1).n}
          BY <2>1, <2>4, <3>1, ActiveIs
        <4> QED BY <1>2, <1>5, <2>1, <3>1, <4>1
      <3>2. CASE ~result
        <4>1. Active' = Active
          BY <2>4, <3>2 DEF Active, States
        <4> QED BY <1>2, <1>5, <3>2, <4>1
      <3> QED BY <3>1, <3>2
    <2>7. Marking' \in prog.markings
      BY <2>5, <2>6 DEF Marking
    <2> QED BY <1>1, <1>3, <2>3, <2>5, <2>7 DEF ChartInv, StepOn
  <1> QED BY <1>4, <1>5

\* One instruction of the rest of the program.
LEMMA ChartStep ==
    ASSUME ExecInv, GateInv, ChartInv, ChartWritten, ChartFollowed, EntersChart, Instruction,
           off \notin {1, 2}
    PROVE  ChartInv'
  <1>1. /\ Running /\ phase = "scan" /\ phase' = "scan" /\ prog' = prog /\ off \in Nat
        /\ off' \notin {1, 2}
    BY Executes DEF Running, fixed, ExecInv, RungInv, EntersChart
  <1>2. StepOn
    BY <1>1 DEF ChartInv
  <1>3. ASSUME NEW t \in prog.flow, NEW k \in 2..Len(t.to)
        PROVE  k \in 1..Len(t.to) /\ k - 1 \in 1..Len(t.to) /\ k \in Nat
    <2>1. Len(t.to) \in Nat
      BY DEF ChartWritten, TransitionWritten
    <2> QED BY <2>1
  <1>4. CASE \A t \in prog.flow : \A k \in 1..Len(t.to) : off # Place(t, k)
    <2>1. ~WritesState
      BY <1>1, <1>4 DEF ChartFollowed
    <2>2. SameStates
      BY <2>1, StatesKept
    <2>3. Active' = Active /\ Marking' = Marking
      BY <2>2, ActiveIs
    <2>4. Marking \in prog.markings
      BY <1>1, <1>3, <1>4 DEF ChartInv
    <2>5. ASSUME NEW t \in prog.flow, NEW k \in 2..Len(t.to) PROVE off' # Place(t, k)
      <3>1. off # Place(t, k) /\ off # Place(t, k - 1)
        BY <1>3, <1>4
      <3> QED BY <1>1, <3>1 DEF EntersChart
    <2>6. StepOn'
      BY <1>2, <2>3, StepBegins, StepKept
    <2> QED BY <1>1, <2>3, <2>4, <2>5, <2>6 DEF ChartInv
  <1>5. ASSUME NEW t \in prog.flow, NEW k \in 1..Len(t.to), off = Place(t, k)
        PROVE  ChartInv'
    <2>1. /\ stl.in_stl /\ {stl.sources[i] : i \in DOMAIN stl.sources} = t.from
          /\ t.to[k] \in States /\ SetsState(off, t.to[k]) /\ Len(t.to) \in Nat
      BY <1>1, <1>5, PlaceFacts DEF ChartFollowed
    <2>2. /\ result' = result /\ w.op # "STL"
          /\ off' # off /\ (w.op = "MISC" => off' = off + 2)
          /\ ~result => SameStates
          /\ result => Active' = Active \cup {t.to[k]}
          /\ result => stl'.reset_at_end = stl.reset_at_end \cup (t.from \cap States)
      BY <2>1, TransferStep
    <2>3. Active \subseteq Active' /\ ~Stl
      BY <2>2, ActiveIs DEF Stl, Decode
    <2>4. StepOn'
      BY <1>2, <2>3, StepKept
    <2>5. ASSUME NEW u \in prog.flow, NEW l \in 2..Len(u.to), off' = Place(u, l)
          PROVE  u = t /\ l = k + 1
      <3>1. off \in {Place(u, l), Place(u, l - 1)}
        BY <1>1, <2>5 DEF EntersChart
      <3>2. Place(t, k) = Place(u, l - 1) /\ l - 1 \in 1..Len(u.to)
        BY <1>3, <1>5, <2>2, <2>5, <3>1
      <3>3. t = u /\ k = l - 1
        BY <3>2, PlaceUnique
      <3> QED BY <1>3, <3>3
    <2>6. CASE ~result
      <3>1. Marking' = Marking
        BY <2>2, <2>6, ActiveIs
      <3>2. Marking \in prog.markings
        BY <1>1, <2>6 DEF ChartInv
      <3> QED BY <1>1, <2>2, <2>4, <2>6, <3>1, <3>2 DEF ChartInv
    <2>7. CASE result
      <3>1. PICK V \in prog.markings :
               /\ t.from \subseteq V /\ Marking \ t.from = (V \ t.from) \cup Reached(t, k - 1)
               /\ stl.reset_at_end \cap Reached(t, Len(t.to)) = {}
        BY <1>1, <1>5, <2>7, MidwayAt
      <3>2. /\ t.from \subseteq States /\ t.from \cap Reached(t, Len(t.to)) = {}
            /\ (V \ t.from) \cup Reached(t, Len(t.to)) \in prog.markings
        <4>1. TransitionWritten(t)
          BY PlaceFacts
        <4> QED BY <3>1, <4>1, Zenon DEF TransitionWritten
      <3>3. /\ Reached(t, k) = Reached(t, k - 1) \cup {t.to[k]}
            /\ t.to[k] \in Reached(t, Len(t.to))
        BY PlaceFacts
      <3>4. stl'.reset_at_end = stl.reset_at_end \cup t.from /\ Active' = Active \cup {t.to[k]}
        BY <2>2, <2>7, <3>2
      <3>5. Marking' = (V \ t.from) \cup Reached(t, k)
        <4>1. Marking' = (Marking \ t.from) \cup {t.to[k]}
          BY <3>1, <3>2, <3>3, <3>4 DEF Marking
        <4> QED BY <3>1, <3>3, <4>1
      <3>6. /\ t.from \subseteq stl'.reset_at_end
            /\ stl'.reset_at_end \cap Reached(t, Len(t.to)) = {}
        BY <3>1, <3>2, <3>4
      <3>7. Midway(t, k + 1)'
        <4>1. k + 1 - 1 = k
          BY <2>1
        <4> QED BY <1>1, <3>1, <3>5, <3>6, <4>1 DEF Midway
      <3>8. CASE k = Len(t.to)
        <4>1. Marking' \in prog.markings
          BY <3>2, <3>5, <3>8
        <4> QED BY <1>1, <2>4, <2>5, <3>7, <4>1 DEF ChartInv
      <3>9. CASE k # Len(t.to)
        <4>1. k + 1 \in 2..Len(t.to) /\ Len(t.to) > 1
          BY <2>1, <3>9
        <4>2. w.op = "MISC"
          <5>1. TransitionWritten(t)
            BY PlaceFacts
          <5> QED BY <1>5, <4>1, <5>1, Zenon DEF TransitionWritten, w
        <4>3. off' = Place(t, k + 1) /\ result'
          BY <1>5, <2>2, <2>7, <4>2, PlaceFacts
        <4> QED BY <1>1, <2>4, <2>5, <3>7, <4>1, <4>3 DEF ChartInv
      <3> QED BY <3>8, <3>9
    <2> QED BY <2>6, <2>7
  <1> QED BY <1>4, <1>5

\* Between scans: a scan begins with the marking it finds, and ends by resetting
\* what was queued.
LEMMA ChartBetween ==
    ASSUME ExecInv, ChartInv, ChartWritten,
           EndScan \/ Restart \/ \E inputs \in SUBSET Devices({"X"}) : BeginScan(inputs)
    PROVE  ChartInv' /\ prog' = prog
  <1>0. \A i \in States : <<"S", i>> \in BITS
    BY StateBits
  <1>1. CASE EndScan
    <2>1. /\ phase = "scan" /\ phase' = "idle" /\ first' = FALSE /\ prog' = prog
          /\ bits' = [q \in BITS |-> IF q[1] = "S" /\ q[2] \in stl.reset_at_end THEN FALSE ELSE bits[q]]
          /\ off > PROGRAM_WORDS \/ Is(w, "MISC", "END") \/ Is(w, "MISC", "FEND")
      BY <1>1 DEF EndScan, Leave, stl_finish_scan
    <2>2. Active' = Marking
      BY <1>0, <2>1 DEF Active, Marking, States
    <2>3. off \in Nat /\ PROGRAM_WORDS \in Nat
      BY ExecAssumption DEF ExecInv, RungInv
    <2>4. off \notin {1, 2}
      BY <2>1, <2>3 DEF ChartWritten, w, Is
    <2>5. ASSUME NEW t \in prog.flow, NEW k \in 2..Len(t.to) PROVE off # Place(t, k)
      <3>1. Len(t.to) \in Nat
        BY DEF ChartWritten, TransitionWritten
      <3>2. k \in 1..Len(t.to)
        BY <3>1
      <3>3. Place(t, k) <= PROGRAM_WORDS /\ Place(t, k) \in Nat /\ SetsState(Place(t, k), t.to[k])
        BY <3>2, PlaceFacts
      <3>4. SetsState(off, t.to[k]) => ~Is(w, "MISC", "END") /\ ~Is(w, "MISC", "FEND")
        BY DEF SetsState, Is, w
      <3> QED BY <2>1, <2>3, <3>3, <3>4
    <2>6. Marking \in prog.markings
      BY <2>1, <2>4, <2>5 DEF ChartInv
    <2> QED BY <2>1, <2>2, <2>6 DEF ChartInv
  <1>2. CASE Restart
    <2>1. /\ phase' = "idle" /\ first' = TRUE /\ prog' = prog
          /\ bits' = [q \in BITS |-> IF q[1] \in {"X", "MS"} \/ (q[1] = "C" /\ q[2] >= 100)
                                     THEN bits[q] ELSE FALSE]
      BY <1>2 DEF Restart
    <2>2. \A i \in States : bits'[<<"S", i>>] = FALSE
      BY <1>0, <2>1
    <2>3. Active' = {}
      BY <2>2 DEF Active, States
    <2> QED BY <2>1, <2>3 DEF ChartInv
  <1>3. ASSUME NEW inputs \in SUBSET Devices({"X"}), BeginScan(inputs)
        PROVE  ChartInv' /\ prog' = prog
    <2>1. /\ phase = "idle" /\ phase' = "scan" /\ first' = first /\ prog' = prog /\ off' = 1
          /\ stl' = NoStl
          /\ bits' = [q \in BITS |-> CASE q[1] = "X" -> q \in inputs
                                       [] q = <<"MS", 0>> -> TRUE
                                       [] q = <<"MS", 2>> -> first
                                       [] OTHER -> bits[q]]
      BY <1>3 DEF BeginScan
    <2>a. ASSUME NEW q \in BITS
          PROVE  bits'[q] = CASE q[1] = "X" -> q \in inputs
                              [] q = <<"MS", 0>> -> TRUE
                              [] q = <<"MS", 2>> -> first
                              [] OTHER -> bits[q]
      BY <2>1, Zenon
    <2>2. bits'[<<"MS", 2>>] = first
      <3> DEFINE q == <<"MS", 2>>
      <3>1. q \in BITS /\ q[1] # "X" /\ q # <<"MS", 0>>
        BY DEF ChartWritten
      <3>2. first \in BOOLEAN
        BY DEF ExecInv, FixedInv
      <3>3. (CASE q[1] = "X" -> q \in inputs [] q = <<"MS", 0>> -> TRUE
               [] q = <<"MS", 2>> -> first [] OTHER -> bits[q]) = first
        BY <3>1, Zenon
      <3> QED BY <2>a, <3>1, <3>3, Zenon
    <2>3. ASSUME NEW i \in States PROVE bits'[<<"S", i>>] = bits[<<"S", i>>]
      <3> DEFINE q == <<"S", i>>
      <3>1. q \in BITS /\ q[1] # "X" /\ q # <<"MS", 0>> /\ q # <<"MS", 2>>
        BY <1>0
      <3> HIDE DEF q
      <3>2. bits'[q] = bits[q]
        BY <2>a, <3>1, Zenon
      <3> QED BY <3>2 DEF q
    <2>4. Active' = Active
      BY <2>3 DEF Active, States
    <2>5. IF first THEN Active = {} ELSE Active \in prog.markings
      BY <2>1 DEF ChartInv
    <2>6. \A t \in prog.flow : \A k \in 2..Len(t.to) : off' # Place(t, k)
      <3> TAKE t \in prog.flow
      <3> TAKE k \in 2..Len(t.to)
      <3>1. Len(t.to) \in Nat
        BY DEF ChartWritten, TransitionWritten
      <3>2. k \in 1..Len(t.to)
        BY <3>1
      <3>3. Place(t, k) \in Nat /\ Place(t, k) >= 4
        BY <3>2, PlaceFacts
      <3>4. off' = 1
        BY <2>1
      <3> QED BY <3>3, <3>4
    <2>7. ~stl'.in_stl /\ stl'.reset_at_end = {}
      BY <2>1 DEF NoStl
    <2>8. phase' = "scan" /\ first' = first /\ prog' = prog /\ off' = 1
      BY <2>1
    <2> QED BY <2>2, <2>4, <2>5, <2>6, <2>7, <2>8 DEF ChartInv, StepOn
  <1> QED BY <1>1, <1>2, <1>3

\* Between scans the active steps of a chart are a legal marking: no transition,
\* fork or merge loses or doubles the token, in whatever order the steps stand in
\* the program and however many transitions one scan takes, in every program whose
\* transitions are written as a chart's and are not taken through a state that the
\* same scan has left.
THEOREM MarkingsLegal ==
    Spec /\ []StepsGated /\ []StepsClosed /\ ChartWritten /\ []ChartFollowed /\ ChartEntered
        => []LegalMarking
  <1>1. Init => GateInv /\ ChartInv
    <2> SUFFICES ASSUME Init PROVE GateInv /\ ChartInv
      OBVIOUS
    <2>1. phase = "idle" /\ first /\ bits = [q \in BITS |-> FALSE]
      BY DEF Init
    <2>2. Active = {}
      BY <2>1, StateBits DEF Active
    <2> QED BY <2>1, <2>2 DEF GateInv, Inactive, ChartInv
  <1>2. ExecInv /\ GateInv /\ StepsGated /\ StepsClosed /\ [Next]_vars => GateInv'
    BY GateStep
  <1>3. ASSUME ExecInv, GateInv, ChartInv, ChartWritten, ChartFollowed, [Next]_vars, [EntersChart]_vars
        PROVE  ChartInv' /\ ChartWritten'
    <2>1. CASE UNCHANGED vars
      <3>1. UNCHANGED <<prog, phase, first, bits, off, result, stl>>
        BY <2>1 DEF vars, fixed, mem
      <3>2. ChartInv'
        BY <1>3, <3>1 DEF ChartInv, Active, Marking, StepOn, Midway, States
      <3> QED BY <1>3, <3>1, <3>2, SameChart
    <2>2. CASE vars' # vars
      <3>1. Next /\ EntersChart
        BY <1>3, <2>2
      <3>2. CASE Instruction
        <4>1. prog' = prog
          BY <3>2, Executes DEF fixed
        <4> QED BY <1>3, <3>1, <3>2, <4>1, FirstRung, ChartStep, SameChart
      <3>3. CASE EndScan \/ Restart \/ \E inputs \in SUBSET Devices({"X"}) : BeginScan(inputs)
        BY <1>3, <3>3, ChartBetween, SameChart
      <3> QED BY <3>1, <3>2, <3>3 DEF Next
    <2> QED BY <2>1, <2>2
  <1>4. ChartInv => LegalMarking
    BY DEF ChartInv, LegalMarking, Active
  <1>5. ChartEntered <=> [][EntersChart]_vars
    BY PTL DEF ChartEntered, EntersChart
  <1> QED BY <1>1, <1>2, <1>3, <1>4, <1>5, ExecAlways, PTL DEF Spec

==============================================================================
