------------------------------- MODULE PlcExec -------------------------------
(***************************************************************************)
(* The bytecode interpreter of plc_exec.c: one plc_exec_scan per scan, one *)
(* step of the specification per instruction it decodes.                   *)
(*                                                                         *)
(* A 16-bit program word is a record [op, dev, n].  Op nibble 8 is shared, *)
(* in the code as here, by pulse coils and by the typed operands of        *)
(* applied instructions: 0x84 is both "PLS X" and a bit operand, 0x86 both *)
(* "PLS T" and a D operand, 0x88 both "PLS M" and a pointer, 0x82 both     *)
(* "PLS S512" and a constant; opcode 0x80 exactly is op "CONST".  So an    *)
(* operand that is not consumed by its instruction decodes as something.   *)
(*                                                                         *)
(* What the timer and counter files do with OUT T and OUT C is PlcScan's   *)
(* subject; here only their contacts exist, and a driven one may close.    *)
(***************************************************************************)
EXTENDS Integers, Sequences, FiniteSets

CONSTANTS
    PROGRAMS,          \* the downloaded programs considered: code, and its intent
    PROGRAM_WORDS,     \* words of code memory (16000 steps in the code)
    BITS,              \* the bit devices <<dev, n>> that exist
    NUM_D,             \* PLC_NUM_D, 8000 in the code
    WORD,              \* 2^16: registers are uint16_t
    BRANCH_DEPTH,      \* 16
    BLOCK_DEPTH,       \* 16
    CALL_STACK_DEPTH,  \* 8
    STL_MAX_SOURCES    \* 8

\* The encoding, by the names of its nibbles and words: op is the operation
\* ("LD", "MISC", "STACK", "OUT_T", ...), dev the device or the member of the
\* group ("X", "CALL", "ORB", the relation of a comparison), n the number.
WordType == [op : STRING, dev : STRING, n : Nat]

ASSUME ExecAssumption ==
    /\ PROGRAM_WORDS \in Nat /\ NUM_D \in Nat \ {0} /\ WORD \in Nat \ {0}
    /\ BRANCH_DEPTH \in Nat /\ BLOCK_DEPTH \in Nat
    /\ CALL_STACK_DEPTH \in Nat /\ STL_MAX_SOURCES \in Nat \ {0}
    /\ \A p \in PROGRAMS : p.code \in Seq(WordType)
ASSUME DeviceAssumption == BITS \subseteq STRING \X Nat

VARIABLES
    prog,       \* the downloaded program: its code, and of its intent the heads of
                \* its instructions, its pulse rungs, and of a chart the
                \* transitions (flow) and the markings they may lead to
    phase,      \* "idle" between scans, "scan" inside plc_exec_scan
    first,      \* plc_scan_is_first()
    bits, d,    \* plc_mem: bit devices and data registers
    pulse_prev, \* steps whose rung was true when last executed
    unknown,    \* unknown_count # 0: some instruction was rejected this scan
    \* The locals of plc_exec_scan.
    off, result, pulse_pending, stl, branch, block, call_return, output_just_executed,
    \* Auxiliary: the block stack if it had no limit, the inputs of the scan
    \* before this one (all off if there was none since RUN began), and the steps
    \* of the pulse coils executed in this scan.
    full, before, pulsed

mem == <<bits, d>>
stacks == <<branch, block, full>>
fixed == <<prog, phase, first, before>>
vars == <<fixed, mem, pulse_prev, unknown, off, result, pulse_pending, stl, stacks,
          call_return, output_just_executed, pulsed>>

States == {q[2] : q \in {b \in BITS : b[1] = "S"}}
Devices(kinds) == {b \in BITS : b[1] \in kinds}

BLANK == [op |-> "BLANK", dev |-> "-", n |-> 255]

NoStl == [in_stl |-> FALSE, accepting_sources |-> FALSE, step_gate |-> FALSE,
          sources |-> <<>>, reset_at_end |-> {}]

(***************************************************************************)
(* Memory and operands                                                     *)
(***************************************************************************)

\* Past the end of the download, memory reads as erased.
fetch(i) == IF i \in DOMAIN prog.code THEN prog.code[i] ELSE BLANK

read_bit(dev, n) == <<dev, n>> \in BITS /\ bits[<<dev, n>>]

\* Timer and counter contacts are not writable, and an index out of range is
\* ignored.
write_bits(writes) ==
    [q \in BITS |-> IF q \in DOMAIN writes /\ q[1] \in {"X", "Y", "M", "S", "MS"}
                    THEN writes[q] ELSE bits[q]]
write_bit(dev, n, v) == write_bits([q \in {<<dev, n>>} |-> v])

get_d(i) == IF i < NUM_D THEN d[i] ELSE 0
set_d(i, v) == IF i < NUM_D THEN [d EXCEPT ![i] = v % WORD] ELSE d

Is(word, op, dev) == word.op = op /\ word.dev = dev
Raw(i) == fetch(i).n + 256 * fetch(i + 1).n

\* Mutant of read_word_operand: a D operand is not recognised.
read_word_operand_constants(i) == fetch(i).op = "CONST"

\* The operand pair at words i and i + 1: is it one that read_word_operand
\* (and fetch_word_value), word_operand_register or read_bit_operand takes?
\* The timer-current operand (a D operand whose second word is 0x82) is left
\* out: no program here uses it.
read_word_operand(i) ==
    \/ Is(fetch(i), "PLS", "T")
    \/ Is(fetch(i), "PLS", "S")
    \/ fetch(i).op = "CONST"
WordValue(i) == IF Is(fetch(i), "PLS", "T") THEN get_d(Raw(i) \div 2) ELSE Raw(i)

word_operand_register(i) ==
    /\ Is(fetch(i), "PLS", "T")
    /\ Is(fetch(i + 1), "PLS", "T") \/ fetch(i + 1).op = "CONST"
    /\ Raw(i) % 2 = 0
    /\ Raw(i) \div 2 < NUM_D

read_bit_operand(i) ==
    /\ Is(fetch(i), "PLS", "X")
    /\ fetch(i + 1).op = "CONST" \/ Is(fetch(i + 1), "PLS", "M")

\* The device nibble carried by the second word of a bit operand.
Device(nibble) ==
    CASE nibble = 0 -> "S" [] nibble = 4 -> "X" [] nibble = 5 -> "Y" [] nibble = 6 -> "T"
      [] nibble = 8 -> "M" [] nibble = 14 -> "C" [] nibble = 15 -> "MS" [] OTHER -> "none"

\* The first word after the marker of subroutine p, or 0 if there is none.
find_subroutine(p) ==
    LET at == {i \in DOMAIN prog.code : Is(fetch(i), "P", "-") /\ fetch(i).n = p}
    IN  IF at = {} THEN 0 ELSE 1 + CHOOSE i \in at : \A j \in at : i <= j

(***************************************************************************)
(* The scan                                                                *)
(***************************************************************************)

w == fetch(off)
Running == phase = "scan" /\ off <= PROGRAM_WORDS

\* What the head of the loop does for every word that is not blank.
Decode(ops) ==
    /\ Running
    /\ w.op \in ops
    /\ output_just_executed' = (w.op = "OUT")
    /\ UNCHANGED fixed
Misc(names) == Decode({"MISC"}) /\ w.dev \in names

LeaveSources == stl' = [stl EXCEPT !.accepting_sources = FALSE]
Goto(i) == off' = i /\ LeaveSources
bad_instruction == unknown' = TRUE
accepted == UNCHANGED unknown

keep_rung == UNCHANGED <<result, pulse_pending, pulse_prev, pulsed, stacks, call_return>>

\* Mutant of discard_blocks: a coil leaves the block stack as it is.
discard_blocks_never == UNCHANGED block
\* block_sp = 0 after a coil.
discard_blocks == block' = <<>>
EndRung == discard_blocks /\ full' = <<>> /\ UNCHANGED branch

\* Mutant of forget_pulses: edge memory survives STOP -> RUN.
forget_pulses_never == UNCHANGED pulse_prev
forget_pulses == pulse_prev' = IF first THEN {} ELSE pulse_prev

Init ==
    /\ prog \in PROGRAMS
    /\ phase = "idle" /\ first = TRUE
    /\ bits = [q \in BITS |-> FALSE] /\ d = [i \in 0..(NUM_D - 1) |-> 0]
    /\ pulse_prev = {} /\ unknown = FALSE
    /\ off = 1 /\ result = FALSE /\ pulse_pending = "none" /\ stl = NoStl
    /\ branch = <<>> /\ block = <<>> /\ call_return = <<>> /\ output_just_executed = FALSE
    /\ full = <<>> /\ before = {} /\ pulsed = {}

\* plc_scan_begin has sampled the inputs and set M8000 and M8002; then the
\* prologue of plc_exec_scan.
BeginScan(inputs) ==
    /\ phase = "idle"
    /\ phase' = "scan"
    /\ bits' = [q \in BITS |-> CASE q[1] = "X" -> q \in inputs
                                 [] q = <<"MS", 0>> -> TRUE
                                 [] q = <<"MS", 2>> -> first
                                 [] OTHER -> bits[q]]
    /\ before' = IF first THEN {} ELSE {q \in Devices({"X"}) : bits[q]}
    /\ forget_pulses /\ pulsed' = {}
    /\ unknown' = FALSE
    /\ off' = 1 /\ result' = FALSE /\ pulse_pending' = "none" /\ stl' = NoStl
    /\ branch' = <<>> /\ block' = <<>> /\ full' = <<>> /\ call_return' = <<>>
    /\ output_just_executed' = FALSE
    /\ UNCHANGED <<prog, first, d>>

\* The sources of the transfers of this scan go off.
stl_finish_scan ==
    bits' = [q \in BITS |-> IF q[1] = "S" /\ q[2] \in stl.reset_at_end THEN FALSE ELSE bits[q]]

Leave ==
    /\ stl_finish_scan
    /\ phase' = "idle"
    /\ first' = FALSE
    /\ UNCHANGED <<prog, before, d, pulse_prev, pulsed, unknown, off, result, pulse_pending, stl,
                   stacks, call_return, output_just_executed>>

\* END, FEND, or code memory exhausted: the same finalisation.
EndScan ==
    /\ phase = "scan"
    /\ off > PROGRAM_WORDS \/ Is(w, "MISC", "END") \/ Is(w, "MISC", "FEND")
    /\ Leave

Blank ==
    /\ Running /\ w.op = "BLANK"
    /\ off' = off + 1
    /\ UNCHANGED <<fixed, mem, unknown, stl, output_just_executed>>
    /\ keep_rung

\* OUT T and OUT C with their preset.  A driven contact may close; an idle
\* non-retentive timer's opens.
OutPreset ==
    /\ Decode({"OUT_T", "OUT_C"})
    /\ Goto(off + 3)
    /\ UNCHANGED <<d, result, pulse_pending, pulse_prev, pulsed, call_return>>
    /\ LET q == <<IF w.op = "OUT_T" THEN "T" ELSE "C", w.n>>
       IN  IF read_word_operand(off + 1)
           THEN /\ accepted /\ EndRung
                /\ \E closed \in IF result THEN BOOLEAN ELSE {FALSE} :
                     bits' = [b \in BITS |-> IF b # q THEN bits[b]
                                             ELSE IF result THEN bits[b] \/ closed
                                             ELSE w.op = "OUT_C" /\ bits[b]]
           ELSE bad_instruction /\ UNCHANGED <<bits, stacks>>

(***************************************************************************)
(* Subroutines                                                             *)
(***************************************************************************)

\* Mutant of call_fits: no check of the call stack.
call_fits_unchecked(enabled) == TRUE
call_fits(enabled) == ~(enabled /\ Len(call_return) >= CALL_STACK_DEPTH)

\* A CALL right after an OUT, or inside STL, runs whatever the rung says.
Call ==
    /\ Misc({"CALL"})
    /\ LET valid == Is(fetch(off + 1), "PLS", "M") /\ fetch(off + 2).op = "CONST"
                      /\ fetch(off + 1).n % 2 = 0
           target == IF valid THEN find_subroutine(fetch(off + 1).n \div 2) ELSE 0
           enabled == result \/ output_just_executed \/ stl.in_stl
       IN  IF target = 0 \/ ~call_fits(enabled)
           THEN bad_instruction /\ Goto(off + 3) /\ UNCHANGED call_return
           ELSE /\ accepted
                /\ Goto(IF enabled THEN target ELSE off + 3)
                /\ call_return' = IF enabled THEN Append(call_return, off + 3) ELSE call_return
    /\ UNCHANGED <<mem, result, pulse_pending, pulse_prev, pulsed, stacks>>

\* Mutant of pop_call: the return address is used but stays on the stack.
pop_call_peek == UNCHANGED call_return
pop_call == call_return' = SubSeq(call_return, 1, Len(call_return) - 1)

Sret ==
    /\ Misc({"SRET"})
    /\ IF call_return # <<>>
       THEN accepted /\ Goto(call_return[Len(call_return)]) /\ pop_call
       ELSE bad_instruction /\ Goto(off + 1) /\ UNCHANGED call_return
    /\ UNCHANGED <<mem, result, pulse_pending, pulse_prev, pulsed, stacks>>

(***************************************************************************)
(* Contacts, blocks and branches                                           *)
(***************************************************************************)

\* The bus a contact hangs on: the step's inside STL, the left rail outside.
Bus == ~stl.in_stl \/ stl.step_gate

\* Mutant of power: inside a step, a contact is taken from the left rail.
power_ungated(closed) == closed
\* What LD, LDI, OR and ORI see of a contact.
power(closed) == Bus /\ closed

Push(stack, depth, v) == IF Len(stack) < depth THEN Append(stack, v) ELSE stack

Contact ==
    /\ Decode({"LD", "LDI", "AND", "ANI", "OR", "ORI"})
    /\ Goto(off + 1)
    /\ LET closed == read_bit(w.dev, w.n) = (w.op \in {"LD", "AND", "OR"})
       IN  CASE w.op \in {"LD", "LDI"} -> /\ result' = power(closed)
                                          /\ block' = Push(block, BLOCK_DEPTH, result)
                                          /\ full' = Append(full, result)
             [] w.op \in {"AND", "ANI"} -> result' = (result /\ closed) /\ UNCHANGED <<block, full>>
             [] OTHER -> result' = (result \/ power(closed)) /\ UNCHANGED <<block, full>>
    /\ accepted
    /\ UNCHANGED <<mem, pulse_pending, pulse_prev, pulsed, branch, call_return>>

Pop(stack) == IF stack = <<>> THEN <<>> ELSE SubSeq(stack, 1, Len(stack) - 1)
Top(stack, default) == IF stack = <<>> THEN default ELSE stack[Len(stack)]

MpsMrdMpp ==
    /\ Decode({"STACK"}) /\ w.dev \in {"MPS", "MRD", "MPP"}
    /\ Goto(off + 1)
    /\ branch' = CASE w.dev = "MPS" -> Push(branch, BRANCH_DEPTH, result)
                   [] w.dev = "MRD" -> branch
                   [] w.dev = "MPP" -> Pop(branch)
    /\ result' = IF w.dev = "MPS" THEN result ELSE Top(branch, result)
    /\ accepted
    /\ UNCHANGED <<mem, pulse_pending, pulse_prev, pulsed, block, full, call_return>>

AnbOrb ==
    /\ Decode({"STACK"}) /\ w.dev \in {"ANB", "ORB"}
    /\ Goto(off + 1)
    /\ block' = Pop(block) /\ full' = Pop(full)
    /\ result' = IF w.dev = "ANB" THEN Top(block, TRUE) /\ result
                                  ELSE Top(block, FALSE) \/ result
    /\ accepted
    /\ UNCHANGED <<mem, pulse_pending, pulse_prev, pulsed, branch, call_return>>

\* Comparison contacts.  They neither push a block nor look at the step gate.
comparison_result(relation, a, b) ==
    CASE relation = "EQ" -> a = b [] relation = "GT" -> a > b [] relation = "LT" -> a < b
      [] relation = "NE" -> a # b [] relation = "LE" -> a <= b [] relation = "GE" -> a >= b
      [] OTHER -> FALSE

Signed(v) == IF v >= WORD \div 2 THEN v - WORD ELSE v

InlineComparison ==
    /\ Decode({"LD_CMP", "AND_CMP", "OR_CMP"})
    /\ Goto(off + 5)
    /\ IF read_word_operand(off + 1) /\ read_word_operand(off + 3)
       THEN LET closed == comparison_result(w.dev, Signed(WordValue(off + 1)),
                                                   Signed(WordValue(off + 3)))
            IN  /\ accepted
                /\ result' = CASE w.op = "LD_CMP" -> closed
                               [] w.op = "AND_CMP" -> result /\ closed
                               [] w.op = "OR_CMP" -> result \/ closed
       ELSE bad_instruction /\ result' = FALSE
    /\ UNCHANGED <<mem, pulse_pending, pulse_prev, pulsed, stacks, call_return>>

OutCEnable ==
    /\ Decode({"OUT_C_ENABLE"})
    /\ Goto(off + 2)
    /\ IF Is(fetch(off + 1), "PLS", "X")
       THEN accepted /\ result' = read_bit("X", fetch(off + 1).n)
       ELSE bad_instruction /\ result' = FALSE
    /\ UNCHANGED <<mem, pulse_pending, pulse_prev, pulsed, stacks, call_return>>

(***************************************************************************)
(* STL                                                                     *)
(***************************************************************************)

\* Consecutive STL instructions merge: the gate is the AND of their states.
stl_begin_step(state, merge) ==
    LET sources == IF merge THEN stl.sources ELSE <<>>
        gate == IF merge THEN stl.step_gate ELSE TRUE
    IN  [in_stl |-> TRUE, accepting_sources |-> TRUE,
         step_gate |-> gate /\ read_bit("S", state),
         sources |-> Push(sources, STL_MAX_SOURCES, state),
         reset_at_end |-> stl.reset_at_end]

Stl ==
    /\ Decode({"STL"})
    /\ off' = off + 1
    /\ LET merge == stl.in_stl /\ stl.accepting_sources
       IN  /\ stl' = stl_begin_step(w.n, merge)
           /\ IF merge /\ Len(stl.sources) >= STL_MAX_SOURCES THEN bad_instruction ELSE accepted
    /\ result' = stl'.step_gate
    /\ UNCHANGED <<mem, pulse_pending, pulse_prev, pulsed, stacks, call_return>>

Ret ==
    /\ Decode({"RET"})
    /\ off' = off + 1
    /\ stl' = [stl EXCEPT !.in_stl = FALSE, !.accepting_sources = FALSE,
                          !.sources = <<>>, !.step_gate = TRUE]
    /\ result' = FALSE
    /\ accepted
    /\ UNCHANGED <<mem, pulse_pending, pulse_prev, pulsed, stacks, call_return>>

\* Mutant of stl_queue_transfer: a merge resets only its first source.
stl_queue_transfer_first ==
    [stl EXCEPT !.accepting_sources = FALSE, !.reset_at_end = @ \cup ({stl.sources[1]} \cap States)]

\* Every current source is reset when the scan ends.
stl_queue_transfer ==
    [stl EXCEPT !.accepting_sources = FALSE,
                !.reset_at_end = @ \cup ({stl.sources[i] : i \in DOMAIN stl.sources} \cap States)]

Transfer(happens) ==
    IF happens /\ stl.in_stl THEN stl' = stl_queue_transfer ELSE LeaveSources

\* MISC_SET_S, MISC_RST_S and MISC_OUT_S: the state number is the next word.
SetRstOutS ==
    /\ Misc({"SET_S", "RST_S", "OUT_S"})
    /\ off' = off + 2
    /\ bits' = IF w.dev = "OUT_S" THEN write_bit("S", fetch(off + 1).n, result)
               ELSE IF result THEN write_bit("S", fetch(off + 1).n, w.dev = "SET_S") ELSE bits
    /\ Transfer(result /\ w.dev = "SET_S")
    /\ accepted
    /\ UNCHANGED d /\ keep_rung

(***************************************************************************)
(* Coils                                                                   *)
(***************************************************************************)

\* OUT of a state inside STL is a transfer, not an ordinary coil.
Out ==
    /\ Decode({"OUT"})
    /\ off' = off + 1
    /\ bits' = IF stl.in_stl /\ w.dev = "S" /\ ~result THEN bits ELSE write_bit(w.dev, w.n, result)
    /\ Transfer(result /\ w.dev = "S")
    /\ EndRung /\ accepted
    /\ UNCHANGED <<d, result, pulse_pending, pulse_prev, pulsed, call_return>>

Set ==
    /\ Decode({"SET"})
    /\ off' = off + 1
    /\ bits' = IF result THEN write_bit(w.dev, w.n, TRUE) ELSE bits
    /\ Transfer(result /\ w.dev = "S")
    /\ EndRung /\ accepted
    /\ UNCHANGED <<d, result, pulse_pending, pulse_prev, pulsed, call_return>>

\* plc_timer_reset and plc_counter_reset open the contact.
OpenContact(dev, n) == [q \in BITS |-> IF q = <<dev, n>> THEN FALSE ELSE bits[q]]

Rst ==
    /\ Decode({"RST"})
    /\ Goto(off + 1)
    /\ bits' = IF ~result THEN bits ELSE IF w.dev \in {"T", "C"} THEN OpenContact(w.dev, w.n)
               ELSE write_bit(w.dev, w.n, FALSE)
    /\ EndRung /\ accepted
    /\ UNCHANGED <<d, result, pulse_pending, pulse_prev, pulsed, call_return>>

\* MISC_RST_C: the counter (0x8E) or timer (0x86) is the next word.
RstC ==
    /\ Misc({"RST_C"})
    /\ Goto(off + 2)
    /\ LET target == fetch(off + 1)
           known == target.op = "PLS" /\ target.dev \in {"C", "T"}
       IN  /\ bits' = IF known /\ result THEN OpenContact(target.dev, target.n) ELSE bits
           /\ IF known THEN accepted ELSE bad_instruction
    /\ UNCHANGED d /\ keep_rung

\* A prefix only counts when a device word follows it.
PulsePrefix ==
    /\ Misc({"PLS", "PLF"})
    /\ Goto(off + 1)
    /\ IF fetch(off + 1).op = "PLS"
       THEN accepted /\ pulse_pending' = w.dev
       ELSE bad_instruction /\ UNCHANGED pulse_pending
    /\ UNCHANGED <<mem, result, pulse_prev, pulsed, stacks, call_return>>

pulse_edge(step, rung, falling) ==
    LET previous == step \in pulse_prev
    IN  IF falling THEN previous /\ ~rung ELSE rung /\ ~previous

\* A word of op nibble 8: a pulse coil after its prefix, noise otherwise.
Pls ==
    /\ Decode({"PLS"})
    /\ Goto(off + 1)
    /\ pulse_pending' = "none"
    /\ IF pulse_pending # "none"
       THEN /\ bits' = write_bit(w.dev, w.n, pulse_edge(off, result, pulse_pending = "PLF"))
            /\ pulse_prev' = IF result THEN pulse_prev \cup {off} ELSE pulse_prev \ {off}
            /\ pulsed' = pulsed \cup {off}
            /\ accepted
       ELSE bad_instruction /\ UNCHANGED <<bits, pulse_prev, pulsed>>
    /\ EndRung
    /\ UNCHANGED <<d, result, call_return>>

(***************************************************************************)
(* Applied instructions                                                    *)
(***************************************************************************)

\* ZRST reads its two bit operands without read_bit_operand's variants.
Zrst ==
    /\ Misc({"ZRST"})
    /\ Goto(off + 5)
    /\ LET lo == fetch(off + 1).n
           hi == fetch(off + 3).n
           dev == Device(fetch(off + 2).n)
       IN  IF /\ Is(fetch(off + 1), "PLS", "X") /\ Is(fetch(off + 3), "PLS", "X")
              /\ fetch(off + 2).op = "CONST" /\ fetch(off + 4) = fetch(off + 2)
           THEN accepted /\ bits' = IF result THEN write_bits([q \in {dev} \X (lo..hi) |-> FALSE])
                                    ELSE bits
           ELSE bad_instruction /\ UNCHANGED bits
    /\ UNCHANGED d /\ keep_rung

\* MOV of a 16-bit packed word or of a register; the destination decides, and
\* one that is neither is silently ignored.
Mov ==
    /\ Misc({"MOV"})
    /\ Goto(off + 5)
    /\ accepted
    /\ LET packed == read_bit_operand(off + 1) /\ read_bit_operand(off + 3)
           src == Device(fetch(off + 2).n)
           dst == Device(fetch(off + 4).n)
           from == fetch(off + 1).n
           to == fetch(off + 3).n
       IN  /\ bits' = IF packed /\ result
                      THEN write_bits([q \in {<<dst, (to + i) % 256>> : i \in 0..15} |->
                                         read_bit(src, (from + ((q[2] - to) % 256)) % 256)])
                      ELSE bits
           /\ d' = IF ~packed /\ result /\ Is(fetch(off + 3), "PLS", "T")
                   THEN set_d(Raw(off + 3) \div 2, WordValue(off + 1)) ELSE d
    /\ keep_rung

\* The operands of the applied instructions modelled, in the order in which
\* execute_applied fetches them.
OperandKinds ==
    [CMP |-> <<"value", "value", "bit">>, ADD |-> <<"value", "value", "register">>,
     SUB |-> <<"value", "value", "register">>, INC |-> <<"register">>, DEC |-> <<"register">>]

OperandOk(kind, i) ==
    CASE kind = "value" -> read_word_operand(i)
      [] kind = "register" -> word_operand_register(i)
      [] kind = "bit" -> read_bit_operand(i)

CmpWrites(a, b, i) ==
    LET dev == Device(fetch(i + 1).n)
        n == fetch(i).n
    IN  [q \in {<<dev, n>>, <<dev, n + 1>>, <<dev, n + 2>>} |->
            comparison_result(<<"GT", "EQ", "LT">>[q[2] - n + 1], Signed(a), Signed(b))]

\* The fetches are joined by &&: at the first operand that is not of its kind
\* the others are not fetched, and off stays in front of them.
execute_applied ==
    /\ Misc(DOMAIN OperandKinds)
    /\ LET kinds == OperandKinds[w.dev]
           at(k) == off + 1 + 2 * (k - 1)
           wrong == {k \in DOMAIN kinds : ~OperandOk(kinds[k], at(k))}
           last == at(Len(kinds))
           valid == wrong = {} /\ (w.dev = "CMP" => fetch(last).n <= 253)
           a == WordValue(at(1))
           b == WordValue(at(2))
           reg == Raw(last) \div 2
       IN  /\ Goto(IF wrong = {} THEN last + 2
                   ELSE 2 + at(CHOOSE k \in wrong : \A j \in wrong : k <= j))
           /\ IF valid THEN accepted ELSE bad_instruction
           /\ bits' = IF valid /\ result /\ w.dev = "CMP"
                      THEN write_bits(CmpWrites(a, b, last)) ELSE bits
           /\ d' = IF valid /\ result /\ w.dev # "CMP"
                   THEN set_d(reg, CASE w.dev = "ADD" -> a + b [] w.dev = "SUB" -> a - b
                                     [] w.dev = "INC" -> get_d(reg) + 1
                                     [] w.dev = "DEC" -> get_d(reg) - 1)
                   ELSE d
    /\ keep_rung

\* A stray constant is skipped; anything else is counted as unknown.
Other ==
    /\ Decode({"CONST", "P", "BAD", "MISC", "STACK"})
    /\ w.op \in {"MISC", "STACK"} => w.dev = "BAD"
    /\ Goto(off + 1)
    /\ IF w.op = "CONST" THEN accepted ELSE bad_instruction
    /\ UNCHANGED mem /\ keep_rung

(***************************************************************************)
(* Specification                                                           *)
(***************************************************************************)

Instruction ==
    \/ Blank \/ OutPreset \/ Call \/ Sret \/ Contact \/ MpsMrdMpp \/ AnbOrb
    \/ InlineComparison \/ OutCEnable \/ Stl \/ Ret \/ SetRstOutS \/ Out \/ Set \/ Rst
    \/ RstC \/ PulsePrefix \/ Pls \/ Zrst \/ Mov \/ execute_applied \/ Other

\* STOP and back to RUN between two scans: plc_memory_reset_nonretentive.
\* The inputs, the special relays and the retentive counters keep their value.
Restart ==
    /\ phase = "idle"
    /\ bits' = [q \in BITS |-> IF q[1] \in {"X", "MS"} \/ (q[1] = "C" /\ q[2] >= 100)
                               THEN bits[q] ELSE FALSE]
    /\ d' = [i \in 0..(NUM_D - 1) |-> 0]
    /\ first' = TRUE
    /\ UNCHANGED <<prog, phase, before, pulse_prev, pulsed, unknown, off, result, pulse_pending, stl,
                   stacks, call_return, output_just_executed>>

Next ==
    \/ \E inputs \in SUBSET Devices({"X"}) : BeginScan(inputs)
    \/ Instruction
    \/ EndScan
    \/ Restart

Spec == Init /\ [][Next]_vars

\* plc_exec_scan runs to completion in the one thread of the firmware.
FairSpec == Spec /\ WF_vars(Instruction \/ EndScan)

(***************************************************************************)
(* Properties                                                              *)
(***************************************************************************)

StlType ==
    [in_stl : BOOLEAN, accepting_sources : BOOLEAN, step_gate : BOOLEAN,
     sources : Seq(Nat), reset_at_end : SUBSET States]

\* Every variable has its type, and the four fixed-size arrays of
\* plc_exec_scan are never indexed past their end.
TypeOK ==
    /\ prog.code \in Seq(WordType)
    /\ phase \in {"idle", "scan"} /\ first \in BOOLEAN
    /\ bits \in [BITS -> BOOLEAN] /\ d \in [0..(NUM_D - 1) -> 0..(WORD - 1)]
    /\ pulse_prev \subseteq 1..PROGRAM_WORDS /\ unknown \in BOOLEAN
    /\ off \in Nat /\ result \in BOOLEAN /\ pulse_pending \in {"none", "PLS", "PLF"}
    /\ stl \in StlType /\ Len(stl.sources) <= STL_MAX_SOURCES
    /\ branch \in Seq(BOOLEAN) /\ Len(branch) <= BRANCH_DEPTH
    /\ block \in Seq(BOOLEAN) /\ Len(block) <= BLOCK_DEPTH
    /\ call_return \in Seq(1..(PROGRAM_WORDS + 3)) /\ Len(call_return) <= CALL_STACK_DEPTH
    /\ output_just_executed \in BOOLEAN
    /\ full \in Seq(BOOLEAN) /\ before \subseteq Devices({"X"})
    /\ pulsed \subseteq 1..PROGRAM_WORDS

\* An operand word is never decoded as an instruction, not even when the
\* instruction it belongs to is malformed (the comment on ZRST).
OperandsNotExecuted ==
    Running /\ off \in DOMAIN prog.code => off \in prog.heads

\* ANB and ORB combine with the result of the rung that preceded the last LD
\* still open, however many rungs were executed before.
BlockTop ==
    Running /\ w.op = "STACK" /\ w.dev \in {"ANB", "ORB"} /\ full # <<>> =>
        block # <<>> /\ Top(block, FALSE) = Top(full, FALSE)

\* Between scans a pulse coil is on exactly if this scan was the edge of its
\* rung: the input against its value in the scan before, off before the first
\* scan of a stay in RUN (pulse_edge and the reset of pulse_prev).
PulseExact ==
    phase = "idle" /\ ~first =>
        \A p \in prog.pulses :
            bits[p.coil] = IF p.kind = "PLS" THEN bits[p.rung] /\ p.rung \notin before
                           ELSE ~bits[p.rung] /\ p.rung \in before

\* Between scans the active states are one of the flow's legal markings: a
\* transfer neither loses nor duplicates the active step, a merge consumes
\* all its sources.
LegalMarking ==
    phase = "idle" /\ ~first => {i \in States : bits[<<"S", i>>]} \in prog.markings

\* While a step is inactive no instruction of it switches a device on, writes
\* a register or takes a transition.
InactiveIsolation ==
    [][phase = "scan" /\ stl.in_stl /\ ~stl.step_gate =>
         /\ \A q \in BITS : bits'[q] => bits[q]
         /\ d' = d
         /\ stl'.reset_at_end \subseteq stl.reset_at_end]_vars

\* Every scan ends, whatever the program: recursion is cut off by the depth of
\* the call stack.
ScanTerminates == phase = "scan" ~> phase = "idle"

==============================================================================
