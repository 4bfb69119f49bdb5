----------------------------- MODULE MCPlcExec -------------------------------
(***************************************************************************)
(* Instances of PlcExec for TLC: programs assembled from instructions, the *)
(* way GX Works emits them.                                                *)
(***************************************************************************)
EXTENDS PlcExec
LOCAL INSTANCE SequencesExt

(* Instructions, as sequences of words. *)

Word(op, dev, n) == [op |-> op, dev |-> dev, n |-> n]
I(op, dev, n) == <<Word(op, dev, n)>>
M(name) == Word("MISC", name, 0)
K(n) == <<Word("CONST", "-", n), Word("CONST", "-", 0)>>
D(i) == <<Word("PLS", "T", 2 * i), Word("CONST", "-", 0)>>
BitOperand(nibble, n) == <<Word("PLS", "X", n), Word("CONST", "-", nibble)>>
PointerOperand(p) == <<Word("PLS", "M", 2 * p), Word("CONST", "-", 0)>>

Stack(name) == I("STACK", name, 0)
Pulse(kind, dev, n) == <<M(kind), Word("PLS", dev, n)>>
CallP(p) == <<M("CALL")>> \o PointerOperand(p)
Applied(name, operands) == <<M(name)>> \o operands
StateWord(name, n) == <<M(name), Word("CONST", "-", n)>>
LdEq(a, b) == I("LD_CMP", "EQ", 0) \o a \o b
END == <<M("END")>>

Starts(instrs) == {1 + Len(FlattenSeq(SubSeq(instrs, 1, k - 1))) : k \in 1..Len(instrs)}

\* A pulse coil is a sequence of two words whose second is decoded in its turn.
Heads(instrs) ==
    LET code == FlattenSeq(instrs)
    IN  Starts(instrs) \cup {i \in DOMAIN code : i > 1 /\ code[i].op = "PLS"
                                /\ code[i - 1].op = "MISC" /\ code[i - 1].dev \in {"PLS", "PLF"}}

\* The transitions of a chart: where the transfers of each begin, behind the
\* STLs whose states it leaves, and the states they set.  The first rung, which
\* sets the initial step, is none.
IsTransfer(instr) == instr[1].dev = "SET_S" \/ (instr[1].op \in {"SET", "OUT"} /\ instr[1].dev = "S")
Target(instr) == instr[Len(instr)].n
Flow(instrs) ==
    LET transfers == {k \in 3..Len(instrs) : IsTransfer(instrs[k])}
        steps == {k \in 1..Len(instrs) : instrs[k][1].op = "STL"}
        last(k) == Max({j \in steps : j < k})
        sources(k) == {j \in steps : j < k /\ j..last(k) \subseteq steps}
        end(k) == Max({j \in transfers : j >= k /\ k..j \subseteq transfers})
    IN  {[at |-> 1 + Len(FlattenSeq(SubSeq(instrs, 1, k - 1))),
          from |-> {instrs[j][1].n : j \in sources(k)},
          to |-> [i \in 1..(end(k) - k + 1) |-> Target(instrs[k + i - 1])]] :
            k \in {j \in transfers : j - 1 \notin transfers}}

Assemble(instrs, pulses, markings, flow) ==
    [code |-> FlattenSeq(instrs), heads |-> Heads(instrs), pulses |-> pulses,
     markings |-> markings, flow |-> flow]
Chart(instrs, markings) == Assemble(instrs, {}, markings, Flow(instrs))

AnyMarking == SUBSET States
Plain(instrs) == Assemble(instrs, {}, AnyMarking, {})

LDX(n) == I("LD", "X", n)
OUTY(n) == I("OUT", "Y", n)

MCBits == {<<"X", 0>>, <<"X", 1>>, <<"Y", 0>>, <<"Y", 1>>, <<"M", 0>>, <<"M", 1>>, <<"T", 0>>,
           <<"C", 0>>, <<"S", 0>>, <<"S", 1>>, <<"S", 2>>, <<"S", 3>>, <<"MS", 0>>, <<"MS", 2>>}

------------------------------------------------------------------------------
(* Ladder without STL. *)

\* Rungs that end in a coil.
CoilRungs ==
    {<<LDX(0), OUTY(0)>>,
     <<LDX(0), I("LDI", "X", 1), Stack("ORB"), OUTY(0)>>,
     <<LDX(0), I("OR", "Y", 0), I("LD", "X", 1), Stack("ANB"), I("SET", "M", 0)>>,
     <<LDX(1), Stack("MPS"), I("AND", "X", 0), I("RST", "M", 0), Stack("MRD"), I("ANI", "M", 0),
       OUTY(0), Stack("MPP"), I("RST", "T", 0)>>,
     <<LDX(0), I("ORI", "T", 0), I("OUT_T", "-", 0) \o K(1)>>,
     <<LDX(1), I("OUT_C", "-", 0) \o PointerOperand(1), I("OUT_C", "-", 0) \o K(1)>>,
     <<I("OUT_C_ENABLE", "-", 0) \o <<Word("PLS", "X", 1)>>, I("OUT_C", "-", 0) \o K(1)>>}

\* Rungs that end in an applied instruction, well formed or not, or in a CALL.
OtherRungs ==
    {<<LDX(0), Applied("MOV", K(3) \o D(0))>>,
     <<LDX(0), Applied("MOV", K(3) \o PointerOperand(1))>>,
     <<LDX(1), Applied("MOV", BitOperand(4, 0) \o BitOperand(8, 0))>>,
     <<LDX(1), Applied("ZRST", BitOperand(8, 0) \o BitOperand(8, 1))>>,
     <<LDX(1), Applied("ZRST", BitOperand(8, 0) \o BitOperand(5, 1))>>,
     <<LDX(0), Applied("INC", D(0))>>,
     <<LDX(0), Applied("ADD", D(0) \o K(2) \o D(0))>>,
     <<LDX(1), Applied("CMP", D(0) \o K(1) \o BitOperand(8, 0))>>,
     <<LdEq(D(0), K(3)), StateWord("SET_S", 0)>>,
     <<I("LDI", "X", 0), StateWord("RST_S", 0)>>,
     <<LDX(0), I("OR_CMP", "GE", 0) \o D(0) \o PointerOperand(0), StateWord("OUT_S", 0)>>,
     <<LDX(1), <<M("RST_C"), Word("PLS", "C", 0)>>, <<M("RST_C"), Word("CONST", "-", 0)>>>>,
     <<LDX(0), CallP(0)>>,
     <<LDX(0), Applied("CALL", K(0))>>,
     <<<<M("BAD")>>, I("BAD", "-", 0), Stack("BAD"), <<BLANK>>, I("CONST", "-", 0)>>,
     <<<<M("PLS")>>, LDX(0), <<M("SRET")>>>>}

\* Subroutine 0 is a recursive block that drives Y0.
Library == << <<M("FEND")>>, I("P", "-", 0), LDX(1), CallP(0), OUTY(0), <<M("SRET")>>, END >>

\* One coil rung before and a block after each of the others.
MCFlowPrograms ==
    {Plain(a \o b \o <<LDX(1), I("LD", "M", 0), Stack("ORB"), I("OUT", "M", 1)>> \o Library) :
        a \in CoilRungs, b \in OtherRungs}
    \cup {Plain(a \o b \o a \o b \o a \o b) : a \in CoilRungs, b \in CoilRungs}

\* Pulse coils, on their own, around a call, and next to each other.
PulseRung(kind, x, m) == <<I("LD", "X", x), Pulse(kind, "M", m)>>
Pulses(kind, x, m) == [kind |-> kind, rung |-> <<"X", x>>, coil |-> <<"M", m>>]
MCPulsePrograms ==
    {Assemble(PulseRung(k0, x0, 0) \o middle \o PulseRung(k1, x1, 1) \o Library,
              {Pulses(k0, x0, 0), Pulses(k1, x1, 1)}, AnyMarking, {}) :
        k0 \in {"PLS", "PLF"}, k1 \in {"PLS", "PLF"}, x0 \in {0, 1}, x1 \in {0, 1},
        middle \in {<<>>, <<LDX(0), OUTY(0), CallP(0)>>, <<I("LD", "M", 0), OUTY(0)>>}}

\* Subroutines that call themselves and each other, that never return, that
\* are fallen into, and programs without END.
Main == <<LDX(0), CallP(0), LDX(1), OUTY(0), CallP(1)>>
Body(p, calls) == <<I("P", "-", p), LDX(p)>> \o calls
Returns == << <<M("SRET")>> >>
MCLivePrograms ==
    {Plain(Main \o mid \o Body(0, a) \o r0 \o Body(1, b) \o Returns \o end) :
        mid \in {<<>>, << <<M("FEND")>> >>}, end \in {<<>>, <<END>>}, r0 \in {<<>>, Returns},
        a \in {<<>>, <<CallP(0), CallP(1)>>, <<CallP(1), OUTY(0), CallP(1)>>},
        b \in {<<>>, <<CallP(0), OUTY(0), CallP(0)>>, <<CallP(1)>>}}

------------------------------------------------------------------------------
(* Sequential function charts. *)

Start == <<I("LD", "MS", 2), StateWord("SET_S", 0)>>
Step(n) == I("STL", "-", n)
To(n) == StateWord("SET_S", n)
Loop(n) == I("OUT", "S", n)
Finish == <<I("RET", "-", 0), LDX(0), I("OUT", "M", 0)>> \o Library

OneOf(n) == {{i} : i \in 0..n}

\* A chain S0 -> S1 -> S2, whatever its conditions and whichever way the
\* transitions are written; actions in the steps; back to S0 on a condition
\* that is off while the chain's first one is on.
MCChains ==
    {Chart(Start
         \o <<Step(0), OUTY(0), LDX(0), first_to>>
         \o <<Step(1)>> \o action \o <<I("LD", "X", x), To(2)>>
         \o <<Step(2), OUTY(1), I("LDI", "X", 0), Loop(0)>> \o Finish,
         OneOf(2)) :
       x \in {0, 1},
       first_to \in {To(1), I("SET", "S", 1), I("OUT", "S", 1)},
       action \in {<<>>, <<OUTY(1), CallP(0)>>, <<LDX(1), I("OR", "Y", 0), I("SET", "M", 0)>>,
                   <<LDX(1), Applied("INC", D(0))>>,
                   <<I("LD", "Y", 0), I("ORI", "X", 1), Applied("MOV", K(3) \o D(0))>>}}

\* A parallel branch S0 -> S1, S2 and its merge into S3.
MCForks ==
    {Chart(Start
         \o <<Step(0), LDX(0), To(1), To(2), Step(1), OUTY(0), Step(2), OUTY(1)>>
         \o <<Step(1), Step(2), I("LD", "X", x), To(3)>>
         \o <<Step(3), I("LDI", "X", 0), Loop(0)>> \o Finish,
         {{0}, {1, 2}, {3}}) : x \in {0, 1}}

\* A choice S0 -> S1 or S2; X0 decides first.
MCChoice ==
    {Chart(Start
         \o <<Step(0), LDX(0), To(1), I("LDI", "X", 0), I("AND", "X", 1), To(2)>>
         \o <<Step(1), I("LDI", "X", 0), Loop(0), Step(2), LDX(0), Loop(0)>> \o Finish,
         OneOf(2))}

MCStlPrograms == MCChains \cup MCForks \cup MCChoice

\* Every program that the interpreter must execute correctly.
MCPrograms == MCFlowPrograms \cup MCPulsePrograms \cup MCLivePrograms \cup MCStlPrograms

\* A comparison contact in a step.
MCStlComparePrograms ==
    {Plain(Start \o <<Step(1), LdEq(D(0), K(0)), OUTY(0)>> \o Finish)}

==============================================================================
