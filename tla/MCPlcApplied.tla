---------------------------- MODULE MCPlcApplied ------------------------------
(* One small program per family of applied instructions. *)
EXTENDS PlcApplied

K(v) == <<"K", v>>
D(r) == <<"D", r>>

Program(code) ==
    [code |-> code, host |-> {}, values |-> {}, field |-> {}, counts |-> {0}, fifo |-> FALSE]

Bmov(a, t, n) == [op |-> "BMOV", a |-> a, t |-> t, n |-> n]
Math(op, t) == [op |-> op, s |-> D(0), s2 |-> D(1), t |-> t]
Turn(op, n) == [op |-> op, t |-> 0, n |-> n]
Place(op, q, t, k) == [op |-> op, q |-> q, t |-> t, n |-> K(4), k |-> k]
Put(n) == [op |-> "SFWR", s |-> D(5), t |-> FIFO, n |-> n]
Take(n) == [op |-> "SFRD", a |-> FIFO, t |-> FIFO_OUT, n |-> n]
Bon(q, qa, t, ta) == [op |-> "BON", q |-> q, q_array |-> qa, t |-> t, t_array |-> ta, n |-> K(1)]

MCPrograms == {
    \* A queue of three words, fed and drained; lengths that are refused.
    [Program({Put(K(4)), Take(K(4)), Put(K(1)), Take(K(7))})
        EXCEPT !.host = {5}, !.values = {1, 2, 15}, !.fifo = TRUE],
    \* Block moves that overlap upwards, downwards, not at all, and too far.
    [Program({Bmov(0, 1, K(3)), Bmov(2, 1, K(3)), Bmov(0, 4, K(2)), Bmov(0, 1, D(5)),
              [op |-> "FMOV", s |-> D(0), t |-> 3, n |-> D(5)]})
        EXCEPT !.host = {0, 5}, !.values = {1, 2, 3}],
    \* All operands of a word, also into its own operands.
    [Program({Math("DIV", 2), Math("DIV", 5)}) EXCEPT !.host = {0, 1}, !.values = 0..(WORD - 1)],
    [Program({Math("MUL", 2), Math("MUL", 5)}) EXCEPT !.host = {0, 1}, !.values = 0..(WORD - 1)],
    [Program({Turn("ROR", D(1)), Turn("ROL", D(1)), Math("WAND", 2), Math("WOR", 2),
              Math("WXOR", 2), [op |-> "NEG", t |-> 0]})
        EXCEPT !.host = {0, 1}, !.values = 0..(WORD - 1)],
    \* 32-bit division over its own operands.
    [Program({[op |-> "DDIV_TIME", s |-> <<D(0), D(1)>>, s2 |-> <<D(2), K(0)>>, t |-> 2],
              [op |-> "DMOV", s |-> <<D(2), D(4)>>, t |-> 0], [op |-> "DMOV", s |-> <<D(2), D(4)>>, t |-> 5]})
        EXCEPT !.host = {0, 2}, !.values = {1, 2, 7}],
    \* Shifts, the source outside and inside what is shifted.
    [Program({Place("SFTR", 0, 1, K(1)), Place("SFTR", 2, 1, K(3)), Place("SFTL", 0, 1, K(1)),
              Place("SFTL", 2, 1, K(2)), Place("SFTL", 0, 1, K(5)), Place("SFTR", 0, 6, K(1))})
        EXCEPT !.field = 0..4],
    \* A counter decoded, encoded, and driving a drum.
    [Program({[op |-> "DECO", t |-> 1, n |-> K(2)], [op |-> "DECO", t |-> 6, n |-> K(2)],
              [op |-> "ENCO", s |-> <<>>, q |-> 1, t |-> 0, n |-> K(2)],
              [op |-> "ENCO", s |-> D(1), q |-> 0, t |-> 0, n |-> K(2)],
              [op |-> "ABSD", a |-> 1, t |-> 5, n |-> K(2)], [op |-> "ABSD", a |-> 1, t |-> 5, n |-> K(3)]})
        EXCEPT !.host = {1, 2, 4}, !.values = {2, 4}, !.counts = {-1, 0, 2, 3, 4}],
    \* Arrays of bits indexed through a register.
    [Program({Bon(0, FALSE, 2, TRUE), Bon(2, TRUE, 1, FALSE), Bon(7, FALSE, 1, FALSE)})
        EXCEPT !.host = {INDEX}, !.values = {0, 2, 4, 5}, !.field = {0, 3}]}

==============================================================================
