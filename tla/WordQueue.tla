------------------------------ MODULE WordQueue -------------------------------
(***************************************************************************)
(* What the SFWR and SFRD instructions promise: a first-in first-out queue *)
(* of words of a fixed capacity, with a flag for a write that found it     *)
(* full and one for a read that found it empty.                            *)
(***************************************************************************)
EXTENDS Naturals, Sequences

CONSTANTS Words, CAPACITY

VARIABLES queue, got, full, empty

qvars == <<queue, got, full, empty>>

Init == queue = <<>> /\ got = 0 /\ full = FALSE /\ empty = FALSE

Write(v) ==
    /\ full' = (Len(queue) = CAPACITY)
    /\ queue' = IF full' THEN queue ELSE Append(queue, v)
    /\ UNCHANGED <<got, empty>>

Read ==
    /\ empty' = (queue = <<>>)
    /\ IF empty' THEN UNCHANGED <<queue, got>>
       ELSE got' = Head(queue) /\ queue' = Tail(queue)
    /\ UNCHANGED full

Next == Read \/ \E v \in Words : Write(v)

Spec == Init /\ [][Next]_qvars

==============================================================================
