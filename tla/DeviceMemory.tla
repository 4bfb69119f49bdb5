---------------------------- MODULE DeviceMemory ----------------------------
(***************************************************************************)
(* plc_memory.c as the protocol layers see it: devices with a family and   *)
(* an index, bounded accessors.  A memory is a function on the devices     *)
(* written so far; every other device holds 0.                             *)
(*                                                                         *)
(* Families: X, Y, M, S bits (0 or 1); T and C the current values, TC and  *)
(* CC the contacts; D words; P bytes of program memory.  M and D indices   *)
(* of 8000 and above are the special relays and registers.                 *)
(***************************************************************************)
EXTENDS Integers

PLC_SPECIAL_BASE == 8000
WORD == 65536
BYTE == 256

\* The PLC_NUM_ constants, per family.
Size == [X |-> 256, Y |-> 256, M |-> 3072, S |-> 1000, T |-> 256, TC |-> 256,
         C |-> 256, CC |-> 256, D |-> 8000, P |-> 32000]

Unmapped == <<"unmapped", 0>>

\* The range checks of bit_get, bit_set and the accessors.
Exists(d) ==
    /\ d # Unmapped
    /\ \/ d[2] \in 0..(Size[d[1]] - 1)
       \/ d[1] \in {"M", "D"} /\ d[2] - PLC_SPECIAL_BASE \in 0..255

\* "Out-of-range indices read false and ignore writes."
Get(mem, d) == IF d \in DOMAIN mem THEN mem[d] ELSE 0
Overlay(new, mem) ==
    [d \in DOMAIN new \cup DOMAIN mem |-> IF d \in DOMAIN new THEN new[d] ELSE mem[d]]
Put(mem, d, v) == IF Exists(d) THEN Overlay([x \in {d} |-> v], mem) ELSE mem

plc_memory_init == << >>

(***************************************************************************)
(* An address map is a set of areas <<from, to, family, first>>: address   *)
(* from is the device with index first.                                    *)
(***************************************************************************)
Device(areas, addr) ==
    LET hit == {a \in areas : addr \in a[1]..(a[2] - 1)}
    IN  IF hit = {} THEN Unmapped
        ELSE LET a == CHOOSE a \in hit : TRUE IN <<a[3], a[4] + addr - a[1]>>

==============================================================================
