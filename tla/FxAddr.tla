-------------------------------- MODULE FxAddr -------------------------------
(***************************************************************************)
(* fx_addr.c: the byte addresses and the force numbers of the programming  *)
(* port.  Reading and writing are separate chains of comparisons in the    *)
(* code and separate maps here.                                            *)
(***************************************************************************)
EXTENDS DeviceMemory

FX_ADDR_S == \h0000
FX_ADDR_X == \h0080
FX_ADDR_Y == \h00A0
FX_ADDR_T_CONTACT == \h00C0
T_CONTACT_END == \h00E0
FX_ADDR_M == \h0100
FX_ADDR_C_CONTACT == \h01C0
FX_ADDR_M_SPECIAL == \h01E0
FX_ADDR_BIT_END == \h0200
FX_ADDR_T_CURRENT == \h0800
FX_ADDR_C_CURRENT == \h0A00
FX_ADDR_C_CURRENT32 == \h0C00
FX_ADDR_D_SPECIAL == \h0E00
FX_ADDR_D == \h4000
FX_ADDR_D_END == \h7E80
FX_ADDR_PROGRAM == \h8000
ADDR_END == WORD          \* uint16_t
NUM_C16 == 200            \* C200 and up are the 32-bit counters

\* 1u << b is Mask[b + 1].
Mask == <<1, 2, 4, 8, 16, 32, 64, 128>>
\* The byte with bit b set where on(b) is 1.
packed(on(_)) ==
    on(0) + 2 * on(1) + 4 * on(2) + 8 * on(3) + 16 * on(4) + 32 * on(5) + 64 * on(6) + 128 * on(7)

(***************************************************************************)
(* Bit devices: bit b of byte a has bit number 8a + b.                     *)
(***************************************************************************)

read_bit_areas ==
    {<<8 * FX_ADDR_S, 8 * FX_ADDR_X, "S", 0>>,
     <<8 * FX_ADDR_X, 8 * FX_ADDR_Y, "X", 0>>,
     <<8 * FX_ADDR_Y, 8 * FX_ADDR_T_CONTACT, "Y", 0>>,
     <<8 * FX_ADDR_T_CONTACT, 8 * T_CONTACT_END, "TC", 0>>,
     <<8 * FX_ADDR_M, 8 * FX_ADDR_C_CONTACT, "M", 0>>,
     <<8 * FX_ADDR_C_CONTACT, 8 * FX_ADDR_M_SPECIAL, "CC", 0>>,
     <<8 * FX_ADDR_M_SPECIAL, 8 * FX_ADDR_BIT_END, "M", PLC_SPECIAL_BASE>>}

\* Mutant of fx_addr_read_bit: the special relays without their base.
fx_addr_read_bit_unbased(mem, addr, bit) ==
    Get(mem, IF addr >= FX_ADDR_M_SPECIAL THEN <<"M", 8 * (addr - FX_ADDR_M_SPECIAL) + bit>>
             ELSE Device(read_bit_areas, 8 * addr + bit))
fx_addr_read_bit(mem, addr, bit) == Get(mem, Device(read_bit_areas, 8 * addr + bit))

write_bit_areas ==
    {<<8 * FX_ADDR_S, 8 * FX_ADDR_X, "S", 0>>,
     <<8 * FX_ADDR_X, 8 * FX_ADDR_Y, "X", 0>>,
     <<8 * FX_ADDR_Y, 8 * FX_ADDR_T_CONTACT, "Y", 0>>,
     <<8 * FX_ADDR_T_CONTACT, 8 * T_CONTACT_END, "TC", 0>>,
     <<8 * FX_ADDR_M, 8 * FX_ADDR_C_CONTACT, "M", 0>>,
     <<8 * FX_ADDR_C_CONTACT, 8 * FX_ADDR_M_SPECIAL, "CC", 0>>,
     <<8 * FX_ADDR_M_SPECIAL, 8 * FX_ADDR_BIT_END, "M", PLC_SPECIAL_BASE>>}

fx_addr_write_bit(mem, addr, bit, v) == Put(mem, Device(write_bit_areas, 8 * addr + bit), v)

(***************************************************************************)
(* Word devices: byte a belongs to word a \div 2, low byte first.          *)
(***************************************************************************)
read_word_areas ==
    {<<FX_ADDR_T_CURRENT \div 2, FX_ADDR_C_CURRENT \div 2, "T", 0>>,
     <<FX_ADDR_C_CURRENT \div 2, FX_ADDR_C_CURRENT \div 2 + NUM_C16, "C", 0>>,
     <<FX_ADDR_D_SPECIAL \div 2, FX_ADDR_D \div 2, "D", PLC_SPECIAL_BASE>>,
     <<FX_ADDR_D \div 2, FX_ADDR_D_END \div 2, "D", 0>>}

write_word_areas ==
    {<<FX_ADDR_T_CURRENT \div 2, FX_ADDR_C_CURRENT \div 2, "T", 0>>,
     <<FX_ADDR_C_CURRENT \div 2, FX_ADDR_C_CURRENT \div 2 + NUM_C16, "C", 0>>,
     <<FX_ADDR_D_SPECIAL \div 2, FX_ADDR_D \div 2, "D", PLC_SPECIAL_BASE>>,
     <<FX_ADDR_D \div 2, FX_ADDR_D_END \div 2, "D", 0>>}

\* Byte k of a value in two's complement.
byte_of(value, k) ==
    (value \div (CASE k = 0 -> 1 [] k = 1 -> BYTE [] k = 2 -> WORD [] k = 3 -> BYTE * WORD)) % BYTE

\* Mutant of word_merge: a write of the low byte loses the high one.
word_merge_clearing(old, addr, b) == IF addr % 2 = 1 THEN (old % BYTE) + b * BYTE ELSE b
word_merge(old, addr, b) ==
    IF addr % 2 = 1 THEN (old % BYTE) + b * BYTE
    ELSE BYTE * ((old % WORD) \div BYTE) + b

\* C200 and up: four bytes each.
counter32(addr) == <<"C", NUM_C16 + (addr - FX_ADDR_C_CURRENT32) \div 4>>

fx_addr_read_byte(mem, addr) ==
    IF addr < FX_ADDR_BIT_END
    THEN LET on(b) == fx_addr_read_bit(mem, addr, b) IN packed(on)
    ELSE IF addr >= FX_ADDR_PROGRAM
    THEN LET p == <<"P", addr - FX_ADDR_PROGRAM>>
         IN  IF Exists(p) THEN Get(mem, p) ELSE BYTE - 1
    ELSE IF addr \in FX_ADDR_C_CURRENT32..(FX_ADDR_D_SPECIAL - 1)
    THEN byte_of(Get(mem, counter32(addr)), (addr - FX_ADDR_C_CURRENT32) % 4)
    ELSE byte_of(Get(mem, Device(read_word_areas, addr \div 2)), addr % 2)

\* Memory after n of the eight bits of a byte are written.
write_bits(mem, addr, value) ==
    LET m[n \in 0..8] ==
          IF n = 0 THEN mem
          ELSE fx_addr_write_bit(m[n - 1], addr, n - 1, (value \div Mask[n]) % 2)
    IN  m

\* Nothing writes the 32-bit counters.
fx_addr_write_byte(mem, addr, value) ==
    IF addr < FX_ADDR_BIT_END
    THEN write_bits(mem, addr, value)[8]
    ELSE IF addr >= FX_ADDR_PROGRAM THEN Put(mem, <<"P", addr - FX_ADDR_PROGRAM>>, value)
    ELSE LET d == Device(write_word_areas, addr \div 2)
         IN  Put(mem, d, word_merge(Get(mem, d), addr, value))

(***************************************************************************)
(* Force numbers, a flat space of bit devices.                             *)
(***************************************************************************)
FX_FORCE_Y_BASE == 3072
FX_FORCE_MS_BASE == 3584
FX_FORCE_X_BASE == 4608
FORCE_S_BASE == \h1400

force_read_areas ==
    {<<0, Size.M, "M", 0>>,
     <<FX_FORCE_Y_BASE, FX_FORCE_Y_BASE + Size.Y, "Y", 0>>,
     <<FX_FORCE_MS_BASE, FX_FORCE_MS_BASE + 256, "M", PLC_SPECIAL_BASE>>,
     <<FX_FORCE_X_BASE, FX_FORCE_X_BASE + Size.X, "X", 0>>,
     <<FORCE_S_BASE, FORCE_S_BASE + Size.S, "S", 0>>}

fx_addr_force_read(mem, a) == Get(mem, Device(force_read_areas, a))

fx_addr_force_known(a) ==
    \E area \in {<<0, Size.M>>, <<FX_FORCE_Y_BASE, Size.Y>>, <<FX_FORCE_MS_BASE, 256>>,
                 <<FX_FORCE_X_BASE, Size.X>>, <<FORCE_S_BASE, Size.S>>} :
        a \in area[1]..(area[1] + area[2] - 1)

force_areas ==
    {<<0, FX_FORCE_Y_BASE, "M", 0>>,
     <<FX_FORCE_Y_BASE, FX_FORCE_Y_BASE + Size.Y, "Y", 0>>,
     <<FX_FORCE_MS_BASE, FX_FORCE_MS_BASE + 256, "M", PLC_SPECIAL_BASE>>,
     <<FX_FORCE_X_BASE, FX_FORCE_X_BASE + Size.X, "X", 0>>,
     <<FORCE_S_BASE, FORCE_S_BASE + Size.S, "S", 0>>}

fx_addr_force(mem, a, on) == Put(mem, Device(force_areas, a), on)

==============================================================================
