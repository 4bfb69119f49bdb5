------------------------------ MODULE FxMonitor ------------------------------
(***************************************************************************)
(* The ways the outside reads and writes device memory: byte addresses and *)
(* forces (fx_addr.c), the monitor list (fx_monitor.c), and Modbus         *)
(* (modbus_pdu.c), on one memory that the scan changes too.                *)
(*                                                                         *)
(* The monitor list is a row of 16-bit cells: cell 0 holds the word count  *)
(* and the marker 0x81, cell 1 the bit count, then follow the byte         *)
(* addresses of the words and the force numbers of the bits.  The host     *)
(* reads a sample in frames of FRAME bytes.                                *)
(***************************************************************************)
EXTENDS FxAddr, ModbusPdu

CONSTANTS
    LIST_CELLS,     \* FX_MON_LIST_BYTES / 2
    RESULT_BYTES,   \* FX_MON_RESULT_BYTES
    FRAME,          \* bytes of one read frame, at most 64
    LIST_FRAMES,    \* what the host writes into the list: [at, cells]
    BYTE_WRITES,    \* byte writes of the host: <<addr, value>>
    FORCES,         \* force numbers the host uses
    REQUESTS,       \* Modbus requests the clients send
    PROBES,         \* and those whose outcome the properties look at
    SCANNED,        \* devices the scan changes
    MAX_OPS         \* bound on changes of device memory

ASSUME MonitorAssumption ==
    /\ LIST_CELLS \in Nat \ {0, 1} /\ RESULT_BYTES \in Nat /\ FRAME \in 1..RESULT_BYTES
    /\ \A f \in LIST_FRAMES :
          f.at \in Nat /\ f.cells \in Seq(0..(WORD - 1)) /\ f.at + Len(f.cells) <= LIST_CELLS
    /\ \A w \in BYTE_WRITES : w[1] \in Nat /\ w[2] \in 0..(BYTE - 1)
    /\ \A q \in REQUESTS \cup PROBES : q.start \in 0..(WORD - 1) /\ q.field \in 0..(WORD - 1)
    /\ \A q \in REQUESTS : payload_fits(q) => \A i \in 1..q.field :
          /\ q.fc = 15 /\ q.bytes = (q.field + 7) \div 8 => q.data[i] \in {0, 1}
          /\ q.fc = 16 /\ q.bytes = 2 * q.field => q.data[i] \in 0..(WORD - 1)
    /\ MAX_OPS \in Nat

VARIABLES
    mem,          \* plc_mem and the program bytes
    list, result, result_len,
    \* Auxiliary: what the devices of the list held when the last sample was
    \* taken, the bytes the host has read of it, and a counter for the bound.
    at_sample, view, ops

monitor == <<list, result, result_len, at_sample, view>>
vars == <<mem, monitor, ops>>

MARKER == \h81

\* The listed devices and their values, without regard to the result buffer.
NoDevices == [words |-> << >>, bits |-> << >>]
Listed(l) ==
    LET words == l[0] % BYTE
        fits == 2 + words + l[1] <= LIST_CELLS /\ 2 * words + (l[1] + 7) \div 8 <= RESULT_BYTES
    IN  IF l[0] \div BYTE # MARKER \/ ~fits THEN NoDevices
        ELSE [words |-> [i \in 1..words |-> fx_addr_read_byte(mem, l[1 + i])
                                            + BYTE * fx_addr_read_byte(mem, (l[1 + i] + 1) % WORD)],
              bits |-> [j \in 1..l[1] |-> fx_addr_force_read(mem, l[1 + words + j])]]

Init ==
    /\ mem = plc_memory_init
    /\ list = [k \in 0..(LIST_CELLS - 1) |-> 0]
    /\ result = [k \in 0..(RESULT_BYTES - 1) |-> 0]
    /\ result_len = 0
    /\ at_sample = NoDevices
    /\ view = << >> /\ ops = 0

Change(m) == ops < MAX_OPS /\ ops' = ops + 1 /\ mem' = m /\ UNCHANGED monitor

\* Commands 1 and E10, and the 7 and 8 of the bit area.
HostWrite(addr, v) == Change(fx_addr_write_byte(mem, addr, v))
HostBit(addr, bit, v) == Change(fx_addr_write_bit(mem, addr, bit, v))
\* E7 and E8.
HostForce(a, on) == Change(fx_addr_force(mem, a, on))
ModbusRequest(q) == Change(modbus_pdu_exec(mem, q).mem)
\* The program, or the latched inputs.
Scan(d, v) == Change(Put(mem, d, v))

\* E10 into the list.
fx_monitor_write(f) ==
    /\ list' = [k \in DOMAIN list |-> IF k \in f.at..(f.at + Len(f.cells) - 1)
                                      THEN f.cells[k - f.at + 1] ELSE list[k]]
    /\ UNCHANGED <<mem, result, result_len, at_sample, view, ops>>

word_count(l) == l[0] % BYTE
bit_count(l) == l[1]
sample_len(l) == 2 * word_count(l) + (bit_count(l) + 7) \div 8

list_ok(l) ==
    /\ l[0] \div BYTE = MARKER
    /\ 2 + word_count(l) + bit_count(l) <= LIST_CELLS
    /\ sample_len(l) <= RESULT_BYTES

\* Byte k of the bits: bit j is the j-th force number of the list.
bit_byte(k) ==
    LET on(j) == IF 8 * k + j < bit_count(list)
                 THEN fx_addr_force_read(mem, list[2 + word_count(list) + 8 * k + j]) ELSE 0
    IN  packed(on)

\* Mutant of sampled: the result is not cleared before the bits are set.
sampled_over ==
    [k \in DOMAIN result |->
        IF k < 2 * word_count(list)
        THEN fx_addr_read_byte(mem, (list[2 + k \div 2] + (k % 2)) % WORD)
        ELSE IF k < sample_len(list)
        THEN LET b == bit_byte(k - 2 * word_count(list)) IN IF b = 0 THEN result[k] ELSE b
        ELSE result[k]]
sampled ==
    [k \in DOMAIN result |->
        IF k < 2 * word_count(list)
        THEN fx_addr_read_byte(mem, (list[2 + k \div 2] + (k % 2)) % WORD)
        ELSE IF k < sample_len(list) THEN bit_byte(k - 2 * word_count(list))
        ELSE result[k]]

fx_monitor_sample ==
    IF list_ok(list)
    THEN result_len' = sample_len(list) /\ result' = sampled
    ELSE result_len' = 0 /\ UNCHANGED result

\* fx_monitor_owns_read: past the sample the bytes are those of the address
\* map, which has nothing there.
served(k) == IF k < result_len THEN result[k] ELSE 0

\* E00 at FX_MON_RESULT takes a sample and reads its first bytes.
ReadFirst ==
    /\ fx_monitor_sample
    /\ at_sample' = Listed(list)
    /\ view' = [k \in 1..FRAME |-> served(k - 1)']
    /\ UNCHANGED <<mem, list, ops>>

\* E00 further on reads the same sample, whatever has changed since.
ReadNext ==
    /\ view # << >> /\ Len(view) < RESULT_BYTES
    /\ view' = view \o [k \in 1..FRAME |-> served(Len(view) + k - 1)]
    /\ UNCHANGED <<mem, list, result, result_len, at_sample, ops>>

Next ==
    \/ \E w \in BYTE_WRITES :
          HostWrite(w[1], w[2]) \/ HostBit(w[1], 7, w[2] % 2)
    \/ \E a \in FORCES, on \in {0, 1} : HostForce(a, on)
    \/ \E q \in REQUESTS : ModbusRequest(q)
    \/ \E d \in SCANNED, v \in {0, 1} : Scan(d, v)
    \/ \E f \in LIST_FRAMES : fx_monitor_write(f)
    \/ ReadFirst \/ ReadNext

Spec == Init /\ [][Next]_vars

(***************************************************************************)
(* Properties                                                              *)
(***************************************************************************)

\* The bytes the host reads of a sample, in however many frames and with
\* whatever list writes and memory changes between them, are the listed words
\* and bits as they were at the one moment fx_monitor_sample ran; the sample
\* fits the buffer it is kept in.
MonitorSnapshot ==
    LET words == Len(at_sample.words)
    IN  /\ result_len <= RESULT_BYTES /\ DOMAIN result = 0..(RESULT_BYTES - 1)
        /\ \A i \in 1..words : 2 * i <= Len(view) =>
              view[2 * i - 1] + BYTE * view[2 * i] = at_sample.words[i]
        /\ \A j \in 0..(Len(at_sample.bits) - 1) : 2 * words + j \div 8 < Len(view) =>
              (view[2 * words + j \div 8 + 1] \div Mask[(j % 8) + 1]) % 2 = at_sample.bits[j + 1]

(***************************************************************************)
(* The documented layout (fx_addr.h, modbus_map.h): per family the first   *)
(* byte address, the number of devices in the byte map, the first force    *)
(* number and the first Modbus address.                                    *)
(***************************************************************************)
None == -1
BitLayout ==
    {[family |-> "S", first |-> 0, n |-> 1000, bytes |-> \h0000, force |-> \h1400, coil |-> 5000, input |-> None],
     [family |-> "X", first |-> 0, n |-> 256, bytes |-> \h0080, force |-> \h1200, coil |-> None, input |-> 0],
     [family |-> "Y", first |-> 0, n |-> 256, bytes |-> \h00A0, force |-> \h0C00, coil |-> 0, input |-> None],
     [family |-> "TC", first |-> 0, n |-> 256, bytes |-> \h00C0, force |-> None, coil |-> None, input |-> 1000],
     [family |-> "M", first |-> 0, n |-> 1536, bytes |-> \h0100, force |-> 0, coil |-> 1000, input |-> None],
     [family |-> "CC", first |-> 0, n |-> 256, bytes |-> \h01C0, force |-> None, coil |-> None, input |-> 2000],
     [family |-> "M", first |-> 8000, n |-> 256, bytes |-> \h01E0, force |-> \h0E00, coil |-> None, input |-> None]}
WordLayout ==
    {[family |-> "T", first |-> 0, n |-> 256, bytes |-> \h0800, holding |-> None, input |-> 0],
     [family |-> "C", first |-> 0, n |-> 200, bytes |-> \h0A00, holding |-> None, input |-> 1000],
     [family |-> "D", first |-> 8000, n |-> 256, bytes |-> \h0E00, holding |-> 8000, input |-> None],
     [family |-> "D", first |-> 8030, n |-> 3, bytes |-> \h0E3C, holding |-> 8030, input |-> 2000],
     [family |-> "D", first |-> 0, n |-> 8000, bytes |-> \h4000, holding |-> 0, input |-> None]}

\* The holding registers end with D8255.
HOLDING_END == 8256

Edges(a) == {0, 7, 8, a.n - 1} \cap 0..(a.n - 1)

\* Every way to write device i of an area, and every way to read it.
WriteBit(a, i, v) ==
    {fx_addr_write_bit(mem, a.bytes + i \div 8, i % 8, v)}
    \cup (IF a.force = None THEN {} ELSE {fx_addr_force(mem, a.force + i, v)})
    \cup (IF a.coil = None THEN {}
          ELSE {write_one(mem, [start |-> a.coil + i, field |-> 0], write_coil_areas, v).mem})
ReadBit(m, a, i) ==
    {fx_addr_read_bit(m, a.bytes + i \div 8, i % 8)}
    \cup (IF a.force = None THEN {} ELSE {fx_addr_force_read(m, a.force + i)})
    \cup (IF a.coil = None THEN {} ELSE {modbus_read_coil(m, a.coil + i)})
    \cup (IF a.input = None THEN {} ELSE {modbus_read_discrete(m, a.input + i)})
WriteWord(a, i, lo, hi) ==
    {fx_addr_write_byte(fx_addr_write_byte(mem, a.bytes + 2 * i, lo), a.bytes + 2 * i + 1, hi)}
    \cup (IF a.holding = None THEN {}
          ELSE {write_one(mem, [start |-> a.holding + i, field |-> 0],
                          write_holding_areas, lo + BYTE * hi).mem})
ReadWord(m, a, i) ==
    {fx_addr_read_byte(m, a.bytes + 2 * i) + BYTE * fx_addr_read_byte(m, a.bytes + 2 * i + 1)}
    \cup (IF a.holding = None THEN {} ELSE {modbus_read_holding(m, a.holding + i)})
    \cup (IF a.input = None THEN {} ELSE {modbus_read_input(m, a.input + i)})

\* A device written through any of the byte map, the force space and Modbus is
\* read with that value through every one of them, at both ends of every area:
\* the wrong device here is what fx_addr.h calls a silent bug.
ViewsAgree ==
    /\ \A a \in BitLayout : \A i \in Edges(a), v \in {0, 1} :
          \A m \in WriteBit(a, i, v) : ReadBit(m, a, i) = {v}
    /\ \A a \in WordLayout : \A i \in Edges(a) :
          \A m \in WriteWord(a, i, 165, 90) : ReadWord(m, a, i) = {165 + BYTE * 90}
    /\ \A i \in {200, 255} :   \* the 32-bit counters, which only the program writes
          LET m == Put(mem, <<"C", i>>, 70000)
              byte(k) == fx_addr_read_byte(m, \h0C00 + 4 * (i - 200) + k)
          IN  /\ byte(0) + BYTE * byte(1) + WORD * byte(2) = 70000 /\ byte(3) = 0
              /\ modbus_read_input(m, 1000 + i) = 70000 % WORD

\* A byte write changes its own byte and neither neighbour, also where the
\* neighbour is the other half of the word or another family; a force number
\* outside the placed families writes nothing, reads off and is not known
\* ("ignored rather than written somewhere guessed", fx_addr.h).
WriteIsolation ==
    /\ \A a \in (UNION {{l.bytes, l.bytes + 1, l.bytes + l.n \div 8 - 1} : l \in BitLayout})
                \cup (UNION {{l.bytes, l.bytes + 1, l.bytes + 2 * l.n - 2, l.bytes + 2 * l.n - 1} :
                             l \in WordLayout}) :
          LET m == fx_addr_write_byte(mem, a, 165)
          IN  /\ fx_addr_read_byte(m, a) = 165
              /\ \A b \in {a - 1, a + 1} \ {-1} :
                    fx_addr_read_byte(m, b) = fx_addr_read_byte(mem, b)
    /\ \A a \in {\h0C00 + 256, \h0E00 - 1, \h0E00 + 256, \h1200 - 1, \h1200 + 256,
                 \h1400 - 1, \h1400 + 1000, WORD - 1} :
          /\ fx_addr_force(mem, a, 1) = mem
          /\ fx_addr_force_read(mem, a) = 0
          /\ ~fx_addr_force_known(a)

\* A multi-write that is echoed is stored completely and reads back; one that
\* is refused for its address has written exactly the registers before the
\* first illegal one; any other refusal has written nothing.
WriteOutcome ==
    \A q \in {r \in PROBES : r.fc = 16} :
        LET r == modbus_pdu_exec(mem, q)
            at(m, i) == modbus_read_holding(m, (q.start + i) % WORD)
            legal(i) == (q.start + i) % WORD < HOLDING_END
            code == IF r.reply.kind = "exception" THEN r.reply.code ELSE 0
        IN  /\ r.reply.kind = "echo" =>
                  \A i \in 0..(q.field - 1) : legal(i) /\ at(r.mem, i) = q.data[i + 1]
            /\ code = ILLEGAL_ADDRESS => \A i \in 0..(q.field - 1) :
                  IF \A j \in 0..i : legal(j) THEN at(r.mem, i) = q.data[i + 1]
                  ELSE at(r.mem, i) = at(mem, i)
            /\ code \in {ILLEGAL_VALUE, ILLEGAL_FUNCTION} => r.mem = mem

\* No reply outgrows the caller's buffer, and its length fits the byte in
\* which read_bits and read_words send it.
ReplyFits ==
    \A q \in PROBES :
        LET n == reply_len(q, modbus_pdu_exec(mem, q).reply)
        IN  n <= MODBUS_PDU_MAX /\ n - 3 < BYTE

==============================================================================
