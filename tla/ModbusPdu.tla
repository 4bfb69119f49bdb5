------------------------------ MODULE ModbusPdu ------------------------------
(***************************************************************************)
(* modbus_map.c and modbus_pdu.c: the Modbus tables over device memory,    *)
(* and what one request does to the memory and is answered.                *)
(*                                                                         *)
(* A request is [fc, start, field, bytes, data, len]: field is the 16-bit  *)
(* field after the address (a count or a value), bytes the byte count of a *)
(* multi-write, data its bits or words, len the bytes from the unit        *)
(* identifier on.                                                          *)
(***************************************************************************)
EXTENDS DeviceMemory, Sequences

CONSTANTS
    MODBUS_PDU_MAX  \* 256 in the code

ASSUME PduAssumption == MODBUS_PDU_MAX \in Nat

MB_COIL_M == 1000
MB_COIL_S == 5000
MB_DISCRETE_T == 1000
MB_DISCRETE_C == 2000
MB_HOLDING_D_SPECIAL == 8000
MB_INPUT_C == 1000
MB_INPUT_ANALOG == 2000
D_ANALOG_BASE == 8030

read_coil_areas ==
    {<<0, Size.Y, "Y", 0>>, <<MB_COIL_M, MB_COIL_M + Size.M, "M", 0>>,
     <<MB_COIL_S, MB_COIL_S + Size.S, "S", 0>>}
write_coil_areas ==
    {<<0, Size.Y, "Y", 0>>, <<MB_COIL_M, MB_COIL_M + Size.M, "M", 0>>,
     <<MB_COIL_S, MB_COIL_S + Size.S, "S", 0>>}
read_discrete_areas ==
    {<<0, Size.X, "X", 0>>, <<MB_DISCRETE_T, MB_DISCRETE_T + Size.T, "TC", 0>>,
     <<MB_DISCRETE_C, MB_DISCRETE_C + Size.C, "CC", 0>>}
read_holding_areas ==
    {<<0, Size.D, "D", 0>>,
     <<MB_HOLDING_D_SPECIAL, MB_HOLDING_D_SPECIAL + 256, "D", PLC_SPECIAL_BASE>>}

write_holding_areas ==
    {<<0, Size.D, "D", 0>>,
     <<MB_HOLDING_D_SPECIAL, MB_HOLDING_D_SPECIAL + 256, "D", PLC_SPECIAL_BASE>>}

read_input_areas ==
    {<<0, Size.T, "T", 0>>, <<MB_INPUT_C, MB_INPUT_C + Size.C, "C", 0>>,
     <<MB_INPUT_ANALOG, MB_INPUT_ANALOG + 3, "D", D_ANALOG_BASE>>}

modbus_read_coil(mem, addr) == Get(mem, Device(read_coil_areas, addr))
modbus_read_discrete(mem, addr) == Get(mem, Device(read_discrete_areas, addr))
modbus_read_holding(mem, addr) == Get(mem, Device(read_holding_areas, addr))
\* A 32-bit counter shows its low word.
modbus_read_input(mem, addr) == Get(mem, Device(read_input_areas, addr)) % WORD

(***************************************************************************)
(* modbus_pdu_exec                                                         *)
(***************************************************************************)
ILLEGAL_FUNCTION == 1
ILLEGAL_ADDRESS == 2
ILLEGAL_VALUE == 3
MAX_BITS == 2000
\* Mutant of MAX_WORDS: as many words as there are pairs of bytes in a PDU.
MAX_WORDS_PDU == 128
MAX_WORDS == 125
MB_REQ_FIXED == 6
COIL_ON == \hFF00

exception(code) == [kind |-> "exception", code |-> code]
echo(q) == [kind |-> "echo", start |-> q.start, field |-> q.field]

\* Address i of the run of a request, which wraps like the uint16_t it is.
run_addr(q, i) == (q.start + i) % WORD

\* read_bits and read_words; only a 32-bit counter is cut to a word.
read_run(mem, q, areas, limit) ==
    IF q.field \notin 1..limit THEN exception(ILLEGAL_VALUE)
    ELSE IF \E i \in 0..(q.field - 1) : Device(areas, run_addr(q, i)) = Unmapped
    THEN exception(ILLEGAL_ADDRESS)
    ELSE [kind |-> "data",
          values |-> [i \in 1..q.field |-> Get(mem, Device(areas, run_addr(q, i - 1))) % WORD]]

payload_fits(q) == q.len >= 7 /\ 7 + q.bytes <= q.len

\* Mutant of written_run: a run that reaches an illegal address skips it and
\* goes on.
written_run_skipping(areas, q) ==
    {i \in 0..(q.field - 1) : Device(areas, run_addr(q, i)) # Unmapped}
\* The loop stops at the first illegal address; what precedes it is written.
written_run(areas, q) ==
    {i \in 0..(q.field - 1) : \A j \in 0..i : Device(areas, run_addr(q, j)) # Unmapped}

\* Functions 0x0F and 0x10.
write_run(mem, q, areas, bytes) ==
    IF ~payload_fits(q) \/ q.field = 0 \/ q.bytes # bytes
    THEN [mem |-> mem, reply |-> exception(ILLEGAL_VALUE)]
    ELSE LET done == written_run(areas, q)
             at(d) == {i \in done : Device(areas, run_addr(q, i)) = d}
             devices == {Device(areas, run_addr(q, i)) : i \in done}
         IN  [mem |-> Overlay([d \in devices |-> q.data[1 + CHOOSE i \in at(d) : TRUE]], mem),
              reply |-> IF done = 0..(q.field - 1) THEN echo(q)
                        ELSE exception(ILLEGAL_ADDRESS)]

\* Functions 0x05 and 0x06.
write_one(mem, q, areas, value) ==
    LET d == Device(areas, q.start)
    IN  IF d = Unmapped THEN [mem |-> mem, reply |-> exception(ILLEGAL_ADDRESS)]
        ELSE [mem |-> Put(mem, d, value), reply |-> echo(q)]

No_reply == [kind |-> "none"]

modbus_pdu_exec(mem, q) ==
    LET only(reply) == [mem |-> mem, reply |-> reply]
        known ==
          CASE q.fc = 1 -> only(read_run(mem, q, read_coil_areas, MAX_BITS))
          [] q.fc = 2 -> only(read_run(mem, q, read_discrete_areas, MAX_BITS))
          [] q.fc = 3 -> only(read_run(mem, q, read_holding_areas, MAX_WORDS))
          [] q.fc = 4 -> only(read_run(mem, q, read_input_areas, MAX_WORDS))
          [] q.fc = 5 ->
                IF q.field \notin {0, COIL_ON} THEN only(exception(ILLEGAL_VALUE))
                ELSE write_one(mem, q, write_coil_areas, IF q.field = COIL_ON THEN 1 ELSE 0)
          [] q.fc = 6 -> write_one(mem, q, write_holding_areas, q.field)
          [] q.fc = 15 -> write_run(mem, q, write_coil_areas, (q.field + 7) \div 8)
          [] q.fc = 16 -> write_run(mem, q, write_holding_areas, 2 * q.field)
          [] OTHER -> only(exception(ILLEGAL_FUNCTION))
    IN  IF q.len < 2 THEN only(No_reply)
        ELSE IF q.len < MB_REQ_FIXED THEN only(exception(ILLEGAL_VALUE))
        ELSE known

\* A frame: transaction id, protocol id, and the request.  Frames that are not
\* Modbus, or too short for a function code, are passed over.
modbus_tcp_adu_exec(m, adu) ==
    IF adu.q.len < 2 \/ adu.proto # 0 THEN [mem |-> m, reply |-> No_reply]
    ELSE modbus_pdu_exec(m, adu.q)

\* What is sent for a frame: nothing, or the reply under its transaction id.
answer(m, adu) ==
    LET reply == modbus_tcp_adu_exec(m, adu).reply
    IN  IF reply.kind = "none" THEN << >> ELSE <<[tid |-> adu.tid, reply |-> reply]>>

\* The bytes of a reply.
reply_len(q, reply) ==
    CASE reply.kind = "none" -> 0
    [] reply.kind = "exception" -> 3
    [] reply.kind = "echo" -> MB_REQ_FIXED
    [] reply.kind = "data" -> 3 + IF q.fc \in {1, 2} THEN (q.field + 7) \div 8 ELSE 2 * q.field

==============================================================================
