--------------------------- MODULE FxMonitorProofs ---------------------------
(***************************************************************************)
(* What the outside reads and writes of device memory, for every list the  *)
(* host may write, every buffer size and every Modbus request.             *)
(***************************************************************************)
EXTENDS FxMonitor, SequenceTheorems, TLAPS

\* The address maps of fx_addr.c and modbus_map.c: an address is unmapped, or
\* it is a device of the one area it falls into.
LEMMA DeviceCases ==
    ASSUME NEW areas, NEW addr
    PROVE  \/ Device(areas, addr) = Unmapped /\ \A a \in areas : addr \notin a[1]..(a[2] - 1)
           \/ \E a \in areas : /\ addr \in a[1]..(a[2] - 1)
                               /\ Device(areas, addr) = <<a[3], a[4] + addr - a[1]>>
  <1> DEFINE hit == {a \in areas : addr \in a[1]..(a[2] - 1)}
             c == CHOOSE a \in hit : TRUE
  <1>1. CASE hit = {}
    BY <1>1, Zenon DEF Device
  <1>2. CASE hit # {}
    <2>1. c \in hit
      BY <1>2, Zenon
    <2>2. Device(areas, addr) = <<c[3], c[4] + addr - c[1]>>
      BY <1>2, Zenon DEF Device
    <2> QED BY <2>1, <2>2, Zenon
  <1> QED BY <1>1, <1>2

\* WORD is kept folded: the provers do arithmetic with its name.
LEMMA WordSize == WORD \in Nat /\ WORD > BYTE /\ BYTE \in Nat
  BY DEF WORD, BYTE

\* The last steps of modbus_pdu_exec: what may be answered.
LEMMA ReadLength ==
    ASSUME NEW m, NEW q, NEW areas, NEW limit \in Nat, q.field \in Nat
    PROVE  LET r == read_run(m, q, areas, limit)
           IN  r.kind = "exception" \/ (r.kind = "data" /\ q.field <= limit)
  BY DEF read_run, exception

\* A write is answered by its echo or an exception, never by data.
LEMMA WriteLength ==
    ASSUME NEW m, NEW q, NEW areas, NEW v
    PROVE  /\ write_run(m, q, areas, v).reply.kind \in {"exception", "echo"}
           /\ write_one(m, q, areas, v).reply.kind \in {"exception", "echo"}
  BY DEF write_run, write_one, exception, echo

\* The replies of modbus_pdu_exec by kind; data only within the limits.
LEMMA ReplyKinds ==
    ASSUME NEW m, NEW q, q.field \in Nat
    PROVE  LET reply == modbus_pdu_exec(m, q).reply
           IN  \/ reply.kind \in {"none", "exception", "echo"}
               \/ reply.kind = "data" /\ q.fc \in {1, 2} /\ q.field <= MAX_BITS
               \/ reply.kind = "data" /\ q.fc \in {3, 4} /\ q.field <= MAX_WORDS
  <1>0. MAX_BITS \in Nat /\ MAX_WORDS \in Nat
    BY DEF MAX_BITS, MAX_WORDS
  <1>e. \A c : exception(c).kind = "exception"
    BY DEF exception
  <1>n. No_reply.kind = "none"
    BY DEF No_reply
  <1>1. \A areas : LET r == read_run(m, q, areas, MAX_BITS)
                   IN  r.kind = "exception" \/ (r.kind = "data" /\ q.field <= MAX_BITS)
    BY <1>0, ReadLength
  <1>2. \A areas : LET r == read_run(m, q, areas, MAX_WORDS)
                   IN  r.kind = "exception" \/ (r.kind = "data" /\ q.field <= MAX_WORDS)
    BY <1>0, ReadLength
  <1>3. \A areas, v : /\ write_run(m, q, areas, v).reply.kind \in {"exception", "echo"}
                      /\ write_one(m, q, areas, v).reply.kind \in {"exception", "echo"}
    BY WriteLength
  <1> QED BY <1>e, <1>n, <1>1, <1>2, <1>3 DEF modbus_pdu_exec

\* The invariant ReplyFits of modbus_pdu.c: with the 253 bytes of a protocol
\* data unit or more in the caller's buffer, no reply outgrows it, and every
\* byte count sent fits its byte.
THEOREM RepliesFit == MODBUS_PDU_MAX >= 253 => (Spec => []ReplyFits)
  <1> SUFFICES ASSUME MODBUS_PDU_MAX >= 253 PROVE Spec => []ReplyFits
    OBVIOUS
  <1>1. ReplyFits
    <2> SUFFICES ASSUME NEW q \in PROBES
                 PROVE  LET n == reply_len(q, modbus_pdu_exec(mem, q).reply)
                        IN  n <= MODBUS_PDU_MAX /\ n - 3 < BYTE
      BY DEF ReplyFits
    <2>1. q.field \in Nat
      <3>1. q.field \in 0..(WORD - 1)
        BY MonitorAssumption, Zenon DEF MonitorAssumption
      <3> QED BY <3>1, WordSize
    <2> DEFINE reply == modbus_pdu_exec(mem, q).reply
    <2>2. \/ reply.kind \in {"none", "exception", "echo"}
          \/ reply.kind = "data" /\ q.fc \in {1, 2} /\ q.field <= MAX_BITS
          \/ reply.kind = "data" /\ q.fc \in {3, 4} /\ q.field <= MAX_WORDS
      BY <2>1, ReplyKinds
    <2> HIDE DEF reply
    <2>3. reply_len(q, reply) \in Nat /\ reply_len(q, reply) <= 253
      BY <2>1, <2>2 DEF reply_len, MAX_BITS, MAX_WORDS, MB_REQ_FIXED
    <2> QED BY <2>3, PduAssumption DEF reply, BYTE
  <1> QED BY <1>1, PTL

\* The holding registers are D0..D7999 and D8000..D8255, in one row.
LEMMA HoldingDevice ==
    ASSUME NEW a \in Nat
    PROVE  /\ a < HOLDING_END => /\ Device(read_holding_areas, a) = <<"D", a>>
                                 /\ Device(write_holding_areas, a) = <<"D", a>>
           /\ ~(a < HOLDING_END) => /\ Device(read_holding_areas, a) = Unmapped
                                    /\ Device(write_holding_areas, a) = Unmapped
  <1> DEFINE areas == {<<0, 8000, "D", 0>>, <<8000, 8256, "D", 8000>>}
  <1>1. /\ read_holding_areas = areas
        /\ write_holding_areas = areas
    BY DEF read_holding_areas, write_holding_areas, Size, MB_HOLDING_D_SPECIAL, PLC_SPECIAL_BASE
  <1>2. /\ a < HOLDING_END => Device(areas, a) = <<"D", a>>
        /\ ~(a < HOLDING_END) => Device(areas, a) = Unmapped
    <2>1. \/ Device(areas, a) = Unmapped /\ \A x \in areas : a \notin x[1]..(x[2] - 1)
          \/ \E x \in areas : /\ a \in x[1]..(x[2] - 1)
                              /\ Device(areas, a) = <<x[3], x[4] + a - x[1]>>
      <3> HIDE DEF areas
      <3> QED BY DeviceCases, Zenon
    <2>2. CASE Device(areas, a) = Unmapped /\ \A x \in areas : a \notin x[1]..(x[2] - 1)
      <3> DEFINE low == <<0, 8000, "D", 0>>
                 high == <<8000, 8256, "D", 8000>>
      <3>1. /\ low \in areas /\ low[1] = 0 /\ low[2] = 8000
            /\ high \in areas /\ high[1] = 8000 /\ high[2] = 8256
        OBVIOUS
      <3> DEFINE outside(x) == a \notin x[1]..(x[2] - 1)
      <3> HIDE DEF low, high, areas, outside
      <3>2. \A x \in areas : outside(x)
        BY <2>2, Zenon DEF outside
      <3>3. ~(a < HOLDING_END)
        <4>1. outside(low) /\ outside(high)
          BY <3>1, <3>2
        <4> QED BY <3>1, <4>1 DEF outside, HOLDING_END
      <3> QED BY <2>2, <3>3
    <2>3. CASE \E x \in areas : /\ a \in x[1]..(x[2] - 1)
                                /\ Device(areas, a) = <<x[3], x[4] + a - x[1]>>
      <3> DEFINE at(x) == a \in x[1]..(x[2] - 1) /\ Device(areas, a) = <<x[3], x[4] + a - x[1]>>
      <3>0. at(<<0, 8000, "D", 0>>) \/ at(<<8000, 8256, "D", 8000>>)
        <4> HIDE DEF at
        <4>1. \E x \in areas : at(x)
          BY <2>3, SMT DEF at
        <4> QED BY <4>1
      <3>1. \/ a \in 0..7999 /\ Device(areas, a) = <<"D", 0 + a - 0>>
            \/ a \in 8000..8255 /\ Device(areas, a) = <<"D", 8000 + a - 8000>>
        <4> DEFINE z == Device(areas, a)
        <4> HIDE DEF z
        <4> QED BY <3>0 DEF z
      <3>2. 0 + a - 0 = a /\ 8000 + a - 8000 = a
        OBVIOUS
      <3> QED BY <3>1, <3>2 DEF HOLDING_END
    <2> HIDE DEF areas
    <2> QED BY <2>1, <2>2, <2>3, Zenon
  <1> HIDE DEF areas
  <1> QED BY <1>1, <1>2, Zenon

\* Sums that wrap at WORD differ as long as they start at one place and stay
\* short of a whole turn.
LEMMA WrapDistinct ==
    \A a, x, y, z \in Nat : a < WORD /\ x < WORD /\ y < x /\ z < x =>
        /\ (a + y) % WORD \in Nat
        /\ (a + y) % WORD = (a + z) % WORD => y = z
  BY DEF WORD

\* A run of fewer addresses than there are never comes back to one: run_addr
\* wraps like the uint16_t of write_words, and a count is 16 bits too.
LEMMA RunDistinct ==
    ASSUME NEW q, q.start \in 0..(WORD - 1), q.field \in 0..(WORD - 1)
    PROVE  /\ \A i \in 0..(q.field - 1) : run_addr(q, i) \in Nat
           /\ \A i, j \in 0..(q.field - 1) : run_addr(q, i) = run_addr(q, j) => i = j
  <1>1. \A s, n \in 0..(WORD - 1) : \A i, j \in 0..(n - 1) :
            /\ (s + i) % WORD \in Nat
            /\ (s + i) % WORD = (s + j) % WORD => i = j
    <2> SUFFICES ASSUME NEW s \in 0..(WORD - 1), NEW n \in 0..(WORD - 1),
                        NEW i \in 0..(n - 1), NEW j \in 0..(n - 1)
                 PROVE  /\ (s + i) % WORD \in Nat
                        /\ (s + i) % WORD = (s + j) % WORD => i = j
      BY Zenon
    <2>1. /\ s \in Nat /\ n \in Nat /\ i \in Nat /\ j \in Nat
          /\ s < WORD /\ n < WORD /\ i < n /\ j < n
      BY WordSize
    <2>2. (s + i) % WORD \in Nat
      BY <2>1, WrapDistinct, Zenon
    <2>3. (s + i) % WORD = (s + j) % WORD => i = j
      BY <2>1, WrapDistinct, Zenon
    <2> QED BY <2>2, <2>3
  <1> QED BY <1>1, Zenon DEF run_addr

\* The loop of write_words: the registers of the written part hold their data,
\* every other register what it held.
LEMMA RunWritten ==
    ASSUME NEW m, NEW q, q.start \in 0..(WORD - 1), q.field \in 0..(WORD - 1),
           NEW i \in 0..(q.field - 1)
    PROVE  LET done == written_run(write_holding_areas, q)
               dev(k) == Device(write_holding_areas, run_addr(q, k))
               at(d) == {k \in done : dev(k) = d}
               devices == {dev(k) : k \in done}
               new == Overlay([d \in devices |-> q.data[1 + CHOOSE k \in at(d) : TRUE]], m)
           IN  modbus_read_holding(new, run_addr(q, i)) =
                 IF i \in done THEN q.data[i + 1] ELSE modbus_read_holding(m, run_addr(q, i))
  <1> DEFINE done == written_run(write_holding_areas, q)
             dev(k) == Device(write_holding_areas, run_addr(q, k))
             at(d) == {k \in done : dev(k) = d}
             devices == {dev(k) : k \in done}
             pick(d) == CHOOSE k \in at(d) : TRUE
             over == [d \in devices |-> q.data[1 + pick(d)]]
             new == Overlay(over, m)
  <1>1. done \subseteq 0..(q.field - 1) /\ \A k \in done : dev(k) # Unmapped
    <2>1. \A k \in done : k \in 0..(q.field - 1) /\ k \in 0..k
      BY DEF written_run
    <2> QED BY <2>1 DEF written_run
  <1>2. \A k, l \in 0..(q.field - 1) : dev(k) = dev(l) /\ dev(k) # Unmapped => k = l
    <2> SUFFICES ASSUME NEW k \in 0..(q.field - 1), NEW l \in 0..(q.field - 1),
                        dev(k) = dev(l), dev(k) # Unmapped
                 PROVE  k = l
      BY Zenon
    <2>1. run_addr(q, k) \in Nat /\ run_addr(q, l) \in Nat
      BY RunDistinct, Zenon
    <2> DEFINE a == run_addr(q, k)
               b == run_addr(q, l)
    <2>2. /\ dev(k) = <<"D", a>> \/ dev(k) = Unmapped
          /\ dev(l) = <<"D", b>> \/ dev(l) = Unmapped
      BY <2>1, HoldingDevice, Zenon
    <2>3. <<"D", a>> = <<"D", b>> => a = b
      OBVIOUS
    <2>4. a = b
      BY <2>2, <2>3, Zenon
    <2> QED BY <2>4, RunDistinct, Zenon
  <1>3. Device(read_holding_areas, run_addr(q, i)) = dev(i)
    <2>1. run_addr(q, i) \in Nat
      BY RunDistinct, Zenon
    <2> QED BY <2>1, HoldingDevice, Zenon
  <1>4. DOMAIN new = devices \cup DOMAIN m
    BY Zenon DEF Overlay
  <1>5. CASE i \in done
    <2>1. dev(i) \in devices /\ i \in at(dev(i))
      BY <1>5, Zenon
    <2>2. pick(dev(i)) \in at(dev(i))
      BY <2>1, Zenon
    <2>3. pick(dev(i)) = i
      BY <1>1, <1>2, <1>5, <2>2, Zenon
    <2>4. new[dev(i)] = q.data[1 + i]
      BY <2>1, <2>3, Zenon DEF Overlay
    <2>5. Get(new, dev(i)) = q.data[1 + i]
      BY <1>4, <2>1, <2>4, Zenon DEF Get
    <2>6. 1 + i = i + 1
      OBVIOUS
    <2> QED BY <1>3, <1>5, <2>5, <2>6, Zenon DEF modbus_read_holding
  <1>6. CASE i \notin done
    <2>1. dev(i) \notin devices
      BY <1>1, <1>2, <1>6, Zenon
    <2>2. Get(new, dev(i)) = Get(m, dev(i))
      <3>1. dev(i) \in DOMAIN new <=> dev(i) \in DOMAIN m
        BY <1>4, <2>1, Zenon
      <3>2. dev(i) \in DOMAIN m => new[dev(i)] = m[dev(i)]
        BY <2>1, Zenon DEF Overlay
      <3> QED BY <3>1, <3>2, Zenon DEF Get
    <2> QED BY <1>3, <1>6, <2>2, Zenon DEF modbus_read_holding
  <1> QED BY <1>5, <1>6, Zenon

\* The invariant WriteOutcome of modbus_pdu.c: for every request to write
\* registers, what the reply says of the write is what happened to the memory.
THEOREM WritesAsAnswered == Spec => []WriteOutcome
  <1>1. WriteOutcome
    <2> SUFFICES ASSUME NEW q \in PROBES, q.fc = 16
                 PROVE  LET r == modbus_pdu_exec(mem, q)
                            at(m, i) == modbus_read_holding(m, (q.start + i) % WORD)
                            legal(i) == (q.start + i) % WORD < HOLDING_END
                            code == IF r.reply.kind = "exception" THEN r.reply.code ELSE 0
                        IN  /\ r.reply.kind = "echo" =>
                                  \A i \in 0..(q.field - 1) : legal(i) /\ at(r.mem, i) = q.data[i + 1]
                            /\ code = ILLEGAL_ADDRESS => \A i \in 0..(q.field - 1) :
                                  IF \A j \in 0..i : legal(j) THEN at(r.mem, i) = q.data[i + 1]
                                  ELSE at(r.mem, i) = at(mem, i)
                            /\ code \in {ILLEGAL_VALUE, ILLEGAL_FUNCTION} => r.mem = mem
      BY Zenon DEF WriteOutcome
    <2> DEFINE areas == write_holding_areas
               done == written_run(areas, q)
               dev(k) == Device(areas, run_addr(q, k))
               at(d) == {k \in done : dev(k) = d}
               devices == {dev(k) : k \in done}
               new == Overlay([d \in devices |-> q.data[1 + CHOOSE k \in at(d) : TRUE]], mem)
               exec == modbus_pdu_exec(mem, q)
               legal(i) == (q.start + i) % WORD < HOLDING_END
    <2>1. q.start \in 0..(WORD - 1) /\ q.field \in 0..(WORD - 1)
      BY MonitorAssumption, Zenon DEF MonitorAssumption
    <2>2. \/ exec.mem = mem /\ exec.reply = No_reply
          \/ exec.mem = mem /\ exec.reply = exception(ILLEGAL_VALUE)
          \/ /\ exec.mem = new
             /\ exec.reply = IF done = 0..(q.field - 1) THEN echo(q) ELSE exception(ILLEGAL_ADDRESS)
      <3> DEFINE w == write_run(mem, q, areas, 2 * q.field)
      <3>1. \/ exec = [mem |-> mem, reply |-> No_reply]
            \/ exec = [mem |-> mem, reply |-> exception(ILLEGAL_VALUE)]
            \/ exec = w
        <4> HIDE DEF w
        <4> QED BY DEF modbus_pdu_exec, w
      <3>2. \/ w = [mem |-> mem, reply |-> exception(ILLEGAL_VALUE)]
            \/ w = [mem |-> new, reply |-> IF done = 0..(q.field - 1) THEN echo(q)
                                           ELSE exception(ILLEGAL_ADDRESS)]
        BY Zenon DEF write_run
      <3> HIDE DEF w, new, done, exec
      <3> QED BY <3>1, <3>2
    <2>3. /\ No_reply.kind = "none" /\ echo(q).kind = "echo"
          /\ \A c : exception(c).kind = "exception" /\ exception(c).code = c
          /\ ILLEGAL_VALUE = 3 /\ ILLEGAL_ADDRESS = 2 /\ ILLEGAL_FUNCTION = 1
      BY DEF No_reply, echo, exception, ILLEGAL_VALUE, ILLEGAL_ADDRESS, ILLEGAL_FUNCTION
    <2>4. \A i \in 0..(q.field - 1) :
             modbus_read_holding(new, (q.start + i) % WORD) =
               IF i \in done THEN q.data[i + 1] ELSE modbus_read_holding(mem, (q.start + i) % WORD)
      BY <2>1, RunWritten, Zenon DEF run_addr
    <2>5. \A i \in 0..(q.field - 1) : i \in done <=> \A j \in 0..i : legal(j)
      <3>1. \A j \in 0..(q.field - 1) : dev(j) # Unmapped <=> legal(j)
        <4> SUFFICES ASSUME NEW j \in 0..(q.field - 1) PROVE dev(j) # Unmapped <=> legal(j)
          BY Zenon
        <4>1. run_addr(q, j) \in Nat
          BY <2>1, RunDistinct, Zenon
        <4>2. \A a : <<"D", a>> # Unmapped
          BY DEF Unmapped
        <4> QED BY <4>1, <4>2, HoldingDevice, Zenon DEF run_addr
      <3> SUFFICES ASSUME NEW i \in 0..(q.field - 1)
                   PROVE  i \in done <=> \A j \in 0..i : legal(j)
        BY Zenon
      <3>2. \A j \in 0..i : j \in 0..(q.field - 1)
        <4>1. q.field \in Nat
          BY <2>1, WordSize
        <4> QED BY <4>1
      <3>3. i \in done <=> \A j \in 0..i : dev(j) # Unmapped
        BY Zenon DEF written_run
      <3> QED BY <3>1, <3>2, <3>3, Zenon
    <2>6. CASE exec.mem = mem /\ exec.reply = No_reply
      <3>1. exec.reply.kind = "none"
        BY <2>3, <2>6, Zenon
      <3> HIDE DEF exec
      <3> QED BY <2>3, <3>1 DEF exec
    <2>7. CASE exec.mem = mem /\ exec.reply = exception(ILLEGAL_VALUE)
      <3>1. exec.reply.kind = "exception" /\ exec.reply.code = 3
        BY <2>3, <2>7, Zenon
      <3> HIDE DEF exec
      <3> QED BY <2>3, <2>7, <3>1 DEF exec
    <2>8. CASE exec.mem = new /\ done = 0..(q.field - 1) /\ exec.reply = echo(q)
      <3>1. exec.reply.kind = "echo"
        BY <2>3, <2>8, Zenon
      <3>2. \A i \in 0..(q.field - 1) : i \in 0..i
        OBVIOUS
      <3>3. \A i \in 0..(q.field - 1) :
               legal(i) /\ modbus_read_holding(exec.mem, (q.start + i) % WORD) = q.data[i + 1]
        BY <2>4, <2>5, <2>8, <3>2, Zenon
      <3> HIDE DEF exec, legal
      <3> QED BY <2>3, <3>1, <3>3 DEF exec, legal
    <2>9. CASE exec.mem = new /\ exec.reply = exception(ILLEGAL_ADDRESS)
      <3>1. exec.reply.kind = "exception" /\ exec.reply.code = 2
        BY <2>3, <2>9, Zenon
      <3>2. \A i \in 0..(q.field - 1) :
               IF \A j \in 0..i : legal(j)
               THEN modbus_read_holding(exec.mem, (q.start + i) % WORD) = q.data[i + 1]
               ELSE modbus_read_holding(exec.mem, (q.start + i) % WORD)
                      = modbus_read_holding(mem, (q.start + i) % WORD)
        BY <2>4, <2>5, <2>9, Zenon
      <3> HIDE DEF exec, legal
      <3> QED BY <2>3, <3>1, <3>2 DEF exec, legal
    <2> QED BY <2>2, <2>6, <2>7, <2>8, <2>9, Zenon
  <1> QED BY <1>1, PTL

------------------------------------------------------------------------------
(* The monitor list and its sample *)

\* Bit devices hold bits: the families of the bit areas of fx_addr.c and of the
\* coils of modbus_map.c, and what an unplaced address reads as.
BitFamilies == {"X", "Y", "M", "S", "TC", "CC", "unmapped"}
MemOK(m) ==
    Unmapped \notin DOMAIN m
    /\ \A d \in DOMAIN m : m[d] \in Int /\ (d[1] \in BitFamilies => m[d] \in {0, 1})

\* The cells of the list are 16-bit; the sample never outgrows its buffer.
ListOK == list \in [0..(LIST_CELLS - 1) -> 0..(WORD - 1)]
ResultOK == DOMAIN result = 0..(RESULT_BYTES - 1) /\ result_len \in 0..RESULT_BYTES

\* The kept sample is the devices as they were at the sample.
Sampled(words, bits) ==
    /\ words = [i \in 1..Len(words) |-> words[i]] /\ bits = [j \in 1..Len(bits) |-> bits[j]]
    /\ Len(words) \in Nat /\ Len(bits) \in Nat
    /\ result_len = 2 * Len(words) + (Len(bits) + 7) \div 8
    /\ \A i \in 1..Len(words) : result[2 * i - 2] + BYTE * result[2 * i - 1] = words[i]
    /\ \A j \in 0..(Len(bits) - 1) :
          (result[2 * Len(words) + j \div 8] \div Mask[(j % 8) + 1]) % 2 = bits[j + 1]

\* What the host has read so far is the head of that sample.
ViewOK ==
    /\ view \in Seq({served(k) : k \in Nat})
    /\ \A k \in 1..Len(view) : view[k] = served(k - 1)

MonitorInv ==
    MemOK(mem) /\ ListOK /\ ResultOK /\ Sampled(at_sample.words, at_sample.bits) /\ ViewOK

\* Every device of a map belongs to a family of one of its areas.
LEMMA DeviceFamily ==
    ASSUME NEW areas, NEW F, \A a \in areas : a[3] \in F, NEW addr
    PROVE  Device(areas, addr) = Unmapped \/ Device(areas, addr)[1] \in F
  <1>1. \A x, y : <<x, y>>[1] = x
    OBVIOUS
  <1>2. CASE Device(areas, addr) = Unmapped
    BY <1>2
  <1>3. CASE \E a \in areas : Device(areas, addr) = <<a[3], a[4] + addr - a[1]>>
    <2>1. PICK a \in areas : Device(areas, addr) = <<a[3], a[4] + addr - a[1]>>
      BY <1>3
    <2>2. Device(areas, addr)[1] = a[3]
      BY <1>1, <2>1
    <2> QED BY <2>2
  <1> QED BY <1>2, <1>3, DeviceCases, Zenon

\* The bounded accessors: what Put, Overlay and Get keep.
LEMMA PutOK ==
    ASSUME NEW m, MemOK(m), NEW d, NEW v \in Int, Exists(d) /\ d[1] \in BitFamilies => v \in {0, 1}
    PROVE  MemOK(Put(m, d, v))
  <1>1. CASE ~Exists(d)
    BY <1>1, Zenon DEF Put
  <1>2. CASE Exists(d)
    <2> DEFINE new == [x \in {d} |-> v]
               p == Overlay(new, m)
    <2>1. Put(m, d, v) = p
      BY <1>2, Zenon DEF Put
    <2>2. /\ DOMAIN p = {d} \cup DOMAIN m
          /\ \A x \in DOMAIN p : p[x] = IF x = d THEN v ELSE m[x]
      BY Zenon DEF Overlay
    <2> HIDE DEF p
    <2>5. Unmapped \notin DOMAIN p
      BY <1>2, <2>2, Zenon DEF Exists, MemOK
    <2> SUFFICES ASSUME NEW x \in DOMAIN p
                 PROVE  p[x] \in Int /\ (x[1] \in BitFamilies => p[x] \in {0, 1})
      BY <2>1, <2>5, Zenon DEF MemOK
    <2>3. CASE x = d
      BY <1>2, <2>2, <2>3, Zenon
    <2>4. CASE x # d
      BY <2>2, <2>4, Zenon DEF MemOK
    <2> QED BY <2>3, <2>4
  <1> QED BY <1>1, <1>2

\* Laying one memory over another keeps the values in range.
LEMMA OverlayOK ==
    ASSUME NEW m, MemOK(m), NEW new, MemOK(new)
    PROVE  MemOK(Overlay(new, m))
  <1> DEFINE p == Overlay(new, m)
  <1>1. /\ DOMAIN p = DOMAIN new \cup DOMAIN m
        /\ \A x \in DOMAIN p : p[x] = IF x \in DOMAIN new THEN new[x] ELSE m[x]
    BY Zenon DEF Overlay
  <1> HIDE DEF p
  <1>2. Unmapped \notin DOMAIN p
    BY <1>1, Zenon DEF MemOK
  <1> SUFFICES ASSUME NEW x \in DOMAIN p
               PROVE  p[x] \in Int /\ (x[1] \in BitFamilies => p[x] \in {0, 1})
    BY <1>2, Zenon DEF MemOK, p
  <1>3. CASE x \in DOMAIN new
    BY <1>1, <1>3, Zenon DEF MemOK
  <1>4. CASE x \notin DOMAIN new
    BY <1>1, <1>4, Zenon DEF MemOK
  <1> QED BY <1>3, <1>4

\* What a device reads as is in range.
LEMMA GetOK ==
    ASSUME NEW m, MemOK(m), NEW d
    PROVE  Get(m, d) \in Int /\ (d[1] \in BitFamilies => Get(m, d) \in {0, 1})
  <1>1. 0 \in Int
    OBVIOUS
  <1> QED BY <1>1, Zenon DEF MemOK, Get

\* The bits of a byte are written one after another (the loop of
\* fx_addr_write_byte): the function its definition describes exists.
LEMMA WriteBitsDef ==
    ASSUME NEW m, NEW addr, NEW v
    PROVE  write_bits(m, addr, v) =
             [n \in 0..8 |-> IF n = 0 THEN m
                             ELSE fx_addr_write_bit(write_bits(m, addr, v)[n - 1], addr, n - 1,
                                                    (v \div Mask[n]) % 2)]
  <1> DEFINE step(x, n) == fx_addr_write_bit(x, addr, n - 1, (v \div Mask[n]) % 2)
             Eq(f) == f = [n \in 0..8 |-> IF n = 0 THEN m ELSE step(f[n - 1], n)]
  <1>1. \E f : Eq(f)
    <2> HIDE DEF step
    <2> DEFINE m1 == step(m, 1)
               m2 == step(m1, 2)
               m3 == step(m2, 3)
               m4 == step(m3, 4)
               m5 == step(m4, 5)
               m6 == step(m5, 6)
               m7 == step(m6, 7)
               m8 == step(m7, 8)
               f == [n \in 0..8 |->
                       IF n = 0 THEN m ELSE IF n = 1 THEN m1 ELSE IF n = 2 THEN m2
                       ELSE IF n = 3 THEN m3 ELSE IF n = 4 THEN m4 ELSE IF n = 5 THEN m5
                       ELSE IF n = 6 THEN m6 ELSE IF n = 7 THEN m7 ELSE m8]
    <2>1. \A n \in 0..8 : n = 0 \/ n = 1 \/ n = 2 \/ n = 3 \/ n = 4 \/ n = 5 \/ n = 6 \/ n = 7 \/ n = 8
      OBVIOUS
    <2> HIDE DEF m1, m2, m3, m4, m5, m6, m7, m8
    <2>2. /\ f[0] = m /\ f[1] = m1 /\ f[2] = m2 /\ f[3] = m3 /\ f[4] = m4 /\ f[5] = m5
          /\ f[6] = m6 /\ f[7] = m7 /\ f[8] = m8
      OBVIOUS
    <2>0. f = [n \in 0..8 |-> f[n]]
      BY Zenon
    <2> HIDE DEF f
    <2>3. /\ f[1] = step(f[0], 1) /\ f[2] = step(f[1], 2) /\ f[3] = step(f[2], 3)
          /\ f[4] = step(f[3], 4) /\ f[5] = step(f[4], 5) /\ f[6] = step(f[5], 6)
          /\ f[7] = step(f[6], 7) /\ f[8] = step(f[7], 8)
      BY <2>2, Zenon DEF m1, m2, m3, m4, m5, m6, m7, m8
    <2>4. \A n \in 0..8 : f[n] = IF n = 0 THEN m ELSE step(f[n - 1], n)
      <3>1. 1 - 1 = 0 /\ 2 - 1 = 1 /\ 3 - 1 = 2 /\ 4 - 1 = 3 /\ 5 - 1 = 4 /\ 6 - 1 = 5
            /\ 7 - 1 = 6 /\ 8 - 1 = 7
        OBVIOUS
      <3> SUFFICES ASSUME NEW n \in 0..8 PROVE f[n] = IF n = 0 THEN m ELSE step(f[n - 1], n)
        BY Zenon
      <3> QED BY <2>1, <2>2, <2>3, <3>1
    <2>5. f = [n \in 0..8 |-> IF n = 0 THEN m ELSE step(f[n - 1], n)]
      BY <2>0, <2>4, Zenon
    <2> QED BY <2>5, Zenon
  <1>2. write_bits(m, addr, v) = CHOOSE f : Eq(f)
    BY DEF write_bits
  <1>3. Eq(write_bits(m, addr, v))
    <2> HIDE DEF Eq
    <2> QED BY <1>1, <1>2, Zenon
  <1> QED BY <1>3

\* A property of memories kept by each bit is kept by the byte.
LEMMA WriteBitsOK ==
    ASSUME NEW m, MemOK(m), NEW addr, NEW v \in Int
    PROVE  MemOK(write_bits(m, addr, v)[8])
  <1> DEFINE w == write_bits(m, addr, v)
             step(x, n) == fx_addr_write_bit(x, addr, n - 1, (v \div Mask[n]) % 2)
  <1>1. w = [n \in 0..8 |-> IF n = 0 THEN m ELSE step(w[n - 1], n)]
    BY WriteBitsDef
  <1>2. ASSUME NEW x, MemOK(x), NEW n \in 1..8
        PROVE  MemOK(step(x, n))
    <2>1. (v \div Mask[n]) % 2 \in {0, 1}
      <3>1. Mask[n] \in Nat /\ Mask[n] > 0
        BY DEF Mask
      <3> QED BY <3>1
    <2>2. {0, 1} \subseteq Int
      OBVIOUS
    <2> QED BY <1>2, <2>1, <2>2, PutOK, Zenon DEF fx_addr_write_bit
  <1> HIDE DEF w, step
  <1>3. /\ w[0] = m /\ w[1] = step(w[0], 1) /\ w[2] = step(w[1], 2) /\ w[3] = step(w[2], 3)
        /\ w[4] = step(w[3], 4) /\ w[5] = step(w[4], 5) /\ w[6] = step(w[5], 6)
        /\ w[7] = step(w[6], 7) /\ w[8] = step(w[7], 8)
    BY <1>1
  <1>4. {1, 2, 3, 4, 5, 6, 7, 8} \subseteq 1..8
    OBVIOUS
  <1>5. MemOK(w[1]) /\ MemOK(w[2]) /\ MemOK(w[3]) /\ MemOK(w[4])
    BY <1>2, <1>3, <1>4, Zenon
  <1>6. MemOK(w[5]) /\ MemOK(w[6]) /\ MemOK(w[7]) /\ MemOK(w[8])
    BY <1>2, <1>3, <1>4, <1>5, Zenon
  <1> QED BY <1>6 DEF w

\* The maps of words have no bit families.
LEMMA WordFamilies ==
    ASSUME NEW addr
    PROVE  /\ Device(write_word_areas, addr) = Unmapped
              \/ Device(write_word_areas, addr)[1] \notin BitFamilies
           /\ Device(write_holding_areas, addr) = Unmapped
              \/ Device(write_holding_areas, addr)[1] \notin BitFamilies
  <1> DEFINE F == {"T", "C", "D"}
  <1>1. /\ \A a \in write_word_areas : a[3] \in F
        /\ \A a \in write_holding_areas : a[3] \in F
    BY DEF write_word_areas, write_holding_areas
  <1>2. \A x \in F : x \notin BitFamilies
    BY DEF BitFamilies
  <1> HIDE DEF F
  <1> QED BY <1>1, <1>2, DeviceFamily, Zenon

\* A byte of the host, in any area, leaves bits in the bit devices.
LEMMA WriteByteOK ==
    ASSUME NEW m, MemOK(m), NEW addr \in Nat, NEW v \in Int
    PROVE  MemOK(fx_addr_write_byte(m, addr, v))
  <1>1. CASE addr < FX_ADDR_BIT_END
    BY <1>1, WriteBitsOK, Zenon DEF fx_addr_write_byte
  <1>2. CASE ~(addr < FX_ADDR_BIT_END) /\ addr >= FX_ADDR_PROGRAM
    <2>1. <<"P", addr - FX_ADDR_PROGRAM>>[1] \notin BitFamilies
      BY DEF BitFamilies
    <2> QED BY <1>2, <2>1, PutOK, Zenon DEF fx_addr_write_byte
  <1>3. CASE ~(addr < FX_ADDR_BIT_END) /\ ~(addr >= FX_ADDR_PROGRAM)
    <2> DEFINE d == Device(write_word_areas, addr \div 2)
               x == word_merge(Get(m, d), addr, v)
    <2>1. x \in Int
      <3>1. \A g \in Int : word_merge(g, addr, v) \in Int
        BY DEF word_merge, BYTE, WORD
      <3> QED BY <3>1, GetOK, Zenon
    <2>2. Exists(d) /\ d[1] \in BitFamilies => x \in {0, 1}
      BY WordFamilies, Zenon DEF Exists
    <2>3. MemOK(Put(m, d, x))
      <3> HIDE DEF d, x
      <3> QED BY <2>1, <2>2, PutOK, Zenon
    <2> QED BY <1>3, <2>3, Zenon DEF fx_addr_write_byte
  <1> QED BY <1>1, <1>2, <1>3, Zenon

\* The loop of functions 15 and 16.
LEMMA WriteRunOK ==
    ASSUME NEW m, MemOK(m), NEW q, NEW areas, NEW bytes,
           \A k \in written_run(areas, q) :
              payload_fits(q) /\ q.bytes = bytes =>
                 /\ q.data[1 + k] \in Int
                 /\ Device(areas, run_addr(q, k))[1] \in BitFamilies => q.data[1 + k] \in {0, 1}
    PROVE  MemOK(write_run(m, q, areas, bytes).mem)
  <1> DEFINE done == written_run(areas, q)
             dev(k) == Device(areas, run_addr(q, k))
             at(d) == {k \in done : dev(k) = d}
             devices == {dev(k) : k \in done}
             pick(d) == CHOOSE k \in at(d) : TRUE
             over == [d \in devices |-> q.data[1 + pick(d)]]
             w == write_run(m, q, areas, bytes)
  <1>1. CASE ~payload_fits(q) \/ q.field = 0 \/ q.bytes # bytes
    <2>1. w = [mem |-> m, reply |-> exception(ILLEGAL_VALUE)]
      BY <1>1, Zenon DEF write_run
    <2> HIDE DEF w
    <2>2. w.mem = m
      BY <2>1
    <2> QED BY <2>2, Zenon DEF w
  <1>2. CASE ~(~payload_fits(q) \/ q.field = 0 \/ q.bytes # bytes)
    <2>1. w = [mem |-> Overlay(over, m),
               reply |-> IF done = 0..(q.field - 1) THEN echo(q) ELSE exception(ILLEGAL_ADDRESS)]
      BY <1>2, Zenon DEF write_run
    <2>2. w.mem = Overlay(over, m)
      <3> HIDE DEF w, over, done
      <3> QED BY <2>1
    <2>3. MemOK(over)
      <3>1. DOMAIN over = devices
        BY Zenon
      <3> SUFFICES ASSUME NEW d \in devices
                   PROVE  over[d] \in Int /\ (d[1] \in BitFamilies => over[d] \in {0, 1})
        <4>1. \A k \in done : k \in 0..k
          BY DEF written_run
        <4>2. Unmapped \notin devices
          BY <4>1, Zenon DEF written_run
        <4> QED BY <3>1, <4>2, Zenon DEF MemOK
      <3>2. pick(d) \in at(d)
        BY Zenon
      <3>3. over[d] = q.data[1 + pick(d)]
        BY Zenon
      <3>4. pick(d) \in done /\ dev(pick(d)) = d
        BY <3>2, Zenon
      <3> HIDE DEF pick
      <3> QED BY <1>2, <3>3, <3>4, Zenon
    <2>4. MemOK(Overlay(over, m))
      <3> HIDE DEF over
      <3> QED BY <2>3, OverlayOK, Zenon
    <2> QED BY <2>2, <2>4, Zenon
  <1> QED BY <1>1, <1>2

\* A single-device write keeps the values in range.
LEMMA WriteOneOK ==
    ASSUME NEW m, MemOK(m), NEW q, NEW areas, NEW v \in Int,
           LET d == Device(areas, q.start) IN Exists(d) /\ d[1] \in BitFamilies => v \in {0, 1}
    PROVE  MemOK(write_one(m, q, areas, v).mem)
  <1> DEFINE d == Device(areas, q.start)
             w == write_one(m, q, areas, v)
  <1>1. w = [mem |-> m, reply |-> exception(ILLEGAL_ADDRESS)] \/ w = [mem |-> Put(m, d, v), reply |-> echo(q)]
    BY Zenon DEF write_one
  <1>2. w.mem = m \/ w.mem = Put(m, d, v)
    <2> HIDE DEF w, d
    <2> QED BY <1>1
  <1>3. MemOK(Put(m, d, v))
    <2> HIDE DEF d
    <2> QED BY PutOK, Zenon DEF d
  <1> QED BY <1>2, <1>3, Zenon

\* A Modbus request leaves bits in the bit devices.
LEMMA RequestOK ==
    ASSUME NEW m, MemOK(m), NEW q \in REQUESTS
    PROVE  MemOK(modbus_pdu_exec(m, q).mem)
  <1> DEFINE exec == modbus_pdu_exec(m, q)
             w5(v) == write_one(m, q, write_coil_areas, v)
             w6 == write_one(m, q, write_holding_areas, q.field)
             w15 == write_run(m, q, write_coil_areas, (q.field + 7) \div 8)
             w16 == write_run(m, q, write_holding_areas, 2 * q.field)
  <1>1. \/ \E r : exec = [mem |-> m, reply |-> r]
        \/ exec = w5(0) \/ exec = w5(1) \/ exec = w6
        \/ q.fc = 15 /\ exec = w15
        \/ q.fc = 16 /\ exec = w16
    <2> DEFINE only(reply) == [mem |-> m, reply |-> reply]
    <2>1. CASE q.len < 2 \/ q.len < MB_REQ_FIXED
      <3>1. exec = only(No_reply) \/ exec = only(exception(ILLEGAL_VALUE))
        BY <2>1, Zenon DEF modbus_pdu_exec
      <3> QED BY <3>1, Zenon
    <2>2. CASE ~(q.len < 2) /\ ~(q.len < MB_REQ_FIXED)
      <3>1. CASE q.fc \in {1, 2, 3, 4}
        <4>1. \/ exec = only(read_run(m, q, read_coil_areas, MAX_BITS))
              \/ exec = only(read_run(m, q, read_discrete_areas, MAX_BITS))
              \/ exec = only(read_run(m, q, read_holding_areas, MAX_WORDS))
              \/ exec = only(read_run(m, q, read_input_areas, MAX_WORDS))
          BY <2>2, <3>1 DEF modbus_pdu_exec
        <4> QED BY <4>1, Zenon
      <3>2. CASE q.fc = 5
        <4>1. exec = IF q.field \notin {0, COIL_ON} THEN only(exception(ILLEGAL_VALUE))
                     ELSE write_one(m, q, write_coil_areas, IF q.field = COIL_ON THEN 1 ELSE 0)
          BY <2>2, <3>2 DEF modbus_pdu_exec
        <4> QED BY <4>1, Zenon
      <3>3. CASE q.fc = 6
        BY <2>2, <3>3 DEF modbus_pdu_exec
      <3>4. CASE q.fc = 15
        BY <2>2, <3>4 DEF modbus_pdu_exec
      <3>5. CASE q.fc = 16
        BY <2>2, <3>5 DEF modbus_pdu_exec
      <3>6. CASE q.fc \notin {1, 2, 3, 4, 5, 6, 15, 16}
        <4>1. exec = only(exception(ILLEGAL_FUNCTION))
          BY <2>2, <3>6 DEF modbus_pdu_exec
        <4> QED BY <4>1, Zenon
      <3> QED BY <3>1, <3>2, <3>3, <3>4, <3>5, <3>6, Zenon
    <2> QED BY <2>1, <2>2
  <1>2. q.start \in 0..(WORD - 1) /\ q.field \in 0..(WORD - 1)
    BY MonitorAssumption, Zenon DEF MonitorAssumption
  <1>3. q.field \in Int
    BY <1>2, WordSize
  <1>4. CASE \E r : exec = [mem |-> m, reply |-> r]
    <2> HIDE DEF exec
    <2>1. exec.mem = m
      BY <1>4
    <2> QED BY <2>1, Zenon DEF exec
  <1>5. MemOK(w5(0).mem) /\ MemOK(w5(1).mem)
    <2>1. 0 \in Int /\ 1 \in Int
      OBVIOUS
    <2> QED BY <2>1, WriteOneOK, Zenon
  <1>6. MemOK(w6.mem)
    BY <1>3, WordFamilies, WriteOneOK, Zenon DEF Exists
  <1>7. \A k \in 0..(q.field - 1) : 1 + k \in 1..q.field
    BY <1>3
  <1>8. ASSUME q.fc = 15 PROVE MemOK(w15.mem)
    <2>1. \A k \in written_run(write_coil_areas, q) : k \in 0..(q.field - 1)
      BY Zenon DEF written_run
    <2>2. \A k \in written_run(write_coil_areas, q) :
             payload_fits(q) /\ q.bytes = (q.field + 7) \div 8 => q.data[1 + k] \in {0, 1}
      BY <1>7, <1>8, <2>1, MonitorAssumption, Zenon DEF MonitorAssumption
    <2>3. {0, 1} \subseteq Int
      OBVIOUS
    <2> QED BY <2>2, <2>3, WriteRunOK, Zenon
  <1>9. ASSUME q.fc = 16 PROVE MemOK(w16.mem)
    <2>1. \A k \in written_run(write_holding_areas, q) :
             k \in 0..(q.field - 1) /\ k \in 0..k
      BY DEF written_run
    <2>2. \A k \in written_run(write_holding_areas, q) :
             payload_fits(q) /\ q.bytes = 2 * q.field => q.data[1 + k] \in 0..(WORD - 1)
      BY <1>7, <1>9, <2>1, MonitorAssumption, Zenon DEF MonitorAssumption
    <2>3. \A x \in 0..(WORD - 1) : x \in Int
      BY WordSize
    <2>4. \A k \in written_run(write_holding_areas, q) :
             Device(write_holding_areas, run_addr(q, k)) # Unmapped
      BY <2>1, Zenon DEF written_run
    <2> QED BY <2>2, <2>3, <2>4, WordFamilies, WriteRunOK, Zenon
  <1> HIDE DEF exec, w5, w6, w15, w16
  <1> QED BY <1>1, <1>4, <1>5, <1>6, <1>8, <1>9, Zenon DEF exec

\* Packing eight bits into a byte loses none of them.
LEMMA PackedBits ==
    ASSUME NEW b0 \in {0, 1}, NEW b1 \in {0, 1}, NEW b2 \in {0, 1}, NEW b3 \in {0, 1},
           NEW b4 \in {0, 1}, NEW b5 \in {0, 1}, NEW b6 \in {0, 1}, NEW b7 \in {0, 1}
    PROVE  LET p == b0 + 2 * b1 + 4 * b2 + 8 * b3 + 16 * b4 + 32 * b5 + 64 * b6 + 128 * b7
           IN  /\ p \in 0..255
               /\ (p \div 1) % 2 = b0 /\ (p \div 2) % 2 = b1 /\ (p \div 4) % 2 = b2
               /\ (p \div 8) % 2 = b3 /\ (p \div 16) % 2 = b4 /\ (p \div 32) % 2 = b5
               /\ (p \div 64) % 2 = b6 /\ (p \div 128) % 2 = b7
  OBVIOUS

\* Reading a force number gives a bit.
LEMMA ForceReadBit ==
    ASSUME NEW m, MemOK(m), NEW a
    PROVE  fx_addr_force_read(m, a) \in {0, 1}
  <1>1. \A x \in force_read_areas : x[3] \in BitFamilies
    BY DEF force_read_areas, BitFamilies
  <1>2. Unmapped[1] \in BitFamilies
    BY DEF Unmapped, BitFamilies
  <1>3. Device(force_read_areas, a)[1] \in BitFamilies
    BY <1>1, <1>2, DeviceFamily, Zenon
  <1> QED BY <1>3, GetOK, Zenon DEF fx_addr_force_read

\* A byte of bits of the sample, taken apart again.
LEMMA BitByte ==
    ASSUME MemOK(mem), NEW k \in Nat, NEW i \in 0..7, 8 * k + i < bit_count(list)
    PROVE  (bit_byte(k) \div Mask[i + 1]) % 2
             = fx_addr_force_read(mem, list[2 + word_count(list) + 8 * k + i])
  <1> DEFINE on(j) == IF 8 * k + j < bit_count(list)
                      THEN fx_addr_force_read(mem, list[2 + word_count(list) + 8 * k + j]) ELSE 0
  <1>1. \A j : on(j) \in {0, 1}
    <2>1. 0 \in {0, 1}
      OBVIOUS
    <2> QED BY <2>1, ForceReadBit, Zenon
  <1>2. bit_byte(k) = on(0) + 2 * on(1) + 4 * on(2) + 8 * on(3) + 16 * on(4) + 32 * on(5)
                      + 64 * on(6) + 128 * on(7)
    BY Zenon DEF bit_byte, packed
  <1>3. on(i) = fx_addr_force_read(mem, list[2 + word_count(list) + 8 * k + i])
    OBVIOUS
  <1> DEFINE p == bit_byte(k)
  <1> HIDE DEF on
  <1>4. /\ (p \div 1) % 2 = on(0) /\ (p \div 2) % 2 = on(1) /\ (p \div 4) % 2 = on(2)
        /\ (p \div 8) % 2 = on(3) /\ (p \div 16) % 2 = on(4) /\ (p \div 32) % 2 = on(5)
        /\ (p \div 64) % 2 = on(6) /\ (p \div 128) % 2 = on(7)
    <2>1. /\ on(0) \in {0, 1} /\ on(1) \in {0, 1} /\ on(2) \in {0, 1} /\ on(3) \in {0, 1}
          /\ on(4) \in {0, 1} /\ on(5) \in {0, 1} /\ on(6) \in {0, 1} /\ on(7) \in {0, 1}
      BY <1>1, Zenon
    <2> HIDE DEF p
    <2>2. p = on(0) + 2 * on(1) + 4 * on(2) + 8 * on(3) + 16 * on(4) + 32 * on(5)
              + 64 * on(6) + 128 * on(7)
      BY <1>2, Zenon DEF p
    <2>3. PICK b0, b1, b2, b3, b4, b5, b6, b7 \in {0, 1} :
              /\ b0 = on(0) /\ b1 = on(1) /\ b2 = on(2) /\ b3 = on(3)
              /\ b4 = on(4) /\ b5 = on(5) /\ b6 = on(6) /\ b7 = on(7)
      <3>1. \A y \in {0, 1} : \E b \in {0, 1} : b = y
        OBVIOUS
      <3> QED BY <2>1, <3>1
    <2>4. p = b0 + 2 * b1 + 4 * b2 + 8 * b3 + 16 * b4 + 32 * b5 + 64 * b6 + 128 * b7
      BY <2>2, <2>3, Zenon
    <2>5. /\ (p \div 1) % 2 = b0 /\ (p \div 2) % 2 = b1 /\ (p \div 4) % 2 = b2
          /\ (p \div 8) % 2 = b3 /\ (p \div 16) % 2 = b4 /\ (p \div 32) % 2 = b5
          /\ (p \div 64) % 2 = b6 /\ (p \div 128) % 2 = b7
      BY <2>4, PackedBits
    <2> QED BY <2>3, <2>5, Zenon
  <1> HIDE DEF p
  <1>5. i = 0 \/ i = 1 \/ i = 2 \/ i = 3 \/ i = 4 \/ i = 5 \/ i = 6 \/ i = 7
    OBVIOUS
  <1>6. (p \div Mask[i + 1]) % 2 = on(i)
    BY <1>4, <1>5 DEF Mask
  <1> QED BY <1>3, <1>6 DEF p

\* fx_monitor_sample: whatever the list says, the buffer afterwards holds the
\* listed devices, and never more than fits.
LEMMA SampleTaken ==
    ASSUME MemOK(mem), ListOK, ResultOK, fx_monitor_sample, at_sample' = Listed(list)
    PROVE  ResultOK' /\ Sampled(at_sample.words, at_sample.bits)'
  <1> DEFINE W == word_count(list)
             B == bit_count(list)
             bytes(a) == fx_addr_read_byte(mem, a)
             bit(a) == fx_addr_force_read(mem, a)
             ws == [i \in 1..W |-> bytes(list[1 + i]) + BYTE * bytes((list[1 + i] + 1) % WORD)]
             bs == [j \in 1..B |-> bit(list[1 + W + j])]
  <1>c. LIST_CELLS \in Nat /\ LIST_CELLS >= 2 /\ RESULT_BYTES \in Nat
    BY MonitorAssumption DEF MonitorAssumption
  <1>l. \A k \in 0..(LIST_CELLS - 1) : list[k] \in 0..(WORD - 1)
    BY Zenon DEF ListOK
  <1>1. W \in Nat /\ B \in Nat
    <2>1. list[0] \in 0..(WORD - 1) /\ list[1] \in 0..(WORD - 1)
      <3>1. 0 \in 0..(LIST_CELLS - 1) /\ 1 \in 0..(LIST_CELLS - 1)
        BY <1>c
      <3> QED BY <1>l, <3>1, Zenon
    <2>2. list[0] \in Nat /\ list[1] \in Nat
      BY <2>1, WordSize
    <2> QED BY <2>2 DEF word_count, bit_count, BYTE
  <1>2. CASE ~list_ok(list)
    <2>1. at_sample' = NoDevices
      BY <1>2, Zenon DEF Listed, list_ok, sample_len, word_count, bit_count
    <2>2. result_len' = 0 /\ result' = result
      BY <1>2, Zenon DEF fx_monitor_sample
    <2>3. at_sample'.words = << >> /\ at_sample'.bits = << >>
      BY <2>1 DEF NoDevices
    <2> QED BY <1>c, <2>2, <2>3 DEF ResultOK, Sampled
  <1>3. CASE list_ok(list)
    <2>1. /\ 2 + W + B <= LIST_CELLS
          /\ sample_len(list) = 2 * W + (B + 7) \div 8
          /\ sample_len(list) <= RESULT_BYTES
      BY <1>3, Zenon DEF list_ok, sample_len
    <2>2. at_sample' = [words |-> ws, bits |-> bs]
      BY <1>3, Zenon DEF Listed, list_ok, sample_len, word_count, bit_count
    <2>3. at_sample'.words = ws /\ at_sample'.bits = bs
      <3> HIDE DEF ws, bs
      <3> QED BY <2>2
    <2>4. result_len' = sample_len(list) /\ result' = sampled
      BY <1>3, Zenon DEF fx_monitor_sample
    <2> HIDE DEF W, B
    <2>5. Len(ws) = W /\ Len(bs) = B
      BY <1>1
    <2>6. /\ ws = [i \in 1..Len(ws) |-> ws[i]] /\ bs = [j \in 1..Len(bs) |-> bs[j]]
      BY <2>5, Zenon
    <2>7. sample_len(list) \in 0..RESULT_BYTES
      BY <1>1, <1>c, <2>1
    <2>8. ResultOK'
      <3>1. DOMAIN sampled = DOMAIN result
        BY Zenon DEF sampled
      <3> QED BY <2>4, <2>7, <3>1, Zenon DEF ResultOK
    <2>9. ASSUME NEW i \in 1..W
          PROVE  result'[2 * i - 2] + BYTE * result'[2 * i - 1] = ws[i]
      <3>1. /\ 2 * i - 2 \in 0..(RESULT_BYTES - 1) /\ 2 * i - 1 \in 0..(RESULT_BYTES - 1)
            /\ 2 * i - 2 < 2 * W /\ 2 * i - 1 < 2 * W
        BY <1>1, <1>c, <2>1
      <3>2. /\ 2 + (2 * i - 2) \div 2 = 1 + i /\ (2 * i - 2) % 2 = 0
            /\ 2 + (2 * i - 1) \div 2 = 1 + i /\ (2 * i - 1) % 2 = 1
        <4>1. i \in Int
          OBVIOUS
        <4> QED BY <4>1
      <3>3. 1 + i \in 0..(LIST_CELLS - 1)
        BY <1>1, <1>c, <2>1
      <3>4. (list[1 + i] + 0) % WORD = list[1 + i]
        <4>1. list[1 + i] \in 0..(WORD - 1)
          BY <1>l, <3>3, Zenon
        <4>2. \A x \in 0..(WORD - 1) : x \in Nat /\ x < WORD
          BY WordSize
        <4>3. \A x \in Nat : x < WORD => (x + 0) % WORD = x
          BY DEF WORD
        <4> QED BY <4>1, <4>2, <4>3, Zenon
      <3>5. \A k \in 0..(RESULT_BYTES - 1) : k < 2 * W =>
               sampled[k] = bytes((list[2 + k \div 2] + (k % 2)) % WORD)
        BY Zenon DEF sampled, ResultOK, W
      <3>6. /\ sampled[2 * i - 2] = bytes(list[1 + i])
            /\ sampled[2 * i - 1] = bytes((list[1 + i] + 1) % WORD)
        BY <3>1, <3>2, <3>4, <3>5, Zenon
      <3>7. ws[i] = bytes(list[1 + i]) + BYTE * bytes((list[1 + i] + 1) % WORD)
        BY Zenon
      <3> QED BY <2>4, <3>6, <3>7, Zenon
    <2>10. ASSUME NEW j \in 0..(B - 1)
           PROVE  (result'[2 * W + j \div 8] \div Mask[(j % 8) + 1]) % 2 = bs[j + 1]
      <3> DEFINE k == j \div 8
                 i == j % 8
      <3>1. /\ k \in Nat /\ i \in 0..7 /\ 8 * k + i = j /\ 8 * k + i < B
            /\ 2 * W + k \in 0..(RESULT_BYTES - 1) /\ 2 * W + k < 2 * W + (B + 7) \div 8
            /\ ~(2 * W + k < 2 * W) /\ (2 * W + k) - 2 * W = k
            /\ j + 1 \in 1..B /\ 1 + W + (j + 1) = 2 + W + 8 * k + i
        BY <1>1, <1>c, <2>1
      <3> HIDE DEF k, i
      <3>2. sampled[2 * W + k] = bit_byte(k)
        <4>1. \A n \in 0..(RESULT_BYTES - 1) : ~(n < 2 * W) /\ n < sample_len(list) =>
                 sampled[n] = bit_byte(n - 2 * W)
          BY Zenon DEF sampled, ResultOK, W
        <4> QED BY <2>1, <3>1, <4>1, Zenon
      <3>3. (bit_byte(k) \div Mask[i + 1]) % 2 = bit(list[2 + W + 8 * k + i])
        BY <3>1, BitByte, Zenon DEF W, B
      <3>4. bs[j + 1] = bit(list[1 + W + (j + 1)])
        BY <3>1, Zenon
      <3> QED BY <2>4, <3>1, <3>2, <3>3, <3>4, Zenon DEF k, i
    <2> HIDE DEF ws, bs
    <2>11. Sampled(at_sample.words, at_sample.bits)'
      <3>1. result_len' = 2 * W + (B + 7) \div 8
        BY <2>1, <2>4, Zenon
      <3> QED BY <1>1, <2>3, <2>5, <2>6, <2>9, <2>10, <3>1, Zenon DEF Sampled
    <2> QED BY <2>8, <2>11
  <1> QED BY <1>2, <1>3

\* The host reads the first frame of a new sample.
LEMMA FirstFrame ==
    ASSUME view' = [k \in 1..FRAME |-> served(k - 1)']
    PROVE  ViewOK'
  <1>1. FRAME \in Nat
    BY MonitorAssumption DEF MonitorAssumption
  <1> DEFINE V == {served(k)' : k \in Nat}
             s(k) == served(k)'
  <1>2. \A k \in 1..FRAME : s(k - 1) \in V
    <2>1. \A k \in 1..FRAME : k - 1 \in Nat
      BY <1>1
    <2> QED BY <2>1, Zenon
  <1> HIDE DEF V, s
  <1>3. view' = [k \in 1..FRAME |-> s(k - 1)]
    BY DEF s
  <1>4. view' \in [1..FRAME -> V]
    BY <1>2, <1>3, Zenon
  <1>5. view' \in Seq(V) /\ Len(view') = FRAME
    BY <1>1, <1>4
  <1>6. \A k \in 1..Len(view') : view'[k] = s(k - 1)
    BY <1>3, <1>5, Zenon
  <1> QED BY <1>5, <1>6, Zenon DEF ViewOK, V, s

\* And a further frame of the same sample.
LEMMA NextFrame ==
    ASSUME ViewOK, UNCHANGED <<result, result_len>>,
           view' = view \o [k \in 1..FRAME |-> served(Len(view) + k - 1)]
    PROVE  ViewOK'
  <1>1. FRAME \in Nat
    BY MonitorAssumption DEF MonitorAssumption
  <1> DEFINE V == {served(k) : k \in Nat}
             L == Len(view)
             more == [k \in 1..FRAME |-> served(L + k - 1)]
  <1>2. \A k : served(k)' = served(k)
    BY Zenon DEF served
  <1>3. view \in Seq(V) /\ L \in Nat
    <2>1. view \in Seq(V)
      BY Zenon DEF ViewOK
    <2> HIDE DEF V
    <2> QED BY <2>1
  <1>4. \A k \in 1..FRAME : served(L + k - 1) \in V
    <2>1. \A k \in 1..FRAME : L + k - 1 \in Nat
      BY <1>1, <1>3
    <2> QED BY <2>1, Zenon
  <1>5. more \in [1..FRAME -> V]
    BY <1>4, Zenon
  <1>6. \A k \in 1..FRAME : more[k] = served(L + k - 1)
    BY Zenon
  <1>7. \A k \in 1..L : view[k] = served(k - 1)
    BY Zenon DEF ViewOK
  <1> HIDE DEF V, more, L
  <1>8. more \in Seq(V) /\ Len(more) = FRAME
    BY <1>1, <1>5
  <1>9. view \o more \in Seq(V) /\ Len(view \o more) = L + FRAME
    BY <1>3, <1>8, ConcatProperties, Zenon DEF L
  <1>10. ASSUME NEW k \in 1..(L + FRAME)
         PROVE  (view \o more)[k] = served(k - 1)
    <2>1. CASE k <= L
      <3>1. k \in 1..L /\ (view \o more)[k] = view[k]
        BY <1>1, <1>3, <1>8, <2>1 DEF L
      <3> QED BY <1>7, <3>1, Zenon
    <2>2. CASE ~(k <= L)
      <3>1. k - L \in 1..FRAME /\ (view \o more)[k] = more[k - L] /\ L + (k - L) - 1 = k - 1
        BY <1>1, <1>3, <1>8, <2>2 DEF L
      <3> QED BY <1>6, <3>1, Zenon
    <2> QED BY <2>1, <2>2
  <1>11. view' = view \o more
    BY DEF more, L
  <1>12. V = {served(k)' : k \in Nat}
    BY <1>2, Zenon DEF V
  <1> QED BY <1>2, <1>9, <1>10, <1>11, <1>12, Zenon DEF ViewOK

\* Every action keeps the invariant.
LEMMA MonitorInit == Init => MonitorInv
  <1> SUFFICES ASSUME Init PROVE MonitorInv
    OBVIOUS
  <1>c. LIST_CELLS \in Nat /\ RESULT_BYTES \in Nat
    BY MonitorAssumption DEF MonitorAssumption
  <1>1. MemOK(mem)
    <2>1. DOMAIN mem = {}
      BY DEF Init, plc_memory_init
    <2> QED BY <2>1, Zenon DEF MemOK
  <1>2. ListOK
    <2>1. 0 \in 0..(WORD - 1)
      BY WordSize
    <2> QED BY <2>1, Zenon DEF Init, ListOK
  <1>3. ResultOK
    <2>1. 0 \in 0..RESULT_BYTES
      BY <1>c
    <2> QED BY <2>1, Zenon DEF Init, ResultOK
  <1>4. Sampled(at_sample.words, at_sample.bits)
    <2>1. at_sample.words = << >> /\ at_sample.bits = << >> /\ result_len = 0
      BY DEF Init, NoDevices
    <2> QED BY <2>1 DEF Sampled
  <1>5. ViewOK
    <2> DEFINE V == {served(k) : k \in Nat}
    <2>1. view = << >>
      BY DEF Init
    <2> HIDE DEF V
    <2>2. view \in Seq(V) /\ 1..Len(view) = {}
      BY <2>1
    <2> QED BY <2>2, Zenon DEF ViewOK, V
  <1> QED BY <1>1, <1>2, <1>3, <1>4, <1>5 DEF MonitorInv

\* Every step of the port, of Modbus and of the scan preserves the invariant.
LEMMA MonitorStep == MonitorInv /\ [Next]_vars => MonitorInv'
  <1> SUFFICES ASSUME MonitorInv, [Next]_vars PROVE MonitorInv'
    OBVIOUS
  <1> USE DEF MonitorInv
  <1>0. ASSUME UNCHANGED monitor, MemOK(mem)' PROVE MonitorInv'
    <2>1. /\ list' = list /\ result' = result /\ result_len' = result_len
          /\ at_sample' = at_sample /\ view' = view
      BY <1>0 DEF monitor
    <2>2. ListOK' /\ ResultOK' /\ Sampled(at_sample.words, at_sample.bits)'
      BY <2>1, Zenon DEF ListOK, ResultOK, Sampled
    <2>3. ViewOK'
      BY <2>1, Zenon DEF ViewOK, served
    <2> QED BY <1>0, <2>2, <2>3
  <1>b. {0, 1} \subseteq Int
    OBVIOUS
  <1>p. ASSUME NEW d, NEW v \in {0, 1} PROVE MemOK(Put(mem, d, v))
    BY <1>b, PutOK, Zenon
  <1>1. ASSUME NEW w \in BYTE_WRITES, HostWrite(w[1], w[2]) PROVE MonitorInv'
    <2>1. w[1] \in Nat /\ w[2] \in 0..(BYTE - 1)
      BY MonitorAssumption, Zenon DEF MonitorAssumption
    <2>2. w[2] \in Int
      BY <2>1, WordSize
    <2>3. MemOK(fx_addr_write_byte(mem, w[1], w[2]))
      BY <2>1, <2>2, WriteByteOK, Zenon
    <2> QED BY <1>0, <1>1, <2>3, Zenon DEF HostWrite, Change
  <1>2. ASSUME NEW w \in BYTE_WRITES, HostBit(w[1], 7, w[2] % 2) PROVE MonitorInv'
    <2>1. w[2] \in 0..(BYTE - 1)
      BY MonitorAssumption, Zenon DEF MonitorAssumption
    <2>2. w[2] % 2 \in {0, 1}
      <3>1. w[2] \in Int
        BY <2>1, WordSize
      <3> QED BY <3>1
    <2>3. MemOK(fx_addr_write_bit(mem, w[1], 7, w[2] % 2))
      BY <1>p, <2>2, Zenon DEF fx_addr_write_bit
    <2> QED BY <1>0, <1>2, <2>3, Zenon DEF HostBit, Change
  <1>3. ASSUME NEW a \in FORCES, NEW on \in {0, 1}, HostForce(a, on) PROVE MonitorInv'
    <2>1. MemOK(fx_addr_force(mem, a, on))
      BY <1>p, Zenon DEF fx_addr_force
    <2> QED BY <1>0, <1>3, <2>1, Zenon DEF HostForce, Change
  <1>4. ASSUME NEW q \in REQUESTS, ModbusRequest(q) PROVE MonitorInv'
    <2>1. MemOK(modbus_pdu_exec(mem, q).mem)
      BY RequestOK, Zenon
    <2> QED BY <1>0, <1>4, <2>1, Zenon DEF ModbusRequest, Change
  <1>5. ASSUME NEW d \in SCANNED, NEW v \in {0, 1}, Scan(d, v) PROVE MonitorInv'
    BY <1>0, <1>5, <1>p, Zenon DEF Scan, Change
  <1>6. ASSUME NEW f \in LIST_FRAMES, fx_monitor_write(f) PROVE MonitorInv'
    <2>1. /\ mem' = mem /\ result' = result /\ result_len' = result_len
          /\ at_sample' = at_sample /\ view' = view
      BY <1>6 DEF fx_monitor_write
    <2>2. MemOK(mem)' /\ ResultOK' /\ Sampled(at_sample.words, at_sample.bits)'
      BY <2>1, Zenon DEF MemOK, ResultOK, Sampled
    <2>3. ViewOK'
      BY <2>1, Zenon DEF ViewOK, served
    <2>4. ListOK'
      <3>1. f.at \in Nat /\ f.cells \in Seq(0..(WORD - 1)) /\ LIST_CELLS \in Nat
        BY MonitorAssumption, Zenon DEF MonitorAssumption
      <3> DEFINE at == f.at
                 cells == f.cells
                 C == 0..(WORD - 1)
                 part == at..(at + Len(cells) - 1)
      <3>2. at \in Nat /\ cells \in Seq(C)
        BY <3>1
      <3>3. \A k \in 0..(LIST_CELLS - 1) : k \in part => cells[k - at + 1] \in C
        <4> HIDE DEF at, cells, C
        <4>1. Len(cells) \in Nat /\ \A n \in 1..Len(cells) : cells[n] \in C
          BY <3>2
        <4>2. \A k \in part : k - at + 1 \in 1..Len(cells)
          BY <3>2, <4>1
        <4> QED BY <4>1, <4>2, Zenon
      <3>4. list' = [k \in DOMAIN list |-> IF k \in part THEN cells[k - at + 1] ELSE list[k]]
        BY <1>6, Zenon DEF fx_monitor_write
      <3>5. list \in [0..(LIST_CELLS - 1) -> C]
        BY Zenon DEF ListOK
      <3> HIDE DEF at, cells, C, part
      <3>6. list' \in [0..(LIST_CELLS - 1) -> C]
        BY <3>3, <3>4, <3>5, Zenon
      <3> QED BY <3>6, Zenon DEF ListOK, C
    <2> QED BY <2>2, <2>3, <2>4
  <1>7. ASSUME ReadFirst PROVE MonitorInv'
    <2>1. /\ fx_monitor_sample /\ at_sample' = Listed(list) /\ mem' = mem /\ list' = list
          /\ view' = [k \in 1..FRAME |-> served(k - 1)']
      BY <1>7, Zenon DEF ReadFirst
    <2>2. ResultOK' /\ Sampled(at_sample.words, at_sample.bits)'
      BY <2>1, SampleTaken, Zenon
    <2>3. ViewOK'
      BY <2>1, FirstFrame, Zenon
    <2>4. MemOK(mem)' /\ ListOK'
      BY <2>1, Zenon DEF MemOK, ListOK
    <2> QED BY <2>2, <2>3, <2>4
  <1>8. ASSUME ReadNext PROVE MonitorInv'
    <2>1. /\ mem' = mem /\ list' = list /\ result' = result /\ result_len' = result_len
          /\ at_sample' = at_sample
          /\ view' = view \o [k \in 1..FRAME |-> served(Len(view) + k - 1)]
      BY <1>8, Zenon DEF ReadNext
    <2>2. ViewOK'
      BY <2>1, NextFrame, Zenon
    <2>3. MemOK(mem)' /\ ListOK' /\ ResultOK' /\ Sampled(at_sample.words, at_sample.bits)'
      BY <2>1, Zenon DEF MemOK, ListOK, ResultOK, Sampled
    <2> QED BY <2>2, <2>3
  <1>9. CASE UNCHANGED vars
    <2>1. mem' = mem /\ UNCHANGED monitor
      BY <1>9 DEF vars
    <2> QED BY <1>0, <2>1, Zenon
  <1> QED BY <1>1, <1>2, <1>3, <1>4, <1>5, <1>6, <1>7, <1>8, <1>9, Zenon DEF Next

\* The invariant MonitorSnapshot of fx_monitor.c, for lists, buffers and frames
\* of any size and any interleaving of list writes, memory changes and reads.
THEOREM SampleIsSnapshot == Spec => []MonitorSnapshot
  <1>1. MonitorInv => MonitorSnapshot
    <2> SUFFICES ASSUME MonitorInv PROVE MonitorSnapshot
      OBVIOUS
    <2> DEFINE ws == at_sample.words
               bs == at_sample.bits
               W == Len(ws)
               B == Len(bs)
               L == Len(view)
    <2>1. Sampled(ws, bs) /\ ViewOK /\ ResultOK
      BY Zenon DEF MonitorInv
    <2>2. /\ W \in Nat /\ B \in Nat /\ result_len = 2 * W + (B + 7) \div 8
          /\ \A i \in 1..W : result[2 * i - 2] + BYTE * result[2 * i - 1] = ws[i]
          /\ \A j \in 0..(B - 1) : (result[2 * W + j \div 8] \div Mask[(j % 8) + 1]) % 2 = bs[j + 1]
      BY <2>1, Zenon DEF Sampled
    <2>3. L \in Nat /\ \A k \in 1..L : view[k] = served(k - 1)
      <3> DEFINE V == {served(k) : k \in Nat}
      <3>1. view \in Seq(V) /\ \A k \in 1..L : view[k] = served(k - 1)
        BY <2>1, Zenon DEF ViewOK
      <3> HIDE DEF V
      <3>2. L \in Nat
        BY <3>1
      <3> QED BY <3>1, <3>2, Zenon
    <2>4. \A k \in 1..L : k - 1 < result_len => view[k] = result[k - 1]
      BY <2>3, Zenon DEF served
    <2> HIDE DEF ws, bs, W, B, L
    <2>5. ASSUME NEW i \in 1..W, 2 * i <= L
          PROVE  view[2 * i - 1] + BYTE * view[2 * i] = ws[i]
      <3>1. /\ 2 * i - 1 \in 1..L /\ 2 * i \in 1..L
            /\ (2 * i - 1) - 1 < result_len /\ 2 * i - 1 < result_len
            /\ (2 * i - 1) - 1 = 2 * i - 2
        BY <2>2, <2>3, <2>5
      <3> QED BY <2>2, <2>4, <3>1, Zenon
    <2>6. ASSUME NEW j \in 0..(B - 1), 2 * W + j \div 8 < L
          PROVE  (view[2 * W + j \div 8 + 1] \div Mask[(j % 8) + 1]) % 2 = bs[j + 1]
      <3> DEFINE k == 2 * W + j \div 8
      <3>1. k + 1 \in 1..L /\ (k + 1) - 1 < result_len /\ (k + 1) - 1 = k
        BY <2>2, <2>3, <2>6
      <3>2. view[k + 1] = result[k]
        BY <2>4, <3>1, Zenon
      <3> QED BY <2>2, <3>2, Zenon
    <2>7. result_len <= RESULT_BYTES /\ DOMAIN result = 0..(RESULT_BYTES - 1)
      <3>1. RESULT_BYTES \in Nat
        BY MonitorAssumption DEF MonitorAssumption
      <3>2. result_len \in 0..RESULT_BYTES /\ DOMAIN result = 0..(RESULT_BYTES - 1)
        BY <2>1, Zenon DEF ResultOK
      <3> QED BY <3>1, <3>2
    <2> QED BY <2>5, <2>6, <2>7, Zenon DEF MonitorSnapshot, ws, bs, W, B, L
  <1> QED BY <1>1, MonitorInit, MonitorStep, PTL DEF Spec

------------------------------------------------------------------------------
(* The address maps *)

\* Device by comparisons alone.
LEMMA DeviceWhere ==
    ASSUME NEW areas, NEW addr \in Int, \A a \in areas : a[1] \in Int /\ a[2] \in Int
    PROVE  \/ Device(areas, addr) = Unmapped /\ \A a \in areas : addr < a[1] \/ a[2] <= addr
           \/ \E a \in areas : /\ a[1] <= addr /\ addr < a[2]
                               /\ Device(areas, addr) = <<a[3], a[4] + addr - a[1]>>
  <1>1. \A x, y \in Int : addr \in x..(y - 1) <=> x <= addr /\ addr < y
    OBVIOUS
  <1>2. \A x, y \in Int : ~(x <= addr /\ addr < y) => addr < x \/ y <= addr
    OBVIOUS
  <1>3. \A a \in areas : /\ addr \in a[1]..(a[2] - 1) => a[1] <= addr /\ addr < a[2]
                         /\ addr \notin a[1]..(a[2] - 1) => addr < a[1] \/ a[2] <= addr
    BY <1>1, <1>2, Zenon
  <1>4. CASE Device(areas, addr) = Unmapped /\ \A a \in areas : addr \notin a[1]..(a[2] - 1)
    BY <1>3, <1>4, Zenon
  <1>5. CASE \E a \in areas : /\ addr \in a[1]..(a[2] - 1)
                              /\ Device(areas, addr) = <<a[3], a[4] + addr - a[1]>>
    BY <1>3, <1>5, Zenon
  <1> QED BY <1>4, <1>5, DeviceCases, Zenon

\* Reading and writing go through separate comparisons in fx_addr.c and
\* modbus_map.c that place every device alike.
LEMMA SameMaps ==
    /\ write_bit_areas = read_bit_areas
    /\ force_areas = force_read_areas
    /\ write_coil_areas = read_coil_areas
    /\ write_word_areas = read_word_areas
  BY DEF write_bit_areas, read_bit_areas, force_areas, force_read_areas, FX_FORCE_Y_BASE, Size,
         write_coil_areas, read_coil_areas, write_word_areas, read_word_areas

\* The bit areas, by bit number.
LEMMA BitMap ==
    ASSUME NEW addr \in Nat
    PROVE  LET d == Device(read_bit_areas, addr)
           IN  /\ 0 <= addr /\ addr < 1024 => d = <<"S", addr>>
               /\ 1024 <= addr /\ addr < 1280 => d = <<"X", addr - 1024>>
               /\ 1280 <= addr /\ addr < 1536 => d = <<"Y", addr - 1280>>
               /\ 1536 <= addr /\ addr < 1792 => d = <<"TC", addr - 1536>>
               /\ 2048 <= addr /\ addr < 3584 => d = <<"M", addr - 2048>>
               /\ 3584 <= addr /\ addr < 3840 => d = <<"CC", addr - 3584>>
               /\ 3840 <= addr /\ addr < 4096 => d = <<"M", addr + 4160>>
               /\ (1792 <= addr /\ addr < 2048) \/ addr >= 4096 => d = Unmapped
  <1> DEFINE areas == read_bit_areas
             d == Device(areas, addr)
  <1>1. areas = {<<0, 1024, "S", 0>>,
                 <<1024, 1280, "X", 0>>,
                 <<1280, 1536, "Y", 0>>,
                 <<1536, 1792, "TC", 0>>,
                 <<2048, 3584, "M", 0>>,
                 <<3584, 3840, "CC", 0>>,
                 <<3840, 4096, "M", 8000>>}
    BY DEF read_bit_areas, FX_ADDR_S, FX_ADDR_X, FX_ADDR_Y, FX_ADDR_T_CONTACT, T_CONTACT_END, FX_ADDR_M,
           FX_ADDR_C_CONTACT, FX_ADDR_M_SPECIAL, FX_ADDR_BIT_END, PLC_SPECIAL_BASE
  <1> HIDE DEF areas
  <1>2. \A a \in areas : a[1] \in Int /\ a[2] \in Int
    BY <1>1
  <1>3. \/ d = Unmapped /\ \A a \in areas : addr < a[1] \/ a[2] <= addr
        \/ \E a \in areas : /\ a[1] <= addr /\ addr < a[2]
                            /\ d = <<a[3], a[4] + addr - a[1]>>
    <2>1. addr \in Int
      OBVIOUS
    <2> QED BY <1>2, <2>1, DeviceWhere, Zenon
  <1> HIDE DEF d
  <1>4. CASE d = Unmapped /\ \A a \in areas : addr < a[1] \/ a[2] <= addr
    <2>1. /\ addr < 0 \/ 1024 <= addr
          /\ addr < 1024 \/ 1280 <= addr
          /\ addr < 1280 \/ 1536 <= addr
          /\ addr < 1536 \/ 1792 <= addr
          /\ addr < 2048 \/ 3584 <= addr
          /\ addr < 3584 \/ 3840 <= addr
          /\ addr < 3840 \/ 4096 <= addr
      BY <1>1, <1>4
    <2> QED BY <1>4, <2>1 DEF d, areas
  <1>5. CASE \E a \in areas : a[1] <= addr /\ addr < a[2] /\ d = <<a[3], a[4] + addr - a[1]>>
    <2>1. \/ 0 <= addr /\ addr < 1024 /\ d = <<"S", 0 + addr - 0>>
          \/ 1024 <= addr /\ addr < 1280 /\ d = <<"X", 0 + addr - 1024>>
          \/ 1280 <= addr /\ addr < 1536 /\ d = <<"Y", 0 + addr - 1280>>
          \/ 1536 <= addr /\ addr < 1792 /\ d = <<"TC", 0 + addr - 1536>>
          \/ 2048 <= addr /\ addr < 3584 /\ d = <<"M", 0 + addr - 2048>>
          \/ 3584 <= addr /\ addr < 3840 /\ d = <<"CC", 0 + addr - 3584>>
          \/ 3840 <= addr /\ addr < 4096 /\ d = <<"M", 8000 + addr - 3840>>
      BY <1>1, <1>5
    <2> QED BY <2>1 DEF d, areas
  <1> QED BY <1>3, <1>4, <1>5

\* The force numbers.
LEMMA ForceMap ==
    ASSUME NEW addr \in Nat
    PROVE  LET d == Device(force_read_areas, addr)
           IN  /\ 0 <= addr /\ addr < 3072 => d = <<"M", addr>>
               /\ 3072 <= addr /\ addr < 3328 => d = <<"Y", addr - 3072>>
               /\ 3584 <= addr /\ addr < 3840 => d = <<"M", addr + 4416>>
               /\ 4608 <= addr /\ addr < 4864 => d = <<"X", addr - 4608>>
               /\ 5120 <= addr /\ addr < 6120 => d = <<"S", addr - 5120>>
               /\ (4864 <= addr /\ addr < 5120) \/ (3840 <= addr /\ addr < 4608) \/ (3328 <= addr /\ addr < 3584) \/ addr >= 6120 => d = Unmapped
  <1> DEFINE areas == force_read_areas
             d == Device(areas, addr)
  <1>1. areas = {<<0, 3072, "M", 0>>,
                 <<3072, 3328, "Y", 0>>,
                 <<3584, 3840, "M", 8000>>,
                 <<4608, 4864, "X", 0>>,
                 <<5120, 6120, "S", 0>>}
    BY DEF force_read_areas, FX_FORCE_Y_BASE, FX_FORCE_MS_BASE, FX_FORCE_X_BASE, FORCE_S_BASE, Size, PLC_SPECIAL_BASE
  <1> HIDE DEF areas
  <1>2. \A a \in areas : a[1] \in Int /\ a[2] \in Int
    BY <1>1
  <1>3. \/ d = Unmapped /\ \A a \in areas : addr < a[1] \/ a[2] <= addr
        \/ \E a \in areas : /\ a[1] <= addr /\ addr < a[2]
                            /\ d = <<a[3], a[4] + addr - a[1]>>
    <2>1. addr \in Int
      OBVIOUS
    <2> QED BY <1>2, <2>1, DeviceWhere, Zenon
  <1> HIDE DEF d
  <1>4. CASE d = Unmapped /\ \A a \in areas : addr < a[1] \/ a[2] <= addr
    <2>1. /\ addr < 0 \/ 3072 <= addr
          /\ addr < 3072 \/ 3328 <= addr
          /\ addr < 3584 \/ 3840 <= addr
          /\ addr < 4608 \/ 4864 <= addr
          /\ addr < 5120 \/ 6120 <= addr
      BY <1>1, <1>4
    <2> QED BY <1>4, <2>1 DEF d, areas
  <1>5. CASE \E a \in areas : a[1] <= addr /\ addr < a[2] /\ d = <<a[3], a[4] + addr - a[1]>>
    <2>1. \/ 0 <= addr /\ addr < 3072 /\ d = <<"M", 0 + addr - 0>>
          \/ 3072 <= addr /\ addr < 3328 /\ d = <<"Y", 0 + addr - 3072>>
          \/ 3584 <= addr /\ addr < 3840 /\ d = <<"M", 8000 + addr - 3584>>
          \/ 4608 <= addr /\ addr < 4864 /\ d = <<"X", 0 + addr - 4608>>
          \/ 5120 <= addr /\ addr < 6120 /\ d = <<"S", 0 + addr - 5120>>
      BY <1>1, <1>5
    <2> QED BY <2>1 DEF d, areas
  <1> QED BY <1>3, <1>4, <1>5

\* The coils.
LEMMA CoilMap ==
    ASSUME NEW addr \in Nat
    PROVE  LET d == Device(read_coil_areas, addr)
           IN  /\ 0 <= addr /\ addr < 256 => d = <<"Y", addr>>
               /\ 1000 <= addr /\ addr < 4072 => d = <<"M", addr - 1000>>
               /\ 5000 <= addr /\ addr < 6000 => d = <<"S", addr - 5000>>
               /\ (4072 <= addr /\ addr < 5000) \/ (256 <= addr /\ addr < 1000) \/ addr >= 6000 => d = Unmapped
  <1> DEFINE areas == read_coil_areas
             d == Device(areas, addr)
  <1>1. areas = {<<0, 256, "Y", 0>>,
                 <<1000, 4072, "M", 0>>,
                 <<5000, 6000, "S", 0>>}
    BY DEF read_coil_areas, MB_COIL_M, MB_COIL_S, Size
  <1> HIDE DEF areas
  <1>2. \A a \in areas : a[1] \in Int /\ a[2] \in Int
    BY <1>1
  <1>3. \/ d = Unmapped /\ \A a \in areas : addr < a[1] \/ a[2] <= addr
        \/ \E a \in areas : /\ a[1] <= addr /\ addr < a[2]
                            /\ d = <<a[3], a[4] + addr - a[1]>>
    <2>1. addr \in Int
      OBVIOUS
    <2> QED BY <1>2, <2>1, DeviceWhere, Zenon
  <1> HIDE DEF d
  <1>4. CASE d = Unmapped /\ \A a \in areas : addr < a[1] \/ a[2] <= addr
    <2>1. /\ addr < 0 \/ 256 <= addr
          /\ addr < 1000 \/ 4072 <= addr
          /\ addr < 5000 \/ 6000 <= addr
      BY <1>1, <1>4
    <2> QED BY <1>4, <2>1 DEF d, areas
  <1>5. CASE \E a \in areas : a[1] <= addr /\ addr < a[2] /\ d = <<a[3], a[4] + addr - a[1]>>
    <2>1. \/ 0 <= addr /\ addr < 256 /\ d = <<"Y", 0 + addr - 0>>
          \/ 1000 <= addr /\ addr < 4072 /\ d = <<"M", 0 + addr - 1000>>
          \/ 5000 <= addr /\ addr < 6000 /\ d = <<"S", 0 + addr - 5000>>
      BY <1>1, <1>5
    <2> QED BY <2>1 DEF d, areas
  <1> QED BY <1>3, <1>4, <1>5

\* The discrete inputs.
LEMMA DiscreteMap ==
    ASSUME NEW addr \in Nat
    PROVE  LET d == Device(read_discrete_areas, addr)
           IN  /\ 0 <= addr /\ addr < 256 => d = <<"X", addr>>
               /\ 1000 <= addr /\ addr < 1256 => d = <<"TC", addr - 1000>>
               /\ 2000 <= addr /\ addr < 2256 => d = <<"CC", addr - 2000>>
               /\ (1256 <= addr /\ addr < 2000) \/ (256 <= addr /\ addr < 1000) \/ addr >= 2256 => d = Unmapped
  <1> DEFINE areas == read_discrete_areas
             d == Device(areas, addr)
  <1>1. areas = {<<0, 256, "X", 0>>,
                 <<1000, 1256, "TC", 0>>,
                 <<2000, 2256, "CC", 0>>}
    BY DEF read_discrete_areas, MB_DISCRETE_T, MB_DISCRETE_C, Size
  <1> HIDE DEF areas
  <1>2. \A a \in areas : a[1] \in Int /\ a[2] \in Int
    BY <1>1
  <1>3. \/ d = Unmapped /\ \A a \in areas : addr < a[1] \/ a[2] <= addr
        \/ \E a \in areas : /\ a[1] <= addr /\ addr < a[2]
                            /\ d = <<a[3], a[4] + addr - a[1]>>
    <2>1. addr \in Int
      OBVIOUS
    <2> QED BY <1>2, <2>1, DeviceWhere, Zenon
  <1> HIDE DEF d
  <1>4. CASE d = Unmapped /\ \A a \in areas : addr < a[1] \/ a[2] <= addr
    <2>1. /\ addr < 0 \/ 256 <= addr
          /\ addr < 1000 \/ 1256 <= addr
          /\ addr < 2000 \/ 2256 <= addr
      BY <1>1, <1>4
    <2> QED BY <1>4, <2>1 DEF d, areas
  <1>5. CASE \E a \in areas : a[1] <= addr /\ addr < a[2] /\ d = <<a[3], a[4] + addr - a[1]>>
    <2>1. \/ 0 <= addr /\ addr < 256 /\ d = <<"X", 0 + addr - 0>>
          \/ 1000 <= addr /\ addr < 1256 /\ d = <<"TC", 0 + addr - 1000>>
          \/ 2000 <= addr /\ addr < 2256 /\ d = <<"CC", 0 + addr - 2000>>
      BY <1>1, <1>5
    <2> QED BY <2>1 DEF d, areas
  <1> QED BY <1>3, <1>4, <1>5

\* The word areas, by word number.
LEMMA WordMap ==
    ASSUME NEW addr \in Nat
    PROVE  LET d == Device(read_word_areas, addr)
           IN  /\ 1024 <= addr /\ addr < 1280 => d = <<"T", addr - 1024>>
               /\ 1280 <= addr /\ addr < 1480 => d = <<"C", addr - 1280>>
               /\ 1792 <= addr /\ addr < 8192 => d = <<"D", addr + 6208>>
               /\ 8192 <= addr /\ addr < 16192 => d = <<"D", addr - 8192>>
               /\ addr < 1024 \/ (1480 <= addr /\ addr < 1792) \/ addr >= 16192 => d = Unmapped
  <1> DEFINE areas == read_word_areas
             d == Device(areas, addr)
  <1>1. areas = {<<1024, 1280, "T", 0>>,
                 <<1280, 1480, "C", 0>>,
                 <<1792, 8192, "D", 8000>>,
                 <<8192, 16192, "D", 0>>}
    BY DEF read_word_areas, FX_ADDR_T_CURRENT, FX_ADDR_C_CURRENT, FX_ADDR_D_SPECIAL, FX_ADDR_D, FX_ADDR_D_END,
           NUM_C16, PLC_SPECIAL_BASE
  <1> HIDE DEF areas
  <1>2. \A a \in areas : a[1] \in Int /\ a[2] \in Int
    BY <1>1
  <1>3. \/ d = Unmapped /\ \A a \in areas : addr < a[1] \/ a[2] <= addr
        \/ \E a \in areas : /\ a[1] <= addr /\ addr < a[2]
                            /\ d = <<a[3], a[4] + addr - a[1]>>
    <2>1. addr \in Int
      OBVIOUS
    <2> QED BY <1>2, <2>1, DeviceWhere, Zenon
  <1> HIDE DEF d
  <1>4. CASE d = Unmapped /\ \A a \in areas : addr < a[1] \/ a[2] <= addr
    <2>1. /\ addr < 1024 \/ 1280 <= addr
          /\ addr < 1280 \/ 1480 <= addr
          /\ addr < 1792 \/ 8192 <= addr
          /\ addr < 8192 \/ 16192 <= addr
      BY <1>1, <1>4
    <2> QED BY <1>4, <2>1 DEF d, areas
  <1>5. CASE \E a \in areas : a[1] <= addr /\ addr < a[2] /\ d = <<a[3], a[4] + addr - a[1]>>
    <2>1. \/ 1024 <= addr /\ addr < 1280 /\ d = <<"T", 0 + addr - 1024>>
          \/ 1280 <= addr /\ addr < 1480 /\ d = <<"C", 0 + addr - 1280>>
          \/ 1792 <= addr /\ addr < 8192 /\ d = <<"D", 8000 + addr - 1792>>
          \/ 8192 <= addr /\ addr < 16192 /\ d = <<"D", 0 + addr - 8192>>
      BY <1>1, <1>5
    <2> QED BY <2>1 DEF d, areas
  <1> QED BY <1>3, <1>4, <1>5

\* The input registers.
LEMMA InputMap ==
    ASSUME NEW addr \in Nat
    PROVE  LET d == Device(read_input_areas, addr)
           IN  /\ 0 <= addr /\ addr < 256 => d = <<"T", addr>>
               /\ 1000 <= addr /\ addr < 1256 => d = <<"C", addr - 1000>>
               /\ 2000 <= addr /\ addr < 2003 => d = <<"D", addr + 6030>>
               /\ (1256 <= addr /\ addr < 2000) \/ (256 <= addr /\ addr < 1000) \/ addr >= 2003 => d = Unmapped
  <1> DEFINE areas == read_input_areas
             d == Device(areas, addr)
  <1>1. areas = {<<0, 256, "T", 0>>,
                 <<1000, 1256, "C", 0>>,
                 <<2000, 2003, "D", 8030>>}
    BY DEF read_input_areas, MB_INPUT_C, MB_INPUT_ANALOG, D_ANALOG_BASE, Size
  <1> HIDE DEF areas
  <1>2. \A a \in areas : a[1] \in Int /\ a[2] \in Int
    BY <1>1
  <1>3. \/ d = Unmapped /\ \A a \in areas : addr < a[1] \/ a[2] <= addr
        \/ \E a \in areas : /\ a[1] <= addr /\ addr < a[2]
                            /\ d = <<a[3], a[4] + addr - a[1]>>
    <2>1. addr \in Int
      OBVIOUS
    <2> QED BY <1>2, <2>1, DeviceWhere, Zenon
  <1> HIDE DEF d
  <1>4. CASE d = Unmapped /\ \A a \in areas : addr < a[1] \/ a[2] <= addr
    <2>1. /\ addr < 0 \/ 256 <= addr
          /\ addr < 1000 \/ 1256 <= addr
          /\ addr < 2000 \/ 2003 <= addr
      BY <1>1, <1>4
    <2> QED BY <1>4, <2>1 DEF d, areas
  <1>5. CASE \E a \in areas : a[1] <= addr /\ addr < a[2] /\ d = <<a[3], a[4] + addr - a[1]>>
    <2>1. \/ 0 <= addr /\ addr < 256 /\ d = <<"T", 0 + addr - 0>>
          \/ 1000 <= addr /\ addr < 1256 /\ d = <<"C", 0 + addr - 1000>>
          \/ 2000 <= addr /\ addr < 2003 /\ d = <<"D", 8030 + addr - 2000>>
      BY <1>1, <1>5
    <2> QED BY <2>1 DEF d, areas
  <1> QED BY <1>3, <1>4, <1>5

\* Device i of a family is in the place the documented layout gives it, in
\* every map that has it.
Placed(a, i) ==
    LET d == <<a.family, a.first + i>>
    IN  /\ Exists(d)
        /\ Device(read_bit_areas, 8 * (a.bytes + i \div 8) + (i % 8)) = d
        /\ a.force # None => Device(force_read_areas, a.force + i) = d
        /\ a.coil # None => Device(read_coil_areas, a.coil + i) = d
        /\ a.input # None => Device(read_discrete_areas, a.input + i) = d

\* The layout of fx_addr.h and modbus_map.h is that of the code, for every bit
\* device and not only at the ends of the areas.
LEMMA BitsPlaced ==
    ASSUME NEW a \in BitLayout, NEW i \in Nat, i < a.n
    PROVE  Placed(a, i)
  <1>d. (i \div 8) \in Nat /\ (i % 8) \in Nat /\ 8 * (i \div 8) + (i % 8) = i
    OBVIOUS
  <1>1. CASE a = [family |-> "S", first |-> 0, n |-> 1000, bytes |-> 0, force |-> 5120,
                  coil |-> 5000, input |-> None]
    <2>1. /\ a.family = "S" /\ a.first = 0 /\ a.n = 1000 /\ a.bytes = 0
          /\ a.force = 5120 /\ a.coil = 5000 /\ a.input = None
      BY <1>1
    <2>2. i < 1000
      BY <2>1
    <2>3. Exists(<<"S", 0 + i>>)
      BY <2>2 DEF Exists, Unmapped, Size, PLC_SPECIAL_BASE
    <2>4. Device(read_bit_areas, 8 * (0 + i \div 8) + (i % 8)) = <<"S", 0 + i>>
      <3>1. 8 * (0 + i \div 8) + (i % 8) = 0 + i /\ 0 + i \in Nat
        BY <1>d
      <3> DEFINE x == 0 + i
      <3>2. x \in Nat /\ x >= 0 /\ x < 1000 /\ x - 0 = i
        BY <2>2
      <3> HIDE DEF x
      <3>3. Device(read_bit_areas, x) = <<"S", 0 + i>>
        BY <3>2, BitMap
      <3> QED BY <3>1, <3>3 DEF x
    <2>5. Device(force_read_areas, 5120 + i) = <<"S", 0 + i>>
      <3> DEFINE x == 5120 + i
      <3>1. x \in Nat /\ x >= 5120 /\ x < 6120 /\ x - 5120 = i
        BY <2>2
      <3> HIDE DEF x
      <3>2. Device(force_read_areas, x) = <<"S", 0 + i>>
        BY <3>1, ForceMap
      <3> QED BY <3>2 DEF x
    <2>6. Device(read_coil_areas, 5000 + i) = <<"S", 0 + i>>
      <3> DEFINE x == 5000 + i
      <3>1. x \in Nat /\ x >= 5000 /\ x < 6000 /\ x - 5000 = i
        BY <2>2
      <3> HIDE DEF x
      <3>2. Device(read_coil_areas, x) = <<"S", 0 + i>>
        BY <3>1, CoilMap
      <3> QED BY <3>2 DEF x
    <2> QED BY <2>1, <2>3, <2>4, <2>5, <2>6 DEF Placed, None
  <1>2. CASE a = [family |-> "X", first |-> 0, n |-> 256, bytes |-> 128, force |-> 4608,
                  coil |-> None, input |-> 0]
    <2>1. /\ a.family = "X" /\ a.first = 0 /\ a.n = 256 /\ a.bytes = 128
          /\ a.force = 4608 /\ a.coil = None /\ a.input = 0
      BY <1>2
    <2>2. i < 256
      BY <2>1
    <2>3. Exists(<<"X", 0 + i>>)
      BY <2>2 DEF Exists, Unmapped, Size, PLC_SPECIAL_BASE
    <2>4. Device(read_bit_areas, 8 * (128 + i \div 8) + (i % 8)) = <<"X", 0 + i>>
      <3>1. 8 * (128 + i \div 8) + (i % 8) = 1024 + i /\ 1024 + i \in Nat
        BY <1>d
      <3> DEFINE x == 1024 + i
      <3>2. x \in Nat /\ x >= 1024 /\ x < 1280 /\ x - 1024 = i
        BY <2>2
      <3> HIDE DEF x
      <3>3. Device(read_bit_areas, x) = <<"X", 0 + i>>
        BY <3>2, BitMap
      <3> QED BY <3>1, <3>3 DEF x
    <2>5. Device(force_read_areas, 4608 + i) = <<"X", 0 + i>>
      <3> DEFINE x == 4608 + i
      <3>1. x \in Nat /\ x >= 4608 /\ x < 4864 /\ x - 4608 = i
        BY <2>2
      <3> HIDE DEF x
      <3>2. Device(force_read_areas, x) = <<"X", 0 + i>>
        BY <3>1, ForceMap
      <3> QED BY <3>2 DEF x
    <2>6. Device(read_discrete_areas, 0 + i) = <<"X", 0 + i>>
      <3> DEFINE x == 0 + i
      <3>1. x \in Nat /\ x >= 0 /\ x < 256 /\ x - 0 = i
        BY <2>2
      <3> HIDE DEF x
      <3>2. Device(read_discrete_areas, x) = <<"X", 0 + i>>
        BY <3>1, DiscreteMap
      <3> QED BY <3>2 DEF x
    <2> QED BY <2>1, <2>3, <2>4, <2>5, <2>6 DEF Placed, None
  <1>3. CASE a = [family |-> "Y", first |-> 0, n |-> 256, bytes |-> 160, force |-> 3072,
                  coil |-> 0, input |-> None]
    <2>1. /\ a.family = "Y" /\ a.first = 0 /\ a.n = 256 /\ a.bytes = 160
          /\ a.force = 3072 /\ a.coil = 0 /\ a.input = None
      BY <1>3
    <2>2. i < 256
      BY <2>1
    <2>3. Exists(<<"Y", 0 + i>>)
      BY <2>2 DEF Exists, Unmapped, Size, PLC_SPECIAL_BASE
    <2>4. Device(read_bit_areas, 8 * (160 + i \div 8) + (i % 8)) = <<"Y", 0 + i>>
      <3>1. 8 * (160 + i \div 8) + (i % 8) = 1280 + i /\ 1280 + i \in Nat
        BY <1>d
      <3> DEFINE x == 1280 + i
      <3>2. x \in Nat /\ x >= 1280 /\ x < 1536 /\ x - 1280 = i
        BY <2>2
      <3> HIDE DEF x
      <3>3. Device(read_bit_areas, x) = <<"Y", 0 + i>>
        BY <3>2, BitMap
      <3> QED BY <3>1, <3>3 DEF x
    <2>5. Device(force_read_areas, 3072 + i) = <<"Y", 0 + i>>
      <3> DEFINE x == 3072 + i
      <3>1. x \in Nat /\ x >= 3072 /\ x < 3328 /\ x - 3072 = i
        BY <2>2
      <3> HIDE DEF x
      <3>2. Device(force_read_areas, x) = <<"Y", 0 + i>>
        BY <3>1, ForceMap
      <3> QED BY <3>2 DEF x
    <2>6. Device(read_coil_areas, 0 + i) = <<"Y", 0 + i>>
      <3> DEFINE x == 0 + i
      <3>1. x \in Nat /\ x >= 0 /\ x < 256 /\ x - 0 = i
        BY <2>2
      <3> HIDE DEF x
      <3>2. Device(read_coil_areas, x) = <<"Y", 0 + i>>
        BY <3>1, CoilMap
      <3> QED BY <3>2 DEF x
    <2> QED BY <2>1, <2>3, <2>4, <2>5, <2>6 DEF Placed, None
  <1>4. CASE a = [family |-> "TC", first |-> 0, n |-> 256, bytes |-> 192, force |-> None,
                  coil |-> None, input |-> 1000]
    <2>1. /\ a.family = "TC" /\ a.first = 0 /\ a.n = 256 /\ a.bytes = 192
          /\ a.force = None /\ a.coil = None /\ a.input = 1000
      BY <1>4
    <2>2. i < 256
      BY <2>1
    <2>3. Exists(<<"TC", 0 + i>>)
      BY <2>2 DEF Exists, Unmapped, Size, PLC_SPECIAL_BASE
    <2>4. Device(read_bit_areas, 8 * (192 + i \div 8) + (i % 8)) = <<"TC", 0 + i>>
      <3>1. 8 * (192 + i \div 8) + (i % 8) = 1536 + i /\ 1536 + i \in Nat
        BY <1>d
      <3> DEFINE x == 1536 + i
      <3>2. x \in Nat /\ x >= 1536 /\ x < 1792 /\ x - 1536 = i
        BY <2>2
      <3> HIDE DEF x
      <3>3. Device(read_bit_areas, x) = <<"TC", 0 + i>>
        BY <3>2, BitMap
      <3> QED BY <3>1, <3>3 DEF x
    <2>5. Device(read_discrete_areas, 1000 + i) = <<"TC", 0 + i>>
      <3> DEFINE x == 1000 + i
      <3>1. x \in Nat /\ x >= 1000 /\ x < 1256 /\ x - 1000 = i
        BY <2>2
      <3> HIDE DEF x
      <3>2. Device(read_discrete_areas, x) = <<"TC", 0 + i>>
        BY <3>1, DiscreteMap
      <3> QED BY <3>2 DEF x
    <2> QED BY <2>1, <2>3, <2>4, <2>5 DEF Placed, None
  <1>5. CASE a = [family |-> "M", first |-> 0, n |-> 1536, bytes |-> 256, force |-> 0,
                  coil |-> 1000, input |-> None]
    <2>1. /\ a.family = "M" /\ a.first = 0 /\ a.n = 1536 /\ a.bytes = 256
          /\ a.force = 0 /\ a.coil = 1000 /\ a.input = None
      BY <1>5
    <2>2. i < 1536
      BY <2>1
    <2>3. Exists(<<"M", 0 + i>>)
      BY <2>2 DEF Exists, Unmapped, Size, PLC_SPECIAL_BASE
    <2>4. Device(read_bit_areas, 8 * (256 + i \div 8) + (i % 8)) = <<"M", 0 + i>>
      <3>1. 8 * (256 + i \div 8) + (i % 8) = 2048 + i /\ 2048 + i \in Nat
        BY <1>d
      <3> DEFINE x == 2048 + i
      <3>2. x \in Nat /\ x >= 2048 /\ x < 3584 /\ x - 2048 = i
        BY <2>2
      <3> HIDE DEF x
      <3>3. Device(read_bit_areas, x) = <<"M", 0 + i>>
        BY <3>2, BitMap
      <3> QED BY <3>1, <3>3 DEF x
    <2>5. Device(force_read_areas, 0 + i) = <<"M", 0 + i>>
      <3> DEFINE x == 0 + i
      <3>1. x \in Nat /\ x >= 0 /\ x < 1536 /\ x - 0 = i
        BY <2>2
      <3> HIDE DEF x
      <3>2. Device(force_read_areas, x) = <<"M", 0 + i>>
        BY <3>1, ForceMap
      <3> QED BY <3>2 DEF x
    <2>6. Device(read_coil_areas, 1000 + i) = <<"M", 0 + i>>
      <3> DEFINE x == 1000 + i
      <3>1. x \in Nat /\ x >= 1000 /\ x < 2536 /\ x - 1000 = i
        BY <2>2
      <3> HIDE DEF x
      <3>2. Device(read_coil_areas, x) = <<"M", 0 + i>>
        BY <3>1, CoilMap
      <3> QED BY <3>2 DEF x
    <2> QED BY <2>1, <2>3, <2>4, <2>5, <2>6 DEF Placed, None
  <1>6. CASE a = [family |-> "CC", first |-> 0, n |-> 256, bytes |-> 448, force |-> None,
                  coil |-> None, input |-> 2000]
    <2>1. /\ a.family = "CC" /\ a.first = 0 /\ a.n = 256 /\ a.bytes = 448
          /\ a.force = None /\ a.coil = None /\ a.input = 2000
      BY <1>6
    <2>2. i < 256
      BY <2>1
    <2>3. Exists(<<"CC", 0 + i>>)
      BY <2>2 DEF Exists, Unmapped, Size, PLC_SPECIAL_BASE
    <2>4. Device(read_bit_areas, 8 * (448 + i \div 8) + (i % 8)) = <<"CC", 0 + i>>
      <3>1. 8 * (448 + i \div 8) + (i % 8) = 3584 + i /\ 3584 + i \in Nat
        BY <1>d
      <3> DEFINE x == 3584 + i
      <3>2. x \in Nat /\ x >= 3584 /\ x < 3840 /\ x - 3584 = i
        BY <2>2
      <3> HIDE DEF x
      <3>3. Device(read_bit_areas, x) = <<"CC", 0 + i>>
        BY <3>2, BitMap
      <3> QED BY <3>1, <3>3 DEF x
    <2>5. Device(read_discrete_areas, 2000 + i) = <<"CC", 0 + i>>
      <3> DEFINE x == 2000 + i
      <3>1. x \in Nat /\ x >= 2000 /\ x < 2256 /\ x - 2000 = i
        BY <2>2
      <3> HIDE DEF x
      <3>2. Device(read_discrete_areas, x) = <<"CC", 0 + i>>
        BY <3>1, DiscreteMap
      <3> QED BY <3>2 DEF x
    <2> QED BY <2>1, <2>3, <2>4, <2>5 DEF Placed, None
  <1>7. CASE a = [family |-> "M", first |-> 8000, n |-> 256, bytes |-> 480, force |-> 3584,
                  coil |-> None, input |-> None]
    <2>1. /\ a.family = "M" /\ a.first = 8000 /\ a.n = 256 /\ a.bytes = 480
          /\ a.force = 3584 /\ a.coil = None /\ a.input = None
      BY <1>7
    <2>2. i < 256
      BY <2>1
    <2>3. Exists(<<"M", 8000 + i>>)
      BY <2>2 DEF Exists, Unmapped, Size, PLC_SPECIAL_BASE
    <2>4. Device(read_bit_areas, 8 * (480 + i \div 8) + (i % 8)) = <<"M", 8000 + i>>
      <3>1. 8 * (480 + i \div 8) + (i % 8) = 3840 + i /\ 3840 + i \in Nat
        BY <1>d
      <3> DEFINE x == 3840 + i
      <3>2. x \in Nat /\ x >= 3840 /\ x < 4096 /\ x - 3840 = i
        BY <2>2
      <3> HIDE DEF x
      <3>3. Device(read_bit_areas, x) = <<"M", 8000 + i>>
        BY <3>2, BitMap
      <3> QED BY <3>1, <3>3 DEF x
    <2>5. Device(force_read_areas, 3584 + i) = <<"M", 8000 + i>>
      <3> DEFINE x == 3584 + i
      <3>1. x \in Nat /\ x >= 3584 /\ x < 3840 /\ x - 3584 = i
        BY <2>2
      <3> HIDE DEF x
      <3>2. Device(force_read_areas, x) = <<"M", 8000 + i>>
        BY <3>1, ForceMap
      <3> QED BY <3>2 DEF x
    <2> QED BY <2>1, <2>3, <2>4, <2>5 DEF Placed, None
  <1> QED BY <1>1, <1>2, <1>3, <1>4, <1>5, <1>6, <1>7 DEF BitLayout

\* The two byte addresses of word i: neither a bit area, nor the program, nor
\* the 32-bit counters.
WordAddress(x) ==
    /\ x \in Nat /\ ~(x < FX_ADDR_BIT_END) /\ ~(x >= FX_ADDR_PROGRAM)
    /\ x \notin FX_ADDR_C_CURRENT32..(FX_ADDR_D_SPECIAL - 1)

PlacedWord(a, i) ==
    LET d == <<a.family, a.first + i>>
        x == a.bytes + 2 * i
    IN  /\ Exists(d) /\ d[1] \notin BitFamilies
        /\ WordAddress(x) /\ WordAddress(x + 1) /\ x % 2 = 0 /\ (x + 1) % 2 = 1
        /\ Device(read_word_areas, x \div 2) = d /\ Device(read_word_areas, (x + 1) \div 2) = d
        /\ a.holding # None => /\ Device(read_holding_areas, a.holding + i) = d
                               /\ Device(write_holding_areas, a.holding + i) = d
        /\ a.input # None => Device(read_input_areas, a.input + i) = d

\* Every word device of the documented layout has the place the layout gives it,
\* in the maps of the port and of Modbus.
LEMMA WordsPlaced ==
    ASSUME NEW a \in WordLayout, NEW i \in Nat, i < a.n
    PROVE  PlacedWord(a, i)
  <1>1. CASE a = [family |-> "T", first |-> 0, n |-> 256, bytes |-> 2048,
                  holding |-> None, input |-> 0]
    <2>1. /\ a.family = "T" /\ a.first = 0 /\ a.n = 256 /\ a.bytes = 2048
          /\ a.holding = None /\ a.input = 0
      BY <1>1
    <2>2. i < 256
      BY <2>1
    <2>3. Exists(<<"T", 0 + i>>) /\ <<"T", 0 + i>>[1] \notin BitFamilies
      BY <2>2 DEF Exists, Unmapped, Size, PLC_SPECIAL_BASE, BitFamilies
    <2> DEFINE x == 2048 + 2 * i
               y == 1024 + i
    <2>4. /\ x \in Nat /\ x % 2 = 0 /\ (x + 1) % 2 = 1 /\ x \div 2 = y /\ (x + 1) \div 2 = y
          /\ x >= 2048 /\ x + 1 < 2560 /\ y \in Nat /\ y >= 1024 /\ y < 1280 /\ y - 1024 = i
      BY <2>2
    <2> HIDE DEF x, y
    <2>5. Device(read_word_areas, y) = <<"T", 0 + i>>
      BY <2>4, WordMap
    <2>6. WordAddress(x) /\ WordAddress(x + 1)
      BY <2>4 DEF WordAddress, FX_ADDR_BIT_END, FX_ADDR_PROGRAM, FX_ADDR_C_CURRENT32, FX_ADDR_D_SPECIAL
    <2>7. Device(read_input_areas, 0 + i) = <<"T", 0 + i>>
      <3> DEFINE z == 0 + i
      <3>1. z \in Nat /\ z >= 0 /\ z < 256 /\ z - 0 = i
        BY <2>2
      <3> HIDE DEF z
      <3>2. Device(read_input_areas, z) = <<"T", 0 + i>>
        BY <3>1, InputMap
      <3> QED BY <3>2 DEF z
    <2> QED BY <2>1, <2>3, <2>4, <2>5, <2>6, <2>7 DEF PlacedWord, None, x
  <1>2. CASE a = [family |-> "C", first |-> 0, n |-> 200, bytes |-> 2560,
                  holding |-> None, input |-> 1000]
    <2>1. /\ a.family = "C" /\ a.first = 0 /\ a.n = 200 /\ a.bytes = 2560
          /\ a.holding = None /\ a.input = 1000
      BY <1>2
    <2>2. i < 200
      BY <2>1
    <2>3. Exists(<<"C", 0 + i>>) /\ <<"C", 0 + i>>[1] \notin BitFamilies
      BY <2>2 DEF Exists, Unmapped, Size, PLC_SPECIAL_BASE, BitFamilies
    <2> DEFINE x == 2560 + 2 * i
               y == 1280 + i
    <2>4. /\ x \in Nat /\ x % 2 = 0 /\ (x + 1) % 2 = 1 /\ x \div 2 = y /\ (x + 1) \div 2 = y
          /\ x >= 2560 /\ x + 1 < 2960 /\ y \in Nat /\ y >= 1280 /\ y < 1480 /\ y - 1280 = i
      BY <2>2
    <2> HIDE DEF x, y
    <2>5. Device(read_word_areas, y) = <<"C", 0 + i>>
      BY <2>4, WordMap
    <2>6. WordAddress(x) /\ WordAddress(x + 1)
      BY <2>4 DEF WordAddress, FX_ADDR_BIT_END, FX_ADDR_PROGRAM, FX_ADDR_C_CURRENT32, FX_ADDR_D_SPECIAL
    <2>7. Device(read_input_areas, 1000 + i) = <<"C", 0 + i>>
      <3> DEFINE z == 1000 + i
      <3>1. z \in Nat /\ z >= 1000 /\ z < 1200 /\ z - 1000 = i
        BY <2>2
      <3> HIDE DEF z
      <3>2. Device(read_input_areas, z) = <<"C", 0 + i>>
        BY <3>1, InputMap
      <3> QED BY <3>2 DEF z
    <2> QED BY <2>1, <2>3, <2>4, <2>5, <2>6, <2>7 DEF PlacedWord, None, x
  <1>3. CASE a = [family |-> "D", first |-> 8000, n |-> 256, bytes |-> 3584,
                  holding |-> 8000, input |-> None]
    <2>1. /\ a.family = "D" /\ a.first = 8000 /\ a.n = 256 /\ a.bytes = 3584
          /\ a.holding = 8000 /\ a.input = None
      BY <1>3
    <2>2. i < 256
      BY <2>1
    <2>3. Exists(<<"D", 8000 + i>>) /\ <<"D", 8000 + i>>[1] \notin BitFamilies
      BY <2>2 DEF Exists, Unmapped, Size, PLC_SPECIAL_BASE, BitFamilies
    <2> DEFINE x == 3584 + 2 * i
               y == 1792 + i
    <2>4. /\ x \in Nat /\ x % 2 = 0 /\ (x + 1) % 2 = 1 /\ x \div 2 = y /\ (x + 1) \div 2 = y
          /\ x >= 3584 /\ x + 1 < 4096 /\ y \in Nat /\ y >= 1792 /\ y < 2048 /\ y - 1792 = i
      BY <2>2
    <2> HIDE DEF x, y
    <2>5. Device(read_word_areas, y) = <<"D", 8000 + i>>
      BY <2>4, WordMap
    <2>6. WordAddress(x) /\ WordAddress(x + 1)
      BY <2>4 DEF WordAddress, FX_ADDR_BIT_END, FX_ADDR_PROGRAM, FX_ADDR_C_CURRENT32, FX_ADDR_D_SPECIAL
    <2>7. /\ Device(read_holding_areas, 8000 + i) = <<"D", 8000 + i>>
          /\ Device(write_holding_areas, 8000 + i) = <<"D", 8000 + i>>
      <3>1. 8000 + i \in Nat /\ 8000 + i < HOLDING_END
        BY <2>2 DEF HOLDING_END
      <3> QED BY <3>1, HoldingDevice
    <2> QED BY <2>1, <2>3, <2>4, <2>5, <2>6, <2>7 DEF PlacedWord, None, x
  <1>4. CASE a = [family |-> "D", first |-> 8030, n |-> 3, bytes |-> 3644,
                  holding |-> 8030, input |-> 2000]
    <2>1. /\ a.family = "D" /\ a.first = 8030 /\ a.n = 3 /\ a.bytes = 3644
          /\ a.holding = 8030 /\ a.input = 2000
      BY <1>4
    <2>2. i < 3
      BY <2>1
    <2>3. Exists(<<"D", 8030 + i>>) /\ <<"D", 8030 + i>>[1] \notin BitFamilies
      BY <2>2 DEF Exists, Unmapped, Size, PLC_SPECIAL_BASE, BitFamilies
    <2> DEFINE x == 3644 + 2 * i
               y == 1822 + i
    <2>4. /\ x \in Nat /\ x % 2 = 0 /\ (x + 1) % 2 = 1 /\ x \div 2 = y /\ (x + 1) \div 2 = y
          /\ x >= 3644 /\ x + 1 < 3650 /\ y \in Nat /\ y >= 1822 /\ y < 1825 /\ y - 1822 = i
      BY <2>2
    <2> HIDE DEF x, y
    <2>5. Device(read_word_areas, y) = <<"D", 8030 + i>>
      BY <2>4, WordMap
    <2>6. WordAddress(x) /\ WordAddress(x + 1)
      BY <2>4 DEF WordAddress, FX_ADDR_BIT_END, FX_ADDR_PROGRAM, FX_ADDR_C_CURRENT32, FX_ADDR_D_SPECIAL
    <2>7. /\ Device(read_holding_areas, 8030 + i) = <<"D", 8030 + i>>
          /\ Device(write_holding_areas, 8030 + i) = <<"D", 8030 + i>>
      <3>1. 8030 + i \in Nat /\ 8030 + i < HOLDING_END
        BY <2>2 DEF HOLDING_END
      <3> QED BY <3>1, HoldingDevice
    <2>8. Device(read_input_areas, 2000 + i) = <<"D", 8030 + i>>
      <3> DEFINE z == 2000 + i
      <3>1. z \in Nat /\ z >= 2000 /\ z < 2003 /\ z - 2000 = i
        BY <2>2
      <3> HIDE DEF z
      <3>2. Device(read_input_areas, z) = <<"D", 8030 + i>>
        BY <3>1, InputMap
      <3> QED BY <3>2 DEF z
    <2> QED BY <2>1, <2>3, <2>4, <2>5, <2>6, <2>7, <2>8 DEF PlacedWord, None, x
  <1>5. CASE a = [family |-> "D", first |-> 0, n |-> 8000, bytes |-> 16384,
                  holding |-> 0, input |-> None]
    <2>1. /\ a.family = "D" /\ a.first = 0 /\ a.n = 8000 /\ a.bytes = 16384
          /\ a.holding = 0 /\ a.input = None
      BY <1>5
    <2>2. i < 8000
      BY <2>1
    <2>3. Exists(<<"D", 0 + i>>) /\ <<"D", 0 + i>>[1] \notin BitFamilies
      BY <2>2 DEF Exists, Unmapped, Size, PLC_SPECIAL_BASE, BitFamilies
    <2> DEFINE x == 16384 + 2 * i
               y == 8192 + i
    <2>4. /\ x \in Nat /\ x % 2 = 0 /\ (x + 1) % 2 = 1 /\ x \div 2 = y /\ (x + 1) \div 2 = y
          /\ x >= 16384 /\ x + 1 < 32384 /\ y \in Nat /\ y >= 8192 /\ y < 16192 /\ y - 8192 = i
      BY <2>2
    <2> HIDE DEF x, y
    <2>5. Device(read_word_areas, y) = <<"D", 0 + i>>
      BY <2>4, WordMap
    <2>6. WordAddress(x) /\ WordAddress(x + 1)
      BY <2>4 DEF WordAddress, FX_ADDR_BIT_END, FX_ADDR_PROGRAM, FX_ADDR_C_CURRENT32, FX_ADDR_D_SPECIAL
    <2>7. /\ Device(read_holding_areas, 0 + i) = <<"D", 0 + i>>
          /\ Device(write_holding_areas, 0 + i) = <<"D", 0 + i>>
      <3>1. 0 + i \in Nat /\ 0 + i < HOLDING_END
        BY <2>2 DEF HOLDING_END
      <3> QED BY <3>1, HoldingDevice
    <2> QED BY <2>1, <2>3, <2>4, <2>5, <2>6, <2>7 DEF PlacedWord, None, x
  <1> QED BY <1>1, <1>2, <1>3, <1>4, <1>5 DEF WordLayout

\* What is put is got, and nothing else changes.
LEMMA GetPut ==
    ASSUME NEW m, NEW d, NEW v
    PROVE  /\ Exists(d) => Get(Put(m, d, v), d) = v
           /\ \A e : e # d => Get(Put(m, d, v), e) = Get(m, e)
  <1> DEFINE new == [x \in {d} |-> v]
             p == Overlay(new, m)
  <1>1. /\ DOMAIN p = {d} \cup DOMAIN m
        /\ \A x \in DOMAIN p : p[x] = IF x = d THEN v ELSE m[x]
    BY Zenon DEF Overlay
  <1> HIDE DEF p
  <1>2. CASE Exists(d)
    <2>1. Put(m, d, v) = p
      BY <1>2, Zenon DEF Put, p
    <2> QED BY <1>1, <2>1, Zenon DEF Get
  <1>3. CASE ~Exists(d)
    BY <1>3, Zenon DEF Put
  <1> QED BY <1>2, <1>3

\* A bit written through one of the maps is read through all of them.
LEMMA BitViews ==
    ASSUME NEW a, NEW i, Placed(a, i), NEW v
    PROVE  \A m \in WriteBit(a, i, v) : ReadBit(m, a, i) = {v}
  <1> DEFINE d == <<a.family, a.first + i>>
             p == Put(mem, d, v)
  <1>1. /\ Exists(d)
        /\ Device(read_bit_areas, 8 * (a.bytes + i \div 8) + (i % 8)) = d
        /\ a.force # None => Device(force_read_areas, a.force + i) = d
        /\ a.coil # None => Device(read_coil_areas, a.coil + i) = d
        /\ a.input # None => Device(read_discrete_areas, a.input + i) = d
    BY Zenon DEF Placed
  <1> HIDE DEF d
  <1>2. d # Unmapped
    BY <1>1, Zenon DEF Exists
  <1>3. fx_addr_write_bit(mem, a.bytes + i \div 8, i % 8, v) = p
    BY <1>1, SameMaps, Zenon DEF fx_addr_write_bit
  <1>4. a.force # None => fx_addr_force(mem, a.force + i, v) = p
    BY <1>1, SameMaps, Zenon DEF fx_addr_force
  <1>5. a.coil # None =>
           write_one(mem, [start |-> a.coil + i, field |-> 0], write_coil_areas, v).mem = p
    <2> DEFINE q == [start |-> a.coil + i, field |-> 0]
    <2>1. q.start = a.coil + i
      OBVIOUS
    <2> HIDE DEF q
    <2> SUFFICES ASSUME a.coil # None PROVE write_one(mem, q, write_coil_areas, v).mem = p
      BY DEF q
    <2>2. write_one(mem, q, write_coil_areas, v) = [mem |-> p, reply |-> echo(q)]
      BY <1>1, <1>2, <2>1, SameMaps, Zenon DEF write_one
    <2> HIDE DEF p
    <2> QED BY <2>2
  <1>6. \A m \in WriteBit(a, i, v) : m = p
    BY <1>3, <1>4, <1>5, Zenon DEF WriteBit
  <1>7. Get(p, d) = v
    <2>1. \A e : Exists(e) => Get(Put(mem, e, v), e) = v
      BY GetPut, Zenon
    <2> QED BY <1>1, <2>1, Zenon
  <1>8. /\ fx_addr_read_bit(p, a.bytes + i \div 8, i % 8) = v
        /\ a.force # None => fx_addr_force_read(p, a.force + i) = v
        /\ a.coil # None => modbus_read_coil(p, a.coil + i) = v
        /\ a.input # None => modbus_read_discrete(p, a.input + i) = v
    BY <1>1, <1>7, Zenon DEF fx_addr_read_bit, fx_addr_force_read, modbus_read_coil, modbus_read_discrete
  <1> HIDE DEF p
  <1>9. ReadBit(p, a, i) = {v}
    BY <1>8 DEF ReadBit
  <1> QED BY <1>6, <1>9, Zenon

\* word_merge and word_byte: a byte written is read back, and the other half of
\* the word is what it was.
LEMMA Merge ==
    ASSUME NEW g \in Int, NEW x \in Nat, NEW b \in 0..(BYTE - 1)
    PROVE  LET w == word_merge(g, x, b)
           IN  /\ w \in Int
               /\ x % 2 = 0 => byte_of(w, 0) = b /\ byte_of(w, 1) = byte_of(g, 1)
               /\ x % 2 = 1 => byte_of(w, 1) = b /\ byte_of(w, 0) = byte_of(g, 0)
  <1> DEFINE w == word_merge(g, x, b)
  <1>0. b \in Nat /\ b < 256
    BY DEF BYTE
  <1>1. w \in Int
    BY <1>0 DEF word_merge, BYTE, WORD
  <1>2. \A y \in Int : byte_of(y, 0) = y % 256 /\ byte_of(y, 1) = (y \div 256) % 256
    <2>1. \A y \in Int : y \div 1 = y
      OBVIOUS
    <2> QED BY <2>1 DEF byte_of, BYTE
  <1>3. CASE x % 2 = 0
    <2>1. w = 256 * ((g % 65536) \div 256) + b
      BY <1>3 DEF word_merge, BYTE, WORD
    <2> HIDE DEF w
    <2>2. w % 256 = b /\ (w \div 256) % 256 = (g \div 256) % 256
      BY <1>0, <2>1
    <2> QED BY <1>1, <1>2, <1>3, <2>2 DEF w
  <1>4. CASE x % 2 = 1
    <2>1. w = (g % 256) + b * 256
      BY <1>4 DEF word_merge, BYTE, WORD
    <2> HIDE DEF w
    <2>2. w % 256 = g % 256 /\ (w \div 256) % 256 = b
      BY <1>0, <2>1
    <2> QED BY <1>1, <1>2, <1>4, <2>2 DEF w
  <1>5. x % 2 = 0 \/ x % 2 = 1
    OBVIOUS
  <1> QED BY <1>1, <1>3, <1>4, <1>5

\* fx_addr_write_byte on a word address merges the byte into its device and
\* touches no other.
LEMMA WordByteWritten ==
    ASSUME NEW m, MemOK(m), NEW x, WordAddress(x), NEW d, Device(read_word_areas, x \div 2) = d,
           Exists(d), d[1] \notin BitFamilies, NEW b \in 0..(BYTE - 1)
    PROVE  LET w == fx_addr_write_byte(m, x, b)
           IN  /\ MemOK(w) /\ Get(w, d) = word_merge(Get(m, d), x, b) /\ Get(m, d) \in Int
               /\ \A e : e # d => Get(w, e) = Get(m, e)
  <1> DEFINE v == word_merge(Get(m, d), x, b)
             w == fx_addr_write_byte(m, x, b)
  <1>1. Get(m, d) \in Int
    BY GetOK, Zenon
  <1>2. v \in Int
    <2>1. x \in Nat
      BY Zenon DEF WordAddress
    <2> QED BY <1>1, <2>1, Merge, Zenon
  <1>3. w = Put(m, d, v)
    BY SameMaps, Zenon DEF fx_addr_write_byte, WordAddress
  <1> HIDE DEF v, w
  <1>4. MemOK(Put(m, d, v))
    BY <1>2, PutOK, Zenon
  <1>5. Get(Put(m, d, v), d) = v /\ \A e : e # d => Get(Put(m, d, v), e) = Get(m, e)
    <2>1. \A y : /\ Exists(d) => Get(Put(m, d, y), d) = y
                 /\ \A e : e # d => Get(Put(m, d, y), e) = Get(m, e)
      BY GetPut
    <2> QED BY <2>1, Zenon
  <1> QED BY <1>1, <1>3, <1>4, <1>5, Zenon DEF v, w

\* fx_addr_read_byte on a word address takes its half of the device.
LEMMA WordByteRead ==
    ASSUME NEW m, NEW x, WordAddress(x)
    PROVE  fx_addr_read_byte(m, x) = byte_of(Get(m, Device(read_word_areas, x \div 2)), x % 2)
  BY Zenon DEF fx_addr_read_byte, WordAddress

\* A word written through one of the maps is read through all of them.
LEMMA WordViews ==
    ASSUME MemOK(mem), NEW a, NEW i, PlacedWord(a, i), NEW lo \in 0..(BYTE - 1), NEW hi \in 0..(BYTE - 1)
    PROVE  \A m \in WriteWord(a, i, lo, hi) : ReadWord(m, a, i) = {lo + BYTE * hi}
  <1> DEFINE d == <<a.family, a.first + i>>
             x == a.bytes + 2 * i
             V == lo + BYTE * hi
             m1 == fx_addr_write_byte(mem, x, lo)
             m2 == fx_addr_write_byte(m1, x + 1, hi)
  <1>1. /\ Exists(d) /\ d[1] \notin BitFamilies
        /\ WordAddress(x) /\ WordAddress(x + 1) /\ x % 2 = 0 /\ (x + 1) % 2 = 1
        /\ Device(read_word_areas, x \div 2) = d /\ Device(read_word_areas, (x + 1) \div 2) = d
        /\ a.holding # None => /\ Device(read_holding_areas, a.holding + i) = d
                               /\ Device(write_holding_areas, a.holding + i) = d
        /\ a.input # None => Device(read_input_areas, a.input + i) = d
    BY Zenon DEF PlacedWord
  <1> HIDE DEF d, x
  <1>2. d # Unmapped
    BY <1>1, Zenon DEF Exists
  <1>3. /\ V \in Nat /\ V % WORD = V /\ byte_of(V, 0) + BYTE * byte_of(V, 1) = V
    <2>1. V \in Nat
      BY DEF BYTE
    <2>2. V % 65536 = V /\ (V % 256) + 256 * ((V \div 256) % 256) = V /\ V \div 1 = V
      BY DEF BYTE
    <2> HIDE DEF V
    <2> QED BY <2>1, <2>2 DEF byte_of, BYTE, WORD
  <1>4. Get(m2, d) = V
    <2>1. /\ MemOK(m1) /\ Get(m1, d) = word_merge(Get(mem, d), x, lo) /\ Get(mem, d) \in Int
      BY <1>1, WordByteWritten
    <2>2. x \in Nat /\ x + 1 \in Nat
      BY <1>1, Zenon DEF WordAddress
    <2>3. Get(m1, d) \in Int /\ byte_of(Get(m1, d), 0) = lo
      <3>1. PICK g \in Int : g = Get(mem, d)
        BY <2>1, Zenon
      <3>2. word_merge(g, x, lo) \in Int /\ byte_of(word_merge(g, x, lo), 0) = lo
        <4>1. x % 2 = 0
          BY <1>1, Zenon
        <4> QED BY <2>2, <4>1, Merge
      <3> QED BY <2>1, <3>1, <3>2, Zenon
    <2> HIDE DEF m1
    <2>4. Get(m2, d) = word_merge(Get(m1, d), x + 1, hi)
      BY <1>1, <2>1, WordByteWritten
    <2>5. PICK g \in Int : g = Get(m1, d)
      BY <2>3, Zenon
    <2>6. byte_of(g, 0) = g % 256
      <3>1. g \div 1 = g
        OBVIOUS
      <3> QED BY <3>1 DEF byte_of, BYTE
    <2>7. g % 256 = lo
      BY <2>3, <2>5, <2>6, Zenon
    <2>8. word_merge(g, x + 1, hi) = (g % 256) + hi * 256
      BY <1>1 DEF word_merge, BYTE
    <2>9. (g % 256) + hi * 256 = V
      BY <2>7 DEF BYTE
    <2> QED BY <2>4, <2>5, <2>8, <2>9, Zenon
  <1> HIDE DEF m1, m2
  <1>5. a.holding # None =>
           Get(write_one(mem, [start |-> a.holding + i, field |-> 0], write_holding_areas, V).mem, d) = V
    <2> DEFINE q == [start |-> a.holding + i, field |-> 0]
               p == Put(mem, d, V)
    <2>1. q.start = a.holding + i
      OBVIOUS
    <2> HIDE DEF q
    <2> SUFFICES ASSUME a.holding # None
                 PROVE  Get(write_one(mem, q, write_holding_areas, V).mem, d) = V
      BY DEF q
    <2>2. write_one(mem, q, write_holding_areas, V) = [mem |-> p, reply |-> echo(q)]
      BY <1>1, <1>2, <2>1, Zenon DEF write_one
    <2> HIDE DEF p
    <2>3. write_one(mem, q, write_holding_areas, V).mem = p
      BY <2>2
    <2>4. \A e : Exists(e) => Get(Put(mem, e, V), e) = V
      BY GetPut, Zenon
    <2> QED BY <1>1, <2>3, <2>4, Zenon DEF p
  <1>6. \A m \in WriteWord(a, i, lo, hi) : Get(m, d) = V
    BY <1>4, <1>5, Zenon DEF WriteWord, m1, m2, x
  <1> HIDE DEF V
  <1>7. ASSUME NEW m, Get(m, d) = V
        PROVE  ReadWord(m, a, i) = {V}
    <2>1. fx_addr_read_byte(m, x) + BYTE * fx_addr_read_byte(m, x + 1) = V
      <3>1. fx_addr_read_byte(m, x) = byte_of(V, 0) /\ fx_addr_read_byte(m, x + 1) = byte_of(V, 1)
        BY <1>1, <1>7, WordByteRead, Zenon
      <3> QED BY <1>3, <3>1, Zenon
    <2>2. a.holding # None => modbus_read_holding(m, a.holding + i) = V
      BY <1>1, <1>7, Zenon DEF modbus_read_holding
    <2>3. a.input # None => modbus_read_input(m, a.input + i) = V
      BY <1>1, <1>3, <1>7, Zenon DEF modbus_read_input
    <2> HIDE DEF x
    <2>4. ReadWord(m, a, i) =
            {fx_addr_read_byte(m, x) + BYTE * fx_addr_read_byte(m, x + 1)}
            \cup (IF a.holding = None THEN {} ELSE {modbus_read_holding(m, a.holding + i)})
            \cup (IF a.input = None THEN {} ELSE {modbus_read_input(m, a.input + i)})
      BY Zenon DEF ReadWord, x
    <2> QED BY <2>1, <2>2, <2>3, <2>4
  <1> QED BY <1>6, <1>7, Zenon DEF V

\* A 32-bit counter, byte by byte and as the low word of an input register.
LEMMA Counter32Views ==
    ASSUME NEW i \in {200, 255}
    PROVE  LET m == Put(mem, <<"C", i>>, 70000)
               byte(k) == fx_addr_read_byte(m, \h0C00 + 4 * (i - 200) + k)
           IN  /\ byte(0) + BYTE * byte(1) + WORD * byte(2) = 70000 /\ byte(3) = 0
               /\ modbus_read_input(m, 1000 + i) = 70000 % WORD
  <1> DEFINE d == <<"C", i>>
             v == 70000
             m == Put(mem, d, v)
             x(k) == \h0C00 + 4 * (i - 200) + k
  <1>1. Exists(d)
    BY DEF Exists, Unmapped, Size
  <1>2. Get(m, d) = v
    <2>1. \A e, y : Exists(e) => Get(Put(mem, e, y), e) = y
      BY GetPut, Zenon
    <2> HIDE DEF d, v
    <2> QED BY <1>1, <2>1, Zenon
  <1>3. ASSUME NEW k \in 0..3
        PROVE  /\ x(k) \in FX_ADDR_C_CURRENT32..(FX_ADDR_D_SPECIAL - 1)
               /\ ~(x(k) < FX_ADDR_BIT_END) /\ ~(x(k) >= FX_ADDR_PROGRAM)
               /\ counter32(x(k)) = d /\ (x(k) - FX_ADDR_C_CURRENT32) % 4 = k
    <2>1. i \in Nat /\ i >= 200 /\ i <= 255
      OBVIOUS
    <2>2. (x(k) - 3072) % 4 = k /\ 200 + (x(k) - 3072) \div 4 = i
      BY <2>1
    <2> QED BY <2>1, <2>2 DEF FX_ADDR_C_CURRENT32, FX_ADDR_D_SPECIAL, FX_ADDR_BIT_END, FX_ADDR_PROGRAM,
                              counter32, NUM_C16
  <1> HIDE DEF m, d, v, x
  <1>4. \A k \in 0..3 : fx_addr_read_byte(m, x(k)) = byte_of(v, k)
    BY <1>2, <1>3, Zenon DEF fx_addr_read_byte
  <1>5. /\ byte_of(v, 0) = 112 /\ byte_of(v, 1) = 17 /\ byte_of(v, 2) = 1 /\ byte_of(v, 3) = 0
    BY DEF byte_of, v, BYTE, WORD
  <1>6. 0 \in 0..3 /\ 1 \in 0..3 /\ 2 \in 0..3 /\ 3 \in 0..3
    OBVIOUS
  <1>7. /\ fx_addr_read_byte(m, x(0)) = 112 /\ fx_addr_read_byte(m, x(1)) = 17
        /\ fx_addr_read_byte(m, x(2)) = 1 /\ fx_addr_read_byte(m, x(3)) = 0
    BY <1>4, <1>5, <1>6
  <1>8. modbus_read_input(m, 1000 + i) = v % WORD
    <2> DEFINE z == 1000 + i
    <2>1. z \in Nat /\ z >= 1000 /\ z < 1256 /\ z - 1000 = i
      OBVIOUS
    <2> HIDE DEF z
    <2>2. Device(read_input_areas, z) = d
      BY <2>1, InputMap DEF d
    <2>3. modbus_read_input(m, z) = v % WORD
      BY <1>2, <2>2 DEF modbus_read_input
    <2> QED BY <2>3 DEF z
  <1>9. 112 + BYTE * 17 + WORD * 1 = v
    BY DEF BYTE, WORD, v
  <1> QED BY <1>7, <1>8, <1>9 DEF m, d, v, x

\* The invariant ViewsAgree of fx_addr.c and modbus_map.c, on every memory the
\* protocols and the scan can produce.
THEOREM DevicesAgree == Spec => []ViewsAgree
  <1>1. MonitorInv => ViewsAgree
    <2> SUFFICES ASSUME MonitorInv PROVE ViewsAgree
      OBVIOUS
    <2>1. ASSUME NEW a \in BitLayout, NEW i \in Edges(a), NEW v \in {0, 1}
          PROVE  \A m \in WriteBit(a, i, v) : ReadBit(m, a, i) = {v}
      <3>1. i \in Nat /\ i < a.n
        <4>1. a.n \in Nat
          BY DEF BitLayout
        <4> QED BY <4>1 DEF Edges
      <3>2. Placed(a, i)
        BY <3>1, BitsPlaced, Zenon
      <3> QED BY <3>2, BitViews, SMT
    <2>2. ASSUME NEW a \in WordLayout, NEW i \in Edges(a)
          PROVE  \A m \in WriteWord(a, i, 165, 90) : ReadWord(m, a, i) = {165 + BYTE * 90}
      <3>1. i \in Nat /\ i < a.n
        <4>1. a.n \in Nat
          BY DEF WordLayout
        <4> QED BY <4>1 DEF Edges
      <3>2. MemOK(mem) /\ PlacedWord(a, i)
        BY <3>1, WordsPlaced, Zenon DEF MonitorInv
      <3>3. \A lo, hi \in 0..(BYTE - 1) :
               \A m \in WriteWord(a, i, lo, hi) : ReadWord(m, a, i) = {lo + BYTE * hi}
        BY <3>2, WordViews
      <3>4. 165 \in 0..(BYTE - 1) /\ 90 \in 0..(BYTE - 1)
        BY DEF BYTE
      <3> QED BY <3>3, <3>4, Zenon
    <2> QED BY <2>1, <2>2, Counter32Views DEF ViewsAgree
  <1> QED BY <1>1, MonitorInit, MonitorStep, PTL DEF Spec

\* No two addresses of the byte map share a device.
LEMMA BitMapInjective ==
    ASSUME NEW p \in Nat, NEW q \in Nat,
           Device(read_bit_areas, p) = Device(read_bit_areas, q), Device(read_bit_areas, p) # Unmapped
    PROVE  p = q
  <1> DEFINE dp == Device(read_bit_areas, p)
             dq == Device(read_bit_areas, q)
  <1>1. \/ dp = Unmapped
        \/ p < 1024 /\ dp = <<"S", p>>
        \/ 1024 <= p /\ p < 1280 /\ dp = <<"X", p - 1024>>
        \/ 1280 <= p /\ p < 1536 /\ dp = <<"Y", p - 1280>>
        \/ 1536 <= p /\ p < 1792 /\ dp = <<"TC", p - 1536>>
        \/ 2048 <= p /\ p < 3584 /\ dp = <<"M", p - 2048>>
        \/ 3584 <= p /\ p < 3840 /\ dp = <<"CC", p - 3584>>
        \/ 3840 <= p /\ p < 4096 /\ dp = <<"M", p + 4160>>
    BY BitMap
  <1>2. \/ dq = Unmapped
        \/ q < 1024 /\ dq = <<"S", q>>
        \/ 1024 <= q /\ q < 1280 /\ dq = <<"X", q - 1024>>
        \/ 1280 <= q /\ q < 1536 /\ dq = <<"Y", q - 1280>>
        \/ 1536 <= q /\ q < 1792 /\ dq = <<"TC", q - 1536>>
        \/ 2048 <= q /\ q < 3584 /\ dq = <<"M", q - 2048>>
        \/ 3584 <= q /\ q < 3840 /\ dq = <<"CC", q - 3584>>
        \/ 3840 <= q /\ q < 4096 /\ dq = <<"M", q + 4160>>
    BY BitMap
  <1>3. dp = dq /\ dp # Unmapped
    OBVIOUS
  <1> HIDE DEF dp, dq
  <1> QED BY <1>1, <1>2, <1>3

\* No two words of the byte map share a device.
LEMMA WordMapInjective ==
    ASSUME NEW p \in Nat, NEW q \in Nat,
           Device(read_word_areas, p) = Device(read_word_areas, q), Device(read_word_areas, p) # Unmapped
    PROVE  p = q
  <1> DEFINE dp == Device(read_word_areas, p)
             dq == Device(read_word_areas, q)
  <1>1. \/ dp = Unmapped
        \/ 1024 <= p /\ p < 1280 /\ dp = <<"T", p - 1024>>
        \/ 1280 <= p /\ p < 1480 /\ dp = <<"C", p - 1280>>
        \/ 1792 <= p /\ p < 8192 /\ dp = <<"D", p + 6208>>
        \/ 8192 <= p /\ p < 16192 /\ dp = <<"D", p - 8192>>
    BY WordMap
  <1>2. \/ dq = Unmapped
        \/ 1024 <= q /\ q < 1280 /\ dq = <<"T", q - 1024>>
        \/ 1280 <= q /\ q < 1480 /\ dq = <<"C", q - 1280>>
        \/ 1792 <= q /\ q < 8192 /\ dq = <<"D", q + 6208>>
        \/ 8192 <= q /\ q < 16192 /\ dq = <<"D", q - 8192>>
    BY WordMap
  <1>3. dp = dq /\ dp # Unmapped
    OBVIOUS
  <1> HIDE DEF dp, dq
  <1> QED BY <1>1, <1>2, <1>3

\* What a byte address reads besides bits: program memory, a 32-bit counter or
\* a word, none of them a bit device.
LEMMA ReadFrame ==
    ASSUME NEW m, NEW w, NEW y \in Nat, ~(y < FX_ADDR_BIT_END),
           Get(w, <<"P", y - FX_ADDR_PROGRAM>>) = Get(m, <<"P", y - FX_ADDR_PROGRAM>>),
           Get(w, counter32(y)) = Get(m, counter32(y)),
           byte_of(Get(w, Device(read_word_areas, y \div 2)), y % 2)
             = byte_of(Get(m, Device(read_word_areas, y \div 2)), y % 2)
    PROVE  fx_addr_read_byte(w, y) = fx_addr_read_byte(m, y)
  BY Zenon DEF fx_addr_read_byte

\* A byte of bits reads the same in two memories that agree on its eight bits.
LEMMA ReadBitFrame ==
    ASSUME NEW m, NEW w, NEW y \in Nat, y < FX_ADDR_BIT_END,
           \A b \in 0..7 : fx_addr_read_bit(w, y, b) = fx_addr_read_bit(m, y, b)
    PROVE  fx_addr_read_byte(w, y) = fx_addr_read_byte(m, y)
  <1>1. {0, 1, 2, 3, 4, 5, 6, 7} \subseteq 0..7
    OBVIOUS
  <1>2. /\ fx_addr_read_bit(w, y, 0) = fx_addr_read_bit(m, y, 0)
        /\ fx_addr_read_bit(w, y, 1) = fx_addr_read_bit(m, y, 1)
        /\ fx_addr_read_bit(w, y, 2) = fx_addr_read_bit(m, y, 2)
        /\ fx_addr_read_bit(w, y, 3) = fx_addr_read_bit(m, y, 3)
        /\ fx_addr_read_bit(w, y, 4) = fx_addr_read_bit(m, y, 4)
        /\ fx_addr_read_bit(w, y, 5) = fx_addr_read_bit(m, y, 5)
        /\ fx_addr_read_bit(w, y, 6) = fx_addr_read_bit(m, y, 6)
        /\ fx_addr_read_bit(w, y, 7) = fx_addr_read_bit(m, y, 7)
    BY <1>1, Zenon
  <1> DEFINE on(x, b) == fx_addr_read_bit(x, y, b)
             sum(x) == on(x, 0) + 2 * on(x, 1) + 4 * on(x, 2) + 8 * on(x, 3) + 16 * on(x, 4)
                       + 32 * on(x, 5) + 64 * on(x, 6) + 128 * on(x, 7)
  <1>3. fx_addr_read_byte(w, y) = sum(w) /\ fx_addr_read_byte(m, y) = sum(m)
    BY DEF fx_addr_read_byte, packed
  <1> QED BY <1>2, <1>3, Zenon

\* The eight devices of a byte of bits.
LEMMA ByteDevices ==
    ASSUME NEW l \in BitLayout, NEW k \in Nat, 8 * k + 7 < l.n, NEW b \in 0..7
    PROVE  LET d == Device(read_bit_areas, 8 * (l.bytes + k) + b)
           IN  Exists(d) /\ d = <<l.family, l.first + (8 * k + b)>>
  <1>1. 8 * k + b \in Nat /\ 8 * k + b < l.n
    <2>1. l.n \in Nat
      BY DEF BitLayout
    <2> QED BY <2>1
  <1>2. Placed(l, 8 * k + b)
    BY <1>1, BitsPlaced, Zenon
  <1>3. 8 * (l.bytes + (8 * k + b) \div 8) + ((8 * k + b) % 8) = 8 * (l.bytes + k) + b
    <2>1. (8 * k + b) \div 8 = k /\ (8 * k + b) % 8 = b
      OBVIOUS
    <2> QED BY <2>1
  <1> QED BY <1>2, <1>3, Zenon DEF Placed

\* Memory u is m with byte y of the bit area set to v, device by device.
BitsStored(m, y, v, u) ==
    /\ \A b \in 0..7 : Get(u, Device(read_bit_areas, 8 * y + b)) = (v \div Mask[b + 1]) % 2
    /\ \A e : (\A b \in 0..7 : e # Device(read_bit_areas, 8 * y + b)) => Get(u, e) = Get(m, e)

\* The bits of byte x of memory u are those of v.
BitsRead(u, x, v) == \A b \in 0..7 : fx_addr_read_bit(u, x, b) = (v \div Mask[b + 1]) % 2

\* Memory u reads like m at every byte address but x.
OnlyByteChanged(m, x, u) ==
    \A y \in Nat : y # x => fx_addr_read_byte(u, y) = fx_addr_read_byte(m, y)

\* The loop of fx_addr_write_byte over a byte of bits: each of its devices gets
\* its bit and nothing else changes.
LEMMA ByteOfBitsWritten ==
    ASSUME NEW m, NEW l \in BitLayout, NEW k \in Nat, 8 * k + 7 < l.n, NEW v,
           NEW y, y = l.bytes + k, NEW u, u = write_bits(m, y, v)[8]
    PROVE  BitsStored(m, y, v, u)
  <1> DEFINE x == l.bytes + k
             w == write_bits(m, x, v)
             dev(b) == Device(read_bit_areas, 8 * x + b)
             bit(b) == (v \div Mask[b + 1]) % 2
             put(z, n) == fx_addr_write_bit(z, x, n - 1, (v \div Mask[n]) % 2)
             P(n) == /\ \A b \in 0..(n - 1) : Get(w[n], dev(b)) = bit(b)
                     /\ \A e : (\A b \in 0..(n - 1) : e # dev(b)) => Get(w[n], e) = Get(m, e)
  <1>1. w = [n \in 0..8 |-> IF n = 0 THEN m ELSE put(w[n - 1], n)]
    BY WriteBitsDef
  <1>2. \A b \in 0..7 : Exists(dev(b))
    BY ByteDevices, Zenon
  <1>3. \A b, c \in 0..7 : dev(b) = dev(c) => b = c
    <2> SUFFICES ASSUME NEW b \in 0..7, NEW c \in 0..7, dev(b) = dev(c) PROVE b = c
      BY Zenon
    <2>1. 8 * x + b \in Nat /\ 8 * x + c \in Nat /\ x \in Nat
      BY DEF BitLayout
    <2>2. 8 * x + b = 8 * x + c
      BY <1>2, <2>1, BitMapInjective, Zenon DEF Exists
    <2> HIDE DEF x
    <2> QED BY <2>1, <2>2
  <1>4. \A z : \A n \in 1..8 : put(z, n) = Put(z, dev(n - 1), bit(n - 1))
    <2> SUFFICES ASSUME NEW z, NEW n \in 1..8 PROVE put(z, n) = Put(z, dev(n - 1), bit(n - 1))
      BY Zenon
    <2>1. (n - 1) + 1 = n
      OBVIOUS
    <2> QED BY <2>1, SameMaps, Zenon DEF fx_addr_write_bit
  <1> HIDE DEF x, w, dev, bit, put
  <1>5. P(0)
    <2>1. w[0] = m
      BY <1>1
    <2>2. 0..(0 - 1) = {}
      OBVIOUS
    <2> QED BY <2>1, <2>2, Zenon
  <1>6. ASSUME NEW n \in 0..7, P(n)
        PROVE  P(n + 1)
    <2>1. n + 1 \in 1..8 /\ (n + 1) - 1 = n /\ 0..((n + 1) - 1) = 0..(n - 1) \cup {n}
          /\ n \notin 0..(n - 1) /\ 0..(n - 1) \subseteq 0..7
      OBVIOUS
    <2>2. w[n + 1] = put(w[n], n + 1)
      <3>1. n + 1 \in 0..8 /\ n + 1 # 0
        OBVIOUS
      <3> QED BY <1>1, <2>1, <3>1, Zenon
    <2>3. w[n + 1] = Put(w[n], dev(n), bit(n))
      BY <1>4, <2>1, <2>2, Zenon
    <2>4. /\ Get(w[n + 1], dev(n)) = bit(n)
          /\ \A e : e # dev(n) => Get(w[n + 1], e) = Get(w[n], e)
      BY <1>2, <2>3, GetPut
    <2>5. \A b \in 0..(n - 1) : dev(b) # dev(n)
      BY <1>3, <2>1, Zenon
    <2>6. \A b \in 0..(n - 1) \cup {n} : Get(w[n + 1], dev(b)) = bit(b)
      BY <1>6, <2>4, <2>5, Zenon
    <2>7. \A e : (\A b \in 0..(n - 1) \cup {n} : e # dev(b)) => Get(w[n + 1], e) = Get(m, e)
      <3> SUFFICES ASSUME NEW e, \A b \in 0..(n - 1) \cup {n} : e # dev(b)
                   PROVE  Get(w[n + 1], e) = Get(m, e)
        BY Zenon
      <3>1. e # dev(n) /\ \A b \in 0..(n - 1) : e # dev(b)
        BY Zenon
      <3>2. Get(w[n], e) = Get(m, e)
        BY <1>6, <3>1, Zenon
      <3> QED BY <2>4, <3>1, <3>2, Zenon
    <2> QED BY <2>1, <2>6, <2>7, Zenon
  <1> HIDE DEF P
  <1>7. {0, 1, 2, 3, 4, 5, 6, 7} \subseteq 0..7
    OBVIOUS
  <1>8. /\ 0 + 1 = 1 /\ 1 + 1 = 2 /\ 2 + 1 = 3 /\ 3 + 1 = 4 /\ 4 + 1 = 5 /\ 5 + 1 = 6
        /\ 6 + 1 = 7 /\ 7 + 1 = 8
    OBVIOUS
  <1>9. P(1) /\ P(2) /\ P(3) /\ P(4)
    BY <1>5, <1>6, <1>7, <1>8, Zenon
  <1>10. P(8)
    BY <1>6, <1>7, <1>8, <1>9, Zenon
  <1>11. 0..(8 - 1) = 0..7
    OBVIOUS
  <1> QED BY <1>10, <1>11, Zenon DEF BitsStored, P, x, w, dev, bit

\* A byte of bits written puts its bits on its devices and changes no other byte.
LEMMA BitsWritten ==
    ASSUME NEW m, NEW l \in BitLayout, NEW k \in Nat, 8 * k + 7 < l.n, NEW v
    PROVE  LET x == l.bytes + k
               w == fx_addr_write_byte(m, x, v)
           IN  BitsRead(w, x, v) /\ OnlyByteChanged(m, x, w)
  <1> DEFINE x == l.bytes + k
             w == write_bits(m, x, v)[8]
             dev(b) == Device(read_bit_areas, 8 * x + b)
             bit(b) == (v \div Mask[b + 1]) % 2
  <1>1. x \in Nat /\ x < FX_ADDR_BIT_END
    BY DEF BitLayout, FX_ADDR_BIT_END
  <1>2. /\ \A b \in 0..7 : Get(w, dev(b)) = bit(b)
        /\ \A e : (\A b \in 0..7 : e # dev(b)) => Get(w, e) = Get(m, e)
    <2>1. BitsStored(m, x, v, w)
      BY ByteOfBitsWritten, Zenon
    <2> QED BY <2>1, Zenon DEF BitsStored
  <1>3. \A b \in 0..7 : Exists(dev(b)) /\ dev(b) = <<l.family, l.first + (8 * k + b)>>
    BY ByteDevices, Zenon
  <1>4. \A b \in 0..7 : dev(b)[1] \in BitFamilies /\ dev(b) # Unmapped
    <2>1. l.family \in BitFamilies
      BY DEF BitLayout, BitFamilies
    <2>2. \A f, n : <<f, n>>[1] = f
      OBVIOUS
    <2>3. ASSUME NEW b \in 0..7 PROVE dev(b)[1] \in BitFamilies /\ dev(b) # Unmapped
      <3>1. Exists(dev(b)) /\ dev(b)[1] = l.family
        BY <1>3, <2>2
      <3> HIDE DEF dev
      <3> QED BY <2>1, <3>1 DEF Exists
    <2> QED BY <2>3
  <1>5. fx_addr_write_byte(m, x, v) = w
    BY <1>1, Zenon DEF fx_addr_write_byte
  <1> HIDE DEF w
  <1>7. \A b \in 0..7 : fx_addr_read_bit(w, x, b) = (v \div Mask[b + 1]) % 2
    BY <1>2, Zenon DEF fx_addr_read_bit
  <1>8. ASSUME NEW y \in Nat, y # x
        PROVE  fx_addr_read_byte(w, y) = fx_addr_read_byte(m, y)
    <2>1. CASE y < FX_ADDR_BIT_END
      <3>1. ASSUME NEW b \in 0..7 PROVE fx_addr_read_bit(w, y, b) = fx_addr_read_bit(m, y, b)
        <4> DEFINE e == Device(read_bit_areas, 8 * y + b)
        <4>1. ASSUME NEW c \in 0..7 PROVE e # dev(c)
          <5>1. 8 * y + b \in Nat /\ 8 * x + c \in Nat /\ 8 * y + b # 8 * x + c
            <6> HIDE DEF x
            <6> QED BY <1>1, <1>8
          <5> QED BY <1>4, <5>1, BitMapInjective, Zenon
        <4>2. Get(w, e) = Get(m, e)
          BY <1>2, <4>1, Zenon
        <4> QED BY <4>2, Zenon DEF fx_addr_read_bit
      <3> QED BY <2>1, <3>1, ReadBitFrame, Zenon
    <2>2. CASE ~(y < FX_ADDR_BIT_END)
      <3>1. <<"P", y - FX_ADDR_PROGRAM>>[1] \notin BitFamilies /\ counter32(y)[1] \notin BitFamilies
        BY DEF BitFamilies, counter32
      <3>2. \A e : e[1] \notin BitFamilies \/ e = Unmapped => Get(w, e) = Get(m, e)
        BY <1>2, <1>4, Zenon
      <3>3. Device(read_word_areas, y \div 2)[1] \notin BitFamilies
            \/ Device(read_word_areas, y \div 2) = Unmapped
        BY WordFamilies, SameMaps, Zenon
      <3>4. /\ Get(w, <<"P", y - FX_ADDR_PROGRAM>>) = Get(m, <<"P", y - FX_ADDR_PROGRAM>>)
            /\ Get(w, counter32(y)) = Get(m, counter32(y))
            /\ Get(w, Device(read_word_areas, y \div 2)) = Get(m, Device(read_word_areas, y \div 2))
        BY <3>1, <3>2, <3>3, Zenon
      <3> QED BY <2>2, <3>4, ReadFrame, Zenon
    <2> QED BY <2>1, <2>2
  <1> QED BY <1>5, <1>7, <1>8, Zenon DEF BitsRead, OnlyByteChanged

\* The byte WriteIsolation writes.
PATTERN == 165

\* A byte of bits written is read back.
LEMMA BitsReadBack ==
    ASSUME NEW m, NEW l \in BitLayout, NEW k \in Nat, 8 * k + 7 < l.n
    PROVE  LET x == l.bytes + k
               w == fx_addr_write_byte(m, x, PATTERN)
           IN  fx_addr_read_byte(w, x) = PATTERN /\ OnlyByteChanged(m, x, w)
  <1> DEFINE x == l.bytes + k
             w == fx_addr_write_byte(m, x, PATTERN)
             on(b) == fx_addr_read_bit(w, x, b)
  <1>1. x \in Nat /\ x < FX_ADDR_BIT_END
    BY DEF BitLayout, FX_ADDR_BIT_END
  <1>2. BitsRead(w, x, PATTERN) /\ OnlyByteChanged(m, x, w)
    BY BitsWritten, Zenon
  <1>3. fx_addr_read_byte(w, x) = on(0) + 2 * on(1) + 4 * on(2) + 8 * on(3) + 16 * on(4)
                                  + 32 * on(5) + 64 * on(6) + 128 * on(7)
    BY <1>1, Zenon DEF fx_addr_read_byte, packed
  <1>4. \A b \in 0..7 : on(b) = (PATTERN \div Mask[b + 1]) % 2
    BY <1>2, Zenon DEF BitsRead
  <1> HIDE DEF on, w, x
  <1>5. on(0) = 1 /\ on(1) = 0 /\ on(2) = 1 /\ on(3) = 0 /\ on(4) = 0 /\ on(5) = 1
        /\ on(6) = 0 /\ on(7) = 1
    BY <1>4 DEF Mask, PATTERN
  <1>6. fx_addr_read_byte(w, x) = PATTERN
    BY <1>3, <1>5 DEF PATTERN
  <1> QED BY <1>2, <1>6, Zenon DEF w, x

\* A byte of a word written is read back, and its other half and every other
\* byte address read as before.
LEMMA WordReadBack ==
    ASSUME NEW m, MemOK(m), NEW x, WordAddress(x), NEW d, Device(read_word_areas, x \div 2) = d,
           Exists(d), d[1] \notin BitFamilies, NEW v \in 0..(BYTE - 1)
    PROVE  LET w == fx_addr_write_byte(m, x, v)
           IN  fx_addr_read_byte(w, x) = v /\ OnlyByteChanged(m, x, w)
  <1> DEFINE w == fx_addr_write_byte(m, x, v)
  <1>1. /\ Get(w, d) = word_merge(Get(m, d), x, v) /\ Get(m, d) \in Int
        /\ \A e : e # d => Get(w, e) = Get(m, e)
    BY WordByteWritten
  <1>2. x \in Nat /\ d # Unmapped
    BY Zenon DEF WordAddress, Exists
  <1> HIDE DEF w
  <1>3. /\ x % 2 = 0 => byte_of(Get(w, d), 0) = v /\ byte_of(Get(w, d), 1) = byte_of(Get(m, d), 1)
        /\ x % 2 = 1 => byte_of(Get(w, d), 1) = v /\ byte_of(Get(w, d), 0) = byte_of(Get(m, d), 0)
    <2>1. PICK g \in Int : g = Get(m, d)
      BY <1>1, Zenon
    <2>2. LET u == word_merge(g, x, v)
          IN  /\ x % 2 = 0 => byte_of(u, 0) = v /\ byte_of(u, 1) = byte_of(g, 1)
              /\ x % 2 = 1 => byte_of(u, 1) = v /\ byte_of(u, 0) = byte_of(g, 0)
      BY <1>2, Merge
    <2> QED BY <1>1, <2>1, <2>2, Zenon
  <1>4. \A y \in Nat : y % 2 = 0 \/ y % 2 = 1
    OBVIOUS
  <1>5. fx_addr_read_byte(w, x) = v
    <2>1. fx_addr_read_byte(w, x) = byte_of(Get(w, d), x % 2)
      BY WordByteRead, Zenon
    <2> QED BY <1>2, <1>3, <1>4, <2>1, Zenon
  <1>6. /\ d[1] \in {"T", "C", "D"}
        /\ \A n \in Nat : n >= NUM_C16 => d # <<"C", n>>
    <2>1. x \div 2 \in Nat
      BY <1>2
    <2>2. PICK z \in Nat : z = x \div 2
      BY <2>1, Zenon
    <2>3. \/ d = <<"T", z - 1024>> \/ d = <<"D", z + 6208>> \/ d = <<"D", z - 8192>>
          \/ z < 1480 /\ d = <<"C", z - 1280>>
      <3>1. Device(read_word_areas, z) = d
        BY <2>2, Zenon
      <3> QED BY <1>2, <3>1, WordMap
    <2> QED BY <2>3 DEF NUM_C16
  <1>7. ASSUME NEW y \in Nat, y # x
        PROVE  fx_addr_read_byte(w, y) = fx_addr_read_byte(m, y)
    <2>1. CASE y < FX_ADDR_BIT_END
      <3>1. \A b \in 0..7 : Device(read_bit_areas, 8 * y + b) # d
        <4>1. \A a \in read_bit_areas : a[3] \in BitFamilies
          BY DEF read_bit_areas, BitFamilies
        <4> QED BY <1>2, <4>1, DeviceFamily, Zenon
      <3>2. \A b \in 0..7 : fx_addr_read_bit(w, y, b) = fx_addr_read_bit(m, y, b)
        BY <1>1, <3>1, Zenon DEF fx_addr_read_bit
      <3> QED BY <2>1, <3>2, ReadBitFrame, Zenon
    <2>2. CASE ~(y < FX_ADDR_BIT_END)
      <3>1. CASE y \in FX_ADDR_C_CURRENT32..(FX_ADDR_D_SPECIAL - 1) /\ ~(y >= FX_ADDR_PROGRAM)
        <4>1. counter32(y) # d
          <5>1. NUM_C16 + (y - FX_ADDR_C_CURRENT32) \div 4 \in Nat
                /\ NUM_C16 + (y - FX_ADDR_C_CURRENT32) \div 4 >= NUM_C16
            BY <3>1 DEF NUM_C16, FX_ADDR_C_CURRENT32, FX_ADDR_D_SPECIAL
          <5> QED BY <1>6, <5>1, Zenon DEF counter32
        <4> QED BY <1>1, <2>2, <3>1, <4>1, Zenon DEF fx_addr_read_byte
      <3>2. CASE y >= FX_ADDR_PROGRAM
        <4>1. <<"P", y - FX_ADDR_PROGRAM>> # d
          BY <1>6
        <4> QED BY <1>1, <2>2, <3>2, <4>1, Zenon DEF fx_addr_read_byte
      <3>3. CASE y \notin FX_ADDR_C_CURRENT32..(FX_ADDR_D_SPECIAL - 1) /\ ~(y >= FX_ADDR_PROGRAM)
        <4> DEFINE e == Device(read_word_areas, y \div 2)
        <4>1. WordAddress(y)
          BY <2>2, <3>3, Zenon DEF WordAddress
        <4>2. CASE e # d
          BY <1>1, <4>1, <4>2, WordByteRead, Zenon
        <4>3. CASE e = d
          <5>1. x \div 2 \in Nat /\ y \div 2 \in Nat
            BY <1>2
          <5>2. y \div 2 = x \div 2
            BY <1>2, <4>3, <5>1, WordMapInjective, Zenon
          <5>3. (x % 2 = 0 /\ y % 2 = 1) \/ (x % 2 = 1 /\ y % 2 = 0)
            BY <1>2, <1>7, <5>2
          <5>4. byte_of(Get(w, d), y % 2) = byte_of(Get(m, d), y % 2)
            BY <1>3, <5>3, Zenon
          <5> QED BY <4>1, <4>3, <5>4, WordByteRead, Zenon
        <4> QED BY <4>2, <4>3
      <3> QED BY <3>1, <3>2, <3>3
    <2> QED BY <2>1, <2>2
  <1> QED BY <1>5, <1>7, Zenon DEF OnlyByteChanged, w

\* A force number no area holds writes nothing and reads off.
LEMMA ForceIgnored ==
    ASSUME NEW m, MemOK(m), NEW a, Device(force_read_areas, a) = Unmapped
    PROVE  fx_addr_force(m, a, 1) = m /\ fx_addr_force_read(m, a) = 0
  <1>1. Device(force_areas, a) = Unmapped
    BY SameMaps, Zenon
  <1>2. fx_addr_force(m, a, 1) = m
    BY <1>1, Zenon DEF fx_addr_force, Put, Exists
  <1> QED BY <1>2, Zenon DEF fx_addr_force_read, Get, MemOK

\* The force numbers around the placed families.
UNPLACED == {\h0C00 + 256, \h0E00 - 1, \h0E00 + 256, \h1200 - 1, \h1200 + 256,
             \h1400 - 1, \h1400 + 1000, WORD - 1}

\* The force numbers around the placed families are on no device.
LEMMA Unforced ==
    ASSUME NEW a \in UNPLACED
    PROVE  Device(force_read_areas, a) = Unmapped /\ ~fx_addr_force_known(a)
  <1>1. /\ a \in Nat
        /\ \/ 3328 <= a /\ a < 3584
           \/ 3840 <= a /\ a < 4608
           \/ 4864 <= a /\ a < 5120
           \/ a >= 6120
    BY DEF UNPLACED, WORD
  <1>2. Device(force_read_areas, a) = Unmapped
    BY <1>1, ForceMap
  <1>3. ~fx_addr_force_known(a)
    <2> SUFFICES ASSUME NEW from, NEW n,
                        <<from, n>> \in {<<0, 3072>>, <<3072, 256>>, <<3584, 256>>, <<4608, 256>>,
                                        <<5120, 1000>>},
                        a \in from..(from + n - 1)
                 PROVE  FALSE
      BY DEF fx_addr_force_known, FX_FORCE_Y_BASE, FX_FORCE_MS_BASE, FX_FORCE_X_BASE,
             FORCE_S_BASE, Size
    <2> QED BY <1>1
  <1> QED BY <1>2, <1>3

\* The invariant WriteIsolation of fx_addr.c: a byte written by the port is
\* read back and no other address sees it, whatever the memory holds.
THEOREM WritesIsolated == Spec => []WriteIsolation
  <1>1. MonitorInv => WriteIsolation
    <2> SUFFICES ASSUME MonitorInv PROVE WriteIsolation
      OBVIOUS
    <2> DEFINE Kept(x) == LET w == fx_addr_write_byte(mem, x, PATTERN)
                          IN  fx_addr_read_byte(w, x) = PATTERN /\ OnlyByteChanged(mem, x, w)
               BitEdges(l) == {l.bytes, l.bytes + 1, l.bytes + l.n \div 8 - 1}
               WordEdges(l) == {l.bytes, l.bytes + 1, l.bytes + 2 * l.n - 2, l.bytes + 2 * l.n - 1}
    <2>1. ASSUME NEW l \in BitLayout, NEW x \in BitEdges(l)
          PROVE  x \in Nat /\ Kept(x)
      <3>1. \E k \in Nat : 8 * k + 7 < l.n /\ x = l.bytes + k
        <4>1. 8 * 0 + 7 < l.n /\ 8 * 1 + 7 < l.n /\ 8 * (l.n \div 8 - 1) + 7 < l.n
              /\ l.n \div 8 - 1 \in Nat /\ l.bytes \in Nat
          BY DEF BitLayout
        <4>2. x = l.bytes + 0 \/ x = l.bytes + 1 \/ x = l.bytes + (l.n \div 8 - 1)
          BY <4>1
        <4> QED BY <4>1, <4>2
      <3>2. PICK k \in Nat : 8 * k + 7 < l.n /\ x = l.bytes + k
        BY <3>1
      <3>3. x \in Nat
        BY <3>2 DEF BitLayout
      <3>4. Kept(l.bytes + k)
        BY <3>2, BitsReadBack, Zenon
      <3> QED BY <3>2, <3>3, <3>4, Zenon
    <2>2. ASSUME NEW l \in WordLayout, NEW x \in WordEdges(l)
          PROVE  x \in Nat /\ Kept(x)
      <3>1. l.n \in Nat /\ l.n > 0 /\ l.bytes \in Nat
        BY DEF WordLayout
      <3>2. \E i \in Nat : i < l.n /\ x \in {l.bytes + 2 * i, l.bytes + 2 * i + 1}
        <4>1. \/ x = l.bytes + 2 * 0 \/ x = l.bytes + 2 * 0 + 1
              \/ x = l.bytes + 2 * (l.n - 1) \/ x = l.bytes + 2 * (l.n - 1) + 1
          BY <3>1
        <4> QED BY <3>1, <4>1
      <3>3. PICK i \in Nat : i < l.n /\ x \in {l.bytes + 2 * i, l.bytes + 2 * i + 1}
        BY <3>2
      <3>4. PlacedWord(l, i)
        BY <3>3, WordsPlaced, Zenon
      <3>5. x \in Nat
        BY <3>1, <3>3
      <3> DEFINE d == <<l.family, l.first + i>>
      <3>6. /\ Exists(d) /\ d[1] \notin BitFamilies
            /\ WordAddress(x) /\ Device(read_word_areas, x \div 2) = d
        BY <3>3, <3>4, Zenon DEF PlacedWord
      <3>7. PATTERN \in 0..(BYTE - 1)
        BY DEF PATTERN, BYTE
      <3>8. MemOK(mem)
        BY Zenon DEF MonitorInv
      <3>9. Kept(x)
        BY <3>6, <3>7, <3>8, WordReadBack, Zenon
      <3> QED BY <3>5, <3>9
    <2>3. ASSUME NEW x \in (UNION {BitEdges(l) : l \in BitLayout})
                            \cup (UNION {WordEdges(l) : l \in WordLayout})
          PROVE  x \in Nat /\ Kept(x)
      <3>0. \/ x \in UNION {BitEdges(l) : l \in BitLayout}
            \/ x \in UNION {WordEdges(l) : l \in WordLayout}
        OBVIOUS
      <3>a. x \in UNION {BitEdges(l) : l \in BitLayout} => \E l \in BitLayout : x \in BitEdges(l)
        OBVIOUS
      <3>b. x \in UNION {WordEdges(l) : l \in WordLayout} => \E l \in WordLayout : x \in WordEdges(l)
        OBVIOUS
      <3> HIDE DEF BitEdges, WordEdges, Kept
      <3>1. \/ \E l \in BitLayout : x \in BitEdges(l)
            \/ \E l \in WordLayout : x \in WordEdges(l)
        BY <3>0, <3>a, <3>b, Zenon
      <3>2. \A l \in BitLayout : \A e \in BitEdges(l) : e \in Nat /\ Kept(e)
        BY <2>1, Zenon
      <3>3. \A l \in WordLayout : \A e \in WordEdges(l) : e \in Nat /\ Kept(e)
        BY <2>2, Zenon
      <3> QED BY <3>1, <3>2, <3>3, Zenon
    <2>4. ASSUME NEW x \in Nat, Kept(x)
          PROVE  LET w == fx_addr_write_byte(mem, x, PATTERN)
                 IN  /\ fx_addr_read_byte(w, x) = PATTERN
                     /\ \A b \in {x - 1, x + 1} \ {-1} :
                           fx_addr_read_byte(w, b) = fx_addr_read_byte(mem, b)
      <3>1. \A b \in {x - 1, x + 1} \ {-1} : b \in Nat /\ b # x
        OBVIOUS
      <3> QED BY <2>4, <3>1, Zenon DEF OnlyByteChanged
    <2>5. MemOK(mem)
      BY Zenon DEF MonitorInv
    <2>6. ASSUME NEW a \in UNPLACED
          PROVE  /\ fx_addr_force(mem, a, 1) = mem
                 /\ fx_addr_force_read(mem, a) = 0
                 /\ ~fx_addr_force_known(a)
      BY <2>5, Unforced, ForceIgnored, Zenon
    <2>7. \A x \in (UNION {BitEdges(l) : l \in BitLayout})
                       \cup (UNION {WordEdges(l) : l \in WordLayout}) :
             LET w == fx_addr_write_byte(mem, x, PATTERN)
             IN  /\ fx_addr_read_byte(w, x) = PATTERN
                 /\ \A b \in {x - 1, x + 1} \ {-1} :
                       fx_addr_read_byte(w, b) = fx_addr_read_byte(mem, b)
      <3> HIDE DEF BitEdges, WordEdges, Kept
      <3> QED BY <2>3, <2>4
    <2> QED BY <2>6, <2>7 DEF WriteIsolation, PATTERN, UNPLACED
  <1> QED BY <1>1, MonitorInit, MonitorStep, PTL DEF Spec

==============================================================================
