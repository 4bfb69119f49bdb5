-------------------------- MODULE FxFramingProofs ---------------------------
(***************************************************************************)
(* Proofs about the serial port: nothing it keeps is overrun, the dump     *)
(* shows what the tracer kept, and for plain messages (FxFraming!Plain) a  *)
(* message is answered as it deserves and credentials are stored as typed. *)
(***************************************************************************)
EXTENDS FxFraming, Induction, SequenceTheorems

(***************************************************************************)
(* Inductive strengthenings                                                *)
(***************************************************************************)

Entries == [data : Seq(Bytes), truncated : BOOLEAN, ok : BOOLEAN]
Ring == 0..(TRACE_FRAMES - 1)

PortType ==
    /\ TypeOK
    /\ rx \in Seq(Bytes) /\ console_line \in Seq(Bytes)
    /\ wire \in Seq(Bytes) /\ msg \in MESSAGES

\* The tail as one turn of the ring.
RingInv ==
    /\ trace \in [Ring -> Entries \cup {<<>>}] /\ kept \in Seq(Entries)
    /\ Len(kept) = trace_count
    /\ TraceIsTail

\* Bytes of the message received so far.
Received == Len(msg.bytes) - Len(wire)

\* The rest of the message is still to come, and a message begins as it found
\* the port.
HostInv ==
    /\ wire # <<>> => ~cut
    /\ ~cut => /\ Received \in 0..Len(msg.bytes)
               /\ wire = SubSeq(msg.bytes, Received + 1, Len(msg.bytes))
    /\ ~cut /\ Received = 0 =>
          /\ reply = "none" /\ wifi = <<>> /\ at_rest = ~in_frame
          /\ line_empty => console_line = <<>>
    /\ console_overflow => console_line # <<>>

\* Half a frame is in rx.
FrameInv ==
    ~cut /\ msg.kind \in {"read", "write", "bad"} /\ Received > 0 =>
        IF wire = <<>> THEN reply = Expected(msg)
        ELSE in_frame /\ rx = Prefix(msg.bytes, Received) /\ reply = "none"

\* Of an overlong one at most a buffer's length.
OverlongInv ==
    ~cut /\ msg.kind = "overlong" =>
        /\ reply = "none"
        /\ Received > 0 /\ in_frame =>
              Received <= FX_BUF_SIZE /\ rx = Prefix(msg.bytes, Received)

\* ENQ and '?' are answered at once.
ByteInv ==
    ~cut /\ at_rest /\ msg.kind \in {"enq", "dump"} /\ wire = <<>> => reply = Expected(msg)

\* As much of a line as fits is in console_line, and it is known whether more
\* has come.
LineInv ==
    ~cut /\ at_rest /\ line_empty /\ msg.kind \in {"line", "other"} =>
        IF wire = <<>> THEN reply = Expected(msg)
        ELSE /\ ~in_frame /\ reply = "none"
             /\ console_overflow = (Received > CONSOLE_LINE_MAX - 1)
             /\ console_line = Prefix(msg.bytes, IF console_overflow THEN CONSOLE_LINE_MAX - 1
                                                 ELSE Received)

\* Whatever else arrives, nothing that begins with the verb is in the buffer.
NoVerb == wifi = <<>> /\ At(console_line, 1) # "wifi"
VerbInv == line_empty /\ ~(at_rest /\ msg.kind = "line") => NoVerb

AnswerInv ==
    /\ HostInv /\ FrameInv /\ OverlongInv /\ ByteInv /\ LineInv /\ VerbInv
    /\ CredentialsTyped

(***************************************************************************)
(* The tracer                                                              *)
(***************************************************************************)

\* Reduction by one turn of the ring.
LEMMA ModTurn ==
    ASSUME NEW n \in Nat \ {0}, NEW x \in Nat, x < 2 * n
    PROVE  x % n = IF x < n THEN x ELSE x - n
  BY Z3

\* What the tracer writes is an entry of the ring.
LEMMA EntryType ==
    ASSUME NEW f \in Seq(Bytes), NEW ok \in BOOLEAN
    PROVE  Entry(f, ok) \in Entries
  <1> DEFINE n == Min({Len(f), TRACE_BYTES})
  <1>1. Len(f) \in Nat /\ TRACE_BYTES \in Nat
    BY FramingAssumption
  <1>2. \E x \in {Len(f), TRACE_BYTES} : \A y \in {Len(f), TRACE_BYTES} : x <= y
    BY <1>1
  <1>3. n \in Nat /\ n <= Len(f)
    BY <1>1, <1>2 DEF Min
  <1> HIDE DEF n
  <1>4. SubSeq(f, 1, n) \in Seq(Bytes)
    BY <1>1, <1>3
  <1> DEFINE d == SubSeq(f, 1, n)
  <1> DEFINE cut_off == Len(f) > TRACE_BYTES
  <1>5. d \in Seq(Bytes) /\ cut_off \in BOOLEAN
    BY <1>4
  <1>6. Entry(f, ok) = [data |-> d, truncated |-> cut_off, ok |-> ok]
    BY DEF Entry, n
  <1> HIDE DEF d, cut_off
  <1> QED BY <1>5, <1>6 DEF Entries

\* Where the ring begins, and where the k-th entry of the dump lies.
Start(head, count) == (head + TRACE_FRAMES - count) % TRACE_FRAMES
Place(head, count, k) == (Start(head, count) + k - 1) % TRACE_FRAMES

\* One entry more, in a ring that is not full and in one that is.
LEMMA RingTurns ==
    ASSUME NEW head \in Ring, NEW count \in 0..TRACE_FRAMES
    PROVE  /\ (head + 1) % TRACE_FRAMES \in Ring
           /\ \A k \in 1..count : Place(head, count, k) \in Ring
           /\ count < TRACE_FRAMES =>
                 /\ Place((head + 1) % TRACE_FRAMES, count + 1, count + 1) = head
                 /\ \A k \in 1..count :
                       /\ Place((head + 1) % TRACE_FRAMES, count + 1, k) = Place(head, count, k)
                       /\ Place(head, count, k) # head
           /\ count = TRACE_FRAMES =>
                 /\ Place((head + 1) % TRACE_FRAMES, count, count) = head
                 /\ \A k \in 1..(count - 1) :
                       /\ Place((head + 1) % TRACE_FRAMES, count, k) = Place(head, count, k + 1)
                       /\ Place(head, count, k + 1) # head
  <1> DEFINE N == TRACE_FRAMES
  <1> DEFINE next == (head + 1) % N
  <1>1. N \in Nat \ {0} /\ head \in Nat /\ head < N /\ count \in Nat /\ count <= N
    BY FramingAssumption DEF Ring
  <1>2. \A x \in Nat : x < 2 * N => x % N = IF x < N THEN x ELSE x - N
    BY <1>1, ModTurn
  <1>3. next = IF head + 1 < N THEN head + 1 ELSE 0
    BY <1>1, <1>2
  <1> HIDE DEF N, next
  <1>4. ASSUME NEW h \in Nat, h < N, NEW c \in Nat, c <= N
        PROVE  ((h + N) - c) % N = IF h < c THEN (h + N) - c ELSE h - c
    BY <1>1, <1>2, <1>4
  <1>5. ASSUME NEW h \in Nat, h < N, NEW c \in Nat, c <= N, NEW k \in 1..c
        PROVE  Place(h, c, k) = IF h + k - 1 >= c THEN (h + k - 1) - c ELSE ((h + N) - c) + k - 1
    <2> DEFINE s == Start(h, c)
    <2>1. s = IF h < c THEN (h + N) - c ELSE h - c
      <3>1. s = (h + (N - c)) % N /\ h + (N - c) = (h + N) - c
        BY <1>1 DEF Start, N
      <3> HIDE DEF s
      <3> QED BY <1>4, <1>5, <3>1
    <2>2. s \in Nat /\ s < N
      BY <1>1, <1>5, <2>1
    <2>3. Place(h, c, k) = (s + k - 1) % N
      BY DEF Place, N
    <2> HIDE DEF s
    <2>4. (s + k - 1) % N = IF s + k - 1 < N THEN s + k - 1 ELSE (s + k - 1) - N
      BY <1>1, <1>2, <1>5, <2>2
    <2> QED BY <1>1, <1>5, <2>1, <2>3, <2>4
  <1>6. next \in Nat /\ next < N
    BY <1>1, <1>3
  <1>7. next \in Ring /\ \A k \in 1..count : Place(head, count, k) \in Ring
    BY <1>1, <1>5, <1>6 DEF Ring, N
  <1>8. ASSUME count < N
        PROVE  /\ Place(next, count + 1, count + 1) = head
               /\ \A k \in 1..count : /\ Place(next, count + 1, k) = Place(head, count, k)
                                      /\ Place(head, count, k) # head
    <2>1. \A k \in 1..(count + 1) : Place(next, count + 1, k) =
             IF next + k - 1 >= count + 1 THEN (next + k - 1) - (count + 1)
             ELSE ((next + N) - (count + 1)) + k - 1
      <3>1. count + 1 \in Nat /\ count + 1 <= N
        BY <1>1, <1>8
      <3> QED BY <1>5, <1>6, <3>1
    <2>2. \A k \in 1..count : Place(head, count, k) =
             IF head + k - 1 >= count THEN (head + k - 1) - count ELSE ((head + N) - count) + k - 1
      BY <1>1, <1>5
    <2> QED BY <1>1, <1>3, <1>8, <2>1, <2>2
  <1>9. ASSUME count = N
        PROVE  /\ Place(next, count, count) = head
               /\ \A k \in 1..(count - 1) : /\ Place(next, count, k) = Place(head, count, k + 1)
                                            /\ Place(head, count, k + 1) # head
    <2>1. \A k \in 1..count : Place(next, count, k) =
             IF next + k - 1 >= count THEN (next + k - 1) - count ELSE ((next + N) - count) + k - 1
      BY <1>1, <1>5, <1>6
    <2>2. \A k \in 1..count : Place(head, count, k) =
             IF head + k - 1 >= count THEN (head + k - 1) - count ELSE ((head + N) - count) + k - 1
      BY <1>1, <1>5
    <2> QED BY <1>1, <1>3, <1>9, <2>1, <2>2
  <1> QED BY <1>7, <1>8, <1>9 DEF N, next

\* Recording one frame moves the tail and the dump alike.
LEMMA RingRecord ==
    ASSUME trace_head \in Ring, trace_count \in 0..TRACE_FRAMES, RingInv,
           NEW f \in Seq(Bytes), NEW ok \in BOOLEAN, trace_record(f, ok)
    PROVE  RingInv' /\ trace_head' \in Ring /\ trace_count' \in 0..TRACE_FRAMES
  <1> DEFINE e == Entry(f, ok)
  <1> DEFINE head == trace_head
  <1> DEFINE count == trace_count
  <1> DEFINE N == TRACE_FRAMES
  <1>1. CASE routine(f, ok)
    BY <1>1 DEF trace_record, ring, RingInv, TraceIsTail, dumped
  <1>2. CASE ~routine(f, ok)
    <2>1. /\ trace' = [trace EXCEPT ![head] = e]
          /\ trace_head' = (head + 1) % N
          /\ trace_count' = IF count < N THEN count + 1 ELSE count
          /\ kept' = LastOf(Append(kept, e))
      BY <1>2 DEF trace_record, trace_count_after
    <2>2. e \in Entries /\ N \in Nat \ {0} /\ count \in Nat /\ count <= N
      BY EntryType, FramingAssumption
    <2>3. /\ trace \in [Ring -> Entries \cup {<<>>}] /\ kept \in Seq(Entries) /\ Len(kept) = count
          /\ \A k \in 1..count : kept[k] = trace[Place(head, count, k)]
      BY DEF RingInv, TraceIsTail, dumped, Place, Start
    <2>4. /\ trace_head' \in Ring
          /\ \A k \in 1..count : Place(head, count, k) \in Ring
          /\ count < N =>
                /\ Place(trace_head', count + 1, count + 1) = head
                /\ \A k \in 1..count :
                      /\ Place(trace_head', count + 1, k) = Place(head, count, k)
                      /\ Place(head, count, k) # head
          /\ count = N =>
                /\ Place(trace_head', count, count) = head
                /\ \A k \in 1..(count - 1) :
                      /\ Place(trace_head', count, k) = Place(head, count, k + 1)
                      /\ Place(head, count, k + 1) # head
      BY <2>1, RingTurns
    <2> HIDE DEF e
    <2>5. trace' \in [Ring -> Entries \cup {<<>>}] /\ trace_count' \in 0..N
      BY <2>1, <2>2, <2>3
    <2>6. /\ Append(kept, e) \in Seq(Entries) /\ Len(Append(kept, e)) = count + 1
          /\ Append(kept, e)[count + 1] = e
          /\ \A k \in 1..count : Append(kept, e)[k] = kept[k]
      BY <2>2, <2>3
    <2>7. /\ kept' \in Seq(Entries) /\ Len(kept') = trace_count'
          /\ \A k \in 1..trace_count' : kept'[k] = trace'[Place(trace_head', trace_count', k)]
      <3>1. CASE count < N
        <4>1. kept' = Append(kept, e) /\ trace_count' = count + 1
          BY <2>1, <2>2, <2>6, <3>1 DEF LastOf
        <4>2. ASSUME NEW k \in 1..(count + 1)
              PROVE  kept'[k] = trace'[Place(trace_head', count + 1, k)]
          <5>1. CASE k = count + 1
            BY <2>1, <2>3, <2>4, <2>6, <3>1, <4>1, <5>1
          <5>2. CASE k \in 1..count
            BY <2>1, <2>3, <2>4, <2>6, <3>1, <4>1, <5>2
          <5> QED BY <2>2, <5>1, <5>2
        <4> QED BY <2>6, <4>1, <4>2
      <3>2. CASE count = N
        <4>1. kept' = Tail(Append(kept, e)) /\ trace_count' = count
          BY <2>1, <2>2, <2>6, <3>2 DEF LastOf
        <4>2. /\ kept' \in Seq(Entries) /\ Len(kept') = count
              /\ \A k \in 1..count : kept'[k] = Append(kept, e)[k + 1]
          <5> DEFINE z == Append(kept, e)
          <5>1. z \in Seq(Entries) /\ Len(z) = count + 1
            BY <2>6
          <5> HIDE DEF z
          <5>2. z # <<>>
            BY <2>2, <5>1
          <5>3. /\ Tail(z) \in Seq(Entries) /\ Len(Tail(z)) = count
                /\ \A k \in 1..count : Tail(z)[k] = z[k + 1]
            BY <2>2, <5>1, <5>2
          <5> QED BY <4>1, <5>3 DEF z
        <4>3. ASSUME NEW k \in 1..count
              PROVE  kept'[k] = trace'[Place(trace_head', count, k)]
          <5>1. CASE k = count
            BY <2>1, <2>3, <2>4, <2>6, <3>2, <4>2, <5>1
          <5>2. CASE k \in 1..(count - 1)
            <6>1. k + 1 \in 1..count
              BY <2>2, <5>2
            <6> QED BY <2>1, <2>3, <2>4, <2>6, <3>2, <4>2, <5>2, <6>1
          <5> QED BY <2>2, <5>1, <5>2
        <4> QED BY <4>1, <4>2, <4>3
      <3> QED BY <2>2, <3>1, <3>2
    <2>8. dumped' = kept'
      <3>1. /\ dumped' = [k \in 1..trace_count' |-> trace'[Place(trace_head', trace_count', k)]]
            /\ trace_count' \in Nat
        BY <2>5 DEF dumped, Place, Start
      <3>2. kept' = [k \in 1..trace_count' |-> kept'[k]]
        BY <2>7
      <3> QED BY <2>7, <3>1, <3>2
    <2> QED BY <2>4, <2>5, <2>7, <2>8 DEF RingInv, TraceIsTail, Ring, Entries
  <1> QED BY <1>1, <1>2

(***************************************************************************)
(* Types and buffers                                                       *)
(***************************************************************************)

Replies == {"none", "ACK", "NAK", "data", "dump", "stored", "refused", "several"}

\* A frame is answered with one of three replies.
LEMMA FrameReply ==
    ASSUME NEW f
    PROVE  handle_frame(f) \in {"NAK", "data", "ACK"}
  <1>1. ASSUME NEW a, NEW b, NEW c, NEW d, NEW e
        PROVE  (CASE a -> "NAK" [] b -> "NAK" [] c -> "NAK" [] d -> "data" [] e -> "ACK"
                  [] OTHER -> "NAK") \in {"NAK", "data", "ACK"}
    OBVIOUS
  <1> QED BY DEF handle_frame

\* An empty buffer.
LEMMA NoBytes ==
    /\ <<>> \in Seq(Bytes) /\ Len(<<>>) = 0
    /\ Len(<<>>) <= FX_BUF_SIZE /\ Len(<<>>) <= CONSOLE_LINE_MAX - 1
  <1>1. FX_BUF_SIZE \in Nat /\ CONSOLE_LINE_MAX \in Nat \ {0, 1} /\ Len(<<>>) = 0
    BY FramingAssumption
  <1> QED BY <1>1

\* A byte of a frame.
LEMMA FrameCharType ==
    ASSUME PortType, RingInv, NEW f \in Seq(Bytes), Len(f) <= FX_BUF_SIZE, frame_char(f)
    PROVE  /\ rx' \in Seq(Bytes) /\ Len(rx') <= FX_BUF_SIZE /\ in_frame' \in BOOLEAN
           /\ RingInv' /\ trace_head' \in Ring /\ trace_count' \in 0..TRACE_FRAMES
           /\ reply' \in Replies
  <1>0. trace_head \in Ring /\ trace_count \in 0..TRACE_FRAMES /\ reply \in Replies
    BY DEF PortType, TypeOK, Ring, Replies
  <1>1. CASE frame_ends(f)
    <2>1. /\ in_frame' = FALSE /\ rx' = <<>> /\ send(handle_frame(f))
          /\ trace_record(f, handle_frame(f) # "NAK")
      BY <1>1 DEF frame_char
    <2>2. (handle_frame(f) # "NAK") \in BOOLEAN
      OBVIOUS
    <2>3. RingInv' /\ trace_head' \in Ring /\ trace_count' \in 0..TRACE_FRAMES
      BY <1>0, <2>1, <2>2, RingRecord
    <2>4. reply' \in Replies
      BY <2>1, FrameReply DEF send, Replies
    <2>5. rx' \in Seq(Bytes) /\ Len(rx') <= FX_BUF_SIZE
      BY <2>1, FramingAssumption
    <2> QED BY <2>1, <2>3, <2>4, <2>5
  <1>2. CASE ~frame_ends(f)
    <2>1. in_frame' = TRUE /\ rx' = f /\ UNCHANGED <<ring, reply>>
      BY <1>2 DEF frame_char
    <2>2. RingInv'
      BY <2>1 DEF ring, RingInv, TraceIsTail, dumped
    <2> QED BY <1>0, <2>1, <2>2 DEF ring
  <1> QED BY <1>1, <1>2

\* Every step keeps the types and the ring.
LEMMA PortStep == PortType /\ RingInv /\ [Next]_vars => PortType' /\ RingInv'
  <1> SUFFICES ASSUME PortType, RingInv, [Next]_vars PROVE PortType' /\ RingInv'
    OBVIOUS
  <1>0. /\ rx \in Seq(Bytes) /\ Len(rx) <= FX_BUF_SIZE /\ in_frame \in BOOLEAN
        /\ console_line \in Seq(Bytes) /\ Len(console_line) <= CONSOLE_LINE_MAX - 1
        /\ console_overflow \in BOOLEAN /\ trace_head \in Ring /\ trace_count \in 0..TRACE_FRAMES
        /\ reply \in Replies /\ wire \in Seq(Bytes) /\ msg \in MESSAGES
    BY DEF PortType, TypeOK, Ring, Replies
  <1>1. ASSUME UNCHANGED ring PROVE RingInv' /\ trace_head' \in Ring /\ trace_count' \in 0..TRACE_FRAMES
    BY <1>0, <1>1 DEF ring, RingInv, TraceIsTail, dumped
  <1>2. ASSUME UNCHANGED port
        PROVE  rx' \in Seq(Bytes) /\ Len(rx') <= FX_BUF_SIZE /\ in_frame' \in BOOLEAN
    BY <1>0, <1>2 DEF port
  <1>3. ASSUME UNCHANGED console
        PROVE  /\ console_line' \in Seq(Bytes) /\ Len(console_line') <= CONSOLE_LINE_MAX - 1
               /\ console_overflow' \in BOOLEAN
    BY <1>0, <1>3 DEF console
  <1>4. ASSUME rx' \in Seq(Bytes) /\ Len(rx') <= FX_BUF_SIZE /\ in_frame' \in BOOLEAN,
               RingInv' /\ trace_head' \in Ring /\ trace_count' \in 0..TRACE_FRAMES,
               console_line' \in Seq(Bytes) /\ Len(console_line') <= CONSOLE_LINE_MAX - 1,
               console_overflow' \in BOOLEAN,
               reply' \in Replies, wire' \in Seq(Bytes), msg' \in MESSAGES
        PROVE  PortType' /\ RingInv'
    BY <1>4 DEF PortType, TypeOK, Ring, Replies
  <1>5. CASE fx_protocol_task
    <2>1. wire # <<>> /\ wire' = Tail(wire) /\ msg' = msg
      BY <1>5 DEF fx_protocol_task, host
    <2>2. Head(wire) \in Bytes /\ wire' \in Seq(Bytes) /\ msg' \in MESSAGES
      BY <1>0, <2>1, HeadTailProperties
    <2>3. PICK b \in Bytes : /\ b = Head(wire)
                             /\ \/ ReceiveEnq(b) \/ ReceiveDump(b) \/ ReceiveConsole(b)
                                \/ ReceiveStart(b) \/ ReceiveFrame(b)
      BY <1>5, <2>2 DEF fx_protocol_task
    <2>4. <<b>> \in Seq(Bytes) /\ Len(<<b>>) <= FX_BUF_SIZE
      BY FramingAssumption
    <2>5. CASE ReceiveEnq(b)
      <3>1. trace_record(<<b>>, TRUE) /\ send("ACK") /\ UNCHANGED <<port, console>>
        BY <2>5 DEF ReceiveEnq
      <3>2. RingInv' /\ trace_head' \in Ring /\ trace_count' \in 0..TRACE_FRAMES
        BY <1>0, <2>4, <3>1, RingRecord
      <3>3. reply' \in Replies
        BY <3>1 DEF send, Replies
      <3> QED BY <1>2, <1>3, <1>4, <2>2, <3>1, <3>2, <3>3
    <2>6. CASE ReceiveDump(b)
      <3>1. send("dump") /\ UNCHANGED port /\ UNCHANGED console /\ UNCHANGED ring
        BY <2>6 DEF ReceiveDump
      <3>2. reply' \in Replies
        BY <3>1 DEF send, Replies
      <3> QED BY <1>1, <1>2, <1>3, <1>4, <2>2, <3>1, <3>2
    <2>7. CASE ReceiveConsole(b)
      <3>1. console_char(b) /\ UNCHANGED port /\ UNCHANGED ring
        BY <2>7 DEF ReceiveConsole
      <3>2. reply' \in Replies
        BY <1>0, <3>1 DEF console_char, console_end, console_execute, console_append, send, Replies
      <3>3. /\ console_line' \in Seq(Bytes) /\ Len(console_line') <= CONSOLE_LINE_MAX - 1
            /\ console_overflow' \in BOOLEAN
        <4>1. CASE b = "CR"
          <5>1. console_line' = <<>> /\ console_overflow' = FALSE
            BY <3>1, <4>1 DEF console_char, console_end
          <5> QED BY <5>1, NoBytes
        <4>2. CASE b # "CR" /\ room
          <5>1. console_line' = Append(console_line, b) /\ console_overflow' = console_overflow
            BY <3>1, <4>2 DEF console_char, console_append
          <5>2. Len(console_line) < CONSOLE_LINE_MAX - 1 /\ CONSOLE_LINE_MAX \in Nat
            BY <4>2, FramingAssumption DEF room
          <5>3. /\ Append(console_line, b) \in Seq(Bytes)
                /\ Len(Append(console_line, b)) <= CONSOLE_LINE_MAX - 1
            BY <1>0, <5>2
          <5> QED BY <1>0, <5>1, <5>3
        <4>3. CASE b # "CR" /\ ~room
          <5>1. console_line' = console_line /\ console_overflow' = TRUE
            BY <3>1, <4>3 DEF console_char, console_append
          <5> QED BY <1>0, <5>1
        <4> QED BY <4>1, <4>2, <4>3
      <3> QED BY <1>1, <1>2, <1>4, <2>2, <3>1, <3>2, <3>3
    <2>8. CASE ReceiveStart(b)
      <3>1. frame_char(<<b>>) /\ UNCHANGED console
        BY <2>8 DEF ReceiveStart
      <3> QED BY <1>3, <1>4, <2>2, <2>4, <3>1, FrameCharType
    <2>9. CASE ReceiveFrame(b)
      <3>1. CASE Len(rx) >= FX_BUF_SIZE
        <4>1. /\ overlong /\ UNCHANGED ring /\ UNCHANGED reply /\ UNCHANGED console
          BY <2>9, <3>1 DEF ReceiveFrame
        <4>2. rx' \in Seq(Bytes) /\ Len(rx') <= FX_BUF_SIZE /\ in_frame' \in BOOLEAN
          BY <4>1, NoBytes DEF overlong
        <4> QED BY <1>0, <1>1, <1>3, <1>4, <2>2, <4>1, <4>2
      <3>2. CASE ~(Len(rx) >= FX_BUF_SIZE)
        <4>1. frame_char(Append(rx, b)) /\ UNCHANGED console
          BY <2>9, <3>2 DEF ReceiveFrame
        <4>2. Append(rx, b) \in Seq(Bytes) /\ Len(Append(rx, b)) <= FX_BUF_SIZE
          BY <1>0, <3>2, FramingAssumption
        <4> QED BY <1>3, <1>4, <2>2, <4>1, <4>2, FrameCharType
      <3> QED BY <3>1, <3>2
    <2> QED BY <2>3, <2>5, <2>6, <2>7, <2>8, <2>9
  <1>6. ASSUME NEW m \in MESSAGES, Begin(m)
        PROVE  PortType' /\ RingInv'
    <2>1. /\ UNCHANGED port /\ UNCHANGED ring /\ console_line' = console_line
          /\ console_overflow' = console_overflow /\ msg' = m /\ wire' = m.bytes /\ reply' = "none"
      BY <1>6 DEF Begin
    <2>2. m.bytes \in Seq(Bytes)
      BY FramingAssumption
    <2> QED BY <1>0, <1>1, <1>2, <1>4, <2>1, <2>2 DEF Replies
  <1>7. CASE Linked \/ Cut \/ Reopen \/ UNCHANGED vars
    <2>1. /\ UNCHANGED port /\ UNCHANGED console /\ UNCHANGED ring /\ msg' = msg
          /\ wire' = wire \/ wire' = <<>>
          /\ reply' = reply \/ reply' = "none"
      BY <1>7 DEF Linked, Cut, Reopen, vars, host
    <2>2. wire' \in Seq(Bytes) /\ reply' \in Replies
      BY <1>0, <2>1, NoBytes DEF Replies
    <2> QED BY <1>0, <1>1, <1>2, <1>3, <1>4, <2>1, <2>2
  <1>8. enq \in MESSAGES
    BY FramingAssumption DEF enq
  <1> QED BY <1>5, <1>6, <1>7, <1>8 DEF Next, Send, Poll

\* The initial state.
LEMMA PortInit == Init => PortType /\ RingInv
  <1> SUFFICES ASSUME Init PROVE PortType /\ RingInv
    OBVIOUS
  <1>1. enq \in MESSAGES /\ TRACE_FRAMES \in Nat \ {0} /\ CONSOLE_LINE_MAX \in Nat \ {0, 1}
    BY FramingAssumption DEF enq
  <1>2. <<>> \in Seq(Bytes) /\ <<>> \in Seq(Entries) /\ Len(<<>>) = 0
    OBVIOUS
  <1>3. PortType
    <2>1. 0 \in 0..(TRACE_FRAMES - 1) /\ 0 \in 0..TRACE_FRAMES
      BY <1>1
    <2> QED BY <1>1, <2>1, NoBytes DEF Init, PortType, TypeOK
  <1>4. dumped = <<>>
    BY DEF Init, dumped
  <1> QED BY <1>1, <1>2, <1>3, <1>4 DEF Init, RingInv, Ring, TraceIsTail

\* Types and ring in every reachable state.
LEMMA PortCorrect == Spec => [](PortType /\ RingInv)
  BY PortInit, PortStep, PTL DEF Spec

\* No byte the host can send overruns rx, console_line or the trace ring,
\* whatever their sizes.
THEOREM BuffersHold == Spec => []TypeOK
  <1>1. PortType => TypeOK
    BY DEF PortType
  <1> QED BY <1>1, PortCorrect, PTL

\* The dump shows the last TRACE_FRAMES frames worth keeping, oldest first,
\* for a ring of any size at any position.
THEOREM DumpIsTail == Spec => []TraceIsTail
  <1>1. RingInv => TraceIsTail
    BY DEF RingInv
  <1> QED BY <1>1, PortCorrect, PTL

(***************************************************************************)
(* The parser                                                              *)
(***************************************************************************)

\* Min finds the least element there is.
LEMMA MinIs ==
    ASSUME NEW S \in SUBSET Nat, NEW q \in S, \A i \in S : q <= i
    PROVE  Min(S) = q
  <1>1. Min(S) \in S /\ \A i \in S : Min(S) <= i
    BY DEF Min
  <1>2. Min(S) \in Nat /\ q \in Nat /\ Min(S) <= q /\ q <= Min(S)
    BY <1>1
  <1> QED BY <1>2

\* It finds one whenever there is one.
LEMMA MinFound ==
    ASSUME NEW S \in SUBSET Nat, S # {}
    PROVE  Min(S) \in S /\ \A i \in S : Min(S) <= i
  BY LeastNat DEF Min

\* The first place from p on that lies in T.
LEMMA FirstPlace ==
    ASSUME NEW n \in Nat, NEW p \in 1..n, NEW T, n \in T
    PROVE  LET q == Min({i \in p..n : i \in T})
           IN  /\ q \in p..n /\ q \in T /\ \A i \in p..(q - 1) : i \notin T
               /\ \A r \in p..n : r \in T /\ (\A i \in p..(r - 1) : i \notin T) => q = r
  <1> DEFINE S == {i \in p..n : i \in T}
  <1>1. S \in SUBSET Nat /\ S # {}
    OBVIOUS
  <1>2. \A i : i \in S <=> i \in p..n /\ i \in T
    OBVIOUS
  <1> HIDE DEF S
  <1>3. Min(S) \in S /\ \A i \in S : Min(S) <= i
    BY <1>1, MinFound
  <1> DEFINE q == Min(S)
  <1>4. q \in S /\ \A i \in S : q <= i
    BY <1>3
  <1> HIDE DEF q
  <1>5. q \in p..n /\ q \in T /\ \A i \in p..(q - 1) : i \notin T
    BY <1>2, <1>4
  <1>6. \A r \in p..n : r \in T /\ (\A i \in p..(r - 1) : i \notin T) => q = r
    BY <1>2, <1>4
  <1> QED BY <1>5, <1>6 DEF q, S

\* The characters of a line.
LEMMA AtLine ==
    ASSUME NEW line \in Seq(Bytes)
    PROVE  /\ Len(line) \in Nat
           /\ \A i \in 1..Len(line) : At(line, i) = line[i] /\ At(line, i) # "NUL"
           /\ At(line, Len(line) + 1) = "NUL"
  <1>1. \A i \in 1..Len(line) : line[i] \in Bytes /\ i <= Len(line)
    OBVIOUS
  <1>2. ~(Len(line) + 1 <= Len(line)) /\ Len(line) \in Nat
    OBVIOUS
  <1>3. \A b \in Bytes : b # "NUL"
    BY DEF Bytes
  <1> QED BY <1>1, <1>2, <1>3, Zenon DEF At

\* skip_spaces stops at the first character that is not a space.
LEMMA SkipSpaces ==
    ASSUME NEW line \in Seq(Bytes), NEW p \in 1..(Len(line) + 1)
    PROVE  /\ skip_spaces(line, p) \in p..(Len(line) + 1)
           /\ At(line, skip_spaces(line, p)) # " "
           /\ \A i \in p..(skip_spaces(line, p) - 1) : At(line, i) = " "
           /\ \A r \in p..(Len(line) + 1) :
                 At(line, r) # " " /\ (\A i \in p..(r - 1) : At(line, i) = " ")
                    => skip_spaces(line, p) = r
  <1> DEFINE n == Len(line) + 1
  <1> DEFINE T == {i \in 1..n : At(line, i) # " "}
  <1> DEFINE q == skip_spaces(line, p)
  <1>1. n \in Nat /\ p \in 1..n /\ n \in 1..n
    BY AtLine
  <1>2. At(line, n) # " "
    <2>1. "NUL" # " "
      OBVIOUS
    <2> QED BY <2>1, AtLine
  <1>3. \A r \in p..n : r \in 1..n /\ \A i \in p..(r - 1) : i \in 1..n
    BY <1>1
  <1> HIDE DEF n
  <1>4. n \in T
    BY <1>1, <1>2, Zenon
  <1>5. {i \in p..n : At(line, i) # " "} = {i \in p..n : i \in T}
    BY <1>3, Zenon
  <1>6. q = Min({i \in p..n : i \in T})
    BY <1>5, Zenon DEF skip_spaces, n
  <1> HIDE DEF T, q
  <1>7. /\ q \in p..n /\ q \in T /\ \A i \in p..(q - 1) : i \notin T
        /\ \A r \in p..n : r \in T /\ (\A i \in p..(r - 1) : i \notin T) => q = r
    BY <1>1, <1>4, <1>6, FirstPlace
  <1> QED BY <1>3, <1>7, Zenon DEF T, q, n

\* token_length stops at a space or at the end.
LEMMA TokenEnd ==
    ASSUME NEW line \in Seq(Bytes), NEW p \in 1..(Len(line) + 1)
    PROVE  /\ token_end(line, p) \in p..(Len(line) + 1)
           /\ At(line, token_end(line, p)) \in {" ", "NUL"}
           /\ \A i \in p..(token_end(line, p) - 1) : At(line, i) \notin {" ", "NUL"}
           /\ \A r \in p..(Len(line) + 1) :
                 (/\ At(line, r) \in {" ", "NUL"}
                  /\ \A i \in p..(r - 1) : At(line, i) \notin {" ", "NUL"})
                    => token_end(line, p) = r
  <1> DEFINE n == Len(line) + 1
  <1> DEFINE T == {i \in 1..n : At(line, i) \in {" ", "NUL"}}
  <1> DEFINE q == token_end(line, p)
  <1>1. n \in Nat /\ p \in 1..n /\ n \in 1..n
    BY AtLine
  <1>2. At(line, n) \in {" ", "NUL"}
    BY AtLine
  <1>3. \A r \in p..n : r \in 1..n /\ \A i \in p..(r - 1) : i \in 1..n
    BY <1>1
  <1> HIDE DEF n
  <1>4. n \in T
    BY <1>1, <1>2, Zenon
  <1>5. {i \in p..n : At(line, i) \in {" ", "NUL"}} = {i \in p..n : i \in T}
    BY <1>3, Zenon
  <1>6. q = Min({i \in p..n : i \in T})
    BY <1>5, Zenon DEF token_end, n
  <1> HIDE DEF T, q
  <1>7. /\ q \in p..n /\ q \in T /\ \A i \in p..(q - 1) : i \notin T
        /\ \A r \in p..n : r \in T /\ (\A i \in p..(r - 1) : i \notin T) => q = r
    BY <1>1, <1>4, <1>6, FirstPlace
  <1> QED BY <1>3, <1>7, Zenon DEF T, q, n

\* A line that reads "wifi <ssid> <key>" with legal sizes is accepted, and its
\* ssid and key are what is stored.
LEMMA ParseAccepts ==
    ASSUME NEW line \in Seq(Bytes), NEW s \in Nat, NEW t \in Nat, NEW k \in Nat, NEW u \in Nat,
           Reads(line, s, t, k, u), LegalSizes(t - s, u - k)
    PROVE  wifi_config_parse(line) = <<SubSeq(line, s, t - 1), SubSeq(line, k, u - 1)>>
  <1> DEFINE n == Len(line) + 1
  <1>1. /\ n \in Nat /\ At(line, n) = "NUL"
        /\ \A i \in 1..(n - 1) : At(line, i) = line[i] /\ At(line, i) # "NUL"
    BY AtLine
  <1>2. /\ At(line, 1) = "wifi" /\ 2 < s /\ s < t /\ t < k /\ k < u /\ u <= n
        /\ \A i \in 2..(s - 1) : line[i] = " "
        /\ \A i \in s..(t - 1) : line[i] # " "
        /\ \A i \in t..(k - 1) : line[i] = " "
        /\ \A i \in k..(u - 1) : line[i] # " "
        /\ \A i \in u..(n - 1) : line[i] = " "
    <2>1. /\ At(line, 1) = "wifi" /\ 2 < s /\ s < t /\ t < k /\ k < u /\ u <= n
          /\ \A i \in (2..(s - 1)) \cup (t..(k - 1)) \cup (u..Len(line)) : line[i] = " "
          /\ \A i \in (s..(t - 1)) \cup (k..(u - 1)) : line[i] # " "
      BY DEF Reads
    <2>2. n - 1 = Len(line)
      BY AtLine
    <2> QED BY <2>1, <2>2, Zenon
  <1>0. n \in Nat /\ 2 < s /\ s < t /\ t < k /\ k < u /\ u <= n
    BY <1>1, <1>2, Zenon
  <1> HIDE DEF n
  <1>3. /\ \A i \in 2..(s - 1) : At(line, i) = " "
        /\ \A i \in s..(t - 1) : At(line, i) # " " /\ At(line, i) # "NUL"
        /\ \A i \in t..(k - 1) : At(line, i) = " "
        /\ \A i \in k..(u - 1) : At(line, i) # " " /\ At(line, i) # "NUL"
        /\ \A i \in u..(n - 1) : At(line, i) = " "
    <2>1. (2..(s - 1)) \cup (s..(t - 1)) \cup (t..(k - 1)) \cup (k..(u - 1)) \cup (u..(n - 1))
             \subseteq 1..(n - 1)
      BY <1>0
    <2> QED BY <1>1, <1>2, <2>1, Zenon
  <1>4. /\ s \in 2..n /\ t \in s..n /\ k \in t..n /\ u \in k..n /\ n \in u..n
        /\ 2 \in 1..n /\ s \in 1..n /\ t \in 1..n /\ k \in 1..n /\ u \in 1..n
        /\ s \in s..(t - 1) /\ t \in t..(k - 1) /\ k \in k..(u - 1) /\ 2 \in 2..(s - 1)
    BY <1>0
  <1>5. u = n \/ u \in u..(n - 1)
    BY <1>0
  <1>6. "NUL" # " "
    OBVIOUS
  <1>7. skip_spaces(line, 2) = s
    BY <1>3, <1>4, SkipSpaces, Zenon DEF n
  <1>8. token_end(line, s) = t
    <2>1. At(line, t) \in {" ", "NUL"} /\ \A i \in s..(t - 1) : At(line, i) \notin {" ", "NUL"}
      BY <1>3, <1>4, Zenon
    <2> QED BY <1>4, <2>1, TokenEnd, Zenon DEF n
  <1>9. skip_spaces(line, t) = k
    BY <1>3, <1>4, SkipSpaces, Zenon DEF n
  <1>10. token_end(line, k) = u
    <2>1. At(line, u) \in {" ", "NUL"} /\ \A i \in k..(u - 1) : At(line, i) \notin {" ", "NUL"}
      BY <1>1, <1>3, <1>5, Zenon
    <2> QED BY <1>4, <2>1, TokenEnd, Zenon DEF n
  <1>11. skip_spaces(line, u) = Len(line) + 1
    <2>1. n - 1 = Len(line)
      BY AtLine DEF n
    <2> QED BY <1>1, <1>3, <1>4, <1>6, SkipSpaces, Zenon DEF n
  <1>12. At(line, 2) = " "
    BY <1>3, <1>4, Zenon
  <1> QED BY <1>2, <1>7, <1>8, <1>9, <1>10, <1>11, <1>12, Zenon DEF wifi_config_parse, LegalSizes

\* What the parser accepts reads "wifi <ssid> <key>" with legal sizes.
LEMMA ParseSound ==
    ASSUME NEW line \in Seq(Bytes), wifi_config_parse(line) # <<>>
    PROVE  \E s, t, k, u \in 1..(Len(line) + 1) :
              /\ Reads(line, s, t, k, u) /\ LegalSizes(t - s, u - k)
              /\ wifi_config_parse(line) = <<SubSeq(line, s, t - 1), SubSeq(line, k, u - 1)>>
  <1> DEFINE n == Len(line) + 1
  <1> DEFINE s == skip_spaces(line, 2)
  <1> DEFINE t == token_end(line, s)
  <1> DEFINE k == skip_spaces(line, t)
  <1> DEFINE u == token_end(line, k)
  <1>1. /\ At(line, 1) = "wifi" /\ At(line, 2) = " " /\ LegalSizes(t - s, u - k)
        /\ skip_spaces(line, u) = Len(line) + 1
        /\ wifi_config_parse(line) = <<SubSeq(line, s, t - 1), SubSeq(line, k, u - 1)>>
    BY Zenon DEF wifi_config_parse, LegalSizes
  <1> HIDE DEF s, t, k, u
  <1>0. n \in Nat /\ n # 0
    BY AtLine
  <1>2. /\ n \in Nat /\ At(line, n) = "NUL" /\ n - 1 = Len(line)
        /\ \A i \in 1..(n - 1) : At(line, i) = line[i] /\ At(line, i) # "NUL"
    BY AtLine
  <1>3. "NUL" # " " /\ "NUL" # "wifi"
    OBVIOUS
  <1>4. 2 \in 1..n
    <2>1. n # 1
      BY <1>1, <1>2, <1>3, Zenon
    <2> QED BY <1>0, <2>1
  <1>5. /\ s \in 2..n /\ At(line, s) # " "
        /\ \A i \in 2..(s - 1) : At(line, i) = " "
    BY <1>4, SkipSpaces, Zenon DEF s
  <1>6. s \in 2..n /\ s # 2
    BY <1>1, <1>5, Zenon
  <1>7. s \in 1..n
    BY <1>0, <1>6
  <1>8. /\ t \in s..n /\ At(line, t) \in {" ", "NUL"}
        /\ \A i \in s..(t - 1) : At(line, i) \notin {" ", "NUL"}
    BY <1>7, TokenEnd, Zenon DEF t
  <1>9. t \in s..n
    BY <1>8, Zenon
  <1>10. t \in 1..n
    BY <1>0, <1>7, <1>9
  <1>11. /\ k \in t..n /\ At(line, k) # " "
         /\ \A i \in t..(k - 1) : At(line, i) = " "
    BY <1>10, SkipSpaces, Zenon DEF k
  <1>12. k \in t..n
    BY <1>11, Zenon
  <1>13. k \in 1..n
    BY <1>0, <1>10, <1>12
  <1>14. /\ u \in k..n /\ At(line, u) \in {" ", "NUL"}
         /\ \A i \in k..(u - 1) : At(line, i) \notin {" ", "NUL"}
    BY <1>13, TokenEnd, Zenon DEF u
  <1>15. u \in k..n
    BY <1>14, Zenon
  <1>16. u \in 1..n
    BY <1>0, <1>13, <1>15
  <1>17. \A i \in u..(n - 1) : At(line, i) = " "
    BY <1>1, <1>16, SkipSpaces, Zenon
  <1>18. 2 < s /\ s < t /\ k < u /\ u <= n
    <2>1. t - s \in 1..(WIFI_SSID_SIZE - 1) /\ u - k \in WIFI_KEY_MIN..(WIFI_KEY_SIZE - 1)
      BY <1>1, Zenon DEF LegalSizes
    <2>2. t - s >= 1 /\ u - k >= 1
      BY <2>1, FramingAssumption
    <2> QED BY <1>0, <1>6, <1>7, <1>10, <1>13, <1>16, <2>2
  <1>19. t < k
    <2>1. k # n
      BY <1>0, <1>13, <1>16, <1>18
    <2>2. t # n
      BY <1>0, <1>10, <1>12, <1>13, <2>1
    <2>3. t \in 1..(n - 1)
      BY <1>0, <1>10, <2>2
    <2>4. t # k
      BY <1>2, <1>8, <1>11, <2>3, Zenon
    <2> QED BY <1>0, <1>10, <1>12, <1>13, <2>4
  <1>20. /\ \A i \in (2..(s - 1)) \cup (t..(k - 1)) \cup (u..Len(line)) : line[i] = " "
         /\ \A i \in (s..(t - 1)) \cup (k..(u - 1)) : line[i] # " "
    <2>1. (2..(s - 1)) \cup (s..(t - 1)) \cup (t..(k - 1)) \cup (k..(u - 1)) \cup (u..(n - 1))
             \subseteq 1..(n - 1)
      BY <1>0, <1>7, <1>10, <1>13, <1>16, <1>18, <1>19
    <2>2. /\ \A i \in (2..(s - 1)) \cup (t..(k - 1)) \cup (u..(n - 1)) : At(line, i) = " "
          /\ \A i \in (s..(t - 1)) \cup (k..(u - 1)) : At(line, i) # " "
      BY <1>5, <1>8, <1>11, <1>14, <1>17, Zenon
    <2> HIDE DEF n
    <2> QED BY <1>2, <2>1, <2>2, Zenon
  <1>21. Reads(line, s, t, k, u)
    BY <1>1, <1>18, <1>19, <1>20, Zenon DEF Reads
  <1> QED BY <1>1, <1>7, <1>10, <1>13, <1>16, <1>21, Zenon

(***************************************************************************)
(* Messages and their answers                                              *)
(***************************************************************************)

Receives(b) ==
    \/ ReceiveEnq(b) \/ ReceiveDump(b) \/ ReceiveConsole(b) \/ ReceiveStart(b) \/ ReceiveFrame(b)

\* Prefixes of a message.
LEMMA PrefixFacts ==
    ASSUME NEW s \in Seq(Bytes)
    PROVE  /\ Prefix(s, 0) = <<>> /\ Prefix(s, Len(s)) = s
           /\ \A n \in 0..Len(s) :
                 /\ Prefix(s, n) \in Seq(Bytes) /\ Len(Prefix(s, n)) = n
                 /\ \A i \in 1..n : Prefix(s, n)[i] = s[i]
           /\ \A n \in 0..(Len(s) - 1) : Append(Prefix(s, n), s[n + 1]) = Prefix(s, n + 1)
           /\ Len(s) >= 1 => Prefix(s, 1) = <<s[1]>>
  <1>1. Prefix(s, 0) = <<>> /\ Prefix(s, Len(s)) = s
    BY SubSeqFull, SubSeqEmpty DEF Prefix
  <1>2. ASSUME NEW n \in 0..Len(s)
        PROVE  /\ Prefix(s, n) \in Seq(Bytes) /\ Len(Prefix(s, n)) = n
               /\ \A i \in 1..n : Prefix(s, n)[i] = s[i]
    BY DEF Prefix
  <1>3. ASSUME NEW n \in 0..(Len(s) - 1)
        PROVE  Append(Prefix(s, n), s[n + 1]) = Prefix(s, n + 1)
    <2> DEFINE a == Append(Prefix(s, n), s[n + 1])
    <2> DEFINE c == Prefix(s, n + 1)
    <2>0. n \in 0..Len(s) /\ n + 1 \in 0..Len(s) /\ s[n + 1] \in Bytes
      OBVIOUS
    <2>1. /\ a \in Seq(Bytes) /\ Len(a) = n + 1 /\ a[n + 1] = s[n + 1]
          /\ \A i \in 1..n : a[i] = s[i]
      <3> DEFINE r == Prefix(s, n)
      <3>1. r \in Seq(Bytes) /\ Len(r) = n /\ \A i \in 1..n : r[i] = s[i]
        BY <1>2, <2>0
      <3> HIDE DEF r
      <3>2. /\ Append(r, s[n + 1]) \in Seq(Bytes) /\ Len(Append(r, s[n + 1])) = n + 1
            /\ Append(r, s[n + 1])[n + 1] = s[n + 1]
            /\ \A i \in 1..n : Append(r, s[n + 1])[i] = s[i]
        BY <2>0, <3>1
      <3> QED BY <3>2 DEF r
    <2>2. c \in Seq(Bytes) /\ Len(c) = n + 1 /\ \A i \in 1..(n + 1) : c[i] = s[i]
      BY <1>2, <2>0
    <2> HIDE DEF a, c
    <2>3. a = c
      <3>1. \A i \in 1..Len(a) : a[i] = c[i]
        BY <2>1, <2>2
      <3> QED BY <2>1, <2>2, <3>1, SeqEqual
    <2> QED BY <2>3 DEF a, c
  <1>4. ASSUME Len(s) >= 1
        PROVE  Prefix(s, 1) = <<s[1]>>
    <2>1. 0 \in 0..(Len(s) - 1) /\ 0 + 1 = 1
      BY <1>4
    <2>2. Append(<<>>, s[1]) = <<s[1]>>
      OBVIOUS
    <2> QED BY <1>1, <1>3, <2>1, <2>2
  <1> QED BY <1>1, <1>2, <1>3, <1>4

\* The next byte of a message.
LEMMA NextByte ==
    ASSUME PortType, HostInv, fx_protocol_task
    PROVE  /\ Received \in Nat /\ Len(msg.bytes) \in Nat /\ Received + 1 <= Len(msg.bytes)
           /\ msg.bytes \in Seq(Bytes) /\ msg.bytes[Received + 1] \in Bytes
           /\ Receives(msg.bytes[Received + 1])
           /\ ~cut /\ UNCHANGED <<msg, cut, at_rest, line_empty>>
           /\ Received' = Received + 1
           /\ wire' = SubSeq(msg.bytes, Received + 2, Len(msg.bytes))
           /\ wire' = <<>> <=> Received + 1 = Len(msg.bytes)
  <1> DEFINE bytes == msg.bytes
  <1> DEFINE L == Len(bytes)
  <1> DEFINE n == Received
  <1>1. wire # <<>> /\ wire' = Tail(wire) /\ UNCHANGED <<msg, cut, at_rest, line_empty>>
    BY DEF fx_protocol_task, host, found
  <1>2. /\ ~cut /\ n \in 0..L /\ wire = SubSeq(bytes, n + 1, L)
        /\ wire \in Seq(Bytes) /\ msg \in MESSAGES
    BY <1>1 DEF HostInv, PortType
  <1>3. bytes \in Seq(Bytes) /\ L \in Nat
    BY <1>2, FramingAssumption
  <1>4. n = L - Len(wire) /\ Len(wire) \in Nat \ {0}
    BY <1>1, <1>2 DEF Received
  <1> HIDE DEF bytes, n
  <1>5. n \in Nat /\ n + 1 <= L /\ n + 1 \in 1..L
    BY <1>2, <1>3, <1>4
  <1>6. Head(wire) = bytes[n + 1] /\ Tail(wire) = SubSeq(bytes, n + 2, L)
    <2>1. /\ Head(SubSeq(bytes, n + 1, L)) = bytes[n + 1]
          /\ Tail(SubSeq(bytes, n + 1, L)) = SubSeq(bytes, (n + 1) + 1, L)
      <3>1. L \in (n + 1)..L
        BY <1>3, <1>5
      <3> QED BY <1>3, <1>5, <3>1, HeadTailOfSubSeq
    <2>2. (n + 1) + 1 = n + 2
      BY <1>5
    <2> QED BY <1>2, <2>1, <2>2
  <1>7. Receives(bytes[n + 1])
    BY <1>6 DEF fx_protocol_task, Receives
  <1>8. Received' = n + 1
    <2>1. Received' = L - Len(wire')
      BY <1>1 DEF Received, bytes
    <2>2. Len(wire') = Len(wire) - 1
      BY <1>1, <1>2, HeadTailProperties
    <2> QED BY <1>3, <1>4, <1>5, <2>1, <2>2
  <1>9. wire' = <<>> <=> n + 1 = L
    <2>1. Len(wire') = Len(wire) - 1 /\ wire' \in Seq(Bytes)
      BY <1>1, <1>2, HeadTailProperties
    <2>2. wire' = <<>> <=> Len(wire') = 0
      BY <2>1, EmptySeq
    <2> QED BY <1>3, <1>4, <1>5, <2>1, <2>2
  <1>10. bytes[n + 1] \in Bytes
    BY <1>3, <1>5
  <1> QED BY <1>1, <1>2, <1>3, <1>5, <1>6, <1>7, <1>8, <1>9, <1>10 DEF bytes, n

\* Which part of fx_protocol_task takes a byte.
LEMMA WhoReceives ==
    ASSUME NEW b, Receives(b)
    PROVE  /\ b = "STX" => frame_char(<<b>>) /\ UNCHANGED console
           /\ in_frame /\ b # "STX" =>
                 /\ UNCHANGED console
                 /\ IF Len(rx) >= FX_BUF_SIZE THEN overlong /\ UNCHANGED <<ring, reply>>
                    ELSE frame_char(Append(rx, b))
           /\ ~in_frame /\ b = "ENQ" => send("ACK") /\ UNCHANGED <<port, console>>
           /\ ~in_frame /\ b = "?" => send("dump") /\ UNCHANGED <<port, console>>
           /\ ~in_frame /\ b \notin {"STX", "ENQ", "?"} => console_char(b) /\ UNCHANGED port
  <1>1. "STX" # "ENQ" /\ "STX" # "?" /\ "ENQ" # "?"
    OBVIOUS
  <1> QED BY <1>1, Zenon DEF Receives, ReceiveEnq, ReceiveDump, ReceiveConsole, ReceiveStart, ReceiveFrame,
                  Restart

\* The console changes only outside a frame, and then by console_char.
LEMMA ConsoleByte ==
    ASSUME NEW b, Receives(b)
    PROVE  \/ UNCHANGED console
           \/ ~in_frame /\ console_char(b)
  BY Zenon DEF Receives, ReceiveEnq, ReceiveDump, ReceiveConsole, ReceiveStart, ReceiveFrame

\* The message and the port at rest, step by step.
LEMMA HostStep ==
    ASSUME PlainMessages, PortType, HostInv, [Next]_vars
    PROVE  HostInv'
  <1>0. CONSOLE_LINE_MAX \in Nat \ {0, 1}
    BY FramingAssumption
  <1>1. CASE fx_protocol_task
    <2> DEFINE b == msg.bytes[Received + 1]
    <2>1. /\ Received \in Nat /\ Len(msg.bytes) \in Nat /\ Received + 1 <= Len(msg.bytes)
          /\ Receives(b) /\ b \in Bytes
          /\ ~cut /\ UNCHANGED <<msg, cut, at_rest, line_empty>>
          /\ Received' = Received + 1
          /\ wire' = SubSeq(msg.bytes, Received + 2, Len(msg.bytes))
      BY <1>1, NextByte
    <2>2. Received' # 0 /\ Received' \in 0..Len(msg.bytes)
      BY <2>1
    <2>3. wire' = SubSeq(msg'.bytes, Received' + 1, Len(msg'.bytes))
      <3>1. (Received + 1) + 1 = Received + 2
        BY <2>1
      <3> QED BY <2>1, <3>1
    <2>4. console_overflow' => console_line' # <<>>
      <3>1. CASE UNCHANGED console
        BY <3>1 DEF console, HostInv
      <3>2. CASE console_char(b) /\ b = "CR"
        BY <3>2 DEF console_char, console_end
      <3>3. CASE console_char(b) /\ b # "CR" /\ room
        <4>1. console_line' = Append(console_line, b) /\ console_line \in Seq(Bytes)
          BY <3>3 DEF console_char, console_append, PortType
        <4> QED BY <2>1, <4>1
      <3>4. CASE console_char(b) /\ b # "CR" /\ ~room
        <4>1. console_line' = console_line /\ console_line \in Seq(Bytes)
          BY <3>4 DEF console_char, console_append, PortType
        <4>2. Len(console_line) # 0
          BY <1>0, <3>4 DEF room
        <4> QED BY <4>1, <4>2
      <3> QED BY <2>1, <3>1, <3>2, <3>3, <3>4, ConsoleByte
    <2> QED BY <2>1, <2>2, <2>3, <2>4 DEF HostInv
  <1>2. ASSUME NEW m \in MESSAGES, Begin(m)
        PROVE  HostInv'
    <2>1. /\ msg' = m /\ wire' = m.bytes /\ cut' = FALSE /\ reply' = "none" /\ wifi' = <<>>
          /\ at_rest' = ~in_frame /\ line_empty' = (console_line = <<>>) /\ in_frame' = in_frame
          /\ console_line' = console_line /\ console_overflow' = console_overflow
      BY <1>2 DEF Begin, port
    <2>2. m.bytes \in Seq(Bytes) /\ Len(m.bytes) \in Nat
      BY FramingAssumption
    <2>3. Received' = Len(m.bytes) - Len(m.bytes)
      BY <2>1 DEF Received
    <2>4. Received' = 0 /\ Received' + 1 = 1 /\ Received' \in 0..Len(m.bytes)
      BY <2>2, <2>3
    <2>5. SubSeq(m.bytes, 1, Len(m.bytes)) = m.bytes
      BY <2>2, SubSeqFull
    <2>6. wire' = SubSeq(msg'.bytes, Received' + 1, Len(msg'.bytes))
      BY <2>1, <2>4, <2>5
    <2>7. console_overflow' => console_line' # <<>>
      BY <2>1 DEF HostInv
    <2> QED BY <2>1, <2>4, <2>6, <2>7 DEF HostInv
  <1>3. CASE Cut \/ Reopen
    BY <1>3 DEF Cut, Reopen, HostInv, console
  <1>4. CASE Linked \/ UNCHANGED vars
    <2>1. /\ UNCHANGED <<msg, wire, cut, at_rest, line_empty, reply, wifi>>
          /\ UNCHANGED <<in_frame, console_line, console_overflow>>
      BY <1>4 DEF Linked, vars, host, port, console, found
    <2>2. Received' = Received
      BY <2>1 DEF Received
    <2> QED BY <2>1, <2>2, Zenon DEF HostInv
  <1>5. enq \in MESSAGES
    BY FramingAssumption DEF enq
  <1> QED BY <1>1, <1>2, <1>3, <1>4, <1>5 DEF Next, Send, Poll

\* The steps that take no byte leave an answer in place or forget the message.
LEMMA NoByte ==
    ASSUME [Next]_vars, ~fx_protocol_task
    PROVE  \/ /\ UNCHANGED <<msg, wire, cut, at_rest, line_empty, reply, wifi, console_line>>
              /\ UNCHANGED <<rx, in_frame, console_overflow>>
           \/ cut' /\ UNCHANGED <<msg, at_rest, line_empty, wifi, console_line>>
           \/ \E m \in MESSAGES :
                 /\ msg' = m /\ wire' = m.bytes /\ reply' = "none" /\ wifi' = <<>>
                 /\ at_rest' = ~in_frame /\ line_empty' = (console_line = <<>>)
                 /\ UNCHANGED <<in_frame, console_line, console_overflow>>
  <1>1. enq \in MESSAGES
    BY FramingAssumption DEF enq
  <1>2. CASE Cut \/ Reopen
    BY <1>2 DEF Cut, Reopen, console, found
  <1>3. CASE Linked \/ UNCHANGED vars
    BY <1>3 DEF Linked, vars, host, port, console, found
  <1>4. ASSUME NEW m \in MESSAGES, Begin(m)
        PROVE  /\ msg' = m /\ wire' = m.bytes /\ reply' = "none" /\ wifi' = <<>>
               /\ at_rest' = ~in_frame /\ line_empty' = (console_line = <<>>)
               /\ UNCHANGED <<in_frame, console_line, console_overflow>>
    BY <1>4 DEF Begin, port
  <1> QED BY <1>1, <1>2, <1>3, <1>4 DEF Next, Send, Poll

\* Frames, whatever was on the port before them.
LEMMA FrameStep ==
    ASSUME PlainMessages, PortType, HostInv, FrameInv, [Next]_vars
    PROVE  FrameInv'
  <1>1. CASE fx_protocol_task /\ msg.kind \in {"read", "write", "bad"}
    <2> DEFINE n == Received
    <2> DEFINE L == Len(msg.bytes)
    <2> DEFINE b == msg.bytes[n + 1]
    <2> DEFINE f == Prefix(msg.bytes, n + 1)
    <2>1. /\ n \in Nat /\ L \in Nat /\ n + 1 <= L /\ msg.bytes \in Seq(Bytes)
          /\ Receives(b) /\ ~cut /\ UNCHANGED <<msg, cut>> /\ Received' = n + 1
          /\ (wire' = <<>> <=> n + 1 = L)
      BY <1>1, NextByte
    <2>2. /\ L <= FX_BUF_SIZE /\ msg.bytes[1] = "STX"
          /\ \A i \in 2..L : msg.bytes[i] # "STX"
          /\ \A i \in 1..L : frame_ends(Prefix(msg.bytes, i)) <=> i = L
          /\ handle_frame(msg.bytes) = Expected(msg)
      BY <1>1 DEF PortType, PlainMessages, Plain, PlainFrame
    <2>3. n = 0 => reply = "none"
      BY <2>1 DEF HostInv
    <2>4. n # 0 => in_frame /\ rx = Prefix(msg.bytes, n) /\ reply = "none"
      <3>1. wire # <<>>
        BY <1>1 DEF fx_protocol_task
      <3>2. n # 0 => n > 0
        BY <2>1
      <3> QED BY <1>1, <2>1, <3>1, <3>2 DEF FrameInv
    <2>5. frame_char(f)
      <3>1. CASE n = 0
        <4>1. b = "STX" /\ f = <<b>>
          BY <2>1, <2>2, <3>1, PrefixFacts
        <4> QED BY <2>1, <4>1, WhoReceives
      <3>2. CASE n # 0
        <4>1. n + 1 \in 2..L /\ n \in 0..L /\ n \in 0..(L - 1)
          BY <2>1, <3>2
        <4>2. b # "STX" /\ in_frame
          BY <2>2, <2>4, <3>2, <4>1
        <4>3. Append(rx, b) = f /\ Len(rx) = n
          <5>1. /\ Append(Prefix(msg.bytes, n), b) = f
                /\ Len(Prefix(msg.bytes, n)) = n
            BY <2>1, <4>1, PrefixFacts, Zenon
          <5> QED BY <2>4, <3>2, <5>1, Zenon
        <4>4. ~(Len(rx) >= FX_BUF_SIZE)
          BY <2>1, <2>2, <4>3, FramingAssumption
        <4> QED BY <2>1, <4>2, <4>3, <4>4, WhoReceives
      <3> QED BY <3>1, <3>2
    <2>6. frame_ends(f) <=> n + 1 = L
      <3>1. n + 1 \in 1..L
        BY <2>1
      <3> QED BY <2>2, <3>1
    <2>7. CASE n + 1 = L
      <3>1. f = msg.bytes
        BY <2>1, <2>7, PrefixFacts
      <3>2. send(handle_frame(f))
        BY <2>5, <2>6, <2>7 DEF frame_char
      <3>3. reply' = Expected(msg)
        BY <2>2, <2>3, <2>4, <3>1, <3>2 DEF send
      <3>4. Expected(msg') = Expected(msg)
        BY <2>1
      <3> QED BY <2>1, <2>7, <3>3, <3>4 DEF FrameInv
    <2>8. CASE n + 1 # L
      <3>1. in_frame' /\ rx' = f /\ reply' = "none"
        BY <2>3, <2>4, <2>5, <2>6, <2>8 DEF frame_char
      <3>2. rx' = Prefix(msg'.bytes, Received')
        BY <2>1, <3>1
      <3> QED BY <2>1, <2>8, <3>1, <3>2 DEF FrameInv
    <2> QED BY <2>7, <2>8
  <1>2. CASE fx_protocol_task /\ msg.kind \notin {"read", "write", "bad"}
    <2>1. msg' = msg
      BY <1>2, NextByte
    <2> QED BY <1>2, <2>1 DEF FrameInv
  <1>3. CASE ~fx_protocol_task
    <2>1. CASE UNCHANGED <<msg, wire, cut, reply, rx, in_frame>>
      <3>1. Received' = Received
        BY <2>1 DEF Received
      <3> QED BY <2>1, <3>1, Zenon DEF FrameInv
    <2>2. CASE cut'
      BY <2>2 DEF FrameInv
    <2>3. ASSUME NEW m \in MESSAGES, msg' = m, wire' = m.bytes
          PROVE  FrameInv'
      <3>1. m.bytes \in Seq(Bytes) /\ Len(m.bytes) \in Nat
        BY FramingAssumption
      <3>2. Received' = Len(m.bytes) - Len(m.bytes)
        BY <2>3 DEF Received
      <3>3. ~(Received' > 0)
        BY <3>1, <3>2
      <3> QED BY <3>3 DEF FrameInv
    <2> QED BY <1>3, <2>1, <2>2, <2>3, NoByte
  <1> QED BY <1>1, <1>2, <1>3

\* A frame too long for the buffer gets no answer.
LEMMA OverlongStep ==
    ASSUME PlainMessages, PortType, HostInv, OverlongInv, [Next]_vars
    PROVE  OverlongInv'
  <1>1. CASE fx_protocol_task /\ msg.kind = "overlong"
    <2> DEFINE n == Received
    <2> DEFINE L == Len(msg.bytes)
    <2> DEFINE b == msg.bytes[n + 1]
    <2> DEFINE f == Prefix(msg.bytes, n + 1)
    <2>1. /\ n \in Nat /\ L \in Nat /\ n + 1 <= L /\ msg.bytes \in Seq(Bytes)
          /\ Receives(b) /\ ~cut /\ UNCHANGED <<msg, cut>> /\ Received' = n + 1
      BY <1>1, NextByte
    <2>2. /\ msg.bytes[1] = "STX"
          /\ \A i \in 2..L : msg.bytes[i] \notin {"STX", "ENQ", "?", "CR"}
          /\ \A i \in 1..L : i <= FX_BUF_SIZE => ~frame_ends(Prefix(msg.bytes, i))
      BY <1>1 DEF PortType, PlainMessages, Plain, PlainOverlong
    <2>3. reply = "none" /\ (n # 0 /\ in_frame => n <= FX_BUF_SIZE /\ rx = Prefix(msg.bytes, n))
      <3>1. n # 0 => n > 0
        BY <2>1
      <3> QED BY <1>1, <2>1, <3>1 DEF OverlongInv
    <2>4. SUFFICES /\ reply' = "none"
                   /\ in_frame' => n + 1 <= FX_BUF_SIZE /\ rx' = f
      BY <2>1, <2>4 DEF OverlongInv
    <2>5. ASSUME frame_char(f), n + 1 <= FX_BUF_SIZE
          PROVE  reply' = "none" /\ rx' = f
      <3>1. ~frame_ends(f)
        BY <2>1, <2>2, <2>5
      <3> QED BY <2>3, <2>5, <3>1 DEF frame_char
    <2>6. CASE n = 0
      <3>1. b = "STX" /\ f = <<b>> /\ n + 1 <= FX_BUF_SIZE
        BY <2>1, <2>2, <2>6, PrefixFacts, FramingAssumption
      <3>2. frame_char(f)
        BY <2>1, <3>1, WhoReceives
      <3> QED BY <2>5, <3>1, <3>2
    <2>7. CASE n # 0 /\ in_frame
      <3>1. n + 1 \in 2..L /\ n \in 0..L /\ n \in 0..(L - 1)
        BY <2>1, <2>7
      <3>2. b # "STX"
        BY <2>2, <3>1
      <3>3. Append(rx, b) = f /\ Len(rx) = n
        <4>1. /\ Append(Prefix(msg.bytes, n), b) = f
              /\ Len(Prefix(msg.bytes, n)) = n
          BY <2>1, <3>1, PrefixFacts, Zenon
        <4> QED BY <2>3, <2>7, <4>1, Zenon
      <3>4. CASE Len(rx) >= FX_BUF_SIZE
        <4>1. overlong /\ UNCHANGED <<ring, reply>>
          BY <2>1, <2>7, <3>2, <3>4, WhoReceives
        <4> QED BY <2>3, <4>1 DEF overlong
      <3>5. CASE ~(Len(rx) >= FX_BUF_SIZE)
        <4>1. frame_char(f)
          BY <2>1, <2>7, <3>2, <3>3, <3>5, WhoReceives
        <4>2. n + 1 <= FX_BUF_SIZE
          BY <2>1, <3>3, <3>5, FramingAssumption
        <4> QED BY <2>5, <4>1, <4>2
      <3> QED BY <3>4, <3>5
    <2>8. CASE n # 0 /\ ~in_frame
      <3>1. n + 1 \in 2..L
        BY <2>1, <2>8
      <3>2. b \notin {"STX", "ENQ", "?"} /\ b # "CR"
        BY <2>2, <3>1
      <3>3. console_char(b) /\ UNCHANGED port
        BY <2>1, <2>8, <3>2, WhoReceives
      <3> QED BY <2>3, <2>8, <3>2, <3>3 DEF console_char, console_append, port
    <2> QED BY <2>6, <2>7, <2>8
  <1>2. CASE fx_protocol_task /\ msg.kind # "overlong"
    <2>1. msg' = msg
      BY <1>2, NextByte
    <2> QED BY <1>2, <2>1 DEF OverlongInv
  <1>3. CASE ~fx_protocol_task
    <2>1. CASE UNCHANGED <<msg, wire, cut, reply, rx, in_frame>>
      <3>1. Received' = Received
        BY <2>1 DEF Received
      <3> QED BY <2>1, <3>1, Zenon DEF OverlongInv
    <2>2. CASE cut'
      BY <2>2 DEF OverlongInv
    <2>3. ASSUME NEW m \in MESSAGES, msg' = m, wire' = m.bytes, reply' = "none"
          PROVE  OverlongInv'
      <3>1. m.bytes \in Seq(Bytes) /\ Len(m.bytes) \in Nat
        BY FramingAssumption
      <3>2. Received' = Len(m.bytes) - Len(m.bytes)
        BY <2>3 DEF Received
      <3>3. ~(Received' > 0)
        BY <3>1, <3>2
      <3> QED BY <2>3, <3>3 DEF OverlongInv
    <2> QED BY <1>3, <2>1, <2>2, <2>3, NoByte
  <1> QED BY <1>1, <1>2, <1>3

\* ENQ and '?' on a port at rest.
LEMMA ByteStep ==
    ASSUME PlainMessages, PortType, HostInv, ByteInv, [Next]_vars
    PROVE  ByteInv'
  <1>1. CASE fx_protocol_task /\ at_rest /\ msg.kind \in {"enq", "dump"}
    <2> DEFINE n == Received
    <2> DEFINE b == msg.bytes[n + 1]
    <2>1. /\ n \in Nat /\ n + 1 <= Len(msg.bytes) /\ Receives(b) /\ ~cut /\ msg' = msg
      BY <1>1, NextByte
    <2>2. msg.bytes = IF msg.kind = "enq" THEN <<"ENQ">> ELSE <<"?">>
      BY <1>1 DEF PortType, PlainMessages, Plain
    <2>3. n = 0 /\ b = IF msg.kind = "enq" THEN "ENQ" ELSE "?"
      BY <2>1, <2>2
    <2>4. ~in_frame /\ reply = "none"
      BY <1>1, <2>1, <2>3 DEF HostInv
    <2>5. send(IF msg.kind = "enq" THEN "ACK" ELSE "dump")
      BY <2>1, <2>3, <2>4, WhoReceives
    <2>6. reply' = IF msg.kind = "enq" THEN "ACK" ELSE "dump"
      BY <2>4, <2>5 DEF send
    <2>7. Expected(msg) = IF msg.kind = "enq" THEN "ACK" ELSE "dump"
      BY <1>1 DEF Expected
    <2> QED BY <2>1, <2>6, <2>7 DEF ByteInv
  <1>2. CASE fx_protocol_task /\ ~(at_rest /\ msg.kind \in {"enq", "dump"})
    <2>1. msg' = msg /\ at_rest' = at_rest
      BY <1>2, NextByte
    <2> QED BY <1>2, <2>1 DEF ByteInv
  <1>3. CASE ~fx_protocol_task
    <2>1. CASE UNCHANGED <<msg, wire, cut, at_rest, reply>>
      BY <2>1, Zenon DEF ByteInv
    <2>2. CASE cut'
      BY <2>2 DEF ByteInv
    <2>3. ASSUME NEW m \in MESSAGES, wire' = m.bytes
          PROVE  ByteInv'
      <3>1. wire' # <<>>
        BY <2>3 DEF PlainMessages, Plain
      <3> QED BY <3>1 DEF ByteInv
    <2> QED BY <1>3, <2>1, <2>2, <2>3, NoByte
  <1> QED BY <1>1, <1>2, <1>3

\* No command is in the buffer that was not typed as one.
LEMMA VerbStep ==
    ASSUME PlainMessages, PortType, HostInv, VerbInv, [Next]_vars
    PROVE  VerbInv'
  <1>0. At(<<>>, 1) # "wifi"
    <2>1. Len(<<>>) = 0
      OBVIOUS
    <2>2. ~(1 <= Len(<<>>)) /\ "NUL" # "wifi"
      BY <2>1
    <2> QED BY <2>2, Zenon DEF At
  <1>1. CASE fx_protocol_task /\ line_empty /\ ~(at_rest /\ msg.kind = "line")
    <2> DEFINE n == Received
    <2> DEFINE b == msg.bytes[n + 1]
    <2>1. /\ n \in Nat /\ n + 1 <= Len(msg.bytes) /\ Len(msg.bytes) \in Nat
          /\ Receives(b) /\ b \in Bytes /\ ~cut
      BY <1>1, NextByte
    <2>2. NoVerb
      BY <1>1 DEF VerbInv
    <2>3. ~in_frame => b # "wifi"
      <3>1. n + 1 \in 1..Len(msg.bytes)
        BY <2>1
      <3>2. b = "wifi" => n + 1 = 1 /\ msg.kind = "line"
        BY <3>1 DEF PortType, PlainMessages, Plain
      <3>3. n + 1 = 1 => n = 0
        BY <2>1
      <3>4. n = 0 => at_rest = ~in_frame
        BY <2>1 DEF HostInv
      <3> QED BY <1>1, <3>2, <3>3, <3>4
    <2>4. NoVerb'
      <3>1. CASE UNCHANGED console
        <4>1. wifi' = wifi /\ console_line' = console_line
          BY <3>1 DEF console
        <4> QED BY <2>2, <4>1 DEF NoVerb
      <3>2. CASE ~in_frame /\ console_char(b) /\ b = "CR"
        <4>1. wifi' = wifi /\ console_line' = <<>>
          BY <2>2, <3>2 DEF NoVerb, console_char, console_end, console_execute
        <4> QED BY <1>0, <2>2, <4>1 DEF NoVerb
      <3>3. CASE ~in_frame /\ console_char(b) /\ b # "CR"
        <4>1. /\ wifi' = wifi
              /\ console_line' = console_line \/ console_line' = Append(console_line, b)
          BY <3>3 DEF console_char, console_append
        <4>2. CASE console_line' = console_line
          BY <2>2, <4>1, <4>2 DEF NoVerb
        <4>3. CASE console_line' = Append(console_line, b)
          <5>1. console_line \in Seq(Bytes)
            BY DEF PortType
          <5>2. /\ 1 <= Len(Append(console_line, b))
                /\ Append(console_line, b)[1] = IF 1 <= Len(console_line) THEN console_line[1] ELSE b
            BY <2>1, <5>1
          <5>3. At(console_line, 1) # "wifi"
            BY <2>2 DEF NoVerb
          <5>4. At(Append(console_line, b), 1) # "wifi"
            BY <2>3, <3>3, <5>2, <5>3, Zenon DEF At
          <5> QED BY <2>2, <4>1, <4>3, <5>4 DEF NoVerb
        <4> QED BY <4>1, <4>2, <4>3
      <3> QED BY <2>1, <3>1, <3>2, <3>3, ConsoleByte
    <2> QED BY <2>4 DEF VerbInv
  <1>2. CASE fx_protocol_task /\ ~(line_empty /\ ~(at_rest /\ msg.kind = "line"))
    <2>1. msg' = msg /\ at_rest' = at_rest /\ line_empty' = line_empty
      BY <1>2, NextByte
    <2> QED BY <1>2, <2>1 DEF VerbInv
  <1>3. CASE ~fx_protocol_task
    <2>1. CASE UNCHANGED <<msg, at_rest, line_empty, wifi, console_line>>
      BY <2>1, Zenon DEF VerbInv, NoVerb
    <2>2. CASE wifi' = <<>> /\ line_empty' = (console_line = <<>>) /\ console_line' = console_line
      BY <1>0, <2>2, Zenon DEF VerbInv, NoVerb
    <2> QED BY <1>3, <2>1, <2>2, NoByte
  <1> QED BY <1>1, <1>2, <1>3

\* A command typed in full is stored as it was meant, or refused.
LEMMA LineParsed ==
    ASSUME NEW m \in MESSAGES, PlainMessages, m.kind = "line"
    PROVE  LET line == Prefix(m.bytes, Len(m.bytes) - 1)
           IN  /\ LegalLine(m) <=> wifi_config_parse(line) # <<>>
               /\ LegalLine(m) => /\ wifi_config_parse(line) = <<m.ssid, m.key>>
                                  /\ Len(line) <= CONSOLE_LINE_MAX - 1
  <1> DEFINE line == Prefix(m.bytes, Len(m.bytes) - 1)
  <1> DEFINE Places == 1..(Len(line) + 1)
  <1>1. m.bytes \in Seq(Bytes) /\ m.bytes # <<>> /\ Len(m.bytes) \in Nat \ {0}
    BY DEF PlainMessages, Plain, Message
  <1>2. line \in Seq(Bytes) /\ Len(line) \in Nat
    <2>1. Len(m.bytes) - 1 \in 0..Len(m.bytes)
      BY <1>1
    <2> QED BY <1>1, <2>1, PrefixFacts
  <1>3. /\ \A s, t, k, u \in Places :
              Reads(line, s, t, k, u) /\ LegalSizes(t - s, u - k)
                 => m.ssid = SubSeq(line, s, t - 1) /\ m.key = SubSeq(line, k, u - 1)
        /\ LegalLine(m) =>
              /\ Len(line) <= CONSOLE_LINE_MAX - 1
              /\ \E s, t, k, u \in Places :
                    /\ Reads(line, s, t, k, u)
                    /\ m.ssid = SubSeq(line, s, t - 1) /\ m.key = SubSeq(line, k, u - 1)
    BY DEF PlainMessages, Plain, PlainLine
  <1> HIDE DEF line
  <1>4. ASSUME NEW s \in Places, NEW t \in Places, NEW k \in Places, NEW u \in Places,
               Reads(line, s, t, k, u)
        PROVE  /\ Len(SubSeq(line, s, t - 1)) = t - s /\ Len(SubSeq(line, k, u - 1)) = u - k
    <2>1. s < t /\ k < u /\ u <= Len(line) + 1 /\ t <= Len(line) + 1
      <3>1. s < t /\ t < k /\ k < u /\ u <= Len(line) + 1
        BY <1>4, Zenon DEF Reads
      <3> QED BY <1>2, <3>1
    <2>2. \A i \in 1..Len(line) : line[i] \in Bytes
      BY <1>2
    <2>3. /\ \A i \in s..(t - 1) : line[i] \in Bytes
          /\ \A i \in k..(u - 1) : line[i] \in Bytes
      BY <1>2, <2>1, <2>2
    <2>4. s \in Int /\ t - 1 \in Int /\ k \in Int /\ u - 1 \in Int
      BY <1>2
    <2>5. /\ Len(SubSeq(line, s, t - 1)) = IF s <= t - 1 THEN (t - 1) - s + 1 ELSE 0
          /\ Len(SubSeq(line, k, u - 1)) = IF k <= u - 1 THEN (u - 1) - k + 1 ELSE 0
      BY <2>3, <2>4, SubSeqProperties
    <2> QED BY <2>1, <2>5
  <1>5. ASSUME LegalLine(m)
        PROVE  wifi_config_parse(line) = <<m.ssid, m.key>> /\ wifi_config_parse(line) # <<>>
    <2>1. PICK s \in Places, t \in Places, k \in Places, u \in Places :
             /\ Reads(line, s, t, k, u)
             /\ m.ssid = SubSeq(line, s, t - 1) /\ m.key = SubSeq(line, k, u - 1)
      BY <1>3, <1>5
    <2>2. LegalSizes(t - s, u - k)
      <3>1. Len(m.ssid) = t - s /\ Len(m.key) = u - k
        BY <1>4, <2>1
      <3> QED BY <1>5, <3>1, Zenon DEF LegalLine, LegalSizes
    <2>3. s \in Nat /\ t \in Nat /\ k \in Nat /\ u \in Nat
      BY <1>2
    <2>4. wifi_config_parse(line) = <<m.ssid, m.key>>
      BY <1>2, <2>1, <2>2, <2>3, ParseAccepts
    <2>5. <<m.ssid, m.key>> # <<>>
      OBVIOUS
    <2> QED BY <2>4, <2>5
  <1>6. ASSUME wifi_config_parse(line) # <<>>
        PROVE  LegalLine(m)
    <2>1. PICK s \in Places, t \in Places, k \in Places, u \in Places :
             Reads(line, s, t, k, u) /\ LegalSizes(t - s, u - k)
      BY <1>2, <1>6, ParseSound
    <2>2. m.ssid = SubSeq(line, s, t - 1) /\ m.key = SubSeq(line, k, u - 1)
      BY <1>3, <2>1
    <2>3. Len(m.ssid) = t - s /\ Len(m.key) = u - k
      BY <1>4, <2>1, <2>2
    <2> QED BY <2>1, <2>3, Zenon DEF LegalLine, LegalSizes
  <1> QED BY <1>3, <1>5, <1>6 DEF line

\* A console line as it comes in, and what its end does.
LEMMA LineByte ==
    ASSUME PlainMessages, PortType, HostInv, LineInv, fx_protocol_task,
           at_rest, line_empty, msg.kind \in {"line", "other"}
    PROVE  /\ LineInv'
           /\ \/ wifi' = wifi
              \/ msg.kind = "line" /\ LegalLine(msg) /\ wifi' = <<msg.ssid, msg.key>>
  <1> DEFINE n == Received
  <1> DEFINE L == Len(msg.bytes)
  <1> DEFINE C == CONSOLE_LINE_MAX - 1
  <1> DEFINE b == msg.bytes[n + 1]
  <1>0. C \in Nat \ {0}
    BY FramingAssumption
  <1>1. /\ n \in Nat /\ L \in Nat /\ n + 1 <= L /\ msg.bytes \in Seq(Bytes)
        /\ Receives(b) /\ b \in Bytes /\ ~cut /\ UNCHANGED <<msg, cut, at_rest, line_empty>>
        /\ Received' = n + 1 /\ (wire' = <<>> <=> n + 1 = L)
    BY NextByte
  <1>2. /\ msg \in MESSAGES /\ msg.bytes[L] = "CR"
        /\ \A i \in 1..(L - 1) : msg.bytes[i] \notin {"STX", "ENQ", "?", "CR"}
    BY DEF PortType, PlainMessages, Plain, PlainText, PlainLine
  <1>3. /\ ~in_frame /\ reply = "none"
        /\ console_overflow = (n > C)
        /\ console_line = Prefix(msg.bytes, IF console_overflow THEN C ELSE n)
    <2>1. CASE n = 0
      <3>1. ~in_frame /\ reply = "none" /\ console_line = <<>> /\ ~console_overflow
        BY <1>1, <2>1 DEF HostInv
      <3>2. Prefix(msg.bytes, 0) = <<>> /\ ~(n > C)
        BY <1>0, <1>1, <2>1, PrefixFacts
      <3>3. console_overflow \in BOOLEAN
        BY DEF PortType, TypeOK
      <3>4. console_overflow = (n > C)
        BY <3>1, <3>2, <3>3
      <3> QED BY <2>1, <3>1, <3>2, <3>4
    <2>2. CASE n # 0
      <3>1. wire # <<>>
        BY DEF fx_protocol_task
      <3> QED BY <1>1, <3>1 DEF LineInv
    <2> QED BY <2>1, <2>2
  <1> DEFINE k == IF console_overflow THEN C ELSE n
  <1>4. k \in 0..L /\ (console_overflow => k = C /\ n > C) /\ (~console_overflow => k = n /\ n <= C)
    <2>1. console_overflow <=> n > C
      BY <1>3
    <2>2. C \in Nat /\ n \in Nat /\ L \in Nat /\ n + 1 <= L
      BY <1>0, <1>1
    <2>3. k = IF console_overflow THEN C ELSE n
      OBVIOUS
    <2> HIDE DEF k, n, L, C
    <2>4. CASE console_overflow
      <3>1. k = C /\ n > C
        BY <2>1, <2>3, <2>4
      <3>2. k \in 0..L
        BY <2>2, <3>1
      <3> QED BY <2>4, <3>1, <3>2
    <2>5. CASE ~console_overflow
      <3>1. k = n /\ ~(n > C)
        BY <2>1, <2>3, <2>5
      <3>2. k \in 0..L /\ n <= C
        BY <2>2, <3>1
      <3> QED BY <2>5, <3>1, <3>2
    <2> QED BY <2>4, <2>5
  <1>5. console_line = Prefix(msg.bytes, k) /\ Len(console_line) = k /\ console_line \in Seq(Bytes)
    BY <1>1, <1>3, <1>4, PrefixFacts
  <1>6. b \notin {"STX", "ENQ", "?"} /\ (b = "CR" <=> n + 1 = L)
    <2>1. n + 1 = L \/ n + 1 \in 1..(L - 1)
      BY <1>1
    <2> QED BY <1>2, <2>1
  <1>7. console_char(b) /\ UNCHANGED port
    BY <1>1, <1>3, <1>6, WhoReceives
  <1> HIDE DEF k
  <1>8. CASE n + 1 # L
    <2>1. /\ IF room THEN console_line' = Append(console_line, b) /\ console_overflow' = console_overflow
             ELSE console_overflow' = TRUE /\ console_line' = console_line
          /\ wifi' = wifi /\ reply' = reply
      BY <1>6, <1>7, <1>8 DEF console_char, console_append
    <2>2. /\ ~in_frame' /\ reply' = "none"
      BY <1>3, <1>7, <2>1 DEF port
    <2>3. room <=> ~console_overflow /\ n < C
      BY <1>0, <1>1, <1>4, <1>5 DEF room
    <2>4. CASE ~console_overflow /\ n < C
      <3>1. console_line' = Append(Prefix(msg.bytes, n), b) /\ ~console_overflow' /\ n \in 0..(L - 1)
        BY <1>1, <1>4, <1>5, <2>1, <2>3, <2>4
      <3>2. console_line' = Prefix(msg.bytes, n + 1)
        BY <1>1, <3>1, PrefixFacts
      <3>3. console_overflow' = FALSE /\ ~(n + 1 > C)
        BY <1>0, <1>1, <2>1, <2>3, <2>4 DEF PortType, TypeOK
      <3>4. console_overflow' = (Received' > C)
        <4>1. (Received' > C) = FALSE
          BY <1>1, <3>3
        <4> QED BY <3>3, <4>1
      <3>5. console_line' = Prefix(msg'.bytes, IF console_overflow' THEN C ELSE Received')
        BY <1>1, <3>2, <3>3
      <3> QED BY <1>1, <1>8, <2>1, <2>2, <3>4, <3>5 DEF LineInv
    <2>5. CASE ~(~console_overflow /\ n < C)
      <3>1. console_line' = Prefix(msg.bytes, C) /\ console_overflow' = TRUE /\ n + 1 > C
        BY <1>0, <1>1, <1>4, <1>5, <2>1, <2>3, <2>5
      <3>2. console_overflow' = (Received' > C)
        BY <1>1, <3>1
      <3>3. console_line' = Prefix(msg'.bytes, IF console_overflow' THEN C ELSE Received')
        BY <1>1, <3>1
      <3> QED BY <1>1, <1>8, <2>1, <2>2, <3>2, <3>3 DEF LineInv
    <2> QED BY <2>4, <2>5
  <1>9. CASE n + 1 = L
    <2>1. console_execute
      BY <1>6, <1>7, <1>9 DEF console_char, console_end
    <2>2. Expected(msg') = Expected(msg) /\ wire' = <<>>
      BY <1>1, <1>9
    <2>3. SUFFICES /\ reply' = Expected(msg)
                   /\ \/ wifi' = wifi
                      \/ msg.kind = "line" /\ LegalLine(msg) /\ wifi' = <<msg.ssid, msg.key>>
      BY <2>2, <2>3 DEF LineInv
    <2>4. CASE msg.kind = "other"
      <3>1. \A i \in 1..L : msg.bytes[i] # "wifi"
        BY <1>2, <2>4 DEF PlainMessages, Plain
      <3>2. 1 <= Len(console_line) => console_line[1] = msg.bytes[1] /\ 1 \in 1..L
        BY <1>1, <1>4, <1>5, PrefixFacts
      <3>3. At(console_line, 1) # "wifi"
        <4>1. "NUL" # "wifi"
          OBVIOUS
        <4> QED BY <3>1, <3>2, <4>1, Zenon DEF At
      <3>4. Expected(msg) = "none"
        BY <2>4 DEF Expected
      <3> QED BY <1>3, <2>1, <3>3, <3>4 DEF console_execute
    <2>5. CASE msg.kind = "line"
      <3>1. msg.bytes[1] = "wifi"
        BY <1>2, <2>5 DEF PlainMessages, Plain, PlainLine
      <3>2. n # 0
        BY <1>2, <1>9, <3>1
      <3>3. 1 <= Len(console_line) /\ console_line[1] = "wifi"
        <4>1. k # 0
          BY <1>0, <1>4, <3>2
        <4>2. k \in 1..L
          BY <1>1, <1>4, <4>1
        <4> QED BY <1>1, <1>4, <1>5, <3>1, <4>2, PrefixFacts
      <3>4. At(console_line, 1) = "wifi"
        BY <3>3, Zenon DEF At
      <3> DEFINE line == Prefix(msg.bytes, L - 1)
      <3>5. /\ LegalLine(msg) <=> wifi_config_parse(line) # <<>>
            /\ LegalLine(msg) => wifi_config_parse(line) = <<msg.ssid, msg.key>> /\ Len(line) <= C
        BY <1>2, <2>5, LineParsed
      <3>6. Len(line) = n /\ n = L - 1
        BY <1>1, <1>9, PrefixFacts
      <3>7. ~console_overflow => console_line = line
        BY <1>4, <1>5, <3>6
      <3>8. LegalLine(msg) => ~console_overflow
        BY <1>0, <1>1, <1>4, <3>5, <3>6
      <3>9. usable <=> LegalLine(msg)
        BY <3>5, <3>7, <3>8 DEF usable
      <3>10. Expected(msg) = IF LegalLine(msg) THEN "stored" ELSE "refused"
        BY <2>5 DEF Expected
      <3>11. CASE LegalLine(msg)
        <4>1. wifi' = wifi_config_parse(console_line) /\ send("stored")
          BY <2>1, <3>4, <3>9, <3>11 DEF console_execute
        <4>2. wifi_config_parse(console_line) = <<msg.ssid, msg.key>>
          BY <3>5, <3>7, <3>8, <3>11
        <4> QED BY <1>3, <2>5, <3>10, <3>11, <4>1, <4>2 DEF send
      <3>12. CASE ~LegalLine(msg)
        <4>1. send("refused") /\ wifi' = wifi
          BY <2>1, <3>4, <3>9, <3>12 DEF console_execute
        <4> QED BY <1>3, <3>10, <3>12, <4>1 DEF send
      <3> QED BY <3>11, <3>12
    <2> QED BY <2>4, <2>5
  <1> QED BY <1>8, <1>9

\* The console line and what is stored from it.
LEMMA LineStep ==
    ASSUME PlainMessages, PortType, HostInv, LineInv, VerbInv, CredentialsTyped, [Next]_vars
    PROVE  LineInv' /\ CredentialsTyped'
  <1>0. VerbInv'
    BY VerbStep
  <1>1. CASE fx_protocol_task
    <2>1. ~cut /\ UNCHANGED <<msg, cut, at_rest, line_empty>>
      BY <1>1, NextByte
    <2>2. CASE at_rest /\ line_empty /\ msg.kind \in {"line", "other"}
      <3>1. LineInv'
        BY <1>1, <2>2, LineByte
      <3>2. \/ wifi' = wifi
            \/ msg.kind = "line" /\ LegalLine(msg) /\ wifi' = <<msg.ssid, msg.key>>
        BY <1>1, <2>2, LineByte
      <3>3. LegalLine(msg') = LegalLine(msg)
        BY <2>1
      <3>4. CredentialsTyped'
        BY <2>1, <2>2, <3>2, <3>3, Zenon DEF CredentialsTyped
      <3> QED BY <3>1, <3>4
    <2>3. CASE ~(at_rest /\ line_empty /\ msg.kind \in {"line", "other"})
      <3>1. LineInv'
        BY <2>1, <2>3 DEF LineInv
      <3>2. CredentialsTyped'
        BY <1>0, <2>1, <2>3, Zenon DEF VerbInv, NoVerb, CredentialsTyped
      <3> QED BY <3>1, <3>2
    <2> QED BY <2>2, <2>3
  <1>2. CASE ~fx_protocol_task
    <2>1. ASSUME UNCHANGED <<msg, line_empty, wifi>>
          PROVE  CredentialsTyped'
      <3>1. LegalLine(msg') = LegalLine(msg)
        BY <2>1
      <3> QED BY <2>1, <3>1, Zenon DEF CredentialsTyped
    <2>2. CASE /\ UNCHANGED <<msg, wire, cut, at_rest, line_empty, reply, wifi, console_line>>
               /\ UNCHANGED <<rx, in_frame, console_overflow>>
      <3>1. Received' = Received /\ Expected(msg') = Expected(msg)
        BY <2>2 DEF Received
      <3>2. LineInv'
        BY <2>2, <3>1, Zenon DEF LineInv
      <3> QED BY <2>1, <2>2, <3>2
    <2>3. CASE cut' /\ UNCHANGED <<msg, at_rest, line_empty, wifi, console_line>>
      BY <2>1, <2>3 DEF LineInv
    <2>4. ASSUME NEW m \in MESSAGES, msg' = m, wire' = m.bytes, reply' = "none", wifi' = <<>>,
                 at_rest' = ~in_frame, line_empty' = (console_line = <<>>),
                 UNCHANGED <<in_frame, console_line, console_overflow>>
          PROVE  LineInv' /\ CredentialsTyped'
      <3>1. m.bytes \in Seq(Bytes) /\ Len(m.bytes) \in Nat /\ m.bytes # <<>>
        BY FramingAssumption DEF PlainMessages, Plain
      <3>2. Received' = Len(m.bytes) - Len(m.bytes)
        BY <2>4 DEF Received
      <3>3. Received' = 0 /\ Prefix(m.bytes, 0) = <<>>
        BY <3>1, <3>2, PrefixFacts
      <3>4. (Received' > CONSOLE_LINE_MAX - 1) = FALSE
        BY <3>3, FramingAssumption
      <3>5. line_empty' => console_line' = <<>> /\ console_overflow' = FALSE
        BY <2>4 DEF HostInv, PortType, TypeOK
      <3>6. LineInv'
        BY <2>4, <3>1, <3>3, <3>4, <3>5 DEF LineInv
      <3> QED BY <2>4, <3>6 DEF CredentialsTyped
    <2> QED BY <1>2, <2>2, <2>3, <2>4, NoByte
  <1> QED BY <1>1, <1>2

\* Every step keeps the strengthening.
LEMMA AnswerStep == PlainMessages /\ PortType /\ AnswerInv /\ [Next]_vars => AnswerInv'
  BY HostStep, FrameStep, OverlongStep, ByteStep, VerbStep, LineStep DEF AnswerInv

\* It holds at power-up and decides every answer.
LEMMA AnswerInit == Init => AnswerInv
  <1>1. At(<<>>, 1) # "wifi"
    <2>1. Len(<<>>) = 0
      OBVIOUS
    <2>2. ~(1 <= Len(<<>>)) /\ "NUL" # "wifi"
      BY <2>1
    <2> QED BY <2>2, Zenon DEF At
  <1> QED BY <1>1 DEF Init, AnswerInv, HostInv, FrameInv, OverlongInv, ByteInv, LineInv, VerbInv,
                       NoVerb, CredentialsTyped

\* The invariant decides the answer once the wire is empty and the port at rest.
LEMMA AnswerDecides == PlainMessages /\ PortType /\ AnswerInv => Answered
  <1> SUFFICES ASSUME PlainMessages, PortType, AnswerInv, wire = <<>>, ~cut,
                      (at_rest /\ line_empty) \/ msg.kind \in {"read", "write", "bad"}
               PROVE  reply = Expected(msg)
    BY DEF Answered
  <1>1. msg \in Message /\ msg.bytes # <<>> /\ msg.bytes \in Seq(Bytes)
    BY DEF PortType, PlainMessages, Plain, Message
  <1>2. Received > 0
    <2>1. Len(<<>>) = 0 /\ Len(msg.bytes) \in Nat \ {0}
      BY <1>1
    <2> QED BY <2>1 DEF Received
  <1>3. CASE msg.kind \in {"read", "write", "bad"}
    BY <1>2, <1>3 DEF AnswerInv, FrameInv
  <1>4. CASE at_rest /\ msg.kind \in {"enq", "dump"}
    BY <1>4 DEF AnswerInv, ByteInv
  <1>5. CASE at_rest /\ line_empty /\ msg.kind \in {"line", "other"}
    BY <1>5 DEF AnswerInv, LineInv
  <1>6. CASE msg.kind = "overlong"
    BY <1>6 DEF AnswerInv, OverlongInv, Expected
  <1>7. msg.kind \in {"read", "write", "bad", "overlong", "enq", "dump", "line", "other"}
    BY <1>1 DEF Message
  <1> QED BY <1>3, <1>4, <1>5, <1>6, <1>7

\* The strengthening in every reachable state.
LEMMA AnswerCorrect == PlainMessages => (Spec => []AnswerInv)
  <1> SUFFICES ASSUME PlainMessages PROVE Spec => []AnswerInv
    OBVIOUS
  <1>1. PortType /\ AnswerInv /\ [Next]_vars => AnswerInv'
    BY AnswerStep
  <1>2. Spec => []PortType
    BY PortCorrect, PTL
  <1> QED BY <1>1, <1>2, AnswerInit, PTL DEF Spec

\* For buffers of any size and any plain messages, a frame sent whole is
\* answered exactly once and as it deserves, whatever was left unfinished on
\* the port before it; so are ENQ, '?' and a console line on a port at rest.
THEOREM EveryoneAnswered == PlainMessages => (Spec => []Answered)
  <1> SUFFICES ASSUME PlainMessages PROVE Spec => []Answered
    OBVIOUS
  <1>1. PortType /\ AnswerInv => Answered
    BY AnswerDecides
  <1>2. Spec => [](PortType /\ AnswerInv)
    BY PortCorrect, AnswerCorrect, PTL
  <1> QED BY <1>1, <1>2, PTL

\* For lines, keys and buffers of any size, credentials are stored exactly as
\* typed or not at all: never from a truncated line, nor from one whose head an
\* unfinished frame ate.
THEOREM CredentialsAsTyped == PlainMessages => (Spec => []CredentialsTyped)
  <1> SUFFICES ASSUME PlainMessages PROVE Spec => []CredentialsTyped
    OBVIOUS
  <1>1. AnswerInv => CredentialsTyped
    BY DEF AnswerInv
  <1> QED BY <1>1, AnswerCorrect, PTL

==============================================================================
