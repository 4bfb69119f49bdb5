------------------------------ MODULE FxFraming ------------------------------
(***************************************************************************)
(* fx_protocol_task: the bytes of one USB serial port shared by GX Works   *)
(* (ENQ and STX ... ETX SS frames) and a person at a terminal ('?' and     *)
(* "wifi <ssid> <key>" lines), against a host that may stop in the middle  *)
(* of anything it sends.                                                   *)
(*                                                                         *)
(* A byte is one of the classes the code tells apart.  "wifi" is one byte  *)
(* here, and the hex digits are "0" and "1"; the two sum characters carry  *)
(* the sum modulo 4.  What an accepted frame does is FxProtocol's and      *)
(* FxMonitor's subject; here it is answered.                               *)
(***************************************************************************)
EXTENDS Naturals, Sequences, SequencesExt, FiniteSetsExt

CONSTANTS
    FX_BUF_SIZE, CONSOLE_LINE_MAX, TRACE_FRAMES, TRACE_BYTES,
    ROUTINE_LEN,                \* 7: a longer accepted read is routine
    WIFI_KEY_MIN, WIFI_SSID_SIZE, WIFI_KEY_SIZE,
    MESSAGES,                   \* what the host sends: see Message
    MAX_CUTS                    \* bound on messages given up half way

Bytes == {"STX", "ETX", "ENQ", "?", "CR", " ", "wifi", "0", "1"}

ASSUME FramingAssumption ==
    /\ FX_BUF_SIZE \in Nat \ {0} /\ CONSOLE_LINE_MAX \in Nat \ {0, 1}
    /\ TRACE_FRAMES \in Nat \ {0} /\ TRACE_BYTES \in Nat
    /\ WIFI_KEY_MIN \in Nat \ {0} /\ WIFI_SSID_SIZE \in Nat /\ WIFI_KEY_SIZE \in Nat
    /\ \A m \in MESSAGES : m.bytes \in Seq(Bytes)
    /\ \E m \in MESSAGES : m.kind = "enq"

VARIABLES
    rx, in_frame,
    console_line, console_overflow,
    trace, trace_head, trace_count,
    wifi,                       \* what this message gave plc_storage_wifi_set, or <<>>
    \* The host: what it is sending, the bytes still to come, whether it gave
    \* up, whether it found the port outside a frame and the console line empty
    \* when it began, the reply it got, and whether it is repeating ENQ to
    \* reopen the link.
    msg, wire, cut, at_rest, line_empty, reply, connecting,
    cuts,                       \* counted for the bound
    kept                        \* auxiliary: the last frames worth keeping

port == <<rx, in_frame>>
console == <<console_line, console_overflow, wifi>>
ring == <<trace, trace_head, trace_count, kept>>
found == <<at_rest, line_empty>>
host == <<msg, cut, found, connecting, cuts>>
vars == <<port, console, ring, host, wire, reply>>

Digits == {"0", "1"}
Weight == [b \in Bytes |-> CASE b = "1" -> 2 [] b \in {"0", "ETX"} -> 1 [] OTHER -> 3]

checksum(s) == FoldSeq(LAMBDA b, sum : sum + Weight[b], 0, s) % 4
hex_value(b) == IF b = "1" THEN 1 ELSE 0
Sum(s) == LET c == checksum(s) IN
    <<IF c >= 2 THEN "1" ELSE "0", IF c % 2 = 1 THEN "1" ELSE "0">>

\* What the host may send: a frame, ENQ, '?', or a line that means to set ssid
\* and key.  A frame of kind "read" or "write" is well formed.
Message == [kind : {"read", "write", "bad", "overlong", "enq", "dump", "line", "other"},
            bytes : Seq(Bytes), ssid : Seq(Bytes), key : Seq(Bytes)]

enq == CHOOSE m \in MESSAGES : m.kind = "enq"

Init ==
    /\ rx = <<>> /\ in_frame = FALSE
    /\ console_line = <<>> /\ console_overflow = FALSE /\ wifi = <<>>
    /\ trace = [i \in 0..(TRACE_FRAMES - 1) |-> <<>>]
    /\ trace_head = 0 /\ trace_count = 0 /\ kept = <<>>
    /\ msg = enq /\ wire = <<>> /\ cut = TRUE /\ cuts = 0
    /\ at_rest = TRUE /\ line_empty = TRUE
    /\ reply = "none" /\ connecting = TRUE

-----------------------------------------------------------------------------
\* trace_record

\* An accepted command '0' repeats for ever in Monitor Mode and is dropped (as
\* are the two E frames of the same kind).
routine(f, ok) == ok /\ Len(f) > ROUTINE_LEN /\ f[1] = "STX" /\ f[2] = "0"

Entry(f, ok) ==
    [data |-> SubSeq(f, 1, Min({Len(f), TRACE_BYTES})), truncated |-> Len(f) > TRACE_BYTES, ok |-> ok]

LastOf(s) == IF Len(s) > TRACE_FRAMES THEN Tail(s) ELSE s

\* Mutant of trace_count_after: the count runs past the ring.
trace_count_after_full == trace_count + 1
trace_count_after == IF trace_count < TRACE_FRAMES THEN trace_count + 1 ELSE trace_count

trace_record(f, ok) ==
    IF routine(f, ok) THEN UNCHANGED ring
    ELSE /\ trace' = [trace EXCEPT ![trace_head] = Entry(f, ok)]
         /\ trace_head' = (trace_head + 1) % TRACE_FRAMES
         /\ trace_count' = trace_count_after
         /\ kept' = LastOf(Append(kept, Entry(f, ok)))

\* trace_dump prints this, oldest first.
dumped ==
    LET start == (trace_head + TRACE_FRAMES - trace_count) % TRACE_FRAMES
    IN [k \in 1..trace_count |-> trace[(start + k - 1) % TRACE_FRAMES]]

-----------------------------------------------------------------------------
\* Frames

send(r) == reply' = IF reply = "none" THEN r ELSE "several"

\* The sum check and the dispatch: a frame is answered with data, ACK or NAK.
handle_frame(f) ==
    LET etx == Len(f) - 2
    IN CASE Len(f) < 5 -> "NAK"
         [] \E i \in {etx + 1, etx + 2} : f[i] \notin Digits -> "NAK"
         [] checksum(SubSeq(f, 2, etx)) # 2 * hex_value(f[etx + 1]) + hex_value(f[etx + 2]) -> "NAK"
         [] f[2] = "0" -> "data"
         [] f[2] = "1" -> "ACK"
         [] OTHER -> "NAK"

frame_ends(f) == Len(f) >= 4 /\ f[Len(f) - 2] = "ETX"

\* Mutant of overlong: a full buffer ignores the byte and waits for more.
overlong_waits == UNCHANGED port
overlong == in_frame' = FALSE /\ rx' = <<>>

frame_char(f) ==
    IF frame_ends(f)
    THEN /\ in_frame' = FALSE /\ rx' = <<>>
         /\ send(handle_frame(f))
         /\ trace_record(f, handle_frame(f) # "NAK")
    ELSE in_frame' = TRUE /\ rx' = f /\ UNCHANGED <<ring, reply>>

-----------------------------------------------------------------------------
\* The console

At(line, p) == IF p <= Len(line) THEN line[p] ELSE "NUL"
skip_spaces(line, p) == Min({i \in p..(Len(line) + 1) : At(line, i) # " "})
token_end(line, p) == Min({i \in p..(Len(line) + 1) : At(line, i) \in {" ", "NUL"}})

\* wifi_config_parse: <<ssid, key>>, or <<>> for a line it refuses.
wifi_config_parse(line) ==
    LET s == skip_spaces(line, 2)
        s_end == token_end(line, s)
        k == skip_spaces(line, s_end)
        k_end == token_end(line, k)
    IN IF /\ At(line, 1) = "wifi" /\ At(line, 2) = " "
          /\ s_end - s \in 1..(WIFI_SSID_SIZE - 1)
          /\ k_end - k \in WIFI_KEY_MIN..(WIFI_KEY_SIZE - 1)
          /\ skip_spaces(line, k_end) = Len(line) + 1
       THEN <<SubSeq(line, s, s_end - 1), SubSeq(line, k, k_end - 1)>>
       ELSE <<>>

\* Mutant of usable: an overflowed line is cut at the buffer's end and parsed.
usable_cut == wifi_config_parse(console_line) # <<>>
usable == ~console_overflow /\ wifi_config_parse(console_line) # <<>>

\* Only a line that begins with the verb gets an answer.
console_execute ==
    IF At(console_line, 1) # "wifi" THEN UNCHANGED <<wifi, reply>>
    ELSE IF usable THEN wifi' = wifi_config_parse(console_line) /\ send("stored")
    ELSE send("refused") /\ UNCHANGED wifi

console_end ==
    /\ console_execute
    /\ console_line' = <<>> /\ console_overflow' = FALSE

\* Mutant of room: none is left for the terminator.
room_unterminated == Len(console_line) < CONSOLE_LINE_MAX
room == Len(console_line) < CONSOLE_LINE_MAX - 1

console_append(b) ==
    /\ IF room
       THEN console_line' = Append(console_line, b) /\ UNCHANGED console_overflow
       ELSE console_overflow' = TRUE /\ UNCHANGED console_line
    /\ UNCHANGED <<wifi, reply>>

console_char(b) == IF b = "CR" THEN console_end ELSE console_append(b)

-----------------------------------------------------------------------------
\* fx_protocol_task, one byte.

\* Mutant of Restart: STX inside a frame is one more byte of it.
Restart_appended(b) == b = "STX" /\ ~in_frame
Restart(b) == b = "STX"

ReceiveEnq(b) ==
    /\ b = "ENQ" /\ ~in_frame
    /\ trace_record(<<b>>, TRUE) /\ send("ACK")
    /\ UNCHANGED <<port, console>>

ReceiveDump(b) ==
    /\ b = "?" /\ ~in_frame
    /\ send("dump")
    /\ UNCHANGED <<port, console, ring>>

ReceiveConsole(b) ==
    /\ b \notin {"ENQ", "?", "STX"} /\ ~in_frame
    /\ console_char(b)
    /\ UNCHANGED <<port, ring>>

ReceiveStart(b) ==
    /\ Restart(b)
    /\ frame_char(<<b>>)
    /\ UNCHANGED console

ReceiveFrame(b) ==
    /\ in_frame /\ ~Restart(b)
    /\ IF Len(rx) >= FX_BUF_SIZE THEN overlong /\ UNCHANGED <<ring, reply>>
       ELSE frame_char(Append(rx, b))
    /\ UNCHANGED console

fx_protocol_task ==
    /\ wire # <<>>
    /\ wire' = Tail(wire)
    /\ \/ ReceiveEnq(Head(wire)) \/ ReceiveDump(Head(wire)) \/ ReceiveConsole(Head(wire))
       \/ ReceiveStart(Head(wire)) \/ ReceiveFrame(Head(wire))
    /\ UNCHANGED host

-----------------------------------------------------------------------------
\* The host

Begin(m) ==
    /\ wire = <<>>
    /\ msg' = m /\ wire' = m.bytes /\ cut' = FALSE /\ reply' = "none"
    /\ at_rest' = ~in_frame /\ line_empty' = (console_line = <<>>)
    /\ wifi' = <<>>
    /\ UNCHANGED <<port, console_line, console_overflow, ring, connecting, cuts>>

Send(m) == ~connecting /\ Begin(m)

\* It asks for the link again until it is acknowledged.
Poll == connecting /\ reply # "ACK" /\ Begin(enq)

Linked ==
    /\ connecting /\ wire = <<>> /\ reply = "ACK"
    /\ connecting' = FALSE
    /\ UNCHANGED <<port, console, ring, msg, cut, cuts, found, wire, reply>>

\* The port is closed in the middle of a message: the rest is never sent.
Cut ==
    /\ wire # <<>> /\ wire # msg.bytes
    /\ cuts < MAX_CUTS /\ cuts' = cuts + 1
    /\ wire' = <<>> /\ cut' = TRUE
    /\ UNCHANGED <<port, console, ring, msg, found, reply, connecting>>

\* GX Works opens the port.
Reopen ==
    /\ ~connecting /\ wire = <<>>
    /\ connecting' = TRUE /\ reply' = "none" /\ cut' = TRUE
    /\ UNCHANGED <<port, console, ring, msg, found, wire, cuts>>

Next ==
    \/ fx_protocol_task
    \/ \E m \in MESSAGES : Send(m)
    \/ Poll \/ Linked \/ Cut \/ Reopen

Spec == Init /\ [][Next]_vars

\* The main loop drains the port on every turn; GX Works repeats an ENQ that
\* is not acknowledged.
FairSpec == Spec /\ WF_vars(fx_protocol_task) /\ WF_vars(Poll) /\ WF_vars(Linked)

-----------------------------------------------------------------------------

\* The buffers of the port, the console and the tracer are never overrun.
TypeOK ==
    /\ Len(rx) <= FX_BUF_SIZE /\ in_frame \in BOOLEAN
    /\ Len(console_line) <= CONSOLE_LINE_MAX - 1 /\ console_overflow \in BOOLEAN
    /\ trace_head \in 0..(TRACE_FRAMES - 1) /\ trace_count \in 0..TRACE_FRAMES
    /\ reply \in {"none", "ACK", "NAK", "data", "dump", "stored", "refused", "several"}

LegalLine(m) ==
    /\ Len(m.ssid) \in 1..(WIFI_SSID_SIZE - 1)
    /\ Len(m.key) \in WIFI_KEY_MIN..(WIFI_KEY_SIZE - 1)

Expected(m) ==
    CASE m.kind = "read" -> "data"
      [] m.kind \in {"write", "enq"} -> "ACK"
      [] m.kind = "bad" -> "NAK"
      [] m.kind = "dump" -> "dump"
      [] m.kind = "line" -> IF LegalLine(m) THEN "stored" ELSE "refused"
      [] OTHER -> "none"

\* A frame sent whole is answered exactly once and as it deserves, whatever was
\* left unfinished on the port before it (a frame cut anywhere, an overlong
\* one, half a console line); ENQ, '?' and a console line are when they found
\* the port at rest.
Answered ==
    wire = <<>> /\ ~cut /\ ((at_rest /\ line_empty) \/ msg.kind \in {"read", "write", "bad"})
        => reply = Expected(msg)

\* A line begun on an empty buffer stores its credentials exactly as they were
\* typed or not at all: never what is left of a line the buffer truncated, nor
\* of one whose first bytes an unfinished frame ate ("refused rather than
\* truncated into a credential that would fail later").
CredentialsTyped ==
    wifi # <<>> /\ line_empty
        => msg.kind = "line" /\ LegalLine(msg) /\ wifi = <<msg.ssid, msg.key>>

\* The dump shows the last frames worth keeping, oldest first, whatever the
\* position of the ring: the frame at which a download gave up is in it.
TraceIsTail == dumped = kept

\* A host that asks for the link until it is acknowledged gets it, also after
\* a frame cut short, whose unfinished buffer swallows its first ENQs.
LinkRecovers == connecting ~> ~connecting
-----------------------------------------------------------------------------
\* What the theorems of FxFramingProofs take a host to send.  MCFxFraming
\* evaluates it for the messages of its runs.

Prefix(s, n) == SubSeq(s, 1, n)

\* "wifi <ssid> <key>": the ssid lies from s to t - 1 and the key from k to
\* u - 1, with nothing but spaces around them.
Reads(line, s, t, k, u) ==
    /\ At(line, 1) = "wifi" /\ 2 < s /\ s < t /\ t < k /\ k < u /\ u <= Len(line) + 1
    /\ \A i \in (2..(s - 1)) \cup (t..(k - 1)) \cup (u..Len(line)) : line[i] = " "
    /\ \A i \in (s..(t - 1)) \cup (k..(u - 1)) : line[i] # " "

LegalSizes(ssid_len, key_len) ==
    ssid_len \in 1..(WIFI_SSID_SIZE - 1) /\ key_len \in WIFI_KEY_MIN..(WIFI_KEY_SIZE - 1)

\* A frame that fits the buffer and ends where its check characters end.
PlainFrame(m) ==
    /\ Len(m.bytes) <= FX_BUF_SIZE /\ m.bytes[1] = "STX"
    /\ \A i \in 2..Len(m.bytes) : m.bytes[i] # "STX"
    /\ \A n \in 1..Len(m.bytes) : frame_ends(Prefix(m.bytes, n)) <=> n = Len(m.bytes)
    /\ handle_frame(m.bytes) = Expected(m)

\* One that does not, and is given up as it stands.
PlainOverlong(m) ==
    /\ m.bytes[1] = "STX" /\ \A i \in 2..Len(m.bytes) : m.bytes[i] \notin {"STX", "ENQ", "?", "CR"}
    /\ \A n \in 1..Len(m.bytes) : n <= FX_BUF_SIZE => ~frame_ends(Prefix(m.bytes, n))

\* A line of text without the bytes the port claims for itself.
PlainText(m) ==
    /\ m.bytes[Len(m.bytes)] = "CR"
    /\ \A i \in 1..(Len(m.bytes) - 1) : m.bytes[i] \notin {"STX", "ENQ", "?", "CR"}

\* A command, with the ssid and the key it means to set if it is a legal one.
PlainLine(m) ==
    LET line == Prefix(m.bytes, Len(m.bytes) - 1)
        Places == 1..(Len(line) + 1)
    IN  /\ PlainText(m) /\ m.bytes[1] = "wifi"
        /\ \A s, t, k, u \in Places :
              Reads(line, s, t, k, u) /\ LegalSizes(t - s, u - k)
                 => m.ssid = SubSeq(line, s, t - 1) /\ m.key = SubSeq(line, k, u - 1)
        /\ LegalLine(m) =>
              /\ Len(line) <= CONSOLE_LINE_MAX - 1
              /\ \E s, t, k, u \in Places :
                    /\ Reads(line, s, t, k, u)
                    /\ m.ssid = SubSeq(line, s, t - 1) /\ m.key = SubSeq(line, k, u - 1)

\* The verb stands nowhere but at the head of a command.
Plain(m) ==
    /\ m \in Message /\ m.bytes # <<>>
    /\ \A i \in 1..Len(m.bytes) : m.bytes[i] = "wifi" => i = 1 /\ m.kind = "line"
    /\ m.kind \in {"read", "write", "bad"} => PlainFrame(m)
    /\ m.kind = "overlong" => PlainOverlong(m)
    /\ m.kind = "enq" => m.bytes = <<"ENQ">>
    /\ m.kind = "dump" => m.bytes = <<"?">>
    /\ m.kind = "line" => PlainLine(m)
    /\ m.kind = "other" => PlainText(m)

PlainMessages == \A m \in MESSAGES : Plain(m)

==============================================================================
