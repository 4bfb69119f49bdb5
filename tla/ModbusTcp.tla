------------------------------ MODULE ModbusTcp ------------------------------
(***************************************************************************)
(* modbus_tcp.c: CONNS connection slots served from lwIP callbacks, on     *)
(* top of Net.  Clients connect, send, close and vanish in any order; TCP  *)
(* cuts and joins what they send as it likes.                              *)
(*                                                                         *)
(* A stream is a sequence of units of UNIT bytes, each <<adu, k>>: the     *)
(* k-th unit of a frame.  Clients keep the length field true to what they  *)
(* send, or send one that is impossible.                                   *)
(***************************************************************************)
EXTENDS ModbusPdu, Net, FiniteSetsExt, SequencesExt

CONSTANTS
    CLIENTS, NoClient,  \* remote ends
    CONNS,              \* MODBUS_TCP_CONNS, 4 in the code
    UNIT,               \* bytes per unit; 6 is a multiple of it
    FRAMES,             \* what clients send: [proto, q]
    MAX_SENT            \* bound on frames sent

ASSUME TcpAssumption ==
    /\ NoClient \notin CLIENTS
    /\ CONNS \in Nat \ {0} /\ UNIT \in 1..6 /\ 6 % UNIT = 0 /\ MAX_SENT \in Nat
    /\ \A f \in FRAMES : f.q.len \in Nat

VARIABLES
    mem,
    conns,     \* [pcb, buf] per slot; len is the length of buf
    arg,       \* per client: the slot its pcb's callbacks carry, 0 if it has no pcb
    wire,      \* sent by the client, not delivered yet
    fin,       \* the client has closed its end
    busy,      \* the slot whose consume() is running, 0 if none
    replies,   \* answers sent in the session
    sent       \* frames sent so far: the transaction ids, and a bound

tcp == <<conns, arg, wire, fin, busy, replies>>
vars == <<mem, network, tcp, sent>>

Units(bytes) == (bytes + UNIT - 1) \div UNIT
HEADER == Units(6)
ADU_MAX == Units(6 + MODBUS_PDU_MAX)
FrameUnits(adu) == HEADER + Units(adu.q.len)
Stream(adu) == [k \in 1..FrameUnits(adu) |-> <<adu, k>>]

Slots == 1..CONNS
FreeSlot == [pcb |-> NoClient, buf |-> << >>]

Each(v) == [c \in CLIENTS |-> v]
NoConnections == [i \in Slots |-> FreeSlot]

Init ==
    /\ mem = plc_memory_init /\ NetInit
    /\ conns = NoConnections /\ busy = 0 /\ sent = 0
    /\ arg = Each(0) /\ wire = Each(<< >>) /\ fin = Each(FALSE) /\ replies = Each(<< >>)

\* lwIP delivers callbacks from cyw43_arch_poll, one after the other.
Callback == Polling /\ busy = 0 /\ UNCHANGED network

\* The pcb of c is gone on the server's side and the session with it.
Gone(c) ==
    /\ arg' = [arg EXCEPT ![c] = 0]
    /\ wire' = [wire EXCEPT ![c] = << >>]
    /\ fin' = [fin EXCEPT ![c] = FALSE]
    /\ replies' = [replies EXCEPT ![c] = << >>]

\* Mutant of forget: on_error clears the buffer and leaves the pcb.
forget_pcb_kept(i) == conns' = [conns EXCEPT ![i].buf = << >>]
forget(i) == conns' = [conns EXCEPT ![i] = FreeSlot]

release(i) == forget(i) /\ Gone(conns[i].pcb)

free_slots == {i \in Slots : conns[i].pcb = NoClient}

on_accept(c) ==
    /\ Callback /\ listener /\ arg[c] = 0
    /\ IF free_slots = {} THEN UNCHANGED <<conns, arg>>   \* tcp_abort
       ELSE LET i == Min(free_slots)
            IN  /\ conns' = [conns EXCEPT ![i] = [pcb |-> c, buf |-> << >>]]
                /\ arg' = [arg EXCEPT ![c] = i]
    /\ UNCHANGED <<mem, wire, fin, busy, replies, sent>>

overrun(buf, n) == n > ADU_MAX - Len(buf)

\* on_recv with data: n units in one pbuf chain, copied if they fit.
on_recv(c, n) ==
    /\ Callback /\ arg[c] # 0 /\ n \in 1..Len(wire[c])
    /\ LET i == arg[c]
       IN  IF overrun(conns[i].buf, n)
           THEN release(i) /\ UNCHANGED busy
           ELSE /\ conns' = [conns EXCEPT ![i].buf = @ \o SubSeq(wire[c], 1, n)]
                /\ wire' = [wire EXCEPT ![c] = SubSeq(@, n + 1, Len(@))]
                /\ busy' = i
                /\ UNCHANGED <<arg, fin, replies>>
    /\ UNCHANGED <<mem, sent>>

\* on_recv without data: the client closed and everything before is delivered.
on_recv_closed(c) ==
    /\ Callback /\ arg[c] # 0 /\ fin[c] /\ wire[c] = << >>
    /\ release(arg[c])
    /\ UNCHANGED <<mem, busy, sent>>

\* A reset or a timeout; lwIP has freed the pcb.
on_error(c) ==
    /\ Callback /\ arg[c] # 0
    /\ forget(arg[c]) /\ Gone(c)
    /\ UNCHANGED <<mem, busy, sent>>

rest(buf, total) == SubSeq(buf, total + 1, Len(buf))

\* Mutant of complete: the header is enough.
complete_header(buf) == TRUE
complete(buf) == Len(buf) >= FrameUnits(buf[1][1])

\* How the loop of consume() goes on.
verdict(buf) ==
    IF Len(buf) < HEADER THEN "wait"
    ELSE IF buf[1][1].q.len = 0 \/ buf[1][1].q.len > MODBUS_PDU_MAX THEN "impossible"
    ELSE IF complete(buf) THEN "execute" ELSE "wait"

consume_wait ==
    /\ busy # 0 /\ verdict(conns[busy].buf) = "wait"
    /\ busy' = 0
    /\ UNCHANGED <<mem, network, conns, arg, wire, fin, replies, sent>>

\* Without a boundary to trust the connection ends.
consume_impossible ==
    /\ busy # 0 /\ verdict(conns[busy].buf) = "impossible"
    /\ release(busy) /\ busy' = 0
    /\ UNCHANGED <<mem, network, sent>>

\* Mutant of again: one frame per callback.
again_never == busy' = 0
\* The loop goes on with what is left in the buffer.
again == UNCHANGED busy

\* One turn of the loop; sent_ok is FALSE when tcp_write has no memory for the
\* answer.
consume_frame(sent_ok) ==
    /\ busy # 0 /\ verdict(conns[busy].buf) = "execute"
    /\ LET buf == conns[busy].buf
           c == conns[busy].pcb
           adu == buf[1][1]
       IN  /\ mem' = modbus_tcp_adu_exec(mem, adu).mem
           /\ IF sent_ok
              THEN /\ replies' = [replies EXCEPT ![c] = @ \o answer(mem, adu)]
                   /\ conns' = [conns EXCEPT ![busy].buf = rest(buf, FrameUnits(adu))]
                   /\ again /\ UNCHANGED <<arg, wire, fin>>
              ELSE answer(mem, adu) # << >> /\ release(busy) /\ busy' = 0
    /\ UNCHANGED <<network, sent>>

consume == consume_wait \/ consume_impossible \/ \E sent_ok \in BOOLEAN : consume_frame(sent_ok)

(***************************************************************************)
(* The clients and the power                                               *)
(***************************************************************************)

Send(c, f) ==
    /\ arg[c] # 0 /\ ~fin[c] /\ busy = 0
    /\ sent < MAX_SENT /\ sent' = sent + 1
    /\ wire' = [wire EXCEPT ![c] = @ \o Stream([tid |-> sent + 1, proto |-> f.proto, q |-> f.q])]
    /\ UNCHANGED <<mem, network, conns, arg, fin, busy, replies>>

Close(c) ==
    /\ arg[c] # 0 /\ ~fin[c] /\ busy = 0
    /\ fin' = [fin EXCEPT ![c] = TRUE]
    /\ UNCHANGED <<mem, network, conns, arg, wire, busy, replies, sent>>

PowerCycle ==
    /\ mem' = plc_memory_init /\ NetReboot
    /\ conns' = NoConnections /\ busy' = 0
    /\ arg' = Each(0) /\ wire' = Each(<< >>) /\ fin' = Each(FALSE) /\ replies' = Each(<< >>)
    /\ UNCHANGED sent

NetTask == busy = 0 /\ (net_task \/ LinkChange) /\ UNCHANGED <<mem, tcp, sent>>

Next ==
    \/ NetTask \/ consume \/ PowerCycle
    \/ \E c \in CLIENTS :
          \/ on_accept(c) \/ on_recv_closed(c) \/ on_error(c) \/ Close(c)
          \/ \E n \in 1..Len(wire[c]) : on_recv(c, n)
          \/ \E f \in FRAMES : Send(c, f)

Spec == Init /\ [][Next]_vars

\* TCP delivers what was sent or reports an error, the main loop calls net_task
\* on every turn, and consume() runs to its end.
FairSpec ==
    /\ Spec /\ WF_vars(consume)
    /\ \A c \in CLIENTS :
          WF_vars(wire[c] # << >> /\ ((\E n \in 1..Len(wire[c]) : on_recv(c, n)) \/ on_error(c)))

(***************************************************************************)
(* Properties                                                              *)
(***************************************************************************)

\* Slots and live connections match one to one: no slot keeps a pcb that lwIP
\* has freed, none is lost, no two clients share one, and a client is refused
\* only when CONNS others are connected.  No buffer outgrows an ADU.
SlotsExact ==
    /\ \A c \in CLIENTS : arg[c] # 0 => conns[arg[c]].pcb = c
    /\ \A i \in Slots : conns[i].pcb # NoClient => arg[conns[i].pcb] = i
    /\ \A i \in Slots : Len(conns[i].buf) <= ADU_MAX
    /\ free_slots = {} => Cardinality({c \in CLIENTS : arg[c] # 0}) = CONNS

\* Clients are connected only while the network is up, and it is up only with
\* a listener.
UpMeansListening == (net = "UP" <=> listener) /\ \A c \in CLIENTS : arg[c] # 0 => net = "UP"

\* The requests in a stream, each counted where its last unit is.
RequestsUpTo(s) ==
    LET R[i \in 0..Len(s)] ==
          IF i = 0 THEN << >>
          ELSE IF s[i][2] = FrameUnits(s[i][1]) THEN Append(R[i - 1], s[i][1]) ELSE R[i - 1]
    IN  R
Requests(s) == RequestsUpTo(s)[Len(s)]

\* A client's unconsumed stream, and the requests in it.
InFlight(c) == (IF arg[c] = 0 THEN << >> ELSE conns[arg[c]].buf) \o wire[c]
Pending(c) == Requests(InFlight(c))

\* The server keeps its promise to clients.
Service == INSTANCE ModbusService WITH pending <- [c \in CLIENTS |-> Pending(c)]
ImplementsService == Service!ServiceSpec

\* A request that was sent is executed, or lost with its connection; it does
\* not wait for ever behind others.
Waits(c, tid) == \E k \in 1..Len(Pending(c)) : Pending(c)[k].tid = tid
Consumed == \A c \in CLIENTS, tid \in 1..MAX_SENT : Waits(c, tid) ~> ~Waits(c, tid)

(***************************************************************************)
(* Inductive strengthenings, used by ModbusTcpProofs                       *)
(***************************************************************************)

Adus == [tid : Nat, proto : {f.proto : f \in FRAMES}, q : {f.q : f \in FRAMES}]
StreamType == Seq(Adus \X Nat)

TcpTypeOK ==
    /\ conns \in [Slots -> [pcb : CLIENTS \union {NoClient}, buf : StreamType]]
    /\ arg \in [CLIENTS -> 0..CONNS]
    /\ wire \in [CLIENTS -> StreamType]
    /\ busy \in 0..CONNS
    /\ sent \in Nat

\* Slots and pcbs point at each other, consume() runs on a slot that has its
\* client, and the buffers fit.
SlotsInv ==
    /\ \A c \in CLIENTS : arg[c] # 0 => conns[arg[c]].pcb = c
    /\ \A i \in Slots : conns[i].pcb # NoClient => arg[conns[i].pcb] = i
    /\ busy # 0 => conns[busy].pcb # NoClient
    /\ \A i \in Slots : Len(conns[i].buf) <= ADU_MAX

\* Every unit of a stream lies in a whole frame.
Framed(s) ==
    \A p \in 1..Len(s) :
        LET adu == s[p][1]
            before == p - s[p][2]
        IN  /\ s[p][2] \in 1..FrameUnits(adu)
            /\ before \in Nat /\ before + FrameUnits(adu) <= Len(s)
            /\ \A j \in 1..FrameUnits(adu) : s[before + j] = <<adu, j>>

\* A slot's buffer begins where a frame begins, wherever TCP cut the stream.
StreamsFramed == \A c \in CLIENTS : Framed(InFlight(c))

==============================================================================
