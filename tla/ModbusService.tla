---------------------------- MODULE ModbusService ----------------------------
(***************************************************************************)
(* What the Modbus server promises its clients: the requests of a session  *)
(* are executed one at a time, in the order sent, each at most once and    *)
(* completely before any other request runs, and each answer follows the   *)
(* one before.  A session may end at any time; then the requests not yet   *)
(* executed never are.                                                     *)
(***************************************************************************)
EXTENDS ModbusPdu

CONSTANT CLIENTS

VARIABLES
    mem,      \* device memory
    pending,  \* requests sent in the session, not executed yet
    replies   \* answers sent in the session

service == <<mem, pending, replies>>

ServiceInit ==
    /\ mem = plc_memory_init
    /\ pending = [c \in CLIENTS |-> << >>]
    /\ replies = [c \in CLIENTS |-> << >>]

\* Any request at all joins the end of the queue.
Submit(c) ==
    /\ Len(pending'[c]) = Len(pending[c]) + 1
    /\ pending' = [pending EXCEPT ![c] = Append(@, pending'[c][Len(@) + 1])]
    /\ UNCHANGED <<mem, replies>>

Serve(c) ==
    /\ pending[c] # << >>
    /\ LET adu == Head(pending[c])
       IN  /\ mem' = modbus_tcp_adu_exec(mem, adu).mem
           /\ replies' = [replies EXCEPT ![c] = @ \o answer(mem, adu)]
    /\ pending' = [pending EXCEPT ![c] = Tail(@)]

\* The session ends; the answer to a last request may be lost with it.
End(c) ==
    /\ \/ UNCHANGED mem
       \/ pending[c] # << >> /\ mem' = modbus_tcp_adu_exec(mem, Head(pending[c])).mem
    /\ pending' = [pending EXCEPT ![c] = << >>]
    /\ replies' = [replies EXCEPT ![c] = << >>]

PowerLost == ServiceInit'

ServiceNext == PowerLost \/ \E c \in CLIENTS : Submit(c) \/ Serve(c) \/ End(c)

ServiceSpec == ServiceInit /\ [][ServiceNext]_service

==============================================================================
