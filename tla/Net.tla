--------------------------------- MODULE Net ---------------------------------
(***************************************************************************)
(* net.c: the join of the access point, and the start of the listener.     *)
(* lwIP runs only inside net_task, so every callback is a part of it.      *)
(***************************************************************************)
EXTENDS Naturals

VARIABLES
    net,       \* state
    link,      \* cyw43_tcpip_link_status: "joining", "up" or "failed" (external)
    listener   \* modbus_tcp.c has its listening pcb

network == <<net, link, listener>>

\* net_init: no credentials, a radio that does not start, or a join under way.
Booted == {"DISABLED", "FAILED", "JOINING"}
NetInit == net \in Booted /\ link = "joining" /\ listener = FALSE
NetReboot == net' \in Booted /\ link' = "joining" /\ listener' = FALSE

\* The radio: a join succeeds or fails.  What becomes of the link later is not
\* looked at again.
LinkChange ==
    /\ net = "JOINING"
    /\ link' \in {"up", "failed"} \ {link}
    /\ UNCHANGED <<net, listener>>

\* Mutant of modbus_tcp_init: reports success without its listener.
modbus_tcp_init_blind(ok) == listener' = ok /\ net' = "UP"
\* Fails when lwIP has no pcb or the bind fails (ok is FALSE).
modbus_tcp_init(ok) ==
    IF listener \/ ok THEN listener' = TRUE /\ net' = "UP"
    ELSE listener' = FALSE /\ net' = "FAILED"

\* The end of net_task: up and failed are final.
net_task ==
    /\ net = "JOINING" /\ link # "joining"
    /\ IF link = "up" THEN \E ok \in BOOLEAN : modbus_tcp_init(ok)
       ELSE net' = "FAILED" /\ UNCHANGED listener
    /\ UNCHANGED link

\* cyw43_arch_poll is called.
Polling == net \in {"JOINING", "UP"}

==============================================================================
