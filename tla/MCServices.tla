------------------------------ MODULE MCServices ------------------------------
(***************************************************************************)
(* The instance TLC checks of MiniFile, MiniRoute and MiniSocket.  No code *)
(* of this repository connects the three (minisocket.c calls               *)
(* network_send_pkt and not the routing), so a behaviour is one of the     *)
(* file system, of the routing hosts or of the socket host; the others     *)
(* stay in an initial state.                                               *)
(***************************************************************************)
EXTENDS MiniFile, MiniRoute, MiniSocket

VARIABLE part

vars == <<part, fileVars, routeVars, sockVars>>

Init ==
    /\ part \in {"files", "routes", "sockets"}
    /\ FileInit /\ (part # "files" => ~onDisk.super)
    /\ RouteInit /\ SocketInit

OfFiles(A) == part = "files" /\ A /\ UNCHANGED <<part, routeVars, sockVars>>
OfRoutes(A) == part = "routes" /\ A /\ UNCHANGED <<part, fileVars, sockVars>>
OfSockets(A) == part = "sockets" /\ A /\ UNCHANGED <<part, fileVars, routeVars>>

Next == OfFiles(FileNext) \/ OfRoutes(RouteNext) \/ OfSockets(SocketNext)

(* The scheduler runs every thread that can go on, the disk answers what   *)
(* it was asked, and clock interrupts fire the alarms that are linked.     *)
(* Nothing is asked of the network.                                        *)
Fairness ==
    /\ WF_fileVars(part = "files" /\ handle_disk_response)
    /\ \A t \in Users : WF_fileVars(part = "files" /\ Continues(t))
    /\ \A t \in Senders : WF_routeVars(part = "routes" /\ SenderSteps(t))
    /\ \A t \in Threads : WF_sockVars(part = "sockets" /\ ThreadSteps(t))
    /\ WF_sockVars(part = "sockets" /\ wake_up_semaphore)

Spec == Init /\ [][Next]_vars /\ Fairness

(* Both threads of A send; A - B - C is a line, and the link from B to C    *)
(* comes and goes.                                                         *)
Line == [h \in Hosts |-> IF h = "B" THEN {"A", "C"} ELSE {"B"}]
OnA == [t \in Senders |-> "A"]
FirstToBoth == [t \in Senders |-> IF t = "s" THEN {"B", "C"} ELSE {"C"}]
BtoC == {<<"B", "C">>}

(* Both threads may be clients, one may serve.                             *)
OneServes ==
    [t \in Threads |-> IF t = "s" THEN {"server", "client", "send"} ELSE {"client", "receive"}]

(* The first packet of each kind, and one that comes too early.            *)
FewArrivals ==
    {[kind |-> k, seq |-> 0, ack |-> 0] : k \in {"SYN", "SYNACK", "ACK"}} \cup
    {[kind |-> "SYNACK", seq |-> 1, ack |-> 1]}
==============================================================================
