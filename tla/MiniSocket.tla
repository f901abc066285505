----------------------------- MODULE MiniSocket -----------------------------
(***************************************************************************)
(* Minisockets on one host: minisocket.c and the stream half of            *)
(* handle_data_packet in minithread.c, which runs as an interrupt.  The    *)
(* peer and the network are whatever stream packets arrive.                *)
(*                                                                         *)
(* seq_number of a socket stays 0: nobody advances it.  The statuses       *)
(* CLOSING and UNABLE_TO_CONNECT are never set (minisocket_close does      *)
(* nothing), so the tests for them are left out.                           *)
(***************************************************************************)
EXTENDS Integers, Sequences, FiniteSets

CONSTANTS Threads,
          Programs,           \* the calls each thread may make
          TCP_MINIMUM_CLIENT, TCP_MAXIMUM_CLIENT,  \* server ports are below
          MaxTries,           \* timeouts from 100 to 6400: the tries of a packet
          Fragments,          \* packets a call of minisocket_send may need
          Garbage,            \* what an uninitialised waiting field may hold
          Arrivals,           \* the kinds and numbers of the packets that come
          MaxWork             \* bound on calls and arrivals together

ASSUME MiniSocketAssumption ==
    /\ IsFiniteSet(Threads)
    /\ Programs \in [Threads -> SUBSET {"server", "client", "send", "receive"}]
    /\ TCP_MINIMUM_CLIENT \in Nat /\ TCP_MAXIMUM_CLIENT \in Nat
    /\ TCP_MINIMUM_CLIENT <= TCP_MAXIMUM_CLIENT
    /\ MaxTries \in Nat \ {0}
    /\ Fragments \subseteq Nat \ {0}
    /\ Garbage # {}
    /\ Arrivals \subseteq [kind : {"SYN", "SYNACK", "ACK"}, seq : Nat, ack : Nat]

VARIABLES sock,               \* minisockets, by port
          currentClientPort,
          timers,             \* linked alarms of wake_up_semaphore
          alarmId,            \* the alarm at the address each thread has
          frame,              \* the interrupt that sleeps on top of each thread
          td,                 \* where each thread is
          work

sockVars == <<sock, currentClientPort, timers, alarmId, frame, td, work>>

ServerPorts == 0 .. TCP_MINIMUM_CLIENT - 1
ClientPorts == TCP_MINIMUM_CLIENT .. TCP_MAXIMUM_CLIENT
Ports == ServerPorts \cup ClientPorts

NoPacket == [kind |-> "none", seq |-> 0, ack |-> 0]
NoFrame == [port |-> 0, pkt |-> NoPacket]

(* packets holds the kinds of what is queued; data tells whether the       *)
(* buffer has some; acked counts the acknowledgements that were taken.     *)
NoSocket == [status |-> "none", waiting |-> "none", acks |-> 0, mutex |-> 1, ready |-> 0,
             ack_number |-> 0, packets |-> <<>>, data |-> FALSE, acked |-> 0]
IdleThread == [pc |-> "idle", port |-> 0, goal |-> "none", kind |-> "ACK", try |-> 0,
               parts |-> 0, ok |-> FALSE]

(* What an alarm id names that is not, or no longer, a linked alarm: in    *)
(* memory that was freed (fired, or taken out by another thread), or in a  *)
(* node that was never linked.                                             *)
NoTimer(why) == [port |-> 0, thread |-> "nobody", kind |-> why, try |-> 0]
NoAlarm == NoTimer("none")
Unlinked == NoTimer("unlinked")
Fired == NoTimer("fired")
Taken == NoTimer("taken")

SocketInit ==
    /\ sock = [p \in Ports |-> NoSocket]
    /\ currentClientPort = 0
    /\ timers = {}
    /\ alarmId = [t \in Threads |-> NoAlarm]
    /\ frame = [t \in Threads |-> NoFrame]
    /\ td = [t \in Threads |-> IdleThread]
    /\ work = 0

-----------------------------------------------------------------------------
Runs(t, pc) == frame[t] = NoFrame /\ td[t].pc = pc
Moves(t, pc) == td' = [td EXCEPT ![t].pc = pc]
Mine(t) == sock[td[t].port]
SetMine(t, s) == sock' = [sock EXCEPT ![td[t].port] = s]
Works == work < MaxWork /\ work' = work + 1
Invokes(t, call) == Runs(t, "idle") /\ call \in Programs[t] /\ Works

(* minisocket_create_socket: waiting is not initialised.                   *)
minisocket_create_socket(p, status) ==
    \E w \in Garbage :
        sock' = [sock EXCEPT ![p] = [NoSocket EXCEPT !.status = status, !.waiting = w]]

Transmits(t, goal, kind, port, parts) ==
    td' = [td EXCEPT ![t] = [pc |-> "transmit", port |-> port, goal |-> goal, kind |-> kind,
                             try |-> 1, parts |-> parts, ok |-> FALSE]]

(* minisocket_server_create: the part under server_mutex; a port in use is *)
(* an error.                                                               *)
minisocket_server_create(t) ==
    /\ Invokes(t, "server")
    /\ \E p \in ServerPorts :
          /\ sock[p].status = "none"
          /\ minisocket_create_socket(p, "listening")
          /\ td' = [td EXCEPT ![t].pc = "listen", ![t].port = p]
    /\ UNCHANGED <<currentClientPort, timers, alarmId, frame>>

(* The server waits for packets until one is a SYN.  queue_dequeue is one  *)
(* step, here and in TakeData, although the append of an interrupt may     *)
(* come in between.                                                        *)
Listen(t) ==
    /\ Runs(t, "listen") /\ Mine(t).ready > 0
    /\ SetMine(t, [Mine(t) EXCEPT !.ready = @ - 1])
    /\ Moves(t, "dequeue")
    /\ UNCHANGED <<currentClientPort, timers, alarmId, frame, work>>

TakeRequest(t) ==
    /\ Runs(t, "dequeue")
    /\ IF Head(Mine(t).packets) = "SYN"
         THEN /\ SetMine(t, [Mine(t) EXCEPT !.packets = Tail(@), !.status = "connecting"])
              /\ Transmits(t, "serve", "SYNACK", td[t].port, 0)
         ELSE /\ SetMine(t, [Mine(t) EXCEPT !.packets = Tail(@)])
              /\ Moves(t, "listen")
    /\ UNCHANGED <<currentClientPort, timers, alarmId, frame, work>>

(* minisocket_client_create.  The first port to try is read before         *)
(* client_mutex is taken; the search under the mutex goes on from the      *)
(* value the variable has by then.                                         *)
ClientPort(n) == TCP_MINIMUM_CLIENT + (n % Cardinality(ClientPorts))

minisocket_client_create(t) ==
    /\ Invokes(t, "client")
    /\ td' = [td EXCEPT ![t].pc = "search", ![t].port = ClientPort(currentClientPort)]
    /\ UNCHANGED <<sock, currentClientPort, timers, alarmId, frame>>

FaultyTried(first) ==
    <<first>> \o [i \in 1 .. Cardinality(ClientPorts) - 2 |-> ClientPort(currentClientPort + i)]
Tried(first) ==
    <<first>> \o [i \in 1 .. Cardinality(ClientPorts) - 1 |-> ClientPort(currentClientPort + i)]

SearchPort(t) ==
    LET tried == Tried(td[t].port)
        free == {i \in DOMAIN tried : sock[tried[i]].status = "none"}
    IN  /\ Runs(t, "search")
        /\ \/ /\ free = {}
              /\ currentClientPort' = currentClientPort + Len(tried) - 1
              /\ Moves(t, "refused")
              /\ UNCHANGED sock
           \/ \E i \in free :
                 /\ \A j \in free : i <= j
                 /\ currentClientPort' = currentClientPort + i - 1
                 /\ minisocket_create_socket(tried[i], "connecting")
                 /\ Transmits(t, "connect", "SYN", tried[i], 0)
        /\ UNCHANGED <<timers, alarmId, frame, work>>

Refused(t) ==
    /\ Runs(t, "refused")
    /\ td' = [td EXCEPT ![t] = IdleThread]
    /\ UNCHANGED <<sock, currentClientPort, timers, alarmId, frame, work>>

-----------------------------------------------------------------------------
(* register_alarm.  The time of the alarm is its bare delay, and beside an *)
(* alarm of the same time, of a socket at the same try or of anyone else,  *)
(* it is not linked.  malloc may return a node that was freed, which other *)
(* threads still have the address of.  The next that insert leaves behind  *)
(* the tail is taken for NULL here (module Alarm has what it may be).      *)
Timer(t) == [port |-> td[t].port, thread |-> t, kind |-> td[t].kind, try |-> td[t].try]

register_alarm(t) ==
    \E linked \in BOOLEAN, reused \in SUBSET {u \in Threads : alarmId[u] \in {Fired, Taken}} :
        /\ linked => \A a \in timers : a.try # td[t].try
        /\ timers' = timers \cup (IF linked THEN {Timer(t)} ELSE {})
        /\ alarmId' = [u \in Threads |-> IF u \notin reused \cup {t} THEN alarmId[u]
                                         ELSE IF linked THEN Timer(t) ELSE Unlinked]

(* transmit_packet: the packet is sent and the alarm registered; only then *)
(* waiting is set.  When the network refuses the packet the timeout is     *)
(* doubled at once.  An alarm id is forgotten when the next one will       *)
(* overwrite it.                                                           *)
Forgets(t) == alarmId' = [alarmId EXCEPT ![t] = NoAlarm]

NextTry(t) ==
    /\ td' = [td EXCEPT ![t].try = @ + 1,
                     ![t].pc = IF td[t].try = MaxTries THEN "lockEnd" ELSE "transmit"]
    /\ Forgets(t)
    /\ UNCHANGED timers

transmit_packet(t) ==
    /\ Runs(t, "transmit")
    /\ (register_alarm(t) /\ Moves(t, "sent")) \/ NextTry(t)
    /\ UNCHANGED <<sock, currentClientPort, frame, work>>

SetWaiting(t) ==
    /\ Runs(t, "sent")
    /\ CASE td[t].kind = "SYN" -> SetMine(t, [Mine(t) EXCEPT !.waiting = "synack"]) /\ Moves(t, "await")
         [] td[t].kind = "SYNACK" -> SetMine(t, [Mine(t) EXCEPT !.waiting = "ack"]) /\ Moves(t, "await")
         [] OTHER -> SetMine(t, [Mine(t) EXCEPT !.waiting = "none"]) /\ Moves(t, "lock")
    /\ UNCHANGED <<currentClientPort, timers, alarmId, frame, work>>

Await(t) ==
    /\ Runs(t, "await") /\ Mine(t).acks > 0
    /\ SetMine(t, [Mine(t) EXCEPT !.acks = @ - 1])
    /\ Moves(t, "lock")
    /\ UNCHANGED <<currentClientPort, timers, alarmId, frame, work>>

(* semaphore_P(socket->mutex), before the check of waiting and in          *)
(* minisocket_receive: an interrupt may come before the V.                 *)
Inside == [lock |-> "check", lockQueue |-> "take"]
Lock(t) ==
    /\ td[t].pc \in DOMAIN Inside /\ Runs(t, td[t].pc) /\ Mine(t).mutex > 0
    /\ SetMine(t, [Mine(t) EXCEPT !.mutex = @ - 1])
    /\ Moves(t, Inside[td[t].pc])
    /\ UNCHANGED <<currentClientPort, timers, alarmId, frame, work>>

(* Acknowledged, or given up after MaxTries.  After a SYNACK the ACK is    *)
(* sent in the same loop; the alarm of the SYN stays registered.  The      *)
(* alarm that is deregistered is whichever has come to be at its address.  *)
deregister_alarm(t) ==
    /\ timers' = timers \ {alarmId[t]}
    /\ alarmId' = [u \in Threads |-> IF u = t THEN NoAlarm
                                     ELSE IF alarmId[u] = alarmId[t] /\ alarmId[t] \in timers
                                     THEN Taken ELSE alarmId[u]]

Check(t) ==
    LET answered == Mine(t).waiting = "none"
    IN  /\ Runs(t, "check")
        /\ SetMine(t, [Mine(t) EXCEPT !.mutex = @ + 1])
        /\ CASE answered /\ td[t].kind = "SYN" ->
                  /\ td' = [td EXCEPT ![t].pc = "transmit", ![t].kind = "ACK", ![t].try = 1]
                  /\ Forgets(t) /\ UNCHANGED timers
             [] answered /\ td[t].kind # "SYN" ->
                  /\ td' = [td EXCEPT ![t].pc = "lockEnd", ![t].ok = TRUE]
                  /\ deregister_alarm(t)
             [] ~answered -> NextTry(t)
        /\ UNCHANGED <<currentClientPort, frame, work>>

(* Its end, the same for success and failure, and what the caller does     *)
(* next: the error is overwritten, so nobody learns of a failure.  The     *)
(* short section under the mutex is a single step.                         *)
Finish(t) ==
    LET done == [Mine(t) EXCEPT !.waiting = IF td[t].ok THEN @ ELSE "none"]
    IN  /\ Runs(t, "lockEnd") /\ Mine(t).mutex > 0
        /\ CASE td[t].goal = "connect" ->
                  /\ SetMine(t, [done EXCEPT !.ack_number = @ + 1])
                  /\ Transmits(t, "confirm", "ACK", td[t].port, 0)
             [] td[t].goal = "send" /\ td[t].parts > 1 ->
                  /\ SetMine(t, done)
                  /\ Transmits(t, "send", "ACK", td[t].port, td[t].parts - 1)
             [] OTHER ->
                  /\ SetMine(t, [done EXCEPT !.status = "connected"])
                  /\ td' = [td EXCEPT ![t] = IdleThread]
        /\ UNCHANGED <<currentClientPort, timers, alarmId, frame, work>>

-----------------------------------------------------------------------------
Connected == {p \in Ports : sock[p].status = "connected"}

minisocket_send(t) ==
    /\ Invokes(t, "send")
    /\ \E p \in Connected, n \in Fragments : Transmits(t, "send", "ACK", p, n)
    /\ UNCHANGED <<sock, currentClientPort, timers, alarmId, frame>>

(* minisocket_receive waits for a packet only if none is there.            *)
minisocket_receive(t) ==
    /\ Invokes(t, "receive")
    /\ \E p \in Connected :
          LET empty == ~sock[p].data /\ sock[p].packets = <<>>
          IN  td' = [td EXCEPT ![t].port = p, ![t].pc = IF empty THEN "receive" ELSE "lockQueue"]
    /\ UNCHANGED <<sock, currentClientPort, timers, alarmId, frame>>

AwaitPacket(t) ==
    /\ Runs(t, "receive") /\ Mine(t).ready > 0
    /\ SetMine(t, [Mine(t) EXCEPT !.ready = @ - 1])
    /\ Moves(t, "lockQueue")
    /\ UNCHANGED <<currentClientPort, timers, alarmId, frame, work>>

(* The data of a packet, if there is one, joins the buffer; a part of what *)
(* the buffer then has may be left (max_len).                              *)
TakeData(t) ==
    LET s == Mine(t)
    IN  /\ Runs(t, "take")
        /\ \E left \in BOOLEAN :
              /\ left => s.data \/ s.packets # <<>>
              /\ SetMine(t, [s EXCEPT !.mutex = @ + 1, !.data = left,
                                      !.packets = IF @ = <<>> THEN @ ELSE Tail(@)])
        /\ td' = [td EXCEPT ![t] = IdleThread]
        /\ UNCHANGED <<currentClientPort, timers, alarmId, frame, work>>

-----------------------------------------------------------------------------
(* handle_data_packet, with the mutex in hand.  An acknowledgement gives   *)
(* the mutex back twice.                                                   *)
IsAck(s, pkt) == \/ s.waiting = "ack" /\ pkt.kind = "ACK"
                 \/ s.waiting = "synack" /\ pkt.kind = "SYNACK"

FaultyPosted(s) == IF s.packets = <<>> THEN s.ready + 1 ELSE s.ready
Posted(s) == s.ready + 1

FaultyHandled(s, pkt) ==
    IF IsAck(s, pkt)
      THEN IF pkt.ack = 0
             THEN [s EXCEPT !.waiting = "none", !.acks = @ + 1, !.acked = @ + 1, !.mutex = @ + 1]
             ELSE [s EXCEPT !.mutex = @ - 1]
      ELSE IF pkt.seq = s.ack_number
             THEN [s EXCEPT !.ack_number = @ + 1, !.packets = Append(@, pkt.kind), !.ready = Posted(s)]
             ELSE s
Handled(s, pkt) ==
    IF IsAck(s, pkt)
      THEN IF pkt.ack = 0
             THEN [s EXCEPT !.waiting = "none", !.acks = @ + 1, !.acked = @ + 1, !.mutex = @ + 1]
             ELSE s
      ELSE IF pkt.seq = s.ack_number
             THEN [s EXCEPT !.ack_number = @ + 1, !.packets = Append(@, pkt.kind), !.ready = Posted(s)]
             ELSE s

(* The interrupt comes on top of a thread that can run.  If the mutex is   *)
(* taken, that thread goes to sleep in it, holder or not.                  *)
CanRun(t) ==
    /\ frame[t] = NoFrame
    /\ td[t].pc \in {"listen", "receive"} => Mine(t).ready > 0
    /\ td[t].pc = "await" => Mine(t).acks > 0
    /\ td[t].pc \in DOMAIN Inside \cup {"lockEnd"} => Mine(t).mutex > 0

handle_data_packet ==
    /\ Works
    /\ \E p \in Ports, pkt \in Arrivals :
          /\ sock[p].status # "none"
          /\ IF sock[p].mutex > 0
               THEN /\ sock' = [sock EXCEPT ![p] = Handled(@, pkt)]
                    /\ UNCHANGED frame
               ELSE /\ \E t \in Threads :
                          /\ CanRun(t)
                          /\ frame' = [frame EXCEPT ![t] = [port |-> p, pkt |-> pkt]]
                    /\ UNCHANGED sock
    /\ UNCHANGED <<currentClientPort, timers, alarmId, td>>

ResumeHandler(t) ==
    LET p == frame[t].port
    IN  /\ frame[t] # NoFrame /\ sock[p].mutex > 0
        /\ sock' = [sock EXCEPT ![p] = Handled(@, frame[t].pkt)]
        /\ frame' = [frame EXCEPT ![t] = NoFrame]
        /\ UNCHANGED <<currentClientPort, timers, alarmId, td, work>>

FaultyWakes(w) == w = "ack"
Wakes(w) == w \in {"ack", "synack"}

wake_up_semaphore ==
    /\ \E a \in timers :
          /\ timers' = timers \ {a}
          /\ alarmId' = [u \in Threads |-> IF alarmId[u] = a THEN Fired ELSE alarmId[u]]
          /\ sock' = IF Wakes(sock[a.port].waiting)
                       THEN [sock EXCEPT ![a.port].acks = @ + 1] ELSE sock
    /\ UNCHANGED <<currentClientPort, frame, td, work>>

ThreadSteps(t) ==
    \/ Listen(t) \/ TakeRequest(t) \/ SearchPort(t) \/ Refused(t)
    \/ transmit_packet(t) \/ SetWaiting(t) \/ Await(t) \/ Lock(t) \/ Check(t) \/ Finish(t)
    \/ AwaitPacket(t) \/ TakeData(t) \/ ResumeHandler(t)

SocketNext ==
    \/ \E t \in Threads :
          \/ minisocket_server_create(t) \/ minisocket_client_create(t)
          \/ minisocket_send(t) \/ minisocket_receive(t)
          \/ ThreadSteps(t)
    \/ handle_data_packet
    \/ wake_up_semaphore

SocketSpec == SocketInit /\ [][SocketNext]_sockVars

-----------------------------------------------------------------------------
Holders(p) == {t \in Threads : td[t].port = p /\ td[t].pc \in {"check", "take"}}

(* A socket's mutex and those inside add up to one more than the           *)
(* acknowledgements taken: each lets another thread in, and nothing else   *)
(* does, whichever thread an interrupt was taken on.                       *)
MutexCountsAcks ==
    \A p \in Ports : sock[p].mutex + Cardinality(Holders(p)) = 1 + sock[p].acked

(* Whatever is queued is announced: a thread that comes for a packet later *)
(* does not sleep while there is one.  (The other way round it may: a      *)
(* receiver that finds a packet leaves its count.)                         *)
NoPacketStranded ==
    \A p \in Ports :
        Len(sock[p].packets) <= sock[p].ready + Cardinality(
            {t \in Threads : td[t].port = p /\ td[t].pc \in {"dequeue", "lockQueue", "take"}})

(* minisocket_client_create says that there are no more ports only when    *)
(* every client port is used, although its first port is a stale one.      *)
PortsAllTried ==
    \A t \in Threads :
        td[t].pc = "refused" => \A p \in ClientPorts : sock[p].status # "none"

(* Interrupts that sleep in mutexes on top of the threads that hold them,  *)
(* one on its own or several in a circle.                                  *)
HandlerDeadlock ==
    \E ts \in SUBSET Threads \ {{}} :
        \A t \in ts : /\ frame[t] # NoFrame /\ sock[frame[t].port].mutex = 0
                      /\ Holders(frame[t].port) \subseteq ts

(* t waits, or is about to, without an alarm: the one it registered was    *)
(* not linked, or another thread deregistered it for its own.              *)
Unarmed(t) ==
    td[t].pc \in {"sent", "await"} /\ alarmId[t] \in {Unlinked, Taken}

(* A handshake packet that waits for its answer with its alarm linked is   *)
(* given up or answered, whatever the peer does, unless the alarm of this  *)
(* or a later try is not there to wake it, or interrupts and the threads   *)
(* under them wait for each other.                                         *)
TransmitEnds ==
    \A t \in Threads :
        (td[t].pc = "await" /\ Timer(t) \in timers)
            ~> (\/ td[t].pc = "lockEnd" \/ td[t].kind = "ACK"
                \/ Unarmed(t) \/ HandlerDeadlock)
=============================================================================
