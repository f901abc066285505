------------------------------ MODULE Miniport ------------------------------
(***************************************************************************)
(* The miniports of minimsg.c: threads create, use and destroy the ports   *)
(* of one machine while the network handler delivers datagrams to them.    *)
(*                                                                         *)
(* A step of a thread ends where another thread or the handler can come    *)
(* between two accesses to what they share: miniports, nextBoundPort, the  *)
(* memory of a port, its data_queue and data_available.  minimsg_receive   *)
(* calls queue_dequeue with interrupts enabled and no mutex: its accesses  *)
(* to the queue are steps too.  The semaphores are those of Minithread,    *)
(* which implement Semaphore; here a P waits for a count that is not 0.    *)
(* The handler runs with interrupts disabled.                              *)
(*                                                                         *)
(* A datagram is what minimsg_receive makes of it: the address it reads as *)
(* the sender's, or NULL if it takes the datagram for somebody else's.     *)
(***************************************************************************)
EXTENDS Integers, Sequences, FiniteSets

CONSTANTS
  Threads, Refs,       \* Refs: the memory of miniports
  UnboundPorts,        \* the listening ports in use
  MinBound, MaxBound,  \* MINIMUM_BOUND and MAXIMUM_BOUND
  Hosts, NULL,
  MaxQueue             \* bound: the size of a queue at which none arrives

BoundPorts == MinBound .. MaxBound
Ports == UnboundPorts \cup BoundPorts
totalBoundPorts == MaxBound - MinBound + 1

ASSUME PortAssumption ==
  /\ MinBound \in Nat \ {0} /\ MaxBound \in Nat
  /\ MinBound = totalBoundPorts   \* 32768
  /\ UnboundPorts \subseteq 0 .. MinBound - 1
  /\ NULL \notin Refs \cup Hosts
  /\ MaxQueue \in Nat
  /\ IsFiniteSet(Refs) /\ Refs \cap Hosts = {}

VARIABLES
  miniports,           \* the table, by port number
  nextBoundPort,
  kind, number, data_queue, data_available, remote, \* the memory of each port
  size,                \* data_queue->size; data_queue is what front leads to
  count,               \* of the three semaphores
  pc, port, ref, item, i, \* of each thread: where it is, and its locals
  held                 \* the references the program of each thread uses

portVars == <<kind, number, data_queue, size, data_available, remote>>
localVars == <<pc, port, ref, item, i>>
vars == <<miniports, nextBoundPort, portVars, count, localVars, held>>

Locks == {"bound", "unbound", "destroy"}
SearchSteps == {"boundP", "search", "take"}
CreateSteps == {"unboundP", "lookup", "found", "reread", "unboundV"}
Steps == {"idle"} \cup SearchSteps \cup {"boundV"} \cup CreateSteps
         \cup {"destroyP", "clear", "free", "destroyV"}
         \cup {"dequeue", "unlinked", "loaded", "received", "dead"}

Init ==
  /\ miniports = [p \in Ports |-> NULL]
  /\ nextBoundPort = 0
  /\ kind = [r \in Refs |-> "free"]
  /\ number = [r \in Refs |-> 0]
  /\ data_queue = [r \in Refs |-> <<>>]
  /\ size = [r \in Refs |-> 0]
  /\ data_available = [r \in Refs |-> 0]
  /\ remote = [r \in Refs |-> NULL]
  /\ count = [l \in Locks |-> 1]
  /\ pc = [t \in Threads |-> "idle"]
  /\ port = [t \in Threads |-> 0]
  /\ ref = [t \in Threads |-> NULL]
  /\ item = [t \in Threads |-> NULL]
  /\ i = [t \in Threads |-> 0]
  /\ held = [t \in Threads |-> {}]

(***************************************************************************)
(* Steps of a thread: At(t, s) it is before s, Goto(t, s) it goes there.   *)
(***************************************************************************)
At(t, s) == pc[t] = s
Goto(t, s) == pc' = [pc EXCEPT ![t] = s]

P(t, l, from, to) ==
  /\ At(t, from) /\ count[l] > 0
  /\ count' = [count EXCEPT ![l] = @ - 1]
  /\ Goto(t, to)
  /\ UNCHANGED <<miniports, nextBoundPort, portVars, port, ref, item, i, held>>

V(l) == count' = [count EXCEPT ![l] = @ + 1]

(* Back in the program, with the reference r or, for NULL, without one.    *)
Return(t, r) ==
  /\ pc' = [pc EXCEPT ![t] = "idle"]
  /\ port' = [port EXCEPT ![t] = 0]
  /\ ref' = [ref EXCEPT ![t] = NULL]
  /\ i' = [i EXCEPT ![t] = 0]
  /\ held' = [held EXCEPT ![t] = @ \cup ({r} \ {NULL})]
  /\ UNCHANGED item

(* malloc of a port, its fields set before the table shows it.             *)
Create(r, k, p, host) ==
  /\ kind[r] = "free"
  /\ kind' = [kind EXCEPT ![r] = k]
  /\ number' = [number EXCEPT ![r] = p]
  /\ remote' = [remote EXCEPT ![r] = host]
  /\ miniports' = [miniports EXCEPT ![p] = r]
  /\ UNCHANGED <<data_queue, size, data_available>>

OutOfMemory == \A r \in Refs : kind[r] # "free"

(***************************************************************************)
(* miniport_create_unbound(p).  minimsg.h leaves it to the programs not to *)
(* destroy a port that others use: while one of them destroys the port p   *)
(* none asks for it, and see CallDestroy.                                  *)
(***************************************************************************)
BeingDestroyed(p) ==
  \E u \in Threads : pc[u] \in {"destroyP", "clear", "free"} /\ number[ref[u]] = p

CallCreateUnbound(t, p) ==
  /\ At(t, "idle") /\ ~BeingDestroyed(p)
  /\ Goto(t, "unboundP")
  /\ port' = [port EXCEPT ![t] = p]
  /\ UNCHANGED <<miniports, nextBoundPort, portVars, count, ref, item, i, held>>

LookUp(t) ==
  /\ At(t, "lookup")
  /\ \/ /\ miniports[port[t]] # NULL
        /\ Goto(t, "found")
        /\ UNCHANGED <<miniports, portVars, ref>>
     \/ /\ miniports[port[t]] = NULL
        /\ \E r \in Refs : Create(r, "unbound", port[t], NULL) /\ ref' = [ref EXCEPT ![t] = r]
        /\ Goto(t, "unboundV")
     \/ /\ miniports[port[t]] = NULL /\ OutOfMemory
        /\ Goto(t, "unboundV")
        /\ UNCHANGED <<miniports, portVars, ref>>
  /\ UNCHANGED <<nextBoundPort, count, port, item, i, held>>

Found(t) ==
  /\ At(t, "found")
  /\ V("unbound")
  /\ Goto(t, "reread")
  /\ UNCHANGED <<miniports, nextBoundPort, portVars, port, ref, item, i, held>>

(* The table is read again after the V, without the semaphore.             *)
ReRead(t) ==
  /\ At(t, "reread")
  /\ Return(t, miniports[port[t]])
  /\ UNCHANGED <<miniports, nextBoundPort, portVars, count>>

CreatedUnbound(t) ==
  /\ At(t, "unboundV")
  /\ V("unbound")
  /\ Return(t, ref[t])
  /\ UNCHANGED <<miniports, nextBoundPort, portVars>>

(***************************************************************************)
(* miniport_create_bound(host).  The search starts at the nextBoundPort    *)
(* that was read before semaphore_P, and goes on from the present one.     *)
(***************************************************************************)
(* The remainder of C has the sign of its dividend.                        *)
Remainder(a, b) == IF a < 0 THEN -((-a) % b) ELSE a % b

Converted(n, k) == Remainder(n - MinBound + k, totalBoundPorts) + totalBoundPorts

StartBound(t, host) ==
  /\ Goto(t, "boundP")
  /\ port' = [port EXCEPT ![t] = Converted(nextBoundPort, 0)]
  /\ ref' = [ref EXCEPT ![t] = host]
  /\ i' = [i EXCEPT ![t] = 1]

CallCreateBound(t, host) ==
  /\ At(t, "idle")
  /\ StartBound(t, host)
  /\ UNCHANGED <<miniports, nextBoundPort, portVars, count, item, held>>

Search(t) ==
  /\ At(t, "search")
  /\ IF i[t] < totalBoundPorts /\ miniports[port[t]] # NULL
     THEN /\ port' = [port EXCEPT ![t] = Converted(nextBoundPort, i[t])]
          /\ i' = [i EXCEPT ![t] = @ + 1]
          /\ UNCHANGED pc
     ELSE Goto(t, "take") /\ UNCHANGED <<port, i>>
  /\ UNCHANGED <<miniports, nextBoundPort, portVars, count, ref, item, held>>

FaultyTake(t) ==
  /\ At(t, "take")
  /\ \/ /\ \E r \in Refs :
             /\ Create(r, "bound", port[t], ref[t])
             /\ ref' = [ref EXCEPT ![t] = r]
        /\ nextBoundPort' = port[t] + 1
     \/ /\ OutOfMemory
        /\ ref' = [ref EXCEPT ![t] = NULL]
        /\ UNCHANGED <<miniports, nextBoundPort, portVars>>
  /\ Goto(t, "boundV")
  /\ UNCHANGED <<count, port, item, i, held>>

Take(t) ==
  /\ At(t, "take")
  /\ \/ /\ miniports[port[t]] = NULL
        /\ \E r \in Refs :
             /\ Create(r, "bound", port[t], ref[t])
             /\ ref' = [ref EXCEPT ![t] = r]
        /\ nextBoundPort' = port[t] + 1
     \/ /\ miniports[port[t]] # NULL \/ OutOfMemory
        /\ ref' = [ref EXCEPT ![t] = NULL]
        /\ UNCHANGED <<miniports, nextBoundPort, portVars>>
  /\ Goto(t, "boundV")
  /\ UNCHANGED <<count, port, item, i, held>>

FaultyCreatedBound(t) ==
  /\ At(t, "boundV")
  /\ count' = [count EXCEPT !["bound"] = IF ref[t] = NULL THEN @ ELSE @ + 1]
  /\ Return(t, ref[t])
  /\ UNCHANGED <<miniports, nextBoundPort, portVars>>

CreatedBound(t) ==
  /\ At(t, "boundV")
  /\ V("bound")
  /\ Return(t, ref[t])
  /\ UNCHANGED <<miniports, nextBoundPort, portVars>>

(***************************************************************************)
(* miniport_destroy(r), of a port nobody else holds or is asking for.      *)
(***************************************************************************)
InUse(t, r) ==
  \E u \in Threads \ {t} :
    \/ r \in held[u] \/ ref[u] = r
    \/ pc[u] \in CreateSteps /\ port[u] = number[r]

CallDestroy(t, r) ==
  /\ At(t, "idle")
  /\ r \in held[t] /\ ~InUse(t, r)
  /\ Goto(t, "destroyP")
  /\ ref' = [ref EXCEPT ![t] = r]
  /\ held' = [held EXCEPT ![t] = @ \ {r}]
  /\ UNCHANGED <<miniports, nextBoundPort, portVars, count, port, item, i>>

Clear(t) ==
  /\ At(t, "clear")
  /\ miniports' = [miniports EXCEPT ![number[ref[t]]] = NULL]
  /\ Goto(t, "free")
  /\ UNCHANGED <<nextBoundPort, portVars, count, port, ref, item, i, held>>

(* The datagrams that wait are lost with the queue.                        *)
Free(t) ==
  /\ At(t, "free")
  /\ kind' = [kind EXCEPT ![ref[t]] = "free"]
  /\ number' = [number EXCEPT ![ref[t]] = 0]
  /\ data_queue' = [data_queue EXCEPT ![ref[t]] = <<>>]
  /\ size' = [size EXCEPT ![ref[t]] = 0]
  /\ data_available' = [data_available EXCEPT ![ref[t]] = 0]
  /\ remote' = [remote EXCEPT ![ref[t]] = NULL]
  /\ Goto(t, "destroyV")
  /\ ref' = [ref EXCEPT ![t] = NULL]
  /\ UNCHANGED <<miniports, nextBoundPort, count, port, item, i, held>>

Destroyed(t) ==
  /\ At(t, "destroyV")
  /\ V("destroy")
  /\ Return(t, NULL)
  /\ UNCHANGED <<miniports, nextBoundPort, portVars>>

(***************************************************************************)
(* minimsg_receive(r): one datagram for one count, and a bound port to     *)
(* whom it reads as the sender unless it takes the datagram for another's. *)
(* Between, queue_dequeue takes the node out, and only then corrects rear, *)
(* which names a node left for freed in between, and size.                 *)
(***************************************************************************)
CallReceive(t, r) ==
  /\ At(t, "idle")
  /\ r \in held[t] /\ kind[r] = "unbound"
  /\ data_available[r] > 0
  /\ data_available' = [data_available EXCEPT ![r] = @ - 1]
  /\ Goto(t, "dequeue")
  /\ ref' = [ref EXCEPT ![t] = r]
  /\ UNCHANGED <<miniports, nextBoundPort, kind, number, data_queue, size, remote,
                 count, port, item, i, held>>

Beside(t, steps) == \E u \in Threads \ {t} : pc[u] \in steps /\ ref[u] = ref[t]

(* The process ends, or goes on in memory that is no longer the queue's.   *)
Die(t) ==
  /\ Goto(t, "dead")
  /\ UNCHANGED <<miniports, nextBoundPort, portVars, count, port, ref, item, i, held>>

(* minimsg_receive reads a datagram at NULL when there is none; two        *)
(* receivers may take the same node, or one the node the other looks at.   *)
Dequeue(t) ==
  /\ At(t, "dequeue")
  /\ \/ /\ data_queue[ref[t]] # <<>>
        /\ item' = [item EXCEPT ![t] = Head(data_queue[ref[t]])]
        /\ data_queue' = [data_queue EXCEPT ![ref[t]] = Tail(@)]
        /\ Goto(t, "unlinked")
        /\ UNCHANGED <<miniports, nextBoundPort, kind, number, size, data_available,
                       remote, count, port, ref, i, held>>
     \/ data_queue[ref[t]] = <<>> /\ Die(t)
     \/ Beside(t, {"dequeue", "unlinked"}) /\ Die(t)

(* The rear is set to NULL if size is 1, and size-- begins.                *)
LoadSize(t) ==
  /\ At(t, "unlinked")
  /\ \/ /\ ~Beside(t, {"loaded"})
        /\ Goto(t, "loaded")
        /\ UNCHANGED <<miniports, nextBoundPort, portVars, count, port, ref, item, i, held>>
     \/ Beside(t, {"loaded"}) /\ Die(t)

StoreSize(t) ==
  /\ At(t, "loaded")
  /\ size' = [size EXCEPT ![ref[t]] = @ - 1]
  /\ ref' = [ref EXCEPT ![t] = item[t]]
  /\ item' = [item EXCEPT ![t] = NULL]
  /\ Goto(t, "received")
  /\ UNCHANGED <<miniports, nextBoundPort, kind, number, data_queue, data_available,
                 remote, count, port, i, held>>

Received(t) ==
  /\ At(t, "received")
  /\ \/ ref[t] = NULL /\ Return(t, NULL)
     \/ ref[t] # NULL /\ StartBound(t, ref[t]) /\ UNCHANGED <<item, held>>
  /\ UNCHANGED <<miniports, nextBoundPort, portVars, count>>

(***************************************************************************)
(* handle_data_packet for a datagram to an unbound port: dropped when      *)
(* nobody listens.  queue_append goes by size: if that is not yet 0 though *)
(* the last node was taken out, the datagram is linked behind that node    *)
(* and front never leads to it.                                            *)
(***************************************************************************)
queue_append(r, datagram) ==
  /\ data_queue' = [data_queue EXCEPT ![r] =
                      IF size[r] = 0 THEN <<datagram>>
                      ELSE IF @ = <<>> THEN <<>> ELSE Append(@, datagram)]
  /\ size' = [size EXCEPT ![r] = @ + 1]

(* The update of size is overwritten by t, or t has set rear to NULL while *)
(* size still is 1.                                                        *)
Tears(t, r) ==
  /\ ref[t] = r
  /\ At(t, "loaded") \/ (At(t, "unlinked") /\ size[r] = 1)

FaultyDeliver(p, sender) ==
  LET r == miniports[p]
  IN  /\ r # NULL
      /\ size[r] < MaxQueue /\ \A t \in Threads : ~(At(t, "loaded") /\ ref[t] = r)
      /\ queue_append(r, sender)
      /\ data_available' = [data_available EXCEPT ![r] = IF size[r] = 0 THEN @ + 1 ELSE @]
      /\ UNCHANGED <<miniports, nextBoundPort, kind, number, remote, count, localVars, held>>

handle_data_packet(p, sender) ==
  LET r == miniports[p]
  IN  /\ r # NULL
      /\ size[r] < MaxQueue
      /\ \/ /\ \A t \in Threads : ~(At(t, "loaded") /\ ref[t] = r)
            /\ queue_append(r, sender)
            /\ data_available' = [data_available EXCEPT ![r] = @ + 1]
            /\ UNCHANGED <<miniports, nextBoundPort, kind, number, remote, count,
                           localVars, held>>
         \/ \E t \in Threads : Tears(t, r) /\ Die(t)

Proceed(t) ==
  \/ P(t, "unbound", "unboundP", "lookup")
  \/ LookUp(t) \/ Found(t) \/ ReRead(t) \/ CreatedUnbound(t)
  \/ P(t, "bound", "boundP", "search")
  \/ Search(t) \/ Take(t) \/ CreatedBound(t)
  \/ P(t, "destroy", "destroyP", "clear")
  \/ Clear(t) \/ Free(t) \/ Destroyed(t)
  \/ Dequeue(t) \/ LoadSize(t) \/ StoreSize(t) \/ Received(t)

Running == \A t \in Threads : pc[t] # "dead"

Dead == ~Running /\ UNCHANGED vars

Next ==
  \/ /\ Running
     /\ \/ \E t \in Threads :
             \/ Proceed(t)
             \/ \E p \in UnboundPorts : CallCreateUnbound(t, p)
             \/ \E h \in Hosts : CallCreateBound(t, h)
             \/ \E r \in Refs : CallDestroy(t, r) \/ CallReceive(t, r)
        \/ \E p \in UnboundPorts, s \in Hosts \cup {NULL} : handle_data_packet(p, s)
  \/ Dead

Spec == Init /\ [][Next]_vars

(***************************************************************************)
(* Correctness                                                             *)
(***************************************************************************)
TypeOK ==
  /\ miniports \in [Ports -> Refs \cup {NULL}]
  /\ nextBoundPort \in {0} \cup (MinBound + 1 .. MaxBound + 1)
  /\ kind \in [Refs -> {"free", "unbound", "bound"}]
  /\ number \in [Refs -> Ports \cup {0}]
  /\ data_queue \in [Refs -> Seq(Hosts \cup {NULL})]
  /\ size \in [Refs -> Nat]
  /\ data_available \in [Refs -> Nat]
  /\ remote \in [Refs -> Hosts \cup {NULL}]
  /\ count \in [Locks -> Nat]
  /\ pc \in [Threads -> Steps]
  /\ port \in [Threads -> Ports \cup {0}]
  /\ ref \in [Threads -> Refs \cup Hosts \cup {NULL}]
  /\ item \in [Threads -> Hosts \cup {NULL}]
  /\ i \in [Threads -> 0 .. totalBoundPorts]
  /\ held \in [Threads -> SUBSET Refs]

(* The table shows every port that exists, until its destroyer clears the  *)
(* entry, and nothing that was freed: no two ports share a number, two     *)
(* requests for one unbound port get one reference, and the handler, which *)
(* comes at any moment, never appends to the queue of a freed port; every  *)
(* value has its type.                                                     *)
TableShowsPorts ==
  /\ TypeOK
  /\ \A p \in Ports : miniports[p] # NULL =>
       kind[miniports[p]] # "free" /\ number[miniports[p]] = p
  /\ \A r \in Refs : kind[r] # "free" =>
       \/ miniports[number[r]] = r
       \/ \E t \in Threads : pc[t] = "free" /\ ref[t] = r

(* The threads that call queue_dequeue with the queue of r and are at one  *)
(* of these steps.                                                         *)
Receivers(r, steps) == {t \in Threads : pc[t] \in steps /\ ref[t] = r}

(* Each V of the handler is matched: size is what data_available counts    *)
(* and the receivers in queue_dequeue have not yet taken off, and whatever *)
(* front leads to is counted for, or about to be taken: no receiver waits  *)
(* beside a datagram.  This is so though P, the node, rear and size are    *)
(* taken one by one and the handler may lose its datagram in between, as   *)
(* long as no receivers share a node and no update of size is lost.        *)
AvailableCountsData ==
  Running => \A r \in Refs : kind[r] = "unbound" =>
    /\ size[r] = data_available[r]
                 + Cardinality(Receivers(r, {"dequeue", "unlinked", "loaded"}))
    /\ data_queue[r] # <<>> =>
         Len(data_queue[r]) = data_available[r] + Cardinality(Receivers(r, {"dequeue"}))

(* A receiver that passed its P finds a datagram: "Threads that call this  *)
(* function are blocked until a message arrives" (minimsg.c:248-249).      *)
ReceiverFindsData ==
  \A t \in Threads : pc[t] = "dequeue" => data_queue[ref[t]] # <<>>

(* Each semaphore is 1 less for the one thread that is between its P and   *)
(* its V: no path, failed ones included, leaves without the V.             *)
Inside == [bound |-> {"search", "take", "boundV"},
           unbound |-> {"lookup", "found", "unboundV"},
           destroy |-> {"clear", "free", "destroyV"}]

MutexesBalance ==
  \A l \in Locks : count[l] + Cardinality({t \in Threads : pc[t] \in Inside[l]}) = 1

(* A bound port gets a number above those assigned before, unless those up *)
(* to the limit are in use and the search wraps around: numbers "should    *)
(* not be reused even if they have been destroyed" (minimsg.c:123-126).    *)
PortsInOrder ==
  [][\A p \in BoundPorts : miniports[p] = NULL /\ miniports'[p] # NULL =>
       \/ p >= nextBoundPort
       \/ \A q \in BoundPorts : q >= nextBoundPort => miniports[q] # NULL]_vars
=============================================================================
