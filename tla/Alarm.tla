------------------------------- MODULE Alarm --------------------------------
(***************************************************************************)
(* The alarms of PortOS: alarm.c, the doubly linked list of sortedlist.c   *)
(* they are kept in, and the tick of clock_handler that calls them.        *)
(*                                                                         *)
(* Every operation runs with interrupts disabled and is one action.  A     *)
(* client is whoever registers an alarm and may deregister it: a sleeping  *)
(* thread, or the retransmission loop of a socket.  A delay is a number of *)
(* quanta.  Memory for a list node is a chunk: malloc returns any chunk    *)
(* that is free, so an address held after free may name another's node.    *)
(***************************************************************************)
EXTENDS Integers, FiniteSets

CONSTANTS Clients, Chunks, NULL,
          Delays,        \* the delays clients ask for, in quanta
          MaxTime        \* bound: the clock stops there

ASSUME AlarmAssumption ==
  /\ NULL \notin Chunks
  /\ IsFiniteSet(Chunks)
  /\ Delays \subseteq Nat
  /\ MaxTime \in Nat

VARIABLES
  currentTime,
  head, length,     \* the struct sortedlist
  time, next, prev, \* the fields of each chunk used as a list node
  arg,              \* the client its handler wakes
  allocated,        \* the chunks malloc handed out and nobody freed
  state,            \* of each client: "idle", "armed" or "fired"
  handle,           \* the alarm_id each client holds
  askedFor,         \* the tick a client's alarm is meant to go off at
  wild              \* the tail's next is whatever its memory held before

nodeVars == <<time, next, prev, arg>>
clientVars == <<state, handle, askedFor>>
vars == <<currentTime, head, length, nodeVars, allocated, clientVars, wild>>

(* The nodes that are reached from first: those in each set of chunks that *)
(* has first and leads nowhere else.                                       *)
Reached(first, nxt) ==
  {m \in Chunks : \A S \in SUBSET Chunks :
     first \in S \cup {NULL} /\ (\A k \in S : nxt[k] \in S \cup {NULL}) => m \in S}

Linked == Reached(head, next)

Init ==
  /\ currentTime = 0
  /\ head = NULL /\ length = 0
  /\ time = [n \in Chunks |-> 0]
  /\ next = [n \in Chunks |-> NULL]
  /\ prev = [n \in Chunks |-> NULL]
  /\ arg = [n \in Chunks |-> NULL]
  /\ allocated = {}
  /\ state = [c \in Clients |-> "idle"]
  /\ handle = [c \in Clients |-> NULL]
  /\ askedFor = [c \in Clients |-> 0]
  /\ wild = FALSE

(***************************************************************************)
(* insert(alarms, n) for a node of time d.  The walk stops at the first    *)
(* node that is not earlier, or at the tail.                               *)
(***************************************************************************)
InsertFirst(n) ==
  /\ length = 0 \/ head = NULL
  /\ head' = n
  /\ length' = 1
  /\ next' = [next EXCEPT ![n] = NULL]
  /\ prev' = [prev EXCEPT ![n] = NULL]
  /\ UNCHANGED wild

FaultyInsertLast(n, d) ==
  /\ length # 0 /\ head # NULL
  /\ \A m \in Linked : time[m] < d
  /\ \E tail \in Linked :
       /\ next[tail] = NULL
       /\ next' = [next EXCEPT ![tail] = n]
       /\ prev' = [prev EXCEPT ![n] = tail]
  /\ wild' \in BOOLEAN
  /\ UNCHANGED <<head, length>>

(* Past the tail: sortedlist.c:53-55 leave next as malloc returned it,     *)
(* NULL in fresh memory and any old pointer in memory that was used.       *)
InsertLast(n, d) ==
  /\ length # 0 /\ head # NULL
  /\ \A m \in Linked : time[m] < d
  /\ \E tail \in Linked :
       /\ next[tail] = NULL
       /\ next' = [next EXCEPT ![tail] = n]
       /\ prev' = [prev EXCEPT ![n] = tail]
  /\ length' = length + 1
  /\ wild' \in BOOLEAN
  /\ UNCHANGED head

FaultyInsertBefore(n, d) ==
  /\ length # 0 /\ head # NULL
  /\ \E m \in Linked :
       /\ d < time[m]
       /\ \A k \in Linked : time[k] < d \/ time[m] <= time[k]
       /\ next' = IF prev[m] = NULL THEN [next EXCEPT ![n] = m]
                  ELSE [next EXCEPT ![n] = m, ![prev[m]] = n]
       /\ prev' = [prev EXCEPT ![n] = prev[m]]
       /\ head' = IF prev[m] = NULL THEN n ELSE head
  /\ length' = length + 1
  /\ UNCHANGED wild

InsertBefore(n, d) ==
  /\ length # 0 /\ head # NULL
  /\ \E m \in Linked :
       /\ d < time[m]
       /\ \A k \in Linked : time[k] < d \/ time[m] <= time[k]
       /\ next' = IF prev[m] = NULL THEN [next EXCEPT ![n] = m]
                  ELSE [next EXCEPT ![n] = m, ![prev[m]] = n]
       /\ prev' = [prev EXCEPT ![n] = prev[m], ![m] = n]
       /\ head' = IF prev[m] = NULL THEN n ELSE head
  /\ length' = length + 1
  /\ UNCHANGED wild

(* A node of the same time is there: neither the loop nor the test after   *)
(* it links the new one, which is counted all the same.                    *)
NotInserted(d) ==
  /\ length # 0 /\ head # NULL
  /\ \E m \in Linked : time[m] = d
  /\ length' = length + 1
  /\ UNCHANGED <<head, next, prev, wild>>

(***************************************************************************)
(* register_alarm.  A delay of 0 ms calls the handler at once; another one  *)
(* below a quantum is 0 quanta.  The time of the node is the delay itself:  *)
(* alarm.c:33 overwrites the sum with currentTime that line 31 stored.      *)
(***************************************************************************)
register_alarm(c, d) ==
  /\ state[c] = "idle"
  /\ \/ /\ d = 0
        /\ state' = [state EXCEPT ![c] = "fired"]
        /\ UNCHANGED <<head, length, nodeVars, allocated, handle, askedFor, wild>>
     \/ /\ \E n \in Chunks \ allocated :
             /\ allocated' = allocated \cup {n}
             /\ time' = [time EXCEPT ![n] = d]
             /\ arg' = [arg EXCEPT ![n] = c]
             /\ handle' = [handle EXCEPT ![c] = n]
             /\ \/ InsertFirst(n) \/ InsertLast(n, d)
                \/ InsertBefore(n, d) \/ NotInserted(d)
        /\ state' = [state EXCEPT ![c] = "armed"]
        /\ askedFor' = [askedFor EXCEPT ![c] = currentTime + d]
  /\ UNCHANGED currentTime

(***************************************************************************)
(* The tick: currentTime++, then callAlarms runs the handler of every node *)
(* from the head on whose time is before now, and removes each from the    *)
(* list as remove_node does: the new head has no predecessor.              *)
(***************************************************************************)
Due(now) == {m \in Linked : time[m] < now}

HeadWithout(gone) ==
  IF Linked \subseteq gone THEN NULL
  ELSE CHOOSE m \in Linked \ gone : prev[m] \in gone \cup {NULL}

(* The memory of a chunk that is free has no meaning left: it is cleared.  *)
Cleared(f, freed, nothing) == [n \in Chunks |-> IF n \in freed THEN nothing ELSE f[n]]

tick ==
  /\ currentTime < MaxTime
  /\ currentTime' = currentTime + 1
  /\ LET gone == Due(currentTime + 1)
         new  == HeadWithout(gone)
         woken == {c \in Clients : \E n \in gone : arg[n] = c}
     IN  /\ head' = new
         /\ prev' = Cleared(prev, gone \cup (IF gone = {} THEN {} ELSE {new}), NULL)
         /\ next' = Cleared(next, gone, NULL)
         /\ time' = Cleared(time, gone, 0)
         /\ arg'  = Cleared(arg, gone, NULL)
         /\ length' = length - Cardinality(gone)
         /\ allocated' = allocated \ gone
         /\ state' = [c \in Clients |-> IF c \in woken THEN "fired" ELSE state[c]]
         /\ askedFor' = [c \in Clients |-> IF c \in woken THEN 0 ELSE askedFor[c]]
  /\ UNCHANGED <<handle, wild>>

(***************************************************************************)
(* deregister_alarm(handle): remove_node takes out the node at that        *)
(* address, whoever it belongs to by now, and nothing if there is none.    *)
(***************************************************************************)
FaultyRemoveNode(n) ==
  /\ length' = length - 1
  /\ UNCHANGED <<head, nodeVars, allocated>>

remove_node(n) ==
  \/ /\ n \in Linked
     /\ head' = IF prev[n] = NULL THEN next[n] ELSE head
     /\ LET linked == [m \in Chunks |-> IF m = prev[n] THEN next[n] ELSE next[m]]
            back   == [m \in Chunks |-> IF m = next[n] THEN prev[n] ELSE prev[m]]
        IN  /\ next' = Cleared(linked, {n}, NULL)
            /\ prev' = Cleared(back, {n}, NULL)
     /\ time' = Cleared(time, {n}, 0)
     /\ arg'  = Cleared(arg, {n}, NULL)
     /\ length' = length - 1
     /\ allocated' = allocated \ {n}
  \/ n \notin Linked /\ UNCHANGED <<head, length, nodeVars, allocated>>

(* Back to idle: the client gives its alarm_id up.                         *)
Forget(c) ==
  /\ state' = [state EXCEPT ![c] = "idle"]
  /\ handle' = [handle EXCEPT ![c] = NULL]
  /\ askedFor' = [askedFor EXCEPT ![c] = 0]

deregister_alarm(c) ==
  /\ state[c] \in {"armed", "fired"}
  /\ handle[c] # NULL
  /\ remove_node(handle[c])
  /\ Forget(c)
  /\ UNCHANGED <<currentTime, wild>>

(* A client that was woken goes on without deregistering, as a sleeper.    *)
Return(c) ==
  /\ state[c] = "fired"
  /\ Forget(c)
  /\ UNCHANGED <<currentTime, head, length, nodeVars, allocated, wild>>

(* Walking on through a wild next, anything may happen: the model stops.   *)
Undefined == wild /\ UNCHANGED vars

Next ==
  \/ ~wild /\ \E c \in Clients :
       \/ \E d \in Delays : register_alarm(c, d)
       \/ deregister_alarm(c)
       \/ Return(c)
  \/ ~wild /\ tick
  \/ Undefined

Spec == Init /\ [][Next]_vars

(***************************************************************************)
(* Correctness                                                             *)
(***************************************************************************)
TypeOK ==
  /\ currentTime \in 0 .. MaxTime
  /\ head \in Chunks \cup {NULL}
  /\ length \in Nat
  /\ time \in [Chunks -> Nat]
  /\ next \in [Chunks -> Chunks \cup {NULL}]
  /\ prev \in [Chunks -> Chunks \cup {NULL}]
  /\ arg \in [Chunks -> Clients \cup {NULL}]
  /\ allocated \subseteq Chunks
  /\ state \in [Clients -> {"idle", "armed", "fired"}]
  /\ handle \in [Clients -> Chunks \cup {NULL}]
  /\ askedFor \in [Clients -> Nat]
  /\ wild \in BOOLEAN

(* The list is what its code takes it for, its variables well typed: in    *)
(* memory that was not freed, with times strictly increasing from each     *)
(* node to its next, hence no cycle, and links that mirror one another.    *)
ListWellFormed ==
  /\ TypeOK
  /\ ~wild =>
    /\ Linked \subseteq allocated
    /\ head # NULL => prev[head] = NULL
    /\ \A m \in Linked : next[m] # NULL =>
         prev[next[m]] = m /\ time[m] < time[next[m]]

(* length counts at least the nodes that are linked.  Were it to reach 0   *)
(* before, insert would start a new list and forget the pending alarms.    *)
LengthCoversList == ~wild => length >= Cardinality(Linked)

(* No alarm is pending twice, and none is pending for a client that was    *)
(* woken already: a handler runs at most once for each registration.       *)
PendingOnce ==
  ~wild =>
    \A m, n \in Linked : /\ state[arg[m]] = "armed"
                         /\ handle[arg[m]] = m
                         /\ arg[m] = arg[n] => m = n

(* An alarm that was registered and is neither deregistered nor executed   *)
(* is in the list, at the tick its delay asked for: it will go off, in     *)
(* "delay" milliseconds (alarm.h:21).                                      *)
AlarmOnTime ==
  \A c \in Clients : state[c] = "armed" =>
    handle[c] \in Linked /\ time[handle[c]] = askedFor[c]
=============================================================================
