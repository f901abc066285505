--------------------------- MODULE MiniportProofs ---------------------------
(***************************************************************************)
(* Theorems about Miniport, for every set of threads, however many ports   *)
(* and hosts, and any memory.                                              *)
(***************************************************************************)
EXTENDS Miniport, FiniteSetTheorems, TLAPS

(***************************************************************************)
(* The handler puts the datagram s into the queue of r and announces it.   *)
(***************************************************************************)
Delivers(r, s) ==
  /\ queue_append(r, s)
  /\ data_available' = [data_available EXCEPT ![r] = @ + 1]
  /\ UNCHANGED <<miniports, nextBoundPort, kind, number, remote, count, localVars, held>>

(***************************************************************************)
(* The inductive invariant: types and what a thread's locals may be at     *)
(* each step; the table and the memory agree, and who destroys a port does *)
(* it alone; each port's count, and each semaphore's, adds up.             *)
(***************************************************************************)
(* Between the call of miniport_destroy and the free.                      *)
Destroying(t) == pc[t] \in {"destroyP", "clear", "free"}

(* Where a receiver has a count of a port and size still has its datagram. *)
QueueSteps == {"dequeue", "unlinked", "loaded"}

(* The locals of a thread are what the step it is at needs.                *)
LocalsFit(t) ==
  /\ pc[t] = "idle" => ref[t] = NULL
  /\ pc[t] \in SearchSteps => port[t] \in BoundPorts /\ ref[t] \in Hosts /\ i[t] \in Nat \ {0}
  /\ pc[t] \in CreateSteps => port[t] \in UnboundPorts
  /\ pc[t] \in CreateSteps \ {"unboundV"} => ref[t] = NULL
  /\ pc[t] \in {"boundV", "unboundV"} => ref[t] \in Refs \cup {NULL}
  /\ pc[t] = "destroyV" => ref[t] = NULL
  /\ Destroying(t) => ref[t] \in Refs
  /\ pc[t] \in QueueSteps => ref[t] \in Refs /\ kind[ref[t]] = "unbound"
  /\ pc[t] = "received" => ref[t] \in Hosts \cup {NULL}

(* nextBoundPort is 0 only until the first bound port is created: a search *)
(* that goes on never counts from 0.                                       *)
NothingBound == nextBoundPort = 0 => \A p \in BoundPorts : miniports[p] = NULL

(* What an entry of the table shows exists and has its number.             *)
EntryShowsPort(p) ==
  miniports[p] # NULL => kind[miniports[p]] # "free" /\ number[miniports[p]] = p

(* What exists is shown, until its destroyer is at its free; what is free  *)
(* has nothing queued.                                                     *)
PortFits(r) ==
  /\ kind[r] = "bound" => number[r] \in BoundPorts
  /\ kind[r] = "unbound" => number[r] \in UnboundPorts
  /\ kind[r] = "free" => data_queue[r] = <<>> /\ size[r] = 0 /\ data_available[r] = 0
  /\ kind[r] # "free" => \/ miniports[number[r]] = r
                         \/ \E t \in Threads : pc[t] = "free" /\ ref[t] = r

(* No thread has a reference to a freed port.                              *)
UsesExisting(t) ==
  /\ ref[t] \in Refs => kind[ref[t]] # "free"
  /\ \A r \in held[t] : kind[r] # "free"

(* Nobody else holds, makes or asks for a port that is being destroyed.    *)
DestroysAlone(t) ==
  Destroying(t) =>
    /\ \A u \in Threads : /\ ref[t] \notin held[u]
                          /\ pc[u] \in CreateSteps => port[u] # number[ref[t]]
                          /\ u # t => ref[u] # ref[t]
    /\ pc[t] = "free" => \A p \in Ports : miniports[p] # ref[t]

TableInv ==
  /\ \A p \in Ports : EntryShowsPort(p)
  /\ \A r \in Refs : PortFits(r)
  /\ \A t \in Threads : UsesExisting(t) /\ DestroysAlone(t)

TypeInv == TypeOK /\ NothingBound /\ \A t \in Threads : LocalsFit(t)

(* What AvailableCountsData says of every unbound port.                    *)
QueueFits(r) ==
  /\ IsFiniteSet(Receivers(r, QueueSteps)) /\ IsFiniteSet(Receivers(r, {"dequeue"}))
  /\ size[r] = data_available[r] + Cardinality(Receivers(r, QueueSteps))
  /\ data_queue[r] # <<>> =>
       Len(data_queue[r]) = data_available[r] + Cardinality(Receivers(r, {"dequeue"}))

QueueInv == \A r \in Refs : kind[r] = "unbound" => QueueFits(r)

(* The threads between the P and the V of l.                               *)
Within(l) == {t \in Threads : pc[t] \in Inside[l]}

LockInv ==
  \A l \in Locks : IsFiniteSet(Within(l)) /\ count[l] + Cardinality(Within(l)) = 1

IInv == TypeInv /\ TableInv /\ (Running => QueueInv) /\ LockInv

(* The remainder of a natural number.                                      *)
LEMMA RemainderRange ==
  ASSUME NEW b \in Nat \ {0}, NEW a \in Nat
  PROVE  a % b \in 0 .. b - 1
OBVIOUS

(* A number divides itself.                                                *)
LEMMA RemainderSelf ==
  ASSUME NEW b \in Nat \ {0}
  PROVE  b % b = 0
OBVIOUS

(* Every number the search of miniport_create_bound computes is that of a  *)
(* bound port, the one from a nextBoundPort of 0 included.                 *)
LEMMA ConvertedIsBound ==
  ASSUME NEW n \in {0} \cup (MinBound + 1 .. MaxBound + 1), NEW k \in Nat,
         k < totalBoundPorts, n = 0 => k = 0
  PROVE  Converted(n, k) \in BoundPorts
<1> DEFINE T == totalBoundPorts
<1>1. T \in Nat \ {0} /\ MinBound = T /\ MaxBound = 2 * T - 1 /\ MaxBound \in Nat
  BY PortAssumption DEF totalBoundPorts
<1> HIDE DEF T
<1>2. CASE n = 0
  <2>1. n - MinBound + k < 0 /\ -(n - MinBound + k) = T
    BY <1>1, <1>2
  <2>2. Remainder(n - MinBound + k, T) = -(T % T)
    BY <2>1 DEF Remainder
  <2>3. T % T = 0
    BY <1>1, RemainderSelf
  <2> QED
    BY <1>1, <2>2, <2>3 DEF Converted, BoundPorts, T
<1>3. CASE n # 0
  <2>1. n - MinBound + k \in Nat
    BY <1>1, <1>3
  <2>2. (n - MinBound + k) % T \in 0 .. T - 1
    BY <1>1, <2>1, RemainderRange
  <2>3. Remainder(n - MinBound + k, T) = (n - MinBound + k) % T
    BY <2>1 DEF Remainder
  <2> QED
    BY <1>1, <2>2, <2>3 DEF Converted, BoundPorts, T
<1> QED
  BY <1>2, <1>3

(* The ranges of ports do not overlap, and NULL is neither.                *)
LEMMA PortRanges ==
  /\ UnboundPorts \cap BoundPorts = {}
  /\ UnboundPorts \subseteq Ports /\ BoundPorts \subseteq Ports
  /\ 0 \notin BoundPorts /\ BoundPorts \subseteq Nat
  /\ totalBoundPorts \in Nat \ {0}
  /\ NULL \notin Refs /\ NULL \notin Hosts /\ Refs \cap Hosts = {}
BY PortAssumption DEF Ports, BoundPorts, totalBoundPorts

(* Only t moves, between steps other than those of a receiver.             *)
LEMMA LocalsOfOthers ==
  ASSUME TypeInv, NEW t \in Threads,
         \A u \in Threads \ {t} : /\ pc'[u] = pc[u] /\ ref'[u] = ref[u]
                                  /\ port'[u] = port[u] /\ i'[u] = i[u],
         \A u \in Threads \ {t} : pc[u] \in QueueSteps => kind'[ref[u]] = kind[ref[u]],
         LocalsFit(t)'
  PROVE  \A u \in Threads : LocalsFit(u)'
<1> SUFFICES ASSUME NEW u \in Threads \ {t} PROVE LocalsFit(u)'
  OBVIOUS
<1>1. LocalsFit(u)
  BY DEF TypeInv
<1> QED
  BY <1>1 DEF LocalsFit, QueueSteps, Destroying

(* A P keeps the types.                                                    *)
LEMMA PKeepsTypes ==
  ASSUME TypeInv, NEW t \in Threads, NEW l, NEW from, NEW to,
         <<l, from, to>> \in {<<"unbound", "unboundP", "lookup">>,
                              <<"bound", "boundP", "search">>,
                              <<"destroy", "destroyP", "clear">>},
         P(t, l, from, to)
  PROVE  TypeInv'
<1>1. /\ l \in Locks /\ to \in Steps /\ pc[t] = from /\ count[l] > 0
      /\ \/ from = "unboundP" /\ to = "lookup"
         \/ from = "boundP" /\ to = "search"
         \/ from = "destroyP" /\ to = "clear"
      /\ count' = [count EXCEPT ![l] = @ - 1] /\ pc' = [pc EXCEPT ![t] = to]
      /\ UNCHANGED <<miniports, nextBoundPort, kind, number, data_queue, size,
                     data_available, remote, port, ref, item, i, held>>
  BY DEF P, At, Goto, Locks, Steps, SearchSteps, CreateSteps, portVars
<1>2. TypeOK'
  BY <1>1 DEF TypeInv, TypeOK
<1>3. NothingBound'
  BY <1>1 DEF TypeInv, NothingBound
<1>4. LocalsFit(t)'
  BY <1>1 DEF TypeInv, TypeOK, LocalsFit, SearchSteps, CreateSteps, QueueSteps, Destroying
<1>5. \A u \in Threads : LocalsFit(u)'
  BY <1>1, <1>4, LocalsOfOthers DEF TypeInv, TypeOK
<1> QED
  BY <1>2, <1>3, <1>5 DEF TypeInv

(* Create puts a new port at an empty entry.                               *)
LEMMA CreateTypes ==
  ASSUME TypeInv, NEW r \in Refs, NEW k \in {"unbound", "bound"}, NEW p \in Ports,
         NEW h \in Hosts \cup {NULL}, Create(r, k, p, h)
  PROVE  /\ miniports' \in [Ports -> Refs \cup {NULL}]
         /\ kind' \in [Refs -> {"free", "unbound", "bound"}]
         /\ number' \in [Refs -> Ports \cup {0}]
         /\ remote' \in [Refs -> Hosts \cup {NULL}]
         /\ UNCHANGED <<data_queue, size, data_available>>
         /\ kind' = [kind EXCEPT ![r] = k]
         /\ miniports' = [miniports EXCEPT ![p] = r]
         /\ kind[r] = "free"
BY DEF Create, TypeInv, TypeOK

(* A step of t leaves its locals well typed, and those of others alone.    *)
MovesAlone(t) ==
  /\ pc' \in [Threads -> Steps] /\ port' \in [Threads -> Ports \cup {0}]
  /\ ref' \in [Threads -> Refs \cup Hosts \cup {NULL}]
  /\ i' \in [Threads -> 0 .. totalBoundPorts]
  /\ item' \in [Threads -> Hosts \cup {NULL}]
  /\ held' \in [Threads -> SUBSET Refs]
  /\ LocalsFit(t)'
  /\ \A u \in Threads \ {t} : /\ pc'[u] = pc[u] /\ ref'[u] = ref[u]
                              /\ port'[u] = port[u] /\ i'[u] = i[u]

(* A return leaves the thread idle.                                        *)
LEMMA ReturnTypes ==
  ASSUME TypeInv, NEW t \in Threads, NEW r \in Refs \cup {NULL}, Return(t, r)
  PROVE  MovesAlone(t)
<1>1. /\ "idle" \in Steps /\ 0 \in 0 .. totalBoundPorts
      /\ "idle" \notin SearchSteps \cup CreateSteps
  BY PortRanges DEF Steps, SearchSteps, CreateSteps
<1>2. TypeOK
  BY DEF TypeInv
<1>3. /\ pc' \in [Threads -> Steps] /\ port' \in [Threads -> Ports \cup {0}]
      /\ ref' \in [Threads -> Refs \cup Hosts \cup {NULL}]
      /\ i' \in [Threads -> 0 .. totalBoundPorts]
      /\ item' \in [Threads -> Hosts \cup {NULL}]
      /\ held' \in [Threads -> SUBSET Refs]
  BY <1>1, <1>2 DEF Return, TypeOK
<1>4. pc'[t] = "idle" /\ ref'[t] = NULL
  BY <1>2 DEF Return, TypeOK
<1>5. LocalsFit(t)'
  BY <1>1, <1>4 DEF LocalsFit, QueueSteps, Destroying
<1>6. \A u \in Threads \ {t} : /\ pc'[u] = pc[u] /\ ref'[u] = ref[u]
                               /\ port'[u] = port[u] /\ i'[u] = i[u]
  BY <1>2 DEF Return, TypeOK
<1> QED
  BY <1>3, <1>5, <1>6 DEF MovesAlone

(* So does the start of a search, whose first number is a bound one.       *)
LEMMA StartBoundTypes ==
  ASSUME TypeInv, NEW t \in Threads, NEW h \in Hosts, StartBound(t, h),
         item' = item, held' = held
  PROVE  MovesAlone(t)
<1>1. TypeOK
  BY DEF TypeInv
<1>2. Converted(nextBoundPort, 0) \in BoundPorts
  BY <1>1, ConvertedIsBound, PortRanges DEF TypeOK
<1>3. "boundP" \in Steps /\ 1 \in 0 .. totalBoundPorts
  BY PortRanges DEF Steps, SearchSteps
<1>4. /\ pc' = [pc EXCEPT ![t] = "boundP"]
      /\ port' = [port EXCEPT ![t] = Converted(nextBoundPort, 0)]
      /\ ref' = [ref EXCEPT ![t] = h] /\ i' = [i EXCEPT ![t] = 1]
  BY DEF StartBound, Goto
<1>5. /\ pc' \in [Threads -> Steps] /\ port' \in [Threads -> Ports \cup {0}]
      /\ ref' \in [Threads -> Refs \cup Hosts \cup {NULL}]
      /\ i' \in [Threads -> 0 .. totalBoundPorts]
  BY <1>1, <1>2, <1>3, <1>4, PortRanges DEF TypeOK
<1>6. LocalsFit(t)'
  BY <1>1, <1>2, <1>4 DEF TypeOK, LocalsFit, SearchSteps, CreateSteps, QueueSteps, Destroying
<1> QED
  BY <1>1, <1>4, <1>5, <1>6 DEF TypeOK, MovesAlone

(* The steps of miniport_create_unbound keep the types.                    *)
LEMMA CreateUnboundKeepsTypes ==
  ASSUME TypeInv, NEW t \in Threads,
         \/ \E p \in UnboundPorts : CallCreateUnbound(t, p)
         \/ LookUp(t) \/ Found(t)
  PROVE  TypeInv'
<1>0. TypeOK /\ NothingBound /\ LocalsFit(t)
  BY DEF TypeInv
<1>1. ASSUME NEW p \in UnboundPorts, CallCreateUnbound(t, p) PROVE TypeInv'
  <2>1. /\ pc[t] = "idle" /\ pc' = [pc EXCEPT ![t] = "unboundP"]
        /\ port' = [port EXCEPT ![t] = p]
        /\ UNCHANGED <<miniports, nextBoundPort, kind, number, data_queue, size,
                       data_available, remote, count, ref, item, i, held>>
    BY <1>1 DEF CallCreateUnbound, At, Goto, portVars
  <2>2. TypeOK'
    BY <1>0, <2>1, PortRanges DEF TypeOK, Steps, CreateSteps
  <2>3. LocalsFit(t)'
    BY <1>0, <2>1 DEF TypeOK, LocalsFit, SearchSteps, CreateSteps, QueueSteps, Destroying
  <2>4. \A u \in Threads : LocalsFit(u)'
    BY <1>0, <2>1, <2>3, LocalsOfOthers DEF TypeOK
  <2> QED
    BY <1>0, <2>1, <2>2, <2>4 DEF TypeInv, NothingBound
<1>2. CASE LookUp(t)
  <2>1. /\ pc[t] = "lookup" /\ UNCHANGED <<nextBoundPort, count, port, item, i, held>>
        /\ port[t] \in UnboundPorts /\ ref[t] = NULL
    BY <1>0, <1>2 DEF LookUp, At, LocalsFit, CreateSteps
  <2>2. ASSUME NEW s \in {"found", "unboundV"}, pc' = [pc EXCEPT ![t] = s],
               UNCHANGED <<miniports, kind, number, data_queue, size,
                           data_available, remote, ref>>
        PROVE  TypeInv'
    <3>1. TypeOK'
      BY <1>0, <2>1, <2>2 DEF TypeOK, Steps, CreateSteps
    <3>2. LocalsFit(t)'
      BY <1>0, <2>1, <2>2 DEF TypeOK, LocalsFit, SearchSteps, CreateSteps, QueueSteps, Destroying
    <3>3. \A u \in Threads : LocalsFit(u)'
      BY <1>0, <2>1, <2>2, <3>2, LocalsOfOthers DEF TypeOK
    <3> QED
      BY <1>0, <2>1, <2>2, <3>1, <3>3 DEF TypeInv, NothingBound
  <2>3. ASSUME NEW r \in Refs, Create(r, "unbound", port[t], NULL),
               ref' = [ref EXCEPT ![t] = r], pc' = [pc EXCEPT ![t] = "unboundV"]
        PROVE  TypeInv'
    <3>1. /\ miniports' \in [Ports -> Refs \cup {NULL}]
          /\ kind' \in [Refs -> {"free", "unbound", "bound"}]
          /\ number' \in [Refs -> Ports \cup {0}]
          /\ remote' \in [Refs -> Hosts \cup {NULL}]
          /\ UNCHANGED <<data_queue, size, data_available>>
          /\ kind' = [kind EXCEPT ![r] = "unbound"]
          /\ miniports' = [miniports EXCEPT ![port[t]] = r]
          /\ kind[r] = "free"
      BY <2>1, <2>3, PortRanges, CreateTypes
    <3>2. TypeOK'
      BY <1>0, <2>1, <2>3, <3>1 DEF TypeOK, Steps, CreateSteps
    <3>3. LocalsFit(t)'
      BY <1>0, <2>1, <2>3 DEF TypeOK, LocalsFit, SearchSteps, CreateSteps, QueueSteps, Destroying
    <3>4. \A u \in Threads : pc[u] \in QueueSteps => kind'[ref[u]] = kind[ref[u]]
      BY <1>0, <3>1 DEF TypeInv, LocalsFit, TypeOK
    <3>5. \A u \in Threads : LocalsFit(u)'
      BY <1>0, <2>1, <2>3, <3>3, <3>4, LocalsOfOthers DEF TypeOK
    <3>6. NothingBound'
      BY <1>0, <2>1, <3>1, PortRanges DEF NothingBound, TypeOK
    <3> QED
      BY <3>2, <3>5, <3>6 DEF TypeInv
  <2> QED
    BY <1>2, <2>2, <2>3 DEF LookUp, Goto, portVars
<1>3. CASE Found(t)
  <2>1. /\ pc[t] = "found" /\ pc' = [pc EXCEPT ![t] = "reread"]
        /\ count' = [count EXCEPT !["unbound"] = @ + 1]
        /\ UNCHANGED <<miniports, nextBoundPort, kind, number, data_queue, size,
                       data_available, remote, port, ref, item, i, held>>
    BY <1>3 DEF Found, At, Goto, V, portVars
  <2>2. TypeOK'
    BY <1>0, <2>1 DEF TypeOK, Steps, CreateSteps, Locks
  <2>3. LocalsFit(t)'
    BY <1>0, <2>1 DEF TypeOK, LocalsFit, SearchSteps, CreateSteps, QueueSteps, Destroying
  <2>4. \A u \in Threads : LocalsFit(u)'
    BY <1>0, <2>1, <2>3, LocalsOfOthers DEF TypeOK
  <2> QED
    BY <1>0, <2>1, <2>2, <2>4 DEF TypeInv, NothingBound
<1> QED
  BY <1>1, <1>2, <1>3

(* The steps at whose end a call returns.                                  *)
LEMMA ReturnsKeepTypes ==
  ASSUME TypeInv, NEW t \in Threads,
         ReRead(t) \/ CreatedUnbound(t) \/ CreatedBound(t) \/ Destroyed(t)
  PROVE  TypeInv'
<1>0. TypeOK /\ NothingBound /\ LocalsFit(t)
  BY DEF TypeInv
<1>1. /\ \E r \in Refs \cup {NULL} : Return(t, r)
      /\ count' = count \/ \E l \in Locks : V(l)
      /\ UNCHANGED <<miniports, nextBoundPort, kind, number, data_queue, size,
                     data_available, remote>>
  <2>1. CASE ReRead(t)
    <3>1. port[t] \in Ports
      BY <1>0, <2>1, PortRanges DEF ReRead, At, LocalsFit, CreateSteps
    <3> QED
      BY <1>0, <2>1, <3>1 DEF ReRead, TypeOK, portVars
  <2>2. CASE CreatedUnbound(t) \/ CreatedBound(t)
    BY <1>0, <2>2 DEF CreatedUnbound, CreatedBound, At, LocalsFit, portVars, Locks
  <2>3. CASE Destroyed(t)
    BY <2>3 DEF Destroyed, portVars, Locks
  <2> QED
    BY <2>1, <2>2, <2>3
<1>2. PICK r \in Refs \cup {NULL} : Return(t, r)
  BY <1>1
<1>3. count' \in [Locks -> Nat]
  <2>1. count \in [Locks -> Nat]
    BY <1>0 DEF TypeOK
  <2>2. ASSUME NEW l \in Locks, V(l) PROVE count' \in [Locks -> Nat]
    BY <2>1, <2>2 DEF V
  <2> QED
    BY <1>1, <2>1, <2>2
<1>4. MovesAlone(t)
  BY <1>2, ReturnTypes
<1>5. TypeOK'
  BY <1>0, <1>1, <1>3, <1>4 DEF TypeOK, MovesAlone
<1>6. \A u \in Threads : LocalsFit(u)'
  BY <1>1, <1>4, LocalsOfOthers DEF MovesAlone
<1> QED
  BY <1>0, <1>1, <1>5, <1>6 DEF TypeInv, NothingBound

(* The search for a bound port keeps the types.                            *)
LEMMA SearchKeepsTypes ==
  ASSUME TypeInv, NEW t \in Threads,
         (\E h \in Hosts : CallCreateBound(t, h)) \/ Search(t)
  PROVE  TypeInv'
<1>0. TypeOK /\ NothingBound /\ LocalsFit(t)
  BY DEF TypeInv
<1>1. ASSUME NEW h \in Hosts, CallCreateBound(t, h) PROVE TypeInv'
  <2>1. /\ StartBound(t, h)
        /\ UNCHANGED <<miniports, nextBoundPort, kind, number, data_queue, size,
                       data_available, remote, count, item, held>>
    BY <1>1 DEF CallCreateBound, portVars
  <2>2. MovesAlone(t)
    BY <2>1, StartBoundTypes
  <2>3. \A u \in Threads : LocalsFit(u)'
    BY <2>1, <2>2, LocalsOfOthers DEF MovesAlone
  <2> QED
    BY <1>0, <2>1, <2>2, <2>3 DEF TypeInv, TypeOK, NothingBound, MovesAlone
<1>2. CASE Search(t)
  <2>1. /\ pc[t] = "search" /\ port[t] \in BoundPorts /\ ref[t] \in Hosts /\ i[t] \in Nat \ {0}
        /\ UNCHANGED <<miniports, nextBoundPort, kind, number, data_queue, size,
                       data_available, remote, count, ref, item, held>>
    BY <1>0, <1>2 DEF Search, At, LocalsFit, SearchSteps, portVars
  <2>2. CASE /\ i[t] < totalBoundPorts /\ miniports[port[t]] # NULL
             /\ port' = [port EXCEPT ![t] = Converted(nextBoundPort, i[t])]
             /\ i' = [i EXCEPT ![t] = @ + 1]
             /\ UNCHANGED pc
    <3>1. nextBoundPort # 0
      BY <1>0, <2>1, <2>2 DEF NothingBound
    <3>2. Converted(nextBoundPort, i[t]) \in BoundPorts
      BY <1>0, <2>1, <2>2, <3>1, ConvertedIsBound DEF TypeOK
    <3>3. i[t] + 1 \in 0 .. totalBoundPorts /\ i[t] + 1 \in Nat \ {0}
      BY <2>1, <2>2, PortRanges
    <3>4. TypeOK'
      BY <1>0, <2>1, <2>2, <3>2, <3>3, PortRanges DEF TypeOK
    <3>5. LocalsFit(t)'
      BY <1>0, <2>1, <2>2, <3>2, <3>3
         DEF TypeOK, LocalsFit, SearchSteps, CreateSteps, QueueSteps, Destroying
    <3>6. \A u \in Threads : LocalsFit(u)'
      BY <1>0, <2>1, <2>2, <3>5, LocalsOfOthers DEF TypeOK
    <3> QED
      BY <1>0, <2>1, <3>4, <3>6 DEF TypeInv, NothingBound
  <2>3. CASE pc' = [pc EXCEPT ![t] = "take"] /\ UNCHANGED <<port, i>>
    <3>1. TypeOK'
      BY <1>0, <2>1, <2>3 DEF TypeOK, Steps, SearchSteps
    <3>2. LocalsFit(t)'
      BY <1>0, <2>1, <2>3 DEF TypeOK, LocalsFit, SearchSteps, CreateSteps, QueueSteps, Destroying
    <3>3. \A u \in Threads : LocalsFit(u)'
      BY <1>0, <2>1, <2>3, <3>2, LocalsOfOthers DEF TypeOK
    <3> QED
      BY <1>0, <2>1, <3>1, <3>3 DEF TypeInv, NothingBound
  <2> QED
    BY <1>2, <2>2, <2>3 DEF Search, Goto
<1> QED
  BY <1>1, <1>2

(* So does the end of the search.                                          *)
LEMMA TakeKeepsTypes ==
  ASSUME TypeInv, NEW t \in Threads, Take(t)
  PROVE  TypeInv'
<1>0. TypeOK /\ NothingBound /\ LocalsFit(t)
  BY DEF TypeInv
<1>1. /\ pc[t] = "take" /\ pc' = [pc EXCEPT ![t] = "boundV"]
      /\ port[t] \in BoundPorts /\ ref[t] \in Hosts
      /\ UNCHANGED <<count, port, item, i, held>>
  BY <1>0 DEF Take, At, Goto, LocalsFit, SearchSteps
<1>2. CASE ref' = [ref EXCEPT ![t] = NULL]
           /\ UNCHANGED <<miniports, nextBoundPort, kind, number, data_queue, size,
                          data_available, remote>>
  <2>1. TypeOK'
    BY <1>0, <1>1, <1>2 DEF TypeOK, Steps
  <2>2. LocalsFit(t)'
    BY <1>0, <1>1, <1>2 DEF TypeOK, LocalsFit, SearchSteps, CreateSteps, QueueSteps, Destroying
  <2>3. \A u \in Threads : LocalsFit(u)'
    BY <1>0, <1>1, <1>2, <2>2, LocalsOfOthers DEF TypeOK
  <2> QED
    BY <1>0, <1>2, <2>1, <2>3 DEF TypeInv, NothingBound
<1>3. ASSUME NEW r \in Refs, Create(r, "bound", port[t], ref[t]),
             ref' = [ref EXCEPT ![t] = r], nextBoundPort' = port[t] + 1
      PROVE  TypeInv'
  <2>1. /\ miniports' \in [Ports -> Refs \cup {NULL}]
        /\ kind' \in [Refs -> {"free", "unbound", "bound"}]
        /\ number' \in [Refs -> Ports \cup {0}]
        /\ remote' \in [Refs -> Hosts \cup {NULL}]
        /\ UNCHANGED <<data_queue, size, data_available>>
        /\ kind' = [kind EXCEPT ![r] = "bound"]
        /\ kind[r] = "free"
    BY <1>1, <1>3, PortRanges, CreateTypes
  <2>2. nextBoundPort' \in MinBound + 1 .. MaxBound + 1 /\ nextBoundPort' # 0
    BY <1>1, <1>3, PortAssumption DEF BoundPorts
  <2>3. TypeOK'
    BY <1>0, <1>1, <1>3, <2>1, <2>2 DEF TypeOK, Steps
  <2>4. LocalsFit(t)'
    BY <1>0, <1>1, <1>3 DEF TypeOK, LocalsFit, SearchSteps, CreateSteps, QueueSteps, Destroying
  <2>5. \A u \in Threads : pc[u] \in QueueSteps => kind'[ref[u]] = kind[ref[u]]
    BY <1>0, <2>1 DEF TypeInv, LocalsFit, TypeOK
  <2>6. \A u \in Threads : LocalsFit(u)'
    BY <1>0, <1>1, <1>3, <2>4, <2>5, LocalsOfOthers DEF TypeOK
  <2> QED
    BY <2>2, <2>3, <2>6 DEF TypeInv, NothingBound
<1> QED
  BY <1>2, <1>3 DEF Take, portVars

(* The steps of miniport_destroy: no receiver uses the port that is freed. *)
LEMMA DestroyKeepsTypes ==
  ASSUME TypeInv, TableInv, NEW t \in Threads,
         (\E r \in Refs : CallDestroy(t, r)) \/ Clear(t) \/ Free(t)
  PROVE  TypeInv'
<1>0. TypeOK /\ NothingBound /\ LocalsFit(t)
  BY DEF TypeInv
<1>1. ASSUME NEW r \in Refs, CallDestroy(t, r) PROVE TypeInv'
  <2>1. /\ pc' = [pc EXCEPT ![t] = "destroyP"] /\ ref' = [ref EXCEPT ![t] = r]
        /\ held' = [held EXCEPT ![t] = @ \ {r}]
        /\ UNCHANGED <<miniports, nextBoundPort, kind, number, data_queue, size,
                       data_available, remote, count, port, item, i>>
    BY <1>1 DEF CallDestroy, Goto, portVars
  <2>2. TypeOK'
    BY <1>0, <2>1 DEF TypeOK, Steps
  <2>3. LocalsFit(t)'
    BY <1>0, <2>1 DEF TypeOK, LocalsFit, SearchSteps, CreateSteps, QueueSteps, Destroying
  <2>4. \A u \in Threads : LocalsFit(u)'
    BY <1>0, <2>1, <2>3, LocalsOfOthers DEF TypeOK
  <2> QED
    BY <1>0, <2>1, <2>2, <2>4 DEF TypeInv, NothingBound
<1>2. CASE Clear(t)
  <2>1. /\ pc[t] = "clear" /\ pc' = [pc EXCEPT ![t] = "free"]
        /\ ref[t] \in Refs
        /\ miniports' = [miniports EXCEPT ![number[ref[t]]] = NULL]
        /\ UNCHANGED <<nextBoundPort, kind, number, data_queue, size,
                       data_available, remote, count, ref, port, item, i, held>>
    BY <1>0, <1>2 DEF Clear, At, Goto, portVars, LocalsFit, Destroying
  <2>2. TypeOK'
    BY <1>0, <2>1 DEF TypeOK, Steps
  <2>3. LocalsFit(t)'
    BY <1>0, <2>1 DEF TypeOK, LocalsFit, SearchSteps, CreateSteps, QueueSteps, Destroying
  <2>4. \A u \in Threads : LocalsFit(u)'
    BY <1>0, <2>1, <2>3, LocalsOfOthers DEF TypeOK
  <2>5. NothingBound'
    BY <1>0, <2>1 DEF NothingBound, TypeOK, Ports
  <2> QED
    BY <2>2, <2>4, <2>5 DEF TypeInv
<1>3. CASE Free(t)
  <2>1. /\ pc[t] = "free" /\ pc' = [pc EXCEPT ![t] = "destroyV"]
        /\ ref[t] \in Refs /\ ref' = [ref EXCEPT ![t] = NULL]
        /\ kind' = [kind EXCEPT ![ref[t]] = "free"]
        /\ number' = [number EXCEPT ![ref[t]] = 0]
        /\ data_queue' = [data_queue EXCEPT ![ref[t]] = <<>>]
        /\ size' = [size EXCEPT ![ref[t]] = 0]
        /\ data_available' = [data_available EXCEPT ![ref[t]] = 0]
        /\ remote' = [remote EXCEPT ![ref[t]] = NULL]
        /\ UNCHANGED <<miniports, nextBoundPort, count, port, item, i, held>>
    BY <1>0, <1>3 DEF Free, At, Goto, LocalsFit, Destroying
  <2>2. TypeOK'
    BY <1>0, <2>1 DEF TypeOK, Steps
  <2>3. LocalsFit(t)'
    BY <1>0, <2>1 DEF TypeOK, LocalsFit, SearchSteps, CreateSteps, QueueSteps, Destroying
  <2>4. \A u \in Threads \ {t} : pc[u] \in QueueSteps => kind'[ref[u]] = kind[ref[u]]
    BY <1>0, <2>1 DEF TypeInv, LocalsFit, TypeOK, TableInv, DestroysAlone, Destroying
  <2>5. \A u \in Threads : LocalsFit(u)'
    BY <1>0, <2>1, <2>3, <2>4, LocalsOfOthers DEF TypeOK
  <2> QED
    BY <1>0, <2>1, <2>2, <2>5 DEF TypeInv, NothingBound
<1> QED
  BY <1>1, <1>2, <1>3

(* The steps of minimsg_receive keep the types.                            *)
LEMMA ReceiveKeepsTypes ==
  ASSUME TypeInv, NEW t \in Threads,
         \/ \E r \in Refs : CallReceive(t, r)
         \/ (Dequeue(t) \/ LoadSize(t)) /\ ~Die(t)
         \/ Received(t)
  PROVE  TypeInv'
<1>0. TypeOK /\ NothingBound /\ LocalsFit(t)
  BY DEF TypeInv
<1>1. ASSUME NEW r \in Refs, CallReceive(t, r) PROVE TypeInv'
  <2>1. /\ pc' = [pc EXCEPT ![t] = "dequeue"] /\ ref' = [ref EXCEPT ![t] = r]
        /\ kind[r] = "unbound" /\ data_available[r] > 0
        /\ data_available' = [data_available EXCEPT ![r] = @ - 1]
        /\ UNCHANGED <<miniports, nextBoundPort, kind, number, data_queue, size,
                       remote, count, port, item, i, held>>
    BY <1>1 DEF CallReceive, Goto
  <2>2. TypeOK'
    BY <1>0, <2>1 DEF TypeOK, Steps
  <2>3. LocalsFit(t)'
    BY <1>0, <2>1 DEF TypeOK, LocalsFit, SearchSteps, CreateSteps, QueueSteps, Destroying
  <2>4. \A u \in Threads : LocalsFit(u)'
    BY <1>0, <2>1, <2>3, LocalsOfOthers DEF TypeOK
  <2> QED
    BY <1>0, <2>1, <2>2, <2>4 DEF TypeInv, NothingBound
<1>2. CASE Dequeue(t) /\ ~Die(t)
  <2>1. /\ pc[t] = "dequeue" /\ ref[t] \in Refs /\ kind[ref[t]] = "unbound"
        /\ data_queue[ref[t]] # <<>>
        /\ item' = [item EXCEPT ![t] = Head(data_queue[ref[t]])]
        /\ data_queue' = [data_queue EXCEPT ![ref[t]] = Tail(@)]
        /\ pc' = [pc EXCEPT ![t] = "unlinked"]
        /\ UNCHANGED <<miniports, nextBoundPort, kind, number, size, data_available,
                       remote, count, port, ref, i, held>>
    BY <1>0, <1>2 DEF Dequeue, At, Goto, LocalsFit, QueueSteps
  <2>2. data_queue[ref[t]] \in Seq(Hosts \cup {NULL})
    BY <1>0, <2>1 DEF TypeOK
  <2>3. /\ Head(data_queue[ref[t]]) \in Hosts \cup {NULL}
        /\ Tail(data_queue[ref[t]]) \in Seq(Hosts \cup {NULL})
    BY <2>1, <2>2
  <2>4. data_queue' \in [Refs -> Seq(Hosts \cup {NULL})]
    BY <1>0, <2>1, <2>3 DEF TypeOK
  <2>5. TypeOK'
    BY <1>0, <2>1, <2>3, <2>4 DEF TypeOK, Steps
  <2>6. LocalsFit(t)'
    BY <1>0, <2>1 DEF TypeOK, LocalsFit, SearchSteps, CreateSteps, QueueSteps, Destroying
  <2>7. \A u \in Threads : LocalsFit(u)'
    BY <1>0, <2>1, <2>6, LocalsOfOthers DEF TypeOK
  <2> QED
    BY <1>0, <2>1, <2>5, <2>7 DEF TypeInv, NothingBound
<1>3. CASE LoadSize(t) /\ ~Die(t)
  <2>1. /\ pc[t] = "unlinked" /\ pc' = [pc EXCEPT ![t] = "loaded"]
        /\ UNCHANGED <<miniports, nextBoundPort, kind, number, data_queue, size,
                       data_available, remote, count, port, ref, item, i, held>>
    BY <1>3 DEF LoadSize, At, Goto, portVars
  <2>2. TypeOK'
    BY <1>0, <2>1 DEF TypeOK, Steps
  <2>3. LocalsFit(t)'
    BY <1>0, <2>1 DEF TypeOK, LocalsFit, SearchSteps, CreateSteps, QueueSteps, Destroying
  <2>4. \A u \in Threads : LocalsFit(u)'
    BY <1>0, <2>1, <2>3, LocalsOfOthers DEF TypeOK
  <2> QED
    BY <1>0, <2>1, <2>2, <2>4 DEF TypeInv, NothingBound
<1>4. CASE Received(t)
  <2>1. /\ ref[t] \in Hosts \cup {NULL}
        /\ UNCHANGED <<miniports, nextBoundPort, kind, number, data_queue, size,
                       data_available, remote, count>>
    BY <1>0, <1>4 DEF Received, At, LocalsFit, portVars
  <2>2. MovesAlone(t)
    <3>1. CASE Return(t, NULL)
      BY <3>1, ReturnTypes
    <3>2. CASE ref[t] \in Hosts /\ StartBound(t, ref[t]) /\ item' = item /\ held' = held
      BY <3>2, StartBoundTypes
    <3> QED
      BY <1>4, <2>1, <3>1, <3>2 DEF Received
  <2>3. TypeOK'
    BY <1>0, <2>1, <2>2 DEF TypeOK, MovesAlone
  <2>4. \A u \in Threads : LocalsFit(u)'
    BY <2>1, <2>2, LocalsOfOthers DEF MovesAlone
  <2> QED
    BY <1>0, <2>1, <2>3, <2>4 DEF TypeInv, NothingBound
<1> QED
  BY <1>1, <1>2, <1>3, <1>4

(* What the receiver takes off size is in it.                              *)
LEMMA StoreSizeKeepsTypes ==
  ASSUME TypeInv, QueueInv, NEW t \in Threads, StoreSize(t)
  PROVE  TypeInv' /\ size[ref[t]] \in Nat \ {0}
<1>0. TypeOK /\ NothingBound /\ LocalsFit(t)
  BY DEF TypeInv
<1>1. /\ pc[t] = "loaded" /\ ref[t] \in Refs /\ kind[ref[t]] = "unbound"
      /\ size' = [size EXCEPT ![ref[t]] = @ - 1]
      /\ ref' = [ref EXCEPT ![t] = item[t]] /\ item' = [item EXCEPT ![t] = NULL]
      /\ pc' = [pc EXCEPT ![t] = "received"]
      /\ UNCHANGED <<miniports, nextBoundPort, kind, number, data_queue, data_available,
                     remote, count, port, i, held>>
  BY <1>0 DEF StoreSize, At, Goto, LocalsFit, QueueSteps
<1>2. PICK r \in Refs : r = ref[t]
  BY <1>1
<1>3. size[r] \in Nat \ {0}
  <2>1. /\ IsFiniteSet(Receivers(r, QueueSteps))
        /\ size[r] = data_available[r] + Cardinality(Receivers(r, QueueSteps))
    BY <1>1, <1>2 DEF QueueInv, QueueFits
  <2>2. t \in Receivers(r, QueueSteps)
    BY <1>1, <1>2 DEF Receivers, QueueSteps
  <2>3. Cardinality(Receivers(r, QueueSteps)) \in Nat \ {0}
    BY <2>1, <2>2, FS_CardinalityType, FS_EmptySet
  <2>4. data_available[r] \in Nat
    BY <1>0 DEF TypeOK
  <2> QED
    BY <2>1, <2>3, <2>4
<1>4. size' \in [Refs -> Nat]
  <2>1. size[r] - 1 \in Nat
    BY <1>3
  <2> QED
    BY <1>0, <1>1, <1>2, <2>1 DEF TypeOK
<1>5. TypeOK'
  BY <1>0, <1>1, <1>4 DEF TypeOK, Steps
<1>6. LocalsFit(t)'
  BY <1>0, <1>1 DEF TypeOK, LocalsFit, SearchSteps, CreateSteps, QueueSteps, Destroying
<1>7. \A u \in Threads : LocalsFit(u)'
  BY <1>0, <1>1, <1>6, LocalsOfOthers DEF TypeOK
<1> QED
  BY <1>0, <1>1, <1>2, <1>3, <1>5, <1>7 DEF TypeInv, NothingBound

(* The handler keeps the types.                                            *)
LEMMA DeliveryKeepsTypes ==
  ASSUME TypeInv, NEW r \in Refs, NEW s \in Hosts \cup {NULL}, Delivers(r, s)
  PROVE  TypeInv'
<1>0. TypeOK /\ NothingBound
  BY DEF TypeInv
<1>1. /\ size' = [size EXCEPT ![r] = @ + 1]
      /\ data_available' = [data_available EXCEPT ![r] = @ + 1]
      /\ UNCHANGED <<miniports, nextBoundPort, kind, number, remote, count,
                     pc, port, ref, item, i, held>>
  BY DEF Delivers, queue_append, localVars
<1>2. data_queue' \in [Refs -> Seq(Hosts \cup {NULL})]
  <2>1. data_queue[r] \in Seq(Hosts \cup {NULL})
    BY <1>0 DEF TypeOK
  <2>2. /\ <<s>> \in Seq(Hosts \cup {NULL}) /\ <<>> \in Seq(Hosts \cup {NULL})
        /\ Append(data_queue[r], s) \in Seq(Hosts \cup {NULL})
    BY <2>1
  <2>3. data_queue' = [data_queue EXCEPT ![r] =
                         IF size[r] = 0 THEN <<s>>
                         ELSE IF data_queue[r] = <<>> THEN <<>> ELSE Append(data_queue[r], s)]
    BY DEF Delivers, queue_append
  <2>4. PICK q \in Seq(Hosts \cup {NULL}) :
          q = IF size[r] = 0 THEN <<s>>
              ELSE IF data_queue[r] = <<>> THEN <<>> ELSE Append(data_queue[r], s)
    BY <2>2
  <2>5. data_queue' = [data_queue EXCEPT ![r] = q]
    BY <2>3, <2>4
  <2> QED
    BY <1>0, <2>5 DEF TypeOK
<1>3. size' \in [Refs -> Nat] /\ data_available' \in [Refs -> Nat]
  BY <1>0, <1>1 DEF TypeOK
<1>4. TypeOK'
  BY <1>0, <1>1, <1>2, <1>3 DEF TypeOK
<1>5. \A u \in Threads : LocalsFit(u)'
  BY <1>1 DEF TypeInv, LocalsFit, Destroying
<1> QED
  BY <1>0, <1>1, <1>4, <1>5 DEF TypeInv, NothingBound

(* A step of t that neither creates nor clears nor frees a port: t may get *)
(* a port it was making or that the table shows, or use one it holds.      *)
UserStep(t) ==
  /\ UNCHANGED <<miniports, kind, number>>
  /\ \A r \in Refs : kind[r] = "free" => /\ data_queue'[r] = data_queue[r]
                                         /\ size'[r] = size[r]
                                         /\ data_available'[r] = data_available[r]
  /\ \A u \in Threads \ {t} : /\ pc'[u] = pc[u] /\ ref'[u] = ref[u]
                              /\ port'[u] = port[u] /\ held'[u] = held[u]
  /\ pc[t] # "free"
  /\ ref'[t] \in Refs => ref'[t] = ref[t] \/ ref'[t] \in held[t]
  /\ held'[t] \subseteq Refs
  /\ \A r \in held'[t] : \/ r \in held[t] \/ r = ref[t]
                         \/ pc[t] = "reread" /\ r = miniports[port[t]]
  /\ pc'[t] \in CreateSteps => \/ pc[t] \in CreateSteps /\ port'[t] = port[t]
                               \/ ~BeingDestroyed(port'[t])

(* Such a step keeps the table and the references right.                   *)
LEMMA UserStepKeepsTable ==
  ASSUME TypeInv, TableInv, NEW t \in Threads, UserStep(t), DestroysAlone(t)'
  PROVE  TableInv'
<1>0. TypeOK /\ LocalsFit(t) /\ UsesExisting(t)
  BY DEF TypeInv, TableInv
<1>1. \A p \in Ports : EntryShowsPort(p)'
  BY DEF TableInv, EntryShowsPort, UserStep
<1>2. ASSUME NEW r \in Refs PROVE PortFits(r)'
  <2>1. PortFits(r)
    BY DEF TableInv
  <2>2. UNCHANGED <<miniports, kind, number>>
        /\ (kind[r] = "free" => /\ data_queue'[r] = data_queue[r]
                                /\ size'[r] = size[r]
                                /\ data_available'[r] = data_available[r])
    BY DEF UserStep
  <2>3. ASSUME NEW u \in Threads, pc[u] = "free", ref[u] = r
        PROVE  pc'[u] = "free" /\ ref'[u] = r
    BY <2>3 DEF UserStep
  <2> QED
    BY <2>1, <2>2, <2>3 DEF PortFits
<1>3. ASSUME NEW u \in Threads PROVE UsesExisting(u)'
  <2>1. UsesExisting(u) /\ kind' = kind
    BY DEF TableInv, UserStep
  <2>2. CASE u # t
    BY <2>1, <2>2 DEF UsesExisting, UserStep
  <2>3. CASE u = t
    <3>1. ref'[t] \in Refs => kind[ref'[t]] # "free"
      BY <1>0 DEF UsesExisting, UserStep
    <3>2. ASSUME NEW r \in held'[t] PROVE kind[r] # "free"
      <4>1. r \in Refs
        BY DEF UserStep
      <4>2. CASE r \in held[t] \/ r = ref[t]
        BY <1>0, <4>1, <4>2 DEF UsesExisting
      <4>3. CASE pc[t] = "reread" /\ r = miniports[port[t]]
        <5>1. port[t] \in Ports
          BY <1>0, <4>3, PortRanges DEF LocalsFit, CreateSteps
        <5> QED
          BY <4>1, <4>3, <5>1, PortRanges DEF TableInv, EntryShowsPort
      <4> QED
        BY <3>2, <4>2, <4>3 DEF UserStep
    <3> QED
      BY <2>1, <2>3, <3>1, <3>2 DEF UsesExisting
  <2> QED
    BY <2>2, <2>3
<1>4. ASSUME NEW u \in Threads \ {t} PROVE DestroysAlone(u)'
  <2> SUFFICES ASSUME Destroying(u)' PROVE DestroysAlone(u)'
    BY DEF DestroysAlone
  <2>1. /\ Destroying(u) /\ pc'[u] = pc[u] /\ ref'[u] = ref[u] /\ ref[u] \in Refs
        /\ UNCHANGED <<miniports, number>>
    BY DEF UserStep, Destroying, TypeInv, LocalsFit
  <2>2. /\ \A v \in Threads : /\ ref[u] \notin held[v]
                              /\ pc[v] \in CreateSteps => port[v] # number[ref[u]]
                              /\ v # u => ref[v] # ref[u]
        /\ pc[u] = "free" => \A p \in Ports : miniports[p] # ref[u]
    BY <2>1 DEF TableInv, DestroysAlone
  <2>3. ref[u] \notin held'[t]
    <3>1. CASE pc[t] = "reread" /\ ref[u] = miniports[port[t]]
      <4>1. port[t] \in Ports /\ pc[t] \in CreateSteps
        BY <1>0, <3>1, PortRanges DEF LocalsFit, CreateSteps
      <4>2. number[ref[u]] = port[t]
        BY <2>1, <3>1, <4>1, PortRanges DEF TableInv, EntryShowsPort
      <4> QED
        BY <2>2, <4>1, <4>2
    <3> QED
      BY <2>2, <3>1 DEF UserStep
  <2>4. pc'[t] \in CreateSteps => port'[t] # number[ref[u]]
    BY <2>1, <2>2 DEF UserStep, BeingDestroyed, Destroying
  <2>5. ref'[t] # ref[u]
    BY <2>1, <2>2 DEF UserStep
  <2> QED
    BY <2>1, <2>2, <2>3, <2>4, <2>5 DEF DestroysAlone, UserStep
<1> QED
  BY <1>1, <1>2, <1>3, <1>4 DEF TableInv

(* When t does not destroy, its part of DestroysAlone is void.             *)
LEMMA NotDestroying ==
  ASSUME NEW t \in Threads, pc'[t] \notin {"destroyP", "clear", "free"}
  PROVE  DestroysAlone(t)'
BY DEF DestroysAlone, Destroying

(* A P keeps the table right.                                              *)
LEMMA PKeepsTable ==
  ASSUME TypeInv, TableInv, NEW t \in Threads, NEW l, NEW from, NEW to,
         <<l, from, to>> \in {<<"unbound", "unboundP", "lookup">>,
                              <<"bound", "boundP", "search">>,
                              <<"destroy", "destroyP", "clear">>},
         P(t, l, from, to)
  PROVE  TableInv'
<1>1. /\ pc[t] = from
      /\ \/ from = "unboundP" /\ to = "lookup"
         \/ from = "boundP" /\ to = "search"
         \/ from = "destroyP" /\ to = "clear"
      /\ pc' = [pc EXCEPT ![t] = to]
      /\ UNCHANGED <<miniports, kind, number, data_queue, size, data_available, port, ref, held>>
  BY DEF P, At, Goto, portVars
<1>2. TypeOK
  BY DEF TypeInv
<1>3. UserStep(t)
  BY <1>1, <1>2 DEF UserStep, TypeOK, CreateSteps
<1>4. DestroysAlone(t)'
  <2>1. DestroysAlone(t) /\ pc'[t] = to
    BY <1>1, <1>2 DEF TableInv, TypeOK
  <2>2. CASE to = "clear"
    BY <1>1, <1>2, <2>1, <2>2 DEF DestroysAlone, Destroying, TypeOK, CreateSteps
  <2> QED
    BY <1>1, <2>1, <2>2, NotDestroying
<1> QED
  BY <1>3, <1>4, UserStepKeepsTable

(* So does a return with a reference the table shows or the thread made.   *)
LEMMA ReturnsKeepTable ==
  ASSUME TypeInv, TableInv, NEW t \in Threads,
         ReRead(t) \/ CreatedUnbound(t) \/ CreatedBound(t) \/ Destroyed(t)
  PROVE  TableInv'
<1>0. TypeOK /\ LocalsFit(t)
  BY DEF TypeInv
<1>1. /\ pc[t] # "free"
      /\ UNCHANGED <<miniports, kind, number, data_queue, size, data_available>>
      /\ \E r \in Refs \cup {NULL} :
           /\ Return(t, r)
           /\ r = NULL \/ r = ref[t] \/ (pc[t] = "reread" /\ r = miniports[port[t]])
  <2>1. CASE ReRead(t)
    <3>1. port[t] \in Ports
      BY <1>0, <2>1, PortRanges DEF ReRead, At, LocalsFit, CreateSteps
    <3> QED
      BY <1>0, <2>1, <3>1 DEF ReRead, TypeOK, portVars, At
  <2>2. CASE CreatedUnbound(t) \/ CreatedBound(t)
    BY <1>0, <2>2 DEF CreatedUnbound, CreatedBound, At, LocalsFit, portVars
  <2>3. CASE Destroyed(t)
    BY <2>3 DEF Destroyed, At, portVars
  <2> QED
    BY <2>1, <2>2, <2>3
<1>2. PICK r \in Refs \cup {NULL} :
        /\ Return(t, r)
        /\ r = NULL \/ r = ref[t] \/ (pc[t] = "reread" /\ r = miniports[port[t]])
  BY <1>1
<1>3. /\ pc'[t] = "idle" /\ ref'[t] = NULL /\ held'[t] = held[t] \cup ({r} \ {NULL})
      /\ held[t] \subseteq Refs
      /\ \A u \in Threads \ {t} : /\ pc'[u] = pc[u] /\ ref'[u] = ref[u]
                                  /\ port'[u] = port[u] /\ held'[u] = held[u]
  BY <1>0, <1>2 DEF Return, TypeOK
<1>4. UserStep(t)
  BY <1>0, <1>1, <1>2, <1>3, PortRanges DEF UserStep, CreateSteps
<1> QED
  BY <1>3, <1>4, NotDestroying, UserStepKeepsTable

(* So do the calls and the steps that only look.                           *)
LEMMA CallsKeepTable ==
  ASSUME TypeInv, TableInv, NEW t \in Threads,
         \/ \E p \in UnboundPorts : CallCreateUnbound(t, p)
         \/ \E h \in Hosts : CallCreateBound(t, h)
         \/ \E r \in Refs : CallReceive(t, r)
         \/ Found(t) \/ Search(t)
  PROVE  TableInv'
<1>0. TypeOK /\ UsesExisting(t)
  BY DEF TypeInv, TableInv
<1>1. ASSUME NEW p \in UnboundPorts, CallCreateUnbound(t, p) PROVE TableInv'
  <2>1. UserStep(t) /\ pc'[t] = "unboundP"
    BY <1>0, <1>1 DEF CallCreateUnbound, At, Goto, UserStep, TypeOK, portVars
  <2> QED
    BY <2>1, NotDestroying, UserStepKeepsTable
<1>2. ASSUME NEW h \in Hosts, CallCreateBound(t, h) PROVE TableInv'
  <2>1. UserStep(t) /\ pc'[t] = "boundP"
    BY <1>0, <1>2, PortRanges
       DEF CallCreateBound, StartBound, At, Goto, UserStep, TypeOK, portVars, CreateSteps
  <2> QED
    BY <2>1, NotDestroying, UserStepKeepsTable
<1>3. ASSUME NEW r \in Refs, CallReceive(t, r) PROVE TableInv'
  <2>1. kind[r] # "free"
    BY <1>3 DEF CallReceive
  <2>2. UserStep(t) /\ pc'[t] = "dequeue"
    BY <1>0, <1>3, <2>1 DEF CallReceive, At, Goto, UserStep, TypeOK, CreateSteps
  <2> QED
    BY <2>2, NotDestroying, UserStepKeepsTable
<1>4. CASE Found(t)
  <2>1. UserStep(t) /\ pc'[t] = "reread"
    BY <1>0, <1>4 DEF Found, At, Goto, UserStep, TypeOK, portVars, CreateSteps
  <2> QED
    BY <2>1, NotDestroying, UserStepKeepsTable
<1>5. CASE Search(t)
  <2>1. /\ pc[t] = "search" /\ pc'[t] \in {"search", "take"}
        /\ \A u \in Threads \ {t} : pc'[u] = pc[u] /\ port'[u] = port[u]
        /\ UNCHANGED <<miniports, kind, number, data_queue, size, data_available, ref, held>>
    BY <1>0, <1>5 DEF Search, At, Goto, TypeOK, portVars
  <2>2. UserStep(t)
    BY <1>0, <2>1 DEF UserStep, TypeOK, CreateSteps
  <2> QED
    BY <2>1, <2>2, NotDestroying, UserStepKeepsTable
<1> QED
  BY <1>1, <1>2, <1>3, <1>4, <1>5

(* So do the later steps of a receiver.                                    *)
LEMMA DequeueKeepsTable ==
  ASSUME TypeInv, TableInv, NEW t \in Threads,
         Dequeue(t) \/ LoadSize(t) \/ StoreSize(t) \/ Received(t)
  PROVE  TableInv'
<1>0. /\ TypeOK /\ UsesExisting(t)
      /\ pc[t] \in QueueSteps => ref[t] \in Refs
      /\ pc[t] = "received" => ref[t] \in Hosts \cup {NULL}
  BY DEF TypeInv, TableInv, LocalsFit
<1>1. pc[t] \in QueueSteps \cup {"received"}
  BY DEF Dequeue, LoadSize, StoreSize, Received, At, QueueSteps
<1>2. /\ UNCHANGED <<miniports, kind, number, data_available>>
      /\ \A u \in Threads : held'[u] = held[u]
      /\ \/ UNCHANGED <<data_queue, size>>
         \/ /\ pc[t] \in QueueSteps
            /\ \/ data_queue' = [data_queue EXCEPT ![ref[t]] = Tail(@)] /\ size' = size
               \/ size' = [size EXCEPT ![ref[t]] = @ - 1] /\ data_queue' = data_queue
  <2>1. CASE Received(t)
    <3>1. \A u \in Threads : held'[u] = held[u]
      <4>1. held[t] \cup ({NULL} \ {NULL}) = held[t]
        OBVIOUS
      <4>2. held' = held \/ held' = [held EXCEPT ![t] = held[t] \cup ({NULL} \ {NULL})]
        BY <2>1 DEF Received, Return
      <4>3. held' = held \/ held' = [held EXCEPT ![t] = held[t]]
        BY <4>1, <4>2
      <4> QED
        BY <1>0, <4>3 DEF TypeOK
    <3> QED
      BY <2>1, <3>1 DEF Received, portVars
  <2>2. CASE LoadSize(t) \/ StoreSize(t)
    BY <1>1, <2>2 DEF LoadSize, StoreSize, Die, At, portVars, QueueSteps
  <2>3. CASE Dequeue(t)
    BY <1>1, <2>3 DEF Dequeue, Die, At, portVars, QueueSteps
  <2> QED
    BY <2>1, <2>2, <2>3
<1>3. \A r \in Refs : kind[r] = "free" => data_queue'[r] = data_queue[r] /\ size'[r] = size[r]
  <2>1. pc[t] \in QueueSteps => kind[ref[t]] # "free"
    BY <1>0 DEF UsesExisting
  <2> QED
    BY <1>0, <1>2, <2>1 DEF TypeOK
<1>4. /\ pc'[t] \in {"unlinked", "loaded", "received", "idle", "boundP", "dead"}
      /\ ref'[t] = ref[t] \/ ref'[t] \in Hosts \cup {NULL}
      /\ \A u \in Threads \ {t} : pc'[u] = pc[u] /\ ref'[u] = ref[u] /\ port'[u] = port[u]
  <2>1. CASE Dequeue(t) \/ LoadSize(t)
    BY <1>0, <2>1 DEF Dequeue, LoadSize, Die, Goto, TypeOK
  <2>2. CASE StoreSize(t)
    BY <1>0, <2>2 DEF StoreSize, Goto, TypeOK
  <2>3. CASE Received(t)
    BY <1>0, <2>3 DEF Received, At, Return, StartBound, Goto, TypeOK
  <2> QED
    BY <2>1, <2>2, <2>3
<1>5. UserStep(t)
  <2>1. pc[t] # "free" /\ pc'[t] \notin CreateSteps
    BY <1>1, <1>4 DEF QueueSteps, CreateSteps
  <2>2. ref'[t] \in Refs => ref'[t] = ref[t]
    BY <1>4, PortRanges
  <2> QED
    BY <1>0, <1>2, <1>3, <1>4, <2>1, <2>2 DEF UserStep, TypeOK
<1> QED
  BY <1>4, <1>5, NotDestroying, UserStepKeepsTable

(* A thread that destroys a port was its only user.                        *)
LEMMA CallDestroyKeepsTable ==
  ASSUME TypeInv, TableInv, NEW t \in Threads, NEW r \in Refs, CallDestroy(t, r)
  PROVE  TableInv'
<1>0. TypeOK
  BY DEF TypeInv
<1>1. /\ pc[t] = "idle" /\ r \in held[t] /\ ~InUse(t, r)
      /\ pc' = [pc EXCEPT ![t] = "destroyP"] /\ ref' = [ref EXCEPT ![t] = r]
      /\ held' = [held EXCEPT ![t] = @ \ {r}]
      /\ UNCHANGED <<miniports, kind, number, data_queue, size, data_available, port>>
  BY DEF CallDestroy, At, Goto, portVars
<1>2. UserStep(t)
  BY <1>0, <1>1 DEF UserStep, TypeOK, CreateSteps
<1>3. /\ pc'[t] = "destroyP" /\ ref'[t] = r /\ held'[t] = held[t] \ {r}
      /\ \A u \in Threads \ {t} : /\ pc'[u] = pc[u] /\ ref'[u] = ref[u]
                                  /\ port'[u] = port[u] /\ held'[u] = held[u]
                                  /\ r \notin held[u] /\ ref[u] # r
                                  /\ pc[u] \in CreateSteps => port[u] # number[r]
  BY <1>0, <1>1 DEF InUse, TypeOK
<1>4. DestroysAlone(t)'
  BY <1>1, <1>3 DEF DestroysAlone, CreateSteps
<1> QED
  BY <1>2, <1>4, UserStepKeepsTable

(* A step of t that puts a new port r at an empty entry p.                 *)
LEMMA CreateKeepsTable ==
  ASSUME TypeInv, TableInv, NEW t \in Threads, NEW r \in Refs, NEW p \in Ports,
         NEW k \in {"unbound", "bound"}, NEW host,
         Create(r, k, p, host), miniports[p] = NULL,
         k = "unbound" => p \in UnboundPorts, k = "bound" => p \in BoundPorts,
         ref' = [ref EXCEPT ![t] = r],
         \E s \in {"unboundV", "boundV"} : pc' = [pc EXCEPT ![t] = s],
         pc[t] \in {"lookup", "take"}, pc'[t] = "unboundV" => pc[t] = "lookup",
         UNCHANGED <<port, held>>
  PROVE  TableInv'
<1>0. TypeOK /\ LocalsFit(t)
  BY DEF TypeInv
<1>1. /\ kind[r] = "free" /\ kind' = [kind EXCEPT ![r] = k]
      /\ number' = [number EXCEPT ![r] = p]
      /\ miniports' = [miniports EXCEPT ![p] = r]
      /\ UNCHANGED <<data_queue, size, data_available>>
  BY DEF Create
<1>2. \A u \in Threads \ {t} : pc'[u] = pc[u] /\ ref'[u] = ref[u]
  BY <1>0 DEF TypeOK
<1>3. pc'[t] \in {"unboundV", "boundV"} /\ ref'[t] = r
  BY <1>0 DEF TypeOK
<1>4. ASSUME NEW q \in Ports PROVE EntryShowsPort(q)'
  <2>1. EntryShowsPort(q)
    BY DEF TableInv
  <2>2. miniports'[p] = r /\ kind'[r] = k /\ number'[r] = p
    BY <1>0, <1>1 DEF TypeOK
  <2>3. CASE q = p
    BY <2>2, <2>3 DEF EntryShowsPort
  <2>4. CASE q # p
    <3>1. miniports'[q] = miniports[q] /\ miniports[q] \in Refs \cup {NULL}
      BY <1>0, <1>1, <2>4 DEF TypeOK
    <3>2. miniports[q] # NULL => miniports[q] # r
      BY <1>1, <2>1 DEF EntryShowsPort
    <3> QED
      BY <1>0, <1>1, <2>1, <3>1, <3>2 DEF EntryShowsPort, TypeOK
  <2> QED
    BY <2>3, <2>4
<1>5. ASSUME NEW x \in Refs PROVE PortFits(x)'
  <2>1. PortFits(x)
    BY DEF TableInv
  <2>2. CASE x = r
    BY <1>0, <1>1, <2>2, PortRanges DEF PortFits, TypeOK
  <2>3. CASE x # r
    <3>1. kind'[x] = kind[x] /\ number'[x] = number[x]
      BY <1>0, <1>1, <2>3 DEF TypeOK
    <3>2. ASSUME kind[x] # "free"
          PROVE  miniports'[number[x]] = x \/ \E u \in Threads : pc'[u] = "free" /\ ref'[u] = x
      <4>1. CASE miniports[number[x]] = x
        <5>1. number[x] \in Ports
          BY <1>0, <2>1, <3>2, PortRanges DEF PortFits, TypeOK
        <5> QED
          BY <1>0, <1>1, <4>1, <5>1, PortRanges DEF TypeOK
      <4>2. ASSUME NEW u \in Threads, pc[u] = "free", ref[u] = x
            PROVE  pc'[u] = "free" /\ ref'[u] = x
        BY <1>2, <4>2
      <4> QED
        BY <2>1, <3>2, <4>1, <4>2 DEF PortFits
    <3> QED
      BY <1>1, <2>1, <3>1, <3>2 DEF PortFits
  <2> QED
    BY <2>2, <2>3
<1>6. ASSUME NEW u \in Threads PROVE UsesExisting(u)'
  <2>1. UsesExisting(u)
    BY DEF TableInv
  <2>2. \A x \in Refs : kind[x] # "free" => kind'[x] # "free"
    BY <1>0, <1>1 DEF TypeOK
  <2>3. held[u] \subseteq Refs /\ kind'[r] # "free"
    BY <1>0, <1>1 DEF TypeOK
  <2>4. ref'[u] = r \/ ref'[u] = ref[u]
    BY <1>2, <1>3
  <2> QED
    BY <2>1, <2>2, <2>3, <2>4 DEF UsesExisting
<1>7. ASSUME NEW u \in Threads PROVE DestroysAlone(u)'
  <2> SUFFICES ASSUME Destroying(u)', u # t PROVE DestroysAlone(u)'
    BY <1>3 DEF DestroysAlone, Destroying
  <2>1. /\ Destroying(u) /\ ref'[u] = ref[u] /\ pc'[u] = pc[u] /\ ref[u] \in Refs
        /\ DestroysAlone(u)
    BY <1>2 DEF Destroying, TypeInv, LocalsFit, TableInv
  <2>2. ref[u] # r /\ number'[ref[u]] = number[ref[u]]
    BY <1>0, <1>1, <2>1 DEF TableInv, UsesExisting, TypeOK
  <2>3. \A v \in Threads : pc'[v] \in CreateSteps => pc[v] \in CreateSteps
    BY <1>2, <1>3 DEF CreateSteps
  <2>4. \A v \in Threads : ref'[v] = ref[v] \/ ref'[v] = r
    BY <1>2, <1>3
  <2>5. \A q \in Ports : miniports'[q] = miniports[q] \/ miniports'[q] = r
    BY <1>0, <1>1 DEF TypeOK
  <2> QED
    BY <2>1, <2>2, <2>3, <2>4, <2>5 DEF DestroysAlone, Destroying
<1> QED
  BY <1>4, <1>5, <1>6, <1>7 DEF TableInv

(* The two places where ports are created.                                 *)
LEMMA CreatorsKeepTable ==
  ASSUME TypeInv, TableInv, NEW t \in Threads, LookUp(t) \/ Take(t)
  PROVE  TableInv'
<1>0. TypeOK /\ LocalsFit(t)
  BY DEF TypeInv
<1>1. CASE LookUp(t)
  <2>1. /\ pc[t] = "lookup" /\ port[t] \in UnboundPorts /\ port[t] \in Ports
        /\ UNCHANGED <<port, held>>
    BY <1>0, <1>1, PortRanges DEF LookUp, At, LocalsFit, CreateSteps
  <2>2. ASSUME NEW s \in {"found", "unboundV"}, pc' = [pc EXCEPT ![t] = s],
               UNCHANGED <<miniports, portVars, ref>>
        PROVE  TableInv'
    <3>1. UserStep(t) /\ pc'[t] = s
      BY <1>0, <2>1, <2>2 DEF UserStep, TypeOK, CreateSteps, portVars
    <3> QED
      BY <3>1, NotDestroying, UserStepKeepsTable
  <2>3. ASSUME NEW r \in Refs, Create(r, "unbound", port[t], NULL), miniports[port[t]] = NULL,
               ref' = [ref EXCEPT ![t] = r], pc' = [pc EXCEPT ![t] = "unboundV"]
        PROVE  TableInv'
    BY <2>1, <2>3, CreateKeepsTable
  <2> QED
    BY <1>1, <2>2, <2>3 DEF LookUp, Goto
<1>2. CASE Take(t)
  <2>1. /\ pc[t] = "take" /\ port[t] \in BoundPorts /\ port[t] \in Ports
        /\ pc' = [pc EXCEPT ![t] = "boundV"] /\ pc'[t] = "boundV"
        /\ UNCHANGED <<port, held>>
    BY <1>0, <1>2, PortRanges DEF Take, At, Goto, LocalsFit, SearchSteps, TypeOK
  <2>2. CASE ref' = [ref EXCEPT ![t] = NULL] /\ UNCHANGED <<miniports, portVars>>
    <3>1. UserStep(t)
      BY <1>0, <2>1, <2>2, PortRanges DEF UserStep, TypeOK, CreateSteps, portVars
    <3> QED
      BY <2>1, <3>1, NotDestroying, UserStepKeepsTable
  <2>3. ASSUME NEW r \in Refs, Create(r, "bound", port[t], ref[t]), miniports[port[t]] = NULL,
               ref' = [ref EXCEPT ![t] = r]
        PROVE  TableInv'
    BY <2>1, <2>3, CreateKeepsTable
  <2> QED
    BY <1>2, <2>2, <2>3 DEF Take
<1> QED
  BY <1>1, <1>2

(* The destroyer takes its port out of the table, where it was shown.      *)
LEMMA ClearKeepsTable ==
  ASSUME TypeInv, TableInv, NEW t \in Threads, Clear(t)
  PROVE  TableInv'
<1> DEFINE r == ref[t]
<1>0. /\ TypeOK /\ pc[t] = "clear" /\ r \in Refs /\ Destroying(t) /\ kind[r] # "free"
      /\ DestroysAlone(t)
  BY DEF TypeInv, LocalsFit, Destroying, Clear, At, TableInv, UsesExisting
<1>1. /\ miniports' = [miniports EXCEPT ![number[r]] = NULL]
      /\ pc' = [pc EXCEPT ![t] = "free"]
      /\ UNCHANGED <<kind, number, data_queue, size, data_available, ref, port, held>>
  BY DEF Clear, Goto, portVars
<1> HIDE DEF r
<1>2. number[r] \in Ports
  BY <1>0, PortRanges DEF TableInv, PortFits, TypeOK
<1>3. /\ miniports'[number[r]] = NULL
      /\ \A p \in Ports \ {number[r]} : miniports'[p] = miniports[p]
      /\ pc'[t] = "free" /\ \A u \in Threads \ {t} : pc'[u] = pc[u]
  BY <1>0, <1>1, <1>2 DEF TypeOK
<1>4. \A p \in Ports : EntryShowsPort(p)'
  BY <1>1, <1>3 DEF TableInv, EntryShowsPort
<1>5. ASSUME NEW x \in Refs PROVE PortFits(x)'
  <2>1. PortFits(x)
    BY DEF TableInv
  <2>2. ASSUME kind[x] # "free"
        PROVE  miniports'[number[x]] = x \/ \E u \in Threads : pc'[u] = "free" /\ ref'[u] = x
    <3>1. CASE x = r
      BY <1>1, <1>3, <3>1 DEF r
    <3>2. CASE x # r /\ miniports[number[x]] = x
      <4>1. number[x] \in Ports
        BY <2>1, <2>2, <1>0, PortRanges DEF PortFits, TypeOK
      <4>2. number[x] # number[r]
        <5>1. CASE miniports[number[r]] = r
          BY <3>2, <5>1
        <5>2. CASE \E u \in Threads : pc[u] = "free" /\ ref[u] = r
          BY <1>0, <5>2 DEF DestroysAlone, r
        <5> QED
          BY <1>0, <5>1, <5>2 DEF TableInv, PortFits
      <4> QED
        BY <1>3, <3>2, <4>1, <4>2
    <3>3. ASSUME NEW u \in Threads, pc[u] = "free", ref[u] = x
          PROVE  pc'[u] = "free" /\ ref'[u] = x
      BY <1>1, <1>3, <3>3
    <3> QED
      BY <2>1, <2>2, <3>1, <3>2, <3>3 DEF PortFits
  <2> QED
    BY <1>1, <2>1, <2>2 DEF PortFits
<1>6. \A u \in Threads : UsesExisting(u)'
  BY <1>1 DEF TableInv, UsesExisting
<1>7. ASSUME NEW u \in Threads PROVE DestroysAlone(u)'
  <2>1. DestroysAlone(u)
    BY DEF TableInv
  <2>2. \A v \in Threads : pc'[v] \in CreateSteps => pc[v] \in CreateSteps
    BY <1>3 DEF CreateSteps
  <2>3. CASE u # t
    <3>1. Destroying(u)' <=> Destroying(u)
      BY <1>3, <2>3 DEF Destroying
    <3>2. ref[u] # NULL \/ ~Destroying(u)
      BY PortRanges DEF TypeInv, LocalsFit
    <3> QED
      BY <1>1, <1>3, <2>1, <2>2, <2>3, <3>1, <3>2 DEF DestroysAlone
  <2>4. CASE u = t
    <3>1. \A p \in Ports : miniports'[p] # r
      BY <1>0, <1>3, PortRanges DEF TableInv, EntryShowsPort
    <3> QED
      BY <1>0, <1>1, <1>3, <2>2, <2>4, <3>1 DEF DestroysAlone, r
  <2> QED
    BY <2>3, <2>4
<1> QED
  BY <1>4, <1>5, <1>6, <1>7 DEF TableInv

(* The port that is freed is in no entry and nobody else has it.           *)
LEMMA FreeKeepsTable ==
  ASSUME TypeInv, TableInv, NEW t \in Threads, Free(t)
  PROVE  TableInv'
<1> DEFINE r == ref[t]
<1>0. /\ TypeOK /\ pc[t] = "free" /\ r \in Refs /\ Destroying(t) /\ DestroysAlone(t)
  BY DEF TypeInv, LocalsFit, Destroying, Free, At, TableInv
<1>1. /\ kind' = [kind EXCEPT ![r] = "free"] /\ number' = [number EXCEPT ![r] = 0]
      /\ data_queue' = [data_queue EXCEPT ![r] = <<>>]
      /\ size' = [size EXCEPT ![r] = 0]
      /\ data_available' = [data_available EXCEPT ![r] = 0]
      /\ pc' = [pc EXCEPT ![t] = "destroyV"] /\ ref' = [ref EXCEPT ![t] = NULL]
      /\ UNCHANGED <<miniports, port, held>>
  BY DEF Free, Goto
<1>2. /\ \A u \in Threads : r \notin held[u] /\ (u # t => ref[u] # r)
      /\ \A p \in Ports : miniports[p] # r
  BY <1>0 DEF DestroysAlone
<1> HIDE DEF r
<1>3. /\ \A x \in Refs \ {r} : /\ kind'[x] = kind[x] /\ number'[x] = number[x]
                               /\ data_queue'[x] = data_queue[x]
                               /\ size'[x] = size[x]
                               /\ data_available'[x] = data_available[x]
      /\ kind'[r] = "free" /\ data_queue'[r] = <<>> /\ size'[r] = 0 /\ data_available'[r] = 0
      /\ pc'[t] = "destroyV" /\ ref'[t] = NULL
      /\ \A u \in Threads \ {t} : pc'[u] = pc[u] /\ ref'[u] = ref[u]
  BY <1>0, <1>1 DEF TypeOK
<1>4. \A p \in Ports : EntryShowsPort(p)'
  BY <1>0, <1>1, <1>2, <1>3 DEF TableInv, EntryShowsPort, TypeOK
<1>5. ASSUME NEW x \in Refs PROVE PortFits(x)'
  <2>1. PortFits(x)
    BY DEF TableInv
  <2>2. CASE x = r
    BY <1>3, <2>2 DEF PortFits
  <2>3. CASE x # r
    <3>1. ASSUME NEW u \in Threads, pc[u] = "free", ref[u] = x
          PROVE  pc'[u] = "free" /\ ref'[u] = x
      BY <1>3, <2>3, <3>1 DEF r
    <3> QED
      BY <1>1, <1>3, <2>1, <2>3, <3>1 DEF PortFits
  <2> QED
    BY <2>2, <2>3
<1>6. ASSUME NEW u \in Threads PROVE UsesExisting(u)'
  <2>1. UsesExisting(u) /\ held[u] \subseteq Refs
    BY <1>0 DEF TableInv, TypeOK
  <2>2. ref'[u] \in Refs => ref'[u] = ref[u] /\ u # t
    BY <1>3, PortRanges
  <2> QED
    BY <1>1, <1>2, <1>3, <2>1, <2>2 DEF UsesExisting
<1>7. ASSUME NEW u \in Threads PROVE DestroysAlone(u)'
  <2> SUFFICES ASSUME Destroying(u)', u # t PROVE DestroysAlone(u)'
    BY <1>3 DEF DestroysAlone, Destroying
  <2>1. /\ Destroying(u) /\ ref'[u] = ref[u] /\ pc'[u] = pc[u] /\ ref[u] \in Refs
        /\ DestroysAlone(u)
    BY <1>3 DEF Destroying, TypeInv, LocalsFit, TableInv
  <2>2. number'[ref[u]] = number[ref[u]]
    BY <1>2, <1>3, <2>1
  <2>3. \A v \in Threads : pc'[v] \in CreateSteps => pc[v] \in CreateSteps
    BY <1>3 DEF CreateSteps
  <2>4. \A v \in Threads : ref'[v] = ref[v] \/ ref'[v] = NULL
    BY <1>3
  <2> QED
    BY <1>1, <2>1, <2>2, <2>3, <2>4, PortRanges DEF DestroysAlone, Destroying
<1> QED
  BY <1>4, <1>5, <1>6, <1>7 DEF TableInv

(* The handler appends to a port that exists.                              *)
LEMMA DeliveryKeepsTable ==
  ASSUME TypeInv, TableInv, NEW r \in Refs, kind[r] # "free", NEW s, Delivers(r, s)
  PROVE  TableInv'
<1>0. TypeOK
  BY DEF TypeInv
<1>1. /\ \A x \in Refs \ {r} : /\ data_queue'[x] = data_queue[x] /\ size'[x] = size[x]
                               /\ data_available'[x] = data_available[x]
      /\ UNCHANGED <<miniports, kind, number, pc, port, ref, held>>
  BY <1>0 DEF Delivers, queue_append, localVars, TypeOK
<1>2. ASSUME NEW x \in Refs PROVE PortFits(x)'
  <2>1. PortFits(x) /\ (kind[x] = "free" => x # r)
    BY DEF TableInv
  <2> QED
    BY <1>1, <2>1 DEF PortFits
<1>3. \A q \in Ports : EntryShowsPort(q)'
  BY <1>1 DEF TableInv, EntryShowsPort
<1>4. \A u \in Threads : UsesExisting(u)' /\ DestroysAlone(u)'
  BY <1>1 DEF TableInv, UsesExisting, DestroysAlone, Destroying
<1> QED
  BY <1>2, <1>3, <1>4 DEF TableInv

(* A step of t that has nothing to do with the receivers.                  *)
LEMMA QueueStays ==
  ASSUME QueueInv, NEW t \in Threads, pc[t] \notin QueueSteps, pc'[t] \notin QueueSteps,
         \A u \in Threads \ {t} : pc'[u] = pc[u] /\ ref'[u] = ref[u],
         \A r \in Refs : kind'[r] = "unbound" =>
            /\ kind[r] = "unbound" /\ data_queue'[r] = data_queue[r]
            /\ size'[r] = size[r] /\ data_available'[r] = data_available[r]
  PROVE  QueueInv'
<1>1. \A r \in Refs : /\ Receivers(r, QueueSteps)' = Receivers(r, QueueSteps)
                      /\ Receivers(r, {"dequeue"})' = Receivers(r, {"dequeue"})
  BY DEF Receivers, QueueSteps
<1> QED
  BY <1>1 DEF QueueInv, QueueFits

(* All steps of a thread that is not in queue_dequeue.                     *)
LEMMA OthersKeepQueues ==
  ASSUME TypeInv, QueueInv, NEW t \in Threads,
         \/ P(t, "unbound", "unboundP", "lookup")
         \/ P(t, "bound", "boundP", "search")
         \/ P(t, "destroy", "destroyP", "clear")
         \/ Found(t) \/ ReRead(t) \/ CreatedUnbound(t) \/ Search(t) \/ Take(t)
         \/ CreatedBound(t) \/ Clear(t) \/ Free(t) \/ Destroyed(t) \/ Received(t)
         \/ \E p \in UnboundPorts : CallCreateUnbound(t, p)
         \/ \E h \in Hosts : CallCreateBound(t, h)
         \/ \E r \in Refs : CallDestroy(t, r)
  PROVE  QueueInv'
<1>0. TypeOK /\ LocalsFit(t)
  BY DEF TypeInv
<1>1. CASE UNCHANGED portVars /\ pc[t] \notin QueueSteps /\ pc'[t] \notin QueueSteps
           /\ \A u \in Threads \ {t} : pc'[u] = pc[u] /\ ref'[u] = ref[u]
  BY <1>1, QueueStays DEF portVars
<1>2. CASE \/ P(t, "unbound", "unboundP", "lookup")
           \/ P(t, "bound", "boundP", "search")
           \/ P(t, "destroy", "destroyP", "clear")
  BY <1>0, <1>1, <1>2 DEF P, At, Goto, TypeOK, QueueSteps
<1>3. CASE Found(t) \/ Search(t) \/ Clear(t)
  BY <1>0, <1>1, <1>3 DEF Found, Search, Clear, At, Goto, TypeOK, QueueSteps
<1>4. CASE ReRead(t) \/ CreatedUnbound(t) \/ CreatedBound(t) \/ Destroyed(t) \/ Received(t)
  BY <1>0, <1>1, <1>4 DEF ReRead, CreatedUnbound, CreatedBound, Destroyed, Received,
     Return, StartBound, Goto, At, TypeOK, QueueSteps
<1>5. CASE \/ \E p \in UnboundPorts : CallCreateUnbound(t, p)
           \/ \E h \in Hosts : CallCreateBound(t, h)
           \/ \E r \in Refs : CallDestroy(t, r)
  BY <1>0, <1>1, <1>5
     DEF CallCreateUnbound, CallCreateBound, CallDestroy, StartBound, At, Goto, TypeOK, QueueSteps
<1>6. CASE Take(t)
  <2>1. /\ pc[t] = "take" /\ pc'[t] = "boundV"
        /\ \A u \in Threads \ {t} : pc'[u] = pc[u] /\ ref'[u] = ref[u]
    BY <1>0, <1>6 DEF Take, At, Goto, TypeOK
  <2>2. \/ UNCHANGED portVars
        \/ \E r \in Refs : /\ kind' = [kind EXCEPT ![r] = "bound"]
                           /\ UNCHANGED <<data_queue, size, data_available>>
    BY <1>6 DEF Take, Create
  <2>3. \A r \in Refs : kind'[r] = "unbound" =>
            /\ kind[r] = "unbound" /\ data_queue'[r] = data_queue[r]
            /\ size'[r] = size[r] /\ data_available'[r] = data_available[r]
    BY <1>0, <2>2 DEF TypeOK, portVars
  <2> QED
    BY <2>1, <2>3, QueueStays DEF QueueSteps
<1>7. CASE Free(t)
  <2>1. /\ pc[t] = "free" /\ pc'[t] = "destroyV"
        /\ \A u \in Threads \ {t} : pc'[u] = pc[u] /\ ref'[u] = ref[u]
    BY <1>0, <1>7 DEF Free, At, Goto, TypeOK
  <2>2. \A r \in Refs : kind'[r] = "unbound" =>
            /\ kind[r] = "unbound" /\ data_queue'[r] = data_queue[r]
            /\ size'[r] = size[r] /\ data_available'[r] = data_available[r]
    BY <1>0, <1>7, <2>1 DEF TypeOK, Free, LocalsFit, Destroying
  <2> QED
    BY <2>1, <2>2, QueueStays DEF QueueSteps
<1> QED
  BY <1>2, <1>3, <1>4, <1>5, <1>6, <1>7

(* A new unbound port has an empty queue and no receiver.                  *)
LEMMA LookUpKeepsQueues ==
  ASSUME TypeInv, TableInv, QueueInv, NEW t \in Threads, LookUp(t)
  PROVE  QueueInv'
<1>0. TypeOK
  BY DEF TypeInv
<1>1. /\ pc[t] = "lookup" /\ pc'[t] \in {"found", "unboundV"}
      /\ \A u \in Threads \ {t} : pc'[u] = pc[u] /\ ref'[u] = ref[u]
  BY <1>0 DEF LookUp, At, Goto, TypeOK
<1>2. CASE UNCHANGED portVars
  BY <1>1, <1>2, QueueStays DEF portVars, QueueSteps
<1>3. ASSUME NEW r \in Refs, Create(r, "unbound", port[t], NULL) PROVE QueueInv'
  <2>1. /\ kind[r] = "free" /\ data_queue[r] = <<>> /\ size[r] = 0
        /\ data_available[r] = 0
        /\ kind' = [kind EXCEPT ![r] = "unbound"]
        /\ UNCHANGED <<data_queue, size, data_available>>
    BY <1>3 DEF Create, TableInv, PortFits
  <2>2. \A x \in Refs : /\ Receivers(x, QueueSteps)' = Receivers(x, QueueSteps)
                        /\ Receivers(x, {"dequeue"})' = Receivers(x, {"dequeue"})
    BY <1>1 DEF Receivers, QueueSteps
  <2>3. Receivers(r, QueueSteps) = {} /\ Receivers(r, {"dequeue"}) = {}
    BY <2>1 DEF Receivers, TypeInv, LocalsFit, QueueSteps
  <2>4. QueueFits(r)
    <3>1. IsFiniteSet({}) /\ Cardinality({}) = 0
      BY FS_EmptySet
    <3>2. /\ IsFiniteSet(Receivers(r, QueueSteps)) /\ Cardinality(Receivers(r, QueueSteps)) = 0
          /\ IsFiniteSet(Receivers(r, {"dequeue"}))
      BY <2>3, <3>1
    <3> QED
      BY <2>1, <3>2 DEF QueueFits
  <2>5. \A x \in Refs : kind'[x] = "unbound" => QueueFits(x)
    BY <1>0, <2>1, <2>4 DEF QueueInv, TypeOK
  <2> QED
    BY <2>1, <2>2, <2>5 DEF QueueInv, QueueFits
<1> QED
  BY <1>2, <1>3 DEF LookUp, portVars

(* A step that touches the queue of r alone, and the receivers of r.       *)
LEMMA OthersFit ==
  ASSUME QueueInv, NEW r \in Refs, kind' = kind,
         \A x \in Refs \ {r} :
           /\ data_queue'[x] = data_queue[x] /\ size'[x] = size[x]
           /\ data_available'[x] = data_available[x]
           /\ Receivers(x, QueueSteps)' = Receivers(x, QueueSteps)
           /\ Receivers(x, {"dequeue"})' = Receivers(x, {"dequeue"}),
         QueueFits(r) => QueueFits(r)'
  PROVE  QueueInv'
<1> SUFFICES ASSUME NEW x \in Refs, kind[x] = "unbound" PROVE QueueFits(x)'
  BY DEF QueueInv
<1>1. QueueFits(x)
  BY DEF QueueInv
<1>2. CASE x = r
  BY <1>1, <1>2
<1>3. CASE x # r
  BY <1>1, <1>3 DEF QueueFits
<1> QED
  BY <1>2, <1>3

(* A receiver takes a count.                                               *)
LEMMA ReceiveKeepsQueues ==
  ASSUME TypeInv, QueueInv, NEW t \in Threads, NEW r \in Refs, CallReceive(t, r)
  PROVE  QueueInv'
<1> DEFINE Q == Receivers(r, QueueSteps)
           D == Receivers(r, {"dequeue"})
<1>0. TypeOK
  BY DEF TypeInv
<1>1. /\ pc[t] = "idle" /\ pc'[t] = "dequeue" /\ ref'[t] = r
      /\ \A u \in Threads \ {t} : pc'[u] = pc[u] /\ ref'[u] = ref[u]
      /\ data_available[r] \in Nat \ {0}
      /\ data_available'[r] = data_available[r] - 1
      /\ \A x \in Refs \ {r} : data_available'[x] = data_available[x]
      /\ UNCHANGED <<kind, data_queue, size>>
  BY <1>0 DEF CallReceive, At, Goto, TypeOK
<1>2. \A x \in Refs \ {r} : /\ Receivers(x, QueueSteps)' = Receivers(x, QueueSteps)
                            /\ Receivers(x, {"dequeue"})' = Receivers(x, {"dequeue"})
  BY <1>1 DEF Receivers, QueueSteps
<1>3. Q' = Q \cup {t} /\ t \notin Q /\ D' = D \cup {t} /\ t \notin D
  BY <1>1 DEF Receivers, QueueSteps
<1>4. ASSUME QueueFits(r) PROVE QueueFits(r)'
  <2>1. /\ IsFiniteSet(Q) /\ IsFiniteSet(D)
        /\ size[r] = data_available[r] + Cardinality(Q)
        /\ data_queue[r] # <<>> => Len(data_queue[r]) = data_available[r] + Cardinality(D)
    BY <1>4 DEF QueueFits
  <2> HIDE DEF Q, D
  <2>2. /\ IsFiniteSet(Q \cup {t}) /\ Cardinality(Q \cup {t}) = Cardinality(Q) + 1
        /\ IsFiniteSet(D \cup {t}) /\ Cardinality(D \cup {t}) = Cardinality(D) + 1
        /\ Cardinality(Q) \in Nat /\ Cardinality(D) \in Nat
    BY <1>3, <2>1, FS_AddElement, FS_CardinalityType
  <2>3. /\ IsFiniteSet(Q') /\ IsFiniteSet(D')
        /\ size'[r] = data_available'[r] + Cardinality(Q')
        /\ data_queue'[r] # <<>> => Len(data_queue'[r]) = data_available'[r] + Cardinality(D')
    BY <1>1, <1>3, <2>1, <2>2
  <2> QED
    BY <2>3 DEF QueueFits, Q, D
<1> QED
  BY <1>1, <1>2, <1>4, OthersFit

(* Then the node, which is counted until size is stored.                   *)
LEMMA DequeueKeepsQueues ==
  ASSUME TypeInv, QueueInv, NEW t \in Threads, Dequeue(t), ~Die(t)
  PROVE  QueueInv'
<1>r. PICK r \in Refs : r = ref[t]
  BY DEF TypeInv, LocalsFit, Dequeue, At, QueueSteps
<1> DEFINE Q == Receivers(r, QueueSteps)
           D == Receivers(r, {"dequeue"})
<1>0. TypeOK /\ pc[t] = "dequeue" /\ data_queue[r] # <<>>
  BY <1>r DEF TypeInv, Dequeue, At
<1>1. /\ pc'[t] = "unlinked" /\ ref' = ref
      /\ \A u \in Threads \ {t} : pc'[u] = pc[u]
      /\ data_queue'[r] = Tail(data_queue[r])
      /\ \A x \in Refs \ {r} : data_queue'[x] = data_queue[x]
      /\ UNCHANGED <<kind, size, data_available>>
  BY <1>0, <1>r DEF Dequeue, Goto, TypeOK
<1>2. \A x \in Refs \ {r} : /\ Receivers(x, QueueSteps)' = Receivers(x, QueueSteps)
                            /\ Receivers(x, {"dequeue"})' = Receivers(x, {"dequeue"})
  BY <1>0, <1>1, <1>r DEF Receivers, QueueSteps
<1>3. Q' = Q /\ D' = D \ {t} /\ t \in D
  BY <1>0, <1>1, <1>r DEF Receivers, QueueSteps
<1>4. data_queue[r] \in Seq(Hosts \cup {NULL}) /\ data_available[r] \in Nat
  BY <1>0 DEF TypeOK
<1>5. Len(data_queue'[r]) = Len(data_queue[r]) - 1 /\ Len(data_queue[r]) \in Nat
  BY <1>0, <1>1, <1>4
<1>6. ASSUME QueueFits(r) PROVE QueueFits(r)'
  <2>1. /\ IsFiniteSet(Q) /\ IsFiniteSet(D)
        /\ size[r] = data_available[r] + Cardinality(Q)
        /\ Len(data_queue[r]) = data_available[r] + Cardinality(D)
    BY <1>0, <1>6 DEF QueueFits
  <2> HIDE DEF Q, D
  <2>2. /\ IsFiniteSet(D \ {t}) /\ Cardinality(D \ {t}) = Cardinality(D) - 1
        /\ Cardinality(D) \in Nat
    BY <1>3, <2>1, FS_RemoveElement, FS_CardinalityType
  <2>3. /\ IsFiniteSet(Q') /\ IsFiniteSet(D')
        /\ size'[r] = data_available'[r] + Cardinality(Q')
        /\ Len(data_queue'[r]) = data_available'[r] + Cardinality(D')
    BY <1>1, <1>3, <1>4, <1>5, <2>1, <2>2
  <2> QED
    BY <2>3 DEF QueueFits, Q, D
<1> QED
  BY <1>1, <1>2, <1>6, OthersFit

(* While size-- is under way nothing of this changes.                      *)
LEMMA LoadSizeKeepsQueues ==
  ASSUME TypeInv, QueueInv, NEW t \in Threads, LoadSize(t), ~Die(t)
  PROVE  QueueInv'
<1>1. /\ pc[t] = "unlinked" /\ pc'[t] = "loaded" /\ ref' = ref
      /\ \A u \in Threads \ {t} : pc'[u] = pc[u]
      /\ UNCHANGED <<kind, data_queue, size, data_available>>
  BY DEF LoadSize, At, Goto, TypeInv, TypeOK, portVars
<1>2. \A x \in Refs : /\ Receivers(x, QueueSteps)' = Receivers(x, QueueSteps)
                      /\ Receivers(x, {"dequeue"})' = Receivers(x, {"dequeue"})
  BY <1>1 DEF Receivers, QueueSteps
<1> QED
  BY <1>1, <1>2 DEF QueueInv, QueueFits

(* With its end size has one datagram less.                                *)
LEMMA StoreSizeKeepsQueues ==
  ASSUME TypeInv, QueueInv, NEW t \in Threads, StoreSize(t)
  PROVE  QueueInv'
<1>r. PICK r \in Refs : r = ref[t]
  BY DEF TypeInv, LocalsFit, StoreSize, At, QueueSteps
<1> DEFINE Q == Receivers(r, QueueSteps)
           D == Receivers(r, {"dequeue"})
<1>0. TypeOK /\ pc[t] = "loaded" /\ size[r] \in Nat \ {0}
  BY <1>r, StoreSizeKeepsTypes DEF TypeInv, StoreSize, At
<1>1. /\ pc'[t] = "received"
      /\ \A u \in Threads \ {t} : pc'[u] = pc[u] /\ ref'[u] = ref[u]
      /\ size'[r] = size[r] - 1
      /\ \A x \in Refs \ {r} : size'[x] = size[x]
      /\ UNCHANGED <<kind, data_queue, data_available>>
  BY <1>0, <1>r DEF StoreSize, Goto, TypeOK
<1>2. \A x \in Refs \ {r} : /\ Receivers(x, QueueSteps)' = Receivers(x, QueueSteps)
                            /\ Receivers(x, {"dequeue"})' = Receivers(x, {"dequeue"})
  BY <1>0, <1>1, <1>r DEF Receivers, QueueSteps
<1>3. Q' = Q \ {t} /\ t \in Q /\ D' = D
  BY <1>0, <1>1, <1>r DEF Receivers, QueueSteps
<1>4. ASSUME QueueFits(r) PROVE QueueFits(r)'
  <2>1. /\ IsFiniteSet(Q) /\ IsFiniteSet(D)
        /\ size[r] = data_available[r] + Cardinality(Q)
        /\ data_queue[r] # <<>> => Len(data_queue[r]) = data_available[r] + Cardinality(D)
    BY <1>4 DEF QueueFits
  <2> HIDE DEF Q, D
  <2>2. /\ IsFiniteSet(Q \ {t}) /\ Cardinality(Q \ {t}) = Cardinality(Q) - 1
        /\ Cardinality(Q) \in Nat
    BY <1>3, <2>1, FS_RemoveElement, FS_CardinalityType
  <2>3. data_available[r] \in Nat
    BY <1>0 DEF TypeOK
  <2>4. /\ IsFiniteSet(Q') /\ IsFiniteSet(D')
        /\ size'[r] = data_available'[r] + Cardinality(Q')
        /\ data_queue'[r] # <<>> => Len(data_queue'[r]) = data_available'[r] + Cardinality(D')
    BY <1>0, <1>1, <1>3, <2>1, <2>2, <2>3
  <2> QED
    BY <2>4 DEF QueueFits, Q, D
<1> QED
  BY <1>1, <1>2, <1>4, OthersFit

(* The handler gives one count for one datagram, linked or lost.           *)
LEMMA DeliveryKeepsQueues ==
  ASSUME TypeInv, QueueInv, NEW r \in Refs, NEW s \in Hosts \cup {NULL}, Delivers(r, s)
  PROVE  QueueInv'
<1> DEFINE Q == Receivers(r, QueueSteps)
           D == Receivers(r, {"dequeue"})
<1>0. TypeOK
  BY DEF TypeInv
<1>1. /\ size'[r] = size[r] + 1 /\ data_available'[r] = data_available[r] + 1
      /\ \A x \in Refs \ {r} : /\ data_queue'[x] = data_queue[x] /\ size'[x] = size[x]
                               /\ data_available'[x] = data_available[x]
      /\ UNCHANGED <<kind, pc, ref>>
  BY <1>0 DEF Delivers, queue_append, localVars, TypeOK
<1>2. \A x \in Refs : /\ Receivers(x, QueueSteps)' = Receivers(x, QueueSteps)
                      /\ Receivers(x, {"dequeue"})' = Receivers(x, {"dequeue"})
  BY <1>1 DEF Receivers
<1>3. /\ data_queue[r] \in Seq(Hosts \cup {NULL})
      /\ size[r] \in Nat /\ data_available[r] \in Nat
  BY <1>0 DEF TypeOK
<1>4. \/ size[r] = 0 /\ Len(data_queue'[r]) = 1
      \/ data_queue'[r] = <<>>
      \/ data_queue[r] # <<>> /\ Len(data_queue'[r]) = Len(data_queue[r]) + 1
  <2>1. data_queue'[r] = IF size[r] = 0 THEN <<s>>
                         ELSE IF data_queue[r] = <<>> THEN <<>> ELSE Append(data_queue[r], s)
    BY <1>0 DEF Delivers, queue_append, TypeOK
  <2>2. Len(<<s>>) = 1 /\ Len(Append(data_queue[r], s)) = Len(data_queue[r]) + 1
    BY <1>3
  <2> QED
    BY <2>1, <2>2
<1>5. ASSUME QueueFits(r) PROVE QueueFits(r)'
  <2>1. /\ IsFiniteSet(Q) /\ IsFiniteSet(D)
        /\ size[r] = data_available[r] + Cardinality(Q)
        /\ data_queue[r] # <<>> => Len(data_queue[r]) = data_available[r] + Cardinality(D)
    BY <1>5 DEF QueueFits
  <2>2. D \subseteq Q
    BY DEF Receivers, QueueSteps
  <2>3. Q' = Q /\ D' = D
    BY <1>2
  <2> HIDE DEF Q, D
  <2>4. Cardinality(Q) \in Nat /\ Cardinality(D) \in Nat /\ Cardinality(D) <= Cardinality(Q)
    BY <2>1, <2>2, FS_CardinalityType, FS_Subset
  <2>5. ASSUME data_queue'[r] # <<>>
        PROVE  Len(data_queue'[r]) = data_available'[r] + Cardinality(D)
    <3>1. CASE size[r] = 0 /\ Len(data_queue'[r]) = 1
      <4>1. data_available[r] = 0 /\ Cardinality(D) = 0
        BY <1>3, <2>1, <2>4, <3>1
      <4> QED
        BY <1>1, <3>1, <4>1
    <3>2. CASE data_queue[r] # <<>> /\ Len(data_queue'[r]) = Len(data_queue[r]) + 1
      BY <1>1, <1>3, <2>1, <2>4, <3>2
    <3> QED
      BY <1>4, <2>5, <3>1, <3>2
  <2>6. size'[r] = data_available'[r] + Cardinality(Q)
    BY <1>1, <1>3, <2>1, <2>4
  <2>7. /\ IsFiniteSet(Q') /\ IsFiniteSet(D')
        /\ size'[r] = data_available'[r] + Cardinality(Q')
        /\ data_queue'[r] # <<>> => Len(data_queue'[r]) = data_available'[r] + Cardinality(D')
    BY <2>1, <2>3, <2>5, <2>6
  <2> QED
    BY <2>7 DEF QueueFits, Q, D
<1> QED
  BY <1>1, <1>2, <1>5, OthersFit

(* A step of t between places on one side of every semaphore.              *)
LEMMA LockStays ==
  ASSUME LockInv, NEW t \in Threads, count' = count,
         \A u \in Threads \ {t} : pc'[u] = pc[u],
         \A l \in Locks : pc'[t] \in Inside[l] <=> pc[t] \in Inside[l]
  PROVE  LockInv'
<1>1. ASSUME NEW l \in Locks PROVE Within(l)' = Within(l)
  <2>1. \A u \in Threads : pc'[u] \in Inside[l] <=> pc[u] \in Inside[l]
    OBVIOUS
  <2> QED
    BY <2>1 DEF Within
<1> QED
  BY <1>1 DEF LockInv

(* A P of the semaphore m by t.                                           *)
LEMMA LockEnters ==
  ASSUME TypeOK, LockInv, NEW t \in Threads, NEW m \in Locks,
         count' = [count EXCEPT ![m] = @ - 1],
         \A u \in Threads \ {t} : pc'[u] = pc[u],
         \A l \in Locks : pc[t] \notin Inside[l] /\ (pc'[t] \in Inside[l] <=> l = m)
  PROVE  LockInv'
<1>1. ASSUME NEW l \in Locks
      PROVE  IsFiniteSet(Within(l)') /\ count'[l] + Cardinality(Within(l)') = 1
  <2>1. /\ IsFiniteSet(Within(l)) /\ count[l] + Cardinality(Within(l)) = 1
        /\ count[l] \in Nat
    BY DEF LockInv, TypeOK
  <2>2. CASE l = m
    <3>1. Within(l)' = Within(l) \cup {t} /\ t \notin Within(l)
      BY <2>2 DEF Within
    <3>2. /\ IsFiniteSet(Within(l) \cup {t})
          /\ Cardinality(Within(l) \cup {t}) = Cardinality(Within(l)) + 1
          /\ Cardinality(Within(l)) \in Nat
      BY <2>1, <3>1, FS_AddElement, FS_CardinalityType
    <3>3. count'[l] = count[l] - 1
      BY <2>2 DEF TypeOK
    <3> QED
      BY <2>1, <3>1, <3>2, <3>3
  <2>3. CASE l # m
    <3>1. \A u \in Threads : pc'[u] \in Inside[l] <=> pc[u] \in Inside[l]
      BY <2>3
    <3>2. Within(l)' = Within(l) /\ count'[l] = count[l]
      BY <2>3, <3>1 DEF Within, TypeOK
    <3> QED
      BY <2>1, <3>2
  <2> QED
    BY <2>2, <2>3
<1> QED
  BY <1>1 DEF LockInv

(* A V of the semaphore m by t.                                            *)
LEMMA LockLeaves ==
  ASSUME TypeOK, LockInv, NEW t \in Threads, NEW m \in Locks, V(m),
         \A u \in Threads \ {t} : pc'[u] = pc[u],
         \A l \in Locks : pc'[t] \notin Inside[l] /\ (pc[t] \in Inside[l] <=> l = m)
  PROVE  LockInv'
<1>1. ASSUME NEW l \in Locks
      PROVE  IsFiniteSet(Within(l)') /\ count'[l] + Cardinality(Within(l)') = 1
  <2>1. /\ IsFiniteSet(Within(l)) /\ count[l] + Cardinality(Within(l)) = 1
        /\ count[l] \in Nat
    BY DEF LockInv, TypeOK
  <2>2. CASE l = m
    <3>1. Within(l)' = Within(l) \ {t} /\ t \in Within(l)
      BY <2>2 DEF Within
    <3>2. /\ IsFiniteSet(Within(l) \ {t})
          /\ Cardinality(Within(l) \ {t}) = Cardinality(Within(l)) - 1
          /\ Cardinality(Within(l)) \in Nat
      BY <2>1, <3>1, FS_RemoveElement, FS_CardinalityType
    <3>3. count'[l] = count[l] + 1
      BY <2>2 DEF TypeOK, V
    <3> QED
      BY <2>1, <3>1, <3>2, <3>3
  <2>3. CASE l # m
    <3>1. \A u \in Threads : pc'[u] \in Inside[l] <=> pc[u] \in Inside[l]
      BY <2>3
    <3>2. Within(l)' = Within(l) /\ count'[l] = count[l]
      BY <2>3, <3>1 DEF Within, TypeOK, V
    <3> QED
      BY <2>1, <3>2
  <2> QED
    BY <2>2, <2>3
<1> QED
  BY <1>1 DEF LockInv

(* Every P of a step enters, every path out of it leaves with the V.       *)
LEMMA ThreadKeepsLocks ==
  ASSUME TypeOK, LockInv, NEW t \in Threads,
         \/ Proceed(t)
         \/ \E p \in UnboundPorts : CallCreateUnbound(t, p)
         \/ \E h \in Hosts : CallCreateBound(t, h)
         \/ \E r \in Refs : CallDestroy(t, r) \/ CallReceive(t, r)
  PROVE  LockInv'
<1>0. /\ Locks = {"bound", "unbound", "destroy"}
      /\ Inside["bound"] = {"search", "take", "boundV"}
      /\ Inside["unbound"] = {"lookup", "found", "unboundV"}
      /\ Inside["destroy"] = {"clear", "free", "destroyV"}
  BY DEF Locks, Inside
<1>1. ASSUME NEW m \in Locks, NEW from \in Steps, NEW to \in Inside[m], P(t, m, from, to),
             from \in {"unboundP", "boundP", "destroyP"}
      PROVE  LockInv'
  <2>1. /\ count' = [count EXCEPT ![m] = @ - 1] /\ pc[t] = from /\ pc'[t] = to
        /\ \A u \in Threads \ {t} : pc'[u] = pc[u]
    BY <1>1 DEF P, At, Goto, TypeOK
  <2>2. \A l \in Locks : from \notin Inside[l] /\ (to \in Inside[l] <=> l = m)
    BY <1>0, <1>1
  <2> QED
    BY <2>1, <2>2, LockEnters
<1>2. CASE \/ P(t, "unbound", "unboundP", "lookup")
           \/ P(t, "bound", "boundP", "search")
           \/ P(t, "destroy", "destroyP", "clear")
  BY <1>0, <1>1, <1>2 DEF Steps, SearchSteps, CreateSteps
<1>4. CASE LookUp(t) \/ Search(t) \/ Take(t) \/ Clear(t) \/ Free(t)
  <2>1. /\ count' = count /\ \A u \in Threads \ {t} : pc'[u] = pc[u]
        /\ \/ pc[t] = "lookup" /\ pc'[t] \in {"found", "unboundV"}
           \/ pc[t] = "search" /\ pc'[t] \in {"search", "take"}
           \/ pc[t] = "take" /\ pc'[t] = "boundV"
           \/ pc[t] = "clear" /\ pc'[t] = "free"
           \/ pc[t] = "free" /\ pc'[t] = "destroyV"
    BY <1>4 DEF LookUp, Search, Take, Clear, Free, At, Goto, TypeOK
  <2> QED
    BY <1>0, <2>1, LockStays
<1>5. CASE \/ ReRead(t) \/ Dequeue(t) \/ LoadSize(t) \/ StoreSize(t) \/ Received(t)
           \/ \E p \in UnboundPorts : CallCreateUnbound(t, p)
           \/ \E h \in Hosts : CallCreateBound(t, h)
           \/ \E r \in Refs : CallDestroy(t, r) \/ CallReceive(t, r)
  <2>1. /\ count' = count /\ \A u \in Threads \ {t} : pc'[u] = pc[u]
        /\ pc[t] \in {"reread", "dequeue", "unlinked", "loaded", "received", "idle"}
        /\ pc'[t] \in {"idle", "boundP", "unboundP", "destroyP", "dequeue", "unlinked",
                       "loaded", "received", "dead"}
    BY <1>5 DEF ReRead, Dequeue, LoadSize, StoreSize, Received, Die, CallCreateUnbound,
       CallCreateBound, CallDestroy, CallReceive,
       Return, StartBound, At, Goto, TypeOK
  <2> QED
    BY <1>0, <2>1, LockStays
<1>6. CASE Found(t) \/ CreatedUnbound(t)
  <2>1. /\ V("unbound") /\ \A u \in Threads \ {t} : pc'[u] = pc[u]
        /\ pc[t] \in {"found", "unboundV"} /\ pc'[t] \in {"reread", "idle"}
    BY <1>6 DEF Found, CreatedUnbound, Return, At, Goto, TypeOK
  <2> QED
    BY <1>0, <2>1, LockLeaves
<1>7. CASE CreatedBound(t)
  <2>1. /\ V("bound") /\ \A u \in Threads \ {t} : pc'[u] = pc[u]
        /\ pc[t] = "boundV" /\ pc'[t] = "idle"
    BY <1>7 DEF CreatedBound, Return, At, TypeOK
  <2> QED
    BY <1>0, <2>1, LockLeaves
<1>8. CASE Destroyed(t)
  <2>1. /\ V("destroy") /\ \A u \in Threads \ {t} : pc'[u] = pc[u]
        /\ pc[t] = "destroyV" /\ pc'[t] = "idle"
    BY <1>8 DEF Destroyed, Return, At, TypeOK
  <2> QED
    BY <1>0, <2>1, LockLeaves
<1> QED
  BY <1>2, <1>4, <1>5, <1>6, <1>7, <1>8 DEF Proceed

(* The handler uses no semaphore of these.                                 *)
LEMMA DeliveryKeepsLocks ==
  ASSUME LockInv, NEW r, NEW s, Delivers(r, s)
  PROVE  LockInv'
BY DEF LockInv, Within, Delivers, localVars

(* What ends the process moves one receiver out of queue_dequeue.          *)
LEMMA DieKeepsIInv ==
  ASSUME IInv, NEW t \in Threads, pc[t] \in QueueSteps, Die(t)
  PROVE  IInv'
<1>0. TypeInv /\ TypeOK /\ NothingBound /\ TableInv /\ LockInv /\ LocalsFit(t)
  BY DEF IInv, TypeInv
<1>1. /\ pc' = [pc EXCEPT ![t] = "dead"]
      /\ UNCHANGED <<miniports, nextBoundPort, kind, number, data_queue, size,
                     data_available, remote, count, port, ref, item, i, held>>
  BY DEF Die, Goto, portVars
<1>2. TypeOK'
  BY <1>0, <1>1 DEF TypeOK, Steps
<1>3. pc'[t] = "dead" /\ \A u \in Threads \ {t} : pc'[u] = pc[u]
  BY <1>0, <1>1 DEF TypeOK
<1>4. TypeInv'
  <2>1. LocalsFit(t)'
    BY <1>3 DEF LocalsFit, SearchSteps, CreateSteps, QueueSteps, Destroying
  <2>2. \A u \in Threads : LocalsFit(u)'
    BY <1>0, <1>1, <1>3, <2>1, LocalsOfOthers
  <2> QED
    BY <1>0, <1>1, <1>2, <2>2 DEF TypeInv, NothingBound
<1>5. TableInv'
  <2>1. UserStep(t)
    BY <1>0, <1>1, <1>3 DEF UserStep, TypeOK, CreateSteps, QueueSteps
  <2> QED
    BY <1>0, <1>3, <2>1, NotDestroying, UserStepKeepsTable
<1>6. LockInv'
  <2>1. \A l \in Locks : pc'[t] \notin Inside[l] /\ pc[t] \notin Inside[l]
    BY <1>3 DEF Locks, Inside, QueueSteps
  <2> QED
    BY <1>0, <1>1, <1>3, <2>1, LockStays
<1>7. ~Running'
  BY <1>3 DEF Running
<1> QED
  BY <1>4, <1>5, <1>6, <1>7 DEF IInv

(* The initial state satisfies the invariant.                              *)
LEMMA InitIInv == Init => IInv
<1> SUFFICES ASSUME Init PROVE IInv
  OBVIOUS
<1>1. TypeOK
  BY PortRanges DEF Init, TypeOK, Steps
<1>2. \A t \in Threads : LocalsFit(t)
  BY DEF Init, LocalsFit, SearchSteps, CreateSteps, QueueSteps, Destroying
<1>3. TypeInv
  BY <1>1, <1>2, PortRanges DEF Init, TypeInv, NothingBound
<1>4. TableInv
  BY PortRanges DEF Init, TableInv, EntryShowsPort, PortFits, UsesExisting,
     DestroysAlone, Destroying
<1>5. QueueInv
  BY DEF Init, QueueInv
<1>6. LockInv
  <2>1. \A l \in Locks : Within(l) = {} /\ count[l] = 1
    BY DEF Init, Within, Inside, Locks
  <2> QED
    BY <2>1, FS_EmptySet DEF LockInv
<1> QED
  BY <1>3, <1>4, <1>5, <1>6 DEF IInv

(* Every step keeps it.                                                    *)
LEMMA NextKeepsIInv == IInv /\ [Next]_vars => IInv'
<1> SUFFICES ASSUME IInv, [Next]_vars PROVE IInv'
  OBVIOUS
<1>0. TypeInv /\ TypeOK /\ TableInv /\ (Running => QueueInv) /\ LockInv
  BY DEF IInv, TypeInv
<1>1. ASSUME NEW t \in Threads, Proceed(t), QueueInv, ~Die(t) PROVE IInv'
  <2>1. TypeInv'
    BY <1>0, <1>1, PKeepsTypes, CreateUnboundKeepsTypes, ReturnsKeepTypes, SearchKeepsTypes,
       TakeKeepsTypes, DestroyKeepsTypes, ReceiveKeepsTypes, StoreSizeKeepsTypes DEF Proceed
  <2>2. TableInv'
    BY <1>0, <1>1, PKeepsTable, CreatorsKeepTable, ReturnsKeepTable, CallsKeepTable,
       ClearKeepsTable, FreeKeepsTable, DequeueKeepsTable DEF Proceed
  <2>3. QueueInv'
    BY <1>0, <1>1, OthersKeepQueues, LookUpKeepsQueues, DequeueKeepsQueues,
       LoadSizeKeepsQueues, StoreSizeKeepsQueues DEF Proceed
  <2>4. LockInv'
    BY <1>0, <1>1, ThreadKeepsLocks
  <2> QED
    BY <2>1, <2>2, <2>3, <2>4 DEF IInv
<1>2. ASSUME NEW t \in Threads, QueueInv,
             \/ \E p \in UnboundPorts : CallCreateUnbound(t, p)
             \/ \E h \in Hosts : CallCreateBound(t, h)
             \/ \E r \in Refs : CallDestroy(t, r) \/ CallReceive(t, r)
      PROVE  IInv'
  <2>1. TypeInv'
    BY <1>0, <1>2, CreateUnboundKeepsTypes, SearchKeepsTypes, DestroyKeepsTypes,
       ReceiveKeepsTypes
  <2>2. TableInv'
    BY <1>0, <1>2, CallsKeepTable, CallDestroyKeepsTable
  <2>3. QueueInv'
    BY <1>0, <1>2, OthersKeepQueues, ReceiveKeepsQueues
  <2>4. LockInv'
    BY <1>0, <1>2, ThreadKeepsLocks
  <2> QED
    BY <2>1, <2>2, <2>3, <2>4 DEF IInv
<1>3. ASSUME NEW p \in UnboundPorts, NEW s \in Hosts \cup {NULL}, handle_data_packet(p, s),
             QueueInv
      PROVE  IInv'
  <2>1. PICK r \in Refs : r = miniports[p] /\ kind[r] # "free"
    BY <1>0, <1>3, PortRanges DEF handle_data_packet, TypeOK, TableInv, EntryShowsPort
  <2>2. CASE Delivers(r, s)
    BY <1>0, <1>3, <2>1, <2>2, DeliveryKeepsTypes, DeliveryKeepsTable, DeliveryKeepsQueues,
       DeliveryKeepsLocks DEF IInv
  <2>3. ASSUME NEW t \in Threads, Tears(t, r), Die(t) PROVE IInv'
    BY <2>3, DieKeepsIInv DEF Tears, At, QueueSteps
  <2> QED
    BY <1>3, <2>1, <2>2, <2>3 DEF handle_data_packet, Delivers
<1>4. CASE UNCHANGED vars
  <2>1. TypeInv'
    BY <1>0, <1>4 DEF vars, portVars, localVars, TypeInv, TypeOK, NothingBound, LocalsFit,
       Destroying
  <2>2. TableInv'
    BY <1>0, <1>4 DEF vars, portVars, localVars, TableInv, EntryShowsPort, PortFits,
       UsesExisting, DestroysAlone, Destroying
  <2>3. (Running => QueueInv)' /\ LockInv'
    BY <1>0, <1>4 DEF vars, portVars, localVars, Running, QueueInv, QueueFits, Receivers,
       LockInv, Within
  <2> QED
    BY <2>1, <2>2, <2>3 DEF IInv
<1>5. ASSUME NEW t \in Threads, Proceed(t), Die(t) PROVE IInv'
  <2>1. pc'[t] = "dead"
    BY <1>0, <1>5 DEF Die, Goto, TypeOK
  <2>2. pc[t] \in QueueSteps
    BY <1>0, <1>5, <2>1 DEF Proceed, P, LookUp, Found, ReRead, CreatedUnbound, Search, Take,
       CreatedBound, Clear, Free, Destroyed, Dequeue, LoadSize, StoreSize, Received, Return,
       StartBound, At, Goto, TypeOK, QueueSteps
  <2> QED
    BY <1>5, <2>2, DieKeepsIInv
<1> QED
  BY <1>0, <1>1, <1>2, <1>3, <1>4, <1>5 DEF Next, Dead

(* The invariant of the ports holds in every reachable state.              *)
THEOREM InductiveInvariant == Spec => []IInv
<1>1. Init => IInv
  BY InitIInv
<1>2. IInv /\ [Next]_vars => IInv'
  BY NextKeepsIInv
<1> QED
  BY <1>1, <1>2, PTL DEF Spec

(* The table shows every port that exists and nothing that was freed, and  *)
(* the network handler never appends to the queue of a freed port.         *)
THEOREM TableIsExact == Spec => []TableShowsPorts
<1>1. IInv => TableShowsPorts
  BY DEF IInv, TypeInv, TableInv, EntryShowsPort, PortFits, TableShowsPorts
<1> QED
  BY <1>1, InductiveInvariant, PTL

(* While the process runs, size is what data_available counts and what is  *)
(* being taken off, and a receiver never waits beside a datagram that the  *)
(* queue leads to, though the handler comes between any two accesses of    *)
(* queue_dequeue and may lose its datagram.                                *)
THEOREM DatagramsCounted == Spec => []AvailableCountsData
<1>1. IInv => AvailableCountsData
  BY DEF IInv, QueueInv, QueueFits, QueueSteps, AvailableCountsData
<1> QED
  BY <1>1, InductiveInvariant, PTL

(* Each semaphore of minimsg.c is 1 less for the one thread between its P  *)
(* and its V.                                                              *)
THEOREM SemaphoresBalance == Spec => []MutexesBalance
<1>1. IInv => MutexesBalance
  BY DEF IInv, LockInv, Within, MutexesBalance
<1> QED
  BY <1>1, InductiveInvariant, PTL

=============================================================================
