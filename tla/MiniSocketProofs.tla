-------------------------- MODULE MiniSocketProofs --------------------------
(***************************************************************************)
(* Theorems about MiniSocket, for any finite set of threads, any ports and *)
(* any packets that arrive.                                                *)
(***************************************************************************)
EXTENDS MiniSocket, FiniteSetTheorems, SequenceTheorems, TLAPS

(* The places of a thread that make a difference to its socket.            *)
Holding == {"check", "take"}
Announced == {"dequeue", "lockQueue", "take"}
Dequeuing == {"dequeue"}
Hearing == {"listen", "dequeue"}
Using == {"transmit", "sent", "await", "lock", "check", "lockEnd",
          "receive", "lockQueue", "take"}
Busy == Hearing \cup Using

Kinds == {"SYN", "SYNACK", "ACK"}

(* What is left unsaid of the fields of sockets and threads does not       *)
(* matter here.                                                            *)
IsSocket(s) ==
    /\ {"status", "mutex", "ready", "packets", "acked"} \subseteq DOMAIN s
    /\ s.mutex \in Int /\ s.acked \in Int /\ s.ready \in Nat
    /\ s.packets \in Seq(Kinds)
IsThread(r) ==
    /\ {"pc", "port"} \subseteq DOMAIN r
    /\ r.pc \in Busy => r.port \in Ports
    /\ r.pc = "search" => r.port \in ClientPorts

Shape ==
    /\ sock = [p \in Ports |-> sock[p]] /\ \A p \in Ports : IsSocket(sock[p])
    /\ td = [t \in Threads |-> td[t]] /\ \A t \in Threads : IsThread(td[t])
    /\ frame = [t \in Threads |-> frame[t]]
    /\ \A t \in Threads : frame[t] # NoFrame => frame[t].pkt \in Arrivals
    /\ currentClientPort \in Int

At(pcs, p) == {t \in Threads : td[t].port = p /\ td[t].pc \in pcs}
Count(pcs, p) == Cardinality(At(pcs, p))

(* A thread is busy only with a socket that was created, and a listening   *)
(* socket belongs to one server alone.                                     *)
StatusKnown ==
    \A t \in Threads :
        /\ td[t].pc \in Using => sock[td[t].port].status \in {"connecting", "connected"}
        /\ td[t].pc \in Hearing => sock[td[t].port].status = "listening"
OneServer ==
    \A t, u \in Threads :
        td[t].pc \in Hearing /\ td[u].pc \in Hearing /\ td[t].port = td[u].port => t = u

(* The two properties in numbers, and the exact form that the packets of a *)
(* listening socket obey, so that its server never dequeues from nothing.  *)
Balanced(p) == sock[p].mutex + Count(Holding, p) = 1 + sock[p].acked
Queued(s) == Len(s.packets)
Covered(p) == Queued(sock[p]) <= sock[p].ready + Count(Announced, p)
Exact(p) ==
    sock[p].status = "listening" =>
        Queued(sock[p]) = sock[p].ready + Count(Dequeuing, p)

IInv ==
    /\ Shape /\ StatusKnown /\ OneServer
    /\ \A p \in Ports : Balanced(p) /\ Covered(p) /\ Exact(p)

-----------------------------------------------------------------------------
In(pc, pcs) == IF pc \in pcs THEN 1 ELSE 0

(* Counts are numbers, before a step and after it.                         *)
LEMMA CountNat == \A pcs, p : Count(pcs, p) \in Nat /\ Count(pcs, p)' \in Nat
<1> TAKE pcs, p
<1>1. At(pcs, p) \in SUBSET Threads /\ At(pcs, p)' \in SUBSET Threads
  BY DEF At
<1> QED
  BY <1>1, FS_Subset, FS_CardinalityType, MiniSocketAssumption DEF Count

(* Nobody is counted where nobody is.                                      *)
LEMMA CountZero ==
  ASSUME NEW pcs, NEW p, \A t \in Threads : td[t].port = p => td[t].pc \notin pcs
  PROVE  Count(pcs, p) = 0
<1>1. At(pcs, p) = {}
  BY DEF At
<1> QED
  BY <1>1, FS_EmptySet DEF Count

(* A thread is counted at its own port.                                    *)
LEMMA CountOne ==
  ASSUME NEW pcs, NEW t \in Threads, td[t].pc \in pcs
  PROVE  Count(pcs, td[t].port) > 0
<1> DEFINE S == At(pcs, td[t].port)
<1>1. t \in S /\ S \in SUBSET Threads
  BY DEF At
<1>2. IsFiniteSet(S) /\ Cardinality(S) \in Nat
  BY <1>1, FS_Subset, FS_CardinalityType, MiniSocketAssumption
<1> QED
  BY <1>1, <1>2, FS_EmptySet, CountNat DEF Count

(* A thread that moves at a port leaves one set of places and enters       *)
(* another; a thread that is not there counts for nothing.                 *)
LEMMA CountMoves ==
  ASSUME NEW t \in Threads, \A u \in Threads \ {t} : td'[u] = td[u],
         NEW pcs, NEW p,
         td[t].pc \in pcs => td[t].port = p, td'[t].pc \in pcs => td'[t].port = p
  PROVE  /\ Count(pcs, p)' = Count(pcs, p) - In(td[t].pc, pcs) + In(td'[t].pc, pcs)
         /\ \A q : q # p => Count(pcs, q)' = Count(pcs, q)
<1>1. \A q : q # p => At(pcs, q)' = At(pcs, q)
  BY DEF At
<1> DEFINE S == At(pcs, p)  R == S \ {t}
<1>2. IsFiniteSet(S) /\ Cardinality(S) \in Nat /\ IsFiniteSet(R) /\ Cardinality(R) \in Nat
  BY FS_Subset, FS_CardinalityType, MiniSocketAssumption DEF At
<1>3. Cardinality(R) = Cardinality(S) - In(td[t].pc, pcs)
  <2>1. t \in S <=> td[t].pc \in pcs
    BY DEF At
  <2> HIDE DEF S
  <2> QED
    BY <1>2, <2>1, FS_RemoveElement DEF In
<1>4. S' = IF td'[t].pc \in pcs THEN R \cup {t} ELSE R
  BY DEF At
<1>5. Cardinality(S') = Cardinality(R) + In(td'[t].pc, pcs)
  <2> HIDE DEF S
  <2>1. CASE td'[t].pc \in pcs
    BY <1>2, <1>4, <2>1, FS_AddElement DEF In
  <2>2. CASE td'[t].pc \notin pcs
    BY <1>2, <1>4, <2>2 DEF In
  <2> QED
    BY <2>1, <2>2
<1> QED
  BY <1>1, <1>3, <1>5 DEF Count

(* When no thread moves the counts stay.                                   *)
LEMMA SameCounts ==
  ASSUME UNCHANGED td
  PROVE  \A pcs, p : Count(pcs, p)' = Count(pcs, p)
BY DEF Count, At

-----------------------------------------------------------------------------
(* What no step does but the search for a port: a socket that was created  *)
(* stays, and nobody begins to search or is refused.                       *)
Calm ==
    /\ \A p \in Ports : sock[p].status # "none" => sock'[p].status # "none"
    /\ \A t \in Threads : td'[t].pc \in {"search", "refused"} => td'[t] = td[t]

Numbers(s) ==
    s.mutex \in Int /\ s.acked \in Int /\ s.ready \in Nat /\ Queued(s) \in Nat

(* The arithmetic of a step: what the counts gain, the mutex and the       *)
(* queue lose.                                                             *)
LEMMA NumbersMove ==
  ASSUME NEW q, Balanced(q), Covered(q), Exact(q), Numbers(sock[q]), Numbers(sock'[q]),
         NEW h \in Int, NEW a \in Int, NEW d \in Int,
         Count(Holding, q)' = Count(Holding, q) + h,
         Count(Announced, q)' = Count(Announced, q) + a,
         Count(Dequeuing, q)' = Count(Dequeuing, q) + d,
         sock'[q].mutex - sock'[q].acked = sock[q].mutex - sock[q].acked - h,
         \/ Queued(sock'[q]) = 0
         \/ Queued(sock'[q]) - sock'[q].ready
              <= Queued(sock[q]) - sock[q].ready + a,
         sock'[q].status = "listening" =>
            /\ sock[q].status = "listening"
            /\ Queued(sock'[q]) - sock'[q].ready
                = Queued(sock[q]) - sock[q].ready + d
  PROVE  Balanced(q)' /\ Covered(q)' /\ Exact(q)'
<1>1. /\ Count(Holding, q) \in Nat /\ Count(Holding, q)' \in Nat
      /\ Count(Announced, q) \in Nat /\ Count(Announced, q)' \in Nat
      /\ Count(Dequeuing, q) \in Nat /\ Count(Dequeuing, q)' \in Nat
  BY CountNat
<1> USE <1>1 DEF Numbers
<1>2. Balanced(q)'
  BY DEF Balanced
<1>3. Covered(q)'
  BY DEF Covered
<1>4. Exact(q)'
  BY DEF Exact
<1> QED
  BY <1>2, <1>3, <1>4

(* A thread moves at a socket and changes it.  What it takes from the      *)
(* mutex or from the counts, its place makes up for.                       *)
LEMMA StepAt ==
  ASSUME IInv, NEW t \in Threads, NEW p \in Ports, NEW s, NEW r,
         sock' = [sock EXCEPT ![p] = s], td' = [td EXCEPT ![t] = r],
         UNCHANGED frame, currentClientPort' \in Int,
         IsSocket(s), IsThread(r), r.pc \notin {"search", "refused"}, s.status # "none",
         td[t].pc \in Busy => td[t].port = p,
         r.pc \in Busy => r.port = p,
         s.mutex - s.acked = sock[p].mutex - sock[p].acked
                             + In(td[t].pc, Holding) - In(r.pc, Holding),
         \/ Queued(s) = 0
         \/ Queued(s) - s.ready - In(r.pc, Announced)
              <= Queued(sock[p]) - sock[p].ready - In(td[t].pc, Announced),
         s.status = "listening" =>
            /\ sock[p].status = "listening"
            /\ Queued(s) - s.ready - In(r.pc, Dequeuing)
                = Queued(sock[p]) - sock[p].ready - In(td[t].pc, Dequeuing),
         \/ s.status = sock[p].status
         \/ sock[p].status = "listening" /\ td[t].pc \in Hearing
         \/ {s.status, sock[p].status} \subseteq {"connecting", "connected"},
         r.pc \in Using => s.status \in {"connecting", "connected"},
         r.pc \in Hearing => s.status = "listening" /\ td[t].pc \in Hearing
  PROVE  IInv' /\ Calm
<1> USE DEF IInv
<1>1. /\ \A u \in Threads : td'[u] = IF u = t THEN r ELSE td[u]
      /\ \A q \in Ports : sock'[q] = IF q = p THEN s ELSE sock[q]
  BY DEF Shape
<1>2. Shape'
  BY <1>1 DEF Shape
<1>3. StatusKnown'
  <2>1. ASSUME NEW u \in Threads, u # t, td[u].pc \in Using
        PROVE  sock'[td[u].port].status \in {"connecting", "connected"}
    <3>1. td[u].port \in Ports /\ sock[td[u].port].status \in {"connecting", "connected"}
      BY <2>1 DEF Shape, IsThread, Busy, StatusKnown
    <3> QED
      BY <1>1, <3>1
  <2>2. ASSUME NEW u \in Threads, u # t, td[u].pc \in Hearing
        PROVE  sock'[td[u].port].status = "listening"
    <3>1. td[u].port \in Ports /\ sock[td[u].port].status = "listening"
      BY <2>2 DEF Shape, IsThread, Busy, StatusKnown
    <3>2. td[u].port = p /\ td[t].pc \in Hearing => u = t
      BY <2>2 DEF OneServer, Busy
    <3> QED
      BY <1>1, <2>2, <3>1, <3>2
  <2>3. r.pc \in Busy => sock'[r.port] = s
    BY <1>1
  <2> QED
    BY <1>1, <2>1, <2>2, <2>3 DEF StatusKnown, Busy
<1>4. OneServer'
  <2>1. r.pc \in Hearing => td[t].pc \in Hearing /\ r.port = td[t].port
    BY DEF Busy
  <2> QED
    BY <1>1, <2>1 DEF OneServer
<1>5. ASSUME NEW pcs, pcs \subseteq Busy
      PROVE  /\ Count(pcs, p)' = Count(pcs, p) - In(td[t].pc, pcs) + In(r.pc, pcs)
             /\ \A q : q # p => Count(pcs, q)' = Count(pcs, q)
  <2>1. /\ td'[t] = r
        /\ td[t].pc \in pcs => td[t].port = p
        /\ td'[t].pc \in pcs => td'[t].port = p
    BY <1>1, <1>5
  <2> HIDE DEF IInv
  <2>2. /\ Count(pcs, p)' = Count(pcs, p) - In(td[t].pc, pcs) + In(td'[t].pc, pcs)
        /\ \A q : q # p => Count(pcs, q)' = Count(pcs, q)
    BY <1>1, <2>1, CountMoves
  <2> QED
    BY <2>1, <2>2
<1>6. \A pcs : In(td[t].pc, pcs) \in {0, 1} /\ In(r.pc, pcs) \in {0, 1}
  BY DEF In
<1>7. Numbers(s) /\ Numbers(sock[p])
  BY DEF IsSocket, Shape, Numbers, Queued
<1>8. /\ Balanced(p) /\ Covered(p) /\ Exact(p) /\ sock'[p] = s
      /\ Holding \subseteq Busy /\ Announced \subseteq Busy /\ Dequeuing \subseteq Busy
  BY <1>1 DEF Holding, Announced, Dequeuing, Busy, Using, Hearing
<1> HIDE DEF IInv
<1> DEFINE h == In(r.pc, Holding) - In(td[t].pc, Holding)
           a == In(r.pc, Announced) - In(td[t].pc, Announced)
           d == In(r.pc, Dequeuing) - In(td[t].pc, Dequeuing)
<1>9. h \in Int /\ a \in Int /\ d \in Int
  BY <1>6
<1>10. /\ Count(Holding, p)' = Count(Holding, p) + h
       /\ Count(Announced, p)' = Count(Announced, p) + a
       /\ Count(Dequeuing, p)' = Count(Dequeuing, p) + d
  <2>1. /\ Count(Holding, p)' = Count(Holding, p) - In(td[t].pc, Holding) + In(r.pc, Holding)
        /\ Count(Announced, p)'
              = Count(Announced, p) - In(td[t].pc, Announced) + In(r.pc, Announced)
        /\ Count(Dequeuing, p)'
              = Count(Dequeuing, p) - In(td[t].pc, Dequeuing) + In(r.pc, Dequeuing)
    BY <1>5, <1>8
  <2>2. /\ Count(Holding, p) \in Nat /\ Count(Announced, p) \in Nat
        /\ Count(Dequeuing, p) \in Nat
    BY CountNat
  <2>3. \A pcs \in {Holding, Announced, Dequeuing} :
            In(td[t].pc, pcs) \in Int /\ In(r.pc, pcs) \in Int
    BY <1>6
  <2> QED
    BY <2>1, <2>2, <2>3
<1>11. Balanced(p)' /\ Covered(p)' /\ Exact(p)'
  <2>1. s.mutex - s.acked = sock[p].mutex - sock[p].acked - h
    BY <1>6, <1>7 DEF Numbers
  <2>2. \/ Queued(s) = 0
        \/ Queued(s) - s.ready <= Queued(sock[p]) - sock[p].ready + a
    BY <1>6, <1>7 DEF Numbers
  <2>3. s.status = "listening" =>
            /\ sock[p].status = "listening"
            /\ Queued(s) - s.ready = Queued(sock[p]) - sock[p].ready + d
    BY <1>6, <1>7 DEF Numbers
  <2> HIDE DEF h, a, d
  <2> QED
    BY <1>7, <1>8, <1>9, <1>10, <2>1, <2>2, <2>3, NumbersMove
<1>12. ASSUME NEW q \in Ports, q # p PROVE Balanced(q)' /\ Covered(q)' /\ Exact(q)'
  <2>1. \A pcs : pcs \subseteq Busy => Count(pcs, q)' = Count(pcs, q)
    BY <1>5, <1>12
  <2>2. sock'[q] = sock[q] /\ Balanced(q) /\ Covered(q) /\ Exact(q)
    BY <1>1, <1>12 DEF IInv
  <2> QED
    BY <1>8, <2>1, <2>2 DEF Balanced, Covered, Exact
<1>13. Calm
  BY <1>1 DEF Calm
<1> QED
  BY <1>2, <1>3, <1>4, <1>11, <1>12, <1>13 DEF IInv

(* A packet or an alarm changes a socket, and nobody moves.                *)
LEMMA SocketOnly ==
  ASSUME IInv, NEW p, NEW s, p \in Ports => sock' = [sock EXCEPT ![p] = s],
         p \notin Ports => UNCHANGED sock,
         UNCHANGED <<td, currentClientPort>>, frame' = [t \in Threads |-> frame'[t]],
         \A t \in Threads : frame'[t] # NoFrame => frame'[t].pkt \in Arrivals,
         p \in Ports =>
            /\ IsSocket(s) /\ s.status = sock[p].status
            /\ s.mutex - s.acked = sock[p].mutex - sock[p].acked
            /\ Queued(s) - s.ready = Queued(sock[p]) - sock[p].ready
  PROVE  IInv' /\ Calm
<1> USE DEF IInv
<1>1. \A q \in Ports : sock'[q] = IF q = p THEN s ELSE sock[q]
  BY DEF Shape
<1>2. Shape'
  BY <1>1 DEF Shape
<1>3. StatusKnown' /\ OneServer'
  BY <1>1 DEF StatusKnown, OneServer, Shape, IsThread, Busy
<1>4. \A pcs, q : Count(pcs, q)' = Count(pcs, q) /\ Count(pcs, q) \in Nat
  BY SameCounts, CountNat
<1>5. ASSUME NEW q \in Ports PROVE Balanced(q)' /\ Covered(q)' /\ Exact(q)'
  <2>1. Balanced(q) /\ Covered(q) /\ Exact(q)
    OBVIOUS
  <2>2. Numbers(sock[q]) /\ Numbers(sock'[q])
    BY <1>1 DEF IsSocket, Shape, Numbers, Queued
  <2>3. /\ sock'[q].status = sock[q].status
        /\ sock'[q].mutex - sock'[q].acked = sock[q].mutex - sock[q].acked - 0
        /\ Queued(sock'[q]) - sock'[q].ready = Queued(sock[q]) - sock[q].ready + 0
    BY <1>1, <2>2 DEF Numbers
  <2> HIDE DEF IInv
  <2>4. \A pcs : Count(pcs, q)' = Count(pcs, q) + 0
    BY <1>4
  <2>5. Queued(sock'[q]) - sock'[q].ready <= Queued(sock[q]) - sock[q].ready + 0
    BY <2>2, <2>3 DEF Numbers
  <2> QED
    BY <2>1, <2>2, <2>3, <2>4, <2>5, NumbersMove
<1>6. Calm
  BY <1>1 DEF Calm
<1> QED
  BY <1>2, <1>3, <1>5, <1>6

(* A new socket, and the first thread that is busy with it.                *)
LEMMA CreatedAt ==
  ASSUME IInv, NEW t \in Threads, NEW p \in Ports, NEW s, NEW r,
         sock' = [sock EXCEPT ![p] = s], td' = [td EXCEPT ![t] = r],
         UNCHANGED frame, currentClientPort' \in Int,
         sock[p].status = "none", IsSocket(s), IsThread(r), r.port = p,
         s.mutex = 1, s.acked = 0, s.ready = 0, s.packets = <<>>,
         td[t].pc \notin Busy,
         \/ s.status = "listening" /\ r.pc = "listen"
         \/ s.status = "connecting" /\ r.pc = "transmit"
  PROVE  IInv' /\ Calm
<1> USE DEF IInv
<1>1. /\ \A u \in Threads : td'[u] = IF u = t THEN r ELSE td[u]
      /\ \A q \in Ports : sock'[q] = IF q = p THEN s ELSE sock[q]
  BY DEF Shape
<1>2. \A u \in Threads : td[u].port = p => td[u].pc \notin Busy
  BY DEF StatusKnown, Busy
<1>3. Shape'
  BY <1>1 DEF Shape
<1>4. StatusKnown'
  BY <1>1, <1>2 DEF StatusKnown, Busy, Using, Hearing
<1>5. OneServer'
  BY <1>1, <1>2 DEF OneServer, Busy, Hearing
<1>6. r.pc \notin Holding /\ r.pc \notin Announced /\ r.pc \notin Dequeuing
  BY DEF Holding, Announced, Dequeuing
<1>7. \A pcs \in {Holding, Announced, Dequeuing} : pcs \subseteq Busy
  BY DEF Holding, Announced, Dequeuing, Busy, Using, Hearing
<1>8. ASSUME NEW pcs \in {Holding, Announced, Dequeuing}
      PROVE  Count(pcs, p)' = 0 /\ \A q : q # p => Count(pcs, q)' = Count(pcs, q)
  <2>1. Count(pcs, p) = 0
    BY <1>2, <1>7, CountZero
  <2>2. td[t].pc \notin pcs /\ r.pc \notin pcs
    BY <1>6, <1>7
  <2> QED
    BY <1>1, <2>1, <2>2, CountMoves, CountNat DEF In
<1>9. Queued(s) = 0
  BY DEF Queued
<1>10. ASSUME NEW q \in Ports PROVE Balanced(q)' /\ Covered(q)' /\ Exact(q)'
  BY <1>1, <1>8, <1>9 DEF Balanced, Covered, Exact
<1>11. Calm
  BY <1>1 DEF Calm
<1> QED
  BY <1>3, <1>4, <1>5, <1>10, <1>11

(* A thread that is busy with no socket before and after.                  *)
LEMMA Elsewhere ==
  ASSUME IInv, NEW t \in Threads, NEW r, td' = [td EXCEPT ![t] = r],
         UNCHANGED <<sock, frame>>, currentClientPort' \in Int,
         IsThread(r), td[t].pc \notin Busy, r.pc \notin Busy
  PROVE  IInv' /\ (r.pc \notin {"search", "refused"} => Calm)
<1> USE DEF IInv
<1>1. \A u \in Threads : td'[u] = IF u = t THEN r ELSE td[u]
  BY DEF Shape
<1>2. Shape' /\ StatusKnown' /\ OneServer'
  BY <1>1 DEF Shape, StatusKnown, OneServer, Busy
<1>3. \A pcs \in {Holding, Announced, Dequeuing} : pcs \subseteq Busy
  BY DEF Holding, Announced, Dequeuing, Busy, Using, Hearing
<1>4. ASSUME NEW pcs \in {Holding, Announced, Dequeuing}, NEW q
      PROVE  Count(pcs, q)' = Count(pcs, q)
  <2>1. td[t].pc \notin pcs /\ r.pc \notin pcs
    BY <1>3
  <2>2. Count(pcs, q)' = Count(pcs, q) - In(td[t].pc, pcs) + In(r.pc, pcs)
    BY <1>1, <2>1, CountMoves
  <2> QED
    BY <2>1, <2>2, CountNat DEF In
<1>5. ASSUME NEW q \in Ports PROVE Balanced(q)' /\ Covered(q)' /\ Exact(q)'
  BY <1>4 DEF Balanced, Covered, Exact
<1>6. r.pc \notin {"search", "refused"} => Calm
  BY <1>1 DEF Calm
<1> QED
  BY <1>2, <1>5, <1>6

-----------------------------------------------------------------------------
(* A busy thread and its socket.                                           *)
LEMMA BusyThread ==
  ASSUME IInv, NEW t \in Threads, td[t].pc \in Busy
  PROVE  /\ td[t].port \in Ports
         /\ IsSocket(Mine(t))
         /\ td[t].pc \in Using => Mine(t).status \in {"connecting", "connected"}
         /\ td[t].pc \in Hearing => Mine(t).status = "listening"
         /\ \A pc : /\ IsThread([td[t] EXCEPT !.pc = pc]) \/ pc = "search"
                    /\ [td[t] EXCEPT !.pc = pc].pc = pc
                    /\ [td[t] EXCEPT !.pc = pc].port = td[t].port
BY DEF IInv, Shape, StatusKnown, IsThread, Mine

(* The server takes a packet that was announced, and will dequeue it.      *)
LEMMA ListenPreserves ==
  ASSUME IInv, NEW t \in Threads, Listen(t) PROVE IInv' /\ Calm
<1> DEFINE s == [Mine(t) EXCEPT !.ready = @ - 1]
           r == [td[t] EXCEPT !.pc = "dequeue"]
<1>1. /\ td[t].pc = "listen" /\ Mine(t).ready > 0
      /\ sock' = [sock EXCEPT ![td[t].port] = s] /\ td' = [td EXCEPT ![t].pc = "dequeue"]
      /\ UNCHANGED <<frame, currentClientPort>>
  BY DEF Listen, Runs, SetMine, Moves
<1>2. td[t].pc \in Hearing /\ td[t].pc \in Busy
  BY <1>1 DEF Hearing, Busy
<1>3. /\ td[t].port \in Ports /\ Mine(t) = sock[td[t].port] /\ Mine(t).status = "listening"
      /\ IsThread(r) /\ r.pc = "dequeue" /\ r.port = td[t].port
  BY <1>2, BusyThread DEF Mine
<1>4. /\ IsSocket(s) /\ s.status = Mine(t).status /\ s.mutex = Mine(t).mutex
      /\ s.acked = Mine(t).acked /\ s.ready = Mine(t).ready - 1 /\ Queued(s) = Queued(Mine(t))
  BY <1>1, <1>2, BusyThread DEF IsSocket, Queued
<1>5. td' = [td EXCEPT ![t] = r]
  BY <1>1 DEF IInv, Shape
<1>6. /\ In(td[t].pc, Holding) = 0 /\ In(td[t].pc, Announced) = 0 /\ In(td[t].pc, Dequeuing) = 0
      /\ In(r.pc, Holding) = 0 /\ In(r.pc, Announced) = 1 /\ In(r.pc, Dequeuing) = 1
      /\ r.pc \notin Using /\ r.pc \notin {"search", "refused"}
  BY <1>1, <1>3 DEF In, Holding, Announced, Dequeuing, Using
<1>7. Numbers(Mine(t)) /\ Numbers(s)
  BY <1>2, <1>4, BusyThread DEF Numbers, IsSocket, Queued
<1>8. /\ s.mutex - s.acked = Mine(t).mutex - Mine(t).acked + 0 - 0
      /\ Queued(s) - s.ready - 1 <= Queued(Mine(t)) - Mine(t).ready - 0
      /\ Queued(s) - s.ready - 1 = Queued(Mine(t)) - Mine(t).ready - 0
  BY <1>4, <1>7 DEF Numbers
<1> HIDE DEF s, r
<1> QED
  BY <1>1, <1>2, <1>3, <1>4, <1>5, <1>6, <1>8, StepAt DEF IInv, Shape

(* It dequeues one: the next that comes is a request, or it listens on.    *)
LEMMA TakeRequestPreserves ==
  ASSUME IInv, NEW t \in Threads, TakeRequest(t) PROVE IInv' /\ Calm
<1> DEFINE p == td[t].port
           s0 == [Mine(t) EXCEPT !.packets = Tail(@)]
           s1 == [Mine(t) EXCEPT !.packets = Tail(@), !.status = "connecting"]
           r0 == [td[t] EXCEPT !.pc = "listen"]
           r1 == [pc |-> "transmit", port |-> p, goal |-> "serve", kind |-> "SYNACK",
                  try |-> 1, parts |-> 0, ok |-> FALSE]
<1>1. /\ td[t].pc = "dequeue"
      /\ \/ sock' = [sock EXCEPT ![p] = s1] /\ td' = [td EXCEPT ![t] = r1]
         \/ sock' = [sock EXCEPT ![p] = s0] /\ td' = [td EXCEPT ![t].pc = "listen"]
      /\ UNCHANGED <<frame, currentClientPort>>
  BY DEF TakeRequest, Runs, SetMine, Moves, Transmits
<1>2. td[t].pc \in Hearing /\ td[t].pc \in Busy
  BY <1>1 DEF Hearing, Busy
<1>3. /\ p \in Ports /\ Mine(t) = sock[p] /\ Mine(t).status = "listening"
      /\ IsSocket(Mine(t)) /\ IsThread(r0) /\ r0.pc = "listen" /\ r0.port = p
  BY <1>2, BusyThread DEF Mine
<1>4. IsThread(r1) /\ r1.pc = "transmit" /\ r1.port = p
  BY <1>3 DEF IsThread
<1>5. Numbers(Mine(t)) /\ Queued(Mine(t)) > 0
  <2>1. Numbers(Mine(t))
    BY <1>3 DEF Numbers, IsSocket, Queued
  <2>2. Count(Dequeuing, p) > 0 /\ Count(Dequeuing, p) \in Nat
    BY <1>1, CountOne, CountNat DEF Dequeuing
  <2>3. Queued(Mine(t)) = Mine(t).ready + Count(Dequeuing, p)
    BY <1>3 DEF IInv, Exact
  <2> QED
    BY <2>1, <2>2, <2>3 DEF Numbers
<1>6. /\ Tail(Mine(t).packets) \in Seq(Kinds)
      /\ Len(Tail(Mine(t).packets)) = Queued(Mine(t)) - 1
  BY <1>3, <1>5, HeadTailProperties DEF IsSocket, Queued
<1>7. ASSUME NEW s \in {s0, s1}
      PROVE  /\ IsSocket(s) /\ s.mutex = Mine(t).mutex /\ s.acked = Mine(t).acked
             /\ s.ready = Mine(t).ready /\ Queued(s) = Queued(Mine(t)) - 1
  BY <1>3, <1>6 DEF IsSocket, Queued
<1>8. s0.status = "listening" /\ s1.status = "connecting"
  BY <1>3 DEF IsSocket
<1>9. \A pc \in {"listen", "transmit"} :
         /\ In(td[t].pc, Holding) = 0 /\ In(td[t].pc, Announced) = 1
         /\ In(td[t].pc, Dequeuing) = 1
         /\ In(pc, Holding) = 0 /\ In(pc, Announced) = 0 /\ In(pc, Dequeuing) = 0
  BY <1>1 DEF In, Holding, Announced, Dequeuing
<1>10. /\ "listen" \notin Using /\ "transmit" \notin Hearing
       /\ r0.pc \notin {"search", "refused"} /\ r1.pc \notin {"search", "refused"}
  BY <1>3, <1>4 DEF Using, Hearing
<1>11. ASSUME NEW s \in {s0, s1}
       PROVE  /\ s.mutex - s.acked = Mine(t).mutex - Mine(t).acked + 0 - 0
              /\ Queued(s) - s.ready - 0 = Queued(Mine(t)) - Mine(t).ready - 1
              /\ Queued(s) - s.ready - 0 <= Queued(Mine(t)) - Mine(t).ready - 1
  <2>1. Numbers(Mine(t)) /\ s.mutex = Mine(t).mutex /\ s.acked = Mine(t).acked
        /\ s.ready = Mine(t).ready /\ Queued(s) = Queued(Mine(t)) - 1
    BY <1>5, <1>7
  <2> HIDE DEF s0, s1
  <2> QED
    BY <2>1 DEF Numbers
<1>12. CASE td' = [td EXCEPT ![t] = r1] /\ sock' = [sock EXCEPT ![p] = s1]
  <2> HIDE DEF s0, s1, r0, r1, p
  <2>1. IsSocket(s1)
    BY <1>7
  <2>2. /\ s1.mutex - s1.acked = sock[p].mutex - sock[p].acked
                                + In(td[t].pc, Holding) - In(r1.pc, Holding)
        /\ Queued(s1) - s1.ready - In(r1.pc, Announced)
              <= Queued(sock[p]) - sock[p].ready - In(td[t].pc, Announced)
    BY <1>3, <1>4, <1>9, <1>11
  <2>3. /\ UNCHANGED frame /\ currentClientPort' \in Int
        /\ r1.pc \notin Hearing /\ r1.pc \notin {"search", "refused"}
        /\ td[t].port = p /\ s1.status = "connecting" /\ sock[p].status = "listening"
    BY <1>1, <1>3, <1>4, <1>8, <1>10 DEF IInv, Shape, p
  <2> QED
    BY <1>2, <1>3, <1>4, <1>12, <2>1, <2>2, <2>3, StepAt
<1>13. CASE td' = [td EXCEPT ![t].pc = "listen"] /\ sock' = [sock EXCEPT ![p] = s0]
  <2>1. td' = [td EXCEPT ![t] = r0]
    BY <1>13 DEF IInv, Shape
  <2> HIDE DEF s0, s1, r0, r1, p
  <2>2. IsSocket(s0)
    BY <1>7
  <2>3. /\ s0.mutex - s0.acked = sock[p].mutex - sock[p].acked
                                + In(td[t].pc, Holding) - In(r0.pc, Holding)
        /\ Queued(s0) - s0.ready - In(r0.pc, Announced)
              <= Queued(sock[p]) - sock[p].ready - In(td[t].pc, Announced)
        /\ Queued(s0) - s0.ready - In(r0.pc, Dequeuing)
              = Queued(sock[p]) - sock[p].ready - In(td[t].pc, Dequeuing)
    BY <1>3, <1>9, <1>11
  <2>4. /\ sock' = [sock EXCEPT ![p] = s0] /\ UNCHANGED frame /\ currentClientPort' \in Int
        /\ r0.pc \notin Using /\ r0.pc \notin {"search", "refused"}
        /\ td[t].port = p /\ s0.status = "listening" /\ sock[p].status = "listening"
    BY <1>1, <1>3, <1>8, <1>10, <1>13 DEF IInv, Shape, p
  <2> QED
    BY <1>2, <1>3, <2>1, <2>2, <2>3, <2>4, StepAt
<1> QED
  BY <1>1, <1>12, <1>13

(* A thread that uses a socket, or comes to use it, or leaves it: such a   *)
(* socket is not listening any more.                                       *)
LEMMA UserMoves ==
  ASSUME IInv, NEW t \in Threads, NEW p \in Ports, NEW s, NEW r,
         sock' = [sock EXCEPT ![p] = s], td' = [td EXCEPT ![t] = r],
         UNCHANGED <<frame, currentClientPort>>,
         IsSocket(s), IsThread(r), r.pc \in Using \cup {"idle"},
         td[t].pc \in Busy => td[t].port = p, r.pc \in Busy => r.port = p,
         sock[p].status \in {"connecting", "connected"},
         s.status \in {"connecting", "connected"},
         s.mutex - s.acked = sock[p].mutex - sock[p].acked
                             + In(td[t].pc, Holding) - In(r.pc, Holding),
         \/ Queued(s) = 0
         \/ Queued(s) - s.ready - In(r.pc, Announced)
              <= Queued(sock[p]) - sock[p].ready - In(td[t].pc, Announced)
  PROVE  IInv' /\ Calm
<1>1. r.pc \notin Hearing /\ r.pc \notin {"search", "refused"}
  BY DEF Using, Hearing
<1> QED
  BY <1>1, StepAt DEF IInv, Shape

(* The same when it stays outside the mutex and the numbers stay.          *)
LEMMA QuietMoves ==
  ASSUME IInv, NEW t \in Threads, NEW p \in Ports, NEW s, NEW r,
         sock' = [sock EXCEPT ![p] = s], td' = [td EXCEPT ![t] = r],
         UNCHANGED <<frame, currentClientPort>>,
         IsSocket(s), IsThread(r),
         td[t].pc \in {"idle", "transmit", "sent", "await", "lockEnd"},
         r.pc \in {"idle", "transmit", "sent", "await", "lock", "receive", "lockQueue", "lockEnd"},
         td[t].pc # "idle" => td[t].port = p, r.pc # "idle" => r.port = p,
         sock[p].status \in {"connecting", "connected"},
         s.status \in {"connecting", "connected"},
         s.mutex = sock[p].mutex, s.acked = sock[p].acked,
         s.ready = sock[p].ready, s.packets = sock[p].packets
  PROVE  IInv' /\ Calm
<1>1. /\ r.pc \in Using \cup {"idle"} /\ "idle" \notin Busy
      /\ In(td[t].pc, Holding) = 0 /\ In(r.pc, Holding) = 0
      /\ In(td[t].pc, Announced) = 0 /\ In(r.pc, Announced) \in {0, 1}
  BY DEF In, Using, Hearing, Busy, Holding, Announced
<1>2. Numbers(sock[p]) /\ Queued(s) = Queued(sock[p])
  BY DEF IInv, Shape, IsSocket, Numbers, Queued
<1>3. /\ s.mutex - s.acked = sock[p].mutex - sock[p].acked + 0 - 0
      /\ Queued(s) - s.ready - In(r.pc, Announced) <= Queued(sock[p]) - sock[p].ready - 0
  BY <1>1, <1>2 DEF Numbers
<1> QED
  BY <1>1, <1>3, UserMoves

(* What the fields of a record are when one of them is set.                *)
LEMMA MovedThread ==
  ASSUME IInv, NEW t \in Threads, NEW pc, td[t].pc \in Busy, pc # "search", Moves(t, pc)
  PROVE  \E r : /\ td' = [td EXCEPT ![t] = r] /\ IsThread(r)
                /\ r.pc = pc /\ r.port = td[t].port
<1> DEFINE r == [td[t] EXCEPT !.pc = pc]
<1>1. td' = [td EXCEPT ![t] = r]
  BY DEF IInv, Shape, Moves
<1>2. IsThread(r) /\ r.pc = pc /\ r.port = td[t].port
  BY BusyThread
<1> HIDE DEF r
<1> QED
  BY <1>1, <1>2

(* The next try of transmit_packet, or its end.                            *)
LEMMA TriesNext ==
  ASSUME IInv, NEW t \in Threads, td[t].pc \in Busy, NextTry(t)
  PROVE  \E r : /\ td' = [td EXCEPT ![t] = r] /\ IsThread(r)
                /\ r.pc \in {"transmit", "lockEnd"} /\ r.port = td[t].port
<1>1. PICK next \in {"transmit", "lockEnd"} :
         td' = [td EXCEPT ![t].try = @ + 1, ![t].pc = next]
  BY DEF NextTry
<1> DEFINE r == [td[t] EXCEPT !.try = @ + 1, !.pc = next]
<1>2. td' = [td EXCEPT ![t] = r]
  BY <1>1 DEF IInv, Shape
<1>3. IsThread(td[t]) /\ td[t].port \in Ports
  BY BusyThread DEF IInv, Shape
<1>4. IsThread(r) /\ r.pc = next /\ r.port = td[t].port
  BY <1>3 DEF IsThread
<1> HIDE DEF r
<1> QED
  BY <1>2, <1>4

(* What a thread is when transmit_packet begins.                           *)
LEMMA Transmitting ==
  ASSUME NEW t, NEW goal, NEW kind, NEW p \in Ports, NEW parts,
         Transmits(t, goal, kind, p, parts)
  PROVE  \E r : /\ td' = [td EXCEPT ![t] = r] /\ IsThread(r)
                /\ r.pc = "transmit" /\ r.port = p
<1> DEFINE r == [pc |-> "transmit", port |-> p, goal |-> goal, kind |-> kind,
                 try |-> 1, parts |-> parts, ok |-> FALSE]
<1>1. IsThread(r) /\ r.pc = "transmit" /\ r.port = p
  BY DEF IsThread
<1>2. td' = [td EXCEPT ![t] = r]
  BY DEF Transmits
<1> HIDE DEF r
<1> QED
  BY <1>1, <1>2

(* A thread that returned is with no socket.                               *)
LEMMA Idling == IsThread(IdleThread) /\ IdleThread.pc = "idle"
BY DEF IsThread, IdleThread, Busy, Hearing, Using

(* Nothing of a socket but what the invariant does not name.               *)
Alike(s, m) ==
    /\ IsSocket(s) /\ s.status = m.status /\ s.mutex = m.mutex /\ s.acked = m.acked
    /\ s.ready = m.ready /\ s.packets = m.packets

(* waiting, acks and ack_number are such fields.                           *)
LEMMA FieldsAlike ==
  ASSUME NEW m, IsSocket(m)
  PROVE  /\ Alike(m, m)
         /\ \A x : Alike([m EXCEPT !.waiting = x], m)
         /\ \A x : Alike([m EXCEPT !.acks = x], m)
         /\ \A x : Alike([m EXCEPT !.ack_number = x], m)
BY DEF Alike, IsSocket

(* The packet is sent and its alarm set, or refused by the network.        *)
LEMMA TransmitPacketPreserves ==
  ASSUME IInv, NEW t \in Threads, transmit_packet(t) PROVE IInv' /\ Calm
<1>1. /\ td[t].pc = "transmit" /\ (Moves(t, "sent") \/ NextTry(t))
      /\ UNCHANGED <<sock, frame, currentClientPort>>
  <2>1. (register_alarm(t) /\ Moves(t, "sent")) \/ NextTry(t)
    BY DEF transmit_packet
  <2>2. td[t].pc = "transmit" /\ UNCHANGED <<sock, frame, currentClientPort>>
    BY DEF transmit_packet, Runs
  <2> QED
    BY <2>1, <2>2
<1>2. td[t].pc \in Using /\ td[t].pc \in Busy
  BY <1>1 DEF Using, Busy
<1>3. PICK r : /\ td' = [td EXCEPT ![t] = r] /\ IsThread(r)
               /\ r.pc \in {"sent", "transmit", "lockEnd"} /\ r.port = td[t].port
  <2>1. CASE Moves(t, "sent")
    BY <1>2, <2>1, MovedThread
  <2>2. CASE NextTry(t)
    BY <1>2, <2>2, TriesNext
  <2> QED
    BY <1>1, <2>1, <2>2
<1> DEFINE p == td[t].port
<1>4. /\ p \in Ports /\ IsSocket(sock[p]) /\ sock[p].status \in {"connecting", "connected"}
      /\ sock' = [sock EXCEPT ![p] = sock[p]]
  BY <1>1, <1>2, BusyThread DEF IInv, Shape, Mine
<1> QED
  BY <1>1, <1>3, <1>4, QuietMoves

(* waiting is set, and the thread goes to wait or to the mutex.            *)
LEMMA SetWaitingPreserves ==
  ASSUME IInv, NEW t \in Threads, SetWaiting(t) PROVE IInv' /\ Calm
<1>1. PICK w \in {"synack", "ack", "none"}, pc \in {"await", "lock"} :
         SetMine(t, [Mine(t) EXCEPT !.waiting = w]) /\ Moves(t, pc)
  BY DEF SetWaiting
<1>2. td[t].pc = "sent" /\ UNCHANGED <<frame, currentClientPort>>
  BY DEF SetWaiting, Runs
<1>3. td[t].pc \in Using /\ td[t].pc \in Busy
  BY <1>2 DEF Using, Busy
<1>4. PICK r : td' = [td EXCEPT ![t] = r] /\ IsThread(r) /\ r.pc = pc /\ r.port = td[t].port
  BY <1>1, <1>3, MovedThread
<1> DEFINE p == td[t].port  s == [Mine(t) EXCEPT !.waiting = w]
<1>5. /\ p \in Ports /\ Mine(t) = sock[p] /\ IsSocket(Mine(t))
      /\ Mine(t).status \in {"connecting", "connected"}
  BY <1>3, BusyThread DEF Mine
<1>6. Alike(s, sock[p]) /\ sock' = [sock EXCEPT ![p] = s]
  BY <1>1, <1>5, FieldsAlike DEF SetMine
<1> HIDE DEF s
<1> QED
  BY <1>2, <1>4, <1>5, <1>6, QuietMoves DEF Alike

(* It was woken by an acknowledgement or an alarm.                         *)
LEMMA AwaitPreserves ==
  ASSUME IInv, NEW t \in Threads, Await(t) PROVE IInv' /\ Calm
<1>1. /\ td[t].pc = "await" /\ SetMine(t, [Mine(t) EXCEPT !.acks = @ - 1]) /\ Moves(t, "lock")
      /\ UNCHANGED <<frame, currentClientPort>>
  BY DEF Await, Runs
<1>2. td[t].pc \in Using /\ td[t].pc \in Busy
  BY <1>1 DEF Using, Busy
<1>3. PICK r : td' = [td EXCEPT ![t] = r] /\ IsThread(r) /\ r.pc = "lock" /\ r.port = td[t].port
  BY <1>1, <1>2, MovedThread
<1> DEFINE p == td[t].port  s == [Mine(t) EXCEPT !.acks = @ - 1]
<1>4. /\ p \in Ports /\ Mine(t) = sock[p] /\ IsSocket(Mine(t))
      /\ Mine(t).status \in {"connecting", "connected"}
  BY <1>2, BusyThread DEF Mine
<1>5. Alike(s, sock[p]) /\ sock' = [sock EXCEPT ![p] = s]
  BY <1>1, <1>4, FieldsAlike DEF SetMine
<1> HIDE DEF s
<1> QED
  BY <1>1, <1>3, <1>4, <1>5, QuietMoves DEF Alike

(* Into the mutex: the count it takes is the thread inside.                *)
LEMMA LockPreserves ==
  ASSUME IInv, NEW t \in Threads, Lock(t) PROVE IInv' /\ Calm
<1> DEFINE pc == Inside[td[t].pc]  p == td[t].port  s == [Mine(t) EXCEPT !.mutex = @ - 1]
<1>1. /\ SetMine(t, s) /\ Moves(t, pc) /\ UNCHANGED <<frame, currentClientPort>>
      /\ \/ td[t].pc = "lock" /\ pc = "check"
         \/ td[t].pc = "lockQueue" /\ pc = "take"
  BY DEF Lock, Runs, Inside
<1>2. /\ td[t].pc \in Using /\ td[t].pc \in Busy /\ pc \in Using /\ pc # "search"
      /\ In(td[t].pc, Holding) = 0 /\ In(pc, Holding) = 1
      /\ In(td[t].pc, Announced) = In(pc, Announced) /\ In(pc, Announced) \in {0, 1}
  BY <1>1 DEF Using, Busy, In, Holding, Announced
<1> HIDE DEF pc
<1>3. PICK r : td' = [td EXCEPT ![t] = r] /\ IsThread(r) /\ r.pc = pc /\ r.port = p
  BY <1>1, <1>2, MovedThread
<1>4. /\ p \in Ports /\ Mine(t) = sock[p] /\ IsSocket(Mine(t))
      /\ Mine(t).status \in {"connecting", "connected"}
  BY <1>2, BusyThread DEF Mine
<1>5. /\ IsSocket(s) /\ s.mutex = Mine(t).mutex - 1 /\ s.acked = Mine(t).acked
      /\ s.ready = Mine(t).ready /\ s.packets = Mine(t).packets /\ s.status = Mine(t).status
  BY <1>4 DEF IsSocket
<1>6. sock' = [sock EXCEPT ![p] = s]
  BY <1>1 DEF SetMine
<1>7. Numbers(Mine(t)) /\ Queued(s) = Queued(Mine(t))
  BY <1>4, <1>5 DEF Numbers, IsSocket, Queued
<1> HIDE DEF s
<1>8. /\ s.mutex - s.acked = Mine(t).mutex - Mine(t).acked + 0 - 1
      /\ Queued(s) - s.ready - In(pc, Announced)
           <= Queued(Mine(t)) - Mine(t).ready - In(pc, Announced)
  BY <1>2, <1>5, <1>7 DEF Numbers
<1> QED
  BY <1>1, <1>2, <1>3, <1>4, <1>5, <1>6, <1>8, UserMoves

(* Out of it: acknowledged, to be sent again, or given up.                 *)
LEMMA CheckPreserves ==
  ASSUME IInv, NEW t \in Threads, Check(t) PROVE IInv' /\ Calm
<1> DEFINE p == td[t].port  s == [Mine(t) EXCEPT !.mutex = @ + 1]
<1>1. td[t].pc = "check" /\ SetMine(t, s) /\ UNCHANGED <<frame, currentClientPort>>
  BY DEF Check, Runs
<1>2. td[t].pc \in Using /\ td[t].pc \in Busy
  BY <1>1 DEF Using, Busy
<1>3. /\ p \in Ports /\ Mine(t) = sock[p] /\ IsSocket(Mine(t)) /\ IsThread(td[t])
      /\ Mine(t).status \in {"connecting", "connected"}
  BY <1>2, BusyThread DEF Mine, IInv, Shape
<1>4. PICK r : /\ td' = [td EXCEPT ![t] = r] /\ IsThread(r)
               /\ r.pc \in {"transmit", "lockEnd"} /\ r.port = p
  <2> DEFINE r1 == [td[t] EXCEPT !.pc = "transmit", !.kind = "ACK", !.try = 1]
             r2 == [td[t] EXCEPT !.pc = "lockEnd", !.ok = TRUE]
  <2>1. \/ td' = [td EXCEPT ![t].pc = "transmit", ![t].kind = "ACK", ![t].try = 1]
        \/ td' = [td EXCEPT ![t].pc = "lockEnd", ![t].ok = TRUE]
        \/ NextTry(t)
    BY DEF Check
  <2>2. CASE NextTry(t)
    BY <1>2, <2>2, TriesNext
  <2>3. td' = [td EXCEPT ![t] = r1] \/ td' = [td EXCEPT ![t] = r2] \/ NextTry(t)
    BY <2>1 DEF IInv, Shape
  <2>4. /\ IsThread(r1) /\ r1.pc = "transmit" /\ r1.port = p
        /\ IsThread(r2) /\ r2.pc = "lockEnd" /\ r2.port = p
    BY <1>3 DEF IsThread
  <2> HIDE DEF r1, r2
  <2> QED
    BY <2>2, <2>3, <2>4
<1>5. /\ IsSocket(s) /\ s.mutex = Mine(t).mutex + 1 /\ s.acked = Mine(t).acked
      /\ s.ready = Mine(t).ready /\ s.packets = Mine(t).packets /\ s.status = Mine(t).status
  BY <1>3 DEF IsSocket
<1>6. sock' = [sock EXCEPT ![p] = s]
  BY <1>1 DEF SetMine
<1>7. Numbers(Mine(t)) /\ Queued(s) = Queued(Mine(t))
  BY <1>3, <1>5 DEF Numbers, IsSocket, Queued
<1>8. /\ In(td[t].pc, Holding) = 1 /\ In(r.pc, Holding) = 0
      /\ In(td[t].pc, Announced) = 0 /\ In(r.pc, Announced) = 0
      /\ r.pc \in Using
  BY <1>1, <1>4 DEF In, Holding, Announced, Using
<1> HIDE DEF s
<1>9. /\ s.mutex - s.acked = Mine(t).mutex - Mine(t).acked + 1 - 0
      /\ Queued(s) - s.ready - 0 <= Queued(Mine(t)) - Mine(t).ready - 0
  BY <1>5, <1>7 DEF Numbers
<1> QED
  BY <1>1, <1>2, <1>3, <1>4, <1>5, <1>6, <1>8, <1>9, UserMoves

(* The end of transmit_packet: the next packet, or a connected socket.     *)
LEMMA FinishPreserves ==
  ASSUME IInv, NEW t \in Threads, Finish(t) PROVE IInv' /\ Calm
<1> DEFINE p == td[t].port
           done == [Mine(t) EXCEPT !.waiting = IF td[t].ok THEN @ ELSE "none"]
           s1 == [done EXCEPT !.ack_number = @ + 1]
           s2 == [done EXCEPT !.status = "connected"]
<1>1. td[t].pc = "lockEnd" /\ UNCHANGED <<frame, currentClientPort>>
  BY DEF Finish, Runs
<1>2. td[t].pc \in Using /\ td[t].pc \in Busy
  BY <1>1 DEF Using, Busy
<1>3. /\ p \in Ports /\ Mine(t) = sock[p] /\ IsSocket(Mine(t))
      /\ Mine(t).status \in {"connecting", "connected"}
  BY <1>2, BusyThread DEF Mine
<1>4. /\ Alike(done, Mine(t)) /\ Alike(s1, Mine(t))
      /\ IsSocket(s2) /\ s2.status = "connected" /\ s2.mutex = Mine(t).mutex
      /\ s2.acked = Mine(t).acked /\ s2.ready = Mine(t).ready /\ s2.packets = Mine(t).packets
  <2>1. Alike(done, Mine(t))
    BY <1>3, FieldsAlike
  <2> HIDE DEF done
  <2>2. Alike(s1, done)
    BY <2>1, FieldsAlike DEF Alike
  <2>3. IsSocket(s2) /\ s2.status = "connected" /\ s2.mutex = done.mutex
        /\ s2.acked = done.acked /\ s2.ready = done.ready /\ s2.packets = done.packets
    BY <2>1 DEF Alike, IsSocket
  <2> QED
    BY <2>1, <2>2, <2>3 DEF Alike
<1>5. \/ sock' = [sock EXCEPT ![p] = s1] /\ Transmits(t, "confirm", "ACK", p, 0)
      \/ sock' = [sock EXCEPT ![p] = done] /\ Transmits(t, "send", "ACK", p, td[t].parts - 1)
      \/ sock' = [sock EXCEPT ![p] = s2] /\ td' = [td EXCEPT ![t] = IdleThread]
  BY DEF Finish, SetMine
<1> HIDE DEF done, s1, s2
<1>6. ASSUME NEW s \in {done, s1}, sock' = [sock EXCEPT ![p] = s],
             NEW goal, NEW parts, Transmits(t, goal, "ACK", p, parts)
      PROVE  IInv' /\ Calm
  <2>1. PICK r : td' = [td EXCEPT ![t] = r] /\ IsThread(r) /\ r.pc = "transmit" /\ r.port = p
    BY <1>3, <1>6, Transmitting
  <2> QED
    BY <1>1, <1>3, <1>4, <1>6, <2>1, QuietMoves DEF Alike
<1>7. CASE sock' = [sock EXCEPT ![p] = s2] /\ td' = [td EXCEPT ![t] = IdleThread]
  BY <1>1, <1>3, <1>4, <1>7, Idling, QuietMoves
<1> QED
  BY <1>5, <1>6, <1>7

(* minisocket_send begins on a connected socket.                           *)
LEMMA MinisocketSendPreserves ==
  ASSUME IInv, NEW t \in Threads, minisocket_send(t) PROVE IInv' /\ Calm
<1>1. /\ td[t].pc = "idle" /\ UNCHANGED <<sock, frame, currentClientPort>>
      /\ \E p \in Connected, n \in Fragments : Transmits(t, "send", "ACK", p, n)
  BY DEF minisocket_send, Invokes, Runs
<1>2. PICK p \in Connected, n \in Fragments : Transmits(t, "send", "ACK", p, n)
  BY <1>1
<1>3. /\ p \in Ports /\ sock[p].status = "connected" /\ IsSocket(sock[p])
      /\ sock' = [sock EXCEPT ![p] = sock[p]]
  BY <1>1 DEF Connected, IInv, Shape
<1>4. PICK r : td' = [td EXCEPT ![t] = r] /\ IsThread(r) /\ r.pc = "transmit" /\ r.port = p
  BY <1>2, <1>3, Transmitting
<1> QED
  BY <1>1, <1>3, <1>4, QuietMoves

(* minisocket_receive goes to wait for a packet, or to the mutex if there  *)
(* is one.                                                                 *)
LEMMA MinisocketReceivePreserves ==
  ASSUME IInv, NEW t \in Threads, minisocket_receive(t) PROVE IInv' /\ Calm
<1>1. PICK p \in Connected, pc \in {"receive", "lockQueue"} :
          td' = [td EXCEPT ![t].port = p, ![t].pc = pc]
  BY DEF minisocket_receive
<1>2. td[t].pc = "idle" /\ UNCHANGED <<sock, frame, currentClientPort>>
  BY DEF minisocket_receive, Invokes, Runs
<1>3. /\ p \in Ports /\ sock[p].status = "connected" /\ IsSocket(sock[p])
      /\ sock' = [sock EXCEPT ![p] = sock[p]]
  BY <1>2 DEF Connected, IInv, Shape
<1> DEFINE r == [td[t] EXCEPT !.port = p, !.pc = pc]
<1>4. td' = [td EXCEPT ![t] = r] /\ IsThread(r) /\ r.pc = pc /\ r.port = p
  BY <1>1, <1>3 DEF IInv, Shape, IsThread
<1> HIDE DEF r
<1> QED
  BY <1>2, <1>3, <1>4, QuietMoves

(* The count a receiver takes stands for the packet it is about to take.   *)
LEMMA AwaitPacketPreserves ==
  ASSUME IInv, NEW t \in Threads, AwaitPacket(t) PROVE IInv' /\ Calm
<1> DEFINE p == td[t].port  s == [Mine(t) EXCEPT !.ready = @ - 1]
<1>1. /\ td[t].pc = "receive" /\ Mine(t).ready > 0 /\ SetMine(t, s) /\ Moves(t, "lockQueue")
      /\ UNCHANGED <<frame, currentClientPort>>
  BY DEF AwaitPacket, Runs
<1>2. /\ td[t].pc \in Using /\ td[t].pc \in Busy /\ "lockQueue" \in Using
      /\ In(td[t].pc, Holding) = 0 /\ In("lockQueue", Holding) = 0
      /\ In(td[t].pc, Announced) = 0 /\ In("lockQueue", Announced) = 1
  BY <1>1 DEF Using, Busy, In, Holding, Announced
<1>3. PICK r : /\ td' = [td EXCEPT ![t] = r] /\ IsThread(r)
               /\ r.pc = "lockQueue" /\ r.port = p
  BY <1>1, <1>2, MovedThread
<1>4. /\ p \in Ports /\ Mine(t) = sock[p] /\ IsSocket(Mine(t))
      /\ Mine(t).status \in {"connecting", "connected"}
  BY <1>2, BusyThread DEF Mine
<1>5. /\ IsSocket(s) /\ s.mutex = Mine(t).mutex /\ s.acked = Mine(t).acked
      /\ s.ready = Mine(t).ready - 1 /\ s.packets = Mine(t).packets /\ s.status = Mine(t).status
  BY <1>1, <1>4 DEF IsSocket
<1>6. sock' = [sock EXCEPT ![p] = s]
  BY <1>1 DEF SetMine
<1>7. Numbers(Mine(t)) /\ Queued(s) = Queued(Mine(t))
  BY <1>4, <1>5 DEF Numbers, IsSocket, Queued
<1> HIDE DEF s
<1>8. /\ s.mutex - s.acked = Mine(t).mutex - Mine(t).acked + 0 - 0
      /\ Queued(s) - s.ready - 1 <= Queued(Mine(t)) - Mine(t).ready - 0
  BY <1>5, <1>7 DEF Numbers
<1>9. /\ sock[p].status \in {"connecting", "connected"}
      /\ s.status \in {"connecting", "connected"}
      /\ s.mutex - s.acked = sock[p].mutex - sock[p].acked
                             + In(td[t].pc, Holding) - In(r.pc, Holding)
      /\ Queued(s) - s.ready - In(r.pc, Announced)
            <= Queued(sock[p]) - sock[p].ready - In(td[t].pc, Announced)
  BY <1>2, <1>3, <1>4, <1>5, <1>8
<1>10. r.pc \in Using /\ td[t].port = p /\ r.port = p
  BY <1>2, <1>3
<1> HIDE DEF p
<1> QED
  BY <1>1, <1>3, <1>4, <1>5, <1>6, <1>9, <1>10, UserMoves

(* It leaves the mutex with a packet, or with nothing if none was there.   *)
LEMMA TakeDataPreserves ==
  ASSUME IInv, NEW t \in Threads, TakeData(t) PROVE IInv' /\ Calm
<1> DEFINE p == td[t].port
           rest == IF Mine(t).packets = <<>> THEN Mine(t).packets ELSE Tail(Mine(t).packets)
<1>1. td[t].pc = "take" /\ UNCHANGED <<frame, currentClientPort>>
      /\ td' = [td EXCEPT ![t] = IdleThread]
  BY DEF TakeData, Runs
<1>2. /\ td[t].pc \in Using /\ td[t].pc \in Busy
      /\ In(td[t].pc, Holding) = 1 /\ In("idle", Holding) = 0
      /\ In(td[t].pc, Announced) = 1 /\ In("idle", Announced) = 0
  BY <1>1 DEF Using, Busy, In, Holding, Announced
<1>3. /\ p \in Ports /\ Mine(t) = sock[p] /\ IsSocket(Mine(t))
      /\ Mine(t).status \in {"connecting", "connected"}
  BY <1>2, BusyThread DEF Mine
<1>4. PICK left \in BOOLEAN :
          sock' = [sock EXCEPT ![p] = [Mine(t) EXCEPT !.mutex = @ + 1, !.data = left,
                                                      !.packets = rest]]
  BY DEF TakeData, SetMine
<1> DEFINE s == [Mine(t) EXCEPT !.mutex = @ + 1, !.data = left, !.packets = rest]
<1>5. /\ rest \in Seq(Kinds)
      /\ Len(rest) = 0 \/ Len(rest) = Queued(Mine(t)) - 1
  BY <1>3, HeadTailProperties, EmptySeq DEF IsSocket, Queued
<1> HIDE DEF rest
<1>6. /\ IsSocket(s) /\ s.mutex = Mine(t).mutex + 1 /\ s.acked = Mine(t).acked
      /\ s.ready = Mine(t).ready /\ s.packets = rest /\ s.status = Mine(t).status
  BY <1>3, <1>5 DEF IsSocket
<1>7. Numbers(Mine(t)) /\ (Queued(s) = 0 \/ Queued(s) = Queued(Mine(t)) - 1)
  BY <1>3, <1>5, <1>6 DEF Numbers, IsSocket, Queued
<1>8. sock' = [sock EXCEPT ![p] = s]
  BY <1>4
<1> HIDE DEF s
<1>9. /\ s.mutex - s.acked = Mine(t).mutex - Mine(t).acked + 1 - 0
      /\ \/ Queued(s) = 0
         \/ Queued(s) - s.ready - 0 <= Queued(Mine(t)) - Mine(t).ready - 1
  BY <1>6, <1>7 DEF Numbers
<1>10. /\ IsThread(IdleThread) /\ IdleThread.pc \in Using \cup {"idle"}
       /\ IdleThread.pc \notin Busy
       /\ In(IdleThread.pc, Holding) = 0 /\ In(IdleThread.pc, Announced) = 0
  BY <1>2, Idling DEF Busy, Using, Hearing
<1>11. /\ s.mutex - s.acked = sock[p].mutex - sock[p].acked
                              + In(td[t].pc, Holding) - In(IdleThread.pc, Holding)
       /\ \/ Queued(s) = 0
          \/ Queued(s) - s.ready - In(IdleThread.pc, Announced)
               <= Queued(sock[p]) - sock[p].ready - In(td[t].pc, Announced)
  BY <1>2, <1>3, <1>9, <1>10
<1> QED
  BY <1>1, <1>2, <1>3, <1>6, <1>8, <1>10, <1>11, UserMoves

-----------------------------------------------------------------------------
(* Ports are made of the numbers the code counts with.                     *)
LEMMA PortCount ==
  /\ TCP_MINIMUM_CLIENT \in Nat /\ TCP_MAXIMUM_CLIENT \in Nat
  /\ Cardinality(ClientPorts) = TCP_MAXIMUM_CLIENT - TCP_MINIMUM_CLIENT + 1
  /\ Cardinality(ClientPorts) \in Nat \ {0}
<1>1. /\ TCP_MINIMUM_CLIENT \in Int /\ TCP_MAXIMUM_CLIENT \in Int
      /\ ~(TCP_MINIMUM_CLIENT > TCP_MAXIMUM_CLIENT)
      /\ TCP_MINIMUM_CLIENT \in Nat /\ TCP_MAXIMUM_CLIENT \in Nat
  BY MiniSocketAssumption
<1>2. Cardinality(ClientPorts) = TCP_MAXIMUM_CLIENT - TCP_MINIMUM_CLIENT + 1
  BY <1>1, FS_Interval DEF ClientPorts
<1> QED
  BY <1>1, <1>2

(* The ports that the code computes are client ports.                      *)
LEMMA ClientPortType == \A n \in Int : ClientPort(n) \in ClientPorts
<1> SUFFICES ASSUME NEW n \in Int PROVE ClientPort(n) \in ClientPorts
  OBVIOUS
<1>1. n % Cardinality(ClientPorts) \in 0 .. Cardinality(ClientPorts) - 1
  BY PortCount
<1> QED
  BY <1>1, PortCount DEF ClientPort, ClientPorts

(* The ports a client tries: the first it computed, then those behind the  *)
(* variable, each a client port.                                           *)
LEMMA TriedType ==
  ASSUME NEW first \in ClientPorts, currentClientPort \in Int
  PROVE  /\ Len(Tried(first)) = Cardinality(ClientPorts)
         /\ DOMAIN Tried(first) = 1 .. Cardinality(ClientPorts)
         /\ Cardinality(ClientPorts) \in Nat \ {0}
         /\ Tried(first)[1] = first
         /\ \A i \in 2 .. Cardinality(ClientPorts) :
                Tried(first)[i] = ClientPort(currentClientPort + i - 1)
         /\ \A i \in DOMAIN Tried(first) : Tried(first)[i] \in ClientPorts
<1> DEFINE n == Cardinality(ClientPorts)
           others == [i \in 1 .. n - 1 |-> ClientPort(currentClientPort + i)]
<1>1. n \in Nat \ {0}
  BY PortCount
<1> HIDE DEF n
<1>2. others \in Seq(ClientPorts) /\ Len(others) = n - 1
  BY <1>1, ClientPortType, IsASeq
<1>3. <<first>> \in Seq(ClientPorts) /\ Len(<<first>>) = 1 /\ <<first>>[1] = first
  OBVIOUS
<1>4. Tried(first) = <<first>> \o others
  BY DEF Tried, n
<1>5. /\ Tried(first) \in Seq(ClientPorts) /\ Len(Tried(first)) = n
      /\ \A i \in 1 .. n :
             Tried(first)[i] = IF i <= 1 THEN <<first>>[i] ELSE others[i - 1]
  BY <1>1, <1>2, <1>3, <1>4, ConcatProperties
<1>6. \A i \in 2 .. n : others[i - 1] = ClientPort(currentClientPort + i - 1)
  BY <1>1
<1> HIDE DEF others
<1>7. \A i \in 1 .. n : Tried(first)[i] \in ClientPorts
  BY <1>5
<1> QED
  BY <1>1, <1>3, <1>5, <1>6, <1>7 DEF n

(* A server creates a socket on a port that is free.                       *)
LEMMA ServerCreatePreserves ==
  ASSUME IInv, NEW t \in Threads, minisocket_server_create(t) PROVE IInv' /\ Calm
<1>1. PICK p \in ServerPorts :
          /\ sock[p].status = "none"
          /\ minisocket_create_socket(p, "listening")
          /\ td' = [td EXCEPT ![t].pc = "listen", ![t].port = p]
  BY DEF minisocket_server_create
<1>2. PICK w \in Garbage :
          sock' = [sock EXCEPT ![p] = [NoSocket EXCEPT !.status = "listening", !.waiting = w]]
  BY <1>1 DEF minisocket_create_socket
<1> DEFINE s == [NoSocket EXCEPT !.status = "listening", !.waiting = w]
           r == [td[t] EXCEPT !.pc = "listen", !.port = p]
<1>3. /\ p \in Ports /\ td[t].pc = "idle" /\ td[t].pc \notin Busy
      /\ UNCHANGED <<frame, currentClientPort>>
  BY <1>1 DEF minisocket_server_create, Invokes, Runs, Busy, Hearing, Using, Ports
<1>4. /\ IsSocket(s) /\ s.status = "listening" /\ s.mutex = 1 /\ s.acked = 0
      /\ s.ready = 0 /\ s.packets = <<>>
  BY EmptySeq DEF NoSocket, IsSocket
<1>5. td' = [td EXCEPT ![t] = r] /\ IsThread(r) /\ r.pc = "listen" /\ r.port = p
  BY <1>1, <1>3 DEF IInv, Shape, IsThread
<1>6. sock' = [sock EXCEPT ![p] = s]
  BY <1>2
<1> HIDE DEF s, r
<1> QED
  BY <1>1, <1>3, <1>4, <1>5, <1>6, CreatedAt DEF IInv, Shape

(* A client reads the variable before the mutex.                           *)
LEMMA ClientCreatePreserves ==
  ASSUME IInv, NEW t \in Threads, minisocket_client_create(t) PROVE IInv'
<1> DEFINE r == [td[t] EXCEPT !.pc = "search", !.port = ClientPort(currentClientPort)]
<1>1. /\ td[t].pc \notin Busy /\ "search" \notin Busy
      /\ UNCHANGED <<sock, frame, currentClientPort>>
  BY DEF minisocket_client_create, Invokes, Runs, Busy, Hearing, Using
<1>2. ClientPort(currentClientPort) \in ClientPorts
  BY ClientPortType DEF IInv, Shape
<1>3. td' = [td EXCEPT ![t] = r] /\ IsThread(r) /\ r.pc = "search"
  BY <1>1, <1>2 DEF minisocket_client_create, IInv, Shape, IsThread
<1> HIDE DEF r
<1> QED
  BY <1>1, <1>3, Elsewhere DEF IInv, Shape

(* A client that found no port returns.                                    *)
LEMMA RefusedPreserves ==
  ASSUME IInv, NEW t \in Threads, Refused(t) PROVE IInv' /\ Calm
<1>1. /\ td[t].pc \notin Busy /\ IdleThread.pc \notin Busy
      /\ UNCHANGED <<sock, frame, currentClientPort>>
      /\ td' = [td EXCEPT ![t] = IdleThread]
  BY Idling DEF Refused, Runs, Busy, Hearing, Using
<1> QED
  BY <1>1, Idling, Elsewhere DEF IInv, Shape

(* Under the mutex it creates its socket on a free port, or finds none.    *)
LEMMA SearchPortPreserves ==
  ASSUME IInv, NEW t \in Threads, SearchPort(t) PROVE IInv'
<1> DEFINE tried == Tried(td[t].port)
           free == {i \in DOMAIN tried : sock[tried[i]].status = "none"}
<1>1. td[t].pc = "search" /\ td[t].pc \notin Busy /\ UNCHANGED frame
  BY DEF SearchPort, Runs, Busy, Hearing, Using
<1>2. td[t].port \in ClientPorts /\ currentClientPort \in Int
  BY <1>1 DEF IInv, Shape, IsThread
<1>3. /\ \A i \in DOMAIN tried : tried[i] \in Ports /\ i \in Int
      /\ Len(tried) \in Int
  BY <1>2, TriedType, PortCount DEF Ports
<1>4. CASE /\ Moves(t, "refused") /\ UNCHANGED sock
           /\ currentClientPort' = currentClientPort + Len(tried) - 1
  <2> DEFINE r == [td[t] EXCEPT !.pc = "refused"]
  <2>1. td' = [td EXCEPT ![t] = r] /\ IsThread(r) /\ r.pc \notin Busy
    BY <1>4 DEF IInv, Shape, Moves, IsThread, Busy, Hearing, Using
  <2>2. currentClientPort' \in Int
    BY <1>2, <1>3, <1>4
  <2> HIDE DEF r
  <2> QED
    BY <1>1, <1>4, <2>1, <2>2, Elsewhere
<1>5. ASSUME NEW i \in free,
             currentClientPort' = currentClientPort + i - 1,
             minisocket_create_socket(tried[i], "connecting"),
             Transmits(t, "connect", "SYN", tried[i], 0)
      PROVE  IInv'
  <2> DEFINE p == tried[i]
  <2>1. p \in Ports /\ sock[p].status = "none" /\ currentClientPort' \in Int
    BY <1>2, <1>3, <1>5
  <2>2. PICK w \in Garbage :
            sock' = [sock EXCEPT ![p] = [NoSocket EXCEPT !.status = "connecting", !.waiting = w]]
    BY <1>5 DEF minisocket_create_socket
  <2> DEFINE s == [NoSocket EXCEPT !.status = "connecting", !.waiting = w]
  <2>3. /\ IsSocket(s) /\ s.status = "connecting" /\ s.mutex = 1 /\ s.acked = 0
        /\ s.ready = 0 /\ s.packets = <<>>
    BY EmptySeq DEF NoSocket, IsSocket
  <2>4. PICK r : td' = [td EXCEPT ![t] = r] /\ IsThread(r) /\ r.pc = "transmit" /\ r.port = p
    BY <1>5, <2>1, Transmitting
  <2>5. sock' = [sock EXCEPT ![p] = s]
    BY <2>2
  <2> HIDE DEF s, p
  <2> QED
    BY <1>1, <2>1, <2>3, <2>4, <2>5, CreatedAt
<1> QED
  BY <1>4, <1>5 DEF SearchPort

-----------------------------------------------------------------------------
(* Taking a packet, at once or in an interrupt that slept: the mutex gains *)
(* one for an acknowledgement, and the queue and its count gain together.  *)
LEMMA HandledNumbers ==
  ASSUME NEW s, IsSocket(s), NEW pkt \in Arrivals
  PROVE  /\ IsSocket(Handled(s, pkt)) /\ Handled(s, pkt).status = s.status
         /\ Handled(s, pkt).mutex - Handled(s, pkt).acked = s.mutex - s.acked
         /\ Queued(Handled(s, pkt)) - Handled(s, pkt).ready = Queued(s) - s.ready
<1>1. pkt.kind \in Kinds
  BY MiniSocketAssumption DEF Kinds
<1> DEFINE s1 == [s EXCEPT !.waiting = "none", !.acks = @ + 1, !.acked = @ + 1, !.mutex = @ + 1]
           s2 == [s EXCEPT !.ack_number = @ + 1, !.packets = Append(@, pkt.kind),
                           !.ready = Posted(s)]
<1>2. Handled(s, pkt) \in {s1, s2, s}
  BY DEF Handled
<1>3. /\ Append(s.packets, pkt.kind) \in Seq(Kinds)
      /\ Len(Append(s.packets, pkt.kind)) = Len(s.packets) + 1
      /\ Len(s.packets) \in Nat
  BY <1>1, AppendProperties DEF IsSocket
<1>4. /\ IsSocket(s1) /\ s1.status = s.status /\ s1.mutex = s.mutex + 1 /\ s1.acked = s.acked + 1
      /\ s1.ready = s.ready /\ s1.packets = s.packets
  BY DEF IsSocket
<1>5. /\ IsSocket(s2) /\ s2.status = s.status /\ s2.mutex = s.mutex /\ s2.acked = s.acked
      /\ s2.ready = s.ready + 1 /\ Queued(s2) = Queued(s) + 1 /\ Queued(s) \in Nat
  BY <1>3 DEF IsSocket, Posted, Queued
<1> HIDE DEF s1, s2
<1>6. /\ s.mutex \in Int /\ s.acked \in Int /\ s.ready \in Nat /\ Queued(s1) = Queued(s)
  BY <1>4 DEF IsSocket, Queued
<1>7. ASSUME NEW h \in {s1, s2, s}
      PROVE  /\ IsSocket(h) /\ h.status = s.status
             /\ h.mutex - h.acked = s.mutex - s.acked
             /\ Queued(h) - h.ready = Queued(s) - s.ready
  BY <1>4, <1>5, <1>6
<1> QED
  BY <1>2, <1>7

(* A packet is taken at once, or its interrupt goes to sleep on a thread.  *)
LEMMA HandleDataPacketPreserves ==
  ASSUME IInv, handle_data_packet PROVE IInv' /\ Calm
<1>1. PICK p \in Ports, pkt \in Arrivals :
          IF sock[p].mutex > 0
            THEN sock' = [sock EXCEPT ![p] = Handled(@, pkt)] /\ UNCHANGED frame
            ELSE /\ \E t \in Threads : frame' = [frame EXCEPT ![t] = [port |-> p, pkt |-> pkt]]
                 /\ UNCHANGED sock
  BY DEF handle_data_packet
<1>2. UNCHANGED <<td, currentClientPort>> /\ IsSocket(sock[p])
  BY DEF handle_data_packet, IInv, Shape
<1>3. CASE sock' = [sock EXCEPT ![p] = Handled(@, pkt)] /\ UNCHANGED frame
  <2>1. sock' = [sock EXCEPT ![p] = Handled(sock[p], pkt)]
    BY <1>3
  <2> QED
    BY <1>2, <1>3, <2>1, HandledNumbers, SocketOnly DEF IInv, Shape
<1>4. ASSUME NEW t \in Threads, UNCHANGED sock,
             frame' = [frame EXCEPT ![t] = [port |-> p, pkt |-> pkt]]
      PROVE  IInv' /\ Calm
  <2>1. /\ frame' = [u \in Threads |-> frame'[u]]
        /\ \A u \in Threads : frame'[u] # NoFrame => frame'[u].pkt \in Arrivals
    BY <1>4 DEF IInv, Shape
  <2>2. sock' = [sock EXCEPT ![p] = sock[p]]
    BY <1>4 DEF IInv, Shape
  <2> QED
    BY <1>2, <2>1, <2>2, SocketOnly
<1> QED
  BY <1>1, <1>3, <1>4

(* An interrupt that slept in the mutex takes its packet.                  *)
LEMMA ResumeHandlerPreserves ==
  ASSUME IInv, NEW t \in Threads, ResumeHandler(t) PROVE IInv' /\ Calm
<1> DEFINE p == frame[t].port
<1>1. /\ frame[t] # NoFrame /\ UNCHANGED <<td, currentClientPort>>
      /\ sock' = [sock EXCEPT ![p] = Handled(@, frame[t].pkt)]
      /\ frame' = [frame EXCEPT ![t] = NoFrame]
  BY DEF ResumeHandler
<1>2. frame[t].pkt \in Arrivals
  BY <1>1 DEF IInv, Shape
<1>3. /\ frame' = [u \in Threads |-> frame'[u]]
      /\ \A u \in Threads : frame'[u] # NoFrame => frame'[u].pkt \in Arrivals
  BY <1>1 DEF IInv, Shape
<1>4. CASE p \in Ports
  <2>1. IsSocket(sock[p]) /\ sock' = [sock EXCEPT ![p] = Handled(sock[p], frame[t].pkt)]
    BY <1>1, <1>4 DEF IInv, Shape
  <2> QED
    BY <1>1, <1>2, <1>3, <1>4, <2>1, HandledNumbers, SocketOnly
<1>5. CASE p \notin Ports
  <2>1. UNCHANGED sock
    BY <1>1, <1>5 DEF IInv, Shape
  <2> QED
    BY <1>1, <1>3, <1>5, <2>1, SocketOnly
<1> QED
  BY <1>4, <1>5

(* An alarm may add to the acknowledgements a thread waits for.            *)
LEMMA WakeUpPreserves ==
  ASSUME IInv, wake_up_semaphore PROVE IInv' /\ Calm
<1>1. PICK p : UNCHANGED sock \/ sock' = [sock EXCEPT ![p].acks = @ + 1]
  BY DEF wake_up_semaphore
<1>2. UNCHANGED <<td, currentClientPort, frame>>
  BY DEF wake_up_semaphore
<1>3. /\ frame' = [u \in Threads |-> frame'[u]]
      /\ \A u \in Threads : frame'[u] # NoFrame => frame'[u].pkt \in Arrivals
  BY <1>2 DEF IInv, Shape
<1>4. CASE p \in Ports
  <2>1. PICK s : sock' = [sock EXCEPT ![p] = s] /\ Alike(s, sock[p])
    <3> DEFINE s1 == [sock[p] EXCEPT !.acks = @ + 1]
    <3>1. IsSocket(sock[p])
      BY <1>4 DEF IInv, Shape
    <3>2. Alike(s1, sock[p]) /\ Alike(sock[p], sock[p])
      BY <3>1, FieldsAlike
    <3>3. sock' \in {[sock EXCEPT ![p] = s1], [sock EXCEPT ![p] = sock[p]]}
      BY <1>1, <1>4 DEF IInv, Shape
    <3> HIDE DEF s1
    <3> QED
      BY <3>2, <3>3
  <2>2. Queued(s) = Queued(sock[p])
    BY <2>1 DEF Alike, Queued
  <2> QED
    BY <1>2, <1>3, <1>4, <2>1, <2>2, SocketOnly DEF Alike
<1>5. CASE p \notin Ports
  <2>1. UNCHANGED sock
    BY <1>1, <1>5 DEF IInv, Shape
  <2> QED
    BY <1>2, <1>3, <1>5, <2>1, SocketOnly
<1> QED
  BY <1>4, <1>5

-----------------------------------------------------------------------------
(* The number a client read before the mutex may be stale, but then the    *)
(* port the variable stands for by now is used.                            *)
StaleFirst ==
    \/ sock[ClientPort(currentClientPort)].status # "none"
    \/ \A t \in Threads : td[t].pc = "search" => td[t].port = ClientPort(currentClientPort)

PInv == StaleFirst /\ PortsAllTried

(* Counting on from any number reaches every client port.                  *)
LEMMA CountingReaches ==
  ASSUME NEW c \in Int, NEW p \in ClientPorts
  PROVE  \E i \in 0 .. Cardinality(ClientPorts) - 1 : p = ClientPort(c + i)
<1> DEFINE n == Cardinality(ClientPorts)
           d == p - TCP_MINIMUM_CLIENT
           i == (d - c) % n
           q == (d - c) \div n
<1>1. n \in Nat \ {0} /\ d \in 0 .. n - 1 /\ p = TCP_MINIMUM_CLIENT + d
  BY PortCount DEF ClientPorts
<1> HIDE DEF n, d
<1>2. i \in 0 .. n - 1 /\ q \in Int /\ d - c = n * q + i
  BY <1>1
<1>3. n * q \in Int /\ n * (- q) = - (n * q)
  BY <1>1, <1>2
<1> HIDE DEF i, q
<1>4. c + i = n * (- q) + d
  BY <1>1, <1>2, <1>3
<1>5. \A m \in Int : (n * m + d) % n = d
  BY <1>1
<1>6. (c + i) % n = d
  BY <1>2, <1>4, <1>5
<1> QED
  BY <1>1, <1>2, <1>6 DEF ClientPort, n

(* A step without a search keeps what is known of the ports.               *)
LEMMA CalmKeepsPorts ==
  ASSUME IInv, PInv, Calm, UNCHANGED currentClientPort PROVE PInv'
<1>1. ClientPorts \subseteq Ports /\ ClientPort(currentClientPort) \in Ports
  BY ClientPortType DEF Ports, IInv, Shape
<1>2. StaleFirst'
  <2>1. CASE sock[ClientPort(currentClientPort)].status # "none"
    BY <1>1, <2>1 DEF Calm, StaleFirst, ClientPort
  <2>2. CASE \A t \in Threads : td[t].pc = "search" => td[t].port = ClientPort(currentClientPort)
    BY <2>2 DEF Calm, StaleFirst, ClientPort
  <2> QED
    BY <2>1, <2>2 DEF PInv, StaleFirst
<1>3. PortsAllTried'
  BY <1>1 DEF PInv, PortsAllTried, Calm
<1> QED
  BY <1>2, <1>3 DEF PInv

(* Whoever comes to search has read the variable as it is.                 *)
LEMMA ClientCreateKeepsPorts ==
  ASSUME IInv, PInv, NEW t \in Threads, minisocket_client_create(t) PROVE PInv'
<1>1. /\ UNCHANGED <<sock, currentClientPort>>
      /\ td' = [td EXCEPT ![t].pc = "search", ![t].port = ClientPort(currentClientPort)]
  BY DEF minisocket_client_create
<1>2. /\ td'[t].pc = "search" /\ td'[t].port = ClientPort(currentClientPort)
      /\ \A u \in Threads \ {t} : td'[u] = td[u]
  BY <1>1 DEF IInv, Shape, IsThread
<1>3. StaleFirst'
  BY <1>1, <1>2 DEF PInv, StaleFirst, ClientPort
<1>4. PortsAllTried'
  BY <1>1, <1>2 DEF PInv, PortsAllTried
<1> QED
  BY <1>3, <1>4 DEF PInv

(* If it finds none, every port was tried or is the one the variable       *)
(* stands for; if it finds one, the variable stands for it then, or the    *)
(* first one it tried was free.                                            *)
LEMMA SearchPortKeepsPorts ==
  ASSUME IInv, PInv, NEW t \in Threads, SearchPort(t) PROVE PInv'
<1> DEFINE tried == Tried(td[t].port)
           free == {i \in DOMAIN tried : sock[tried[i]].status = "none"}
           c == currentClientPort
           n == Cardinality(ClientPorts)
<1>1. td[t].pc = "search"
  BY DEF SearchPort, Runs
<1>2. td[t].port \in ClientPorts /\ c \in Int /\ n \in Nat \ {0}
  BY <1>1, PortCount DEF IInv, Shape, IsThread
<1>3. /\ Len(tried) = n /\ DOMAIN tried = 1 .. n /\ tried[1] = td[t].port
      /\ \A i \in 2 .. n : tried[i] = ClientPort(c + i - 1)
      /\ \A i \in 1 .. n : tried[i] \in ClientPorts
      /\ ClientPorts \subseteq Ports
  BY <1>2, TriedType DEF Ports
<1>4. sock[ClientPort(c)].status = "none" => td[t].port = ClientPort(c)
  BY <1>1 DEF PInv, StaleFirst
<1> HIDE DEF tried, c, n
<1>5. CASE /\ free = {} /\ UNCHANGED sock /\ Moves(t, "refused")
           /\ currentClientPort' = c + Len(tried) - 1
  <2>1. ASSUME NEW p \in ClientPorts PROVE sock[p].status # "none"
    <3>1. PICK i \in 0 .. n - 1 : p = ClientPort(c + i)
      BY <1>2, CountingReaches DEF n
    <3>2. \A j \in 1 .. n : sock[tried[j]].status # "none"
      BY <1>3, <1>5
    <3>3. CASE i = 0
      <4>1. p = ClientPort(c)
        BY <1>2, <3>1, <3>3
      <4> QED
        BY <1>2, <1>3, <1>4, <3>2, <4>1
    <3>4. CASE i # 0
      <4>1. i + 1 \in 2 .. n /\ c + (i + 1) - 1 = c + i
        BY <1>2, <3>4
      <4> QED
        BY <1>3, <3>1, <3>2, <4>1
    <3> QED
      BY <3>3, <3>4
  <2>2. currentClientPort' \in Int
    BY <1>2, <1>3, <1>5
  <2>3. StaleFirst'
    BY <1>5, <2>1, <2>2, ClientPortType DEF StaleFirst, ClientPort
  <2> QED
    BY <1>5, <2>1, <2>3 DEF PInv, PortsAllTried
<1>6. ASSUME NEW i \in free, currentClientPort' = c + i - 1,
             minisocket_create_socket(tried[i], "connecting"),
             Transmits(t, "connect", "SYN", tried[i], 0)
      PROVE  PInv'
  <2>1. i \in 1 .. n /\ tried[i] \in Ports
    BY <1>3
  <2>2. /\ \A p \in Ports : sock[p].status # "none" => sock'[p].status # "none"
        /\ sock'[tried[i]].status # "none"
    <3>1. PICK w \in Garbage : sock' = [sock EXCEPT ![tried[i]] =
                                  [NoSocket EXCEPT !.status = "connecting", !.waiting = w]]
      BY <1>6 DEF minisocket_create_socket
    <3> DEFINE s == [NoSocket EXCEPT !.status = "connecting", !.waiting = w]
    <3>2. s.status # "none"
      BY DEF NoSocket
    <3> HIDE DEF s
    <3>3. sock' = [sock EXCEPT ![tried[i]] = s]
      BY <3>1 DEF s
    <3> QED
      BY <2>1, <3>2, <3>3 DEF IInv, Shape
  <2>3. \A u \in Threads :
            /\ td'[u].pc = "refused" => td[u].pc = "refused"
            /\ td'[u].pc = "search" => td[u].pc = "search" /\ td'[u].port = td[u].port
    BY <1>6 DEF Transmits, IInv, Shape
  <2>4. PortsAllTried'
    BY <1>3, <2>2, <2>3 DEF PInv, PortsAllTried
  <2>5. StaleFirst'
    <3>1. CASE i = 1
      <4>1. currentClientPort' = c /\ ClientPort(c) \in Ports
        BY <1>2, <1>3, <1>6, <3>1, ClientPortType
      <4>2. sock'[ClientPort(c)].status # "none"
        BY <1>3, <1>4, <2>2, <3>1, <4>1
      <4> QED
        BY <4>1, <4>2 DEF StaleFirst, ClientPort
    <3>2. CASE i # 1
      <4>1. tried[i] = ClientPort(c + i - 1)
        BY <1>2, <1>3, <2>1, <3>2
      <4> QED
        BY <1>6, <2>2, <4>1 DEF StaleFirst, ClientPort
    <3> QED
      BY <3>1, <3>2
  <2> QED
    BY <2>4, <2>5 DEF PInv
<1> QED
  BY <1>5, <1>6 DEF SearchPort, tried, c

(* In the initial state there are no sockets and every thread is idle.     *)
LEMMA InitIInv == SocketInit => IInv
<1> SUFFICES ASSUME SocketInit PROVE IInv
  OBVIOUS
<1>1. Shape
  <2>1. IsSocket(NoSocket)
    BY EmptySeq DEF NoSocket, IsSocket
  <2> QED
    BY <2>1, Idling DEF SocketInit, Shape
<1>2. \A t \in Threads : td[t].pc \notin Busy
  BY DEF SocketInit, IdleThread, Busy, Using, Hearing
<1>3. StatusKnown /\ OneServer
  BY <1>2 DEF StatusKnown, OneServer, Busy
<1>4. ASSUME NEW p \in Ports PROVE Balanced(p) /\ Covered(p) /\ Exact(p)
  <2>1. \A pcs \in {Holding, Announced, Dequeuing} : pcs \subseteq Busy
    BY DEF Holding, Announced, Dequeuing, Busy, Using, Hearing
  <2>2. \A pcs \in {Holding, Announced, Dequeuing} : Count(pcs, p) = 0
    BY <1>2, <2>1, CountZero
  <2>3. /\ sock[p].mutex = 1 /\ sock[p].acked = 0 /\ sock[p].ready = 0
        /\ Queued(sock[p]) = 0 /\ sock[p].status = "none"
    BY DEF SocketInit, NoSocket, Queued
  <2> QED
    BY <2>2, <2>3 DEF Balanced, Covered, Exact
<1> QED
  BY <1>1, <1>3, <1>4 DEF IInv

(* Every step keeps the invariant.                                         *)
LEMMA NextPreserves == IInv /\ [SocketNext]_sockVars => IInv'
<1> SUFFICES ASSUME IInv, [SocketNext]_sockVars PROVE IInv'
  OBVIOUS
<1>1. ASSUME NEW t \in Threads,
             \/ minisocket_server_create(t) \/ minisocket_client_create(t)
             \/ minisocket_send(t) \/ minisocket_receive(t)
      PROVE  IInv'
  BY <1>1, ServerCreatePreserves, ClientCreatePreserves, MinisocketSendPreserves,
     MinisocketReceivePreserves
<1>2. ASSUME NEW t \in Threads, ThreadSteps(t) PROVE IInv'
  BY <1>2, ListenPreserves, TakeRequestPreserves, SearchPortPreserves, RefusedPreserves,
     TransmitPacketPreserves, SetWaitingPreserves, AwaitPreserves, LockPreserves,
     CheckPreserves, FinishPreserves, AwaitPacketPreserves, TakeDataPreserves,
     ResumeHandlerPreserves DEF ThreadSteps
<1>3. CASE UNCHANGED sockVars
  <2>1. UNCHANGED <<sock, td, frame, currentClientPort>>
    BY <1>3 DEF sockVars
  <2>2. \A pcs, p : Count(pcs, p)' = Count(pcs, p)
    BY <2>1, SameCounts
  <2>3. Shape' /\ StatusKnown' /\ OneServer'
    BY <2>1 DEF IInv, Shape, StatusKnown, OneServer
  <2> QED
    BY <2>1, <2>2, <2>3 DEF IInv, Balanced, Covered, Exact
<1> QED
  BY <1>1, <1>2, <1>3, HandleDataPacketPreserves, WakeUpPreserves DEF SocketNext

(* Every step keeps what is known of the ports.                            *)
LEMMA NextKeepsPorts == IInv /\ PInv /\ [SocketNext]_sockVars => PInv'
<1> SUFFICES ASSUME IInv, PInv, [SocketNext]_sockVars PROVE PInv'
  OBVIOUS
<1>1. ASSUME NEW t \in Threads,
             \/ minisocket_server_create(t) \/ minisocket_send(t) \/ minisocket_receive(t)
      PROVE  PInv'
  <2>1. UNCHANGED currentClientPort
    BY <1>1 DEF minisocket_server_create, minisocket_send, minisocket_receive
  <2> QED
    BY <1>1, <2>1, CalmKeepsPorts, ServerCreatePreserves, MinisocketSendPreserves,
       MinisocketReceivePreserves
<1>2. ASSUME NEW t \in Threads, ThreadSteps(t), ~SearchPort(t) PROVE PInv'
  <2>1. UNCHANGED currentClientPort
    BY <1>2 DEF ThreadSteps, Listen, TakeRequest, Refused, transmit_packet, SetWaiting, Await,
                Lock, Check, Finish, AwaitPacket, TakeData, ResumeHandler
  <2> QED
    BY <1>2, <2>1, CalmKeepsPorts, ListenPreserves, TakeRequestPreserves, RefusedPreserves,
       TransmitPacketPreserves, SetWaitingPreserves, AwaitPreserves, LockPreserves,
       CheckPreserves, FinishPreserves, AwaitPacketPreserves, TakeDataPreserves,
       ResumeHandlerPreserves DEF ThreadSteps
<1>3. CASE handle_data_packet \/ wake_up_semaphore
  <2>1. UNCHANGED currentClientPort
    BY <1>3 DEF handle_data_packet, wake_up_semaphore
  <2> QED
    BY <1>3, <2>1, CalmKeepsPorts, HandleDataPacketPreserves, WakeUpPreserves
<1>4. CASE UNCHANGED sockVars
  BY <1>4, CalmKeepsPorts DEF sockVars, Calm
<1> QED
  BY <1>1, <1>2, <1>3, <1>4, ClientCreateKeepsPorts, SearchPortKeepsPorts DEF SocketNext

(* Nobody searches at first.                                               *)
LEMMA InitPInv == SocketInit => PInv
BY DEF SocketInit, PInv, StaleFirst, PortsAllTried, IdleThread

(* Sockets and their threads stay as IInv says, in every reachable state.   *)
THEOREM InductiveInvariant == SocketSpec => []IInv
BY InitIInv, NextPreserves, PTL DEF SocketSpec

(* A mutex and the threads inside it add up to one more than the           *)
(* acknowledgements that were taken: without them it excludes, and each of *)
(* them lets one more thread in, however many threads and ports there are. *)
THEOREM MutexCounts == SocketSpec => []MutexCountsAcks
<1>1. \A p : Holders(p) = At(Holding, p)
  BY DEF Holders, At, Holding
<1>2. IInv => MutexCountsAcks
  BY <1>1 DEF IInv, Balanced, Count, MutexCountsAcks
<1> QED
  BY <1>2, InductiveInvariant, PTL

(* A packet that lies in a queue is counted, or a thread is about to take  *)
(* one: nobody sleeps while it lies there.                                 *)
THEOREM PacketsAnnounced == SocketSpec => []NoPacketStranded
<1>1. IInv => NoPacketStranded
  BY DEF IInv, Covered, Queued, Count, At, Announced, NoPacketStranded
<1> QED
  BY <1>1, InductiveInvariant, PTL

(* A client is refused only when every client port is used, although the   *)
(* first port it tries is one it computed before it took the mutex, and    *)
(* the others are counted from where the variable is by then.              *)
THEOREM EveryPortTried == SocketSpec => []PortsAllTried
<1>1. SocketInit => IInv /\ PInv
  BY InitIInv, InitPInv
<1>2. IInv /\ PInv /\ [SocketNext]_sockVars => (IInv /\ PInv)'
  BY NextPreserves, NextKeepsPorts
<1>3. IInv /\ PInv => PortsAllTried
  BY DEF PInv
<1> QED
  BY <1>1, <1>2, <1>3, PTL DEF SocketSpec
=============================================================================
