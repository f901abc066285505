--------------------------- MODULE TerminalProofs ---------------------------
(***************************************************************************)
(* Theorems about Terminal, for any devices and minithreads and however    *)
(* many interrupts the devices send.                                       *)
(***************************************************************************)
EXTENDS Terminal, FiniteSetTheorems, SequenceTheorems, TLAPS

(* One device at a time is past the lock.                                  *)
MutexHeldByOne == \A d, e \in Holders : d = e

(* A queued signal is unanswered, and its sender waits; an answer that is  *)
(* there has a device that waits for it.                                   *)
SignalAwaited ==
  /\ \A d \in signals : dev[d] = "wait" /\ ~signal_handled /\ received = 0
  /\ received = 1 => \E d \in Devices : dev[d] = "wait"

(* The last interrupt of d is not handled yet.                             *)
Unhandled(d) ==
  \/ dev[d] \in {"lock", "send"}
  \/ dev[d] = "wait" /\ ~signal_handled

(* Where the device is tells how much of what it sent was handled.         *)
DoneMatchesPlace ==
  \A d \in Devices :
    /\ dev[d] # "idle" => sent[d] > 0
    /\ Done(d) = Upto(IF Unhandled(d) THEN sent[d] - 1 ELSE sent[d])

(* The waiters of new_data are as many as its count says.                  *)
WaitersCounted == Len(waitQueue) = IF new_data < 0 THEN -new_data ELSE 0

IInv ==
  TypeOK /\ MutexHeldByOne /\ SignalAwaited /\ DoneMatchesPlace /\ WaitersCounted

(* The interrupts 1 to n and then the next are those from 1 to n + 1.      *)
LEMMA UptoNext ==
  ASSUME NEW n \in Nat
  PROVE  /\ Upto(n) \in Seq(Nat)
         /\ Upto(n) \o <<n + 1>> = Upto(n + 1)
         /\ Upto(n) \o <<>> = Upto(n)
<1>1. Upto(n) \in Seq(Nat) /\ Len(Upto(n)) = n
  BY DEF Upto
<1>2. Upto(n) \o <<n + 1>> = Upto(n + 1)
  <2>1. Upto(n) \o <<n + 1>> \in Seq(Nat) /\ Upto(n + 1) \in Seq(Nat)
    BY <1>1 DEF Upto
  <2>2. Len(Upto(n) \o <<n + 1>>) = n + 1 /\ Len(Upto(n + 1)) = n + 1
    BY <1>1 DEF Upto
  <2>3. \A i \in 1 .. n + 1 : (Upto(n) \o <<n + 1>>)[i] = Upto(n + 1)[i]
    BY <1>1 DEF Upto
  <2> QED
    BY <2>1, <2>2, <2>3, SeqEqual
<1>3. Upto(n) \o <<>> = Upto(n)
  BY <1>1
<1> QED
  BY <1>1, <1>2, <1>3

(* In the initial state nothing was sent, and nothing was handled.         *)
LEMMA InitIInv == Init => IInv
<1> SUFFICES ASSUME Init PROVE IInv
  OBVIOUS
<1> USE DEF Init
<1>1. TypeOK
  <2>1. signal_handled \in BOOLEAN /\ handler \in [device : Devices, arg : Nat] \cup {NULL}
    BY Zenon
  <2>2. handled \in [Devices -> Seq(Nat)] /\ lines \in Seq(Nat) /\ read \in Seq(Nat)
    OBVIOUS
  <2>3. waitQueue \in Seq(Threads)
    OBVIOUS
  <2>4. dev \in [Devices -> {"idle", "lock", "send", "wait"}]
    OBVIOUS
  <2>5. pc \in [Threads -> {"user", "blocked", "take"}]
    OBVIOUS
  <2> QED
    BY <2>1, <2>2, <2>3, <2>4, <2>5 DEF TypeOK
<1>2. MutexHeldByOne /\ SignalAwaited /\ WaitersCounted
  BY DEF MutexHeldByOne, SignalAwaited, Holders, WaitersCounted
<1>3. DoneMatchesPlace
  BY DEF DoneMatchesPlace, Done, Unhandled, Upto
<1> QED
  BY <1>1, <1>2, <1>3 DEF IInv
(* Every step keeps the types, and the waiters those the count says.       *)
LEMMA StepKeepsTypes ==
  ASSUME TypeOK, WaitersCounted, SignalAwaited, [Next]_vars
  PROVE  TypeOK' /\ WaitersCounted'
<1> USE DEF TypeOK, WaitersCounted
<1>1. ASSUME NEW d \in Devices, DeviceHas(d) PROVE TypeOK' /\ WaitersCounted'
  BY <1>1 DEF DeviceHas, DevGoto, signalVars, threadVars
<1>2. ASSUME NEW d \in Devices, Lock(d) PROVE TypeOK' /\ WaitersCounted'
  BY <1>2 DEF Lock, DevGoto, signalVars, threadVars
<1>3. ASSUME NEW d \in Devices, QueueSignal(d) PROVE TypeOK' /\ WaitersCounted'
  BY <1>3 DEF QueueSignal, DevGoto, threadVars
<1>4. ASSUME NEW d \in Devices, GetsAnswer(d) PROVE TypeOK' /\ WaitersCounted'
  BY <1>4 DEF GetsAnswer, DevGoto, threadVars
<1>5. ASSUME NEW d \in Devices, Refused(d) PROVE TypeOK' /\ WaitersCounted'
  <2>1. received' = 1 /\ signals' \subseteq Devices
    BY <1>5 DEF Refused, SignalAwaited
  <2>2. UNCHANGED <<dev, sent, signal_handled, handler, handled, lines, new_data,
                    waitQueue, cpu, pc, owes, read, fault>>
    BY <1>5 DEF Refused, threadVars
  <2> QED
    BY <2>1, <2>2
<1>6. ASSUME NEW d \in Devices, Taken(d) PROVE TypeOK' /\ WaitersCounted'
  <2>1. received' = 1 /\ signals' \subseteq Devices
    BY <1>6 DEF Taken, SignalAwaited
  <2>2. signal_handled' \in BOOLEAN
    BY <1>6 DEF Taken
  <2>3. handler' \in [device : Devices, arg : Nat]
    BY <1>6 DEF Taken
  <2>4. UNCHANGED <<dev, sent, handled, lines, new_data, waitQueue, cpu, pc, owes,
                    read, fault>>
    BY <1>6 DEF Taken, threadVars
  <2> QED
    BY <2>1, <2>2, <2>3, <2>4
<1>7. CASE HandlerStep
  <2>1. handler \in [device : Devices, arg : Nat]
    BY <1>7 DEF HandlerStep
  <2>2. handled' \in [Devices -> Seq(Nat)] /\ handler' = NULL
    BY <1>7, <2>1 DEF HandlerStep, RunHandler
  <2>3. lines' \in Seq(Nat) /\ owes' \subseteq [on : Threads, arg : Nat]
    <3>1. CASE handler.device = Keyboard
      <4>1. /\ lines' = Append(lines, handler.arg)
            /\ owes' = owes \cup {[on |-> cpu, arg |-> handler.arg]}
        BY <1>7, <3>1 DEF HandlerStep, RunHandler
      <4>2. /\ Append(lines, handler.arg) \in Seq(Nat)
            /\ [on |-> cpu, arg |-> handler.arg] \in [on : Threads, arg : Nat]
        BY <2>1
      <4> QED
        BY <4>1, <4>2
    <3>2. CASE handler.device # Keyboard
      BY <1>7, <3>2 DEF HandlerStep, RunHandler
    <3> QED
      BY <3>1, <3>2
  <2>4. UNCHANGED <<dev, sent, signals, signal_handled, received, new_data,
                    waitQueue, cpu, pc, read, fault>>
    BY <1>7 DEF HandlerStep, RunHandler, signalVars
  <2> QED
    BY <2>2, <2>3, <2>4
<1>8. ASSUME NEW t \in Threads, Tick(t) PROVE TypeOK' /\ WaitersCounted'
  BY <1>8 DEF Tick, signalVars
<1>9. ASSUME NEW t \in Threads, P(t) PROVE TypeOK' /\ WaitersCounted'
  <2>1. cpu' \in Threads
    BY <1>9 DEF P
  <2>2. pc' \in [Threads -> {"user", "blocked", "take"}]
    BY <1>9 DEF P, GoTo
  <2>3. new_data' \in Int /\ waitQueue' \in Seq(Threads) /\ WaitersCounted'
    <3>1. CASE new_data > 0
      BY <1>9, <3>1 DEF P
    <3>2. CASE new_data <= 0
      <4>1. new_data' = new_data - 1 /\ waitQueue' = Append(waitQueue, t)
        BY <1>9, <3>2 DEF P
      <4> QED
        BY <3>2, <4>1
    <3> QED
      BY <3>1, <3>2
  <2>4. UNCHANGED <<dev, sent, signals, signal_handled, received, handler, handled,
                    lines, owes, read, fault>>
    BY <1>9 DEF P, signalVars
  <2> QED
    BY <2>1, <2>2, <2>3, <2>4
<1>10. ASSUME NEW t \in Threads, V(t) PROVE TypeOK' /\ WaitersCounted'
  BY <1>10 DEF V, EndsLast, signalVars
<1>11. ASSUME NEW t \in Threads, ReturnFromP(t) PROVE TypeOK' /\ WaitersCounted'
  BY <1>11 DEF ReturnFromP, GoTo, signalVars
<1>12. ASSUME NEW t \in Threads, Take(t) PROVE TypeOK' /\ WaitersCounted'
  <2>1. lines' \in Seq(Nat) /\ read' \in Seq(Nat) /\ fault' \in {"none", "assert"}
    <3>1. CASE lines # <<>>
      <4>1. Head(lines) \in Nat /\ Tail(lines) \in Seq(Nat)
        BY <3>1
      <4>2. /\ read' = Append(read, Head(lines))
            /\ lines' = Tail(lines) /\ fault' = fault
        BY <1>12, <3>1 DEF Take
      <4> QED
        BY <4>1, <4>2
    <3>2. CASE lines = <<>>
      BY <1>12, <3>2 DEF Take
    <3> QED
      BY <3>1, <3>2
  <2>2. pc' \in [Threads -> {"user", "blocked", "take"}]
    BY <1>12 DEF Take, GoTo
  <2>3. UNCHANGED <<dev, sent, signals, signal_handled, received, handler, handled,
                    new_data, waitQueue, cpu, owes>>
    BY <1>12 DEF Take, signalVars
  <2> QED
    BY <2>1, <2>2, <2>3
<1>13. CASE UNCHANGED vars
  BY <1>13 DEF vars, signalVars, threadVars
<1> QED
  BY <1>1, <1>2, <1>3, <1>4, <1>5, <1>6, <1>7, <1>8, <1>9, <1>10, <1>11, <1>12, <1>13
     DEF Next, SendStep, Signal, Continue

(* Every step leaves one holder of the mutex and one signal under way.     *)
LEMMA StepKeepsSignals ==
  ASSUME TypeOK, MutexHeldByOne, SignalAwaited, [Next]_vars
  PROVE  MutexHeldByOne' /\ SignalAwaited'
<1> USE DEF TypeOK, MutexHeldByOne, SignalAwaited, Holders
<1>1. ASSUME NEW d \in Devices, DeviceHas(d) PROVE MutexHeldByOne' /\ SignalAwaited'
  BY <1>1 DEF DeviceHas, DevGoto, signalVars, threadVars
<1>2. ASSUME NEW d \in Devices, Lock(d) PROVE MutexHeldByOne' /\ SignalAwaited'
  BY <1>2 DEF Lock, DevGoto, signalVars, threadVars
<1>3. ASSUME NEW d \in Devices, QueueSignal(d) PROVE MutexHeldByOne' /\ SignalAwaited'
  BY <1>3 DEF QueueSignal, DevGoto, threadVars
<1>4. ASSUME NEW d \in Devices, GetsAnswer(d) PROVE MutexHeldByOne' /\ SignalAwaited'
  BY <1>4 DEF GetsAnswer, DevGoto, threadVars
<1>5. ASSUME NEW d \in Devices, Refused(d) PROVE MutexHeldByOne' /\ SignalAwaited'
  BY <1>5 DEF Refused, threadVars
<1>6. ASSUME NEW d \in Devices, Taken(d) PROVE MutexHeldByOne' /\ SignalAwaited'
  BY <1>6 DEF Taken, threadVars
<1>7. CASE HandlerStep
  BY <1>7 DEF HandlerStep, RunHandler, signalVars
<1>8. ASSUME NEW t \in Threads, Tick(t) PROVE MutexHeldByOne' /\ SignalAwaited'
  BY <1>8 DEF Tick, signalVars
<1>9. ASSUME NEW t \in Threads, P(t) PROVE MutexHeldByOne' /\ SignalAwaited'
  BY <1>9 DEF P, GoTo, signalVars
<1>10. ASSUME NEW t \in Threads, V(t) PROVE MutexHeldByOne' /\ SignalAwaited'
  BY <1>10 DEF V, signalVars
<1>11. ASSUME NEW t \in Threads, ReturnFromP(t) PROVE MutexHeldByOne' /\ SignalAwaited'
  BY <1>11 DEF ReturnFromP, GoTo, signalVars
<1>12. ASSUME NEW t \in Threads, Take(t) PROVE MutexHeldByOne' /\ SignalAwaited'
  BY <1>12 DEF Take, GoTo, signalVars
<1>13. CASE UNCHANGED vars
  BY <1>13 DEF vars, signalVars, threadVars
<1> QED
  BY <1>1, <1>2, <1>3, <1>4, <1>5, <1>6, <1>7, <1>8, <1>9, <1>10, <1>11, <1>12, <1>13
     DEF Next, SendStep, Signal, Continue

(* A step that leaves the handler and the payloads alone leaves what the   *)
(* handlers were called with.                                              *)
LEMMA DoneStays ==
  ASSUME UNCHANGED <<handled, handler>>, NEW d \in Devices
  PROVE  Done(d)' = Done(d)
BY DEF Done

(* While no handler runs, what was done is what was recorded.              *)
LEMMA DoneIsHandled ==
  ASSUME TypeOK, NEW d \in Devices, handler = NULL
  PROVE  Done(d) = handled[d]
<1>1. handled[d] \in Seq(Nat)
  BY DEF TypeOK
<1> QED
  BY <1>1 DEF Done

(* Starting the handler of d completes what d sent; ending it changes      *)
(* nothing; and a device that holds no mutex does not look at              *)
(* signal_handled.                                                         *)
LEMMA StepKeepsDone ==
  ASSUME TypeOK, MutexHeldByOne, SignalAwaited, DoneMatchesPlace, [Next]_vars
  PROVE  DoneMatchesPlace'
<1> USE DEF TypeOK, DoneMatchesPlace
<1>1. ASSUME NEW d \in Devices, DeviceHas(d) PROVE DoneMatchesPlace'
  BY <1>1, DoneStays DEF DeviceHas, DevGoto, signalVars, threadVars, Unhandled
<1>2. ASSUME NEW d \in Devices, Lock(d) PROVE DoneMatchesPlace'
  BY <1>2, DoneStays DEF Lock, DevGoto, signalVars, threadVars, Unhandled
<1>3. ASSUME NEW d \in Devices, QueueSignal(d) PROVE DoneMatchesPlace'
  <2>1. /\ UNCHANGED <<sent, handled, handler>>
        /\ dev' = [dev EXCEPT ![d] = "wait"] /\ dev[d] = "send" /\ ~signal_handled'
    BY <1>3 DEF QueueSignal, DevGoto
  <2>2. \A e \in Devices : Unhandled(e)' <=> Unhandled(e)
    BY <2>1 DEF Unhandled, MutexHeldByOne, Holders
  <2>3. \A e \in Devices : dev'[e] # "idle" => dev[e] # "idle"
    BY <2>1
  <2> QED
    BY <2>1, <2>2, <2>3, DoneStays
<1>4. ASSUME NEW d \in Devices, GetsAnswer(d) PROVE DoneMatchesPlace'
  BY <1>4, DoneStays DEF GetsAnswer, DevGoto, threadVars, Unhandled
<1>5. ASSUME NEW d \in Devices, Refused(d) PROVE DoneMatchesPlace'
  BY <1>5, DoneStays DEF Refused, threadVars, Unhandled
<1>6. ASSUME NEW d \in Devices, Taken(d) PROVE DoneMatchesPlace'
  <2>1. /\ dev[d] = "wait" /\ ~signal_handled /\ signal_handled' /\ handler = NULL
        /\ handler' = [device |-> d, arg |-> sent[d]]
        /\ UNCHANGED <<dev, sent, handled>>
    BY <1>6 DEF Taken, SignalAwaited
  <2>2. handler' # NULL
    BY <2>1, TerminalAssumption
  <2>3. ASSUME NEW e \in Devices, e # d
        PROVE  Done(e)' = Done(e) /\ (Unhandled(e)' <=> Unhandled(e))
    BY <2>1, <2>3 DEF Done, Unhandled, MutexHeldByOne, Holders
  <2>4. Done(d)' = Upto(sent[d])
    <3>1. Done(d)' = handled[d] \o <<sent[d]>>
      BY <2>1, <2>2 DEF Done
    <3>2. handled[d] = Upto(sent[d] - 1)
      BY <2>1, DoneIsHandled DEF Unhandled
    <3>3. sent[d] \in Nat /\ sent[d] > 0
      BY <2>1
    <3>4. sent[d] - 1 \in Nat /\ (sent[d] - 1) + 1 = sent[d]
      BY <3>3
    <3> QED
      BY <3>1, <3>2, <3>4, UptoNext
  <2>5. ~Unhandled(d)'
    BY <2>1 DEF Unhandled
  <2>6. ASSUME NEW e \in Devices
        PROVE  /\ dev'[e] # "idle" => sent'[e] > 0
               /\ Done(e)' = Upto(IF Unhandled(e)' THEN sent'[e] - 1 ELSE sent'[e])
    BY <2>1, <2>3, <2>4, <2>5
  <2> QED
    BY <2>6
<1>7. CASE HandlerStep
  <2>1. /\ handler # NULL /\ handler' = NULL
        /\ handled' = [handled EXCEPT ![handler.device] = Append(@, handler.arg)]
        /\ UNCHANGED <<dev, sent, signal_handled>>
    BY <1>7 DEF HandlerStep, RunHandler, signalVars
  <2>2. handler \in [device : Devices, arg : Nat]
    BY <2>1
  <2>3. ASSUME NEW e \in Devices PROVE Done(e)' = Done(e)
    <3>1. handled[e] \in Seq(Nat) /\ handled'[e] \in Seq(Nat)
      BY <2>1, <2>2
    <3>2. Done(e)' = handled'[e]
      BY <2>1, <3>1 DEF Done
    <3>3. CASE e = handler.device
      <4>1. handled'[e] = Append(handled[e], handler.arg)
        BY <2>1, <3>3
      <4>2. Done(e) = handled[e] \o <<handler.arg>>
        BY <2>1, <3>3 DEF Done
      <4> QED
        BY <2>2, <3>1, <3>2, <4>1, <4>2, AppendIsConcat
    <3>4. CASE e # handler.device
      BY <2>1, <3>1, <3>2, <3>4 DEF Done
    <3> QED
      BY <3>3, <3>4
  <2> QED
    BY <2>1, <2>3 DEF Unhandled
<1>8. ASSUME NEW t \in Threads, Tick(t) PROVE DoneMatchesPlace'
  BY <1>8, DoneStays DEF Tick, signalVars, Unhandled
<1>9. ASSUME NEW t \in Threads, P(t) PROVE DoneMatchesPlace'
  BY <1>9, DoneStays DEF P, GoTo, signalVars, Unhandled
<1>10. ASSUME NEW t \in Threads, V(t) PROVE DoneMatchesPlace'
  BY <1>10, DoneStays DEF V, signalVars, Unhandled
<1>11. ASSUME NEW t \in Threads, ReturnFromP(t) PROVE DoneMatchesPlace'
  BY <1>11, DoneStays DEF ReturnFromP, GoTo, signalVars, Unhandled
<1>12. ASSUME NEW t \in Threads, Take(t) PROVE DoneMatchesPlace'
  BY <1>12, DoneStays DEF Take, GoTo, signalVars, Unhandled
<1>13. CASE UNCHANGED vars
  BY <1>13, DoneStays DEF vars, signalVars, threadVars, Unhandled
<1> QED
  BY <1>1, <1>2, <1>3, <1>4, <1>5, <1>6, <1>7, <1>8, <1>9, <1>10, <1>11, <1>12, <1>13
     DEF Next, SendStep, Signal, Continue

(* The invariant holds in every reachable state.                           *)
THEOREM InductiveInvariant == Spec => []IInv
<1>1. Init => IInv
  BY InitIInv
<1>2. IInv /\ [Next]_vars => IInv'
  BY StepKeepsTypes, StepKeepsSignals, StepKeepsDone DEF IInv
<1> QED
  BY <1>1, <1>2, PTL DEF Spec

(* Every reachable state is well typed: in particular at most one answer   *)
(* of handle_interrupt is outstanding, and new_data has a waiter whenever  *)
(* its count is negative.                                                  *)
THEOREM TypeCorrect == Spec => []TypeOK
<1>1. IInv => TypeOK
  BY DEF IInv
<1> QED
  BY <1>1, InductiveInvariant, PTL

(* Each interrupt a device sends has its handler called exactly once, in   *)
(* order and with its own argument, and send_interrupt does not return     *)
(* before that, however often the signals are refused.                     *)
THEOREM InterruptsHandledOnce == Spec => []EachInterruptOnce
<1>1. IInv => EachInterruptOnce
  BY DEF IInv, DoneMatchesPlace, Unhandled, EachInterruptOnce
<1> QED
  BY <1>1, InductiveInvariant, PTL

(* Appending to the second of two sequences is appending to both.          *)
LEMMA AppendToConcat ==
  ASSUME NEW s \in Seq(Nat), NEW u \in Seq(Nat), NEW n \in Nat
  PROVE  s \o Append(u, n) = Append(s \o u, n)
<1>1. <<n>> \in Seq(Nat)
  OBVIOUS
<1>2. \A w \in Seq(Nat) : Append(w, n) = w \o <<n>>
  BY AppendIsConcat
<1>3. s \o u \in Seq(Nat)
  BY ConcatProperties
<1>4. s \o (u \o <<n>>) = (s \o u) \o <<n>>
  BY <1>1, ConcatAssociative
<1> QED
  BY <1>2, <1>3, <1>4

(* A line goes from the handler to the end of the list, and from its head  *)
(* to the reader.                                                          *)
LEMMA StepKeepsOrder ==
  ASSUME TypeOK, LinesReadInOrder, [Next]_vars
  PROVE  LinesReadInOrder'
<1> USE DEF LinesReadInOrder
<1>1. ASSUME NEW d \in Devices, DeviceHas(d) PROVE LinesReadInOrder'
  BY <1>1 DEF DeviceHas, DevGoto, signalVars, threadVars
<1>2. ASSUME NEW d \in Devices, Lock(d) PROVE LinesReadInOrder'
  BY <1>2 DEF Lock, DevGoto, signalVars, threadVars
<1>3. ASSUME NEW d \in Devices, QueueSignal(d) PROVE LinesReadInOrder'
  BY <1>3 DEF QueueSignal, DevGoto, threadVars
<1>4. ASSUME NEW d \in Devices, GetsAnswer(d) PROVE LinesReadInOrder'
  BY <1>4 DEF GetsAnswer, DevGoto, threadVars
<1>5. ASSUME NEW d \in Devices, Refused(d) PROVE LinesReadInOrder'
  BY <1>5 DEF Refused, threadVars
<1>6. ASSUME NEW d \in Devices, Taken(d) PROVE LinesReadInOrder'
  BY <1>6 DEF Taken, threadVars
<1>7. CASE HandlerStep
  <2>1. handler \in [device : Devices, arg : Nat]
    BY <1>7 DEF HandlerStep, TypeOK
  <2>2. handled' = [handled EXCEPT ![handler.device] = Append(@, handler.arg)]
    BY <1>7 DEF HandlerStep, RunHandler
  <2>3. read \in Seq(Nat) /\ lines \in Seq(Nat) /\ read' = read
    BY <1>7 DEF HandlerStep, RunHandler, TypeOK
  <2>4. CASE handler.device = Keyboard
    <3>1. lines' = Append(lines, handler.arg)
      BY <1>7, <2>4 DEF HandlerStep, RunHandler
    <3>2. read \o Append(lines, handler.arg) = Append(read \o lines, handler.arg)
      <4>1. handler.arg \in Nat
        BY <2>1
      <4> QED
        BY <2>3, <4>1, AppendToConcat
    <3>3. handled'[Keyboard] = Append(handled[Keyboard], handler.arg)
      BY <2>2, <2>4, TerminalAssumption DEF TypeOK
    <3> QED
      BY <2>3, <3>1, <3>2, <3>3
  <2>5. CASE handler.device # Keyboard
    BY <1>7, <2>1, <2>2, <2>5, TerminalAssumption DEF HandlerStep, RunHandler, TypeOK
  <2> QED
    BY <2>4, <2>5
<1>8. ASSUME NEW t \in Threads, Tick(t) PROVE LinesReadInOrder'
  BY <1>8 DEF Tick, signalVars
<1>9. ASSUME NEW t \in Threads, P(t) PROVE LinesReadInOrder'
  BY <1>9 DEF P, GoTo, signalVars
<1>10. ASSUME NEW t \in Threads, V(t) PROVE LinesReadInOrder'
  BY <1>10 DEF V, signalVars
<1>11. ASSUME NEW t \in Threads, ReturnFromP(t) PROVE LinesReadInOrder'
  BY <1>11 DEF ReturnFromP, GoTo, signalVars
<1>12. ASSUME NEW t \in Threads, Take(t) PROVE LinesReadInOrder'
  <2>1. read \in Seq(Nat) /\ lines \in Seq(Nat) /\ UNCHANGED handled
    BY <1>12 DEF Take, TypeOK
  <2>2. CASE lines # <<>>
    <3>1. read' = Append(read, Head(lines)) /\ lines' = Tail(lines)
      BY <1>12, <2>2 DEF Take
    <3>2. Head(lines) \in Nat /\ Tail(lines) \in Seq(Nat)
      BY <2>1, <2>2
    <3>3. lines = <<Head(lines)>> \o Tail(lines)
      BY <2>1, <2>2
    <3>4. Append(read, Head(lines)) = read \o <<Head(lines)>>
      BY <2>1, <3>2, AppendIsConcat
    <3>5. (read \o <<Head(lines)>>) \o Tail(lines) = read \o (<<Head(lines)>> \o Tail(lines))
      <4>1. <<Head(lines)>> \in Seq(Nat)
        BY <3>2
      <4> QED
        BY <2>1, <3>2, <4>1, ConcatAssociative
    <3> QED
      BY <2>1, <3>1, <3>3, <3>4, <3>5
  <2>3. CASE lines = <<>>
    BY <1>12, <2>3 DEF Take
  <2> QED
    BY <2>2, <2>3
<1>13. CASE UNCHANGED vars
  BY <1>13 DEF vars, signalVars, threadVars
<1> QED
  BY <1>1, <1>2, <1>3, <1>4, <1>5, <1>6, <1>7, <1>8, <1>9, <1>10, <1>11, <1>12, <1>13
     DEF Next, SendStep, Signal, Continue

(* The lines that were read and those in the list are the lines that were  *)
(* handled, in order: none is lost, read twice or overtaken.               *)
THEOREM LinesInOrder == Spec => []LinesReadInOrder
<1>1. Init => LinesReadInOrder
  BY TerminalAssumption DEF Init, LinesReadInOrder
<1>2. TypeOK /\ LinesReadInOrder /\ [Next]_vars => LinesReadInOrder'
  BY StepKeepsOrder
<1> QED
  BY <1>1, <1>2, TypeCorrect, PTL DEF Spec

-----------------------------------------------------------------------------
(* A thread waits in new_data once, and has called semaphore_P.            *)
WaitersBlocked ==
  /\ \A i \in DOMAIN waitQueue : pc[waitQueue[i]] = "blocked"
  /\ \A i, j \in DOMAIN waitQueue : waitQueue[i] = waitQueue[j] => i = j

(* Only calls of read_handler that were made are on a stack.               *)
FramesHandled == \A f \in owes : f.arg <= Len(handled[Keyboard])

LinesCounted == LineForEachReader /\ IsFiniteSet(Readers) /\ IsFiniteSet(owes)

LInv == WaitersBlocked /\ FramesHandled /\ LinesCounted

(* Nothing was typed and nobody reads.                                     *)
LEMMA InitLInv == Init => LInv
<1> SUFFICES ASSUME Init PROVE LInv
  OBVIOUS
<1>1. Readers = {} /\ owes = {} /\ Len(lines) = 0 /\ new_data = 0 /\ fault = "none"
  BY DEF Init, Readers
<1>2. LinesCounted
  BY <1>1, FS_EmptySet DEF LinesCounted, LineForEachReader
<1>3. WaitersBlocked /\ FramesHandled
  BY DEF Init, WaitersBlocked, FramesHandled
<1> QED
  BY <1>2, <1>3 DEF LInv

(* Steps that do not touch the lines or the threads.                       *)
LEMMA OthersKeepLines ==
  ASSUME LInv, UNCHANGED <<handled, lines, new_data, waitQueue, pc, owes, fault>>
  PROVE  LInv'
<1>1. Readers' = Readers
  BY DEF Readers, Waits
<1> QED
  BY <1>1 DEF LInv, WaitersBlocked, FramesHandled, LinesCounted, LineForEachReader

(* The next call of read_handler is for the next line.                     *)
LEMMA NextLine ==
  ASSUME IInv, HandlerStep, handler.device = Keyboard
  PROVE  /\ handler.arg = Len(handled[Keyboard]) + 1
         /\ handled'[Keyboard] = Append(handled[Keyboard], handler.arg)
<1>1. handler # NULL /\ handler \in [device : Devices, arg : Nat]
  BY DEF HandlerStep, IInv, TypeOK
<1>2. Keyboard \in Devices /\ handled[Keyboard] \in Seq(Nat)
  BY TerminalAssumption DEF IInv, TypeOK
<1> DEFINE n == Len(handled[Keyboard])
<1>3. Done(Keyboard) = handled[Keyboard] \o <<handler.arg>>
  BY <1>1 DEF Done
<1>4. PICK m \in Nat : Done(Keyboard) = Upto(m)
  <2>1. sent[Keyboard] \in Nat /\ (Unhandled(Keyboard) => sent[Keyboard] > 0)
    BY <1>2 DEF IInv, TypeOK, DoneMatchesPlace, Unhandled
  <2>2. Done(Keyboard) = Upto(IF Unhandled(Keyboard) THEN sent[Keyboard] - 1 ELSE sent[Keyboard])
    BY <1>2 DEF IInv, DoneMatchesPlace
  <2> QED
    BY <2>1, <2>2
<1>5. /\ Len(Done(Keyboard)) = n + 1 /\ Done(Keyboard)[n + 1] = handler.arg
  BY <1>1, <1>2, <1>3
<1>6. Len(Upto(m)) = m /\ \A i \in 1 .. m : Upto(m)[i] = i
  BY DEF Upto
<1>7. n \in Nat
  BY <1>2
<1>8. m = n + 1
  BY <1>4, <1>5, <1>6
<1>9. handler.arg = n + 1
  BY <1>4, <1>5, <1>6, <1>7, <1>8
<1>10. handled' = [handled EXCEPT ![handler.device] = Append(@, handler.arg)]
  BY DEF HandlerStep, RunHandler
<1> QED
  BY <1>2, <1>9, <1>10 DEF IInv, TypeOK

(* A line that is typed is one more in the list, with a V to come.         *)
LEMMA HandlerKeepsLines ==
  ASSUME IInv, LInv, HandlerStep PROVE LInv'
<1>1. handler \in [device : Devices, arg : Nat] /\ cpu \in Threads /\ lines \in Seq(Nat)
  BY DEF HandlerStep, IInv, TypeOK
<1>2. UNCHANGED <<new_data, waitQueue, pc, fault>>
  BY DEF HandlerStep, RunHandler
<1>3. Readers' = Readers
  BY <1>2 DEF Readers, Waits
<1>4. CASE handler.device = Keyboard
  <2> DEFINE f == [on |-> cpu, arg |-> handler.arg]
  <2>1. lines' = Append(lines, handler.arg) /\ owes' = owes \cup {f}
    BY <1>4 DEF HandlerStep, RunHandler
  <2>2. /\ handler.arg = Len(handled[Keyboard]) + 1
        /\ handled'[Keyboard] = Append(handled[Keyboard], handler.arg)
    BY <1>4, NextLine
  <2>3. handled[Keyboard] \in Seq(Nat)
    BY TerminalAssumption DEF IInv, TypeOK
  <2>4. \A g \in owes : g.arg \in Nat /\ g.arg <= Len(handled[Keyboard])
    BY DEF IInv, TypeOK, LInv, FramesHandled
  <2>5. f \notin owes
    BY <2>2, <2>3, <2>4
  <2>6. Len(handled'[Keyboard]) = Len(handled[Keyboard]) + 1
    BY <1>1, <2>2, <2>3
  <2>7. FramesHandled'
    BY <2>1, <2>2, <2>3, <2>4, <2>6 DEF FramesHandled
  <2>8. Len(lines') = Len(lines) + 1
    BY <1>1, <2>1
  <2>9. IsFiniteSet(owes) /\ IsFiniteSet(Readers)
    BY DEF LInv, LinesCounted
  <2>10. IsFiniteSet(owes') /\ Cardinality(owes') = Cardinality(owes) + 1
    BY <2>1, <2>5, <2>9, FS_AddElement
  <2>11. /\ Cardinality(owes) \in Nat /\ Cardinality(Readers) \in Nat
         /\ new_data \in Int
    BY <2>9, FS_CardinalityType DEF IInv, TypeOK
  <2>12. LinesCounted'
    BY <1>2, <1>3, <2>8, <2>9, <2>10, <2>11 DEF LInv, LinesCounted, LineForEachReader
  <2> QED
    BY <1>2, <2>7, <2>12 DEF LInv, WaitersBlocked
<1>5. CASE handler.device # Keyboard
  <2>1. UNCHANGED <<lines, owes>> /\ handled'[Keyboard] = handled[Keyboard]
    BY <1>1, <1>5, TerminalAssumption DEF HandlerStep, RunHandler, IInv, TypeOK
  <2> QED
    BY <1>2, <1>3, <2>1 DEF LInv, WaitersBlocked, FramesHandled, LinesCounted, LineForEachReader
<1> QED
  BY <1>4, <1>5

(* The first of the queue leaves it, and nobody else.                      *)
LEMMA FirstLeaves ==
  ASSUME IInv, LInv, waitQueue # <<>>, waitQueue' = Tail(waitQueue), UNCHANGED pc
  PROVE  /\ WaitersBlocked'
         /\ \E u \in Threads : u \notin Readers /\ Readers' = Readers \cup {u}
<1> DEFINE u == waitQueue[1]
           q == Tail(waitQueue)
<1>1. waitQueue \in Seq(Threads) /\ Len(waitQueue) \in Nat \ {0}
  BY EmptySeq DEF IInv, TypeOK
<1>2. /\ DOMAIN q = 1 .. Len(waitQueue) - 1
      /\ \A i \in 1 .. Len(waitQueue) - 1 : q[i] = waitQueue[i + 1]
  BY <1>1
<1>3. u \in Threads /\ 1 \in DOMAIN waitQueue /\ DOMAIN waitQueue = 1 .. Len(waitQueue)
  BY <1>1
<1>4. /\ \A i, j \in DOMAIN waitQueue : waitQueue[i] = waitQueue[j] => i = j
      /\ \A i \in DOMAIN waitQueue : pc[waitQueue[i]] = "blocked"
  BY DEF LInv, WaitersBlocked
<1>5. pc[u] = "blocked" /\ Waits(u)
  BY <1>3, <1>4 DEF Waits
<1> HIDE DEF q
<1>6. ASSUME NEW v PROVE Waits(v)' <=> Waits(v) /\ v # u
  <2>1. Waits(v)' <=> \E i \in DOMAIN q : q[i] = v
    BY DEF Waits, q
  <2>2. ASSUME NEW i \in DOMAIN q, q[i] = v PROVE Waits(v) /\ v # u
    <3>1. i + 1 \in DOMAIN waitQueue /\ waitQueue[i + 1] = v /\ i + 1 # 1
      BY <1>1, <1>2, <1>3, <2>2
    <3> QED
      BY <1>3, <1>4, <3>1 DEF Waits
  <2>3. ASSUME Waits(v), v # u PROVE \E i \in DOMAIN q : q[i] = v
    <3>1. PICK i \in DOMAIN waitQueue : waitQueue[i] = v
      BY <2>3 DEF Waits
    <3>2. i # 1 /\ i \in 1 .. Len(waitQueue)
      BY <1>3, <2>3, <3>1
    <3>3. i - 1 \in DOMAIN q /\ q[i - 1] = waitQueue[(i - 1) + 1] /\ (i - 1) + 1 = i
      BY <1>1, <1>2, <3>2
    <3> QED
      BY <3>1, <3>3
  <2> QED
    BY <2>1, <2>2, <2>3
<1>7. Readers' = Readers \cup {u} /\ u \notin Readers
  BY <1>3, <1>5, <1>6 DEF Readers
<1>8. WaitersBlocked'
  <2>1. \A i \in DOMAIN q : i + 1 \in DOMAIN waitQueue /\ q[i] = waitQueue[i + 1] /\ i \in Int
    BY <1>1, <1>2, <1>3
  <2>2. \A i, j \in DOMAIN q : q[i] = q[j] => i = j
    BY <1>4, <2>1
  <2>3. \A i \in DOMAIN q : pc[q[i]] = "blocked"
    BY <1>4, <2>1
  <2> QED
    BY <2>2, <2>3 DEF WaitersBlocked, q
<1> QED
  BY <1>3, <1>7, <1>8

(* One V of a handler: for the reader that waited longest, or to be        *)
(* counted.                                                                *)
LEMMA VKeepsLines ==
  ASSUME IInv, LInv, NEW t \in Threads, V(t) PROVE LInv'
<1>1. PICK f \in owes : owes' = owes \ {f}
  BY DEF V, EndsLast, Frames
<1>2. new_data' = new_data + 1 /\ UNCHANGED <<handled, lines, pc, fault>>
  BY DEF V
<1>3. /\ IsFiniteSet(owes) /\ IsFiniteSet(Readers)
      /\ Cardinality(owes) \in Nat /\ Cardinality(Readers) \in Nat
      /\ new_data \in Int
  BY FS_CardinalityType DEF LInv, LinesCounted, IInv, TypeOK
<1>4. IsFiniteSet(owes') /\ Cardinality(owes') = Cardinality(owes) - 1
  BY <1>1, <1>3, FS_RemoveElement
<1>5. FramesHandled'
  BY <1>1, <1>2 DEF LInv, FramesHandled
<1>6. CASE new_data < 0
  <2>1. waitQueue' = Tail(waitQueue)
    BY <1>6 DEF V
  <2>2. waitQueue # <<>>
    BY <1>3, <1>6 DEF IInv, WaitersCounted
  <2>3. WaitersBlocked'
    BY <1>2, <2>1, <2>2, FirstLeaves
  <2>4. PICK u \in Threads : u \notin Readers /\ Readers' = Readers \cup {u}
    BY <1>2, <2>1, <2>2, FirstLeaves
  <2>5. IsFiniteSet(Readers') /\ Cardinality(Readers') = Cardinality(Readers) + 1
    BY <1>3, <2>4, FS_AddElement
  <2>6. LinesCounted'
    BY <1>2, <1>3, <1>4, <1>6, <2>5 DEF LInv, LinesCounted, LineForEachReader
  <2> QED
    BY <1>5, <2>3, <2>6 DEF LInv
<1>7. CASE new_data >= 0
  <2>1. UNCHANGED waitQueue
    BY <1>3, <1>7 DEF V
  <2>2. Readers' = Readers
    BY <1>2, <2>1 DEF Readers, Waits
  <2>3. LinesCounted'
    BY <1>2, <1>3, <1>4, <1>7, <2>2 DEF LInv, LinesCounted, LineForEachReader
  <2> QED
    BY <1>2, <1>5, <2>1, <2>3 DEF LInv, WaitersBlocked
<1> QED
  BY <1>3, <1>6, <1>7

(* A reader takes a count, or is the last of the queue.                    *)
LEMMA PKeepsLines ==
  ASSUME IInv, LInv, NEW t \in Threads, P(t) PROVE LInv'
<1>1. /\ pc[t] = "user" /\ new_data' = new_data - 1
      /\ UNCHANGED <<handled, lines, owes, fault>>
  BY DEF P
<1>2. /\ IsFiniteSet(owes) /\ IsFiniteSet(Readers)
      /\ Cardinality(owes) \in Nat /\ Cardinality(Readers) \in Nat
      /\ new_data \in Int /\ waitQueue \in Seq(Threads)
      /\ pc \in [Threads -> {"user", "blocked", "take"}]
  BY FS_CardinalityType DEF LInv, LinesCounted, IInv, TypeOK
<1>3. ~Waits(t) /\ t \notin Readers
  BY <1>1 DEF LInv, WaitersBlocked, Waits, Readers
<1>4. FramesHandled'
  BY <1>1 DEF LInv, FramesHandled
<1>5. CASE new_data > 0
  <2>1. pc' = [pc EXCEPT ![t] = "take"] /\ UNCHANGED waitQueue
    BY <1>2, <1>5 DEF P, GoTo
  <2>2. \A v : Waits(v)' <=> Waits(v)
    BY <2>1 DEF Waits
  <2>3. Readers' = Readers \cup {t}
    BY <1>2, <1>3, <2>1, <2>2 DEF Readers
  <2>4. IsFiniteSet(Readers') /\ Cardinality(Readers') = Cardinality(Readers) + 1
    BY <1>2, <1>3, <2>3, FS_AddElement
  <2>5. LinesCounted'
    BY <1>1, <1>2, <1>5, <2>4 DEF LInv, LinesCounted, LineForEachReader
  <2>6. \A i \in DOMAIN waitQueue : waitQueue[i] # t
    BY <1>3 DEF Waits
  <2>7. WaitersBlocked'
    <3>1. \A i \in DOMAIN waitQueue : waitQueue[i] \in Threads
      BY <1>2
    <3> QED
      BY <1>2, <2>1, <2>6, <3>1 DEF LInv, WaitersBlocked
  <2> QED
    BY <1>4, <2>5, <2>7 DEF LInv
<1>6. CASE new_data <= 0
  <2>1. pc' = [pc EXCEPT ![t] = "blocked"] /\ waitQueue' = Append(waitQueue, t)
    BY <1>2, <1>6 DEF P, GoTo
  <2> DEFINE n == Len(waitQueue)
             q == Append(waitQueue, t)
  <2>2. /\ n \in Nat /\ DOMAIN waitQueue = 1 .. n /\ DOMAIN q = 1 .. n + 1
        /\ q[n + 1] = t /\ \A i \in 1 .. n : q[i] = waitQueue[i]
    BY <1>2, AppendProperties, LenProperties
  <2>3. \A i \in 1 .. n : waitQueue[i] # t /\ waitQueue[i] \in Threads
    BY <1>2, <1>3, <2>2 DEF Waits
  <2> HIDE DEF q, n
  <2>4. ASSUME NEW v PROVE Waits(v)' <=> Waits(v) \/ v = t
    <3>1. Waits(v)' <=> \E i \in 1 .. n + 1 : q[i] = v
      BY <2>1, <2>2 DEF Waits, q
    <3>2. Waits(v) <=> \E i \in 1 .. n : waitQueue[i] = v
      BY <2>2 DEF Waits
    <3> QED
      BY <2>2, <3>1, <3>2
  <2>5. Readers' = Readers
    BY <1>1, <1>2, <1>3, <2>1, <2>4 DEF Readers
  <2>6. LinesCounted'
    BY <1>1, <1>2, <1>6, <2>5 DEF LInv, LinesCounted, LineForEachReader
  <2>7. WaitersBlocked'
    <3>1. \A i \in 1 .. n + 1 : pc'[q[i]] = "blocked"
      BY <1>2, <2>1, <2>2, <2>3 DEF LInv, WaitersBlocked
    <3>2. \A i, j \in 1 .. n + 1 : q[i] = q[j] => i = j
      BY <2>2, <2>3 DEF LInv, WaitersBlocked
    <3> QED
      BY <2>1, <2>2, <3>1, <3>2 DEF WaitersBlocked, q
  <2> QED
    BY <1>4, <2>6, <2>7 DEF LInv
<1> QED
  BY <1>2, <1>5, <1>6

(* A reader that was woken comes back from semaphore_P.                    *)
LEMMA ReturnKeepsLines ==
  ASSUME IInv, LInv, NEW t \in Threads, ReturnFromP(t) PROVE LInv'
<1>1. /\ pc' = [pc EXCEPT ![t] = "take"] /\ pc[t] = "blocked" /\ ~Waits(t)
      /\ UNCHANGED <<handled, lines, new_data, waitQueue, owes, fault>>
  BY DEF ReturnFromP, GoTo
<1>2. waitQueue \in Seq(Threads) /\ pc \in [Threads -> {"user", "blocked", "take"}]
  BY DEF IInv, TypeOK
<1>3. \A v : Waits(v)' <=> Waits(v)
  BY <1>1 DEF Waits
<1>4. Readers' = Readers
  BY <1>1, <1>2, <1>3 DEF Readers
<1>5. \A i \in DOMAIN waitQueue : waitQueue[i] # t /\ waitQueue[i] \in Threads
  BY <1>1, <1>2 DEF Waits
<1>6. WaitersBlocked'
  BY <1>1, <1>2, <1>5 DEF LInv, WaitersBlocked
<1> QED
  BY <1>1, <1>4, <1>6 DEF LInv, FramesHandled, LinesCounted, LineForEachReader

(* A reader that was let through finds a line, and takes it.               *)
LEMMA TakeKeepsLines ==
  ASSUME IInv, LInv, NEW t \in Threads, Take(t) PROVE LInv'
<1>1. pc[t] = "take" /\ UNCHANGED <<handled, new_data, waitQueue, owes>>
  BY DEF Take
<1>2. /\ IsFiniteSet(owes) /\ IsFiniteSet(Readers)
      /\ Cardinality(owes) \in Nat /\ Cardinality(Readers) \in Nat
      /\ new_data \in Int /\ waitQueue \in Seq(Threads) /\ lines \in Seq(Nat)
      /\ pc \in [Threads -> {"user", "blocked", "take"}]
  BY FS_CardinalityType DEF LInv, LinesCounted, IInv, TypeOK
<1>3. ~Waits(t) /\ t \in Readers
  BY <1>1 DEF LInv, WaitersBlocked, Waits, Readers
<1>4. Cardinality(Readers) # 0
  BY <1>2, <1>3, FS_EmptySet
<1>5. lines # <<>>
  BY <1>2, <1>4 DEF LInv, LinesCounted, LineForEachReader
<1>6. lines' = Tail(lines) /\ pc' = [pc EXCEPT ![t] = "user"] /\ UNCHANGED fault
  BY <1>5 DEF Take, GoTo
<1>7. \A v : Waits(v)' <=> Waits(v)
  BY <1>1 DEF Waits
<1>8. Readers' = Readers \ {t}
  BY <1>2, <1>6, <1>7 DEF Readers
<1>9. IsFiniteSet(Readers') /\ Cardinality(Readers') = Cardinality(Readers) - 1
  BY <1>2, <1>3, <1>8, FS_RemoveElement
<1>10. Len(lines') = Len(lines) - 1 /\ Len(lines) \in Nat
  BY <1>2, <1>5, <1>6
<1>11. LinesCounted'
  BY <1>1, <1>2, <1>6, <1>9, <1>10 DEF LInv, LinesCounted, LineForEachReader
<1>12. \A i \in DOMAIN waitQueue : waitQueue[i] # t /\ waitQueue[i] \in Threads
  BY <1>2, <1>3 DEF Waits
<1>13. WaitersBlocked'
  BY <1>1, <1>2, <1>6, <1>12 DEF LInv, WaitersBlocked
<1> QED
  BY <1>1, <1>11, <1>13 DEF LInv, FramesHandled

(* Every step keeps the lines counted.                                     *)
LEMMA StepKeepsLines == IInv /\ LInv /\ [Next]_vars => LInv'
<1> SUFFICES ASSUME IInv, LInv, [Next]_vars PROVE LInv'
  OBVIOUS
<1>1. ASSUME NEW d \in Devices, DeviceHas(d) \/ SendStep(d) \/ Signal(d) PROVE LInv'
  BY <1>1, OthersKeepLines
     DEF DeviceHas, SendStep, Lock, QueueSignal, GetsAnswer, Signal, Refused, Taken, threadVars
<1>2. ASSUME NEW t \in Threads, Tick(t) PROVE LInv'
  BY <1>2, OthersKeepLines DEF Tick
<1>3. CASE UNCHANGED vars
  BY <1>3, OthersKeepLines DEF vars, threadVars
<1> QED
  BY <1>1, <1>2, <1>3, HandlerKeepsLines, VKeepsLines, PKeepsLines, ReturnKeepsLines,
     TakeKeepsLines DEF Next, Continue

(* There is a line in the list for each count of new_data, for each V a    *)
(* handler has yet to do and for each reader that was let through: the     *)
(* assert of read.c:91 holds, and no reader waits beside a line that       *)
(* nobody will announce.                                                   *)
THEOREM LinesAnnounced == Spec => []LineForEachReader
<1>1. LInv => LineForEachReader
  BY DEF LInv, LinesCounted
<1> QED
  BY <1>1, InitLInv, StepKeepsLines, InductiveInvariant, PTL DEF Spec
=============================================================================
