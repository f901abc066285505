------------------------------ MODULE Terminal ------------------------------
(***************************************************************************)
(* How a device interrupts the minithreads (send_interrupt and             *)
(* handle_interrupt of interrupts.c), and the lines of the keyboard that   *)
(* reach miniterm_read that way (read.c).                                  *)
(*                                                                         *)
(* Each device is a pthread of its own and runs in parallel with the one   *)
(* that runs the minithreads.  It queues a signal and waits on             *)
(* interrupt_received_sema for the answer of handle_interrupt, which       *)
(* refuses the signal when it finds interrupts disabled or the processor   *)
(* inside the C library, and otherwise starts the handler on the stack of  *)
(* the minithread it interrupts.  Code of a minithread that runs with      *)
(* interrupts disabled is one action, and a signal that falls into it is   *)
(* refused.  The first part of a handler is an action of its own: while it *)
(* runs the device that sent it goes on.                                   *)
(*                                                                         *)
(* Payloads are numbered in the order a device sends them, so the n-th     *)
(* line typed is n.  The semaphore new_data and the change of minithreads  *)
(* are those of Minithread, reduced to who runs and who waits.             *)
(***************************************************************************)
EXTENDS Integers, Sequences, FiniteSets

CONSTANTS
  Devices,      \* the pthreads that call send_interrupt
  Keyboard,     \* the one that runs read_poll
  Threads,      \* the minithreads, all of which may call miniterm_read
  NULL,
  MaxSends      \* bound: the interrupts each device sends

ASSUME TerminalAssumption ==
  /\ Keyboard \in Devices
  /\ Threads # {}
  /\ NULL \notin Devices \cup Threads \cup [device : Devices, arg : Nat]
  /\ MaxSends \in Nat

VARIABLES
  dev,          \* where each device is in send_interrupt
  sent,         \* how many interrupts each device has begun to send
  signals,      \* the devices whose signal is queued
  signal_handled,
  received,     \* the count of interrupt_received_sema
  handler,      \* the handler that runs with interrupts disabled, or NULL
  handled,      \* what the handler of each device was called with so far
  lines,        \* the list from kb_head to kb_tail
  new_data,     \* the count of the semaphore
  waitQueue,    \* and its waiters
  cpu,          \* the minithread that has the processor
  pc,           \* where each minithread is
  owes,         \* the calls of read_handler that have yet to V
  read,         \* the lines miniterm_read returned
  fault         \* "assert" once kb_head was NULL in miniterm_read

signalVars == <<signals, signal_handled, received>>
threadVars == <<cpu, pc, owes>>
vars == <<dev, sent, signalVars, handler, handled, lines, new_data, waitQueue,
          threadVars, read, fault>>

Init ==
  /\ dev = [d \in Devices |-> "idle"]
  /\ sent = [d \in Devices |-> 0]
  /\ signals = {}
  /\ signal_handled = FALSE
  /\ received = 0
  /\ handler = NULL
  /\ handled = [d \in Devices |-> <<>>]
  /\ lines = <<>>
  /\ new_data = 0
  /\ waitQueue = <<>>
  /\ cpu \in Threads
  /\ pc = [t \in Threads |-> "user"]
  /\ owes = {}
  /\ read = <<>>
  /\ fault = "none"

(***************************************************************************)
(* send_interrupt.  A device is "idle" outside, waits for signal_mutex at  *)
(* "lock", and is the holder of the mutex at "send" and "wait".            *)
(***************************************************************************)
Holders == {d \in Devices : dev[d] \in {"send", "wait"}}

DevGoto(d, place) == dev' = [dev EXCEPT ![d] = place]

DeviceHas(d) ==
  /\ dev[d] = "idle"
  /\ sent[d] < MaxSends
  /\ sent' = [sent EXCEPT ![d] = @ + 1]
  /\ DevGoto(d, "lock")
  /\ UNCHANGED <<signalVars, handler, handled, lines, new_data, waitQueue,
                 threadVars, read, fault>>

FaultyLock(d) ==
  /\ dev[d] = "lock"
  /\ DevGoto(d, "send")
  /\ UNCHANGED <<sent, signalVars, handler, handled, lines, new_data, waitQueue,
                 threadVars, read, fault>>

Lock(d) ==
  /\ dev[d] = "lock"
  /\ Holders = {}
  /\ DevGoto(d, "send")
  /\ UNCHANGED <<sent, signalVars, handler, handled, lines, new_data, waitQueue,
                 threadVars, read, fault>>

FaultyQueueSignal(d) ==
  /\ dev[d] = "send"
  /\ signals' = signals \cup {d}
  /\ DevGoto(d, "wait")
  /\ UNCHANGED <<signal_handled, sent, received, handler, handled, lines,
                 new_data, waitQueue, threadVars, read, fault>>

QueueSignal(d) ==
  /\ dev[d] = "send"
  /\ signal_handled' = FALSE
  /\ signals' = signals \cup {d}
  /\ DevGoto(d, "wait")
  /\ UNCHANGED <<sent, received, handler, handled, lines, new_data, waitQueue,
                 threadVars, read, fault>>

(* The answer came: leave, or try again.                                   *)
GetsAnswer(d) ==
  /\ dev[d] = "wait"
  /\ received > 0
  /\ received' = received - 1
  /\ DevGoto(d, IF signal_handled THEN "idle" ELSE "send")
  /\ UNCHANGED <<sent, signals, signal_handled, handler, handled, lines,
                 new_data, waitQueue, threadVars, read, fault>>

(***************************************************************************)
(* handle_interrupt, for a signal of d that is delivered.                  *)
(***************************************************************************)
FaultyRefused(d) ==
  /\ d \in signals
  /\ signals' = signals \ {d}
  /\ UNCHANGED <<dev, sent, received, signal_handled, handler, handled, lines,
                 new_data, waitQueue, threadVars, read, fault>>

Refused(d) ==
  /\ d \in signals
  /\ signals' = signals \ {d}
  /\ received' = received + 1
  /\ UNCHANGED <<dev, sent, signal_handled, handler, handled, lines, new_data,
                 waitQueue, threadVars, read, fault>>

Taken(d) ==
  /\ d \in signals
  /\ handler = NULL
  /\ signals' = signals \ {d}
  /\ handler' = [device |-> d, arg |-> sent[d]]
  /\ signal_handled' = TRUE
  /\ received' = received + 1
  /\ UNCHANGED <<dev, sent, handled, lines, new_data, waitQueue, threadVars,
                 read, fault>>

(***************************************************************************)
(* The part of a handler that runs with interrupts disabled.  read_handler *)
(* enables them before its V; the other handlers are external to this      *)
(* module and take their argument.                                         *)
(***************************************************************************)
FaultyRunHandler(h) ==
  /\ handled' = [handled EXCEPT ![h.device] = Append(@, h.arg)]
  /\ IF h.device = Keyboard
       THEN /\ lines' = IF lines = <<>> THEN <<h.arg>> ELSE <<Head(lines), h.arg>>
            /\ owes' = owes \cup {[on |-> cpu, arg |-> h.arg]}
       ELSE UNCHANGED <<lines, owes>>
  /\ handler' = NULL
  /\ UNCHANGED <<dev, sent, signalVars, new_data, waitQueue, cpu, pc, read, fault>>

RunHandler(h) ==
  /\ handled' = [handled EXCEPT ![h.device] = Append(@, h.arg)]
  /\ IF h.device = Keyboard
       THEN /\ lines' = Append(lines, h.arg)
            /\ owes' = owes \cup {[on |-> cpu, arg |-> h.arg]}
       ELSE UNCHANGED <<lines, owes>>
  /\ handler' = NULL
  /\ UNCHANGED <<dev, sent, signalVars, new_data, waitQueue, cpu, pc, read, fault>>

(***************************************************************************)
(* The minithreads.  A thread that waits in new_data gives the processor   *)
(* to one that can run, or else keeps it and takes interrupts; a tick may  *)
(* give the processor to another at any moment.  The frames of handlers    *)
(* are finished before the code below them on the stack goes on, the last  *)
(* one first.                                                              *)
(***************************************************************************)
Runs(t) == cpu = t /\ handler = NULL /\ fault = "none"

Waits(t) == \E i \in DOMAIN waitQueue : waitQueue[i] = t

Frames(t) == {f \in owes : f.on = t}

CanRun(t) == ~Waits(t) \/ Frames(t) # {}

EndsLast(t) ==
  \E f \in Frames(t) : (\A g \in Frames(t) : g.arg <= f.arg) /\ owes' = owes \ {f}

Tick(t) ==
  /\ Runs(cpu)
  /\ t # cpu
  /\ CanRun(t)
  /\ cpu' = t
  /\ UNCHANGED <<dev, sent, signalVars, handler, handled, lines, new_data,
                 waitQueue, pc, owes, read, fault>>

FaultyV(t) ==
  /\ Runs(t)
  /\ EndsLast(t)
  /\ new_data' = new_data + 1
  /\ waitQueue' = IF new_data < -1 THEN Tail(waitQueue) ELSE waitQueue
  /\ UNCHANGED <<dev, sent, signalVars, handler, handled, lines, cpu, pc, read,
                 fault>>

(* semaphore_V(new_data) at the end of read_handler.                       *)
V(t) ==
  /\ Runs(t)
  /\ EndsLast(t)
  /\ new_data' = new_data + 1
  /\ waitQueue' = IF new_data < 0 THEN Tail(waitQueue) ELSE waitQueue
  /\ UNCHANGED <<dev, sent, signalVars, handler, handled, lines, cpu, pc, read,
                 fault>>

GoTo(t, place) == pc' = [pc EXCEPT ![t] = place]

FaultyP(t) ==
  /\ Runs(t) /\ Frames(t) = {} /\ pc[t] = "user"
  /\ \/ /\ lines # <<>>
        /\ GoTo(t, "take")
        /\ UNCHANGED <<new_data, waitQueue, cpu>>
     \/ /\ lines = <<>>
        /\ new_data' = new_data - 1
        /\ waitQueue' = Append(waitQueue, t)
        /\ GoTo(t, "blocked")
        /\ LET others == {u \in Threads \ {t} : CanRun(u)}
           IN  cpu' \in IF others = {} THEN {t} ELSE others
  /\ UNCHANGED <<dev, sent, signalVars, handler, handled, lines, owes, read, fault>>

(* semaphore_P(new_data) at the start of miniterm_read.                    *)
P(t) ==
  /\ Runs(t) /\ Frames(t) = {} /\ pc[t] = "user"
  /\ new_data' = new_data - 1
  /\ \/ /\ new_data > 0
        /\ GoTo(t, "take")
        /\ UNCHANGED <<waitQueue, cpu>>
     \/ /\ new_data <= 0
        /\ waitQueue' = Append(waitQueue, t)
        /\ GoTo(t, "blocked")
        /\ LET others == {u \in Threads \ {t} : CanRun(u)}
           IN  cpu' \in IF others = {} THEN {t} ELSE others
  /\ UNCHANGED <<dev, sent, signalVars, handler, handled, lines, owes, read, fault>>

ReturnFromP(t) ==
  /\ Runs(t) /\ Frames(t) = {} /\ pc[t] = "blocked"
  /\ ~Waits(t)
  /\ GoTo(t, "take")
  /\ UNCHANGED <<dev, sent, signalVars, handler, handled, lines, new_data,
                 waitQueue, cpu, owes, read, fault>>

(* The rest of miniterm_read, with interrupts disabled.                    *)
Take(t) ==
  /\ Runs(t) /\ Frames(t) = {} /\ pc[t] = "take"
  /\ \/ /\ lines # <<>>
        /\ read' = Append(read, Head(lines))
        /\ lines' = Tail(lines)
        /\ GoTo(t, "user")
        /\ UNCHANGED fault
     \/ /\ lines = <<>>
        /\ fault' = "assert"
        /\ UNCHANGED <<read, lines, pc>>
  /\ UNCHANGED <<dev, sent, signalVars, handler, handled, new_data, waitQueue,
                 cpu, owes>>

SendStep(d) == Lock(d) \/ QueueSignal(d) \/ GetsAnswer(d)
Signal(d) == Refused(d) \/ Taken(d)
HandlerStep == handler # NULL /\ RunHandler(handler)
Continue(t) == V(t) \/ ReturnFromP(t) \/ Take(t)

Next ==
  \/ \E d \in Devices : DeviceHas(d) \/ SendStep(d) \/ Signal(d)
  \/ HandlerStep
  \/ \E t \in Threads : Tick(t) \/ P(t) \/ Continue(t)

Spec == Init /\ [][Next]_vars

(***************************************************************************)
(* Fairness.  A device that has the mutex goes on, a queued signal is      *)
(* delivered, and a handler ends.  A device that sends again and again is  *)
(* taken at last, since a minithread is neither for ever with interrupts   *)
(* disabled nor for ever in the C library.  Ticks give every thread that   *)
(* can run the processor, long enough to get through the few instructions  *)
(* of read.c.  Nobody is sure to type, to read, or to get the mutex.       *)
(***************************************************************************)
Fairness ==
  /\ \A d \in Devices :
       /\ WF_vars(QueueSignal(d)) /\ WF_vars(GetsAnswer(d))
       /\ WF_vars(Signal(d))
       /\ SF_vars(Taken(d))
  /\ WF_vars(HandlerStep)
  /\ \A t \in Threads : SF_vars(Tick(t)) /\ SF_vars(Continue(t))

FairSpec == Spec /\ Fairness

(***************************************************************************)
(* Correctness                                                             *)
(***************************************************************************)
Upto(n) == [i \in 1 .. n |-> i]

TypeOK ==
  /\ dev \in [Devices -> {"idle", "lock", "send", "wait"}]
  /\ sent \in [Devices -> Nat]
  /\ signals \subseteq Devices
  /\ signal_handled \in BOOLEAN
  /\ received \in {0, 1}
  /\ handler \in [device : Devices, arg : Nat] \cup {NULL}
  /\ handled \in [Devices -> Seq(Nat)]
  /\ lines \in Seq(Nat)
  /\ new_data \in Int
  /\ waitQueue \in Seq(Threads)
  /\ cpu \in Threads
  /\ pc \in [Threads -> {"user", "blocked", "take"}]
  /\ owes \subseteq [on : Threads, arg : Nat]
  /\ read \in Seq(Nat)
  /\ fault \in {"none", "assert"}

(* What the handler of d was called with, the call that runs now included. *)
Done(d) ==
  handled[d] \o (IF handler # NULL /\ handler.device = d THEN <<handler.arg>>
                                                         ELSE <<>>)

(* Each call of send_interrupt has its handler called exactly once, in     *)
(* order and with its own argument, however often the signal was refused,  *)
(* and it does not return before the handler was started                   *)
(* (interrupts.c:231-262).                                                 *)
EachInterruptOnce ==
  \A d \in Devices :
    \/ Done(d) = Upto(sent[d])
    \/ dev[d] # "idle" /\ Done(d) = Upto(sent[d] - 1)

(* The lines read and those in the list are, in order, the lines the       *)
(* handler got: none is lost or read twice (read.c:25-39, 83-107).         *)
LinesReadInOrder == read \o lines = handled[Keyboard]

Readers == {t \in Threads : pc[t] # "user" /\ ~Waits(t)}

(* Every line in the list is accounted for: by a count of new_data, by a V *)
(* a handler has yet to do, or by a reader that was let through.  So no    *)
(* reader finds the list empty (the assert of read.c:91), and none waits   *)
(* while a line is there that nobody will announce.                        *)
LineForEachReader ==
  /\ fault = "none"
  /\ Len(lines) = Cardinality(Readers) + Cardinality(owes)
                   + (IF new_data > 0 THEN new_data ELSE 0)

(* A device that got the mutex gets its interrupt handled and returns.     *)
SendReturns ==
  \A d \in Devices : d \in Holders ~> dev[d] = "idle"

(* If all threads are in miniterm_read and there is a line, one is read.   *)
LineIsRead ==
  \A n \in 0 .. MaxSends - 1 :
    Len(read) = n /\ lines # <<>> /\ (\A t \in Threads : pc[t] # "user")
      ~> Len(read) > n
=============================================================================
