----------------------------- MODULE Minithread -----------------------------
(***************************************************************************)
(* The scheduler and the semaphores of PortOS: minithread.c, synch.c,      *)
(* multilevel_queue.c and the part of machineprimitives*.{c,S} and of      *)
(* interrupts.c they run on.                                               *)
(*                                                                         *)
(* One CPU runs every minithread.  An interrupt handler runs on the stack  *)
(* of the interrupted thread, only while interrupt_level is ENABLED, and   *)
(* is not itself interrupted.  One action is the code between two points   *)
(* at which the model lets an interrupt arrive; code that runs DISABLED is *)
(* one action.  Threads are a most general client: between two calls of    *)
(* the package a thread may make any call it is allowed to make.           *)
(*                                                                         *)
(* A definition whose name starts with Faulty is a mutant of the one that  *)
(* follows it: no specification uses it, and the properties must notice it *)
(* when it takes the place of the original.                                *)
(***************************************************************************)
EXTENDS Integers, Sequences, FiniteSets

CONSTANTS
  Threads,          \* the thread control blocks a run can use
  Main,             \* the thread minithread_system_initialize starts
  Cleaners,         \* control blocks reserved for minithread_cleanup threads
  Idle,             \* idleThread: holds the stack the process started on
  NULL,             \* the null pointer
  Yielders,         \* the threads whose program calls minithread_yield
  Exiters,          \* the threads whose program returns (minithread_exit)
  Sems,             \* the semaphores
  InterruptSems,    \* those an interrupt handler or an alarm may V
  InitCount,        \* the count each semaphore is initialised with
  MaxCount,         \* bound: no V on a semaphore whose count has reached it
  MaxLevel,         \* the last level of the multilevel queue (3 in the code)
  quantaAssignments,\* the quanta of each level (1, 2, 4, 8 in the code)
  CleanupLength     \* finished threads kept before a cleanup (10 in the code)

Levels == 0 .. MaxLevel

ASSUME ThreadsAssumption ==
  /\ Main \in Threads \ Cleaners
  /\ Cleaners \subseteq Threads
  /\ Yielders \subseteq Threads \ Cleaners
  /\ Exiters \subseteq Threads \ Cleaners
  /\ Idle \notin Threads
  /\ NULL \notin Threads \cup {Idle}

ASSUME SemsAssumption ==
  /\ InterruptSems \subseteq Sems
  /\ NULL \notin Sems
  /\ InitCount \in [Sems -> Nat]
  /\ MaxCount \in Nat

ASSUME LevelsAssumption ==
  /\ MaxLevel \in Nat
  /\ quantaAssignments \in [Levels -> Nat \ {0}]
  /\ CleanupLength \in Nat \ {0}

VARIABLES
  runningThread,    \* the global the whole package reads as "the caller"
  cpu,              \* the thread whose stack the processor is really on
  interrupt_level,  \* "ENABLED" or "DISABLED"
  multiqueue,       \* the ready threads, a FIFO queue per level
  level,            \* level of each control block
  quantaRemaining,  \* ticks left; every value <= 0 is represented by 0
  pc,               \* where each thread is, see Places
  previousLevel,    \* the local of the semaphore_P a thread is inside of
  count, waitQueue, \* the two fields of each semaphore
  finished,         \* queue_finished_threads
  oldThreads,       \* the argument of each minithread_cleanup thread
  to_run,           \* the local of the minithread_exit a thread is inside of
  freed,            \* the control blocks and stacks that were freed
  fault             \* what stopped the process, "none" while it runs

schedVars == <<runningThread, cpu, interrupt_level, multiqueue, level,
               quantaRemaining>>
semVars   == <<count, waitQueue, previousLevel>>
exitVars  == <<finished, oldThreads, to_run, freed>>
vars      == <<schedVars, pc, semVars, exitVars, fault>>

Places ==
  {"unborn",     \* the control block is not created yet
   "user",       \* in its own program, between two calls
   "blocked",    \* inside minithread_stop, past or at minithread_switch
   "spin",       \* minithread_stop:200, waiting for the queue to fill
   "found",      \* minithread_stop:201, the queue was seen not empty
   "cleanup",    \* in the loop of minithread_cleanup
   "exitCheck",  \* minithread_exit:119, appended to the finished threads
   "exitOld",    \* minithread_exit:121, enough have finished
   "exitSwap",   \* minithread_exit:122, it has the queue in oldThreads
   "exitTake",   \* minithread_exit:125
   "exitSpin",   \* minithread_exit:128
   "exitFound",  \* minithread_exit:129, the queue was seen not empty
   "exitSet",    \* minithread_exit:131, to_run is chosen
   "exitSwitch", \* minithread_exit:134, runningThread is already to_run
   "gone"}       \* switched away from for the last time

Faults == {"none",
           "nullSwitch",   \* switched to the stack of the thread NULL
           "lostContext",  \* saved a context over another thread's
           "freedStack",   \* switched to a stack that was freed
           "sharedFinished"} \* two threads clean up one queue of finished threads

TypeOK ==
  /\ runningThread \in Threads \cup {NULL}
  /\ cpu \in Threads
  /\ interrupt_level \in {"ENABLED", "DISABLED"}
  /\ multiqueue \in [Levels -> Seq(Threads)]
  /\ level \in [Threads -> Levels]
  /\ quantaRemaining \in Nat
  /\ pc \in [Threads -> Places]
  /\ previousLevel \in [Threads -> {"ENABLED", "DISABLED"}]
  /\ count \in [Sems -> Int]
  /\ waitQueue \in [Sems -> Seq(Threads)]
  /\ finished \in Seq(Threads \cup {Idle})
  /\ oldThreads \in [Threads -> Seq(Threads \cup {Idle})]
  /\ to_run \in [Threads -> Threads \cup {NULL}]
  /\ freed \subseteq Threads \cup {Idle}
  /\ fault \in Faults

(***************************************************************************)
(* multilevel_queue.c                                                      *)
(***************************************************************************)
FaultyEmptyForgetsLast(q) == \A l \in 0 .. MaxLevel - 1 : q[l] = <<>>

Empty(q) == \A l \in Levels : q[l] = <<>>

(* multilevel_queue_dequeue(q, start) takes from level l: the first level  *)
(* that is not empty, searching up from start and wrapping around.         *)
TakesFrom(q, start, l) ==
  /\ q[l] # <<>>
  /\ \A k \in Levels : q[k] # <<>> =>
       (l - start) % (MaxLevel + 1) <= (k - start) % (MaxLevel + 1)

Without(q, l) == [q EXCEPT ![l] = Tail(@)]

FaultyEnqueueInFront(q, l, t) == [q EXCEPT ![l] = <<t>> \o @]

Enqueue(q, l, t) == [q EXCEPT ![l] = Append(@, t)]

(***************************************************************************)
(* minithread_switch resumes the context saved for thread t and sets       *)
(* interrupt_level to ENABLED (machineprimitives_x86_64_asm.S:26).         *)
(***************************************************************************)
minithread_switch(t) ==
  /\ cpu' = t
  /\ interrupt_level' = "ENABLED"
  /\ fault' = IF t \in freed THEN "freedStack" ELSE fault

(* Loading runningThread->stack_top when runningThread is NULL.            *)
NullSwitch ==
  /\ runningThread' = NULL
  /\ fault' = "nullSwitch"
  /\ UNCHANGED <<cpu, multiqueue, interrupt_level>>

(* The thread t executes and is at place p.                                *)
At(t, p) == /\ fault = "none"
            /\ cpu = t
            /\ pc[t] = p

Goto(t, p) == pc' = [pc EXCEPT ![t] = p]

(***************************************************************************)
(* minithread_stop, called by semaphore_P once the caller is in the wait   *)
(* queue.  With no ready thread it enables interrupts and spins on the     *)
(* caller's own stack until it sees the multilevel queue not empty.        *)
(***************************************************************************)
SwitchToReady(t) ==
  \E start, l \in Levels :
    /\ TakesFrom(multiqueue, start, l)
    /\ multiqueue' = Without(multiqueue, l)
    /\ runningThread' = Head(multiqueue[l])
    /\ minithread_switch(Head(multiqueue[l]))
    /\ Goto(t, "blocked")

FaultyStopStaysDisabled(t) ==
  \/ SwitchToReady(t)
  \/ /\ Empty(multiqueue)
     /\ interrupt_level' = "DISABLED"
     /\ Goto(t, "spin")
     /\ UNCHANGED <<runningThread, cpu, multiqueue, fault>>

minithread_stop(t) ==
  \/ SwitchToReady(t)
  \/ /\ Empty(multiqueue)
     /\ interrupt_level' = "ENABLED"
     /\ Goto(t, "spin")
     /\ UNCHANGED <<runningThread, cpu, multiqueue, fault>>

StopSeesReady(t) ==
  /\ At(t, "spin")
  /\ ~Empty(multiqueue)
  /\ Goto(t, "found")
  /\ UNCHANGED <<schedVars, semVars, exitVars, fault>>

(* The queue is read again after interrupts were enabled: it may have been *)
(* emptied since, and then to_run is NULL.                                 *)
StopTakes(t) ==
  /\ At(t, "found")
  /\ \/ SwitchToReady(t)
     \/ Empty(multiqueue) /\ NullSwitch /\ UNCHANGED pc
  /\ UNCHANGED <<level, quantaRemaining, semVars, exitVars>>

(***************************************************************************)
(* synch.c                                                                 *)
(***************************************************************************)
FaultyJoinInFront(s) ==
  waitQueue' = [waitQueue EXCEPT ![s] = <<runningThread>> \o @]

JoinWaitQueue(s) ==
  waitQueue' = [waitQueue EXCEPT ![s] = Append(@, runningThread)]

semaphore_P(t, s) ==
  /\ At(t, "user")
  /\ count' = [count EXCEPT ![s] = @ - 1]
  /\ \/ /\ count[s] > 0
        /\ UNCHANGED <<schedVars, pc, waitQueue, previousLevel, fault>>
     \/ /\ count[s] <= 0
        /\ JoinWaitQueue(s)
        /\ previousLevel' = [previousLevel EXCEPT ![t] = interrupt_level]
        /\ minithread_stop(t)
        /\ UNCHANGED <<level, quantaRemaining>>
  /\ UNCHANGED exitVars

(* The end of semaphore_P once the blocked thread runs again.              *)
ReturnFromP(t) ==
  /\ At(t, "blocked")
  /\ interrupt_level' = previousLevel[t]
  /\ Goto(t, "user")
  /\ UNCHANGED <<runningThread, cpu, multiqueue, level, quantaRemaining,
                 semVars, exitVars, fault>>

FaultyWokenNotLast(s) ==
  IF count[s] < -1 THEN Enqueue(multiqueue, 0, Head(waitQueue[s]))
                   ELSE multiqueue

FaultyWokenYoungest(s) ==
  IF count[s] < 0
    THEN Enqueue(multiqueue, 0, waitQueue[s][Len(waitQueue[s])])
    ELSE multiqueue

(* What semaphore_V(s) leaves in multiqueue, and does to the semaphore:    *)
(* minithread_start puts the thread that waited longest at level 0.        *)
Woken(s) == IF count[s] < 0
              THEN Enqueue(multiqueue, 0, Head(waitQueue[s]))
              ELSE multiqueue

FaultyVOffByOne(s) ==
  /\ count' = [count EXCEPT ![s] = @ + 1]
  /\ waitQueue' = [waitQueue EXCEPT ![s] = IF count[s] < -1 THEN Tail(@) ELSE @]
  /\ UNCHANGED previousLevel

VEffect(s) ==
  /\ count' = [count EXCEPT ![s] = @ + 1]
  /\ waitQueue' = [waitQueue EXCEPT ![s] = IF count[s] < 0 THEN Tail(@) ELSE @]
  /\ UNCHANGED previousLevel

semaphore_V(t, s) ==
  /\ At(t, "user")
  /\ count[s] < MaxCount
  /\ multiqueue' = Woken(s)
  /\ VEffect(s)
  /\ UNCHANGED <<runningThread, cpu, interrupt_level, level, quantaRemaining,
                 pc, exitVars, fault>>

(* A network, disk or terminal interrupt whose handler Vs s.               *)
Interrupt(s) ==
  /\ fault = "none"
  /\ interrupt_level = "ENABLED"
  /\ count[s] < MaxCount
  /\ multiqueue' = Woken(s)
  /\ VEffect(s)
  /\ UNCHANGED <<runningThread, cpu, interrupt_level, level, quantaRemaining,
                 pc, exitVars, fault>>

(***************************************************************************)
(* minithread_yield.  With no other ready thread it returns at once, with  *)
(* interrupts left DISABLED (minithread.c:233-236).                        *)
(***************************************************************************)
minithread_yield(t) ==
  /\ At(t, "user")
  /\ \/ \E start, l \in Levels :
          /\ TakesFrom(multiqueue, start, l)
          /\ multiqueue' = Enqueue(Without(multiqueue, l), level[t], t)
          /\ runningThread' = Head(multiqueue[l])
          /\ minithread_switch(Head(multiqueue[l]))
     \/ /\ Empty(multiqueue)
        /\ interrupt_level' = "DISABLED"
        /\ UNCHANGED <<runningThread, cpu, multiqueue, fault>>
  /\ UNCHANGED <<level, quantaRemaining, pc, semVars, exitVars>>

(***************************************************************************)
(* clock_handler.  callAlarms may V one semaphore (s), or none (NULL): an  *)
(* alarm that fires along with others is an Interrupt before the tick.     *)
(* start is the random level of get_priority_of_thread.  The handler saves *)
(* the processor's context as that of runningThread.                       *)
(***************************************************************************)
Alarms(s) == IF s = NULL THEN UNCHANGED semVars
                         ELSE count[s] < MaxCount /\ VEffect(s)

AfterAlarms(s) == IF s = NULL THEN multiqueue ELSE Woken(s)

TickOnly(s) ==
  /\ \/ quantaRemaining > 1 /\ quantaRemaining' = quantaRemaining - 1
     \/ /\ quantaRemaining <= 1
        /\ Empty(AfterAlarms(s))
        /\ quantaRemaining' = 0
  /\ multiqueue' = AfterAlarms(s)
  /\ UNCHANGED <<runningThread, cpu, interrupt_level, level, fault>>

FaultyNextLevelUncapped(t) == level[t] + 1

NextLevel(t) == IF level[t] < MaxLevel THEN level[t] + 1 ELSE level[t]

Preempt(s, start) ==
  /\ quantaRemaining <= 1
  /\ \E l \in Levels :
       LET q    == AfterAlarms(s)
           next == Head(q[l])
           old  == runningThread
       IN  /\ TakesFrom(q, start, l)
           /\ level' = [level EXCEPT ![old] = NextLevel(old)]
           /\ quantaRemaining' = quantaAssignments[level'[next]]
           /\ multiqueue' = Enqueue(Without(q, l), NextLevel(old), old)
           /\ runningThread' = next
           /\ cpu' = next
           /\ interrupt_level' = "ENABLED"
           /\ fault' = CASE cpu # old                  -> "lostContext"
                         [] cpu = old /\ next \in freed -> "freedStack"
                         [] OTHER                       -> fault

clock_handler(s, start) ==
  /\ fault = "none"
  /\ interrupt_level = "ENABLED"
  /\ Alarms(s)
  /\ TickOnly(s) \/ Preempt(s, start)
  /\ UNCHANGED <<pc, exitVars>>

(***************************************************************************)
(* minithread_fork (interrupts are not disabled; u is the new thread).     *)
(***************************************************************************)
minithread_fork(t, u) ==
  /\ At(t, "user")
  /\ pc[u] = "unborn"
  /\ Goto(u, "user")
  /\ multiqueue' = Enqueue(multiqueue, 0, u)
  /\ UNCHANGED <<runningThread, cpu, interrupt_level, level, quantaRemaining,
                 semVars, exitVars, fault>>

(***************************************************************************)
(* minithread_exit, called by minithread_root when the program of a thread *)
(* returns.  Nothing in it disables interrupts.                            *)
(***************************************************************************)
ExitAppend(t) ==
  /\ \/ At(t, "user") /\ t \in Exiters
     \/ At(t, "cleanup") /\ oldThreads[t] = <<>>
  /\ finished' = Append(finished, t)
  /\ Goto(t, "exitCheck")
  /\ UNCHANGED <<schedVars, semVars, oldThreads, to_run, freed, fault>>

ExitCheck(t) ==
  /\ At(t, "exitCheck")
  /\ \/ Len(finished) <= CleanupLength /\ Goto(t, "exitTake")
     \/ Len(finished) > CleanupLength /\ Goto(t, "exitOld")
  /\ UNCHANGED <<schedVars, semVars, exitVars, fault>>

(* Its local oldThreads becomes the queue of finished threads.  A thread   *)
(* that was preempted before line 122 has the same queue, and both would   *)
(* empty and free it.                                                      *)
ExitOld(t) ==
  /\ At(t, "exitOld")
  /\ \/ /\ \A u \in Threads : pc[u] # "exitSwap"
        /\ Goto(t, "exitSwap")
        /\ UNCHANGED fault
     \/ /\ \E u \in Threads : pc[u] = "exitSwap"
        /\ fault' = "sharedFinished"
        /\ UNCHANGED pc
  /\ UNCHANGED <<schedVars, semVars, exitVars>>

(* A new queue, and a cleanup thread for the old one.                      *)
ExitSwap(t) ==
  /\ At(t, "exitSwap")
  /\ \E c \in Cleaners :
       /\ pc[c] = "unborn"
       /\ pc' = [pc EXCEPT ![t] = "exitTake", ![c] = "cleanup"]
       /\ oldThreads' = [oldThreads EXCEPT ![c] = finished]
       /\ multiqueue' = Enqueue(multiqueue, 0, c)
  /\ finished' = <<>>
  /\ UNCHANGED <<runningThread, cpu, interrupt_level, level, quantaRemaining,
                 semVars, to_run, freed, fault>>

(* The dequeue from level start into the local to_run.                     *)
ExitDequeues(t, start) ==
  \E l \in Levels :
    /\ TakesFrom(multiqueue, start, l)
    /\ to_run' = [to_run EXCEPT ![t] = Head(multiqueue[l])]
    /\ multiqueue' = Without(multiqueue, l)
    /\ Goto(t, "exitSet")
    /\ UNCHANGED <<runningThread, cpu, interrupt_level, fault>>

ExitTake(t) ==
  /\ At(t, "exitTake")
  /\ \/ \E start \in Levels : ExitDequeues(t, start)
     \/ /\ Empty(multiqueue)
        /\ Goto(t, "exitSpin")
        /\ UNCHANGED <<runningThread, cpu, interrupt_level, multiqueue,
                       to_run, fault>>
  /\ UNCHANGED <<level, quantaRemaining, semVars, finished, oldThreads, freed>>

ExitSeesReady(t) ==
  /\ At(t, "exitSpin")
  /\ ~Empty(multiqueue)
  /\ Goto(t, "exitFound")
  /\ UNCHANGED <<schedVars, semVars, exitVars, fault>>

ExitTakesAgain(t) ==
  /\ At(t, "exitFound")
  /\ \/ ExitDequeues(t, 0)
     \/ Empty(multiqueue) /\ NullSwitch /\ UNCHANGED <<pc, to_run>>
  /\ UNCHANGED <<level, quantaRemaining, semVars, finished, oldThreads, freed>>

FaultyExitKeepsRunning(t) ==
  /\ At(t, "exitSet")
  /\ Goto(t, "exitSwitch")
  /\ UNCHANGED <<schedVars, semVars, exitVars, fault>>

ExitSetRunning(t) ==
  /\ At(t, "exitSet")
  /\ runningThread' = to_run[t]
  /\ Goto(t, "exitSwitch")
  /\ UNCHANGED <<cpu, interrupt_level, multiqueue, level, quantaRemaining,
                 semVars, exitVars, fault>>

FaultyExitRequeues(t) ==
  /\ At(t, "exitSwitch")
  /\ minithread_switch(to_run[t])
  /\ Goto(t, "gone")
  /\ multiqueue' = Enqueue(multiqueue, level[t], t)
  /\ UNCHANGED <<runningThread, level, quantaRemaining, semVars, exitVars>>

ExitSwitch(t) ==
  /\ At(t, "exitSwitch")
  /\ minithread_switch(to_run[t])
  /\ Goto(t, "gone")
  /\ UNCHANGED <<runningThread, multiqueue, level, quantaRemaining, semVars,
                 exitVars>>

(* One turn of the loop of minithread_cleanup.                             *)
minithread_cleanup(t) ==
  /\ At(t, "cleanup")
  /\ oldThreads[t] # <<>>
  /\ freed' = freed \cup {Head(oldThreads[t])}
  /\ oldThreads' = [oldThreads EXCEPT ![t] = Tail(@)]
  /\ UNCHANGED <<schedVars, pc, semVars, finished, to_run, fault>>

(***************************************************************************)
(* minithread_system_initialize ends by switching from the process's first *)
(* stack, kept in idleThread, to the main thread.  idleThread is put among *)
(* the finished threads.                                                   *)
(***************************************************************************)
Init ==
  /\ runningThread = Main
  /\ cpu = Main
  /\ interrupt_level = "ENABLED"
  /\ multiqueue = [l \in Levels |-> <<>>]
  /\ level = [t \in Threads |-> 0]
  /\ quantaRemaining = 0
  /\ pc = [t \in Threads |-> IF t = Main THEN "user" ELSE "unborn"]
  /\ previousLevel = [t \in Threads |-> "ENABLED"]
  /\ count = InitCount
  /\ waitQueue = [s \in Sems |-> <<>>]
  /\ finished = <<Idle>>
  /\ oldThreads = [t \in Threads |-> <<>>]
  /\ to_run = [t \in Threads |-> NULL]
  /\ freed = {}
  /\ fault = "none"

(* The calls a program makes.                                              *)
Call(t) ==
  \/ \E s \in Sems : semaphore_P(t, s) \/ semaphore_V(t, s)
  \/ t \in Yielders /\ minithread_yield(t)
  \/ \E u \in Threads \ Cleaners : minithread_fork(t, u)
  \/ ExitAppend(t)

(* The code of the package the thread is already inside of.                *)
Continue(t) ==
  \/ StopSeesReady(t) \/ StopTakes(t) \/ ReturnFromP(t)
  \/ ExitCheck(t) \/ ExitOld(t) \/ ExitSwap(t) \/ ExitTake(t)
  \/ ExitSeesReady(t) \/ ExitTakesAgain(t)
  \/ ExitSetRunning(t) \/ ExitSwitch(t)
  \/ minithread_cleanup(t)

(* After a fault the process is dead.                                      *)
Dead == fault # "none" /\ UNCHANGED vars

Next ==
  \/ \E t \in Threads : Call(t) \/ Continue(t)
  \/ \E s \in InterruptSems : Interrupt(s)
  \/ \E s \in InterruptSems \cup {NULL}, start \in Levels :
       clock_handler(s, start)
  \/ Dead

Spec == Init /\ [][Next]_vars

(***************************************************************************)
(* Fairness.  A thread that gets the processor again and again gets        *)
(* through the few instructions of the package it is inside of: ticks are  *)
(* QUANTA of processor time apart, so they cannot for ever fall in between.*)
(* Ticks keep coming, and get_priority_of_thread draws every level with    *)
(* positive probability independently of the state, so with probability    *)
(* one the ticks that preempt draw each level again and again.  Nothing is *)
(* assumed of the programs or of the other interrupts.                     *)
(***************************************************************************)
Fairness ==
  /\ \A t \in Threads : SF_vars(Continue(t))
  /\ WF_vars(clock_handler(NULL, 0) /\ TickOnly(NULL))
  /\ \A start \in Levels :
       SF_vars(clock_handler(NULL, start) /\ Preempt(NULL, start))

FairSpec == Spec /\ Fairness

(***************************************************************************)
(* Correctness                                                             *)
(***************************************************************************)
InP(t) == pc[t] \in {"blocked", "spin", "found"}

PlacesIn(queues, t) ==
  UNION {{<<k, i>> : i \in {j \in DOMAIN queues[k] : queues[k][j] = t}} :
           k \in DOMAIN queues}

Waits(t) == PlacesIn(waitQueue, t) # {}

HeldBy(t) == {e \in Threads : pc[e] \in {"exitSet", "exitSwitch"} /\ to_run[e] = t}

References(t) ==
  Cardinality(PlacesIn(multiqueue, t)) + Cardinality(PlacesIn(waitQueue, t))
  + Cardinality(HeldBy(t)) + (IF cpu = t THEN 1 ELSE 0)

(* The length of a wait queue is what the sign of the count says: the      *)
(* dequeue in semaphore_V always finds a thread, and no blocked thread is  *)
(* forgotten by a count that is not negative (synch.c:71-75, 94-100).      *)
CountMatchesQueue ==
  \A s \in Sems : Len(waitQueue[s]) = IF count[s] < 0 THEN -count[s] ELSE 0

(* Every live thread is referred to from exactly one place: the processor, *)
(* one slot of one ready or wait queue, or the to_run of an exiting thread.*)
(* One that idles in minithread_stop has exactly one reference more, since *)
(* it is in a wait queue or was woken while it still has the processor or  *)
(* was preempted.  So none is lost, and none is scheduled twice.           *)
NoThreadLost ==
  fault = "none" =>
    \A t \in Threads :
      References(t) = CASE pc[t] \in {"unborn", "gone"} -> 0
                        [] pc[t] \in {"spin", "found"}  -> 2
                        [] OTHER                        -> 1

(* A thread executes past its minithread_stop, or its own program, only    *)
(* when it is in no wait queue: P returns only after the V that pays it.   *)
NoReturnBeforeV ==
  fault = "none" /\ pc[cpu] \notin {"spin", "found"} => ~Waits(cpu)

(* A thread that idles in minithread_stop takes interrupts, even if its P  *)
(* was called with interrupts disabled: the V it waits for can arrive.     *)
IdleTakesInterrupts ==
  fault = "none" /\ pc[cpu] \in {"spin", "found"} => interrupt_level = "ENABLED"

(* minithread_self answers who runs, except in minithread_exit:132-134.    *)
SelfIsCaller ==
  fault = "none" /\ pc[cpu] # "exitSwitch" => runningThread = cpu

(* Between two calls a program that never disabled interrupts has them     *)
(* enabled: every call restores the level it found (interrupts.h:30-36).   *)
LevelRestored ==
  fault = "none" /\ pc[cpu] = "user" => interrupt_level = "ENABLED"

(* A switch always has a thread to switch to (minithread.c:204).           *)
NextThreadExists == fault # "nullSwitch"

(* minithread_switch saves the caller's state where old_thread_sp points   *)
(* and resumes the new thread from where it left off                       *)
(* (machineprimitives.h:81-86): a context is never saved over another's.   *)
ContextSaved == fault # "lostContext"

(* A stack is not in use when it is freed (machineprimitives.h:43-44).     *)
FreedOnlyWhenGone == \A t \in freed \cap Threads : pc[t] = "gone"

(* A thread that was woken (it waits nowhere) returns from its P, unless   *)
(* the process dies first.                                                 *)
WokenThreadReturns ==
  \A t \in Threads :
    InP(t) /\ ~Waits(t) ~> pc[t] = "user" \/ fault # "none"

(* A thread that was forked or preempted runs again.                       *)
ReadyThreadRuns ==
  \A t \in Threads :
    PlacesIn(multiqueue, t) # {} ~> cpu = t \/ fault # "none"

(***************************************************************************)
(* The semaphores of this scheduler implement those of Semaphore.tla.      *)
(***************************************************************************)
AbstractSemaphores == INSTANCE Semaphore WITH
  value   <- [s \in Sems |-> IF count[s] > 0 THEN count[s] ELSE 0],
  waiting <- waitQueue,
  inP     <- {t \in Threads : InP(t)}

ImplementsSemaphores == AbstractSemaphores!Spec
=============================================================================
