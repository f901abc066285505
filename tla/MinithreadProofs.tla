-------------------------- MODULE MinithreadProofs --------------------------
(***************************************************************************)
(* Theorems about Minithread, for every set of threads and semaphores, any *)
(* number of levels and any quanta.                                        *)
(***************************************************************************)
EXTENDS Minithread, FiniteSetTheorems, FunctionTheorems, SequenceTheorems,
        TLAPS

ReadyQueues == [Levels -> Seq(Threads)]

(* The conjuncts TypeOK and CountMatchesQueue need to be inductive: as     *)
(* long as the process lives the running thread is a thread, and an        *)
(* exiting thread past its dequeue has chosen one.                         *)
RunningIsThread == fault = "none" => runningThread \in Threads

ExitHasChosen ==
  \A t \in Threads : pc[t] \in {"exitSet", "exitSwitch"} => to_run[t] \in Threads

IInv == TypeOK /\ CountMatchesQueue /\ RunningIsThread /\ ExitHasChosen

(* Enqueueing a thread keeps the multilevel queue a queue of threads.      *)
LEMMA EnqueueType ==
  ASSUME NEW q \in ReadyQueues, NEW l \in Levels, NEW t \in Threads
  PROVE  Enqueue(q, l, t) \in ReadyQueues
BY DEF Enqueue, ReadyQueues

(* Dequeueing from a level that is not empty yields a thread and leaves a  *)
(* queue of threads.                                                       *)
LEMMA DequeueType ==
  ASSUME NEW q \in ReadyQueues, NEW l \in Levels, q[l] # <<>>
  PROVE  /\ Head(q[l]) \in Threads
         /\ Without(q, l) \in ReadyQueues
<1>1. q[l] \in Seq(Threads)
  BY DEF ReadyQueues
<1>2. Head(q[l]) \in Threads /\ Tail(q[l]) \in Seq(Threads)
  BY <1>1
<1> QED
  BY <1>1, <1>2 DEF Without, ReadyQueues

(* A semaphore whose count is negative has a waiter to wake.               *)
LEMMA WaiterExists ==
  ASSUME TypeOK, CountMatchesQueue, NEW s \in Sems, count[s] < 0
  PROVE  /\ waitQueue[s] # <<>>
         /\ Head(waitQueue[s]) \in Threads
         /\ Tail(waitQueue[s]) \in Seq(Threads)
         /\ Len(Tail(waitQueue[s])) = Len(waitQueue[s]) - 1
<1>1. waitQueue[s] \in Seq(Threads) /\ count[s] \in Int
  BY DEF TypeOK
<1>2. Len(waitQueue[s]) = -count[s]
  BY DEF CountMatchesQueue
<1>3. waitQueue[s] # <<>>
  BY <1>1, <1>2
<1> QED
  BY <1>1, <1>3

(* Whoever Vs, the ready queue stays well typed.                           *)
LEMMA WokenType ==
  ASSUME TypeOK, CountMatchesQueue, NEW s \in Sems
  PROVE  Woken(s) \in ReadyQueues
<1>1. 0 \in Levels
  BY LevelsAssumption DEF Levels
<1>2. multiqueue \in ReadyQueues
  BY DEF TypeOK, ReadyQueues
<1>3. CASE count[s] < 0
  BY <1>1, <1>2, <1>3, WaiterExists, EnqueueType DEF Woken
<1>4. CASE ~(count[s] < 0)
  BY <1>2, <1>4 DEF Woken
<1> QED
  BY <1>3, <1>4

(* A V keeps the semaphores well typed and the counts right.               *)
LEMMA VKeepsSemaphores ==
  ASSUME TypeOK, CountMatchesQueue, NEW s \in Sems, VEffect(s)
  PROVE  /\ count' \in [Sems -> Int]
         /\ waitQueue' \in [Sems -> Seq(Threads)]
         /\ CountMatchesQueue'
<1>1. /\ count \in [Sems -> Int]
      /\ waitQueue \in [Sems -> Seq(Threads)]
  BY DEF TypeOK
<1>2. CASE count[s] < 0
  <2>1. waitQueue' = [waitQueue EXCEPT ![s] = Tail(@)]
    BY <1>2 DEF VEffect
  <2>2. Len(Tail(waitQueue[s])) = Len(waitQueue[s]) - 1
        /\ Tail(waitQueue[s]) \in Seq(Threads)
    BY <1>2, WaiterExists
  <2> QED
    BY <1>1, <1>2, <2>1, <2>2 DEF VEffect, CountMatchesQueue
<1>3. CASE ~(count[s] < 0)
  <2>1. waitQueue' = waitQueue
    BY <1>1, <1>3 DEF VEffect
  <2> QED
    BY <1>1, <1>3, <2>1 DEF VEffect, CountMatchesQueue
<1> QED
  BY <1>2, <1>3

(* The initial state satisfies the invariant.                              *)
LEMMA InitIInv == Init => IInv
<1> SUFFICES ASSUME Init PROVE IInv
  OBVIOUS
<1>1. TypeOK
  BY ThreadsAssumption, SemsAssumption, LevelsAssumption
     DEF Init, TypeOK, Levels, Places, Faults
<1>2. CountMatchesQueue
  BY SemsAssumption DEF Init, CountMatchesQueue
<1>3. RunningIsThread /\ ExitHasChosen
  BY ThreadsAssumption DEF Init, RunningIsThread, ExitHasChosen
<1> QED
  BY <1>1, <1>2, <1>3 DEF IInv

(* Switching to the first thread of a ready queue.                         *)
LEMMA SwitchToReadyType ==
  ASSUME TypeOK, NEW t \in Threads, SwitchToReady(t)
  PROVE  /\ multiqueue' \in ReadyQueues
         /\ runningThread' \in Threads
         /\ cpu' \in Threads
         /\ interrupt_level' = "ENABLED"
         /\ fault' \in Faults
         /\ pc' = [pc EXCEPT ![t] = "blocked"]
<1>1. PICK l \in Levels : /\ multiqueue[l] # <<>>
                          /\ multiqueue' = Without(multiqueue, l)
                          /\ runningThread' = Head(multiqueue[l])
                          /\ minithread_switch(Head(multiqueue[l]))
                          /\ pc' = [pc EXCEPT ![t] = "blocked"]
  BY DEF SwitchToReady, TakesFrom, Goto
<1>2. multiqueue \in ReadyQueues
  BY DEF TypeOK, ReadyQueues
<1>3. Head(multiqueue[l]) \in Threads /\ Without(multiqueue, l) \in ReadyQueues
  BY <1>1, <1>2, DequeueType
<1>4. fault \in Faults
  BY DEF TypeOK
<1> QED
  BY <1>1, <1>3, <1>4 DEF minithread_switch, Faults

(* The steps of semaphore_P, of its idle loop and of its return.           *)
LEMMA PKeepsIInv ==
  ASSUME IInv, NEW t \in Threads, NEW s \in Sems, semaphore_P(t, s)
  PROVE  IInv'
<1> USE DEF IInv
<1>1. runningThread \in Threads /\ fault = "none"
  BY DEF semaphore_P, At, RunningIsThread
<1>2. CASE count[s] > 0
  <2>1. /\ count' = [count EXCEPT ![s] = @ - 1]
        /\ UNCHANGED <<schedVars, pc, waitQueue, previousLevel, fault, exitVars>>
    BY <1>2, LevelsAssumption DEF semaphore_P, TypeOK
  <2>2. TypeOK'
    BY <2>1 DEF TypeOK, schedVars, exitVars
  <2>3. CountMatchesQueue'
    BY <1>2, <2>1 DEF TypeOK, CountMatchesQueue
  <2>4. RunningIsThread' /\ ExitHasChosen'
    BY <2>1 DEF RunningIsThread, ExitHasChosen, schedVars, exitVars
  <2> QED
    BY <2>2, <2>3, <2>4
<1>3. CASE ~(count[s] > 0)
  <2>1. /\ count' = [count EXCEPT ![s] = @ - 1]
        /\ waitQueue' = [waitQueue EXCEPT ![s] = Append(@, runningThread)]
        /\ previousLevel' = [previousLevel EXCEPT ![t] = interrupt_level]
        /\ minithread_stop(t)
        /\ UNCHANGED <<level, quantaRemaining, exitVars>>
    BY <1>3 DEF semaphore_P, JoinWaitQueue
  <2>2. count' \in [Sems -> Int] /\ waitQueue' \in [Sems -> Seq(Threads)]
    BY <1>1, <2>1 DEF TypeOK
  <2>3. CountMatchesQueue'
    <3> SUFFICES ASSUME NEW r \in Sems
                 PROVE  Len(waitQueue'[r]) =
                          IF count'[r] < 0 THEN -count'[r] ELSE 0
      BY DEF CountMatchesQueue
    <3>1. waitQueue[s] \in Seq(Threads) /\ count[s] \in Int
      BY DEF TypeOK
    <3>2. Len(waitQueue[s]) = -count[s]
      BY <1>3, <3>1 DEF CountMatchesQueue
    <3>3. Len(Append(waitQueue[s], runningThread)) = Len(waitQueue[s]) + 1
      BY <1>1, <3>1
    <3>4. CASE r = s
      BY <1>3, <2>1, <3>1, <3>2, <3>3, <3>4 DEF TypeOK
    <3>5. CASE r # s
      BY <2>1, <3>5 DEF TypeOK, CountMatchesQueue
    <3> QED
      BY <3>4, <3>5
  <2>4. /\ multiqueue' \in ReadyQueues
        /\ runningThread' \in Threads
        /\ cpu' \in Threads
        /\ interrupt_level' = "ENABLED"
        /\ fault' \in Faults
        /\ \E p \in {"blocked", "spin"} : pc' = [pc EXCEPT ![t] = p]
    <3>1. CASE SwitchToReady(t)
      BY <3>1, SwitchToReadyType
    <3>2. CASE ~SwitchToReady(t)
      BY <1>1, <2>1, <3>2 DEF minithread_stop, TypeOK, ReadyQueues, Goto
    <3> QED
      BY <3>1, <3>2
  <2>5. TypeOK'
    BY <2>1, <2>2, <2>4 DEF TypeOK, ReadyQueues, exitVars, Places
  <2>6. RunningIsThread' /\ ExitHasChosen'
    BY <2>1, <2>4 DEF RunningIsThread, ExitHasChosen, TypeOK, exitVars
  <2> QED
    BY <2>3, <2>5, <2>6
<1> QED
  BY <1>2, <1>3

(* The idle loop of minithread_stop ends, and the thread leaves P.         *)
LEMMA StopKeepsIInv ==
  ASSUME IInv, NEW t \in Threads,
         StopSeesReady(t) \/ StopTakes(t) \/ ReturnFromP(t)
  PROVE  IInv'
<1> USE DEF IInv
<1>1. CASE StopSeesReady(t)
  BY <1>1 DEF StopSeesReady, Goto, TypeOK, CountMatchesQueue, RunningIsThread,
     ExitHasChosen, schedVars, semVars, exitVars, Places
<1>2. CASE StopTakes(t)
  <2>1. UNCHANGED <<level, quantaRemaining, count, waitQueue, previousLevel,
                    exitVars>>
    BY <1>2 DEF StopTakes, semVars
  <2>2. CountMatchesQueue'
    BY <2>1 DEF CountMatchesQueue
  <2>3. CASE SwitchToReady(t)
    <3>1. TypeOK'
      BY <2>1, <2>3, SwitchToReadyType DEF TypeOK, ReadyQueues, exitVars, Places
    <3>2. RunningIsThread' /\ ExitHasChosen'
      BY <2>1, <2>3, SwitchToReadyType
         DEF RunningIsThread, ExitHasChosen, TypeOK, exitVars
    <3> QED
      BY <2>2, <3>1, <3>2
  <2>4. CASE NullSwitch /\ UNCHANGED pc
    BY <2>1, <2>2, <2>4 DEF NullSwitch, TypeOK, RunningIsThread, ExitHasChosen,
       exitVars, Faults
  <2> QED
    BY <1>2, <2>3, <2>4 DEF StopTakes
<1>3. CASE ReturnFromP(t)
  BY <1>3 DEF ReturnFromP, Goto, TypeOK, CountMatchesQueue, RunningIsThread,
     ExitHasChosen, semVars, exitVars, Places
<1> QED
  BY <1>1, <1>2, <1>3

(* A V by a thread or by an interrupt handler.                             *)
LEMMA VKeepsIInv ==
  ASSUME IInv, NEW s \in Sems,
         Interrupt(s) \/ \E t \in Threads : semaphore_V(t, s)
  PROVE  IInv'
<1> USE DEF IInv
<1>1. /\ multiqueue' = Woken(s)
      /\ VEffect(s)
      /\ UNCHANGED <<runningThread, cpu, interrupt_level, level,
                     quantaRemaining, pc, exitVars, fault>>
  BY DEF Interrupt, semaphore_V
<1>2. multiqueue' \in ReadyQueues
  BY <1>1, WokenType
<1>3. /\ count' \in [Sems -> Int]
      /\ waitQueue' \in [Sems -> Seq(Threads)]
      /\ CountMatchesQueue'
  BY <1>1, VKeepsSemaphores
<1>4. TypeOK'
  BY <1>1, <1>2, <1>3 DEF TypeOK, ReadyQueues, VEffect, exitVars
<1>5. RunningIsThread' /\ ExitHasChosen'
  BY <1>1 DEF RunningIsThread, ExitHasChosen, exitVars
<1> QED
  BY <1>3, <1>4, <1>5

(* A voluntary yield.                                                      *)
LEMMA YieldKeepsIInv ==
  ASSUME IInv, NEW t \in Threads, minithread_yield(t)
  PROVE  IInv'
<1> USE DEF IInv
<1>1. UNCHANGED <<level, quantaRemaining, pc, count, waitQueue, previousLevel,
                  exitVars>>
  BY DEF minithread_yield, semVars
<1>2. CountMatchesQueue'
  BY <1>1 DEF CountMatchesQueue
<1>3. CASE Empty(multiqueue) /\ UNCHANGED <<runningThread, cpu, multiqueue, fault>>
           /\ interrupt_level' = "DISABLED"
  BY <1>1, <1>2, <1>3 DEF TypeOK, RunningIsThread, ExitHasChosen, exitVars
<1>4. ASSUME NEW l \in Levels,
             multiqueue[l] # <<>>,
             multiqueue' = Enqueue(Without(multiqueue, l), level[t], t),
             runningThread' = Head(multiqueue[l]),
             minithread_switch(Head(multiqueue[l]))
      PROVE  IInv'
  <2>1. multiqueue \in ReadyQueues /\ level[t] \in Levels
    BY DEF TypeOK, ReadyQueues
  <2>2. Head(multiqueue[l]) \in Threads /\ Without(multiqueue, l) \in ReadyQueues
    BY <1>4, <2>1, DequeueType
  <2>3. multiqueue' \in ReadyQueues
    BY <1>4, <2>1, <2>2, EnqueueType
  <2>4. TypeOK'
    BY <1>1, <1>4, <2>2, <2>3
       DEF TypeOK, ReadyQueues, minithread_switch, exitVars, Faults
  <2>5. RunningIsThread' /\ ExitHasChosen'
    BY <1>1, <1>4, <2>2 DEF RunningIsThread, ExitHasChosen, exitVars
  <2> QED
    BY <1>2, <2>4, <2>5
<1> QED
  BY <1>3, <1>4 DEF minithread_yield, TakesFrom

(* A tick: alarms first, then maybe a preemption.                          *)
LEMMA ClockKeepsIInv ==
  ASSUME IInv, NEW s \in InterruptSems \cup {NULL}, NEW start \in Levels,
         clock_handler(s, start)
  PROVE  IInv'
<1> USE DEF IInv
<1>1. /\ fault = "none"
      /\ UNCHANGED <<pc, exitVars>>
      /\ Alarms(s)
      /\ runningThread \in Threads
  BY DEF clock_handler, RunningIsThread
<1>2. /\ count' \in [Sems -> Int]
      /\ waitQueue' \in [Sems -> Seq(Threads)]
      /\ previousLevel' = previousLevel
      /\ CountMatchesQueue'
      /\ AfterAlarms(s) \in ReadyQueues
  <2>1. CASE s = NULL
    BY <1>1, <2>1
       DEF Alarms, AfterAlarms, semVars, TypeOK, CountMatchesQueue, ReadyQueues
  <2>2. CASE s # NULL
    <3>1. s \in Sems /\ VEffect(s)
      BY <1>1, <2>2, SemsAssumption DEF Alarms
    <3>2. Woken(s) \in ReadyQueues
      BY <3>1, WokenType
    <3> QED
      BY <2>2, <3>1, <3>2, VKeepsSemaphores DEF AfterAlarms, VEffect
  <2> QED
    BY <2>1, <2>2
<1>3. runningThread' \in Threads => RunningIsThread' /\ ExitHasChosen'
  BY <1>1 DEF RunningIsThread, ExitHasChosen, exitVars
<1>4. CASE TickOnly(s)
  <2>1. TypeOK'
    BY <1>1, <1>2, <1>4 DEF TickOnly, TypeOK, ReadyQueues, exitVars
  <2> QED
    BY <1>1, <1>2, <1>3, <1>4, <2>1 DEF TickOnly
<1>5. CASE Preempt(s, start)
  <2> DEFINE q == AfterAlarms(s)
  <2>1. PICK l \in Levels :
          /\ q[l] # <<>>
          /\ level' = [level EXCEPT ![runningThread] = NextLevel(runningThread)]
          /\ quantaRemaining' = quantaAssignments[level'[Head(q[l])]]
          /\ multiqueue' = Enqueue(Without(q, l), NextLevel(runningThread),
                                   runningThread)
          /\ runningThread' = Head(q[l])
          /\ cpu' = Head(q[l])
          /\ interrupt_level' = "ENABLED"
          /\ fault' \in {"lostContext", "freedStack", fault}
    BY <1>5 DEF Preempt, TakesFrom
  <2>2. Head(q[l]) \in Threads /\ Without(q, l) \in ReadyQueues
    BY <1>2, <2>1, DequeueType
  <2>3. NextLevel(runningThread) \in Levels
    <3>1. level[runningThread] \in Levels
      BY <1>1 DEF TypeOK
    <3>2. MaxLevel \in Nat
      BY LevelsAssumption
    <3> QED
      BY <3>1, <3>2 DEF NextLevel, Levels
  <2>4. multiqueue' \in ReadyQueues
    BY <1>1, <2>1, <2>2, <2>3, EnqueueType
  <2>5. level' \in [Threads -> Levels]
    BY <2>1, <2>3 DEF TypeOK
  <2>6. quantaRemaining' \in Nat
    BY <2>1, <2>2, <2>5, LevelsAssumption
  <2>7. TypeOK'
    BY <1>1, <1>2, <2>1, <2>2, <2>4, <2>5, <2>6
       DEF TypeOK, ReadyQueues, exitVars, Faults
  <2> QED
    BY <1>2, <1>3, <2>1, <2>2, <2>7
<1> QED
  BY <1>4, <1>5 DEF clock_handler

(* A new thread joins the ready queue.                                     *)
LEMMA ForkKeepsIInv ==
  ASSUME IInv, NEW t \in Threads, NEW u \in Threads, minithread_fork(t, u)
  PROVE  IInv'
<1> USE DEF IInv
<1>1. multiqueue \in ReadyQueues /\ 0 \in Levels
  BY LevelsAssumption DEF TypeOK, ReadyQueues, Levels
<1>2. multiqueue' \in ReadyQueues
  BY <1>1, EnqueueType DEF minithread_fork
<1> QED
  BY <1>2 DEF minithread_fork, Goto, TypeOK, CountMatchesQueue, RunningIsThread,
     ExitHasChosen, semVars, exitVars, ReadyQueues, Places

(* Appending to, and handing over, the queue of finished threads.          *)
LEMMA ExitAppendKeepsIInv ==
  ASSUME IInv, NEW t \in Threads, ExitAppend(t)
  PROVE  IInv'
BY DEF IInv, ExitAppend, Goto, TypeOK, CountMatchesQueue, RunningIsThread,
   ExitHasChosen, schedVars, semVars, Places

(* minithread_exit starts a cleanup thread when enough have finished.      *)
LEMMA ExitSwapKeepsIInv ==
  ASSUME IInv, NEW t \in Threads, ExitSwap(t)
  PROVE  IInv'
<1> USE DEF IInv
<1>1. UNCHANGED <<runningThread, cpu, interrupt_level, level, quantaRemaining,
                  count, waitQueue, previousLevel, to_run, freed, fault>>
  BY DEF ExitSwap, semVars
<1>2. PICK c \in Cleaners :
         /\ pc' = [pc EXCEPT ![t] = "exitTake", ![c] = "cleanup"]
         /\ oldThreads' = [oldThreads EXCEPT ![c] = finished]
         /\ multiqueue' = Enqueue(multiqueue, 0, c)
         /\ finished' = <<>>
  BY DEF ExitSwap
<1>3. c \in Threads /\ multiqueue \in ReadyQueues /\ 0 \in Levels
  BY ThreadsAssumption, LevelsAssumption DEF TypeOK, ReadyQueues, Levels
<1>4. multiqueue' \in ReadyQueues
  BY <1>2, <1>3, EnqueueType
<1>5. TypeOK'
  <2>1. oldThreads' \in [Threads -> Seq(Threads \cup {Idle})]
    BY <1>2, <1>3 DEF TypeOK
  <2>2. finished' \in Seq(Threads \cup {Idle})
    BY <1>2
  <2>3. pc' \in [Threads -> Places]
    BY <1>2, <1>3 DEF TypeOK, Places
  <2> QED
    BY <1>1, <1>4, <2>1, <2>2, <2>3 DEF TypeOK, ReadyQueues
<1>6. CountMatchesQueue' /\ RunningIsThread'
  BY <1>1 DEF CountMatchesQueue, RunningIsThread
<1>7. ExitHasChosen'
  BY <1>1, <1>2, <1>3 DEF ExitHasChosen, TypeOK
<1> QED
  BY <1>5, <1>6, <1>7

(* The test before it, and the reading of the queue.                       *)
LEMMA ExitCheckKeepsIInv ==
  ASSUME IInv, NEW t \in Threads, ExitCheck(t) \/ ExitOld(t)
  PROVE  IInv'
<1>1. CASE ExitCheck(t)
  BY <1>1 DEF ExitCheck, Goto, IInv, TypeOK, CountMatchesQueue, RunningIsThread,
     ExitHasChosen, schedVars, semVars, exitVars, Places
<1>2. CASE ExitOld(t)
  BY <1>2 DEF ExitOld, At, Goto, IInv, TypeOK, CountMatchesQueue, RunningIsThread,
     ExitHasChosen, schedVars, semVars, exitVars, Places, Faults
<1> QED
  BY <1>1, <1>2

(* The dequeues of minithread_exit.                                        *)
LEMMA ExitDequeueKeepsIInv ==
  ASSUME IInv, NEW t \in Threads, ExitTake(t) \/ ExitTakesAgain(t)
  PROVE  IInv'
<1> USE DEF IInv
<1>1. UNCHANGED <<level, quantaRemaining, count, waitQueue, previousLevel,
                  finished, oldThreads, freed>>
  BY DEF ExitTake, ExitTakesAgain, semVars
<1>2. CountMatchesQueue'
  BY <1>1 DEF CountMatchesQueue
<1>3. ASSUME NEW start \in Levels, ExitDequeues(t, start)
      PROVE  IInv'
  <2>1. PICK l \in Levels :
          /\ multiqueue[l] # <<>>
          /\ to_run' = [to_run EXCEPT ![t] = Head(multiqueue[l])]
          /\ multiqueue' = Without(multiqueue, l)
          /\ pc' = [pc EXCEPT ![t] = "exitSet"]
          /\ UNCHANGED <<runningThread, cpu, interrupt_level, fault>>
    BY <1>3 DEF ExitDequeues, TakesFrom, Goto
  <2>2. multiqueue \in ReadyQueues
    BY DEF TypeOK, ReadyQueues
  <2>3. Head(multiqueue[l]) \in Threads /\ multiqueue' \in ReadyQueues
    BY <2>1, <2>2, DequeueType
  <2>4. TypeOK'
    BY <1>1, <2>1, <2>3 DEF TypeOK, ReadyQueues, Places
  <2>5. RunningIsThread' /\ ExitHasChosen'
    BY <2>1, <2>3 DEF RunningIsThread, ExitHasChosen, TypeOK
  <2> QED
    BY <1>2, <2>4, <2>5
<1>4. CASE /\ Goto(t, "exitSpin")
           /\ UNCHANGED <<runningThread, cpu, interrupt_level, multiqueue,
                          to_run, fault>>
  BY <1>1, <1>2, <1>4 DEF Goto, TypeOK, RunningIsThread, ExitHasChosen, Places
<1>5. CASE NullSwitch /\ UNCHANGED <<pc, to_run>>
  BY <1>1, <1>2, <1>5 DEF NullSwitch, TypeOK, RunningIsThread, ExitHasChosen,
     Faults
<1>6. 0 \in Levels
  BY LevelsAssumption DEF Levels
<1> QED
  BY <1>3, <1>4, <1>5, <1>6 DEF ExitTake, ExitTakesAgain

(* The last steps of minithread_exit, and the cleanup thread.              *)
LEMMA ExitEndKeepsIInv ==
  ASSUME IInv, NEW t \in Threads,
         ExitSeesReady(t) \/ ExitSetRunning(t) \/ ExitSwitch(t)
           \/ minithread_cleanup(t)
  PROVE  IInv'
<1> USE DEF IInv
<1>1. CASE ExitSeesReady(t)
  BY <1>1 DEF ExitSeesReady, Goto, TypeOK, CountMatchesQueue, RunningIsThread,
     ExitHasChosen, schedVars, semVars, exitVars, Places
<1>2. CASE ExitSetRunning(t)
  BY <1>2 DEF ExitSetRunning, At, Goto, TypeOK, CountMatchesQueue,
     RunningIsThread, ExitHasChosen, semVars, exitVars, Places
<1>3. CASE ExitSwitch(t)
  <2>1. to_run[t] \in Threads
    BY <1>3 DEF ExitSwitch, At, ExitHasChosen
  <2>2. TypeOK'
    BY <1>3, <2>1 DEF ExitSwitch, minithread_switch, Goto, TypeOK, semVars,
       exitVars, Places, Faults
  <2> QED
    BY <1>3, <2>2 DEF ExitSwitch, At, minithread_switch, Goto, TypeOK,
       CountMatchesQueue, RunningIsThread, ExitHasChosen, semVars, exitVars
<1>4. CASE minithread_cleanup(t)
  <2>1. oldThreads[t] \in Seq(Threads \cup {Idle}) /\ oldThreads[t] # <<>>
    BY <1>4 DEF minithread_cleanup, TypeOK
  <2>2. /\ Head(oldThreads[t]) \in Threads \cup {Idle}
        /\ Tail(oldThreads[t]) \in Seq(Threads \cup {Idle})
    BY <2>1
  <2> QED
    BY <1>4, <2>2 DEF minithread_cleanup, TypeOK, CountMatchesQueue,
       RunningIsThread, ExitHasChosen, schedVars, semVars
<1> QED
  BY <1>1, <1>2, <1>3, <1>4

(* Every step keeps the invariant.                                         *)
LEMMA NextKeepsIInv == IInv /\ [Next]_vars => IInv'
<1> SUFFICES ASSUME IInv, [Next]_vars PROVE IInv'
  OBVIOUS
<1>1. ASSUME NEW t \in Threads, Call(t) PROVE IInv'
  <2>1. CASE \E s \in Sems : semaphore_P(t, s)
    BY <2>1, PKeepsIInv
  <2>2. CASE \E s \in Sems : semaphore_V(t, s)
    BY <2>2, VKeepsIInv
  <2>3. CASE minithread_yield(t)
    BY <2>3, YieldKeepsIInv
  <2>4. CASE \E u \in Threads \ Cleaners : minithread_fork(t, u)
    BY <2>4, ForkKeepsIInv
  <2>5. CASE ExitAppend(t)
    BY <2>5, ExitAppendKeepsIInv
  <2> QED
    BY <1>1, <2>1, <2>2, <2>3, <2>4, <2>5 DEF Call
<1>2. ASSUME NEW t \in Threads, Continue(t) PROVE IInv'
  BY <1>2, StopKeepsIInv, ExitCheckKeepsIInv, ExitSwapKeepsIInv, ExitDequeueKeepsIInv,
     ExitEndKeepsIInv DEF Continue
<1>3. ASSUME NEW s \in InterruptSems, Interrupt(s) PROVE IInv'
  BY <1>3, VKeepsIInv, SemsAssumption
<1>4. ASSUME NEW s \in InterruptSems \cup {NULL}, NEW start \in Levels,
             clock_handler(s, start)
      PROVE  IInv'
  BY <1>4, ClockKeepsIInv
<1>5. CASE UNCHANGED vars
  BY <1>5 DEF vars, schedVars, semVars, exitVars, IInv, TypeOK,
     CountMatchesQueue, RunningIsThread, ExitHasChosen
<1> QED
  BY <1>1, <1>2, <1>3, <1>4, <1>5 DEF Next, Dead

(* The inductive invariant holds in every reachable state.                 *)
THEOREM InductiveInvariant == Spec => []IInv
<1>1. Init => IInv
  BY InitIInv
<1>2. IInv /\ [Next]_vars => IInv'
  BY NextKeepsIInv
<1> QED
  BY <1>1, <1>2, PTL DEF Spec

(* Types: in particular a running, exiting or woken thread is a control    *)
(* block of the program and never NULL, except after a fault.              *)
THEOREM TypeCorrect == Spec => []TypeOK
<1>1. IInv => TypeOK
  BY DEF IInv
<1> QED
  BY <1>1, InductiveInvariant, PTL

(* The sign of a semaphore's count always tells the length of its wait     *)
(* queue, whatever the interrupts, preemptions and exits.                  *)
THEOREM SemaphoreCounts == Spec => []CountMatchesQueue
<1>1. IInv => CountMatchesQueue
  BY DEF IInv
<1> QED
  BY <1>1, InductiveInvariant, PTL

(***************************************************************************)
(* How often a family of queues lists a thread.                            *)
(***************************************************************************)
Listed(q, t) == Cardinality(PlacesIn(q, t))

(* One if t is u: what a reference to u adds to those to t.                *)
Same(t, u) == IF t = u THEN 1 ELSE 0

(* A place of t in a family of queues.                                     *)
LEMMA PlaceIs ==
  ASSUME NEW D, NEW T, NEW q \in [D -> Seq(T)], NEW t, NEW x
  PROVE  x \in PlacesIn(q, t)
            <=> \E k \in D, i \in Nat : x = <<k, i>> /\ i \in DOMAIN q[k] /\ q[k][i] = t
<1>1. \A k \in D : DOMAIN q[k] \subseteq Nat
  OBVIOUS
<1> QED
  BY <1>1 DEF PlacesIn

(* <<k, i>> is such a place when t is the i-th of the k-th queue.          *)
LEMMA PairIs ==
  ASSUME NEW D, NEW T, NEW q \in [D -> Seq(T)], NEW t, NEW k \in D, NEW i
  PROVE  <<k, i>> \in PlacesIn(q, t) <=> i \in DOMAIN q[k] /\ q[k][i] = t
<1>1. ASSUME <<k, i>> \in PlacesIn(q, t) PROVE i \in DOMAIN q[k] /\ q[k][i] = t
  <2>1. PICK j \in D, n \in Nat : <<k, i>> = <<j, n>> /\ n \in DOMAIN q[j] /\ q[j][n] = t
    BY <1>1, PlaceIs
  <2>2. k = j /\ i = n
    BY <2>1
  <2> QED
    BY <2>1, <2>2
<1>2. ASSUME i \in DOMAIN q[k], q[k][i] = t PROVE <<k, i>> \in PlacesIn(q, t)
  <2>1. i \in Nat
    BY <1>2
  <2> QED
    BY <1>2, <2>1, PlaceIs
<1> QED
  BY <1>1, <1>2

(* Appending u to a queue gives u one place more, and nobody else.         *)
LEMMA AppendListed ==
  ASSUME NEW D, NEW T, NEW q \in [D -> Seq(T)], NEW k \in D, NEW u \in T, NEW t,
         IsFiniteSet(PlacesIn(q, t))
  PROVE  /\ IsFiniteSet(PlacesIn(Enqueue(q, k, u), t))
         /\ Listed(q, t) \in Nat
         /\ Listed(Enqueue(q, k, u), t) = Listed(q, t) + Same(t, u)
<1> DEFINE r == Enqueue(q, k, u)
           n == Len(q[k])
<1>1. /\ n \in Nat /\ DOMAIN q[k] = 1 .. n /\ r[k] = Append(q[k], u)
      /\ DOMAIN r[k] = 1 .. n + 1 /\ r[k][n + 1] = u
      /\ \A i \in 1 .. n : r[k][i] = q[k][i]
      /\ DOMAIN r = DOMAIN q /\ DOMAIN q = D
      /\ \A j \in D : j # k => r[j] = q[j]
      /\ r \in [D -> Seq(T)]
  BY DEF Enqueue
<1> HIDE DEF r, n
<1>2. <<k, n + 1>> \notin PlacesIn(q, t)
  BY <1>1, PairIs
<1>3. CASE t = u
  <2>1. PlacesIn(r, t) = PlacesIn(q, t) \cup {<<k, n + 1>>}
    <3>1. ASSUME NEW x \in PlacesIn(r, t)
          PROVE  x \in PlacesIn(q, t) \cup {<<k, n + 1>>}
      <4>1. PICK j \in D, i \in Nat : x = <<j, i>> /\ i \in DOMAIN r[j] /\ r[j][i] = t
        BY <1>1, <3>1, PlaceIs
      <4>2. CASE j = k /\ i = n + 1
        BY <4>1, <4>2
      <4>3. CASE ~(j = k /\ i = n + 1)
        <5>1. i \in DOMAIN q[j] /\ q[j][i] = t
          BY <1>1, <4>1, <4>3
        <5> QED
          BY <1>1, <4>1, <5>1, PlaceIs
      <4> QED
        BY <4>2, <4>3
    <3>2. ASSUME NEW x \in PlacesIn(q, t) \cup {<<k, n + 1>>}
          PROVE  x \in PlacesIn(r, t)
      <4>1. CASE x = <<k, n + 1>>
        BY <1>1, <1>3, <4>1, PlaceIs
      <4>2. CASE x \in PlacesIn(q, t)
        <5>1. PICK j \in D, i \in Nat : x = <<j, i>> /\ i \in DOMAIN q[j] /\ q[j][i] = t
          BY <1>1, <4>2, PlaceIs
        <5>2. i \in DOMAIN r[j] /\ r[j][i] = t
          BY <1>1, <5>1
        <5> QED
          BY <1>1, <5>1, <5>2, PlaceIs
      <4> QED
        BY <3>2, <4>1, <4>2
    <3> QED
      BY <3>1, <3>2
  <2> QED
    <3>1. /\ IsFiniteSet(PlacesIn(q, t) \cup {<<k, n + 1>>})
          /\ Cardinality(PlacesIn(q, t) \cup {<<k, n + 1>>}) = Listed(q, t) + 1
      BY <1>2, FS_AddElement DEF Listed
    <3>2. Listed(q, t) \in Nat
      BY FS_CardinalityType DEF Listed
    <3> QED
      BY <1>3, <2>1, <3>1, <3>2 DEF Listed, Same, r
<1>4. CASE t # u
  <2>1. PlacesIn(r, t) = PlacesIn(q, t)
    <3>1. ASSUME NEW x \in PlacesIn(r, t)
          PROVE  x \in PlacesIn(q, t)
      <4>1. PICK j \in D, i \in Nat : x = <<j, i>> /\ i \in DOMAIN r[j] /\ r[j][i] = t
        BY <1>1, <3>1, PlaceIs
      <4>2. i \in DOMAIN q[j] /\ q[j][i] = t
        <5>1. CASE j = k
          <6>1. i \in 1 .. n + 1 /\ i # n + 1
            BY <1>1, <1>4, <4>1, <5>1
          <6>2. i \in 1 .. n
            BY <1>1, <6>1
          <6> QED
            BY <1>1, <4>1, <5>1, <6>2
        <5>2. CASE j # k
          BY <1>1, <4>1, <5>2
        <5> QED
          BY <5>1, <5>2
      <4> QED
        BY <1>1, <4>1, <4>2, PlaceIs
    <3>2. ASSUME NEW x \in PlacesIn(q, t)
          PROVE  x \in PlacesIn(r, t)
      <4>1. PICK j \in D, i \in Nat : x = <<j, i>> /\ i \in DOMAIN q[j] /\ q[j][i] = t
        BY <1>1, <3>2, PlaceIs
      <4>2. i \in DOMAIN r[j] /\ r[j][i] = t
        <5>1. CASE j = k
          <6>1. i \in 1 .. n /\ i \in 1 .. n + 1
            BY <1>1, <4>1, <5>1
          <6> QED
            BY <1>1, <4>1, <5>1, <6>1
        <5>2. CASE j # k
          BY <1>1, <4>1, <5>2
        <5> QED
          BY <5>1, <5>2
      <4> QED
        BY <1>1, <4>1, <4>2, PlaceIs
    <3> QED
      BY <3>1, <3>2
  <2> QED
    BY <1>4, <2>1, FS_CardinalityType DEF Listed, Same, r
<1> QED
  BY <1>3, <1>4

(* Dequeueing takes one place from the thread at the head.                 *)
LEMMA TailListed ==
  ASSUME NEW D, NEW T, NEW q \in [D -> Seq(T)], NEW k \in D, q[k] # <<>>, NEW t,
         IsFiniteSet(PlacesIn(q, t))
  PROVE  /\ IsFiniteSet(PlacesIn(Without(q, k), t))
         /\ Listed(Without(q, k), t) \in Nat
         /\ Listed(q, t) = Listed(Without(q, k), t) + Same(t, Head(q[k]))
<1> DEFINE r == Without(q, k)
           n == Len(q[k])
<1>1. /\ n \in Nat \ {0} /\ DOMAIN q[k] = 1 .. n /\ q[k][1] = Head(q[k])
      /\ DOMAIN r[k] = 1 .. n - 1
      /\ \A i \in 1 .. n - 1 : r[k][i] = q[k][i + 1]
      /\ DOMAIN r = DOMAIN q /\ DOMAIN q = D
      /\ \A j \in D : j # k => r[j] = q[j]
      /\ r \in [D -> Seq(T)]
  <2>1. q[k] \in Seq(T) /\ r[k] = Tail(q[k]) /\ n \in Nat \ {0}
         /\ r = [q EXCEPT ![k] = Tail(@)]
    BY DEF Without
  <2> QED
    BY <2>1
<1> HIDE DEF r, n
<1> DEFINE Rest == PlacesIn(q, t) \ {<<k, 1>>}
           f == [x \in PlacesIn(r, t) |-> IF x[1] = k THEN <<k, x[2] + 1>> ELSE x]
<1>2. IsFiniteSet(Rest) /\ Listed(q, t) = Cardinality(Rest) + Same(t, Head(q[k]))
  <2>1. <<k, 1>> \in PlacesIn(q, t) <=> t = Head(q[k])
    BY <1>1, PairIs
  <2>2. /\ IsFiniteSet(Rest)
        /\ Cardinality(Rest) = IF <<k, 1>> \in PlacesIn(q, t)
                               THEN Listed(q, t) - 1 ELSE Listed(q, t)
    BY FS_RemoveElement DEF Listed
  <2>3. Listed(q, t) \in Nat
    BY FS_CardinalityType DEF Listed
  <2> QED
    BY <2>1, <2>2, <2>3 DEF Same
<1>3. f \in Bijection(PlacesIn(r, t), Rest)
  <2>1. ASSUME NEW x \in PlacesIn(r, t)
        PROVE  /\ f[x] \in Rest
               /\ \E j \in D, i \in Nat : x = <<j, i>> /\ f[x] = <<j, IF j = k THEN i + 1 ELSE i>>
    <3>1. PICK j \in D, i \in Nat : x = <<j, i>> /\ i \in DOMAIN r[j] /\ r[j][i] = t
      BY <1>1, PlaceIs
    <3>2. CASE j = k
      <4>1. i + 1 \in DOMAIN q[k] /\ q[k][i + 1] = t /\ i + 1 # 1 /\ i \in Nat
        <5>1. i \in 1 .. n - 1 /\ r[k][i] = t
          BY <1>1, <3>1, <3>2
        <5> QED
          BY <1>1, <5>1
      <4>2. <<k, i + 1>> \in PlacesIn(q, t)
        BY <4>1, PairIs
      <4>3. f[x] = <<k, i + 1>>
        BY <3>1, <3>2
      <4> QED
        BY <3>1, <3>2, <4>1, <4>2, <4>3
    <3>3. CASE j # k
      <4>1. <<j, i>> \in PlacesIn(q, t) /\ i \in Nat
        <5>1. i \in DOMAIN q[j] /\ q[j][i] = t /\ q[j] \in Seq(T)
          BY <1>1, <3>1, <3>3
        <5> QED
          BY <1>1, <5>1, PlaceIs
      <4>2. f[x] = <<j, i>>
        BY <3>1, <3>3
      <4> QED
        BY <3>1, <3>3, <4>1, <4>2
    <3> QED
      BY <3>2, <3>3
  <2>2. ASSUME NEW x \in PlacesIn(r, t), NEW y \in PlacesIn(r, t), f[x] = f[y]
        PROVE  x = y
    <3>1. PICK j \in D, i \in Nat : x = <<j, i>> /\ f[x] = <<j, IF j = k THEN i + 1 ELSE i>>
      BY <2>1
    <3>2. PICK jj \in D, ii \in Nat :
             y = <<jj, ii>> /\ f[y] = <<jj, IF jj = k THEN ii + 1 ELSE ii>>
      BY <2>1
    <3> QED
      BY <2>2, <3>1, <3>2
  <2>3. ASSUME NEW y \in Rest PROVE \E x \in PlacesIn(r, t) : f[x] = y
    <3>1. PICK j \in D, i \in Nat : y = <<j, i>> /\ i \in DOMAIN q[j] /\ q[j][i] = t
      BY <1>1, PlaceIs
    <3>2. CASE j = k
      <4>1. i - 1 \in DOMAIN r[k] /\ r[k][i - 1] = t /\ (i - 1) + 1 = i
        <5>1. i \in 1 .. n /\ q[k][i] = t /\ i # 1
          BY <1>1, <3>1, <3>2
        <5> QED
          BY <1>1, <5>1
      <4>2. <<k, i - 1>> \in PlacesIn(r, t)
        <5>1. r \in [D -> Seq(T)]
          BY <1>1
        <5>2. \A m : m \in DOMAIN r[k] /\ r[k][m] = t => <<k, m>> \in PlacesIn(r, t)
          BY <5>1, PairIs
        <5> QED
          BY <4>1, <5>2
      <4>3. f[<<k, i - 1>>] = y
        BY <3>1, <3>2, <4>1, <4>2
      <4> QED
        BY <4>2, <4>3
    <3>3. CASE j # k
      <4>1. i \in DOMAIN r[j] /\ r[j][i] = t
        BY <1>1, <3>1, <3>3
      <4>2. y \in PlacesIn(r, t)
        BY <1>1, <3>1, <4>1, PlaceIs
      <4>3. f[y] = y
        BY <3>1, <3>3, <4>2
      <4> QED
        BY <4>2, <4>3
    <3> QED
      BY <3>2, <3>3
  <2> HIDE DEF f, Rest
  <2>4. f \in [PlacesIn(r, t) -> Rest]
    BY <2>1 DEF f
  <2> QED
    BY <2>2, <2>3, <2>4, Fun_IsBij
<1> HIDE DEF f, Rest
<1>4. ExistsBijection(Rest, PlacesIn(r, t))
  BY <1>3, Fun_ExistsBijSymmetric DEF ExistsBijection
<1>5. IsFiniteSet(PlacesIn(r, t)) /\ Cardinality(PlacesIn(r, t)) = Cardinality(Rest)
  BY <1>2, <1>4, FS_Bijection
<1>6. Cardinality(Rest) \in Nat
  BY <1>2, FS_CardinalityType
<1> QED
  BY <1>2, <1>5, <1>6 DEF Listed, r

(***************************************************************************)
(* Where every thread is.  As long as the process lives, who runs is whom  *)
(* the globals say it is, and each thread is referred to as often as its   *)
(* place tells (NoThreadLost), by finitely many references.                *)
(***************************************************************************)
Due(p) == CASE p \in {"unborn", "gone"} -> 0
            [] p \in {"spin", "found"}  -> 2
            [] OTHER                    -> 1

Known ==
  /\ runningThread = IF pc[cpu] = "exitSwitch" THEN to_run[cpu] ELSE cpu
  /\ \A t \in Threads : pc[t] = "exitSwitch" => cpu = t
  /\ pc[cpu] \in {"spin", "found"} => interrupt_level = "ENABLED"

Tracked(t) ==
  /\ IsFiniteSet(PlacesIn(multiqueue, t))
  /\ IsFiniteSet(PlacesIn(waitQueue, t))
  /\ IsFiniteSet(HeldBy(t))
  /\ References(t) = Due(pc[t])

SchedInv == fault = "none" => Known /\ \A t \in Threads : Tracked(t)

(* The references to a thread, by the kind of place that refers to it.     *)
Ready(t) == Listed(multiqueue, t)
Waiting(t) == Listed(waitQueue, t)
Held(t) == Cardinality(HeldBy(t))

LEMMA Parts ==
  ASSUME NEW t \in Threads, Tracked(t)
  PROVE  /\ Ready(t) \in Nat /\ Waiting(t) \in Nat /\ Held(t) \in Nat
         /\ Ready(t) + Waiting(t) + Held(t) + Same(cpu, t) = Due(pc[t])
BY FS_CardinalityType DEF Tracked, Ready, Waiting, Held, Listed, Same, References

(* Conversely, for the state after a step.                                 *)
LEMMA PartsTrack ==
  ASSUME NEW t \in Threads,
         IsFiniteSet(PlacesIn(multiqueue, t))', IsFiniteSet(PlacesIn(waitQueue, t))',
         IsFiniteSet(HeldBy(t))',
         (Ready(t) + Waiting(t) + Held(t) + Same(cpu, t) = Due(pc[t]))'
  PROVE  Tracked(t)'
BY DEF Tracked, Ready, Waiting, Held, Listed, Same, References

(* The thread that executes, unless it idles, is referred to by nobody.    *)
LEMMA RunnerIsAlone ==
  ASSUME cpu \in Threads, Tracked(cpu),
         pc[cpu] \notin {"spin", "found"}
  PROVE  /\ Ready(cpu) = 0 /\ Waiting(cpu) = 0 /\ Held(cpu) = 0
         /\ pc[cpu] \notin {"unborn", "gone"}
         /\ HeldBy(cpu) = {} /\ PlacesIn(waitQueue, cpu) = {}
         /\ PlacesIn(multiqueue, cpu) = {}
<1>1. Due(pc[cpu]) \in {0, 1} /\ (pc[cpu] \in {"unborn", "gone"} => Due(pc[cpu]) = 0)
  BY DEF Due
<1>2. /\ Ready(cpu) \in Nat /\ Waiting(cpu) \in Nat /\ Held(cpu) \in Nat
      /\ Ready(cpu) + Waiting(cpu) + Held(cpu) + 1 = Due(pc[cpu])
  BY Parts DEF Same
<1>3. Ready(cpu) = 0 /\ Waiting(cpu) = 0 /\ Held(cpu) = 0 /\ Due(pc[cpu]) = 1
  BY <1>1, <1>2
<1> QED
  BY <1>1, <1>3, FS_EmptySet DEF Tracked, Ready, Waiting, Held, Listed

(* Who is held by exiting threads changes only with the exiting threads.   *)
LEMMA HeldStays ==
  ASSUME \A e \in Threads :
           \/ pc'[e] = pc[e] /\ to_run'[e] = to_run[e]
           \/ {pc[e], pc'[e]} \cap {"exitSet", "exitSwitch"} = {}
           \/ {pc[e], pc'[e]} = {"exitSet", "exitSwitch"} /\ to_run'[e] = to_run[e],
         NEW t
  PROVE  HeldBy(t)' = HeldBy(t) /\ Held(t)' = Held(t)
<1>1. HeldBy(t)' = HeldBy(t)
  BY DEF HeldBy
<1> QED
  BY <1>1 DEF Held

(* A step that moves no reference.                                         *)
LEMMA NothingMoves ==
  ASSUME \A t \in Threads : Tracked(t),
         UNCHANGED <<multiqueue, waitQueue, cpu>>,
         \A t \in Threads : HeldBy(t)' = HeldBy(t) /\ Due(pc'[t]) = Due(pc[t])
  PROVE  \A t \in Threads : Tracked(t)'
BY DEF Tracked, References

(* Dequeueing a ready thread.                                              *)
LEMMA TakenFromReady ==
  ASSUME TypeOK, NEW l \in Levels, multiqueue[l] # <<>>, NEW t \in Threads, Tracked(t),
         multiqueue' = Without(multiqueue, l)
  PROVE  /\ Head(multiqueue[l]) \in Threads
         /\ IsFiniteSet(PlacesIn(multiqueue, t))' /\ Ready(t)' \in Nat
         /\ Ready(t) = Ready(t)' + Same(t, Head(multiqueue[l]))
<1>1. multiqueue \in [Levels -> Seq(Threads)] /\ IsFiniteSet(PlacesIn(multiqueue, t))
  BY DEF TypeOK, Tracked
<1>2. Head(multiqueue[l]) \in Threads
  BY <1>1
<1> QED
  BY <1>1, <1>2, TailListed DEF Ready

(* Enqueueing a thread.                                                    *)
LEMMA PutInReady ==
  ASSUME TypeOK, NEW l \in Levels, NEW u \in Threads, NEW t \in Threads, Tracked(t),
         multiqueue' = Enqueue(multiqueue, l, u)
  PROVE  /\ IsFiniteSet(PlacesIn(multiqueue, t))' /\ Ready(t) \in Nat
         /\ Ready(t)' = Ready(t) + Same(t, u)
<1>1. multiqueue \in [Levels -> Seq(Threads)] /\ IsFiniteSet(PlacesIn(multiqueue, t))
  BY DEF TypeOK, Tracked
<1> QED
  BY <1>1, AppendListed DEF Ready

(* A switch to a ready thread: the processor's reference replaces that of  *)
(* the ready queue.                                                        *)
LEMMA SwitchMoves ==
  ASSUME TypeOK, \A u \in Threads : Tracked(u), NEW t \in Threads, SwitchToReady(t)
  PROVE  \E h \in Threads :
           /\ runningThread' = h /\ cpu' = h /\ interrupt_level' = "ENABLED"
           /\ pc' = [pc EXCEPT ![t] = "blocked"]
           /\ Ready(h) > 0
           /\ \A u \in Threads :
                /\ IsFiniteSet(PlacesIn(multiqueue, u))' /\ Ready(u)' \in Nat
                /\ Ready(u) = Ready(u)' + Same(u, h)
<1>1. PICK l \in Levels : /\ multiqueue[l] # <<>>
                          /\ multiqueue' = Without(multiqueue, l)
                          /\ runningThread' = Head(multiqueue[l])
                          /\ cpu' = Head(multiqueue[l])
                          /\ interrupt_level' = "ENABLED"
                          /\ pc' = [pc EXCEPT ![t] = "blocked"]
  BY DEF SwitchToReady, minithread_switch, TakesFrom, Goto
<1>2. \A u \in Threads : /\ Head(multiqueue[l]) \in Threads
                         /\ IsFiniteSet(PlacesIn(multiqueue, u))' /\ Ready(u)' \in Nat
                         /\ Ready(u) = Ready(u)' + Same(u, Head(multiqueue[l]))
  BY <1>1, TakenFromReady
<1>3. Head(multiqueue[l]) \in Threads
  BY <1>2
<1>4. Ready(Head(multiqueue[l])) > 0
  BY <1>2, <1>3 DEF Same
<1> QED
  BY <1>1, <1>2, <1>3, <1>4

(* A thread joins a wait queue.                                            *)
LEMMA JoinMoves ==
  ASSUME TypeOK, NEW s \in Sems, NEW u \in Threads, NEW t \in Threads, Tracked(t),
         waitQueue' = [waitQueue EXCEPT ![s] = Append(@, u)]
  PROVE  /\ IsFiniteSet(PlacesIn(waitQueue, t))'
         /\ Waiting(t)' = Waiting(t) + Same(t, u)
<1>1. waitQueue \in [Sems -> Seq(Threads)] /\ IsFiniteSet(PlacesIn(waitQueue, t))
  BY DEF TypeOK, Tracked
<1>2. waitQueue' = Enqueue(waitQueue, s, u)
  BY DEF Enqueue
<1>3. /\ IsFiniteSet(PlacesIn(Enqueue(waitQueue, s, u), t))
      /\ Listed(Enqueue(waitQueue, s, u), t) = Listed(waitQueue, t) + Same(t, u)
  BY <1>1, AppendListed
<1> QED
  BY <1>2, <1>3 DEF Waiting

(* A V moves the thread it wakes from the wait queue to the ready queue.   *)
LEMMA VMoves ==
  ASSUME IInv, NEW s \in Sems, VEffect(s), NEW t \in Threads, Tracked(t)
  PROVE  /\ IsFiniteSet(PlacesIn(Woken(s), t)) /\ IsFiniteSet(PlacesIn(waitQueue, t))'
         /\ Listed(Woken(s), t) \in Nat /\ Waiting(t)' \in Nat
         /\ Listed(Woken(s), t) + Waiting(t)' = Ready(t) + Waiting(t)
<1>1. /\ multiqueue \in [Levels -> Seq(Threads)] /\ waitQueue \in [Sems -> Seq(Threads)]
      /\ IsFiniteSet(PlacesIn(multiqueue, t)) /\ IsFiniteSet(PlacesIn(waitQueue, t))
      /\ 0 \in Levels
  <2>1. 0 \in Levels
    BY LevelsAssumption DEF Levels
  <2>2. IsFiniteSet(PlacesIn(multiqueue, t)) /\ IsFiniteSet(PlacesIn(waitQueue, t))
    BY DEF Tracked
  <2> QED
    BY <2>1, <2>2 DEF IInv, TypeOK
<1>0. Ready(t) \in Nat /\ Waiting(t) \in Nat
  BY Parts
<1>2. CASE count[s] < 0
  <2> DEFINE h == Head(waitQueue[s])
  <2>1. waitQueue[s] # <<>> /\ h \in Threads
    BY <1>2, WaiterExists DEF IInv
  <2>2. waitQueue' = Without(waitQueue, s) /\ Woken(s) = Enqueue(multiqueue, 0, h)
    BY <1>2, <1>1 DEF VEffect, Without, Woken
  <2> HIDE DEF h
  <2>3. /\ IsFiniteSet(PlacesIn(waitQueue, t))' /\ Waiting(t)' \in Nat
        /\ Waiting(t) = Waiting(t)' + Same(t, h)
    BY <1>1, <2>1, <2>2, TailListed DEF Waiting, h
  <2>4. /\ IsFiniteSet(PlacesIn(Woken(s), t))
        /\ Listed(Woken(s), t) = Ready(t) + Same(t, h)
    BY <1>1, <2>1, <2>2, AppendListed DEF Ready
  <2>5. Same(t, h) \in {0, 1}
    BY DEF Same
  <2> QED
    BY <1>0, <2>3, <2>4, <2>5
<1>3. CASE ~(count[s] < 0)
  <2>1. waitQueue' = waitQueue /\ Woken(s) = multiqueue
    BY <1>3, <1>1 DEF VEffect, Woken
  <2> QED
    BY <1>0, <1>1, <2>1 DEF Ready, Waiting
<1> QED
  BY <1>2, <1>3

(* A switch from one thread, which stays ready, to the head of a queue.    *)
LEMMA SwapMoves ==
  ASSUME NEW q \in ReadyQueues, NEW l \in Levels, q[l] # <<>>, NEW k \in Levels,
         NEW old \in Threads, NEW t \in Threads, IsFiniteSet(PlacesIn(q, t))
  PROVE  LET r == Enqueue(Without(q, l), k, old)
         IN  /\ Head(q[l]) \in Threads
             /\ IsFiniteSet(PlacesIn(r, t)) /\ Listed(r, t) \in Nat /\ Listed(q, t) \in Nat
             /\ Listed(r, t) + Same(t, Head(q[l])) = Listed(q, t) + Same(t, old)
<1>1. Head(q[l]) \in Threads /\ Without(q, l) \in ReadyQueues
  BY DequeueType
<1>2. /\ IsFiniteSet(PlacesIn(Without(q, l), t)) /\ Listed(Without(q, l), t) \in Nat
      /\ Listed(q, t) = Listed(Without(q, l), t) + Same(t, Head(q[l]))
  BY TailListed DEF ReadyQueues
<1>3. /\ IsFiniteSet(PlacesIn(Enqueue(Without(q, l), k, old), t))
      /\ Listed(Enqueue(Without(q, l), k, old), t)
           = Listed(Without(q, l), t) + Same(t, old)
  <2> DEFINE w == Without(q, l)
  <2>1. w \in [Levels -> Seq(Threads)] /\ IsFiniteSet(PlacesIn(w, t))
    BY <1>1, <1>2 DEF ReadyQueues
  <2> HIDE DEF w
  <2>2. /\ IsFiniteSet(PlacesIn(Enqueue(w, k, old), t))
        /\ Listed(Enqueue(w, k, old), t) = Listed(w, t) + Same(t, old)
    BY <2>1, AppendListed
  <2> QED
    BY <2>2 DEF w
<1>4. Same(t, old) \in Nat /\ Same(t, Head(q[l])) \in Nat
  BY DEF Same
<1> QED
  BY <1>1, <1>2, <1>3, <1>4

(* What the switch of a thread that does not idle finds.                   *)
LEMMA Runs ==
  ASSUME IInv, SchedInv, fault = "none"
  PROVE  /\ Known /\ \A u \in Threads : Tracked(u)
         /\ TypeOK /\ cpu \in Threads
         /\ pc[cpu] # "exitSwitch" => runningThread = cpu
BY DEF IInv, SchedInv, Known, TypeOK

(* P.                                                                      *)
LEMMA PKeepsSched ==
  ASSUME IInv, SchedInv, NEW t \in Threads, NEW s \in Sems, semaphore_P(t, s)
  PROVE  SchedInv'
<1>1. fault = "none" /\ cpu = t /\ pc[t] = "user"
  BY DEF semaphore_P, At
<1>2. /\ Known /\ \A u \in Threads : Tracked(u)
      /\ TypeOK /\ runningThread = t
  BY <1>1, Runs
<1>3. CASE UNCHANGED <<schedVars, pc, waitQueue, previousLevel, fault>>
  <2>1. UNCHANGED <<multiqueue, waitQueue, cpu, pc, to_run, runningThread, interrupt_level>>
    BY <1>3 DEF semaphore_P, schedVars, exitVars
  <2>2. \A u \in Threads : HeldBy(u)' = HeldBy(u)
    BY <2>1, HeldStays
  <2>3. \A u \in Threads : Tracked(u)'
    BY <1>2, <2>1, <2>2, NothingMoves
  <2> QED
    BY <1>2, <2>1, <2>3 DEF SchedInv, Known
<1>4. CASE JoinWaitQueue(s) /\ minithread_stop(t)
  <2>1. to_run' = to_run /\ waitQueue' = [waitQueue EXCEPT ![s] = Append(@, t)]
    BY <1>2, <1>4 DEF semaphore_P, exitVars, JoinWaitQueue
  <2>2. \A u \in Threads : /\ IsFiniteSet(PlacesIn(waitQueue, u))'
                           /\ Waiting(u)' = Waiting(u) + Same(u, t)
    BY <1>2, <2>1, JoinMoves
  <2>3. \A u \in Threads :
           /\ Ready(u) \in Nat /\ Waiting(u) \in Nat /\ Held(u) \in Nat
           /\ Ready(u) + Waiting(u) + Held(u) + Same(t, u) = Due(pc[u])
    BY <1>1, <1>2, Parts
  <2>4. CASE SwitchToReady(t)
    <3>1. PICK h \in Threads :
             /\ runningThread' = h /\ cpu' = h /\ interrupt_level' = "ENABLED"
             /\ pc' = [pc EXCEPT ![t] = "blocked"]
             /\ Ready(h) > 0
             /\ \A u \in Threads :
                  /\ IsFiniteSet(PlacesIn(multiqueue, u))' /\ Ready(u)' \in Nat
                  /\ Ready(u) = Ready(u)' + Same(u, h)
      BY <1>2, <2>4, SwitchMoves
    <3>2. h # t
      BY <1>1, <1>2, <3>1, RunnerIsAlone
    <3>3. \A u \in Threads : HeldBy(u)' = HeldBy(u) /\ Held(u)' = Held(u)
      BY <1>1, <1>2, <2>1, <3>1, HeldStays DEF TypeOK
    <3>4. ASSUME NEW u \in Threads PROVE Tracked(u)'
      <4>1. Due(pc'[u]) = Due(pc[u])
        BY <1>1, <1>2, <3>1 DEF Due, TypeOK
      <4>2. (Ready(u) + Waiting(u) + Held(u) + Same(cpu, u) = Due(pc[u]))'
        BY <2>2, <2>3, <3>1, <3>3, <4>1 DEF Same
      <4>3. IsFiniteSet(HeldBy(u))'
        BY <1>2, <3>3 DEF Tracked
      <4> QED
        BY <2>2, <3>1, <4>2, <4>3, PartsTrack
    <3>5. Known'
      BY <1>1, <1>2, <3>1, <3>2 DEF Known, TypeOK
    <3> QED
      BY <3>4, <3>5 DEF SchedInv
  <2>5. CASE /\ interrupt_level' = "ENABLED" /\ Goto(t, "spin")
             /\ UNCHANGED <<runningThread, cpu, multiqueue, fault>>
    <3>1. \A u \in Threads : HeldBy(u)' = HeldBy(u) /\ Held(u)' = Held(u)
      BY <1>1, <1>2, <2>1, <2>5, HeldStays DEF TypeOK, Goto
    <3>2. ASSUME NEW u \in Threads PROVE Tracked(u)'
      <4>1. Due(pc'[u]) = Due(pc[u]) + Same(u, t)
        BY <1>1, <1>2, <2>5 DEF Due, TypeOK, Goto, Same
      <4>2. Ready(u)' = Ready(u) /\ IsFiniteSet(PlacesIn(multiqueue, u))'
        BY <1>2, <2>5 DEF Ready, Tracked
      <4>3. (Ready(u) + Waiting(u) + Held(u) + Same(cpu, u) = Due(pc[u]))'
        BY <1>1, <2>2, <2>3, <2>5, <3>1, <4>1, <4>2 DEF Same
      <4>4. IsFiniteSet(HeldBy(u))'
        BY <1>2, <3>1 DEF Tracked
      <4> QED
        BY <2>2, <4>2, <4>3, <4>4, PartsTrack
    <3>3. Known'
      BY <1>1, <1>2, <2>5 DEF Known, TypeOK, Goto
    <3> QED
      BY <3>2, <3>3 DEF SchedInv
  <2> QED
    BY <1>4, <2>4, <2>5 DEF minithread_stop
<1> QED
  BY <1>3, <1>4 DEF semaphore_P

(* The steps of minithread_stop and the return from P.                     *)
LEMMA StopKeepsSched ==
  ASSUME IInv, SchedInv, NEW t \in Threads,
         StopSeesReady(t) \/ StopTakes(t) \/ ReturnFromP(t)
  PROVE  SchedInv'
<1>1. /\ fault = "none" /\ cpu = t /\ to_run' = to_run /\ waitQueue' = waitQueue
      /\ pc[t] \in {"spin", "found", "blocked"}
  BY DEF StopSeesReady, StopTakes, ReturnFromP, At, exitVars, semVars
<1>2. /\ Known /\ \A u \in Threads : Tracked(u)
      /\ TypeOK /\ runningThread = t
  BY <1>1, Runs
<1>3. ASSUME NEW p \in {"found", "user"}, pc' = [pc EXCEPT ![t] = p],
             Due(p) = Due(pc[t]),
             UNCHANGED <<multiqueue, cpu, runningThread>>,
             p = "found" => interrupt_level' = interrupt_level /\ pc[t] = "spin"
      PROVE  SchedInv'
  <2>1. \A u \in Threads : HeldBy(u)' = HeldBy(u) /\ Due(pc'[u]) = Due(pc[u])
    BY <1>1, <1>2, <1>3, HeldStays DEF TypeOK
  <2>2. \A u \in Threads : Tracked(u)'
    BY <1>1, <1>2, <1>3, <2>1, NothingMoves
  <2>3. Known'
    BY <1>1, <1>2, <1>3 DEF Known, TypeOK
  <2> QED
    BY <2>2, <2>3 DEF SchedInv
<1>4. CASE StopSeesReady(t) \/ ReturnFromP(t)
  BY <1>1, <1>3, <1>4 DEF StopSeesReady, ReturnFromP, At, Goto, schedVars, Due
<1>5. CASE SwitchToReady(t) /\ pc[t] = "found"
  <2>1. PICK h \in Threads :
           /\ runningThread' = h /\ cpu' = h /\ interrupt_level' = "ENABLED"
           /\ pc' = [pc EXCEPT ![t] = "blocked"]
           /\ Ready(h) > 0
           /\ \A u \in Threads :
                /\ IsFiniteSet(PlacesIn(multiqueue, u))' /\ Ready(u)' \in Nat
                /\ Ready(u) = Ready(u)' + Same(u, h)
    BY <1>2, <1>5, SwitchMoves
  <2>2. \A u \in Threads :
           /\ Ready(u) \in Nat /\ Waiting(u) \in Nat /\ Held(u) \in Nat
           /\ Ready(u) + Waiting(u) + Held(u) + Same(t, u) = Due(pc[u])
    BY <1>1, <1>2, Parts
  <2>3. \A u \in Threads : HeldBy(u)' = HeldBy(u) /\ Held(u)' = Held(u)
    BY <1>1, <1>2, <2>1, HeldStays DEF TypeOK
  <2>4. ASSUME NEW u \in Threads PROVE Tracked(u)'
    <3>1. Due(pc'[u]) = Due(pc[u]) - Same(t, u)
      BY <1>5, <1>2, <2>1 DEF Due, TypeOK, Same
    <3>2. /\ Waiting(u)' = Waiting(u)
          /\ IsFiniteSet(PlacesIn(waitQueue, u))' /\ IsFiniteSet(HeldBy(u))'
      BY <1>1, <1>2, <2>3 DEF Tracked, Waiting
    <3>3. (Ready(u) + Waiting(u) + Held(u) + Same(cpu, u) = Due(pc[u]))'
      BY <2>1, <2>2, <2>3, <3>1, <3>2 DEF Same
    <3> QED
      BY <2>1, <3>2, <3>3, PartsTrack
  <2>5. Known'
    BY <1>1, <1>2, <2>1 DEF Known, TypeOK
  <2> QED
    BY <2>4, <2>5 DEF SchedInv
<1>6. CASE NullSwitch
  BY <1>6 DEF NullSwitch, SchedInv
<1> QED
  BY <1>4, <1>5, <1>6 DEF StopTakes, At

(* A V by a thread or by an interrupt handler.                             *)
LEMMA VKeepsSched ==
  ASSUME IInv, SchedInv, NEW s \in Sems,
         Interrupt(s) \/ \E t \in Threads : semaphore_V(t, s)
  PROVE  SchedInv'
<1>1. /\ fault = "none" /\ multiqueue' = Woken(s) /\ VEffect(s)
      /\ UNCHANGED <<runningThread, cpu, interrupt_level, pc, to_run>>
  BY DEF Interrupt, semaphore_V, At, exitVars
<1>2. Known /\ (\A u \in Threads : Tracked(u)) /\ TypeOK
  BY <1>1, Runs
<1>3. ASSUME NEW u \in Threads PROVE Tracked(u)'
  <2>1. /\ IsFiniteSet(PlacesIn(multiqueue, u))' /\ IsFiniteSet(PlacesIn(waitQueue, u))'
        /\ Ready(u)' \in Nat /\ Waiting(u)' \in Nat
        /\ Ready(u)' + Waiting(u)' = Ready(u) + Waiting(u)
    BY <1>1, <1>2, VMoves DEF Ready
  <2>2. HeldBy(u)' = HeldBy(u) /\ Held(u)' = Held(u)
    BY <1>1, HeldStays
  <2>3. /\ Ready(u) \in Nat /\ Waiting(u) \in Nat /\ Held(u) \in Nat
        /\ Ready(u) + Waiting(u) + Held(u) + Same(cpu, u) = Due(pc[u])
    BY <1>2, Parts
  <2>4. (Ready(u) + Waiting(u) + Held(u) + Same(cpu, u) = Due(pc[u]))'
    BY <1>1, <2>1, <2>2, <2>3 DEF Same
  <2>5. IsFiniteSet(HeldBy(u))'
    BY <1>2, <2>2 DEF Tracked
  <2> QED
    BY <2>1, <2>4, <2>5, PartsTrack
<1>4. Known'
  BY <1>1, <1>2 DEF Known
<1> QED
  BY <1>3, <1>4 DEF SchedInv

(* The running thread becomes ready and the head of a queue q runs, where  *)
(* q is the ready queue, perhaps after a V: nobody gains or loses.         *)
LEMMA SwapKeepsSched ==
  ASSUME IInv, SchedInv, fault = "none", pc[cpu] # "exitSwitch",
         NEW q \in ReadyQueues, NEW l \in Levels, q[l] # <<>>, NEW k \in Levels,
         \A u \in Threads :
            /\ IsFiniteSet(PlacesIn(q, u)) /\ IsFiniteSet(PlacesIn(waitQueue, u))'
            /\ Listed(q, u) \in Nat /\ Waiting(u)' \in Nat
            /\ Listed(q, u) + Waiting(u)' = Ready(u) + Waiting(u),
         multiqueue' = Enqueue(Without(q, l), k, cpu),
         runningThread' = Head(q[l]), cpu' = Head(q[l]), interrupt_level' = "ENABLED",
         UNCHANGED <<pc, to_run>>
  PROVE  SchedInv'
<1>1. /\ Known /\ \A u \in Threads : Tracked(u)
      /\ TypeOK /\ cpu \in Threads
  BY Runs
<1>2. ASSUME NEW u \in Threads
      PROVE  /\ Head(q[l]) \in Threads
             /\ IsFiniteSet(PlacesIn(multiqueue, u))' /\ Ready(u)' \in Nat
             /\ Ready(u)' + Same(u, Head(q[l])) = Listed(q, u) + Same(u, cpu)
  BY <1>1, SwapMoves DEF Ready
<1> DEFINE h == Head(q[l])
<1>3. ASSUME NEW u \in Threads PROVE Tracked(u)'
  <2>1. HeldBy(u)' = HeldBy(u) /\ Held(u)' = Held(u)
    BY HeldStays
  <2>2. /\ Ready(u) \in Nat /\ Waiting(u) \in Nat /\ Held(u) \in Nat
        /\ Ready(u) + Waiting(u) + Held(u) + Same(cpu, u) = Due(pc[u])
    BY <1>1, Parts
  <2>3. Same(u, h) = Same(h, u) /\ Same(u, cpu) = Same(cpu, u)
        /\ Same(h, u) \in {0, 1} /\ Same(cpu, u) \in {0, 1} /\ Same(cpu, u)' = Same(h, u)
    BY DEF Same
  <2>4. /\ Ready(u)' + Same(u, h) = Listed(q, u) + Same(u, cpu) /\ Ready(u)' \in Nat
        /\ Listed(q, u) + Waiting(u)' = Ready(u) + Waiting(u)
        /\ Listed(q, u) \in Nat /\ Waiting(u)' \in Nat
    BY <1>2
  <2>5. (Ready(u) + Waiting(u) + Held(u) + Same(cpu, u) = Due(pc[u]))'
    <3> HIDE DEF h
    <3> DEFINE a == Ready(u)'     b == Waiting(u)'   c == Same(h, u)
               d == Listed(q, u)  e == Same(cpu, u)  n == Ready(u) + Waiting(u)
    <3>1. /\ a \in Nat /\ b \in Nat /\ c \in Nat /\ d \in Nat /\ e \in Nat /\ n \in Nat
          /\ a + c = d + e /\ d + b = n
      BY <2>2, <2>3, <2>4
    <3>2. a + b + c = n + e
      <4> HIDE DEF a, b, c, d, e, n
      <4> QED
        BY <3>1
    <3>3. Held(u)' = Held(u) /\ Due(pc[u])' = Due(pc[u]) /\ Same(cpu, u)' = c
      BY <2>1, <2>3
    <3>4. n + Held(u) + e = Due(pc[u]) /\ Held(u) \in Nat
      BY <2>2
    <3>5. a + b + Held(u) + c = Due(pc[u])
      <4> HIDE DEF a, b, c, d, e, n
      <4> QED
        BY <3>1, <3>2, <3>4
    <3> QED
      BY <3>3, <3>5
  <2>6. IsFiniteSet(HeldBy(u))'
    BY <1>1, <2>1 DEF Tracked
  <2> QED
    BY <1>2, <2>5, <2>6, PartsTrack
<1>4. h \in Threads /\ pc[h] # "exitSwitch"
  BY <1>1, <1>2 DEF Known
<1>5. Known'
  BY <1>1, <1>4 DEF Known
<1> QED
  BY <1>3, <1>5 DEF SchedInv

(* A voluntary yield.                                                      *)
LEMMA YieldKeepsSched ==
  ASSUME IInv, SchedInv, NEW t \in Threads, minithread_yield(t)
  PROVE  SchedInv'
<1>1. /\ fault = "none" /\ cpu = t /\ pc[t] = "user"
      /\ UNCHANGED <<pc, to_run, waitQueue>>
  BY DEF minithread_yield, At, exitVars, semVars
<1>2. Known /\ (\A u \in Threads : Tracked(u)) /\ TypeOK
  BY <1>1, Runs
<1>3. ASSUME NEW l \in Levels, multiqueue[l] # <<>>,
             multiqueue' = Enqueue(Without(multiqueue, l), level[t], t),
             runningThread' = Head(multiqueue[l]),
             minithread_switch(Head(multiqueue[l]))
      PROVE  SchedInv'
  <2>1. multiqueue \in ReadyQueues /\ level[t] \in Levels
    BY <1>2 DEF TypeOK, ReadyQueues
  <2>2. \A u \in Threads :
            /\ IsFiniteSet(PlacesIn(multiqueue, u)) /\ IsFiniteSet(PlacesIn(waitQueue, u))'
            /\ Waiting(u)' = Waiting(u)
    BY <1>1, <1>2 DEF Tracked, Waiting
  <2>3. \A u \in Threads : Listed(multiqueue, u) \in Nat /\ Waiting(u) \in Nat
                           /\ Ready(u) = Listed(multiqueue, u)
    BY <1>2, Parts DEF Ready
  <2>4. cpu' = Head(multiqueue[l]) /\ interrupt_level' = "ENABLED"
    BY <1>3 DEF minithread_switch
  <2> QED
    BY <1>1, <1>3, <2>1, <2>2, <2>3, <2>4, SwapKeepsSched
<1>4. CASE UNCHANGED <<runningThread, cpu, multiqueue, fault>>
  <2>1. \A u \in Threads : HeldBy(u)' = HeldBy(u)
    BY <1>1, HeldStays
  <2>2. \A u \in Threads : Tracked(u)'
    BY <1>1, <1>2, <1>4, <2>1, NothingMoves
  <2>3. Known'
    BY <1>1, <1>2, <1>4 DEF Known
  <2> QED
    BY <2>2, <2>3 DEF SchedInv
<1> QED
  BY <1>3, <1>4 DEF minithread_yield, TakesFrom

(* A tick.  One that preempts a thread that is not the running one kills   *)
(* the process: an exiting thread is the one case.                         *)
LEMMA ClockKeepsSched ==
  ASSUME IInv, SchedInv, NEW s \in InterruptSems \cup {NULL}, NEW start \in Levels,
         clock_handler(s, start)
  PROVE  SchedInv'
<1>1. /\ fault = "none" /\ interrupt_level = "ENABLED" /\ Alarms(s)
      /\ UNCHANGED <<pc, to_run>>
  BY DEF clock_handler, exitVars
<1>2. /\ Known /\ (\A u \in Threads : Tracked(u)) /\ TypeOK /\ cpu \in Threads
      /\ pc[cpu] # "exitSwitch" => runningThread = cpu
  BY <1>1, Runs
<1> DEFINE q == AfterAlarms(s)
<1>3. \A u \in Threads :
          /\ IsFiniteSet(PlacesIn(q, u)) /\ IsFiniteSet(PlacesIn(waitQueue, u))'
          /\ Listed(q, u) \in Nat /\ Waiting(u)' \in Nat
          /\ Listed(q, u) + Waiting(u)' = Ready(u) + Waiting(u)
  <2>1. CASE s = NULL
    <3>1. q = multiqueue /\ waitQueue' = waitQueue
      BY <1>1, <2>1 DEF Alarms, AfterAlarms, semVars
    <3>2. \A u \in Threads : Ready(u) \in Nat /\ Waiting(u) \in Nat
      BY <1>2, Parts
    <3> QED
      BY <1>2, <3>1, <3>2 DEF Tracked, Ready, Waiting
  <2>2. CASE s # NULL
    <3>1. s \in Sems /\ VEffect(s) /\ q = Woken(s)
      BY <1>1, <2>2, SemsAssumption DEF Alarms, AfterAlarms
    <3> QED
      BY <1>2, <3>1, VMoves
  <2> QED
    BY <2>1, <2>2
<1>4. q \in ReadyQueues
  <2>1. CASE s = NULL
    BY <1>2, <2>1 DEF AfterAlarms, ReadyQueues, TypeOK
  <2>2. CASE s # NULL
    BY <2>2, SemsAssumption, WokenType DEF AfterAlarms, IInv
  <2> QED
    BY <2>1, <2>2
<1> HIDE DEF q
<1>5. CASE TickOnly(s)
  <2>1. multiqueue' = q /\ UNCHANGED <<runningThread, cpu, interrupt_level, fault>>
    BY <1>5 DEF TickOnly, q
  <2>2. ASSUME NEW u \in Threads PROVE Tracked(u)'
    <3>1. HeldBy(u)' = HeldBy(u) /\ Held(u)' = Held(u)
      BY <1>1, HeldStays
    <3>2. /\ Ready(u) \in Nat /\ Waiting(u) \in Nat /\ Held(u) \in Nat
          /\ Ready(u) + Waiting(u) + Held(u) + Same(cpu, u) = Due(pc[u])
      BY <1>2, Parts
    <3>3. Ready(u)' = Listed(q, u) /\ Same(cpu, u)' = Same(cpu, u)
      BY <2>1 DEF Ready
    <3>4. Same(cpu, u) \in {0, 1}
      BY DEF Same
    <3>5. (Ready(u) + Waiting(u) + Held(u) + Same(cpu, u) = Due(pc[u]))'
      BY <1>1, <1>3, <3>1, <3>2, <3>3, <3>4
    <3>6. IsFiniteSet(HeldBy(u))'
      BY <1>2, <3>1 DEF Tracked
    <3> QED
      BY <1>3, <2>1, <3>5, <3>6, PartsTrack
  <2>3. Known'
    BY <1>1, <1>2, <2>1 DEF Known
  <2> QED
    BY <2>2, <2>3 DEF SchedInv
<1>6. CASE Preempt(s, start)
  <2>1. PICK l \in Levels :
          /\ q[l] # <<>>
          /\ multiqueue' = Enqueue(Without(q, l), NextLevel(runningThread), runningThread)
          /\ runningThread' = Head(q[l])
          /\ cpu' = Head(q[l])
          /\ interrupt_level' = "ENABLED"
          /\ fault' = CASE cpu # runningThread -> "lostContext"
                        [] cpu = runningThread /\ Head(q[l]) \in freed -> "freedStack"
                        [] OTHER                -> fault
    BY <1>6 DEF Preempt, TakesFrom, q
  <2>2. CASE pc[cpu] # "exitSwitch"
    <3>1. runningThread = cpu /\ level[cpu] \in Levels /\ MaxLevel \in Nat
      BY <1>2, <2>2, LevelsAssumption DEF TypeOK
    <3>2. NextLevel(cpu) \in Levels
      BY <3>1 DEF NextLevel, Levels
    <3> QED
      BY <1>1, <1>3, <1>4, <2>1, <2>2, <3>1, <3>2, SwapKeepsSched
  <2>3. CASE pc[cpu] = "exitSwitch"
    <3>1. to_run[cpu] # cpu
      BY <1>2, <2>3, RunnerIsAlone DEF HeldBy
    <3>2. cpu # runningThread
      BY <1>2, <2>3, <3>1 DEF Known
    <3>3. fault' = "lostContext"
      BY <2>1, <3>2
    <3> QED
      BY <3>3 DEF SchedInv
  <2> QED
    BY <2>2, <2>3
<1> QED
  BY <1>5, <1>6 DEF clock_handler

(* A new thread u joins the ready queue.                                   *)
LEMMA NewThreadTracked ==
  ASSUME TypeOK, \A x \in Threads : Tracked(x), NEW u \in Threads,
         multiqueue' = Enqueue(multiqueue, 0, u),
         UNCHANGED <<waitQueue, cpu>>,
         \A x \in Threads : /\ HeldBy(x)' = HeldBy(x)
                            /\ Due(pc'[x]) = Due(pc[x]) + Same(x, u)
  PROVE  \A x \in Threads : Tracked(x)'
<1> SUFFICES ASSUME NEW x \in Threads PROVE Tracked(x)'
  OBVIOUS
<1>1. 0 \in Levels
  BY LevelsAssumption DEF Levels
<1>2. IsFiniteSet(PlacesIn(multiqueue, x))' /\ Ready(x)' = Ready(x) + Same(x, u)
  BY <1>1, PutInReady
<1>3. /\ Ready(x) \in Nat /\ Waiting(x) \in Nat /\ Held(x) \in Nat
      /\ Ready(x) + Waiting(x) + Held(x) + Same(cpu, x) = Due(pc[x])
  BY Parts
<1>4. /\ Waiting(x)' = Waiting(x) /\ Held(x)' = Held(x) /\ Same(cpu, x)' = Same(cpu, x)
      /\ IsFiniteSet(PlacesIn(waitQueue, x))' /\ IsFiniteSet(HeldBy(x))'
  BY DEF Waiting, Held, Tracked
<1>5. Same(x, u) \in Int /\ Same(cpu, x) \in Int
  BY DEF Same
<1>6. (Ready(x) + Waiting(x) + Held(x) + Same(cpu, x) = Due(pc[x]))'
  BY <1>2, <1>3, <1>4, <1>5
<1> QED
  BY <1>2, <1>4, <1>6, PartsTrack

(* A fork.                                                                 *)
LEMMA ForkKeepsSched ==
  ASSUME IInv, SchedInv, NEW t \in Threads, NEW u \in Threads, minithread_fork(t, u)
  PROVE  SchedInv'
<1>1. /\ fault = "none" /\ cpu = t /\ pc[t] = "user" /\ pc[u] = "unborn"
      /\ pc' = [pc EXCEPT ![u] = "user"] /\ multiqueue' = Enqueue(multiqueue, 0, u)
      /\ UNCHANGED <<waitQueue, cpu, runningThread, interrupt_level, to_run>>
  BY DEF minithread_fork, At, Goto, semVars, exitVars
<1>2. /\ Known /\ \A x \in Threads : Tracked(x)
      /\ TypeOK /\ runningThread = t
  BY <1>1, Runs
<1>3. \A x \in Threads : HeldBy(x)' = HeldBy(x)
  BY <1>1, <1>2, HeldStays DEF TypeOK
<1>4. \A x \in Threads : Due(pc'[x]) = Due(pc[x]) + Same(x, u)
  BY <1>1, <1>2 DEF Due, Same, TypeOK
<1>5. \A x \in Threads : Tracked(x)'
  BY <1>1, <1>2, <1>3, <1>4, NewThreadTracked
<1>6. Known'
  BY <1>1, <1>2 DEF Known, TypeOK
<1> QED
  BY <1>5, <1>6 DEF SchedInv

(* An exiting thread moves on, and nothing else does.                      *)
LEMMA ExitStaysTracked ==
  ASSUME IInv, SchedInv, NEW t \in Threads, fault = "none", cpu = t,
         pc[t] \notin {"unborn", "gone", "spin", "found", "exitSet", "exitSwitch"},
         NEW p \in Places,
         p \notin {"unborn", "gone", "spin", "found", "exitSet", "exitSwitch"},
         pc' = [pc EXCEPT ![t] = p],
         UNCHANGED <<multiqueue, waitQueue, cpu, runningThread, to_run>>
  PROVE  SchedInv'
<1>2. /\ Known /\ \A x \in Threads : Tracked(x)
      /\ TypeOK /\ runningThread = t
  BY Runs
<1>3. \A x \in Threads : HeldBy(x)' = HeldBy(x)
  BY <1>2, HeldStays DEF TypeOK
<1>4. \A x \in Threads : Due(pc'[x]) = Due(pc[x])
  BY <1>2 DEF Due, TypeOK
<1>5. \A x \in Threads : Tracked(x)'
  BY <1>2, <1>3, <1>4, NothingMoves
<1>6. Known'
  BY <1>2 DEF Known, TypeOK
<1> QED
  BY <1>5, <1>6 DEF SchedInv

(* minithread_exit up to its dequeue, and the cleanup threads.             *)
LEMMA ExitStartKeepsSched ==
  ASSUME IInv, SchedInv, NEW t \in Threads,
         ExitAppend(t) \/ ExitCheck(t) \/ ExitOld(t) \/ ExitSwap(t) \/ ExitSeesReady(t) \/ minithread_cleanup(t)
  PROVE  SchedInv'
<1>1. CASE ExitAppend(t)
  BY <1>1, ExitStaysTracked
     DEF ExitAppend, At, Goto, schedVars, semVars, Places
<1>2. CASE ExitSeesReady(t)
  BY <1>2, ExitStaysTracked
     DEF ExitSeesReady, At, Goto, schedVars, semVars, exitVars, Places
<1>3. CASE minithread_cleanup(t)
  <2>1. /\ UNCHANGED <<multiqueue, waitQueue, cpu, runningThread, interrupt_level, to_run, pc>>
        /\ fault = "none" /\ cpu = t /\ pc[t] = "cleanup"
    BY <1>3 DEF minithread_cleanup, At, schedVars, semVars
  <2>2. Known /\ \A x \in Threads : Tracked(x)
    BY <2>1, Runs
  <2>3. \A x \in Threads : HeldBy(x)' = HeldBy(x)
    BY <2>1, HeldStays
  <2>4. \A x \in Threads : Tracked(x)'
    BY <2>1, <2>2, <2>3, NothingMoves
  <2> QED
    BY <2>1, <2>2, <2>4 DEF Known, SchedInv
<1>4. CASE ExitSwap(t)
  <2>1. /\ fault = "none" /\ cpu = t /\ pc[t] = "exitSwap"
        /\ UNCHANGED <<waitQueue, cpu, runningThread, interrupt_level, to_run>>
    BY <1>4 DEF ExitSwap, At, semVars
  <2>2. PICK c \in Cleaners :
           /\ pc[c] = "unborn"
           /\ pc' = [pc EXCEPT ![t] = "exitTake", ![c] = "cleanup"]
           /\ multiqueue' = Enqueue(multiqueue, 0, c)
    BY <1>4 DEF ExitSwap
  <2>3. c \in Threads /\ c # t
    BY <2>1, <2>2, ThreadsAssumption
  <2>4. /\ Known /\ \A x \in Threads : Tracked(x)
        /\ TypeOK /\ runningThread = t
    BY <2>1, Runs
  <2>5. \A x \in Threads : \/ x = t /\ pc'[x] = "exitTake"
                           \/ x = c /\ pc'[x] = "cleanup"
                           \/ x # t /\ x # c /\ pc'[x] = pc[x]
    BY <2>2, <2>3, <2>4 DEF TypeOK
  <2>6. \A x \in Threads : HeldBy(x)' = HeldBy(x)
    BY <2>1, <2>2, <2>5, HeldStays
  <2>7. \A x \in Threads : Due(pc'[x]) = Due(pc[x]) + Same(x, c)
    BY <2>1, <2>2, <2>3, <2>4, <2>5 DEF Due, Same, TypeOK
  <2>8. \A x \in Threads : Tracked(x)'
    BY <2>1, <2>2, <2>3, <2>4, <2>6, <2>7, NewThreadTracked
  <2>9. Known'
    BY <2>1, <2>4, <2>5 DEF Known
  <2> QED
    BY <2>8, <2>9 DEF SchedInv
<1>5. CASE ExitCheck(t)
  BY <1>5, ExitStaysTracked
     DEF ExitCheck, At, Goto, schedVars, semVars, exitVars, Places
<1>6. CASE ExitOld(t)
  <2>1. CASE fault' = "sharedFinished"
    BY <2>1 DEF SchedInv
  <2>2. CASE Goto(t, "exitSwap")
    BY <1>6, <2>2, ExitStaysTracked
       DEF ExitOld, At, Goto, schedVars, semVars, exitVars, Places
  <2> QED
    BY <1>6, <2>1, <2>2 DEF ExitOld
<1> QED
  BY <1>1, <1>2, <1>3, <1>4, <1>5, <1>6

(* The dequeues of minithread_exit: the thread that is to run next is held *)
(* by the exiting thread.                                                  *)
LEMMA ExitTakeKeepsSched ==
  ASSUME IInv, SchedInv, NEW t \in Threads, ExitTake(t) \/ ExitTakesAgain(t)
  PROVE  SchedInv'
<1>1. /\ fault = "none" /\ cpu = t /\ pc[t] \in {"exitTake", "exitFound"}
      /\ waitQueue' = waitQueue
  BY DEF ExitTake, ExitTakesAgain, At, semVars
<1>2. /\ Known /\ \A x \in Threads : Tracked(x)
      /\ TypeOK /\ runningThread = t
  BY <1>1, Runs
<1>3. CASE /\ pc' = [pc EXCEPT ![t] = "exitSpin"]
           /\ UNCHANGED <<runningThread, cpu, multiqueue, to_run>>
  BY <1>1, <1>3, ExitStaysTracked DEF Places
<1>4. CASE NullSwitch
  BY <1>4 DEF NullSwitch, SchedInv
<1>5. ASSUME NEW start \in Levels, ExitDequeues(t, start) PROVE SchedInv'
  <2>1. PICK l \in Levels :
          /\ multiqueue[l] # <<>>
          /\ to_run' = [to_run EXCEPT ![t] = Head(multiqueue[l])]
          /\ multiqueue' = Without(multiqueue, l)
          /\ pc' = [pc EXCEPT ![t] = "exitSet"]
          /\ UNCHANGED <<runningThread, cpu, interrupt_level, fault>>
    BY <1>5 DEF ExitDequeues, TakesFrom, Goto
  <2> DEFINE h == Head(multiqueue[l])
  <2>2. \A x \in Threads :
           /\ h \in Threads
           /\ IsFiniteSet(PlacesIn(multiqueue, x))' /\ Ready(x)' \in Nat
           /\ Ready(x) = Ready(x)' + Same(x, h)
    BY <1>2, <2>1, TakenFromReady
  <2> HIDE DEF h
  <2>3. HeldBy(t) = {}
    BY <1>1, <1>2, RunnerIsAlone
  <2>4. ASSUME NEW x \in Threads
        PROVE  /\ IsFiniteSet(HeldBy(x))'
               /\ Held(x)' = Held(x) + Same(x, h)
    <3>1. IsFiniteSet(HeldBy(x)) /\ Held(x) \in Nat
      BY <1>2, Parts DEF Tracked
    <3>2. t \notin HeldBy(x)
      BY <1>1 DEF HeldBy
    <3>3. CASE x = h
      <4>1. HeldBy(x)' = HeldBy(x) \cup {t}
        BY <1>1, <1>2, <2>1, <3>3 DEF HeldBy, TypeOK, h
      <4>2. IsFiniteSet(HeldBy(x) \cup {t})
            /\ Cardinality(HeldBy(x) \cup {t}) = Held(x) + 1
        BY <3>1, <3>2, FS_AddElement DEF Held
      <4>3. Held(x)' = Held(x) + 1
        BY <4>1, <4>2 DEF Held
      <4> QED
        BY <3>3, <4>1, <4>2, <4>3 DEF Same
    <3>4. CASE x # h
      <4>1. HeldBy(x)' = HeldBy(x)
        BY <1>1, <1>2, <2>1, <3>4 DEF HeldBy, TypeOK, h
      <4> QED
        BY <3>1, <3>4, <4>1 DEF Held, Same
    <3> QED
      BY <3>3, <3>4
  <2>5. ASSUME NEW x \in Threads PROVE Tracked(x)'
    <3>1. /\ Ready(x) \in Nat /\ Waiting(x) \in Nat /\ Held(x) \in Nat
          /\ Ready(x) + Waiting(x) + Held(x) + Same(cpu, x) = Due(pc[x])
      BY <1>2, Parts
    <3>2. Due(pc'[x]) = Due(pc[x])
      BY <1>1, <1>2, <2>1 DEF Due, TypeOK
    <3>3. Waiting(x)' = Waiting(x) /\ IsFiniteSet(PlacesIn(waitQueue, x))'
          /\ Same(cpu, x)' = Same(cpu, x)
      BY <1>1, <1>2, <2>1 DEF Waiting, Tracked
    <3>4. Same(x, h) \in Int /\ Same(cpu, x) \in Int
      BY DEF Same
    <3>5. (Ready(x) + Waiting(x) + Held(x) + Same(cpu, x) = Due(pc[x]))'
      BY <2>2, <2>4, <3>1, <3>2, <3>3, <3>4
    <3> QED
      BY <2>2, <2>4, <3>3, <3>5, PartsTrack
  <2>6. Known'
    BY <1>1, <1>2, <2>1 DEF Known, TypeOK
  <2> QED
    BY <2>5, <2>6 DEF SchedInv
<1>6. 0 \in Levels
  BY LevelsAssumption DEF Levels
<1> QED
  BY <1>3, <1>4, <1>5, <1>6 DEF ExitTake, ExitTakesAgain, Goto

(* The end of minithread_exit: the thread that was held gets the processor.*)
LEMMA ExitSwitchKeepsSched ==
  ASSUME IInv, SchedInv, NEW t \in Threads, ExitSetRunning(t) \/ ExitSwitch(t)
  PROVE  SchedInv'
<1>1. /\ fault = "none" /\ cpu = t /\ pc[t] \in {"exitSet", "exitSwitch"}
      /\ UNCHANGED <<waitQueue, multiqueue, to_run>>
  BY DEF ExitSetRunning, ExitSwitch, At, semVars, exitVars
<1>2. Known /\ (\A x \in Threads : Tracked(x)) /\ TypeOK
  BY <1>1, Runs
<1>3. CASE ExitSetRunning(t)
  <2>1. /\ runningThread' = to_run[t] /\ pc[t] = "exitSet" /\ cpu' = cpu
        /\ pc' = [pc EXCEPT ![t] = "exitSwitch"] /\ interrupt_level' = interrupt_level
    BY <1>3 DEF ExitSetRunning, At, Goto
  <2>2. \A x \in Threads : HeldBy(x)' = HeldBy(x)
    BY <1>1, <1>2, <2>1, HeldStays DEF TypeOK
  <2>3. \A x \in Threads : Due(pc'[x]) = Due(pc[x])
    BY <1>2, <2>1 DEF Due, TypeOK
  <2>4. \A x \in Threads : Tracked(x)'
    BY <1>1, <1>2, <2>1, <2>2, <2>3, NothingMoves
  <2>5. Known'
    BY <1>1, <1>2, <2>1 DEF Known, TypeOK
  <2> QED
    BY <2>4, <2>5 DEF SchedInv
<1>4. CASE ExitSwitch(t)
  <2> DEFINE h == to_run[t]
  <2>1. /\ pc[t] = "exitSwitch" /\ cpu' = h /\ interrupt_level' = "ENABLED"
        /\ pc' = [pc EXCEPT ![t] = "gone"] /\ runningThread' = runningThread
    BY <1>4 DEF ExitSwitch, At, Goto, minithread_switch
  <2>2. h \in Threads /\ t \in HeldBy(h) /\ HeldBy(t) = {}
    <3>1. h \in Threads
      BY <2>1 DEF IInv, ExitHasChosen
    <3>2. HeldBy(t) = {}
      BY <1>1, <1>2, RunnerIsAlone
    <3>3. t \in HeldBy(h)
      BY <2>1 DEF HeldBy
    <3> QED
      BY <3>1, <3>2, <3>3
  <2>3. h # t /\ runningThread = h /\ pc[h] # "exitSwitch"
    BY <1>1, <1>2, <2>1, <2>2 DEF Known
  <2>4. ASSUME NEW x \in Threads
        PROVE  /\ IsFiniteSet(HeldBy(x))' /\ Held(x)' \in Nat
               /\ Held(x) = Held(x)' + Same(x, h)
    <3>1. IsFiniteSet(HeldBy(x)) /\ Held(x) \in Nat
      BY <1>2, Parts DEF Tracked
    <3>2. HeldBy(x)' = HeldBy(x) \ {t}
      BY <1>1, <1>2, <2>1 DEF HeldBy, TypeOK
    <3>3. t \in HeldBy(x) <=> x = h
      BY <2>1 DEF HeldBy
    <3>4. /\ IsFiniteSet(HeldBy(x) \ {t})
          /\ Cardinality(HeldBy(x) \ {t})
               = IF t \in HeldBy(x) THEN Held(x) - 1 ELSE Held(x)
      BY <3>1, FS_RemoveElement DEF Held
    <3>5. Held(x)' = Cardinality(HeldBy(x) \ {t}) /\ Cardinality(HeldBy(x) \ {t}) \in Nat
      BY <3>2, <3>4, FS_CardinalityType DEF Held
    <3> HIDE DEF h
    <3> QED
      BY <3>1, <3>2, <3>3, <3>4, <3>5 DEF Same
  <2> HIDE DEF h
  <2>5. ASSUME NEW x \in Threads PROVE Tracked(x)'
    <3>1. /\ Ready(x) \in Nat /\ Waiting(x) \in Nat /\ Held(x) \in Nat
          /\ Ready(x) + Waiting(x) + Held(x) + Same(cpu, x) = Due(pc[x])
      BY <1>2, Parts
    <3>2. Due(pc'[x]) = Due(pc[x]) - Same(x, t)
      BY <1>1, <1>2, <2>1 DEF Due, TypeOK, Same
    <3>3. /\ Waiting(x)' = Waiting(x) /\ IsFiniteSet(PlacesIn(waitQueue, x))'
          /\ Ready(x)' = Ready(x) /\ IsFiniteSet(PlacesIn(multiqueue, x))'
      BY <1>1, <1>2 DEF Waiting, Ready, Tracked
    <3>4. /\ Same(x, h) \in Int /\ Same(cpu, x) \in Int
          /\ Same(x, t) = Same(cpu, x) /\ Same(cpu, x)' = Same(x, h)
      BY <1>1, <2>1 DEF Same
    <3>5. (Ready(x) + Waiting(x) + Held(x) + Same(cpu, x) = Due(pc[x]))'
      BY <2>4, <3>1, <3>2, <3>3, <3>4
    <3> QED
      BY <2>4, <3>3, <3>5, PartsTrack
  <2>6. Known'
    BY <1>1, <1>2, <2>1, <2>3 DEF Known, TypeOK
  <2> QED
    BY <2>5, <2>6 DEF SchedInv
<1> QED
  BY <1>3, <1>4

(* Initially the main thread runs and no other thread exists.              *)
LEMMA InitSched == Init => SchedInv
<1> SUFFICES ASSUME Init PROVE SchedInv
  OBVIOUS
<1>1. ASSUME NEW t \in Threads PROVE Tracked(t)
  <2>1. PlacesIn(multiqueue, t) = {} /\ PlacesIn(waitQueue, t) = {}
    BY DEF Init, PlacesIn
  <2>2. HeldBy(t) = {}
    BY DEF Init, HeldBy
  <2>3. Due(pc[t]) = IF t = cpu THEN 1 ELSE 0
    BY DEF Init, Due
  <2> QED
    BY <2>1, <2>2, <2>3, FS_EmptySet DEF Tracked, References
<1>2. Known
  BY ThreadsAssumption DEF Init, Known
<1> QED
  BY <1>1, <1>2 DEF SchedInv

(* Every step keeps the threads accounted for.                             *)
LEMMA NextKeepsSched ==
  ASSUME IInv, SchedInv, [Next]_vars
  PROVE  SchedInv'
<1>1. ASSUME NEW t \in Threads, Call(t) PROVE SchedInv'
  BY <1>1, PKeepsSched, VKeepsSched, YieldKeepsSched, ForkKeepsSched,
     ExitStartKeepsSched DEF Call
<1>2. ASSUME NEW t \in Threads, Continue(t) PROVE SchedInv'
  BY <1>2, StopKeepsSched, ExitStartKeepsSched, ExitTakeKeepsSched,
     ExitSwitchKeepsSched DEF Continue
<1>3. ASSUME NEW s \in InterruptSems, Interrupt(s) PROVE SchedInv'
  BY <1>3, VKeepsSched, SemsAssumption
<1>4. ASSUME NEW s \in InterruptSems \cup {NULL}, NEW start \in Levels,
             clock_handler(s, start)
      PROVE  SchedInv'
  BY <1>4, ClockKeepsSched
<1>5. CASE UNCHANGED vars
  BY <1>5 DEF vars, schedVars, semVars, exitVars, SchedInv, Known, Tracked,
     References, HeldBy
<1> QED
  BY <1>1, <1>2, <1>3, <1>4, <1>5 DEF Next, Dead

(* Who runs is known, and each thread is where its place says it is, in    *)
(* every reachable state: the invariant the four theorems below rest on.   *)
THEOREM ThreadsTracked == Spec => []SchedInv
<1>1. Init => SchedInv
  BY InitSched
<1>2. IInv /\ SchedInv /\ [Next]_vars => SchedInv'
  BY NextKeepsSched
<1> QED
  BY <1>1, <1>2, InductiveInvariant, PTL DEF Spec

(* No thread is lost, and none is scheduled twice, whatever the interrupts,*)
(* preemptions, forks and exits.                                           *)
THEOREM ThreadsKept == Spec => []NoThreadLost
<1>1. SchedInv => NoThreadLost
  BY DEF SchedInv, Tracked, NoThreadLost, Due
<1> QED
  BY <1>1, ThreadsTracked, PTL

(* A P returns only after the V that pays for it.                          *)
THEOREM PaidBeforeReturn == Spec => []NoReturnBeforeV
<1>1. IInv /\ SchedInv => NoReturnBeforeV
  BY RunnerIsAlone DEF SchedInv, NoReturnBeforeV, Waits, IInv, TypeOK
<1> QED
  BY <1>1, InductiveInvariant, ThreadsTracked, PTL

(* A thread that idles in minithread_stop takes interrupts.                *)
THEOREM IdleIsInterruptible == Spec => []IdleTakesInterrupts
<1>1. SchedInv => IdleTakesInterrupts
  BY DEF SchedInv, Known, IdleTakesInterrupts
<1> QED
  BY <1>1, ThreadsTracked, PTL

(* minithread_self answers who runs, except between the last two steps of  *)
(* minithread_exit.                                                        *)
THEOREM SelfIsKnown == Spec => []SelfIsCaller
<1>1. SchedInv => SelfIsCaller
  BY DEF SchedInv, Known, SelfIsCaller
<1> QED
  BY <1>1, ThreadsTracked, PTL

(***************************************************************************)
(* The refinement of Semaphore.                                            *)
(***************************************************************************)
(* A step that neither moves a count nor lets a thread in or out of a P is *)
(* a stutter of the abstract semaphores.                                   *)
LEMMA StutterRefines ==
  ASSUME UNCHANGED <<count, waitQueue>>,
         \A t \in Threads : InP(t)' = InP(t)
  PROVE  UNCHANGED AbstractSemaphores!vars
<1>1. {t \in Threads : InP(t)}' = {t \in Threads : InP(t)}
  OBVIOUS
<1> QED
  BY <1>1 DEF AbstractSemaphores!vars

(* A V, by whomever, is the abstract V: the value grows exactly when       *)
(* nobody waits, because the count tells the length of the queue.          *)
LEMMA VRefines ==
  ASSUME IInv, NEW s \in Sems, VEffect(s), pc' = pc
  PROVE  AbstractSemaphores!V(s)
<1>1. /\ count \in [Sems -> Int] /\ waitQueue \in [Sems -> Seq(Threads)]
      /\ count' = [count EXCEPT ![s] = @ + 1]
  BY DEF IInv, TypeOK, VEffect
<1>2. {t \in Threads : InP(t)}' = {t \in Threads : InP(t)}
  BY DEF InP
<1>3. CASE count[s] < 0
  <2>1. waitQueue[s] # <<>> /\ waitQueue' = [waitQueue EXCEPT ![s] = Tail(@)]
    BY <1>3, WaiterExists DEF IInv, VEffect
  <2>2. [r \in Sems |-> IF count'[r] > 0 THEN count'[r] ELSE 0]
          = [r \in Sems |-> IF count[r] > 0 THEN count[r] ELSE 0]
    BY <1>1, <1>3
  <2> QED
    BY <1>2, <2>1, <2>2 DEF AbstractSemaphores!V
<1>4. CASE ~(count[s] < 0)
  <2>1. waitQueue' = waitQueue
    BY <1>1, <1>4 DEF VEffect
  <2>2. waitQueue[s] = <<>>
    <3>1. Len(waitQueue[s]) = 0 /\ waitQueue[s] \in Seq(Threads)
      BY <1>1, <1>4 DEF IInv, CountMatchesQueue
    <3> QED
      BY <3>1, EmptySeq
  <2>3. [r \in Sems |-> IF count'[r] > 0 THEN count'[r] ELSE 0]
          = [[r \in Sems |-> IF count[r] > 0 THEN count[r] ELSE 0] EXCEPT ![s] = @ + 1]
    <3> DEFINE f == [r \in Sems |-> IF count[r] > 0 THEN count[r] ELSE 0]
               g == [r \in Sems |-> IF count'[r] > 0 THEN count'[r] ELSE 0]
    <3>1. f \in [Sems -> Int] /\ g \in [Sems -> Int]
      BY <1>1
    <3>2. g[s] = f[s] + 1 /\ \A r \in Sems \ {s} : g[r] = f[r]
      BY <1>1, <1>4
    <3> HIDE DEF f, g
    <3>3. g = [f EXCEPT ![s] = @ + 1]
      BY <3>1, <3>2
    <3> QED
      BY <3>3 DEF f, g
  <2> QED
    BY <1>2, <2>1, <2>2, <2>3 DEF AbstractSemaphores!V
<1> QED
  BY <1>3, <1>4

(* A P that passes is the abstract P that passes; one that has to wait is  *)
(* the abstract P that waits.                                              *)
LEMMA PRefines ==
  ASSUME IInv, SchedInv, NEW t \in Threads, NEW s \in Sems, semaphore_P(t, s)
  PROVE  AbstractSemaphores!PassP(t, s) \/ AbstractSemaphores!WaitP(t, s)
<1>1. /\ fault = "none" /\ cpu = t /\ pc[t] = "user"
      /\ count' = [count EXCEPT ![s] = @ - 1]
  BY DEF semaphore_P, At
<1>2. TypeOK /\ runningThread = t
  BY <1>1, Runs
<1>3. count \in [Sems -> Int] /\ pc \in [Threads -> Places]
  BY <1>2 DEF TypeOK
<1>4. t \notin {u \in Threads : InP(u)}
  BY <1>1 DEF InP
<1>5. CASE count[s] > 0 /\ UNCHANGED <<pc, waitQueue>>
  <2>1. {u \in Threads : InP(u)}' = {u \in Threads : InP(u)}
    BY <1>5 DEF InP
  <2>2. [r \in Sems |-> IF count'[r] > 0 THEN count'[r] ELSE 0]
          = [[r \in Sems |-> IF count[r] > 0 THEN count[r] ELSE 0] EXCEPT ![s] = @ - 1]
    <3> DEFINE f == [r \in Sems |-> IF count[r] > 0 THEN count[r] ELSE 0]
               g == [r \in Sems |-> IF count'[r] > 0 THEN count'[r] ELSE 0]
    <3>1. f \in [Sems -> Int] /\ g \in [Sems -> Int]
      BY <1>1, <1>3
    <3>2. g[s] = f[s] - 1 /\ \A r \in Sems \ {s} : g[r] = f[r]
      BY <1>1, <1>3, <1>5
    <3> HIDE DEF f, g
    <3>3. g = [f EXCEPT ![s] = @ - 1]
      BY <3>1, <3>2
    <3> QED
      BY <3>3 DEF f, g
  <2> QED
    BY <1>3, <1>4, <1>5, <2>1, <2>2 DEF AbstractSemaphores!PassP
<1>6. CASE count[s] <= 0 /\ JoinWaitQueue(s) /\ minithread_stop(t)
  <2>1. pc' = [pc EXCEPT ![t] = "blocked"] \/ pc' = [pc EXCEPT ![t] = "spin"]
    BY <1>6 DEF minithread_stop, SwitchToReady, Goto
  <2>2. {u \in Threads : InP(u)}' = {u \in Threads : InP(u)} \cup {t}
    BY <1>3, <2>1 DEF InP
  <2>3. [r \in Sems |-> IF count'[r] > 0 THEN count'[r] ELSE 0]
          = [r \in Sems |-> IF count[r] > 0 THEN count[r] ELSE 0]
    BY <1>1, <1>3, <1>6
  <2> QED
    BY <1>2, <1>3, <1>4, <1>6, <2>2, <2>3
       DEF AbstractSemaphores!WaitP, JoinWaitQueue
<1> QED
  BY <1>5, <1>6 DEF semaphore_P

(* The thread that returns from its P waits in no queue.                   *)
LEMMA ReturnRefines ==
  ASSUME IInv, SchedInv, NEW t \in Threads, ReturnFromP(t)
  PROVE  AbstractSemaphores!ReturnP(t)
<1>1. /\ fault = "none" /\ cpu = t /\ pc[t] = "blocked"
      /\ pc' = [pc EXCEPT ![t] = "user"]
      /\ UNCHANGED <<count, waitQueue>>
  BY DEF ReturnFromP, At, Goto, semVars
<1>2. TypeOK /\ PlacesIn(waitQueue, t) = {}
  BY <1>1, Runs, RunnerIsAlone
<1>3. ASSUME NEW s \in Sems, NEW i \in DOMAIN waitQueue[s] PROVE waitQueue[s][i] # t
  <2>1. waitQueue \in [Sems -> Seq(Threads)] /\ <<s, i>> \notin PlacesIn(waitQueue, t)
    BY <1>2 DEF TypeOK
  <2> QED
    BY <2>1, PairIs
<1>4. t \in {u \in Threads : InP(u)}
  BY <1>1 DEF InP
<1>5. {u \in Threads : InP(u)}' = {u \in Threads : InP(u)} \ {t}
  BY <1>1, <1>2 DEF InP, TypeOK
<1> QED
  BY <1>1, <1>3, <1>4, <1>5 DEF AbstractSemaphores!ReturnP

(* What minithread_fork, minithread_exit and the idle loop do is invisible *)
(* to the semaphores.                                                      *)
LEMMA RestRefines ==
  ASSUME IInv, NEW t \in Threads,
         \/ minithread_yield(t) \/ (\E u \in Threads : minithread_fork(t, u))
         \/ ExitAppend(t) \/ StopSeesReady(t) \/ StopTakes(t)
         \/ ExitCheck(t) \/ ExitOld(t) \/ ExitSwap(t) \/ ExitTake(t)
         \/ ExitSeesReady(t) \/ ExitTakesAgain(t) \/ ExitSetRunning(t) \/ ExitSwitch(t) \/ minithread_cleanup(t)
  PROVE  UNCHANGED AbstractSemaphores!vars
<1> DEFINE Blocking == {"blocked", "spin", "found"}
<1>1. pc \in [Threads -> Places]
  BY DEF IInv, TypeOK
<1>2. ASSUME UNCHANGED semVars,
             \/ pc' = pc
             \/ \E u \in Threads, p \in Places :
                  /\ pc' = [pc EXCEPT ![u] = p]
                  /\ pc[u] \in Blocking <=> p \in Blocking
      PROVE  UNCHANGED AbstractSemaphores!vars
  <2>1. \A u \in Threads : InP(u)' = InP(u)
    BY <1>1, <1>2 DEF InP
  <2> QED
    BY <1>2, <2>1, StutterRefines DEF semVars
<1>3. CASE minithread_yield(t) \/ minithread_cleanup(t)
  BY <1>2, <1>3 DEF minithread_yield, minithread_cleanup
<1>4. CASE \E u \in Threads : minithread_fork(t, u)
  BY <1>2, <1>4 DEF minithread_fork, At, Goto, Places
<1>5. CASE ExitAppend(t)
  BY <1>2, <1>5 DEF ExitAppend, At, Goto, Places
<1>6. CASE StopSeesReady(t) \/ StopTakes(t)
  BY <1>2, <1>6 DEF StopSeesReady, StopTakes, SwitchToReady, At, Goto, Places
<1>7. CASE ExitSwap(t)
  <2>1. UNCHANGED <<count, waitQueue>> /\ pc[t] = "exitSwap"
    BY <1>7 DEF ExitSwap, At, semVars
  <2>2. \E c \in Cleaners : /\ pc[c] = "unborn"
                            /\ pc' = [pc EXCEPT ![t] = "exitTake", ![c] = "cleanup"]
    BY <1>7 DEF ExitSwap
  <2>3. \A u \in Threads : InP(u)' = InP(u)
    BY <1>1, <2>1, <2>2 DEF InP
  <2> QED
    BY <2>1, <2>3, StutterRefines
<1>8. CASE ExitTake(t) \/ ExitTakesAgain(t)
  BY <1>2, <1>8 DEF ExitTake, ExitTakesAgain, ExitDequeues, At, Goto, Places
<1>9. CASE ExitSeesReady(t) \/ ExitSetRunning(t) \/ ExitSwitch(t)
  BY <1>2, <1>9 DEF ExitSeesReady, ExitSetRunning, ExitSwitch, At, Goto, Places
<1>10. CASE ExitCheck(t) \/ ExitOld(t)
  BY <1>2, <1>10 DEF ExitCheck, ExitOld, At, Goto, Places
<1> QED
  BY <1>3, <1>4, <1>5, <1>6, <1>7, <1>8, <1>9, <1>10

(* A tick is a V of the semaphore an alarm woke, or nothing.               *)
LEMMA ClockRefines ==
  ASSUME IInv, NEW s \in InterruptSems \cup {NULL}, NEW start \in Levels,
         clock_handler(s, start)
  PROVE  (\E r \in Sems : AbstractSemaphores!V(r)) \/ UNCHANGED AbstractSemaphores!vars
<1>1. pc' = pc /\ Alarms(s)
  BY DEF clock_handler
<1>2. CASE s = NULL
  BY <1>1, <1>2, StutterRefines DEF Alarms, semVars, InP
<1>3. CASE s # NULL
  BY <1>1, <1>3, VRefines, SemsAssumption DEF Alarms
<1> QED
  BY <1>2, <1>3

(* Every step maps to a step of the abstract semaphores or to a stutter.   *)
LEMMA NextRefines ==
  ASSUME IInv, SchedInv, [Next]_vars
  PROVE  [AbstractSemaphores!Next]_AbstractSemaphores!vars
<1>1. ASSUME NEW t \in Threads, Call(t)
      PROVE  AbstractSemaphores!Next \/ UNCHANGED AbstractSemaphores!vars
  <2>1. CASE \E s \in Sems : semaphore_P(t, s)
    BY <2>1, PRefines DEF AbstractSemaphores!Next
  <2>2. CASE \E s \in Sems : semaphore_V(t, s)
    BY <2>2, VRefines DEF AbstractSemaphores!Next, semaphore_V
  <2>3. CASE minithread_yield(t) \/ ExitAppend(t) \/ \E u \in Threads : minithread_fork(t, u)
    BY <2>3, RestRefines
  <2> QED
    BY <1>1, <2>1, <2>2, <2>3 DEF Call
<1>2. ASSUME NEW t \in Threads, Continue(t)
      PROVE  AbstractSemaphores!Next \/ UNCHANGED AbstractSemaphores!vars
  <2>1. CASE ReturnFromP(t)
    BY <2>1, ReturnRefines DEF AbstractSemaphores!Next
  <2>2. CASE ~ReturnFromP(t)
    BY <1>2, <2>2, RestRefines DEF Continue
  <2> QED
    BY <2>1, <2>2
<1>3. ASSUME NEW s \in InterruptSems, Interrupt(s)
      PROVE  AbstractSemaphores!Next
  <2>1. s \in Sems /\ VEffect(s) /\ pc' = pc
    BY <1>3, SemsAssumption DEF Interrupt
  <2> QED
    BY <2>1, VRefines DEF AbstractSemaphores!Next
<1>4. ASSUME NEW s \in InterruptSems \cup {NULL}, NEW start \in Levels,
             clock_handler(s, start)
      PROVE  AbstractSemaphores!Next \/ UNCHANGED AbstractSemaphores!vars
  BY <1>4, ClockRefines DEF AbstractSemaphores!Next
<1>5. CASE UNCHANGED vars
  BY <1>5, StutterRefines DEF vars, semVars, InP
<1> QED
  BY <1>1, <1>2, <1>3, <1>4, <1>5 DEF Next, Dead

(* The semaphores the scheduler implements are those synch.h promises:     *)
(* first come first served, and no V lost.                                 *)
THEOREM SemaphoresImplemented == Spec => ImplementsSemaphores
<1>1. Init => AbstractSemaphores!Init
  <2> SUFFICES ASSUME Init PROVE AbstractSemaphores!Init
    OBVIOUS
  <2>1. [s \in Sems |-> IF count[s] > 0 THEN count[s] ELSE 0] = InitCount
    BY SemsAssumption DEF Init
  <2>2. {t \in Threads : InP(t)} = {}
    BY DEF Init, InP
  <2> QED
    BY <2>1, <2>2 DEF Init, AbstractSemaphores!Init
<1>2. IInv /\ SchedInv /\ [Next]_vars => [AbstractSemaphores!Next]_AbstractSemaphores!vars
  BY NextRefines
<1> QED
  BY <1>1, <1>2, InductiveInvariant, ThreadsTracked, PTL
     DEF Spec, ImplementsSemaphores, AbstractSemaphores!Spec

=============================================================================
