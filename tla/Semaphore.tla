----------------------------- MODULE Semaphore ------------------------------
(***************************************************************************)
(* What synch.h promises: counting semaphores whose waiters are served in  *)
(* the order they came.  A thread is inside a P from the moment it has to  *)
(* wait until its P returns, and it returns only after a V took it off the *)
(* queue.  A V is never lost: it goes to a waiter or into the value.       *)
(***************************************************************************)
EXTENDS Naturals, Sequences

CONSTANTS Threads, Sems, InitCount

VARIABLES value,    \* how many P can pass without waiting
          waiting,  \* the threads that wait, in order
          inP       \* the threads that had to wait and did not return yet

vars == <<value, waiting, inP>>

Init ==
  /\ value = InitCount
  /\ waiting = [s \in Sems |-> <<>>]
  /\ inP = {}

PassP(t, s) ==
  /\ t \notin inP
  /\ value[s] > 0
  /\ value' = [value EXCEPT ![s] = @ - 1]
  /\ UNCHANGED <<waiting, inP>>

WaitP(t, s) ==
  /\ t \notin inP
  /\ value[s] = 0
  /\ waiting' = [waiting EXCEPT ![s] = Append(@, t)]
  /\ inP' = inP \cup {t}
  /\ UNCHANGED value

V(s) ==
  /\ \/ /\ waiting[s] = <<>>
        /\ value' = [value EXCEPT ![s] = @ + 1]
        /\ UNCHANGED waiting
     \/ /\ waiting[s] # <<>>
        /\ waiting' = [waiting EXCEPT ![s] = Tail(@)]
        /\ UNCHANGED value
  /\ UNCHANGED inP

ReturnP(t) ==
  /\ t \in inP
  /\ \A s \in Sems : \A i \in DOMAIN waiting[s] : waiting[s][i] # t
  /\ inP' = inP \ {t}
  /\ UNCHANGED <<value, waiting>>

Next ==
  \/ \E t \in Threads, s \in Sems : PassP(t, s) \/ WaitP(t, s)
  \/ \E s \in Sems : V(s)
  \/ \E t \in Threads : ReturnP(t)

Spec == Init /\ [][Next]_vars
=============================================================================
