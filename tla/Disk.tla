-------------------------------- MODULE Disk --------------------------------
(***************************************************************************)
(* The simulated disk of disk.c: programs put requests into one queue      *)
(* under disk_mutex and post a semaphore; the disk thread, disk_poll,      *)
(* takes them out, may swap the first two, may fail or crash, and answers  *)
(* each by an interrupt.                                                   *)
(*                                                                         *)
(* A request is its number; what a WRITE stores is the number of the       *)
(* request, so every value ever written is distinguished.  The queue is    *)
(* the sequence of the elements reachable from disk->queue.  Holding       *)
(* disk_mutex makes a step of either side atomic; send_interrupt returns   *)
(* when the handler has been called (module Terminal), so an answer is     *)
(* part of the step that serves the request.                               *)
(***************************************************************************)
EXTENDS Integers, Sequences

CONSTANTS DiskSize,      \* layout.size, in blocks
          MaxRequests,   \* bound on the requests ever sent
          MaxPending     \* the largest value of disk->semaphore

ASSUME DiskAssumption ==
    /\ DiskSize \in Nat \ {0}
    /\ MaxRequests \in Nat
    /\ MaxPending \in Nat \ {0}

VARIABLES requests,      \* the requests that were accepted, in their order
          diskQueue,     \* disk->queue, as numbers of requests
          lastKnown,     \* disk->last # NULL
          posted,        \* disk->semaphore
          diskThread,    \* the disk thread polls, ended, or was shut down
          diskState,     \* DISK_OK or DISK_CRASHED
          content,       \* what each block holds: 0 or the WRITE that set it
          extent,        \* the number of blocks the file is long
          answers        \* the interrupts sent, in their order

diskVars == <<requests, diskQueue, lastKnown, posted, diskThread, diskState,
              content, extent, answers>>

Blocks == 0 .. DiskSize - 1
Types == {"RESET", "SHUTDOWN", "READ", "WRITE"}
Replies == {"OK", "FAILED", "ERROR", "CRASHED"}
Request == [type : Types, block : 0 .. DiskSize]
Answer == [id : 1 .. MaxRequests, reply : Replies, value : 0 .. MaxRequests]

DiskTypeOK ==
    /\ requests \in Seq(Request)
    /\ diskQueue \in Seq(1 .. MaxRequests)
    /\ lastKnown \in BOOLEAN
    /\ posted \in 0 .. MaxPending
    /\ diskThread \in {"polls", "ended", "shut"}
    /\ diskState \in {"OK", "CRASHED"}
    /\ content \in [Blocks -> 0 .. MaxRequests]
    /\ extent \in 0 .. DiskSize
    /\ answers \in Seq(Answer)

(* disk_create makes a file that ends behind the layout, disk_startup      *)
(* opens one whose blocks were all written.                                *)
InitialExtents == {0, DiskSize}

DiskInit ==
    /\ requests = <<>>
    /\ diskQueue = <<>>
    /\ lastKnown = FALSE
    /\ posted = 0
    /\ diskThread = "polls"
    /\ diskState = "OK"
    /\ content = [b \in Blocks |-> 0]
    /\ extent \in InitialExtents
    /\ answers = <<>>

-----------------------------------------------------------------------------
(* disk_send_request: a SHUTDOWN goes to the front and leaves last alone,  *)
(* everything else is linked behind last.  With last = NULL the request    *)
(* becomes the whole queue, also when a SHUTDOWN is all that is in it.     *)
PutInFront(id) == <<id>> \o diskQueue
FaultyLinkBehindLast(id) == IF lastKnown THEN Append(diskQueue, id) ELSE diskQueue
LinkBehindLast(id) == IF lastKnown THEN Append(diskQueue, id) ELSE <<id>>

FaultySendRequest(type, block) ==
    /\ Len(requests) < MaxRequests
    /\ posted < MaxPending
    /\ posted' = IF diskQueue = <<>> THEN posted + 1 ELSE posted
    /\ requests' = Append(requests, [type |-> type, block |-> block])
    /\ diskQueue' = LinkBehindLast(Len(requests) + 1)
    /\ lastKnown' = TRUE
    /\ UNCHANGED <<diskThread, diskState, content, extent, answers>>

disk_send_request(type, block) ==
    LET id == Len(requests) + 1
    IN  /\ Len(requests) < MaxRequests
        /\ posted < MaxPending          \* else it is undone: -2
        /\ posted' = posted + 1
        /\ requests' = Append(requests, [type |-> type, block |-> block])
        /\ IF type = "SHUTDOWN"
             THEN diskQueue' = PutInFront(id) /\ UNCHANGED lastKnown
             ELSE diskQueue' = LinkBehindLast(id) /\ lastKnown' = TRUE
        /\ UNCHANGED <<diskThread, diskState, content, extent, answers>>

disk_read_block == \E b \in 0 .. DiskSize : disk_send_request("READ", b)
disk_write_block == \E b \in 0 .. DiskSize : disk_send_request("WRITE", b)
disk_shutdown == disk_send_request("SHUTDOWN", 0)
(* No function sends it; disk.h offers the type to callers.                *)
SendReset == disk_send_request("RESET", 0)

-----------------------------------------------------------------------------
(* disk_poll: one turn of the disk thread, from sem_wait to the interrupt. *)
Reply(id, reply, value) ==
    answers' = Append(answers, [id |-> id, reply |-> reply, value |-> value])

TypeOf(id) == requests[id].type

(* The count outlived its request: the thread leaves its loop.             *)
FindsNothing ==
    /\ diskQueue = <<>>
    /\ diskThread' = "ended"
    /\ UNCHANGED <<diskQueue, lastKnown, diskState, content, extent, answers>>

ShutsDown ==
    /\ diskQueue # <<>>
    /\ TypeOf(Head(diskQueue)) = "SHUTDOWN"
    /\ diskThread' = "shut"
    /\ Reply(Head(diskQueue), "OK", 0)
    /\ UNCHANGED <<diskQueue, lastKnown, diskState, content, extent>>

(* A RESET frees what is queued; the semaphore keeps its counts.           *)
Resets ==
    /\ diskQueue # <<>>
    /\ TypeOf(Head(diskQueue)) = "RESET"
    /\ diskQueue' = <<>>
    /\ lastKnown' = FALSE
    /\ diskState' = "OK"
    /\ Reply(Head(diskQueue), "OK", 0)
    /\ UNCHANGED <<diskThread, content, extent>>

Swapped(q) == <<q[2], q[1]>> \o SubSeq(q, 3, Len(q))
Reordered(q) == {q} \cup IF Len(q) > 1 THEN {Swapped(q)} ELSE {}

FaultyCrashes(id) ==
    /\ Reply(id, "CRASHED", 0)
    /\ UNCHANGED <<diskState, content, extent>>

Crashes(id) ==
    /\ diskState' = "CRASHED"
    /\ Reply(id, "CRASHED", 0)
    /\ UNCHANGED <<content, extent>>

FaultyFails(id) ==
    /\ diskState = "OK"
    /\ Reply(id, "FAILED", 0)
    /\ content' = [content EXCEPT ![requests[id].block % DiskSize] = id]
    /\ UNCHANGED <<diskState, extent>>

Fails(id) ==
    /\ diskState = "OK"
    /\ Reply(id, "FAILED", 0)
    /\ UNCHANGED <<diskState, content, extent>>

InDisk(b) == b < DiskSize

(* Neither crashed nor failed: the block is in the disk, a READ finds it   *)
(* in the file, and a request that is neither READ nor WRITE does nothing. *)
Executes(id) ==
    LET b == requests[id].block
        inDisk == InDisk(b)
        read == TypeOf(id) = "READ"
        write == TypeOf(id) = "WRITE"
    IN  /\ diskState = "OK"
        /\ IF inDisk /\ write
             THEN /\ content' = [content EXCEPT ![b] = id]
                  /\ extent' = IF b < extent THEN extent ELSE b + 1
             ELSE UNCHANGED <<content, extent>>
        /\ IF inDisk /\ (read => b < extent)
             THEN Reply(id, "OK", IF read THEN content[b] ELSE 0)
             ELSE Reply(id, "ERROR", 0)
        /\ UNCHANGED diskState

Serves ==
    /\ diskQueue # <<>>
    /\ TypeOf(Head(diskQueue)) \notin {"SHUTDOWN", "RESET"}
    /\ \E q \in Reordered(diskQueue) :
          /\ diskQueue' = Tail(q)
          /\ lastKnown' = (lastKnown /\ Len(q) > 1)
          /\ Crashes(Head(q)) \/ Fails(Head(q)) \/ Executes(Head(q))
    /\ UNCHANGED diskThread

disk_poll ==
    /\ diskThread = "polls"
    /\ posted > 0
    /\ posted' = posted - 1
    /\ FindsNothing \/ ShutsDown \/ Resets \/ Serves
    /\ UNCHANGED requests

DiskNext ==
    \/ disk_read_block
    \/ disk_write_block
    \/ disk_shutdown
    \/ SendReset
    \/ disk_poll

DiskSpec == DiskInit /\ [][DiskNext]_diskVars
DiskFairSpec == DiskSpec /\ WF_diskVars(disk_poll)

-----------------------------------------------------------------------------
Accepted(types) == {id \in 1 .. Len(requests) : TypeOf(id) \in types}
Answered(id) == \E i \in 1 .. Len(answers) : answers[i].id = id
Before(i, types, reply) ==
    {answers[j].id : j \in {k \in 1 .. i - 1 :
        TypeOf(answers[k].id) \in types /\ answers[k].reply = reply}}

(* The semaphore never undercounts the queue: while the disk thread runs   *)
(* it cannot sleep with a request queued, whatever was sent, swapped, lost *)
(* or reset (disk_send_request posts under the mutex it queues under).     *)
NoRequestStranded == diskThread = "polls" => posted >= Len(diskQueue)

(* disk.h:47 "required after disk crash": behind an answer CRASHED no READ *)
(* or WRITE is carried out, and no RESET that was swapped to the front is  *)
(* taken for one, until a RESET has been obeyed.                           *)
CrashedUntilReset ==
    \A i, j \in 1 .. Len(answers) :
        /\ i < j
        /\ answers[i].reply = "CRASHED"
        /\ answers[j].reply # "CRASHED"
        /\ TypeOf(answers[j].id) # "SHUTDOWN"
        => \E k \in i + 1 .. j :
              TypeOf(answers[k].id) = "RESET" /\ answers[k].reply = "OK"

(* As long as no request of a block overtook another, a READ that is       *)
(* answered OK returns what the last WRITE to that block sent before it    *)
(* and answered OK stored; a WRITE that failed left nothing behind.        *)
ReadReturnsLatestWrite ==
    \A i \in 1 .. Len(answers) :
        LET id == answers[i].id
            b == requests[id].block
            OfBlock == {j \in 1 .. Len(answers) : requests[answers[j].id].block = b}
            writes == {w \in Before(i, {"WRITE"}, "OK") : requests[w].block = b}
        IN  /\ TypeOf(id) = "READ"
            /\ answers[i].reply = "OK"
            /\ \A j, k \in OfBlock : j < k => answers[j].id < answers[k].id
            => IF writes = {} THEN answers[i].value = 0
               ELSE /\ answers[i].value \in writes
                    /\ \A w \in writes : w <= answers[i].value

(* The disk thread answers every request that was queued, unless somebody  *)
(* asked for a RESET or a SHUTDOWN: after a RESET the counts left in the   *)
(* semaphore make the thread find the queue empty and end for ever.        *)
RequestIsAnswered ==
    \A id \in 1 .. MaxRequests :
        (id \in Accepted(Types))
            ~> (Answered(id) \/ Accepted({"RESET", "SHUTDOWN"}) # {})
=============================================================================
