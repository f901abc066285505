--------------------------- MODULE StorageProofs ----------------------------
(***************************************************************************)
(* Theorems about what is kept on a disk.  Those about Disk hold for a     *)
(* disk of any size, any number of requests and any largest value of the   *)
(* semaphore.                                                              *)
(*                                                                         *)
(* Those about MiniFile go on from the invariants of MiniFileProofs, and   *)
(* say what an inode claims (FilesInv): its direct blocks are filled from  *)
(* the front as far as its length and its size say, so that a thread asks  *)
(* for no other block and a call ends the program only when blocks or      *)
(* inodes have run out, or its file claims more than its blocks hold.      *)
(*                                                                         *)
(* Last comes the form of the tree (FormInv): types and sizes of inodes,   *)
(* that the way up from an inode in use ends at the root, and that the     *)
(* names of a directory differ, with what each call that will make an      *)
(* entry knows of its name by then.                                        *)
(***************************************************************************)
EXTENDS Disk, MiniFileProofs, SequenceTheorems

(* What is queued or answered was sent.                                    *)
Sent ==
    /\ Len(requests) <= MaxRequests
    /\ \A i \in 1 .. Len(diskQueue) : diskQueue[i] \in 1 .. Len(requests)
    /\ \A i \in 1 .. Len(answers) : answers[i].id \in 1 .. Len(requests)

ResetAnswered(i, j) ==
    \E k \in i + 1 .. j : TypeOf(answers[k].id) = "RESET" /\ answers[k].reply = "OK"

(* The disk works only if every crash has been followed by a reset.        *)
CrashRemembered ==
    diskState = "OK" =>
        \A i \in 1 .. Len(answers) :
            answers[i].reply = "CRASHED" => ResetAnswered(i, Len(answers))

(* The answer j says that block b was written.                             *)
Wrote(j, b) ==
    /\ TypeOf(answers[j].id) = "WRITE"
    /\ answers[j].reply = "OK"
    /\ requests[answers[j].id].block = b

(* A block holds what the last of these answers was about.                 *)
ContentIsLast ==
    \A b \in Blocks :
        \/ content[b] = 0 /\ \A j \in 1 .. Len(answers) : ~Wrote(j, b)
        \/ \E j \in 1 .. Len(answers) :
              /\ Wrote(j, b) /\ answers[j].id = content[b]
              /\ \A k \in j + 1 .. Len(answers) : ~Wrote(k, b)

DiskIInv == DiskTypeOK /\ Sent /\ NoRequestStranded /\ CrashRemembered /\ ContentIsLast

(* In the initial state nothing was sent and nothing answered.             *)
LEMMA InitIInv == DiskInit => DiskIInv
<1> SUFFICES ASSUME DiskInit PROVE DiskIInv
  OBVIOUS
<1>1. DiskTypeOK
  <2>1. /\ requests \in Seq(Request) /\ diskQueue \in Seq(1 .. MaxRequests)
        /\ answers \in Seq(Answer)
    BY DEF DiskInit
  <2>2. content \in [Blocks -> 0 .. MaxRequests]
    BY DiskAssumption DEF DiskInit
  <2>3. posted \in 0 .. MaxPending /\ extent \in 0 .. DiskSize
    BY DiskAssumption DEF DiskInit, InitialExtents
  <2> QED
    BY <2>1, <2>2, <2>3 DEF DiskInit, DiskTypeOK
<1>2. Len(requests) = 0 /\ Len(diskQueue) = 0 /\ Len(answers) = 0
  BY DEF DiskInit
<1>3. Sent /\ NoRequestStranded /\ CrashRemembered
  BY <1>2, DiskAssumption DEF DiskInit, Sent, NoRequestStranded, CrashRemembered
<1>4. ContentIsLast
  BY <1>2 DEF DiskInit, ContentIsLast, Blocks
<1> QED
  BY <1>1, <1>3, <1>4 DEF DiskIInv

-----------------------------------------------------------------------------
(* Sending changes no request that was sent, and no answer.                *)
LEMMA SentStays ==
  ASSUME DiskIInv, NEW r \in Request, requests' = Append(requests, r)
  PROVE  /\ requests' \in Seq(Request)
         /\ Len(requests') = Len(requests) + 1
         /\ \A id \in 1 .. Len(requests) : requests'[id] = requests[id]
BY AppendProperties DEF DiskIInv, DiskTypeOK

(* A request is put into the queue and counted under one mutex; nothing    *)
(* that was answered changes.                                              *)
LEMMA SendPreserves ==
  ASSUME DiskIInv, NEW type \in Types, NEW block \in 0 .. DiskSize,
         disk_send_request(type, block)
  PROVE  DiskIInv'
<1> DEFINE id == Len(requests) + 1
           r == [type |-> type, block |-> block]
<1> USE DEF DiskIInv
<1>1. r \in Request /\ Len(requests) \in Nat /\ requests' = Append(requests, r)
  BY DEF disk_send_request, DiskTypeOK, Request
<1>2. /\ requests' \in Seq(Request)
      /\ Len(requests') = id
      /\ \A n \in 1 .. Len(requests) : requests'[n] = requests[n]
  BY <1>1, SentStays
<1>3. id \in 1 .. MaxRequests
  BY <1>1, DiskAssumption DEF disk_send_request
<1>4. /\ diskQueue' \in Seq(1 .. MaxRequests)
      /\ Len(diskQueue') <= Len(diskQueue) + 1
      /\ \A i \in 1 .. Len(diskQueue') : diskQueue'[i] \in 1 .. id
  <2>1. /\ diskQueue \in Seq(1 .. MaxRequests)
        /\ \A i \in 1 .. Len(diskQueue) : diskQueue[i] \in 1 .. id
    BY <1>1 DEF DiskTypeOK, Sent
  <2>2. diskQueue' \in {<<id>> \o diskQueue, Append(diskQueue, id), <<id>>}
    BY DEF disk_send_request, PutInFront, LinkBehindLast
  <2>3. CASE diskQueue' = <<id>> \o diskQueue
    <3>1. <<id>> \in Seq(1 .. MaxRequests)
      BY <1>3
    <3> QED
      BY <2>1, <2>3, <3>1, <1>1, ConcatProperties
  <2>4. CASE diskQueue' = Append(diskQueue, id)
    BY <2>1, <2>4, <1>3, <1>1, AppendProperties
  <2>5. CASE diskQueue' = <<id>>
    BY <2>1, <2>5, <1>3, <1>1
  <2> QED
    BY <2>2, <2>3, <2>4, <2>5
<1>5. DiskTypeOK'
  <2>1. posted' \in 0 .. MaxPending
    BY DiskAssumption DEF disk_send_request, DiskTypeOK
  <2>2. lastKnown' \in BOOLEAN
    BY Zenon DEF disk_send_request, DiskTypeOK
  <2> QED
    BY <1>2, <1>4, <2>1, <2>2 DEF disk_send_request, DiskTypeOK, Blocks
<1>6. Sent'
  BY <1>1, <1>2, <1>3, <1>4 DEF disk_send_request, Sent
<1>7. NoRequestStranded'
  BY <1>4 DEF disk_send_request, NoRequestStranded, DiskTypeOK
<1>8. answers' = answers /\ \A i \in 1 .. Len(answers) :
          requests'[answers[i].id] = requests[answers[i].id]
  BY <1>2 DEF disk_send_request, Sent
<1>9. CrashRemembered'
  <2>1. diskState' = diskState
    BY DEF disk_send_request
  <2>2. \A i \in 1 .. Len(answers) :
            ResetAnswered(i, Len(answers)) => ResetAnswered(i, Len(answers))'
    BY <1>8 DEF ResetAnswered, TypeOf, DiskTypeOK
  <2> QED
    BY <1>8, <2>1, <2>2 DEF CrashRemembered
<1>10. ContentIsLast'
  <2>1. content' = content
    BY DEF disk_send_request
  <2>2. \A b \in Blocks, j \in 1 .. Len(answers) : Wrote(j, b)' = Wrote(j, b)
    BY <1>8 DEF Wrote, TypeOf
  <2>3. \A j \in 1 .. Len(answers) : j + 1 .. Len(answers) \subseteq 1 .. Len(answers)
    BY DEF DiskTypeOK
  <2> QED
    BY <1>8, <2>1, <2>2, <2>3 DEF ContentIsLast, Blocks
<1> QED
  BY <1>5, <1>6, <1>7, <1>9, <1>10

-----------------------------------------------------------------------------
(* A turn of the disk thread that gives no answer.                         *)
LEMMA QuietTurn ==
  ASSUME DiskIInv, disk_poll, FindsNothing
  PROVE  DiskIInv'
<1> USE DEF DiskIInv
<1>1. /\ posted' \in 0 .. MaxPending
      /\ UNCHANGED <<requests, diskQueue, lastKnown, diskState, content, extent, answers>>
      /\ diskThread' = "ended"
  BY DiskAssumption DEF disk_poll, FindsNothing, DiskTypeOK
<1>2. UNCHANGED requests
  BY DEF disk_poll
<1>3. DiskTypeOK' /\ Sent'
  BY <1>1, <1>2 DEF DiskTypeOK, Sent, Blocks
<1>4. NoRequestStranded'
  BY <1>1 DEF NoRequestStranded
<1>5. CrashRemembered'
  BY <1>1, <1>2 DEF CrashRemembered, ResetAnswered, TypeOf
<1>6. ContentIsLast'
  BY <1>1, <1>2 DEF ContentIsLast, Wrote, TypeOf, Blocks
<1> QED
  BY <1>3, <1>4, <1>5, <1>6

(* An answer to something that was sent is put behind the others; when it  *)
(* says CRASHED the disk has crashed, otherwise it works, unless a RESET   *)
(* or a SHUTDOWN was answered.                                             *)
LEMMA ReplyPreserves ==
  ASSUME DiskIInv, NEW id \in 1 .. Len(requests), NEW reply \in Replies,
         NEW value \in 0 .. MaxRequests, Reply(id, reply, value),
         UNCHANGED requests, diskState' \in {"OK", "CRASHED"},
         diskState' = "OK" => \/ diskState = "OK" /\ reply # "CRASHED"
                              \/ TypeOf(id) = "RESET" /\ reply = "OK"
  PROVE  /\ answers' \in Seq(Answer)
         /\ Len(answers') = Len(answers) + 1
         /\ answers'[Len(answers) + 1] = [id |-> id, reply |-> reply, value |-> value]
         /\ \A i \in 1 .. Len(answers) : answers'[i] = answers[i]
         /\ \A i \in 1 .. Len(answers') : answers'[i].id \in 1 .. Len(requests)
         /\ CrashRemembered'
<1> DEFINE a == [id |-> id, reply |-> reply, value |-> value]
           n == Len(answers)
<1> USE DEF DiskIInv
<1>1. a \in Answer
  <2>1. id \in 1 .. MaxRequests
    BY DiskAssumption DEF Sent, DiskTypeOK
  <2> QED
    BY <2>1 DEF Answer
<1>2. /\ answers' \in Seq(Answer) /\ n \in Nat /\ Len(answers') = n + 1
      /\ answers'[n + 1] = a /\ \A i \in 1 .. n : answers'[i] = answers[i]
  BY <1>1, AppendProperties DEF Reply, DiskTypeOK
<1>3. \A i \in 1 .. Len(answers') : answers'[i].id \in 1 .. Len(requests)
  BY <1>2 DEF Sent
<1>4. CrashRemembered'
  <2> SUFFICES ASSUME diskState' = "OK", NEW i \in 1 .. n + 1,
                      answers'[i].reply = "CRASHED"
               PROVE  ResetAnswered(i, Len(answers))'
    BY <1>2 DEF CrashRemembered, ResetAnswered
  <2>1. CASE TypeOf(id) = "RESET" /\ reply = "OK"
    BY <1>2, <2>1 DEF ResetAnswered, TypeOf
  <2>2. CASE diskState = "OK" /\ reply # "CRASHED"
    <3>1. i \in 1 .. n /\ answers[i].reply = "CRASHED"
      BY <1>2, <2>2
    <3>2. ResetAnswered(i, n)
      BY <2>2, <3>1 DEF CrashRemembered
    <3> QED
      BY <1>2, <3>1, <3>2 DEF ResetAnswered, TypeOf
  <2> QED
    BY <2>1, <2>2
<1> QED
  BY <1>2, <1>3, <1>4

(* What the blocks hold stays right when the answer is about no write and  *)
(* no block changes ...                                                    *)
LEMMA ContentStays ==
  ASSUME DiskIInv, UNCHANGED <<requests, content>>, answers' \in Seq(Answer),
         Len(answers') = Len(answers) + 1,
         \A i \in 1 .. Len(answers) : answers'[i] = answers[i],
         \A b \in Blocks : ~Wrote(Len(answers), b)'
  PROVE  ContentIsLast'
<1> USE DEF DiskIInv
<1> DEFINE n == Len(answers)
           Writes(a, b) == /\ requests[a.id].type = "WRITE" /\ a.reply = "OK"
                           /\ requests[a.id].block = b
<1>1. n \in Nat /\ Len(answers') = n + 1
  BY DEF DiskTypeOK
<1>2. \A b \in Blocks :
        \/ content[b] = 0 /\ \A j \in 1 .. n : ~Writes(answers[j], b)
        \/ \E j \in 1 .. n : /\ Writes(answers[j], b) /\ answers[j].id = content[b]
                            /\ \A k \in j + 1 .. n : ~Writes(answers[k], b)
  BY DEF ContentIsLast, Wrote, TypeOf
<1>3. \A b \in Blocks : ~Writes(answers'[n + 1], b)
  BY <1>1 DEF Wrote, TypeOf
<1> HIDE DEF Writes
<1>4. \A b \in Blocks :
        \/ content[b] = 0 /\ \A j \in 1 .. n + 1 : ~Writes(answers'[j], b)
        \/ \E j \in 1 .. n + 1 :
              /\ Writes(answers'[j], b) /\ answers'[j].id = content[b]
              /\ \A k \in j + 1 .. n + 1 : ~Writes(answers'[k], b)
  <2> TAKE b \in Blocks
  <2>1. CASE content[b] = 0 /\ \A j \in 1 .. n : ~Writes(answers[j], b)
    BY <1>1, <1>3, <2>1
  <2>2. CASE \E j \in 1 .. n : /\ Writes(answers[j], b) /\ answers[j].id = content[b]
                             /\ \A k \in j + 1 .. n : ~Writes(answers[k], b)
    <3>1. PICK j \in 1 .. n : /\ Writes(answers[j], b) /\ answers[j].id = content[b]
                              /\ \A k \in j + 1 .. n : ~Writes(answers[k], b)
      BY <2>2
    <3>2. j \in 1 .. n + 1 /\ \A k \in j + 1 .. n + 1 : k = n + 1 \/ k \in j + 1 .. n
      BY <1>1
    <3>3. \A k \in j + 1 .. n : k \in 1 .. n
      BY <1>1
    <3> QED
      BY <1>3, <3>1, <3>2, <3>3
  <2> QED
    BY <1>2, <2>1, <2>2
<1> QED
  BY <1>1, <1>4 DEF ContentIsLast, Wrote, TypeOf, Writes, Blocks

(* ... and when it is about a write that has just changed its block.       *)
LEMMA ContentWritten ==
  ASSUME DiskIInv, UNCHANGED requests, answers' \in Seq(Answer),
         Len(answers') = Len(answers) + 1,
         \A i \in 1 .. Len(answers) : answers'[i] = answers[i],
         NEW id \in 1 .. Len(requests), requests[id].block \in Blocks,
         requests[id].type = "WRITE",
         answers'[Len(answers) + 1] = [id |-> id, reply |-> "OK", value |-> 0],
         content' = [content EXCEPT ![requests[id].block] = id]
  PROVE  ContentIsLast'
<1> USE DEF DiskIInv
<1> DEFINE n == Len(answers)
           Writes(a, b) == /\ requests[a.id].type = "WRITE" /\ a.reply = "OK"
                           /\ requests[a.id].block = b
<1>1. n \in Nat /\ Len(answers') = n + 1
  BY DEF DiskTypeOK
<1>2. \A b \in Blocks :
        \/ content[b] = 0 /\ \A j \in 1 .. n : ~Writes(answers[j], b)
        \/ \E j \in 1 .. n : /\ Writes(answers[j], b) /\ answers[j].id = content[b]
                            /\ \A k \in j + 1 .. n : ~Writes(answers[k], b)
  BY DEF ContentIsLast, Wrote, TypeOf
<1>3. /\ answers'[n + 1].id = id
      /\ \A b \in Blocks : Writes(answers'[n + 1], b) <=> b = requests[id].block
  OBVIOUS
<1>4. \A b \in Blocks : content'[b] = IF b = requests[id].block THEN id ELSE content[b]
  BY DEF DiskTypeOK
<1> HIDE DEF Writes
<1>5. \A b \in Blocks :
        \/ content'[b] = 0 /\ \A j \in 1 .. n + 1 : ~Writes(answers'[j], b)
        \/ \E j \in 1 .. n + 1 :
              /\ Writes(answers'[j], b) /\ answers'[j].id = content'[b]
              /\ \A k \in j + 1 .. n + 1 : ~Writes(answers'[k], b)
  <2> TAKE b \in Blocks
  <2>1. CASE b = requests[id].block
    <3>1. n + 1 \in 1 .. n + 1 /\ \A k \in (n + 1) + 1 .. n + 1 : FALSE
      BY <1>1
    <3> QED
      BY <1>3, <1>4, <2>1, <3>1
  <2>2. CASE b # requests[id].block /\ content[b] = 0
               /\ \A j \in 1 .. n : ~Writes(answers[j], b)
    BY <1>1, <1>3, <1>4, <2>2
  <2>3. CASE b # requests[id].block
               /\ \E j \in 1 .. n : /\ Writes(answers[j], b) /\ answers[j].id = content[b]
                                   /\ \A k \in j + 1 .. n : ~Writes(answers[k], b)
    <3>1. PICK j \in 1 .. n : /\ Writes(answers[j], b) /\ answers[j].id = content[b]
                              /\ \A k \in j + 1 .. n : ~Writes(answers[k], b)
      BY <2>3
    <3>2. j \in 1 .. n + 1 /\ \A k \in j + 1 .. n + 1 : k = n + 1 \/ k \in j + 1 .. n
      BY <1>1
    <3>3. \A k \in j + 1 .. n : k \in 1 .. n
      BY <1>1
    <3> QED
      BY <1>3, <1>4, <2>3, <3>1, <3>2, <3>3
  <2> QED
    BY <1>2, <2>1, <2>2, <2>3
<1> QED
  BY <1>1, <1>5 DEF ContentIsLast, Wrote, TypeOf, Writes, Blocks

-----------------------------------------------------------------------------
(* The head of the queue, swapped or not, was sent; what remains is        *)
(* shorter.                                                                *)
LEMMA TakenFromQueue ==
  ASSUME DiskIInv, diskQueue # <<>>, NEW q \in Reordered(diskQueue)
  PROVE  /\ Head(q) \in 1 .. Len(requests)
         /\ Tail(q) \in Seq(1 .. MaxRequests)
         /\ Len(Tail(q)) = Len(diskQueue) - 1
         /\ \A i \in 1 .. Len(Tail(q)) : Tail(q)[i] \in 1 .. Len(requests)
<1> USE DEF DiskIInv
<1> DEFINE n == Len(diskQueue)
           others == SubSeq(diskQueue, 3, n)
<1>1. /\ diskQueue \in Seq(1 .. MaxRequests) /\ n \in Nat \ {0}
      /\ \A i \in 1 .. n : diskQueue[i] \in 1 .. Len(requests)
  BY EmptySeq DEF DiskTypeOK, Sent
<1>2. /\ q \in Seq(1 .. MaxRequests) /\ Len(q) = n
      /\ \A i \in 1 .. n : q[i] \in 1 .. Len(requests)
  <2>1. CASE q = diskQueue
    BY <1>1, <2>1
  <2>2. CASE n > 1 /\ q = <<diskQueue[2], diskQueue[1]>> \o others
    <3>1. \A i \in 1 .. n : diskQueue[i] \in 1 .. MaxRequests
      BY <1>1, ElementOfSeq
    <3>2. /\ others \in Seq(1 .. MaxRequests) /\ Len(others) = n - 2
          /\ \A i \in 1 .. n - 2 : others[i] = diskQueue[i + 2]
      <4>1. 3 \in Int /\ n \in Int /\ \A i \in 3 .. n : diskQueue[i] \in 1 .. MaxRequests
        BY <1>1, <3>1
      <4>2. /\ others \in Seq(1 .. MaxRequests)
            /\ Len(others) = IF 3 <= n THEN n - 3 + 1 ELSE 0
            /\ \A i \in 1 .. n - 3 + 1 : others[i] = diskQueue[3 + i - 1]
        BY <1>1, <4>1, SubSeqProperties
      <4>3. n - 3 + 1 = n - 2 /\ \A i \in 1 .. n - 2 : 3 + i - 1 = i + 2
        BY <1>1
      <4> QED
        BY <1>1, <2>2, <4>2, <4>3
    <3>3. /\ <<diskQueue[2], diskQueue[1]>> \in Seq(1 .. MaxRequests)
          /\ Len(<<diskQueue[2], diskQueue[1]>>) = 2
      <4>1. 1 \in 1 .. n /\ 2 \in 1 .. n
        BY <1>1, <2>2
      <4> QED
        BY <3>1, <4>1
    <3>4. /\ q \in Seq(1 .. MaxRequests) /\ Len(q) = n
          /\ \A i \in 1 .. n : q[i] = IF i <= 2 THEN <<diskQueue[2], diskQueue[1]>>[i]
                                      ELSE others[i - 2]
      BY <1>1, <2>2, <3>2, <3>3, ConcatProperties
    <3>5. \A i \in 3 .. n : q[i] = diskQueue[i]
      BY <1>1, <3>2, <3>4
    <3> QED
      BY <1>1, <2>2, <3>4, <3>5
  <2> QED
    BY <2>1, <2>2 DEF Reordered, Swapped
<1>3. q # <<>>
  BY <1>1, <1>2
<1> QED
  BY <1>1, <1>2, <1>3, HeadTailProperties

(* What every turn of the disk thread that answers the request id does.    *)
AnswerStep(id, reply, value) ==
    /\ Reply(id, reply, value)
    /\ UNCHANGED requests
    /\ diskState' \in {"OK", "CRASHED"}
    /\ diskState' = "OK" => \/ diskState = "OK" /\ reply # "CRASHED"
                            \/ TypeOf(id) = "RESET" /\ reply = "OK"
    /\ reply # "CRASHED" /\ TypeOf(id) # "SHUTDOWN" => diskState' = "OK"
    /\ \/ /\ TypeOf(id) = "WRITE" /\ reply = "OK" /\ value = 0
          /\ requests[id].block \in Blocks
          /\ content' = [content EXCEPT ![requests[id].block] = id]
       \/ /\ ~(TypeOf(id) = "WRITE" /\ reply = "OK")
          /\ UNCHANGED content
    /\ TypeOf(id) = "READ" /\ reply = "OK" =>
          requests[id].block \in Blocks /\ value = content[requests[id].block]

(* A request that is served is answered once, and the block it names is    *)
(* in the disk.                                                            *)
LEMMA ServeAnswers ==
  ASSUME DiskIInv, NEW id \in 1 .. Len(requests), UNCHANGED requests,
         Crashes(id) \/ Fails(id) \/ Executes(id)
  PROVE  /\ \E reply \in Replies, value \in 0 .. MaxRequests : AnswerStep(id, reply, value)
         /\ content' \in [Blocks -> 0 .. MaxRequests]
         /\ extent' \in 0 .. DiskSize
<1> USE DEF DiskIInv
<1>1. /\ requests[id] \in Request /\ id \in 0 .. MaxRequests /\ 0 \in 0 .. MaxRequests
      /\ DiskSize \in Nat /\ requests[id].block \in 0 .. DiskSize
      /\ content \in [Blocks -> 0 .. MaxRequests] /\ extent \in 0 .. DiskSize
      /\ diskState \in {"OK", "CRASHED"}
  <2>1. requests[id] \in Request
    BY ElementOfSeq DEF DiskTypeOK
  <2>2. Len(requests) \in Nat
    BY DEF DiskTypeOK
  <2> QED
    BY <2>1, <2>2, DiskAssumption DEF Request, Sent, DiskTypeOK
<1>2. CASE Crashes(id)
  <2>1. AnswerStep(id, "CRASHED", 0) /\ UNCHANGED <<content, extent>>
    BY <1>2 DEF Crashes, AnswerStep
  <2> QED
    BY <1>1, <2>1 DEF Replies
<1>3. CASE Fails(id)
  <2>1. AnswerStep(id, "FAILED", 0) /\ UNCHANGED <<content, extent>>
    BY <1>1, <1>3 DEF Fails, AnswerStep
  <2> QED
    BY <1>1, <2>1 DEF Replies
<1>4. CASE Executes(id)
  <2> DEFINE b == requests[id].block
  <2>1. diskState = "OK" /\ diskState' = "OK"
    BY <1>4 DEF Executes
  <2>2. CASE b < DiskSize /\ TypeOf(id) = "WRITE"
    <3>1. b \in Blocks
      BY <1>1, <2>2 DEF Blocks
    <3>2. /\ Reply(id, "OK", 0) /\ content' = [content EXCEPT ![b] = id]
          /\ extent' = IF b < extent THEN extent ELSE b + 1
      BY <1>4, <2>2 DEF Executes, InDisk
    <3>3. AnswerStep(id, "OK", 0)
      BY <2>1, <2>2, <3>1, <3>2 DEF AnswerStep
    <3>4. extent' \in 0 .. DiskSize
      BY <1>1, <2>2, <3>2
    <3> QED
      BY <1>1, <3>1, <3>2, <3>3, <3>4 DEF Replies
  <2>3. CASE ~(b < DiskSize /\ TypeOf(id) = "WRITE")
    <3>1. UNCHANGED <<content, extent>>
      BY <1>4, <2>3 DEF Executes, InDisk
    <3>2. CASE b < DiskSize /\ (TypeOf(id) = "READ" => b < extent)
      <4>1. b \in Blocks /\ content[b] \in 0 .. MaxRequests
        BY <1>1, <3>2 DEF Blocks
      <4>2. Reply(id, "OK", IF TypeOf(id) = "READ" THEN content[b] ELSE 0)
        BY <1>4, <3>2 DEF Executes, InDisk
      <4>3. AnswerStep(id, "OK", IF TypeOf(id) = "READ" THEN content[b] ELSE 0)
        BY <2>1, <2>3, <3>1, <3>2, <4>1, <4>2 DEF AnswerStep
      <4>4. (IF TypeOf(id) = "READ" THEN content[b] ELSE 0) \in 0 .. MaxRequests
        BY <1>1, <4>1
      <4> QED
        BY <1>1, <3>1, <4>3, <4>4 DEF Replies
    <3>3. CASE ~(b < DiskSize /\ (TypeOf(id) = "READ" => b < extent))
      <4>1. AnswerStep(id, "ERROR", 0)
        BY <1>4, <2>1, <3>1, <3>3 DEF Executes, InDisk, AnswerStep
      <4> QED
        BY <1>1, <3>1, <4>1 DEF Replies
    <3> QED
      BY <3>2, <3>3
  <2> QED
    BY <2>2, <2>3
<1> QED
  BY <1>2, <1>3, <1>4

(* A turn of the disk thread ends it or answers one request; the queue     *)
(* loses at least what was answered.                                       *)
LEMMA PollAnswers ==
  ASSUME DiskIInv, disk_poll, ~FindsNothing
  PROVE  /\ \E id \in 1 .. Len(requests), reply \in Replies, value \in 0 .. MaxRequests :
                AnswerStep(id, reply, value)
         /\ diskQueue' \in Seq(1 .. MaxRequests)
         /\ \A i \in 1 .. Len(diskQueue') : diskQueue'[i] \in 1 .. Len(requests)
         /\ diskThread' = "polls" => Len(diskQueue') <= Len(diskQueue) - 1 \/ diskQueue' = <<>>
         /\ lastKnown' \in BOOLEAN
         /\ diskThread' \in {"polls", "shut"}
         /\ content' \in [Blocks -> 0 .. MaxRequests] /\ extent' \in 0 .. DiskSize
<1> USE DEF DiskIInv
<1>1. /\ UNCHANGED requests /\ diskThread = "polls"
      /\ ShutsDown \/ Resets \/ Serves
  BY DEF disk_poll
<1>2. diskQueue # <<>>
  BY <1>1 DEF ShutsDown, Resets, Serves
<1>3. Head(diskQueue) \in 1 .. Len(requests)
  BY <1>2, TakenFromQueue DEF Reordered
<1>4. 0 \in 0 .. MaxRequests /\ "OK" \in Replies
  BY DiskAssumption DEF Replies
<1>5. CASE ShutsDown
  <2>1. AnswerStep(Head(diskQueue), "OK", 0)
    BY <1>1, <1>5 DEF ShutsDown, AnswerStep, DiskTypeOK
  <2> QED
    BY <1>3, <1>4, <1>5, <2>1 DEF ShutsDown, DiskTypeOK, Sent
<1>6. CASE Resets
  <2>1. AnswerStep(Head(diskQueue), "OK", 0)
    BY <1>1, <1>6 DEF Resets, AnswerStep, DiskTypeOK
  <2>2. diskQueue' = <<>> /\ diskQueue' \in Seq(1 .. MaxRequests) /\ Len(diskQueue') = 0
    BY <1>6 DEF Resets
  <2>3. lastKnown' \in BOOLEAN /\ diskThread' = "polls"
    BY <1>1, <1>6, Zenon DEF Resets
  <2>4. content' \in [Blocks -> 0 .. MaxRequests] /\ extent' \in 0 .. DiskSize
    BY <1>6 DEF Resets, DiskTypeOK
  <2> QED
    BY <1>3, <1>4, <2>1, <2>2, <2>3, <2>4
<1>7. CASE Serves
  <2>1. PICK q \in Reordered(diskQueue) :
          /\ diskQueue' = Tail(q)
          /\ lastKnown' = (lastKnown /\ Len(q) > 1)
          /\ Crashes(Head(q)) \/ Fails(Head(q)) \/ Executes(Head(q))
    BY <1>7 DEF Serves
  <2>2. /\ Head(q) \in 1 .. Len(requests)
        /\ diskQueue' \in Seq(1 .. MaxRequests)
        /\ Len(diskQueue') = Len(diskQueue) - 1
        /\ \A i \in 1 .. Len(diskQueue') : diskQueue'[i] \in 1 .. Len(requests)
    BY <1>2, <2>1, TakenFromQueue
  <2>3. /\ \E reply \in Replies, value \in 0 .. MaxRequests : AnswerStep(Head(q), reply, value)
        /\ content' \in [Blocks -> 0 .. MaxRequests] /\ extent' \in 0 .. DiskSize
    BY <1>1, <2>1, <2>2, ServeAnswers
  <2>4. lastKnown' \in BOOLEAN /\ diskThread' = "polls"
    BY <1>1, <1>7, <2>1 DEF Serves
  <2>5. Len(diskQueue') <= Len(diskQueue) - 1
    BY <2>2 DEF DiskTypeOK
  <2> QED
    BY <2>2, <2>3, <2>4, <2>5
<1> QED
  BY <1>1, <1>5, <1>6, <1>7

(* Every step keeps the invariant.                                         *)
LEMMA PollPreserves ==
  ASSUME DiskIInv, disk_poll
  PROVE  DiskIInv'
<1> USE DEF DiskIInv
<1>1. CASE FindsNothing
  BY <1>1, QuietTurn
<1>2. CASE ~FindsNothing
  <2>1. PICK id \in 1 .. Len(requests), reply \in Replies, value \in 0 .. MaxRequests :
            AnswerStep(id, reply, value)
    BY <1>2, PollAnswers
  <2>2. /\ answers' \in Seq(Answer)
        /\ Len(answers') = Len(answers) + 1
        /\ answers'[Len(answers) + 1] = [id |-> id, reply |-> reply, value |-> value]
        /\ \A i \in 1 .. Len(answers) : answers'[i] = answers[i]
        /\ \A i \in 1 .. Len(answers') : answers'[i].id \in 1 .. Len(requests)
        /\ CrashRemembered'
    BY <2>1, ReplyPreserves DEF AnswerStep
  <2>3. ContentIsLast'
    <3>1. CASE /\ TypeOf(id) = "WRITE" /\ reply = "OK" /\ value = 0
               /\ requests[id].block \in Blocks
               /\ content' = [content EXCEPT ![requests[id].block] = id]
      <4>1. /\ UNCHANGED requests /\ requests[id].type = "WRITE"
            /\ answers'[Len(answers) + 1] = [id |-> id, reply |-> "OK", value |-> 0]
        BY <2>1, <2>2, <3>1 DEF AnswerStep, TypeOf
      <4> QED
        BY <2>2, <3>1, <4>1, ContentWritten
    <3>2. CASE ~(TypeOf(id) = "WRITE" /\ reply = "OK") /\ UNCHANGED content
      <4>1. UNCHANGED <<requests, content>>
        BY <2>1, <3>2 DEF AnswerStep
      <4>2. \A b \in Blocks : ~Wrote(Len(answers), b)'
        BY <2>2, <3>2, <4>1 DEF Wrote, TypeOf
      <4> QED
        BY <2>2, <4>1, <4>2, ContentStays
    <3> QED
      BY <2>1, <3>1, <3>2 DEF AnswerStep
  <2>4. DiskTypeOK' /\ Sent'
    <3>1. UNCHANGED requests /\ diskState' \in {"OK", "CRASHED"}
      BY <2>1 DEF AnswerStep
    <3>2. posted' \in 0 .. MaxPending
      BY DiskAssumption DEF disk_poll, DiskTypeOK
    <3> QED
      BY <1>2, <2>2, <3>1, <3>2, PollAnswers DEF DiskTypeOK, Sent, Blocks
  <2>5. NoRequestStranded'
    <3>1. diskThread = "polls" /\ posted \in Nat /\ posted > 0 /\ posted' = posted - 1
      BY DiskAssumption DEF disk_poll, DiskTypeOK
    <3> QED
      BY <1>2, <3>1, PollAnswers DEF NoRequestStranded, DiskTypeOK
  <2> QED
    BY <2>2, <2>3, <2>4, <2>5
<1> QED
  BY <1>1, <1>2

(* Every step of the disk and of its clients keeps the invariant.          *)
LEMMA NextIInv == DiskIInv /\ [DiskNext]_diskVars => DiskIInv'
<1> SUFFICES ASSUME DiskIInv, [DiskNext]_diskVars PROVE DiskIInv'
  OBVIOUS
<1>1. CASE disk_read_block \/ disk_write_block \/ disk_shutdown \/ SendReset
  <2>1. {"READ", "WRITE", "SHUTDOWN", "RESET"} = Types /\ 0 \in 0 .. DiskSize
    BY DiskAssumption DEF Types
  <2>2. \E type \in Types, block \in 0 .. DiskSize : disk_send_request(type, block)
    BY <1>1, <2>1 DEF disk_read_block, disk_write_block, disk_shutdown, SendReset
  <2> QED
    BY <2>2, SendPreserves
<1>2. CASE disk_poll
  BY <1>2, PollPreserves
<1>3. CASE UNCHANGED diskVars
  <2>1. DiskTypeOK' /\ Sent' /\ NoRequestStranded'
    BY <1>3 DEF diskVars, DiskIInv, DiskTypeOK, Sent, NoRequestStranded, Blocks
  <2>2. CrashRemembered'
    BY <1>3 DEF diskVars, DiskIInv, CrashRemembered, ResetAnswered, TypeOf
  <2>3. ContentIsLast'
    BY <1>3 DEF diskVars, DiskIInv, ContentIsLast, Wrote, TypeOf, Blocks
  <2> QED
    BY <2>1, <2>2, <2>3 DEF DiskIInv
<1> QED
  BY <1>1, <1>2, <1>3 DEF DiskNext

-----------------------------------------------------------------------------
(* Every reachable state of the disk is well typed.                        *)
THEOREM TypeCorrect == DiskSpec => []DiskTypeOK
<1>1. DiskIInv => DiskTypeOK
  BY DEF DiskIInv
<1> QED
  BY InitIInv, NextIInv, <1>1, PTL DEF DiskSpec

(* While the disk thread runs, its semaphore counts every queued request,  *)
(* whatever was sent, swapped or reset.                                    *)
THEOREM RequestsCounted == DiskSpec => []NoRequestStranded
<1>1. DiskIInv => NoRequestStranded
  BY DEF DiskIInv
<1> QED
  BY InitIInv, NextIInv, <1>1, PTL DEF DiskSpec

(* What was answered stays: a step sends, or ends the thread, and gives no *)
(* answer, or it gives one.                                                *)
LEMMA HistoryGrows ==
  ASSUME DiskIInv, [DiskNext]_diskVars
  PROVE  /\ \A i \in 1 .. Len(answers) : /\ answers'[i] = answers[i]
                                       /\ requests'[answers[i].id] = requests[answers[i].id]
         /\ \/ Len(answers') = Len(answers)
            \/ /\ Len(answers') = Len(answers) + 1
               /\ \E id \in 1 .. Len(requests), reply \in Replies, value \in 0 .. MaxRequests :
                    /\ AnswerStep(id, reply, value)
                    /\ answers'[Len(answers) + 1] =
                         [id |-> id, reply |-> reply, value |-> value]
<1> USE DEF DiskIInv
<1>1. ASSUME NEW type \in Types, NEW block \in 0 .. DiskSize, disk_send_request(type, block)
      PROVE  /\ answers' = answers
             /\ \A i \in 1 .. Len(answers) : requests'[answers[i].id] = requests[answers[i].id]
  <2>1. [type |-> type, block |-> block] \in Request /\ answers' = answers
    BY <1>1 DEF Request, disk_send_request
  <2>2. requests' = Append(requests, [type |-> type, block |-> block])
    BY <1>1 DEF disk_send_request
  <2> QED
    BY <2>1, <2>2, SentStays DEF Sent
<1>2. CASE disk_read_block \/ disk_write_block \/ disk_shutdown \/ SendReset
  <2>1. {"READ", "WRITE", "SHUTDOWN", "RESET"} = Types /\ 0 \in 0 .. DiskSize
    BY DiskAssumption DEF Types
  <2>2. \E type \in Types, block \in 0 .. DiskSize : disk_send_request(type, block)
    BY <1>2, <2>1 DEF disk_read_block, disk_write_block, disk_shutdown, SendReset
  <2> QED
    BY <1>1, <2>2
<1>3. CASE disk_poll /\ FindsNothing
  BY <1>3 DEF disk_poll, FindsNothing
<1>4. CASE disk_poll /\ ~FindsNothing
  <2>1. PICK id \in 1 .. Len(requests), reply \in Replies, value \in 0 .. MaxRequests :
            AnswerStep(id, reply, value)
    BY <1>4, PollAnswers
  <2>2. /\ Len(answers') = Len(answers) + 1
        /\ answers'[Len(answers) + 1] = [id |-> id, reply |-> reply, value |-> value]
        /\ \A i \in 1 .. Len(answers) : answers'[i] = answers[i]
    BY <2>1, ReplyPreserves DEF AnswerStep
  <2> QED
    BY <2>1, <2>2 DEF AnswerStep
<1>5. CASE UNCHANGED diskVars
  BY <1>5 DEF diskVars
<1> QED
  BY <1>2, <1>3, <1>4, <1>5 DEF DiskNext

(* Behind an answer CRASHED nothing is carried out before a RESET.         *)
THEOREM CrashIsRemembered == DiskSpec => []CrashedUntilReset
<1>1. DiskInit => CrashedUntilReset
  BY DEF DiskInit, CrashedUntilReset
<1>2. DiskIInv /\ CrashedUntilReset /\ [DiskNext]_diskVars => CrashedUntilReset'
  <2> SUFFICES ASSUME DiskIInv, CrashedUntilReset, [DiskNext]_diskVars,
                      NEW i \in 1 .. Len(answers'), NEW j \in 1 .. Len(answers'),
                      i < j, answers'[i].reply = "CRASHED", answers'[j].reply # "CRASHED",
                      requests'[answers'[j].id].type # "SHUTDOWN"
               PROVE  \E k \in i + 1 .. j : /\ requests'[answers'[k].id].type = "RESET"
                                           /\ answers'[k].reply = "OK"
    BY DEF CrashedUntilReset, TypeOf
  <2>1. Len(answers) \in Nat
    BY DEF DiskIInv, DiskTypeOK
  <2>2. CASE j \in 1 .. Len(answers)
    <3>1. i \in 1 .. Len(answers) /\ \A k \in i + 1 .. j : k \in 1 .. Len(answers)
      BY <2>1, <2>2
    <3>2. \E k \in i + 1 .. j : TypeOf(answers[k].id) = "RESET" /\ answers[k].reply = "OK"
      BY <2>2, <3>1, HistoryGrows DEF CrashedUntilReset, TypeOf
    <3> QED
      BY <3>1, <3>2, HistoryGrows DEF TypeOf
  <2>3. CASE j = Len(answers) + 1 /\ Len(answers') = Len(answers) + 1
    <3>1. PICK id \in 1 .. Len(requests), reply \in Replies, value \in 0 .. MaxRequests :
              /\ AnswerStep(id, reply, value)
              /\ answers'[j] = [id |-> id, reply |-> reply, value |-> value]
      <4>1. Len(answers') # Len(answers)
        BY <2>1, <2>3
      <4> QED
        BY <2>3, <4>1, HistoryGrows
    <3>2. diskState' = "OK"
      BY <3>1 DEF AnswerStep, TypeOf
    <3>3. CrashRemembered'
      BY NextIInv DEF DiskIInv
    <3>4. j = Len(answers')
      BY <2>3
    <3>5. \E k \in i + 1 .. Len(answers') :
            requests'[answers'[k].id].type = "RESET" /\ answers'[k].reply = "OK"
      BY <3>2, <3>3 DEF CrashRemembered, ResetAnswered, TypeOf
    <3> QED
      BY <3>4, <3>5
  <2>4. Len(answers') = Len(answers) \/ Len(answers') = Len(answers) + 1
    BY HistoryGrows
  <2>5. \/ j \in 1 .. Len(answers)
        \/ j = Len(answers) + 1 /\ Len(answers') = Len(answers) + 1
    BY <2>1, <2>4
  <2> QED
    BY <2>2, <2>3, <2>5
<1> QED
  BY InitIInv, NextIInv, <1>1, <1>2, PTL DEF DiskSpec

(* ReadReturnsLatestWrite says this of every answer i, in terms of what    *)
(* was sent and answered.                                                  *)
WritesBefore(reqs, ans, i) ==
    {w \in {ans[j].id : j \in {k \in 1 .. i - 1 :
                reqs[ans[k].id].type \in {"WRITE"} /\ ans[k].reply = "OK"}} :
        reqs[w].block = reqs[ans[i].id].block}

InOrder(reqs, ans, b) ==
    \A j, k \in {j \in 1 .. Len(ans) : reqs[ans[j].id].block = b} :
        j < k => ans[j].id < ans[k].id

Latest(reqs, ans, i) ==
    /\ reqs[ans[i].id].type = "READ"
    /\ ans[i].reply = "OK"
    /\ InOrder(reqs, ans, reqs[ans[i].id].block)
    => IF WritesBefore(reqs, ans, i) = {} THEN ans[i].value = 0
       ELSE /\ ans[i].value \in WritesBefore(reqs, ans, i)
            /\ \A w \in WritesBefore(reqs, ans, i) : w <= ans[i].value

(* More answers do not change what was true of an earlier one.             *)
LEMMA LatestStays ==
  ASSUME DiskIInv, [DiskNext]_diskVars, NEW i \in 1 .. Len(answers),
         Latest(requests, answers, i)
  PROVE  Latest(requests', answers', i)
<1> DEFINE n == Len(answers)
<1>1. /\ n \in Nat /\ Len(answers') \in {n, n + 1}
      /\ \A j \in 1 .. n : /\ answers'[j] = answers[j]
                          /\ requests'[answers[j].id] = requests[answers[j].id]
  BY HistoryGrows DEF DiskIInv, DiskTypeOK
<1>2. WritesBefore(requests', answers', i) = WritesBefore(requests, answers, i)
  <2>1. \A k \in 1 .. i - 1 :
           /\ answers'[k] = answers[k]
           /\ requests'[answers[k].id] = requests[answers[k].id]
    <3>1. \A k \in 1 .. i - 1 : k \in 1 .. n
      BY <1>1
    <3> QED
      BY <1>1, <3>1
  <2>2. answers'[i] = answers[i] /\ requests'[answers[i].id] = requests[answers[i].id]
    BY <1>1
  <2> DEFINE b == requests[answers[i].id].block
             done(reqs, ans) == {k \in 1 .. i - 1 :
                 /\ reqs[ans[k].id].type \in {"WRITE"} /\ ans[k].reply = "OK"
                 /\ reqs[ans[k].id].block = b}
  <2>3. /\ WritesBefore(requests, answers, i) = {answers[k].id : k \in done(requests, answers)}
        /\ WritesBefore(requests', answers', i)
              = {answers'[k].id : k \in done(requests', answers')}
    BY <2>2 DEF WritesBefore
  <2>4. done(requests', answers') = done(requests, answers)
    BY <2>1
  <2>5. \A k \in done(requests, answers) : answers'[k] = answers[k]
    BY <2>1
  <2> HIDE DEF done
  <2> QED
    BY <2>3, <2>4, <2>5
<1>3. InOrder(requests', answers', requests[answers[i].id].block)
        => InOrder(requests, answers, requests[answers[i].id].block)
  <2>1. \A j \in 1 .. n : j \in 1 .. Len(answers')
    BY <1>1
  <2> QED
    BY <1>1, <2>1 DEF InOrder
<1> QED
  BY <1>1, <1>2, <1>3 DEF Latest

(* It is true of a new answer: the block holds what the last write stored, *)
(* and in order the last write is the latest.                              *)
LEMMA LatestAnswer ==
  ASSUME DiskIInv, NEW id \in 1 .. Len(requests), NEW reply \in Replies,
         NEW value \in 0 .. MaxRequests, AnswerStep(id, reply, value)
  PROVE  Latest(requests', answers', Len(answers) + 1)
<1> DEFINE n == Len(answers)
           b == requests[id].block
<1>1. /\ n \in Nat /\ requests' = requests /\ Len(answers') = n + 1
      /\ answers'[n + 1] = [id |-> id, reply |-> reply, value |-> value]
      /\ \A j \in 1 .. n : answers'[j] = answers[j]
      /\ \A j \in 1 .. n : answers[j].id \in Nat
  BY ReplyPreserves DEF AnswerStep, DiskIInv, DiskTypeOK, Sent
<1> SUFFICES ASSUME requests[id].type = "READ", reply = "OK",
                    InOrder(requests, answers', b)
             PROVE  IF WritesBefore(requests, answers', n + 1) = {} THEN value = 0
                    ELSE /\ value \in WritesBefore(requests, answers', n + 1)
                         /\ \A w \in WritesBefore(requests, answers', n + 1) : w <= value
  BY <1>1 DEF Latest
<1>2. b \in Blocks /\ value = content[b]
  BY DEF AnswerStep, TypeOf
<1>3. /\ \A w \in WritesBefore(requests, answers', n + 1) :
            \E k \in 1 .. n : Wrote(k, b) /\ w = answers[k].id
      /\ \A k \in 1 .. n : Wrote(k, b)
            => answers[k].id \in WritesBefore(requests, answers', n + 1)
  <2>1. (n + 1) - 1 = n
    BY <1>1
  <2>2. WritesBefore(requests, answers', n + 1) =
          {w \in {answers[k].id : k \in {k \in 1 .. n :
                    /\ requests[answers[k].id].type = "WRITE"
                    /\ answers[k].reply = "OK"}} : requests[w].block = b}
    BY <1>1, <2>1 DEF WritesBefore
  <2> QED
    BY <2>2 DEF Wrote, TypeOf
<1>4. CASE content[b] = 0 /\ \A j \in 1 .. n : ~Wrote(j, b)
  BY <1>2, <1>3, <1>4
<1>5. CASE \E j \in 1 .. n : /\ Wrote(j, b) /\ answers[j].id = content[b]
                           /\ \A k \in j + 1 .. n : ~Wrote(k, b)
  <2>1. PICK j \in 1 .. n : /\ Wrote(j, b) /\ answers[j].id = content[b]
                           /\ \A k \in j + 1 .. n : ~Wrote(k, b)
    BY <1>5
  <2>2. \A k \in 1 .. n : Wrote(k, b) => answers[k].id <= answers[j].id
    <3> SUFFICES ASSUME NEW k \in 1 .. n, Wrote(k, b)
                 PROVE  answers[k].id <= answers[j].id
      OBVIOUS
    <3>1. k <= j
      BY <1>1, <2>1
    <3>2. CASE k = j
      BY <1>1, <3>2
    <3>3. CASE k < j
      <4>1. /\ k \in 1 .. Len(answers') /\ j \in 1 .. Len(answers')
            /\ requests[answers'[k].id].block = b /\ requests[answers'[j].id].block = b
        BY <1>1, <2>1 DEF Wrote
      <4>2. answers'[k].id < answers'[j].id
        BY <3>3, <4>1 DEF InOrder
      <4> QED
        BY <1>1, <4>2
    <3> QED
      BY <1>1, <3>1, <3>2, <3>3
  <2> QED
    BY <1>2, <1>3, <2>1, <2>2
<1> QED
  BY <1>2, <1>4, <1>5 DEF DiskIInv, ContentIsLast

(* A READ of a block whose requests did not overtake one another returns   *)
(* what the last WRITE answered before it stored.                          *)
THEOREM ReadsLatest == DiskSpec => []ReadReturnsLatestWrite
<1>1. DiskInit => ReadReturnsLatestWrite
  BY DEF DiskInit, ReadReturnsLatestWrite
<1>2. DiskIInv /\ ReadReturnsLatestWrite /\ [DiskNext]_diskVars => ReadReturnsLatestWrite'
  <2> SUFFICES ASSUME DiskIInv, ReadReturnsLatestWrite, [DiskNext]_diskVars,
                      NEW i \in 1 .. Len(answers')
               PROVE  Latest(requests', answers', i)
    BY DEF ReadReturnsLatestWrite, Latest, InOrder, WritesBefore, Before, TypeOf
  <2>1. CASE i \in 1 .. Len(answers)
    <3>1. Latest(requests, answers, i)
      BY <2>1 DEF ReadReturnsLatestWrite, Latest, InOrder, WritesBefore, Before, TypeOf
    <3> QED
      BY <2>1, <3>1, LatestStays
  <2>2. CASE i = Len(answers) + 1 /\ Len(answers') # Len(answers)
    <3>1. PICK id \in 1 .. Len(requests), reply \in Replies, value \in 0 .. MaxRequests :
              AnswerStep(id, reply, value)
      BY <2>2, HistoryGrows
    <3> QED
      BY <2>2, <3>1, LatestAnswer
  <2>3. Len(answers) \in Nat /\ Len(answers') \in {Len(answers), Len(answers) + 1}
    BY HistoryGrows DEF DiskIInv, DiskTypeOK
  <2> QED
    BY <2>1, <2>2, <2>3
<1> QED
  BY InitIInv, NextIInv, <1>1, <1>2, PTL DEF DiskSpec

-----------------------------------------------------------------------------
(* What the inodes claim.  Their direct blocks are filled from the front,  *)
(* up to the last block their length fills; as long as a block was found   *)
(* whenever one was looked for, their size is the number of them.  A write *)
(* goes on from the last block there is and a read stays within the        *)
(* length, so that each asks only for blocks its inode has, unless the     *)
(* file claims more than its blocks hold.                                  *)
Table == 0 .. TABLE_SIZE - 1
Reaches(n, c) == \A k \in Table : k < c => n.direct[k] # -1
Packed(n) == \A k \in Table : n.direct[k] # -1 => Reaches(n, k)
Sized(n) == n.size \in 0 .. TABLE_SIZE /\ \A k \in Table : n.direct[k] # -1 <=> k < n.size
Whole(n, out) == Packed(n) /\ Reaches(n, n.bytes \div BLOCK) /\ (out \/ Sized(n))

(* What free_inode has yet to give back.                                   *)
Frees(r, n, out) ==
  out \/ (n.size <= TABLE_SIZE /\ \A k \in Table : r.i <= k /\ k < n.size => n.direct[k] # -1)
Reading(r) == r.pc = "read" \/ Waits(r, "data")
Moves(r, n, out) ==
  /\ Writing(r) /\ r.pc # "update" =>
       Reaches(n, r.cur) /\ r.end - r.cur * BLOCK - r.left \in 0 .. BLOCK - 1
  /\ Putting(r) => out \/ n.direct[r.cur] # -1
  /\ r.pc = "update" => Reaches(n, r.end \div BLOCK)
  /\ Reading(r) => r.cur * BLOCK + r.offset + r.left = r.end /\ r.end <= n.bytes
Cursor(f, tb) ==
  f.inode # -1 /\ tb[f.inode].type = "REGULARFILE" => f.position <= tb[f.inode].bytes
Claim(r, f, tb, out) ==
  /\ Moves(r, tb[r.target], out)
  /\ r.pc = "free" => Frees(r, tb[r.inode], out)
  /\ Cursor(f, tb)

Freeing(x) == \E t \in Users : th[t].pc = "free" /\ th[t].inode = x
WholeDisk(tb, out) == \A x \in Inodes : ~tb[x].free => Whole(tb[x], out)
FilesInv ==
  /\ WholeDisk(onDisk.inodes, ranOut)
  /\ boot = "ready" => \A x \in Inodes : ~inodes[x].free /\ ~Freeing(x) => Whole(inodes[x], ranOut)
  /\ \A t \in Users : Claim(th[t], file[t], inodes, ranOut)
  /\ fault # "none" => boot = "ready"
  /\ FaultIsExplained

(* What a read or a write works on is nobody's who frees an inode.         *)
LEMMA TargetIs ==
  ASSUME IInv, KInv, boot = "ready", NEW t \in Users, NEW r, r = th[t], Writing(r) \/ Reading(r),
         NEW x, x = r.target
  PROVE  /\ x \in r.area /\ x \in Inodes /\ ~inodes[x].free
         /\ x \in Directories(inodes) \/ Handles(x) # {}
<1>1. Fits(t, r) /\ Legal(r) /\ Works(t, r) /\ HandleOK(t) /\ cwd[t] \in Directories(inodes)
  BY Here DEF Fits
<1>2. ReadsFile(r, file[t])
  BY DEF KInv, WaitsInv
<1>3. r.op \in {"creat", "mkdir", "unlink", "rmdir", "write", "read"}
  BY <1>1 DEF Legal, Reading, Writing, Waits
<1>4. CASE r.op \in NameOps
  <2>1. Writing(r)
    BY <1>1, <1>4 DEF Legal, Reading, NameOps
  <2>2. x = cwd[t] /\ x \in r.area
    BY <1>1, <1>4, <2>1 DEF Works
  <2> QED
    BY <1>1, <2>2 DEF Directories
<1>5. CASE r.op \in {"read", "write"}
  <2>1. x = file[t].inode /\ x \in r.area /\ x # -1 /\ x \in Inodes
    BY <1>1, <1>2, <1>5 DEF Works, ReadsFile, Legal
  <2> QED
    BY <1>1, <2>1 DEF HandleOK, Handles
<1> QED
  BY <1>3, <1>4, <1>5 DEF NameOps

(* The inode that a thread frees is in use, but nobody knows it.           *)
LEMMA FreedIs ==
  ASSUME IInv, boot = "ready", NEW t \in Users, th[t].pc = "free", NEW x, x = th[t].inode
  PROVE  /\ x \in Inodes /\ ~inodes[x].free /\ inodes[x].type = "REGULARFILE"
         /\ Handles(x) = {} /\ Unknown(x) /\ x \notin Directories(inodes)
<1>1. Fits(t, th[t])
  BY Here
<1> QED
  BY <1>1 DEF Fits, Legal, FreesOne, Unknown, Directories

-----------------------------------------------------------------------------
(* What a step of a thread does to the claims of the inodes.               *)
Shrinks(r, x) == r.pc = "shift" /\ x = r.on
Extends(r, x) == r.pc = "write" /\ x = r.target
Frozen(r, x) == r.pc = "free" /\ x = r.inode
KeepsData(r) ==
  /\ (ranOut => ranOut')
  /\ \A x \in Inodes : ~inodes[x].free /\ ~Frozen(r, x) =>
       /\ inodes'[x].type = inodes[x].type
       /\ \A k \in Table : inodes[x].direct[k] # -1 => inodes'[x].direct[k] # -1
       /\ inodes[x].bytes <= inodes'[x].bytes \/ Shrinks(r, x)
       /\ inodes'[x].size = inodes[x].size \/ Extends(r, x)
InUse(x) == ~inodes'[x].free /\ ~Freeing(x)'
Outcome(t, s) ==
  /\ th' = [th EXCEPT ![t] = s] /\ \A u \in Users \ {t} : file'[u] = file[u]
  /\ KeepsData(th[t])
  /\ WholeDisk(onDisk'.inodes, ranOut')
  /\ \A x \in Inodes : InUse(x) => Whole(inodes'[x], ranOut')
  /\ Claim(s, file'[t], inodes', ranOut')
  /\ FaultIsExplained'

(* It takes nothing from what another thread relies on.                    *)
LEMMA MovesKept ==
  ASSUME IInv, KInv, FilesInv, boot = "ready", NEW t \in Users, KeepsData(th[t]),
         NEW u \in Users \ {t}, LengthsOK(inodes')
  PROVE  Moves(th[u], inodes'[th[u].target], ranOut')
<1>1. PICK r, x : r = th[u] /\ x = r.target
  OBVIOUS
<1>2. SUFFICES ASSUME Writing(r) \/ Reading(r) PROVE Moves(r, inodes'[x], ranOut')
  BY <1>1 DEF Moves, Writing, Putting
<1>3. /\ x \in r.area /\ x \in Inodes /\ ~inodes[x].free
      /\ x \in Directories(inodes) \/ Handles(x) # {}
  BY <1>1, <1>2, TargetIs
<1>4. ~Frozen(th[t], x)
  BY <1>3, FreedIs DEF Frozen
<1>5. ~Shrinks(th[t], x)
  <2>1. SUFFICES ASSUME th[t].pc = "shift", x = th[t].on PROVE FALSE
    BY DEF Shrinks
  <2>2. x \in th[t].area
    BY <2>1, Here DEF Fits, Legal, Works, NameOps
  <2> QED
    BY <1>1, <1>3, <2>2, Here
<1>6. /\ \A k \in Table : inodes[x].direct[k] # -1 => inodes'[x].direct[k] # -1
      /\ inodes[x].bytes <= inodes'[x].bytes /\ (ranOut => ranOut')
  BY <1>3, <1>4, <1>5 DEF KeepsData
<1>7. Moves(r, inodes[x], ranOut) /\ Span(r)
  BY <1>1 DEF FilesInv, Claim, KInv, LengthsInv
<1>8. CASE Writing(r) /\ r.pc # "update"
  <2>1. Spans(r)
    BY <1>8 DEF Writing, Spans
  <2>2. r.cur \in Table
    BY <1>7, <2>1, InTable DEF Table
  <2>3. Reaches(inodes'[x], r.cur)
    BY <1>6, <1>7, <1>8 DEF Moves, Reaches
  <2>4. Putting(r) => ranOut' \/ inodes'[x].direct[r.cur] # -1
    BY <1>6, <1>7, <2>2 DEF Moves, KeepsData
  <2>5. ~Reading(r)
    BY <1>8 DEF Reading, Writing, Waits
  <2> QED
    BY <1>7, <1>8, <2>3, <2>4, <2>5 DEF Moves
<1>9. CASE r.pc = "update"
  BY <1>6, <1>7, <1>9 DEF Moves, Reaches, Reading, Writing, Putting, Waits
<1>10. CASE Reading(r)
  <2>1. inodes[x].bytes \in Nat /\ inodes'[x].bytes \in Nat
    BY <1>3, SizeIs DEF KInv, LengthsInv, LengthsOK
  <2>2. r.end \in Nat
    BY <1>7, <1>10, SizeIs DEF Span, Spans, Reading
  <2>3. r.end <= inodes'[x].bytes
    <3>1. r.end <= inodes[x].bytes
      BY <1>7, <1>10 DEF Moves
    <3> QED
      BY <1>6, <2>1, <2>2, <3>1
  <2> QED
    BY <1>7, <1>10, <2>3 DEF Moves, Reading, Writing, Putting, Waits
<1> QED
  BY <1>2, <1>8, <1>9, <1>10

(* Nor from who frees an inode.                                            *)
LEMMA FreesKept ==
  ASSUME IInv, KInv, FilesInv, boot = "ready", NEW t \in Users, KeepsData(th[t]),
         NEW u \in Users \ {t}, th[u].pc = "free"
  PROVE  Frees(th[u], inodes'[th[u].inode], ranOut')
<1>1. PICK r, x : r = th[u] /\ x = r.inode
  OBVIOUS
<1>2. x \in Inodes /\ ~inodes[x].free /\ Handles(x) = {} /\ x \notin Directories(inodes)
  BY <1>1, FreedIs
<1>3. ~Frozen(th[t], x)
  BY <1>1, PrivateIs DEF Frozen, Private
<1>4. ~Extends(th[t], x)
  BY <1>2, TargetIs DEF Extends, Writing
<1>5. /\ \A k \in Table : inodes[x].direct[k] # -1 => inodes'[x].direct[k] # -1
      /\ inodes'[x].size = inodes[x].size /\ (ranOut => ranOut')
  BY <1>2, <1>3, <1>4 DEF KeepsData
<1>6. Frees(r, inodes[x], ranOut)
  BY <1>1 DEF FilesInv, Claim
<1> QED
  BY <1>1, <1>5, <1>6 DEF Frees

(* No cursor falls behind the end of its file.                             *)
LEMMA CursorKept ==
  ASSUME IInv, KInv, FilesInv, boot = "ready", NEW t \in Users, KeepsData(th[t]),
         NEW u \in Users, LengthsOK(inodes')
  PROVE  Cursor(file[u], inodes')
<1>1. PICK f, x : f = file[u] /\ x = f.inode
  OBVIOUS
<1>2. SUFFICES ASSUME x # -1, inodes'[x].type = "REGULARFILE" PROVE f.position <= inodes'[x].bytes
  BY <1>1 DEF Cursor
<1>3. ~inodes[x].free /\ x \in Inodes /\ Handles(x) # {}
  <2>1. FileOK(f) /\ HandleOK(u)
    BY <1>1, Here
  <2>2. x \in Inodes
    BY <1>1, <1>2, <2>1 DEF FileOK, NoFile
  <2> QED
    BY <1>1, <1>2, <2>1, <2>2 DEF HandleOK, Handles
<1>4. ~Frozen(th[t], x)
  BY <1>3, FreedIs DEF Frozen
<1>5. inodes[x].type = "REGULARFILE"
  BY <1>2, <1>3, <1>4 DEF KeepsData
<1>6. ~Shrinks(th[t], x)
  <2>1. SUFFICES ASSUME th[t].pc = "shift", x = th[t].on PROVE FALSE
    BY DEF Shrinks
  <2>2. x \in Directories(inodes)
    BY <2>1, Here DEF Fits, Legal, Works, NameOps
  <2> QED
    BY <1>5, <2>2 DEF Directories
<1>7. inodes[x].bytes <= inodes'[x].bytes
  BY <1>3, <1>4, <1>6 DEF KeepsData
<1>8. f.position <= inodes[x].bytes
  BY <1>1, <1>2, <1>5 DEF FilesInv, Claim, Cursor
<1>9. f.position \in Nat /\ inodes[x].bytes \in Nat /\ inodes'[x].bytes \in Nat
  BY <1>1, <1>3, SizeIs DEF KInv, LengthsInv, LengthsOK
<1> QED
  BY <1>7, <1>8, <1>9

(* So a step with such an outcome keeps what is claimed.                   *)
LEMMA OutcomeKeeps ==
  ASSUME IInv, KInv, FilesInv, boot = "ready", boot' = boot, NEW t \in Users, NEW s, Outcome(t, s),
         LengthsOK(inodes')
  PROVE  FilesInv'
<1>1. th'[t] = s /\ \A u \in Users \ {t} : th'[u] = th[u]
  BY Here DEF Outcome
<1>2. ASSUME NEW u \in Users PROVE Claim(th'[u], file'[u], inodes', ranOut')
  <2>1. CASE u = t
    BY <1>1, <2>1 DEF Outcome
  <2>2. CASE u # t
    <3>1. th'[u] = th[u] /\ file'[u] = file[u] /\ KeepsData(th[t])
      BY <1>1, <2>2 DEF Outcome
    <3>2. Moves(th[u], inodes'[th[u].target], ranOut')
      BY <2>2, <3>1, MovesKept
    <3>3. th[u].pc = "free" => Frees(th[u], inodes'[th[u].inode], ranOut')
      BY <2>2, <3>1, FreesKept
    <3>4. Cursor(file[u], inodes')
      BY <3>1, CursorKept
    <3> QED
      BY <3>1, <3>2, <3>3, <3>4 DEF Claim
  <2> QED
    BY <2>1, <2>2
<1>3. \A x \in Inodes : ~inodes'[x].free /\ ~Freeing(x)' => Whole(inodes'[x], ranOut')
  BY DEF Outcome, InUse
<1> QED
  BY <1>2, <1>3 DEF Outcome, FilesInv

-----------------------------------------------------------------------------
(* How far a position is, in whole blocks.                                 *)
LEMMA Quotient ==
  ASSUME NEW p \in Int, NEW q \in Int, p <= q
  PROVE  p \div BLOCK \in Int /\ p \div BLOCK <= q \div BLOCK
<1>1. BLOCK \in Nat \ {0}
  BY Sizes
<1>2. PICK a, b : a = p \div BLOCK /\ b = q \div BLOCK
  OBVIOUS
<1>3. a \in Int /\ b \in Int /\ p % BLOCK \in 0 .. BLOCK - 1 /\ q % BLOCK \in 0 .. BLOCK - 1
  BY <1>1, <1>2
<1>4. PICK c, d : c = p % BLOCK /\ d = q % BLOCK
  OBVIOUS
<1>5. p = BLOCK * a + c /\ q = BLOCK * b + d
  BY <1>1, <1>2, <1>4
<1>6. a <= b
  <2>1. SUFFICES ASSUME b < a PROVE FALSE
    BY <1>3
  <2>2. PICK e : e = a - b - 1
    OBVIOUS
  <2>3. e \in Nat /\ a = b + 1 + e
    BY <1>3, <2>1, <2>2
  <2>4. BLOCK * (b + 1 + e) = BLOCK * b + BLOCK + BLOCK * e
    BY <1>1, <1>3, <2>3
  <2>5. BLOCK * e \in Nat /\ BLOCK * b \in Int
    BY <1>1, <1>3, <2>3
  <2> QED
    BY <1>1, <1>3, <1>4, <1>5, <2>3, <2>4, <2>5
<1> QED
  BY <1>2, <1>3, <1>6

(* A length that does not fill block c.                                    *)
LEMMA EndsBefore ==
  ASSUME NEW p \in Int, NEW c \in Nat, p < c * BLOCK + BLOCK
  PROVE  p \div BLOCK <= c /\ p \div BLOCK \in Int
<1>1. BLOCK \in Nat \ {0}
  BY Sizes
<1>2. PICK a, m : a = p \div BLOCK /\ m = p % BLOCK
  OBVIOUS
<1>3. a \in Int /\ m \in 0 .. BLOCK - 1 /\ p = BLOCK * a + m
  BY <1>1, <1>2
<1>4. a <= c
  <2>1. SUFFICES ASSUME c < a PROVE FALSE
    BY <1>3
  <2>2. PICK e : e = a - c - 1
    OBVIOUS
  <2>3. e \in Nat /\ a = c + 1 + e
    BY <1>3, <2>1, <2>2
  <2>4. BLOCK * (c + 1 + e) = c * BLOCK + BLOCK + BLOCK * e
    BY <1>1, <2>3
  <2>5. BLOCK * e \in Nat /\ c * BLOCK \in Nat
    BY <1>1, <2>3
  <2> QED
    BY <1>1, <1>3, <2>3, <2>4, <2>5
<1> QED
  BY <1>2, <1>3, <1>4

(* A packed inode that lacks a block its length reaches into claims more   *)
(* than its blocks hold.                                                   *)
LEMMA TooMuch ==
  ASSUME NEW n, InodeOK(n), Packed(n), NEW k \in Table, n.direct[k] = -1,
         n.bytes \in Nat, k * BLOCK < n.bytes
  PROVE  n.bytes > BLOCK * Cardinality(BlocksOf(n.direct))
<1>1. BLOCK \in Nat \ {0} /\ k \in Nat /\ k - 1 \in Int /\ Table = 0 .. TABLE_SIZE - 1
  BY Sizes DEF Table
<1>2. PICK d : d = n.direct
  OBVIOUS
<1>3. d \in [Table -> Nat \cup {-1}] /\ DOMAIN d = Table
  BY <1>2, InodeIs DEF Table
<1>4. ASSUME NEW j \in Table, d[j] # -1 PROVE j < k
  <2>1. j # k /\ Reaches(n, j)
    BY <1>2, <1>4 DEF Packed
  <2>2. ~(k < j)
    BY <1>2, <2>1 DEF Reaches
  <2> QED
    BY <1>1, <2>1, <2>2
<1>5. PICK S : S = {j \in Table : d[j] # -1}
  OBVIOUS
<1>6. S \in SUBSET (0 .. k - 1)
  BY <1>1, <1>4, <1>5
<1>7. IsFiniteSet(0 .. k - 1) /\ Cardinality(0 .. k - 1) = k
  <2>1. 0 \in Int /\ (IF 0 > k - 1 THEN 0 ELSE k - 1 - 0 + 1) = k
    BY <1>1
  <2> QED
    BY <1>1, <2>1, FS_Interval
<1>8. IsFiniteSet(S) /\ Cardinality(S) <= k
  BY <1>6, <1>7, FS_Subset
<1>9. PICK f : f = [j \in S |-> d[j]]
  OBVIOUS
<1>10. f \in Surjection(S, BlocksOf(d))
  <2>1. \A b \in BlocksOf(d) : \E j \in S : f[j] = b
    BY <1>3, <1>5, <1>9 DEF BlocksOf
  <2>2. f \in [S -> BlocksOf(d)]
    BY <1>3, <1>5, <1>9 DEF BlocksOf
  <2> QED
    BY <2>1, <2>2 DEF Surjection
<1>11. PICK c : c = Cardinality(BlocksOf(d))
  OBVIOUS
<1>12. IsFiniteSet(BlocksOf(d)) /\ c <= Cardinality(S)
  BY <1>8, <1>10, <1>11, FS_Surjection
<1>13. c \in Nat /\ Cardinality(S) \in Nat
  BY <1>8, <1>11, <1>12, FS_CardinalityType
<1>14. c <= k
  BY <1>1, <1>8, <1>12, <1>13
<1>15. PICK e : e = k - c
  OBVIOUS
<1>16. e \in Nat /\ k = c + e
  BY <1>1, <1>13, <1>14, <1>15
<1>17. (c + e) * BLOCK = BLOCK * c + BLOCK * e /\ BLOCK * e \in Nat /\ BLOCK * c \in Nat
  BY <1>1, <1>13, <1>16
<1>18. BLOCK * c < n.bytes
  BY <1>16, <1>17
<1> QED
  BY <1>2, <1>11, <1>17, <1>18

-----------------------------------------------------------------------------
(* The steps that leave what inodes claim as it was.                       *)
SameData(x) ==
  /\ inodes'[x].free = inodes[x].free /\ inodes'[x].type = inodes[x].type
  /\ inodes'[x].direct = inodes[x].direct /\ inodes'[x].size = inodes[x].size
  /\ inodes'[x].bytes = inodes[x].bytes

(* There is nothing to explain.                                            *)
LEMMA NoFault ==
  ASSUME fault' = "none"
  PROVE  FaultIsExplained'
BY DEF FaultIsExplained

(* Who frees an inode goes on freeing it, or another step was taken.       *)
LEMMA StillFreed ==
  ASSUME IInv, boot = "ready", NEW t \in Users, NEW s, th' = [th EXCEPT ![t] = s],
         NEW x, Freeing(x), ~Frozen(th[t], x) \/ (s.pc = "free" /\ s.inode = x)
  PROVE  Freeing(x)'
<1>1. th'[t] = s /\ \A u \in Users \ {t} : th'[u] = th[u]
  BY Here
<1>2. PICK u \in Users : th[u].pc = "free" /\ th[u].inode = x
  BY DEF Freeing
<1>3. th'[u].pc = "free" /\ th'[u].inode = x
  BY <1>1, <1>2 DEF Frozen
<1> QED
  BY <1>3 DEF Freeing

(* A thread moves on and leaves the inodes what they claim.                *)
LEMMA SameOutcome ==
  ASSUME IInv, KInv, FilesInv, boot = "ready", NEW t \in Users, NEW s, th' = [th EXCEPT ![t] = s],
         th[t].pc # "free" \/ (s.pc = "free" /\ s.inode = th[t].inode),
         \A x \in Inodes : SameData(x), UNCHANGED <<onDisk, ranOut>>,
         \A u \in Users \ {t} : file'[u] = file[u],
         Claim(s, file'[t], inodes', ranOut), FaultIsExplained'
  PROVE  \E q : Outcome(t, q)
<1>1. KeepsData(th[t])
  <2>1. ASSUME NEW x \in Inodes
        PROVE  /\ inodes'[x].type = inodes[x].type
               /\ \A k \in Table : inodes[x].direct[k] # -1 => inodes'[x].direct[k] # -1
               /\ inodes[x].bytes <= inodes'[x].bytes
               /\ inodes'[x].size = inodes[x].size
    <3>1. SameData(x) /\ inodes[x].bytes \in Nat
      BY SizeIs DEF KInv, LengthsInv, LengthsOK
    <3>2. inodes[x].bytes <= inodes'[x].bytes
      BY <3>1 DEF SameData
    <3> QED
      BY <3>1, <3>2 DEF SameData
  <2> QED
    BY <2>1 DEF KeepsData
<1>2. WholeDisk(onDisk'.inodes, ranOut')
  BY DEF FilesInv
<1>3. ASSUME NEW x \in Inodes, InUse(x) PROVE Whole(inodes'[x], ranOut')
  <2>1. ~inodes[x].free /\ ~Freeing(x)
    <3>1. ~Frozen(th[t], x) \/ (s.pc = "free" /\ s.inode = x)
      BY DEF Frozen
    <3> QED
      BY <1>3, <3>1, StillFreed DEF InUse, SameData
  <2>2. Whole(inodes[x], ranOut)
    BY <2>1 DEF FilesInv
  <2> QED
    BY <2>2 DEF Whole, Packed, Sized, Reaches, SameData
<1> QED
  BY <1>1, <1>2, <1>3 DEF Outcome

(* A place where a thread claims nothing.                                  *)
LEMMA CalmMoves ==
  ASSUME NEW s, Light(s)
  PROVE  \A n, out : Moves(s, n, out)
BY DEF Light, Moves, Writing, Putting, Reading, Waits

(* It claims nothing where it is then.                                     *)
LEMMA CalmOutcome ==
  ASSUME IInv, KInv, FilesInv, boot = "ready", NEW t \in Users, NEW s, th' = [th EXCEPT ![t] = s],
         Light(s), s.pc # "free", th[t].pc # "free",
         \A x \in Inodes : SameData(x), UNCHANGED <<onDisk, ranOut>>,
         \A u \in Users \ {t} : file'[u] = file[u], Cursor(file'[t], inodes'), fault' = "none"
  PROVE  \E q : Outcome(t, q)
<1>1. Claim(s, file'[t], inodes', ranOut)
  BY CalmMoves DEF Claim
<1>2. FaultIsExplained'
  BY NoFault
<1> QED
  BY <1>1, <1>2, SameOutcome

(* Nothing happens to inodes or handles.                                   *)
Silent == UNCHANGED <<inodes, onDisk, file, ranOut>>

(* The inodes claim what they did.                                         *)
LEMMA SilentData ==
  ASSUME Silent
  PROVE  \A x \in Inodes : SameData(x)
BY DEF Silent, SameData

(* So does every cursor.                                                   *)
LEMMA SilentCursor ==
  ASSUME FilesInv, Silent, NEW t \in Users
  PROVE  Cursor(file'[t], inodes')
BY DEF Silent, FilesInv, Claim

(* A thread moves to such a place and nothing else happens.                *)
LEMMA LightOutcome ==
  ASSUME IInv, KInv, FilesInv, boot = "ready", NEW t \in Users, NEW s, th' = [th EXCEPT ![t] = s],
         Light(s), s.pc # "free", th[t].pc # "free", Silent, fault' = "none"
  PROVE  \E q : Outcome(t, q)
<1>1. Cursor(file'[t], inodes') /\ \A x \in Inodes : SameData(x)
  BY SilentCursor, SilentData
<1>2. UNCHANGED <<onDisk, ranOut>> /\ \A u \in Users \ {t} : file'[u] = file[u]
  BY DEF Silent
<1> QED
  BY <1>1, <1>2, CalmOutcome

(* A thread moves on within a read or a write.                             *)
LEMMA MoveOutcome ==
  ASSUME IInv, KInv, FilesInv, boot = "ready", NEW t \in Users, NEW s, th' = [th EXCEPT ![t] = s],
         s.pc # "free", th[t].pc # "free", Silent, fault' = "none",
         Moves(s, inodes[s.target], ranOut)
  PROVE  \E q : Outcome(t, q)
<1>1. Cursor(file'[t], inodes') /\ \A x \in Inodes : SameData(x)
  BY SilentCursor, SilentData
<1>2. UNCHANGED <<inodes, onDisk, ranOut>> /\ \A u \in Users \ {t} : file'[u] = file[u]
  BY DEF Silent
<1>3. Claim(s, file'[t], inodes', ranOut)
  BY <1>1, <1>2 DEF Claim
<1>4. FaultIsExplained'
  BY NoFault
<1> QED
  BY <1>1, <1>2, <1>3, <1>4, SameOutcome

(* The program ends in this step, for a reason.                            *)
LEMMA EndOutcome ==
  ASSUME IInv, KInv, FilesInv, boot = "ready", NEW t \in Users, UNCHANGED th, Silent,
         FaultIsExplained'
  PROVE  \E q : Outcome(t, q)
<1>1. th' = [th EXCEPT ![t] = th[t]]
  BY Here
<1>2. \A x \in Inodes : SameData(x)
  BY SilentData
<1>3. UNCHANGED <<inodes, onDisk, ranOut, file>>
  BY DEF Silent
<1>4. Claim(th[t], file'[t], inodes', ranOut)
  BY <1>3 DEF FilesInv, Claim
<1> QED
  BY <1>1, <1>2, <1>3, <1>4, SameOutcome

(* A directory, and an inode with a handle, is whole.                      *)
LEMMA NotFreed ==
  ASSUME IInv, FilesInv, boot = "ready", NEW x \in Inodes, ~inodes[x].free,
         x \in Directories(inodes) \/ Handles(x) # {} \/ Owed(x)
  PROVE  ~Freeing(x) /\ Whole(inodes[x], ranOut)
<1>1. ~Freeing(x)
  <2>1. SUFFICES ASSUME NEW t \in Users, th[t].pc = "free", th[t].inode = x PROVE FALSE
    BY DEF Freeing
  <2> QED
    BY <2>1, FreedIs DEF Unknown
<1> QED
  BY <1>1 DEF FilesInv

(* A thread asks for a block: it is there, or the file claims too much.    *)
LEMMA AskOutcome ==
  ASSUME IInv, KInv, FilesInv, Ready, NEW t \in Users, th[t].pc \in {"scan", "write", "read", "shift"},
         Silent, NEW what, NEW x \in Inodes, NEW k \in Table, ~inodes[x].free,
         Whole(inodes[x], ranOut), x \in {th[t].on, th[t].target},
         get_data_block(t, th[t], inodes[x].direct[k], what),
         \/ what \in {"entry", "list", "shift"}
         \/ th[t].pc = "write" /\ what = "put" /\ x = th[t].target /\ k = th[t].cur
         \/ th[t].pc = "read" /\ what = "data" /\ x = th[t].target,
         inodes[x].direct[k] # -1 \/ k * BLOCK < inodes[x].bytes
  PROVE  \E q : Outcome(t, q)
<1>1. PICK r, b : r = th[t] /\ b = inodes[x].direct[k]
  OBVIOUS
<1>2. boot = "ready" /\ fault = "none"
  BY DEF Ready
<1>3. InodeOK(inodes[x])
  BY DEF IInv, Shape, TableOK
<1>4. b \in Nat \cup {-1}
  BY <1>1, <1>3, InodeIs DEF Table
<1>5. CASE b \notin 0 .. NumData - 1
  <2>1. fault' = "semaphore" /\ UNCHANGED th
    BY <1>1, <1>5 DEF get_data_block, Fault
  <2>2. UNCHANGED inodes
    BY DEF Silent
  <2>3. ClaimsTooMuch(x)
    <3>1. CASE b = -1
      <4>1. inodes[x].bytes \in Nat
        BY SizeIs DEF KInv, LengthsInv, LengthsOK
      <4> QED
        BY <1>1, <1>3, <3>1, <4>1, TooMuch DEF ClaimsTooMuch, Whole
    <3>2. CASE b \in Nat
      <4>1. b >= NumData
        BY <1>5, <3>2, MiniFileAssumption
      <4>2. b \in BlocksOf(inodes[x].direct)
        <5>1. DOMAIN inodes[x].direct = Table
          BY <1>3, InodeIs DEF Table
        <5>2. b # -1
          BY <3>2
        <5> QED
          BY <1>1, <5>1, <5>2 DEF BlocksOf
      <4> QED
        BY <4>1, <4>2 DEF ClaimsTooMuch
    <3> QED
      BY <1>4, <3>1, <3>2
  <2>4. ClaimsTooMuch(x)'
    BY <2>2, <2>3 DEF ClaimsTooMuch
  <2>5. x \in {th'[t].target, th'[t].on}
    BY <2>1
  <2>6. FaultIsExplained'
    BY <2>1, <2>4, <2>5 DEF FaultIsExplained
  <2> QED
    BY <1>2, <2>1, <2>6, EndOutcome
<1>6. CASE b \in 0 .. NumData - 1
  <2>1. PICK s : s = Waiting(r, b, what)
    OBVIOUS
  <2>2. th' = [th EXCEPT ![t] = s] /\ fault' = "none"
    BY <1>1, <1>2, <1>6, <2>1 DEF get_data_block, Goto, Waiting
  <2>3. DOMAIN r = Fields
    BY <1>1, <1>2, Here
  <2>4. /\ s.pc = "wait" /\ s.then = what /\ s.target = r.target /\ s.cur = r.cur
        /\ s.offset = r.offset /\ s.left = r.left /\ s.end = r.end
    BY <2>1, <2>3 DEF Waiting, Fields
  <2>5. Moves(r, inodes[r.target], ranOut)
    BY <1>1 DEF FilesInv, Claim
  <2>6. Moves(s, inodes[s.target], ranOut)
    <3>1. CASE what \in {"entry", "list", "shift"}
      BY <2>4, <3>1 DEF Moves, Writing, Putting, Reading, Waits
    <3>2. CASE r.pc = "write" /\ what = "put" /\ x = r.target /\ k = r.cur
      <4>1. inodes[x].direct[r.cur] # -1
        BY <1>1, <1>4, <1>6, <3>2, MiniFileAssumption
      <4>2. Reaches(inodes[x], r.cur) /\ r.end - r.cur * BLOCK - r.left \in 0 .. BLOCK - 1
        BY <2>5, <3>2 DEF Moves, Writing
      <4> QED
        BY <2>4, <3>2, <4>1, <4>2 DEF Moves, Writing, Putting, Reading, Waits
    <3>3. CASE r.pc = "read" /\ what = "data" /\ x = r.target
      <4>1. r.cur * BLOCK + r.offset + r.left = r.end /\ r.end <= inodes[r.target].bytes
        BY <2>5, <3>3 DEF Moves, Reading
      <4> QED
        BY <2>4, <3>3, <4>1 DEF Moves, Writing, Putting, Reading, Waits
    <3> QED
      BY <1>1, <3>1, <3>2, <3>3
  <2>7. s.pc # "free" /\ th[t].pc # "free"
    BY <2>4
  <2> QED
    BY <1>2, <2>2, <2>6, <2>7, MoveOutcome
<1> QED
  BY <1>5, <1>6

-----------------------------------------------------------------------------
(* A round of a loop over the entries.                                     *)
LEMMA FirstNeeded ==
  ASSUME IInv, boot = "ready", NEW d \in Directories(inodes), NEW i \in Nat, i < Filled(inodes, d)
  PROVE  0 * BLOCK < inodes[d].bytes
<1>1. PICK f : f = Filled(inodes, d)
  OBVIOUS
<1>2. f \in 0 .. NumSlots /\ inodes[d].bytes = f * ENTRY
  BY <1>1, FilledIs DEF IInv, TreeInv
<1>3. PICK g : g = f - 1
  OBVIOUS
<1>4. g \in Nat /\ f = g + 1
  BY <1>1, <1>2, <1>3, Sizes
<1>5. (g + 1) * ENTRY = g * ENTRY + ENTRY /\ g * ENTRY \in Nat
  BY <1>4, Multiple
<1> QED
  BY <1>2, <1>4, <1>5, Sizes

(* The first block of a directory with an entry is asked for.              *)
LEMMA AskEntry ==
  ASSUME IInv, KInv, FilesInv, Ready, NEW t \in Users, th[t].pc \in {"scan", "shift"}, Silent,
         NEW what \in {"entry", "list", "shift"}, NEW x, x = th[t].on, x \in Directories(inodes),
         th[t].i < Filled(inodes, x), get_data_block(t, th[t], inodes[x].direct[0], what)
  PROVE  \E q : Outcome(t, q)
<1>1. boot = "ready" /\ 0 \in Table
  BY FirstBlock DEF Ready, Table
<1>2. x \in Inodes /\ ~inodes[x].free /\ th[t].i \in Nat
  BY <1>1, Here DEF Directories, Fits, Legal
<1>3. Whole(inodes[x], ranOut)
  BY <1>1, <1>2, NotFreed
<1>4. 0 * BLOCK < inodes[x].bytes
  BY <1>1, <1>2, FirstNeeded
<1> QED
  BY <1>1, <1>2, <1>3, <1>4, AskOutcome

(* The loop over the entries.                                              *)
LEMMA ScanOutcome ==
  ASSUME IInv, KInv, FilesInv, NEW t \in Users, Scan(t)
  PROVE  \E q : Outcome(t, q)
<1>1. PICK r : r = th[t]
  OBVIOUS
<1>2. r.pc = "scan" /\ Silent /\ Ready /\ boot = "ready" /\ fault = "none"
  BY <1>1 DEF Scan, At, Ready, memory, bitmap, Silent
<1>3. /\ DOMAIN r = Fields /\ r.on \in Inodes /\ r.op # "read" /\ r.i \in Nat
      /\ r.op \in NameOps \cup Walks /\ Works(t, r) /\ cwd[t] \in Directories(inodes)
  BY <1>1, <1>2, Here DEF Fits, Legal, NameOps, Walks
<1>4. CASE Return(t) /\ UNCHANGED fault
  BY <1>1, <1>2, <1>4, IdleLight, LightOutcome DEF Return
<1>5. CASE Missing(t, r) /\ UNCHANGED fault
  BY <1>1, <1>2, <1>3, <1>5, MissingLight, LightOutcome
<1>6. ASSUME NEW what \in {"entry", "list"}, get_data_block(t, r, inodes[r.on].direct[0], what),
             r.op \in Walks => inodes[r.on].type = "DIRECTORY", r.i < Entries(r.on)
      PROVE  \E q : Outcome(t, q)
  <2>1. r.on \in Directories(inodes)
    BY <1>3, <1>6 DEF Works, Directories
  <2>2. r.i < Filled(inodes, r.on)
    BY <1>6 DEF Entries, Filled
  <2> QED
    BY <1>1, <1>2, <1>6, <2>1, <2>2, AskEntry
<1> QED
  BY <1>1, <1>4, <1>5, <1>6 DEF Scan, Resolved

(* A round of inode_read stays within the length of the file.              *)
LEMMA ReadOutcome ==
  ASSUME IInv, KInv, FilesInv, NEW t \in Users, Read(t)
  PROVE  \E q : Outcome(t, q)
<1>1. PICK r, x : r = th[t] /\ x = r.target
  OBVIOUS
<1>2. r.pc = "read" /\ Silent /\ Ready /\ boot = "ready" /\ Reading(r)
  BY <1>1 DEF Read, At, Ready, memory, bitmap, handles, Silent, Reading
<1>3. x \in Inodes /\ ~inodes[x].free /\ Whole(inodes[x], ranOut)
  BY <1>1, <1>2, TargetIs, NotFreed
<1>4. Span(r) /\ Moves(r, inodes[x], ranOut) /\ Spans(r)
  BY <1>1, <1>2 DEF KInv, LengthsInv, FilesInv, Claim, Spans
<1>5. /\ r.cur \in Table /\ r.offset \in 0 .. BLOCK - 1 /\ r.left \in Nat \ {0}
      /\ r.cur * BLOCK \in Nat
  BY <1>4, InTable DEF Table
<1>6. r.cur * BLOCK + r.offset + r.left <= inodes[x].bytes
  BY <1>2, <1>4 DEF Moves
<1>7. inodes[x].bytes \in Nat /\ BLOCK \in Nat
  BY <1>3, SizeIs DEF KInv, LengthsInv, LengthsOK
<1>8. r.cur * BLOCK < inodes[x].bytes
  <2>1. PICK m : m = r.cur * BLOCK
    OBVIOUS
  <2> QED
    BY <1>5, <1>6, <1>7, <2>1
<1>9. get_data_block(t, th[t], inodes[x].direct[r.cur], "data")
  BY <1>1 DEF Read
<1> QED
  BY <1>1, <1>2, <1>3, <1>5, <1>8, <1>9, AskOutcome

(* A call that had nothing to do returns.                                  *)
LEMMA ReturnsOutcome ==
  ASSUME IInv, KInv, FilesInv, NEW t \in Users, Returns(t)
  PROVE  \E q : Outcome(t, q)
BY IdleLight, LightOutcome DEF Returns, At, Ready, Return, memory, bitmap, handles, Silent

-----------------------------------------------------------------------------
(* The block is there and was written: inode_write goes on, or it is done  *)
(* with all the blocks that the new length fills.                          *)
LEMMA PutMoves ==
  ASSUME NEW r, DOMAIN r = Fields, Putting(r), Span(r), NEW n, NEW out, Moves(r, n, out),
         n.direct[r.cur] # -1, NEW left,
         left = IF r.left < BLOCK - r.offset THEN 0 ELSE r.left - BLOCK,
         NEW s, s = PutOn(r, left, IF left > 0 THEN "write" ELSE "update")
  PROVE  Moves(s, n, out) /\ s.pc # "free" /\ s.target = r.target
<1>1. Spans(r) /\ Writing(r) /\ r.pc # "update"
  BY DEF Putting, Spans, Writing, Waits
<1>2. PICK c, m, o, l, e : c = r.cur /\ m = c * BLOCK /\ o = r.offset /\ l = r.left /\ e = r.end
  OBVIOUS
<1>3. /\ c \in Table /\ c \in Nat /\ o \in 0 .. BLOCK - 1 /\ l \in Nat \ {0} /\ m \in Nat /\ e \in Nat
      /\ BLOCK \in Nat \ {0}
  BY <1>1, <1>2, InTable, SizeIs DEF Table
<1>4. Reaches(n, c) /\ e - m - l \in 0 .. BLOCK - 1
  BY <1>1, <1>2 DEF Moves
<1>5. /\ s.left = left /\ s.offset = 0 /\ s.cur = c + 1 /\ s.end = e /\ s.target = r.target
      /\ s.pc = IF left > 0 THEN "write" ELSE "update"
  BY <1>2 DEF PutOn, Fields
<1>6. (c + 1) * BLOCK = m + BLOCK
  BY <1>2, <1>3
<1>7. ASSUME NEW k \in Table, k < c + 1 PROVE n.direct[k] # -1
  <2>1. k < c \/ k = c
    BY <1>3, <1>7 DEF Table
  <2> QED
    BY <1>2, <1>4, <2>1 DEF Reaches
<1>8. left = IF l < BLOCK - o THEN 0 ELSE l - BLOCK
  BY <1>2
<1>9. CASE left > 0
  <2>1. left = l - BLOCK
    BY <1>8, <1>9
  <2>2. e - (m + BLOCK) - left \in 0 .. BLOCK - 1
    BY <1>3, <1>4, <2>1
  <2>3. s.pc = "write"
    BY <1>5, <1>9
  <2>4. s.end - s.cur * BLOCK - s.left \in 0 .. BLOCK - 1
    BY <1>5, <1>6, <2>2
  <2>5. Reaches(n, s.cur)
    BY <1>5, <1>7 DEF Reaches
  <2> QED
    BY <1>5, <2>3, <2>4, <2>5 DEF Moves, Writing, Putting, Reading, Waits
<1>10. CASE ~(left > 0)
  <2>1. l <= BLOCK
    BY <1>3, <1>8, <1>10
  <2>2. e < (m + BLOCK) + BLOCK
    BY <1>3, <1>4, <2>1
  <2>3. PICK d : d = c + 1
    OBVIOUS
  <2>4. d \in Nat /\ e < d * BLOCK + BLOCK /\ e \in Int
    BY <1>3, <1>6, <2>2, <2>3
  <2>5. e \div BLOCK <= d /\ e \div BLOCK \in Int
    BY <2>4, EndsBefore
  <2>6. Reaches(n, e \div BLOCK)
    <3>1. PICK g : g = e \div BLOCK
      OBVIOUS
    <3>2. \A k \in Table : k < g => k < c + 1
      BY <1>3, <2>3, <2>5, <3>1 DEF Table
    <3> QED
      BY <1>7, <3>1, <3>2 DEF Reaches
  <2>7. s.pc = "update"
    BY <1>5, <1>10
  <2> QED
    BY <1>5, <2>6, <2>7 DEF Moves, Writing, Putting, Reading, Waits
<1> QED
  BY <1>9, <1>10

(* The block is written: the write goes on, or it is the last one.         *)
LEMMA PutOutcome ==
  ASSUME IInv, KInv, FilesInv, Ready, NEW t \in Users, PutBlock(t, th[t]), Putting(th[t]), Silent
  PROVE  \E q : Outcome(t, q)
<1>1. PICK r, x : r = th[t] /\ x = r.target
  OBVIOUS
<1>2. boot = "ready" /\ fault = "none"
  BY DEF Ready
<1>3. DOMAIN r = Fields /\ Span(r) /\ Moves(r, inodes[x], ranOut) /\ x \in Inodes
  BY <1>1, <1>2, Here DEF KInv, LengthsInv, FilesInv, Claim, Fits, Legal
<1>4. r.cur \in Table
  <2>1. Spans(r)
    BY <1>1 DEF Putting, Spans
  <2> QED
    BY <1>3, <2>1, InTable DEF Table
<1>5. inodes[x].direct[r.cur] \in Nat \cup {-1}
  <2>1. InodeOK(inodes[x])
    BY <1>3 DEF IInv, Shape, TableOK
  <2>2. inodes[x].direct \in [Table -> Nat \cup {-1}]
    BY <2>1, InodeIs DEF Table
  <2> QED
    BY <1>4, <2>2
<1>6. CASE inodes[x].direct[r.cur] < 0
  <2>1. fault' = "bitmap" /\ UNCHANGED th
    BY <1>1, <1>6 DEF PutBlock, Fault
  <2>2. inodes[x].direct[r.cur] = -1
    BY <1>5, <1>6
  <2>3. ranOut
    BY <1>1, <1>3, <2>2 DEF Moves
  <2>4. FaultIsExplained'
    BY <2>1, <2>3 DEF FaultIsExplained, Silent
  <2> QED
    BY <1>2, <2>1, <2>4, EndOutcome
<1>7. CASE ~(inodes[x].direct[r.cur] < 0)
  <2>1. PICK left : left = IF r.left < BLOCK - r.offset THEN 0 ELSE r.left - BLOCK
    OBVIOUS
  <2>2. PICK s : s = PutOn(r, left, IF left > 0 THEN "write" ELSE "update")
    OBVIOUS
  <2>3. th' = [th EXCEPT ![t] = s] /\ fault' = "none"
    BY <1>1, <1>2, <1>7, <2>1, <2>2 DEF PutBlock, Goto, PutOn
  <2>4. inodes[x].direct[r.cur] # -1
    BY <1>5, <1>7
  <2>5. Moves(s, inodes[x], ranOut) /\ s.pc # "free" /\ s.target = x
    BY <1>1, <1>3, <2>1, <2>2, <2>4, PutMoves
  <2>6. th[t].pc # "free"
    BY DEF Putting, Waits
  <2> QED
    BY <1>2, <2>3, <2>5, <2>6, MoveOutcome
<1> QED
  BY <1>6, <1>7

(* A read copies a block; with the last one the cursor is where it ends.   *)
LEMMA CopyMoves ==
  ASSUME NEW r, DOMAIN r = Fields, Waits(r, "data"), Span(r), NEW n, NEW out, Moves(r, n, out),
         NEW s, s = CopyOn(r)
  PROVE  Moves(s, n, out) /\ s.pc # "free" /\ s.target = r.target
<1>1. Spans(r) /\ Reading(r)
  BY DEF Spans, Reading
<1>2. PICK c, m, o, l, e : c = r.cur /\ m = c * BLOCK /\ o = r.offset /\ l = r.left /\ e = r.end
  OBVIOUS
<1>3. /\ c \in Nat /\ o \in 0 .. BLOCK - 1 /\ l \in Nat \ {0} /\ m \in Nat /\ e \in Nat
      /\ BLOCK \in Nat \ {0}
  BY <1>1, <1>2, InTable, SizeIs
<1>4. m + o + l = e /\ e <= n.bytes
  BY <1>1, <1>2 DEF Moves
<1>5. /\ s.left = l - (BLOCK - o) /\ s.offset = 0 /\ s.cur = c + 1 /\ s.end = e
      /\ s.target = r.target /\ s.pc = "read"
  BY <1>2 DEF CopyOn, Fields
<1>6. (c + 1) * BLOCK = m + BLOCK
  BY <1>2, <1>3
<1>7. (m + BLOCK) + 0 + (l - (BLOCK - o)) = e
  BY <1>3, <1>4
<1>8. s.cur * BLOCK + s.offset + s.left = s.end /\ s.end <= n.bytes
  BY <1>4, <1>5, <1>6, <1>7
<1> QED
  BY <1>5, <1>8 DEF Moves, Writing, Putting, Reading, Waits

(* A block was copied to the reader.                                       *)
LEMMA CopyOutcome ==
  ASSUME IInv, KInv, FilesInv, Ready, NEW t \in Users, Copies(t, th[t]), Waits(th[t], "data"),
         UNCHANGED <<inodes, onDisk, ranOut, fault>>
  PROVE  \E q : Outcome(t, q)
<1>1. PICK r, x : r = th[t] /\ x = r.target
  OBVIOUS
<1>2. boot = "ready" /\ fault' = "none" /\ r.pc = "wait" /\ Reading(r)
  BY <1>1 DEF Ready, Waits, Reading
<1>3. DOMAIN r = Fields /\ Span(r) /\ Moves(r, inodes[x], ranOut) /\ r.op = "read"
      /\ ReadsFile(r, file[t])
  BY <1>1, <1>2, Here DEF KInv, LengthsInv, WaitsInv, FilesInv, Claim, Fits, Legal
<1>4. CASE r.left > BLOCK - r.offset
  <2>1. PICK s : s = CopyOn(r)
    OBVIOUS
  <2>2. th' = [th EXCEPT ![t] = s] /\ Silent
    BY <1>1, <1>4, <2>1 DEF Copies, Goto, CopyOn, Silent
  <2>3. Moves(s, inodes[x], ranOut) /\ s.pc # "free" /\ s.target = x
    BY <1>1, <1>3, <2>1, CopyMoves
  <2> QED
    BY <1>1, <1>2, <2>2, <2>3, MoveOutcome
<1>5. CASE ~(r.left > BLOCK - r.offset)
  <2>1. Return(t) /\ file' = [file EXCEPT ![t].position = r.end]
    BY <1>1, <1>5 DEF Copies
  <2>2. file = [u \in Users |-> file[u]] /\ FileOK(file[t])
    BY <1>2, Here
  <2>3. /\ file'[t].position = r.end /\ file'[t].inode = file[t].inode
        /\ \A u \in Users \ {t} : file'[u] = file[u]
    BY <2>1, <2>2 DEF FileOK
  <2>4. file[t].inode = x
    BY <1>1, <1>3 DEF ReadsFile
  <2>5. r.end <= inodes[x].bytes
    BY <1>2, <1>3 DEF Moves
  <2>6. Cursor(file'[t], inodes')
    BY <2>3, <2>4, <2>5 DEF Cursor
  <2>7. \A y \in Inodes : SameData(y)
    BY DEF SameData
  <2> QED
    BY <1>1, <1>2, <2>1, <2>3, <2>6, <2>7, IdleLight, CalmOutcome DEF Return
<1> QED
  BY <1>4, <1>5

(* A write begins within what its inode has.                               *)
LEMMA BegunMoves ==
  ASSUME NEW r, DOMAIN r = Fields, NEW x, NEW p \in Nat, NEW len \in Nat, NEW n, NEW out,
         n.bytes \in Nat, p <= n.bytes, Whole(n, out), NEW s, s = Begun(r, x, p, len)
  PROVE  Moves(s, n, out) /\ s.pc = "write" /\ s.target = x
<1>1. PICK c, o : c = p \div BLOCK /\ o = p % BLOCK
  OBVIOUS
<1>2. /\ s.cur = c /\ s.left = len /\ s.end = p + len /\ s.pc = "write" /\ s.target = x
  BY <1>1 DEF Begun, Fields
<1>3. c \in Nat /\ o \in 0 .. BLOCK - 1 /\ c * BLOCK + o = p
  BY <1>1, PositionIs
<1>4. c * BLOCK \in Nat
  BY <1>3, SizeIs
<1>5. s.end - s.cur * BLOCK - s.left = o
  <2>1. PICK m : m = c * BLOCK
    OBVIOUS
  <2>2. (p + len) - m - len = o
    BY <1>3, <1>4, <2>1
  <2> QED
    BY <1>2, <2>1, <2>2
<1>6. PICK d : d = n.bytes \div BLOCK
  OBVIOUS
<1>7. c <= d /\ d \in Int
  BY <1>1, <1>6, Quotient
<1>8. Reaches(n, c)
  <2>1. \A k \in Table : k < c => k < d
    BY <1>3, <1>7 DEF Table
  <2> QED
    BY <1>6, <2>1 DEF Whole, Reaches
<1> QED
  BY <1>2, <1>3, <1>5, <1>8 DEF Moves, Writing, Putting, Reading, Waits

(* The entry behind the hole is moved into it.                             *)
LEMMA MoveEntryOutcome ==
  ASSUME IInv, KInv, FilesInv, Ready, NEW t \in Users, Waits(th[t], "shift"), Silent, UNCHANGED fault,
         BeginWrite(t, [th[t] EXCEPT !.entry = entries[th[t].on][th[t].i]],
                    th[t].on, (th[t].i - 1) * ENTRY, ENTRY)
  PROVE  \E q : Outcome(t, q)
<1>1. PICK r : r = th[t]
  OBVIOUS
<1>2. PICK w : w = [r EXCEPT !.entry = entries[r.on][r.i]]
  OBVIOUS
<1>3. boot = "ready" /\ fault' = "none" /\ r.pc = "wait"
  BY <1>1 DEF Ready, Waits
<1>4. Legal(r) /\ DOMAIN r = Fields /\ Works(t, r) /\ RemovesOne(r) /\ Waits(r, "shift")
  BY <1>1, <1>3, Here DEF Fits
<1>5. r.op \in {"unlink", "rmdir"} /\ r.i \in Nat /\ r.i < Filled(inodes, r.on) /\ r.on = cwd[t]
  BY <1>4 DEF Legal, Works, NameOps
<1>6. PICK x : x = r.on
  OBVIOUS
<1>7. x \in Directories(inodes) /\ x \in Inodes /\ ~inodes[x].free
  BY <1>3, <1>5, <1>6, Here DEF Directories
<1>8. r.i > 0
  BY <1>4, <1>5 DEF RemovesOne, Removing
<1>9. PICK f : f = Filled(inodes, x)
  OBVIOUS
<1>10. f \in 0 .. NumSlots /\ inodes[x].bytes = f * ENTRY
  BY <1>3, <1>7, <1>9, FilledIs DEF IInv, TreeInv
<1>11. PICK k, g : k = r.i - 1 /\ g = f - k
  OBVIOUS
<1>12. k \in Nat /\ g \in Nat /\ f = k + g
  BY <1>5, <1>6, <1>8, <1>9, <1>10, <1>11, Sizes
<1>13. PICK p : p = k * ENTRY
  OBVIOUS
<1>14. p \in Nat /\ ENTRY \in Nat /\ p <= inodes[x].bytes /\ inodes[x].bytes \in Nat
  <2>1. ENTRY \in Nat
    BY Sizes
  <2>2. (k + g) * ENTRY = p + g * ENTRY /\ g * ENTRY \in Nat /\ p \in Nat
    BY <1>12, <1>13, <2>1
  <2> QED
    BY <1>10, <1>12, <2>1, <2>2
<1>15. DOMAIN w = Fields
  BY <1>2, <1>4 DEF Fields
<1>16. PICK s : s = Begun(w, x, p, ENTRY)
  OBVIOUS
<1>17. BeginWrite(t, w, x, p, ENTRY)
  BY <1>1, <1>2, <1>6, <1>11, <1>13
<1>18. th' = [th EXCEPT ![t] = s]
  BY <1>16, <1>17 DEF BeginWrite, Goto, Begun
<1>19. Whole(inodes[x], ranOut)
  BY <1>3, <1>7, NotFreed
<1>20. Moves(s, inodes[x], ranOut) /\ s.pc = "write" /\ s.target = x
  BY <1>14, <1>15, <1>16, <1>19, BegunMoves
<1> QED
  BY <1>1, <1>3, <1>18, <1>20, MoveOutcome

-----------------------------------------------------------------------------
(* An entry was read: the file is opened,                                  *)
LEMMA OpensOutcome ==
  ASSUME IInv, KInv, FilesInv, Ready, NEW t \in Users, Waits(th[t], "entry"), UNCHANGED fault,
         NEW x, x = entries[th[t].on][th[t].i].inode, NEW ty, NEW pos,
         pos \in {0, inodes[x].bytes}, Refers(x),
         file' = [file EXCEPT ![t] = [inode |-> x, type |-> ty, position |-> pos]],
         Return(t), UNCHANGED <<onDisk, ranOut>>
  PROVE  \E q : Outcome(t, q)
<1>0. boot = "ready" /\ fault' = "none" /\ th[t].pc = "wait"
  BY DEF Ready, Waits
<1>1. Fits(t, th[t]) /\ Legal(th[t]) /\ Works(t, th[t])
  BY <1>0, Here DEF Fits
<1>2. x \in Inodes
  BY <1>0, <1>1, EntryThere DEF Legal, Works
<1>3. TableOK(inodes) /\ InodeOK(inodes[x])
  BY <1>2 DEF IInv, Shape, TableOK
<1>4. PICK v : v = inodes[x].references + 1
  OBVIOUS
<1>5. v \in Int
  <2>1. PICK w : w = inodes[x].references
    OBVIOUS
  <2>2. w \in Int
    BY <1>3, <2>1, InodeIs
  <2>3. w + 1 \in Int
    BY <2>2
  <2> QED
    BY <1>4, <2>1, <2>3
<1>6. inodes' = [inodes EXCEPT ![x].references = v]
  BY <1>4 DEF Refers
<1>7. /\ \A y \in Inodes : SameNode(y) /\ inodes'[y].direct = inodes[y].direct
      /\ inodes'[x].size = inodes[x].size
  BY <1>2, <1>3, <1>5, <1>6, ReferencesSet
<1>8. \A y \in Inodes : SameData(y)
  <2>1. \A y \in Inodes \ {x} : inodes'[y] = inodes[y]
    BY <1>3, <1>6 DEF TableOK
  <2> QED
    BY <1>7, <2>1 DEF SameData, SameNode
<1>9. /\ file'[t].inode = x /\ file'[t].position = pos
      /\ \A u \in Users \ {t} : file'[u] = file[u]
  <2>1. file = [u \in Users |-> file[u]]
    BY <1>0, Here
  <2> QED
    BY <2>1
<1>10. Cursor(file'[t], inodes')
  <2>1. inodes[x].bytes \in Nat
    BY <1>2, SizeIs DEF KInv, LengthsInv, LengthsOK
  <2>2. inodes'[x].bytes = inodes[x].bytes
    BY <1>2, <1>8 DEF SameData
  <2>3. pos <= inodes'[x].bytes
    <3>1. PICK m : m = inodes[x].bytes
      OBVIOUS
    <3>2. m \in Nat /\ pos \in {0, m}
      BY <2>1, <3>1
    <3>3. pos <= m
      BY <3>2
    <3> QED
      BY <2>2, <3>1, <3>3
  <2> QED
    BY <1>9, <2>3 DEF Cursor
<1> QED
  BY <1>0, <1>8, <1>9, <1>10, IdleLight, CalmOutcome DEF Return

(* minifile_open sets its cursor within the file.                          *)
LEMMA OpenedOutcome ==
  ASSUME IInv, KInv, FilesInv, Ready, NEW t \in Users, Waits(th[t], "entry"), UNCHANGED fault,
         Entry(t, th[t]), th[t].op = "open", th[t].mode # "w",
         entries[th[t].on][th[t].i].name = Head(th[t].path), UNCHANGED <<onDisk, ranOut>>
  PROVE  \E q : Outcome(t, q)
<1>1. PICK r : r = th[t]
  OBVIOUS
<1>2. PICK x : x = entries[r.on][r.i].inode
  OBVIOUS
<1>3. PICK q : q = [r EXCEPT !.inode = x]
  OBVIOUS
<1>4. DOMAIN r = Fields
  BY <1>1, Here DEF Ready
<1>5. q.inode = x /\ q.mode = r.mode
  BY <1>3, <1>4 DEF Fields
<1>6. Opens(t, q)
  <2>1. Opens(t, [th[t] EXCEPT !.inode = entries[th[t].on][th[t].i].inode])
    BY DEF Entry, Walks
  <2> QED
    BY <1>1, <1>2, <1>3, <2>1
<1>7. PICK ty, pos : /\ Refers(q.inode) /\ Return(t)
                     /\ pos \in {0, inodes[q.inode].bytes}
                     /\ file' = [file EXCEPT ![t] = [inode |-> q.inode, type |-> ty, position |-> pos]]
  BY <1>1, <1>5, <1>6 DEF Opens
<1>8. /\ Refers(x) /\ pos \in {0, inodes[x].bytes}
      /\ file' = [file EXCEPT ![t] = [inode |-> x, type |-> ty, position |-> pos]]
  BY <1>5, <1>7
<1>9. x = entries[th[t].on][th[t].i].inode /\ Return(t)
  BY <1>1, <1>2, <1>7
<1> QED
  BY <1>8, <1>9, OpensOutcome

(* or the call goes on.                                                    *)
LEMMA FoundOutcome ==
  ASSUME IInv, KInv, FilesInv, Ready, NEW t \in Users, Waits(th[t], "entry"), UNCHANGED fault,
         Entry(t, th[t]), UNCHANGED <<onDisk, ranOut>>
  PROVE  \E q : Outcome(t, q)
<1>1. boot = "ready" /\ fault' = "none" /\ th[t].pc = "wait"
  BY DEF Ready, Waits
<1>2. CASE th[t].op = "open" /\ th[t].mode # "w" /\ entries[th[t].on][th[t].i].name = Head(th[t].path)
  BY <1>2, OpenedOutcome
<1>3. CASE ~(th[t].op = "open" /\ th[t].mode # "w" /\ entries[th[t].on][th[t].i].name = Head(th[t].path))
  <2>1. DOMAIN th[t] = Fields /\ th[t].op \in NameOps \cup Walks
    BY <1>1, Here DEF Fits, Legal
  <2>2. (\E s : th' = [th EXCEPT ![t] = s] /\ Light(s) /\ s.pc # "free") /\ UNCHANGED <<inodes, file>>
    BY <1>3, <2>1, EntryLight
  <2>3. Silent
    BY <2>2 DEF Silent
  <2> QED
    BY <1>1, <2>2, <2>3, LightOutcome
<1> QED
  BY <1>2, <1>3

(* A thread gets its block and goes on.                                    *)
LEMMA WakeOutcome ==
  ASSUME IInv, KInv, FilesInv, NEW t \in Users, Wake(t)
  PROVE  \E q : Outcome(t, q)
<1>1. /\ Ready /\ boot = "ready" /\ fault = "none" /\ th[t].pc = "wait"
      /\ UNCHANGED <<onDisk, ranOut>>
  BY DEF Wake, At, Ready, bitmap
<1>2. th[t].then \in {"entry", "shift", "put", "data", "list"}
  BY <1>1, Here DEF Fits, Legal
<1>3. CASE th[t].then = "entry"
  <2>1. Entry(t, th[t]) /\ UNCHANGED fault
    BY <1>3 DEF Wake
  <2> QED
    BY <1>1, <1>3, <2>1, FoundOutcome DEF Waits
<1>4. CASE th[t].then = "shift"
  <2>1. /\ BeginWrite(t, [th[t] EXCEPT !.entry = entries[th[t].on][th[t].i]],
                      th[t].on, (th[t].i - 1) * ENTRY, ENTRY)
        /\ UNCHANGED <<inodes, file, fault>>
    BY <1>4 DEF Wake
  <2> QED
    BY <1>1, <1>4, <2>1, MoveEntryOutcome DEF Waits, Silent
<1>5. CASE th[t].then = "put"
  <2>1. PutBlock(t, th[t]) /\ UNCHANGED <<inodes, file>>
    BY <1>5 DEF Wake
  <2> QED
    BY <1>1, <1>5, <2>1, PutOutcome DEF Putting, Waits, Silent
<1>6. CASE th[t].then = "data"
  <2>1. Copies(t, th[t]) /\ UNCHANGED <<inodes, fault>>
    BY <1>6 DEF Wake
  <2> QED
    BY <1>1, <1>6, <2>1, CopyOutcome DEF Waits
<1>7. CASE th[t].then = "list"
  <2>1. Goto(t, [th[t] EXCEPT !.i = @ + 1], "scan") /\ UNCHANGED <<inodes, file, fault>>
    BY <1>7 DEF Wake
  <2>2. PICK q : q = [th[t] EXCEPT !.i = @ + 1]
    OBVIOUS
  <2>3. DOMAIN q = Fields /\ q.op = th[t].op /\ th[t].op # "read"
    BY <1>1, <1>7, <2>2, Here DEF Fields, Fits, Legal, Waits, Walks
  <2>4. \E s : th' = [th EXCEPT ![t] = s] /\ Light(s) /\ s.pc = "scan"
    <3>1. Goto(t, q, "scan")
      BY <2>1, <2>2
    <3> QED
      BY <2>3, <3>1, LightIs
  <2> QED
    BY <1>1, <2>1, <2>4, LightOutcome DEF Silent
<1> QED
  BY <1>2, <1>3, <1>4, <1>5, <1>6, <1>7

-----------------------------------------------------------------------------
(* The steps that change what one inode claims.                            *)
LEMMA StaysWhole ==
  ASSUME NEW n, NEW out, NEW out2, Whole(n, out), out => out2
  PROVE  Whole(n, out2)
BY DEF Whole

(* One inode changes, and keeps what others rely on.                       *)
LEMMA OneKeeps ==
  ASSUME KInv, NEW r, NEW x \in Inodes, ranOut => ranOut', \A y \in Inodes \ {x} : SameData(y),
         \/ inodes[x].free
         \/ Frozen(r, x)
         \/ /\ inodes'[x].type = inodes[x].type
            /\ \A k \in Table : inodes[x].direct[k] # -1 => inodes'[x].direct[k] # -1
            /\ inodes[x].bytes <= inodes'[x].bytes \/ Shrinks(r, x)
            /\ inodes'[x].size = inodes[x].size \/ Extends(r, x)
  PROVE  KeepsData(r)
<1>1. ASSUME NEW y \in Inodes \ {x}
      PROVE  /\ inodes'[y].type = inodes[y].type
             /\ \A k \in Table : inodes[y].direct[k] # -1 => inodes'[y].direct[k] # -1
             /\ inodes[y].bytes <= inodes'[y].bytes
             /\ inodes'[y].size = inodes[y].size
  <2>1. SameData(y) /\ inodes[y].bytes \in Nat
    BY SizeIs DEF KInv, LengthsInv, LengthsOK
  <2>2. inodes[y].bytes <= inodes'[y].bytes
    BY <2>1 DEF SameData
  <2> QED
    BY <2>1, <2>2 DEF SameData
<1> QED
  BY <1>1 DEF KeepsData

(* An inode that did not change is as whole as before.                     *)
LEMMA OthersWhole ==
  ASSUME IInv, FilesInv, boot = "ready", NEW t \in Users, NEW s, th' = [th EXCEPT ![t] = s],
         NEW y \in Inodes, SameData(y), ranOut => ranOut', InUse(y),
         ~Frozen(th[t], y) \/ (s.pc = "free" /\ s.inode = y)
  PROVE  Whole(inodes'[y], ranOut')
<1>1. ~inodes[y].free /\ ~Freeing(y)
  BY StillFreed DEF InUse, SameData
<1>2. Whole(inodes[y], ranOut)
  BY <1>1 DEF FilesInv
<1>3. Whole(inodes[y], ranOut')
  BY <1>2, StaysWhole
<1> QED
  BY <1>3 DEF Whole, Packed, Sized, Reaches, SameData

(* The disk gets a new bitmap, or one inode from memory.                   *)
LEMMA DiskStays ==
  ASSUME IInv, FilesInv, onDisk' = [onDisk EXCEPT !.free = freeBlocks'] \/ onDisk' = onDisk,
         ranOut => ranOut'
  PROVE  WholeDisk(onDisk'.inodes, ranOut')
<1>1. onDisk = [inodes |-> onDisk.inodes, free |-> onDisk.free, super |-> onDisk.super]
  BY DEF IInv, Shape
<1>2. onDisk'.inodes = onDisk.inodes
  BY <1>1
<1>3. WholeDisk(onDisk.inodes, ranOut)
  BY DEF FilesInv
<1> QED
  BY <1>2, <1>3, StaysWhole DEF WholeDisk

(* The inode that is put on the disk is whole, or free.                    *)
LEMMA DiskWhole ==
  ASSUME IInv, FilesInv, NEW x \in Inodes, onDisk' = [onDisk EXCEPT !.inodes[x] = inodes'[x]],
         ranOut => ranOut', inodes'[x].free \/ Whole(inodes'[x], ranOut')
  PROVE  WholeDisk(onDisk'.inodes, ranOut')
<1>1. TableOK(onDisk.inodes)
      /\ onDisk = [inodes |-> onDisk.inodes, free |-> onDisk.free, super |-> onDisk.super]
  BY DEF IInv, Shape
<1>2. onDisk'.inodes = [onDisk.inodes EXCEPT ![x] = inodes'[x]]
  BY <1>1
<1>3. onDisk'.inodes[x] = inodes'[x] /\ \A y \in Inodes \ {x} : onDisk'.inodes[y] = onDisk.inodes[y]
  BY <1>1, <1>2 DEF TableOK
<1>4. WholeDisk(onDisk.inodes, ranOut)
  BY DEF FilesInv
<1>5. ASSUME NEW y \in Inodes, ~onDisk'.inodes[y].free PROVE Whole(onDisk'.inodes[y], ranOut')
  <2>1. CASE y = x
    BY <1>3, <1>5, <2>1
  <2>2. CASE y # x
    <3>1. Whole(onDisk.inodes[y], ranOut)
      BY <1>3, <1>4, <1>5, <2>2 DEF WholeDisk
    <3> QED
      BY <1>3, <2>2, <3>1, StaysWhole
  <2> QED
    BY <2>1, <2>2
<1> QED
  BY <1>5 DEF WholeDisk

(* The outcome of a step that changes one inode.                           *)
LEMMA TableOutcome ==
  ASSUME IInv, KInv, FilesInv, boot = "ready", LengthsOK(inodes'), NEW t \in Users, NEW s,
         th' = [th EXCEPT ![t] = s], KeepsData(th[t]), NEW x \in Inodes,
         \A y \in Inodes \ {x} : SameData(y) /\ ~Frozen(th[t], y),
         InUse(x) => Whole(inodes'[x], ranOut'), WholeDisk(onDisk'.inodes, ranOut'),
         Moves(s, inodes'[s.target], ranOut'), s.pc = "free" => Frees(s, inodes'[s.inode], ranOut'),
         UNCHANGED file \/ ((\A u \in Users \ {t} : file'[u] = file[u]) /\ Cursor(file'[t], inodes')),
         fault' = "none"
  PROVE  \E q : Outcome(t, q)
<1>1. ranOut => ranOut'
  BY DEF KeepsData
<1>2. ASSUME NEW y \in Inodes, InUse(y) PROVE Whole(inodes'[y], ranOut')
  BY <1>1, <1>2, OthersWhole
<1>3. Cursor(file'[t], inodes') /\ \A u \in Users \ {t} : file'[u] = file[u]
  BY CursorKept
<1>4. Claim(s, file'[t], inodes', ranOut')
  BY <1>3 DEF Claim
<1>5. FaultIsExplained'
  BY NoFault
<1> QED
  BY <1>2, <1>3, <1>4, <1>5 DEF Outcome

-----------------------------------------------------------------------------
(* allocate_inode: the new inode has the block it was given, or none.      *)
LEMMA FreshWhole ==
  ASSUME NEW n, NEW type, NEW d, NEW b, n = Fresh(type, d, b), NEW out, b = -1 => out
  PROVE  Whole(n, out) /\ n.bytes = 0 /\ n.size = 1
<1>1. n.size = 1 /\ n.bytes = 0 /\ n.direct = [NoBlocks EXCEPT ![0] = b]
  BY DEF Fresh, Inode
<1>2. TABLE_SIZE \in Nat \ {0} /\ BLOCK \in Nat \ {0}
  BY SizeIs
<1>3. \A k \in Table : n.direct[k] = IF k = 0 THEN b ELSE -1
  BY <1>1 DEF NoBlocks, Table
<1>4. Packed(n) /\ Reaches(n, 0)
  BY <1>2, <1>3 DEF Packed, Reaches, Table
<1>5. n.bytes \div BLOCK = 0
  BY <1>1, <1>2
<1>6. b # -1 => Sized(n)
  <2>1. \A k \in Table : k = 0 <=> k < 1
    BY <1>2 DEF Table
  <2>2. n.size \in 0 .. TABLE_SIZE
    BY <1>1, <1>2
  <2> QED
    BY <1>1, <1>3, <2>1, <2>2 DEF Sized
<1> QED
  BY <1>1, <1>4, <1>5, <1>6 DEF Whole

(* allocate_inode: the new inode has one block, or no block was left.      *)
LEMMA AllocateOutcome ==
  ASSUME IInv, KInv, FilesInv, LengthsOK(inodes'), NEW t \in Users, Allocate(t)
  PROVE  \E q : Outcome(t, q)
<1>0. boot = "ready" /\ fault = "none" /\ th[t].pc = "allocate" /\ UNCHANGED file
  BY DEF Allocate, At, Ready, handles
<1>1. CASE {y \in Inodes \ {0} : inodes[y].free} = {}
  <2>1. UNCHANGED th /\ Silent /\ fault' = "null"
    BY <1>0, <1>1 DEF Allocate, Fault, memory, bitmap, Silent
  <2>2. Exhausted'
    BY <1>1, <2>1 DEF Exhausted, Silent
  <2>3. FaultIsExplained'
    BY <2>1, <2>2 DEF FaultIsExplained
  <2> QED
    BY <1>0, <2>1, <2>3, EndOutcome
<1>2. CASE {y \in Inodes \ {0} : inodes[y].free} # {}
  <2>1. PICK r, b : r = th[t] /\ b = allocate_block
    OBVIOUS
  <2>2. PICK x : x = Least({y \in Inodes \ {0} : inodes[y].free})
    OBVIOUS
  <2>3. PICK type : type = IF r.op = "mkdir" THEN "DIRECTORY" ELSE "REGULARFILE"
    OBVIOUS
  <2>4. PICK n : n = Fresh(type, r.on, b)
    OBVIOUS
  <2>5. PICK w : w = [r EXCEPT !.inode = x, !.entry = [name |-> Head(r.path), inode |-> x]]
    OBVIOUS
  <2>6. /\ Goto(t, w, "made") /\ inodes' = [inodes EXCEPT ![x] = n]
        /\ onDisk' = [onDisk EXCEPT !.free = freeBlocks']
        /\ ranOut' = (ranOut \/ b = -1) /\ fault' = "none"
    BY <1>0, <1>2, <2>1, <2>2, <2>3, <2>4, <2>5 DEF Allocate, Fresh, Takes
  <2>7. x \in Inodes /\ inodes[x].free
    <3>1. {y \in Inodes \ {0} : inodes[y].free} \in SUBSET Nat
      BY MiniFileAssumption DEF Inodes
    <3>2. x \in {y \in Inodes \ {0} : inodes[y].free}
      BY <1>2, <2>2, <3>1, LeastIn
    <3> QED
      BY <3>2
  <2>8. inodes'[x] = n /\ \A y \in Inodes \ {x} : inodes'[y] = inodes[y]
    BY <2>6, <2>7 DEF IInv, Shape, TableOK
  <2>9. (ranOut => ranOut') /\ (b = -1 => ranOut')
    BY <2>6
  <2>10. Whole(inodes'[x], ranOut')
    BY <2>4, <2>8, <2>9, FreshWhole
  <2>11. \A y \in Inodes \ {x} : SameData(y) /\ ~Frozen(th[t], y)
    BY <1>0, <2>8 DEF SameData, Frozen
  <2>12. KeepsData(th[t])
    BY <2>7, <2>9, <2>11, OneKeeps
  <2>13. WholeDisk(onDisk'.inodes, ranOut')
    BY <2>6, <2>9, DiskStays
  <2>14. r.op # "read" /\ DOMAIN r = Fields
    BY <1>0, <2>1, Here DEF Fits, Legal
  <2>15. DOMAIN w = Fields /\ w.op = r.op
    BY <2>5, <2>14 DEF Fields
  <2>16. PICK s : th' = [th EXCEPT ![t] = s] /\ Light(s) /\ s.pc = "made"
    <3>1. Goto(t, w, "made") /\ DOMAIN w = Fields /\ w.op # "read"
      BY <2>6, <2>14, <2>15
    <3>2. \E s : th' = [th EXCEPT ![t] = s] /\ Light(s) /\ s.pc = "made"
      BY <3>1, LightIs
    <3> QED
      BY <3>2
  <2>17. Moves(s, inodes'[s.target], ranOut') /\ s.pc # "free"
    BY <2>16, CalmMoves
  <2> QED
    BY <1>0, <2>6, <2>7, <2>10, <2>11, <2>12, <2>13, <2>16, <2>17, TableOutcome
<1> QED
  BY <1>1, <1>2

(* The new inode is on the disk, and its directory gets the entry.         *)
LEMMA MadeOutcome ==
  ASSUME IInv, KInv, FilesInv, LengthsOK(inodes'), NEW t \in Users, Made(t)
  PROVE  \E q : Outcome(t, q)
<1>1. PICK r, p : r = th[t] /\ p = inodes[r.on].bytes
  OBVIOUS
<1>2. PICK s : s = Begun(r, r.on, p, ENTRY)
  OBVIOUS
<1>3. PICK x : x = r.inode
  OBVIOUS
<1>4. /\ boot = "ready" /\ r.pc = "made" /\ th' = [th EXCEPT ![t] = s]
      /\ UNCHANGED <<inodes, file, ranOut>> /\ onDisk' = [onDisk EXCEPT !.inodes[x] = inodes[x]]
      /\ fault' = "none"
  BY <1>1, <1>2, <1>3 DEF Made, At, Ready, BeginWrite, Goto, Begun, memory, bitmap, handles
<1>5. Fits(t, r) /\ Legal(r) /\ Works(t, r) /\ DOMAIN r = Fields
  BY <1>1, <1>4, Here DEF Fits
<1>6. r.op \in {"creat", "mkdir"} /\ r.op \in NameOps /\ x \in Inodes
  BY <1>3, <1>4, <1>5 DEF Legal, NameOps
<1>7. r.on \in Directories(inodes) /\ r.on \in Inodes /\ ~inodes[r.on].free
  <2>1. r.on = cwd[t]
    BY <1>5, <1>6 DEF Works
  <2> QED
    BY <1>4, <1>5, <1>6, <2>1, Here DEF Directories
<1>8. Whole(inodes[r.on], ranOut)
  BY <1>4, <1>7, NotFreed
<1>9. p \in Nat /\ ENTRY \in Nat
  BY <1>1, <1>7, SizeIs, Sizes DEF KInv, LengthsInv, LengthsOK
<1>10. p <= inodes[r.on].bytes
  BY <1>1, <1>9
<1>11. Moves(s, inodes[r.on], ranOut) /\ s.pc = "write" /\ s.target = r.on
  BY <1>1, <1>2, <1>5, <1>8, <1>9, <1>10, BegunMoves
<1>12. Whole(inodes[x], ranOut)
  <2>1. Private(r)
    BY <1>4, <1>6 DEF Private, Creating
  <2>2. ~inodes[x].free /\ \A u \in Users \ {t} : Private(th[u]) => th[u].inode # x
    BY <1>1, <1>3, <1>4, <2>1, PrivateIs
  <2>3. ~Freeing(x)
    BY <1>1, <1>4, <2>2 DEF Freeing, Private
  <2> QED
    BY <1>4, <1>6, <2>2, <2>3 DEF FilesInv
<1>13. \A y \in Inodes : SameData(y) /\ ~Frozen(th[t], y)
  BY <1>1, <1>4 DEF SameData, Frozen
<1>14. KeepsData(th[t])
  <2>1. inodes[x].bytes \in Nat
    BY <1>6, SizeIs DEF KInv, LengthsInv, LengthsOK
  <2>2. inodes'[x].bytes = inodes[x].bytes /\ inodes'[x] = inodes[x]
    BY <1>4
  <2>3. inodes[x].bytes <= inodes'[x].bytes
    BY <2>1, <2>2
  <2> QED
    BY <1>4, <1>6, <1>13, <2>2, <2>3, OneKeeps
<1>15. WholeDisk(onDisk'.inodes, ranOut')
  BY <1>4, <1>6, <1>12, DiskWhole
<1>16. Moves(s, inodes'[s.target], ranOut') /\ Whole(inodes'[x], ranOut')
  BY <1>4, <1>11, <1>12
<1> QED
  BY <1>1, <1>4, <1>6, <1>11, <1>13, <1>14, <1>15, <1>16, TableOutcome

-----------------------------------------------------------------------------
(* The first block that is missing is added: it was the next one.          *)
LEMMA Extended ==
  ASSUME NEW n, InodeOK(n), NEW k \in Table, n.direct[k] = -1, Reaches(n, k),
         Packed(n), Reaches(n, n.bytes \div BLOCK), NEW b,
         NEW m, m.direct[k] = b, \A j \in Table \ {k} : m.direct[j] = n.direct[j],
         m.size = n.size + 1, m.bytes = n.bytes
  PROVE  /\ Packed(m) /\ Reaches(m, m.bytes \div BLOCK) /\ Reaches(m, k)
         /\ Sized(n) /\ b # -1 => Sized(m)
         /\ \A j \in Table : n.direct[j] # -1 => m.direct[j] # -1
<1>1. n.direct \in [Table -> Nat \cup {-1}] /\ n.size \in Int
  BY InodeIs DEF Table
<1>2. m.direct[k] = b /\ \A j \in Table : j # k => m.direct[j] = n.direct[j]
  OBVIOUS
<1>3. k \in Nat /\ k < TABLE_SIZE /\ TABLE_SIZE \in Nat
  BY SizeIs DEF Table
<1>4. \A j \in Table : n.direct[j] # -1 => m.direct[j] # -1
  BY <1>2
<1>5. \A c : Reaches(n, c) => Reaches(m, c)
  BY <1>4 DEF Reaches
<1>6. Packed(m)
  <2>1. ASSUME NEW j \in Table, m.direct[j] # -1 PROVE Reaches(m, j)
    <3>1. CASE j = k
      BY <1>5, <3>1
    <3>2. CASE j # k
      <4>1. Reaches(n, j)
        BY <1>2, <2>1, <3>2 DEF Packed
      <4> QED
        BY <1>5, <4>1
    <3> QED
      BY <3>1, <3>2
  <2> QED
    BY <2>1 DEF Packed
<1>7. Reaches(m, m.bytes \div BLOCK) /\ Reaches(m, k)
  BY <1>5
<1>8. ASSUME Sized(n), b # -1 PROVE Sized(m)
  <2>2. PICK z : z = n.size
    OBVIOUS
  <2>3. z \in 0 .. TABLE_SIZE /\ \A j \in Table : n.direct[j] # -1 <=> j < z
    BY <1>8, <2>2 DEF Sized
  <2>4. z = k
    <3>1. z <= k
      BY <1>3, <2>3
    <3>2. ~(z < k)
      <4>1. SUFFICES ASSUME z < k PROVE FALSE
        OBVIOUS
      <4>2. z \in Table
        BY <1>3, <2>3, <4>1 DEF Table
      <4>3. n.direct[z] # -1
        BY <4>1, <4>2 DEF Reaches
      <4> QED
        BY <2>3, <4>2, <4>3
    <3> QED
      BY <1>3, <2>3, <3>1, <3>2
  <2>5. m.size = k + 1
    BY <2>2, <2>4
  <2>6. ASSUME NEW j \in Table PROVE m.direct[j] # -1 <=> j < k + 1
    <3>1. CASE j = k
      BY <1>2, <1>3, <1>8, <3>1
    <3>2. CASE j # k
      <4>1. m.direct[j] # -1 <=> j < k
        BY <1>2, <2>3, <2>4, <3>2
      <4>2. j < k <=> j < k + 1
        BY <1>3, <3>2 DEF Table
      <4> QED
        BY <4>1, <4>2
    <3> QED
      BY <3>1, <3>2
  <2>7. m.size \in 0 .. TABLE_SIZE
    BY <1>3, <2>5
  <2> QED
    BY <2>5, <2>6, <2>7 DEF Sized
<1> QED
  BY <1>4, <1>6, <1>7, <1>8

(* A write goes behind the last block and takes a new one.                 *)
LEMMA NewBlockOutcome ==
  ASSUME IInv, KInv, FilesInv, LengthsOK(inodes'), NEW t \in Users, Write(t),
         NeedsBlock(th[t].target, th[t].cur)
  PROVE  \E q : Outcome(t, q)
<1>1. PICK r, b : r = th[t] /\ b = allocate_block
  OBVIOUS
<1>2. PICK x, k : x = r.target /\ k = r.cur
  OBVIOUS
<1>3. PICK s : s = [r EXCEPT !.pc = "put"]
  OBVIOUS
<1>4. /\ boot = "ready" /\ r.pc = "write" /\ th' = [th EXCEPT ![t] = s] /\ UNCHANGED file
      /\ inodes' = [inodes EXCEPT ![x].direct[k] = b, ![x].size = @ + 1]
      /\ onDisk' = [onDisk EXCEPT !.free = freeBlocks']
      /\ inodes[x].direct[k] < 0 /\ fault' = "none" /\ ranOut' = (ranOut \/ b = -1)
  BY <1>1, <1>2, <1>3 DEF Write, At, Ready, Goto, Takes, NeedsBlock, handles
<1>5. Writing(r) /\ DOMAIN r = Fields
  BY <1>1, <1>4, Here DEF Writing
<1>6. x \in Inodes /\ ~inodes[x].free /\ Whole(inodes[x], ranOut)
  BY <1>1, <1>2, <1>4, <1>5, TargetIs, NotFreed
<1>7. Moves(r, inodes[x], ranOut) /\ Span(r) /\ Spans(r)
  BY <1>1, <1>2, <1>4 DEF FilesInv, Claim, KInv, LengthsInv, Spans
<1>8. k \in Table
  BY <1>2, <1>7, InTable DEF Table
<1>9. Reaches(inodes[x], k) /\ r.end - k * BLOCK - r.left \in 0 .. BLOCK - 1
  BY <1>2, <1>4, <1>5, <1>7 DEF Moves
<1>10. TableOK(inodes) /\ InodeOK(inodes[x])
  BY <1>6 DEF IInv, Shape, TableOK
<1>11. inodes[x].direct[k] = -1
  <2>1. inodes[x].direct \in [Table -> Nat \cup {-1}]
    BY <1>10, InodeIs DEF Table
  <2>2. inodes[x].direct[k] \in Nat \cup {-1}
    BY <1>8, <2>1
  <2> QED
    BY <1>4, <2>2
<1>12. PICK m : m = inodes'[x]
  OBVIOUS
<1>13. /\ m.direct = [inodes[x].direct EXCEPT ![k] = b] /\ m.size = inodes[x].size + 1
       /\ m.bytes = inodes[x].bytes /\ m.type = inodes[x].type
       /\ \A y \in Inodes \ {x} : inodes'[y] = inodes[y]
  BY <1>4, <1>6, <1>10, <1>12 DEF TableOK, InodeOK, InodeFields
<1>14. (ranOut => ranOut') /\ (b = -1 => ranOut')
  BY <1>4
<1>15. /\ Whole(m, ranOut') /\ Reaches(m, k) /\ (ranOut' \/ m.direct[k] # -1)
       /\ \A j \in Table : inodes[x].direct[j] # -1 => m.direct[j] # -1
  <2>1. PICK n : n = inodes[x]
    OBVIOUS
  <2>2. /\ InodeOK(n) /\ n.direct[k] = -1 /\ Reaches(n, k)
        /\ Packed(n) /\ Reaches(n, n.bytes \div BLOCK) /\ (ranOut \/ Sized(n))
    BY <1>6, <1>9, <1>10, <1>11, <2>1 DEF Whole
  <2>3. /\ m.direct[k] = b /\ \A j \in Table \ {k} : m.direct[j] = n.direct[j]
        /\ m.size = n.size + 1 /\ m.bytes = n.bytes
    <3>1. n.direct \in [Table -> Nat \cup {-1}]
      BY <2>2, InodeIs DEF Table
    <3> QED
      BY <1>8, <1>13, <2>1, <3>1
  <2>4. /\ Packed(m) /\ Reaches(m, m.bytes \div BLOCK) /\ Reaches(m, k)
        /\ Sized(n) /\ b # -1 => Sized(m)
        /\ \A j \in Table : n.direct[j] # -1 => m.direct[j] # -1
    BY <1>8, <2>2, <2>3, Extended
  <2>5. Whole(m, ranOut') /\ (ranOut' \/ m.direct[k] # -1)
    BY <1>14, <2>2, <2>3, <2>4 DEF Whole
  <2> QED
    BY <2>1, <2>4, <2>5
<1>16. \A y \in Inodes \ {x} : SameData(y) /\ ~Frozen(th[t], y)
  BY <1>1, <1>4, <1>13 DEF SameData, Frozen
<1>17. KeepsData(th[t])
  <2>1. inodes[x].bytes \in Nat
    BY <1>6, SizeIs DEF KInv, LengthsInv, LengthsOK
  <2>2. inodes[x].bytes <= inodes'[x].bytes
    BY <1>12, <1>13, <2>1
  <2>3. Extends(th[t], x)
    BY <1>1, <1>2, <1>4 DEF Extends
  <2> QED
    BY <1>6, <1>12, <1>13, <1>14, <1>15, <1>16, <2>2, <2>3, OneKeeps
<1>18. WholeDisk(onDisk'.inodes, ranOut')
  BY <1>4, <1>14, DiskStays
<1>19. /\ s.pc = "put" /\ s.target = x /\ s.cur = k /\ s.left = r.left /\ s.end = r.end
  BY <1>2, <1>3, <1>5 DEF Fields
<1>20. Moves(s, inodes'[s.target], ranOut')
  BY <1>9, <1>12, <1>15, <1>19 DEF Moves, Writing, Putting, Reading, Waits
<1>21. Whole(inodes'[x], ranOut') /\ s.pc # "free"
  BY <1>12, <1>15, <1>19
<1> QED
  BY <1>4, <1>6, <1>16, <1>17, <1>18, <1>20, <1>21, TableOutcome

(* A round of inode_write.                                                 *)
LEMMA WriteOutcome ==
  ASSUME IInv, KInv, FilesInv, LengthsOK(inodes'), NEW t \in Users, Write(t)
  PROVE  \E q : Outcome(t, q)
<1>1. CASE NeedsBlock(th[t].target, th[t].cur)
  BY <1>1, NewBlockOutcome
<1>2. CASE ~NeedsBlock(th[t].target, th[t].cur)
  <2>1. PICK r, x : r = th[t] /\ x = r.target
    OBVIOUS
  <2>2. /\ Ready /\ boot = "ready" /\ r.pc = "write" /\ Silent /\ Writing(r)
        /\ get_data_block(t, th[t], inodes[x].direct[r.cur], "put")
    BY <1>2, <2>1 DEF Write, At, Ready, memory, bitmap, handles, Silent, Writing
  <2>3. x \in Inodes /\ ~inodes[x].free /\ Whole(inodes[x], ranOut)
    BY <2>1, <2>2, TargetIs, NotFreed
  <2>4. r.cur \in Table
    BY <2>1, <2>2, InTable DEF KInv, LengthsInv, Spans, Table
  <2>5. inodes[x].direct[r.cur] # -1
    BY <1>2, <2>1 DEF NeedsBlock
  <2> QED
    BY <2>1, <2>2, <2>3, <2>4, <2>5, AskOutcome
<1> QED
  BY <1>1, <1>2

(* A block is written that was not read before.                            *)
LEMMA PutStepOutcome ==
  ASSUME IInv, KInv, FilesInv, NEW t \in Users, Put(t)
  PROVE  \E q : Outcome(t, q)
<1>1. Ready /\ Putting(th[t]) /\ PutBlock(t, th[t]) /\ Silent
  BY DEF Put, At, Putting, memory, bitmap, handles, Silent
<1> QED
  BY <1>1, PutOutcome

-----------------------------------------------------------------------------
(* One length was set, and perhaps the references of one inode.            *)
LEMMA LengthSet ==
  ASSUME IInv, NEW x \in Inodes, NEW z \in Inodes, NEW v, NEW a, a = BytesSet(inodes, x, v),
         NEW w, w \in Int, inodes' = a \/ inodes' = ReferencesAre(a, z, w)
  PROVE  /\ inodes'[x].bytes = v
         /\ \A y \in Inodes : /\ inodes'[y].free = inodes[y].free /\ inodes'[y].type = inodes[y].type
                              /\ inodes'[y].direct = inodes[y].direct
                              /\ inodes'[y].size = inodes[y].size
         /\ \A y \in Inodes \ {x} : SameData(y)
<1>1. TableOK(inodes)
  BY DEF IInv, Shape
<1>2. /\ TableOK(a) /\ a[x].bytes = v
      /\ \A y \in Inodes : Same(inodes, a, y)
      /\ \A y \in Inodes \ {x} : a[y].bytes = inodes[y].bytes
  BY <1>1, TableBytes
<1>3. PICK b : b = inodes'
  OBVIOUS
<1>4. \A y \in Inodes : Same(a, b, y) /\ b[y].bytes = a[y].bytes
  <2>1. CASE b = a
    BY <2>1 DEF Same
  <2>2. CASE b = ReferencesAre(a, z, w)
    BY <1>2, <2>2, TableReferences
  <2> QED
    BY <1>3, <2>1, <2>2
<1>5. \A y \in Inodes : /\ b[y].free = inodes[y].free /\ b[y].type = inodes[y].type
                        /\ b[y].direct = inodes[y].direct /\ b[y].size = inodes[y].size
  BY <1>2, <1>4 DEF Same
<1>6. b[x].bytes = v /\ \A y \in Inodes \ {x} : b[y].bytes = inodes[y].bytes
  BY <1>2, <1>4
<1> QED
  BY <1>3, <1>5, <1>6 DEF SameData

(* Its blocks reach as far as its new length.                              *)
LEMMA ResizedWhole ==
  ASSUME NEW n, NEW m, NEW out, Whole(n, out), m.direct = n.direct, m.size = n.size,
         Reaches(n, m.bytes \div BLOCK)
  PROVE  Whole(m, out)
BY DEF Whole, Packed, Sized, Reaches

(* The end of inode_write: the length is what was written.                 *)
LEMMA UpdateOutcome ==
  ASSUME IInv, KInv, FilesInv, LengthsOK(inodes'), NEW t \in Users, Update(t)
  PROVE  \E q : Outcome(t, q)
<1>1. PICK r : r = th[t]
  OBVIOUS
<1>2. PICK x, z : x = r.target /\ z = r.inode
  OBVIOUS
<1>3. PICK v : v = IF r.end > inodes[x].bytes THEN r.end ELSE inodes[x].bytes
  OBVIOUS
<1>4. PICK a : a = BytesSet(inodes, x, v)
  OBVIOUS
<1>5. /\ boot = "ready" /\ r.pc = "update" /\ disk_update_inode(x) /\ fault' = "none"
      /\ inodes' = a \/ inodes' = ReferencesAre(a, z, 2)
      /\ ranOut' = ranOut
  BY <1>1, <1>2, <1>3, <1>4 DEF Update, At, Ready, BytesSet, ReferencesAre, bitmap
<1>6. Legal(r) /\ Works(t, r) /\ z \in Inodes /\ DOMAIN r = Fields /\ Writing(r)
  BY <1>1, <1>2, <1>5, Here DEF Fits, Legal, Writing
<1>7. x \in Inodes /\ ~inodes[x].free /\ Whole(inodes[x], ranOut)
  BY <1>1, <1>2, <1>5, <1>6, TargetIs, NotFreed
<1>8. r.end \in Nat /\ inodes[x].bytes \in Nat
  BY <1>1, <1>5, <1>7, SizeIs DEF KInv, LengthsInv, LengthsOK, Span
<1>9. v \in Nat /\ inodes[x].bytes <= v /\ r.end <= v /\ v \in {r.end, inodes[x].bytes}
  <2>1. PICK e, f : e = r.end /\ f = inodes[x].bytes
    OBVIOUS
  <2>2. e \in Nat /\ f \in Nat /\ v = IF e > f THEN e ELSE f
    BY <1>3, <1>8, <2>1
  <2>3. v \in Nat /\ f <= v /\ e <= v /\ v \in {e, f}
    BY <2>2
  <2> QED
    BY <2>1, <2>3
<1>10. /\ inodes'[x].bytes = v
       /\ \A y \in Inodes : /\ inodes'[y].free = inodes[y].free /\ inodes'[y].type = inodes[y].type
                            /\ inodes'[y].direct = inodes[y].direct
                            /\ inodes'[y].size = inodes[y].size
       /\ \A y \in Inodes \ {x} : SameData(y)
  <2>1. PICK w : w = 2
    OBVIOUS
  <2>2. w \in Int /\ (inodes' = a \/ inodes' = ReferencesAre(a, z, w))
    BY <1>5, <2>1
  <2>3. x \in Inodes /\ z \in Inodes
    BY <1>6, <1>7
  <2> QED
    BY <1>4, <2>2, <2>3, LengthSet
<1>11. Whole(inodes'[x], ranOut')
  <2>1. Reaches(inodes[x], r.end \div BLOCK)
    BY <1>1, <1>2, <1>5 DEF FilesInv, Claim, Moves
  <2>2. Reaches(inodes[x], inodes[x].bytes \div BLOCK)
    BY <1>7 DEF Whole
  <2>3. Reaches(inodes[x], inodes'[x].bytes \div BLOCK)
    BY <1>9, <1>10, <2>1, <2>2
  <2>4. inodes'[x].direct = inodes[x].direct /\ inodes'[x].size = inodes[x].size
    BY <1>7, <1>10
  <2>5. Whole(inodes'[x], ranOut)
    BY <1>7, <2>3, <2>4, ResizedWhole
  <2> QED
    BY <1>5, <2>5
<1>12. \A y \in Inodes \ {x} : SameData(y) /\ ~Frozen(th[t], y)
  BY <1>1, <1>5, <1>10 DEF Frozen
<1>13. KeepsData(th[t])
  <2>1. /\ inodes'[x].type = inodes[x].type
        /\ \A k \in Table : inodes[x].direct[k] # -1 => inodes'[x].direct[k] # -1
        /\ inodes[x].bytes <= inodes'[x].bytes /\ inodes'[x].size = inodes[x].size
    BY <1>7, <1>9, <1>10
  <2> QED
    BY <1>5, <1>7, <1>12, <2>1, OneKeeps
<1>14. WholeDisk(onDisk'.inodes, ranOut')
  <2>1. onDisk' = [onDisk EXCEPT !.inodes[x] = inodes'[x]]
    BY <1>5 DEF disk_update_inode
  <2> QED
    BY <1>5, <1>7, <1>11, <2>1, DiskWhole
<1>15. \E s : th' = [th EXCEPT ![t] = s] /\ Light(s) /\ s.pc # "free"
  <2>1. CASE r.op \in {"unlink", "rmdir"}
    <3>1. PICK w : w = [r EXCEPT !.i = @ + 1]
      OBVIOUS
    <3>2. DOMAIN w = Fields /\ w.op = r.op
      BY <1>6, <3>1 DEF Fields
    <3>3. Goto(t, w, "shift") /\ w.op # "read"
      BY <1>1, <2>1, <3>1, <3>2 DEF Update
    <3> QED
      BY <3>2, <3>3, LightIs
  <2>2. CASE r.op \notin {"unlink", "rmdir"}
    <3>1. Return(t)
      BY <1>1, <2>2 DEF Update
    <3> QED
      BY <3>1, IdleLight DEF Return
  <2> QED
    BY <2>1, <2>2
<1>16. UNCHANGED file \/ ((\A u \in Users \ {t} : file'[u] = file[u]) /\ Cursor(file'[t], inodes'))
  <2>1. file = [u \in Users |-> file[u]] /\ FileOK(file[t])
    BY <1>5, Here
  <2>2. CASE r.op = "creat"
    <3>1. PICK n : n = [inode |-> r.inode, position |-> 0,
                        type |-> IF r.mode = "a" THEN "APPEND" ELSE "WRITE"]
      OBVIOUS
    <3>2. file' = [file EXCEPT ![t] = n] /\ n.position = 0 /\ n.inode = z
      BY <1>1, <1>2, <2>2, <3>1 DEF Update
    <3>3. inodes'[z].bytes \in Nat
      BY <1>6, SizeIs DEF LengthsOK
    <3>4. file'[t] = n /\ \A u \in Users \ {t} : file'[u] = file[u]
      BY <2>1, <3>2
    <3>5. 0 <= inodes'[z].bytes
      BY <3>3
    <3> QED
      BY <3>2, <3>4, <3>5 DEF Cursor
  <2>3. CASE r.op = "write"
    <3>1. file' = [file EXCEPT ![t].position = r.end]
      BY <1>1, <2>3 DEF Update
    <3>2. file'[t].position = r.end /\ file'[t].inode = file[t].inode
          /\ \A u \in Users \ {t} : file'[u] = file[u]
      BY <2>1, <3>1 DEF FileOK
    <3>3. file[t].inode = x
      BY <1>2, <1>6, <2>3 DEF Works
    <3> QED
      BY <1>9, <1>10, <3>2, <3>3 DEF Cursor
  <2>4. CASE r.op \notin {"creat", "write"}
    BY <1>1, <2>4 DEF Update
  <2> QED
    BY <2>2, <2>3, <2>4
<1>17. PICK s : th' = [th EXCEPT ![t] = s] /\ Light(s) /\ s.pc # "free"
  BY <1>15
<1>18. Moves(s, inodes'[s.target], ranOut')
  BY <1>17, CalmMoves
<1> QED
  BY <1>5, <1>7, <1>11, <1>12, <1>13, <1>14, <1>16, <1>17, <1>18, TableOutcome

-----------------------------------------------------------------------------
(* free_inode begins with what a whole inode has.                          *)
LEMMA BeginsToFree ==
  ASSUME NEW n, NEW m, NEW out, Whole(n, out), m.direct = n.direct, m.size = n.size, NEW s
  PROVE  Frees(s, m, out)
<1>1. TABLE_SIZE \in Nat
  BY SizeIs
<1>2. Sized(n) => m.size <= TABLE_SIZE /\ \A k \in Table : k < m.size => m.direct[k] # -1
  BY <1>1 DEF Sized
<1> QED
  BY <1>2 DEF Whole, Frees

(* The entries have moved up: the directory is one entry shorter.          *)
LEMMA ShiftOutcome ==
  ASSUME IInv, KInv, FilesInv, LengthsOK(inodes'), NEW t \in Users, Shift(t)
  PROVE  \E q : Outcome(t, q)
<1>1. PICK r : r = th[t]
  OBVIOUS
<1>2. Ready /\ boot = "ready" /\ fault = "none" /\ r.pc = "shift" /\ UNCHANGED <<onDisk, file, ranOut>>
  BY <1>1 DEF Shift, At, Ready, handles, bitmap
<1>3. Legal(r) /\ Works(t, r) /\ DOMAIN r = Fields /\ r.op \in {"unlink", "rmdir"}
  BY <1>1, <1>2, Here DEF Fits, Legal
<1>4. CASE r.i < Entries(r.on)
  <2>1. Silent /\ get_data_block(t, th[t], inodes[r.on].direct[0], "shift")
    BY <1>1, <1>2, <1>4 DEF Shift, Silent
  <2>2. r.on \in Directories(inodes)
    BY <1>2, <1>3, Here DEF Works, NameOps
  <2>3. r.i < Filled(inodes, r.on)
    BY <1>4 DEF Entries, Filled
  <2> QED
    BY <1>1, <1>2, <2>1, <2>2, <2>3, AskEntry
<1>5. CASE ~(r.i < Entries(r.on))
  <2>1. PICK x, z, f : x = r.on /\ z = r.inode /\ f = r.i - 1
    OBVIOUS
  <2>2. /\ Removing(r) /\ x \in Directories(inodes) /\ x \in Inodes /\ z \in Inodes
        /\ ~inodes[z].free /\ ~inodes[x].free
    BY <1>1, <1>2, <1>5, <2>1, LastEntry DEF Entries, Filled, Directories
  <2>3. PICK v : v = inodes[x].bytes - ENTRY
    OBVIOUS
  <2>4. PICK a : a = BytesSet(inodes, x, v)
    OBVIOUS
  <2>5. TableOK(inodes) /\ TableOK(a)
    BY <2>2, <2>4, TableBytes DEF IInv, Shape
  <2>6. PICK w : w = a[z].references - 1
    OBVIOUS
  <2>7. w \in Int
    BY <2>2, <2>5, <2>6 DEF TableOK, InodeOK
  <2>8. inodes' = a \/ inodes' = ReferencesAre(a, z, w)
    <3>1. a = [inodes EXCEPT ![x].bytes = @ - ENTRY]
      BY <2>2, <2>3, <2>4, <2>5 DEF BytesSet, TableOK
    <3>2. inodes' = a \/ inodes' = [a EXCEPT ![z].references = @ - 1]
      BY <1>1, <1>5, <2>1, <3>1 DEF Shift
    <3>3. [a EXCEPT ![z].references = @ - 1] = [a EXCEPT ![z].references = a[z].references - 1]
      BY <2>2, <2>5 DEF TableOK
    <3> QED
      BY <2>6, <3>2, <3>3 DEF ReferencesAre
  <2>9. /\ inodes'[x].bytes = v
        /\ \A y \in Inodes : /\ inodes'[y].free = inodes[y].free /\ inodes'[y].type = inodes[y].type
                             /\ inodes'[y].direct = inodes[y].direct
                             /\ inodes'[y].size = inodes[y].size
        /\ \A y \in Inodes \ {x} : SameData(y)
    BY <2>2, <2>4, <2>7, <2>8, LengthSet
  <2>10. Whole(inodes'[x], ranOut)
    <3>1. Whole(inodes[x], ranOut)
      BY <1>2, <2>2, NotFreed
    <3>2. PICK p, c, d : p = inodes[x].bytes /\ c = v \div BLOCK /\ d = p \div BLOCK
      OBVIOUS
    <3>3. p \in Int /\ v \in Int /\ v <= p
      <4>1. p \in Nat /\ ENTRY \in Nat
        BY <2>2, <3>2, SizeIs, Sizes DEF KInv, LengthsInv, LengthsOK
      <4> QED
        BY <2>3, <3>2, <4>1
    <3>4. c \in Int /\ d \in Int /\ c <= d
      <4>1. p <= p
        BY <3>3
      <4> QED
        BY <3>2, <3>3, <4>1, Quotient
    <3>5. Reaches(inodes[x], d)
      BY <3>1, <3>2 DEF Whole
    <3>6. Reaches(inodes[x], c)
      <4>1. \A k \in Table : k < c => k < d
        BY <3>4 DEF Table
      <4> QED
        BY <3>5, <4>1 DEF Reaches
    <3>7. inodes'[x].direct = inodes[x].direct /\ inodes'[x].size = inodes[x].size
      BY <2>2, <2>9
    <3>8. Reaches(inodes[x], inodes'[x].bytes \div BLOCK)
      BY <2>9, <3>2, <3>6
    <3> QED
      BY <3>1, <3>7, <3>8, ResizedWhole
  <2>11. \A y \in Inodes \ {x} : SameData(y) /\ ~Frozen(th[t], y)
    BY <1>1, <1>2, <2>9 DEF Frozen
  <2>12. KeepsData(th[t])
    <3>1. /\ inodes'[x].type = inodes[x].type /\ inodes'[x].size = inodes[x].size
          /\ \A k \in Table : inodes[x].direct[k] # -1 => inodes'[x].direct[k] # -1
      BY <2>2, <2>9
    <3>2. Shrinks(th[t], x)
      BY <1>1, <1>2, <2>1 DEF Shrinks
    <3> QED
      BY <1>2, <2>2, <2>11, <3>1, <3>2, OneKeeps
  <2>13. WholeDisk(onDisk'.inodes, ranOut')
    BY <1>2 DEF FilesInv
  <2>14. Whole(inodes[z], ranOut)
    <3>1. Owed(z)
      BY <1>1, <2>1, <2>2 DEF Owed, Unlisting
    <3> QED
      BY <1>2, <2>2, <3>1, NotFreed
  <2>15. \A s : Frees(s, inodes'[z], ranOut)
    <3>1. inodes'[z].direct = inodes[z].direct /\ inodes'[z].size = inodes[z].size
      BY <2>2, <2>9
    <3> QED
      BY <2>14, <3>1, BeginsToFree
  <2>16. \E s : th' = [th EXCEPT ![t] = s] /\ Light(s) /\ (s.pc = "free" => s.inode = z)
    <3>1. Return(t) \/ Goto(t, [r EXCEPT !.i = 0], "free") \/ AfterUnlink(t, r)
      BY <1>1, <1>5 DEF Shift
    <3>2. CASE Return(t)
      BY <3>2, IdleLight DEF Return
    <3>3. CASE AfterUnlink(t, r)
      BY <1>3, <3>3, AfterUnlinkLight
    <3>4. CASE Goto(t, [r EXCEPT !.i = 0], "free")
      <4>1. PICK s : s = [[r EXCEPT !.i = 0] EXCEPT !.pc = "free"]
        OBVIOUS
      <4>2. s.pc = "free" /\ s.op = r.op /\ s.inode = z
        BY <1>3, <2>1, <4>1 DEF Fields
      <4>3. Light(s)
        BY <1>3, <4>2 DEF Light
      <4> QED
        BY <3>4, <4>1, <4>2, <4>3 DEF Goto
    <3> QED
      BY <3>1, <3>2, <3>3, <3>4
  <2>17. PICK s : th' = [th EXCEPT ![t] = s] /\ Light(s) /\ (s.pc = "free" => s.inode = z)
    BY <2>16
  <2>18. Moves(s, inodes'[s.target], ranOut')
    BY <2>17, CalmMoves
  <2>19. s.pc = "free" => Frees(s, inodes'[s.inode], ranOut')
    BY <1>2, <2>15, <2>17
  <2>20. fault' = "none"
    BY <1>1, <1>2, <1>5 DEF Shift
  <2> QED
    BY <1>2, <2>2, <2>10, <2>11, <2>12, <2>13, <2>17, <2>18, <2>19, <2>20, TableOutcome
<1> QED
  BY <1>4, <1>5

(* A round of free_inode: the block is there, unless none was found when   *)
(* the inode was written.                                                  *)
LEMMA FreeOutcome ==
  ASSUME IInv, KInv, FilesInv, LengthsOK(inodes'), NEW t \in Users, Free(t)
  PROVE  \E q : Outcome(t, q)
<1>1. PICK r : r = th[t]
  OBVIOUS
<1>2. PICK x, k : x = r.inode /\ k = r.i
  OBVIOUS
<1>3. boot = "ready" /\ fault = "none" /\ r.pc = "free" /\ UNCHANGED file
  BY <1>1 DEF Free, At, Ready, handles
<1>4. Legal(r) /\ x \in Inodes /\ k \in Nat /\ DOMAIN r = Fields /\ r.op # "read"
  BY <1>1, <1>2, <1>3, Here DEF Fits, Legal
<1>5. TableOK(inodes) /\ InodeOK(inodes[x])
  BY <1>4 DEF IInv, Shape, TableOK
<1>6. PICK b : b = IF k < TABLE_SIZE THEN inodes[x].direct[k] ELSE -1
  OBVIOUS
<1>7. Frees(r, inodes[x], ranOut)
  BY <1>1, <1>2, <1>3 DEF FilesInv, Claim
<1>8. TABLE_SIZE \in Nat /\ inodes[x].direct \in [Table -> Nat \cup {-1}] /\ inodes[x].size \in Int
  BY <1>5, InodeIs, SizeIs DEF Table
<1>9. Frozen(th[t], x) /\ \A y \in Inodes \ {x} : ~Frozen(th[t], y)
  BY <1>1, <1>2, <1>3 DEF Frozen
<1>10. CASE k < inodes[x].size /\ b < 0
  <2>1. UNCHANGED th /\ Silent /\ fault' = "shift"
    BY <1>1, <1>2, <1>3, <1>6, <1>10 DEF Free, Fault, memory, bitmap, Silent
  <2>2. ranOut
    <3>1. SUFFICES ASSUME ~ranOut PROVE FALSE
      OBVIOUS
    <3>2. PICK z : z = inodes[x].size
      OBVIOUS
    <3>3. z <= TABLE_SIZE /\ z \in Int /\ k < z
      BY <1>7, <1>8, <1>10, <3>1, <3>2 DEF Frees
    <3>4. k \in Table
      BY <1>4, <1>8, <3>3 DEF Table
    <3>5. k <= k
      BY <1>4
    <3>6. inodes[x].direct[k] # -1
      BY <1>2, <1>7, <1>10, <3>1, <3>4, <3>5 DEF Frees
    <3>7. b = inodes[x].direct[k]
      BY <1>4, <1>6, <1>8, <3>4 DEF Table
    <3>8. b \in Nat
      BY <1>8, <3>4, <3>6, <3>7
    <3> QED
      BY <1>10, <3>8
  <2>3. FaultIsExplained'
    BY <2>1, <2>2 DEF FaultIsExplained, Silent
  <2> QED
    BY <1>3, <2>1, <2>3, EndOutcome
<1>11. CASE k < inodes[x].size /\ ~(b < 0)
  <2>1. PICK s : s = [[r EXCEPT !.i = @ + 1] EXCEPT !.pc = "free"]
    OBVIOUS
  <2>2. /\ inodes' = [inodes EXCEPT ![x].direct[k] = -1] /\ th' = [th EXCEPT ![t] = s]
        /\ onDisk' = [onDisk EXCEPT !.free = freeBlocks'] /\ ranOut' = ranOut /\ fault' = "none"
    BY <1>1, <1>2, <1>3, <1>6, <1>11, <2>1 DEF Free, Goto
  <2>3. s.pc = "free" /\ s.inode = x /\ s.i = k + 1 /\ s.op # "read" /\ s.target = r.target
    BY <1>2, <1>4, <2>1 DEF Fields
  <2>4. k \in Table
    BY <1>4, <1>6, <1>8, <1>11 DEF Table
  <2>5. PICK m : m = inodes'[x]
    OBVIOUS
  <2>6. /\ m.size = inodes[x].size /\ m.direct = [inodes[x].direct EXCEPT ![k] = -1]
        /\ \A y \in Inodes \ {x} : inodes'[y] = inodes[y]
    BY <1>4, <1>5, <2>2, <2>5 DEF TableOK, InodeOK, InodeFields
  <2>7. \A j \in Table : j # k => m.direct[j] = inodes[x].direct[j]
    BY <1>8, <2>4, <2>6
  <2>8. Frees(s, m, ranOut')
    <3>1. \A j \in Table : k + 1 <= j => k <= j /\ j # k
      BY <1>4 DEF Table
    <3>2. ~ranOut => m.size <= TABLE_SIZE
      BY <1>7, <2>6 DEF Frees
    <3>3. ASSUME ~ranOut, NEW j \in Table, k + 1 <= j, j < m.size PROVE m.direct[j] # -1
      <4>1. k <= j /\ j # k /\ j < inodes[x].size
        BY <2>6, <3>1, <3>3
      <4>2. inodes[x].direct[j] # -1
        BY <1>2, <1>7, <3>3, <4>1 DEF Frees
      <4> QED
        BY <2>7, <4>1, <4>2
    <3> QED
      BY <2>2, <2>3, <3>2, <3>3 DEF Frees
  <2>9. \A y \in Inodes \ {x} : SameData(y) /\ ~Frozen(th[t], y)
    BY <1>9, <2>6 DEF SameData
  <2>10. KeepsData(th[t])
    BY <1>4, <1>9, <2>2, <2>9, OneKeeps
  <2>11. ~InUse(x)
    <3>1. th'[t] = s
      BY <1>3, <2>2, Here
    <3>2. Freeing(x)'
      BY <2>3, <3>1 DEF Freeing
    <3> QED
      BY <3>2 DEF InUse
  <2>12. WholeDisk(onDisk'.inodes, ranOut')
    BY <2>2, DiskStays
  <2>13. Moves(s, inodes'[s.target], ranOut')
    <3>1. Light(s)
      BY <2>3 DEF Light
    <3> QED
      BY <3>1, CalmMoves
  <2>14. Frees(s, inodes'[s.inode], ranOut')
    BY <2>3, <2>5, <2>8
  <2> QED
    BY <1>3, <1>4, <2>2, <2>9, <2>10, <2>11, <2>12, <2>13, <2>14, TableOutcome
<1>12. CASE ~(k < inodes[x].size)
  <2>1. /\ inodes' = [inodes EXCEPT ![x].size = 0, ![x].bytes = 0, ![x].references = 0, ![x].free = TRUE]
        /\ disk_update_inode(x) /\ AfterUnlink(t, r) /\ ranOut' = ranOut /\ fault' = "none"
    BY <1>1, <1>2, <1>3, <1>12 DEF Free, bitmap
  <2>2. inodes'[x].free /\ \A y \in Inodes \ {x} : inodes'[y] = inodes[y]
    <3>1. PICK n : n = [inodes[x] EXCEPT !.size = 0, !.bytes = 0, !.references = 0, !.free = TRUE]
      OBVIOUS
    <3>2. inodes' = [inodes EXCEPT ![x] = n]
      BY <1>4, <1>5, <2>1, <3>1 DEF TableOK
    <3>3. n.free
      BY <1>5, <3>1 DEF InodeOK, InodeFields
    <3> QED
      BY <1>4, <1>5, <3>2, <3>3 DEF TableOK
  <2>3. \A y \in Inodes \ {x} : SameData(y) /\ ~Frozen(th[t], y)
    BY <1>9, <2>2 DEF SameData
  <2>4. KeepsData(th[t])
    BY <1>4, <1>9, <2>1, <2>3, OneKeeps
  <2>5. WholeDisk(onDisk'.inodes, ranOut')
    <3>1. onDisk' = [onDisk EXCEPT !.inodes[x] = inodes'[x]]
      BY <2>1 DEF disk_update_inode
    <3> QED
      BY <1>4, <2>1, <2>2, <3>1, DiskWhole
  <2>6. PICK s : th' = [th EXCEPT ![t] = s] /\ Light(s) /\ s.pc # "free"
    BY <1>4, <2>1, AfterUnlinkLight
  <2>7. Moves(s, inodes'[s.target], ranOut')
    BY <2>6, CalmMoves
  <2>8. ~InUse(x)
    BY <2>2 DEF InUse
  <2> QED
    BY <1>3, <1>4, <2>1, <2>3, <2>4, <2>5, <2>6, <2>7, <2>8, TableOutcome
<1> QED
  BY <1>10, <1>11, <1>12

-----------------------------------------------------------------------------
(* A call starts.                                                          *)
LEMMA CallOutcome ==
  ASSUME IInv, KInv, FilesInv, NEW t \in Users, NEW area, NEW r, DOMAIN r = Fields, r.op # "read",
         NEW pc, pc \in {"scan", "return"}, Call(t, area, r, pc), UNCHANGED <<memory, file>>
  PROVE  \E q : Outcome(t, q)
<1>1. boot = "ready" /\ fault' = "none" /\ th[t].pc = "idle" /\ Silent
  BY DEF Call, Ready, Silent, memory, bitmap
<1>2. PICK w : w = [r EXCEPT !.area = area]
  OBVIOUS
<1>3. DOMAIN w = Fields /\ w.op = r.op
  BY <1>2 DEF Fields
<1>4. Goto(t, w, pc)
  BY <1>2 DEF Call
<1>5. PICK s : th' = [th EXCEPT ![t] = s] /\ Light(s) /\ s.pc = pc
  BY <1>3, <1>4, LightIs
<1> QED
  BY <1>1, <1>5, LightOutcome

(* creat, open, unlink, mkdir and rmdir.                                   *)
LEMMA OnNameOutcome ==
  ASSUME IInv, KInv, FilesInv, NEW t \in Users, NEW op, NEW mode, OnName(t, op, mode), op # "read"
  PROVE  \E q : Outcome(t, q)
<1>1. PICK n \in Names :
        Call(t, {cwd[t]}, [Idle EXCEPT !.op = op, !.mode = mode, !.path = <<n>>, !.on = cwd[t]], "scan")
  BY DEF OnName
<1>2. PICK r : r = [Idle EXCEPT !.op = op, !.mode = mode, !.path = <<n>>, !.on = cwd[t]]
  OBVIOUS
<1>3. DOMAIN r = Fields /\ r.op = op
  BY <1>2 DEF Idle, Fields
<1>4. Call(t, {cwd[t]}, r, "scan") /\ UNCHANGED <<memory, file>>
  BY <1>1, <1>2 DEF OnName
<1> QED
  BY <1>3, <1>4, CallOutcome

(* cd, ls and stat.                                                        *)
LEMMA WalkOutcome ==
  ASSUME IInv, KInv, FilesInv, NEW t \in Users, NEW op, minifile_walk(t, op), op # "read"
  PROVE  \E q : Outcome(t, q)
<1>1. PICK at, path :
        Call(t, Inodes, [Idle EXCEPT !.op = op, !.on = at, !.found = TRUE, !.path = path], "scan")
  BY DEF minifile_walk
<1>2. PICK r : r = [Idle EXCEPT !.op = op, !.on = at, !.found = TRUE, !.path = path]
  OBVIOUS
<1>3. DOMAIN r = Fields /\ r.op = op
  BY <1>2 DEF Idle, Fields
<1>4. Call(t, Inodes, r, "scan") /\ UNCHANGED <<memory, file>>
  BY <1>1, <1>2 DEF minifile_walk
<1> QED
  BY <1>3, <1>4, CallOutcome

(* A call on the open file that has nothing to do returns at once.         *)
LEMMA SoonOutcome ==
  ASSUME IInv, KInv, FilesInv, NEW t \in Users, Call(t, Area(t), Idle, "return"),
         UNCHANGED <<memory, file>>
  PROVE  \E q : Outcome(t, q)
<1>1. DOMAIN Idle = Fields /\ Idle.op # "read"
  BY DEF Idle, Fields
<1> QED
  BY <1>1, CallOutcome

(* minifile_read and _write begin at the cursor, which is not behind the   *)
(* end of the file, unless the file is a directory.                        *)
LEMMA FileCallOutcome ==
  ASSUME IInv, KInv, FilesInv, NEW t \in Users, NEW op \in {"read", "write"}, file[t] # NoFile,
         NEW x, x = file[t].inode, NEW p, p = file[t].position, NEW len \in Nat \ {0},
         op = "write" => p <= inodes[x].bytes, op = "read" => p + len <= inodes[x].bytes,
         Call(t, Area(t), [Idle EXCEPT !.op = op, !.target = x, !.cur = p \div BLOCK,
                              !.offset = p % BLOCK, !.left = len, !.end = p + len], op),
         UNCHANGED <<memory, file>>
  PROVE  \E q : Outcome(t, q)
<1>1. boot = "ready" /\ fault' = "none" /\ th[t].pc = "idle" /\ Silent
  BY DEF Call, Ready, Silent, memory, bitmap
<1>2. PICK r : r = [Idle EXCEPT !.op = op, !.target = x, !.cur = p \div BLOCK, !.offset = p % BLOCK,
                                !.left = len, !.end = p + len]
  OBVIOUS
<1>3. PICK s : s = [[r EXCEPT !.area = Area(t)] EXCEPT !.pc = op]
  OBVIOUS
<1>4. th' = [th EXCEPT ![t] = s]
  BY <1>2, <1>3 DEF Call, Goto
<1>5. /\ s.pc = op /\ s.target = x /\ s.cur = p \div BLOCK /\ s.offset = p % BLOCK
      /\ s.left = len /\ s.end = p + len
  <2>1. /\ DOMAIN r = Fields /\ r.target = x /\ r.cur = p \div BLOCK
        /\ r.offset = p % BLOCK /\ r.left = len /\ r.end = p + len
    BY <1>2 DEF Idle, Fields
  <2> QED
    BY <1>3, <2>1 DEF Fields
<1>6. x \in Inodes /\ ~inodes[x].free /\ Handles(x) # {} /\ p \in Nat /\ inodes[x].bytes \in Nat
  <2>1. x \in Inodes /\ x # -1
    BY <1>1, AreaIs DEF Inodes
  <2>2. ~inodes[x].free
    BY <1>1, <2>1, Here DEF HandleOK
  <2> QED
    BY <2>1, <2>2, SizeIs DEF Handles, KInv, LengthsInv, LengthsOK
<1>7. CASE op = "read"
  <2>1. PICK c, o : c = p \div BLOCK /\ o = p % BLOCK
    OBVIOUS
  <2>2. c * BLOCK + o = p
    BY <1>6, <2>1, PositionIs
  <2>3. c * BLOCK + o + len = p + len /\ p + len <= inodes[x].bytes
    BY <1>7, <2>2
  <2>4. s.cur * BLOCK + s.offset + s.left = s.end /\ s.end <= inodes[x].bytes
    BY <1>5, <2>1, <2>3
  <2>5. Moves(s, inodes[s.target], ranOut)
    BY <1>5, <1>7, <2>4 DEF Moves, Writing, Putting, Reading, Waits
  <2> QED
    BY <1>1, <1>4, <1>5, <1>7, <2>5, MoveOutcome
<1>8. CASE op = "write"
  <2>1. Whole(inodes[x], ranOut)
    BY <1>1, <1>6, NotFreed
  <2>2. PICK b : b = Begun(r, x, p, len)
    OBVIOUS
  <2>3. DOMAIN r = Fields
    BY <1>2 DEF Idle, Fields
  <2>4. Moves(b, inodes[x], ranOut)
    BY <1>6, <1>8, <2>1, <2>2, <2>3, BegunMoves
  <2>5. /\ b.pc = s.pc /\ b.cur = s.cur /\ b.left = s.left /\ b.end = s.end /\ s.pc = "write"
    BY <1>5, <1>8, <2>2, <2>3 DEF Begun, Fields
  <2>6. Moves(s, inodes[s.target], ranOut)
    BY <1>5, <2>4, <2>5 DEF Moves, Writing, Putting, Reading, Waits
  <2>7. s.pc # "free" /\ th[t].pc # "free"
    BY <1>1, <2>5
  <2> QED
    BY <1>1, <1>4, <2>6, <2>7, MoveOutcome
<1> QED
  BY <1>7, <1>8

(* minifile_read: no more than there is in the file.                       *)
LEMMA ReadCallOutcome ==
  ASSUME IInv, KInv, FilesInv, NEW t \in Users, minifile_read(t)
  PROVE  \E q : Outcome(t, q)
<1> DEFINE f == file[t]
           there == inodes[f.inode].bytes - f.position
           amount(len) == IF len > there THEN there ELSE len
<1>1. PICK len \in Lengths :
        Call(t, Area(t),
             IF there <= 0 THEN Idle
             ELSE [Idle EXCEPT !.op = "read", !.target = f.inode,
                     !.cur = f.position \div BLOCK, !.offset = f.position % BLOCK,
                     !.left = amount(len), !.end = f.position + amount(len)],
             IF there <= 0 THEN "return" ELSE "read")
  BY DEF minifile_read
<1>2. file[t] # NoFile /\ UNCHANGED <<memory, file>> /\ boot = "ready"
  BY <1>1 DEF minifile_read, Call, Ready
<1>3. PICK m : m = amount(len)
  OBVIOUS
<1>4. CASE there <= 0
  BY <1>1, <1>2, <1>4, SoonOutcome
<1>5. CASE ~(there <= 0)
  <2>1. PICK x, p, y : x = f.inode /\ p = f.position /\ y = inodes[x].bytes
    OBVIOUS
  <2>2. x \in Inodes
    BY <1>2, <2>1, AreaIs
  <2>3. p \in 0 .. Size /\ y \in 0 .. Size
    BY <2>1, <2>2 DEF KInv, LengthsInv, LengthsOK
  <2>4. len \in Nat \ {0}
    BY MiniFileAssumption
  <2>5. m \in Nat \ {0} /\ p + m <= y
    <3>1. there = y - p /\ there > 0
      BY <1>5, <2>1, <2>3, SizeIs
    <3>2. m = IF len > y - p THEN y - p ELSE len
      BY <1>3, <3>1
    <3> QED
      BY <2>3, <2>4, <3>1, <3>2, SizeIs
  <2>6. Call(t, Area(t), [Idle EXCEPT !.op = "read", !.target = x, !.cur = p \div BLOCK,
                              !.offset = p % BLOCK, !.left = m, !.end = p + m], "read")
    BY <1>1, <1>3, <1>5, <2>1
  <2> QED
    BY <1>2, <2>1, <2>5, <2>6, FileCallOutcome
<1> QED
  BY <1>4, <1>5

(* minifile_write: from the cursor of a regular file.                      *)
LEMMA WriteCallOutcome ==
  ASSUME IInv, KInv, FilesInv, NEW t \in Users, minifile_write(t)
  PROVE  \E q : Outcome(t, q)
<1> DEFINE f == file[t]
<1>1. PICK len \in Lengths :
        Call(t, Area(t),
             IF f.type = "READ" THEN Idle
             ELSE [Idle EXCEPT !.op = "write", !.target = f.inode,
                     !.cur = f.position \div BLOCK, !.offset = f.position % BLOCK,
                     !.left = len, !.end = f.position + len],
             IF f.type = "READ" THEN "return" ELSE "write")
  BY DEF minifile_write
<1>2. /\ file[t] # NoFile /\ UNCHANGED <<memory, file>> /\ boot = "ready"
      /\ inodes[f.inode].type = "REGULARFILE"
  BY <1>1 DEF minifile_write, Call, Ready
<1>3. CASE f.type = "READ"
  BY <1>1, <1>2, <1>3, SoonOutcome
<1>4. CASE f.type # "READ"
  <2>1. PICK x, p : x = f.inode /\ p = f.position
    OBVIOUS
  <2>2. len \in Nat \ {0}
    BY MiniFileAssumption
  <2>3. p <= inodes[x].bytes
    <3>1. x # -1
      BY <1>2, <2>1, AreaIs DEF Inodes
    <3>2. Cursor(f, inodes)
      BY DEF FilesInv, Claim
    <3> QED
      BY <1>2, <2>1, <3>1, <3>2 DEF Cursor
  <2>4. Call(t, Area(t), [Idle EXCEPT !.op = "write", !.target = x, !.cur = p \div BLOCK,
                              !.offset = p % BLOCK, !.left = len, !.end = p + len], "write")
    BY <1>1, <1>4, <2>1
  <2> QED
    BY <1>2, <2>1, <2>2, <2>3, <2>4, FileCallOutcome
<1> QED
  BY <1>3, <1>4

(* close drops the handle, and frees an inode that was unlinked: a whole   *)
(* one, since it had a handle.                                             *)
LEMMA CloseOutcome ==
  ASSUME IInv, KInv, FilesInv, NEW t \in Users, minifile_close(t)
  PROVE  \E q : Outcome(t, q)
<1>1. PICK x : x = file[t].inode
  OBVIOUS
<1>2. PICK pc : pc = IF inodes'[x].references = 0 /\ ~inodes[x].free THEN "free" ELSE "return"
  OBVIOUS
<1>3. PICK r : r = [Idle EXCEPT !.op = "close", !.inode = x]
  OBVIOUS
<1>4. /\ Call(t, Area(t), r, pc) /\ file[t] # NoFile /\ file' = [file EXCEPT ![t] = NoFile]
      /\ inodes' = IF inodes[x].free THEN inodes ELSE [inodes EXCEPT ![x].references = @ - 1]
      /\ ranOut' = ranOut
  BY <1>1, <1>2, <1>3 DEF minifile_close, bitmap
<1>5. boot = "ready" /\ onDisk' = onDisk /\ fault' = "none" /\ th[t].pc = "idle"
  BY <1>4 DEF Call, Ready
<1>6. x \in Inodes /\ TableOK(inodes)
  BY <1>1, <1>4, <1>5, AreaIs DEF IInv, Shape
<1>7. ~inodes[x].free /\ Handles(x) # {}
  <2>1. x # -1
    BY <1>6 DEF Inodes
  <2> QED
    BY <1>1, <1>5, <2>1, Here DEF HandleOK, Handles
<1>8. \A y \in Inodes : SameData(y)
  BY <1>4, <1>6 DEF TableOK, InodeOK, InodeFields, SameData
<1>9. PICK w : w = [r EXCEPT !.area = Area(t)]
  OBVIOUS
<1>10. PICK s : s = [w EXCEPT !.pc = pc]
  OBVIOUS
<1>11. DOMAIN w = Fields /\ w.op = "close" /\ w.inode = x
  <2>1. DOMAIN r = Fields /\ r.op = "close" /\ r.inode = x
    BY <1>3 DEF Idle, Fields
  <2> QED
    BY <1>9, <2>1 DEF Fields
<1>12. s.pc = pc /\ s.op = "close" /\ s.inode = x /\ pc \in {"free", "return"}
  BY <1>2, <1>10, <1>11 DEF Fields
<1>13. th' = [th EXCEPT ![t] = s]
  BY <1>4, <1>9, <1>10 DEF Call, Goto
<1>14. \A n, out : Moves(s, n, out)
  <2>1. Light(s)
    BY <1>12 DEF Light
  <2> QED
    BY <2>1, CalmMoves
<1>15. Frees(s, inodes'[x], ranOut)
  <2>1. Whole(inodes[x], ranOut)
    BY <1>5, <1>6, <1>7, NotFreed
  <2>2. inodes'[x].direct = inodes[x].direct /\ inodes'[x].size = inodes[x].size
    BY <1>6, <1>8 DEF SameData
  <2> QED
    BY <2>1, <2>2, BeginsToFree
<1>16. Cursor(file'[t], inodes') /\ \A u \in Users \ {t} : file'[u] = file[u]
  <2>1. file = [u \in Users |-> file[u]]
    BY <1>5, Here
  <2>2. file'[t] = NoFile
    BY <1>4, <2>1
  <2> QED
    BY <1>4, <2>1, <2>2 DEF Cursor, NoFile
<1>17. Claim(s, file'[t], inodes', ranOut)
  BY <1>12, <1>14, <1>15, <1>16 DEF Claim
<1>18. FaultIsExplained'
  BY <1>5, NoFault
<1>19. th[t].pc # "free" /\ UNCHANGED <<onDisk, ranOut>>
  BY <1>4, <1>5
<1> QED
  BY <1>5, <1>8, <1>13, <1>16, <1>17, <1>18, <1>19, SameOutcome

-----------------------------------------------------------------------------
(* Every step of a thread has such an outcome.                             *)
LEMMA CallsOutcome ==
  ASSUME IInv, KInv, FilesInv, NEW t \in Users, Calls(t)
  PROVE  \E q : Outcome(t, q)
<1>1. CASE minifile_creat(t) \/ minifile_open(t) \/ minifile_unlink(t) \/ minifile_mkdir(t) \/ minifile_rmdir(t)
  <2>1. PICK op \in NameOps, mode \in {"none", "r", "r+", "w", "a"} : OnName(t, op, mode)
    BY <1>1 DEF minifile_creat, minifile_open, minifile_unlink, minifile_mkdir, minifile_rmdir, NameOps
  <2> QED
    BY <2>1, OnNameOutcome DEF NameOps
<1>2. CASE minifile_cd(t) \/ minifile_ls(t) \/ minifile_stat(t)
  <2>1. PICK op \in Walks : minifile_walk(t, op)
    BY <1>2 DEF minifile_cd, minifile_ls, minifile_stat, Walks
  <2> QED
    BY <2>1, WalkOutcome DEF Walks
<1> QED
  BY <1>1, <1>2, ReadCallOutcome, WriteCallOutcome, CloseOutcome DEF Calls

(* A thread that is in a call goes on.                                     *)
LEMMA ContinuesOutcome ==
  ASSUME IInv, KInv, FilesInv, LengthsOK(inodes'), NEW t \in Users, Continues(t)
  PROVE  \E q : Outcome(t, q)
<1>1. CASE Scan(t) \/ Wake(t) \/ Allocate(t) \/ Made(t) \/ Write(t) \/ Put(t)
  BY <1>1, ScanOutcome, WakeOutcome, AllocateOutcome, MadeOutcome, WriteOutcome, PutStepOutcome
<1>2. CASE Update(t) \/ Read(t) \/ Shift(t) \/ Free(t) \/ Returns(t)
  BY <1>2, UpdateOutcome, ReadOutcome, ShiftOutcome, FreeOutcome, ReturnsOutcome
<1> QED
  BY <1>1, <1>2 DEF Continues

(* So every step of a thread keeps what inodes claim.                      *)
LEMMA ThreadExplains ==
  ASSUME IInv, KInv, FilesInv, NEW t \in Users, Calls(t) \/ Continues(t)
  PROVE  FilesInv'
<1>1. boot = "ready" /\ boot' = boot
  <2>1. CASE Calls(t)
    BY <2>1 DEF Calls, minifile_creat, minifile_open, minifile_unlink, minifile_mkdir, minifile_rmdir,
         minifile_cd, minifile_ls, minifile_stat, minifile_walk, minifile_read, minifile_write,
         minifile_close, OnName, Call, Ready
  <2>2. CASE Continues(t)
    <3>1. boot = "ready"
      BY <2>2, ContinuesEffect
    <3>2. boot' = boot
      BY <2>2 DEF Continues, Scan, Wake, Allocate, Made, Write, Put, Update, Read, Shift, Free, Returns, rest
    <3> QED
      BY <3>1, <3>2
  <2> QED
    BY <2>1, <2>2
<1>2. LengthsOK(inodes')
  <2>1. KInv'
    BY ThreadKeeps
  <2> QED
    BY <2>1 DEF KInv, LengthsInv
<1>3. PICK q : Outcome(t, q)
  BY <1>2, CallsOutcome, ContinuesOutcome
<1> QED
  BY <1>1, <1>2, <1>3, OutcomeKeeps

-----------------------------------------------------------------------------
(* The steps of nobody's call.                                             *)
LEMMA AnswerExplains ==
  ASSUME IInv, KInv, FilesInv, handle_disk_response
  PROVE  FilesInv'
<1>1. PICK t : t = Head(reads)
  OBVIOUS
<1>2. /\ boot = "ready" /\ fault = "none" /\ reads # <<>> /\ th' = [th EXCEPT ![t].got = TRUE]
      /\ UNCHANGED <<inodes, onDisk, file, ranOut, fault, boot>>
  BY <1>1 DEF handle_disk_response, Ready, memory, bitmap, handles, rest
<1>3. t \in Users
  <2>1. reads \in Seq(Users) /\ Len(reads) >= 1 /\ t = reads[1]
    BY <1>1, <1>2 DEF KInv, WaitsInv, InLine
  <2> QED
    BY <2>1
<1>4. DOMAIN th[t] = Fields /\ th = [u \in Users |-> th[u]]
  BY <1>2, <1>3, Here
<1>5. PICK s : s = [th[t] EXCEPT !.got = TRUE]
  OBVIOUS
<1>6. th'[t] = s /\ \A u \in Users \ {t} : th'[u] = th[u]
  BY <1>2, <1>3, <1>4, <1>5
<1>7. /\ s.pc = th[t].pc /\ s.then = th[t].then /\ s.target = th[t].target /\ s.cur = th[t].cur
      /\ s.offset = th[t].offset /\ s.left = th[t].left /\ s.end = th[t].end
      /\ s.i = th[t].i /\ s.inode = th[t].inode
  BY <1>4, <1>5 DEF Fields
<1>8. \A u \in Users : Claim(th[u], file[u], inodes, ranOut)
  BY DEF FilesInv
<1>9. Claim(s, file[t], inodes, ranOut)
  <2>1. Claim(th[t], file[t], inodes, ranOut)
    BY <1>3, <1>8
  <2>2. Moves(s, inodes[s.target], ranOut)
    BY <1>7, <2>1 DEF Claim, Moves, Writing, Putting, Reading, Waits
  <2> QED
    BY <1>7, <2>1, <2>2 DEF Claim, Frees
<1>10. \A u \in Users : th'[u].pc = th[u].pc /\ th'[u].inode = th[u].inode
  BY <1>6, <1>7
<1>11. \A x : Freeing(x)' <=> Freeing(x)
  BY <1>10 DEF Freeing
<1>12. \A u \in Users : Claim(th'[u], file'[u], inodes', ranOut')
  BY <1>2, <1>3, <1>6, <1>8, <1>9
<1>13. WholeDisk(onDisk'.inodes, ranOut')
  BY <1>2 DEF FilesInv
<1>14. \A x \in Inodes : ~inodes'[x].free /\ ~Freeing(x)' => Whole(inodes'[x], ranOut')
  BY <1>2, <1>11 DEF FilesInv
<1>15. fault' = "none" /\ FaultIsExplained'
  BY <1>2, NoFault
<1> QED
  BY <1>12, <1>13, <1>14, <1>15 DEF FilesInv

(* Nobody who is in no call claims anything.                               *)
LEMMA NobodyClaims ==
  ASSUME NEW tb, NEW out
  PROVE  Claim(Idle, NoFile, tb, out)
<1>1. Idle.pc = "idle" /\ NoFile.inode = -1
  BY DEF Idle, NoFile
<1>2. Light(Idle)
  BY IdleLight
<1> QED
  BY <1>1, <1>2, CalmMoves DEF Claim, Cursor

(* A disk of whole inodes, and nobody in a call.                           *)
LEMMA RestExplains ==
  ASSUME WholeDisk(onDisk.inodes, ranOut), boot = "ready" => inodes = onDisk.inodes,
         \A t \in Users : th[t] = Idle /\ file[t] = NoFile, fault = "none"
  PROVE  FilesInv
<1>1. \A t \in Users : Claim(th[t], file[t], inodes, ranOut)
  BY NobodyClaims
<1>2. boot = "ready" => \A x \in Inodes : ~inodes[x].free /\ ~Freeing(x) => Whole(inodes[x], ranOut)
  BY DEF WholeDisk
<1> QED
  BY <1>1, <1>2 DEF FilesInv, FaultIsExplained

(* Memory is read from the disk.                                           *)
LEMMA BootExplains ==
  ASSUME IInv, FilesInv, setup_superblock \/ setup_inode \/ setup_bitmap
  PROVE  FilesInv'
<1>1. boot # "ready" /\ UNCHANGED <<onDisk, th, file, ranOut, fault>>
  BY DEF setup_superblock, setup_inode, setup_bitmap, Exits, running
<1>2. \A t \in Users : th'[t] = Idle /\ file'[t] = NoFile
  BY <1>1 DEF IInv, ImageInv, AtRest
<1>3. boot' = "ready" => inodes' = onDisk'.inodes
  <2>1. SUFFICES ASSUME boot' = "ready" PROVE boot = "bitmap" /\ UNCHANGED inodes
    BY <1>1 DEF IInv, ImageInv
  <2> QED
    BY <2>1 DEF setup_superblock, setup_inode, setup_bitmap, Exits
<1>4. fault' = "none" /\ FaultIsExplained'
  BY <1>1, NoFault DEF FilesInv
<1>5. WholeDisk(onDisk'.inodes, ranOut')
  BY <1>1 DEF FilesInv
<1>6. \A t \in Users : Claim(th'[t], file'[t], inodes', ranOut')
  BY <1>2, NobodyClaims
<1>7. boot' = "ready" =>
        \A x \in Inodes : ~inodes'[x].free /\ ~Freeing(x)' => Whole(inodes'[x], ranOut')
  BY <1>3, <1>5 DEF WholeDisk
<1> QED
  BY <1>4, <1>5, <1>6, <1>7 DEF FilesInv

(* The machine stops: what counts is on the disk.                          *)
LEMMA CrashExplains ==
  ASSUME FilesInv, Crash
  PROVE  FilesInv'
<1>1. /\ boot' = "superblock" /\ th' = [t \in Users |-> Idle] /\ file' = [t \in Users |-> NoFile]
      /\ UNCHANGED <<onDisk, ranOut, fault>> /\ fault = "none"
  BY DEF Crash
<1>2. \A t \in Users : Claim(th'[t], file'[t], inodes', ranOut')
  BY <1>1, NobodyClaims
<1>3. fault' = "none" /\ FaultIsExplained'
  BY <1>1, NoFault
<1>4. WholeDisk(onDisk'.inodes, ranOut')
  BY <1>1 DEF FilesInv
<1> QED
  BY <1>1, <1>2, <1>3, <1>4 DEF FilesInv

-----------------------------------------------------------------------------
(* The disks that boot first.                                              *)
LEMMA RootWhole ==
  ASSUME NEW n, n.direct = [k \in 0 .. TABLE_SIZE - 1 |-> k], n.size = TABLE_SIZE, NEW out
  PROVE  Whole(n, out)
<1>1. TABLE_SIZE \in Nat
  BY SizeIs
<1>2. \A k \in Table : n.direct[k] = k /\ k \in Nat /\ k < TABLE_SIZE
  BY <1>1 DEF Table
<1>3. \A k \in Table : n.direct[k] # -1
  BY <1>2
<1> QED
  BY <1>1, <1>2, <1>3 DEF Whole, Packed, Reaches, Sized

(* An inode of the disk that was used has one block.                       *)
LEMMA OneBlockWhole ==
  ASSUME NEW n, NEW b \in Nat, n.direct = [k \in 0 .. TABLE_SIZE - 1 |-> IF k = 0 THEN b ELSE -1],
         n.size = 1, n.bytes \in Nat, n.bytes < BLOCK + BLOCK, NEW out
  PROVE  Whole(n, out)
<1>1. TABLE_SIZE \in Nat /\ 1 <= TABLE_SIZE /\ BLOCK \in Nat
  BY MiniFileAssumption
<1>2. \A k \in Table : k \in Nat /\ n.direct[k] = IF k = 0 THEN b ELSE -1
  BY DEF Table
<1>3. \A k \in Table : n.direct[k] # -1 <=> k < 1
  BY <1>2
<1>4. PICK d : d = n.bytes \div BLOCK
  OBVIOUS
<1>5. d <= 1 /\ d \in Int
  <2>1. n.bytes < 1 * BLOCK + BLOCK
    BY <1>1
  <2> QED
    BY <1>4, <2>1, EndsBefore
<1>6. Reaches(n, d)
  <2>1. \A k \in Table : k < d => k < 1
    BY <1>2, <1>5
  <2> QED
    BY <1>3, <2>1 DEF Reaches
<1>7. Packed(n)
  <2>1. ASSUME NEW j \in Table, n.direct[j] # -1, NEW k \in Table, k < j PROVE n.direct[k] # -1
    <3>1. j < 1
      BY <1>3, <2>1
    <3> QED
      BY <1>2, <2>1, <3>1
  <2> QED
    BY <2>1 DEF Packed, Reaches
<1>8. Sized(n)
  BY <1>1, <1>3 DEF Sized
<1> QED
  BY <1>4, <1>6, <1>7, <1>8 DEF Whole

(* The disk mkfs leaves has only its root.                                 *)
LEMMA NewWhole ==
  ASSUME NEW complete, onDisk = Mkfs(complete), NEW out
  PROVE  WholeDisk(onDisk.inodes, out)
<1>1. PICK r, f : /\ r = Inode("DIRECTORY", FALSE, 1, TABLE_SIZE, 0, [k \in 0 .. TABLE_SIZE - 1 |-> k])
                  /\ f = Inode("REGULARFILE", TRUE, 0, 0, 0, [k \in 0 .. TABLE_SIZE - 1 |-> 0])
  OBVIOUS
<1>2. onDisk.inodes = [x \in Inodes |-> IF x = 0 THEN r ELSE f]
  BY <1>1 DEF Mkfs
<1>3. r.direct = [k \in 0 .. TABLE_SIZE - 1 |-> k] /\ r.size = TABLE_SIZE /\ f.free
  BY <1>1 DEF Inode
<1>4. Whole(r, out)
  BY <1>3, RootWhole
<1> QED
  BY <1>2, <1>3, <1>4 DEF WholeDisk

(* The disk that was used.                                                 *)
LEMMA UsedWhole ==
  ASSUME onDisk = Used.disk, NEW out
  PROVE  WholeDisk(onDisk.inodes, out)
<1>1. PICK m, tb : m = Mkfs(TRUE).inodes /\ tb = onDisk.inodes
  OBVIOUS
<1>2. PICK o1, o2, o3 :
        /\ o1 = Owned("DIRECTORY", 1, 0, ENTRY, TABLE_SIZE)
        /\ o2 = Owned("REGULARFILE", 2, 1, BLOCK + Least(Lengths), TABLE_SIZE + 1)
        /\ o3 = Owned("REGULARFILE", 1, 0, 0, TABLE_SIZE + 2)
  OBVIOUS
<1>3. PICK a : a = BytesSet(m, 0, 2 * ENTRY)
  OBVIOUS
<1>4. 0 \in Inodes /\ TABLE_SIZE \in Nat /\ ENTRY \in Nat /\ BLOCK \in Nat \ {0} /\ 2 * ENTRY <= BLOCK
  BY MiniFileAssumption DEF Inodes
<1>5. tb = [[[a EXCEPT ![1] = o1] EXCEPT ![2] = o2] EXCEPT ![3] = o3]
  BY <1>1, <1>2, <1>3, UsedDisk DEF BytesSet
<1>6. TableOK(m) /\ m[0].size = TABLE_SIZE /\ m[0].direct = [k \in 0 .. TABLE_SIZE - 1 |-> k]
  <2>1. TableOK(m) /\ m[0].direct = [k \in 0 .. TABLE_SIZE - 1 |-> k]
    BY <1>1, NewDisk
  <2>2. m[0].size = TABLE_SIZE
    BY <1>1, <1>4 DEF Mkfs, Inode
  <2> QED
    BY <2>1, <2>2
<1>7. /\ DOMAIN a = Inodes /\ a[0].size = TABLE_SIZE
      /\ a[0].direct = [k \in 0 .. TABLE_SIZE - 1 |-> k]
  BY <1>3, <1>4, <1>6, TableBytes DEF TableOK, Same
<1>8. \A x \in Inodes \ {0, 1, 2, 3} : tb[x].free
  BY <1>1, UsedTable
<1>9. \A x \in Inodes : tb[x] \in {a[x], o1, o2, o3} /\ (x \notin {1, 2, 3} => tb[x] = a[x])
                        /\ (x \in {1, 2, 3} => tb[x] \in {o1, o2, o3})
  BY <1>5, <1>7
<1>10. Whole(o1, out) /\ Whole(o3, out)
  <2>1. /\ o1.size = 1 /\ o1.bytes = ENTRY
        /\ o1.direct = [k \in 0 .. TABLE_SIZE - 1 |-> IF k = 0 THEN TABLE_SIZE ELSE -1]
    BY <1>2, OwnedParts
  <2>2. /\ o3.size = 1 /\ o3.bytes = 0
        /\ o3.direct = [k \in 0 .. TABLE_SIZE - 1 |-> IF k = 0 THEN TABLE_SIZE + 2 ELSE -1]
    BY <1>2, OwnedParts
  <2>3. TABLE_SIZE + 2 \in Nat /\ 0 < BLOCK + BLOCK /\ ENTRY < BLOCK + BLOCK
    BY <1>4
  <2> QED
    BY <1>4, <2>1, <2>2, <2>3, OneBlockWhole
<1>11. Whole(o2, out)
  <2>1. PICK j : j = Least(Lengths)
    OBVIOUS
  <2>2. PICK l \in Lengths : l < BLOCK
    BY MiniFileAssumption
  <2>3. j \in Nat /\ j < BLOCK
    <3>1. Lengths \in SUBSET Nat /\ Lengths # {}
      BY <2>2, MiniFileAssumption
    <3>2. j \in Lengths /\ j <= l
      BY <2>1, <2>2, <3>1, LeastIn
    <3> QED
      BY <1>4, <2>2, <3>1, <3>2
  <2>4. /\ o2.size = 1 /\ o2.bytes = BLOCK + j
        /\ o2.direct = [k \in 0 .. TABLE_SIZE - 1 |-> IF k = 0 THEN TABLE_SIZE + 1 ELSE -1]
    BY <1>2, <2>1, OwnedParts
  <2>5. TABLE_SIZE + 1 \in Nat /\ BLOCK + j \in Nat /\ BLOCK + j < BLOCK + BLOCK
    BY <1>4, <2>3
  <2> QED
    BY <2>4, <2>5, OneBlockWhole
<1>12. Whole(a[0], out)
  BY <1>7, RootWhole
<1>13. ASSUME NEW x \in Inodes, ~tb[x].free PROVE Whole(tb[x], out)
  BY <1>8, <1>9, <1>10, <1>11, <1>12, <1>13
<1> QED
  BY <1>1, <1>13 DEF WholeDisk

(* Both disks claim what they should.                                      *)
LEMMA InitExplains ==
  ASSUME FileInit
  PROVE  FilesInv
<1>1. WholeDisk(onDisk.inodes, ranOut)
  BY NewWhole, UsedWhole DEF FileInit
<1>2. boot # "ready" /\ fault = "none" /\ \A t \in Users : th[t] = Idle /\ file[t] = NoFile
  BY DEF FileInit
<1> QED
  BY <1>1, <1>2, RestExplains

(* Every step keeps it.                                                    *)
LEMMA FilesStep ==
  ASSUME IInv, KInv, FilesInv, [FileNext]_fileVars
  PROVE  FilesInv'
<1>1. CASE UNCHANGED fileVars
  <2>1. UNCHANGED <<inodes, onDisk, th, file, boot, ranOut, fault>>
    BY <1>1 DEF fileVars
  <2>2. FaultIsExplained'
    BY <2>1 DEF FilesInv, FaultIsExplained, Exhausted, ClaimsTooMuch
  <2> QED
    BY <2>1, <2>2 DEF FilesInv, Freeing
<1>2. CASE setup_superblock \/ setup_inode \/ setup_bitmap
  BY <1>2, BootExplains
<1>3. CASE Crash
  BY <1>3, CrashExplains
<1>4. CASE handle_disk_response
  BY <1>4, AnswerExplains
<1>5. CASE \E t \in Users : Calls(t) \/ Continues(t)
  BY <1>5, ThreadExplains
<1> QED
  BY <1>1, <1>2, <1>3, <1>4, <1>5 DEF FileNext

(* Every inode in use that nobody frees has its direct blocks filled from  *)
(* the front, up to the last one its length fills, and as many as its size *)
(* says, unless a block was looked for and none was found; every read,     *)
(* write and free_inode under way keeps to them.                           *)
THEOREM FilesAreWhole == FileSpec => [](IInv /\ KInv /\ FilesInv)
<1>1. FileInit => IInv /\ KInv /\ FilesInv
  BY InitStep, InitWaits, InitExplains
<1>2. IInv /\ KInv /\ FilesInv /\ [FileNext]_fileVars => IInv' /\ KInv' /\ FilesInv'
  BY NextStep, WaitsStep, FilesStep
<1> QED
  BY <1>1, <1>2, PTL DEF FileSpec

(* A call leaves the memory it owns only when inodes or blocks have run    *)
(* out, or when its file has a block that is not on the disk or claims     *)
(* more than its blocks hold.                                              *)
THEOREM FaultsAreExplained == FileSpec => []FaultIsExplained
<1>1. FilesInv => FaultIsExplained
  BY DEF FilesInv
<1> QED
  BY <1>1, FilesAreWhole, PTL
-----------------------------------------------------------------------------
(* The form of the tree: what an inode may hold; a file in use has at most *)
(* one block more in its size than it has blocks, or two while a write     *)
(* that found no block is about to fail; whoever goes up from an inode in  *)
(* use comes to the root, since a set that is closed under parents has the *)
(* root in it; and a call that makes an entry knows that its name is new.  *)
NodeType ==
  [type : {"REGULARFILE", "DIRECTORY"}, free : BOOLEAN, references : Nat,
   size : 0 .. TABLE_SIZE + 1, bytes : 0 .. TABLE_SIZE * BLOCK, parent : Inodes,
   direct : [0 .. TABLE_SIZE - 1 -> -1 .. Bits - 1]]
TypesInv ==
  /\ inodes \in [Inodes -> NodeType] /\ onDisk.inodes \in [Inodes -> NodeType]
  /\ freeBlocks \subseteq 0 .. Bits - 1 /\ onDisk.free \subseteq 0 .. Bits - 1
  /\ boot \in {"superblock", "inodes", "bitmap", "ready", "exited"}
  /\ outstanding \in 0 .. NumInodes

Counted(n) == \A k \in Table : n.direct[k] = -1 => n.size <= k + 1
Overdraws(r, n) == r.pc = "put" /\ n.direct[r.cur] = -1 /\ n.size <= r.cur + 2
Overdrawn(x) == \E t \in Users : th[t].target = x /\ Overdraws(th[t], inodes[x])
SizesInv ==
  /\ \A x \in Inodes : ~onDisk.inodes[x].free => Counted(onDisk.inodes[x])
  /\ boot = "ready" => \A x \in Inodes :
       ~inodes[x].free => Counted(inodes[x]) \/ Freeing(x) \/ Overdrawn(x)

Closed(tb, S) == \A x \in S : ~tb[x].free /\ tb[x].parent \in S
Grounded(tb) == \A S \in SUBSET Inodes : S # {} /\ Closed(tb, S) => 0 \in S
RootsInv == Grounded(IF boot = "ready" THEN inodes ELSE onDisk.inodes)

Name(d, s) == entries[d][s].name
Namesakes(tb, d, i, j) == Has(tb, d, i) /\ Has(tb, d, j) /\ Name(d, i) = Name(d, j)
Seeks(r) == r.op \in {"creat", "mkdir"} /\ (r.pc = "scan" \/ Waits(r, "entry"))
NewName(r) ==
  IF r.pc = "update" THEN Name(r.on, Filled(inodes, r.on))
  ELSE IF Creating(r) THEN r.entry.name ELSE Head(r.path)
IsNew(r) == \A s \in Slots : Has(inodes, r.on, s) /\ (Seeks(r) => s < r.i) => Name(r.on, s) # NewName(r)
Knows(r) ==
  /\ Seeks(r) \/ r.pc = "allocate" \/ Creating(r) => IsNew(r)
  /\ Removing(r) /\ Writing(r) /\ r.pc # "update" => r.entry.name = Name(r.on, r.i)
NamesUp ==
  \A d \in Directories(inodes) : \A i, j \in Slots :
    Namesakes(inodes, d, i, j) => i = j \/ InHole(d, i, j)
NamesOn(tb) == \A d \in Directories(tb) : \A i, j \in Slots : Namesakes(tb, d, i, j) => i = j
NamesInv ==
  IF boot = "ready" THEN NamesUp /\ \A t \in Users : Knows(th[t])
  ELSE NamesOn(onDisk.inodes)

NodesInv == TypesInv /\ SizesInv /\ RootsInv
FormInv == NodesInv /\ NamesInv

(* The recursive function of minifile_pwd has a value: were there a number *)
(* up to which it has none, the least one could be had from the one before. *)
GoesUp(g, c, n) == g = [i \in 0 .. n |-> IF i = 0 THEN c ELSE inodes[g[i - 1]].parent]
(* The way that goes up from c.                                            *)
LEMMA WayExists ==
  ASSUME NEW c
  PROVE  \E g : GoesUp(g, c, NumInodes)
<1>1. NumInodes \in Nat
  BY MiniFileAssumption
<1>2. PICK S : S = {n \in 0 .. NumInodes : ~\E g : GoesUp(g, c, n)}
  OBVIOUS
<1>3. SUFFICES ASSUME S # {} PROVE FALSE
  BY <1>1, <1>2
<1>4. PICK m \in S : \A n \in S : m <= n
  <2>1. S \in SUBSET Nat
    BY <1>2
  <2> QED
    BY <1>3, <2>1, LeastIn
<1>5. CASE m = 0
  <2>1. PICK g : g = [i \in 0 .. m |-> c]
    OBVIOUS
  <2>2. g = [i \in 0 .. m |-> IF i = 0 THEN c ELSE inodes[g[i - 1]].parent]
    BY <1>5, <2>1
  <2> QED
    BY <1>2, <1>4, <2>2 DEF GoesUp
<1>6. CASE m # 0
  <2>1. m \in Nat /\ m - 1 \in 0 .. NumInodes /\ m - 1 \notin S
    BY <1>1, <1>2, <1>4, <1>6
  <2>2. PICK l : l = m - 1
    OBVIOUS
  <2>3. PICK g : GoesUp(g, c, l)
    BY <1>2, <2>1, <2>2
  <2>4. \A i \in 0 .. l : g[i] = IF i = 0 THEN c ELSE inodes[g[i - 1]].parent
    BY <2>3 DEF GoesUp
  <2>5. PICK h : h = [i \in 0 .. m |-> IF i = 0 THEN c ELSE inodes[g[i - 1]].parent]
    OBVIOUS
  <2>6. ASSUME NEW i \in 0 .. l PROVE h[i] = g[i]
    <3>1. i \in 0 .. m
      BY <2>1, <2>2
    <3> QED
      BY <2>4, <2>5, <3>1
  <2>7. ASSUME NEW i \in 0 .. m, i # 0 PROVE g[i - 1] = h[i - 1]
    <3>1. i - 1 \in 0 .. l
      BY <2>1, <2>2, <2>7
    <3> QED
      BY <2>6, <3>1
  <2>8. h = [i \in 0 .. m |-> IF i = 0 THEN c ELSE inodes[h[i - 1]].parent]
    BY <2>5, <2>7
  <2> QED
    BY <1>2, <1>4, <2>8 DEF GoesUp
<1> QED
  BY <1>5, <1>6

(* So pwd goes up from the current directory, and names every turn that is *)
(* at the root.                                                            *)
LEMMA WayUp ==
  ASSUME NEW t \in Users
  PROVE  \E g : GoesUp(g, cwd[t], NumInodes) /\ minifile_pwd(t) = {i \in 0 .. NumInodes : g[i] = 0}
<1>1. PICK w : w = CHOOSE g : GoesUp(g, cwd[t], NumInodes)
  OBVIOUS
<1>2. GoesUp(w, cwd[t], NumInodes)
  BY <1>1, WayExists
<1>3. minifile_pwd(t) = {i \in 0 .. NumInodes : w[i] = 0}
  BY <1>1 DEF minifile_pwd, GoesUp
<1> QED
  BY <1>2, <1>3

(* Everything on the way is an inode in use.                               *)
LEMMA WayInUse ==
  ASSUME \A x \in Inodes : inodes[x].parent \in Inodes,
         \A x \in Inodes : ~inodes[x].free => ~inodes[inodes[x].parent].free,
         NEW g, NEW c \in Inodes, ~inodes[c].free, GoesUp(g, c, NumInodes),
         NEW i \in 0 .. NumInodes
  PROVE  g[i] \in Inodes /\ ~inodes[g[i]].free
<1>1. NumInodes \in Nat
  BY MiniFileAssumption
<1>2. \A k \in 0 .. NumInodes : g[k] = IF k = 0 THEN c ELSE inodes[g[k - 1]].parent
  BY DEF GoesUp
<1>3. PICK S : S = {n \in 0 .. NumInodes : ~(g[n] \in Inodes /\ ~inodes[g[n]].free)}
  OBVIOUS
<1>4. SUFFICES ASSUME S # {} PROVE FALSE
  BY <1>3
<1>5. PICK m \in S : \A n \in S : m <= n
  <2>1. S \in SUBSET Nat
    BY <1>3
  <2> QED
    BY <1>4, <2>1, LeastIn
<1>6. m # 0 /\ m \in 0 .. NumInodes
  BY <1>2, <1>3
<1>7. m - 1 \notin S /\ m - 1 \in 0 .. NumInodes
  BY <1>1, <1>5, <1>6
<1>8. g[m - 1] \in Inodes /\ ~inodes[g[m - 1]].free
  BY <1>3, <1>7
<1> QED
  BY <1>2, <1>3, <1>6, <1>8
-----------------------------------------------------------------------------
(* On a way of more steps than there are inodes, two steps meet; what lies *)
(* between them is closed under parents, so the root is on the way.        *)
LEMMA WayMeets ==
  ASSUME NEW g, \A i \in 0 .. NumInodes : g[i] \in Inodes
  PROVE  \E i, j \in 0 .. NumInodes : i < j /\ g[i] = g[j]
<1>1. NumInodes \in Nat
  BY MiniFileAssumption
<1>2. PICK S : S = 0 .. NumInodes
  OBVIOUS
<1>3. IsFiniteSet(S) /\ Cardinality(S) = NumInodes + 1
  BY <1>1, <1>2, FS_Interval
<1>4. IsFiniteSet(Inodes) /\ Cardinality(Inodes) = NumInodes
  <2>1. NumInodes - 1 \in Int /\ NumInodes - 1 - 0 + 1 = NumInodes
    BY <1>1
  <2> QED
    BY <1>1, <2>1, FS_Interval DEF Inodes
<1>5. PICK f : f = [i \in S |-> g[i]]
  OBVIOUS
<1>6. f \in [S -> Inodes]
  BY <1>2, <1>5
<1>7. Cardinality(Inodes) < Cardinality(S)
  BY <1>1, <1>3, <1>4
<1>8. PICK i, j \in S : i # j /\ f[i] = f[j]
  BY <1>3, <1>4, <1>6, <1>7, FS_PigeonHole
<1>9. i \in Int /\ j \in Int /\ g[i] = g[j]
  BY <1>1, <1>2, <1>5, <1>8
<1>10. CASE i < j
  BY <1>2, <1>8, <1>9, <1>10
<1>11. CASE j < i
  BY <1>2, <1>8, <1>9, <1>11
<1> QED
  BY <1>8, <1>9, <1>10, <1>11

(* Wherever a thread is, the root is above it.                             *)
LEMMA WayEnds ==
  ASSUME IInv, boot = "ready", Grounded(inodes), NEW t \in Users
  PROVE  minifile_pwd(t) # {}
<1>1. PICK g : GoesUp(g, cwd[t], NumInodes) /\ minifile_pwd(t) = {i \in 0 .. NumInodes : g[i] = 0}
  BY WayUp
<1>2. \A x \in Inodes : inodes[x].parent \in Inodes
  BY DEF IInv, Shape, TableOK, InodeOK
<1>3. \A x \in Inodes : ~inodes[x].free => ~inodes[inodes[x].parent].free
  BY DEF IInv, TreeInv, Rooted, Directories
<1>4. cwd[t] \in Inodes /\ ~inodes[cwd[t]].free
  BY Here DEF Directories
<1>5. \A i \in 0 .. NumInodes : g[i] \in Inodes /\ ~inodes[g[i]].free
  BY <1>1, <1>2, <1>3, <1>4, WayInUse
<1>6. PICK i, j \in 0 .. NumInodes : i < j /\ g[i] = g[j]
  BY <1>5, WayMeets
<1>7. NumInodes \in Nat
  BY MiniFileAssumption
<1>8. \A k \in 0 .. NumInodes : k # 0 => g[k] = inodes[g[k - 1]].parent
  BY <1>1 DEF GoesUp
<1>9. PICK S : S = {g[k] : k \in i .. j - 1}
  OBVIOUS
<1>10. S \in SUBSET Inodes /\ S # {}
  <2>1. i \in i .. j - 1 /\ \A k \in i .. j - 1 : k \in 0 .. NumInodes
    BY <1>6, <1>7
  <2> QED
    BY <1>5, <1>9, <2>1
<1>11. ASSUME NEW x \in S PROVE ~inodes[x].free /\ inodes[x].parent \in S
  <2>1. PICK k \in i .. j - 1 : x = g[k]
    BY <1>9
  <2>2. k \in 0 .. NumInodes /\ k + 1 \in 0 .. NumInodes /\ k + 1 # 0 /\ (k + 1) - 1 = k
    BY <1>6, <1>7, <2>1
  <2>3. ~inodes[x].free /\ inodes[x].parent = g[k + 1]
    BY <1>5, <1>8, <2>1, <2>2
  <2>4. CASE k + 1 \in i .. j - 1
    BY <1>9, <2>3, <2>4
  <2>5. CASE k + 1 = j
    <3>1. i \in i .. j - 1
      BY <1>6, <1>7
    <3> QED
      BY <1>6, <1>9, <2>3, <2>5, <3>1
  <2>6. k + 1 \in i .. j - 1 \/ k + 1 = j
    BY <1>6, <1>7, <2>1
  <2> QED
    BY <2>3, <2>4, <2>5, <2>6
<1>12. 0 \in S
  BY <1>10, <1>11 DEF Grounded, Closed
<1>13. PICK k \in i .. j - 1 : g[k] = 0
  BY <1>9, <1>12
<1>14. k \in 0 .. NumInodes
  BY <1>6, <1>7, <1>13
<1> QED
  BY <1>1, <1>13, <1>14

(* The form of the tree, as the runs check it.                             *)
LEMMA TypesFollow ==
  ASSUME IInv, KInv, TypesInv
  PROVE  FileTypeOK
<1>1. cwd \in [Users -> Inodes] /\ \A t \in Users : FileOK(file[t])
  BY DEF IInv, Shape
<1>2. ASSUME NEW t \in Users PROVE file[t].inode \in {-1} \cup Inodes
  <2>1. file[t].inode \in Inodes \/ file[t] = NoFile
    BY <1>1 DEF FileOK
  <2>2. NoFile.inode = -1
    BY DEF NoFile
  <2> QED
    BY <2>1, <2>2
<1>3. blockMutex \in [0 .. NumData - 1 -> Nat]
  <2>1. blockMutex \in [0 .. NumData - 1 -> {0, 1}] /\ {0, 1} \subseteq Nat
    BY DEF KInv, WaitsInv, Counts
  <2> QED
    BY <2>1
<1> QED
  BY <1>1, <1>2, <1>3 DEF TypesInv, NodeType, FileTypeOK

(* What the run checks follows from the invariants.                        *)
LEMMA TreeFollows ==
  ASSUME IInv, KInv, FormInv
  PROVE  TreeIsRooted
<1>1. FileTypeOK
  BY TypesFollow DEF FormInv, NodesInv
<1>2. SUFFICES ASSUME boot = "ready"
      PROVE  /\ \A d \in Directories(inodes) :
                  /\ \A e \in Listed(inodes, d) : e.inode \in Live /\ inodes[e.inode].parent = d
                  /\ Shifting(d) \/ \A i, j \in 0 .. Entries(d) - 1 :
                       i # j => entries[d][i].name # entries[d][j].name
             /\ \A t \in Users : minifile_pwd(t) # {}
  BY <1>1 DEF TreeIsRooted
<1>3. Rooted(inodes) /\ NamesUp /\ Grounded(inodes) /\ Shape
  BY <1>2 DEF IInv, TreeInv, FormInv, NodesInv, NamesInv, RootsInv
<1>4. ASSUME NEW d \in Directories(inodes), NEW e \in Listed(inodes, d)
      PROVE  e.inode \in Live /\ inodes[e.inode].parent = d
  <2>1. PICK s \in Slots : s < inodes[d].bytes \div ENTRY /\ e = entries[d][s]
    BY <1>4 DEF Listed
  <2>2. Has(inodes, d, s) /\ e.inode \in Inodes
    BY <1>3, <2>1 DEF Has, Filled, Shape, Directories
  <2> QED
    BY <1>3, <2>1, <2>2 DEF Rooted, Live
<1>5. ASSUME NEW d \in Directories(inodes), ~Shifting(d),
             NEW i \in 0 .. Entries(d) - 1, NEW j \in 0 .. Entries(d) - 1, i # j
      PROVE  entries[d][i].name # entries[d][j].name
  <2>1. Entries(d) \in 0 .. NumSlots /\ Entries(d) = Filled(inodes, d)
    BY <1>3, FilledIs DEF Entries, Filled
  <2>2. i \in Slots /\ j \in Slots /\ i < Filled(inodes, d) /\ j < Filled(inodes, d)
    BY <2>1, Sizes
  <2>3. ~InHole(d, i, j)
    <3>1. SUFFICES ASSUME NEW t \in Users, Removing(th[t]), th[t].on = d PROVE FALSE
      BY DEF InHole
    <3>2. th[t].pc \notin {"scan", "free"} /\ th[t].op \in {"unlink", "rmdir"}
      BY <3>1 DEF Removing, Waits, Writing
    <3> QED
      BY <1>5, <3>1, <3>2 DEF Shifting
  <2> QED
    BY <1>3, <1>5, <2>2, <2>3 DEF NamesUp, Namesakes, Has, Name
<1>6. \A t \in Users : minifile_pwd(t) # {}
  BY <1>2, <1>3, WayEnds
<1> QED
  BY <1>4, <1>5, <1>6
-----------------------------------------------------------------------------
(* A table that differs by inodes that became free, and by a new one that  *)
(* is no parent yet, is still grounded.                                    *)
LEMMA GroundedKept ==
  ASSUME NEW a, NEW b, Grounded(a), NEW z,
         \A x \in Inodes \ {z} : ~b[x].free => ~a[x].free /\ b[x].parent = a[x].parent,
         \A x \in Inodes : ~b[x].free => b[x].parent # z
  PROVE  Grounded(b)
<1>1. SUFFICES ASSUME NEW S \in SUBSET Inodes, S # {}, Closed(b, S) PROVE 0 \in S
  BY DEF Grounded
<1>2. \A x \in S : x \in Inodes /\ ~b[x].free /\ b[x].parent \in S /\ b[x].parent # z
  BY <1>1 DEF Closed
<1>3. PICK T : T = S \ {z}
  OBVIOUS
<1>4. T \in SUBSET Inodes /\ T # {}
  <2>1. PICK x \in S : TRUE
    BY <1>1
  <2>2. b[x].parent \in T
    BY <1>2, <1>3, <2>1
  <2> QED
    BY <1>3, <2>2
<1>5. ASSUME NEW x \in T PROVE ~a[x].free /\ a[x].parent \in T
  <2>1. x \in S /\ x # z
    BY <1>3
  <2> QED
    BY <1>2, <1>3, <2>1
<1>6. 0 \in T
  BY <1>4, <1>5 DEF Grounded, Closed
<1> QED
  BY <1>3, <1>6

(* What a step that takes and gives back no block leaves of an inode; a    *)
(* thread that frees an inode, or is about to fail, goes on doing so.      *)
Fixed(x) ==
  /\ inodes'[x].free = inodes[x].free /\ inodes'[x].parent = inodes[x].parent
  /\ inodes'[x].size = inodes[x].size /\ inodes'[x].direct = inodes[x].direct
Stays(t, s) ==
  /\ th[t].pc = "free" =>
       (s.pc = "free" /\ s.inode = th[t].inode) \/ inodes'[th[t].inode].free
  /\ Overdraws(th[t], inodes[th[t].target]) => s = th[t]
Accounted(x) == Counted(inodes[x]) \/ Freeing(x) \/ Overdrawn(x)

(* An inode that a step leaves alone has no more blocks missing.           *)
LEMMA SizeKept ==
  ASSUME IInv, NodesInv, boot = "ready", NEW t \in Users, NEW s, th' = [th EXCEPT ![t] = s],
         Stays(t, s), NEW x \in Inodes, Fixed(x), ~inodes'[x].free
  PROVE  Accounted(x)'
<1>1. th'[t] = s /\ \A u \in Users \ {t} : th'[u] = th[u]
  BY Here
<1>2. Counted(inodes[x]) \/ Freeing(x) \/ Overdrawn(x)
  BY DEF Fixed, NodesInv, SizesInv
<1>3. CASE Counted(inodes[x])
  BY <1>3 DEF Counted, Fixed, Accounted
<1>4. CASE Freeing(x)
  <2>1. PICK u \in Users : th[u].pc = "free" /\ th[u].inode = x
    BY <1>4 DEF Freeing
  <2>2. th'[u].pc = "free" /\ th'[u].inode = x
    BY <1>1, <2>1 DEF Stays
  <2> QED
    BY <2>2 DEF Freeing, Accounted
<1>5. CASE Overdrawn(x)
  <2>1. PICK u \in Users : th[u].target = x /\ Overdraws(th[u], inodes[x])
    BY <1>5 DEF Overdrawn
  <2>2. th'[u] = th[u]
    BY <1>1, <2>1 DEF Stays
  <2>3. th'[u].target = x /\ Overdraws(th'[u], inodes'[x])
    BY <2>1, <2>2 DEF Overdraws, Fixed
  <2> QED
    BY <2>3 DEF Overdrawn, Accounted
<1> QED
  BY <1>2, <1>3, <1>4, <1>5

(* A step that changes inodes: each stays as it was, or is free, or is     *)
(* accounted for after the step.                                           *)
LEMMA ChangedKeeps ==
  ASSUME IInv, NodesInv, boot = "ready", boot' = boot, outstanding' = outstanding,
         NEW t \in Users, NEW s, th' = [th EXCEPT ![t] = s], Stays(t, s),
         \A x \in Inodes : Fixed(x) \/ inodes'[x].free \/ Accounted(x)',
         Grounded(inodes'),
         inodes' \in [Inodes -> NodeType], onDisk'.inodes \in [Inodes -> NodeType],
         freeBlocks' \subseteq 0 .. Bits - 1, onDisk'.free \subseteq 0 .. Bits - 1,
         \A x \in Inodes : ~onDisk'.inodes[x].free => Counted(onDisk'.inodes[x])
  PROVE  NodesInv'
<1>1. TypesInv'
  BY DEF NodesInv, TypesInv
<1>2. ASSUME NEW x \in Inodes, ~inodes'[x].free PROVE Accounted(x)'
  BY <1>2, SizeKept
<1>3. SizesInv'
  BY <1>2 DEF SizesInv, Accounted
<1>4. RootsInv'
  BY DEF RootsInv
<1> QED
  BY <1>1, <1>3, <1>4 DEF NodesInv

(* A step that leaves type, size, blocks and parent of every inode.        *)
LEMMA FixedKeeps ==
  ASSUME IInv, NodesInv, boot = "ready", boot' = boot, outstanding' = outstanding,
         NEW t \in Users, NEW s, th' = [th EXCEPT ![t] = s], Stays(t, s),
         \A x \in Inodes : Fixed(x),
         inodes' \in [Inodes -> NodeType], onDisk'.inodes \in [Inodes -> NodeType],
         freeBlocks' \subseteq 0 .. Bits - 1, onDisk'.free \subseteq 0 .. Bits - 1,
         \A x \in Inodes : ~onDisk'.inodes[x].free => Counted(onDisk'.inodes[x])
  PROVE  NodesInv'
<1>1. Grounded(inodes')
  <2>1. \A x \in Inodes : inodes'[x].free = inodes[x].free /\ inodes'[x].parent = inodes[x].parent
    BY DEF Fixed
  <2>2. Grounded(inodes)
    BY DEF NodesInv, RootsInv
  <2> QED
    BY <2>1, <2>2 DEF Grounded, Closed
<1> QED
  BY <1>1, ChangedKeeps

(* A step that changes neither inodes nor blocks.                          *)
LEMMA StillKeeps ==
  ASSUME IInv, NodesInv, boot = "ready", UNCHANGED <<inodes, freeBlocks, onDisk, boot, outstanding>>,
         NEW t \in Users, NEW s, th' = [th EXCEPT ![t] = s], Stays(t, s)
  PROVE  NodesInv'
<1>1. \A x \in Inodes : Fixed(x)
  BY DEF Fixed
<1>2. /\ inodes \in [Inodes -> NodeType] /\ onDisk.inodes \in [Inodes -> NodeType]
      /\ freeBlocks \subseteq 0 .. Bits - 1 /\ onDisk.free \subseteq 0 .. Bits - 1
      /\ \A x \in Inodes : ~onDisk.inodes[x].free => Counted(onDisk.inodes[x])
  BY DEF NodesInv, TypesInv, SizesInv
<1> QED
  BY <1>1, <1>2, FixedKeeps
-----------------------------------------------------------------------------
(* The steps of a thread.                                                  *)
LEMMA StepIs ==
  ASSUME IInv, KInv, FilesInv, NEW t \in Users, Calls(t) \/ Continues(t)
  PROVE  /\ boot = "ready" /\ fault = "none" /\ boot' = boot /\ outstanding' = outstanding
         /\ \E q : Outcome(t, q)
         /\ IInv' /\ KInv' /\ FilesInv'
<1>1. boot = "ready" /\ fault = "none" /\ boot' = boot /\ outstanding' = outstanding
  <2>1. CASE Calls(t)
    BY <2>1 DEF Calls, minifile_creat, minifile_open, minifile_unlink, minifile_mkdir, minifile_rmdir,
         minifile_cd, minifile_ls, minifile_stat, minifile_walk, minifile_read, minifile_write,
         minifile_close, OnName, Call, Ready
  <2>2. CASE Continues(t)
    <3>1. boot = "ready" /\ fault = "none"
      BY <2>2 DEF Continues, Scan, Wake, Allocate, Made, Write, Put, Update, Read, Shift, Free, Returns,
           At, Ready
    <3>2. boot' = boot /\ outstanding' = outstanding
      BY <2>2 DEF Continues, Scan, Wake, Allocate, Made, Write, Put, Update, Read, Shift, Free, Returns, rest
    <3> QED
      BY <3>1, <3>2
  <2> QED
    BY <2>1, <2>2
<1>2. IInv' /\ KInv' /\ FilesInv'
  <2>1. FileNext
    BY DEF FileNext
  <2> QED
    BY <2>1, NextStep, WaitsStep, FilesStep
<1>3. LengthsOK(inodes')
  BY <1>2 DEF KInv, LengthsInv
<1>4. \E q : Outcome(t, q)
  BY <1>3, CallsOutcome, ContinuesOutcome
<1> QED
  BY <1>1, <1>2, <1>4

(* A step that changes no inode and no block.                              *)
LEMMA CalmNodes ==
  ASSUME IInv, KInv, FilesInv, NodesInv, NEW t \in Users, Calls(t) \/ Continues(t),
         th[t].pc \notin {"put", "free"}, UNCHANGED <<inodes, freeBlocks, onDisk>>
  PROVE  NodesInv'
<1>1. PICK q : Outcome(t, q)
  BY StepIs
<1>2. Stays(t, q)
  BY DEF Stays, Overdraws
<1>3. th' = [th EXCEPT ![t] = q]
  BY <1>1 DEF Outcome
<1> QED
  BY <1>2, <1>3, StepIs, StillKeeps

(* A block that is written is one the inode has, or the call fails.        *)
LEMMA PutNodes ==
  ASSUME IInv, KInv, FilesInv, NodesInv, NEW t \in Users, Put(t)
  PROVE  NodesInv'
<1>1. boot = "ready" /\ boot' = boot /\ outstanding' = outstanding
  <2>1. Continues(t)
    BY DEF Continues
  <2> QED
    BY <2>1, StepIs
<1>2. th[t].pc = "put" /\ PutBlock(t, th[t]) /\ UNCHANGED <<inodes, freeBlocks, onDisk>>
  BY DEF Put, At, memory, bitmap
<1>3. CASE inodes[th[t].target].direct[th[t].cur] < 0
  <2>1. UNCHANGED th
    BY <1>2, <1>3 DEF PutBlock, Fault
  <2>2. th' = [th EXCEPT ![t] = th[t]] /\ Stays(t, th[t])
    <3>1. th = [u \in Users |-> th[u]]
      BY <1>1, Here
    <3> QED
      BY <1>2, <2>1, <3>1 DEF Stays
  <2> QED
    BY <1>1, <1>2, <2>2, StillKeeps
<1>4. CASE ~(inodes[th[t].target].direct[th[t].cur] < 0)
  <2>1. PICK q : Outcome(t, q)
    <3>1. Continues(t)
      BY DEF Continues
    <3> QED
      BY <3>1, StepIs
  <2>2. inodes[th[t].target].direct[th[t].cur] # -1
    BY <1>4
  <2>3. th' = [th EXCEPT ![t] = q] /\ Stays(t, q)
    BY <1>2, <2>1, <2>2 DEF Outcome, Stays, Overdraws
  <2> QED
    BY <1>1, <1>2, <2>3, StillKeeps
<1> QED
  BY <1>3, <1>4

(* The types of the tables, one inode at a time.                           *)
LEMMA NodeFields ==
  ASSUME NEW n \in NodeType
  PROVE  /\ n.references \in Nat /\ n.size \in 0 .. TABLE_SIZE + 1
         /\ n.bytes \in 0 .. TABLE_SIZE * BLOCK
         /\ n.parent \in Inodes /\ n.direct \in [Table -> -1 .. Bits - 1]
BY DEF NodeType, Table

WithReferences(m, v) == [m EXCEPT !.references = v]
WithBytes(m, v) == [m EXCEPT !.bytes = v]
(* A reference more or less: it stays a node.                              *)
LEMMA NodeReferences ==
  ASSUME NEW m \in NodeType, NEW v \in Nat, NEW n, n = WithReferences(m, v)
  PROVE  /\ n \in NodeType /\ n.type = m.type /\ n.free = m.free /\ n.parent = m.parent
         /\ n.size = m.size /\ n.bytes = m.bytes /\ n.direct = m.direct /\ n.references = v
BY DEF NodeType, WithReferences

(* A new length within the direct blocks: it stays a node.                 *)
LEMMA NodeBytes ==
  ASSUME NEW m \in NodeType, NEW v \in 0 .. TABLE_SIZE * BLOCK, NEW n, n = WithBytes(m, v)
  PROVE  /\ n \in NodeType /\ n.type = m.type /\ n.free = m.free /\ n.parent = m.parent
         /\ n.size = m.size /\ n.references = m.references /\ n.direct = m.direct /\ n.bytes = v
BY DEF NodeType, WithBytes

(* The references of one inode change.                                     *)
LEMMA ReferNodes ==
  ASSUME IInv, KInv, FilesInv, NodesInv, NEW t \in Users, Calls(t) \/ Continues(t),
         NEW x \in Inodes, NEW v \in Nat, inodes' = [inodes EXCEPT ![x].references = v],
         UNCHANGED <<freeBlocks, onDisk>>, th[t].pc \notin {"put", "free"}
  PROVE  NodesInv'
<1>1. PICK q : Outcome(t, q)
  BY StepIs
<1>2. th' = [th EXCEPT ![t] = q] /\ Stays(t, q)
  BY <1>1 DEF Outcome, Stays, Overdraws
<1>3. /\ inodes \in [Inodes -> NodeType] /\ onDisk.inodes \in [Inodes -> NodeType]
      /\ freeBlocks \subseteq 0 .. Bits - 1 /\ onDisk.free \subseteq 0 .. Bits - 1
      /\ \A y \in Inodes : ~onDisk.inodes[y].free => Counted(onDisk.inodes[y])
  BY DEF NodesInv, TypesInv, SizesInv
<1>4. PICK m, n : m = inodes[x] /\ n = WithReferences(m, v)
  OBVIOUS
<1>5. inodes' = [inodes EXCEPT ![x] = n]
  BY <1>3, <1>4 DEF WithReferences
<1>6. m \in NodeType /\ n \in NodeType
  <2>1. m \in NodeType
    BY <1>3, <1>4
  <2> QED
    BY <1>4, <2>1, NodeReferences
<1>7. inodes' \in [Inodes -> NodeType] /\ inodes'[x] = n /\ \A y \in Inodes \ {x} : inodes'[y] = inodes[y]
  <2>1. inodes \in [Inodes -> NodeType] /\ n \in NodeType
    BY <1>3, <1>6
  <2> QED
    BY <1>5, <2>1
<1>8. n.free = m.free /\ n.parent = m.parent /\ n.size = m.size /\ n.direct = m.direct
  BY <1>4, <1>6, NodeReferences
<1>9. \A y \in Inodes : Fixed(y)
  BY <1>4, <1>7, <1>8 DEF Fixed
<1> QED
  BY <1>2, <1>3, <1>7, <1>9, StepIs, FixedKeeps
-----------------------------------------------------------------------------
(* Most steps of a thread change no inode, or the references of one.       *)
LEMMA ScanNodes ==
  ASSUME IInv, KInv, FilesInv, NodesInv, NEW t \in Users, Scan(t) \/ Read(t) \/ Returns(t)
  PROVE  NodesInv'
<1>1. Continues(t)
  BY DEF Continues
<1>2. th[t].pc \notin {"put", "free"} /\ UNCHANGED <<inodes, freeBlocks, onDisk>>
  BY DEF Scan, Read, Returns, At, memory, bitmap
<1> QED
  BY <1>1, <1>2, CalmNodes

(* A call starts.                                                          *)
LEMMA CallNodes ==
  ASSUME IInv, KInv, FilesInv, NodesInv, NEW t \in Users, Calls(t), ~minifile_close(t)
  PROVE  NodesInv'
<1>1. th[t].pc = "idle" /\ UNCHANGED <<inodes, freeBlocks, onDisk>>
  BY DEF Calls, minifile_creat, minifile_open, minifile_unlink, minifile_mkdir, minifile_rmdir,
         minifile_cd, minifile_ls, minifile_stat, minifile_walk, minifile_read, minifile_write,
         OnName, Call, memory, bitmap
<1> QED
  BY <1>1, CalmNodes

(* minifile_close: a reference less.                                       *)
LEMMA CloseNodes ==
  ASSUME IInv, KInv, FilesInv, NodesInv, NEW t \in Users, minifile_close(t)
  PROVE  NodesInv'
<1>1. PICK x : x = file[t].inode
  OBVIOUS
<1>2. /\ boot = "ready" /\ file[t] # NoFile /\ th[t].pc = "idle" /\ UNCHANGED <<freeBlocks, onDisk>>
      /\ inodes' = IF inodes[x].free THEN inodes ELSE [inodes EXCEPT ![x].references = @ - 1]
  BY <1>1 DEF minifile_close, Call, Ready, bitmap
<1>3. Calls(t)
  BY DEF Calls
<1>4. x \in Inodes /\ x # -1
  <2>1. x \in Inodes
    BY <1>1, <1>2, AreaIs
  <2> QED
    BY <2>1, MiniFileAssumption DEF Inodes
<1>5. ~inodes[x].free /\ RefsOK(x)
  <2>1. HandleOK(t) /\ TreeInv
    BY <1>2, Here DEF IInv
  <2> QED
    BY <1>1, <1>4, <2>1 DEF HandleOK, TreeInv
<1>6. Cardinality(Handles(x)) \in Nat /\ Cardinality(Handles(x)) >= 1
  <2>1. t \in Handles(x) /\ Handles(x) \in SUBSET Users /\ IsFiniteSet(Handles(x))
    <3>1. t \in Handles(x) /\ Handles(x) \in SUBSET Users
      BY <1>1 DEF Handles
    <3> QED
      BY <3>1, MiniFileAssumption, FS_Subset
  <2>2. Cardinality(Handles(x)) \in Nat /\ Cardinality(Handles(x)) # 0
    BY <2>1, FS_CardinalityType, FS_EmptySet
  <2> QED
    BY <2>2
<1>7. inodes[x].references \in Nat
  <2>1. inodes[x] \in NodeType
    BY <1>4 DEF NodesInv, TypesInv
  <2> QED
    BY <2>1, NodeFields
<1>8. Claims(x) \in {0, 1}
  BY DEF Claims
<1>9. inodes[x].references - 1 \in Nat
  BY <1>5, <1>6, <1>7, <1>8 DEF RefsOK
<1>10. PICK v \in Nat : v = inodes[x].references - 1
  BY <1>9
<1>11. inodes' = [inodes EXCEPT ![x].references = v]
  BY <1>2, <1>5, <1>10
<1> QED
  BY <1>2, <1>3, <1>4, <1>11, ReferNodes

(* A thread gets its block and goes on.                                    *)
LEMMA WakeNodes ==
  ASSUME IInv, KInv, FilesInv, NodesInv, NEW t \in Users, Wake(t)
  PROVE  NodesInv'
<1>1. boot = "ready" /\ th[t].pc = "wait" /\ UNCHANGED <<freeBlocks, onDisk>>
  BY DEF Wake, At, Ready, bitmap
<1>2. Continues(t)
  BY DEF Continues
<1>3. PICK r : r = th[t]
  OBVIOUS
<1>4. Fits(t, r) /\ Legal(r) /\ Works(t, r) /\ DOMAIN r = Fields
  BY <1>1, <1>3, Here DEF Fits, Legal
<1>5. CASE r.then # "entry"
  <2>1. UNCHANGED inodes
    BY <1>1, <1>3, <1>4, <1>5 DEF Wake, Legal
  <2> QED
    BY <1>1, <1>2, <2>1, CalmNodes
<1>6. CASE r.then = "entry"
  <2>1. Entry(t, r)
    BY <1>3, <1>6 DEF Wake
  <2>2. Waits(r, "entry") /\ r.op \in NameOps \cup Walks
    BY <1>1, <1>3, <1>4, <1>6 DEF Waits, Legal
  <2>3. PICK e : e = entries[r.on][r.i]
    OBVIOUS
  <2>4. CASE ~(r.op = "open" /\ r.mode # "w" /\ e.name = Head(r.path))
    <3>1. UNCHANGED inodes
      BY <1>4, <2>1, <2>2, <2>3, <2>4, EntryLight
    <3> QED
      BY <1>1, <1>2, <3>1, CalmNodes
  <2>5. CASE r.op = "open" /\ r.mode # "w" /\ e.name = Head(r.path)
    <3>1. PICK x : x = e.inode
      OBVIOUS
    <3>2. x \in Inodes
      <4>1. r.i \in Nat /\ r.i < Filled(inodes, r.on) /\ r.on \in Directories(inodes)
        BY <1>4, <2>2 DEF Legal, Works
      <4> QED
        BY <1>1, <2>3, <3>1, <4>1, EntryThere
    <3>3. Refers(x)
      <4>1. Opens(t, [r EXCEPT !.inode = e.inode])
        BY <2>1, <2>3, <2>5 DEF Entry, Walks
      <4>2. [r EXCEPT !.inode = e.inode].mode = r.mode /\ [r EXCEPT !.inode = e.inode].inode = x
        BY <1>4, <3>1 DEF Fields
      <4> QED
        BY <2>5, <4>1, <4>2 DEF Opens
    <3>4. PICK v : v = inodes[x].references + 1
      OBVIOUS
    <3>5. v \in Nat
      <4>1. inodes[x] \in NodeType
        BY <3>2 DEF NodesInv, TypesInv
      <4> QED
        BY <3>4, <4>1, NodeFields
    <3>6. inodes' = [inodes EXCEPT ![x].references = v]
      BY <3>3, <3>4 DEF Refers
    <3> QED
      BY <1>1, <1>2, <3>2, <3>5, <3>6, ReferNodes
  <2> QED
    BY <2>4, <2>5
<1> QED
  BY <1>5, <1>6
-----------------------------------------------------------------------------
(* An inode that only its thread knows, or that only its thread writes, is *)
(* no other's who frees it or is about to fail.                            *)
LEMMA WriterAlone ==
  ASSUME IInv, KInv, boot = "ready", NEW t \in Users, Writing(th[t]), NEW x, x = th[t].target
  PROVE  ~Freeing(x) /\ \A u \in Users \ {t} : th[u].target = x => ~Overdraws(th[u], inodes[x])
<1>1. x \in th[t].area /\ x \in Inodes /\ (x \in Directories(inodes) \/ Handles(x) # {})
  BY TargetIs
<1>2. ASSUME NEW u \in Users, th[u].pc = "free", th[u].inode = x PROVE FALSE
  BY <1>1, <1>2, FreedIs
<1>3. ASSUME NEW u \in Users \ {t}, th[u].target = x, Overdraws(th[u], inodes[x]) PROVE FALSE
  <2>1. x \in th[u].area
    BY <1>3, TargetIs DEF Overdraws, Writing
  <2>2. Apart(t, u)
    BY <1>3 DEF IInv, ThreadsInv
  <2> QED
    BY <1>1, <2>1, <2>2 DEF Apart
<1> QED
  BY <1>2, <1>3 DEF Freeing

(* The inode that allocate_inode filled in is nobody else's.               *)
LEMMA MakerAlone ==
  ASSUME IInv, KInv, boot = "ready", NEW t \in Users, th[t].pc = "made", NEW x, x = th[t].inode
  PROVE  x \in Inodes /\ ~inodes[x].free /\ ~Freeing(x) /\ ~Overdrawn(x)
<1>1. Fits(t, th[t]) /\ Legal(th[t])
  BY Here DEF Fits
<1>2. Creating(th[t]) /\ Private(th[t])
  BY <1>1 DEF Legal, Creating, Private
<1>3. /\ x \in Inodes /\ ~inodes[x].free /\ Unknown(x)
      /\ \A u \in Users \ {t} : /\ Private(th[u]) => th[u].inode # x
                                /\ th[u].op \in NameOps => th[u].on # x
  BY <1>2, PrivateIs
<1>4. ~Freeing(x)
  BY <1>3 DEF Freeing, Private
<1>5. ASSUME NEW u \in Users, th[u].target = x, Overdraws(th[u], inodes[x]) PROVE FALSE
  <2>1. u # t /\ Writing(th[u])
    BY <1>5 DEF Overdraws, Writing
  <2>2. Legal(th[u]) /\ Works(u, th[u])
    BY Here DEF Fits
  <2>3. th[u].op \in NameOps \/ th[u].op = "write"
    BY <2>1, <2>2 DEF Legal, NameOps
  <2>4. CASE th[u].op \in NameOps
    BY <1>3, <1>5, <2>1, <2>2, <2>4 DEF Works
  <2>5. CASE th[u].op = "write"
    <3>1. x = file[u].inode
      BY <1>5, <2>2, <2>5 DEF Works
    <3> QED
      BY <1>3, <3>1 DEF Unknown, Handles
  <2> QED
    BY <2>3, <2>4, <2>5
<1> QED
  BY <1>3, <1>4, <1>5 DEF Overdrawn

(* The tables that differ in a length and a count.                         *)
LEMMA BytesNodes ==
  ASSUME NEW a \in [Inodes -> NodeType], NEW x \in Inodes, NEW v \in 0 .. TABLE_SIZE * BLOCK,
         NEW b, b = BytesSet(a, x, v)
  PROVE  /\ b \in [Inodes -> NodeType]
         /\ \A y \in Inodes : Same(a, b, y) /\ b[y].references = a[y].references
<1>1. PICK m, n : m = a[x] /\ n = WithBytes(m, v)
  OBVIOUS
<1>2. b = [a EXCEPT ![x] = n]
  BY <1>1 DEF WithBytes, BytesSet
<1>3. m \in NodeType
  BY <1>1
<1>4. /\ n \in NodeType /\ n.type = m.type /\ n.free = m.free /\ n.parent = m.parent
      /\ n.size = m.size /\ n.references = m.references /\ n.direct = m.direct
  BY <1>1, <1>3, NodeBytes
<1>5. b \in [Inodes -> NodeType] /\ b[x] = n /\ \A y \in Inodes \ {x} : b[y] = a[y]
  BY <1>2, <1>4
<1> QED
  BY <1>1, <1>4, <1>5 DEF Same

(* The references of one inode of a table are set.                         *)
LEMMA ReferencesNodes ==
  ASSUME NEW a \in [Inodes -> NodeType], NEW x \in Inodes, NEW v \in Nat,
         NEW b, b = ReferencesAre(a, x, v)
  PROVE  b \in [Inodes -> NodeType] /\ \A y \in Inodes : Same(a, b, y)
<1>1. PICK m, n : m = a[x] /\ n = WithReferences(m, v)
  OBVIOUS
<1>2. b = [a EXCEPT ![x] = n]
  BY <1>1 DEF WithReferences, ReferencesAre
<1>3. m \in NodeType
  BY <1>1
<1>4. /\ n \in NodeType /\ n.type = m.type /\ n.free = m.free /\ n.parent = m.parent
      /\ n.size = m.size /\ n.direct = m.direct
  BY <1>1, <1>3, NodeReferences
<1>5. b \in [Inodes -> NodeType] /\ b[x] = n /\ \A y \in Inodes \ {x} : b[y] = a[y]
  BY <1>2, <1>4
<1> QED
  BY <1>1, <1>4, <1>5 DEF Same

(* The inode that is put on the disk.                                      *)
LEMMA DiskNodes ==
  ASSUME IInv, NodesInv, NEW x \in Inodes, NEW n \in NodeType,
         onDisk' = [onDisk EXCEPT !.inodes[x] = n], n.free \/ Counted(n)
  PROVE  /\ onDisk'.inodes \in [Inodes -> NodeType] /\ onDisk'.free \subseteq 0 .. Bits - 1
         /\ \A y \in Inodes : ~onDisk'.inodes[y].free => Counted(onDisk'.inodes[y])
<1>1. onDisk = [inodes |-> onDisk.inodes, free |-> onDisk.free, super |-> onDisk.super]
  BY DEF IInv, Shape
<1>2. onDisk'.inodes = [onDisk.inodes EXCEPT ![x] = n] /\ onDisk'.free = onDisk.free
  BY <1>1
<1>3. /\ onDisk.inodes \in [Inodes -> NodeType] /\ onDisk.free \subseteq 0 .. Bits - 1
      /\ \A y \in Inodes : ~onDisk.inodes[y].free => Counted(onDisk.inodes[y])
  BY DEF NodesInv, TypesInv, SizesInv
<1>4. onDisk'.inodes[x] = n /\ \A y \in Inodes \ {x} : onDisk'.inodes[y] = onDisk.inodes[y]
  BY <1>2, <1>3
<1>5. onDisk'.inodes \in [Inodes -> NodeType]
  BY <1>2, <1>3
<1>6. ASSUME NEW y \in Inodes, ~onDisk'.inodes[y].free PROVE Counted(onDisk'.inodes[y])
  <2>1. CASE y = x
    BY <1>4, <1>6, <2>1
  <2>2. CASE y # x
    BY <1>3, <1>4, <1>6, <2>2
  <2> QED
    BY <2>1, <2>2
<1> QED
  BY <1>2, <1>3, <1>5, <1>6

(* The new inode goes to the disk.                                         *)
LEMMA MadeNodes ==
  ASSUME IInv, KInv, FilesInv, NodesInv, NEW t \in Users, Made(t)
  PROVE  NodesInv'
<1>1. PICK x, n : x = th[t].inode /\ n = inodes[x]
  OBVIOUS
<1>2. /\ boot = "ready" /\ th[t].pc = "made" /\ UNCHANGED <<inodes, freeBlocks>>
      /\ onDisk' = [onDisk EXCEPT !.inodes[x] = n]
  BY <1>1 DEF Made, At, Ready, memory, bitmap
<1>3. boot' = boot /\ outstanding' = outstanding /\ \E q : Outcome(t, q)
  <2>1. Continues(t)
    BY DEF Continues
  <2> QED
    BY <2>1, StepIs
<1>4. PICK q : Outcome(t, q)
  BY <1>3
<1>5. th' = [th EXCEPT ![t] = q] /\ Stays(t, q)
  BY <1>2, <1>4 DEF Outcome, Stays, Overdraws
<1>6. x \in Inodes /\ ~inodes[x].free /\ ~Freeing(x) /\ ~Overdrawn(x)
  BY <1>1, <1>2, MakerAlone
<1>7. n \in NodeType /\ Counted(n)
  BY <1>1, <1>2, <1>6 DEF NodesInv, TypesInv, SizesInv
<1>8. /\ onDisk'.inodes \in [Inodes -> NodeType] /\ onDisk'.free \subseteq 0 .. Bits - 1
      /\ \A y \in Inodes : ~onDisk'.inodes[y].free => Counted(onDisk'.inodes[y])
  BY <1>2, <1>6, <1>7, DiskNodes
<1>9. \A y \in Inodes : Fixed(y)
  BY <1>2 DEF Fixed
<1>10. inodes' \in [Inodes -> NodeType] /\ freeBlocks' \subseteq 0 .. Bits - 1
  BY <1>2 DEF NodesInv, TypesInv
<1> QED
  BY <1>2, <1>3, <1>5, <1>8, <1>9, <1>10, FixedKeeps

(* The end of inode_write.                                                 *)
LEMMA UpdateNodes ==
  ASSUME IInv, KInv, FilesInv, NodesInv, NEW t \in Users, Update(t)
  PROVE  NodesInv'
<1>1. PICK r : r = th[t]
  OBVIOUS
<1>2. PICK x, z : x = r.target /\ z = r.inode
  OBVIOUS
<1>3. PICK v : v = IF r.end > inodes[x].bytes THEN r.end ELSE inodes[x].bytes
  OBVIOUS
<1>4. PICK a : a = BytesSet(inodes, x, v)
  OBVIOUS
<1>5. /\ boot = "ready" /\ r.pc = "update" /\ disk_update_inode(x)
      /\ inodes' = a \/ inodes' = ReferencesAre(a, z, 2)
      /\ UNCHANGED freeBlocks
  BY <1>1, <1>2, <1>3, <1>4 DEF Update, At, Ready, BytesSet, ReferencesAre, bitmap
<1>6. boot' = boot /\ outstanding' = outstanding /\ KInv' /\ \E q : Outcome(t, q)
  <2>1. Continues(t)
    BY DEF Continues
  <2> QED
    BY <2>1, StepIs
<1>7. PICK q : Outcome(t, q)
  BY <1>6
<1>8. th' = [th EXCEPT ![t] = q] /\ Stays(t, q)
  BY <1>1, <1>5, <1>7 DEF Outcome, Stays, Overdraws
<1>9. Writing(r) /\ Legal(r) /\ z \in Inodes /\ x \in Inodes /\ ~inodes[x].free
  <2>1. Legal(r) /\ Writing(r)
    BY <1>1, <1>5, Here DEF Fits, Writing
  <2> QED
    BY <1>1, <1>2, <1>5, <2>1, TargetIs DEF Legal
<1>10. PICK w : w = 2
  OBVIOUS
<1>11. w \in Int /\ w \in Nat /\ (inodes' = a \/ inodes' = ReferencesAre(a, z, w))
  BY <1>5, <1>10
<1>12. v \in 0 .. TABLE_SIZE * BLOCK
  <2>1. /\ inodes'[x].bytes = v
        /\ \A y \in Inodes : /\ inodes'[y].free = inodes[y].free /\ inodes'[y].type = inodes[y].type
                             /\ inodes'[y].direct = inodes[y].direct
                             /\ inodes'[y].size = inodes[y].size
        /\ \A y \in Inodes \ {x} : SameData(y)
    BY <1>4, <1>9, <1>11, LengthSet
  <2>2. LengthsOK(inodes')
    BY <1>5, <1>6 DEF KInv, LengthsInv
  <2> QED
    BY <1>9, <2>1, <2>2 DEF LengthsOK, Size
<1>13. inodes \in [Inodes -> NodeType] /\ freeBlocks \subseteq 0 .. Bits - 1
  BY DEF NodesInv, TypesInv
<1>14. a \in [Inodes -> NodeType] /\ \A y \in Inodes : Same(inodes, a, y)
  BY <1>4, <1>9, <1>12, <1>13, BytesNodes
<1>15. inodes' \in [Inodes -> NodeType] /\ \A y \in Inodes : Same(a, inodes', y)
  <2>1. CASE inodes' = a
    BY <1>14, <2>1 DEF Same
  <2>2. CASE inodes' = ReferencesAre(a, z, w)
    <3>1. PICK b : b = inodes'
      OBVIOUS
    <3>2. b \in [Inodes -> NodeType] /\ \A y \in Inodes : Same(a, b, y)
      BY <1>9, <1>11, <1>14, <2>2, <3>1, ReferencesNodes
    <3> QED
      BY <3>1, <3>2
  <2> QED
    BY <1>11, <2>1, <2>2
<1>16. \A y \in Inodes : Fixed(y)
  BY <1>14, <1>15 DEF Fixed, Same
<1>17. Counted(inodes'[x])
  <2>1. ~Freeing(x) /\ ~Overdrawn(x)
    <3>1. ~Overdraws(th[t], inodes[x])
      BY <1>1, <1>5 DEF Overdraws
    <3> QED
      BY <1>1, <1>2, <1>5, <1>9, <3>1, WriterAlone DEF Overdrawn
  <2>2. Counted(inodes[x])
    BY <1>5, <1>9, <2>1 DEF NodesInv, SizesInv
  <2> QED
    BY <1>9, <1>16, <2>2 DEF Counted, Fixed
<1>18. /\ onDisk'.inodes \in [Inodes -> NodeType] /\ onDisk'.free \subseteq 0 .. Bits - 1
       /\ \A y \in Inodes : ~onDisk'.inodes[y].free => Counted(onDisk'.inodes[y])
  <2>1. PICK n : n = inodes'[x]
    OBVIOUS
  <2>2. n \in NodeType /\ Counted(n) /\ onDisk' = [onDisk EXCEPT !.inodes[x] = n]
    BY <1>5, <1>9, <1>15, <1>17, <2>1 DEF disk_update_inode
  <2> QED
    BY <1>9, <2>2, DiskNodes
<1> QED
  BY <1>5, <1>6, <1>8, <1>13, <1>15, <1>16, <1>18, FixedKeeps

(* A round of the loop that moves the entries up.                          *)
LEMMA ShiftNodes ==
  ASSUME IInv, KInv, FilesInv, NodesInv, NEW t \in Users, Shift(t)
  PROVE  NodesInv'
<1>1. PICK r : r = th[t]
  OBVIOUS
<1>2. boot = "ready" /\ r.pc = "shift" /\ UNCHANGED <<freeBlocks, onDisk>> /\ Continues(t)
  BY <1>1 DEF Shift, At, Ready, bitmap, Continues
<1>3. CASE r.i < Entries(r.on)
  <2>1. UNCHANGED inodes
    BY <1>1, <1>3 DEF Shift
  <2> QED
    BY <1>1, <1>2, <2>1, CalmNodes
<1>4. CASE ~(r.i < Entries(r.on))
  <2>1. PICK x, z, f : x = r.on /\ z = r.inode /\ f = r.i - 1
    OBVIOUS
  <2>2. Removing(r) /\ x \in Inodes /\ z \in Inodes /\ ~inodes[z].free /\ ~inodes[x].free
    BY <1>1, <1>2, <1>4, <2>1, LastEntry DEF Entries, Filled, Directories
  <2>3. PICK v : v = inodes[x].bytes - ENTRY
    OBVIOUS
  <2>4. PICK a : a = BytesSet(inodes, x, v)
    OBVIOUS
  <2>5. TableOK(inodes) /\ TableOK(a) /\ a[z].references = inodes[z].references
    BY <2>2, <2>4, TableBytes DEF IInv, Shape
  <2>6. PICK w : w = a[z].references - 1
    OBVIOUS
  <2>7. w \in Int /\ w \in Nat
    <3>1. Owed(z) /\ RefsOK(z)
      BY <1>1, <1>2, <2>1, <2>2 DEF Owed, Unlisting, IInv, TreeInv
    <3>2. inodes[z].references >= Cardinality(Handles(z)) + 1
      BY <2>2, <3>1 DEF RefsOK, Claims
    <3>3. Cardinality(Handles(z)) \in Nat
      BY <1>1, HandleCount DEF Handles
    <3>4. inodes[z].references \in Nat
      <4>1. inodes[z] \in NodeType
        BY <2>2 DEF NodesInv, TypesInv
      <4> QED
        BY <4>1, NodeFields
    <3> QED
      BY <2>5, <2>6, <3>2, <3>3, <3>4
  <2>8. inodes' = a \/ inodes' = ReferencesAre(a, z, w)
    <3>1. a = [inodes EXCEPT ![x].bytes = @ - ENTRY]
      BY <2>2, <2>3, <2>4, <2>5 DEF BytesSet, TableOK
    <3>2. inodes' = a \/ inodes' = [a EXCEPT ![z].references = @ - 1]
      BY <1>1, <1>4, <2>1, <3>1 DEF Shift
    <3>3. [a EXCEPT ![z].references = @ - 1] = [a EXCEPT ![z].references = a[z].references - 1]
      BY <2>2, <2>5 DEF TableOK
    <3> QED
      BY <2>6, <3>2, <3>3 DEF ReferencesAre
  <2>9. v \in 0 .. TABLE_SIZE * BLOCK
    <3>1. /\ inodes'[x].bytes = v
          /\ \A y \in Inodes : /\ inodes'[y].free = inodes[y].free /\ inodes'[y].type = inodes[y].type
                               /\ inodes'[y].direct = inodes[y].direct
                               /\ inodes'[y].size = inodes[y].size
          /\ \A y \in Inodes \ {x} : SameData(y)
      BY <2>2, <2>4, <2>7, <2>8, LengthSet
    <3>2. LengthsOK(inodes')
      BY <1>2, StepIs DEF KInv, LengthsInv
    <3> QED
      BY <2>2, <3>1, <3>2 DEF LengthsOK, Size
  <2>10. inodes \in [Inodes -> NodeType] /\ onDisk.inodes \in [Inodes -> NodeType]
         /\ freeBlocks \subseteq 0 .. Bits - 1 /\ onDisk.free \subseteq 0 .. Bits - 1
         /\ \A y \in Inodes : ~onDisk.inodes[y].free => Counted(onDisk.inodes[y])
    BY DEF NodesInv, TypesInv, SizesInv
  <2>11. a \in [Inodes -> NodeType] /\ \A y \in Inodes : Same(inodes, a, y)
    BY <2>2, <2>4, <2>9, <2>10, BytesNodes
  <2>12. inodes' \in [Inodes -> NodeType] /\ \A y \in Inodes : Same(a, inodes', y)
    <3>1. CASE inodes' = a
      BY <2>11, <3>1 DEF Same
    <3>2. CASE inodes' = ReferencesAre(a, z, w)
      <4>1. PICK b : b = inodes'
        OBVIOUS
      <4>2. b \in [Inodes -> NodeType] /\ \A y \in Inodes : Same(a, b, y)
        BY <2>2, <2>7, <2>11, <3>2, <4>1, ReferencesNodes
      <4> QED
        BY <4>1, <4>2
    <3> QED
      BY <2>8, <3>1, <3>2
  <2>13. \A y \in Inodes : Fixed(y)
    BY <2>11, <2>12 DEF Fixed, Same
  <2>14. boot' = boot /\ outstanding' = outstanding /\ \E q : Outcome(t, q)
    BY <1>2, StepIs
  <2>15. PICK q : Outcome(t, q)
    BY <2>14
  <2>16. th' = [th EXCEPT ![t] = q] /\ Stays(t, q)
    BY <1>1, <1>2, <2>15 DEF Outcome, Stays, Overdraws
  <2> QED
    BY <1>2, <2>10, <2>12, <2>13, <2>14, <2>16, FixedKeeps
<1> QED
  BY <1>3, <1>4
-----------------------------------------------------------------------------
(* A step after which the same inodes are in use, with the same parents.   *)
LEMMA StillGrounded ==
  ASSUME NEW a, NEW b, Grounded(a),
         \A x \in Inodes : b[x].free = a[x].free /\ b[x].parent = a[x].parent
  PROVE  Grounded(b)
BY DEF Grounded, Closed

(* What a block is that was just taken, and what is left.                  *)
LEMMA BlockNodes ==
  ASSUME IInv, NodesInv, onDisk' = [onDisk EXCEPT !.free = freeBlocks'],
         freeBlocks' \subseteq 0 .. Bits - 1
  PROVE  /\ onDisk'.inodes \in [Inodes -> NodeType] /\ onDisk'.free \subseteq 0 .. Bits - 1
         /\ \A y \in Inodes : ~onDisk'.inodes[y].free => Counted(onDisk'.inodes[y])
<1>1. onDisk = [inodes |-> onDisk.inodes, free |-> onDisk.free, super |-> onDisk.super]
  BY DEF IInv, Shape
<1>2. onDisk'.inodes = onDisk.inodes /\ onDisk'.free = freeBlocks'
  BY <1>1
<1>3. onDisk.inodes \in [Inodes -> NodeType]
      /\ \A y \in Inodes : ~onDisk.inodes[y].free => Counted(onDisk.inodes[y])
  BY DEF NodesInv, TypesInv, SizesInv
<1> QED
  BY <1>2, <1>3

(* What allocate_block returns is a block, or -1.                          *)
LEMMA TakenIs ==
  ASSUME NodesInv, NEW b, b = allocate_block
  PROVE  b \in -1 .. Bits - 1 /\ freeBlocks \ {b} \subseteq 0 .. Bits - 1 /\ Bits \in Nat
<1>1. freeBlocks \subseteq 0 .. Bits - 1 /\ Bits \in Nat
  BY MiniFileAssumption DEF NodesInv, TypesInv
<1>2. b \in freeBlocks \/ b = -1
  <2>1. freeBlocks \subseteq Nat
    BY <1>1
  <2> QED
    BY <2>1, Found
<1>3. b \in -1 .. Bits - 1
  <2>1. \A a \in freeBlocks : a \in -1 .. Bits - 1
    BY <1>1
  <2>2. -1 \in -1 .. Bits - 1
    BY <1>1
  <2> QED
    BY <1>2, <2>1, <2>2
<1>4. freeBlocks \ {b} \subseteq 0 .. Bits - 1
  BY <1>1
<1> QED
  BY <1>1, <1>3, <1>4

(* A new inode has the size 1.                                             *)
LEMMA FreshNode ==
  ASSUME NEW type \in {"REGULARFILE", "DIRECTORY"}, NEW d \in Inodes, NEW b \in -1 .. Bits - 1,
         NEW n, n = Fresh(type, d, b)
  PROVE  n \in NodeType /\ Counted(n) /\ ~n.free /\ n.parent = d /\ n.bytes = 0
<1>1. TABLE_SIZE \in Nat \ {0} /\ BLOCK \in Nat \ {0} /\ TABLE_SIZE * BLOCK \in Nat
  BY SizeIs DEF Size
<1>2. PICK e : e = [NoBlocks EXCEPT ![0] = b]
  OBVIOUS
<1>3. e \in [Table -> -1 .. Bits - 1]
  BY <1>2, MiniFileAssumption DEF NoBlocks, Table
<1>4. n = [type |-> type, free |-> FALSE, references |-> 1, size |-> 1, bytes |-> 0,
           parent |-> d, direct |-> e]
  BY <1>2 DEF Fresh, Inode
<1>5. 1 \in 0 .. TABLE_SIZE + 1 /\ 0 \in 0 .. TABLE_SIZE * BLOCK /\ 1 \in Nat
  BY <1>1
<1>6. n \in NodeType
  BY <1>3, <1>4, <1>5 DEF NodeType, Table
<1>7. Counted(n)
  <2>1. n.size = 1 /\ \A k \in Table : 1 <= k + 1
    BY <1>4 DEF Table
  <2> QED
    BY <2>1 DEF Counted
<1>8. ~n.free /\ n.parent = d /\ n.bytes = 0
  BY <1>4
<1> QED
  BY <1>6, <1>7, <1>8

(* allocate_inode: the new inode has one block, or a size too many.        *)
LEMMA AllocateNodes ==
  ASSUME IInv, KInv, FilesInv, NodesInv, NEW t \in Users, Allocate(t)
  PROVE  NodesInv'
<1>0. boot = "ready" /\ th[t].pc = "allocate" /\ Continues(t)
  BY DEF Allocate, At, Ready, Continues
<1>1. CASE {y \in Inodes \ {0} : inodes[y].free} = {}
  <2>1. UNCHANGED <<inodes, freeBlocks, onDisk>>
    BY <1>1 DEF Allocate, memory, bitmap
  <2> QED
    BY <1>0, <2>1, CalmNodes
<1>2. CASE {y \in Inodes \ {0} : inodes[y].free} # {}
  <2>1. PICK r, b : r = th[t] /\ b = allocate_block
    OBVIOUS
  <2>2. PICK x : x = Least({y \in Inodes \ {0} : inodes[y].free})
    OBVIOUS
  <2>3. PICK type : type = IF r.op = "mkdir" THEN "DIRECTORY" ELSE "REGULARFILE"
    OBVIOUS
  <2>4. PICK n : n = Fresh(type, r.on, b)
    OBVIOUS
  <2>5. PICK w : w = [r EXCEPT !.inode = x, !.entry = [name |-> Head(r.path), inode |-> x]]
    OBVIOUS
  <2>6. /\ Goto(t, w, "made") /\ inodes' = [inodes EXCEPT ![x] = n]
        /\ freeBlocks' = freeBlocks \ {b} /\ onDisk' = [onDisk EXCEPT !.free = freeBlocks']
    BY <1>0, <1>2, <2>1, <2>2, <2>3, <2>4, <2>5 DEF Allocate, Fresh, Takes
  <2>7. x \in Inodes
    <3>1. {y \in Inodes \ {0} : inodes[y].free} \in SUBSET Nat
      BY MiniFileAssumption DEF Inodes
    <3>2. x \in {y \in Inodes \ {0} : inodes[y].free}
      BY <1>2, <2>2, <3>1, LeastIn
    <3> QED
      BY <3>2
  <2>8. Legal(r) /\ DOMAIN r = Fields /\ r.on \in Inodes /\ r.op \in {"creat", "mkdir"}
    BY <1>0, <2>1, Here DEF Fits, Legal
  <2>9. b \in -1 .. Bits - 1 /\ freeBlocks' \subseteq 0 .. Bits - 1
    BY <2>1, <2>6, TakenIs
  <2>10. n \in NodeType /\ Counted(n) /\ ~n.free
    <3>1. type \in {"REGULARFILE", "DIRECTORY"}
      BY <2>3
    <3> QED
      BY <2>4, <2>8, <2>9, <3>1, FreshNode
  <2>11. inodes \in [Inodes -> NodeType]
    BY DEF NodesInv, TypesInv
  <2>12. inodes' \in [Inodes -> NodeType]
    BY <2>6, <2>10, <2>11
  <2>13. inodes'[x] = n /\ \A y \in Inodes \ {x} : inodes'[y] = inodes[y]
    BY <2>6, <2>7, <2>11
  <2>14. PICK s : s = [w EXCEPT !.pc = "made"]
    OBVIOUS
  <2>15. th' = [th EXCEPT ![t] = s] /\ s.pc = "made" /\ s.inode = x /\ s.op = r.op
    BY <2>5, <2>6, <2>8, <2>14 DEF Goto, Fields
  <2>16. boot' = boot /\ outstanding' = outstanding /\ IInv'
    BY <1>0, StepIs
  <2>17. \A y \in Inodes : ~inodes'[y].free => inodes'[y].parent # x
    <3>1. th'[t] = s
      BY <1>0, <2>15, Here
    <3>2. MakesOne(th[t])'
      BY <1>0, <2>16 DEF IInv, ThreadsInv, LocalInv, Fits
    <3>3. Creating(th'[t])
      BY <2>8, <2>15, <3>1 DEF Creating
    <3>4. Untrodden(x)'
      BY <2>15, <3>1, <3>2, <3>3 DEF MakesOne
    <3> QED
      BY <3>4 DEF Untrodden
  <2>18. Grounded(inodes')
    <3>1. Grounded(inodes)
      BY <1>0 DEF NodesInv, RootsInv
    <3>2. \A y \in Inodes \ {x} : ~inodes'[y].free => ~inodes[y].free /\ inodes'[y].parent = inodes[y].parent
      BY <2>13
    <3> QED
      BY <2>17, <3>1, <3>2, GroundedKept
  <2>19. \A y \in Inodes : Fixed(y) \/ inodes'[y].free \/ Accounted(y)'
    BY <2>10, <2>13 DEF Fixed, Accounted
  <2>20. Stays(t, s)
    BY <1>0 DEF Stays, Overdraws
  <2>21. /\ onDisk'.inodes \in [Inodes -> NodeType] /\ onDisk'.free \subseteq 0 .. Bits - 1
         /\ \A y \in Inodes : ~onDisk'.inodes[y].free => Counted(onDisk'.inodes[y])
    BY <2>6, <2>9, BlockNodes
  <2> QED
    BY <1>0, <2>9, <2>12, <2>15, <2>16, <2>18, <2>19, <2>20, <2>21, ChangedKeeps
<1> QED
  BY <1>1, <1>2

(* A block is added behind the last one.                                   *)
LEMMA ExtendedNode ==
  ASSUME NEW n \in NodeType, NEW k \in Table, n.direct[k] = -1, Counted(n), Packed(n), Reaches(n, k),
         NEW b \in -1 .. Bits - 1, NEW m, m.direct[k] = b,
         \A j \in Table \ {k} : m.direct[j] = n.direct[j], m.size = n.size + 1
  PROVE  /\ m.size \in 0 .. TABLE_SIZE + 1 /\ m.size <= k + 2
         /\ b # -1 => Counted(m)
<1>1. PICK z : z = n.size
  OBVIOUS
<1>2. z \in Nat /\ z <= k + 1 /\ k \in Nat /\ k < TABLE_SIZE /\ TABLE_SIZE \in Nat /\ m.size = z + 1
  <2>1. z \in Nat
    BY <1>1, SizeIs, NodeFields
  <2> QED
    BY <1>1, <2>1, SizeIs DEF Counted, Table
<1>3. ASSUME b # -1, NEW j \in Table, m.direct[j] = -1 PROVE m.size <= j + 1
  <2>1. j # k
    BY <1>3
  <2>2. n.direct[j] = -1
    BY <1>3, <2>1
  <2>3. ~(j < k)
    BY <2>2 DEF Reaches
  <2>4. j \in Nat
    BY DEF Table
  <2> QED
    BY <1>2, <2>1, <2>3, <2>4
<1> QED
  BY <1>2, <1>3 DEF Counted

(* A round of inode_write, and the block it may take.                      *)
LEMMA WriteNodes ==
  ASSUME IInv, KInv, FilesInv, NodesInv, NEW t \in Users, Write(t)
  PROVE  NodesInv'
<1>0. boot = "ready" /\ th[t].pc = "write" /\ Continues(t)
  BY DEF Write, At, Ready, Continues
<1>1. CASE ~NeedsBlock(th[t].target, th[t].cur)
  <2>1. UNCHANGED <<inodes, freeBlocks, onDisk>>
    BY <1>1 DEF Write, memory, bitmap
  <2> QED
    BY <1>0, <2>1, CalmNodes
<1>2. CASE NeedsBlock(th[t].target, th[t].cur)
  <2>1. PICK r, b : r = th[t] /\ b = allocate_block
    OBVIOUS
  <2>2. PICK x, k : x = r.target /\ k = r.cur
    OBVIOUS
  <2>3. PICK s : s = [r EXCEPT !.pc = "put"]
    OBVIOUS
  <2>4. /\ th' = [th EXCEPT ![t] = s]
        /\ inodes' = [inodes EXCEPT ![x].direct[k] = b, ![x].size = @ + 1]
        /\ freeBlocks' = freeBlocks \ {b} /\ onDisk' = [onDisk EXCEPT !.free = freeBlocks']
        /\ inodes[x].direct[k] < 0
    BY <1>2, <2>1, <2>2, <2>3 DEF Write, Goto, Takes, NeedsBlock
  <2>5. Writing(r) /\ DOMAIN r = Fields
    BY <1>0, <2>1, Here DEF Writing
  <2>6. x \in Inodes /\ ~inodes[x].free /\ Whole(inodes[x], ranOut)
    BY <1>0, <2>1, <2>2, <2>5, TargetIs, NotFreed
  <2>7. Moves(r, inodes[x], ranOut) /\ Span(r) /\ Spans(r)
    BY <1>0, <2>1, <2>2 DEF FilesInv, Claim, KInv, LengthsInv, Spans
  <2>8. k \in Table
    BY <2>2, <2>7, InTable DEF Table
  <2>9. Reaches(inodes[x], k)
    BY <1>0, <2>1, <2>2, <2>5, <2>7 DEF Moves
  <2>10. inodes \in [Inodes -> NodeType]
    BY DEF NodesInv, TypesInv
  <2>11. PICK n : n = inodes[x]
    OBVIOUS
  <2>12. n \in NodeType /\ n.direct \in [Table -> -1 .. Bits - 1] /\ n.direct[k] = -1
    <3>1. n \in NodeType
      BY <2>6, <2>10, <2>11
    <3>2. n.direct \in [Table -> -1 .. Bits - 1]
      BY <3>1, NodeFields
    <3>3. n.direct[k] \in -1 .. Bits - 1 /\ n.direct[k] < 0 /\ Bits \in Nat
      BY <2>4, <2>8, <2>11, <3>2, MiniFileAssumption
    <3> QED
      BY <3>1, <3>2, <3>3
  <2>13. b \in -1 .. Bits - 1 /\ freeBlocks' \subseteq 0 .. Bits - 1
    BY <2>1, <2>4, TakenIs
  <2>14. Counted(n)
    <3>1. ~Freeing(x) /\ ~Overdrawn(x)
      <4>1. ~Overdraws(th[t], inodes[x])
        BY <1>0 DEF Overdraws
      <4> QED
        BY <1>0, <2>1, <2>2, <2>5, <4>1, WriterAlone DEF Overdrawn
    <3> QED
      BY <1>0, <2>6, <2>11, <3>1 DEF NodesInv, SizesInv
  <2>15. PICK e : e = [n.direct EXCEPT ![k] = b]
    OBVIOUS
  <2>16. PICK m : m = inodes'[x]
    OBVIOUS
  <2>17. m = [n EXCEPT !.direct = e, !.size = n.size + 1] /\ \A y \in Inodes \ {x} : inodes'[y] = inodes[y]
    <3>1. inodes' = [inodes EXCEPT ![x] = [n EXCEPT !.direct = e, !.size = n.size + 1]]
      BY <2>4, <2>6, <2>10, <2>11, <2>12, <2>15 DEF NodeType
    <3> QED
      BY <2>6, <2>10, <2>16, <3>1
  <2>18. e \in [Table -> -1 .. Bits - 1] /\ e[k] = b /\ \A j \in Table \ {k} : e[j] = n.direct[j]
    BY <2>8, <2>12, <2>13, <2>15
  <2>19. /\ m.direct = e /\ m.size = n.size + 1 /\ m.free = n.free /\ m.parent = n.parent
    BY <2>12, <2>17 DEF NodeType
  <2>20. m.size \in 0 .. TABLE_SIZE + 1 /\ m.size <= k + 2 /\ (b # -1 => Counted(m))
    <3>1. Packed(n) /\ Reaches(n, k)
      BY <2>6, <2>9, <2>11 DEF Whole
    <3>2. m.direct[k] = b /\ (\A j \in Table \ {k} : m.direct[j] = n.direct[j]) /\ m.size = n.size + 1
      BY <2>18, <2>19
    <3> QED
      BY <2>8, <2>12, <2>13, <2>14, <3>1, <3>2, ExtendedNode
  <2>21. m \in NodeType
    <3>1. n.size + 1 \in 0 .. TABLE_SIZE + 1
      BY <2>19, <2>20
    <3> QED
      BY <2>12, <2>17, <2>18, <3>1 DEF NodeType, Table
  <2>22. inodes' \in [Inodes -> NodeType]
    <3>1. inodes' = [inodes EXCEPT ![x] = m]
      BY <2>4, <2>6, <2>10, <2>16
    <3> QED
      BY <2>10, <2>21, <3>1
  <2>23. s.pc = "put" /\ s.target = x /\ s.cur = k
    BY <2>2, <2>3, <2>5 DEF Fields
  <2>24. Accounted(x)'
    <3>1. CASE b # -1
      BY <2>16, <2>20, <3>1 DEF Accounted
    <3>2. CASE b = -1
      <4>1. th'[t] = s
        BY <1>0, <2>4, Here
      <4>2. Overdraws(s, inodes'[x])
        BY <2>16, <2>18, <2>19, <2>20, <2>23, <3>2 DEF Overdraws
      <4> QED
        BY <2>23, <4>1, <4>2 DEF Accounted, Overdrawn
    <3> QED
      BY <3>1, <3>2
  <2>25. \A y \in Inodes : Fixed(y) \/ inodes'[y].free \/ Accounted(y)'
    BY <2>17, <2>24 DEF Fixed
  <2>26. Grounded(inodes')
    <3>1. \A y \in Inodes : inodes'[y].free = inodes[y].free /\ inodes'[y].parent = inodes[y].parent
      BY <2>11, <2>16, <2>17, <2>19
    <3> QED
      BY <1>0, <3>1, StillGrounded DEF NodesInv, RootsInv
  <2>27. Stays(t, s)
    BY <1>0 DEF Stays, Overdraws
  <2>28. /\ onDisk'.inodes \in [Inodes -> NodeType] /\ onDisk'.free \subseteq 0 .. Bits - 1
         /\ \A y \in Inodes : ~onDisk'.inodes[y].free => Counted(onDisk'.inodes[y])
    BY <2>4, <2>13, BlockNodes
  <2>29. boot' = boot /\ outstanding' = outstanding
    BY <1>0, StepIs
  <2> QED
    BY <1>0, <2>4, <2>13, <2>22, <2>25, <2>26, <2>27, <2>28, <2>29, ChangedKeeps
<1> QED
  BY <1>1, <1>2
-----------------------------------------------------------------------------
(* free_inode gives back a block, and in the end the inode.                *)
LEMMA FreeBlockNodes ==
  ASSUME IInv, KInv, FilesInv, NodesInv, NEW t \in Users, Free(t), NEW r, r = th[t],
         NEW x, x = r.inode, NEW k, k = r.i, NEW b,
         b = IF k < TABLE_SIZE THEN inodes[x].direct[k] ELSE -1, k < inodes[x].size, ~(b < 0)
  PROVE  NodesInv'
<1>1. boot = "ready" /\ r.pc = "free" /\ Continues(t)
  BY DEF Free, At, Ready, Continues
<1>2. PICK s : s = [[r EXCEPT !.i = @ + 1] EXCEPT !.pc = "free"]
  OBVIOUS
<1>3. /\ inodes' = [inodes EXCEPT ![x].direct[k] = -1] /\ th' = [th EXCEPT ![t] = s]
      /\ freeBlocks' = freeBlocks \cup {b} /\ onDisk' = [onDisk EXCEPT !.free = freeBlocks']
  BY <1>2 DEF Free, Goto
<1>4. x \in Inodes /\ k \in Nat /\ DOMAIN r = Fields
  BY <1>1, Here DEF Fits, Legal
<1>5. inodes \in [Inodes -> NodeType] /\ freeBlocks \subseteq 0 .. Bits - 1
  BY DEF NodesInv, TypesInv
<1>6. PICK n : n = inodes[x]
  OBVIOUS
<1>7. n \in NodeType /\ n.direct \in [Table -> -1 .. Bits - 1] /\ Bits \in Nat
  <2>1. n \in NodeType
    BY <1>4, <1>5, <1>6
  <2> QED
    BY <2>1, NodeFields, MiniFileAssumption
<1>8. k \in Table /\ b = n.direct[k]
  <2>1. TABLE_SIZE \in Nat
    BY SizeIs
  <2> QED
    BY <1>4, <1>6, <2>1 DEF Table
<1>9. b \in 0 .. Bits - 1
  BY <1>7, <1>8
<1>10. freeBlocks' \subseteq 0 .. Bits - 1
  BY <1>3, <1>5, <1>9
<1>11. PICK e : e = [n.direct EXCEPT ![k] = -1]
  OBVIOUS
<1>12. PICK m : m = [n EXCEPT !.direct = e]
  OBVIOUS
<1>13. e \in [Table -> -1 .. Bits - 1]
  <2>1. -1 \in -1 .. Bits - 1
    BY <1>7
  <2> QED
    BY <1>7, <1>11, <2>1
<1>14. m \in NodeType /\ m.free = n.free /\ m.parent = n.parent
  BY <1>7, <1>12, <1>13 DEF NodeType, Table
<1>15. inodes' = [inodes EXCEPT ![x] = m]
  BY <1>3, <1>4, <1>5, <1>6, <1>7, <1>11, <1>12 DEF NodeType
<1>16. inodes' \in [Inodes -> NodeType] /\ inodes'[x] = m /\ \A y \in Inodes \ {x} : inodes'[y] = inodes[y]
  <2>1. m \in NodeType
    BY <1>14
  <2> QED
    BY <1>4, <1>5, <1>15, <2>1
<1>17. s.pc = "free" /\ s.inode = x
  BY <1>2, <1>4 DEF Fields
<1>18. th'[t] = s
  BY <1>1, <1>3, Here
<1>19. \A y \in Inodes : Fixed(y) \/ inodes'[y].free \/ Accounted(y)'
  <2>1. Accounted(x)'
    BY <1>17, <1>18 DEF Accounted, Freeing
  <2> QED
    BY <1>16, <2>1 DEF Fixed
<1>20. Grounded(inodes')
  <2>1. \A y \in Inodes : inodes'[y].free = inodes[y].free /\ inodes'[y].parent = inodes[y].parent
    BY <1>6, <1>14, <1>16
  <2> QED
    BY <1>1, <2>1, StillGrounded DEF NodesInv, RootsInv
<1>21. Stays(t, s)
  BY <1>1, <1>17 DEF Stays, Overdraws
<1>22. /\ onDisk'.inodes \in [Inodes -> NodeType] /\ onDisk'.free \subseteq 0 .. Bits - 1
       /\ \A y \in Inodes : ~onDisk'.inodes[y].free => Counted(onDisk'.inodes[y])
  BY <1>3, <1>10, BlockNodes
<1>23. boot' = boot /\ outstanding' = outstanding
  BY <1>1, StepIs
<1> QED
  BY <1>1, <1>3, <1>10, <1>16, <1>19, <1>20, <1>21, <1>22, <1>23, ChangedKeeps

(* free_inode is done: the inode is nobody's parent.                       *)
LEMMA FreeInodeNodes ==
  ASSUME IInv, KInv, FilesInv, NodesInv, NEW t \in Users, Free(t),
         ~(th[t].i < inodes[th[t].inode].size)
  PROVE  NodesInv'
<1>1. PICK r, x : r = th[t] /\ x = r.inode
  OBVIOUS
<1>2. boot = "ready" /\ r.pc = "free" /\ Continues(t)
  BY <1>1 DEF Free, At, Ready, Continues
<1>3. x \in Inodes /\ DOMAIN r = Fields
  BY <1>1, <1>2, Here DEF Fits, Legal
<1>4. /\ inodes' = [inodes EXCEPT ![x].size = 0, ![x].bytes = 0, ![x].references = 0, ![x].free = TRUE]
      /\ disk_update_inode(x) /\ UNCHANGED freeBlocks
  BY <1>1 DEF Free, bitmap
<1>5. inodes \in [Inodes -> NodeType] /\ freeBlocks \subseteq 0 .. Bits - 1
  BY DEF NodesInv, TypesInv
<1>6. PICK n, m : n = inodes[x] /\ m = [n EXCEPT !.size = 0, !.bytes = 0, !.references = 0, !.free = TRUE]
  OBVIOUS
<1>7. inodes' = [inodes EXCEPT ![x] = m]
  BY <1>3, <1>4, <1>5, <1>6
<1>8. n \in NodeType
  BY <1>3, <1>5, <1>6
<1>9. 0 \in 0 .. TABLE_SIZE + 1 /\ 0 \in 0 .. TABLE_SIZE * BLOCK /\ 0 \in Nat
  <2>1. TABLE_SIZE \in Nat /\ TABLE_SIZE * BLOCK \in Nat
    BY SizeIs DEF Size
  <2> QED
    BY <2>1
<1>10. m \in NodeType /\ m.free
  BY <1>6, <1>8, <1>9 DEF NodeType
<1>11. inodes' \in [Inodes -> NodeType] /\ inodes'[x] = m /\ \A y \in Inodes \ {x} : inodes'[y] = inodes[y]
  <2>1. m \in NodeType
    BY <1>10
  <2> QED
    BY <1>3, <1>5, <1>7, <2>1
<1>12. PICK q : Outcome(t, q)
  BY <1>2, StepIs
<1>13. th' = [th EXCEPT ![t] = q] /\ Stays(t, q)
  BY <1>1, <1>2, <1>10, <1>11, <1>12 DEF Outcome, Stays, Overdraws
<1>14. \A y \in Inodes : Fixed(y) \/ inodes'[y].free \/ Accounted(y)'
  BY <1>10, <1>11 DEF Fixed
<1>15. Grounded(inodes')
  <2>1. PICK z : z = -1
    OBVIOUS
  <2>2. \A y \in Inodes : ~inodes'[y].free => ~inodes[y].free /\ inodes'[y].parent = inodes[y].parent
    BY <1>10, <1>11
  <2>3. \A y \in Inodes : inodes'[y].parent # z
    <3>1. \A y \in Inodes : inodes'[y].parent \in Inodes
      BY <1>11, NodeFields
    <3>2. z \notin Inodes
      BY <2>1, MiniFileAssumption DEF Inodes
    <3> QED
      BY <3>1, <3>2
  <2>4. Grounded(inodes)
    BY <1>2 DEF NodesInv, RootsInv
  <2> QED
    BY <2>2, <2>3, <2>4, GroundedKept
<1>16. /\ onDisk'.inodes \in [Inodes -> NodeType] /\ onDisk'.free \subseteq 0 .. Bits - 1
       /\ \A y \in Inodes : ~onDisk'.inodes[y].free => Counted(onDisk'.inodes[y])
  <2>1. onDisk' = [onDisk EXCEPT !.inodes[x] = m]
    BY <1>4, <1>11 DEF disk_update_inode
  <2> QED
    BY <1>3, <1>10, <2>1, DiskNodes
<1>17. boot' = boot /\ outstanding' = outstanding /\ freeBlocks' \subseteq 0 .. Bits - 1
  BY <1>2, <1>4, <1>5, StepIs
<1> QED
  BY <1>2, <1>11, <1>13, <1>14, <1>15, <1>16, <1>17, ChangedKeeps

(* A round of free_inode.                                                  *)
LEMMA FreeNodes ==
  ASSUME IInv, KInv, FilesInv, NodesInv, NEW t \in Users, Free(t)
  PROVE  NodesInv'
<1>1. PICK r : r = th[t]
  OBVIOUS
<1>2. PICK x, k : x = r.inode /\ k = r.i
  OBVIOUS
<1>3. PICK b : b = IF k < TABLE_SIZE THEN inodes[x].direct[k] ELSE -1
  OBVIOUS
<1>4. boot = "ready" /\ r.pc = "free" /\ Continues(t)
  BY <1>1 DEF Free, At, Ready, Continues
<1>5. CASE k < inodes[x].size /\ b < 0
  <2>1. UNCHANGED th /\ UNCHANGED <<inodes, freeBlocks, onDisk>>
    BY <1>1, <1>2, <1>3, <1>5 DEF Free, Fault, memory, bitmap
  <2>2. th' = [th EXCEPT ![t] = th[t]] /\ Stays(t, th[t])
    <3>1. th = [u \in Users |-> th[u]]
      BY <1>4, Here
    <3> QED
      BY <1>1, <1>4, <2>1, <3>1 DEF Stays
  <2> QED
    BY <1>4, <2>1, <2>2, StepIs, StillKeeps
<1>6. CASE k < inodes[x].size /\ ~(b < 0)
  BY <1>1, <1>2, <1>3, <1>6, FreeBlockNodes
<1>7. CASE ~(k < inodes[x].size)
  BY <1>1, <1>2, <1>7, FreeInodeNodes
<1> QED
  BY <1>5, <1>6, <1>7

(* Whatever a thread does, the inodes keep their form.                     *)
LEMMA ThreadNodes ==
  ASSUME IInv, KInv, FilesInv, NodesInv, NEW t \in Users, Calls(t) \/ Continues(t)
  PROVE  NodesInv'
BY CallNodes, CloseNodes, ScanNodes, WakeNodes, AllocateNodes, MadeNodes, WriteNodes, PutNodes,
   UpdateNodes, ShiftNodes, FreeNodes DEF Continues
-----------------------------------------------------------------------------
(* A reply of the disk, booting, and a crash.                              *)
LEMMA AnswerNodes ==
  ASSUME IInv, KInv, NodesInv, handle_disk_response
  PROVE  NodesInv'
<1>1. PICK t : t = Head(reads)
  OBVIOUS
<1>2. /\ boot = "ready" /\ reads # <<>> /\ th' = [th EXCEPT ![t].got = TRUE]
      /\ UNCHANGED <<inodes, freeBlocks, onDisk, boot, outstanding>>
  BY <1>1 DEF handle_disk_response, Ready, memory, bitmap, rest
<1>3. t \in Users /\ th[t].pc = "wait"
  <2>1. reads \in Seq(Users) /\ Len(reads) >= 1 /\ t = reads[1]
    BY <1>1, <1>2 DEF KInv, WaitsInv, InLine
  <2>2. 1 \in 1 .. Len(reads)
    BY <2>1
  <2> QED
    BY <2>1, <2>2 DEF KInv, WaitsInv, InLine
<1>4. PICK s : s = [th[t] EXCEPT !.got = TRUE]
  OBVIOUS
<1>5. th' = [th EXCEPT ![t] = s]
  BY <1>2, <1>3, <1>4, Here
<1>6. Stays(t, s)
  BY <1>3 DEF Stays, Overdraws
<1> QED
  BY <1>2, <1>3, <1>5, <1>6, StillKeeps

(* Memory is read from the disk.                                           *)
LEMMA BootNodes ==
  ASSUME IInv, NodesInv, setup_superblock \/ setup_inode \/ setup_bitmap
  PROVE  NodesInv'
<1>1. boot # "ready" /\ UNCHANGED onDisk
  BY DEF setup_superblock, setup_inode, setup_bitmap, running
<1>2. /\ inodes \in [Inodes -> NodeType] /\ onDisk.inodes \in [Inodes -> NodeType]
      /\ freeBlocks \subseteq 0 .. Bits - 1 /\ onDisk.free \subseteq 0 .. Bits - 1
      /\ outstanding \in 0 .. NumInodes /\ NumInodes \in Nat
  BY MiniFileAssumption DEF NodesInv, TypesInv
<1>3. (\A x \in Inodes : ~onDisk.inodes[x].free => Counted(onDisk.inodes[x])) /\ Grounded(onDisk.inodes)
  BY <1>1 DEF NodesInv, SizesInv, RootsInv
<1>4. /\ inodes' \in {inodes, onDisk.inodes} /\ freeBlocks' \in {freeBlocks, onDisk.free}
      /\ boot' \in {"inodes", "bitmap", "ready", "exited"} \cup {boot}
  <2>1. CASE setup_superblock
    BY <2>1 DEF setup_superblock, Exits
  <2>2. CASE setup_inode
    BY <2>2 DEF setup_inode, Exits
  <2>3. CASE setup_bitmap
    BY <2>3 DEF setup_bitmap, Exits
  <2> QED
    BY <2>1, <2>2, <2>3
<1>5. outstanding' \in 0 .. NumInodes
  <2>1. NumInodes >= 4
    BY MiniFileAssumption
  <2>2. CASE setup_superblock
    BY <1>2, <2>1, <2>2 DEF setup_superblock, Exits
  <2>3. CASE setup_inode
    BY <1>2, <2>1, <2>3 DEF setup_inode, Exits
  <2>4. CASE setup_bitmap
    <3>1. outstanding' = 0 \/ outstanding' = outstanding
      BY <2>4 DEF setup_bitmap, Exits
    <3> QED
      BY <1>2, <2>1, <3>1
  <2> QED
    BY <2>2, <2>3, <2>4
<1>6. boot' = "ready" => inodes' = onDisk'.inodes
  <2>1. SUFFICES ASSUME boot' = "ready" PROVE boot = "bitmap" /\ UNCHANGED inodes
    BY <1>1 DEF IInv, ImageInv
  <2> QED
    BY <2>1 DEF setup_superblock, setup_inode, setup_bitmap, Exits
<1>7. TypesInv'
  <2>1. boot' \in {"superblock", "inodes", "bitmap", "ready", "exited"}
    BY <1>4 DEF NodesInv, TypesInv
  <2> QED
    BY <1>1, <1>2, <1>4, <1>5, <2>1 DEF TypesInv
<1>8. SizesInv'
  BY <1>1, <1>3, <1>6 DEF SizesInv
<1>9. RootsInv'
  BY <1>1, <1>3, <1>6 DEF RootsInv
<1> QED
  BY <1>7, <1>8, <1>9 DEF NodesInv

(* The inodes before they are read.                                        *)
LEMMA BlankNodes == Blank \in [Inodes -> NodeType]
<1>1. PICK n : n = Inode("REGULARFILE", TRUE, 0, 0, 0, NoBlocks)
  OBVIOUS
<1>2. 0 \in 0 .. TABLE_SIZE + 1 /\ 0 \in 0 .. TABLE_SIZE * BLOCK /\ 0 \in Inodes
  BY MiniFileAssumption, SizeIs, Sizes DEF Inodes
<1>3. NoBlocks \in [0 .. TABLE_SIZE - 1 -> -1 .. Bits - 1]
  <2>1. -1 \in -1 .. Bits - 1
    BY MiniFileAssumption
  <2> QED
    BY <2>1 DEF NoBlocks
<1>4. n \in NodeType
  BY <1>1, <1>2, <1>3 DEF NodeType, Inode
<1> QED
  BY <1>1, <1>4 DEF Blank

(* The machine stops: what counts is on the disk.                          *)
LEMMA CrashNodes ==
  ASSUME IInv, NodesInv, Crash
  PROVE  NodesInv'
<1>1. /\ boot = "ready" /\ ~deleted /\ boot' = "superblock" /\ outstanding' = 1
      /\ inodes' = Blank /\ freeBlocks' = {} /\ onDisk' = onDisk
  BY DEF Crash
<1>2. Written
  BY <1>1 DEF IInv, BlocksInv
<1>3. Grounded(inodes)
  BY <1>1 DEF NodesInv, RootsInv
<1>4. Grounded(onDisk.inodes)
  <2>1. \A x \in Inodes : ~onDisk.inodes[x].free =>
          ~inodes[x].free /\ onDisk.inodes[x].parent = inodes[x].parent
    BY <1>2 DEF Written, Matches
  <2>2. PICK z : z = -1
    OBVIOUS
  <2>3. \A x \in Inodes : onDisk.inodes[x].parent # z
    BY <1>1, <2>2 DEF IInv, Shape, TableOK, InodeOK, Inodes
  <2>4. \A x \in Inodes \ {z} : ~onDisk.inodes[x].free =>
          ~inodes[x].free /\ onDisk.inodes[x].parent = inodes[x].parent
    BY <2>1
  <2>5. \A x \in Inodes : ~onDisk.inodes[x].free => onDisk.inodes[x].parent # z
    BY <2>3
  <2> QED
    BY <1>3, <2>4, <2>5, GroundedKept
<1>5. TypesInv'
  <2>1. 1 \in 0 .. NumInodes
    BY MiniFileAssumption
  <2>2. onDisk.inodes \in [Inodes -> NodeType] /\ onDisk.free \subseteq 0 .. Bits - 1
    BY DEF NodesInv, TypesInv
  <2> QED
    BY <1>1, <2>1, <2>2, BlankNodes DEF TypesInv
<1>6. SizesInv'
  BY <1>1 DEF NodesInv, SizesInv
<1>7. RootsInv'
  BY <1>1, <1>4 DEF RootsInv
<1> QED
  BY <1>5, <1>6, <1>7 DEF NodesInv
-----------------------------------------------------------------------------
(* The disks that boot first.  A root, and an inode with one block.        *)
LEMMA RootNode ==
  ASSUME NEW n, n = Inode("DIRECTORY", FALSE, 1, TABLE_SIZE, 0, [k \in 0 .. TABLE_SIZE - 1 |-> k])
  PROVE  n \in NodeType /\ Counted(n)
<1>1. TABLE_SIZE \in Nat /\ Bits \in Nat /\ TABLE_SIZE <= Bits
  BY MiniFileAssumption
<1>2. /\ 1 \in Nat /\ TABLE_SIZE \in 0 .. TABLE_SIZE + 1 /\ 0 \in 0 .. TABLE_SIZE * BLOCK
      /\ 0 \in Inodes
  BY <1>1, SizeIs, MiniFileAssumption DEF Size, Inodes
<1>3. PICK d : d = [k \in 0 .. TABLE_SIZE - 1 |-> k]
  OBVIOUS
<1>4. d \in [0 .. TABLE_SIZE - 1 -> -1 .. Bits - 1]
  <2>1. \A k \in 0 .. TABLE_SIZE - 1 : k \in -1 .. Bits - 1
    BY <1>1
  <2> QED
    BY <1>3, <2>1
<1>5. n \in NodeType
  BY <1>2, <1>3, <1>4 DEF NodeType, Inode
<1>6. n.direct = d
  BY <1>3 DEF Inode
<1>7. \A k \in Table : n.direct[k] # -1
  <2>1. \A k \in Table : d[k] = k /\ k >= 0
    BY <1>1, <1>3 DEF Table
  <2>2. \A k \in Table : d[k] # -1
    BY <2>1
  <2> QED
    BY <1>6, <2>2
<1> QED
  BY <1>5, <1>7 DEF Counted

(* An inode of the disk that was used is a node.                           *)
LEMMA OwnedNode ==
  ASSUME NEW type \in {"REGULARFILE", "DIRECTORY"}, NEW refs \in Nat, NEW parent \in Inodes,
         NEW bytes \in 0 .. TABLE_SIZE * BLOCK, NEW b \in 0 .. Bits - 1,
         NEW n, n = Owned(type, refs, parent, bytes, b)
  PROVE  n \in NodeType /\ Counted(n)
<1>1. TABLE_SIZE \in Nat /\ 1 <= TABLE_SIZE /\ Bits \in Nat
  BY MiniFileAssumption
<1>2. PICK d : d = [NoBlocks EXCEPT ![0] = b]
  OBVIOUS
<1>3. d \in [0 .. TABLE_SIZE - 1 -> -1 .. Bits - 1]
  <2>1. -1 \in -1 .. Bits - 1 /\ b \in -1 .. Bits - 1
    BY <1>1
  <2> QED
    BY <1>2, <2>1 DEF NoBlocks
<1>4. PICK m : m = Inode(type, FALSE, refs, 1, parent, d)
  OBVIOUS
<1>5. n = [m EXCEPT !.bytes = bytes]
  BY <1>2, <1>4 DEF Owned
<1>6. m \in NodeType
  <2>1. 1 \in 0 .. TABLE_SIZE + 1 /\ 0 \in 0 .. TABLE_SIZE * BLOCK
    BY <1>1, SizeIs DEF Size
  <2> QED
    BY <1>3, <1>4, <2>1 DEF NodeType, Inode
<1>7. n \in NodeType
  BY <1>5, <1>6 DEF NodeType
<1>8. Counted(n)
  <2>1. n.size = 1
    BY <1>4, <1>5 DEF Inode
  <2>2. \A k \in Table : k \in Nat
    BY <1>1 DEF Table
  <2> QED
    BY <2>1, <2>2 DEF Counted
<1> QED
  BY <1>7, <1>8

(* The disk mkfs leaves.                                                   *)
LEMMA NewNodes ==
  ASSUME NEW complete, NEW c, c = Mkfs(complete)
  PROVE  /\ c.inodes \in [Inodes -> NodeType] /\ c.free \subseteq 0 .. Bits - 1
         /\ \A x \in Inodes : ~c.inodes[x].free => x = 0 /\ Counted(c.inodes[x])
<1>1. PICK r, f : /\ r = Inode("DIRECTORY", FALSE, 1, TABLE_SIZE, 0, [k \in 0 .. TABLE_SIZE - 1 |-> k])
                  /\ f = Inode("REGULARFILE", TRUE, 0, 0, 0, [k \in 0 .. TABLE_SIZE - 1 |-> 0])
  OBVIOUS
<1>2. c.inodes = [x \in Inodes |-> IF x = 0 THEN r ELSE f] /\ c.free = TABLE_SIZE .. Bits - 1
  BY <1>1 DEF Mkfs
<1>3. r \in NodeType /\ Counted(r)
  BY <1>1, RootNode
<1>4. TABLE_SIZE \in Nat /\ TABLE_SIZE >= 1 /\ Bits \in Nat /\ TABLE_SIZE <= Bits
  BY MiniFileAssumption
<1>5. f \in NodeType /\ f.free
  <2>1. 0 \in Nat /\ 0 \in 0 .. TABLE_SIZE + 1 /\ 0 \in 0 .. TABLE_SIZE * BLOCK /\ 0 \in Inodes
    BY <1>4, SizeIs, MiniFileAssumption DEF Size, Inodes
  <2>2. PICK d : d = [k \in 0 .. TABLE_SIZE - 1 |-> 0]
    OBVIOUS
  <2>3. d \in [0 .. TABLE_SIZE - 1 -> -1 .. Bits - 1]
    <3>1. 0 \in -1 .. Bits - 1
      BY <1>4
    <3> QED
      BY <2>2, <3>1
  <2> QED
    BY <1>1, <2>1, <2>2, <2>3 DEF NodeType, Inode
<1>6. c.inodes \in [Inodes -> NodeType]
  BY <1>2, <1>3, <1>5
<1>7. c.free \subseteq 0 .. Bits - 1
  BY <1>2, <1>4
<1>8. \A x \in Inodes : ~c.inodes[x].free => x = 0 /\ Counted(c.inodes[x])
  BY <1>2, <1>3, <1>5
<1> QED
  BY <1>6, <1>7, <1>8

(* The disk that was used: from every inode on it, the root is at most two *)
(* parents away.                                                           *)
LEMMA UsedNodes ==
  ASSUME NEW c, c = Used.disk
  PROVE  /\ c.inodes \in [Inodes -> NodeType] /\ c.free \subseteq 0 .. Bits - 1
         /\ \A x \in Inodes : ~c.inodes[x].free => Counted(c.inodes[x])
         /\ Grounded(c.inodes)
<1>1. PICK m, tb : m = Mkfs(TRUE).inodes /\ tb = Used.disk.inodes
  OBVIOUS
<1>2. PICK j : j = Least(Lengths)
  OBVIOUS
<1>3. PICK o1, o2, o3 :
        /\ o1 = Owned("DIRECTORY", 1, 0, ENTRY, TABLE_SIZE)
        /\ o2 = Owned("REGULARFILE", 2, 1, BLOCK + j, TABLE_SIZE + 1)
        /\ o3 = Owned("REGULARFILE", 1, 0, 0, TABLE_SIZE + 2)
  OBVIOUS
<1>4. PICK a : a = BytesSet(m, 0, 2 * ENTRY)
  OBVIOUS
<1>5. /\ 0 \in Inodes /\ 1 \in Inodes /\ 2 \in Inodes /\ 3 \in Inodes
      /\ TABLE_SIZE \in Nat /\ Bits \in Nat /\ TABLE_SIZE + 3 <= Bits
      /\ ENTRY \in Nat /\ BLOCK \in Nat \ {0} /\ 2 * ENTRY <= BLOCK
  BY MiniFileAssumption DEF Inodes
<1>6. j \in Nat /\ j < BLOCK
  <2>1. PICK l \in Lengths : l < BLOCK
    BY MiniFileAssumption
  <2>2. Lengths \in SUBSET Nat /\ Lengths # {}
    BY <2>1, MiniFileAssumption
  <2>3. j \in Lengths /\ j <= l
    BY <1>2, <2>1, <2>2, LeastIn
  <2> QED
    BY <1>5, <2>1, <2>2, <2>3
<1>7. /\ 2 * ENTRY \in 0 .. TABLE_SIZE * BLOCK /\ ENTRY \in 0 .. TABLE_SIZE * BLOCK
      /\ BLOCK + j \in 0 .. TABLE_SIZE * BLOCK /\ 0 \in 0 .. TABLE_SIZE * BLOCK
  <2>1. PICK z : z = TABLE_SIZE * BLOCK
    OBVIOUS
  <2>2. z \in Nat /\ BLOCK + BLOCK <= z
    <3>1. PICK k : k = TABLE_SIZE - 2
      OBVIOUS
    <3>2. k \in Nat /\ TABLE_SIZE = k + 2
      BY <3>1, MiniFileAssumption
    <3>3. (k + 2) * BLOCK = k * BLOCK + BLOCK + BLOCK /\ k * BLOCK \in Nat
      BY <1>5, <3>2
    <3> QED
      BY <1>5, <2>1, <3>2, <3>3
  <2> QED
    BY <1>5, <1>6, <2>1, <2>2
<1>8. tb = [[[a EXCEPT ![1] = o1] EXCEPT ![2] = o2] EXCEPT ![3] = o3]
  BY <1>1, <1>2, <1>3, <1>4, UsedDisk DEF BytesSet
<1>9. m \in [Inodes -> NodeType] /\ \A x \in Inodes : ~m[x].free => x = 0 /\ Counted(m[x])
  BY <1>1, NewNodes
<1>10. a \in [Inodes -> NodeType] /\ \A x \in Inodes : ~a[x].free => x = 0 /\ Counted(a[x])
  <2>1. a \in [Inodes -> NodeType] /\ \A y \in Inodes : Same(m, a, y) /\ a[y].references = m[y].references
    BY <1>4, <1>5, <1>7, <1>9, BytesNodes
  <2> QED
    BY <1>9, <2>1 DEF Same, Counted
<1>11. o1 \in NodeType /\ Counted(o1)
  <2>1. TABLE_SIZE \in 0 .. Bits - 1 /\ 1 \in Nat
    BY <1>5
  <2> QED
    BY <1>3, <1>5, <1>7, <2>1, OwnedNode
<1>12. o2 \in NodeType /\ Counted(o2)
  <2>1. TABLE_SIZE + 1 \in 0 .. Bits - 1 /\ 2 \in Nat
    BY <1>5
  <2> QED
    BY <1>3, <1>5, <1>7, <2>1, OwnedNode
<1>13. o3 \in NodeType /\ Counted(o3)
  <2>1. TABLE_SIZE + 2 \in 0 .. Bits - 1 /\ 1 \in Nat
    BY <1>5
  <2> QED
    BY <1>3, <1>5, <1>7, <2>1, OwnedNode
<1>14. tb \in [Inodes -> NodeType]
  BY <1>8, <1>10, <1>11, <1>12, <1>13
<1>15. \A x \in Inodes : ~tb[x].free => Counted(tb[x])
  <2>1. \A x \in Inodes : tb[x] \in {a[x], o1, o2, o3}
    BY <1>8, <1>10
  <2> QED
    BY <1>10, <1>11, <1>12, <1>13, <2>1
<1>16. c.inodes = tb /\ c.free \subseteq 0 .. Bits - 1
  <2>1. c.free = TABLE_SIZE + 3 .. Bits - 1
    BY UsedDisk
  <2> QED
    BY <1>1, <1>5, <2>1
<1>17. Grounded(tb)
  <2>1. /\ tb[1].parent = 0 /\ tb[2].parent = 1 /\ tb[3].parent = 0
        /\ \A x \in Inodes \ {0, 1, 2, 3} : tb[x].free
    BY <1>1, UsedTable
  <2>2. SUFFICES ASSUME NEW S \in SUBSET Inodes, S # {}, Closed(tb, S) PROVE 0 \in S
    BY DEF Grounded
  <2>3. \A x \in S : x \in {0, 1, 2, 3} /\ tb[x].parent \in S
    BY <2>1, <2>2 DEF Closed
  <2> QED
    BY <2>1, <2>2, <2>3
<1> QED
  BY <1>14, <1>15, <1>16, <1>17

(* Both disks are of this form.                                            *)
LEMMA InitNodes ==
  ASSUME FileInit
  PROVE  NodesInv
<1>1. inodes = Blank /\ freeBlocks = {} /\ boot = "superblock" /\ outstanding = 1
  BY DEF FileInit
<1>2. /\ onDisk.inodes \in [Inodes -> NodeType] /\ onDisk.free \subseteq 0 .. Bits - 1
      /\ \A x \in Inodes : ~onDisk.inodes[x].free => Counted(onDisk.inodes[x])
      /\ Grounded(onDisk.inodes)
  <2>1. CASE onDisk = Used.disk
    BY <2>1, UsedNodes
  <2>2. CASE \E complete \in BOOLEAN : onDisk = Mkfs(complete)
    <3>1. /\ onDisk.inodes \in [Inodes -> NodeType] /\ onDisk.free \subseteq 0 .. Bits - 1
          /\ \A x \in Inodes : ~onDisk.inodes[x].free => x = 0 /\ Counted(onDisk.inodes[x])
      BY <2>2, NewNodes
    <3>2. Grounded(onDisk.inodes)
      BY <3>1 DEF Grounded, Closed
    <3> QED
      BY <3>1, <3>2
  <2> QED
    BY <2>1, <2>2 DEF FileInit
<1>3. TypesInv
  <2>1. 1 \in 0 .. NumInodes
    BY MiniFileAssumption
  <2> QED
    BY <1>1, <1>2, <2>1, BlankNodes DEF TypesInv
<1>4. SizesInv /\ RootsInv
  BY <1>1, <1>2 DEF SizesInv, RootsInv
<1> QED
  BY <1>3, <1>4 DEF NodesInv
-----------------------------------------------------------------------------
(* Names.  What a step must leave for the names of the directories to stay *)
(* different: of the directory d its call works on it is shown apart, and  *)
(* nobody else works there.                                                *)
Left(x) == inodes'[x].bytes = inodes[x].bytes /\ entries'[x] = entries[x]
NamedIn(d) == \A i, j \in Slots : Namesakes(inodes, d, i, j) => i = j \/ InHole(d, i, j)

(* The step as a whole.                                                    *)
LEMMA NamesAround ==
  ASSUME IInv, NamesInv, boot = "ready", boot' = boot,
         NEW t \in Users, NEW s, th' = [th EXCEPT ![t] = s], NEW d,
         \A x \in Directories(inodes) \ {d} : Left(x),
         \A x \in Directories(inodes') \ {d} : x \in Directories(inodes) \/ Filled(inodes', x) = 0,
         \A u \in Users \ {t} : th[u].op \in NameOps => th[u].on # d,
         Removing(th[t]) => th[t].on = d \/ (Removing(s) /\ s.on = th[t].on /\ Hole(s) = Hole(th[t])),
         d \in Directories(inodes') => NamedIn(d)',
         Knows(s)'
  PROVE  NamesInv'
<1>1. th'[t] = s /\ \A u \in Users \ {t} : th'[u] = th[u]
  BY Here
<1>2. NamesUp /\ \A u \in Users : Knows(th[u])
  BY DEF NamesInv
<1>3. ASSUME NEW x \in Directories(inodes') \ {d} PROVE NamedIn(x)'
  <2>1. SUFFICES ASSUME NEW i \in Slots, NEW j \in Slots, Namesakes(inodes, x, i, j)', i # j
                 PROVE  InHole(x, i, j)'
    BY DEF NamedIn
  <2>2. x \in Directories(inodes)
    <3>1. i \in Nat /\ i < Filled(inodes', x)
      BY <2>1, Sizes DEF Namesakes, Has
    <3>2. Filled(inodes', x) # 0
      BY <3>1
    <3> QED
      BY <3>2
  <2>3. Left(x)
    BY <2>2
  <2>4. Namesakes(inodes, x, i, j)
    BY <2>1, <2>3 DEF Namesakes, Has, Filled, Name, Left
  <2>5. PICK u \in Users : Removing(th[u]) /\ th[u].on = x /\ Hole(th[u]) \in {i, j}
    BY <1>2, <2>1, <2>2, <2>4 DEF NamesUp, InHole
  <2>6. Removing(th'[u]) /\ th'[u].on = x /\ Hole(th'[u]) \in {i, j}
    <3>1. CASE u = t
      BY <1>1, <2>5, <3>1
    <3>2. CASE u # t
      BY <1>1, <2>5, <3>2
    <3> QED
      BY <3>1, <3>2
  <2> QED
    BY <2>6 DEF InHole
<1>4. NamesUp'
  BY <1>3 DEF NamesUp, NamedIn
<1>5. ASSUME NEW u \in Users \ {t} PROVE Knows(th[u])'
  <2>1. PICK r : r = th[u]
    OBVIOUS
  <2>2. th'[u] = r /\ Knows(r)
    BY <1>1, <1>2, <2>1
  <2>3. Fits(u, r) /\ Legal(r) /\ Works(u, r)
    BY <2>1, Here DEF Fits
  <2>4. CASE r.op \in NameOps
    <3>1. r.on \in Directories(inodes)
      BY <2>1, <2>3, <2>4, Here DEF Works
    <3>2. Left(r.on)
      BY <2>1, <2>4, <3>1
    <3>3. IsNew(r)' <=> IsNew(r)
      BY <3>2 DEF IsNew, Has, Filled, Name, NewName, Left
    <3>4. Name(r.on, r.i)' = Name(r.on, r.i)
      BY <3>2 DEF Name, Left
    <3>5. Knows(r)'
      BY <2>2, <3>3, <3>4 DEF Knows
    <3> QED
      BY <2>2, <3>5 DEF Knows, IsNew, NewName
  <2>5. CASE r.op \notin NameOps
    <3>1. ~Seeks(r) /\ r.pc # "allocate" /\ ~Creating(r) /\ ~Removing(r)
      BY <2>3, <2>5 DEF Seeks, Legal, Creating, Removing, NameOps
    <3>2. Knows(r)'
      BY <3>1 DEF Knows
    <3> QED
      BY <2>2, <3>2 DEF Knows, IsNew, NewName
  <2> QED
    BY <2>4, <2>5
<1>6. Knows(th[t])'
  BY <1>1 DEF Knows, IsNew, NewName
<1>7. \A u \in Users : Knows(th[u])'
  BY <1>5, <1>6
<1> QED
  BY <1>4, <1>7 DEF NamesInv

(* A step that leaves every directory as it is, and no hole.               *)
LEMMA NamesStill ==
  ASSUME IInv, NamesInv, boot = "ready", boot' = boot,
         NEW t \in Users, NEW s, th' = [th EXCEPT ![t] = s],
         \A x \in Directories(inodes) : Left(x),
         \A x \in Directories(inodes') : x \in Directories(inodes) \/ Filled(inodes', x) = 0,
         Removing(th[t]) => Removing(s) /\ s.on = th[t].on /\ Hole(s) = Hole(th[t]),
         Knows(s)'
  PROVE  NamesInv'
<1>1. PICK d : d = -1
  OBVIOUS
<1>2. d \notin Inodes
  BY <1>1, MiniFileAssumption DEF Inodes
<1>3. ASSUME NEW u \in Users \ {t}, th[u].op \in NameOps PROVE th[u].on # d
  <2>1. th[u].on \in Inodes
    BY Here DEF Fits, Legal
  <2> QED
    BY <1>2, <2>1
<1>4. d \notin Directories(inodes')
  BY <1>2 DEF Directories
<1> QED
  BY <1>3, <1>4, NamesAround

(* A call that knows nothing of names, or nothing new.                     *)
Blind(s) ==
  /\ Seeks(s) => s.i = 0
  /\ s.pc # "allocate" /\ ~Creating(s)
  /\ ~(Removing(s) /\ Writing(s) /\ s.pc # "update")
AsBefore(r, s) ==
  /\ s.on = r.on /\ s.i = r.i /\ s.path = r.path /\ s.entry = r.entry
  /\ (Seeks(s) <=> Seeks(r)) /\ (Creating(s) <=> Creating(r)) /\ (Removing(s) <=> Removing(r))
  /\ s.pc = "allocate" <=> r.pc = "allocate"
  /\ s.pc = "update" <=> r.pc = "update"
  /\ Removing(r) => (Writing(s) <=> Writing(r))

(* Such a call knows all it has to.                                        *)
LEMMA BlindKnows ==
  ASSUME NEW s, Blind(s)
  PROVE  Knows(s)'
<1>1. ASSUME Seeks(s) PROVE IsNew(s)'
  <2>1. s.i = 0 /\ \A k \in Slots : ~(k < 0)
    BY <1>1, Sizes DEF Blind
  <2> QED
    BY <1>1, <2>1 DEF IsNew, Has, Filled, Name, NewName, Seeks
<1> QED
  BY <1>1 DEF Knows, Blind

(* A call knows what it knew, when its directory is left.                  *)
LEMMA CarriedKnows ==
  ASSUME NEW r, NEW s, Knows(r), AsBefore(r, s), Left(r.on)
  PROVE  Knows(s)'
<1>1. IsNew(s)' <=> IsNew(r)
  BY DEF IsNew, Has, Filled, Name, NewName, Left, AsBefore
<1>2. Name(s.on, s.i)' = Name(r.on, r.i)
  BY DEF Name, Left, AsBefore
<1> QED
  BY <1>1, <1>2 DEF Knows, AsBefore

(* A thread that removes nothing goes where it knows nothing.              *)
LEMMA NamesBlind ==
  ASSUME IInv, NamesInv, boot = "ready", boot' = boot,
         NEW t \in Users, NEW s, th' = [th EXCEPT ![t] = s],
         \A x \in Directories(inodes) : Left(x),
         \A x \in Directories(inodes') : x \in Directories(inodes) \/ Filled(inodes', x) = 0,
         ~Removing(th[t]), Blind(s)
  PROVE  NamesInv'
<1>1. Knows(s)'
  BY BlindKnows
<1> QED
  BY <1>1, NamesStill

(* A thread goes on with what it knew.                                     *)
LEMMA NamesCarried ==
  ASSUME IInv, NamesInv, boot = "ready", boot' = boot,
         NEW t \in Users, NEW s, th' = [th EXCEPT ![t] = s],
         \A x \in Directories(inodes) : Left(x),
         \A x \in Directories(inodes') : x \in Directories(inodes) \/ Filled(inodes', x) = 0,
         AsBefore(th[t], s)
  PROVE  NamesInv'
<1>1. PICK r : r = th[t]
  OBVIOUS
<1>2. Knows(s)'
  <2>1. Knows(r)
    BY <1>1 DEF NamesInv
  <2>2. Fits(t, r) /\ Legal(r) /\ Works(t, r)
    BY <1>1, Here DEF Fits
  <2>3. CASE r.op \in NameOps
    <3>1. r.on \in Directories(inodes)
      BY <1>1, <2>2, <2>3, Here DEF Works
    <3>2. Left(r.on)
      BY <3>1
    <3> QED
      BY <1>1, <2>1, <3>2, CarriedKnows
  <2>4. CASE r.op \notin NameOps
    <3>1. ~Seeks(r) /\ r.pc # "allocate" /\ ~Creating(r) /\ ~Removing(r)
      BY <2>2, <2>4 DEF Seeks, Legal, Creating, Removing, NameOps
    <3>2. Blind(s)
      BY <1>1, <3>1 DEF AsBefore, Blind
    <3> QED
      BY <3>2, BlindKnows
  <2> QED
    BY <2>3, <2>4
<1>3. Removing(r) => Removing(s) /\ s.on = r.on /\ Hole(s) = Hole(r)
  BY <1>1 DEF AsBefore, Hole
<1> QED
  BY <1>1, <1>2, <1>3, NamesStill
-----------------------------------------------------------------------------
(* Steps that change neither inodes nor entries.                           *)
SameLists == UNCHANGED <<inodes, entries, boot>>

(* The first of the two.                                                   *)
LEMMA CalmBlind ==
  ASSUME IInv, NamesInv, boot = "ready", SameLists, NEW t \in Users, NEW s,
         th' = [th EXCEPT ![t] = s], ~Removing(th[t]), Blind(s)
  PROVE  NamesInv'
<1>1. /\ \A x \in Directories(inodes) : Left(x)
      /\ \A x \in Directories(inodes') : x \in Directories(inodes) \/ Filled(inodes', x) = 0
  BY DEF SameLists, Left, Directories
<1> QED
  BY <1>1, NamesBlind DEF SameLists

(* The second.                                                             *)
LEMMA CalmCarried ==
  ASSUME IInv, NamesInv, boot = "ready", SameLists, NEW t \in Users, NEW s,
         th' = [th EXCEPT ![t] = s], AsBefore(th[t], s)
  PROVE  NamesInv'
<1>1. /\ \A x \in Directories(inodes) : Left(x)
      /\ \A x \in Directories(inodes') : x \in Directories(inodes) \/ Filled(inodes', x) = 0
  BY DEF SameLists, Left, Directories
<1> QED
  BY <1>1, NamesCarried DEF SameLists

(* The program ends in this step.                                          *)
LEMMA CalmEnd ==
  ASSUME IInv, NamesInv, boot = "ready", SameLists, NEW t \in Users, UNCHANGED th
  PROVE  NamesInv'
<1>1. th' = [th EXCEPT ![t] = th[t]]
  BY Here
<1>2. AsBefore(th[t], th[t])
  BY DEF AsBefore
<1> QED
  BY <1>1, <1>2, CalmCarried

(* A thread asks for a block, and remembers what it knows.                 *)
LEMMA AsksNames ==
  ASSUME IInv, NamesInv, boot = "ready", SameLists, NEW t \in Users, NEW b, NEW what,
         get_data_block(t, th[t], b, what),
         \/ th[t].pc = "scan" /\ what = "entry"
         \/ th[t].pc = "scan" /\ what = "list" /\ th[t].op \in Walks
         \/ th[t].pc = "write" /\ what = "put"
         \/ th[t].pc = "read" /\ what = "data"
         \/ th[t].pc = "shift" /\ what = "shift"
  PROVE  NamesInv'
<1>1. CASE UNCHANGED th
  BY <1>1, CalmEnd
<1>2. CASE ~UNCHANGED th
  <2>1. PICK r : r = th[t]
    OBVIOUS
  <2>2. PICK s : s = Waiting(r, b, what)
    OBVIOUS
  <2>3. th' = [th EXCEPT ![t] = s]
    BY <1>2, <2>1, <2>2 DEF get_data_block, Goto, Fault, Waiting
  <2>4. DOMAIN r = Fields /\ Legal(r)
    BY <2>1, Here DEF Fits
  <2>5. /\ s.pc = "wait" /\ s.then = what /\ s.op = r.op /\ s.on = r.on /\ s.i = r.i
        /\ s.path = r.path /\ s.entry = r.entry
    BY <2>2, <2>4 DEF Waiting, Fields
  <2>6. AsBefore(r, s)
    BY <2>1, <2>4, <2>5 DEF AsBefore, Seeks, Creating, Removing, Writing, Waits, Legal, Walks
  <2> QED
    BY <2>1, <2>3, <2>6, CalmCarried
<1> QED
  BY <1>1, <1>2

(* Places where a call knows no name.                                      *)
LEMMA BlindIs ==
  ASSUME NEW t, NEW r, DOMAIN r = Fields, NEW pc,
         pc \in {"scan", "return", "read", "free", "write", "shift"},
         pc = "scan" => r.op \notin {"creat", "mkdir"} \/ r.i = 0,
         pc = "write" => r.op = "write",
         Goto(t, r, pc)
  PROVE  \E s : th' = [th EXCEPT ![t] = s] /\ Blind(s)
<1>1. PICK s : s = [r EXCEPT !.pc = pc]
  OBVIOUS
<1>2. s.pc = pc /\ s.op = r.op /\ s.i = r.i
  BY <1>1 DEF Fields
<1>3. Blind(s)
  BY <1>2 DEF Blind, Seeks, Creating, Removing, Writing, Waits
<1> QED
  BY <1>1, <1>3 DEF Goto

(* A thread without a call knows nothing.                                  *)
LEMMA IdleBlind == Blind(Idle)
BY DEF Idle, Blind, Seeks, Creating, Removing, Writing, Waits

(* Nor does one whose call returns.                                        *)
LEMMA ReturnBlind ==
  ASSUME NEW t, Return(t)
  PROVE  \E s : th' = [th EXCEPT ![t] = s] /\ Blind(s)
BY IdleBlind DEF Return

(* Nor after an unlink, when open goes on to creat.                        *)
LEMMA AfterUnlinkBlind ==
  ASSUME NEW t, NEW r, DOMAIN r = Fields, AfterUnlink(t, r)
  PROVE  \E s : th' = [th EXCEPT ![t] = s] /\ Blind(s)
<1>1. CASE r.mode = "w"
  <2>1. PICK q : q = [r EXCEPT !.op = "creat", !.i = 0]
    OBVIOUS
  <2>2. DOMAIN q = Fields /\ q.i = 0 /\ Goto(t, q, "scan")
    BY <1>1, <2>1 DEF AfterUnlink, Fields
  <2> QED
    BY <2>2, BlindIs
<1>2. CASE r.mode # "w"
  BY <1>2, ReturnBlind DEF AfterUnlink
<1> QED
  BY <1>1, <1>2

(* No entry has the name: whoever is to make one knows it now.             *)
LEMMA MissingNames ==
  ASSUME IInv, NamesInv, boot = "ready", SameLists, NEW t \in Users, th[t].pc = "scan",
         th[t].i >= Entries(th[t].on), Missing(t, th[t])
  PROVE  NamesInv'
<1>1. PICK r : r = th[t]
  OBVIOUS
<1>2. DOMAIN r = Fields /\ Legal(r) /\ Works(t, r)
  BY <1>1, Here DEF Fits
<1>3. ~Removing(th[t])
  BY DEF Removing, Writing, Waits
<1>4. CASE r.op \in {"creat", "mkdir"}
  <2>1. PICK s : s = [r EXCEPT !.pc = "allocate"]
    OBVIOUS
  <2>2. th' = [th EXCEPT ![t] = s]
    BY <1>1, <1>4, <2>1 DEF Missing, Goto, Walks
  <2>3. s.pc = "allocate" /\ s.op = r.op /\ s.on = r.on /\ s.i = r.i /\ s.path = r.path
    BY <1>2, <2>1 DEF Fields
  <2>4. ~Creating(s) /\ ~Removing(s) /\ ~Seeks(s)
    BY <2>3 DEF Creating, Removing, Writing, Waits, Seeks
  <2>5. Seeks(r) /\ ~Creating(r) /\ IsNew(r)
    BY <1>1, <1>4 DEF Seeks, Creating, Writing, Waits, NamesInv, Knows
  <2>6. ASSUME NEW k \in Slots, Has(inodes, r.on, k) PROVE Name(r.on, k) # Head(r.path)
    <3>1. k < r.i
      <4>1. k < Filled(inodes, r.on) /\ Filled(inodes, r.on) <= r.i /\ r.i \in Nat
        BY <1>1, <1>2, <2>6 DEF Has, Entries, Filled, Legal
      <4>2. Filled(inodes, r.on) \in Int
        <5>1. r.on \in Directories(inodes)
          BY <1>1, <1>2, <1>4, Here DEF Works, NameOps
        <5> QED
          BY <5>1, FilledIs DEF IInv, TreeInv
      <4> QED
        BY <4>1, <4>2, Sizes
    <3>2. NewName(r) = Head(r.path)
      BY <1>1, <2>5 DEF NewName
    <3> QED
      BY <2>5, <2>6, <3>1, <3>2 DEF IsNew
  <2>7. IsNew(s)'
    <3>1. NewName(s)' = Head(r.path)
      BY <2>3, <2>4 DEF NewName
    <3> QED
      BY <2>3, <2>6, <3>1 DEF IsNew, Has, Filled, Name, SameLists
  <2>8. Knows(s)'
    BY <2>4, <2>7 DEF Knows
  <2>9. /\ \A x \in Directories(inodes) : Left(x)
        /\ \A x \in Directories(inodes') : x \in Directories(inodes) \/ Filled(inodes', x) = 0
    BY DEF SameLists, Left, Directories
  <2> QED
    BY <1>3, <2>2, <2>8, <2>9, NamesStill DEF SameLists
<1>5. CASE r.op \notin {"creat", "mkdir"}
  <2>1. \E s : th' = [th EXCEPT ![t] = s] /\ Blind(s)
    <3>1. CASE r.op = "open" /\ r.mode \in {"w", "a"}
      <4>1. PICK q : q = [r EXCEPT !.op = "creat", !.i = 0]
        OBVIOUS
      <4>2. DOMAIN q = Fields /\ q.i = 0 /\ Goto(t, q, "scan")
        BY <1>1, <1>2, <3>1, <4>1 DEF Missing, Fields, Walks
      <4> QED
        BY <4>2, BlindIs
    <3>2. CASE r.op \in Walks
      <4>1. PICK q : q = [r EXCEPT !.path = Tail(@), !.i = 0, !.found = FALSE]
        OBVIOUS
      <4>2. DOMAIN q = Fields /\ q.i = 0 /\ Goto(t, q, "scan")
        BY <1>1, <1>2, <3>2, <4>1 DEF Missing, Fields, Walks
      <4> QED
        BY <4>2, BlindIs
    <3>3. CASE r.op \notin Walks /\ ~(r.op = "open" /\ r.mode \in {"w", "a"})
      <4>1. Return(t)
        BY <1>1, <1>5, <3>3 DEF Missing
      <4> QED
        BY <4>1, ReturnBlind
    <3> QED
      BY <3>1, <3>2, <3>3
  <2> QED
    BY <1>3, <2>1, CalmBlind
<1> QED
  BY <1>4, <1>5

(* A round of the loop over the entries, before its block is asked for.    *)
LEMMA ScanNames ==
  ASSUME IInv, NamesInv, NEW t \in Users, Scan(t)
  PROVE  NamesInv'
<1>1. PICK r : r = th[t]
  OBVIOUS
<1>2. boot = "ready" /\ r.pc = "scan" /\ SameLists
  BY <1>1 DEF Scan, At, Ready, SameLists, memory, rest
<1>3. ~Removing(th[t])
  BY <1>1, <1>2 DEF Removing, Writing, Waits
<1>4. CASE Return(t)
  BY <1>2, <1>3, <1>4, ReturnBlind, CalmBlind
<1>5. CASE r.path = <<>> /\ Resolved(t, r)
  <2>1. Return(t) \/ (r.op = "ls" /\ get_data_block(t, r, inodes[r.on].direct[0], "list"))
    BY <1>5 DEF Resolved
  <2> QED
    BY <1>1, <1>2, <1>4, <2>1, AsksNames DEF Walks
<1>6. CASE r.i >= Entries(r.on) /\ Missing(t, r)
  BY <1>1, <1>2, <1>6, MissingNames
<1>7. CASE get_data_block(t, r, inodes[r.on].direct[0], "entry")
  BY <1>1, <1>2, <1>7, AsksNames
<1> QED
  BY <1>1, <1>4, <1>5, <1>6, <1>7 DEF Scan

(* A round of inode_read, and a call that had nothing to do.               *)
LEMMA ReadNames ==
  ASSUME IInv, NamesInv, NEW t \in Users, Read(t) \/ Returns(t)
  PROVE  NamesInv'
<1>1. CASE Read(t)
  <2>1. boot = "ready" /\ th[t].pc = "read" /\ SameLists
    BY <1>1 DEF Read, At, Ready, SameLists, memory, rest
  <2> QED
    BY <1>1, <2>1, AsksNames DEF Read
<1>2. CASE Returns(t)
  <2>1. boot = "ready" /\ th[t].pc = "return" /\ SameLists /\ Return(t)
    BY <1>2 DEF Returns, At, Ready, SameLists, memory, rest
  <2>2. ~Removing(th[t])
    BY <2>1 DEF Removing, Writing, Waits
  <2> QED
    BY <2>1, <2>2, ReturnBlind, CalmBlind
<1> QED
  BY <1>1, <1>2
-----------------------------------------------------------------------------
(* A step that changes references and nothing else of the inodes.          *)
LEMMA TableBlind ==
  ASSUME IInv, NamesInv, boot = "ready", entries' = entries, boot' = boot,
         \A x \in Inodes : SameNode(x), NEW t \in Users, NEW s,
         th' = [th EXCEPT ![t] = s], ~Removing(th[t]), Blind(s)
  PROVE  NamesInv'
<1>1. /\ \A x \in Directories(inodes) : Left(x)
      /\ \A x \in Directories(inodes') : x \in Directories(inodes) \/ Filled(inodes', x) = 0
  BY DEF SameNode, Left, Directories
<1> QED
  BY <1>1, NamesBlind

(* A call starts, and knows no name.                                       *)
LEMMA CallNames ==
  ASSUME IInv, NamesInv, NEW t \in Users, NEW area, NEW r, DOMAIN r = Fields, NEW pc,
         pc \in {"scan", "return", "read", "free", "write"}, pc = "scan" => r.i = 0,
         pc = "write" => r.op = "write",
         Call(t, area, r, pc), inodes' = inodes \/ \A x \in Inodes : SameNode(x)
  PROVE  NamesInv'
<1>1. boot = "ready" /\ entries' = entries /\ boot' = boot /\ th[t].pc = "idle"
  BY DEF Call, Ready
<1>2. PICK w : w = [r EXCEPT !.area = area]
  OBVIOUS
<1>3. DOMAIN w = Fields /\ w.op = r.op /\ w.i = r.i
  BY <1>2 DEF Fields
<1>4. Goto(t, w, pc)
  BY <1>2 DEF Call
<1>5. PICK s : th' = [th EXCEPT ![t] = s] /\ Blind(s)
  BY <1>3, <1>4, BlindIs
<1>6. ~Removing(th[t])
  BY <1>1 DEF Removing, Writing, Waits
<1>7. \A x \in Inodes : SameNode(x)
  BY DEF SameNode
<1> QED
  BY <1>1, <1>5, <1>6, <1>7, TableBlind

(* creat, open, unlink, mkdir and rmdir.                                   *)
LEMMA OnNameNames ==
  ASSUME IInv, NamesInv, NEW t \in Users, NEW op, NEW mode, OnName(t, op, mode)
  PROVE  NamesInv'
<1>1. PICK n \in Names :
        Call(t, {cwd[t]}, [Idle EXCEPT !.op = op, !.mode = mode, !.path = <<n>>, !.on = cwd[t]], "scan")
  BY DEF OnName
<1>2. PICK r : r = [Idle EXCEPT !.op = op, !.mode = mode, !.path = <<n>>, !.on = cwd[t]]
  OBVIOUS
<1>3. DOMAIN r = Fields /\ r.i = 0
  BY <1>2 DEF Idle, Fields
<1>4. Call(t, {cwd[t]}, r, "scan") /\ inodes' = inodes
  BY <1>1, <1>2 DEF OnName, memory
<1> QED
  BY <1>3, <1>4, CallNames

(* cd, ls and stat.                                                        *)
LEMMA WalkNames ==
  ASSUME IInv, NamesInv, NEW t \in Users, NEW op, minifile_walk(t, op)
  PROVE  NamesInv'
<1>1. PICK at, path :
        Call(t, Inodes, [Idle EXCEPT !.op = op, !.on = at, !.found = TRUE, !.path = path], "scan")
  BY DEF minifile_walk
<1>2. PICK r : r = [Idle EXCEPT !.op = op, !.on = at, !.found = TRUE, !.path = path]
  OBVIOUS
<1>3. DOMAIN r = Fields /\ r.i = 0
  BY <1>2 DEF Idle, Fields
<1>4. Call(t, Inodes, r, "scan") /\ inodes' = inodes
  BY <1>1, <1>2 DEF minifile_walk, memory
<1> QED
  BY <1>3, <1>4, CallNames

(* A read or write that has nothing to do.                                 *)
LEMMA SoonNames ==
  ASSUME IInv, NamesInv, NEW t \in Users, Call(t, Area(t), Idle, "return"), inodes' = inodes
  PROVE  NamesInv'
<1>1. DOMAIN Idle = Fields
  BY DEF Idle, Fields
<1> QED
  BY <1>1, CallNames

(* A read or write that has.                                               *)
LEMMA FileNames ==
  ASSUME IInv, NamesInv, NEW t \in Users, NEW op \in {"read", "write"}, NEW x, NEW p, NEW len,
         Call(t, Area(t), [Idle EXCEPT !.op = op, !.target = x, !.cur = p \div BLOCK,
                              !.offset = p % BLOCK, !.left = len, !.end = p + len], op),
         inodes' = inodes
  PROVE  NamesInv'
<1>1. PICK r : r = [Idle EXCEPT !.op = op, !.target = x, !.cur = p \div BLOCK, !.offset = p % BLOCK,
                                !.left = len, !.end = p + len]
  OBVIOUS
<1>2. DOMAIN r = Fields /\ r.op = op
  BY <1>1 DEF Idle, Fields
<1>3. Call(t, Area(t), r, op)
  BY <1>1
<1> QED
  BY <1>2, <1>3, CallNames

(* minifile_read.                                                          *)
LEMMA ReadCallNames ==
  ASSUME IInv, NamesInv, NEW t \in Users, minifile_read(t)
  PROVE  NamesInv'
<1> DEFINE f == file[t]
           there == inodes[f.inode].bytes - f.position
           amount(len) == IF len > there THEN there ELSE len
<1>1. PICK len \in Lengths :
        Call(t, Area(t),
             IF there <= 0 THEN Idle
             ELSE [Idle EXCEPT !.op = "read", !.target = f.inode,
                     !.cur = f.position \div BLOCK, !.offset = f.position % BLOCK,
                     !.left = amount(len), !.end = f.position + amount(len)],
             IF there <= 0 THEN "return" ELSE "read")
  BY DEF minifile_read
<1>2. inodes' = inodes
  BY DEF minifile_read, memory
<1>3. CASE there <= 0
  BY <1>1, <1>2, <1>3, SoonNames
<1>4. CASE ~(there <= 0)
  <2>1. PICK p, m, x : p = f.position /\ m = amount(len) /\ x = f.inode
    OBVIOUS
  <2>2. Call(t, Area(t), [Idle EXCEPT !.op = "read", !.target = x, !.cur = p \div BLOCK,
                              !.offset = p % BLOCK, !.left = m, !.end = p + m], "read")
    BY <1>1, <1>4, <2>1
  <2> QED
    BY <1>2, <2>2, FileNames
<1> QED
  BY <1>3, <1>4

(* minifile_write.                                                         *)
LEMMA WriteCallNames ==
  ASSUME IInv, NamesInv, NEW t \in Users, minifile_write(t)
  PROVE  NamesInv'
<1> DEFINE f == file[t]
<1>1. PICK len \in Lengths :
        Call(t, Area(t),
             IF f.type = "READ" THEN Idle
             ELSE [Idle EXCEPT !.op = "write", !.target = f.inode,
                     !.cur = f.position \div BLOCK, !.offset = f.position % BLOCK,
                     !.left = len, !.end = f.position + len],
             IF f.type = "READ" THEN "return" ELSE "write")
  BY DEF minifile_write
<1>2. inodes' = inodes
  BY DEF minifile_write, memory
<1>3. CASE f.type = "READ"
  BY <1>1, <1>2, <1>3, SoonNames
<1>4. CASE f.type # "READ"
  <2>1. PICK p, x : p = f.position /\ x = f.inode
    OBVIOUS
  <2>2. Call(t, Area(t), [Idle EXCEPT !.op = "write", !.target = x, !.cur = p \div BLOCK,
                              !.offset = p % BLOCK, !.left = len, !.end = p + len], "write")
    BY <1>1, <1>4, <2>1
  <2> QED
    BY <1>2, <2>2, FileNames
<1> QED
  BY <1>3, <1>4

(* minifile_close: a reference less.                                       *)
LEMMA CloseNames ==
  ASSUME IInv, NamesInv, NEW t \in Users, minifile_close(t)
  PROVE  NamesInv'
<1>1. PICK x : x = file[t].inode
  OBVIOUS
<1>2. PICK pc : pc = IF inodes'[x].references = 0 /\ ~inodes[x].free THEN "free" ELSE "return"
  OBVIOUS
<1>3. PICK r : r = [Idle EXCEPT !.op = "close", !.inode = x]
  OBVIOUS
<1>4. Call(t, Area(t), r, pc) /\ file[t] # NoFile
      /\ inodes' = IF inodes[x].free THEN inodes ELSE [inodes EXCEPT ![x].references = @ - 1]
  BY <1>1, <1>2, <1>3 DEF minifile_close
<1>5. x \in Inodes /\ TableOK(inodes)
  <2>1. boot = "ready"
    BY <1>4 DEF Call, Ready
  <2> QED
    BY <1>1, <1>4, <2>1, AreaIs DEF IInv, Shape
<1>6. \A y \in Inodes : SameNode(y)
  BY <1>4, <1>5 DEF TableOK, InodeOK, InodeFields, SameNode
<1>7. DOMAIN r = Fields /\ pc \in {"free", "return"}
  BY <1>2, <1>3 DEF Idle, Fields
<1> QED
  BY <1>4, <1>6, <1>7, CallNames

(* A call starts.                                                          *)
LEMMA CallsNames ==
  ASSUME IInv, NamesInv, NEW t \in Users, Calls(t)
  PROVE  NamesInv'
<1>1. CASE minifile_creat(t) \/ minifile_open(t) \/ minifile_unlink(t) \/ minifile_mkdir(t) \/ minifile_rmdir(t)
  <2>1. PICK op, mode : OnName(t, op, mode)
    BY <1>1 DEF minifile_creat, minifile_open, minifile_unlink, minifile_mkdir, minifile_rmdir
  <2> QED
    BY <2>1, OnNameNames
<1>2. CASE minifile_cd(t) \/ minifile_ls(t) \/ minifile_stat(t)
  BY <1>2, WalkNames DEF minifile_cd, minifile_ls, minifile_stat
<1> QED
  BY <1>1, <1>2, ReadCallNames, WriteCallNames, CloseNames DEF Calls
-----------------------------------------------------------------------------
(* The name that was read is another one: one name more is known.          *)
LEMMA OtherNames ==
  ASSUME IInv, NamesInv, boot = "ready", SameLists, NEW t \in Users, NEW r, r = th[t],
         Waits(r, "entry"), entries[r.on][r.i].name # Head(r.path),
         Goto(t, [r EXCEPT !.i = @ + 1], "scan")
  PROVE  NamesInv'
<1>1. PICK s : s = [[r EXCEPT !.i = @ + 1] EXCEPT !.pc = "scan"]
  OBVIOUS
<1>2. th' = [th EXCEPT ![t] = s]
  BY <1>1 DEF Goto
<1>3. DOMAIN r = Fields /\ Legal(r) /\ r.pc = "wait" /\ r.then = "entry" /\ r.i \in Nat
  BY Here DEF Fits, Waits, Legal
<1>4. s.pc = "scan" /\ s.op = r.op /\ s.on = r.on /\ s.i = r.i + 1 /\ s.path = r.path
  BY <1>1, <1>3 DEF Fields
<1>5. ~Removing(r) /\ ~Creating(r) /\ ~Removing(s) /\ ~Creating(s)
  BY <1>3, <1>4 DEF Removing, Creating, Writing, Waits
<1>6. NewName(r) = Head(r.path) /\ NewName(s)' = Head(r.path)
  BY <1>3, <1>4, <1>5 DEF NewName
<1>7. ASSUME Seeks(s), NEW k \in Slots, Has(inodes, r.on, k), k < r.i + 1
      PROVE  Name(r.on, k) # Head(r.path)
  <2>1. k \in Int
    BY Sizes
  <2>2. CASE k = r.i
    BY <2>2 DEF Name
  <2>3. CASE k < r.i
    <3>1. Seeks(r) /\ IsNew(r)
      BY <1>3, <1>4, <1>7 DEF Seeks, Waits, NamesInv, Knows
    <3> QED
      BY <1>6, <1>7, <2>3, <3>1 DEF IsNew
  <2> QED
    BY <1>3, <1>7, <2>1, <2>2, <2>3
<1>8. Seeks(s) => IsNew(s)'
  BY <1>4, <1>6, <1>7 DEF IsNew, Has, Filled, Name, SameLists, Seeks
<1>9. Knows(s)'
  BY <1>4, <1>5, <1>8 DEF Knows
<1>10. /\ \A x \in Directories(inodes) : Left(x)
       /\ \A x \in Directories(inodes') : x \in Directories(inodes) \/ Filled(inodes', x) = 0
  BY DEF SameLists, Left, Directories
<1> QED
  BY <1>2, <1>5, <1>9, <1>10, NamesStill DEF SameLists

(* It is the one that was looked for.                                      *)
LEMMA RemovesBlind ==
  ASSUME NEW t, NEW r, DOMAIN r = Fields, Removes(t, r)
  PROVE  \E s : th' = [th EXCEPT ![t] = s] /\ Blind(s)
<1>1. CASE AfterUnlink(t, r)
  BY <1>1, AfterUnlinkBlind
<1>2. CASE Return(t)
  BY <1>2, ReturnBlind
<1>3. CASE Goto(t, [r EXCEPT !.i = @ + 1], "shift")
  <2>1. PICK q : q = [r EXCEPT !.i = @ + 1]
    OBVIOUS
  <2>2. DOMAIN q = Fields /\ Goto(t, q, "shift")
    BY <1>3, <2>1 DEF Fields
  <2> QED
    BY <2>2, BlindIs
<1> QED
  BY <1>1, <1>2, <1>3 DEF Removes

(* minifile_open has found the name.                                       *)
LEMMA OpensNames ==
  ASSUME IInv, NamesInv, boot = "ready", UNCHANGED <<entries, boot>>, NEW t \in Users,
         Waits(th[t], "entry"), NEW x, x = entries[th[t].on][th[t].i].inode, Refers(x), Return(t)
  PROVE  NamesInv'
<1>1. Fits(t, th[t]) /\ Legal(th[t]) /\ Works(t, th[t]) /\ th[t].pc = "wait" /\ th[t].then = "entry"
  BY Here DEF Fits, Waits
<1>2. x \in Inodes
  BY <1>1, EntryThere DEF Legal, Works, Waits
<1>3. TableOK(inodes)
  BY DEF IInv, Shape
<1>4. \A y \in Inodes : SameNode(y)
  <2>1. InodeOK(inodes[x])
    BY <1>2, <1>3 DEF TableOK
  <2>2. inodes[x].references + 1 \in Int
    <3>1. inodes[x].references \in Int
      BY <2>1, InodeIs
    <3>2. \A i \in Int : i + 1 \in Int
      OBVIOUS
    <3> QED
      BY <3>1, <3>2
  <2>3. PICK v \in Int : v = inodes[x].references + 1
    BY <2>2
  <2>4. inodes' = [inodes EXCEPT ![x].references = v]
    BY <2>3 DEF Refers
  <2>5. /\ TableOK(inodes)' /\ inodes'[x].references = v /\ inodes'[x].size = inodes[x].size
        /\ \A y \in Inodes : SameNode(y) /\ inodes'[y].direct = inodes[y].direct
        /\ \A y \in Inodes \ {x} : inodes'[y].references = inodes[y].references
    BY <1>2, <1>3, <2>4, ReferencesSet
  <2> QED
    BY <2>5
<1>5. ~Removing(th[t])
  BY <1>1 DEF Removing, Writing, Waits
<1>6. \E s : th' = [th EXCEPT ![t] = s] /\ Blind(s)
  BY ReturnBlind
<1> QED
  BY <1>4, <1>5, <1>6, TableBlind

(* An entry was read: creat and mkdir know one name more.                  *)
LEMMA EntryNames ==
  ASSUME IInv, NamesInv, boot = "ready", UNCHANGED <<entries, boot>>, NEW t \in Users,
         Waits(th[t], "entry"), Entry(t, th[t])
  PROVE  NamesInv'
<1>1. PICK r, e : r = th[t] /\ e = entries[r.on][r.i]
  OBVIOUS
<1>2. PICK f : f = [r EXCEPT !.inode = e.inode]
  OBVIOUS
<1>3. DOMAIN r = Fields /\ Legal(r) /\ r.pc = "wait" /\ r.then = "entry"
  BY <1>1, Here DEF Fits, Waits
<1>4. /\ DOMAIN f = Fields /\ f.inode = e.inode /\ f.op = r.op /\ f.i = r.i /\ f.mode = r.mode
  BY <1>2, <1>3 DEF Fields
<1>5. ~Removing(th[t])
  BY <1>1, <1>3 DEF Removing, Writing, Waits
<1>6. CASE e.name # Head(r.path)
  <2>1. Goto(t, [r EXCEPT !.i = @ + 1], "scan") /\ inodes' = inodes
    BY <1>1, <1>6 DEF Entry
  <2>2. SameLists /\ Waits(r, "entry")
    BY <1>1, <2>1 DEF SameLists
  <2> QED
    BY <1>1, <1>6, <2>1, <2>2, OtherNames
<1>7. CASE e.name = Head(r.path) /\ r.op = "open"
  <2>1. Opens(t, f)
    BY <1>1, <1>2, <1>7 DEF Entry, Walks
  <2>2. CASE f.mode = "w"
    <3>1. PICK q : q = [f EXCEPT !.op = "unlink", !.i = 0]
      OBVIOUS
    <3>2. DOMAIN q = Fields /\ q.i = 0 /\ Goto(t, q, "scan") /\ inodes' = inodes
      BY <1>4, <2>1, <2>2, <3>1 DEF Opens, Fields
    <3>3. \E s : th' = [th EXCEPT ![t] = s] /\ Blind(s)
      BY <3>2, BlindIs
    <3>4. SameLists
      BY <3>2 DEF SameLists
    <3> QED
      BY <1>5, <3>3, <3>4, CalmBlind
  <2>3. CASE f.mode # "w"
    <3>1. Refers(e.inode) /\ Return(t)
      BY <1>4, <2>1, <2>3 DEF Opens
    <3> QED
      BY <1>1, <3>1, OpensNames
  <2> QED
    BY <2>2, <2>3
<1>8. CASE e.name = Head(r.path) /\ r.op # "open"
  <2>1. inodes' = inodes
    BY <1>1, <1>8 DEF Entry, Walks
  <2>2. SameLists
    BY <2>1 DEF SameLists
  <2>3. \E s : th' = [th EXCEPT ![t] = s] /\ Blind(s)
    <3>1. CASE r.op \in {"unlink", "rmdir"}
      <4>1. Removes(t, f)
        BY <1>1, <1>2, <1>8, <3>1 DEF Entry, Walks
      <4> QED
        BY <1>4, <4>1, RemovesBlind
    <3>2. CASE r.op \in Walks
      <4>1. PICK q : q = [r EXCEPT !.on = e.inode, !.path = Tail(@), !.i = 0, !.found = TRUE]
        OBVIOUS
      <4>2. DOMAIN q = Fields /\ q.i = 0 /\ Goto(t, q, "scan")
        BY <1>1, <1>3, <1>8, <3>2, <4>1 DEF Entry, Walks, Fields
      <4> QED
        BY <4>2, BlindIs
    <3>3. CASE r.op \notin {"unlink", "rmdir"} /\ r.op \notin Walks
      <4>1. Return(t)
        BY <1>1, <1>8, <3>3 DEF Entry, Walks
      <4> QED
        BY <4>1, ReturnBlind
    <3> QED
      BY <3>1, <3>2, <3>3
  <2> QED
    BY <1>5, <2>2, <2>3, CalmBlind
<1> QED
  BY <1>6, <1>7, <1>8

(* The entry behind the hole was read: the call knows what it moves.       *)
LEMMA MoveEntryNames ==
  ASSUME IInv, NamesInv, boot = "ready", SameLists, NEW t \in Users, Waits(th[t], "shift"),
         BeginWrite(t, [th[t] EXCEPT !.entry = entries[th[t].on][th[t].i]],
                    th[t].on, (th[t].i - 1) * ENTRY, ENTRY)
  PROVE  NamesInv'
<1>1. PICK r, e : r = th[t] /\ e = entries[r.on][r.i]
  OBVIOUS
<1>2. PICK p : p = (r.i - 1) * ENTRY
  OBVIOUS
<1>3. PICK s : s = [[[r EXCEPT !.entry = e] EXCEPT !.target = r.on, !.cur = p \div BLOCK,
                       !.offset = p % BLOCK, !.left = ENTRY, !.end = p + ENTRY] EXCEPT !.pc = "write"]
  OBVIOUS
<1>4. th' = [th EXCEPT ![t] = s]
  BY <1>1, <1>2, <1>3 DEF BeginWrite, Goto
<1>5. DOMAIN r = Fields /\ Legal(r) /\ r.pc = "wait" /\ r.then = "shift"
  BY <1>1, Here DEF Fits, Waits
<1>6. s.pc = "write" /\ s.op = r.op /\ s.on = r.on /\ s.i = r.i /\ s.entry = e
  BY <1>3, <1>5 DEF Fields
<1>7. r.op \in {"unlink", "rmdir"}
  BY <1>5 DEF Legal, Waits
<1>8. Removing(s) /\ Hole(s) = Hole(r) /\ ~Creating(s) /\ ~Seeks(s)
  BY <1>5, <1>6, <1>7 DEF Removing, Writing, Hole, Creating, Seeks, Waits
<1>9. s.entry.name = Name(s.on, s.i)'
  BY <1>1, <1>6 DEF Name, SameLists
<1>10. Knows(s)'
  BY <1>6, <1>8, <1>9 DEF Knows
<1>11. /\ \A x \in Directories(inodes) : Left(x)
       /\ \A x \in Directories(inodes') : x \in Directories(inodes) \/ Filled(inodes', x) = 0
  BY DEF SameLists, Left, Directories
<1> QED
  BY <1>1, <1>4, <1>6, <1>8, <1>10, <1>11, NamesStill DEF SameLists

(* The other blocks that a thread waits for.                               *)
LEMMA CopiesNames ==
  ASSUME IInv, NamesInv, boot = "ready", SameLists, NEW t \in Users,
         \/ Waits(th[t], "data") /\ Copies(t, th[t])
         \/ Waits(th[t], "list") /\ Goto(t, [th[t] EXCEPT !.i = @ + 1], "scan")
  PROVE  NamesInv'
<1>1. PICK r : r = th[t]
  OBVIOUS
<1>2. DOMAIN r = Fields /\ Legal(r)
  BY <1>1, Here DEF Fits
<1>3. ~Removing(th[t])
  BY DEF Removing, Writing, Waits
<1>4. CASE Waits(r, "list")
  <2>1. PICK q : q = [r EXCEPT !.i = @ + 1]
    OBVIOUS
  <2>2. DOMAIN q = Fields /\ q.op = r.op
    BY <1>2, <2>1 DEF Fields
  <2>3. Goto(t, q, "scan")
    BY <1>1, <1>4, <2>1 DEF Waits
  <2>4. q.op \notin {"creat", "mkdir"}
    BY <1>2, <1>4, <2>2 DEF Legal, Walks
  <2> QED
    BY <1>3, <2>2, <2>3, <2>4, BlindIs, CalmBlind
<1>5. CASE Copies(t, r)
  <2>1. CASE Return(t)
    BY <1>3, <2>1, ReturnBlind, CalmBlind
  <2>2. CASE ~Return(t)
    <3>1. PICK q : q = [r EXCEPT !.left = @ - (BLOCK - r.offset), !.offset = 0, !.cur = @ + 1]
      OBVIOUS
    <3>2. DOMAIN q = Fields
      BY <1>2, <3>1 DEF Fields
    <3>3. Goto(t, q, "read")
      BY <1>5, <2>2, <3>1 DEF Copies
    <3> QED
      BY <1>3, <3>2, <3>3, BlindIs, CalmBlind
  <2> QED
    BY <2>1, <2>2
<1> QED
  BY <1>1, <1>4, <1>5
-----------------------------------------------------------------------------
(* The directory that a call on names works on is in nobody else's hands.  *)
LEMMA OwnPlace ==
  ASSUME IInv, boot = "ready", NEW t \in Users, th[t].op \in NameOps, NEW d, d = th[t].on
  PROVE  /\ d \in Directories(inodes) /\ d \in Inodes
         /\ Filled(inodes, d) \in 0 .. NumSlots /\ inodes[d].bytes = Filled(inodes, d) * ENTRY
         /\ \A u \in Users \ {t} : th[u].op \in NameOps => th[u].on # d
<1>1. d \in Directories(inodes)
  <2>1. d = cwd[t]
    BY Here DEF Fits, Works
  <2> QED
    BY <2>1, Here
<1>2. Rooted(inodes)
  BY DEF IInv, TreeInv
<1> QED
  BY <1>1, <1>2, FilledIs, OneRemover DEF Directories

(* So its names are different, but for its own hole.                       *)
LEMMA OwnNames ==
  ASSUME IInv, NamesInv, boot = "ready", NEW t \in Users, th[t].op \in NameOps, NEW d, d = th[t].on,
         NEW i \in Slots, NEW j \in Slots, i # j, Namesakes(inodes, d, i, j)
  PROVE  Removing(th[t]) /\ Hole(th[t]) \in {i, j}
<1>1. d \in Directories(inodes)
  BY OwnPlace
<1>2. PICK u \in Users : Removing(th[u]) /\ th[u].on = d /\ Hole(th[u]) \in {i, j}
  BY <1>1 DEF NamesInv, NamesUp, InHole
<1>3. u = t
  BY <1>2, OneRemover DEF Removing, NameOps
<1> QED
  BY <1>2, <1>3

(* allocate_inode: the new inode lists nothing, the name is in its entry.  *)
LEMMA AllocateNames ==
  ASSUME IInv, NamesInv, NEW t \in Users, Allocate(t)
  PROVE  NamesInv'
<1>0. boot = "ready" /\ th[t].pc = "allocate" /\ UNCHANGED <<entries, boot>>
  BY DEF Allocate, At, Ready, rest
<1>1. CASE {y \in Inodes \ {0} : inodes[y].free} = {}
  <2>1. UNCHANGED th /\ SameLists
    BY <1>0, <1>1 DEF Allocate, memory, Fault, SameLists
  <2> QED
    BY <1>0, <2>1, CalmEnd
<1>2. CASE {y \in Inodes \ {0} : inodes[y].free} # {}
  <2>1. PICK r, b : r = th[t] /\ b = allocate_block
    OBVIOUS
  <2>2. PICK x : x = Least({y \in Inodes \ {0} : inodes[y].free})
    OBVIOUS
  <2>3. PICK type : type = IF r.op = "mkdir" THEN "DIRECTORY" ELSE "REGULARFILE"
    OBVIOUS
  <2>4. PICK n : n = Fresh(type, r.on, b)
    OBVIOUS
  <2>5. PICK s : s = [[r EXCEPT !.inode = x, !.entry = [name |-> Head(r.path), inode |-> x]]
                       EXCEPT !.pc = "made"]
    OBVIOUS
  <2>6. th' = [th EXCEPT ![t] = s] /\ inodes' = [inodes EXCEPT ![x] = n]
    BY <1>0, <1>2, <2>1, <2>2, <2>3, <2>4, <2>5 DEF Allocate, Goto, Fresh
  <2>7. x \in Inodes /\ inodes[x].free
    <3>1. {y \in Inodes \ {0} : inodes[y].free} \in SUBSET Nat
      BY MiniFileAssumption DEF Inodes
    <3>2. x \in {y \in Inodes \ {0} : inodes[y].free}
      BY <1>2, <2>2, <3>1, LeastIn
    <3> QED
      BY <3>2
  <2>8. DOMAIN r = Fields /\ r.op \in {"creat", "mkdir"} /\ r.op \in NameOps
    BY <1>0, <2>1, Here DEF Fits, Legal, NameOps
  <2>9. TableOK(inodes)
    BY <1>0 DEF IInv, Shape
  <2>10. n.bytes = 0
    BY <2>4 DEF Fresh, Inode
  <2>11. inodes'[x].bytes = 0 /\ \A y \in Inodes \ {x} : inodes'[y] = inodes[y]
    BY <2>6, <2>7, <2>9, <2>10 DEF TableOK
  <2>12. /\ \A y \in Directories(inodes) : Left(y)
         /\ \A y \in Directories(inodes') : y \in Directories(inodes) \/ Filled(inodes', y) = 0
    <3>1. ASSUME NEW y \in Directories(inodes) PROVE Left(y)
      <4>1. y # x /\ y \in Inodes
        BY <2>7, <3>1 DEF Directories
      <4> QED
        BY <1>0, <2>11, <4>1 DEF Left
    <3>2. ASSUME NEW y \in Directories(inodes'), y # x PROVE y \in Directories(inodes)
      BY <2>11, <3>2 DEF Directories
    <3>3. Filled(inodes', x) = 0
      <4>1. 0 \div ENTRY = 0
        BY Sizes
      <4> QED
        BY <2>11, <4>1 DEF Filled
    <3> QED
      BY <3>1, <3>2, <3>3
  <2>13. s.pc = "made" /\ s.op = r.op /\ s.on = r.on /\ s.i = r.i /\ s.entry.name = Head(r.path)
    BY <2>5, <2>8 DEF Fields
  <2>14. Creating(s) /\ ~Seeks(s) /\ ~Removing(s) /\ ~Creating(r) /\ ~Removing(r) /\ ~Seeks(r)
    BY <1>0, <2>1, <2>8, <2>13 DEF Creating, Seeks, Removing, Writing, Waits
  <2>15. IsNew(r) /\ NewName(r) = Head(r.path) /\ NewName(s)' = Head(r.path)
    BY <1>0, <2>1, <2>13, <2>14 DEF NamesInv, Knows, NewName
  <2>16. Left(r.on)
    BY <1>0, <2>1, <2>8, <2>12, OwnPlace
  <2>17. IsNew(s)'
    BY <2>13, <2>14, <2>15, <2>16 DEF IsNew, Left, Has, Filled, Name
  <2>18. Knows(s)'
    BY <2>14, <2>17 DEF Knows
  <2> QED
    BY <1>0, <2>1, <2>6, <2>12, <2>14, <2>18, NamesStill
<1> QED
  BY <1>1, <1>2

(* The inode is on the disk, the entry is about to be written.             *)
LEMMA MadeNames ==
  ASSUME IInv, NamesInv, NEW t \in Users, Made(t)
  PROVE  NamesInv'
<1>1. PICK r : r = th[t]
  OBVIOUS
<1>2. boot = "ready" /\ r.pc = "made" /\ SameLists
  BY <1>1 DEF Made, At, Ready, memory, rest, SameLists
<1>3. PICK p : p = inodes[r.on].bytes
  OBVIOUS
<1>4. PICK s : s = Begun(r, r.on, p, ENTRY)
  OBVIOUS
<1>5. th' = [th EXCEPT ![t] = s]
  BY <1>1, <1>3, <1>4 DEF Made, BeginWrite, Goto, Begun
<1>6. DOMAIN r = Fields /\ r.op \in {"creat", "mkdir"}
  BY <1>1, <1>2, Here DEF Fits, Legal
<1>7. s.pc = "write" /\ s.op = r.op /\ s.on = r.on /\ s.i = r.i /\ s.path = r.path /\ s.entry = r.entry
  BY <1>4, <1>6 DEF Begun, Fields
<1>8. AsBefore(r, s)
  BY <1>2, <1>6, <1>7 DEF AsBefore, Seeks, Creating, Removing, Writing, Waits
<1> QED
  BY <1>1, <1>2, <1>5, <1>8, CalmCarried

(* A block is added to a file, or asked for.                               *)
LEMMA WriteNames ==
  ASSUME IInv, NamesInv, NEW t \in Users, Write(t)
  PROVE  NamesInv'
<1>1. PICK r : r = th[t]
  OBVIOUS
<1>2. PICK x, k : x = r.target /\ k = r.cur
  OBVIOUS
<1>3. boot = "ready" /\ r.pc = "write" /\ UNCHANGED <<entries, boot>>
  BY <1>1 DEF Write, At, Ready, rest
<1>4. CASE ~NeedsBlock(x, k)
  <2>1. SameLists /\ get_data_block(t, r, inodes[x].direct[k], "put")
    BY <1>1, <1>2, <1>3, <1>4 DEF Write, memory, SameLists
  <2> QED
    BY <1>1, <1>3, <2>1, AsksNames
<1>5. CASE NeedsBlock(x, k)
  <2>1. PICK b : b = allocate_block
    OBVIOUS
  <2>2. PICK s : s = [r EXCEPT !.pc = "put"]
    OBVIOUS
  <2>3. th' = [th EXCEPT ![t] = s]
    BY <1>1, <1>2, <1>5, <2>2 DEF Write, Goto
  <2>4. inodes' = [inodes EXCEPT ![x].direct[k] = b, ![x].size = @ + 1]
    BY <1>1, <1>2, <1>5, <2>1 DEF Write
  <2>5. DOMAIN r = Fields /\ x \in Inodes
    BY <1>1, <1>2, <1>3, Here DEF Fits, Legal
  <2>6. TableOK(inodes)
    BY <1>3 DEF IInv, Shape
  <2>7. \A y \in Inodes : SameNode(y)
    BY <2>4, <2>5, <2>6 DEF TableOK, InodeOK, InodeFields, SameNode
  <2>8. /\ \A y \in Directories(inodes) : Left(y)
        /\ \A y \in Directories(inodes') : y \in Directories(inodes) \/ Filled(inodes', y) = 0
    BY <1>3, <2>7 DEF SameNode, Left, Directories
  <2>9. s.pc = "put" /\ s.op = r.op /\ s.on = r.on /\ s.i = r.i /\ s.path = r.path /\ s.entry = r.entry
    BY <2>2, <2>5 DEF Fields
  <2>10. AsBefore(r, s)
    BY <1>3, <2>9 DEF AsBefore, Seeks, Creating, Removing, Writing, Waits
  <2> QED
    BY <1>1, <1>3, <2>3, <2>8, <2>10, NamesCarried
<1> QED
  BY <1>4, <1>5
-----------------------------------------------------------------------------
(* The entry of the new inode is behind the last one, and its name is new. *)
LEMMA PutNewNames ==
  ASSUME IInv, NamesInv, boot = "ready", UNCHANGED <<inodes, boot>>, NEW t \in Users,
         NEW r, NEW s, PutAt(t, r, s), r.op \in {"creat", "mkdir"}
  PROVE  NamesInv'
<1>1. /\ r = th[t] /\ Putting(r) /\ th' = [th EXCEPT ![t] = s]
      /\ s.pc = "update" /\ s.op = r.op /\ s.on = r.on /\ s.i = r.i /\ s.entry = r.entry
      /\ entries' = [entries EXCEPT ![r.on][r.offset \div ENTRY] = r.entry]
  BY DEF PutAt
<1>2. Shape
  BY DEF IInv
<1>3. Fits(t, r) /\ Legal(r) /\ Works(t, r) /\ MakesOne(r)
  BY <1>1, Here DEF Fits
<1>4. Writing(r) /\ r.pc # "update" /\ ~Seeks(r)
  BY <1>1 DEF Putting, Writing, Waits, Seeks
<1>5. Creating(r) /\ ~Removing(r) /\ r.op \in NameOps
  BY <1>4 DEF Creating, Removing, NameOps
<1>6. Creating(s) /\ ~Removing(s) /\ ~Seeks(s)
  BY <1>1 DEF Creating, Writing, Removing, Seeks, Waits
<1>7. PICK d, f : d = r.on /\ f = Filled(inodes, d)
  OBVIOUS
<1>8. /\ d \in Directories(inodes) /\ d \in Inodes
      /\ Filled(inodes, d) \in 0 .. NumSlots /\ inodes[d].bytes = Filled(inodes, d) * ENTRY
      /\ \A u \in Users \ {t} : th[u].op \in NameOps => th[u].on # d
  BY <1>1, <1>5, <1>7, OwnPlace
<1>9. f \in Slots /\ r.offset \div ENTRY = f /\ r.entry.inode \in Inodes
  <2>1. f < NumSlots
    BY <1>3, <1>7 DEF Works
  <2>2. f \in Slots
    BY <1>7, <1>8, <2>1, Sizes
  <2> QED
    BY <1>3, <1>4, <1>5, <1>7, <2>2 DEF MakesOne, Legal
<1>10. EntryAt(d, f, r.entry)
  <2>1. entries' = [entries EXCEPT ![d][f] = r.entry]
    BY <1>1, <1>7, <1>9
  <2> QED
    BY <1>2, <1>8, <1>9, <2>1, EntrySet
<1>11. ASSUME NEW k \in Slots, Has(inodes, d, k)' PROVE Has(inodes, d, k) /\ Name(d, k)' = Name(d, k)
  <2>1. Has(inodes, d, k)
    BY <1>11 DEF Has, Filled
  <2>2. k # f
    BY <1>7, <1>9, <2>1, Sizes DEF Has
  <2> QED
    BY <1>10, <2>1, <2>2 DEF EntryAt, Name
<1>12. NamedIn(d)'
  <2>1. SUFFICES ASSUME NEW i \in Slots, NEW j \in Slots, Namesakes(inodes, d, i, j)', i # j
                 PROVE  FALSE
    BY DEF NamedIn
  <2>2. Namesakes(inodes, d, i, j)
    BY <1>11, <2>1 DEF Namesakes
  <2>3. Removing(th[t]) /\ Hole(th[t]) \in {i, j}
    BY <1>1, <1>5, <1>7, <2>1, <2>2, OwnNames
  <2> QED
    BY <1>1, <1>5, <2>3
<1>13. IsNew(s)'
  <2>1. IsNew(r) /\ NewName(r) = r.entry.name
    BY <1>1, <1>4, <1>5 DEF NamesInv, Knows, NewName
  <2>2. NewName(s)' = r.entry.name
    <3>1. NewName(s)' = Name(d, f)'
      BY <1>1, <1>7 DEF NewName, Filled, Name
    <3> QED
      BY <1>10, <3>1 DEF EntryAt, Name
  <2> QED
    BY <1>1, <1>4, <1>6, <1>7, <1>11, <2>1, <2>2 DEF IsNew
<1>14. Knows(s)'
  BY <1>6, <1>13 DEF Knows
<1>15. \A x \in Directories(inodes) \ {d} : Left(x)
  BY <1>10 DEF EntryAt, Left, Directories
<1>16. \A x \in Directories(inodes') \ {d} : x \in Directories(inodes) \/ Filled(inodes', x) = 0
  BY DEF Directories
<1> QED
  BY <1>1, <1>5, <1>8, <1>12, <1>14, <1>15, <1>16, NamesAround

(* The next entry is copied into the hole, which moves up.                 *)
LEMMA PutMovedNames ==
  ASSUME IInv, NamesInv, boot = "ready", UNCHANGED <<inodes, boot>>, NEW t \in Users,
         NEW r, NEW s, PutAt(t, r, s), r.op \in {"unlink", "rmdir"}
  PROVE  NamesInv'
<1>1. /\ r = th[t] /\ Putting(r) /\ th' = [th EXCEPT ![t] = s]
      /\ s.pc = "update" /\ s.op = r.op /\ s.on = r.on /\ s.i = r.i /\ s.entry = r.entry
      /\ entries' = [entries EXCEPT ![r.on][r.offset \div ENTRY] = r.entry]
  BY DEF PutAt
<1>2. Shape
  BY DEF IInv
<1>3. Fits(t, r) /\ Legal(r) /\ Works(t, r) /\ RemovesOne(r)
  BY <1>1, Here DEF Fits
<1>4. Writing(r) /\ r.pc # "update"
  BY <1>1 DEF Putting, Writing, Waits
<1>5. Removing(r) /\ r.op \in NameOps /\ Hole(r) = r.i - 1
  BY <1>4 DEF Removing, NameOps, Hole
<1>6. Writing(s) /\ Removing(s) /\ ~Creating(s) /\ ~Seeks(s) /\ Hole(s) = r.i
  BY <1>1 DEF Creating, Writing, Removing, Seeks, Waits, Hole
<1>7. PICK d, f, i : d = r.on /\ f = Filled(inodes, d) /\ i = r.i
  OBVIOUS
<1>8. /\ d \in Directories(inodes) /\ d \in Inodes
      /\ Filled(inodes, d) \in 0 .. NumSlots /\ inodes[d].bytes = Filled(inodes, d) * ENTRY
      /\ \A u \in Users \ {t} : th[u].op \in NameOps => th[u].on # d
  BY <1>1, <1>5, <1>7, OwnPlace
<1>9. i \in Nat /\ i > 0 /\ i < f /\ r.offset \div ENTRY = i - 1 /\ r.entry.inode \in Inodes
  BY <1>3, <1>4, <1>5, <1>7 DEF RemovesOne, Legal
<1>10. PICK h : h = i - 1
  OBVIOUS
<1>11. i \in Slots /\ h \in Slots /\ i # h /\ Has(inodes, d, i) /\ Has(inodes, d, h)
  BY <1>7, <1>8, <1>9, <1>10, Sizes DEF Has
<1>12. EntryAt(d, h, r.entry)
  <2>1. entries' = [entries EXCEPT ![d][h] = r.entry]
    BY <1>1, <1>7, <1>9, <1>10
  <2> QED
    BY <1>2, <1>8, <1>9, <1>11, <2>1, EntrySet
<1>13. r.entry.name = Name(d, i)
  BY <1>1, <1>4, <1>5, <1>7 DEF NamesInv, Knows
<1>14. Name(d, h)' = Name(d, i) /\ \A k \in Slots \ {h} : Name(d, k)' = Name(d, k)
  BY <1>12, <1>13 DEF EntryAt, Name
<1>15. \A k : Has(inodes, d, k)' <=> Has(inodes, d, k)
  BY DEF Has, Filled
<1>16. ASSUME NEW a \in Slots \ {h}, NEW b \in Slots \ {h}, a # b, Has(inodes, d, a), Has(inodes, d, b)
       PROVE  Name(d, a) # Name(d, b)
  <2>1. SUFFICES ASSUME Name(d, a) = Name(d, b) PROVE FALSE
    OBVIOUS
  <2>2. Namesakes(inodes, d, a, b)
    BY <1>16, <2>1 DEF Namesakes
  <2>3. Removing(th[t]) /\ Hole(th[t]) \in {a, b}
    BY <1>1, <1>5, <1>7, <1>16, <2>2, OwnNames
  <2> QED
    BY <1>1, <1>5, <1>7, <1>10, <1>16, <2>3
<1>17. th'[t] = s
  BY <1>1, Here
<1>18. NamedIn(d)'
  <2>1. SUFFICES ASSUME NEW a \in Slots, NEW b \in Slots, Namesakes(inodes, d, a, b)', a # b
                 PROVE  InHole(d, a, b)'
    BY DEF NamedIn
  <2>2. Has(inodes, d, a) /\ Has(inodes, d, b) /\ Name(d, a)' = Name(d, b)'
    BY <1>15, <2>1 DEF Namesakes
  <2>3. a = i \/ b = i
    <3>1. CASE a # h /\ b # h
      BY <1>14, <1>16, <2>1, <2>2, <3>1
    <3>2. CASE a = h
      BY <1>11, <1>14, <1>16, <2>1, <2>2, <3>2
    <3>3. CASE b = h
      BY <1>11, <1>14, <1>16, <2>1, <2>2, <3>3
    <3> QED
      BY <3>1, <3>2, <3>3
  <2>4. Removing(th'[t]) /\ th'[t].on = d /\ Hole(th'[t]) \in {a, b}
    BY <1>1, <1>6, <1>7, <1>17, <2>3
  <2> QED
    BY <2>4 DEF InHole
<1>19. Knows(s)'
  BY <1>1, <1>6 DEF Knows
<1>20. \A x \in Directories(inodes) \ {d} : Left(x)
  BY <1>12 DEF EntryAt, Left, Directories
<1>21. \A x \in Directories(inodes') \ {d} : x \in Directories(inodes) \/ Filled(inodes', x) = 0
  BY DEF Directories
<1>22. Removing(th[t]) => th[t].on = d \/ (Removing(s) /\ s.on = th[t].on /\ Hole(s) = Hole(th[t]))
  BY <1>1, <1>7
<1>23. \A u \in Users \ {t} : th[u].op \in NameOps => th[u].on # d
  BY <1>8
<1>24. th' = [th EXCEPT ![t] = s]
  BY <1>1
<1> QED
  BY <1>18, <1>19, <1>20, <1>21, <1>22, <1>23, <1>24, NamesAround

(* A block goes to the disk.                                               *)
LEMMA PutNames ==
  ASSUME IInv, NamesInv, boot = "ready", UNCHANGED <<inodes, boot, cwd, file>>, NEW t \in Users,
         Putting(th[t]), PutBlock(t, th[t])
  PROVE  NamesInv'
<1>1. PICK r : r = th[t]
  OBVIOUS
<1>2. Fits(t, r) /\ Legal(r) /\ Works(t, r) /\ DOMAIN r = Fields
  BY <1>1, Here DEF Fits
<1>3. Writing(r) /\ r.pc # "update"
  BY <1>1 DEF Putting, Writing, Waits
<1>4. CASE inodes[r.target].direct[r.cur] < 0
  <2>1. UNCHANGED th /\ SameLists
    BY <1>1, <1>4 DEF PutBlock, Fault, SameLists
  <2> QED
    BY <2>1, CalmEnd
<1>5. CASE ~(inodes[r.target].direct[r.cur] < 0) /\ r.op = "write"
  <2>1. PICK left : left = IF r.left < BLOCK - r.offset THEN 0 ELSE r.left - BLOCK
    OBVIOUS
  <2>2. PICK s : s = PutOn(r, left, IF left > 0 THEN "write" ELSE "update")
    OBVIOUS
  <2>3. th' = [th EXCEPT ![t] = s]
    BY <1>1, <1>5, <2>1, <2>2 DEF PutBlock, Goto, PutOn
  <2>4. inodes[r.target].type = "REGULARFILE"
    BY <1>2, <1>5 DEF Works
  <2>5. SameLists
    BY <1>1, <1>5, <2>4 DEF PutBlock, SameLists
  <2>6. s.op = "write" /\ s.pc \in {"write", "update"}
    BY <1>2, <1>5, <2>2 DEF PutOn, Fields
  <2>7. Blind(s) /\ ~Removing(th[t])
    BY <1>1, <1>5, <2>6 DEF Blind, Seeks, Creating, Removing, Waits
  <2> QED
    BY <2>3, <2>5, <2>7, CalmBlind
<1>6. CASE ~(inodes[r.target].direct[r.cur] < 0) /\ r.op # "write"
  <2>1. ~UNCHANGED th
    <3>1. PICK left : left = IF r.left < BLOCK - r.offset THEN 0 ELSE r.left - BLOCK
      OBVIOUS
    <3>2. PICK pc : pc = IF left > 0 THEN "write" ELSE "update"
      OBVIOUS
    <3>3. PICK s : s = PutOn(r, left, pc)
      OBVIOUS
    <3>4. th' = [th EXCEPT ![t] = s]
      BY <1>1, <1>6, <3>1, <3>2, <3>3 DEF PutBlock, Goto, PutOn
    <3>5. s.pc = pc /\ pc \in {"write", "update"}
      BY <1>2, <3>2, <3>3 DEF PutOn, Fields
    <3>6. th'[t] = s
      BY <3>4, Here
    <3>7. r.pc \in {"put", "wait"}
      BY <1>1 DEF Putting, Waits
    <3> QED
      BY <1>1, <3>5, <3>6, <3>7
  <2>2. PICK q, s : PutAt(t, q, s)
    BY <1>1, <1>6, <2>1, PutSlot
  <2>3. q.op \in {"creat", "mkdir", "unlink", "rmdir"}
    BY <2>2 DEF PutAt
  <2> QED
    BY <2>2, <2>3, PutNewNames, PutMovedNames
<1> QED
  BY <1>4, <1>5, <1>6

(* A block is written that was not read before.                            *)
LEMMA PutStepNames ==
  ASSUME IInv, NamesInv, NEW t \in Users, Put(t)
  PROVE  NamesInv'
BY PutNames DEF Put, At, Ready, Putting, memory, handles, rest

(* A thread gets the semaphore of its block.                               *)
LEMMA WakeNames ==
  ASSUME IInv, NamesInv, NEW t \in Users, Wake(t)
  PROVE  NamesInv'
<1>1. PICK r : r = th[t]
  OBVIOUS
<1>2. boot = "ready" /\ r.pc = "wait" /\ UNCHANGED <<boot, cwd>>
  BY <1>1 DEF Wake, At, Ready, rest
<1>3. Legal(r)
  BY <1>1, <1>2, Here DEF Fits
<1>4. r.then \in {"entry", "shift", "put", "data", "list"}
  BY <1>2, <1>3 DEF Legal
<1>5. CASE r.then = "entry"
  <2>1. Entry(t, r) /\ UNCHANGED entries
    BY <1>1, <1>5 DEF Wake
  <2> QED
    BY <1>1, <1>2, <1>5, <2>1, EntryNames DEF Waits
<1>6. CASE r.then = "shift"
  <2>1. /\ UNCHANGED <<inodes, entries>>
        /\ BeginWrite(t, [r EXCEPT !.entry = entries[r.on][r.i]], r.on, (r.i - 1) * ENTRY, ENTRY)
    BY <1>1, <1>6 DEF Wake
  <2> QED
    BY <1>1, <1>2, <1>6, <2>1, MoveEntryNames DEF Waits, SameLists
<1>7. CASE r.then = "put"
  <2>1. PutBlock(t, r) /\ UNCHANGED <<inodes, file>>
    BY <1>1, <1>7 DEF Wake
  <2> QED
    BY <1>1, <1>2, <1>7, <2>1, PutNames DEF Waits, Putting
<1>8. CASE r.then = "data"
  <2>1. Copies(t, r) /\ UNCHANGED <<inodes, entries>>
    BY <1>1, <1>8 DEF Wake
  <2> QED
    BY <1>1, <1>2, <1>8, <2>1, CopiesNames DEF Waits, SameLists
<1>9. CASE r.then = "list"
  <2>1. Goto(t, [r EXCEPT !.i = @ + 1], "scan") /\ UNCHANGED <<inodes, entries>>
    BY <1>1, <1>9 DEF Wake
  <2> QED
    BY <1>1, <1>2, <1>9, <2>1, CopiesNames DEF Waits, SameLists
<1> QED
  BY <1>4, <1>5, <1>6, <1>7, <1>8, <1>9
-----------------------------------------------------------------------------
(* The inode of a directory is on the disk: the hole is where it was, one  *)
(* entry further on from the next.                                         *)
LEMMA UpdateMovedNames ==
  ASSUME IInv, NamesInv, NEW t \in Users, Update(t), th[t].op \in {"unlink", "rmdir"}
  PROVE  NamesInv'
<1>1. PICK r : r = th[t]
  OBVIOUS
<1>2. PICK x : x = r.target
  OBVIOUS
<1>3. PICK v : v = IF r.end > inodes[x].bytes THEN r.end ELSE inodes[x].bytes
  OBVIOUS
<1>4. PICK s : s = [[r EXCEPT !.i = @ + 1] EXCEPT !.pc = "shift"]
  OBVIOUS
<1>5. /\ boot = "ready" /\ r.pc = "update" /\ th' = [th EXCEPT ![t] = s]
      /\ UNCHANGED <<entries, boot>>
      /\ inodes' = [inodes EXCEPT ![x].bytes = v]
  BY <1>1, <1>2, <1>3, <1>4 DEF Update, At, Ready, Goto, rest
<1>6. Fits(t, r) /\ Legal(r) /\ Works(t, r) /\ RemovesOne(r) /\ DOMAIN r = Fields
  BY <1>1, <1>5, Here DEF Fits
<1>7. /\ Writing(r) /\ Removing(r) /\ r.op \in NameOps /\ Hole(r) = r.i /\ r.i \in Nat
  BY <1>1, <1>5, <1>6 DEF Writing, Removing, NameOps, Hole, Legal
<1>8. PICK f : f = Filled(inodes, x)
  OBVIOUS
<1>9. x = r.on /\ x \in Inodes /\ f \in 0 .. NumSlots /\ inodes[x].bytes = f * ENTRY
  <2>1. x = r.on
    BY <1>2, <1>6, <1>7 DEF Works
  <2>2. /\ x \in Directories(inodes) /\ x \in Inodes
        /\ Filled(inodes, x) \in 0 .. NumSlots /\ inodes[x].bytes = Filled(inodes, x) * ENTRY
        /\ \A u \in Users \ {t} : th[u].op \in NameOps => th[u].on # x
    BY <1>1, <1>5, <1>7, <2>1, OwnPlace
  <2> QED
    BY <1>8, <2>1, <2>2
<1>10. v = inodes[x].bytes
  <2>1. r.i < f /\ r.end = r.i * ENTRY
    BY <1>6, <1>7, <1>8, <1>9 DEF RemovesOne
  <2>2. r.i * ENTRY <= f * ENTRY /\ r.i * ENTRY \in Nat /\ f * ENTRY \in Nat
    <3>1. ENTRY \in Nat
      BY Sizes
    <3>2. PICK k \in Nat : f = r.i + k
      <4>1. f - r.i \in Nat /\ f = r.i + (f - r.i)
        BY <1>7, <1>9, <2>1, Sizes
      <4> QED
        BY <4>1
    <3>3. (r.i + k) * ENTRY = r.i * ENTRY + k * ENTRY /\ r.i * ENTRY \in Nat /\ k * ENTRY \in Nat
      BY <1>7, <3>1
    <3> QED
      BY <3>2, <3>3
  <2> QED
    BY <1>3, <1>9, <2>1, <2>2
<1>11. TableOK(inodes)
  BY <1>5 DEF IInv, Shape
<1>12. \A y \in Inodes : SameNode(y)
  BY <1>5, <1>9, <1>10, <1>11 DEF TableOK, InodeOK, InodeFields, SameNode
<1>13. s.pc = "shift" /\ s.op = r.op /\ s.on = r.on /\ s.i = r.i + 1
  BY <1>4, <1>6 DEF Fields
<1>14. Removing(s) /\ Hole(s) = r.i /\ Blind(s)
  BY <1>1, <1>7, <1>13 DEF Removing, Hole, Blind, Seeks, Creating, Writing, Waits
<1>15. Knows(s)'
  BY <1>14, BlindKnows
<1>16. /\ \A y \in Directories(inodes) : Left(y)
       /\ \A y \in Directories(inodes') : y \in Directories(inodes) \/ Filled(inodes', y) = 0
  BY <1>5, <1>12 DEF SameNode, Left, Directories
<1>17. Removing(th[t]) => Removing(s) /\ s.on = th[t].on /\ Hole(s) = Hole(th[t])
  BY <1>1, <1>7, <1>13, <1>14
<1>18. th' = [th EXCEPT ![t] = s] /\ boot' = boot /\ boot = "ready"
  BY <1>5
<1> QED
  BY <1>15, <1>16, <1>17, <1>18, NamesStill

(* A file that was written is no directory.                                *)
LEMMA UpdateFileNames ==
  ASSUME IInv, NamesInv, NEW t \in Users, Update(t), th[t].op = "write"
  PROVE  NamesInv'
<1>1. PICK r : r = th[t]
  OBVIOUS
<1>2. PICK x : x = r.target
  OBVIOUS
<1>3. PICK v : v = IF r.end > inodes[x].bytes THEN r.end ELSE inodes[x].bytes
  OBVIOUS
<1>4. /\ boot = "ready" /\ th' = [th EXCEPT ![t] = Idle]
      /\ UNCHANGED <<entries, boot>>
      /\ inodes' = BytesSet(inodes, x, v)
  BY <1>1, <1>2, <1>3 DEF Update, At, Ready, Return, rest, BytesSet
<1>5. Fits(t, r) /\ Legal(r) /\ Works(t, r)
  BY <1>1, <1>4, Here DEF Fits
<1>6. inodes[x].type = "REGULARFILE" /\ x \in Inodes
  BY <1>1, <1>2, <1>5 DEF Works, Legal
<1>7. TableOK(inodes)
  BY <1>4 DEF IInv, Shape
<1>8. PICK b : b = inodes'
  OBVIOUS
<1>9. b = BytesSet(inodes, x, v)
  BY <1>4, <1>8
<1>10. /\ TableOK(b) /\ b[x].bytes = v
       /\ \A y \in Inodes : Same(inodes, b, y) /\ b[y].references = inodes[y].references
       /\ \A y \in Inodes \ {x} : b[y].bytes = inodes[y].bytes
  BY <1>6, <1>7, <1>9, TableBytes
<1>11. /\ \A y \in Directories(inodes) : Left(y)
       /\ \A y \in Directories(inodes') : y \in Directories(inodes) \/ Filled(inodes', y) = 0
  BY <1>4, <1>6, <1>8, <1>10 DEF Same, Left, Directories
<1>12. ~Removing(th[t])
  BY DEF Removing
<1> QED
  BY <1>4, <1>11, <1>12, IdleBlind, NamesBlind

(* The entry of the new inode becomes one of the directory.                *)
LEMMA UpdateNewNames ==
  ASSUME IInv, NamesInv, NEW t \in Users, Update(t), th[t].op \in {"creat", "mkdir"}
  PROVE  NamesInv'
<1>1. PICK r : r = th[t]
  OBVIOUS
<1>2. PICK x, z, f : x = r.target /\ z = r.inode /\ f = Filled(inodes, x)
  OBVIOUS
<1>3. boot = "ready" /\ r.pc = "update" /\ th' = [th EXCEPT ![t] = Idle] /\ UNCHANGED <<entries, boot>>
  BY <1>1 DEF Update, At, Ready, Return, rest
<1>4. Creating(r) /\ ~Removing(r) /\ r.op \in NameOps
  BY <1>1, <1>3 DEF Creating, Removing, Writing, NameOps
<1>5. /\ x = r.on /\ x = cwd[t] /\ x \in Directories(inodes) /\ x \in Inodes /\ x \in r.area
      /\ ~inodes[x].free /\ inodes[x].type = "DIRECTORY"
      /\ f \in 0 .. NumSlots - 1 /\ f \in Slots
      /\ inodes[x].bytes = f * ENTRY /\ r.end = (f + 1) * ENTRY /\ r.end > inodes[x].bytes
  BY <1>1, <1>2, <1>3, <1>4, NewLength
<1>6. TableOK(inodes) /\ z \in Inodes
  BY <1>1, <1>2, <1>3, Here DEF IInv, Shape, Fits, Legal
<1>7. NewTable(r, x, z)
  <2>1. PICK a : a = BytesSet(inodes, x, r.end)
    OBVIOUS
  <2>2. inodes' = IF r.op = "creat" THEN ReferencesAre(a, z, 2) ELSE a
    BY <1>1, <1>2, <1>5, <2>1 DEF Update, BytesSet, ReferencesAre
  <2> QED
    BY <1>5, <1>6, <2>1, <2>2, NewTableIs
<1>8. /\ \A y \in Inodes \ {x} : inodes'[y].bytes = inodes[y].bytes
      /\ \A y \in Inodes : inodes'[y].free = inodes[y].free /\ inodes'[y].type = inodes[y].type
      /\ inodes'[x].bytes = (f + 1) * ENTRY
  BY <1>5, <1>7 DEF NewTable, Same
<1>9. \A k : Has(inodes, x, k)' <=> Has(inodes, x, k) \/ k = f
  <2>1. Filled(inodes, x)' = f + 1
    <3>1. f + 1 \in Nat
      BY <1>5, Sizes
    <3>2. PICK m : m = f + 1
      OBVIOUS
    <3>3. (m * ENTRY) \div ENTRY = m
      BY <3>1, <3>2, Multiple
    <3> QED
      BY <1>8, <3>2, <3>3 DEF Filled
  <2>2. \A k \in Slots : k < f + 1 <=> k < f \/ k = f
    BY <1>5, Sizes
  <2> QED
    BY <1>2, <1>5, <2>1, <2>2 DEF Has
<1>10. ASSUME NEW k \in Slots, Has(inodes, x, k) PROVE Name(x, k) # Name(x, f)
  <2>1. IsNew(r) /\ ~Seeks(r)
    BY <1>1, <1>3, <1>4 DEF NamesInv, Knows, Seeks, Waits
  <2>2. NewName(r) = Name(x, f)
    BY <1>2, <1>3, <1>5 DEF NewName
  <2> QED
    BY <1>5, <1>10, <2>1, <2>2 DEF IsNew
<1>11. \A k : Name(x, k)' = Name(x, k)
  BY <1>3 DEF Name
<1>12. NamedIn(x)'
  <2>1. SUFFICES ASSUME NEW i \in Slots, NEW j \in Slots, Namesakes(inodes, x, i, j)', i # j
                 PROVE  FALSE
    BY DEF NamedIn
  <2>2. /\ Has(inodes, x, i) \/ i = f
        /\ Has(inodes, x, j) \/ j = f
        /\ Name(x, i) = Name(x, j)
    BY <1>9, <1>11, <2>1 DEF Namesakes
  <2>3. Has(inodes, x, i) /\ Has(inodes, x, j)
    BY <1>10, <2>1, <2>2
  <2>4. Namesakes(inodes, x, i, j)
    BY <2>2, <2>3 DEF Namesakes
  <2>5. Removing(th[t]) /\ Hole(th[t]) \in {i, j}
    BY <1>1, <1>3, <1>4, <1>5, <2>1, <2>4, OwnNames
  <2> QED
    BY <1>1, <1>4, <2>5
<1>13. /\ \A y \in Directories(inodes) \ {x} : Left(y)
       /\ \A y \in Directories(inodes') \ {x} : y \in Directories(inodes) \/ Filled(inodes', y) = 0
  BY <1>3, <1>8 DEF Left, Directories
<1>14. \A u \in Users \ {t} : th[u].op \in NameOps => th[u].on # x
  BY <1>1, <1>3, <1>4, <1>5, OneRemover
<1>15. Knows(Idle)'
  BY IdleBlind, BlindKnows
<1> QED
  BY <1>1, <1>3, <1>4, <1>12, <1>13, <1>14, <1>15, NamesAround

(* The end of inode_write: the new entry is listed with its new name.      *)
LEMMA UpdateNames ==
  ASSUME IInv, NamesInv, NEW t \in Users, Update(t)
  PROVE  NamesInv'
<1>1. boot = "ready" /\ th[t].pc = "update"
  BY DEF Update, At, Ready
<1>2. th[t].op \in {"creat", "mkdir", "unlink", "rmdir", "write"}
  BY <1>1, Here DEF Fits, Legal, Writing
<1> QED
  BY <1>2, UpdateMovedNames, UpdateFileNames, UpdateNewNames
-----------------------------------------------------------------------------
(* The last entry has moved up, and its slot is cut off.                   *)
LEMMA ShiftEndNames ==
  ASSUME IInv, NamesInv, NEW t \in Users, Shift(t), ~(th[t].i < Entries(th[t].on))
  PROVE  NamesInv'
<1>1. PICK r : r = th[t]
  OBVIOUS
<1>2. PICK x, z, f : x = r.on /\ z = r.inode /\ f = r.i - 1
  OBVIOUS
<1>3. /\ boot = "ready" /\ r.pc = "shift" /\ ~(r.i < Filled(inodes, r.on))
      /\ UNCHANGED <<entries, boot>>
  BY <1>1 DEF Shift, At, Ready, rest, Entries, Filled
<1>4. TableOK(inodes) /\ DOMAIN r = Fields
  BY <1>1, <1>3, Here DEF IInv, Shape
<1>5. /\ Removing(r) /\ r.op \in {"unlink", "rmdir"} /\ r.op \in NameOps
      /\ x = cwd[t] /\ x \in Directories(inodes) /\ x \in Inodes /\ x \in r.area
      /\ f \in 0 .. NumSlots - 1 /\ f \in Slots /\ Filled(inodes, x) = f + 1
      /\ inodes[x].bytes = (f + 1) * ENTRY
      /\ z \in Inodes /\ ~inodes[z].free /\ inodes[z].parent = x
      /\ r.op = "unlink" => inodes[z].type = "REGULARFILE"
      /\ \A k \in Slots : Has(inodes, x, k) /\ k # f => entries[x][k].inode # z
      /\ \/ entries[x][f].inode = z
         \/ f - 1 \in Slots /\ entries[x][f - 1].inode = entries[x][f].inode
  BY <1>1, <1>2, <1>3, LastEntry
<1>6. PICK s : th' = [th EXCEPT ![t] = s] /\ Blind(s)
  <2>1. CASE r.op = "rmdir"
    <3>1. Return(t)
      BY <1>1, <1>3, <2>1 DEF Shift, Entries, Filled
    <3> QED
      BY <3>1, ReturnBlind
  <2>2. CASE r.op # "rmdir" /\ inodes[z].references = 1
    <3>1. PICK q : q = [r EXCEPT !.i = 0]
      OBVIOUS
    <3>2. DOMAIN q = Fields /\ Goto(t, q, "free")
      BY <1>1, <1>2, <1>3, <1>4, <2>2, <3>1 DEF Shift, Entries, Filled, Fields
    <3> QED
      BY <3>2, BlindIs
  <2>3. CASE r.op # "rmdir" /\ inodes[z].references # 1
    <3>1. AfterUnlink(t, r)
      BY <1>1, <1>2, <1>3, <2>3 DEF Shift, Entries, Filled
    <3> QED
      BY <1>4, <3>1, AfterUnlinkBlind
  <2> QED
    BY <2>1, <2>2, <2>3
<1>7. ShorterTable(r, x, z)
  <2>1. PICK a : a = BytesSet(inodes, x, inodes[x].bytes - ENTRY)
    OBVIOUS
  <2>2. inodes' = IF r.op = "rmdir" THEN a ELSE ReferencesAre(a, z, a[z].references - 1)
    <3>1. a = [inodes EXCEPT ![x].bytes = @ - ENTRY]
      BY <1>4, <1>5, <2>1 DEF BytesSet, TableOK
    <3>2. inodes' = IF r.op = "rmdir" THEN a ELSE [a EXCEPT ![z].references = @ - 1]
      BY <1>1, <1>2, <1>3, <3>1 DEF Shift, Entries, Filled
    <3>3. TableOK(a)
      BY <1>4, <1>5, <2>1, TableBytes
    <3>4. [a EXCEPT ![z].references = @ - 1] = [a EXCEPT ![z].references = a[z].references - 1]
      BY <1>5, <3>3 DEF TableOK
    <3> QED
      BY <3>2, <3>4 DEF ReferencesAre
  <2> QED
    BY <1>4, <1>5, <2>1, <2>2, ShorterTableIs
<1>8. /\ \A y \in Inodes \ {x} : inodes'[y].bytes = inodes[y].bytes
      /\ \A y \in Inodes : inodes'[y].free = inodes[y].free /\ inodes'[y].type = inodes[y].type
      /\ inodes'[x].bytes = inodes[x].bytes - ENTRY
  BY <1>7 DEF ShorterTable, Same
<1>9. Filled(inodes, x)' = f
  <2>1. f \in Nat
    BY <1>5, Sizes
  <2>2. (f * ENTRY) \div ENTRY = f /\ (f + 1) * ENTRY = f * ENTRY + ENTRY /\ f * ENTRY \in Nat /\ ENTRY \in Nat
    BY <2>1, Multiple, Sizes
  <2>3. inodes'[x].bytes = f * ENTRY
    BY <1>5, <1>8, <2>2
  <2> QED
    BY <2>2, <2>3 DEF Filled
<1>10. \A k : Has(inodes, x, k)' <=> Has(inodes, x, k) /\ k # f
  <2>1. \A k \in Slots : k < f <=> k < f + 1 /\ k # f
    BY <1>5, Sizes
  <2> QED
    BY <1>5, <1>9, <2>1 DEF Has
<1>11. \A k : Name(x, k)' = Name(x, k)
  BY <1>3 DEF Name
<1>12. Hole(r) = f
  BY <1>2, <1>3 DEF Hole
<1>13. NamedIn(x)'
  <2>1. SUFFICES ASSUME NEW i \in Slots, NEW j \in Slots, Namesakes(inodes, x, i, j)', i # j
                 PROVE  FALSE
    BY DEF NamedIn
  <2>2. Namesakes(inodes, x, i, j) /\ i # f /\ j # f
    BY <1>10, <1>11, <2>1 DEF Namesakes
  <2>3. Removing(th[t]) /\ Hole(th[t]) \in {i, j}
    BY <1>1, <1>2, <1>3, <1>5, <2>1, <2>2, OwnNames
  <2> QED
    BY <1>1, <1>12, <2>2, <2>3
<1>14. /\ \A y \in Directories(inodes) \ {x} : Left(y)
       /\ \A y \in Directories(inodes') \ {x} : y \in Directories(inodes) \/ Filled(inodes', y) = 0
  BY <1>3, <1>8 DEF Left, Directories
<1>15. \A u \in Users \ {t} : th[u].op \in NameOps => th[u].on # x
  BY <1>1, <1>2, <1>3, <1>5, OneRemover
<1>16. Knows(s)'
  BY <1>6, BlindKnows
<1>17. Removing(th[t]) => th[t].on = x \/ (Removing(s) /\ s.on = th[t].on /\ Hole(s) = Hole(th[t]))
  BY <1>1, <1>2
<1>18. boot = "ready" /\ boot' = boot
  BY <1>3
<1>19. th' = [th EXCEPT ![t] = s]
  BY <1>6
<1> QED
  BY <1>13, <1>14, <1>15, <1>16, <1>17, <1>18, <1>19, NamesAround

(* A round of the loop that moves the entries up.                          *)
LEMMA ShiftNames ==
  ASSUME IInv, NamesInv, NEW t \in Users, Shift(t)
  PROVE  NamesInv'
<1>1. CASE th[t].i < Entries(th[t].on)
  <2>1. boot = "ready" /\ th[t].pc = "shift" /\ SameLists
        /\ get_data_block(t, th[t], inodes[th[t].on].direct[0], "shift")
    BY <1>1 DEF Shift, At, Ready, rest, SameLists
  <2> QED
    BY <2>1, AsksNames
<1> QED
  BY <1>1, ShiftEndNames

(* What is freed is no directory.                                          *)
LEMMA FreeNames ==
  ASSUME IInv, NamesInv, NEW t \in Users, Free(t)
  PROVE  NamesInv'
<1>1. PICK r : r = th[t]
  OBVIOUS
<1>2. PICK x, k : x = r.inode /\ k = r.i
  OBVIOUS
<1>3. PICK b : b = IF k < TABLE_SIZE THEN inodes[x].direct[k] ELSE -1
  OBVIOUS
<1>4. boot = "ready" /\ r.pc = "free" /\ UNCHANGED <<entries, boot>>
  BY <1>1 DEF Free, At, Ready, rest
<1>5. DOMAIN r = Fields /\ x \in Inodes /\ inodes[x].type = "REGULARFILE"
  BY <1>1, <1>2, <1>4, Here DEF Fits, Legal, FreesOne
<1>6. ~Removing(th[t])
  BY <1>1, <1>4 DEF Removing, Writing, Waits
<1>7. TableOK(inodes)
  BY <1>4 DEF IInv, Shape
<1>8. CASE k < inodes[x].size /\ b < 0
  <2>1. UNCHANGED th /\ SameLists
    BY <1>1, <1>2, <1>3, <1>4, <1>8 DEF Free, Fault, memory, SameLists
  <2> QED
    BY <1>4, <2>1, CalmEnd
<1>9. CASE k < inodes[x].size /\ ~(b < 0)
  <2>1. PICK q : q = [r EXCEPT !.i = @ + 1]
    OBVIOUS
  <2>2. DOMAIN q = Fields /\ Goto(t, q, "free")
    BY <1>1, <1>2, <1>3, <1>5, <1>9, <2>1 DEF Free, Fields
  <2>3. PICK s : th' = [th EXCEPT ![t] = s] /\ Blind(s)
    BY <2>2, BlindIs
  <2>4. inodes' = [inodes EXCEPT ![x].direct[k] = -1]
    BY <1>1, <1>2, <1>3, <1>9 DEF Free
  <2>5. \A y \in Inodes : SameNode(y)
    BY <1>5, <1>7, <2>4 DEF TableOK, InodeOK, InodeFields, SameNode
  <2> QED
    BY <1>4, <1>6, <2>3, <2>5, TableBlind
<1>10. CASE ~(k < inodes[x].size)
  <2>1. AfterUnlink(t, r)
    BY <1>1, <1>2, <1>10 DEF Free
  <2>2. PICK s : th' = [th EXCEPT ![t] = s] /\ Blind(s)
    BY <1>5, <2>1, AfterUnlinkBlind
  <2>3. inodes' = [inodes EXCEPT ![x].size = 0, ![x].bytes = 0, ![x].references = 0, ![x].free = TRUE]
    BY <1>1, <1>2, <1>10 DEF Free
  <2>4. inodes'[x].free /\ \A y \in Inodes \ {x} : inodes'[y] = inodes[y]
    BY <1>5, <1>7, <2>3 DEF TableOK, InodeOK, InodeFields
  <2>5. /\ \A y \in Directories(inodes) : Left(y)
        /\ \A y \in Directories(inodes') : y \in Directories(inodes) \/ Filled(inodes', y) = 0
    BY <1>4, <1>5, <2>4 DEF Left, Directories
  <2> QED
    BY <1>4, <1>6, <2>2, <2>5, NamesBlind
<1> QED
  BY <1>8, <1>9, <1>10

(* Whatever a thread does, the names stay different.                       *)
LEMMA ThreadNames ==
  ASSUME IInv, NamesInv, NEW t \in Users, Calls(t) \/ Continues(t)
  PROVE  NamesInv'
BY CallsNames, ScanNames, WakeNames, AllocateNames, MadeNames, WriteNames, PutStepNames,
   UpdateNames, ReadNames, ShiftNames, FreeNames DEF Continues
-----------------------------------------------------------------------------
(* The names through a reply of the disk, booting, and a crash.            *)
LEMMA AnswerNames ==
  ASSUME IInv, KInv, NamesInv, handle_disk_response
  PROVE  NamesInv'
<1>1. PICK t : t = Head(reads)
  OBVIOUS
<1>2. boot = "ready" /\ reads # <<>> /\ th' = [th EXCEPT ![t].got = TRUE] /\ SameLists
  BY <1>1 DEF handle_disk_response, Ready, memory, bitmap, rest, SameLists
<1>3. t \in Users
  <2>1. reads \in Seq(Users) /\ Len(reads) >= 1 /\ t = reads[1]
    BY <1>1, <1>2 DEF KInv, WaitsInv, InLine
  <2>2. 1 \in 1 .. Len(reads)
    BY <2>1
  <2> QED
    BY <2>1, <2>2 DEF KInv, WaitsInv, InLine
<1>4. PICK r : r = th[t]
  OBVIOUS
<1>5. PICK s : s = [r EXCEPT !.got = TRUE]
  OBVIOUS
<1>6. th' = [th EXCEPT ![t] = s]
  BY <1>2, <1>3, <1>4, <1>5, Here
<1>7. DOMAIN r = Fields
  BY <1>2, <1>3, <1>4, Here DEF Fits
<1>8. /\ s.pc = r.pc /\ s.then = r.then /\ s.op = r.op /\ s.on = r.on /\ s.i = r.i
      /\ s.path = r.path /\ s.entry = r.entry
  BY <1>5, <1>7 DEF Fields
<1>9. AsBefore(th[t], s)
  BY <1>4, <1>8 DEF AsBefore, Seeks, Creating, Removing, Writing, Waits
<1> QED
  BY <1>2, <1>3, <1>6, <1>9, CalmCarried

(* Memory is read from the disk, and nobody is in a call.                  *)
LEMMA BootNames ==
  ASSUME IInv, NamesInv, setup_superblock \/ setup_inode \/ setup_bitmap
  PROVE  NamesInv'
<1>1. boot # "ready" /\ UNCHANGED <<onDisk, entries, th>>
  BY DEF setup_superblock, setup_inode, setup_bitmap, running
<1>2. NamesOn(onDisk.inodes)' /\ AtRest
  BY <1>1 DEF NamesInv, NamesOn, Namesakes, Has, Filled, Name, IInv, ImageInv
<1>3. CASE boot' # "ready"
  BY <1>2, <1>3 DEF NamesInv
<1>4. CASE boot' = "ready"
  <2>1. boot = "bitmap" /\ UNCHANGED inodes
    BY <1>1, <1>4 DEF setup_superblock, setup_inode, setup_bitmap, Exits
  <2>2. inodes' = onDisk'.inodes
    BY <1>1, <2>1 DEF IInv, ImageInv
  <2>3. NamesUp'
    BY <1>2, <2>2 DEF NamesOn, NamesUp, Namesakes, Has, Filled, Name
  <2>4. ASSUME NEW t \in Users PROVE Knows(th[t])'
    <3>1. PICK s : s = Idle
      OBVIOUS
    <3>2. th'[t] = s
      BY <1>1, <1>2, <3>1 DEF AtRest
    <3>3. Knows(s)'
      BY <3>1, IdleBlind, BlindKnows
    <3> QED
      BY <3>2, <3>3 DEF Knows, IsNew, NewName
  <2> QED
    BY <1>4, <2>3, <2>4 DEF NamesInv
<1> QED
  BY <1>3, <1>4

(* The machine stops: nobody removes, so the names are on the disk.        *)
LEMMA CrashNames ==
  ASSUME IInv, NamesInv, Crash
  PROVE  NamesInv'
<1>1. /\ boot = "ready" /\ ~deleted /\ boot' = "superblock" /\ UNCHANGED <<onDisk, entries>>
      /\ \A t \in Users : th[t].op \notin {"unlink", "rmdir"}
  BY DEF Crash
<1>2. \A x \in Inodes : ~onDisk.inodes[x].free => Matches(onDisk.inodes[x], inodes[x])
  BY <1>1, DiskSound
<1>3. NamesOn(onDisk.inodes)'
  <2>1. SUFFICES ASSUME NEW d \in Directories(onDisk.inodes)', NEW i \in Slots, NEW j \in Slots,
                        Namesakes(onDisk.inodes, d, i, j)', i # j
                 PROVE  FALSE
    BY DEF NamesOn
  <2>2. d \in Directories(onDisk.inodes) /\ Namesakes(onDisk.inodes, d, i, j)
    BY <1>1, <2>1 DEF Directories, Namesakes, Has, Filled, Name
  <2>3. d \in Directories(inodes) /\ Filled(onDisk.inodes, d) = Filled(inodes, d)
    BY <1>2, <2>2 DEF Directories, Matches, Filled
  <2>4. Namesakes(inodes, d, i, j)
    BY <2>2, <2>3 DEF Namesakes, Has
  <2>5. PICK u \in Users : Removing(th[u])
    BY <1>1, <2>1, <2>3, <2>4 DEF NamesInv, NamesUp, InHole
  <2> QED
    BY <1>1, <2>5 DEF Removing
<1> QED
  BY <1>1, <1>3 DEF NamesInv

(* The names on the disks that boot first: a new one has no entries, and   *)
(* the root of the used one two with different names.                      *)
LEMMA NewNames ==
  ASSUME NEW complete, NEW c, c = Mkfs(complete)
  PROVE  NamesOn(c.inodes)
<1>1. PICK tb : tb = c.inodes
  OBVIOUS
<1>2. tb[0].bytes = 0 /\ \A x \in Inodes \ {0} : tb[x].free
  BY <1>1, NewDisk
<1>3. Filled(tb, 0) = 0
  BY <1>2, Sizes DEF Filled
<1>4. SUFFICES ASSUME NEW d \in Directories(tb), NEW i \in Slots, Has(tb, d, i)
               PROVE  FALSE
  BY <1>1 DEF NamesOn, Namesakes
<1>5. d = 0
  BY <1>2 DEF Directories
<1> QED
  BY <1>3, <1>4, <1>5, Sizes DEF Has

(* The root of the disk that was used lists two different names.           *)
LEMMA UsedNames ==
  ASSUME entries = Used.lists, NEW tb, tb = Used.disk.inodes
  PROVE  NamesOn(tb)
<1>1. PICK dir, name : dir = (CHOOSE n \in Names : TRUE) /\ name = (CHOOSE n \in Names : n # dir)
  OBVIOUS
<1>2. dir # name
  <2>1. PICK n, m \in Names : n # m
    BY MiniFileAssumption
  <2>2. \E k \in Names : k # dir
    BY <2>1
  <2> QED
    BY <1>1, <2>2
<1>3. /\ 0 \in Inodes /\ 1 \in Inodes /\ 2 \in Inodes /\ 3 \in Inodes /\ 0 \in Slots /\ 1 \in Slots
  BY MiniFileAssumption, Sizes DEF Inodes
<1>4. Name(0, 0) = dir /\ Name(0, 1) = name
  <2>1. PICK e1, e3 : e1 = [name |-> dir, inode |-> 1] /\ e3 = [name |-> name, inode |-> 3]
    OBVIOUS
  <2>2. entries[0] = [Empty EXCEPT ![0] = e1, ![1] = e3]
    BY <1>1, <1>3, <2>1 DEF Used
  <2>3. entries[0][0] = e1 /\ entries[0][1] = e3
    BY <1>3, <2>2 DEF Empty
  <2> QED
    BY <2>1, <2>3 DEF Name
<1>5. /\ tb[0].bytes = 2 * ENTRY /\ tb[1].bytes = ENTRY
      /\ \A d \in Directories(tb) : d \in {0, 1}
  BY <1>3, UsedTable DEF Directories
<1>6. Filled(tb, 0) = 2 /\ Filled(tb, 1) = 1
  <2>1. (2 * ENTRY) \div ENTRY = 2 /\ (1 * ENTRY) \div ENTRY = 1 /\ 1 * ENTRY = ENTRY
    BY Multiple, Sizes
  <2> QED
    BY <1>5, <2>1 DEF Filled
<1>7. ASSUME NEW d \in Directories(tb), NEW i \in Slots, NEW j \in Slots, Namesakes(tb, d, i, j)
      PROVE  i = j
  <2>1. i \in Nat /\ j \in Nat
    BY Sizes
  <2>2. CASE d = 0
    <3>1. i \in {0, 1} /\ j \in {0, 1}
      BY <1>6, <1>7, <2>1, <2>2 DEF Namesakes, Has
    <3> QED
      BY <1>2, <1>4, <1>7, <2>2, <3>1 DEF Namesakes
  <2>3. CASE d = 1
    BY <1>6, <1>7, <2>1, <2>3 DEF Namesakes, Has
  <2> QED
    BY <1>5, <2>2, <2>3
<1> QED
  BY <1>7 DEF NamesOn

(* So both disks have different names.                                     *)
LEMMA InitNames ==
  ASSUME FileInit
  PROVE  NamesInv
<1>1. boot # "ready"
  BY DEF FileInit
<1>2. CASE onDisk = Used.disk /\ entries = Used.lists
  BY <1>1, <1>2, UsedNames DEF NamesInv
<1>3. CASE \E complete \in BOOLEAN : onDisk = Mkfs(complete)
  BY <1>1, <1>3, NewNames DEF NamesInv
<1> QED
  BY <1>2, <1>3 DEF FileInit
-----------------------------------------------------------------------------
(* Every step keeps the form of the tree.                                  *)
LEMMA FormStep ==
  ASSUME IInv, KInv, FilesInv, FormInv, [FileNext]_fileVars
  PROVE  FormInv'
<1>1. NodesInv /\ NamesInv
  BY DEF FormInv
<1>2. CASE UNCHANGED fileVars
  <2>1. UNCHANGED <<inodes, onDisk, freeBlocks, entries, th, boot, outstanding>>
    BY <1>2 DEF fileVars
  <2>2. TypesInv' /\ RootsInv'
    BY <1>1, <2>1 DEF NodesInv, TypesInv, RootsInv
  <2>3. SizesInv'
    BY <1>1, <2>1 DEF NodesInv, SizesInv, Freeing, Overdrawn, Overdraws
  <2>4. NamesUp <=> NamesUp'
    BY <2>1 DEF NamesUp, Namesakes, Has, Filled, Name, InHole, Directories
  <2>5. NamesOn(onDisk.inodes) <=> NamesOn(onDisk.inodes)'
    BY <2>1 DEF NamesOn, Namesakes, Has, Filled, Name
  <2>6. ASSUME NEW t \in Users, Knows(th[t]) PROVE Knows(th[t])'
    BY <2>1, <2>6 DEF Knows, IsNew, Has, Filled, Name, NewName
  <2>7. NamesInv'
    BY <1>1, <2>1, <2>4, <2>5, <2>6 DEF NamesInv
  <2> QED
    BY <2>2, <2>3, <2>7 DEF FormInv, NodesInv
<1>3. CASE setup_superblock \/ setup_inode \/ setup_bitmap
  BY <1>1, <1>3, BootNodes, BootNames DEF FormInv
<1>4. CASE Crash
  BY <1>1, <1>4, CrashNodes, CrashNames DEF FormInv
<1>5. CASE handle_disk_response
  BY <1>1, <1>5, AnswerNodes, AnswerNames DEF FormInv
<1>6. CASE \E t \in Users : Calls(t) \/ Continues(t)
  BY <1>1, <1>6, ThreadNodes, ThreadNames DEF FormInv
<1> QED
  BY <1>2, <1>3, <1>4, <1>5, <1>6 DEF FileNext

(* In every state the sizes and block numbers stay within the inode, a     *)
(* file in use has no more blocks missing than a write that ran out of     *)
(* them leaves, no set of inodes in use is its own ancestry without the    *)
(* root, and every creat and mkdir under way has a name no entry has.      *)
THEOREM TreeIsKept == FileSpec => [](IInv /\ KInv /\ FilesInv /\ FormInv)
<1>1. FileInit => IInv /\ KInv /\ FilesInv /\ FormInv
  BY InitStep, InitWaits, InitExplains, InitNodes, InitNames DEF FormInv
<1>2. IInv /\ KInv /\ FilesInv /\ FormInv /\ [FileNext]_fileVars
        => IInv' /\ KInv' /\ FilesInv' /\ FormInv'
  BY NextStep, WaitsStep, FilesStep, FormStep
<1> QED
  BY <1>1, <1>2, PTL DEF FileSpec

(* Every entry leads to an inode in use whose parent is this directory, no *)
(* name is listed twice but while an entry is removed, pwd comes to the    *)
(* root from wherever a thread is, and sizes and block numbers stay within *)
(* the inode.                                                              *)
THEOREM TreeStaysRooted == FileSpec => []TreeIsRooted
<1>1. IInv /\ KInv /\ FormInv => TreeIsRooted
  BY TreeFollows
<1> QED
  BY <1>1, TreeIsKept, PTL
=============================================================================
