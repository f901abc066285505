------------------------------ MODULE MiniFile ------------------------------
(***************************************************************************)
(* The file system of minifile.c on a disk made by mkfs.c.                 *)
(*                                                                         *)
(* A thread runs one call at a time; it is cut where it waits for a block  *)
(* (get_data_block), where it gives back a mutex, and between two writes   *)
(* to the disk.  The disk serves its queue in order and does not fail      *)
(* (module Disk with its default rates), so a write counts when it is      *)
(* queued; a read is answered later, by handle_disk_response.              *)
(*                                                                         *)
(* Positions are in units: BLOCK units to a block, ENTRY to a directory    *)
(* entry.  The data of regular files is not kept; of directories, the      *)
(* entries are, as far as they do not straddle a block.                    *)
(***************************************************************************)
EXTENDS Integers, Sequences, FiniteSets

CONSTANTS Users,         \* threads that use files
          Names,         \* file names
          NumInodes,     \* num_inodes
          NumData,       \* num_data_blocks
          Bits,          \* bits of the bitmap, more than there are blocks
          TABLE_SIZE,    \* direct blocks of an inode
          BLOCK, ENTRY,  \* DISK_BLOCK_SIZE, sizeof(struct directory_entry)
          Lengths,       \* lengths of reads and writes
          MaxCalls,      \* bound on the calls and the threads that make them
          MaxCrashes     \* bound on the crashes

ASSUME MiniFileAssumption ==
    /\ Users # {} /\ IsFiniteSet(Users)
    /\ \E n, m \in Names : n # m            \* the used disk needs two
    /\ NumInodes \in Nat /\ NumInodes >= 4    \* the used disk needs four
    /\ TABLE_SIZE \in Nat \ {0, 1} /\ TABLE_SIZE + 3 <= NumData
    /\ NumData \in Nat /\ Bits \in Nat /\ NumData <= Bits
    /\ ENTRY \in Nat \ {0} /\ BLOCK \in Nat /\ 2 * ENTRY <= BLOCK
    /\ Lengths \subseteq Nat \ {0} /\ \E l \in Lengths : l < BLOCK

VARIABLES inodes,        \* the inode table in memory
          freeBlocks,    \* free_block_bitmap in memory: the bits that are 1
          onDisk,        \* inode table, bitmap and superblock on the disk
          entries,       \* the entries in the first block of each directory
          boot,          \* how far minifile_initialize and its handlers are
          outstanding,   \* outstanding_requests
          active,        \* the threads that use files in this behaviour
          th,            \* the call of each thread
          cwd,           \* currentDirectoryInode
          file,          \* the open file of each thread, at most one
          reads,         \* the queued reads of data blocks, by thread
          blockMutex,    \* the counts of block_mutexes
          calls, crashes,
          deleted,       \* something was removed since mkfs
          ranOut,        \* allocate_block has found no bit
          fault          \* the undefined behaviour that ended the program

fileVars == <<inodes, freeBlocks, onDisk, entries, boot, outstanding, active, th,
              cwd, file, reads, blockMutex, calls, crashes, deleted, ranOut, fault>>

Inodes == 0 .. NumInodes - 1
Slots == 0 .. (BLOCK \div ENTRY) - 1    \* entries that do not straddle
Least(S) == CHOOSE x \in S : \A y \in S : x <= y

Inode(type, free, refs, size, parent, direct) ==
    [type |-> type, free |-> free, references |-> refs, size |-> size,
     bytes |-> 0, parent |-> parent, direct |-> direct]

NoBlocks == [k \in 0 .. TABLE_SIZE - 1 |-> -1]
NoEntry == [name |-> "none", inode |-> 0]
Empty == [s \in Slots |-> NoEntry]
NoFile == [inode |-> -1, type |-> "ND", position |-> 0]
(* pc is where a thread is, then what the block it waits for is read for.  *)
Idle == [pc |-> "idle", op |-> "none", mode |-> "none", path |-> <<>>,
         area |-> {}, on |-> 0, i |-> 0, found |-> FALSE, inode |-> 0,
         entry |-> NoEntry, target |-> 0, cur |-> 0, offset |-> 0, left |-> 0,
         end |-> 0, then |-> "none", blk |-> 0, got |-> FALSE]

(* mkfs: the root owns the first TABLE_SIZE blocks, every other inode and  *)
(* every other bit of the bitmap is free, also the bits behind the last    *)
(* block.  The superblock comes last: an interrupted mkfs leaves none.     *)
Mkfs(complete) ==
    [inodes |-> [x \in Inodes |->
        IF x = 0
          THEN Inode("DIRECTORY", FALSE, 1, TABLE_SIZE, 0, [k \in 0 .. TABLE_SIZE - 1 |-> k])
          ELSE Inode("REGULARFILE", TRUE, 0, 0, 0, [k \in 0 .. TABLE_SIZE - 1 |-> 0])],
     free |-> TABLE_SIZE .. Bits - 1,
     super |-> complete]

(* A disk that was used before: the root lists a directory and a new file, *)
(* the directory lists a file that was written from inside its first block *)
(* to behind its end, so that it claims more than it has (PutBlock).       *)
Used ==
    LET dir == CHOOSE n \in Names : TRUE
        name == CHOOSE n \in Names : n # dir
        Owner(type, refs, parent, bytes, b) ==
            [Inode(type, FALSE, refs, 1, parent, [NoBlocks EXCEPT ![0] = b])
             EXCEPT !.bytes = bytes]
    IN  [disk |-> [Mkfs(TRUE) EXCEPT
            !.inodes[0].bytes = 2 * ENTRY,
            !.inodes[1] = Owner("DIRECTORY", 1, 0, ENTRY, TABLE_SIZE),
            !.inodes[2] = Owner("REGULARFILE", 2, 1, BLOCK + Least(Lengths), TABLE_SIZE + 1),
            !.inodes[3] = Owner("REGULARFILE", 1, 0, 0, TABLE_SIZE + 2),
            !.free = TABLE_SIZE + 3 .. Bits - 1],
         lists |-> [x \in Inodes |->
            CASE x = 0 -> [Empty EXCEPT ![0] = [name |-> dir, inode |-> 1],
                                        ![1] = [name |-> name, inode |-> 3]]
              [] x = 1 -> [Empty EXCEPT ![0] = [name |-> name, inode |-> 2]]
              [] OTHER -> Empty]]

(* minifile_initialize; memory holds nothing yet.                          *)
Blank == [x \in Inodes |-> Inode("REGULARFILE", TRUE, 0, 0, 0, NoBlocks)]

FileInit ==
    /\ \/ /\ \E complete \in BOOLEAN : onDisk = Mkfs(complete)
          /\ active = {CHOOSE t \in Users : TRUE}
          /\ entries = [x \in Inodes |-> Empty]
       \/ /\ onDisk = Used.disk
          /\ active = Users
          /\ entries = Used.lists
    /\ inodes = Blank
    /\ freeBlocks = {}
    /\ boot = "superblock"
    /\ outstanding = 1
    /\ th = [t \in Users |-> Idle]
    /\ cwd = [t \in Users |-> 0]
    /\ file = [t \in Users |-> NoFile]
    /\ reads = <<>>
    /\ blockMutex = [b \in 0 .. NumData - 1 |-> 0]
    /\ calls = 0
    /\ crashes = 0
    /\ deleted = FALSE
    /\ ranOut = FALSE
    /\ fault = "none"

-----------------------------------------------------------------------------
(* Booting: every reply of the disk runs the handler that is installed; a  *)
(* reply that is not OK, or a wrong magic number, ends the program.        *)
running == <<onDisk, entries, active, th, cwd, file, reads, blockMutex, calls,
             crashes, deleted, ranOut, fault>>

Exits == boot' = "exited" /\ UNCHANGED <<inodes, freeBlocks, outstanding>>

setup_superblock ==
    /\ boot = "superblock"
    /\ \/ Exits                 \* reply # DISK_REPLY_OK
       \/ /\ onDisk.super
          /\ boot' = "inodes"
          /\ outstanding' = NumInodes
          /\ UNCHANGED <<inodes, freeBlocks>>
    /\ UNCHANGED running

(* The last inode wakes setup_superblock, which copies them all and asks   *)
(* for the bitmap.                                                         *)
setup_inode ==
    /\ boot = "inodes"
    /\ \/ Exits
       \/ /\ outstanding > 1
          /\ outstanding' = outstanding - 1
          /\ UNCHANGED <<boot, inodes, freeBlocks>>
       \/ /\ outstanding = 1
          /\ boot' = "bitmap"
          /\ inodes' = onDisk.inodes
          /\ UNCHANGED <<outstanding, freeBlocks>>
    /\ UNCHANGED running

setup_bitmap ==
    /\ boot = "bitmap"
    /\ \/ Exits
       \/ /\ boot' = "ready"    \* done_mutex, fs_init_mutex
          /\ freeBlocks' = onDisk.free
          /\ outstanding' = 0
          /\ UNCHANGED inodes
    /\ UNCHANGED running

(* The machine stops between two writes and boots again.  Explored for one *)
(* thread, and as long as nothing was removed (README, 5).                 *)
Crash ==
    /\ boot = "ready" /\ fault = "none"
    /\ Cardinality(active) = 1
    /\ ~deleted /\ \A t \in Users : th[t].op \notin {"unlink", "rmdir"}
    /\ crashes < MaxCrashes
    /\ crashes' = crashes + 1
    /\ boot' = "superblock"
    /\ outstanding' = 1
    /\ inodes' = Blank
    /\ freeBlocks' = {}
    /\ th' = [t \in Users |-> Idle]
    /\ cwd' = [t \in Users |-> 0]
    /\ file' = [t \in Users |-> NoFile]
    /\ reads' = <<>>
    /\ blockMutex' = [b \in 0 .. NumData - 1 |-> 0]
    /\ UNCHANGED <<onDisk, entries, active, calls, deleted, ranOut, fault>>
-----------------------------------------------------------------------------
(* Building blocks of the calls.                                           *)
Ready == boot = "ready" /\ fault = "none"
At(t, pc) == Ready /\ th[t].pc = pc
Goto(t, r, pc) == th' = [th EXCEPT ![t] = [r EXCEPT !.pc = pc]]
Return(t) == th' = [th EXCEPT ![t] = Idle]
Fault(what) == fault' = what /\ UNCHANGED th
FaultyEntries(x) == (inodes[x].bytes - 1) \div ENTRY
Entries(x) == inodes[x].bytes \div ENTRY

bitmap == <<freeBlocks, ranOut>>
memory == <<inodes, bitmap>>
handles == <<cwd, file>>
requests_ == <<reads, blockMutex>>
rest == <<boot, outstanding, active, calls, crashes>>

(* get_data_block: the block cache is never filled, so every block is read *)
(* from the disk; a block behind the last one has no semaphore.            *)
FaultyQueued(t) == IF reads = <<>> THEN <<t>> ELSE reads
Queued(t) == Append(reads, t)

get_data_block(t, r, b, then) ==
    IF b \in 0 .. NumData - 1
      THEN /\ Goto(t, [r EXCEPT !.then = then, !.blk = b, !.got = FALSE], "wait")
           /\ reads' = Queued(t)
           /\ UNCHANGED <<blockMutex, fault>>
      ELSE Fault("semaphore") /\ UNCHANGED requests_

(* allocate_block: the first 1 of the bitmap, on the disk at once.         *)
allocate_block == IF freeBlocks = {} THEN -1 ELSE Least(freeBlocks)
FaultyTakes(b) ==
    /\ onDisk' = [onDisk EXCEPT !.free = @ \ {b}]
    /\ UNCHANGED bitmap

Takes(b) ==
    /\ freeBlocks' = freeBlocks \ {b}
    /\ ranOut' = (ranOut \/ b = -1)
    /\ onDisk' = [onDisk EXCEPT !.free = freeBlocks']

disk_update_inode(x) == onDisk' = [onDisk EXCEPT !.inodes[x] = inodes'[x]]

(* The disk answers a READ: handle_disk_response gives back the semaphore  *)
(* of the block that was read.                                             *)
FaultyAnsweredBlock(t) == th[reads[Len(reads)]].blk
AnsweredBlock(t) == th[t].blk

handle_disk_response ==
    LET t == Head(reads)
    IN  /\ Ready /\ reads # <<>>
        /\ reads' = Tail(reads)
        /\ th' = [th EXCEPT ![t].got = TRUE]
        /\ blockMutex' = [blockMutex EXCEPT ![AnsweredBlock(t)] = @ + 1]
        /\ UNCHANGED <<memory, onDisk, entries, handles, deleted, fault, rest>>

(* inode_write, called with len units at a position.                       *)
BeginWrite(t, r, x, position, len) ==
    Goto(t, [r EXCEPT !.target = x, !.cur = position \div BLOCK,
                      !.offset = position % BLOCK, !.left = len,
                      !.end = position + len], "write")

-----------------------------------------------------------------------------
(* Looking a name up in the entries of a directory: the loop that          *)
(* minifile_creat, _open, _unlink, _mkdir, _rmdir and find share.          *)
Walks == {"cd", "ls", "stat"}

AfterUnlink(t, r) ==
    IF r.mode = "w" THEN Goto(t, [r EXCEPT !.op = "creat", !.i = 0], "scan")
    ELSE Return(t)

(* No entry has the name: find goes on with the next component in the same *)
(* directory and remembers only whether the last one was found.            *)
Missing(t, r) ==
    CASE r.op \in {"creat", "mkdir"} -> Goto(t, r, "allocate")
      [] r.op = "open" /\ r.mode \in {"w", "a"} ->
             Goto(t, [r EXCEPT !.op = "creat", !.i = 0], "scan")
      [] r.op \in Walks ->
             Goto(t, [r EXCEPT !.path = Tail(@), !.i = 0, !.found = FALSE], "scan")
      [] OTHER -> Return(t)

(* resolve_pathname is done: cd, ls and stat act on what was found, ls     *)
(* reads the entries once more.                                            *)
Resolved(t, r) ==
    LET isDirectory == inodes[r.on].type = "DIRECTORY"
    IN  /\ IF r.found /\ r.op = "cd" /\ isDirectory
             THEN cwd' = [cwd EXCEPT ![t] = r.on]
             ELSE UNCHANGED cwd
        /\ IF r.found /\ r.op = "ls" /\ isDirectory /\ r.i < Entries(r.on)
             THEN get_data_block(t, r, inodes[r.on].direct[0], "list")
             ELSE Return(t) /\ UNCHANGED <<requests_, fault>>

Scan(t) ==
    LET r == th[t]
    IN  /\ At(t, "scan")
        /\ \/ r.path = <<>> /\ Resolved(t, r)
           \/ /\ r.path # <<>> /\ r.i >= Entries(r.on)
              /\ Missing(t, r)
              /\ UNCHANGED <<requests_, cwd, fault>>
           \/ /\ r.path # <<>> /\ r.i < Entries(r.on)
              /\ IF r.op \in Walks /\ inodes[r.on].type # "DIRECTORY"
                   THEN Return(t) /\ UNCHANGED <<requests_, fault>>
                   ELSE get_data_block(t, r, inodes[r.on].direct[0], "entry")
              /\ UNCHANGED cwd
        /\ UNCHANGED <<memory, onDisk, entries, file, deleted, rest>>

(* minifile_open has found the name.                                       *)
FaultyRefers(x) == UNCHANGED inodes
Refers(x) == inodes' = [inodes EXCEPT ![x].references = @ + 1]

Opens(t, r) ==
    IF r.mode = "w"
      THEN /\ Goto(t, [r EXCEPT !.op = "unlink", !.i = 0], "scan")
           /\ UNCHANGED <<inodes, file>>
      ELSE /\ Refers(r.inode)
           /\ file' = [file EXCEPT ![t] =
                [inode |-> r.inode,
                 type |-> CASE r.mode = "r" -> "READ" [] r.mode = "r+" -> "WRITE"
                            [] OTHER -> "APPEND",
                 position |-> IF r.mode = "a" THEN inodes[r.inode].bytes ELSE 0]]
           /\ Return(t)

(* The entry that is removed must be of the type the call is for.          *)
Removes(t, r) ==
    CASE r.op = "unlink" /\ inodes[r.inode].type # "REGULARFILE" -> AfterUnlink(t, r)
      [] r.op = "rmdir" /\ inodes[r.inode].type # "DIRECTORY" -> Return(t)
      [] OTHER -> Goto(t, [r EXCEPT !.i = @ + 1], "shift")

(* One entry was read.                                                     *)
Entry(t, r) ==
    LET e == entries[r.on][r.i]
        found == [r EXCEPT !.inode = e.inode]
    IN  IF e.name # Head(r.path)
          THEN Goto(t, [r EXCEPT !.i = @ + 1], "scan") /\ UNCHANGED <<inodes, file>>
          ELSE CASE r.op = "open" -> Opens(t, found)
                 [] r.op \in {"unlink", "rmdir"} ->
                        Removes(t, found) /\ UNCHANGED <<inodes, file>>
                 [] r.op \in Walks ->
                        /\ Goto(t, [r EXCEPT !.on = e.inode, !.path = Tail(@),
                                             !.i = 0, !.found = TRUE], "scan")
                        /\ UNCHANGED <<inodes, file>>
                 [] OTHER -> Return(t) /\ UNCHANGED <<inodes, file>>  \* it exists

-----------------------------------------------------------------------------
(* inode_write and inode_read, a block at a time.                          *)
FaultyNeedsBlock(x, k) == k = 0 /\ inodes[x].direct[k] < 0
NeedsBlock(x, k) == inodes[x].direct[k] < 0

Write(t) ==
    LET r == th[t]
        x == r.target
    IN  /\ At(t, "write")
        /\ IF NeedsBlock(x, r.cur)
             THEN /\ inodes' = [inodes EXCEPT ![x].direct[r.cur] = allocate_block,
                                              ![x].size = @ + 1]
                  /\ Takes(allocate_block)
                  /\ Goto(t, r, "put")
                  /\ UNCHANGED <<requests_, fault>>
             ELSE /\ get_data_block(t, r, inodes[x].direct[r.cur], "put")
                  /\ UNCHANGED <<memory, onDisk>>
        /\ UNCHANGED <<entries, handles, deleted, rest>>

(* The block goes to the disk.  A write that fills its first block from an *)
(* offset takes a whole block off what is left (offset is 0 by then), and  *)
(* a block that could not be allocated is the last one of the bitmap.      *)
PutBlock(t, r) ==
    IF inodes[r.target].direct[r.cur] < 0
      THEN Fault("bitmap") /\ UNCHANGED entries
      ELSE LET left == IF r.left < BLOCK - r.offset THEN 0 ELSE r.left - BLOCK
           IN  /\ Goto(t, [r EXCEPT !.left = left, !.offset = 0, !.cur = @ + 1],
                       IF left > 0 THEN "write" ELSE "update")
               /\ IF inodes[r.target].type = "DIRECTORY"
                    THEN entries' = [entries EXCEPT ![r.target][r.offset \div ENTRY] = r.entry]
                    ELSE UNCHANGED entries
               /\ UNCHANGED fault

Put(t) ==
    /\ At(t, "put")
    /\ PutBlock(t, th[t])
    /\ UNCHANGED <<memory, onDisk, handles, requests_, deleted, rest>>

(* The inode goes to the disk, and inode_write returns to its caller:      *)
(* minifile_creat and _mkdir have made their entry, minifile_unlink and    *)
(* _rmdir move the next one, minifile_write moves the cursor.              *)
Update(t) ==
    LET r == th[t]
        x == r.target
        bytes == IF r.end > inodes[x].bytes THEN r.end ELSE inodes[x].bytes
        written == [inodes EXCEPT ![x].bytes = bytes]
    IN  /\ At(t, "update")
        /\ inodes' = IF r.op = "creat" THEN [written EXCEPT ![r.inode].references = 2]
                     ELSE written
        /\ disk_update_inode(x)
        /\ CASE r.op \in {"unlink", "rmdir"} ->
                   Goto(t, [r EXCEPT !.i = @ + 1], "shift") /\ UNCHANGED file
             [] r.op = "creat" ->
                   /\ file' = [file EXCEPT ![t] = [inode |-> r.inode, position |-> 0,
                        type |-> IF r.mode = "a" THEN "APPEND" ELSE "WRITE"]]
                   /\ Return(t)
             [] r.op = "write" ->
                   file' = [file EXCEPT ![t].position = r.end] /\ Return(t)
             [] OTHER -> Return(t) /\ UNCHANGED file
        /\ UNCHANGED <<bitmap, entries, cwd, requests_, deleted, fault, rest>>

Read(t) ==
    /\ At(t, "read")
    /\ get_data_block(t, th[t], inodes[th[t].target].direct[th[t].cur], "data")
    /\ UNCHANGED <<memory, onDisk, entries, handles, blockMutex, deleted, rest>>

Copies(t, r) ==
    IF r.left > BLOCK - r.offset
      THEN /\ Goto(t, [r EXCEPT !.left = @ - (BLOCK - r.offset), !.offset = 0,
                                !.cur = @ + 1], "read")
           /\ UNCHANGED file
      ELSE Return(t) /\ file' = [file EXCEPT ![t].position = r.end]

(* A thread gets the semaphore of its block and goes on.                   *)
Wake(t) ==
    LET r == th[t]
    IN  /\ At(t, "wait")
        /\ blockMutex[r.blk] > 0
        /\ blockMutex' = [blockMutex EXCEPT ![r.blk] = @ - 1]
        /\ CASE r.then = "entry" ->
                   Entry(t, r) /\ UNCHANGED <<entries, fault>>
             [] r.then = "shift" ->
                   /\ BeginWrite(t, [r EXCEPT !.entry = entries[r.on][r.i]],
                                 r.on, (r.i - 1) * ENTRY, ENTRY)
                   /\ UNCHANGED <<inodes, file, entries, fault>>
             [] r.then = "put" -> PutBlock(t, r) /\ UNCHANGED <<inodes, file>>
             [] r.then = "data" -> Copies(t, r) /\ UNCHANGED <<inodes, entries, fault>>
             [] r.then = "list" ->
                   /\ Goto(t, [r EXCEPT !.i = @ + 1], "scan")
                   /\ UNCHANGED <<inodes, file, entries, fault>>
        /\ UNCHANGED <<bitmap, onDisk, cwd, reads, deleted, rest>>

-----------------------------------------------------------------------------
(* allocate_inode: the bitmap is on the disk before the inode (Made).      *)
Allocate(t) ==
    LET r == th[t]
        unused == {x \in Inodes \ {0} : inodes[x].free}
        x == Least(unused)
    IN  /\ At(t, "allocate")
        /\ IF unused = {}
             THEN Fault("null") /\ UNCHANGED <<memory, onDisk>>
             ELSE /\ Takes(allocate_block)
                  /\ inodes' = [inodes EXCEPT ![x] =
                        Inode(IF r.op = "mkdir" THEN "DIRECTORY" ELSE "REGULARFILE",
                              FALSE, 1, 1, r.on, [NoBlocks EXCEPT ![0] = allocate_block])]
                  /\ Goto(t, [r EXCEPT !.inode = x,
                        !.entry = [name |-> Head(r.path), inode |-> x]], "made")
                  /\ UNCHANGED fault
        /\ UNCHANGED <<entries, handles, requests_, deleted, rest>>

FaultyMade(t) ==
    /\ At(t, "made")
    /\ BeginWrite(t, th[t], th[t].on, inodes[th[t].on].bytes, ENTRY)
    /\ UNCHANGED <<memory, onDisk, entries, handles, requests_, deleted, fault, rest>>

Made(t) ==
    /\ At(t, "made")
    /\ onDisk' = [onDisk EXCEPT !.inodes[th[t].inode] = inodes[th[t].inode]]
    /\ BeginWrite(t, th[t], th[t].on, inodes[th[t].on].bytes, ENTRY)
    /\ UNCHANGED <<memory, entries, handles, requests_, deleted, fault, rest>>

(* The entries behind the removed one move up; then the directory is one   *)
(* entry shorter in memory, and an unlinked inode loses a reference.       *)
Shift(t) ==
    LET r == th[t]
        shorter == [inodes EXCEPT ![r.on].bytes = @ - ENTRY]
    IN  /\ At(t, "shift")
        /\ IF r.i < Entries(r.on)
             THEN /\ get_data_block(t, r, inodes[r.on].direct[0], "shift")
                  /\ UNCHANGED <<inodes, deleted>>
             ELSE /\ deleted' = TRUE
                  /\ IF r.op = "rmdir"
                       THEN inodes' = shorter /\ Return(t)
                       ELSE /\ inodes' = [shorter EXCEPT ![r.inode].references = @ - 1]
                            /\ IF inodes[r.inode].references = 1
                                 THEN Goto(t, [r EXCEPT !.i = 0], "free")
                                 ELSE AfterUnlink(t, r)
                  /\ UNCHANGED <<requests_, fault>>
        /\ UNCHANGED <<bitmap, onDisk, entries, handles, rest>>

(* free_inode, with free_block: one block, and its bit is on the disk; in  *)
(* the end the inode.                                                      *)
Free(t) ==
    LET r == th[t]
        x == r.inode
        b == IF r.i < TABLE_SIZE THEN inodes[x].direct[r.i] ELSE -1  \* indirectblock
    IN  /\ At(t, "free")
        /\ IF r.i < inodes[x].size
             THEN IF b < 0
               THEN Fault("shift") /\ UNCHANGED <<memory, onDisk>>
               ELSE /\ freeBlocks' = freeBlocks \cup {b}
                    /\ onDisk' = [onDisk EXCEPT !.free = freeBlocks']
                    /\ UNCHANGED ranOut
                    /\ inodes' = [inodes EXCEPT ![x].direct[r.i] = -1]
                    /\ Goto(t, [r EXCEPT !.i = @ + 1], "free")
                    /\ UNCHANGED fault
             ELSE /\ inodes' = [inodes EXCEPT ![x].size = 0, ![x].bytes = 0,
                        ![x].references = 0, ![x].free = TRUE]
                  /\ disk_update_inode(x)
                  /\ AfterUnlink(t, r)
                  /\ UNCHANGED <<bitmap, fault>>
        /\ UNCHANGED <<entries, handles, requests_, deleted, rest>>

-----------------------------------------------------------------------------
(* The calls of a thread.  A thread has one file open; a directory gets no *)
(* more entries than its first block holds whole, a file no more blocks    *)
(* than the inode lists; calls of different threads are about different    *)
(* directories (nothing in the code orders them in one; README, 5).        *)
Call(t, area, r, pc) ==
    /\ Ready
    /\ t \in active
    /\ th[t].pc = "idle"
    /\ calls + Cardinality(active) <= MaxCalls
    /\ \A u \in active \ {t} : th[u].area \cap area = {}
    /\ calls' = calls + 1
    /\ Goto(t, [r EXCEPT !.area = area], pc)
    /\ UNCHANGED <<onDisk, entries, cwd, requests_, boot, outstanding, active,
                   crashes, deleted, fault>>

OnName(t, op, mode) ==
    /\ \E n \in Names :
          Call(t, {cwd[t]}, [Idle EXCEPT !.op = op, !.mode = mode, !.path = <<n>>,
                                        !.on = cwd[t]], "scan")
    /\ UNCHANGED <<memory, file>>

Room(t) == Entries(cwd[t]) < Cardinality(Slots)

minifile_creat(t) == file[t] = NoFile /\ Room(t) /\ OnName(t, "creat", "none")
minifile_open(t) ==
    /\ file[t] = NoFile
    /\ \E mode \in {"r", "r+", "w", "a"} :
          (mode \in {"w", "a"} => Room(t)) /\ OnName(t, "open", mode)
minifile_unlink(t) == OnName(t, "unlink", "none")
minifile_mkdir(t) == Room(t) /\ OnName(t, "mkdir", "none")
minifile_rmdir(t) == OnName(t, "rmdir", "none")

(* resolve_pathname: where a path starts, and its components.  A path that *)
(* starts with / or . is copied without its end, so that its last          *)
(* component may go on with what the stack held.                           *)
Starts(t) ==
    {[at |-> cwd[t], copied |-> FALSE], [at |-> cwd[t], copied |-> TRUE],
     [at |-> 0, copied |-> TRUE]}
    \cup IF cwd[t] = 0 THEN {} ELSE {[at |-> inodes[cwd[t]].parent, copied |-> TRUE]}

minifile_walk(t, op) ==
    /\ \E s \in Starts(t), n \in Names \cup {""}, m \in Names \cup {"", "garbage"} :
          /\ n = "" => m = "" /\ s.copied
          /\ m = "garbage" => s.copied
          /\ Call(t, Inodes, [Idle EXCEPT !.op = op, !.on = s.at, !.found = TRUE,
                !.path = SelectSeq(<<n, m>>, LAMBDA c : c # "")], "scan")
    /\ UNCHANGED <<memory, file>>

minifile_cd(t) == minifile_walk(t, "cd")
minifile_ls(t) == minifile_walk(t, "ls")
minifile_stat(t) == minifile_walk(t, "stat")

Area(t) == {file[t].inode, inodes[file[t].inode].parent}

minifile_read(t) ==
    /\ file[t] # NoFile
    /\ \E len \in Lengths :
          LET f == file[t]
              there == inodes[f.inode].bytes - f.position
              amount == IF len > there THEN there ELSE len
          IN  Call(t, Area(t),
                   IF there <= 0 THEN Idle
                   ELSE [Idle EXCEPT !.op = "read", !.target = f.inode,
                           !.cur = f.position \div BLOCK, !.offset = f.position % BLOCK,
                           !.left = amount, !.end = f.position + amount],
                   IF there <= 0 THEN "return" ELSE "read")
    /\ UNCHANGED <<memory, file>>

minifile_write(t) ==
    /\ file[t] # NoFile
    /\ inodes[file[t].inode].type = "REGULARFILE"
    /\ \E len \in Lengths :
          LET f == file[t]
          IN  /\ f.position + len <= TABLE_SIZE * BLOCK
              /\ Call(t, Area(t),
                      IF f.type = "READ" THEN Idle
                      ELSE [Idle EXCEPT !.op = "write", !.target = f.inode,
                              !.cur = f.position \div BLOCK, !.offset = f.position % BLOCK,
                              !.left = len, !.end = f.position + len],
                      IF f.type = "READ" THEN "return" ELSE "write")
    /\ UNCHANGED <<memory, file>>

minifile_close(t) ==
    LET x == file[t].inode
    IN  /\ file[t] # NoFile
        /\ file' = [file EXCEPT ![t] = NoFile]
        /\ inodes' = IF inodes[x].free THEN inodes
                     ELSE [inodes EXCEPT ![x].references = @ - 1]
        /\ Call(t, Area(t), [Idle EXCEPT !.op = "close", !.inode = x],
                IF inodes'[x].references = 0 /\ ~inodes[x].free THEN "free" ELSE "return")
        /\ UNCHANGED bitmap

Returns(t) ==
    /\ At(t, "return")
    /\ Return(t)
    /\ UNCHANGED <<memory, onDisk, entries, handles, requests_, deleted, fault, rest>>

(* minifile_pwd follows the parents of the current directory to the root.  *)
minifile_pwd(t) ==
    LET cur[i \in 0 .. NumInodes] == IF i = 0 THEN cwd[t] ELSE inodes[cur[i - 1]].parent
    IN  {i \in 0 .. NumInodes : cur[i] = 0}

Calls(t) ==
    \/ minifile_creat(t) \/ minifile_open(t) \/ minifile_unlink(t)
    \/ minifile_mkdir(t) \/ minifile_rmdir(t)
    \/ minifile_cd(t) \/ minifile_ls(t) \/ minifile_stat(t)
    \/ minifile_read(t) \/ minifile_write(t) \/ minifile_close(t)

Continues(t) ==
    \/ Scan(t) \/ Wake(t) \/ Allocate(t) \/ Made(t) \/ Write(t) \/ Put(t)
    \/ Update(t) \/ Read(t) \/ Shift(t) \/ Free(t) \/ Returns(t)

FileNext ==
    \/ setup_superblock \/ setup_inode \/ setup_bitmap \/ Crash
    \/ handle_disk_response
    \/ \E t \in Users : Calls(t) \/ Continues(t)

FileSpec == FileInit /\ [][FileNext]_fileVars

-----------------------------------------------------------------------------
Live == {x \in Inodes : ~inodes[x].free}
BlocksOf(direct) == {direct[k] : k \in DOMAIN direct} \ {-1}
Listed(table, x) ==
    {entries[x][s] : s \in {s \in Slots : s < table[x].bytes \div ENTRY}}
Directories(table) == {x \in Inodes : ~table[x].free /\ table[x].type = "DIRECTORY"}
Shifting(x) == \E t \in Users : th[t].op \in {"unlink", "rmdir"} /\ th[t].on = x
                                  /\ th[t].pc \notin {"scan", "free"}

NoBlockShared(table, free) ==
    \A x \in Inodes : ~table[x].free =>
        /\ BlocksOf(table[x].direct) \cap free = {}
        /\ \A y \in Inodes \ {x} : ~table[y].free =>
              BlocksOf(table[x].direct) \cap BlocksOf(table[y].direct) = {}
        /\ \A j, k \in DOMAIN table[x].direct :
              j # k /\ table[x].direct[j] # -1 => table[x].direct[j] # table[x].direct[k]

(* No block is in two files, twice in one, or in a file and free, whatever *)
(* is created, written, unlinked and closed at the same time.              *)
BlocksDisjoint == boot = "ready" => NoBlockShared(inodes, freeBlocks)

(* A regular file in use has a reference for each open handle and one for  *)
(* its entry: unlink and close never free a file that is still in use.     *)
RefsCoverUses ==
    boot = "ready" =>
        \A x \in Inodes :
            LET handlesOf == {t \in Users : file[t].inode = x}
                listedIn == {d \in Directories(inodes) :
                               \E e \in Listed(inodes, d) : e.inode = x}
            IN  /\ handlesOf # {} \/ listedIn # {} => x \in Live
                /\ x \in Live /\ inodes[x].type = "REGULARFILE" =>
                      inodes[x].references >= Cardinality(handlesOf) + Cardinality(listedIn)

FileTypeOK ==
    /\ inodes \in [Inodes -> [type : {"REGULARFILE", "DIRECTORY"}, free : BOOLEAN,
          references : Nat, size : 0 .. TABLE_SIZE + 1, bytes : 0 .. TABLE_SIZE * BLOCK,
          parent : Inodes, direct : [0 .. TABLE_SIZE - 1 -> -1 .. Bits - 1]]]
    /\ freeBlocks \subseteq 0 .. Bits - 1
    /\ boot \in {"superblock", "inodes", "bitmap", "ready", "exited"}
    /\ outstanding \in 0 .. NumInodes
    /\ cwd \in [Users -> Inodes]
    /\ \A t \in Users : file[t].inode \in {-1} \cup Inodes
    /\ blockMutex \in [0 .. NumData - 1 -> Nat]

(* Every entry leads to an inode that is in use and has this directory for *)
(* its parent, no name is listed twice, and so pwd comes to an end; sizes  *)
(* and block numbers stay within the inode.                                *)
TreeIsRooted ==
    /\ FileTypeOK
    /\ boot = "ready" =>
        /\ \A d \in Directories(inodes) :
              /\ \A e \in Listed(inodes, d) : e.inode \in Live /\ inodes[e.inode].parent = d
              /\ Shifting(d) \/ \A i, j \in 0 .. Entries(d) - 1 :
                    i # j => entries[d][i].name # entries[d][j].name
        /\ \A t \in Users : minifile_pwd(t) # {}

(* A thread that gets the semaphore of its block has the data of the       *)
(* block: the answers of other reads never wake it.                        *)
ReaderHasItsBlock ==
    \A t \in Users :
        th[t].pc = "wait" /\ blockMutex[th[t].blk] > 0 => th[t].got

(* As long as nothing was removed, what the threads have put on the disk   *)
(* is a file system at every moment: no block shared or free in use, every *)
(* entry of a written directory leads to a written inode.                  *)
DiskAlwaysSound ==
    ~deleted =>
        /\ NoBlockShared(onDisk.inodes, onDisk.free)
        /\ \A d \in Directories(onDisk.inodes) :
              \A e \in Listed(onDisk.inodes, d) : ~onDisk.inodes[e.inode].free

(* A call leaves the memory it owns only when inodes or blocks have run    *)
(* out, or when its file has a block that is not on the disk or claims     *)
(* more than its blocks hold, which is what a write that starts inside a   *)
(* block and ends behind it leaves (PutBlock).                             *)
Exhausted == \A x \in Inodes \ {0} : ~inodes[x].free
ClaimsTooMuch(x) ==
    \/ \E b \in BlocksOf(inodes[x].direct) : b >= NumData
    \/ inodes[x].bytes > BLOCK * Cardinality(BlocksOf(inodes[x].direct))
FaultIsExplained ==
    /\ fault = "null" => Exhausted
    /\ fault \in {"bitmap", "shift"} => ranOut
    /\ fault = "semaphore" =>
          \E t \in Users : \E x \in {th[t].target, th[t].on} : ClaimsTooMuch(x)

(* Every call returns (or leaves its memory, or the machine crashes).      *)
CallEnds == \A t \in Users : (th[t].pc # "idle") ~> (th[t].pc = "idle" \/ fault # "none")
=============================================================================
