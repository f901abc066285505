--------------------------- MODULE MiniFileProofs ---------------------------
(***************************************************************************)
(* Theorems about MiniFile, for any threads, inodes, blocks and sizes.     *)
(*                                                                         *)
(* What a call may rely on between two of its steps is said per thread:    *)
(* where it is in an unlink or rmdir (Removing), with the hole in the      *)
(* directory that the next entry is moved into; the inode it makes, which  *)
(* no directory lists yet (Creating); the inode it frees, which none       *)
(* lists any more.                                                         *)
(*                                                                         *)
(* What a thread that waits may rely on is said in KInv: its block is      *)
(* one of an inode of its call, and the semaphore of the block counts only *)
(* what the disk has answered.                                             *)
(***************************************************************************)
EXTENDS MiniFile, FiniteSetTheorems, WellFoundedInduction, TLAPS

NumSlots == BLOCK \div ENTRY
Fields == {"pc", "op", "mode", "path", "area", "on", "i", "found", "inode", "entry", "target",
           "cur", "offset", "left", "end", "then", "blk", "got"}
NameOps == {"creat", "open", "unlink", "mkdir", "rmdir"}

Waits(r, what) == r.pc = "wait" /\ r.then = what
Writing(r) == r.pc \in {"write", "put", "update"} \/ Waits(r, "put")
Removing(r) == r.op \in {"unlink", "rmdir"} /\ (r.pc = "shift" \/ Waits(r, "shift") \/ Writing(r))
Creating(r) == r.op \in {"creat", "mkdir"} /\ (r.pc = "made" \/ Writing(r))
Private(r) == Creating(r) \/ r.pc = "free"

(* The slot whose entry is the removed one, or a copy of the one before.   *)
Hole(r) == IF r.pc = "update" THEN r.i ELSE r.i - 1

(* The entries of a directory in a table of inodes; the inodes that are    *)
(* listed, or still are on the account of the call that unlists them.      *)
Filled(tb, d) == tb[d].bytes \div ENTRY
Has(tb, d, s) == s \in Slots /\ s < Filled(tb, d)
ListedIn(tb, x) == \E s \in Slots : Has(tb, tb[x].parent, s) /\ entries[tb[x].parent][s].inode = x
Unlisting(x) == \E t \in Users : Removing(th[t]) /\ th[t].inode = x
Owed(x) == ListedIn(inodes, x) \/ Unlisting(x)
Handles(x) == {t \in Users : file[t].inode = x}

InodeFields == {"type", "free", "references", "size", "bytes", "parent", "direct"}
InodeOK(n) ==
  /\ DOMAIN n = InodeFields
  /\ n.type \in {"REGULARFILE", "DIRECTORY"}
  /\ n.references \in Int /\ n.size \in Int /\ n.parent \in Inodes
  /\ n.direct \in [0 .. TABLE_SIZE - 1 -> Nat \cup {-1}]
TableOK(tb) == tb = [x \in Inodes |-> tb[x]] /\ \A x \in Inodes : InodeOK(tb[x])
FileOK(f) ==
  /\ f = [inode |-> f.inode, type |-> f.type, position |-> f.position]
  /\ f.inode \in Inodes \/ f = NoFile

Shape ==
  /\ TableOK(inodes) /\ TableOK(onDisk.inodes)
  /\ onDisk = [inodes |-> onDisk.inodes, free |-> onDisk.free, super |-> onDisk.super]
  /\ freeBlocks \subseteq Nat
  /\ entries = [x \in Inodes |-> [s \in Slots |-> entries[x][s]]]
  /\ \A x \in Inodes, s \in Slots : entries[x][s].inode \in Inodes
  /\ th = [t \in Users |-> th[t]]
  /\ cwd \in [Users -> Inodes]
  /\ file = [t \in Users |-> file[t]] /\ \A t \in Users : FileOK(file[t])
  /\ deleted \in BOOLEAN

(* A table whose directories make sense: each inode in use has a directory *)
(* for its parent, which is the only one that may list it.                 *)
Rooted(tb) ==
  /\ 0 \in Directories(tb)
  /\ \A x \in Inodes : ~tb[x].free => tb[x].parent \in Directories(tb)
  /\ \A d \in Directories(tb) : \E n \in 0 .. NumSlots : tb[d].bytes = n * ENTRY
  /\ \A d \in Directories(tb) : \A s \in Slots : Has(tb, d, s) =>
        ~tb[entries[d][s].inode].free /\ tb[entries[d][s].inode].parent = d

(* No inode is listed twice, but for the hole of a call that removes one.  *)
Doubled(tb, d, i, j) == Has(tb, d, i) /\ Has(tb, d, j) /\ entries[d][i].inode = entries[d][j].inode
DistinctOn(tb) == \A d \in Directories(tb) : \A i, j \in Slots : Doubled(tb, d, i, j) => i = j
InHole(d, i, j) == \E t \in Users : Removing(th[t]) /\ th[t].on = d /\ Hole(th[t]) \in {i, j}
DistinctUp ==
  \A d \in Directories(inodes) : \A i, j \in Slots :
    Doubled(inodes, d, i, j) => i = j \/ InHole(d, i, j)

Claims(x) == IF inodes[x].type = "DIRECTORY" \/ Owed(x) THEN 1 ELSE 0
RefsOK(x) == ~inodes[x].free => inodes[x].references >= Cardinality(Handles(x)) + Claims(x)

HandleOK(t) ==
  file[t].inode # -1 =>
     /\ ~inodes[file[t].inode].free
     /\ ~deleted => Owed(file[t].inode) \/ inodes[file[t].inode].type = "DIRECTORY"

-----------------------------------------------------------------------------
(* Where a call may be, and what it works on.                              *)
Pcs == {"idle", "scan", "wait", "allocate", "made", "write", "put", "update", "read", "shift",
        "free", "return"}
Legal(r) ==
  /\ DOMAIN r = Fields
  /\ r.pc \in Pcs
  /\ r.pc = "wait" => r.then \in {"entry", "shift", "put", "data", "list"}
  /\ r.pc = "idle" => r.op = "none"
  /\ r.pc = "return" => r.op \in {"none", "close"}
  /\ r.pc = "scan" \/ Waits(r, "entry") => r.op \in NameOps \cup Walks
  /\ Waits(r, "list") => r.op \in Walks
  /\ r.pc \in {"allocate", "made"} => r.op \in {"creat", "mkdir"}
  /\ Writing(r) => r.op \in {"creat", "mkdir", "unlink", "rmdir", "write"}
  /\ r.pc = "shift" \/ Waits(r, "shift") => r.op \in {"unlink", "rmdir"}
  /\ r.pc = "read" \/ Waits(r, "data") => r.op = "read"
  /\ r.pc = "free" => r.op \in {"unlink", "close"}
  /\ r.mode \in {"w", "a"} => r.op \in NameOps
  /\ r.area \subseteq Inodes /\ r.on \in Inodes /\ r.inode \in Inodes /\ r.target \in Inodes
  /\ r.i \in Nat /\ r.entry.inode \in Inodes
  /\ r.area = {} <=> r.pc = "idle"

Works(t, r) ==
  /\ r.op \in NameOps => r.on = cwd[t] /\ r.on \in r.area
  /\ r.op \in Walks => r.area = Inodes /\ ~inodes[r.on].free
  /\ r.op \in {"creat", "mkdir"} \/ r.mode \in {"w", "a"} => Filled(inodes, r.on) < NumSlots
  /\ Waits(r, "entry") => r.i < Filled(inodes, r.on) /\ r.on \in Directories(inodes)
  /\ Waits(r, "shift") => r.i < Filled(inodes, r.on)
  /\ r.op \in {"read", "write"} => file[t].inode # -1
  /\ r.op = "write" => /\ inodes[file[t].inode].type = "REGULARFILE"
                       /\ r.target = file[t].inode /\ r.target \in r.area
  /\ r.op \in NameOps /\ Writing(r) =>
       /\ r.target = r.on
       /\ r.pc # "update" => r.left = ENTRY

RemovesOne(r) ==
  Removing(r) =>
    /\ r.i > 0 /\ Hole(r) < Filled(inodes, r.on)
    /\ ~inodes[r.inode].free /\ inodes[r.inode].parent = r.on
    /\ r.op = "unlink" => inodes[r.inode].type = "REGULARFILE"
    /\ \A s \in Slots : Has(inodes, r.on, s) /\ s # Hole(r) => entries[r.on][s].inode # r.inode
    /\ \/ entries[r.on][Hole(r)].inode = r.inode
       \/ Hole(r) > 0 /\ entries[r.on][Hole(r) - 1].inode = entries[r.on][Hole(r)].inode
    /\ Writing(r) => r.i < Filled(inodes, r.on) /\ r.end = r.i * ENTRY
    /\ Writing(r) /\ r.pc # "update" =>
         r.offset \div ENTRY = r.i - 1 /\ r.entry.inode = entries[r.on][r.i].inode

(* The inode x is nobody's but the thread's that makes or frees it.        *)
Unknown(x) == Handles(x) = {} /\ ~Owed(x)
Untrodden(x) ==
  /\ \A u \in Users : cwd[u] # x
  /\ \A y \in Inodes : ~inodes[y].free => inodes[y].parent # x

MakesOne(r) ==
  Creating(r) =>
    /\ r.inode # 0 /\ ~inodes[r.inode].free /\ inodes[r.inode].parent = r.on
    /\ inodes[r.inode].type = IF r.op = "mkdir" THEN "DIRECTORY" ELSE "REGULARFILE"
    /\ inodes[r.inode].references = 1
    /\ Unknown(r.inode) /\ Untrodden(r.inode)
    /\ r.entry.inode = r.inode
    /\ Writing(r) => r.end = inodes[r.on].bytes + ENTRY
    /\ Writing(r) /\ r.pc # "update" => r.offset \div ENTRY = Filled(inodes, r.on)
    /\ r.pc = "update" => entries[r.on][Filled(inodes, r.on)].inode = r.inode

FreesOne(r) ==
  r.pc = "free" =>
    /\ deleted /\ ~inodes[r.inode].free /\ inodes[r.inode].type = "REGULARFILE"
    /\ Unknown(r.inode)

Fits(t, r) == Legal(r) /\ Works(t, r) /\ RemovesOne(r) /\ MakesOne(r) /\ FreesOne(r)
LocalInv(t) == Fits(t, th[t]) /\ (t \notin active => th[t].pc = "idle")

Apart(t, u) ==
  /\ th[t].area \cap th[u].area = {}
  /\ Private(th[t]) /\ Private(th[u]) => th[t].inode # th[u].inode

-----------------------------------------------------------------------------
(* While nothing was removed the disk lags behind memory by what the calls *)
(* under way have yet to write, and by nothing that makes it unsound.      *)
Matches(d, m) ==
  /\ ~m.free /\ d.type = m.type /\ d.parent = m.parent /\ d.bytes = m.bytes
  /\ d.references >= 1
  /\ \A k \in 0 .. TABLE_SIZE - 1 : d.direct[k] # -1 => d.direct[k] = m.direct[k]
Making(x) == \E t \in Users : th[t].pc = "made" /\ th[t].inode = x
Written ==
  \A x \in Inodes :
    /\ ~onDisk.inodes[x].free => Matches(onDisk.inodes[x], inodes[x])
    /\ ~inodes[x].free /\ ~Making(x) => ~onDisk.inodes[x].free

TreeInv ==
  /\ Rooted(inodes) /\ DistinctUp
  /\ \A x \in Inodes : RefsOK(x)
  /\ \A t \in Users : HandleOK(t) /\ cwd[t] \in Directories(inodes)
ThreadsInv ==
  /\ \A t \in Users : LocalInv(t)
  /\ \A t, u \in Users : t # u => Apart(t, u)
BlocksInv ==
  /\ onDisk.free = freeBlocks
  /\ NoBlockShared(inodes, freeBlocks)
  /\ ~deleted => Written

(* Before the file system is up, the disk is one that memory can be read   *)
(* from, and nobody uses it.                                               *)
AtRest ==
  /\ th = [t \in Users |-> Idle]
  /\ cwd = [t \in Users |-> 0]
  /\ file = [t \in Users |-> NoFile]
ImageInv ==
  /\ AtRest /\ ~deleted
  /\ onDisk.free \subseteq Nat
  /\ Rooted(onDisk.inodes) /\ NoBlockShared(onDisk.inodes, onDisk.free) /\ DistinctOn(onDisk.inodes)
  /\ \A x \in Inodes : ~onDisk.inodes[x].free => onDisk.inodes[x].references >= 1
  /\ boot = "bitmap" => inodes = onDisk.inodes

IInv == Shape /\ IF boot = "ready" THEN TreeInv /\ ThreadsInv /\ BlocksInv ELSE ImageInv

-----------------------------------------------------------------------------
(* Sizes.  Multiples of an entry, and what division makes of them.         *)
LEMMA Sizes ==
  /\ ENTRY \in Nat \ {0} /\ BLOCK \in Nat \ {0} /\ ENTRY < BLOCK
  /\ NumSlots \in Nat /\ 2 <= NumSlots /\ Slots = 0 .. NumSlots - 1
<1>1. ENTRY \in Nat \ {0} /\ BLOCK \in Nat /\ 2 * ENTRY <= BLOCK
  BY MiniFileAssumption
<1>2. BLOCK \div ENTRY \in Nat
  BY <1>1
<1>3. 2 <= BLOCK \div ENTRY
  BY <1>1
<1> QED
  BY <1>1, <1>2, <1>3 DEF NumSlots, Slots

(* Positions at the edge of an entry.                                      *)
LEMMA Multiple ==
  ASSUME NEW n \in Nat
  PROVE  /\ n * ENTRY \in Nat /\ (n * ENTRY) \div ENTRY = n
         /\ (n + 1) * ENTRY = n * ENTRY + ENTRY
         /\ n < NumSlots => n * ENTRY + ENTRY <= BLOCK
<1>1. ENTRY \in Nat \ {0} /\ BLOCK \in Nat
  BY Sizes
<1>2. n * ENTRY \in Nat /\ (n + 1) * ENTRY = n * ENTRY + ENTRY
  BY <1>1
<1>3. (n * ENTRY) \div ENTRY = n
  BY <1>1
<1>4. n < NumSlots => n * ENTRY + ENTRY <= BLOCK
  BY <1>1 DEF NumSlots
<1> QED
  BY <1>2, <1>3, <1>4

(* A slot of the first block is written at its place.                      *)
LEMMA SlotPlace ==
  ASSUME NEW n \in 0 .. NumSlots - 1
  PROVE  ((n * ENTRY) % BLOCK) \div ENTRY = n
<1>1. n \in Nat /\ n < NumSlots
  BY Sizes
<1>2. n * ENTRY \in Nat /\ n * ENTRY + ENTRY <= BLOCK /\ (n * ENTRY) \div ENTRY = n
  BY <1>1, Multiple
<1> DEFINE a == n * ENTRY
<1>3. a \in Nat /\ a < BLOCK /\ BLOCK \in Nat \ {0}
  BY <1>2, Sizes
<1> HIDE DEF a
<1>4. a % BLOCK = a
  BY <1>3
<1> QED
  BY <1>2, <1>4 DEF a

(* The entries of a directory fill whole slots of its first block.         *)
LEMMA FilledIs ==
  ASSUME NEW tb, Rooted(tb), NEW d \in Directories(tb)
  PROVE  Filled(tb, d) \in 0 .. NumSlots /\ tb[d].bytes = Filled(tb, d) * ENTRY
<1>1. PICK n \in 0 .. NumSlots : tb[d].bytes = n * ENTRY
  BY DEF Rooted
<1>2. (n * ENTRY) \div ENTRY = n
  BY Multiple, Sizes
<1> QED
  BY <1>1, <1>2 DEF Filled

(* What allocate_block and allocate_inode pick is one of those there are.  *)
LEMMA LeastIn ==
  ASSUME NEW S \in SUBSET Nat, S # {}
  PROVE  Least(S) \in S /\ \A x \in S : Least(S) <= x
<1>1. PICK s \in S : \A x \in S : ~(<<x, s>> \in OpToRel(<, Nat))
  BY NatLessThanWellFounded, WFMin
<1>2. \A x \in S : s <= x
  <2>1. SUFFICES ASSUME NEW x \in S PROVE s <= x
    OBVIOUS
  <2>2. ~(x < s)
    BY <1>1 DEF OpToRel
  <2> QED
    BY <2>2
<1> QED
  BY <1>2 DEF Least

(* allocate_block finds a free block, if there is one.                     *)
LEMMA Found ==
  ASSUME freeBlocks \subseteq Nat
  PROVE  \/ allocate_block \in freeBlocks
         \/ allocate_block = -1 /\ freeBlocks = {}
BY LeastIn DEF allocate_block

-----------------------------------------------------------------------------
(* A thread goes on without changing anything but its own place: roles are *)
(* kept, except that a listed inode may begin to be removed.               *)
Alike(r, s) ==
  /\ Removing(r) => Removing(s) /\ s.inode = r.inode /\ s.on = r.on /\ Hole(s) = Hole(r)
  /\ Removing(s) /\ ~Removing(r) => ListedIn(inodes, s.inode)
  /\ Creating(s) => Creating(r) /\ s.inode = r.inode
  /\ s.pc = "free" => r.pc = "free" /\ s.inode = r.inode
  /\ r.pc = "made" <=> s.pc = "made"
  /\ r.pc = "made" => s.inode = r.inode

Quiet == UNCHANGED <<inodes, freeBlocks, onDisk, entries, boot, active, deleted>>

(* A step that only moves its thread (and its handle, and its directory).  *)
LEMMA MoveKeeps ==
  ASSUME IInv, boot = "ready", Quiet,
         NEW t \in Users, NEW r, th' = [th EXCEPT ![t] = r],
         cwd' \in [Users -> Inodes], \A u \in Users \ {t} : cwd'[u] = cwd[u],
         r.op \in NameOps \/ Creating(r) => cwd'[t] = cwd[t], cwd'[t] \in Directories(inodes),
         \A u \in Users : Creating(th[u]) => th[u].inode # cwd'[t],
         file' = [u \in Users |-> file'[u]],
         \A u \in Users : FileOK(file'[u]) /\ file'[u].inode = file[u].inode,
         Fits(t, r), Alike(th[t], r),
         \A u \in Users \ {t} : r.area \cap th[u].area = {},
         t \notin active => r.pc = "idle"
  PROVE  IInv'
<1>1. Shape /\ TreeInv /\ ThreadsInv /\ BlocksInv
  BY DEF IInv
<1>2. /\ inodes' = inodes /\ freeBlocks' = freeBlocks /\ onDisk' = onDisk /\ entries' = entries
      /\ boot' = boot /\ active' = active /\ deleted' = deleted
  BY DEF Quiet
<1>3. /\ th'[t] = r /\ \A u \in Users \ {t} : th'[u] = th[u]
      /\ th' = [u \in Users |-> th'[u]]
  BY <1>1 DEF Shape
<1>4. Shape'
  BY <1>1, <1>2, <1>3 DEF Shape
<1>5. ASSUME NEW x PROVE ListedIn(inodes, x)' <=> ListedIn(inodes, x)
  BY <1>2 DEF ListedIn, Has, Filled
<1>6. ASSUME NEW x PROVE Owed(x)' <=> Owed(x)
  <2>1. Unlisting(x)' => Owed(x)
    <3>1. SUFFICES ASSUME NEW u \in Users, Removing(th'[u]), th'[u].inode = x PROVE Owed(x)
      BY DEF Unlisting
    <3>2. CASE u # t
      BY <1>3, <3>1, <3>2 DEF Owed, Unlisting
    <3>3. CASE u = t /\ Removing(th[t])
      BY <1>3, <3>1, <3>3 DEF Owed, Unlisting, Alike
    <3>4. CASE u = t /\ ~Removing(th[t])
      BY <1>3, <3>1, <3>4 DEF Owed, Alike
    <3> QED
      BY <3>2, <3>3, <3>4
  <2>2. Unlisting(x) => Unlisting(x)'
    <3>1. SUFFICES ASSUME NEW u \in Users, Removing(th[u]), th[u].inode = x
                   PROVE  \E w \in Users : Removing(th'[w]) /\ th'[w].inode = x
      BY DEF Unlisting
    <3>2. Removing(th'[u]) /\ th'[u].inode = x
      BY <1>3, <3>1 DEF Alike
    <3> QED
      BY <3>2
  <2> QED
    BY <1>5, <2>1, <2>2 DEF Owed
<1>7. ASSUME NEW x PROVE Handles(x)' = Handles(x)
  BY DEF Handles
<1>8. \A x \in Inodes : RefsOK(x)'
  BY <1>1, <1>2, <1>6, <1>7 DEF TreeInv, RefsOK, Claims
<1>9. \A u \in Users : HandleOK(u)' /\ cwd'[u] \in Directories(inodes)
  BY <1>1, <1>2, <1>6 DEF TreeInv, HandleOK
<1>10. Rooted(inodes)'
  BY <1>1, <1>2 DEF TreeInv, Rooted, Has, Filled, Directories
<1>11. DistinctUp'
  <2>1. ASSUME NEW d \in Directories(inodes), NEW i \in Slots, NEW j \in Slots,
               Doubled(inodes, d, i, j), InHole(d, i, j)
        PROVE  InHole(d, i, j)'
    <3>1. PICK u \in Users : Removing(th[u]) /\ th[u].on = d /\ Hole(th[u]) \in {i, j}
      BY <2>1 DEF InHole
    <3>2. Removing(th'[u]) /\ th'[u].on = d /\ Hole(th'[u]) \in {i, j}
      BY <1>3, <3>1 DEF Alike
    <3> QED
      BY <3>2 DEF InHole
  <2> QED
    BY <1>1, <1>2, <2>1 DEF TreeInv, DistinctUp, Doubled, Has, Filled, Directories
<1>12. TreeInv'
  BY <1>2, <1>8, <1>9, <1>10, <1>11 DEF TreeInv, Directories
<1>13. ASSUME NEW x PROVE Unknown(x)' <=> Unknown(x)
  BY <1>6, <1>7 DEF Unknown
<1>14. ASSUME NEW u \in Users, u # t PROVE LocalInv(u)'
  <2>1. LocalInv(u) /\ th'[u] = th[u] /\ cwd'[u] = cwd[u] /\ file'[u].inode = file[u].inode
    BY <1>1, <1>3, <1>14 DEF ThreadsInv
  <2>2. Works(u, th[u])'
    BY <1>2, <2>1 DEF LocalInv, Fits, Works, Filled, Directories
  <2>3. RemovesOne(th[u])'
    BY <1>2, <2>1 DEF LocalInv, Fits, RemovesOne, Has, Filled
  <2>4. Creating(th[u]) => Untrodden(th[u].inode)'
    BY <1>2, <2>1 DEF LocalInv, Fits, MakesOne, Untrodden
  <2>5. MakesOne(th[u])'
    BY <1>2, <1>13, <2>1, <2>4 DEF LocalInv, Fits, MakesOne, Filled
  <2>6. FreesOne(th[u])'
    BY <1>2, <1>13, <2>1 DEF LocalInv, Fits, FreesOne
  <2> QED
    BY <1>2, <2>1, <2>2, <2>3, <2>5, <2>6 DEF LocalInv, Fits
<1>15. LocalInv(t)'
  <2>1. th'[t] = r /\ file'[t].inode = file[t].inode
    BY <1>3
  <2>2. Works(t, r)'
    BY <1>2, <2>1 DEF Fits, Works, Filled, Directories, Creating
  <2>3. RemovesOne(r)'
    BY <1>2, <2>1 DEF Fits, RemovesOne, Has, Filled
  <2>4. Creating(r) => Untrodden(r.inode)'
    <3>1. Creating(r) => Creating(th[t]) /\ r.inode = th[t].inode
      BY DEF Alike
    <3> QED
      BY <1>2, <3>1 DEF Fits, MakesOne, Untrodden
  <2>5. MakesOne(r)'
    BY <1>2, <1>13, <2>1, <2>4 DEF Fits, MakesOne, Filled
  <2>6. FreesOne(r)'
    BY <1>2, <1>13, <2>1 DEF Fits, FreesOne
  <2> QED
    BY <1>2, <2>1, <2>2, <2>3, <2>5, <2>6 DEF LocalInv, Fits
<1>16. ASSUME NEW u \in Users, NEW w \in Users, u # w PROVE Apart(u, w)'
  <2>1. Apart(u, w)
    BY <1>1, <1>16 DEF ThreadsInv
  <2>2. th'[u].area \cap th'[w].area = {}
    BY <1>3, <1>16, <2>1 DEF Apart
  <2>3. ASSUME NEW v \in Users, Private(th'[v]) PROVE Private(th[v]) /\ th'[v].inode = th[v].inode
    BY <1>3, <2>3 DEF Alike, Private
  <2> QED
    BY <2>1, <2>2, <2>3 DEF Apart
<1>17. ThreadsInv'
  BY <1>14, <1>15, <1>16 DEF ThreadsInv
<1>18. BlocksInv'
  <2>1. ASSUME NEW x PROVE Making(x)' <=> Making(x)
    BY <1>3 DEF Making, Alike
  <2>2. Written => Written'
    BY <1>2, <2>1 DEF Written, Matches
  <2>3. NoBlockShared(inodes, freeBlocks)' <=> NoBlockShared(inodes, freeBlocks)
    BY <1>2
  <2> QED
    BY <1>1, <1>2, <2>2, <2>3 DEF BlocksInv
<1> QED
  BY <1>2, <1>4, <1>12, <1>17, <1>18 DEF IInv

-----------------------------------------------------------------------------
(* Nothing moves but the queue of the disk and the semaphores.             *)
LEMMA StayKeeps ==
  ASSUME IInv, UNCHANGED <<inodes, freeBlocks, onDisk, entries, boot, active, deleted, th, cwd, file>>
  PROVE  IInv'
<1>1. Shape' <=> Shape
  BY DEF Shape, InodeOK, TableOK, FileOK
<1>2. TreeInv' <=> TreeInv
  <2>1. ASSUME NEW x PROVE Owed(x)' <=> Owed(x)
    BY DEF Owed, ListedIn, Has, Filled, Unlisting
  <2>2. /\ Rooted(inodes)' <=> Rooted(inodes)
        /\ DistinctUp' <=> DistinctUp
        /\ Directories(inodes)' = Directories(inodes)
    BY DEF Rooted, DistinctUp, Directories, Has, Filled, Doubled, InHole
  <2>3. ASSUME NEW x PROVE RefsOK(x)' <=> RefsOK(x)
    BY <2>1 DEF RefsOK, Claims, Handles
  <2>4. ASSUME NEW u PROVE HandleOK(u)' <=> HandleOK(u)
    BY <2>1 DEF HandleOK
  <2> QED
    BY <2>2, <2>3, <2>4 DEF TreeInv
<1>3. ThreadsInv' <=> ThreadsInv
  <2>1. ASSUME NEW x PROVE (Unknown(x)' <=> Unknown(x)) /\ (Untrodden(x)' <=> Untrodden(x))
    BY DEF Unknown, Untrodden, Handles, Owed, ListedIn, Has, Filled, Unlisting
  <2>2. ASSUME NEW u PROVE LocalInv(u)' <=> LocalInv(u)
    BY <2>1 DEF LocalInv, Fits, Works, RemovesOne, MakesOne, FreesOne, Filled, Has, Directories
  <2> QED
    BY <2>2 DEF ThreadsInv, Apart
<1>4. BlocksInv' <=> BlocksInv
  BY DEF BlocksInv, NoBlockShared, BlocksOf, Written, Matches, Making
<1>5. ImageInv' <=> ImageInv
  BY DEF ImageInv, AtRest, NoBlockShared, BlocksOf, Rooted, Has, Filled, Directories, DistinctOn, Doubled
<1> QED
  BY <1>1, <1>2, <1>3, <1>4, <1>5 DEF IInv

(* What a call that is under way may rely on.                              *)
LEMMA Here ==
  ASSUME IInv, boot = "ready", NEW t \in Users
  PROVE  /\ Fits(t, th[t]) /\ LocalInv(t) /\ HandleOK(t)
         /\ cwd[t] \in Directories(inodes) /\ DOMAIN th[t] = Fields
         /\ file = [u \in Users |-> file[u]] /\ cwd \in [Users -> Inodes]
         /\ th = [u \in Users |-> th[u]]
         /\ \A u \in Users : FileOK(file[u])
         /\ \A u \in Users \ {t} : th[t].area \cap th[u].area = {}
         /\ t \notin active => th[t].pc = "idle"
<1>1. Shape /\ TreeInv /\ ThreadsInv
  BY DEF IInv
<1> QED
  BY <1>1 DEF Shape, TreeInv, ThreadsInv, LocalInv, Fits, Apart, Legal

(* A thread that walks the tree is alone, for it may go anywhere.          *)
LEMMA Alone ==
  ASSUME IInv, boot = "ready", NEW t \in Users, th[t].op \in Walks, NEW u \in Users \ {t}
  PROVE  th[u].pc = "idle"
<1>1. th[t].area = Inodes /\ th[t].area \cap th[u].area = {}
  BY Here DEF Fits, Works
<1>2. th[u].area \subseteq Inodes /\ (th[u].area = {} <=> th[u].pc = "idle")
  BY Here DEF Fits, Legal
<1> QED
  BY <1>1, <1>2

(* A thread without a call relies on nothing.                              *)
LEMMA IdleFits ==
  ASSUME NEW t
  PROVE  Fits(t, Idle) /\ Fits(t, Idle)'
<1>1. /\ DOMAIN Idle = Fields /\ Idle.pc = "idle" /\ Idle.op = "none" /\ Idle.mode = "none"
      /\ Idle.area = {} /\ Idle.on = 0 /\ Idle.inode = 0 /\ Idle.target = 0 /\ Idle.i = 0
      /\ Idle.entry.inode = 0
  BY DEF Idle, Fields, NoEntry
<1>2. 0 \in Inodes
  BY MiniFileAssumption DEF Inodes
<1>3. Legal(Idle)
  BY <1>1, <1>2 DEF Legal, Pcs, Waits, Writing, NameOps, Walks
<1>4. Works(t, Idle) /\ RemovesOne(Idle) /\ MakesOne(Idle) /\ FreesOne(Idle)
  BY <1>1 DEF Works, NameOps, Walks, Waits, RemovesOne, Removing, MakesOne, Creating, FreesOne, Writing
<1>5. Works(t, Idle)' /\ RemovesOne(Idle)' /\ MakesOne(Idle)' /\ FreesOne(Idle)'
  BY <1>1 DEF Works, NameOps, Walks, Waits, RemovesOne, Removing, MakesOne, Creating, FreesOne, Writing
<1> QED
  BY <1>3, <1>4, <1>5 DEF Fits

(* A call that has nothing to account for returns.                         *)
LEMMA ReturnKeeps ==
  ASSUME IInv, boot = "ready", Quiet, NEW t \in Users, Return(t), th[t].pc # "made",
         ~Removing(th[t]),
         cwd' \in [Users -> Inodes], \A u \in Users \ {t} : cwd'[u] = cwd[u],
         cwd'[t] # cwd[t] => th[t].op \in Walks, cwd'[t] \in Directories(inodes),
         file' = [u \in Users |-> file'[u]],
         \A u \in Users : FileOK(file'[u]) /\ file'[u].inode = file[u].inode
  PROVE  IInv'
<1>1. Idle.pc = "idle" /\ Idle.op = "none" /\ Idle.area = {}
  BY DEF Idle
<1>2. Alike(th[t], Idle)
  BY <1>1 DEF Alike, Removing, Private, Creating
<1>3. ASSUME NEW u \in Users, Creating(th[u]) PROVE th[u].inode # cwd'[t]
  <2>1. cwd'[t] = cwd[t]
    <3>1. SUFFICES ASSUME th[t].op \in Walks PROVE FALSE
      OBVIOUS
    <3>2. CASE u = t
      BY <1>3, <3>1, <3>2 DEF Creating, Walks
    <3>3. CASE u # t
      <4>1. th[u].pc = "idle"
        BY <3>1, <3>3, Alone
      <4> QED
        BY <1>3, <4>1 DEF Creating, Writing, Waits
    <3> QED
      BY <3>2, <3>3
  <2>2. MakesOne(th[u])
    BY Here DEF Fits
  <2> QED
    BY <1>3, <2>1, <2>2 DEF MakesOne, Untrodden
<1>4. Idle.op \notin NameOps /\ ~Creating(Idle)
  BY <1>1 DEF NameOps, Creating
<1> QED
  BY <1>1, <1>2, <1>3, <1>4, IdleFits, MoveKeeps DEF Return

(* It goes on to another place.                                            *)
LEMMA GotoKeeps ==
  ASSUME IInv, boot = "ready", Quiet, UNCHANGED handles, NEW t \in Users, NEW s,
         th' = [th EXCEPT ![t] = s],
         th[t].pc = "idle" => s.pc = "idle", s.area = th[t].area, Fits(t, s), Alike(th[t], s)
  PROVE  IInv'
<1>1. cwd' = cwd /\ file' = file
  BY DEF handles
<1>2. ASSUME NEW u \in Users, Creating(th[u]) PROVE th[u].inode # cwd'[t]
  <2>1. MakesOne(th[u])
    BY Here DEF Fits
  <2> QED
    BY <1>1, <1>2, <2>1 DEF MakesOne, Untrodden
<1> QED
  BY <1>1, <1>2, Here, MoveKeeps

-----------------------------------------------------------------------------
(* The steps that change nothing but the place of the thread.              *)
(* It waits for a block.                                                   *)
Waiting(r, b, what) == [r EXCEPT !.then = what, !.blk = b, !.got = FALSE, !.pc = "wait"]

(* A thread asks for a block.                                              *)
LEMMA WaitKeeps ==
  ASSUME IInv, boot = "ready", Quiet, UNCHANGED handles, NEW t \in Users, NEW b, NEW what,
         get_data_block(t, th[t], b, what),
         \/ /\ th[t].pc = "scan" /\ what = "entry"
            /\ th[t].i < Filled(inodes, th[t].on) /\ th[t].on \in Directories(inodes)
         \/ th[t].pc = "scan" /\ what = "list" /\ th[t].op \in Walks
         \/ th[t].pc = "write" /\ what = "put"
         \/ th[t].pc = "read" /\ what = "data"
         \/ th[t].pc = "shift" /\ what = "shift" /\ th[t].i < Filled(inodes, th[t].on)
  PROVE  IInv'
<1>1. CASE UNCHANGED th
  BY <1>1, StayKeeps DEF Quiet, handles
<1>2. CASE ~UNCHANGED th
  <2> DEFINE r == th[t]
             s == Waiting(r, b, what)
  <2>1. th' = [th EXCEPT ![t] = s]
    BY <1>2 DEF get_data_block, Goto, Fault, Waiting
  <2>2. Fits(t, r) /\ DOMAIN r = Fields
    BY Here
  <2>3. /\ DOMAIN s = Fields /\ s.pc = "wait" /\ s.then = what /\ s.op = r.op /\ s.mode = r.mode
        /\ s.area = r.area /\ s.on = r.on /\ s.i = r.i /\ s.inode = r.inode /\ s.entry = r.entry
        /\ s.target = r.target /\ s.offset = r.offset /\ s.left = r.left /\ s.end = r.end
    BY <2>2 DEF Waiting, Fields
  <2>4. Legal(r) /\ Works(t, r)
    BY <2>2 DEF Fits
  <2> HIDE DEF s
  <2>5. /\ Removing(s) <=> Removing(r)
        /\ Creating(s) <=> Creating(r)
        /\ Hole(s) = Hole(r) /\ (Writing(s) <=> Writing(r))
    BY <2>3, <2>4 DEF Removing, Creating, Hole, Writing, Waits, Legal, NameOps, Walks
  <2>6. Legal(s)
    BY <2>3, <2>4, <2>5 DEF Legal, Waits, Pcs, Writing, NameOps, Walks
  <2>7. Works(t, s)
    BY <2>3, <2>4, <2>5 DEF Works, Waits
  <2>8. RemovesOne(s) /\ MakesOne(s) /\ FreesOne(s)
    BY <2>2, <2>3, <2>5 DEF Fits, RemovesOne, MakesOne, FreesOne
  <2>9. Alike(r, s)
    BY <2>3, <2>5 DEF Alike
  <2> QED
    BY <2>1, <2>3, <2>6, <2>7, <2>8, <2>9, GotoKeeps DEF Fits
<1> QED
  BY <1>1, <1>2

(* It goes on with the next name or entry, or with another part of its     *)
(* call, or looks for an inode.                                            *)
LEMMA ScanKeeps ==
  ASSUME IInv, boot = "ready", Quiet, UNCHANGED handles, NEW t \in Users, NEW s,
         th' = [th EXCEPT ![t] = s],
         th[t].pc = "scan" \/ Waits(th[t], "entry") \/ Waits(th[t], "list"),
         DOMAIN s = Fields, s.pc \in {"scan", "allocate"}, s.mode = th[t].mode,
         s.area = th[t].area, s.inode \in Inodes, s.target = th[t].target, s.i \in Nat,
         s.entry = th[t].entry,
         \/ s.op = th[t].op
         \/ th[t].mode \in {"w", "a"} /\ s.op = "creat"
         \/ th[t].mode = "w" /\ s.op = "unlink",
         s.pc = "allocate" => s.op \in {"creat", "mkdir"},
         s.on = th[t].on \/ (th[t].op \in Walks /\ s.on \in Live)
  PROVE  IInv'
<1> DEFINE r == th[t]
<1>1. Fits(t, r) /\ Legal(r) /\ Works(t, r)
  BY Here DEF Fits
<1>2. ~Removing(r) /\ ~Removing(s) /\ ~Private(r) /\ ~Private(s) /\ ~Writing(s)
  BY DEF Removing, Private, Creating, Writing, Waits
<1>3. s.op = r.op \/ (r.op \in NameOps /\ s.op \in NameOps)
  BY <1>1 DEF Legal, NameOps
<1>4. s.on \in Inodes /\ (s.op \in Walks => s.on \in Inodes /\ ~inodes[s.on].free)
  <2>1. s.op \in Walks => r.op \in Walks
    BY <1>3 DEF NameOps, Walks
  <2> QED
    BY <1>1, <2>1 DEF Legal, Works, Live
<1>5. r.op \in NameOps \cup Walks
  BY <1>1 DEF Legal
<1>6. Legal(s)
  BY <1>1, <1>2, <1>3, <1>4, <1>5 DEF Legal, Pcs, Waits
<1>7. Works(t, s)
  <2>1. r.op \in NameOps => s.on = r.on
    BY DEF NameOps, Walks
  <2>2. s.op \in NameOps <=> r.op \in NameOps
    BY <1>3
  <2>3. s.op \in {"creat", "mkdir"} \/ s.mode \in {"w", "a"} =>
          r.op \in {"creat", "mkdir"} \/ r.mode \in {"w", "a"}
    OBVIOUS
  <2>4. s.op \in {"creat", "mkdir"} \/ s.mode \in {"w", "a"} => r.op \in NameOps
    BY <1>1, <2>3 DEF Legal, NameOps
  <2>5. s.op \notin {"read", "write"} /\ ~Waits(s, "entry") /\ ~Waits(s, "shift")
    BY <1>3, <1>5 DEF NameOps, Walks, Waits
  <2>6. s.op \in Walks => s.area = Inodes
    BY <1>1, <1>3 DEF Works, NameOps, Walks
  <2> QED
    BY <1>1, <1>2, <1>4, <2>1, <2>2, <2>3, <2>4, <2>5, <2>6 DEF Works
<1>8. RemovesOne(s) /\ MakesOne(s) /\ FreesOne(s)
  BY <1>2 DEF RemovesOne, MakesOne, FreesOne, Private
<1>9. Alike(r, s)
  BY <1>2 DEF Alike, Private, Waits
<1> QED
  BY <1>6, <1>7, <1>8, <1>9, GotoKeeps DEF Fits, Waits

(* The next entry of a directory is looked at, or the last was.            *)
LEMMA MissingKeeps ==
  ASSUME IInv, boot = "ready", Quiet, UNCHANGED handles, NEW t \in Users, th[t].pc = "scan",
         Missing(t, th[t])
  PROVE  IInv'
<1> DEFINE r == th[t]
<1>1. Fits(t, r) /\ Legal(r) /\ DOMAIN r = Fields
  BY Here DEF Fits
<1>2. CASE r.op \in {"creat", "mkdir"}
  <2> DEFINE s == [r EXCEPT !.pc = "allocate"]
  <2>1. /\ DOMAIN s = Fields /\ s.pc = "allocate" /\ s.op = r.op /\ s.mode = r.mode
        /\ s.area = r.area /\ s.on = r.on /\ s.i = r.i /\ s.inode = r.inode /\ s.entry = r.entry
        /\ s.target = r.target
    BY <1>1 DEF Fields
  <2>2. th' = [th EXCEPT ![t] = s]
    BY <1>2 DEF Missing, Goto, Walks
  <2> HIDE DEF s
  <2> QED
    BY <1>1, <1>2, <2>1, <2>2, ScanKeeps DEF Legal
<1>3. CASE r.op = "open" /\ r.mode \in {"w", "a"}
  <2> DEFINE s == [[r EXCEPT !.op = "creat", !.i = 0] EXCEPT !.pc = "scan"]
  <2>1. /\ DOMAIN s = Fields /\ s.pc = "scan" /\ s.op = "creat" /\ s.mode = r.mode
        /\ s.area = r.area /\ s.on = r.on /\ s.i = 0 /\ s.inode = r.inode /\ s.entry = r.entry
        /\ s.target = r.target
    BY <1>1 DEF Fields
  <2>2. th' = [th EXCEPT ![t] = s]
    BY <1>3 DEF Missing, Goto, Walks
  <2> HIDE DEF s
  <2>3. s.i \in Nat /\ s.inode \in Inodes
    BY <1>1, <2>1 DEF Legal
  <2> QED
    BY <1>3, <2>3, <2>1, <2>2, ScanKeeps DEF Legal
<1>4. CASE r.op \in Walks
  <2> DEFINE s == [[r EXCEPT !.path = Tail(@), !.i = 0, !.found = FALSE] EXCEPT !.pc = "scan"]
  <2>1. /\ DOMAIN s = Fields /\ s.pc = "scan" /\ s.op = r.op /\ s.mode = r.mode
        /\ s.area = r.area /\ s.on = r.on /\ s.i = 0 /\ s.inode = r.inode /\ s.entry = r.entry
        /\ s.target = r.target
    BY <1>1 DEF Fields
  <2>2. th' = [th EXCEPT ![t] = s]
    BY <1>4 DEF Missing, Goto, Walks
  <2> HIDE DEF s
  <2>3. s.i \in Nat /\ s.inode \in Inodes
    BY <1>1, <2>1 DEF Legal
  <2> QED
    BY <1>4, <2>3, <2>1, <2>2, ScanKeeps DEF Legal
<1>5. CASE ~(r.op \in {"creat", "mkdir"}) /\ ~(r.op = "open" /\ r.mode \in {"w", "a"}) /\ r.op \notin Walks
  <2>1. Return(t)
    BY <1>5 DEF Missing
  <2>2. ~Removing(r)
    BY DEF Removing, Writing, Waits
  <2> QED
    BY <2>1, <2>2, Here, ReturnKeeps DEF handles
<1> QED
  BY <1>2, <1>3, <1>4, <1>5

(* A round of the loop over the entries, before its block is asked for.    *)
LEMMA ScanStep ==
  ASSUME IInv, NEW t \in Users, Scan(t)
  PROVE  IInv'
<1> DEFINE r == th[t]
<1>1. boot = "ready" /\ r.pc = "scan"
  BY DEF Scan, At, Ready
<1>2. Quiet
  BY DEF Scan, Quiet, memory, bitmap, rest
<1>3. Fits(t, r) /\ Legal(r) /\ DOMAIN r = Fields /\ Works(t, r)
  BY <1>1, Here DEF Fits
<1>4. ~Removing(r)
  BY <1>1 DEF Removing, Writing, Waits
<1>5. file' = file
  BY DEF Scan
<1>6. CASE r.path = <<>> /\ Resolved(t, r)
  <2>1. r.found /\ r.op = "cd" /\ inodes[r.on].type = "DIRECTORY" => r.on \in Directories(inodes)
    BY <1>3 DEF Legal, Works, Walks, Directories
  <2>2. CASE r.found /\ r.op = "ls" /\ inodes[r.on].type = "DIRECTORY" /\ r.i < Entries(r.on)
    <3>1. cwd' = cwd /\ get_data_block(t, r, inodes[r.on].direct[0], "list")
      BY <1>6, <2>2 DEF Resolved
    <3> QED
      BY <1>1, <1>2, <1>5, <2>2, <3>1, WaitKeeps DEF handles, Walks
  <2>3. CASE ~(r.found /\ r.op = "ls" /\ inodes[r.on].type = "DIRECTORY" /\ r.i < Entries(r.on))
    <3>1. Return(t)
      BY <1>6, <2>3 DEF Resolved
    <3>2. cwd' = cwd \/ (r.op = "cd" /\ r.on \in Directories(inodes) /\ cwd' = [cwd EXCEPT ![t] = r.on])
      BY <1>6, <2>1 DEF Resolved
    <3>3. cwd \in [Users -> Inodes] /\ cwd[t] \in Directories(inodes)
      BY <1>1, Here
    <3>4. /\ cwd' \in [Users -> Inodes] /\ \A u \in Users \ {t} : cwd'[u] = cwd[u]
          /\ cwd'[t] # cwd[t] => r.op \in Walks
          /\ cwd'[t] \in Directories(inodes)
      BY <3>2, <3>3 DEF Walks, Directories
    <3>5. file' = [u \in Users |-> file'[u]] /\ \A u \in Users : FileOK(file'[u]) /\ file'[u].inode = file[u].inode
      BY <1>1, <1>5, Here
    <3> QED
      BY <1>1, <1>2, <1>4, <3>1, <3>4, <3>5, ReturnKeeps
  <2> QED
    BY <2>2, <2>3
<1>7. CASE r.path # <<>> /\ r.i >= Entries(r.on) /\ Missing(t, r) /\ UNCHANGED cwd
  BY <1>1, <1>2, <1>5, <1>7, MissingKeeps DEF handles
<1>8. CASE r.path # <<>> /\ r.i < Entries(r.on) /\ UNCHANGED cwd /\ Return(t)
  <2>1. UNCHANGED handles
    BY <1>5, <1>8 DEF handles
  <2> QED
    BY <1>1, <1>2, <1>4, <1>8, <2>1, Here, ReturnKeeps DEF handles
<1>9. CASE /\ r.path # <<>> /\ r.i < Entries(r.on) /\ UNCHANGED cwd
           /\ ~(r.op \in Walks /\ inodes[r.on].type # "DIRECTORY")
           /\ get_data_block(t, r, inodes[r.on].direct[0], "entry")
  <2>1. r.on \in Directories(inodes)
    <3>1. CASE r.op \in NameOps
      BY <1>1, <1>3, <3>1, Here DEF Works
    <3>2. CASE r.op \in Walks
      BY <1>3, <1>9, <3>2 DEF Works, Legal, Directories
    <3> QED
      BY <1>1, <1>3, <3>1, <3>2 DEF Legal
  <2> QED
    BY <1>1, <1>2, <1>5, <1>9, <2>1, WaitKeeps DEF handles, Entries, Filled
<1> QED
  BY <1>6, <1>7, <1>8, <1>9 DEF Scan

(* What the thread reads in a directory is one of its entries.             *)
LEMMA EntryThere ==
  ASSUME IInv, boot = "ready", NEW d \in Directories(inodes), NEW i \in Nat, i < Filled(inodes, d)
  PROVE  /\ i \in Slots /\ i \in 0 .. NumSlots - 1 /\ Has(inodes, d, i)
         /\ entries[d][i].inode \in Inodes /\ ~inodes[entries[d][i].inode].free
         /\ inodes[entries[d][i].inode].parent = d
         /\ ListedIn(inodes, entries[d][i].inode)
<1>1. Shape /\ Rooted(inodes)
  BY DEF IInv, TreeInv
<1>2. Filled(inodes, d) \in 0 .. NumSlots
  BY <1>1, FilledIs
<1>3. i \in Slots /\ i \in 0 .. NumSlots - 1
  BY <1>2, Sizes
<1>4. Has(inodes, d, i) /\ d \in Inodes
  BY <1>3 DEF Has, Directories
<1>5. entries[d][i].inode \in Inodes
  BY <1>1, <1>3, <1>4 DEF Shape
<1>6. ~inodes[entries[d][i].inode].free /\ inodes[entries[d][i].inode].parent = d
  BY <1>1, <1>3, <1>4 DEF Rooted
<1>7. ListedIn(inodes, entries[d][i].inode)
  BY <1>3, <1>4, <1>6 DEF ListedIn
<1> QED
  BY <1>3, <1>4, <1>5, <1>6, <1>7

(* A directory is in the hands of one thread.                              *)
LEMMA OneRemover ==
  ASSUME IInv, boot = "ready", NEW t \in Users, th[t].op \in NameOps, NEW u \in Users,
         th[u].op \in NameOps, th[u].on = th[t].on
  PROVE  u = t
<1>1. th[t].on \in th[t].area /\ th[u].on \in th[u].area
  BY Here DEF Fits, Works
<1> QED
  BY <1>1, Here

(* The entry was found that unlink or rmdir removes: the call takes it on  *)
(* its account.                                                            *)
LEMMA RemovesKeeps ==
  ASSUME IInv, boot = "ready", Quiet, UNCHANGED handles, NEW t \in Users,
         Waits(th[t], "entry"), th[t].op \in {"unlink", "rmdir"},
         NEW r, r = [th[t] EXCEPT !.inode = entries[th[t].on][th[t].i].inode],
         Removes(t, r)
  PROVE  IInv'
<1> DEFINE q == th[t]
           x == entries[q.on][q.i].inode
<1>1. Fits(t, q) /\ Legal(q) /\ DOMAIN q = Fields /\ Works(t, q) /\ q.pc = "wait" /\ q.then = "entry"
  BY Here DEF Fits, Waits
<1>2. q.i \in Nat /\ q.on \in Directories(inodes) /\ q.i < Filled(inodes, q.on) /\ q.op \in NameOps
      /\ q.op \in {"unlink", "rmdir"}
  BY <1>1 DEF Legal, Works, Waits, NameOps
<1>3. /\ x \in Inodes /\ ~inodes[x].free /\ inodes[x].parent = q.on /\ ListedIn(inodes, x)
      /\ q.i \in Slots /\ Has(inodes, q.on, q.i)
  BY <1>2, EntryThere
<1>4. /\ DOMAIN r = Fields /\ r.inode = x /\ r.pc = q.pc /\ r.then = q.then /\ r.op = q.op
      /\ r.mode = q.mode /\ r.area = q.area /\ r.on = q.on /\ r.i = q.i /\ r.entry = q.entry
      /\ r.target = q.target
  BY <1>1 DEF Fields
<1> HIDE DEF x, q
<1>5. ~Removing(q) /\ ~Private(q)
  BY <1>1 DEF Removing, Private, Creating, Writing, Waits
<1>6. CASE Return(t)
  BY <1>1, <1>5, <1>6, Here, ReturnKeeps DEF handles, q
<1>7. CASE AfterUnlink(t, r) /\ r.op = "unlink"
  <2>1. CASE r.mode = "w"
    <3> DEFINE s == [[r EXCEPT !.op = "creat", !.i = 0] EXCEPT !.pc = "scan"]
    <3>1. /\ DOMAIN s = Fields /\ s.pc = "scan" /\ s.op = "creat" /\ s.mode = q.mode
          /\ s.area = q.area /\ s.on = q.on /\ s.i = 0 /\ s.inode = x /\ s.entry = q.entry
          /\ s.target = q.target
      BY <1>4 DEF Fields
    <3>2. th' = [th EXCEPT ![t] = s]
      BY <1>7, <2>1 DEF AfterUnlink, Goto
    <3> HIDE DEF s
    <3>3. s.i \in Nat /\ s.inode \in Inodes
      BY <1>3, <3>1
    <3> QED
      BY <1>3, <1>4, <2>1, <3>1, <3>2, <3>3, ScanKeeps DEF q
  <2>2. CASE r.mode # "w"
    BY <1>6, <1>7, <2>2 DEF AfterUnlink
  <2> QED
    BY <2>1, <2>2
<1>8. CASE /\ Goto(t, [r EXCEPT !.i = @ + 1], "shift")
           /\ r.op = "unlink" => inodes[x].type = "REGULARFILE"
  <2> DEFINE s == [[r EXCEPT !.i = @ + 1] EXCEPT !.pc = "shift"]
  <2>1. /\ DOMAIN s = Fields /\ s.pc = "shift" /\ s.op = q.op /\ s.mode = q.mode
        /\ s.area = q.area /\ s.on = q.on /\ s.i = q.i + 1 /\ s.inode = x /\ s.entry = q.entry
        /\ s.target = q.target
    BY <1>4 DEF Fields
  <2>2. th' = [th EXCEPT ![t] = s]
    BY <1>8 DEF Goto
  <2> HIDE DEF s
  <2>3. Legal(s)
    BY <1>1, <1>2, <1>3, <2>1 DEF Legal, Pcs, Waits, Writing, NameOps, Walks
  <2>4. Works(t, s)
    BY <1>1, <2>1 DEF Works, Waits, Writing, NameOps, Walks
  <2>5. Hole(s) = q.i
    BY <1>2, <2>1 DEF Hole
  <2>6. ASSUME NEW k \in Slots, Has(inodes, q.on, k), k # q.i PROVE entries[q.on][k].inode # x
    <3>1. SUFFICES ASSUME entries[q.on][k].inode = x PROVE FALSE
      OBVIOUS
    <3>2. Doubled(inodes, q.on, q.i, k)
      BY <1>3, <2>6, <3>1 DEF Doubled, x
    <3>3. InHole(q.on, q.i, k)
      BY <1>2, <1>3, <2>6, <3>2 DEF IInv, TreeInv, DistinctUp
    <3>4. PICK u \in Users : Removing(th[u]) /\ th[u].on = q.on
      BY <3>3 DEF InHole
    <3>5. th[u].op \in NameOps
      BY <3>4 DEF Removing, NameOps
    <3>6. u = t
      BY <1>2, <3>4, <3>5, OneRemover DEF q
    <3> QED
      BY <1>5, <3>4, <3>6 DEF q
  <2>7. RemovesOne(s)
    BY <1>2, <1>3, <1>8, <1>4, <2>1, <2>5, <2>6 DEF RemovesOne, Writing, Waits
  <2>8. MakesOne(s) /\ FreesOne(s)
    BY <1>4, <2>1 DEF MakesOne, FreesOne, Creating, Writing, Waits
  <2>9. Alike(q, s)
    BY <1>1, <1>3, <1>5, <2>1 DEF Alike, Private, Creating, Writing, Waits
  <2> QED
    BY <1>1, <2>1, <2>2, <2>3, <2>4, <2>7, <2>8, <2>9, GotoKeeps DEF Fits, q
<1>9. CASE r.op = "unlink" /\ inodes[r.inode].type # "REGULARFILE"
  BY <1>7, <1>9 DEF Removes
<1>10. CASE r.op = "rmdir" /\ inodes[r.inode].type # "DIRECTORY"
  BY <1>6, <1>10 DEF Removes
<1>11. CASE ~(r.op = "unlink" /\ inodes[r.inode].type # "REGULARFILE")
            /\ ~(r.op = "rmdir" /\ inodes[r.inode].type # "DIRECTORY")
  <2>1. Goto(t, [r EXCEPT !.i = @ + 1], "shift")
    BY <1>11 DEF Removes
  <2> QED
    BY <1>4, <1>8, <1>11, <2>1
<1> QED
  BY <1>9, <1>10, <1>11

(* The thread has read an entry, and opens nothing.                        *)
LEMMA EntryKeeps ==
  ASSUME IInv, boot = "ready", Quiet, UNCHANGED handles, NEW t \in Users,
         Waits(th[t], "entry"), Entry(t, th[t]),
         ~(th[t].op = "open" /\ th[t].mode # "w"
             /\ entries[th[t].on][th[t].i].name = Head(th[t].path))
  PROVE  IInv'
<1> DEFINE q == th[t]
           e == entries[q.on][q.i]
           f == [q EXCEPT !.inode = e.inode]
<1>1. Fits(t, q) /\ Legal(q) /\ DOMAIN q = Fields /\ Works(t, q) /\ q.pc = "wait" /\ q.then = "entry"
  BY Here DEF Fits, Waits
<1>2. q.i \in Nat /\ q.on \in Directories(inodes) /\ q.i < Filled(inodes, q.on)
      /\ q.op \in NameOps \cup Walks /\ q.inode \in Inodes
  BY <1>1 DEF Legal, Works, Waits
<1>3. e.inode \in Inodes /\ ~inodes[e.inode].free
  BY <1>2, EntryThere
<1>4. ~Removing(q)
  BY <1>1 DEF Removing, Writing, Waits
<1>5. CASE e.name # Head(q.path)
  <2> DEFINE s == [[q EXCEPT !.i = @ + 1] EXCEPT !.pc = "scan"]
  <2>1. /\ DOMAIN s = Fields /\ s.pc = "scan" /\ s.op = q.op /\ s.mode = q.mode
        /\ s.area = q.area /\ s.on = q.on /\ s.i = q.i + 1 /\ s.inode = q.inode
        /\ s.entry = q.entry /\ s.target = q.target
    BY <1>1 DEF Fields
  <2>2. th' = [th EXCEPT ![t] = s]
    BY <1>5 DEF Entry, Goto
  <2> HIDE DEF s
  <2>3. s.i \in Nat /\ s.inode \in Inodes
    BY <1>2, <2>1
  <2> QED
    BY <1>2, <2>1, <2>2, <2>3, ScanKeeps
<1>6. CASE e.name = Head(q.path) /\ q.op = "open"
  <2> DEFINE s == [[f EXCEPT !.op = "unlink", !.i = 0] EXCEPT !.pc = "scan"]
  <2>1. /\ DOMAIN s = Fields /\ s.pc = "scan" /\ s.op = "unlink" /\ s.mode = q.mode
        /\ s.area = q.area /\ s.on = q.on /\ s.i = 0 /\ s.inode = e.inode
        /\ s.entry = q.entry /\ s.target = q.target
    BY <1>1 DEF Fields
  <2>2. f.mode = q.mode /\ q.mode = "w"
    BY <1>1, <1>6 DEF Fields
  <2>4. th' = [th EXCEPT ![t] = s]
    BY <1>6, <2>2 DEF Entry, Opens, Goto, Walks
  <2> HIDE DEF s
  <2>5. s.i \in Nat /\ s.inode \in Inodes
    BY <1>3, <2>1
  <2> QED
    BY <1>1, <2>1, <2>2, <2>4, <2>5, ScanKeeps
<1>7. CASE e.name = Head(q.path) /\ q.op \in {"unlink", "rmdir"}
  <2>1. Removes(t, f)
    BY <1>7 DEF Entry, Walks
  <2> QED
    BY <1>7, <2>1, RemovesKeeps
<1>8. CASE e.name = Head(q.path) /\ q.op \in Walks
  <2> DEFINE s == [[q EXCEPT !.on = e.inode, !.path = Tail(@), !.i = 0, !.found = TRUE] EXCEPT !.pc = "scan"]
  <2>1. /\ DOMAIN s = Fields /\ s.pc = "scan" /\ s.op = q.op /\ s.mode = q.mode
        /\ s.area = q.area /\ s.on = e.inode /\ s.i = 0 /\ s.inode = q.inode
        /\ s.entry = q.entry /\ s.target = q.target
    BY <1>1 DEF Fields
  <2>2. th' = [th EXCEPT ![t] = s]
    BY <1>8 DEF Entry, Goto, Walks
  <2> HIDE DEF s
  <2>3. s.i \in Nat /\ s.inode \in Inodes /\ s.on \in Live
    BY <1>2, <1>3, <2>1 DEF Live
  <2> QED
    BY <1>8, <2>1, <2>2, <2>3, ScanKeeps
<1>9. CASE e.name = Head(q.path) /\ q.op \in {"creat", "mkdir"}
  <2>1. Return(t)
    BY <1>9 DEF Entry, Walks
  <2> QED
    BY <1>1, <1>4, <2>1, Here, ReturnKeeps DEF handles
<1> QED
  BY <1>2, <1>5, <1>6, <1>7, <1>8, <1>9 DEF NameOps

(* The entry behind the hole was read, and is about to be moved.           *)
LEMMA MoveEntryKeeps ==
  ASSUME IInv, boot = "ready", Quiet, UNCHANGED handles, NEW t \in Users,
         Waits(th[t], "shift"),
         BeginWrite(t, [th[t] EXCEPT !.entry = entries[th[t].on][th[t].i]],
                    th[t].on, (th[t].i - 1) * ENTRY, ENTRY)
  PROVE  IInv'
<1> DEFINE q == th[t]
           e == entries[q.on][q.i]
           p == (q.i - 1) * ENTRY
           s == [[[q EXCEPT !.entry = e] EXCEPT !.target = q.on, !.cur = p \div BLOCK,
                      !.offset = p % BLOCK, !.left = ENTRY, !.end = p + ENTRY] EXCEPT !.pc = "write"]
<1>1. Fits(t, q) /\ Legal(q) /\ DOMAIN q = Fields /\ Works(t, q) /\ q.pc = "wait" /\ q.then = "shift"
      /\ RemovesOne(q)
  BY Here DEF Fits, Waits
<1>2. q.op \in {"unlink", "rmdir"} /\ q.i \in Nat /\ q.i < Filled(inodes, q.on) /\ q.on = cwd[t]
  BY <1>1 DEF Legal, Works, Waits, NameOps
<1>3. q.on \in Directories(inodes)
  BY <1>2, Here
<1>4. Removing(q)
  BY <1>1, <1>2 DEF Removing, Waits
<1>5. /\ DOMAIN s = Fields /\ s.pc = "write" /\ s.op = q.op /\ s.mode = q.mode
      /\ s.area = q.area /\ s.on = q.on /\ s.i = q.i /\ s.inode = q.inode
      /\ s.entry = e /\ s.target = q.on /\ s.offset = p % BLOCK /\ s.left = ENTRY
      /\ s.end = p + ENTRY
  BY <1>1 DEF Fields
<1>6. th' = [th EXCEPT ![t] = s]
  BY DEF BeginWrite, Goto
<1>7. e.inode \in Inodes /\ q.i \in 0 .. NumSlots - 1
  BY <1>2, <1>3, EntryThere
<1>8. q.i > 0
  BY <1>1, <1>4 DEF RemovesOne
<1>9. s.offset \div ENTRY = q.i - 1 /\ s.end = q.i * ENTRY
  <2> DEFINE k == q.i - 1
  <2>1. k \in 0 .. NumSlots - 1 /\ k \in Nat /\ k + 1 = q.i
    BY <1>7, <1>8, Sizes
  <2>2. p = k * ENTRY
    OBVIOUS
  <2> HIDE DEF k, p
  <2>3. (p % BLOCK) \div ENTRY = k
    BY <2>1, <2>2, SlotPlace
  <2>4. (k + 1) * ENTRY = p + ENTRY
    BY <2>1, <2>2, Multiple
  <2> QED
    BY <1>5, <2>1, <2>3, <2>4
<1> HIDE DEF s
<1>10. Removing(s) /\ Hole(s) = Hole(q) /\ Writing(s) /\ s.pc # "update"
  BY <1>1, <1>2, <1>5 DEF Removing, Hole, Writing
<1>11. Legal(s)
  BY <1>1, <1>2, <1>5, <1>7, <1>10 DEF Legal, Pcs, Waits, NameOps, Walks
<1>12. Works(t, s)
  BY <1>1, <1>2, <1>5 DEF Works, Waits, NameOps, Walks
<1>13. RemovesOne(s)
  BY <1>1, <1>2, <1>4, <1>5, <1>9, <1>10 DEF RemovesOne
<1>14. MakesOne(s) /\ FreesOne(s)
  BY <1>2, <1>5 DEF MakesOne, FreesOne, Creating
<1>15. Alike(q, s)
  BY <1>1, <1>2, <1>4, <1>5, <1>10 DEF Alike, Private, Creating
<1> QED
  BY <1>1, <1>5, <1>6, <1>11, <1>12, <1>13, <1>14, <1>15, GotoKeeps DEF Fits

(* A call returns and owes nothing.                                        *)
LEMMA ReturnFrom ==
  ASSUME IInv, boot = "ready", Quiet, UNCHANGED handles, NEW t \in Users, Return(t),
         th[t].pc # "made", ~Removing(th[t])
  PROVE  IInv'
BY Here, ReturnKeeps DEF handles

(* A call that had nothing to do returns.                                  *)
LEMMA ReturnsStep ==
  ASSUME IInv, NEW t \in Users, Returns(t)
  PROVE  IInv'
<1>1. boot = "ready" /\ th[t].pc = "return" /\ Quiet /\ UNCHANGED handles /\ Return(t)
  BY DEF Returns, At, Ready, Quiet, memory, bitmap, rest
<1>2. ~Removing(th[t])
  BY <1>1 DEF Removing, Writing, Waits
<1> QED
  BY <1>1, <1>2, ReturnFrom

(* A round of the loop of inode_read.                                      *)
LEMMA ReadStep ==
  ASSUME IInv, NEW t \in Users, Read(t)
  PROVE  IInv'
<1>1. boot = "ready" /\ th[t].pc = "read" /\ Quiet /\ UNCHANGED handles
  BY DEF Read, At, Ready, Quiet, memory, bitmap, rest
<1>2. get_data_block(t, th[t], inodes[th[t].target].direct[th[t].cur], "data")
  BY DEF Read
<1> QED
  BY <1>1, <1>2, WaitKeeps

(* A block has been read for minifile_read.                                *)
LEMMA CopiesKeeps ==
  ASSUME IInv, boot = "ready", Quiet, UNCHANGED cwd, NEW t \in Users,
         Waits(th[t], "data"), Copies(t, th[t])
  PROVE  IInv'
<1> DEFINE q == th[t]
<1>1. Fits(t, q) /\ Legal(q) /\ DOMAIN q = Fields /\ Works(t, q) /\ q.pc = "wait" /\ q.then = "data"
  BY Here DEF Fits, Waits
<1>2. q.op = "read" /\ file[t].inode # -1 /\ ~Removing(q) /\ ~Creating(q)
  BY <1>1 DEF Legal, Works, Waits, Removing, Creating, Writing
<1>3. CASE q.left > BLOCK - q.offset
  <2> DEFINE s == [[q EXCEPT !.left = @ - (BLOCK - q.offset), !.offset = 0, !.cur = @ + 1]
                   EXCEPT !.pc = "read"]
  <2>1. /\ DOMAIN s = Fields /\ s.pc = "read" /\ s.op = q.op /\ s.mode = q.mode
        /\ s.area = q.area /\ s.on = q.on /\ s.i = q.i /\ s.inode = q.inode
        /\ s.entry = q.entry /\ s.target = q.target
    BY <1>1 DEF Fields
  <2>2. th' = [th EXCEPT ![t] = s] /\ UNCHANGED handles
    BY <1>3 DEF Copies, Goto, handles
  <2> HIDE DEF s
  <2>3. Legal(s)
    BY <1>1, <1>2, <2>1 DEF Legal, Pcs, Waits, Writing, NameOps, Walks
  <2>4. Works(t, s)
    BY <1>1, <1>2, <2>1 DEF Works, Waits, Legal, NameOps, Walks
  <2>5. ~Removing(s) /\ ~Private(s)
    BY <1>2, <2>1 DEF Removing, Private, Creating
  <2>6. RemovesOne(s) /\ MakesOne(s) /\ FreesOne(s) /\ Alike(q, s)
    BY <1>1, <1>2, <2>1, <2>5 DEF RemovesOne, MakesOne, FreesOne, Alike, Private
  <2> QED
    BY <1>1, <2>1, <2>2, <2>3, <2>4, <2>6, GotoKeeps DEF Fits
<1>4. CASE ~(q.left > BLOCK - q.offset)
  <2>1. Return(t) /\ file' = [file EXCEPT ![t].position = q.end]
    BY <1>4 DEF Copies
  <2>2. file = [u \in Users |-> file[u]] /\ \A u \in Users : FileOK(file[u])
    BY Here
  <2>3. file[t].inode \in Inodes
    BY <1>2, <2>2 DEF FileOK, NoFile
  <2>4. FileOK(file'[t]) /\ file'[t].inode = file[t].inode
    BY <2>1, <2>2, <2>3 DEF FileOK
  <2>5. file' = [u \in Users |-> file'[u]] /\ \A u \in Users : FileOK(file'[u]) /\ file'[u].inode = file[u].inode
    BY <2>1, <2>2, <2>4
  <2> QED
    BY <1>1, <1>2, <2>1, <2>5, Here, ReturnKeeps
<1> QED
  BY <1>3, <1>4

(* ls goes on with the next entry.                                         *)
LEMMA ListKeeps ==
  ASSUME IInv, boot = "ready", Quiet, UNCHANGED handles, NEW t \in Users,
         Waits(th[t], "list"), Goto(t, [th[t] EXCEPT !.i = @ + 1], "scan")
  PROVE  IInv'
<1> DEFINE q == th[t]
           s == [[q EXCEPT !.i = @ + 1] EXCEPT !.pc = "scan"]
<1>1. Legal(q) /\ DOMAIN q = Fields
  BY Here DEF Fits
<1>2. /\ DOMAIN s = Fields /\ s.pc = "scan" /\ s.op = q.op /\ s.mode = q.mode
      /\ s.area = q.area /\ s.on = q.on /\ s.i = q.i + 1 /\ s.inode = q.inode
      /\ s.entry = q.entry /\ s.target = q.target
  BY <1>1 DEF Fields
<1>3. th' = [th EXCEPT ![t] = s]
  BY DEF Goto
<1> HIDE DEF s
<1>4. s.i \in Nat /\ s.inode \in Inodes
  BY <1>1, <1>2 DEF Legal
<1> QED
  BY <1>2, <1>3, <1>4, ScanKeeps

(* The answer of the disk, for whomever it is.                             *)
LEMMA ResponseStep ==
  ASSUME IInv, handle_disk_response
  PROVE  IInv'
<1> DEFINE t == Head(reads)
<1>1. boot = "ready" /\ Quiet /\ UNCHANGED handles /\ th' = [th EXCEPT ![t].got = TRUE]
  BY DEF handle_disk_response, Ready, Quiet, memory, bitmap, rest
<1>2. Shape
  BY DEF IInv
<1>3. CASE t \notin Users
  <2>1. th' = th
    BY <1>1, <1>2, <1>3 DEF Shape
  <2> QED
    BY <1>1, <2>1, StayKeeps DEF Quiet, handles
<1>4. CASE t \in Users
  <2> DEFINE q == th[t]
             s == [q EXCEPT !.got = TRUE]
  <2>1. Fits(t, q) /\ DOMAIN q = Fields
    BY <1>1, <1>4, Here
  <2>2. /\ DOMAIN s = Fields /\ s.pc = q.pc /\ s.then = q.then /\ s.op = q.op /\ s.mode = q.mode
        /\ s.area = q.area /\ s.on = q.on /\ s.i = q.i /\ s.inode = q.inode /\ s.entry = q.entry
        /\ s.target = q.target /\ s.offset = q.offset /\ s.left = q.left /\ s.end = q.end
    BY <2>1 DEF Fields
  <2>3. th' = [th EXCEPT ![t] = s]
    BY <1>1, <1>2, <1>4 DEF Shape
  <2> HIDE DEF t, s
  <2>4. /\ Removing(s) <=> Removing(q)
        /\ Creating(s) <=> Creating(q)
        /\ Hole(s) = Hole(q) /\ (Writing(s) <=> Writing(q))
    BY <2>2 DEF Removing, Creating, Hole, Writing, Waits
  <2>5. Fits(t, s)
    <3>1. Legal(s) /\ Works(t, s)
      BY <2>1, <2>2, <2>4 DEF Fits, Legal, Works, Waits
    <3>2. RemovesOne(s) /\ MakesOne(s) /\ FreesOne(s)
      BY <2>1, <2>2, <2>4 DEF Fits, RemovesOne, MakesOne, FreesOne
    <3> QED
      BY <3>1, <3>2 DEF Fits
  <2>6. Alike(q, s)
    BY <2>2, <2>4 DEF Alike
  <2> QED
    BY <1>1, <1>4, <2>2, <2>3, <2>5, <2>6, GotoKeeps
<1> QED
  BY <1>3, <1>4

-----------------------------------------------------------------------------
(* A thread begins a call; close alone changes more than its place.        *)
LEMMA CallKeeps ==
  ASSUME IInv, NEW t \in Users, NEW area, NEW r, NEW pc, Call(t, area, r, pc),
         UNCHANGED memory, UNCHANGED file, DOMAIN r = Fields,
         pc \in {"scan", "read", "write", "return"}, pc = "write" => r.op = "write",
         NEW s, s = [[r EXCEPT !.area = area] EXCEPT !.pc = pc], Fits(t, s)
  PROVE  IInv'
<1> DEFINE q == th[t]
<1>1. /\ boot = "ready" /\ Quiet /\ t \in active /\ q.pc = "idle"
      /\ \A u \in active \ {t} : th[u].area \cap area = {}
      /\ th' = [th EXCEPT ![t] = s] /\ cwd' = cwd /\ file' = file
  BY DEF Call, Ready, Quiet, memory, bitmap, Goto
<1>2. Legal(q) /\ q.op = "none"
  BY <1>1, Here DEF Fits, Legal
<1>3. DOMAIN s = Fields /\ s.pc = pc /\ s.area = area /\ s.op = r.op
  BY DEF Fields
<1> HIDE DEF q
<1>4. ~Removing(q) /\ ~Private(q)
  BY <1>1, <1>2 DEF Removing, Private, Creating
<1>5. ~Removing(s) /\ ~Private(s)
  BY <1>3 DEF Private, Creating, Removing, Writing, Waits
<1>6. Alike(q, s)
  BY <1>1, <1>3, <1>4, <1>5 DEF Alike, Private
<1>7. \A u \in Users \ {t} : s.area \cap th[u].area = {}
  <2>1. SUFFICES ASSUME NEW u \in Users \ {t} PROVE area \cap th[u].area = {}
    BY <1>3
  <2>2. CASE u \in active
    BY <1>1, <2>2
  <2>3. CASE u \notin active
    <3>1. LocalInv(u)
      BY <1>1, Here
    <3>2. th[u].area = {}
      BY <2>3, <3>1 DEF LocalInv, Fits, Legal
    <3> QED
      BY <3>2
  <2> QED
    BY <2>2, <2>3
<1>8. \A u \in Users : Creating(th[u]) => th[u].inode # cwd'[t]
  <2>1. SUFFICES ASSUME NEW u \in Users, Creating(th[u]) PROVE th[u].inode # cwd[t]
    BY <1>1
  <2>2. MakesOne(th[u])
    BY <1>1, Here DEF Fits
  <2> QED
    BY <2>1, <2>2 DEF MakesOne, Untrodden
<1> QED
  BY <1>1, <1>6, <1>7, <1>8, Here, MoveKeeps DEF q

(* A call on a name in the current directory.                              *)
LEMMA OnNameKeeps ==
  ASSUME IInv, NEW t \in Users, NEW op, NEW mode, OnName(t, op, mode),
         op \in NameOps, op \in {"creat", "mkdir"} \/ mode \in {"w", "a"} => Room(t)
  PROVE  IInv'
<1>1. PICK n \in Names :
        Call(t, {cwd[t]}, [Idle EXCEPT !.op = op, !.mode = mode, !.path = <<n>>, !.on = cwd[t]], "scan")
  BY DEF OnName
<1>2. UNCHANGED memory /\ UNCHANGED file /\ boot = "ready"
  BY <1>1 DEF OnName, Call, Ready
<1> DEFINE r == [Idle EXCEPT !.op = op, !.mode = mode, !.path = <<n>>, !.on = cwd[t]]
           s == [[r EXCEPT !.area = {cwd[t]}] EXCEPT !.pc = "scan"]
<1>3. /\ DOMAIN r = Fields /\ DOMAIN s = Fields /\ s.pc = "scan" /\ s.area = {cwd[t]} /\ s.op = op
      /\ s.mode = mode /\ s.on = cwd[t] /\ s.i = 0 /\ s.inode = 0 /\ s.target = 0
      /\ s.entry.inode = 0
  BY DEF Idle, Fields, NoEntry
<1>4. cwd[t] \in Directories(inodes) /\ cwd[t] \in Inodes /\ 0 \in Inodes
  BY <1>2, Here, MiniFileAssumption DEF Directories, Inodes
<1>5. Room(t) => Filled(inodes, cwd[t]) < NumSlots
  <2>1. NumSlots \in Nat /\ Slots = 0 .. NumSlots - 1
    BY Sizes
  <2>2. Cardinality(Slots) = NumSlots
    BY <2>1, FS_Interval
  <2> QED
    BY <2>2 DEF Room, Entries, Filled
<1> HIDE DEF s
<1>6. Legal(s)
  BY <1>3, <1>4 DEF Legal, Pcs, Waits, Writing, NameOps, Walks
<1>7. Works(t, s)
  BY <1>3, <1>4, <1>5 DEF Works, Waits, Writing, NameOps, Walks
<1>8. RemovesOne(s) /\ MakesOne(s) /\ FreesOne(s)
  BY <1>3 DEF RemovesOne, MakesOne, FreesOne, Removing, Creating, Writing, Waits
<1> QED
  BY <1>1, <1>2, <1>3, <1>6, <1>7, <1>8, CallKeeps DEF Fits, s

(* cd, ls and stat start in some directory, and nobody else is in a call.  *)
LEMMA WalkFrom ==
  ASSUME IInv, NEW t \in Users, NEW op \in Walks, NEW at \in Directories(inodes), NEW path,
         Call(t, Inodes, [Idle EXCEPT !.op = op, !.on = at, !.found = TRUE, !.path = path], "scan"),
         UNCHANGED memory, UNCHANGED file
  PROVE  IInv'
<1> DEFINE r == [Idle EXCEPT !.op = op, !.on = at, !.found = TRUE, !.path = path]
           s == [[r EXCEPT !.area = Inodes] EXCEPT !.pc = "scan"]
<1>1. /\ DOMAIN r = Fields /\ DOMAIN s = Fields /\ s.pc = "scan" /\ s.area = Inodes /\ s.op = op
      /\ s.mode = "none" /\ s.on = at /\ s.i = 0 /\ s.inode = 0 /\ s.target = 0
      /\ s.entry.inode = 0
  BY DEF Idle, Fields, NoEntry
<1>2. at \in Inodes /\ ~inodes[at].free /\ 0 \in Inodes
  BY MiniFileAssumption DEF Directories, Inodes
<1> HIDE DEF s
<1>3. Legal(s)
  BY <1>1, <1>2 DEF Legal, Pcs, Waits, Writing, NameOps, Walks
<1>4. Works(t, s)
  BY <1>1, <1>2 DEF Works, Waits, Writing, NameOps, Walks
<1>5. RemovesOne(s) /\ MakesOne(s) /\ FreesOne(s)
  BY <1>1 DEF RemovesOne, MakesOne, FreesOne, Removing, Creating, Writing, Waits
<1> QED
  BY <1>1, <1>3, <1>4, <1>5, CallKeeps DEF Fits, s

(* The same, for the paths there are.                                      *)
LEMMA WalkKeeps ==
  ASSUME IInv, NEW t \in Users, NEW op \in Walks, minifile_walk(t, op)
  PROVE  IInv'
<1>1. PICK a \in Starts(t), n \in Names \cup {""}, m \in Names \cup {"", "garbage"} :
          Call(t, Inodes, [Idle EXCEPT !.op = op, !.on = a.at, !.found = TRUE,
                !.path = SelectSeq(<<n, m>>, LAMBDA c : c # "")], "scan")
  BY DEF minifile_walk
<1>2. UNCHANGED memory /\ UNCHANGED file /\ boot = "ready"
  BY <1>1 DEF minifile_walk, Call, Ready
<1>3. \/ a = [at |-> cwd[t], copied |-> FALSE] \/ a = [at |-> cwd[t], copied |-> TRUE]
      \/ a = [at |-> 0, copied |-> TRUE] \/ a = [at |-> inodes[cwd[t]].parent, copied |-> TRUE]
  BY Zenon DEF Starts
<1>4. a.at = cwd[t] \/ a.at = 0 \/ a.at = inodes[cwd[t]].parent
  <2>1. CASE a = [at |-> cwd[t], copied |-> FALSE]
    BY <2>1
  <2>2. CASE a = [at |-> cwd[t], copied |-> TRUE]
    BY <2>2
  <2>3. CASE a = [at |-> 0, copied |-> TRUE]
    BY <2>3
  <2>4. CASE a = [at |-> inodes[cwd[t]].parent, copied |-> TRUE]
    BY <2>4
  <2> QED
    BY <1>3, <2>1, <2>2, <2>3, <2>4
<1>5. Rooted(inodes) /\ cwd[t] \in Directories(inodes)
  BY <1>2, Here DEF IInv, TreeInv
<1>6. inodes[cwd[t]].parent \in Directories(inodes) /\ 0 \in Directories(inodes)
  BY <1>5 DEF Rooted, Directories
<1>7. a.at \in Directories(inodes)
  BY <1>4, <1>5, <1>6
<1> QED
  BY <1>1, <1>2, <1>7, WalkFrom

(* A call that only has to return.                                         *)
LEMMA ReturnSoon ==
  ASSUME IInv, NEW t \in Users, NEW area \in SUBSET Inodes, area # {},
         Call(t, area, Idle, "return"), UNCHANGED memory, UNCHANGED file
  PROVE  IInv'
<1> DEFINE s == [[Idle EXCEPT !.area = area] EXCEPT !.pc = "return"]
<1>1. /\ DOMAIN Idle = Fields /\ DOMAIN s = Fields /\ s.pc = "return" /\ s.area = area /\ s.op = "none"
      /\ s.mode = "none" /\ s.on = 0 /\ s.i = 0 /\ s.inode = 0 /\ s.target = 0
      /\ s.entry.inode = 0
  BY DEF Idle, Fields, NoEntry
<1>2. 0 \in Inodes
  BY MiniFileAssumption DEF Inodes
<1> HIDE DEF s
<1>3. Legal(s)
  BY <1>1, <1>2 DEF Legal, Pcs, Waits, Writing, NameOps, Walks
<1>4. Works(t, s)
  BY <1>1 DEF Works, Waits, Writing, NameOps, Walks
<1>5. RemovesOne(s) /\ MakesOne(s) /\ FreesOne(s)
  BY <1>1 DEF RemovesOne, MakesOne, FreesOne, Removing, Creating, Writing, Waits
<1> QED
  BY <1>1, <1>3, <1>4, <1>5, CallKeeps DEF Fits, s

(* minifile_read and minifile_write.                                       *)
LEMMA FileCallKeeps ==
  ASSUME IInv, NEW t \in Users, NEW op \in {"read", "write"}, NEW c, NEW o, NEW l, NEW e,
         file[t] # NoFile, op = "write" => inodes[file[t].inode].type = "REGULARFILE",
         Call(t, Area(t), [Idle EXCEPT !.op = op, !.target = file[t].inode, !.cur = c, !.offset = o,
                              !.left = l, !.end = e], op),
         UNCHANGED memory, UNCHANGED file
  PROVE  IInv'
<1> DEFINE x == file[t].inode
           r == [Idle EXCEPT !.op = op, !.target = x, !.cur = c, !.offset = o, !.left = l, !.end = e]
           s == [[r EXCEPT !.area = Area(t)] EXCEPT !.pc = op]
<1>1. /\ DOMAIN r = Fields /\ r.op = op /\ DOMAIN s = Fields /\ s.pc = op /\ s.area = Area(t) /\ s.op = op
      /\ s.mode = "none" /\ s.on = 0 /\ s.i = 0 /\ s.inode = 0 /\ s.target = x
      /\ s.entry.inode = 0
  BY DEF Idle, Fields, NoEntry
<1>2. 0 \in Inodes /\ boot = "ready"
  BY MiniFileAssumption DEF Inodes, Call, Ready
<1>3. x \in Inodes /\ x # -1
  <2>1. FileOK(file[t]) /\ NumInodes \in Nat
    BY <1>2, Here, MiniFileAssumption
  <2> QED
    BY <2>1 DEF FileOK, Inodes
<1>4. x \in Area(t) /\ Area(t) \subseteq Inodes
  <2>1. TableOK(inodes)
    BY DEF IInv, Shape
  <2> QED
    BY <1>3, <2>1 DEF Area, TableOK, InodeOK
<1> HIDE DEF s, x
<1>5. Legal(s)
  BY <1>1, <1>2, <1>3, <1>4 DEF Legal, Pcs, Waits, Writing, NameOps, Walks
<1>6. Works(t, s)
  BY <1>1, <1>3, <1>4 DEF Works, Waits, Writing, NameOps, Walks, x
<1>7. RemovesOne(s) /\ MakesOne(s) /\ FreesOne(s)
  BY <1>1 DEF RemovesOne, MakesOne, FreesOne, Removing, Creating, Writing, Waits
<1> QED
  BY <1>1, <1>5, <1>6, <1>7, CallKeeps DEF Fits, s, x

(* A call on an open file is about the file and its directory.             *)
LEMMA AreaIs ==
  ASSUME IInv, boot = "ready", NEW t \in Users, file[t] # NoFile
  PROVE  Area(t) \in SUBSET Inodes /\ Area(t) # {} /\ file[t].inode \in Inodes
<1>1. TableOK(inodes) /\ FileOK(file[t])
  BY DEF IInv, Shape
<1> QED
  BY <1>1 DEF Area, TableOK, InodeOK, FileOK

(* A call starts.                                                          *)
LEMMA CallsStep ==
  ASSUME IInv, NEW t \in Users, Calls(t), ~minifile_close(t)
  PROVE  IInv'
<1>1. CASE minifile_creat(t) \/ minifile_open(t) \/ minifile_unlink(t) \/ minifile_mkdir(t) \/ minifile_rmdir(t)
  <2>1. PICK op \in NameOps, mode \in {"none", "r", "r+", "w", "a"} :
          /\ OnName(t, op, mode)
          /\ op \in {"creat", "mkdir"} \/ mode \in {"w", "a"} => Room(t)
    BY <1>1 DEF minifile_creat, minifile_open, minifile_unlink, minifile_mkdir, minifile_rmdir, NameOps
  <2> QED
    BY <2>1, OnNameKeeps
<1>2. CASE minifile_cd(t) \/ minifile_ls(t) \/ minifile_stat(t)
  BY <1>2, WalkKeeps DEF minifile_cd, minifile_ls, minifile_stat, Walks
<1>3. CASE minifile_read(t)
  <2> DEFINE f == file[t]
             there == inodes[f.inode].bytes - f.position
             amount(len) == IF len > there THEN there ELSE len
  <2>1. PICK len \in Lengths :
          Call(t, Area(t),
               IF there <= 0 THEN Idle
               ELSE [Idle EXCEPT !.op = "read", !.target = f.inode,
                       !.cur = f.position \div BLOCK, !.offset = f.position % BLOCK,
                       !.left = amount(len), !.end = f.position + amount(len)],
               IF there <= 0 THEN "return" ELSE "read")
    BY <1>3 DEF minifile_read
  <2>2. file[t] # NoFile /\ UNCHANGED memory /\ UNCHANGED file /\ boot = "ready"
    BY <1>3, <2>1 DEF minifile_read, Call, Ready
  <2> HIDE DEF there, amount
  <2>3. CASE there <= 0
    BY <2>1, <2>2, <2>3, AreaIs, ReturnSoon
  <2>4. CASE ~(there <= 0)
    BY <2>1, <2>2, <2>4, FileCallKeeps
  <2> QED
    BY <2>3, <2>4
<1>4. CASE minifile_write(t)
  <2> DEFINE f == file[t]
  <2>1. PICK len \in Lengths :
          Call(t, Area(t),
               IF f.type = "READ" THEN Idle
               ELSE [Idle EXCEPT !.op = "write", !.target = f.inode,
                       !.cur = f.position \div BLOCK, !.offset = f.position % BLOCK,
                       !.left = len, !.end = f.position + len],
               IF f.type = "READ" THEN "return" ELSE "write")
    BY <1>4 DEF minifile_write
  <2>2. file[t] # NoFile /\ UNCHANGED memory /\ UNCHANGED file /\ boot = "ready"
        /\ inodes[file[t].inode].type = "REGULARFILE"
    BY <1>4, <2>1 DEF minifile_write, Call, Ready
  <2>3. CASE f.type = "READ"
    BY <2>1, <2>2, <2>3, AreaIs, ReturnSoon
  <2>4. CASE f.type # "READ"
    BY <2>1, <2>2, <2>4, FileCallKeeps
  <2> QED
    BY <2>3, <2>4
<1> QED
  BY <1>1, <1>2, <1>3, <1>4 DEF Calls

-----------------------------------------------------------------------------
(* The steps that change the inodes, the entries or the disk.  What other  *)
(* threads rely on stays: N are the inodes that are taken or given back.   *)
LEMMA OthersKeep ==
  ASSUME IInv, boot = "ready", NEW t \in Users, NEW u \in Users \ {t}, NEW N,
         th'[u] = th[u], cwd'[u] = cwd[u], file'[u] = file[u], active' = active,
         deleted => deleted', th[u].op \notin Walks,
         \A x \in Inodes \ N : /\ inodes'[x].free = inodes[x].free
                               /\ inodes'[x].type = inodes[x].type
                               /\ inodes'[x].parent = inodes[x].parent,
         th[u].op \in NameOps => /\ th[u].on \notin N
                                 /\ inodes'[th[u].on].bytes = inodes[th[u].on].bytes
                                 /\ entries'[th[u].on] = entries[th[u].on],
         th[u].op = "write" => file[u].inode \in Inodes \ N,
         Removing(th[u]) \/ Private(th[u]) => th[u].inode \notin N,
         Creating(th[u]) => /\ inodes'[th[u].inode].references = inodes[th[u].inode].references
                            /\ Untrodden(th[u].inode)',
         Private(th[u]) => Unknown(th[u].inode)'
  PROVE  LocalInv(u)'
<1> DEFINE r == th[u]
<1>1. Fits(u, r) /\ LocalInv(u) /\ Legal(r) /\ Works(u, r)
  BY Here DEF Fits
<1>2. r.on \in Inodes /\ r.inode \in Inodes
  BY <1>1 DEF Legal
<1>3. r.op \in NameOps => /\ inodes'[r.on].free = inodes[r.on].free
                          /\ inodes'[r.on].type = inodes[r.on].type
                          /\ Filled(inodes, r.on)' = Filled(inodes, r.on)
                          /\ entries'[r.on] = entries[r.on]
  BY <1>2 DEF Filled
<1>4. Removing(r) \/ Private(r) => /\ inodes'[r.inode].free = inodes[r.inode].free
                                   /\ inodes'[r.inode].type = inodes[r.inode].type
                                   /\ inodes'[r.inode].parent = inodes[r.inode].parent
  BY <1>2
<1>5. Works(u, r)'
  <2>1. r.op \in {"creat", "mkdir"} \/ r.mode \in {"w", "a"} => r.op \in NameOps
    BY <1>1 DEF Legal, NameOps
  <2>2. Waits(r, "entry") \/ Waits(r, "shift") => r.op \in NameOps
    BY <1>1 DEF Legal, NameOps, Waits
  <2>3. r.op = "write" => inodes'[file[u].inode].type = inodes[file[u].inode].type
    OBVIOUS
  <2>4. Directories(inodes)' = {x \in Inodes : ~inodes'[x].free /\ inodes'[x].type = "DIRECTORY"}
    BY DEF Directories
  <2> QED
    BY <1>1, <1>2, <1>3, <2>1, <2>2, <2>3, <2>4 DEF Works, Directories
<1>6. RemovesOne(r)'
  <2>1. SUFFICES ASSUME Removing(r) PROVE RemovesOne(r)'
    BY DEF RemovesOne
  <2>2. r.op \in NameOps
    BY <2>1 DEF Removing, NameOps
  <2> QED
    BY <1>1, <1>3, <1>4, <2>1, <2>2 DEF Fits, RemovesOne, Has, Filled
<1>7. MakesOne(r)'
  <2>1. SUFFICES ASSUME Creating(r) PROVE MakesOne(r)'
    BY DEF MakesOne
  <2>2. r.op \in NameOps /\ Private(r)
    BY <2>1 DEF Creating, NameOps, Private
  <2>3. inodes'[r.on].bytes = inodes[r.on].bytes
    BY <2>2
  <2> QED
    BY <1>1, <1>3, <1>4, <2>1, <2>2, <2>3 DEF Fits, MakesOne
<1>8. FreesOne(r)'
  <2>1. SUFFICES ASSUME r.pc = "free" PROVE FreesOne(r)'
    BY DEF FreesOne
  <2> QED
    BY <1>1, <1>4, <2>1 DEF Fits, FreesOne, Private
<1> QED
  BY <1>1, <1>5, <1>6, <1>7, <1>8 DEF LocalInv, Fits

(* A thread at work is not beside one that walks.                          *)
LEMMA NoWalker ==
  ASSUME IInv, boot = "ready", NEW t \in Users, th[t].pc # "idle", NEW u \in Users \ {t}
  PROVE  th[u].op \notin Walks
BY Alone

(* The inode a call makes or frees is in nobody else's hands.              *)
LEMMA PrivateIs ==
  ASSUME IInv, boot = "ready", NEW t \in Users, Private(th[t])
  PROVE  /\ th[t].inode \in Inodes /\ ~inodes[th[t].inode].free /\ Unknown(th[t].inode)
         /\ Untrodden(th[t].inode) \/ inodes[th[t].inode].type = "REGULARFILE"
         /\ \A u \in Users \ {t} : /\ Removing(th[u]) => th[u].inode # th[t].inode
                                   /\ Private(th[u]) => th[u].inode # th[t].inode
                                   /\ file[u].inode # th[t].inode
                                   /\ th[u].op \in NameOps => th[u].on # th[t].inode
<1> DEFINE x == th[t].inode
<1>1. Fits(t, th[t]) /\ Legal(th[t])
  BY Here DEF Fits
<1>2. /\ x \in Inodes /\ ~inodes[x].free /\ Unknown(x)
      /\ Untrodden(x) \/ inodes[x].type = "REGULARFILE"
  BY <1>1 DEF Fits, Legal, Private, MakesOne, FreesOne
<1>3. ASSUME NEW u \in Users \ {t}
      PROVE  /\ Removing(th[u]) => th[u].inode # x
             /\ Private(th[u]) => th[u].inode # x
             /\ file[u].inode # x
             /\ th[u].op \in NameOps => th[u].on # x
  <2>1. Removing(th[u]) => th[u].inode # x
    BY <1>2 DEF Unknown, Owed, Unlisting
  <2>2. Private(th[u]) => th[u].inode # x
    BY <1>3 DEF IInv, ThreadsInv, Apart
  <2>3. file[u].inode # x
    BY <1>2 DEF Unknown, Handles
  <2>4. th[u].op \in NameOps => th[u].on # x
    <3>1. th[u].op \in NameOps => th[u].on = cwd[u]
      BY Here DEF Fits, Works
    <3>2. cwd[u] \in Directories(inodes)
      BY Here
    <3> QED
      BY <1>2, <3>1, <3>2 DEF Untrodden, Directories
  <2> QED
    BY <2>1, <2>2, <2>3, <2>4
<1> QED
  BY <1>2, <1>3

(* Another thread's directory is not mine.                                 *)
LEMMA OtherPlace ==
  ASSUME IInv, boot = "ready", NEW t \in Users, NEW u \in Users \ {t}, NEW x \in th[t].area
  PROVE  th[u].op \in NameOps => th[u].on # x
<1>1. th[u].op \in NameOps => th[u].on \in th[u].area
  BY Here DEF Fits, Works
<1> QED
  BY <1>1, Here

-----------------------------------------------------------------------------
(* Steps that leave the tree alone: no inode changes its type, its parent, *)
(* its length or whether it is in use, and no entry changes.               *)
SameNode(x) ==
  /\ inodes'[x].free = inodes[x].free /\ inodes'[x].type = inodes[x].type
  /\ inodes'[x].parent = inodes[x].parent /\ inodes'[x].bytes = inodes[x].bytes
SameRole(r, s) ==
  /\ Removing(s) <=> Removing(r)
  /\ Removing(r) => s.inode = r.inode /\ s.on = r.on /\ Hole(s) = Hole(r)

(* The tree is the same when the nodes are.                                *)
LEMMA TreeKept ==
  ASSUME IInv, boot = "ready", NEW t \in Users, entries' = entries,
         \A x \in Inodes : SameNode(x),
         \A u \in Users \ {t} : th'[u] = th[u], SameRole(th[t], th'[t])
  PROVE  /\ Rooted(inodes)' /\ DistinctUp' /\ Directories(inodes)' = Directories(inodes)
         /\ \A x \in Inodes : (Owed(x)' <=> Owed(x)) /\ Filled(inodes, x)' = Filled(inodes, x)
<1>1. TableOK(inodes) /\ Rooted(inodes) /\ DistinctUp
      /\ \A x \in Inodes, k \in Slots : entries[x][k].inode \in Inodes
  BY DEF IInv, Shape, TreeInv
<1>2. Directories(inodes)' = Directories(inodes)
  BY DEF Directories, SameNode
<1>3. ASSUME NEW x \in Inodes PROVE Filled(inodes, x)' = Filled(inodes, x) /\ inodes'[x].parent = inodes[x].parent
  BY DEF Filled, SameNode
<1>4. ASSUME NEW x \in Inodes, NEW k PROVE Has(inodes, x, k)' <=> Has(inodes, x, k)
  BY <1>3 DEF Has
<1>5. ASSUME NEW u \in Users PROVE SameRole(th[u], th'[u])
  <2>1. CASE u = t
    BY <2>1
  <2>2. CASE u # t
    BY <2>2 DEF SameRole
  <2> QED
    BY <2>1, <2>2
<1>6. ASSUME NEW x \in Inodes PROVE Owed(x)' <=> Owed(x)
  <2>1. ListedIn(inodes, x)' <=> ListedIn(inodes, x)
    <3>1. inodes[x].parent \in Inodes /\ inodes'[x].parent = inodes[x].parent
      BY <1>1, <1>3 DEF TableOK, InodeOK
    <3> QED
      BY <1>4, <3>1 DEF ListedIn
  <2>2. Unlisting(x)' <=> Unlisting(x)
    BY <1>5 DEF Unlisting, SameRole
  <2> QED
    BY <2>1, <2>2 DEF Owed
<1>7. Rooted(inodes)'
  <2>1. ASSUME NEW x \in Inodes, ~inodes'[x].free PROVE inodes'[x].parent \in Directories(inodes)
    BY <1>1, <2>1 DEF Rooted, SameNode
  <2>2. ASSUME NEW d \in Directories(inodes) PROVE \E n \in 0 .. NumSlots : inodes'[d].bytes = n * ENTRY
    BY <1>1 DEF Rooted, SameNode, Directories
  <2>3. ASSUME NEW d \in Directories(inodes), NEW k \in Slots, Has(inodes, d, k)'
        PROVE  ~inodes'[entries[d][k].inode].free /\ inodes'[entries[d][k].inode].parent = d
    <3>1. d \in Inodes /\ Has(inodes, d, k)
      BY <1>4, <2>3 DEF Directories
    <3>2. entries[d][k].inode \in Inodes
      BY <1>1, <3>1
    <3> QED
      BY <1>1, <3>1, <3>2 DEF Rooted, SameNode
  <2> QED
    BY <1>1, <1>2, <2>1, <2>2, <2>3 DEF Rooted
<1>8. DistinctUp'
  <2>1. SUFFICES ASSUME NEW d \in Directories(inodes), NEW i \in Slots, NEW j \in Slots,
                        Doubled(inodes, d, i, j)', i # j
                 PROVE  InHole(d, i, j)'
    BY <1>2 DEF DistinctUp
  <2>2. Doubled(inodes, d, i, j)
    BY <1>4, <2>1 DEF Doubled, Directories
  <2>3. PICK u \in Users : Removing(th[u]) /\ th[u].on = d /\ Hole(th[u]) \in {i, j}
    BY <1>1, <2>1, <2>2 DEF DistinctUp, InHole
  <2>4. Removing(th'[u]) /\ th'[u].on = d /\ Hole(th'[u]) \in {i, j}
    BY <1>5, <2>3 DEF SameRole
  <2> QED
    BY <2>4 DEF InHole
<1> QED
  BY <1>2, <1>3, <1>6, <1>7, <1>8

(* Handles are counted.                                                    *)
LEMMA HandleCount ==
  ASSUME NEW A \in SUBSET Users, NEW B \in SUBSET Users, NEW t \in Users
  PROVE  /\ Cardinality(A) \in Nat
         /\ A \subseteq B => Cardinality(A) <= Cardinality(B)
         /\ A \subseteq B \cup {t} => Cardinality(A) <= Cardinality(B) + 1
         /\ t \in B /\ A \subseteq B \ {t} => Cardinality(A) <= Cardinality(B) - 1
<1>1. IsFiniteSet(Users)
  BY MiniFileAssumption
<1>2. IsFiniteSet(A) /\ IsFiniteSet(B) /\ Cardinality(A) \in Nat /\ Cardinality(B) \in Nat
  BY <1>1, FS_Subset, FS_CardinalityType
<1>3. A \subseteq B => Cardinality(A) <= Cardinality(B)
  BY <1>2, FS_Subset
<1>4. A \subseteq B \cup {t} => Cardinality(A) <= Cardinality(B) + 1
  <2>1. IsFiniteSet(B \cup {t}) /\ Cardinality(B \cup {t}) <= Cardinality(B) + 1
    <3>1. CASE t \in B
      <4>1. B \cup {t} = B
        BY <3>1
      <4> QED
        BY <1>2, <4>1
    <3>2. CASE t \notin B
      <4>1. IsFiniteSet(B \cup {t}) /\ Cardinality(B \cup {t}) = Cardinality(B) + 1
        BY <1>2, <3>2, FS_AddElement, Zenon
      <4> QED
        BY <1>2, <4>1
    <3> QED
      BY <3>1, <3>2
  <2>2. A \subseteq B \cup {t} => Cardinality(A) <= Cardinality(B \cup {t})
    BY <2>1, FS_Subset
  <2>3. Cardinality(B \cup {t}) \in Nat
    BY <2>1, FS_CardinalityType
  <2> QED
    BY <1>2, <2>1, <2>2, <2>3
<1>5. t \in B /\ A \subseteq B \ {t} => Cardinality(A) <= Cardinality(B) - 1
  <2>1. IsFiniteSet(B \ {t}) /\ (t \in B => Cardinality(B \ {t}) = Cardinality(B) - 1)
    BY <1>2, FS_RemoveElement
  <2>2. A \subseteq B \ {t} => Cardinality(A) <= Cardinality(B \ {t})
    BY <2>1, FS_Subset
  <2> QED
    BY <2>1, <2>2
<1> QED
  BY <1>2, <1>3, <1>4, <1>5


(* A step of t that keeps the tree keeps the invariant, if what it does to *)
(* the references, the handles and the blocks does.                        *)
LEMMA InPlaceKeeps ==
  ASSUME IInv, boot = "ready", NEW t \in Users, NEW s, th' = [th EXCEPT ![t] = s],
         UNCHANGED <<entries, cwd, boot, active, deleted>>,
         Shape', \A x \in Inodes : SameNode(x), SameRole(th[t], s),
         \A u \in Users \ {t} :
            /\ th[u].op \notin Walks /\ file'[u] = file[u]
            /\ Creating(th[u]) => inodes'[th[u].inode].references = inodes[th[u].inode].references
            /\ Private(th[u]) => file'[t].inode # th[u].inode
            /\ Private(s) /\ Private(th[u]) => s.inode # th[u].inode
            /\ s.area \cap th[u].area = {},
         Fits(t, s)', t \notin active => s.pc = "idle",
         \A x \in Inodes : RefsOK(x)', HandleOK(t)', BlocksInv'
  PROVE  IInv'
<1>1. Shape /\ TreeInv /\ ThreadsInv
  BY DEF IInv
<1>2. th'[t] = s /\ \A u \in Users \ {t} : th'[u] = th[u]
  BY <1>1 DEF Shape
<1>3. /\ Rooted(inodes)' /\ DistinctUp' /\ Directories(inodes)' = Directories(inodes)
      /\ \A x \in Inodes : (Owed(x)' <=> Owed(x)) /\ Filled(inodes, x)' = Filled(inodes, x)
  BY <1>2, TreeKept
<1>4. \A u \in Users : HandleOK(u)'
  <2>1. SUFFICES ASSUME NEW u \in Users, u # t PROVE HandleOK(u)'
    OBVIOUS
  <2>2. file'[u] = file[u] /\ HandleOK(u) /\ FileOK(file[u])
    BY <1>1, <2>1, Here
  <2>3. file[u].inode # -1 => file[u].inode \in Inodes
    BY <2>2 DEF FileOK, NoFile
  <2> QED
    BY <1>3, <2>2, <2>3 DEF HandleOK, SameNode
<1>5. TreeInv'
  BY <1>1, <1>3, <1>4 DEF TreeInv
<1>6. ASSUME NEW u \in Users \ {t} PROVE LocalInv(u)'
  <2>1. LocalInv(u) /\ Fits(u, th[u]) /\ Legal(th[u]) /\ Works(u, th[u]) /\ MakesOne(th[u])
    BY Here DEF Fits
  <2>2. th[u].inode \in Inodes /\ th[u].on \in Inodes
    BY <2>1 DEF Legal
  <2>3. Private(th[u]) => Unknown(th[u].inode)'
    <3>1. SUFFICES ASSUME Private(th[u]) PROVE Unknown(th[u].inode)'
      OBVIOUS
    <3>2. Unknown(th[u].inode)
      BY <3>1, PrivateIs
    <3>3. file'[t].inode # th[u].inode
      BY <3>1
    <3> QED
      BY <1>3, <2>2, <3>2, <3>3 DEF Unknown, Handles
  <2>4. Creating(th[u]) => Untrodden(th[u].inode)'
    BY <2>1 DEF MakesOne, Untrodden, SameNode
  <2>5. th[u].op = "write" => file[u].inode \in Inodes
    <3>1. FileOK(file[u])
      BY Here
    <3> QED
      BY <2>1, <3>1 DEF Works, FileOK, NoFile
  <2> DEFINE E == {}
  <2>6. \A x : x \notin E
    OBVIOUS
  <2> HIDE DEF E
  <2> QED
    BY <1>2, <2>2, <2>3, <2>4, <2>5, <2>6, OthersKeep DEF SameNode
<1>7. LocalInv(t)'
  BY <1>2 DEF LocalInv
<1>8. ASSUME NEW u \in Users, NEW w \in Users, u # w PROVE Apart(u, w)'
  <2>1. Apart(u, w)
    BY <1>1, <1>8 DEF ThreadsInv
  <2>2. CASE u # t /\ w # t
    BY <1>2, <2>1, <2>2 DEF Apart
  <2>3. CASE u = t
    BY <1>2, <1>8, <2>3 DEF Apart
  <2>4. CASE w = t
    BY <1>2, <1>8, <2>4 DEF Apart
  <2> QED
    BY <2>2, <2>3, <2>4
<1>9. ThreadsInv'
  BY <1>6, <1>7, <1>8 DEF ThreadsInv
<1> QED
  BY <1>5, <1>9 DEF IInv

(* So are the blocks.                                                      *)
LEMMA DiskKept ==
  ASSUME IInv, boot = "ready", NEW t \in Users, NEW s, th' = [th EXCEPT ![t] = s],
         UNCHANGED <<freeBlocks, onDisk, deleted>>,
         \A x \in Inodes : SameNode(x) /\ inodes'[x].direct = inodes[x].direct,
         s.pc = "made" <=> th[t].pc = "made", s.pc = "made" => s.inode = th[t].inode
  PROVE  BlocksInv'
<1>1. Shape /\ BlocksInv
  BY DEF IInv
<1>2. th'[t] = s /\ \A u \in Users \ {t} : th'[u] = th[u]
  BY <1>1 DEF Shape
<1>3. NoBlockShared(inodes, freeBlocks)'
  BY <1>1 DEF BlocksInv, NoBlockShared, BlocksOf, SameNode
<1>4. ASSUME NEW x PROVE Making(x)' <=> Making(x)
  BY <1>2 DEF Making
<1>5. Written => Written'
  BY <1>4 DEF Written, Matches, SameNode
<1> QED
  BY <1>1, <1>3, <1>5 DEF BlocksInv

(* An inode whose references changed.                                      *)
LEMMA InodeFrom ==
  ASSUME NEW m, NEW n, InodeOK(m), DOMAIN n = InodeFields, n.type = m.type, n.parent = m.parent,
         n.references \in Int, n.size = m.size, n.bytes = m.bytes, n.direct = m.direct
  PROVE  InodeOK(n)
BY DEF InodeOK

(* The fields of an inode.                                                 *)
LEMMA InodeIs ==
  ASSUME NEW m, InodeOK(m)
  PROVE  /\ DOMAIN m = InodeFields /\ m.references \in Int /\ m.size \in Int
         /\ m.direct \in [0 .. TABLE_SIZE - 1 -> Nat \cup {-1}] /\ m.parent \in Inodes
BY DEF InodeOK

(* Only the table of inodes, the bitmap and the place of one thread change. *)
LEMMA ShapeKept ==
  ASSUME Shape, TableOK(inodes)', freeBlocks' \subseteq Nat, NEW t, NEW s, th' = [th EXCEPT ![t] = s],
         onDisk' = [inodes |-> onDisk'.inodes, free |-> onDisk'.free, super |-> onDisk'.super],
         onDisk'.inodes = onDisk.inodes, UNCHANGED <<entries, cwd, file, deleted>>
  PROVE  Shape'
<1>1. TableOK(onDisk.inodes)'
  BY DEF Shape, TableOK
<1>2. th' = [u \in Users |-> th'[u]]
  BY DEF Shape
<1> QED
  BY <1>1, <1>2 DEF Shape

(* An inode gets another number of references.                             *)
LEMMA ReferencesSet ==
  ASSUME TableOK(inodes), NEW x \in Inodes, NEW v \in Int,
         inodes' = [inodes EXCEPT ![x].references = v]
  PROVE  /\ TableOK(inodes)' /\ inodes'[x].references = v /\ inodes'[x].size = inodes[x].size
         /\ \A y \in Inodes : SameNode(y) /\ inodes'[y].direct = inodes[y].direct
         /\ \A y \in Inodes \ {x} : inodes'[y].references = inodes[y].references
<1>1. InodeOK(inodes[x])
  BY DEF TableOK
<1>2. PICK n : n = [inodes[x] EXCEPT !.references = v]
  OBVIOUS
<1>3. /\ DOMAIN n = InodeFields /\ n.references = v /\ n.free = inodes[x].free
      /\ n.type = inodes[x].type /\ n.parent = inodes[x].parent /\ n.bytes = inodes[x].bytes
      /\ n.size = inodes[x].size /\ n.direct = inodes[x].direct
  BY <1>1, <1>2 DEF InodeOK, InodeFields
<1>7. inodes' = [inodes EXCEPT ![x] = n]
  BY <1>2
<1>4. inodes'[x] = n /\ \A y \in Inodes \ {x} : inodes'[y] = inodes[y]
  BY <1>7 DEF TableOK
<1>5. InodeOK(n)
  BY <1>1, <1>3, InodeFrom
<1>6. TableOK(inodes)'
  <2>1. inodes' = [y \in Inodes |-> inodes'[y]]
    BY <1>7 DEF TableOK
  <2>2. \A y \in Inodes : InodeOK(inodes'[y])
    BY <1>4, <1>5 DEF TableOK
  <2> QED
    BY <2>1, <2>2 DEF TableOK
<1> QED
  BY <1>3, <1>4, <1>6 DEF SameNode

(* minifile_open: the file has one more handle and one more reference.     *)
LEMMA OpensKeeps ==
  ASSUME IInv, boot = "ready", NEW t \in Users, Waits(th[t], "entry"),
         NEW x, x = entries[th[t].on][th[t].i].inode, NEW ty, NEW pos,
         Refers(x),
         file' = [file EXCEPT ![t] = [inode |-> x, type |-> ty, position |-> pos]],
         Return(t),
         UNCHANGED <<freeBlocks, onDisk, entries, cwd, boot, active, deleted>>
  PROVE  IInv'
<1>1. Shape /\ TreeInv
  BY DEF IInv
<1>2. Fits(t, th[t]) /\ Legal(th[t]) /\ Works(t, th[t]) /\ th[t].pc = "wait" /\ th[t].then = "entry"
  BY Here DEF Fits, Waits
<1>3. x \in Inodes /\ ~inodes[x].free /\ ListedIn(inodes, x)
  BY <1>2, EntryThere DEF Legal, Works, Waits
<1>4. InodeOK(inodes[x]) /\ TableOK(inodes)
  BY <1>1, <1>3 DEF Shape, TableOK
<1>5. inodes[x].references + 1 \in Int /\ inodes[x].references \in Int
  <2>1. inodes[x].references \in Int
    BY <1>4, InodeIs
  <2>2. \A i \in Int : i + 1 \in Int
    OBVIOUS
  <2> QED
    BY <2>1, <2>2
<1>6. inodes' = [inodes EXCEPT ![x].references = inodes[x].references + 1]
  BY DEF Refers
<1>7. /\ TableOK(inodes)' /\ inodes'[x].references = inodes[x].references + 1
      /\ \A y \in Inodes : SameNode(y) /\ inodes'[y].direct = inodes[y].direct
      /\ \A y \in Inodes \ {x} : inodes'[y].references = inodes[y].references
  <2>1. PICK v \in Int : v = inodes[x].references + 1
    BY <1>5
  <2>2. inodes' = [inodes EXCEPT ![x].references = v]
    BY <1>6, <2>1
  <2>3. /\ TableOK(inodes)' /\ inodes'[x].references = v
        /\ \A y \in Inodes : SameNode(y) /\ inodes'[y].direct = inodes[y].direct
        /\ \A y \in Inodes \ {x} : inodes'[y].references = inodes[y].references
    BY <1>3, <1>4, <2>2, ReferencesSet
  <2> QED
    BY <2>1, <2>3
<1>9. /\ file' = [u \in Users |-> file'[u]] /\ file'[t].inode = x /\ FileOK(file'[t])
      /\ \A u \in Users \ {t} : file'[u] = file[u]
  BY <1>1, <1>3 DEF Shape, FileOK
<1>10. th' = [th EXCEPT ![t] = Idle]
  BY DEF Return
<1>11. Shape'
  BY <1>1, <1>7, <1>9, <1>10 DEF Shape
<1>12. ~Removing(th[t]) /\ ~Removing(Idle) /\ ~Private(Idle) /\ Idle.area = {} /\ Idle.pc = "idle"
  BY <1>2 DEF Removing, Writing, Waits, Idle, Private, Creating
<1>13. SameRole(th[t], Idle) /\ th'[t] = Idle /\ \A u \in Users \ {t} : th'[u] = th[u]
  BY <1>1, <1>10, <1>12 DEF SameRole, Shape
<1>14. \A y \in Inodes : Owed(y)' <=> Owed(y)
  BY <1>7, <1>13, TreeKept
<1>15. ASSUME NEW y \in Inodes PROVE RefsOK(y)'
  <2>1. SUFFICES ASSUME ~inodes[y].free PROVE RefsOK(y)'
    BY <1>7 DEF RefsOK, SameNode
  <2>2. RefsOK(y) /\ inodes[y].references \in Int
    BY <1>1, <1>4 DEF TreeInv, TableOK, InodeOK
  <2>5. Claims(y)' = Claims(y) /\ Claims(y) \in {0, 1}
    BY <1>7, <1>14 DEF Claims, SameNode
  <2>3. CASE y = x
    <3>1. Handles(y)' \subseteq Handles(y) \cup {t}
      BY <1>9 DEF Handles
    <3>2. Cardinality(Handles(y)') <= Cardinality(Handles(y)) + 1 /\ Cardinality(Handles(y)') \in Nat
          /\ Cardinality(Handles(y)) \in Nat
      BY <3>1, HandleCount DEF Handles
    <3>3. inodes'[y].references = inodes[y].references + 1
      BY <1>5, <1>7, <2>3
    <3> QED
      BY <2>1, <2>2, <2>5, <3>2, <3>3 DEF RefsOK
  <2>4. CASE y # x
    <3>1. Handles(y)' \subseteq Handles(y)
      BY <1>9, <2>4 DEF Handles
    <3>2. Cardinality(Handles(y)') <= Cardinality(Handles(y)) /\ Cardinality(Handles(y)') \in Nat
          /\ Cardinality(Handles(y)) \in Nat
      BY <3>1, HandleCount DEF Handles
    <3>3. inodes'[y].references = inodes[y].references
      BY <1>7, <2>4
    <3> QED
      BY <2>1, <2>2, <2>5, <3>2, <3>3 DEF RefsOK
  <2> QED
    BY <2>3, <2>4
<1>16. HandleOK(t)'
  <2>1. Owed(x)'
    BY <1>3, <1>14 DEF Owed
  <2> QED
    BY <1>3, <1>7, <1>9, <2>1 DEF HandleOK, SameNode
<1>17. BlocksInv'
  BY <1>2, <1>7, <1>10, <1>12, DiskKept
<1>18. ASSUME NEW u \in Users \ {t}
       PROVE  /\ th[u].op \notin Walks /\ file'[u] = file[u]
              /\ Creating(th[u]) => inodes'[th[u].inode].references = inodes[th[u].inode].references
              /\ Private(th[u]) => file'[t].inode # th[u].inode
  <2>1. th[u].op \notin Walks
    BY <1>2, NoWalker
  <2>2. Private(th[u]) => th[u].inode # x /\ th[u].inode \in Inodes
    <3>1. Owed(x)
      BY <1>3 DEF Owed
    <3> QED
      BY <3>1, PrivateIs DEF Unknown
  <2> QED
    BY <1>7, <1>9, <2>1, <2>2 DEF Private
<1> QED
  BY <1>7, <1>10, <1>11, <1>12, <1>13, <1>15, <1>16, <1>17, <1>18, IdleFits, InPlaceKeeps

(* A call begins where no other is at work.                                *)
LEMMA CallApart ==
  ASSUME IInv, NEW t \in Users, NEW area, NEW r, NEW pc, Call(t, area, r, pc),
         NEW u \in Users \ {t}
  PROVE  /\ area \cap th[u].area = {}
         /\ area \cap Inodes # {} => th[u].op \notin Walks
<1>1. boot = "ready" /\ \A w \in active \ {t} : th[w].area \cap area = {}
  BY DEF Call, Ready
<1>2. LocalInv(u) /\ Legal(th[u]) /\ Works(u, th[u])
  BY <1>1, Here DEF Fits
<1>3. area \cap th[u].area = {}
  <2>1. CASE u \in active
    BY <1>1, <2>1
  <2>2. CASE u \notin active
    BY <1>2, <2>2 DEF LocalInv, Legal
  <2> QED
    BY <2>1, <2>2
<1>4. th[u].op \in Walks => th[u].area = Inodes
  BY <1>2 DEF Works
<1> QED
  BY <1>3, <1>4

(* minifile_close: one handle and one reference less; nobody uses a file   *)
(* that has none left.                                                     *)
LEMMA CloseStep ==
  ASSUME IInv, NEW t \in Users, minifile_close(t)
  PROVE  IInv'
<1>26. PICK x : x = file[t].inode
  OBVIOUS
<1>27. PICK pc : pc = IF inodes'[x].references = 0 /\ ~inodes[x].free THEN "free" ELSE "return"
  OBVIOUS
<1>28. PICK r : r = [Idle EXCEPT !.op = "close", !.inode = x]
  OBVIOUS
<1>29. PICK s : s = [[r EXCEPT !.area = Area(t)] EXCEPT !.pc = pc]
  OBVIOUS
<1>1. /\ boot = "ready" /\ file[t] # NoFile /\ file' = [file EXCEPT ![t] = NoFile]
      /\ Call(t, Area(t), r, pc) /\ th' = [th EXCEPT ![t] = s] /\ t \in active /\ th[t].pc = "idle"
      /\ UNCHANGED <<onDisk, entries, cwd, boot, active, deleted>> /\ freeBlocks' = freeBlocks
  <2>1. Call(t, Area(t), r, pc)
    BY <1>26, <1>27, <1>28 DEF minifile_close
  <2>2. th' = [th EXCEPT ![t] = s]
    BY <1>29, <2>1 DEF Call, Goto
  <2>3. /\ boot = "ready" /\ t \in active /\ th[t].pc = "idle"
        /\ UNCHANGED <<onDisk, entries, cwd, boot, active, deleted>>
    BY <2>1 DEF Call, Ready
  <2>4. file[t] # NoFile /\ file' = [file EXCEPT ![t] = NoFile] /\ freeBlocks' = freeBlocks
    BY DEF minifile_close, bitmap
  <2> QED
    BY <2>1, <2>2, <2>3, <2>4
<1>2. Shape /\ TreeInv /\ TableOK(inodes)
  BY <1>1 DEF IInv, Shape
<1>3. x \in Inodes /\ Area(t) \in SUBSET Inodes /\ Area(t) # {}
  BY <1>1, <1>26, AreaIs
<1>4. x # -1
  BY <1>3, MiniFileAssumption DEF Inodes
<1>5. ~inodes[x].free /\ (~deleted => Owed(x) \/ inodes[x].type = "DIRECTORY")
  BY <1>1, <1>4, <1>26, Here DEF HandleOK
<1>6. InodeOK(inodes[x]) /\ inodes[x].references \in Int
  <2>1. InodeOK(inodes[x])
    BY <1>2, <1>3 DEF TableOK
  <2> QED
    BY <2>1, InodeIs
<1>7. /\ TableOK(inodes)' /\ inodes'[x].references = inodes[x].references - 1
      /\ \A y \in Inodes : SameNode(y) /\ inodes'[y].direct = inodes[y].direct
      /\ \A y \in Inodes \ {x} : inodes'[y].references = inodes[y].references
  <2>1. inodes' = [inodes EXCEPT ![x].references = inodes[x].references - 1]
    BY <1>5, <1>26 DEF minifile_close
  <2>2. inodes[x].references - 1 \in Int
    BY <1>6
  <2> QED
    BY <1>2, <1>3, <2>1, <2>2, ReferencesSet
<1>8. /\ file' = [u \in Users |-> file'[u]] /\ file'[t] = NoFile /\ file'[t].inode = -1
      /\ \A u \in Users \ {t} : file'[u] = file[u]
  BY <1>1, <1>2 DEF Shape, NoFile
<1>9. FileOK(file'[t])
  BY <1>8 DEF FileOK, NoFile
<1>10. Shape'
  BY <1>1, <1>2, <1>7, <1>8, <1>9 DEF Shape
<1>11. /\ DOMAIN s = Fields /\ s.pc = pc /\ s.area = Area(t) /\ s.op = "close" /\ s.mode = "none"
       /\ s.on = 0 /\ s.i = 0 /\ s.inode = x /\ s.target = 0 /\ s.entry.inode = 0
  BY <1>28, <1>29 DEF Idle, Fields, NoEntry
<1>12. th'[t] = s /\ \A u \in Users \ {t} : th'[u] = th[u]
  BY <1>1, <1>2 DEF Shape
<1>13. pc \in {"free", "return"} /\ (pc = "free" => inodes[x].references = 1)
  BY <1>6, <1>7, <1>27
<1>14. ~Removing(th[t]) /\ ~Removing(s) /\ ~Creating(s)
  BY <1>1, <1>11, <1>13 DEF Removing, Writing, Waits, Creating
<1>15. SameRole(th[t], s)
  BY <1>14 DEF SameRole
<1>16. \A y \in Inodes : Owed(y)' <=> Owed(y)
  BY <1>1, <1>7, <1>12, <1>15, TreeKept
<1>17. RefsOK(x) /\ Claims(x) \in {0, 1} /\ (Claims(x) = 0 => inodes[x].type # "DIRECTORY" /\ ~Owed(x))
  BY <1>2, <1>3 DEF TreeInv, Claims
<1>18. /\ t \in Handles(x) /\ Handles(x)' \subseteq Handles(x) \ {t}
       /\ Handles(x) \in SUBSET Users /\ Handles(x)' \in SUBSET Users
  BY <1>4, <1>8, <1>26 DEF Handles
<1>19. /\ Cardinality(Handles(x)) \in Nat /\ Cardinality(Handles(x)') \in Nat
       /\ Cardinality(Handles(x)') <= Cardinality(Handles(x)) - 1
  BY <1>18, HandleCount
<1>20. ASSUME NEW y \in Inodes PROVE RefsOK(y)'
  <2>1. Claims(y)' = Claims(y) /\ Claims(y) \in {0, 1}
    BY <1>7, <1>16, <1>20 DEF Claims, SameNode
  <2>2. RefsOK(y) /\ inodes'[y].free = inodes[y].free
    BY <1>2, <1>7, <1>20 DEF TreeInv, SameNode
  <2>3. CASE y = x
    BY <1>5, <1>6, <1>7, <1>19, <2>1, <2>2, <2>3 DEF RefsOK
  <2>4. CASE y # x
    <3>1. Handles(y)' \subseteq Handles(y)
      <4>1. y # -1
        BY <1>20, MiniFileAssumption DEF Inodes
      <4> QED
        BY <1>8, <4>1 DEF Handles
    <3>2. Cardinality(Handles(y)') <= Cardinality(Handles(y)) /\ Cardinality(Handles(y)') \in Nat
          /\ Cardinality(Handles(y)) \in Nat
      BY <3>1, HandleCount DEF Handles
    <3>3. inodes'[y].references = inodes[y].references /\ inodes[y].references \in Int
      <4>1. InodeOK(inodes[y])
        BY <1>2, <1>20 DEF TableOK
      <4> QED
        BY <1>7, <1>20, <2>4, <4>1, InodeIs
    <3> QED
      BY <2>1, <2>2, <3>2, <3>3 DEF RefsOK
  <2> QED
    BY <2>3, <2>4
<1>21. HandleOK(t)'
  BY <1>8 DEF HandleOK
<1>22. BlocksInv'
  <2>1. s.pc # "made" /\ th[t].pc # "made"
    BY <1>1, <1>11, <1>13
  <2> QED
    BY <1>1, <1>7, <2>1, DiskKept
<1>23. pc = "free" => /\ deleted /\ inodes[x].type = "REGULARFILE"
                      /\ ~Owed(x) /\ Handles(x)' = {}
  <2>1. SUFFICES ASSUME pc = "free" PROVE deleted /\ inodes[x].type = "REGULARFILE" /\ ~Owed(x) /\ Handles(x)' = {}
    OBVIOUS
  <2>2. inodes[x].references = 1
    BY <1>13, <2>1
  <2>3. Claims(x) = 0 /\ Cardinality(Handles(x)') = 0
    BY <1>5, <1>17, <1>19, <2>2 DEF RefsOK
  <2>4. Handles(x)' = {}
    <3>1. IsFiniteSet(Handles(x)')
      BY <1>18, MiniFileAssumption, FS_Subset
    <3> QED
      BY <2>3, <3>1, FS_EmptySet
  <2>5. inodes[x].type = "REGULARFILE"
    BY <1>6, <1>17, <2>3 DEF InodeOK
  <2> QED
    BY <1>5, <1>17, <2>3, <2>4, <2>5
<1>24. Fits(t, s)'
  <2>1. 0 \in Inodes
    BY MiniFileAssumption DEF Inodes
  <2>2. Legal(s)
    BY <1>3, <1>11, <1>13, <2>1 DEF Legal, Pcs, Waits, Writing, NameOps, Walks
  <2>3. Works(t, s)'
    BY <1>11, <1>13 DEF Works, Waits, Writing, NameOps, Walks
  <2>4. RemovesOne(s)' /\ MakesOne(s)'
    BY <1>14 DEF RemovesOne, MakesOne
  <2>5. FreesOne(s)'
    BY <1>1, <1>3, <1>5, <1>7, <1>11, <1>16, <1>23 DEF FreesOne, Unknown, SameNode
  <2> QED
    BY <2>2, <2>3, <2>4, <2>5 DEF Fits
<1>25. ASSUME NEW u \in Users \ {t}
       PROVE  /\ th[u].op \notin Walks /\ file'[u] = file[u]
              /\ Creating(th[u]) => inodes'[th[u].inode].references = inodes[th[u].inode].references
              /\ Private(th[u]) => file'[t].inode # th[u].inode
              /\ Private(s) /\ Private(th[u]) => s.inode # th[u].inode
              /\ s.area \cap th[u].area = {}
  <2>1. Area(t) \cap th[u].area = {} /\ th[u].op \notin Walks
    BY <1>1, <1>3, CallApart
  <2>2. Private(th[u]) => th[u].inode # x /\ th[u].inode \in Inodes
    BY <1>1, <1>25, <1>26, PrivateIs
  <2>3. -1 \notin Inodes
    BY MiniFileAssumption DEF Inodes
  <2> QED
    BY <1>7, <1>8, <1>11, <2>1, <2>2, <2>3 DEF Private
<1> QED
  BY <1>1, <1>7, <1>10, <1>11, <1>12, <1>15, <1>20, <1>21, <1>22, <1>24, <1>25, InPlaceKeeps

(* What a call may rely on before such a step it may rely on after it.     *)
LEMMA FitsStays ==
  ASSUME IInv, boot = "ready", NEW t \in Users, NEW s, th' = [th EXCEPT ![t] = s],
         UNCHANGED <<entries, cwd, file, deleted>>,
         \A x \in Inodes : SameNode(x), SameRole(th[t], s), Fits(t, s),
         Creating(s) => inodes'[s.inode].references = inodes[s.inode].references
  PROVE  Fits(t, s)'
<1>1. Shape
  BY DEF IInv
<1>2. th'[t] = s /\ \A u \in Users \ {t} : th'[u] = th[u]
  BY <1>1 DEF Shape
<1>3. /\ Directories(inodes)' = Directories(inodes)
      /\ \A x \in Inodes : (Owed(x)' <=> Owed(x)) /\ Filled(inodes, x)' = Filled(inodes, x)
  BY <1>2, TreeKept
<1>4. Legal(s) /\ s.on \in Inodes /\ s.inode \in Inodes
  BY DEF Fits, Legal
<1>5. Works(t, s)'
  <2>1. s.op = "write" => file[t].inode \in Inodes
    <3>1. FileOK(file[t])
      BY Here
    <3> QED
      BY <3>1 DEF Fits, Works, FileOK, NoFile
  <2> QED
    BY <1>3, <1>4, <2>1 DEF Fits, Works, SameNode
<1>6. RemovesOne(s)'
  BY <1>3, <1>4 DEF Fits, RemovesOne, SameNode, Has
<1>7. Unknown(s.inode) => Unknown(s.inode)'
  BY <1>3, <1>4 DEF Unknown, Handles
<1>8. Untrodden(s.inode) => Untrodden(s.inode)'
  BY DEF Untrodden, SameNode
<1>9. MakesOne(s)'
  BY <1>3, <1>4, <1>7, <1>8 DEF Fits, MakesOne, SameNode
<1>10. FreesOne(s)'
  BY <1>4, <1>7 DEF Fits, FreesOne, SameNode
<1> QED
  BY <1>4, <1>5, <1>6, <1>9, <1>10 DEF Fits

(* One inode of the table is replaced.                                     *)
LEMMA InodeSet ==
  ASSUME TableOK(inodes), NEW x \in Inodes, NEW n, InodeOK(n), inodes' = [inodes EXCEPT ![x] = n]
  PROVE  TableOK(inodes)' /\ inodes'[x] = n /\ \A y \in Inodes \ {x} : inodes'[y] = inodes[y]
<1>1. inodes'[x] = n /\ \A y \in Inodes \ {x} : inodes'[y] = inodes[y]
  BY DEF TableOK
<1>2. inodes' = [y \in Inodes |-> inodes'[y]]
  BY DEF TableOK
<1>3. \A y \in Inodes : InodeOK(inodes'[y])
  BY <1>1 DEF TableOK
<1> QED
  BY <1>1, <1>2, <1>3 DEF TableOK

(* A block of the bitmap, or none, goes to an inode.                       *)
LEMMA BlockTaken ==
  ASSUME NoBlockShared(inodes, freeBlocks), NEW x \in Inodes, NEW k, NEW b,
         b \in freeBlocks \/ b = -1, freeBlocks' = freeBlocks \ {b},
         inodes'[x].direct = [inodes[x].direct EXCEPT ![k] = b],
         \A y \in Inodes : inodes'[y].free = inodes[y].free,
         \A y \in Inodes \ {x} : inodes'[y].direct = inodes[y].direct
  PROVE  NoBlockShared(inodes, freeBlocks)'
<1>1. DOMAIN inodes'[x].direct = DOMAIN inodes[x].direct
      /\ \A j \in DOMAIN inodes[x].direct : inodes'[x].direct[j] = IF j = k THEN b ELSE inodes[x].direct[j]
  OBVIOUS
<1>2. BlocksOf(inodes'[x].direct) \subseteq BlocksOf(inodes[x].direct) \cup ({b} \ {-1})
  BY <1>1 DEF BlocksOf
<1>3. \A y \in Inodes : ~inodes[y].free => b = -1 \/ b \notin BlocksOf(inodes[y].direct)
  BY DEF NoBlockShared
<1>4. ASSUME NEW y \in Inodes, ~inodes'[y].free
      PROVE  BlocksOf(inodes'[y].direct) \cap freeBlocks' = {}
  <2>1. BlocksOf(inodes[y].direct) \cap freeBlocks = {}
    BY <1>4 DEF NoBlockShared
  <2>2. CASE y = x
    BY <1>2, <2>1, <2>2
  <2>3. CASE y # x
    BY <2>1, <2>3
  <2> QED
    BY <2>2, <2>3
<1>5. ASSUME NEW y \in Inodes, ~inodes'[y].free, NEW z \in Inodes \ {y}, ~inodes'[z].free
      PROVE  BlocksOf(inodes'[y].direct) \cap BlocksOf(inodes'[z].direct) = {}
  <2>1. BlocksOf(inodes[y].direct) \cap BlocksOf(inodes[z].direct) = {}
        /\ (b = -1 \/ (b \notin BlocksOf(inodes[y].direct) /\ b \notin BlocksOf(inodes[z].direct)))
    BY <1>3, <1>5 DEF NoBlockShared
  <2>2. CASE y = x
    <3>1. inodes'[z].direct = inodes[z].direct
      BY <1>5, <2>2
    <3> QED
      BY <1>2, <2>1, <2>2, <3>1
  <2>3. CASE z = x
    <3>1. inodes'[y].direct = inodes[y].direct
      BY <1>5, <2>3
    <3> QED
      BY <1>2, <2>1, <2>3, <3>1
  <2>4. CASE y # x /\ z # x
    BY <2>1, <2>4
  <2> QED
    BY <2>2, <2>3, <2>4
<1>6. ASSUME NEW y \in Inodes, ~inodes'[y].free, NEW i \in DOMAIN inodes'[y].direct,
             NEW j \in DOMAIN inodes'[y].direct, i # j, inodes'[y].direct[i] # -1
      PROVE  inodes'[y].direct[i] # inodes'[y].direct[j]
  <2>1. \A m, n \in DOMAIN inodes[y].direct :
          m # n /\ inodes[y].direct[m] # -1 => inodes[y].direct[m] # inodes[y].direct[n]
    BY <1>6 DEF NoBlockShared
  <2>2. CASE y # x
    BY <1>6, <2>1, <2>2
  <2>3. CASE y = x
    <3>1. \A m \in DOMAIN inodes[x].direct : inodes[x].direct[m] = b => b = -1
      BY <1>3, <1>6, <2>3 DEF BlocksOf
    <3> QED
      BY <1>1, <1>6, <2>1, <2>3, <3>1
  <2> QED
    BY <2>2, <2>3
<1> QED
  BY <1>4, <1>5, <1>6 DEF NoBlockShared

-----------------------------------------------------------------------------
(* inode_write gets a block for its inode, and waits for its turn to write *)
(* it: what it may rely on is the same.                                    *)
LEMMA ToPut ==
  ASSUME NEW t, NEW r, Fits(t, r), r.pc = "write", NEW s, s = [r EXCEPT !.pc = "put"]
  PROVE  /\ Fits(t, s) /\ SameRole(r, s) /\ s.area = r.area /\ s.pc = "put" /\ s.inode = r.inode
         /\ Creating(s) <=> Creating(r)
<1>1. Legal(r) /\ Works(t, r) /\ RemovesOne(r) /\ MakesOne(r) /\ FreesOne(r) /\ DOMAIN r = Fields
  BY DEF Fits, Legal
<1>2. /\ DOMAIN s = Fields /\ s.pc = "put" /\ s.then = r.then /\ s.op = r.op /\ s.mode = r.mode
      /\ s.area = r.area /\ s.on = r.on /\ s.i = r.i /\ s.inode = r.inode /\ s.entry = r.entry
      /\ s.target = r.target /\ s.offset = r.offset /\ s.left = r.left /\ s.end = r.end
  BY <1>1 DEF Fields
<1>3. /\ Removing(s) <=> Removing(r)
      /\ Creating(s) <=> Creating(r)
      /\ Hole(s) = Hole(r) /\ (Writing(s) <=> Writing(r))
  BY <1>2 DEF Removing, Creating, Hole, Writing, Waits
<1> HIDE DEF Removing
<1>4. Legal(s)
  BY <1>1, <1>2, <1>3 DEF Legal, Waits, Pcs, Writing, NameOps, Walks
<1>5. Works(t, s)
  BY <1>1, <1>2, <1>3 DEF Works, Waits
<1>6. RemovesOne(s) /\ MakesOne(s) /\ FreesOne(s)
  BY <1>1, <1>2, <1>3 DEF RemovesOne, MakesOne, FreesOne
<1> QED
  BY <1>2, <1>3, <1>4, <1>5, <1>6 DEF Fits, SameRole

(* A write allocates a block for its inode.                                *)
LEMMA AllocateKeeps ==
  ASSUME IInv, NEW t \in Users, Write(t), NeedsBlock(th[t].target, th[t].cur)
  PROVE  IInv'
<1>1. PICK x : x = th[t].target
  OBVIOUS
<1>2. PICK k : k = th[t].cur
  OBVIOUS
<1>3. PICK b : b = allocate_block
  OBVIOUS
<1>4. PICK s : s = [th[t] EXCEPT !.pc = "put"]
  OBVIOUS
<1>5. /\ boot = "ready" /\ th[t].pc = "write" /\ th' = [th EXCEPT ![t] = s]
      /\ UNCHANGED <<entries, cwd, file, boot, active, deleted>>
      /\ inodes' = [inodes EXCEPT ![x].direct[k] = b, ![x].size = @ + 1]
      /\ freeBlocks' = freeBlocks \ {b} /\ onDisk' = [onDisk EXCEPT !.free = freeBlocks']
      /\ inodes[x].direct[k] < 0
  BY <1>1, <1>2, <1>3, <1>4 DEF Write, At, Ready, Goto, Takes, NeedsBlock, handles, rest
<1>6. Shape /\ TreeInv /\ BlocksInv /\ TableOK(inodes) /\ freeBlocks \subseteq Nat
  BY <1>5 DEF IInv, Shape
<1>7. Fits(t, th[t]) /\ x \in Inodes
  BY <1>1, <1>5, Here DEF Fits, Legal
<1>8. /\ Fits(t, s) /\ SameRole(th[t], s) /\ s.area = th[t].area /\ s.pc = "put"
      /\ s.inode = th[t].inode /\ (Creating(s) <=> Creating(th[t]))
  BY <1>4, <1>5, <1>7, ToPut
<1>9. b \in freeBlocks \/ b = -1
  BY <1>3, <1>6, Found
<1>10. PICK n : n = [[inodes[x] EXCEPT !.direct = [inodes[x].direct EXCEPT ![k] = b]]
                       EXCEPT !.size = inodes[x].size + 1]
  OBVIOUS
<1>11. InodeOK(inodes[x])
  BY <1>6, <1>7 DEF TableOK
<1>12. /\ DOMAIN n = InodeFields /\ n.type = inodes[x].type /\ n.free = inodes[x].free
       /\ n.references = inodes[x].references /\ n.bytes = inodes[x].bytes
       /\ n.parent = inodes[x].parent /\ n.size = inodes[x].size + 1
       /\ n.direct = [inodes[x].direct EXCEPT ![k] = b]
  BY <1>10, <1>11 DEF InodeOK, InodeFields
<1>13. InodeOK(n)
  <2>1. [inodes[x].direct EXCEPT ![k] = b] \in [0 .. TABLE_SIZE - 1 -> Nat \cup {-1}]
    BY <1>6, <1>9, <1>11 DEF InodeOK
  <2> QED
    BY <1>11, <1>12, <2>1 DEF InodeOK
<1>14. inodes' = [inodes EXCEPT ![x] = n]
  <2>1. PICK tb : tb = [inodes EXCEPT ![x].direct[k] = b]
    OBVIOUS
  <2>2. inodes' = [tb EXCEPT ![x].size = @ + 1]
    BY <1>5, <2>1
  <2>3. tb[x] = [inodes[x] EXCEPT !.direct = [inodes[x].direct EXCEPT ![k] = b]]
        /\ tb = [inodes EXCEPT ![x] = tb[x]] /\ tb[x].size = inodes[x].size
    BY <1>6, <1>7, <1>11, <2>1 DEF TableOK, InodeOK, InodeFields
  <2>4. inodes' = [tb EXCEPT ![x] = n]
    BY <1>10, <2>2, <2>3
  <2> QED
    BY <1>6, <1>7, <2>3, <2>4 DEF TableOK
<1>15. TableOK(inodes)' /\ inodes'[x] = n /\ \A y \in Inodes \ {x} : inodes'[y] = inodes[y]
  BY <1>6, <1>7, <1>13, <1>14, InodeSet
<1>16. \A y \in Inodes : SameNode(y) /\ inodes'[y].references = inodes[y].references
  BY <1>12, <1>15 DEF SameNode
<1>17. /\ onDisk' = [inodes |-> onDisk'.inodes, free |-> onDisk'.free, super |-> onDisk'.super]
       /\ onDisk'.inodes = onDisk.inodes /\ onDisk'.free = freeBlocks'
  BY <1>5, <1>6 DEF Shape
<1>18. Shape'
  <2>1. freeBlocks' \subseteq Nat
    BY <1>5, <1>6, <1>9, <1>17
  <2> QED
    BY <1>5, <1>6, <1>15, <1>17, <2>1, ShapeKept
<1>19. th'[t] = s /\ \A u \in Users \ {t} : th'[u] = th[u]
  BY <1>5, <1>6 DEF Shape
<1>20. \A y \in Inodes : Owed(y)' <=> Owed(y)
  BY <1>5, <1>8, <1>16, <1>19, TreeKept
<1>21. ASSUME NEW y \in Inodes PROVE RefsOK(y)'
  <2>1. Claims(y)' = Claims(y) /\ RefsOK(y) /\ Handles(y)' = Handles(y)
    BY <1>5, <1>6, <1>16, <1>20, <1>21 DEF TreeInv, Claims, SameNode, Handles
  <2> QED
    BY <1>16, <2>1 DEF RefsOK, SameNode
<1>22. HandleOK(t)'
  <2>1. HandleOK(t) /\ (file[t].inode # -1 => file[t].inode \in Inodes)
    <3>1. FileOK(file[t])
      BY <1>5, Here
    <3> QED
      BY <1>5, <3>1, Here DEF FileOK, NoFile
  <2> QED
    BY <1>5, <1>16, <1>20, <2>1 DEF HandleOK, SameNode
<1>23. NoBlockShared(inodes, freeBlocks)'
  <2>1. NoBlockShared(inodes, freeBlocks)
    BY <1>6 DEF BlocksInv
  <2>2. /\ inodes'[x].direct = [inodes[x].direct EXCEPT ![k] = b]
        /\ \A y \in Inodes : inodes'[y].free = inodes[y].free
        /\ \A y \in Inodes \ {x} : inodes'[y].direct = inodes[y].direct
    BY <1>12, <1>15, <1>16 DEF SameNode
  <2>3. freeBlocks' = freeBlocks \ {b}
    BY <1>5
  <2> QED
    BY <1>7, <1>9, <2>1, <2>2, <2>3, BlockTaken
<1>24. ~deleted' => Written'
  <2>1. SUFFICES ASSUME ~deleted, NEW y \in Inodes
                 PROVE  /\ ~onDisk.inodes[y].free => Matches(onDisk.inodes[y], inodes'[y])
                        /\ ~inodes'[y].free /\ ~Making(y)' => ~onDisk.inodes[y].free
    BY <1>5, <1>17 DEF Written
  <2>2. /\ ~onDisk.inodes[y].free => Matches(onDisk.inodes[y], inodes[y])
        /\ ~inodes[y].free /\ ~Making(y) => ~onDisk.inodes[y].free
    BY <1>6, <2>1 DEF BlocksInv, Written
  <2>3. Making(y)' <=> Making(y)
    BY <1>5, <1>8, <1>19 DEF Making
  <2>4. CASE y # x
    BY <1>15, <2>2, <2>3, <2>4
  <2>5. CASE y = x
    <3>1. ASSUME NEW j \in 0 .. TABLE_SIZE - 1, ~onDisk.inodes[x].free, onDisk.inodes[x].direct[j] # -1
          PROVE  onDisk.inodes[x].direct[j] = n.direct[j]
      <4>1. onDisk.inodes[x].direct[j] = inodes[x].direct[j]
        BY <2>2, <2>5, <3>1 DEF Matches
      <4>2. inodes[x].direct[j] \in Nat
        BY <1>11, <3>1, <4>1 DEF InodeOK
      <4>3. j # k
        BY <1>5, <4>2
      <4> QED
        BY <1>11, <1>12, <3>1, <4>1, <4>3 DEF InodeOK
    <3> QED
      BY <1>12, <1>15, <2>2, <2>3, <2>5, <3>1 DEF Matches
  <2> QED
    BY <2>4, <2>5
<1>25. BlocksInv'
  BY <1>17, <1>23, <1>24 DEF BlocksInv
<1>26. Fits(t, s)'
  <2>1. s.inode \in Inodes
    BY <1>8 DEF Fits, Legal
  <2> QED
    BY <1>5, <1>8, <1>16, <2>1, FitsStays
<1>27. ASSUME NEW u \in Users \ {t}
       PROVE  /\ th[u].op \notin Walks /\ file'[u] = file[u]
              /\ Creating(th[u]) => inodes'[th[u].inode].references = inodes[th[u].inode].references
              /\ Private(th[u]) => file'[t].inode # th[u].inode
              /\ Private(s) /\ Private(th[u]) => s.inode # th[u].inode
              /\ s.area \cap th[u].area = {}
  <2>1. th[u].op \notin Walks /\ s.area \cap th[u].area = {}
    BY <1>5, <1>8, NoWalker, Here
  <2>2. Private(th[u]) => th[u].inode \in Inodes /\ file[t].inode # th[u].inode
    BY <1>5, PrivateIs
  <2>3. Private(s) /\ Private(th[u]) => s.inode # th[u].inode
    <3>1. Apart(t, u)
      BY <1>5 DEF IInv, ThreadsInv
    <3>2. Private(s) <=> Private(th[t])
      BY <1>5, <1>8 DEF Private
    <3> QED
      BY <1>8, <3>1, <3>2 DEF Apart
  <2> QED
    BY <1>5, <1>16, <2>1, <2>2, <2>3 DEF Private
<1>28. t \notin active => s.pc = "idle"
  BY <1>5, Here
<1> QED
  BY <1>5, <1>8, <1>16, <1>18, <1>21, <1>22, <1>25, <1>26, <1>27, <1>28, InPlaceKeeps

(* A round of the loop of inode_write.                                     *)
LEMMA WriteStep ==
  ASSUME IInv, NEW t \in Users, Write(t)
  PROVE  IInv'
<1>1. CASE NeedsBlock(th[t].target, th[t].cur)
  BY <1>1, AllocateKeeps
<1>2. CASE ~NeedsBlock(th[t].target, th[t].cur)
  <2>1. /\ boot = "ready" /\ th[t].pc = "write" /\ Quiet /\ UNCHANGED handles
        /\ get_data_block(t, th[t], inodes[th[t].target].direct[th[t].cur], "put")
    BY <1>2 DEF Write, At, Ready, Quiet, memory, bitmap, rest
  <2> QED
    BY <2>1, WaitKeeps
<1> QED
  BY <1>1, <1>2

-----------------------------------------------------------------------------
(* The new inode is on the disk, and its directory gets the entry.         *)
LEMMA MadeStep ==
  ASSUME IInv, NEW t \in Users, Made(t)
  PROVE  IInv'
<1>1. PICK r : r = th[t]
  OBVIOUS
<1>2. PICK p : p = inodes[r.on].bytes
  OBVIOUS
<1>3. PICK s : s = [[r EXCEPT !.target = r.on, !.cur = p \div BLOCK, !.offset = p % BLOCK,
                              !.left = ENTRY, !.end = p + ENTRY] EXCEPT !.pc = "write"]
  OBVIOUS
<1>4. PICK x : x = r.inode
  OBVIOUS
<1>5. /\ boot = "ready" /\ r.pc = "made" /\ th' = [th EXCEPT ![t] = s]
      /\ UNCHANGED <<inodes, freeBlocks, entries, cwd, file, boot, active, deleted>>
      /\ onDisk' = [onDisk EXCEPT !.inodes[x] = inodes[x]]
  BY <1>1, <1>2, <1>3, <1>4 DEF Made, At, Ready, BeginWrite, Goto, memory, bitmap, handles, rest
<1>6. Shape /\ TreeInv /\ BlocksInv /\ TableOK(inodes) /\ TableOK(onDisk.inodes)
  BY <1>5 DEF IInv, Shape
<1>7. Fits(t, r) /\ Legal(r) /\ Works(t, r) /\ MakesOne(r) /\ DOMAIN r = Fields
  BY <1>1, <1>5, Here DEF Fits
<1>8. /\ DOMAIN s = Fields /\ s.pc = "write" /\ s.then = r.then /\ s.op = r.op /\ s.mode = r.mode
      /\ s.area = r.area /\ s.on = r.on /\ s.i = r.i /\ s.inode = x /\ s.entry = r.entry
      /\ s.target = r.on /\ s.offset = p % BLOCK /\ s.left = ENTRY /\ s.end = p + ENTRY
  BY <1>3, <1>4, <1>7 DEF Fields
<1>9. r.op \in {"creat", "mkdir"} /\ r.op \in NameOps /\ r.on \in Inodes /\ x \in Inodes
  BY <1>4, <1>5, <1>7 DEF Legal, NameOps
<1>10. /\ Creating(r) /\ Creating(s) /\ ~Removing(r) /\ ~Removing(s) /\ Writing(s)
       /\ Private(r) /\ Private(s)
  BY <1>5, <1>8, <1>9 DEF Creating, Removing, Writing, Private
<1>11. /\ ~inodes[x].free /\ inodes[x].references = 1
       /\ inodes[x].type = IF r.op = "mkdir" THEN "DIRECTORY" ELSE "REGULARFILE"
  BY <1>4, <1>7, <1>10 DEF MakesOne
<1>12. r.on \in Directories(inodes) /\ Filled(inodes, r.on) < NumSlots
  <2>1. r.on = cwd[t]
    BY <1>7, <1>9 DEF Works
  <2> QED
    BY <1>5, <1>7, <1>9, <2>1, Here DEF Works
<1>13. (p % BLOCK) \div ENTRY = Filled(inodes, r.on)
  <2>1. Filled(inodes, r.on) \in 0 .. NumSlots /\ p = Filled(inodes, r.on) * ENTRY
    BY <1>2, <1>6, <1>12, FilledIs DEF TreeInv
  <2>2. Filled(inodes, r.on) \in 0 .. NumSlots - 1
    BY <1>12, <2>1, Sizes
  <2> QED
    BY <2>1, <2>2, SlotPlace
<1>14. SameRole(r, s)
  BY <1>10 DEF SameRole
<1>15. Legal(s)
  BY <1>7, <1>8, <1>9 DEF Legal, Pcs, Waits, Writing, NameOps, Walks
<1>16. Works(t, s)
  BY <1>7, <1>8, <1>9 DEF Works, Waits, NameOps, Walks
<1>17. MakesOne(s)
  BY <1>2, <1>4, <1>7, <1>8, <1>10, <1>13 DEF MakesOne
<1>18. Fits(t, s)
  BY <1>8, <1>10, <1>15, <1>16, <1>17 DEF Fits, RemovesOne, FreesOne
<1>19. \A y \in Inodes : SameNode(y) /\ inodes'[y].references = inodes[y].references
  BY <1>5 DEF SameNode
<1>20. Fits(t, s)'
  BY <1>1, <1>5, <1>8, <1>9, <1>14, <1>18, <1>19, FitsStays
<1>21. th'[t] = s /\ \A u \in Users \ {t} : th'[u] = th[u]
  BY <1>5, <1>6 DEF Shape
<1>22. /\ onDisk' = [inodes |-> onDisk'.inodes, free |-> onDisk'.free, super |-> onDisk'.super]
       /\ onDisk'.inodes = [onDisk.inodes EXCEPT ![x] = inodes[x]] /\ onDisk'.free = onDisk.free
  BY <1>5, <1>6 DEF Shape
<1>23. /\ onDisk'.inodes[x] = inodes[x]
       /\ \A y \in Inodes \ {x} : onDisk'.inodes[y] = onDisk.inodes[y]
       /\ onDisk'.inodes = [y \in Inodes |-> onDisk'.inodes[y]]
  BY <1>6, <1>9, <1>22 DEF TableOK
<1>24. Shape'
  <2>1. TableOK(onDisk.inodes)'
    BY <1>6, <1>9, <1>23 DEF TableOK
  <2> QED
    BY <1>5, <1>6, <1>22, <2>1 DEF Shape
<1>25. \A y \in Inodes : Owed(y)' <=> Owed(y)
  BY <1>1, <1>5, <1>14, <1>19, <1>21, TreeKept
<1>26. ASSUME NEW y \in Inodes PROVE RefsOK(y)'
  <2>1. Claims(y)' = Claims(y) /\ RefsOK(y) /\ Handles(y)' = Handles(y)
    BY <1>5, <1>6, <1>25, <1>26 DEF TreeInv, Claims, Handles
  <2> QED
    BY <1>5, <2>1 DEF RefsOK
<1>27. HandleOK(t)'
  <2>1. HandleOK(t) /\ (file[t].inode # -1 => file[t].inode \in Inodes)
    <3>1. FileOK(file[t])
      BY <1>5, Here
    <3> QED
      BY <1>5, <3>1, Here DEF FileOK, NoFile
  <2> QED
    BY <1>5, <1>25, <2>1 DEF HandleOK
<1>28. ~deleted' => Written'
  <2>1. SUFFICES ASSUME ~deleted, NEW y \in Inodes
                 PROVE  /\ ~onDisk'.inodes[y].free => Matches(onDisk'.inodes[y], inodes[y])
                        /\ ~inodes[y].free /\ ~Making(y)' => ~onDisk'.inodes[y].free
    BY <1>5 DEF Written
  <2>2. /\ ~onDisk.inodes[y].free => Matches(onDisk.inodes[y], inodes[y])
        /\ ~inodes[y].free /\ ~Making(y) => ~onDisk.inodes[y].free
    BY <1>6, <2>1 DEF BlocksInv, Written
  <2>3. CASE y # x
    <3>1. Making(y) => Making(y)'
      BY <1>1, <1>4, <1>21, <2>3 DEF Making
    <3> QED
      BY <1>23, <2>2, <2>3, <3>1
  <2>4. CASE y = x
    BY <1>11, <1>23, <2>4 DEF Matches
  <2> QED
    BY <2>3, <2>4
<1>29. BlocksInv'
  BY <1>5, <1>6, <1>22, <1>28 DEF BlocksInv
<1>30. ASSUME NEW u \in Users \ {t}
       PROVE  /\ th[u].op \notin Walks /\ file'[u] = file[u]
              /\ Creating(th[u]) => inodes'[th[u].inode].references = inodes[th[u].inode].references
              /\ Private(th[u]) => file'[t].inode # th[u].inode
              /\ Private(s) /\ Private(th[u]) => s.inode # th[u].inode
              /\ s.area \cap th[u].area = {}
  <2>1. th[u].op \notin Walks /\ s.area \cap th[u].area = {}
    BY <1>1, <1>5, <1>8, NoWalker, Here
  <2>2. Private(th[u]) => file[t].inode # th[u].inode /\ th[u].inode # x
    BY <1>1, <1>4, <1>5, <1>10, PrivateIs
  <2> QED
    BY <1>5, <1>8, <2>1, <2>2
<1>31. t \in active
  BY <1>1, <1>5, Here
<1> QED
  BY <1>1, <1>5, <1>14, <1>19, <1>20, <1>24, <1>26, <1>27, <1>29, <1>30, <1>31, InPlaceKeeps

-----------------------------------------------------------------------------
(* A block of an inode goes back to the bitmap.                            *)
LEMMA BlockGiven ==
  ASSUME NoBlockShared(inodes, freeBlocks), NEW x \in Inodes, ~inodes[x].free,
         NEW k \in DOMAIN inodes[x].direct, NEW b, b = inodes[x].direct[k], b # -1,
         freeBlocks' = freeBlocks \cup {b},
         inodes'[x].direct = [inodes[x].direct EXCEPT ![k] = -1],
         \A y \in Inodes : inodes'[y].free = inodes[y].free,
         \A y \in Inodes \ {x} : inodes'[y].direct = inodes[y].direct
  PROVE  NoBlockShared(inodes, freeBlocks)'
<1>1. DOMAIN inodes'[x].direct = DOMAIN inodes[x].direct
      /\ \A j \in DOMAIN inodes[x].direct : inodes'[x].direct[j] = IF j = k THEN -1 ELSE inodes[x].direct[j]
  OBVIOUS
<1>2. \A m, n \in DOMAIN inodes[x].direct :
        m # n /\ inodes[x].direct[m] # -1 => inodes[x].direct[m] # inodes[x].direct[n]
  BY DEF NoBlockShared
<1>3. BlocksOf(inodes'[x].direct) \subseteq BlocksOf(inodes[x].direct) \ {b}
  BY <1>1, <1>2 DEF BlocksOf
<1>4. \A y \in Inodes \ {x} : ~inodes[y].free => b \notin BlocksOf(inodes[y].direct)
  <2>1. b \in BlocksOf(inodes[x].direct)
    BY DEF BlocksOf
  <2> QED
    BY <2>1 DEF NoBlockShared
<1>5. ASSUME NEW y \in Inodes, ~inodes'[y].free
      PROVE  BlocksOf(inodes'[y].direct) \cap freeBlocks' = {}
  <2>1. BlocksOf(inodes[y].direct) \cap freeBlocks = {}
    BY <1>5 DEF NoBlockShared
  <2>2. CASE y = x
    BY <1>3, <2>1, <2>2
  <2>3. CASE y # x
    BY <1>4, <1>5, <2>1, <2>3
  <2> QED
    BY <2>2, <2>3
<1>6. ASSUME NEW y \in Inodes, ~inodes'[y].free, NEW z \in Inodes \ {y}, ~inodes'[z].free
      PROVE  BlocksOf(inodes'[y].direct) \cap BlocksOf(inodes'[z].direct) = {}
  <2>1. BlocksOf(inodes[y].direct) \cap BlocksOf(inodes[z].direct) = {}
    BY <1>6 DEF NoBlockShared
  <2>2. \A v \in Inodes : BlocksOf(inodes'[v].direct) \subseteq BlocksOf(inodes[v].direct)
    BY <1>3
  <2> QED
    BY <2>1, <2>2
<1>7. ASSUME NEW y \in Inodes, ~inodes'[y].free, NEW i \in DOMAIN inodes'[y].direct,
             NEW j \in DOMAIN inodes'[y].direct, i # j, inodes'[y].direct[i] # -1
      PROVE  inodes'[y].direct[i] # inodes'[y].direct[j]
  <2>1. \A m, n \in DOMAIN inodes[y].direct :
          m # n /\ inodes[y].direct[m] # -1 => inodes[y].direct[m] # inodes[y].direct[n]
    BY <1>7 DEF NoBlockShared
  <2>2. CASE y # x
    BY <1>7, <2>1, <2>2
  <2>3. CASE y = x
    BY <1>1, <1>7, <2>1, <2>3
  <2> QED
    BY <2>2, <2>3
<1> QED
  BY <1>5, <1>6, <1>7 DEF NoBlockShared

(* free_block: the block goes back, and the next one is next.              *)
LEMMA FreeBlockKeeps ==
  ASSUME IInv, NEW t \in Users, Free(t), th[t].i < inodes[th[t].inode].size, ~UNCHANGED th
  PROVE  IInv'
<1>1. PICK r : r = th[t]
  OBVIOUS
<1>2. PICK x : x = r.inode
  OBVIOUS
<1>3. PICK k : k = r.i
  OBVIOUS
<1>4. PICK b : b = inodes[x].direct[k]
  OBVIOUS
<1>5. PICK s : s = [[r EXCEPT !.i = @ + 1] EXCEPT !.pc = "free"]
  OBVIOUS
<1>6. /\ boot = "ready" /\ r.pc = "free" /\ th' = [th EXCEPT ![t] = s]
      /\ UNCHANGED <<entries, cwd, file, boot, active, deleted>>
      /\ k < TABLE_SIZE /\ ~(b < 0)
      /\ inodes' = [inodes EXCEPT ![x].direct[k] = -1]
      /\ freeBlocks' = freeBlocks \cup {b} /\ onDisk' = [onDisk EXCEPT !.free = freeBlocks']
  BY <1>1, <1>2, <1>3, <1>4, <1>5 DEF Free, At, Ready, Goto, Fault, handles, rest
<1>7. Shape /\ TreeInv /\ BlocksInv /\ TableOK(inodes) /\ freeBlocks \subseteq Nat
  BY <1>6 DEF IInv, Shape
<1>8. Fits(t, r) /\ Legal(r) /\ Works(t, r) /\ FreesOne(r) /\ DOMAIN r = Fields
  BY <1>1, <1>6, Here DEF Fits
<1>9. x \in Inodes /\ k \in 0 .. TABLE_SIZE - 1 /\ deleted /\ ~inodes[x].free
  <2>1. k \in Nat /\ TABLE_SIZE \in Nat /\ x \in Inodes
    BY <1>2, <1>3, <1>8, MiniFileAssumption DEF Legal
  <2> QED
    BY <1>2, <1>6, <1>8, <2>1 DEF FreesOne
<1>10. InodeOK(inodes[x])
  BY <1>7, <1>9 DEF TableOK
<1>11. b \in Nat /\ k \in DOMAIN inodes[x].direct /\ b # -1
  <2>1. inodes[x].direct \in [0 .. TABLE_SIZE - 1 -> Nat \cup {-1}]
    BY <1>10, InodeIs
  <2>2. b \in Nat \cup {-1} /\ k \in DOMAIN inodes[x].direct
    BY <1>4, <1>9, <2>1
  <2>3. ~(b < 0)
    BY <1>6
  <2> QED
    BY <2>2, <2>3
<1>12. PICK n : n = [inodes[x] EXCEPT !.direct = [inodes[x].direct EXCEPT ![k] = -1]]
  OBVIOUS
<1>13. /\ DOMAIN n = InodeFields /\ n.type = inodes[x].type /\ n.free = inodes[x].free
       /\ n.references = inodes[x].references /\ n.bytes = inodes[x].bytes
       /\ n.parent = inodes[x].parent /\ n.size = inodes[x].size
       /\ n.direct = [inodes[x].direct EXCEPT ![k] = -1]
  BY <1>10, <1>12 DEF InodeOK, InodeFields
<1>14. InodeOK(n)
  <2>1. [inodes[x].direct EXCEPT ![k] = -1] \in [0 .. TABLE_SIZE - 1 -> Nat \cup {-1}]
    BY <1>10 DEF InodeOK
  <2> QED
    BY <1>10, <1>13, <2>1 DEF InodeOK
<1>15. inodes' = [inodes EXCEPT ![x] = n]
  BY <1>6, <1>7, <1>9, <1>12 DEF TableOK
<1>16. TableOK(inodes)' /\ inodes'[x] = n /\ \A y \in Inodes \ {x} : inodes'[y] = inodes[y]
  BY <1>7, <1>9, <1>14, <1>15, InodeSet
<1>17. \A y \in Inodes : SameNode(y) /\ inodes'[y].references = inodes[y].references
  BY <1>13, <1>16 DEF SameNode
<1>18. /\ onDisk' = [inodes |-> onDisk'.inodes, free |-> onDisk'.free, super |-> onDisk'.super]
       /\ onDisk'.inodes = onDisk.inodes /\ onDisk'.free = freeBlocks'
  BY <1>6, <1>7 DEF Shape
<1>19. Shape'
  <2>1. freeBlocks' \subseteq Nat
    BY <1>6, <1>7, <1>11, <1>18
  <2> QED
    BY <1>6, <1>7, <1>16, <1>18, <2>1, ShapeKept
<1>20. th'[t] = s /\ \A u \in Users \ {t} : th'[u] = th[u]
  BY <1>6, <1>7 DEF Shape
<1>21. /\ DOMAIN s = Fields /\ s.pc = "free" /\ s.then = r.then /\ s.op = r.op /\ s.mode = r.mode
       /\ s.area = r.area /\ s.on = r.on /\ s.i = k + 1 /\ s.inode = r.inode /\ s.entry = r.entry
       /\ s.target = r.target
  BY <1>3, <1>5, <1>8 DEF Fields
<1>22. ~Removing(r) /\ ~Removing(s) /\ ~Creating(s) /\ ~Creating(r) /\ ~Writing(s) /\ Private(r)
  BY <1>6, <1>21 DEF Removing, Creating, Writing, Waits, Private
<1>23. SameRole(r, s)
  BY <1>22 DEF SameRole
<1>24. Fits(t, s)
  <2>1. s.i \in Nat
    BY <1>9, <1>21
  <2>2. Legal(s)
    BY <1>6, <1>8, <1>21, <1>22, <2>1 DEF Legal, Pcs, Waits
  <2>3. Works(t, s)
    <3>1. s.op \in {"unlink", "close"}
      BY <1>6, <1>8, <1>21 DEF Legal
    <3> QED
      BY <1>8, <1>21, <1>22, <3>1 DEF Works, Waits
  <2>4. FreesOne(s)
    BY <1>6, <1>8, <1>21 DEF FreesOne
  <2> QED
    BY <1>22, <2>2, <2>3, <2>4 DEF Fits, RemovesOne, MakesOne
<1>25. Fits(t, s)'
  BY <1>1, <1>6, <1>17, <1>22, <1>23, <1>24, FitsStays
<1>26. \A y \in Inodes : Owed(y)' <=> Owed(y)
  BY <1>1, <1>6, <1>17, <1>20, <1>23, TreeKept
<1>27. ASSUME NEW y \in Inodes PROVE RefsOK(y)'
  <2>1. Claims(y)' = Claims(y) /\ RefsOK(y) /\ Handles(y)' = Handles(y)
    BY <1>6, <1>7, <1>17, <1>26, <1>27 DEF TreeInv, Claims, SameNode, Handles
  <2> QED
    BY <1>17, <2>1 DEF RefsOK, SameNode
<1>28. HandleOK(t)'
  <2>1. HandleOK(t) /\ (file[t].inode # -1 => file[t].inode \in Inodes)
    <3>1. FileOK(file[t])
      BY <1>6, Here
    <3> QED
      BY <1>6, <3>1, Here DEF FileOK, NoFile
  <2> QED
    BY <1>6, <1>17, <1>26, <2>1 DEF HandleOK, SameNode
<1>29. BlocksInv'
  <2>1. NoBlockShared(inodes, freeBlocks)
    BY <1>7 DEF BlocksInv
  <2>2. /\ inodes'[x].direct = [inodes[x].direct EXCEPT ![k] = -1]
        /\ \A y \in Inodes : inodes'[y].free = inodes[y].free
        /\ \A y \in Inodes \ {x} : inodes'[y].direct = inodes[y].direct
    BY <1>13, <1>16, <1>17 DEF SameNode
  <2>3. freeBlocks' = freeBlocks \cup {b}
    BY <1>6
  <2>4. NoBlockShared(inodes, freeBlocks)'
    BY <1>4, <1>9, <1>11, <2>1, <2>2, <2>3, BlockGiven
  <2> QED
    BY <1>6, <1>9, <1>18, <2>4 DEF BlocksInv
<1>30. ASSUME NEW u \in Users \ {t}
       PROVE  /\ th[u].op \notin Walks /\ file'[u] = file[u]
              /\ Creating(th[u]) => inodes'[th[u].inode].references = inodes[th[u].inode].references
              /\ Private(th[u]) => file'[t].inode # th[u].inode
              /\ Private(s) /\ Private(th[u]) => s.inode # th[u].inode
              /\ s.area \cap th[u].area = {}
  <2>1. th[u].op \notin Walks /\ s.area \cap th[u].area = {}
    BY <1>1, <1>6, <1>21, NoWalker, Here
  <2>2. Private(th[u]) => /\ th[u].inode \in Inodes /\ file[t].inode # th[u].inode
                          /\ th[u].inode # s.inode
    BY <1>1, <1>6, <1>21, <1>22, PrivateIs
  <2> QED
    BY <1>6, <1>17, <2>1, <2>2 DEF Private
<1>31. t \in active
  BY <1>1, <1>6, Here
<1> QED
  BY <1>1, <1>6, <1>17, <1>19, <1>23, <1>25, <1>27, <1>28, <1>29, <1>30, <1>31, InPlaceKeeps

-----------------------------------------------------------------------------
(* An inode that no directory lists and no handle is for is made or freed. *)
Loose(x) ==
  /\ x \notin Directories(inodes) /\ Handles(x) = {} /\ ~Unlisting(x)
  /\ \A d \in Directories(inodes), k \in Slots : Has(inodes, d, k) => entries[d][k].inode # x

(* An inode that nobody knows is taken into use, or given back.            *)
LEMMA HandsKeep ==
  ASSUME IInv, boot = "ready", NEW t \in Users, NEW s, th' = [th EXCEPT ![t] = s],
         th[t].pc # "idle", ~Removing(th[t]), ~Removing(s),
         UNCHANGED <<entries, cwd, file, boot, active, deleted>>,
         NEW x \in Inodes, Loose(x), inodes'[x].bytes = 0,
         \A y \in Inodes \ {x} : inodes'[y] = inodes[y],
         ~inodes'[x].free => inodes'[x].parent = cwd[t],
         ~inodes'[x].free => inodes'[x].references \in Int /\ inodes'[x].references >= 1,
         \A u \in Users \ {t} : Private(th[u]) => th[u].inode # x
  PROVE  /\ TreeInv' /\ \A u \in Users \ {t} : LocalInv(u)' /\ th'[u] = th[u]
         /\ ~inodes'[x].free => Unknown(x)' /\ Untrodden(x)'
<1>1. /\ Shape /\ TreeInv /\ Rooted(inodes) /\ TableOK(inodes)
      /\ \A y \in Inodes, k \in Slots : entries[y][k].inode \in Inodes
      /\ cwd[t] \in Directories(inodes)
  BY DEF IInv, Shape, TreeInv
<1>16. ~inodes'[x].free => inodes'[x].parent \in Directories(inodes)
  <2>1. SUFFICES ASSUME ~inodes'[x].free PROVE inodes'[x].parent \in Directories(inodes)
    OBVIOUS
  <2>2. inodes'[x].parent = cwd[t]
    BY <2>1
  <2>3. cwd[t] \in Directories(inodes)
    BY <1>1
  <2> QED
    BY <2>2, <2>3
<1>2. th'[t] = s /\ \A u \in Users \ {t} : th'[u] = th[u]
  BY <1>1 DEF Shape
<1>3. \A u \in Users : (Removing(th'[u]) <=> Removing(th[u])) /\ (Removing(th[u]) => th'[u] = th[u])
  BY <1>2
<1>4. /\ \A d \in Directories(inodes) : d \in Inodes /\ d # x /\ inodes'[d] = inodes[d]
                                        /\ d \in Directories(inodes)'
      /\ \A d \in Directories(inodes)' : d \in Directories(inodes) \/ d = x
  BY DEF Loose, Directories
<1>5. /\ \A d \in Directories(inodes) : Filled(inodes, d)' = Filled(inodes, d)
      /\ \A d \in Directories(inodes) : \A k : Has(inodes, d, k)' <=> Has(inodes, d, k)
  BY <1>4 DEF Filled, Has
<1>6. \A k : ~Has(inodes, x, k)'
  <2>1. Filled(inodes, x)' = 0
    BY Sizes DEF Filled
  <2>2. \A k \in Slots : ~(k < 0)
    BY Sizes
  <2> QED
    BY <2>1, <2>2 DEF Has
<1>7. ASSUME NEW y \in Inodes \ {x}, ~inodes[y].free
      PROVE  Owed(y)' <=> Owed(y)
  <2>1. inodes[y].parent \in Directories(inodes) /\ inodes'[y].parent = inodes[y].parent
    BY <1>1, <1>7 DEF Rooted
  <2>2. ListedIn(inodes, y)' <=> ListedIn(inodes, y)
    BY <1>5, <2>1 DEF ListedIn
  <2>3. Unlisting(y)' <=> Unlisting(y)
    BY <1>3 DEF Unlisting
  <2> QED
    BY <2>2, <2>3 DEF Owed
<1>8. \A y \in Inodes : Handles(y)' = Handles(y)
  BY DEF Handles
<1>9. ~inodes'[x].free => Unknown(x)' /\ Untrodden(x)'
  <2>1. SUFFICES ASSUME ~inodes'[x].free PROVE Unknown(x)' /\ Untrodden(x)'
    OBVIOUS
  <2>2. inodes'[x].parent \in Directories(inodes)
    BY <1>16, <2>1
  <2>3. ~ListedIn(inodes, x)'
    BY <1>5, <2>2 DEF ListedIn, Loose
  <2>4. ~Unlisting(x)'
    BY <1>3 DEF Unlisting, Loose
  <2>5. Untrodden(x)'
    <3>1. \A u \in Users : cwd[u] \in Directories(inodes)
      BY <1>1 DEF TreeInv
    <3>2. \A y \in Inodes : ~inodes'[y].free => inodes'[y].parent \in Directories(inodes)
      BY <1>1, <2>2 DEF Rooted
    <3> QED
      BY <1>4, <3>1, <3>2 DEF Untrodden
  <2> QED
    BY <1>8, <2>3, <2>4, <2>5 DEF Unknown, Owed, Loose
<1>10. Rooted(inodes)'
  <2>1. ASSUME NEW y \in Inodes, ~inodes'[y].free PROVE inodes'[y].parent \in Directories(inodes)'
    <3>1. inodes'[y].parent \in Directories(inodes)
      BY <1>1, <1>16, <2>1 DEF Rooted
    <3> QED
      BY <1>4, <3>1
  <2>2. ASSUME NEW d \in Directories(inodes)' PROVE \E n \in 0 .. NumSlots : inodes'[d].bytes = n * ENTRY
    <3>1. CASE d \in Directories(inodes)
      BY <1>1, <1>4, <3>1 DEF Rooted
    <3>2. CASE d = x
      <4>1. 0 \in 0 .. NumSlots /\ inodes'[d].bytes = 0 * ENTRY
        BY <3>2, Sizes
      <4> QED
        BY <4>1
    <3> QED
      BY <1>4, <2>2, <3>1, <3>2
  <2>3. ASSUME NEW d \in Directories(inodes)', NEW k \in Slots, Has(inodes, d, k)'
        PROVE  ~inodes'[entries[d][k].inode].free /\ inodes'[entries[d][k].inode].parent = d
    <3>1. d \in Directories(inodes) /\ Has(inodes, d, k)
      BY <1>4, <1>5, <1>6, <2>3
    <3>2. entries[d][k].inode \in Inodes \ {x}
      BY <1>1, <1>4, <3>1 DEF Loose
    <3> QED
      BY <1>1, <3>1, <3>2 DEF Rooted
  <2>4. 0 \in Directories(inodes)'
    BY <1>1, <1>4 DEF Rooted
  <2> QED
    BY <2>1, <2>2, <2>3, <2>4 DEF Rooted
<1>11. DistinctUp'
  <2>1. SUFFICES ASSUME NEW d \in Directories(inodes)', NEW i \in Slots, NEW j \in Slots,
                        Doubled(inodes, d, i, j)', i # j
                 PROVE  InHole(d, i, j)'
    BY DEF DistinctUp
  <2>2. d \in Directories(inodes) /\ Doubled(inodes, d, i, j)
    BY <1>4, <1>5, <1>6, <2>1 DEF Doubled
  <2>3. PICK u \in Users : Removing(th[u]) /\ th[u].on = d /\ Hole(th[u]) \in {i, j}
    BY <1>1, <2>1, <2>2 DEF DistinctUp, InHole, TreeInv
  <2>4. Removing(th'[u]) /\ th'[u].on = d /\ Hole(th'[u]) \in {i, j}
    BY <1>3, <2>3
  <2> QED
    BY <2>4 DEF InHole
<1>12. ASSUME NEW y \in Inodes PROVE RefsOK(y)'
  <2>1. CASE y = x
    <3>1. Handles(y)' = {}
      BY <1>8, <2>1 DEF Loose
    <3>2. Cardinality(Handles(y)') = 0
      BY <3>1, FS_EmptySet
    <3>3. Claims(y)' \in {0, 1}
      BY DEF Claims
    <3> QED
      BY <2>1, <3>2, <3>3 DEF RefsOK
  <2>2. CASE y # x
    <3>1. SUFFICES ASSUME ~inodes[y].free PROVE RefsOK(y)'
      BY <2>2 DEF RefsOK
    <3>2. Claims(y)' = Claims(y) /\ RefsOK(y) /\ Handles(y)' = Handles(y)
      BY <1>1, <1>7, <1>8, <2>2, <3>1 DEF TreeInv, Claims
    <3> QED
      BY <2>2, <3>2 DEF RefsOK
  <2> QED
    BY <2>1, <2>2
<1>13. ASSUME NEW u \in Users PROVE HandleOK(u)' /\ cwd[u] \in Directories(inodes)'
  <2>1. HandleOK(u) /\ FileOK(file[u]) /\ cwd[u] \in Directories(inodes)
    BY <1>1, <1>13, Here
  <2>2. file[u].inode # -1 => file[u].inode \in Inodes \ {x}
    BY <1>13, <2>1 DEF FileOK, NoFile, Loose, Handles
  <2> QED
    BY <1>4, <1>7, <2>1, <2>2 DEF HandleOK
<1>14. TreeInv'
  BY <1>10, <1>11, <1>12, <1>13 DEF TreeInv
<1>15. ASSUME NEW u \in Users \ {t} PROVE LocalInv(u)'
  <2>1. LocalInv(u) /\ Fits(u, th[u]) /\ Legal(th[u]) /\ Works(u, th[u]) /\ MakesOne(th[u])
    BY Here DEF Fits
  <2>2. th[u].inode \in Inodes /\ th[u].on \in Inodes
    BY <2>1 DEF Legal
  <2>3. th[u].op \in NameOps => th[u].on \in Directories(inodes)
    <3>1. th[u].op \in NameOps => th[u].on = cwd[u]
      BY <2>1 DEF Works
    <3> QED
      BY <3>1, Here
  <2>4. Private(th[u]) => th[u].inode \in Inodes \ {x} /\ ~inodes[th[u].inode].free /\ Unknown(th[u].inode)
    BY <2>2, PrivateIs
  <2>5. Private(th[u]) => Unknown(th[u].inode)'
    BY <1>7, <1>8, <2>4 DEF Unknown
  <2>6. Creating(th[u]) => Untrodden(th[u].inode)'
    <3>1. SUFFICES ASSUME Creating(th[u]), ~inodes'[x].free PROVE inodes'[x].parent # th[u].inode
      BY <2>1 DEF MakesOne, Untrodden
    <3>2. Untrodden(th[u].inode)
      BY <2>1, <3>1 DEF MakesOne
    <3> QED
      BY <3>1, <3>2 DEF Untrodden
  <2>7. Removing(th[u]) => th[u].inode # x
    BY DEF Loose, Unlisting
  <2>8. th[u].op = "write" => file[u].inode \in Inodes \ {x}
    <3>1. FileOK(file[u]) /\ file[u].inode # x
      BY Here DEF Loose, Handles
    <3> QED
      BY <2>1, <3>1 DEF Works, FileOK, NoFile
  <2>9. th[u].op \notin Walks
    BY NoWalker
  <2> DEFINE N == {x}
  <2>10. \A y : y \in N <=> y = x
    OBVIOUS
  <2>11. th[u].op \in NameOps => th[u].on \notin N /\ inodes'[th[u].on].bytes = inodes[th[u].on].bytes
    BY <1>4, <2>3, <2>10
  <2> HIDE DEF N
  <2>12. /\ \A y \in Inodes \ N : inodes'[y] = inodes[y]
         /\ th[u].op = "write" => file[u].inode \in Inodes \ N
         /\ Removing(th[u]) \/ Private(th[u]) => th[u].inode \notin N
         /\ Creating(th[u]) => inodes'[th[u].inode].references = inodes[th[u].inode].references
    BY <2>4, <2>7, <2>8, <2>10 DEF Private
  <2> QED
    BY <1>2, <2>5, <2>6, <2>9, <2>11, <2>12, OthersKeep
<1> QED
  BY <1>2, <1>9, <1>14, <1>15

-----------------------------------------------------------------------------
(* Calls stay apart as long as the one that moves takes nothing more.      *)
LEMMA ApartKeeps ==
  ASSUME IInv, boot = "ready", NEW t \in Users, NEW s, th' = [th EXCEPT ![t] = s],
         s.area \subseteq th[t].area,
         \A u \in Users \ {t} : Private(s) /\ Private(th[u]) => s.inode # th[u].inode
  PROVE  \A u, w \in Users : u # w => Apart(u, w)'
<1>1. th'[t] = s /\ \A u \in Users \ {t} : th'[u] = th[u]
  BY DEF IInv, Shape
<1>2. SUFFICES ASSUME NEW u \in Users, NEW w \in Users, u # w PROVE Apart(u, w)'
  OBVIOUS
<1>3. Apart(u, w)
  BY <1>2 DEF IInv, ThreadsInv
<1>4. CASE u # t /\ w # t
  BY <1>1, <1>3, <1>4 DEF Apart
<1>5. CASE u = t
  <2>1. th'[u] = s /\ th'[w] = th[w] /\ (Private(s) /\ Private(th[w]) => s.inode # th[w].inode)
    BY <1>1, <1>2, <1>5
  <2> QED
    BY <1>3, <1>5, <2>1 DEF Apart
<1>6. CASE w = t
  <2>1. th'[w] = s /\ th'[u] = th[u] /\ (Private(s) /\ Private(th[u]) => s.inode # th[u].inode)
    BY <1>1, <1>2, <1>6
  <2> QED
    BY <1>3, <1>6, <2>1 DEF Apart
<1> QED
  BY <1>4, <1>5, <1>6

(* An inode the call has to itself is loose.                               *)
LEMMA LooseIs ==
  ASSUME IInv, boot = "ready", NEW x \in Inodes,
         \/ inodes[x].free
         \/ inodes[x].type = "REGULARFILE" /\ Unknown(x)
  PROVE  Loose(x)
<1>1. /\ TreeInv /\ Rooted(inodes)
      /\ \A u \in Users : RemovesOne(th[u]) /\ HandleOK(u)
  BY Here DEF IInv, TreeInv, Fits
<1>2. CASE inodes[x].free
  <2>1. x \notin Directories(inodes)
    BY <1>2 DEF Directories
  <2>2. Handles(x) = {}
    <3>1. SUFFICES ASSUME NEW u \in Users, file[u].inode = x PROVE FALSE
      BY DEF Handles
    <3>2. x # -1
      BY MiniFileAssumption DEF Inodes
    <3> QED
      BY <1>1, <1>2, <3>1, <3>2 DEF HandleOK
  <2>3. ~Unlisting(x)
    BY <1>1, <1>2 DEF Unlisting, RemovesOne
  <2>4. \A d \in Directories(inodes), k \in Slots : Has(inodes, d, k) => entries[d][k].inode # x
    BY <1>1, <1>2 DEF Rooted
  <2> QED
    BY <2>1, <2>2, <2>3, <2>4 DEF Loose
<1>3. CASE inodes[x].type = "REGULARFILE" /\ Unknown(x)
  <2>1. x \notin Directories(inodes)
    BY <1>3 DEF Directories
  <2>2. Handles(x) = {} /\ ~Unlisting(x) /\ ~ListedIn(inodes, x)
    BY <1>3 DEF Unknown, Owed
  <2>3. \A d \in Directories(inodes), k \in Slots : Has(inodes, d, k) => entries[d][k].inode # x
    BY <1>1, <2>2 DEF Rooted, ListedIn
  <2> QED
    BY <2>1, <2>2, <2>3 DEF Loose
<1> QED
  BY <1>2, <1>3

(* The last step of free_inode.                                            *)
LEMMA FreeLastKeeps ==
  ASSUME IInv, NEW t \in Users, Free(t), ~(th[t].i < inodes[th[t].inode].size)
  PROVE  IInv'
<1>1. PICK r : r = th[t]
  OBVIOUS
<1>2. PICK x : x = r.inode
  OBVIOUS
<1>3. /\ boot = "ready" /\ r.pc = "free" /\ AfterUnlink(t, r)
      /\ UNCHANGED <<freeBlocks, entries, cwd, file, boot, active, deleted>>
      /\ inodes' = [inodes EXCEPT ![x].size = 0, ![x].bytes = 0, ![x].references = 0, ![x].free = TRUE]
      /\ onDisk' = [onDisk EXCEPT !.inodes[x] = inodes'[x]]
  BY <1>1, <1>2 DEF Free, At, Ready, handles, rest, bitmap, disk_update_inode
<1>4. Shape /\ TreeInv /\ BlocksInv /\ TableOK(inodes) /\ TableOK(onDisk.inodes)
  BY <1>3 DEF IInv, Shape
<1>5. Fits(t, r) /\ Legal(r) /\ Works(t, r) /\ FreesOne(r) /\ DOMAIN r = Fields
  BY <1>1, <1>3, Here DEF Fits
<1>6. /\ x \in Inodes /\ deleted /\ ~inodes[x].free /\ inodes[x].type = "REGULARFILE"
      /\ Unknown(x) /\ r.op \in {"unlink", "close"}
  BY <1>2, <1>3, <1>5 DEF FreesOne, Legal
<1>7. InodeOK(inodes[x])
  BY <1>4, <1>6 DEF TableOK
<1>8. PICK n : n = [inodes[x] EXCEPT !.size = 0, !.bytes = 0, !.references = 0, !.free = TRUE]
  OBVIOUS
<1>9. /\ DOMAIN n = InodeFields /\ n.type = inodes[x].type /\ n.free = TRUE
      /\ n.references = 0 /\ n.bytes = 0 /\ n.parent = inodes[x].parent /\ n.size = 0
      /\ n.direct = inodes[x].direct
  BY <1>7, <1>8 DEF InodeOK, InodeFields
<1>10. InodeOK(n)
  BY <1>7, <1>9 DEF InodeOK
<1>11. inodes' = [inodes EXCEPT ![x] = n]
  BY <1>3, <1>4, <1>6, <1>8 DEF TableOK
<1>12. TableOK(inodes)' /\ inodes'[x] = n /\ \A y \in Inodes \ {x} : inodes'[y] = inodes[y]
  BY <1>4, <1>6, <1>10, <1>11, InodeSet
<1>13. /\ onDisk' = [inodes |-> onDisk'.inodes, free |-> onDisk'.free, super |-> onDisk'.super]
       /\ onDisk'.inodes = [onDisk.inodes EXCEPT ![x] = n] /\ onDisk'.free = onDisk.free
  BY <1>3, <1>4, <1>12 DEF Shape
<1>14. PICK s : th' = [th EXCEPT ![t] = s]
                /\ \/ s = Idle
                   \/ r.mode = "w" /\ s = [[r EXCEPT !.op = "creat", !.i = 0] EXCEPT !.pc = "scan"]
  BY <1>3 DEF AfterUnlink, Goto, Return
<1>15. Shape'
  <2>1. TableOK(onDisk.inodes)'
    BY <1>4, <1>6, <1>10, <1>13 DEF TableOK
  <2>2. freeBlocks' \subseteq Nat /\ th' = [u \in Users |-> th'[u]]
    BY <1>3, <1>4, <1>14 DEF Shape
  <2>3. UNCHANGED <<entries, cwd, file, deleted>>
    BY <1>3
  <2>4. onDisk' = [inodes |-> onDisk'.inodes, free |-> onDisk'.free, super |-> onDisk'.super]
    BY <1>13
  <2> QED
    BY <1>4, <1>12, <2>1, <2>2, <2>3, <2>4 DEF Shape
<1>16. /\ s.pc \in {"idle", "scan"} /\ ~Removing(s) /\ ~Private(s) /\ ~Creating(s)
       /\ ~Writing(s) /\ s.area \subseteq r.area
  <2>1. CASE s = Idle
    BY <2>1 DEF Idle, Removing, Private, Creating, Writing, Waits
  <2>2. CASE s # Idle
    <3>1. s.pc = "scan" /\ s.area = r.area
      BY <1>5, <1>14, <2>2 DEF Fields
    <3> QED
      BY <3>1 DEF Removing, Private, Creating, Writing, Waits
  <2> QED
    BY <2>1, <2>2
<1>17. Private(r) /\ ~Removing(r)
  BY <1>3 DEF Private, Removing, Writing, Waits
<1>18. \A u \in Users \ {t} : Private(th[u]) => th[u].inode # x
  BY <1>1, <1>2, <1>3, <1>17, PrivateIs
<1>19. Loose(x)
  BY <1>3, <1>6, LooseIs
<1>20. TreeInv' /\ \A u \in Users \ {t} : LocalInv(u)' /\ th'[u] = th[u]
  BY <1>1, <1>3, <1>6, <1>9, <1>12, <1>14, <1>16, <1>17, <1>18, <1>19, HandsKeep
<1>21. Fits(t, s)'
  <2>1. CASE s = Idle
    BY <2>1, IdleFits
  <2>2. CASE s # Idle
    <3>1. r.mode = "w" /\ r.op = "unlink" /\ r.op \in NameOps
      BY <1>5, <1>6, <1>14, <2>2 DEF Legal, NameOps
    <3>2. /\ DOMAIN s = Fields /\ s.pc = "scan" /\ s.op = "creat" /\ s.mode = r.mode
          /\ s.area = r.area /\ s.on = r.on /\ s.i = 0 /\ s.inode = r.inode /\ s.entry = r.entry
          /\ s.target = r.target
      BY <1>5, <1>14, <2>2 DEF Fields
    <3>3. Legal(s)
      BY <1>3, <1>5, <3>1, <3>2 DEF Legal, Pcs, Waits, Writing, NameOps, Walks
    <3>4. r.on = cwd[t] /\ r.on \in r.area /\ Filled(inodes, r.on) < NumSlots
      BY <1>5, <3>1 DEF Works
    <3>5. Filled(inodes, r.on)' = Filled(inodes, r.on)
      <4>1. r.on \in Directories(inodes)
        BY <1>3, <3>4, Here
      <4>2. r.on \in Inodes \ {x}
        BY <1>6, <4>1 DEF Directories
      <4> QED
        BY <1>12, <4>2 DEF Filled
    <3>6. Works(t, s)'
      BY <1>3, <1>16, <3>2, <3>4, <3>5 DEF Works, Waits, NameOps, Walks
    <3> QED
      BY <1>16, <3>2, <3>3, <3>6 DEF Fits, RemovesOne, MakesOne, FreesOne
  <2> QED
    BY <2>1, <2>2
<1>22. LocalInv(t)'
  <2>1. th'[t] = s /\ t \in active
    BY <1>1, <1>3, <1>4, <1>14, Here DEF Shape
  <2> QED
    BY <1>3, <1>21, <2>1 DEF LocalInv
<1>23. ThreadsInv'
  <2>1. \A u, w \in Users : u # w => Apart(u, w)'
    BY <1>1, <1>3, <1>14, <1>16, ApartKeeps
  <2> QED
    BY <1>20, <1>22, <2>1 DEF ThreadsInv
<1>24. BlocksInv'
  <2>1. NoBlockShared(inodes, freeBlocks)'
    <3>1. \A y \in Inodes : ~inodes'[y].free => ~inodes[y].free /\ inodes'[y].direct = inodes[y].direct
      BY <1>9, <1>12
    <3>2. freeBlocks' = freeBlocks /\ NoBlockShared(inodes, freeBlocks)
      BY <1>3, <1>4 DEF BlocksInv
    <3> QED
      BY <3>1, <3>2 DEF NoBlockShared
  <2> QED
    BY <1>3, <1>4, <1>6, <1>13, <2>1 DEF BlocksInv
<1> QED
  BY <1>3, <1>15, <1>20, <1>23, <1>24 DEF IInv

(* A round of free_inode.                                                  *)
LEMMA FreeStep ==
  ASSUME IInv, NEW t \in Users, Free(t)
  PROVE  IInv'
<1>1. CASE ~(th[t].i < inodes[th[t].inode].size)
  BY <1>1, FreeLastKeeps
<1>2. CASE th[t].i < inodes[th[t].inode].size /\ ~UNCHANGED th
  BY <1>2, FreeBlockKeeps
<1>3. CASE th[t].i < inodes[th[t].inode].size /\ UNCHANGED th
  <2>1. PICK b : b = IF th[t].i < TABLE_SIZE THEN inodes[th[t].inode].direct[th[t].i] ELSE -1
    OBVIOUS
  <2>2. boot = "ready" /\ th[t].pc = "free" /\ Legal(th[t])
        /\ UNCHANGED <<entries, boot, active, deleted, cwd, file>>
    BY Here DEF Free, At, Ready, rest, handles, Fits
  <2>3. CASE b < 0
    <3>1. UNCHANGED <<inodes, freeBlocks, onDisk>>
      BY <1>3, <2>1, <2>3 DEF Free, Fault, memory, bitmap
    <3> QED
      BY <1>3, <2>2, <3>1, StayKeeps
  <2>4. CASE ~(b < 0)
    <3>1. Goto(t, [th[t] EXCEPT !.i = @ + 1], "free")
      BY <1>3, <2>1, <2>4 DEF Free
    <3>2. th'[t].i = th[t].i + 1
      BY <2>2, <3>1 DEF Goto, IInv, Shape, Legal, Fields
    <3> QED
      BY <1>3, <2>2, <3>2 DEF Legal
  <2> QED
    BY <2>3, <2>4
<1> QED
  BY <1>1, <1>2, <1>3

-----------------------------------------------------------------------------
(* allocate_inode.                                                         *)
Fresh(type, d, b) == Inode(type, FALSE, 1, 1, d, [NoBlocks EXCEPT ![0] = b])
IsFresh(n, type, d, b) ==
  /\ InodeOK(n) /\ n.type = type /\ ~n.free /\ n.references = 1 /\ n.bytes = 0
  /\ n.parent = d /\ BlocksOf(n.direct) \subseteq {b} \ {-1}
  /\ \A j, k \in DOMAIN n.direct : j # k /\ n.direct[j] # -1 => n.direct[j] # n.direct[k]

(* The inode that allocate_inode fills in.                                 *)
LEMMA InodeMade ==
  ASSUME NEW type \in {"REGULARFILE", "DIRECTORY"}, NEW d \in Inodes, NEW b \in Nat \cup {-1},
         NEW n, n = Fresh(type, d, b)
  PROVE  IsFresh(n, type, d, b)
<1>1. /\ DOMAIN n = InodeFields /\ n.type = type /\ ~n.free /\ n.references = 1 /\ n.bytes = 0
      /\ n.parent = d /\ n.size = 1 /\ n.direct = [NoBlocks EXCEPT ![0] = b]
  BY DEF Fresh, Inode, InodeFields
<1>2. 0 \in 0 .. TABLE_SIZE - 1
  BY MiniFileAssumption
<1>3. /\ n.direct \in [0 .. TABLE_SIZE - 1 -> Nat \cup {-1}]
      /\ \A k \in 0 .. TABLE_SIZE - 1 : n.direct[k] = IF k = 0 THEN b ELSE -1
  BY <1>1, <1>2 DEF NoBlocks
<1>4. InodeOK(n)
  <2>1. n.direct \in [0 .. TABLE_SIZE - 1 -> Nat \cup {-1}]
    BY <1>3
  <2>2. n.references \in Int /\ n.size \in Int
    <3>1. n.references = 1 /\ n.size = 1 /\ n.bytes = 0
      BY <1>1
    <3>2. 1 \in Int /\ 0 \in Nat
      OBVIOUS
    <3> QED
      BY <3>1, <3>2, Zenon
  <2> QED
    BY <1>1, <2>1, <2>2 DEF InodeOK
<1>5. BlocksOf(n.direct) \subseteq {b} \ {-1}
  BY <1>3 DEF BlocksOf
<1>6. \A j, k \in DOMAIN n.direct : j # k /\ n.direct[j] # -1 => n.direct[j] # n.direct[k]
  BY <1>3
<1> QED
  BY <1>1, <1>4, <1>5, <1>6 DEF IsFresh

(* It owns the block that was just taken from the bitmap.                  *)
LEMMA NewBlocks ==
  ASSUME NoBlockShared(inodes, freeBlocks), NEW x \in Inodes, NEW b,
         b \in freeBlocks \/ b = -1, freeBlocks' = freeBlocks \ {b},
         BlocksOf(inodes'[x].direct) \subseteq {b} \ {-1},
         \A j, k \in DOMAIN inodes'[x].direct :
            j # k /\ inodes'[x].direct[j] # -1 => inodes'[x].direct[j] # inodes'[x].direct[k],
         \A y \in Inodes \ {x} : inodes'[y] = inodes[y]
  PROVE  NoBlockShared(inodes, freeBlocks)'
<1>1. \A y \in Inodes : ~inodes[y].free => b = -1 \/ b \notin BlocksOf(inodes[y].direct)
  BY DEF NoBlockShared
<1>2. ASSUME NEW y \in Inodes, ~inodes'[y].free
      PROVE  BlocksOf(inodes'[y].direct) \cap freeBlocks' = {}
  <2>1. CASE y = x
    BY <2>1
  <2>2. CASE y # x
    BY <1>2, <2>2 DEF NoBlockShared
  <2> QED
    BY <2>1, <2>2
<1>3. ASSUME NEW y \in Inodes, ~inodes'[y].free, NEW z \in Inodes \ {y}, ~inodes'[z].free
      PROVE  BlocksOf(inodes'[y].direct) \cap BlocksOf(inodes'[z].direct) = {}
  <2>1. CASE y = x
    <3>1. inodes'[z] = inodes[z] /\ (b = -1 \/ b \notin BlocksOf(inodes[z].direct))
      BY <1>1, <1>3, <2>1
    <3> QED
      BY <2>1, <3>1
  <2>2. CASE z = x
    <3>1. inodes'[y] = inodes[y] /\ (b = -1 \/ b \notin BlocksOf(inodes[y].direct))
      BY <1>1, <1>3, <2>2
    <3> QED
      BY <2>2, <3>1
  <2>3. CASE y # x /\ z # x
    BY <1>3, <2>3 DEF NoBlockShared
  <2> QED
    BY <2>1, <2>2, <2>3
<1>4. ASSUME NEW y \in Inodes, ~inodes'[y].free
      PROVE  \A i, j \in DOMAIN inodes'[y].direct :
                i # j /\ inodes'[y].direct[i] # -1 => inodes'[y].direct[i] # inodes'[y].direct[j]
  <2>1. CASE y = x
    BY <2>1
  <2>2. CASE y # x
    BY <1>4, <2>2 DEF NoBlockShared
  <2> QED
    BY <2>1, <2>2
<1> QED
  BY <1>2, <1>3, <1>4 DEF NoBlockShared

(* allocate_inode finds an inode.                                          *)
LEMMA NewKeeps ==
  ASSUME IInv, NEW t \in Users, Allocate(t), {x \in Inodes \ {0} : inodes[x].free} # {}
  PROVE  IInv'
<1>1. PICK r : r = th[t]
  OBVIOUS
<1>2. PICK b : b = allocate_block
  OBVIOUS
<1>3. PICK x : x = Least({y \in Inodes \ {0} : inodes[y].free})
  OBVIOUS
<1>4. PICK type : type = IF r.op = "mkdir" THEN "DIRECTORY" ELSE "REGULARFILE"
  OBVIOUS
<1>5. PICK n : n = Fresh(type, r.on, b)
  OBVIOUS
<1>6. PICK s : s = [[r EXCEPT !.inode = x, !.entry = [name |-> Head(r.path), inode |-> x]]
                       EXCEPT !.pc = "made"]
  OBVIOUS
<1>7. /\ boot = "ready" /\ r.pc = "allocate" /\ th' = [th EXCEPT ![t] = s]
      /\ UNCHANGED <<entries, cwd, file, boot, active, deleted>>
      /\ inodes' = [inodes EXCEPT ![x] = n]
      /\ freeBlocks' = freeBlocks \ {b} /\ onDisk' = [onDisk EXCEPT !.free = freeBlocks']
  BY <1>1, <1>2, <1>3, <1>4, <1>5, <1>6 DEF Allocate, Fresh, At, Ready, Goto, Takes, handles, rest
<1>8. Shape /\ TreeInv /\ BlocksInv /\ TableOK(inodes) /\ freeBlocks \subseteq Nat
  BY <1>7 DEF IInv, Shape
<1>9. Fits(t, r) /\ Legal(r) /\ Works(t, r) /\ DOMAIN r = Fields
  BY <1>1, <1>7, Here DEF Fits
<1>10. x \in Inodes /\ x # 0 /\ inodes[x].free
  <2>1. Inodes \subseteq Nat
    BY MiniFileAssumption DEF Inodes
  <2>2. {y \in Inodes \ {0} : inodes[y].free} \in SUBSET Nat
    BY <2>1
  <2>3. x \in {y \in Inodes \ {0} : inodes[y].free}
    BY <1>3, <2>2, LeastIn
  <2> QED
    BY <2>3
<1>11. b \in freeBlocks \/ b = -1
  BY <1>2, <1>8, Found
<1>12. /\ r.op \in {"creat", "mkdir"} /\ r.op \in NameOps /\ r.on \in Inodes /\ r.on = cwd[t]
       /\ r.on \in r.area /\ Filled(inodes, r.on) < NumSlots /\ r.on \in Directories(inodes)
  <2>1. r.op \in {"creat", "mkdir"} /\ r.op \in NameOps /\ r.on \in Inodes
    BY <1>7, <1>9 DEF Legal, NameOps
  <2> QED
    BY <1>7, <1>9, <2>1, Here DEF Works
<1>13. type \in {"REGULARFILE", "DIRECTORY"} /\ b \in Nat \cup {-1}
  BY <1>4, <1>8, <1>11
<1>14. /\ InodeOK(n) /\ n.type = type /\ ~n.free /\ n.references = 1 /\ n.bytes = 0
       /\ n.parent = r.on /\ BlocksOf(n.direct) \subseteq {b} \ {-1}
       /\ \A j, k \in DOMAIN n.direct : j # k /\ n.direct[j] # -1 => n.direct[j] # n.direct[k]
  <2>1. r.on \in Inodes
    BY <1>12
  <2>2. IsFresh(n, type, r.on, b)
    BY <1>5, <1>13, <2>1, InodeMade
  <2> QED
    BY <2>2 DEF IsFresh
<1>15. TableOK(inodes)' /\ inodes'[x] = n /\ \A y \in Inodes \ {x} : inodes'[y] = inodes[y]
  BY <1>7, <1>8, <1>10, <1>14, InodeSet
<1>16. /\ onDisk' = [inodes |-> onDisk'.inodes, free |-> onDisk'.free, super |-> onDisk'.super]
       /\ onDisk'.inodes = onDisk.inodes /\ onDisk'.free = freeBlocks'
  BY <1>7, <1>8 DEF Shape
<1>17. Shape'
  <2>1. freeBlocks' \subseteq Nat
    BY <1>7, <1>8, <1>16
  <2> QED
    BY <1>7, <1>8, <1>15, <1>16, <2>1, ShapeKept
<1>18. /\ DOMAIN s = Fields /\ s.pc = "made" /\ s.op = r.op /\ s.mode = r.mode
       /\ s.area = r.area /\ s.on = r.on /\ s.i = r.i /\ s.inode = x /\ s.entry.inode = x
       /\ s.target = r.target
  BY <1>6, <1>9 DEF Fields
<1>19. /\ ~Removing(r) /\ ~Removing(s) /\ Creating(s) /\ ~Writing(s) /\ Private(s)
  BY <1>7, <1>12, <1>18 DEF Removing, Creating, Writing, Waits, Private
<1>20. \A u \in Users \ {t} : Private(th[u]) => th[u].inode # x
  BY <1>7, <1>10, PrivateIs
<1>21. Loose(x)
  BY <1>7, <1>10, LooseIs
<1>22. /\ TreeInv' /\ \A u \in Users \ {t} : LocalInv(u)' /\ th'[u] = th[u]
  <2>1. inodes'[x].references \in Int /\ inodes'[x].references >= 1 /\ inodes'[x].parent = cwd[t]
    BY <1>12, <1>14, <1>15
  <2> QED
    BY <1>1, <1>7, <1>10, <1>14, <1>15, <1>19, <1>20, <1>21, <2>1, HandsKeep
<1>23. Unknown(x)' /\ Untrodden(x)'
  <2>1. inodes'[x].references \in Int /\ inodes'[x].references >= 1 /\ inodes'[x].parent = cwd[t]
        /\ ~inodes'[x].free
    BY <1>12, <1>14, <1>15
  <2> QED
    BY <1>1, <1>7, <1>10, <1>14, <1>15, <1>19, <1>20, <1>21, <2>1, HandsKeep
<1>24. Fits(t, s)'
  <2>1. Legal(s)
    BY <1>7, <1>9, <1>10, <1>12, <1>18 DEF Legal, Pcs, Waits, Writing, NameOps, Walks
  <2>2. Filled(inodes, r.on)' = Filled(inodes, r.on)
    <3>1. r.on # x
      BY <1>10, <1>12 DEF Directories
    <3> QED
      BY <1>12, <1>15, <3>1 DEF Filled
  <2>3. Works(t, s)'
    BY <1>7, <1>12, <1>18, <1>19, <2>2 DEF Works, Waits, NameOps, Walks
  <2>4. MakesOne(s)'
    BY <1>4, <1>10, <1>14, <1>15, <1>18, <1>19, <1>23 DEF MakesOne
  <2> QED
    BY <1>18, <1>19, <2>1, <2>3, <2>4 DEF Fits, RemovesOne, FreesOne
<1>25. LocalInv(t)'
  <2>1. th'[t] = s /\ t \in active
    BY <1>1, <1>7, <1>8, Here DEF Shape
  <2> QED
    BY <1>7, <1>24, <2>1 DEF LocalInv
<1>26. ThreadsInv'
  <2>2. s.area \subseteq th[t].area
        /\ \A u \in Users \ {t} : Private(s) /\ Private(th[u]) => s.inode # th[u].inode
    BY <1>1, <1>18, <1>20
  <2>1. \A u, w \in Users : u # w => Apart(u, w)'
    BY <1>7, <2>2, ApartKeeps
  <2> QED
    BY <1>22, <1>25, <2>1 DEF ThreadsInv
<1>27. NoBlockShared(inodes, freeBlocks)'
  <2>1. NoBlockShared(inodes, freeBlocks) /\ freeBlocks' = freeBlocks \ {b}
    BY <1>7, <1>8 DEF BlocksInv
  <2> QED
    BY <1>10, <1>11, <1>14, <1>15, <2>1, NewBlocks
<1>28. ~deleted' => Written'
  <2>1. SUFFICES ASSUME ~deleted, NEW y \in Inodes
                 PROVE  /\ ~onDisk.inodes[y].free => Matches(onDisk.inodes[y], inodes'[y])
                        /\ ~inodes'[y].free /\ ~Making(y)' => ~onDisk.inodes[y].free
    BY <1>7, <1>16 DEF Written
  <2>2. /\ ~onDisk.inodes[y].free => Matches(onDisk.inodes[y], inodes[y])
        /\ ~inodes[y].free /\ ~Making(y) => ~onDisk.inodes[y].free
    BY <1>8, <2>1 DEF BlocksInv, Written
  <2>3. th'[t] = s /\ \A u \in Users \ {t} : th'[u] = th[u]
    BY <1>7, <1>8 DEF Shape
  <2>4. CASE y # x
    <3>1. Making(y) => Making(y)'
      BY <1>1, <1>7, <2>3 DEF Making
    <3> QED
      BY <1>15, <2>2, <2>4, <3>1
  <2>5. CASE y = x
    <3>1. Making(x)'
      BY <1>18, <2>3 DEF Making
    <3>2. onDisk.inodes[x].free
      BY <1>10, <2>2, <2>5 DEF Matches
    <3> QED
      BY <2>5, <3>1, <3>2
  <2> QED
    BY <2>4, <2>5
<1>29. BlocksInv'
  BY <1>16, <1>27, <1>28 DEF BlocksInv
<1> QED
  BY <1>7, <1>17, <1>22, <1>26, <1>29 DEF IInv

(* allocate_inode.                                                         *)
LEMMA AllocateStep ==
  ASSUME IInv, NEW t \in Users, Allocate(t)
  PROVE  IInv'
<1>1. CASE {x \in Inodes \ {0} : inodes[x].free} # {}
  BY <1>1, NewKeeps
<1>2. CASE {x \in Inodes \ {0} : inodes[x].free} = {}
  <2>1. UNCHANGED <<inodes, freeBlocks, onDisk, entries, boot, active, deleted, th, cwd, file>>
    BY <1>2 DEF Allocate, Fault, memory, bitmap, handles, rest
  <2> QED
    BY <2>1, StayKeeps
<1> QED
  BY <1>1, <1>2

-----------------------------------------------------------------------------
(* A block of a regular file goes to the disk.                             *)
Putting(r) == r.pc = "put" \/ Waits(r, "put")

(* The block of a regular file is written, or the write goes astray.       *)
LEMMA PutDataKeeps ==
  ASSUME IInv, boot = "ready", NEW t \in Users, Putting(th[t]), PutBlock(t, th[t]),
         UNCHANGED <<inodes, freeBlocks, onDisk, cwd, file, boot, active, deleted>>,
         th[t].op = "write" \/ UNCHANGED th
  PROVE  IInv'
<1>1. CASE inodes[th[t].target].direct[th[t].cur] < 0
  <2>1. UNCHANGED <<th, entries>>
    BY <1>1 DEF PutBlock, Fault
  <2> QED
    BY <2>1, StayKeeps
<1>2. CASE ~(inodes[th[t].target].direct[th[t].cur] < 0)
  <2>1. PICK r : r = th[t]
    OBVIOUS
  <2>2. PICK left : left = IF r.left < BLOCK - r.offset THEN 0 ELSE r.left - BLOCK
    OBVIOUS
  <2>3. PICK s : s = [[r EXCEPT !.left = left, !.offset = 0, !.cur = @ + 1]
                         EXCEPT !.pc = IF left > 0 THEN "write" ELSE "update"]
    OBVIOUS
  <2>4. Goto(t, [r EXCEPT !.left = left, !.offset = 0, !.cur = @ + 1],
             IF left > 0 THEN "write" ELSE "update")
        /\ IF inodes[r.target].type = "DIRECTORY"
             THEN entries' = [entries EXCEPT ![r.target][r.offset \div ENTRY] = r.entry]
             ELSE UNCHANGED entries
    BY <1>2, <2>1, <2>2 DEF PutBlock
  <2>5. th' = [th EXCEPT ![t] = s]
    BY <2>3, <2>4 DEF Goto
  <2>6. Fits(t, r) /\ Legal(r) /\ Works(t, r) /\ DOMAIN r = Fields
    BY <2>1, Here DEF Fits
  <2>7. /\ DOMAIN s = Fields /\ s.pc = (IF left > 0 THEN "write" ELSE "update") /\ s.op = r.op
        /\ s.mode = r.mode /\ s.area = r.area /\ s.on = r.on /\ s.i = r.i /\ s.inode = r.inode
        /\ s.entry = r.entry /\ s.target = r.target
    BY <2>3, <2>6 DEF Fields
  <2>8. r.op = "write"
    <3>1. SUFFICES ASSUME UNCHANGED th PROVE r.op = "write"
      BY <2>1
    <3>2. th'[t] = s
      BY <2>5 DEF IInv, Shape
    <3>3. r.pc \in {"write", "update"}
      BY <2>1, <2>7, <3>1, <3>2
    <3> QED
      BY <2>1, <3>3 DEF Putting, Waits
  <2>9. UNCHANGED entries
    BY <2>4, <2>6, <2>8 DEF Works
  <2>10. s.pc \in {"write", "update"} /\ Writing(s)
    BY <2>7 DEF Writing
  <2>11. ~Removing(s) /\ ~Removing(r) /\ ~Creating(s) /\ ~Creating(r)
    BY <2>7, <2>8, <2>10 DEF Removing, Creating
  <2>12. Legal(s)
    BY <2>1, <2>6, <2>7, <2>8, <2>10 DEF Legal, Pcs, Waits, NameOps, Walks, Putting
  <2>13. Works(t, s)
    BY <2>6, <2>7, <2>8, <2>10 DEF Works, Waits, NameOps, Walks
  <2>14. Fits(t, s)
    BY <2>10, <2>11, <2>12, <2>13 DEF Fits, RemovesOne, MakesOne, FreesOne
  <2>15. Alike(r, s)
    BY <2>1, <2>10, <2>11 DEF Alike, Putting, Waits
  <2>16. Quiet /\ UNCHANGED handles /\ r.pc # "idle"
    BY <2>1, <2>9 DEF Quiet, handles, Putting, Waits
  <2> QED
    BY <2>1, <2>5, <2>7, <2>14, <2>15, <2>16, GotoKeeps
<1> QED
  BY <1>1, <1>2

(* An entry is written: what is listed, or on the account of a call,       *)
(* stays, and the other calls are about other directories.                 *)
LEMMA EntriesKeep ==
  ASSUME IInv, boot = "ready", NEW t \in Users, NEW s, th' = [th EXCEPT ![t] = s],
         UNCHANGED <<inodes, freeBlocks, onDisk, cwd, file, boot, active, deleted>>,
         th[t].op \in NameOps, th[t].pc # "idle", th[t].pc # "made",
         entries' = [x \in Inodes |-> [k \in Slots |-> entries'[x][k]]],
         \A x \in Inodes, k \in Slots : entries'[x][k].inode \in Inodes,
         \A x \in Inodes \ {th[t].on} : entries'[x] = entries[x],
         Rooted(inodes)', DistinctUp', \A y \in Inodes : Owed(y)' <=> Owed(y),
         Fits(t, s)', s.area = th[t].area, s.inode = th[t].inode, Private(s) => Private(th[t]),
         s.pc # "made"
  PROVE  IInv'
<1>1. Shape /\ TreeInv /\ ThreadsInv /\ BlocksInv
  BY DEF IInv
<1>2. th'[t] = s /\ \A u \in Users \ {t} : th'[u] = th[u]
  BY <1>1 DEF Shape
<1>3. Shape'
  BY <1>1 DEF Shape
<1>4. ASSUME NEW y \in Inodes PROVE RefsOK(y)'
  <2>1. Claims(y)' = Claims(y) /\ RefsOK(y) /\ Handles(y)' = Handles(y)
    BY <1>1, <1>4 DEF TreeInv, Claims, Handles
  <2> QED
    BY <2>1 DEF RefsOK
<1>5. ASSUME NEW u \in Users PROVE HandleOK(u)' /\ cwd'[u] \in Directories(inodes)'
  <2>1. HandleOK(u) /\ FileOK(file[u]) /\ cwd[u] \in Directories(inodes)
    BY <1>1, <1>5, Here
  <2>2. file[u].inode # -1 => file[u].inode \in Inodes
    BY <2>1 DEF FileOK, NoFile
  <2>3. HandleOK(u)'
    BY <2>1, <2>2 DEF HandleOK
  <2>4. Directories(inodes)' = Directories(inodes)
    BY DEF Directories
  <2> QED
    BY <2>1, <2>3, <2>4
<1>6. TreeInv'
  BY <1>4, <1>5 DEF TreeInv
<1>7. ASSUME NEW u \in Users \ {t} PROVE LocalInv(u)'
  <2>1. LocalInv(u) /\ Fits(u, th[u]) /\ Legal(th[u]) /\ Works(u, th[u]) /\ MakesOne(th[u])
    BY Here DEF Fits
  <2>2. th[u].inode \in Inodes /\ th[u].on \in Inodes
    BY <2>1 DEF Legal
  <2>3. Private(th[u]) => Unknown(th[u].inode)'
    <3>1. SUFFICES ASSUME Private(th[u]) PROVE Unknown(th[u].inode)'
      OBVIOUS
    <3>2. Unknown(th[u].inode)
      BY <3>1, PrivateIs
    <3> QED
      BY <2>2, <3>2 DEF Unknown, Handles
  <2>4. Creating(th[u]) => Untrodden(th[u].inode)'
    BY <2>1 DEF MakesOne, Untrodden
  <2>5. th[u].op = "write" => file[u].inode \in Inodes
    <3>1. FileOK(file[u])
      BY Here
    <3> QED
      BY <2>1, <3>1 DEF Works, FileOK, NoFile
  <2>6. th[u].op \in NameOps => entries'[th[u].on] = entries[th[u].on]
    <3>1. th[t].on \in th[t].area
      BY Here DEF Fits, Works
    <3>2. th[u].op \in NameOps => th[u].on # th[t].on
      BY <3>1, OtherPlace
    <3> QED
      BY <2>2, <3>2
  <2>7. th[u].op \notin Walks
    BY NoWalker
  <2> DEFINE E == {}
  <2>8. \A x : x \notin E
    OBVIOUS
  <2> HIDE DEF E
  <2> QED
    BY <1>2, <2>2, <2>3, <2>4, <2>5, <2>6, <2>7, <2>8, OthersKeep
<1>8. LocalInv(t)'
  <2>1. t \in active
    BY Here
  <2> QED
    BY <1>2, <2>1 DEF LocalInv
<1>9. ThreadsInv'
  <2>1. \A u \in Users \ {t} : Private(s) /\ Private(th[u]) => s.inode # th[u].inode
    BY <1>1 DEF ThreadsInv, Apart
  <2>2. \A u, w \in Users : u # w => Apart(u, w)'
    BY <2>1, ApartKeeps
  <2> QED
    BY <1>7, <1>8, <2>2 DEF ThreadsInv
<1>10. BlocksInv'
  <2>1. ASSUME NEW y PROVE Making(y)' <=> Making(y)
    BY <1>2 DEF Making
  <2>2. Written => Written'
    BY <2>1 DEF Written, Matches
  <2>3. NoBlockShared(inodes, freeBlocks)' <=> NoBlockShared(inodes, freeBlocks)
    OBVIOUS
  <2> QED
    BY <1>1, <2>2, <2>3 DEF BlocksInv
<1> QED
  BY <1>3, <1>6, <1>9, <1>10 DEF IInv

(* An entry goes into a slot of the directory a call works on.             *)
EntryAt(d, k, e) ==
  /\ entries'[d][k] = e
  /\ \A j \in Slots \ {k} : entries'[d][j] = entries[d][j]
  /\ \A x \in Inodes \ {d} : entries'[x] = entries[x]

(* One entry of one directory is replaced.                                 *)
LEMMA EntrySet ==
  ASSUME Shape, NEW d \in Inodes, NEW k \in Slots, NEW e, e.inode \in Inodes,
         entries' = [entries EXCEPT ![d][k] = e]
  PROVE  /\ EntryAt(d, k, e)
         /\ entries' = [x \in Inodes |-> [j \in Slots |-> entries'[x][j]]]
         /\ \A x \in Inodes, j \in Slots : entries'[x][j].inode \in Inodes
<1>1. /\ entries = [x \in Inodes |-> [j \in Slots |-> entries[x][j]]]
      /\ \A x \in Inodes, j \in Slots : entries[x][j].inode \in Inodes
  BY DEF Shape
<1>2. entries[d] = [j \in Slots |-> entries[d][j]]
  BY <1>1
<1>3. entries' = [entries EXCEPT ![d] = [entries[d] EXCEPT ![k] = e]]
  OBVIOUS
<1>4. entries'[d] = [entries[d] EXCEPT ![k] = e] /\ \A x \in Inodes \ {d} : entries'[x] = entries[x]
  BY <1>1, <1>3
<1>5. entries'[d][k] = e /\ \A j \in Slots \ {k} : entries'[d][j] = entries[d][j]
  BY <1>2, <1>4
<1>6. \A x \in Inodes, j \in Slots : entries'[x][j].inode \in Inodes
  BY <1>1, <1>4, <1>5
<1>7. entries' = [x \in Inodes |-> [j \in Slots |-> entries'[x][j]]]
  <2>1. DOMAIN entries' = Inodes /\ entries' = [x \in Inodes |-> entries'[x]]
    BY <1>1, <1>3
  <2>2. ASSUME NEW x \in Inodes PROVE entries'[x] = [j \in Slots |-> entries'[x][j]]
    <3>1. CASE x = d
      BY <1>2, <1>4, <3>1
    <3>2. CASE x # d
      BY <1>1, <1>4, <3>2
    <3> QED
      BY <3>1, <3>2
  <2> QED
    BY <2>1, <2>2
<1> QED
  BY <1>4, <1>5, <1>6, <1>7 DEF EntryAt

(* The step is the one of PutBlock that fills a slot of a directory.       *)
PutAt(t, r, s) ==
  /\ r = th[t] /\ Putting(r) /\ r.op \in {"creat", "mkdir", "unlink", "rmdir"}
  /\ th' = [th EXCEPT ![t] = s]
  /\ s.pc = "update" /\ s.op = r.op /\ s.mode = r.mode /\ s.area = r.area /\ s.on = r.on /\ s.i = r.i
  /\ s.inode = r.inode /\ s.entry = r.entry /\ s.target = r.target /\ s.end = r.end
  /\ DOMAIN s = Fields
  /\ entries' = [entries EXCEPT ![r.on][r.offset \div ENTRY] = r.entry]

(* The entry that a call on names writes, and where.                       *)
LEMMA PutSlot ==
  ASSUME IInv, boot = "ready", NEW t \in Users, Putting(th[t]), PutBlock(t, th[t]),
         UNCHANGED <<inodes, cwd, file>>,
         th[t].op # "write", ~UNCHANGED th
  PROVE  \E r, s : PutAt(t, r, s)
<1>1. PICK r : r = th[t]
  OBVIOUS
<1>2. PICK left : left = IF r.left < BLOCK - r.offset THEN 0 ELSE r.left - BLOCK
  OBVIOUS
<1>3. PICK s : s = [[r EXCEPT !.left = left, !.offset = 0, !.cur = @ + 1]
                       EXCEPT !.pc = IF left > 0 THEN "write" ELSE "update"]
  OBVIOUS
<1>4. ~(inodes[r.target].direct[r.cur] < 0)
  BY <1>1 DEF PutBlock, Fault
<1>5. Goto(t, [r EXCEPT !.left = left, !.offset = 0, !.cur = @ + 1],
           IF left > 0 THEN "write" ELSE "update")
      /\ IF inodes[r.target].type = "DIRECTORY"
           THEN entries' = [entries EXCEPT ![r.target][r.offset \div ENTRY] = r.entry]
           ELSE UNCHANGED entries
  BY <1>1, <1>2, <1>4 DEF PutBlock
<1>6. th' = [th EXCEPT ![t] = s]
  BY <1>3, <1>5 DEF Goto
<1>7. Fits(t, r) /\ Legal(r) /\ Works(t, r) /\ DOMAIN r = Fields
  BY <1>1, Here DEF Fits
<1>8. Writing(r) /\ r.pc # "update"
  BY <1>1 DEF Putting, Writing, Waits
<1>9. r.op \in {"creat", "mkdir", "unlink", "rmdir"} /\ r.op \in NameOps
  BY <1>1, <1>7, <1>8 DEF Legal, NameOps
<1>10. r.on = cwd[t] /\ r.target = r.on /\ r.left = ENTRY
  BY <1>7, <1>8, <1>9 DEF Works
<1>11. inodes[r.target].type = "DIRECTORY"
  BY <1>10, Here DEF Directories
<1>12. ~(left > 0)
  <2>1. ENTRY \in Nat /\ BLOCK \in Nat /\ ENTRY < BLOCK
    BY Sizes
  <2> QED
    BY <1>2, <1>10, <2>1
<1>13. /\ DOMAIN s = Fields /\ s.pc = "update" /\ s.op = r.op
       /\ s.mode = r.mode /\ s.area = r.area /\ s.on = r.on /\ s.i = r.i /\ s.inode = r.inode
       /\ s.entry = r.entry /\ s.target = r.target /\ s.end = r.end
  BY <1>3, <1>7, <1>12 DEF Fields
<1>14. PutAt(t, r, s)
  BY <1>1, <1>5, <1>6, <1>9, <1>10, <1>11, <1>13 DEF PutAt
<1> QED
  BY <1>14

(* The entry of the new inode is behind the last one: no entry changes.    *)
LEMMA PutNewKeeps ==
  ASSUME IInv, boot = "ready", NEW t \in Users, NEW r, NEW s, PutAt(t, r, s),
         r.op \in {"creat", "mkdir"},
         UNCHANGED <<inodes, freeBlocks, onDisk, cwd, file, boot, active, deleted>>
  PROVE  IInv'
<1>1. /\ r = th[t] /\ Putting(r) /\ th' = [th EXCEPT ![t] = s]
      /\ s.pc = "update" /\ s.op = r.op /\ s.mode = r.mode /\ s.area = r.area /\ s.on = r.on /\ s.i = r.i
      /\ s.inode = r.inode /\ s.entry = r.entry /\ s.target = r.target /\ s.end = r.end
      /\ DOMAIN s = Fields
  BY DEF PutAt
<1>2. Shape /\ TreeInv /\ Rooted(inodes)
  BY DEF IInv, TreeInv
<1>3. Fits(t, r) /\ Legal(r) /\ Works(t, r) /\ MakesOne(r) /\ DOMAIN r = Fields
  BY <1>1, Here DEF Fits
<1>4. Writing(r) /\ r.pc # "update" /\ r.pc # "idle" /\ r.pc # "made"
  BY <1>1 DEF Putting, Writing, Waits
<1>5. Creating(r) /\ Private(r) /\ ~Removing(r) /\ r.op \in NameOps
  BY <1>4 DEF Creating, Private, Removing, NameOps
<1>6. Writing(s) /\ Creating(s) /\ ~Removing(s)
  BY <1>1 DEF Creating, Writing, Removing
<1>7. r.on = cwd[t] /\ r.target = r.on /\ r.on \in Directories(inodes) /\ r.on \in Inodes
  BY <1>1, <1>3, <1>4, <1>5, Here DEF Works, Directories
<1>8. PICK f : f = Filled(inodes, r.on)
  OBVIOUS
<1>9. f \in Slots /\ r.offset \div ENTRY = f /\ r.entry.inode = r.inode /\ r.inode \in Inodes
  <2>1. f \in 0 .. NumSlots /\ f < NumSlots
    BY <1>2, <1>3, <1>7, <1>8, FilledIs DEF Works
  <2>2. f \in Slots
    BY <2>1, Sizes
  <2> QED
    BY <1>3, <1>4, <1>5, <1>8, <2>2 DEF MakesOne, Legal
<1>10. /\ EntryAt(r.on, f, r.entry)
       /\ entries' = [x \in Inodes |-> [j \in Slots |-> entries'[x][j]]]
       /\ \A x \in Inodes, j \in Slots : entries'[x][j].inode \in Inodes
  <2>1. entries' = [entries EXCEPT ![r.on][f] = r.entry]
    BY <1>9 DEF PutAt
  <2> QED
    BY <1>2, <1>7, <1>9, <2>1, EntrySet
<1>11. ASSUME NEW d \in Inodes, NEW k, Has(inodes, d, k)
       PROVE  entries'[d][k] = entries[d][k]
  <2>1. d = r.on => k # f /\ k \in Slots
    BY <1>8, <1>9, <1>11, Sizes DEF Has
  <2> QED
    BY <1>10, <2>1 DEF EntryAt
<1>12. \A d, k : Has(inodes, d, k)' <=> Has(inodes, d, k)
  BY DEF Has, Filled
<1>13. th'[t] = s /\ \A u \in Users \ {t} : th'[u] = th[u]
  BY <1>1, <1>2 DEF Shape
<1>14. \A u \in Users : (Removing(th'[u]) <=> Removing(th[u])) /\ (Removing(th[u]) => th'[u] = th[u])
  BY <1>1, <1>5, <1>6, <1>13
<1>15. ASSUME NEW y \in Inodes PROVE Owed(y)' <=> Owed(y)
  <2>1. inodes[y].parent \in Inodes
    BY <1>2 DEF Shape, TableOK, InodeOK
  <2>2. ListedIn(inodes, y)' <=> ListedIn(inodes, y)
    BY <1>11, <1>12, <2>1 DEF ListedIn
  <2>3. Unlisting(y)' <=> Unlisting(y)
    BY <1>14 DEF Unlisting
  <2> QED
    BY <2>2, <2>3 DEF Owed
<1>16. Directories(inodes)' = Directories(inodes) /\ \A d \in Directories(inodes) : d \in Inodes
  BY DEF Directories
<1>17. Rooted(inodes)'
  BY <1>2, <1>11, <1>12, <1>16 DEF Rooted
<1>18. DistinctUp'
  <2>1. SUFFICES ASSUME NEW d \in Directories(inodes), NEW i \in Slots, NEW j \in Slots,
                        Doubled(inodes, d, i, j)', i # j
                 PROVE  InHole(d, i, j)'
    BY <1>16 DEF DistinctUp
  <2>2. Doubled(inodes, d, i, j)
    BY <1>11, <1>12, <1>16, <2>1 DEF Doubled
  <2>3. PICK u \in Users : Removing(th[u]) /\ th[u].on = d /\ Hole(th[u]) \in {i, j}
    BY <1>2, <2>1, <2>2 DEF DistinctUp, InHole, TreeInv
  <2>4. Removing(th'[u]) /\ th'[u].on = d /\ Hole(th'[u]) \in {i, j}
    BY <1>14, <2>3
  <2> QED
    BY <2>4 DEF InHole
<1>19. Fits(t, s)'
  <2>1. Legal(s)
    BY <1>1, <1>3, <1>5 DEF Legal, Pcs, Waits, Writing, NameOps, Walks
  <2>2. Works(t, s)'
    <3>1. Filled(inodes, s.on)' = Filled(inodes, s.on)
      BY DEF Filled
    <3> QED
      BY <1>1, <1>3, <1>5, <1>7, <3>1 DEF Works, Waits, NameOps, Walks
  <2>3. Unknown(r.inode)' /\ Untrodden(r.inode)'
    <3>1. Unknown(r.inode) /\ Untrodden(r.inode)
      BY <1>3, <1>5 DEF MakesOne
    <3> QED
      BY <1>9, <1>15, <3>1 DEF Unknown, Untrodden, Handles
  <2>4. entries'[r.on][Filled(inodes, r.on)'].inode = r.inode
    <3>1. Filled(inodes, r.on)' = f
      BY <1>8 DEF Filled
    <3> QED
      BY <1>9, <1>10, <3>1 DEF EntryAt
  <2>5. MakesOne(s)'
    BY <1>1, <1>3, <1>4, <1>5, <1>6, <2>3, <2>4 DEF MakesOne
  <2> QED
    BY <1>1, <1>6, <2>1, <2>2, <2>5 DEF Fits, RemovesOne, FreesOne
<1> QED
  BY <1>1, <1>4, <1>5, <1>10, <1>15, <1>17, <1>18, <1>19, EntriesKeep DEF EntryAt

(* The next entry goes into the hole, and leaves one.                      *)
LEMMA PutMovedKeeps ==
  ASSUME IInv, boot = "ready", NEW t \in Users, NEW r, NEW s, PutAt(t, r, s),
         r.op \in {"unlink", "rmdir"},
         UNCHANGED <<inodes, freeBlocks, onDisk, cwd, file, boot, active, deleted>>
  PROVE  IInv'
<1>1. /\ r = th[t] /\ Putting(r) /\ th' = [th EXCEPT ![t] = s]
      /\ s.pc = "update" /\ s.op = r.op /\ s.mode = r.mode /\ s.area = r.area /\ s.on = r.on /\ s.i = r.i
      /\ s.inode = r.inode /\ s.entry = r.entry /\ s.target = r.target /\ s.end = r.end
      /\ DOMAIN s = Fields
  BY DEF PutAt
<1>2. Shape /\ TreeInv /\ Rooted(inodes) /\ DistinctUp
  BY DEF IInv, TreeInv
<1>3. Fits(t, r) /\ Legal(r) /\ Works(t, r) /\ RemovesOne(r) /\ DOMAIN r = Fields
  BY <1>1, Here DEF Fits
<1>4. Writing(r) /\ r.pc # "update" /\ r.pc # "idle" /\ r.pc # "made" /\ r.pc # "free"
  BY <1>1 DEF Putting, Writing, Waits
<1>5. Removing(r) /\ ~Creating(r) /\ ~Private(r) /\ r.op \in NameOps /\ Hole(r) = r.i - 1
  BY <1>4 DEF Creating, Private, Removing, NameOps, Hole
<1>6. Writing(s) /\ Removing(s) /\ ~Creating(s) /\ ~Private(s) /\ Hole(s) = r.i
  BY <1>1 DEF Creating, Writing, Removing, Private, Hole
<1>7. r.on = cwd[t] /\ r.target = r.on /\ r.on \in Directories(inodes) /\ r.on \in Inodes
  BY <1>1, <1>3, <1>4, <1>5, Here DEF Works, Directories
<1>8. PICK i : i = r.i
  OBVIOUS
<1>9. /\ i \in Nat /\ i > 0 /\ i < Filled(inodes, r.on) /\ r.end = i * ENTRY
      /\ r.offset \div ENTRY = i - 1 /\ r.entry.inode = entries[r.on][i].inode
      /\ ~inodes[r.inode].free /\ inodes[r.inode].parent = r.on /\ r.inode \in Inodes
      /\ \A k \in Slots : Has(inodes, r.on, k) /\ k # i - 1 => entries[r.on][k].inode # r.inode
      /\ \/ entries[r.on][i - 1].inode = r.inode
         \/ i - 1 > 0 /\ entries[r.on][i - 2].inode = entries[r.on][i - 1].inode
  <2>1. i \in Nat /\ r.inode \in Inodes
    BY <1>3, <1>8 DEF Legal
  <2>2. i - 1 - 1 = i - 2
    BY <2>1
  <2> QED
    BY <1>3, <1>4, <1>5, <1>8, <2>1, <2>2 DEF RemovesOne
<1>10. /\ i \in Slots /\ i - 1 \in Slots /\ i # i - 1 /\ Has(inodes, r.on, i) /\ Has(inodes, r.on, i - 1)
       /\ i - 1 > 0 => i - 2 \in Slots /\ Has(inodes, r.on, i - 2) /\ i - 2 # i - 1
  <2>1. Filled(inodes, r.on) \in 0 .. NumSlots
    BY <1>2, <1>7, FilledIs
  <2> QED
    BY <1>9, <2>1, Sizes DEF Has
<1>11. /\ EntryAt(r.on, i - 1, r.entry)
       /\ entries' = [x \in Inodes |-> [j \in Slots |-> entries'[x][j]]]
       /\ \A x \in Inodes, j \in Slots : entries'[x][j].inode \in Inodes
  <2>1. entries' = [entries EXCEPT ![r.on][i - 1] = r.entry]
    BY <1>9 DEF PutAt
  <2>2. r.entry.inode \in Inodes
    BY <1>3 DEF Legal
  <2> QED
    BY <1>2, <1>7, <1>10, <2>1, <2>2, EntrySet
<1>12. /\ entries'[r.on][i - 1].inode = entries[r.on][i].inode
       /\ \A k \in Slots \ {i - 1} : entries'[r.on][k] = entries[r.on][k]
       /\ \A d \in Inodes \ {r.on} : entries'[d] = entries[d]
  BY <1>9, <1>11 DEF EntryAt
<1>13. \A d, k : Has(inodes, d, k)' <=> Has(inodes, d, k)
  BY DEF Has, Filled
<1>14. th'[t] = s /\ \A u \in Users \ {t} : th'[u] = th[u]
  BY <1>1, <1>2 DEF Shape
<1>15. \A u \in Users : /\ Removing(th'[u]) <=> Removing(th[u])
                        /\ th'[u].inode = th[u].inode /\ th'[u].on = th[u].on
                        /\ u # t => th'[u] = th[u]
  BY <1>1, <1>5, <1>6, <1>14
<1>16. ASSUME NEW y \in Inodes PROVE Owed(y)' <=> Owed(y)
  <2>1. inodes[y].parent \in Inodes
    BY <1>2 DEF Shape, TableOK, InodeOK
  <2>2. Unlisting(y)' <=> Unlisting(y)
    BY <1>15 DEF Unlisting
  <2>3. ListedIn(inodes, y)' => ListedIn(inodes, y)
    <3>1. SUFFICES ASSUME NEW k \in Slots, Has(inodes, inodes[y].parent, k),
                          entries'[inodes[y].parent][k].inode = y
                   PROVE  ListedIn(inodes, y)
      BY <1>13 DEF ListedIn
    <3>2. CASE inodes[y].parent = r.on /\ k = i - 1
      <4>1. entries[inodes[y].parent][i].inode = y /\ Has(inodes, inodes[y].parent, i)
        BY <1>10, <1>12, <3>1, <3>2
      <4> QED
        BY <1>10, <4>1 DEF ListedIn
    <3>3. CASE ~(inodes[y].parent = r.on /\ k = i - 1)
      <4>1. entries[inodes[y].parent][k].inode = y
        BY <1>12, <2>1, <3>1, <3>3
      <4> QED
        BY <3>1, <4>1 DEF ListedIn
    <3> QED
      BY <3>2, <3>3
  <2>4. ListedIn(inodes, y) => ListedIn(inodes, y)' \/ Unlisting(y)
    <3>1. SUFFICES ASSUME NEW k \in Slots, Has(inodes, inodes[y].parent, k),
                          entries[inodes[y].parent][k].inode = y
                   PROVE  (\E j \in Slots : /\ Has(inodes, inodes[y].parent, j)
                                            /\ entries'[inodes[y].parent][j].inode = y)
                          \/ Unlisting(y)
      BY <1>13 DEF ListedIn
    <3>2. CASE inodes[y].parent = r.on /\ k = i - 1 /\ y = r.inode
      BY <1>1, <1>5, <3>2 DEF Unlisting
    <3>3. CASE inodes[y].parent = r.on /\ k = i - 1 /\ y # r.inode
      <4>1. i - 1 > 0 /\ entries[r.on][i - 2].inode = y
        BY <1>9, <3>1, <3>3
      <4>2. i - 2 \in Slots /\ Has(inodes, inodes[y].parent, i - 2)
            /\ entries'[inodes[y].parent][i - 2].inode = y
        BY <1>10, <1>12, <3>3, <4>1
      <4> QED
        BY <4>2
    <3>4. CASE ~(inodes[y].parent = r.on /\ k = i - 1)
      <4>1. entries'[inodes[y].parent][k].inode = y
        BY <1>12, <2>1, <3>1, <3>4
      <4> QED
        BY <3>1, <4>1
    <3> QED
      BY <3>2, <3>3, <3>4
  <2> QED
    BY <2>2, <2>3, <2>4 DEF Owed
<1>17. Directories(inodes)' = Directories(inodes) /\ \A d \in Directories(inodes) : d \in Inodes
  BY DEF Directories
<1>18. Rooted(inodes)'
  <2>1. ASSUME NEW d \in Directories(inodes), NEW k \in Slots, Has(inodes, d, k)
        PROVE  ~inodes[entries'[d][k].inode].free /\ inodes[entries'[d][k].inode].parent = d
    <3>1. CASE d = r.on /\ k = i - 1
      <4>1. entries'[d][k].inode = entries[d][i].inode /\ Has(inodes, d, i) /\ i \in Slots
        BY <1>10, <1>12, <3>1
      <4> QED
        BY <1>2, <4>1 DEF Rooted
    <3>2. CASE ~(d = r.on /\ k = i - 1)
      <4>1. entries'[d][k].inode = entries[d][k].inode
        BY <1>12, <1>17, <3>2
      <4> QED
        BY <1>2, <2>1, <4>1 DEF Rooted
    <3> QED
      BY <3>1, <3>2
  <2> QED
    BY <1>2, <1>13, <1>17, <2>1 DEF Rooted
<1>19. DistinctUp'
  <2>1. SUFFICES ASSUME NEW d \in Directories(inodes), NEW a \in Slots, NEW b \in Slots,
                        Doubled(inodes, d, a, b)', a # b
                 PROVE  InHole(d, a, b)'
    BY <1>17 DEF DistinctUp
  <2>2. Has(inodes, d, a) /\ Has(inodes, d, b) /\ entries'[d][a].inode = entries'[d][b].inode
    BY <1>13, <2>1 DEF Doubled
  <2>3. CASE d # r.on
    <3>1. Doubled(inodes, d, a, b)
      BY <1>12, <1>17, <2>2, <2>3 DEF Doubled
    <3>2. PICK u \in Users : Removing(th[u]) /\ th[u].on = d /\ Hole(th[u]) \in {a, b}
      BY <1>2, <2>1, <3>1 DEF DistinctUp, InHole
    <3>3. Removing(th'[u]) /\ th'[u].on = d /\ Hole(th'[u]) \in {a, b}
      BY <1>1, <1>15, <2>3, <3>2
    <3> QED
      BY <3>3 DEF InHole
  <2>4. ASSUME d = r.on, NEW j \in Slots, NEW k \in Slots, Doubled(inodes, d, j, k), j # k,
               j # i - 1, k # i - 1
        PROVE  FALSE
    <3>1. PICK u \in Users : Removing(th[u]) /\ th[u].on = d /\ Hole(th[u]) \in {j, k}
      BY <1>2, <2>4 DEF DistinctUp, InHole
    <3>2. th[u].op \in NameOps
      BY <3>1 DEF Removing, NameOps
    <3>3. u = t
      BY <1>1, <1>5, <2>4, <3>1, <3>2, OneRemover
    <3> QED
      BY <1>1, <1>5, <1>8, <2>4, <3>1, <3>3
  <2>5. CASE d = r.on
    <3>1. SUFFICES i \in {a, b}
      <4>1. Removing(th'[t]) /\ th'[t].on = d /\ Hole(th'[t]) = i
        BY <1>1, <1>6, <1>8, <1>14, <2>5
      <4> QED
        BY <4>1 DEF InHole
    <3>2. CASE a # i - 1 /\ b # i - 1
      <4>1. Doubled(inodes, d, a, b)
        BY <1>12, <2>2, <2>5, <3>2 DEF Doubled
      <4> QED
        BY <2>1, <2>4, <2>5, <3>2, <4>1
    <3>3. CASE a = i - 1
      <4>1. b # i - 1 /\ entries[d][b].inode = entries[d][i].inode
        BY <1>12, <2>1, <2>2, <2>5, <3>3
      <4>2. Doubled(inodes, d, b, i)
        BY <1>10, <2>2, <2>5, <4>1 DEF Doubled
      <4>3. b = i
        BY <1>10, <2>4, <2>5, <4>1, <4>2
      <4> QED
        BY <4>3
    <3>4. CASE b = i - 1
      <4>1. a # i - 1 /\ entries[d][a].inode = entries[d][i].inode
        BY <1>12, <2>1, <2>2, <2>5, <3>4
      <4>2. Doubled(inodes, d, a, i)
        BY <1>10, <2>2, <2>5, <4>1 DEF Doubled
      <4>3. a = i
        BY <1>10, <2>4, <2>5, <4>1, <4>2
      <4> QED
        BY <4>3
    <3> QED
      BY <3>2, <3>3, <3>4
  <2> QED
    BY <2>3, <2>5
<1>20. Fits(t, s)'
  <2>1. Legal(s)
    BY <1>1, <1>3, <1>5 DEF Legal, Pcs, Waits, Writing, NameOps, Walks
  <2>2. Works(t, s)'
    <3>1. Filled(inodes, s.on)' = Filled(inodes, s.on)
      BY DEF Filled
    <3> QED
      BY <1>1, <1>3, <1>5, <1>7, <3>1 DEF Works, Waits, NameOps, Walks
  <2>3. /\ Filled(inodes, r.on)' = Filled(inodes, r.on)
        /\ \A k \in Slots : Has(inodes, r.on, k) /\ k # i => entries'[r.on][k].inode # r.inode
        /\ i > 0 /\ entries'[r.on][i - 1].inode = entries'[r.on][i].inode
    <3>1. Filled(inodes, r.on)' = Filled(inodes, r.on)
      BY DEF Filled
    <3>2. ASSUME NEW k \in Slots, Has(inodes, r.on, k), k # i PROVE entries'[r.on][k].inode # r.inode
      <4>1. CASE k = i - 1
        BY <1>9, <1>10, <1>12, <4>1
      <4>2. CASE k # i - 1
        BY <1>9, <1>12, <3>2, <4>2
      <4> QED
        BY <4>1, <4>2
    <3>3. entries'[r.on][i - 1].inode = entries'[r.on][i].inode
      BY <1>10, <1>12
    <3> QED
      BY <1>9, <3>1, <3>2, <3>3
  <2>4. RemovesOne(s)'
    <3>1. s.i > 0 /\ Hole(s) = i /\ i < Filled(inodes, s.on)' /\ s.end = i * ENTRY /\ s.i = i
      BY <1>1, <1>6, <1>8, <1>9, <2>3
    <3>2. s.op = "unlink" => inodes[s.inode].type = "REGULARFILE"
      BY <1>1, <1>3, <1>5 DEF RemovesOne
    <3> QED
      BY <1>1, <1>6, <1>9, <1>13, <2>3, <3>1, <3>2 DEF RemovesOne
  <2> QED
    BY <1>1, <1>6, <2>1, <2>2, <2>4 DEF Fits, MakesOne, FreesOne
<1> QED
  BY <1>1, <1>4, <1>5, <1>6, <1>11, <1>12, <1>16, <1>18, <1>19, <1>20, EntriesKeep

(* A block is written: the new entry, the entry that moves up, or data.    *)
LEMMA PutKeeps ==
  ASSUME IInv, boot = "ready", NEW t \in Users, Putting(th[t]), PutBlock(t, th[t]),
         UNCHANGED <<inodes, freeBlocks, onDisk, cwd, file, boot, active, deleted>>
  PROVE  IInv'
<1>1. CASE th[t].op = "write" \/ UNCHANGED th
  BY <1>1, PutDataKeeps
<1>2. CASE th[t].op # "write" /\ ~UNCHANGED th
  <2>1. PICK r, s : PutAt(t, r, s)
    BY <1>2, PutSlot
  <2>2. r.op \in {"creat", "mkdir"} \/ r.op \in {"unlink", "rmdir"}
    BY <2>1 DEF PutAt
  <2> QED
    BY <2>1, <2>2, PutNewKeeps, PutMovedKeeps
<1> QED
  BY <1>1, <1>2

(* The same, when the block was not read before.                           *)
LEMMA PutStep ==
  ASSUME IInv, NEW t \in Users, Put(t)
  PROVE  IInv'
<1>1. /\ boot = "ready" /\ Putting(th[t]) /\ PutBlock(t, th[t])
      /\ UNCHANGED <<inodes, freeBlocks, onDisk, cwd, file, boot, active, deleted>>
  BY DEF Put, At, Ready, Putting, memory, bitmap, handles, rest
<1> QED
  BY <1>1, PutKeeps

-----------------------------------------------------------------------------
(* The end of inode_write.  A table differs in one length, or in one       *)
(* number of references.                                                   *)
Same(a, b, x) ==
  /\ b[x].free = a[x].free /\ b[x].type = a[x].type /\ b[x].parent = a[x].parent
  /\ b[x].size = a[x].size /\ b[x].direct = a[x].direct

BytesSet(a, x, v) == [a EXCEPT ![x].bytes = v]
ReferencesAre(a, x, v) == [a EXCEPT ![x].references = v]

(* The length of one inode is set.                                         *)
LEMMA TableBytes ==
  ASSUME NEW a, TableOK(a), NEW x \in Inodes, NEW v, NEW b, b = BytesSet(a, x, v)
  PROVE  /\ TableOK(b) /\ b[x].bytes = v
         /\ \A y \in Inodes : Same(a, b, y) /\ b[y].references = a[y].references
         /\ \A y \in Inodes \ {x} : b[y].bytes = a[y].bytes
<1>1. InodeOK(a[x])
  BY DEF TableOK
<1>2. PICK n : n = [a[x] EXCEPT !.bytes = v]
  OBVIOUS
<1>3. /\ DOMAIN n = InodeFields /\ n.bytes = v /\ n.free = a[x].free
      /\ n.type = a[x].type /\ n.parent = a[x].parent /\ n.references = a[x].references
      /\ n.size = a[x].size /\ n.direct = a[x].direct
  BY <1>1, <1>2 DEF InodeOK, InodeFields
<1>4. b = [a EXCEPT ![x] = n]
  BY <1>2 DEF BytesSet
<1>5. b[x] = n /\ (\A y \in Inodes \ {x} : b[y] = a[y]) /\ b = [y \in Inodes |-> b[y]]
  BY <1>4 DEF TableOK
<1>6. InodeOK(n)
  BY <1>1, <1>3 DEF InodeOK
<1>7. TableOK(b)
  BY <1>5, <1>6 DEF TableOK
<1> QED
  BY <1>3, <1>5, <1>7 DEF Same

(* The references of one inode are set.                                    *)
LEMMA TableReferences ==
  ASSUME NEW a, TableOK(a), NEW x \in Inodes, NEW v \in Int, NEW b, b = ReferencesAre(a, x, v)
  PROVE  /\ TableOK(b) /\ b[x].references = v
         /\ \A y \in Inodes : Same(a, b, y) /\ b[y].bytes = a[y].bytes
         /\ \A y \in Inodes \ {x} : b[y].references = a[y].references
<1>1. InodeOK(a[x])
  BY DEF TableOK
<1>2. PICK n : n = [a[x] EXCEPT !.references = v]
  OBVIOUS
<1>3. /\ DOMAIN n = InodeFields /\ n.references = v /\ n.free = a[x].free
      /\ n.type = a[x].type /\ n.parent = a[x].parent /\ n.bytes = a[x].bytes
      /\ n.size = a[x].size /\ n.direct = a[x].direct
  BY <1>1, <1>2 DEF InodeOK, InodeFields
<1>4. b = [a EXCEPT ![x] = n]
  BY <1>2 DEF ReferencesAre
<1>5. b[x] = n /\ (\A y \in Inodes \ {x} : b[y] = a[y]) /\ b = [y \in Inodes |-> b[y]]
  BY <1>4 DEF TableOK
<1>6. InodeOK(n)
  BY <1>1, <1>3 DEF InodeOK
<1>7. TableOK(b)
  BY <1>5, <1>6 DEF TableOK
<1> QED
  BY <1>3, <1>5, <1>7 DEF Same

(* disk_update_inode: the disk has the inode as it is in memory, and       *)
(* nothing else has changed there.                                         *)
LEMMA DiskUpdated ==
  ASSUME IInv, boot = "ready", NEW t \in Users, NEW s, th' = [th EXCEPT ![t] = s],
         UNCHANGED <<freeBlocks, deleted>>, TableOK(inodes)',
         th[t].pc # "made", s.pc # "made",
         NEW x \in Inodes, disk_update_inode(x), ~inodes[x].free, inodes'[x].references >= 1,
         \A y \in Inodes : Same(inodes, inodes', y),
         \A y \in Inodes \ {x} : inodes'[y].bytes = inodes[y].bytes
  PROVE  /\ BlocksInv' /\ TableOK(onDisk.inodes)'
         /\ onDisk' = [inodes |-> onDisk'.inodes, free |-> onDisk'.free, super |-> onDisk'.super]
<1>1. Shape /\ BlocksInv /\ TableOK(onDisk.inodes)
  BY DEF IInv, Shape
<1>2. /\ onDisk' = [inodes |-> onDisk'.inodes, free |-> onDisk'.free, super |-> onDisk'.super]
      /\ onDisk'.inodes = [onDisk.inodes EXCEPT ![x] = inodes'[x]] /\ onDisk'.free = onDisk.free
  BY <1>1 DEF Shape, disk_update_inode
<1>3. /\ onDisk'.inodes[x] = inodes'[x]
      /\ \A y \in Inodes \ {x} : onDisk'.inodes[y] = onDisk.inodes[y]
      /\ onDisk'.inodes = [y \in Inodes |-> onDisk'.inodes[y]]
  BY <1>1, <1>2 DEF TableOK
<1>4. TableOK(onDisk.inodes)'
  BY <1>1, <1>3 DEF TableOK
<1>5. NoBlockShared(inodes, freeBlocks)'
  <2>1. \A y \in Inodes : inodes'[y].free = inodes[y].free /\ inodes'[y].direct = inodes[y].direct
    BY DEF Same
  <2>2. NoBlockShared(inodes, freeBlocks) /\ freeBlocks' = freeBlocks
    BY <1>1 DEF BlocksInv
  <2> QED
    BY <2>1, <2>2 DEF NoBlockShared
<1>6. ~deleted' => Written'
  <2>1. SUFFICES ASSUME ~deleted, NEW y \in Inodes
                 PROVE  /\ ~onDisk'.inodes[y].free => Matches(onDisk'.inodes[y], inodes'[y])
                        /\ ~inodes'[y].free /\ ~Making(y)' => ~onDisk'.inodes[y].free
    BY DEF Written
  <2>2. /\ ~onDisk.inodes[y].free => Matches(onDisk.inodes[y], inodes[y])
        /\ ~inodes[y].free /\ ~Making(y) => ~onDisk.inodes[y].free
    BY <1>1, <2>1 DEF BlocksInv, Written
  <2>3. CASE y # x
    <3>1. Making(y) => Making(y)'
      <4>1. \A u \in Users \ {t} : th'[u] = th[u]
        BY <1>1 DEF Shape
      <4> QED
        BY <4>1 DEF Making
    <3>2. Matches(onDisk.inodes[y], inodes[y]) => Matches(onDisk.inodes[y], inodes'[y])
      BY <2>3 DEF Matches, Same
    <3>3. inodes'[y].free = inodes[y].free /\ onDisk'.inodes[y] = onDisk.inodes[y]
      BY <1>3, <2>3 DEF Same
    <3> QED
      BY <2>2, <3>1, <3>2, <3>3
  <2>4. CASE y = x
    <3>1. ~inodes'[x].free
      BY DEF Same
    <3> QED
      BY <1>3, <2>4, <3>1 DEF Matches
  <2> QED
    BY <2>3, <2>4
<1> QED
  BY <1>1, <1>2, <1>4, <1>5, <1>6 DEF BlocksInv

-----------------------------------------------------------------------------
(* What inode_write leaves: the length grows to where the writing ended.   *)
LEMMA Products ==
  ASSUME NEW m \in Nat, NEW n \in Nat, m <= n
  PROVE  m * ENTRY <= n * ENTRY /\ m * ENTRY \in Nat /\ n * ENTRY \in Nat
<1>1. ENTRY \in Nat /\ n - m \in Nat
  BY Sizes
<1>2. PICK k : k = n - m
  OBVIOUS
<1>3. (m + k) * ENTRY = m * ENTRY + k * ENTRY /\ m * ENTRY \in Nat /\ k * ENTRY \in Nat
  BY <1>1, <1>2
<1> QED
  BY <1>1, <1>2, <1>3

(* minifile_unlink and _rmdir write inside the directory.                  *)
LEMMA UpdateMovedKeeps ==
  ASSUME IInv, NEW t \in Users, Update(t), th[t].op \in {"unlink", "rmdir"}
  PROVE  IInv'
<1>1. PICK r : r = th[t]
  OBVIOUS
<1>2. PICK x : x = r.target
  OBVIOUS
<1>3. PICK s : s = [[r EXCEPT !.i = @ + 1] EXCEPT !.pc = "shift"]
  OBVIOUS
<1>4. /\ boot = "ready" /\ r.pc = "update" /\ th' = [th EXCEPT ![t] = s]
      /\ UNCHANGED <<freeBlocks, entries, cwd, file, boot, active, deleted>>
      /\ inodes' = [inodes EXCEPT ![x].bytes = IF r.end > inodes[x].bytes THEN r.end ELSE inodes[x].bytes]
      /\ disk_update_inode(x)
  BY <1>1, <1>2, <1>3 DEF Update, At, Ready, Goto, bitmap, rest
<1>5. Shape /\ TreeInv /\ Rooted(inodes) /\ TableOK(inodes)
  BY <1>4 DEF IInv, Shape, TreeInv
<1>6. Fits(t, r) /\ Legal(r) /\ Works(t, r) /\ RemovesOne(r) /\ DOMAIN r = Fields
  BY <1>1, <1>4, Here DEF Fits
<1>7. /\ Writing(r) /\ Removing(r) /\ ~Creating(r) /\ ~Private(r) /\ r.op \in NameOps
      /\ Hole(r) = r.i
  BY <1>1, <1>4 DEF Writing, Removing, Creating, Private, NameOps, Hole
<1>8. x = r.on /\ r.on = cwd[t] /\ x \in Directories(inodes) /\ x \in Inodes
      /\ ~inodes[x].free /\ inodes[x].type = "DIRECTORY"
  BY <1>1, <1>2, <1>4, <1>6, <1>7, Here DEF Works, Directories
<1>9. r.i \in Nat /\ r.i < Filled(inodes, x) /\ r.end = r.i * ENTRY
  BY <1>6, <1>7, <1>8 DEF RemovesOne, Legal
<1>10. ~(r.end > inodes[x].bytes)
  <2>1. Filled(inodes, x) \in 0 .. NumSlots /\ inodes[x].bytes = Filled(inodes, x) * ENTRY
    BY <1>5, <1>8, FilledIs
  <2>2. Filled(inodes, x) \in Nat /\ r.i <= Filled(inodes, x)
    BY <1>9, <2>1, Sizes
  <2>3. r.i * ENTRY <= Filled(inodes, x) * ENTRY /\ r.i * ENTRY \in Nat /\ Filled(inodes, x) * ENTRY \in Nat
    BY <1>9, <2>2, Products
  <2> QED
    BY <1>9, <2>1, <2>3
<1>11. /\ TableOK(inodes)'
       /\ \A y \in Inodes : Same(inodes, inodes', y) /\ inodes'[y].references = inodes[y].references
                            /\ inodes'[y].bytes = inodes[y].bytes
  <2>1. inodes' = [inodes EXCEPT ![x].bytes = inodes[x].bytes]
    BY <1>4, <1>10
  <2>2. PICK v, b : v = inodes[x].bytes /\ b = inodes'
    OBVIOUS
  <2>3. b = BytesSet(inodes, x, v)
    BY <2>1, <2>2 DEF BytesSet
  <2>4. /\ TableOK(b) /\ b[x].bytes = v
        /\ \A y \in Inodes : Same(inodes, b, y) /\ b[y].references = inodes[y].references
        /\ \A y \in Inodes \ {x} : b[y].bytes = inodes[y].bytes
    <3>1. TableOK(inodes) /\ x \in Inodes
      BY <1>5, <1>8
    <3> QED
      BY <2>3, <3>1, TableBytes
  <2>5. TableOK(inodes)'
    BY <2>2, <2>4 DEF TableOK
  <2> QED
    BY <2>2, <2>4, <2>5
<1>12. \A y \in Inodes : SameNode(y)
  BY <1>11 DEF SameNode, Same
<1>13. /\ DOMAIN s = Fields /\ s.pc = "shift" /\ s.then = r.then /\ s.op = r.op /\ s.mode = r.mode
       /\ s.area = r.area /\ s.on = r.on /\ s.i = r.i + 1 /\ s.inode = r.inode /\ s.entry = r.entry
       /\ s.target = r.target
  BY <1>3, <1>6 DEF Fields
<1>14. Removing(s) /\ ~Creating(s) /\ ~Private(s) /\ ~Writing(s) /\ Hole(s) = r.i
  BY <1>1, <1>9, <1>13 DEF Removing, Creating, Private, Writing, Waits, Hole
<1>15. SameRole(r, s)
  BY <1>7, <1>13, <1>14 DEF SameRole
<1>16. Fits(t, s)
  <2>1. Legal(s)
    BY <1>1, <1>6, <1>9, <1>13, <1>14 DEF Legal, Pcs, Waits, Writing, NameOps, Walks
  <2>2. Works(t, s)
    BY <1>1, <1>6, <1>7, <1>13, <1>14 DEF Works, Waits, NameOps, Walks
  <2>3. RemovesOne(s)
    BY <1>6, <1>7, <1>9, <1>13, <1>14 DEF RemovesOne
  <2> QED
    BY <1>13, <1>14, <2>1, <2>2, <2>3 DEF Fits, MakesOne, FreesOne
<1>17. Fits(t, s)'
  BY <1>1, <1>4, <1>12, <1>14, <1>15, <1>16, FitsStays
<1>18. th'[t] = s /\ \A u \in Users \ {t} : th'[u] = th[u]
  BY <1>4, <1>5 DEF Shape
<1>19. \A y \in Inodes : Owed(y)' <=> Owed(y)
  BY <1>1, <1>4, <1>12, <1>15, <1>18, TreeKept
<1>20. ASSUME NEW y \in Inodes PROVE RefsOK(y)'
  <2>1. Claims(y)' = Claims(y) /\ RefsOK(y) /\ Handles(y)' = Handles(y)
    BY <1>4, <1>5, <1>12, <1>19, <1>20 DEF TreeInv, Claims, Handles, SameNode
  <2> QED
    BY <1>11, <1>12, <2>1 DEF RefsOK, SameNode
<1>21. HandleOK(t)'
  <2>1. HandleOK(t) /\ (file[t].inode # -1 => file[t].inode \in Inodes)
    <3>1. FileOK(file[t])
      BY <1>4, Here
    <3> QED
      BY <1>4, <3>1, Here DEF FileOK, NoFile
  <2> QED
    BY <1>4, <1>12, <1>19, <2>1 DEF HandleOK, SameNode
<1>22. inodes'[x].references >= 1
  <2>1. RefsOK(x) /\ Claims(x) = 1 /\ inodes[x].references \in Int
    BY <1>5, <1>8 DEF TreeInv, Claims, TableOK, InodeOK
  <2>2. Cardinality(Handles(x)) \in Nat
    BY HandleCount DEF Handles
  <2> QED
    BY <1>8, <1>11, <2>1, <2>2 DEF RefsOK
<1>23. /\ BlocksInv' /\ TableOK(onDisk.inodes)'
       /\ onDisk' = [inodes |-> onDisk'.inodes, free |-> onDisk'.free, super |-> onDisk'.super]
  BY <1>1, <1>4, <1>8, <1>11, <1>13, <1>22, DiskUpdated
<1>24. Shape'
  <2>1. freeBlocks' \subseteq Nat /\ TableOK(onDisk.inodes)' /\ TableOK(inodes)'
    BY <1>4, <1>5, <1>11, <1>23 DEF Shape
  <2> QED
    BY <1>4, <1>5, <1>23, <2>1 DEF Shape
<1>25. ASSUME NEW u \in Users \ {t}
       PROVE  /\ th[u].op \notin Walks /\ file'[u] = file[u]
              /\ Creating(th[u]) => inodes'[th[u].inode].references = inodes[th[u].inode].references
              /\ Private(th[u]) => file'[t].inode # th[u].inode
              /\ Private(s) /\ Private(th[u]) => s.inode # th[u].inode
              /\ s.area \cap th[u].area = {}
  <2>1. th[u].op \notin Walks /\ s.area \cap th[u].area = {}
    BY <1>1, <1>4, <1>13, NoWalker, Here
  <2>2. Private(th[u]) => file[t].inode # th[u].inode /\ th[u].inode \in Inodes
    BY <1>4, PrivateIs
  <2>3. Creating(th[u]) => Private(th[u])
    BY DEF Private
  <2> QED
    BY <1>4, <1>11, <1>14, <2>1, <2>2, <2>3
<1>26. t \in active
  BY <1>1, <1>4, Here
<1> QED
  BY <1>1, <1>4, <1>12, <1>15, <1>17, <1>20, <1>21, <1>23, <1>24, <1>25, <1>26, InPlaceKeeps

(* minifile_write: the file is longer, and no directory.                   *)
LEMMA UpdateFileKeeps ==
  ASSUME IInv, NEW t \in Users, Update(t), th[t].op = "write"
  PROVE  IInv'
<1>1. PICK r : r = th[t]
  OBVIOUS
<1>2. PICK x : x = r.target
  OBVIOUS
<1>3. PICK v : v = IF r.end > inodes[x].bytes THEN r.end ELSE inodes[x].bytes
  OBVIOUS
<1>4. /\ boot = "ready" /\ r.pc = "update" /\ th' = [th EXCEPT ![t] = Idle]
      /\ UNCHANGED <<freeBlocks, entries, cwd, boot, active, deleted>>
      /\ inodes' = BytesSet(inodes, x, v) /\ file' = [file EXCEPT ![t].position = r.end]
      /\ disk_update_inode(x)
  BY <1>1, <1>2, <1>3 DEF Update, At, Ready, Return, bitmap, rest, BytesSet
<1>5. Shape /\ TreeInv /\ Rooted(inodes) /\ DistinctUp /\ TableOK(inodes)
  BY <1>4 DEF IInv, Shape, TreeInv
<1>6. Fits(t, r) /\ Legal(r) /\ Works(t, r)
  BY <1>1, <1>4, Here DEF Fits
<1>7. r.op = "write" /\ ~Removing(r) /\ ~Removing(Idle) /\ ~Private(Idle) /\ Idle.area = {} /\ Idle.pc = "idle"
  BY <1>1 DEF Removing, Writing, Waits, Idle, Private, Creating
<1>8. /\ file[t].inode = x /\ inodes[x].type = "REGULARFILE" /\ x # -1 /\ x \in Inodes
      /\ ~inodes[x].free /\ FileOK(file[t])
  <2>1. file[t].inode = x /\ inodes[x].type = "REGULARFILE" /\ x # -1
    BY <1>2, <1>6, <1>7 DEF Works
  <2>2. HandleOK(t) /\ FileOK(file[t])
    BY <1>4, Here
  <2> QED
    BY <2>1, <2>2 DEF HandleOK, FileOK, NoFile
<1>9. /\ TableOK(inodes)'
      /\ \A y \in Inodes : Same(inodes, inodes', y) /\ inodes'[y].references = inodes[y].references
      /\ \A y \in Inodes \ {x} : inodes'[y].bytes = inodes[y].bytes
  <2>1. PICK b : b = inodes'
    OBVIOUS
  <2>2. b = BytesSet(inodes, x, v) /\ TableOK(inodes) /\ x \in Inodes
    BY <1>4, <1>5, <1>8, <2>1
  <2>3. /\ TableOK(b)
        /\ \A y \in Inodes : Same(inodes, b, y) /\ b[y].references = inodes[y].references
        /\ \A y \in Inodes \ {x} : b[y].bytes = inodes[y].bytes
    BY <2>2, TableBytes
  <2>4. TableOK(inodes)'
    BY <2>1, <2>3 DEF TableOK
  <2> QED
    BY <2>1, <2>3, <2>4
<1>10. \A y \in Inodes : inodes'[y].free = inodes[y].free /\ inodes'[y].type = inodes[y].type
                         /\ inodes'[y].parent = inodes[y].parent
  BY <1>9 DEF Same
<1>11. /\ file' = [u \in Users |-> file'[u]] /\ file'[t].inode = x /\ FileOK(file'[t])
       /\ \A u \in Users \ {t} : file'[u] = file[u]
       /\ \A u \in Users : file'[u].inode = file[u].inode /\ FileOK(file'[u])
  <2>1. PICK f : f = [file[t] EXCEPT !.position = r.end]
    OBVIOUS
  <2>2. f.inode = x /\ f = [inode |-> f.inode, type |-> f.type, position |-> f.position]
    BY <1>8, <2>1 DEF FileOK
  <2>3. FileOK(f)
    BY <1>8, <2>2 DEF FileOK
  <2>4. file = [u \in Users |-> file[u]] /\ \A u \in Users : FileOK(file[u])
    BY <1>4, Here
  <2>5. file' = [file EXCEPT ![t] = f]
    BY <1>4, <2>1, <2>4
  <2>6. file'[t] = f /\ (\A u \in Users \ {t} : file'[u] = file[u]) /\ file' = [u \in Users |-> file'[u]]
    BY <2>4, <2>5
  <2> QED
    BY <1>8, <2>2, <2>3, <2>4, <2>6
<1>12. th'[t] = Idle /\ \A u \in Users \ {t} : th'[u] = th[u]
  BY <1>4, <1>5 DEF Shape
<1>13. /\ Directories(inodes)' = Directories(inodes)
       /\ \A d \in Directories(inodes) : d \in Inodes /\ inodes'[d].bytes = inodes[d].bytes
  BY <1>8, <1>9, <1>10 DEF Directories
<1>14. \A d \in Directories(inodes) : /\ Filled(inodes, d)' = Filled(inodes, d)
                                      /\ \A k : Has(inodes, d, k)' <=> Has(inodes, d, k)
  BY <1>13 DEF Filled, Has
<1>15. \A u \in Users : (Removing(th'[u]) <=> Removing(th[u])) /\ (Removing(th[u]) => th'[u] = th[u])
  BY <1>1, <1>7, <1>12
<1>16. ASSUME NEW y \in Inodes, ~inodes[y].free PROVE Owed(y)' <=> Owed(y)
  <2>1. inodes[y].parent \in Directories(inodes) /\ inodes'[y].parent = inodes[y].parent
    BY <1>5, <1>10, <1>16 DEF Rooted
  <2>2. ListedIn(inodes, y)' <=> ListedIn(inodes, y)
    BY <1>4, <1>14, <2>1 DEF ListedIn
  <2>3. Unlisting(y)' <=> Unlisting(y)
    BY <1>15 DEF Unlisting
  <2> QED
    BY <2>2, <2>3 DEF Owed
<1>17. \A y \in Inodes : Handles(y)' = Handles(y)
  BY <1>11 DEF Handles
<1>18. Rooted(inodes)'
  <2>1. ASSUME NEW y \in Inodes, ~inodes'[y].free PROVE inodes'[y].parent \in Directories(inodes)
    BY <1>5, <1>10, <2>1 DEF Rooted
  <2>2. ASSUME NEW d \in Directories(inodes) PROVE \E n \in 0 .. NumSlots : inodes'[d].bytes = n * ENTRY
    BY <1>5, <1>13 DEF Rooted
  <2>3. ASSUME NEW d \in Directories(inodes), NEW k \in Slots, Has(inodes, d, k)'
        PROVE  ~inodes'[entries[d][k].inode].free /\ inodes'[entries[d][k].inode].parent = d
    <3>1. Has(inodes, d, k) /\ d \in Inodes
      BY <1>13, <1>14, <2>3
    <3>2. entries[d][k].inode \in Inodes
      BY <1>5, <3>1 DEF Shape
    <3> QED
      BY <1>5, <1>10, <3>1, <3>2 DEF Rooted
  <2>4. 0 \in Directories(inodes)
    BY <1>5 DEF Rooted
  <2> QED
    BY <1>4, <1>13, <2>1, <2>2, <2>3, <2>4 DEF Rooted
<1>19. DistinctUp'
  <2>1. SUFFICES ASSUME NEW d \in Directories(inodes), NEW i \in Slots, NEW j \in Slots,
                        Doubled(inodes, d, i, j)', i # j
                 PROVE  InHole(d, i, j)'
    BY <1>13 DEF DistinctUp
  <2>2. Doubled(inodes, d, i, j)
    BY <1>4, <1>14, <2>1 DEF Doubled
  <2>3. PICK u \in Users : Removing(th[u]) /\ th[u].on = d /\ Hole(th[u]) \in {i, j}
    BY <1>5, <2>1, <2>2 DEF DistinctUp, InHole
  <2>4. Removing(th'[u]) /\ th'[u].on = d /\ Hole(th'[u]) \in {i, j}
    BY <1>15, <2>3
  <2> QED
    BY <2>4 DEF InHole
<1>20. ASSUME NEW y \in Inodes PROVE RefsOK(y)'
  <2>1. SUFFICES ASSUME ~inodes[y].free PROVE RefsOK(y)'
    BY <1>10 DEF RefsOK
  <2>2. Claims(y)' = Claims(y) /\ RefsOK(y)
    BY <1>5, <1>10, <1>16, <2>1 DEF TreeInv, Claims
  <2> QED
    BY <1>9, <1>17, <2>1, <2>2 DEF RefsOK
<1>21. ASSUME NEW u \in Users PROVE HandleOK(u)' /\ cwd'[u] \in Directories(inodes)'
  <2>1. HandleOK(u) /\ FileOK(file[u]) /\ cwd[u] \in Directories(inodes)
    BY <1>4, Here
  <2>2. file[u].inode # -1 => file[u].inode \in Inodes
    BY <2>1 DEF FileOK, NoFile
  <2> QED
    BY <1>4, <1>10, <1>11, <1>13, <1>16, <2>1, <2>2 DEF HandleOK
<1>22. TreeInv'
  BY <1>18, <1>19, <1>20, <1>21 DEF TreeInv
<1>23. ASSUME NEW u \in Users \ {t} PROVE LocalInv(u)'
  <2>1. LocalInv(u) /\ Fits(u, th[u]) /\ Legal(th[u]) /\ Works(u, th[u]) /\ MakesOne(th[u])
        /\ cwd[u] \in Directories(inodes)
    BY <1>4, Here DEF Fits
  <2>2. th[u].inode \in Inodes /\ th[u].on \in Inodes
    BY <2>1 DEF Legal
  <2>3. Private(th[u]) => Unknown(th[u].inode)'
    <3>1. Private(th[u]) => Unknown(th[u].inode) /\ ~inodes[th[u].inode].free
      BY <1>4, PrivateIs
    <3> QED
      BY <1>12, <1>16, <1>17, <2>2, <3>1 DEF Unknown
  <2>4. Creating(th[u]) => Untrodden(th[u].inode)'
    <3>1. Creating(th[u]) => Untrodden(th[u].inode)
      BY <2>1 DEF MakesOne
    <3> QED
      BY <1>4, <1>10, <3>1 DEF Untrodden
  <2>5. th[u].op = "write" => file[u].inode \in Inodes
    <3>1. FileOK(file[u])
      BY <1>4, Here
    <3> QED
      BY <2>1, <3>1 DEF Works, FileOK, NoFile
  <2>6. th[u].op \in NameOps => inodes'[th[u].on].bytes = inodes[th[u].on].bytes
    BY <1>13, <2>1 DEF Works
  <2>7. th[u].op \notin Walks
    BY <1>1, <1>4, NoWalker
  <2>8. Creating(th[u]) => inodes'[th[u].inode].references = inodes[th[u].inode].references
    BY <1>9, <2>2
  <2> DEFINE E == {}
  <2>9. \A y : y \notin E
    OBVIOUS
  <2> HIDE DEF E
  <2>10. \A y \in Inodes \ E : /\ inodes'[y].free = inodes[y].free /\ inodes'[y].type = inodes[y].type
                               /\ inodes'[y].parent = inodes[y].parent
    BY <1>10
  <2> QED
    BY <1>4, <1>11, <1>12, <2>2, <2>3, <2>4, <2>5, <2>6, <2>7, <2>8, <2>9, <2>10, OthersKeep
<1>24. ThreadsInv'
  <2>1. \A u, w \in Users : u # w => Apart(u, w)'
    <3>1. Idle.area \subseteq th[t].area
      BY <1>7
    <3> QED
      BY <1>4, <1>7, <3>1, ApartKeeps
  <2>2. LocalInv(t)'
    BY <1>7, <1>12, IdleFits DEF LocalInv
  <2> QED
    BY <1>23, <2>1, <2>2 DEF ThreadsInv
<1>25. inodes'[x].references >= 1
  <2>1. RefsOK(x) /\ Claims(x) \in {0, 1} /\ inodes[x].references \in Int
    BY <1>5, <1>8 DEF TreeInv, Claims, TableOK, InodeOK
  <2>2. Cardinality(Handles(x)) \in Nat /\ Cardinality(Handles(x)) >= 1
    <3>1. t \in Handles(x) /\ Handles(x) \in SUBSET Users
      BY <1>8 DEF Handles
    <3>2. PICK A : A = {}
      OBVIOUS
    <3>3. A \in SUBSET Users /\ A \subseteq Handles(x) \ {t}
      BY <3>2
    <3>4. Cardinality(A) \in Nat /\ Cardinality(Handles(x)) \in Nat
          /\ Cardinality(A) <= Cardinality(Handles(x)) - 1
      BY <3>1, <3>3, HandleCount
    <3> QED
      BY <3>4
  <2> QED
    BY <1>8, <1>9, <2>1, <2>2 DEF RefsOK
<1>26. /\ BlocksInv' /\ TableOK(onDisk.inodes)'
       /\ onDisk' = [inodes |-> onDisk'.inodes, free |-> onDisk'.free, super |-> onDisk'.super]
  <2>1. th[t].pc # "made" /\ Idle.pc # "made" /\ UNCHANGED <<freeBlocks, deleted>>
    BY <1>1, <1>4, <1>7
  <2> QED
    BY <1>4, <1>8, <1>9, <1>25, <2>1, DiskUpdated
<1>27. Shape'
  <2>1. freeBlocks' \subseteq Nat /\ TableOK(onDisk.inodes)' /\ TableOK(inodes)'
    BY <1>4, <1>5, <1>9, <1>26 DEF Shape
  <2> QED
    BY <1>4, <1>5, <1>11, <1>26, <2>1 DEF Shape
<1> QED
  BY <1>4, <1>22, <1>24, <1>26, <1>27 DEF IInv

-----------------------------------------------------------------------------
(* minifile_creat and _mkdir: the entry behind the last one becomes part   *)
(* of the directory, and leads to the new inode.                           *)
LEMMA NewLength ==
  ASSUME IInv, boot = "ready", NEW t \in Users, NEW r, r = th[t], Creating(r), r.pc = "update",
         NEW x, x = r.target
  PROVE  /\ x = r.on /\ x = cwd[t] /\ x \in Directories(inodes) /\ x \in Inodes /\ x \in r.area
         /\ ~inodes[x].free /\ inodes[x].type = "DIRECTORY"
         /\ Filled(inodes, x) \in 0 .. NumSlots - 1 /\ Filled(inodes, x) \in Slots
         /\ inodes[x].bytes = Filled(inodes, x) * ENTRY
         /\ r.end = (Filled(inodes, x) + 1) * ENTRY /\ r.end > inodes[x].bytes
<1>1. Fits(t, r) /\ Legal(r) /\ Works(t, r) /\ MakesOne(r) /\ Rooted(inodes)
  BY Here DEF Fits, IInv, TreeInv
<1>2. Writing(r) /\ r.op \in {"creat", "mkdir"} /\ r.op \in NameOps
  BY DEF Creating, Writing, NameOps
<1>3. x = r.on /\ x = cwd[t] /\ x \in Directories(inodes) /\ x \in r.area
  BY <1>1, <1>2, Here DEF Works
<1>4. Filled(inodes, x) < NumSlots
  BY <1>1, <1>2, <1>3 DEF Works
<1>5. Filled(inodes, x) \in 0 .. NumSlots /\ inodes[x].bytes = Filled(inodes, x) * ENTRY
  BY <1>1, <1>3, FilledIs
<1>6. Filled(inodes, x) \in 0 .. NumSlots - 1 /\ Filled(inodes, x) \in Slots /\ Filled(inodes, x) \in Nat
  BY <1>4, <1>5, Sizes
<1>7. r.end = inodes[x].bytes + ENTRY
  BY <1>1, <1>2, <1>3 DEF MakesOne
<1>8. PICK f : f = Filled(inodes, x)
  OBVIOUS
<1>9. (f + 1) * ENTRY = f * ENTRY + ENTRY /\ f * ENTRY \in Nat /\ ENTRY \in Nat \ {0}
  BY <1>6, <1>8, Multiple, Sizes
<1> QED
  BY <1>3, <1>5, <1>6, <1>7, <1>8, <1>9 DEF Directories

(* The tables of inodes before and after.                                  *)
NewTable(r, x, z) ==
  /\ TableOK(inodes)'
  /\ \A y \in Inodes : Same(inodes, inodes', y)
  /\ \A y \in Inodes \ {x} : inodes'[y].bytes = inodes[y].bytes
  /\ inodes'[x].bytes = r.end
  /\ \A y \in Inodes \ {z} : inodes'[y].references = inodes[y].references
  /\ inodes'[z].references = IF r.op = "creat" THEN 2 ELSE inodes[z].references

(* A directory that is one entry longer, and the count of the new inode.   *)
LEMMA NewTableIs ==
  ASSUME TableOK(inodes), NEW r, NEW x \in Inodes, NEW z \in Inodes,
         NEW a, a = BytesSet(inodes, x, r.end),
         inodes' = IF r.op = "creat" THEN ReferencesAre(a, z, 2) ELSE a
  PROVE  NewTable(r, x, z)
<1>1. PICK v : v = r.end
  OBVIOUS
<1>2. /\ TableOK(a) /\ a[x].bytes = v
      /\ \A y \in Inodes : Same(inodes, a, y) /\ a[y].references = inodes[y].references
      /\ \A y \in Inodes \ {x} : a[y].bytes = inodes[y].bytes
  BY <1>1, TableBytes
<1>3. PICK b : b = inodes'
  OBVIOUS
<1>4. CASE r.op = "creat"
  <2>1. b = ReferencesAre(a, z, 2) /\ 2 \in Int
    BY <1>3, <1>4
  <2>2. /\ TableOK(b) /\ b[z].references = 2
        /\ \A y \in Inodes : Same(a, b, y) /\ b[y].bytes = a[y].bytes
        /\ \A y \in Inodes \ {z} : b[y].references = a[y].references
    BY <1>2, <2>1, TableReferences
  <2>3. \A y \in Inodes : Same(inodes, b, y)
    BY <1>2, <2>2 DEF Same
  <2>4. TableOK(inodes)'
    BY <1>3, <2>2 DEF TableOK
  <2> QED
    BY <1>1, <1>2, <1>3, <1>4, <2>2, <2>3, <2>4 DEF NewTable
<1>5. CASE r.op # "creat"
  <2>1. TableOK(inodes)'
    BY <1>2, <1>5 DEF TableOK
  <2> QED
    BY <1>1, <1>2, <1>5, <2>1 DEF NewTable
<1> QED
  BY <1>4, <1>5

(* creat and mkdir are done: the new inode is listed.                      *)
LEMMA UpdateNewKeeps ==
  ASSUME IInv, NEW t \in Users, Update(t), th[t].op \in {"creat", "mkdir"}
  PROVE  IInv'
<1>1. PICK r : r = th[t]
  OBVIOUS
<1>2. PICK x, z, f : x = r.target /\ z = r.inode /\ f = Filled(inodes, x)
  OBVIOUS
<1>3. PICK n : n = [inode |-> z, position |-> 0, type |-> IF r.mode = "a" THEN "APPEND" ELSE "WRITE"]
  OBVIOUS
<1>4. /\ boot = "ready" /\ r.pc = "update" /\ th' = [th EXCEPT ![t] = Idle]
      /\ r.op \in {"creat", "mkdir"}
      /\ UNCHANGED <<freeBlocks, entries, cwd, boot, active, deleted>>
      /\ file' = IF r.op = "creat" THEN [file EXCEPT ![t] = n] ELSE file
      /\ disk_update_inode(x)
  BY <1>1, <1>2, <1>3 DEF Update, At, Ready, Return, bitmap, rest
<1>5. Shape /\ TreeInv /\ Rooted(inodes) /\ DistinctUp /\ TableOK(inodes)
  BY <1>4 DEF IInv, Shape, TreeInv
<1>6. Fits(t, r) /\ Legal(r) /\ Works(t, r) /\ MakesOne(r)
  BY <1>1, <1>4, Here DEF Fits
<1>7. Creating(r) /\ Private(r) /\ ~Removing(r) /\ r.op \in NameOps /\ Writing(r)
  BY <1>4 DEF Creating, Private, Removing, Writing, Waits, NameOps
<1>8. /\ x = r.on /\ x = cwd[t] /\ x \in Directories(inodes) /\ x \in Inodes /\ x \in r.area
      /\ ~inodes[x].free /\ inodes[x].type = "DIRECTORY"
      /\ f \in 0 .. NumSlots - 1 /\ f \in Slots
      /\ inodes[x].bytes = f * ENTRY /\ r.end = (f + 1) * ENTRY /\ r.end > inodes[x].bytes
  BY <1>1, <1>2, <1>4, <1>7, NewLength
<1>9. /\ z \in Inodes /\ z # x /\ z # -1 /\ ~inodes[z].free /\ inodes[z].parent = x
      /\ inodes[z].type = (IF r.op = "mkdir" THEN "DIRECTORY" ELSE "REGULARFILE")
      /\ inodes[z].references = 1 /\ Handles(z) = {} /\ ~ListedIn(inodes, z) /\ ~Unlisting(z)
      /\ Untrodden(z) /\ entries[x][f].inode = z
  <2>1. z \in Inodes /\ z # -1
    BY <1>2, <1>6, MiniFileAssumption DEF Legal, Inodes
  <2>2. Untrodden(z) /\ Unknown(z)
    BY <1>2, <1>6, <1>7 DEF MakesOne
  <2>3. z # x /\ Handles(z) = {} /\ ~ListedIn(inodes, z) /\ ~Unlisting(z)
    BY <1>8, <2>2 DEF Untrodden, Unknown, Owed
  <2> QED
    BY <1>2, <1>4, <1>6, <1>7, <1>8, <2>1, <2>2, <2>3 DEF MakesOne
<1>10. NewTable(r, x, z)
  <2>1. PICK a : a = BytesSet(inodes, x, r.end)
    OBVIOUS
  <2>2. inodes' = IF r.op = "creat" THEN ReferencesAre(a, z, 2) ELSE a
    BY <1>1, <1>2, <1>8, <2>1 DEF Update, BytesSet, ReferencesAre
  <2> QED
    BY <1>5, <1>8, <1>9, <2>1, <2>2, NewTableIs
<1>11. /\ TableOK(inodes)' /\ \A y \in Inodes : Same(inodes, inodes', y)
       /\ \A y \in Inodes \ {x} : inodes'[y].bytes = inodes[y].bytes
       /\ \A y \in Inodes \ {z} : inodes'[y].references = inodes[y].references
       /\ inodes'[z].references = (IF r.op = "creat" THEN 2 ELSE 1)
       /\ inodes'[x].bytes = (f + 1) * ENTRY
  BY <1>8, <1>9, <1>10 DEF NewTable
<1>12. \A y \in Inodes : inodes'[y].free = inodes[y].free /\ inodes'[y].type = inodes[y].type
                         /\ inodes'[y].parent = inodes[y].parent
  BY <1>11 DEF Same
<1>13. /\ file' = [u \in Users |-> file'[u]]
       /\ \A u \in Users \ {t} : file'[u] = file[u]
       /\ \A u \in Users : FileOK(file'[u])
       /\ IF r.op = "creat" THEN file'[t].inode = z ELSE file'[t] = file[t]
  <2>1. n.inode = z /\ FileOK(n)
    BY <1>3, <1>9 DEF FileOK
  <2>2. file = [u \in Users |-> file[u]] /\ \A u \in Users : FileOK(file[u])
    BY <1>4, Here
  <2> QED
    BY <1>4, <2>1, <2>2
<1>14. ~Removing(Idle) /\ ~Private(Idle) /\ Idle.area = {} /\ Idle.pc = "idle"
  BY DEF Removing, Writing, Waits, Idle, Private, Creating
<1>15. th'[t] = Idle /\ \A u \in Users \ {t} : th'[u] = th[u]
  BY <1>4, <1>5 DEF Shape
<1>16. \A u \in Users : (Removing(th'[u]) <=> Removing(th[u])) /\ (Removing(th[u]) => th'[u] = th[u])
  BY <1>1, <1>7, <1>14, <1>15
<1>17. /\ Directories(inodes)' = Directories(inodes)
       /\ \A d \in Directories(inodes) : d \in Inodes
       /\ \A d \in Directories(inodes) \ {x} : inodes'[d].bytes = inodes[d].bytes
  BY <1>8, <1>11, <1>12 DEF Directories
<1>18. \A d \in Directories(inodes) \ {x} : \A k : Has(inodes, d, k)' <=> Has(inodes, d, k)
  BY <1>17 DEF Filled, Has
<1>19. \A k : Has(inodes, x, k)' <=> Has(inodes, x, k) \/ k = f
  <2>1. Filled(inodes, x)' = f + 1
    <3>1. f + 1 \in Nat
      BY <1>8, Sizes
    <3>2. PICK m : m = f + 1
      OBVIOUS
    <3>3. (m * ENTRY) \div ENTRY = m
      BY <3>1, <3>2, Multiple
    <3> QED
      BY <1>11, <3>2, <3>3 DEF Filled
  <2>2. \A k \in Slots : k < f + 1 <=> k < f \/ k = f
    BY <1>8, Sizes
  <2> QED
    BY <1>2, <1>8, <2>1, <2>2 DEF Has
<1>20. \A k : Has(inodes, x, k) => entries[x][k].inode # z
  BY <1>9 DEF ListedIn, Has
<1>21. ASSUME NEW y \in Inodes \ {z}, ~inodes[y].free PROVE Owed(y)' <=> Owed(y)
  <2>1. inodes[y].parent \in Directories(inodes) /\ inodes'[y].parent = inodes[y].parent
    BY <1>5, <1>12, <1>21 DEF Rooted
  <2>2. ListedIn(inodes, y)' <=> ListedIn(inodes, y)
    <3>1. CASE inodes[y].parent = x
      <4>1. \A k : Has(inodes, x, k)' /\ entries[x][k].inode = y => Has(inodes, x, k)
        BY <1>9, <1>19
      <4>2. \A k : Has(inodes, x, k) => Has(inodes, x, k)'
        BY <1>19
      <4> QED
        BY <1>4, <2>1, <3>1, <4>1, <4>2 DEF ListedIn
    <3>2. CASE inodes[y].parent # x
      BY <1>4, <1>18, <2>1, <3>2 DEF ListedIn
    <3> QED
      BY <3>1, <3>2
  <2>3. Unlisting(y)' <=> Unlisting(y)
    BY <1>16 DEF Unlisting
  <2> QED
    BY <2>2, <2>3 DEF Owed
<1>22. Owed(z)'
  BY <1>4, <1>8, <1>9, <1>12, <1>19 DEF Owed, ListedIn
<1>23. \A y \in Inodes \ {z} : Handles(y)' \subseteq Handles(y)
  BY <1>13 DEF Handles
<1>24. IF r.op = "creat" THEN Handles(z)' \subseteq {t} ELSE Handles(z)' = {}
  BY <1>9, <1>13 DEF Handles
<1>25. Rooted(inodes)'
  <2>1. ASSUME NEW y \in Inodes, ~inodes'[y].free PROVE inodes'[y].parent \in Directories(inodes)
    BY <1>5, <1>12, <2>1 DEF Rooted
  <2>2. ASSUME NEW d \in Directories(inodes) PROVE \E k \in 0 .. NumSlots : inodes'[d].bytes = k * ENTRY
    <3>1. CASE d = x
      <4>1. f + 1 \in 0 .. NumSlots
        BY <1>8, Sizes
      <4> QED
        BY <1>11, <3>1, <4>1
    <3>2. CASE d # x
      BY <1>5, <1>17, <3>2 DEF Rooted
    <3> QED
      BY <3>1, <3>2
  <2>3. ASSUME NEW d \in Directories(inodes), NEW k \in Slots, Has(inodes, d, k)'
        PROVE  ~inodes'[entries[d][k].inode].free /\ inodes'[entries[d][k].inode].parent = d
    <3>1. CASE Has(inodes, d, k)
      <4>1. entries[d][k].inode \in Inodes
        BY <1>5, <1>17 DEF Shape
      <4> QED
        BY <1>5, <1>12, <3>1, <4>1 DEF Rooted
    <3>2. CASE ~Has(inodes, d, k)
      <4>1. d = x /\ k = f
        BY <1>18, <1>19, <2>3, <3>2
      <4> QED
        BY <1>9, <1>12, <4>1
    <3> QED
      BY <3>1, <3>2
  <2>4. 0 \in Directories(inodes)
    BY <1>5 DEF Rooted
  <2> QED
    BY <1>4, <1>17, <2>1, <2>2, <2>3, <2>4 DEF Rooted
<1>26. DistinctUp'
  <2>1. SUFFICES ASSUME NEW d \in Directories(inodes), NEW i \in Slots, NEW j \in Slots,
                        Doubled(inodes, d, i, j)', i # j
                 PROVE  InHole(d, i, j)'
    BY <1>17 DEF DistinctUp
  <2>2. Doubled(inodes, d, i, j)
    <3>1. Has(inodes, d, i)' /\ Has(inodes, d, j)' /\ entries[d][i].inode = entries[d][j].inode
      BY <1>4, <2>1 DEF Doubled
    <3>2. CASE d # x
      BY <1>18, <3>1, <3>2 DEF Doubled
    <3>3. CASE d = x
      <4>1. i # f /\ j # f
        BY <1>9, <1>19, <1>20, <2>1, <3>1, <3>3
      <4> QED
        BY <1>19, <3>1, <3>3, <4>1 DEF Doubled
    <3> QED
      BY <3>2, <3>3
  <2>3. PICK u \in Users : Removing(th[u]) /\ th[u].on = d /\ Hole(th[u]) \in {i, j}
    BY <1>5, <2>1, <2>2 DEF DistinctUp, InHole
  <2>4. Removing(th'[u]) /\ th'[u].on = d /\ Hole(th'[u]) \in {i, j}
    BY <1>16, <2>3
  <2> QED
    BY <2>4 DEF InHole
<1>27. RefsOK(z)'
  <2>1. Claims(z)' = 1
    BY <1>22 DEF Claims
  <2>2. PICK A, B : A = Handles(z)' /\ B = {}
    OBVIOUS
  <2>3. Cardinality(B) = 0 /\ B \in SUBSET Users
    BY <2>2, FS_EmptySet
  <2>4. CASE r.op = "creat"
    <3>1. A \in SUBSET Users /\ A \subseteq B \cup {t}
      BY <1>24, <2>2, <2>4
    <3>2. Cardinality(A) <= Cardinality(B) + 1 /\ Cardinality(A) \in Nat
      BY <2>3, <3>1, HandleCount
    <3> QED
      BY <1>11, <2>1, <2>2, <2>3, <2>4, <3>2 DEF RefsOK
  <2>5. CASE r.op # "creat"
    <3>1. Cardinality(Handles(z)') = 0 /\ inodes'[z].references = 1
      BY <1>11, <1>24, <2>2, <2>3, <2>5
    <3> QED
      BY <2>1, <3>1 DEF RefsOK
  <2> QED
    BY <2>4, <2>5
<1>28. ASSUME NEW y \in Inodes PROVE RefsOK(y)'
  <2>1. CASE y = z
    BY <1>27, <2>1
  <2>2. CASE y # z
    <3>1. SUFFICES ASSUME ~inodes[y].free PROVE RefsOK(y)'
      BY <1>12 DEF RefsOK
    <3>2. Claims(y)' = Claims(y) /\ RefsOK(y) /\ Claims(y) \in {0, 1}
      BY <1>5, <1>12, <1>21, <2>2, <3>1 DEF TreeInv, Claims
    <3>3. Cardinality(Handles(y)') <= Cardinality(Handles(y)) /\ Cardinality(Handles(y)') \in Nat
          /\ Cardinality(Handles(y)) \in Nat
      BY <1>23, <2>2, HandleCount DEF Handles
    <3>4. inodes'[y].references = inodes[y].references /\ inodes[y].references \in Int
      BY <1>5, <1>11, <2>2 DEF TableOK, InodeOK
    <3> QED
      BY <3>1, <3>2, <3>3, <3>4 DEF RefsOK
  <2> QED
    BY <2>1, <2>2
<1>29. ASSUME NEW u \in Users PROVE HandleOK(u)' /\ cwd'[u] \in Directories(inodes)'
  <2>1. HandleOK(u) /\ FileOK(file[u]) /\ cwd[u] \in Directories(inodes)
    BY <1>4, Here
  <2>2. file[u].inode # -1 => file[u].inode \in Inodes \ {z}
    BY <1>9, <2>1 DEF FileOK, NoFile, Handles
  <2>3. HandleOK(u)'
    <3>1. CASE file'[u] = file[u]
      BY <1>4, <1>12, <1>21, <2>1, <2>2, <3>1 DEF HandleOK
    <3>2. CASE file'[u] # file[u]
      <4>1. file'[u].inode = z
        BY <1>13, <3>2
      <4> QED
        BY <1>9, <1>12, <1>22, <4>1 DEF HandleOK
    <3> QED
      BY <3>1, <3>2
  <2> QED
    BY <1>4, <1>17, <2>1, <2>3
<1>30. TreeInv'
  BY <1>25, <1>26, <1>28, <1>29 DEF TreeInv
<1>31. ASSUME NEW u \in Users \ {t} PROVE LocalInv(u)'
  <2>1. LocalInv(u) /\ Fits(u, th[u]) /\ Legal(th[u]) /\ Works(u, th[u]) /\ MakesOne(th[u])
        /\ cwd[u] \in Directories(inodes)
    BY <1>4, Here DEF Fits
  <2>2. th[u].inode \in Inodes /\ th[u].on \in Inodes
    BY <2>1 DEF Legal
  <2>3. Private(th[u]) => Unknown(th[u].inode) /\ ~inodes[th[u].inode].free /\ th[u].inode # z
    BY <1>1, <1>2, <1>4, <1>7, PrivateIs
  <2>4. Private(th[u]) => Unknown(th[u].inode)'
    BY <1>15, <1>21, <1>23, <2>2, <2>3 DEF Unknown
  <2>5. Creating(th[u]) => Untrodden(th[u].inode)'
    <3>1. Creating(th[u]) => Untrodden(th[u].inode)
      BY <2>1 DEF MakesOne
    <3> QED
      BY <1>4, <1>12, <3>1 DEF Untrodden
  <2>6. th[u].op = "write" => file[u].inode \in Inodes
    <3>1. FileOK(file[u])
      BY <1>4, Here
    <3> QED
      BY <2>1, <3>1 DEF Works, FileOK, NoFile
  <2>7. th[u].op \in NameOps => inodes'[th[u].on].bytes = inodes[th[u].on].bytes
    <3>1. th[u].op \in NameOps => th[u].on # x
      BY <1>1, <1>4, <1>8, OtherPlace
    <3> QED
      BY <1>11, <2>2, <3>1
  <2>8. th[u].op \notin Walks
    BY <1>1, <1>4, NoWalker
  <2>9. Creating(th[u]) => inodes'[th[u].inode].references = inodes[th[u].inode].references
    BY <1>11, <2>2, <2>3 DEF Private
  <2> DEFINE E == {}
  <2>10. \A y : y \notin E
    OBVIOUS
  <2> HIDE DEF E
  <2>11. \A y \in Inodes \ E : /\ inodes'[y].free = inodes[y].free /\ inodes'[y].type = inodes[y].type
                               /\ inodes'[y].parent = inodes[y].parent
    BY <1>12
  <2> QED
    BY <1>4, <1>13, <1>15, <2>2, <2>4, <2>5, <2>6, <2>7, <2>8, <2>9, <2>10, <2>11, OthersKeep
<1>32. ThreadsInv'
  <2>1. \A u, w \in Users : u # w => Apart(u, w)'
    <3>1. Idle.area \subseteq th[t].area
      BY <1>14
    <3> QED
      BY <1>4, <1>14, <3>1, ApartKeeps
  <2>2. LocalInv(t)'
    BY <1>14, <1>15, IdleFits DEF LocalInv
  <2> QED
    BY <1>31, <2>1, <2>2 DEF ThreadsInv
<1>33. inodes'[x].references >= 1
  <2>1. RefsOK(x) /\ Claims(x) = 1 /\ inodes[x].references \in Int
    BY <1>5, <1>8 DEF TreeInv, Claims, TableOK, InodeOK
  <2>2. Cardinality(Handles(x)) \in Nat
    BY HandleCount DEF Handles
  <2> QED
    BY <1>8, <1>9, <1>11, <2>1, <2>2 DEF RefsOK
<1>34. /\ BlocksInv' /\ TableOK(onDisk.inodes)'
       /\ onDisk' = [inodes |-> onDisk'.inodes, free |-> onDisk'.free, super |-> onDisk'.super]
  <2>1. th[t].pc # "made" /\ Idle.pc # "made" /\ UNCHANGED <<freeBlocks, deleted>>
    BY <1>1, <1>4, <1>14
  <2> QED
    BY <1>4, <1>8, <1>11, <1>33, <2>1, DiskUpdated
<1>35. Shape'
  <2>1. freeBlocks' \subseteq Nat /\ TableOK(onDisk.inodes)' /\ TableOK(inodes)'
    BY <1>4, <1>5, <1>11, <1>34 DEF Shape
  <2> QED
    BY <1>4, <1>5, <1>13, <1>34, <2>1 DEF Shape
<1> QED
  BY <1>4, <1>30, <1>32, <1>34, <1>35 DEF IInv

(* The end of inode_write.                                                 *)
LEMMA UpdateStep ==
  ASSUME IInv, NEW t \in Users, Update(t)
  PROVE  IInv'
<1>1. Legal(th[t]) /\ th[t].pc = "update"
  BY Here DEF Update, At, Ready, Fits
<1>2. th[t].op \in {"creat", "mkdir", "unlink", "rmdir", "write"}
  BY <1>1 DEF Legal, Writing
<1> QED
  BY <1>2, UpdateMovedKeeps, UpdateFileKeeps, UpdateNewKeeps

-----------------------------------------------------------------------------
(* The end of minifile_unlink and _rmdir: the directory loses its last     *)
(* entry, which is the removed one or a copy of the one before.            *)
ShorterTable(r, x, z) ==
  /\ TableOK(inodes)'
  /\ \A y \in Inodes : Same(inodes, inodes', y)
  /\ \A y \in Inodes \ {x} : inodes'[y].bytes = inodes[y].bytes
  /\ inodes'[x].bytes = inodes[x].bytes - ENTRY
  /\ \A y \in Inodes \ {z} : inodes'[y].references = inodes[y].references
  /\ inodes'[z].references = IF r.op = "rmdir" THEN inodes[z].references ELSE inodes[z].references - 1

(* A directory that is one entry shorter, and the count of what it lost.   *)
LEMMA ShorterTableIs ==
  ASSUME TableOK(inodes), NEW r, NEW x \in Inodes, NEW z \in Inodes,
         NEW a, a = BytesSet(inodes, x, inodes[x].bytes - ENTRY),
         inodes' = IF r.op = "rmdir" THEN a ELSE ReferencesAre(a, z, a[z].references - 1)
  PROVE  ShorterTable(r, x, z)
<1>1. PICK v : v = inodes[x].bytes - ENTRY
  OBVIOUS
<1>2. /\ TableOK(a) /\ a[x].bytes = v
      /\ \A y \in Inodes : Same(inodes, a, y) /\ a[y].references = inodes[y].references
      /\ \A y \in Inodes \ {x} : a[y].bytes = inodes[y].bytes
  BY <1>1, TableBytes
<1>3. PICK b : b = inodes'
  OBVIOUS
<1>4. CASE r.op # "rmdir"
  <2>1. PICK w : w = a[z].references - 1
    OBVIOUS
  <2>2. w \in Int
    BY <1>2, <2>1 DEF TableOK, InodeOK
  <2>3. b = ReferencesAre(a, z, w)
    BY <1>3, <1>4, <2>1
  <2>4. /\ TableOK(b) /\ b[z].references = w
        /\ \A y \in Inodes : Same(a, b, y) /\ b[y].bytes = a[y].bytes
        /\ \A y \in Inodes \ {z} : b[y].references = a[y].references
    BY <1>2, <2>2, <2>3, TableReferences
  <2>5. \A y \in Inodes : Same(inodes, b, y)
    BY <1>2, <2>4 DEF Same
  <2>6. TableOK(inodes)'
    BY <1>3, <2>4 DEF TableOK
  <2>7. w = inodes[z].references - 1
    BY <1>2, <2>1
  <2> QED
    BY <1>1, <1>2, <1>3, <1>4, <2>4, <2>5, <2>6, <2>7 DEF ShorterTable
<1>5. CASE r.op = "rmdir"
  <2>1. TableOK(inodes)'
    BY <1>2, <1>5 DEF TableOK
  <2> QED
    BY <1>1, <1>2, <1>5, <2>1 DEF ShorterTable
<1> QED
  BY <1>4, <1>5

(* What the call knows when no entry is left to be moved.                  *)
LEMMA LastEntry ==
  ASSUME IInv, boot = "ready", NEW t \in Users, NEW r, r = th[t], r.pc = "shift",
         ~(r.i < Filled(inodes, r.on)),
         NEW x, x = r.on, NEW z, z = r.inode, NEW f, f = r.i - 1
  PROVE  /\ Removing(r) /\ r.op \in {"unlink", "rmdir"} /\ r.op \in NameOps
         /\ x = cwd[t] /\ x \in Directories(inodes) /\ x \in Inodes /\ x \in r.area
         /\ f \in 0 .. NumSlots - 1 /\ f \in Slots /\ Filled(inodes, x) = f + 1
         /\ inodes[x].bytes = (f + 1) * ENTRY
         /\ z \in Inodes /\ ~inodes[z].free /\ inodes[z].parent = x
         /\ r.op = "unlink" => inodes[z].type = "REGULARFILE"
         /\ \A k \in Slots : Has(inodes, x, k) /\ k # f => entries[x][k].inode # z
         /\ \/ entries[x][f].inode = z
            \/ f - 1 \in Slots /\ entries[x][f - 1].inode = entries[x][f].inode
<1>1. Fits(t, r) /\ Legal(r) /\ Works(t, r) /\ RemovesOne(r) /\ Rooted(inodes)
  BY Here DEF Fits, IInv, TreeInv
<1>2. r.op \in {"unlink", "rmdir"} /\ r.op \in NameOps /\ Removing(r) /\ Hole(r) = f /\ ~Writing(r)
  BY <1>1 DEF Legal, NameOps, Removing, Hole, Writing, Waits
<1>3. x = cwd[t] /\ x \in Directories(inodes) /\ x \in Inodes /\ x \in r.area
  BY <1>1, <1>2, Here DEF Works, Directories
<1>4. Filled(inodes, x) \in 0 .. NumSlots /\ inodes[x].bytes = Filled(inodes, x) * ENTRY
  BY <1>1, <1>3, FilledIs
<1>5. r.i \in Nat /\ r.i > 0 /\ f < Filled(inodes, x)
  BY <1>1, <1>2 DEF RemovesOne, Legal
<1>6. r.i = Filled(inodes, x) /\ f + 1 = r.i /\ f \in 0 .. NumSlots - 1 /\ f \in Slots
      /\ (f > 0 => f - 1 \in Slots)
  <2>1. NumSlots \in Nat /\ Slots = 0 .. NumSlots - 1
    BY Sizes
  <2>2. f = r.i - 1 /\ ~(r.i < Filled(inodes, x)) /\ Filled(inodes, x) \in Int
    BY <1>4
  <2>3. r.i = Filled(inodes, x) /\ f + 1 = r.i
    BY <1>5, <2>2
  <2> QED
    BY <1>4, <1>5, <2>1, <2>2, <2>3
<1>7. /\ z \in Inodes /\ ~inodes[z].free /\ inodes[z].parent = x
      /\ r.op = "unlink" => inodes[z].type = "REGULARFILE"
      /\ \A k \in Slots : Has(inodes, x, k) /\ k # f => entries[x][k].inode # z
      /\ \/ entries[x][f].inode = z
         \/ f > 0 /\ entries[x][f - 1].inode = entries[x][f].inode
  BY <1>1, <1>2 DEF RemovesOne, Legal
<1> QED
  BY <1>2, <1>3, <1>4, <1>6, <1>7

(* The last entry has moved up: the removed inode is listed no more.       *)
LEMMA ShiftEndKeeps ==
  ASSUME IInv, NEW t \in Users, Shift(t), ~(th[t].i < Entries(th[t].on))
  PROVE  IInv'
<1>1. PICK r : r = th[t]
  OBVIOUS
<1>2. PICK x, z, f : x = r.on /\ z = r.inode /\ f = r.i - 1
  OBVIOUS
<1>3. PICK s : /\ th' = [th EXCEPT ![t] = s]
               /\ \/ s = Idle
                  \/ r.op # "rmdir" /\ inodes[z].references = 1
                       /\ s = [[r EXCEPT !.i = 0] EXCEPT !.pc = "free"]
                  \/ r.op # "rmdir" /\ r.mode = "w"
                       /\ s = [[r EXCEPT !.op = "creat", !.i = 0] EXCEPT !.pc = "scan"]
  BY <1>1, <1>2 DEF Shift, Goto, Return, AfterUnlink
<1>4. /\ boot = "ready" /\ r.pc = "shift" /\ ~(r.i < Filled(inodes, r.on))
      /\ UNCHANGED <<freeBlocks, onDisk, entries, cwd, file, boot, active>> /\ deleted' = TRUE
  BY <1>1 DEF Shift, At, Ready, bitmap, handles, rest, Entries, Filled
<1>5. Shape /\ TreeInv /\ Rooted(inodes) /\ DistinctUp /\ TableOK(inodes) /\ BlocksInv
  BY <1>4 DEF IInv, Shape, TreeInv
<1>6. Fits(t, r) /\ Legal(r) /\ Works(t, r) /\ DOMAIN r = Fields
  BY <1>1, <1>4, Here DEF Fits
<1>7. /\ Removing(r) /\ r.op \in {"unlink", "rmdir"} /\ r.op \in NameOps
      /\ x = cwd[t] /\ x \in Directories(inodes) /\ x \in Inodes /\ x \in r.area
      /\ f \in 0 .. NumSlots - 1 /\ f \in Slots /\ Filled(inodes, x) = f + 1
      /\ inodes[x].bytes = (f + 1) * ENTRY
      /\ z \in Inodes /\ ~inodes[z].free /\ inodes[z].parent = x
      /\ r.op = "unlink" => inodes[z].type = "REGULARFILE"
      /\ \A k \in Slots : Has(inodes, x, k) /\ k # f => entries[x][k].inode # z
      /\ \/ entries[x][f].inode = z
         \/ f - 1 \in Slots /\ entries[x][f - 1].inode = entries[x][f].inode
  BY <1>1, <1>2, <1>4, LastEntry
<1>8. /\ TableOK(inodes)' /\ \A y \in Inodes : Same(inodes, inodes', y)
      /\ \A y \in Inodes \ {x} : inodes'[y].bytes = inodes[y].bytes
      /\ inodes'[x].bytes = inodes[x].bytes - ENTRY
      /\ \A y \in Inodes \ {z} : inodes'[y].references = inodes[y].references
      /\ inodes'[z].references = (IF r.op = "rmdir" THEN inodes[z].references ELSE inodes[z].references - 1)
  <2>1. PICK a : a = BytesSet(inodes, x, inodes[x].bytes - ENTRY)
    OBVIOUS
  <2>2. inodes' = IF r.op = "rmdir" THEN a ELSE ReferencesAre(a, z, a[z].references - 1)
    <3>1. a = [inodes EXCEPT ![x].bytes = @ - ENTRY]
      BY <1>5, <1>7, <2>1 DEF BytesSet, TableOK
    <3>2. inodes' = IF r.op = "rmdir" THEN a ELSE [a EXCEPT ![z].references = @ - 1]
      BY <1>1, <1>2, <1>4, <3>1 DEF Shift, Entries, Filled
    <3>3. TableOK(a)
      BY <1>5, <1>7, <2>1, TableBytes
    <3>4. [a EXCEPT ![z].references = @ - 1] = [a EXCEPT ![z].references = a[z].references - 1]
      BY <1>7, <3>3 DEF TableOK
    <3> QED
      BY <3>2, <3>4 DEF ReferencesAre
  <2> QED
    BY <1>5, <1>7, <2>1, <2>2, ShorterTableIs DEF ShorterTable
<1>9. \A y \in Inodes : inodes'[y].free = inodes[y].free /\ inodes'[y].type = inodes[y].type
                        /\ inodes'[y].parent = inodes[y].parent
  BY <1>8 DEF Same
<1>10. /\ Removing(th[t]) /\ ~Removing(s) /\ ~Creating(s) /\ ~Writing(s) /\ s.area \subseteq r.area
       /\ s.pc \in {"idle", "free", "scan"} /\ (Private(s) => s.pc = "free" /\ s.inode = z)
  <2>1. CASE s = Idle
    BY <1>1, <1>7, <2>1 DEF Removing, Writing, Waits, Idle, Private, Creating
  <2>2. CASE s # Idle
    <3>1. s.pc \in {"scan", "free"} /\ s.area = r.area /\ s.inode = r.inode
      BY <1>3, <1>6, <2>2 DEF Fields
    <3> QED
      BY <1>1, <1>2, <1>7, <3>1 DEF Removing, Writing, Waits, Private, Creating
  <2> QED
    BY <2>1, <2>2
<1>11. th'[t] = s /\ \A u \in Users \ {t} : th'[u] = th[u]
  BY <1>3, <1>5 DEF Shape
<1>12. \A u \in Users : Removing(th'[u]) <=> Removing(th[u]) /\ u # t
  BY <1>10, <1>11
<1>13. \A u \in Users \ {t} : Removing(th[u]) => th[u].on # x
  <2>1. SUFFICES ASSUME NEW u \in Users \ {t}, Removing(th[u]), th[u].on = x PROVE FALSE
    OBVIOUS
  <2>2. th[u].op \in NameOps
    BY <2>1 DEF Removing, NameOps
  <2> QED
    BY <1>1, <1>2, <1>4, <1>7, <2>1, <2>2, OneRemover
<1>14. \A u \in Users \ {t} : Removing(th[u]) => th[u].inode # z
  <2>1. SUFFICES ASSUME NEW u \in Users \ {t}, Removing(th[u]), th[u].inode = z PROVE FALSE
    OBVIOUS
  <2>2. RemovesOne(th[u])
    BY <1>4, Here DEF Fits
  <2>3. th[u].on = x
    BY <1>7, <2>1, <2>2 DEF RemovesOne
  <2> QED
    BY <1>13, <2>1, <2>3
<1>15. Unlisting(z) /\ Owed(z)
  BY <1>1, <1>2, <1>7 DEF Unlisting, Owed
<1>16. /\ Directories(inodes)' = Directories(inodes)
       /\ \A d \in Directories(inodes) : d \in Inodes
       /\ \A d \in Directories(inodes) \ {x} : inodes'[d].bytes = inodes[d].bytes
  BY <1>8, <1>9 DEF Directories
<1>17. \A d \in Directories(inodes) \ {x} : \A k : Has(inodes, d, k)' <=> Has(inodes, d, k)
  BY <1>16 DEF Filled, Has
<1>18. inodes'[x].bytes = f * ENTRY /\ Filled(inodes, x)' = f
  <2>1. f \in Nat
    BY <1>7, Sizes
  <2>2. (f * ENTRY) \div ENTRY = f /\ (f + 1) * ENTRY = f * ENTRY + ENTRY /\ f * ENTRY \in Nat /\ ENTRY \in Nat
    BY <2>1, Multiple, Sizes
  <2>3. inodes'[x].bytes = f * ENTRY
    BY <1>7, <1>8, <2>2
  <2> QED
    BY <2>2, <2>3 DEF Filled
<1>19. \A k : Has(inodes, x, k)' <=> Has(inodes, x, k) /\ k # f
  <2>1. \A k \in Slots : k < f <=> k < f + 1 /\ k # f
    BY <1>7, Sizes
  <2> QED
    BY <1>7, <1>18, <2>1 DEF Has
<1>20. ASSUME NEW y \in Inodes \ {z}, ~inodes[y].free PROVE Owed(y)' <=> Owed(y)
  <2>1. inodes[y].parent \in Directories(inodes) /\ inodes'[y].parent = inodes[y].parent
    BY <1>5, <1>9, <1>20 DEF Rooted
  <2>2. ListedIn(inodes, y)' <=> ListedIn(inodes, y)
    <3>1. CASE inodes[y].parent = x
      <4>1. ASSUME NEW k \in Slots, Has(inodes, x, k), entries[x][k].inode = y
            PROVE  \E j \in Slots : Has(inodes, x, j)' /\ entries[x][j].inode = y
        <5>1. CASE k # f
          BY <1>19, <4>1, <5>1
        <5>2. CASE k = f
          <6>1. f - 1 \in Slots /\ entries[x][f - 1].inode = y /\ f - 1 # f /\ f - 1 < f
            BY <1>7, <4>1, <5>2
          <6>2. Has(inodes, x, f - 1)'
            BY <1>18, <6>1 DEF Has
          <6> QED
            BY <6>1, <6>2
        <5> QED
          BY <5>1, <5>2
      <4>2. \A k : Has(inodes, x, k)' => Has(inodes, x, k)
        BY <1>19
      <4> QED
        BY <1>4, <2>1, <3>1, <4>1, <4>2 DEF ListedIn
    <3>2. CASE inodes[y].parent # x
      BY <1>4, <1>17, <2>1, <3>2 DEF ListedIn
    <3> QED
      BY <3>1, <3>2
  <2>3. Unlisting(y)' <=> Unlisting(y)
    <3>1. th[t].inode # y
      BY <1>1, <1>2, <1>20
    <3> QED
      BY <1>11, <1>12, <3>1 DEF Unlisting
  <2> QED
    BY <2>2, <2>3 DEF Owed
<1>21. ~Owed(z)'
  <2>1. ~ListedIn(inodes, z)'
    <3>1. inodes'[z].parent = x
      BY <1>7, <1>9
    <3> QED
      BY <1>4, <1>7, <1>19, <3>1 DEF ListedIn
  <2>2. ~Unlisting(z)'
    BY <1>11, <1>12, <1>14 DEF Unlisting
  <2> QED
    BY <2>1, <2>2 DEF Owed
<1>22. \A y : Handles(y)' = Handles(y)
  BY <1>4 DEF Handles
<1>23. Rooted(inodes)'
  <2>1. ASSUME NEW y \in Inodes, ~inodes'[y].free PROVE inodes'[y].parent \in Directories(inodes)
    BY <1>5, <1>9, <2>1 DEF Rooted
  <2>2. ASSUME NEW d \in Directories(inodes) PROVE \E k \in 0 .. NumSlots : inodes'[d].bytes = k * ENTRY
    <3>1. CASE d = x
      <4>1. f \in 0 .. NumSlots
        BY <1>7, Sizes
      <4> QED
        BY <1>18, <3>1, <4>1
    <3>2. CASE d # x
      BY <1>5, <1>16, <3>2 DEF Rooted
    <3> QED
      BY <3>1, <3>2
  <2>3. ASSUME NEW d \in Directories(inodes), NEW k \in Slots, Has(inodes, d, k)'
        PROVE  ~inodes'[entries[d][k].inode].free /\ inodes'[entries[d][k].inode].parent = d
    <3>1. Has(inodes, d, k)
      BY <1>17, <1>19, <2>3
    <3>2. entries[d][k].inode \in Inodes
      BY <1>5, <1>16 DEF Shape
    <3> QED
      BY <1>5, <1>9, <3>1, <3>2 DEF Rooted
  <2>4. 0 \in Directories(inodes)
    BY <1>5 DEF Rooted
  <2> QED
    BY <1>4, <1>16, <2>1, <2>2, <2>3, <2>4 DEF Rooted
<1>24. DistinctUp'
  <2>1. SUFFICES ASSUME NEW d \in Directories(inodes), NEW i \in Slots, NEW j \in Slots,
                        Doubled(inodes, d, i, j)', i # j
                 PROVE  InHole(d, i, j)'
    BY <1>16 DEF DistinctUp
  <2>2. Doubled(inodes, d, i, j) /\ (d = x => i # f /\ j # f)
    <3>1. Has(inodes, d, i)' /\ Has(inodes, d, j)' /\ entries[d][i].inode = entries[d][j].inode
      BY <1>4, <2>1 DEF Doubled
    <3> QED
      BY <1>17, <1>19, <3>1 DEF Doubled
  <2>3. PICK u \in Users : Removing(th[u]) /\ th[u].on = d /\ Hole(th[u]) \in {i, j}
    BY <1>5, <2>1, <2>2 DEF DistinctUp, InHole
  <2>4. u # t
    <3>1. Hole(r) = f
      BY <1>2, <1>4 DEF Hole
    <3> QED
      BY <1>1, <1>2, <2>2, <2>3, <3>1
  <2>5. Removing(th'[u]) /\ th'[u].on = d /\ Hole(th'[u]) \in {i, j}
    BY <1>11, <2>3, <2>4
  <2> QED
    BY <2>5 DEF InHole
<1>25. ASSUME NEW y \in Inodes PROVE RefsOK(y)'
  <2>1. SUFFICES ASSUME ~inodes[y].free PROVE RefsOK(y)'
    BY <1>9 DEF RefsOK
  <2>2. RefsOK(y) /\ Handles(y)' = Handles(y) /\ inodes[y].references \in Int /\ Cardinality(Handles(y)) \in Nat
    <3>1. Cardinality(Handles(y)) \in Nat
      BY HandleCount DEF Handles
    <3> QED
      BY <1>5, <1>22, <3>1 DEF TreeInv, TableOK, InodeOK
  <2>3. CASE y # z
    <3>1. Claims(y)' = Claims(y) /\ inodes'[y].references = inodes[y].references
      BY <1>8, <1>9, <1>20, <2>1, <2>3 DEF Claims
    <3> QED
      BY <1>9, <2>1, <2>2, <3>1 DEF RefsOK
  <2>4. CASE y = z
    <3>1. Claims(z) = 1
      BY <1>15 DEF Claims
    <3>2. CASE r.op = "rmdir"
      <4>1. Claims(z)' \in {0, 1} /\ inodes'[z].references = inodes[z].references
        BY <1>8, <3>2 DEF Claims
      <4> QED
        BY <2>1, <2>2, <2>4, <3>1, <4>1 DEF RefsOK
    <3>3. CASE r.op # "rmdir"
      <4>1. inodes[z].type = "REGULARFILE"
        BY <1>7, <3>3
      <4>2. Claims(z)' = 0 /\ inodes'[z].references = inodes[z].references - 1
        BY <1>7, <1>8, <1>9, <1>21, <3>3, <4>1 DEF Claims
      <4> QED
        BY <2>1, <2>2, <2>4, <3>1, <4>2 DEF RefsOK
    <3> QED
      BY <3>2, <3>3
  <2> QED
    BY <2>3, <2>4
<1>26. ASSUME NEW u \in Users PROVE HandleOK(u)' /\ cwd'[u] \in Directories(inodes)'
  <2>1. HandleOK(u) /\ FileOK(file[u]) /\ cwd[u] \in Directories(inodes)
    BY <1>4, Here
  <2>2. file[u].inode # -1 => file[u].inode \in Inodes
    BY <2>1 DEF FileOK, NoFile
  <2> QED
    BY <1>4, <1>9, <1>16, <2>1, <2>2 DEF HandleOK
<1>27. TreeInv'
  BY <1>23, <1>24, <1>25, <1>26 DEF TreeInv
<1>28. \A u \in Users \ {t} : Private(th[u]) => th[u].inode # z
  <2>1. SUFFICES ASSUME NEW u \in Users \ {t}, Private(th[u]) PROVE th[u].inode # z
    OBVIOUS
  <2>2. Unknown(th[u].inode)
    BY <1>4, <2>1, PrivateIs
  <2> QED
    BY <1>15, <2>2 DEF Unknown
<1>29. ASSUME NEW u \in Users \ {t} PROVE LocalInv(u)'
  <2>1. LocalInv(u) /\ Fits(u, th[u]) /\ Legal(th[u]) /\ Works(u, th[u]) /\ MakesOne(th[u])
        /\ cwd[u] \in Directories(inodes)
    BY <1>4, Here DEF Fits
  <2>2. th[u].inode \in Inodes /\ th[u].on \in Inodes
    BY <2>1 DEF Legal
  <2>3. Private(th[u]) => Unknown(th[u].inode) /\ ~inodes[th[u].inode].free /\ th[u].inode # z
    BY <1>4, <1>28, PrivateIs
  <2>4. Private(th[u]) => Unknown(th[u].inode)'
    BY <1>11, <1>20, <1>22, <2>2, <2>3 DEF Unknown
  <2>5. Creating(th[u]) => Untrodden(th[u].inode)'
    <3>1. Creating(th[u]) => Untrodden(th[u].inode)
      BY <2>1 DEF MakesOne
    <3> QED
      BY <1>4, <1>9, <1>11, <3>1 DEF Untrodden
  <2>6. th[u].op = "write" => file[u].inode \in Inodes
    <3>1. FileOK(file[u])
      BY <1>4, Here
    <3> QED
      BY <2>1, <3>1 DEF Works, FileOK, NoFile
  <2>7. th[u].op \in NameOps => inodes'[th[u].on].bytes = inodes[th[u].on].bytes
    <3>1. th[u].op \in NameOps => th[u].on # x
      BY <1>1, <1>4, <1>7, OtherPlace
    <3> QED
      BY <1>8, <2>2, <3>1
  <2>8. th[u].op \notin Walks
    BY <1>1, <1>4, NoWalker
  <2>9. Creating(th[u]) => inodes'[th[u].inode].references = inodes[th[u].inode].references
    BY <1>8, <2>2, <2>3 DEF Private
  <2> DEFINE E == {}
  <2>10. \A y : y \notin E
    OBVIOUS
  <2> HIDE DEF E
  <2>11. \A y \in Inodes \ E : /\ inodes'[y].free = inodes[y].free /\ inodes'[y].type = inodes[y].type
                               /\ inodes'[y].parent = inodes[y].parent
    BY <1>9
  <2> QED
    BY <1>4, <1>11, <2>2, <2>4, <2>5, <2>6, <2>7, <2>8, <2>9, <2>10, <2>11, OthersKeep
<1>30. Fits(t, s)'
  <2>1. CASE s = Idle
    BY <2>1, IdleFits
  <2>2. CASE s # Idle
    <3>1. r.op = "unlink"
      BY <1>3, <1>7, <2>2
    <3>2. /\ DOMAIN s = Fields /\ s.mode = r.mode /\ s.area = r.area /\ s.on = r.on /\ s.i = 0
          /\ s.inode = r.inode /\ s.entry = r.entry /\ s.target = r.target
      BY <1>3, <1>6, <2>2 DEF Fields
    <3>3. \/ s.pc = "free" /\ s.op = "unlink" /\ inodes[z].references = 1
          \/ s.pc = "scan" /\ s.op = "creat" /\ r.mode = "w"
      <4>1. CASE s = [[r EXCEPT !.i = 0] EXCEPT !.pc = "free"] /\ inodes[z].references = 1
        BY <1>6, <3>1, <4>1 DEF Fields
      <4>2. CASE s = [[r EXCEPT !.op = "creat", !.i = 0] EXCEPT !.pc = "scan"] /\ r.mode = "w"
        BY <1>6, <4>2 DEF Fields
      <4> QED
        BY <1>3, <2>2, <4>1, <4>2
    <3>4. Legal(s)
      BY <1>4, <1>6, <3>1, <3>2, <3>3 DEF Legal, Pcs, Waits, Writing, NameOps, Walks
    <3>5. r.on = cwd[t] /\ r.on \in r.area
      BY <1>6, <1>7 DEF Works
    <3>6. Filled(inodes, r.on)' < NumSlots
      BY <1>2, <1>7, <1>18, Sizes
    <3>7. Works(t, s)'
      BY <1>4, <1>10, <3>2, <3>3, <3>5, <3>6 DEF Works, Waits, NameOps, Walks
    <3>8. FreesOne(s)'
      <4>1. SUFFICES ASSUME s.pc = "free" PROVE Unknown(z)'
        BY <1>2, <1>4, <1>7, <1>9, <3>1, <3>2 DEF FreesOne
      <4>2. inodes[z].references = 1
        BY <3>3, <4>1
      <4>3. Handles(z) = {}
        <5>1. RefsOK(z) /\ Claims(z) = 1
          BY <1>5, <1>7, <1>15 DEF TreeInv, Claims
        <5>2. IsFiniteSet(Handles(z)) /\ Cardinality(Handles(z)) \in Nat
          BY MiniFileAssumption, FS_Subset, FS_CardinalityType DEF Handles
        <5>3. Cardinality(Handles(z)) = 0
          BY <1>7, <4>2, <5>1, <5>2 DEF RefsOK
        <5> QED
          BY <5>2, <5>3, FS_EmptySet
      <4> QED
        BY <1>21, <1>22, <4>3 DEF Unknown
    <3> QED
      BY <1>10, <3>4, <3>7, <3>8 DEF Fits, RemovesOne, MakesOne
  <2> QED
    BY <2>1, <2>2
<1>31. ThreadsInv'
  <2>1. \A u, w \in Users : u # w => Apart(u, w)'
    <3>1. /\ th' = [th EXCEPT ![t] = s] /\ s.area \subseteq th[t].area
          /\ \A u \in Users \ {t} : Private(s) /\ Private(th[u]) => s.inode # th[u].inode
      BY <1>1, <1>3, <1>10, <1>28
    <3>2. boot = "ready"
      BY <1>4
    <3> QED
      BY <3>1, <3>2, ApartKeeps
  <2>2. LocalInv(t)'
    <3>1. t \in active
      BY <1>1, <1>4, Here
    <3> QED
      BY <1>4, <1>11, <1>30, <3>1 DEF LocalInv
  <2> QED
    BY <1>29, <2>1, <2>2 DEF ThreadsInv
<1>32. BlocksInv'
  <2>1. \A y \in Inodes : inodes'[y].free = inodes[y].free /\ inodes'[y].direct = inodes[y].direct
    BY <1>8 DEF Same
  <2>2. NoBlockShared(inodes, freeBlocks) /\ freeBlocks' = freeBlocks
    BY <1>4, <1>5 DEF BlocksInv
  <2>3. NoBlockShared(inodes, freeBlocks)'
    BY <2>1, <2>2 DEF NoBlockShared
  <2> QED
    BY <1>4, <1>5, <2>3 DEF BlocksInv
<1>33. Shape'
  BY <1>3, <1>4, <1>5, <1>8 DEF Shape
<1> QED
  BY <1>4, <1>27, <1>31, <1>32, <1>33 DEF IInv

(* A round of the loop that moves the entries up.                          *)
LEMMA ShiftStep ==
  ASSUME IInv, NEW t \in Users, Shift(t)
  PROVE  IInv'
<1>1. CASE ~(th[t].i < Entries(th[t].on))
  BY <1>1, ShiftEndKeeps
<1>2. CASE th[t].i < Entries(th[t].on)
  <2>1. PICK b : b = inodes[th[t].on].direct[0]
    OBVIOUS
  <2>2. /\ boot = "ready" /\ th[t].pc = "shift" /\ get_data_block(t, th[t], b, "shift")
        /\ Quiet /\ UNCHANGED handles /\ th[t].i < Filled(inodes, th[t].on)
    BY <1>2, <2>1 DEF Shift, At, Ready, Quiet, bitmap, handles, rest, Entries, Filled
  <2> QED
    BY <2>2, WaitKeeps
<1> QED
  BY <1>1, <1>2

-----------------------------------------------------------------------------
(* A thread goes on with the block it waited for.                          *)
LEMMA OpenedKeeps ==
  ASSUME IInv, boot = "ready", NEW t \in Users, Waits(th[t], "entry"), Entry(t, th[t]),
         th[t].op = "open", th[t].mode # "w",
         entries[th[t].on][th[t].i].name = Head(th[t].path),
         UNCHANGED <<freeBlocks, onDisk, entries, cwd, boot, active, deleted>>
  PROVE  IInv'
<1>1. PICK r : r = th[t]
  OBVIOUS
<1>2. PICK x : x = entries[r.on][r.i].inode
  OBVIOUS
<1>3. PICK q : q = [r EXCEPT !.inode = x]
  OBVIOUS
<1>4. DOMAIN r = Fields
  BY <1>1, Here
<1>5. q.inode = x /\ q.mode = r.mode
  BY <1>3, <1>4 DEF Fields
<1>6. Opens(t, q)
  <2>1. Opens(t, [th[t] EXCEPT !.inode = entries[th[t].on][th[t].i].inode])
    BY DEF Entry, Walks
  <2> QED
    BY <1>1, <1>2, <1>3, <2>1
<1>7. PICK ty, pos : /\ Refers(q.inode) /\ Return(t)
                     /\ file' = [file EXCEPT ![t] = [inode |-> q.inode, type |-> ty, position |-> pos]]
  BY <1>1, <1>5, <1>6 DEF Opens
<1>8. Refers(x) /\ file' = [file EXCEPT ![t] = [inode |-> x, type |-> ty, position |-> pos]]
  BY <1>5, <1>7
<1>9. x = entries[th[t].on][th[t].i].inode /\ Return(t)
  BY <1>1, <1>2, <1>7
<1> QED
  BY <1>8, <1>9, OpensKeeps

(* An entry was read: another one, or the one that was looked for.         *)
LEMMA FoundKeeps ==
  ASSUME IInv, boot = "ready", NEW t \in Users, Waits(th[t], "entry"), Entry(t, th[t]),
         UNCHANGED <<freeBlocks, onDisk, entries, cwd, boot, active, deleted>>
  PROVE  IInv'
<1>1. CASE th[t].op = "open" /\ th[t].mode # "w" /\ entries[th[t].on][th[t].i].name = Head(th[t].path)
  BY <1>1, OpenedKeeps
<1>2. CASE ~(th[t].op = "open" /\ th[t].mode # "w" /\ entries[th[t].on][th[t].i].name = Head(th[t].path))
  <2>1. PICK r : r = th[t]
    OBVIOUS
  <2>2. DOMAIN r = Fields
    BY <2>1, Here
  <2>3. PICK q : q = [r EXCEPT !.inode = entries[r.on][r.i].inode]
    OBVIOUS
  <2>4. q.mode = r.mode
    BY <2>2, <2>3 DEF Fields
  <2>5. UNCHANGED <<inodes, file>>
    <3>1. CASE r.op = "open" /\ entries[r.on][r.i].name = Head(r.path)
      <4>1. Opens(t, [th[t] EXCEPT !.inode = entries[th[t].on][th[t].i].inode])
        BY <2>1, <3>1 DEF Entry, Walks
      <4>2. Opens(t, q) /\ q.mode = "w"
        BY <1>2, <2>1, <2>3, <2>4, <3>1, <4>1
      <4> QED
        BY <4>2 DEF Opens
    <3>2. CASE ~(r.op = "open" /\ entries[r.on][r.i].name = Head(r.path))
      BY <2>1, <3>2 DEF Entry, Walks
    <3> QED
      BY <3>1, <3>2
  <2>6. Quiet /\ UNCHANGED handles
    BY <2>5 DEF Quiet, handles
  <2> QED
    BY <1>2, <2>6, EntryKeeps
<1> QED
  BY <1>1, <1>2

(* A thread gets its block and goes on.                                    *)
LEMMA WakeStep ==
  ASSUME IInv, NEW t \in Users, Wake(t)
  PROVE  IInv'
<1>1. /\ boot = "ready" /\ th[t].pc = "wait"
      /\ UNCHANGED <<freeBlocks, onDisk, cwd, boot, active, deleted>>
  BY DEF Wake, At, Ready, bitmap, rest
<1>2. th[t].then \in {"entry", "shift", "put", "data", "list"}
  BY <1>1, Here DEF Fits, Legal
<1>3. CASE th[t].then = "entry"
  <2>1. Entry(t, th[t]) /\ UNCHANGED entries
    BY <1>3 DEF Wake
  <2> QED
    BY <1>1, <1>3, <2>1, FoundKeeps DEF Waits
<1>4. CASE th[t].then = "shift"
  <2>1. /\ BeginWrite(t, [th[t] EXCEPT !.entry = entries[th[t].on][th[t].i]],
                      th[t].on, (th[t].i - 1) * ENTRY, ENTRY)
        /\ UNCHANGED <<inodes, file, entries>>
    BY <1>4 DEF Wake
  <2>2. Quiet /\ UNCHANGED handles
    BY <1>1, <2>1 DEF Quiet, handles
  <2> QED
    BY <1>1, <1>4, <2>1, <2>2, MoveEntryKeeps DEF Waits
<1>5. CASE th[t].then = "put"
  <2>1. PutBlock(t, th[t]) /\ UNCHANGED <<inodes, file>>
    BY <1>5 DEF Wake
  <2>2. Putting(th[t])
    BY <1>1, <1>5 DEF Putting, Waits
  <2> QED
    BY <1>1, <2>1, <2>2, PutKeeps
<1>6. CASE th[t].then = "data"
  <2>1. Copies(t, th[t]) /\ UNCHANGED <<inodes, entries>>
    BY <1>6 DEF Wake
  <2>2. Quiet
    BY <1>1, <2>1 DEF Quiet
  <2> QED
    BY <1>1, <1>6, <2>1, <2>2, CopiesKeeps DEF Waits
<1>7. CASE th[t].then = "list"
  <2>1. Goto(t, [th[t] EXCEPT !.i = @ + 1], "scan") /\ UNCHANGED <<inodes, file, entries>>
    BY <1>7 DEF Wake
  <2>2. Quiet /\ UNCHANGED handles
    BY <1>1, <2>1 DEF Quiet, handles
  <2> QED
    BY <1>1, <1>7, <2>1, <2>2, ListKeeps DEF Waits
<1> QED
  BY <1>2, <1>3, <1>4, <1>5, <1>6, <1>7

-----------------------------------------------------------------------------
(* Booting, and crashing.                                                  *)
LEMMA SameImage ==
  ASSUME UNCHANGED <<onDisk, entries>>, Rooted(onDisk.inodes), DistinctOn(onDisk.inodes),
         NoBlockShared(onDisk.inodes, onDisk.free)
  PROVE  Rooted(onDisk.inodes)' /\ DistinctOn(onDisk.inodes)' /\ NoBlockShared(onDisk.inodes, onDisk.free)'
<1>1. Rooted(onDisk.inodes)'
  BY DEF Rooted, Has, Filled, Directories
<1>2. DistinctOn(onDisk.inodes)'
  BY DEF DistinctOn, Doubled, Has, Filled, Directories
<1>3. NoBlockShared(onDisk.inodes, onDisk.free)'
  BY DEF NoBlockShared
<1> QED
  BY <1>1, <1>2, <1>3

(* The superblock and the inodes are read.                                 *)
LEMMA StartStep ==
  ASSUME IInv, setup_superblock \/ setup_inode
  PROVE  IInv'
<1>1. /\ boot # "ready" /\ boot' # "ready"
      /\ UNCHANGED <<onDisk, entries, active, th, cwd, file, deleted, freeBlocks>>
      /\ UNCHANGED inodes \/ inodes' = onDisk.inodes
      /\ boot' = "bitmap" => inodes' = onDisk.inodes
  BY DEF setup_superblock, setup_inode, Exits, running
<1>2. Shape /\ ImageInv
  BY <1>1 DEF IInv
<1>3. Shape'
  <2>1. TableOK(inodes)' /\ TableOK(onDisk.inodes)'
    BY <1>1, <1>2 DEF Shape, TableOK
  <2> QED
    BY <1>1, <1>2, <2>1 DEF Shape
<1>4. Rooted(onDisk.inodes)' /\ DistinctOn(onDisk.inodes)' /\ NoBlockShared(onDisk.inodes, onDisk.free)'
  BY <1>1, <1>2, SameImage DEF ImageInv
<1>5. ImageInv'
  BY <1>1, <1>2, <1>4 DEF ImageInv, AtRest
<1> QED
  BY <1>1, <1>3, <1>5 DEF IInv

(* The bitmap was read: the file system is up.                             *)
LEMMA BitmapStep ==
  ASSUME IInv, setup_bitmap
  PROVE  IInv'
<1>1. /\ boot = "bitmap"
      /\ UNCHANGED <<inodes, onDisk, entries, active, th, cwd, file, deleted>>
      /\ \/ boot' = "exited" /\ UNCHANGED freeBlocks
         \/ boot' = "ready" /\ freeBlocks' = onDisk.free
  BY DEF setup_bitmap, Exits, running
<1>2. Shape /\ ImageInv /\ AtRest /\ inodes = onDisk.inodes /\ ~deleted
      /\ Rooted(inodes) /\ DistinctOn(inodes) /\ NoBlockShared(inodes, onDisk.free)
      /\ \A x \in Inodes : ~inodes[x].free => inodes[x].references >= 1
  BY <1>1 DEF IInv, ImageInv
<1>3. Shape'
  <2>1. freeBlocks' \subseteq Nat
    BY <1>1, <1>2 DEF ImageInv, Shape
  <2> QED
    BY <1>1, <1>2, <2>1 DEF Shape, TableOK
<1>4. CASE boot' = "exited"
  <2>1. Rooted(onDisk.inodes)' /\ DistinctOn(onDisk.inodes)' /\ NoBlockShared(onDisk.inodes, onDisk.free)'
    <3>1. /\ UNCHANGED <<onDisk, entries>> /\ Rooted(onDisk.inodes) /\ DistinctOn(onDisk.inodes)
          /\ NoBlockShared(onDisk.inodes, onDisk.free)
      BY <1>1 DEF IInv, ImageInv
    <3> QED
      BY <3>1, SameImage
  <2>2. ImageInv'
    BY <1>1, <1>2, <1>4, <2>1 DEF ImageInv, AtRest
  <2> QED
    BY <1>3, <1>4, <2>2 DEF IInv
<1>5. CASE boot' = "ready" /\ freeBlocks' = onDisk.free
  <2>1. \A t \in Users : th'[t] = Idle /\ cwd'[t] = 0 /\ file'[t] = NoFile /\ file'[t].inode = -1
    BY <1>1, <1>2 DEF AtRest, NoFile
  <2>2. Rooted(inodes)' /\ DistinctUp'
    BY <1>1, <1>2 DEF Rooted, DistinctOn, DistinctUp, Doubled, Has, Filled, Directories
  <2>3. ASSUME NEW x \in Inodes PROVE RefsOK(x)'
    <3>1. Handles(x)' = {}
      <4>1. x # -1
        BY <2>3, MiniFileAssumption DEF Inodes
      <4> QED
        BY <2>1, <4>1 DEF Handles
    <3>2. Cardinality(Handles(x)') = 0 /\ Claims(x)' \in {0, 1}
      BY <3>1, FS_EmptySet DEF Claims
    <3>3. inodes'[x].references \in Int
      BY <1>3, <2>3 DEF Shape, TableOK, InodeOK
    <3> QED
      BY <1>1, <1>2, <2>3, <3>2, <3>3 DEF RefsOK
  <2>4. TreeInv'
    <3>1. ASSUME NEW t \in Users PROVE HandleOK(t)' /\ cwd'[t] \in Directories(inodes)'
      BY <2>1, <2>2, <3>1 DEF HandleOK, Rooted
    <3> QED
      BY <2>2, <2>3, <3>1 DEF TreeInv
  <2>5. ThreadsInv'
    <3>1. Idle.area = {} /\ Idle.pc = "idle" /\ ~Private(Idle)
      BY DEF Idle, Private, Creating
    <3>2. ASSUME NEW t \in Users PROVE LocalInv(t)'
      BY <2>1, <3>1, <3>2, IdleFits DEF LocalInv
    <3>3. ASSUME NEW t \in Users, NEW u \in Users PROVE Apart(t, u)'
      BY <2>1, <3>1, <3>3 DEF Apart
    <3> QED
      BY <3>2, <3>3 DEF ThreadsInv
  <2>6. BlocksInv'
    <3>1. NoBlockShared(inodes, freeBlocks)'
      BY <1>1, <1>2, <1>5 DEF NoBlockShared
    <3>2. Written'
      BY <1>1, <1>2 DEF Written, Matches
    <3> QED
      BY <1>1, <1>5, <3>1, <3>2 DEF BlocksInv
  <2> QED
    BY <1>3, <1>5, <2>4, <2>5, <2>6 DEF IInv
<1> QED
  BY <1>1, <1>4, <1>5

(* Nothing was removed: the disk is one that memory can be read from.      *)
LEMMA DiskSound ==
  ASSUME IInv, boot = "ready", ~deleted
  PROVE  /\ Rooted(onDisk.inodes) /\ NoBlockShared(onDisk.inodes, onDisk.free)
         /\ \A x \in Inodes : ~onDisk.inodes[x].free => Matches(onDisk.inodes[x], inodes[x])
<1>1. /\ Shape /\ TableOK(inodes) /\ TableOK(onDisk.inodes) /\ Rooted(inodes)
      /\ onDisk.free = freeBlocks /\ NoBlockShared(inodes, freeBlocks) /\ Written
  BY DEF IInv, Shape, TreeInv, BlocksInv
<1>2. PICK tb : tb = onDisk.inodes
  OBVIOUS
<1>3. \A x \in Inodes : ~tb[x].free => Matches(tb[x], inodes[x])
  BY <1>1, <1>2 DEF Written
<1>4. ASSUME NEW x \in Inodes, ~inodes[x].free, x = 0 \/ Owed(x) \/ \E y \in Inodes : ~inodes[y].free /\ inodes[y].parent = x
      PROVE  ~tb[x].free /\ tb[x].parent = inodes[x].parent /\ tb[x].type = inodes[x].type
  <2>1. ~Making(x)
    <3>1. SUFFICES ASSUME NEW t \in Users, th[t].pc = "made", th[t].inode = x PROVE FALSE
      BY DEF Making
    <3>2. MakesOne(th[t]) /\ Legal(th[t])
      BY Here DEF Fits
    <3>3. Creating(th[t])
      BY <3>1, <3>2 DEF Creating, Legal
    <3> QED
      BY <1>4, <3>1, <3>2, <3>3 DEF MakesOne, Unknown, Untrodden
  <2>2. ~tb[x].free
    BY <1>1, <1>2, <1>4, <2>1 DEF Written
  <2> QED
    BY <1>3, <2>2 DEF Matches
<1>5. \A d \in Directories(tb) : /\ d \in Inodes /\ d \in Directories(inodes)
                                 /\ tb[d].bytes = inodes[d].bytes
                                 /\ \A k : Has(tb, d, k) <=> Has(inodes, d, k)
  BY <1>3 DEF Directories, Matches, Has, Filled
<1>6. Rooted(tb)
  <2>1. 0 \in Directories(tb)
    <3>1. 0 \in Directories(inodes)
      BY <1>1 DEF Rooted
    <3> QED
      BY <1>4, <3>1 DEF Directories
  <2>2. ASSUME NEW x \in Inodes, ~tb[x].free PROVE tb[x].parent \in Directories(tb)
    <3>1. ~inodes[x].free /\ tb[x].parent = inodes[x].parent
      BY <1>3, <2>2 DEF Matches
    <3>2. PICK p : p = inodes[x].parent
      OBVIOUS
    <3>3. p \in Directories(inodes)
      BY <1>1, <3>1, <3>2 DEF Rooted
    <3>4. p \in Inodes /\ ~inodes[p].free /\ inodes[p].type = "DIRECTORY"
      BY <3>3 DEF Directories
    <3>5. ~tb[p].free /\ tb[p].type = inodes[p].type
      BY <1>4, <3>1, <3>2, <3>4
    <3> QED
      BY <3>1, <3>2, <3>4, <3>5 DEF Directories
  <2>3. ASSUME NEW d \in Directories(tb) PROVE \E n \in 0 .. NumSlots : tb[d].bytes = n * ENTRY
    BY <1>1, <1>5 DEF Rooted
  <2>4. ASSUME NEW d \in Directories(tb), NEW k \in Slots, Has(tb, d, k)
        PROVE  ~tb[entries[d][k].inode].free /\ tb[entries[d][k].inode].parent = d
    <3>1. d \in Directories(inodes) /\ Has(inodes, d, k) /\ d \in Inodes
      BY <1>5, <2>4
    <3>2. PICK e : e = entries[d][k].inode
      OBVIOUS
    <3>3. e \in Inodes /\ ~inodes[e].free /\ inodes[e].parent = d
      BY <1>1, <3>1, <3>2 DEF Rooted, Shape
    <3>4. Owed(e)
      BY <3>1, <3>2, <3>3 DEF Owed, ListedIn
    <3> QED
      BY <1>4, <3>2, <3>3, <3>4
  <2> QED
    BY <2>1, <2>2, <2>3, <2>4 DEF Rooted
<1>7. \A x \in Inodes : /\ DOMAIN tb[x].direct = 0 .. TABLE_SIZE - 1
                        /\ DOMAIN inodes[x].direct = 0 .. TABLE_SIZE - 1
  <2>1. ASSUME NEW x \in Inodes
        PROVE  /\ tb[x].direct \in [0 .. TABLE_SIZE - 1 -> Nat \cup {-1}]
               /\ inodes[x].direct \in [0 .. TABLE_SIZE - 1 -> Nat \cup {-1}]
    <3>1. InodeOK(tb[x]) /\ InodeOK(inodes[x])
      BY <1>1, <1>2, <2>1 DEF TableOK
    <3> QED
      BY <3>1, InodeIs
  <2> QED
    BY <2>1
<1>8. NoBlockShared(tb, freeBlocks)
  <2>1. ASSUME NEW x \in Inodes, ~tb[x].free
        PROVE  /\ ~inodes[x].free /\ BlocksOf(tb[x].direct) \subseteq BlocksOf(inodes[x].direct)
               /\ \A k \in DOMAIN tb[x].direct : tb[x].direct[k] # -1 => tb[x].direct[k] = inodes[x].direct[k]
    BY <1>3, <1>7, <2>1 DEF Matches, BlocksOf
  <2>2. ASSUME NEW x \in Inodes, ~tb[x].free PROVE BlocksOf(tb[x].direct) \cap freeBlocks = {}
    BY <1>1, <2>1, <2>2 DEF NoBlockShared
  <2>3. ASSUME NEW x \in Inodes, ~tb[x].free, NEW y \in Inodes \ {x}, ~tb[y].free
        PROVE  BlocksOf(tb[x].direct) \cap BlocksOf(tb[y].direct) = {}
    <3>1. BlocksOf(inodes[x].direct) \cap BlocksOf(inodes[y].direct) = {}
      BY <1>1, <2>1, <2>3 DEF NoBlockShared
    <3> QED
      BY <2>1, <2>3, <3>1
  <2>4. ASSUME NEW x \in Inodes, ~tb[x].free, NEW j \in DOMAIN tb[x].direct,
               NEW k \in DOMAIN tb[x].direct, j # k, tb[x].direct[j] # -1
        PROVE  tb[x].direct[j] # tb[x].direct[k]
    <3>1. tb[x].direct[j] = inodes[x].direct[j]
      BY <2>1, <2>4
    <3>2. inodes[x].direct[j] # inodes[x].direct[k]
      BY <1>1, <1>7, <2>1, <2>4, <3>1 DEF NoBlockShared
    <3>3. tb[x].direct[k] = -1 \/ tb[x].direct[k] = inodes[x].direct[k]
      BY <2>1, <2>4
    <3> QED
      BY <2>4, <3>1, <3>2, <3>3
  <2> QED
    BY <2>2, <2>3, <2>4 DEF NoBlockShared
<1> QED
  BY <1>1, <1>2, <1>3, <1>6, <1>8

(* The machine stops: the disk is what memory will be read from.           *)
LEMMA CrashStep ==
  ASSUME IInv, Crash
  PROVE  IInv'
<1>1. /\ boot = "ready" /\ ~deleted /\ boot' = "superblock"
      /\ \A t \in Users : th[t].op \notin {"unlink", "rmdir"}
      /\ UNCHANGED <<onDisk, entries, active, deleted>> /\ inodes' = Blank /\ freeBlocks' = {}
      /\ th' = [t \in Users |-> Idle] /\ cwd' = [t \in Users |-> 0] /\ file' = [t \in Users |-> NoFile]
  BY DEF Crash
<1>2. Shape /\ DistinctUp /\ onDisk.free = freeBlocks /\ freeBlocks \subseteq Nat
  BY <1>1 DEF IInv, TreeInv, BlocksInv, Shape
<1>3. /\ Rooted(onDisk.inodes) /\ NoBlockShared(onDisk.inodes, onDisk.free)
      /\ \A x \in Inodes : ~onDisk.inodes[x].free => Matches(onDisk.inodes[x], inodes[x])
  BY <1>1, DiskSound
<1>4. 0 \in Inodes /\ 0 \in Nat /\ -1 \in Int /\ 0 \in Int
  BY MiniFileAssumption DEF Inodes
<1>5. TableOK(inodes)'
  <2>1. PICK n : n = Inode("REGULARFILE", TRUE, 0, 0, 0, NoBlocks)
    OBVIOUS
  <2>2. DOMAIN n = InodeFields /\ n.type = "REGULARFILE" /\ n.references = 0 /\ n.size = 0 /\ n.parent = 0
        /\ n.direct = NoBlocks
    BY <2>1 DEF Inode, InodeFields
  <2>3. NoBlocks \in [0 .. TABLE_SIZE - 1 -> Nat \cup {-1}]
    BY DEF NoBlocks
  <2>4. InodeOK(n)
    BY <1>4, <2>2, <2>3 DEF InodeOK
  <2>5. inodes' = [x \in Inodes |-> n]
    BY <1>1, <2>1 DEF Blank
  <2> QED
    BY <2>4, <2>5 DEF TableOK
<1>6. Shape'
  <2>1. FileOK(NoFile)
    BY DEF FileOK, NoFile
  <2>2. /\ th' = [t \in Users |-> th'[t]] /\ cwd' \in [Users -> Inodes]
        /\ file' = [t \in Users |-> file'[t]] /\ \A t \in Users : FileOK(file'[t])
    BY <1>1, <1>4, <2>1
  <2>3. freeBlocks' \subseteq Nat /\ TableOK(onDisk.inodes)'
    BY <1>1, <1>2 DEF Shape, TableOK
  <2> QED
    BY <1>1, <1>2, <1>5, <2>2, <2>3 DEF Shape
<1>7. DistinctOn(onDisk.inodes)
  <2>1. SUFFICES ASSUME NEW d \in Directories(onDisk.inodes), NEW i \in Slots, NEW j \in Slots,
                        Doubled(onDisk.inodes, d, i, j), i # j
                 PROVE  FALSE
    BY DEF DistinctOn
  <2>2. d \in Directories(inodes) /\ Filled(onDisk.inodes, d) = Filled(inodes, d)
    BY <1>3 DEF Directories, Matches, Filled
  <2>3. Doubled(inodes, d, i, j)
    BY <2>1, <2>2 DEF Doubled, Has
  <2>4. PICK u \in Users : Removing(th[u])
    BY <1>2, <2>1, <2>2, <2>3 DEF DistinctUp, InHole
  <2> QED
    BY <1>1, <2>4 DEF Removing
<1>8. Rooted(onDisk.inodes)' /\ DistinctOn(onDisk.inodes)' /\ NoBlockShared(onDisk.inodes, onDisk.free)'
  BY <1>1, <1>3, <1>7, SameImage
<1>9. ImageInv'
  <2>1. AtRest'
    BY <1>1 DEF AtRest
  <2>2. \A x \in Inodes : ~onDisk'.inodes[x].free => onDisk'.inodes[x].references >= 1
    BY <1>1, <1>3 DEF Matches
  <2>3. onDisk'.free \subseteq Nat /\ ~deleted'
    BY <1>1, <1>2
  <2> QED
    BY <1>1, <1>8, <2>1, <2>2, <2>3 DEF ImageInv
<1> QED
  BY <1>1, <1>6, <1>9 DEF IInv

-----------------------------------------------------------------------------
(* The disks the file system starts from.                                  *)
Owned(type, refs, parent, bytes, b) ==
  [Inode(type, FALSE, refs, 1, parent, [NoBlocks EXCEPT ![0] = b]) EXCEPT !.bytes = bytes]

(* The inode table of the disk that was used, one inode after the other.   *)
LEMMA UsedDisk ==
  ASSUME NEW m, m = Mkfs(TRUE).inodes
  PROVE  /\ Used.disk.inodes =
             [[[[m EXCEPT ![0].bytes = 2 * ENTRY]
                   EXCEPT ![1] = Owned("DIRECTORY", 1, 0, ENTRY, TABLE_SIZE)]
                   EXCEPT ![2] = Owned("REGULARFILE", 2, 1, BLOCK + Least(Lengths), TABLE_SIZE + 1)]
                   EXCEPT ![3] = Owned("REGULARFILE", 1, 0, 0, TABLE_SIZE + 2)]
         /\ Used.disk.free = TABLE_SIZE + 3 .. Bits - 1
         /\ Used.disk = [inodes |-> Used.disk.inodes, free |-> Used.disk.free, super |-> Used.disk.super]
BY DEF Used, Owned, Mkfs

(* The fields of an inode in use, with one block.                          *)
LEMMA OwnedParts ==
  ASSUME NEW type, NEW refs, NEW parent, NEW bytes, NEW b,
         NEW n, n = Owned(type, refs, parent, bytes, b)
  PROVE  /\ DOMAIN n = InodeFields /\ n.type = type /\ ~n.free /\ n.references = refs
         /\ n.size = 1 /\ n.bytes = bytes /\ n.parent = parent
         /\ n.direct = [k \in 0 .. TABLE_SIZE - 1 |-> IF k = 0 THEN b ELSE -1]
<1>1. PICK d : d = [NoBlocks EXCEPT ![0] = b]
  OBVIOUS
<1>2. d = [k \in 0 .. TABLE_SIZE - 1 |-> IF k = 0 THEN b ELSE -1]
  BY <1>1 DEF NoBlocks
<1>3. PICK m : m = Inode(type, FALSE, refs, 1, parent, d)
  OBVIOUS
<1>4. /\ DOMAIN m = InodeFields /\ m.type = type /\ ~m.free /\ m.references = refs
      /\ m.size = 1 /\ m.parent = parent /\ m.direct = d
  BY <1>3 DEF Inode, InodeFields
<1>5. n = [m EXCEPT !.bytes = bytes]
  BY <1>1, <1>3 DEF Owned
<1> QED
  BY <1>2, <1>4, <1>5 DEF InodeFields

(* The disk mkfs leaves.                                                   *)
LEMMA NewDisk ==
  ASSUME NEW complete, NEW d, d = Mkfs(complete)
  PROVE  /\ d = [inodes |-> d.inodes, free |-> d.free, super |-> d.super]
         /\ TableOK(d.inodes) /\ d.free = TABLE_SIZE .. Bits - 1
         /\ ~d.inodes[0].free /\ d.inodes[0].type = "DIRECTORY" /\ d.inodes[0].references = 1
         /\ d.inodes[0].bytes = 0 /\ d.inodes[0].parent = 0
         /\ d.inodes[0].direct = [k \in 0 .. TABLE_SIZE - 1 |-> k]
         /\ \A x \in Inodes \ {0} : d.inodes[x].free
<1>1. PICK r, f : /\ r = Inode("DIRECTORY", FALSE, 1, TABLE_SIZE, 0, [k \in 0 .. TABLE_SIZE - 1 |-> k])
                  /\ f = Inode("REGULARFILE", TRUE, 0, 0, 0, [k \in 0 .. TABLE_SIZE - 1 |-> 0])
  OBVIOUS
<1>2. /\ d = [inodes |-> d.inodes, free |-> d.free, super |-> d.super]
      /\ d.inodes = [x \in Inodes |-> IF x = 0 THEN r ELSE f] /\ d.free = TABLE_SIZE .. Bits - 1
  BY <1>1 DEF Mkfs
<1>3. /\ DOMAIN r = InodeFields /\ ~r.free /\ r.type = "DIRECTORY" /\ r.references = 1
      /\ r.bytes = 0 /\ r.parent = 0 /\ r.size = TABLE_SIZE
      /\ r.direct = [k \in 0 .. TABLE_SIZE - 1 |-> k]
  BY <1>1 DEF Inode, InodeFields
<1>4. /\ DOMAIN f = InodeFields /\ f.free /\ f.type = "REGULARFILE" /\ f.references = 0
      /\ f.parent = 0 /\ f.size = 0
      /\ f.direct = [k \in 0 .. TABLE_SIZE - 1 |-> 0]
  BY <1>1 DEF Inode, InodeFields
<1>5. TABLE_SIZE \in Nat /\ 0 \in Inodes /\ 0 \in Int /\ 1 \in Int /\ TABLE_SIZE \in Int
  BY MiniFileAssumption DEF Inodes
<1>6. InodeOK(r)
  <2>1. r.direct \in [0 .. TABLE_SIZE - 1 -> Nat \cup {-1}]
    BY <1>3, <1>5
  <2> QED
    BY <1>3, <1>5, <2>1 DEF InodeOK
<1>7. InodeOK(f)
  <2>1. f.direct \in [0 .. TABLE_SIZE - 1 -> Nat \cup {-1}]
    BY <1>4, <1>5
  <2> QED
    BY <1>4, <1>5, <2>1 DEF InodeOK
<1>8. TableOK(d.inodes)
  BY <1>2, <1>6, <1>7 DEF TableOK
<1> QED
  BY <1>2, <1>3, <1>4, <1>5, <1>8

(* The disk that was used: its root, a directory and two files.            *)
LEMMA UsedTable ==
  ASSUME NEW tb, tb = Used.disk.inodes
  PROVE  /\ TableOK(tb)
         /\ ~tb[0].free /\ tb[0].type = "DIRECTORY" /\ tb[0].references = 1 /\ tb[0].bytes = 2 * ENTRY
         /\ tb[0].parent = 0 /\ tb[0].direct = [k \in 0 .. TABLE_SIZE - 1 |-> k]
         /\ ~tb[1].free /\ tb[1].type = "DIRECTORY" /\ tb[1].references = 1 /\ tb[1].bytes = ENTRY
         /\ tb[1].parent = 0
         /\ tb[1].direct = [k \in 0 .. TABLE_SIZE - 1 |-> IF k = 0 THEN TABLE_SIZE ELSE -1]
         /\ ~tb[2].free /\ tb[2].type = "REGULARFILE" /\ tb[2].references = 2 /\ tb[2].parent = 1
         /\ tb[2].direct = [k \in 0 .. TABLE_SIZE - 1 |-> IF k = 0 THEN TABLE_SIZE + 1 ELSE -1]
         /\ ~tb[3].free /\ tb[3].type = "REGULARFILE" /\ tb[3].references = 1 /\ tb[3].parent = 0
         /\ tb[3].direct = [k \in 0 .. TABLE_SIZE - 1 |-> IF k = 0 THEN TABLE_SIZE + 2 ELSE -1]
         /\ \A x \in Inodes \ {0, 1, 2, 3} : tb[x].free
<1>1. PICK m : m = Mkfs(TRUE).inodes
  OBVIOUS
<1>2. PICK o1, o2, o3 :
        /\ o1 = Owned("DIRECTORY", 1, 0, ENTRY, TABLE_SIZE)
        /\ o2 = Owned("REGULARFILE", 2, 1, BLOCK + Least(Lengths), TABLE_SIZE + 1)
        /\ o3 = Owned("REGULARFILE", 1, 0, 0, TABLE_SIZE + 2)
  OBVIOUS
<1>3. PICK a : a = BytesSet(m, 0, 2 * ENTRY)
  OBVIOUS
<1>4. 0 \in Inodes /\ 1 \in Inodes /\ 2 \in Inodes /\ 3 \in Inodes /\ TABLE_SIZE \in Nat /\ 0 \in Int
      /\ 1 \in Int /\ 2 \in Int
  BY MiniFileAssumption DEF Inodes
<1>5. tb = [[[a EXCEPT ![1] = o1] EXCEPT ![2] = o2] EXCEPT ![3] = o3]
  BY <1>1, <1>2, <1>3, UsedDisk DEF BytesSet
<1>6. /\ TableOK(m)
      /\ ~m[0].free /\ m[0].type = "DIRECTORY" /\ m[0].references = 1 /\ m[0].parent = 0
      /\ m[0].direct = [k \in 0 .. TABLE_SIZE - 1 |-> k]
      /\ \A x \in Inodes \ {0} : m[x].free
  BY <1>1, NewDisk
<1>7. /\ TableOK(a) /\ a[0].bytes = 2 * ENTRY
      /\ \A y \in Inodes : Same(m, a, y) /\ a[y].references = m[y].references
  BY <1>3, <1>4, <1>6, TableBytes
<1>8. /\ DOMAIN o1 = InodeFields /\ o1.type = "DIRECTORY" /\ ~o1.free /\ o1.references = 1
      /\ o1.size = 1 /\ o1.bytes = ENTRY /\ o1.parent = 0
      /\ o1.direct = [k \in 0 .. TABLE_SIZE - 1 |-> IF k = 0 THEN TABLE_SIZE ELSE -1]
  BY <1>2, OwnedParts
<1>9. /\ DOMAIN o2 = InodeFields /\ o2.type = "REGULARFILE" /\ ~o2.free /\ o2.references = 2
      /\ o2.size = 1 /\ o2.parent = 1
      /\ o2.direct = [k \in 0 .. TABLE_SIZE - 1 |-> IF k = 0 THEN TABLE_SIZE + 1 ELSE -1]
  BY <1>2, OwnedParts
<1>10. /\ DOMAIN o3 = InodeFields /\ o3.type = "REGULARFILE" /\ ~o3.free /\ o3.references = 1
       /\ o3.size = 1 /\ o3.parent = 0
       /\ o3.direct = [k \in 0 .. TABLE_SIZE - 1 |-> IF k = 0 THEN TABLE_SIZE + 2 ELSE -1]
  BY <1>2, OwnedParts
<1>11. InodeOK(o1) /\ InodeOK(o2) /\ InodeOK(o3)
  <2>1. /\ o1.direct \in [0 .. TABLE_SIZE - 1 -> Nat \cup {-1}]
        /\ o2.direct \in [0 .. TABLE_SIZE - 1 -> Nat \cup {-1}]
        /\ o3.direct \in [0 .. TABLE_SIZE - 1 -> Nat \cup {-1}]
    BY <1>4, <1>8, <1>9, <1>10
  <2> QED
    BY <1>4, <1>8, <1>9, <1>10, <2>1 DEF InodeOK
<1>12. /\ tb = [x \in Inodes |-> tb[x]] /\ tb[0] = a[0] /\ tb[1] = o1 /\ tb[2] = o2 /\ tb[3] = o3
       /\ \A x \in Inodes \ {0, 1, 2, 3} : tb[x] = a[x]
  <2>1. a = [x \in Inodes |-> a[x]]
    BY <1>7 DEF TableOK
  <2>2. PICK b : b = [a EXCEPT ![1] = o1]
    OBVIOUS
  <2>3. b = [x \in Inodes |-> b[x]] /\ b[1] = o1 /\ \A x \in Inodes \ {1} : b[x] = a[x]
    BY <1>4, <2>1, <2>2
  <2>4. PICK c : c = [b EXCEPT ![2] = o2]
    OBVIOUS
  <2>5. c = [x \in Inodes |-> c[x]] /\ c[2] = o2 /\ \A x \in Inodes \ {2} : c[x] = b[x]
    BY <1>4, <2>3, <2>4
  <2>6. tb = [c EXCEPT ![3] = o3]
    BY <1>5, <2>2, <2>4
  <2>7. tb = [x \in Inodes |-> tb[x]] /\ tb[3] = o3 /\ \A x \in Inodes \ {3} : tb[x] = c[x]
    BY <1>4, <2>5, <2>6
  <2> QED
    BY <1>4, <2>3, <2>5, <2>7
<1>13. TableOK(tb)
  <2>1. \A x \in Inodes : InodeOK(a[x])
    BY <1>7 DEF TableOK
  <2>2. ASSUME NEW x \in Inodes PROVE InodeOK(tb[x])
    BY <1>11, <1>12, <2>1
  <2> QED
    BY <1>12, <2>2 DEF TableOK
<1>14. \A x \in Inodes \ {0, 1, 2, 3} : tb[x].free
  BY <1>6, <1>7, <1>12 DEF Same
<1>15. /\ ~tb[0].free /\ tb[0].type = "DIRECTORY" /\ tb[0].references = 1 /\ tb[0].bytes = 2 * ENTRY
       /\ tb[0].parent = 0 /\ tb[0].direct = [k \in 0 .. TABLE_SIZE - 1 |-> k]
  BY <1>4, <1>6, <1>7, <1>12 DEF Same
<1> QED
  BY <1>8, <1>9, <1>10, <1>12, <1>13, <1>14, <1>15

(* The entries on the disk that was used.                                  *)
LEMMA UsedLists ==
  ASSUME NEW l, l = Used.lists
  PROVE  /\ l = [x \in Inodes |-> [k \in Slots |-> l[x][k]]]
         /\ \A x \in Inodes, k \in Slots : l[x][k].inode \in Inodes
         /\ l[0][0].inode = 1 /\ l[0][1].inode = 3 /\ l[1][0].inode = 2
<1>1. PICK dir, name : dir = (CHOOSE n \in Names : TRUE) /\ name = (CHOOSE n \in Names : n # dir)
  OBVIOUS
<1>2. 0 \in Inodes /\ 1 \in Inodes /\ 2 \in Inodes /\ 3 \in Inodes
  BY MiniFileAssumption DEF Inodes
<1>3. 0 \in Slots /\ 1 \in Slots
  BY Sizes
<1>4. PICK e1, e2, e3 : /\ e1 = [name |-> dir, inode |-> 1] /\ e2 = [name |-> name, inode |-> 2]
                        /\ e3 = [name |-> name, inode |-> 3]
  OBVIOUS
<1>5. e1.inode = 1 /\ e2.inode = 2 /\ e3.inode = 3 /\ NoEntry.inode = 0
  BY <1>4 DEF NoEntry
<1>6. PICK r, d : r = [k \in Slots |-> IF k = 0 THEN e1 ELSE IF k = 1 THEN e3 ELSE NoEntry]
                  /\ d = [k \in Slots |-> IF k = 0 THEN e2 ELSE NoEntry]
  OBVIOUS
<1>7. l = [x \in Inodes |-> IF x = 0 THEN r ELSE IF x = 1 THEN d ELSE Empty]
  <2>1. [Empty EXCEPT ![0] = e1, ![1] = e3] = r
    BY <1>3, <1>6 DEF Empty
  <2>2. [Empty EXCEPT ![0] = e2] = d
    BY <1>3, <1>6 DEF Empty
  <2>3. ASSUME NEW x \in Inodes, x = 0
        PROVE  Used.lists[x] = [Empty EXCEPT ![0] = [name |-> dir, inode |-> 1],
                                             ![1] = [name |-> name, inode |-> 3]]
    BY <1>1, <2>3 DEF Used
  <2>4. ASSUME NEW x \in Inodes, x = 1
        PROVE  Used.lists[x] = [Empty EXCEPT ![0] = [name |-> name, inode |-> 2]]
    BY <1>1, <2>4 DEF Used
  <2>5. ASSUME NEW x \in Inodes, x # 0, x # 1
        PROVE  Used.lists[x] = Empty
    BY <2>5 DEF Used
  <2>6. Used.lists = [x \in Inodes |-> Used.lists[x]]
    BY DEF Used
  <2>7. l[0] = [Empty EXCEPT ![0] = e1, ![1] = e3]
    BY <1>2, <1>4, <2>3
  <2>8. l[1] = [Empty EXCEPT ![0] = e2]
    BY <1>2, <1>4, <2>4
  <2>9. l = [x \in Inodes |-> l[x]]
    BY <2>6
  <2>10. \A x \in Inodes : l[x] = IF x = 0 THEN r ELSE IF x = 1 THEN d ELSE Empty
    BY <2>1, <2>2, <2>5, <2>7, <2>8
  <2> QED
    BY <2>9, <2>10
<1>8. /\ l[0] = r /\ l[1] = d /\ \A x \in Inodes : l[x] = [k \in Slots |-> l[x][k]]
  BY <1>2, <1>6, <1>7 DEF Empty
<1>9. ASSUME NEW x \in Inodes, NEW k \in Slots PROVE l[x][k].inode \in Inodes
  <2>1. l[x][k] \in {e1, e2, e3, NoEntry}
    BY <1>6, <1>7 DEF Empty
  <2> QED
    BY <1>2, <1>5, <2>1
<1>10. l[0][0] = e1 /\ l[0][1] = e3 /\ l[1][0] = e2
  BY <1>3, <1>6, <1>8
<1> QED
  BY <1>5, <1>7, <1>8, <1>9, <1>10

(* A disk that memory can be read from.                                    *)
Image ==
  /\ TableOK(onDisk.inodes) /\ onDisk.free \subseteq Nat
  /\ onDisk = [inodes |-> onDisk.inodes, free |-> onDisk.free, super |-> onDisk.super]
  /\ entries = [x \in Inodes |-> [s \in Slots |-> entries[x][s]]]
  /\ \A x \in Inodes, s \in Slots : entries[x][s].inode \in Inodes
  /\ Rooted(onDisk.inodes) /\ DistinctOn(onDisk.inodes) /\ NoBlockShared(onDisk.inodes, onDisk.free)
  /\ \A x \in Inodes : ~onDisk.inodes[x].free => onDisk.inodes[x].references >= 1

(* Memory can be read from the disk mkfs leaves.                           *)
LEMMA NewImage ==
  ASSUME NEW complete, onDisk = Mkfs(complete), entries = [x \in Inodes |-> Empty]
  PROVE  Image
<1>1. PICK tb : tb = onDisk.inodes
  OBVIOUS
<1>2. /\ onDisk = [inodes |-> onDisk.inodes, free |-> onDisk.free, super |-> onDisk.super]
      /\ TableOK(tb) /\ onDisk.free = TABLE_SIZE .. Bits - 1
      /\ ~tb[0].free /\ tb[0].type = "DIRECTORY" /\ tb[0].references = 1
      /\ tb[0].bytes = 0 /\ tb[0].parent = 0
      /\ tb[0].direct = [k \in 0 .. TABLE_SIZE - 1 |-> k]
      /\ \A x \in Inodes \ {0} : tb[x].free
  BY <1>1, NewDisk
<1>3. 0 \in Inodes /\ TABLE_SIZE \in Nat /\ Bits \in Nat /\ Inodes \subseteq Nat
  BY MiniFileAssumption DEF Inodes
<1>4. Directories(tb) = {0}
  BY <1>2, <1>3 DEF Directories
<1>5. \A k : ~Has(tb, 0, k)
  <2>1. Filled(tb, 0) = 0
    BY <1>2, Sizes DEF Filled
  <2>2. \A k \in Slots : ~(k < 0)
    BY Sizes
  <2> QED
    BY <2>1, <2>2 DEF Has
<1>6. Rooted(tb)
  <2>1. 0 \in 0 .. NumSlots /\ tb[0].bytes = 0 * ENTRY
    BY <1>2, Sizes
  <2>2. \A x \in Inodes : ~tb[x].free => tb[x].parent \in Directories(tb)
    BY <1>2, <1>4
  <2> QED
    BY <1>4, <1>5, <2>1, <2>2 DEF Rooted
<1>7. DistinctOn(tb)
  BY <1>4, <1>5 DEF DistinctOn, Doubled
<1>8. NoBlockShared(tb, onDisk.free)
  <2>1. BlocksOf(tb[0].direct) \subseteq 0 .. TABLE_SIZE - 1
    BY <1>2 DEF BlocksOf
  <2>2. BlocksOf(tb[0].direct) \cap onDisk.free = {}
    BY <1>2, <1>3, <2>1
  <2>3. \A j, k \in DOMAIN tb[0].direct : j # k => tb[0].direct[j] # tb[0].direct[k]
    BY <1>2
  <2>4. \A x \in Inodes : ~tb[x].free => x = 0
    BY <1>2
  <2> QED
    BY <2>2, <2>3, <2>4 DEF NoBlockShared
<1>9. \A x \in Inodes, s \in Slots : entries[x][s].inode \in Inodes
  BY <1>3 DEF Empty, NoEntry
<1>10. entries = [x \in Inodes |-> [s \in Slots |-> entries[x][s]]]
  BY DEF Empty
<1>11. \A x \in Inodes : ~tb[x].free => tb[x].references >= 1
  BY <1>2
<1>12. onDisk.free \subseteq Nat
  BY <1>2, <1>3
<1> QED
  BY <1>1, <1>2, <1>6, <1>7, <1>8, <1>9, <1>10, <1>11, <1>12 DEF Image

(* Memory can be read from the disk that was used.                         *)
LEMMA UsedImage ==
  ASSUME onDisk = Used.disk, entries = Used.lists
  PROVE  Image
<1>1. PICK tb : tb = onDisk.inodes
  OBVIOUS
<1>2. /\ TableOK(tb)
      /\ ~tb[0].free /\ tb[0].type = "DIRECTORY" /\ tb[0].references = 1 /\ tb[0].bytes = 2 * ENTRY
      /\ tb[0].parent = 0 /\ tb[0].direct = [k \in 0 .. TABLE_SIZE - 1 |-> k]
      /\ ~tb[1].free /\ tb[1].type = "DIRECTORY" /\ tb[1].references = 1 /\ tb[1].bytes = ENTRY
      /\ tb[1].parent = 0
      /\ tb[1].direct = [k \in 0 .. TABLE_SIZE - 1 |-> IF k = 0 THEN TABLE_SIZE ELSE -1]
      /\ ~tb[2].free /\ tb[2].type = "REGULARFILE" /\ tb[2].references = 2 /\ tb[2].parent = 1
      /\ tb[2].direct = [k \in 0 .. TABLE_SIZE - 1 |-> IF k = 0 THEN TABLE_SIZE + 1 ELSE -1]
      /\ ~tb[3].free /\ tb[3].type = "REGULARFILE" /\ tb[3].references = 1 /\ tb[3].parent = 0
      /\ tb[3].direct = [k \in 0 .. TABLE_SIZE - 1 |-> IF k = 0 THEN TABLE_SIZE + 2 ELSE -1]
      /\ \A x \in Inodes \ {0, 1, 2, 3} : tb[x].free
  BY <1>1, UsedTable
<1>3. /\ onDisk = [inodes |-> onDisk.inodes, free |-> onDisk.free, super |-> onDisk.super]
      /\ onDisk.free = TABLE_SIZE + 3 .. Bits - 1
  <2>1. PICK m : m = Mkfs(TRUE).inodes
    OBVIOUS
  <2> QED
    BY <2>1, UsedDisk
<1>4. 0 \in Inodes /\ 1 \in Inodes /\ 2 \in Inodes /\ 3 \in Inodes /\ TABLE_SIZE \in Nat /\ TABLE_SIZE >= 2
      /\ Bits \in Nat
  BY MiniFileAssumption DEF Inodes
<1>5. /\ entries = [x \in Inodes |-> [k \in Slots |-> entries[x][k]]]
      /\ \A x \in Inodes, k \in Slots : entries[x][k].inode \in Inodes
      /\ entries[0][0].inode = 1 /\ entries[0][1].inode = 3 /\ entries[1][0].inode = 2
  BY UsedLists
<1>6. \A x \in Inodes : ~tb[x].free => x \in {0, 1, 2, 3}
  BY <1>2
<1>7. \A d \in Directories(tb) : d = 0 \/ d = 1
  BY <1>2, <1>6 DEF Directories
<1>8. 0 \in Directories(tb) /\ 1 \in Directories(tb)
  BY <1>2, <1>4 DEF Directories
<1>9. Filled(tb, 0) = 2 /\ Filled(tb, 1) = 1 /\ tb[0].bytes = 2 * ENTRY /\ tb[1].bytes = 1 * ENTRY
  <2>1. (2 * ENTRY) \div ENTRY = 2 /\ (1 * ENTRY) \div ENTRY = 1 /\ 1 * ENTRY = ENTRY
    BY Multiple, Sizes
  <2> QED
    BY <1>2, <2>1 DEF Filled
<1>10. /\ \A k : Has(tb, 0, k) => k = 0 \/ k = 1
       /\ \A k : Has(tb, 1, k) => k = 0
  <2>1. \A k \in Slots : (k < 2 => k = 0 \/ k = 1) /\ (k < 1 => k = 0)
    BY Sizes
  <2> QED
    BY <1>9, <2>1 DEF Has
<1>11. Rooted(tb)
  <2>1. \A x \in Inodes : ~tb[x].free => tb[x].parent \in Directories(tb)
    BY <1>2, <1>6, <1>8
  <2>2. \A d \in Directories(tb) : \E n \in 0 .. NumSlots : tb[d].bytes = n * ENTRY
    <3>1. 1 \in 0 .. NumSlots /\ 2 \in 0 .. NumSlots
      BY Sizes
    <3> QED
      BY <1>7, <1>9, <3>1
  <2>3. \A d \in Directories(tb) : \A s \in Slots : Has(tb, d, s) =>
          ~tb[entries[d][s].inode].free /\ tb[entries[d][s].inode].parent = d
    <3>1. /\ ~tb[1].free /\ ~tb[2].free /\ ~tb[3].free
          /\ tb[1].parent = 0 /\ tb[2].parent = 1 /\ tb[3].parent = 0
      BY <1>2
    <3> QED
      BY <1>5, <1>7, <1>10, <3>1
  <2> QED
    BY <1>8, <2>1, <2>2, <2>3 DEF Rooted
<1>12. DistinctOn(tb)
  <2>1. SUFFICES ASSUME NEW d \in Directories(tb), NEW i \in Slots, NEW j \in Slots, Doubled(tb, d, i, j)
                 PROVE  i = j
    BY DEF DistinctOn
  <2>2. CASE d = 0
    BY <1>5, <1>10, <2>1, <2>2 DEF Doubled
  <2>3. CASE d = 1
    BY <1>10, <2>1, <2>3 DEF Doubled
  <2> QED
    BY <1>7, <2>2, <2>3
<1>13. NoBlockShared(tb, onDisk.free)
  <2>1. /\ \A b \in BlocksOf(tb[0].direct) : b \in 0 .. TABLE_SIZE - 1
        /\ \A b \in BlocksOf(tb[1].direct) : b = TABLE_SIZE
        /\ \A b \in BlocksOf(tb[2].direct) : b = TABLE_SIZE + 1
        /\ \A b \in BlocksOf(tb[3].direct) : b = TABLE_SIZE + 2
    BY <1>2 DEF BlocksOf
  <2>2. ASSUME NEW x \in Inodes, ~tb[x].free PROVE BlocksOf(tb[x].direct) \cap onDisk.free = {}
    BY <1>3, <1>4, <1>6, <2>1, <2>2
  <2>3. ASSUME NEW x \in Inodes, ~tb[x].free, NEW y \in Inodes \ {x}, ~tb[y].free
        PROVE  BlocksOf(tb[x].direct) \cap BlocksOf(tb[y].direct) = {}
    BY <1>4, <1>6, <2>1, <2>3
  <2>4. /\ tb[0].direct = [k \in 0 .. TABLE_SIZE - 1 |-> k]
        /\ tb[1].direct = [k \in 0 .. TABLE_SIZE - 1 |-> IF k = 0 THEN TABLE_SIZE ELSE -1]
        /\ tb[2].direct = [k \in 0 .. TABLE_SIZE - 1 |-> IF k = 0 THEN TABLE_SIZE + 1 ELSE -1]
        /\ tb[3].direct = [k \in 0 .. TABLE_SIZE - 1 |-> IF k = 0 THEN TABLE_SIZE + 2 ELSE -1]
    BY <1>2
  <2>5. ASSUME NEW x \in Inodes, ~tb[x].free, NEW j \in DOMAIN tb[x].direct,
               NEW k \in DOMAIN tb[x].direct, j # k, tb[x].direct[j] # -1
        PROVE  tb[x].direct[j] # tb[x].direct[k]
    <3>1. \A m \in 0 .. TABLE_SIZE - 1 :
            /\ tb[0].direct[m] = m
            /\ m # 0 => tb[1].direct[m] = -1 /\ tb[2].direct[m] = -1 /\ tb[3].direct[m] = -1
      BY <2>4
    <3>2. j \in 0 .. TABLE_SIZE - 1 /\ k \in 0 .. TABLE_SIZE - 1
      BY <1>6, <2>5, <2>4
    <3>3. CASE x = 0
      BY <2>5, <3>1, <3>2, <3>3
    <3>4. CASE x = 1
      BY <2>5, <3>1, <3>2, <3>4
    <3>5. CASE x = 2
      BY <2>5, <3>1, <3>2, <3>5
    <3>6. CASE x = 3
      BY <2>5, <3>1, <3>2, <3>6
    <3> QED
      BY <1>6, <2>5, <3>3, <3>4, <3>5, <3>6
  <2> QED
    BY <2>2, <2>3, <2>5 DEF NoBlockShared
<1>14. \A x \in Inodes : ~tb[x].free => tb[x].references >= 1
  BY <1>2, <1>6
<1>15. onDisk.free \subseteq Nat
  BY <1>3, <1>4
<1> QED
  BY <1>1, <1>2, <1>3, <1>5, <1>11, <1>12, <1>13, <1>14, <1>15 DEF Image

(* The inode table of a program that has just started.                     *)
LEMMA BlankTable == TableOK(Blank)
<1>1. PICK n : n = Inode("REGULARFILE", TRUE, 0, 0, 0, NoBlocks)
  OBVIOUS
<1>2. DOMAIN n = InodeFields /\ n.type = "REGULARFILE" /\ n.references = 0 /\ n.size = 0 /\ n.parent = 0
      /\ n.direct = NoBlocks
  BY <1>1 DEF Inode, InodeFields
<1>3. NoBlocks \in [0 .. TABLE_SIZE - 1 -> Nat \cup {-1}]
  BY DEF NoBlocks
<1>4. 0 \in Inodes /\ 0 \in Int
  BY MiniFileAssumption DEF Inodes
<1>5. InodeOK(n)
  BY <1>2, <1>3, <1>4 DEF InodeOK
<1>6. Blank = [x \in Inodes |-> n]
  BY <1>1 DEF Blank
<1> QED
  BY <1>5, <1>6 DEF TableOK

(* Both disks start the invariant.                                         *)
LEMMA InitStep ==
  ASSUME FileInit
  PROVE  IInv
<1>1. /\ inodes = Blank /\ freeBlocks = {} /\ boot = "superblock" /\ deleted = FALSE
      /\ th = [t \in Users |-> Idle] /\ cwd = [t \in Users |-> 0] /\ file = [t \in Users |-> NoFile]
  BY DEF FileInit
<1>2. Image
  <2>1. CASE \E complete : onDisk = Mkfs(complete) /\ entries = [x \in Inodes |-> Empty]
    BY <2>1, NewImage
  <2>2. CASE onDisk = Used.disk /\ entries = Used.lists
    BY <2>2, UsedImage
  <2> QED
    BY <2>1, <2>2 DEF FileInit
<1>3. Shape
  <2>1. 0 \in Inodes /\ FileOK(NoFile)
    BY MiniFileAssumption DEF Inodes, FileOK, NoFile
  <2>2. /\ th = [t \in Users |-> th[t]] /\ cwd \in [Users -> Inodes]
        /\ file = [t \in Users |-> file[t]] /\ \A t \in Users : FileOK(file[t])
    BY <1>1, <2>1
  <2>3. TableOK(inodes) /\ freeBlocks \subseteq Nat /\ deleted \in BOOLEAN
    BY <1>1, BlankTable
  <2> QED
    BY <1>2, <2>2, <2>3 DEF Image, Shape
<1>4. ImageInv
  <2>1. AtRest
    BY <1>1 DEF AtRest
  <2> QED
    BY <1>1, <1>2, <2>1 DEF Image, ImageInv
<1> QED
  BY <1>1, <1>3, <1>4 DEF IInv

(* Every step keeps it.                                                    *)
LEMMA NextStep ==
  ASSUME IInv, [FileNext]_fileVars
  PROVE  IInv'
<1>1. CASE UNCHANGED fileVars
  <2>1. UNCHANGED <<inodes, freeBlocks, onDisk, entries, boot, active, deleted, th, cwd, file>>
    BY <1>1 DEF fileVars
  <2> QED
    BY <2>1, StayKeeps
<1>2. CASE setup_superblock \/ setup_inode
  BY <1>2, StartStep
<1>3. CASE setup_bitmap
  BY <1>3, BitmapStep
<1>4. CASE Crash
  BY <1>4, CrashStep
<1>5. CASE handle_disk_response
  BY <1>5, ResponseStep
<1>6. ASSUME NEW t \in Users, Calls(t) PROVE IInv'
  BY <1>6, CallsStep, CloseStep
<1>7. ASSUME NEW t \in Users, Continues(t) PROVE IInv'
  BY <1>7, ScanStep, WakeStep, AllocateStep, MadeStep, WriteStep, PutStep, UpdateStep, ReadStep,
     ShiftStep, FreeStep, ReturnsStep DEF Continues
<1> QED
  BY <1>1, <1>2, <1>3, <1>4, <1>5, <1>6, <1>7 DEF FileNext

(* The inductive invariant: the tree in memory, what each call relies on   *)
(* between two of its steps, and how far the disk lags behind.             *)
THEOREM InductiveInvariant == FileSpec => []IInv
<1>1. FileInit => IInv
  BY InitStep
<1>2. IInv /\ [FileNext]_fileVars => IInv'
  BY NextStep
<1> QED
  BY <1>1, <1>2, PTL DEF FileSpec

(* No block is in two files, twice in one, or in a file and free, whatever *)
(* the threads create, write, unlink and close at the same time.           *)
THEOREM NoBlockHasTwoOwners == FileSpec => []BlocksDisjoint
<1>1. IInv => BlocksDisjoint
  BY DEF IInv, BlocksInv, BlocksDisjoint
<1> QED
  BY <1>1, InductiveInvariant, PTL

(* A directory that lists an inode is its parent, so there is one at most. *)
LEMMA ListedByParent ==
  ASSUME IInv, boot = "ready", NEW x \in Inodes, NEW d \in Directories(inodes),
         NEW e \in Listed(inodes, d), e.inode = x
  PROVE  ~inodes[x].free /\ inodes[x].parent = d /\ Claims(x) = 1
<1>1. PICK s \in Slots : s < inodes[d].bytes \div ENTRY /\ e = entries[d][s]
  BY DEF Listed
<1>2. Has(inodes, d, s) /\ entries[d][s].inode = x
  BY <1>1 DEF Has, Filled
<1>3. Rooted(inodes)
  BY DEF IInv, TreeInv
<1>4. ~inodes[x].free /\ inodes[x].parent = d
  BY <1>2, <1>3 DEF Rooted
<1>5. Owed(x)
  BY <1>2, <1>4 DEF Owed, ListedIn
<1> QED
  BY <1>4, <1>5 DEF Claims

(* A regular file in use has a reference for each open handle and one for  *)
(* its entry, so that neither unlink nor close frees a file still in use.  *)
THEOREM FilesInUseAreCounted == FileSpec => []RefsCoverUses
<1>1. ASSUME IInv, boot = "ready", NEW x \in Inodes, NEW H, H = {t \in Users : file[t].inode = x},
             NEW D, D = {d \in Directories(inodes) : \E e \in Listed(inodes, d) : e.inode = x}
      PROVE  /\ H # {} \/ D # {} => x \in Live
             /\ x \in Live /\ inodes[x].type = "REGULARFILE" =>
                  inodes[x].references >= Cardinality(H) + Cardinality(D)
  <2>1. RefsOK(x) /\ (\A t \in Users : HandleOK(t)) /\ inodes[x].references \in Int
    BY <1>1 DEF IInv, TreeInv, Shape, TableOK, InodeOK
  <2>2. \A d \in D : ~inodes[x].free /\ inodes[x].parent = d /\ Claims(x) = 1
    BY <1>1, ListedByParent
  <2>3. \A t \in H : ~inodes[x].free
    <3>1. x # -1
      BY MiniFileAssumption DEF Inodes
    <3> QED
      BY <1>1, <2>1, <3>1 DEF HandleOK
  <2>4. H # {} \/ D # {} => x \in Live
    BY <2>2, <2>3 DEF Live
  <2>5. Cardinality(D) \in Nat /\ Cardinality(D) <= Claims(x)
    <3>1. CASE D = {}
      BY <3>1, FS_EmptySet DEF Claims
    <3>2. CASE D # {}
      <4>1. D = {inodes[x].parent} /\ Claims(x) = 1
        BY <2>2, <3>2
      <4>2. Cardinality(D) = 1
        BY <4>1, FS_Singleton
      <4> QED
        BY <4>1, <4>2
    <3> QED
      BY <3>1, <3>2
  <2>6. Cardinality(H) \in Nat
    <3>1. H \in SUBSET Users
      BY <1>1
    <3>2. Users # {}
      BY MiniFileAssumption
    <3>3. PICK u \in Users : TRUE
      BY <3>2
    <3> QED
      BY <3>1, <3>3, HandleCount
  <2>7. ASSUME x \in Live PROVE inodes[x].references >= Cardinality(H) + Claims(x)
    <3>1. H = Handles(x)
      BY <1>1 DEF Handles
    <3> QED
      BY <2>1, <2>7, <3>1 DEF RefsOK, Live
  <2>8. Claims(x) \in Nat
    BY DEF Claims
  <2>9. ASSUME x \in Live PROVE inodes[x].references >= Cardinality(H) + Cardinality(D)
    BY <2>1, <2>5, <2>6, <2>7, <2>8, <2>9
  <2> QED
    BY <2>4, <2>9
<1>2. IInv => RefsCoverUses
  BY <1>1 DEF RefsCoverUses
<1> QED
  BY <1>2, InductiveInvariant, PTL

(* As long as nothing was removed, what the threads have put on the disk   *)
(* is a file system at every moment: no block shared or free in use, every *)
(* entry of a written directory leads to a written inode.                  *)
THEOREM DiskIsAlwaysSound == FileSpec => []DiskAlwaysSound
<1>1. ASSUME IInv, ~deleted
      PROVE  Rooted(onDisk.inodes) /\ NoBlockShared(onDisk.inodes, onDisk.free)
  <2>1. CASE boot = "ready"
    BY <1>1, <2>1, DiskSound
  <2>2. CASE boot # "ready"
    BY <1>1, <2>2 DEF IInv, ImageInv
  <2> QED
    BY <2>1, <2>2
<1>2. ASSUME NEW tb, Rooted(tb), NEW d \in Directories(tb), NEW e \in Listed(tb, d)
      PROVE  ~tb[e.inode].free
  <2>1. PICK s \in Slots : s < tb[d].bytes \div ENTRY /\ e = entries[d][s]
    BY <1>2 DEF Listed
  <2>2. Has(tb, d, s)
    BY <2>1 DEF Has, Filled
  <2> QED
    BY <1>2, <2>1, <2>2 DEF Rooted
<1>3. IInv => DiskAlwaysSound
  BY <1>1, <1>2 DEF DiskAlwaysSound
<1> QED
  BY <1>3, InductiveInvariant, PTL

-----------------------------------------------------------------------------
(* Who waits for a block gets the data of that block.  No two threads wait *)
(* for the same one, since each waits for a block of an inode that is its  *)
(* own for the length of the call; and that it is a block of the inode     *)
(* needs the lengths: a call stays within the table of direct blocks.      *)
Size == TABLE_SIZE * BLOCK
Spans(r) == r.pc \in {"write", "put", "read"} \/ Waits(r, "put") \/ Waits(r, "data")
Span(r) ==
  /\ Spans(r) => /\ r.cur \in Nat /\ r.offset \in 0 .. BLOCK - 1 /\ r.left \in Nat \ {0}
                 /\ r.cur * BLOCK + r.offset + r.left <= Size
  /\ Spans(r) \/ r.pc = "update" => r.end \in 0 .. Size
LengthsOK(tb) == \A x \in Inodes : tb[x].bytes \in 0 .. Size
LengthsInv ==
  /\ LengthsOK(inodes) /\ LengthsOK(onDisk.inodes)
  /\ \A t \in Users : file[t].position \in 0 .. Size /\ Span(th[t])

Held(r) == IF r.then \in {"put", "data"} THEN r.target ELSE r.on
AtBlock(tb, r) == r.blk \in 0 .. NumData - 1 /\ r.blk \in BlocksOf(tb[Held(r)].direct)
ReadsFile(r, f) == r.op = "read" => r.target = f.inode /\ r.target \in r.area
InLine ==
  /\ reads \in Seq(Users)
  /\ \A i \in 1 .. Len(reads) : th[reads[i]].pc = "wait" /\ ~th[reads[i]].got
  /\ \A i, j \in 1 .. Len(reads) : reads[i] = reads[j] => i = j
HasBlock(u, b) == th[u].pc = "wait" /\ th[u].got /\ th[u].blk = b
Counts ==
  /\ blockMutex \in [0 .. NumData - 1 -> {0, 1}]
  /\ \A b \in 0 .. NumData - 1 : blockMutex[b] = 1 => \E u \in Users : HasBlock(u, b)
WaitsInv ==
  /\ \A t \in Users : ReadsFile(th[t], file[t]) /\ (th[t].pc = "wait" => AtBlock(inodes, th[t]))
  /\ InLine /\ Counts

(* Whoever waits, waits for a block of an inode that its call may use.     *)
LEMMA HeldIs ==
  ASSUME IInv, boot = "ready", NEW t \in Users, th[t].pc = "wait", ReadsFile(th[t], file[t]),
         NEW x, x = Held(th[t])
  PROVE  /\ x \in th[t].area /\ x \in Inodes /\ ~inodes[x].free
         /\ x \in Directories(inodes) \/ Handles(x) # {} \/ th[t].op \in Walks
<1>1. PICK r : r = th[t]
  OBVIOUS
<1>2. Fits(t, r) /\ Legal(r) /\ Works(t, r) /\ HandleOK(t) /\ cwd[t] \in Directories(inodes)
  BY <1>1, Here DEF Fits
<1>3. r.area \subseteq Inodes /\ r.on \in Inodes /\ r.target \in Inodes
  BY <1>2 DEF Legal
<1>4. \/ r.then \in {"entry", "list", "shift"} /\ r.op \in NameOps \cup Walks
      \/ r.then = "put" /\ r.op \in NameOps /\ Writing(r)
      \/ r.then \in {"put", "data"} /\ r.op \in {"read", "write"}
  BY <1>1, <1>2 DEF Legal, Waits, Writing, NameOps
<1>5. CASE r.then \in {"entry", "list", "shift"} /\ r.op \in NameOps
  BY <1>1, <1>2, <1>5 DEF Held, Works, Directories
<1>6. CASE r.then \in {"entry", "list", "shift"} /\ r.op \in Walks
  BY <1>1, <1>2, <1>3, <1>6 DEF Held, Works
<1>7. CASE r.then = "put" /\ r.op \in NameOps /\ Writing(r)
  BY <1>1, <1>2, <1>7 DEF Held, Works, Directories
<1>8. CASE r.then \in {"put", "data"} /\ r.op \in {"read", "write"}
  <2>1. x = file[t].inode /\ x \in r.area /\ x # -1
    BY <1>1, <1>2, <1>8 DEF Held, Works, ReadsFile
  <2> QED
    BY <1>1, <1>2, <1>3, <2>1 DEF HandleOK, Handles
<1> QED
  BY <1>4, <1>5, <1>6, <1>7, <1>8

(* No two threads wait for the same block.                                 *)
LEMMA WaitApart ==
  ASSUME IInv, boot = "ready", WaitsInv, NEW t \in Users, th[t].pc = "wait",
         NEW u \in Users \ {t}, th[u].pc = "wait"
  PROVE  th[t].blk # th[u].blk
<1>1. PICK x : x = Held(th[t])
  OBVIOUS
<1>2. PICK y : y = Held(th[u])
  OBVIOUS
<1>3. x \in th[t].area /\ y \in th[u].area /\ x \in Inodes /\ y \in Inodes
      /\ ~inodes[x].free /\ ~inodes[y].free
  BY <1>1, <1>2, HeldIs DEF WaitsInv
<1>4. x # y
  BY <1>3, Here
<1>5. BlocksOf(inodes[x].direct) \cap BlocksOf(inodes[y].direct) = {}
  BY <1>3, <1>4 DEF IInv, BlocksInv, NoBlockShared
<1> QED
  BY <1>1, <1>2, <1>5 DEF WaitsInv, AtBlock

(* So the thread that gets the semaphore is the one the disk answered.     *)
LEMMA GotIt ==
  ASSUME IInv, boot = "ready", WaitsInv, NEW t \in Users, th[t].pc = "wait",
         blockMutex[th[t].blk] > 0
  PROVE  th[t].got
<1>1. th[t].blk \in 0 .. NumData - 1
  BY DEF WaitsInv, AtBlock
<1>2. blockMutex[th[t].blk] = 1
  BY <1>1 DEF WaitsInv, Counts
<1>3. PICK u \in Users : HasBlock(u, th[t].blk)
  BY <1>1, <1>2 DEF WaitsInv, Counts
<1>4. u = t
  BY <1>3, WaitApart DEF HasBlock
<1> QED
  BY <1>3, <1>4 DEF HasBlock

-----------------------------------------------------------------------------
(* What a step of a thread does to the lengths and to the others' blocks.  *)
Grows(x) == BlocksOf(inodes[x].direct) \subseteq BlocksOf(inodes'[x].direct)
KeepsBlocks(t) ==
  \A x \in Inodes : inodes[x].free \/ Grows(x) \/ (th[t].pc = "free" /\ x = th[t].inode)
Asks(t, s) ==
  /\ s.pc = "wait" /\ ~s.got /\ AtBlock(inodes', s)
  /\ reads' = Append(reads, t) /\ blockMutex' = blockMutex
Proceeds(t, s) ==
  /\ blockMutex[th[t].blk] > 0
  /\ blockMutex' = [blockMutex EXCEPT ![th[t].blk] = @ - 1]
  /\ reads' = reads
  /\ s.pc # "wait" \/ s = th[t]
Requests(t, s) ==
  IF th[t].pc = "wait" THEN Proceeds(t, s)
  ELSE Asks(t, s) \/ (s.pc # "wait" /\ reads' = reads /\ blockMutex' = blockMutex)
Effect(t, s) ==
  /\ th' = [th EXCEPT ![t] = s]
  /\ \A u \in Users \ {t} : file'[u] = file[u]
  /\ LengthsOK(inodes') /\ LengthsOK(onDisk'.inodes)
  /\ file'[t].position \in 0 .. Size /\ Span(s) /\ ReadsFile(s, file'[t])
  /\ KeepsBlocks(t) /\ Requests(t, s)

KInv == LengthsInv /\ WaitsInv

(* No step takes a block from an inode that another thread waits for.      *)
LEMMA HeldKept ==
  ASSUME IInv, boot = "ready", WaitsInv, NEW t \in Users, KeepsBlocks(t), NEW u \in Users,
         th[u].pc = "wait"
  PROVE  AtBlock(inodes', th[u])
<1>1. PICK x : x = Held(th[u])
  OBVIOUS
<1>2. /\ x \in th[u].area /\ x \in Inodes /\ ~inodes[x].free
      /\ x \in Directories(inodes) \/ Handles(x) # {} \/ th[u].op \in Walks
  BY <1>1, HeldIs DEF WaitsInv
<1>3. ~(th[t].pc = "free" /\ x = th[t].inode)
  <2>1. SUFFICES ASSUME th[t].pc = "free", x = th[t].inode PROVE FALSE
    OBVIOUS
  <2>2. inodes[x].type = "REGULARFILE" /\ Handles(x) = {}
    BY <2>1, Here DEF Fits, FreesOne, Unknown
  <2>3. th[u].op \notin Walks
    <3>1. u # t /\ th[t].pc # "idle"
      BY <2>1
    <3> QED
      BY <3>1, NoWalker
  <2> QED
    BY <1>2, <2>2, <2>3 DEF Directories
<1>4. Grows(x)
  BY <1>2, <1>3 DEF KeepsBlocks
<1> QED
  BY <1>1, <1>4 DEF WaitsInv, AtBlock, Grows

(* The queue of the disk and the semaphores, after a step of a thread.     *)
LEMMA QueueKept ==
  ASSUME IInv, boot = "ready", WaitsInv, NEW t \in Users, NEW s,
         th' = [th EXCEPT ![t] = s], Requests(t, s)
  PROVE  InLine' /\ Counts'
<1>1. th'[t] = s /\ \A u \in Users \ {t} : th'[u] = th[u]
  BY Here
<1>2. InLine /\ Counts
  BY DEF WaitsInv
<1>3. CASE th[t].pc # "wait" /\ reads' = reads /\ blockMutex' = blockMutex
  <2>1. \A i \in 1 .. Len(reads) : reads[i] \in Users /\ reads[i] # t
    BY <1>2, <1>3 DEF InLine
  <2>2. InLine'
    BY <1>1, <1>2, <1>3, <2>1 DEF InLine
  <2>3. \A u \in Users, b \in 0 .. NumData - 1 : HasBlock(u, b) => HasBlock(u, b)'
    BY <1>1, <1>3 DEF HasBlock
  <2> QED
    BY <1>2, <1>3, <2>2, <2>3 DEF Counts
<1>4. CASE th[t].pc # "wait" /\ Asks(t, s)
  <2>1. \A i \in 1 .. Len(reads) : reads[i] \in Users /\ reads[i] # t
    BY <1>2, <1>4 DEF InLine
  <2>2. /\ reads' \in Seq(Users) /\ Len(reads') = Len(reads) + 1 /\ Len(reads) \in Nat
        /\ reads'[Len(reads) + 1] = t
        /\ \A i \in 1 .. Len(reads) : reads'[i] = reads[i]
    BY <1>2, <1>4 DEF InLine, Asks
  <2>3. InLine'
    <3>1. \A i \in 1 .. Len(reads') : i \in 1 .. Len(reads) \/ i = Len(reads) + 1
      BY <2>2
    <3>2. \A i \in 1 .. Len(reads') : th'[reads'[i]].pc = "wait" /\ ~th'[reads'[i]].got
      BY <1>1, <1>2, <1>4, <2>1, <2>2, <3>1 DEF InLine, Asks
    <3>3. \A i, j \in 1 .. Len(reads') : reads'[i] = reads'[j] => i = j
      BY <1>2, <2>1, <2>2, <3>1 DEF InLine
    <3> QED
      BY <2>2, <3>2, <3>3 DEF InLine
  <2>4. \A u \in Users, b \in 0 .. NumData - 1 : HasBlock(u, b) => HasBlock(u, b)'
    BY <1>1, <1>4 DEF HasBlock
  <2>5. blockMutex' = blockMutex
    BY <1>4 DEF Asks
  <2> QED
    BY <1>2, <2>3, <2>4, <2>5 DEF Counts
<1>5. CASE th[t].pc = "wait" /\ Proceeds(t, s)
  <2>1. th[t].got /\ reads' = reads
    BY <1>5, GotIt DEF Proceeds
  <2>2. \A i \in 1 .. Len(reads) : reads[i] \in Users /\ reads[i] # t
    BY <1>2, <2>1 DEF InLine
  <2>3. InLine'
    BY <1>1, <1>2, <2>1, <2>2 DEF InLine
  <2>4. PICK c : c = th[t].blk
    OBVIOUS
  <2>5. /\ c \in 0 .. NumData - 1 /\ blockMutex[c] = 1
        /\ blockMutex' = [blockMutex EXCEPT ![c] = 0]
    <3>1. c \in 0 .. NumData - 1 /\ blockMutex[c] > 0
      BY <1>5, <2>4 DEF Proceeds, WaitsInv, AtBlock
    <3>2. blockMutex[c] = 1
      BY <1>2, <3>1 DEF Counts
    <3>3. blockMutex' = [blockMutex EXCEPT ![c] = blockMutex[c] - 1]
      BY <1>5, <2>4 DEF Proceeds
    <3> QED
      BY <3>1, <3>2, <3>3
  <2>6. blockMutex' \in [0 .. NumData - 1 -> {0, 1}]
    BY <1>2, <2>5 DEF Counts
  <2>7. ASSUME NEW b \in 0 .. NumData - 1, blockMutex'[b] = 1 PROVE \E u \in Users : HasBlock(u, b)'
    <3>1. b # c /\ blockMutex[b] = 1
      BY <1>2, <2>5, <2>7 DEF Counts
    <3>2. PICK u \in Users : HasBlock(u, b)
      BY <1>2, <3>1 DEF Counts
    <3>3. u # t
      BY <2>4, <3>1, <3>2 DEF HasBlock
    <3> QED
      BY <1>1, <3>2, <3>3 DEF HasBlock
  <2> QED
    BY <2>3, <2>6, <2>7 DEF Counts
<1> QED
  BY <1>3, <1>4, <1>5 DEF Requests

(* So every step with such an effect keeps what is said here.              *)
LEMMA EffectKeeps ==
  ASSUME IInv, boot = "ready", KInv, NEW t \in Users, NEW s, Effect(t, s)
  PROVE  KInv'
<1>1. th'[t] = s /\ \A u \in Users \ {t} : th'[u] = th[u]
  BY Here DEF Effect
<1>2. LengthsInv'
  BY <1>1 DEF KInv, LengthsInv, Effect
<1>3. InLine' /\ Counts'
  BY QueueKept DEF Effect, KInv
<1>4. ASSUME NEW u \in Users
      PROVE  ReadsFile(th'[u], file'[u]) /\ (th'[u].pc = "wait" => AtBlock(inodes', th'[u]))
  <2>1. CASE u # t
    BY <1>1, <2>1, HeldKept DEF Effect, KInv, WaitsInv
  <2>2. CASE u = t
    <3>1. s.pc = "wait" => AtBlock(inodes', s)
      BY HeldKept DEF Effect, Requests, Asks, Proceeds, KInv
    <3> QED
      BY <1>1, <2>2, <3>1 DEF Effect
  <2> QED
    BY <2>1, <2>2
<1> QED
  BY <1>2, <1>3, <1>4 DEF KInv, WaitsInv

-----------------------------------------------------------------------------
(* A position is a block and an offset in it.                              *)
LEMMA SizeIs ==
  /\ Size \in Nat /\ BLOCK \in Nat \ {0} /\ TABLE_SIZE \in Nat \ {0} /\ BLOCK <= Size
<1>1. TABLE_SIZE \in Nat \ {0, 1} /\ BLOCK \in Nat \ {0}
  BY Sizes, MiniFileAssumption
<1>2. PICK k : k = TABLE_SIZE - 1
  OBVIOUS
<1>3. k \in Nat /\ TABLE_SIZE = k + 1
  BY <1>1, <1>2
<1>4. (k + 1) * BLOCK = k * BLOCK + BLOCK /\ k * BLOCK \in Nat
  BY <1>1, <1>3
<1> QED
  BY <1>1, <1>3, <1>4 DEF Size

(* The block and the offset give the position back.                        *)
LEMMA PositionIs ==
  ASSUME NEW p \in Nat
  PROVE  /\ p \div BLOCK \in Nat /\ p % BLOCK \in 0 .. BLOCK - 1
         /\ (p \div BLOCK) * BLOCK + (p % BLOCK) = p
<1>1. BLOCK \in Nat \ {0}
  BY Sizes
<1>2. p \div BLOCK \in Nat /\ p % BLOCK \in 0 .. BLOCK - 1
  BY <1>1
<1>3. p = BLOCK * (p \div BLOCK) + (p % BLOCK)
  BY <1>1
<1>4. BLOCK * (p \div BLOCK) = (p \div BLOCK) * BLOCK
  BY <1>1, <1>2
<1> QED
  BY <1>2, <1>3, <1>4

(* What is left of a read or a write begins in a block of the table.       *)
LEMMA InTable ==
  ASSUME NEW r, Spans(r), Span(r)
  PROVE  /\ r.cur \in 0 .. TABLE_SIZE - 1 /\ r.cur \in Nat /\ r.offset \in 0 .. BLOCK - 1
         /\ r.left \in Nat \ {0} /\ r.cur * BLOCK \in Nat
         /\ r.cur * BLOCK + r.offset + r.left <= Size /\ r.end \in 0 .. Size
<1>1. PICK c : c = r.cur
  OBVIOUS
<1>2. /\ c \in Nat /\ r.offset \in 0 .. BLOCK - 1 /\ r.left \in Nat \ {0} /\ r.end \in 0 .. Size
      /\ c * BLOCK + r.offset + r.left <= Size
  BY <1>1 DEF Span
<1>3. BLOCK \in Nat \ {0} /\ TABLE_SIZE \in Nat \ {0} /\ Size = TABLE_SIZE * BLOCK /\ Size \in Nat
  BY SizeIs DEF Size
<1>4. c * BLOCK \in Nat
  BY <1>2, <1>3
<1>5. c < TABLE_SIZE
  <2>1. SUFFICES ASSUME TABLE_SIZE <= c PROVE FALSE
    BY <1>2, <1>3
  <2>2. PICK k : k = c - TABLE_SIZE
    OBVIOUS
  <2>3. k \in Nat /\ c = TABLE_SIZE + k
    BY <1>2, <1>3, <2>1, <2>2
  <2>4. (TABLE_SIZE + k) * BLOCK = TABLE_SIZE * BLOCK + k * BLOCK /\ k * BLOCK \in Nat
    BY <1>3, <2>3
  <2> QED
    BY <1>2, <1>3, <1>4, <2>3, <2>4
<1> QED
  BY <1>1, <1>2, <1>3, <1>4, <1>5

(* The entries of a directory are in its first block.                      *)
LEMMA EntryFits ==
  ASSUME NEW n \in Nat, n < NumSlots
  PROVE  n * ENTRY \in Nat /\ n * ENTRY + ENTRY <= Size /\ ENTRY \in Nat \ {0}
<1>1. n * ENTRY \in Nat /\ n * ENTRY + ENTRY <= BLOCK
  BY Multiple
<1> QED
  BY <1>1, SizeIs, Sizes

(* A read or a write begins at a position from which there is room.        *)
LEMMA SpanIs ==
  ASSUME NEW s, NEW p \in Nat, NEW len \in Nat \ {0}, p + len <= Size,
         s.cur = p \div BLOCK, s.offset = p % BLOCK, s.left = len, s.end = p + len
  PROVE  Span(s)
<1>1. /\ s.cur \in Nat /\ s.offset \in 0 .. BLOCK - 1 /\ s.cur * BLOCK + s.offset = p
      /\ s.cur * BLOCK \in Nat
  <2>1. PICK c : c = p \div BLOCK
    OBVIOUS
  <2>2. PICK o : o = p % BLOCK
    OBVIOUS
  <2>3. c \in Nat /\ o \in 0 .. BLOCK - 1 /\ c * BLOCK + o = p
    BY <2>1, <2>2, PositionIs
  <2>4. c * BLOCK \in Nat
    BY <2>3, SizeIs
  <2> QED
    BY <2>1, <2>2, <2>3, <2>4
<1>2. s.cur * BLOCK + s.offset + s.left <= Size /\ s.end \in 0 .. Size
  <2>1. PICK q : q = s.cur * BLOCK + s.offset
    OBVIOUS
  <2>2. q = p
    BY <1>1, <2>1
  <2>3. q + s.left <= Size
    BY <2>2
  <2> QED
    BY <2>1, <2>2, <2>3, SizeIs
<1> QED
  BY <1>1, <1>2 DEF Span

Begun(r, x, p, len) ==
  [r EXCEPT !.target = x, !.cur = p \div BLOCK, !.offset = p % BLOCK, !.left = len,
            !.end = p + len, !.pc = "write"]
(* A write that begins stays within the inode.                             *)
LEMMA BeginIs ==
  ASSUME NEW r, DOMAIN r = Fields, NEW x, NEW p \in Nat, NEW len \in Nat \ {0},
         p + len <= Size, NEW s, s = Begun(r, x, p, len)
  PROVE  Span(s) /\ s.pc = "write" /\ s.op = r.op
<1>1. /\ s.cur = p \div BLOCK /\ s.offset = p % BLOCK /\ s.left = len /\ s.end = p + len
      /\ s.pc = "write" /\ s.op = r.op
  BY DEF Begun, Fields
<1> QED
  BY <1>1, SpanIs

-----------------------------------------------------------------------------
(* The steps that change no inode.                                         *)
Light(s) ==
  s.pc \in {"idle", "scan", "allocate", "made", "shift", "free", "return"} /\ s.op # "read"
Still == UNCHANGED <<inodes, onDisk, file>>

(* Going to such a place is such a step.                                   *)
LEMMA LightIs ==
  ASSUME NEW t, NEW r, DOMAIN r = Fields, r.op # "read", NEW pc,
         pc \in {"idle", "scan", "allocate", "made", "shift", "free", "return"}, Goto(t, r, pc)
  PROVE  \E s : th' = [th EXCEPT ![t] = s] /\ Light(s) /\ s.pc = pc
<1>1. PICK s : s = [r EXCEPT !.pc = pc]
  OBVIOUS
<1>2. s.pc = pc /\ s.op = r.op
  BY <1>1 DEF Fields
<1>3. Light(s)
  BY <1>2 DEF Light
<1> QED
  BY <1>1, <1>2, <1>3 DEF Goto

(* Who is there has nothing left to read or write.                         *)
LEMMA LightSpan ==
  ASSUME NEW s, Light(s)
  PROVE  s.pc # "wait" /\ Span(s) /\ \A f : ReadsFile(s, f)
BY DEF Light, Span, Spans, Waits, ReadsFile

(* So has who is in no call.                                               *)
LEMMA IdleLight == Light(Idle) /\ Idle.pc # "free"
BY DEF Light, Idle

(* A step that changes no inode and no handle.                             *)
LEMMA StillEffect ==
  ASSUME IInv, boot = "ready", KInv, NEW t \in Users, NEW s, th' = [th EXCEPT ![t] = s],
         Still, Span(s), ReadsFile(s, file[t]), Requests(t, s)
  PROVE  Effect(t, s)
<1>1. LengthsOK(inodes') /\ LengthsOK(onDisk'.inodes) /\ file'[t].position \in 0 .. Size
  BY DEF Still, KInv, LengthsInv
<1>2. KeepsBlocks(t)
  BY DEF Still, KeepsBlocks, Grows
<1> QED
  BY <1>1, <1>2 DEF Effect, Still

(* It gets the semaphore it waits for, if it waits, and asks for nothing.  *)
Passes(t) ==
  IF th[t].pc = "wait"
    THEN /\ blockMutex[th[t].blk] > 0 /\ reads' = reads
         /\ blockMutex' = [blockMutex EXCEPT ![th[t].blk] = @ - 1]
    ELSE UNCHANGED requests_

(* Nobody is asked, and who waited goes on.                                *)
LEMMA PassRequests ==
  ASSUME NEW t, NEW s, Passes(t), s.pc # "wait" \/ s = th[t]
  PROVE  Requests(t, s)
BY DEF Passes, Requests, Proceeds, requests_

(* A step to a place with nothing left to read or write.                   *)
LEMMA LightEffect ==
  ASSUME IInv, boot = "ready", KInv, NEW t \in Users, NEW s, th' = [th EXCEPT ![t] = s], Light(s),
         Still, Passes(t)
  PROVE  \E q : Effect(t, q)
<1>1. s.pc # "wait" /\ Span(s) /\ ReadsFile(s, file[t])
  BY LightSpan
<1>2. Requests(t, s)
  BY <1>1, PassRequests
<1> QED
  BY <1>1, <1>2, StillEffect

(* The program ends in this step.                                          *)
LEMMA EndEffect ==
  ASSUME IInv, boot = "ready", KInv, NEW t \in Users, UNCHANGED th, Still, Passes(t)
  PROVE  \E q : Effect(t, q)
<1>1. th' = [th EXCEPT ![t] = th[t]]
  BY Here
<1>2. Span(th[t]) /\ ReadsFile(th[t], file[t])
  BY DEF KInv, LengthsInv, WaitsInv
<1>3. Requests(t, th[t])
  BY PassRequests
<1> QED
  BY <1>1, <1>2, <1>3, StillEffect

(* A thread asks for a block of the inode it works on.                     *)
LEMMA AskEffect ==
  ASSUME IInv, boot = "ready", KInv, NEW t \in Users, th[t].pc # "wait", Still,
         NEW what, NEW x \in Inodes, NEW k \in 0 .. TABLE_SIZE - 1,
         get_data_block(t, th[t], inodes[x].direct[k], what),
         \/ what \in {"entry", "list", "shift"} /\ x = th[t].on
         \/ th[t].pc = "write" /\ what = "put" /\ x = th[t].target
         \/ th[t].pc = "read" /\ what = "data" /\ x = th[t].target
  PROVE  \E q : Effect(t, q)
<1>1. PICK r : r = th[t]
  OBVIOUS
<1>2. PICK b : b = inodes[x].direct[k]
  OBVIOUS
<1>3. CASE b \notin 0 .. NumData - 1
  <2>1. UNCHANGED th /\ UNCHANGED requests_
    BY <1>2, <1>3 DEF get_data_block, Fault
  <2>2. Passes(t)
    BY <2>1 DEF Passes
  <2> QED
    BY <2>1, <2>2, EndEffect
<1>4. CASE b \in 0 .. NumData - 1
  <2>1. PICK s : s = Waiting(r, b, what)
    OBVIOUS
  <2>2. /\ th' = [th EXCEPT ![t] = s] /\ reads' = Append(reads, t) /\ blockMutex' = blockMutex
    BY <1>1, <1>2, <1>4, <2>1 DEF get_data_block, Goto, Waiting, Queued
  <2>3. DOMAIN r = Fields
    BY <1>1, Here
  <2>4. /\ s.pc = "wait" /\ s.then = what /\ s.op = r.op /\ s.area = r.area /\ s.on = r.on
        /\ s.target = r.target /\ s.cur = r.cur /\ s.offset = r.offset /\ s.left = r.left
        /\ s.end = r.end /\ s.blk = b /\ ~s.got
    BY <2>1, <2>3 DEF Waiting, Fields
  <2>5. Held(s) = x
    BY <1>1, <2>4 DEF Held
  <2>6. AtBlock(inodes', s)
    <3>1. DOMAIN inodes[x].direct = 0 .. TABLE_SIZE - 1
      BY DEF IInv, Shape, TableOK, InodeOK
    <3>2. b \in BlocksOf(inodes[x].direct)
      BY <1>2, <1>4, <3>1 DEF BlocksOf
    <3> QED
      BY <1>4, <2>4, <2>5, <3>2 DEF AtBlock, Still
  <2>7. Span(r) /\ ReadsFile(r, file[t])
    BY <1>1 DEF KInv, LengthsInv, WaitsInv
  <2>8. Span(s)
    BY <1>1, <2>4, <2>7 DEF Span, Spans, Waits
  <2>9. ReadsFile(s, file[t])
    BY <2>4, <2>7 DEF ReadsFile
  <2>10. Requests(t, s)
    BY <2>2, <2>4, <2>6 DEF Requests, Asks
  <2> QED
    BY <2>2, <2>8, <2>9, <2>10, StillEffect
<1> QED
  BY <1>3, <1>4

(* An inode has a first block.                                             *)
LEMMA FirstBlock == 0 \in 0 .. TABLE_SIZE - 1
BY SizeIs

(* A round of the loop over the entries, before its block is asked for.    *)
LEMMA AfterUnlinkLight ==
  ASSUME NEW t, NEW r, DOMAIN r = Fields, AfterUnlink(t, r)
  PROVE  \E s : th' = [th EXCEPT ![t] = s] /\ Light(s) /\ s.pc # "free"
<1>1. CASE r.mode = "w"
  <2>1. PICK q : q = [r EXCEPT !.op = "creat", !.i = 0]
    OBVIOUS
  <2>2. DOMAIN q = Fields /\ q.op = "creat" /\ Goto(t, q, "scan")
    BY <1>1, <2>1 DEF AfterUnlink, Fields
  <2> QED
    BY <2>2, LightIs
<1>2. CASE r.mode # "w"
  BY <1>2, IdleLight DEF AfterUnlink, Return
<1> QED
  BY <1>1, <1>2

(* The name is not there: the call goes on without a block.                *)
LEMMA MissingLight ==
  ASSUME NEW t, NEW r, DOMAIN r = Fields, r.op # "read", Missing(t, r)
  PROVE  \E s : th' = [th EXCEPT ![t] = s] /\ Light(s) /\ s.pc # "free"
<1>1. CASE r.op \in {"creat", "mkdir"}
  <2>1. Goto(t, r, "allocate")
    BY <1>1 DEF Missing, Walks
  <2> QED
    BY <2>1, LightIs
<1>2. CASE r.op = "open" /\ r.mode \in {"w", "a"}
  <2>1. PICK q : q = [r EXCEPT !.op = "creat", !.i = 0]
    OBVIOUS
  <2>2. DOMAIN q = Fields /\ q.op = "creat" /\ Goto(t, q, "scan")
    BY <1>2, <2>1 DEF Missing, Fields, Walks
  <2> QED
    BY <2>2, LightIs
<1>3. CASE r.op \in Walks
  <2>1. PICK q : q = [r EXCEPT !.path = Tail(@), !.i = 0, !.found = FALSE]
    OBVIOUS
  <2>2. DOMAIN q = Fields /\ q.op = r.op /\ Goto(t, q, "scan")
    BY <1>3, <2>1 DEF Missing, Fields, Walks
  <2> QED
    BY <2>2, LightIs
<1>4. CASE r.op \notin {"creat", "mkdir"} \cup Walks /\ ~(r.op = "open" /\ r.mode \in {"w", "a"})
  BY <1>4, IdleLight DEF Missing, Return
<1> QED
  BY <1>1, <1>2, <1>3, <1>4

(* A round of the loop over the entries.                                   *)
LEMMA ScanEffect ==
  ASSUME IInv, boot = "ready", KInv, NEW t \in Users, Scan(t)
  PROVE  \E q : Effect(t, q)
<1>1. PICK r : r = th[t]
  OBVIOUS
<1>2. r.pc = "scan" /\ Still
  BY <1>1 DEF Scan, At, memory, Still
<1>3. DOMAIN r = Fields /\ r.on \in Inodes /\ r.op # "read"
  BY <1>1, <1>2, Here DEF Fits, Legal, NameOps, Walks
<1>4. CASE Return(t) /\ UNCHANGED requests_
  BY <1>1, <1>2, <1>4, IdleLight, LightEffect DEF Return, Passes
<1>5. CASE Missing(t, r) /\ UNCHANGED requests_
  BY <1>1, <1>2, <1>3, <1>5, MissingLight, LightEffect DEF Passes
<1>6. ASSUME NEW what \in {"entry", "list"}, get_data_block(t, r, inodes[r.on].direct[0], what)
      PROVE  \E q : Effect(t, q)
  BY <1>1, <1>2, <1>3, <1>6, AskEffect, FirstBlock
<1> QED
  BY <1>1, <1>4, <1>5, <1>6 DEF Scan, Resolved

(* A round of inode_read asks for a block of the table.                    *)
LEMMA ReadEffect ==
  ASSUME IInv, boot = "ready", KInv, NEW t \in Users, Read(t)
  PROVE  \E q : Effect(t, q)
<1>1. th[t].pc = "read" /\ Still /\ th[t].target \in Inodes
  BY Here DEF Read, At, memory, handles, Still, Fits, Legal
<1>2. th[t].cur \in 0 .. TABLE_SIZE - 1
  BY <1>1, InTable DEF KInv, LengthsInv, Spans
<1> QED
  BY <1>1, <1>2, AskEffect DEF Read

(* A call that had nothing to do returns.                                  *)
LEMMA ReturnsEffect ==
  ASSUME IInv, boot = "ready", KInv, NEW t \in Users, Returns(t)
  PROVE  \E q : Effect(t, q)
BY IdleLight, LightEffect DEF Returns, At, Return, memory, handles, Still, Passes

-----------------------------------------------------------------------------
(* A thread gets its block and goes on: with the next block of a write,    *)
PutOn(r, left, pc) == [r EXCEPT !.left = left, !.offset = 0, !.cur = @ + 1, !.pc = pc]
(* A round of inode_write leaves what is behind its block.                 *)
LEMMA PutSpan ==
  ASSUME NEW r, DOMAIN r = Fields, Putting(r), Span(r), r.op # "read", NEW left,
         left = IF r.left < BLOCK - r.offset THEN 0 ELSE r.left - BLOCK,
         NEW s, s = PutOn(r, left, IF left > 0 THEN "write" ELSE "update")
  PROVE  Span(s) /\ s.pc # "wait" /\ s.op = r.op
<1>1. Spans(r)
  BY DEF Putting, Spans, Waits
<1>2. /\ r.cur \in Nat /\ r.offset \in 0 .. BLOCK - 1 /\ r.left \in Nat \ {0} /\ r.cur * BLOCK \in Nat
      /\ r.cur * BLOCK + r.offset + r.left <= Size /\ r.end \in 0 .. Size
  BY <1>1, InTable
<1>3. /\ s.left = left /\ s.offset = 0 /\ s.cur = r.cur + 1 /\ s.end = r.end /\ s.op = r.op
      /\ s.pc = IF left > 0 THEN "write" ELSE "update"
  BY DEF PutOn, Fields
<1>4. CASE left > 0
  <2>1. PICK c : c = r.cur
    OBVIOUS
  <2>2. PICK m : m = c * BLOCK
    OBVIOUS
  <2>3. c \in Nat /\ m \in Nat /\ m + r.offset + r.left <= Size /\ Size \in Nat /\ BLOCK \in Nat \ {0}
    BY <1>2, <2>1, <2>2, SizeIs
  <2>4. (c + 1) * BLOCK = m + BLOCK
    BY <2>2, <2>3
  <2>5. left = r.left - BLOCK /\ left \in Nat \ {0}
    BY <1>2, <1>4, <2>3
  <2>6. m + BLOCK + 0 + left <= Size
    BY <1>2, <2>3, <2>5
  <2>7. s.pc = "write" /\ s.cur = c + 1
    BY <1>3, <1>4, <2>1
  <2>8. s.cur * BLOCK + s.offset + s.left <= Size
    BY <1>3, <2>4, <2>6, <2>7
  <2>9. s.cur \in Nat /\ s.offset \in 0 .. BLOCK - 1 /\ s.left \in Nat \ {0} /\ s.end \in 0 .. Size
    BY <1>2, <1>3, <2>3, <2>5, <2>7
  <2> QED
    BY <1>3, <2>7, <2>8, <2>9 DEF Span
<1>5. CASE ~(left > 0)
  <2>1. s.pc = "update"
    BY <1>3, <1>5
  <2> QED
    BY <1>2, <1>3, <2>1 DEF Span, Spans, Waits
<1> QED
  BY <1>4, <1>5

(* A block is written, or the write goes astray.                           *)
LEMMA PutEffect ==
  ASSUME IInv, boot = "ready", KInv, NEW t \in Users, PutBlock(t, th[t]), Putting(th[t]), Still,
         Passes(t)
  PROVE  \E q : Effect(t, q)
<1>1. PICK r : r = th[t]
  OBVIOUS
<1>2. CASE UNCHANGED th
  BY <1>2, EndEffect
<1>3. CASE ~UNCHANGED th
  <2>1. PICK left : left = IF r.left < BLOCK - r.offset THEN 0 ELSE r.left - BLOCK
    OBVIOUS
  <2>2. PICK s : s = PutOn(r, left, IF left > 0 THEN "write" ELSE "update")
    OBVIOUS
  <2>3. th' = [th EXCEPT ![t] = s]
    BY <1>1, <1>3, <2>1, <2>2 DEF PutBlock, Fault, Goto, PutOn
  <2>4. DOMAIN r = Fields /\ r.op # "read"
    BY <1>1, Here DEF Fits, Legal, Putting, Writing
  <2>5. Span(r)
    BY <1>1 DEF KInv, LengthsInv
  <2>6. Span(s) /\ s.pc # "wait" /\ s.op = r.op
    BY <1>1, <2>1, <2>2, <2>4, <2>5, PutSpan
  <2>7. ReadsFile(s, file[t]) /\ Requests(t, s)
    BY <2>4, <2>6, PassRequests DEF ReadsFile
  <2> QED
    BY <2>3, <2>6, <2>7, StillEffect
<1> QED
  BY <1>2, <1>3

(* of a read,                                                              *)
CopyOn(r) == [r EXCEPT !.left = @ - (BLOCK - r.offset), !.offset = 0, !.cur = @ + 1, !.pc = "read"]
(* A round of inode_read leaves what is behind its block.                  *)
LEMMA CopySpan ==
  ASSUME NEW r, DOMAIN r = Fields, Waits(r, "data"), Span(r), r.left > BLOCK - r.offset,
         NEW s, s = CopyOn(r)
  PROVE  Span(s) /\ s.pc # "wait" /\ s.op = r.op /\ s.target = r.target /\ s.area = r.area
<1>1. Spans(r)
  BY DEF Spans, Waits
<1>2. /\ r.cur \in Nat /\ r.offset \in 0 .. BLOCK - 1 /\ r.left \in Nat \ {0} /\ r.cur * BLOCK \in Nat
      /\ r.cur * BLOCK + r.offset + r.left <= Size /\ r.end \in 0 .. Size
  BY <1>1, InTable
<1>3. /\ s.left = r.left - (BLOCK - r.offset) /\ s.offset = 0 /\ s.cur = r.cur + 1 /\ s.end = r.end
      /\ s.op = r.op /\ s.pc = "read" /\ s.target = r.target /\ s.area = r.area
  BY DEF CopyOn, Fields
<1>4. PICK c : c = r.cur
  OBVIOUS
<1>5. PICK m : m = c * BLOCK
  OBVIOUS
<1>6. c \in Nat /\ m \in Nat /\ m + r.offset + r.left <= Size /\ Size \in Nat /\ BLOCK \in Nat \ {0}
  BY <1>2, <1>4, <1>5, SizeIs
<1>7. (c + 1) * BLOCK = m + BLOCK
  BY <1>5, <1>6
<1>8. s.left \in Nat \ {0} /\ m + BLOCK + 0 + s.left <= Size
  BY <1>2, <1>3, <1>6
<1>9. s.cur * BLOCK + s.offset + s.left <= Size /\ s.cur \in Nat /\ s.offset \in 0 .. BLOCK - 1
  BY <1>3, <1>4, <1>6, <1>7, <1>8
<1> QED
  BY <1>2, <1>3, <1>8, <1>9 DEF Span

(* A block is copied to the reader.                                        *)
LEMMA CopyEffect ==
  ASSUME IInv, boot = "ready", KInv, NEW t \in Users, Copies(t, th[t]), Waits(th[t], "data"),
         UNCHANGED <<inodes, onDisk>>, Passes(t)
  PROVE  \E q : Effect(t, q)
<1>1. PICK r : r = th[t]
  OBVIOUS
<1>2. DOMAIN r = Fields
  BY <1>1, Here
<1>3. Span(r) /\ ReadsFile(r, file[t]) /\ Waits(r, "data")
  BY <1>1 DEF KInv, LengthsInv, WaitsInv
<1>4. CASE r.left > BLOCK - r.offset
  <2>1. PICK s : s = CopyOn(r)
    OBVIOUS
  <2>2. th' = [th EXCEPT ![t] = s] /\ Still
    BY <1>1, <1>4, <2>1 DEF Copies, Goto, CopyOn, Still
  <2>3. Span(s) /\ s.pc # "wait" /\ s.op = r.op /\ s.target = r.target /\ s.area = r.area
    BY <1>2, <1>3, <1>4, <2>1, CopySpan
  <2>4. ReadsFile(s, file[t]) /\ Requests(t, s)
    BY <1>3, <2>3, PassRequests DEF ReadsFile
  <2> QED
    BY <2>2, <2>3, <2>4, StillEffect
<1>5. CASE ~(r.left > BLOCK - r.offset)
  <2>1. Return(t) /\ file' = [file EXCEPT ![t].position = r.end]
    BY <1>1, <1>5 DEF Copies
  <2>2. file = [u \in Users |-> file[u]] /\ FileOK(file[t])
    BY Here
  <2>3. file'[t].position = r.end /\ \A u \in Users \ {t} : file'[u] = file[u]
    BY <2>1, <2>2 DEF FileOK
  <2>4. r.end \in 0 .. Size
    BY <1>3 DEF Span, Spans
  <2>5. LengthsOK(inodes') /\ LengthsOK(onDisk'.inodes) /\ KeepsBlocks(t)
    BY DEF KInv, LengthsInv, KeepsBlocks, Grows
  <2>6. Idle.pc # "wait" /\ Span(Idle) /\ ReadsFile(Idle, file'[t])
    BY IdleLight, LightSpan
  <2>7. Requests(t, Idle)
    BY <2>6, PassRequests
  <2> QED
    BY <2>1, <2>3, <2>4, <2>5, <2>6, <2>7 DEF Effect, Return
<1> QED
  BY <1>4, <1>5

(* with the entry behind the hole.                                         *)
LEMMA MoveEntryEffect ==
  ASSUME IInv, boot = "ready", KInv, NEW t \in Users, Waits(th[t], "shift"), Still, Passes(t),
         BeginWrite(t, [th[t] EXCEPT !.entry = entries[th[t].on][th[t].i]],
                    th[t].on, (th[t].i - 1) * ENTRY, ENTRY)
  PROVE  \E q : Effect(t, q)
<1>1. PICK r : r = th[t]
  OBVIOUS
<1>2. PICK e : e = entries[r.on][r.i]
  OBVIOUS
<1>3. PICK w : w = [r EXCEPT !.entry = e]
  OBVIOUS
<1>4. Fits(t, r) /\ Legal(r) /\ DOMAIN r = Fields /\ Works(t, r) /\ RemovesOne(r) /\ Waits(r, "shift")
  BY <1>1, Here DEF Fits
<1>5. r.op \in {"unlink", "rmdir"} /\ r.i \in Nat /\ r.i < Filled(inodes, r.on) /\ r.on = cwd[t]
  BY <1>4 DEF Legal, Works, NameOps
<1>6. r.on \in Directories(inodes)
  BY <1>5, Here
<1>7. r.i > 0
  BY <1>4, <1>5 DEF RemovesOne, Removing
<1>8. Filled(inodes, r.on) \in 0 .. NumSlots
  BY <1>6, FilledIs DEF IInv, TreeInv
<1>9. PICK k : k = r.i - 1
  OBVIOUS
<1>10. k \in Nat /\ k < NumSlots
  BY <1>5, <1>7, <1>8, <1>9, Sizes
<1>11. PICK p : p = k * ENTRY
  OBVIOUS
<1>12. p \in Nat /\ ENTRY \in Nat \ {0} /\ p + ENTRY <= Size
  BY <1>10, <1>11, EntryFits
<1>13. DOMAIN w = Fields /\ w.op = r.op
  BY <1>3, <1>4 DEF Fields
<1>14. PICK s : s = Begun(w, r.on, p, ENTRY)
  OBVIOUS
<1>15. BeginWrite(t, w, r.on, p, ENTRY)
  BY <1>1, <1>2, <1>3, <1>9, <1>11
<1>16. th' = [th EXCEPT ![t] = s]
  BY <1>14, <1>15 DEF BeginWrite, Goto, Begun
<1>17. Span(s) /\ s.pc = "write" /\ s.op = r.op
  BY <1>12, <1>13, <1>14, BeginIs
<1>18. ReadsFile(s, file[t]) /\ Requests(t, s)
  BY <1>5, <1>17, PassRequests DEF ReadsFile
<1> QED
  BY <1>16, <1>17, <1>18, StillEffect

(* It has read an entry: the file that was looked for is opened,           *)
LEMMA OpensEffect ==
  ASSUME IInv, boot = "ready", KInv, NEW t \in Users, Waits(th[t], "entry"), Passes(t),
         NEW x, x = entries[th[t].on][th[t].i].inode, NEW ty, NEW pos,
         pos \in {0, inodes[x].bytes}, Refers(x),
         file' = [file EXCEPT ![t] = [inode |-> x, type |-> ty, position |-> pos]],
         Return(t), UNCHANGED onDisk
  PROVE  \E q : Effect(t, q)
<1>1. Fits(t, th[t]) /\ Legal(th[t]) /\ Works(t, th[t])
  BY Here DEF Fits
<1>2. x \in Inodes
  BY <1>1, EntryThere DEF Legal, Works
<1>3. TableOK(inodes) /\ InodeOK(inodes[x])
  BY <1>2 DEF IInv, Shape, TableOK
<1>4. PICK v : v = inodes[x].references + 1
  OBVIOUS
<1>5. v \in Int
  <2>1. inodes[x].references \in Int
    BY <1>3, InodeIs
  <2> QED
    BY <1>4, <2>1
<1>6. inodes' = [inodes EXCEPT ![x].references = v]
  BY <1>4 DEF Refers
<1>7. \A y \in Inodes : SameNode(y) /\ inodes'[y].direct = inodes[y].direct
  BY <1>2, <1>3, <1>5, <1>6, ReferencesSet
<1>8. LengthsOK(inodes') /\ LengthsOK(onDisk'.inodes)
  BY <1>7 DEF KInv, LengthsInv, LengthsOK, SameNode
<1>9. KeepsBlocks(t)
  BY <1>7 DEF KeepsBlocks, Grows
<1>10. pos \in 0 .. Size
  BY <1>2, SizeIs DEF KInv, LengthsInv, LengthsOK
<1>11. file'[t].position \in 0 .. Size /\ \A u \in Users \ {t} : file'[u] = file[u]
  <2>1. file = [u \in Users |-> file[u]]
    BY Here
  <2> QED
    BY <1>10, <2>1
<1>12. Idle.pc # "wait" /\ Span(Idle) /\ ReadsFile(Idle, file'[t])
  BY IdleLight, LightSpan
<1>13. Requests(t, Idle)
  BY <1>12, PassRequests
<1> QED
  BY <1>8, <1>9, <1>11, <1>12, <1>13 DEF Effect, Return

(* minifile_open has found the name.                                       *)
LEMMA OpenedEffect ==
  ASSUME IInv, boot = "ready", KInv, NEW t \in Users, Waits(th[t], "entry"), Passes(t),
         Entry(t, th[t]), th[t].op = "open", th[t].mode # "w",
         entries[th[t].on][th[t].i].name = Head(th[t].path), UNCHANGED onDisk
  PROVE  \E q : Effect(t, q)
<1>1. PICK r : r = th[t]
  OBVIOUS
<1>2. PICK x : x = entries[r.on][r.i].inode
  OBVIOUS
<1>3. PICK q : q = [r EXCEPT !.inode = x]
  OBVIOUS
<1>4. DOMAIN r = Fields
  BY <1>1, Here
<1>5. q.inode = x /\ q.mode = r.mode
  BY <1>3, <1>4 DEF Fields
<1>6. Opens(t, q)
  <2>1. Opens(t, [th[t] EXCEPT !.inode = entries[th[t].on][th[t].i].inode])
    BY DEF Entry, Walks
  <2> QED
    BY <1>1, <1>2, <1>3, <2>1
<1>7. PICK ty, pos : /\ Refers(q.inode) /\ Return(t)
                     /\ pos \in {0, inodes[q.inode].bytes}
                     /\ file' = [file EXCEPT ![t] = [inode |-> q.inode, type |-> ty, position |-> pos]]
  BY <1>1, <1>5, <1>6 DEF Opens
<1>8. /\ Refers(x) /\ pos \in {0, inodes[x].bytes}
      /\ file' = [file EXCEPT ![t] = [inode |-> x, type |-> ty, position |-> pos]]
  BY <1>5, <1>7
<1>9. x = entries[th[t].on][th[t].i].inode /\ Return(t)
  BY <1>1, <1>2, <1>7
<1> QED
  BY <1>8, <1>9, OpensEffect

(* or the call goes on with the entry, or with the next one.               *)
LEMMA EntryLight ==
  ASSUME NEW t, NEW r, DOMAIN r = Fields, r.op \in NameOps \cup Walks, Entry(t, r),
         ~(r.op = "open" /\ r.mode # "w" /\ entries[r.on][r.i].name = Head(r.path))
  PROVE  /\ \E s : th' = [th EXCEPT ![t] = s] /\ Light(s) /\ s.pc # "free"
         /\ UNCHANGED <<inodes, file>>
<1>1. PICK e : e = entries[r.on][r.i]
  OBVIOUS
<1>2. PICK f : f = [r EXCEPT !.inode = e.inode]
  OBVIOUS
<1>3. DOMAIN f = Fields /\ f.op = r.op /\ f.mode = r.mode /\ r.op # "read"
  BY <1>2 DEF Fields, NameOps, Walks
<1>4. CASE e.name # Head(r.path)
  <2>1. PICK q : q = [r EXCEPT !.i = @ + 1]
    OBVIOUS
  <2>2. DOMAIN q = Fields /\ q.op = r.op
    BY <2>1 DEF Fields
  <2>3. Goto(t, q, "scan") /\ UNCHANGED <<inodes, file>>
    BY <1>1, <1>4, <2>1 DEF Entry
  <2> QED
    BY <1>3, <2>2, <2>3, LightIs
<1>5. CASE e.name = Head(r.path) /\ r.op = "open"
  <2>1. f.mode = "w"
    BY <1>1, <1>3, <1>5
  <2>2. Opens(t, f)
    BY <1>1, <1>2, <1>5 DEF Entry, Walks
  <2>3. PICK q : q = [f EXCEPT !.op = "unlink", !.i = 0]
    OBVIOUS
  <2>4. DOMAIN q = Fields /\ q.op = "unlink"
    BY <1>3, <2>3 DEF Fields
  <2>5. Goto(t, q, "scan") /\ UNCHANGED <<inodes, file>>
    BY <2>1, <2>2, <2>3 DEF Opens
  <2> QED
    BY <2>4, <2>5, LightIs
<1>6. CASE e.name = Head(r.path) /\ r.op \in {"unlink", "rmdir"}
  <2>1. Removes(t, f) /\ UNCHANGED <<inodes, file>>
    BY <1>1, <1>2, <1>6 DEF Entry, Walks
  <2>2. CASE f.op = "unlink" /\ inodes[f.inode].type # "REGULARFILE"
    <3>1. AfterUnlink(t, f)
      BY <2>1, <2>2 DEF Removes
    <3> QED
      BY <1>3, <2>1, <3>1, AfterUnlinkLight
  <2>3. CASE f.op = "rmdir" /\ inodes[f.inode].type # "DIRECTORY"
    BY <2>1, <2>3, IdleLight DEF Removes, Return
  <2>4. CASE ~(f.op = "unlink" /\ inodes[f.inode].type # "REGULARFILE")
             /\ ~(f.op = "rmdir" /\ inodes[f.inode].type # "DIRECTORY")
    <3>1. PICK q : q = [f EXCEPT !.i = @ + 1]
      OBVIOUS
    <3>2. DOMAIN q = Fields /\ q.op = r.op
      BY <1>3, <3>1 DEF Fields
    <3>3. Goto(t, q, "shift")
      BY <2>1, <2>4, <3>1 DEF Removes
    <3> QED
      BY <1>3, <2>1, <3>2, <3>3, LightIs
  <2> QED
    BY <2>2, <2>3, <2>4
<1>7. CASE e.name = Head(r.path) /\ r.op \in Walks
  <2>1. PICK q : q = [r EXCEPT !.on = e.inode, !.path = Tail(@), !.i = 0, !.found = TRUE]
    OBVIOUS
  <2>2. DOMAIN q = Fields /\ q.op = r.op
    BY <2>1 DEF Fields
  <2>3. Goto(t, q, "scan") /\ UNCHANGED <<inodes, file>>
    BY <1>1, <1>7, <2>1 DEF Entry, Walks
  <2> QED
    BY <1>3, <2>2, <2>3, LightIs
<1>8. CASE e.name = Head(r.path) /\ r.op \in {"creat", "mkdir"}
  BY <1>1, <1>8, IdleLight DEF Entry, Walks, Return
<1> QED
  BY <1>4, <1>5, <1>6, <1>7, <1>8 DEF NameOps

(* An entry was read, whatever it is.                                      *)
LEMMA FoundEffect ==
  ASSUME IInv, boot = "ready", KInv, NEW t \in Users, Waits(th[t], "entry"), Passes(t),
         Entry(t, th[t]), UNCHANGED onDisk
  PROVE  \E q : Effect(t, q)
<1>1. CASE th[t].op = "open" /\ th[t].mode # "w" /\ entries[th[t].on][th[t].i].name = Head(th[t].path)
  BY <1>1, OpenedEffect
<1>2. CASE ~(th[t].op = "open" /\ th[t].mode # "w" /\ entries[th[t].on][th[t].i].name = Head(th[t].path))
  <2>1. DOMAIN th[t] = Fields /\ th[t].op \in NameOps \cup Walks
    BY Here DEF Fits, Legal
  <2>2. (\E s : th' = [th EXCEPT ![t] = s] /\ Light(s) /\ s.pc # "free") /\ UNCHANGED <<inodes, file>>
    BY <1>2, <2>1, EntryLight
  <2> QED
    BY <2>2, LightEffect DEF Still
<1> QED
  BY <1>1, <1>2

(* A thread gets its block and goes on.                                    *)
LEMMA WakeEffect ==
  ASSUME IInv, KInv, NEW t \in Users, Wake(t)
  PROVE  \E q : Effect(t, q)
<1>1. /\ boot = "ready" /\ th[t].pc = "wait" /\ UNCHANGED onDisk /\ Passes(t)
  BY DEF Wake, At, Ready, Passes
<1>2. th[t].then \in {"entry", "shift", "put", "data", "list"}
  BY <1>1, Here DEF Fits, Legal
<1>3. CASE th[t].then = "entry"
  <2>1. Entry(t, th[t])
    BY <1>3 DEF Wake
  <2> QED
    BY <1>1, <1>3, <2>1, FoundEffect DEF Waits
<1>4. CASE th[t].then = "shift"
  <2>1. /\ BeginWrite(t, [th[t] EXCEPT !.entry = entries[th[t].on][th[t].i]],
                      th[t].on, (th[t].i - 1) * ENTRY, ENTRY)
        /\ UNCHANGED <<inodes, file>>
    BY <1>4 DEF Wake
  <2> QED
    BY <1>1, <1>4, <2>1, MoveEntryEffect DEF Waits, Still
<1>5. CASE th[t].then = "put"
  <2>1. PutBlock(t, th[t]) /\ UNCHANGED <<inodes, file>>
    BY <1>5 DEF Wake
  <2> QED
    BY <1>1, <1>5, <2>1, PutEffect DEF Putting, Waits, Still
<1>6. CASE th[t].then = "data"
  <2>1. Copies(t, th[t]) /\ UNCHANGED inodes
    BY <1>6 DEF Wake
  <2> QED
    BY <1>1, <1>6, <2>1, CopyEffect DEF Waits
<1>7. CASE th[t].then = "list"
  <2>1. Goto(t, [th[t] EXCEPT !.i = @ + 1], "scan") /\ UNCHANGED <<inodes, file>>
    BY <1>7 DEF Wake
  <2>2. PICK q : q = [th[t] EXCEPT !.i = @ + 1]
    OBVIOUS
  <2>3. DOMAIN q = Fields /\ q.op = th[t].op /\ th[t].op # "read"
    BY <1>1, <1>7, <2>2, Here DEF Fields, Fits, Legal, Waits, Walks
  <2>4. \E s : th' = [th EXCEPT ![t] = s] /\ Light(s)
    BY <2>1, <2>2, <2>3, LightIs
  <2> QED
    BY <1>1, <2>1, <2>4, LightEffect DEF Still
<1> QED
  BY <1>2, <1>3, <1>4, <1>5, <1>6, <1>7

-----------------------------------------------------------------------------
(* The steps that change inodes.                                           *)
LEMMA TableEffect ==
  ASSUME IInv, boot = "ready", KInv, NEW t \in Users, NEW s, th' = [th EXCEPT ![t] = s],
         LengthsOK(inodes'), LengthsOK(onDisk'.inodes), KeepsBlocks(t),
         \A u \in Users \ {t} : file'[u] = file[u], file'[t].position \in 0 .. Size,
         Span(s), ReadsFile(s, file'[t]), s.pc # "wait", Passes(t)
  PROVE  \E q : Effect(t, q)
<1>1. Requests(t, s)
  BY PassRequests
<1> QED
  BY <1>1 DEF Effect

(* A step that changes the table and leaves nothing to read or write.      *)
LEMMA LightTable ==
  ASSUME IInv, boot = "ready", KInv, NEW t \in Users, NEW s, th' = [th EXCEPT ![t] = s], Light(s),
         LengthsOK(inodes'), LengthsOK(onDisk'.inodes), KeepsBlocks(t), UNCHANGED file, Passes(t)
  PROVE  \E q : Effect(t, q)
<1>1. s.pc # "wait" /\ Span(s) /\ ReadsFile(s, file'[t])
  BY LightSpan
<1>2. file'[t].position \in 0 .. Size
  BY DEF KInv, LengthsInv
<1> QED
  BY <1>1, <1>2, TableEffect

(* Only lengths, or only references, differ.                               *)
LEMMA SameBlocks ==
  ASSUME NEW t, \A y \in Inodes : inodes'[y].direct = inodes[y].direct
  PROVE  KeepsBlocks(t)
BY DEF KeepsBlocks, Grows

(* The disk gets one inode from memory.                                    *)
LEMMA DiskLengths ==
  ASSUME IInv, KInv, NEW x \in Inodes, onDisk' = [onDisk EXCEPT !.inodes[x] = inodes'[x]],
         LengthsOK(inodes')
  PROVE  LengthsOK(onDisk'.inodes)
<1>1. TableOK(onDisk.inodes)
      /\ onDisk = [inodes |-> onDisk.inodes, free |-> onDisk.free, super |-> onDisk.super]
  BY DEF IInv, Shape
<1>2. onDisk'.inodes = [onDisk.inodes EXCEPT ![x] = inodes'[x]]
  BY <1>1
<1>3. onDisk'.inodes[x] = inodes'[x] /\ \A y \in Inodes \ {x} : onDisk'.inodes[y] = onDisk.inodes[y]
  BY <1>1, <1>2 DEF TableOK
<1> QED
  BY <1>3 DEF LengthsOK, KInv, LengthsInv

(* The bitmap on the disk changes, and no inode there.                     *)
LEMMA DiskFree ==
  ASSUME IInv, KInv, onDisk' = [onDisk EXCEPT !.free = freeBlocks']
  PROVE  LengthsOK(onDisk'.inodes)
<1>1. onDisk = [inodes |-> onDisk.inodes, free |-> onDisk.free, super |-> onDisk.super]
  BY DEF IInv, Shape
<1>2. onDisk'.inodes = onDisk.inodes
  BY <1>1
<1> QED
  BY <1>2 DEF KInv, LengthsInv

(* allocate_inode.                                                         *)
LEMMA AllocateEffect ==
  ASSUME IInv, KInv, NEW t \in Users, Allocate(t)
  PROVE  \E q : Effect(t, q)
<1>0. boot = "ready" /\ th[t].pc = "allocate" /\ Passes(t) /\ UNCHANGED file
  BY DEF Allocate, At, Ready, Passes, handles
<1>1. CASE {y \in Inodes \ {0} : inodes[y].free} = {}
  <2>1. UNCHANGED th /\ Still
    BY <1>0, <1>1 DEF Allocate, Fault, memory, Still
  <2> QED
    BY <1>0, <2>1, EndEffect
<1>2. CASE {y \in Inodes \ {0} : inodes[y].free} # {}
  <2>1. PICK r, b : r = th[t] /\ b = allocate_block
    OBVIOUS
  <2>2. PICK x : x = Least({y \in Inodes \ {0} : inodes[y].free})
    OBVIOUS
  <2>3. PICK type : type = IF r.op = "mkdir" THEN "DIRECTORY" ELSE "REGULARFILE"
    OBVIOUS
  <2>4. PICK n : n = Fresh(type, r.on, b)
    OBVIOUS
  <2>5. PICK w : w = [r EXCEPT !.inode = x, !.entry = [name |-> Head(r.path), inode |-> x]]
    OBVIOUS
  <2>6. /\ Goto(t, w, "made") /\ inodes' = [inodes EXCEPT ![x] = n]
        /\ onDisk' = [onDisk EXCEPT !.free = freeBlocks']
    BY <1>2, <2>1, <2>2, <2>3, <2>4, <2>5 DEF Allocate, Fresh, Takes
  <2>7. x \in Inodes /\ inodes[x].free
    <3>1. {y \in Inodes \ {0} : inodes[y].free} \in SUBSET Nat
      BY MiniFileAssumption DEF Inodes
    <3>2. x \in {y \in Inodes \ {0} : inodes[y].free}
      BY <1>2, <2>2, <3>1, LeastIn
    <3> QED
      BY <3>2
  <2>8. n.bytes = 0
    BY <2>4 DEF Fresh, Inode
  <2>9. inodes'[x] = n /\ \A y \in Inodes \ {x} : inodes'[y] = inodes[y]
    BY <2>6, <2>7 DEF IInv, Shape, TableOK
  <2>10. LengthsOK(inodes')
    BY <2>8, <2>9, SizeIs DEF LengthsOK, KInv, LengthsInv
  <2>11. KeepsBlocks(t)
    BY <2>7, <2>9 DEF KeepsBlocks, Grows
  <2>12. r.op # "read" /\ DOMAIN r = Fields
    BY <1>0, <2>1, Here DEF Fits, Legal
  <2>13. DOMAIN w = Fields /\ w.op = r.op
    BY <2>5, <2>12 DEF Fields
  <2>14. PICK s : th' = [th EXCEPT ![t] = s] /\ Light(s)
    BY <2>6, <2>12, <2>13, LightIs
  <2>15. LengthsOK(onDisk'.inodes)
    BY <2>6, DiskFree
  <2> QED
    BY <1>0, <2>10, <2>11, <2>14, <2>15, LightTable
<1> QED
  BY <1>1, <1>2

(* The new inode is on the disk, and its directory gets the entry.         *)
LEMMA MadeEffect ==
  ASSUME IInv, KInv, NEW t \in Users, Made(t)
  PROVE  \E q : Effect(t, q)
<1>1. PICK r, p : r = th[t] /\ p = inodes[r.on].bytes
  OBVIOUS
<1>2. PICK s : s = Begun(r, r.on, p, ENTRY)
  OBVIOUS
<1>3. PICK x : x = r.inode
  OBVIOUS
<1>4. /\ boot = "ready" /\ r.pc = "made" /\ th' = [th EXCEPT ![t] = s]
      /\ UNCHANGED <<inodes, file>> /\ onDisk' = [onDisk EXCEPT !.inodes[x] = inodes[x]]
      /\ Passes(t)
  BY <1>1, <1>2, <1>3 DEF Made, At, Ready, BeginWrite, Goto, Begun, memory, handles, Passes
<1>5. Fits(t, r) /\ Legal(r) /\ Works(t, r) /\ DOMAIN r = Fields
  BY <1>1, <1>4, Here DEF Fits
<1>6. r.op \in {"creat", "mkdir"} /\ r.op \in NameOps /\ x \in Inodes
  BY <1>3, <1>4, <1>5 DEF Legal, NameOps
<1>7. r.on \in Directories(inodes) /\ Filled(inodes, r.on) < NumSlots
  <2>1. r.on = cwd[t]
    BY <1>5, <1>6 DEF Works
  <2> QED
    BY <1>4, <1>5, <1>6, <2>1, Here DEF Works
<1>8. PICK k : k = Filled(inodes, r.on)
  OBVIOUS
<1>9. k \in Nat /\ k < NumSlots /\ p = k * ENTRY
  BY <1>1, <1>4, <1>7, <1>8, FilledIs, Sizes DEF IInv, TreeInv
<1>10. p \in Nat /\ ENTRY \in Nat \ {0} /\ p + ENTRY <= Size
  BY <1>9, EntryFits
<1>11. Span(s) /\ s.pc = "write" /\ s.op = r.op
  BY <1>2, <1>5, <1>10, BeginIs
<1>12. LengthsOK(inodes') /\ KeepsBlocks(t) /\ file'[t].position \in 0 .. Size
  BY <1>4, SameBlocks DEF KInv, LengthsInv
<1>13. LengthsOK(onDisk'.inodes)
  BY <1>4, <1>6, <1>12, DiskLengths
<1>14. ReadsFile(s, file'[t]) /\ s.pc # "wait"
  BY <1>6, <1>11 DEF ReadsFile
<1> QED
  BY <1>4, <1>11, <1>12, <1>13, <1>14, TableEffect

(* inode_write allocates a block, or asks for the one that is there.       *)
LEMMA NewBlockEffect ==
  ASSUME IInv, KInv, NEW t \in Users, Write(t), NeedsBlock(th[t].target, th[t].cur)
  PROVE  \E q : Effect(t, q)
<1>1. PICK r, b : r = th[t] /\ b = allocate_block
  OBVIOUS
<1>2. PICK x, k : x = r.target /\ k = r.cur
  OBVIOUS
<1>3. PICK s : s = [r EXCEPT !.pc = "put"]
  OBVIOUS
<1>4. /\ boot = "ready" /\ r.pc = "write" /\ th' = [th EXCEPT ![t] = s] /\ UNCHANGED file
      /\ inodes' = [inodes EXCEPT ![x].direct[k] = b, ![x].size = @ + 1]
      /\ onDisk' = [onDisk EXCEPT !.free = freeBlocks']
      /\ inodes[x].direct[k] < 0 /\ Passes(t)
  BY <1>1, <1>2, <1>3 DEF Write, At, Ready, Goto, Takes, NeedsBlock, handles, Passes
<1>5. x \in Inodes /\ DOMAIN r = Fields
  BY <1>1, <1>2, <1>4, Here DEF Fits, Legal
<1>6. Span(r) /\ ReadsFile(r, file[t]) /\ Spans(r)
  BY <1>1, <1>4 DEF KInv, LengthsInv, WaitsInv, Spans
<1>7. k \in 0 .. TABLE_SIZE - 1
  BY <1>2, <1>6, InTable
<1>8. TableOK(inodes) /\ InodeOK(inodes[x])
  BY <1>5 DEF IInv, Shape, TableOK
<1>9. /\ inodes'[x].direct = [inodes[x].direct EXCEPT ![k] = b]
      /\ inodes'[x].bytes = inodes[x].bytes
      /\ \A y \in Inodes \ {x} : inodes'[y] = inodes[y]
  BY <1>4, <1>5, <1>8 DEF TableOK, InodeOK, InodeFields
<1>10. KeepsBlocks(t)
  <2>1. inodes[x].direct \in [0 .. TABLE_SIZE - 1 -> Nat \cup {-1}]
    BY <1>8, InodeIs
  <2>2. inodes[x].direct[k] = -1
    <3>1. inodes[x].direct[k] \in Nat \cup {-1}
      BY <1>7, <2>1
    <3> QED
      BY <1>4, <3>1
  <2>3. Grows(x)
    BY <1>9, <2>1, <2>2 DEF Grows, BlocksOf
  <2> QED
    BY <1>9, <2>3 DEF KeepsBlocks, Grows
<1>11. LengthsOK(inodes')
  BY <1>9 DEF KInv, LengthsInv, LengthsOK
<1>12. LengthsOK(onDisk'.inodes)
  BY <1>4, DiskFree
<1>13. /\ s.pc = "put" /\ s.op = r.op /\ s.target = r.target /\ s.area = r.area /\ s.cur = r.cur
       /\ s.offset = r.offset /\ s.left = r.left /\ s.end = r.end
  BY <1>3, <1>5 DEF Fields
<1>14. Span(s) /\ ReadsFile(s, file'[t]) /\ s.pc # "wait"
  BY <1>4, <1>6, <1>13 DEF Span, Spans, Waits, ReadsFile
<1>15. file'[t].position \in 0 .. Size
  BY <1>4 DEF KInv, LengthsInv
<1> QED
  BY <1>4, <1>10, <1>11, <1>12, <1>14, <1>15, TableEffect

(* A round of inode_write asks for its block, old or new.                  *)
LEMMA WriteEffect ==
  ASSUME IInv, KInv, NEW t \in Users, Write(t)
  PROVE  \E q : Effect(t, q)
<1>1. CASE NeedsBlock(th[t].target, th[t].cur)
  BY <1>1, NewBlockEffect
<1>2. CASE ~NeedsBlock(th[t].target, th[t].cur)
  <2>1. /\ boot = "ready" /\ th[t].pc = "write" /\ Still
        /\ get_data_block(t, th[t], inodes[th[t].target].direct[th[t].cur], "put")
    BY <1>2 DEF Write, At, Ready, memory, handles, Still
  <2>2. th[t].target \in Inodes
    BY <2>1, Here DEF Fits, Legal
  <2>3. th[t].cur \in 0 .. TABLE_SIZE - 1
    BY <2>1, InTable DEF KInv, LengthsInv, Spans
  <2> QED
    BY <2>1, <2>2, <2>3, AskEffect
<1> QED
  BY <1>1, <1>2

(* A block is written that was not read before.                            *)
LEMMA PutStepEffect ==
  ASSUME IInv, KInv, NEW t \in Users, Put(t)
  PROVE  \E q : Effect(t, q)
<1>1. boot = "ready" /\ Putting(th[t]) /\ PutBlock(t, th[t]) /\ Still /\ Passes(t)
  BY DEF Put, At, Ready, Putting, memory, handles, Still, Passes
<1> QED
  BY <1>1, PutEffect

(* The length that inode_write leaves.                                     *)
LEMMA GrownTable ==
  ASSUME IInv, KInv, NEW x \in Inodes, NEW z \in Inodes, NEW v \in 0 .. Size,
         NEW a, a = BytesSet(inodes, x, v), NEW w, w \in Int,
         inodes' = a \/ inodes' = ReferencesAre(a, z, w)
  PROVE  LengthsOK(inodes') /\ \A y \in Inodes : inodes'[y].direct = inodes[y].direct
<1>1. TableOK(inodes)
  BY DEF IInv, Shape
<1>2. /\ TableOK(a) /\ a[x].bytes = v
      /\ \A y \in Inodes : Same(inodes, a, y)
      /\ \A y \in Inodes \ {x} : a[y].bytes = inodes[y].bytes
  BY <1>1, TableBytes
<1>3. LengthsOK(a) /\ \A y \in Inodes : a[y].direct = inodes[y].direct
  BY <1>2 DEF LengthsOK, KInv, LengthsInv, Same
<1>4. CASE inodes' = ReferencesAre(a, z, w)
  <2>1. PICK b : b = inodes'
    OBVIOUS
  <2>2. b = ReferencesAre(a, z, w)
    BY <1>4, <2>1
  <2>3. \A y \in Inodes : Same(a, b, y) /\ b[y].bytes = a[y].bytes
    BY <1>2, <2>2, TableReferences
  <2>4. LengthsOK(b) /\ \A y \in Inodes : b[y].direct = inodes[y].direct
    BY <1>3, <2>3 DEF LengthsOK, Same
  <2> QED
    BY <2>1, <2>4
<1> QED
  BY <1>3, <1>4

(* The end of inode_write: the file, or its directory, is longer.          *)
LEMMA UpdateEffect ==
  ASSUME IInv, KInv, NEW t \in Users, Update(t)
  PROVE  \E q : Effect(t, q)
<1>1. PICK r : r = th[t]
  OBVIOUS
<1>2. PICK x, z : x = r.target /\ z = r.inode
  OBVIOUS
<1>3. PICK v : v = IF r.end > inodes[x].bytes THEN r.end ELSE inodes[x].bytes
  OBVIOUS
<1>4. PICK a : a = BytesSet(inodes, x, v)
  OBVIOUS
<1>5. /\ boot = "ready" /\ r.pc = "update" /\ Passes(t) /\ disk_update_inode(x)
      /\ inodes' = a \/ inodes' = ReferencesAre(a, z, 2)
  BY <1>1, <1>2, <1>3, <1>4 DEF Update, At, Ready, BytesSet, ReferencesAre, Passes
<1>6. Legal(r) /\ x \in Inodes /\ z \in Inodes /\ DOMAIN r = Fields
  BY <1>1, <1>2, <1>5, Here DEF Fits, Legal
<1>7. r.end \in 0 .. Size
  BY <1>1, <1>5 DEF KInv, LengthsInv, Span
<1>8. v \in 0 .. Size
  BY <1>3, <1>6, <1>7 DEF KInv, LengthsInv, LengthsOK
<1>9. LengthsOK(inodes') /\ \A y \in Inodes : inodes'[y].direct = inodes[y].direct
  <2>1. 2 \in Int
    OBVIOUS
  <2> QED
    BY <1>4, <1>5, <1>6, <1>8, <2>1, GrownTable
<1>10. KeepsBlocks(t)
  BY <1>9, SameBlocks
<1>11. LengthsOK(onDisk'.inodes)
  BY <1>5, <1>6, <1>9, DiskLengths DEF disk_update_inode
<1>12. r.op \in {"creat", "mkdir", "unlink", "rmdir", "write"}
  BY <1>5, <1>6 DEF Legal, Writing
<1>13. CASE r.op \in {"unlink", "rmdir"}
  <2>1. PICK w : w = [r EXCEPT !.i = @ + 1]
    OBVIOUS
  <2>2. DOMAIN w = Fields /\ w.op = r.op
    BY <1>6, <2>1 DEF Fields
  <2>3. Goto(t, w, "shift") /\ UNCHANGED file
    BY <1>1, <1>13, <2>1 DEF Update
  <2>4. PICK s : th' = [th EXCEPT ![t] = s] /\ Light(s)
    BY <1>13, <2>2, <2>3, LightIs
  <2> QED
    BY <1>5, <1>9, <1>10, <1>11, <2>3, <2>4, LightTable
<1>14. CASE r.op \in {"creat", "mkdir", "write"}
  <2>1. Return(t)
    BY <1>1, <1>14 DEF Update
  <2>2. /\ \A u \in Users \ {t} : file'[u] = file[u]
        /\ file'[t].position \in {0, r.end, file[t].position}
    <3>1. file = [u \in Users |-> file[u]] /\ FileOK(file[t])
      BY <1>5, Here
    <3>2. CASE r.op = "creat"
      <4>1. PICK n : n = [inode |-> r.inode, position |-> 0,
                          type |-> IF r.mode = "a" THEN "APPEND" ELSE "WRITE"]
        OBVIOUS
      <4>2. file' = [file EXCEPT ![t] = n] /\ n.position = 0
        BY <1>1, <3>2, <4>1 DEF Update
      <4> QED
        BY <3>1, <4>2
    <3>3. CASE r.op = "write"
      <4>1. file' = [file EXCEPT ![t].position = r.end]
        BY <1>1, <3>3 DEF Update
      <4> QED
        BY <3>1, <4>1 DEF FileOK
    <3>4. CASE r.op = "mkdir"
      BY <1>1, <3>4 DEF Update
    <3> QED
      BY <1>14, <3>2, <3>3, <3>4
  <2>3. file'[t].position \in 0 .. Size
    BY <1>7, <2>2, SizeIs DEF KInv, LengthsInv
  <2>4. Idle.pc # "wait" /\ Span(Idle) /\ ReadsFile(Idle, file'[t])
    BY IdleLight, LightSpan
  <2>5. th' = [th EXCEPT ![t] = Idle]
    BY <2>1 DEF Return
  <2> QED
    BY <1>5, <1>9, <1>10, <1>11, <2>2, <2>3, <2>4, <2>5, TableEffect
<1> QED
  BY <1>12, <1>13, <1>14

(* A round of the loop that moves the entries up.                          *)
LEMMA ShiftEffect ==
  ASSUME IInv, KInv, NEW t \in Users, Shift(t)
  PROVE  \E q : Effect(t, q)
<1>1. PICK r : r = th[t]
  OBVIOUS
<1>2. boot = "ready" /\ r.pc = "shift" /\ UNCHANGED <<onDisk, file>>
  BY <1>1 DEF Shift, At, Ready, handles
<1>3. Legal(r) /\ r.on \in Inodes /\ r.inode \in Inodes /\ DOMAIN r = Fields
      /\ r.op \in {"unlink", "rmdir"}
  BY <1>1, <1>2, Here DEF Fits, Legal
<1>4. CASE r.i < Entries(r.on)
  <2>1. Still /\ get_data_block(t, th[t], inodes[r.on].direct[0], "shift")
    BY <1>1, <1>2, <1>4 DEF Shift, Still
  <2> QED
    BY <1>1, <1>2, <1>3, <2>1, AskEffect, FirstBlock
<1>5. CASE ~(r.i < Entries(r.on))
  <2>1. PICK x, z, f : x = r.on /\ z = r.inode /\ f = r.i - 1
    OBVIOUS
  <2>2. f \in 0 .. NumSlots - 1 /\ inodes[x].bytes = (f + 1) * ENTRY /\ x \in Inodes /\ z \in Inodes
    BY <1>1, <1>2, <1>5, <2>1, LastEntry DEF Entries, Filled
  <2>3. PICK v : v = inodes[x].bytes - ENTRY
    OBVIOUS
  <2>4. v \in 0 .. Size
    <3>1. f \in Nat /\ f < NumSlots
      BY <2>2, Sizes
    <3>2. (f + 1) * ENTRY = f * ENTRY + ENTRY
      BY <3>1, Multiple
    <3>3. f * ENTRY \in Nat /\ f * ENTRY + ENTRY <= Size /\ ENTRY \in Nat
      BY <3>1, EntryFits
    <3>4. v = f * ENTRY
      BY <2>2, <2>3, <3>2, <3>3
    <3> QED
      BY <3>3, <3>4, SizeIs
  <2>5. PICK a : a = BytesSet(inodes, x, v)
    OBVIOUS
  <2>6. TableOK(inodes) /\ TableOK(a)
    BY <2>2, <2>5, TableBytes DEF IInv, Shape
  <2>7. PICK w : w = a[z].references - 1
    OBVIOUS
  <2>8. w \in Int
    BY <2>2, <2>6, <2>7 DEF TableOK, InodeOK
  <2>9. inodes' = a \/ inodes' = ReferencesAre(a, z, w)
    <3>1. a = [inodes EXCEPT ![x].bytes = @ - ENTRY]
      BY <2>2, <2>3, <2>5, <2>6 DEF BytesSet, TableOK
    <3>2. inodes' = a \/ inodes' = [a EXCEPT ![z].references = @ - 1]
      BY <1>1, <1>5, <2>1, <3>1 DEF Shift
    <3>3. [a EXCEPT ![z].references = @ - 1] = [a EXCEPT ![z].references = a[z].references - 1]
      BY <2>2, <2>6 DEF TableOK
    <3> QED
      BY <2>7, <3>2, <3>3 DEF ReferencesAre
  <2>10. LengthsOK(inodes') /\ \A y \in Inodes : inodes'[y].direct = inodes[y].direct
    BY <2>2, <2>4, <2>5, <2>8, <2>9, GrownTable
  <2>11. KeepsBlocks(t)
    BY <2>10, SameBlocks
  <2>12. LengthsOK(onDisk'.inodes)
    BY <1>2 DEF KInv, LengthsInv
  <2>13. \E s : th' = [th EXCEPT ![t] = s] /\ Light(s)
    <3>1. PICK q : q = [r EXCEPT !.i = 0]
      OBVIOUS
    <3>2. DOMAIN q = Fields /\ q.op = r.op
      BY <1>3, <3>1 DEF Fields
    <3>3. Return(t) \/ Goto(t, q, "free") \/ AfterUnlink(t, r)
      BY <1>1, <1>5, <3>1 DEF Shift
    <3>4. Goto(t, q, "free") => \E s : th' = [th EXCEPT ![t] = s] /\ Light(s)
      BY <1>3, <3>2, LightIs
    <3>5. AfterUnlink(t, r) => \E s : th' = [th EXCEPT ![t] = s] /\ Light(s)
      BY <1>3, AfterUnlinkLight
    <3>6. Return(t) => \E s : th' = [th EXCEPT ![t] = s] /\ Light(s)
      BY IdleLight DEF Return
    <3> QED
      BY <3>3, <3>4, <3>5, <3>6
  <2>14. Passes(t)
    BY <1>1, <1>2, <1>5 DEF Shift, Passes
  <2> QED
    BY <1>2, <2>10, <2>11, <2>12, <2>13, <2>14, LightTable
<1> QED
  BY <1>4, <1>5

(* A round of free_inode.  Nobody else waits for a block of that inode.    *)
LEMMA FreeEffect ==
  ASSUME IInv, KInv, NEW t \in Users, Free(t)
  PROVE  \E q : Effect(t, q)
<1>1. PICK r : r = th[t]
  OBVIOUS
<1>2. PICK x, k : x = r.inode /\ k = r.i
  OBVIOUS
<1>3. boot = "ready" /\ r.pc = "free" /\ UNCHANGED file /\ Passes(t)
  BY <1>1 DEF Free, At, Ready, handles, Passes
<1>4. Legal(r) /\ x \in Inodes /\ k \in Nat /\ DOMAIN r = Fields /\ r.op # "read"
  BY <1>1, <1>2, <1>3, Here DEF Fits, Legal
<1>5. TableOK(inodes) /\ InodeOK(inodes[x])
  BY <1>4 DEF IInv, Shape, TableOK
<1>6. PICK b : b = IF k < TABLE_SIZE THEN inodes[x].direct[k] ELSE -1
  OBVIOUS
<1>7. CASE k < inodes[x].size /\ b < 0
  <2>1. UNCHANGED th /\ Still
    BY <1>1, <1>2, <1>3, <1>6, <1>7 DEF Free, Fault, memory, Still
  <2> QED
    BY <1>3, <2>1, EndEffect
<1>8. CASE k < inodes[x].size /\ ~(b < 0)
  <2>1. PICK w : w = [r EXCEPT !.i = @ + 1]
    OBVIOUS
  <2>2. /\ inodes' = [inodes EXCEPT ![x].direct[k] = -1] /\ Goto(t, w, "free")
        /\ onDisk' = [onDisk EXCEPT !.free = freeBlocks']
    BY <1>1, <1>2, <1>6, <1>8, <2>1 DEF Free
  <2>3. inodes'[x].bytes = inodes[x].bytes /\ \A y \in Inodes \ {x} : inodes'[y] = inodes[y]
    BY <1>4, <1>5, <2>2 DEF TableOK, InodeOK, InodeFields
  <2>4. LengthsOK(inodes')
    BY <2>3 DEF KInv, LengthsInv, LengthsOK
  <2>5. KeepsBlocks(t)
    BY <1>1, <1>2, <1>3, <2>3 DEF KeepsBlocks, Grows
  <2>6. LengthsOK(onDisk'.inodes)
    BY <2>2, DiskFree
  <2>7. DOMAIN w = Fields /\ w.op = r.op
    BY <1>4, <2>1 DEF Fields
  <2>8. PICK s : th' = [th EXCEPT ![t] = s] /\ Light(s)
    BY <1>4, <2>2, <2>7, LightIs
  <2> QED
    BY <1>3, <2>4, <2>5, <2>6, <2>8, LightTable
<1>9. CASE ~(k < inodes[x].size)
  <2>1. /\ inodes' = [inodes EXCEPT ![x].size = 0, ![x].bytes = 0, ![x].references = 0, ![x].free = TRUE]
        /\ disk_update_inode(x) /\ AfterUnlink(t, r)
    BY <1>1, <1>2, <1>9 DEF Free
  <2>2. inodes'[x].bytes = 0 /\ \A y \in Inodes \ {x} : inodes'[y] = inodes[y]
    <3>1. PICK n : n = [inodes[x] EXCEPT !.size = 0, !.bytes = 0, !.references = 0, !.free = TRUE]
      OBVIOUS
    <3>2. inodes' = [inodes EXCEPT ![x] = n]
      BY <1>4, <1>5, <2>1, <3>1 DEF TableOK
    <3>3. n.bytes = 0
      BY <1>5, <3>1 DEF InodeOK, InodeFields
    <3> QED
      BY <1>4, <1>5, <3>2, <3>3 DEF TableOK
  <2>3. LengthsOK(inodes')
    BY <2>2, SizeIs DEF KInv, LengthsInv, LengthsOK
  <2>4. KeepsBlocks(t)
    BY <1>1, <1>2, <1>3, <2>2 DEF KeepsBlocks, Grows
  <2>5. LengthsOK(onDisk'.inodes)
    BY <1>4, <2>1, <2>3, DiskLengths DEF disk_update_inode
  <2>6. PICK s : th' = [th EXCEPT ![t] = s] /\ Light(s)
    BY <1>4, <2>1, AfterUnlinkLight
  <2> QED
    BY <1>3, <2>3, <2>4, <2>5, <2>6, LightTable
<1> QED
  BY <1>7, <1>8, <1>9

(* A call starts.                                                          *)
LEMMA CallLight ==
  ASSUME IInv, KInv, NEW t \in Users, NEW area, NEW r, DOMAIN r = Fields, r.op # "read", NEW pc,
         pc \in {"idle", "scan", "allocate", "made", "shift", "free", "return"},
         Call(t, area, r, pc), UNCHANGED <<inodes, file>>
  PROVE  \E q : Effect(t, q)
<1>1. boot = "ready" /\ Still /\ Passes(t)
  BY DEF Call, Ready, Still, Passes
<1>2. PICK w : w = [r EXCEPT !.area = area]
  OBVIOUS
<1>3. DOMAIN w = Fields /\ w.op = r.op
  BY <1>2 DEF Fields
<1>4. Goto(t, w, pc)
  BY <1>2 DEF Call
<1>5. PICK s : th' = [th EXCEPT ![t] = s] /\ Light(s)
  BY <1>3, <1>4, LightIs
<1> QED
  BY <1>1, <1>5, LightEffect

(* creat, open, unlink, mkdir and rmdir.                                   *)
LEMMA OnNameEffect ==
  ASSUME IInv, KInv, NEW t \in Users, NEW op, NEW mode, OnName(t, op, mode), op # "read"
  PROVE  \E q : Effect(t, q)
<1>1. PICK n \in Names :
        Call(t, {cwd[t]}, [Idle EXCEPT !.op = op, !.mode = mode, !.path = <<n>>, !.on = cwd[t]], "scan")
  BY DEF OnName
<1>2. PICK r : r = [Idle EXCEPT !.op = op, !.mode = mode, !.path = <<n>>, !.on = cwd[t]]
  OBVIOUS
<1>3. DOMAIN r = Fields /\ r.op = op
  BY <1>2 DEF Idle, Fields
<1>4. Call(t, {cwd[t]}, r, "scan") /\ UNCHANGED <<inodes, file>>
  BY <1>1, <1>2 DEF OnName, memory
<1> QED
  BY <1>3, <1>4, CallLight

(* cd, ls and stat.                                                        *)
LEMMA WalkEffect ==
  ASSUME IInv, KInv, NEW t \in Users, NEW op, minifile_walk(t, op), op # "read"
  PROVE  \E q : Effect(t, q)
<1>1. PICK at, path :
        Call(t, Inodes, [Idle EXCEPT !.op = op, !.on = at, !.found = TRUE, !.path = path], "scan")
  BY DEF minifile_walk
<1>2. PICK r : r = [Idle EXCEPT !.op = op, !.on = at, !.found = TRUE, !.path = path]
  OBVIOUS
<1>3. DOMAIN r = Fields /\ r.op = op
  BY <1>2 DEF Idle, Fields
<1>4. Call(t, Inodes, r, "scan") /\ UNCHANGED <<inodes, file>>
  BY <1>1, <1>2 DEF minifile_walk, memory
<1> QED
  BY <1>3, <1>4, CallLight

(* minifile_read and _write begin at the cursor of the handle.             *)
LEMMA FileCallEffect ==
  ASSUME IInv, KInv, NEW t \in Users, NEW op \in {"read", "write"}, file[t] # NoFile,
         NEW p, p = file[t].position, NEW len \in Nat \ {0}, p + len <= Size,
         Call(t, Area(t), [Idle EXCEPT !.op = op, !.target = file[t].inode, !.cur = p \div BLOCK,
                              !.offset = p % BLOCK, !.left = len, !.end = p + len], op),
         UNCHANGED <<inodes, file>>
  PROVE  \E q : Effect(t, q)
<1>1. boot = "ready" /\ Still /\ Passes(t)
  BY DEF Call, Ready, Still, Passes
<1>2. PICK x : x = file[t].inode
  OBVIOUS
<1>3. PICK r : r = [Idle EXCEPT !.op = op, !.target = x, !.cur = p \div BLOCK, !.offset = p % BLOCK,
                                !.left = len, !.end = p + len]
  OBVIOUS
<1>4. PICK s : s = [[r EXCEPT !.area = Area(t)] EXCEPT !.pc = op]
  OBVIOUS
<1>5. th' = [th EXCEPT ![t] = s]
  BY <1>2, <1>3, <1>4 DEF Call, Goto
<1>6. /\ s.pc = op /\ s.op = op /\ s.target = x /\ s.area = Area(t) /\ s.cur = p \div BLOCK
      /\ s.offset = p % BLOCK /\ s.left = len /\ s.end = p + len
  <2>1. /\ DOMAIN r = Fields /\ r.op = op /\ r.target = x /\ r.cur = p \div BLOCK
        /\ r.offset = p % BLOCK /\ r.left = len /\ r.end = p + len
    BY <1>3 DEF Idle, Fields
  <2> QED
    BY <1>4, <2>1 DEF Fields
<1>7. p \in Nat
  BY SizeIs DEF KInv, LengthsInv
<1>8. Span(s)
  BY <1>6, <1>7, SpanIs
<1>9. x \in Area(t)
  BY <1>2 DEF Area
<1>10. ReadsFile(s, file[t]) /\ s.pc # "wait"
  BY <1>2, <1>6, <1>9 DEF ReadsFile
<1>11. Requests(t, s)
  BY <1>1, <1>10, PassRequests
<1> QED
  BY <1>1, <1>5, <1>8, <1>10, <1>11, StillEffect

(* One that has nothing to do returns at once.                             *)
LEMMA SoonEffect ==
  ASSUME IInv, KInv, NEW t \in Users, Call(t, Area(t), Idle, "return"), UNCHANGED <<inodes, file>>
  PROVE  \E q : Effect(t, q)
<1>1. DOMAIN Idle = Fields /\ Idle.op # "read"
  BY DEF Idle, Fields
<1> QED
  BY <1>1, CallLight

(* minifile_read: no more than there is in the file.                       *)
LEMMA ReadCallEffect ==
  ASSUME IInv, KInv, NEW t \in Users, minifile_read(t)
  PROVE  \E q : Effect(t, q)
<1> DEFINE f == file[t]
           there == inodes[f.inode].bytes - f.position
           amount(len) == IF len > there THEN there ELSE len
<1>1. PICK len \in Lengths :
        Call(t, Area(t),
             IF there <= 0 THEN Idle
             ELSE [Idle EXCEPT !.op = "read", !.target = f.inode,
                     !.cur = f.position \div BLOCK, !.offset = f.position % BLOCK,
                     !.left = amount(len), !.end = f.position + amount(len)],
             IF there <= 0 THEN "return" ELSE "read")
  BY DEF minifile_read
<1>2. file[t] # NoFile /\ UNCHANGED <<inodes, file>> /\ boot = "ready"
  BY <1>1 DEF minifile_read, memory, Call, Ready
<1>3. PICK m : m = amount(len)
  OBVIOUS
<1>4. CASE there <= 0
  BY <1>1, <1>2, <1>4, SoonEffect
<1>5. CASE ~(there <= 0)
  <2>1. PICK p, y : p = f.position /\ y = inodes[f.inode].bytes
    OBVIOUS
  <2>2. f.inode \in Inodes
    BY <1>2, AreaIs
  <2>3. p \in 0 .. Size /\ y \in 0 .. Size
    BY <2>1, <2>2 DEF KInv, LengthsInv, LengthsOK
  <2>4. len \in Nat \ {0}
    BY MiniFileAssumption
  <2>5. m \in Nat \ {0} /\ p + m <= Size
    <3>1. there = y - p /\ there > 0
      BY <1>5, <2>1, <2>3, SizeIs
    <3>2. m = IF len > y - p THEN y - p ELSE len
      BY <1>3, <3>1
    <3> QED
      BY <2>3, <2>4, <3>1, <3>2, SizeIs
  <2>6. Call(t, Area(t), [Idle EXCEPT !.op = "read", !.target = file[t].inode, !.cur = p \div BLOCK,
                              !.offset = p % BLOCK, !.left = m, !.end = p + m], "read")
    BY <1>1, <1>3, <1>5, <2>1
  <2> QED
    BY <1>2, <2>1, <2>5, <2>6, FileCallEffect
<1> QED
  BY <1>4, <1>5

(* minifile_write: no more than the direct blocks hold.                    *)
LEMMA WriteCallEffect ==
  ASSUME IInv, KInv, NEW t \in Users, minifile_write(t)
  PROVE  \E q : Effect(t, q)
<1> DEFINE f == file[t]
<1>1. PICK len \in Lengths :
        /\ f.position + len <= TABLE_SIZE * BLOCK
        /\ Call(t, Area(t),
             IF f.type = "READ" THEN Idle
             ELSE [Idle EXCEPT !.op = "write", !.target = f.inode,
                     !.cur = f.position \div BLOCK, !.offset = f.position % BLOCK,
                     !.left = len, !.end = f.position + len],
             IF f.type = "READ" THEN "return" ELSE "write")
  BY DEF minifile_write
<1>2. file[t] # NoFile /\ UNCHANGED <<inodes, file>>
  BY DEF minifile_write, memory
<1>3. CASE f.type = "READ"
  BY <1>1, <1>2, <1>3, SoonEffect
<1>4. CASE f.type # "READ"
  <2>1. PICK p : p = f.position
    OBVIOUS
  <2>2. len \in Nat \ {0} /\ p + len <= Size
    BY <1>1, <2>1, MiniFileAssumption DEF Size
  <2>3. Call(t, Area(t), [Idle EXCEPT !.op = "write", !.target = file[t].inode, !.cur = p \div BLOCK,
                              !.offset = p % BLOCK, !.left = len, !.end = p + len], "write")
    BY <1>1, <1>4, <2>1
  <2> QED
    BY <1>2, <2>1, <2>2, <2>3, FileCallEffect
<1> QED
  BY <1>3, <1>4

(* minifile_close.                                                         *)
LEMMA CloseEffect ==
  ASSUME IInv, KInv, NEW t \in Users, minifile_close(t)
  PROVE  \E q : Effect(t, q)
<1>1. PICK x : x = file[t].inode
  OBVIOUS
<1>2. PICK pc : pc = IF inodes'[x].references = 0 /\ ~inodes[x].free THEN "free" ELSE "return"
  OBVIOUS
<1>3. PICK r : r = [Idle EXCEPT !.op = "close", !.inode = x]
  OBVIOUS
<1>4. Call(t, Area(t), r, pc) /\ file[t] # NoFile /\ file' = [file EXCEPT ![t] = NoFile]
      /\ inodes' = IF inodes[x].free THEN inodes ELSE [inodes EXCEPT ![x].references = @ - 1]
  BY <1>1, <1>2, <1>3 DEF minifile_close
<1>5. boot = "ready" /\ onDisk' = onDisk /\ Passes(t)
  BY <1>4 DEF Call, Ready, Passes
<1>6. x \in Inodes /\ TableOK(inodes)
  BY <1>1, <1>4, <1>5, AreaIs DEF IInv, Shape
<1>7. \A y \in Inodes : inodes'[y].direct = inodes[y].direct /\ inodes'[y].bytes = inodes[y].bytes
  BY <1>4, <1>6 DEF TableOK, InodeOK, InodeFields
<1>8. LengthsOK(inodes') /\ LengthsOK(onDisk'.inodes)
  BY <1>5, <1>7 DEF KInv, LengthsInv, LengthsOK
<1>9. KeepsBlocks(t)
  BY <1>7, SameBlocks
<1>10. file'[t].position \in 0 .. Size /\ \A u \in Users \ {t} : file'[u] = file[u]
  <2>1. file = [u \in Users |-> file[u]] /\ NoFile.position = 0
    BY <1>5, Here DEF NoFile
  <2> QED
    BY <1>4, <2>1, SizeIs
<1>11. PICK w : w = [r EXCEPT !.area = Area(t)]
  OBVIOUS
<1>12. DOMAIN w = Fields /\ w.op = "close"
  <2>1. DOMAIN r = Fields /\ r.op = "close"
    BY <1>3 DEF Idle, Fields
  <2> QED
    BY <1>11, <2>1 DEF Fields
<1>13. Goto(t, w, pc) /\ pc \in {"free", "return"}
  BY <1>2, <1>4, <1>11 DEF Call
<1>14. PICK s : th' = [th EXCEPT ![t] = s] /\ Light(s)
  <2>1. DOMAIN w = Fields /\ w.op # "read"
    BY <1>12
  <2>2. \E s : th' = [th EXCEPT ![t] = s] /\ Light(s) /\ s.pc = pc
    BY <1>13, <2>1, LightIs
  <2> QED
    BY <2>2
<1>15. s.pc # "wait" /\ Span(s) /\ ReadsFile(s, file'[t])
  BY <1>14, LightSpan
<1> QED
  BY <1>5, <1>8, <1>9, <1>10, <1>14, <1>15, TableEffect

-----------------------------------------------------------------------------
(* Every step of a thread has such an effect.                              *)
LEMMA CallsEffect ==
  ASSUME IInv, KInv, NEW t \in Users, Calls(t)
  PROVE  \E q : Effect(t, q)
<1>1. CASE minifile_creat(t) \/ minifile_open(t) \/ minifile_unlink(t) \/ minifile_mkdir(t) \/ minifile_rmdir(t)
  <2>1. PICK op \in NameOps, mode \in {"none", "r", "r+", "w", "a"} : OnName(t, op, mode)
    BY <1>1 DEF minifile_creat, minifile_open, minifile_unlink, minifile_mkdir, minifile_rmdir, NameOps
  <2> QED
    BY <2>1, OnNameEffect DEF NameOps
<1>2. CASE minifile_cd(t) \/ minifile_ls(t) \/ minifile_stat(t)
  <2>1. PICK op \in Walks : minifile_walk(t, op)
    BY <1>2 DEF minifile_cd, minifile_ls, minifile_stat, Walks
  <2> QED
    BY <2>1, WalkEffect DEF Walks
<1> QED
  BY <1>1, <1>2, ReadCallEffect, WriteCallEffect, CloseEffect DEF Calls

(* A thread that is in a call goes on.                                     *)
LEMMA ContinuesEffect ==
  ASSUME IInv, KInv, NEW t \in Users, Continues(t)
  PROVE  boot = "ready" /\ \E q : Effect(t, q)
<1>1. boot = "ready"
  BY DEF Continues, Scan, Wake, Allocate, Made, Write, Put, Update, Read, Shift, Free, Returns, At, Ready
<1>2. CASE Scan(t) \/ Wake(t) \/ Allocate(t) \/ Made(t) \/ Write(t) \/ Put(t)
  BY <1>1, <1>2, ScanEffect, WakeEffect, AllocateEffect, MadeEffect, WriteEffect, PutStepEffect
<1>3. CASE Update(t) \/ Read(t) \/ Shift(t) \/ Free(t) \/ Returns(t)
  BY <1>1, <1>3, UpdateEffect, ReadEffect, ShiftEffect, FreeEffect, ReturnsEffect
<1> QED
  BY <1>1, <1>2, <1>3 DEF Continues

(* So a step of a thread keeps lengths and waiters.                        *)
LEMMA ThreadKeeps ==
  ASSUME IInv, KInv, NEW t \in Users, Calls(t) \/ Continues(t)
  PROVE  KInv'
<1>1. boot = "ready"
  <2>1. CASE Calls(t)
    BY <2>1 DEF Calls, minifile_creat, minifile_open, minifile_unlink, minifile_mkdir, minifile_rmdir,
         minifile_cd, minifile_ls, minifile_stat, minifile_walk, minifile_read, minifile_write,
         minifile_close, OnName, Call, Ready
  <2> QED
    BY <2>1, ContinuesEffect
<1>2. PICK q : Effect(t, q)
  BY CallsEffect, ContinuesEffect
<1> QED
  BY <1>1, <1>2, EffectKeeps

(* The disk answers the oldest read: its thread has the block, and the     *)
(* semaphore of the block, which nobody else waits for, counts one.        *)
LEMMA AnswerKeeps ==
  ASSUME IInv, KInv, handle_disk_response
  PROVE  KInv'
<1>1. PICK t : t = Head(reads)
  OBVIOUS
<1>2. PICK c : c = th[t].blk
  OBVIOUS
<1>3. /\ boot = "ready" /\ reads # <<>> /\ reads' = Tail(reads) /\ th' = [th EXCEPT ![t].got = TRUE]
      /\ blockMutex' = [blockMutex EXCEPT ![c] = @ + 1] /\ UNCHANGED <<inodes, onDisk, file>>
  BY <1>1, <1>2 DEF handle_disk_response, Ready, AnsweredBlock, memory, handles
<1>4. /\ InLine /\ Counts
      /\ \A u \in Users : ReadsFile(th[u], file[u]) /\ (th[u].pc = "wait" => AtBlock(inodes, th[u]))
  BY DEF KInv, WaitsInv
<1>5. /\ Len(reads) \in Nat /\ Len(reads) >= 1 /\ reads \in Seq(Users) /\ t = reads[1]
      /\ reads' \in Seq(Users) /\ Len(reads') = Len(reads) - 1
      /\ \A i \in 1 .. Len(reads') : reads'[i] = reads[i + 1]
  BY <1>1, <1>3, <1>4 DEF InLine
<1>6. t \in Users /\ th[t].pc = "wait" /\ ~th[t].got
  BY <1>4, <1>5 DEF InLine
<1>7. DOMAIN th[t] = Fields /\ th = [u \in Users |-> th[u]]
  BY <1>3, <1>6, Here
<1>8. PICK s : s = [th[t] EXCEPT !.got = TRUE]
  OBVIOUS
<1>9. th'[t] = s /\ \A u \in Users \ {t} : th'[u] = th[u]
  BY <1>3, <1>6, <1>7, <1>8
<1>10. /\ s.got /\ s.pc = "wait" /\ s.then = th[t].then /\ s.op = th[t].op /\ s.area = th[t].area
       /\ s.on = th[t].on /\ s.target = th[t].target /\ s.cur = th[t].cur
       /\ s.offset = th[t].offset /\ s.left = th[t].left /\ s.end = th[t].end /\ s.blk = c
  BY <1>2, <1>6, <1>7, <1>8 DEF Fields
<1>11. Span(s) /\ ReadsFile(s, file[t]) /\ AtBlock(inodes, s)
  <2>1. Span(th[t]) /\ ReadsFile(th[t], file[t]) /\ AtBlock(inodes, th[t])
    BY <1>4, <1>6 DEF KInv, LengthsInv
  <2>2. Span(s)
    BY <1>6, <1>10, <2>1 DEF Span, Spans, Waits
  <2>3. ReadsFile(s, file[t])
    BY <1>10, <2>1 DEF ReadsFile
  <2>4. AtBlock(inodes, s)
    BY <1>2, <1>10, <2>1 DEF AtBlock, Held
  <2> QED
    BY <2>2, <2>3, <2>4
<1>12. LengthsInv'
  <2>1. LengthsOK(inodes') /\ LengthsOK(onDisk'.inodes)
    BY <1>3 DEF KInv, LengthsInv
  <2>2. ASSUME NEW u \in Users PROVE file'[u].position \in 0 .. Size /\ Span(th'[u])
    BY <1>3, <1>9, <1>11 DEF KInv, LengthsInv
  <2> QED
    BY <2>1, <2>2 DEF LengthsInv
<1>13. ASSUME NEW u \in Users
       PROVE  ReadsFile(th'[u], file'[u]) /\ (th'[u].pc = "wait" => AtBlock(inodes', th'[u]))
  BY <1>3, <1>4, <1>9, <1>11
<1>14. InLine'
  <2>1. \A i \in 1 .. Len(reads') : i + 1 \in 1 .. Len(reads) /\ 1 \in 1 .. Len(reads) /\ i + 1 # 1
    BY <1>5
  <2>2. ASSUME NEW i \in 1 .. Len(reads') PROVE reads'[i] \in Users /\ reads'[i] # t
    <3>1. PICK k : k = i + 1
      OBVIOUS
    <3>2. reads'[i] = reads[k] /\ k \in 1 .. Len(reads) /\ k # 1
      BY <1>5, <2>1, <3>1
    <3> QED
      BY <1>4, <1>5, <2>1, <3>2 DEF InLine
  <2>3. ASSUME NEW i \in 1 .. Len(reads') PROVE th'[reads'[i]].pc = "wait" /\ ~th'[reads'[i]].got
    <3>1. th'[reads'[i]] = th[reads[i + 1]] /\ i + 1 \in 1 .. Len(reads)
      BY <1>5, <1>9, <2>1, <2>2
    <3> QED
      BY <1>4, <3>1 DEF InLine
  <2>4. ASSUME NEW i \in 1 .. Len(reads'), NEW j \in 1 .. Len(reads'), reads'[i] = reads'[j] PROVE i = j
    <3>1. reads[i + 1] = reads[j + 1] /\ i + 1 \in 1 .. Len(reads) /\ j + 1 \in 1 .. Len(reads)
      BY <1>5, <2>1, <2>4
    <3>2. i + 1 = j + 1
      BY <1>4, <3>1 DEF InLine
    <3> QED
      BY <3>2
  <2> QED
    BY <1>5, <2>3, <2>4 DEF InLine
<1>15. c \in 0 .. NumData - 1 /\ blockMutex[c] = 0
  <2>1. c \in 0 .. NumData - 1 /\ blockMutex[c] \in {0, 1}
    BY <1>2, <1>4, <1>6 DEF AtBlock, Counts
  <2>2. ~(blockMutex[c] > 0)
    BY <1>2, <1>3, <1>6, GotIt DEF KInv
  <2> QED
    BY <2>1, <2>2
<1>16. Counts'
  <2>1. blockMutex' = [blockMutex EXCEPT ![c] = 1]
    <3>1. blockMutex' = [blockMutex EXCEPT ![c] = blockMutex[c] + 1]
      BY <1>3
    <3> QED
      BY <1>15, <3>1
  <2>2. blockMutex' \in [0 .. NumData - 1 -> {0, 1}]
    BY <1>4, <1>15, <2>1 DEF Counts
  <2>3. ASSUME NEW b \in 0 .. NumData - 1, blockMutex'[b] = 1 PROVE \E u \in Users : HasBlock(u, b)'
    <3>1. CASE b = c
      BY <1>6, <1>9, <1>10, <3>1 DEF HasBlock
    <3>2. CASE b # c
      <4>1. blockMutex[b] = 1
        BY <1>4, <1>15, <2>1, <2>3, <3>2 DEF Counts
      <4>2. PICK u \in Users : HasBlock(u, b)
        BY <1>4, <4>1 DEF Counts
      <4>3. u # t
        BY <1>6, <4>2 DEF HasBlock
      <4> QED
        BY <1>9, <4>2, <4>3 DEF HasBlock
    <3> QED
      BY <3>1, <3>2
  <2> QED
    BY <2>2, <2>3 DEF Counts
<1> QED
  BY <1>12, <1>13, <1>14, <1>16 DEF KInv, WaitsInv

(* A program that boots, or has just started: nobody is in a call.         *)
LEMMA NobodyWaits ==
  ASSUME LengthsOK(inodes), LengthsOK(onDisk.inodes), AtRest, InLine, Counts
  PROVE  KInv
<1>1. \A t \in Users : th[t] = Idle /\ file[t] = NoFile
  BY DEF AtRest
<1>2. Span(Idle) /\ (\A f : ReadsFile(Idle, f)) /\ Idle.pc # "wait"
  BY DEF Span, Spans, Waits, ReadsFile, Idle
<1>3. NoFile.position \in 0 .. Size
  BY SizeIs DEF NoFile
<1> QED
  BY <1>1, <1>2, <1>3 DEF KInv, LengthsInv, WaitsInv

(* The lengths of a program that has just started.                         *)
LEMMA BlankLengths == LengthsOK(Blank)
<1>1. PICK n : n = Inode("REGULARFILE", TRUE, 0, 0, 0, NoBlocks)
  OBVIOUS
<1>2. n.bytes = 0
  BY <1>1 DEF Inode
<1>3. Blank = [x \in Inodes |-> n]
  BY <1>1 DEF Blank
<1> QED
  BY <1>2, <1>3, SizeIs DEF LengthsOK

(* Memory is read from the disk.                                           *)
LEMMA BootKeeps ==
  ASSUME IInv, KInv, setup_superblock \/ setup_inode \/ setup_bitmap
  PROVE  KInv'
<1>1. /\ boot # "ready" /\ UNCHANGED <<onDisk, th, cwd, file, reads, blockMutex>>
      /\ UNCHANGED inodes \/ inodes' = onDisk.inodes
  BY DEF setup_superblock, setup_inode, setup_bitmap, Exits, running
<1>2. LengthsOK(inodes') /\ LengthsOK(onDisk'.inodes)
  BY <1>1 DEF KInv, LengthsInv
<1>3. \A t \in Users : th[t] = Idle
  BY <1>1 DEF IInv, ImageInv, AtRest
<1>4. \A t \in Users : th[t].pc # "wait"
  BY <1>3 DEF Idle
<1>5. LengthsInv'
  BY <1>1, <1>2 DEF KInv, LengthsInv
<1>6. InLine' /\ Counts'
  BY <1>1 DEF KInv, WaitsInv, InLine, Counts, HasBlock
<1> QED
  BY <1>1, <1>4, <1>5, <1>6 DEF KInv, WaitsInv

(* The disk has nothing to read.                                           *)
LEMMA NoneInLine ==
  ASSUME reads = <<>>, blockMutex = [b \in 0 .. NumData - 1 |-> 0]
  PROVE  InLine /\ Counts
<1>1. reads \in Seq(Users) /\ Len(reads) = 0
  OBVIOUS
<1>2. InLine
  BY <1>1 DEF InLine
<1> QED
  BY <1>2 DEF Counts

(* The machine stops: the lengths are those on the disk.                   *)
LEMMA CrashKeeps ==
  ASSUME KInv, Crash
  PROVE  KInv'
<1>1. /\ inodes' = Blank /\ onDisk' = onDisk /\ reads' = <<>>
      /\ blockMutex' = [b \in 0 .. NumData - 1 |-> 0]
      /\ th' = [t \in Users |-> Idle] /\ file' = [t \in Users |-> NoFile]
      /\ cwd' = [t \in Users |-> 0]
  BY DEF Crash
<1>2. LengthsOK(inodes') /\ LengthsOK(onDisk'.inodes)
  BY <1>1, BlankLengths DEF KInv, LengthsInv
<1>3. \A t \in Users : th'[t] = Idle /\ file'[t] = NoFile
  BY <1>1
<1>4. Span(Idle) /\ (\A f : ReadsFile(Idle, f)) /\ Idle.pc # "wait"
  BY DEF Span, Spans, Waits, ReadsFile, Idle
<1>5. NoFile.position \in 0 .. Size
  BY SizeIs DEF NoFile
<1>6. InLine' /\ Counts'
  <2>1. reads' \in Seq(Users) /\ Len(reads') = 0
    BY <1>1
  <2> QED
    BY <1>1, <2>1 DEF InLine, Counts
<1> QED
  BY <1>2, <1>3, <1>4, <1>5, <1>6 DEF KInv, LengthsInv, WaitsInv

(* What the disks claim fits in an inode.                                  *)
LEMMA NewLengths ==
  ASSUME NEW complete, onDisk = Mkfs(complete)
  PROVE  LengthsOK(onDisk.inodes)
<1>1. PICK r, f : /\ r = Inode("DIRECTORY", FALSE, 1, TABLE_SIZE, 0, [k \in 0 .. TABLE_SIZE - 1 |-> k])
                  /\ f = Inode("REGULARFILE", TRUE, 0, 0, 0, [k \in 0 .. TABLE_SIZE - 1 |-> 0])
  OBVIOUS
<1>2. onDisk.inodes = [x \in Inodes |-> IF x = 0 THEN r ELSE f]
  BY <1>1 DEF Mkfs
<1>3. r.bytes = 0 /\ f.bytes = 0
  BY <1>1 DEF Inode
<1> QED
  BY <1>2, <1>3, SizeIs DEF LengthsOK

(* The same, for the disk that was used.                                   *)
LEMMA UsedLengths ==
  ASSUME onDisk = Used.disk
  PROVE  LengthsOK(onDisk.inodes)
<1>1. PICK m : m = Mkfs(TRUE).inodes
  OBVIOUS
<1>2. PICK o1, o2, o3 :
        /\ o1 = Owned("DIRECTORY", 1, 0, ENTRY, TABLE_SIZE)
        /\ o2 = Owned("REGULARFILE", 2, 1, BLOCK + Least(Lengths), TABLE_SIZE + 1)
        /\ o3 = Owned("REGULARFILE", 1, 0, 0, TABLE_SIZE + 2)
  OBVIOUS
<1>3. o1.bytes = ENTRY /\ o2.bytes = BLOCK + Least(Lengths) /\ o3.bytes = 0
  BY <1>2 DEF Owned, Inode
<1>4. \A x \in Inodes : m[x].bytes = 0
  <2>1. PICK r, f : /\ r = Inode("DIRECTORY", FALSE, 1, TABLE_SIZE, 0, [k \in 0 .. TABLE_SIZE - 1 |-> k])
                    /\ f = Inode("REGULARFILE", TRUE, 0, 0, 0, [k \in 0 .. TABLE_SIZE - 1 |-> 0])
    OBVIOUS
  <2>2. m = [x \in Inodes |-> IF x = 0 THEN r ELSE f]
    BY <1>1, <2>1 DEF Mkfs
  <2>3. r.bytes = 0 /\ f.bytes = 0
    BY <2>1 DEF Inode
  <2> QED
    BY <2>2, <2>3
<1>5. PICK a : a = [m EXCEPT ![0].bytes = 2 * ENTRY]
  OBVIOUS
<1>6. \A x \in Inodes : a[x].bytes \in {0, 2 * ENTRY}
  BY <1>1, <1>4, <1>5 DEF Mkfs, Inode
<1>7. onDisk.inodes = [[[a EXCEPT ![1] = o1] EXCEPT ![2] = o2] EXCEPT ![3] = o3]
  BY <1>1, <1>2, <1>5, UsedDisk
<1>8. \A x \in Inodes : onDisk.inodes[x].bytes \in {0, 2 * ENTRY, ENTRY, BLOCK + Least(Lengths)}
  <2>1. DOMAIN a = Inodes
    BY <1>1, <1>5 DEF Mkfs
  <2> QED
    BY <1>3, <1>6, <1>7, <2>1
<1>9. 0 \in 0 .. Size /\ ENTRY \in 0 .. Size /\ 2 * ENTRY \in 0 .. Size
  BY SizeIs, MiniFileAssumption
<1>10. BLOCK + Least(Lengths) \in 0 .. Size
  <2>1. PICK l \in Lengths : l < BLOCK
    BY MiniFileAssumption
  <2>2. Lengths \subseteq Nat \ {0}
    BY MiniFileAssumption
  <2>3. Least(Lengths) \in Lengths /\ Least(Lengths) <= l
    <3>1. Lengths \in SUBSET Nat /\ Lengths # {}
      BY <2>1, <2>2
    <3> QED
      BY <2>1, <3>1, LeastIn
  <2>4. PICK k : k = TABLE_SIZE - 2
    OBVIOUS
  <2>5. k \in Nat /\ TABLE_SIZE = k + 2 /\ BLOCK \in Nat
    BY <2>4, MiniFileAssumption
  <2>6. (k + 2) * BLOCK = k * BLOCK + BLOCK + BLOCK /\ k * BLOCK \in Nat
    BY <2>5
  <2>7. Least(Lengths) \in Nat /\ Least(Lengths) <= BLOCK
    <3>1. PICK j : j = Least(Lengths)
      OBVIOUS
    <3>2. j \in Nat /\ j <= l /\ l \in Nat
      BY <2>1, <2>2, <2>3, <3>1
    <3> QED
      BY <2>1, <2>5, <3>1, <3>2
  <2> QED
    BY <2>5, <2>6, <2>7 DEF Size
<1> QED
  BY <1>8, <1>9, <1>10 DEF LengthsOK

(* Lengths and waiters, when the program starts.                           *)
LEMMA InitWaits ==
  ASSUME FileInit
  PROVE  KInv
<1>1. LengthsOK(onDisk.inodes)
  BY NewLengths, UsedLengths DEF FileInit
<1>2. LengthsOK(inodes)
  BY BlankLengths DEF FileInit
<1>3. InLine /\ Counts
  BY NoneInLine DEF FileInit
<1>4. AtRest
  BY DEF FileInit, AtRest
<1> QED
  BY <1>1, <1>2, <1>3, <1>4, NobodyWaits

(* Every step keeps them.                                                  *)
LEMMA WaitsStep ==
  ASSUME IInv, KInv, [FileNext]_fileVars
  PROVE  KInv'
<1>1. CASE UNCHANGED fileVars
  <2>1. UNCHANGED <<inodes, onDisk, th, file, reads, blockMutex>>
    BY <1>1 DEF fileVars
  <2> QED
    BY <2>1 DEF KInv, LengthsInv, WaitsInv, InLine, Counts, HasBlock
<1>2. CASE setup_superblock \/ setup_inode \/ setup_bitmap
  BY <1>2, BootKeeps
<1>3. CASE Crash
  BY <1>3, CrashKeeps
<1>4. CASE handle_disk_response
  BY <1>4, AnswerKeeps
<1>5. CASE \E t \in Users : Calls(t) \/ Continues(t)
  BY <1>5, ThreadKeeps
<1> QED
  BY <1>1, <1>2, <1>3, <1>4, <1>5 DEF FileNext

(* What every read and write has left stays within the direct blocks of    *)
(* its inode; who waits, waits for a block of an inode of its own; and a   *)
(* semaphore of a block counts only what the disk has answered.            *)
THEOREM WaitersAreServed == FileSpec => [](IInv /\ KInv)
<1>1. FileInit => IInv /\ KInv
  BY InitStep, InitWaits
<1>2. IInv /\ KInv /\ [FileNext]_fileVars => IInv' /\ KInv'
  BY NextStep, WaitsStep
<1> QED
  BY <1>1, <1>2, PTL DEF FileSpec

(* A thread that gets the semaphore of its block has the data of the       *)
(* block: the answers of other reads never wake it.                        *)
THEOREM ReadersHaveTheirBlock == FileSpec => []ReaderHasItsBlock
<1>1. ASSUME IInv, KInv, NEW t \in Users, th[t].pc = "wait", blockMutex[th[t].blk] > 0
      PROVE  th[t].got
  <2>1. boot = "ready"
    <3>1. SUFFICES ASSUME boot # "ready" PROVE FALSE
      OBVIOUS
    <3>2. th[t] = Idle
      BY <1>1, <3>1 DEF IInv, ImageInv, AtRest
    <3> QED
      BY <1>1, <3>2 DEF Idle
  <2> QED
    BY <1>1, <2>1, GotIt DEF KInv
<1>2. IInv /\ KInv => ReaderHasItsBlock
  BY <1>1 DEF ReaderHasItsBlock
<1> QED
  BY <1>2, WaitersAreServed, PTL
=============================================================================
