# PortOS in TLA+

PortOS (this repository) turns one UNIX process into a small operating system
of preempted user-level threads ("minithreads"), with semaphores, alarms, datagrams, a reliable stream, ad-hoc
routing and a file system on a simulated disk. This directory holds the TLA+
models of it, the TLC configurations that check them, and the proofs.

## 1. Inventory

| component | files | state | operations | interacts with |
|---|---|---|---|---|
| scheduler | minithread.c, multilevel_queue.c, machineprimitives* | `runningThread`, `multiqueue`, `quantaRemaining`, level and stack of each thread, finished threads | fork, yield, stop, start, exit, cleanup, `clock_handler` | every other part calls it; ticks enter it anywhere interrupts are enabled |
| semaphores | synch.c, queue.c | count, wait queue | P, V | P calls `minithread_stop`, V `minithread_start`; handlers V |
| alarms | alarm.c, sortedlist.c | sorted list of nodes, `currentTime` | register, deregister, `callAlarms` | called by every tick; handlers V semaphores |
| interrupts | interrupts.c | `interrupt_level`, the signal hand-shake | `set_interrupt_level`, `send_interrupt`, `handle_interrupt` | device threads (network, disk, keyboard) to the one CPU |
| terminal | read.c | list of typed lines, `new_data` | `read_handler`, `miniterm_read` | interrupts, semaphores |
| miniports | minimsg.c | table of ports, `nextBoundPort`, data queues | create, destroy, send, receive | network handler, routing |
| minisockets | minisocket.c | table of sockets, sequence numbers, `waiting`, buffers | server/client create, send, receive, destroy | network handler, alarms |
| routing | miniroute.c, miniheader.c, hashmap.c | route cache, open discoveries | send, discovery, forwarding | network handler, alarms |
| network handler | minithread.c:321-571 | none of its own | dispatch of a packet in interrupt context | ports, sockets, routing |
| network | network.c | sockets, topology | send, broadcast, poll (loss and duplication) | interrupts |
| file system | minifile.c, mkfs.c, blockcache.c | inodes, bitmap, directories, per-thread directory | creat, open, read, write, unlink, mkdir, rmdir, cd, ls, pwd, stat | disk, semaphores |
| disk | disk.c | request queue, crash state | request, poll, reset, shutdown | its own pthread; interrupts |
| applications, tests | buffer.c, sieve.c, store.c, shell.c, ... | | | |

What is hard: one CPU interleaves threads at every tick; handlers run on the
stack of whatever was interrupted and touch the same queues; several functions
test something with interrupts enabled and act on it later; alarms race with
the events they guard against; the network loses, duplicates and delays; the
disk reorders, fails and crashes. `PROJECT.json` lists each hazard at its line,
with the properties that would catch it, or why none does.

What makes each part correct: no thread is lost or run twice, a P returns only
after its V and each V is used once (scheduler, semaphores); an alarm runs once,
at its time, unless deregistered (alarms); an interrupt is handled exactly once
(interrupts); the table shows exactly the live ports, and every call gives back
the semaphores it took (ports); data arrives once and in order, and every call
ends (sockets, routing); blocks and inodes have one owner, and what is on the
disk is a file system at every moment (file system, disk). Where the code does
not keep such a promise the property says up to which point it does, and
section 5 names what is beyond it.

## 2. Modules

| module | models | checked by |
|---|---|---|
| `Minithread` | scheduler, semaphores, tick, exit and cleanup | `mt_sched`, `mt_exit`, `mt_fair`, `mt_null_switch`, `mt_freed_stack` |
| `Semaphore` | what synch.h promises: FIFO counting semaphores (abstract) | refined by `Minithread` (`ImplementsSemaphores`) |
| `MinithreadProofs` | theorems about `Minithread` | tlapm |
| `Alarm` | alarm.c, sortedlist.c, the alarm part of the tick | `alarm`, `alarm_on_time` |
| `AlarmProofs` | theorems about `Alarm` | tlapm |
| `Miniport` | minimsg.c and the datagram branch of the network handler | `ports`, `port_reuse`, `lost_datagram` |
| `MiniportProofs` | theorems about `Miniport` | tlapm |
| `Terminal` | send_interrupt and handle_interrupt (interrupts.c), read.c | `devices` |
| `TerminalProofs` | theorems about `Terminal` | tlapm |
| `Disk` | disk.c: request queue, disk thread, crash and reset | `devices` |
| `StorageProofs` | theorems about `Disk`; about `MiniFile`, on top of `MiniFileProofs` | tlapm |
| `MiniFile` | minifile.c on a disk of mkfs.c, with crashes | `services` |
| `MiniFileProofs` | theorems about `MiniFile` | tlapm |
| `MiniRoute` | miniroute.c, network_handler, what network.c does to packets | `services` |
| `MiniRouteProofs` | theorems about `MiniRoute` | tlapm |
| `MiniSocket` | minisocket.c, the stream branch of handle_data_packet | `services` |
| `MiniSocketProofs` | theorems about `MiniSocket` | tlapm |
| `MC*` | values of the constants and symmetry sets | |

`MCDevices` (`Terminal`, `Disk`) and `MCServices` (`MiniFile`, `MiniRoute`,
`MiniSocket`) check several modules in one state space: `part` says of which one a
behaviour is, and the others stay in an initial state. The modules are not composed further: the file system relies of
the disk only on what `NoRequestStranded`, `ReadReturnsLatestWrite` and
`RequestIsAnswered` say of a disk that neither fails nor crashes, and no code
connects minisockets to routing (section 5).

In every module a definition whose name starts with `Faulty` is a mutant of the
one that follows it. No specification uses it; it documents which mistake each
property notices (`PROJECT.json`, "mutants").

### Minithread

The state is the globals of minithread.c, the fields of each control block and
semaphore, `interrupt_level`, and `pc`, which says where in the package's code
each thread is. `cpu` is the thread whose stack the processor is on; it differs
from `runningThread` exactly in the window of `minithread_exit`. One action is
the code between two points where an interrupt can arrive: code that runs with
interrupts disabled is one action; `minithread_stop` is split at its spin
(lines 199-202), `minithread_exit`, which never disables interrupts, at each
access to shared state: the length of the finished threads is compared, their
queue is taken, and it is replaced by a new one in three steps. A queue operation
is one step. Threads are a most
general client: between two calls a thread makes any call. `fork` creates a
thread from the finite set of control blocks; stacks, names and thread ids are
abstracted. The random start level of `get_priority_of_thread` is an existential
choice.

Four states end a behaviour, because what the C program does then has no
meaning: a switch to NULL, a context saved over another thread's, a switch to a
freed stack, and two exiting threads that took the same queue of finished threads
(`sharedFinished`, minithread.c:121-124), which two cleaners would then free twice.
They are the values of `fault`; properties are stated up to a
fault, and that a fault is reachable is shown by a run or said below.

### Semaphore and the refinement

`Semaphore` is the abstract counting semaphore: `PassP`, `WaitP`, `V`,
`ReturnP`. `Minithread` implements it under the mapping value = max(count, 0),
waiting = the wait queue, inP = the threads between their append to the wait
queue and their return from `semaphore_P`. Spinning, levels, ticks and the
switch are stuttering steps. The modules above the scheduler use semaphores as
that abstraction allows: a P waits for a positive count.

### Alarm

The list is modelled node by node (`head`, `next`, `prev`, `time`, `length`) over
a set of memory chunks, since its hazards are those of its links: `insert` is the
three outcomes of its walk, one of which links nothing. `Linked` is the least set of
nodes that has `head` and is closed under `next`. `time` is what the code
stores: the bare delay. The `next` of a new tail is whatever malloc returned; if
it is not NULL the list runs into memory nobody owns, the model stops (`wild`)
and the properties are stated up to there. Times are quanta. Every operation
runs with interrupts disabled and is one action.

### Miniport

A step ends where a thread can be preempted between two accesses to shared
memory, the handler is one step. `Converted` computes with C's remainder, whose
sign is that of the dividend, because `nextBoundPort` starts below the range.
`minimsg_receive` calls `queue_dequeue` with interrupts enabled and no mutex, so
that call is cut where the handler's `queue_append` makes a difference: `Dequeue`
takes the node from `front`, `LoadSize` begins `size--`, `StoreSize` ends it, and
the datagram is in `item` meanwhile. `data_queue` is what `front` leads to; `size` is
the field, and an append that finds it positive links behind `rear`: a datagram
that arrives between `Dequeue` and `LoadSize` may be linked where `front` never
leads. A thread is "dead" where the program would go on in memory that is not the
queue's or with a queue that contradicts itself: a receiver that finds no
datagram, two receivers at one node, an update of `size` that is lost, a `rear` that
is NULL when the handler appends. `Running` says that none is.
A datagram is abstracted to the address `minimsg_receive` reads as its sender's
(or NULL when it discards it); that this address is read from behind the header
(minimsg.c:288) is not visible at this level. minimsg.h makes the programs
responsible for not destroying ports in use: `InUse` and `BeingDestroyed` state
the discipline assumed, that nobody else holds the port or is asking for it.

### Terminal

Each device is a pthread that runs beside the one that runs the minithreads:
it waits for `signal_mutex`, queues its signal, and waits for the answer of
`handle_interrupt`, again and again until the signal was taken. What the signal
finds on the CPU (interrupts disabled, a program counter in the C library) is
the choice between `Refused` and `Taken`. The first part of a handler runs
disabled while its device already goes on; `read_handler` then enables
interrupts and only later does its V, on the stack of the thread it
interrupted: `owes` is the set of these frames, each with its thread and line. Lines and other payloads are the
numbers in which they were sent. The scheduler of `Minithread` is reduced to
who has the CPU and who waits in `new_data`.

### Disk

`disk_send_request` is one step, because the queue, `last` and the semaphore
change under `disk_mutex`; a turn of `disk_poll` is one step up to its
interrupt, because `send_interrupt` returns when the handler has run. A request
is its number, and a WRITE stores the number of its request, so a READ shows
exactly which WRITE it returns. `genrand() < rate` is a choice. `extent` is the
length of the UNIX file: a READ behind it is a short `fread` and answered
ERROR. `SendReset` is the type disk.h offers to callers; no function sends it.

### MiniFile

A thread runs one call at a time and is cut where it waits for a block, where
it gives back a mutex and between two writes to the disk. `th[t].pc` is the
place, `th[t].then` what the awaited block is read for; the lookup loop that
six functions repeat is `Scan`, `Wake` and `Entry`, `inode_write` is `Write`,
`Put` and `Update`. Sizes are in units (`BLOCK` = 5, `ENTRY` = 2), such that an
entry straddles blocks as it does in the code. Memory (`inodes`, `freeBlocks`)
and disk (`onDisk`) are separate; a `Crash` forgets memory and handles and boots
again through `setup_superblock`, `setup_inode` and `setup_bitmap`. Entries have
one copy, since a directory's block is always read from the disk. `fault` names
the undefined behaviour that ends the program: a semaphore or a bit of the
bitmap outside its array, a NULL inode. `ranOut` remembers that `allocate_block`
found no bit: only then is a block -1 written or freed. An inode whose first
block could not be allocated counts it all the same, and when the other blocks
are written its size is `TABLE_SIZE` + 1; `free_inode` then takes the field behind
the table (minifile.c:624-637), `indirectblock`, which is -1, for a block.

Two kinds of behaviour are explored. In one a single thread works on a new disk
(complete, or of an interrupted mkfs) and may crash; in the other two threads
work on a disk that was used before (`Used`, a state to which longer behaviours of
the first kind lead: the file in the directory was written from inside a block to behind its
end), with every interleaving of their steps and the disk's answers.
`MiniFileAssumption` says that this disk fits: four inodes, a table of two blocks
and three blocks more, two entries to a block, a length within a block.

### MiniRoute

A cached route never spares a discovery, since its age is `int` arithmetic that
never exceeds a second (section 5); `miniroute_send` therefore always asks or
joins. One action per section between two points where something can come between:
`Ask`, `Discover`, `Answered`, `WakeWaiters`, `FreeRequest`, `DeleteRequest`,
`SendData` for the initiator, `Wait` and `ReRead` for those who join it. A
packet that is lost is never taken out of `net`; one that is duplicated is
handled and stays. A path is a sequence in which "junk" is a place nobody wrote,
and `Residues` is what such memory may hold, as it decides where packets go:
network_handler writes its own address one place too far (minithread.c:495-517)
and replies with a path one longer than what it filled in.

### MiniSocket

One host with its threads; the peer and the network are the packets of
`Arrivals`, at any time and any port. `handle_data_packet` is an interrupt: when
`socket->mutex` is taken it sleeps in it on top of some thread that could run
(`frame`), and that thread does not go on before the interrupt does. `timers`
are the alarms that are linked, and only these run `wake_up_semaphore`.
`register_alarm` links none beside an alarm of the same delay (sortedlist.c:62),
be it of another handshake at the same try or of any other client, which is a
choice. `alarmId` is what the address each thread holds has come to name: its
alarm, one that was never linked (`Unlinked`), or memory that was freed (`Fired`,
`Taken`) and may have become another thread's alarm, which `deregister_alarm` then
takes out (minisocket.c:206). A packet that the network refuses doubles the
timeout at once (`NextTry`). The two `queue_dequeue` of `TakeRequest` and `TakeData`
are single steps; what a tear of such a call does is in `Miniport`. `acked` is a
history variable that counts acknowledgements.

## 3. Runs

| run | instance | shows |
|---|---|---|
| `mt_sched` | 3 threads, 2 semaphores (one Vd by interrupts), 3 levels, counts <= 1, symmetric workers | types, count against wait queue, every thread in exactly one place, no return before the V, idling takes interrupts, refinement of `Semaphore` |
| `mt_exit` | 3 threads that exit, 2 cleanup threads, cleanup after 1 finished thread, 1 level | the same accounting through `minithread_exit`, and that `minithread_self` names the caller |
| `mt_fair` | 3 threads, 1 semaphore, 2 levels, no yield or exit, no symmetry | a woken thread returns from P; a ready thread runs |
| `mt_null_switch` | as `mt_fair` | violated: `minithread_stop` can switch to NULL |
| `mt_freed_stack` | as `mt_exit`, 2 levels | violated: the stack of a ready thread is freed |
| `alarm` | 3 clients, 4 nodes, delays 0..2, clock 0..3 | list well formed, length covers it, an alarm is pending once and only for who waits |
| `alarm_on_time` | the same | violated: an alarm is not linked, or not for its time |
| `ports` | 3 threads, 3 ports of memory, 1 unbound and 2 bound numbers, 2 datagrams waiting | table shows the live ports, data count, semaphores given back |
| `port_reuse` | 2 threads, 3 bound numbers | violated: a destroyed number is assigned again |
| `lost_datagram` | as `port_reuse` | violated: a receiver passes its P and finds no datagram |
| `devices` | terminal: 2 devices, 3 interrupts each, 2 threads, any refusals. Disk: 2 blocks, 3 requests | each interrupt handled once and in order, lines read in order, a line for each reader that was let through, a sender with the mutex returns, a line is read; no request stranded or served between crash and reset, reads return the latest write, every request answered |
| `services` | files: 5 inodes, 7 data blocks, 8 bits, inodes of 3 blocks, 2 names, writes of 3 and 7 units, 4 calls, 2 threads, 1 crash. Routes: 3 hosts in a line, one link that changes, 2 senders, 3 events. Sockets: 2 threads, 1 server and 2 client ports, 2 tries, 4 kinds of packet, 3 calls and arrivals | blocks disjoint, references cover uses, the tree is rooted, answers wake their readers, the disk is sound between any two writes, calls end, memory is left only for named reasons; one discovery for all who ask, own routes do not misdeliver, waiters woken; a mutex admits one more for each acknowledgement and no other, packets announced, a refused client finds the port table full, handshake packets whose alarms are linked end |

Bounds. `MaxCount` stops Vs once a count reaches it; the code has no bound, and
counts above 1 only repeat what a count of 1 lets a P do. Three threads are the
fewest for one to run, one to spin or be woken, and one to come between. Three
levels make the search of the multilevel queue wrap around (the code has four).
Alarm's four nodes allow an insertion in front, in the middle and at the end,
and one that is lost; memory that is never freed bounds `length`. Miniport's
two bound numbers make the search start behind the range, wrap around and exhaust
it; memory for three ports makes malloc fail, and a third thread comes between two
that meet at one port. Three interrupts of each device make a list
of several lines with two handlers' Vs outstanding, on one stack or on two.
`MaxQueue` bounds the arrivals at one port. Three disk requests are one to
crash or reset, one to swap and one to read what was written. Four calls are
creat, write, close and open of one file, or two calls of each of two threads;
seven data blocks beside a bitmap of eight bits let a new disk fill up and its
last bit be handed out, and the lengths 3 and 7 end inside and behind a block
of 5. Three hosts are the fewest with a host that forwards; three events are two
senders that meet and one late or repeated packet. Three calls and arrivals are two
handshakes at the same try, of which one is not linked, and a packet for one of
them, or a server, its client and an acknowledgement. Two client ports let a
search wrap around, a stale one too; two tries stand for the seven timeouts
from 100 to 6400.

Fairness (`mt_fair`). Strong fairness of `Continue(t)`: a thread that gets the
CPU again and again completes the few instructions of the package it is in,
because ticks are QUANTA apart. Weak fairness of ticks: the timer keeps
running. Strong fairness of a preempting tick for each start level: the level is
drawn at random, independently of the state, so with probability one each is
drawn again and again. Nothing is assumed of the programs or other interrupts.
In particular a thread that never blocks still loses the CPU to ticks.

Fairness (`devices`). Devices past the lock, delivery of signals and handlers go
on (weak). A signal that is sent again and again is taken (strong): minithreads
are neither for ever with interrupts disabled nor for ever in the C library.
That fails for a program that yields with nobody ready and then computes for
ever (minithread.c:233). A thread that can run is given the CPU and gets through
the few instructions of read.c (strong). Getting `signal_mutex` is not assumed
fair, so `SendReturns` speaks of a device that has it. The disk thread runs while its
semaphore has counts (weak).

Fairness (`services`). The disk answers what was queued, each thread and sender that
can go on is run (`ReadyThreadRuns`), and clock ticks fire the alarms that are
linked (weak). No call, failure or crash is forced, and an alarm that was
registered but not linked never fires. Nothing is assumed of the
network: `WaiterWoken` starts from a reply that came, `TransmitEnds` from a linked
alarm. It excepts a thread that is left without one: `Unarmed`, when its
alarm was not linked or another thread deregistered it, and then it sleeps for
ever unless it is answered; and `HandlerDeadlock`. Both exceptions are needed, TLC
finds a counterexample without either.

Deadlock is checked in every run but `devices` and `services`, where the input is
bounded and all may end up waiting: elsewhere programs and interrupts can always
go on, or the process is dead by a fault.

### What the violations say

- `mt_null_switch`: minithread.c:199-202 test and dequeue are not atomic.
- `mt_freed_stack`: minithread.c:118 publishes the stack it still runs on.
- `alarm_on_time`: sortedlist.c:62 links nothing when a node of the same time
  exists; alarm.c:33 replaces the absolute time by the delay.
- `port_reuse`: minimsg.c:133 reads `nextBoundPort` before the semaphore.
- `lost_datagram`: minimsg.c:286 dequeues with interrupts enabled. The handler
  appends (minithread.c:337) between queue.c:124, which takes the last node out,
  and the end of `size--`: the datagram is linked behind the removed node, its
  count stays, and the next receiver that passes its P reads at NULL.

Two more are known and have no run: `LevelRestored` fails when a program yields
with nobody ready (minithread.c:233-236 return with interrupts disabled, against
interrupts.h:30-36), and `ContextSaved` fails in `minithread_exit:131-134`.

## 4. Proofs

Each theorem holds for all values of the constants that the named assumption of
its module admits. An invariant is proved through an inductive one, which has a
lemma per action; what the inductive one adds is said here, because it is the
reason why the code keeps the invariant. Each was checked by TLC before it was
proved.

`MinithreadProofs`: any sets of threads and semaphores, any number of levels, any
quanta.

- `TypeCorrect`, `SemaphoreCounts` (`CountMatchesQueue`), from `IInv`: the running
  thread is a thread as long as the process lives (it is what P appends to the
  wait queue), and an exiting thread past its dequeue has chosen a successor;
  the count of a semaphore is needed for types, since V dequeues a waiter that
  must exist.
- `ThreadsKept` (`NoThreadLost`), `IdleIsInterruptible` (`IdleTakesInterrupts`) and
  `SelfIsKnown` (`SelfIsCaller`), from `SchedInv`, which counts the references to
  each thread: the places of the ready queue, of the wait queues, what a thread
  holds between its dequeue and its switch, and the CPU. There is one to a
  thread that must run again and none to one that ended (`Tracked`), and
  `runningThread` is who has the CPU, or whom an exiting thread is about to
  switch to (`Known`). `NoThreadLost` alone is not inductive: a step takes a thread from
  one place and the next one puts it elsewhere, so the sum has to be kept.
- `PaidBeforeReturn` (`NoReturnBeforeV`), by the same counting of the waiters of a
  semaphore: one that spins is put back on the ready queue by ticks, but stays
  in the wait queue until its V.
- `SemaphoresImplemented` (`ImplementsSemaphores`): the initial states of
  `Minithread` are initial states of `Semaphore` under the mapping of section 2, and
  every step is one of `PassP`, `WaitP`, `V`, `ReturnP` or a stutter. The steps that
  matter are the P that finds a count, the P that appends, the V that dequeues
  the head and the return from the spin; for all others the lemma shows that
  nothing the mapping reads changes.

`AlarmProofs`: any clients, memory and delays.

- `ListStaysWellFormed` (`ListWellFormed`), `LengthCovers` (`LengthCoversList`) and
  `PendingAtMostOnce` (`PendingOnce`), from one inductive invariant: what the list
  says of itself, what its clients say of it (each linked node is the handle of a
  client that waits), and that free memory has no next. TLAPS has no induction
  along a linked list. Its place is taken by two facts about the least closed
  set: `ReachedIs`, a set that is closed under next and in which each node but the
  first has an earlier predecessor is what is reached from the first (a
  counterexample of least time would have a predecessor that is none); and
  `LaterReached`, of two nodes of a list the later is reached from the earlier,
  so that the due nodes of a tick are a prefix and the new head is unique.

`MiniportProofs`: any finite set of threads, any structures, ports and hosts, no
host being a structure.

- `TableIsExact` (`TableShowsPorts`): needs what each thread knows of the port it
  works on: a thread in the middle of a destroy is the only one that has it, and
  a creator's number is in nobody else's hands (`DestroysAlone`, `UsesExisting`),
  which is the discipline that minimsg.h asks of programs.
- `DatagramsCounted` (`AvailableCountsData`): while the program runs, `size` is the
  semaphore's count and the receivers inside `queue_dequeue` that have not stored
  it, and a queue that `front` leads to holds a datagram for each count and each
  receiver past its P, so that no receiver sleeps beside one. It does not say
  that a datagram is never lost, which `lost_datagram` refutes; it says that the
  loss of one leaves the queue empty, and that the count and `size` never
  disagree because of it.
- `SemaphoresBalance` (`MutexesBalance`): count and threads inside make one.

`TerminalProofs`: any devices and threads and any number of interrupts; NULL is no
device, thread or handler, and the keyboard is a device.

- `TypeCorrect`, `InterruptsHandledOnce` (`EachInterruptOnce`): one device is past
  the lock (`MutexHeldByOne`), a queued signal has a waiting sender who reads
  `signal_handled` as it left it and no answer is there yet (`SignalAwaited`), and
  where a device is tells how much of what it sent was handled
  (`DoneMatchesPlace`).
- `LinesInOrder` (`LinesReadInOrder`).
- `LinesAnnounced` (`LineForEachReader`): the waiters of `new_data` are blocked, each
  there once, and the frames that owe a V are of lines that were handled
  (`LInv`); with it the V of a frame moves one from the frames to the count or to
  the readers, and the sum with the lines stays.

`MiniSocketProofs`: any finite set of threads, any ports, any packets that arrive
and any number of calls.

- `MutexCounts` (`MutexCountsAcks`), `PacketsAnnounced` (`NoPacketStranded`)
- `EveryPortTried` (`PortsAllTried`)

The first two compare fields of a socket with numbers of threads. `IInv` adds what
makes each step local to one socket: a thread is busy only with a socket that
was created, a listening socket has one server (`StatusKnown`, `OneServer`), and
for a listening socket the packets are counted exactly, or its server might
dequeue from an empty queue (`Exact`). `CountMoves` says what a thread that
moves does to such a number; `StepAt` argues once about all steps of a thread at
its socket, and the lemma of each action only gives the fields and places it
changes. For the third, `StaleFirst` is the invariant: the port the variable
stands for is used, or every client under way has read the variable as it is;
`CountingReaches` is the arithmetic of the remainder.

`MiniFileProofs`: any finite set of threads, any names, inodes, blocks, sizes and
lengths for which the used disk fits, any number of calls and crashes.

- `NoBlockHasTwoOwners` (`BlocksDisjoint`)
- `FilesInUseAreCounted` (`RefsCoverUses`)
- `DiskIsAlwaysSound` (`DiskAlwaysSound`)
- `ReadersHaveTheirBlock` (`ReaderHasItsBlock`)

The first three come from one invariant, `IInv`, because none can be kept without the
others: `free_inode` puts blocks back into the bitmap, which is right only if
nobody uses the inode, which is what the references say, and these are right
only if each inode is listed where its parent says. Its parts:

- `TreeInv`, the tree in memory: an inode in use has a directory for its parent,
  which is the only one that may list it, once; lengths are multiples of an
  entry; references cover handles and the entry (`RefsOK`).
- The tree is not a tree in the middle of a removal: the entries behind the
  removed one move up one by one, so one of them is there twice or the removed
  one still is. `Removing` and `Hole` say where the call is, `InHole` excuses just
  that pair of slots, and `Owed` keeps the reference of an inode that is not
  listed any more on the account of the call that unlists it.
- `MakesOne` and `FreesOne`: between `allocate_inode` and its entry, and from the
  last reference to the free inode, the inode is in use and known to nobody
  (`Unknown`, `Untrodden`); `Apart` says that no two threads have the same one,
  and that the directories of two calls differ.
- `Written`, while nothing was removed: an inode on the disk is in use exactly if it
  is in memory and not still to be written (`Making`), with the same parent, type and
  length and with blocks that memory knows. With it the disk is rooted whenever
  memory is, since a new entry is counted on the disk last.
- `ImageInv`, while the file system boots: the disk is one that memory can be
  read from. `UsedImage` and `NewImage` show it of the disks a behaviour starts
  from, `CrashStep` of the one a crash leaves.

There is a lemma per action; `MoveKeeps`, `OthersKeep`, `HandsKeep` and `TreeKept`
argue once about what the steps have in common (a thread that only moves, the
other threads, an inode that enters or leaves use, a table whose nodes stay).

The fourth needs `KInv` beside it (`WaitersAreServed`). A thread waits for a block
of an inode of its own call (`AtBlock`), and a block has one owner, so no two
threads wait for the same block (`WaitApart`); a semaphore that counts one is
therefore the answer its only waiter was given (`Counts`, `GotIt`), and a call that
frees or allocates blocks takes none from under a waiter (`HeldKept`). That the
block is one of the inode needs `LengthsInv`: no read or write, and no position of
a handle, leaves the direct blocks, which `minifile_read` gets from the length of
the file and `minifile_write` from its guard. `Effect` is what all steps of a thread
have in common; one lemma per action shows it, and `EffectKeeps` argues once.
`StorageProofs`, of the disk: any size, any number of requests and any largest value
of the semaphore.

- `TypeCorrect`, `RequestsCounted` (`NoRequestStranded`)
- `CrashIsRemembered` (`CrashedUntilReset`), `ReadsLatest`
  (`ReadReturnsLatestWrite`)

The last two speak of the whole history of answers; `DiskIInv` ties it to the state: the
disk is up only if each crash was followed by a reset (`CrashRemembered`), and a
block holds what the last answered write to it stored (`ContentIsLast`).
`AnswerStep` says what all turns of the disk thread that give an answer have in
common, so that the history is argued about once and not per branch of
`disk_poll`.

`StorageProofs`, of the file system, under the same assumptions:

- `FaultsAreExplained` (`FaultIsExplained`)
- `TreeStaysRooted` (`TreeIsRooted`)

The first needs `FilesInv` beside `IInv` and `KInv` (`FilesAreWhole`): what an inode claims and
what the calls under way rely on. An inode in use that nobody frees is `Whole`, in
memory and on the disk: its direct blocks are filled from the front (`Packed`), as
far as its length fills them (`Reaches`), and as many as its size says (`Sized`)
unless `allocate_block` found none. Not more: a write that starts inside a block
and ends behind it leaves a length its blocks do not hold (`PutBlock`), and that is
exactly what `ClaimsTooMuch` says of the file whose next read leaves the bitmap.
A write goes on from the last block there is, and `end - cur * BLOCK - left` stays
below a block (`Moves`); a read ends within the length; no cursor is behind the
end of its file (`Cursor`); and `free_inode` finds what it still has to give back
(`Frees`). `Outcome` is what the steps of a thread have in common, and
`OutcomeKeeps` argues once about the other threads: a step takes no block and no
length from an inode unless the call owns its directory or nobody knows the inode
(`KeepsData`).

The second needs `FormInv` besides (`TreeIsKept`):

- `TypesInv`, what an inode, the bitmap and the disk may hold, and `SizesInv`, without
  which it would not be inductive: `allocate_block` lets `size` grow also when it
  returns -1, so a file may count one block more than it has (`Counted`), or two
  while its write is about to leave the bitmap (`Overdrawn`), and never more. That is
  why a size stays at most `TABLE_SIZE + 1`.
- `RootsInv`: each set of inodes in use that has the parent of each of its members
  has the root in it (`Grounded`). Said of sets it needs no recursion and no count of
  steps: a new inode has a parent that was there, and what is freed is no
  directory. `minifile_pwd` follows a function of recursive definition, which has a
  value (`WayExists`); on a way of `NumInodes` steps two places are the same inode
  (`WayMeets`), and what lies between them is closed under parents (`WayEnds`).
- `NamesInv`: two entries of a directory have different names but for the pair at
  the hole of a removal, as with `InHole` above. What makes a new name new is what
  its call knows (`Knows`, `IsNew`): in the loop, that the entries before `i` have
  other names; from there until `inode_write` has counted the entry, that all have;
  and a removal that has an entry in its hands has the one at its place.
  `NamesAround` argues once about other threads and other directories.

Here the used disk needs two names (`MiniFileAssumption`): with one, its root would
list the same name twice.

`MiniRouteProofs`: any hosts, links, senders and any behaviour of the network.

- `OneDiscoveryAtATime` (`OneDiscovery`), inductive together with the shape of its
  variables; the proof rests on who may take a request out of the map, which is
  only its one worker.
- `DataArrivesWhereMeant` (`NoMisdelivery`). The invariant follows a route on its
  way: a packet of a discovery starts with the host that asked, a reply with the
  host that answers (`PacketsAim`), so what a request keeps starts with its
  destination (`RepliesStart`), its reverse, which is the cached route, ends in
  it (`OwnRoutesEnd`), and so does the route of each sender (`SendersEnd`).

Only model-checked: what the runs that expect a violation say, and all liveness
(`WokenThreadReturns`, `SendReturns`, `CallEnds` and the others of section 3), which
TLAPS cannot prove. Every other invariant and action property of the runs is
proved.

## 5. Not modelled, and where the models stop

Not modelled: formatting and packing of headers, UNIX sockets and name
resolution, registers and stack layout (`movq $1,interrupt_level` in
machineprimitives_x86_64_asm.S:26 writes eight bytes over a four-byte int), the
random number generator, the links inside linkedlist.c and hashmap.c and, but for
the `queue_dequeue` of `minimsg_receive`, inside queue.c,
blockcache.c (nothing inserts into it), `semaphore_destroy`, failing mallocs
outside Miniport, the applications and tests, and the files that the build does
not use.

Some behaviour of the code breaks what a reader would expect so soon that a
property over it would only repeat the line. It is listed here; what the
properties of the runs say begins where it ends.

Datagrams. minisocket.c:123-182 hands `network_send_pkt` a header of its own,
whose first byte `network_handler` takes for a routing type: in this commit no
stream packet reaches `handle_data_packet`. MiniSocket feeds packets to it as if
they had been routed. `minimsg_receive` parses the bytes behind the header as
the header (minimsg.c:288): the bound port it returns does not lead back.

Streams. `seq_number` never advances while receivers count what they accept
(minithread.c:356): a SYN brings `ack_number` to 1, and the packets after it
look like duplicates; both sides report a connection when their retries run
out, since `*error` is overwritten with NOERROR. Data is sent once. The alarm
is registered before `waiting` is set: if it goes off in between, the first
wait has no alarm, hence the antecedent of `TransmitEnds`. Of two handshakes that
wait with the same timeout only one has a linked alarm (`alarm_on_time` shows it
of the list, `Unarmed` names it here). Alarms of other clients, whose nodes a stale
id of a socket may deregister, and a tail whose next is not NULL are left to
`Alarm`. `ack_number++` of
the client is outside the mutex. `minisocket_destroy` is not called and
`minisocket_close` does nothing. `HandlerDeadlock` is reachable and is the
exception of `TransmitEnds`. In the model the part of `minisocket_receive` under
the mutex and the end of `transmit_packet` are single steps; so are the
`queue_dequeue` of minisocket.c:431 and 697-699 and the handler's append
(minithread.c:384), which can tear each other as in `Miniport`.

Routes. A lost reply leaves the initiator and all who joined asleep for ever:
the alarm's handler is commented out (miniroute.c:361), and so tries 2 and 3
cannot happen. `WaiterWoken` starts where a reply has come. A cached route is
used only when its age exceeds a second (miniroute.c:156), and the age is
`ticks * QUANTA / 3` in `int`, which never does: no cached route is ever used to spare
a discovery, and the branch of miniroute.c:200 that would give
`route_cache_semaphore` back twice is not reached. Neither branch is in the model. The
discovery interrupt does P on that semaphore (miniroute.c:386); if the
interrupted thread holds it, the machine stops, which single-step sections
cannot show. `miniroute_cache` copies twenty places into memory for eight. A
path of more than one link has places nobody wrote, so data for hosts that are
not neighbours arrives only by luck; `NoMisdelivery` says that it does not
arrive elsewhere, for routes of an own discovery (a responder's route ends in
unwritten places as well, and may lead anywhere). Two hosts never have one hash
in the model.

Files. Calls of two threads are about different directories at a time: two that
create files in one both write their entry at the old `bytesWritten`
(minifile.c:298), and one entry is lost. Two reads of one block share a
semaphore, so that one reader may get the other's answer before its own data is
there. Crashes are explored until something is removed: `minifile_unlink` and
`_rmdir` write the shorter `bytesWritten` only with a later change, and a crash
before that leaves an entry to a freed inode. `minifile_rmdir` prints that a
directory is not empty and removes it all the same (minifile.c:792-802, against
minifile.h:159-162), so inodes below it stay in use with nobody listing them;
`TreeIsRooted` and `RefsCoverUses` allow that. The bitmap is queued after its
mutex was given back (minifile.c:207-211), so an older image can follow a newer
one; the model writes it in the step that changes it. Files are at most as long
as the direct blocks: `indirectblock` is 0 in the root of mkfs and
`get_indirect_block` reads a buffer before it is filled. Directories hold what
their first block holds whole; `free_block` is exact only for the bitmap's first
block; stat, ls and cd run while nobody else has a call, and a path that is not
terminated by strncpy ends in the component "garbage". One file is open per
thread. `references` goes to the disk with open handles counted in, so a file
open at a crash is never freed afterwards.

Disk. No function sends RESET; the model sends one, because disk.h offers it.
The flags a program may set and a second `disk_initialize` (which makes
`disk_mutex` anew) are left out.

Scheduler. A queue operation is one step, also in `minithread_fork`, which does
not disable interrupts (minithread.c:143), so a fork that a tick tears is not
explored. `register_alarm` keeps interrupts
disabled when its handler is NULL or its delay 0 (alarm.c:22).

## 6. Plan

1. Pointer-level `Queue` (queue.c) with a fork that a tick tears; an abstract
   disk that `Disk` implements and `MiniFile` is written over; the bounded
   buffer and the sieve as clients of `Semaphore`.
