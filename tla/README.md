# Formal models of my_code_wheels

The repository is a collection of C programs: message FIFOs and a TCP channel
between two processes (`socket_tcp_pthread/`), kernel modules and drivers
(`fast_ko/kernel_code/`), linked lists, small queues, trees and hash table
programs, and demonstrations of library functions.  This directory holds TLA+
models of the parts that keep state and make promises about it, the TLC
configurations that check them, and TLAPS proofs of what they promise.

Paths below are relative to the root of the repository; line numbers are in
`PROJECT.json`, which maps every definition that models code to its lines.

## Inventory

| Component | Source | State | Operations | What is hard | What makes it correct |
|---|---|---|---|---|---|
| lock-free message FIFO | `phy_eth_common.c` | 16-bit cursors `wr`, `rd`, a byte ring | push, get | two threads without a lock, each reading the other's cursor twice; wrapping cursors; copies split at the end of the ring | whole messages, in order, each once; a refusal only when there is no room; no byte copied by both at once |
| mutex message FIFO | `phy_eth_common.c` | ring indices, free-byte count, mutex | push, get | many threads; indices move during a call | same promise; indices and count agree between calls |
| creation of the FIFO | `phy_eth_common.c` | none | adjust a size to a power of two | bit arithmetic | usable sizes, and no refusal of a good one; the range of requests for which this is so is known |
| shared memory test | `main.c` | the FIFO in named shared memory | two processes start, push, get | kills and restarts; start of one under the other | messages received are messages sent; a kill costs none; what a start costs is known |
| channel synchronisation | `data_trans.c`, `phy_eth_client.c`, `phy_eth_server.c` | a state machine, an error count, a FIFO and a connection per peer | connect, accept, send, poll, count errors, stop | three threads in each of two processes; late messages, failed sends, connections lost and made again in the middle of a round | peers in lockstep; no message dropped; no old message taken for a new one; both run or both stop |
| TCP framing | `phy_eth_common.c` | the stream, the position of the receiver in it | send, receive head, receive payload | short reads and writes, timeouts, close | one complete message after another |
| doubly linked list | `list_nonlinuxkernel_mystyle.c` | nodes, head, tail | insert, delete by position, sort | boundary positions, stale links | forward and backward links agree |
| circular list | `list_linuxkernel_style.c` | links of the head and of packets | insert, delete by index, delete all, from a menu | the head is a neighbour like any packet; a cursor on a packet being freed | one ring, in the order of the indices; nothing freed is looked at |
| array FIFO and LIFO | `fifo.c`, `lifo.c` | indices, status flag | push, pop, sum | equal indices of a full and of an empty queue | the flag tells them apart, and what is popped is what was pushed |
| red-black tree exerciser | `rocklee_kernel_rbtree.c` | a kernel rbtree with its leftmost node, an array of nodes, a FIFO | two sysfs reads: loops of insertions, removals and checks; printing by level | globals without a lock; which nodes are in the tree when the array is freed; the numbering of the printing | no check warns, no freed node stays in the tree, every node is shown, and where |
| kernel drivers | `rocklee_kernel*.c`, `rockpi4b_ko*.c`, `802d3_br_802d11.c` | acquired resources | init/probe, exit/remove | failure at any step, goto unwinding | what is leaked is known, nothing is released twice, the result tells |
| proc entry modules | `multi_thread_with_spinlock.c`, `simple_proc_entry.c`, `gic_tst.c`, `mem_test.c` | the entry, open files, threads, memory | open, read, write and close of the proc file, insmod, rmmod | removal under open files and running calls; nothing ever stops a thread | only the threads and buffers are left behind |
| word tree | `dict_tree.c` | tree nodes with counts | update, search, erase, print | the number of a word is a difference of counts along shared prefixes | agrees with a bag of words; no node leaks |
| hash programs | `uthash.c`, `uthash_key_int.c` | two LRU caches, a table from parent to child, a table of heap entries | get and put; killProcess; add, delete, sort from a menu | the order of a table as its only memory of uses; several entries with one key; a head pointer that moves in a deletion | the keys used last are kept; every descendant once; no entry lost or used after free |

`PROJECT.json` ("components") lists all of them, also those with nothing to
model, with their status.

The parts of `socket_tcp_pthread/` interact: the receive task of a peer calls
the framing functions on the socket and pushes what it received into the
lock-free FIFO; the state machine sends on the same socket and gets from the
FIFO; `main.c` uses the FIFO alone, between two processes.  The other programs
stand alone.

## Plan

Done, in this order:

1. `MsgFifo`, `ByteRing`, `LockFreeFifo`: the core, with its proofs.
2. `LockedFifo`, against the same abstract FIFO.
3. `ShmFifo` (extends `LockFreeFifo`), against `ShmQueue` (extends `MsgFifo`); `FifoSizing`.
4. `SyncChannel`, which takes the FIFO to be what `MsgFifo` says, and
   `TcpFraming`, which looks inside the messages `SyncChannel` sends.
5. `KernelDrivers`, `DriverLifecycle`: loading, failing and unloading six kernel
   modules.
6. `ListSeq`, `LinkedList`: the doubly linked list, refined to a sequence.
7. `CircularList`, `ArrayQueues`, `WordTree`: the small sequential programs,
   joined with the doubly linked list in `DataStructures`, and checked in one run
   with the sizing (`MCSequential`).
8. `RbExerciser`, over the FIFO it shares with `fifo.c` (`StatusFifo`), checked
   in one run with the drivers (`MCKernelModules`).
9. `SyncChannel` with connections lost and made again, and a process that is
   killed by its send.
10. `HashTable`, `Lru`, `LruCache`, `HashMenu`, `KillProcess` (in `MCSequential`)
    and `ProcModules` (in `MCKernelModules`).

11. Proofs about the FIFOs and the shared memory (`ByteRingProofs`,
    `LockFreeFifoProofs`, `LockedFifoProofs`), the channel (`SyncChannelProofs`)
    and the framing (`TcpFramingProofs`).
12. Proofs about the kernel modules (`KernelModulesProofs`) and the sequential
    programs (`DataStructuresProofs`, `SequentialProofs`).

The only safety properties that hold and are not proved are those of the
red-black tree exerciser (see "Model-checked only").

## Modules

### MsgFifo

The promise of both FIFOs: `Push` appends a message and takes its bytes,
`PushFull` refuses one exactly when its head and payload do not fit, `Get`
returns the oldest one, `GetEmpty` refuses exactly when there is none.

### ByteRing

What both implementations share.  A byte is abstracted to the message it
belongs to and its place in it, `<<m, k>>`; a zero byte is `NoByte`.  The four
branches for the head and the four for the payload differ in where byte `k` of
a copy goes (`CopySlot`) and where the next copy starts (`AfterCopy`).  The
length a get reads (`LengthsIn`) is what the bytes of the head say, so that a
torn head gives a wrong length in the model as it would in the code.

### LockFreeFifo

`push_msg_fifo_without_lock` is `PushCheck` (or `PushFull`), `PushIndex`,
`PushHead`, `PushPayload`, `PushPublish`; `get_msg_fifo_without_lock` is
`GetCheck` (or `GetEmpty`), `GetIndex`, `GetHead`, `GetPayload`, `GetPublish`.
Each step makes at most one access to a shared cursor, and the copies are
steps of their own, so that every order in which the two threads' accesses can
fall is a behaviour.  A copy is not cut further: `NoByteRace` says that the two
sides never work on the same byte, so how the bytes of two copies interleave
makes no difference.  `queue` is a history variable: which messages are
published and where they start.

The `Makefile` builds without optimisation and the checked-in objects are for
x86-64, where stores become visible in program order; a load that returns an
old cursor is a load made earlier.  On a machine that reorders stores the
publication of `wr` and `rd` would need a barrier, which the code does not have
and the model does not cover.

### LockedFifo

`push_msg_fifo` and `get_msg_fifo` with any number of threads.  In the split
branch the code moves the shared index during the copy, so the state inside a
call is inconsistent on purpose; `IndicesMatchDepth` speaks of the times when
nobody holds the mutex.  `LockEndsWithCall` says that every way out of a call,
also the early ones, gives the mutex back.  The messages of the abstract FIFO are ordered by the
unlock.  POSIX mutexes promise no fairness, so no liveness is claimed.

### ShmQueue, ShmFifo

`ShmQueue` is what the two processes of `main.c` make of the abstract FIFO when
they are killed and started again: `Kill` touches nothing, `Start` of either
process empties the queue, and between two starts `MsgFifo` holds.  `lost` has
what the last start cost, so that the loss is a part of the promise and not
hidden in it.

`ShmFifo` is the two processes on one `LockFreeFifo`.  A start clears the memory
(`Clear`; clearing and setting the size are one step), with everything published
in it that nobody has got; a kill loses the locals of a process and leaves the
memory.  A receiver that was killed in the middle of a get does not get that
message again: it must be started first, and its start clears the memory.
`ShmSpec` lets a process start at any time; `QuietSpec` lets it start only
between the calls of the other one, and then `ShmQueue` is implemented.

### FifoSizing

`get_first_bit_1` and `get_adjusted_size_2n` as functions, and the answers of
`create_msg_fifo_without_lock` to every request.  The scan for the highest bit
starts four bits below the top of the word.  Three ranges of requests follow, in a
word of 32 bits:

- below 1024 the answer is 16 times the highest power of two in the request, so
  between 8 and 16 times what was asked for (and one byte when that was 0);
- from 1024 up to 2^28 that is more than `MSG_FIFO_MAX`, and refused, although a
  ring of 1024 bytes would do (`main.c` runs one, made by hand);
- from 2^28 on the scan may find no bit, or only a lower one.  Most of these are
  refused too, but some get a FIFO that is too small: 2^28 itself gets 2 bytes.  A
  `size_t` above 2^32 is cut first, and gets what its low bits ask for.

A shift by the whole width of the word is undefined; the model takes one or zero.
`SizeIsUsable` says what holds: FIFOs are large enough up to the second limit and
never beyond, and a sixteenth of `MSG_FIFO_MAX` is not refused.

### SyncChannel

Two processes, and in each the three threads that share `socket_dev`.

- The state machine: one action is one turn of the loop in `sync_fsm_translation`
  (`Setup`, `Send`, `SendFails`, `SendKills`, `RecvFails`, `Recv`, `Tasking`).
- The receive task: `RecvTask`, `RecvError` and `RecvEnd` are what
  `recv_single_message` may come back with, `PushHand` the push.
- The entry threads: `NewSocket`, `Connect`, `ConnectFails` and `ClientLost` are
  `client_entry`, which looks at the state of its connection and makes a new one
  when it is no longer established; `Accept` is `server_entry`, which changes to
  each new connection and never says that one is lost.

A push or get is one step, which is what the refinement of `LockFreeFifo` allows.
The parameter `FifoSize` is the size of the FIFO; `MCSyncChannelAsBuilt.cfg` gives
it the zero that `socket_init` produces.

The network is external: either end of a connection may break at any time
(`Break`), with any part of what was on its way to it lost; the other end may
learn of it by a close behind the data (`Finish`), or never.  After that the
socket calls do what Linux does: data that has arrived is still read, one call
reports the error, then receives return 0 and a send raises SIGPIPE, which the
program does not handle: `SendKills` ends the process, so its connections are
closed and its FIFO is gone.  A receive of 0 bytes is not negative, so
`recv_single_message` takes it for a message; its head is the cleared one, of
length 0 and type START (`Phantom`).  This repeats until the FIFO is full, or the
connection is replaced.

What survives this, and what does not:

- With no end of a stream taken for a message, the peers stay in lockstep and
  nothing is dropped, over any lost and new connections (`Lockstep`,
  `NothingDropped`): a message that is lost is waited for until a limit is
  reached, and then both end in STOP.
- A message sent on an earlier connection is never taken for a later exchange,
  phantoms or not (`TakesCurrentOnly`).  Messages carry, as history, the exchange
  they were sent for.
- Phantoms do break the lockstep: one in front of a START_RX lets a peer pass by
  itself.  It then waits in HIGH_RX, where phantoms only count as errors.
  `Lockstep` and `NothingDropped` therefore say nothing from the first phantom on.
- In the end both peers go on or neither does (`RunTogetherOrStop`), phantoms or
  not, where to end is STOP, a killed process, or a client or server back in SETUP
  that was never connected.

### TcpFraming

One direction of a connection, byte by byte, through buffers of bounded size.
`Late` lets a timeout fall anywhere, `Closes` lets the sender close.  The head
is abstracted to two bytes, one for its type and one for its length.

### KernelDrivers, DriverLifecycle

`KernelDrivers` has the drivers as tables: the acquiring calls in order, each
with the releases behind the label the code goes to when it fails, and the
releases of exit or remove.  The cdev is two resources: the memory of `cdev_alloc`
and, from `cdev_init` on, the reference to the kobject in it.  `cdev_del` drops the
reference.  As `cdev_init` has given the kobject the type of a cdev that is part of
something else, this does not free the memory, and nothing else does.  Three
modules share one table and the two network drivers another, as their code is the
same but for names.  `dev_count` is 1, as in all of them, and there are two sysfs
attributes.

`DriverLifecycle` runs a table: `Load`, `RegisterDriver`, `RegisterDevice`, then
`Acquire`, `Fail` or `FailUnseen` for each call, `Release` for each release of a
cleanup or an unload, `CleanedUp` when init or probe returns.  A failed probe
leaves a platform module loaded, as registering a device does not report it.
What is left behind is stated exactly (`Lost`, `LeftBehind`), so that the faults
are named and nothing else may leak:

- every load that got as far as `cdev_alloc` leaves the cdev behind, whether it
  failed or was unloaded;
- a failed `cdev_add` goes to the label behind the release of the region;
- a failed `kmalloc` returns at once, with the cdev live and the region taken;
- a failed `alloc_netdev` leaves `ret` at zero: everything is released, the probe
  counts as a success, and the remove releases everything a second time;
- a platform module whose device cannot be registered leaves its driver
  registered.

### ListSeq, LinkedList

The list is a record of `head`, `tail`, `num` and the links of all nodes, and
each function of `list_nonlinuxkernel_mystyle.c` an operator on it with the same
name.  The three copies of each deletion differ in whether the node is freed:
the menu's actions free it (`Drop`), `TakeNode`, `TakeHead` and `TakeTail` leave
it to a caller, who may free it or put it back.  An insertion into an empty list
does not reset the links of the node, so a kept node may only be put back into a
list that is not empty; `AnyPutBackSpec` is the specification without that
restriction, and `ChainsAgree` does not hold of it.  `ListSort` counts in a
variable it never sets: `Sort` is what happens when that is zero, `SortAstray`
ends the program when it is not.  `CreateList` lacks its return statement; the
model takes the value that is still in the return register without optimisation,
the new list.

`ListSeq` is what the functions promise about the sequence of keys, with the
call as part of the state, so that a call cannot do what another one is for.

### StatusFifo, ArrayQueues

`StatusFifo` has the functions of the FIFO of `fifo.c`, of which
`rocklee_kernel_rbtree.c` has a copy, as operators on a record.  `ArrayQueues` runs
them and those of `lifo.c` for a caller that initialises and then calls in any
order; the `main` functions of the two files only return, so no order is given by
the code.  `inFifo` and `inLifo` are history variables: what was pushed and not
popped.  Three faults are stated exactly:

- `FifoInit` clears the status to a value that is none of the three, so a pop of
  the fresh FIFO is not refused.  From then on the FIFO holds one element less than
  its array has, all of them zeros nobody pushed, in front of what is pushed
  (`Phantoms`, `FifoHoldsPushed`);
- `GetSum` of the FIFO is zero when it is full, and does not end when the write
  index has wrapped to zero and the read index has not (`FifoSumsHeld`);
- the LIFO is never `EMPTY`, because the index after a pop is compared with the
  wrong end: a pop of nothing reads below the array (`astray`), and
  `LifoHoldsPushed` speaks of what happens before that.

### WordTree

`update`, `search`, `erase` and `printall` of `dict_tree.c` on a tree that is a
function from prefixes to counts.  `entered` is a history variable, the bag of
words.  `main` searches before it erases, and so does the model.

The number of an order is any int, as `main` reads it.  With zero `update` makes
nodes that count nothing, with less the counts go below zero, and `erase` enters
what it should take off: so what the tree says is what was entered as long as no
order had such a number (`odd`).

An erasure that empties no node gives `free` a pointer that was never set (a word
entered twice and erased once is enough): the model then goes on or stops
(`crashed`), and the properties are about the programs that go on.

### CircularList

The menu of `list_linuxkernel_style.c`, link by link.  The deletion of all packets
is one step per packet, with the two cursors of `list_for_each_entry_safe`.

### RbExerciser

The two sysfs reads of `rocklee_kernel_rbtree.c`, each a list of loops over the
nodes (`Script`); a turn of a loop is a step.  `perf_loops` and `check_loops` are
any number.  Insertion is the code's walk to a place (`LinkPlace`).  The balancing
belongs to the kernel and is external: the nodes stay in order, in any shape
that has a red-black colouring (`Balanced`).  `check` is the two of its warnings
that its caller is responsible for, the order and the number of nodes; the others
are about colours.

The printing walks the tree through the FIFO, and computes the level and place of
a node from how many entries it has popped.  Missing children are counted, as
NULL entries, but what would be below them is not: a node of the fourth level
behind such a gap is printed at a place too far to the left, or a level too high.
That each node is in its place of a full binary tree, as the comments say, is
`ShownInPlace`, and refuted; that each is shown once, in a cell of its own, and in
its place if there is no gap before it, is `ShownOnce`.  A cell is taken to hold one
node: the text of one longer than the width of a cell, which runs into the next, is
layout.  The buffer the printing writes is not cleared between two reads; as the
seed of the keys is fixed, each read writes what the one before wrote.

### HashTable, Lru, LruCache

`HashTable` is what the programs use of uthash, which is a library and external: a
table is the sequence of its entries in the order of iteration, `HASH_ADD` appends,
`HASH_FIND` gives any entry with the key, `HASH_SORT` is stable.

`LruCache` has the two caches of `uthash.c`.  One gives an entry a new number at
every use and sorts the table; the other deletes the entry and adds it again.  `Lru`
is what both promise, without ever throwing anything out: all keys in the order of
their last use, of which the cache is the first `capacity`.  The last call is a
variable of both, with its key and what it answered, so that a cache cannot miss a
key it should have and pass this off as the miss of another one.  The history of
uses and of the values put is mapped to the state of `Lru`.  `CountInStep` is the
other thing both caches rest on: the count they compare with their capacity is
that of the entries in the table.

### HashMenu

The menu of `uthash_key_int.c`, with a heap.  Keys may be entered more than once,
and a lookup gives any of the entries.  `HASH_DEL` moves the head pointer, so the
entry to free must be kept aside (`DelHead`); the deletion of the head of an empty
table uses a null pointer (`DelHeadOfNone`).

### KillProcess

`killProcess` of `uthash.c` on every tree of processes, one step per turn of its
loop: `PushChild` takes an entry of the table to the stack, `NextProcess` goes on
with the top of the stack.

### ProcModules

The four modules with a proc entry.  A user enters `open`, `show` (a read) or
`write`, and returns; `Rmmod` removes the entry while users are anywhere, and
`Removed` waits for calls in progress and releases open files, as
`remove_proc_entry` does.  A read of `multi_thread_with_spinlock.c` may start a
thread, which asks whether it should stop; nobody ever tells it, so it also wakes
up after the module is gone (`astray`).  The module is not loaded again after that.

### DataStructures, MCSequential, MCKernelModules

The programs that stand alone share two runs: the initial state chooses a program,
and only its variables move.  `DataStructures` declares those of them that are lists,
queues and trees, with the names of their properties, and `MCSequential` extends it.

### ByteRingProofs, LockFreeFifoProofs, LockedFifoProofs, SyncChannelProofs, TcpFramingProofs, KernelModulesProofs, DataStructuresProofs, SequentialProofs

The proofs, see below.  Each extends the module it is about: `LockFreeFifoProofs`
the shared memory (`ShmFifo`), which extends the lock-free FIFO;
`KernelModulesProofs` and `SequentialProofs` the modules that join the programs for
TLC.  `SequentialProofs` also extends `DataStructuresProofs`, whose lemmas about sets
and sequences it needs, as well as the invariants of the data structures.

## Runs

| Run | Module, configuration | Shows | Result |
|---|---|---|---|
| `lock_free_fifo` | `MCLockFreeFifo` | all safety properties, refinement of `MsgFifo`, and liveness under weak fairness of both threads | holds |
| `locked_fifo` | `MCLockedFifo` | two producers, two consumers: every call gives the mutex back; safety and refinement of `MsgFifo` | holds |
| `shm_fifo_quiet` | `MCShmFifo`, `Quiet` | when starts are quiet, `ShmQueue` is implemented: a kill costs nothing that was published, a start costs all that is unread, and between starts messages are whole, in order and once; every head received is one the sender wrote | holds |
| `shm_fifo_start` | `MCShmFifo`, `Start` | a start under a call of the other process delivers a message never sent | violated |
| `sync_channel` | `MCSyncChannel` | lockstep and nothing dropped, over lost connections, until an end of a stream is taken for a message; no old message taken, and both run for ever or both end, also after that | holds |
| `sync_channel_as_built` | `MCSyncChannel`, `AsBuilt` | with the FIFO as it is created, the first message is dropped | violated |
| `tcp_framing` | `MCTcpFraming` | complete messages until a call ends inside one; everything arrives until then | holds |
| `tcp_framing_late` | `MCTcpFraming`, `Late` | a timeout inside a message is taken for a message | violated |
| `sequential` | `MCSequential` | any sequence of calls of the lists, the queues, the word tree, the caches and the hash table menu, sizes of a FIFO over the whole width of a word, and every tree of processes: chains, ends, counts and heap agree, refinement of `ListSeq` and `Lru`, queues and dictionary hold what they should, with the exceptions named | holds |
| `kernel_modules` | `MCKernelModules` | one reader of the tree exerciser: no warning, no stale leftmost node, no freed node in the tree, every node shown once; six modules, a failure at any call: what is held is what was reported, nothing is released twice, nothing outlives its parent, with the named exceptions; four proc modules removed at any moment leave only threads and buffers | holds |
| `rb_two_readers` | `MCRbExerciser`, `TwoReaders` | two sysfs reads at a time make the exerciser's own check warn | violated |
| `rb_shown_in_place` | `MCRbExerciser`, `Shown` | a node behind a gap of the tree is not printed in its place | violated |

Deadlock is checked where the system must not stop (both FIFOs, `ShmFifo`).
`SyncChannel` stops when both peers are in STOP or killed, `TcpFraming` when its bound on
messages is reached, a driver when it left more than its cdev
behind, the lists and the hash table menu when main returns, a cache when it is freed,
killProcess when it returns, the word tree after an undefined
`free`, and the tree exerciser when a node was used that is not there (`corrupt`).

The type invariants are conjuncts of properties the runs check: of
`LockEndsWithCall` in `LockedFifo`, `HeapAccountedFor` in `LinkedList`,
`TreeOfLiveNodes` in `RbExerciser`, and in the two shared runs of the property
that belongs to the module (the caches' is in `EntriesInUse`).  Those of
`SyncChannel` and `TcpFraming` are not properties of a run; they are proved.

Some properties join several of a module under one name: `RingHoldsPackets`
(`RingAgrees`, `NoPacketAfterFree`), `EntriesInUse` (that of the menu and
`CountInStep` of the caches), `QueuesHoldPushed` (`FifoHoldsPushed`,
`FifoSumsHeld`, `LifoHoldsPushed`), `WordsAreCounted` (`SearchIsExact`,
`PrintedInOrder`).

### Bounds, and why they are enough

- Lock-free FIFO: 8 bytes under cursors of 16 values, heads of 2 bytes, payloads
  of 0 and 3.  Messages of 2 and 5 bytes reach every ring index, so heads and
  payloads end before, at and past the end of the ring, and cursors wrap with a
  message across the wrap.  The proofs cover all other sizes.
- Mutex FIFO: 7 bytes (no power of two), payloads of 0, 1 and 3, two
  interchangeable threads on each side (symmetry over both sets; only safety is
  checked there).
- Shared memory: as the lock-free FIFO, payloads of 1 and 3.
- Sizing: TLC's numbers have 32 bits with a sign, so the word has 20 (`WordBits`)
  where the code has 32, and the first bit that is not scanned is 2^16 where it is
  2^28.  The requests are those around every power of two, past that bit, past the
  word, and with several high bits.  Below that bit the answers are those of the
  code, as both are 16 times the highest power of two.  The theorem covers words of
  20 to 32 bits.
- Channel: two connections, so that one is lost at any point and another takes its
  place; the last one does not break, so that there is always a next one.  An
  error limit of 1 for 5000 (`ERROR_MAX_CNT`; only whether it is reached matters,
  and it is reached by every kind of error), the task count modulo 2.  Messages
  are heads of 4 bytes in a FIFO of 8, a FIFO of two messages: that is what can be
  outstanding in lockstep, so `NothingDropped` has no slack, and phantoms fill it.
  A real payload of up to 95 bytes in a FIFO of 256 leaves room for two as well.
- Framing: messages of 2 and 4 bytes through 3 bytes of buffer, so that a message
  can be cut anywhere; two messages, as the second shows what the first left
  behind.

- Drivers: every call of every driver; a module that left more than its cdev behind
  is not loaded again, and the next load forgets the cdev of the last one.
- Linked list: three nodes, so that there is a first, an inner and a last one,
  and two keys, so that two nodes have the same (symmetry over the nodes).
- Circular list: three packets, five indices; a freed packet comes back with a
  later index.
- Array queues: three elements, so that both indices wrap at every distance.
- Word tree: words of up to three of two letters, at most two of them, so that one
  is the beginning of the other, or both go different ways from a common
  beginning, or are the same; one order with a number below one, at any point, and
  down to minus one.
- Caches: four keys and up to three places, so that a cache of any of three sizes
  is too small; six uses.  The numbers of the first cache would wrap after 2^32
  uses, which the bound excludes.
- Hash table menu: three heap entries and two keys, so that two have the same.
- killProcess: every tree of four processes and every process to kill.
- Proc modules: two users, two threads, two buffers.
- Tree exerciser: six nodes are the fewest with which a red-black tree has a node
  of the fourth level behind a gap; two keys, so that there are equal ones.  With
  two readers, two arrays of two nodes are enough for the check to warn.

### Fairness

Weak fairness of each thread, and of the delivery of bytes in `TcpFraming`.  The
threads call in endless loops and the operating system schedules them; TCP
delivers what it has accepted.  In `SyncChannel` nothing is assumed of the
network: no connection must break, and a broken one may never be noticed.  Nothing is assumed of relative speeds: a peer may poll until its
error limit before a message arrives.  Senders are not assumed to send.

### What the violated runs show

- `sync_channel_as_built`: `socket_init` creates the mutex FIFO and uses it as
  the lock-free one.  The constructor zeroes eight bytes, `wr` and `rd` of the
  mutex FIFO, which are `wr`, `rd` and `size` of the other: a ring of size zero.
- `tcp_framing_late`: `recv_single_message` takes any non-negative result for a
  complete read.  The end of the stream has the same effect: a zero-byte read
  is a zeroed head, which is a message of type `SYNC_MSG_START`.
- `shm_fifo_start`: each process clears the memory both use.
- `rb_two_readers`: the array of nodes, the tree and the FIFO of the printing are
  globals without a lock, and a second reader inserts its nodes into the tree the
  first one is counting.
- `rb_shown_in_place`: an entry for a missing child keeps its own place and none
  for the children it would have, so all numbers behind it are too small.  Six nodes
  in order of their keys are enough: the last one is at place 15 of the tree and
  printed at place 11.

## Proofs

| Theorem module | Theorem | States |
|---|---|---|
| `LockFreeFifoProofs` | `Invariant`, `TypeCorrect`, `CursorsAlwaysSafe`, `CopiesAlwaysInBounds`, `NeverByteRace`, `UnreadAlwaysIntact` | the safety properties of `lock_free_fifo` |
| | `Refinement` | `Spec => ImplementsMsgFifo` |
| | `QuietInvariant`, `HeadsAlwaysMagic` | the safety property of `shm_fifo_quiet` |
| | `RestartsImplementShmQueue` | `QuietSpec => ImplementsShmQueue` |
| | `CrashesKeepCopiesApart` | no copy out of bounds or over another one, across kills and restarts |
| `LockedFifoProofs` | `Invariant`, `TypeCorrect`, `LockAlwaysEnds`, `IndicesAlwaysMatch`, `CopiesAlwaysInBounds` | the safety properties of `locked_fifo` |
| | `Refinement` | `Spec => ImplementsMsgFifo` |
| `SyncChannelProofs` | `Invariant`, `TypeCorrect`, `LockstepAlways`, `CurrentOnly`, `RoomForTwo` | the safety properties of `sync_channel` |
| `TcpFramingProofs` | `Invariant`, `TypeCorrect`, `AlwaysCompleteUntilTorn` | the safety property of `tcp_framing` |
| `DataStructuresProofs` | `ListChainsAgree`, `ListHeapAccountedFor` | the invariants of the doubly linked list, for every heap |
| | `ListImplementsListSeq` | `Spec => ImplementsListSeq` |
| `SequentialProofs` | `CachesImplementLru` | `SequentialSpec => ImplementsLru` |
| | `MenuEntriesInUse`, `QueuesAlwaysHoldPushed`, `RingAlwaysHoldsPackets`, `AlwaysKillsDescendants`, `SizeAlwaysUsable`, `NodesAlwaysUseful`, `WordsAlwaysCounted` | the other properties of `sequential`, with the types of each program |
| `KernelModulesProofs` | `AlwaysHeldAsReported`, `AlwaysReleasesOnlyHeld`, `NothingEverOutlivesParent` | the properties of the drivers in `kernel_modules` |
| | `AlwaysLeavesOnlyThreadsAndBuffers` | the property of the proc modules, for any number of users |

The inductive invariants of the FIFOs, the channel and the proc modules are
stated beside the properties, in the modules of the components; those of the
other programs are in the theorem modules, where they may speak of a sequence or a
history by a quantifier that TLC cannot enumerate.

Induction is over sets: `SetInduction` of `DataStructuresProofs` says that a set with
0 in it, and `n + 1` with every `n`, has all numbers.  What a recursive function of
the models or of the library computes is shown by such an induction about any
function that satisfies its defining equation, which exists by the same kind of
induction (`WalkExists` and its like): a walk along links, a fold, a sort.

### What the FIFOs share

`ByteRingProofs` has the lemmas about copies: different bytes of a copy go to
different slots (`CopySlotsDistinct`), what a copy writes and what it leaves
(`WrittenBytes`), what it reads (`ReadOutBytes`, `ReadOutIs`), that a message is
its head followed by its payload and is recognised by them, and the arithmetic of
an index that goes around (`Quotient`, `RemainderUnique`).

### The lock-free FIFO

`LockFreeFifoProofs` proves that the inductive invariant `IInv` is kept.  The
safety properties are not inductive by themselves: that a copy stays off the
unread bytes depends on where those bytes are, and that depends on the
bookkeeping of all messages.  `IInv` adds it:

- `Layout`: messages lie one after the other from `rd` to `wr`, measured as
  offsets from `rd`, and the push in progress still fits behind them;
- `Contents`: each of them is in the buffer, byte by byte;
- `PushInProgress`, `GetInProgress`: what either side has copied, where its local
  index is, and that a straight copy fits before the end of the ring.

The argument: offsets below `Size` that differ have slots that differ
(`SlotsDiffer`), because a cursor modulo `Size` moves around the ring also where
the cursor itself wraps (`IndexAdvance`), as `Size` divides `W`.  So the bytes of
a push, at offsets past the unread ones and below `Size`, are elsewhere
(`PushAvoidsUsed`).  The second reads of the other side's cursor are harmless
since `rd` only moves away from the producer and `wr` from the consumer: a
straight branch chosen with the fresh value still fits (`PushIndexKeeps`,
`GetIndexKeeps`).

Assumptions: `LenAssumption` (a message has a head and fits in an empty ring) and
`SizeAssumption` (`Size` divides `W` and is at most half of it), which the code
meets with `W = 65536` and powers of two up to `MSG_FIFO_MAX`.

### The mutex FIFO

Here the indices are slots and move inside a call, so they do not say by
themselves what is unread: the free-byte count does.  `IInv` of `LockedFifo`
says that there are a first slot `r` and an offset for every queued message such
that the messages lie one after the other over `Used` bytes from `r`
(`Layout`, `Contents`), and where the holder of the mutex has brought the index
it moves, from its `r` or `w` (`Pushing`, `Getting`).  `r` is quantified because
`rd` is not it while a get is half done.  `LockEndsWithCall` is a conjunct: that
only one thread is in a copy is what keeps the rest.

Assumptions: any size above zero in which a message fits, a power of two or not;
any sets of producers and consumers without a thread in common; and that
`NoThread`, the value for a free mutex, is no thread (`ThreadAssumption`).

### The shared memory

`QuietInv` is `IInv` of the FIFO and that a process that is not running is in no
call.  A kill drops what its side had reserved or was reading, which only makes
room in `Layout`; `Clear` gives the initial state but for what the callers
remember and `lost`.  This is where the quiet start is needed: with the other side inside a
call, its locals would refer to a ring that is gone.  For the refinement, a step of either process
is a step of `MsgFifo` by the lemmas of the FIFO, a kill leaves `queue`, `wr` and `rd`
alone, and a start maps to `Start`.  It is proved of `QuietSpec`
alone; `ShmSpec` is refuted by `shm_fifo_start`.

### The channel

What keeps two peers in lockstep is what is on its way between them.  `IInv` of
`SyncChannel` has, for each peer:

- `LeadBounded`: it is at most two exchanges from the other one, one ahead only
  if the other waits for a message or a phantom let it pass, and two ahead only
  after a phantom;
- `Sound`: every message on its way to it (in the FIFO, in the hands of the
  receive task, in any connection) is of the exchange it is in or one the other
  peer is ahead, and the other peer has sent it; only a START it has passed by a
  phantom may be older;
- `Ordered`: these messages are of later and later exchanges, from the FIFO back
  through the connections, oldest first;

and `ConnectionsOrdered`: the client has the newest connection, the server an
older one or the same, the accept queue those in between, and no other end is
open, so that an old connection can bring nothing behind a newer one's back.

`Ahead` is a difference around the bound of the exchange count; the lemmas on it
take most of `SyncChannelProofs`, as moving a peer on by one moves every position
on by one.  Each step of `Next` then has a lemma.  `Lockstep` follows from
`LeadBounded`, `TakesCurrentOnly` from `Sound`.  For `NothingDropped`, `Ordered`
and the bound on the lead allow at most two messages to a peer, so one at most is
in its FIFO when another comes.  Both theorems have the condition of their
property, that no end of a stream was taken for a message; `TakesCurrentOnly` has
none.

Assumptions: `SyncAssumption`; at least two rounds before the count repeats; any
error limit, number of connections and payload lengths.  `RoomForTwo` also
assumes that any two messages fit in the FIFO, as they do in the one of 256
bytes the code asks for, and exactly do in the run.  With the FIFO as it is
created the property is refuted (`sync_channel_as_built`).

### The framing

`Framed`: with the position of each message in the stream (`PlacedAt`, the sums of
the lengths before it), the receiver stands at the start of a message or just
behind its head, and every byte it has not taken, in its socket, on the wire or in
the send call, is the one that belongs at that position (`Carries`).  As no call
has ended inside a message, a receive takes a whole head or payload
(`CarriesTaken`), a send adds a whole message at the end (`CarriesSent`), and a
send that times out before its first byte takes one away that the receiver cannot
have begun (`CarriesWithdrawn`).  `IInv` claims this until `torn`; what follows
then is what `tcp_framing_late` shows.

Assumptions: `FramingAssumption` alone: any types, lengths and capacity.  The
bounds on the messages sent and received are arbitrary numbers too.

### The doubly linked list

`IInv` of `DataStructuresProofs` says of `Chain`, which is what following `next` from
the head gives, that the links of every node in it are those of its place
(`Linked`); that a node is handed out exactly if it is in the chain or kept by a
caller, never both; and that a node not handed out has no links, as `calloc`
clears it.  The last part is needed because the functions do not reset all links:
an insertion into an empty list relies on it.

Each function is then shown to link one sequence, given that it found another one
linked (`InsertTailAppends`, `InsertHeadPrepends`, `DeleteRemoves`).  The four
cases of a deletion are told apart by the links of the node; `DeleteWrites` says
what each writes.  The same lemmas prove both directions, as a list turned round
is a list (`Opposite`).  `ListSort` is an induction over the turns of its loop
(`FillTurns`): the nodes still carry old links while it runs, so its lists are only
`Loose`, with the link behind the last node not yet null.

For the refinement the sequence of keys is the chain with `data` applied
(`KeysOf`); the sort is one of equal counts of every key (`CountOfNodes`).

Assumptions: `NodesAssumption` (finitely many nodes, and null is none of them) and
`KeysAssumption` (keys are numbers).

### The sequential programs

`SequentialSpec` lets one of the programs run, so each theorem is from the
invariant of its program alone, and `StepsApart` says that the steps of the others
leave it.

- The caches (`LruInv`): until it is freed, a cache has the first of all keys in
  the order of their last use, the last of them at its end (`Matches`), all keys as
  long as there is room, and, if it sorts, in the order of their numbers
  (`Sorted`).  What takes the work is that `HASH_SORT` of a table in which one
  entry got a new, largest number moves that entry to the end (`SortOfTouched`),
  which is what the other cache does by a deletion and an insertion; both are then
  the same step of `Lru`, about the same key and with the same answer.  A key that
  is not found is not among the first of `recency`, by `Matches`.  That the count is
  that of the entries is a part of `LruInv`.
- The menu (`MenuInv`): a table has each entry in use at one place (`Holds`).
- The queues (`QueuesInv`): from the read index on, around the end of the array,
  the FIFO has the elements of `inFifo`, up to the write index, and its status is
  that of as many, or the cleared one of a fresh FIFO (`FifoHolds`); below its index the LIFO has those of `inLifo`.
- The circular list (`RingInv`): there is a sequence of packets that is linked as a
  ring with the head, in both directions, in the order of the indices; while all
  are deleted the two cursors are on its first and second.  A ring is a chain
  between the head and itself, so that the head is a neighbour like the others.
- `killProcess` (`KillInv`): what is in the result and on the stack are different
  descendants; the table has an entry for every other process and, for the
  processes in the result, only of the children of the last one.  `Doomed` is
  defined by going up to the ancestors; `DescendantsAreIn` says that a set with the
  killed process in it and closed under children has all of them, and when the
  stack is empty the result is such a set.
- The size of the FIFO (`SizingInv`): the bits that are tested from the first mask
  downwards are zero up to the first one that is set.  If the request has no bit
  above them it is below twice that power (`HighBitsZero`), and the answer is 16
  times it, or one byte for nothing.  If it has, it is at least 2^28, and so is more
  than any size up to `MSG_FIFO_MAX`.  As the bit that is found is one of the
  request, 16 times it is no more than 16 times the request.
- The tree of words (`DictInv`): the counts are a `Tally`: every node counts what
  was entered of its own word and what its children count, and is there if that is
  not zero, as long as no order had a number below one.  `search` and `printall` take a node's own number to be the difference,
  which `OwnIsKept` shows.  `erase` frees the nodes whose count is the number taken
  off; below the first of them there is nothing but the way to the word
  (`EmptyingBelow`), so what is unlinked is what is freed (`UnlinksEmptying`).  Sums
  are numbers of elements (`SumOver`), which any order of adding gives (`FoldIsSum`).
  `printall` is followed by induction over the levels below a node (`TreePrints`): it
  prints the names at and below the node, each as often as it was entered, in
  dictionary order.

The invariants of the queues, the circular list and the tree are in
`DataStructuresProofs`, the others in `SequentialProofs`, with all the theorems.

Assumptions: `DataAssumption`: values are numbers, arrays have a place, there are
finitely many packets and the head is none of them.  `SequentialAssumption`: keys
are numbers.  `SizingAssumption`: `MSG_FIFO_MAX` is at most 2^15, so that 16 bits
count twice as many bytes as the ring has (it is 2^13), and a word has 20 to 32 bits.
Requests are any numbers.

### The drivers

During init or probe a driver holds what the calls so far have got.  The cleanup
behind a label, an exit and a remove are sequences of releases, and `DriverInv` says
that those still to come lead from what is held to what shall be left (`Cleans`):
there is a history of what is held after each release, in which each releases
something held there, unless it is excused, and nothing outlives its parent.
`ErrCleans` and its like show it of each label, `CharFails`, `PlatformFails` and
`NetFails` that each call that can fail goes to a label that fits what was got by
then, or to one whose misfit `LeftBehind` names.  This holds however often a module
is loaded and unloaded, until it has left more than its cdev behind.

### The proc modules

`IInv` of `ProcModules`: a user gets into the module by its entry, which is there
exactly from insmod to rmmod, so a call in progress has the file open or is in
the open function.  `KernelAssumption`: the bounds on threads and buffers are
numbers; the users are any set.

### Model-checked only

- All liveness, which is out of the prover's reach: `EveryMessageLeaves`,
  `ProducerNotStarved`, `RunTogetherOrStop`, `EverythingArrives`.
- The properties of the red-black tree exerciser, `CheckNeverWarns`,
  `LeftmostIsFirst`, `TreeOfLiveNodes` and `ShownOnce`.  They rest on the shape
  of balanced trees, which is the kernel's: that the walk of an insertion ends
  within the levels there are, and that the FIFO of the printing, into which pushes
  are not checked, holds as many places as a level of the tree can have.  The run
  takes every tree of up to six nodes; for other numbers of nodes both would have to
  be assumed.

## Not modelled

- Messages longer than the ring: the callers' messages fit (at most 99 and 188
  bytes in rings of 256 and 1024).
- Null pointers passed to push and get, which no caller passes.
- The file operations of the drivers and the callbacks of the network interface,
  which only log; binding and unbinding through sysfs.
- In `SyncChannel`: starting a killed process again, and the statistics the state
  machine keeps.
- Capacity 0 of the LRU caches, whose callers give at least 1, and the first main
  of `uthash.c`, a straight line of calls with fixed data.
- `findMedianSortedArrays` and the other programs of `qsort.c`: straight lines
  around the library's sort.
- Memory ordering of machines other than the one built for (see `LockFreeFifo`).
- The components with status `not_modelled` in `PROJECT.json`, with the reason
  there.
