# ALLIANCE OS in TLA+

ALLIANCE OS is built around the *Cache Kernel* (CK, `src/development/CK`), a small
kernel that caches four kinds of objects for the kernels above it (threads, address
spaces, kernels, shared memory), schedules the threads, and forwards signals and
interrupts. Around it lie the *kernel library* (KL: allocators, executable loader, messages),
the library for *loadable modules* (LM), and the object request broker (SORB) with its
inter-process communication. This directory models the parts of them where state,
interrupts and order matter.

## 1. Inventory

| Component | State | Operations | Interacts with |
|---|---|---|---|
| Priority heaps (`pri_heap.c`) | three arrays of event pointers, `heapLast`, each event's `heap` backpointer and `time` | `CKsiftup`, `CKsiftdown`, `CKremoveEvent`, `CKprioritise` | called by the scheduler, by IRQ forwarding, by everything that blocks or wakes a thread |
| Scheduler (`sched.c`, timer stub, `tasks.h`) | thread states, execution times (in the kernel and in the user-writable thread object), `currtask`, `lasttime`, `doingRealtime`, `schedLock`, timer | `CKschedule`, `CKblockThread`, `CKunblockThread`, `CKsetThreadState`, `CKthreadTunnel` | heaps; entered by the timer, by `quantumDone` from any mutex, by the end of an IRQ; its end delivers signals |
| Signals (`signal.c`, `kernel.c`, `callgates.S`) | per thread: the queue, the SFBUSY marks, the handler frames on its stack | `CKsendSignal`, `CKsignal`, `CKendOfSignal`, end of a gate | wakes threads; sent by IRQ forwarding and shared memory |
| Object manager (`objmgmt.c`, `graph.c`) | objects and their lists, the sorted dependency array `ODA`, `sysObjManLock` | `CKcacheObject`, `CKunCacheObject` and their loaders | blocks threads it unloads, destroys shared memory |
| Shared memory (`shmem.c`) | owner, `dead`, invitations, attachments, a mutex | invite, attach, detach, remap, notify, destroy | sends signals without a lock, copies page mappings |
| Resources (`resource.c`) | ordered list of I/O regions, DMA map, chains of trap allocators, each owner's list, two mutexes | `CKresourceAlloc`, `CKresourceFree` | trap chains are walked by IRQ forwarding |
| Memory (`CK/memory.c`, `KL/Alloc/FreelistAlloc.c`) | the entries of free memory in one list by address and eight by size, `CKFreeListLock` | allocate bytes, aligned bytes, pages and regions; free; reservations at start-up | used by all of the above |
| Paging (`paging.c`, `memhw.c`) | page tables, usage counts | map, unmap, fill | shared memory |
| Hardware layer (`architecture/`) | descriptor tables, PIC, 8254 | start-up, IRQ masks | |
| Executable loader (`KL/Exec`) | table of executables, for each a state machine and what was read; the indexes of four sections, once for all | `KLexecInit/Open/Load/Probe/Symbols/SetSymbols/Close` | called by LM and by its tester, who do the reads it asks for |
| Loadable modules (`LM`) | table of modules: usage, entry points | `LMlibInit`, `LMload`, `LMunload`, `LMlibUninit` | executable loader; calls into the modules |
| Messages (`KL/Msg/linux`) | the queue of emulated signals, a pending SIGUSR1, the channel's count | connect, accept, send, wait, close | two processes, in `demo.c` |
| libIPC (`SORB/libIPC`) | a shared segment with rings and semaphores; messages as segments with two flags | `_init`, `_fini`, allocate, send and get (both modes), done | processes, through shared memory |
| Others | queues, threads, strings; object request broker, I/O and graphics kernels, boot loader, documents | | |

What is hard in this code: one processor, interrupts enabled almost everywhere;
mutual exclusion by three different means (`cli`/`sti` that do not nest, a spin mutex
that yields the quantum, the scheduler's own lock that makes the loser return); times
on a circle; user-writable scheduling data; and signals whose delivery is a pattern of
frames on a stack rather than a variable. In the libraries it is what is shared without a lock (rings,
flags, variables of a library that should be a handle's), and failures half way. `PROJECT.json` lists each
hazard with its line.

What makes each part correct: heaps stay ordered and the backpointers exact; a thread
is in the heap that its state names and in no other; the running thread is at its
root; the quantum of whatever runs ends; a deadline is taken from a thread that asked
for one and from nobody else; every signal is delivered once, in the order of urgency,
and a handler that was interrupted goes on; the dependency array groups the
dependants of each object; allocated I/O regions do not overlap; memory is partitioned into blocks
and joined entries; a message is destroyed by its last user and not before; what is loaded is linked to itself.

## 2. Modules

| Module | Models | State and actions |
|---|---|---|
| `CircularTime` | `arith.h`: `CLESS`, `CLSE` on words that wrap | operators; the word has `TimeWidth` values |
| `PriHeap` | `pri_heap.c`, loop iteration by loop iteration | the array with overflow word, the backpointers, the *hole* that a sift moves and the event that will fill it; one action per call (`CKsiftup`...), per iteration and per loop end |
| `EventQueue` | what a heap promises: a set of events with times | `Add`, `Take`, `Retime` |
| `HeapOps` | the same functions as single steps on sequences | operators that return the set of possible results (ties are free) |
| `HeapSteps` | `HeapOps` as a specification, the target of the refinement in `PriHeapRefines` | |
| `Sched` | the scheduler, its stubs and the callers in interrupts | see section 3 |
| `SignalDiscipline` | what signals promise: priority preemption with a stack of handlers | `Send`, `Interrupt`, `Finish` |
| `Signals` | the signal queue and frames of one thread | see section 4 |
| `DepGraph` | `graph.c` and `CKremoveDepSearch`: the sorted array of edges | operators on a graph: the array and the two fields `firstDependency`, `dependencies` of each object |
| `Objects` | `objmgmt.c` | headers, the graph, `sysObjManLock`, calls in progress; see section 5 |
| `Resources` | `resource.c`, the allocation and the forwarding of interrupts in `kernel.c` | see section 6 |
| `SharedMemory` | `shmem.c` and what `objmgmt.c` does with it | one object, its two lists link by link; see section 7 |
| `FreeList` | `FreelistAlloc.c`: entries, their two lists, cutting and joining | a heap is a record; operators give the heap that a routine leaves |
| `CKMemory` | `memory.c` and the start of memory in `memhw.c` | see section 8 |
| `ExecLoader` | `KL/Exec` with its ELF part | the calls as operators on the table and on memory |
| `LoadModules` | `LM`, and the tasks that use either library | see section 9 |
| `Mailboxes` | what `libIPC` promises: a mailbox for each process | `Send`, `Take`, losing the oldest |
| `LibIPC` | `libIPC.c`, `ipcqueue.c` | access by access; see section 10 |
| `Messages` | `KL/Msg/linux`: the emulation of signals, messages, `demo.c` | see section 11 |
| `MC*` | constants, views and instances for TLC | |
| `KernelDataProofs` (heaps and memory), `SchedProofs`, `SignalsProofs`, `ObjectsProofs`, `ResourcesProofs`, `SharedMemoryProofs`, `LibIPCProofs`, `LoadModulesProofs` | theorems | section 14 |

`PriHeap` is the detailed model of one heap. `PriHeapRefines` shows that each of its
operations, loops included, has the effect of one step of `HeapOps`, and `Sched` is
built from those steps, since the kernel runs them with interrupts off; where it does
not (`CKprioritise` after an IRQ woke its thread) `Sched` splits them.

## 3. The scheduler

`cpu` is the context whose code the processor executes, `stack[c]` the kernel frames
of context `c`, innermost first, and the label of a frame is the next thing it does:
`charge`, `flush`, `pick`, `switch` are the parts of `CKschedule` between which interrupts
are enabled; `mark`, `insert` those of `CKunblockThread`; `prioritise`, `climb` those of
`CKprioritise` where it runs unlocked; `away` is a context that was switched away inside
`CKcontextSwitch` and will continue behind it. Code between `CKlock` and `CKunlock` is one
step. `CKunlock` enables interrupts whatever they were, so the model has one flag per
context (`masked`) and no nesting. Three actions come from outside: `Timer` (8254,
channel 0, one shot), `IRQ` (for one allocator) and `SetDeadline` (a user writes
`ThreadObject.time`). Whether the first deadline is due is left open in `Pick`.

The kernel is not correct for every behaviour of its environment. `Allowed` says which
of the risky ones may happen in a run; the passing runs show what holds without them
and section 12 lists what each of them does:

- `wake`: threads wake others in system calls; `preempted wake`: they are interrupted while they
  do; `race`: another context wakes the same thread meanwhile; `unqueued`: another context takes the thread, which is
  marked runnable and in no heap yet, for queued (`CKprioritise` after an IRQ, `CKsetThreadState`) and uses the slot it had before;
  `fresh wake`: the woken thread has never run;
- `idle`: `CKsetThreadState(ts_Idle)`; `self`: a thread changes its own state other than to block;
- `unlocked irq`: an interrupt where the handler of another has lost its lock, or between charging and sifting;
- `short period`: the timer expires before the context switch frees the scheduler's lock;
- `tunnel`: `CKthreadTunnel`.

## 4. Signals

Signals are numbered in the order in which they are linked. `queue` is `thread->signals`,
`busy` the signals with SFBUSY, `frames` the handler frames. A frame is `called` (the
head of the queue was marked and `CKsignal` begins), `locked` (it has raised
`interruptable`), `handler`, `eos` (the handler has returned to the loop `1: int $0x6a; jmp 1b`
in the frame) or `finished` (the signal was removed, another signal's frame lies above,
and the loop will run again). System calls through a gate, blocking, and senders that
are interrupted in the middle of `CKsendSignal` complete the model. As above, `Allowed`
names what the passing runs exclude: a more urgent signal while a frame is being built
(`overtake`), a signal left for the end of a system call (`gate`), a signal that has to wait
behind one that is handled and before another (`between`), blocking with signals in the queue
(`block`), and interrupted senders (`unlocked send`).

`ImplementsDiscipline` maps `waiting` to the unmarked and `handling` to the marked signals
of the queue, and shows that the list with its marks is a priority-preemptive server.

## 5. Objects

`header` says for each address what kind of object is cached there, in which address
space it runs and what its parent is (the parent kernel, or the owner of shared memory);
`graph` is the array `ODA` with what the objects know of it. A load is one step, since
everything it changes is changed under `sysObjManLock`. An uncache takes the lock and then
one step per object: `cascade` is the stack of calls of `CKunloadObject`, and
`CKunloadObject`, `CKunloadThreadObject`, `CKunloadOther` are what its innermost call does next.
A thread that finds itself among the dependants is unloaded, the lock is released and the
calls that led to it are never resumed (`Dies`); the comment at objmgmt.c:234 says so itself.
The properties ask what state that leaves the rest in.

Addresses matter, because the array is sorted by them: `Objects` is a set of numbers, and an
object can be loaded at any free one. `Stray` is the word in front of the array that
`CKaddObjectDep` reads as the parent of edge 0 (graph.c:96); `StrayAssumption` says that it is
not the address of an object. Two more assumptions are on callers: they name objects that
are loaded, and no two of them uncache at the same time objects of which one depends on
the other, since the kernel looks at the object before it has the lock. The peer
lists are left out (nothing reads them), with the loads that fail after they were linked
there; so is the address space of a kernel, which the code does not treat as a dependency.

## 6. Resources

A resource is a descriptor with a kind, an owner and what it is for. `regions` is the
list behind `IOfirstAlloc`, `trapHeads` and `ntp` the chains of allocators, `stub` the interrupts that
are enabled and forwarded, `lists` what each owner has. A call is a sequence of critical sections
with preemptions in between, and `call[t].at` names the next one: `own` and `disown` put a
resource in its owner's list and out of it, `marked` has taken a DMA channel and has no memory yet,
`fill` is behind the lock of `CKallocTrap`, `unchain` between `CKpostProcessTrapAlloc` and the
lock in `CKfreeTrap`. An interrupt walks its chain step by step (`walk`), because
`CKunlock` after each allocator lets another interrupt in, and with it another thread.

`Allowed` names what the passing run excludes: regions at the end of the address space (`wrap`),
freeing an allocator that is not the head of its chain (`behind`), two calls for one
interrupt at a time (`concurrent`), an interrupt before its allocator is filled in (`early`), and
freeing during a walk (`free in walk`).

## 7. Shared memory

`Invited` and `Thread` are the heads and tails of the object's two lists, `next`, `thread`, `logicalAddr`
the fields of the entries, which move from list to list. A critical section of `smo->mutex` is
one step; what every call does before it (the test of `smo->dead`) is the step before, so that the object
can die between the two. Three walks have no lock, or release it at every entry, and are modelled
link by link: `Notify`, `Bury` (the invited, when the object has died) and `Mourn` (the attached). `owed`
is a history variable that counts down the signals each thread is to get.

Comments in the code speak of detaching the attached threads (shmem.c:137, objmgmt.c:502) and of waiting
for them (shmem.c:144). Neither is done: in `Freed` the object is gone and its threads are still
attached, with its pages mapped. The properties therefore ask whether everyone is told, not whether
everyone is detached.

`Allowed` names what the passing run excludes: calls other than `CKshMemAttach` and the second half of
`CKshMemRemap` that are in progress when the object dies, or any that is when it is freed (`late`);
uncaching by another thread than the owner (`foreign`); attaching while the owner notifies
(`moving`); attaching twice to one address of a space (`overlap`).

## 8. Memory

`freeList` is the descriptor and the entries: `entry[a]` has the links of both lists and the size of the
free block at `a`, as the block itself does. Sizes and addresses are counted in units, to which
`AdjustSize` rounds. `used` remembers what was asked for at each address, which the caller has to say
again to free it. Every call of `memory.c` holds the lock from beginning to end and is one step,
but `CKmemFreePages`, which calls `CKmemFree` with the lock held (memory.c:162): `CKFreeListLock` stays taken, and
nothing follows. `boot` is how far `CKpageMarkHardwareDependent` has come: the memory below the kernel and above it, the BIOS
area, the modules. Nobody looks at the result of a reservation, so `reserved` says what was really reserved.

`FailsOnlyWhenFull` states what the size lists are for. It mentions the room that the code
wants around an aligned block, since a remainder must be able to hold an entry. It leaves out alignments between 2
and the size of an entry, because the code does not keep it there: an entry is tried at its first aligned address
only (FreelistAlloc.c:227), and if what would be left behind the block there is too small for an entry the next address is not tried, where nothing might be left.
With a larger alignment the block would not fit at the next one. The kernel does ask for such an alignment, 16 bytes for its stubs (kernel.c:572, an entry has 24), when memory is
nearly all free. With `HEADER = 3` and alignment 2 TLC shows the failure.

`KLfreeListMemAllocRegion` does not look whether what is left *behind* a region has room for an entry. `RegionsFit` says that it
has: the reserved regions end at page boundaries, and no other region or memory ends within an entry's size behind one.

## 9. Loader and modules

A file is a record: whether it is for this machine, its sections with kind and size, its symbols with
the section in which they are, its relocations. `eTable[h]` is the handle's machine, `heap` the
memory (a block is named by its handle and section, with what was read or linked into it), `cache`
the four indexes of sections that the library keeps in variables (loader.c:27-30) for all handles.
A step is one call of a library with the read that it had asked for. Between two, another task may run: the
reads wait for a disk. `stray` records that the loader took a pointer or an index for
what it is not, after which nothing could be said about memory. In `LoadModules` tasks open files themselves, as
`LoaderTester.c` does, or as modules, whose `LMinit` runs while others go on.

What any file satisfies is `WellFormed`: section names of their own, relocations of its own symbols and in a section. `Allowed` names what the passing run excludes: `unusual` files (see `Usual`: among others any whose
sections of interest are elsewhere than in the file before, or which have several of a kind), a file that `LMload` cannot read (`unread`), no memory
for the arrays of a file or the entry (`exhausted`), no memory for common symbols, which the loader does not notice and goes on with a
pointer to nothing (`unassigned`; for sections the failure is noticed and part of the run), opening a file or registering a module while the table is full or not
there, where the search runs behind it (`full`), and registering while another `LMinit` runs (`nested`). A probe of a file that is not for this machine leaves
the state or makes it invalid; the handle is closed next either way.

## 10. libIPC

`proc[p].at` is where process `p` is in its call. Rings, owners, semaphores and the flags of a message are read
and written one access at a time, a system call is one step, and memory is sequentially consistent.
`segment` are the messages: who is attached, the two flags, whether it is marked for destruction, the
semaphore on which a synchronous sender sleeps. Processes leave and come back, and the last one
out destroys the shared segment; a process that leaves gives up the messages it is attached to. `ImplementsMailboxes` maps the rings to `Mailboxes`: `lost` is
a history of messages that a full ring dropped.

`Allowed` names what the passing run excludes: `claims`, `writers`, `overtake` (what two processes at once
do to the rings), `mixed` (a synchronous send of a buffer that was sent asynchronously before),
`garbage` (the field `owner` of a received buffer, which `ipcBufferGet` leaves uninitialised, is the receiver's pid),
`absent` (an asynchronous message to a process that has not come), `early` (processes that come while the
library is set up or taken down).

## 11. Messages

`code[p]` is what process `p` still has to do, `handler[p]` what its signal handler has; a handler goes first
and is not interrupted by the same signal. `raised` has the processes for which SIGUSR1 is pending; it is remembered once.
The module is the two processes of `demo.c`. It has no passing run: that a synchronous send returns is what the comments
promise, and the demonstration itself can violate it.

## 12. Runs

| Run | Question |
|---|---|
| `heap` | Do backpointers hold in the middle of every loop, does the order survive every sequence of operations, is the array with its hole a set of timed events, and has every operation the effect of the single step `Sched` uses? Six events, times on both sides of the wrap. |
| `sched_order` | Is each thread in its heap once, are heaps ordered, is the running thread the root, is nobody further ahead than one defer, is one context in the scheduler, does every quantum end? Three threads, idle threads, wake-ups and IRQs. |
| `sched_deadlines` | Do exactly those threads become realtime that wrote a deadline, and is each in its heap, also when wake-ups are interrupted and `CKthreadTunnel` enters the scheduler without its lock? |
| `sched_fair` | Does every runnable thread get the processor? |
| `signals` | Are marks and frames in step, is every signal delivered once and by urgency, and handled in the end, whether the thread was blocked or not? |
| `objects` | Does each object find its own edges, are the edges the dependencies, do children go before parents also when a cascade reaches its own caller, is nothing else unloaded, is the lock always free in the end? |
| `resources` | Do regions stay disjoint, does a channel have one holder, are the lists of the owners right, does an interrupt reach all its allocators and none that is freed? |
| `shmem` | Do the lists stay whole, are pages mapped exactly where threads are attached, does everyone hear of the end once, do the unlocked walks meet allocated entries only? |
| `memory` | Do the lists stay whole, is all memory in a block or in a joined entry, does a search miss nothing? |
| `loader` | Does the loader use only what it has read, is all memory freed, is what was loaded linked to itself, has each module a place of its own? |
| `ipc` | Does a message live as long as somebody needs it, and the library as long as it has users; is no wake-up missing; has a synchronous message been processed when its send returns; are the rings mailboxes? |

One more run expects a violation and is the finding in `PROJECT.json`: in `messages` the server's answer is
handled before the client has come to `pause()` (signal.c:156), which then waits for a signal that has been.

The features of `Allowed` each break a property. To see how, change `Allowed` in a
configuration and check the property named:

| Feature | Property | What happens |
|---|---|---|
| `preempted wake` | `HeapsWhole`, `RunningIsRoot` | `CKunblockThread` reads the time to insert at before it locks (sched.c:526); the heap moves on |
| `race` (with `preempted wake`) | `InItsHeap` | two contexts wake and insert the same thread |
| `unqueued` (with `preempted wake`) | `InItsHeap` | `CKprioritise` (kernel.c:650) or `CKsetThreadState` (sched.c:704) uses the slot of a thread that is marked runnable and not queued: another's |
| `short period` | `QuantumEnds` | a timer interrupt that finds the scheduler busy is dropped (exceptions.S:123) |
| `tunnel` | `QuantumEnds`, `OneScheduler` | `CKthreadTunnel` returns with interrupts off, and calls the scheduler without its lock |
| `self` | `RunningIsRoot` | a thread that blocked itself and goes on is queued again behind others |
| `self` (with `preempted wake`) | `InItsHeap` | ... and is charged before it is queued |
| `self`, `fresh wake` | `DeadlineOnRequest` | threads become realtime that never wrote a deadline: the time was changed by `CKsetThreadState`, or nobody set the one in the thread object |
| `wake` | `NoStarvation` | two threads that wake and block each other starve a third, since a woken thread starts at the time of the root |
| `overtake` | `HandlersAreBusy` | `CKsignal` copies the head of the queue, not the signal that was marked |
| `between` | `HandlersAreBusy` | the loop in a finished frame ends another handler's signal |
| `unlocked send` | `HandlersAreBusy`, `ImplementsDiscipline` | two senders link into the same place |
| `gate` | `HandlersAreBusy` | the gate stub delivers without marking the signal (callgates.S:68) |
| `unlocked irq` | `InItsHeap` | the lock around `CKsendSignal` and `CKprioritise` ends inside `CKsendSignal` (kernel.c:650) |
| `wrap` | `Disjoint` | the end of the region is zero, so it is found to fit (resource.c:101) |
| `behind` | `ReachesAllocators`, `WalksAllocators` | the loop that looks for the predecessor has its condition inverted (resource.c:413): the allocator stays in the chain |
| `concurrent` | `ReachesAllocators`, `WalksAllocators` | the stub is discarded without the lock while another allocator arrives |
| `early` | `WalksAllocators` | a signal is sent to a thread that is not set yet |
| `free in walk` | `WalksAllocators` | the next allocator is read from one that was freed |
| `late` | `EveryoneIsTold`, `WalksAllocated` | the walk along the attached threads follows one that has just detached or been freed |
| `foreign` | `EveryoneIsTold` | `CKshMemDestroy` refuses, its result is ignored and the object is freed (objmgmt.c:503) |
| `moving` | `EveryoneIsTold` | the walk goes on in the list of the attached threads; it need not even end |
| `overlap` | `MappedWhileAttached` | the first to detach unmaps the pages of both |
| `claims` (two servers, two rings) | `ImplementsMailboxes` | two processes take one ring (libIPC.c:68) |
| `writers` | `NoLostWakeup` | one overwrites the slot of the other, whose sender sleeps for ever |
| `garbage` | `NoLostWakeup` | the receiver takes itself for the sender and removes the semaphore instead of raising it |
| `overtake` (four messages, or `QUEUESIZE = 2`) | `ImplementsMailboxes` | the reader gets a message twice or out of turn |
| `mixed` | `SyncMeansProcessed` | a token left by the asynchronous use ends the next synchronous send |
| `absent` | `FreedWhenBothDone` | the library is taken down, with the ring, before the receiver comes |
| `early` | `LibraryLives` | a process counts itself in while the last one removes the segment |
| `unusual` | `NoStrayAccess` | the indexes are those of another file |
| `unusual` (files `Program`, `Bare`, `Large` only) | `LoadedIsOwn` | uninitialised data get a block of the size of the section before them (loader.c:374) |
| `unread` | `MemoryIsHeld` | `LMload` returns without closing its handle |
| `exhausted` | `NoStrayAccess` | `ELFclose` frees what an array says that was never allocated |
| `unassigned` | `LoadedIsOwn` | nobody tests the memory for common symbols (loader.c:373): the load ends well, with references to address 0 |
| `full` | `NoStrayAccess` | the searches for a free handle and a free place have no bound (ExecOpen.c:58, LMload.c:150) |
| `nested` | `OneModulePerPlace` | the place is chosen before `LMinit` and taken behind it (LMload.c:150) |

In `objects` the corresponding experiment is `Stray`: with the address of an object in its place
(and without `StrayAssumption`) `GraphIndexed` is violated, unless it is the lowest. In `heap` it is the premise
of `OrderKept` that removals are benign: `CKremoveEvent` only moves the filler down, and from
another subtree it can be earlier than its new parent. In `memory` it is `ReservedIsKept`, which `CKMemory` states and the
run does not check, because it is false already for the memory map of a plain PC: `CKmemAllocRegion` gives up at the first entry of a size list that does not
hold the region (FreelistAlloc.c:353), and the BIOS area stays free memory.

Bounds. Heaps: six events give a tree of depth three, the least in which a filler comes from
another subtree; eight time values put events on both sides of the wrap with room for half
a turn. Scheduler: three threads (one running, one ready, one to wake) with unequal
defers, eight time values, stacks of two or three frames: an interrupt inside a kernel
call and one inside that. Deadlines need absolute times, so that run has two threads. Two
views keep the state spaces finite in meaning and small: `AbsoluteState` hides times that
will be written before they are read; `RelativeState` also measures the times of each heap
from its root, which is exact as long as times are only compared within a heap, that is
without deadlines. Signals: four signals of three priorities, so that one is interrupted
twice and one waits between. Objects: five addresses, at most two threads, two address spaces, one
kernel and one shared memory object, in every order of addresses: a kernel with both address spaces, both
threads and no room left, a chain of all four kinds, and an uncache inside which the other
thread waits for the lock. The run switches the check for deadlock off because all threads
may unload themselves. Its view `LiveState` hides the first edge of objects that have
none: nothing reads it before it is set. Resources: two threads, three descriptors, regions that
touch, overlap on either side and contain one another, one channel and one interrupt; a
chain of three, or two of a kind and a third in progress. Threads and descriptors are
symmetric. Shared memory: an owner and two threads in one address space (threads of one space share
its mappings), three entries, so that a list has a first, a middle and a last one, and two addresses for
remapping. The run ends when the object is freed, hence no check for deadlock.
Memory: 26 units below and above the kernel, entries of two units, three size lists (one per header, two
boundaries), up to five blocks of three sizes, aligned or not, and one boot module: entries between two
blocks, before and behind one, that fit exactly, with a remainder, and without the room for one. `CKmemFreePages` ends the run, hence
no check for deadlock. Loader: two tasks, tables of one and of two handles, three files of one layout (a
program with relocations, common and external symbols; a module with uninitialised data; one with a description only).
libIPC: two clients and one server, three messages and rings of three slots, so that a ring holds two
and loses the third; semaphores up to three. Two servers for that ring, with two messages, are small enough too (change `Servers` and `Segments`): the one that comes second finds no
ring, and all properties hold as well. Processes that wait for messages nobody will send make the run end, hence
no check for deadlock. Messages: one server and one client, one message, as in the demonstration.

Fairness. `Sched`: the kernel's own code proceeds (weak), and the timer is served in the
end (strong: the interrupt is latched by the PIC while interrupts are off, and every
kernel path ends with them on). No fairness is assumed of threads. `Signals`: the thread
gets the processor back with interrupts off often enough to pass the end of `CKschedule`
(strong, by `NoStarvation`), frames are built and left, handlers, calls and senders end. That
handlers end is an assumption on the parent kernels. `Messages`: each process and its handler go on (weak; Linux schedules both).

## 13. Mutants

Every property of a passing run has a mutant: an operator with a comment `Mutation`,
defined before the one it stands for, with the change a slip in the code would make (a
missing sift, a dropped test of the lock, a comparison that does not wrap). TLC finds the property
violated under each. There is no separate run for types: `TypeOK` is proved for the heaps and the objects, and is a conjunct of
`InItsHeap`, `HandlersAreBusy`, `HeldOnce`, `ListsWhole` and `FreedWhenBothDone` elsewhere.

## 14. Proofs

Where `Allowed` names risky behaviour of the environment, the hypotheses of a theorem are the features that must be absent,
and nothing else. Section 12 shows what each of them breaks.

- `KernelDataProofs`, memory, for any map of memory, any size of an entry, any size lists and any number of blocks: `MemoryIsPartitioned`, `MemoryListsAreWhole`,
  `MemoryFailsOnlyWhenFull`. The heap is a function on the addresses of its entries, so the first invariant is about links alone (`Linked`):
  the `prev` and `next` of an entry are the nearest entries on its sides; `nextsize` and `prevsize` are inverse to each other and
  stay within the list of the size; and a set of entries of one size list that contains the first and is closed under `nextsize` is all of
  them (`Met`), which says without walking that the list loses nobody. `KLfreeListRemove` and `KLfreeListInsert` keep it whatever the sizes are
  (`RemoveKeepsLinked`, `InsertKeepsLinked`). The second is about units (`Whole`): entries hold an entry and do not touch, and `FreeMemory` is the number of their
  units. A freed block has its place between two entries (`NeighboursAre`) and keeps it while it takes in one and the other (`JoinPrevIs`, `JoinNextIs`),
  and what is cut out of an entry leaves on each side nothing or room for an entry (`CarveIs`). `MemoryInv` adds that blocks in use, free units and
  reserved ones are apart and together all that was given to the kernel, and, while it starts, that every border that a reservation can meet has room in front of it; there
  `RegionsFit` is needed. For the lists as sequences: a walk along `nextsize` does not meet an entry twice, because `prevsize` would lead back
  to the first one, so it ends within as many steps as there are entries, and what it has met is closed, hence all (`ListIs`).
  `MemoryFailsOnlyWhenFull` then needs that a larger size is never in an earlier list, and that for an alignment of an entry's size or more if a block fits at any place in an entry
  it fits at the one that the code tries (`FitsFirst`).
- `KernelDataProofs`, heaps: on times within half a turn the wrapping comparison is a total
  order, for every width of the word (`CircularOrder`). Everything about order rests on it. Then `TypeCorrect`, `BackpointersHold`, `EnoughRoom` (at most `MAXEVENTS` events do not overflow)
  and `HeapImplementsEventQueue`. The inductive invariant says that every queued event occupies exactly
  the slot its backpointer names, except the event in flight, whose slot is the hole.
  Without the hole the backpointers are not inductive, because a loop interrupts them.
  `OrderIsKept` and `TopStaysEarliest`: the invariant lets the hole's neighbourhood be out of
  order on one side only, depending on the direction of the sift, and relates the hole's parent to
  the hole's children directly. The hypothesis is that removals are *benign* (the filler is not
  earlier than the parent of the hole) and that times lie within half a turn; the experiment in
  section 12 shows that the first cannot be dropped. `TopIsEarliest` and `HeapFits` are proved
  and no run checks them: the first follows from `OrderKept`, the second from the backpointers.
- `SchedProofs`, for stacks of any depth. First, that every operation of `HeapOps` only permutes its heap, adds one thread
  to it or takes one out, whatever the times are; so nothing about the contents depends on the circle.
  `ThreadsAreQueued`: `HeapInv` adds to `InItsHeap` what frames know. Each thread is woken by one frame at most, wherever that
  frame is buried, it does not run, and it is blocked or in no heap, depending on how far the frame has come; a frame that
  works on heaps without the lock is innermost on the running stack and has read a slot that still holds its thread; a context that
  was switched away has `away` innermost. `OneInScheduler` adds `StacksAre`: the running stack has exactly one frame in the
  scheduler if the lock is held and none otherwise, and every other stack has none. `QuantaEnd` adds `TimerIs`: the timer is off only
  while some frame has still to come to `CKsetTimerPeriod`. `RootsRun` adds to the first that what stands behind
  an insertion or a climb does not sort before the root, whose time it has been given: that is why
  interrupting a wake breaks it. `DeadlinesAreTaken` is about two times that a thread has, one in its object and one in the kernel, which
  the scheduler compares at the end of a quantum. `DeadlineInv` adds that from one `CKswitchContext` to the next flush the
  time in the object of a timesharing thread is the one at which it was chosen, or a later one if it wrote a deadline (`ObjectTime`); that a
  thread that never ran has the kernel's time in its object; that the kernel's time is the object's when the flush begins
  (`Charged`); and that a frame in the scheduler works on the context it runs in (`Owned`), since a frame of somebody else's
  would charge the wrong thread. With `RootInv` only the root is charged, and with `StacksAre` nobody is between choosing and switching
  when somebody else is. `QuantaEnd` and `DeadlinesAreTaken` need the most hypotheses, `ThreadsAreQueued` allows
  preempted wakes, tunnels and short periods. All five exclude `unqueued`: with it even the contents of heaps go wrong. For `DeadlinesAreTaken` the run `sched_deadlines` allows preempted wakes and tunnels
  also, with two threads; there the property is only model-checked.
- `SignalsProofs`, for an environment that does nothing of `Allowed` but `block`: `MarksFollowFrames` and
  `SignalsImplementDiscipline`. The invariant places marks and frames on two stacks
  that run against each other: the unfinished frames belong to the marked signals, which are a front part
  of the queue or leave out its head only, the finished ones lie beneath; and the place that a sender has found
  is still the right one when it links its signal. The refinement maps each end of a handler to the one step
  `Finish` and everything else about frames to stuttering.
- `ObjectsProofs`: adding and removing an edge keeps every group whole and changes the set of edges by
  that edge (`AddKeepsIndexed`, `AddAdds`, `RemoveKeepsIndexed`, `RemoveRemoves`), for every
  array. The argument is that groups are intervals whose first slot and length the objects know. Then `ObjectsTypeCorrect`, `GroupsStayWhole`, `EdgesAreDependencies`, `DependantsGoFirst`. None of these is
  inductive alone. That no object outlives one it depends on follows from the edges
  being the dependencies (an object without edges has no dependants), that from the groups being
  whole (an object finds its edges and removes the right one), and loading at an address that
  was used before needs all three (no edge names it); `IInv` is their conjunction with one fact on headers.
  `LockIsInUse` and `OnlyDependantsGo` are about cascades: `CascadeInv` adds to `IInv` that dependencies go up
  through four kinds, so that nothing depends on itself, that each call in a cascade depends on the one
  that made it, and that what threads have asked for is loaded until its turn.
- `ResourcesProofs`: `RegionsAreDisjoint`, if no region reaches the end of the address space
  (`NoWrap`). The invariant adds that no region in the list wraps, without which the
  comparisons of `CKIOfindGap` say nothing about the regions.
  `ResourcesHeldOnce` holds with every feature: each call in progress holds the resource it has taken out of one
  list and not yet put in another. `InterruptsReachAllocators` and `InterruptsWalkAllocators` add that the
  allocators of each interrupt form a chain; a chain is the least set that contains its head and is closed under
  the successor, which the proofs characterise by an injective successor that never leads back to the head.
- `SharedMemoryProofs`, for any number of threads, spaces, addresses and entries. Lists are sets of entries with links, as in
  `ResourcesProofs`, and three lemmas about arbitrary links say what appending, taking out and walking on do to them.
  `ListsStayWhole` holds with every feature: the entries of the invited, of the attached, of the calls of `CKshMemInvite` in progress and
  of the walk that buries are four disjoint sets, and while the object lives they are all that is allocated.
  `MappedWhereAttached` (without `overlap`) adds that no two attached entries have one address in one space, so that
  unmapping for one takes nothing from another. `WalksMeetNoFreeEntry` (without `late`) adds that when the object is dead nobody is invited and
  nobody but the owner is behind the test of `dead` with something to unlink, so what a walk holds stays in one of the lists.
  `EveryoneHears` (without `late`, `foreign` and `moving`) adds that each thread is owed as many signals as it has entries
  on the rest of the walk; a notification may meet more, since who is invited or detaches meanwhile comes to the end of the list it follows.
- `LibIPCProofs`, for any number of processes, rings and messages, and rings of any length. `UsersKeepLibrary` (without `early`):
  the count of users equals the number
  of those that have counted themselves and not yet uncounted, and a segment that exists without its semaphores is being set up by
  somebody. The last user is the one that counts down to zero, so nobody is left when the segment goes.
  The other theorems assume that nothing of `Allowed` happens and that no process both sends and receives (`Roles`). They rest on one
  invariant, `Served`, which `ServiceIsSafe` proves. It says, without a lock anywhere: who creates the library is alone (`Founded`); a ring has one owner, between its
  indices are messages, one process at a time claims or writes it, and a reader that has moved the index is not overtaken (`Rings`);
  asynchronous messages are for processes that are there (`Reached`), which is why the creator's reset of the rings loses none; the semaphore of a ring and
  those about to raise or to use it cover what is in it (`Enough`); and for each message (`Handled`) it is in one place at most, in a ring or with one process,
  its flags say who has done with it, a message with both flags has been removed or somebody is on the way to destroy it, and the sender's semaphore
  is raised at most once for each use. None of the last is inductive alone: that a sender is not woken by an earlier use needs that the message is nowhere
  when it is sent again, that needs the flags, and those need who is attached.
  `MessagesAreFreed`, `WakeUpsAreNotLost` and `SyncIsProcessed` follow. `RingsAreMailboxes` maps a ring to the sequence of what lies between its indices:
  only the step of `IPCQueueWrite` posts, only that of `IPCQueueRead` takes, and a fetched message that is gone when it is attached ends there.
- `LoadModulesProofs`, for any number of tasks, any files and tables of any size. `ModulesHavePlaces` (without `nested`): at most one `LMinit` runs, in a place
  that is not in use. `BlocksHaveOwners` (without `unread` and `exhausted`, for `unusual` files, full tables and unassigned symbols too): an entry's arrays are both there or neither is, every
  pointer in them is missing or that of its own section, and the blocks of a handle that are allocated are those its entry points to.
  `FilesAreLoaded` (without `unusual` and `unassigned` either) and `PointersAreOwn` (without `full` as well): `LoadInv` says for each state of the machine which sections have been read, with the
  last request as the exception, and that the indexes that the library keeps are right for *every* file in progress up to the section it has come to.
  That another file's load overwrites them is harmless because all files have one layout: `CacheStays` is the lemma on which the rest depends.
  Common symbols have a place before relocation begins, which needs that the section they join is empty and is not `SHN_COMMON` itself.

The assumptions are the named ASSUMEs of the modules: positive sizes, finite sets of
events, processes and messages, a word of at least two values, `StrayAssumption`, `RegionsFit`. Only model-checked:

- `HeapsWhole` beyond its part `InItsHeap`, and `SpreadBounded`: the order of the scheduler's heaps at times that wrap. Without benign removals
  (see `KernelDataProofs`) neither holds for heaps of any size: `CKremoveEvent` moves its filler down only, which shows with six threads in a heap;
- `DeadlineOnRequest` with preempted wakes or tunnels;
- the refinement of `HeapSteps` by the loops, where a sift's result is a set of sequences built by a recursive function;
- all liveness: `NoStarvation`, the ends of walks and handlers (the prover has neither fairness nor ENABLED, and no induction over data).

## 15. Not modelled

*Left out of the modelled parts.* The lengths of periods and the realtime clock (`tasks.h`: periods are clamped to 16 bits,
so a deadline further away is noticed early and one closer than `fudge` wraps), the
calibration of `fudge`, FPU contexts, the registers and segments in signal frames. Loading and unloading a thread while it runs
is part of `Objects` and not of `Sched`: what the scheduler does with the thread structure that was
freed (the zombie task) is in neither. `Resources` and `Objects` are not composed: a thread that is unloaded leaves its
resources behind, and the kernel has no code that would free them. That `CKallocIORegion` returns with its lock held when there is no memory
(resource.c:140), that `doingRealtime` is not cleared when its thread blocks (sched.c:139), and
that an object is looked at before the lock is taken (objmgmt.c:726) are plain in the source.
With `unqueued`, a stale slot is followed as far as it lies in a heap of the state's kind or right behind it; what a removal from an
empty heap or a slot further away writes into is not.
In the loader, common symbols are found in the wrong section for relocations against themselves (cpu.c:110), two names are written behind an array of two (LMload.c:142-146),
and the entry points of a module are kept when the file that holds them has been closed.
In the messages, a buffer is allocated with the size of a pointer and freed with the size of its contents.

*Parts that keep no invariant to state.* These were read with a model in mind:

- paging (`paging.c`, `memhw.c`): the loop that maps runs one page too far, the usage counts one table too far,
  `CKmarkPageNotPresent` has its arguments swapped, and unmapping frees tables through `CKmemFreePages`, which waits for itself.
  A model could only restate this.
- `KL/Queue`: `maxSize` is never set, and `KLqueueRemove` uses a pointer that it has not initialised.
- `KL/Alloc/BitmapAlloc.c`: nothing uses it. `KL/Threads`: the lock of a mutex is a stub. `KL/Msg/msg.c`: calls that connect and send are empty.
- `IOSK`: read, write and close are empty, and no session can be opened: a chain number is unsigned and compared with `< 0`,
  and the loop that looks for one counts down an unsigned variable until it is negative.
- the parallel port driver in `LM/IOSK`: one caller, which waits busily for a port; no interrupt, no shared state.

*Code without a state machine of this system.* Most of the tree's lines are of this kind: the vendored
libIDL, gunzip and gdb stub, GRUB with its file systems and Etherboot drivers, generated CORBA stubs and skeletons of `IOSK`, the
translators of the IDL compiler, string functions, consoles and monitors, a texture demonstration, and research prototypes of
parts that were rewritten in `development`. What the map covers is therefore a small part of all lines, but
it is nearly all of the code of the Cache Kernel, the libraries above and their allocators that keeps state
between calls: `sched.c`, `objmgmt.c`, `resource.c`, `shmem.c`, `signal.c`, `graph.c`, `pri_heap.c`, `memory.c`,
`FreelistAlloc.c`, `KL/Exec`, `LM`, `KL/Msg/linux` and `libIPC` are modelled call by call.

## 16. Plan

1. `HeapsWhole` and `SpreadBounded`: the order of `KernelDataProofs`, carried over to `HeapOps`, with the invariant that all queued times lie within one
   defer of the root. They need the hypothesis that removals are benign, or heaps of five threads at most.
2. Composition of `Objects` with `SharedMemory`: the destruction inside a cascade is now in both, with an interface of one call.
