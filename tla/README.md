# Formal models of SSLab

SSLab holds the course work of three courses: *Operating Systems* (a scheduler
queue and a demand-paging simulator), *System Programming* (a frequency counter
with threads and one with processes) and *Embedded System Softwares* (a small
binder driver with its applications, and twelve labs of Linux kernel modules).
This directory models the parts with concurrency, with state that several
structures must agree on, or with work that the kernel does later for a driver. It
checks them with TLC, and proves with TLAPS, for every size, that the paging simulator
and the binder are consistent and implement their abstract specifications, and that
both frequency counters count every number once.

Contents: [inventory](#inventory) · [modules](#modules) · [runs](#runs) ·
[fairness](#fairness) · [proofs](#proofs) · [disagreements found](#disagreements-found)
· [not modelled](#not-modelled) · [plan](#plan)

## Inventory

### Demand-paging simulator (`Operating Systems/Assignment #2`)

`ku_cpu.c` reads `(pid, virtual address)` pairs, switches process with
`ku_run_proc`, walks the page table with `ku_traverse` (`ku_trav.c`), calls
`ku_page_fault` when there is no translation and retries. `ku_mmu.h` keeps the page
tables, a free list of frames, a FIFO list of allocated frames and a map of the
swap slots. It is sequential and deterministic in its input.

*Hard:* one fault updates up to five structures; a swap-in scans the free list
twice; entries are one `char`, so frame and slot numbers are cut to 6 and 7 bits.
*Correct when:* no frame holds two pages, the four structures agree, no frame or
slot leaks, the frame of the OS is never mapped, the retry after a fault succeeds,
a fault fails only when memory and swap are full, and eviction is FIFO.

### Binder (`Embedded System Softwares/assignment1`)

`ku_binder.c` is a character driver with a table of service names and, per
service, a request list with a spinlock and a wait queue. Servers register a name
(`BINDER_REG`) and read requests (`BINDER_READ`, sleeping while there is none),
clients ask for a number (`BINDER_QUERY`) and send requests (`BINDER_RPC`).
`ku_binder_lib.c` wraps the calls; two menu-driven servers, one looping server and
two clients use it.

*Hard:* registration is not locked at all; the emptiness test of a read is outside
the lock and the result of the sleep is ignored; a server that is restarted cannot
register again. *Correct when:* a number always means one name, requests are
handed over once and in order, none waits behind sleepers, a request reaches the
server its sender meant, and the driver survives; in short, it is a directory of
names and a FIFO queue for each number, as long as servers register one at a time.

### Frequency counters (`System Programming/Assignment #2`)

`ku_tfred.c` splits a file among threads that count in a shared array under a
mutex. `ku_pfred.c` forks a sender per share; main receives their POSIX message
queues (capacity 1) one after the other and counts. *Hard:* the two sides of a
queue compute its number of messages apart; queues outlive processes and are
limited in number; shares and remainder are computed at the edges of the sizes.
*Correct when:* every number of the file is counted once, both programs print, and
no queue is left.

### Labs (`Embedded System Softwares/lab1` … `lab12`)

| lab | what it is | state | behaviour that is hard |
|---|---|---|---|
| 1, 5 | module basics, LED | none | – |
| 2 | character drivers | one number or buffer | – (one process uses them) |
| 3 | lists, spinlock mailbox | message list, one buffer | reader and writer, unloading |
| 4 | blocking drivers | `my_data`, a wait queue | sleeping against waking, timeouts, exclusive waits |
| 6 | timers, LED, switch | a self re-arming timer | `del_timer` against a running handler |
| 7 | interrupts | list of times, a timer | handler against init, open, release, unload |
| 8 | RCU, RCU list, rwlock | a pointer, a list | use after free, grace periods under a lock |
| 9 | sensors, motors | echo state machine | edge before the flag is set |
| 10 | tasklet, work queue, kthread | pending work | deferred work against unload |
| 11 | proc and sysfs | a buffer | undoing a failed init |
| 12 | scheduling demos | none | – |

Each lab builds and loads its own module; they share nothing but pin numbers. From lab6
on a driver hardly has data: its state is which of its callbacks (interrupt handler,
timer, tasklet, work item, thread) the kernel may still run and what they may still
use. *Correct when:* init and exit return whatever callbacks they wait for, callbacks
find what they use set up, nothing of a module runs after it is gone, and everything
acquired is released once, on the error path too.

### Scheduler queue (`Operating Systems/Assignment #1`)

Only `ku_mlfq.h` is there, the queue without the scheduler around it.

## Modules

| module | models | composes |
|---|---|---|
| `KuMmu` | `ku_cpu.c`, `ku_trav.c`, `ku_mmu.h` | instantiates `KuPaging` |
| `KuPaging` | what the manager promises: FIFO paging with a bounded memory and swap | |
| `KuMmuProofs` | the consistency of the simulator, and that it implements `KuPaging`, proved | extends `KuMmu` |
| `KuBinderReg` | `ku_binder_register`, `ku_binder_query` | |
| `KuBinderQueue` | `ku_binder_rpc`, `ku_binder_read` with lock, wait queue, signals | |
| `KuBinderSys` | servers and clients | extends both, instantiates `KuBus` |
| `KuBus` | what the binder promises: a directory and one queue per number | |
| `KuBinderRegProofs`, `KuBinderQueueProofs` | theorems about the two halves of the driver | extend the module |
| `KuBinderSysProofs` | theorems about driver and applications, and that they implement `KuBus` | extends both |
| `KuTfred`, `KuPfred` | the two counters | |
| `KuFred` | either counter on the same files | instantiates both |
| `KuFredProofs` | theorems about both counters | extends `KuFred` |
| `Ch3Mod`, `SimpleSpin` | the message list and the mailbox of lab3 | |
| `SimpleBlock` | both drivers of lab4 | |
| `SpinInterrupt` | the sensor list of lab7 | |
| `ModuleLife` | twelve drivers of lab6, lab7, lab9, lab10, lab11 from insmod to rmmod | |
| `SimpleRcu`, `SimpleRwlock`, `SimpleRculist` | the drivers of lab8 | |
| `Labs` | the lab drivers, one loaded at a time | instantiates the eight |
| `LabsProofs` | theorems about the drivers of lab3, lab4, lab8 and the sensor list | extends `Labs` |
| `LifeSteps` | what a step of `ModuleLife` changes, read off its tables: lemmas | extends `Labs` |
| `LifeProofs` | theorems about the twelve drivers of `ModuleLife` | extends `LifeSteps` |
| `MCKuMmu`, `MCKuBinderReg`, `MCKuBinderQueue`, `MCKuBinderSys`, `MCKuFred`, `MCLabs` | instances | extend the module |

Operators defined just above the one they vary, with the comment *mutant*, are
plausible mistakes; each is used to see that a property notices it.

**KuMmu.** A state of the specification is a point of main's loop: `read`,
`translate`, `fault`, `retry`, or an exit. `pte` is the content of all page tables,
with the byte the code stores (`PFN<<2|1`, `slot<<1`, 0); `freeList`, `sspace` and
`allocList` are the arrays and the list of the code. `ku_page_fault` is one action
per case: nothing to do, a free frame (`MapFree`), failure (`MapFull`), eviction
(`MapEvict`), swap-in (`SwapIn`, with both first-fit scans and the slot released
before the search). Whole functions are one step because the program is
sequential. Not simulated by the program, and so absent: the content of pages.

**KuBinderReg.** Registration takes no lock, so each access to `service_num` and to
`service_name` is a step: the test for room, the copy of the name into the slot
behind the last one, the duplicate search (one index per step, against a
`service_num` that may move), the load, and the store of the increment.
`MaxRegistering` bounds how many registrations run at once: 1 is servers started
one at a time, as the assignment does it.

**KuBinderQueue.** `ku_binder_rpc` appends under the lock and wakes the first
exclusive sleeper before it unlocks; `ku_binder_read` tests, queues itself, tests
again, sleeps, and takes the head under the lock. The wait-queue steps model
`wait_event_interruptible_exclusive` of the kernel (external). A signal moves a
waiting reader to the take, since the code ignores the result of the wait. Taking
from an empty list sets `oops`: the code then deletes the static list head, and
nothing runs in the model any more.

**KuBinderSys.** `app` and `snum` are a server's menu and the number it holds,
`known` is a client's `request_sname`. `applied` collects the requests a server's
handler was run on. A restarted server loses its number and the driver keeps the
name. `Survives` says that the unlocked emptiness test is safe as long as each number
has one reader and no signal ends a wait; `binder_signal` shows that the signal matters.

**KuBus.** The abstract binder: `directory` is a sequence of names, a name's place its
number; each number has one FIFO queue. `Accept` and `Refuse` are a whole
registration, `Answer` a whole query, `Serve` a whole read. `ImplementsBus` maps a
registration to the store of `service_num` (or to the return that refuses it), a query
to its return, which is where the answer must be right although the table was scanned
step by step before, and a read to its locked section: a request counts as handed over
when the reader takes it off the list. A restart is `Forget`. The refinement holds with
`MaxRegistering = 1`; with two registrations at once it fails as `binder_reg_race` does.

**KuTfred.** `intArr[b]++` is a load and a store; a record number stands for a file
offset; `pread` past the end leaves the buffer as it was. **KuPfred.** `queues` maps
names to contents and is kept by the system: `mq_open` creates what is not there,
up to `QueuesMax`, and opens what is. `child` are the senders. In both, `Garbage` is
what `malloc` leaves in the cells that `memset` (of the size of a pointer) misses:
`{0}` for the heap of a fresh process.

**SimpleBlock.** One module for both lab4 drivers, which differ in their commands.
Sleepers queue as in the kernel, exclusive ones last; `wake_up` goes up to the first
exclusive one. The update of `my_data` is a load and a store under `my_lock`.
Queueing, the second test and `schedule()` are steps of their own, so a wake-up may
fall between any two of them.
**Ch3Mod**, **SimpleSpin.** Locked sections are several steps: copying the first
message and deleting it, the two halves of the mailbox's structure.
**SpinInterrupt.** `depth` is the kernel's count of `disable_irq`. The handler runs on
the processor of a process, which then stands still, or elsewhere; between
`spin_lock_irqsave` and `spin_unlock_irqrestore` a processor takes no interrupt.
**SimpleRcu**, **SimpleRwlock**, **SimpleRculist.** The list has its pointers both ways, and
an updater's search follows them, one element per step; `list_del` poisons the back pointer. Allocated memory is a set of cells
that are never reused, so a dangling pointer is visible. A grace period waits for
every processor to be seen outside a read-side section; a processor that spins with
interrupts off is not seen. One process runs per processor.

**ModuleLife.** A driver is a table: for init, exit, each callback and open and release,
the sequence of its calls that matter (`Request`, `Free`, `Arm`, `Disarm`, `Wait`,
`Try` for a call whose failure the code tests, with all that is left to do then). Each
context runs the function it is in one call at a time, so init, exit and callbacks
interleave at every call; the actions (`Acquire`, `Release`, `ArmCallback`, `DelTimer`,
`WaitIdle`, …) are what the kernel does for a call, and are external where the kernel's
code is. `needs` of a call is what it takes for granted: a timer that is set up, a pin
that is requested. A NULL pointer or a timer without a function stops the machine
(`oops`). `raced`, `unready`, `misfreed` and `failed` are history. Failures occur where the
code tests the result. Edges come at any time while the line is on; an edge that falls
into the time the interrupt is off counts as coming when it is on again. The properties
except, by name, what the code does:

* the timer of lab6 arms itself again while `del_timer` runs, an interrupt schedules the
  tasklet of lab10 between `tasklet_kill` and `free_irq` (`NothingAfterUnload`);
* the handler of `ch6_mod.c` may run before the timer it arms is set up, and its timer
  after the pins are freed; `simple_kthread.c` wakes a thread that could not be created;
  `simple_sensor.c` takes the time of the open after it enabled the interrupt
  (`ReadyWhenUsed`);
* an interrupt or a work queue that could not be had is freed all the same, and
  `simple_ultra.c` keeps its pins (`NothingAfterUnload`).

## Runs

The run `labs` needs about two and a half minutes with two workers, the others less
than one.

| run | question | bounds |
|---|---|---|
| `kummu` | do the structures agree through any sequence of faults, and is it FIFO paging? | 2 processes × 3 pages, 3 frames, 2 slots |
| `kummu_many_frames` | *violated:* `OsFrameReserved` | 65 usable frames, pages in order |
| `binder_system` | do table, queues and applications agree, with servers started one at a time, and do they implement `KuBus`? | 2 servers, 2 names, 1 client, a table of two, 2 requests, 1 restart, 1 signal |
| `binder_shared_queue` | is a queue with two readers still FIFO, and is no wake-up lost? | 2 readers, 2 senders, 1 signal |
| `binder_loop` | do looping servers apply every request in the end (`RequestsApplied`)? | as `binder_system` without restart and signal, with fairness |
| `binder_reg_race` | *violated:* `NumberMeansName` | two registrations at once |
| `binder_signal` | *violated:* `NoEmptyTake` | one signal |
| `fred` | does either counter count everything once, and end? | 7 files of up to 5 numbers, 3 intervals, up to 3 workers |
| `fred_more_threads` | *violated:* `FDCorrect` | more threads than numbers |
| `fred_queue_limit` | *violated:* `Finishes` | 3 senders, 2 queues |
| `labs` | are messages, wake-ups, updates, memory, interrupts and deferred work handled right in the twenty drivers of lab3, lab4 and lab6 to lab11, each by itself? | 3 processes; 4 calls (lab3), 3 (lab4), 3 opens and 3 interrupts (lab7); 2 readers, 2 writers, 2 writes (lab8); lists of 3; 3 edges, 2 work items, one echo (`ModuleLife`) |
| `labs_rcu_writers` | *violated:* `OldIsFreed` | no reader, 2 writers, 2 writes |

Why the bounds are enough. *kummu:* with six pages for three frames and two slots
both memory and swap fill up, every case of the fault handler fires, evictions
cross process boundaries, and pages return from swap to other frames. *binder:* two
names fill the table, a third registration is refused, and duplicates arise from the
restart; two requests are the least that can be reordered. *fred:* the files have
sizes that three workers divide evenly and unevenly, fewer numbers than workers only
in the run about it, equal numbers in one cell (lost updates), and numbers at the ends of
the range. *labs:* two sleepers and a producer, and a second write that frees what the
first one made, are where the hazards lie; one element is updated twice while a walk
stands on it. Three edges let one handler run, one wait and one come too late, and
fill the memory for two work items, so that an allocation fails. `MaxUpdates` counts nodes
of the RCU list: an update is called only if the nodes suffice for it and for those under
way, so that no call stops at the bound while it has the lock.

Deadlock is checked except where the system may stop: `labs`, where sleepers may have
no producer and two RCU writers block each other (`labs_rcu_writers`), the binder
runs in which the driver may crash or all requests are served, and
`fred_queue_limit`, which is about main waiting for ever.

## Fairness

Weak fairness, on the steps of processes that the scheduler runs anyway, and one strong
fairness condition, on RCU; never on calls a user may or may not make, on signals,
timeouts or restarts.
`KuBinderQueue` and `KuBinderSys` (`LoopSpec`): each step of a call in progress, and
for the looping server of `ku_server.c` its next read. The locks are held for a
bounded number of steps and the requests are finite, so a waiting process gets the
lock under weak fairness. `KuFred`: main, each thread, each child. `Labs`: steps of
calls in progress and lab7's handler; of `ModuleLife`, the steps of a context that is running and
the start of a callback that is armed (timers expire, tasklets and work items get
their turn), never an edge, an open or an unload. The driver never changes, so one
condition serves processes and contexts of different drivers. `tasklet_kill`,
`flush_workqueue` and `synchronize_irq` end because the edges are finite.

The step in which RCU sees a processor outside its read-side section (`Quiescent`) is
strongly fair in `SimpleRcu` and `Labs`. A reader that calls again and again is in a section
most of the time, so the step is enabled only now and then, and under weak fairness such a
reader alone would keep a grace period from ending. RCU does catch it: a tick or a context
switch between two calls is enough. A processor that was seen is not waited for again,
so one condition for all processors together is as much as one for each. It does not help
where the step is never enabled, which is the case of a processor that spins for the lock
with interrupts off: that, and no reader, is what `labs_rcu_writers` shows.

## Proofs

TLC checks small instances; the theorems below hold for every value of the constants
that the named assumptions allow. Each inductive invariant was first checked by TLC on
the instance of the run.

### Paging (`KuMmuProofs`)

For every set of processes and addresses and for all sizes with `SizesFit` (2 to 64
frames, 1 to 128 slots: what one `char` can name, and a memory that has a frame besides
the OS's):

| theorem | says |
|---|---|
| `Consistency` | `Spec => []IInv`, the inductive invariant |
| `Typing` | entries are bytes, lists hold frames and slots that exist |
| `FrameIsolation` | no two pages share a frame |
| `NoFrameLeaks`, `NoSlotLeaks` | the free list and the swap map are exact |
| `SwapImpliesFull` | while a page is swapped no frame is free |
| `OsFrame` | frame 0 is never mapped |
| `RetrySucceeds` | the retry after a resolved fault translates |
| `EntriesSurvive` | no step clears the entry of a touched page |
| `RefusesOnlyWhenFull` | a fault fails only when every frame holds a page and every slot another one |
| `RefinesPaging` | the simulator implements FIFO paging, `KuPaging!Spec` |

`IInv` is the type invariant, the shape of entries, the exactness of free list, swap map
and allocation list, frame exclusiveness and `SwapOnlyWhenFull`. The last one is why it
is inductive: a swap-in calls the first-fit scan twice, each call marks the frame it
finds, and a frame found by the first call would be lost; only because a swapped page
implies a full memory does the first call find none. That holds in turn because a frame
is released only inside an eviction, which uses it again at once. `EvictStep` states once
what evicting into a slot does to every part of the invariant; `MapEvict` and `SwapIn`
are reduced to it, `SwapIn` with the swap map after the release of the target's slot.

`RefusesOnlyWhenFull` and `RefinesPaging` count. `IInv` says that entries and frames, and
entries and slots, correspond one to one; so the resident pages are as many as the frames
in use and the swapped pages as many as the slots in use, and "no bit is clear in the
arrays of the code" is "memory and swap are full" of the abstract specification. The
allocation list mapped to its pages is the abstract queue; each case of the handler is one
abstract step, the scans and the retry are stutters.

`SizesFit` is needed: with one frame (`mem_size` 4 to 7) the handler evicts from an
empty list and maps frame 0; with 65 frames frame 64 is stored as frame 0; with 129
slots the entry of a page in slot 128 is 0 and the page counts as unmapped.

### Binder (`KuBinderRegProofs`, `KuBinderQueueProofs`, `KuBinderSysProofs`)

For every finite set of servers and clients, any names, any table size and any numbers of
requests, restarts and signals. The theorems on the table assume `OneAtATime`
(`MaxRegistering = 1`, servers are started one after the other): without it they are
false, `binder_reg_race` shows how. Those on one queue assume nothing of the kind.

| theorem | says |
|---|---|
| `RegConsistency`, `QueueConsistency`, `SysConsistency` | the inductive invariants |
| `NumberHolds`, `NamesStay` | a number names the service that was told it; no step moves or removes a counted name |
| `FirstInFirstOut` | the requests handed over and those that wait are the accepted ones, in order |
| `WakeupsReach` | a request waits behind sleeping readers only while a wake-up is on its way |
| `WaitQueuesRight` | exactly the readers that sleep or are about to are in a wait queue, once |
| `SysTypes`, `SysFifo`, `SysNumbersHold`, `SysNamesStay` | the same under the applications, restarts included |
| `RequestsReachTheirServer` | a server gets only requests that were meant for its name |
| `RequestsAppliedInOrder` | a server's handler is run on a client's requests in the order of sending |
| `OnlySignalsBreak` | without a signal no reader takes from an empty list |
| `ImplementsTheBus` | driver and applications implement `KuBus!Spec` |

*The table.* The invariant follows the one registration that runs through its steps: up to
index `i` of its scan no counted name equals its own, the slot behind the last counted one
holds its name, and the value it loaded is still `service_num`. With this the store of
the increment adds one new name behind the others.

*One queue.* `WakeupsReach` is not inductive. What is: as long as any reader sleeps, the list
is no longer than the number of readers that are awake inside the call plus the wake-ups
still to be given by senders that have appended. A sender adds one to both sides; a
wake-up moves one from the second term to the first; a reader that takes a request leaves
both. With the exclusive queue this needs that readers in the queue are pairwise distinct
(`IsInjective`) and that removing one keeps the order of the others.

*The system.* A client's requests are numbered; those posted, those queued and those
handed over form one increasing sequence per client, and what a client knows (`known`)
stays true because names never move. `RequestsReachTheirServer` needs that a restarted
server cannot get another server's number: a name is refused the second time.

*The bus.* The mapping is the one in `KuBinderSys`: the counted prefix of the table, the
list of a number with each request paired with the name it was meant for, and the return
of a call as the moment it answers. A step of a scan, the first half of a registration
and the steps of waiting are stutters; the answer of a query is right at its return
because what the scan found or passed stays as it was.

### Frequency counters (`KuFredProofs`)

For any set of files, intervals and numbers of workers with `Regular`: no more workers
than numbers or an empty file (otherwise `fred_more_threads`), intervals that divide
the range (the last cell would be missing), and a heap and queues as a fresh system has them
(the array is cleared only in part, a left-over queue may be there but holds no message).

| theorem | says |
|---|---|
| `FredTypes` | types; the mutex is held by exactly the incrementing thread; no queue holds two messages |
| `NoIncrementLost` | the array holds exactly the increments the threads finished |
| `SharesArriveInOrder` | what main received and what is queued is what the sender sent of its share, in order |
| `QueuesUnlinked` | when main prints, every queue is unlinked |
| `PrintedIsRight` | what either program prints counts every number once |

`Tiling` is the arithmetic: the shares of `n` workers, the last one with the remainder, tile
`1..m`. `Tally` is the set of records counted so far in a cell, given how many each worker
has done; `TallyNext` says what one more record does to its size and `TallyAll` that at the end
it has as many elements as the file has numbers in that interval, through a bijection
from records of shares to places in the file. The invariants keep every cell equal to the
size of its `Tally`. For the threads that needs that the value a thread has loaded is
still in the cell (`LoadedRight`), which is where the mutex comes in; for the
processes, that received and queued messages are a prefix of the share (`FlowRight`), and
that a sender that is to send keeps its queue from being unlinked, since main has not
received all of the share yet. That no cell past the array is touched is part of both.

### Labs (`LabsProofs`)

For all processes, calls, signals, amounts, writes, list lengths and updates, with
`LabsAssumption`: a process of lab8 is a reader or a writer for good, as in its
applications; the names of nobody, the handler and the other processors are no
process's; amounts and ids are numbers and a list has an element.

| theorem | says |
|---|---|
| `LabsConsistency` | the inductive invariant: the one of whatever driver is loaded |
| `LabsTypes` | lab4's wait queue is exact, the exclusive sleepers last; one RCU writer at a time is past the lock |
| `LabsWakeups` | no sleeper of lab4 misses the wake-up for the data it waits for |
| `LabsNoUseAfterFree` | nothing is freed that a reader or a search of lab8 may still reach |
| `LabsNoLeak` | what `simple_rcu.c`, `ch3_mod.c` and `spin_interrupt.c` allocated is what they hold |
| `LabsMessages` | messages of lab3 are read once, whole and in order |
| `LabsInterrupt` | the interrupt of the sensor list follows opens and closes |
| `LabsReads` | a walk of the RCU list is complete and in order; a reader under the rwlock has the current cell |
| `LabsNothingLost` | no update of lab4 or of the RCU list is lost |

Two drivers are never loaded together, so `LabsInv` is one implication per driver, and a
step of `Next` is a step of one of them (`LabsStep`).

*The RCU list* (`ListInv`). The nodes of the list are those allocated less the replaced
original of an update in progress (`Linked`). Every allocated node, the replaced one too,
leads to the linked node of the next id: that is why a reader that stands on the original
walks on as if nothing had happened, and why freeing it makes no pointer dangle once
the readers standing on it are gone (`ListUpdates`: they are all among the processors the
grace period waits for). It is stated by neighbours only, without following pointers, so
that no recursion is needed; `ListComplete` then gives the list itself as a function of the
ids. The data of an element equal the number of its copies (`ListData`), which a
replacement that started from a stale copy would break.

*lab4* (`BlockInv`). As in the binder, the wake-up property needs more than itself: members of
the queue are exactly the processes between queueing and leaving, pairwise distinct, and
whoever saw no data and is about to sleep is queued already. Waking takes a prefix of the
queue off, which keeps its order.

*lab3* (`Ch3Inv`, `SpinInv`). A message that a reader has copied stays first in the list until
that reader deletes it, because only the lock's holder takes from the front; the mailbox is
whole but for a writer between the two halves of its store.

*RCU, rwlock, sensor list* (`RcuInv`, `RwInv`, `IntInv`). A reader that loaded the old pointer
is one of those the grace period waits for; a writer in the section is alone there; the handler
runs only while the depth is 0 or a close that disabled it still waits for it.

### Interrupts and deferred work (`LifeSteps`, `LifeProofs`)

For the twelve drivers of `ModuleLife`, any set of work items and any number of edges,
whatever calls fail, with `LabsAssumption` and `WorksAssumption` (a work item is a context
of its own, not one of the names of the others):

| theorem | says |
|---|---|
| `LifeConsistency` | the inductive invariant |
| `LifeNothingAfterUnload` | a module that is gone has nothing running or pending, but a timer or tasklet armed while it was being stopped; all is given back once |
| `LifeReadyWhenUsed` | what a call uses is set up, but in the four places named above; a closed sensor is quiet |
| `LifeEchoMeasured` | the two times of the ultrasonic driver are those of the rise and the fall |

An invariant that lists, for every position in every table, what is held and armed there
would be longer than the model. Instead the tables are looked at once. What init and exit
have still to do is the set of acts in the rest of their table (`ToDo`), and `InitOrder`,
`ExitOrder` say of a sequence of calls what the argument needs of it: which calls there
are, which comes before which (`InitRules`, `ExitRules`: the interrupt is freed before it
is waited for, that before the queue is flushed, that before the queue is destroyed), and
that the calls left after a failed one ask for what was left to ask for, or give back
exactly what is held (`AltFits`). Every table starts so, and the rest of a sequence that
is so is so too (`InitOrderTail`, `ExitOrderTail`). `LifeSteps` ends with a few effects,
each a formula on what is held, armed, running and to do, such that every step has one of
them (`LifeEffect`); the invariant is proved of the effects and of the order.

The invariant `LifeInv` then relates the state to `ToDo`:

* *what is held* (`HeldInv`): during init everything the driver needs less what init has
  still to ask for and what failed; during exit, or once init gives up, what is still to be
  freed and what nobody frees (the pins of `simple_ultra.c`, the timer). At the end `ToDo` is
  empty, and that is `LifeNoLeak`;
* *what may run* (`IsrInv`, `WorksInv`, `ThreadInv`, `TimerInv`): a handler runs only while the
  interrupt is held or exit has still to wait for it; a work item, a thread, a timer or a
  tasklet is alive only if the call that stops it is still to come, or else it raced with
  that call. Handlers queue work and arm timers, so the order of the waits in
  `ExitRules` is what carries this over the last call of exit; in the tasklet drivers the
  order is the other one, and the race of `NothingAfterUnload` is what it leaves;
* *the light of ch6* (`LedInv`), which goes off after the handler that could turn it on is gone;
* *the sensor* (`SensorInv`): the line is off with no handler from the end of a release to the
  next open (one process opens it at a time here);
* *the echo* (`EchoInv`): once the start is taken the line is still high and no handler is
  about, or it fell, and a handler that runs then has read the fall.

`ReadyWhenUsed` is about history (`unready` only grows), so it is part of the invariant
itself: each call is looked at once with what it takes for granted.

### Only model-checked

All liveness (`RequestsApplied`, `Finishes`, `CallsEnd`, `LightFollows`), which the prover
does not reach. The invariants of the passing runs are all theorems.

## Disagreements found

* `ku_mmu.h:226`: frame 64 is stored as frame 0, which "is reserved for the OS"
  (`kummu_many_frames`).
* `ku_binder.c:59`: two registrations at once, a server is told a number that the table
  gives to another name (`binder_reg_race`). Two of the same name may both be accepted.
* `ku_binder.c:136`: a signal sends a sleeping reader on to an empty list
  (`binder_signal`). Two readers that both saw one request end the same way.
* `ku_tfred.c:153`, `ku_pfred.c:284`: the remainder is taken by the number of workers
  asked for; with more workers than numbers the last number is counted again and again
  (`fred_more_threads`).
* `ku_pfred.c:40`: a sender without a queue exits silently and main waits for ever
  (`fred_queue_limit`).
* `simple_rcu.c:49`: two writers at once never finish (`labs_rcu_writers`): one waits for
  the grace period with the lock, the other, counted among the processors to wait for,
  spins for the lock. In `labs`, `CallsEnd` says that a write does get its cell freed,
  whatever the readers do, unless another writer spins.

No line of the repository says otherwise, so it is no disagreement, but
`SensorFollowsOpen` needs a condition: once two processes had lab7's sensor open at once,
the second `enable_irq` only warned and both closes disable, so later opens get no
interrupt (`spin_interrupt.c:26`, `50`).

## Not modelled

* What happens after undefined behaviour whose outcomes cannot be listed: calls
  running in an unloaded module, an uninitialised page-table base (pid 0 first in the
  input), joining a thread that was not created, an increment past the array (only its
  occurrence is recorded).
* Failing allocations and copies in the drivers (except those whose result the code tests,
  and the memory of work items), failing `fork` and `pthread_create`.
* A failing `cdev_add` in lab3, after which init returns -1 and keeps the device numbers;
  a failing `request_irq` of the sensor list.
* Two conversions of the counters: a record fills `buffer[4]` without a terminator
  (`ku_tfred.c:30`, `ku_pfred.c:32`, `67`) and `atoi` is taken to stop at its end; the names
  of the queues are written past the one byte they are given (`ku_pfred.c:295`) and are taken
  to be stored whole.
* Unloading a module, or the binder, during a call.
* After unload the light of `ch5_mod.c` may stay on, since its timer can run after exit put it out;
  no line of the lab says it must be off.
* A left-over queue with a message in it: the constant `Leftovers` allows it, the code
  does nothing about it, and the `fred` run starts with an empty one only.
* Arithmetic on the volume, LEDs, menus, printing.
* Code without state that two actors share: lab1, lab5, lab12, the list exercises of
  lab3, the character drivers of lab2 (one process uses them, and a device holds a number
  at most), the switch of lab6 that init polls, the motors, the SPI and the speaker of
  lab9, the proc files and the buffer behind the sysfs file of lab11.
* `ku_mlfq.h`, a header without its scheduler.

## Plan

In this order; all are done.

1. `KuMmu` with `KuPaging`, its runs and `KuMmuProofs`.
2. `KuBinderReg`, `KuBinderQueue`, `KuBinderSys`.
3. `KuTfred`, `KuPfred`.
4. `SimpleBlock`, `SimpleRcu`, `SimpleRwlock`, `SimpleRculist`, `Ch3Mod`, `SimpleSpin`,
   `SpinInterrupt`, composed in `Labs`.
5. The labs that hand work to the kernel, in the same composition: `ModuleLife`.
6. The abstract service bus `KuBus` that `KuBinderSys` implements when servers start one
   at a time.
7. Proofs of the simulator, the binder and the counters, with both refinements.
8. Proofs about the labs, driver by driver: the messages of lab3, the wait queue of lab4, the
   memory and the list of lab8, the sensor list of lab7.
9. Proofs about `ModuleLife`: what its drivers hold, what may still run and what is ready.
