# TLA+ specifications of the Timber compiler

Timber compiles Spar (a parallel dialect of Java) through the intermediate
language Vnus to C++. Much of the repository is a set of sequential tree
transformations. The parts that run concurrently, or whose correctness depends
on long sequences of steps, are the run-time systems under
`src/compiler/backends/runtime`, the garbage collector under
`src/compiler/frontends/sparlib`, and the two engines that decide what runs
where: the SPMD mapper and the task scheduler. They are what is specified here.

In this file `runtime/` stands for `src/compiler/backends/runtime/` and
`engines/` for `src/compiler/engines/`.

## 1. Inventory

| Part | State | Operations | Modelled in |
|---|---|---|---|
| Embedded run time, `runtime/embedded/ensemble.c`: a Pentium host and Trimedia boards on a PCI bus | per processor a page of words others write (`BARRIER`, `INCOMING_REQUEST`, `OUTGOING_CONFIRM`), queues of transfers, a ring of DMA requests, staging buffers, stride-copy managers | `emb_barrier`, `emb_send`, `emb_recv`, `emb_fence`, `pio_write_remote`, the two queue machines, the DMA completion interrupt, the copying of strided sections | `EmbBarrier`, `EmbTransfer`, `Strides` |
| Spar collector, `src/compiler/frontends/sparlib/spar/compiler/GC.spar`, with the mark flags, block list and reference stack of `runtime/vnusalloc.cc` | blocks, marks, a bounded stack, an overflow flag | `collect` and its helpers | `SparGC` |
| Vnus allocator, `runtime/vnusalloc.cc` | byte count, threshold, limit, collection interval, emergency reserve | `vnus_alloc`, `vnus_free`, the array variants, `setTotalMemory`, `setMemoryLimit` | `VnusAlloc` |
| Threads, `runtime/glue/thread.cc`, `vnsupport.cc`, `ptclass.cc` | mailboxes, semaphores, two barriers, thread objects | send, receive, broadcast, barrier, start, end, teardown | `VnusThreads` |
| Panda and MPI glue, `runtime/glue/panda.cc`, `mpi.cc`, `mpihack.cc` | queues of messages under monitors, a list of messages to oneself | send, upcall, receive, broadcast, barrier | `Mailboxes`, used by `TaskPar` and `Spmd` |
| Task-parallel scheduler, `runtime/taskpar.cc` | a list of tasks by priority, a queue of early messages | `add_task`, `execute_tasks`, `tsend`, `treceive` | `TaskPar` |
| Multi-destination sends, `runtime/partsend.cc` | none, recursive | `vnus_send` over arrays of processors | `PartSend` |
| Vnus arithmetic and distributions, `runtime/vnusservice.*`, `vnusrtl.h` | none | division, Euclid's algorithm, local bounds of distributions | `Service`, `Sections` |
| SPMD mapper, `engines/mapper` | a syntax tree | passes from statements over distributed arrays to sends, receives and loops of every processor | `Sections`, `Mapper`, run by `Spmd` |
| Task scheduler, `engines/scheduler` | a task graph, heaps, the schedule | some forty scheduling algorithms, a simulator | `PrioHeap`, `TaskDag`, `ListSched`, `Clustering`, `LoadBalance`, `Engine` |
| PVM and PTM glue, array shapes and I/O, Spar front end, Vnus compiler, alignment engine, driver | libraries' or syntax trees | parse, check, flatten, generate | not modelled, see section 7 |

**How the parts interact.** The mapper turns a data-parallel program into one
program per processor; the task scheduler gives the tasks of a task-parallel
program their processors and priorities. The generated program calls the glue
layer (the thread, Panda, MPI or embedded variant) to move data and to meet at
barriers; `vnus_send` of an array of destinations goes through `partsend.cc`,
tasks through `taskpar.cc`, both on top of the glue. It calls the allocator for
every object. The allocator calls back into the Spar collector
(`VnusEventGarbageCollect`), which walks the allocator's block list and deletes
blocks; their destructors call `vnus_free`, in the middle of the `vnus_alloc`
that started it all. When nothing helps, the allocator raises an event
(`VnusEventOutOfMemory`), for whose handling it keeps a reserve.

**What is hard in each part, and what makes it correct.**

* *Embedded run time.* Words of shared pages are written by DMA engines, later
  than the processor issued the write; each word is reused from one barrier and
  one transfer to the next without a generation number; staging buffers are a
  window of `BUFFERS_PER_QUEUE`; the two ends of a transfer cut a strided section
  into fragments independently. Correct means: barriers separate, data arrives
  intact, nothing belonging to one element disturbs the next, every fence
  returns.
* *Collector.* The stack overflows and drops references; recovery passes over
  the block list must find everything again and must end. Correct means: what
  is deleted is exactly what is unreachable.
* *Allocator.* A collection changes count, reserve and emergency flag in the
  middle of an allocation. Correct means: the count is the memory handed out,
  and the reserve serves the out-of-memory event.
* *Threads.* Semaphores signal after giving up the lock; a receiver does not
  test its condition again; the main thread deletes everything. Correct means:
  messages arrive once and in order, no wakeup is lost, barriers separate, the
  program ends.
* *Glue and tasks.* Messages are matched by their order only: a receiver that
  is ahead or behind takes a message for another. Tasks keep messages that come
  too early. Correct means: each message reaches the call it was sent for, tasks
  run in the order of the schedule, the barrier of messages is a barrier, programs end.
* *Mapper.* The two ends of every transfer are compiled separately and must
  agree, without a word about it in the messages, which elements they carry and
  in which order, and when there is no message at all; the loop bounds of a
  processor are computed with rounded divisions and Euclid's algorithm. Correct
  means: the processors together do what the sequential program does.
* *Scheduler.* Tasks move between queues while others are scheduled; priorities
  of items inside heaps change. Correct means: no task is lost, and the schedule
  can be carried out.

`PROJECT.json` lists the hazards line by line.

## 2. Modules

| Module | What it is | Extends / instantiates |
|---|---|---|
| `Barrier` | abstract barrier: nobody leaves before all have entered; then all leave | |
| `EmbBarrier`, `EmbBarrier_proofs` | `emb_barrier` over words and DMA writes | refines `Barrier` |
| `Exchange` | abstract transfers: each element a rendezvous of its two fences | |
| `EmbTransfer`, `EmbTransfer_proofs`, `EmbContents_proofs` | `emb_send`, `emb_recv`, `emb_fence`, the queue machines, the DMA ring | refines `Exchange` |
| `Strides` | the stride-copy manager: sections cut into buffers | instantiated by the MC module of `EmbTransfer` |
| `Heap` | a mutator and a collector that frees only what is unreachable | |
| `SparGC`, `SparGC_proofs` | `collect()` on marks, stack and passes | extends and refines `Heap` |
| `VnusThreads`, `VnusThreads_proofs` | mailboxes, semaphores, barriers, teardown | its `vnus_barrier` refines `Barrier` |
| `VnusAlloc`, `VnusAlloc_proofs` | count, limits and emergencies of the allocator | |
| `Mailboxes` | messages of the Panda and MPI glue | |
| `PartSend` | destinations of a `vnus_send` | |
| `TaskPar`, `TaskPar_proofs` | programs with sends, barriers and tasks | extends `Mailboxes`, `PartSend`; its barrier refines `Barrier` |
| `Service`, `Sections` | divisions, distributions and local loop bounds | |
| `Mapper` | what the mapper makes of a statement for a processor | extends `Sections`, `PartSend` |
| `Spmd` | the compiled programs running | extends `Mapper`, `Mailboxes` |
| `PrioHeap`, `TaskDag` | heaps of priorities; task graphs, times, levels | |
| `ListSched` | the list schedulers and the ordering of mapped tasks | extends `TaskDag` |
| `Clustering` | the first steps DSC and LC, the mergings GLB, SAR and WCM | extends `ListSched` |
| `LoadBalance` | FLB-f and LLB, whose tasks move between queues | extends `Clustering` |
| `Engine` | one run of the engine and the simulator | extends `LoadBalance`, refines `Schedule` |
| `Schedule`, `Schedule_proofs` | abstract scheduling: tasks are added where they can run | |

Each `MC...` module holds the programs, heaps, graphs or settings that the
`.cfg` files with its name give to TLC. Definitions marked *Mutant* are
deliberately wrong variants of the operator that follows them. No specification
uses them; they serve to show that a property would notice that mistake.

## 3. The models and the code

### EmbBarrier (`ensemble.c` 1486-1560, `pio_write_remote` 601-676)

`arrive[w]` is `BARRIER[w]` on the page of processor 0, `go[w]` is `BARRIER[0]`
on the page of worker `w`. A remote write of a Trimedia is appended to
`arriveDma`/`goDma` and performed by `ArriveLands`/`GoLands` at any later time;
if processor 0 is the Pentium its writes are stores (`hostType`). The four
loops of processor 0 are `HostSees`/`HostTells` iterations; polling that finds
nothing changes no state. `enter` and `leave` are the code's own counters
`BARRIER_ENTER` and `BARRIER_LEAVE`.

### EmbTransfer (`ensemble.c` 1643-2556, 2590-2780, DMA 175-426)

For the link from `s` to `d`, `out[l]` is `outgoing[d]` at `s` and `in[l]` is
`incoming[s]` at `d`; `request[l]` and `confirm[l]` are the two words they
share. `st` holds the very state numbers of the two `switch` statements, so
`OutCall(l, 202)` is a call of `emb_process_outgoing` that ends up in
`case 202`. The combinations of contiguous and strided ends select the cases:

| Sender / receiver | Cases at the sender | at the receiver |
|---|---|---|
| Trimedia, packed into a buffer, put into a buffer | 202 | 202 |
| Trimedia, packed, put into user memory | 201 | 298 |
| Trimedia, straight from user memory to a buffer | 203 | 202 |
| Trimedia, user memory to user memory, one put | 200 (here 204) | 298 |
| Pentium to Trimedia, announced and fetched | 302 | 302, 303 |
| to itself | 100, 101 | skipped |

A DMA request copies fragment by fragment, then writes a word of another
processor, then runs the completion interrupt: `DmaCopy`, `DmaWord`,
`DmaComplete`, each a step of its own. A memory cell holds the *name* of the
cell its content comes from, so a buffer reused too early shows as a wrong name
in the receiver's memory.

The address that a request for a direct put carries is a number below which the
two mask bits are free: 4 times a number that `Address` makes of fence and
element. A fence has at most `MAX_QUEUE_ELM` elements of a link, as `emb_send` and
`emb_recv` assert, so that different elements have different addresses.

Taken for granted: the DMA engine is first-in first-out (external); the counter
`in_use` is atomic; both ends register the same elements and cut them into the
same number of fragments; polling order is left open, which allows more than
the round-robin loop does. A first call that posts its request and polls at
once is two steps; the poll finds nothing because the confirm word is 0 then,
which is the part `IdleWords` of the checked property `WritesCurrent`.

### Strides (`ensemble.c` 769-1000, 1028-1270)

`setup_scs` collapses the dimensions of a section that lie next to each other
in memory and makes an innermost dimension of words; `CopyBuffer` is one call of
`do_memcpy_stride_to_linear` or `do_memcpy_linear_to_stride`, which go through
a section in the same way. `EndOf` compares the fragments of one end with the order
of the elements, and `SectionArrives` says that both ends keep that order and cut
it alike. The MC module of `EmbTransfer` derives the
elements that its programs transfer from pairs of sections, so that what is
taken for granted there, that both ends see as many fragments, is checked here.
Ends whose elements do not divide a buffer are left out (`Fills`): a contiguous
end cuts by bytes and a strided one by elements, and they disagree.

### Heap and SparGC (`GC.spar` 53-130, `vnusalloc.cc` 355-436, 504-560)

`chain` is the existence of the root chain, `marked` the blocks with
`GCFLAG_MARK`, `stack` and `overflow` the reference stack. There is one action
per iteration of each loop: `NextReference` (roots), `Drain` (stack),
`NextBlock` (recovery pass), `PassDone` (the `while` on overflow),
`DeleteBlock` (sweep). The order of roots, list, fields and stack is left
open; the stack is a set because an object is pushed only when it is unmarked,
so it is on the stack at most once. `PushAll` pushes a set of references and,
when the stack fills up, drops any of the remaining ones. Between collections
the mutator of `Heap` allocates, stores, erases, loads and forgets what it can
reach. Finalizers are not modelled: the front end never generates any
(`prettyprint.c` 2334-2338).

### VnusThreads (`vnsupport.cc` 28-252, `thread.cc`, `ptclass.cc`)

Every program is a sequence of calls per thread. A critical section is one
step. `pthread_cond_wait` puts the thread in `asleep` or `sleepers`; it goes on
after it has been taken out, by a signal, a broadcast or, with `Spurious`, by
itself (`WakeUp`). Note what happens outside the locks and is a step of its
own here: `signal()` after the message is appended, the signal on the condition
after the unlock, the broadcast of the last thread at a barrier. `waiting` is
the semaphore's counter with the sign the code gives it: positive when someone
waits. The main thread is thread `N`: it starts the threads, meets in
`finalBarrier`, and then deletes everything. Assumed: one receiver per mailbox
(the thread it belongs to), which the programs guarantee by construction, and
no failing pthread call.

### VnusAlloc (`vnusalloc.cc` 93-315, 573-616)

One call takes several steps because a collection in the middle of it frees
blocks one by one, each with its own `vnus_free` that may end the emergency or
take a new reserve. `pc` names the place in the call. `malloc` fails exactly
when `Capacity` is used up. Arithmetic is that of `unsigned long`, modulo
`Word`. `reserved`, `unreserved` and `drawn` are history variables that record
whether emergencies had a reserve and what has been handed out in one. After
the event the program simply goes on. An array is freed by the destructor of
the block that holds it, so a collection frees an array only while a block is
left to do so (`HasHolder`).

### Mailboxes and PartSend (`panda.cc`, `mpi.cc`, `mpihack.cc`, `partsend.cc`)

`wire` holds the messages inside Panda or MPI, which are external, ordered per
pair of processors and reliable. In Panda `Upcall` (`handle_msg`) moves a
message to `queue` in one critical section and wakes the receiver, which `Sleep`
had put to sleep in `msg_q_deq`; the loop there tests again, so unsignalled
returns change nothing. In MPI a receive takes from the wire, except for
messages to oneself, which are in the list `hack`, last in, first out. When that
list is empty `Hack_Recv` asserts (`NoneKept`) instead of waiting: `VnusReceive` takes
nothing then, and `TaskPar` goes to `error`. (No program of the runs gets there:
messages to oneself are sent before they are received.)
`SendPartial` is the recursion of `vnus_send_partial` over the dimensions.

### TaskPar (`taskpar.cc`, `panda.cc` 206-301)

A processor goes through its calls, then through its tasks. `pc` is where it is
in the function of the run-time system it has called. `tsend` is two sends
(`TSendSize`, `TSendMessage`); `treceive` looks in `theQueue` first and then
takes sizes and messages, keeping what is for another task. After its calls a
processor puts all tasks in its list, one by one (`AddTask`), and then runs those
that are mapped to it. `next` is the place of `theTaskQueue.next`. `received` is a
history variable: what each task has received. `ProgramAssumption` gives the shape of
a program, `MatchAssumption` that its sends and receives match: before its tasks a
processor takes as many messages of each other one as that one sends it, counting
the bytes of the Panda barrier; `RoundAssumption` that what is sent to or by processor
0 before a barrier is taken before it (see the end of section 5). A message of a kind that was not asked for ends the program on MPI (`error`),
where its size is compared.

### Service, Sections, Mapper, Spmd (`vnusservice.*`, `vnusrtl.h`, `engines/mapper`)

`Sections` computes the rounds of a loop that a processor has: `vnus_blus` and
its kin, with the arithmetic of `Service`, in which quotients are rounded as C
rounds them. `Visits` is the nest of loops that `applyoa5` makes of a nest with
linear conditions, which are absorbed one after the other. `Mapper` follows the
passes in the order of `spmd.cc`: `clear_on` (which operands are remote), `breakout`
(a remote operand inside an expression is first assigned to itself at the owners of
the result), `red1` (a reduction),
`ca2`, `ca3` (transfers of a whole loop: `SendLoop`, `ReceiveLoop`), `ot2` (one
element at a time), `oa5`, `io3`. `Compiled(s, p)` is what remains of statement
`s` on processor `p`. `Spmd` runs this code: `code[p]` is compiled in the initial
state; sends, receives and computations interleave over `Mailboxes`. Every
element that a processor does not own holds `Stale` there.

### PrioHeap, TaskDag, ListSched, Clustering, LoadBalance, Engine (`engines/scheduler`)

A priority is a triple compared as a fraction and a second number (`Key`), as
the comparison functions of the nodes do it; the heap operations keep the
positions of the code, so ties are broken as in the code. `item` is what
`AddTask` stores, `unscheduled` counts predecessors. One action is one call of
`ScheduleTask` (`ETFScheduleTask`, ...) or of `UpdateTaskLists` (`Update`,
`FLBUpdate`, `LLBUpdate`). `LoadBalance` has the two algorithms whose tasks
move between queues. Levels that the code reads before it stores them are
`NONE` (-1) here as there.

`Schedule()` of `ScheduleDAG.C` may work in two steps. `virt` is the first one,
on processors that exist only for it: `clusters` in their order, where each task
is (`at`), and for DSC its two heaps, its levels and `start_time`, a member that
is read before it is set in some orders; a nondeterministic value stands for
it then. `mapping` is the processor that the second step decides on for each
task, and `OrderTask` of `ListSched` the ordering of what is mapped. The
priorities that a step leaves behind in a node are read by the next one, as in the code.

`Engine` chooses graph and algorithm, runs the scheduler and then the simulator,
one task at a time. `Schedule` is the abstract specification: a task is added
behind what its processor has and when its messages can be there, and nothing
that was decided changes.

## 4. Runs

| Run | Instance | What it shows |
|---|---|---|
| `emb_barrier` | 4 processors, 3 rounds, both kinds of host | `TypeOK` (at most one outstanding write per word), `Separates`, `Returns`, refinement of `Barrier` with its fairness |
| `transfer` | two Trimedias, a Pentium and a Trimedia, a ring of three with overlapping fences; `BPQ` 2; up to 6 fragments per element | `TypeOK` with `CountersAgree` and `DmaRing`, `NoLateAccess`, `WritesCurrent`, refinement of `Exchange`, `Completes`; `SectionsArrive` for sections of one to three dimensions |
| `gc` | 4 objects, stack of 1, up to 3 fields, 3 mutator steps, from chosen heaps and from the empty one | `TypeOK`, `NoDangling`, `MarksExact`, refinement of `Heap`, `CollectReturns` |
| `threads` | 3 threads; 4 programs with signalled wakeups, 2 with unsignalled ones | `TypeOK`, `InOrder`, `NoLostWakeup`, refinement of `Barrier`, `Finishes` |
| `alloc` | 3 names, sizes 1 and 3, capacity 6, limits 0, 8, 14 | `TypeOK`, `AccountsExact`, `EmergencyServed`, `LimitsOrdered` |
| `taskpar` | 3 processors, Panda and MPI, programs with tasks, multicasts and barriers | `TypeOK`, `Delivered`, `TasksInOrder`, refinement of `Barrier`, `Finishes` |
| `spmd` | 4 processors as 2 x 2, programs over all distributions | `TypeOK`, `OwnVisited`, `Matched`, `Assigned`, `Finishes` |
| `engine` | all schedulers modelled, all graphs of 4 tasks, a fork-join and a crossing of 6, two or three processors | `TypeOK` with `HeapOrdered`, `QueuesAgree`, `Complete` with `ClustersKept`, `SimulatedInTime`, `EarliestFirst`, refinement of `Schedule` |
| `threads_teardown` | 2 threads | violation of `TeardownSafe` |
| `alloc_unreserved` | as `alloc` | violation of `CountsOutstanding` |
| `taskpar_self_send` | one task that sends to its own processor, MPI | violation of `SizesFirst` |
| `spmd_reversed` | a loop from the end of a block distribution | violation of `OwnVisited` |

**Bounds, and why they are enough.** Three barrier rounds are one more than it
takes for a stale write of one barrier to meet the barrier after the next, and
three workers show every overlap of one noticed, one current, one unnoticed
worker. With `BPQ` 2, six fragments reuse each staging buffer three times (the
code has the same window arithmetic for any `BPQ`); a second element on the
same link is what tells state left over from the first. Three processors are
the least for a cyclic wait that is not a direct one. Buffers of eight bytes are
smaller than a row, as large as one, and not a multiple of one, for the sections
that `SectionsArrive` goes through. A stack of one entry overflows as soon as
an object has two references; a larger one only delays this, and the proofs
cover every size. `MaxMutations` bounds the length of the program and
`MaxFields` the out-degree. For the allocator the sizes are chosen so that one
request exhausts either the limit, or the memory, or exactly the reserve; limit
0 is the code's default, 8 is so low that the reserve fits only beside an empty
heap, 14 is above the capacity. `EMERGENCY_SIZE`, `OVERHEAD`, `MIN_MAXMEM` and
the hundredth part of `collect_interval` are scaled down together with it.
`Block` bounds the number of things allocated at a time (guard of `Begin`),
`Word` is the modulus, larger than any intermediate value of a correct count.
For `taskpar` three processors let messages of two senders overtake each other
at the third, and `MaxRounds` 2 lets a byte of one barrier meet the next. In
`spmd` two processors per dimension tell an owner from a neighbour, and
coefficients, bounds and block sizes are chosen so that the last block is
short, empty, or beyond the end. For the `engine` every order of four tasks
occurs, six are needed for two ready tasks to change places in a queue while a
third is scheduled; weights are multiples of the speeds, so that no division
rounds. Speed 3 beside 1 makes a later processor the better one. `MaxTime` 60 is
later than any schedule of these graphs ends. Heaps of six items, which
`RemoveItem` may leave out of order (section 5), do not occur in it.

**Symmetry** is used for the names in `alloc` and `alloc_unreserved` only,
neither of which checks liveness. Deadlock is checked everywhere except in
`emb_barrier`, where the system stops after `MaxRounds`; elsewhere terminated
states have a stuttering action.

**Fairness.** Embedded: the loop of `emb_fence` calls every machine with work
left again and again, a processor in `emb_barrier` only polls and writes, a DMA
engine performs what it was given. All are weakly fair, per processor and per
engine, because the loops do not skip anyone. Entering a barrier is up to the
program and not fair in `EmbBarrier`; registering and entering a fence is fair
in `EmbTransfer`, whose programs run to their end. Collector: `collect()` is a
loop that runs on (`WF` of its steps); the program need not take a step.
Threads: the operating system runs every thread that can run (`WF` per thread
and per start of one). `TaskPar` and `Spmd`: each processor runs on, and each
message that was sent is delivered at some time (`WF` per process and per
delivery). The `engine` is a sequential program: that it ends shows in
`Complete`, which always finds the simulator a task to run. No strong fairness is
assumed anywhere.

## 5. Disagreements between the code and its comments

Each of the first four is a run.

1. `threads_teardown`: the main thread deletes `finalBarrier` while threads may
   still be inside `meet()`; the comment at `glue/vnsupport.cc` 25-26 says the
   last one lets the others resume.
2. `alloc_unreserved`: `declare_emergency` subtracts `EMERGENCY_SIZE` even if
   there was no emergency block, which is always so without a memory limit.
   `AccountsExact`, checked in `alloc`, holds as long as this does not happen.
3. `taskpar_self_send`: on MPI, messages of a processor to itself come out in
   reverse order (`glue/mpihack.cc` 21), so that `treceive` takes the message
   for its size.
4. `spmd_reversed`: `vnus_blus` (`runtime/vnusrtl.h` 98) with a negative
   coefficient visits the first element of the neighbour and leaves out its own.

Met on the way, without a run of their own:

* `meet()` and `VnusSemaphore::wait()` (`glue/vnsupport.cc`) wait once and do not
  test their condition again, so a condition wait that returns unsignalled, as
  POSIX permits, lets a thread through a barrier early, or lets a receiver take
  from an empty list. The order of what is received stays right (the programs
  with unsignalled returns in `threads`).
* `taskpar.cc` 289-292, the comment of the list of tasks, says "Higher priority goes
  first"; `append` (309) sorts upwards, so the lower number runs first. The other side
  needs that: `tm_gen` (`tm_gen.cc` 22) makes the number the place of the task in the
  schedule. `TasksInOrder` states what `append` does, and its comment the disagreement.
* The Panda barrier takes its bytes from the queues of the data messages
  (`glue/panda.cc` 275-291). `refman.tex` 814-815 describes the barrier without
  such a restriction; `AbstractSpec` of `taskpar` holds for programs that have
  received what was sent to them (`RoundAssumption`, which the proof shows to be enough).
* Ends of a transfer whose elements do not divide a buffer cut it differently
  (`embedded/ensemble.c` 876-880).
* `get_first_iteration` (`engines/scheduler`, `tm2dag.ct` 388) tests the bound of
  the outermost loop for every loop.
* Scheduler. `Heap::RemoveItem` (`data/Heap.C` 63) lets the last item only go
  down from the place of the removed one: the heap 10, 5, 9, 4, 3, 8 is out of
  order after removing 4. FLB compares finish times where its comment speaks of
  start times. `LSA1Scheduling.C` 104 uses the priority of another task.
  `OrderTasks_EST` takes the largest `order_prio`. The comparison of `FCP_f`
  uses `<=`, so equal tasks are both more important than each other. `FFF_p` has
  no case in `DAG::AddNode`. `LSA2` asks for the processor `NONE` of an entry
  task. DPS schedules the ancestors of one exit only. FDLS removes the tasks
  whose last message comes late, FLB those whose last message comes early.
* Clusterings. In DSC `TryMappingPred` ("Bugs here" in the code) returns only
  the arrivals of the candidates it did not move, and adds the start of a moved
  task to the level twice; a new cluster starts at `t_level`, which leaves out
  the message. The start times of DSC are therefore no schedule; what is checked
  of DSC is its clusters. `MakePredList` leaves out the weight of the edge that
  its comment has. `start_time` is read before it is set when the cluster of the
  first predecessor is forbidden; on these graphs no decision depends on it.
  In WCM `limit` ends as zero with as many clusters of at least average load as
  processors, and the next statement divides by it (`WCMScheduling.C` 81-96).
  With SAR the ordering RCP uses the priorities that SAR has computed before the
  tasks were mapped (`PrioDAGNode.C` 20). LC followed by LLB ends in
  `LLBNode::GetPrio`, which has no case for it.
* The request of the allocator is tested against the limit before the collection
  for the threshold; that collection may take a reserve, so the count can pass
  the limit by less than the reserve.

## 6. Proofs

`tlapm` checks these for every value of the constants that satisfies the named
assumptions.

| Theorem | States |
|---|---|
| `EmbBarrier_proofs!TypeCorrect` | types; at most one write to a word outstanding |
| `EmbBarrier_proofs!BarrierSeparates` | `[]Separates` for every `N` and both hosts |
| `EmbBarrier_proofs!BarrierImplemented` | `emb_barrier` implements the initial states and steps of `Barrier` |
| `EmbTransfer_proofs!Inductive` | `[]IInv`: words, counters and rings fit the phase of each element |
| `EmbTransfer_proofs!TypeCorrect` | types; counters within the window of buffers; at most `2 * BPQ + 1` requests in a DMA ring for each other processor |
| `EmbTransfer_proofs!NoLateAccessAlways` | `[]NoLateAccess` for all programs and any number of processors and buffers |
| `EmbTransfer_proofs!WritesCurrentAlways` | `[]WritesCurrent`, likewise |
| `EmbContents_proofs!ContentsAlways` | `[]Contents`: every fragment is where the words say, what the sender has passed has arrived |
| `EmbContents_proofs!TransfersImplemented` | `EmbTransfer` implements `Exchange`: `AbstractSpec`, likewise |
| `SparGC_proofs!TypeCorrect` | types; the stack stays within `StackSize` |
| `SparGC_proofs!CollectorSafe` | `[]NoDangling` |
| `SparGC_proofs!CollectorExact` | `[]MarksExact` |
| `SparGC_proofs!RecoveryHasRoots` | `[]RootsMarked` |
| `SparGC_proofs!CollectorImplements` | `SparGC` implements `Heap` |
| `VnusThreads_proofs!TypeCorrect` | types of threads, mailboxes and semaphores |
| `VnusThreads_proofs!NoLostWakeupAlways` | `[]NoLostWakeup` for every `N` and all programs |
| `VnusThreads_proofs!InOrderAlways` | `[]InOrder`: unless a wait returns unsignalled, each `receive` gets its message |
| `VnusThreads_proofs!BarrierSeparates` | unless a wait returns unsignalled, `vnus_barrier` separates |
| `VnusThreads_proofs!BarrierImplemented` | unless a wait returns unsignalled, `vnus_barrier` implements the initial states and steps of `Barrier` |
| `TaskPar_proofs!TypeCorrect` | types; nobody sleeps beside a message |
| `TaskPar_proofs!DeliveredAlways` | `[]Delivered` for every `N`, both glues and all matching programs |
| `TaskPar_proofs!TasksInOrderAlways` | `[]TasksInOrder`, likewise: one queue in all processors, run upwards and to its end |
| `TaskPar_proofs!BarrierImplemented` | `vnus_barrier` of Panda, and that of MPI, implement the initial states and steps of `Barrier` |
| `VnusAlloc_proofs!TypeCorrect` | types; no reserve in an emergency |
| `VnusAlloc_proofs!LimitsOrderedAlways` | `[]LimitsOrdered` for all settings |
| `VnusAlloc_proofs!AccountsExactAlways` | `[]AccountsExact` for all requests and settings |
| `VnusAlloc_proofs!EmergencyServedAlways` | `[]EmergencyServed`, likewise |
| `Schedule_proofs!FeasibleAlways` | no two tasks overlap on a processor, messages are in time |
| `Schedule_proofs!DecidedAlways` | nothing that was decided changes |

*Barrier.* `Separates` says nothing of the words, so it is not inductive. `IInv`
adds for each worker its phase as seen from processor 0 (not yet noticed, held,
freed, answered, cleared), which follows from processor 0's loop and the
position of `i`; the phase fixes the worker's program counter, both words, both
sets of pending writes, and both counters. The proof that a step preserves it
has a case per action, and within it a case for the worker it touches and for
the others. Assumptions: `N` and `MaxRounds` are natural numbers, `N > 0`.
That `emb_barrier` implements `Barrier` (`BarrierImplemented`) follows: entering is
the abstract `Enter`; `HostLeave` and `WorkerLeave` are the abstract `Leave`, for
which the phases give that all have entered; every other step leaves both counters
alone.

*Transfers.* An element of a link goes through three phases, in this order: the
receiver has asked for it (`Asked`), the sender works on it (`Active`), the sender
has passed it (`Passed`) and the receiver follows. `OrderInv` says that neither
end is ever out of this order, for all elements of all fences, so both ends of
an active link are at the same element. Within a phase the words and counters
are related through the requests that are still in a DMA ring: numbering the
values that a word takes one after the other (`Rank`: first, 2, 3, ..., 0), the
requests of one kind for one link are a *run* (`Run`) with ranks above the one
that has landed and up to the one that was issued last. So
`Taken <= confirm <= Given <= Wanted - 1 + BPQ` and `Wanted <= Taken + 1` hold
whatever order the engines run in, and an empty interval of ranks means that
nothing is under way. The four ways to receive (put into user memory, put into
buffers, fetched to user memory, fetched to buffers) have the same invariant with
other counters (`Zero`, `Gets`, `Fetches`). A step that leaves the oldest request
out of a ring, or appends to it, keeps the runs of all other links, as their part
of the ring is embedded in the old one (`Embeds`); hence each action is proved
for its own link, and four frame lemmas (`LinkFrame`, `EndFrame`, `ProcFrame`,
`EngineFrame`) do the others. `NoLateAccess` follows because a request that reads
or writes an element is one of a run that is not yet over in that phase;
`WritesCurrent` because the run of confirmations is empty when the receiver has
passed. For the length of a ring each request is given a slot: 1 to `BPQ` for
what the sender put (at most `BPQ` are outstanding), `BPQ + 1` to `2 * BPQ` for what
the receiver issued, one more for the oldest request, which may have lost its
word; with the processor at the other end this is an injection into a set of
`(Cardinality(Proc) - 1) * (2 * BPQ + 1)` pairs. With the code's five processors
and three buffers these are 28, and the ring has 100 places. `IInv` was first
checked by TLC on the instance of the run `transfer`, where it holds in all 44372
states. Assumptions: `Proc` is finite, `BPQ` is positive, and a program registers
the same elements at both ends, at most `MAX_QUEUE_ELM` per link and fence, with at
most one Pentium (`ProcAssumption`, `BpqAssumption`, `ProgramAssumption`).
`EmbTransfer_proofs` has the invariant and the calls of the two machines first, then
the rest.

*Contents of transfers.* `Exchange` says that an element has arrived when its sender
is through with it, and `IInv` knows counters but no memory. `Contents` says, for
the element a link works on, where each fragment is. Fragments below the receiver's
`unpacked` are in its user memory. From there up to those that the engines have been
told to bring (`Issued`), a fragment is on its way or, when no copy to its place is left
in a ring, in that place, which is a staging buffer or, for direct transfers, user
memory (`PartInv`). A copy in a ring is one of such a fragment, from the sender's
memory or from a buffer that still holds it, and carries the number that its
confirmation will have (`MoveInv`, `Brings`). The Pentium's buffers hold what it
has announced and nobody has fetched (`HoldInv`). What the sender is through with is
in the receiver's memory (`DoneInv`), and stays there. The heart of the proof is
`WindowOpen`: when the sender may fill buffer `n % BPQ` again, the counters of `IInv`
place every fragment that is still needed less than `BPQ` before `n`, and such
fragments use other buffers (`BuffersApart`); so the test of the window in
`emb_process_outgoing` is what the data depends on, and not only the counters. TLC
checked `Contents` in all states of the run `transfer` first. In the refinement
(`TransfersImplemented`) `OutFinish`, and the last `SelfUnpack` of an element that a
processor sends to itself, are the abstract `Transfer`; `InFinish` is `Receive`,
`LeaveFence` is `Pass`; all other steps, those of the DMA engines too, are
stuttering steps. `Exchange` has no fairness, so this is all of `AbstractSpec`.

*Collector.* `NoDangling` needs to know how far marking has come. `IInv` says:
marked objects are reachable; every root is marked or still ahead; a marked
object that refers to an unmarked one is on the stack, or ahead of the pass
over the blocks, or the overflow flag is set. When a pass ends without
overflow, the marked set is closed under references and contains the roots,
hence contains the reachable objects, the least such set. Assumptions: `Obj`
finite, `StackSize` positive, the initial heaps well-formed. Finiteness is used
for the cardinality of the stack only.

*Threads.* `waiting` of a semaphore mixes receivers and messages, and a signal
comes in a step of its own. `IInv` says what it counts: one for a receiver
inside the semaphore, one for a sender about to signal, minus the messages in
the list. From this follows that a receiver that sleeps has at most as many
messages beside it as the sender is about to signal or notify, hence
`NoLostWakeup`. Unless a wait returned unsignalled, whoever is through the wait
and the sender about to signal each have a message of their own, and whoever is
notified sleeps beside one; so `take` never finds an empty list, and what was
sent is at any time what was received followed by the list, hence `InOrder`.
Assumptions: `N` is positive (`NAssumption`), and a program consists of
sends, receives and barriers with partners among the threads
(`ProgramAssumption`).

*Thread barrier.* In round `k` a thread has left `k` times, or is on its way out
of the `k`-th barrier, or sleeps in the next one, and the counter is the number
of threads asleep. The one that raises it to `N` is the
only one awake in front of the barrier, so all the others are asleep there and
have entered. The lemmas about the cardinality of the set of sleepers are those
of `FiniteSetTheorems`. For `BarrierImplemented` a second invariant, `Counts`, says
that the rounds a thread has entered are the barrier calls of its program that it
has begun; with `MaxRoundsAssumption` (no program has more than `MaxRounds` of them)
the abstract `Enter` is possible whenever a thread arrives. The broadcast of the last
thread, the wakings and everything outside the barrier are stuttering steps.

*Tasks and messages.* What one processor sends another is one stream, `queue` followed
by `wire`, and how far a task is says nothing of it directly. `IInv` says what a
stream looks like: first plain messages, as many as the sender has sent in its
calls and the receiver has not yet taken in its own (`Gave`, `Took`, `Ahead`, counted
as sets of pairs of a call and a number in it), then sizes and messages in
turn, where the first is a message only while the receiver is between the two
(`Due`), and the last a size only while the sender is (`Latest`, `Good`, `Flow`). By
`MatchAssumption` nothing is ahead once both are through with their calls, so a task
never takes a message of the calls for a size. Along `received`, `theQueue` and the
stream the messages from one task to another have the numbers of the calls that
sent them, growing, and are all of those (`Chain`); this is an invariant because
`treceive` looks in `theQueue` first and takes the oldest match, and there is none
in it while it takes messages from the stream (`EarlyInv`). That theTaskQueue holds
exactly the tasks added, sorted (`SortedInv`), follows from the place at which
`append` inserts; that all processors have the same queue, from there being one way to
sort the tasks (`SortedOnce`: the first place at which two queues differ would put each
of two tasks before the other). Messages to oneself on MPI lie in a list of their own, last in,
first out; in it every size is behind its message (`HackInv`), so a `treceive`
from it ends the program, which is the finding of `taskpar_self_send`: `Delivered`
excludes such pairs and programs that have ended. TLC checked `IInv` on all 54947
states of the run `taskpar`, and on a program with messages to oneself.
Assumptions: `NAssumption`, `ProgramAssumption`, `MatchAssumption`.

*Message barrier.* The bytes of the Panda barrier are among the counted messages, and
`Ahead` does not tell them from data. `RoundInv` says that each processor has entered
and left as many barriers as are in front of its next call, that nobody is behind a
barrier which processor 0 has left, and that those whose byte processor 0 has collected
have entered. That a byte taken is one of this barrier and not data or a byte of an
earlier one is a matter of counting (`NotBehind`): all that a sender gave before its own
k-th barrier the receiver took before its k-th (`RoundAssumption`), so if more was given
than taken, the sender has begun its k-th. Hence an answer from processor 0 means
that all have entered, and every departure is the abstract `Leave`. TLC checked
`RoundInv` on the run `taskpar` too. For MPI the barrier is external and the theorem
is about the rounds only.

*Allocator.* `IInv` is the types, `LimitsOrdered` and `NoReserve`. Arithmetic
modulo `Word` keeps the count a word whatever is freed; that the reserve is gone
in an emergency holds because `declare_emergency`, which alone begins one, gives
it up, and a new one is taken only when there is no emergency. Assumptions:
settings are words, and those the program starts with are ordered
(`SettingsAssumption`). `AccountsExact` and `EmergencyServed` need what `malloc`
does: `Memory` says that all blocks and the reserve are within `Capacity`, so that
the count, with the overhead of every block, never wraps (`BlockAssumption`: the
address space holds all of it); that the count is what is handed out; and that in an
emergency with a reserve at least the reserve without what has been drawn is left.
The bytes of a heap are a set of pairs of block and position, so that one block more
or less is a matter of `FS_Union`.

*Schedule.* The theorems are about the abstract specification; the `engine` run
shows that each scheduler implements it, so that together they say what every
intermediate schedule of these algorithms is. `IInv` is `Feasible` and the shape
of the variables. A new task starts behind what its processor has, which keeps
tasks apart; that its predecessors are placed means that no task placed earlier
waits for it, which keeps the messages of the others in time. Assumption: edges
join tasks of their graph (`GraphsOK`).

*Only model-checked.* Liveness (`Returns`, `Completes`, `CollectReturns`,
`Finishes`) and refinement with fairness are out of the prover's reach.
`Strides`, `Sections`, `Mapper`, `Spmd`, `TaskDag` and all that extends them use
recursive operators or are functions evaluated over given inputs, which no
installed prover handles by induction. Of the three refinements of `Barrier` the
fairness (everyone who can leave does) is model-checked, the steps are proved.

## 7. Not modelled, and why

* The Spar front end, the Vnus compiler and the alignment engine: sequential
  rewriting of syntax trees, some 60,000 lines. Their correctness is a matter of
  the languages' semantics; there is no state that several steps share.
* PVM and PTM glue: the calls are those of MPI with other names. Array shapes,
  string and file I/O of the run time, `spar-rtl`: data and operating system.
* Embedded run time: address translation and set-up of the boards are
  operating-system calls; nothing in the repository calls `emb_barrier2` and
  `emb_pbarrier`. The interrupt between the read and the write of
  `dma_queue.in_use` (`ensemble.c` 228) depends on the TriMedia compiler's code,
  which is not in the repository.
* The race of `thisProcessor()` with `pthread_create` (`vnsupport.cc` 205-214),
  and the globals of `taskpar.cc` that threads of one process would share.
* The marking methods and root chains that the front end generates
  (`prettyprint.c` 2687): the environment of `SparGC`, which assumes they
  enumerate all references.
* Mapper: the passes that clean up, lift conditions or aggregate loops without
  changing what is sent; the task-parallel pass.
* Scheduler: `FLB_p`, `FDLS` and `FFF`; the path for processors of different
  speeds as several equal ones and the option to reorder a schedule
  (`ScheduleDAG.C` 172-255); reading graphs from Vnus and writing the result back.
* Statistics, tracing, stall detection, `SPAR_MAXMEM`.

## 8. Plan

| | Module | Question |
|---|---|---|
| done | `EmbBarrier`, `EmbTransfer`, `Strides`, `SparGC`, `VnusThreads`, `VnusAlloc`, `Mailboxes`, `PartSend`, `TaskPar`, `Service`, `Sections`, `Mapper`, `Spmd`, `PrioHeap`, `TaskDag`, `ListSched`, `Clustering`, `LoadBalance`, `Engine`, `Schedule` | sections 3 to 6 |
| 1 | `VnusAlloc` with `SparGC` | collections of the allocator are those of the collector; the limit is passed by less than the reserve |
| 2 | `ListSched`, `LoadBalance` | `FLB_p`, `FDLS`, `FFF` and the path for different speeds |
| 3 | `VnusThreads` | the thread id is stored before it is needed, or not |
| 4 | `Engine` | graphs with six ready tasks, for `RemoveItem` |

Theorems worth proving: `SectionsArrive` of the run `transfer`, which needs `Contents`
together with what the stride-copy manager makes of a section; `Matched` of `Spmd`,
once its loops are recursive functions.
