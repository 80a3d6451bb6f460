# gvthread: TLA+ models and proofs

gvthread is a runtime for green threads ("GVThreads") on x86-64 and aarch64
Linux, with blocking I/O on one io_uring per worker, and KSVC, a service that
executes system calls for GVThreads. This directory models the parts of both in
which threads meet, checks the models with TLC on small instances and proves
the main invariants with TLAPS for all instances.

`PROJECT.json` holds the machine-readable side: the components, the runs, the
source lines of each definition, the findings, the hazards and the theorems.

## 1. The system

Paths are relative to `src/crates/` unless they begin with `src/`.

| part | state | operations | meets |
|---|---|---|---|
| Ready queue (`gvthread-runtime/src/ready_queue/simple.rs`) | a bounded local queue per worker, an unbounded global queue, a counter of parked workers, a condition variable | push, pop (with refill and stealing), park, wake_one, wake_all | all workers, spawners, timer thread |
| Scheduler (`gvthread-runtime/src/scheduler.rs`) | state of each GVThread, saved registers, the running flag | spawn, worker_main_loop, run_gvthread, yield_now, block_current, wake_gvthread, mark_finished, shutdown | everything |
| Slot memory and allocator (`gvthread-runtime/src/memory/unix.rs`, `gvthread-core/src/slot.rs`) | metadata page per slot; free stack, next fresh slot, counter | activate, deactivate; allocate, release, release_batch | spawn, mark_finished |
| Sleep queue and timer thread (`gvthread-runtime/src/timer/mod.rs`) | heap of (time, id, generation), a watch per worker | sleep, process_sleep_queue, stall detection | wake_gvthread, the workers' activity counters |
| Worker reactor (`ksvc-gvthread/src/worker_reactor.rs`, `syscall.rs`) | a ring, a completion buffer and an inflight count per worker, a slab of results | submit, poll, wait_and_poll, shutdown | scheduler hooks, the kernel |
| Shared reactor (`ksvc-gvthread/src/reactor.rs`) | request queue, slab of results, one ring, one thread | submit_and_park, the reactor loop, shutdown | wake_gvthread, the kernel |
| io_uring backend and tier router (`ksvc-module/src/basic_iouring.rs`, `probe_router.rs`) | submission and completion queue, table of routes | submit, flush, flush_and_wait, poll_completions | the kernel |
| Channel, locks, cancellation, bitmaps (`gvthread-core/src/`) | buffer and handle counters; a flag; flags in a tree; words of bits | | GVThreads, workers |
| Parking (`gvthread-runtime/src/parking/`) | futex word or flag with a condition variable | park, wake_one, wake_all | workers |
| Timer registry (`gvthread-runtime/src/timer/registry.rs`, `impls/heap.rs`, `worker.rs`) | heap, set of cancelled handles, a thread | schedule, cancel, poll_expired, shutdown | not used by the scheduler yet |
| KSVC dispatcher (`ksvc-executor`, `ksvc-module`) | submit ring, completion ring, worker pool, eventfd | try_push, dispatcher_loop, pool workers | user threads, the kernel |
| Kernel module (`src/kmod`) | instances with rings and a shared page | open, create, mmap, release | user processes |
| Servers (`src/cmd/httpd`, `src/cmd/echo`) | connections, descriptors, files | accept, receive, send, close | one of the reactors, or a ring of their own |
| Load generator (`src/cmd/wrkr/rust/wrkr`) | a result per connection, a shared counter, two stop flags | a warm-up and a measured phase, merge_results, spawn_progress | its own tasks |

What is hard about it, and rarely met by a test:

* Two threads work on one GVThread at the same time: its own worker, which is
  switching away from it, and a waker (the timer thread, a completion). The
  state word and the ready queue are separate, and most operations read the
  state in one step and change it in another.
* A worker decides to park while another thread pushes; shutdown races with
  parking, and with workers that wait in the kernel.
* Ids travel between queues in batches, under different locks, and pushes may
  find a queue full; a bounded poll may meet one completion too many.
* Slots, descriptors and timer handles are reused at once, while completions,
  sleep entries or queued ids might still name the earlier owner.
* Counters are bounded (256 completions per poll, 256 ids per local queue) or
  wrap around (`AtomicU32`).

## 2. Modules

| module | models | checked by | proved in |
|---|---|---|---|
| `ReadySet` | what a ready queue promises: a pushed id is popped once | as a property of `ReadyQueue` | |
| `ReadyQueue` | `SimpleQueue` with the workers' main loop around it, and shutdown | `MCReadyQueue` | `ReadyQueueProofs` |
| `Scheduler` | the life of a GVThread, with I/O on the worker's ring | as a part of `SchedulerSleep`; `MCSchedulerRefuse.cfg` | `SchedulerProofs` |
| `SchedulerSleep` | `Scheduler` with `timer::sleep` and the timer thread | `MCLife.cfg`, `MCSleepLost.cfg`, `MCSleepTwice.cfg` | `SchedulerSleepProofs` |
| `SlotAllocator` | the slot allocator used by several threads | `MCParts` | `PrimitivesProofs` |
| `Locks` | `SpinLock` and `SchedMutex` around a value | `MCParts` | `PrimitivesProofs` |
| `Bitmap` | the ready bitmaps, searched by several workers | `MCParts` | `ClaimsProofs` |
| `Parking` | `FutexParking` and `FallbackParking` | `MCParts` | `PrimitivesProofs` |
| `Cancel` | cancellation tokens with parents, and slots that are reused | `MCParts` | `ClaimsProofs` |
| `Kmod` | the life of an open `/dev/ksvc` | `MCParts`, `MCKmodCreate.cfg` | `HandlesProofs` |
| `Channel` | the bounded channel and its closing | `MCParts`, `MCChannelClosed.cfg` | `HandlesProofs` |
| `HeapTimers` | the timer registry, its heap backend and its thread | `MCParts` | `TimeProofs` |
| `Preempt` | the stall detection of the timer thread | `MCParts` | `BoundsProofs`, in part |
| `LoadGen` | the load generator: phases, connections, timer, progress report | `MCParts` | `TimeProofs` |
| `ProbeRouter` | the route of a system call, as a function of the probed opcodes | in the modules below | |
| `BasicIoUring` | one ring: opcode translation, submission, flush, poll | in the modules below | |
| `Dispatcher` | submit ring, dispatcher loop, worker pool, completion ring, eventfd | `MCRings` | `BoundsProofs`, the submit ring |
| `WorkerServer` | the GVThread server on worker rings, from start to shutdown | `MCRings` | |
| `Reactor` | the shared reactor under the GVThread server | `MCParts`, `MCReactorProgress` | |
| `KsvcServer` | the event-loop HTTP and echo servers | `MCRings` | |

The components fit together as follows. `ReadyQueue` shows that the queue
neither loses nor duplicates ids and that each is popped at last, unless every
worker waits in its ring; `Scheduler` uses a counter per id instead of the queue
and assumes exactly this (strong fairness of `Pop`, which a worker that waits in
its ring does not enable). `SlotAllocator` shows that no slot is handed out
twice; `Scheduler` uses a set of free slots. `Locks` shows that a spin lock makes
its critical section one step, which the other modules use. `SchedulerSleep`
extends `Scheduler` by the actions of one more component and shares all its
variables: its runs are the runs of both. `BasicIoUring` and `ProbeRouter` are
operators on a ring and on a set of opcodes; `Dispatcher`, `Reactor`,
`WorkerServer` and `KsvcServer` are built from them, and each composes a reactor
with the program above it.

Components that share no state are checked in one run: `MCParts` and `MCRings`
extend their components, whose variables are disjoint, and the variable
`active`, chosen at the start, says which one takes steps.

Definitions that begin with "Mutant" in their comment are wrong versions of
the next definition. No specification uses them; they show which mistake each
property would notice.

### How state and steps correspond to the code

A step is one access to something several threads use (a critical section, an
atomic, a state word) together with the thread's own computation around it.
`pc[t]` is where thread `t` stands between two such accesses. The models are
sequentially consistent: the orderings given to the atomics are taken as
sufficient, and no weak-memory reordering is modelled.

**ReadyQueue.** `local`, `global` and `parked` are the fields of the same name;
`waiting` is the set of threads inside the condition variable; `batch` and
`hand` hold what a thread has taken from one queue and not yet put into
another. `pop` is the sequence PopTick, PopGlobalFirst, PopLocal, PopGlobal,
PopBatch, FillLocal, Steal, Stash; `push` is PushLocal or PushGlobal followed
by the two looks at the counter of parked workers (CountParked, NotifyOne),
since both `GlobalQueue::push` and `SimpleQueue::push` notify. `park` is Park,
ParkLock, then Timeout or a notification, then Unpark. The victim of a steal
is random in the code and arbitrary in the model. The main loop's wake-ups
carry no worker hint, because `tls::set_worker_id` is never called; only
`run_gvthread` pushes to its own local queue. A worker that finds nothing while
a GVThread is outside the queue may have its operation in flight and wait in its
ring (`WaitIo`, `IoDone`), where neither a push nor `wake_all` reaches it. The
branch of `try_steal` that
moves ids to the global queue when the local one is full cannot be taken: see
`RoomForBatch` in the proofs.

**Scheduler.** `st`, `gen` and `ctx` are the state, the generation and the
saved registers in a slot's metadata. `ctx` is "live" while a worker executes
the GVThread, so resuming a GVThread that is not "saved" means to run on
registers of an earlier switch. `awaits` and `result` stand for a submitted
system call and its entry in the results slab. `sq`, `kernel`, `cq` and `buf`
are the four places an operation passes through; the kernel finishes an
operation when it likes, or never. The two possible routes of a call, `Submit`
(taken by the ring) and `Refuse` (an error of `submit_with_opcode`, or a tier
other than io_uring), are chosen by the constant `Route`. `missed` is a history
variable: the GVThreads whose wake-up for a call had no effect or whose
completion a poll dropped. The pool may be any nonempty part of `Worker` (the
others are "off"), so one run covers pools of one and of two. An unsuccessful
pop (`PopNone`) is possible even when an id is ready, because the real pop looks
at one queue after the other; it is not when all other workers are away. The
states Preempted and Cancelled do not occur in these paths. Errors that the
kernel returns from a flush are not modelled.

**SchedulerSleep.** `sleepq` is the heap as a bag; the order in which entries
expire is arbitrary. Deactivate sets the generation to 0, as giving the page
back does, so every GVThread of a slot has generation 1 and `Verify` cannot
tell two of them apart (`metadata.rs:203` promises "Increment generation on
each reuse for stale wake detection"); `EntryCurrent` shows that it does not
have to, as long as sleeps outlast a switch. The code has no such guard: an
entry may expire at any time after it is queued (`timer/mod.rs:175`), and that
is `LongSleeps` FALSE, which `sleep_lost` and `sleep_twice` explore. With
`LongSleeps` TRUE an entry expires only after the worker has left the sleeper
behind; this is a timing assumption, and the weakest one under which `sleep` is
right.

**SlotAllocator.** The fields have their names. `owned` is the set of slots
handed out; `late[t]` is a history variable: a slot was released since `t`
looked at the free stack. The counter is taken modulo `Modulus` (2^32).
`MaxNone` bounds the NONE entries of a batch: `release_batch` skips them but
subtracts the length of the batch, so `Accounting` is stated for 0.

**Locks.** One flag and a compare-and-exchange for both locks. The queue of
waiters of `SchedMutex` is never filled (`lock` spins), so `unlock` always
finds it empty and clears the flag; `PopWaiter` is that look.

**Parking.** `word` is the futex word (pending wake-ups) or the flag under the
mutex. `signal` is a history variable: a wake-up was posted and no worker has
come back since. The fallback's last `fetch_sub` is made under the mutex in the
code and is a step of its own in the model, which only adds interleavings.

**Bitmap.** A word is the set of ids whose bits are set. `standing[w]` is a
history variable: what has been ready ever since `w` began to scan. The xorshift
start block is arbitrary.

**Cancel.** A token is owned (with or without a parent), a pointer to the
`cancelled` byte of a slot, or a dummy. `due` and `could` are history variables
that say what a check in progress must and may report.

**Kmod.** `refs` counts page references, by the instance and by mappings. The
page frames are a small set; an allocation fails when TLC chooses so. `created`
is tested at the start of the ioctl and set at its end, so two CREATEs of one
instance may overlap; `overlap` records it and the behaviour goes on, with the
stores of the second over those of the first. `PagesHeld` is about behaviours
without an overlap, `create_twice` about one with it.

**Channel.** One step per critical section. `send_waiters` and `recv_waiters`
are never filled and left out: a blocked caller spins.

**HeapTimers.** The heap is a set ordered by deadline and handle. Time passes
while the thread sleeps; its own steps take none. A periodic timer gets a new
handle when it is rescheduled: it is a chain of entries.

**Preempt.** `current_gthread`, `activity_counter` and `preempt_flag` are the
fields; the timer thread loads the first two in separate steps. `quiet` and
`changed` are history variables for the time since a counter changed and the
workers whose run changed since a stall was noted.

**BasicIoUring, ProbeRouter.** A ring is a record of the submission queue, the
operations in the kernel, the completion queue and the inflight counter. The
router keeps the code's tables, for the system calls and opcodes it names.
A poll that finds more completions than its buffer holds consumes one more and
drops it (`basic_iouring.rs:359-364`); the modules record it in `lost`.

**Dispatcher.** Producers, the dispatcher, the pool's workers, the kernel and
the handler that reads the completions. A slot that is read before it is
written (`overtaken`) ends a behaviour: what the dispatcher copies then is an
older entry. The handler is not in the repository; `Wait` and `Take` are what
the ring's layout asks of it. `sizing` chooses the capacities and whether the
backend's trait method `submit` translates; `BasicIoUring`'s is a stub that
answers Unsupported.

**Reactor.** GVThreads of the server push requests, block, and read their
results; the reactor's thread pops, routes, flushes, polls and wakes. A wake-up
that finds the GVThread Blocked and not switched away yet (`overtaken`) ends
the behaviour: what follows is a matter of the scheduler, and `sleep_twice`
explores it there, with the timer thread as the waker.

**WorkerServer.** A GVThread's run, up to where it blocks or yields, is one
step of its worker. `mpc` is the main thread: block_on, shutdown, join, pool
shutdown. The constant `Pools` lets TLC choose one or two workers.

**KsvcServer.** A completion's correlation id is the operation and the slot.
`conns` is the slab with the state, the descriptor, the file and the bytes
still to send. A request is abstracted to the number of bytes and whether it
is complete. The opcode of a submission is what the router gives for the kernel
that was probed (`server.probe`); when the kernel lacks it, `submit` fails, the
server ignores the error and the connection has no operation any more
(`sv_refused`). A signal that arrives between the look at RUNNING and the wait in
the ring does not end the wait, so `ServerInterrupt` may or may not wake the
loop.

**LoadGen.** A step of a connection's task lies between two looks at `stop`
or at the network. `conn_result` keeps the number of latencies in place of the
latencies; `timed` is a history variable, the counter at the moment when the
duration of the phase is taken. `ExchangeLimit` bounds the exchanges of a
connection, and with them nothing but the length of a phase.

## 3. Runs

| run | instance | shows |
|---|---|---|
| `queue` | 2 workers, 1 pusher, 4 ids, local capacity 4, check interval 2 | no id is lost or duplicated (Conservation); no push leaves an idle worker asleep (NoLostWakeup) |
| `queue_live` | 2 workers, 1 pusher, 2 ids, capacity 2 | `ReadyQueue` implements `ReadySet` (ImplementsReadySet); every ready id is run without the help of the park timeout (EventuallyRuns); shutdown joins all workers (ShutdownCompletes) |
| `life` | a pool of 1 or 2 workers, 1 spawner, timer thread, 2 slots, both routes, completion buffer of 1, LongSleeps | a GVThread is in one place (OnePlace); it resumes from saved registers with its result (ResumesSaved); it is forgotten only by the missed wake-up of a call, never by a sleep (SleeperKept); an entry of the sleep queue belongs to the GVThread that is in the slot (EntryCurrent); a call resumes its caller unless the kernel does not finish it (IoResumes); a ready GVThread runs and a sleep ends, unless every worker waits in its ring (ReadyRuns, SleepEnds) |
| `parts` | slots: 3 threads, 3 slots; locks: 3 threads, 2 rounds; parking: 2 workers, 2 wakers, 3 wake-ups; bitmap: 2 workers, 3 ids in words of 2 bits, 2 priorities; cancel: 3 tokens and a slot; kmod: 2 callers, 5 page frames; channel: 2 senders, 2 receivers, capacities 1 and 2; timers: 2 handles, delays 0, 1, 3; preempt: 1 worker, 2 GVThreads; load generator: 2 connections, 2 exchanges each, with and without warm-up; reactor: acceptor, 1 connection, queue of 1, completion buffer of 1 | no slot is handed out twice, `allocate` fails only when it may, the counter is exact (NoDoubleAllocation, FailsOnlyWhenFull, Accounting); the locks lose no update (NoLostUpdate); parking loses no posted wake-up (NoLostSignal); a scan claims a ready id once and misses none (ScanExact); a check reports a cancellation that was there, and only such (CheckSeesCancel); while no CREATEs overlap, no page or eventfd reference leaks and none is freed while it is mapped (PagesHeld); messages arrive in order, once (Delivered), blocked callers return when the other side is gone (BlockedEnds); an entry cancelled while pending does not fire, another that expires is called back once (CalledBack), in time (FiresInTime); a GVThread that keeps its worker is flagged, and early only in one case (FlaggedInTime); what is reported is the measured phase, at most one late request per connection (Measured); a request to the shared reactor is in one place (RequestAccounted) and stuck only after a missed wake-up (StuckOnlyIfMissed); descriptors are neither leaked nor closed early (FdOwned) |
| `rings` | dispatcher: 2 producers, 3 calls, submit ring of 1, other capacities 1 and 2, 1 pool thread; worker server: 1 or 2 workers, acceptor and one connection, completion buffer of 1, kernels with and without RECV; event-loop server: hello, file and echo mode with one connection, echo with two, and a file server on a kernel without OPENAT | the submit ring is never overfilled (SubmitBounded); each call is in one place or was dropped where the code drops (Accounted, InOneRing); it is answered (Answered); waiting workers strand nobody (SomeoneAwake); shutdown ends unless a worker waits in its ring (ShutdownEnds); a connection has one operation on its way (OneOperation), its descriptor and file are held while they are used and closed once (FdHeld), and it is served (Served) |

Seven runs end in a violation. Each states what a comment or a document of the
repository says of the code and shows that the code does otherwise:

| run | violates | what happens |
|---|---|---|
| `life_refuse` | NoneStranded | A call the ring does not take is answered by `wake_gvthread` before the GVThread has blocked. The wake-up is ignored and the GVThread blocks for ever ("Ring full — return EAGAIN, wake immediately", `worker_reactor.rs:175`). |
| `sleep_lost` | SleeperKept | A sleep that expires before the state is Blocked never ends ("Sleep the current GVThread for the specified duration.", `timer/mod.rs:225`). |
| `sleep_twice` | SingleRunner | A sleep that expires after the state is Blocked and before the switch makes the GVThread ready while its worker still executes it; a second worker pops it and both run it. `yield_now` is protected against this ("This prevents a race where another worker picks us up before we've saved our context.", `scheduler.rs:573-574`), `block_current` is not. |
| `submit_visible` | EntryVisible | `try_push` advances the tail and writes the entry afterwards; the dispatcher may copy what the slot held before ("The entry is now visible to the consumer because: We published tail with Release semantics", `submit_ring.rs:185-186`). |
| `create_twice` | NothingLeaked | Two CREATEs both find `created` clear; the second overwrites the page array of the first, and those pages are never freed ("Only one CREATE per instance", `ksvc_main.c:69`). |
| `recv_closed` | ClosedIsEmpty | `recv` finds the buffer empty, the last sender sends and goes, and `recv` answers ChannelClosed with a message in the buffer ("if all senders have been dropped and buffer is empty", `channel.rs:168`). |
| `reactor_blind` | Progress | The shared reactor waits in `flush_and_wait(1)` behind an accept; a request pushed now is not submitted until a client comes ("It's always available to poll completions and submit new requests.", `src/docs/KSVC_GVTHREAD.md:84-85`). |

### Where a property names an exception

Some properties hold only with an exception that the code makes. Each is
written into the property, so that the run shows that there is no other:

* **A full poll.** `poll_completions` consumes one completion more than its
  buffer holds and drops it. `lost` (`missed` in `Scheduler`) records it in
  every module with a ring: the GVThread is never woken, the worker's inflight
  counter stays too high, and a server that lost its accept never accepts again.
* **A missed wake-up.** The shared reactor may answer a request before its
  GVThread is Blocked, and so does a worker's reactor with a call it refuses;
  `missed` records the wake-ups that had no effect. `life_refuse` and
  `sleep_lost` show the same race without the exception.
* **A refused call.** An opcode the probe did not find leaves the GVThread of a
  worker ring blocked (`refused`), and a connection of an event-loop server
  without an operation (`sv_refused`).
* **All workers wait in their rings.** A worker in `flush_and_wait(1)`
  (`worker_reactor.rs:231`) sees neither a push nor the end of the scheduler.
  When all do, a GVThread that is spawned or woken by the timer runs only after
  the next completion, and nothing obliges the kernel to one (EventuallyRuns,
  ReadyRuns, SleepEnds); when one does, shutdown waits for it (ShutdownEnds,
  ShutdownCompletes). The runs reach both: with a pool of one worker, one
  pending call is enough.
* **A raced close.** The exception of Delivered is what `recv_closed` shows. A
  send may also be accepted after the last receiver is gone.
* **A slot released meanwhile.** `allocate` may fail although a slot is free, when
  it was released after `allocate` had looked at the free stack.
* **An early flag.** The stall detection does not see that a new GVThread runs
  when the counter is what it remembers.
* **A periodic timer** gets a new handle when it is rescheduled (`entry.rs:200`),
  so cancelling the handle its owner has stops nothing after the first firing
  (`registry.rs:164` says "fire every `interval` until cancelled"). CalledBack
  is about single entries and handles that are pending when they are cancelled;
  no property is about the chain. The number of active timers
  (`registry.rs:214`) subtracts marks that belong to no entry and is not part of
  a property either.
* **A file left open.** When the send of a file's content fails, the HTTP
  server closes the connection and forgets the file (`failed`). The echo
  server does not continue a partial send.

Other differences seen while reading, which no property is about:
`basic_iouring.rs:422` says of `submit_with_opcode` that the dispatcher calls
it, but the executor calls the trait method `submit`, which always answers
Unsupported (`sizing.translates` chooses between the two). The producers of the
submit ring write its entries at offset 4096 (`submit_ring.rs:131`) and the
executor reads them at offset 64 (`ksvc-executor/src/lib.rs:77`): as it stands
it would read other bytes. The model gives both one array, which is what
`dequeue_batch` (`submit_ring.rs:224`) uses. `release_batch` skips the NONE
entries of a batch and subtracts its whole length from the counter, so
Accounting is stated for batches without them. The pool's `shutdown` sets a flag
and waits for nobody.

### Bounds

The constants of the code (256 ids, 61 pops, 256 completions, 64 bits, 2^32)
are parameters. The values are chosen so that each boundary is crossed: a
local queue overflows and is refilled by a batch, a steal takes half of two or
more ids, the pop counter wraps, a slot is reused, the free stack and the fresh
slots are both exhausted, the rings are full, a poll finds one completion too
many, every worker of a pool waits in its ring, the slab of connections is full,
a bitmap's last word is only partly used, a priority level is exhausted, a timer
is scheduled behind and before the one the thread sleeps for. Two GVThreads
suffice for races between one GVThread and its wakers and for one that is ready
while another waits; the servers need an acceptor and one connection for their
calls to meet, and the echo server has two for the reuse of descriptors. Out of
reach of these instances: a descriptor of one connection closed by another in
`Reactor` (it has one), and the starvation of a third id by two that yield
(`queue_live` has two ids). `WakeLimit`, `Rounds`, `MsgLimit`, `OpLimit`,
`HandleLimit`, `ExchangeLimit` and `MaxTime` bound what would grow for ever; the
others are bounded by the code. No run has a state constraint. Symmetry is used
for safety only, in `queue`. Deadlock is not checked in `life`, where the
system may stop: every worker waits for a kernel that answers no more.

### Fairness

* An OS thread runs on (weak fairness of its steps), and GVThreads are
  cooperative: each gives its worker back after finitely many steps. This is
  all that `parts`, `rings` and `reactor_blind` assume of the program.
* The kernel finishes what does not wait for somebody else: sends, closes and
  operations on files, in `rings`. In `life` it need not finish anything: an
  accept or a recv may wait for ever, and the properties say what holds then. No
  fairness makes a client connect or write, or a user interrupt a server.
* An id that stays in the queue while workers pop is popped. `Scheduler` assumes
  this as strong fairness of `Pop`, and `queue_live` justifies it:
  EventuallyRuns holds for each id separately, with workers that also wait in
  their rings.
* The sleep queue is ordered by time, hence an entry waits for finitely many
  others: strong fairness of `PopExpired`.
* The specification of `queue_live` is not fair to the timeout of `park`, so
  EventuallyRuns shows that wake-ups are not lost rather than repaired.
  ShutdownCompletes needs the timeout and has it as its premise
  (`TimeoutFairness`): a worker may read the running flag before shutdown and
  park after `wake_all`, and then only the timeout (100 ms) lets it see the
  flag.

Several liveness properties have the form `[]<>(~P \/ R)`. This is the same as
`P ~> ~P \/ R`: a pending P is not pending for ever without R.

## 4. Proofs

The theorems hold for arbitrary sets of threads, ids and slots and arbitrary
capacities, under the ASSUMEs of the modules (sets of workers and slots are
finite, sizes are positive) and what is named below.

* `ReadyQueueProofs`: `TypeCorrect`, `ConservationHolds`,
  `QueueImplementsReadySet`, `WakeupNotLost`. Conservation is not inductive by
  itself: FillLocal ignores the result of pushing a batch, so the proof needs
  that a worker reaches its batch only with an empty local queue
  (`EmptyPastLocal`), and hence that there is room (`RoomForBatch`), which in
  turn needs that nobody but the owner pushes to a local queue. For the
  wake-ups the invariant says that while the global queue is not empty and a
  worker waits, some thread is on its way to notify.
* `SchedulerProofs`: `SchedulerTypeCorrect`, `OnePlaceHolds`,
  `SingleRunnerHolds`, `ResumesSavedHolds`, `NoneForgottenHolds`. The invariant
  `IInv` gives for each position of a thread what it knows of the slot it works
  on (`AtLabel`, `AtWorker`), and what holds of a slot nobody holds
  (`Resumable`). It has the set of sleepers as its parameter, empty without the
  timer thread. The lemma `Frame` reduces a step to the thread that takes it
  and the slot it concerns; the lemmas after it have one case per action.
  The theorems assume nothing of the routes, of the size of a poll or of the
  pool. `NoneForgottenHolds` says that a GVThread is in some place unless it is in
  `missed`; that `missed` is reached, `life_refuse` shows.
* `SchedulerSleepProofs`: `SleepOnePlaceHolds`, `EntryCurrentHolds`,
  `SleeperKeptHolds`. They assume `LongSleeps`, and `sleep_lost` and
  `sleep_twice` show why; they assume nothing else. The invariant adds that the
  entries of the sleep queue are those of the sleepers, one each (`QueueOK`),
  and that a sleeper is in no other place.
* `PrimitivesProofs`:
  * slots: `SlotTypeCorrect`, `NoDoubleAllocationHolds`,
    `FailsOnlyWhenFullHolds`, `AccountingHolds` (for batches without NONE). The
    invariant adds that everything handed out or claimed lies below
    `next_fresh`.
  * locks: `NoLostUpdateHolds`. The flag is set exactly while a thread is
    inside, any two threads inside are one, and what a thread has read is
    still the value when it writes.
  * parking: `NoLostSignalHolds`, for a finite nonempty set of workers and any
    wakers. The counter is the number of threads between their increment and
    decrement, which is what lets a waker trust it; a posted wake-up is in the
    futex word or the flag, or a worker is on its way up; and while it is
    posted a waker has still to notify or not all workers sleep.
* `ClaimsProofs`:
  * bitmap: `ScanExactHolds`. An id is ready at one priority at most, never
    while a worker holds it; the lowest bit of a word that has not changed is
    still set. What has been ready since a scan began lies ahead of it
    (`Ahead`), in a later level or a later block in the order of the scan,
    which wraps around (`BlocksCovered`).
  * cancellation: `CheckSeesCancelHolds`, for any finite or infinite set of
    tokens. The ancestors of a token are the least set with it that is closed
    upwards (`ChainLeast`); a running check knows that a cancellation it must
    report is above where it stands, because what is below was down when it
    looked.
* `HandlesProofs`:
  * kernel module: `PagesHeldHolds`. The references of a page are the region
    it belongs to and the callers that map it; which regions exist follows from
    where the ioctl stands, and nothing can be mapped before it is done. An
    overlap of two CREATEs is an alternative of the invariant; it is never
    undone.
  * channel: `DeliveredHolds`. What was received followed by the buffer is what
    was sent; the counter of senders counts the handles; a receiver about to
    look at it has found the buffer empty, which it still is unless someone
    pushed since.
* `TimeProofs`:
  * timers: `CalledBackHolds`, `FiresInTimeHolds`. Handles in the heap are
    older than the next one; a mark in the set of cancelled handles and the
    entry it belongs to are removed together. The thread's sleep is at most the
    time to the earliest deadline that was there and at most `MaxPoll`, hence a
    deadline is missed by no more than the longest sleep.
  * load generator: `MeasuredHolds`. The counter is the sum of the connections'
    requests, which are added up by a function from the connections to their
    prefix sums; tasks that left the loop count no more, so after `stop` each
    counts one request at most.
* `BoundsProofs`:
  * submit ring: `SubmitBoundedHolds`, for a submit ring of any size. A
    producer that found room in front of the tail it loaded still has it when
    its exchange succeeds, because tails only grow and the head only moves away;
    the dispatcher's own copies of head and tail are between the two.
  * preemption: `EarlyFlagHolds`, the action property `EarlyOnlyAfterChange` of
    `FlaggedInTime`. What the timer thread remembers of a worker is at least
    as old as the worker's present run.

Only model-checked:

* all liveness properties (the prover does not support fairness or ENABLED):
  EventuallyRuns, ShutdownCompletes, IoResumes, ReadyRuns, SleepEnds,
  BlockedEnds, the first half of FlaggedInTime, Answered, ShutdownEnds and
  Served;
* what is said of the components that own an io_uring: Accounted (the calls of
  the dispatcher between its two rings), RequestAccounted, StuckOnlyIfMissed
  and FdOwned of `Reactor`, InOneRing and SomeoneAwake of `WorkerServer`,
  OneOperation and FdHeld of `KsvcServer`. Their invariants count the
  occurrences of an operation in the queues of a ring. Nothing in principle is
  in the way of a proof, but it would be longer than any of those above, and
  slow to check.

## 5. Not modelled

* Weak memory: a model step is one access, in a total order.
* Registers, stacks and signal frames of the context switch (instructions),
  the signal functions (stubs without effect) and the forced switch.
* Mapping and unmapping of the slot region, and errors the kernel returns from
  a flush or from entering the ring.
* Priorities: the bitmaps know them, the scheduler's queue does not.
* `Preempted`, `mark_blocked` and `wake_gvthread_checked`, which no path of the
  program reaches, and `RingCompletionSink`, which nothing uses.
* The text of requests and responses, path handling, options, statistics.
* `gerror`, `kprint`, `env`: packing, formatting and parsing without a
  protocol.
* Percentiles and output of the load generator; smoke tests, demos, benchmarks
  and the tokio servers.
* Buffers and shared pages of KSVC: thin wrappers of memory.
* The pop counter of the ready queue is a `u32` that wraps at 2^32, which
  shortens one interval; the model wraps it at the interval instead.

## 6. Running

    tlc -config MCLife.cfg SchedulerSleep
    tlc -config MCReadyQueueLive.cfg MCReadyQueue
    tlapm SchedulerProofs.tla

`PROJECT.json` names the module of each `.cfg` file. The longest runs are
`parts` (about 424,000 distinct states, most of them of independent components),
`rings` (259,000) and `life` (98,000).
