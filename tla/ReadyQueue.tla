------------------------------ MODULE ReadyQueue ------------------------------
(***************************************************************************)
(* The ready queue of the scheduler (ready_queue/simple.rs) with the       *)
(* threads that use it: the workers, whose main loop pops, steals, spins   *)
(* and parks, the threads that push without a worker hint (spawners, the   *)
(* timer, a reactor), and the thread that shuts the scheduler down.        *)
(*                                                                         *)
(* One step is one critical section of a SpinLock or of the global mutex,  *)
(* or one access to an atomic that several threads use, together with the  *)
(* thread's own computation around it.  The atomic "len" of a queue is     *)
(* stored inside the critical section that changes the queue and is only   *)
(* compared with zero, so a pop that sees len = 0 and one that finds the   *)
(* queue empty under the lock are the same step.                           *)
(*                                                                         *)
(* A worker pushes with itself as the hint (run_gvthread); every other     *)
(* caller pushes without a hint, because tls::set_worker_id is never       *)
(* called and tls::try_current_worker_id therefore returns None.  Local    *)
(* queue w is thus filled by worker w alone, and only emptied by others.   *)
(***************************************************************************)
EXTENDS Integers, Sequences, FiniteSets, Functions

CONSTANTS Worker,              \* worker OS threads
          Pusher,              \* OS threads that push without a hint
          Id,                  \* GVThread ids
          NoId,                \* no GVThread
          LocalCapacity,       \* LOCAL_CAPACITY
          GlobalCheckInterval, \* GLOBAL_CHECK_INTERVAL
          SpinLimit            \* GVT_IDLE_SPINS

ASSUME ReadyQueueAssumption ==
  /\ IsFiniteSet(Worker) /\ Worker # {}
  /\ Worker \cap Pusher = {}
  /\ NoId \notin Id
  /\ LocalCapacity \in Nat \ {0}
  /\ GlobalCheckInterval \in Nat \ {0}
  /\ SpinLimit \in Nat

VARIABLES
  local,    \* local[w]: the local queue of worker w
  global,   \* the global queue
  parked,   \* the workers counted by GlobalQueue.parked
  waiting,  \* the workers inside Condvar::wait_timeout
  pc,       \* where each thread is
  hand,     \* the id a thread is pushing, has popped, or is running
  batch,    \* batch[w]: ids taken from a queue and not yet in local[w]
  tries,    \* victims try_steal has tried, 0 outside it
  tick,     \* the pop counter of a worker, modulo the interval
  spins,    \* idle_spins of a worker
  outside,  \* ids that are blocked, finished or not spawned
  running,  \* SCHEDULER_RUNNING
  stop      \* where the thread that calls shutdown is

vars == <<local, global, parked, waiting, pc, hand, batch, tries, tick, spins,
          outside, running, stop>>

Thread == Worker \cup Pusher

BatchMax == LocalCapacity \div 2

StealTries == IF Cardinality(Worker) < 4 THEN Cardinality(Worker) ELSE 4

\* Threads in the part of push that follows the queue operation: the parked
\* counter is read, and a waiter notified, once by GlobalQueue::push and once
\* more by SimpleQueue::push.
PushLabel == {"pushGlobal", "count1", "notify1", "count2", "notify2"}

WorkerLabel == PushLabel \cup
  {"check", "globalFirst", "local", "global", "batch", "fill", "steal",
   "stash", "stashCount", "stashNotify", "run", "ring", "park", "parkLock",
   "waiting", "exited"}

PusherLabel == PushLabel \cup {"ready"}

Init ==
  /\ local = [w \in Worker |-> <<>>]
  /\ global = <<>>
  /\ parked = {} /\ waiting = {}
  /\ pc = [t \in Thread |-> IF t \in Worker THEN "check" ELSE "ready"]
  /\ hand = [t \in Thread |-> NoId]
  /\ batch = [w \in Worker |-> <<>>]
  /\ tries = [w \in Worker |-> 0]
  /\ tick = [w \in Worker |-> 0]
  /\ spins = [w \in Worker |-> 0]
  /\ outside = Id
  /\ running = TRUE /\ stop = "up"

Goto(t, from, to) == pc[t] = from /\ pc' = [pc EXCEPT ![t] = to]

queues == <<local, global, batch, hand, outside>>
parking == <<parked, waiting>>
counters == <<tries, tick, spins>>
shutdown == <<running, stop>>

-----------------------------------------------------------------------------
(* pop *)

\* The top of worker_main_loop.
Check(w) ==
  /\ ~running
  /\ Goto(w, "check", "exited")
  /\ UNCHANGED <<queues, parking, counters, shutdown>>

\* Mutant: the global queue is never looked at first.
PopTickLocalFirst(w) ==
  /\ running
  /\ Goto(w, "check", "local")
  /\ tick' = [tick EXCEPT ![w] = (@ + 1) % GlobalCheckInterval]
  /\ UNCHANGED <<queues, parking, tries, spins, shutdown>>

\* The loop goes on: pop counts and chooses which queue comes first.
PopTick(w) ==
  /\ running
  /\ Goto(w, "check", IF tick[w] = 0 THEN "globalFirst" ELSE "local")
  /\ tick' = [tick EXCEPT ![w] = (@ + 1) % GlobalCheckInterval]
  /\ UNCHANGED <<queues, parking, tries, spins, shutdown>>

\* pop returned an id: the main loop resets its idle counter and runs it.
Got(w, to) ==
  /\ pc' = [pc EXCEPT ![w] = to]
  /\ spins' = [spins EXCEPT ![w] = 0]

PopGlobalFirst(w) ==
  /\ pc[w] = "globalFirst"
  /\ \/ /\ global = <<>>
        /\ Goto(w, "globalFirst", "local")
        /\ UNCHANGED <<global, hand, spins>>
     \/ /\ global # <<>>
        /\ hand' = [hand EXCEPT ![w] = Head(global)]
        /\ global' = Tail(global)
        /\ Got(w, "run")
  /\ UNCHANGED <<local, batch, outside, parking, tries, tick, shutdown>>

PopLocal(w) ==
  /\ pc[w] = "local"
  /\ \/ /\ local[w] = <<>>
        /\ Goto(w, "local", "global")
        /\ UNCHANGED <<local, hand, spins>>
     \/ /\ local[w] # <<>>
        /\ hand' = [hand EXCEPT ![w] = Head(local[w])]
        /\ local' = [local EXCEPT ![w] = Tail(@)]
        /\ Got(w, "run")
  /\ UNCHANGED <<global, batch, outside, parking, tries, tick, shutdown>>

PopGlobal(w) ==
  /\ pc[w] = "global"
  /\ \/ /\ global = <<>>
        /\ Goto(w, "global", "steal")
        /\ UNCHANGED <<global, hand>>
     \/ /\ global # <<>>
        /\ hand' = [hand EXCEPT ![w] = Head(global)]
        /\ global' = Tail(global)
        /\ Goto(w, "global", "batch")
  /\ UNCHANGED <<local, batch, outside, parking, counters, shutdown>>

PopBatch(w) ==
  LET n == IF Len(global) < BatchMax THEN Len(global) ELSE BatchMax IN
  /\ Goto(w, "batch", "fill")
  /\ batch' = [batch EXCEPT ![w] = SubSeq(global, 1, n)]
  /\ global' = SubSeq(global, n + 1, Len(global))
  /\ UNCHANGED <<local, hand, outside, parking, counters, shutdown>>

\* The result of each push into the local queue is ignored: when the queue is
\* full the id is dropped.
FillLocal(w) ==
  /\ pc[w] = "fill"
  /\ \/ /\ batch[w] = <<>>
        /\ Got(w, "run")
        /\ UNCHANGED <<local, batch>>
     \/ /\ batch[w] # <<>>
        /\ local' = IF Len(local[w]) < LocalCapacity
                    THEN [local EXCEPT ![w] = Append(@, Head(batch[w]))]
                    ELSE local
        /\ batch' = [batch EXCEPT ![w] = Tail(@)]
        /\ UNCHANGED <<pc, spins>>
  /\ UNCHANGED <<global, hand, outside, parking, tries, tick, shutdown>>

-----------------------------------------------------------------------------
(* work stealing *)

\* Mutant: the last stolen id stays in the victim's queue.
StealOffByOne(w, v) ==
  LET n == Len(local[v]) \div 2 IN
  /\ pc[w] = "steal" /\ tries[w] < StealTries
  /\ \/ /\ v = w \/ n = 0
        /\ tries' = [tries EXCEPT ![w] = @ + 1]
        /\ UNCHANGED <<local, hand, batch, pc>>
     \/ /\ v # w /\ n > 0
        /\ hand' = [hand EXCEPT ![w] = Head(local[v])]
        /\ batch' = [batch EXCEPT ![w] = SubSeq(local[v], 2, n)]
        /\ local' = [local EXCEPT ![v] = SubSeq(@, n, Len(@))]
        /\ tries' = [tries EXCEPT ![w] = 0]
        /\ Goto(w, "steal", "stash")
  /\ UNCHANGED <<global, outside, parking, tick, spins, shutdown>>

\* One round of try_steal.  The victim comes from a pseudo-random generator
\* and may be the worker itself.  Half of the victim's queue is taken, so a
\* queue of one id yields nothing.
Steal(w, v) ==
  LET n == Len(local[v]) \div 2 IN
  /\ pc[w] = "steal" /\ tries[w] < StealTries
  /\ \/ /\ v = w \/ n = 0
        /\ tries' = [tries EXCEPT ![w] = @ + 1]
        /\ UNCHANGED <<local, hand, batch, pc>>
     \/ /\ v # w /\ n > 0
        /\ hand' = [hand EXCEPT ![w] = Head(local[v])]
        /\ batch' = [batch EXCEPT ![w] = SubSeq(local[v], 2, n)]
        /\ local' = [local EXCEPT ![v] = SubSeq(@, n + 1, Len(@))]
        /\ tries' = [tries EXCEPT ![w] = 0]
        /\ Goto(w, "steal", "stash")
  /\ UNCHANGED <<global, outside, parking, tick, spins, shutdown>>

\* pop returns None to a worker that has no I/O in flight: it spins or parks.
Idle(w) ==
  /\ tries[w] = StealTries
  /\ Goto(w, "steal", IF spins[w] < SpinLimit THEN "check" ELSE "park")
  /\ tries' = [tries EXCEPT ![w] = 0]
  /\ spins' = [spins EXCEPT ![w] = IF @ < SpinLimit THEN @ + 1 ELSE 0]
  /\ UNCHANGED <<queues, parking, tick, shutdown>>

\* pop returns None to a worker that has I/O in flight, of a GVThread that is
\* blocked: it waits in its ring, where no push and no wake_all reaches it.
WaitIo(w) ==
  /\ tries[w] = StealTries /\ outside # {}
  /\ Goto(w, "steal", "ring")
  /\ tries' = [tries EXCEPT ![w] = 0]
  /\ spins' = [spins EXCEPT ![w] = 0]
  /\ UNCHANGED <<queues, parking, tick, shutdown>>

\* A completion ends the wait; the GVThread it is for is pushed without a hint,
\* unless it is not Blocked.
IoDone(w) ==
  /\ \/ Goto(w, "ring", "check") /\ UNCHANGED <<hand, outside>>
     \/ /\ Goto(w, "ring", "pushGlobal")
        /\ \E id \in outside :
             /\ hand' = [hand EXCEPT ![w] = id]
             /\ outside' = outside \ {id}
  /\ UNCHANGED <<local, global, batch, parking, counters, shutdown>>

\* The rest of the loot goes to the thief's local queue, or to the global
\* queue when that is full.
Stash(w) ==
  LET fits == Len(local[w]) < LocalCapacity IN
  /\ pc[w] = "stash"
  /\ \/ /\ batch[w] = <<>>
        /\ Got(w, "run")
        /\ UNCHANGED <<local, global, batch>>
     \/ /\ batch[w] # <<>>
        /\ local' = IF fits THEN [local EXCEPT ![w] = Append(@, Head(batch[w]))]
                            ELSE local
        /\ global' = IF fits THEN global ELSE Append(global, Head(batch[w]))
        /\ batch' = [batch EXCEPT ![w] = Tail(@)]
        /\ Goto(w, "stash", IF fits THEN "stash" ELSE "stashCount")
        /\ UNCHANGED spins
  /\ UNCHANGED <<hand, outside, parking, tries, tick, shutdown>>

-----------------------------------------------------------------------------
(* push *)

\* A spawner or waker picks an id to make ready.
Wake(p) ==
  /\ Goto(p, "ready", "pushGlobal")
  /\ \E id \in outside :
       /\ hand' = [hand EXCEPT ![p] = id]
       /\ outside' = outside \ {id}
  /\ UNCHANGED <<local, global, batch, parking, counters, shutdown>>

\* The GVThread blocked or finished.
Left(w) ==
  /\ Goto(w, "run", "check")
  /\ outside' = outside \cup {hand[w]}
  /\ hand' = [hand EXCEPT ![w] = NoId]
  /\ UNCHANGED <<local, global, batch, parking, counters, shutdown>>

\* The GVThread yielded: run_gvthread pushes it with its worker as the hint.
PushLocal(w) ==
  /\ \/ /\ Len(local[w]) < LocalCapacity
        /\ local' = [local EXCEPT ![w] = Append(@, hand[w])]
        /\ hand' = [hand EXCEPT ![w] = NoId]
        /\ Goto(w, "run", "count2")
     \/ /\ Len(local[w]) >= LocalCapacity
        /\ Goto(w, "run", "pushGlobal")
        /\ UNCHANGED <<local, hand>>
  /\ UNCHANGED <<global, batch, outside, parking, counters, shutdown>>

PushGlobal(t) ==
  /\ Goto(t, "pushGlobal", "count1")
  /\ global' = Append(global, hand[t])
  /\ hand' = [hand EXCEPT ![t] = NoId]
  /\ UNCHANGED <<local, batch, outside, parking, counters, shutdown>>

NotifyLabel(l) ==
  CASE l = "count1" -> "notify1" [] l = "count2" -> "notify2"
    [] l = "stashCount" -> "stashNotify"

\* Where a thread continues after it has read the counter or has notified.
AfterNotify(t, l) ==
  CASE l \in {"count1", "notify1"} -> "count2"
    [] l \in {"stashCount", "stashNotify"} -> "stash"
    [] l \in {"count2", "notify2"} -> IF t \in Worker THEN "check" ELSE "ready"

CountParked(t) ==
  /\ pc[t] \in {"count1", "count2", "stashCount"}
  /\ pc' = [pc EXCEPT ![t] = IF parked # {} THEN NotifyLabel(@)
                                            ELSE AfterNotify(t, @)]
  /\ UNCHANGED <<queues, parking, counters, shutdown>>

\* Condvar::notify_one: some waiter, if there is one.
NotifyOne(t) ==
  /\ pc[t] \in {"notify1", "notify2", "stashNotify"}
  /\ pc' = [pc EXCEPT ![t] = AfterNotify(t, @)]
  /\ \/ waiting = {} /\ UNCHANGED waiting
     \/ \E w \in waiting : waiting' = waiting \ {w}
  /\ UNCHANGED <<queues, parked, counters, shutdown>>

-----------------------------------------------------------------------------
(* parking *)

Park(w) ==
  /\ Goto(w, "park", "parkLock")
  /\ parked' = parked \cup {w}
  /\ UNCHANGED <<queues, waiting, counters, shutdown>>

\* Mutant: the queue is not looked at again under the mutex.
ParkLockUnchecked(w) ==
  /\ Goto(w, "parkLock", "waiting")
  /\ waiting' = waiting \cup {w}
  /\ UNCHANGED <<queues, parked, counters, shutdown>>

\* Under the mutex: wait only if the global queue is empty.
ParkLock(w) ==
  /\ Goto(w, "parkLock", "waiting")
  /\ waiting' = IF global = <<>> THEN waiting \cup {w} ELSE waiting
  /\ UNCHANGED <<queues, parked, counters, shutdown>>

\* wait_timeout expires (or wakes spuriously).
Timeout(w) ==
  /\ w \in waiting
  /\ waiting' = waiting \ {w}
  /\ UNCHANGED <<pc, queues, parked, counters, shutdown>>

\* A worker that does not wait, or no longer, leaves park.
Unpark(w) ==
  /\ w \notin waiting
  /\ Goto(w, "waiting", "check")
  /\ parked' = parked \ {w}
  /\ UNCHANGED <<queues, waiting, counters, shutdown>>

-----------------------------------------------------------------------------
(* shutdown *)

\* Mutant: the flag the workers read is not cleared.
ClearRunningForgotten ==
  /\ stop = "up" /\ stop' = "cleared"
  /\ UNCHANGED <<pc, queues, parking, counters, running>>

ClearRunning ==
  /\ stop = "up" /\ stop' = "cleared" /\ running' = FALSE
  /\ UNCHANGED <<pc, queues, parking, counters>>

WakeAll ==
  /\ stop = "cleared" /\ stop' = "joining" /\ waiting' = {}
  /\ UNCHANGED <<pc, queues, parked, counters, running>>

\* WorkerPool::join.
Joined ==
  /\ stop = "joining" /\ stop' = "down"
  /\ \A w \in Worker : pc[w] = "exited"
  /\ UNCHANGED <<pc, queues, parking, counters, running>>

\* The process may rest once the workers have been joined.
Finished == stop = "down" /\ UNCHANGED vars

-----------------------------------------------------------------------------

PopStep(w) ==
  \/ Check(w) \/ PopTick(w) \/ PopGlobalFirst(w) \/ PopLocal(w)
  \/ PopGlobal(w) \/ PopBatch(w) \/ FillLocal(w)
  \/ (\E v \in Worker : Steal(w, v)) \/ Idle(w) \/ WaitIo(w) \/ Stash(w)

ParkStep(w) == Park(w) \/ ParkLock(w) \/ Unpark(w)

PushStep(t) == PushGlobal(t) \/ CountParked(t) \/ NotifyOne(t)

\* The GVThread comes back to its worker.
Return(w) == PushLocal(w) \/ Left(w)

Next ==
  \/ \E w \in Worker : \/ PopStep(w) \/ ParkStep(w) \/ Return(w)
                       \/ Timeout(w) \/ IoDone(w)
  \/ \E t \in Thread : PushStep(t)
  \/ \E p \in Pusher : Wake(p)
  \/ ClearRunning \/ WakeAll \/ Joined \/ Finished

Spec == Init /\ [][Next]_vars

\* A thread that can take its next step takes it; a GVThread that runs comes
\* back to its worker (scheduling is cooperative).  Nothing obliges a pusher to
\* start a push, the kernel to finish an operation, anyone to shut down, or a
\* waiting worker to time out.
Fairness ==
  /\ \A w \in Worker : WF_vars(PopStep(w) \/ ParkStep(w) \/ Return(w))
  /\ \A t \in Thread : WF_vars(PushStep(t))

FairSpec == Spec /\ Fairness

\* The wait of a parked worker ends after GVT_PARK_TIMEOUT_MS, and the thread
\* that shuts down goes on.
TimeoutFairness ==
  /\ \A w \in Worker : WF_vars(Timeout(w))
  /\ WF_vars(WakeAll \/ Joined)

-----------------------------------------------------------------------------
(* properties *)

QueueType ==
  /\ local \in [Worker -> Seq(Id)] /\ batch \in [Worker -> Seq(Id)]
  /\ global \in Seq(Id)
  /\ hand \in [Thread -> Id \cup {NoId}]
  /\ outside \subseteq Id

LabelType ==
  /\ pc \in [Thread -> WorkerLabel \cup PusherLabel]
  /\ \A w \in Worker : pc[w] \in WorkerLabel
  /\ \A p \in Pusher : pc[p] \in PusherLabel

CounterType ==
  /\ tries \in [Worker -> 0 .. StealTries]
  /\ tick \in [Worker -> 0 .. GlobalCheckInterval - 1]
  /\ spins \in [Worker -> 0 .. SpinLimit]

ParkType ==
  /\ parked \subseteq Worker /\ waiting \subseteq Worker
  /\ running \in BOOLEAN /\ stop \in {"up", "cleared", "joining", "down"}

\* Every variable has its type.
TypeOK == QueueType /\ LabelType /\ CounterType /\ ParkType

Apart(s, t) == Range(s) \cap Range(t) = {}

\* The ids that pop can still return.
Queued ==
  Range(global) \cup UNION {Range(local[w]) \cup Range(batch[w]) : w \in Worker}

\* No id is queued twice: not within a queue, and not in two of them.
NoDuplicate ==
  /\ IsInjective(global)
  /\ \A w \in Worker : /\ IsInjective(local[w]) /\ IsInjective(batch[w])
                       /\ Apart(global, local[w]) /\ Apart(global, batch[w])
  /\ \A v, w \in Worker : /\ Apart(local[v], batch[w])
                          /\ v # w => /\ Apart(local[v], local[w])
                                      /\ Apart(batch[v], batch[w])

\* A thread that holds an id is its only holder, and the id is not queued.
HeldOnce ==
  \A t \in Thread : hand[t] # NoId =>
    /\ hand[t] \notin Queued \cup outside
    /\ \A u \in Thread : u # t => hand[u] # hand[t]

\* Every id is accounted for: no push, batch transfer or steal loses one.
NoneLost ==
  /\ Id \subseteq outside \cup Queued \cup Range(hand)
  /\ outside \cap Queued = {}

\* An id is in exactly one place.  This is what makes it safe for
\* SimpleQueue::pop to ignore the result of pushing a batch into the local
\* queue (simple.rs:306): batches, steals and overflowing pushes of several
\* workers neither lose nor duplicate an id.
Conservation == NoDuplicate /\ HeldOnce /\ NoneLost

\* Work in the global queue never waits for the park timeout, nor for the I/O of
\* one worker while another is parked: once the thread that pushed it has read
\* the parked counter and notified, some worker is awake.  GlobalQueue::park
\* counts the worker as parked before it takes the mutex and looks at the queue
\* under it; GlobalQueue::push reads the counter after it has released the
\* mutex.  When every worker waits in its ring there is nobody to notify.
NoLostWakeup ==
  /\ global # <<>> /\ waiting # {}
  /\ \A w \in Worker : w \in waiting \/ pc[w] = "ring"
  => \E t \in Thread : pc[t] \in {"count1", "notify1"}

\* The ready queue keeps its promise to the callers.
RS == INSTANCE ReadySet WITH held <- hand, ready <- Queued

ImplementsReadySet == RS!Spec

\* Every ready GVThread is eventually run, without the help of the park
\* timeout and although the GVThreads that run may yield for ever and other
\* workers wait for I/O that never comes: a worker serves its local queue in
\* order and looks at the global queue first every GLOBAL_CHECK_INTERVAL pops,
\* and its local queue is empty when it waits.  The exception is that every
\* worker waits in its ring: a GVThread made ready by another thread (spawn from
\* main, the timer) then depends on the next completion.
EventuallyRuns ==
  \A id \in Id : id \in Queued ~>
    (\E w \in Worker : hand[w] = id) \/ ~running \/ [](\A w \in Worker : pc[w] = "ring")

\* Shutdown joins every worker, also one that read SCHEDULER_RUNNING before it
\* was cleared and parks after wake_all; that worker needs the park timeout.
\* It does not return while a worker waits in its ring.
ShutdownCompletes ==
  TimeoutFairness =>
    (stop = "cleared" ~> stop = "down" \/ [](\E w \in Worker : pc[w] = "ring"))
===============================================================================
