------------------------------- MODULE Scheduler -------------------------------
(***************************************************************************)
(* The life of a GVThread: spawn, the worker's main loop and run_gvthread, *)
(* yield_now, block_current, wake_gvthread, the entry function's end, and  *)
(* blocking I/O on the io_uring of the worker the GVThread runs on.        *)
(*                                                                         *)
(* One step is one access to state that several threads use, together with *)
(* the thread's own computation around it.  The ready queue is abstracted  *)
(* to the number of times it contains each id (ReadyQueue models it), the  *)
(* slot allocator to its set of free slots.                                *)
(*                                                                         *)
(* The thread that spawns is always modelled as a thread of its own: when  *)
(* a GVThread spawns, the same steps are taken by its worker meanwhile     *)
(* standing at "run".  The threads in Waker call wake_gvthread; this       *)
(* module gives them nothing to wake, SchedulerSleep does.                 *)
(***************************************************************************)
EXTENDS Integers, FiniteSets

CONSTANTS Worker,   \* worker OS threads
          Spawner,  \* threads that call spawn
          Waker,    \* other threads that call wake_gvthread
          Slot,     \* GVThread slots, a GVThread is named by its slot
          NoSlot,   \* GVTHREAD_NONE
          Route,    \* the tiers that system calls are routed to
          CqBatch   \* completions one poll takes from a ring (256)

ASSUME SchedulerAssumption ==
  /\ Worker \cap Spawner = {} /\ Worker \cap Waker = {} /\ Spawner \cap Waker = {}
  /\ IsFiniteSet(Slot) /\ NoSlot \notin Slot
  /\ Route \subseteq {"iouring", "other"}
  /\ CqBatch \in Nat \ {0}

VARIABLES
  free,     \* slots the allocator can hand out
  st,       \* GVThreadMetadata.state
  gen,      \* GVThreadMetadata.generation
  ctx,      \* the saved registers: none, saved, or live (a worker runs on them)
  awaits,   \* the GVThread has submitted I/O and not yet read its result
  result,   \* the results slab holds the result of that I/O
  ready,    \* how many times the ready queue contains each slot
  pc,       \* where each OS thread is
  cur,      \* the slot a thread works on
  on,       \* the slot whose code a worker executes
  sq,       \* sq[w]: operations in the submission queue of w's ring
  kernel,   \* kernel[w]: operations of w's ring the kernel performs
  cq,       \* cq[w]: operations in the completion queue of w's ring
  inflight, \* BasicIoUring.inflight
  buf,      \* comp_buf: completions taken from the ring, not yet handled
  back,     \* where the poll in progress returns to
  missed    \* (history) GVThreads whose wake-up came before they were Blocked,
            \* or whose completion a poll dropped

slotVars == <<free, st, gen, ctx>>
ioVars == <<awaits, result, sq, kernel, cq, inflight, buf, back, missed>>
vars == <<free, st, gen, ctx, awaits, result, ready, pc, cur, on,
          sq, kernel, cq, inflight, buf, back, missed>>

Thread == Worker \cup Spawner \cup Waker

State == {"Created", "Ready", "Running", "Blocked", "Finished"}

WakeLabel == {"check", "setReady", "push"}

WorkerLabel == WakeLabel \cup
  {"poll", "drain", "pick", "pop", "waitIo", "setRunning", "switchIn",
   "run", "block", "switchOut", "return", "requeue", "finish", "deactivate",
   "release", "stop", "off"}

OtherLabel == WakeLabel \cup {"idle", "activate", "context", "verify"}

\* The pool has any number of workers (SchedulerConfig.num_workers), up to all
\* of Worker.
Init ==
  /\ free = Slot
  /\ st = [g \in Slot |-> "Created"]
  /\ gen = [g \in Slot |-> 0]
  /\ ctx = [g \in Slot |-> "none"]
  /\ awaits = [g \in Slot |-> FALSE] /\ result = [g \in Slot |-> FALSE]
  /\ ready = [g \in Slot |-> 0]
  /\ \E pool \in (SUBSET Worker) \ {{}} :
       pc = [t \in Thread |-> IF t \in pool THEN "poll"
                              ELSE IF t \in Worker THEN "off" ELSE "idle"]
  /\ cur = [t \in Thread |-> NoSlot]
  /\ on = [w \in Worker |-> NoSlot]
  /\ sq = [w \in Worker |-> {}]
  /\ kernel = [w \in Worker |-> {}]
  /\ cq = [w \in Worker |-> {}]
  /\ inflight = [w \in Worker |-> 0]
  /\ buf = [w \in Worker |-> {}]
  /\ back = [w \in Worker |-> "pop"]
  /\ missed = {}

Goto(t, label) == pc' = [pc EXCEPT ![t] = label]

----------------------------------------------------------------------------
(* spawn; its last two steps are SetReady and Push.                         *)

Allocate(t) ==
  /\ pc[t] = "idle"
  /\ \E g \in free :
       /\ free' = free \ {g}
       /\ cur' = [cur EXCEPT ![t] = g]
  /\ Goto(t, "activate")
  /\ UNCHANGED <<st, gen, ctx, ready, on, ioVars>>

\* activate_slot and GVThreadMetadata::init.
Activate(t) ==
  /\ pc[t] = "activate"
  /\ st' = [st EXCEPT ![cur[t]] = "Created"]
  /\ gen' = [gen EXCEPT ![cur[t]] = @ + 1]
  /\ awaits' = [awaits EXCEPT ![cur[t]] = FALSE]
  /\ Goto(t, "context")
  /\ UNCHANGED <<free, ctx, ready, cur, on, result, sq, kernel, cq, inflight,
                 buf, back, missed>>

\* Mutant: the registers are never initialised.
InitContextSkipped(t) ==
  /\ pc[t] = "context"
  /\ Goto(t, "setReady")
  /\ UNCHANGED <<slotVars, ready, cur, on, ioVars>>

InitContext(t) ==
  /\ pc[t] = "context"
  /\ ctx' = [ctx EXCEPT ![cur[t]] = "saved"]
  /\ Goto(t, "setReady")
  /\ UNCHANGED <<free, st, gen, ready, cur, on, ioVars>>

----------------------------------------------------------------------------
(* wake_gvthread: the state is read, then written, then the id is pushed.   *)

AfterWake(t) == IF t \in Worker THEN "pick" ELSE "idle"

WakeCheck(t) ==
  /\ pc[t] = "check"
  /\ IF st[cur[t]] = "Blocked"
     THEN Goto(t, "setReady") /\ UNCHANGED cur
     ELSE Goto(t, AfterWake(t)) /\ cur' = [cur EXCEPT ![t] = NoSlot]
  /\ UNCHANGED <<slotVars, ready, on, ioVars>>

SetReady(t) ==
  /\ pc[t] = "setReady"
  /\ st' = [st EXCEPT ![cur[t]] = "Ready"]
  /\ Goto(t, "push")
  /\ UNCHANGED <<free, gen, ctx, ready, cur, on, ioVars>>

Push(t) ==
  /\ pc[t] = "push"
  /\ ready' = [ready EXCEPT ![cur[t]] = @ + 1]
  /\ cur' = [cur EXCEPT ![t] = NoSlot]
  /\ Goto(t, AfterWake(t))
  /\ UNCHANGED <<slotVars, on, ioVars>>

----------------------------------------------------------------------------
(* WorkerReactorPool::poll and wait_and_poll.                               *)

\* Mutant: the submission queue is not flushed.
PollUnflushed(w) ==
  /\ pc[w] = "poll"
  /\ back' = [back EXCEPT ![w] = "pop"]
  /\ Goto(w, "drain")
  /\ UNCHANGED <<slotVars, awaits, result, ready, cur, on, sq, kernel, cq,
                 inflight, buf, missed>>

Poll(w) ==
  /\ pc[w] = "poll"
  /\ kernel' = [kernel EXCEPT ![w] = @ \cup sq[w]]
  /\ inflight' = [inflight EXCEPT ![w] = @ + Cardinality(sq[w])]
  /\ sq' = [sq EXCEPT ![w] = {}]
  /\ back' = [back EXCEPT ![w] = "pop"]
  /\ Goto(w, "drain")
  /\ UNCHANGED <<slotVars, awaits, result, ready, cur, on, cq, buf, missed>>

\* flush_and_wait returns when the ring has a completion; the submission
\* queue is empty, the poll of this round has flushed it.
WaitIo(w) ==
  /\ pc[w] = "waitIo"
  /\ cq[w] # {}
  /\ back' = [back EXCEPT ![w] = "poll"]
  /\ Goto(w, "drain")
  /\ UNCHANGED <<slotVars, awaits, result, ready, cur, on, sq, kernel, cq,
                 inflight, buf, missed>>

\* poll_completions on a completion queue S: when S has more than CqBatch
\* completions, the iterator has consumed one more when the loop stops.
Drained(S, taken, lost) ==
  IF Cardinality(S) <= CqBatch
  THEN taken = S /\ lost = {}
  ELSE Cardinality(taken) = CqBatch /\ \E g \in S \ taken : lost = {g}

Drain(w) ==
  /\ pc[w] = "drain"
  /\ \E taken \in SUBSET cq[w] : \E lost \in SUBSET cq[w] :
       /\ Drained(cq[w], taken, lost)
       /\ buf' = [buf EXCEPT ![w] = taken]
       /\ cq' = [cq EXCEPT ![w] = @ \ (taken \cup lost)]
       /\ inflight' = [inflight EXCEPT ![w] =
                         IF Cardinality(taken) <= @
                         THEN @ - Cardinality(taken) ELSE 0]
       /\ missed' = missed \cup lost
  /\ Goto(w, "pick")
  /\ UNCHANGED <<slotVars, awaits, result, ready, cur, on, sq, kernel, back>>

\* The result of one completion is stored; the wake-up follows.
Complete(w) ==
  /\ pc[w] = "pick"
  /\ \E g \in buf[w] :
       /\ buf' = [buf EXCEPT ![w] = @ \ {g}]
       /\ result' = [result EXCEPT ![g] = TRUE]
       /\ cur' = [cur EXCEPT ![w] = g]
  /\ Goto(w, "check")
  /\ UNCHANGED <<slotVars, awaits, ready, on, sq, kernel, cq, inflight, back,
                 missed>>

\* Mutant: the main loop starts over after every poll.
PollDoneAgain(w) ==
  /\ pc[w] = "pick"
  /\ buf[w] = {}
  /\ Goto(w, "poll")
  /\ UNCHANGED <<slotVars, ready, cur, on, ioVars>>

PollDone(w) ==
  /\ pc[w] = "pick"
  /\ buf[w] = {}
  /\ Goto(w, back[w])
  /\ UNCHANGED <<slotVars, ready, cur, on, ioVars>>

\* The kernel finishes an operation.
KernelDone(w, g) ==
  /\ g \in kernel[w]
  /\ kernel' = [kernel EXCEPT ![w] = @ \ {g}]
  /\ cq' = [cq EXCEPT ![w] = @ \cup {g}]
  /\ UNCHANGED <<slotVars, awaits, result, ready, pc, cur, on, sq, inflight,
                 buf, back, missed>>

----------------------------------------------------------------------------
(* worker_main_loop and run_gvthread.                                       *)

Pop(w, g) ==
  /\ pc[w] = "pop"
  /\ ready[g] # 0
  /\ ready' = [ready EXCEPT ![g] = @ - 1]
  /\ cur' = [cur EXCEPT ![w] = g]
  /\ Goto(w, "setRunning")
  /\ UNCHANGED <<slotVars, on, ioVars>>

\* A worker that neither pushes nor pops: it waits in its ring, or was never
\* started.  Its local queue is empty.
Away(w) == pc[w] \in {"waitIo", "off"}

\* pop found nothing.  It looks at one queue after the other, so this may
\* happen although an id is ready, but not when the other workers are away: it
\* sees the global queue and its own.  Spinning and parking end by themselves
\* (the park has a timeout); waiting on the ring does not.
PopNone(w) ==
  /\ pc[w] = "pop"
  /\ (\A g \in Slot : ready[g] = 0) \/ (\E v \in Worker \ {w} : ~Away(v))
  /\ Goto(w, IF inflight[w] > 0 THEN "waitIo" ELSE "poll")
  /\ UNCHANGED <<slotVars, ready, cur, on, ioVars>>

SetRunning(w) ==
  /\ pc[w] = "setRunning"
  /\ st' = [st EXCEPT ![cur[w]] = "Running"]
  /\ Goto(w, "switchIn")
  /\ UNCHANGED <<free, gen, ctx, ready, cur, on, ioVars>>

\* The switch into the GVThread.  One that comes out of block_current after a
\* submit reads the result of its I/O.
SwitchIn(w) ==
  /\ pc[w] = "switchIn"
  /\ ctx' = [ctx EXCEPT ![cur[w]] = "live"]
  /\ on' = [on EXCEPT ![w] = cur[w]]
  /\ awaits' = [awaits EXCEPT ![cur[w]] = FALSE]
  /\ Goto(w, "run")
  /\ UNCHANGED <<free, st, gen, ready, cur, result, sq, kernel, cq, inflight,
                 buf, back, missed>>

\* Mutant: the GVThread adds itself to the queue before it switches away.
YieldPushes(w) ==
  /\ pc[w] = "run"
  /\ st' = [st EXCEPT ![on[w]] = "Ready"]
  /\ ready' = [ready EXCEPT ![on[w]] = @ + 1]
  /\ Goto(w, "switchOut")
  /\ UNCHANGED <<free, gen, ctx, cur, on, ioVars>>

\* yield_now up to the switch.
Yield(w) ==
  /\ pc[w] = "run"
  /\ st' = [st EXCEPT ![on[w]] = "Ready"]
  /\ Goto(w, "switchOut")
  /\ UNCHANGED <<free, gen, ctx, ready, cur, on, ioVars>>

\* The closure returns: gvthread_finished up to the switch.
Finish(w) ==
  /\ pc[w] = "run"
  /\ st' = [st EXCEPT ![on[w]] = "Finished"]
  /\ Goto(w, "switchOut")
  /\ UNCHANGED <<free, gen, ctx, ready, cur, on, ioVars>>

\* submit_and_park_worker, the submit: the operation enters the ring of the
\* worker the GVThread runs on.
Submit(w) ==
  /\ pc[w] = "run"
  /\ "iouring" \in Route
  /\ sq' = [sq EXCEPT ![w] = @ \cup {on[w]}]
  /\ awaits' = [awaits EXCEPT ![on[w]] = TRUE]
  /\ result' = [result EXCEPT ![on[w]] = FALSE]
  /\ Goto(w, "block")
  /\ UNCHANGED <<slotVars, ready, cur, on, kernel, cq, inflight, buf, back,
                 missed>>

\* The submit of a call that the ring does not take: the error is stored and
\* wake_gvthread is called before the GVThread blocks.
Refuse(w) ==
  /\ pc[w] = "run"
  /\ "other" \in Route
  /\ awaits' = [awaits EXCEPT ![on[w]] = TRUE]
  /\ result' = [result EXCEPT ![on[w]] = TRUE]
  /\ IF st[on[w]] = "Blocked"
     THEN /\ st' = [st EXCEPT ![on[w]] = "Ready"]
          /\ ready' = [ready EXCEPT ![on[w]] = @ + 1]
          /\ UNCHANGED missed
     ELSE missed' = missed \cup {on[w]} /\ UNCHANGED <<st, ready>>
  /\ Goto(w, "block")
  /\ UNCHANGED <<free, gen, ctx, cur, on, sq, kernel, cq, inflight, buf, back>>

\* block_current up to the switch.
Block(w) ==
  /\ pc[w] = "block"
  /\ st' = [st EXCEPT ![on[w]] = "Blocked"]
  /\ Goto(w, "switchOut")
  /\ UNCHANGED <<free, gen, ctx, ready, cur, on, ioVars>>

\* context_switch_voluntary back to the worker: the registers are saved.
SwitchOut(w) ==
  /\ pc[w] = "switchOut"
  /\ ctx' = [ctx EXCEPT ![on[w]] = "saved"]
  /\ on' = [on EXCEPT ![w] = NoSlot]
  /\ Goto(w, "return")
  /\ UNCHANGED <<free, st, gen, ready, cur, ioVars>>

\* Mutant: a GVThread that yielded is not added to the queue again.
ReturnForgets(w) ==
  /\ pc[w] = "return"
  /\ Goto(w, CASE st[cur[w]] = "Finished" -> "finish"
               [] OTHER -> "stop")
  /\ UNCHANGED <<slotVars, ready, cur, on, ioVars>>

Return(w) ==
  /\ pc[w] = "return"
  /\ Goto(w, CASE st[cur[w]] = "Ready" -> "requeue"
               [] st[cur[w]] = "Finished" -> "finish"
               [] OTHER -> "stop")
  /\ UNCHANGED <<slotVars, ready, cur, on, ioVars>>

Requeue(w) ==
  /\ pc[w] = "requeue"
  /\ ready' = [ready EXCEPT ![cur[w]] = @ + 1]
  /\ Goto(w, "stop")
  /\ UNCHANGED <<slotVars, cur, on, ioVars>>

\* mark_finished: the state, the slot's memory, the slot.
MarkFinished(w) ==
  /\ pc[w] = "finish"
  /\ st' = [st EXCEPT ![cur[w]] = "Finished"]
  /\ Goto(w, "deactivate")
  /\ UNCHANGED <<free, gen, ctx, ready, cur, on, ioVars>>

\* madvise(MADV_DONTNEED): the slot, its metadata included, reads as zeros.
Deactivate(w) ==
  /\ pc[w] = "deactivate"
  /\ st' = [st EXCEPT ![cur[w]] = "Created"]
  /\ gen' = [gen EXCEPT ![cur[w]] = 0]
  /\ ctx' = [ctx EXCEPT ![cur[w]] = "none"]
  /\ Goto(w, "release")
  /\ UNCHANGED <<free, ready, cur, on, ioVars>>

Release(w) ==
  /\ pc[w] = "release"
  /\ free' = free \cup {cur[w]}
  /\ Goto(w, "stop")
  /\ UNCHANGED <<st, gen, ctx, ready, cur, on, ioVars>>

StopRunning(w) ==
  /\ pc[w] = "stop"
  /\ cur' = [cur EXCEPT ![w] = NoSlot]
  /\ Goto(w, "poll")
  /\ UNCHANGED <<slotVars, ready, on, ioVars>>

----------------------------------------------------------------------------
Wake(t) == WakeCheck(t) \/ SetReady(t) \/ Push(t)

Spawn(t) == Allocate(t) \/ Activate(t) \/ InitContext(t)

Reap(w) == Poll(w) \/ WaitIo(w) \/ Drain(w) \/ Complete(w) \/ PollDone(w)

Take(w) == PopNone(w) \/ \E g \in Slot : Pop(w, g)

User(w) == Yield(w) \/ Finish(w) \/ Submit(w) \/ Refuse(w)

Run(w) ==
  \/ SetRunning(w) \/ SwitchIn(w) \/ Block(w) \/ SwitchOut(w) \/ Return(w)
  \/ Requeue(w) \/ MarkFinished(w) \/ Deactivate(w) \/ Release(w)
  \/ StopRunning(w)

Next ==
  \/ \E t \in Thread : Wake(t)
  \/ \E t \in Spawner : Spawn(t)
  \/ \E w \in Worker : Reap(w) \/ Take(w) \/ User(w) \/ Run(w)
  \/ \E w \in Worker, g \in Slot : KernelDone(w, g)

Spec == Init /\ [][Next]_vars

\* Every OS thread runs on, a GVThread gives its worker back, and an id that
\* stays ready while workers pop is popped, which the ready queue provides
\* (ReadyQueue!EventuallyRuns).  Nothing obliges the kernel to finish an
\* operation: an accept or a recv may wait for ever.
Fairness ==
  /\ \A t \in Thread : WF_vars(Wake(t))
  /\ \A t \in Spawner : WF_vars(Activate(t) \/ InitContext(t))
  /\ \A w \in Worker : WF_vars(Reap(w)) /\ WF_vars(Take(w))
  /\ \A w \in Worker : WF_vars(User(w)) /\ WF_vars(Run(w))
  /\ \A g \in Slot : SF_vars(\E w \in Worker : Pop(w, g))

FairSpec == Spec /\ Fairness

----------------------------------------------------------------------------
SlotType ==
  /\ free \subseteq Slot
  /\ st \in [Slot -> State]
  /\ gen \in [Slot -> Nat]
  /\ ctx \in [Slot -> {"none", "saved", "live"}]
  /\ ready \in [Slot -> Nat]

LabelType ==
  /\ pc \in [Thread -> WorkerLabel \cup OtherLabel]
  /\ \A w \in Worker : pc[w] \in WorkerLabel
  /\ \A t \in Thread \ Worker : pc[t] \in OtherLabel
  /\ back \in [Worker -> {"pop", "poll"}]

HandType ==
  /\ cur \in [Thread -> Slot \cup {NoSlot}]
  /\ on \in [Worker -> Slot \cup {NoSlot}]

RingType ==
  /\ awaits \in [Slot -> BOOLEAN] /\ result \in [Slot -> BOOLEAN]
  /\ sq \in [Worker -> SUBSET Slot]
  /\ kernel \in [Worker -> SUBSET Slot]
  /\ cq \in [Worker -> SUBSET Slot]
  /\ buf \in [Worker -> SUBSET Slot]
  /\ inflight \in [Worker -> Nat]
  /\ missed \subseteq Slot

\* Every variable has its type (the fields of GVThreadMetadata, the ready
\* queue, the workers' rings).
TypeOK == SlotType /\ LabelType /\ HandType /\ RingType

\* The thread is responsible for the slot it works on: it spawns it, wakes
\* it, or has popped it and not yet given it back.
HoldLabel ==
  {"activate", "context", "verify", "check", "setReady", "push", "setRunning",
   "switchIn", "run", "block", "switchOut", "return", "requeue", "finish",
   "deactivate", "release"}

Holds(t, g) == cur[t] = g /\ pc[t] \in HoldLabel

InRing(w, g) == g \in sq[w] \cup kernel[w] \cup cq[w] \cup buf[w]

\* A slot is queued at most once, and a queued slot is in nobody's hands.
QueuedApart ==
  \A g \in Slot : ready[g] # 0 =>
    /\ ready[g] = 1 /\ g \notin free
    /\ \A t \in Thread : ~Holds(t, g)
    /\ \A w \in Worker : ~InRing(w, g)

\* A free slot is in nobody's hands and no I/O refers to it.
FreeApart ==
  \A g \in free :
    /\ \A t \in Thread : ~Holds(t, g)
    /\ \A w \in Worker : ~InRing(w, g)

\* Two threads are never responsible for one slot.
HeldApart ==
  \A t, u \in Thread, g \in Slot : Holds(t, g) /\ Holds(u, g) => t = u

\* I/O is pending on one ring, and only the ring's worker may still be
\* between the submit and the end of run_gvthread for that GVThread.
RingApart ==
  \A w \in Worker, g \in Slot : InRing(w, g) =>
    /\ \A v \in Worker : InRing(v, g) => v = w
    /\ \A t \in Thread : Holds(t, g) => t = w

\* Spawn, yield, block, wake and finish never put one GVThread in two places:
\* not twice in the ready queue, not ready while a worker still switches away
\* from it, not free while a thread or a completion refers to it.
OnePlace == QueuedApart /\ FreeApart /\ HeldApart /\ RingApart

\* No two workers execute the same GVThread.
SingleRunner ==
  \A w, v \in Worker : on[w] = on[v] /\ on[w] # NoSlot => w = v

\* A worker switches only to registers that were saved completely, and to a
\* GVThread that waits for I/O only when its result has been stored.
ResumesSaved ==
  \A w \in Worker : pc[w] = "switchIn" =>
    /\ ctx[cur[w]] = "saved"
    /\ awaits[cur[w]] => result[cur[w]]

\* The slot is free, or its GVThread is ready, in the hands of a thread, or
\* waits for I/O that its worker will find.
Placed(g) ==
  \/ g \in free \/ ready[g] # 0
  \/ \E t \in Thread : Holds(t, g)
  \/ \E w \in Worker : InRing(w, g)

\* A GVThread that exists is somewhere: none is forgotten.
NoneStranded == \A g \in Slot : Placed(g)

\* A GVThread is forgotten in two ways only: the submit of its call failed, and
\* the wake-up for the error came before it blocked; or poll_completions dropped
\* its completion.
NoneForgotten == \A g \in Slot : Placed(g) \/ g \in missed

\* Every worker waits in its ring, for ever.
AllAway == [](\A w \in Worker : Away(w))

\* A GVThread that waits in submit_and_park_worker resumes, unless the kernel
\* does not finish its operation or its wake-up was missed.
IoResumes ==
  \A g \in Slot :
    awaits[g] ~> ~awaits[g] \/ g \in missed \/ [](\E w \in Worker : g \in kernel[w])

\* A GVThread in the ready queue is executed, unless every worker waits in its
\* ring: a push reaches none of them.
ReadyRuns == \A g \in Slot : ready[g] # 0 ~> (\E w \in Worker : on[w] = g) \/ AllAway
===============================================================================
