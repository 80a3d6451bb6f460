------------------------------- MODULE Dispatcher -------------------------------
(***************************************************************************)
(* The KSVC service: GVThreads put system calls on a shared submit ring,    *)
(* one dispatcher thread takes them, routes them to io_uring or to a pool   *)
(* of worker threads, and writes completions on a second ring, ringing an   *)
(* eventfd.                                                                 *)
(*                                                                          *)
(*   submit ring       ksvc-module/src/submit_ring.rs (producers) and       *)
(*                     ksvc-executor/src/lib.rs SubmitRing (consumer)       *)
(*   dispatcher_loop   ksvc-executor/src/lib.rs                             *)
(*   worker pool       ksvc-module/src/fixed_pool.rs                        *)
(*   completion ring   ksvc-executor/src/lib.rs CompletionRing              *)
(*   notifier          ksvc-module/src/eventfd_notifier.rs                  *)
(*                                                                          *)
(* A producer is a GVThread, whose id is the correlation id; it has one     *)
(* call outstanding.  The handler that reads the completion ring is not in  *)
(* the repository: Wait and Take are what the ring's layout asks of it.     *)
(***************************************************************************)
EXTENDS BasicIoUring, Integers

CONSTANTS
  Producer,     \* the GVThreads
  PoolWorker,   \* the threads of the pool
  OpLimit,      \* bound on the calls of each GVThread
  SubmitSize,   \* entries of the submit ring
  MaxBatch, MaxWorker,  \* DispatcherConfig::max_batch, max_worker_completions
  Sizings,      \* the records [comp, io, sq, depth, translates, nrs] to choose from:
                \* the capacities, the backend, the calls made
  None

ASSUME DispatcherAssumption == SubmitSize \in Nat \ {0} /\ MaxBatch \in Nat

VARIABLES
  head, tail, slots,    \* the submit ring
  prod,                 \* a producer's place in try_push, and what it read
  calls,                \* calls made so far
  pc, dtail, local_head, batch, buf,   \* the dispatcher
  ring,                 \* its io_uring
  work, results, hand, pool_down,      \* the pool
  chead, ctail, local_tail, cslots,    \* the completion ring
  eventfd, handler,     \* the notification, and the handler's place
  down,                 \* the dispatcher's shutdown flag
  sizing,
  lost,                 \* history: calls whose completion was dropped
  overtaken             \* history: a slot was read before it was written

submitVars == <<head, tail, slots>>
poolVars == <<work, results, hand, pool_down>>
compVars == <<chead, ctail, local_tail, cslots>>
notifyVars == <<eventfd, handler>>
dispVars == <<dtail, local_head, batch, buf>>
rest == <<down, sizing, overtaken>>
vars == <<submitVars, prod, calls, pc, dtail, local_head, batch, buf, ring,
          poolVars, compVars, notifyVars, rest, lost>>

(* A slot nobody has written: read(0, ...) for nobody's GVThread. *)
Zeroes == [id |-> None, nr |-> "read"]

(* The rings and the pool when they are new. *)
InitSubmit == head = 0 /\ tail = 0 /\ slots = [i \in 0..(SubmitSize - 1) |-> Zeroes]

InitPool ==
  /\ work = <<>> /\ results = <<>> /\ pool_down = FALSE
  /\ hand = [w \in PoolWorker |-> None]

InitComp ==
  /\ chead = 0 /\ ctail = 0 /\ local_tail = 0
  /\ cslots = [i \in 0..(sizing.comp - 1) |-> None]

Init ==
  /\ sizing \in Sizings
  /\ InitSubmit /\ InitPool /\ InitComp
  /\ prod = [p \in Producer |-> [at |-> "idle", tail |-> 0, nr |-> None]]
  /\ calls = [p \in Producer |-> 0]
  /\ pc = "top" /\ dtail = 0 /\ local_head = 0 /\ batch = <<>> /\ buf = <<>>
  /\ ring = NewRing
  /\ eventfd = 0 /\ handler = "wait"
  /\ down = FALSE /\ lost = {} /\ overtaken = FALSE

--------------------------------------------------------------------------------
(* SubmitRing::try_push, one load at a time. *)

StartPush(p) ==
  /\ prod[p].at = "idle" /\ calls[p] < OpLimit[p]
  /\ \E nr \in sizing.nrs : prod' = [prod EXCEPT ![p] = [at |-> "full?", tail |-> tail, nr |-> nr]]
  /\ calls' = [calls EXCEPT ![p] = @ + 1]
  /\ UNCHANGED <<submitVars, pc, dispVars, ring, poolVars, compVars, notifyVars, rest, lost>>

(* Mutant: a ring taken for full one entry too late. *)
CheckFullLate(p) ==
  /\ prod[p].at = "full?"
  /\ prod' = [prod EXCEPT ![p].at =
               IF prod[p].tail - head \in 0..SubmitSize THEN "claim" ELSE "idle"]
  /\ UNCHANGED <<submitVars, calls, pc, dispVars, ring, poolVars, compVars, notifyVars, rest, lost>>

(* The fullness test compares the tail that was read with the head of now;  *)
(* with the head already past that tail the difference wraps around, and    *)
(* the ring is taken for full.                                              *)
CheckFull(p) ==
  /\ prod[p].at = "full?"
  /\ prod' = [prod EXCEPT ![p].at =
               IF prod[p].tail - head \in 0..(SubmitSize - 1) THEN "claim" ELSE "idle"]
  /\ UNCHANGED <<submitVars, calls, pc, dispVars, ring, poolVars, compVars, notifyVars, rest, lost>>

(* compare_exchange_weak on the tail; a failure reads the tail again.  A    *)
(* failure without reason would read the same tail.                         *)
Claim(p) ==
  /\ prod[p].at = "claim"
  /\ \/ /\ tail = prod[p].tail
        /\ tail' = tail + 1
        /\ prod' = [prod EXCEPT ![p].at = "write"]
     \/ /\ tail # prod[p].tail
        /\ prod' = [prod EXCEPT ![p].at = "full?", ![p].tail = tail]
        /\ UNCHANGED tail
  /\ UNCHANGED <<head, slots, calls, pc, dispVars, ring, poolVars, compVars, notifyVars, rest, lost>>

(* The entry is written into the claimed slot; the call is submitted. *)
WriteEntry(p) ==
  /\ prod[p].at = "write"
  /\ slots' = [slots EXCEPT ![prod[p].tail % SubmitSize] = [id |-> p, nr |-> prod[p].nr]]
  /\ prod' = [prod EXCEPT ![p].at = "parked"]
  /\ UNCHANGED <<head, tail, calls, pc, dispVars, ring, poolVars, compVars, notifyVars, rest, lost>>

--------------------------------------------------------------------------------
(* CompletionRing::push, flush.  push answers FALSE on a full ring and the  *)
(* loop ignores the answer.                                                 *)

Completion(id, result) == [id |-> id, result |-> result]

(* Mutant: a full ring is not noticed. *)
PushOntoFull(c) ==
  /\ cslots' = [cslots EXCEPT ![local_tail % sizing.comp] = c]
  /\ local_tail' = local_tail + 1
  /\ UNCHANGED lost

push(c) ==
  \/ /\ local_tail - chead < sizing.comp
     /\ cslots' = [cslots EXCEPT ![local_tail % sizing.comp] = c]
     /\ local_tail' = local_tail + 1
     /\ UNCHANGED lost
  \/ /\ local_tail - chead = sizing.comp
     /\ lost' = lost \cup {c.id}
     /\ UNCHANGED <<cslots, local_tail>>

--------------------------------------------------------------------------------
(* dispatcher_loop. *)

(* Step 1, also the first drain after the loop. *)
DrainIo ==
  /\ pc \in {"top", "last"}
  /\ \/ /\ pc = "top" /\ down /\ pc' = "last"
        /\ UNCHANGED <<buf, ring, lost>>
     \/ /\ pc = "top" => ~down
        /\ buf' = Polled(ring, sizing.io)
        /\ ring' = poll_completions(ring, sizing.io)
        /\ lost' = lost \cup DroppedByPoll(ring, sizing.io)
        /\ pc' = IF pc = "top" THEN "io" ELSE "last io"
  /\ UNCHANGED <<submitVars, prod, calls, dtail, local_head, batch, poolVars,
                 compVars, notifyVars, rest>>

(* Each completion polled is pushed in turn. *)
PushBuffered ==
  /\ pc \in {"io", "pool", "last io", "last pool"} /\ buf # <<>>
  /\ push(Completion(Head(buf).id, Head(buf).result))
  /\ buf' = Tail(buf)
  /\ UNCHANGED <<submitVars, prod, calls, pc, dtail, local_head, batch, ring, poolVars,
                 chead, ctail, notifyVars, rest>>

(* Step 2: FixedPool::poll_completions. *)
DrainPool ==
  /\ pc \in {"io", "last io"} /\ buf = <<>>
  /\ buf' = SubSeq(results, 1, Min({MaxWorker, Len(results)}))
  /\ results' = SubSeq(results, Len(buf') + 1, Len(results))
  /\ pc' = IF pc = "io" THEN "pool" ELSE "last pool"
  /\ UNCHANGED <<submitVars, prod, calls, dtail, local_head, batch, ring, work, hand,
                 pool_down, compVars, notifyVars, rest, lost>>

(* Steps 3 and 6b and the last flush: the tail is published if anything was *)
(* pushed, and then the eventfd is rung.                                    *)
Flush ==
  /\ \/ pc \in {"pool", "last pool"} /\ buf = <<>>
     \/ pc = "kicked"
  /\ ctail' = local_tail
  /\ pc' = IF local_tail > ctail
           THEN CASE pc = "pool" -> "ring it" [] pc = "kicked" -> "ring it 2"
                  [] OTHER -> "ring it last"
           ELSE CASE pc = "pool" -> "dequeue" [] pc = "kicked" -> "top"
                  [] OTHER -> "stop pool"
  /\ UNCHANGED <<submitVars, prod, calls, dispVars, ring, poolVars,
                 chead, local_tail, cslots, notifyVars, rest, lost>>

(* EventFdNotifier::notify: a pending notification absorbs the next one. *)
Notify ==
  /\ pc \in {"ring it", "ring it 2", "ring it last"}
  /\ eventfd' = 1
  /\ pc' = CASE pc = "ring it" -> "dequeue" [] pc = "ring it 2" -> "top"
             [] OTHER -> "stop pool"
  /\ UNCHANGED <<submitVars, prod, calls, dispVars, ring, poolVars,
                 compVars, handler, rest, lost>>

(* Step 4, dequeue_batch: load the tail ... *)
ReadTail ==
  /\ pc = "dequeue"
  /\ dtail' = tail /\ pc' = "copy"
  /\ UNCHANGED <<submitVars, prod, calls, local_head, batch, buf, ring, poolVars,
                 compVars, notifyVars, rest, lost>>

(* A slot whose claimant has not written it yet. *)
Unwritten(i) == \E p \in Producer : prod[p].at = "write" /\ prod[p].tail = i

(* ... copy the entries, and publish the new head.                          *)
(* An unwritten slot holds what it last held: zeroes or an older entry.     *)
Copy ==
  LET count == Min({dtail - local_head, MaxBatch})
      taken == local_head..(local_head + count - 1)
  IN /\ pc = "copy"
     /\ batch' = [k \in 1..count |-> slots[(local_head + k - 1) % SubmitSize]]
     /\ overtaken' = (overtaken \/ \E i \in taken : Unwritten(i))
     /\ local_head' = local_head + count
     /\ head' = local_head + count
     /\ pc' = "route"
     /\ UNCHANGED <<tail, slots, prod, calls, dtail, buf, ring, poolVars, compVars,
                    notifyVars, down, sizing, lost>>

--------------------------------------------------------------------------------
(* Step 5: one entry of the batch. *)

supported == all_opcodes

(* IoBackend::submit.  BasicIoUring's is a stub that always answers         *)
(* Unsupported (translates = FALSE); a backend that keeps the trait's       *)
(* contract queues the call or answers RingFull.                            *)
BackendSubmit(nr) ==
  IF ~sizing.translates THEN "Unsupported"
  ELSE Outcome(ring, sizing.sq, route(supported, nr).opcode)

(* FixedPool::enqueue: refused when the pool is down or its queue full. *)
Accepts == ~pool_down /\ Len(work) < sizing.depth

Route ==
  LET e == Head(batch)
      tier == route(supported, e.nr).tier
  IN /\ pc = "route" /\ batch # <<>>
     /\ batch' = Tail(batch)
     /\ \/ /\ tier \in {"SharedPage", "Legacy"}
           /\ push(Completion(e.id, "ENOSYS"))
           /\ UNCHANGED <<ring, poolVars>>
        \/ /\ tier = "IoUring" /\ BackendSubmit(e.nr) = "Ok"
           /\ ring' = Pushed(ring, e.id)
           /\ UNCHANGED <<cslots, local_tail, lost, poolVars>>
        \/ /\ tier = "IoUring" /\ BackendSubmit(e.nr) # "Ok"
           /\ push(Completion(e.id, IF BackendSubmit(e.nr) = "RingFull" THEN "EAGAIN" ELSE "ENOSYS"))
           /\ UNCHANGED <<ring, poolVars>>
        \/ /\ tier = "WorkerPool" /\ Accepts
           /\ work' = Append(work, e)
           /\ UNCHANGED <<cslots, local_tail, lost, ring, results, hand, pool_down>>
        \/ /\ tier = "WorkerPool" /\ ~Accepts
           /\ push(Completion(e.id, "EAGAIN"))
           /\ UNCHANGED <<ring, poolVars>>
     /\ UNCHANGED <<submitVars, prod, calls, pc, dtail, local_head, buf, chead, ctail,
                    notifyVars, rest>>

(* Mutant: submissions held back until the queue is full. *)
KickWhenFull ==
  /\ pc = "route" /\ batch = <<>>
  /\ ring' = IF Len(ring.sq) = sizing.sq THEN flush(ring) ELSE ring
  /\ pc' = "kicked"
  /\ UNCHANGED <<submitVars, prod, calls, dispVars, poolVars, compVars, notifyVars, rest, lost>>

(* Step 6. *)
Kick ==
  /\ pc = "route" /\ batch = <<>>
  /\ ring' = flush(ring)
  /\ pc' = "kicked"
  /\ UNCHANGED <<submitVars, prod, calls, dispVars, poolVars,
                 compVars, notifyVars, rest, lost>>

(* The last line of dispatcher_loop: worker_pool.shutdown(). *)
StopPool ==
  /\ pc = "stop pool"
  /\ pool_down' = TRUE /\ pc' = "stopped"
  /\ UNCHANGED <<submitVars, prod, calls, dispVars, ring, work,
                 results, hand, compVars, notifyVars, rest, lost>>

Shutdown ==
  /\ ~down /\ down' = TRUE
  /\ UNCHANGED <<submitVars, prod, calls, pc, dispVars, ring, poolVars,
                 compVars, notifyVars, sizing, lost, overtaken>>

--------------------------------------------------------------------------------
(* The kernel, and worker_loop of the pool. *)

KernelStep ==
  /\ \E id \in ring.kernel : ring' = KernelCompletes(ring, id, "done")
  /\ UNCHANGED <<submitVars, prod, calls, pc, dispVars, poolVars,
                 compVars, notifyVars, rest, lost>>

WorkerPops(w) ==
  /\ hand[w] = None /\ ~pool_down /\ work # <<>>
  /\ hand' = [hand EXCEPT ![w] = Head(work)]
  /\ work' = Tail(work)
  /\ UNCHANGED <<submitVars, prod, calls, pc, dispVars, ring, results,
                 pool_down, compVars, notifyVars, rest, lost>>

(* The result is pushed; with the queue full the worker tries again, and    *)
(* gives up after 1000 tries or on shutdown.                                *)
WorkerPushes(w) ==
  /\ hand[w] # None
  /\ \/ /\ Len(results) < sizing.depth
        /\ results' = Append(results, Completion(hand[w].id, "done"))
        /\ UNCHANGED lost
     \/ /\ Len(results) = sizing.depth
        /\ lost' = lost \cup {hand[w].id}
        /\ UNCHANGED results
  /\ hand' = [hand EXCEPT ![w] = None]
  /\ UNCHANGED <<submitVars, prod, calls, pc, dispVars, ring, work,
                 pool_down, compVars, notifyVars, rest>>

--------------------------------------------------------------------------------
(* The completion handler: wait for the eventfd, then take what the ring    *)
(* holds and resume the callers.                                            *)

Wait ==
  /\ handler = "wait" /\ eventfd = 1
  /\ eventfd' = 0 /\ handler' = "take"
  /\ UNCHANGED <<submitVars, prod, calls, pc, dispVars, ring, poolVars,
                 compVars, rest, lost>>

Unread == {cslots[i % sizing.comp].id : i \in chead..(ctail - 1)}

Take ==
  /\ handler = "take"
  /\ prod' = [p \in Producer |->
                IF p \in Unread /\ prod[p].at = "parked"
                THEN [prod[p] EXCEPT !.at = "idle"] ELSE prod[p]]
  /\ chead' = ctail
  /\ handler' = "wait"
  /\ UNCHANGED <<submitVars, calls, pc, dispVars, ring, poolVars,
                 ctail, local_tail, cslots, eventfd, rest, lost>>

(* Past an early read the entries are stale or torn, nothing is claimed of  *)
(* them, and the behaviour is followed no further.                          *)
Finished ==
  /\ overtaken \/ (pc = "stopped" /\ \A p \in Producer : prod[p].at \in {"idle", "parked"})
  /\ UNCHANGED vars

Dispatch ==
  \/ DrainIo \/ PushBuffered \/ DrainPool \/ Flush \/ Notify
  \/ ReadTail \/ Copy \/ Route \/ Kick \/ StopPool

Step ==
  \/ \E p \in Producer : StartPush(p) \/ CheckFull(p) \/ Claim(p) \/ WriteEntry(p)
  \/ Dispatch \/ Shutdown \/ KernelStep
  \/ \E w \in PoolWorker : WorkerPops(w) \/ WorkerPushes(w)
  \/ Wait \/ Take

Next == (~overtaken /\ Step) \/ Finished

(* Every thread keeps running, and the kernel finishes what it took. *)
Fairness ==
  /\ WF_vars(~overtaken /\ Dispatch) /\ WF_vars(~overtaken /\ KernelStep)
  /\ WF_vars(~overtaken /\ (Wait \/ Take))
  /\ \A p \in Producer : WF_vars(~overtaken /\ (CheckFull(p) \/ Claim(p) \/ WriteEntry(p)))
  /\ \A w \in PoolWorker : WF_vars(~overtaken /\ (WorkerPops(w) \/ WorkerPushes(w)))

Spec == Init /\ [][Next]_vars /\ Fairness

--------------------------------------------------------------------------------
(* try_push and dequeue_batch: however the loads of several producers and   *)
(* of the dispatcher interleave, the tail stays between the head and the    *)
(* head plus the size of the ring.                                          *)
SubmitBounded == tail - head \in 0..SubmitSize

(* How often a call of p is somewhere on its way. *)
Copies(p) ==
  LET in(s) == Cardinality({i \in DOMAIN s : s[i].id = p})
      at(s) == IF p \in s THEN 1 ELSE 0
  IN Cardinality({i \in head..(tail - 1) : ~Unwritten(i) /\ slots[i % SubmitSize].id = p})
     + in(batch) + Cardinality({i \in DOMAIN ring.sq : ring.sq[i] = p})
     + at(ring.kernel) + in(ring.cq) + in(buf) + in(work) + in(results)
     + Cardinality({w \in PoolWorker : hand[w] # None /\ hand[w].id = p})
     + Cardinality({i \in chead..(local_tail - 1) : cslots[i % sizing.comp].id = p})

Ample == LET n == Cardinality(Producer)
         IN sizing.comp >= n /\ sizing.io >= n /\ sizing.depth >= n

(* dispatcher_loop: while no slot was read ahead of its writer, a submitted *)
(* call is in exactly one place of the service until its caller is resumed, *)
(* or was dropped at one of the places where the code drops it; a caller    *)
(* that is not waiting has nothing on its way, so none is resumed by the    *)
(* answer to an earlier call.  With room for one entry per GVThread in the  *)
(* completion ring, the poll's buffer and the pool's result queue nothing   *)
(* is dropped.                                                              *)
Accounted ==
  ~overtaken =>
    /\ \A p \in Producer :
         Copies(p) = IF prod[p].at = "parked" /\ p \notin lost THEN 1 ELSE 0
    /\ Ample => lost = {}

(* try_push claims the slot before it writes the entry: the comment there   *)
(* says that the consumer sees the entry because it sees the tail.          *)
EntryVisible == ~overtaken

(* A submitted call is answered: no caller stays parked for ever, unless    *)
(* the service is shut down, the completion is dropped, or a slot was read  *)
(* too early.                                                               *)
Answered ==
  \A p \in Producer :
    []<>(prod[p].at # "parked" \/ p \in lost \/ down \/ overtaken)

================================================================================
