---------------------------- MODULE SchedulerSleep ----------------------------
(***************************************************************************)
(* Scheduler with timer::sleep and the timer thread (timer/mod.rs).  A     *)
(* sleeping GVThread has put an entry into the sleep queue before it calls *)
(* block_current; the timer thread removes an expired entry, compares the  *)
(* generation and calls wake_gvthread.                                     *)
(*                                                                         *)
(* An entry may expire as soon as it is in the queue.  With LongSleeps, no *)
(* entry expires before the worker has left the sleeper behind, that is    *)
(* before run_gvthread has read the state the GVThread returned with.      *)
(***************************************************************************)
EXTENDS Scheduler

CONSTANT LongSleeps

ASSUME SleepAssumption == LongSleeps \in BOOLEAN

VARIABLES
  sleepq, \* SLEEP_QUEUE: how often each entry is in it (the order is that of
          \* expiry, and it is free)
  entry   \* entry[t]: the entry timer thread t has removed

sleepVars == <<vars, sleepq, entry>>

Entry == [slot : Slot, gen : Nat]

NoEntry == [slot |-> NoSlot, gen |-> 0]

Queued == DOMAIN sleepq

\* One entry more, and one less.
Pushed(e) ==
  [x \in Queued \cup {e} |->
     IF x \notin Queued THEN 1 ELSE IF x = e THEN sleepq[x] + 1 ELSE sleepq[x]]

Removed(e) ==
  [x \in {x \in Queued : x # e \/ sleepq[x] > 1} |->
     IF x = e THEN sleepq[x] - 1 ELSE sleepq[x]]

SleepInit ==
  /\ Init
  /\ sleepq = <<>>
  /\ entry = [t \in Waker |-> NoEntry]

\* Mutant: the entry is pushed twice.
SleepTwice(w) ==
  LET e == [slot |-> on[w], gen |-> gen[on[w]]] IN
  /\ pc[w] = "run"
  /\ sleepq' = [Pushed(e) EXCEPT ![e] = @ + 1]
  /\ Goto(w, "block")
  /\ UNCHANGED <<slotVars, ready, cur, on, ioVars, entry>>

\* timer::sleep up to block_current.
Sleep(w) ==
  /\ pc[w] = "run"
  /\ sleepq' = Pushed([slot |-> on[w], gen |-> gen[on[w]]])
  /\ Goto(w, "block")
  /\ UNCHANGED <<slotVars, ready, cur, on, ioVars, entry>>

\* process_sleep_queue: an expired entry is removed under the lock,
PopExpired(t, g) ==
  /\ pc[t] = "idle"
  /\ LongSleeps => \A w \in Worker : ~Holds(w, g)
  /\ \E e \in Queued :
       /\ e.slot = g
       /\ sleepq' = Removed(e)
       /\ entry' = [entry EXCEPT ![t] = e]
  /\ cur' = [cur EXCEPT ![t] = g]
  /\ Goto(t, "verify")
  /\ UNCHANGED <<slotVars, ready, on, ioVars>>

\* Mutant: the entry goes back into the queue instead of waking the sleeper.
VerifyPutsBack(t) ==
  /\ pc[t] = "verify"
  /\ entry' = [entry EXCEPT ![t] = NoEntry]
  /\ sleepq' = Pushed(entry[t])
  /\ cur' = [cur EXCEPT ![t] = NoSlot]
  /\ Goto(t, "idle")
  /\ UNCHANGED <<slotVars, ready, on, ioVars>>

\* Mutant: the comparison is the wrong way round.
VerifyInverted(t) ==
  /\ pc[t] = "verify"
  /\ entry' = [entry EXCEPT ![t] = NoEntry]
  /\ IF gen[cur[t]] # entry[t].gen
     THEN Goto(t, "check") /\ UNCHANGED cur
     ELSE Goto(t, "idle") /\ cur' = [cur EXCEPT ![t] = NoSlot]
  /\ UNCHANGED <<slotVars, ready, on, ioVars, sleepq>>

\* and its generation compared.
Verify(t) ==
  /\ pc[t] = "verify"
  /\ entry' = [entry EXCEPT ![t] = NoEntry]
  /\ IF gen[cur[t]] = entry[t].gen
     THEN Goto(t, "check") /\ UNCHANGED cur
     ELSE Goto(t, "idle") /\ cur' = [cur EXCEPT ![t] = NoSlot]
  /\ UNCHANGED <<slotVars, ready, on, ioVars, sleepq>>

\* A step of Scheduler.
Core(step) == step /\ UNCHANGED <<sleepq, entry>>

SleepNext ==
  \/ Core(Next)
  \/ \E w \in Worker : Sleep(w)
  \/ \E t \in Waker : Verify(t) \/ \E g \in Slot : PopExpired(t, g)

SleepSpec == SleepInit /\ [][SleepNext]_sleepVars

\* As in Scheduler: nothing obliges the kernel to complete a call.  The sleep
\* queue is ordered by wake-up time, so that an expired entry waits for finitely
\* many others.
SleepFairSpec ==
  /\ SleepSpec
  /\ \A t \in Thread : WF_sleepVars(Core(Wake(t)))
  /\ \A t \in Spawner : WF_sleepVars(Core(Activate(t) \/ InitContext(t)))
  /\ \A w \in Worker : WF_sleepVars(Core(Reap(w))) /\ WF_sleepVars(Core(Take(w)))
  /\ \A w \in Worker : WF_sleepVars(Core(User(w)) \/ Sleep(w))
  /\ \A w \in Worker : WF_sleepVars(Core(Run(w)))
  /\ \A g \in Slot : SF_sleepVars(\E w \in Worker : Core(Pop(w, g)))
  /\ \A t \in Waker : WF_sleepVars(Verify(t))
  /\ \A g \in Slot : SF_sleepVars(\E t \in Waker : PopExpired(t, g))

----------------------------------------------------------------------------
\* The sleep queue holds entries; the rest as in Scheduler.
SleepTypeOK ==
  /\ TypeOK
  /\ Queued \subseteq Entry /\ \A e \in Queued : sleepq[e] \in Nat \ {0}
  /\ entry \in [Waker -> Entry \cup {NoEntry}]

Asleep(g) == \E e \in Queued : e.slot = g /\ e.gen = gen[g]

\* A sleeping GVThread is not forgotten: it keeps its entry, with its
\* generation, until the timer thread has taken it in hand.  Only the wake-up
\* for a call may be missed.
SleeperKept == \A g \in Slot : Placed(g) \/ Asleep(g) \/ g \in missed

\* No entry outlives its sleep: each one, in the queue or in the hands of the
\* timer thread, is the only one of a GVThread that is still in its slot and in
\* its generation.  deactivate_slot erases the generation with the rest of the
\* metadata (memory/unix.rs:114), so that an entry left over by a GVThread that
\* has finished could match the next one in the slot.
EntryCurrent ==
  LET held == {entry[t] : t \in Waker} \ {NoEntry} IN
  \A e \in Queued \cup held :
    /\ e.slot \notin free /\ e.gen = gen[e.slot]
    /\ e \in Queued => e \notin held /\ sleepq[e] = 1

\* timer::sleep returns, unless every worker waits in its ring: the wake-up of
\* the timer thread reaches none of them.
SleepEnds == \A g \in Slot : Asleep(g) ~> (\E w \in Worker : on[w] = g) \/ AllAway
===============================================================================
