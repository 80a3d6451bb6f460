------------------------------ MODULE HeapTimers ------------------------------
(***************************************************************************)
(* The timer registry (timer/registry.rs) over the heap backend            *)
(* (timer/impls/heap.rs) and the timer thread that polls it                *)
(* (timer/worker.rs).  The backend has one mutex; each of its operations   *)
(* is one step.  The thread polls, calls back for every expired timer      *)
(* without the mutex, computes its sleep and sleeps.                       *)
(*                                                                         *)
(* The heap is a set of entries, ordered by deadline and handle.  Instants *)
(* are numbers up to MaxTime.  Time passes while the thread sleeps: its    *)
(* own steps take no time.                                                 *)
(***************************************************************************)
EXTENDS Naturals, Sequences, FiniteSets, FiniteSetsExt

CONSTANTS TimerGvt,    \* GVThreads timers are for
          Delays,      \* durations a caller asks for
          Interval,    \* interval of periodic timers
          MaxPoll,     \* max_poll_interval
          MinSleep,    \* min_sleep
          MaxTime,     \* last instant of a behaviour
          HandleLimit  \* timers in a behaviour

ASSUME HeapTimersAssumption ==
  Delays \subseteq Nat /\ {Interval, MaxPoll, MinSleep} \subseteq Nat

VARIABLES now,
          heap, cancelled, total_fired,
          next,      \* the counter of TimerHandle::new
          timer_pc,  \* the timer thread: poll, deliver, plan, sleep, exited
          batch,     \* expired timers not yet called back
          woken,     \* callbacks made
          wakeAt,    \* end of the thread's sleep
          shutdown,
          revoked,   \* handles whose timer was pending when cancel marked it
          fired      \* handles of the timers that fired

heapTimersVars == <<now, heap, cancelled, total_fired, next, timer_pc, batch,
                    woken, wakeAt, shutdown, revoked, fired>>
backend == <<heap, cancelled, total_fired, next, revoked, fired>>
thread == <<timer_pc, batch, woken, wakeAt>>

HeapTimersInit ==
  /\ now = 0 /\ heap = {} /\ cancelled = {} /\ total_fired = 0 /\ next = 1
  /\ timer_pc = "poll" /\ batch = <<>> /\ woken = 0 /\ wakeAt = 0
  /\ shutdown = FALSE /\ revoked = {} /\ fired = {}

Entry(handle, deadline, gvt, kind) ==
  [handle |-> handle, deadline |-> deadline, gvt |-> gvt, kind |-> kind]

Handles == {e.handle : e \in heap}

\* HeapEntry::cmp.
Before(e, f) == \/ e.deadline < f.deadline
                \/ e.deadline = f.deadline /\ e.handle < f.handle

-----------------------------------------------------------------------------
(* the registry *)

\* schedule_preempt, _sleep, _sleep_until, _timeout, _timeout_at, _periodic and
\* schedule: they differ in the fields the wake callback will see.
Schedule(g, kind, d) ==
  /\ next <= HandleLimit /\ now + d <= MaxTime
  /\ kind = "periodic" => d = Interval
  /\ heap' = heap \cup {Entry(next, now + d, g, kind)}
  /\ next' = next + 1
  /\ UNCHANGED <<now, cancelled, total_fired, revoked, fired, thread, shutdown>>

\* The handle is marked whether or not its timer is still in the heap.
CancelTimer(h) ==
  /\ h < next /\ h \notin cancelled
  /\ cancelled' = cancelled \cup {h}
  /\ revoked' = IF h \in Handles THEN revoked \cup {h} ELSE revoked
  /\ UNCHANGED <<now, heap, total_fired, next, fired, thread, shutdown>>

-----------------------------------------------------------------------------
(* poll_expired *)

Expired == {e \in heap : e.deadline <= now}
Due == {e \in Expired : e.handle \notin cancelled}

\* The timers that fire, in the order of the heap.
Firing == CHOOSE s \in [1 .. Cardinality(Due) -> Due] :
            \A i, j \in 1 .. Cardinality(Due) : i < j => Before(s[i], s[j])

PeriodicAt == {i \in DOMAIN Firing : Firing[i].kind = "periodic"}

\* entry.reschedule: a new handle, and a deadline counted from now.
Rescheduled ==
  {Entry(next + Cardinality({j \in PeriodicAt : j < i}), now + Interval,
         Firing[i].gvt, "periodic") : i \in PeriodicAt}

PollEffect(rest, marks) ==
  /\ timer_pc = "poll" /\ ~shutdown
  /\ heap' = rest
  /\ cancelled' = IF rest = {} THEN {} ELSE marks
  /\ total_fired' = total_fired + Len(Firing)
  /\ next' = next + Cardinality(PeriodicAt)
  /\ fired' = fired \cup {Firing[i].handle : i \in DOMAIN Firing}
  /\ batch' = Firing /\ timer_pc' = "deliver"
  /\ UNCHANGED <<now, woken, wakeAt, shutdown, revoked>>

\* Mutant: every poll forgets the cancelled handles.
PollClears == PollEffect((heap \ Expired) \cup Rescheduled, {})

Poll ==
  PollEffect((heap \ Expired) \cup Rescheduled,
             cancelled \ {e.handle : e \in Expired})

-----------------------------------------------------------------------------
(* timer_loop *)

Deliver ==
  /\ timer_pc = "deliver"
  /\ \/ /\ batch # <<>>
        /\ woken' = woken + 1 /\ batch' = Tail(batch)
        /\ UNCHANGED timer_pc
     \/ batch = <<>> /\ timer_pc' = "plan" /\ UNCHANGED <<batch, woken>>
  /\ UNCHANGED <<now, backend, wakeAt, shutdown>>

NextDeadline == Min({e.deadline : e \in heap})

\* Mutant: sleep until the deadline however far it is.
CalculateSleepUnbounded ==
  IF heap = {} THEN MaxPoll
  ELSE IF NextDeadline <= now THEN 0
  ELSE Max({NextDeadline - now, MinSleep})

\* calculate_sleep: until the next deadline, at most max_poll_interval and at
\* least min_sleep.
CalculateSleep ==
  IF heap = {} THEN MaxPoll
  ELSE IF NextDeadline <= now THEN 0
  ELSE Max({Min({NextDeadline - now, MaxPoll}), MinSleep})

Plan ==
  /\ timer_pc = "plan" /\ timer_pc' = "sleep"
  /\ wakeAt' = now + CalculateSleep
  /\ UNCHANGED <<now, backend, batch, woken, shutdown>>

TimerWake ==
  /\ timer_pc = "sleep" /\ (now >= wakeAt \/ now = MaxTime)
  /\ timer_pc' = "poll" /\ wakeAt' = 0
  /\ UNCHANGED <<now, backend, batch, woken, shutdown>>

TimerExit ==
  /\ timer_pc = "poll" /\ shutdown /\ timer_pc' = "exited"
  /\ UNCHANGED <<now, backend, batch, woken, wakeAt, shutdown>>

Tick ==
  /\ timer_pc = "sleep" /\ now < wakeAt /\ now < MaxTime
  /\ now' = now + 1
  /\ UNCHANGED <<backend, thread, shutdown>>

\* TimerThreadHandle::shutdown.
TimerShutdown ==
  /\ ~shutdown /\ shutdown' = TRUE
  /\ UNCHANGED <<now, backend, thread>>

HeapTimersFinished == timer_pc = "exited" /\ UNCHANGED heapTimersVars

ThreadStep == Poll \/ Deliver \/ Plan \/ TimerWake \/ TimerExit

HeapTimersNext ==
  \/ \E g \in TimerGvt, d \in Delays, k \in {"once", "periodic"} : Schedule(g, k, d)
  \/ \E h \in 1 .. HandleLimit : CancelTimer(h)
  \/ ThreadStep \/ Tick \/ TimerShutdown \/ HeapTimersFinished

HeapTimersSpec == HeapTimersInit /\ [][HeapTimersNext]_heapTimersVars

-----------------------------------------------------------------------------
(* properties *)

\* An entry that was cancelled while it was pending never fires, however many
\* polls, reschedules and clean-ups of the cancelled set come between: a handle
\* is forgotten only with its entry or when the heap is empty.
CancelHolds == revoked \cap fired = {}

\* Every timer that left the heap as expired is called back exactly once and in
\* the order of the deadlines within a poll, also when shutdown is requested
\* while the callbacks are made; total_fired counts them.
AllCalledBack ==
  /\ total_fired = woken + Len(batch)
  /\ timer_pc # "deliver" => batch = <<>>
  /\ \A i \in 1 .. Len(batch) - 1 : Before(batch[i], batch[i + 1])

\* No timer fires late by more than max_poll_interval (or min_sleep), also one
\* that is scheduled while the thread sleeps for a later deadline: whenever the
\* thread polls, no deadline is further back.
FiresInTime ==
  timer_pc = "poll" /\ now < MaxTime =>
    \A e \in heap : now <= e.deadline + Max({MaxPoll, MinSleep})

\* An entry of the heap that expires is called back exactly once, unless its
\* handle was cancelled while the entry was pending; then it never is.  A
\* periodic timer is a chain of entries: each is rescheduled under a new handle
\* (entry.rs:200), so the handle schedule_periodic returned names only the first
\* of them, and cancelling it after the first firing stops nothing.
CalledBack == CancelHolds /\ AllCalledBack

===============================================================================
