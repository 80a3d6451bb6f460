------------------------------- MODULE Parking -------------------------------
(***************************************************************************)
(* The two implementations of WorkerParking (parking/): FutexParking,      *)
(* whose word counts pending wake-ups, and FallbackParking, whose mutex    *)
(* protects a flag and is paired with a condition variable.  Which one is  *)
(* built depends on the platform; kind chooses it once.  The compare-and-  *)
(* exchange loop that takes a pending wake-up is one step, because it only *)
(* ends by taking one or by seeing none.                                   *)
(***************************************************************************)
EXTENDS Naturals, FiniteSets

CONSTANTS Parker, Waker,
          WakeLimit  \* wake-ups in one behaviour

\* Finitely many workers, at least one; a thread that parks and wakes is two here.
ASSUME ParkingAssumption == IsFiniteSet(Parker) /\ Parker # {} /\ Parker \cap Waker = {}

VARIABLES park_kind,  \* "futex" or "fallback"
          word,       \* the futex word, or 0 and 1 for the flag
          parked,     \* the counter of parked workers
          sleeping,   \* workers inside FUTEX_WAIT or Condvar::wait
          park_pc,
          seen,       \* seen[k]: the counter a waker in wake_all has read
          wakes,      \* wake_one and wake_all calls so far
          signal      \* a wake-up was posted and no worker left park since

parkingVars == <<park_kind, word, parked, sleeping, park_pc, seen, wakes, signal>>

ParkingInit ==
  /\ park_kind \in {"futex", "fallback"}
  /\ word = 0 /\ parked = 0 /\ sleeping = {} /\ wakes = 0 /\ signal = FALSE
  /\ park_pc = [t \in Parker \cup Waker |-> "out"]
  /\ seen = [k \in Waker |-> 0]

ParkGoto(t, from, to) == park_pc[t] = from /\ park_pc' = [park_pc EXCEPT ![t] = to]

-----------------------------------------------------------------------------
(* park *)

\* FutexParking: take a pending wake-up, or count this worker as parked.
ParkFutex(w) ==
  /\ park_kind = "futex"
  /\ \/ word > 0 /\ word' = word - 1 /\ signal' = FALSE /\ ParkGoto(w, "out", "out")
     \/ word = 0 /\ ParkGoto(w, "out", "count") /\ UNCHANGED <<word, signal>>
  /\ UNCHANGED <<park_kind, parked, sleeping, seen, wakes>>

ParkFallback(w) ==
  /\ park_kind = "fallback"
  /\ ParkGoto(w, "out", "lock") /\ parked' = parked + 1
  /\ UNCHANGED <<park_kind, word, sleeping, seen, wakes, signal>>

CountParked(w) ==
  /\ ParkGoto(w, "count", "wait") /\ parked' = parked + 1
  /\ UNCHANGED <<park_kind, word, sleeping, seen, wakes, signal>>

\* Mutant: FUTEX_WAIT sleeps whatever the word is.
FutexWaitAlways(w) ==
  /\ ParkGoto(w, "wait", "asleep") /\ sleeping' = sleeping \cup {w}
  /\ UNCHANGED <<park_kind, word, parked, seen, wakes, signal>>

\* FUTEX_WAIT: the kernel compares the word with 0 before it sleeps.
FutexWait(w) ==
  /\ \/ word = 0 /\ ParkGoto(w, "wait", "asleep") /\ sleeping' = sleeping \cup {w}
     \/ word # 0 /\ ParkGoto(w, "wait", "again") /\ UNCHANGED sleeping
  /\ UNCHANGED <<park_kind, word, parked, seen, wakes, signal>>

\* Under the mutex: a pending flag is consumed, else the worker waits.
LockAndWait(w) ==
  /\ \/ word = 1 /\ word' = 0 /\ ParkGoto(w, "lock", "leave") /\ UNCHANGED sleeping
     \/ /\ word = 0 /\ ParkGoto(w, "lock", "asleep")
        /\ sleeping' = sleeping \cup {w} /\ UNCHANGED word
  /\ UNCHANGED <<park_kind, parked, seen, wakes, signal>>

\* The timeout expires, or the wait ends spuriously.
Timeout(w) ==
  /\ w \in sleeping /\ sleeping' = sleeping \ {w}
  /\ ParkGoto(w, "asleep", IF park_kind = "futex" THEN "again" ELSE "relock")
  /\ UNCHANGED <<park_kind, word, parked, seen, wakes, signal>>

\* The wait was ended by a waker.  The futex word is then left as it is; the
\* condition variable takes the mutex again.
Woken(w) ==
  /\ w \notin sleeping
  /\ ParkGoto(w, "asleep", IF park_kind = "futex" THEN "leave" ELSE "relock")
  /\ UNCHANGED <<park_kind, word, parked, sleeping, seen, wakes, signal>>

\* The flag is consumed by whoever comes back first.
Relock(w) ==
  /\ ParkGoto(w, "relock", "leave") /\ word' = 0
  /\ UNCHANGED <<park_kind, parked, sleeping, seen, wakes, signal>>

\* The worker is no longer counted; after EAGAIN or a timeout FutexParking
\* takes a pending wake-up.
Leave(w) ==
  /\ parked' = parked - 1
  /\ \/ ParkGoto(w, "leave", "out") /\ signal' = FALSE
     \/ ParkGoto(w, "again", "consume") /\ UNCHANGED signal
  /\ UNCHANGED <<park_kind, word, sleeping, seen, wakes>>

Consume(w) ==
  /\ ParkGoto(w, "consume", "out") /\ signal' = FALSE
  /\ word' = IF word > 0 THEN word - 1 ELSE word
  /\ UNCHANGED <<park_kind, parked, sleeping, seen, wakes>>

-----------------------------------------------------------------------------
(* wake_one and wake_all *)

\* The first step of each call.  FutexParking::wake_one posts before it looks
\* at the counter; the others do nothing when the counter is 0.
Wake(k) ==
  /\ wakes < WakeLimit /\ wakes' = wakes + 1
  /\ \/ /\ park_kind = "futex" /\ ParkGoto(k, "out", "check")
        /\ word' = word + 1 /\ signal' = TRUE /\ UNCHANGED seen
     \/ /\ parked = 0 /\ ParkGoto(k, "out", "out")
        /\ UNCHANGED <<word, signal, seen>>
     \/ /\ parked > 0
        /\ \/ ParkGoto(k, "out", "postAll")
           \/ park_kind = "fallback" /\ ParkGoto(k, "out", "postOne")
        /\ seen' = [seen EXCEPT ![k] = parked]
        /\ UNCHANGED <<word, signal>>
  /\ UNCHANGED <<park_kind, parked, sleeping>>

CheckParked(k) ==
  /\ ParkGoto(k, "check", IF parked > 0 THEN "wakeOne" ELSE "out")
  /\ UNCHANGED <<park_kind, word, parked, sleeping, seen, wakes, signal>>

Post(k) ==
  /\ ParkGoto(k, "postOne", "wakeOne") \/ ParkGoto(k, "postAll", "wakeAll")
  /\ word' = IF park_kind = "futex" THEN word + seen[k] + 1 ELSE 1
  /\ signal' = TRUE /\ seen' = [seen EXCEPT ![k] = 0]
  /\ UNCHANGED <<park_kind, parked, sleeping, wakes>>

\* FUTEX_WAKE and Condvar::notify.
Notify(k) ==
  /\ \/ ParkGoto(k, "wakeAll", "out") /\ sleeping' = {}
     \/ /\ ParkGoto(k, "wakeOne", "out")
        /\ IF sleeping = {} THEN UNCHANGED sleeping
           ELSE \E w \in sleeping : sleeping' = sleeping \ {w}
  /\ UNCHANGED <<park_kind, word, parked, seen, wakes, signal>>

-----------------------------------------------------------------------------

ParkingNext ==
  \/ \E w \in Parker :
       \/ ParkFutex(w) \/ ParkFallback(w) \/ CountParked(w) \/ FutexWait(w)
       \/ LockAndWait(w) \/ Timeout(w) \/ Woken(w) \/ Relock(w) \/ Leave(w)
       \/ Consume(w)
  \/ \E k \in Waker : Wake(k) \/ CheckParked(k) \/ Post(k) \/ Notify(k)

ParkingSpec == ParkingInit /\ [][ParkingNext]_parkingVars

-----------------------------------------------------------------------------
(* properties *)

\* A wake-up is never lost: once it has been posted and its waker has returned,
\* and until a worker comes back from park, some worker is not asleep.  It holds
\* without timeouts, although the waker looks at the counter of parked workers
\* without a lock and a worker is counted before it sleeps.
NoLostSignal ==
  signal /\ (\A k \in Waker : park_pc[k] = "out") => sleeping # Parker
===============================================================================
