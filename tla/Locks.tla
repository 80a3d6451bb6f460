-------------------------------- MODULE Locks ---------------------------------
(***************************************************************************)
(* SpinLock (spinlock.rs) and SchedMutex (mutex.rs) around a value that    *)
(* each owner reads and then writes back increased.  Both acquire by       *)
(* compare-and-exchange; the SchedMutex spins with a yield because its     *)
(* queue of waiters is never filled, and looks at that queue, under the    *)
(* queue's own spin lock, when it is released.                             *)
(***************************************************************************)
EXTENDS Naturals, FiniteSets

CONSTANTS Locker, Rounds  \* how often each thread takes the lock

VARIABLES lock_kind,  \* "spin" or "sched"
          locked,     \* the atomic flag
          data,       \* the protected value
          local,      \* local[t]: the value t has read
          left,       \* left[t]: rounds still to do
          lock_pc

locksVars == <<lock_kind, locked, data, local, left, lock_pc>>

LocksInit ==
  /\ lock_kind \in {"spin", "sched"}
  /\ locked = FALSE /\ data = 0
  /\ local = [t \in Locker |-> 0]
  /\ left = [t \in Locker |-> Rounds]
  /\ lock_pc = [t \in Locker |-> "out"]

LockGoto(t, from, to) == lock_pc[t] = from /\ lock_pc' = [lock_pc EXCEPT ![t] = to]

\* Mutant: the flag is read and then stored.
LockReads(t) ==
  /\ left[t] > 0
  /\ \/ ~locked /\ LockGoto(t, "out", "stores") /\ UNCHANGED locked
     \/ LockGoto(t, "stores", "read") /\ locked' = TRUE
  /\ UNCHANGED <<lock_kind, data, local, left>>

\* SchedMutex::lock, and the first attempt of SpinLock::lock: the exchange
\* fails while the lock is held, and the spin lock's weak one may fail without
\* reason.
Lock(t) ==
  /\ left[t] > 0
  /\ \/ ~locked /\ locked' = TRUE /\ LockGoto(t, "out", "read")
     \/ (locked \/ lock_kind = "spin") /\ LockGoto(t, "out", "spin") /\ UNCHANGED locked
  /\ UNCHANGED <<lock_kind, data, local, left>>

\* The loop of SpinLock::lock and SchedMutex::lock_slow: a failed attempt
\* changes nothing.
LockSlow(t) ==
  /\ ~locked /\ locked' = TRUE
  /\ LockGoto(t, "spin", "read")
  /\ UNCHANGED <<lock_kind, data, local, left>>

\* try_lock gives up; the caller goes on without its round.
TryLockFails(t) ==
  /\ locked /\ left[t] > 0
  /\ LockGoto(t, "out", "out")
  /\ left' = [left EXCEPT ![t] = @ - 1]
  /\ UNCHANGED <<lock_kind, locked, data, local>>

\* The owner works through the guard.
Read(t) ==
  /\ LockGoto(t, "read", "write") /\ local' = [local EXCEPT ![t] = data]
  /\ UNCHANGED <<lock_kind, locked, data, left>>

Write(t) ==
  /\ LockGoto(t, "write", IF lock_kind = "sched" THEN "waiters" ELSE "unlock")
  /\ data' = local[t] + 1
  /\ UNCHANGED <<lock_kind, locked, local, left>>

\* SchedMutex::unlock pops a waiter; there is none.
PopWaiter(t) ==
  /\ LockGoto(t, "waiters", "unlock")
  /\ UNCHANGED <<lock_kind, locked, data, local, left>>

Unlock(t) ==
  /\ LockGoto(t, "unlock", "out") /\ locked' = FALSE
  /\ left' = [left EXCEPT ![t] = @ - 1]
  /\ local' = [local EXCEPT ![t] = 0]
  /\ UNCHANGED <<lock_kind, data>>

LocksFinished == (\A t \in Locker : left[t] = 0) /\ UNCHANGED locksVars

LockStep(t) ==
  Lock(t) \/ LockSlow(t) \/ Read(t) \/ Write(t) \/ PopWaiter(t) \/ Unlock(t)

LocksNext == (\E t \in Locker : LockStep(t) \/ TryLockFails(t)) \/ LocksFinished

LocksSpec == LocksInit /\ [][LocksNext]_locksVars

-----------------------------------------------------------------------------
(* properties *)

Owners == {t \in Locker : lock_pc[t] \in {"read", "write", "waiters", "unlock"}}

\* The lock has one owner, and no increment is lost: what an owner has read is
\* still the value when it writes, and the flag is set exactly while somebody
\* owns the lock (a release that hands over to nobody clears it).
NoLostUpdate ==
  /\ Cardinality(Owners) <= 1 /\ locked = (Owners # {})
  /\ \A t \in Locker : lock_pc[t] = "write" => local[t] = data

===============================================================================
