----------------------------- MODULE SlotAllocator -----------------------------
(***************************************************************************)
(* SlotAllocator (gvthread-core/src/slot.rs), used by several threads at a *)
(* time.  One step is one critical section of the SpinLock on the free     *)
(* stack or one access to next_fresh; allocated_count changes inside the   *)
(* critical sections except after a fresh slot has been claimed.           *)
(***************************************************************************)
EXTENDS Integers, Sequences, FiniteSets, Functions

CONSTANTS Thread,    \* threads that allocate
          MaxSlots,  \* max_slots
          Modulus,   \* the values of allocated_count, 2^32 for an AtomicU32
          MaxNone    \* bound: GVThreadId::NONE entries of a batch

ASSUME SlotAssumption ==
  /\ IsFiniteSet(Thread)
  /\ MaxSlots \in Nat /\ MaxNone \in Nat
  /\ Modulus \in Nat /\ Modulus > MaxSlots

VARIABLES
  free_stack, next_fresh, allocated_count,
  owned,    \* slots allocate has returned and nobody has released
  pc,       \* where the allocate of each thread is
  current,  \* the value of next_fresh a thread has loaded
  late      \* history: a slot was released since allocate found the stack empty

vars == <<free_stack, next_fresh, allocated_count, owned, pc, current, late>>

Slot == 0 .. MaxSlots - 1

Init ==
  /\ free_stack = <<>> /\ next_fresh = 0 /\ allocated_count = 0
  /\ owned = {}
  /\ pc = [t \in Thread |-> "idle"]
  /\ current = [t \in Thread |-> 0]
  /\ late = [t \in Thread |-> FALSE]

Goto(t, label) == pc' = [pc EXCEPT ![t] = label]

Count(n) == allocated_count' = (allocated_count + n) % Modulus

-----------------------------------------------------------------------------
(* allocate *)

\* A recycled slot: the last one released.
Recycle(t) ==
  LET n == Len(free_stack) IN
  /\ pc[t] \in {"idle", "failed"} /\ n > 0
  /\ free_stack' = SubSeq(free_stack, 1, n - 1)
  /\ owned' = owned \cup {free_stack[n]}
  /\ Count(1)
  /\ Goto(t, "idle")
  /\ UNCHANGED <<next_fresh, current, late>>

\* Mutant: the free stack is not looked at.
NoneRecycledUnseen(t) ==
  /\ pc[t] \in {"idle", "failed"}
  /\ Goto(t, "load")
  /\ late' = [late EXCEPT ![t] = FALSE]
  /\ UNCHANGED <<free_stack, next_fresh, allocated_count, owned, current>>

NoneRecycled(t) ==
  /\ pc[t] \in {"idle", "failed"} /\ free_stack = <<>>
  /\ Goto(t, "load")
  /\ late' = [late EXCEPT ![t] = FALSE]
  /\ UNCHANGED <<free_stack, next_fresh, allocated_count, owned, current>>

LoadFresh(t) ==
  /\ pc[t] = "load"
  /\ \/ next_fresh >= MaxSlots /\ Goto(t, "failed") /\ UNCHANGED current
     \/ /\ next_fresh < MaxSlots /\ Goto(t, "claim")
        /\ current' = [current EXCEPT ![t] = next_fresh]
  /\ UNCHANGED <<free_stack, next_fresh, allocated_count, owned, late>>

\* Mutant: a plain store instead of the compare-and-exchange.
ClaimStores(t) ==
  /\ pc[t] = "claim"
  /\ next_fresh' = current[t] + 1
  /\ Goto(t, "count")
  /\ UNCHANGED <<free_stack, allocated_count, owned, current, late>>

\* compare_exchange_weak, which may also fail spuriously.
Claim(t) ==
  /\ pc[t] = "claim"
  /\ \/ /\ next_fresh = current[t]
        /\ next_fresh' = current[t] + 1
        /\ Goto(t, "count")
     \/ Goto(t, "load") /\ UNCHANGED next_fresh
  /\ UNCHANGED <<free_stack, allocated_count, owned, current, late>>

CountFresh(t) ==
  /\ pc[t] = "count"
  /\ Count(1)
  /\ owned' = owned \cup {current[t]}
  /\ Goto(t, "idle")
  /\ UNCHANGED <<free_stack, next_fresh, current, late>>

-----------------------------------------------------------------------------
(* release and release_batch *)

\* The owner hands back a slot once.
Release(id) ==
  /\ id \in owned
  /\ free_stack' = Append(free_stack, id)
  /\ owned' = owned \ {id}
  /\ Count(-1)
  /\ UNCHANGED <<next_fresh, pc, current>>
  /\ late' = [t \in Thread |-> TRUE]

\* Mutant: the batch is counted as one slot.
ReleaseBatchOne(ids, nones) ==
  /\ Len(ids) + nones > 0
  /\ free_stack' = free_stack \o ids
  /\ owned' = owned \ Range(ids)
  /\ Count(-1)
  /\ UNCHANGED <<next_fresh, pc, current>>
  /\ late' = [t \in Thread |-> TRUE]

\* A batch of the slots ids and of some NONE entries, which are not pushed.
ReleaseBatch(ids, nones) ==
  /\ Len(ids) + nones > 0
  /\ free_stack' = free_stack \o ids
  /\ owned' = owned \ Range(ids)
  /\ Count(-(Len(ids) + nones))
  /\ UNCHANGED <<next_fresh, pc, current>>
  /\ late' = [t \in Thread |-> TRUE]

Batches == {ids \in UNION {[1 .. n -> owned] : n \in 0 .. MaxSlots} : IsInjective(ids)}

-----------------------------------------------------------------------------
Alloc(t) ==
  Recycle(t) \/ NoneRecycled(t) \/ LoadFresh(t) \/ Claim(t) \/ CountFresh(t)

Next ==
  \/ \E t \in Thread : Alloc(t)
  \/ \E id \in owned : Release(id)
  \/ \E ids \in Batches, nones \in 0 .. MaxNone : ReleaseBatch(ids, nones)

Spec == Init /\ [][Next]_vars

-----------------------------------------------------------------------------
\* Every variable has its type; allocated_count is an unsigned integer.
TypeOK ==
  /\ free_stack \in Seq(Slot)
  /\ next_fresh \in 0 .. MaxSlots
  /\ allocated_count \in 0 .. Modulus - 1
  /\ owned \subseteq Slot
  /\ pc \in [Thread -> {"idle", "load", "claim", "count", "failed"}]
  /\ current \in [Thread -> 0 .. MaxSlots]
  /\ late \in [Thread -> BOOLEAN]

\* The threads that have claimed a fresh slot and not yet returned it.
Claimants == {t \in Thread : pc[t] = "count"}

StackOnce ==
  /\ IsInjective(free_stack)
  /\ Range(free_stack) \cap owned = {}

ClaimOnce ==
  \A t \in Claimants :
    /\ current[t] \notin owned \cup Range(free_stack)
    /\ \A u \in Claimants : current[u] = current[t] => u = t

\* allocate never returns a slot that somebody owns: a slot is once in the
\* free stack, or owned, or claimed by one thread, although the stack and
\* next_fresh are two separate atomics (slot.rs:42-73).
NoDoubleAllocation == StackOnce /\ ClaimOnce

\* allocated_count, the size of the free stack and the claims in progress add
\* up to the fresh slots handed out: no slot leaks, none is counted twice
\* (slot.rs:47, 67, 85, 100).
Accounting ==
  allocated_count + Len(free_stack) + Cardinality(Claimants) = next_fresh

\* allocate fails only when the fresh slots are used up and no slot had been
\* released when it looked at the free stack: a slot that is free now was
\* released between that look and the one at next_fresh (slot.rs:43-56), by
\* another thread.
FailsOnlyWhenFull ==
  \A t \in Thread : pc[t] = "failed" =>
    next_fresh = MaxSlots /\ (free_stack = <<>> \/ late[t])
===============================================================================
