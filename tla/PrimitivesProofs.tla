-------------------------- MODULE PrimitivesProofs --------------------------
(****************************************************************************)
(* Proofs about the slot allocator, the locks and the parking of workers, for *)
(* any number of threads and slots: no slot allocated twice, why allocate   *)
(* fails, exact accounting when no batch contains NONE; mutual exclusion; no *)
(* posted wake-up is lost.                                                  *)
(****************************************************************************)
EXTENDS SlotAllocator, Locks, Parking, FiniteSetTheorems, SequenceTheorems, TLAPS

\* The default provers, with more time than they have by default.
USE SMTT(100), ZenonT(60)

--------------------------------------------------------------------------------
(* SlotAllocator *)

\* An unsigned counter stays in its range, and is exact below its modulus.
LEMMA ModRange ==
  ASSUME NEW x \in Int, NEW m \in Nat, m > 0
  PROVE  x % m \in 0 .. m - 1
OBVIOUS

LEMMA ModSmall ==
  ASSUME NEW x \in Nat, NEW m \in Nat, x < m
  PROVE  x % m = x
OBVIOUS

\* What has been handed out once lies below next_fresh.
Below ==
  /\ \A s \in owned : s < next_fresh
  /\ \A i \in DOMAIN free_stack : free_stack[i] < next_fresh
  /\ \A t \in Claimants : current[t] < next_fresh
  /\ \A t \in Thread : pc[t] = "claim" => current[t] < MaxSlots

IInv == TypeOK /\ NoDoubleAllocation /\ Below

\* The batches a caller can build are sequences of owned slots.
LEMMA BatchType ==
  ASSUME TypeOK, NEW ids \in Batches
  PROVE  /\ ids \in Seq(owned) /\ ids \in Seq(Slot)
         /\ IsInjective(ids) /\ Range(ids) \subseteq owned
<1>1. PICK n \in 0 .. MaxSlots : ids \in [1 .. n -> owned] /\ IsInjective(ids)
  BY DEF Batches
<1>2. n \in Nat
  BY SlotAssumption
<1>3. ids \in Seq(owned)
  BY <1>1, <1>2, SeqDef
<1>4. ids \in Seq(Slot)
  BY <1>3 DEF TypeOK
<1>5. Range(ids) \subseteq owned
  BY <1>1 DEF Range
<1> QED  BY <1>1, <1>3, <1>4, <1>5

\* Which values the counter can take.
LEMMA CountType ==
  ASSUME TypeOK, NEW n \in Int, Count(n)
  PROVE  allocated_count' \in 0 .. Modulus - 1
BY SlotAssumption, ModRange DEF TypeOK, Count

LEMMA RecycleKeeps ==
  ASSUME IInv, NEW t \in Thread, Recycle(t)
  PROVE  IInv'
<1> DEFINE n == Len(free_stack)
<1> USE DEF IInv, TypeOK
<1>0. n \in Nat /\ n > 0 /\ free_stack[n] \in Slot /\ DOMAIN free_stack = 1 .. n
  BY DEF Recycle
<1>1. /\ free_stack' \in Seq(Slot) /\ DOMAIN free_stack' = 1 .. n - 1
      /\ \A i \in 1 .. n - 1 : free_stack'[i] = free_stack[i]
  <2>1. free_stack' = SubSeq(free_stack, 1, n - 1)
    BY DEF Recycle
  <2>2. \A i \in 1 .. n - 1 : free_stack[i] \in Slot
    BY <1>0
  <2> HIDE DEF n, IInv, TypeOK
  <2> QED  BY <1>0, <2>1, <2>2, SubSeqProperties
<1> HIDE DEF n
<1>2. TypeOK'
  BY <1>0, <1>1, CountType DEF Recycle, Goto, n
<1>3. Claimants' = Claimants /\ current' = current /\ next_fresh' = next_fresh
  BY DEF Recycle, Goto, Claimants
<1>4. owned' = owned \cup {free_stack[n]}
  BY DEF Recycle, n
<1>a. \A i, j \in 1 .. n : free_stack[i] = free_stack[j] => i = j
  BY SMTT(60), <1>0 DEF NoDoubleAllocation, StackOnce, IsInjective
<1>b. \A i \in 1 .. n - 1 : i \in 1 .. n /\ i # n
  BY <1>0
<1>5. /\ \A s \in Range(free_stack') : s \in Range(free_stack) /\ s # free_stack[n]
      /\ free_stack[n] \in Range(free_stack)
  <2>1. n \in 1 .. n
    BY <1>0
  <2>2. free_stack[n] \in Range(free_stack)
    BY <1>0, <2>1 DEF Range
  <2>3. ASSUME NEW s \in Range(free_stack')
        PROVE  s \in Range(free_stack) /\ s # free_stack[n]
    <3>1. PICK i \in 1 .. n - 1 : s = free_stack[i]
      BY <1>1 DEF Range
    <3>2. i \in DOMAIN free_stack /\ free_stack[i] # free_stack[n]
      BY <1>0, <1>a, <1>b, <2>1
    <3> QED  BY <3>1, <3>2 DEF Range
  <2> QED  BY <2>2, <2>3
<1>6. StackOnce'
  <2>1. IsInjective(free_stack')
    BY <1>1, <1>a, <1>b DEF IsInjective
  <2>2. Range(free_stack') \cap owned' = {}
    BY <1>4, <1>5 DEF NoDoubleAllocation, StackOnce
  <2> QED  BY <2>1, <2>2 DEF StackOnce
<1>7. ClaimOnce'
  BY <1>3, <1>4, <1>5 DEF NoDoubleAllocation, ClaimOnce
<1>8. Below'
  <2>1. \A s \in owned' : s < next_fresh
    BY <1>0, <1>4 DEF Below
  <2>2. \A i \in DOMAIN free_stack' : free_stack'[i] < next_fresh
    BY <1>0, <1>1, <1>b DEF Below
  <2>3. \A u \in Thread : pc'[u] = "claim" => pc[u] = "claim"
    BY DEF Recycle, Goto
  <2> QED  BY <1>3, <2>1, <2>2, <2>3 DEF Below
<1> QED  BY <1>2, <1>6, <1>7, <1>8 DEF NoDoubleAllocation

LEMMA NoneRecycledKeeps ==
  ASSUME IInv, NEW t \in Thread, NoneRecycled(t)
  PROVE  IInv'
<1> USE DEF IInv, TypeOK, NoneRecycled
<1>1. TypeOK'
  BY ZenonT(60) DEF Goto
<1>2. Claimants' = Claimants
  BY DEF Goto, Claimants
<1>3. NoDoubleAllocation'
  BY <1>2 DEF NoDoubleAllocation, StackOnce, ClaimOnce
<1>4. Below'
  BY <1>2 DEF Below, Goto
<1> QED  BY <1>1, <1>3, <1>4

LEMMA LoadFreshKeeps ==
  ASSUME IInv, NEW t \in Thread, LoadFresh(t)
  PROVE  IInv'
<1> USE SlotAssumption DEF IInv, TypeOK, LoadFresh
<1>1. TypeOK'
  BY ZenonT(60) DEF Goto
<1>2. /\ Claimants' = Claimants
      /\ \A u \in Claimants : current'[u] = current[u]
  BY DEF Goto, Claimants
<1>3. NoDoubleAllocation'
  BY <1>2 DEF NoDoubleAllocation, StackOnce, ClaimOnce
<1>4. Below'
  BY <1>2 DEF Below, Goto
<1> QED  BY <1>1, <1>3, <1>4

LEMMA ClaimKeeps ==
  ASSUME IInv, NEW t \in Thread, Claim(t)
  PROVE  IInv'
<1> USE SlotAssumption DEF IInv, TypeOK, Claim
<1>1. TypeOK'
  <2>1. pc[t] = "claim" /\ current[t] < MaxSlots
    BY DEF Below
  <2>2. next_fresh' \in 0 .. MaxSlots
    BY <2>1
  <2> QED  BY SMTT(60), <2>2 DEF Goto
<1>2. CASE next_fresh' = next_fresh /\ pc' = [pc EXCEPT ![t] = "load"]
  <2>1. Claimants' = Claimants
    BY <1>2 DEF Claimants
  <2>2. NoDoubleAllocation'
    BY <2>1, <1>2 DEF NoDoubleAllocation, StackOnce, ClaimOnce
  <2>3. Below'
    BY <2>1, <1>2 DEF Below
  <2> QED  BY <1>1, <2>2, <2>3
<1>3. CASE /\ next_fresh = current[t] /\ next_fresh' = current[t] + 1
           /\ pc' = [pc EXCEPT ![t] = "count"]
  <2>1. Claimants' = Claimants \cup {t}
    BY <1>3 DEF Claimants
  <2>2. /\ current[t] \notin owned \cup Range(free_stack)
        /\ \A u \in Claimants : current[u] # current[t]
    BY <1>3 DEF Below, Range, Claimants
  <2>3. NoDoubleAllocation'
    BY <2>1, <2>2, <1>3 DEF NoDoubleAllocation, StackOnce, ClaimOnce
  <2>4. Below'
    BY <2>1, <1>3 DEF Below, Slot, Claimants
  <2> QED  BY <1>1, <2>3, <2>4
<1> QED  BY <1>2, <1>3 DEF Goto

LEMMA CountFreshKeeps ==
  ASSUME IInv, NEW t \in Thread, CountFresh(t)
  PROVE  IInv'
<1> USE SlotAssumption DEF IInv, TypeOK, CountFresh
<1>1. t \in Claimants /\ Claimants' = Claimants \ {t}
  BY DEF Claimants, Goto
<1>2. current[t] \in Slot
  BY <1>1 DEF Below, Slot
<1>3. TypeOK'
  BY <1>2, CountType DEF Goto
<1>4. NoDoubleAllocation'
  BY <1>1 DEF NoDoubleAllocation, StackOnce, ClaimOnce
<1>5. Below'
  BY <1>1 DEF Below, Goto
<1> QED  BY <1>3, <1>4, <1>5

\* release and release_batch: the slots given back come on top of the stack.
LEMMA ReleaseKeeps ==
  ASSUME IInv, NEW ids \in Seq(owned), IsInjective(ids),
         free_stack' = free_stack \o ids, owned' = owned \ Range(ids),
         NEW n \in Int, Count(n), UNCHANGED <<next_fresh, pc, current>>,
         late' = [t \in Thread |-> TRUE]
  PROVE  IInv'
<1> USE DEF IInv, TypeOK
<1>1. /\ ids \in Seq(Slot) /\ free_stack' \in Seq(Slot)
      /\ DOMAIN free_stack = 1 .. Len(free_stack) /\ DOMAIN ids = 1 .. Len(ids)
      /\ Len(free_stack) \in Nat /\ Len(ids) \in Nat
      /\ DOMAIN free_stack' = 1 .. Len(free_stack) + Len(ids)
      /\ \A i \in 1 .. Len(free_stack) : free_stack'[i] = free_stack[i]
      /\ \A i \in Len(free_stack) + 1 .. Len(free_stack) + Len(ids) :
           /\ free_stack'[i] = ids[i - Len(free_stack)]
           /\ i - Len(free_stack) \in 1 .. Len(ids)
  OBVIOUS
<1>2. TypeOK'
  BY <1>1, CountType
<1>3. Claimants' = Claimants
  BY DEF Claimants
<1>4. /\ \A i \in DOMAIN ids : ids[i] \in owned
      /\ \A i \in DOMAIN free_stack : free_stack[i] \notin owned
  BY DEF NoDoubleAllocation, StackOnce, Range
<1>5. IsInjective(free_stack')
  <2> SUFFICES ASSUME NEW i \in DOMAIN free_stack', NEW j \in DOMAIN free_stack',
                      free_stack'[i] = free_stack'[j]
               PROVE  i = j
    BY SMTT(60) DEF IsInjective
  <2>1. CASE i <= Len(free_stack) /\ j <= Len(free_stack)
    BY <1>1, <2>1 DEF NoDoubleAllocation, StackOnce, IsInjective
  <2>2. CASE i > Len(free_stack) /\ j > Len(free_stack)
    <3>1. i - Len(free_stack) = j - Len(free_stack)
      BY SMTT(60), <1>1, <2>2 DEF IsInjective
    <3> QED  BY <1>1, <3>1
  <2>3. CASE i <= Len(free_stack) /\ j > Len(free_stack)
    BY <1>1, <1>4, <2>3
  <2>4. CASE i > Len(free_stack) /\ j <= Len(free_stack)
    BY <1>1, <1>4, <2>4
  <2> QED  BY <1>1, <2>1, <2>2, <2>3, <2>4
<1>6. Range(free_stack') = Range(free_stack) \cup Range(ids)
  <2>1. \A i \in DOMAIN free_stack' : free_stack'[i] \in Range(free_stack) \cup Range(ids)
    BY <1>1 DEF Range
  <2>2. \A i \in DOMAIN ids : /\ i + Len(free_stack) \in DOMAIN free_stack'
                              /\ free_stack'[i + Len(free_stack)] = ids[i]
    BY <1>1
  <2>3. \A i \in DOMAIN free_stack : i \in DOMAIN free_stack' /\ free_stack'[i] = free_stack[i]
    BY <1>1
  <2>4. Range(free_stack') \subseteq Range(free_stack) \cup Range(ids)
    BY <2>1 DEF Range
  <2>5. Range(free_stack) \subseteq Range(free_stack')
    BY <2>3 DEF Range
  <2>6. Range(ids) \subseteq Range(free_stack')
    BY <2>2, ZenonT(60) DEF Range
  <2> QED  BY <2>4, <2>5, <2>6
<1>7. Range(ids) \subseteq owned
  BY <1>4 DEF Range
<1>8. NoDoubleAllocation'
  BY <1>3, <1>5, <1>6, <1>7 DEF NoDoubleAllocation, StackOnce, ClaimOnce
<1>9. Below'
  <2>1. \A s \in Range(free_stack') : s < next_fresh
    BY <1>6, <1>7 DEF Below, Range
  <2>2. \A i \in DOMAIN free_stack' : free_stack'[i] < next_fresh
    BY <2>1 DEF Range
  <2> QED  BY <1>3, <2>2 DEF Below
<1> QED  BY <1>2, <1>8, <1>9

LEMMA StepIInv ==
  ASSUME IInv, [Next]_vars
  PROVE  IInv'
<1>1. ASSUME NEW t \in Thread, Alloc(t)
      PROVE  IInv'
  BY <1>1, RecycleKeeps, NoneRecycledKeeps, LoadFreshKeeps, ClaimKeeps,
     CountFreshKeeps DEF Alloc
<1>2. ASSUME NEW id \in owned, Release(id)
      PROVE  IInv'
  <2> DEFINE ids == <<id>>
  <2>1. /\ ids \in Seq(owned) /\ IsInjective(ids) /\ Range(ids) = {id}
        /\ Append(free_stack, id) = free_stack \o ids
    BY DEF IsInjective, Range, IInv, TypeOK
  <2> HIDE DEF ids
  <2> QED  BY <1>2, <2>1, ReleaseKeeps DEF Release
<1>3. ASSUME NEW ids \in Batches, NEW nones \in 0 .. MaxNone, ReleaseBatch(ids, nones)
      PROVE  IInv'
  <2>1. ids \in Seq(owned) /\ ids \in Seq(Slot) /\ IsInjective(ids)
    BY BatchType DEF IInv
  <2>2. -(Len(ids) + nones) \in Int
    BY <2>1, SlotAssumption
  <2> QED  BY SMTT(60), <1>3, <2>1, <2>2, ReleaseKeeps DEF ReleaseBatch
<1>4. CASE UNCHANGED vars
  BY <1>4 DEF vars, IInv, TypeOK, NoDoubleAllocation, StackOnce, ClaimOnce, Below,
              Claimants
<1> QED  BY <1>1, <1>2, <1>3, <1>4 DEF Next

LEMMA InitIInv ==
  ASSUME Init
  PROVE  IInv
BY SlotAssumption DEF Init, IInv, TypeOK, NoDoubleAllocation, StackOnce, ClaimOnce,
   Below, Claimants, IsInjective, Range

LEMMA Invariance == Spec => []IInv
<1> QED  BY InitIInv, StepIInv, PTL DEF Spec

\* The variables of the allocator keep their types, whatever the number of
\* threads and slots; next_fresh never passes max_slots.
THEOREM SlotTypeCorrect == Spec => []TypeOK
<1>1. IInv => TypeOK  BY DEF IInv
<1> QED  BY <1>1, Invariance, PTL

\* Two allocations never return the same slot before it is released.
THEOREM NoDoubleAllocationHolds == Spec => []NoDoubleAllocation
<1>1. IInv => NoDoubleAllocation  BY DEF IInv
<1> QED  BY <1>1, Invariance, PTL

-----------------------------------------------------------------------------
(* When allocate fails *)

\* From the moment a thread has found the free stack empty until it starts
\* another allocate, the stack is empty or a slot came later.
Looked ==
  \A t \in Thread :
    /\ pc[t] \in {"load", "claim", "failed"} => free_stack = <<>> \/ late[t]
    /\ pc[t] = "failed" => next_fresh = MaxSlots

LEMMA StepLooked ==
  ASSUME IInv, IInv', Looked, [Next]_vars
  PROVE  Looked'
<1> USE DEF IInv, TypeOK
<1>1. ASSUME NEW t \in Thread, Recycle(t)
      PROVE  Looked'
  <2>1. free_stack # <<>>
    BY <1>1 DEF Recycle
  <2> QED  BY <1>1, <2>1 DEF Recycle, Looked, Goto
<1>2. ASSUME NEW t \in Thread, NoneRecycled(t)
      PROVE  Looked'
  BY <1>2 DEF NoneRecycled, Looked, Goto
<1>3. ASSUME NEW t \in Thread, LoadFresh(t)
      PROVE  Looked'
  BY SMTT(60), <1>3, SlotAssumption DEF LoadFresh, Looked, Goto
<1>4. ASSUME NEW t \in Thread, Claim(t)
      PROVE  Looked'
  BY SMTT(60), <1>4, SlotAssumption DEF Claim, Looked, Goto
<1>5. ASSUME NEW t \in Thread, CountFresh(t)
      PROVE  Looked'
  BY <1>5 DEF CountFresh, Looked, Goto
<1>6. ASSUME late' = [t \in Thread |-> TRUE], UNCHANGED <<next_fresh, pc>>
      PROVE  Looked'
  BY <1>6 DEF Looked
<1>7. CASE UNCHANGED vars
  BY <1>7 DEF vars, Looked
<1> QED
  BY ZenonT(60), <1>1, <1>2, <1>3, <1>4, <1>5, <1>6, <1>7
     DEF Next, Alloc, Release, ReleaseBatch

\* For any number of threads and slots, an allocate that fails had found the
\* stack empty and then no fresh slot; what is free now was released later.
THEOREM FailsOnlyWhenFullHolds == Spec => []FailsOnlyWhenFull
<1>1. Init => Looked
  BY DEF Init, Looked
<1>2. IInv /\ IInv' /\ Looked /\ [Next]_vars => Looked'
  BY StepLooked
<1>3. Looked => FailsOnlyWhenFull
  BY DEF Looked, FailsOnlyWhenFull
<1> QED  BY <1>1, <1>2, <1>3, Invariance, PTL DEF Spec

-----------------------------------------------------------------------------
(* Accounting.  The counter is exact because it equals the number of owned   *)
(* slots, which is what a release_batch without NONE subtracts from.         *)

Exact ==
  /\ IsFiniteSet(owned) /\ IsFiniteSet(Claimants)
  /\ allocated_count = Cardinality(owned)
  /\ Accounting

\* A sequence without repetitions is as long as its range is large.
LEMMA BatchSize ==
  ASSUME TypeOK, IsFiniteSet(owned), NEW ids \in Seq(owned), IsInjective(ids)
  PROVE  /\ IsFiniteSet(Range(ids)) /\ Cardinality(Range(ids)) = Len(ids)
         /\ Len(ids) <= Cardinality(owned)
<1>1. Len(ids) \in Nat /\ ids \in [1 .. Len(ids) -> owned]
  OBVIOUS
<1>2. Range(ids) \subseteq owned
  BY <1>1 DEF Range
<1>3. ids \in Bijection(1 .. Len(ids), Range(ids))
  <2>1. DOMAIN ids = 1 .. Len(ids) /\ ids \in [1 .. Len(ids) -> Range(ids)]
    BY <1>1 DEF Range
  <2>2. ids \in Injection(1 .. Len(ids), Range(ids))
    BY <2>1 DEF Injection, IsInjective
  <2>3. ids \in Surjection(1 .. Len(ids), Range(ids))
    BY <2>1 DEF Surjection, Range
  <2> QED  BY <2>2, <2>3 DEF Bijection
<1>4. IsFiniteSet(1 .. Len(ids)) /\ Cardinality(1 .. Len(ids)) = Len(ids)
  <2>1. 1 \in Int /\ Len(ids) \in Int
    BY <1>1
  <2>2. /\ IsFiniteSet(1 .. Len(ids))
        /\ Cardinality(1 .. Len(ids)) = IF 1 > Len(ids) THEN 0 ELSE Len(ids) - 1 + 1
    BY <2>1, FS_Interval
  <2> QED  BY <1>1, <2>2
<1>5. IsFiniteSet(Range(ids)) /\ Cardinality(Range(ids)) = Len(ids)
  BY <1>3, <1>4, FS_Bijection DEF ExistsBijection
<1> QED  BY <1>2, <1>5, FS_Subset

LEMMA SlotFinite ==
  IsFiniteSet(Slot) /\ Cardinality(Slot) \in Nat /\ Cardinality(Slot) <= MaxSlots
<1>1. 0 \in Int /\ MaxSlots - 1 \in Int /\ MaxSlots \in Nat
  BY SlotAssumption
<1>2. /\ IsFiniteSet(0 .. MaxSlots - 1)
      /\ Cardinality(0 .. MaxSlots - 1) = IF 0 > MaxSlots - 1 THEN 0 ELSE MaxSlots - 1 - 0 + 1
  BY <1>1, FS_Interval, ZenonT(60)
<1>3. Slot = 0 .. MaxSlots - 1
  BY DEF Slot
<1> QED  BY <1>1, <1>2, <1>3

LEMMA OwnedBound ==
  ASSUME TypeOK
  PROVE  IsFiniteSet(owned) /\ Cardinality(owned) \in Nat /\ Cardinality(owned) < Modulus
BY SlotFinite, FS_Subset, FS_CardinalityType, SlotAssumption DEF TypeOK

\* A release of distinct owned slots, counted one by one.
LEMMA ReleaseExact ==
  ASSUME IInv, Exact, NEW ids \in Seq(owned), IsInjective(ids),
         free_stack' = free_stack \o ids, owned' = owned \ Range(ids),
         Count(-Len(ids)), UNCHANGED <<next_fresh, pc, current>>
  PROVE  Exact'
<1>1. /\ IsFiniteSet(Range(ids)) /\ Cardinality(Range(ids)) = Len(ids)
      /\ Len(ids) <= Cardinality(owned) /\ Range(ids) \subseteq owned
  <2>1. Range(ids) \subseteq owned
    BY DEF Range
  <2> QED  BY <2>1, BatchSize DEF IInv, Exact
<1>2. IsFiniteSet(owned') /\ Cardinality(owned') = Cardinality(owned) - Len(ids)
  <2>1. owned \cap Range(ids) = Range(ids)
    BY <1>1
  <2>2. /\ IsFiniteSet(owned \ Range(ids))
        /\ Cardinality(owned \ Range(ids))
             = Cardinality(owned) - Cardinality(owned \cap Range(ids))
    BY ZenonT(60), FS_Difference DEF Exact
  <2> QED  BY ZenonT(60), <1>1, <2>1, <2>2
<1>3. Cardinality(owned) \in Nat /\ Len(ids) \in Nat /\ Cardinality(owned) < Modulus
  BY OwnedBound DEF IInv
<1>4. allocated_count' = allocated_count - Len(ids)
  <2>1. allocated_count + -Len(ids) \in Nat /\ allocated_count + -Len(ids) < Modulus
        /\ allocated_count + -Len(ids) = allocated_count - Len(ids)
    BY <1>1, <1>3, SlotAssumption DEF Exact
  <2> QED  BY <2>1, ModSmall, SlotAssumption DEF Count
<1>5. Len(free_stack') = Len(free_stack) + Len(ids) /\ Len(free_stack) \in Nat
  BY DEF IInv, TypeOK
<1>6. Claimants' = Claimants /\ Cardinality(Claimants) \in Nat
  BY FS_CardinalityType DEF Claimants, Exact
<1>7. next_fresh \in Int
  BY SlotAssumption DEF IInv, TypeOK
<1>8. Accounting'
  BY <1>3, <1>4, <1>5, <1>6, <1>7 DEF Exact, Accounting
<1> QED  BY <1>2, <1>3, <1>4, <1>6, <1>8 DEF Exact

\* An allocation adds one slot that nobody owned.
LEMMA AllocExact ==
  ASSUME IInv, Exact, TypeOK', NEW s, s \notin owned, owned' = owned \cup {s}, Count(1)
  PROVE  /\ allocated_count' = allocated_count + 1
         /\ allocated_count' = Cardinality(owned')
<1>1. Cardinality(owned') = Cardinality(owned) + 1 /\ Cardinality(owned) \in Nat
  BY FS_AddElement, FS_CardinalityType DEF Exact
<1>2. Cardinality(owned') < Modulus
  <2>1. IsFiniteSet(Slot) /\ Cardinality(Slot) <= MaxSlots /\ Cardinality(Slot) \in Nat
    BY SlotFinite
  <2>2. owned' \subseteq Slot
    BY DEF TypeOK
  <2>3. Cardinality(owned') <= Cardinality(Slot) /\ Cardinality(owned') \in Nat
    BY <2>1, <2>2, <1>1, FS_Subset
  <2> QED  BY <2>1, <2>3, SlotAssumption
<1>3. (allocated_count + 1) % Modulus = allocated_count + 1
  BY <1>1, <1>2, ModSmall, SlotAssumption DEF Exact
<1> QED  BY <1>1, <1>3 DEF Count, Exact

LEMMA StepExact ==
  ASSUME MaxNone = 0, IInv, IInv', Exact, [Next]_vars
  PROVE  Exact'
<1>0. /\ Cardinality(Claimants) \in Nat /\ Cardinality(owned) \in Nat
      /\ Len(free_stack) \in Nat /\ next_fresh \in Nat /\ allocated_count \in Nat
  BY FS_CardinalityType, SlotAssumption DEF Exact, IInv, TypeOK
<1>f. IsFiniteSet(owned') /\ IsFiniteSet(Claimants')
  <2>1. IsFiniteSet(Claimants')
    BY SlotAssumption, FS_Subset DEF Claimants
  <2>2. owned' \subseteq Slot
    BY DEF IInv, TypeOK
  <2> QED  BY <2>1, <2>2, SlotFinite, FS_Subset
<1>s. ASSUME UNCHANGED <<free_stack, next_fresh, allocated_count, owned>>,
             Claimants' = Claimants
      PROVE  Exact'
  BY <1>s DEF Exact, Accounting
<1>1. ASSUME NEW t \in Thread, Recycle(t)
      PROVE  Exact'
  <2>1. /\ Claimants' = Claimants /\ next_fresh' = next_fresh
        /\ Len(free_stack') = Len(free_stack) - 1
    <3>1. Claimants' = Claimants /\ next_fresh' = next_fresh
      BY <1>1 DEF Recycle, Goto, Claimants, IInv, TypeOK
    <3>2. PICK n \in Nat : n = Len(free_stack) /\ n > 0
      BY <1>0, <1>1 DEF Recycle
    <3>3. Len(SubSeq(free_stack, 1, n - 1)) = n - 1
      <4>1. \A i \in 1 .. n - 1 : free_stack[i] \in Slot
        BY <3>2 DEF IInv, TypeOK
      <4>2. Len(SubSeq(free_stack, 1, n - 1)) = IF 1 <= n - 1 THEN n - 1 - 1 + 1 ELSE 0
        BY <3>2, <4>1, SubSeqProperties
      <4> QED  BY <3>2, <4>2
    <3> QED  BY <1>1, <3>1, <3>2, <3>3 DEF Recycle
  <2>2. /\ free_stack[Len(free_stack)] \notin owned
        /\ owned' = owned \cup {free_stack[Len(free_stack)]}
    BY <1>1 DEF Recycle, IInv, TypeOK, NoDoubleAllocation, StackOnce, Range
  <2>3. allocated_count' = allocated_count + 1 /\ allocated_count' = Cardinality(owned')
    BY ZenonT(60), <1>1, <2>2, AllocExact DEF Recycle, IInv
  <2>4. Accounting'
    BY <1>0, <2>1, <2>3 DEF Accounting, Exact
  <2> QED  BY <1>f, <2>3, <2>4 DEF Exact
<1>2. ASSUME NEW t \in Thread, NoneRecycled(t) \/ LoadFresh(t)
      PROVE  Exact'
  BY <1>2, <1>s DEF NoneRecycled, LoadFresh, Goto, Claimants, IInv, TypeOK
<1>3. ASSUME NEW t \in Thread, Claim(t)
      PROVE  Exact'
  <2>1. CASE next_fresh' = next_fresh /\ pc' = [pc EXCEPT ![t] = "load"]
    BY <1>3, <2>1, <1>s DEF Claim, Claimants, IInv, TypeOK
  <2>2. CASE next_fresh' = next_fresh + 1 /\ pc' = [pc EXCEPT ![t] = "count"]
    <3>1. t \notin Claimants /\ Claimants' = Claimants \cup {t}
      BY <1>3, <2>2 DEF Claim, Claimants, IInv, TypeOK
    <3>2. Cardinality(Claimants') = Cardinality(Claimants) + 1
      BY ZenonT(60), <3>1, FS_AddElement DEF Exact
    <3>3. UNCHANGED <<free_stack, allocated_count, owned>>
      BY <1>3 DEF Claim
    <3>4. /\ Len(free_stack') = Len(free_stack) /\ next_fresh' = next_fresh + 1
          /\ allocated_count' = allocated_count /\ Accounting
      BY <2>2, <3>3 DEF Exact
    <3>5. Accounting'
      <4> HIDE <2>2
      <4> QED  BY <1>0, <3>2, <3>4 DEF Accounting
    <3> QED  BY <1>f, <3>3, <3>5 DEF Exact
  <2> QED  BY <1>3, <2>1, <2>2 DEF Claim, Goto
<1>4. ASSUME NEW t \in Thread, CountFresh(t)
      PROVE  Exact'
  <2>1. /\ t \in Claimants /\ Claimants' = Claimants \ {t}
        /\ current[t] \notin owned /\ owned' = owned \cup {current[t]}
        /\ UNCHANGED <<free_stack, next_fresh>>
    BY <1>4 DEF CountFresh, Goto, Claimants, IInv, TypeOK, NoDoubleAllocation, ClaimOnce
  <2>2. Cardinality(Claimants') = Cardinality(Claimants) - 1
    BY ZenonT(60), <2>1, FS_RemoveElement DEF Exact
  <2>3. allocated_count' = allocated_count + 1 /\ allocated_count' = Cardinality(owned')
    BY <1>4, <2>1, AllocExact DEF CountFresh, IInv
  <2>4. Accounting'
    BY <1>0, <2>1, <2>2, <2>3 DEF Accounting, Exact
  <2> QED  BY <1>f, <2>3, <2>4 DEF Exact
<1>5. ASSUME NEW id \in owned, Release(id)
      PROVE  Exact'
  <2> DEFINE ids == <<id>>
  <2>1. /\ ids \in Seq(owned) /\ IsInjective(ids) /\ Range(ids) = {id}
        /\ Append(free_stack, id) = free_stack \o ids /\ Len(ids) = 1
    BY DEF IsInjective, Range, IInv, TypeOK
  <2> HIDE DEF ids
  <2> QED  BY ZenonT(60), <1>5, <2>1, ReleaseExact DEF Release
<1>6. ASSUME NEW ids \in Batches, NEW nones \in 0 .. MaxNone, ReleaseBatch(ids, nones)
      PROVE  Exact'
  <2>1. ids \in Seq(owned) /\ IsInjective(ids) /\ nones = 0 /\ Len(ids) \in Nat
    BY BatchType DEF IInv
  <2>2. Len(ids) + nones = Len(ids)
    BY <2>1
  <2> QED  BY SMTT(60), <1>6, <2>1, <2>2, ReleaseExact DEF ReleaseBatch
<1>7. CASE UNCHANGED vars
  BY <1>7, <1>s DEF vars, Claimants
<1> QED  BY SMTT(60), <1>1, <1>2, <1>3, <1>4, <1>5, <1>6, <1>7 DEF Next, Alloc

\* allocated_count is exact as long as release_batch is not given NONE.
THEOREM AccountingHolds ==
  ASSUME MaxNone = 0
  PROVE  Spec => []Accounting
<1>1. Init => Exact
  <2> SUFFICES ASSUME Init PROVE Exact
    OBVIOUS
  <2>1. owned = {} /\ Claimants = {} /\ Len(free_stack) = 0
    BY DEF Init, Claimants
  <2>2. Cardinality({}) = 0 /\ IsFiniteSet({})
    BY FS_EmptySet
  <2> QED  BY <2>1, <2>2 DEF Init, Exact, Accounting
<1>2. IInv /\ IInv' /\ Exact /\ [Next]_vars => Exact'
  BY StepExact
<1>3. Exact => Accounting
  BY DEF Exact
<1> QED  BY <1>1, <1>2, <1>3, Invariance, PTL DEF Spec

--------------------------------------------------------------------------------
(* Locks: SpinLock and SchedMutex *)

Inside == {"read", "write", "waiters", "unlock"}

\* The inductive invariant: any two threads inside are one, the flag says
\* whether there is one, and what it has read is still the value.
LockInv ==
  /\ lock_pc \in [Locker -> {"out", "spin"} \cup Inside]
  /\ local \in [Locker -> Nat] /\ data \in Nat
  /\ locked \in BOOLEAN
  /\ \A t, u \in Locker : lock_pc[t] \in Inside /\ lock_pc[u] \in Inside => t = u
  /\ locked <=> \E t \in Locker : lock_pc[t] \in Inside
  /\ \A t \in Locker : lock_pc[t] = "write" => local[t] = data

LEMMA LocksInitInv == LocksInit => LockInv
<1> SUFFICES ASSUME LocksInit PROVE LockInv
  OBVIOUS
<1>1. \A t \in Locker : lock_pc[t] = "out"
  BY DEF LocksInit
<1>2. lock_pc \in [Locker -> {"out", "spin"} \cup Inside] /\ local \in [Locker -> Nat] /\ data \in Nat
  BY DEF LocksInit
<1>3. locked \in BOOLEAN /\ ~locked
  BY ZenonT(60) DEF LocksInit
<1> QED
  BY <1>1, <1>2, <1>3 DEF LockInv, Inside

\* Only the owner of the flag moves inside, and nobody enters while it is set.
LEMMA LocksStepInv == LockInv /\ [LocksNext]_locksVars => LockInv'
<1> SUFFICES ASSUME LockInv, [LocksNext]_locksVars PROVE LockInv'
  OBVIOUS
<1> USE DEF LockInv, Inside, LockGoto
<1>1. ASSUME NEW t \in Locker, Lock(t) PROVE LockInv'
  <2>1. CASE ~locked /\ locked' = TRUE /\ LockGoto(t, "out", "read")
    BY <1>1, <2>1 DEF Lock
  <2>2. CASE LockGoto(t, "out", "spin") /\ UNCHANGED locked
    BY <1>1, <2>2 DEF Lock
  <2> QED
    BY <1>1, <2>1, <2>2, ZenonT(60) DEF Lock
<1>2. ASSUME NEW t \in Locker, LockSlow(t) PROVE LockInv'
  BY <1>2 DEF LockSlow
<1>3. ASSUME NEW t \in Locker, TryLockFails(t) PROVE LockInv'
  BY <1>3 DEF TryLockFails
<1>4. ASSUME NEW t \in Locker, Read(t) PROVE LockInv'
  BY <1>4 DEF Read
<1>5. ASSUME NEW t \in Locker, Write(t) PROVE LockInv'
  BY <1>5 DEF Write
<1>6. ASSUME NEW t \in Locker, PopWaiter(t) PROVE LockInv'
  BY <1>6 DEF PopWaiter
<1>7. ASSUME NEW t \in Locker, Unlock(t) PROVE LockInv'
  BY <1>7, ZenonT(60) DEF Unlock
<1>8. CASE UNCHANGED locksVars
  BY <1>8 DEF locksVars
<1> QED
  BY <1>1, <1>2, <1>3, <1>4, <1>5, <1>6, <1>7, <1>8 DEF LocksNext, LockStep, LocksFinished

LEMMA LockInvImplies == LockInv => NoLostUpdate
<1> SUFFICES ASSUME LockInv PROVE NoLostUpdate
  OBVIOUS
<1>1. Owners = {} \/ \E t \in Locker : Owners = {t}
  BY DEF LockInv, Inside, Owners
<1>2. Cardinality(Owners) <= 1
  <2>1. CASE Owners = {}
    <3>1. Cardinality(Owners) = 0
      BY <2>1, FS_EmptySet
    <3> QED
      BY <3>1
  <2>2. ASSUME NEW t \in Locker, Owners = {t} PROVE Cardinality(Owners) <= 1
    <3>1. Cardinality(Owners) = 1
      BY <2>2, FS_Singleton
    <3> QED
      BY <3>1
  <2> QED
    BY <1>1, <2>1, <2>2
<1>3. locked = (Owners # {})
  BY DEF LockInv, Inside, Owners
<1> QED
  BY <1>2, <1>3 DEF NoLostUpdate, LockInv

\* SpinLock::lock, SchedMutex::lock and their releases: at most one thread holds
\* the lock, the flag is set exactly while one does, and no update made under it
\* is lost, for every set of threads.
THEOREM NoLostUpdateHolds == LocksSpec => []NoLostUpdate
  BY LocksInitInv, LocksStepInv, LockInvImplies, PTL DEF LocksSpec

--------------------------------------------------------------------------------
(* Parking: FutexParking and FallbackParking *)

Counted ==
  {w \in Parker : park_pc[w] \in {"wait", "asleep", "leave", "again", "lock", "relock"}}

\* A worker on its way back from the condition variable.
Up == \E w \in Parker : \/ park_pc[w] \in {"relock", "leave"}
                        \/ park_pc[w] = "asleep" /\ w \notin sleeping

\* A waker that has posted and not notified yet.
Pending == \E k \in Waker : park_pc[k] \in {"check", "wakeOne", "wakeAll"}

Places == {"out", "count", "wait", "asleep", "leave", "again", "consume", "lock", "relock",
           "check", "postOne", "postAll", "wakeOne", "wakeAll"}

ParkType ==
  /\ park_kind \in {"futex", "fallback"}
  /\ word \in Nat /\ (park_kind = "fallback" => word \in {0, 1})
  /\ seen \in [Waker -> Nat]
  /\ park_pc \in [Parker \cup Waker -> Places]
  /\ sleeping \subseteq {w \in Parker : park_pc[w] = "asleep"}
  /\ \A w \in Parker : park_pc[w] \in {"out", "count", "wait", "asleep", "leave", "again",
                                  "consume", "lock", "relock"}
  /\ \A w \in Parker : park_kind = "futex" => park_pc[w] \notin {"lock", "relock"}
  /\ \A w \in Parker : park_kind = "fallback" => park_pc[w] \notin {"count", "wait", "again", "consume"}
  /\ \A k \in Waker : park_pc[k] \in {"out", "check", "postOne", "postAll", "wakeOne", "wakeAll"}
  /\ \A k \in Waker : park_kind = "futex" => park_pc[k] # "postOne"
  /\ \A k \in Waker : park_kind = "fallback" => park_pc[k] # "check"

\* The inductive invariant.  The counter counts the workers inside park.  While
\* a wake-up is outstanding, it is still in the word, or (condition variable
\* only) the worker that took it is on its way out; and unless its waker has
\* still to notify, not everybody is asleep.
ParkInv ==
  /\ ParkType
  /\ parked = Cardinality(Counted)
  /\ signal => word > 0 \/ (park_kind = "fallback" /\ Up)
  /\ signal => Pending \/ sleeping # Parker

USE DEF ParkGoto

LEMMA ParkInitInv == ParkingInit => ParkInv
<1> SUFFICES ASSUME ParkingInit PROVE ParkInv
  OBVIOUS
<1>1. Counted = {}
  BY DEF ParkingInit, Counted
<1>2. Cardinality(Counted) = 0
  BY <1>1, FS_EmptySet, ZenonT(60)
<1> QED
  <2>1. ParkType
    BY ParkingAssumption DEF ParkingInit, ParkType, Places
  <2>2. parked = 0 /\ ~signal
    BY DEF ParkingInit
  <2> QED
    BY <1>2, <2>1, <2>2 DEF ParkInv

LEMMA ParkTypeStep ==
  ASSUME ParkType, parked \in Nat, [ParkingNext]_parkingVars
  PROVE  ParkType'
<1> USE ParkingAssumption DEF ParkType, Places
<1>1. ASSUME NEW w \in Parker, ParkFutex(w) PROVE ParkType'
  BY <1>1 DEF ParkFutex
<1>2. ASSUME NEW w \in Parker, ParkFallback(w) PROVE ParkType'
  BY <1>2 DEF ParkFallback
<1>3. ASSUME NEW w \in Parker, CountParked(w) PROVE ParkType'
  BY <1>3 DEF CountParked
<1>4. ASSUME NEW w \in Parker, FutexWait(w) PROVE ParkType'
  BY <1>4 DEF FutexWait
<1>5. ASSUME NEW w \in Parker, LockAndWait(w) PROVE ParkType'
  BY <1>5 DEF LockAndWait
<1>6. ASSUME NEW w \in Parker, Timeout(w) PROVE ParkType'
  BY <1>6 DEF Timeout
<1>7. ASSUME NEW w \in Parker, Woken(w) PROVE ParkType'
  BY <1>7 DEF Woken
<1>8. ASSUME NEW w \in Parker, Relock(w) PROVE ParkType'
  BY <1>8 DEF Relock
<1>9. ASSUME NEW w \in Parker, Leave(w) PROVE ParkType'
  BY <1>9 DEF Leave
<1>10. ASSUME NEW w \in Parker, Consume(w) PROVE ParkType'
  BY <1>10 DEF Consume
<1>11. ASSUME NEW k \in Waker, Wake(k) PROVE ParkType'
  BY <1>11 DEF Wake
<1>12. ASSUME NEW k \in Waker, CheckParked(k) PROVE ParkType'
  BY <1>12 DEF CheckParked
<1>13. ASSUME NEW k \in Waker, Post(k) PROVE ParkType'
  BY <1>13 DEF Post
<1>14. ASSUME NEW k \in Waker, Notify(k) PROVE ParkType'
  BY <1>14 DEF Notify
<1>15. CASE UNCHANGED parkingVars
  BY <1>15 DEF parkingVars
<1> QED
  BY <1>1, <1>2, <1>3, <1>4, <1>5, <1>6, <1>7, <1>8, <1>9, <1>10, <1>11, <1>12,
     <1>13, <1>14, <1>15, ZenonT(60) DEF ParkingNext

\* One worker enters or leaves the set the counter stands for.
LEMMA CountedFinite == IsFiniteSet(Counted) /\ IsFiniteSet(Counted')
  BY FS_Subset, ParkingAssumption DEF Counted

LEMMA ParkedStep ==
  ASSUME ParkType, ParkType', [ParkingNext]_parkingVars, parked = Cardinality(Counted)
  PROVE  parked' = Cardinality(Counted')
<1> USE ParkingAssumption DEF ParkType
<1>1. ASSUME NEW w \in Parker, ParkFallback(w) \/ CountParked(w) PROVE parked' = Cardinality(Counted')
  <2>1. Counted' = Counted \cup {w} /\ w \notin Counted /\ parked' = parked + 1
    BY <1>1 DEF Counted, ParkFallback, CountParked
  <2> QED
    BY <2>1, CountedFinite, FS_AddElement
<1>2. ASSUME NEW w \in Parker, Leave(w) PROVE parked' = Cardinality(Counted')
  <2>1. Counted' = Counted \ {w} /\ w \in Counted /\ parked' = parked - 1
    BY <1>2 DEF Counted, Leave
  <2> QED
    BY <2>1, CountedFinite, FS_RemoveElement
<1>3. ASSUME Counted' = Counted, parked' = parked PROVE parked' = Cardinality(Counted')
  BY <1>3, ZenonT(60)
<1>4. ASSUME NEW w \in Parker,
             ParkFutex(w) \/ FutexWait(w) \/ LockAndWait(w) \/ Timeout(w) \/ Woken(w)
               \/ Relock(w) \/ Consume(w)
      PROVE  Counted' = Counted /\ parked' = parked
  BY <1>4 DEF Counted, ParkFutex, FutexWait, LockAndWait, Timeout, Woken, Relock, Consume
<1>5. ASSUME NEW k \in Waker, Wake(k) \/ CheckParked(k) \/ Post(k) \/ Notify(k)
      PROVE  Counted' = Counted /\ parked' = parked
  BY <1>5 DEF Counted, Wake, CheckParked, Post, Notify
<1>6. CASE UNCHANGED parkingVars
  BY <1>6 DEF parkingVars, Counted
<1> QED
  BY <1>1, <1>2, <1>3, <1>4, <1>5, <1>6, ZenonT(60) DEF ParkingNext

\* An outstanding wake-up is in the word or with a worker on its way out.
LEMMA PostedStep ==
  ASSUME ParkType, ParkType', [ParkingNext]_parkingVars,
         signal => word > 0 \/ (park_kind = "fallback" /\ Up)
  PROVE  (signal => word > 0 \/ (park_kind = "fallback" /\ Up))'
<1> USE ParkingAssumption DEF ParkType, Up
<1>1. ASSUME NEW w \in Parker, ParkFutex(w) \/ ParkFallback(w) \/ CountParked(w) \/ FutexWait(w)
      PROVE  (signal => word > 0 \/ (park_kind = "fallback" /\ Up))'
  BY <1>1, ZenonT(30) DEF ParkFutex, ParkFallback, CountParked, FutexWait
<1>2. ASSUME NEW w \in Parker, LockAndWait(w) \/ Timeout(w) \/ Woken(w) \/ Relock(w)
      PROVE  (signal => word > 0 \/ (park_kind = "fallback" /\ Up))'
  <2>1. CASE LockAndWait(w) /\ word = 1
    <3>1. park_kind' = "fallback" /\ park_pc'[w] = "leave"
      BY <1>2, <2>1 DEF LockAndWait
    <3> QED
      BY <3>1
  <2>2. CASE LockAndWait(w) /\ word # 1
    <3>1. UNCHANGED <<park_kind, word, signal>> /\ sleeping' = sleeping \cup {w} /\ park_pc[w] = "lock"
      BY <2>2 DEF LockAndWait
    <3>2. \A v \in Parker \ {w} : park_pc'[v] = park_pc[v]
      BY <2>2 DEF LockAndWait
    <3> QED
      BY <3>1, <3>2
  <2>3. CASE Timeout(w) \/ Woken(w) \/ Relock(w)
    BY <2>3, ZenonT(60) DEF Timeout, Woken, Relock
  <2> QED
    BY <1>2, <2>1, <2>2, <2>3
<1>3. ASSUME NEW w \in Parker, Leave(w) \/ Consume(w)
      PROVE  (signal => word > 0 \/ (park_kind = "fallback" /\ Up))'
  BY <1>3, ZenonT(30) DEF Leave, Consume
<1>4. ASSUME NEW k \in Waker, Wake(k) \/ Post(k) PROVE (signal => word > 0 \/ (park_kind = "fallback" /\ Up))'
  <2>1. word' > 0 \/ UNCHANGED <<word, signal>>
    BY <1>4 DEF Wake, Post
  <2>2. UNCHANGED <<park_kind, sleeping>> /\ \A w \in Parker : park_pc'[w] = park_pc[w]
    BY <1>4 DEF Wake, Post
  <2>3. Up' <=> Up
    BY <2>2
  <2> HIDE DEF Up, ParkType
  <2> QED
    BY <2>1, <2>2, <2>3, ZenonT(60)
<1>5. ASSUME NEW k \in Waker, CheckParked(k) \/ Notify(k) PROVE (signal => word > 0 \/ (park_kind = "fallback" /\ Up))'
  <2>1. UNCHANGED <<park_kind, word, signal>> /\ sleeping' \subseteq sleeping
    BY <1>5 DEF CheckParked, Notify
  <2>2. \A w \in Parker : park_pc'[w] = park_pc[w]
    BY <1>5 DEF CheckParked, Notify
  <2> QED
    BY <2>1, <2>2
<1>6. CASE UNCHANGED parkingVars
  BY <1>6 DEF parkingVars
<1> QED
  BY <1>1, <1>2, <1>3, <1>4, <1>5, <1>6 DEF ParkingNext

\* The last waker to notify leaves somebody awake, and while a wake-up is
\* outstanding the last worker awake does not go to sleep.
LEMMA AwakeStep ==
  ASSUME ParkInv, ParkType', [ParkingNext]_parkingVars
  PROVE  (signal => Pending \/ sleeping # Parker)'
<1> USE ParkingAssumption DEF ParkType, Pending
<1>1. ASSUME NEW w \in Parker, ParkFutex(w) \/ ParkFallback(w) \/ CountParked(w) \/ Timeout(w)
                                \/ Woken(w) \/ Relock(w) \/ Leave(w) \/ Consume(w)
      PROVE  (signal => Pending \/ sleeping # Parker)'
  BY <1>1, ZenonT(30) DEF ParkInv, ParkFutex, ParkFallback, CountParked, Timeout, Woken, Relock, Leave, Consume
<1>2. ASSUME NEW w \in Parker, FutexWait(w) PROVE (signal => Pending \/ sleeping # Parker)'
  BY <1>2 DEF ParkInv, FutexWait, Up
<1>3. ASSUME NEW w \in Parker, LockAndWait(w) PROVE (signal => Pending \/ sleeping # Parker)'
  BY <1>3 DEF ParkInv, LockAndWait, Up
<1>4. ASSUME NEW k \in Waker, Wake(k) \/ Post(k)
      PROVE  (signal => Pending \/ sleeping # Parker)'
  <2>1. Pending' \/ UNCHANGED <<signal, sleeping>>
    BY <1>4 DEF Wake, Post
  <2>2. CASE UNCHANGED <<signal, sleeping>> /\ Pending
    <3>1. PICK j \in Waker : park_pc[j] \in {"check", "wakeOne", "wakeAll"}
      BY <2>2
    <3>2. park_pc'[j] = park_pc[j]
      BY <1>4, <3>1 DEF Wake, Post
    <3> QED
      BY <3>1, <3>2
  <2> QED
    BY <2>1, <2>2, ZenonT(60) DEF ParkInv
<1>5. ASSUME NEW k \in Waker, CheckParked(k) PROVE (signal => Pending \/ sleeping # Parker)'
  <2>1. CASE parked > 0
    BY <1>5, <2>1 DEF ParkInv, CheckParked
  <2>2. CASE ~(parked > 0)
    <3>1. Cardinality(Counted) = 0
      BY <2>2, CountedFinite, FS_CardinalityType DEF ParkInv
    <3>2. Counted = {}
      BY <3>1, CountedFinite, FS_EmptySet
    <3>3. sleeping' = {}
      BY <1>5, <3>2 DEF Counted, ParkInv, CheckParked
    <3> QED
      BY <3>3
  <2> QED
    BY <2>1, <2>2
<1>6. ASSUME NEW k \in Waker, Notify(k) PROVE (signal => Pending \/ sleeping # Parker)'
  BY <1>6 DEF ParkInv, Notify
<1>7. CASE UNCHANGED parkingVars
  BY <1>7 DEF parkingVars, ParkInv
<1> QED
  BY <1>1, <1>2, <1>3, <1>4, <1>5, <1>6, <1>7 DEF ParkingNext

LEMMA ParkStep == ParkInv /\ [ParkingNext]_parkingVars => ParkInv'
<1> SUFFICES ASSUME ParkInv, [ParkingNext]_parkingVars PROVE ParkInv'
  OBVIOUS
<1>1. ParkType'
  <2>1. parked \in Nat
    BY CountedFinite, FS_CardinalityType DEF ParkInv
  <2> QED
    BY <2>1, ParkTypeStep DEF ParkInv
<1> QED
  BY <1>1, ParkedStep, PostedStep, AwakeStep DEF ParkInv

\* park, wake_one and wake_all of both implementations: once a wake-up has been
\* posted and its waker has returned, some worker is not asleep until one comes
\* back from park.
THEOREM NoLostSignalHolds == ParkingSpec => []NoLostSignal
<1>1. ParkInv => NoLostSignal
  BY DEF ParkInv, NoLostSignal, Pending
<1> QED
  BY <1>1, ParkInitInv, ParkStep, PTL DEF ParkingSpec

================================================================================
