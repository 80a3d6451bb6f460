----------------------------- MODULE TimeProofs -----------------------------
(****************************************************************************)
(* Proofs about what runs by the clock, for any number of timers and        *)
(* connections: timers call back once and not late, the load generator      *)
(* reports what it measured.                                                *)
(****************************************************************************)
EXTENDS HeapTimers, LoadGen, FiniteSetTheorems, WellFoundedInduction, TLAPS

\* The default provers, with more time than they have by default.
USE SMTT(100), ZenonT(60)

--------------------------------------------------------------------------------
(* HeapTimers *)

LEMMA LeastNat ==
  ASSUME NEW S \in SUBSET Nat, S # {}
  PROVE  Min(S) \in S /\ \A y \in S : Min(S) <= y
<1>1. PICK x \in S : \A y \in S : ~(<<y, x>> \in OpToRel(<, Nat))
  BY NatLessThanWellFounded, WFMin, ZenonT(60)
<1>2. \A y \in S : x <= y
  <2> SUFFICES ASSUME NEW y \in S, ~(x <= y) PROVE FALSE
    OBVIOUS
  <2>1. y < x /\ y \in Nat /\ x \in Nat
    OBVIOUS
  <2>2. <<y, x>> \in Nat \X Nat
    BY <2>1
  <2>3. <<y, x>>[1] < <<y, x>>[2]
    BY <2>1
  <2>4. <<y, x>> \in OpToRel(<, Nat)
    BY <2>2, <2>3, ZenonT(60) DEF OpToRel
  <2> QED
    BY <1>1, <2>4, ZenonT(60)
<1> QED
  BY <1>2, ZenonT(60) DEF Min

LEMMA PairBounds ==
  ASSUME NEW a \in Nat, NEW b \in Nat
  PROVE  /\ Max({a, b}) \in Nat /\ Max({a, b}) >= a /\ Max({a, b}) >= b
         /\ Max({a, b}) = a \/ Max({a, b}) = b
         /\ Min({a, b}) \in Nat /\ Min({a, b}) <= a /\ Min({a, b}) <= b
<1>1. \E x \in {a, b} : \A y \in {a, b} : x >= y
  OBVIOUS
<1>2. Max({a, b}) \in {a, b} /\ \A y \in {a, b} : Max({a, b}) >= y
  BY <1>1, ZenonT(60) DEF Max
<1>3. \E x \in {a, b} : \A y \in {a, b} : x <= y
  OBVIOUS
<1>4. Min({a, b}) \in {a, b} /\ \A y \in {a, b} : Min({a, b}) <= y
  BY <1>3, ZenonT(60) DEF Min
<1> QED
  BY <1>2, <1>4

-----------------------------------------------------------------------------
(* The order of the heap. *)

TimerEntry == [handle : Nat, deadline : Nat, gvt : TimerGvt, kind : {"once", "periodic"}]

OneEach(S) == \A e, f \in S : e.handle = f.handle => e = f

Ordered(s, n) == \A i, j \in 1 .. n : i < j => Before(s[i], s[j])

LEMMA FirstEntry ==
  ASSUME NEW S \in SUBSET TimerEntry, S # {}, OneEach(S)
  PROVE  \E e \in S : \A f \in S \ {e} : Before(e, f)
<1> DEFINE D == {e.deadline : e \in S}
           d == Min(D)
<1>1. D \in SUBSET Nat /\ D # {}
  BY DEF TimerEntry
<1>2. d \in D /\ \A x \in D : d <= x
  BY <1>1, LeastNat, ZenonT(60)
<1> HIDE DEF d
<1> DEFINE T == {e \in S : e.deadline = d}
           H == {e.handle : e \in T}
           h == Min(H)
<1>3. H \in SUBSET Nat /\ H # {}
  BY <1>2 DEF TimerEntry
<1>4. h \in H /\ \A x \in H : h <= x
  BY <1>3, LeastNat, ZenonT(60)
<1> HIDE DEF h
<1>5. PICK e \in S : e.deadline = d /\ e.handle = h
  BY <1>4
<1>6. ASSUME NEW f \in S \ {e} PROVE Before(e, f)
  <2>1. /\ f.deadline \in Nat /\ d \in Nat /\ f.handle \in Nat /\ h \in Nat
        /\ d <= f.deadline /\ f.handle # h
    BY <1>1, <1>2, <1>3, <1>4, <1>5 DEF TimerEntry, OneEach
  <2>2. f.deadline = d => h <= f.handle
    BY <1>4
  <2> QED
    BY <1>5, <2>1, <2>2 DEF Before
<1> QED
  BY <1>6

Sortable(n) ==
  \A S \in SUBSET TimerEntry : IsFiniteSet(S) /\ Cardinality(S) = n /\ OneEach(S)
    => \E s \in [1 .. n -> S] : Ordered(s, n)

\* One step of the induction: the first entry, then the others in order.
LEMMA SortStep ==
  ASSUME NEW n \in Nat, Sortable(n)
  PROVE  Sortable(n + 1)
<1> SUFFICES ASSUME NEW S \in SUBSET TimerEntry, IsFiniteSet(S), Cardinality(S) = n + 1,
                    OneEach(S)
             PROVE  \E s \in [1 .. n + 1 -> S] : Ordered(s, n + 1)
  BY DEF Sortable
<1>1. S # {}
  BY FS_EmptySet
<1>2. PICK e \in S : \A f \in S \ {e} : Before(e, f)
  BY <1>1, FirstEntry
<1>3. IsFiniteSet(S \ {e}) /\ Cardinality(S \ {e}) = n
  BY FS_RemoveElement
<1>4. OneEach(S \ {e}) /\ S \ {e} \in SUBSET TimerEntry
  BY DEF OneEach
<1>5. PICK s \in [1 .. n -> S \ {e}] : Ordered(s, n)
  BY <1>3, <1>4, ZenonT(60) DEF Sortable
<1> DEFINE t == [i \in 1 .. n + 1 |-> IF i = 1 THEN e ELSE s[i - 1]]
<1>6. \A i \in 1 .. n + 1 : i # 1 => i - 1 \in 1 .. n /\ t[i] = s[i - 1] /\ t[i] \in S \ {e}
  OBVIOUS
<1>7. t[1] = e /\ t \in [1 .. n + 1 -> S]
  BY <1>6
<1> HIDE DEF t
<1>8. Ordered(t, n + 1)
  <2> SUFFICES ASSUME NEW i \in 1 .. n + 1, NEW j \in 1 .. n + 1, i < j
               PROVE  Before(t[i], t[j])
    BY DEF Ordered
  <2>1. j # 1
    OBVIOUS
  <2>2. CASE i = 1
    BY <1>2, <1>6, <1>7, <2>1, <2>2
  <2>3. CASE i # 1
    <3>1. i - 1 < j - 1
      OBVIOUS
    <3> QED
      BY <1>5, <1>6, <2>1, <2>3, <3>1 DEF Ordered
  <2> QED
    BY <2>2, <2>3
<1> QED
  BY <1>7, <1>8

\* Every finite set of timers with different handles can be put in order: the
\* smallest size for which it could not would follow one for which it can.
LEMMA SortExists == \A n \in Nat : Sortable(n)
<1> DEFINE Bad == {n \in Nat : ~Sortable(n)}
<1> SUFFICES ASSUME Bad # {} PROVE FALSE
  OBVIOUS
<1>1. Bad \in SUBSET Nat
  OBVIOUS
<1>2. PICK m \in Bad : \A y \in Bad : m <= y
  BY <1>1, LeastNat, ZenonT(60)
<1>3. Sortable(0)
  <2> SUFFICES ASSUME NEW S PROVE \E s \in [1 .. 0 -> S] : Ordered(s, 0)
    BY DEF Sortable
  <2>1. [i \in 1 .. 0 |-> i] \in [1 .. 0 -> S] /\ Ordered([i \in 1 .. 0 |-> i], 0)
    BY DEF Ordered
  <2> QED
    BY <2>1, ZenonT(60)
<1>4. m # 0 /\ m \in Nat
  BY <1>3
<1>5. m - 1 \in Nat /\ m - 1 \notin Bad /\ (m - 1) + 1 = m
  BY <1>2, <1>4
<1>6. Sortable(m - 1)
  BY <1>5
<1>7. Sortable(m)
  BY <1>5, <1>6, SortStep
<1> QED
  BY <1>7

-----------------------------------------------------------------------------
(* The inductive invariant. *)

Longest == Max({MaxPoll, MinSleep})

\* How late the thread can be: it has just polled, or sleeps until a time that
\* is not too late for any timer.
InTime ==
  /\ timer_pc \in {"deliver", "plan"} => \A e \in heap : e.deadline >= now
  /\ timer_pc = "sleep" =>
       /\ now <= wakeAt /\ wakeAt <= now + Longest
       /\ \A e \in heap : wakeAt <= e.deadline + Longest
  /\ timer_pc = "poll" => \A e \in heap : now <= e.deadline + Longest

\* A revoked handle that is in the heap is marked; one that fired is not there.
Marked ==
  /\ \A h \in revoked : h \in Nat /\ h < next /\ (h \in Handles => h \in cancelled)
  /\ \A h \in fired : h \in Nat /\ h < next /\ h \notin Handles
  /\ CancelHolds

TimersInv ==
  /\ now \in Nat /\ next \in Nat /\ total_fired \in Nat /\ woken \in Nat /\ wakeAt \in Nat
  /\ timer_pc \in {"poll", "deliver", "plan", "sleep", "exited"}
  /\ heap \in SUBSET TimerEntry /\ IsFiniteSet(heap) /\ OneEach(heap)
  /\ \A e \in heap : e.handle < next
  /\ batch \in Seq(TimerEntry)
  /\ AllCalledBack /\ Marked /\ InTime

LEMMA LongestBounds == Longest \in Nat /\ Longest >= MaxPoll /\ Longest >= MinSleep
  BY HeapTimersAssumption, PairBounds DEF Longest

LEMMA HeapTimersInitInv == HeapTimersInit => TimersInv
<1> SUFFICES ASSUME HeapTimersInit PROVE TimersInv
  OBVIOUS
<1> USE DEF HeapTimersInit
<1>1. IsFiniteSet(heap)
  BY FS_EmptySet
<1>2. Marked
  BY DEF Marked, CancelHolds
<1>3. InTime
  BY DEF InTime
<1>4. AllCalledBack /\ batch \in Seq(TimerEntry)
  BY DEF AllCalledBack
<1>5. OneEach(heap)
  BY DEF OneEach
<1> QED
  BY <1>1, <1>2, <1>3, <1>4, <1>5 DEF TimersInv

LEMMA ScheduleKeeps ==
  ASSUME TimersInv, NEW g \in TimerGvt, NEW d \in Delays, NEW k \in {"once", "periodic"},
         Schedule(g, k, d)
  PROVE  TimersInv'
<1> DEFINE x == Entry(next, now + d, g, k)
<1>1. /\ heap' = heap \cup {x} /\ next' = next + 1
      /\ UNCHANGED <<now, cancelled, total_fired, revoked, fired, timer_pc, batch, woken,
                     wakeAt, shutdown>>
  BY DEF Schedule, thread
<1>2. d \in Nat /\ now \in Nat /\ next \in Nat
  BY HeapTimersAssumption DEF TimersInv
<1>3. x \in TimerEntry /\ x.handle = next /\ x.deadline = now + d
  BY <1>2 DEF TimerEntry, Entry
<1> HIDE DEF x
<1>4. \A e \in heap : e \in TimerEntry /\ e.handle < next /\ e.handle \in Nat /\ e.deadline \in Nat
  BY DEF TimersInv, TimerEntry
<1>5. heap' \in SUBSET TimerEntry /\ IsFiniteSet(heap')
  BY <1>1, <1>3, FS_AddElement DEF TimersInv
<1>6. OneEach(heap') /\ \A e \in heap' : e.handle < next'
  BY <1>1, <1>2, <1>3, <1>4 DEF OneEach, TimersInv
<1>7. Handles' = Handles \cup {next}
  BY <1>1, <1>3 DEF Handles
<1>8. Marked'
  BY <1>1, <1>2, <1>7 DEF Marked, TimersInv, CancelHolds
<1>9. InTime'
  <2>1. now + d >= now /\ now + d + Longest >= now + Longest /\ now + d + Longest >= now
    BY <1>2, LongestBounds
  <2>2. timer_pc = "sleep" => wakeAt <= now + d + Longest
    BY <1>2, LongestBounds DEF InTime, TimersInv
  <2> QED
    BY <1>1, <1>3, <2>1, <2>2 DEF InTime, TimersInv
<1>10. AllCalledBack'
  BY <1>1 DEF TimersInv, AllCalledBack, Before
<1> QED
  BY <1>1, <1>2, <1>5, <1>6, <1>8, <1>9, <1>10 DEF TimersInv

LEMMA CancelKeeps ==
  ASSUME TimersInv, NEW h \in 1 .. HandleLimit, CancelTimer(h)
  PROVE  TimersInv'
<1>1. /\ cancelled' = cancelled \cup {h} /\ h < next /\ h \notin cancelled
      /\ revoked' = IF h \in Handles THEN revoked \cup {h} ELSE revoked
      /\ UNCHANGED <<now, heap, total_fired, next, fired, timer_pc, batch, woken, wakeAt,
                     shutdown>>
  BY DEF CancelTimer, thread
<1>2. Handles' = Handles
  BY <1>1 DEF Handles
<1>3. Marked'
  BY <1>1, <1>2 DEF Marked, TimersInv, CancelHolds
<1>4. InTime' /\ AllCalledBack' /\ OneEach(heap)'
  BY <1>1 DEF TimersInv, InTime, AllCalledBack, Before, OneEach
<1> QED
  BY <1>1, <1>3, <1>4 DEF TimersInv

LEMMA FiringOrdered ==
  ASSUME TimersInv
  PROVE  /\ Due \in SUBSET heap /\ IsFiniteSet(Due) /\ Cardinality(Due) \in Nat
         /\ Firing \in [1 .. Cardinality(Due) -> Due] /\ Ordered(Firing, Cardinality(Due))
<1>1. Due \in SUBSET heap /\ heap \in SUBSET TimerEntry
  BY DEF Due, Expired, TimersInv
<1>2. IsFiniteSet(Due) /\ Cardinality(Due) \in Nat
  BY <1>1, FS_Subset, FS_CardinalityType DEF TimersInv
<1>3. OneEach(Due) /\ Due \in SUBSET TimerEntry
  BY <1>1 DEF OneEach, TimersInv
<1> DEFINE n == Cardinality(Due)
<1>4. \E s \in [1 .. n -> Due] : Ordered(s, n)
  BY <1>2, <1>3, SortExists, ZenonT(60) DEF Sortable
<1>5. Firing \in [1 .. n -> Due] /\ Ordered(Firing, n)
  BY <1>4, ZenonT(60) DEF Firing, Ordered
<1> QED
  BY <1>1, <1>2, <1>5

\* The entries of periodic timers come back under fresh handles.
LEMMA RescheduledFresh ==
  ASSUME TimersInv
  PROVE  /\ Rescheduled \in SUBSET TimerEntry /\ IsFiniteSet(Rescheduled)
         /\ OneEach(Rescheduled) /\ Cardinality(PeriodicAt) \in Nat
         /\ \A e \in Rescheduled : /\ e.handle >= next
                                   /\ e.handle < next + Cardinality(PeriodicAt)
                                   /\ e.deadline = now + Interval
<1> DEFINE n == Cardinality(Due)
           Earlier(i) == {j \in PeriodicAt : j < i}
           New(i) == Entry(next + Cardinality(Earlier(i)), now + Interval,
                           Firing[i].gvt, "periodic")
<1>1. /\ n \in Nat /\ Firing \in [1 .. n -> Due] /\ DOMAIN Firing = 1 .. n
      /\ Due \in SUBSET TimerEntry
  BY FiringOrdered DEF TimersInv
<1>2. PeriodicAt \in SUBSET (1 .. n) /\ IsFiniteSet(1 .. n)
  BY <1>1, FS_Interval DEF PeriodicAt
<1>3. IsFiniteSet(PeriodicAt) /\ Cardinality(PeriodicAt) \in Nat
  BY <1>2, FS_Subset, FS_CardinalityType, ZenonT(60)
<1>4. ASSUME NEW i \in PeriodicAt
      PROVE  /\ IsFiniteSet(Earlier(i)) /\ Cardinality(Earlier(i)) \in Nat
             /\ Cardinality(Earlier(i)) < Cardinality(PeriodicAt)
  <2>1. Earlier(i) \subseteq PeriodicAt /\ Earlier(i) # PeriodicAt
    BY <1>2
  <2> QED
    BY <1>3, <2>1, FS_Subset, FS_CardinalityType
<1>5. ASSUME NEW i \in PeriodicAt, NEW k \in PeriodicAt, i < k
      PROVE  Cardinality(Earlier(i)) < Cardinality(Earlier(k))
  <2>1. i \in Nat /\ k \in Nat /\ \A j \in PeriodicAt : j \in Nat /\ (j < i => j < k)
    BY <1>2, <1>5
  <2>2. Earlier(i) \subseteq Earlier(k) /\ i \in Earlier(k)
    BY <1>5, <2>1, ZenonT(60)
  <2>3. i \notin Earlier(i)
    <3>1. ~(i < i)
      BY <2>1
    <3> QED
      BY <3>1, ZenonT(60)
  <2>4. IsFiniteSet(Earlier(k))
    BY <1>4
  <2>5. Cardinality(Earlier(i)) <= Cardinality(Earlier(k))
    BY <2>2, <2>4, FS_Subset
  <2>6. Cardinality(Earlier(i)) # Cardinality(Earlier(k))
    BY <2>2, <2>3, <2>4, FS_Subset
  <2>7. Cardinality(Earlier(i)) \in Nat /\ Cardinality(Earlier(k)) \in Nat
    BY <1>4
  <2> HIDE DEF Earlier
  <2> QED
    BY <2>5, <2>6, <2>7
<1>6. Rescheduled = {New(i) : i \in PeriodicAt}
  BY DEF Rescheduled
<1>7. ASSUME NEW i \in PeriodicAt
      PROVE  /\ New(i) \in TimerEntry /\ New(i).deadline = now + Interval
             /\ New(i).handle = next + Cardinality(Earlier(i))
             /\ New(i).handle >= next /\ New(i).handle < next + Cardinality(PeriodicAt)
  <2>1. now \in Nat /\ Interval \in Nat /\ next \in Nat
    BY HeapTimersAssumption DEF TimersInv
  <2>2. Firing[i].gvt \in TimerGvt
    BY <1>1, <1>2 DEF TimerEntry
  <2>3. Cardinality(Earlier(i)) \in Nat /\ Cardinality(Earlier(i)) < Cardinality(PeriodicAt)
    BY <1>4
  <2> HIDE DEF Earlier
  <2> QED
    BY <1>3, <2>1, <2>2, <2>3 DEF Entry, TimerEntry
<1>8. ASSUME NEW i \in PeriodicAt, NEW k \in PeriodicAt, New(i).handle = New(k).handle
      PROVE  i = k
  <2>1. /\ Cardinality(Earlier(i)) \in Nat /\ Cardinality(Earlier(k)) \in Nat
        /\ New(i).handle = next + Cardinality(Earlier(i)) /\ next \in Nat
        /\ New(k).handle = next + Cardinality(Earlier(k))
    BY <1>4, <1>7, ZenonT(60) DEF TimersInv
  <2>2. Cardinality(Earlier(i)) = Cardinality(Earlier(k))
    BY <1>8, <2>1
  <2> HIDE DEF Earlier, New
  <2>3. ~(i < k)
    <3> SUFFICES ASSUME i < k PROVE FALSE
      OBVIOUS
    <3> QED
      BY <1>5, <2>1, <2>2
  <2>4. ~(k < i)
    <3> SUFFICES ASSUME k < i PROVE FALSE
      OBVIOUS
    <3> QED
      BY <1>5, <2>1, <2>2
  <2> QED
    BY <1>2, <2>3, <2>4
<1> HIDE DEF New
<1>9. IsFiniteSet(Rescheduled)
  <2> DEFINE f == [i \in PeriodicAt |-> New(i)]
  <2>1. f \in Surjection(PeriodicAt, Rescheduled)
    BY <1>6 DEF Surjection
  <2> QED
    BY <1>3, <2>1, FS_Surjection
<1>10. OneEach(Rescheduled)
  <2> SUFFICES ASSUME NEW e \in Rescheduled, NEW f \in Rescheduled, e.handle = f.handle
               PROVE  e = f
    BY DEF OneEach
  <2>1. PICK i \in PeriodicAt : e = New(i)
    BY <1>6
  <2>2. PICK k \in PeriodicAt : f = New(k)
    BY <1>6
  <2> QED
    BY <1>8, <2>1, <2>2
<1> QED
  BY <1>3, <1>6, <1>7, <1>9, <1>10, ZenonT(60)

LEMMA PollKeeps ==
  ASSUME TimersInv, Poll
  PROVE  TimersInv'
<1> DEFINE n == Cardinality(Due)
           K == Cardinality(PeriodicAt)
<1>1. /\ heap' = (heap \ Expired) \cup Rescheduled
      /\ cancelled' = IF heap' = {} THEN {} ELSE cancelled \ {e.handle : e \in Expired}
      /\ total_fired' = total_fired + Len(Firing)
      /\ next' = next + K
      /\ fired' = fired \cup {Firing[i].handle : i \in DOMAIN Firing}
      /\ batch' = Firing /\ timer_pc' = "deliver" /\ timer_pc = "poll"
      /\ UNCHANGED <<now, woken, wakeAt, shutdown, revoked>>
  BY DEF Poll, PollEffect
<1>2. /\ Due \in SUBSET heap /\ Due \in SUBSET Expired /\ n \in Nat
      /\ Firing \in [1 .. n -> Due] /\ Ordered(Firing, n)
      /\ \A e \in Due : e.handle \notin cancelled
  BY FiringOrdered DEF Due
<1>3. /\ Rescheduled \in SUBSET TimerEntry /\ IsFiniteSet(Rescheduled)
      /\ OneEach(Rescheduled) /\ K \in Nat
      /\ \A e \in Rescheduled : e.handle >= next /\ e.handle < next + K
      /\ \A e \in Rescheduled : e.deadline = now + Interval
  BY RescheduledFresh
<1> HIDE DEF K, n
<1>4. /\ heap \in SUBSET TimerEntry /\ next \in Nat /\ now \in Nat
      /\ OneEach(heap) /\ \A e \in heap : e.handle \in Nat /\ e.handle < next /\ e.deadline \in Nat
      /\ Expired \in SUBSET heap /\ \A e \in heap \ Expired : e.deadline > now
  BY DEF TimersInv, TimerEntry, Expired
<1>5. heap' \in SUBSET TimerEntry /\ IsFiniteSet(heap')
  <2>1. IsFiniteSet(heap \ Expired)
    BY FS_Subset DEF TimersInv
  <2> QED
    BY <1>1, <1>3, <1>4, <2>1, FS_Union, ZenonT(60)
<1>6. OneEach(heap') /\ \A e \in heap' : e.handle < next'
  <2>1. \A e \in Rescheduled : e.handle \in Nat
    BY <1>3 DEF TimerEntry
  <2>2. \A e \in heap' : e.handle < next'
    BY <1>1, <1>3, <1>4, <2>1
  <2>3. \A e \in heap, f \in Rescheduled : e.handle # f.handle
    BY <1>3, <1>4, <2>1
  <2>4. OneEach(heap')
    BY <1>1, <1>3, <1>4, <2>3 DEF OneEach
  <2> QED
    BY <2>2, <2>4
<1>7. DOMAIN Firing = 1 .. n /\ Firing \in Seq(TimerEntry) /\ Len(Firing) = n
  BY <1>2, <1>4
<1>8. ASSUME NEW h, h \in Nat, h < next, h \in Handles' PROVE \E e \in heap \ Expired : e.handle = h
  BY <1>1, <1>3, <1>4, <1>8 DEF Handles, TimerEntry
<1>9. ASSUME NEW i \in DOMAIN Firing
      PROVE  LET h == Firing[i].handle IN
             h \in Nat /\ h < next /\ h \in Handles /\ h \notin cancelled /\ h \notin Handles'
  <2>1. Firing[i] \in Due /\ Firing[i] \in heap /\ Firing[i] \in Expired
    BY <1>2, <1>7
  <2>2. \A e \in heap \ Expired : e.handle # Firing[i].handle
    BY <1>4, <2>1 DEF OneEach
  <2> QED
    BY <1>2, <1>4, <1>8, <2>1, <2>2 DEF Handles
<1>10. Marked'
  <2>1. ASSUME NEW h \in revoked
        PROVE  h \in Nat /\ h < next' /\ (h \in Handles' => h \in cancelled')
    <3>1. h \in Nat /\ h < next /\ (h \in Handles => h \in cancelled)
      BY DEF TimersInv, Marked
    <3>2. ASSUME h \in Handles' PROVE h \in cancelled'
      <4>1. PICK e \in heap \ Expired : e.handle = h
        BY <1>8, <3>1, <3>2
      <4>2. h \in cancelled /\ heap' # {}
        BY <1>1, <3>1, <4>1 DEF Handles
      <4>3. \A f \in Expired : f.handle # h
        BY <1>4, <4>1 DEF OneEach
      <4> QED
        BY <1>1, <4>2, <4>3
    <3> QED
      BY <1>1, <1>3, <1>4, <3>1, <3>2
  <2>2. ASSUME NEW h \in fired' PROVE h \in Nat /\ h < next' /\ h \notin Handles'
    <3>1. CASE h \in fired
      <4>1. h \in Nat /\ h < next /\ h \notin Handles
        BY <3>1 DEF TimersInv, Marked
      <4>2. h \notin Handles'
        BY <1>8, <4>1 DEF Handles
      <4> QED
        BY <1>1, <1>3, <1>4, <4>1, <4>2
    <3>2. CASE h \notin fired
      <4>1. PICK i \in DOMAIN Firing : h = Firing[i].handle
        BY <1>1, <3>2
      <4> QED
        BY <1>1, <1>3, <1>4, <1>9, <4>1
    <3> QED
      BY <3>1, <3>2
  <2>3. CancelHolds'
    <3> SUFFICES ASSUME NEW h \in revoked, h \in fired' PROVE FALSE
      BY <1>1 DEF CancelHolds
    <3>1. h \notin fired /\ (h \in Handles => h \in cancelled)
      BY DEF TimersInv, Marked, CancelHolds
    <3>2. PICK i \in DOMAIN Firing : h = Firing[i].handle
      BY <1>1, <3>1
    <3> QED
      BY <1>9, <3>1, <3>2
  <2> QED
    BY <1>1, <2>1, <2>2, <2>3 DEF Marked
<1>11. InTime'
  <2>1. \A e \in heap' : e.deadline >= now
    BY <1>1, <1>3, <1>4, HeapTimersAssumption
  <2> QED
    BY <1>1, <2>1 DEF InTime
<1>12. AllCalledBack'
  <2>1. total_fired = woken /\ total_fired \in Nat /\ woken \in Nat
    BY <1>1 DEF TimersInv, AllCalledBack
  <2>2. total_fired' = woken' + Len(batch')
    BY <1>1, <1>2, <1>7, <2>1
  <2>3. \A i \in 1 .. n - 1 : Before(Firing[i], Firing[i + 1])
    BY <1>2 DEF Ordered
  <2> QED
    BY <1>1, <1>7, <2>2, <2>3 DEF AllCalledBack, Before
<1> QED
  <2>1. now' \in Nat /\ next' \in Nat /\ total_fired' \in Nat /\ woken' \in Nat /\ wakeAt' \in Nat
    BY <1>1, <1>2, <1>3, <1>7 DEF TimersInv
  <2> QED
    BY <1>1, <1>5, <1>6, <1>7, <1>10, <1>11, <1>12, <2>1 DEF TimersInv

LEMMA DeliverKeeps ==
  ASSUME TimersInv, Deliver
  PROVE  TimersInv'
<1>1. /\ timer_pc = "deliver"
      /\ UNCHANGED <<now, heap, cancelled, total_fired, next, revoked, fired, wakeAt, shutdown>>
  BY DEF Deliver, backend
<1>2. Marked' /\ OneEach(heap)'
  BY <1>1 DEF TimersInv, Marked, CancelHolds, Handles, OneEach
<1>3. CASE batch # <<>> /\ woken' = woken + 1 /\ batch' = Tail(batch) /\ UNCHANGED timer_pc
  <2>1. /\ batch' \in Seq(TimerEntry) /\ Len(batch') = Len(batch) - 1 /\ Len(batch) \in Nat
        /\ \A i \in 1 .. Len(batch') : batch'[i] = batch[i + 1]
    BY <1>3 DEF TimersInv
  <2>2. \A i \in 1 .. Len(batch') - 1 : Before(batch'[i], batch'[i + 1])
    BY <2>1 DEF TimersInv, AllCalledBack
  <2>3. woken' \in Nat /\ total_fired = woken' + Len(batch')
    BY <1>3, <2>1 DEF TimersInv, AllCalledBack
  <2>4. AllCalledBack'
    BY <1>1, <1>3, <2>2, <2>3 DEF AllCalledBack, Before
  <2>5. InTime'
    BY <1>1, <1>3 DEF TimersInv, InTime
  <2> QED
    BY <1>1, <1>2, <1>3, <2>1, <2>3, <2>4, <2>5 DEF TimersInv
<1>4. CASE batch = <<>> /\ timer_pc' = "plan" /\ UNCHANGED <<batch, woken>>
  <2>1. AllCalledBack' /\ InTime'
    BY <1>1, <1>4 DEF TimersInv, AllCalledBack, InTime, Before
  <2> QED
    BY <1>1, <1>2, <1>4, <2>1 DEF TimersInv
<1> QED
  BY <1>3, <1>4 DEF Deliver

LEMMA SleepBounded ==
  ASSUME TimersInv
  PROVE  CalculateSleep \in 0 .. Longest
<1>1. /\ Longest \in Nat /\ Longest >= MaxPoll /\ Longest >= MinSleep
      /\ MaxPoll \in Nat /\ MinSleep \in Nat /\ now \in Nat
  BY LongestBounds, HeapTimersAssumption DEF TimersInv
<1>2. CASE heap = {}
  BY <1>1, <1>2 DEF CalculateSleep
<1>3. CASE heap # {}
  <2>1. {e.deadline : e \in heap} \in SUBSET Nat /\ {e.deadline : e \in heap} # {}
    BY <1>3 DEF TimersInv, TimerEntry
  <2>2. NextDeadline \in Nat
    BY <2>1, LeastNat DEF NextDeadline
  <2>3. CASE NextDeadline <= now
    BY <1>1, <1>3, <2>3 DEF CalculateSleep
  <2>4. CASE ~(NextDeadline <= now)
    <3> DEFINE a == Min({NextDeadline - now, MaxPoll})
    <3>1. NextDeadline - now \in Nat
      BY <1>1, <2>2, <2>4
    <3>2. a \in Nat /\ a <= MaxPoll
      BY <1>1, <3>1, PairBounds
    <3> HIDE DEF a
    <3>3. Max({a, MinSleep}) \in Nat /\ (Max({a, MinSleep}) = a \/ Max({a, MinSleep}) = MinSleep)
      BY <1>1, <3>2, PairBounds
    <3>4. Max({a, MinSleep}) \in 0 .. Longest
      BY <1>1, <3>2, <3>3
    <3> QED
      BY <1>3, <2>4, <3>4 DEF CalculateSleep, a
  <2> QED
    BY <2>3, <2>4
<1> QED
  BY <1>2, <1>3

LEMMA HeapTimersStepInv == TimersInv /\ [HeapTimersNext]_heapTimersVars => TimersInv'
<1> SUFFICES ASSUME TimersInv, [HeapTimersNext]_heapTimersVars PROVE TimersInv'
  OBVIOUS
<1>0. ASSUME UNCHANGED <<heap, cancelled, next, revoked, fired>>
      PROVE  Marked' /\ OneEach(heap)'
  BY <1>0 DEF TimersInv, Marked, CancelHolds, Handles, OneEach
<1>1. CASE Plan
  <2>1. /\ timer_pc = "plan" /\ timer_pc' = "sleep" /\ wakeAt' = now + CalculateSleep
        /\ UNCHANGED <<now, heap, cancelled, total_fired, next, revoked, fired, batch, woken,
                       shutdown>>
    BY <1>1 DEF Plan, backend
  <2>2. CalculateSleep \in 0 .. Longest /\ Longest \in Nat /\ now \in Nat
    BY SleepBounded, LongestBounds DEF TimersInv
  <2>3. \A e \in heap : e.deadline \in Nat /\ e.deadline >= now
    BY <2>1 DEF TimersInv, InTime, TimerEntry
  <2>4. now <= wakeAt' /\ wakeAt' <= now + Longest /\ \A e \in heap : wakeAt' <= e.deadline + Longest
    BY <2>1, <2>2, <2>3
  <2>5. InTime'
    BY <2>1, <2>4 DEF InTime, Longest
  <2>6. AllCalledBack' /\ wakeAt' \in Nat
    BY <2>1, <2>2 DEF TimersInv, AllCalledBack, Before
  <2> QED
    BY <1>0, <2>1, <2>5, <2>6 DEF TimersInv
<1>2. CASE TimerWake
  <2>1. /\ timer_pc = "sleep" /\ timer_pc' = "poll" /\ wakeAt' = 0
        /\ UNCHANGED <<now, heap, cancelled, total_fired, next, revoked, fired, batch, woken,
                       shutdown>>
    BY <1>2 DEF TimerWake, backend
  <2>2. \A e \in heap : now <= e.deadline + Longest
    <3>1. \A e \in heap : e.deadline \in Nat /\ wakeAt <= e.deadline + Longest
      BY <2>1 DEF TimersInv, InTime, TimerEntry
    <3> QED
      BY <2>1, <3>1, LongestBounds DEF TimersInv, InTime
  <2>3. InTime'
    BY <2>1, <2>2 DEF InTime, Longest
  <2>4. AllCalledBack' /\ wakeAt' \in Nat
    BY <2>1 DEF TimersInv, AllCalledBack, Before
  <2> QED
    BY <1>0, <2>1, <2>3, <2>4 DEF TimersInv
<1>3. CASE TimerExit
  <2>1. /\ timer_pc = "poll" /\ timer_pc' = "exited"
        /\ UNCHANGED <<now, heap, cancelled, total_fired, next, revoked, fired, batch, woken,
                       wakeAt, shutdown>>
    BY <1>3 DEF TimerExit, backend
  <2>2. InTime' /\ AllCalledBack'
    BY <2>1 DEF TimersInv, InTime, AllCalledBack, Before
  <2> QED
    BY <1>0, <2>1, <2>2 DEF TimersInv
<1>4. CASE Tick
  <2>1. /\ timer_pc = "sleep" /\ now < wakeAt /\ now' = now + 1
        /\ UNCHANGED <<heap, cancelled, total_fired, next, revoked, fired, timer_pc, batch,
                       woken, wakeAt, shutdown>>
    BY <1>4 DEF Tick, backend, thread
  <2>2. InTime' /\ now' \in Nat
    <3>1. now' \in Nat /\ now' <= wakeAt /\ wakeAt <= now' + Longest
      BY <2>1, LongestBounds DEF TimersInv, InTime
    <3> QED
      BY <2>1, <3>1, ZenonT(60) DEF TimersInv, InTime, Longest
  <2>3. AllCalledBack'
    BY <2>1 DEF TimersInv, AllCalledBack, Before
  <2> QED
    BY <1>0, <2>1, <2>2, <2>3 DEF TimersInv
<1>5. CASE TimerShutdown \/ UNCHANGED heapTimersVars
  <2>1. UNCHANGED <<now, heap, cancelled, total_fired, next, revoked, fired, timer_pc, batch,
                    woken, wakeAt>>
    BY <1>5 DEF TimerShutdown, backend, thread, heapTimersVars
  <2>2. InTime' /\ AllCalledBack'
    BY <2>1 DEF TimersInv, InTime, AllCalledBack, Before
  <2> QED
    BY <1>0, <2>1, <2>2 DEF TimersInv
<1> QED
  BY <1>1, <1>2, <1>3, <1>4, <1>5, ScheduleKeeps, CancelKeeps, PollKeeps, DeliverKeeps
     DEF HeapTimersNext, ThreadStep, HeapTimersFinished

\* HeapTimerBackend::poll_expired and the callbacks of timer_loop: a timer that
\* was cancelled while it was pending never fires, and every other expired
\* entry is called back once, in the order of deadlines.
THEOREM CalledBackHolds == HeapTimersSpec => []CalledBack
<1>1. TimersInv => CalledBack
  BY DEF TimersInv, Marked, CalledBack
<1> QED
  BY <1>1, HeapTimersInitInv, HeapTimersStepInv, PTL DEF HeapTimersSpec

\* calculate_sleep: no timer is later than the longest sleep when the thread
\* polls, also one that was scheduled during the sleep.
THEOREM FiresInTimeHolds == HeapTimersSpec => []FiresInTime
<1>1. TimersInv => FiresInTime
  BY ZenonT(60) DEF TimersInv, InTime, FiresInTime, Longest
<1> QED
  BY <1>1, HeapTimersInitInv, HeapTimersStepInv, PTL DEF HeapTimersSpec

--------------------------------------------------------------------------------
(* LoadGen *)

TaskStep == {"connect", "loop", "exchange", "reconnect", "done"}
Result == [requests : Nat, errors : Nat, latencies : Nat]

LoadType ==
  /\ phase \in {"warmup", "measure"}
  /\ main_pc \in {"timer", "merge", "reporter", "finished"}
  /\ task \in [Client -> TaskStep] /\ conn_result \in [Client -> Result]
  /\ counter \in Nat /\ timed \in Nat /\ merged \in 0..Connections /\ total \in Result
  /\ progress \in [at : {"none", "sleep", "load", "done"}, last : Nat]

\* The requests of the first connections: f[n] is the sum of the first n.
Sums(f) ==
  /\ f[0] = 0
  /\ \A c \in Client : f[c] = f[c - 1] + conn_result[c].requests

\* The counter is the sum of all connections, the total of those merged.
Added == \E f \in [0..Connections -> Nat] :
           Sums(f) /\ f[Connections] = counter /\ f[merged] = total.requests

Collected ==
  phase = "measure" =>
    /\ \A c \in Client : conn_result[c].latencies = conn_result[c].requests
    /\ total.latencies = total.requests

\* The handles that were awaited are those of tasks that have ended, and main
\* goes on when all have.
Awaited ==
  /\ \A c \in Client : c <= merged => task[c] = "done"
  /\ main_pc = "timer" => merged = 0
  /\ main_pc # "timer" => phase_stop
  /\ main_pc \in {"reporter", "finished"} => merged = Connections /\ phase = "measure"

\* An exchange that goes on after the phase was timed is the last of its task.
Exchanging == {c \in Client : task[c] = "exchange"}
Late == main_pc # "timer" => counter + Cardinality(Exchanging) <= timed + Connections

LoadInv == LoadType /\ Added /\ Collected /\ Awaited /\ Late /\ progress.last <= counter

LEMMA ExchangingFinite ==
  /\ IsFiniteSet(Exchanging) /\ Cardinality(Exchanging) \in Nat
  /\ Cardinality(Exchanging) <= Connections
<1>1. IsFiniteSet(1..Connections) /\ Cardinality(1..Connections) = Connections
  BY LoadGenAssumption, FS_Interval
<1>2. Exchanging \subseteq 1..Connections
  BY DEF Exchanging, Client
<1> QED
  BY <1>1, <1>2, FS_Subset, FS_CardinalityType, ZenonT(60)

LEMMA ExchangingFiniteNext == IsFiniteSet(Exchanging)' /\ Cardinality(Exchanging)' \in Nat
<1>1. IsFiniteSet(1..Connections)
  BY LoadGenAssumption, FS_Interval
<1>2. Exchanging' \subseteq 1..Connections
  BY DEF Exchanging, Client
<1> QED
  BY <1>1, <1>2, FS_Subset, FS_CardinalityType, ZenonT(60)

LEMMA Fresh ==
  ASSUME conn_result = [c \in Client |-> NoRequests], counter = 0, merged = 0,
         total = NoRequests
  PROVE  Added
<1> DEFINE f == [i \in 0..Connections |-> 0]
<1>1. f \in [0..Connections -> Nat] /\ Sums(f) /\ f[Connections] = counter
        /\ f[merged] = total.requests
  BY LoadGenAssumption DEF Sums, Client, NoRequests
<1> QED
  BY <1>1, ZenonT(60) DEF Added

LEMMA LoadInitInv == LoadGenInit => LoadInv
<1> SUFFICES ASSUME LoadGenInit PROVE LoadInv
  OBVIOUS
<1>1. LoadType
  BY LoadGenAssumption DEF LoadGenInit, LoadType, NoRequests, Result, TaskStep, first_step
<1>2. Added
  BY Fresh DEF LoadGenInit
<1>3. Collected /\ Awaited /\ Late /\ progress.last <= counter
  BY DEF LoadGenInit, Collected, Awaited, Late, NoRequests, Client
<1> QED
  BY <1>1, <1>2, <1>3 DEF LoadInv

\* A task that goes on, and does not start another exchange once it is to stop.
LEMMA TaskMoves ==
  ASSUME LoadType, Awaited, NEW c \in Client, NEW from \in TaskStep \ {"done"},
         NEW to \in TaskStep, TaskGoto(c, from, to), UNCHANGED mainVars,
         to = "exchange" => ~phase_stop
  PROVE  /\ task' \in [Client -> TaskStep] /\ Awaited' /\ c > merged
         /\ main_pc # "timer" =>
              Exchanging' = IF from = "exchange" THEN Exchanging \ {c} ELSE Exchanging
<1>1. /\ task[c] = from /\ task' = [task EXCEPT ![c] = to]
      /\ UNCHANGED <<main_pc, merged, phase_stop, phase>>
  BY DEF TaskGoto, mainVars
<1>2. task' \in [Client -> TaskStep] /\ c > merged /\ c \in Nat /\ merged \in Nat
  BY <1>1, LoadGenAssumption DEF LoadType, Awaited, Client
<1>3. Awaited'
  BY <1>1, <1>2 DEF LoadType, Awaited
<1>4. ASSUME main_pc # "timer"
      PROVE  Exchanging' = IF from = "exchange" THEN Exchanging \ {c} ELSE Exchanging
  <2>1. to # "exchange"
    BY <1>4 DEF Awaited
  <2> QED
    BY <1>1, <2>1 DEF LoadType, Exchanging
<1> QED
  BY <1>2, <1>3, <1>4

LEMMA TaskUncounted ==
  ASSUME LoadInv, NEW c \in Client, NEW from \in TaskStep \ {"done"}, NEW to \in TaskStep,
         TaskGoto(c, from, to), UNCHANGED <<mainVars, counter>>,
         to = "exchange" => ~phase_stop,
         \/ conn_result' = conn_result
         \/ conn_result' = [conn_result EXCEPT ![c].errors = @ + 1]
  PROVE  LoadInv'
<1>1. /\ UNCHANGED <<main_pc, merged, phase_stop, phase, total, progress, timed, counter>>
      /\ LoadType /\ Added /\ Collected /\ Awaited /\ Late /\ progress.last <= counter
  BY DEF mainVars, LoadInv
<1>2. /\ conn_result' \in [Client -> Result]
      /\ \A d \in Client : /\ conn_result'[d].requests = conn_result[d].requests
                           /\ conn_result'[d].latencies = conn_result[d].latencies
  BY <1>1 DEF LoadType, Result
<1>3. task' \in [Client -> TaskStep] /\ Awaited'
  BY <1>1, TaskMoves
<1>4. LoadType'
  BY <1>1, <1>2, <1>3 DEF LoadType
<1>5. Added'
  <2>1. PICK f \in [0..Connections -> Nat] :
          Sums(f) /\ f[Connections] = counter /\ f[merged] = total.requests
    BY <1>1, ZenonT(60) DEF Added
  <2>2. Sums(f)'
    BY <1>2, <2>1 DEF Sums
  <2> QED
    BY <1>1, <2>1, <2>2, ZenonT(60) DEF Added
<1>6. Collected'
  BY <1>1, <1>2 DEF Collected
<1>7. Late'
  <2>1. CASE main_pc = "timer"
    BY <1>1, <2>1 DEF Late
  <2>2. CASE main_pc # "timer"
    <3>1. Exchanging' = IF from = "exchange" THEN Exchanging \ {c} ELSE Exchanging
      BY <1>1, <2>2, TaskMoves
    <3>2. Cardinality(Exchanging') <= Cardinality(Exchanging)
      BY <3>1, ExchangingFinite, FS_Subset
    <3> QED
      BY <1>1, <2>2, <3>2, ExchangingFinite, ExchangingFiniteNext, LoadGenAssumption
      DEF Late, LoadType
  <2> QED
    BY <2>1, <2>2
<1> QED
  BY <1>1, <1>3, <1>4, <1>5, <1>6, <1>7 DEF LoadInv

LEMMA SucceedsKeeps ==
  ASSUME LoadInv, NEW c \in Client, Succeeds(c)
  PROVE  LoadInv'
<1>1. /\ UNCHANGED <<main_pc, merged, phase_stop, phase, total, progress, timed>>
      /\ LoadType /\ Added /\ Collected /\ Awaited /\ Late /\ progress.last <= counter
      /\ TaskGoto(c, "exchange", "loop") /\ UNCHANGED mainVars
      /\ counter' = counter + 1 /\ counter \in Nat
      /\ c \in Nat /\ c - 1 \in Nat /\ c <= Connections
  BY LoadGenAssumption DEF mainVars, LoadInv, Succeeds, LoadType, Client
<1>2. /\ conn_result' \in [Client -> Result]
      /\ conn_result'[c].requests = conn_result[c].requests + 1
      /\ conn_result'[c].latencies = conn_result[c].latencies + collect
      /\ \A d \in Client \ {c} : conn_result'[d] = conn_result[d]
  <2> DEFINE k == collect
  <2>1. k \in Nat
    BY DEF collect
  <2>2. conn_result' = [conn_result EXCEPT ![c].requests = @ + 1, ![c].latencies = @ + k]
    BY DEF Succeeds
  <2>3. conn_result \in [Client -> Result]
    BY <1>1 DEF LoadType
  <2> HIDE DEF k
  <2>4. conn_result'[c] = [conn_result[c] EXCEPT !.requests = @ + 1, !.latencies = @ + k]
    BY <2>2, <2>3
  <2>5. conn_result[c] \in Result
    BY <2>3
  <2>6. /\ conn_result'[c] \in Result
        /\ conn_result'[c].requests = conn_result[c].requests + 1
        /\ conn_result'[c].latencies = conn_result[c].latencies + k
    <3> DEFINE r == conn_result[c]
    <3>1. r = [requests |-> r.requests, errors |-> r.errors, latencies |-> r.latencies]
            /\ r.requests \in Nat /\ r.errors \in Nat /\ r.latencies \in Nat
      BY <2>5 DEF Result
    <3>2. conn_result'[c] = [requests |-> r.requests + 1, errors |-> r.errors,
                             latencies |-> r.latencies + k]
      BY <2>4, <3>1, ZenonT(60)
    <3> QED
      BY <2>1, <3>1, <3>2 DEF Result
  <2>7. /\ \A d \in Client \ {c} : conn_result'[d] = conn_result[d]
        /\ conn_result' \in [Client -> Result]
    BY <2>2, <2>3, <2>6
  <2> QED
    BY <2>6, <2>7 DEF k
<1>3. task' \in [Client -> TaskStep] /\ Awaited' /\ c > merged
  <2>1. "exchange" \in TaskStep \ {"done"} /\ "loop" \in TaskStep /\ "loop" # "exchange"
    BY DEF TaskStep
  <2> QED
    BY <1>1, <2>1, TaskMoves
<1>4. LoadType'
  BY <1>1, <1>2, <1>3 DEF LoadType
<1>5. Added'
  <2>1. PICK f \in [0..Connections -> Nat] :
          Sums(f) /\ f[Connections] = counter /\ f[merged] = total.requests
    BY <1>1, ZenonT(60) DEF Added
  <2> DEFINE g == [i \in 0..Connections |-> IF i < c THEN f[i] ELSE f[i] + 1]
  <2>2. g \in [0..Connections -> Nat]
    OBVIOUS
  <2>3. g[0] = 0 /\ g[Connections] = counter' /\ g[merged'] = total'.requests
    BY <1>1, <1>3, <2>1, LoadGenAssumption DEF Sums, LoadType, Client
  <2>4. ASSUME NEW d \in Client PROVE g[d] = g[d - 1] + conn_result'[d].requests
    <3>1. /\ d \in Nat /\ d - 1 \in 0..Connections /\ d \in 0..Connections
          /\ f[d] = f[d - 1] + conn_result[d].requests
          /\ conn_result[d].requests \in Nat /\ f[d - 1] \in Nat
      <4>1. conn_result[d] \in Result
        BY <1>1 DEF LoadType
      <4>2. d \in Nat /\ d - 1 \in 0..Connections /\ d \in 0..Connections
        BY LoadGenAssumption DEF Client
      <4> QED
        BY <2>1, <4>1, <4>2 DEF Sums, Result
    <3>2. CASE d = c
      BY <1>1, <1>2, <3>1, <3>2
    <3>3. CASE d # c
      BY <1>1, <1>2, <3>1, <3>3
    <3> QED
      BY <3>2, <3>3, ZenonT(60)
  <2> HIDE DEF g
  <2> QED
    BY <2>2, <2>3, <2>4, ZenonT(60) DEF Added, Sums
<1>6. Collected'
  BY <1>1, <1>2 DEF Collected, collect, LoadType, Result
<1>7. Late'
  <2>1. CASE main_pc = "timer"
    BY <1>1, <2>1 DEF Late
  <2>2. CASE main_pc # "timer"
    <3>1. "exchange" \in TaskStep \ {"done"} /\ "loop" \in TaskStep /\ "loop" # "exchange"
      BY DEF TaskStep
    <3>2. Exchanging' = Exchanging \ {c}
      BY <1>1, <2>2, <3>1, TaskMoves
    <3>3. Cardinality(Exchanging') = Cardinality(Exchanging) - 1
      <4>1. c \in Exchanging
        BY <1>1 DEF Exchanging, TaskGoto
      <4> QED
        BY <3>2, <4>1, ExchangingFinite, FS_RemoveElement, ZenonT(60)
    <3> QED
      BY <1>1, <2>2, <3>3, ExchangingFinite, LoadGenAssumption DEF Late, LoadType
  <2> QED
    BY <2>1, <2>2
<1>8. (progress.last <= counter)'
  BY <1>1 DEF LoadType
<1> QED
  BY <1>3, <1>4, <1>5, <1>6, <1>7, <1>8 DEF LoadInv

\* The steps of a task, whatever the strategy.
LEMMA TaskKeeps ==
  ASSUME LoadInv, NEW c \in Client,
         run_hyper_phase(c) \/ run_reqwest_phase(c) \/ run_echo_phase(c)
  PROVE  LoadInv'
<1> USE DEF TaskStep
<1>1. CASE CheckStop(c)
  <2>1. CASE phase_stop
    BY <1>1, <2>1, TaskUncounted DEF CheckStop
  <2>2. CASE ~phase_stop
    BY <1>1, <2>2, TaskUncounted DEF CheckStop
  <2> QED
    BY <2>1, <2>2
<1>2. CASE Succeeds(c)
  BY <1>2, SucceedsKeeps
<1>3. ASSUME NEW from \in {"connect", "exchange"}, NEW to \in {"loop", "reconnect", "done"},
             Fails(c, from, to)
      PROVE  LoadInv'
  BY <1>3, TaskUncounted, ZenonT(60) DEF Fails
<1>4. ASSUME NEW from \in {"connect", "reconnect"}, NEW to \in {"loop", "done"},
             TaskGoto(c, from, to), UNCHANGED <<mainVars, conn_result, counter>>
      PROVE  LoadInv'
  BY <1>4, TaskUncounted
<1> QED
  BY <1>1, <1>2, <1>3, <1>4
  DEF run_hyper_phase, run_reqwest_phase, run_echo_phase, connect, roundtrip

\* A step that leaves the tasks, their results and the counter alone.
LEMMA TasksSame ==
  ASSUME UNCHANGED <<taskVars, counter, phase>>
  PROVE  /\ UNCHANGED <<task, conn_result, counter, phase>>
         /\ Exchanging' = Exchanging /\ Cardinality(Exchanging)' = Cardinality(Exchanging)
         /\ \A f : Sums(f)' <=> Sums(f)
  BY DEF taskVars, Exchanging, Sums

LEMMA TimerKeeps == ASSUME LoadInv, Timer \/ TimerAwaited PROVE LoadInv'
<1>1. /\ UNCHANGED <<taskVars, counter, phase, merged, total, progress>>
      /\ counter \in Nat /\ timed' \in {timed, counter}
  BY DEF Timer, TimerAwaited, LoadInv, LoadType
<1>2. UNCHANGED <<task, conn_result, counter, phase, merged, total, progress>>
  BY <1>1, TasksSame
<1>3. LoadType' /\ Collected' /\ Awaited'
  BY <1>2 DEF LoadInv, LoadType, Collected, Awaited, Timer, TimerAwaited
<1>4. Added'
  BY <1>1, <1>2, TasksSame, ZenonT(60) DEF LoadInv, Added
<1>5. Late'
  BY <1>1, <1>2, TasksSame, ExchangingFinite, LoadGenAssumption
  DEF LoadInv, LoadType, Late, Timer, TimerAwaited
<1> QED
  BY <1>2, <1>3, <1>4, <1>5 DEF LoadInv

LEMMA MergeKeeps == ASSUME LoadInv, merge_results PROVE LoadInv'
<1> DEFINE c == merged + 1
<1> DEFINE r == conn_result[c]
<1>1. /\ UNCHANGED <<taskVars, counter, phase, main_pc, phase_stop, progress, timed>>
      /\ main_pc = "merge" /\ c \in Client /\ task[c] = "done" /\ merged' = c
      /\ total' = [requests |-> total.requests + r.requests,
                   errors |-> total.errors + r.errors,
                   latencies |-> total.latencies + collect * r.latencies]
      /\ LoadType /\ merged \in Nat
  BY LoadGenAssumption DEF merge_results, LoadInv, LoadType
<1>2. UNCHANGED <<task, conn_result, counter, phase, main_pc, phase_stop, progress, timed>>
  BY <1>1, TasksSame
<1>3. /\ r.requests \in Nat /\ r.errors \in Nat /\ r.latencies \in Nat
      /\ total.requests \in Nat /\ total.errors \in Nat /\ total.latencies \in Nat
  BY <1>1 DEF LoadType, Result
<1>4. collect \in {0, 1} /\ (phase = "measure" => collect = 1)
  BY DEF collect
<1>5. total' \in Result
  <2>1. collect * r.latencies \in Nat
    BY <1>3, <1>4
  <2> QED
    BY <1>1, <1>3, <2>1 DEF Result
<1>6. LoadType'
  BY <1>1, <1>2, <1>5 DEF LoadType, Client
<1>7. Added'
  <2>1. PICK f \in [0..Connections -> Nat] :
          Sums(f) /\ f[Connections] = counter /\ f[merged] = total.requests
    BY ZenonT(60) DEF LoadInv, Added
  <2>2. f[c] = f[merged] + r.requests
    BY <1>1, <2>1 DEF Sums
  <2>3. Sums(f)'
    BY <1>1, <2>1, TasksSame
  <2>4. total'.requests = total.requests + r.requests
    BY <1>1
  <2> QED
    BY <1>1, <1>2, <2>1, <2>2, <2>3, <2>4, ZenonT(60) DEF Added
<1>8. Collected'
  <2> SUFFICES ASSUME phase = "measure"
               PROVE  /\ \A d \in Client : conn_result[d].latencies = conn_result[d].requests
                      /\ total'.latencies = total'.requests
    BY <1>2 DEF Collected
  <2>1. /\ \A d \in Client : conn_result[d].latencies = conn_result[d].requests
        /\ total.latencies = total.requests
    BY DEF LoadInv, Collected
  <2>2. collect = 1
    BY <1>4
  <2> QED
    BY <1>1, <1>3, <2>1, <2>2
<1>9. Awaited'
  BY <1>1, <1>2 DEF LoadInv, Awaited, LoadType, Client
<1>10. Late'
  BY <1>1, <1>2, TasksSame DEF LoadInv, Late
<1> QED
  BY <1>2, <1>6, <1>7, <1>8, <1>9, <1>10 DEF LoadInv

\* The measured phase starts like the first one.
LEMMA WarmupKeeps == ASSUME LoadInv, WarmupDone PROVE LoadInv'
<1>1. LoadType'
  BY LoadGenAssumption
  DEF WarmupDone, LoadInv, LoadType, NoRequests, Result, TaskStep, first_step
<1>2. Added'
  <2> DEFINE f == [i \in 0..Connections |-> 0]
  <2>1. f \in [0..Connections -> Nat] /\ f[0] = 0 /\ f[Connections] = 0
          /\ \A c \in Client : f[c] = f[c - 1] + conn_result'[c].requests
    BY LoadGenAssumption DEF WarmupDone, Client, NoRequests
  <2>2. counter' = 0 /\ merged' = 0 /\ total'.requests = 0
    BY DEF WarmupDone, NoRequests
  <2> HIDE DEF f
  <2> QED
    BY <2>1, <2>2, ZenonT(60) DEF Added, Sums
<1>3. Collected' /\ Awaited' /\ Late' /\ (progress.last <= counter)'
  BY LoadGenAssumption DEF WarmupDone, Collected, Awaited, Late, NoRequests, Client
<1> QED
  BY <1>1, <1>2, <1>3 DEF LoadInv

LEMMA ReporterKeeps ==
  ASSUME LoadInv, StopProgress \/ Report \/ ProgressTick \/ ReportProgress
  PROVE  LoadInv'
<1>1. UNCHANGED <<taskVars, counter, phase, phase_stop, merged, total, timed>>
  BY DEF StopProgress, Report, ProgressTick, ReportProgress
<1>2. UNCHANGED <<task, conn_result, counter, phase, phase_stop, merged, total, timed>>
  BY <1>1, TasksSame
<1>3. LoadType'
  BY <1>2 DEF LoadInv, LoadType, StopProgress, Report, ProgressTick, ReportProgress
<1>4. Added'
  BY <1>1, <1>2, TasksSame, ZenonT(60) DEF LoadInv, Added
<1>5. (main_pc = "timer") = (main_pc = "timer")'
  BY DEF StopProgress, Report, ProgressTick, ReportProgress, Merged
<1>6. Collected' /\ Awaited'
  BY <1>2, <1>5
  DEF LoadInv, LoadType, Collected, Awaited, StopProgress, Report, ProgressTick, ReportProgress,
      Merged
<1>7. Late'
  BY <1>1, <1>2, <1>5, TasksSame DEF LoadInv, Late
<1>8. (progress.last <= counter)'
  BY <1>2 DEF LoadInv, LoadType, StopProgress, Report, ProgressTick, ReportProgress
<1> QED
  BY <1>3, <1>4, <1>6, <1>7, <1>8 DEF LoadInv

\* For any number of connections and any length of a phase: the totals printed
\* are those of the measured phase, the reporter's difference does not
\* underflow, and at most one request per connection is counted late.
THEOREM MeasuredHolds == LoadGenSpec => []Measured
<1>1. LoadInv /\ [LoadGenNext]_loadGenVars => LoadInv'
  <2> SUFFICES ASSUME LoadInv, [LoadGenNext]_loadGenVars PROVE LoadInv'
    OBVIOUS
  <2>1. CASE UNCHANGED loadGenVars
    <3>1. UNCHANGED <<taskVars, counter, phase, main_pc, phase_stop, merged, total, progress,
                      timed>>
      BY <2>1 DEF loadGenVars, taskVars
    <3>2. UNCHANGED <<task, conn_result>> /\ Exchanging' = Exchanging
      BY <3>1, TasksSame
    <3>3. LoadType' /\ Collected' /\ Awaited'
      BY <3>1, <3>2 DEF LoadInv, LoadType, Collected, Awaited
    <3> QED
      BY <3>1, <3>2, <3>3, TasksSame, ZenonT(60) DEF LoadInv, Added, Late
  <2> QED
    BY <2>1, TaskKeeps, TimerKeeps, MergeKeeps, WarmupKeeps, ReporterKeeps
    DEF LoadGenNext, LoadGenDone
<1>2. LoadInv => Measured
  <2> SUFFICES ASSUME LoadInv PROVE Measured
    OBVIOUS
  <2>1. ASSUME main_pc = "finished"
        PROVE  total.requests = counter /\ total.latencies = counter
    BY <2>1 DEF LoadInv, Awaited, Added, Collected
  <2>2. ASSUME main_pc # "timer" PROVE counter - timed <= Connections
    BY <2>2, ExchangingFinite, LoadGenAssumption DEF LoadInv, LoadType, Late
  <2> QED
    BY <2>1, <2>2 DEF Measured, LoadInv
<1> QED
  BY <1>1, <1>2, LoadInitInv, PTL DEF LoadGenSpec

================================================================================
