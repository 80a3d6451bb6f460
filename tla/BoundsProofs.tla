---------------------------- MODULE BoundsProofs ----------------------------
(****************************************************************************)
(* Proofs about the submit ring, for any size and any number of producers, and *)
(* about the stall detection, for any number of workers: no slot of the ring *)
(* is given to a producer before it is read, no time slice is cut short.    *)
(****************************************************************************)
EXTENDS Dispatcher, Preempt, TLAPS

\* The default provers, with more time than they have by default.
USE SMTT(100), ZenonT(60)

--------------------------------------------------------------------------------
(* Dispatcher: the submit ring *)

\* What a producer may hold as its call.
SizingCalls == UNION {s.nrs : s \in Sizings}
Calls == SizingCalls \cup {None}

Places == {"idle", "full?", "claim", "write", "parked"}

ProdType == prod \in [Producer -> [at : Places, tail : Nat, nr : Calls]]

\* The inductive invariant.  The loaded tails are behind the tail, and a
\* producer that found room in front of the tail it loaded still has it: the
\* head only moves away from it.
Bounded ==
  /\ head \in Nat /\ tail \in Nat /\ dtail \in Nat /\ local_head = head
  /\ head <= tail /\ tail - head <= SubmitSize
  /\ dtail <= tail /\ (pc = "copy" => head <= dtail)
  /\ \A p \in Producer : /\ prod[p].tail \in Nat /\ prod[p].tail <= tail
                         /\ prod[p].at = "claim" => prod[p].tail - head < SubmitSize

SubmitInv == sizing \in Sizings /\ ProdType /\ Bounded

LEMMA NoneIsCall == None \in Calls
  BY DEF Calls

LEMMA SubmitInit == Init => SubmitInv
<1> SUFFICES ASSUME Init PROVE SubmitInv
  OBVIOUS
<1>1. ProdType
  <2>1. None \in Calls
    BY NoneIsCall
  <2>2. "idle" \in Places
    BY DEF Places
  <2> QED
    BY <2>1, <2>2 DEF Init, ProdType
<1>2. Bounded
  BY DispatcherAssumption DEF Init, InitSubmit, Bounded
<1> QED
  BY <1>1, <1>2 DEF Init, SubmitInv

\* A step that leaves the submit ring, its producers and its reader alone.
LEMMA SubmitUntouched ==
  ASSUME SubmitInv, UNCHANGED <<submitVars, prod, dtail, local_head, sizing>>,
         pc' # "copy" \/ pc' = pc
  PROVE  SubmitInv'
  BY DEF SubmitInv, ProdType, Bounded, submitVars

\* A producer that moves on with the tail it has loaded.
LEMMA ProducerMoves ==
  ASSUME ProdType, NEW p \in Producer, NEW a \in Places,
         prod' = [prod EXCEPT ![p].at = a]
  PROVE  /\ ProdType'
         /\ prod'[p].at = a /\ prod'[p].tail = prod[p].tail
         /\ \A q \in Producer \ {p} : prod'[q] = prod[q]
  BY DEF ProdType

LEMMA SubmitStep == SubmitInv /\ [Next]_vars => SubmitInv'
<1> SUFFICES ASSUME SubmitInv, [Next]_vars PROVE SubmitInv'
  OBVIOUS
<1> USE DispatcherAssumption DEF SubmitInv, rest, dispVars
<1>1. ASSUME NEW p \in Producer, StartPush(p) PROVE SubmitInv'
  <2>1. PICK nr \in sizing.nrs :
          prod' = [prod EXCEPT ![p] = [at |-> "full?", tail |-> tail, nr |-> nr]]
    BY <1>1, ZenonT(60) DEF StartPush
  <2>2. nr \in Calls
    <3>1. nr \in SizingCalls
      BY <2>1, ZenonT(60) DEF SizingCalls
    <3> QED
      BY <3>1 DEF Calls
  <2>3. UNCHANGED <<head, tail, dtail, local_head, sizing, pc>>
    BY <1>1 DEF StartPush, submitVars
  <2>4. tail \in Nat
    BY DEF Bounded
  <2>5. ProdType'
    BY <2>1, <2>2, <2>4 DEF ProdType, Places
  <2>6. /\ prod'[p].at = "full?" /\ prod'[p].tail = tail
        /\ \A q \in Producer \ {p} : prod'[q] = prod[q]
    BY <2>1 DEF ProdType
  <2>7. Bounded'
    BY <2>3, <2>6 DEF Bounded
  <2> QED
    BY <2>3, <2>5, <2>7
<1>2. ASSUME NEW p \in Producer, CheckFull(p) PROVE SubmitInv'
  <2> DEFINE a == IF prod[p].tail - head \in 0..(SubmitSize - 1) THEN "claim" ELSE "idle"
  <2>1. prod' = [prod EXCEPT ![p].at = a] /\ a \in Places
    BY <1>2 DEF CheckFull, Places
  <2>2. UNCHANGED <<head, tail, dtail, local_head, sizing, pc>>
    BY <1>2 DEF CheckFull, submitVars
  <2>3. a = "claim" => prod[p].tail - head < SubmitSize
    BY DEF Bounded
  <2> HIDE DEF a
  <2>4. /\ ProdType' /\ prod'[p].at = a /\ prod'[p].tail = prod[p].tail
        /\ \A q \in Producer \ {p} : prod'[q] = prod[q]
    BY <2>1, ProducerMoves, ZenonT(30)
  <2>5. Bounded'
    BY <2>2, <2>3, <2>4 DEF Bounded
  <2> QED
    BY <2>2, <2>4, <2>5
<1>3. ASSUME NEW p \in Producer, Claim(p) PROVE SubmitInv'
  <2>1. UNCHANGED <<head, dtail, local_head, sizing, pc>>
    BY <1>3 DEF Claim
  <2>2. CASE tail = prod[p].tail
    <3>1. tail' = tail + 1 /\ prod[p].at = "claim" /\ prod' = [prod EXCEPT ![p].at = "write"]
      BY <1>3, <2>2 DEF Claim
    <3> "write" \in Places
      BY DEF Places
    <3>2. /\ ProdType' /\ prod'[p].at = "write" /\ prod'[p].tail = prod[p].tail
          /\ \A q \in Producer \ {p} : prod'[q] = prod[q]
      BY <3>1, ProducerMoves, ZenonT(30)
    <3>3. Bounded'
      BY <2>1, <2>2, <3>1, <3>2 DEF Bounded
    <3> QED
      BY <2>1, <3>2, <3>3
  <2>3. CASE tail # prod[p].tail
    <3>1. tail' = tail /\ prod' = [prod EXCEPT ![p].at = "full?", ![p].tail = tail]
      BY <1>3, <2>3 DEF Claim
    <3>2. tail \in Nat
      BY DEF Bounded
    <3>3. /\ ProdType' /\ prod'[p].at = "full?" /\ prod'[p].tail = tail
          /\ \A q \in Producer \ {p} : prod'[q] = prod[q]
      BY <3>1, <3>2, ZenonT(30) DEF ProdType, Places
    <3>4. UNCHANGED <<head, tail, dtail, local_head, pc>>
      BY <2>1, <3>1
    <3>5. Bounded'
      BY <3>3, <3>4 DEF Bounded
    <3> QED
      BY <2>1, <3>3, <3>5
  <2> QED
    BY <2>2, <2>3
<1>4. ASSUME NEW p \in Producer, WriteEntry(p) PROVE SubmitInv'
  <2>1. /\ prod' = [prod EXCEPT ![p].at = "parked"]
        /\ UNCHANGED <<head, tail, dtail, local_head, sizing, pc>>
    BY <1>4 DEF WriteEntry
  <2> "parked" \in Places
    BY DEF Places
  <2>2. /\ ProdType' /\ prod'[p].at = "parked" /\ prod'[p].tail = prod[p].tail
        /\ \A q \in Producer \ {p} : prod'[q] = prod[q]
    BY <2>1, ProducerMoves, ZenonT(30)
  <2>3. Bounded'
    BY <2>1, <2>2 DEF Bounded
  <2> QED
    BY <2>1, <2>2, <2>3
<1>5. CASE ReadTail
  BY <1>5 DEF ProdType, Bounded, ReadTail, submitVars
<1>6. CASE Copy
  <2> DEFINE count == Min({dtail - local_head, MaxBatch})
  <2>1. count \in Nat /\ count <= dtail - head
    <3>1. dtail - local_head \in Nat /\ local_head = head
      BY <1>6 DEF Copy, Bounded
    <3>2. \E x \in {dtail - local_head, MaxBatch} : \A y \in {dtail - local_head, MaxBatch} : x <= y
      BY <3>1
    <3> QED
      BY <3>1, <3>2 DEF Min
  <2>2. head' = head + count /\ local_head' = head + count /\ pc' = "route"
    BY <1>6 DEF Copy, Bounded
  <2>3. UNCHANGED <<tail, prod, dtail, sizing>>
    BY <1>6 DEF Copy
  <2> HIDE DEF count
  <2>4. Bounded'
    BY <2>1, <2>2, <2>3 DEF Bounded
  <2> QED
    BY <2>3, <2>4 DEF ProdType
<1>7. CASE DrainIo \/ PushBuffered \/ DrainPool
  BY <1>7, SubmitUntouched, ZenonT(30) DEF DrainIo, PushBuffered, DrainPool
<1>8. CASE Flush \/ Notify
  BY <1>8, SubmitUntouched, ZenonT(30) DEF Flush, Notify
<1>9. CASE Route \/ Kick \/ StopPool \/ Shutdown \/ KernelStep
  BY <1>9, SubmitUntouched, ZenonT(30) DEF Route, Kick, StopPool, Shutdown, KernelStep
<1>10. ASSUME NEW w \in PoolWorker, WorkerPops(w) \/ WorkerPushes(w) PROVE SubmitInv'
  BY <1>10, SubmitUntouched DEF WorkerPops, WorkerPushes
<1>11. CASE Wait
  BY <1>11, SubmitUntouched DEF Wait
<1>12. CASE Take
  <2>1. UNCHANGED <<head, tail, dtail, local_head, sizing, pc>>
    BY <1>12 DEF Take, submitVars
  <2>2. ASSUME NEW p \in Producer
        PROVE  /\ prod'[p] \in [at : Places, tail : Nat, nr : Calls]
               /\ prod'[p].tail = prod[p].tail
               /\ prod'[p].at = "claim" => prod[p].at = "claim"
    BY <1>12 DEF Take, ProdType, Places
  <2>3. ProdType'
    BY <1>12, <2>2 DEF Take, ProdType
  <2>4. Bounded'
    BY <2>1, <2>2 DEF Bounded
  <2> QED
    BY <2>1, <2>3, <2>4
<1>13. CASE UNCHANGED vars
  BY <1>13, SubmitUntouched DEF vars
<1> QED
  BY <1>1, <1>2, <1>3, <1>4, <1>5, <1>6, <1>7, <1>8, <1>9, <1>10, <1>11, <1>12, <1>13
  DEF Next, Step, Dispatch, Finished

\* SubmitRing::try_push: between the loads of the tail and of the head and the
\* exchange of one producer, others and the dispatcher move both; the ring is
\* never overfilled all the same, for every number of producers and every size.
THEOREM SubmitBoundedHolds == Spec => []SubmitBounded
<1>1. SubmitInv => SubmitBounded
  BY DispatcherAssumption DEF SubmitInv, Bounded, SubmitBounded
<1> QED
  BY <1>1, SubmitInit, SubmitStep, PTL DEF Spec

--------------------------------------------------------------------------------
(* Preempt *)

LEMMA OlderBounds ==
  ASSUME NEW a \in Nat, NEW b \in Nat
  PROVE  /\ Min({a, b}) \in {a, b} /\ Min({a, b}) <= a /\ Min({a, b}) <= b
<1>1. \E x \in {a, b} : \A y \in {a, b} : x <= y
  OBVIOUS
<1>2. Min({a, b}) \in {a, b} /\ \A y \in {a, b} : Min({a, b}) <= y
  BY <1>1, ZenonT(60) DEF Min
<1> QED
  BY <1>2

Age == 0 .. Slice + 1

\* A stall that was noted in the present run is no older than the run.
Younger == \A w \in Worker \ changed : stall[w] <= quiet[w]

PreemptInv ==
  /\ stall \in [Worker -> Age \cup {-1}] /\ quiet \in [Worker -> Age]
  /\ watched \in Worker \cup {0} /\ (gthread_id # NoGvt => watched \in Worker)
  /\ preempt_flag \in [Gvt -> {0, 1}]
  /\ Younger

LEMMA PreemptInitInv == PreemptInit => PreemptInv
  BY PreemptAssumption DEF PreemptInit, InitWorkers, PreemptInv, Younger, Age

LEMMA RoundKeeps ==
  ASSUME PreemptInv, StartRound
  PROVE  PreemptInv'
<1>1. PICK d \in 1 .. Slice + 1 :
        /\ quiet' = [w \in Worker |-> Min({quiet[w] + d, Slice + 1})]
        /\ stall' = [w \in Worker |->
                       IF stall[w] = -1 THEN -1 ELSE Min({stall[w] + d, Slice + 1})]
  BY ZenonT(60) DEF StartRound
<1>2. Slice \in Nat /\ d \in Nat /\ 1 \in Worker
  BY PreemptAssumption
<1>3. ASSUME NEW n \in Age
      PROVE  /\ Min({n + d, Slice + 1}) \in Age
             /\ \A m \in Age : n <= m => Min({n + d, Slice + 1}) <= Min({m + d, Slice + 1})
  <2>1. n \in Nat /\ n + d \in Nat /\ Slice + 1 \in Nat
    BY <1>2 DEF Age
  <2>2. /\ Min({n + d, Slice + 1}) \in {n + d, Slice + 1}
        /\ Min({n + d, Slice + 1}) <= n + d /\ Min({n + d, Slice + 1}) <= Slice + 1
    BY <2>1, OlderBounds
  <2>3. ASSUME NEW m \in Age, n <= m
        PROVE  Min({n + d, Slice + 1}) <= Min({m + d, Slice + 1})
    <3>1. m \in Nat /\ m + d \in Nat
      BY <1>2 DEF Age
    <3>2. Min({m + d, Slice + 1}) \in {m + d, Slice + 1}
      BY <2>1, <3>1, OlderBounds
    <3> QED
      BY <1>2, <2>1, <2>2, <2>3, <3>1, <3>2
  <2> QED
    BY <1>2, <2>1, <2>2, <2>3 DEF Age
<1>4. stall' \in [Worker -> Age \cup {-1}] /\ quiet' \in [Worker -> Age]
  BY <1>1, <1>3 DEF PreemptInv
<1>5. Younger'
  <2> SUFFICES ASSUME NEW w \in Worker, w \notin changed PROVE stall'[w] <= quiet'[w]
    BY DEF Younger, StartRound
  <2>1. stall[w] \in Age \cup {-1} /\ quiet[w] \in Age /\ stall[w] <= quiet[w]
    BY DEF PreemptInv, Younger
  <2>2. CASE stall[w] = -1
    BY <1>1, <1>4, <2>2 DEF Age
  <2>3. CASE stall[w] # -1
    BY <1>1, <1>3, <2>1, <2>3
  <2> QED
    BY <2>2, <2>3
<1> QED
  BY <1>2, <1>4, <1>5 DEF PreemptInv, StartRound

LEMMA LoadCounterKeeps ==
  ASSUME PreemptInv, LoadCounter
  PROVE  PreemptInv'
<1>1. watched \in Worker /\ UNCHANGED quiet /\ watched' \in Worker \cup {0} /\ gthread_id' = NoGvt
  BY DEF PreemptInv, LoadCounter, EndLook, NextWorker, workers
<1>2. /\ stall' = stall \/ stall' = [stall EXCEPT ![watched] = -1]
         \/ stall' = [stall EXCEPT ![watched] = 0]
      /\ changed' \in {changed, changed \ {watched}}
      /\ changed' # changed => stall' = [stall EXCEPT ![watched] = 0]
  BY DEF LoadCounter, HandleStuck
<1>3. preempt_flag' \in [Gvt -> {0, 1}]
  BY DEF LoadCounter, HandleStuck, PreemptInv
<1>4. 0 \in Age /\ Age \subseteq Nat
  BY PreemptAssumption DEF Age
<1>5. stall' \in [Worker -> Age \cup {-1}]
  BY <1>2, <1>4 DEF PreemptInv
<1>6. Younger'
  <2> SUFFICES ASSUME NEW w \in Worker, w \notin changed' PROVE stall'[w] <= quiet[w]
    BY <1>1 DEF Younger
  <2>1. quiet[w] \in Nat /\ (w \notin changed => stall[w] <= quiet[w])
    BY <1>4, ZenonT(60) DEF PreemptInv, Younger
  <2>2. w \in changed => w = watched /\ stall'[w] = 0
    BY <1>1, <1>2 DEF PreemptInv
  <2>3. stall'[w] \in {stall[w], -1, 0} /\ (stall'[w] # stall[w] => stall'[w] \in {-1, 0})
    BY <1>1, <1>2 DEF PreemptInv
  <2> QED
    BY <2>1, <2>2, <2>3
<1> QED
  BY <1>1, <1>3, <1>5, <1>6 DEF PreemptInv

LEMMA PreemptStepInv == PreemptInv /\ [PreemptNext]_preemptVars => PreemptInv'
<1> SUFFICES ASSUME PreemptInv, [PreemptNext]_preemptVars PROVE PreemptInv'
  OBVIOUS
<1> USE DEF PreemptInv
<1>1. ASSUME NEW w \in Worker, NEW g \in Gvt, StartRunning(w, g) PROVE PreemptInv'
  <2>1. 0 \in Age
    BY PreemptAssumption DEF Age
  <2>2. Younger'
    BY <1>1 DEF StartRunning, Younger, watch
  <2> QED
    BY <1>1, <2>1, <2>2 DEF StartRunning, watch, look
<1>2. ASSUME NEW w \in Worker, ClearPreempt(w) \/ LeaveGvt(w) \/ StopRunning(w) PROVE PreemptInv'
  <2>1. UNCHANGED <<stall, quiet, changed, watched, gthread_id>>
    BY <1>2 DEF ClearPreempt, LeaveGvt, StopRunning, watch, look
  <2>2. preempt_flag' \in [Gvt -> {0, 1}]
    BY <1>2 DEF ClearPreempt, LeaveGvt, StopRunning
  <2> QED
    BY <2>1, <2>2 DEF Younger
<1>3. CASE LoadCurrent
  <2>1. watched \in Worker /\ UNCHANGED <<quiet, changed, preempt_flag>>
    BY <1>3 DEF LoadCurrent, workers
  <2>2. stall' = stall \/ stall' = [stall EXCEPT ![watched] = -1]
    BY <1>3 DEF LoadCurrent
  <2>3. watched' \in Worker \cup {0} /\ (gthread_id' # NoGvt => watched' \in Worker)
    BY <1>3 DEF LoadCurrent, NextWorker
  <2>4. Younger'
    <3>1. \A w \in Worker : quiet[w] \in Nat
      BY PreemptAssumption DEF Age
    <3> QED
      BY <2>1, <2>2, <3>1 DEF Younger
  <2> QED
    BY <2>1, <2>2, <2>3, <2>4
<1>4. CASE WatchExit \/ WatchShutdown \/ UNCHANGED preemptVars
  BY <1>4 DEF WatchExit, WatchShutdown, preemptVars, workers, watch, look, Younger
<1> QED
  BY <1>1, <1>2, <1>3, <1>4, RoundKeeps, LoadCounterKeeps DEF PreemptNext, TimerStep

\* timer_loop: handle_stuck_gvthread raises a flag before the time slice of the
\* run is over only if the worker began another run since the stall was noted.
THEOREM EarlyFlagHolds == PreemptSpec => EarlyOnlyAfterChange
<1> DEFINE A == (\E g \in Gvt : preempt_flag'[g] > preempt_flag[g])
                  => watched \in changed \/ quiet[watched] > Slice
<1>1. PreemptInv /\ [PreemptNext]_preemptVars => [A]_preemptVars
  <2> SUFFICES ASSUME PreemptInv, PreemptNext, NEW g \in Gvt,
                      preempt_flag'[g] > preempt_flag[g]
               PROVE  watched \in changed \/ quiet[watched] > Slice
    OBVIOUS
  <2>1. preempt_flag[g] \in {0, 1} /\ preempt_flag'[g] # preempt_flag[g] /\ preempt_flag'[g] # 0
    BY DEF PreemptInv
  <2>2. \A w \in Worker : ~ClearPreempt(w) /\ ~LeaveGvt(w)
    BY <2>1 DEF PreemptInv, ClearPreempt, LeaveGvt
  <2>3. LoadCounter
    BY <2>1, <2>2 DEF PreemptNext, TimerStep, StartRunning, StopRunning, StartRound,
                      LoadCurrent, WatchExit, WatchShutdown
  <2>4. watched \in Worker /\ stall[watched] > Slice
    BY <2>1, <2>3 DEF PreemptInv, LoadCounter
  <2>5. watched \notin changed => stall[watched] <= quiet[watched] /\ stall[watched] \in Int /\ quiet[watched] \in Int
    BY <2>4, PreemptAssumption DEF PreemptInv, Younger, Age
  <2> QED
    BY <2>4, <2>5, PreemptAssumption
<1> HIDE DEF A
<1>2. PreemptSpec => [][A]_preemptVars
  BY <1>1, PreemptInitInv, PreemptStepInv, PTL DEF PreemptSpec
<1> QED
  BY <1>2 DEF EarlyOnlyAfterChange, A

================================================================================
