------------------------- MODULE SchedulerSleepProofs -------------------------
(***************************************************************************)
(* Proofs about SchedulerSleep, when no sleep ends before the worker has   *)
(* left the sleeper behind: a GVThread is in one place, an entry of the    *)
(* sleep queue is the only one of a GVThread that still sleeps, and no     *)
(* sleeper is forgotten.  The steps of Scheduler keep its invariant with   *)
(* the sleepers set apart (SchedulerProofs); what is added says which      *)
(* entries the queue and the timer threads have.                           *)
(***************************************************************************)
EXTENDS SchedulerSleep, SchedulerProofs

----------------------------------------------------------------------------
(* queues without repetition *)

\* Each element is in the queue once.
Simple(q) == \A x \in DOMAIN q : q[x] = 1

LEMMA PushedOnce ==
  ASSUME NEW e, e \notin Queued, Simple(sleepq)
  PROVE  DOMAIN Pushed(e) = Queued \cup {e} /\ Simple(Pushed(e))
  BY DEF Pushed, Queued, Simple

LEMMA RemovedOnce ==
  ASSUME NEW e \in Queued, Simple(sleepq)
  PROVE  DOMAIN Removed(e) = Queued \ {e} /\ Simple(Removed(e))
<1>1. {x \in Queued : x # e \/ sleepq[x] > 1} = Queued \ {e}
  BY DEF Queued, Simple
<1> QED  BY <1>1 DEF Removed, Queued, Simple

----------------------------------------------------------------------------
Sleepers == {e.slot : e \in Queued}

Current(g) == [slot |-> g, gen |-> gen[g]]

QueueOK ==
  /\ \A e \in Queued : e.slot \in Slot /\ e = Current(e.slot)
  /\ Simple(sleepq)
  /\ DOMAIN entry = Waker
  /\ \A t \in Waker :
       entry[t] = IF pc[t] = "verify" THEN Current(cur[t]) ELSE NoEntry

SleepInv == IInv(Sleepers) /\ QueueOK

\* What a step of Scheduler does to the generations and to the timer threads.
Outside(u) ==
  /\ \A t \in Thread \ {u} : pc'[t] = pc[t] /\ cur'[t] = cur[t]
  /\ u \in Waker => pc[u] # "verify" /\ pc'[u] # "verify"
  /\ \A g \in Slot : gen'[g] # gen[g] =>
       /\ g = cur[u] /\ pc[u] \in {"activate", "deactivate"}
       /\ pc[u] = "activate" => u \notin Worker

LEMMA CoreOutside ==
  ASSUME TypeOK, Next
  PROVE  \E u \in Thread : Outside(u)
<1> USE DEF TypeOK, SlotType, LabelType, HandType
<1>0. /\ DOMAIN pc = Thread /\ DOMAIN cur = Thread /\ DOMAIN gen = Slot
      /\ Worker \subseteq Thread /\ Spawner \subseteq Thread
      /\ \A u \in Worker \cup Spawner : u \notin Waker
      /\ \A u \in Spawner : u \notin Worker
  BY SchedulerAssumption DEF Thread
<1> USE DEF Goto, slotVars, ioVars, Outside
<1>1. ASSUME NEW u \in Thread, Wake(u) PROVE Outside(u)
  <2>1. CASE WakeCheck(u)
    <3>1. CASE st[cur[u]] = "Blocked"  BY ZenonT(60), <1>0, <2>1, <3>1 DEF WakeCheck
    <3>2. CASE st[cur[u]] # "Blocked"
      BY ZenonT(60), <1>0, <2>1, <3>2 DEF WakeCheck, AfterWake
    <3> QED  BY <3>1, <3>2
  <2>2. CASE SetReady(u)  BY ZenonT(60), <1>0, <2>2 DEF SetReady
  <2>3. CASE Push(u)  BY ZenonT(60), <1>0, <2>3 DEF Push, AfterWake
  <2> QED  BY <1>1, <2>1, <2>2, <2>3 DEF Wake
<1>2. ASSUME NEW u \in Spawner, Spawn(u) PROVE Outside(u)
  <2>1. CASE Allocate(u)  BY ZenonT(60), <1>0, <2>1 DEF Allocate
  <2>2. CASE Activate(u)  BY ZenonT(60), <1>0, <2>2 DEF Activate
  <2>3. CASE InitContext(u)  BY ZenonT(60), <1>0, <2>3 DEF InitContext
  <2> QED  BY <1>2, <2>1, <2>2, <2>3 DEF Spawn
<1>3. ASSUME NEW u \in Worker, Reap(u) PROVE Outside(u)
  BY ZenonT(60), <1>0, <1>3 DEF Reap, Poll, WaitIo, Drain, Complete, PollDone
<1>4. ASSUME NEW u \in Worker, Take(u) PROVE Outside(u)
  BY ZenonT(60), <1>0, <1>4 DEF Take, Pop, PopNone
<1>5. ASSUME NEW u \in Worker, User(u) PROVE Outside(u)
  BY ZenonT(60), <1>0, <1>5 DEF User, Yield, Finish, Submit, Refuse
<1>6. ASSUME NEW u \in Worker, Run(u) PROVE Outside(u)
  <2>1. CASE Deactivate(u)  BY ZenonT(60), <1>0, <2>1 DEF Deactivate
  <2>2. CASE Return(u)
    <3>1. (\E l : pc' = [pc EXCEPT ![u] = l]) /\ UNCHANGED <<gen, cur>>
      BY Zenon, <2>2 DEF Return
    <3> QED  BY ZenonT(60), <1>0, <3>1
  <2>3. CASE SetRunning(u) \/ SwitchIn(u) \/ Block(u) \/ SwitchOut(u) \/ Requeue(u)
             \/ MarkFinished(u) \/ Release(u) \/ StopRunning(u)
    BY ZenonT(60), <1>0, <2>3
       DEF SetRunning, SwitchIn, Block, SwitchOut, Requeue, MarkFinished, Release,
           StopRunning
  <2> QED  BY <1>6, <2>1, <2>2, <2>3 DEF Run
<1>7. ASSUME NEW u \in Worker, NEW g \in Slot, KernelDone(u, g) PROVE Outside(u)
  BY ZenonT(60), <1>0, <1>7 DEF KernelDone
<1> HIDE DEF Outside
<1> QED  BY ZenonT(60), <1>0, <1>1, <1>2, <1>3, <1>4, <1>5, <1>6, <1>7 DEF Next

\* A step of Scheduler keeps the invariant.
LEMMA CoreKeeps ==
  ASSUME SleepInv, [Next]_vars, UNCHANGED <<sleepq, entry>>
  PROVE  SleepInv'
<1>1. PICK S \in SUBSET Slot : S = Sleepers
  BY Zenon DEF SleepInv, QueueOK, Sleepers
<1>2. IInv(S) /\ IInv(S)' /\ Sleepers' = S
  BY <1>1, StepIInv DEF SleepInv, Sleepers, Queued
<1>3. CASE UNCHANGED vars
  <2>1. \A g \in Slot : Current(g)' = Current(g)
    BY <1>3 DEF Current, vars
  <2>2. QueueOK'
    BY <1>3, <2>1 DEF SleepInv, QueueOK, Queued, Current, vars
  <2> QED  BY <1>2, <2>2 DEF SleepInv
<1>4. CASE Next
  <2>1. PICK u \in Thread : Outside(u)
    BY <1>2, <1>4, CoreOutside DEF IInv
  <2>2. TypeOK /\ OnePlace /\ (\A t \in Thread : AtLabel(t)) /\ \A g \in S : Sleeper(g)
    BY <1>2 DEF IInv, Inner, Shape
  <2>3. ASSUME NEW g \in Slot, pc[u] \in {"activate", "deactivate"}, cur[u] = g,
               g \in S \/ \E t \in Waker : pc[t] = "verify" /\ cur[t] = g,
               pc[u] = "activate" => u \notin Worker, u \in Waker => pc[u] # "verify"
        PROVE  FALSE
    <3>1. Holds(u, g)
      BY <2>3 DEF Holds, HoldLabel
    <3>2. CASE g \in S
      BY <2>2, <2>3, <3>1, <3>2 DEF Sleeper
    <3>3. ASSUME NEW t \in Waker, pc[t] = "verify", cur[t] = g PROVE FALSE
      <4>1. Holds(t, g) /\ t \in Thread
        BY <3>3 DEF Holds, HoldLabel, Thread
      <4>2. t = u
        BY <2>2, <3>1, <4>1 DEF OnePlace, HeldApart
      <4> QED  BY <2>3, <3>3, <4>2
    <3> QED  BY <2>3, <3>2, <3>3
  <2>4. ASSUME NEW g \in Slot, g \in S \/ \E t \in Waker : pc[t] = "verify" /\ cur[t] = g
        PROVE  Current(g)' = Current(g)
    <3>1. gen'[g] = gen[g]
      BY <2>1, <2>3, <2>4 DEF Outside
    <3> QED  BY <3>1 DEF Current
  <2>5. \A e \in Queued' : e.slot \in Slot /\ e = Current(e.slot)'
    <3> SUFFICES ASSUME NEW e \in Queued
                 PROVE  e.slot \in Slot /\ e = Current(e.slot)'
      BY DEF Queued
    <3>1. e.slot \in Slot /\ e.slot \in S /\ e = Current(e.slot)
      BY <1>1 DEF SleepInv, QueueOK, Sleepers
    <3>2. Current(e.slot)' = Current(e.slot)
      BY <2>4, <3>1
    <3> QED  BY <3>1, <3>2
  <2>6. ASSUME NEW t \in Waker
        PROVE  entry'[t] = IF pc'[t] = "verify" THEN Current(cur[t])' ELSE NoEntry
    <3>0. t \in Thread /\ entry' = entry
      BY DEF Thread
    <3>1. entry[t] = IF pc[t] = "verify" THEN Current(cur[t]) ELSE NoEntry
      BY DEF SleepInv, QueueOK
    <3>2. CASE pc[t] = "verify"
      <4>1. t # u /\ pc'[t] = pc[t] /\ cur'[t] = cur[t] /\ cur[t] \in Slot
        BY <2>1, <2>2, <3>0, <3>2 DEF Outside, AtLabel, HoldLabel
      <4>2. Current(cur[t])' = Current(cur[t])
        <5>1. PICK g \in Slot : g = cur[t]
          BY <4>1
        <5>2. Current(g)' = Current(g)
          BY <2>4, <3>2, <5>1
        <5> QED  BY <4>1, <5>1, <5>2 DEF Current
      <4> QED  BY <3>0, <3>1, <3>2, <4>1, <4>2
    <3>3. CASE pc[t] # "verify"
      <4>1. pc'[t] # "verify"
        BY <2>1, <3>0, <3>3 DEF Outside
      <4> QED  BY <3>0, <3>1, <3>3, <4>1
    <3> QED  BY <3>2, <3>3
  <2>7. QueueOK'
    BY <2>5, <2>6 DEF SleepInv, QueueOK, Simple
  <2> QED  BY <1>2, <2>7 DEF SleepInv
<1> QED  BY <1>3, <1>4

----------------------------------------------------------------------------
(* the steps of timer::sleep and of the timer thread *)

LEMMA SleepTyped ==
  ASSUME TypeOK, NEW t \in Thread, NEW l \in WorkerLabel \cup OtherLabel,
         t \in Worker => l \in WorkerLabel, t \notin Worker => l \in OtherLabel,
         pc' = [pc EXCEPT ![t] = l], cur' \in [Thread -> Slot \cup {NoSlot}],
         UNCHANGED <<slotVars, ready, on, ioVars>>
  PROVE  TypeOK'
<1> USE DEF TypeOK, slotVars, ioVars
<1>1. SlotType' /\ RingType'
  BY ZenonT(60) DEF SlotType, RingType
<1>2. LabelType'
  <2>1. /\ pc'[t] = l /\ back' = back
        /\ \A u \in Thread \ {t} : pc'[u] = pc[u]
    BY DEF LabelType
  <2>2. pc' \in [Thread -> WorkerLabel \cup OtherLabel]
    BY DEF LabelType
  <2>3. ASSUME NEW u \in Thread
        PROVE  /\ u \in Worker => pc'[u] \in WorkerLabel
               /\ u \notin Worker => pc'[u] \in OtherLabel
    BY <2>1 DEF LabelType
  <2>4. Worker \subseteq Thread
    BY DEF Thread
  <2> QED  BY Zenon, <2>1, <2>2, <2>3, <2>4 DEF LabelType
<1>3. HandType'
  BY ZenonT(60) DEF HandType
<1> QED  BY <1>1, <1>2, <1>3

\* A thread that changes only its position and its slot is alone with the slot.
LEMMA MoveFrame ==
  ASSUME TypeOK, NEW t \in Thread, NEW c \in Slot, NEW l,
         pc' = [pc EXCEPT ![t] = l], l \in HoldLabel,
         cur' = [cur EXCEPT ![t] = c],
         UNCHANGED <<slotVars, ready, on, ioVars>>,
         pc[t] \in HoldLabel => cur[t] = c,
         Mine(t, c), ready[c] = 0, c \notin free
  PROVE  /\ Local(t, c) /\ Here(t, c)' /\ KeepsOthers(t, c) /\ Holds(t, c)'
         /\ pc'[t] = l /\ cur'[t] = c
         /\ \A u \in Thread : u # t => ~Holds(u, c)'
         /\ \A w \in Worker : InRing(w, c)' <=> InRing(w, c)
<1> USE DEF slotVars, ioVars
<1>1. /\ DOMAIN pc = Thread /\ DOMAIN cur = Thread
      /\ pc'[t] = l /\ cur'[t] = c
      /\ \A u \in Thread \ {t} : pc'[u] = pc[u] /\ cur'[u] = cur[u]
  BY ZenonT(60) DEF TypeOK, LabelType, HandType
<1>2. \A w \in Worker, g \in Slot : InRing(w, g)' <=> InRing(w, g)
  BY ZenonT(60) DEF InRing
<1>3. Holds(t, c)' /\ \A g \in Slot \ {c} : ~Holds(t, g)' /\ ~Holds(t, g)
  BY ZenonT(60), <1>1 DEF Holds
<1>4. Local(t, c)
  BY ZenonT(60), <1>1, <1>2, <1>3 DEF Local
<1>5. Here(t, c)' /\ KeepsOthers(t, c)
  BY ZenonT(60), <1>2, <1>3 DEF Here, KeepsOthers
<1>6. \A u \in Thread : u # t => ~Holds(u, c)'
  BY ZenonT(60), <1>1 DEF Mine, Holds
<1> QED  BY <1>1, <1>2, <1>3, <1>4, <1>5, <1>6

LEMMA SleepKeeps ==
  ASSUME SleepInv, NEW w \in Worker, Sleep(w)
  PROVE  SleepInv'
<1> USE DEF slotVars, ioVars
<1>1. PICK S \in SUBSET Slot : S = Sleepers
  BY DEF SleepInv, QueueOK, Sleepers
<1>2. IInv(S) /\ TypeOK /\ w \in Thread /\ AtLabel(w) /\ AtWorker(w)
  BY <1>1 DEF SleepInv, IInv, Inner, Shape, Thread
<1>3. PICK c \in Slot : c = cur[w] /\ on[w] = c /\ pc[w] = "run" /\ Holds(w, c)
  BY ZenonT(60), <1>2 DEF Sleep, AtLabel, AtWorker, RunState, RunLabel, Holds, HoldLabel
<1>4. /\ Mine(w, c) /\ ready[c] = 0 /\ c \notin free
      /\ ~InRing(w, c) /\ ~awaits[c]
  BY ZenonT(60), <1>2, <1>3, HolderOwns DEF AtWorker, RingState, RunState, HoldLabel
<1>5. c \notin S
  BY <1>2, <1>3 DEF IInv, Inner, Sleeper
<1> DEFINE R == S \cup {c}
           e == Current(c)
<1>6. /\ sleepq' = Pushed(e) /\ pc' = [pc EXCEPT ![w] = "block"]
      /\ UNCHANGED <<slotVars, ready, cur, on, ioVars, entry>>
      /\ cur' = [cur EXCEPT ![w] = c]
  BY <1>2, <1>3 DEF Sleep, Goto, Current, TypeOK, HandType
<1>7. e.slot = c
  BY DEF Current
<1>8. e \notin Queued /\ Simple(sleepq)
  BY <1>1, <1>5, <1>7 DEF SleepInv, QueueOK, Sleepers, Queued
<1> HIDE DEF e
<1>9. Queued' = Queued \cup {e} /\ Simple(sleepq)'
  BY Zenon, <1>6, <1>8, PushedOnce DEF Queued, Simple
<1>10. Sleepers' = R
  BY <1>1, <1>7, <1>9 DEF Sleepers, Queued
<1>11. TypeOK'
  <2>1. "block" \in WorkerLabel
    BY DEF WorkerLabel
  <2>2. cur' \in [Thread -> Slot \cup {NoSlot}]
    BY <1>2, <1>6 DEF TypeOK, HandType
  <2> QED  BY <1>2, <1>6, <2>1, <2>2, SleepTyped, ZenonT(60)
<1>12. "block" \in HoldLabel
  BY DEF HoldLabel
<1>13. /\ Local(w, c) /\ Here(w, c)' /\ KeepsOthers(w, c) /\ Holds(w, c)'
       /\ pc'[w] = "block" /\ cur'[w] = c
       /\ \A u \in Thread : u # w => ~Holds(u, c)'
       /\ \A v \in Worker : InRing(v, c)' <=> InRing(v, c)
  BY <1>2, <1>3, <1>4, <1>6, <1>12, MoveFrame, Zenon
<1>14. Sleeper(c)'
  <2>1. \A v \in Worker : ~InRing(v, c)'
    BY <1>4, <1>13 DEF Mine
  <2>2. ready'[c] = 0 /\ c \notin free' /\ ~awaits'[c]
    BY <1>4, <1>6
  <2> QED  BY ZenonT(60), <1>2, <1>13, <2>1, <2>2 DEF Sleeper
<1>15. AtLabel(w)'
  BY ZenonT(60), <1>3, <1>13 DEF AtLabel, SavedLabel, AnswerLabel
<1>16. AtWorker(w)'
  <2>1. /\ RingOnce(w)' /\ on'[w] = c
    BY <1>2, <1>3, <1>6 DEF AtWorker, RingOnce
  <2>2. RunState(w)' /\ RingState(w)'
    BY ZenonT(60), <1>13, <2>1 DEF RunState, RingState, RunLabel
  <2> QED  BY <2>1, <2>2 DEF AtWorker
<1>17. KeptAt(w, R)' /\ KeptHere(w, c, R)'
  <2>1. buf[w] = {} /\ buf' = buf
    BY ZenonT(60), <1>2, <1>3, <1>6 DEF IInv, Inner, Kept, KeptAt
  <2>2. KeptAt(w, R)'
    BY ZenonT(60), <1>13, <2>1 DEF KeptAt
  <2>3. KeptHere(w, c, R)'
    BY ZenonT(60), <1>4, <1>13 DEF KeptHere
  <2> QED  BY <2>2, <2>3
<1>18. Inner(R)'
  <2>1. R \in SUBSET Slot /\ R \ {c} = S \ {c} /\ c \in Slot \cup {NoSlot}
    OBVIOUS
  <2> HIDE DEF R
  <2> QED
    BY <1>2, <1>4, <1>11, <1>13, <1>14, <1>15, <1>16, <1>17, <2>1, FrameInner
<1>19. QueueOK'
  <2>1. \A g : Current(g)' = Current(g)
    BY <1>6 DEF Current
  <2>2. \A x \in Queued' : x.slot \in Slot /\ x = Current(x.slot)'
    BY <1>7, <1>9, <2>1 DEF e, SleepInv, QueueOK, Queued
  <2>3. \A t \in Waker : t \in Thread /\ t # w /\ pc'[t] = pc[t] /\ cur'[t] = cur[t]
    BY <1>2, <1>6, SchedulerAssumption DEF TypeOK, LabelType, Thread
  <2>4. ASSUME NEW t \in Waker
        PROVE  entry'[t] = IF pc'[t] = "verify" THEN Current(cur[t])' ELSE NoEntry
    BY <1>6, <2>3 DEF SleepInv, QueueOK, Current
  <2> QED  BY <1>6, <1>9, <2>2, <2>4, Zenon DEF SleepInv, QueueOK, Simple
<1> QED  BY <1>10, <1>11, <1>18, <1>19 DEF SleepInv, IInv

LEMMA PopExpiredKeeps ==
  ASSUME SleepInv, LongSleeps, NEW t \in Waker, NEW c \in Slot, PopExpired(t, c)
  PROVE  SleepInv'
<1> USE DEF slotVars, ioVars
<1>1. PICK S \in SUBSET Slot : S = Sleepers
  BY DEF SleepInv, QueueOK, Sleepers
<1>2. IInv(S) /\ TypeOK /\ t \in Thread /\ t \notin Worker /\ (\A g \in S : Sleeper(g))
  BY <1>1, SchedulerAssumption DEF SleepInv, IInv, Inner, Thread
<1>3. PICK e \in Queued : /\ e.slot = c /\ sleepq' = Removed(e)
                                   /\ entry' = [entry EXCEPT ![t] = e]
  BY Zenon DEF PopExpired
<1>4. /\ pc[t] = "idle" /\ pc' = [pc EXCEPT ![t] = "verify"]
      /\ cur' = [cur EXCEPT ![t] = c] /\ UNCHANGED <<slotVars, ready, on, ioVars>>
      /\ \A w \in Worker : ~Holds(w, c)
  BY DEF PopExpired, Goto
<1>5. c \in S /\ Sleeper(c)
  BY <1>1, <1>2, <1>3 DEF Sleepers
<1>6. /\ \A u \in Thread : ~Holds(u, c)
      /\ ready[c] = 0 /\ c \notin free /\ ~awaits[c] /\ st[c] = "Blocked" /\ ctx[c] = "saved"
      /\ \A w \in Worker : ~InRing(w, c)
  BY ZenonT(60), <1>4, <1>5 DEF Sleeper
<1> DEFINE R == S \ {c}
<1>7. Queued' = Queued \ {e} /\ Simple(sleepq)'
  BY Zenon, <1>3, RemovedOnce DEF SleepInv, QueueOK, Queued
<1>8. e = Current(c) /\ \A x \in Queued : x.slot = c => x = e
  BY <1>3 DEF SleepInv, QueueOK, Queued
<1>9. Sleepers' = R
  BY <1>1, <1>3, <1>7, <1>8 DEF Sleepers, Queued
<1>10. TypeOK'
  <2>1. "verify" \in OtherLabel
    BY DEF OtherLabel
  <2>2. cur' \in [Thread -> Slot \cup {NoSlot}]
    BY <1>2, <1>4 DEF TypeOK, HandType
  <2> QED  BY <1>2, <1>4, <2>1, <2>2, SleepTyped, ZenonT(60)
<1>11. Mine(t, c) /\ "verify" \in HoldLabel /\ "idle" \notin HoldLabel
  BY <1>6 DEF Mine, HoldLabel
<1>12. /\ Local(t, c) /\ Here(t, c)' /\ KeepsOthers(t, c) /\ Holds(t, c)'
       /\ pc'[t] = "verify" /\ cur'[t] = c
  BY <1>2, <1>4, <1>6, <1>11, MoveFrame, ZenonT(60)
<1>13. AtLabel(t)'
  BY ZenonT(60), <1>4, <1>6, <1>12 DEF AtLabel, SavedLabel, AnswerLabel
<1>14. KeptAt(t, R)' /\ KeptHere(t, c, R)'
  BY ZenonT(60), <1>2, <1>4, <1>6, <1>12 DEF KeptAt, KeptHere
<1>15. Inner(R)'
  <2>1. R \in SUBSET Slot /\ R \ {c} = S \ {c} /\ c \notin R /\ c \in Slot \cup {NoSlot}
    OBVIOUS
  <2> HIDE DEF R
  <2> QED  BY <1>2, <1>10, <1>11, <1>12, <1>13, <1>14, <2>1, FrameInner
<1>16. QueueOK'
  <2>1. \A g : Current(g)' = Current(g)
    BY <1>4 DEF Current
  <2>2. \A x \in Queued' : x.slot \in Slot /\ x = Current(x.slot)'
    BY <1>7, <2>1 DEF SleepInv, QueueOK, Queued
  <2>3. \A u \in Waker \ {t} : u \in Thread /\ pc'[u] = pc[u] /\ cur'[u] = cur[u]
    BY <1>2, <1>4 DEF TypeOK, LabelType, HandType, Thread
  <2>4. DOMAIN entry' = Waker /\ entry'[t] = e /\ \A u \in Waker \ {t} : entry'[u] = entry[u]
    BY <1>3 DEF SleepInv, QueueOK
  <2>5. ASSUME NEW u \in Waker
        PROVE  entry'[u] = IF pc'[u] = "verify" THEN Current(cur[u])' ELSE NoEntry
    <3>1. CASE u = t
      BY <1>8, <1>12, <2>1, <2>4, <3>1, Zenon DEF Current
    <3>2. CASE u # t
      BY <1>4, <2>3, <2>4, <3>2 DEF SleepInv, QueueOK, Current
    <3> QED  BY <3>1, <3>2
  <2> QED  BY <1>7, <2>2, <2>4, <2>5 DEF QueueOK, Simple
<1> QED  BY <1>9, <1>10, <1>15, <1>16 DEF SleepInv, IInv

LEMMA VerifyKeeps ==
  ASSUME SleepInv, NEW t \in Waker, Verify(t)
  PROVE  SleepInv'
<1> USE DEF slotVars, ioVars
<1>1. PICK S \in SUBSET Slot : S = Sleepers
  BY DEF SleepInv, QueueOK, Sleepers
<1>2. IInv(S) /\ TypeOK /\ t \in Thread /\ t \notin Worker /\ AtLabel(t)
  BY <1>1, SchedulerAssumption DEF SleepInv, IInv, Inner, Shape, Thread
<1>3. PICK c \in Slot : c = cur[t] /\ pc[t] = "verify" /\ Holds(t, c)
  BY <1>2 DEF Verify, AtLabel, Holds, HoldLabel
<1>4. entry[t] = Current(c) /\ entry[t].gen = gen[c]
  BY <1>3 DEF SleepInv, QueueOK, Current
<1>5. /\ pc' = [pc EXCEPT ![t] = "check"] /\ cur' = cur
      /\ entry' = [entry EXCEPT ![t] = NoEntry]
      /\ UNCHANGED <<slotVars, ready, on, ioVars, sleepq>>
      /\ cur' = [cur EXCEPT ![t] = c]
  BY <1>2, <1>3, <1>4 DEF Verify, Goto, TypeOK, HandType
<1>6. Sleepers' = S
  BY <1>1, <1>5 DEF Sleepers, Queued
<1>7. TypeOK'
  <2>1. "check" \in OtherLabel
    BY DEF OtherLabel, WakeLabel
  <2>2. cur' \in [Thread -> Slot \cup {NoSlot}]
    BY <1>2, <1>5 DEF TypeOK, HandType
  <2> QED  BY <1>2, <1>5, <2>1, <2>2, SleepTyped, ZenonT(60)
<1>8. Mine(t, c) /\ ready[c] = 0 /\ c \notin free /\ "check" \in HoldLabel
  BY <1>2, <1>3, HolderOwns DEF HoldLabel
<1>9. /\ Local(t, c) /\ Here(t, c)' /\ KeepsOthers(t, c) /\ Holds(t, c)'
      /\ pc'[t] = "check" /\ cur'[t] = c
  BY <1>2, <1>3, <1>5, <1>8, MoveFrame, Zenon
<1>10. c \notin S
  BY <1>2, <1>3 DEF IInv, Inner, Sleeper
<1>11. AtLabel(t)'
  <2>1. ctx[c] = "saved" /\ (awaits[c] => result[c])
    BY <1>2, <1>3 DEF AtLabel, SavedLabel, AnswerLabel
  <2> QED  BY ZenonT(60), <1>5, <1>9, <2>1 DEF AtLabel
<1>12. KeptAt(t, S)' /\ KeptHere(t, c, S)'
  <2>1. st[c] = "Blocked"
    BY ZenonT(60), <1>2, <1>3 DEF IInv, Inner, Kept, KeptAt
  <2> QED  BY ZenonT(60), <1>2, <1>5, <1>9, <2>1 DEF KeptAt, KeptHere
<1>13. Inner(S)'
  BY <1>2, <1>7, <1>8, <1>9, <1>10, <1>11, <1>12, FrameSame
<1>14. QueueOK'
  <2>1. \A g : Current(g)' = Current(g)
    BY <1>5 DEF Current
  <2>2. \A x \in Queued' : x.slot \in Slot /\ x = Current(x.slot)'
    BY <1>5, <2>1, Zenon DEF SleepInv, QueueOK, Queued
  <2>3. \A u \in Waker \ {t} : u \in Thread /\ pc'[u] = pc[u]
    BY <1>2, <1>5 DEF TypeOK, LabelType, Thread
  <2>4. DOMAIN entry' = Waker /\ entry'[t] = NoEntry /\ \A u \in Waker \ {t} : entry'[u] = entry[u]
    BY <1>5 DEF SleepInv, QueueOK
  <2>5. ASSUME NEW u \in Waker
        PROVE  entry'[u] = IF pc'[u] = "verify" THEN Current(cur[u])' ELSE NoEntry
    <3>1. CASE u = t
      BY <1>9, <2>4, <3>1
    <3>2. CASE u # t
      BY <1>5, <2>3, <2>4, <3>2 DEF SleepInv, QueueOK, Current
    <3> QED  BY <3>1, <3>2
  <2> QED  BY <1>5, <2>2, <2>4, <2>5, Zenon DEF SleepInv, QueueOK, Simple
<1> QED  BY <1>6, <1>7, <1>13, <1>14 DEF SleepInv, IInv

----------------------------------------------------------------------------
LEMMA SleepInitInv == SleepInit => SleepInv
<1> SUFFICES ASSUME SleepInit PROVE SleepInv
  OBVIOUS
<1>1. Queued = {}
  BY DEF SleepInit, Queued
<1>2. Sleepers = {}
  BY <1>1 DEF Sleepers
<1>3. QueueOK
  BY <1>1, SchedulerAssumption DEF SleepInit, Init, QueueOK, Thread, Simple, Queued
<1> QED  BY <1>2, <1>3, InitIInv DEF SleepInit, SleepInv

LEMMA SleepInvariance ==
  ASSUME LongSleeps
  PROVE  SleepSpec => []SleepInv
<1>1. SleepInv /\ [SleepNext]_sleepVars => SleepInv'
  <2> SUFFICES ASSUME SleepInv, [SleepNext]_sleepVars PROVE SleepInv'
    OBVIOUS
  <2>1. CASE Core(Next) \/ UNCHANGED sleepVars
    BY <2>1, CoreKeeps DEF Core, sleepVars
  <2>2. CASE \E w \in Worker : Sleep(w)
    BY <2>2, SleepKeeps
  <2>3. CASE \E t \in Waker : Verify(t) \/ \E g \in Slot : PopExpired(t, g)
    BY <2>3, VerifyKeeps, PopExpiredKeeps
  <2> QED  BY <2>1, <2>2, <2>3 DEF SleepNext
<1> QED  BY <1>1, SleepInitInv, PTL DEF SleepSpec

\* timer::sleep, process_sleep_queue and wake_gvthread: when a sleep does not
\* end before the worker has left the sleeper, the timer thread never puts a
\* GVThread in two places.
THEOREM SleepOnePlaceHolds ==
  ASSUME LongSleeps
  PROVE  SleepSpec => []OnePlace
<1>1. SleepInv => OnePlace
  BY DEF SleepInv, IInv, Inner
<1> QED  BY <1>1, SleepInvariance, PTL

\* The entry of a sleeper, in the queue or in the hands of the timer thread, is
\* the only one of its slot and carries the generation of the GVThread in it.
THEOREM EntryCurrentHolds ==
  ASSUME LongSleeps
  PROVE  SleepSpec => []EntryCurrent
<1>1. SleepInv => EntryCurrent
  <2> SUFFICES ASSUME SleepInv PROVE EntryCurrent
    OBVIOUS
  <2>1. PICK S \in SUBSET Slot : S = Sleepers
    BY DEF SleepInv, QueueOK, Sleepers
  <2>2. /\ \A g \in S : Sleeper(g)
        /\ \A t \in Thread : AtLabel(t) /\ FreeApart /\ free \subseteq Slot
    BY <2>1 DEF SleepInv, IInv, Inner, Shape, OnePlace, TypeOK, SlotType
  <2>3. ASSUME NEW e \in Queued
        PROVE  /\ e.slot \in S /\ e.slot \notin free /\ e.gen = gen[e.slot] /\ sleepq[e] = 1
    BY <2>1, <2>2 DEF SleepInv, QueueOK, Current, Sleepers, Sleeper, Simple, Queued
  <2>4. ASSUME NEW t \in Waker, entry[t] # NoEntry
        PROVE  /\ Holds(t, entry[t].slot) /\ entry[t].slot \notin free
               /\ entry[t].gen = gen[entry[t].slot] /\ entry[t].slot \notin S
    <3>1. pc[t] = "verify" /\ entry[t] = Current(cur[t]) /\ t \in Thread
      BY <2>4 DEF SleepInv, QueueOK, Thread
    <3>2. entry[t].slot = cur[t] /\ entry[t].gen = gen[cur[t]] /\ Holds(t, cur[t])
      BY <3>1 DEF Current, Holds, HoldLabel
    <3>3. cur[t] \notin free /\ cur[t] \notin S
      BY <2>2, <3>1, <3>2, SchedulerAssumption DEF FreeApart, Sleeper
    <3> QED  BY <3>2, <3>3
  <2> QED  BY <2>3, <2>4 DEF EntryCurrent
<1> QED  BY <1>1, SleepInvariance, PTL

\* A sleeping GVThread keeps its entry until the timer thread has it in hand,
\* and then it is woken: only a GVThread whose wake-up for a call was missed is
\* forgotten.
THEOREM SleeperKeptHolds ==
  ASSUME LongSleeps
  PROVE  SleepSpec => []SleeperKept
<1>1. SleepInv => SleeperKept
  <2> SUFFICES ASSUME SleepInv, NEW g \in Slot
               PROVE  Placed(g) \/ Asleep(g) \/ g \in missed
    BY DEF SleeperKept
  <2>1. Found(g, Sleepers)
    BY DEF SleepInv, IInv, Inner, Kept
  <2>2. g \in Sleepers => Asleep(g)
    BY DEF SleepInv, QueueOK, Sleepers, Asleep, Current
  <2> QED  BY <2>1, <2>2 DEF Found, Placed
<1> QED  BY <1>1, SleepInvariance, PTL
===============================================================================
