---------------------------- MODULE SchedulerProofs ----------------------------
(***************************************************************************)
(* Proofs about Scheduler: a GVThread is in one place, no two workers      *)
(* execute it, it is resumed only from saved registers and with its I/O    *)
(* answered, and it is forgotten only when its wake-up was missed.         *)
(***************************************************************************)
EXTENDS Scheduler, TLAPS, FiniteSetTheorems

(***************************************************************************)
(* The inductive invariant: what the position of a thread says about the   *)
(* slot it works on, and what holds of a slot that nobody holds.           *)
(***************************************************************************)
SavedLabel ==
  {"verify", "check", "setReady", "push", "setRunning", "switchIn", "return",
   "requeue"}

AnswerLabel ==
  {"context", "verify", "check", "setReady", "push", "setRunning", "switchIn",
   "requeue"}

RunLabel == {"run", "block", "switchOut"}

\* A slot on its way to being resumed has saved registers and the result it
\* awaits.
AtLabel(t) ==
  /\ pc[t] \in HoldLabel => cur[t] \in Slot
  /\ pc[t] \in SavedLabel => ctx[cur[t]] = "saved"
  /\ pc[t] \in AnswerLabel /\ awaits[cur[t]] => result[cur[t]]

RingOnce(w) ==
  /\ sq[w] \cap kernel[w] = {} /\ sq[w] \cap cq[w] = {} /\ sq[w] \cap buf[w] = {}
  /\ kernel[w] \cap cq[w] = {} /\ kernel[w] \cap buf[w] = {}
  /\ cq[w] \cap buf[w] = {}

RunState(w) ==
  /\ pc[w] \in RunLabel => on[w] = cur[w]
  /\ pc[w] \notin RunLabel => on[w] = NoSlot
  /\ pc[w] \in {"switchIn", "run"} => st[cur[w]] = "Running"
  /\ pc[w] = "run" => ~awaits[cur[w]]
  /\ pc[w] \in {"switchOut", "return"} /\ st[cur[w]] # "Blocked" => ~awaits[cur[w]]

\* A worker that holds a GVThread with pending I/O is on its way from the
\* submit to the end of run_gvthread.
RingState(w) ==
  pc[w] \in HoldLabel /\ InRing(w, cur[w]) =>
    /\ pc[w] \in {"block", "switchOut", "return"}
    /\ pc[w] # "block" => st[cur[w]] = "Blocked"

AtWorker(w) == RingOnce(w) /\ RunState(w) /\ RingState(w)

Resumable(g) ==
  /\ ready[g] # 0 => ctx[g] = "saved" /\ (awaits[g] => result[g])
  /\ \A w \in Worker : InRing(w, g) /\ ~Holds(w, g) => ctx[g] = "saved"

Shape ==
  /\ \A t \in Thread : AtLabel(t)
  /\ \A w \in Worker : AtWorker(w)
  /\ \A g \in Slot : Resumable(g)

(***************************************************************************)
(* The steps are shown to keep the invariant when the GVThreads of a set S *)
(* sleep; in Scheduler itself none does, SchedulerSleepProofs has the      *)
(* others.  A sleeper is nobody's but the worker's that still leaves it.   *)
(***************************************************************************)
Sleeper(g) ==
  /\ g \notin free /\ ready[g] = 0 /\ ~awaits[g]
  /\ \A w \in Worker : ~InRing(w, g)
  /\ \A t \in Thread : Holds(t, g) =>
       /\ t \in Worker /\ pc[t] \in {"block", "switchOut", "return"}
       /\ pc[t] # "block" => st[g] = "Blocked"
  /\ (\A t \in Thread : ~Holds(t, g)) => st[g] = "Blocked" /\ ctx[g] = "saved"

(***************************************************************************)
(* What is added for NoneForgotten.                                        *)
(***************************************************************************)

\* A thread wakes only blocked GVThreads, and a worker leaves one behind only
\* if it is ready, finished, asleep, has I/O pending or missed its wake-up.
KeptAt(t, S) ==
  /\ pc[t] \in {"verify", "check"} => st[cur[t]] = "Blocked"
  /\ t \in Worker =>
       /\ buf[t] # {} => pc[t] \in {"pick", "check", "setReady", "push"}
       /\ pc[t] = "block" => InRing(t, cur[t]) \/ cur[t] \in S \/ cur[t] \in missed
       /\ pc[t] \in {"switchOut", "return"} =>
            \/ st[cur[t]] \in {"Ready", "Finished"}
            \/ InRing(t, cur[t]) \/ cur[t] \in S \/ cur[t] \in missed

Pending(g) ==
  \A w \in Worker : InRing(w, g) /\ ~Holds(w, g) => st[g] = "Blocked"

\* NoneForgotten, when the GVThreads in S are asleep.
Found(g, S) ==
  \/ g \in free \/ ready[g] # 0 \/ g \in S \/ g \in missed
  \/ \E t \in Thread : Holds(t, g)
  \/ \E w \in Worker : InRing(w, g)

Kept(S) ==
  /\ \A g \in Slot : Found(g, S)
  /\ \A t \in Thread : KeptAt(t, S)
  /\ \A g \in Slot : Pending(g)

Inner(S) == OnePlace /\ Shape /\ (\A g \in S : Sleeper(g)) /\ Kept(S)

IInv(S) == TypeOK /\ Inner(S)

(***************************************************************************)
(* The frame: a step of thread t that concerns slot c.                     *)
(***************************************************************************)

\* The step changes only what belongs to t and to c.
Local(t, c) ==
  /\ \A u \in Thread \ {t} : pc'[u] = pc[u] /\ cur'[u] = cur[u]
  /\ \A w \in Worker \ {t} :
       /\ on'[w] = on[w] /\ sq'[w] = sq[w] /\ kernel'[w] = kernel[w]
       /\ cq'[w] = cq[w] /\ buf'[w] = buf[w]
  /\ \A g \in Slot \ {c} :
       /\ st'[g] = st[g] /\ ctx'[g] = ctx[g] /\ ready'[g] = ready[g]
       /\ awaits'[g] = awaits[g] /\ result'[g] = result[g]
       /\ g \in free' => g \in free
       /\ Holds(t, g)' <=> Holds(t, g)
       /\ Holds(t, g) => pc'[t] = pc[t]
       /\ t \in Worker => (InRing(t, g)' => InRing(t, g))

\* No other thread has to do with c.
Mine(t, c) ==
  /\ \A u \in Thread \ {t} : ~Holds(u, c)
  /\ \A w \in Worker \ {t} : ~InRing(w, c)

\* What OnePlace and Resumable say of c when no other thread has to do with it.
Here(t, c) ==
  /\ ready[c] # 0 =>
       /\ ready[c] = 1 /\ c \notin free /\ ~Holds(t, c)
       /\ t \in Worker => ~InRing(t, c)
       /\ ctx[c] = "saved" /\ (awaits[c] => result[c])
  /\ c \in free => ~Holds(t, c) /\ (t \in Worker => ~InRing(t, c))
  /\ t \in Worker /\ InRing(t, c) /\ ~Holds(t, c) => ctx[c] = "saved"

\* The step forgets no slot but c,
KeepsOthers(t, c) ==
  /\ missed \subseteq missed'
  /\ \A g \in Slot \ {c} :
       /\ g \in free => g \in free'
       /\ t \in Worker => (InRing(t, g) => InRing(t, g)' \/ g \in missed')

\* and c is not forgotten.
KeptHere(t, c, S) ==
  /\ \/ c \in free \/ ready[c] # 0 \/ c \in S \/ Holds(t, c) \/ c \in missed
     \/ t \in Worker /\ InRing(t, c)
  /\ t \in Worker /\ InRing(t, c) /\ ~Holds(t, c) => st[c] = "Blocked"

----------------------------------------------------------------------------
LEMMA CardType ==
  ASSUME NEW S \in SUBSET Slot
  PROVE  IsFiniteSet(S) /\ Cardinality(S) \in Nat
BY FS_Subset, FS_CardinalityType, SchedulerAssumption

\* What the types say about the domains of the functions.
Domains ==
  /\ DOMAIN st = Slot /\ DOMAIN ctx = Slot /\ DOMAIN ready = Slot
  /\ DOMAIN awaits = Slot /\ DOMAIN result = Slot
  /\ DOMAIN pc = Thread /\ DOMAIN cur = Thread /\ DOMAIN on = Worker
  /\ DOMAIN sq = Worker /\ DOMAIN kernel = Worker /\ DOMAIN cq = Worker
  /\ DOMAIN buf = Worker

LEMMA OneMore == 0 + 1 = 1 /\ 1 # 0
BY SMT

LEMMA DomainsOK ==
  ASSUME TypeOK
  PROVE  Domains
BY DEF Domains, TypeOK, SlotType, LabelType, HandType, RingType

\* The initial state is well typed.
LEMMA InitTyped == Init => TypeOK
<1> SUFFICES ASSUME Init
             PROVE  TypeOK
  OBVIOUS
<1> USE DEF Init
<1>1. SlotType
  BY DEF SlotType, State
<1>2. LabelType
  <2>1. PICK pool \in (SUBSET Worker) \ {{}} :
          pc = [t \in Thread |-> IF t \in pool THEN "poll"
                                 ELSE IF t \in Worker THEN "off" ELSE "idle"]
    OBVIOUS
  <2> QED  BY <2>1, SchedulerAssumption
              DEF LabelType, WorkerLabel, OtherLabel, WakeLabel, Thread
<1>3. HandType
  BY DEF HandType
<1>4. RingType
  BY SMTT(60) DEF RingType
<1> QED  BY <1>1, <1>2, <1>3, <1>4 DEF TypeOK

\* Every step keeps the types.
LEMMA StepTyped == TypeOK /\ Shape /\ [Next]_vars => TypeOK'
<1> SUFFICES ASSUME TypeOK, Shape, [Next]_vars
             PROVE  TypeOK'
  OBVIOUS
<1>0. /\ \A t \in Thread : pc[t] \in HoldLabel => cur[t] \in Slot
      /\ \A w \in Worker : pc[w] \in RunLabel => on[w] = cur[w]
  BY DEF Shape, AtLabel, AtWorker, RunState
<1> USE DEF TypeOK, SlotType, LabelType, HandType, RingType, State,
            WorkerLabel, OtherLabel, WakeLabel, Goto, slotVars, ioVars, Thread
<1>1. ASSUME NEW t \in Spawner, Spawn(t)
      PROVE  TypeOK'
  <2>1. CASE Allocate(t)  BY SMTT(60), <2>1, SchedulerAssumption DEF Allocate
  <2>2. CASE Activate(t)
    <3>1. cur[t] \in Slot /\ gen[cur[t]] \in Nat
      BY <1>0, <2>2 DEF Activate, HoldLabel
    <3> QED  BY <2>2, <3>1, SchedulerAssumption DEF Activate
  <2>3. CASE InitContext(t)  BY ZenonT(60), <2>3, SchedulerAssumption DEF InitContext
  <2> QED  BY <1>1, <2>1, <2>2, <2>3 DEF Spawn
<1>2. ASSUME NEW t \in Thread, Wake(t)
      PROVE  TypeOK'
  <2>1. CASE WakeCheck(t)
    <3>0. UNCHANGED slotVars /\ UNCHANGED <<ready, on>> /\ UNCHANGED ioVars
      BY <2>1 DEF WakeCheck
    <3>1. /\ pc' = [pc EXCEPT ![t] = pc'[t]]
          /\ pc'[t] \in {"setReady", AfterWake(t)}
      <4>1. CASE st[cur[t]] = "Blocked"  BY SMTT(60), <2>1, <4>1 DEF WakeCheck
      <4>2. CASE st[cur[t]] # "Blocked"  BY <2>1, <4>2 DEF WakeCheck
      <4> QED  BY <4>1, <4>2
    <3>2. cur' = cur \/ cur' = [cur EXCEPT ![t] = NoSlot]
      BY <2>1 DEF WakeCheck
    <3>3. LabelType'
      <4>1. back' = back /\ \A u \in Thread \ {t} : pc'[u] = pc[u]
        BY <3>0, <3>1
      <4>2. /\ t \in Worker => pc'[t] \in WorkerLabel
            /\ t \notin Worker => pc'[t] \in OtherLabel
        BY <3>1 DEF AfterWake
      <4>3. pc' \in [Thread -> WorkerLabel \cup OtherLabel]
        <5>1. pc'[t] \in WorkerLabel \cup OtherLabel
          BY <4>2
        <5> QED  BY <3>1, <5>1
      <4>4. \A w \in Worker : pc'[w] \in WorkerLabel
        <5> SUFFICES ASSUME NEW w \in Worker PROVE pc'[w] \in WorkerLabel
          OBVIOUS
        <5>1. CASE w = t  BY <4>2, <5>1
        <5>2. CASE w # t  BY <4>1, <5>2
        <5> QED  BY <5>1, <5>2
      <4>5. \A u \in Thread \ Worker : pc'[u] \in OtherLabel
        <5> SUFFICES ASSUME NEW u \in Thread \ Worker PROVE pc'[u] \in OtherLabel
          OBVIOUS
        <5>1. CASE u = t  BY <4>2, <5>1
        <5>2. CASE u # t  BY <4>1, <5>2
        <5> QED  BY <5>1, <5>2
      <4> QED  BY SMTT(60), <4>1, <4>3, <4>4, <4>5
    <3>4. HandType'
      BY SMTT(60), <3>0, <3>2
    <3>5. SlotType' /\ RingType'
      BY SMTT(60), <3>0
    <3> QED  BY <3>3, <3>4, <3>5
  <2>2. CASE SetReady(t)  BY ZenonT(60), <2>2 DEF SetReady
  <2>3. CASE Push(t)
    <3>1. cur[t] \in Slot /\ ready[cur[t]] \in Nat
      BY <1>0, <2>3 DEF Push, HoldLabel
    <3> QED  BY <2>3, <3>1 DEF Push, AfterWake
  <2> QED  BY <1>2, <2>1, <2>2, <2>3 DEF Wake
<1>3. ASSUME NEW w \in Worker, Reap(w)
      PROVE  TypeOK'
  <2>1. CASE Poll(w)
    BY SMTT(60), <2>1, CardType DEF Poll
  <2>2. CASE WaitIo(w)  BY SMTT(60), <2>2 DEF WaitIo
  <2>3. CASE Drain(w)
    BY SMTT(60), <2>3, CardType DEF Drain, Drained
  <2>4. CASE Complete(w)  BY SMTT(60), <2>4 DEF Complete
  <2>5. CASE PollDone(w)  BY SMTT(60), <2>5 DEF PollDone
  <2> QED  BY ZenonT(60), <1>3, <2>1, <2>2, <2>3, <2>4, <2>5 DEF Reap
<1>4. ASSUME NEW w \in Worker, Take(w)
      PROVE  TypeOK'
  <2>1. CASE PopNone(w)  BY SMTT(60), <2>1 DEF PopNone
  <2>2. ASSUME NEW g \in Slot, Pop(w, g)
        PROVE  TypeOK'
    <3>1. ready[g] \in Nat /\ ready[g] # 0
      BY <2>2 DEF Pop
    <3>2. ready' \in [Slot -> Nat]
      <4> HIDE DEF LabelType, HandType, RingType
      <4>1. ready[g] - 1 \in Nat
        BY <3>1
      <4>2. ready' = [ready EXCEPT ![g] = ready[g] - 1] /\ ready \in [Slot -> Nat]
        BY SMTT(60), <2>2 DEF Pop
      <4> QED  BY <4>1, <4>2
    <3> QED  BY SMTT(60), <2>2, <3>2 DEF Pop
  <2> QED  BY SMTT(60), <1>4, <2>1, <2>2 DEF Take
<1>5. ASSUME NEW w \in Worker, User(w)
      PROVE  TypeOK'
  <2>0. on[w] \in Slot /\ ready[on[w]] \in Nat
    BY SMTT(60), <1>0, <1>5 DEF User, Yield, Finish, Submit, Refuse, HoldLabel, RunLabel
  <2>1. CASE Yield(w)  BY ZenonT(60), <2>1 DEF Yield
  <2>2. CASE Finish(w)  BY ZenonT(60), <2>2 DEF Finish
  <2>3. CASE Submit(w)  BY <2>3, <2>0 DEF Submit
  <2>4. CASE Refuse(w)
    <3>1. st' \in [Slot -> State] /\ ready' \in [Slot -> Nat]
      <4>1. CASE st[on[w]] = "Blocked"
        BY SMTT(60), <2>4, <2>0, <4>1 DEF Refuse
      <4>2. CASE st[on[w]] # "Blocked"
        BY SMTT(60), <2>4, <2>0, <4>2 DEF Refuse
      <4> QED  BY <4>1, <4>2
    <3>2. missed' \subseteq Slot
      BY SMTT(60), <2>4, <2>0 DEF Refuse
    <3> QED  BY ZenonT(60), <2>4, <3>1, <3>2 DEF Refuse
  <2> QED  BY ZenonT(60), <1>5, <2>1, <2>2, <2>3, <2>4 DEF User
<1>6. ASSUME NEW w \in Worker, Run(w)
      PROVE  TypeOK'
  <2>1. CASE SetRunning(w)  BY ZenonT(60), <2>1 DEF SetRunning
  <2>2. CASE SwitchIn(w)  BY ZenonT(60), <2>2 DEF SwitchIn
  <2>3. CASE Block(w)  BY ZenonT(60), <2>3 DEF Block
  <2>4. CASE SwitchOut(w)  BY ZenonT(60), <2>4 DEF SwitchOut
  <2>5. CASE Return(w)  BY <2>5 DEF Return
  <2>6. CASE Requeue(w)
    <3>1. cur[w] \in Slot /\ ready[cur[w]] \in Nat
      BY SMTT(60), <1>0, <2>6 DEF Requeue, HoldLabel
    <3> QED  BY <2>6, <3>1 DEF Requeue
  <2>7. CASE MarkFinished(w)  BY ZenonT(60), <2>7 DEF MarkFinished
  <2>8. CASE Deactivate(w)  BY ZenonT(60), <2>8 DEF Deactivate
  <2>9. CASE Release(w)  BY <1>0, <2>9 DEF Release, HoldLabel
  <2>10. CASE StopRunning(w)  BY SMTT(60), <2>10 DEF StopRunning
  <2> QED
    BY ZenonT(60), <1>6, <2>1, <2>2, <2>3, <2>4, <2>5, <2>6, <2>7, <2>8, <2>9, <2>10 DEF Run
<1>7. ASSUME NEW w \in Worker, NEW g \in Slot, KernelDone(w, g)
      PROVE  TypeOK'
  BY SMTT(60), <1>7 DEF KernelDone
<1>8. CASE UNCHANGED vars
  BY <1>8 DEF vars
<1> QED  BY ZenonT(60), <1>1, <1>2, <1>3, <1>4, <1>5, <1>6, <1>7, <1>8 DEF Next

----------------------------------------------------------------------------
\* The initial state satisfies the inductive invariant.
LEMMA InitIInv == Init => IInv({})
<1> SUFFICES ASSUME Init
             PROVE  IInv({})
  OBVIOUS
<1>1. TypeOK
  BY SMTT(60), InitTyped
<1>p. \A t \in Thread : pc[t] \in {"poll", "off", "idle"}
  BY DEF Init
<1>2. OnePlace
  BY SMTT(60), <1>p, SchedulerAssumption
     DEF Init, OnePlace, QueuedApart, FreeApart, HeldApart, RingApart, Holds,
         InRing, HoldLabel, Thread
<1>3. Shape
  BY <1>p, SchedulerAssumption
     DEF Init, Shape, AtLabel, AtWorker, RingOnce, RunState, RingState,
         Resumable, Holds, InRing, HoldLabel, RunLabel, SavedLabel,
         AnswerLabel, Thread
<1>4. Kept({})
  BY <1>p, SchedulerAssumption
     DEF Init, Kept, Found, KeptAt, Pending, InRing, Thread
<1> QED  BY <1>1, <1>2, <1>3, <1>4 DEF IInv, Inner

\* A local step on a slot nobody else has to do with keeps the invariant, if
\* it holds of the thread and of the slot.  R are the sleepers after the step.
LEMMA Frame ==
  ASSUME NEW S \in SUBSET Slot, NEW R \in SUBSET Slot, IInv(S), TypeOK',
         NEW t \in Thread, NEW c \in Slot \cup {NoSlot}, R \ {c} = S \ {c},
         Local(t, c), Mine(t, c), c \in R => Sleeper(c)',
         c \in Slot => Here(t, c)', AtLabel(t)', t \in Worker => AtWorker(t)'
  PROVE  OnePlace' /\ Shape' /\ \A g \in R : Sleeper(g)'
<1>1. \A u \in Thread \ {t}, g \in Slot : Holds(u, g)' <=> Holds(u, g)
  <2>1. \A u \in Thread \ {t} : pc'[u] = pc[u] /\ cur'[u] = cur[u]
    BY ZenonT(60) DEF Local
  <2> QED  BY ZenonT(60), <2>1 DEF Holds
<1>2. \A w \in Worker \ {t}, g \in Slot : InRing(w, g)' <=> InRing(w, g)
  <2>1. \A w \in Worker \ {t} :
          sq'[w] = sq[w] /\ kernel'[w] = kernel[w] /\ cq'[w] = cq[w] /\ buf'[w] = buf[w]
    BY ZenonT(60) DEF Local
  <2> QED  BY ZenonT(60), <2>1 DEF InRing
<1>3. \A g \in Slot \ {c} : 
        /\ Holds(t, g)' <=> Holds(t, g)
        /\ t \in Worker => (InRing(t, g)' => InRing(t, g))
        /\ ready'[g] = ready[g] /\ (g \in free' => g \in free)
        /\ ctx'[g] = ctx[g] /\ awaits'[g] = awaits[g] /\ result'[g] = result[g]
  BY DEF Local
<1>4. free' \subseteq Slot
  BY SMTT(60) DEF TypeOK, SlotType
<1>5. QueuedApart'
  <2> SUFFICES ASSUME NEW g \in Slot, ready'[g] # 0
               PROVE  /\ ready'[g] = 1 /\ g \notin free'
                      /\ \A u \in Thread : ~Holds(u, g)'
                      /\ \A w \in Worker : ~InRing(w, g)'
    BY ZenonT(60) DEF QueuedApart
  <2>1. CASE g = c
    BY ZenonT(60), <1>1, <1>2, <2>1 DEF Mine, Here, Thread
  <2>2. CASE g # c
    BY ZenonT(60), <1>1, <1>2, <1>3, <2>2 DEF IInv, Inner, OnePlace, QueuedApart, Thread
  <2> QED  BY <2>1, <2>2
<1>6. FreeApart'
  BY ZenonT(60), <1>1, <1>2, <1>3, <1>4 DEF IInv, Inner, OnePlace, FreeApart, Mine, Here, Thread
<1>7. HeldApart'
  <2> SUFFICES ASSUME NEW u \in Thread, NEW v \in Thread, NEW g \in Slot,
                      Holds(u, g)', Holds(v, g)'
               PROVE  u = v
    BY Zenon DEF HeldApart
  <2>1. g # c => Holds(u, g) /\ Holds(v, g)
    BY Zenon, <1>1, <1>3
  <2>2. g = c => u = t /\ v = t
    BY Zenon, <1>1 DEF Mine
  <2> QED  BY Zenon, <2>1, <2>2 DEF IInv, Inner, OnePlace, HeldApart
<1>8. RingApart'
  <2> SUFFICES ASSUME NEW w \in Worker, NEW g \in Slot, InRing(w, g)'
               PROVE  /\ \A v \in Worker : InRing(v, g)' => v = w
                      /\ \A u \in Thread : Holds(u, g)' => u = w
    BY Zenon DEF RingApart
  <2>1. CASE g # c
    <3>1. InRing(w, g) /\ \A v \in Worker : InRing(v, g)' => InRing(v, g)
      BY ZenonT(60), <1>2, <1>3, <2>1
    <3>2. \A u \in Thread : Holds(u, g)' => Holds(u, g)
      BY ZenonT(60), <1>1, <1>3, <2>1
    <3> QED  BY ZenonT(60), <3>1, <3>2 DEF IInv, Inner, OnePlace, RingApart
  <2>2. CASE g = c
    <3>1. \A v \in Worker : InRing(v, g)' => v = t
      BY ZenonT(60), <1>2, <2>2 DEF Mine
    <3>2. \A u \in Thread : Holds(u, g)' => u = t
      BY ZenonT(60), <1>1, <2>2 DEF Mine
    <3> QED  BY Zenon, <3>1, <3>2
  <2> QED  BY Zenon, <2>1, <2>2
<1>9. ASSUME NEW u \in Thread
      PROVE  AtLabel(u)'
  <2>1. CASE u = t
    BY SMTT(60), <2>1
  <2>2. CASE u # t
    <3>1. AtLabel(u) /\ pc'[u] = pc[u] /\ cur'[u] = cur[u]
      BY ZenonT(60), <2>2 DEF IInv, Inner, Shape, Local
    <3>2. pc[u] \in HoldLabel => cur[u] \in Slot \ {c}
      BY SMTT(60), <2>2, <3>1 DEF AtLabel, Mine, Holds
    <3>3. pc[u] \in HoldLabel =>
            /\ ctx'[cur[u]] = ctx[cur[u]] /\ awaits'[cur[u]] = awaits[cur[u]]
            /\ result'[cur[u]] = result[cur[u]]
      BY ZenonT(60), <1>3, <3>2
    <3>4. SavedLabel \subseteq HoldLabel /\ AnswerLabel \subseteq HoldLabel
      BY DEF SavedLabel, AnswerLabel, HoldLabel
    <3> QED  BY ZenonT(60), <3>1, <3>2, <3>3, <3>4 DEF AtLabel
  <2> QED  BY <2>1, <2>2
<1>10. ASSUME NEW w \in Worker
       PROVE  AtWorker(w)'
  <2>1. CASE w = t
    BY <2>1
  <2>2. CASE w # t
    <3>1. /\ AtWorker(w) /\ w \in Thread
          /\ pc'[w] = pc[w] /\ cur'[w] = cur[w] /\ on'[w] = on[w]
          /\ sq'[w] = sq[w] /\ kernel'[w] = kernel[w]
          /\ cq'[w] = cq[w] /\ buf'[w] = buf[w]
      BY ZenonT(60), <2>2 DEF IInv, Inner, Shape, Local, Thread
    <3>2. pc[w] \in HoldLabel => cur[w] \in Slot \ {c}
      BY ZenonT(60), <2>2, <3>1 DEF IInv, Inner, Shape, AtLabel, Mine, Holds
    <3>3. pc[w] \in HoldLabel =>
            st'[cur[w]] = st[cur[w]] /\ awaits'[cur[w]] = awaits[cur[w]]
      BY ZenonT(60), <3>2 DEF Local
    <3>4. RingOnce(w)'
      BY ZenonT(60), <3>1 DEF AtWorker, RingOnce
    <3>5. RunState(w)'
      BY ZenonT(60), <3>1, <3>3 DEF AtWorker, RunState, RunLabel, HoldLabel
    <3>6. RingState(w)'
      BY ZenonT(60), <3>1, <3>3 DEF AtWorker, RingState, InRing
    <3> QED  BY SMTT(60), <3>4, <3>5, <3>6 DEF AtWorker
  <2> QED  BY <2>1, <2>2
<1>11. \A g \in Slot : Resumable(g)'
  BY ZenonT(60), <1>1, <1>2, <1>3 DEF IInv, Inner, Shape, Resumable, Mine, Here, Thread
<1>12. ASSUME NEW g \in R
       PROVE  Sleeper(g)'
  <2>1. CASE g = c
    BY <2>1
  <2>2. CASE g # c
    <3>1. g \in S /\ g \in Slot \ {c} /\ Sleeper(g)
      BY <2>2 DEF IInv, Inner
    <3>2. /\ g \notin free' /\ ready'[g] = 0 /\ ~awaits'[g]
          /\ st'[g] = st[g] /\ ctx'[g] = ctx[g]
      BY ZenonT(60), <3>1 DEF Local, Sleeper
    <3>3. \A w \in Worker : ~InRing(w, g)'
      BY ZenonT(60), <1>2, <1>3, <3>1 DEF Sleeper
    <3>4. \A u \in Thread : (Holds(u, g)' <=> Holds(u, g)) /\ (Holds(u, g) => pc'[u] = pc[u])
      BY ZenonT(60), <1>1, <3>1 DEF Local
    <3> QED  BY ZenonT(60), <3>1, <3>2, <3>3, <3>4 DEF Sleeper
  <2> QED  BY <2>1, <2>2
<1> QED
  BY SMTT(60), <1>5, <1>6, <1>7, <1>8, <1>9, <1>10, <1>11, <1>12 DEF OnePlace, Shape

\* The same for what NoneStranded needs.
LEMMA FrameKeeps ==
  ASSUME NEW S \in SUBSET Slot, NEW R \in SUBSET Slot, IInv(S), Kept(S),
         NEW t \in Thread, NEW c \in Slot \cup {NoSlot}, R \ {c} = S \ {c},
         Local(t, c), Mine(t, c), KeepsOthers(t, c),
         c \in Slot => KeptHere(t, c, R)', KeptAt(t, R)'
  PROVE  Kept(R)'
<1>1. \A u \in Thread \ {t}, g \in Slot : Holds(u, g)' <=> Holds(u, g)
  BY ZenonT(60) DEF Local, Holds
<1>2. \A w \in Worker \ {t}, g \in Slot : InRing(w, g)' <=> InRing(w, g)
  BY ZenonT(60) DEF Local, InRing
<1>3. \A g \in Slot \ {c} :
        /\ Holds(t, g)' <=> Holds(t, g)
        /\ t \in Worker => /\ InRing(t, g)' => InRing(t, g)
                           /\ InRing(t, g) => InRing(t, g)' \/ g \in missed'
        /\ ready'[g] = ready[g] /\ (g \in free => g \in free') /\ st'[g] = st[g]
  BY Zenon DEF Local, KeepsOthers
<1>m. missed \subseteq missed'
  BY Zenon DEF KeepsOthers
<1>4. ASSUME NEW g \in Slot
      PROVE  Found(g, R)'
  <2>1. CASE g = c
    BY ZenonT(60), <2>1 DEF KeptHere, Found
  <2>2. CASE g # c
    <3>1. Found(g, S) /\ (g \in S <=> g \in R)
      BY <2>2 DEF Kept
    <3> QED  BY ZenonT(60), <1>1, <1>2, <1>3, <1>m, <2>2, <3>1 DEF Found, Thread
  <2> QED  BY <2>1, <2>2
<1>5. ASSUME NEW u \in Thread
      PROVE  KeptAt(u, R)'
  <2>1. CASE u = t
    BY SMTT(60), <2>1
  <2>2. CASE u # t
    <3>1. /\ KeptAt(u, S) /\ pc'[u] = pc[u] /\ cur'[u] = cur[u]
          /\ u \in Worker => /\ sq'[u] = sq[u] /\ kernel'[u] = kernel[u]
                             /\ cq'[u] = cq[u] /\ buf'[u] = buf[u]
      BY ZenonT(60), <2>2 DEF Kept, Local
    <3>2. pc[u] \in HoldLabel => cur[u] \in Slot \ {c} /\ st'[cur[u]] = st[cur[u]]
      BY ZenonT(60), <2>2 DEF IInv, Inner, Shape, AtLabel, Mine, Holds, Local
    <3>3. pc[u] \in HoldLabel => (cur[u] \in S <=> cur[u] \in R)
      BY <3>2
    <3> QED  BY ZenonT(60), <1>m, <3>1, <3>2, <3>3 DEF KeptAt, HoldLabel, InRing
  <2> QED  BY <2>1, <2>2
<1>6. \A g \in Slot : Pending(g)'
  BY ZenonT(60), <1>1, <1>2, <1>3 DEF Kept, Pending, Mine, KeptHere, Thread
<1> QED  BY SMTT(60), <1>4, <1>5, <1>6 DEF Kept

\* Both together; R are the sleepers after the step,
LEMMA FrameInner ==
  ASSUME NEW S \in SUBSET Slot, NEW R \in SUBSET Slot, IInv(S), TypeOK',
         NEW t \in Thread, NEW c \in Slot \cup {NoSlot}, R \ {c} = S \ {c},
         Local(t, c), Mine(t, c), c \in R => Sleeper(c)',
         c \in Slot => Here(t, c)', AtLabel(t)', t \in Worker => AtWorker(t)',
         KeepsOthers(t, c), KeptAt(t, R)', c \in Slot => KeptHere(t, c, R)'
  PROVE  Inner(R)'
<1>1. OnePlace' /\ Shape' /\ \A g \in R : Sleeper(g)'
  BY Frame
<1>2. Kept(R)'
  BY FrameKeeps DEF IInv, Inner
<1> QED  BY <1>1, <1>2 DEF Inner

\* and when they are the same.
LEMMA FrameSame ==
  ASSUME NEW S \in SUBSET Slot, IInv(S), TypeOK',
         NEW t \in Thread, NEW c \in Slot \cup {NoSlot},
         Local(t, c), Mine(t, c), c \in S => Sleeper(c)',
         c \in Slot => Here(t, c)', AtLabel(t)', t \in Worker => AtWorker(t)',
         KeepsOthers(t, c), KeptAt(t, S)', c \in Slot => KeptHere(t, c, S)'
  PROVE  Inner(S)'
BY FrameInner

\* Nobody else has to do with a slot that is held, and it is neither queued
\* nor free.
LEMMA HolderOwns ==
  ASSUME NEW S \in SUBSET Slot, IInv(S), NEW t \in Thread, NEW c \in Slot, Holds(t, c)
  PROVE  Mine(t, c) /\ ready[c] = 0 /\ c \notin free
<1>1. Mine(t, c)
  BY DEF IInv, Inner, OnePlace, HeldApart, RingApart, Mine
<1>2. ready[c] = 0 /\ c \notin free
  BY DEF IInv, Inner, TypeOK, SlotType, OnePlace, QueuedApart, FreeApart
<1> QED  BY <1>1, <1>2

\* The steps of spawn keep the invariant.
LEMMA SpawnKeeps ==
  ASSUME NEW S \in SUBSET Slot, IInv(S), TypeOK', NEW t \in Spawner, Spawn(t)
  PROVE  Inner(S)'
<1>0. t \in Thread /\ t \notin Worker /\ TypeOK
  BY SMTT(60), SchedulerAssumption DEF Thread, IInv, Inner
<1> USE DEF Goto, slotVars, ioVars
<1>1. CASE Allocate(t)
  <2>1. PICK g \in free : free' = free \ {g} /\ cur' = [cur EXCEPT ![t] = g]
    BY ZenonT(60), <1>1 DEF Allocate
  <2>2. /\ g \in Slot /\ pc[t] = "idle"
        /\ pc' = [pc EXCEPT ![t] = "activate"]
        /\ UNCHANGED <<st, gen, ctx, ready, on, ioVars>>
        /\ cur'[t] = g /\ pc'[t] = "activate"
    BY <1>0, <1>1, <2>1 DEF Allocate, TypeOK, SlotType, LabelType, HandType
  <2>3. Local(t, g)
    BY ZenonT(60), <1>0, <2>1, <2>2 DEF Local, Holds, HoldLabel, TypeOK, LabelType, HandType
  <2>4. Mine(t, g) /\ ready[g] = 0
    BY SMTT(60), <2>1, <2>2 DEF Mine, IInv, Inner, OnePlace, FreeApart, QueuedApart, TypeOK, SlotType
  <2>s. g \notin S
    BY <2>1 DEF IInv, Inner, Sleeper
  <2>5. Here(t, g)'
    <3>1. ready'[g] = 0 /\ g \notin free'
      BY <2>1, <2>2, <2>4
    <3> QED  BY ZenonT(60), <1>0, <3>1 DEF Here
  <2>6. AtLabel(t)'
    BY <2>2 DEF AtLabel, SavedLabel, AnswerLabel
  <2>7. KeepsOthers(t, g)
    BY SMTT(60), <1>0, <2>1, <2>2 DEF KeepsOthers
  <2>8. KeptHere(t, g, S)'
    BY SMTT(60), <1>0, <2>2 DEF KeptHere, Holds, HoldLabel
  <2>9. KeptAt(t, S)'
    BY ZenonT(60), <1>0, <2>2 DEF KeptAt
  <2> QED
    BY ZenonT(60), <1>0, <2>2, <2>3, <2>4, <2>5, <2>6, <2>7, <2>8, <2>9, <2>s, FrameSame
<1>2. CASE Activate(t) \/ InitContext(t)
  <2>1. PICK c \in Slot : c = cur[t] /\ Holds(t, c)
    BY <1>0, <1>2 DEF Activate, InitContext, Holds, HoldLabel, IInv, Inner, Shape, AtLabel
  <2>2. Mine(t, c) /\ ready[c] = 0 /\ c \notin free
    BY <1>0, <2>1, HolderOwns
  <2>s. c \notin S
    BY <1>0, <2>1 DEF IInv, Inner, Sleeper
  <2>3. UNCHANGED <<free, ready, cur, on, sq, kernel, cq, buf, result, missed>>
    BY SMTT(60), <1>2 DEF Activate, InitContext
  <2>4. Holds(t, c)' /\ Local(t, c)
    <3> USE <1>0, <2>1, DomainsOK DEF Domains, Activate, InitContext
    <3>1. pc'[t] \in HoldLabel /\ \A u \in Thread \ {t} : pc'[u] = pc[u]
      BY ZenonT(60), <1>2 DEF HoldLabel
    <3>2. \A g \in Slot \ {c} : st'[g] = st[g] /\ ctx'[g] = ctx[g]
                               /\ awaits'[g] = awaits[g]
      BY ZenonT(60), <1>2
    <3> QED  BY ZenonT(60), <2>3, <3>1, <3>2 DEF Local, Holds
  <2>5. Here(t, c)'
    <3>1. ready'[c] = 0 /\ c \notin free'
      BY SMTT(60), <2>2, <2>3
    <3> QED  BY <1>0, <3>1 DEF Here
  <2>6. AtLabel(t)'
    <3>1. AtLabel(t) /\ cur'[t] = c /\ result'[c] = result[c]
      BY ZenonT(60), <1>0, <2>1, <2>3 DEF IInv, Inner, Shape
    <3>2. \/ pc'[t] = "context" /\ ~awaits'[c]
          \/ /\ pc[t] = "context" /\ pc'[t] = "setReady"
             /\ ctx'[c] = "saved" /\ awaits'[c] = awaits[c]
      BY <1>0, <1>2, <2>1, DomainsOK DEF Domains, Activate, InitContext
    <3> QED  BY ZenonT(60), <2>1, <3>1, <3>2 DEF AtLabel, SavedLabel, AnswerLabel
  <2>7. KeepsOthers(t, c)
    BY SMTT(60), <1>0, <2>3 DEF KeepsOthers
  <2>8. KeptHere(t, c, S)'
    BY SMTT(60), <1>0, <2>4 DEF KeptHere
  <2>9. KeptAt(t, S)'
    BY ZenonT(60), <1>0, <1>2 DEF Activate, InitContext, KeptAt, TypeOK, LabelType
  <2> QED
    BY ZenonT(60), <1>0, <2>1, <2>2, <2>4, <2>5, <2>6, <2>7, <2>8, <2>9, <2>s, FrameSame
<1> QED  BY <1>1, <1>2, Spawn(t) DEF Spawn

\* The steps of wake_gvthread keep the invariant.
LEMMA WakeKeeps ==
  ASSUME NEW S \in SUBSET Slot, IInv(S), TypeOK', NEW t \in Thread, Wake(t)
  PROVE  Inner(S)'
<1> USE DEF Goto, slotVars, ioVars
<1>0. TypeOK
  BY DEF IInv, Inner
<1>k. KeptAt(t, S)
  BY SMTT(60) DEF IInv, Inner, Kept
<1>1. PICK c \in Slot : c = cur[t] /\ Holds(t, c) /\ pc[t] \in WakeLabel
  BY DEF Wake, WakeCheck, SetReady, Push, Holds, HoldLabel, WakeLabel, IInv, Inner, Shape, AtLabel
<1>2. Mine(t, c) /\ ready[c] = 0 /\ c \notin free
  BY SMTT(60), <1>1, HolderOwns
<1>s. c \notin S
  BY <1>1 DEF IInv, Inner, Sleeper, WakeLabel
<1>3. /\ ctx[c] = "saved" /\ (awaits[c] => result[c])
      /\ t \in Worker => ~InRing(t, c) /\ AtWorker(t)
  BY ZenonT(60), <1>1 DEF IInv, Inner, Shape, AtLabel, AtWorker, RingState, WakeLabel, SavedLabel,
              AnswerLabel, Holds
<1>4. /\ UNCHANGED <<free, gen, ctx, on, awaits, result, sq, kernel, cq, buf, missed>>
      /\ \A u \in Thread \ {t} : pc'[u] = pc[u] /\ cur'[u] = cur[u]
      /\ \A g \in Slot \ {c} : st'[g] = st[g] /\ ready'[g] = ready[g]
      /\ \/ pc'[t] \in {"setReady", "push"} /\ cur'[t] = c /\ ready'[c] = 0
         \/ pc'[t] \in {"pick", "idle"} /\ cur'[t] = NoSlot /\ ready'[c] \in {0, 1}
  <2> USE <1>0, <1>1, <1>2, DomainsOK DEF Domains
  <2>1. CASE WakeCheck(t)
    <3>1. CASE st[cur[t]] = "Blocked"  BY ZenonT(60), <2>1, <3>1 DEF WakeCheck
    <3>2. CASE st[cur[t]] # "Blocked"  BY ZenonT(60), <2>1, <3>2 DEF WakeCheck, AfterWake
    <3> QED  BY ZenonT(60), <3>1, <3>2
  <2>2. CASE SetReady(t)  BY ZenonT(60), <2>2 DEF SetReady
  <2>3. CASE Push(t)  BY ZenonT(60), <2>3, OneMore DEF Push, AfterWake
  <2> QED  BY ZenonT(60), <2>1, <2>2, <2>3 DEF Wake
<1>5. Local(t, c)
  <2>1. \A g \in Slot \ {c} : ~Holds(t, g)' /\ ~Holds(t, g)
    BY ZenonT(60), <1>1, <1>4, SchedulerAssumption DEF Holds
  <2>2. \A g \in Slot : t \in Worker => (InRing(t, g)' => InRing(t, g))
    BY ZenonT(60), <1>4 DEF InRing
  <2> QED  BY ZenonT(60), <1>4, <2>1, <2>2 DEF Local
<1>6. Here(t, c)'
  <2>1. /\ c \notin free' /\ ctx'[c] = "saved" /\ (awaits'[c] => result'[c])
        /\ t \in Worker => ~InRing(t, c)'
    BY ZenonT(60), <1>2, <1>3, <1>4 DEF InRing
  <2>2. ready'[c] # 0 => ready'[c] = 1 /\ ~Holds(t, c)'
    BY ZenonT(60), <1>4, SchedulerAssumption DEF Holds
  <2> QED  BY ZenonT(60), <2>1, <2>2 DEF Here
<1>7. AtLabel(t)'
  BY ZenonT(60), <1>1, <1>3, <1>4 DEF AtLabel, HoldLabel, SavedLabel, AnswerLabel
<1>8. ASSUME t \in Worker
      PROVE  AtWorker(t)'
  BY ZenonT(60), <1>1, <1>3, <1>4, <1>8
     DEF AtWorker, RingOnce, RunState, RingState, RunLabel, WakeLabel, HoldLabel, InRing
<1>9. KeepsOthers(t, c) /\ KeptHere(t, c, S)' /\ KeptAt(t, S)'
  <2>1. pc'[t] \in {"pick", "idle"} => ready'[c] # 0
    <3>1. CASE WakeCheck(t)
      BY ZenonT(60), <1>0, <1>k, <1>1, <3>1 DEF WakeCheck, KeptAt, TypeOK, LabelType
    <3>2. CASE SetReady(t)
      BY <1>0, <3>2 DEF SetReady, TypeOK, LabelType
    <3>3. CASE Push(t)
      <4>1. ready' = [ready EXCEPT ![c] = ready[c] + 1] /\ ready \in [Slot -> Nat]
        BY SMTT(60), <1>0, <1>1, <3>3 DEF Push, TypeOK, SlotType
      <4> QED  BY SMTT(60), <1>2, <4>1
    <3> QED  BY SMTT(60), <3>1, <3>2, <3>3 DEF Wake
  <2>2. KeptAt(t, S)'
    BY ZenonT(60), <1>0, <1>k, <1>1, <1>4
       DEF KeptAt, Wake, WakeCheck, SetReady, Push, AfterWake, WakeLabel,
           TypeOK, LabelType
  <2>3. KeepsOthers(t, c)
    BY ZenonT(60), <1>4 DEF KeepsOthers, InRing
  <2>4. t \in Worker => ~InRing(t, c)'
    BY ZenonT(60), <1>3, <1>4 DEF InRing
  <2>5. KeptHere(t, c, S)'
    BY ZenonT(60), <1>4, <2>1, <2>4 DEF KeptHere, Holds, HoldLabel
  <2> QED  BY <2>2, <2>3, <2>5
<1> QED
  BY ZenonT(60), <1>1, <1>2, <1>5, <1>6, <1>7, <1>8, <1>9, <1>s, FrameSame

\* Nobody holds the slot that is none.
LEMMA NoneMine ==
  ASSUME NEW S \in SUBSET Slot, IInv(S), NEW t \in Thread
  PROVE  Mine(t, NoSlot)
BY SchedulerAssumption
   DEF Mine, Holds, InRing, IInv, Inner, Shape, AtLabel, TypeOK, RingType, Thread

\* The steps of poll and wait_and_poll, and the kernel's, keep the invariant.
LEMMA ReapKeeps ==
  ASSUME NEW S \in SUBSET Slot, IInv(S), TypeOK', NEW w \in Worker,
         Reap(w) \/ \E g \in Slot : KernelDone(w, g)
  PROVE  Inner(S)'
<1> USE DEF Goto, slotVars, ioVars
<1>0. w \in Thread /\ AtWorker(w) /\ AtLabel(w) /\ TypeOK
  BY DEF Thread, IInv, Inner, Shape
<1>k. KeptAt(w, S)
  BY SMTT(60), <1>0 DEF IInv, Inner, Kept
<1>1. CASE Complete(w)
  <2>1. PICK g \in buf[w] : /\ buf' = [buf EXCEPT ![w] = @ \ {g}]
                           /\ result' = [result EXCEPT ![g] = TRUE]
                           /\ cur' = [cur EXCEPT ![w] = g]
    BY ZenonT(60), <1>1 DEF Complete
  <2>2. /\ g \in Slot /\ pc[w] = "pick" /\ pc' = [pc EXCEPT ![w] = "check"]
        /\ UNCHANGED <<free, st, gen, ctx, awaits, ready, on, sq, kernel, cq, missed>>
        /\ cur'[w] = g /\ pc'[w] = "check" /\ result'[g] = TRUE
        /\ buf'[w] = buf[w] \ {g}
    BY ZenonT(60), <1>0, <1>1, <2>1
       DEF Complete, TypeOK, LabelType, HandType, RingType
  <2>3. InRing(w, g) /\ ~Holds(w, g) /\ ~InRing(w, g)'
    BY ZenonT(60), <1>0, <2>1, <2>2 DEF InRing, Holds, HoldLabel, AtWorker, RingOnce
  <2>4. Mine(w, g) /\ ready[g] = 0 /\ g \notin free /\ ctx[g] = "saved"
    <3>1. Mine(w, g)
      BY ZenonT(60), <1>0, <2>2, <2>3 DEF Mine, IInv, Inner, OnePlace, RingApart
    <3>2. ready[g] = 0
      BY ZenonT(60), <2>2, <2>3 DEF IInv, Inner, OnePlace, QueuedApart
    <3>3. g \notin free
      BY ZenonT(60), <2>2, <2>3 DEF IInv, Inner, OnePlace, FreeApart
    <3>4. ctx[g] = "saved"
      BY ZenonT(60), <2>2, <2>3 DEF IInv, Inner, Shape, Resumable
    <3> QED  BY SMTT(60), <3>1, <3>2, <3>3, <3>4
  <2>s. g \notin S
    BY <2>3 DEF IInv, Inner, Sleeper
  <2>5. Local(w, g)
    <3>1. /\ \A u \in Thread \ {w} : pc'[u] = pc[u] /\ cur'[u] = cur[u]
          /\ \A v \in Worker \ {w} : buf'[v] = buf[v]
          /\ \A h \in Slot \ {g} : result'[h] = result[h]
      BY ZenonT(60), <1>0, <2>1, <2>2, DomainsOK DEF Domains
    <3>2. \A h \in Slot \ {g} : InRing(w, h)' => InRing(w, h)
      BY SMTT(60), <2>2 DEF InRing
    <3>3. \A h \in Slot \ {g} : ~Holds(w, h)' /\ ~Holds(w, h)
      BY SMTT(60), <2>2 DEF Holds, HoldLabel
    <3> QED  BY ZenonT(60), <2>2, <3>1, <3>2, <3>3 DEF Local
  <2>6. Here(w, g)'
    <3>1. ready'[g] = 0 /\ g \notin free' /\ ~InRing(w, g)'
      BY SMTT(60), <2>2, <2>3, <2>4
    <3> QED  BY SMTT(60), <3>1 DEF Here
  <2>7. AtLabel(w)'
    BY ZenonT(60), <2>2, <2>4 DEF AtLabel
  <2>8. AtWorker(w)'
    BY ZenonT(60), <1>0, <2>2, <2>3
       DEF AtWorker, RingOnce, RunState, RingState, RunLabel
  <2>9. KeepsOthers(w, g) /\ KeptHere(w, g, S)' /\ KeptAt(w, S)'
    <3>1. st[g] = "Blocked"
      BY ZenonT(60), <2>2, <2>3 DEF IInv, Inner, Kept, Pending
    <3>2. KeepsOthers(w, g)
      BY ZenonT(60), <2>2 DEF KeepsOthers, InRing
    <3>3. KeptHere(w, g, S)'
      BY ZenonT(60), <2>2, <2>3 DEF KeptHere, Holds, HoldLabel
    <3>4. KeptAt(w, S)'
      BY SMTT(60), <2>2, <3>1 DEF KeptAt
    <3> QED  BY ZenonT(60), <3>2, <3>3, <3>4
  <2> QED
    BY ZenonT(60), <1>0, <2>2, <2>4, <2>5, <2>6, <2>7, <2>8, <2>9, <2>s, FrameSame
<1>2. ASSUME Poll(w) \/ WaitIo(w) \/ Drain(w) \/ PollDone(w)
             \/ \E g \in Slot : KernelDone(w, g)
      PROVE  Inner(S)'
  <2>1. /\ UNCHANGED <<free, st, gen, ctx, awaits, result, ready, cur, on>>
        /\ pc' = [pc EXCEPT ![w] = pc'[w]]
        /\ \/ pc'[w] = pc[w]
           \/ /\ pc[w] \in {"poll", "waitIo", "drain", "pick"}
              /\ pc'[w] \in {"drain", "pick", "pop", "poll"}
    BY ZenonT(60), <1>0, <1>2
       DEF Poll, WaitIo, Drain, PollDone, KernelDone, TypeOK, LabelType
  <2>2. /\ sq' = [sq EXCEPT ![w] = sq'[w]]
        /\ kernel' = [kernel EXCEPT ![w] = kernel'[w]]
        /\ cq' = [cq EXCEPT ![w] = cq'[w]] /\ buf' = [buf EXCEPT ![w] = buf'[w]]
    BY ZenonT(60), <1>2
       DEF Poll, WaitIo, Drain, PollDone, KernelDone, TypeOK, RingType
  <2>3. RingOnce(w)' /\ \A g \in Slot : InRing(w, g)' => InRing(w, g)
    <3>1. CASE Poll(w)
      BY ZenonT(60), <1>0, <3>1 DEF Poll, AtWorker, RingOnce, InRing, TypeOK, RingType
    <3>2. CASE WaitIo(w) \/ PollDone(w)
      BY ZenonT(60), <1>0, <3>2 DEF WaitIo, PollDone, AtWorker, RingOnce, InRing
    <3>3. CASE Drain(w)
      <4>1. PICK taken \in SUBSET cq[w], lost \in SUBSET cq[w] :
              /\ buf' = [buf EXCEPT ![w] = taken]
              /\ cq' = [cq EXCEPT ![w] = @ \ (taken \cup lost)]
        BY ZenonT(60), <3>3 DEF Drain
      <4>2. /\ buf'[w] = taken /\ cq'[w] = cq[w] \ (taken \cup lost)
            /\ sq' = sq /\ kernel' = kernel
        BY <3>3, <4>1 DEF Drain, TypeOK, RingType
      <4> QED  BY ZenonT(60), <1>0, <4>2 DEF AtWorker, RingOnce, InRing
    <3>4. ASSUME NEW g \in Slot, KernelDone(w, g)
          PROVE  RingOnce(w)' /\ \A h \in Slot : InRing(w, h)' => InRing(w, h)
      <4>1. /\ kernel'[w] = kernel[w] \ {g} /\ cq'[w] = cq[w] \cup {g}
            /\ sq' = sq /\ buf' = buf /\ g \in kernel[w]
        BY SMTT(60), <3>4 DEF KernelDone, TypeOK, RingType
      <4> QED  BY <1>0, <4>1 DEF AtWorker, RingOnce, InRing
    <3> QED  BY SMTT(60), <1>2, <3>1, <3>2, <3>3, <3>4
  <2>4. Local(w, NoSlot)
    BY ZenonT(60), <1>0, <2>1, <2>2, <2>3
       DEF Local, Holds, HoldLabel, TypeOK, LabelType, RingType
  <2>5. AtLabel(w)'
    BY ZenonT(60), <1>0, <2>1 DEF AtLabel, HoldLabel, SavedLabel, AnswerLabel
  <2>6. RunState(w)'
    BY ZenonT(60), <1>0, <2>1 DEF AtWorker, RunState, RunLabel
  <2>7. RingState(w)'
    BY ZenonT(60), <1>0, <2>1, <2>3 DEF AtWorker, RingState, AtLabel, HoldLabel
  <2>8. KeepsOthers(w, NoSlot) /\ KeptAt(w, S)'
    <3>0. pc[w] \notin {"pick", "check", "setReady", "push"} => buf[w] = {}
      BY ZenonT(60), <1>0, <1>k DEF KeptAt
    <3>1. /\ missed \subseteq missed'
          /\ \A g \in Slot : InRing(w, g) => InRing(w, g)' \/ g \in missed'
          /\ buf'[w] # {} => pc'[w] \in {"pick", "check", "setReady", "push"}
      <4>1. CASE Poll(w)
        BY ZenonT(60), <1>0, <3>0, <4>1 DEF Poll, InRing, TypeOK, RingType, LabelType
      <4>2. CASE WaitIo(w) \/ PollDone(w)
        BY ZenonT(60), <1>0, <3>0, <4>2 DEF WaitIo, PollDone, InRing, TypeOK, LabelType
      \* What a poll does not take stays in the completion queue, but for the one
      \* completion it drops.
      <4>3. CASE Drain(w)
        <5>1. PICK taken \in SUBSET cq[w], lost \in SUBSET cq[w] :
                /\ buf' = [buf EXCEPT ![w] = taken]
                /\ cq' = [cq EXCEPT ![w] = @ \ (taken \cup lost)]
                /\ missed' = missed \cup lost
          BY ZenonT(60), <4>3 DEF Drain
        <5>2. /\ buf'[w] = taken /\ cq'[w] = cq[w] \ (taken \cup lost)
              /\ sq' = sq /\ kernel' = kernel /\ buf[w] = {} /\ pc'[w] = "pick"
          BY ZenonT(60), <1>0, <3>0, <4>3, <5>1, DomainsOK DEF Drain, Domains
        <5> QED  BY ZenonT(60), <5>1, <5>2 DEF InRing
      <4>4. ASSUME NEW g \in Slot, KernelDone(w, g)
            PROVE  /\ missed \subseteq missed'
                   /\ \A h \in Slot : InRing(w, h) => InRing(w, h)' \/ h \in missed'
                   /\ buf'[w] # {} => pc'[w] \in {"pick", "check", "setReady", "push"}
        BY <1>0, <3>0, <4>4 DEF KernelDone, InRing, TypeOK, RingType
      <4> QED  BY ZenonT(60), <1>2, <4>1, <4>2, <4>3, <4>4
    <3>3. KeptAt(w, S)'
      BY ZenonT(60), <1>0, <1>k, <2>1, <3>1 DEF KeptAt, AtLabel, HoldLabel
    <3> QED  BY ZenonT(60), <2>1, <3>1, <3>3 DEF KeepsOthers
  <2> QED
    BY SMTT(60), <1>0, <2>3, <2>4, <2>5, <2>6, <2>7, <2>8, FrameSame, NoneMine,
       SchedulerAssumption
       DEF AtWorker, IInv, Inner
<1> QED  BY <1>1, <1>2 DEF Reap

\* Popping keeps the invariant.
LEMMA TakeKeeps ==
  ASSUME NEW S \in SUBSET Slot, IInv(S), TypeOK', NEW w \in Worker, Take(w)
  PROVE  Inner(S)'
<1> USE DEF Goto, slotVars, ioVars
<1>0. w \in Thread /\ AtWorker(w) /\ AtLabel(w) /\ TypeOK
  BY DEF Thread, IInv, Inner, Shape
<1>k. KeptAt(w, S)
  BY SMTT(60), <1>0 DEF IInv, Inner, Kept
<1>1. CASE PopNone(w)
  <2>1. /\ UNCHANGED <<free, st, gen, ctx, ready, cur, on, ioVars>>
        /\ pc[w] = "pop" /\ pc' = [pc EXCEPT ![w] = pc'[w]]
        /\ pc'[w] \in {"waitIo", "poll"}
    BY ZenonT(60), <1>0, <1>1 DEF PopNone, TypeOK, LabelType
  <2>2. Local(w, NoSlot)
    BY ZenonT(60), <1>0, <2>1 DEF Local, Holds, HoldLabel, InRing, TypeOK, LabelType
  <2>3. AtLabel(w)' /\ AtWorker(w)'
    BY ZenonT(60), <1>0, <2>1
       DEF AtLabel, HoldLabel, SavedLabel, AnswerLabel, AtWorker, RingOnce,
           RunState, RunLabel, RingState
  <2>4. KeepsOthers(w, NoSlot) /\ KeptAt(w, S)'
    BY ZenonT(60), <1>0, <1>k, <2>1 DEF KeepsOthers, KeptAt, InRing
  <2> QED
    BY SMTT(60), <1>0, <2>2, <2>3, <2>4, FrameSame, NoneMine, SchedulerAssumption
       DEF IInv, Inner
<1>2. ASSUME NEW g \in Slot, Pop(w, g)
      PROVE  Inner(S)'
  <2>1. /\ UNCHANGED <<free, st, gen, ctx, on, ioVars>>
        /\ pc[w] = "pop" /\ pc' = [pc EXCEPT ![w] = "setRunning"]
        /\ cur' = [cur EXCEPT ![w] = g] /\ ready' = [ready EXCEPT ![g] = ready'[g]]
        /\ pc'[w] = "setRunning" /\ cur'[w] = g
    BY ZenonT(60), <1>0, <1>2 DEF Pop, TypeOK, SlotType, LabelType, HandType
  <2>2. /\ Mine(w, g) /\ ~InRing(w, g) /\ g \notin free /\ ready'[g] = 0
        /\ ctx[g] = "saved" /\ (awaits[g] => result[g])
    <3>1. /\ ready[g] = 1 /\ g \notin free /\ \A t \in Thread : ~Holds(t, g)
          /\ \A v \in Worker : ~InRing(v, g)
      BY SMTT(60), <1>2 DEF Pop, IInv, Inner, OnePlace, QueuedApart
    <3>2. ready'[g] = 0
      BY SMTT(60), <1>0, <1>2, <3>1 DEF Pop, TypeOK, SlotType
    <3>3. ctx[g] = "saved" /\ (awaits[g] => result[g])
      <4>1. Resumable(g)
        BY SMTT(60) DEF IInv, Inner, Shape
      <4> QED  BY ZenonT(60), <3>1, <4>1, OneMore DEF Resumable
    <3> QED  BY ZenonT(60), <3>1, <3>2, <3>3 DEF Mine
  <2>s. g \notin S
    BY <1>2 DEF IInv, Inner, Sleeper, Pop
  <2>3. Local(w, g)
    BY ZenonT(60), <1>0, <2>1
       DEF Local, Holds, HoldLabel, InRing, TypeOK, SlotType, LabelType, HandType
  <2>4. Here(w, g)'
    <3>1. ready'[g] = 0 /\ g \notin free' /\ ~InRing(w, g)'
      BY ZenonT(60), <2>1, <2>2 DEF InRing
    <3> QED  BY ZenonT(60), <3>1 DEF Here
  <2>5. AtLabel(w)' /\ AtWorker(w)'
    BY ZenonT(60), <1>0, <2>1, <2>2
       DEF AtLabel, AtWorker, RingOnce, RunState, RunLabel, RingState, InRing
  <2>6. KeepsOthers(w, g)
    BY ZenonT(60), <2>1 DEF KeepsOthers, InRing
  <2>7. KeptHere(w, g, S)'
    BY ZenonT(60), <2>1 DEF KeptHere, Holds, HoldLabel
  <2>8. KeptAt(w, S)'
    BY ZenonT(60), <1>0, <1>k, <2>1 DEF KeptAt
  <2> QED
    BY ZenonT(60), <1>0, <2>2, <2>3, <2>4, <2>5, <2>6, <2>7, <2>8, <2>s, FrameSame
<1> QED  BY <1>1, <1>2 DEF Take

\* What a GVThread does while it runs keeps the invariant.
LEMMA UserKeeps ==
  ASSUME NEW S \in SUBSET Slot, IInv(S), TypeOK', NEW w \in Worker, User(w)
  PROVE  Inner(S)'
<1> USE DEF Goto, slotVars, ioVars
<1>0. w \in Thread /\ AtWorker(w) /\ AtLabel(w) /\ TypeOK
  BY DEF Thread, IInv, Inner, Shape
<1>k. KeptAt(w, S)
  BY <1>0 DEF IInv, Inner, Kept
<1>1. PICK c \in Slot : c = cur[w] /\ on[w] = c /\ pc[w] = "run" /\ Holds(w, c)
  BY ZenonT(60), <1>0 DEF User, Yield, Finish, Submit, Refuse, AtLabel, AtWorker, RunState,
              RunLabel, Holds, HoldLabel
<1>2. Mine(w, c) /\ ready[c] = 0 /\ c \notin free
  BY ZenonT(60), <1>0, <1>1, HolderOwns
<1>s. c \notin S
  BY <1>0, <1>1, Zenon DEF IInv, Inner, Sleeper
<1>3. ~InRing(w, c) /\ st[c] = "Running" /\ ~awaits[c]
  BY ZenonT(60), <1>0, <1>1 DEF AtWorker, RingState, RunState, HoldLabel
<1>4. /\ UNCHANGED <<free, gen, ctx, ready, cur, on, kernel, cq, buf>>
      /\ pc' = [pc EXCEPT ![w] = pc'[w]] /\ st' = [st EXCEPT ![c] = st'[c]]
      /\ sq' = [sq EXCEPT ![w] = sq'[w]]
      /\ awaits' = [awaits EXCEPT ![c] = awaits'[c]]
      /\ result' = [result EXCEPT ![c] = result'[c]]
      /\ \/ /\ pc'[w] = "switchOut" /\ sq'[w] = sq[w] /\ ~awaits'[c]
            /\ st'[c] \in {"Ready", "Finished"}
         \/ /\ pc'[w] = "block"
            /\ \/ sq'[w] = sq[w] \cup {c}
               \/ sq'[w] = sq[w] /\ c \in missed'
      /\ missed \subseteq missed'
  <2> USE <1>0, <1>1, <1>3 DEF TypeOK, SlotType, LabelType, RingType
  <2>1. CASE Yield(w)  BY ZenonT(60), <2>1 DEF Yield
  <2>2. CASE Finish(w)  BY ZenonT(60), <2>2 DEF Finish
  <2>3. CASE Submit(w)
    <3>1. /\ UNCHANGED <<free, st, gen, ctx, ready, cur, on, kernel, cq, buf, missed>>
          /\ pc' = [pc EXCEPT ![w] = "block"]
          /\ sq' = [sq EXCEPT ![w] = sq[w] \cup {c}]
          /\ awaits' = [awaits EXCEPT ![c] = TRUE]
          /\ result' = [result EXCEPT ![c] = FALSE]
      BY ZenonT(60), <2>3 DEF Submit
    <3>2. /\ pc'[w] = "block" /\ sq'[w] = sq[w] \cup {c}
          /\ awaits'[c] = TRUE /\ result'[c] = FALSE /\ st'[c] = st[c]
      BY ZenonT(60), <3>1
    <3>3. st' = [st EXCEPT ![c] = st'[c]]
      BY ZenonT(60), <3>1
    <3> QED  BY ZenonT(60), <3>1, <3>2, <3>3
  <2>4. CASE Refuse(w)
    <3>1. /\ UNCHANGED <<free, st, gen, ctx, ready, cur, on, sq, kernel, cq, buf>>
          /\ pc' = [pc EXCEPT ![w] = "block"] /\ missed' = missed \cup {c}
          /\ awaits' = [awaits EXCEPT ![c] = TRUE]
          /\ result' = [result EXCEPT ![c] = TRUE]
      BY ZenonT(60), <2>4 DEF Refuse
    <3>2. /\ pc'[w] = "block" /\ sq'[w] = sq[w]
          /\ awaits'[c] = TRUE /\ result'[c] = TRUE /\ st'[c] = st[c]
      BY ZenonT(60), <3>1
    <3>3. st' = [st EXCEPT ![c] = st'[c]] /\ sq' = [sq EXCEPT ![w] = sq'[w]]
      BY ZenonT(60), <3>1
    <3> QED  BY ZenonT(60), <3>1, <3>2, <3>3
  <2> QED  BY ZenonT(60), <2>1, <2>2, <2>3, <2>4 DEF User
<1>5. Local(w, c)
  <2>1. /\ \A u \in Thread \ {w} : pc'[u] = pc[u] /\ cur'[u] = cur[u]
        /\ \A v \in Worker \ {w} : sq'[v] = sq[v]
    BY ZenonT(60), <1>0, <1>4 DEF TypeOK, LabelType, RingType
  <2>2. \A g \in Slot \ {c} : /\ st'[g] = st[g] /\ awaits'[g] = awaits[g]
                             /\ result'[g] = result[g]
    BY ZenonT(60), <1>0, <1>4 DEF TypeOK, SlotType, RingType
  <2>3. \A g \in Slot \ {c} : ~Holds(w, g)' /\ ~Holds(w, g)
    BY ZenonT(60), <1>1, <1>4 DEF Holds
  <2>4. \A g \in Slot \ {c} : InRing(w, g)' => InRing(w, g)
    BY ZenonT(60), <1>4 DEF InRing
  <2> QED  BY ZenonT(60), <1>4, <2>1, <2>2, <2>3, <2>4 DEF Local
<1>6. Here(w, c)'
  <2>1. ready'[c] = 0 /\ c \notin free' /\ Holds(w, c)'
    BY ZenonT(60), <1>1, <1>2, <1>4 DEF Holds, HoldLabel
  <2> QED  BY ZenonT(60), <2>1 DEF Here
<1>7. AtLabel(w)'
  BY ZenonT(60), <1>1, <1>4 DEF AtLabel, SavedLabel, AnswerLabel
<1>8. RingOnce(w)'
  <2>1. /\ sq'[w] = sq[w] \/ sq'[w] = sq[w] \cup {c}
        /\ kernel'[w] = kernel[w] /\ cq'[w] = cq[w] /\ buf'[w] = buf[w]
    BY ZenonT(60), <1>4
  <2>2. c \notin kernel[w] /\ c \notin cq[w] /\ c \notin buf[w] /\ RingOnce(w)
    BY ZenonT(60), <1>0, <1>3 DEF AtWorker, InRing
  <2> QED  BY ZenonT(60), <2>1, <2>2 DEF RingOnce
<1>9. RunState(w)'
  BY ZenonT(60), <1>1, <1>4 DEF RunState, RunLabel
<1>10. RingState(w)'
  BY ZenonT(60), <1>1, <1>3, <1>4 DEF RingState, InRing
<1>11. KeepsOthers(w, c) /\ KeptHere(w, c, S)' /\ KeptAt(w, S)'
  <2>1. buf[w] = {}
    BY ZenonT(60), <1>0, <1>k, <1>1 DEF KeptAt
  <2>2. KeptAt(w, S)'
    BY ZenonT(60), <1>1, <1>4, <2>1 DEF KeptAt, InRing
  <2>3. KeepsOthers(w, c)
    BY ZenonT(60), <1>4 DEF KeepsOthers, InRing
  <2>4. KeptHere(w, c, S)'
    BY ZenonT(60), <1>1, <1>4 DEF KeptHere, Holds, HoldLabel
  <2> QED  BY SMTT(60), <2>2, <2>3, <2>4
<1> QED
  BY SMTT(60), <1>0, <1>2, <1>5, <1>6, <1>7, <1>8, <1>9, <1>10, <1>11, <1>s, FrameSame
     DEF AtWorker

\* The steps of run_gvthread around the GVThread keep the invariant.
LEMMA RunKeeps ==
  ASSUME NEW S \in SUBSET Slot, IInv(S), TypeOK', NEW w \in Worker, Run(w)
  PROVE  Inner(S)'
<1> USE DEF Goto, slotVars, ioVars
<1>0. w \in Thread /\ AtWorker(w) /\ AtLabel(w) /\ TypeOK
  BY DEF Thread, IInv, Inner, Shape
<1>k. KeptAt(w, S)
  BY <1>0 DEF IInv, Inner, Kept
<1>1. CASE StopRunning(w)
  <2>1. /\ UNCHANGED <<free, st, gen, ctx, ready, on, ioVars>>
        /\ pc[w] = "stop" /\ pc' = [pc EXCEPT ![w] = "poll"]
        /\ cur' = [cur EXCEPT ![w] = NoSlot] /\ pc'[w] = "poll"
    BY ZenonT(60), <1>0, <1>1 DEF StopRunning, TypeOK, LabelType
  <2>2. Local(w, NoSlot)
    BY ZenonT(60), <1>0, <2>1
       DEF Local, Holds, HoldLabel, InRing, TypeOK, LabelType, HandType
  <2>3. AtLabel(w)' /\ AtWorker(w)'
    BY ZenonT(60), <1>0, <2>1
       DEF AtLabel, HoldLabel, SavedLabel, AnswerLabel, AtWorker, RingOnce,
           RunState, RunLabel, RingState
  <2>4. KeepsOthers(w, NoSlot) /\ KeptAt(w, S)'
    BY ZenonT(60), <1>0, <1>k, <2>1 DEF KeepsOthers, KeptAt, InRing
  <2> QED
    BY <1>0, <2>2, <2>3, <2>4, FrameSame, NoneMine, SchedulerAssumption
       DEF IInv, Inner
<1>2. ASSUME ~StopRunning(w)
      PROVE  Inner(S)'
  <2>1. PICK c \in Slot : c = cur[w] /\ Holds(w, c)
    BY SMTT(60), <1>0, <1>2
       DEF Run, SetRunning, SwitchIn, Block, SwitchOut, Return, Requeue,
           MarkFinished, Deactivate, Release, AtLabel, Holds, HoldLabel
  <2>2. Mine(w, c) /\ ready[c] = 0 /\ c \notin free
    BY SMTT(60), <1>0, <2>1, HolderOwns
  <2>3. /\ UNCHANGED <<cur, result, sq, kernel, cq, buf, missed>>
        /\ \A u \in Thread \ {w} : pc'[u] = pc[u]
        /\ \A v \in Worker \ {w} : on'[v] = on[v]
        /\ \A g \in Slot \ {c} :
             /\ st'[g] = st[g] /\ ctx'[g] = ctx[g]
             /\ awaits'[g] = awaits[g] /\ ready'[g] = ready[g]
             /\ g \in free' <=> g \in free
    <3> USE <1>0, <2>1, DomainsOK DEF Domains
    <3>0. pc[w] \in RunLabel => on[w] = c
      BY ZenonT(60) DEF AtWorker, RunState
    <3>1. CASE SetRunning(w)  BY ZenonT(60), <3>1 DEF SetRunning
    <3>2. CASE SwitchIn(w)  BY ZenonT(60), <3>2 DEF SwitchIn
    <3>3. CASE Block(w)  BY ZenonT(60), <3>0, <3>3 DEF Block, RunLabel
    <3>4. CASE SwitchOut(w)  BY ZenonT(60), <3>0, <3>4 DEF SwitchOut, RunLabel
    <3>5. CASE Return(w)  BY SMTT(60), <3>5 DEF Return
    <3>6. CASE Requeue(w)  BY ZenonT(60), <3>6 DEF Requeue
    <3>7. CASE MarkFinished(w)  BY ZenonT(60), <3>7 DEF MarkFinished
    <3>8. CASE Deactivate(w)  BY ZenonT(60), <3>8 DEF Deactivate
    <3>9. CASE Release(w)  BY ZenonT(60), <3>9 DEF Release
    <3> QED
      BY ZenonT(60), <1>2, <3>1, <3>2, <3>3, <3>4, <3>5, <3>6, <3>7, <3>8, <3>9 DEF Run
  <2>4. Local(w, c)
    <3>1. \A g \in Slot \ {c} : ~Holds(w, g)' /\ ~Holds(w, g)
      BY ZenonT(60), <2>1, <2>3 DEF Holds
    <3>2. \A g \in Slot : InRing(w, g)' => InRing(w, g)
      BY ZenonT(60), <2>3 DEF InRing
    <3>3. /\ \A u \in Thread \ {w} : pc'[u] = pc[u] /\ cur'[u] = cur[u]
          /\ \A v \in Worker \ {w} :
               /\ on'[v] = on[v] /\ sq'[v] = sq[v] /\ kernel'[v] = kernel[v]
               /\ cq'[v] = cq[v] /\ buf'[v] = buf[v]
      BY ZenonT(60), <2>3
    <3>4. \A g \in Slot \ {c} :
            /\ st'[g] = st[g] /\ ctx'[g] = ctx[g] /\ ready'[g] = ready[g]
            /\ awaits'[g] = awaits[g] /\ result'[g] = result[g]
            /\ g \in free' => g \in free
      BY SMTT(60), <2>3
    <3> QED  BY ZenonT(60), <3>1, <3>2, <3>3, <3>4 DEF Local
  <2>5. RingOnce(w)'
    BY ZenonT(60), <1>0, <2>3 DEF AtWorker, RingOnce
  <2>6. \/ /\ pc[w] = "setRunning" /\ pc'[w] = "switchIn" /\ st'[c] = "Running"
           /\ UNCHANGED <<free, ctx, awaits, ready, on>>
        \/ /\ pc[w] = "switchIn" /\ pc'[w] = "run" /\ ctx'[c] = "live"
           /\ on'[w] = c /\ ~awaits'[c] /\ UNCHANGED <<free, st, ready>>
        \/ /\ pc[w] = "block" /\ pc'[w] = "switchOut" /\ st'[c] = "Blocked"
           /\ UNCHANGED <<free, ctx, awaits, ready, on>>
        \/ /\ pc[w] = "switchOut" /\ pc'[w] = "return" /\ ctx'[c] = "saved"
           /\ on'[w] = NoSlot /\ UNCHANGED <<free, st, awaits, ready>>
        \/ /\ pc[w] = "return" /\ pc'[w] \in {"requeue", "finish", "stop"}
           /\ pc'[w] = "requeue" <=> st[c] = "Ready"
           /\ pc'[w] = "finish" <=> st[c] = "Finished"
           /\ UNCHANGED <<free, st, ctx, awaits, ready, on>>
        \/ /\ pc[w] = "requeue" /\ pc'[w] = "stop" /\ ready'[c] = 1
           /\ UNCHANGED <<free, st, ctx, awaits, on>>
        \/ /\ pc[w] = "finish" /\ pc'[w] = "deactivate"
           /\ UNCHANGED <<free, ctx, awaits, ready, on>>
        \/ /\ pc[w] = "deactivate" /\ pc'[w] = "release"
           /\ UNCHANGED <<free, awaits, ready, on>>
        \/ /\ pc[w] = "release" /\ pc'[w] = "stop" /\ c \in free'
           /\ UNCHANGED <<st, ctx, awaits, ready, on>>
    <3> USE <1>0, <2>1, DomainsOK DEF Domains
    <3>0. pc[w] \in RunLabel => on[w] = c
      BY ZenonT(60) DEF AtWorker, RunState
    <3>1. CASE SetRunning(w)  BY ZenonT(60), <3>1 DEF SetRunning
    <3>2. CASE SwitchIn(w)  BY ZenonT(60), <3>2 DEF SwitchIn
    <3>3. CASE Block(w)  BY ZenonT(60), <3>0, <3>3 DEF Block, RunLabel
    <3>4. CASE SwitchOut(w)  BY ZenonT(60), <3>0, <3>4 DEF SwitchOut, RunLabel
    <3>5. CASE Return(w)
      <4>1. CASE st[c] = "Ready"  BY <3>5, <4>1 DEF Return
      <4>2. CASE st[c] = "Finished"  BY <3>5, <4>2 DEF Return
      <4>3. CASE st[c] \notin {"Ready", "Finished"}  BY SMTT(60), <3>5, <4>3 DEF Return
      <4> QED  BY ZenonT(60), <4>1, <4>2, <4>3
    <3>6. CASE Requeue(w)
      <4>1. ready'[c] = ready[c] + 1
        BY ZenonT(60), <3>6 DEF Requeue
      <4>2. ready'[c] = 1
        BY Zenon, <2>2, <4>1, OneMore
      <4>3. /\ pc[w] = "requeue" /\ pc'[w] = "stop"
            /\ UNCHANGED <<free, st, ctx, awaits, on>>
        BY ZenonT(60), <3>6 DEF Requeue
      <4> QED  BY ZenonT(60), <4>2, <4>3
    <3>7. CASE MarkFinished(w)  BY ZenonT(60), <3>7 DEF MarkFinished
    <3>8. CASE Deactivate(w)  BY ZenonT(60), <3>8 DEF Deactivate
    <3>9. CASE Release(w)  BY ZenonT(60), <3>9 DEF Release
    <3> QED
      BY ZenonT(60), <1>2, <3>1, <3>2, <3>3, <3>4, <3>5, <3>6, <3>7, <3>8, <3>9 DEF Run
  <2>7. /\ cur'[w] = c /\ result'[c] = result[c]
        /\ InRing(w, c)' <=> InRing(w, c)
        /\ AtLabel(w) /\ RunState(w) /\ RingState(w)
    BY ZenonT(60), <1>0, <2>1, <2>3 DEF InRing, AtWorker
  <2>8. AtLabel(w)'
    BY ZenonT(60), <2>1, <2>6, <2>7
       DEF AtLabel, RunState, SavedLabel, AnswerLabel, HoldLabel
  <2>9. RunState(w)'
    BY ZenonT(60), <2>1, <2>6, <2>7 DEF RunState, RunLabel
  <2>10. RingState(w)'
    BY ZenonT(60), <2>1, <2>6, <2>7 DEF RingState, HoldLabel
  <2>11. Here(w, c)'
    <3>1. ready'[c] # 0 => pc[w] = "requeue" /\ pc'[w] = "stop" /\ ready'[c] = 1
      BY ZenonT(60), <2>2, <2>6
    <3>2. c \in free' => pc[w] = "release" /\ pc'[w] = "stop"
      BY ZenonT(60), <2>2, <2>6
    <3>3. pc'[w] = "stop" => ~Holds(w, c)'
      BY SMTT(60) DEF Holds, HoldLabel
    <3>4. pc[w] \in {"requeue", "release"} => ~InRing(w, c)'
      BY ZenonT(60), <2>1, <2>7 DEF RingState, HoldLabel
    <3>5. pc[w] = "requeue" =>
            ctx'[c] = "saved" /\ (awaits'[c] => result'[c])
      BY ZenonT(60), <2>1, <2>6, <2>7 DEF AtLabel, SavedLabel, AnswerLabel
    <3>6. InRing(w, c)' /\ ~Holds(w, c)' => ctx'[c] = "saved"
      BY ZenonT(60), <2>1, <2>6, <2>7
         DEF AtLabel, RingState, SavedLabel, Holds, HoldLabel
    <3> QED  BY ZenonT(60), <3>1, <3>2, <3>3, <3>4, <3>5, <3>6 DEF Here
  <2>s. ASSUME c \in S
        PROVE  Sleeper(c)'
    <3>1. Sleeper(c) /\ \A v \in Worker : InRing(v, c)' <=> InRing(v, c)
      BY ZenonT(60), <2>3, <2>s DEF IInv, Inner, InRing
    <3>2. pc[w] \in {"block", "switchOut", "return"} /\ (pc[w] # "block" => st[c] = "Blocked")
      BY <1>0, <2>1, <3>1 DEF Sleeper
    <3>3. /\ c \notin free' /\ ready'[c] = 0 /\ ~awaits'[c] /\ st'[c] = "Blocked"
          /\ pc'[w] \in {"switchOut", "return", "stop"} /\ (pc'[w] = "stop" => ctx'[c] = "saved")
      BY ZenonT(60), <2>6, <2>7, <2>2, <2>1, <3>1, <3>2 DEF Sleeper, AtLabel, SavedLabel
    <3>4. \A t \in Thread \ {w} : ~Holds(t, c)'
      BY ZenonT(60), <2>2, <2>3 DEF Mine, Holds
    <3>5. pc'[w] # "stop" => Holds(w, c)'
      BY ZenonT(60), <2>7, <3>3 DEF Holds, HoldLabel
    <3> QED  BY ZenonT(60), <1>0, <3>1, <3>3, <3>4, <3>5 DEF Sleeper, Holds, HoldLabel
  <2>12. KeepsOthers(w, c) /\ KeptHere(w, c, S)' /\ KeptAt(w, S)'
    <3>1. KeptAt(w, S) /\ buf'[w] = buf[w] /\ missed' = missed
      BY ZenonT(60), <1>k, <2>3
    <3>2. KeptAt(w, S)'
      BY ZenonT(60), <2>1, <2>6, <2>7, <3>1 DEF KeptAt
    <3>3. \/ Holds(w, c)' \/ c \in free' \/ ready'[c] # 0 \/ c \in S \/ c \in missed'
          \/ InRing(w, c)' /\ st'[c] = "Blocked"
      <4>1. CASE pc'[w] # "stop"
        <5>1. pc'[w] \in {"switchIn", "run", "switchOut", "return", "requeue",
                         "finish", "deactivate", "release"}
          BY ZenonT(60), <2>6, <4>1
        <5> QED  BY ZenonT(60), <2>7, <5>1 DEF Holds, HoldLabel
      <4>2. CASE pc'[w] = "stop"
        <5>1. \/ pc[w] = "return" /\ st[c] \notin {"Ready", "Finished"} /\ st' = st
              \/ ready'[c] = 1 \/ c \in free'
          BY ZenonT(60), <2>6, <4>2
        <5>2. CASE pc[w] = "return" /\ st[c] \notin {"Ready", "Finished"} /\ st' = st
          BY ZenonT(60), <2>1, <2>7, <3>1, <5>2 DEF KeptAt, RingState, HoldLabel
        <5> QED  BY Zenon, <5>1, <5>2, OneMore
      <4> QED  BY ZenonT(60), <4>1, <4>2
    <3>4. InRing(w, c)' /\ ~Holds(w, c)' => st'[c] = "Blocked"
      BY ZenonT(60), <2>1, <2>6, <2>7 DEF RingState, Holds, HoldLabel
    <3>5. KeepsOthers(w, c)
      BY ZenonT(60), <2>3 DEF KeepsOthers, InRing
    <3> QED  BY ZenonT(60), <3>2, <3>3, <3>4, <3>5 DEF KeptHere
  <2> QED
    BY ZenonT(60), <1>0, <2>1, <2>2, <2>4, <2>5, <2>8, <2>9, <2>10, <2>11, <2>12, <2>s, FrameSame
       DEF AtWorker
<1> QED  BY SMTT(60), <1>1, <1>2

----------------------------------------------------------------------------
\* The invariant is inductive.
LEMMA StepIInv ==
  ASSUME NEW S \in SUBSET Slot, IInv(S), [Next]_vars
  PROVE  IInv(S)'
<1>1. TypeOK'
  BY StepTyped DEF IInv, Inner
<1>2. CASE UNCHANGED vars
  <2>0. /\ \A t \in Thread, g \in Slot : Holds(t, g)' <=> Holds(t, g)
        /\ \A w \in Worker, g \in Slot : InRing(w, g)' <=> InRing(w, g)
    BY ZenonT(60), <1>2 DEF vars, slotVars, ioVars, Holds, InRing
  <2>1. OnePlace'
    <3>1. QueuedApart'
      BY SMTT(60), <1>2, <2>0 DEF IInv, Inner, vars, slotVars, OnePlace, QueuedApart
    <3>2. FreeApart'
      BY SMTT(60), <1>2, <2>0 DEF IInv, Inner, vars, slotVars, OnePlace, FreeApart, TypeOK, SlotType
    <3>3. HeldApart'
      BY SMTT(60), <2>0 DEF IInv, Inner, OnePlace, HeldApart
    <3>4. RingApart'
      BY SMTT(60), <2>0 DEF IInv, Inner, OnePlace, RingApart
    <3> QED  BY SMTT(60), <3>1, <3>2, <3>3, <3>4 DEF OnePlace
  <2>2. Shape'
    BY ZenonT(60), <1>2 DEF IInv, Inner, vars, Shape, AtLabel, AtWorker, RingOnce, RunState,
                RingState, Resumable, Holds, InRing
  <2>3. Kept(S)'
    BY ZenonT(60), <1>2 DEF IInv, Inner, vars, Kept, Found, KeptAt, Pending, Holds, InRing
  <2>4. \A g \in S : Sleeper(g)'
    BY ZenonT(60), <1>2, <2>0 DEF IInv, Inner, vars, Sleeper, Thread
  <2> QED  BY SMTT(60), <1>1, <2>1, <2>2, <2>3, <2>4 DEF IInv, Inner
<1>3. CASE Next
  BY ZenonT(60), <1>1, <1>3, SpawnKeeps, WakeKeeps, ReapKeeps, TakeKeeps, UserKeeps, RunKeeps
     DEF Next, IInv
<1> QED  BY <1>2, <1>3

LEMMA Invariance == Spec => []IInv({})
<1>1. IInv({}) /\ [Next]_vars => IInv({})'
  BY StepIInv
<1> QED  BY <1>1, InitIInv, PTL DEF Spec

\* Every variable keeps its type.
THEOREM SchedulerTypeCorrect == Spec => []TypeOK
BY Invariance, PTL DEF IInv, Inner

\* A GVThread is in one place: whatever the interleaving of spawn, the main
\* loops, the completions and wake_gvthread, it is never queued twice, never
\* ready while a worker still leaves it, never free while something refers to
\* it.
THEOREM OnePlaceHolds == Spec => []OnePlace
BY Invariance, PTL DEF IInv, Inner

\* Two workers never execute the same GVThread: both would hold it.
THEOREM SingleRunnerHolds == Spec => []SingleRunner
<1>1. IInv({}) => SingleRunner
  <2> SUFFICES ASSUME IInv({}), NEW w \in Worker, NEW v \in Worker,
                      on[w] = on[v], on[w] # NoSlot
               PROVE  w = v
    BY SMTT(60) DEF SingleRunner
  <2>1. ASSUME NEW u \in Worker, on[u] # NoSlot
        PROVE  u \in Thread /\ on[u] \in Slot /\ Holds(u, on[u])
    <3>1. RunState(u) /\ AtLabel(u) /\ u \in Thread
      BY SMTT(60) DEF IInv, Inner, Shape, AtWorker, Thread
    <3>2. pc[u] \in RunLabel /\ pc[u] \in HoldLabel /\ on[u] = cur[u]
      BY SMTT(60), <2>1, <3>1 DEF RunState, RunLabel, HoldLabel
    <3> QED  BY SMTT(60), <3>1, <3>2 DEF AtLabel, Holds
  <2> QED  BY <2>1 DEF IInv, Inner, OnePlace, HeldApart
<1> QED  BY <1>1, Invariance, PTL

\* run_gvthread switches only to registers that block_current, yield_now or
\* spawn has saved completely, and resumes a GVThread that waits for I/O only
\* after the result has been stored.
THEOREM ResumesSavedHolds == Spec => []ResumesSaved
<1>1. IInv({}) => ResumesSaved
  BY ZenonT(60) DEF IInv, Inner, Shape, AtLabel, SavedLabel, AnswerLabel, ResumesSaved, Thread
<1> QED  BY <1>1, Invariance, PTL

\* A GVThread is forgotten only when the failure of its submit was reported
\* before it had blocked, or when a poll dropped its completion: no other
\* interleaving of block_current, wake_gvthread and run_gvthread loses one.
THEOREM NoneForgottenHolds == Spec => []NoneForgotten
<1>1. IInv({}) => NoneForgotten
  BY DEF IInv, Inner, Kept, Found, NoneForgotten, Placed
<1> QED  BY <1>1, Invariance, PTL
===============================================================================
