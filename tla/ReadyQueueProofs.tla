--------------------------- MODULE ReadyQueueProofs ---------------------------
(***************************************************************************)
(* Proofs about the ready queue, for any number of workers, pushers and    *)
(* ids and any capacity.                                                   *)
(***************************************************************************)
EXTENDS ReadyQueue, TLAPS, FiniteSetTheorems, SequenceTheorems

\* Where a thread holds an id, and where a worker carries ids from one queue
\* to another.
Holding == {"run", "pushGlobal", "batch", "fill", "stash", "stashCount",
            "stashNotify"}

Carrying == {"fill", "stash", "stashCount", "stashNotify"}

HoldsAtLabel == \A t \in Thread : hand[t] # NoId <=> pc[t] \in Holding

CarriesAtLabel == \A w \in Worker : batch[w] # <<>> => pc[w] \in Carrying

\* A worker goes past its own queue only when that is empty, and no other
\* thread ever adds to it.
EmptyPastLocal ==
  \A w \in Worker : pc[w] \in {"global", "batch", "steal"} => local[w] = <<>>

\* What a worker carries fits into its local queue.
RoomForBatch ==
  \A w \in Worker : Len(local[w]) + Len(batch[w]) <= LocalCapacity

ParkedAtLabel ==
  \A w \in Worker : /\ w \in waiting => pc[w] = "waiting"
                    /\ w \in parked <=> pc[w] \in {"parkLock", "waiting"}

Shape == /\ HoldsAtLabel /\ CarriesAtLabel /\ EmptyPastLocal
         /\ RoomForBatch /\ ParkedAtLabel

LEMMA StealTriesType == StealTries \in Nat
  BY FS_CardinalityType, ReadyQueueAssumption DEF ReadyQueueAssumption, StealTries

LEMMA BatchMaxType == BatchMax \in Nat /\ BatchMax <= LocalCapacity
  BY ReadyQueueAssumption DEF ReadyQueueAssumption, BatchMax

-----------------------------------------------------------------------------
(* What the queue operations do to the ids in a sequence *)

LEMMA LenType == \A s \in Seq(Id) : Len(s) \in Nat
  OBVIOUS

LEMMA EmptyRange == Range(<<>>) = {}
BY SMT DEF Range

LEMMA TakeHead ==
  ASSUME NEW s \in Seq(Id), s # <<>>
  PROVE  /\ Head(s) \in Id /\ Tail(s) \in Seq(Id)
         /\ Len(s) \in Nat /\ Len(Tail(s)) = Len(s) - 1
         /\ Range(s) = {Head(s)} \cup Range(Tail(s))
         /\ IsInjective(s) => /\ Head(s) \notin Range(Tail(s))
                             /\ IsInjective(Tail(s))
<1>1. /\ Head(s) \in Id /\ Tail(s) \in Seq(Id) /\ Len(s) \in Nat \ {0}
      /\ Len(Tail(s)) = Len(s) - 1
      /\ Head(s) = s[1] /\ \A i \in 1 .. Len(s) - 1 : Tail(s)[i] = s[i + 1]
  OBVIOUS
<1>2. DOMAIN s = 1 .. Len(s) /\ DOMAIN Tail(s) = 1 .. Len(s) - 1
  BY <1>1
<1>3. Range(s) = {Head(s)} \cup Range(Tail(s))
  <2>1. ASSUME NEW x \in Range(s) PROVE x \in {Head(s)} \cup Range(Tail(s))
    <3>1. PICK i \in 1 .. Len(s) : x = s[i]
      BY <1>2 DEF Range
    <3>2. CASE i = 1
      BY <3>1, <3>2, <1>1
    <3>3. CASE i # 1
      <4>1. i - 1 \in 1 .. Len(s) - 1 /\ Tail(s)[i - 1] = x
        BY <3>1, <3>3, <1>1
      <4> QED BY ZenonT(60), <4>1, <1>2 DEF Range
    <3> QED BY <3>2, <3>3
  <2>2. ASSUME NEW x \in {Head(s)} \cup Range(Tail(s)) PROVE x \in Range(s)
    BY <1>1, <1>2 DEF Range
  <2> QED BY <2>1, <2>2
<1>4. ASSUME IsInjective(s) PROVE Head(s) \notin Range(Tail(s)) /\ IsInjective(Tail(s))
  BY <1>1, <1>2, <1>4 DEF Range, IsInjective
<1> QED BY <1>1, <1>3, <1>4

LEMMA AddLast ==
  ASSUME NEW s \in Seq(Id), NEW id \in Id
  PROVE  /\ Append(s, id) \in Seq(Id) /\ Append(s, id) # <<>>
         /\ Len(s) \in Nat /\ Len(Append(s, id)) = Len(s) + 1
         /\ Range(Append(s, id)) = Range(s) \cup {id}
         /\ IsInjective(s) /\ id \notin Range(s) => IsInjective(Append(s, id))
<1>1. /\ Append(s, id) \in Seq(Id) /\ Len(s) \in Nat /\ Len(Append(s, id)) = Len(s) + 1
      /\ DOMAIN s = 1 .. Len(s) /\ DOMAIN Append(s, id) = 1 .. Len(s) + 1
      /\ Append(s, id)[Len(s) + 1] = id
      /\ \A i \in 1 .. Len(s) : Append(s, id)[i] = s[i]
  OBVIOUS
<1>2. Range(Append(s, id)) = Range(s) \cup {id}
  <2>1. ASSUME NEW x \in Range(Append(s, id)) PROVE x \in Range(s) \cup {id}
    BY <1>1 DEF Range
  <2>2. ASSUME NEW x \in Range(s) \cup {id} PROVE x \in Range(Append(s, id))
    BY <1>1 DEF Range
  <2> QED BY <2>1, <2>2
<1>3. ASSUME IsInjective(s), id \notin Range(s) PROVE IsInjective(Append(s, id))
  BY <1>1, <1>3 DEF Range, IsInjective
<1>4. Append(s, id) # <<>>
  BY SMTT(60), AppendProperties
<1> QED BY <1>1, <1>2, <1>3, <1>4

\* Splitting a sequence after its first n elements.
LEMMA SplitAt ==
  ASSUME NEW s \in Seq(Id), NEW n \in 0 .. Len(s)
  PROVE  LET a == SubSeq(s, 1, n)
             b == SubSeq(s, n + 1, Len(s))
         IN /\ a \in Seq(Id) /\ b \in Seq(Id)
            /\ Len(s) \in Nat /\ Len(a) = n /\ Len(b) = Len(s) - n
            /\ Range(s) = Range(a) \cup Range(b)
            /\ IsInjective(s) => /\ IsInjective(a) /\ IsInjective(b)
                                /\ Range(a) \cap Range(b) = {}
<1> DEFINE a == SubSeq(s, 1, n)
           b == SubSeq(s, n + 1, Len(s))
<1>0. Len(s) \in Nat /\ DOMAIN s = 1 .. Len(s)
  OBVIOUS
<1>1. /\ a \in Seq(Id) /\ Len(a) = n /\ DOMAIN a = 1 .. n
      /\ \A i \in 1 .. n : a[i] = s[i]
  BY <1>0
<1>2. /\ b \in Seq(Id) /\ Len(b) = Len(s) - n /\ DOMAIN b = 1 .. Len(s) - n
      /\ \A i \in 1 .. Len(s) - n : b[i] = s[i + n]
  <2>1. n + 1 \in Int /\ \A i \in n + 1 .. Len(s) : s[i] \in Id
    BY <1>0
  <2>2. /\ b \in Seq(Id)
        /\ Len(b) = IF n + 1 <= Len(s) THEN Len(s) - (n + 1) + 1 ELSE 0
        /\ \A i \in 1 .. Len(s) - (n + 1) + 1 : b[i] = s[n + 1 + i - 1]
    BY <1>0, <2>1, SubSeqProperties
  <2> HIDE DEF b
  <2>3. Len(b) = Len(s) - n
    <3>1. Len(b) = IF n + 1 <= Len(s) THEN Len(s) - (n + 1) + 1 ELSE 0
      BY <2>2
    <3>2. Len(s) \in Nat
      OBVIOUS
    <3> QED BY <3>1, <3>2
  <2>4. DOMAIN b = 1 .. Len(s) - n
    <3>1. b \in Seq(Id) => DOMAIN b = 1 .. Len(b)
      OBVIOUS
    <3> QED BY <2>2, <2>3, <3>1
  <2>5. ASSUME NEW i \in 1 .. Len(s) - n PROVE b[i] = s[i + n]
    <3>1. i \in 1 .. Len(s) - (n + 1) + 1 /\ n + 1 + i - 1 = i + n
      BY <1>0
    <3> QED BY <2>2, <3>1
  <2> QED BY <2>2, <2>3, <2>4, <2>5
<1> HIDE DEF a, b
<1>3. Range(s) = Range(a) \cup Range(b)
  <2>1. ASSUME NEW x \in Range(s) PROVE x \in Range(a) \cup Range(b)
    <3>1. PICK i \in 1 .. Len(s) : x = s[i]
      BY <1>0 DEF Range
    <3>2. CASE i <= n
      BY <1>0, <1>1, <3>1, <3>2 DEF Range
    <3>3. CASE i > n
      <4>1. i - n \in 1 .. Len(s) - n /\ b[i - n] = x
        BY <1>0, <1>2, <3>1, <3>3
      <4> QED BY ZenonT(60), <1>2, <4>1 DEF Range
    <3> QED BY <1>0, <3>2, <3>3
  <2>2. ASSUME NEW x \in Range(a) PROVE x \in Range(s)
    BY <1>0, <1>1 DEF Range
  <2>3. ASSUME NEW x \in Range(b) PROVE x \in Range(s)
    <3>1. PICK i \in 1 .. Len(s) - n : x = s[i + n]
      BY <1>2 DEF Range
    <3> QED BY <1>0, <3>1 DEF Range
  <2> QED BY <2>1, <2>2, <2>3
<1>4. ASSUME IsInjective(s)
      PROVE  IsInjective(a) /\ IsInjective(b) /\ Range(a) \cap Range(b) = {}
  <2>1. IsInjective(a)
    BY <1>0, <1>1, <1>4 DEF IsInjective
  <2>2. IsInjective(b)
    <3>1. ASSUME NEW i \in 1 .. Len(s) - n, NEW j \in 1 .. Len(s) - n, b[i] = b[j]
          PROVE  i = j
      <4>1. /\ i + n \in 1 .. Len(s) /\ j + n \in 1 .. Len(s)
            /\ s[i + n] = s[j + n]
        BY <1>0, <1>2, <3>1
      <4>2. i + n = j + n
        BY <1>0, <1>4, <4>1 DEF IsInjective
      <4> QED BY <1>0, <4>2
    <3> QED BY <1>2, <3>1 DEF IsInjective
  <2>3. ASSUME NEW x \in Range(a), x \in Range(b) PROVE FALSE
    <3>1. PICK i \in 1 .. n : x = s[i]
      BY <1>1 DEF Range
    <3>2. PICK j \in 1 .. Len(s) - n : x = s[j + n]
      BY <1>2, <2>3 DEF Range
    <3>3. /\ i \in 1 .. Len(s) /\ j + n \in 1 .. Len(s)
          /\ i # j + n
      BY <1>0, <3>1, <3>2
    <3> QED BY ZenonT(60), <1>0, <1>4, <3>1, <3>2, <3>3 DEF IsInjective
  <2> QED BY <2>1, <2>2, <2>3
<1> QED BY ZenonT(60), <1>0, <1>1, <1>2, <1>3, <1>4 DEF a, b

\* Stealing the first n elements, of which the thief keeps the first.
LEMMA StealSplit ==
  ASSUME NEW s \in Seq(Id), NEW n \in 1 .. Len(s)
  PROVE  LET b == SubSeq(s, n + 1, Len(s))
             c == SubSeq(s, 2, n)
         IN /\ Head(s) \in Id /\ b \in Seq(Id) /\ c \in Seq(Id)
            /\ Len(b) = Len(s) - n /\ Len(c) = n - 1
            /\ Range(s) = {Head(s)} \cup Range(c) \cup Range(b)
            /\ IsInjective(s) => /\ IsInjective(b) /\ IsInjective(c)
                                /\ Range(b) \cap Range(c) = {}
                                /\ Head(s) \notin Range(b) \cup Range(c)
<1> DEFINE a == SubSeq(s, 1, n)
           b == SubSeq(s, n + 1, Len(s))
           c == SubSeq(s, 2, n)
<1>1. n \in 0 .. Len(s) /\ Len(s) \in Nat /\ n \in Nat
  OBVIOUS
<1>2. /\ a \in Seq(Id) /\ b \in Seq(Id) /\ Len(a) = n /\ Len(b) = Len(s) - n
      /\ Range(s) = Range(a) \cup Range(b)
      /\ IsInjective(s) => /\ IsInjective(a) /\ IsInjective(b)
                          /\ Range(a) \cap Range(b) = {}
  BY <1>1, SplitAt
<1>3. a # <<>>
  BY <1>1, <1>2
<1>4. Tail(a) = c /\ Head(a) = Head(s)
  BY <1>1, <1>2
<1> HIDE DEF a, b, c
<1>5. /\ Head(a) \in Id /\ Tail(a) \in Seq(Id) /\ Len(Tail(a)) = Len(a) - 1
      /\ Range(a) = {Head(a)} \cup Range(Tail(a))
      /\ IsInjective(a) => /\ Head(a) \notin Range(Tail(a)) /\ IsInjective(Tail(a))
  BY <1>2, <1>3, TakeHead
<1> QED BY ZenonT(60), <1>2, <1>4, <1>5 DEF a, b, c

-----------------------------------------------------------------------------
(* Type correctness *)

\* Arithmetic on the lengths of two queues and the capacity.
LEMMA Room ==
  \A m, k, l, c \in Nat :
    m + k <= c => /\ m <= c /\ (k - 1 \in Nat => m < c)
                  /\ (k - 1 \in Nat => (m + 1) + (k - 1) <= c)
                  /\ (l <= m => l + k <= c)
  OBVIOUS

LEMMA CapacityType == LocalCapacity \in Nat
  BY ReadyQueueAssumption DEF ReadyQueueAssumption

LEMMA Half ==
  ASSUME NEW k \in Nat
  PROVE  k \div 2 \in Nat /\ k \div 2 <= k
  OBVIOUS

LEMMA InitTyped == Init => TypeOK /\ Shape
  BY SMTT(60), StealTriesType, ReadyQueueAssumption
  DEF Init, TypeOK, QueueType, LabelType, CounterType, ParkType, Shape, HoldsAtLabel, CarriesAtLabel, EmptyPastLocal,
      RoomForBatch, ParkedAtLabel, Holding, Carrying, Thread, WorkerLabel,
      PusherLabel, PushLabel, ReadyQueueAssumption

LEMMA StepTyped ==
  ASSUME TypeOK, Shape, [Next]_vars
  PROVE  TypeOK' /\ Shape'
<1> USE ReadyQueueAssumption DEF ReadyQueueAssumption, Thread, Shape, queues,
        parking, counters, shutdown
<1>1. ASSUME NEW w \in Worker, Check(w) PROVE TypeOK' /\ Shape'
  <2>1. QueueType'
    BY <1>1 DEF Check, Goto, TypeOK, QueueType
  <2>2. LabelType'
    BY <1>1 DEF Check, Goto, TypeOK, LabelType, WorkerLabel, PusherLabel, PushLabel
  <2>3. CounterType' /\ ParkType'
    BY <1>1, StealTriesType DEF Check, Goto, TypeOK, CounterType, ParkType
  <2>4. Shape'
    BY SMTT(60), <1>1 DEF Check, Goto, TypeOK, QueueType, LabelType,
        HoldsAtLabel, CarriesAtLabel, EmptyPastLocal, RoomForBatch, ParkedAtLabel,
        Holding, Carrying
  <2> QED BY <2>1, <2>2, <2>3, <2>4 DEF TypeOK
<1>2. ASSUME NEW w \in Worker, PopTick(w) PROVE TypeOK' /\ Shape'
  <2>0. (tick[w] + 1) % GlobalCheckInterval \in 0 .. GlobalCheckInterval - 1
    BY DEF TypeOK, CounterType
  <2>1. QueueType'
    BY <1>2 DEF PopTick, TypeOK, QueueType
  <2>2. LabelType'
    BY <1>2 DEF PopTick, Goto, TypeOK, LabelType, WorkerLabel
  <2>3. CounterType' /\ ParkType'
    BY SMTT(60), <1>2, <2>0 DEF PopTick, TypeOK, CounterType, ParkType
  <2>4. Shape'
    BY ZenonT(60), <1>2 DEF PopTick, Goto, TypeOK, QueueType, LabelType,
        HoldsAtLabel, CarriesAtLabel, EmptyPastLocal, RoomForBatch, ParkedAtLabel,
        Holding, Carrying
  <2> QED BY <2>1, <2>2, <2>3, <2>4 DEF TypeOK
<1>3. ASSUME NEW w \in Worker, PopGlobalFirst(w) PROVE TypeOK' /\ Shape'
  <2>0. global # <<>> => Head(global) \in Id /\ Tail(global) \in Seq(Id)
    BY TakeHead DEF TypeOK, QueueType
  <2>1. CASE global = <<>>
    <3>0. /\ pc[w] = "globalFirst" /\ pc' = [pc EXCEPT ![w] = "local"]
          /\ UNCHANGED <<queues, parking, counters, shutdown>>
      BY <1>3, <2>1 DEF PopGlobalFirst, Goto, Got
    <3>1. QueueType'
      BY <3>0, <2>1, <2>0 DEF TypeOK, QueueType
    <3>2. LabelType'
      BY SMTT(60), <3>0, <2>1, <2>0 DEF TypeOK, LabelType, WorkerLabel, PusherLabel, PushLabel
    <3>3. CounterType' /\ ParkType'
      BY SMTT(60), <3>0, <2>1, <2>0, StealTriesType DEF TypeOK, CounterType, ParkType
    <3>4. Shape'
      BY SMTT(60), <3>0, <2>1, <2>0 DEF TypeOK, QueueType, LabelType, HoldsAtLabel,
         CarriesAtLabel, EmptyPastLocal, RoomForBatch, ParkedAtLabel,
        Holding, Carrying
    <3> QED BY <3>1, <3>2, <3>3, <3>4 DEF TypeOK
  <2>2. CASE global # <<>>
    <3>0. /\ hand' = [hand EXCEPT ![w] = Head(global)] /\ global' = Tail(global)
          /\ pc[w] = "globalFirst" /\ pc' = [pc EXCEPT ![w] = "run"]
          /\ spins' = [spins EXCEPT ![w] = 0]
          /\ UNCHANGED <<local, batch, outside, parking, tries, tick, shutdown>>
      BY <1>3, <2>2 DEF PopGlobalFirst, Goto, Got
    <3>1. QueueType'
      BY SMTT(60), <3>0, <2>2, <2>0 DEF TypeOK, QueueType
    <3>2. LabelType'
      BY SMTT(60), <3>0, <2>2, <2>0 DEF TypeOK, LabelType, WorkerLabel, PusherLabel, PushLabel
    <3>3. CounterType' /\ ParkType'
      BY SMTT(60), <3>0, <2>2, <2>0, StealTriesType DEF TypeOK, CounterType, ParkType
    <3>4. Shape'
      BY SMTT(60), <3>0, <2>2, <2>0 DEF TypeOK, QueueType, LabelType, HoldsAtLabel,
         CarriesAtLabel, EmptyPastLocal, RoomForBatch, ParkedAtLabel,
        Holding, Carrying
    <3> QED BY <3>1, <3>2, <3>3, <3>4 DEF TypeOK
  <2> QED BY <1>3, <2>1, <2>2 DEF PopGlobalFirst, Goto, Got
<1>4. ASSUME NEW w \in Worker, PopLocal(w) PROVE TypeOK' /\ Shape'
  <2>0. local[w] # <<>> => /\ Head(local[w]) \in Id /\ Tail(local[w]) \in Seq(Id)
                            /\ Len(local[w]) \in Nat /\ Len(Tail(local[w])) = Len(local[w]) - 1
    BY SMTT(60), TakeHead DEF TypeOK, QueueType
  <2>1. CASE local[w] = <<>>
    <3>0. /\ pc[w] = "local" /\ pc' = [pc EXCEPT ![w] = "global"]
          /\ UNCHANGED <<queues, parking, counters, shutdown>>
      BY <1>4, <2>1 DEF PopLocal, Goto, Got
    <3>1. QueueType'
      BY SMTT(60), <3>0, <2>1, <2>0 DEF TypeOK, QueueType
    <3>2. LabelType'
      BY SMTT(60), <3>0, <2>1, <2>0 DEF TypeOK, LabelType, WorkerLabel, PusherLabel, PushLabel
    <3>3. CounterType' /\ ParkType'
      BY SMTT(60), <3>0, <2>1, <2>0, StealTriesType DEF TypeOK, CounterType, ParkType
    <3>4. Shape'
      BY ZenonT(60), <3>0, <2>1, <2>0 DEF TypeOK, QueueType, LabelType, HoldsAtLabel,
         CarriesAtLabel, EmptyPastLocal, RoomForBatch, ParkedAtLabel,
        Holding, Carrying
    <3> QED BY <3>1, <3>2, <3>3, <3>4 DEF TypeOK
  <2>2. CASE local[w] # <<>>
    <3>0. /\ hand' = [hand EXCEPT ![w] = Head(local[w])]
          /\ local' = [local EXCEPT ![w] = Tail(local[w])]
          /\ pc[w] = "local" /\ pc' = [pc EXCEPT ![w] = "run"]
          /\ spins' = [spins EXCEPT ![w] = 0]
          /\ UNCHANGED <<global, batch, outside, parking, tries, tick, shutdown>>
      BY <1>4, <2>2 DEF PopLocal, Goto, Got
    <3>1. QueueType'
      BY <3>0, <2>2, <2>0 DEF TypeOK, QueueType
    <3>2. LabelType'
      BY <3>0, <2>2, <2>0 DEF TypeOK, LabelType, WorkerLabel, PusherLabel, PushLabel
    <3>3. CounterType' /\ ParkType'
      BY SMTT(60), <3>0, <2>2, <2>0, StealTriesType DEF TypeOK, CounterType, ParkType
    <3>4. Shape'
      BY SMTT(60), <3>0, <2>2, <2>0 DEF TypeOK, QueueType, LabelType, HoldsAtLabel,
         CarriesAtLabel, EmptyPastLocal, RoomForBatch, ParkedAtLabel,
        Holding, Carrying
    <3> QED BY <3>1, <3>2, <3>3, <3>4 DEF TypeOK
  <2> QED BY <1>4, <2>1, <2>2 DEF PopLocal, Goto, Got
<1>5. ASSUME NEW w \in Worker, PopGlobal(w) PROVE TypeOK' /\ Shape'
  <2>0. global # <<>> => Head(global) \in Id /\ Tail(global) \in Seq(Id)
    BY TakeHead DEF TypeOK, QueueType
  <2>1. CASE global = <<>>
    <3>0. /\ pc[w] = "global" /\ pc' = [pc EXCEPT ![w] = "steal"]
          /\ UNCHANGED <<queues, parking, counters, shutdown>>
      BY <1>5, <2>1 DEF PopGlobal, Goto
    <3>1. QueueType'
      BY <3>0, <2>1, <2>0 DEF TypeOK, QueueType
    <3>2. LabelType'
      BY SMTT(60), <3>0, <2>1, <2>0 DEF TypeOK, LabelType, WorkerLabel, PusherLabel, PushLabel
    <3>3. CounterType' /\ ParkType'
      BY SMTT(60), <3>0, <2>1, <2>0, StealTriesType DEF TypeOK, CounterType, ParkType
    <3>4. Shape'
      BY SMTT(60), <3>0, <2>1, <2>0 DEF TypeOK, QueueType, LabelType, HoldsAtLabel,
         CarriesAtLabel, EmptyPastLocal, RoomForBatch, ParkedAtLabel,
        Holding, Carrying
    <3> QED BY <3>1, <3>2, <3>3, <3>4 DEF TypeOK
  <2>2. CASE global # <<>>
    <3>0. /\ hand' = [hand EXCEPT ![w] = Head(global)] /\ global' = Tail(global)
          /\ pc[w] = "global" /\ pc' = [pc EXCEPT ![w] = "batch"]
          /\ UNCHANGED <<local, batch, outside, parking, counters, shutdown>>
      BY <1>5, <2>2 DEF PopGlobal, Goto
    <3>1. QueueType'
      BY <3>0, <2>2, <2>0 DEF TypeOK, QueueType
    <3>2. LabelType'
      BY <3>0, <2>2, <2>0 DEF TypeOK, LabelType, WorkerLabel, PusherLabel, PushLabel
    <3>3. CounterType' /\ ParkType'
      BY SMTT(60), <3>0, <2>2, <2>0, StealTriesType DEF TypeOK, CounterType, ParkType
    <3>4. Shape'
      BY SMTT(60), <3>0, <2>2, <2>0 DEF TypeOK, QueueType, LabelType, HoldsAtLabel,
         CarriesAtLabel, EmptyPastLocal, RoomForBatch, ParkedAtLabel,
        Holding, Carrying
    <3> QED BY <3>1, <3>2, <3>3, <3>4 DEF TypeOK
  <2> QED BY SMTT(60), <1>5, <2>1, <2>2 DEF PopGlobal, Goto
<1>6. ASSUME NEW w \in Worker, PopBatch(w) PROVE TypeOK' /\ Shape'
  <2> DEFINE n == IF Len(global) < BatchMax THEN Len(global) ELSE BatchMax
             a == SubSeq(global, 1, n)
             b == SubSeq(global, n + 1, Len(global))
  <2>1. n \in 0 .. Len(global) /\ n <= LocalCapacity
    BY BatchMaxType DEF TypeOK, QueueType
  <2>2. a \in Seq(Id) /\ b \in Seq(Id) /\ Len(a) <= LocalCapacity
    <3>1. /\ a \in Seq(Id) /\ b \in Seq(Id) /\ Len(a) = n
      BY <2>1, SplitAt DEF TypeOK, QueueType
    <3> QED BY <2>1, <3>1
  <2>3. /\ batch' = [batch EXCEPT ![w] = a] /\ global' = b
        /\ pc[w] = "batch" /\ pc' = [pc EXCEPT ![w] = "fill"]
        /\ UNCHANGED <<local, hand, outside, parking, counters, shutdown>>
    BY <1>6 DEF PopBatch, Goto
  <2>4. local[w] = <<>> /\ Len(local[w]) = 0
    BY <2>3 DEF EmptyPastLocal
  <2> HIDE DEF n, a, b
  <2>5. QueueType'
    BY SMTT(60), <2>2, <2>3, <2>4 DEF TypeOK, QueueType
  <2>6. LabelType'
    BY <2>2, <2>3, <2>4 DEF TypeOK, LabelType, WorkerLabel, PusherLabel, PushLabel
  <2>7. CounterType' /\ ParkType'
    BY SMTT(60), <2>2, <2>3, <2>4, StealTriesType DEF TypeOK, CounterType, ParkType
  <2>8. Shape'
    BY SMTT(60), <2>2, <2>3, <2>4 DEF TypeOK, QueueType, LabelType, HoldsAtLabel,
       CarriesAtLabel, EmptyPastLocal, RoomForBatch, ParkedAtLabel,
        Holding, Carrying
  <2> QED BY <2>5, <2>6, <2>7, <2>8 DEF TypeOK
<1>7. ASSUME NEW w \in Worker, FillLocal(w) PROVE TypeOK' /\ Shape'
  <2>1. CASE batch[w] = <<>>
    <3>0. /\ pc[w] = "fill" /\ pc' = [pc EXCEPT ![w] = "run"]
          /\ spins' = [spins EXCEPT ![w] = 0]
          /\ UNCHANGED <<queues, parking, tries, tick, shutdown>>
      BY <1>7, <2>1 DEF FillLocal, Got
    <3>1. QueueType'
      BY SMTT(60), <2>1, <3>0 DEF TypeOK, QueueType
    <3>2. LabelType'
      BY SMTT(60), <2>1, <3>0 DEF TypeOK, LabelType, WorkerLabel, PusherLabel, PushLabel
    <3>3. CounterType' /\ ParkType'
      BY SMTT(60), <2>1, <3>0, StealTriesType DEF TypeOK, CounterType, ParkType
    <3>4. Shape'
      BY <2>1, <3>0 DEF TypeOK, QueueType, LabelType, HoldsAtLabel, CarriesAtLabel,
         EmptyPastLocal, RoomForBatch, ParkedAtLabel,
        Holding, Carrying
    <3> QED BY <3>1, <3>2, <3>3, <3>4 DEF TypeOK
  <2>2. CASE batch[w] # <<>>
    <3>1. /\ Head(batch[w]) \in Id /\ Tail(batch[w]) \in Seq(Id)
          /\ Len(batch[w]) \in Nat /\ Len(Tail(batch[w])) = Len(batch[w]) - 1
          /\ Len(Tail(batch[w])) \in Nat
      BY <2>2, TakeHead DEF TypeOK, QueueType
    <3>2. /\ Append(local[w], Head(batch[w])) \in Seq(Id)
          /\ Len(local[w]) \in Nat
          /\ Len(Append(local[w], Head(batch[w]))) = Len(local[w]) + 1
      BY <3>1, AddLast DEF TypeOK, QueueType
    <3>3. Len(local[w]) < LocalCapacity
      <4>1. Len(local[w]) + Len(batch[w]) <= LocalCapacity
        BY ZenonT(60) DEF RoomForBatch
      <4>2. Len(local[w]) \in Nat /\ Len(batch[w]) \in Nat /\ Len(batch[w]) - 1 \in Nat
        BY <3>1, <3>2
      <4> QED BY ZenonT(60), <4>1, <4>2, Room, CapacityType
    <3>4. /\ local' = [local EXCEPT ![w] = Append(local[w], Head(batch[w]))]
          /\ batch' = [batch EXCEPT ![w] = Tail(batch[w])]
          /\ pc[w] = "fill" /\ pc' = pc
          /\ UNCHANGED <<global, hand, outside, parking, counters, shutdown>>
      BY <1>7, <2>2, <3>3 DEF FillLocal
    <3>5. QueueType'
      BY SMTT(60), <3>1, <3>2, <3>4 DEF TypeOK, QueueType
    <3>6. LabelType'
      BY SMTT(60), <3>1, <3>2, <3>4 DEF TypeOK, LabelType, WorkerLabel, PusherLabel, PushLabel
    <3>7. CounterType' /\ ParkType'
      BY SMTT(60), <3>1, <3>2, <3>4, StealTriesType DEF TypeOK, CounterType, ParkType
    <3>8. HoldsAtLabel' /\ ParkedAtLabel'
      BY <3>4 DEF HoldsAtLabel, ParkedAtLabel
    <3>9. CarriesAtLabel'
      BY <3>4 DEF TypeOK, QueueType, CarriesAtLabel, Carrying
    <3>10. EmptyPastLocal'
      BY <3>4 DEF TypeOK, QueueType, EmptyPastLocal
    <3>11. RoomForBatch'
      <4> SUFFICES ASSUME NEW u \in Worker
                   PROVE  Len(local'[u]) + Len(batch'[u]) <= LocalCapacity
        BY ZenonT(60) DEF RoomForBatch
      <4>0. Len(local[u]) + Len(batch[u]) <= LocalCapacity
        BY ZenonT(60) DEF RoomForBatch
      <4>1. CASE u = w
        <5>1. /\ local'[u] = Append(local[w], Head(batch[w]))
              /\ batch'[u] = Tail(batch[w])
          BY <3>4, <4>1 DEF TypeOK, QueueType
        <5>2. Len(local'[u]) + Len(batch'[u]) = Len(local[u]) + Len(batch[u])
          <6>1. /\ Len(local'[u]) = Len(local[u]) + 1
                /\ Len(batch'[u]) = Len(batch[u]) - 1
                /\ Len(local[u]) \in Nat /\ Len(batch[u]) \in Nat
            BY <3>1, <3>2, <4>1, <5>1
          <6>2. \A i, j \in Nat : (i + 1) + (j - 1) = i + j
            OBVIOUS
          <6>3. (Len(local[u]) + 1) + (Len(batch[u]) - 1) = Len(local[u]) + Len(batch[u])
            BY <6>1, <6>2, Zenon
          <6> QED BY <6>1, <6>3, Zenon
        <5> QED BY <4>0, <5>2, Zenon
      <4>2. CASE u # w
        BY SMTT(60), <3>4, <4>0, <4>2 DEF TypeOK, QueueType
      <4> QED BY ZenonT(60), <4>1, <4>2
    <3> QED BY SMTT(60), <3>5, <3>6, <3>7, <3>8, <3>9, <3>10, <3>11 DEF TypeOK
  <2> QED BY SMTT(60), <2>1, <2>2
<1>8. ASSUME NEW w \in Worker, NEW v \in Worker, Steal(w, v)
      PROVE  TypeOK' /\ Shape'
  <2> DEFINE n == Len(local[v]) \div 2
             b == SubSeq(local[v], n + 1, Len(local[v]))
             c == SubSeq(local[v], 2, n)
  <2>1. /\ pc[w] = "steal" /\ tries[w] < StealTries
        /\ UNCHANGED <<global, outside, parking, tick, spins, shutdown>>
        /\ \/ /\ tries' = [tries EXCEPT ![w] = tries[w] + 1]
              /\ UNCHANGED <<local, hand, batch, pc>>
           \/ /\ v # w /\ n > 0
              /\ hand' = [hand EXCEPT ![w] = Head(local[v])]
              /\ batch' = [batch EXCEPT ![w] = c]
              /\ local' = [local EXCEPT ![v] = b]
              /\ tries' = [tries EXCEPT ![w] = 0]
              /\ pc' = [pc EXCEPT ![w] = "stash"]
    BY ZenonT(60), <1>8 DEF Steal, Goto
  <2>2. Len(local[v]) \in Nat /\ Len(local[v]) <= LocalCapacity
    <3>1. Len(local[v]) \in Nat /\ Len(batch[v]) \in Nat
      BY DEF TypeOK, QueueType
    <3>2. Len(local[v]) + Len(batch[v]) <= LocalCapacity
      BY ZenonT(60) DEF RoomForBatch
    <3> QED BY ZenonT(60), <3>1, <3>2, Room, CapacityType
  <2>3. n \in Nat /\ n <= Len(local[v])
    BY ZenonT(60), <2>2, Half
  <2> HIDE DEF n
  <2>4. CASE UNCHANGED <<local, hand, batch, pc>>
             /\ tries' = [tries EXCEPT ![w] = tries[w] + 1]
    <3>0. UNCHANGED queues /\ pc' = pc /\ tries[w] + 1 \in 0 .. StealTries
      BY <2>1, <2>4, StealTriesType DEF TypeOK, CounterType
    <3>1. QueueType'
      BY SMTT(60), <2>1, <2>4, <3>0 DEF TypeOK, QueueType
    <3>2. LabelType'
      BY SMTT(60), <2>1, <2>4, <3>0 DEF TypeOK, LabelType, WorkerLabel, PusherLabel, PushLabel
    <3>3. CounterType' /\ ParkType'
      BY SMTT(60), <2>1, <2>4, <3>0, StealTriesType DEF TypeOK, CounterType, ParkType
    <3>4. Shape'
      BY SMTT(60), <2>1, <2>4, <3>0 DEF TypeOK, QueueType, LabelType, HoldsAtLabel,
         CarriesAtLabel, EmptyPastLocal, RoomForBatch, ParkedAtLabel,
        Holding, Carrying
    <3> QED BY <3>1, <3>2, <3>3, <3>4 DEF TypeOK
  <2>5. CASE /\ v # w /\ n > 0
             /\ hand' = [hand EXCEPT ![w] = Head(local[v])]
             /\ batch' = [batch EXCEPT ![w] = c]
             /\ local' = [local EXCEPT ![v] = b]
             /\ tries' = [tries EXCEPT ![w] = 0]
             /\ pc' = [pc EXCEPT ![w] = "stash"]
    <3>1. n \in 1 .. Len(local[v])
      BY <2>2, <2>3, <2>5
    <3>2. /\ Head(local[v]) \in Id /\ b \in Seq(Id) /\ c \in Seq(Id)
          /\ Len(b) = Len(local[v]) - n /\ Len(c) = n - 1
      BY <3>1, StealSplit DEF TypeOK, QueueType
    <3> HIDE DEF b, c
    <3>3. Len(b) \in Nat /\ Len(b) <= Len(local[v]) /\ Len(c) <= LocalCapacity
      BY <2>2, <3>1, <3>2
    <3>4. local[w] = <<>> /\ Len(local[w]) = 0
      BY SMTT(60), <2>1 DEF EmptyPastLocal
    <3>5. local[v] # <<>>
      BY SMTT(60), <2>2, <3>1
    <3>6. QueueType'
      BY SMTT(60), <2>1, <2>5, <3>2 DEF TypeOK, QueueType
    <3>7. LabelType'
      BY SMTT(60), <2>1, <2>5 DEF TypeOK, LabelType, WorkerLabel
    <3>8. CounterType' /\ ParkType'
      BY SMTT(60), <2>1, <2>5, StealTriesType DEF TypeOK, CounterType, ParkType
    <3>9. HoldsAtLabel' /\ CarriesAtLabel' /\ ParkedAtLabel'
      BY SMTT(60), <2>1, <2>5, <3>2 DEF TypeOK, QueueType, LabelType, HoldsAtLabel,
         CarriesAtLabel, ParkedAtLabel, Holding, Carrying
    <3>10. EmptyPastLocal'
      BY SMTT(60), <2>1, <2>5, <3>5 DEF TypeOK, QueueType, LabelType, EmptyPastLocal
    <3>11. RoomForBatch'
      <4> SUFFICES ASSUME NEW u \in Worker
                   PROVE  Len(local'[u]) + Len(batch'[u]) <= LocalCapacity
        BY ZenonT(60) DEF RoomForBatch
      <4>0. /\ Len(local[u]) \in Nat /\ Len(batch[u]) \in Nat
            /\ Len(local[u]) + Len(batch[u]) <= LocalCapacity
        <5>1. local[u] \in Seq(Id) /\ batch[u] \in Seq(Id)
          BY DEF TypeOK, QueueType
        <5>2. Len(local[u]) + Len(batch[u]) <= LocalCapacity
          BY ZenonT(60) DEF RoomForBatch
        <5> QED BY ZenonT(60), <5>1, <5>2, LenType
      <4>1. CASE u = w
        <5>1. local'[u] = local[w] /\ batch'[u] = c
          BY <2>5, <4>1 DEF TypeOK, QueueType
        <5> QED BY <3>3, <3>4, <5>1, <4>0
      <4>2. CASE u = v
        <5>1. local'[u] = b /\ batch'[u] = batch[u]
          BY <2>5, <4>2 DEF TypeOK, QueueType
        <5>2. Len(b) + Len(batch[u]) <= LocalCapacity
          BY ZenonT(60), <3>3, <4>0, <4>2, <2>2, Room, CapacityType
        <5> QED BY <5>1, <5>2
      <4>3. CASE u # w /\ u # v
        BY <2>5, <4>0, <4>3 DEF TypeOK, QueueType
      <4> QED BY ZenonT(60), <4>1, <4>2, Room, CapacityType, <4>3
    <3> QED BY SMTT(60), <3>6, <3>7, <3>8, <3>9, <3>10, <3>11 DEF TypeOK
  <2> QED BY SMTT(60), <2>1, <2>4, <2>5
<1>9. ASSUME NEW w \in Worker, Idle(w) PROVE TypeOK' /\ Shape'
  <2>0. spins[w] < SpinLimit => spins[w] + 1 \in 0 .. SpinLimit
    BY DEF TypeOK, CounterType
  <2>1. QueueType'
    BY <1>9 DEF Idle, TypeOK, QueueType
  <2>2. LabelType'
    BY <1>9 DEF Idle, Goto, TypeOK, LabelType, WorkerLabel
  <2>3. CounterType' /\ ParkType'
    BY SMTT(60), <1>9, <2>0, StealTriesType DEF Idle, TypeOK, CounterType, ParkType
  <2>4. Shape'
    BY SMTT(60), <1>9 DEF Idle, Goto, TypeOK, QueueType, LabelType,
        HoldsAtLabel, CarriesAtLabel, EmptyPastLocal, RoomForBatch, ParkedAtLabel,
        Holding, Carrying
  <2> QED BY <2>1, <2>2, <2>3, <2>4 DEF TypeOK
<1>23. ASSUME NEW w \in Worker, WaitIo(w) PROVE TypeOK' /\ Shape'
  <2>1. QueueType'
    BY <1>23 DEF WaitIo, TypeOK, QueueType
  <2>2. LabelType'
    BY <1>23 DEF WaitIo, Goto, TypeOK, LabelType, WorkerLabel
  <2>3. CounterType' /\ ParkType'
    BY SMTT(60), <1>23, StealTriesType DEF WaitIo, TypeOK, CounterType, ParkType
  <2>4. Shape'
    BY SMTT(60), <1>23 DEF WaitIo, Goto, TypeOK, QueueType, LabelType,
        HoldsAtLabel, CarriesAtLabel, EmptyPastLocal, RoomForBatch, ParkedAtLabel,
        Holding, Carrying
  <2> QED BY <2>1, <2>2, <2>3, <2>4 DEF TypeOK
<1>24. ASSUME NEW w \in Worker, IoDone(w) PROVE TypeOK' /\ Shape'
  <2>1. QueueType'
    BY <1>24 DEF IoDone, TypeOK, QueueType
  <2>2. LabelType'
    BY SMTT(60), <1>24 DEF IoDone, Goto, TypeOK, LabelType, WorkerLabel,
       PusherLabel, PushLabel
  <2>3. CounterType' /\ ParkType'
    BY SMTT(60), <1>24, StealTriesType DEF IoDone, TypeOK, CounterType, ParkType
  <2>4. Shape'
    BY <1>24 DEF IoDone, Goto, TypeOK, QueueType, LabelType, HoldsAtLabel,
       CarriesAtLabel, EmptyPastLocal, RoomForBatch, ParkedAtLabel, Holding, Carrying
  <2> QED BY <2>1, <2>2, <2>3, <2>4 DEF TypeOK
<1>10. ASSUME NEW w \in Worker, Stash(w) PROVE TypeOK' /\ Shape'
  <2>1. CASE batch[w] = <<>>
    <3>0. /\ pc[w] = "stash" /\ pc' = [pc EXCEPT ![w] = "run"]
          /\ spins' = [spins EXCEPT ![w] = 0]
          /\ UNCHANGED <<queues, parking, tries, tick, shutdown>>
      BY <1>10, <2>1 DEF Stash, Got
    <3>1. QueueType'
      BY SMTT(60), <2>1, <3>0 DEF TypeOK, QueueType
    <3>2. LabelType'
      BY SMTT(60), <2>1, <3>0 DEF TypeOK, LabelType, WorkerLabel, PusherLabel, PushLabel
    <3>3. CounterType' /\ ParkType'
      BY SMTT(60), <2>1, <3>0, StealTriesType DEF TypeOK, CounterType, ParkType
    <3>4. Shape'
      BY SMTT(60), <2>1, <3>0 DEF TypeOK, QueueType, LabelType, HoldsAtLabel, CarriesAtLabel,
         EmptyPastLocal, RoomForBatch, ParkedAtLabel,
        Holding, Carrying
    <3> QED BY <3>1, <3>2, <3>3, <3>4 DEF TypeOK
  <2>2. CASE batch[w] # <<>>
    <3>1. /\ Head(batch[w]) \in Id /\ Tail(batch[w]) \in Seq(Id)
          /\ Len(batch[w]) \in Nat /\ Len(Tail(batch[w])) = Len(batch[w]) - 1
          /\ Len(Tail(batch[w])) \in Nat
      BY <2>2, TakeHead DEF TypeOK, QueueType
    <3>2. /\ Append(local[w], Head(batch[w])) \in Seq(Id)
          /\ Len(local[w]) \in Nat
          /\ Len(Append(local[w], Head(batch[w]))) = Len(local[w]) + 1
      BY <3>1, AddLast DEF TypeOK, QueueType
    <3>3. Len(local[w]) < LocalCapacity
      <4>1. Len(local[w]) + Len(batch[w]) <= LocalCapacity
        BY ZenonT(60) DEF RoomForBatch
      <4>2. Len(local[w]) \in Nat /\ Len(batch[w]) \in Nat /\ Len(batch[w]) - 1 \in Nat
        BY <3>1, <3>2
      <4> QED BY ZenonT(60), <4>1, <4>2, Room, CapacityType
    <3>4. /\ local' = [local EXCEPT ![w] = Append(local[w], Head(batch[w]))]
          /\ batch' = [batch EXCEPT ![w] = Tail(batch[w])]
          /\ pc[w] = "stash" /\ pc' = [pc EXCEPT ![w] = "stash"]
          /\ UNCHANGED <<global, hand, outside, parking, counters, shutdown>>
      BY SMTT(60), <1>10, <2>2, <3>3 DEF Stash, Goto
    <3>5. QueueType'
      BY SMTT(60), <3>1, <3>2, <3>4 DEF TypeOK, QueueType
    <3>6. LabelType'
      BY SMTT(60), <3>1, <3>2, <3>4 DEF TypeOK, LabelType, WorkerLabel, PusherLabel, PushLabel
    <3>7. CounterType' /\ ParkType'
      BY SMTT(60), <3>1, <3>2, <3>4, StealTriesType DEF TypeOK, CounterType, ParkType
    <3>8. Shape'
      BY <3>1, <3>2, <3>4 DEF TypeOK, QueueType, LabelType, HoldsAtLabel,
         CarriesAtLabel, EmptyPastLocal, RoomForBatch, ParkedAtLabel,
        Holding, Carrying
    <3> QED BY <3>5, <3>6, <3>7, <3>8 DEF TypeOK
  <2> QED BY <2>1, <2>2
<1>11. ASSUME NEW w \in Worker, Park(w) PROVE TypeOK' /\ Shape'
  <2>1. QueueType'
    BY <1>11 DEF Park, Goto, TypeOK, QueueType
  <2>2. LabelType'
    BY <1>11 DEF Park, Goto, TypeOK, LabelType, WorkerLabel,
       PusherLabel, PushLabel
  <2>3. CounterType' /\ ParkType'
    BY SMTT(60), <1>11, StealTriesType DEF Park, Goto, TypeOK, CounterType, ParkType
  <2>4. Shape'
    BY ZenonT(60), <1>11 DEF Park, Goto, TypeOK, QueueType, LabelType, HoldsAtLabel,
       CarriesAtLabel, EmptyPastLocal, RoomForBatch, ParkedAtLabel, Holding, Carrying
  <2> QED BY <2>1, <2>2, <2>3, <2>4 DEF TypeOK
<1>12. ASSUME NEW w \in Worker, ParkLock(w) PROVE TypeOK' /\ Shape'
  <2>1. QueueType'
    BY <1>12 DEF ParkLock, Goto, TypeOK, QueueType
  <2>2. LabelType'
    BY <1>12 DEF ParkLock, Goto, TypeOK, LabelType, WorkerLabel,
       PusherLabel, PushLabel
  <2>3. CounterType' /\ ParkType'
    BY SMTT(60), <1>12, StealTriesType DEF ParkLock, Goto, TypeOK, CounterType, ParkType
  <2>4. Shape'
    BY ZenonT(60), <1>12 DEF ParkLock, Goto, TypeOK, QueueType, LabelType, HoldsAtLabel,
       CarriesAtLabel, EmptyPastLocal, RoomForBatch, ParkedAtLabel, Holding, Carrying
  <2> QED BY <2>1, <2>2, <2>3, <2>4 DEF TypeOK
<1>14. ASSUME NEW w \in Worker, Unpark(w) PROVE TypeOK' /\ Shape'
  <2>1. QueueType'
    BY <1>14 DEF Unpark, Goto, TypeOK, QueueType
  <2>2. LabelType'
    BY <1>14 DEF Unpark, Goto, TypeOK, LabelType, WorkerLabel,
       PusherLabel, PushLabel
  <2>3. CounterType' /\ ParkType'
    BY <1>14, StealTriesType DEF Unpark, Goto, TypeOK, CounterType, ParkType
  <2>4. Shape'
    BY SMTT(60), <1>14 DEF Unpark, Goto, TypeOK, QueueType, LabelType, HoldsAtLabel,
       CarriesAtLabel, EmptyPastLocal, RoomForBatch, ParkedAtLabel, Holding, Carrying
  <2> QED BY <2>1, <2>2, <2>3, <2>4 DEF TypeOK
<1>13. ASSUME NEW w \in Worker, Timeout(w) PROVE TypeOK' /\ Shape'
  <2>1. QueueType'
    BY <1>13 DEF Timeout, TypeOK, QueueType
  <2>2. LabelType'
    BY <1>13 DEF Timeout, TypeOK, LabelType, WorkerLabel,
       PusherLabel, PushLabel
  <2>3. CounterType' /\ ParkType'
    BY SMTT(60), <1>13, StealTriesType DEF Timeout, TypeOK, CounterType, ParkType
  <2>4. Shape'
    BY <1>13 DEF Timeout, TypeOK, QueueType, LabelType, HoldsAtLabel,
       CarriesAtLabel, EmptyPastLocal, RoomForBatch, ParkedAtLabel, Holding, Carrying
  <2> QED BY <2>1, <2>2, <2>3, <2>4 DEF TypeOK
<1>15. ASSUME NEW w \in Worker, PushLocal(w) PROVE TypeOK' /\ Shape'
  <2>1. CASE Len(local[w]) < LocalCapacity
    <3>0. /\ local' = [local EXCEPT ![w] = Append(local[w], hand[w])]
          /\ hand' = [hand EXCEPT ![w] = NoId]
          /\ pc[w] = "run" /\ pc' = [pc EXCEPT ![w] = "count2"]
          /\ UNCHANGED <<global, batch, outside, parking, counters, shutdown>>
      BY <1>15, <2>1 DEF PushLocal, Goto, TypeOK, QueueType
    <3>1. hand[w] \in Id /\ batch[w] = <<>> /\ Len(batch[w]) = 0
      <4>1. hand[w] \in Id
        BY SMTT(60), <3>0 DEF TypeOK, QueueType, HoldsAtLabel, Holding
      <4>2. batch[w] = <<>>
        BY <3>0 DEF CarriesAtLabel, Carrying
      <4>3. Len(<<>>) = 0
        OBVIOUS
      <4> QED BY SMTT(60), <4>1, <4>2, <4>3
    <3>2. /\ Append(local[w], hand[w]) \in Seq(Id) /\ Len(local[w]) \in Nat
          /\ Len(Append(local[w], hand[w])) = Len(local[w]) + 1
      BY SMTT(60), <3>1, AddLast DEF TypeOK, QueueType
    <3>3. Len(Append(local[w], hand[w])) + Len(batch[w]) <= LocalCapacity
      <4>1. \A m \in Nat : m < LocalCapacity => (m + 1) + 0 <= LocalCapacity
        BY CapacityType
      <4> QED BY <2>1, <3>1, <3>2, <4>1
    <3>4. QueueType'
      BY SMTT(60), <3>0, <3>1, <3>2, <3>3 DEF TypeOK, QueueType
    <3>5. LabelType'
      BY SMTT(60), <3>0, <3>1, <3>2, <3>3 DEF TypeOK, LabelType, WorkerLabel,
         PusherLabel, PushLabel
    <3>6. CounterType' /\ ParkType'
      BY SMTT(60), <3>0, <3>1, <3>2, <3>3, StealTriesType DEF TypeOK, CounterType, ParkType
    <3>7. Shape'
      BY SMTT(60), <3>0, <3>1, <3>2, <3>3 DEF TypeOK, QueueType, LabelType, HoldsAtLabel,
         CarriesAtLabel, EmptyPastLocal, RoomForBatch, ParkedAtLabel, Holding, Carrying
    <3> QED BY <3>4, <3>5, <3>6, <3>7 DEF TypeOK
  <2>2. CASE ~(Len(local[w]) < LocalCapacity)
    <3>0. /\ pc[w] = "run" /\ pc' = [pc EXCEPT ![w] = "pushGlobal"]
          /\ UNCHANGED <<queues, parking, counters, shutdown>>
      BY SMTT(60), <1>15, <2>2 DEF PushLocal, Goto
    <3>1. QueueType'
      BY SMTT(60), <3>0 DEF TypeOK, QueueType
    <3>2. LabelType'
      BY SMTT(60), <3>0 DEF TypeOK, LabelType, WorkerLabel,
         PusherLabel, PushLabel
    <3>3. CounterType' /\ ParkType'
      BY SMTT(60), <3>0, StealTriesType DEF TypeOK, CounterType, ParkType
    <3>4. Shape'
      BY SMTT(60), <3>0 DEF TypeOK, QueueType, LabelType, HoldsAtLabel,
         CarriesAtLabel, EmptyPastLocal, RoomForBatch, ParkedAtLabel, Holding, Carrying
    <3> QED BY <3>1, <3>2, <3>3, <3>4 DEF TypeOK
  <2> QED BY SMTT(60), <2>1, <2>2
<1>16. ASSUME NEW w \in Worker, Left(w) PROVE TypeOK' /\ Shape'
  <2>0. pc[w] = "run" /\ hand[w] \in Id
    BY SMTT(60), <1>16 DEF Left, Goto, TypeOK, QueueType, HoldsAtLabel, Holding
  <2>1. QueueType'
    BY SMTT(60), <1>16, <2>0 DEF Left, Goto, TypeOK, QueueType
  <2>2. LabelType'
    BY SMTT(60), <1>16, <2>0 DEF Left, Goto, TypeOK, LabelType, WorkerLabel,
       PusherLabel, PushLabel
  <2>3. CounterType' /\ ParkType'
    BY SMTT(60), <1>16, <2>0, StealTriesType DEF Left, Goto, TypeOK, CounterType, ParkType
  <2>4. Shape'
    BY SMTT(60), <1>16, <2>0 DEF Left, Goto, TypeOK, QueueType, LabelType, HoldsAtLabel,
       CarriesAtLabel, EmptyPastLocal, RoomForBatch, ParkedAtLabel, Holding, Carrying
  <2> QED BY <2>1, <2>2, <2>3, <2>4 DEF TypeOK
<1>17. ASSUME NEW t \in Thread, PushGlobal(t) PROVE TypeOK' /\ Shape'
  <2>0. hand[t] \in Id
    BY <1>17 DEF PushGlobal, Goto, TypeOK, QueueType, HoldsAtLabel, Holding
  <2>5. Append(global, hand[t]) \in Seq(Id)
    BY SMTT(60), <2>0, AddLast DEF TypeOK, QueueType
  <2>1. QueueType'
    BY SMTT(60), <1>17, <2>0, <2>5 DEF PushGlobal, Goto, TypeOK, QueueType
  <2>2. LabelType'
    BY SMTT(60), <1>17, <2>0, <2>5 DEF PushGlobal, Goto, TypeOK, LabelType, WorkerLabel,
       PusherLabel, PushLabel
  <2>3. CounterType' /\ ParkType'
    BY SMTT(60), <1>17, <2>0, <2>5, StealTriesType DEF PushGlobal, Goto, TypeOK, CounterType,
       ParkType
  <2>4. Shape'
    BY SMTT(60), <1>17, <2>0, <2>5 DEF PushGlobal, Goto, TypeOK, QueueType, LabelType,
       HoldsAtLabel,
       CarriesAtLabel, EmptyPastLocal, RoomForBatch, ParkedAtLabel, Holding, Carrying
  <2> QED BY SMTT(60), <2>1, <2>2, <2>3, <2>4 DEF TypeOK
<1>18. ASSUME NEW t \in Thread, CountParked(t) PROVE TypeOK' /\ Shape'
  <2>1. QueueType'
    BY SMTT(60), <1>18 DEF CountParked, AfterNotify, NotifyLabel, TypeOK, QueueType
  <2>2. LabelType'
    BY <1>18 DEF CountParked, AfterNotify, NotifyLabel, TypeOK, LabelType, WorkerLabel,
       PusherLabel, PushLabel
  <2>3. CounterType' /\ ParkType'
    BY SMTT(60), <1>18, StealTriesType DEF CountParked, AfterNotify, NotifyLabel, TypeOK,
       CounterType, ParkType
  <2>4. Shape'
    BY ZenonT(60), <1>18 DEF CountParked, AfterNotify, NotifyLabel, TypeOK, QueueType, LabelType,
       HoldsAtLabel,
       CarriesAtLabel, EmptyPastLocal, RoomForBatch, ParkedAtLabel, Holding, Carrying
  <2> QED BY <2>1, <2>2, <2>3, <2>4 DEF TypeOK
<1>19. ASSUME NEW t \in Thread, NotifyOne(t) PROVE TypeOK' /\ Shape'
  <2>1. QueueType'
    BY <1>19 DEF NotifyOne, AfterNotify, TypeOK, QueueType
  <2>2. LabelType'
    BY <1>19 DEF NotifyOne, AfterNotify, TypeOK, LabelType, WorkerLabel,
       PusherLabel, PushLabel
  <2>3. CounterType' /\ ParkType'
    BY <1>19, StealTriesType DEF NotifyOne, AfterNotify, TypeOK, CounterType, ParkType
  <2>4. Shape'
    BY ZenonT(60), <1>19 DEF NotifyOne, AfterNotify, TypeOK, QueueType, LabelType, HoldsAtLabel,
       CarriesAtLabel, EmptyPastLocal, RoomForBatch, ParkedAtLabel, Holding, Carrying
  <2> QED BY <2>1, <2>2, <2>3, <2>4 DEF TypeOK
<1>20. ASSUME NEW p \in Pusher, Wake(p) PROVE TypeOK' /\ Shape'
  <2>1. QueueType'
    BY <1>20 DEF Wake, Goto, TypeOK, QueueType
  <2>2. LabelType'
    BY SMTT(60), <1>20 DEF Wake, Goto, TypeOK, LabelType, WorkerLabel,
       PusherLabel, PushLabel
  <2>3. CounterType' /\ ParkType'
    BY SMTT(60), <1>20, StealTriesType DEF Wake, Goto, TypeOK, CounterType, ParkType
  <2>4. Shape'
    BY <1>20 DEF Wake, Goto, TypeOK, QueueType, LabelType, HoldsAtLabel,
       CarriesAtLabel, EmptyPastLocal, RoomForBatch, ParkedAtLabel, Holding, Carrying
  <2> QED BY <2>1, <2>2, <2>3, <2>4 DEF TypeOK
<1>21. ASSUME ClearRunning \/ WakeAll \/ Joined PROVE TypeOK' /\ Shape'
  <2>1. QueueType'
    BY SMTT(60), <1>21 DEF ClearRunning, WakeAll, Joined, TypeOK, QueueType
  <2>2. LabelType'
    BY SMTT(60), <1>21 DEF ClearRunning, WakeAll, Joined, TypeOK, LabelType, WorkerLabel,
       PusherLabel, PushLabel
  <2>3. CounterType' /\ ParkType'
    BY ZenonT(60), <1>21, StealTriesType DEF ClearRunning, WakeAll, Joined, TypeOK, CounterType,
       ParkType
  <2>4. Shape'
    BY ZenonT(60), <1>21 DEF ClearRunning, WakeAll, Joined, TypeOK, QueueType, LabelType,
       HoldsAtLabel,
       CarriesAtLabel, EmptyPastLocal, RoomForBatch, ParkedAtLabel, Holding, Carrying
  <2> QED BY SMTT(60), <2>1, <2>2, <2>3, <2>4 DEF TypeOK
<1>22. CASE UNCHANGED vars
  <2>1. QueueType'
    BY <1>22 DEF vars, TypeOK, QueueType
  <2>2. LabelType'
    BY SMTT(60), <1>22 DEF vars, TypeOK, LabelType, WorkerLabel,
       PusherLabel, PushLabel
  <2>3. CounterType' /\ ParkType'
    BY SMTT(60), <1>22, StealTriesType DEF vars, TypeOK, CounterType, ParkType
  <2>4. Shape'
    BY SMTT(60), <1>22 DEF vars, TypeOK, QueueType, LabelType, HoldsAtLabel,
       CarriesAtLabel, EmptyPastLocal, RoomForBatch, ParkedAtLabel, Holding, Carrying
  <2> QED BY <2>1, <2>2, <2>3, <2>4 DEF TypeOK
<1> QED
  BY ZenonT(60), <1>1, <1>2, <1>3, <1>4, <1>5, <1>6, <1>7, <1>8, <1>9, <1>10, <1>11, <1>12,
     <1>13, <1>14, <1>15, <1>16, <1>17, <1>18, <1>19, <1>20, <1>21, <1>22, <1>23, <1>24
  DEF Next, PopStep, ParkStep, PushStep, Return, Finished

-----------------------------------------------------------------------------
(* Conservation and refinement.  A step of the queue keeps the queues free   *)
(* of duplicates and is a step of ReadySet; a step of ReadySet neither loses *)
(* an id nor gives it two holders.                                           *)

LEMMA AbstractStepKeeps ==
  ASSUME hand \in [Thread -> Id \cup {NoId}], outside \subseteq Id, NoId \notin Id,
         Queued \subseteq Id, HeldOnce, NoneLost, RS!Next
  PROVE  HeldOnce' /\ NoneLost'
<1> DEFINE q == Queued
           r == Queued'
<1>h. ASSUME NEW id \in Id
      PROVE  /\ id \in outside \/ id \in q \/ \E t \in Thread : hand[t] = id
             /\ ~(id \in outside /\ id \in q)
  BY DEF NoneLost, Range
<1>o. \A t, u \in Thread : hand[t] # NoId =>
        hand[t] \notin q \cup outside /\ (u # t => hand[u] # hand[t])
  BY DEF HeldOnce
<1>s. SUFFICES /\ \A t, u \in Thread : hand'[t] # NoId =>
                    hand'[t] \notin r \cup outside' /\ (u # t => hand'[u] # hand'[t])
               /\ \A id \in Id : /\ ~(id \in outside' /\ id \in r)
                                 /\ \/ id \in outside' \/ id \in r
                                    \/ \E t \in Thread : hand'[t] = id
               /\ DOMAIN hand' = Thread
               /\ outside' \subseteq Id
  BY DEF HeldOnce, NoneLost, Range
<1> HIDE DEF q, r
<1>1. PICK t \in Thread : RS!Take(t) \/ RS!Push(t) \/ RS!Pop(t) \/ RS!Leave(t)
  BY DEF RS!Next
<1>2. CASE RS!Take(t)
  <2>1. PICK id \in outside : outside' = outside \ {id} /\ hand' = [hand EXCEPT ![t] = id]
    BY ZenonT(60), <1>2 DEF RS!Take
  <2>2. r = q /\ hand[t] = NoId
    BY <1>2 DEF RS!Take, q, r
  <2> QED BY <1>h, <1>o, <2>1, <2>2
<1>3. CASE RS!Push(t)
  <2>1. r = q \cup {hand[t]} /\ hand' = [hand EXCEPT ![t] = NoId] /\ outside' = outside
        /\ hand[t] # NoId
    BY <1>3 DEF RS!Push, q, r
  <2> QED BY <1>h, <1>o, <2>1
<1>4. CASE RS!Pop(t)
  <2>1. PICK id \in q : r = q \ {id} /\ hand' = [hand EXCEPT ![t] = id]
    BY ZenonT(60), <1>4 DEF RS!Pop, q, r
  <2>2. outside' = outside /\ hand[t] = NoId /\ id \in Id
    BY <1>4, <2>1 DEF RS!Pop, q
  <2> QED BY <1>h, <1>o, <2>1, <2>2
<1>5. CASE RS!Leave(t)
  <2>1. r = q /\ hand' = [hand EXCEPT ![t] = NoId] /\ outside' = outside \cup {hand[t]}
        /\ hand[t] # NoId /\ hand[t] \in Id
    BY <1>5 DEF RS!Leave, q, r
  <2> QED BY <1>h, <1>o, <2>1
<1> QED BY ZenonT(60), <1>1, <1>2, <1>3, <1>4, <1>5

LEMMA StepRefines ==
  ASSUME TypeOK, Shape, NoDuplicate, HeldOnce, [Next]_vars
  PROVE  NoDuplicate' /\ (RS!Next \/ UNCHANGED <<outside, hand, Queued>>)
<1> USE DEF Shape, Thread
<1> DEFINE Goal == NoDuplicate' /\ (RS!Next \/ UNCHANGED <<outside, hand, Queued>>)
<1>q. \A id : id \in Queued <=> \/ id \in Range(global)
                                \/ \E w \in Worker : \/ id \in Range(local[w])
                                                     \/ id \in Range(batch[w])
  BY DEF Queued
<1>p. \A id : id \in Queued' <=> \/ id \in Range(global')
                                 \/ \E w \in Worker : \/ id \in Range(local'[w])
                                                      \/ id \in Range(batch'[w])
  BY SMTT(60) DEF Queued
\* Steps that move no id.
<1>1. ASSUME UNCHANGED queues PROVE Goal
  BY <1>1 DEF queues, NoDuplicate, Apart, Queued
\* A worker takes the head of the global queue.
<1>2. ASSUME NEW w \in Worker, global # <<>>, hand[w] = NoId,
             hand' = [hand EXCEPT ![w] = Head(global)], global' = Tail(global),
             UNCHANGED <<local, batch, outside>>
      PROVE  Goal
  <2>1. /\ Range(global) = {Head(global)} \cup Range(global')
        /\ Head(global) \notin Range(global') /\ IsInjective(global')
    BY SMTT(60), <1>2, TakeHead DEF TypeOK, QueueType, NoDuplicate
  <2>2. NoDuplicate'
    BY ZenonT(60), <1>2, <2>1 DEF NoDuplicate, Apart
  <2>3. Queued' = Queued \ {Head(global)} /\ Head(global) \in Queued
    <3>1. \A v \in Worker : /\ Head(global) \notin Range(local[v])
                           /\ Head(global) \notin Range(batch[v])
      BY ZenonT(60), <2>1 DEF NoDuplicate, Apart
    <3>2. \A id : id \in Queued' <=> id \in Queued /\ id # Head(global)
      BY ZenonT(60), <1>2, <2>1, <3>1, <1>q, <1>p
    <3>3. Head(global) \in Queued
      BY Zenon, <2>1, <1>q
    <3> QED BY ZenonT(60), <3>2, <3>3
  <2>4. RS!Pop(w)
    BY ZenonT(60), <1>2, <2>3 DEF RS!Pop
  <2> QED BY SMTT(60), <2>2, <2>4 DEF RS!Next
<1>3. ASSUME NEW w \in Worker, PopGlobalFirst(w) PROVE Goal
  <2>1. pc[w] = "globalFirst" /\ hand[w] = NoId
    BY <1>3 DEF PopGlobalFirst, HoldsAtLabel, Holding
  <2>2. CASE global = <<>>
    BY <1>1, <1>3, <2>2 DEF PopGlobalFirst, queues
  <2>3. CASE global # <<>>
    BY SMTT(60), <1>2, <1>3, <2>1, <2>3 DEF PopGlobalFirst
  <2> QED BY <2>2, <2>3
<1>4. ASSUME NEW w \in Worker, PopLocal(w) PROVE Goal
  <2>1. pc[w] = "local" /\ hand[w] = NoId
    BY SMTT(60), <1>4 DEF PopLocal, HoldsAtLabel, Holding
  <2>2. CASE local[w] = <<>>
    BY ZenonT(60), <1>1, <1>4, <2>2 DEF PopLocal, queues
  <2>3. CASE local[w] # <<>>
    <3>1. /\ hand' = [hand EXCEPT ![w] = Head(local[w])]
          /\ local' = [local EXCEPT ![w] = Tail(local[w])]
          /\ UNCHANGED <<global, batch, outside>>
      BY ZenonT(60), <1>4, <2>3 DEF PopLocal
    <3> DEFINE x == Head(local[w])
               r == Tail(local[w])
    <3>2. /\ local'[w] = r
          /\ \A v \in Worker : v # w => local'[v] = local[v]
      BY SMTT(60), <3>1 DEF TypeOK, QueueType
    <3>3. /\ Range(local[w]) = {x} \cup Range(r)
          /\ x \notin Range(r) /\ IsInjective(r)
      BY <2>3, TakeHead DEF TypeOK, QueueType, NoDuplicate
    <3> HIDE DEF x, r
    <3>4. NoDuplicate'
      BY <3>1, <3>2, <3>3, ZenonT(60) DEF NoDuplicate, Apart
    <3>5. Queued' = Queued \ {x} /\ x \in Queued
      <4>1. x \notin Range(global) /\ \A v \in Worker : x \notin Range(batch[v])
        BY <3>3 DEF NoDuplicate, Apart
      <4>2. \A v \in Worker : v # w => x \notin Range(local[v])
        BY ZenonT(60), <3>3 DEF NoDuplicate, Apart
      <4>3. x \notin Queued'
        BY ZenonT(60), <3>1, <3>2, <3>3, <4>1, <4>2, <1>p
      <4>4. ASSUME NEW id, id # x PROVE id \in Queued' <=> id \in Queued
        BY ZenonT(60), <3>1, <3>2, <3>3, <4>4, <1>q, <1>p
      <4> QED BY <3>3, <4>3, <4>4, <1>q
    <3>6. RS!Pop(w)
      BY ZenonT(60), <2>1, <3>1, <3>5 DEF RS!Pop, x
    <3> QED BY <3>4, <3>6 DEF RS!Next
  <2> QED BY SMTT(60), <2>2, <2>3
<1>5. ASSUME NEW w \in Worker, PopGlobal(w) PROVE Goal
  <2>1. pc[w] = "global" /\ hand[w] = NoId
    BY <1>5 DEF PopGlobal, Goto, HoldsAtLabel, Holding
  <2>2. CASE global = <<>>
    BY SMTT(60), <1>1, <1>5, <2>2 DEF PopGlobal, queues
  <2>3. CASE global # <<>>
    BY SMTT(60), <1>2, <1>5, <2>1, <2>3 DEF PopGlobal
  <2> QED BY <2>2, <2>3
<1>6. ASSUME NEW w \in Worker, PopBatch(w) PROVE Goal
  <2> DEFINE n == IF Len(global) < BatchMax THEN Len(global) ELSE BatchMax
             a == SubSeq(global, 1, n)
             b == SubSeq(global, n + 1, Len(global))
  <2>1. n \in 0 .. Len(global)
    BY SMTT(60), BatchMaxType DEF TypeOK, QueueType
  <2>2. /\ Range(global) = Range(a) \cup Range(b) /\ Range(a) \cap Range(b) = {}
        /\ IsInjective(a) /\ IsInjective(b)
    BY SMTT(60), <2>1, SplitAt DEF TypeOK, QueueType, NoDuplicate
  <2>3. /\ batch' = [batch EXCEPT ![w] = a] /\ global' = b /\ batch[w] = <<>>
        /\ UNCHANGED <<local, hand, outside>>
    BY <1>6 DEF PopBatch, Goto, CarriesAtLabel, Carrying
  <2> HIDE DEF n, a, b
  <2>4. batch'[w] = a /\ \A v \in Worker : v # w => batch'[v] = batch[v]
    BY SMTT(60), <2>3 DEF TypeOK, QueueType
  <2>5. NoDuplicate'
    <3>1. /\ IsInjective(global')
          /\ \A v \in Worker : /\ IsInjective(local'[v]) /\ IsInjective(batch'[v])
                               /\ Apart(global', local'[v]) /\ Apart(global', batch'[v])
      BY ZenonT(60), <2>2, <2>3, <2>4 DEF NoDuplicate, Apart
    <3>2. \A u, v \in Worker : Apart(local'[u], batch'[v])
      BY ZenonT(60), <2>2, <2>3, <2>4 DEF NoDuplicate, Apart
    <3>3. \A u, v \in Worker : u # v => /\ Apart(local'[u], local'[v])
                                       /\ Apart(batch'[u], batch'[v])
      BY ZenonT(60), <2>2, <2>3, <2>4 DEF NoDuplicate, Apart
    <3> QED BY ZenonT(60), <3>1, <3>2, <3>3 DEF NoDuplicate, Apart
  <2>6. Range(batch[w]) = {}
    BY <2>3 DEF Range
  <2>7. Queued' = Queued
    BY ZenonT(60), <2>2, <2>3, <2>4, <2>6, <1>q, <1>p
  <2> QED BY SMTT(60), <2>3, <2>5, <2>7
\* A worker moves the head of its batch to the end of its local queue.
<1>7. ASSUME NEW w \in Worker, batch[w] # <<>>,
             local' = [local EXCEPT ![w] = Append(local[w], Head(batch[w]))],
             batch' = [batch EXCEPT ![w] = Tail(batch[w])],
             UNCHANGED <<global, hand, outside>>
      PROVE  Goal
  <2>1. /\ Head(batch[w]) \in Id
        /\ Range(batch[w]) = {Head(batch[w])} \cup Range(Tail(batch[w]))
        /\ Head(batch[w]) \notin Range(Tail(batch[w])) /\ IsInjective(Tail(batch[w]))
    BY SMTT(60), <1>7, TakeHead DEF TypeOK, QueueType, NoDuplicate
  <2>2. Head(batch[w]) \notin Range(local[w])
    BY SMTT(60), <2>1 DEF NoDuplicate, Apart
  <2>3. /\ Range(Append(local[w], Head(batch[w]))) = Range(local[w]) \cup {Head(batch[w])}
        /\ IsInjective(Append(local[w], Head(batch[w])))
    BY SMTT(60), <2>1, <2>2, AddLast DEF TypeOK, QueueType, NoDuplicate
  <2> DEFINE x == Head(batch[w])
             s == Append(local[w], x)
             r == Tail(batch[w])
  <2>4. /\ local'[w] = s /\ batch'[w] = r
        /\ \A v \in Worker : v # w => local'[v] = local[v] /\ batch'[v] = batch[v]
    BY SMTT(60), <1>7 DEF TypeOK, QueueType
  <2>5. /\ Range(batch[w]) = {x} \cup Range(r) /\ x \notin Range(r) /\ IsInjective(r)
        /\ Range(s) = Range(local[w]) \cup {x} /\ IsInjective(s)
    BY SMTT(60), <2>1, <2>3
  <2> HIDE DEF x, s, r
  <2>6. NoDuplicate'
    <3>1. /\ IsInjective(global')
          /\ \A v \in Worker : /\ IsInjective(local'[v]) /\ IsInjective(batch'[v])
                               /\ Apart(global', local'[v]) /\ Apart(global', batch'[v])
      BY ZenonT(60), <1>7, <2>4, <2>5 DEF NoDuplicate, Apart
    <3>2. ASSUME NEW u \in Worker, NEW v \in Worker
          PROVE  Apart(local'[u], batch'[v])
      <4>1. /\ Apart(local[u], batch[v]) /\ Apart(local[u], batch[w])
            /\ Apart(local[w], batch[v]) /\ Apart(local[w], batch[w])
            /\ v # w => Apart(batch[v], batch[w])
        BY SMTT(60) DEF NoDuplicate
      <4>2. CASE u = w /\ v = w  BY SMTT(60), <2>4, <2>5, <4>1, <4>2 DEF Apart
      <4>3. CASE u = w /\ v # w  BY SMTT(60), <2>4, <2>5, <4>1, <4>3 DEF Apart
      <4>4. CASE u # w /\ v = w  BY ZenonT(60), <2>4, <2>5, <4>1, <4>4 DEF Apart
      <4>5. CASE u # w /\ v # w  BY SMTT(60), <2>4, <4>1, <4>5
      <4> QED BY SMTT(60), <4>2, <4>3, <4>4, <4>5
    <3>3. \A u, v \in Worker : u # v => /\ Apart(local'[u], local'[v])
                                       /\ Apart(batch'[u], batch'[v])
      BY ZenonT(60), <2>4, <2>5 DEF NoDuplicate, Apart
    <3> QED BY ZenonT(60), <3>1, <3>2, <3>3 DEF NoDuplicate, Apart
  <2>7. Queued' = Queued
    BY ZenonT(60), <1>7, <2>4, <2>5, <1>q, <1>p
  <2> QED BY <1>7, <2>6, <2>7
\* What a worker carries fits into its local queue.
<1>8. ASSUME NEW w \in Worker, batch[w] # <<>> PROVE Len(local[w]) < LocalCapacity
  <2>1. /\ Len(local[w]) \in Nat /\ Len(batch[w]) \in Nat
        /\ Tail(batch[w]) \in Seq(Id) /\ Len(Tail(batch[w])) = Len(batch[w]) - 1
    BY <1>8, TakeHead DEF TypeOK, QueueType
  <2>2. Len(batch[w]) - 1 \in Nat
    BY <2>1
  <2>3. Len(local[w]) + Len(batch[w]) <= LocalCapacity
    BY ZenonT(60) DEF RoomForBatch
  <2> QED BY ZenonT(60), <2>1, <2>2, <2>3, Room, CapacityType
<1>9. ASSUME NEW w \in Worker, FillLocal(w) PROVE Goal
  <2>1. CASE batch[w] = <<>>
    BY ZenonT(60), <1>1, <1>9, <2>1 DEF FillLocal, queues
  <2>2. CASE batch[w] # <<>>
    BY ZenonT(60), <1>7, <1>8, <1>9, <2>2 DEF FillLocal
  <2> QED BY <2>1, <2>2
<1>10. ASSUME NEW w \in Worker, Stash(w) PROVE Goal
  <2>1. CASE batch[w] = <<>>
    BY ZenonT(60), <1>1, <1>10, <2>1 DEF Stash, queues
  <2>2. CASE batch[w] # <<>>
    BY ZenonT(60), <1>7, <1>8, <1>10, <2>2 DEF Stash
  <2> QED BY <2>1, <2>2
<1>11. ASSUME NEW w \in Worker, NEW v \in Worker, Steal(w, v) PROVE Goal
  <2> DEFINE n == Len(local[v]) \div 2
             b == SubSeq(local[v], n + 1, Len(local[v]))
             c == SubSeq(local[v], 2, n)
             x == Head(local[v])
  <2>1. /\ pc[w] = "steal" /\ UNCHANGED <<global, outside>>
        /\ \/ UNCHANGED <<local, hand, batch>>
           \/ /\ v # w /\ n > 0
              /\ hand' = [hand EXCEPT ![w] = x] /\ batch' = [batch EXCEPT ![w] = c]
              /\ local' = [local EXCEPT ![v] = b]
    BY ZenonT(60), <1>11 DEF Steal, Goto
  <2>2. CASE UNCHANGED <<local, hand, batch>>
    BY <1>1, <2>1, <2>2 DEF queues
  <2>3. CASE /\ v # w /\ n > 0
             /\ hand' = [hand EXCEPT ![w] = x] /\ batch' = [batch EXCEPT ![w] = c]
             /\ local' = [local EXCEPT ![v] = b]
    <3>0. Len(local[v]) \in Nat
      BY DEF TypeOK, QueueType
    <3>1. n \in Nat /\ n <= Len(local[v])
      BY ZenonT(60), <3>0, Half
    <3> HIDE DEF n
    <3>2. /\ hand' = [hand EXCEPT ![w] = x] /\ batch' = [batch EXCEPT ![w] = c]
          /\ local' = [local EXCEPT ![v] = b] /\ pc[w] = "steal"
          /\ UNCHANGED <<global, outside>>
      BY <2>1, <2>3
    <3>3. n \in 1 .. Len(local[v])
      BY <2>3, <3>0, <3>1
    <3>4. /\ Range(local[v]) = {x} \cup Range(c) \cup Range(b)
          /\ IsInjective(b) /\ IsInjective(c) /\ Range(b) \cap Range(c) = {}
          /\ x \notin Range(b) \cup Range(c)
      BY ZenonT(60), <3>3, StealSplit DEF TypeOK, QueueType, NoDuplicate
    <3> HIDE DEF b, c, x
    <3>5. hand[w] = NoId /\ batch[w] = <<>> /\ Range(batch[w]) = {}
      <4>1. hand[w] = NoId /\ batch[w] = <<>>
        BY SMTT(60), <3>2 DEF HoldsAtLabel, Holding, CarriesAtLabel, Carrying
      <4> QED BY Zenon, <4>1, EmptyRange
    <3>6. /\ local'[v] = b /\ \A u \in Worker : u # v => local'[u] = local[u]
          /\ batch'[w] = c /\ \A u \in Worker : u # w => batch'[u] = batch[u]
      BY SMTT(60), <3>2 DEF TypeOK, QueueType
    <3>7. NoDuplicate'
      <4>1. /\ IsInjective(global')
            /\ \A u \in Worker : /\ IsInjective(local'[u]) /\ IsInjective(batch'[u])
                                 /\ Apart(global', local'[u]) /\ Apart(global', batch'[u])
        BY ZenonT(60), <3>2, <3>4, <3>6 DEF NoDuplicate, Apart
      <4>2. \A u, y \in Worker : Apart(local'[u], batch'[y])
        BY ZenonT(60), <3>4, <3>6 DEF NoDuplicate, Apart
      <4>3. \A u, y \in Worker : u # y => /\ Apart(local'[u], local'[y])
                                         /\ Apart(batch'[u], batch'[y])
        BY <3>4, <3>6, ZenonT(60) DEF NoDuplicate, Apart
      <4> QED BY ZenonT(60), <4>1, <4>2, <4>3 DEF NoDuplicate, Apart
    <3>8. Queued' = Queued \ {x} /\ x \in Queued
      <4>1. /\ x \notin Range(global) /\ \A u \in Worker : x \notin Range(batch[u])
            /\ \A u \in Worker : u # v => x \notin Range(local[u])
        BY <3>4 DEF NoDuplicate, Apart
      <4>2. x \notin Queued'
        BY SMTT(60), <3>2, <3>4, <3>6, <4>1, <1>p
      <4>3. ASSUME NEW id, id # x, id \in Queued' PROVE id \in Queued
        BY SMTT(60), <3>2, <3>4, <3>6, <4>3, <1>q, <1>p
      <4>4. ASSUME NEW id, id # x, id \in Queued PROVE id \in Queued'
        BY ZenonT(60), <3>2, <3>4, <3>5, <3>6, <4>4, <1>q, <1>p
      <4> QED BY <3>4, <4>2, <4>3, <4>4, <1>q
    <3>9. RS!Pop(w)
      BY ZenonT(60), <3>2, <3>5, <3>8 DEF RS!Pop
    <3> QED BY <3>7, <3>9 DEF RS!Next
  <2> QED BY ZenonT(60), <2>1, <2>2, <2>3
<1>12. ASSUME NEW w \in Worker, PushLocal(w) PROVE Goal
  <2>1. CASE Len(local[w]) < LocalCapacity
    <3> DEFINE x == hand[w]
               s == Append(local[w], x)
    <3>0. /\ local' = [local EXCEPT ![w] = s] /\ hand' = [hand EXCEPT ![w] = NoId]
          /\ pc[w] = "run" /\ UNCHANGED <<global, batch, outside>>
      <4>1. ~(Len(local[w]) >= LocalCapacity)
        <5>1. Len(local[w]) \in Nat
          BY DEF TypeOK, QueueType
        <5>2. \A m, k \in Nat : m < k => ~(m >= k)
          BY SMTT(60)
        <5> QED BY SMTT(60), <2>1, <5>1, <5>2, CapacityType
      <4> QED BY SMTT(60), <1>12, <4>1 DEF PushLocal, Goto
    <3>1. x \in Id /\ x # NoId
      BY SMTT(60), <3>0 DEF TypeOK, QueueType, HoldsAtLabel, Holding
    <3>2. x \notin Queued
      BY SMTT(60), <3>1 DEF HeldOnce
    <3>3. Range(s) = Range(local[w]) \cup {x} /\ IsInjective(s)
      <4>1. x \notin Range(local[w])
        BY ZenonT(60), <3>2, <1>q
      <4> QED BY SMTT(60), <3>1, <4>1, AddLast DEF TypeOK, QueueType, NoDuplicate
    <3>4. local'[w] = s /\ \A v \in Worker : v # w => local'[v] = local[v]
      BY SMTT(60), <3>0 DEF TypeOK, QueueType
    <3>5. /\ x \notin Range(global)
          /\ \A v \in Worker : x \notin Range(local[v]) /\ x \notin Range(batch[v])
      BY SMTT(60), <3>2, <1>q
    <3> HIDE DEF s, x
    <3>6. NoDuplicate'
      <4>1. /\ IsInjective(global')
            /\ \A u \in Worker : /\ IsInjective(local'[u]) /\ IsInjective(batch'[u])
                                 /\ Apart(global', local'[u]) /\ Apart(global', batch'[u])
        BY ZenonT(60), <3>0, <3>3, <3>4, <3>5 DEF NoDuplicate, Apart
      <4>2. ASSUME NEW u \in Worker, NEW y \in Worker
            PROVE  Apart(local'[u], batch'[y])
        <5>1. Apart(local[u], batch[y]) /\ batch'[y] = batch[y]
          BY ZenonT(60), <3>0 DEF NoDuplicate
        <5>2. CASE u = w  BY ZenonT(60), <3>3, <3>4, <3>5, <5>1, <5>2 DEF Apart
        <5>3. CASE u # w  BY SMTT(60), <3>4, <5>1, <5>3
        <5> QED BY <5>2, <5>3
      <4>3. ASSUME NEW u \in Worker, NEW y \in Worker, u # y
            PROVE  Apart(local'[u], local'[y]) /\ Apart(batch'[u], batch'[y])
        <5>1. /\ Apart(local[u], local[y]) /\ Apart(batch[u], batch[y])
              /\ batch'[u] = batch[u] /\ batch'[y] = batch[y]
          BY ZenonT(60), <3>0, <4>3 DEF NoDuplicate
        <5>2. CASE u = w  BY ZenonT(60), <3>3, <3>4, <3>5, <4>3, <5>1, <5>2 DEF Apart
        <5>3. CASE y = w  BY ZenonT(60), <3>3, <3>4, <3>5, <4>3, <5>1, <5>3 DEF Apart
        <5>4. CASE u # w /\ y # w  BY SMTT(60), <3>4, <5>1, <5>4
        <5> QED BY SMTT(60), <5>2, <5>3, <5>4
      <4> QED BY ZenonT(60), <4>1, <4>2, <4>3 DEF NoDuplicate, Apart
    <3>7. Queued' = Queued \cup {x}
      BY ZenonT(60), <3>0, <3>3, <3>4, <1>q, <1>p
    <3>8. RS!Push(w)
      BY SMTT(60), <3>0, <3>1, <3>7 DEF RS!Push, x
    <3> QED BY <3>6, <3>8 DEF RS!Next
  <2>2. CASE ~(Len(local[w]) < LocalCapacity)
    BY SMTT(60), <1>1, <1>12, <2>2 DEF PushLocal, queues
  <2> QED BY <2>1, <2>2
<1>13. ASSUME NEW t \in Thread, PushGlobal(t) PROVE Goal
  <2> DEFINE x == hand[t]
             s == Append(global, x)
  <2>0. /\ global' = s /\ hand' = [hand EXCEPT ![t] = NoId]
        /\ pc[t] = "pushGlobal" /\ UNCHANGED <<local, batch, outside>>
    BY <1>13 DEF PushGlobal, Goto
  <2>1. x \in Id /\ x # NoId
    BY <2>0 DEF TypeOK, QueueType, HoldsAtLabel, Holding
  <2>2. x \notin Queued
    BY SMTT(60), <2>1 DEF HeldOnce
  <2>3. Range(s) = Range(global) \cup {x} /\ IsInjective(s)
    <3>1. x \notin Range(global)
      BY SMTT(60), <2>2, <1>q
    <3> QED BY SMTT(60), <2>1, <3>1, AddLast DEF TypeOK, QueueType, NoDuplicate
  <2>4. \A v \in Worker : x \notin Range(local[v]) /\ x \notin Range(batch[v])
    BY SMTT(60), <2>2, <1>q
  <2> HIDE DEF s, x
  <2>5. NoDuplicate'
    BY ZenonT(60), <2>0, <2>3, <2>4 DEF NoDuplicate, Apart
  <2>6. Queued' = Queued \cup {x}
    BY ZenonT(60), <2>0, <2>3, <1>q, <1>p
  <2>7. RS!Push(t)
    BY <2>0, <2>1, <2>6 DEF RS!Push, x
  <2> QED BY <2>5, <2>7 DEF RS!Next
<1>14. ASSUME NEW w \in Worker, Left(w) PROVE Goal
  <2>1. /\ pc[w] = "run" /\ hand' = [hand EXCEPT ![w] = NoId]
        /\ outside' = outside \cup {hand[w]} /\ UNCHANGED <<local, global, batch>>
    BY SMTT(60), <1>14 DEF Left, Goto
  <2>2. hand[w] # NoId
    BY SMTT(60), <2>1 DEF HoldsAtLabel, Holding
  <2>3. NoDuplicate' /\ Queued' = Queued
    BY ZenonT(60), <2>1 DEF NoDuplicate, Apart, Queued
  <2>4. RS!Leave(w)
    BY SMTT(60), <2>1, <2>2, <2>3 DEF RS!Leave
  <2> QED BY SMTT(60), <2>3, <2>4 DEF RS!Next
<1>15. ASSUME NEW p \in Pusher, Wake(p) PROVE Goal
  <2>1. pc[p] = "ready" /\ UNCHANGED <<local, global, batch>>
    BY SMTT(60), <1>15 DEF Wake, Goto
  <2>2. hand[p] = NoId
    BY SMTT(60), <2>1 DEF HoldsAtLabel, Holding
  <2>3. NoDuplicate' /\ Queued' = Queued
    BY ZenonT(60), <2>1 DEF NoDuplicate, Apart, Queued
  <2>4. RS!Take(p)
    BY ZenonT(60), <1>15, <2>2, <2>3 DEF RS!Take, Wake
  <2> QED BY SMTT(60), <2>3, <2>4 DEF RS!Next
<1>16. ASSUME NEW w \in Worker,
              \/ Check(w) \/ PopTick(w) \/ Idle(w) \/ WaitIo(w)
              \/ ParkStep(w) \/ Timeout(w)
       PROVE  Goal
  BY SMTT(60), <1>1, <1>16 DEF Check, PopTick, Idle, WaitIo, ParkStep, Park, ParkLock, Unpark, Timeout
<1>20. ASSUME NEW w \in Worker, IoDone(w) PROVE Goal
  <2>1. pc[w] = "ring" /\ UNCHANGED <<local, global, batch>>
    BY SMTT(60), <1>20 DEF IoDone, Goto
  <2>2. hand[w] = NoId
    BY SMTT(60), <2>1 DEF HoldsAtLabel, Holding
  <2>3. NoDuplicate' /\ Queued' = Queued
    BY ZenonT(60), <2>1 DEF NoDuplicate, Apart, Queued
  <2>4. RS!Take(w) \/ UNCHANGED <<outside, hand>>
    BY ZenonT(60), <1>20, <2>2, <2>3 DEF RS!Take, IoDone
  <2> QED BY SMTT(60), <2>3, <2>4 DEF RS!Next
<1>17. ASSUME NEW t \in Thread, CountParked(t) \/ NotifyOne(t) PROVE Goal
  BY SMTT(60), <1>1, <1>17 DEF CountParked, NotifyOne
<1>18. ASSUME ClearRunning \/ WakeAll \/ Joined PROVE Goal
  BY SMTT(60), <1>1, <1>18 DEF ClearRunning, WakeAll, Joined
<1>19. CASE UNCHANGED vars
  BY SMTT(60), <1>1, <1>19 DEF vars, queues
<1> QED
  BY ZenonT(60), <1>3, <1>4, <1>5, <1>6, <1>9, <1>10, <1>11, <1>12, <1>13, <1>14, <1>15,
     <1>16, <1>17, <1>18, <1>19, <1>20
  DEF Next, PopStep, PushStep, Return, Finished

\* The inductive invariant.
IInv == TypeOK /\ Shape /\ Conservation

LEMMA QueuedType == TypeOK => Queued \subseteq Id
<1> SUFFICES ASSUME TypeOK, NEW id \in Queued PROVE id \in Id
  OBVIOUS
<1>1. ASSUME NEW s \in Seq(Id) PROVE Range(s) \subseteq Id
  BY DEF Range
<1> QED BY <1>1 DEF Queued, TypeOK, QueueType

LEMMA InitConserves == Init => Conservation
<1> SUFFICES ASSUME Init PROVE Conservation
  OBVIOUS
<1>1. Range(<<>>) = {} /\ IsInjective(<<>>)
  BY DEF Range, IsInjective
<1>2. Queued = {}
  BY SMTT(60), <1>1 DEF Queued, Init
<1>3. NoDuplicate
  BY SMTT(60), <1>1 DEF Init, NoDuplicate, Apart
<1>4. HeldOnce
  BY DEF Init, HeldOnce
<1>5. NoneLost
  BY <1>2 DEF Init, NoneLost
<1> QED BY <1>3, <1>4, <1>5 DEF Conservation

LEMMA StepIInv == IInv /\ [Next]_vars => IInv'
<1> SUFFICES ASSUME TypeOK, Shape, Conservation, [Next]_vars PROVE IInv'
  BY DEF IInv
<1>1. TypeOK' /\ Shape'
  BY StepTyped
<1>2. NoDuplicate' /\ (RS!Next \/ UNCHANGED <<outside, hand, Queued>>)
  BY StepRefines DEF Conservation
<1>3. CASE RS!Next
  <2>1. HeldOnce' /\ NoneLost'
    BY SMTT(60), <1>3, AbstractStepKeeps, QueuedType, ReadyQueueAssumption
    DEF Conservation, TypeOK, QueueType, ReadyQueueAssumption
  <2> QED BY SMTT(60), <1>1, <1>2, <2>1 DEF IInv, Conservation
<1>4. CASE UNCHANGED <<outside, hand, Queued>>
  <2>1. HeldOnce' /\ NoneLost'
    BY <1>4 DEF HeldOnce, NoneLost, Conservation
  <2> QED BY <1>1, <1>2, <2>1 DEF IInv, Conservation
<1> QED BY <1>2, <1>3, <1>4

LEMMA Invariance == Spec => []IInv
<1>1. Init => IInv
  BY InitTyped, InitConserves DEF IInv
<1> QED BY <1>1, StepIInv, PTL DEF Spec

\* Every variable keeps its type, whatever the number of threads and ids and
\* whatever the capacity.  In particular a thread that pushes holds an id, so
\* no queue of simple.rs ever contains anything else.
THEOREM TypeCorrect == Spec => []TypeOK
  BY Invariance, PTL DEF IInv

\* Every id is in exactly one place at any time: the pushes, pops, batch
\* transfers and steals of any number of workers neither lose nor duplicate
\* one.  What makes it true is that a worker reaches the batch and steal steps
\* of pop with an empty local queue to which nobody else adds, so that what it
\* carries always fits (RoomForBatch) and the ignored result of the push at
\* simple.rs:306 is always true.
THEOREM ConservationHolds == Spec => []Conservation
  BY Invariance, PTL DEF IInv

\* SimpleQueue implements the abstract ready set: a push adds the id once, a
\* pop returns an id that is there and removes it.
THEOREM QueueImplementsReadySet == Spec => ImplementsReadySet
<1>1. Init => RS!Init
  <2>1. ASSUME Init PROVE Queued = {}
    <3>1. Range(<<>>) = {}
      BY DEF Range
    <3> QED BY <2>1, <3>1 DEF Queued, Init
  <2> QED BY <2>1 DEF Init, RS!Init
<1>2. IInv /\ [Next]_vars => [RS!Next]_(RS!vars)
  BY SMTT(60), StepRefines DEF IInv, Conservation, RS!vars
<1> QED BY <1>1, <1>2, Invariance, PTL DEF Spec, ImplementsReadySet, RS!Spec

-----------------------------------------------------------------------------
(* No lost wake-up *)

\* A worker that will look at the global queue before it waits again.
Looks(w) == w \notin waiting /\ pc[w] \notin {"steal", "ring"}

\* The inductive form: a worker that has found the global queue empty and not
\* begun to wait ("steal") is not counted on, since it may go to its ring.
SomeoneLooks ==
  global # <<>> /\ waiting # {} =>
    \/ \E t \in Thread : pc[t] \in {"count1", "notify1"}
    \/ \E w \in Worker : Looks(w)

LEMMA StepWakes ==
  ASSUME TypeOK, Shape, SomeoneLooks, [Next]_vars, Shape', TypeOK'
  PROVE  SomeoneLooks'
<1> USE DEF Thread
<1> DEFINE Goal == \/ \E t \in Thread : pc'[t] \in {"count1", "notify1"}
                   \/ \E w \in Worker : w \notin waiting' /\ pc'[w] \notin {"steal", "ring"}
<1> SUFFICES ASSUME global' # <<>>, waiting' # {}
             PROVE  Goal
  BY SMTT(60) DEF SomeoneLooks, Looks
<1>a. pc \in [Thread -> WorkerLabel \cup PusherLabel]
  BY DEF TypeOK, LabelType
\* A worker whose step leaves it elsewhere than at the three labels looks.
<1>1. ASSUME NEW w \in Worker, pc'[w] \notin {"steal", "ring", "waiting"} PROVE Goal
  BY <1>1 DEF Shape, ParkedAtLabel
<1>2. ASSUME NEW w \in Worker, NEW l, pc' = [pc EXCEPT ![w] = l],
             l \notin {"steal", "ring", "waiting"}
      PROVE  Goal
  BY SMTT(60), <1>a, <1>1, <1>2
\* Steps that change neither the queue nor the waiters, and let no thread
\* leave the labels that count.
<1>3. ASSUME UNCHANGED <<global, waiting>>,
             \A t \in Thread : pc[t] \in {"count1", "notify1"}
                                 => pc'[t] \in {"count1", "notify1"},
             \A w \in Worker : pc[w] \notin {"steal", "ring"} => pc'[w] \notin {"steal", "ring"}
      PROVE  Goal
  BY ZenonT(60), <1>3 DEF SomeoneLooks, Looks
<1>5. ASSUME NEW w \in Worker, PopStep(w) PROVE Goal
  <2>1. ASSUME Check(w) \/ PopTick(w) \/ PopGlobalFirst(w) \/ PopLocal(w)
               \/ PopBatch(w) \/ Idle(w)
        PROVE Goal
    BY ZenonT(60), <1>2, <2>1 DEF Check, PopTick, PopGlobalFirst, PopLocal, PopBatch,
       Idle, Goto, Got
  \* pop goes on to steal only if it sees the global queue empty.
  <2>2. ASSUME PopGlobal(w) PROVE Goal
    <3>1. global # <<>> => pc' = [pc EXCEPT ![w] = "batch"]
      BY ZenonT(60), <2>2 DEF PopGlobal, Goto
    <3>2. global = <<>> => global' = global
      BY ZenonT(60), <2>2 DEF PopGlobal
    <3> QED BY <1>2, <3>1, <3>2
  <2>3. ASSUME FillLocal(w) PROVE Goal
    <3>1. pc[w] = "fill" /\ (pc' = pc \/ pc' = [pc EXCEPT ![w] = "run"])
      BY ZenonT(60), <2>3 DEF FillLocal, Got
    <3> QED BY <1>1, <1>2, <3>1
  <2>4. ASSUME NEW v \in Worker, Steal(w, v) PROVE Goal
    <3>1. \/ pc' = [pc EXCEPT ![w] = "stash"]
          \/ pc' = pc /\ UNCHANGED <<global, waiting>>
      BY ZenonT(60), <2>4 DEF Steal, Goto, parking
    <3> QED BY <1>2, <1>3, <3>1
  <2>5. ASSUME WaitIo(w) PROVE Goal
    <3>1. /\ UNCHANGED <<global, waiting>> /\ pc[w] = "steal"
          /\ pc' = [pc EXCEPT ![w] = "ring"]
      BY ZenonT(60), <2>5 DEF WaitIo, Goto, queues, parking
    <3>2. \A t \in Thread : t # w => pc'[t] = pc[t]
      BY <1>a, <3>1
    <3> QED BY <1>3, <3>1, <3>2
  <2>6. ASSUME Stash(w) PROVE Goal
    <3>1. \/ pc' = [pc EXCEPT ![w] = "run"] \/ pc' = [pc EXCEPT ![w] = "stash"]
          \/ pc' = [pc EXCEPT ![w] = "stashCount"]
      BY ZenonT(60), <2>6 DEF Stash, Goto, Got
    <3> QED BY <1>2, <3>1
  <2> QED BY ZenonT(60), <1>5, <2>1, <2>2, <2>3, <2>4, <2>5, <2>6 DEF PopStep
\* A worker waits only if it saw the global queue empty under the mutex.
<1>6. ASSUME NEW w \in Worker, ParkStep(w) PROVE Goal
  <2>1. ASSUME Park(w) \/ Unpark(w) PROVE Goal
    BY ZenonT(60), <1>2, <2>1 DEF Park, Unpark, Goto
  <2>2. ASSUME ParkLock(w) PROVE Goal
    <3>1. global' = global /\ pc[w] = "parkLock" /\ pc' = [pc EXCEPT ![w] = "waiting"]
      BY <2>2 DEF ParkLock, Goto, queues
    <3>2. waiting' = waiting
      BY <2>2, <3>1 DEF ParkLock
    <3>3. w \notin waiting
      BY <3>1 DEF Shape, ParkedAtLabel
    <3>4. pc'[w] = "waiting"
      BY <1>a, <3>1
    <3> QED BY <3>2, <3>3, <3>4
  <2> QED BY <1>6, <2>1, <2>2 DEF ParkStep
<1>7. ASSUME NEW w \in Worker, Return(w) \/ Timeout(w) \/ IoDone(w) PROVE Goal
  <2>1. ASSUME Return(w) \/ IoDone(w) PROVE Goal
    BY ZenonT(60), <1>2, <2>1 DEF Return, PushLocal, Left, IoDone, Goto
  <2>2. ASSUME Timeout(w) PROVE Goal
    <3>1. w \notin waiting' /\ pc' = pc /\ pc[w] = "waiting"
      BY <2>2 DEF Timeout, Shape, ParkedAtLabel
    <3> QED BY <3>1
  <2> QED BY <1>7, <2>1, <2>2
<1>8. ASSUME NEW t \in Thread, PushGlobal(t) PROVE Goal
  <2>1. pc' = [pc EXCEPT ![t] = "count1"]
    BY <1>8 DEF PushGlobal, Goto
  <2> QED BY <1>a, <2>1
\* The counter is read after the push, and counts every worker that waits.
<1>9. ASSUME NEW t \in Thread, CountParked(t) PROVE Goal
  <2>1. UNCHANGED <<global, waiting>> /\ parked # {}
    BY SMTT(60), <1>9 DEF CountParked, queues, parking, Shape, ParkedAtLabel, TypeOK, ParkType
  <2>2. /\ pc' = [pc EXCEPT ![t] = NotifyLabel(pc[t])]
        /\ pc[t] \in {"count1", "count2", "stashCount"}
    BY <1>9, <2>1 DEF CountParked
  <2>3. /\ pc[t] = "count1" => pc'[t] = "notify1"
        /\ pc'[t] \notin {"steal", "ring"}
    BY SMTT(60), <1>a, <2>2 DEF NotifyLabel
  <2>4. \A u \in Thread : u # t => pc'[u] = pc[u]
    BY SMTT(60), <1>a, <2>2
  <2> QED BY <1>3, <2>1, <2>2, <2>3, <2>4
\* The worker notified looks.
<1>10. ASSUME NEW t \in Thread, NotifyOne(t) PROVE Goal
  <2>1. PICK w \in waiting : waiting' = waiting \ {w}
    BY SMTT(60), <1>10 DEF NotifyOne
  <2>2. w \in Worker /\ pc[w] = "waiting"
    BY <2>1 DEF TypeOK, ParkType, Shape, ParkedAtLabel
  <2>3. pc'[w] = "waiting"
    <3>1. pc' = [pc EXCEPT ![t] = AfterNotify(t, pc[t])]
          /\ pc[t] \in {"notify1", "notify2", "stashNotify"}
      BY <1>10 DEF NotifyOne
    <3> QED BY <1>a, <2>2, <3>1
  <2> QED BY <2>1, <2>2, <2>3
<1>11. ASSUME NEW p \in Pusher, Wake(p) PROVE Goal
  <2>1. /\ UNCHANGED <<global, waiting>> /\ pc[p] = "ready"
        /\ pc' = [pc EXCEPT ![p] = "pushGlobal"]
    BY ZenonT(60), <1>11 DEF Wake, Goto, parking
  <2>2. /\ \A t \in Thread : t # p => pc'[t] = pc[t]
        /\ pc'[p] = "pushGlobal"
    BY <1>a, <2>1
  <2> QED BY <1>3, <2>1, <2>2
<1>12. ASSUME ClearRunning \/ Joined \/ UNCHANGED vars PROVE Goal
  <2>1. UNCHANGED <<global, waiting, pc>>
    BY ZenonT(60), <1>12 DEF ClearRunning, Joined, vars, queues, parking
  <2> QED BY <1>3, <2>1
<1>13. ASSUME WakeAll PROVE Goal
  BY <1>13 DEF WakeAll
<1> HIDE DEF Goal
<1> QED
  BY ZenonT(60), <1>5, <1>6, <1>7, <1>8, <1>9, <1>10, <1>11, <1>12, <1>13
  DEF Next, PushStep, Finished

\* Work in the global queue never waits for the park timeout, nor for the I/O of
\* some workers while others are parked.  The proof uses that a waiting worker
\* is counted in GlobalQueue.parked (ParkedAtLabel): the count is incremented
\* before the mutex is taken.
THEOREM WakeupNotLost == Spec => []NoLostWakeup
<1>1. Init => SomeoneLooks
  BY DEF Init, SomeoneLooks
<1>2. IInv /\ IInv' /\ SomeoneLooks /\ [Next]_vars => SomeoneLooks'
  BY StepWakes DEF IInv
<1>3. SomeoneLooks => NoLostWakeup
  BY DEF SomeoneLooks, Looks, NoLostWakeup
<1> QED BY <1>1, <1>2, <1>3, Invariance, PTL DEF Spec
===============================================================================
