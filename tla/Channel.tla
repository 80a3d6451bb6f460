------------------------------- MODULE Channel -------------------------------
(***************************************************************************)
(* The bounded channel of gvthread-core (channel.rs): the buffer, the      *)
(* closed flag and the two handle counters each have a SpinLock of their   *)
(* own, so an operation is a sequence of short critical sections and other *)
(* handles run between them.  One step is one critical section.            *)
(*                                                                         *)
(* send_waiters and recv_waiters are never filled: wake_receiver and       *)
(* wake_sender pop from an empty queue, the last drop clears one, and a    *)
(* blocked caller spins.  They are left out.                               *)
(*                                                                         *)
(* A handle is used by one thread at a time.  A message is the pair of its *)
(* sender and a serial number.                                             *)
(***************************************************************************)
EXTENDS Naturals, Sequences, FiniteSets

CONSTANTS Tx, Rx,      \* Sender and Receiver handles that can exist
          Tx0, Rx0,    \* the two handles channel() returns
          Capacities,  \* what channel() is called with
          MsgLimit     \* messages each sender sends

ASSUME ChannelAssumption ==
  /\ IsFiniteSet(Tx) /\ Tx \cap Rx = {} /\ Tx0 \in Tx /\ Rx0 \in Rx
  /\ Capacities \subseteq Nat

VARIABLES capacity, buffer, closed, sender_count, receiver_count,
          chan_pc,    \* where each handle's caller is
          result,     \* what the handle's last operation returned
          sent, got,  \* messages pushed and popped so far, in order
          raced       \* receivers whose failed pop was followed by a push

channelVars == <<capacity, buffer, closed, sender_count, receiver_count,
                 chan_pc, result, sent, got, raced>>
counts == <<capacity, closed, sender_count, receiver_count>>
history == <<sent, got, raced>>

ChannelInit ==
  /\ capacity \in Capacities /\ buffer = <<>> /\ closed = FALSE
  /\ sender_count = 1 /\ receiver_count = 1
  /\ chan_pc = [h \in Tx \cup Rx |-> IF h \in {Tx0, Rx0} THEN "idle" ELSE "none"]
  /\ result = [h \in Tx \cup Rx |-> "none"]
  /\ sent = <<>> /\ got = <<>> /\ raced = {}

ChanGoto(h, from, to) == chan_pc[h] = from /\ chan_pc' = [chan_pc EXCEPT ![h] = to]

Return(h, from, r) ==
  ChanGoto(h, from, "idle") /\ result' = [result EXCEPT ![h] = r]

SentBy(t) == Len(SelectSeq(sent, LAMBDA m : m[1] = t))

-----------------------------------------------------------------------------
(* Sender *)

\* The caller starts a send or a try_send.
StartSend(t) ==
  /\ SentBy(t) < MsgLimit
  /\ \E to \in {"send", "trySend"} : ChanGoto(t, "idle", to)
  /\ UNCHANGED <<buffer, counts, result, history>>

\* The loop of send and the head of try_send look at the closed flag.
CheckClosed(t) ==
  /\ \/ closed /\ (Return(t, "send", "closed") \/ Return(t, "trySend", "full"))
     \/ /\ ~closed /\ UNCHANGED result
        /\ ChanGoto(t, "send", "push") \/ ChanGoto(t, "trySend", "tryPush")
  /\ UNCHANGED <<buffer, counts, history>>

Push(t) ==
  LET m == <<t, SentBy(t)>> IN
  /\ buffer' = Append(buffer, m) /\ sent' = Append(sent, m)
  /\ raced' = raced \cup {r \in Rx : chan_pc[r] = "count"}

\* Mutant: a full buffer sends the caller back to a push, not to the flag.
TrySendInnerNoRecheck(t) ==
  /\ \/ /\ Len(buffer) < capacity
        /\ Push(t)
        /\ \E from \in {"push", "retry", "tryPush"} : Return(t, from, "ok")
     \/ /\ Len(buffer) >= capacity /\ UNCHANGED <<buffer, sent, raced>>
        /\ \/ /\ ChanGoto(t, "push", "retry") \/ ChanGoto(t, "retry", "push")
              /\ UNCHANGED result
           \/ Return(t, "tryPush", "full")
  /\ UNCHANGED <<counts, got>>

\* try_send_inner, called by try_send and twice by send.  The second attempt
\* does not look at the closed flag; when it fails send starts over.
TrySendInner(t) ==
  /\ \/ /\ Len(buffer) < capacity
        /\ Push(t)
        /\ \E from \in {"push", "retry", "tryPush"} : Return(t, from, "ok")
     \/ /\ Len(buffer) >= capacity /\ UNCHANGED <<buffer, sent, raced>>
        /\ \/ /\ ChanGoto(t, "push", "retry") \/ ChanGoto(t, "retry", "send")
              /\ UNCHANGED result
           \/ Return(t, "tryPush", "full")
  /\ UNCHANGED <<counts, got>>

CloneSender(t, u) ==
  /\ chan_pc[t] = "idle" /\ ChanGoto(u, "none", "idle")
  /\ sender_count' = sender_count + 1
  /\ UNCHANGED <<capacity, buffer, closed, receiver_count, result, history>>

\* The counter's lock is held while the flag is set.
DropSender(t) ==
  /\ ChanGoto(t, "idle", "gone")
  /\ sender_count' = sender_count - 1
  /\ closed' = (closed \/ sender_count' = 0)
  /\ UNCHANGED <<capacity, buffer, receiver_count, result, history>>

-----------------------------------------------------------------------------
(* Receiver *)

StartRecv(r) ==
  /\ \E to \in {"recv", "tryRecv"} : ChanGoto(r, "idle", to)
  /\ raced' = raced \ {r}
  /\ UNCHANGED <<buffer, counts, result, sent, got>>

TryRecvInner(r) ==
  /\ \/ /\ buffer # <<>>
        /\ got' = Append(got, Head(buffer)) /\ buffer' = Tail(buffer)
        /\ Return(r, "recv", "ok") \/ Return(r, "tryRecv", "ok")
     \/ /\ buffer = <<>> /\ UNCHANGED <<buffer, got>>
        /\ \/ ChanGoto(r, "recv", "count") /\ UNCHANGED result
           \/ Return(r, "tryRecv", "empty")
  /\ UNCHANGED <<counts, sent, raced>>

\* Mutant: the closed flag is not looked at, an empty buffer is the end.
CheckSendersAnyEmpty(r) ==
  /\ Return(r, "count", "closed")
  /\ UNCHANGED <<buffer, counts, history>>

\* After a pop that found nothing: without senders the channel is closed.
CheckSenders(r) ==
  /\ \/ sender_count = 0 /\ Return(r, "count", "closed") /\ UNCHANGED raced
     \/ /\ sender_count # 0 /\ ChanGoto(r, "count", "recv")
        /\ raced' = raced \ {r} /\ UNCHANGED result
  /\ UNCHANGED <<buffer, counts, sent, got>>

CloneReceiver(r, q) ==
  /\ chan_pc[r] = "idle" /\ ChanGoto(q, "none", "idle")
  /\ receiver_count' = receiver_count + 1
  /\ UNCHANGED <<capacity, buffer, closed, sender_count, result, history>>

DropReceiver(r) ==
  /\ ChanGoto(r, "idle", "gone")
  /\ receiver_count' = receiver_count - 1
  /\ closed' = (closed \/ receiver_count' = 0)
  /\ UNCHANGED <<capacity, buffer, sender_count, result, history>>

-----------------------------------------------------------------------------

\* The steps of a call in progress.
TxStep(t) == CheckClosed(t) \/ TrySendInner(t)
RxStep(r) == TryRecvInner(r) \/ CheckSenders(r)

\* All handles have been dropped.
ChannelFinished ==
  (\A h \in Tx \cup Rx : chan_pc[h] \in {"gone", "none"}) /\ UNCHANGED channelVars

ChannelNext ==
  \/ \E t \in Tx : \/ StartSend(t) \/ TxStep(t) \/ DropSender(t)
                   \/ \E u \in Tx : CloneSender(t, u)
  \/ \E r \in Rx : \/ StartRecv(r) \/ RxStep(r) \/ DropReceiver(r)
                   \/ \E q \in Rx : CloneReceiver(r, q)
  \/ ChannelFinished

\* A thread inside a call goes on.  Nobody has to make a call, or to drop.
ChannelFairness ==
  /\ \A t \in Tx : WF_channelVars(TxStep(t))
  /\ \A r \in Rx : WF_channelVars(RxStep(r))

ChannelSpec == ChannelInit /\ [][ChannelNext]_channelVars /\ ChannelFairness

-----------------------------------------------------------------------------
(* properties *)

\* Messages come out in the order in which they went in, each once, however
\* senders and receivers interleave, and the buffer never holds more than the
\* capacity although send tries twice (try_send_inner, try_recv_inner).
Fifo == sent = got \o buffer /\ Len(buffer) <= capacity

\* recv "Returns `Err(ChannelClosed)` if all senders have been dropped and
\* buffer is empty" (channel.rs:168): the caller that is told so may leave.
ClosedIsEmpty ==
  \A r \in Rx : chan_pc[r] = "idle" /\ result[r] = "closed" =>
    sender_count = 0 /\ got = sent

\* What the code does: recv reports a closed channel only when the last sender
\* is gone, and leaves messages behind only when one was pushed between its pop,
\* which found the buffer empty, and its look at the counter (channel.rs:181).
ClosedMeansDrained ==
  \A r \in Rx : result[r] = "closed" =>
    sender_count = 0 /\ (got = sent \/ r \in raced \/ chan_pc[r] # "idle")

\* Messages come out once and in order, and recv reports a closed channel only
\* when it is drained, but for that race.
Delivered == Fifo /\ ClosedMeansDrained

\* A caller that blocks is not left behind: once no receiver (sender) is left
\* a blocked send (recv) returns.
BlockedEnds ==
  /\ \A t \in Tx : []<>(receiver_count > 0 \/ chan_pc[t] \notin {"send", "push", "retry"})
  /\ \A r \in Rx : []<>(sender_count > 0 \/ chan_pc[r] \notin {"recv", "count"})
===============================================================================
