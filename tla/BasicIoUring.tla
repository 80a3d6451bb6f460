------------------------------ MODULE BasicIoUring ------------------------------
(***************************************************************************)
(* The io_uring backend (ksvc-module/src/basic_iouring.rs): a value for the *)
(* ring and the two counters kept beside it, and one operator per method.   *)
(* The components that own a ring (the worker reactors, the shared reactor, *)
(* the dispatcher, the servers) extend this module.                         *)
(*                                                                          *)
(* A ring has its submission queue sq, the operations the kernel has taken  *)
(* and not finished, its completion queue cq, and BasicIoUring's inflight   *)
(* and pending_submit.  A completion is a record with a user_data field id. *)
(***************************************************************************)
EXTENDS ProbeRouter, Sequences, Functions, FiniteSetsExt

NewRing == [sq |-> <<>>, kernel |-> {}, cq |-> <<>>, inflight |-> 0, pending |-> 0]

(* build_sqe's arms for files and for synchronisation ... *)
file_arms ==
  {op.READ, op.WRITE, op.READV, op.WRITEV, op.OPENAT, op.CLOSE, op.STATX,
   op.FALLOCATE, op.FSYNC}

(* ... and for sockets, directories and pipes; any other opcode is answered *)
(* with Unsupported.                                                        *)
other_arms ==
  {op.ACCEPT, op.CONNECT, op.SEND, op.RECV, op.SENDMSG, op.RECVMSG,
   op.SHUTDOWN, op.SOCKET, op.RENAMEAT, op.UNLINKAT, op.MKDIRAT,
   op.SYMLINKAT, op.LINKAT, op.SPLICE}

build_sqe(opcode) == IF opcode \in file_arms \cup other_arms THEN "Ok" ELSE "Unsupported"

(* submit_with_opcode, translate_and_push: the outcome, and the ring after. *)
Outcome(r, size, opcode) ==
  IF Len(r.sq) = size THEN "RingFull" ELSE build_sqe(opcode)

Pushed(r, id) == [r EXCEPT !.sq = Append(@, id), !.pending = @ + 1]

submit_with_opcode(r, size, id, opcode) ==
  IF Outcome(r, size, opcode) = "Ok" THEN Pushed(r, id) ELSE r

(* io_uring_enter takes every queued entry; the counters follow. *)
flush_and_wait(r) ==
  [r EXCEPT !.sq = <<>>, !.kernel = @ \cup Range(r.sq),
            !.inflight = @ + Len(r.sq), !.pending = 0]

flush(r) == IF r.pending = 0 THEN r ELSE flush_and_wait(r)

(* The kernel finishes operation id with some result. *)
KernelCompletes(r, id, result) ==
  [r EXCEPT !.kernel = @ \ {id}, !.cq = Append(@, [id |-> id, result |-> result])]

(* poll_completions hands out at most max entries.  The loop takes an entry *)
(* from the queue before it looks at the count, so with more than max       *)
(* entries waiting one more is taken and dropped.                           *)
Polled(r, max) == SubSeq(r.cq, 1, Min({max, Len(r.cq)}))

DroppedByPoll(r, max) == IF Len(r.cq) > max THEN {r.cq[max + 1].id} ELSE {}

poll_completions(r, max) ==
  [r EXCEPT !.cq = SubSeq(@, Min({max + 1, Len(@)}) + 1, Len(@)),
            !.inflight = IF @ > Len(Polled(r, max)) THEN @ - Len(Polled(r, max)) ELSE 0]

(* shutdown polls until nothing is left and clears the counters; what the   *)
(* kernel still works on is left to it.                                     *)
io_shutdown(r) == [r EXCEPT !.cq = <<>>, !.inflight = 0, !.pending = 0]

(* What is on its way in this ring. *)
InRing(r) == Range(r.sq) \cup r.kernel \cup {r.cq[i].id : i \in DOMAIN r.cq}

================================================================================
