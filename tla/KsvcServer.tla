------------------------------- MODULE KsvcServer -------------------------------
(***************************************************************************)
(* The servers that are written as an event loop on one BasicIoUring:       *)
(* cmd/httpd/rust/ksvc (hello and file mode) and cmd/echo/rust/ksvc.  Each  *)
(* completion is handled by its operation (the high bits of the             *)
(* correlation id) and its connection slot (the low bits); the handler      *)
(* submits the connection's next operation.  The servers' threads share     *)
(* nothing, one is modelled.                                                *)
(*                                                                          *)
(* A request is abstracted to the number of bytes in recv_buf and whether   *)
(* parse_request finds it complete, a response to its length.               *)
(***************************************************************************)
EXTENDS BasicIoUring, Integers

CONSTANTS Servers,     \* the servers: [mode, conns, comp, sq, buf, probe], mode one
                       \*   of "hello", "file" and "echo", conns the slots of the
                       \*   ConnSlab, comp the completions taken per round (128;
                       \*   64 in the echo server), sq the sq_entries (512; 256),
                       \*   buf the length of the receive buffer, probe the
                       \*   opcodes the kernel has
          ConnFd,      \* descriptors the kernel gives to connections
          FileFd,      \* descriptors the kernel gives to files
          ResponseLen  \* length of a response

Slot == 0..(Max({s.conns : s \in Servers}) - 1)
NoConn == [state |-> "none", fd |-> 0, file |-> 0, recv_len |-> 0, left |-> 0]

VARIABLES
  sv_ring,     \* the server's BasicIoUring
  sv_comp,     \* comp_buf: completions not yet handled
  sv_pc,       \* where the loop is
  conns,       \* ConnSlab.slots
  free,        \* ConnSlab.free, a stack
  sv_open,     \* descriptors of connections that are open
  files,       \* descriptors of files that are open
  sv_running,  \* RUNNING
  server,      \* which server this is
  sv_refused,  \* operations the ring did not take
  sv_lost,     \* operations whose completion a poll dropped
  failed       \* files that were open when the send of their content failed

ksvcServerVars == <<sv_ring, sv_comp, sv_pc, conns, free, sv_open, files,
                    sv_running, server, sv_refused, sv_lost, failed>>

\* make_id, decode_op and decode_idx, with the descriptor among the entry's args.
entry(op_, idx, fd) == [op |-> op_, idx |-> idx, fd |-> fd]

\* The system call of an operation, and the opcode the router has for it.
nr_of ==
  [accept |-> "accept4", recv |-> "recvfrom", send |-> "sendto", close |-> "close",
   file_open |-> "openat", file_read |-> "read", file_close |-> "close"]
opcode_of(o) == route(server.probe, nr_of[o]).opcode

accept_entry == entry("accept", 0, 0)

\* submit_accept, submit_recv, ...: the ring after, which is the ring before when
\* it is full or the kernel does not have the opcode.
Taken(r, e) == submit_with_opcode(r, server.sq, e, opcode_of(e.op))

\* ConnSlab::new: slot 0 is handed out first.
NewSlab ==
  /\ conns = [i \in Slot |-> NoConn]
  /\ free = [i \in 1..server.conns |-> server.conns - i]

\* The first accept, flush.
KsvcServerInit ==
  /\ server \in Servers
  /\ sv_ring = flush(Taken(NewRing, accept_entry))
  /\ sv_comp = <<>> /\ sv_pc = "top"
  /\ NewSlab
  /\ sv_open = {} /\ files = {} /\ sv_running = TRUE
  /\ sv_refused = {accept_entry} \ InRing(sv_ring) /\ sv_lost = {} /\ failed = {}

----------------------------------------------------------------------------
(* The handlers.  An error of the submission is ignored.                    *)

Submitted(r, es) ==
  /\ sv_ring' = r
  /\ sv_refused' = sv_refused \cup (es \ InRing(r))

Submit(e) == Submitted(Taken(sv_ring, e), {e})
SubmitBoth(e, f) == Submitted(Taken(Taken(sv_ring, e), f), {e, f})

\* The connection in slot i becomes c and submits operation o on descriptor fd.
Continue(i, c, o, fd) ==
  /\ conns' = [conns EXCEPT ![i] = c]
  /\ Submit(entry(o, i, fd))
  /\ UNCHANGED free

Serve(i, c, o) == Continue(i, c, o, c.fd)

\* ConnSlab::alloc.
top_slot == free[Len(free)]
alloc(fd) ==
  /\ free' = SubSeq(free, 1, Len(free) - 1)
  /\ conns' = [conns EXCEPT ![top_slot] =
                 [NoConn EXCEPT !.state = "Receiving", !.fd = fd]]

\* Mutant: a descriptor that finds the slab full is forgotten.
OnAcceptLeaks(result) ==
  /\ IF result >= 0 /\ free # <<>>
     THEN alloc(result) /\ SubmitBoth(entry("recv", top_slot, result), accept_entry)
     ELSE Submit(accept_entry) /\ UNCHANGED <<conns, free>>
  /\ UNCHANGED <<sv_open, files, failed>>

\* OP_ACCEPT: a slot is allocated and the connection read from; at the limit
\* the connection is closed at once.  The next accept is always submitted,
\* except by the echo server after an error while it shuts down.
OnAccept(result) ==
  /\ IF result >= 0 /\ free # <<>>
     THEN /\ alloc(result)
          /\ SubmitBoth(entry("recv", top_slot, result), accept_entry)
          /\ UNCHANGED sv_open
     ELSE /\ sv_open' = sv_open \ {result}
          /\ IF server.mode = "echo" /\ result < 0 /\ ~sv_running
             THEN UNCHANGED <<sv_ring, sv_refused>>
             ELSE Submit(accept_entry)
          /\ UNCHANGED <<conns, free>>
  /\ UNCHANGED <<files, failed>>

Closing(i) == Serve(i, [conns[i] EXCEPT !.state = "Closing"], "close")

Reply(i, state, c) ==
  Serve(i, [c EXCEPT !.state = state, !.left = ResponseLen], "send")

\* What parse_request may find in the buffer: no end of the headers yet, a path
\* that is refused (or no file name), or one to serve.
parse_request == {"incomplete", "refused", "path"}

\* OP_RECV: the end or an error closes; an incomplete request is read further
\* unless the buffer is full; a complete one is answered, in file mode after
\* its file was opened, unless its path is refused.
OnRecv(i, result) ==
  LET got == [conns[i] EXCEPT !.recv_len = @ + result] IN
  /\ CASE result <= 0 -> Closing(i)
       [] result > 0 /\ server.mode = "echo" ->
            Serve(i, [conns[i] EXCEPT !.left = result], "send")
       [] OTHER ->
            \E found \in parse_request :
              IF found = "incomplete"
              THEN IF got.recv_len >= server.buf THEN Closing(i) ELSE Serve(i, got, "recv")
              ELSE IF server.mode = "hello" \/ found = "refused"
              THEN Reply(i, "SendingReply", got)
              ELSE Serve(i, [got EXCEPT !.state = "FileOpening"], "file_open")
  /\ UNCHANGED <<sv_open, files, failed>>

\* reset_for_next_request.
reset(c) == [c EXCEPT !.state = "Receiving", !.recv_len = 0, !.left = 0, !.file = 0]

\* Mutant: the rest of a partial send is not sent by the HTTP server either.
OnSendOnce(i, result) ==
  /\ IF result <= 0
     THEN Closing(i)
     ELSE IF conns[i].state = "FileSending"
     THEN Continue(i, [conns[i] EXCEPT !.state = "FileClosing", !.file = 0, !.left = @ - result],
                   "file_close", conns[i].file)
     ELSE Serve(i, [reset(conns[i]) EXCEPT !.left = conns[i].left - result], "recv")
  /\ failed' = IF result <= 0 THEN failed \cup ({conns[i].file} \ {0}) ELSE failed
  /\ UNCHANGED <<sv_open, files>>

\* OP_SEND: an error closes; the HTTP server sends what is left, then closes
\* the file or reads the next request; the echo server reads again.
OnSend(i, result) ==
  LET c == [conns[i] EXCEPT !.left = @ - result] IN
  /\ CASE result <= 0 -> Closing(i)
       [] result > 0 /\ server.mode = "echo" -> Serve(i, c, "recv")
       [] result > 0 /\ server.mode # "echo" /\ c.left > 0 -> Serve(i, c, "send")
       [] result > 0 /\ server.mode # "echo" /\ c.left = 0 ->
            IF c.state = "FileSending"
            THEN Continue(i, [c EXCEPT !.state = "FileClosing", !.file = 0],
                          "file_close", c.file)
            ELSE Serve(i, reset(c), "recv")
  /\ failed' = IF result <= 0 THEN failed \cup ({conns[i].file} \ {0}) ELSE failed
  /\ UNCHANGED <<sv_open, files>>

\* OP_FILE_OPEN: 404, or the file is read.
OnFileOpen(i, result) ==
  /\ IF result < 0
     THEN Reply(i, "SendingReply", conns[i])
     ELSE Continue(i, [conns[i] EXCEPT !.file = result, !.state = "FileReading"],
                   "file_read", result)
  /\ UNCHANGED <<sv_open, files, failed>>

\* OP_FILE_READ: the content, or an empty body, is sent.
OnFileRead(i) == Reply(i, "FileSending", conns[i]) /\ UNCHANGED <<sv_open, files,
                                                                  failed>>

OnFileClose(i) == Serve(i, reset(conns[i]), "recv") /\ UNCHANGED <<sv_open, files,
                                                                   failed>>

\* OP_CLOSE: the slot is free.
OnClose(i) ==
  /\ conns' = [conns EXCEPT ![i] = NoConn]
  /\ free' = Append(free, i)
  /\ UNCHANGED <<sv_ring, sv_refused, sv_open, files, failed>>

----------------------------------------------------------------------------
(* worker_loop.                                                             *)

\* Mutant: the queue is submitted only when nothing else is in flight.
EnterHolds ==
  /\ sv_pc = "top" /\ sv_running
  /\ sv_ring' = IF sv_ring.inflight = 0 THEN flush_and_wait(sv_ring) ELSE sv_ring
  /\ sv_pc' = "wait"
  /\ UNCHANGED <<sv_comp, conns, free, sv_open, files, sv_running, server, sv_refused,
                 sv_lost, failed>>

\* flush_and_wait(1): the queue is submitted, the thread then waits.
ServerEnter ==
  /\ sv_pc = "top" /\ sv_running
  /\ sv_ring' = flush_and_wait(sv_ring)
  /\ sv_pc' = "wait"
  /\ UNCHANGED <<sv_comp, conns, free, sv_open, files, sv_running, server, sv_refused,
                 sv_lost, failed>>

\* The wait has ended: by a completion, or by a signal.
ServerPoll ==
  /\ sv_pc = "poll" \/ (sv_pc = "wait" /\ sv_ring.cq # <<>>)
  /\ sv_comp' = Polled(sv_ring, server.comp)
  /\ sv_ring' = poll_completions(sv_ring, server.comp)
  /\ sv_lost' = sv_lost \cup DroppedByPoll(sv_ring, server.comp)
  /\ sv_pc' = "handle"
  /\ UNCHANGED <<conns, free, sv_open, files, sv_running, server, sv_refused, failed>>

Handle ==
  /\ sv_pc = "handle" /\ sv_comp # <<>>
  /\ LET o == Head(sv_comp).id.op  i == Head(sv_comp).id.idx  r == Head(sv_comp).result IN
       \/ o = "accept" /\ OnAccept(r)
       \/ o = "recv" /\ OnRecv(i, r)
       \/ o = "send" /\ OnSend(i, r)
       \/ o = "file_open" /\ OnFileOpen(i, r)
       \/ o = "file_read" /\ OnFileRead(i)
       \/ o = "file_close" /\ OnFileClose(i)
       \/ o = "close" /\ OnClose(i)
  /\ sv_comp' = Tail(sv_comp)
  /\ UNCHANGED <<sv_pc, sv_running, server, sv_lost>>

Again ==
  /\ sv_pc = "handle" /\ sv_comp = <<>>
  /\ sv_pc' = "top"
  /\ UNCHANGED <<sv_ring, sv_comp, conns, free, sv_open, files, sv_running, server,
                 sv_refused, sv_lost,
                 failed>>

\* handle_sigint, on any thread.  It ends the wait of this one if it runs here
\* while the thread waits; after the loop has looked at RUNNING and before
\* io_uring_enter, or on another thread, it does not.
ServerInterrupt ==
  /\ sv_running /\ sv_running' = FALSE
  /\ UNCHANGED sv_pc \/ (sv_pc = "wait" /\ sv_pc' = "poll")
  /\ UNCHANGED <<sv_ring, sv_comp, conns, free, sv_open, files, server,
                 sv_refused, sv_lost, failed>>

\* The kernel finishes an operation; -1 is any error.
ConnOutcomes(e) ==
  CASE e.op = "accept"     -> {-1} \cup (ConnFd \ sv_open)
    [] e.op = "recv"       -> -1..(server.buf - conns[e.idx].recv_len)
    [] e.op = "send"       -> {-1} \cup 1..conns[e.idx].left
    [] e.op = "file_open"  -> {-1} \cup (FileFd \ files)
    [] e.op \in {"file_read", "file_close", "close"} -> {0}

ConnKernelStep(i) ==
  \E e \in {e \in sv_ring.kernel : e.op # "accept" /\ e.idx = i} : \E r \in ConnOutcomes(e) :
    /\ sv_ring' = KernelCompletes(sv_ring, e, r)
    /\ sv_open' = IF e.op = "close" THEN sv_open \ {e.fd} ELSE sv_open
    /\ files' = CASE e.op = "file_open" /\ r > 0 -> files \cup {r}
                  [] e.op = "file_close" -> files \ {e.fd}
                  [] OTHER -> files
    /\ UNCHANGED <<sv_comp, sv_pc, conns, free, sv_running, server, sv_refused, sv_lost,
                   failed>>

KernelAccept ==
  \E e \in {e \in sv_ring.kernel : e.op = "accept"} : \E r \in ConnOutcomes(e) :
    /\ sv_ring' = KernelCompletes(sv_ring, e, r)
    /\ sv_open' = sv_open \cup ({r} \ {-1})
    /\ UNCHANGED <<sv_comp, sv_pc, conns, free, files, sv_running, server, sv_refused,
                   sv_lost, failed>>

\* The loop has ended, or waits with nothing on its way.
KsvcServerFinished ==
  /\ \/ sv_pc = "top" /\ ~sv_running
     \/ sv_pc = "wait" /\ sv_ring.cq = <<>> /\ sv_ring.kernel = {}
  /\ UNCHANGED ksvcServerVars

LoopStep == ServerEnter \/ ServerPoll \/ Handle \/ Again

KsvcServerNext ==
  \/ LoopStep \/ ServerInterrupt \/ KsvcServerFinished
  \/ KernelAccept
  \/ \E i \in Slot : ConnKernelStep(i)

\* The thread runs; the kernel finishes what does not wait for a client.
KsvcServerFairness ==
  /\ WF_ksvcServerVars(LoopStep)
  /\ \A i \in Slot :
       WF_ksvcServerVars(conns[i].state \notin {"none", "Receiving"} /\ ConnKernelStep(i))

KsvcServerSpec == KsvcServerInit /\ [][KsvcServerNext]_ksvcServerVars /\ KsvcServerFairness

----------------------------------------------------------------------------
Live == {i \in Slot : conns[i].state # "none"}
ServerWaiting == InRing(sv_ring) \cup {sv_comp[k].id : k \in DOMAIN sv_comp}

\* One operation per connection: every connection has exactly one operation
\* on its way, on its own descriptor or its own file, and a free slot has
\* none; exactly one accept is on its way.  The handlers continue a
\* connection without looking at its state, so two operations of one slot
\* would be answered as one.  The operation is missing only when a full poll
\* dropped its completion, when the kernel does not have its opcode, or when it
\* is the accept and failed while the echo server shuts down.  The
\* HTTP server's operation is a recv only when the response to the last request
\* has been sent in full, whatever the partial sends were.
OneOperation ==
  LET mine(i) == {e \in ServerWaiting \cup sv_refused : e.op # "accept" /\ e.idx = i} IN
  /\ \A e \in sv_refused : route(server.probe, nr_of[e.op]).tier # "IoUring"
  /\ sv_lost = {} =>
       \A i \in Slot : IF i \in Live
                        THEN /\ Cardinality(mine(i)) = 1
                             /\ \A e \in mine(i) :
                                  e.op \in {"recv", "send", "close"} => e.fd = conns[i].fd
                        ELSE mine(i) = {} /\ (i < server.conns => i \in Range(free))
  /\ \/ accept_entry \in ServerWaiting
     \/ accept_entry \in sv_lost \cup sv_refused
     \/ server.mode = "echo" /\ ~sv_running
  /\ server.mode # "echo" =>
       \A e \in ServerWaiting : e.op = "recv" => conns[e.idx].left = 0

\* Descriptors: an open descriptor belongs to one connection that has not
\* finished closing, or is the result of an accept not handled yet; an
\* operation other than the close names a descriptor that is still open.
\* An open file is one a connection reads or sends, one whose open is not
\* handled or whose close is not done yet, or one that was left open because
\* the send of its content failed (OP_SEND closes the connection and forgets
\* file_fd).
FdHeld ==
  LET closed(i) == \E k \in DOMAIN sv_ring.cq : sv_ring.cq[k].id.op = "close" /\ sv_ring.cq[k].id.idx = i
      seen(i) == \E k \in DOMAIN sv_comp : sv_comp[k].id.op = "close" /\ sv_comp[k].id.idx = i
      held == {i \in Live : ~closed(i) /\ ~seen(i)}
      results(q, o) == {q[k].result : k \in {k \in DOMAIN q : q[k].id.op = o}}
  IN sv_lost = {} =>
       /\ sv_open = {conns[i].fd : i \in held}
                 \cup ((results(sv_ring.cq, "accept") \cup results(sv_comp, "accept")) \ {-1})
       /\ \A i, j \in held : i # j => conns[i].fd # conns[j].fd
       /\ files \subseteq failed \cup {conns[i].file : i \in Live}
                          \cup results(sv_ring.cq, "file_open") \cup results(sv_comp, "file_open")
                          \cup {e.fd : e \in {e \in ServerWaiting : e.op = "file_close"}}

\* A connection that is being answered or closed gets there: it reads the next
\* request or its slot is free, unless the server stops, a poll dropped a
\* completion, or the kernel does not have the opcode of its operation.
Served ==
  \A i \in Slot :
    []<>(\/ conns[i].state \in {"none", "Receiving"} \/ ~sv_running \/ sv_lost # {}
         \/ \E e \in sv_refused : e.op # "accept" /\ e.idx = i)
================================================================================
