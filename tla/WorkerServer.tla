------------------------------ MODULE WorkerServer ------------------------------
(***************************************************************************)
(* The GVThread server on one io_uring per worker, from its start to its    *)
(* shutdown: cmd/httpd/rust/gvthread1 on the worker reactors                *)
(* (ksvc-gvthread/src/worker_reactor.rs), the worker loop                   *)
(* (gvthread-runtime/src/scheduler.rs) and the Runtime (gvthread/src).      *)
(*                                                                          *)
(* A worker polls its own ring only, and a GVThread submits to the ring of  *)
(* the worker it runs on; so a GVThread's run, up to where it blocks or     *)
(* yields, is one step of its worker.  The ready queue is a FIFO here (its  *)
(* own model is ReadyQueue), and a worker that parks wakes up by itself     *)
(* after the park timeout at the latest.                                    *)
(***************************************************************************)
EXTENDS BasicIoUring, Integers

CONSTANTS Worker,    \* the worker threads
          Pools,     \* the sets of workers that num_workers may start
          Acceptor,  \* the GVThread of accept_loop
          Conn,      \* the GVThreads a connection can be given
          Fd,        \* descriptors the kernel gives to connections
          MaxComp,   \* completions taken per poll (256)
          SqSize,    \* sq_entries
          RecvBuf,   \* RECV_BUF_SIZE
          RespLen,   \* length of the response
          Supported  \* what the probe may have found: sets of opcodes

Gvt == {Acceptor} \cup Conn
NoCall == "none"
EAGAIN == -1
EOTHER == -2    \* ENOSYS and every other error
NoResult == -9  \* nothing stored since the last read

VARIABLES
  rings,        \* rings[w].io
  gvt_results,  \* the results slab; a result that was read is forgotten
  gvt,          \* gvt[g]: its state, the call it makes, handle_connection's locals
  ready,        \* the ready queue
  wpc,          \* where a worker is in its loop
  mpc,          \* where the main thread is
  open,         \* descriptors of connections that are open
  running,      \* RUNNING
  sched,        \* SCHEDULER_RUNNING
  probed,       \* the probe's answer
  refused,      \* GVThreads whose call the ring did not take
  gvt_lost      \* GVThreads whose completion a poll dropped

workerServerVars == <<rings, gvt_results, gvt, ready, wpc, mpc, open, running,
                      sched, probed, refused, gvt_lost>>

Off == [pc |-> "off", call |-> NoCall, recv_len |-> 0, left |-> 0, fd |-> 0]

\* WorkerReactorPool::new.
NewPool ==
  /\ rings = [w \in Worker |-> NewRing]
  /\ gvt_results = [g \in Gvt |-> NoResult]
  /\ probed \in Supported

\* WorkerPool::start: the pool's threads begin worker_main_loop.
StartWorkers ==
  \E S \in Pools : wpc = [w \in Worker |-> IF w \in S THEN "top" ELSE "exit"]

\* init_global has installed the hooks.
WorkerServerInit ==
  /\ NewPool
  /\ gvt = [g \in Gvt |-> Off]
  /\ ready = <<>> /\ mpc = "spawn"
  /\ StartWorkers
  /\ open = {} /\ running = TRUE /\ sched = TRUE
  /\ refused = {} /\ gvt_lost = {}

----------------------------------------------------------------------------
(* A GVThread's run on worker w.  gv is gvt after the run's own changes.    *)

\* WorkerReactorPool::submit.  The wake-up that follows an error finds the
\* GVThread Running and does nothing.
submit(w, g, nr) ==
  LET to == route(probed, nr)
      out == Outcome(rings[w], SqSize, to.opcode)
  IN IF to.tier = "IoUring" /\ out = "Ok"
     THEN /\ rings' = [rings EXCEPT ![w] = Pushed(@, g)]
          /\ gvt_results' = [gvt_results EXCEPT ![g] = NoResult]
          /\ UNCHANGED refused
     ELSE /\ gvt_results' = [gvt_results EXCEPT ![g] = IF to.tier = "IoUring" THEN EAGAIN ELSE EOTHER]
          /\ refused' = refused \cup {g}
          /\ UNCHANGED rings

\* submit_and_park_worker; spawned are the GVThreads the run made.
submit_and_park(w, g, gv, nr, spawned) ==
  /\ submit(w, g, nr)
  /\ gvt' = [gv EXCEPT ![g].pc = "blocked", ![g].call = nr]
  /\ ready' = Tail(ready) \o spawned
  /\ UNCHANGED open

\* yield_now; the GVThread goes on with call nr.
yield_now(g, nr) ==
  /\ gvt' = [gvt EXCEPT ![g].call = nr]
  /\ ready' = Append(Tail(ready), g)
  /\ gvt_results' = [gvt_results EXCEPT ![g] = NoResult]
  /\ UNCHANGED <<rings, refused, open>>

\* The closure ends and drops the stream, which closes its descriptor.
Finish(g, gv, spawned) ==
  /\ gvt' = [gv EXCEPT ![g] = Off]
  /\ ready' = Tail(ready) \o spawned
  /\ open' = open \ {gv[g].fd}
  /\ gvt_results' = [gvt_results EXCEPT ![g] = NoResult]
  /\ UNCHANGED <<rings, refused>>

wr_accept4(w, gv, spawned) == submit_and_park(w, Acceptor, gv, "accept4", spawned)
wr_recv(w, c, gv) == submit_and_park(w, c, gv, "recvfrom", <<>>)
wr_send(w, c, gv) == submit_and_park(w, c, gv, "sendto", <<>>)

\* The top of accept_loop and of handle_connection's loop.
AcceptTop(w, gv, spawned) ==
  IF running THEN wr_accept4(w, gv, spawned) ELSE Finish(Acceptor, gv, spawned)
ConnTop(w, c, gv) == IF running THEN wr_recv(w, c, gv) ELSE Finish(c, gv, <<>>)

\* accept_loop: a connection is given a GVThread, EAGAIN yields, any other
\* error is retried.
RunAcceptor(w) ==
  LET n == gvt_results[Acceptor]
      accepted == gvt[Acceptor].call = "accept4"
  IN \/ /\ accepted /\ n >= 0
        /\ \E c \in {c \in Conn : gvt[c].pc = "off"} :
             AcceptTop(w, [gvt EXCEPT ![c] = [Off EXCEPT !.pc = "ready", !.fd = n]], <<c>>)
     \/ accepted /\ n = EAGAIN /\ yield_now(Acceptor, NoCall)
     \/ ~(accepted /\ (n >= 0 \/ n = EAGAIN)) /\ AcceptTop(w, gvt, <<>>)

\* wr_send_all: what is left is sent, EAGAIN yields and tries again.
wr_send_all(w, c) ==
  LET n == gvt_results[c]
      rest == [gvt EXCEPT ![c].left = @ - n]
  IN CASE gvt[c].call = "resend" -> wr_send(w, c, gvt)
       [] gvt[c].call = "sendto" /\ n = EAGAIN -> yield_now(c, "resend")
       [] gvt[c].call = "sendto" /\ n < 0 /\ n # EAGAIN -> Finish(c, gvt, <<>>)
       [] gvt[c].call = "sendto" /\ n >= 0 ->
            IF rest[c].left > 0
            THEN wr_send(w, c, rest)
            ELSE ConnTop(w, c, [rest EXCEPT ![c].recv_len = 0])

\* handle_connection: the bytes complete a request, or the rest is read, or
\* the buffer is full.
RunConn(w, c) ==
  LET n == gvt_results[c]
      got == [gvt EXCEPT ![c].recv_len = @ + n]
  IN CASE gvt[c].call = NoCall -> ConnTop(w, c, gvt)
       [] gvt[c].call = "recvfrom" /\ n <= 0 -> Finish(c, gvt, <<>>)
       [] gvt[c].call = "recvfrom" /\ n > 0 ->
            \/ wr_send(w, c, [got EXCEPT ![c].left = RespLen])
            \/ got[c].recv_len < RecvBuf /\ ConnTop(w, c, got)
            \/ got[c].recv_len >= RecvBuf /\ Finish(c, gvt, <<>>)
       [] gvt[c].call \in {"sendto", "resend"} -> wr_send_all(w, c)

----------------------------------------------------------------------------
(* worker_main_loop.                                                        *)

Top(w) ==
  /\ wpc[w] = "top"
  /\ wpc' = [wpc EXCEPT ![w] = IF sched THEN "poll" ELSE "exit"]
  /\ UNCHANGED <<rings, gvt_results, gvt, ready, mpc, open, running, sched, probed,
                 refused, gvt_lost>>

\* The result of each completion is stored and its GVThread woken, if Blocked.
\* It submitted on this worker, so that it has switched away by now.
Wake(done) ==
  LET ids == [i \in DOMAIN done |-> done[i].id]
      woken == SelectSeq(ids, LAMBDA g : gvt[g].pc = "blocked")
      result(g) == done[CHOOSE i \in DOMAIN done : ids[i] = g].result
  IN /\ gvt_results' = [g \in Gvt |-> IF g \in Range(ids) THEN result(g) ELSE gvt_results[g]]
     /\ gvt' = [g \in Gvt |-> IF g \in Range(woken) THEN [gvt[g] EXCEPT !.pc = "ready"]
                                                  ELSE gvt[g]]
     /\ ready' = ready \o woken

\* Mutant: the completions are delivered and stay in the queue.
DeliverPeeks(w, r) ==
  /\ rings' = [rings EXCEPT ![w] = r]
  /\ UNCHANGED gvt_lost
  /\ Wake(Polled(r, MaxComp))

\* poll_completions, and the wake-ups.
Deliver(w, r) ==
  /\ rings' = [rings EXCEPT ![w] = poll_completions(r, MaxComp)]
  /\ gvt_lost' = gvt_lost \cup DroppedByPoll(r, MaxComp)
  /\ Wake(Polled(r, MaxComp))

\* WorkerReactorPool::poll.
Poll(w) ==
  /\ wpc[w] = "poll"
  /\ wpc' = [wpc EXCEPT ![w] = "next"]
  /\ Deliver(w, flush(rings[w]))
  /\ UNCHANGED <<mpc, open, running, sched, probed, refused>>

has_inflight(w) == rings[w].inflight > 0

\* get_next, run_gvthread.
GetNext(w) ==
  /\ wpc[w] = "next" /\ ready # <<>>
  /\ wpc' = [wpc EXCEPT ![w] = "top"]
  /\ IF Head(ready) = Acceptor THEN RunAcceptor(w) ELSE RunConn(w, Head(ready))
  /\ UNCHANGED <<mpc, running, sched, probed, gvt_lost>>

\* Mutant: operations in flight are waited for although a GVThread is ready.
IdleIoFirst(w) ==
  /\ wpc[w] = "next" /\ (ready = <<>> \/ has_inflight(w))
  /\ IF has_inflight(w)
     THEN /\ rings' = [rings EXCEPT ![w] = flush_and_wait(@)]
          /\ wpc' = [wpc EXCEPT ![w] = "wait"]
     ELSE wpc' = [wpc EXCEPT ![w] = "park"] /\ UNCHANGED rings
  /\ UNCHANGED <<gvt_results, gvt, ready, mpc, open, running, sched, probed, refused,
                 gvt_lost>>

\* Nothing is ready: with operations in flight the worker enters its ring and
\* waits there, else it spins and then parks.
Idle(w) ==
  /\ wpc[w] = "next" /\ ready = <<>>
  /\ IF has_inflight(w)
     THEN /\ rings' = [rings EXCEPT ![w] = flush_and_wait(@)]
          /\ wpc' = [wpc EXCEPT ![w] = "wait"]
     ELSE wpc' = [wpc EXCEPT ![w] = "park"] /\ UNCHANGED rings
  /\ UNCHANGED <<gvt_results, gvt, ready, mpc, open, running, sched, probed, refused,
                 gvt_lost>>

\* wait_and_poll goes on once there is a completion.
WaitIo(w) ==
  /\ wpc[w] = "wait" /\ rings[w].cq # <<>>
  /\ wpc' = [wpc EXCEPT ![w] = "top"]
  /\ Deliver(w, rings[w])
  /\ UNCHANGED <<mpc, open, running, sched, probed, refused>>

\* The spins are over, or the park: a wake-up, wake_all, or the timeout.
Unpark(w) ==
  /\ wpc[w] = "park"
  /\ wpc' = [wpc EXCEPT ![w] = "top"]
  /\ UNCHANGED <<rings, gvt_results, gvt, ready, mpc, open, running, sched, probed,
                 refused, gvt_lost>>

WorkerStep(w) ==
  Top(w) \/ Poll(w) \/ GetNext(w) \/ Idle(w) \/ WaitIo(w) \/ Unpark(w)

----------------------------------------------------------------------------
(* The main thread.                                                         *)

workerSide == <<rings, gvt_results, open, probed, refused, gvt_lost>>

\* block_on's closure spawns the accept loop, and then sleeps while RUNNING.
SpawnAcceptor ==
  /\ mpc = "spawn" /\ mpc' = "sleep"
  /\ gvt' = [gvt EXCEPT ![Acceptor].pc = "ready"]
  /\ ready' = Append(ready, Acceptor)
  /\ UNCHANGED <<workerSide, wpc, running, sched>>

\* block_on shuts the runtime down when its closure returns.
EndBlockOn ==
  /\ mpc = "sleep" /\ ~running
  /\ mpc' = "shutdown"
  /\ UNCHANGED <<workerSide, gvt, ready, wpc, running, sched>>

\* Mutant: the flag the workers look at is not cleared.
ShutdownUnsaid ==
  /\ mpc = "shutdown" /\ mpc' = "join"
  /\ UNCHANGED <<workerSide, gvt, ready, wpc, running, sched>>

\* Scheduler::shutdown; wake_all ends the parks, as the timeout does.
RuntimeShutdown ==
  /\ mpc = "shutdown" /\ mpc' = "join"
  /\ sched' = FALSE
  /\ UNCHANGED <<workerSide, gvt, ready, wpc, running>>

\* WorkerPool::join.
Join ==
  /\ mpc = "join" /\ \A w \in Worker : wpc[w] = "exit"
  /\ mpc' = "pool"
  /\ UNCHANGED <<workerSide, gvt, ready, wpc, running, sched>>

\* WorkerReactorPool::shutdown; the program ends.
PoolShutdown ==
  /\ mpc = "pool" /\ mpc' = "done"
  /\ rings' = [w \in Worker |-> io_shutdown(rings[w])]
  /\ UNCHANGED <<gvt_results, gvt, ready, wpc, open, running, sched, probed, refused,
                 gvt_lost>>

MainStep == SpawnAcceptor \/ EndBlockOn \/ RuntimeShutdown \/ Join \/ PoolShutdown

\* handle_sigint, on any thread: when it is one that waits in its ring,
\* io_uring_enter returns, its error is ignored.
Interrupt ==
  /\ running /\ running' = FALSE
  /\ \/ UNCHANGED wpc
     \/ \E w \in Worker : /\ wpc[w] = "wait" /\ rings[w].cq = <<>>
                         /\ wpc' = [wpc EXCEPT ![w] = "top"]
  /\ UNCHANGED <<workerSide, gvt, ready, mpc, sched>>

----------------------------------------------------------------------------
(* The kernel and the clients.                                              *)

Outcomes(g) ==
  {EAGAIN, EOTHER} \cup
  CASE gvt[g].call = "accept4"  -> Fd \ open
    [] gvt[g].call = "recvfrom" -> 0..(RecvBuf - gvt[g].recv_len)
    [] gvt[g].call = "sendto"   -> 1..gvt[g].left

GvtKernelStep(w, g) ==
  /\ g \in rings[w].kernel /\ mpc # "done"
  /\ \E r \in Outcomes(g) :
       /\ rings' = [rings EXCEPT ![w] = KernelCompletes(@, g, r)]
       /\ open' = IF gvt[g].call = "accept4" /\ r \in Fd THEN open \cup {r} ELSE open
  /\ UNCHANGED <<gvt_results, gvt, ready, wpc, mpc, running, sched, probed, refused,
                 gvt_lost>>

\* A dropped completion is counted in flight for ever: its worker waits for it
\* when there is nothing else to wait for, and keeps the shutdown waiting.
Hung ==
  /\ mpc = "join"
  /\ \E w \in Worker : wpc[w] = "wait" /\ rings[w].cq = <<>> /\ rings[w].kernel = {}

WorkerServerFinished == (mpc = "done" \/ Hung) /\ UNCHANGED workerServerVars

WorkerServerNext ==
  \/ \E w \in Worker : WorkerStep(w)
  \/ \E w \in Worker, g \in Gvt : GvtKernelStep(w, g)
  \/ MainStep \/ Interrupt \/ WorkerServerFinished

\* The threads run, and the kernel finishes a send.  Nothing makes a client
\* connect or write, or the user interrupt the program.
WorkerServerFairness ==
  /\ \A w \in Worker : WF_workerServerVars(WorkerStep(w))
  /\ WF_workerServerVars(MainStep)
  /\ \A c \in Conn :
       WF_workerServerVars(gvt[c].call = "sendto" /\ \E w \in Worker : GvtKernelStep(w, c))

WorkerServerSpec == WorkerServerInit /\ [][WorkerServerNext]_workerServerVars /\ WorkerServerFairness

----------------------------------------------------------------------------
Rings(g) == {w \in Worker : g \in InRing(rings[w])}

\* A blocked GVThread's operation is in the ring of exactly one worker, unless
\* a poll dropped its completion or the ring refused it; a GVThread that is
\* not blocked has no operation anywhere, and its last call's result waits for
\* it.  A GVThread changes workers freely between its calls, so that a ring
\* that kept an old operation would wake it in the middle of another call.
\* The ring is never full when a GVThread submits, because the worker has
\* flushed it since the run before: a call is refused only when the probe did
\* not find its opcode, and then its GVThread stays blocked for ever.
InOneRing ==
  /\ \A g \in refused : gvt_results[g] = EOTHER /\ gvt[g].pc = "blocked"
  /\ mpc # "done" => \A g \in Gvt :
    IF gvt[g].pc = "blocked"
    THEN IF g \in gvt_lost \cup refused THEN Rings(g) = {} ELSE Cardinality(Rings(g)) = 1
    ELSE /\ Rings(g) = {}
         /\ gvt[g].pc = "ready" /\ gvt[g].call \notin {NoCall, "resend"} => gvt_results[g] # NoResult

\* Nobody is left behind by workers that wait: one that waits in its ring or
\* parks has flushed what its GVThreads submitted, and while a GVThread is
\* ready not every worker waits in its ring, where a push does not reach it.
\* A worker waits in its ring only when an operation is pending there, as long
\* as no completion was dropped.
SomeoneAwake ==
  /\ \A w \in Worker : wpc[w] \in {"wait", "park"} => rings[w].sq = <<>>
  /\ sched /\ ready # <<>> => \E w \in Worker : wpc[w] \notin {"wait", "exit"}
  /\ gvt_lost = {} => \A w \in Worker :
       wpc[w] = "wait" => rings[w].cq # <<>> \/ rings[w].kernel # {}

\* The shutdown ends, unless a worker waits in its ring for ever: nothing but
\* a completion, or the signal itself, ends wait_and_poll, and wake_all only
\* reaches parked workers.
ShutdownEnds ==
  \/ []<>(running \/ mpc = "done")
  \/ \E w \in Worker : <>[](wpc[w] = "wait" /\ rings[w].cq = <<>>)

================================================================================
