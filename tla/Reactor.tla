--------------------------------- MODULE Reactor ---------------------------------
(***************************************************************************)
(* The shared reactor (ksvc-gvthread/src/reactor.rs), the blocking calls of *)
(* GVThreads on top of it (syscall.rs, net.rs) and the server that uses     *)
(* them: accept_loop and one handle_connection per client                   *)
(* (cmd/httpd/rust/gvthread0).                                              *)
(*                                                                          *)
(* A GVThread pushes its request to the reactor's queue, blocks, and reads  *)
(* its result from a slab once the reactor's thread has woken it.  A        *)
(* GVThread is named by its slot, which is also the user_data of its        *)
(* request.  The workers that run the GVThreads are abstracted: a GVThread  *)
(* that runs takes its next step.  A wake-up that finds the GVThread        *)
(* Blocked and not yet switched away (overtaken) ends the behaviour: what   *)
(* wake_gvthread and run_gvthread then do is explored in SchedulerSleep,    *)
(* whose timer thread calls wake_gvthread in the same race.                 *)
(***************************************************************************)
EXTENDS BasicIoUring, Integers

CONSTANTS Acceptor,   \* the GVThread of accept_loop
          Conn,       \* the GVThreads a connection can be given
          Fd,         \* descriptors the kernel gives to connections
          QueueCap,   \* queue_capacity (16384)
          Batch,      \* requests taken per round (128)
          MaxComp,    \* completions taken per round (256)
          SqSize,     \* sq_entries
          RecvBuf,    \* RECV_BUF_SIZE
          RespLen,    \* length of the response
          Supported   \* what the probe may have found: sets of opcodes

\* Descriptors 0 to 2 are never given to a connection; 0 stands for none here.
ASSUME ReactorAssumption ==
  /\ Acceptor \notin Conn
  /\ Fd \subseteq Nat \ {0}
  /\ MaxComp \in Nat

Gvts == {Acceptor} \cup Conn

NoCall == "none"
EAGAIN == -1
EOTHER == -2    \* ENOSYS and every other error
NoResult == -9  \* nothing stored since the last read

VARIABLES
  queue,     \* request_queue: the GVThreads whose request is waiting
  pending,   \* requests taken and not yet routed
  did,       \* the batch of this round had a request
  ring,      \* the reactor's BasicIoUring
  comp,      \* comp_buf: completions not yet handled
  rpc,       \* where the reactor's thread is
  target,    \* the GVThread it is about to wake
  after,     \* where it goes on after the wake-up
  results,   \* the results slab; a result that was read is forgotten
  gvt_pc,    \* where each GVThread is
  call,      \* the system call a GVThread makes
  recv_len,  \* handle_connection's recv_len
  to_send,   \* bytes of the response not yet sent
  fd,        \* GvtStream.fd
  open,      \* connections' descriptors that are open
  running,   \* RUNNING
  stopping,  \* ReactorShared.shutdown
  supported, \* the probe's answer
  missed,    \* GVThreads whose wake-up came before they were Blocked
  lost,      \* GVThreads whose completion was dropped
  overtaken  \* a wake-up came between Blocked and the switch

loopVars == <<queue, pending, did, ring, comp, rpc, target, after>>
gvtVars == <<gvt_pc, call, recv_len, to_send, fd>>
ghostVars == <<missed, lost, overtaken>>
reactorVars == <<loopVars, results, gvtVars, open, running, stopping, supported,
                 ghostVars>>

ReactorInit ==
  /\ queue = <<>> /\ pending = <<>> /\ did = FALSE /\ ring = NewRing
  /\ comp = <<>> /\ rpc = "check" /\ target = Acceptor /\ after = "check"
  /\ results = [g \in Gvts |-> NoResult]
  /\ gvt_pc = [g \in Gvts |-> IF g = Acceptor THEN "start" ELSE "off"]
  /\ call = [g \in Gvts |-> NoCall]
  /\ recv_len = [g \in Conn |-> 0] /\ to_send = [g \in Conn |-> 0]
  /\ fd = [g \in Conn |-> 0] /\ open = {}
  /\ running = TRUE /\ stopping = FALSE
  /\ supported \in Supported
  /\ missed = {} /\ lost = {} /\ overtaken = FALSE

----------------------------------------------------------------------------
(* submit_and_park.                                                         *)

\* A full queue is tried again.
PushRequest(g) ==
  /\ gvt_pc[g] = "push"
  /\ Len(queue) < QueueCap
  /\ queue' = Append(queue, g)
  /\ gvt_pc' = [gvt_pc EXCEPT ![g] = "block"]
  /\ UNCHANGED <<pending, did, ring, comp, rpc, target, after, results, call,
                 recv_len, to_send, fd, open, running, stopping, supported,
                 missed, lost, overtaken>>

\* block_current: the state, then the switch.
BlockCurrent(g) ==
  /\ gvt_pc[g] \in {"block", "switch"}
  /\ gvt_pc' = [gvt_pc EXCEPT ![g] = IF @ = "block" THEN "switch" ELSE "parked"]
  /\ UNCHANGED <<loopVars, results, call, recv_len, to_send, fd, open, running,
                 stopping, supported, ghostVars>>

\* A woken GVThread is run again, and reads its result.
Resume(g) ==
  /\ gvt_pc[g] = "ready"
  /\ gvt_pc' = [gvt_pc EXCEPT ![g] = "read"]
  /\ UNCHANGED <<loopVars, results, call, recv_len, to_send, fd, open, running,
                 stopping, supported, ghostVars>>

\* read_result.
ReadResult(g) == results' = [results EXCEPT ![g] = NoResult]

\* submit_and_park up to its first push, and the calls the server makes of it.
submit_and_park(g, nr) ==
  gvt_pc' = [gvt_pc EXCEPT ![g] = "push"] /\ call' = [call EXCEPT ![g] = nr]

ksvc_accept4 == submit_and_park(Acceptor, "accept4")
ksvc_recv(c) == submit_and_park(c, "recvfrom")
ksvc_send(c) == submit_and_park(c, "sendto")

----------------------------------------------------------------------------
(* accept_loop.                                                             *)

AcceptTop ==
  /\ gvt_pc[Acceptor] = "start"
  /\ IF running
     THEN ksvc_accept4
     ELSE /\ gvt_pc' = [gvt_pc EXCEPT ![Acceptor] = "off"]
          /\ call' = [call EXCEPT ![Acceptor] = NoCall]
  /\ UNCHANGED <<loopVars, results, recv_len, to_send, fd, open, running,
                 stopping, supported, ghostVars>>

\* GvtListener::accept returns: a GVThread is spawned for the connection; an
\* error is retried.
Accepted ==
  /\ gvt_pc[Acceptor] = "read"
  /\ IF results[Acceptor] >= 0
     THEN \E c \in Conn :
            /\ gvt_pc[c] = "off"
            /\ gvt_pc' = [gvt_pc EXCEPT ![Acceptor] = "start", ![c] = "start"]
            /\ fd' = [fd EXCEPT ![c] = results[Acceptor]]
     ELSE /\ gvt_pc' = [gvt_pc EXCEPT ![Acceptor] = "start"]
          /\ UNCHANGED fd
  /\ call' = [call EXCEPT ![Acceptor] = NoCall]
  /\ ReadResult(Acceptor)
  /\ UNCHANGED <<loopVars, recv_len, to_send, open, running, stopping,
                 supported, ghostVars>>

----------------------------------------------------------------------------
(* handle_connection.                                                       *)

\* The closure ends and drops the stream, which closes the descriptor.
End(c) ==
  /\ gvt_pc' = [gvt_pc EXCEPT ![c] = "off"]
  /\ call' = [call EXCEPT ![c] = NoCall]
  /\ open' = open \ {fd[c]}
  /\ fd' = [fd EXCEPT ![c] = 0]
  /\ recv_len' = [recv_len EXCEPT ![c] = 0] /\ to_send' = [to_send EXCEPT ![c] = 0]

\* The keep-alive loop's top: stream.read.
ConnTop(c) ==
  /\ gvt_pc[c] = "start"
  /\ IF running
     THEN ksvc_recv(c) /\ UNCHANGED <<fd, open, recv_len, to_send>>
     ELSE End(c)
  /\ UNCHANGED <<loopVars, results, running, stopping, supported, ghostVars>>

\* The received bytes complete a request, or they do not: the rest is read,
\* unless the buffer is full.
Received(c) ==
  /\ gvt_pc[c] = "read" /\ call[c] = "recvfrom"
  /\ LET n == results[c] IN
       \/ n <= 0 /\ End(c)
       \/ /\ n > 0
          /\ \/ /\ to_send' = [to_send EXCEPT ![c] = RespLen]
                /\ recv_len' = [recv_len EXCEPT ![c] = 0]
                /\ ksvc_send(c) /\ UNCHANGED <<fd, open>>
             \/ /\ recv_len[c] + n < RecvBuf
                /\ recv_len' = [recv_len EXCEPT ![c] = @ + n]
                /\ gvt_pc' = [gvt_pc EXCEPT ![c] = "start"]
                /\ call' = [call EXCEPT ![c] = NoCall]
                /\ UNCHANGED <<to_send, fd, open>>
             \/ recv_len[c] + n >= RecvBuf /\ End(c)
  /\ ReadResult(c)
  /\ UNCHANGED <<loopVars, running, stopping, supported, ghostVars>>

\* Mutant: a connection whose send failed is left without being closed.
SentLeaks(c) ==
  /\ gvt_pc[c] = "read" /\ call[c] = "sendto"
  /\ IF results[c] >= 0
     THEN /\ to_send' = [to_send EXCEPT ![c] = @ - results[c]]
          /\ IF to_send[c] > results[c]
             THEN ksvc_send(c) /\ UNCHANGED <<fd, open>>
             ELSE /\ gvt_pc' = [gvt_pc EXCEPT ![c] = "start"]
                  /\ call' = [call EXCEPT ![c] = NoCall]
                  /\ UNCHANGED <<fd, open>>
          /\ UNCHANGED recv_len
     ELSE /\ gvt_pc' = [gvt_pc EXCEPT ![c] = "off"]
          /\ fd' = [fd EXCEPT ![c] = 0]
          /\ UNCHANGED <<call, open, recv_len, to_send>>
  /\ ReadResult(c)
  /\ UNCHANGED <<loopVars, running, stopping, supported, ghostVars>>

\* ksvc_send_all: what is left is sent, EAGAIN is retried.
Sent(c) ==
  /\ gvt_pc[c] = "read" /\ call[c] = "sendto"
  /\ LET n == results[c] IN
       IF n < 0 /\ n # EAGAIN
       THEN End(c)
       ELSE /\ to_send' = [to_send EXCEPT ![c] = IF n = EAGAIN THEN @ ELSE @ - n]
            /\ IF to_send'[c] > 0
               THEN ksvc_send(c) /\ UNCHANGED <<fd, open>>
               ELSE /\ gvt_pc' = [gvt_pc EXCEPT ![c] = "start"]
                    /\ call' = [call EXCEPT ![c] = NoCall]
                    /\ UNCHANGED <<fd, open>>
            /\ UNCHANGED recv_len
  /\ ReadResult(c)
  /\ UNCHANGED <<loopVars, running, stopping, supported, ghostVars>>

----------------------------------------------------------------------------
(* reactor_loop.                                                            *)

gvtSide == <<gvtVars, open, running, stopping, supported>>

Check ==
  /\ rpc = "check"
  /\ IF stopping
     THEN rpc' = "down" /\ ring' = io_shutdown(ring)
     ELSE rpc' = "pop" /\ UNCHANGED ring
  /\ UNCHANGED <<queue, pending, did, comp, target, after, results, gvtSide, ghostVars>>

Pop ==
  /\ rpc = "pop"
  /\ IF queue # <<>> /\ Len(pending) < Batch
     THEN /\ pending' = Append(pending, Head(queue)) /\ queue' = Tail(queue)
          /\ did' = TRUE /\ UNCHANGED rpc
     ELSE /\ rpc' = "route" /\ UNCHANGED <<queue, pending, did>>
  /\ UNCHANGED <<ring, comp, target, after, results, gvtSide, ghostVars>>

\* write_result; the wake-up follows.
Answer(g, result, next) ==
  /\ results' = [results EXCEPT ![g] = result]
  /\ target' = g /\ after' = next /\ rpc' = "wake"

Tier(g) == route(supported, call[g]).tier

Submits(g) == Outcome(ring, SqSize, route(supported, call[g]).opcode)

\* Mutant: a full ring is not answered.
RouteForgets ==
  /\ rpc = "route" /\ pending # <<>>
  /\ pending' = Tail(pending)
  /\ IF Tier(Head(pending)) = "IoUring"
     THEN /\ ring' = submit_with_opcode(ring, SqSize, Head(pending),
                        route(supported, call[Head(pending)]).opcode)
          /\ UNCHANGED <<rpc, target, after, results>>
     ELSE Answer(Head(pending), EOTHER, "route") /\ UNCHANGED ring
  /\ UNCHANGED <<queue, did, comp, gvtSide, missed, lost, overtaken>>

\* Mutant: an error is stored and nobody is woken.
RouteUnwoken ==
  /\ rpc = "route" /\ pending # <<>>
  /\ pending' = Tail(pending)
  /\ LET g == Head(pending) IN
       IF Tier(g) = "IoUring" /\ Submits(g) = "Ok"
       THEN ring' = Pushed(ring, g) /\ UNCHANGED results
       ELSE results' = [results EXCEPT ![g] = EAGAIN] /\ UNCHANGED ring
  /\ UNCHANGED <<queue, did, comp, rpc, target, after, gvtSide, missed, lost,
                 overtaken>>

\* One request of the batch goes to the ring; one that the ring does not take
\* is answered with EAGAIN, one of another tier with ENOSYS.
Route ==
  /\ rpc = "route" /\ pending # <<>>
  /\ pending' = Tail(pending)
  /\ LET g == Head(pending) IN
       IF Tier(g) = "IoUring" /\ Submits(g) = "Ok"
       THEN /\ ring' = Pushed(ring, g)
            /\ UNCHANGED <<rpc, target, after, results>>
       ELSE /\ Answer(g, IF Tier(g) = "IoUring" THEN EAGAIN ELSE EOTHER, "route")
            /\ UNCHANGED ring
  /\ UNCHANGED <<queue, did, comp, gvtSide, missed, lost, overtaken>>

\* The ring is entered, waiting for a completion only when the batch was empty
\* and something is in flight.
Enter ==
  /\ rpc = "route" /\ pending = <<>>
  /\ did' = FALSE
  /\ IF ring.inflight > 0 \/ did
     THEN /\ ring' = flush_and_wait(ring)
          /\ rpc' = IF ring.inflight > 0 /\ ~did THEN "wait" ELSE "poll"
     ELSE ring' = flush(ring) /\ rpc' = "check"
  /\ UNCHANGED <<queue, pending, comp, target, after, results, gvtSide, ghostVars>>

\* io_uring_enter returns once there is a completion.
Wait ==
  /\ rpc = "wait" /\ ring.cq # <<>>
  /\ rpc' = "poll"
  /\ UNCHANGED <<queue, pending, did, ring, comp, target, after, results, gvtSide,
                 ghostVars>>

ReactorPoll ==
  /\ rpc = "poll"
  /\ comp' = Polled(ring, MaxComp)
  /\ ring' = poll_completions(ring, MaxComp)
  /\ lost' = lost \cup DroppedByPoll(ring, MaxComp)
  /\ rpc' = "answer"
  /\ UNCHANGED <<queue, pending, did, target, after, results, gvtSide, missed,
                 overtaken>>

AnswerComp ==
  /\ rpc = "answer"
  /\ IF comp # <<>>
     THEN comp' = Tail(comp) /\ Answer(Head(comp).id, Head(comp).result, "answer")
     ELSE rpc' = "check" /\ UNCHANGED <<comp, target, after, results>>
  /\ UNCHANGED <<queue, pending, did, ring, gvtSide, missed, lost, overtaken>>

\* scheduler::wake_gvthread: only a Blocked GVThread is made ready.
WakeGvt ==
  /\ rpc = "wake"
  /\ rpc' = after /\ target' = Acceptor /\ after' = "check"
  /\ gvt_pc' = [gvt_pc EXCEPT ![target] = IF @ = "parked" THEN "ready" ELSE @]
  /\ missed' = IF gvt_pc[target] = "block" THEN missed \cup {target} ELSE missed
  /\ overtaken' = (gvt_pc[target] = "switch")
  /\ UNCHANGED <<queue, pending, did, ring, comp, results, call, recv_len, to_send, fd,
                 open, running, stopping, supported, lost>>

----------------------------------------------------------------------------
(* The kernel, the clients and the end of the program.                      *)

Outcomes(g) ==
  {EOTHER} \cup
  CASE call[g] = "accept4"  -> Fd \ open
    [] call[g] = "recvfrom" -> 0..(RecvBuf - recv_len[g])
    [] call[g] = "sendto"   -> 1..to_send[g]

KernelStep(g) ==
  /\ g \in ring.kernel
  /\ \E r \in Outcomes(g) :
       /\ ring' = KernelCompletes(ring, g, r)
       /\ open' = IF call[g] = "accept4" /\ r \in Fd THEN open \cup {r} ELSE open
  /\ UNCHANGED <<queue, pending, did, comp, rpc, target, after, results, gvtVars,
                 running, stopping, supported, ghostVars>>

\* SIGINT; main then calls Reactor::shutdown.
Stop ==
  /\ IF running THEN running' = FALSE /\ UNCHANGED stopping
                ELSE ~stopping /\ stopping' = TRUE /\ UNCHANGED running
  /\ UNCHANGED <<loopVars, results, gvtVars, open, supported, ghostVars>>

Hung == rpc = "wait" /\ ring.cq = <<>> /\ ring.kernel = {}

Finished == (overtaken \/ rpc = "down" \/ Hung) /\ UNCHANGED reactorVars

GvtStep(g) == PushRequest(g) \/ BlockCurrent(g) \/ Resume(g)

ConnStep(c) == ConnTop(c) \/ Received(c) \/ Sent(c)

ReactorStep ==
  Check \/ Pop \/ Route \/ Enter \/ Wait \/ ReactorPoll \/ AnswerComp \/ WakeGvt

Step ==
  \/ \E g \in Gvts : GvtStep(g) \/ KernelStep(g)
  \/ AcceptTop \/ Accepted
  \/ \E c \in Conn : ConnStep(c)
  \/ ReactorStep \/ Stop

ReactorNext == (~overtaken /\ Step) \/ Finished

ReactorSpec == ReactorInit /\ [][ReactorNext]_reactorVars

\* The reactor's thread and the workers run; the kernel finishes a send.
\* Nothing makes a client connect or write.
ReactorFairness ==
  /\ WF_reactorVars(~overtaken /\ ReactorStep)
  /\ \A g \in Gvts : WF_reactorVars(~overtaken /\ GvtStep(g))
  /\ WF_reactorVars(~overtaken /\ (AcceptTop \/ Accepted))
  /\ \A c \in Conn : WF_reactorVars(~overtaken /\ ConnStep(c))
  /\ \A c \in Conn : WF_reactorVars(~overtaken /\ call[c] = "sendto" /\ KernelStep(c))

ReactorFairSpec == ReactorSpec /\ ReactorFairness

----------------------------------------------------------------------------
Waiting(g) == gvt_pc[g] \in {"block", "switch", "parked"}

Places(g) ==
  {p \in {"queue", "batch", "ring", "completions", "answered", "dropped"} :
     \/ p = "queue" /\ g \in Range(queue)
     \/ p = "batch" /\ g \in Range(pending)
     \/ p = "ring" /\ g \in InRing(ring)
     \/ p = "completions" /\ \E i \in DOMAIN comp : comp[i].id = g
     \/ p = "answered" /\ results[g] # NoResult
     \/ p = "dropped" /\ g \in lost}

\* A GVThread that waits has its request in exactly one place: the queue, the
\* batch, the ring, the completions being handled, answered, or among the
\* completions a poll dropped; one that comes back from a call finds a result
\* in the slab, and no request of its own is left anywhere to answer again.
RequestAccounted ==
  rpc # "down" => \A g \in Gvts :
    /\ Waiting(g) => Cardinality(Places(g)) = 1
    /\ gvt_pc[g] \in {"ready", "read"} => Places(g) = {"answered"}

\* A GVThread whose result is stored is woken, unless the wake-up came before
\* it was Blocked: then it stays parked, and the slab keeps its result.
StuckOnlyIfMissed ==
  \A g \in Gvts : gvt_pc[g] = "parked" /\ results[g] # NoResult =>
    g \in missed \/ (rpc = "wake" /\ target = g)

\* A stream's descriptor is open, and an open descriptor belongs to a stream
\* or to the accept that is about to hand it out: none is left open when its
\* connection has ended, none is closed under a connection that lives.
FdOwned ==
  /\ \A c \in Conn : fd[c] # 0 => fd[c] \in open
  /\ rpc # "down" /\ lost = {} => \A f \in open :
       \/ \E c \in Conn : fd[c] = f
       \/ \E i \in DOMAIN ring.cq : ring.cq[i] = [id |-> Acceptor, result |-> f]
       \/ \E i \in DOMAIN comp : comp[i] = [id |-> Acceptor, result |-> f]
       \/ results[Acceptor] = f

\* A request that is pushed reaches the kernel or is answered, and a completion
\* is delivered, unless the reactor is told to stop: the reactor is "always
\* available to poll completions and submit new requests"
\* (docs/KSVC_GVTHREAD.md:84-85).
Progress ==
  \A g \in Gvts :
    (g \in Range(queue) \/ \E i \in DOMAIN ring.cq : ring.cq[i].id = g) ~>
      \/ results[g] # NoResult \/ g \in ring.kernel
      \/ stopping \/ overtaken \/ g \in lost

================================================================================
