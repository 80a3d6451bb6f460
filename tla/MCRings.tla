-------------------------------- MODULE MCRings --------------------------------
(*****************************************************************************)
(* The KSVC dispatcher, the GVThread server on the worker reactors and the   *)
(* event-loop servers, for TLC.  They share no state, so that one run covers *)
(* them: the variable active says which of them is explored, the others stay *)
(* where they begin.                                                         *)
(*****************************************************************************)
EXTENDS Dispatcher, WorkerServer, KsvcServer

CONSTANTS p1, p2

TwoAndOne == [p \in {p1, p2} |-> IF p = p1 THEN 2 ELSE 1]

\* Capacities of one and of two, a backend that does and one that does not
\* translate, and calls of every tier.
Sized(n, translates, nrs) ==
  [comp |-> n, io |-> n, sq |-> n, depth |-> n, translates |-> translates, nrs |-> nrs]
OneAndTwo ==
  {Sized(1, TRUE, {"read", "fcntl"}), Sized(2, TRUE, {"read", "fcntl"}),
   Sized(2, FALSE, {"read", "getpid"})}

\* Kernels with and without IORING_OP_RECV.
Probes == {all_opcodes, all_opcodes \ {op.RECV}}

\* Every mode with one connection and one completion per round, so that a poll
\* can drop one; two connections of the echo server; and a kernel that cannot
\* open the file, so that the opcode of the open is refused.
two_conns == [mode |-> "echo", conns |-> 2, comp |-> 2, sq |-> 3, buf |-> 1,
              probe |-> all_opcodes]
one_conn(m, probe) == [mode |-> m, conns |-> 1, comp |-> 1, sq |-> 2, buf |-> 2,
                       probe |-> probe]
servers ==
  {two_conns, one_conn("file", all_opcodes \ {op.OPENAT})}
    \cup {one_conn(m, all_opcodes) : m \in {"hello", "file", "echo"}}

VARIABLE active

ringVars == <<active, vars, workerServerVars, ksvcServerVars>>

\* Where a component has a choice of variant, the ones not explored take one.
RingInit ==
  /\ active \in {"dispatcher", "server", "loop"}
  /\ Init /\ WorkerServerInit /\ KsvcServerInit
  /\ active # "dispatcher" => sizing = Sized(1, TRUE, {"read", "fcntl"})
  /\ active # "server" => probed = all_opcodes /\ wpc[2] = "exit"
  /\ active # "loop" => server = two_conns

RingNext ==
  /\ UNCHANGED active
  /\ \/ active = "dispatcher" /\ Next /\ UNCHANGED <<workerServerVars, ksvcServerVars>>
     \/ active = "server" /\ WorkerServerNext /\ UNCHANGED <<vars, ksvcServerVars>>
     \/ active = "loop" /\ KsvcServerNext /\ UNCHANGED <<vars, workerServerVars>>

\* Each component's Fairness, while it is the one that is explored.
RingFairness ==
  /\ WF_vars(active = "dispatcher" /\ ~overtaken /\ Dispatch)
  /\ WF_vars(active = "dispatcher" /\ ~overtaken /\ KernelStep)
  /\ WF_vars(active = "dispatcher" /\ ~overtaken /\ (Wait \/ Take))
  /\ \A p \in Producer :
       WF_vars(/\ active = "dispatcher" /\ ~overtaken
               /\ CheckFull(p) \/ Claim(p) \/ WriteEntry(p))
  /\ \A w \in PoolWorker :
       WF_vars(active = "dispatcher" /\ ~overtaken /\ (WorkerPops(w) \/ WorkerPushes(w)))
  /\ \A w \in Worker : WF_workerServerVars(active = "server" /\ WorkerStep(w))
  /\ WF_workerServerVars(active = "server" /\ MainStep)
  /\ \A c \in Conn :
       WF_workerServerVars(/\ active = "server" /\ gvt[c].call = "sendto"
                           /\ \E w \in Worker : GvtKernelStep(w, c))
  /\ WF_ksvcServerVars(active = "loop" /\ LoopStep)
  /\ \A i \in Slot :
       WF_ksvcServerVars(/\ active = "loop"
                         /\ conns[i].state \notin {"none", "Receiving"}
                         /\ ConnKernelStep(i))

RingSpec == RingInit /\ [][RingNext]_ringVars /\ RingFairness
================================================================================
