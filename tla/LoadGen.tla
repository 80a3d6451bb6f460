-------------------------------- MODULE LoadGen --------------------------------
(***************************************************************************)
(* The load generator (cmd/wrkr/rust/wrkr): an optional warm-up phase and a *)
(* measured phase, each with one task per connection and a timer that stops *)
(* them, and a task that reports the progress of the measured phase once a  *)
(* second.  The tasks run on a multi-threaded executor; they share stop and *)
(* counter, two atomics.                                                    *)
(*                                                                          *)
(* Latencies are abstracted to how many there are, time to the order of the *)
(* timer's steps; TCP and HTTP to whether an exchange succeeds.             *)
(***************************************************************************)
EXTENDS Naturals

CONSTANTS Connections,   \* cfg.connections
          ExchangeLimit  \* bound on the exchanges of a connection in a phase

ASSUME LoadGenAssumption == Connections \in Nat

Client == 1..Connections

VARIABLES
  strategy,     \* "hyper", "reqwest" or "echo"
  phase,        \* "warmup" or "measure"
  main_pc,      \* what main waits for: the timer, a handle, the reporter
  phase_stop,   \* the phase's stop
  task,         \* where each connection's task is
  conn_result,  \* its ConnResult, latencies_ns as their number
  counter,      \* requests of the phase
  merged,       \* handles awaited so far
  total,        \* the PhaseResult
  progress,     \* the reporter: its place and its variable last
  prog_stop,
  timed         \* history: counter when the phase's time was taken

loadGenVars == <<strategy, phase, main_pc, phase_stop, task, conn_result, counter,
                 merged, total, progress, prog_stop, timed>>

NoRequests == [requests |-> 0, errors |-> 0, latencies |-> 0]
collect == IF phase = "measure" THEN 1 ELSE 0
first_step == IF strategy = "echo" THEN "connect" ELSE "loop"

\* cfg.warmup_sec is zero or not; with no warm-up the reporter starts at once.
LoadGenInit ==
  /\ strategy \in {"hyper", "reqwest", "echo"}
  /\ phase \in {"warmup", "measure"} /\ main_pc = "timer" /\ phase_stop = FALSE
  /\ task = [c \in Client |-> first_step]
  /\ conn_result = [c \in Client |-> NoRequests]
  /\ counter = 0 /\ merged = 0 /\ total = NoRequests /\ timed = 0
  /\ progress = [at |-> IF phase = "measure" THEN "sleep" ELSE "none", last |-> 0]
  /\ prog_stop = FALSE

----------------------------------------------------------------------------
(* The task of a connection. *)

TaskGoto(c, from, to) == task[c] = from /\ task' = [task EXCEPT ![c] = to]

mainVars == <<strategy, phase, main_pc, phase_stop, merged, total, progress, prog_stop,
              timed>>

\* while !stop.load(Relaxed)
CheckStop(c) ==
  /\ IF phase_stop THEN TaskGoto(c, "loop", "done")
     ELSE /\ conn_result[c].requests + conn_result[c].errors < ExchangeLimit
          /\ TaskGoto(c, "loop", "exchange")
  /\ UNCHANGED <<mainVars, conn_result, counter>>

Succeeds(c) ==
  /\ TaskGoto(c, "exchange", "loop")
  /\ conn_result' = [conn_result EXCEPT ![c].requests = @ + 1, ![c].latencies = @ + collect]
  /\ counter' = counter + 1
  /\ UNCHANGED mainVars

Fails(c, from, to) ==
  /\ TaskGoto(c, from, to)
  /\ conn_result' = [conn_result EXCEPT ![c].errors = @ + 1]
  /\ UNCHANGED <<mainVars, counter>>

\* client.get and the body: either may fail, the loop goes on.
run_hyper_phase(c) ==
  strategy = "hyper" /\ (CheckStop(c) \/ Succeeds(c) \/ Fails(c, "exchange", "loop"))

run_reqwest_phase(c) ==
  strategy = "reqwest" /\ (CheckStop(c) \/ Succeeds(c) \/ Fails(c, "exchange", "loop"))

\* EchoConn::connect, before the loop and after a round trip that failed: the
\* first failure is an error of the task, a later one only ends the loop.
connect(c) ==
  \/ /\ \/ TaskGoto(c, "connect", "loop")
        \/ TaskGoto(c, "reconnect", "loop")
        \/ TaskGoto(c, "reconnect", "done")
     /\ UNCHANGED <<mainVars, conn_result, counter>>
  \/ Fails(c, "connect", "done")

\* EchoConn::roundtrip: the payload is written and read back in full, or an
\* error or the end of the stream ends it.
roundtrip(c) == Succeeds(c) \/ Fails(c, "exchange", "reconnect")

run_echo_phase(c) == strategy = "echo" /\ (connect(c) \/ CheckStop(c) \/ roundtrip(c))

----------------------------------------------------------------------------
(* main, and the timer of a phase. *)

taskVars == <<strategy, task, conn_result>>

Timer ==
  /\ main_pc = "timer" /\ ~phase_stop /\ phase_stop' = TRUE
  /\ UNCHANGED <<taskVars, phase, main_pc, counter, merged, total, progress, prog_stop,
                 timed>>

\* timer.await; the duration of the phase is taken before the handles are awaited.
TimerAwaited ==
  /\ main_pc = "timer" /\ phase_stop
  /\ main_pc' = "merge" /\ timed' = counter
  /\ UNCHANGED <<taskVars, phase, phase_stop, counter, merged, total, progress, prog_stop>>

\* merge_results: the handles are awaited in their order.
merge_results ==
  LET c == merged + 1 IN
  /\ main_pc = "merge" /\ c \in Client /\ task[c] = "done"
  /\ merged' = c
  /\ total' = [requests  |-> total.requests + conn_result[c].requests,
               errors    |-> total.errors + conn_result[c].errors,
               latencies |-> total.latencies + collect * conn_result[c].latencies]
  /\ UNCHANGED <<taskVars, phase, main_pc, phase_stop, counter, progress, prog_stop, timed>>

Merged == main_pc = "merge" /\ merged = Connections

\* Mutant: the counter keeps the requests of the warm-up.
WarmupDoneKeeps ==
  /\ Merged /\ phase = "warmup"
  /\ phase' = "measure" /\ main_pc' = "timer" /\ phase_stop' = FALSE
  /\ task' = [c \in Client |-> first_step]
  /\ conn_result' = [c \in Client |-> NoRequests]
  /\ merged' = 0 /\ total' = NoRequests /\ timed' = counter
  /\ progress' = [at |-> "sleep", last |-> 0]
  /\ UNCHANGED <<strategy, counter, prog_stop>>

\* The end of the warm-up: the counter is set back, spawn_progress, and the
\* phase again, measured.  No task of the warm-up is left.
WarmupDone ==
  /\ Merged /\ phase = "warmup"
  /\ counter' = 0
  /\ phase' = "measure" /\ main_pc' = "timer" /\ phase_stop' = FALSE
  /\ task' = [c \in Client |-> first_step]
  /\ conn_result' = [c \in Client |-> NoRequests]
  /\ merged' = 0 /\ total' = NoRequests /\ timed' = 0
  /\ progress' = [at |-> "sleep", last |-> 0]
  /\ UNCHANGED <<strategy, prog_stop>>

StopProgress ==
  /\ Merged /\ phase = "measure"
  /\ main_pc' = "reporter" /\ prog_stop' = TRUE
  /\ UNCHANGED <<taskVars, phase, phase_stop, counter, merged, total, progress, timed>>

\* prog_handle.await, then the results are printed.
Report ==
  /\ main_pc = "reporter" /\ progress.at = "done"
  /\ main_pc' = "finished"
  /\ UNCHANGED <<taskVars, phase, phase_stop, counter, merged, total, progress, prog_stop,
                 timed>>

\* spawn_progress: a second has passed; the counter is loaded after prog_stop.
ProgressTick ==
  /\ progress.at = "sleep"
  /\ progress' = [progress EXCEPT !.at = IF prog_stop THEN "done" ELSE "load"]
  /\ UNCHANGED <<taskVars, phase, main_pc, phase_stop, counter, merged, total, prog_stop,
                 timed>>

ReportProgress ==
  /\ progress.at = "load"
  /\ progress' = [at |-> "sleep", last |-> counter]
  /\ UNCHANGED <<taskVars, phase, main_pc, phase_stop, counter, merged, total, prog_stop,
                 timed>>

LoadGenDone == main_pc = "finished" /\ UNCHANGED loadGenVars

LoadGenNext ==
  \/ \E c \in Client : run_hyper_phase(c) \/ run_reqwest_phase(c) \/ run_echo_phase(c)
  \/ Timer \/ TimerAwaited \/ merge_results \/ WarmupDone \/ StopProgress \/ Report
  \/ ProgressTick \/ ReportProgress \/ LoadGenDone

LoadGenSpec == LoadGenInit /\ [][LoadGenNext]_loadGenVars

----------------------------------------------------------------------------
\* What is printed is the measured phase and nothing else: the total of the
\* connections is the shared counter and the number of latencies, without the
\* requests of the warm-up; the reporter's now - last never underflows; and the
\* requests that were answered after the time was taken, by which the rate
\* reqs / dur is too high, are at most one per connection.
Measured ==
  /\ main_pc = "finished" => total.requests = counter /\ total.latencies = counter
  /\ progress.last <= counter
  /\ main_pc # "timer" => counter - timed <= Connections
================================================================================
