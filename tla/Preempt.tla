------------------------------- MODULE Preempt --------------------------------
(***************************************************************************)
(* The stall detection of the timer thread (timer_loop and                 *)
(* handle_stuck_gvthread in timer/mod.rs) against the workers, which       *)
(* publish the running GVThread and an activity counter in WorkerState     *)
(* (metadata.rs) and clear the preempt flag when a GVThread starts, yields *)
(* or blocks (scheduler.rs).  The timer thread loads the GVThread and the  *)
(* counter in two steps and raises the flag of the GVThread it loaded.     *)
(*                                                                         *)
(* Time is counted in ticks from an event, up to one more than the slice;  *)
(* it passes while the timer thread sleeps between its rounds.  The sleep  *)
(* queue part of the loop is in SchedulerSleep.                            *)
(***************************************************************************)
EXTENDS Integers, FiniteSets, FiniteSetsExt

CONSTANTS Worker,  \* 1 .. number of workers, the order of a round
          Gvt, NoGvt,
          Slice    \* time_slice_ns

ASSUME PreemptAssumption ==
  /\ Slice \in Nat /\ NoGvt \notin Gvt
  /\ \E n \in {Cardinality(Worker)} : n \in Nat \ {0} /\ Worker = 1 .. n

VARIABLES current_gthread, activity_counter,  \* WorkerState
          worker_pc,   \* where each worker is: idle, clear, run, stop
          preempt_flag,
          last_counter, stall,  \* WorkerWatch; stall is -1 when None
          watched,          \* the worker the timer thread looks at, 0 between rounds
          gthread_id,  \* what it has loaded there
          timer,       \* "up", "stopping", "down"
          quiet,       \* time since the run on a worker began
          changed      \* workers that started a run since the stall was noted

preemptVars == <<current_gthread, activity_counter, worker_pc, preempt_flag,
                 last_counter, stall, watched, gthread_id, timer, quiet, changed>>
watch == <<last_counter, stall>>
look == <<watched, gthread_id>>

\* WorkerState::new and init.
InitWorkers ==
  /\ current_gthread = [w \in Worker |-> NoGvt]
  /\ activity_counter = [w \in Worker |-> 0]

PreemptInit ==
  /\ InitWorkers
  /\ worker_pc = [w \in Worker |-> "idle"]
  /\ preempt_flag = [g \in Gvt |-> 0]
  /\ last_counter = [w \in Worker |-> 0]
  /\ stall = [w \in Worker |-> -1]
  /\ watched = 0 /\ gthread_id = NoGvt /\ timer = "up"
  /\ quiet = [w \in Worker |-> 0] /\ changed = {}

-----------------------------------------------------------------------------
(* a worker *)

\* start_running resets the activity counter.
StartRunning(w, g) ==
  /\ worker_pc[w] = "idle" /\ \A v \in Worker : current_gthread[v] # g
  /\ worker_pc' = [worker_pc EXCEPT ![w] = "clear"]
  /\ current_gthread' = [current_gthread EXCEPT ![w] = g]
  /\ activity_counter' = [activity_counter EXCEPT ![w] = 0]
  /\ quiet' = [quiet EXCEPT ![w] = 0] /\ changed' = changed \cup {w}
  /\ UNCHANGED <<preempt_flag, watch, look, timer>>

ClearPreempt(w) ==
  /\ worker_pc[w] = "clear" /\ worker_pc' = [worker_pc EXCEPT ![w] = "run"]
  /\ preempt_flag' = [preempt_flag EXCEPT ![current_gthread[w]] = 0]
  /\ UNCHANGED <<current_gthread, activity_counter, watch, look, timer, quiet,
                 changed>>

\* yield_now records activity; block_current does not.  Both clear the flag;
\* a GVThread that finishes does neither.
LeaveGvt(w) ==
  /\ worker_pc[w] = "run" /\ worker_pc' = [worker_pc EXCEPT ![w] = "stop"]
  /\ \E how \in {"yield", "block", "finish"} :
       /\ activity_counter' = [activity_counter EXCEPT ![w] =
                                 IF how = "yield" THEN @ + 1 ELSE @]
       /\ preempt_flag' = [preempt_flag EXCEPT ![current_gthread[w]] =
                             IF how = "finish" THEN @ ELSE 0]
  /\ UNCHANGED <<current_gthread, watch, look, timer, quiet, changed>>

StopRunning(w) ==
  /\ worker_pc[w] = "stop" /\ worker_pc' = [worker_pc EXCEPT ![w] = "idle"]
  /\ current_gthread' = [current_gthread EXCEPT ![w] = NoGvt]
  /\ UNCHANGED <<activity_counter, preempt_flag, watch, look, timer, quiet,
                 changed>>

-----------------------------------------------------------------------------
(* the timer thread *)

workers == <<current_gthread, activity_counter, worker_pc, quiet>>

NextWorker == IF watched + 1 \in Worker THEN watched + 1 ELSE 0

\* A round begins with a sleep; now_instant is read once, after it.
StartRound ==
  /\ watched = 0 /\ timer = "up" /\ watched' = 1
  /\ \E d \in 1 .. Slice + 1 :
       LET Older(n) == Min({n + d, Slice + 1}) IN
       /\ quiet' = [w \in Worker |-> Older(quiet[w])]
       /\ stall' = [w \in Worker |-> IF stall[w] = -1 THEN -1 ELSE Older(stall[w])]
  /\ UNCHANGED <<current_gthread, activity_counter, worker_pc, preempt_flag,
                 last_counter, gthread_id, timer, changed>>

\* The shutdown flag is read between the rounds.
WatchExit ==
  /\ watched = 0 /\ timer = "stopping" /\ timer' = "down"
  /\ UNCHANGED <<workers, preempt_flag, watch, look, changed>>

WatchShutdown ==
  /\ timer = "up" /\ timer' = "stopping"
  /\ UNCHANGED <<workers, preempt_flag, watch, look, changed>>

LoadCurrent ==
  /\ watched # 0 /\ gthread_id = NoGvt
  /\ \/ /\ current_gthread[watched] = NoGvt
        /\ stall' = [stall EXCEPT ![watched] = -1]
        /\ watched' = NextWorker /\ UNCHANGED gthread_id
     \/ /\ current_gthread[watched] # NoGvt
        /\ gthread_id' = current_gthread[watched] /\ UNCHANGED <<watched, stall>>
  /\ UNCHANGED <<workers, preempt_flag, last_counter, timer, changed>>

\* handle_stuck_gvthread: the flag of the GVThread that was loaded.  A forced
\* preemption only sends a signal whose handler does nothing.
HandleStuck ==
  /\ preempt_flag' = [preempt_flag EXCEPT ![gthread_id] = 1]
  /\ stall' = [stall EXCEPT ![watched] = -1]

EndLook ==
  /\ watched' = NextWorker /\ gthread_id' = NoGvt
  /\ UNCHANGED <<workers, timer>>

\* Mutant: the counter last seen is not remembered.
LoadCounterForgets ==
  /\ gthread_id # NoGvt
  /\ \/ /\ activity_counter[watched] = last_counter[watched]
        /\ stall' = [stall EXCEPT ![watched] = 0]
        /\ changed' = changed \ {watched} /\ UNCHANGED preempt_flag
     \/ /\ activity_counter[watched] # last_counter[watched]
        /\ stall' = [stall EXCEPT ![watched] = -1]
        /\ UNCHANGED <<preempt_flag, changed>>
  /\ UNCHANGED last_counter
  /\ EndLook

LoadCounter ==
  /\ gthread_id # NoGvt
  /\ \/ /\ activity_counter[watched] = last_counter[watched]
        /\ \/ /\ stall[watched] = -1 /\ stall' = [stall EXCEPT ![watched] = 0]
              /\ changed' = changed \ {watched} /\ UNCHANGED preempt_flag
           \/ stall[watched] > Slice /\ HandleStuck /\ UNCHANGED changed
           \/ /\ stall[watched] \in 0 .. Slice
              /\ UNCHANGED <<stall, preempt_flag, changed>>
        /\ UNCHANGED last_counter
     \/ /\ activity_counter[watched] # last_counter[watched]
        /\ last_counter' = [last_counter EXCEPT ![watched] = activity_counter[watched]]
        /\ stall' = [stall EXCEPT ![watched] = -1]
        /\ UNCHANGED <<preempt_flag, changed>>
  /\ EndLook

-----------------------------------------------------------------------------

TimerStep == StartRound \/ LoadCurrent \/ LoadCounter

PreemptNext ==
  \/ \E w \in Worker : \/ \E g \in Gvt : StartRunning(w, g)
                       \/ ClearPreempt(w) \/ LeaveGvt(w) \/ StopRunning(w)
  \/ TimerStep \/ WatchExit \/ WatchShutdown

\* The timer thread makes its rounds, and a worker finishes the start of a run.
\* Nothing makes a GVThread give up its worker.
PreemptFairness ==
  WF_preemptVars(TimerStep) /\ \A w \in Worker : WF_preemptVars(ClearPreempt(w))

PreemptSpec == PreemptInit /\ [][PreemptNext]_preemptVars /\ PreemptFairness

-----------------------------------------------------------------------------
(* properties *)

\* A GVThread that keeps its worker is flagged in the end, whatever ran on the
\* worker before, whatever the counter was, and although a flag raised while
\* the run starts is cleared again.
StuckFlagged ==
  \A w \in Worker, g \in Gvt :
    LET Runs == current_gthread[w] = g /\ worker_pc[w] \in {"clear", "run"} IN
    []<>(~Runs \/ preempt_flag[g] = 1 \/ timer # "up")

\* A GVThread is flagged before its time slice is over only if the worker began
\* another run since the stall was noted: the watch does not see the GVThread
\* change, because start_running sets the counter back to the value it
\* remembers (timer/mod.rs:391).
EarlyOnlyAfterChange ==
  [][ (\E g \in Gvt : preempt_flag'[g] > preempt_flag[g])
        => watched \in changed \/ quiet[watched] > Slice ]_preemptVars

\* A GVThread that keeps its worker is flagged, and a flag comes early only
\* after the worker changed GVThreads.
FlaggedInTime == StuckFlagged /\ EarlyOnlyAfterChange

===============================================================================
