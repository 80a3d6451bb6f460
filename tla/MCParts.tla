-------------------------------- MODULE MCParts --------------------------------
(*****************************************************************************)
(* The components that share no state with the others, for TLC: one run      *)
(* covers them, the variable active says which of them is explored, and the  *)
(* others stay where they begin.                                             *)
(*****************************************************************************)
EXTENDS SlotAllocator, Locks, Parking, Bitmap, Cancel, Kmod, Channel,
        HeapTimers, Preempt, LoadGen, Reactor

\* Kernels with and without IORING_OP_RECV.
Probes == {all_opcodes, all_opcodes \ {op.RECV}}

VARIABLE active

partVars == <<active, vars, locksVars, parkingVars, bitmapVars, cancelVars,
              kmodVars, channelVars, heapTimersVars, preemptVars, loadGenVars,
              reactorVars>>

\* Where a component has a choice of variant, the ones not explored take one.
PartInit ==
  /\ active \in {"slots", "locks", "parking", "bitmap", "cancel", "kmod",
                "channel", "timers", "preempt", "load", "reactor"}
  /\ Init /\ LocksInit /\ ParkingInit /\ BitmapInit
  /\ CancelInit /\ KmodInit /\ ChannelInit /\ HeapTimersInit
  /\ PreemptInit /\ LoadGenInit /\ ReactorInit
  /\ active # "locks" => lock_kind = "spin"
  /\ active # "parking" => park_kind = "futex"
  /\ active # "channel" => capacity = 1
  /\ active # "load" => strategy = "hyper" /\ phase = "measure"
  /\ active # "reactor" => supported = all_opcodes

\* The others stay where they begin.
Rest(explored) ==
  /\ explored # "slots" => UNCHANGED vars
  /\ explored # "locks" => UNCHANGED locksVars
  /\ explored # "parking" => UNCHANGED parkingVars
  /\ explored # "bitmap" => UNCHANGED bitmapVars
  /\ explored # "cancel" => UNCHANGED cancelVars
  /\ explored # "kmod" => UNCHANGED kmodVars
  /\ explored # "channel" => UNCHANGED channelVars
  /\ explored # "timers" => UNCHANGED heapTimersVars
  /\ explored # "preempt" => UNCHANGED preemptVars
  /\ explored # "load" => UNCHANGED loadGenVars
  /\ explored # "reactor" => UNCHANGED reactorVars

PartNext ==
  /\ UNCHANGED active /\ Rest(active)
  /\ \/ active = "slots" /\ Next
     \/ active = "locks" /\ LocksNext
     \/ active = "parking" /\ ParkingNext
     \/ active = "bitmap" /\ BitmapNext
     \/ active = "cancel" /\ CancelNext
     \/ active = "kmod" /\ KmodNext
     \/ active = "channel" /\ ChannelNext
     \/ active = "timers" /\ HeapTimersNext
     \/ active = "preempt" /\ PreemptNext
     \/ active = "load" /\ LoadGenNext
     \/ active = "reactor" /\ ReactorNext

\* Each component's Fairness, while it is the one that is explored.
PartFairness ==
  /\ ChannelFairness
  /\ WF_preemptVars(active = "preempt" /\ TimerStep)
  /\ \A w \in Worker : WF_preemptVars(active = "preempt" /\ ClearPreempt(w))

PartSpec == PartInit /\ [][PartNext]_partVars /\ PartFairness
================================================================================
