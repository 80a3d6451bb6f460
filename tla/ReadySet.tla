------------------------------- MODULE ReadySet -------------------------------
(***************************************************************************)
(* What the ready queue promises its callers (trait ReadyQueue): every id  *)
(* handed to push is returned by pop exactly once.  Order is left open.    *)
(*                                                                         *)
(* A GVThread id is in one of three situations: outside the queue and not  *)
(* in use by a thread (blocked, finished or not spawned), in the hands of  *)
(* one OS thread, or ready.                                                *)
(***************************************************************************)
CONSTANTS Id,      \* GVThread ids
          Thread,  \* OS threads that call push or pop
          NoId     \* no GVThread

VARIABLES outside, \* ids no thread holds and the queue does not contain
          held,    \* the id each thread holds
          ready    \* ids pushed and not yet popped

vars == <<outside, held, ready>>

Init ==
  /\ outside = Id
  /\ held = [t \in Thread |-> NoId]
  /\ ready = {}

\* A thread decides to make an id ready (spawn, wake_gvthread).
Take(t) ==
  /\ held[t] = NoId
  /\ \E id \in outside :
       /\ outside' = outside \ {id}
       /\ held' = [held EXCEPT ![t] = id]
  /\ UNCHANGED ready

Push(t) ==
  /\ held[t] # NoId
  /\ ready' = ready \cup {held[t]}
  /\ held' = [held EXCEPT ![t] = NoId]
  /\ UNCHANGED outside

Pop(t) ==
  /\ held[t] = NoId
  /\ \E id \in ready :
       /\ ready' = ready \ {id}
       /\ held' = [held EXCEPT ![t] = id]
  /\ UNCHANGED outside

\* The GVThread a worker ran has blocked or finished.
Leave(t) ==
  /\ held[t] # NoId
  /\ outside' = outside \cup {held[t]}
  /\ held' = [held EXCEPT ![t] = NoId]
  /\ UNCHANGED ready

Next == \E t \in Thread : Take(t) \/ Push(t) \/ Pop(t) \/ Leave(t)

Spec == Init /\ [][Next]_vars
===============================================================================
