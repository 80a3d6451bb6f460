-------------------------------- MODULE Cancel --------------------------------
(***************************************************************************)
(* Cancellation tokens (cancel.rs): owned tokens with an optional parent,  *)
(* tokens that point to the cancelled byte in the metadata of a slot, and  *)
(* dummies.  Clones share the flag and are the same token.  is_cancelled   *)
(* walks up the parents one load at a time while other threads cancel,     *)
(* reset, and hand the slot to the next GVThread.                          *)
(***************************************************************************)
EXTENDS Naturals

CONSTANTS Token, MetaSlot, Checker,
          NoToken  \* no parent, or nothing to check

ASSUME CancelAssumption == NoToken \notin Token

VARIABLES inner,  \* inner[t]: what the token is, once created
          flag,   \* the flags of owned tokens and of slots
          check,  \* check[c]: the call of is_cancelled a thread is in
          due,    \* checks that began below a set flag that is still set
          could   \* checks that had a set flag above them at some time

cancelVars == <<inner, flag, check, due, could>>

CancelInit ==
  /\ inner = [t \in Token |-> [kind |-> "none", up |-> NoToken]]
  /\ flag = [x \in Token \cup MetaSlot |-> FALSE]
  /\ check = [c \in Checker |-> [tok |-> NoToken, at |-> NoToken, ret |-> "none"]]
  /\ due = {} /\ could = {}

Created(t) == inner[t].kind # "none"

\* The flag a token reads and writes; a dummy has none.
Cell(t) == IF inner[t].kind = "metadata" THEN inner[t].up ELSE t

HasParent(t) == inner[t].kind = "owned" /\ inner[t].up \in Token

Upward(S) == \A u \in S : HasParent(u) => inner[u].up \in S

\* The token and its ancestors: the least set with both.
Chain(t) == {u \in Token : \A S \in SUBSET Token : t \in S /\ Upward(S) => u \in S}

Cells(t) == {Cell(u) : u \in {v \in Chain(t) : inner[v].kind # "dummy"}}

-----------------------------------------------------------------------------
(* constructors *)

Make(t, kind, up) ==
  /\ ~Created(t)
  /\ inner' = [inner EXCEPT ![t] = [kind |-> kind, up |-> up]]
  /\ UNCHANGED <<flag, check, due, could>>

New(t) == Make(t, "owned", NoToken)

FromMetadata(t) == \E s \in MetaSlot : Make(t, "metadata", s)

Dummy(t) == Make(t, "dummy", NoToken)

Child(t) == \E p \in Token : Created(p) /\ Make(t, "owned", p)

-----------------------------------------------------------------------------
(* cancel, reset and the reuse of a slot *)

Running(x) == {c \in Checker : check[c].at # NoToken /\ x \in Cells(check[c].tok)}

Cancel(t) ==
  /\ Created(t) /\ inner[t].kind # "dummy"
  /\ flag' = [flag EXCEPT ![Cell(t)] = TRUE]
  /\ could' = could \cup Running(Cell(t))
  /\ UNCHANGED <<inner, check, due>>

Lower(x) ==
  /\ flag' = [flag EXCEPT ![x] = FALSE]
  /\ due' = due \ Running(x)
  /\ UNCHANGED <<inner, check, could>>

Reset(t) == Created(t) /\ inner[t].kind # "dummy" /\ Lower(Cell(t))

\* GVThreadMetadata::init clears the byte for the next GVThread in the slot.
Reuse(s) == Lower(s)

-----------------------------------------------------------------------------
(* is_cancelled, check, check_and_yield *)

Cancelled(t) == \E x \in Cells(t) : flag[x]

StartCheck(c, t) ==
  /\ Created(t) /\ check[c].at = NoToken
  /\ check' = [check EXCEPT ![c] = [tok |-> t, at |-> t, ret |-> "none"]]
  /\ due' = IF Cancelled(t) THEN due \cup {c} ELSE due \ {c}
  /\ could' = IF Cancelled(t) THEN could \cup {c} ELSE could \ {c}
  /\ UNCHANGED <<inner, flag>>

\* Mutant: the flag of the token itself is not looked at.
CheckStepParentsOnly(c) ==
  LET t == check[c].at IN
  /\ t # NoToken
  /\ \/ /\ t # check[c].tok /\ inner[t].kind # "dummy" /\ flag[Cell(t)]
        /\ check' = [check EXCEPT ![c].at = NoToken, ![c].ret = "cancelled"]
     \/ /\ ~(t # check[c].tok /\ inner[t].kind # "dummy" /\ flag[Cell(t)])
        /\ IF HasParent(t)
           THEN check' = [check EXCEPT ![c].at = inner[t].up]
           ELSE check' = [check EXCEPT ![c].at = NoToken, ![c].ret = "ok"]
  /\ UNCHANGED <<inner, flag, due, could>>

CheckStep(c) ==
  LET t == check[c].at IN
  /\ t # NoToken
  /\ \/ /\ inner[t].kind # "dummy" /\ flag[Cell(t)]
        /\ check' = [check EXCEPT ![c].at = NoToken, ![c].ret = "cancelled"]
     \/ /\ ~(inner[t].kind # "dummy" /\ flag[Cell(t)])
        /\ IF HasParent(t)
           THEN check' = [check EXCEPT ![c].at = inner[t].up]
           ELSE check' = [check EXCEPT ![c].at = NoToken, ![c].ret = "ok"]
  /\ UNCHANGED <<inner, flag, due, could>>

CancelNext ==
  \/ \E t \in Token : New(t) \/ FromMetadata(t) \/ Dummy(t) \/ Child(t)
                      \/ Cancel(t) \/ Reset(t)
  \/ \E s \in MetaSlot : Reuse(s)
  \/ \E c \in Checker : CheckStep(c) \/ \E t \in Token : StartCheck(c, t)

CancelSpec == CancelInit /\ [][CancelNext]_cancelVars

-----------------------------------------------------------------------------
(* properties *)

\* A check reports a cancellation of the token or of any ancestor that came
\* before it and was not reset meanwhile, and reports none that never was,
\* although it reads the flags one by one.
CheckSeesCancel ==
  \A c \in Checker : /\ check[c].ret = "ok" => c \notin due
                     /\ check[c].ret = "cancelled" => c \in could
===============================================================================
