---------------------------- MODULE ClaimsProofs ----------------------------
(****************************************************************************)
(* Proofs about the ready bitmaps and the cancellation tokens, for any number *)
(* of workers and tokens: no id is claimed twice or missed by a scan, and a *)
(* cancellation is seen through any tree of tokens.                         *)
(****************************************************************************)
EXTENDS Bitmap, Cancel, WellFoundedInduction, TLAPS

\* The default provers, with more time than they have by default.
USE SMTT(100), ZenonT(60)

--------------------------------------------------------------------------------
(* Cancel *)

-----------------------------------------------------------------------------
(* The ancestors of a token. *)

LEMMA ChainContains ==
  ASSUME NEW t \in Token
  PROVE  /\ t \in Chain(t) /\ Chain(t) \in SUBSET Token /\ Upward(Chain(t))
BY DEF Chain, Upward, HasParent

LEMMA ChainLeast ==
  ASSUME NEW t \in Token, NEW S \in SUBSET Token, t \in S, Upward(S)
  PROVE  Chain(t) \subseteq S
BY DEF Chain

LEMMA ChainSub ==
  ASSUME NEW t \in Token, NEW u \in Chain(t)
  PROVE  Chain(u) \subseteq Chain(t)
<1>1. u \in Token
  BY DEF Chain
<1> QED
  BY <1>1, ChainContains, ChainLeast

LEMMA ChainStep ==
  ASSUME NEW t \in Token
  PROVE  /\ HasParent(t) => /\ inner[t].up \in Chain(t)
                            /\ Chain(t) \subseteq {t} \cup Chain(inner[t].up)
         /\ ~HasParent(t) => Chain(t) \subseteq {t}
<1>1. ASSUME HasParent(t) PROVE inner[t].up \in Chain(t)
  BY <1>1, ChainContains DEF Upward
<1>2. ASSUME HasParent(t) PROVE Chain(t) \subseteq {t} \cup Chain(inner[t].up)
  <2> DEFINE p == inner[t].up
             S == {t} \cup Chain(p)
  <2>1. p \in Token
    BY <1>2 DEF HasParent
  <2>2. p \in Chain(p) /\ Chain(p) \in SUBSET Token /\ Upward(Chain(p))
    BY <2>1, ChainContains
  <2>3. S \in SUBSET Token /\ t \in S /\ Upward(S)
    BY <2>2 DEF Upward
  <2> HIDE DEF S
  <2>4. Chain(t) \subseteq S
    BY <2>3, ChainLeast
  <2> QED
    BY <2>4 DEF S
<1>3. ASSUME ~HasParent(t) PROVE Chain(t) \subseteq {t}
  <2>1. Upward({t})
    BY <1>3 DEF Upward
  <2> QED
    BY <2>1, ChainLeast
<1> QED
  BY <1>1, <1>2, <1>3

-----------------------------------------------------------------------------
(* The walk of is_cancelled. *)

\* What a running check will still find: a flag that was set when it began, and
\* was not lowered, is ahead of it; a flag that is set above its token counts.
Sees(c) ==
  /\ check[c].tok \in Token /\ Created(check[c].tok)
  /\ check[c].at \in Chain(check[c].tok) /\ check[c].ret = "none"
  /\ c \in due => Cancelled(check[c].at)
  /\ Cancelled(check[c].tok) => c \in could

\* The inductive invariant.  A parent exists before its child.
CancelInv ==
  /\ inner \in [Token -> [kind : {"none", "owned", "metadata", "dummy"},
                          up : Token \cup MetaSlot \cup {NoToken}]]
  /\ flag \in [Token \cup MetaSlot -> BOOLEAN]
  /\ check \in [Checker -> [tok : Token \cup {NoToken}, at : Token \cup {NoToken},
                            ret : {"none", "ok", "cancelled"}]]
  /\ due \subseteq Checker /\ could \subseteq Checker
  /\ \A t \in Token : HasParent(t) => Created(inner[t].up)
  /\ \A t \in Token : inner[t].kind = "metadata" => inner[t].up \in MetaSlot
  /\ \A c \in Checker : check[c].at # NoToken => Sees(c)
  /\ CheckSeesCancel

LEMMA CancelInitInv == CancelInit => CancelInv
  BY DEF CancelInit, CancelInv, CheckSeesCancel, HasParent

LEMMA ChainCreated ==
  ASSUME CancelInv, NEW t \in Token, Created(t)
  PROVE  \A u \in Chain(t) : u \in Token /\ Created(u)
<1> DEFINE S == {u \in Token : Created(u)}
<1>1. S \in SUBSET Token /\ t \in S /\ Upward(S)
  BY DEF CancelInv, Upward, HasParent
<1> HIDE DEF S
<1>2. Chain(t) \subseteq S
  BY <1>1, ChainLeast
<1> QED
  BY <1>2 DEF S

LEMMA CellType ==
  ASSUME CancelInv, NEW t \in Token
  PROVE  Cell(t) \in Token \cup MetaSlot
BY DEF CancelInv, Cell

\* The flags above a token: its own and the ones above its parent.
LEMMA CancelledStep ==
  ASSUME CancelInv, NEW t \in Token, Cancelled(t),
         ~(inner[t].kind # "dummy" /\ flag[Cell(t)])
  PROVE  HasParent(t) /\ Cancelled(inner[t].up)
<1>1. PICK u \in Chain(t) : inner[u].kind # "dummy" /\ flag[Cell(u)]
  BY DEF Cancelled, Cells
<1>2. u # t
  BY <1>1
<1>3. HasParent(t) /\ u \in Chain(inner[t].up)
  BY <1>1, <1>2, ChainStep
<1> QED
  BY <1>1, <1>3 DEF Cancelled, Cells

\* Creating a token changes nothing above one that exists.
LEMMA MakeKeeps ==
  ASSUME CancelInv, NEW t \in Token, ~Created(t),
         NEW kind \in {"owned", "metadata", "dummy"},
         NEW up \in Token \cup MetaSlot \cup {NoToken},
         kind = "metadata" => up \in MetaSlot,
         kind = "owned" /\ up \in Token => Created(up),
         Make(t, kind, up)
  PROVE  CancelInv'
<1>1. /\ inner' = [inner EXCEPT ![t] = [kind |-> kind, up |-> up]]
      /\ UNCHANGED <<flag, check, due, could>>
  BY DEF Make
<1>2. /\ inner' \in [Token -> [kind : {"none", "owned", "metadata", "dummy"},
                               up : Token \cup MetaSlot \cup {NoToken}]]
      /\ \A u \in Token : u # t => inner'[u] = inner[u]
      /\ inner'[t] = [kind |-> kind, up |-> up]
  BY <1>1 DEF CancelInv
<1>3. \A u \in Token : u # t => (HasParent(u)' <=> HasParent(u)) /\ (Created(u)' <=> Created(u))
  BY <1>2 DEF HasParent, Created
<1>4. Created(t)'
  BY <1>2 DEF Created
<1>5. \A u \in Token : HasParent(u)' => Created(inner[u].up)'
  <2> SUFFICES ASSUME NEW u \in Token, HasParent(u)' PROVE Created(inner[u].up)'
    OBVIOUS
  <2>1. CASE u = t
    <3>1. inner'[u].up = up /\ up \in Token /\ kind = "owned"
      BY <1>2, <2>1 DEF HasParent
    <3> QED
      BY <1>3, <1>4, <3>1
  <2>2. CASE u # t
    <3>1. inner'[u].up = inner[u].up /\ HasParent(u) /\ inner[u].up \in Token
      BY <1>2, <1>3, <2>2 DEF HasParent
    <3> QED
      BY <1>3, <1>4, <3>1 DEF CancelInv
  <2> QED
    BY <2>1, <2>2
<1>6. ASSUME NEW u \in Token, Created(u)
      PROVE  Chain(u)' = Chain(u) /\ Cells(u)' = Cells(u)
  <2>1. \A v \in Chain(u) : v \in Token /\ v # t
    BY <1>6, ChainCreated
  <2>2. Chain(u)' \subseteq Chain(u)
    <3>1. Upward(Chain(u)) /\ u \in Chain(u) /\ Chain(u) \in SUBSET Token
      BY ChainContains
    <3>2. \A v \in Chain(u) : HasParent(v)' => inner'[v].up \in Chain(u)
      BY <1>2, <1>3, <2>1, <3>1 DEF Upward
    <3> QED
      BY <3>1, <3>2, ZenonT(60) DEF Chain, Upward
  <2>3. Chain(u) \subseteq Chain(u)'
    <3> SUFFICES ASSUME NEW v \in Chain(u), NEW S \in SUBSET Token, u \in S,
                        \A x \in S : HasParent(x)' => inner'[x].up \in S
                 PROVE  v \in S
      BY DEF Chain, Upward
    <3> DEFINE W == S \cap Chain(u)
    <3>1. Upward(Chain(u)) /\ u \in Chain(u) /\ Chain(u) \in SUBSET Token
      BY ChainContains
    <3>2. W \in SUBSET Token /\ u \in W /\ Upward(W)
      BY <1>2, <1>3, <2>1, <3>1 DEF Upward
    <3> HIDE DEF W
    <3>3. Chain(u) \subseteq W
      BY <3>2, ChainLeast
    <3> QED
      BY <3>3 DEF W
  <2>4. Chain(u)' = Chain(u)
    BY <2>2, <2>3
  <2>5. \A v \in Chain(u) : Cell(v)' = Cell(v) /\ inner'[v].kind = inner[v].kind
    BY <1>2, <2>1 DEF Cell
  <2> QED
    BY <2>4, <2>5 DEF Cells
<1>7. ASSUME NEW c \in Checker, check[c].at # NoToken PROVE Sees(c)'
  <2>1. Sees(c) /\ check[c].tok \in Token /\ Created(check[c].tok)
    BY <1>7 DEF CancelInv, Sees
  <2>2. check[c].at \in Token /\ Created(check[c].at)
    BY <2>1, ChainCreated DEF Sees
  <2>3. /\ Chain(check[c].tok)' = Chain(check[c].tok)
        /\ Cells(check[c].tok)' = Cells(check[c].tok)
        /\ Cells(check[c].at)' = Cells(check[c].at)
    BY <1>1, <1>6, <2>1, <2>2
  <2>4. Created(check[c].tok)'
    BY <1>1, <1>3, <1>4, <2>1
  <2> QED
    BY <1>1, <2>1, <2>3, <2>4 DEF Sees, Cancelled
<1>8. \A u \in Token : inner'[u].kind = "metadata" => inner'[u].up \in MetaSlot
  BY <1>2 DEF CancelInv
<1> QED
  BY <1>1, <1>2, <1>5, <1>7, <1>8 DEF CancelInv, CheckSeesCancel

\* A flag is set or lowered: who runs below it is told.
LEMMA FlagKeeps ==
  ASSUME CancelInv, NEW x \in Token \cup MetaSlot, NEW b \in BOOLEAN,
         flag' = [flag EXCEPT ![x] = b], UNCHANGED <<inner, check>>,
         could' = (IF b THEN could \cup Running(x) ELSE could),
         due' = (IF b THEN due ELSE due \ Running(x))
  PROVE  CancelInv'
<1>1. /\ flag' \in [Token \cup MetaSlot -> BOOLEAN] /\ flag'[x] = b
      /\ \A y \in Token \cup MetaSlot : y # x => flag'[y] = flag[y]
  BY DEF CancelInv
<1>2. /\ due' \subseteq due /\ could \subseteq could'
      /\ due' \subseteq Checker /\ could' \subseteq Checker
  BY DEF CancelInv, Running
<1>3. /\ \A t : Created(t)' <=> Created(t)
      /\ \A t : HasParent(t)' <=> HasParent(t)
      /\ \A t : Cell(t)' = Cell(t)
  BY DEF Created, HasParent, Cell
<1>4. \A t : Chain(t)' = Chain(t) /\ Cells(t)' = Cells(t)
  BY <1>3 DEF Chain, Upward, Cells, HasParent, Cell
<1>5. ASSUME NEW c \in Checker, check[c].at # NoToken PROVE Sees(c)'
  <2> DEFINE k == check[c]
  <2>1. /\ k.tok \in Token /\ k.at \in Chain(k.tok) /\ Chain(k.tok) \in SUBSET Token
        /\ Created(k.tok) /\ k.ret = "none"
        /\ c \in due => Cancelled(k.at)
        /\ Cancelled(k.tok) => c \in could
    BY <1>5, ChainContains DEF CancelInv, Sees
  <2>2. Cells(k.at) \subseteq Cells(k.tok)
    BY <2>1, ChainSub DEF Cells
  <2>3. Cells(k.tok) \subseteq Token \cup MetaSlot
    BY <2>1, CellType DEF Cells
  <2>4. c \in Running(x) <=> x \in Cells(k.tok)
    BY <1>5 DEF Running
  <2>5. c \in due' => \E y \in Cells(k.at) : flag'[y]
    <3> SUFFICES ASSUME c \in due' PROVE \E y \in Cells(k.at) : flag'[y]
      OBVIOUS
    <3>1. PICK y \in Cells(k.at) : flag[y]
      BY <1>2, <2>1 DEF Cancelled
    <3>2. y \in Token \cup MetaSlot /\ y \in Cells(k.tok)
      BY <2>2, <2>3
    <3>3. b \/ y # x
      BY <2>4, <3>2
    <3> QED
      BY <1>1, <3>1, <3>2, <3>3
  <2>6. (\E y \in Cells(k.tok) : flag'[y]) => c \in could'
    <3> SUFFICES ASSUME NEW y \in Cells(k.tok), flag'[y] PROVE c \in could'
      OBVIOUS
    <3>1. CASE flag[y]
      BY <1>2, <2>1, <3>1 DEF Cancelled
    <3>2. CASE ~flag[y]
      BY <1>1, <2>3, <2>4, <3>2
    <3> QED
      BY <3>1, <3>2
  <2> QED
    BY <1>3, <1>4, <2>1, <2>5, <2>6 DEF Sees, Cancelled
<1>6. CheckSeesCancel'
  BY <1>2 DEF CancelInv, CheckSeesCancel
<1>7. /\ \A t \in Token : HasParent(t)' => Created(inner[t].up)'
      /\ \A t \in Token : inner'[t].kind = "metadata" => inner'[t].up \in MetaSlot
  BY <1>3 DEF CancelInv
<1> QED
  BY <1>1, <1>2, <1>5, <1>6, <1>7 DEF CancelInv

\* As long as tokens and flags are left alone, what a check has to see is a
\* matter of where the check is.
LEMMA TreeKept ==
  ASSUME UNCHANGED <<inner, flag>>, NEW c, NEW k, check'[c] = k
  PROVE  /\ Created(check[c].tok)' <=> Created(k.tok)
         /\ Chain(check[c].tok)' = Chain(k.tok)
         /\ Cancelled(check[c].tok)' <=> Cancelled(k.tok)
         /\ Cancelled(check[c].at)' <=> Cancelled(k.at)
<1>1. Created(check[c].tok)' <=> Created(k.tok)
  BY DEF Created
<1>2. Chain(check[c].tok)' = Chain(k.tok) /\ Chain(check[c].at)' = Chain(k.at)
  BY DEF Chain, Upward, HasParent
<1>3. Cells(check[c].tok)' = Cells(k.tok) /\ Cells(check[c].at)' = Cells(k.at)
  BY <1>2 DEF Cells, Cell
<1> QED
  BY <1>1, <1>2, <1>3 DEF Cancelled

\* A check takes one step: past a flag that is down, or to its result.
LEMMA CheckKeeps ==
  ASSUME CancelInv, NEW c \in Checker, CheckStep(c)
  PROVE  CancelInv'
<1> DEFINE k == check[c]
           t == k.at
<1>0. /\ t # NoToken /\ UNCHANGED <<inner, flag, due, could>>
      /\ k \in [tok : Token \cup {NoToken}, at : Token \cup {NoToken},
                ret : {"none", "ok", "cancelled"}]
      /\ Sees(c) /\ t \in Token
  BY DEF CheckStep, CancelInv
<1>1. ASSUME NEW j \in [tok : Token \cup {NoToken}, at : Token \cup {NoToken},
                        ret : {"none", "ok", "cancelled"}],
             check' = [check EXCEPT ![c] = j],
             j.at # NoToken => Sees(c)',
             j.ret = "ok" => c \notin due,
             j.ret = "cancelled" => c \in could
      PROVE  CancelInv'
  <2>1. /\ check' \in [Checker -> [tok : Token \cup {NoToken}, at : Token \cup {NoToken},
                                   ret : {"none", "ok", "cancelled"}]]
        /\ \A d \in Checker : d # c => check'[d] = check[d]
        /\ check'[c] = j
    BY <1>1 DEF CancelInv
  <2>2. ASSUME NEW d \in Checker, check'[d].at # NoToken PROVE Sees(d)'
    <3>1. CASE d = c
      BY <1>1, <2>1, <2>2, <3>1
    <3>2. CASE d # c
      <4>1. Sees(d)
        BY <2>1, <2>2, <3>2 DEF CancelInv
      <4> QED
        BY <1>0, <2>1, <3>2, <4>1, TreeKept DEF Sees
    <3> QED
      BY <3>1, <3>2
  <2>3. CheckSeesCancel'
    BY <1>0, <1>1, <2>1 DEF CancelInv, CheckSeesCancel
  <2> QED
    BY <1>0, <2>1, <2>2, <2>3 DEF CancelInv, HasParent, Created
<1>2. CASE /\ inner[t].kind # "dummy" /\ flag[Cell(t)]
           /\ check' = [check EXCEPT ![c].at = NoToken, ![c].ret = "cancelled"]
  <2> DEFINE j == [k EXCEPT !.at = NoToken, !.ret = "cancelled"]
  <2>1. /\ j \in [tok : Token \cup {NoToken}, at : Token \cup {NoToken},
                  ret : {"none", "ok", "cancelled"}]
        /\ j.at = NoToken /\ j.ret = "cancelled"
    BY <1>0, ZenonT(60)
  <2>2. check' = [check EXCEPT ![c] = j]
    BY <1>2, <1>0, ZenonT(60)
  <2>3. Cancelled(k.tok)
    BY <1>0, <1>2 DEF Cancelled, Cells, Sees
  <2>4. c \in could
    BY <1>0, <2>3 DEF Sees
  <2> HIDE DEF j
  <2> QED
    BY <1>1, <2>1, <2>2, <2>4, ZenonT(60)
<1>3. CASE /\ ~(inner[t].kind # "dummy" /\ flag[Cell(t)])
           /\ HasParent(t) /\ check' = [check EXCEPT ![c].at = inner[t].up]
  <2> DEFINE j == [k EXCEPT !.at = inner[t].up]
  <2>1. /\ j \in [tok : Token \cup {NoToken}, at : Token \cup {NoToken},
                  ret : {"none", "ok", "cancelled"}]
        /\ j.at = inner[t].up /\ j.ret = k.ret /\ j.tok = k.tok
    BY <1>0, <1>3 DEF HasParent
  <2>2. check' = [check EXCEPT ![c] = j] /\ check'[c] = j
    BY <1>3, <1>0 DEF CancelInv
  <2> HIDE DEF j
  <2>3. inner[t].up \in Chain(k.tok) /\ k.tok \in Token
    BY <1>0, <1>3, ChainContains DEF Sees, Upward
  <2>4. c \in due => Cancelled(inner[t].up)
    BY <1>0, <1>3, CancelledStep DEF Sees
  <2>5. Sees(c)'
    BY <1>0, <2>1, <2>2, <2>3, <2>4, TreeKept DEF Sees
  <2>6. k.ret = "none"
    BY <1>0 DEF Sees
  <2> QED
    BY <1>1, <2>1, <2>2, <2>5, <2>6, ZenonT(60)
<1>4. CASE /\ ~(inner[t].kind # "dummy" /\ flag[Cell(t)]) /\ ~HasParent(t)
           /\ check' = [check EXCEPT ![c].at = NoToken, ![c].ret = "ok"]
  <2> DEFINE j == [k EXCEPT !.at = NoToken, !.ret = "ok"]
  <2>1. /\ j \in [tok : Token \cup {NoToken}, at : Token \cup {NoToken},
                  ret : {"none", "ok", "cancelled"}]
        /\ j.at = NoToken /\ j.ret = "ok"
    BY <1>0, ZenonT(60)
  <2>2. check' = [check EXCEPT ![c] = j]
    BY <1>4, <1>0, ZenonT(60)
  <2>3. c \notin due
    BY <1>0, <1>4, CancelledStep DEF Sees
  <2> HIDE DEF j
  <2> QED
    BY <1>1, <2>1, <2>2, <2>3, ZenonT(60)
<1> QED
  BY <1>2, <1>3, <1>4 DEF CheckStep

LEMMA StartKeeps ==
  ASSUME CancelInv, NEW c \in Checker, NEW t \in Token, StartCheck(c, t)
  PROVE  CancelInv'
<1>1. /\ check' = [check EXCEPT ![c] = [tok |-> t, at |-> t, ret |-> "none"]]
      /\ UNCHANGED <<inner, flag>> /\ Created(t) /\ check[c].at = NoToken
      /\ due' = IF Cancelled(t) THEN due \cup {c} ELSE due \ {c}
      /\ could' = IF Cancelled(t) THEN could \cup {c} ELSE could \ {c}
  BY DEF StartCheck
<1>2. /\ check' \in [Checker -> [tok : Token \cup {NoToken}, at : Token \cup {NoToken},
                                 ret : {"none", "ok", "cancelled"}]]
      /\ \A d \in Checker : d # c => check'[d] = check[d]
      /\ check'[c] = [tok |-> t, at |-> t, ret |-> "none"]
  BY <1>1 DEF CancelInv
<1>3. /\ due' \subseteq Checker /\ could' \subseteq Checker
      /\ \A d \in Checker : d # c => (d \in due' <=> d \in due) /\ (d \in could' <=> d \in could)
      /\ c \in due' <=> Cancelled(t)
      /\ c \in could' <=> Cancelled(t)
  BY <1>1 DEF CancelInv
<1>4. ASSUME NEW d \in Checker, check'[d].at # NoToken PROVE Sees(d)'
  <2>1. CASE d = c
    BY <1>1, <1>2, <1>3, <2>1, ChainContains, TreeKept DEF Sees
  <2>2. CASE d # c
    <3>1. Sees(d)
      BY <1>2, <1>4, <2>2 DEF CancelInv
    <3> QED
      BY <1>1, <1>2, <1>3, <2>2, <3>1, TreeKept DEF Sees
  <2> QED
    BY <2>1, <2>2
<1>5. CheckSeesCancel'
  BY <1>2, <1>3 DEF CancelInv, CheckSeesCancel
<1> QED
  BY <1>1, <1>2, <1>3, <1>4, <1>5 DEF CancelInv, HasParent, Created

LEMMA CancelStepInv == CancelInv /\ [CancelNext]_cancelVars => CancelInv'
<1> SUFFICES ASSUME CancelInv, [CancelNext]_cancelVars PROVE CancelInv'
  OBVIOUS
<1>1. ASSUME NEW t \in Token, New(t) \/ FromMetadata(t) \/ Dummy(t) \/ Child(t)
      PROVE  CancelInv'
  <2>1. PICK kind \in {"owned", "metadata", "dummy"},
             up \in Token \cup MetaSlot \cup {NoToken} :
          /\ kind = "metadata" => up \in MetaSlot
          /\ kind = "owned" /\ up \in Token => Created(up)
          /\ Make(t, kind, up)
    BY <1>1, CancelAssumption DEF New, FromMetadata, Dummy, Child
  <2>2. ~Created(t)
    BY <2>1 DEF Make
  <2> QED
    BY <2>1, <2>2, MakeKeeps
<1>2. ASSUME NEW t \in Token, Cancel(t) PROVE CancelInv'
  <2>1. Cell(t) \in Token \cup MetaSlot
    BY CellType
  <2> QED
    BY <1>2, <2>1, FlagKeeps, ZenonT(60) DEF Cancel
<1>3. ASSUME NEW x \in Token \cup MetaSlot, Lower(x) PROVE CancelInv'
  BY <1>3, FlagKeeps, ZenonT(60) DEF Lower
<1>4. ASSUME NEW t \in Token, Reset(t) PROVE CancelInv'
  BY <1>3, <1>4, CellType DEF Reset
<1>5. ASSUME NEW s \in MetaSlot, Reuse(s) PROVE CancelInv'
  BY <1>3, <1>5 DEF Reuse
<1>6. CASE UNCHANGED cancelVars
  <2>1. ASSUME NEW d \in Checker PROVE Sees(d)' <=> Sees(d)
    BY <1>6, TreeKept DEF cancelVars, Sees
  <2> QED
    BY <1>6, <2>1 DEF cancelVars, CancelInv, CheckSeesCancel, HasParent, Created
<1> QED
  BY <1>1, <1>2, <1>4, <1>5, <1>6, CheckKeeps, StartKeeps DEF CancelNext

\* is_cancelled, while other threads cancel, reset and reuse the slot between
\* its loads: it returns true for a cancellation of the token or of an ancestor
\* that was there when it began and was not taken back, and returns true only
\* when some flag above the token was set while it ran.
THEOREM CheckSeesCancelHolds == CancelSpec => []CheckSeesCancel
<1>1. CancelInv => CheckSeesCancel
  BY DEF CancelInv
<1> QED
  BY <1>1, CancelInitInv, CancelStepInv, PTL DEF CancelSpec

--------------------------------------------------------------------------------
(* Bitmap *)

BitId == 0 .. MaxId - 1

\* The inductive invariant: an id is ready at one priority at most, and not
\* while somebody holds it, and nobody else does.
ClaimInv ==
  /\ bits \in [Prio -> SUBSET BitId]
  /\ claimed \in [Scanner -> {<<>>} \cup (Prio \X BitId)]
  /\ at \in [Scanner -> [prio : Prio, start : Nat, i : Nat]]
  /\ cur \in [Scanner -> SUBSET BitId]
  /\ scan_pc \in [Scanner -> {"idle", "quick", "load", "cas", "none"}]
  /\ \A w \in Scanner : scan_pc[w] = "cas" => cur[w] # {}
  /\ \A p, q \in Prio : p # q => bits[p] \cap bits[q] = {}
  /\ ClaimedOnce

LEMMA MinOfNats ==
  ASSUME NEW S \in SUBSET Nat, S # {}
  PROVE  Min(S) \in S
<1>1. PICK x \in S : \A y \in S : ~(<<y, x>> \in OpToRel(<, Nat))
  BY NatLessThanWellFounded, WFMin, ZenonT(60)
<1>2. \A y \in S : x <= y
  <2> SUFFICES ASSUME NEW y \in S, ~(x <= y) PROVE FALSE
    OBVIOUS
  <2>1. y < x /\ y \in Nat /\ x \in Nat
    OBVIOUS
  <2>2. <<y, x>> \in Nat \X Nat
    BY <2>1
  <2>3. <<y, x>>[1] < <<y, x>>[2]
    BY <2>1
  <2>4. <<y, x>> \in OpToRel(<, Nat)
    BY <2>2, <2>3, ZenonT(60) DEF OpToRel
  <2> QED
    BY <1>1, <2>4, ZenonT(60)
<1> QED
  BY <1>2, ZenonT(60) DEF Min

\* The id a worker is about to claim is one of the bitmap's.
LEMMA ClaimedId ==
  ASSUME ClaimInv, NEW w \in Scanner, scan_pc[w] = "cas"
  PROVE  Min(cur[w]) \in cur[w] /\ Min(cur[w]) \in BitId
<1>1. cur[w] \in SUBSET BitId /\ cur[w] # {}
  BY DEF ClaimInv
<1>2. BitId \subseteq Nat
  BY DEF BitId
<1>3. cur[w] \in SUBSET Nat
  BY <1>1, <1>2, ZenonT(60)
<1> QED
  BY <1>1, <1>3, MinOfNats

LEMMA ClaimInit == BitmapInit => ClaimInv
  BY BitmapAssumption DEF BitmapInit, NoScan, ClaimInv, ClaimedOnce, Prio, BitId

LEMMA ClaimStep == ClaimInv /\ [BitmapNext]_bitmapVars => ClaimInv'
<1> SUFFICES ASSUME ClaimInv, [BitmapNext]_bitmapVars PROVE ClaimInv'
  OBVIOUS
<1> USE BitmapAssumption
<1>1. ASSUME NEW p \in Prio, NEW g \in 0 .. MaxId, SetReady(p, g) PROVE ClaimInv'
  <2>1. CASE ~(g < MaxId)
    BY <1>1, <2>1 DEF SetReady, ClaimInv, ClaimedOnce
  <2>2. CASE g < MaxId
    <3>1. bits' = [bits EXCEPT ![p] = @ \cup {g}] /\ g \in BitId
      BY <1>1, <2>2 DEF SetReady, BitId
    <3>2. ASSUME NEW w \in Scanner, claimed[w] # <<>> PROVE claimed[w][2] # g
      <4>1. PICK q \in Prio, h \in BitId : claimed[w] = <<q, h>>
        BY <3>2 DEF ClaimInv
      <4>2. claimed[w] # <<q, g>>
        BY <1>1 DEF SetReady
      <4> QED
        BY <4>1, <4>2
    <3>3. UNCHANGED <<scan_pc, at, cur, claimed>> /\ \A q \in Prio : g \notin bits[q]
      BY <1>1 DEF SetReady
    <3> QED
      BY <3>1, <3>2, <3>3 DEF ClaimInv, ClaimedOnce, BitId
  <2> QED
    BY <2>1, <2>2
<1>2. ASSUME NEW p \in Prio, NEW g \in 0 .. MaxId, ClearReady(p, g) PROVE ClaimInv'
  <2>1. UNCHANGED <<scan_pc, at, cur, claimed>> /\ bits' = [bits EXCEPT ![p] = @ \ {g}]
    BY <1>2 DEF ClearReady
  <2> QED
    BY <2>1 DEF ClaimInv, ClaimedOnce
<1>3. ASSUME NEW w \in Scanner, Find(w) PROVE ClaimInv'
  BY <1>3 DEF Find, ClaimInv, ClaimedOnce, Prio, NumBlocks
<1>4. ASSUME NEW w \in Scanner, Load(w) PROVE ClaimInv'
  <2>1. /\ UNCHANGED <<bits, claimed>>
        /\ bits \in [Prio -> SUBSET BitId] /\ at[w].prio \in Prio
        /\ at[w] \in [prio : Prio, start : Nat, i : Nat]
        /\ scan_pc[w] \in {"quick", "load"}
    BY <1>4 DEF Load, ClaimInv
  <2>2. Word(at[w].prio, Block(w)) \in SUBSET BitId
    BY <2>1 DEF Word
  <2>3. CASE NextBlock(w) /\ UNCHANGED cur
    <3>1. ASSUME NEW a \in [prio : Prio, start : Nat, i : Nat],
                 NEW s \in {"quick", "none"},
                 at' = [at EXCEPT ![w] = a], scan_pc' = [scan_pc EXCEPT ![w] = s]
          PROVE  ClaimInv'
      BY <2>1, <2>3, <3>1 DEF ClaimInv, ClaimedOnce
    <3>2. CASE /\ at' = [at EXCEPT ![w].i = @ + 1]
               /\ scan_pc' = [scan_pc EXCEPT ![w] = "quick"]
      <4> DEFINE b == [at[w] EXCEPT !.i = @ + 1]
      <4>1. b \in [prio : Prio, start : Nat, i : Nat]
        BY <2>1
      <4>2. at' = [at EXCEPT ![w] = b]
        BY <3>2, ZenonT(60)
      <4> HIDE DEF b
      <4> QED
        BY <3>1, <3>2, <4>1, <4>2, ZenonT(60)
    <3>3. CASE /\ at[w].prio < Levels
               /\ at' = [at EXCEPT ![w].i = 0, ![w].prio = @ + 1]
               /\ scan_pc' = [scan_pc EXCEPT ![w] = "quick"]
      <4>1. at[w].prio + 1 \in Prio
        BY <2>1, <3>3 DEF Prio
      <4> QED
        BY <2>1, <3>1, <3>3, <4>1, ZenonT(60)
    <3>4. CASE scan_pc' = [scan_pc EXCEPT ![w] = "none"] /\ UNCHANGED at
      BY <2>1, <2>3, <3>4 DEF ClaimInv, ClaimedOnce
    <3> QED
      BY <2>3, <3>2, <3>3, <3>4 DEF NextBlock
  <2>4. CASE /\ Word(at[w].prio, Block(w)) # {} /\ UNCHANGED at
             /\ scan_pc' = [scan_pc EXCEPT ![w] = IF @ = "quick" THEN "load" ELSE "cas"]
             /\ cur' = [cur EXCEPT ![w] = IF scan_pc[w] = "load"
                                          THEN Word(at[w].prio, Block(w)) ELSE @]
    <3> DEFINE ready_word == Word(at[w].prio, Block(w))
    <3>1. ready_word \in SUBSET BitId /\ ready_word # {}
      BY <2>2, <2>4
    <3> HIDE DEF ready_word
    <3>2. CASE scan_pc[w] = "quick"
      <4>1. scan_pc' = [scan_pc EXCEPT ![w] = "load"] /\ cur' = cur
        BY <2>4, <3>2 DEF ClaimInv
      <4> QED
        BY <2>1, <2>4, <4>1 DEF ClaimInv, ClaimedOnce
    <3>3. CASE scan_pc[w] = "load"
      <4>1. scan_pc' = [scan_pc EXCEPT ![w] = "cas"] /\ cur' = [cur EXCEPT ![w] = ready_word]
        BY <2>4, <3>3 DEF ready_word
      <4>2. at' = at
        BY <2>4
      <4> QED
        BY <2>1, <3>1, <4>1, <4>2 DEF ClaimInv, ClaimedOnce
    <3> QED
      BY <2>1, <3>2, <3>3
  <2> QED
    BY <1>4, <2>3, <2>4 DEF Load
<1>5. ASSUME NEW w \in Scanner, Cas(w) PROVE ClaimInv'
  <2>1. Min(cur[w]) \in cur[w]
    BY <1>5, ClaimedId DEF Cas
  <2>2. CASE /\ Word(at[w].prio, Block(w)) = cur[w]
             /\ bits' = [bits EXCEPT ![at[w].prio] = @ \ {Min(cur[w])}]
             /\ ClaimBit(w, Min(cur[w]))
    <3> DEFINE g == Min(cur[w])
               p == at[w].prio
    <3>1. g \in bits[p] /\ g \in BitId /\ p \in Prio
      BY <2>1, <2>2 DEF Word, ClaimInv
    <3>2. /\ bits' = [bits EXCEPT ![p] = @ \ {g}]
          /\ claimed' = [claimed EXCEPT ![w] = <<p, g>>]
          /\ scan_pc' = [scan_pc EXCEPT ![w] = "idle"]
          /\ cur' = [cur EXCEPT ![w] = {}]
          /\ UNCHANGED at
      BY <1>5, <2>2 DEF Cas, ClaimBit
    <3>3. \A v \in Scanner \ {w} : claimed[v] # <<>> => claimed[v][2] # g
      BY <3>1 DEF ClaimInv, ClaimedOnce
    <3> QED
      BY <3>1, <3>2, <3>3 DEF ClaimInv, ClaimedOnce, BitId
  <2>3. CASE scan_pc' = [scan_pc EXCEPT ![w] = "load"] /\ UNCHANGED <<bits, claimed>>
    BY <1>5, <2>3 DEF Cas, ClaimInv, ClaimedOnce
  <2> QED
    BY <1>5, <2>2, <2>3 DEF Cas
<1>6. ASSUME NEW w \in Scanner, Again(w) PROVE ClaimInv'
  <2>1. NoScan \in [prio : Prio, start : Nat, i : Nat]
    BY DEF NoScan, Prio
  <2> QED
    BY <1>6, <2>1 DEF Again, ClaimInv, ClaimedOnce
<1>7. CASE UNCHANGED bitmapVars
  BY <1>7 DEF bitmapVars, ClaimInv, ClaimedOnce
<1> QED
  BY <1>1, <1>2, <1>3, <1>4, <1>5, <1>6, <1>7 DEF BitmapNext

-----------------------------------------------------------------------------
(* Nothing is passed over. *)

LEMMA BlockOfId ==
  ASSUME NEW g \in BitId
  PROVE  g \div BlockSize \in 0 .. NumBlocks - 1
<1> DEFINE q == g \div BlockSize
<1>0. /\ BlockSize \in Nat \ {0} /\ MaxId \in Nat \ {0}
      /\ g \in Nat /\ g < MaxId
  BY BitmapAssumption DEF BitId
<1>1. q \in Nat /\ BlockSize * q <= g
  BY <1>0, SMT
<1>2. NumBlocks \in Nat /\ MaxId + BlockSize - 1 < BlockSize * NumBlocks + BlockSize
  BY <1>0, SMT DEF NumBlocks
<1> HIDE DEF q
<1>3. BlockSize * q < BlockSize * NumBlocks
  BY <1>0, <1>1, <1>2, SMT
<1>4. q < NumBlocks
  <2> SUFFICES ASSUME q >= NumBlocks PROVE FALSE
    BY <1>1, <1>2
  <2>1. BlockSize * q >= BlockSize * NumBlocks
    BY <1>0, <1>1, <1>2, SMT
  <2> QED
    BY <2>1, <1>0, <1>1, <1>2, <1>3
<1> QED
  BY <1>1, <1>2, <1>4 DEF q

\* From any start block the offsets below N reach every block.
LEMMA BlocksCovered ==
  ASSUME NEW N \in Nat, NEW s \in 0 .. N - 1, NEW b \in 0 .. N - 1
  PROVE  \E k \in 0 .. N - 1 : b = (s + k) % N
<1>1. CASE b >= s
  <2>1. b - s \in 0 .. N - 1 /\ (s + (b - s)) % N = b
    BY <1>1, SMT
  <2> QED
    BY <2>1
<1>2. CASE b < s
  <2>1. b - s + N \in 0 .. N - 1 /\ (s + (b - s + N)) % N = b
    BY <1>2, SMT
  <2> QED
    BY <2>1
<1> QED
  BY <1>1, <1>2

\* x lies ahead of the place a of a scan: at a later priority, or at this one
\* in none of the blocks the scan has left.
Ahead(x, a) ==
  \/ x[1] > a.prio
  \/ /\ x[1] = a.prio
     /\ \A k \in 0 .. a.i - 1 : x[2] \div BlockSize # (a.start + k) % NumBlocks

Skips(w, x) == w \in LowScanner /\ x[1] < Levels

\* What has been ready throughout is ready, and ahead of a running scan.
ScanInv ==
  /\ standing \in [Scanner -> SUBSET (Prio \X BitId)]
  /\ \A w \in Scanner : \A x \in standing[w] : x[2] \in bits[x[1]]
  /\ \A w \in Scanner : scan_pc[w] \in {"quick", "load", "cas"} =>
       /\ at[w].start \in 0 .. NumBlocks - 1 /\ at[w].i \in 0 .. NumBlocks - 1
       /\ \A x \in standing[w] : Skips(w, x) \/ Ahead(x, at[w])
  /\ NothingMissed

LEMMA ScanInit == BitmapInit => ScanInv
  BY DEF BitmapInit, ScanInv, NothingMissed, Returned

\* A scan whose block is empty moves on without leaving anything behind.
LEMMA NextBlockKeeps ==
  ASSUME ClaimInv, ScanInv, NEW w \in Scanner, Load(w),
         Word(at[w].prio, Block(w)) = {}, NextBlock(w), UNCHANGED cur
  PROVE  ScanInv'
<1> DEFINE a == at[w]
<1>0. /\ UNCHANGED <<bits, claimed, standing>> /\ scan_pc[w] \in {"quick", "load"}
      /\ a \in [prio : Prio, start : Nat, i : Nat]
      /\ a.start \in 0 .. NumBlocks - 1 /\ a.i \in 0 .. NumBlocks - 1
      /\ Block(w) = (a.start + a.i) % NumBlocks
      /\ \A x \in standing[w] : Skips(w, x) \/ Ahead(x, a)
      /\ standing[w] \in SUBSET (Prio \X BitId)
      /\ at \in [Scanner -> [prio : Prio, start : Nat, i : Nat]]
      /\ scan_pc \in [Scanner -> {"idle", "quick", "load", "cas", "none"}]
  BY DEF Load, ClaimInv, ScanInv, Block
<1>N. NumBlocks \in Nat /\ Prio = 1 .. Levels /\ Levels \in Nat
  BY BitmapAssumption DEF NumBlocks, Prio
<1> HIDE DEF a
<1>1. ASSUME NEW x \in standing[w], x[1] = a.prio
      PROVE  x[2] \div BlockSize # (a.start + a.i) % NumBlocks
  BY <1>0, <1>1 DEF Word, ScanInv, a
<1>2. ASSUME NEW b \in [prio : Prio, start : Nat, i : Nat],
             at' = [at EXCEPT ![w] = b], scan_pc' = [scan_pc EXCEPT ![w] = "quick"],
             b.start \in 0 .. NumBlocks - 1, b.i \in 0 .. NumBlocks - 1,
             \A x \in standing[w] : Skips(w, x) \/ Ahead(x, b)
      PROVE  ScanInv'
  <2>1. \A v \in Scanner : v # w => at'[v] = at[v] /\ scan_pc'[v] = scan_pc[v]
    BY <1>0, <1>2
  <2>2. at'[w] = b /\ scan_pc'[w] = "quick"
    BY <1>0, <1>2
  <2>3. NothingMissed'
    BY <1>0, <2>1, <2>2, ZenonT(60) DEF NothingMissed, Returned, ScanInv
  <2>4. \A v \in Scanner : scan_pc'[v] \in {"quick", "load", "cas"} =>
          /\ at'[v].start \in 0 .. NumBlocks - 1 /\ at'[v].i \in 0 .. NumBlocks - 1
          /\ \A x \in standing[v] : Skips(v, x) \/ Ahead(x, at'[v])
    BY <1>0, <1>2, <2>1, <2>2, ZenonT(60) DEF ScanInv
  <2> QED
    BY <1>0, <2>3, <2>4, ZenonT(60) DEF ScanInv, Skips, Ahead
<1>3. CASE /\ a.i + 1 < NumBlocks
           /\ at' = [at EXCEPT ![w].i = @ + 1]
           /\ scan_pc' = [scan_pc EXCEPT ![w] = "quick"]
  <2> DEFINE b == [a EXCEPT !.i = @ + 1]
  <2>1. /\ b \in [prio : Prio, start : Nat, i : Nat]
        /\ b.prio = a.prio /\ b.start = a.start /\ b.i = a.i + 1
    BY <1>0
  <2>2. at' = [at EXCEPT ![w] = b]
    BY <1>3, ZenonT(60) DEF a
  <2> HIDE DEF b
  <2>3. ASSUME NEW x \in standing[w], Ahead(x, a) PROVE Ahead(x, b)
    <3>1. CASE x[1] > a.prio
      BY <3>1, <2>1 DEF Ahead
    <3>2. CASE /\ x[1] = a.prio
               /\ \A k \in 0 .. a.i - 1 : x[2] \div BlockSize # (a.start + k) % NumBlocks
      <4>1. \A k \in 0 .. b.i - 1 : k \in 0 .. a.i - 1 \/ k = a.i
        BY <1>0, <1>N, <2>1
      <4> QED
        BY <1>1, <2>1, <3>2, <4>1 DEF Ahead
    <3> QED
      BY <2>3, <3>1, <3>2 DEF Ahead
  <2>4. b.start \in 0 .. NumBlocks - 1 /\ b.i \in 0 .. NumBlocks - 1
    BY <1>0, <1>3, <1>N, <2>1
  <2>5. \A x \in standing[w] : Skips(w, x) \/ Ahead(x, b)
    BY <1>0, <2>3, ZenonT(60)
  <2> QED
    BY <1>2, <1>3, <2>1, <2>2, <2>4, <2>5, ZenonT(60)
<1>4. ASSUME a.i + 1 = NumBlocks, NEW x \in standing[w], ~Skips(w, x)
      PROVE  x[1] > a.prio
  <2> SUFFICES ASSUME ~(x[1] > a.prio) PROVE FALSE
    OBVIOUS
  <2>1. /\ x[1] = a.prio /\ x[2] \in BitId
        /\ \A k \in 0 .. a.i - 1 : x[2] \div BlockSize # (a.start + k) % NumBlocks
    BY <1>0, <1>4 DEF Ahead
  <2>2. PICK k \in 0 .. NumBlocks - 1 : x[2] \div BlockSize = (a.start + k) % NumBlocks
    BY <1>0, <1>N, <2>1, BlockOfId, BlocksCovered, ZenonT(60)
  <2>3. k \in 0 .. a.i - 1 \/ k = a.i
    BY <1>0, <1>4, <1>N
  <2> QED
    BY <1>1, <2>1, <2>2, <2>3
<1>P. a.prio \in 1 .. Levels /\ a.prio \in Nat /\ a.i \in Nat
  <2>1. a \in [prio : Prio, start : Nat, i : Nat]
    BY <1>0
  <2> QED
    BY <1>N, <2>1
<1>5. CASE /\ a.i + 1 = NumBlocks /\ a.prio < Levels
           /\ at' = [at EXCEPT ![w].i = 0, ![w].prio = @ + 1]
           /\ scan_pc' = [scan_pc EXCEPT ![w] = "quick"]
  <2> DEFINE b == [a EXCEPT !.i = 0, !.prio = @ + 1]
  <2>1. /\ b \in [prio : Prio, start : Nat, i : Nat]
        /\ b.prio = a.prio + 1 /\ b.start = a.start /\ b.i = 0
    <3>1. a.prio + 1 \in Prio
      <4>1. a.prio < Levels
        BY <1>5
      <4> QED
        BY <1>N, <1>P, <4>1
    <3> QED
      BY <1>0, <3>1, ZenonT(60)
  <2>2. at' = [at EXCEPT ![w] = b]
    BY <1>0, <1>5, ZenonT(60) DEF a
  <2> HIDE DEF b
  <2>3. ASSUME NEW x \in standing[w], ~Skips(w, x) PROVE Ahead(x, b)
    <3>1. x[1] > a.prio /\ x[1] \in Nat /\ a.prio \in Nat
      <4>1. x[1] > a.prio
        BY <1>4, <1>5, <2>3
      <4>2. x \in (1 .. Levels) \X BitId
        BY <1>0, <1>N
      <4> QED
        BY <1>N, <1>P, <4>1, <4>2
    <3> QED
      BY <3>1, <2>1 DEF Ahead
  <2>4. b.start \in 0 .. NumBlocks - 1 /\ b.i \in 0 .. NumBlocks - 1
    BY <1>0, <1>N, <2>1
  <2>5. \A x \in standing[w] : Skips(w, x) \/ Ahead(x, b)
    BY <2>3, ZenonT(60)
  <2> QED
    BY <1>2, <1>5, <2>1, <2>2, <2>4, <2>5, ZenonT(60)
<1>6. CASE /\ a.i + 1 = NumBlocks /\ a.prio = Levels
           /\ scan_pc' = [scan_pc EXCEPT ![w] = "none"] /\ UNCHANGED at
  <2>1. \A x \in standing[w] : Skips(w, x)
    <3> SUFFICES ASSUME NEW x \in standing[w], ~Skips(w, x) PROVE FALSE
      OBVIOUS
    <3>1. x[1] > a.prio /\ x[1] \in 1 .. Levels
      BY <1>0, <1>4, <1>6, <1>N
    <3> QED
      BY <1>6, <1>N, <3>1
  <2>2. NothingMissed'
    BY <1>0, <1>6, <2>1 DEF NothingMissed, Returned, Skips, ScanInv
  <2> QED
    BY <1>0, <1>6, <2>2 DEF ScanInv, Skips, Ahead
<1> QED
  BY <1>3, <1>5, <1>6 DEF NextBlock, a

LEMMA ScanStep == ClaimInv /\ ClaimInv' /\ ScanInv /\ [BitmapNext]_bitmapVars => ScanInv'
<1> SUFFICES ASSUME ClaimInv, ClaimInv', ScanInv, [BitmapNext]_bitmapVars PROVE ScanInv'
  OBVIOUS
<1> USE BitmapAssumption
\* Steps that only take bits away, or add some, leave the places of scans alone.
<1>0. ASSUME NEW p \in Prio, NEW g \in BitId,
             bits' = [bits EXCEPT ![p] = @ \ {g}], standing' = Standing(p, g)
      PROVE  /\ standing' \in [Scanner -> SUBSET (Prio \X BitId)]
             /\ \A w \in Scanner : standing'[w] \subseteq standing[w]
             /\ \A w \in Scanner : \A x \in standing'[w] : x[2] \in bits'[x[1]]
  BY <1>0 DEF Standing, ScanInv, ClaimInv
<1>1. ASSUME NEW p \in Prio, NEW g \in 0 .. MaxId, SetReady(p, g) PROVE ScanInv'
  <2>1. /\ UNCHANGED <<scan_pc, at, cur, claimed, standing>>
        /\ \A q \in Prio : bits[q] \subseteq bits'[q]
    BY <1>1 DEF SetReady, ClaimInv
  <2>2. \A w \in Scanner : \A x \in standing[w] : x[2] \in bits'[x[1]]
    BY <2>1 DEF ScanInv
  <2> QED
    BY <2>1, <2>2, ZenonT(60) DEF ScanInv, NothingMissed, Returned, Skips, Ahead
<1>2. ASSUME NEW p \in Prio, NEW g \in 0 .. MaxId, ClearReady(p, g) PROVE ScanInv'
  <2>1. /\ UNCHANGED <<scan_pc, at, cur, claimed>> /\ g \in BitId
        /\ bits' = [bits EXCEPT ![p] = @ \ {g}] /\ standing' = Standing(p, g)
    BY <1>2 DEF ClearReady, ClaimInv
  <2>2. /\ standing' \in [Scanner -> SUBSET (Prio \X BitId)]
        /\ \A w \in Scanner : standing'[w] \subseteq standing[w]
        /\ \A w \in Scanner : \A x \in standing'[w] : x[2] \in bits'[x[1]]
    BY <1>0, <2>1, ZenonT(60)
  <2>3. NothingMissed'
    BY <2>1, <2>2 DEF ScanInv, NothingMissed, Returned
  <2> QED
    BY <2>1, <2>2, <2>3 DEF ScanInv, Skips, Ahead
<1>3. ASSUME NEW w \in Scanner, Find(w) PROVE ScanInv'
  <2>1. PICK s \in 0 .. NumBlocks - 1 :
          at' = [at EXCEPT ![w] = [prio |-> IF w \in LowScanner THEN Levels ELSE 1,
                                   start |-> s, i |-> 0]]
    BY <1>3, ZenonT(60) DEF Find
  <2>2. /\ UNCHANGED <<bits, cur, claimed>> /\ scan_pc' = [scan_pc EXCEPT ![w] = "quick"]
        /\ standing' = [standing EXCEPT ![w] = {x \in Prio \X BitId : x[2] \in bits[x[1]]}]
    BY <1>3 DEF Find, BitId
  <2>3. NumBlocks \in Nat
    BY DEF NumBlocks
  <2>4. /\ \A v \in Scanner : v # w =>
              at'[v] = at[v] /\ scan_pc'[v] = scan_pc[v] /\ standing'[v] = standing[v]
        /\ at'[w] = [prio |-> IF w \in LowScanner THEN Levels ELSE 1, start |-> s, i |-> 0]
        /\ scan_pc'[w] = "quick"
        /\ standing'[w] = {x \in Prio \X BitId : x[2] \in bits[x[1]]}
    BY <2>1, <2>2 DEF ClaimInv, ScanInv
  <2>5. at'[w].start \in 0 .. NumBlocks - 1 /\ at'[w].i \in 0 .. NumBlocks - 1
    BY <2>3, <2>4
  <2>6. \A x \in standing'[w] : Skips(w, x) \/ Ahead(x, at'[w])
    BY <2>4 DEF Skips, Ahead, Prio
  <2>7. /\ standing' \in [Scanner -> SUBSET (Prio \X BitId)]
        /\ \A v \in Scanner : \A x \in standing'[v] : x[2] \in bits'[x[1]]
    BY <2>2 DEF ScanInv
  <2>8. NothingMissed'
    BY <2>2, <2>4 DEF ScanInv, NothingMissed, Returned
  <2>9. \A v \in Scanner : scan_pc'[v] \in {"quick", "load", "cas"} =>
          /\ at'[v].start \in 0 .. NumBlocks - 1 /\ at'[v].i \in 0 .. NumBlocks - 1
          /\ \A x \in standing'[v] : Skips(v, x) \/ Ahead(x, at'[v])
    BY <2>4, <2>5, <2>6, ZenonT(60) DEF ScanInv
  <2> QED
    BY <2>7, <2>8, <2>9, ZenonT(60) DEF ScanInv, Skips, Ahead
<1>4. ASSUME NEW w \in Scanner, Load(w) PROVE ScanInv'
  <2>1. CASE Word(at[w].prio, Block(w)) = {} /\ NextBlock(w) /\ UNCHANGED cur
    BY <1>4, <2>1, NextBlockKeeps
  <2>2. CASE /\ UNCHANGED at
             /\ scan_pc' = [scan_pc EXCEPT ![w] = IF @ = "quick" THEN "load" ELSE "cas"]
    <3>1. /\ UNCHANGED <<bits, claimed, standing>> /\ scan_pc[w] \in {"quick", "load"}
          /\ scan_pc'[w] \in {"load", "cas"}
          /\ \A v \in Scanner : v # w => scan_pc'[v] = scan_pc[v]
      BY <1>4, <2>2 DEF Load, ClaimInv
    <3>2. NothingMissed'
      BY <3>1 DEF ScanInv, NothingMissed, Returned
    <3> QED
      BY <2>2, <3>1, <3>2 DEF ScanInv, Skips, Ahead
  <2> QED
    BY <1>4, <2>1, <2>2 DEF Load
<1>5. ASSUME NEW w \in Scanner, Cas(w) PROVE ScanInv'
  <2>0. UNCHANGED at /\ scan_pc[w] = "cas" /\ at[w].prio \in Prio
    BY <1>5 DEF Cas, ClaimInv
  <2>1. CASE /\ Word(at[w].prio, Block(w)) = cur[w]
             /\ bits' = [bits EXCEPT ![at[w].prio] = @ \ {Min(cur[w])}]
             /\ ClaimBit(w, Min(cur[w]))
    <3> DEFINE g == Min(cur[w])
               p == at[w].prio
    <3>1. g \in BitId
      BY <1>5, <2>1, ClaimedId DEF Cas
    <3>2. /\ bits' = [bits EXCEPT ![p] = @ \ {g}] /\ standing' = Standing(p, g)
          /\ claimed' = [claimed EXCEPT ![w] = <<p, g>>]
          /\ scan_pc' = [scan_pc EXCEPT ![w] = "idle"]
      BY <2>1 DEF ClaimBit
    <3> HIDE DEF g
    <3>3. /\ \A v \in Scanner : v # w => claimed'[v] = claimed[v] /\ scan_pc'[v] = scan_pc[v]
          /\ scan_pc'[w] = "idle" /\ claimed'[w] = <<p, g>>
      BY <3>2 DEF ClaimInv
    <3>4. /\ standing' \in [Scanner -> SUBSET (Prio \X BitId)]
          /\ \A v \in Scanner : standing'[v] \subseteq standing[v]
          /\ \A v \in Scanner : \A x \in standing'[v] : x[2] \in bits'[x[1]]
      BY <1>0, <2>0, <3>1, <3>2, ZenonT(60)
    <3>5. \A x \in standing'[w] : Skips(w, x) \/ x[1] >= p
      <4> SUFFICES ASSUME NEW x \in standing'[w] PROVE Skips(w, x) \/ x[1] >= p
        OBVIOUS
      <4>1. x \in standing[w] /\ (Skips(w, x) \/ Ahead(x, at[w])) /\ x \in Prio \X BitId
        BY <2>0, <3>4 DEF ScanInv
      <4> QED
        BY <2>0, <4>1 DEF Ahead, Prio
    <3>6. NothingMissed'
      <4> SUFFICES ASSUME NEW v \in Scanner, Returned(v)', NEW x \in standing'[v]
                   PROVE  \/ v \in LowScanner /\ x[1] < Levels
                          \/ scan_pc'[v] = "idle" /\ x[1] >= claimed'[v][1]
        BY DEF NothingMissed
      <4>1. CASE v = w
        BY <4>1, <3>3, <3>5 DEF Skips
      <4>2. CASE v # w
        BY <4>2, <3>3, <3>4 DEF ScanInv, NothingMissed, Returned
      <4> QED
        BY <4>1, <4>2
    <3>7. \A v \in Scanner : scan_pc'[v] \in {"quick", "load", "cas"} =>
            /\ at[v].start \in 0 .. NumBlocks - 1 /\ at[v].i \in 0 .. NumBlocks - 1
            /\ \A x \in standing'[v] : Skips(v, x) \/ Ahead(x, at[v])
      BY <3>3, <3>4 DEF ScanInv
    <3> QED
      BY <2>0, <3>4, <3>6, <3>7, ZenonT(60) DEF ScanInv, Skips, Ahead
  <2>2. CASE scan_pc' = [scan_pc EXCEPT ![w] = "load"] /\ UNCHANGED <<bits, claimed, standing>>
    <3>1. /\ \A v \in Scanner : v # w => scan_pc'[v] = scan_pc[v]
          /\ scan_pc'[w] = "load"
      BY <2>2 DEF ClaimInv
    <3>2. NothingMissed'
      BY <2>2, <3>1, ZenonT(60) DEF ScanInv, NothingMissed, Returned
    <3> QED
      BY <2>0, <2>2, <3>1, <3>2 DEF ScanInv, Skips, Ahead
  <2> QED
    BY <1>5, <2>1, <2>2 DEF Cas
<1>6. ASSUME NEW w \in Scanner, Again(w) PROVE ScanInv'
  <2>1. /\ \A v \in Scanner : v # w => scan_pc'[v] = scan_pc[v] /\ claimed'[v] = claimed[v]
        /\ scan_pc'[w] = "idle" /\ claimed'[w] = <<>>
        /\ UNCHANGED <<bits, cur>>
    BY <1>6 DEF Again, ClaimInv
  <2>2. /\ \A v \in Scanner : v # w => at'[v] = at[v] /\ standing'[v] = standing[v]
        /\ standing'[w] = {} /\ standing' \in [Scanner -> SUBSET (Prio \X BitId)]
    BY <1>6 DEF Again, ClaimInv, ScanInv
  <2>3. NothingMissed'
    BY <2>1, <2>2 DEF ScanInv, NothingMissed, Returned
  <2>4. \A v \in Scanner : scan_pc'[v] \in {"quick", "load", "cas"} =>
          /\ at'[v].start \in 0 .. NumBlocks - 1 /\ at'[v].i \in 0 .. NumBlocks - 1
          /\ \A x \in standing'[v] : Skips(v, x) \/ Ahead(x, at'[v])
    BY <2>1, <2>2, ZenonT(60) DEF ScanInv
  <2>5. \A v \in Scanner : \A x \in standing'[v] : x[2] \in bits'[x[1]]
    BY <2>1, <2>2, ZenonT(60) DEF ScanInv
  <2> QED
    BY <2>2, <2>3, <2>4, <2>5, ZenonT(60) DEF ScanInv, Skips, Ahead
<1>7. CASE UNCHANGED bitmapVars
  BY <1>7 DEF bitmapVars, ScanInv, NothingMissed, Returned, Skips, Ahead
<1> QED
  BY <1>1, <1>2, <1>3, <1>4, <1>5, <1>6, <1>7 DEF BitmapNext

\* find_and_claim, set_ready and clear_ready: an id that a worker has claimed is
\* not ready and is held by no other worker, and a scan passes over no id that
\* was ready throughout at a level it searches before, from whatever block it
\* starts and however sets, clears and claims of others interleave with it.
THEOREM ScanExactHolds == BitmapSpec => []ScanExact
<1>1. ClaimInv /\ ScanInv => ScanExact
  BY DEF ClaimInv, ScanInv, ScanExact
<1> QED
  BY <1>1, ClaimInit, ClaimStep, ScanInit, ScanStep, PTL DEF BitmapSpec

================================================================================
