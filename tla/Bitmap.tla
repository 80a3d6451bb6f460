-------------------------------- MODULE Bitmap --------------------------------
(***************************************************************************)
(* The ready bitmaps (bitmap.rs): one bitmap for each priority, in words   *)
(* of BlockSize bits that are changed by atomic instructions, searched by  *)
(* several workers at once.  One step is one atomic instruction.           *)
(*                                                                         *)
(* A word is the set of the ids whose bits are set in it.  The start block *)
(* comes from a pseudo-random generator per worker and may be any.         *)
(***************************************************************************)
EXTENDS Naturals, FiniteSets, FiniteSetsExt

CONSTANTS Scanner,
          LowScanner,  \* workers that claim with low_priority_only
          MaxId,       \* max_gvthreads
          BlockSize,   \* BITS_PER_BLOCK
          Levels       \* Priority::COUNT

ASSUME BitmapAssumption ==
  MaxId \in Nat \ {0} /\ BlockSize \in Nat \ {0} /\ Levels \in Nat \ {0}

Prio == 1 .. Levels
NumBlocks == (MaxId + BlockSize - 1) \div BlockSize

VARIABLES bits,     \* bits[p]: the ids ready at priority p
          scan_pc,
          at,       \* at[w]: priority, start block and offset of the scan
          cur,      \* cur[w]: the word try_claim_from_block has loaded
          claimed,  \* claimed[w]: the <<priority, id>> find_and_claim returned
          standing  \* standing[w]: bits set since w's scan began

bitmapVars == <<bits, scan_pc, at, cur, claimed, standing>>

\* Where a scan that is not running stands.
NoScan == [prio |-> 1, start |-> 0, i |-> 0]

BitmapInit ==
  /\ bits = [p \in Prio |-> {}]
  /\ scan_pc = [w \in Scanner |-> "idle"]
  /\ at = [w \in Scanner |-> NoScan]
  /\ cur = [w \in Scanner |-> {}]
  /\ claimed = [w \in Scanner |-> <<>>]
  /\ standing = [w \in Scanner |-> {}]

Word(p, b) == {g \in bits[p] : g \div BlockSize = b}

Block(w) == (at[w].start + at[w].i) % NumBlocks

Standing(p, g) == [w \in Scanner |-> standing[w] \ {<<p, g>>}]

\* set_ready: an id beyond the bitmap is ignored.  The scheduler makes an id
\* ready only while nobody holds it and it is not ready already.
SetReady(p, g) ==
  /\ \A q \in Prio : g \notin bits[q]
  /\ \A w \in Scanner, q \in Prio : claimed[w] # <<q, g>>
  /\ bits' = IF g < MaxId THEN [bits EXCEPT ![p] = @ \cup {g}] ELSE bits
  /\ UNCHANGED <<scan_pc, at, cur, claimed, standing>>

ClearReady(p, g) ==
  /\ g \in bits[p]
  /\ bits' = [bits EXCEPT ![p] = @ \ {g}]
  /\ standing' = Standing(p, g)
  /\ UNCHANGED <<scan_pc, at, cur, claimed>>

-----------------------------------------------------------------------------
(* find_and_claim *)

Find(w) ==
  /\ scan_pc[w] = "idle" /\ claimed[w] = <<>> /\ scan_pc' = [scan_pc EXCEPT ![w] = "quick"]
  /\ \E s \in 0 .. NumBlocks - 1 :
       at' = [at EXCEPT ![w] = [prio |-> IF w \in LowScanner THEN Levels ELSE 1,
                                start |-> s, i |-> 0]]
  /\ standing' = [standing EXCEPT ![w] = {x \in Prio \X (0 .. MaxId - 1) :
                                            x[2] \in bits[x[1]]}]
  /\ UNCHANGED <<bits, cur, claimed>>

\* Nothing in this block: the next block, the next priority, or None.
NextBlock(w) ==
  \/ /\ at[w].i + 1 < NumBlocks
     /\ at' = [at EXCEPT ![w].i = @ + 1] /\ scan_pc' = [scan_pc EXCEPT ![w] = "quick"]
  \/ /\ at[w].i + 1 = NumBlocks /\ at[w].prio < Levels
     /\ at' = [at EXCEPT ![w].i = 0, ![w].prio = @ + 1]
     /\ scan_pc' = [scan_pc EXCEPT ![w] = "quick"]
  \/ /\ at[w].i + 1 = NumBlocks /\ at[w].prio = Levels
     /\ scan_pc' = [scan_pc EXCEPT ![w] = "none"] /\ UNCHANGED at

\* The quick check of the block, and the load of try_claim_from_block.
Load(w) ==
  LET word == Word(at[w].prio, Block(w)) IN
  /\ scan_pc[w] \in {"quick", "load"}
  /\ \/ word = {} /\ NextBlock(w) /\ UNCHANGED cur
     \/ /\ word # {} /\ UNCHANGED at
        /\ scan_pc' = [scan_pc EXCEPT ![w] = IF @ = "quick" THEN "load" ELSE "cas"]
        /\ cur' = [cur EXCEPT ![w] = IF scan_pc[w] = "load" THEN word ELSE @]
  /\ UNCHANGED <<bits, claimed, standing>>

ClaimBit(w, g) ==
  /\ claimed' = [claimed EXCEPT ![w] = <<at[w].prio, g>>]
  /\ standing' = Standing(at[w].prio, g)
  /\ scan_pc' = [scan_pc EXCEPT ![w] = "idle"]

\* Mutant: the word is stored, not compared and exchanged.
CasStores(w) ==
  LET p == at[w].prio
      g == Min(cur[w]) IN
  /\ scan_pc[w] = "cas"
  /\ bits' = [bits EXCEPT ![p] = (@ \ Word(p, Block(w))) \cup (cur[w] \ {g})]
  /\ ClaimBit(w, g)
  /\ cur' = [cur EXCEPT ![w] = {}]
  /\ UNCHANGED at

\* The lowest bit is cleared if the word has not changed; a weak exchange may
\* also fail without reason.
Cas(w) ==
  LET p == at[w].prio
      g == Min(cur[w]) IN
  /\ scan_pc[w] = "cas"
  /\ \/ /\ Word(p, Block(w)) = cur[w]
        /\ bits' = [bits EXCEPT ![p] = @ \ {g}]
        /\ ClaimBit(w, g)
     \/ /\ scan_pc' = [scan_pc EXCEPT ![w] = "load"]
        /\ UNCHANGED <<bits, claimed, standing>>
  /\ cur' = [cur EXCEPT ![w] = {}]
  /\ UNCHANGED at

\* find_and_claim has returned None, or an id.
Returned(w) == \/ scan_pc[w] = "none"
               \/ scan_pc[w] = "idle" /\ claimed[w] # <<>>

\* The caller has seen None, or is done with the GVThread: nothing of the scan
\* is left.
Again(w) ==
  /\ Returned(w)
  /\ scan_pc' = [scan_pc EXCEPT ![w] = "idle"]
  /\ claimed' = [claimed EXCEPT ![w] = <<>>]
  /\ at' = [at EXCEPT ![w] = NoScan]
  /\ standing' = [standing EXCEPT ![w] = {}]
  /\ UNCHANGED <<bits, cur>>

BitmapNext ==
  \/ \E p \in Prio, g \in 0 .. MaxId : SetReady(p, g) \/ ClearReady(p, g)
  \/ \E w \in Scanner : Find(w) \/ Load(w) \/ Cas(w) \/ Again(w)

BitmapSpec == BitmapInit /\ [][BitmapNext]_bitmapVars

-----------------------------------------------------------------------------
(* properties *)

\* An id is claimed by one worker, and is no longer ready once it is: the
\* compare-and-exchange of one worker, with sets, clears and claims of others
\* between its load and its exchange, duplicates and resurrects nothing.
ClaimedOnce ==
  \A w \in Scanner : claimed[w] # <<>> =>
    /\ claimed[w][2] \in 0 .. MaxId - 1
    /\ \A p \in Prio : claimed[w][2] \notin bits[p]
    /\ \A v \in Scanner \ {w} : claimed[v] # <<>> => claimed[v][2] # claimed[w][2]

\* A scan that returns None, or an id of some priority, has not passed over an
\* id that was ready at a level it searches before, throughout the scan and
\* whatever block it started from.
NothingMissed ==
  \A w \in Scanner : Returned(w) =>
    \A x \in standing[w] :
      \/ w \in LowScanner /\ x[1] < Levels
      \/ scan_pc[w] = "idle" /\ x[1] >= claimed[w][1]

\* find_and_claim is exact: it duplicates no id, and passes over none that was
\* ready throughout.
ScanExact == ClaimedOnce /\ NothingMissed

===============================================================================
