---------------------------------- MODULE Kmod ----------------------------------
(***************************************************************************)
(* The kernel module (kmod/): one open file of /dev/ksvc, the ioctl that    *)
(* creates its two rings and its shared page, mmap, and the release of the  *)
(* file.  Any step of the ioctl may fail; what the earlier steps acquired   *)
(* is given back and the caller may try again.                              *)
(*                                                                          *)
(* Threads in Caller share the file.  `created` is tested at the start of a *)
(* CREATE and set at its end, so two that overlap both go on to allocate    *)
(* (overlap remembers it).  An allocation is one step: two that meet inside *)
(* ksvc_ring_alloc would also mix their arrays of pages.                    *)
(***************************************************************************)
EXTENDS Naturals, FiniteSets

CONSTANTS Caller,    \* threads that use the file
          Page,      \* page frames
          RingPages  \* ring_pages_needed: pages of a ring

ASSUME KmodAssumption == IsFiniteSet(Caller)

Region == {"submit", "complete", "shared"}

VARIABLES
  file,     \* the file: open, closed (mappings may remain) or released
  created,  \* ksvc_instance.created
  pages,    \* pages[r]: ring->pages, shared_page; empty is NULL
  eventfd,  \* eventfd_ctx is set
  refs,     \* refs[p]: references to a page frame, 0 is free
  evrefs,   \* references to the eventfd context
  filled,   \* pages whose header or contents are initialised
  maps,     \* maps[c]: the mappings a thread has made
  kmod_pc,  \* where a thread is in the ioctl
  overlap   \* two CREATEs were past the test at the same time

kmodVars == <<file, created, pages, eventfd, refs, evrefs, filled, maps, kmod_pc,
              overlap>>

KmodInit ==
  /\ file = "open" /\ created = FALSE
  /\ pages = [r \in Region |-> {}] /\ eventfd = FALSE
  /\ refs = [p \in Page |-> 0] /\ evrefs = 0 /\ filled = {}
  /\ maps = [c \in Caller |-> {}] /\ kmod_pc = [c \in Caller |-> "idle"]
  /\ overlap = FALSE

KmodGoto(c, label) == kmod_pc' = [kmod_pc EXCEPT ![c] = label]

\* alloc_page: some free frames, zeroed.
KmodAlloc(r, n) ==
  \E S \in SUBSET {p \in Page : refs[p] = 0} :
    /\ Cardinality(S) = n
    /\ pages' = [pages EXCEPT ![r] = S]
    /\ refs' = [p \in Page |-> IF p \in S THEN 1 ELSE refs[p]]
    /\ filled' = filled \cup S

\* ksvc_ring_free and ksvc_shared_free of the regions in R; nothing happens to
\* one whose pointer is NULL.  The pointers in D were set to NULL by the
\* allocation that failed, whatever they were.
Free(R, D) ==
  LET S == UNION {pages[r] : r \in R}
  IN /\ refs' = [p \in Page |-> IF p \in S THEN refs[p] - 1 ELSE refs[p]]
     /\ pages' = [r \in Region |-> IF r \in R \cup D THEN {} ELSE pages[r]]
     /\ filled' = filled \ {p \in S : refs[p] = 1}

----------------------------------------------------------------------------
(* ksvc_ioctl_create.                                                       *)

\* The test of `created`; a bad argument or ring size changes nothing.
StartCreate(c) ==
  /\ file = "open" /\ kmod_pc[c] = "idle" /\ ~created
  /\ KmodGoto(c, "submit")
  /\ overlap' = (overlap \/ \E d \in Caller : kmod_pc[d] # "idle")
  /\ UNCHANGED <<file, created, pages, eventfd, refs, evrefs, filled, maps>>

\* ksvc_ring_alloc; when it fails it frees its pages itself.
AllocSubmit(c) ==
  /\ kmod_pc[c] = "submit"
  /\ \/ KmodAlloc("submit", RingPages) /\ KmodGoto(c, "complete")
     \/ Free({}, {"submit"}) /\ KmodGoto(c, "idle")
  /\ UNCHANGED <<file, created, eventfd, evrefs, maps, overlap>>

AllocComplete(c) ==
  /\ kmod_pc[c] = "complete"
  /\ \/ KmodAlloc("complete", RingPages) /\ KmodGoto(c, "shared")
     \/ Free({"submit"}, {"complete"}) /\ KmodGoto(c, "idle")
  /\ UNCHANGED <<file, created, eventfd, evrefs, maps, overlap>>

\* ksvc_shared_alloc and ksvc_shared_populate.
AllocShared(c) ==
  /\ kmod_pc[c] = "shared"
  /\ \/ KmodAlloc("shared", 1) /\ KmodGoto(c, "eventfd")
     \/ Free({"submit", "complete"}, {"shared"}) /\ KmodGoto(c, "idle")
  /\ UNCHANGED <<file, created, eventfd, evrefs, maps, overlap>>

\* The eventfd is optional.
GetEventfd(c) ==
  /\ kmod_pc[c] = "eventfd"
  /\ \/ KmodGoto(c, "copy") /\ UNCHANGED <<pages, refs, filled, eventfd, evrefs>>
     \/ /\ KmodGoto(c, "copy") /\ eventfd' = TRUE /\ evrefs' = evrefs + 1
        /\ UNCHANGED <<pages, refs, filled>>
     \/ /\ Free(Region, {}) /\ KmodGoto(c, "idle")
        /\ eventfd' = FALSE /\ UNCHANGED evrefs
  /\ UNCHANGED <<file, created, maps, overlap>>

\* Mutant: the failing copy jumps to err_free_shared.
CopyOutKeepsEventfd(c) ==
  /\ kmod_pc[c] = "copy"
  /\ \/ created' = TRUE /\ UNCHANGED <<pages, refs, filled>>
     \/ Free(Region, {}) /\ UNCHANGED created
  /\ KmodGoto(c, "idle")
  /\ UNCHANGED <<file, eventfd, evrefs, maps, overlap>>

\* copy_to_user, the last step that can fail.
CopyOut(c) ==
  /\ kmod_pc[c] = "copy"
  /\ \/ /\ created' = TRUE
        /\ UNCHANGED <<pages, refs, filled, eventfd, evrefs>>
     \/ /\ Free(Region, {})
        /\ eventfd' = FALSE
        /\ evrefs' = IF eventfd THEN evrefs - 1 ELSE evrefs
        /\ UNCHANGED created
  /\ KmodGoto(c, "idle")
  /\ UNCHANGED <<file, maps, overlap>>

----------------------------------------------------------------------------
(* ksvc_mmap and the end of the file.                                       *)

\* ksvc_ring_mmap, ksvc_shared_mmap: every page is inserted, and referenced, or
\* none stays.  A ring without pages has no size that fits; ksvc_shared_mmap does
\* not look, and what it does without a page is left out.
Insert(r) ==
  refs' = [p \in Page |-> IF p \in pages[r] THEN refs[p] + 1 ELSE refs[p]]

Mmap(c, r) ==
  /\ file = "open" /\ kmod_pc[c] = "idle" /\ created
  /\ pages[r] # {} /\ r \notin {m.region : m \in maps[c]}
  /\ maps' = [maps EXCEPT ![c] = @ \cup {[region |-> r, pages |-> pages[r]]}]
  /\ Insert(r)
  /\ UNCHANGED <<file, created, pages, eventfd, evrefs, filled, kmod_pc, overlap>>

Munmap(c, m) ==
  /\ m \in maps[c]
  /\ maps' = [maps EXCEPT ![c] = @ \ {m}]
  /\ refs' = [p \in Page |-> IF p \in m.pages THEN refs[p] - 1 ELSE refs[p]]
  /\ filled' = filled \ {p \in m.pages : refs[p] = 1}
  /\ UNCHANGED <<file, created, pages, eventfd, evrefs, kmod_pc, overlap>>

Close ==
  /\ file = "open" /\ \A c \in Caller : kmod_pc[c] = "idle"
  /\ file' = "closed"
  /\ UNCHANGED <<created, pages, eventfd, refs, evrefs, filled, maps, kmod_pc, overlap>>

\* ksvc_instance_destroy.
Destroy ==
  /\ evrefs' = IF eventfd THEN evrefs - 1 ELSE evrefs
  /\ Free(Region, {})

\* ksvc_release: a mapping keeps the file, so it runs after the last munmap.
KmodRelease ==
  /\ file = "closed" /\ \A c \in Caller : maps[c] = {}
  /\ file' = "released"
  /\ Destroy
  /\ UNCHANGED <<created, eventfd, maps, kmod_pc, overlap>>

KmodFinished == file = "released" /\ UNCHANGED kmodVars

Create(c) ==
  \/ StartCreate(c) \/ AllocSubmit(c) \/ AllocComplete(c) \/ AllocShared(c)
  \/ GetEventfd(c) \/ CopyOut(c)

KmodStep ==
  \/ \E c \in Caller : Create(c)
  \/ \E c \in Caller, r \in Region : Mmap(c, r)
  \/ \E c \in Caller : \E m \in maps[c] : Munmap(c, m)
  \/ Close \/ KmodRelease

KmodNext == KmodStep \/ KmodFinished

KmodSpec == KmodInit /\ [][KmodNext]_kmodVars

----------------------------------------------------------------------------
\* No page and no eventfd reference is leaked, whichever step of a CREATE
\* failed and however often it was tried: outside the ioctl an instance that
\* is not created holds nothing, and nothing is left after the release.  It
\* rests on the comment of ksvc_ioctl_create, "Only one CREATE per instance"
\* (ksvc_main.c:69).
NothingLeaked ==
  /\ \A c \in Caller : kmod_pc[c] = "idle"
  /\ ~created \/ file = "released"
  => evrefs = 0 /\ \A p \in Page : refs[p] = 0

\* A mapped page is a page of the region, allocated and initialised, for as
\* long as it is mapped.
MappedLive ==
  \A c \in Caller : \A m \in maps[c] :
    /\ Cardinality(m.pages) = (IF m.region = "shared" THEN 1 ELSE RingPages)
    /\ \A p \in m.pages : refs[p] > 0 /\ p \in filled

\* Pages and eventfd references are held exactly as long as they are needed,
\* if no two CREATEs of the instance overlapped.
PagesHeld == ~overlap => NothingLeaked /\ MappedLive

================================================================================
