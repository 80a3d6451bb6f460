---------------------------- MODULE HandlesProofs ----------------------------
(****************************************************************************)
(* Proofs about what counts its handles: the channel delivers what was      *)
(* pushed and closes with its last sender, the kernel module frees no page  *)
(* that is mapped and leaks none.  For any number of handles and callers.   *)
(****************************************************************************)
EXTENDS Channel, Kmod, FiniteSetTheorems, TLAPS

\* The default provers, with more time than they have by default.
USE SMTT(100), ZenonT(60)

--------------------------------------------------------------------------------
(* Kmod *)

\* The threads that map a page, and the regions that hold it.
Mapping(p) == {c \in Caller : \E m \in maps[c] : p \in m.pages}
InRegion(p) == \E r \in Region : p \in pages[r]

\* The reference a region holds.
Own(p) == IF InRegion(p) THEN 1 ELSE 0

Size(r) == IF r = "shared" THEN 1 ELSE RingPages

\* The regions that are allocated when the ioctl is at a label.
Allocated(label) ==
  CASE label = "submit" -> {}
    [] label = "complete" -> {"submit"}
    [] label = "shared" -> {"submit", "complete"}
    [] OTHER -> Region

KmodLabel == {"idle", "submit", "complete", "shared", "eventfd", "copy"}

AllIdle == \A c \in Caller : kmod_pc[c] = "idle"

\* Exactly the regions in R are allocated, in their size.
Holds(R) == \A r \in Region : IF r \in R THEN Cardinality(pages[r]) = Size(r)
                              ELSE pages[r] = {}

KmodTypes ==
  /\ file \in {"open", "closed", "released"}
  /\ created \in BOOLEAN /\ eventfd \in BOOLEAN /\ overlap \in BOOLEAN
  /\ pages \in [Region -> SUBSET Page]
  /\ kmod_pc \in [Caller -> KmodLabel]
  /\ \A c \in Caller : \A m \in maps[c] :
       \E r \in Region : m = [region |-> r, pages |-> pages[r]]
  /\ DOMAIN maps = Caller

\* The references of a page are its mappings and its region, and a referenced
\* page is filled.
PagesCounted ==
  /\ refs \in [Page -> Nat]
  /\ \A p \in Page : refs[p] = Cardinality(Mapping(p)) + Own(p)
  /\ \A p \in Page : refs[p] > 0 => p \in filled
  /\ \A r, s \in Region : r # s => pages[r] \cap pages[s] = {}

\* Where the life of the instance is.
Staged ==
  /\ created => AllIdle
  /\ file # "open" => AllIdle
  /\ ~overlap => \A c, d \in Caller : kmod_pc[c] # "idle" /\ kmod_pc[d] # "idle" => c = d
  /\ (\E c \in Caller : maps[c] # {}) => created /\ file # "released"
  /\ created /\ file # "released" => Holds(Region)
  /\ file = "released" \/ (~created /\ ~overlap /\ AllIdle) => Holds({})
  /\ ~overlap => \A c \in Caller : kmod_pc[c] # "idle" => Holds(Allocated(kmod_pc[c]))
  /\ evrefs = IF eventfd /\ file # "released" THEN 1 ELSE 0
  /\ eventfd /\ ~overlap => created \/ \E c \in Caller : kmod_pc[c] = "copy"

\* The inductive invariant.
KmodInv == KmodTypes /\ PagesCounted /\ Staged

LEMMA KmodInitInv == KmodInit => KmodInv
<1> SUFFICES ASSUME KmodInit PROVE KmodInv
  OBVIOUS
<1>1. /\ \A p \in Page : Mapping(p) = {} /\ Own(p) = 0 /\ refs[p] = 0
      /\ refs \in [Page -> Nat] /\ Cardinality({}) = 0
  BY FS_EmptySet DEF KmodInit, Mapping, InRegion, Own
<1>2. PagesCounted
  BY <1>1 DEF KmodInit, PagesCounted
<1>3. KmodTypes
  BY ZenonT(60) DEF KmodInit, KmodTypes, KmodLabel
<1>4. Staged
  BY DEF KmodInit, Staged, AllIdle, Holds
<1> QED
  BY <1>2, <1>3, <1>4 DEF KmodInv

LEMMA MappingFinite == ASSUME NEW p PROVE IsFiniteSet(Mapping(p)) /\ Cardinality(Mapping(p)) \in Nat
<1>1. Mapping(p) \subseteq Caller
  BY DEF Mapping
<1> QED
  BY <1>1, KmodAssumption, FS_Subset, FS_CardinalityType

LEMMA Unmapped ==
  ASSUME \A c \in Caller : maps[c] = {}, UNCHANGED maps, NEW p
  PROVE  Cardinality(Mapping(p)) = 0 /\ Cardinality(Mapping(p)') = 0
<1>1. Mapping(p) = {} /\ Mapping(p)' = {}
  BY DEF Mapping
<1> QED
  BY <1>1, FS_EmptySet

\* alloc_page: pages without references are in no region, and unmapped.
LEMMA AllocKeeps ==
  ASSUME KmodTypes, PagesCounted, NEW r \in Region, NEW n, pages[r] = {}, KmodAlloc(r, n),
         UNCHANGED maps, \A c \in Caller : maps[c] = {}
  PROVE  /\ PagesCounted' /\ pages' \in [Region -> SUBSET Page]
         /\ Cardinality(pages'[r]) = n /\ \A s \in Region : s # r => pages'[s] = pages[s]
<1>1. PICK S \in SUBSET {p \in Page : refs[p] = 0} :
        /\ Cardinality(S) = n
        /\ pages' = [pages EXCEPT ![r] = S]
        /\ refs' = [p \in Page |-> IF p \in S THEN 1 ELSE refs[p]]
        /\ filled' = filled \cup S
  BY ZenonT(60) DEF KmodAlloc
<1>2. \A p \in Page : Cardinality(Mapping(p)) = 0 /\ Cardinality(Mapping(p)') = 0
  BY Unmapped
<1>0. \A p \in Page : refs[p] = Own(p)
  <2> SUFFICES ASSUME NEW p \in Page PROVE refs[p] = Own(p)
    OBVIOUS
  <2>1. refs[p] = Cardinality(Mapping(p)) + Own(p) /\ Cardinality(Mapping(p)) = 0
    BY <1>2 DEF PagesCounted
  <2>2. Own(p) \in Nat
    BY DEF Own
  <2> QED
    BY <2>1, <2>2
<1>3. \A p \in S : p \in Page /\ ~InRegion(p)
  BY <1>0, <1>1 DEF Own
<1>4. /\ pages' \in [Region -> SUBSET Page] /\ pages'[r] = S
      /\ \A s \in Region : s # r => pages'[s] = pages[s]
  BY <1>1 DEF KmodTypes
<1>5. \A p \in Page : InRegion(p)' <=> InRegion(p) \/ p \in S
  BY <1>4 DEF InRegion
<1>6. \A p \in Page : refs'[p] = Cardinality(Mapping(p)') + Own(p)'
  <2>1. \A p \in Page : refs'[p] = Own(p)'
    BY <1>0, <1>1, <1>3, <1>5 DEF Own
  <2>2. \A p \in Page : Own(p)' \in Nat
    BY DEF Own
  <2> QED
    BY <1>2, <2>1, <2>2
<1>7. refs' \in [Page -> Nat] /\ \A p \in Page : refs'[p] > 0 => p \in filled'
  BY <1>1 DEF PagesCounted
<1>8. \A s, t \in Region : s # t => pages'[s] \cap pages'[t] = {}
  BY <1>3, <1>4 DEF PagesCounted, InRegion
<1> QED
  BY <1>1, <1>4, <1>6, <1>7, <1>8 DEF PagesCounted

\* A region is freed only while nothing is mapped: its pages have no other
\* reference.
LEMMA FreeKeeps ==
  ASSUME KmodTypes, PagesCounted, NEW R \in SUBSET Region,
         NEW D \in SUBSET Region, \A r \in D : pages[r] = {}, Free(R, D),
         UNCHANGED maps, \A c \in Caller : maps[c] = {}
  PROVE  /\ PagesCounted' /\ pages' \in [Region -> SUBSET Page]
         /\ \A s \in Region : pages'[s] = IF s \in R THEN {} ELSE pages[s]
<1> DEFINE S == UNION {pages[r] : r \in R}
<1>1. /\ pages' = [r \in Region |-> IF r \in R \cup D THEN {} ELSE pages[r]]
      /\ refs' = [p \in Page |-> IF p \in S THEN refs[p] - 1 ELSE refs[p]]
      /\ filled' = filled \ {p \in S : refs[p] = 1}
  BY DEF Free
<1>2. \A p \in Page : Cardinality(Mapping(p)) = 0 /\ Cardinality(Mapping(p)') = 0
  BY Unmapped
<1>0. \A p \in Page : refs[p] = Own(p)
  <2> SUFFICES ASSUME NEW p \in Page PROVE refs[p] = Own(p)
    OBVIOUS
  <2>1. refs[p] = Cardinality(Mapping(p)) + Own(p) /\ Cardinality(Mapping(p)) = 0
    BY <1>2 DEF PagesCounted
  <2>2. Own(p) \in Nat
    BY DEF Own
  <2> QED
    BY <2>1, <2>2
<1>3. /\ pages' \in [Region -> SUBSET Page]
      /\ \A s \in Region : pages'[s] = IF s \in R THEN {} ELSE pages[s]
  BY <1>1 DEF KmodTypes
<1>4. \A p \in Page : p \in S => InRegion(p) /\ ~InRegion(p)'
  BY <1>3 DEF InRegion, PagesCounted
<1>5. \A p \in Page : p \notin S => (InRegion(p)' <=> InRegion(p))
  BY <1>3 DEF InRegion
<1> HIDE DEF S
<1>6. \A p \in Page : refs'[p] = Cardinality(Mapping(p)') + Own(p)'
  <2>1. \A p \in Page : refs'[p] = Own(p)'
    BY <1>0, <1>1, <1>4, <1>5 DEF Own
  <2>2. \A p \in Page : Own(p)' \in Nat
    BY DEF Own
  <2> QED
    BY <1>2, <2>1, <2>2
<1>7. refs' \in [Page -> Nat]
  BY <1>0, <1>1, <1>4 DEF PagesCounted, Own
<1>8. \A p \in Page : refs'[p] > 0 => p \in filled'
  BY <1>0, <1>1, <1>4 DEF PagesCounted, Own
<1>9. \A s, t \in Region : s # t => pages'[s] \cap pages'[t] = {}
  BY <1>3 DEF PagesCounted
<1> QED
  BY <1>3, <1>6, <1>7, <1>8, <1>9 DEF PagesCounted

LEMMA MmapKeeps ==
  ASSUME KmodInv, NEW c \in Caller, NEW r \in Region, Mmap(c, r)
  PROVE  KmodInv'
<1> DEFINE m == [region |-> r, pages |-> pages[r]]
<1>1. /\ maps' = [maps EXCEPT ![c] = @ \cup {m}]
      /\ UNCHANGED <<file, created, pages, eventfd, evrefs, filled, kmod_pc, overlap>>
      /\ file = "open" /\ created /\ r \notin {x.region : x \in maps[c]}
      /\ refs' = [p \in Page |-> IF p \in pages[r] THEN refs[p] + 1 ELSE refs[p]]
  BY DEF Mmap, Insert
<1>2. /\ maps'[c] = maps[c] \cup {m} /\ DOMAIN maps' = Caller
      /\ \A d \in Caller : d # c => maps'[d] = maps[d]
      /\ m.pages = pages[r] /\ m.region = r
  BY <1>1 DEF KmodInv, KmodTypes
<1>3. KmodTypes'
  BY <1>1, <1>2 DEF KmodInv, KmodTypes
<1>4. \A p \in Page : InRegion(p)' <=> InRegion(p)
  BY <1>1 DEF InRegion
<1>5. ASSUME NEW p \in Page, p \notin pages[r] PROVE Mapping(p)' = Mapping(p)
  BY <1>2, <1>5 DEF Mapping
<1>6. ASSUME NEW p \in Page, p \in pages[r]
      PROVE  Mapping(p)' = Mapping(p) \cup {c} /\ c \notin Mapping(p)
  <2>1. \A x \in maps[c] : p \notin x.pages
    <3> SUFFICES ASSUME NEW x \in maps[c], p \in x.pages PROVE FALSE
      OBVIOUS
    <3>1. PICK s \in Region : x = [region |-> s, pages |-> pages[s]]
      BY DEF KmodInv, KmodTypes
    <3>2. s = r
      BY <1>6, <3>1 DEF KmodInv, PagesCounted
    <3> QED
      BY <1>1, <3>1, <3>2
  <2> HIDE DEF m
  <2> QED
    BY <1>2, <1>6, <2>1 DEF Mapping
<1>7. \A p \in Page : /\ IsFiniteSet(Mapping(p)) /\ Cardinality(Mapping(p)) \in Nat
                      /\ refs[p] = Cardinality(Mapping(p)) + Own(p)
  BY MappingFinite DEF KmodInv, PagesCounted
<1>8. \A p \in Page : p \in pages[r] => Cardinality(Mapping(p)') = Cardinality(Mapping(p)) + 1
  BY <1>6, <1>7, FS_AddElement
<1>9. PagesCounted'
  <2>1. \A p \in Page : refs'[p] = Cardinality(Mapping(p)') + Own(p)'
    BY <1>1, <1>4, <1>5, <1>7, <1>8 DEF Own
  <2>2. refs' \in [Page -> Nat] /\ \A p \in Page : refs'[p] > 0 => p \in filled
    <3>1. \A p \in pages[r] : p \in Page => refs[p] > 0
      BY <1>7 DEF InRegion, Own
    <3> QED
      BY <1>1, <3>1 DEF KmodInv, PagesCounted
  <2> QED
    BY <1>1, <2>1, <2>2 DEF KmodInv, PagesCounted
<1>10. Staged'
  BY <1>1 DEF KmodInv, Staged, AllIdle, Holds
<1> QED
  BY <1>3, <1>9, <1>10 DEF KmodInv

LEMMA MunmapKeeps ==
  ASSUME KmodInv, NEW c \in Caller, NEW m \in maps[c], Munmap(c, m)
  PROVE  KmodInv'
<1>1. /\ maps' = [maps EXCEPT ![c] = @ \ {m}]
      /\ UNCHANGED <<file, created, pages, eventfd, evrefs, kmod_pc, overlap>>
      /\ refs' = [p \in Page |-> IF p \in m.pages THEN refs[p] - 1 ELSE refs[p]]
      /\ filled' = filled \ {p \in m.pages : refs[p] = 1}
  BY DEF Munmap
<1>2. /\ maps'[c] = maps[c] \ {m} /\ DOMAIN maps' = Caller
      /\ \A d \in Caller : d # c => maps'[d] = maps[d]
  BY <1>1 DEF KmodInv, KmodTypes
<1>0. PICK r \in Region : m = [region |-> r, pages |-> pages[r]]
  BY DEF KmodInv, KmodTypes
<1>3. KmodTypes'
  BY <1>1, <1>2 DEF KmodInv, KmodTypes
<1>4. \A p \in Page : InRegion(p)' <=> InRegion(p)
  BY <1>1 DEF InRegion
<1>5. ASSUME NEW p \in Page, p \notin m.pages PROVE Mapping(p)' = Mapping(p)
  BY <1>2, <1>5 DEF Mapping
<1>6. ASSUME NEW p \in Page, p \in m.pages
      PROVE  Mapping(p)' = Mapping(p) \ {c} /\ c \in Mapping(p)
  <2>1. \A x \in maps[c] : p \in x.pages => x = m
    <3> SUFFICES ASSUME NEW x \in maps[c], p \in x.pages PROVE x = m
      OBVIOUS
    <3>1. PICK s \in Region : x = [region |-> s, pages |-> pages[s]]
      BY DEF KmodInv, KmodTypes
    <3>2. s = r
      BY <1>0, <1>6, <3>1 DEF KmodInv, PagesCounted
    <3> QED
      BY <1>0, <3>1, <3>2
  <2> QED
    BY <1>2, <1>6, <2>1 DEF Mapping
<1>7. \A p \in Page : /\ IsFiniteSet(Mapping(p)) /\ Cardinality(Mapping(p)) \in Nat
                      /\ refs[p] = Cardinality(Mapping(p)) + Own(p)
  BY MappingFinite DEF KmodInv, PagesCounted
<1>8. ASSUME NEW p \in Page, p \in m.pages
      PROVE  Cardinality(Mapping(p)') = Cardinality(Mapping(p)) - 1
  BY <1>6, <1>7, <1>8, FS_RemoveElement
<1>9. PagesCounted'
  <2>0. \A p \in Page : p \in m.pages => InRegion(p) /\ InRegion(p)'
    BY <1>0, <1>4 DEF InRegion
  <2>1. \A p \in Page : refs'[p] = Cardinality(Mapping(p)') + Own(p)'
    BY <1>1, <1>4, <1>5, <1>7, <1>8 DEF Own
  <2>2. \A p \in Page : p \in m.pages => refs[p] > 0
    BY <1>7, <2>0 DEF Own
  <2>3. refs' \in [Page -> Nat]
    BY <1>1, <2>2 DEF KmodInv, PagesCounted
  <2>4. \A p \in Page : refs'[p] > 0 => p \in filled'
    BY <1>1, <1>7 DEF KmodInv, PagesCounted
  <2> QED
    BY <1>1, <2>1, <2>3, <2>4 DEF KmodInv, PagesCounted
<1>10. Staged'
  <2>1. (\E d \in Caller : maps'[d] # {}) => \E d \in Caller : maps[d] # {}
    BY <1>2
  <2> QED
    BY <1>1, <2>1 DEF KmodInv, Staged, AllIdle, Holds
<1> QED
  BY <1>3, <1>9, <1>10 DEF KmodInv

\* A step of the ioctl: the thread at it is the only one, nothing is mapped and
\* the file is open.
LEMMA InIoctl ==
  ASSUME KmodInv, ~overlap, NEW c \in Caller, kmod_pc[c] # "idle"
  PROVE  /\ ~created /\ file = "open" /\ \A d \in Caller : maps[d] = {}
         /\ \A d \in Caller : d # c => kmod_pc[d] = "idle"
         /\ Holds(Allocated(kmod_pc[c]))
         /\ eventfd => kmod_pc[c] = "copy"
BY DEF KmodInv, KmodTypes, Staged, AllIdle

\* What a step of the ioctl leads to.
LEMMA Lands ==
  ASSUME KmodInv, ~overlap, NEW c \in Caller, kmod_pc[c] # "idle",
         NEW label \in KmodLabel, KmodGoto(c, label),
         UNCHANGED <<file, maps, overlap>>, PagesCounted', pages' \in [Region -> SUBSET Page],
         created' \in BOOLEAN, eventfd' \in BOOLEAN,
         evrefs' = IF eventfd' THEN 1 ELSE 0,
         NEW R, Holds(R)',
         IF created' THEN label = "idle" /\ R = Region
         ELSE R = IF label = "idle" THEN {} ELSE Allocated(label),
         eventfd' => created' \/ label = "copy"
  PROVE  KmodInv'
<1>1. /\ ~created /\ file = "open" /\ \A d \in Caller : maps[d] = {}
      /\ \A d \in Caller : d # c => kmod_pc[d] = "idle"
  BY InIoctl
<1>2. /\ kmod_pc' \in [Caller -> KmodLabel] /\ kmod_pc'[c] = label
      /\ \A d \in Caller : d # c => kmod_pc'[d] = "idle"
  BY <1>1 DEF KmodGoto, KmodInv, KmodTypes
<1>3. KmodTypes'
  BY <1>1, <1>2 DEF KmodInv, KmodTypes
<1>4. AllIdle' <=> label = "idle"
  BY <1>2 DEF AllIdle
<1>5. /\ \A x, y \in Caller : kmod_pc'[x] # "idle" /\ kmod_pc'[y] # "idle" => x = y
      /\ \A d \in Caller : kmod_pc'[d] # "idle" => d = c /\ kmod_pc'[d] = label
      /\ label = "copy" => \E d \in Caller : kmod_pc'[d] = "copy"
  BY <1>2
<1>6. \A d \in Caller : kmod_pc'[d] # "idle" => Holds(Allocated(kmod_pc[d]))'
  <2> SUFFICES ASSUME NEW d \in Caller, kmod_pc'[d] # "idle"
               PROVE  Holds(Allocated(kmod_pc[d]))'
    OBVIOUS
  <2>1. kmod_pc'[d] = label /\ label # "idle"
    BY <1>5
  <2> QED
    BY <2>1 DEF Holds, Allocated
<1>7. Staged'
  BY <1>1, <1>4, <1>5, <1>6 DEF Staged
<1> QED
  BY <1>3, <1>7 DEF KmodInv

LEMMA LandsOn ==
  ASSUME KmodInv, ~overlap, NEW c \in Caller, kmod_pc[c] # "idle",
         NEW label \in {"complete", "shared", "eventfd", "copy"}, KmodGoto(c, label),
         UNCHANGED <<file, created, maps, overlap>>,
         PagesCounted', pages' \in [Region -> SUBSET Page], Holds(Allocated(label))',
         eventfd' \in BOOLEAN, evrefs' = (IF eventfd' THEN 1 ELSE 0),
         eventfd' => label = "copy"
  PROVE  KmodInv'
<1>1. ~created /\ created' = FALSE
  BY InIoctl DEF KmodInv, KmodTypes
<1>2. label \in KmodLabel /\ label # "idle"
  BY DEF KmodLabel
<1> QED
  BY <1>1, <1>2, Lands, ZenonT(60)

LEMMA LandsFailed ==
  ASSUME KmodInv, ~overlap, NEW c \in Caller, kmod_pc[c] # "idle", KmodGoto(c, "idle"),
         UNCHANGED <<file, created, maps, overlap>>,
         PagesCounted', pages' \in [Region -> SUBSET Page], Holds({})',
         eventfd' = FALSE, evrefs' = 0
  PROVE  KmodInv'
<1>1. ~created /\ created' = FALSE
  BY InIoctl DEF KmodInv, KmodTypes
<1>2. "idle" \in KmodLabel
  BY DEF KmodLabel
<1> QED
  BY <1>1, <1>2, Lands, ZenonT(60)

LEMMA CreateKeeps ==
  ASSUME KmodInv, ~overlap, NEW c \in Caller, Create(c)
  PROVE  KmodInv'
<1>1. CASE StartCreate(c)
  <2>1. /\ file = "open" /\ kmod_pc[c] = "idle" /\ ~created
        /\ kmod_pc' = [kmod_pc EXCEPT ![c] = "submit"]
        /\ overlap' = (overlap \/ \E d \in Caller : kmod_pc[d] # "idle")
        /\ UNCHANGED <<file, created, pages, eventfd, refs, evrefs, filled, maps>>
    BY <1>1 DEF StartCreate, KmodGoto
  <2>2. /\ kmod_pc' \in [Caller -> KmodLabel] /\ kmod_pc'[c] = "submit"
        /\ \A d \in Caller : d # c => kmod_pc'[d] = kmod_pc[d]
    BY <2>1 DEF KmodInv, KmodTypes, KmodLabel
  <2>3. KmodTypes' /\ PagesCounted'
    BY <2>1, <2>2 DEF KmodInv, KmodTypes, PagesCounted, Mapping, InRegion, Own
  <2>4. ~overlap' => AllIdle
    <3>1. (\E d \in Caller : kmod_pc[d] # "idle") => overlap'
      BY <2>1, ZenonT(60)
    <3> QED
      BY <3>1 DEF AllIdle
  <2>5. ~overlap' => ~eventfd /\ Holds({}) /\ \A d \in Caller : d # c => kmod_pc'[d] = "idle"
    BY <2>1, <2>2, <2>4 DEF AllIdle, KmodInv, Staged
  <2>6. Allocated("submit") = {}
    BY DEF Allocated
  <2>7. ~overlap' => \A d \in Caller : kmod_pc'[d] # "idle" => Holds(Allocated(kmod_pc[d]))'
    <3> SUFFICES ASSUME ~overlap', NEW d \in Caller, kmod_pc'[d] # "idle"
                 PROVE  Holds(Allocated(kmod_pc[d]))'
      OBVIOUS
    <3>1. kmod_pc'[d] = "submit" /\ Holds({})
      BY <2>2, <2>5
    <3> QED
      BY <2>1, <3>1 DEF Holds, Allocated
  <2>8. Staged'
    BY <2>1, <2>2, <2>5, <2>7 DEF KmodInv, Staged, AllIdle, Holds
  <2> QED
    BY <2>3, <2>8 DEF KmodInv
<1>2. ASSUME kmod_pc[c] # "idle"
      PROVE  /\ ~created /\ file = "open" /\ \A d \in Caller : maps[d] = {}
             /\ Holds(Allocated(kmod_pc[c]))
             /\ eventfd => kmod_pc[c] = "copy"
             /\ evrefs = IF eventfd THEN 1 ELSE 0
             /\ KmodTypes /\ PagesCounted
  BY <1>2, InIoctl DEF KmodInv, Staged
<1>3. /\ Allocated("submit") = {} /\ Allocated("complete") = {"submit"}
      /\ Allocated("shared") = {"submit", "complete"}
      /\ Allocated("eventfd") = Region /\ Allocated("copy") = Region
  BY DEF Allocated
<1>4. CASE AllocSubmit(c)
  <2>1. kmod_pc[c] = "submit" /\ UNCHANGED <<file, created, eventfd, evrefs, maps, overlap>>
    BY <1>4 DEF AllocSubmit
  <2>2. Holds({})
    BY <1>2, <1>3, <2>1
  <2>5. eventfd' = FALSE /\ evrefs' = 0
    BY <1>2, <2>1 DEF KmodTypes
  <2>3. CASE KmodAlloc("submit", RingPages) /\ KmodGoto(c, "complete")
    <3>1. pages["submit"] = {}
      BY <2>2 DEF Holds, Region
    <3>2. /\ PagesCounted' /\ pages' \in [Region -> SUBSET Page]
          /\ Cardinality(pages'["submit"]) = RingPages
          /\ \A s \in Region : s # "submit" => pages'[s] = pages[s]
      BY <1>2, <2>1, <2>3, <3>1, AllocKeeps DEF Region
    <3>3. Holds({"submit"})'
      BY <2>2, <3>2 DEF Holds, Size
    <3> QED
      BY <1>3, <2>1, <2>3, <2>5, <3>2, <3>3, LandsOn, ZenonT(60)
  <2>4. CASE Free({}, {"submit"}) /\ KmodGoto(c, "idle")
    <3>0. pages["submit"] = {}
      BY <2>2 DEF Holds, Region
    <3>1. /\ PagesCounted' /\ pages' \in [Region -> SUBSET Page]
          /\ \A s \in Region : pages'[s] = IF s \in {} THEN {} ELSE pages[s]
      BY <1>2, <2>1, <2>4, <3>0, FreeKeeps DEF Region
    <3>2. Holds({})'
      BY <2>2, <3>1 DEF Holds
    <3> QED
      BY <2>1, <2>4, <2>5, <3>1, <3>2, LandsFailed, ZenonT(60)
  <2> QED
    BY <1>4, <2>3, <2>4 DEF AllocSubmit
<1>5. CASE AllocComplete(c)
  <2>1. kmod_pc[c] = "complete" /\ UNCHANGED <<file, created, eventfd, evrefs, maps, overlap>>
    BY <1>5 DEF AllocComplete
  <2>2. Holds({"submit"})
    BY <1>2, <1>3, <2>1
  <2>5. eventfd' = FALSE /\ evrefs' = 0
    BY <1>2, <2>1 DEF KmodTypes
  <2>3. CASE KmodAlloc("complete", RingPages) /\ KmodGoto(c, "shared")
    <3>1. pages["complete"] = {}
      BY <2>2 DEF Holds, Region
    <3>2. /\ PagesCounted' /\ pages' \in [Region -> SUBSET Page]
          /\ Cardinality(pages'["complete"]) = RingPages
          /\ \A s \in Region : s # "complete" => pages'[s] = pages[s]
      BY <1>2, <2>1, <2>3, <3>1, AllocKeeps DEF Region
    <3>3. Holds({"submit", "complete"})'
      BY <2>2, <3>2 DEF Holds, Size
    <3> QED
      BY <1>3, <2>1, <2>3, <2>5, <3>2, <3>3, LandsOn, ZenonT(60)
  <2>4. CASE Free({"submit"}, {"complete"}) /\ KmodGoto(c, "idle")
    <3>0. pages["complete"] = {}
      BY <2>2 DEF Holds, Region
    <3>1. /\ PagesCounted' /\ pages' \in [Region -> SUBSET Page]
          /\ \A s \in Region : pages'[s] = IF s \in {"submit"} THEN {} ELSE pages[s]
      BY <1>2, <2>1, <2>4, <3>0, FreeKeeps DEF Region
    <3>2. Holds({})'
      BY <2>2, <3>1 DEF Holds
    <3> QED
      BY <2>1, <2>4, <2>5, <3>1, <3>2, LandsFailed, ZenonT(60)
  <2> QED
    BY <1>5, <2>3, <2>4 DEF AllocComplete
<1>6. CASE AllocShared(c)
  <2>1. kmod_pc[c] = "shared" /\ UNCHANGED <<file, created, eventfd, evrefs, maps, overlap>>
    BY <1>6 DEF AllocShared
  <2>2. Holds({"submit", "complete"})
    BY <1>2, <1>3, <2>1
  <2>5. eventfd' = FALSE /\ evrefs' = 0
    BY <1>2, <2>1 DEF KmodTypes
  <2>3. CASE KmodAlloc("shared", 1) /\ KmodGoto(c, "eventfd")
    <3>1. pages["shared"] = {}
      BY <2>2 DEF Holds, Region
    <3>2. /\ PagesCounted' /\ pages' \in [Region -> SUBSET Page]
          /\ Cardinality(pages'["shared"]) = 1
          /\ \A s \in Region : s # "shared" => pages'[s] = pages[s]
      BY <1>2, <2>1, <2>3, <3>1, AllocKeeps DEF Region
    <3>3. Holds(Region)'
      BY <2>2, <3>2 DEF Holds, Size, Region
    <3> QED
      BY <1>3, <2>1, <2>3, <2>5, <3>2, <3>3, LandsOn, ZenonT(60)
  <2>4. CASE Free({"submit", "complete"}, {"shared"}) /\ KmodGoto(c, "idle")
    <3>0. pages["shared"] = {}
      BY <2>2 DEF Holds, Region
    <3>1. /\ PagesCounted' /\ pages' \in [Region -> SUBSET Page]
          /\ \A s \in Region :
               pages'[s] = IF s \in {"submit", "complete"} THEN {} ELSE pages[s]
      BY <1>2, <2>1, <2>4, <3>0, FreeKeeps DEF Region
    <3>2. Holds({})'
      BY <2>2, <3>1 DEF Holds
    <3> QED
      BY <2>1, <2>4, <2>5, <3>1, <3>2, LandsFailed, ZenonT(60)
  <2> QED
    BY <1>6, <2>3, <2>4 DEF AllocShared
<1>7. CASE GetEventfd(c)
  <2>1. kmod_pc[c] = "eventfd" /\ UNCHANGED <<file, created, maps, overlap>>
    BY <1>7 DEF GetEventfd
  <2>2. Holds(Region) /\ eventfd = FALSE /\ evrefs = 0
    BY <1>2, <1>3, <2>1 DEF KmodTypes
  <2>3. CASE /\ KmodGoto(c, "copy") /\ UNCHANGED <<pages, refs, filled>>
             /\ \/ UNCHANGED <<eventfd, evrefs>>
                \/ eventfd' = TRUE /\ evrefs' = evrefs + 1
    <3>1. PagesCounted' /\ Holds(Region)' /\ pages' \in [Region -> SUBSET Page]
      BY <1>2, <2>1, <2>2, <2>3 DEF PagesCounted, Mapping, InRegion, Own, Holds, KmodTypes
    <3>2. eventfd' \in BOOLEAN /\ evrefs' = IF eventfd' THEN 1 ELSE 0
      <4>1. evrefs + 1 = 1
        BY <2>2
      <4>2. (eventfd' = FALSE /\ evrefs' = 0) \/ (eventfd' = TRUE /\ evrefs' = 1)
        BY <2>2, <2>3, <4>1, ZenonT(60)
      <4> QED
        BY <4>2, ZenonT(60)
    <3>3. Holds(Allocated("copy"))' /\ "copy" \in {"complete", "shared", "eventfd", "copy"}
      BY <1>3, <3>1, ZenonT(60)
    <3>4. kmod_pc[c] # "idle" /\ KmodGoto(c, "copy")
      BY <2>1, <2>3
    <3> QED
      BY <2>1, <3>1, <3>2, <3>3, <3>4, LandsOn, ZenonT(60)
  <2>4. CASE Free(Region, {}) /\ KmodGoto(c, "idle") /\ eventfd' = FALSE /\ UNCHANGED evrefs
    <3>1. /\ PagesCounted' /\ pages' \in [Region -> SUBSET Page]
          /\ \A s \in Region : pages'[s] = IF s \in Region THEN {} ELSE pages[s]
      BY <1>2, <2>1, <2>4, FreeKeeps
    <3>2. Holds({})' /\ eventfd' = FALSE /\ evrefs' = 0
      <4>1. Holds({})'
        BY <3>1 DEF Holds
      <4>2. eventfd' = FALSE /\ evrefs' = 0
        BY <2>2, <2>4, ZenonT(60)
      <4> QED
        BY <4>1, <4>2, ZenonT(60)
    <3> QED
      BY <2>1, <2>4, <3>1, <3>2, LandsFailed, ZenonT(60)
  <2> QED
    BY <1>7, <2>3, <2>4, ZenonT(60) DEF GetEventfd
<1>8. CASE CopyOut(c)
  <2>1. kmod_pc[c] = "copy" /\ UNCHANGED <<file, maps, overlap>> /\ KmodGoto(c, "idle")
    BY <1>8 DEF CopyOut
  <2>2. Holds(Region) /\ evrefs = (IF eventfd THEN 1 ELSE 0) /\ ~created /\ eventfd \in BOOLEAN
    BY <1>2, <1>3, <2>1 DEF KmodTypes
  <2>3. CASE created' = TRUE /\ UNCHANGED <<pages, refs, filled, eventfd, evrefs>>
    <3>1. PagesCounted' /\ Holds(Region)' /\ pages' \in [Region -> SUBSET Page]
      BY <1>2, <2>1, <2>2, <2>3 DEF PagesCounted, Mapping, InRegion, Own, Holds, KmodTypes
    <3>2. "idle" \in KmodLabel /\ eventfd' \in BOOLEAN /\ evrefs' = (IF eventfd' THEN 1 ELSE 0)
      BY <2>2, <2>3 DEF KmodLabel
    <3> QED
      BY <2>1, <2>3, <3>1, <3>2, Lands
  <2>4. CASE /\ Free(Region, {}) /\ eventfd' = FALSE /\ UNCHANGED created
             /\ evrefs' = IF eventfd THEN evrefs - 1 ELSE evrefs
    <3>1. /\ PagesCounted' /\ pages' \in [Region -> SUBSET Page]
          /\ \A s \in Region : pages'[s] = IF s \in Region THEN {} ELSE pages[s]
      BY <1>2, <2>1, <2>4, FreeKeeps
    <3>2. Holds({})' /\ evrefs' = 0
      BY <2>2, <2>4, <3>1 DEF Holds
    <3> QED
      BY <2>1, <2>4, <3>1, <3>2, LandsFailed, ZenonT(60)
  <2> QED
    BY <1>8, <2>3, <2>4, ZenonT(60) DEF CopyOut
<1> QED
  BY <1>1, <1>4, <1>5, <1>6, <1>7, <1>8 DEF Create

LEMMA KmodStepInv == KmodInv /\ ~overlap /\ [KmodNext]_kmodVars => KmodInv'
<1> SUFFICES ASSUME KmodInv, ~overlap, [KmodNext]_kmodVars PROVE KmodInv'
  OBVIOUS
<1>1. CASE UNCHANGED kmodVars
  BY <1>1, ZenonT(60) DEF kmodVars, KmodInv, KmodTypes, PagesCounted, Staged, Mapping, InRegion, Own, AllIdle,
              Holds
<1>2. CASE Close
  BY <1>2, ZenonT(60) DEF Close, KmodInv, KmodTypes, PagesCounted, Staged, Mapping, InRegion, Own, AllIdle, Holds
<1>3. CASE KmodRelease
  <2>1. /\ file = "closed" /\ file' = "released" /\ \A c \in Caller : maps[c] = {}
        /\ evrefs' = IF eventfd THEN evrefs - 1 ELSE evrefs
        /\ Free(Region, {}) /\ UNCHANGED <<created, eventfd, maps, kmod_pc, overlap>>
    BY <1>3 DEF KmodRelease, Destroy
  <2>2. /\ PagesCounted' /\ pages' \in [Region -> SUBSET Page]
        /\ \A s \in Region : pages'[s] = IF s \in Region THEN {} ELSE pages[s]
    BY <2>1, FreeKeeps DEF KmodInv
  <2>3. Holds({})' /\ AllIdle /\ AllIdle'
    BY <2>1, <2>2 DEF Holds, KmodInv, Staged, AllIdle
  <2>4. KmodTypes'
    BY <2>1, <2>2 DEF KmodInv, KmodTypes
  <2>5. evrefs' = 0
    BY <2>1 DEF KmodInv, KmodTypes, Staged
  <2>6. Staged'
    BY <2>1, <2>3, <2>5 DEF KmodInv, Staged, AllIdle
  <2> QED
    BY <2>2, <2>4, <2>6 DEF KmodInv
<1> QED
  BY <1>1, <1>2, <1>3, MmapKeeps, MunmapKeeps, CreateKeeps
     DEF KmodNext, KmodStep, KmodFinished

\* Once two CREATEs overlapped it is so for ever.
LEMMA OverlapStays == overlap /\ [KmodNext]_kmodVars => overlap'
  BY ZenonT(60) DEF KmodNext, KmodStep, KmodFinished, kmodVars, Create, StartCreate,
     AllocSubmit, AllocComplete, AllocShared, GetEventfd, CopyOut, Mmap, Munmap,
     Close, KmodRelease

LEMMA KmodInvImplies == KmodInv /\ ~overlap => NothingLeaked /\ MappedLive
<1> SUFFICES ASSUME KmodInv, ~overlap PROVE NothingLeaked /\ MappedLive
  OBVIOUS
<1>1. NothingLeaked
  <2> SUFFICES ASSUME AllIdle, ~created \/ file = "released"
               PROVE  evrefs = 0 /\ \A p \in Page : refs[p] = 0
    BY DEF NothingLeaked, AllIdle
  <2>1. Holds({}) /\ \A c \in Caller : maps[c] = {}
    BY DEF KmodInv, Staged, KmodTypes
  <2>2. \A p \in Page : Mapping(p) = {} /\ Own(p) = 0 /\ Cardinality({}) = 0
    BY <2>1, FS_EmptySet DEF Mapping, InRegion, Holds, Own
  <2>3. evrefs = 0
    BY DEF KmodInv, Staged, AllIdle
  <2> QED
    BY <2>2, <2>3 DEF KmodInv, PagesCounted
<1>2. MappedLive
  <2> SUFFICES ASSUME NEW c \in Caller, NEW m \in maps[c]
               PROVE  /\ Cardinality(m.pages) = (IF m.region = "shared" THEN 1 ELSE RingPages)
                      /\ \A p \in m.pages : refs[p] > 0 /\ p \in filled
    BY DEF MappedLive
  <2>1. PICK r \in Region : m = [region |-> r, pages |-> pages[r]]
    BY DEF KmodInv, KmodTypes
  <2>2. Holds(Region)
    BY DEF KmodInv, Staged
  <2>3. Cardinality(m.pages) = (IF m.region = "shared" THEN 1 ELSE RingPages)
    BY <2>1, <2>2 DEF Holds, Size
  <2>4. ASSUME NEW p \in m.pages PROVE refs[p] > 0 /\ p \in filled
    <3>1. p \in Page /\ InRegion(p)
      BY <2>1 DEF InRegion, KmodInv, KmodTypes
    <3>2. Cardinality(Mapping(p)) \in Nat
      BY MappingFinite
    <3>3. refs[p] > 0
      BY <3>1, <3>2 DEF KmodInv, PagesCounted, Own
    <3> QED
      BY <3>1, <3>3 DEF KmodInv, PagesCounted
  <2> QED
    BY <2>3, <2>4
<1> QED
  BY <1>1, <1>2

\* ksvc_ioctl_create with any of its steps failing, ksvc_mmap and ksvc_release:
\* no page and no eventfd reference outlives what needs it, and a mapped page
\* stays allocated and filled, until two CREATEs of an instance overlap.
THEOREM PagesHeldHolds == KmodSpec => []PagesHeld
<1>1. KmodInit => overlap \/ KmodInv
  BY KmodInitInv
<1>2. (overlap \/ KmodInv) /\ [KmodNext]_kmodVars => (overlap \/ KmodInv)'
  BY KmodStepInv, OverlapStays
<1>3. overlap \/ KmodInv => PagesHeld
  BY KmodInvImplies DEF PagesHeld
<1> QED
  BY <1>1, <1>2, <1>3, PTL DEF KmodSpec

--------------------------------------------------------------------------------
(* Channel *)

Pushed == {sent[i] : i \in DOMAIN sent}

\* The Sender handles that exist.
Senders == {t \in Tx : chan_pc[t] \notin {"none", "gone"}}

TxLabel == {"none", "idle", "gone", "send", "trySend", "push", "retry", "tryPush"}
RxLabel == {"none", "idle", "gone", "recv", "tryRecv", "count"}

\* The inductive invariant: the counter counts the senders, and a receiver that
\* is about to look at it has found the buffer empty, and it is unless somebody
\* pushed since.
ChannelInv ==
  /\ capacity \in Nat
  /\ sent \in Seq(Pushed) /\ got \in Seq(Pushed) /\ buffer \in Seq(Pushed)
  /\ chan_pc \in [Tx \cup Rx -> TxLabel \cup RxLabel]
  /\ \A t \in Tx : chan_pc[t] \in TxLabel
  /\ \A r \in Rx : chan_pc[r] \in RxLabel
  /\ result \in [Tx \cup Rx -> {"none", "ok", "closed", "full", "empty"}]
  /\ sender_count = Cardinality(Senders)
  /\ \A r \in Rx : chan_pc[r] = "count" /\ r \notin raced => buffer = <<>>
  /\ \A r \in Rx : chan_pc[r] = "none" => result[r] = "none"
  /\ Delivered

LEMMA SeqAppend ==
  ASSUME NEW S, NEW s \in Seq(S), NEW m
  PROVE  Append(s, m) \in Seq(S \cup {m}) /\ s \in Seq(S \cup {m})
<1>1. s \in Seq(S \cup {m})
  OBVIOUS
<1> QED
  BY <1>1

LEMMA AppendElements ==
  ASSUME NEW S, NEW s \in Seq(S), NEW m
  PROVE  /\ DOMAIN Append(s, m) = DOMAIN s \cup {Len(s) + 1}
         /\ \A i \in DOMAIN s : Append(s, m)[i] = s[i]
         /\ Append(s, m)[Len(s) + 1] = m
OBVIOUS

LEMMA SeqPop ==
  ASSUME NEW S, NEW s \in Seq(S), NEW b \in Seq(S), b # <<>>
  PROVE  /\ Append(s, Head(b)) \in Seq(S) /\ Tail(b) \in Seq(S)
         /\ Append(s, Head(b)) \o Tail(b) = s \o b
         /\ Len(Tail(b)) <= Len(b)
OBVIOUS

LEMMA SendersFinite == IsFiniteSet(Senders) /\ Cardinality(Senders) \in Nat
<1>1. Senders \subseteq Tx
  BY DEF Senders
<1> QED
  BY <1>1, ChannelAssumption, FS_Subset, FS_CardinalityType

LEMMA SenderCounted ==
  ASSUME ChannelInv, NEW t \in Tx, chan_pc[t] \notin {"none", "gone"}
  PROVE  sender_count # 0
<1>1. t \in Senders
  BY DEF Senders
<1> QED
  BY <1>1, SendersFinite, FS_EmptySet DEF ChannelInv

LEMMA ChannelInitInv == ChannelInit => ChannelInv
<1> SUFFICES ASSUME ChannelInit PROVE ChannelInv
  OBVIOUS
<1> USE ChannelAssumption DEF ChannelInit
<1>1. Senders = {Tx0}
  BY DEF Senders
<1>2. Cardinality(Senders) = 1
  BY <1>1, FS_Singleton, ZenonT(60)
<1>3. /\ chan_pc \in [Tx \cup Rx -> TxLabel \cup RxLabel]
      /\ \A t \in Tx : chan_pc[t] \in TxLabel
      /\ \A r \in Rx : chan_pc[r] \in RxLabel
      /\ \A r \in Rx : chan_pc[r] # "count" /\ result[r] = "none"
      /\ result \in [Tx \cup Rx -> {"none", "ok", "closed", "full", "empty"}]
  BY DEF TxLabel, RxLabel
<1>4. sent = <<>> /\ got = <<>> /\ buffer = <<>> /\ capacity \in Nat /\ sender_count = 1
  OBVIOUS
<1>5. <<>> \in Seq(Pushed) /\ <<>> = <<>> \o <<>> /\ Len(<<>>) <= capacity
  BY <1>4
<1>6. Delivered
  BY <1>3, <1>4, <1>5 DEF Delivered, Fifo, ClosedMeansDrained
<1> QED
  BY <1>2, <1>3, <1>4, <1>5, <1>6 DEF ChannelInv

\* A handle moves on inside a call, or a call begins or ends: the buffer, the
\* counters and the other handles stay as they are.
LEMMA MoveKeeps ==
  ASSUME ChannelInv, NEW h \in Tx \cup Rx,
         NEW to, to \in {"idle"} \cup ((IF h \in Tx THEN TxLabel ELSE RxLabel) \ {"none", "gone"}),
         NEW x \in {"none", "ok", "closed", "full", "empty"},
         chan_pc[h] \notin {"none", "gone"},
         chan_pc' = [chan_pc EXCEPT ![h] = to],
         result' = [result EXCEPT ![h] = x],
         UNCHANGED <<buffer, capacity, sender_count, sent, got>>,
         raced' \in {raced, raced \ {h}},
         h \in Rx /\ to = "count" => raced' = raced /\ buffer = <<>>,
         h \in Rx /\ x = "closed" =>
           \/ result[h] = "closed" /\ to # "idle"
           \/ sender_count = 0 /\ (got = sent \/ h \in raced')
  PROVE  ChannelInv'
<1>0. h \in Tx => h \notin Rx
  BY ChannelAssumption
<1>1. /\ \A g \in Tx \cup Rx : g # h => chan_pc'[g] = chan_pc[g] /\ result'[g] = result[g]
      /\ chan_pc'[h] = to /\ result'[h] = x
      /\ result' \in [Tx \cup Rx -> {"none", "ok", "closed", "full", "empty"}]
  BY DEF ChannelInv
<1>2. to \notin {"none", "gone"} /\ (h \in Tx => to \in TxLabel) /\ (h \in Rx => to \in RxLabel)
  BY <1>0 DEF TxLabel, RxLabel
<1>3. /\ chan_pc' \in [Tx \cup Rx -> TxLabel \cup RxLabel]
      /\ \A t \in Tx : chan_pc'[t] \in TxLabel
      /\ \A r \in Rx : chan_pc'[r] \in RxLabel
  BY <1>1, <1>2 DEF ChannelInv
<1>4. Senders' = Senders
  BY <1>1, <1>2 DEF Senders
<1>5. Pushed' = Pushed
  BY DEF Pushed
<1>6. Fifo'
  BY DEF ChannelInv, Delivered, Fifo
<1>7. ClosedMeansDrained'
  <2> SUFFICES ASSUME NEW r \in Rx, result'[r] = "closed"
               PROVE  sender_count = 0 /\ (got = sent \/ r \in raced' \/ chan_pc'[r] # "idle")
    BY DEF ClosedMeansDrained
  <2>1. CASE r = h
    BY <1>1, <2>1 DEF ChannelInv, Delivered, ClosedMeansDrained
  <2>2. CASE r # h
    BY <1>1, <2>2 DEF ChannelInv, Delivered, ClosedMeansDrained
  <2> QED
    BY <2>1, <2>2
<1>8. /\ \A r \in Rx : chan_pc'[r] = "count" /\ r \notin raced' => buffer' = <<>>
      /\ \A r \in Rx : chan_pc'[r] = "none" => result'[r] = "none"
  BY <1>1, <1>2 DEF ChannelInv
<1> QED
  BY <1>1, <1>3, <1>4, <1>5, <1>6, <1>7, <1>8 DEF ChannelInv, Delivered

LEMMA PushKeeps ==
  ASSUME ChannelInv, NEW t \in Tx, Len(buffer) < capacity, Push(t),
         NEW from \in {"push", "retry", "tryPush"}, Return(t, from, "ok"),
         UNCHANGED <<counts, got>>
  PROVE  ChannelInv'
<1>1. PICK m :
      /\ buffer' = Append(buffer, m) /\ sent' = Append(sent, m)
      /\ raced' = raced \cup {r \in Rx : chan_pc[r] = "count"}
      /\ chan_pc[t] = from /\ chan_pc' = [chan_pc EXCEPT ![t] = "idle"]
      /\ result' = [result EXCEPT ![t] = "ok"]
      /\ UNCHANGED <<capacity, closed, sender_count, receiver_count, got>>
  BY ZenonT(60) DEF Push, Return, ChanGoto, counts
<1>2. /\ \A g \in Tx \cup Rx : g # t => chan_pc'[g] = chan_pc[g] /\ result'[g] = result[g]
      /\ chan_pc'[t] = "idle"
      /\ result' \in [Tx \cup Rx -> {"none", "ok", "closed", "full", "empty"}]
      /\ chan_pc' \in [Tx \cup Rx -> TxLabel \cup RxLabel]
      /\ \A r \in Rx : r # t
  BY <1>1, ChannelAssumption DEF ChannelInv, TxLabel
<1>3. /\ \A u \in Tx : chan_pc'[u] \in TxLabel
      /\ \A r \in Rx : chan_pc'[r] \in RxLabel
  BY <1>2, ZenonT(60) DEF ChannelInv, TxLabel
<1>4. Senders' = Senders
  BY <1>1, <1>2 DEF Senders
<1>5. sent = got \o buffer /\ Len(buffer) <= capacity
  BY DEF ChannelInv, Delivered, Fifo
<1>6. /\ Pushed' = Pushed \cup {m}
      /\ sent' \in Seq(Pushed') /\ buffer' \in Seq(Pushed') /\ got' \in Seq(Pushed')
      /\ sent' = got' \o buffer'
  <2>1. sent \in Seq(Pushed) /\ got \in Seq(Pushed) /\ buffer \in Seq(Pushed)
    BY DEF ChannelInv
  <2>2. /\ DOMAIN sent' = DOMAIN sent \cup {Len(sent) + 1}
        /\ \A i \in DOMAIN sent : sent'[i] = sent[i]
        /\ sent'[Len(sent) + 1] = m
    BY <1>1, <2>1, AppendElements
  <2>3. Pushed' = Pushed \cup {m}
    BY <2>2, ZenonT(60) DEF Pushed
  <2>4. /\ Append(sent, m) \in Seq(Pushed \cup {m}) /\ got \in Seq(Pushed \cup {m})
        /\ Append(buffer, m) \in Seq(Pushed \cup {m}) /\ buffer \in Seq(Pushed \cup {m})
    BY <2>1, SeqAppend, ZenonT(60)
  <2>5. Append(got \o buffer, m) = got \o Append(buffer, m)
    BY <2>4
  <2> QED
    BY <1>1, <1>5, <2>3, <2>4, <2>5, ZenonT(60)
<1>7. Len(buffer') <= capacity
  BY <1>1 DEF ChannelInv
<1>8. sender_count # 0
  BY <1>1, SenderCounted
<1>9. Delivered'
  BY <1>1, <1>2, <1>6, <1>7, <1>8 DEF ChannelInv, Delivered, Fifo, ClosedMeansDrained
<1>10. /\ \A r \in Rx : chan_pc'[r] # "count" \/ r \in raced'
       /\ \A r \in Rx : chan_pc'[r] = "none" => result'[r] = "none"
  BY <1>1, <1>2 DEF ChannelInv
<1> QED
  BY <1>1, <1>2, <1>3, <1>4, <1>6, <1>9, <1>10 DEF ChannelInv

LEMMA PopKeeps ==
  ASSUME ChannelInv, NEW r \in Rx, buffer # <<>>,
         got' = Append(got, Head(buffer)), buffer' = Tail(buffer),
         NEW from \in {"recv", "tryRecv"}, Return(r, from, "ok"),
         UNCHANGED <<counts, sent, raced>>
  PROVE  ChannelInv'
<1>1. /\ chan_pc[r] = from /\ chan_pc' = [chan_pc EXCEPT ![r] = "idle"]
      /\ result' = [result EXCEPT ![r] = "ok"]
      /\ UNCHANGED <<capacity, closed, sender_count, receiver_count, sent, raced>>
  BY DEF Return, ChanGoto, counts
<1>2. /\ \A g \in Tx \cup Rx : g # r => chan_pc'[g] = chan_pc[g] /\ result'[g] = result[g]
      /\ chan_pc'[r] = "idle" /\ result'[r] = "ok"
      /\ result' \in [Tx \cup Rx -> {"none", "ok", "closed", "full", "empty"}]
      /\ chan_pc' \in [Tx \cup Rx -> TxLabel \cup RxLabel]
      /\ \A t \in Tx : r # t
  BY <1>1, ChannelAssumption DEF ChannelInv, RxLabel
<1>3. /\ \A t \in Tx : chan_pc'[t] \in TxLabel
      /\ \A q \in Rx : chan_pc'[q] \in RxLabel
  BY <1>2, ZenonT(60) DEF ChannelInv, RxLabel
<1>4. Senders' = Senders /\ Pushed' = Pushed
  BY <1>1, <1>2 DEF Senders, Pushed
<1>5. /\ sent \in Seq(Pushed) /\ got \in Seq(Pushed) /\ buffer \in Seq(Pushed)
      /\ sent = got \o buffer /\ Len(buffer) <= capacity /\ capacity \in Nat
  BY DEF ChannelInv, Delivered, Fifo
<1>6. got # sent
  <2>1. Len(got \o buffer) = Len(got) + Len(buffer) /\ Len(buffer) > 0 /\ Len(got) \in Nat
    BY <1>5
  <2> QED
    BY <1>5, <2>1
<1>7. /\ got' \in Seq(Pushed) /\ buffer' \in Seq(Pushed) /\ sent = got' \o buffer'
      /\ Len(buffer') <= capacity
  BY <1>5, SeqPop
<1>8. ClosedMeansDrained'
  BY <1>1, <1>2, <1>6 DEF ChannelInv, Delivered, ClosedMeansDrained
<1>9. /\ \A q \in Rx : chan_pc'[q] = "count" => q \in raced'
      /\ \A q \in Rx : chan_pc'[q] = "none" => result'[q] = "none"
  BY <1>1, <1>2 DEF ChannelInv
<1> QED
  BY <1>1, <1>2, <1>3, <1>4, <1>5, <1>7, <1>8, <1>9 DEF ChannelInv, Delivered, Fifo

\* A clone or a drop.
LEMMA HandleKeeps ==
  ASSUME ChannelInv, NEW h \in Tx \cup Rx, NEW to \in {"idle", "gone"},
         chan_pc[h] = IF to = "idle" THEN "none" ELSE "idle",
         chan_pc' = [chan_pc EXCEPT ![h] = to],
         sender_count' = IF h \in Rx THEN sender_count
                         ELSE IF to = "idle" THEN sender_count + 1 ELSE sender_count - 1,
         h \in Tx /\ to = "idle" => sender_count # 0,
         UNCHANGED <<capacity, buffer, result, history>>
  PROVE  ChannelInv'
<1>1. /\ \A g \in Tx \cup Rx : g # h => chan_pc'[g] = chan_pc[g]
      /\ chan_pc'[h] = to
      /\ chan_pc' \in [Tx \cup Rx -> TxLabel \cup RxLabel]
      /\ UNCHANGED <<sent, got, raced>>
  BY DEF ChannelInv, TxLabel, history
<1>2. /\ \A t \in Tx : chan_pc'[t] \in TxLabel
      /\ \A r \in Rx : chan_pc'[r] \in RxLabel
  BY <1>1 DEF ChannelInv, TxLabel, RxLabel
<1>3. sender_count' = Cardinality(Senders')
  <2>1. CASE h \in Rx
    <3>1. h \notin Tx
      BY <2>1, ChannelAssumption
    <3>2. Senders' = Senders
      BY <1>1, <3>1 DEF Senders
    <3> QED
      BY <2>1, <3>2 DEF ChannelInv
  <2>2. CASE h \in Tx /\ to = "idle"
    <3>1. h \notin Rx
      BY <2>2, ChannelAssumption
    <3>2. Senders' = Senders \cup {h} /\ h \notin Senders
      BY <1>1, <2>2 DEF Senders
    <3>3. Cardinality(Senders') = Cardinality(Senders) + 1
      BY <3>2, SendersFinite, FS_AddElement, ZenonT(60)
    <3> QED
      BY <2>2, <3>1, <3>3 DEF ChannelInv
  <2>3. CASE h \in Tx /\ to = "gone"
    <3>1. h \notin Rx
      BY <2>3, ChannelAssumption
    <3>2. Senders' = Senders \ {h} /\ h \in Senders
      BY <1>1, <2>3 DEF Senders
    <3>3. Cardinality(Senders') = Cardinality(Senders) - 1
      BY <3>2, SendersFinite, FS_RemoveElement
    <3> QED
      BY <2>3, <3>1, <3>3 DEF ChannelInv
  <2> QED
    BY <2>1, <2>2, <2>3
<1>4. sender_count = 0 => sender_count' = 0
  <2>1. CASE h \in Tx /\ to = "gone"
    BY <2>1, SenderCounted
  <2> QED
    BY <2>1
<1>5. ClosedMeansDrained'
  <2> SUFFICES ASSUME NEW r \in Rx, result'[r] = "closed"
               PROVE  sender_count' = 0 /\ (got' = sent' \/ r \in raced' \/ chan_pc'[r] # "idle")
    BY DEF ClosedMeansDrained
  <2>1. result[r] = "closed"
    OBVIOUS
  <2>2. sender_count = 0 /\ (got = sent \/ r \in raced \/ chan_pc[r] # "idle")
    BY <2>1 DEF ChannelInv, Delivered, ClosedMeansDrained
  <2>3. chan_pc[r] # "none"
    BY <2>1 DEF ChannelInv
  <2> QED
    BY <1>1, <1>4, <2>2, <2>3
<1>6. Fifo' /\ Pushed' = Pushed
  BY <1>1 DEF ChannelInv, Delivered, Fifo, Pushed
<1>7. /\ \A r \in Rx : chan_pc'[r] = "count" /\ r \notin raced' => buffer' = <<>>
      /\ \A r \in Rx : chan_pc'[r] = "none" => result'[r] = "none"
  BY <1>1 DEF ChannelInv
<1> QED
  BY <1>1, <1>2, <1>3, <1>5, <1>6, <1>7 DEF ChannelInv, Delivered

LEMMA ChannelStepInv == ChannelInv /\ [ChannelNext]_channelVars => ChannelInv'
<1> SUFFICES ASSUME ChannelInv, [ChannelNext]_channelVars PROVE ChannelInv'
  OBVIOUS
<1>0. /\ \A t \in Tx : t \in Tx \cup Rx /\ t \notin Rx /\ result[t] \in {"none", "ok", "closed", "full", "empty"}
      /\ \A r \in Rx : r \in Tx \cup Rx /\ r \notin Tx /\ result[r] \in {"none", "ok", "closed", "full", "empty"}
      /\ result = [h \in Tx \cup Rx |-> result[h]]
  BY ChannelAssumption DEF ChannelInv
<1>00. \A h \in Tx \cup Rx : [result EXCEPT ![h] = result[h]] = result
  BY <1>0
<1>1. ASSUME NEW t \in Tx, StartSend(t) PROVE ChannelInv'
  <2>1. PICK to \in {"send", "trySend"} : ChanGoto(t, "idle", to)
    BY <1>1 DEF StartSend
  <2>2. to \in {"idle"} \cup ((IF t \in Tx THEN TxLabel ELSE RxLabel) \ {"none", "gone"})
    BY DEF TxLabel
  <2>3. UNCHANGED <<buffer, capacity, sender_count, sent, got, raced, result>>
    BY <1>1 DEF StartSend, counts, history
  <2> QED
    BY <1>0, <1>00, <2>1, <2>2, <2>3, MoveKeeps, ZenonT(60) DEF ChanGoto
<1>2. ASSUME NEW t \in Tx, CheckClosed(t) PROVE ChannelInv'
  <2>3. UNCHANGED <<buffer, capacity, sender_count, sent, got, raced>>
    BY <1>2 DEF CheckClosed, counts, history
  <2>4. PICK to \in {"idle", "push", "tryPush"},
             x \in {"none", "ok", "closed", "full", "empty"} :
          /\ chan_pc[t] \in {"send", "trySend"}
          /\ chan_pc' = [chan_pc EXCEPT ![t] = to]
          /\ result' = [result EXCEPT ![t] = x]
    BY <1>0, <1>00, <1>2, ZenonT(60) DEF CheckClosed, Return, ChanGoto
  <2>2. to \in {"idle"} \cup ((IF t \in Tx THEN TxLabel ELSE RxLabel) \ {"none", "gone"})
    BY DEF TxLabel
  <2> QED
    BY <1>0, <2>2, <2>3, <2>4, MoveKeeps, ZenonT(60)
<1>3. ASSUME NEW t \in Tx, TrySendInner(t) PROVE ChannelInv'
  <2>1. CASE /\ Len(buffer) < capacity /\ Push(t)
             /\ \E from \in {"push", "retry", "tryPush"} : Return(t, from, "ok")
    BY <1>3, <2>1, PushKeeps DEF TrySendInner
  <2>2. CASE /\ UNCHANGED <<buffer, sent, raced>>
             /\ \/ (ChanGoto(t, "push", "retry") \/ ChanGoto(t, "retry", "send")) /\ UNCHANGED result
                \/ Return(t, "tryPush", "full")
    <3>1. UNCHANGED <<buffer, capacity, sender_count, sent, got, raced>>
      BY <1>3, <2>2 DEF TrySendInner, counts
    <3>2. PICK to \in {"idle", "retry", "send"},
               x \in {"none", "ok", "closed", "full", "empty"} :
            /\ chan_pc[t] \in {"push", "retry", "tryPush"}
            /\ chan_pc' = [chan_pc EXCEPT ![t] = to]
            /\ result' = [result EXCEPT ![t] = x]
      BY <1>0, <1>00, <2>2, ZenonT(60) DEF Return, ChanGoto
    <3>3. to \in {"idle"} \cup ((IF t \in Tx THEN TxLabel ELSE RxLabel) \ {"none", "gone"})
      BY DEF TxLabel
    <3> QED
      BY <1>0, <3>1, <3>2, <3>3, MoveKeeps, ZenonT(60)
  <2> QED
    BY <1>3, <2>1, <2>2 DEF TrySendInner
<1>4. ASSUME NEW t \in Tx, NEW u \in Tx, CloneSender(t, u) PROVE ChannelInv'
  <2>1. sender_count # 0
    BY <1>4, SenderCounted DEF CloneSender
  <2> QED
    BY <1>0, <1>4, <2>1, HandleKeeps, ZenonT(60) DEF CloneSender, ChanGoto
<1>5. ASSUME NEW t \in Tx, DropSender(t) PROVE ChannelInv'
  BY <1>0, <1>5, HandleKeeps, ZenonT(60) DEF DropSender, ChanGoto
<1>6. ASSUME NEW r \in Rx, StartRecv(r) PROVE ChannelInv'
  <2>1. PICK to \in {"recv", "tryRecv"} : ChanGoto(r, "idle", to)
    BY <1>6 DEF StartRecv
  <2>2. to \in {"idle"} \cup ((IF r \in Tx THEN TxLabel ELSE RxLabel) \ {"none", "gone"}) /\ to # "idle" /\ to # "count"
    BY <1>0 DEF RxLabel
  <2>3. UNCHANGED <<buffer, capacity, sender_count, sent, got, result>> /\ raced' = raced \ {r}
    BY <1>6 DEF StartRecv, counts
  <2> QED
    BY <1>0, <1>00, <2>1, <2>2, <2>3, MoveKeeps, ZenonT(60) DEF ChanGoto
<1>7. ASSUME NEW r \in Rx, TryRecvInner(r) PROVE ChannelInv'
  <2>1. CASE /\ buffer # <<>> /\ got' = Append(got, Head(buffer)) /\ buffer' = Tail(buffer)
             /\ Return(r, "recv", "ok") \/ Return(r, "tryRecv", "ok")
    BY <1>7, <2>1, PopKeeps DEF TryRecvInner
  <2>2. CASE /\ buffer = <<>> /\ UNCHANGED <<buffer, got>>
             /\ \/ ChanGoto(r, "recv", "count") /\ UNCHANGED result
                \/ Return(r, "tryRecv", "empty")
    <3>1. UNCHANGED <<buffer, capacity, sender_count, sent, got, raced>>
      BY <1>7, <2>2 DEF TryRecvInner, counts
    <3>2. CASE ChanGoto(r, "recv", "count") /\ UNCHANGED result
      <4>1. "count" \in {"idle"} \cup ((IF r \in Tx THEN TxLabel ELSE RxLabel) \ {"none", "gone"})
        BY <1>0 DEF RxLabel
      <4> QED
        BY <1>0, <1>00, <2>2, <3>1, <3>2, <4>1, MoveKeeps, ZenonT(60) DEF ChanGoto
    <3>3. CASE Return(r, "tryRecv", "empty")
      BY <1>0, <3>1, <3>3, MoveKeeps, ZenonT(60) DEF ChanGoto, Return
    <3> QED
      BY <2>2, <3>2, <3>3
  <2> QED
    BY <1>7, <2>1, <2>2 DEF TryRecvInner
<1>8. ASSUME NEW r \in Rx, CheckSenders(r) PROVE ChannelInv'
  <2>1. UNCHANGED <<buffer, capacity, sender_count, sent, got>>
    BY <1>8 DEF CheckSenders, counts
  <2>2. CASE sender_count = 0 /\ Return(r, "count", "closed") /\ UNCHANGED raced
    <3>1. got = sent \/ r \in raced
      <4>1. r \notin raced => buffer = <<>>
        BY <2>2 DEF ChannelInv, Return, ChanGoto
      <4>2. got \in Seq(Pushed) /\ sent = got \o buffer
        BY DEF ChannelInv, Delivered, Fifo
      <4>3. got \o <<>> = got
        BY <4>2
      <4> QED
        BY <4>1, <4>2, <4>3
    <3> QED
      BY <1>0, <2>1, <2>2, <3>1, MoveKeeps, ZenonT(60) DEF ChanGoto, Return
  <2>3. CASE ChanGoto(r, "count", "recv") /\ raced' = raced \ {r} /\ UNCHANGED result
    <3>1. "recv" \in {"idle"} \cup ((IF r \in Tx THEN TxLabel ELSE RxLabel) \ {"none", "gone"})
      BY <1>0 DEF RxLabel
    <3> QED
      BY <1>0, <1>00, <2>1, <2>3, <3>1, MoveKeeps, ZenonT(60) DEF ChanGoto
  <2> QED
    BY <1>8, <2>2, <2>3 DEF CheckSenders
<1>9. ASSUME NEW r \in Rx, NEW q \in Rx, CloneReceiver(r, q) PROVE ChannelInv'
  BY <1>0, <1>9, HandleKeeps, ZenonT(60) DEF CloneReceiver, ChanGoto
<1>10. ASSUME NEW r \in Rx, DropReceiver(r) PROVE ChannelInv'
  BY <1>0, <1>10, HandleKeeps, ZenonT(60) DEF DropReceiver, ChanGoto
<1>11. CASE UNCHANGED channelVars
  BY <1>11, ZenonT(60) DEF channelVars, ChannelInv, Delivered, Fifo, ClosedMeansDrained, Senders, Pushed
<1> QED
  BY <1>1, <1>2, <1>3, <1>4, <1>5, <1>6, <1>7, <1>8, <1>9, <1>10, <1>11
     DEF ChannelNext, TxStep, RxStep, ChannelFinished

\* send, recv and their try variants on any number of handles: messages come out
\* once and in the order they went in, the capacity is kept, and recv reports a
\* closed channel only when every sender is gone and, but for the push between
\* its two looks, nothing is left.
THEOREM DeliveredHolds == ChannelSpec => []Delivered
<1>1. ChannelInv => Delivered
  BY DEF ChannelInv
<1> QED
  BY <1>1, ChannelInitInv, ChannelStepInv, PTL DEF ChannelSpec

================================================================================
