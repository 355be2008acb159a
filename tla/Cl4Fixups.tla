----------------------------- MODULE Cl4Fixups -----------------------------
(* apply_cl4_fixups: CL4's __DATA is loaded with chained pointers, each of  *)
(* which holds its target as an offset in the image and the distance to the *)
(* next one of its page.  CL4 starts with the MMU off, so the loader turns  *)
(* every one into the physical address of its target.                       *)
(*                                                                          *)
(* Offsets and addresses count 8-byte words.  One step is one turn of a     *)
(* loop.                                                                    *)
EXTENDS Integers, Sequences

CONSTANTS
    DataOff, LinkOff,   \* 0x68c000, 0x6d4000: __DATA and __LINKEDIT in the image
    Low,                \* 2^32: what an authenticated pointer keeps of its target
    PageSize,           \* page_size
    None,               \* 0xFFFF: a page without a chain
    Heads,              \* blob_head when CL4 is placed
    Images              \* the images: see WellFormed

\* A word of __DATA as the walk reads it, in the fields of a raw pointer, or
\* as the address written into it.
Word(auth, next, low, high) == [auth |-> auth, next |-> next, low |-> low, high |-> high]
Rebased(a) == [addr |-> a]

Words == [auth : BOOLEAN, next : Nat, low : 0 .. Low - 1, high : Nat]

\* The pointers of page p.
InPage(im, p) == {i \in im.slots : p * PageSize <= i /\ i < (p + 1) * PageSize}

(* What CL4's linker makes, and the loader relies on.  An image is          *)
(* [fixups, segs, data, slots, target]: whether it has a __chain_fixups     *)
(* section, the segments it lists ([off, start] or None), the words of its  *)
(* __DATA, which of them are pointers, and what each points to.  One        *)
(* segment is __DATA; each page's chain begins at its first pointer and     *)
(* leads through all of them in order.                                      *)
WellFormed(im) ==
    /\ im.fixups \in BOOLEAN /\ (~im.fixups => im.slots = {})
    /\ im.data \in [0 .. LinkOff - DataOff - 1 -> Words]
    /\ im.slots \subseteq DOMAIN im.data
    /\ im.target \in [im.slots -> Nat]
    /\ \A i \in im.slots :
          LET w == im.data[i]
          IN  im.target[i] = IF w.auth THEN w.low ELSE w.low + Low * w.high
    /\ im.segs \in Seq({None} \cup [off : Nat, start : Seq(Nat \cup {None})])
    /\ im.fixups =>
        \E d \in 1 .. Len(im.segs) :
          /\ \A s \in 1 .. Len(im.segs) :
                im.segs[s] # None /\ im.segs[s].off = DataOff <=> s = d
          /\ LET start == im.segs[d].start
             IN  /\ \A i \in im.slots : i < Len(start) * PageSize
                 /\ \A p \in 1 .. Len(start) :
                      /\ start[p] = None <=> InPage(im, p - 1) = {}
                      /\ start[p] # None =>
                           /\ (p - 1) * PageSize + start[p] \in InPage(im, p - 1)
                           /\ \A i \in InPage(im, p - 1) : (p - 1) * PageSize + start[p] <= i
                      /\ \A i \in InPage(im, p - 1) :
                           LET next == im.data[i].next
                           IN  IF next = 0
                               THEN \A j \in InPage(im, p - 1) : j <= i
                               ELSE /\ i + next \in InPage(im, p - 1)
                                    /\ \A j \in InPage(im, p - 1) : j <= i \/ i + next <= j

ASSUME FixupsAssumption ==
    /\ DataOff \in Nat /\ LinkOff \in Nat /\ DataOff < LinkOff
    /\ Low \in Nat \ {0} /\ PageSize \in Nat \ {0}
    /\ None \notin Nat /\ None \notin [off : Nat, start : Seq(Nat \cup {None})]
    /\ Heads \subseteq Nat

ASSUME ImagesAssumption == \A im \in Images : WellFormed(im)

VARIABLES
    im,            \* the image, chosen at the start
    data,          \* __DATA in memory
    rx, rw, le,    \* cl4_rx_phys, cl4_rw_phys, cl4_le_phys
    walk,          \* the loop: segments, pages, the pointers of a page; done
    sg, pi, off    \* its counters

fixvars == <<im, data, rx, rw, le, walk, sg, pi, off>>

-----------------------------------------------------------------------------
\* The 32 low bits of an authenticated pointer, the 43 low bits of a plain one.
Target(raw) == IF raw.auth THEN raw.low ELSE raw.low + Low * raw.high

\* A bug: __LINKEDIT is taken to begin where __DATA does.
PhysShort(t) ==
    IF t < DataOff THEN rx + t
    ELSE IF t < LinkOff THEN rw + (t - DataOff)
    ELSE le + (t - DataOff)

\* Where the loader put what is at offset t of the image.
Phys(t) ==
    IF t < DataOff THEN rx + t
    ELSE IF t < LinkOff THEN rw + (t - DataOff)
    ELSE le + (t - LinkOff)

\* __TEXT, __DATA and __LINKEDIT of an image are pushed one after the other.
FixInit(image) ==
    /\ im = image
    /\ data = im.data
    /\ rx \in Heads
    /\ rw = rx + DataOff
    /\ le = rw + (LinkOff - DataOff)
    /\ walk = IF im.fixups THEN "segs" ELSE "done"
    /\ sg = 1 /\ pi = 0 /\ off = 0

\* The next segment that has chains and is __DATA, or the end.
NextSegment ==
    /\ walk = "segs"
    /\ IF sg > Len(im.segs) THEN walk' = "done" /\ UNCHANGED sg
       ELSE IF im.segs[sg] = None \/ im.segs[sg].off # DataOff
       THEN sg' = sg + 1 /\ UNCHANGED walk
       ELSE walk' = "pages" /\ UNCHANGED sg
    /\ pi' = 0
    /\ UNCHANGED <<im, data, rx, rw, le, off>>

NextPage ==
    /\ walk = "pages"
    /\ IF pi >= Len(im.segs[sg].start)
       THEN walk' = "segs" /\ sg' = sg + 1 /\ UNCHANGED <<pi, off>>
       ELSE IF im.segs[sg].start[pi + 1] = None
       THEN pi' = pi + 1 /\ UNCHANGED <<walk, sg, off>>
       ELSE /\ walk' = "chain" /\ off' = pi * PageSize + im.segs[sg].start[pi + 1]
            /\ UNCHANGED <<sg, pi>>
    /\ UNCHANGED <<im, data, rx, rw, le>>

\* One pointer of a chain, and the way to the next.
Rebase ==
    /\ walk = "chain"
    /\ LET raw == data[off]
       IN  /\ data' = [data EXCEPT ![off] = Rebased(Phys(Target(raw)))]
           /\ IF raw.next = 0 THEN walk' = "pages" /\ pi' = pi + 1 /\ UNCHANGED off
              ELSE off' = off + raw.next /\ UNCHANGED <<walk, pi>>
    /\ UNCHANGED <<im, rx, rw, le, sg>>

FixNext == NextSegment \/ NextPage \/ Rebase

-----------------------------------------------------------------------------
FixTypeOK ==
    /\ rx \in Nat /\ rw \in Nat /\ le \in Nat
    /\ walk \in {"segs", "pages", "chain", "done"}
    /\ sg \in 1 .. Len(im.segs) + 1
    /\ pi \in Nat /\ off \in Nat
    /\ DOMAIN data = DOMAIN im.data
    /\ walk \in {"pages", "chain"} =>
          /\ sg <= Len(im.segs) /\ im.segs[sg] # None
          /\ pi <= Len(im.segs[sg].start)

(* "Contiguous layout -> uniform physical base: new = rx_phys +             *)
(* target_offset": when the walk has ended every pointer of __DATA holds    *)
(* the address of its target in the one block CL4 was placed in, also at    *)
(* the boundaries of its segments.  All along, a word that is no pointer    *)
(* is as it was and no pointer is rebased twice.                            *)
PointersRebased ==
    /\ \A i \in DOMAIN im.data \ im.slots : data[i] = im.data[i]
    /\ \A i \in im.slots : data[i] \in {im.data[i], Rebased(rx + im.target[i])}
    /\ walk = "done" => \A i \in im.slots : data[i] = Rebased(rx + im.target[i])
=============================================================================
