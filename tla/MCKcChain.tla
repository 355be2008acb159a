----------------------------- MODULE MCKcChain -----------------------------
(* Kernelcaches small enough to enumerate.  Each is laid out as the linker  *)
(* lays one out: the code of AppleImage4, of apfs, of Image4 and of the     *)
(* kernel, each a run of functions with neighbours in front that the        *)
(* patchers have no business with.                                          *)
EXTENDS KcChain

Read == "failed to read nonce slot data"
Roll == "failed to roll supervisor nonce"
Slot == "failed to write slot after rolling"
MCNeedles == <<Read, Roll, Slot>>

\* Every string holds itself; the generic predicate's name is also part of the
\* iOS one's, so whichever comes first in the segment is found.
MCHolds == [s \in {Read, Roll, Slot, SealIsBroken, AuthRequiredIos, RootvpPanic,
                   AsmbNode} |-> {s}]
           @@ (AuthRequired :> {AuthRequired, AuthRequiredIos})

STP == Word("stp")
SUBSP == Word("subsp")
OTHER_ == Word("other")

\* A function that loads the strings ss one after the other.
Loads(ss) == FoldLeft(LAMBDA a, s : a \o <<Adrp(s), Add(s), OTHER_>>, <<>>, ss)

\* The prologues and epilogues compilers emit, with early returns and with a
\* body longer than the walk.
Shape(kind, ss) ==
    CASE kind = "pac" -> <<PACIBSP, SUBSP, STP, STP>> \o Loads(ss) \o <<RETAB>>
      [] kind = "pacEarly" -> <<PACIBSP, STP, OTHER_, RETAB, OTHER_>>
                                \o Loads(ss) \o <<RETAB>>
      [] kind = "frame" -> <<STP, STP>> \o Loads(ss) \o <<RET>>
      [] kind = "thin" -> <<STP>> \o Loads(ss) \o <<RET>>
      [] kind = "sub" -> <<SUBSP, STP>> \o Loads(ss) \o <<RET>>
      [] kind = "early" -> <<STP, OTHER_, RET, OTHER_>> \o Loads(ss) \o <<RET>>
      [] kind = "far" -> <<STP>> \o [i \in 1 .. 14 |-> OTHER_] \o Loads(ss) \o <<RET>>
      [] kind = "unused" -> <<STP, OTHER_, RET>>

\* bsd_init with one guard of its panic block.  The branch "skip" goes round an
\* inner step; the block is laid out after the return, cold code last.
Gate(kind) ==
    CASE kind = "none" -> OTHER_
      [] OTHER -> Branch(kind, 8)
BsdInit(kind) ==
    <<PACIBSP, STP, Gate(kind), Branch("cbz", 5), OTHER_, RETAB, OTHER_,
      OTHER_, Adrp(RootvpPanic), Add(RootvpPanic), OTHER_, OTHER_>>

\* The set-up of /chosen/asmb, which logs and goes on when it fails.
AsmbSetup == <<PACIBSP, STP, Branch("cbz", 6), Adrp(AsmbNode), Add(AsmbNode),
               OTHER_, RETAB>>

\* A piece of code: its words, with branches relative to its start, whether it
\* holds an anchor, and where its panic block starts (0: none).
Piece(w, anchored) == [w |-> w, anchored |-> anchored, block |-> 0]
Fn(kind, ss) == Piece(Shape(kind, ss), kind # "unused")
Neighbour == Piece(<<PACIBSP, STP, OTHER_, RETAB>>, FALSE)
PlainNeighbour == Piece(<<STP, OTHER_, OTHER_, RET>>, FALSE)

Place(img, p) ==
    LET base == Len(img.w)
    IN  [w |-> img.w \o [i \in DOMAIN p.w |->
                           IF p.w[i].to = 0 THEN p.w[i]
                           ELSE [p.w[i] EXCEPT !.to = @ + base]],
         fns |-> img.fns \cup {[entry |-> base + 1, last |-> base + Len(p.w),
                                 anchored |-> p.anchored]},
         block |-> IF p.block = 0 THEN img.block ELSE p.block + base]
Lay(img, ps) == FoldLeft(LAMBDA a, p : Place(a, p), img, ps)

\* A kernelcache from the functions of its two kexts and the kind of its gate.
Image(img4Fns, apfsFns, apfsStrs, segs, gate) ==
    LET none == [w |-> <<>>, fns |-> {}, block |-> 0]
        a == Lay(none, <<PlainNeighbour, Neighbour>> \o img4Fns)
        b == Lay(a, <<PlainNeighbour>> \o apfsFns)
        d == Lay(b, <<Piece(AsmbSetup, FALSE)>>)
        c == Lay(d, <<Neighbour, [Piece(BsdInit(gate), FALSE) EXCEPT !.block = 8]>>)
    IN  [w |-> c.w, fns |-> c.fns, block |-> c.block,
         kexts |-> (AppleImage4 :> [lo |-> 1, hi |-> Len(a.w),
                                    strs |-> MCNeedles, segs |-> TRUE])
                @@ (Apfs :> [lo |-> Len(a.w) + 1, hi |-> Len(b.w),
                             strs |-> apfsStrs, segs |-> segs])
                @@ (Image4 :> [lo |-> Len(b.w) + 1, hi |-> Len(d.w),
                               strs |-> <<AsmbNode>>, segs |-> TRUE])
                @@ (Kernel :> [lo |-> Len(d.w) + 1, hi |-> Len(c.w),
                               strs |-> <<RootvpPanic>>, segs |-> TRUE])]

Kinds == {"pac", "pacEarly", "frame", "thin", "sub", "early", "far", "unused"}
AllStrs == <<SealIsBroken, AuthRequiredIos, AuthRequired>>
StrOrders == {AllStrs, <<AuthRequired, SealIsBroken, AuthRequiredIos>>,
              <<SealIsBroken, AuthRequired>>, <<AuthRequiredIos>>}
ApfsFns(seal, ios, gen) == <<Fn(seal, <<SealIsBroken>>), Fn(ios, <<AuthRequiredIos>>),
                             Neighbour, Fn(gen, <<AuthRequired>>)>>
Img4Fns(read, roll, slot) == <<Fn(read, <<Read>>), Fn(roll, <<Roll>>), Fn(slot, <<Slot>>)>>

\* Every function holds one anchor at most; first the Image4 functions vary,
\* then those of apfs, then what is missing.
MCImages ==
    {Image(Img4Fns(read, roll, slot), ApfsFns("frame", "pac", "frame"), AllStrs,
           TRUE, "cbnz") : read \in Kinds, roll \in Kinds, slot \in {"pac", "thin"}}
    \cup
    {Image(Img4Fns("pac", "frame", "sub"), ApfsFns(seal, ios, gen), strs, TRUE, "tbz") :
        seal \in Kinds, ios \in Kinds, gen \in {"pac", "thin", "unused"},
        strs \in StrOrders}
    \cup
    {Image(Img4Fns(k, "unused", "unused"), ApfsFns("pac", "frame", "unused"), AllStrs,
           segs, gate) : k \in {"thin", "unused"}, segs \in BOOLEAN,
                         gate \in GateOps \cup {"bcc", "none"}}

\* What the proofs ask of a kernelcache.
ASSUME MCImagesAssumption == \A img \in MCImages : OneAnchorEach(img)

\* Two of the strings in one function: rolling a nonce writes its slot.
MCSharedImages ==
    {Image(<<Fn(read, <<Read>>), Fn(roll, <<Roll, Slot>>)>>,
           ApfsFns("pac", "pac", "pac"), AllStrs, TRUE, "cbnz") :
        read \in Kinds, roll \in Kinds}
=============================================================================
