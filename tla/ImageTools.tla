----------------------------- MODULE ImageTools -----------------------------
(* The tools for what is loaded beside the kernel: the shared cache's slide, *)
(* the trust cache, and the memory-disk driver of the kernelcache that has   *)
(* to report an image's size.                                                *)
EXTENDS Integers, Sequences, FiniteSets, Functions

CONSTANTS Narrow, Wide,   \* 2^32 and 2^64: one past a w and an x register
          PageSize        \* 2^12: bytes in a page

ASSUME ImageToolsAssumption ==
    /\ {Narrow, Wide, PageSize} \subseteq Nat \ {0}
    /\ 2 * Narrow * PageSize <= Wide
    /\ 3 < Narrow

-----------------------------------------------------------------------------
(* cfw_patch_dsc_maxslide.py.  A cache header is [span, slide]; region is    *)
(* the size of the kernel's shared region.                                   *)

Fits(hdr, region) == hdr.span + hdr.slide <= region

\* A bug: the span alone is compared.
PatchDscMaxslideSpanOnly(hdr, region, dry, force) ==
    IF (hdr.span <= region /\ ~force) \/ hdr.slide = 0 THEN hdr
    ELSE [hdr EXCEPT !.slide = IF dry THEN @ ELSE 0]

\* The slide is cleared if the cache does not fit with it, or on demand.
PatchDscMaxslide(hdr, region, dry, force) ==
    IF (Fits(hdr, region) /\ ~force) \/ hdr.slide = 0 THEN hdr
    ELSE [hdr EXCEPT !.slide = IF dry THEN @ ELSE 0]

-----------------------------------------------------------------------------
(* darwinvm_gen_rootfs_trustcache.py.  A file of the root is [dir, kind,     *)
(* cdhash]: kind "macho", "link" (a symbolic one), "short" (under 4 bytes)   *)
(* or "data"; cdhash "" if codesign fails on it or names none.               *)

\* The chunks of the shared cache are validated as a whole.
WalkMachos(root) == {f \in root : f.dir # "com.apple.dyld" /\ f.kind = "macho"}

CdhashesOf(root) == {f.cdhash : f \in WalkMachos(root)} \ {""}

\* A bug: the hashes found take the place of those there were.
GenTrustcacheFresh(have, root) == CdhashesOf(root)

GenTrustcache(have, root) == have \cup CdhashesOf(root)

(* merge_cryptex_trustcache.sh, which stops at the first step that fails,    *)
(* but for the copy at its beginning, whose failure it swallows.  The files  *)
(* are [hashes, orig, saved, cx, tc, at]: all_hashes, its copy and whether   *)
(* there is one, the hashes of the cryptex, the cache built, and the step    *)
(* that comes next.                                                          *)

MergeCopy(f) == [f EXCEPT !.orig = f.hashes, !.saved = TRUE, !.at = "extract"]

\* What a failed copy can leave: an older one or none, or the part it got to.
MergeCopyFails(f) ==
    {[f EXCEPT !.at = "extract"]}
    \cup {[f EXCEPT !.orig = part, !.saved = TRUE, !.at = "extract"] : part \in SUBSET f.hashes}

\* ipsw's output; without any hash grep, and so the script, fails.
MergeExtract(f, found) ==
    [f EXCEPT !.cx = found, !.at = IF found = {} THEN "copy" ELSE "merge"]

\* A pipeline that has written its output when the lack of a copy fails it.
MergeSort(f) ==
    IF f.saved THEN [f EXCEPT !.hashes = f.orig \cup f.cx, !.at = "build"]
    ELSE [f EXCEPT !.hashes = f.cx, !.at = "copy"]

MergeBuild(f) == [f EXCEPT !.tc = f.hashes, !.at = "copy"]

-----------------------------------------------------------------------------
(* patch_md0_size.py.  The driver multiplies a page count, a word at offset  *)
(* 8 of its device entry, into bytes in a 32-bit register.  An instruction   *)
(* is [op, wide, d, n, m]: wide if it works on x registers; "lsl" shifts d   *)
(* by a page, "add" adds m, shifted by a page, to n.                         *)

\* The 32-bit shifts of a register that was loaded from the size field within
\* four instructions.
FindMdevSizeShiftSites(code) ==
    {i \in DOMAIN code :
        /\ ~code[i].wide
        /\ \/ code[i].op = "lsl" /\ code[i].d = code[i].n
           \/ code[i].op = "add" /\ code[i].d = code[i].m
        /\ \E j \in i - 4 .. i - 1 : /\ j \in DOMAIN code
                                     /\ code[j].op = "ldrsize"
                                     /\ code[j].d = code[i].d}

\* A bug: the block count's division stays as it was.
BuildPlanShallow(code) ==
    LET sites == FindMdevSizeShiftSites(code)
    IN  sites \cup {i + 1 : i \in {k \in sites : code[k].op = "add"}}

\* The sites, and behind an add the subtraction and division that use it.
BuildPlan(code) ==
    LET sites == FindMdevSizeShiftSites(code)
        adds == {i \in sites : code[i].op = "add"}
    IN  sites \cup {i \in {k + 1 : k \in adds} \cup {k + 2 : k \in adds} :
                        i \in DOMAIN code /\ code[i].op \in {"sub", "udiv"}}

WidenSizes(code) ==
    [i \in DOMAIN code |-> IF i \in BuildPlan(code) THEN [code[i] EXCEPT !.wide = TRUE]
                           ELSE code[i]]

\* The registers after one instruction; pages is the size field.
Step(regs, ins, pages) ==
    LET trunc(v) == v % (IF ins.wide THEN Wide ELSE Narrow)
        v == CASE ins.op = "ldrsize" -> pages
               [] ins.op = "lsl" -> regs[ins.n] * PageSize
               [] ins.op = "add" -> regs[ins.n] + regs[ins.m] * PageSize
               [] ins.op = "sub" -> regs[ins.n] - 1
               [] ins.op = "udiv" -> trunc(regs[ins.n]) \div regs[ins.m]
               [] OTHER -> regs[ins.d]
    IN  [regs EXCEPT ![ins.d] = trunc(v)]

\* What the driver computes for an image of this many pages.
Run(code, regs, pages) ==
    LET after[k \in 0 .. Len(code)] ==
            IF k = 0 THEN regs ELSE Step(after[k - 1], code[k], pages)
    IN  after[Len(code)]
=============================================================================
