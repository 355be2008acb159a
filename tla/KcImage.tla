------------------------------ MODULE KcImage ------------------------------
(* The kernelcache as the patchers see it, and the finders they share.      *)
(*                                                                          *)
(* An image is a sequence of instruction words and a table of kexts.  A     *)
(* word is abstracted to what the finders tell apart: its kind, the string  *)
(* an ADRP/ADD pair forms the address of, and the target of a conditional   *)
(* branch.  Addresses are word indices: the code scales them by 4 and       *)
(* converts between file offsets and virtual addresses, one to one.         *)
EXTENDS Integers, Sequences, FiniteSets

CONSTANTS MaxBack,    \* words _walk_back_to_prologue looks at
          Window,     \* words _find_branch_into looks at
          BlockSpan,  \* words before a panic string that are still its block
          AsmbWindow, \* words before the /chosen/asmb log that may hold its gate
          Holds       \* needle -> the strings that contain it

ASSUME KcImageAssumption ==
    /\ {MaxBack, Window, BlockSpan, AsmbWindow} \subseteq Nat \ {0}
    /\ \A n \in DOMAIN Holds : n \in Holds[n]

Word(op) == [op |-> op, str |-> "", to |-> 0]
Adrp(s) == [op |-> "adrp", str |-> s, to |-> 0]
Add(s) == [op |-> "add", str |-> s, to |-> 0]
Branch(op, t) == [op |-> op, str |-> "", to |-> t]

PACIBSP == Word("pacibsp")
MOV_X0_0 == Word("mov0")
RET == Word("ret")
RETAB == Word("retab")
NOP == Word("nop")

\* The kinds the gate finders accept; "bcc" stands for the b.<cond> they do not.
GateOps == {"cbz", "cbnz", "tbz", "tbnz"}

-----------------------------------------------------------------------------
\* The largest and smallest member of a set of indices, 0 when there is none:
\* how each scan reports the first hit it meets, and -1.
Nearest(S) == IF S = {} THEN 0 ELSE CHOOSE i \in S : \A j \in S : j <= i
Earliest(S) == IF S = {} THEN 0 ELSE CHOOSE i \in S : \A j \in S : i <= j

\* PACIBSP, an STP based on SP, or SUB sp, sp, #imm.
IsPrologueStart(w) == w.op \in {"pacibsp", "stp", "subsp"}

\* The string of a segment the first match of the needle lies in, "" if none.
StringHolding(strs, needle) ==
    LET i == Earliest({k \in DOMAIN strs : strs[k] \in Holds[needle]})
    IN  IF i = 0 THEN "" ELSE strs[i]

\* The first ADRP+ADD pair forming the string's address.  The scan stops two
\* words early: range(0, len(code) - 8, 4) leaves the last pair out.
FindAdrpAddXref(w, seg, s) ==
    Earliest({i \in seg.lo .. seg.hi - 2 : w[i] = Adrp(s) /\ w[i + 1] = Add(s)})

\* A bug: stop at the first STP, which is one of the callee-saved pairs.
WalkBackToFramePair(w, x) ==
    Nearest({i \in 1 .. x : i > x - MaxBack /\ w[i].op \in {"pacibsp", "stp"}})

\* Walk back from x to the nearest PACIBSP, or to the nearest return that a
\* prologue word follows: the entry is that word.  A return that none follows
\* is taken for an early exit and passed over.  Segment bounds play no part.
WalkBackToPrologue(w, x) ==
    LET seen == {i \in 1 .. x : i > x - MaxBack}
        ends == {i \in seen : /\ w[i] \in {RET, RETAB}
                              /\ IsPrologueStart(w[i + 1])}
        stop == Nearest({i \in seen : w[i] = PACIBSP} \cup ends)
    IN  IF stop \in ends THEN stop + 1 ELSE stop

\* A bug: a stub padded with NOPs, longer than the function may be.
StubFunctionPadded(w, f) ==
    [i \in DOMAIN w |-> CASE i = f -> MOV_X0_0
                          [] i = f + 1 -> RET
                          [] i \in f + 2 .. f + 12 -> NOP
                          [] OTHER -> w[i]]

\* Overwrite the entry at f so that the function returns 0.
StubFunction(w, f) ==
    IF w[f] = PACIBSP
    THEN [w EXCEPT ![f + 1] = MOV_X0_0, ![f + 2] = RETAB]
    ELSE [w EXCEPT ![f] = MOV_X0_0, ![f + 1] = RET]

\* The nearest gate before the panic-string load at x that jumps into its block.
FindBranchInto(w, seg, x) ==
    Nearest({i \in seg.lo .. x - 1 : /\ x - i < Window
                                     /\ w[i].op \in GateOps
                                     /\ w[i].to \in x - BlockSpan .. x + 1})

\* The nearest gate among the words just before x, wherever it jumps to.
GateBefore(w, x) ==
    Nearest({i \in 1 .. x - 1 : x - i <= AsmbWindow /\ w[i].op \in GateOps})

-----------------------------------------------------------------------------
\* kexts maps a bundle name to [lo, hi, strs, segs]: the range of its code, the
\* strings of its __TEXT in order, and whether both segments are there.
HasSegments(kexts, kext) == kext \in DOMAIN kexts /\ kexts[kext].segs

\* Where the chain string -> xref ends in a kext, 0 when a link is missing: the
\* kext, one of its __TEXT and __TEXT_EXEC segments, the string or the pair.
Xref(w, kexts, kext, needle) ==
    IF ~HasSegments(kexts, kext) THEN 0
    ELSE LET s == StringHolding(kexts[kext].strs, needle)
         IN  IF s = "" THEN 0 ELSE FindAdrpAddXref(w, kexts[kext], s)

\* The entry of the function that loads the string, 0 when none is found.
FunctionOf(w, kexts, kext, needle) ==
    LET x == Xref(w, kexts, kext, needle)
    IN  IF x = 0 THEN 0 ELSE WalkBackToPrologue(w, x)
=============================================================================
