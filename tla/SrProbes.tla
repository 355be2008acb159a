------------------------------ MODULE SrProbes ------------------------------
(* The diagnostic patchers of the shared-region code.  Three start from the  *)
(* trace message of shared_region_check_np and change what lies around it:   *)
(* the error numbers check_np returns, the function it calls just before,    *)
(* the trace level it compares.  The fourth stubs any function by a string.  *)
(*                                                                           *)
(* An image is [w, mem, strs, seg]: the words of KcImage, the initialized    *)
(* globals by address, the strings of the file, and the code segment (<<>>   *)
(* when the file has none).  A tool's result is [ok, img].                   *)
EXTENDS KcImage

CONSTANT Reach   \* how many words each scan looks at: [walk, ret, call, level, stub]

ASSUME ReachAssumption ==
    Reach \in [walk : Nat, ret : Nat, call : Nat, level : Nat, stub : Nat]

Movz(imm) == Branch("movz", imm)        \* movz w?, #imm
Bl(f) == Branch("bl", f)
MOV_X8_X0 == Word("mov8")
BTI_C == Word("bti")
AdrpPage(r, page) == [op |-> "adrpg", str |-> r, to |-> page]
Ldr(r, disp) == [op |-> "ldr", str |-> r, to |-> disp]

ANCHOR == "check_np(0x%llx) vm_shared_region_auth_remap() failed"
ENOMEM == 12

Refused(img) == [ok |-> FALSE, img |-> img]
Written(img, w) == [ok |-> TRUE, img |-> [img EXCEPT !.w = w]]

\* The first load of the string, 0 without code, string or load.
AnchorXref(img, s) ==
    IF img.seg = <<>> \/ s \notin img.strs THEN 0 ELSE FindAdrpAddXref(img.w, img.seg, s)

-----------------------------------------------------------------------------
\* Only a signed prologue is looked for.
WalkBackPrologue(w, x) == Nearest({i \in 1 .. x : i > x - Reach.walk /\ w[i] = PACIBSP})

\* A bug: the function is taken to end at its first return.
FunctionEndEarly(w, fn, x) ==
    LET rets == {i \in fn .. Len(w) : w[i] \in {RET, RETAB}}
    IN  IF rets = {} THEN x - 1 ELSE Earliest(rets)

\* The last word of the function: the first return after the message, or the
\* word before the message if none is near.
FunctionEnd(w, fn, x) ==
    LET rets == {i \in x .. Len(w) - 1 : i < x + Reach.ret /\ w[i] \in {RET, RETAB}}
    IN  IF rets = {} THEN x - 1 ELSE Earliest(rets)

\* A bug: the table is entered one too late.
NewErrnoShifted(i) == IF i < 5 THEN <<12, 90, 91, 92, 93>>[i + 1] ELSE 99

NewErrno(i) == IF i <= 5 THEN <<12, 90, 91, 92, 93>>[i] ELSE 99

\* Every ENOMEM of check_np but the first becomes a number of its own.
CheckNpErrno(img) ==
    LET x == AnchorXref(img, ANCHOR)
        fn == IF x = 0 THEN 0 ELSE WalkBackPrologue(img.w, x)
        sites == {i \in fn .. FunctionEnd(img.w, fn, x) : img.w[i] = Movz(ENOMEM)}
        rank(i) == Cardinality({j \in sites : j <= i})
    IN  IF fn = 0 THEN Refused(img)
        ELSE IF Cardinality(sites) < 2 THEN Refused(img)
        ELSE Written(img, [i \in DOMAIN img.w |->
                              IF i \in sites THEN Movz(NewErrno(rank(i))) ELSE img.w[i]])

-----------------------------------------------------------------------------
\* Make the function at f return 0, behind its landing pad if it has one.
StubEntry(w, f) ==
    CASE w[f] = PACIBSP -> [w EXCEPT ![f + 1] = MOV_X0_0, ![f + 2] = RETAB]
      [] w[f] = BTI_C   -> [w EXCEPT ![f + 1] = MOV_X0_0, ![f + 2] = RET]
      [] OTHER          -> [w EXCEPT ![f] = MOV_X0_0, ![f + 1] = RET]

\* A bug: the nearest call, whatever becomes of its result.
RemapCallAny(img, x) ==
    Nearest({i \in img.seg.lo + 1 .. x - 1 : x - i < Reach.call /\ img.w[i].op = "bl"})

\* The nearest call before the message whose result is kept in x8.
RemapCall(img, x) ==
    Nearest({i \in img.seg.lo + 1 .. x - 1 :
                x - i < Reach.call /\ img.w[i].op = "bl" /\ img.w[i + 1] = MOV_X8_X0})

SkipAuthRemap(img) ==
    LET x == AnchorXref(img, ANCHOR)
        call == IF x = 0 THEN 0 ELSE RemapCall(img, x)
        f == IF call = 0 THEN 0 ELSE img.w[call].to
    IN  IF f \notin DOMAIN img.w THEN Refused(img) ELSE Written(img, StubEntry(img.w, f))

-----------------------------------------------------------------------------
\* The globals loaded in the window before x, by the load's place: the page is
\* the last ADRP of the base register in the window, whatever came in between.
LevelCandidates(img, x) ==
    LET win == {i \in img.seg.lo .. x - 1 : i >= x - Reach.level}
        page(i) == Nearest({j \in win : j < i /\ img.w[j].op = "adrpg"
                                              /\ img.w[j].str = img.w[i].str})
        address(i) == img.w[page(i)].to + img.w[i].to
    IN  {<<i, address(i)>> : i \in {k \in win : /\ img.w[k].op = "ldr" /\ page(k) > 0
                                               /\ address(k) \in DOMAIN img.mem
                                               /\ img.mem[address(k)] <= 8}}

\* The last candidate that holds a small number is taken for the trace level.
SrTrace(img) ==
    LET x == AnchorXref(img, ANCHOR)
        cands == IF x = 0 THEN {} ELSE LevelCandidates(img, x)
        last == CHOOSE c \in cands : \A d \in cands : d[1] <= c[1]
    IN  IF cands = {} THEN Refused(img)
        ELSE [ok |-> TRUE, img |-> [img EXCEPT !.mem[last[2]] = 3]]

-----------------------------------------------------------------------------
\* Back to a landing pad, or to a return that a landing pad or an STP follows.
WalkBackToLanding(w, x) ==
    LET seen == {i \in 1 .. x : i > x - Reach.stub}
        ends == {i \in seen : /\ w[i] \in {RET, RETAB}
                              /\ w[i + 1].op \in {"pacibsp", "bti", "stp"}}
        stop == Nearest({i \in seen : w[i] \in {PACIBSP, BTI_C}} \cup ends)
    IN  IF stop \in ends THEN stop + 1 ELSE stop

StubFnByString(img, s) ==
    LET x == AnchorXref(img, s)
        f == IF x = 0 THEN 0 ELSE WalkBackToLanding(img.w, x)
    IN  IF f = 0 THEN Refused(img) ELSE Written(img, StubEntry(img.w, f))
=============================================================================
