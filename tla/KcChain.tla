------------------------------ MODULE KcChain ------------------------------
(* darwinvm_patch_kc.sh: the runner that copies a kernelcache and takes the *)
(* copy through the Image4 patcher, a dry run of the root-authentication    *)
(* patcher, the operator's answer and the real run.  It stops at the first  *)
(* stage that resolves nothing ("set -e"), and may be started again.        *)
EXTENDS KcPatch

CONSTANTS Images,   \* the kernelcaches the runner may be given
          MaxRuns   \* bound: times the runner is started

ASSUME KcChainAssumption == MaxRuns \in Nat \ {0}

\* An image is [w, kexts] and what its code really is: fns, the functions, each
\* [entry, last, anchored], and block, the panic block.
Body(f) == f.entry .. f.last
CodeOf(kext) == kext.lo .. kext.hi

Instructions == [op : STRING, str : STRING, to : Nat]

\* The linker keeps the code of a kext together, and that of a function.
LaidOut(img) ==
    /\ img.w \in Seq(Instructions)
    /\ \A f \in img.fns : f.last \in 1 .. Len(img.w) /\ f.entry \in 1 .. f.last
    /\ \A f, g \in img.fns : f # g => Body(f) \cap Body(g) = {}
    /\ \A k \in DOMAIN img.kexts :
          /\ CodeOf(img.kexts[k]) \subseteq DOMAIN img.w
          /\ img.kexts[k].lo \in Nat \ {0} /\ img.kexts[k].hi \in Nat
          /\ \A f \in img.fns : \/ Body(f) \subseteq CodeOf(img.kexts[k])
                                \/ Body(f) \cap CodeOf(img.kexts[k]) = {}
          /\ \A j \in DOMAIN img.kexts \ {k} :
                CodeOf(img.kexts[k]) \cap CodeOf(img.kexts[j]) = {}

\* What "the true function entry" of the load at x is told by: a prologue, signed
\* or behind a return, and nothing up to the load that looks like another.
Recognizable(w, f, x) ==
    /\ f.entry < x /\ x < f.last
    /\ IsPrologueStart(w[f.entry])
    /\ w[f.entry] = PACIBSP \/ (f.entry > 1 /\ w[f.entry - 1] \in {RET, RETAB})
    /\ \A i \in f.entry + 1 .. x : w[i] # PACIBSP
    /\ \A i \in f.entry .. x : w[i] \in {RET, RETAB} => ~IsPrologueStart(w[i + 1])

\* The anchors whose functions are stubbed.
Anchors == {<<AppleImage4, n>> : n \in Range(Img4Needles)}
           \cup {<<Apfs, n>> : n \in {SealIsBroken, AuthRequired, AuthRequiredIos}}

LoadOf(img, a) == Xref(img.w, img.kexts, a[1], a[2])

\* No function holds two of them, but for a predicate and its iOS variant, of
\* which one is looked up only if the other is not found.
OneAnchorEach(img) ==
    \A a, b \in Anchors :
        /\ a # b /\ {a, b} # {<<Apfs, AuthRequired>>, <<Apfs, AuthRequiredIos>>}
        /\ LoadOf(img, a) # 0 /\ LoadOf(img, b) # 0
        => \A f \in img.fns : ~({LoadOf(img, a), LoadOf(img, b)} \subseteq Body(f))

\* The gates that jump to where the block of the load at x may start.
IntoBlock(w, x) ==
    {i \in DOMAIN w : w[i].op \in GateOps /\ w[i].to \in x - BlockSpan .. x + 1}

ASSUME KernelcachesAssumption ==
    \A img \in Images :
        /\ LaidOut(img)
        /\ \A a \in Anchors : LoadOf(img, a) # 0 =>
              \E f \in img.fns : f.anchored /\ Recognizable(img.w, f, LoadOf(img, a))
        \* The panic block is entered at its start only.
        /\ LET x == Xref(img.w, img.kexts, Kernel, RootvpPanic)
           IN  \A g \in IntoBlock(img.w, x) : x # 0 => img.w[g].to = img.block

VARIABLES src,      \* the image
          backup,   \* the words of SRC.orig.STAMP, <<>> before there are any
          out,      \* the words of the output file, likewise
          stage,    \* the step the runner has come to
          img4,     \* what the Image4 patcher has in memory and reported
          tried,    \* the needles it has tried
          dryRun,   \* what the dry run reported
          ssv,      \* what the root-authentication patcher reported
          runs      \* times the runner was started

vars == <<src, backup, out, stage, img4, tried, dryRun, ssv, runs>>

Stopped == {"idle", "done", "aborted", "failed"}
Nothing == Untouched(<<>>)

Init ==
    /\ src \in Images
    /\ backup = <<>> /\ out = <<>>
    /\ stage = "idle"
    /\ img4 = Nothing /\ dryRun = Nothing /\ ssv = Nothing
    /\ tried = 0 /\ runs = 0

\* Start: two copies of the source, the second to work on, which the Image4
\* patcher reads.
Copy ==
    /\ stage \in Stopped
    /\ runs < MaxRuns
    /\ runs' = runs + 1
    /\ backup' = src.w
    /\ out' = src.w
    /\ stage' = "copied"
    /\ img4' = Untouched(src.w) /\ dryRun' = Nothing /\ ssv' = Nothing
    /\ tried' = 0
    /\ UNCHANGED src

\* Stage 1: one turn of its loop over the nonce functions of AppleImage4.
Img4Needle ==
    /\ stage = "copied" /\ tried < Len(Img4Needles)
    /\ tried' = tried + 1
    /\ img4' = PatchByString(img4, src.kexts, Img4Needles[tried'])
    /\ UNCHANGED <<src, backup, out, stage, dryRun, ssv, runs>>

\* Its end: it fails, and leaves the file alone, only if it applied nothing.
Img4Stage ==
    /\ stage = "copied" /\ tried = Len(Img4Needles)
    /\ IF img4.hit = <<>>
       THEN stage' = "failed" /\ UNCHANGED out
       ELSE stage' = "img4" /\ out' = img4.w
    /\ UNCHANGED <<src, backup, img4, tried, dryRun, ssv, runs>>

\* A bug: the dry run is not told to be dry.
DryRunStageWet ==
    /\ stage = "img4"
    /\ dryRun' = Ssv(out, src.kexts, FALSE, FALSE)
    /\ stage' = IF dryRun'.hit = <<>> THEN "failed" ELSE "dry"
    /\ out' = dryRun'.w
    /\ UNCHANGED <<src, backup, img4, tried, ssv, runs>>

\* Stage 2 with --dry-run, which writes no file.
DryRunStage ==
    /\ stage = "img4"
    /\ dryRun' = Ssv(out, src.kexts, TRUE, FALSE)
    /\ stage' = IF dryRun'.hit = <<>> THEN "failed" ELSE "dry"
    /\ UNCHANGED <<src, backup, out, img4, tried, ssv, runs>>

\* The operator agrees, or has passed -y.
Agree ==
    /\ stage = "dry"
    /\ stage' = "agreed"
    /\ UNCHANGED <<src, backup, out, img4, tried, dryRun, ssv, runs>>

\* Any other answer ends the runner, "img4 already applied".
Abort ==
    /\ stage = "dry"
    /\ stage' = "aborted"
    /\ UNCHANGED <<src, backup, out, img4, tried, dryRun, ssv, runs>>

\* Stage 2, for real.
ApplyStage ==
    /\ stage = "agreed"
    /\ ssv' = Ssv(out, src.kexts, FALSE, FALSE)
    /\ IF ssv'.hit = <<>>
       THEN stage' = "failed" /\ UNCHANGED out
       ELSE stage' = "done" /\ out' = ssv'.w
    /\ UNCHANGED <<src, backup, img4, tried, dryRun, runs>>

Next ==
    \/ Copy
    \/ Img4Needle
    \/ Img4Stage
    \/ DryRunStage
    \/ Agree
    \/ Abort
    \/ ApplyStage

Spec == Init /\ [][Next]_vars

-----------------------------------------------------------------------------
Changed == {i \in DOMAIN out : out[i] # src.w[i]}

\* The first three words of a function that names one of the anchors, and the
\* gates into the panic block: the words the patchers mean to change.
Intended ==
    (UNION {f.entry .. f.entry + 2 : f \in {g \in src.fns : g.anchored}})
    \cup {i \in DOMAIN src.w : src.w[i].op \in GateOps /\ src.w[i].to = src.block}

(* "Walk backwards from xref to the true function entry": whatever shape a  *)
(* function and its neighbours have (signed or not, frame saved first or    *)
(* last, an early return before the string), the chain changes nothing but  *)
(* entries of functions that hold an anchor and gates of the panic block.   *)
StubsAtEntry == Changed \subseteq Intended

\* The real run patches the sites the dry run showed.
DryRunPredicts == stage = "done" => ssv.hit = dryRun.hit /\ ssv.sites = dryRun.sites

\* A kernelcache whose every anchor verifies is patched completely, and at the
\* sites the verifier printed.
VerifyPredicts ==
    stage = "done" /\ Verify(src.w, src.kexts) =>
        /\ Range(img4.hit) = Range(Img4Needles)
        /\ Len(ssv.hit) = 3
        /\ Range(img4.sites) \cup Range(ssv.sites)
             \subseteq Range(VerifiedSites(src.w, src.kexts))

(* What the operator agreed to is what is done, and what the verifier said  *)
(* of the untouched file holds, though each patch is looked up in words the *)
(* ones before it have already changed.                                     *)
SitesPredicted == DryRunPredicts /\ VerifyPredicts

(* Refusing, or a stage that finds nothing, leaves a file in which only the *)
(* Image4 kext differs from the source; the backup is the source itself.    *)
RefusalLeavesImg4Only ==
    /\ backup \in {<<>>, src.w}
    /\ stage \in {"img4", "dry", "aborted", "failed"} =>
         \A i \in Changed : /\ AppleImage4 \in DOMAIN src.kexts
                            /\ i \in src.kexts[AppleImage4].lo
                                       .. src.kexts[AppleImage4].hi
=============================================================================
