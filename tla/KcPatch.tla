------------------------------ MODULE KcPatch ------------------------------
(* The two kernelcache patchers that let darwin-vm mount a plain root       *)
(* volume, and the read-only verifier of their anchors, as functions of the *)
(* file.  Each looks its anchors up one after the other in the words as the *)
(* patches before it have left them.                                        *)
(*                                                                          *)
(* A tool's result is [w, hit, sites]: the words after it, the patches it   *)
(* reports as applied (or, in a dry run, as resolved) and, for each, the    *)
(* word it found.                                                           *)
EXTENDS KcImage, SequencesExt

CONSTANT Img4Needles   \* the error strings of AppleImage4, in patching order

AppleImage4 == "com.apple.security.AppleImage4"
Image4 == "com.apple.security.Image4"
Apfs == "com.apple.filesystems.apfs"
Kernel == "kernel"

Untouched(w) == [w |-> w, hit |-> <<>>, sites |-> <<>>]

Hit(r, name, site) ==
    [r EXCEPT !.hit = Append(@, name), !.sites = Append(@, site)]

-----------------------------------------------------------------------------
\* One function found by its string and stubbed, if every link resolves.
PatchByString(r, kexts, needle) ==
    LET f == FunctionOf(r.w, kexts, AppleImage4, needle)
    IN  IF f = 0 THEN r
        ELSE [Hit(r, needle, f) EXCEPT !.w = StubFunction(@, f)]

-----------------------------------------------------------------------------
\* A bug: a dry run is content with the reference and does not walk back.
PatchApfsDryAtXref(r, kexts, needle, dry) ==
    LET x == Xref(r.w, kexts, Apfs, needle)
        f == FunctionOf(r.w, kexts, Apfs, needle)
    IN  CASE x > 0 /\ dry -> Hit(r, needle, x)
          [] f > 0 /\ ~dry -> [Hit(r, needle, f) EXCEPT !.w = StubFunction(@, f)]
          [] OTHER -> r

\* A function of apfs stubbed to return 0, or only reported in a dry run.
PatchApfs(r, kexts, needle, dry) ==
    LET f == FunctionOf(r.w, kexts, Apfs, needle)
    IN  CASE f = 0 -> r
          [] f > 0 /\ dry -> Hit(r, needle, f)
          [] OTHER -> [Hit(r, needle, f) EXCEPT !.w = StubFunction(@, f)]

SealIsBroken == "authapfs_seal_is_broken"
AuthRequired == "is_root_hash_authentication_required"
AuthRequiredIos == "is_root_hash_authentication_required_ios"
RootvpPanic == "rootvp not authenticated after mounting"
AsmbNode == "unable to setup /chosen/asmb node"

ASSUME KcPatchAssumption ==
    /\ \A i, j \in DOMAIN Img4Needles : Img4Needles[i] = Img4Needles[j] => i = j
    /\ Img4Needles \in Seq(STRING \ {SealIsBroken, AuthRequired, AuthRequiredIos,
                                   RootvpPanic, AsmbNode})

\* The iOS predicate is preferred; the generic one is tried if it is missing.
PatchVfsopMountAuth(r, kexts, dry) ==
    LET ios == PatchApfs(r, kexts, AuthRequiredIos, dry)
    IN  IF ios # r THEN ios ELSE PatchApfs(r, kexts, AuthRequired, dry)

\* A gate overwritten by NOP, or only reported in a dry run.
PatchGate(r, name, g, dry) ==
    CASE g = 0 -> r
      [] g > 0 /\ dry -> Hit(r, name, g)
      [] OTHER -> [Hit(r, name, g) EXCEPT !.w[g] = NOP]

\* The panic string among those of the kernel's own __TEXT.  Here the address
\* is the needle's; the format begins with it.
KernelString(kexts) ==
    IF HasSegments(kexts, Kernel) THEN StringHolding(kexts[Kernel].strs, RootvpPanic)
    ELSE ""

\* The gate that jumps into the panic block of bsd_init.
BsdInitGate(w, kexts) ==
    LET s == KernelString(kexts)
        x == IF s = "" THEN 0 ELSE FindAdrpAddXref(w, kexts[Kernel], s)
    IN  IF x = 0 THEN 0 ELSE FindBranchInto(w, kexts[Kernel], x)

AsmbGate(w, kexts) ==
    LET x == Xref(w, kexts, Image4, AsmbNode)
    IN  IF x = 0 THEN 0 ELSE GateBefore(w, x)

PatchBsdInitRootauth(r, kexts, dry) ==
    PatchGate(r, RootvpPanic, BsdInitGate(r.w, kexts), dry)

PatchImage4AsmbSetup(r, kexts, dry) ==
    PatchGate(r, AsmbNode, AsmbGate(r.w, kexts), dry)

\* The root-authentication gates of apfs and of the kernel.  The /chosen/asmb
\* gate is left alone unless asked for; a dry run changes no word.
Ssv(w, kexts, dry, withAsmb) ==
    LET seal == PatchApfs(Untouched(w), kexts, SealIsBroken, dry)
        auth == PatchVfsopMountAuth(seal, kexts, dry)
        root == PatchBsdInitRootauth(auth, kexts, dry)
    IN  IF withAsmb THEN PatchImage4AsmbSetup(root, kexts, dry) ELSE root

-----------------------------------------------------------------------------
\* Where each anchor of both patchers resolves in one and the same file.
VerifiedSites(w, kexts) ==
    LET ios == FunctionOf(w, kexts, Apfs, AuthRequiredIos)
    IN  [n \in Range(Img4Needles) \cup {AsmbNode, SealIsBroken, AuthRequired, RootvpPanic} |->
           CASE n = AsmbNode -> AsmbGate(w, kexts)
             [] n = SealIsBroken -> FunctionOf(w, kexts, Apfs, SealIsBroken)
             [] n = AuthRequired ->
                   IF ios # 0 THEN ios ELSE FunctionOf(w, kexts, Apfs, AuthRequired)
             [] n = RootvpPanic -> BsdInitGate(w, kexts)
             [] OTHER -> FunctionOf(w, kexts, AppleImage4, n)]

\* The verifier's verdict: every anchor resolves.
Verify(w, kexts) == \A n \in DOMAIN VerifiedSites(w, kexts) :
                        VerifiedSites(w, kexts)[n] # 0
=============================================================================
