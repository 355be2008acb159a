------------------------------ MODULE HostTools ------------------------------
(* The host's bench of file patchers.  One file lies on it: a kernelcache    *)
(* for the RTBuddy patchers, one for the shared-region probes, the header of *)
(* a shared cache, the trust cache's hashes, or the memory-disk driver.  Its *)
(* tools are run on it in any order.  Each reads the file, checks it, and    *)
(* writes the whole of it back or leaves it alone.                           *)
EXTENDS SrProbes, RtbuddyPatch, ImageTools

CONSTANTS Builds,    \* kernelcaches of the RTBuddy patchers
          Probed,    \* of the probes: [img, np, remap, fns, level], where np are
                     \* the words of check_np, remap those of the entry of
                     \* auth_remap, and fns those of each named function's entry
          Caches,    \* [hdr, region]
          HashRuns,  \* [hashes, old, root, cx]: the list, a copy of it left from
                     \* before (empty: none), the root volume, the cryptex
          Drivers,   \* [code, result]: result is "bytes" or "blocks", left in r0
          Named      \* strings the stub tool is given, in functions of their own

ASSUME BuildsAssumption == \A b \in Builds : b = [s \in Sites |-> b[s]]

ASSUME CachesAssumption == \A c \in Caches : /\ c.hdr \in [span : Nat, slide : Nat]
                                             /\ c.region \in Nat

-----------------------------------------------------------------------------
(* What the probes take for granted of a kernelcache that clang made.       *)

Returns == {RET, RETAB}

\* A function begins with a landing pad or an STP, and sets up its frame.
Begins(w, entry) ==
    \E f \in DOMAIN w :
        /\ entry = f .. f + 2 /\ f + 2 \in DOMAIN w
        /\ w[f] \in {PACIBSP, BTI_C} \/ w[f].op = "stp"
        /\ {w[f + 1].op, w[f + 2].op} \subseteq {"stp", "subsp", "other"}

\* check_np goes from its PACIBSP to the first return behind its message at x.
\* The tool knows three ways in which it runs out of memory, and two more numbers.
IsCheckNp(w, np, x) ==
    /\ \E a, b \in DOMAIN w :
          /\ np = a .. b /\ x \in np
          /\ w[a] = PACIBSP /\ \A i \in a + 1 .. x : w[i] # PACIBSP
          /\ w[b] \in Returns /\ \A i \in x .. b - 1 : w[i] \notin Returns
          /\ b < x + Reach.ret /\ b < Len(w)
    /\ Cardinality({i \in np : w[i] = Movz(ENOMEM)}) <= 6

\* The result of auth_remap is the last that is kept in x8 before the message.
CallsRemap(w, lo, entry, x) ==
    LET kept == {i \in lo + 1 .. x - 1 : w[i].op = "bl" /\ w[i + 1] = MOV_X8_X0}
    IN  \A c \in kept : (\A d \in kept : d <= c) => entry = w[c].to .. w[c].to + 2

\* A function that loads its string at x: nothing from its entry to there looks
\* like another's, and one without a landing pad comes behind a return.
IsNamed(w, entry, x) ==
    \E g \in DOMAIN w :
        /\ entry = g .. g + 2 /\ g <= x
        /\ w[g].op = "stp" => g > 1 /\ w[g - 1] \in Returns
        /\ \A i \in g + 1 .. x :
              /\ w[i] \notin {PACIBSP, BTI_C}
              /\ w[i - 1] \in Returns => w[i].op \notin {"pacibsp", "bti", "stp"}

\* No entry but its own lies between a function's entry and the load at x.
Alone(entry, x, entries) ==
    \A e \in entries \ entry : ~(e <= x /\ \A g \in entry : g <= e)

Entries(p) == p.remap \cup UNION {p.fns[s] : s \in Named}

WellFormedProbed(p) ==
    LET img == p.img
        w == img.w
        x(s) == AnchorXref(img, s)
    IN  /\ img = [w |-> w, mem |-> img.mem, strs |-> img.strs, seg |-> img.seg]
        /\ Len(w) \in Nat /\ w = [i \in 1 .. Len(w) |-> w[i]]
        /\ img.mem = [a \in DOMAIN img.mem |-> img.mem[a]]
        /\ img.seg # <<>> => /\ img.seg.lo \in Nat \ {0} /\ img.seg.hi \in Nat
                             /\ img.seg.hi <= Len(w)
        /\ p.np \subseteq DOMAIN w /\ Begins(w, p.remap) /\ Named \subseteq DOMAIN p.fns
        /\ \A s \in Named : Begins(w, p.fns[s]) /\ p.fns[s] \cap p.remap = {}
        /\ \A s, t \in Named : s # t => p.fns[s] \cap p.fns[t] = {}
        /\ \A s \in Named : x(s) # 0 =>
              IsNamed(w, p.fns[s], x(s)) /\ Alone(p.fns[s], x(s), Entries(p))
        /\ x(ANCHOR) # 0 =>
              /\ IsCheckNp(w, p.np, x(ANCHOR))
              /\ \A e \in Entries(p) : e >= x(ANCHOR) => e \notin p.np
              /\ CallsRemap(w, img.seg.lo, p.remap, x(ANCHOR))
              \* The last small number before the message is the trace level.
              /\ LET cands == LevelCandidates(img, x(ANCHOR))
                 IN  \A c \in cands : (\A d \in cands : d[1] <= c[1]) => c[2] = p.level

ASSUME ProbedAssumption == \A p \in Probed : WellFormedProbed(p)

ASSUME NamedAssumption == Named \cap {"checknp", "skipauth", "srtrace"} = {}

(* What patch_md0_size.py takes for granted of the driver: the size is       *)
(* loaded into a register at l and converted at s, at most four on, in      *)
(* place or by add, sub and udiv with the block size in another register.   *)

Loads(code, l, s) ==
    /\ l \in DOMAIN code /\ s \in DOMAIN code /\ l < s /\ s <= l + 4
    /\ code[l].op = "ldrsize" /\ code[l].d = 0 /\ ~code[s].wide

ToBytes(code, l, s) ==
    /\ Loads(code, l, s)
    /\ code[s].op = "lsl" /\ code[s].d = 0 /\ code[s].n = 0
    /\ \A i \in DOMAIN code : i > l /\ i # s => code[i].d # 0

ToBlocks(code, l, s) ==
    /\ Loads(code, l, s) /\ s + 2 \in DOMAIN code
    /\ code[s].op = "add" /\ code[s].n = 1 /\ code[s].m = 0
    /\ code[s + 1].op = "sub" /\ code[s + 1].n = 0
    /\ code[s + 2].op = "udiv" /\ code[s + 2].n = 0 /\ code[s + 2].m = 1
    /\ \A i \in s .. s + 2 : code[i].d = 0
    /\ \A i \in DOMAIN code : i > l /\ i \notin s .. s + 2 => code[i].d # 0
    /\ \A i \in DOMAIN code : code[i].d # 1

ASSUME DriversAssumption ==
    \A p \in Drivers :
        /\ Len(p.code) \in Nat
        /\ \A i \in DOMAIN p.code : p.code[i].wide \in BOOLEAN /\ p.code[i] =
              [op |-> p.code[i].op, wide |-> p.code[i].wide, d |-> p.code[i].d,
               n |-> p.code[i].n, m |-> p.code[i].m]
        /\ p.code = [i \in 1 .. Len(p.code) |-> p.code[i]]
        /\ \E l, s \in DOMAIN p.code : IF p.result = "bytes" THEN ToBytes(p.code, l, s)
                                       ELSE ToBlocks(p.code, l, s)

VARIABLES kind, facts, orig, file,
          applied    \* the tools and script steps that have been run; a copy that
                     \* failed is "uncopied"

vars == <<kind, facts, orig, file, applied>>

ClampModes == {"clamp", "clampDry", "clampForce"}
ProbeTools == {"checknp", "skipauth", "srtrace"} \cup Named

Init ==
    /\ applied = {}
    /\ \/ kind = "rtbuddy" /\ facts = {} /\ orig \in Builds
       \/ kind = "probes" /\ facts \in Probed /\ orig = facts.img
       \/ kind = "cache" /\ facts \in Caches /\ orig = facts.hdr
       \/ /\ kind = "hashes" /\ facts \in HashRuns
          /\ orig = [hashes |-> facts.hashes, orig |-> facts.old, saved |-> facts.old # {},
                     cx |-> {}, tc |-> {}, at |-> "copy"]
       \/ kind = "md0" /\ facts \in Drivers /\ orig = facts.code
    /\ file = orig

Becomes(t, f) ==
    /\ file' = f
    /\ applied' = applied \cup {t}
    /\ UNCHANGED <<kind, facts, orig>>

PatchRtbuddy(t) ==
    /\ kind = "rtbuddy"
    /\ Accepts(file, Tools[t])
    /\ Becomes(t, Patched(file, Tools[t]))

Probe(t, img) ==
    CASE t = "checknp"  -> CheckNpErrno(img)
      [] t = "skipauth" -> SkipAuthRemap(img)
      [] t = "srtrace"  -> SrTrace(img)
      [] OTHER          -> StubFnByString(img, t)

\* A function is stubbed once.
RunProbe(t) ==
    /\ kind = "probes"
    /\ t \in Named => t \notin applied
    /\ Probe(t, file).ok
    /\ Becomes(t, Probe(t, file).img)

ClampSlide(mode) ==
    /\ kind = "cache"
    /\ Becomes(mode, PatchDscMaxslide(file, facts.region, mode = "clampDry",
                                      mode = "clampForce"))

GenHashes ==
    /\ kind = "hashes" /\ file.at = "copy"
    /\ Becomes("gen", [file EXCEPT !.hashes = GenTrustcache(@, facts.root)])

\* One step of the merge script; the copy may fail, which it does not notice,
\* and the cryptex may be unreadable this time.
MergeCryptex ==
    /\ kind = "hashes"
    /\ \/ file.at = "copy" /\ Becomes("copy", MergeCopy(file))
       \/ /\ file.at = "copy"
          /\ \E left \in MergeCopyFails(file) : Becomes("uncopied", left)
       \/ /\ file.at = "extract"
          /\ \E found \in {{}, facts.cx} : Becomes("extract", MergeExtract(file, found))
       \/ file.at = "merge" /\ Becomes("merge", MergeSort(file))
       \/ file.at = "build" /\ Becomes("build", MergeBuild(file))

WidenMd0 ==
    /\ kind = "md0"
    /\ Becomes("widen", WidenSizes(file))

Next ==
    \/ \E t \in DOMAIN Tools : PatchRtbuddy(t)
    \/ \E t \in ProbeTools : RunProbe(t)
    \/ \E mode \in ClampModes : ClampSlide(mode)
    \/ GenHashes
    \/ MergeCryptex
    \/ WidenMd0

Spec == Init /\ [][Next]_vars

-----------------------------------------------------------------------------
\* What a probe would change in an image.
Delta(t, img) ==
    LET new == Probe(t, img).img
    IN  {<<i, new.w[i]>> : i \in {k \in DOMAIN img.w : new.w[k] # img.w[k]}}
        \cup {<<a, new.mem[a]>> : a \in {b \in DOMAIN img.mem : new.mem[b] # img.mem[b]}}

(* The patchers do not get in each other's way: whichever have been run, a  *)
(* tool that has not is accepted exactly if it would have been on the       *)
(* untouched file, and changes exactly the same.                            *)
IndependentTools ==
    /\ kind = "rtbuddy" =>
          /\ \A t \in DOMAIN Tools \ applied : Accepts(file, Tools[t]) = Accepts(orig, Tools[t])
          /\ \A s \in Sites :
                \/ \E t \in applied : s \in DOMAIN Tools[t].writes /\ file[s] = Tools[t].writes[s]
                \/ file[s] = orig[s] /\ \A t \in applied : s \notin DOMAIN Tools[t].writes
    /\ kind = "probes" =>
          \A t \in ProbeTools \ applied :
              Probe(t, file).ok = Probe(t, orig).ok /\ Delta(t, file) = Delta(t, orig)

\* start() has the instructions of the known build.
KnownStart ==
    \A s \in {"gate", "offset", "index", "timeout", "found", "notify", "filler"} :
        orig[s] = Expected[s]

\* Every choice of which services exist, for few routes and for enough.
Routings == UNION {[1 .. n -> BOOLEAN] : n \in 1 .. MinRoutes + 1}

(* "The complete, empirically-proven matrix": whichever patchers were run,  *)
(* and in which order, a coprocessor whose services all exist still         *)
(* registers unless its loop was made to skip; without the secure service   *)
(* one never does, and start() ends cleanly exactly if the loop begins      *)
(* behind the secure route; and a guarded notification is made exactly if   *)
(* there is a secure proxy.                                                 *)
StartMatrix ==
    kind = "rtbuddy" /\ KnownStart =>
        \A routes \in Routings :
            LET end == LoopOutcome(file, routes)
                rest == \A i \in DOMAIN routes \ {1} : routes[i]
            IN  /\ (routes[1] /\ rest) /\ {"skip", "skip0"} \cap applied = {} =>
                        end = "registered"
                /\ ~routes[1] /\ rest /\ Len(routes) >= MinRoutes =>
                        /\ end # "registered"
                        /\ end = "unregistered" <=> "skip0" \in applied /\ "skip" \notin applied
                /\ "secureproxy" \in applied =>
                        NotifyOutcome(file, routes[1]) =
                            IF routes[1] THEN "notified" ELSE "skipped"

(* The probes change nothing but the error numbers of check_np, the entries *)
(* of auth_remap and of the functions named, and the trace level.           *)
ProbesStayInPlace ==
    kind = "probes" =>
        /\ \A i \in DOMAIN file.w : file.w[i] # orig.w[i] =>
              \/ i \in facts.np /\ orig.w[i] = Movz(ENOMEM)
              \/ i \in facts.remap \/ i \in UNION Range(facts.fns)
        /\ \A a \in DOMAIN file.mem : file.mem[a] # orig.mem[a] => a = facts.level

(* "a single boot tells us the failing path": after the errno probe the     *)
(* failure paths of check_np return different numbers, the first still 12,  *)
(* whatever else was patched before or after.                               *)
ErrnosTellApart ==
    kind = "probes" /\ "checknp" \in applied =>
        LET paths == {i \in facts.np : orig.w[i] = Movz(ENOMEM)}
        IN  /\ \A i, j \in paths : i # j => file.w[i] # file.w[j]
            /\ file.w[Earliest(paths)] = Movz(ENOMEM)

(* A cache that fits the region at slide 0 fits it after the patch; one     *)
(* that fits with its slide keeps it unless it is forced; and a dry run     *)
(* changes nothing.                                                         *)
CacheFits ==
    kind = "cache" =>
        /\ "clamp" \in applied /\ orig.span <= facts.region => Fits(file, facts.region)
        /\ Fits(orig, facts.region) /\ "clampForce" \notin applied => file = orig
        /\ applied \subseteq {"clampDry"} => file = orig

\* No hash that was trusted is lost, from the list or from what is built of it.
NothingLost ==
    /\ orig.hashes \subseteq file.hashes
    /\ file.tc # {} => orig.hashes \subseteq file.tc

(* A cache that was built trusts the cryptex.  As long as no copy has       *)
(* failed, also when the merge stops half way and is run again, over copies *)
(* of earlier lists, no hash that was trusted is lost, nor one of the       *)
(* root's programs once they were collected.                                *)
HashesKept ==
    kind = "hashes" =>
        /\ file.tc # {} => facts.cx \subseteq file.tc
        /\ "uncopied" \notin applied =>
              /\ NothingLost
              /\ "gen" \in applied =>
                    {f.cdhash : f \in {g \in facts.root : g.kind = "macho"
                                          /\ g.dir # "com.apple.dyld"}} \ {""} \subseteq file.hashes

\* Page counts are words of 32 bits themselves.
MaxPages == Narrow - 1
Regs(blk) == [r \in 0 .. 3 |-> IF r = 1 THEN blk ELSE 0]

(* Once widened the driver reports the size of every image, also of one     *)
(* whose bytes do not fit 32 bits, and the number of blocks it makes.       *)
SizesExact ==
    kind = "md0" /\ "widen" \in applied =>
        \A pages \in 0 .. MaxPages, blk \in 1 .. 3 :
            Run(file, Regs(blk), pages)[0] =
                IF facts.result = "bytes" THEN pages * PageSize
                ELSE (pages * PageSize + blk - 1) \div blk
=============================================================================
