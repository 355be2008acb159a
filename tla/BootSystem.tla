----------------------------- MODULE BootSystem -----------------------------
(* A boot from end to end: dt_fixup.py prepares the device tree; the boot    *)
(* loader puts CL4 into memory, rebases its pointers, places the carve-outs  *)
(* and writes them into the tree; and SPTM enters CL4.                       *)
EXTENDS BootMemory, Cl4Entry, Cl4Fixups

CONSTANT Boots   \* what is booted: [tree, env, cl4], tree a stock device tree
                 \* as a file, cl4 CL4's image, env the switches: dt_fixup.py's
                 \* environment, info (the loader's regions), and cl4 (whether
                 \* there is a CL4), ctors, x1 (CL4_CTORS, CL4_X1), and
                 \* needs, the services each constructor of CL4 looks up

ASSUME BootsAssumption ==
    \A b \in Boots : /\ b.env.ctors \in BOOLEAN
                     /\ b.env.needs \in [1 .. Ctors -> SUBSET BaseServices]
                     /\ b.cl4 \in Images
                     /\ ~b.env.cl4 => ~b.cl4.fixups   \* nothing to rebase

\* A stock tree lists each path once and has fewer nodes than a number can be;
\* its names end in zeros, it has no clock, and its DCP is not flagged as on already.
\* What a loader fills in is zero there, and there is none of it for the DCP and
\* for the panic log's size.
StockTree(tree) ==
    /\ Len(tree) \in Nat /\ Len(tree) < NumberBound /\ DOMAIN tree = 1 .. Len(tree)
    /\ \A i \in DOMAIN tree :
          /\ tree[i].path # <<"rtc">>
          /\ \A j \in DOMAIN tree : tree[j].path = tree[i].path => j = i
          /\ \A n \in DOMAIN tree[i].props : Filed(tree[i].props[n])
          /\ "name" \in DOMAIN tree[i].props =>
                LET name == tree[i].props["name"].bytes
                IN  \A k \in DOMAIN name \ DOMAIN DecodeNullTerminatedString(name) : name[k] = 0
          /\ tree[i].path = DcpNub =>
                /\ "dont-power-on" \notin DOMAIN tree[i].props
                /\ ~({"power-managed", "user-power-managed"} \subseteq DOMAIN tree[i].props)
                /\ RegionProps \cap DOMAIN tree[i].props = {}
          /\ tree[i].path = AnsNub =>
                \/ RegionProps \cap DOMAIN tree[i].props = {}
                \/ /\ RegionProps \subseteq DOMAIN tree[i].props
                   /\ \A n \in RegionProps : tree[i].props[n].bytes = Zeros(8)
          /\ tree[i].path \in {<<"pram">>, <<"vram">>} /\ "reg" \in DOMAIN tree[i].props =>
                tree[i].props["reg"].bytes = Zeros(16)
          /\ tree[i].path = Chosen =>
                "embedded-panic-log-size" \notin DOMAIN tree[i].props

ASSUME TreesAssumption ==
    /\ \A c \in DOMAIN PlatformOf : PlatformOf[c] \in Seq(0 .. 255)
    /\ \A b \in Boots :
          /\ StockTree(b.tree)
          /\ b.env.dram \in Nat /\ b.env.nvram \in Seq(0 .. 255)
          /\ b.env.dcpRegion \in BOOLEAN /\ b.env.normalize \in BOOLEAN
          /\ b.env.info.fbSize \in Nat /\ b.env.info.ansRegion \in Nat
          /\ b.env.info.dcpRegion \in Nat
          \* DRAM ends where a number can say it, and has room for what is carved.
          /\ b.env.dram + 1048576 < NumberBound
          /\ b.env.info.fbSize + b.env.info.ansRegion + b.env.info.dcpRegion + PanicLogSize
               <= b.env.dram

VARIABLES env, stock,  \* the switches and the stock tree, chosen at the start
          out,         \* the tree file dt_fixup.py writes
          ld,          \* the loader's result
          phase

bootvars == <<env, stock, out, ld, phase>>
vars == <<bootvars, cl4vars, fixvars>>

NotLoaded == [mem |-> 0, carves |-> <<>>, tree |-> <<>>, spilled |-> {}]

TypeOK ==
    /\ phase \in {"stock", "failed", "fixed", "loaded"}
    /\ \A i \in DOMAIN out : \A n \in DOMAIN out[i].props : Filed(out[i].props[n])
    /\ cpu.pc \in {"sptm", "entry", "other", "tramp", "loop", "ctor", "init", "cl4",
                   "fault", "svc", "tag3"}
    /\ cpu.x21 \in 1 .. Ctors + 1
    /\ own \in [built : BOOLEAN, next : 1 .. Ctors + 1]
    /\ Range(called) \subseteq [by : {"tramp", "cl4"}, n : 1 .. Ctors]
    /\ erets \in 0 .. MaxErets
    /\ FixTypeOK

Init ==
    /\ \E b \in Boots : env = b.env /\ stock = b.tree /\ FixInit(b.cl4)
    /\ out = <<>> /\ ld = NotLoaded
    /\ phase = "stock"
    /\ Cl4Init

\* dt_fixup.py.  A node missing ends it with the output opened and empty.
FixupTree ==
    /\ phase = "stock"
    /\ out' = DtFixupTool(stock, env)
    /\ phase' = IF out' = <<>> THEN "failed" ELSE "fixed"
    /\ UNCHANGED <<env, stock, ld, cl4vars, fixvars>>

\* The boot loader.  CL4's pointers are rebased as soon as CL4 is placed.
RebaseCl4 ==
    /\ phase = "fixed"
    /\ FixNext
    /\ UNCHANGED <<bootvars, cl4vars>>

\* Then the rest, up to the reset of the CPU.
LoadKernel ==
    /\ phase = "fixed" /\ walk = "done"
    /\ ld' = LoadTree(out, env.info)
    /\ phase' = "loaded"
    /\ IF env.cl4 THEN InstallCl4(env) ELSE UNCHANGED cl4vars
    /\ UNCHANGED <<env, stock, out, fixvars>>

RunCl4 ==
    /\ phase = "loaded"
    /\ Cl4Next(env.needs)
    /\ UNCHANGED <<bootvars, fixvars>>

Next ==
    \/ FixupTree
    \/ RebaseCl4
    \/ LoadKernel
    \/ RunCl4

Spec == Init /\ [][Next]_vars

-----------------------------------------------------------------------------
\* What fixup sets, or drops, in some node.
Touched ==
    RegionProps \cup PowerFlags \cup MapEntries \cup
    {"platform-name", "secure-root-prefix", "no-rtc", "dram-base", "dram-size", "random-seed",
     "firmware-version", "system-firmware-version", "state", "aperture-phys-addr",
     "upper-limit-reg-mask", "lower-limit-reg-mask",
     "kernel-ctrr-to-be-enabled", "embedded-panic-log-size", "nvram-bank-count",
     "nvram-current-bank", "nvram-proxy-data", "nvram-total-size", "nvram-bank-size",
     "memory-frequency", "peripheral-frequency", "fixed-frequency", "clock-frequency",
     "timebase-frequency", "serial-device", "vmm-present", "reg", "dart-id",
     "aic-iack-offset", "config", "sio-hmac1-offset", "sio-hmac1-disable-mask",
     "routes", "no-firmware-service", "watchdog-enable", "coredump-enable",
     "coredump-rel-privacy-approved", "continuous-time", "crashlog-non-fatal",
     "no-hibernate-sleep", "shutdown-sleep", "quiesced", "exclaves-enabled", "has-exclaves",
     "aperture-count", "plane-count", "aperture-size", "plane-size", "plane-stride",
     "cache-status-reg-offset", "cache-status-reg-mask", "cache-status-reg-value",
     "lower-limit-reg-offset", "upper-limit-reg-offset", "page-size-shift",
     "lock-reg-offset", "lock-reg-mask", "lock-reg-value", "enable-reg-offset",
     "enable-reg-mask", "enable-reg-value", "write-disable-reg-offset",
     "write-disable-reg-mask", "write-disable-reg-value"}

Content(bytes) ==
    LET last == {i \in DOMAIN bytes : bytes[i] # 0}
    IN  IF last = {} THEN <<>>
        ELSE SubSeq(bytes, 1, CHOOSE i \in last : \A j \in last : j <= i)

(* Whatever bytes a property has, and whichever type is guessed from them,  *)
(* a property fixup leaves alone keeps its bytes up to trailing zeros, all  *)
(* of them within its length, and reading it once more gives the same       *)
(* value.                                                                   *)
UntouchedPropsSurvive ==
    phase = "fixed" =>
        \A i \in DOMAIN stock : \A n \in DOMAIN stock[i].props \ Touched :
            HasProp(out, stock[i].path, n) =>
                LET was == stock[i].props[n]
                    is == Node(out, stock[i].path).props[n]
                IN  /\ Content(is.bytes) = Content(was.bytes)
                    /\ is.len >= Len(Content(was.bytes))
                    /\ ParsePropEntry(DecodeProp(n, is.bytes)) = is

(* SPTM refuses a DART without an id and needs each id to be distinct: so   *)
(* has every DART that is still awake once the others are muted.            *)
DartIdsDistinct ==
    LET darts == {i \in DOMAIN out : IsDart(out[i])}
    IN  /\ \A i \in darts : "dart-id" \in DOMAIN out[i].props
        /\ \A i, j \in darts :
              i # j => out[i].props["dart-id"] # out[j].props["dart-id"]

(* "power-managed and user-power-managed are mutually exclusive device tree *)
(* flags", and dont-power-on with either: whichever switches are combined,  *)
(* the DCP's nub ends up with one of them at most.                          *)
PowerFlagsExclusive ==
    \A f, g \in PowerFlags : HasProp(out, DcpNub, f) /\ HasProp(out, DcpNub, g) => f = g

PropValue(p, n) == Node(ld.tree, p).props[n].bytes

\* The region the two words of the tree describe.
Described(base, size) ==
    [lo |-> Value(base) - DramBase(ld.tree),
     hi |-> Value(base) - DramBase(ld.tree) + Value(size)]

(* What the tree tells the kernel is where the loader put it: a region with *)
(* an address or a size in the tree has both, and they are the region taken *)
(* off; a DCP without them in the stock tree has one exactly if a switch    *)
(* gave it the room; a panic log the kernel is told to use is backed; and   *)
(* nothing is written past the end of the value it replaces.                *)
RegionsPublished ==
    phase = "loaded" =>
        /\ ld.spilled = {}
        /\ \A nub \in {<<AnsNub, "ans">>, <<DcpNub, "dcp">>} :
              /\ HasProp(ld.tree, nub[1], "region-base")
              /\ PropValue(nub[1], "region-base") # Zeros(8)
                   \/ PropValue(nub[1], "region-size") # Zeros(8)
              => /\ nub[2] \in DOMAIN ld.carves
                 /\ Described(PropValue(nub[1], "region-base"),
                              PropValue(nub[1], "region-size")) = ld.carves[nub[2]]
        /\ DcpNub \in Paths(ld.tree) /\ "dcp" \in DOMAIN ld.carves =>
              (env.dcpRegion \/ env.normalize <=> HasProp(ld.tree, DcpNub, "region-base"))
        /\ HasProp(ld.tree, Chosen, "embedded-panic-log-size") =>
              LET reg == PropValue(<<"pram">>, "reg")
              IN  /\ Described(SubSeq(reg, 1, 8), SubSeq(reg, 9, 16)) = ld.carves["pram"]
                  /\ SubSeq(reg, 9, 12) = PropValue(Chosen, "embedded-panic-log-size")

(* No two of the regions the loader hides overlap, nor does one reach into  *)
(* the memory the kernel is left with.                                      *)
CarveOutsDisjoint ==
    \A a \in DOMAIN ld.carves :
        /\ ld.mem <= ld.carves[a].lo
        /\ ld.carves[a].hi <= DramSize(ld.tree)
        /\ \A b \in DOMAIN ld.carves \ {a} :
              ld.carves[a].hi <= ld.carves[b].lo \/ ld.carves[b].hi <= ld.carves[a].lo

\* The i-th call of a constructor there should be: the trampoline's, if it is
\* installed, and then CL4's.
Offset == IF hook.tramp THEN Ctors ELSE 0
Turn(i) == IF i <= Offset THEN [by |-> "tramp", n |-> i] ELSE [by |-> "cl4", n |-> i - Offset]

(* The passes over the constructors.  The trampoline, if it is installed,   *)
(* makes one and CL4, behind its domain set-up, another: each in the order  *)
(* of the array, the first over before a guarded return gets to the entry,  *)
(* the second before CL4 runs on, and neither repeated or left half way     *)
(* however often SPTM returns to CL4.                                       *)
CtorPasses ==
    /\ Len(called) <= Offset + Ctors
    /\ \A i \in DOMAIN called : called[i] = Turn(i)
    /\ cpu.pc = "entry" /\ cpu.g => Len(called) \in {Offset, Offset + Ctors}
    /\ cpu.pc = "cl4" => Len(called) = Offset + Ctors

(* A constructor dereferences null in two cases only.  In the trampoline it  *)
(* has looked up another service than the one seeded: the seed, the injected *)
(* thread registers and CL4's walk of the list agree.  In CL4's own pass it  *)
(* has logged without a read-only thread word, which nobody set since there  *)
(* is no trampoline: CL4 has built its own context, trampoline or not.       *)
OnlyUnseededFault ==
    cpu.pc = "fault" =>
        LET c == called[Len(called)]
        IN  IF c.by = "tramp" THEN \E key \in env.needs[c.n] : key # <<2, 5>> ELSE ~hook.tramp

(* CL4's entry branches on SP, and its set-up on the thread register: a      *)
(* guarded return gets there with SP zero, the hand-off SPTM passed, the     *)
(* descriptor SPTM passed or the synthesized one in place of none, and no    *)
(* thread context but one CL4 built, although constructors have run on       *)
(* another stack and in a fake context.                                      *)
EntryAbi ==
    cpu.pc = "entry" /\ cpu.g =>
        /\ cpu.sp = "zero" /\ cpu.x0 = "handoff"
        /\ cpu.x1 = IF asked.x1 = "zero" THEN hook.x1 ELSE asked.x1
        /\ cpu.tpidr = IF own.built THEN RealCtx ELSE 0
=============================================================================
