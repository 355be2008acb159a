---------------------------- MODULE MCBootSystem ----------------------------
(* Device trees with the nodes dt_fixup.py and the loader look at, the       *)
(* combinations of switches the documented experiments use, and CL4 images   *)
(* of six words of data.                                                     *)
EXTENDS BootSystem, TLC

MCMatches == ("dart," :> {"dart,t8110"}) @@ ("dart,t8110" :> {"dart,t8110"})
             @@ ("aic" :> {"aic,3"}) @@ ("aic,2" :> {}) @@ ("aic,3" :> {"aic,3"})
             @@ ("arm-io" :> {"arm-io,t8140"}) @@ ("AppleARM" :> {"AppleARM"})
             @@ ("uart-1,samsung" :> {"uart-1,samsung"})
             @@ ("iop-nub,rtbuddy-v2" :> {"iop-nub,rtbuddy-v2"})
MCPlatformOf == "arm-io,t8140" :> <<116, 56, 49, 52, 48>>

\* What the constructors look up: nothing but the service the loader seeds, or
\* another of CL4's base services with it.
SeededNeeds == <<{}, {<<2, 5>>}, {<<2, 5>>}>>
OtherNeeds == <<{}, {<<2, 5>>}, {<<2, 4>>, <<2, 5>>}>>

\* Properties of one value; one as it lies in the file; and a node.
All(names, v) == [n \in names |-> v]
File(s) == [len |-> Len(s), bytes |-> Ljust(s)]
NodeOf(path, compat, props) == [path |-> path, compat |-> compat, props |-> props]
Plain(path) == NodeOf(path, {}, <<>>)

DcpFlags == {"user-power-managed", "quiesced", "routes", "no-firmware-service",
             "watchdog-enable"}
Exclaves == {"exclaves-enabled", "has-exclaves"}

\* The stock tree; label is a property fixup does not know, gen the generation.
Stock(label, gen) ==
    <<NodeOf(<<>>, {"AppleARM"}, ("secure-root-prefix" :> File(<<109, 100>>))
                                 @@ ("label" :> label)),
      NodeOf(Chosen, {}, ("random-seed" :> File(Zeros(16)))
                         @@ ("display-scale" :> File(Zeros(4)))),
      Plain(MemoryMap), Plain(Amcc)>>
    \o [i \in 1 .. 4 |-> Plain(Append(Amcc, Ctrrs[i]))] \o
    <<Plain(Cpu0), Plain(<<"defaults">>),
      NodeOf(<<"pram">>, {}, "reg" :> File(Zeros(16))),
      NodeOf(<<"vram">>, {}, "reg" :> File(Zeros(16))),
      NodeOf(<<"product">>, {}, All(Exclaves, File(<<1, 0, 0, 0>>))),
      NodeOf(ArmIo, {"arm-io,t8140"}, "soc-generation" :> File(gen)),
      NodeOf(<<"arm-io", "aic">>, {"aic,3"}, "name" :> File(<<97, 105, 99, 0>>)),
      NodeOf(<<"arm-io", "uart0">>, {"uart-1,samsung"},
             "AAPL,phandle" :> File(<<65, 66, 67, 0>>)),
      NodeOf(<<"arm-io", "dart-disp0">>, {"dart,t8110"}, <<>>),
      Plain(<<"arm-io", "sep">>), Plain(<<"arm-io", "sep", "iop-sep-nub">>),
      Plain(InvalidateHmac),
      NodeOf(<<"arm-io", "sep", "dart-sep">>, {"dart,t8110"}, <<>>),
      NodeOf(AnsNub, {"iop-nub,rtbuddy-v2"},
             All({"region-base", "region-size"}, File(Zeros(8)))
             @@ ("power-managed" :> File(<<1, 0, 0, 0>>))),
      NodeOf(DcpNub, {"iop-nub,rtbuddy-v2"}, All(DcpFlags, File(<<1, 0, 0, 0>>))),
      NodeOf(<<"arm-io", "dart-dcp">>, {"dart,t8110"}, <<>>),
      Plain(<<"arm-io", "sgx">>), Plain(<<"arm-io", "dockchannel-uart">>)>>

H17 == <<72, 49, 55, 0>>
H14 == <<72, 49, 52, 0>>
Label == File(<<65, 65, 65, 0>>)

\* Every label of at most Width bytes over zero, a letter and a non-character.
Width == 5
Labels == UNION {[1 .. n -> {0, 65, 200}] : n \in 0 .. Width}
          \cup [1 .. 8 -> {0, 65}]

Without(p) == SelectSeq(Stock(Label, H17), LAMBDA n : n.path # p)
\* An interrupt controller whose driver is not among the supported ones.
OtherAic ==
    LET tree == Stock(Label, H17)
    IN  [i \in DOMAIN tree |-> IF tree[i].path = <<"arm-io", "aic">>
                               THEN [tree[i] EXCEPT !.compat = {"other"}] ELSE tree[i]]
LabelTrees == {Stock(File(s), H17) : s \in Labels}
OddTrees ==
    {Stock(Label, H14), Stock(Label, <<9, 0, 0, 0>>), OtherAic}
    \cup {Without(p) : p \in {DcpNub, AnsNub, <<"pram">>, <<"vram">>, <<"product">>,
                              InvalidateHmac, <<"arm-io", "sgx">>, <<"arm-io", "aic">>}}

-----------------------------------------------------------------------------
Info(fb, video, ans, dcp) ==
    [fbSize |-> fb, fbVideo |-> video, ansRegion |-> ans, dcpRegion |-> dcp]

\* How run_rootfs.sh and run_ios27.sh run it; the other switches off.
Usual == [dram |-> 20, nvram |-> <<1, 2, 3, 4, 5>>, pram |-> TRUE, dcpRegion |-> FALSE,
          noRoutes |-> FALSE, dropNofwsvc |-> FALSE, noExclaves |-> FALSE,
          normalize |-> FALSE, powerMode |-> "", extraDrivers |-> {}, extraNodes |-> {},
          info |-> Info(2, TRUE, 4, 4), cl4 |-> FALSE, ctors |-> FALSE, x1 |-> FALSE,
          needs |-> SeededNeeds]

DcpEnvs ==
    {[Usual EXCEPT !.pram = p, !.dcpRegion = r, !.noRoutes = nr, !.dropNofwsvc = nr,
                   !.noExclaves = nr, !.normalize = n, !.powerMode = m, !.info = i] :
        p \in BOOLEAN, r \in BOOLEAN, nr \in BOOLEAN, n \in BOOLEAN,
        m \in {"", "auto", "already-on", "none"},
        i \in {Info(fb, TRUE, ans, dcp) : fb \in {0, 2}, ans \in {0, 4}, dcp \in {0, 4}}}
AwakeEnvs ==
    {[Usual EXCEPT !.extraDrivers = ds, !.extraNodes = ns, !.info = Info(2, FALSE, 0, 0)] :
        ds \in SUBSET {"dart,t8110", "iop-nub,rtbuddy-v2"},
        ns \in SUBSET {<<"arm-io", "dart-dcp">>, <<"dart-sep">>, <<"iop-dcp-nub">>}}
Cl4Envs ==
    {[Usual EXCEPT !.cl4 = TRUE, !.ctors = c, !.x1 = x, !.needs = ns] :
        c, x \in BOOLEAN, ns \in {SeededNeeds, OtherNeeds}}
MCEnvs == {Usual} \cup DcpEnvs \cup AwakeEnvs \cup Cl4Envs

-----------------------------------------------------------------------------
\* CL4 images with every set of pointers, each page's first among them or none,
\* and targets in each segment, at each boundary and past the end.
Here == 0 .. LinkOff - DataOff - 1
Pages == 1 .. ((LinkOff - DataOff) \div PageSize)

SamePage(S, i) == {j \in S : j \div PageSize = i \div PageSize}

\* The distance to the next pointer of i's page, zero for the last.
Distance(S, i) ==
    LET after == {j \in SamePage(S, i) : j > i} IN IF after = {} THEN 0 ELSE Min(after) - i

Start(S) ==
    [p \in Pages |->
        LET here == SamePage(S, (p - 1) * PageSize)
        IN  IF here = {} THEN None ELSE Min(here) % PageSize]

\* How CL4's linker encodes the pointers S with targets t: an authenticated one
\* has its discriminator above the target.
Linked(S, t, auth) ==
    [i \in Here |->
        IF i \in S
        THEN IF i \in auth THEN Word(TRUE, Distance(S, i), t[i], 1)
             ELSE Word(FALSE, Distance(S, i), t[i] % Low, t[i] \div Low)
        ELSE Word(FALSE, 1, 3, 0)]

SegmentLists(S) ==
    {<<[off |-> DataOff, start |-> Start(S)]>>,
     <<[off |-> 0, start |-> <<0>>], None, [off |-> DataOff, start |-> Start(S)], None>>}

Image(S, t, auth, segs) ==
    [fixups |-> TRUE, segs |-> segs, data |-> Linked(S, t, auth), slots |-> S, target |-> t]

Targets == <<0, DataOff - 1, DataOff, LinkOff - 1, LinkOff, LinkOff + 2>>

\* Neighbours have different targets; those an authenticated pointer can hold
\* are authenticated in every other image.
ImageOf(S, k, auth, segs) ==
    LET t == [i \in S |-> Targets[((i + k) % Len(Targets)) + 1]]
    IN  Image(S, t, IF auth THEN {i \in S : t[i] < Low} ELSE {}, segs)

NoFixups ==
    [Image({}, <<>>, {}, <<>>) EXCEPT !.fixups = FALSE]
Linkings == UNION {{ImageOf(S, k, auth, segs) : k \in 0 .. 5, auth \in BOOLEAN,
                    segs \in SegmentLists(S)} : S \in SUBSET Here}
MCImages == {NoFixups} \cup Linkings
MCHeads == {5}

-----------------------------------------------------------------------------
\* The usual switches on every tree, those of the DCP's nub where a node is
\* missing, every combination on the complete tree, and there every image.
NubEnvs == {e \in DcpEnvs : e.info = Usual.info /\ ~e.noRoutes}
BootsOf(trees, envs) == {[tree |-> t, env |-> e, cl4 |-> NoFixups] : t \in trees, e \in envs}
MCBoots ==
    BootsOf(LabelTrees, {Usual}) \cup BootsOf(OddTrees, {Usual} \cup NubEnvs)
    \cup BootsOf({Stock(Label, H17)}, MCEnvs)
    \cup {[tree |-> Stock(Label, H17), env |-> [Usual EXCEPT !.cl4 = TRUE], cl4 |-> im_] :
              im_ \in Linkings}
=============================================================================
