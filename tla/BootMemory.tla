----------------------------- MODULE BootMemory -----------------------------
(* arm_load_xnu_sptm: what the boot loader hides from the kernel.  The boot  *)
(* framebuffer, the two coprocessors' firmware and the panic log are taken   *)
(* off the top of DRAM one after the other, by shrinking memSize, and their  *)
(* places are written into the device tree, over values that are there.      *)
(*                                                                           *)
(* A loader state is [mem, carves, tree, spilled]: boot_args' memSize, the   *)
(* regions taken so far ([lo, hi), relative to the base of DRAM), the tree,  *)
(* and the properties that were shorter than what was written over them.     *)
EXTENDS DtFixup

AnsNub == <<"arm-io", "ans", "iop-ans-nub">>

\* Take size off the top: the region is [mem', mem).
Carve(s, name, size) ==
    [s EXCEPT !.mem = @ - size,
              !.carves = [n \in DOMAIN s.carves \cup {name} |->
                             IF n = name THEN [lo |-> s.mem - size, hi |-> s.mem]
                             ELSE s.carves[n]]]

\* Overwrite the beginning of a property's value in place, if the node has it.
Publish(s, p, n, bytes) ==
    IF HasProp(s.tree, p, n)
    THEN LET old == Node(s.tree, p).props[n]
             new == bytes \o SubSeq(old.bytes, Len(bytes) + 1, Len(old.bytes))
         IN  [s EXCEPT !.tree = Put(@, p, {n}, [len |-> old.len, bytes |-> new]),
                       !.spilled = IF Len(old.bytes) < Len(bytes)
                                   THEN @ \cup {<<p, n>>} ELSE @]
    ELSE s

\* The low three bytes of a number in the tree.
Value(bytes) == bytes[1] + 256 * bytes[2] + 65536 * bytes[3]
DramSize(tree) == Value(Node(tree, Chosen).props["dram-size"].bytes)
DramBase(tree) == Value(Node(tree, Chosen).props["dram-base"].bytes)

CarveFramebuffer(s, info) ==
    IF info.fbSize > 0 THEN Carve(s, "fb", info.fbSize) ELSE s

CarveAns(s, info) ==
    IF info.ansRegion > 0
    THEN LET c == Carve(s, "ans", info.ansRegion)
         IN  Publish(Publish(c, AnsNub, "region-base", Number(DramBase(s.tree) + c.mem, 8)),
                     AnsNub, "region-size", Number(info.ansRegion, 8))
    ELSE s

\* A bug: the address is published as soon as there is a place for it.
CarveDcpBaseFirst(s, info) ==
    IF info.dcpRegion > 0
    THEN LET c == Carve(s, "dcp", info.dcpRegion)
         IN  Publish(c, DcpNub, "region-base", Number(DramBase(s.tree) + c.mem, 8))
    ELSE s

\* Published only if the tree has room for both.
CarveDcp(s, info) ==
    IF info.dcpRegion > 0
    THEN LET c == Carve(s, "dcp", info.dcpRegion)
         IN  IF HasProp(s.tree, DcpNub, "region-base") /\ HasProp(s.tree, DcpNub, "region-size")
             THEN Publish(Publish(c, DcpNub, "region-base", Number(DramBase(s.tree) + c.mem, 8)),
                          DcpNub, "region-size", Number(info.dcpRegion, 8))
             ELSE c
    ELSE s

\* A bug: the panic log is placed before memSize is lowered.
CarvePramAbove(s, info) ==
    LET c == Carve(s, "pram", PanicLogSize)
    IN  [Publish(c, <<"pram">>, "reg",
                 Number(DramBase(s.tree) + s.mem, 8) \o Number(PanicLogSize, 8))
         EXCEPT !.carves["pram"] = [lo |-> s.mem, hi |-> s.mem + PanicLogSize]]

\* The panic log is carved whether or not the tree has a node for it.
CarvePram(s, info) ==
    LET c == Carve(s, "pram", PanicLogSize)
    IN  Publish(c, <<"pram">>, "reg",
                Number(DramBase(s.tree) + c.mem, 8) \o Number(PanicLogSize, 8))

\* The framebuffer was carved first; /vram and the display scale come last.
PublishFramebuffer(s, info) ==
    LET v == IF info.fbSize > 0 /\ info.fbVideo
             THEN Publish(s, <<"vram">>, "reg",
                          Number(DramBase(s.tree) + s.carves["fb"].lo, 8) \o Number(info.fbSize, 8))
             ELSE s
    IN  IF /\ info.fbSize > 0 /\ info.fbVideo
           /\ HasProp(s.tree, Chosen, "display-scale")
           /\ Node(s.tree, Chosen).props["display-scale"].bytes = Zeros(4)
        THEN Publish(v, Chosen, "display-scale", Number(1, 4))
        ELSE v

\* The whole of it, memSize starting at the size of DRAM.
LoadTree(tree, info) ==
    LET start == [mem |-> DramSize(tree), carves |-> <<>>, tree |-> tree, spilled |-> {}]
    IN  PublishFramebuffer(CarvePram(CarveDcp(CarveAns(CarveFramebuffer(
          start, info), info), info), info), info)
=============================================================================
