------------------------------ MODULE DtFixup ------------------------------
(* dt_fixup.py's fixup(): the changes that turn the device tree of a phone  *)
(* into one iBoot would have handed to SPTM on this machine, in the order   *)
(* the code makes them.  env is the environment it reads its switches from. *)
(* Sizes and addresses are in MiB, the size of the panic log.               *)
EXTENDS AdtCodec, FiniteSets

CONSTANTS Matches,    \* substring -> the "compatible" entries that contain it
          PlatformOf  \* the entries of arm-io -> what follows the first comma

ASSUME DtFixupAssumption == {"dart,", "aic,2", "aic,3"} \subseteq DOMAIN Matches

SupportedDrivers == {"AppleARM", "aic", "arm-io", "uart-1,samsung"}

ArmIo == <<"arm-io">>
Chosen == <<"chosen">>
Cpu0 == <<"cpus", "cpu0">>
Amcc == <<"chosen", "lock-regs", "amcc">>
Ctrrs == <<"amcc-ctrr-a", "amcc-ctrr-b", "amcc-ctrr-c", "amcc-ctrr-d">>
MemoryMap == <<"chosen", "memory-map">>
DcpNub == <<"arm-io", "dcp", "iop-dcp-nub">>
InvalidateHmac == <<"arm-io", "sep", "iop-sep-nub", "InvalidateHmac">>
PanicLogSize == 1
Frequency == U32(1048576)
IBootName == Str(<<113, 101, 109, 117, 45, 115, 112, 116, 109>>)   \* "qemu-sptm"

Paths(d) == {d[i].path : i \in DOMAIN d}
Node(d, p) == d[CHOOSE i \in DOMAIN d : d[i].path = p]
HasProp(d, p, n) == p \in Paths(d) /\ n \in DOMAIN Node(d, p).props

\* A node with other properties; the tree with each of names set to v at p; with
\* the names removed there; and without the node at p and what is below it.
With(n, ps) == [path |-> n.path, compat |-> n.compat, props |-> ps]
Set(n, names, v) ==
    With(n, [x \in DOMAIN n.props \cup names |-> IF x \in names THEN v ELSE n.props[x]])
Unset(n, names) == With(n, [x \in DOMAIN n.props \ names |-> n.props[x]])

PutAt(n, p, names, v) == IF n.path = p THEN Set(n, names, v) ELSE n
Put(d, p, names, v) == [i \in DOMAIN d |-> PutAt(d[i], p, names, v)]
PopAt(n, p, names) == IF n.path = p THEN Unset(n, names) ELSE n
Pop(d, p, names) == [i \in DOMAIN d |-> PopAt(d[i], p, names)]
RemoveChild(d, p) == [i \in {j \in DOMAIN d : ~IsPrefix(p, d[j].path)} |-> d[i]]

-----------------------------------------------------------------------------
\* What the code indexes without a try: it raises if a node is missing.
Required ==
    {ArmIo, <<"arm-io", "aic">>, <<"arm-io", "uart0">>, <<"arm-io", "sgx">>,
     <<"arm-io", "sep", "iop-sep-nub">>, <<"arm-io", "dockchannel-uart">>,
     Chosen, MemoryMap, Amcc, Cpu0, <<"defaults">>}
    \cup {Append(Amcc, Ctrrs[i]) : i \in DOMAIN Ctrrs}

Fixable(d) ==
    /\ Required \subseteq Paths(d)
    /\ HasProp(d, <<>>, "secure-root-prefix")
    /\ HasProp(d, ArmIo, "soc-generation") /\ Node(d, ArmIo).compat \cap DOMAIN PlatformOf # {}
    /\ HasProp(d, Chosen, "random-seed")
    /\ HasProp(d, <<"arm-io", "uart0">>, "AAPL,phandle")
    /\ Node(d, <<"arm-io", "aic">>).compat # {}

GetPlatformName(d) ==
    Str(PlatformOf[CHOOSE c \in Node(d, ArmIo).compat : c \in DOMAIN PlatformOf])

\* "soc-generation" is an H and two digits; 0 when it is spelled otherwise.
GetSocGen(d) == LET g == Node(d, ArmIo).props["soc-generation"]
                IN  IF g.t = "str" /\ g.v[1] = 72
                    THEN 10 * (g.v[2] - 48) + (g.v[3] - 48) ELSE 0

\* Where DRAM begins.
DramStart(gen) == IF gen <= 14 THEN 32768 ELSE 1048576

FixupMachine(d, env) ==
    LET seed == Node(d, Chosen).props["random-seed"]
        phandle == Node(d, <<"arm-io", "uart0">>).props["AAPL,phandle"]
        root == Put(d, <<>>, {"platform-name"}, GetPlatformName(d))
        dram == Put(Put(root, Chosen, {"dram-base"}, U64(DramStart(GetSocGen(d)))),
                    Chosen, {"dram-size"}, U64(env.dram))
        named == Put(Put(dram, Chosen, {"firmware-version", "system-firmware-version"}, IBootName),
                     Cpu0, {"state"}, Str(<<114, 117, 110, 110, 105, 110, 103>>))
        boot == Put(Put(named, Chosen, {"random-seed"}, Bytes([i \in DOMAIN seed.v |-> 65])),
                    Chosen, {"kernel-ctrr-to-be-enabled"}, U32(0))
        clocks == Put(Put(boot, <<"defaults">>, {"serial-device"}, phandle),
                      Cpu0, {"memory-frequency", "peripheral-frequency", "fixed-frequency",
                             "clock-frequency", "timebase-frequency"}, Frequency)
        banks == Put(clocks, Chosen, {"nvram-bank-count", "nvram-current-bank"}, U32(1))
    IN  Put(Put(banks, Chosen, {"nvram-proxy-data"}, Bytes(env.nvram)),
            Chosen, {"nvram-total-size", "nvram-bank-size"}, U32(Len(env.nvram)))

\* The panic log's size; its address is left to the loader.
FixupPram(d, env) ==
    IF env.pram /\ <<"pram">> \in Paths(d)
    THEN Put(Put(d, <<"pram">>, {"reg"}, Bytes(Number(0, 8) \o Number(PanicLogSize, 8))),
             Chosen, {"embedded-panic-log-size"}, Bytes(Number(PanicLogSize, 4)))
    ELSE d

FixupHmac(d) ==
    Put(Put(Put(d, InvalidateHmac, {"config"}, U32(1)),
            InvalidateHmac, {"sio-hmac1-offset"}, U64(0)),
        InvalidateHmac, {"sio-hmac1-disable-mask"}, [t |-> "u64", v |-> [i \in 1 .. 8 |-> 255]])

IsDart(n) == \E c \in n.compat : c \in Matches["dart,"]

\* A bug: the numbering starts again in every subtree of arm-io.
AssignDartIdsPerBus(d) ==
    [i \in DOMAIN d |->
        IF IsDart(d[i])
        THEN Set(d[i], {"dart-id"},
                 U32(Cardinality({j \in DOMAIN d : /\ j < i /\ IsDart(d[j])
                                                   /\ Front(d[j].path) = Front(d[i].path)})))
        ELSE d[i]]

\* Every DART, awake or not, numbered in tree order.
DartsBefore(d, i) == {j \in DOMAIN d : j < i /\ IsDart(d[j])}
AssignDartIds(d) ==
    [i \in DOMAIN d |->
        IF IsDart(d[i])
        THEN Set(d[i], {"dart-id"}, U32(Cardinality(DartsBefore(d, i))))
        ELSE d[i]]

RegionProps == {"region-base", "region-size"}

FixupDcpRegion(d, env) == IF env.dcpRegion THEN Put(d, DcpNub, RegionProps, U64(0)) ELSE d

FixupDcpRoutes(d, env) ==
    IF env.noRoutes
    THEN Pop(d, DcpNub, {"routes"} \cup (IF env.dropNofwsvc THEN {"no-firmware-service"} ELSE {}))
    ELSE d

FixupExclaves(d, env) ==
    LET flags == {n \in {"exclaves-enabled", "has-exclaves"} : HasProp(d, <<"product">>, n)}
    IN  IF env.noExclaves THEN Put(d, <<"product">>, flags, U32(0)) ELSE d

\* A bug: the DCP's own power flag is left in place.
NormalizeDcpKeepingPower(d, env) ==
    IF env.normalize
    THEN Put(Put(Pop(d, DcpNub, {"no-firmware-service", "routes", "watchdog-enable"}),
                 DcpNub, {"power-managed"}, U32(1)), DcpNub, RegionProps, U64(0))
    ELSE d

\* Make the DCP's nub look like the storage coprocessor's.
NormalizeDcp(d, env) ==
    LET bare == Pop(d, DcpNub, {"coredump-enable", "coredump-rel-privacy-approved",
                                "no-firmware-service", "routes", "user-power-managed",
                                "watchdog-enable"})
    IN  IF env.normalize
        THEN Put(Put(Put(bare, DcpNub, {"power-managed"}, U32(1)),
                     DcpNub, RegionProps, U64(0)),
                 DcpNub, {"continuous-time", "crashlog-non-fatal", "no-hibernate-sleep",
                          "shutdown-sleep"}, Null)
        ELSE d

PowerFlags == {"user-power-managed", "power-managed", "dont-power-on"}

FixupPowerMode(d, env) ==
    LET bare == Pop(d, DcpNub, PowerFlags \cup {"quiesced"})
    IN  CASE env.powerMode = "" -> d
          [] env.powerMode = "auto" -> Put(bare, DcpNub, {"power-managed"}, U32(1))
          [] env.powerMode = "already-on" -> Put(bare, DcpNub, {"dont-power-on"}, Null)
          [] OTHER -> bare

\* One of amcc's four lock registers, 0x100 bytes apart.
FixupCtrr(d, i) ==
    LET p == Append(Amcc, Ctrrs[i])
        limits == Put(Put(d, p, {"lower-limit-reg-offset"}, U32(256 * (i - 1) + 16)),
                      p, {"upper-limit-reg-offset"}, U32(256 * (i - 1) + 32))
        masks == Put(limits, p, {"upper-limit-reg-mask", "lower-limit-reg-mask"},
                     [t |-> "u32", v |-> [k \in 1 .. 4 |-> 255]])
    IN  Put(Put(masks, p, {"page-size-shift", "lock-reg-offset", "lock-reg-mask",
                            "lock-reg-value", "enable-reg-offset",
                            "write-disable-reg-offset"}, U32(0)),
            p, {"enable-reg-mask", "enable-reg-value", "write-disable-reg-mask",
                "write-disable-reg-value"}, U32(1))

FixupAmcc(d) ==
    LET amcc == Put(Put(Put(Put(d, Amcc, {"aperture-count", "plane-count"}, U32(1)),
                            Amcc, {"aperture-size", "plane-size"}, U32(16384)),
                        Amcc, {"aperture-phys-addr"}, U64(8704)),
                    Amcc, {"plane-stride", "cache-status-reg-offset",
                           "cache-status-reg-mask", "cache-status-reg-value"}, U32(0))
    IN  FixupCtrr(FixupCtrr(FixupCtrr(FixupCtrr(amcc, 1), 2), 3), 4)

\* A fake clock: a property that promises it and a node at the end of the tree.
RtcNode ==
    Set(Set([path |-> <<"rtc">>, compat |-> {}, props |-> <<>>], {"name"}, Str(<<114, 116, 99>>)),
        {"__placeholder_val"}, Null)
FixupRtc(d) ==
    LET end == Max(DOMAIN d) + 1
        root == Put(d, <<>>, {"no-rtc"}, Null)
    IN  [i \in DOMAIN d \cup {end} |-> IF i = end THEN RtcNode ELSE root[i]]

\* A device is awake if its driver is supported or its path ends in a named one.
Kept(n, env) ==
    \/ \E x \in SupportedDrivers \cup env.extraDrivers : n.compat \cap Matches[x] # {}
    \/ \E k \in env.extraNodes : IsSuffix(k, n.path)

MuteAt(n, env) ==
    IF Kept(n, env) THEN n ELSE [path |-> n.path, compat |-> {}, props |-> n.props]
DelCompat(d, env) == [i \in DOMAIN d |-> MuteAt(d[i], env)]

FixupAic(d) ==
    LET aic == <<"arm-io", "aic">>
    IN  IF Node(d, aic).compat \cap (Matches["aic,2"] \cup Matches["aic,3"]) # {}
        THEN Put(d, aic, {"aic-iack-offset"}, U64(4096)) ELSE d

\* The regions the loader fills in.
MapEntries ==
    {"TXM-ro", "TXM-rx", "TXM-bx", "TXM-rw", "TXM-le", "TXM-entry", "TXM-virt", "TrustCache",
     "BootKC-rx", "BootKC-bx", "BootKC-ro", "BootKC-rs", "BootKC-rw", "BootKC-le",
     "BootKC-virt", "BootKC-entry", "DeviceTree", "SPTM-ro", "SPTM-rm", "SPTM-rx", "SPTM-rw",
     "SPTM-le", "SPTM-entry", "SPTM-virt", "BootArgs", "slide", "CL4-rx", "CL4-ro", "CL4-rw",
     "CL4-le", "CL4-dummypage", "CL4-entry", "CL4-virt", "RAMDisk"}

FixupSptm(d) ==
    RemoveChild(Put(Put(d, MemoryMap, MapEntries, Bytes([i \in 1 .. 16 |-> 255])),
                    MemoryMap, {"slide"}, Bytes(Zeros(16))),
                <<"arm-io", "sgx">>)

Fixup(d, env) ==
    LET dcp == FixupPowerMode(NormalizeDcp(FixupExclaves(FixupDcpRoutes(FixupDcpRegion(
                 AssignDartIds(FixupHmac(FixupPram(FixupMachine(d, env), env))),
                 env), env), env), env), env)
        machine == FixupAmcc(Put(FixupRtc(RemoveChild(dcp, <<"arm-io", "dockchannel-uart">>)),
                                 <<"defaults">>, {"vmm-present"}, U32(1)))
    IN  Pop(FixupSptm(FixupAic(DelCompat(machine, env))), <<>>, {"secure-root-prefix"})

-----------------------------------------------------------------------------
\* The tool: the output is empty, for it is opened first, unless all went well,
\* with the interrupt controller still awake when its turn comes.
DtFixupTool(file, env) ==
    LET d == DecodeNode(file)
    IN  IF Fixable(d) /\ Kept(Node(d, <<"arm-io", "aic">>), env)
        THEN EncodeNode(Fixup(d, env)) ELSE <<>>
=============================================================================
