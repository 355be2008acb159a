---------------------------- MODULE MCHostTools ----------------------------
(* Files for the bench.  Registers, pages and scan windows are scaled down.  *)
EXTENDS HostTools, TLC

MCReach == [walk |-> 40, ret |-> 12, call |-> 8, level |-> 20, stub |-> 40]

\* The build the RTBuddy patchers were written for, and every file that differs
\* from it in one or two sites: another instruction, or no such kext.
Foreign == {Expected} \cup
    {[Expected EXCEPT ![s] = v, ![t] = u] :
        s, t \in Sites, v \in {"other", "absent"}, u \in {"other"}}
MCBuilds == Foreign \cup
    {[Expected EXCEPT !.cmp = "cmp w0, #8"], [Expected EXCEPT !.wait = "bl other"],
     [Expected EXCEPT !.notify = "bl trampoline"]}

-----------------------------------------------------------------------------
UpdateTask == "update_task(%p) copyin failed"
MCNamed == {ANCHOR, UpdateTask}
MCHolds == [s \in MCNamed |-> {s}]

STP == Word("stp")
SUBSP == Word("subsp")
OTHER_ == Word("other")
Level == 100

\* Functions by their landing pad, with a body.
Landed(pad, body) ==
    CASE pad = "pac" -> <<PACIBSP, SUBSP, STP, STP>> \o body \o <<RETAB>>
      [] pad = "bti" -> <<BTI_C, STP, OTHER_>> \o body \o <<RET>>
      [] pad = "stp" -> <<STP, STP, OTHER_>> \o body \o <<RET>>

\* shared_region_check_np at place base, calling remap and another function:
\* more is how many errors it sets after the message, calls what else it calls
\* between the set-up and the message, gate how the trace level is loaded.
CheckNp(remap, more, early, calls, gate) ==
    <<PACIBSP, STP, STP, AdrpPage("x8", Level), Ldr("x9", 0), OTHER_, Movz(ENOMEM)>>
    \o (IF early THEN <<RETAB>> ELSE <<>>)
    \o (IF calls \in {"before", "both"} THEN <<Bl(1), MOV_X8_X0>> ELSE <<>>)
    \o <<Bl(remap), MOV_X8_X0>>
    \o (IF calls \in {"after", "both"} THEN <<Bl(1)>> ELSE <<>>)
    \o gate
    \o <<Adrp(ANCHOR), Add(ANCHOR), OTHER_>>
    \o [i \in 1 .. more |-> Movz(ENOMEM)] \o <<RETAB>>

Gates == {<<AdrpPage("x8", Level), Ldr("x8", 0)>>,
          <<AdrpPage("x10", Level), Ldr("x10", 1), AdrpPage("x8", Level), Ldr("x8", 0),
            Ldr("x10", 2)>>}

ProbedOf(pad, task, more, early, calls, gate, segs, strs) ==
    LET first == <<STP, OTHER_, Movz(ENOMEM), RET>>
        remap == Len(first) + 1
        a == first \o Landed(pad, <<OTHER_>>)
        named == Len(a) + 1
        b == a \o Landed(task, <<Adrp(UpdateTask), Add(UpdateTask), Movz(ENOMEM)>>)
        np == Len(b) + 1
        w == b \o CheckNp(remap, more, early, calls, gate) \o Landed("pac", <<OTHER_>>)
    IN  [img |-> [w |-> w, mem |-> Level :> 0 @@ (Level + 1 :> 2) @@ (Level + 2 :> 4096),
                  strs |-> strs, seg |-> IF segs THEN [lo |-> 1, hi |-> Len(w)] ELSE <<>>],
         np |-> np .. Len(w) - 6, remap |-> remap .. remap + 2, level |-> Level,
         fns |-> (ANCHOR :> np .. np + 2) @@ (UpdateTask :> named .. named + 2)]

MCProbed ==
    {ProbedOf(pad, task, more, early, calls, gate, TRUE, MCNamed) :
        pad \in {"pac", "bti", "stp"}, task \in {"pac", "bti", "stp"}, more \in 0 .. 5,
        early \in BOOLEAN, calls \in {"none", "before", "after", "both"}, gate \in Gates}
    \cup {ProbedOf("pac", "pac", 2, FALSE, "none", <<>>, segs, strs) :
              segs \in BOOLEAN, strs \in SUBSET MCNamed}

-----------------------------------------------------------------------------
MCCaches == {[hdr |-> [span |-> s, slide |-> m], region |-> 6] :
                s \in 1 .. 7, m \in 0 .. 4}

MachO(dir, kind_, h) == [dir |-> dir, kind |-> kind_, cdhash |-> h]
Roots == SUBSET {MachO("usr", "macho", "h1"), MachO("usr", "macho", ""),
                 MachO("com.apple.dyld", "macho", "h2"), MachO("usr", "link", "h1"),
                 MachO("usr", "data", "h3")}
MCHashRuns == {[hashes |-> h, old |-> o, root |-> r, cx |-> c] :
                  h \in SUBSET {"h0", "h1"}, o \in {{}, {"h0"}}, r \in Roots,
                  c \in {{"cx"}, {"h1", "cx"}}}

-----------------------------------------------------------------------------
Ins(op, d, n, m) == [op |-> op, wide |-> FALSE, d |-> d, n |-> n, m |-> m]
Fill(n) == [i \in 1 .. n |-> Ins("nop", 3, 3, 3)]

\* The two forms of the conversion, up to four instructions after the load, and
\* a shift of a register that is not the size.
MCDrivers ==
    {[result |-> "bytes",
      code |-> <<Ins("ldrsize", 0, 0, 0)>> \o Fill(k) \o <<Ins("lsl", 0, 0, 0)>>
               \o Fill(j) \o <<Ins("lsl", 2, 2, 2)>>] : k \in 0 .. 3, j \in 0 .. 3}
    \cup
    {[result |-> "blocks",
      code |-> Fill(j) \o <<Ins("ldrsize", 0, 0, 0)>> \o Fill(k)
               \o <<Ins("add", 0, 1, 0), Ins("sub", 0, 0, 0), Ins("udiv", 0, 0, 1)>>] :
          k \in 0 .. 3, j \in 0 .. 3}
=============================================================================
