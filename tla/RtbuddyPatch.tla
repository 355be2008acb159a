---------------------------- MODULE RtbuddyPatch ----------------------------
(* The patchers that change single instructions at fixed addresses: five of *)
(* RTBuddy's start() and one of the shared-region set-up.  Each first       *)
(* compares the instructions around its site with the ones it was written   *)
(* for and exits without writing when one differs; all checks precede the   *)
(* first write.                                                             *)
(*                                                                          *)
(* A kernelcache is a function from the sites these tools look at to the    *)
(* instruction there; "absent" stands for a site of a kext that the file    *)
(* does not have, or whose __TEXT_EXEC it lacks.                            *)
EXTENDS Naturals, FiniteSets, Sequences

\* The build the addresses were taken from.
Expected ==
    [finding |-> "add x3, #0x3f4",  success |-> "add x3, #0x412",
     cmp     |-> "cmp w0, #4",      gate    |-> "b.lo exit",
     offset  |-> "mov x22, #0",     index   |-> "mov x24, #0",
     service |-> "mov x0, x28",     timeout |-> "mov x1, #-1",
     wait    |-> "bl wait",         found   |-> "cbz x0, error",
     ldr     |-> "ldr x0, secure",  notify  |-> "bl notify",
     filler  |-> "udf",             mapinfo |-> "cbnz w8, reject"]
Sites == DOMAIN Expected

Exactly(sites) == [s \in sites |-> {Expected[s]}]

\* A tool is what it accepts at the sites it checks and what it then writes.
RouteTool ==
    [checks |-> Exactly({"finding", "success", "found"}),
     writes |-> [found |-> "nop"]]

\* Only the mnemonic of the comparison is looked at.
RouteSkipTool ==
    [checks |-> [Exactly({"finding", "success", "cmp", "gate"})
                    EXCEPT !.cmp = {"cmp w0, #4", "cmp w0, #8"}],
     writes |-> [gate |-> "b exit"]]

RouteTimeoutTool ==
    [checks |-> [Exactly({"finding", "success", "service", "timeout", "wait"})
                    EXCEPT !.wait = {"bl wait", "bl other"}],
     writes |-> [timeout |-> "mov x1, #0"]]

RouteSkip0Tool ==
    [checks |-> Exactly({"finding", "success", "offset", "index"}),
     writes |-> [offset |-> "mov x22, #4", index |-> "mov x24, #1"]]

\* A bug: the call is overwritten by cbz x0, +4, which goes on to the next
\* instruction whether or not it is taken (the first version of this patch).
SecureProxyToolV1 ==
    [checks |-> Exactly({"ldr", "notify"}),
     writes |-> [notify |-> "cbz x0, +4"]]

\* Any bl will do at the call; the filler must still be zero.
SecureProxyTool ==
    [checks |-> [Exactly({"ldr", "notify", "filler"})
                    EXCEPT !.notify = {"bl notify", "bl trampoline"}],
     writes |-> [filler |-> "trampoline", notify |-> "bl trampoline"]]

SrmapTool ==
    [checks |-> Exactly({"mapinfo"}),
     writes |-> [mapinfo |-> "nop"]]

Tools == [route |-> RouteTool, skip |-> RouteSkipTool,
          timeout |-> RouteTimeoutTool, skip0 |-> RouteSkip0Tool,
          secureproxy |-> SecureProxyTool, srmap |-> SrmapTool]

Accepts(code, tool) == \A s \in DOMAIN tool.checks : code[s] \in tool.checks[s]
Patched(code, tool) ==
    [s \in DOMAIN code |-> IF s \in DOMAIN tool.writes THEN tool.writes[s] ELSE code[s]]

-----------------------------------------------------------------------------
(* What the patched instructions do when RTBuddy starts: kernel code, known *)
(* here from the boots that were tried.  routes[1] is the secure route;     *)
(* each is TRUE if the service it leads to exists.                          *)

\* A coprocessor with fewer routes, like the storage's, takes no part in this.
MinRoutes == 4

\* The routes the loop visits: as many as the index, which starts at zero or
\* one, has to go, and from where the offset into the list starts.
Visited(code, routes) ==
    LET first == IF code.offset = "mov x22, #4" THEN 2 ELSE 1
        turns == IF code.index = "mov x24, #1" THEN Len(routes) - 1 ELSE Len(routes)
    IN  {i \in DOMAIN routes : first <= i /\ i < first + turns}

\* What a missing service does to start(): it is waited for, or the null that
\* comes back at once is a panic or, past the check, dereferenced.
Unattached(code) ==
    IF code.timeout = "mov x1, #-1" THEN "hangs"
    ELSE IF code.found = "cbz x0, error" THEN "panics" ELSE "faults"

\* How start() ends: without a loop nothing fills in the routes AppleDCP uses,
\* and it registers only with the secure route attached.
LoopOutcome(code, routes) ==
    LET visited == Visited(code, routes)
    IN  IF Len(routes) < MinRoutes THEN "registered"
        ELSE IF code.gate = "b exit" THEN "unpopulated"
        ELSE IF \E i \in visited : ~routes[i] THEN Unattached(code)
        ELSE IF 1 \in visited THEN "registered" ELSE "unregistered"

\* The notification of the secure proxy, x0 being null when it has none.
NotifyOutcome(code, secure) ==
    CASE code.notify = "bl notify" -> IF secure THEN "notified" ELSE "faults"
      [] code.notify = "bl trampoline" /\ code.filler = "trampoline" ->
            IF secure THEN "notified" ELSE "skipped"
      [] code.notify = "cbz x0, +4" -> "skipped"
      [] OTHER -> "faults"
=============================================================================
