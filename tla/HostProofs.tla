----------------------------- MODULE HostProofs -----------------------------
(* For every file and whatever tools are run on it in whatever order: how    *)
(* RTBuddy's start() ends is what the matrix of experiments says, a cache    *)
(* fits its region once it has been clamped, no trusted hash is lost however *)
(* often the merge stops unless a copy fails, the probes stay in their       *)
(* places and do not change what the others find, and a widened driver       *)
(* reports the size exactly.                                                 *)
EXTENDS HostTools, FiniteSetTheorems, WellFoundedInduction, TLAPS

\* Each instruction is what a tool that was run writes there, or untouched.
SiteInv ==
    kind = "rtbuddy" =>
        /\ orig \in Builds /\ file = [s \in Sites |-> file[s]]
        /\ applied \subseteq DOMAIN Tools
        /\ \A s \in Sites :
              \/ \E t \in applied : s \in DOMAIN Tools[t].writes /\ file[s] = Tools[t].writes[s]
              \/ file[s] = orig[s] /\ \A t \in applied : s \notin DOMAIN Tools[t].writes

CacheInv ==
    kind = "cache" =>
        /\ facts \in Caches /\ orig = facts.hdr
        /\ file \in {orig, [orig EXCEPT !.slide = 0]}
        /\ "clamp" \in applied => file.slide = 0 \/ Fits(file, facts.region)
        /\ Fits(orig, facts.region) /\ "clampForce" \notin applied => file = orig
        /\ applied \subseteq {"clampDry"} => file = orig

\* The hashes of the root's programs.
Programs == CdhashesOf(facts.root)

HashInv ==
    kind = "hashes" =>
        /\ file = [hashes |-> file.hashes, orig |-> file.orig, saved |-> file.saved,
                   cx |-> file.cx, tc |-> file.tc, at |-> file.at]
        /\ file.at = "merge" => file.cx = facts.cx
        /\ file.at = "build" => facts.cx \subseteq file.hashes
        /\ file.tc # {} => facts.cx \subseteq file.tc
        /\ "uncopied" \notin applied =>
              /\ NothingLost
              /\ "gen" \in applied => Programs \subseteq file.hashes
              /\ file.at \in {"extract", "merge"} => file.orig = file.hashes /\ file.saved

\* The tools of one kind of file.
Other == \/ \E t \in DOMAIN Tools : PatchRtbuddy(t)
         \/ \E t \in ProbeTools : RunProbe(t)
         \/ WidenMd0

-----------------------------------------------------------------------------
LEMMA OtherKeeps ==
  ASSUME Other
  PROVE  kind' = kind /\ kind \notin {"cache", "hashes"}
BY DEF Other, PatchRtbuddy, RunProbe, WidenMd0, Becomes

(* The tables of the RTBuddy patchers.                                      *)
LEMMA ToolTables ==
  /\ DOMAIN Tools = {"route", "skip", "timeout", "skip0", "secureproxy", "srmap"}
  /\ Tools["route"].writes = [found |-> "nop"]
  /\ Tools["skip"].writes = [gate |-> "b exit"]
  /\ Tools["timeout"].writes = [timeout |-> "mov x1, #0"]
  /\ Tools["skip0"].writes = [offset |-> "mov x22, #4", index |-> "mov x24, #1"]
  /\ Tools["secureproxy"].writes = [filler |-> "trampoline", notify |-> "bl trampoline"]
  /\ Tools["srmap"].writes = [mapinfo |-> "nop"]
<1>1. /\ DOMAIN Tools = {"route", "skip", "timeout", "skip0", "secureproxy", "srmap"}
      /\ Tools["route"] = RouteTool /\ Tools["skip"] = RouteSkipTool
      /\ Tools["timeout"] = RouteTimeoutTool /\ Tools["skip0"] = RouteSkip0Tool
      /\ Tools["secureproxy"] = SecureProxyTool /\ Tools["srmap"] = SrmapTool
  BY DEF Tools
<1>2. RouteTool.writes = [found |-> "nop"] /\ SrmapTool.writes = [mapinfo |-> "nop"]
  BY DEF RouteTool, SrmapTool
<1>3. RouteSkip0Tool.writes = [offset |-> "mov x22, #4", index |-> "mov x24, #1"]
  BY DEF RouteSkip0Tool
<1>4. RouteSkipTool.writes = [gate |-> "b exit"]
  BY Zenon DEF RouteSkipTool
<1>5. RouteTimeoutTool.writes = [timeout |-> "mov x1, #0"]
  BY Zenon DEF RouteTimeoutTool
<1>6. SecureProxyTool.writes = [filler |-> "trampoline", notify |-> "bl trampoline"]
  BY Zenon DEF SecureProxyTool
<1> QED BY <1>1, <1>2, <1>3, <1>4, <1>5, <1>6

(* Each of the sites start() depends on is written by one tool.            *)
LEMMA OneWriter ==
  ASSUME NEW t \in DOMAIN Tools
  PROVE  /\ "gate" \in DOMAIN Tools[t].writes <=> t = "skip"
         /\ "offset" \in DOMAIN Tools[t].writes <=> t = "skip0"
         /\ "index" \in DOMAIN Tools[t].writes <=> t = "skip0"
         /\ "timeout" \in DOMAIN Tools[t].writes <=> t = "timeout"
         /\ "found" \in DOMAIN Tools[t].writes <=> t = "route"
         /\ "filler" \in DOMAIN Tools[t].writes <=> t = "secureproxy"
         /\ "notify" \in DOMAIN Tools[t].writes <=> t = "secureproxy"
<1>1. /\ DOMAIN Tools["route"].writes = {"found"}
      /\ DOMAIN Tools["skip"].writes = {"gate"}
      /\ DOMAIN Tools["timeout"].writes = {"timeout"}
      /\ DOMAIN Tools["skip0"].writes = {"offset", "index"}
      /\ DOMAIN Tools["secureproxy"].writes = {"filler", "notify"}
      /\ DOMAIN Tools["srmap"].writes = {"mapinfo"}
  BY ToolTables
<1>2. t \in {"route", "skip", "timeout", "skip0", "secureproxy", "srmap"}
  BY ToolTables
<1> HIDE DEF Tools
<1> QED BY <1>1, <1>2

LEMMA TablesAtSites ==
  /\ Tools["timeout"].writes["timeout"] = "mov x1, #0"
  /\ Tools["skip"].writes["gate"] = "b exit"
  /\ Tools["skip0"].writes["offset"] = "mov x22, #4"
  /\ Tools["skip0"].writes["index"] = "mov x24, #1"
  /\ Tools["secureproxy"].writes["filler"] = "trampoline"
  /\ Tools["secureproxy"].writes["notify"] = "bl trampoline"
<1>1. ASSUME NEW w, w = [timeout |-> "mov x1, #0"] PROVE w["timeout"] = "mov x1, #0"
  BY <1>1
<1>2. ASSUME NEW w, w = [gate |-> "b exit"] PROVE w["gate"] = "b exit"
  BY <1>2
<1>3. ASSUME NEW w, w = [filler |-> "trampoline", notify |-> "bl trampoline"]
      PROVE  w["filler"] = "trampoline" /\ w["notify"] = "bl trampoline"
  BY <1>3
<1>4. ASSUME NEW w, w = [offset |-> "mov x22, #4", index |-> "mov x24, #1"]
      PROVE  w["offset"] = "mov x22, #4" /\ w["index"] = "mov x24, #1"
  BY <1>4
<1>5. Tools["timeout"].writes["timeout"] = "mov x1, #0"
  BY <1>1, ToolTables
<1>6. Tools["skip"].writes["gate"] = "b exit"
  BY <1>2, ToolTables
<1>7. /\ Tools["secureproxy"].writes["filler"] = "trampoline"
      /\ Tools["secureproxy"].writes["notify"] = "bl trampoline"
  BY <1>3, ToolTables
<1>8. /\ Tools["skip0"].writes["offset"] = "mov x22, #4"
      /\ Tools["skip0"].writes["index"] = "mov x24, #1"
  BY <1>4, ToolTables
<1> QED BY <1>5, <1>6, <1>7, <1>8

LEMMA SiteInit == Init => SiteInv
<1> SUFFICES ASSUME Init, kind = "rtbuddy" PROVE SiteInv
  BY DEF SiteInv
<1>1. orig \in Builds /\ file = orig /\ applied = {}
  BY DEF Init
<1> QED BY <1>1, BuildsAssumption DEF SiteInv

LEMMA PatchKeeps ==
  ASSUME SiteInv, NEW t \in DOMAIN Tools, PatchRtbuddy(t)
  PROVE  SiteInv'
<1>1. /\ kind = "rtbuddy" /\ UNCHANGED <<kind, facts, orig>>
      /\ applied' = applied \cup {t} /\ file' = Patched(file, Tools[t])
  BY DEF PatchRtbuddy, Becomes
<1>2. /\ orig \in Builds /\ file = [s \in Sites |-> file[s]]
      /\ applied \subseteq DOMAIN Tools
      /\ \A s \in Sites :
            \/ \E u \in applied : s \in DOMAIN Tools[u].writes /\ file[s] = Tools[u].writes[s]
            \/ file[s] = orig[s] /\ \A u \in applied : s \notin DOMAIN Tools[u].writes
  BY <1>1 DEF SiteInv
<1>3. file' = [s \in Sites |-> IF s \in DOMAIN Tools[t].writes THEN Tools[t].writes[s]
                               ELSE file[s]]
  BY <1>1, <1>2 DEF Patched
<1> HIDE DEF Tools, Sites
<1>4. file' = [s \in Sites |-> file'[s]]
  BY <1>3
<1>5. ASSUME NEW s \in Sites
      PROVE  \/ \E u \in applied' : s \in DOMAIN Tools[u].writes /\ file'[s] = Tools[u].writes[s]
             \/ file'[s] = orig[s] /\ \A u \in applied' : s \notin DOMAIN Tools[u].writes
  <2>1. CASE s \in DOMAIN Tools[t].writes
    BY <1>1, <1>3, <2>1
  <2>2. CASE s \notin DOMAIN Tools[t].writes
    BY <1>1, <1>2, <1>3, <2>2
  <2> QED BY <2>1, <2>2
<1> QED BY <1>1, <1>2, <1>4, <1>5 DEF SiteInv

LEMMA SiteStep == SiteInv /\ [Next]_vars => SiteInv'
<1>1. ASSUME SiteInv, Next
      PROVE  SiteInv'
  <2>1. CASE \E t \in DOMAIN Tools : PatchRtbuddy(t)
    BY <1>1, <2>1, PatchKeeps
  <2>2. CASE ~\E t \in DOMAIN Tools : PatchRtbuddy(t)
    <3>1. kind' = kind /\ kind # "rtbuddy"
      BY <1>1, <2>2 DEF Next, RunProbe, ClampSlide, GenHashes, MergeCryptex, WidenMd0, Becomes
    <3> QED BY <3>1 DEF SiteInv
  <2> QED BY <2>1, <2>2
<1>2. ASSUME SiteInv, UNCHANGED vars
      PROVE  SiteInv'
  BY <1>2 DEF vars, SiteInv
<1> QED BY <1>1, <1>2

(* A site with one writer is what that tool writes once it was run, and     *)
(* untouched before.                                                        *)
LEMMA SiteIs ==
  ASSUME SiteInv, kind = "rtbuddy", NEW s \in Sites, NEW t \in DOMAIN Tools,
         \A u \in DOMAIN Tools : s \in DOMAIN Tools[u].writes <=> u = t
  PROVE  file[s] = IF t \in applied THEN Tools[t].writes[s] ELSE orig[s]
<1>1. /\ applied \subseteq DOMAIN Tools
      /\ \/ \E u \in applied : s \in DOMAIN Tools[u].writes /\ file[s] = Tools[u].writes[s]
         \/ file[s] = orig[s] /\ \A u \in applied : s \notin DOMAIN Tools[u].writes
  BY DEF SiteInv
<1> HIDE DEF Tools
<1> QED BY <1>1

(* What the patchers make of the instructions of start().                   *)
LEMMA StartSites ==
  ASSUME SiteInv, kind = "rtbuddy", KnownStart
  PROVE  /\ file["gate"] = IF "skip" \in applied THEN "b exit" ELSE "b.lo exit"
         /\ file["offset"] = IF "skip0" \in applied THEN "mov x22, #4" ELSE "mov x22, #0"
         /\ file["index"] = IF "skip0" \in applied THEN "mov x24, #1" ELSE "mov x24, #0"
         /\ "secureproxy" \in applied =>
               file["filler"] = "trampoline" /\ file["notify"] = "bl trampoline"
<1>1. {"gate", "offset", "index", "timeout", "found", "filler", "notify"} \subseteq Sites
  BY DEF Sites, Expected
<1>2. {"skip", "skip0", "secureproxy"} \subseteq DOMAIN Tools
  BY ToolTables
<1>3. /\ orig["gate"] = "b.lo exit" /\ orig["offset"] = "mov x22, #0"
      /\ orig["index"] = "mov x24, #0"
  <2>1. /\ Expected["gate"] = "b.lo exit" /\ Expected["offset"] = "mov x22, #0"
        /\ Expected["index"] = "mov x24, #0"
    BY DEF Expected
  <2> QED BY <2>1 DEF KnownStart
<1> HIDE DEF Tools, Sites
<1>4. file["gate"] = IF "skip" \in applied THEN Tools["skip"].writes["gate"] ELSE orig["gate"]
  BY <1>1, <1>2, OneWriter, SiteIs
<1>5. /\ file["offset"] = IF "skip0" \in applied THEN Tools["skip0"].writes["offset"]
                          ELSE orig["offset"]
      /\ file["index"] = IF "skip0" \in applied THEN Tools["skip0"].writes["index"]
                         ELSE orig["index"]
  BY <1>1, <1>2, OneWriter, SiteIs
<1>6. "secureproxy" \in applied =>
         /\ file["filler"] = Tools["secureproxy"].writes["filler"]
         /\ file["notify"] = Tools["secureproxy"].writes["notify"]
  BY <1>1, <1>2, OneWriter, SiteIs
<1> QED BY <1>3, <1>4, <1>5, <1>6, TablesAtSites

(* The five RTBuddy patchers, for every file and in every order: with every *)
(* service there and the loop left whole a coprocessor registers; without   *)
(* the secure one it does not, and ends cleanly behind a loop that begins   *)
(* past it; and no patcher undoes the guard of the notification.            *)
THEOREM StartCorrect == Spec => []StartMatrix
<1>1. ASSUME SiteInv
      PROVE  StartMatrix
  <2> SUFFICES ASSUME kind = "rtbuddy", KnownStart,
                      NEW n \in 1 .. MinRoutes + 1, NEW routes \in [1 .. n -> BOOLEAN]
               PROVE  LET end == LoopOutcome(file, routes)
                          rest == \A i \in DOMAIN routes \ {1} : routes[i]
                      IN  /\ (routes[1] /\ rest) /\ {"skip", "skip0"} \cap applied = {} =>
                                  end = "registered"
                          /\ ~routes[1] /\ rest /\ Len(routes) >= MinRoutes =>
                                  /\ end # "registered"
                                  /\ end = "unregistered" <=>
                                        "skip0" \in applied /\ "skip" \notin applied
                          /\ "secureproxy" \in applied =>
                                  NotifyOutcome(file, routes[1]) =
                                      IF routes[1] THEN "notified" ELSE "skipped"
    BY DEF StartMatrix, Routings
  <2> DEFINE rest == \A i \in DOMAIN routes \ {1} : routes[i]
             visited == Visited(file, routes)
  <2>1. n \in Nat /\ 1 <= n /\ DOMAIN routes = 1 .. n /\ Len(routes) = n
        /\ routes[1] \in BOOLEAN
    BY DEF MinRoutes
  <2>2. "skip0" \notin applied => visited = 1 .. n
    <3>1. "skip0" \notin applied =>
             file["offset"] = "mov x22, #0" /\ file["index"] = "mov x24, #0"
      BY <1>1, StartSites
    <3>2. ASSUME "skip0" \notin applied
          PROVE  visited = {i \in DOMAIN routes : 1 <= i /\ i < 1 + Len(routes)}
      BY <3>1, <3>2 DEF Visited
    <3>3. {i \in 1 .. n : 1 <= i /\ i < 1 + n} = 1 .. n
      BY <2>1
    <3> QED BY <2>1, <3>2, <3>3
  <2>3. "skip0" \in applied => visited = 2 .. n
    <3>1. "skip0" \in applied =>
             file["offset"] = "mov x22, #4" /\ file["index"] = "mov x24, #1"
      BY <1>1, StartSites
    <3>2. ASSUME "skip0" \in applied
          PROVE  visited = {i \in DOMAIN routes : 2 <= i /\ i < 2 + (Len(routes) - 1)}
      BY <3>1, <3>2 DEF Visited
    <3>3. {i \in 1 .. n : 2 <= i /\ i < 2 + (n - 1)} = 2 .. n
      BY <2>1
    <3> QED BY <2>1, <3>2, <3>3
  <2>4. file["gate"] = "b exit" <=> "skip" \in applied
    BY <1>1, StartSites
  <2>5. Unattached(file) \in {"hangs", "panics", "faults"}
    BY DEF Unattached
  <2> HIDE DEF visited
  <2>6. ASSUME routes[1], rest, {"skip", "skip0"} \cap applied = {}
        PROVE  LoopOutcome(file, routes) = "registered"
    <3>1. visited = 1 .. n /\ file["gate"] # "b exit"
      BY <2>2, <2>4, <2>6
    <3>2. 1 \in visited
      <4>1. 1 \in 1 .. n
        BY <2>1
      <4> QED BY <3>1, <4>1
    <3>3. ASSUME NEW i \in visited
          PROVE  routes[i]
      <4>1. CASE i = 1
        BY <2>6, <4>1
      <4>2. CASE i # 1
        BY <2>1, <2>6, <3>1, <4>2
      <4> QED BY <4>1, <4>2
    <3> QED BY <3>1, <3>2, <3>3 DEF LoopOutcome, visited
  <2>7. ASSUME ~routes[1], rest, Len(routes) >= MinRoutes
        PROVE  /\ LoopOutcome(file, routes) # "registered"
               /\ LoopOutcome(file, routes) = "unregistered" <=>
                     "skip0" \in applied /\ "skip" \notin applied
    <3>1. ~(Len(routes) < MinRoutes)
      BY <2>1, <2>7 DEF MinRoutes
    <3>2. CASE "skip" \in applied
      BY <2>4, <3>1, <3>2 DEF LoopOutcome
    <3>3. CASE "skip" \notin applied /\ "skip0" \in applied
      <4>1. 1 \notin visited /\ \A i \in visited : routes[i]
        BY <2>1, <2>3, <2>7, <3>3
      <4> QED BY <2>4, <3>1, <3>3, <4>1 DEF LoopOutcome, visited
    <3>4. CASE "skip" \notin applied /\ "skip0" \notin applied
      <4>1. 1 \in visited /\ ~routes[1]
        BY <2>1, <2>2, <2>7, <3>4
      <4>2. LoopOutcome(file, routes) = Unattached(file)
        BY <2>4, <3>1, <3>4, <4>1 DEF LoopOutcome, visited
      <4> QED BY <2>5, <3>4, <4>2
    <3> QED BY <3>2, <3>3, <3>4
  <2>8. ASSUME "secureproxy" \in applied
        PROVE  NotifyOutcome(file, routes[1]) = IF routes[1] THEN "notified" ELSE "skipped"
    <3>1. file["filler"] = "trampoline" /\ file["notify"] = "bl trampoline"
      BY <1>1, <2>8, StartSites
    <3> QED BY <3>1 DEF NotifyOutcome
  <2> QED BY <2>6, <2>7, <2>8
<1> QED BY <1>1, SiteInit, SiteStep, PTL DEF Spec

-----------------------------------------------------------------------------
LEMMA CacheInit == Init => CacheInv
<1> SUFFICES ASSUME Init, kind = "cache"
             PROVE  CacheInv
  BY DEF CacheInv
<1>1. facts \in Caches /\ orig = facts.hdr /\ file = orig /\ applied = {}
  BY DEF Init
<1> QED BY <1>1 DEF CacheInv

(* One run of cfw_patch_dsc_maxslide.py, dry, forced or neither.            *)
LEMMA ClampKeeps ==
  ASSUME CacheInv, NEW mode \in ClampModes, ClampSlide(mode)
  PROVE  CacheInv'
<1> DEFINE dry == mode = "clampDry"
           force == mode = "clampForce"
<1>1. /\ kind = "cache" /\ UNCHANGED <<kind, facts, orig>>
      /\ applied' = applied \cup {mode}
      /\ file' = PatchDscMaxslide(file, facts.region, dry, force)
  BY DEF ClampSlide, Becomes
<1>2. /\ orig \in [span : Nat, slide : Nat] /\ facts.region \in Nat
      /\ file \in {orig, [orig EXCEPT !.slide = 0]}
      /\ facts \in Caches /\ orig = facts.hdr
  BY <1>1, CachesAssumption DEF CacheInv
<1>3. /\ file \in [span : Nat, slide : Nat] /\ file.span = orig.span
      /\ [file EXCEPT !.slide = 0] = [orig EXCEPT !.slide = 0]
      /\ [file EXCEPT !.slide = 0].slide = 0
      /\ [file EXCEPT !.slide = file.slide] = file
  BY <1>2
<1>4. CASE file' = file
  <2>1. mode = "clamp" => file.slide = 0 \/ Fits(file, facts.region)
    <3> SUFFICES ASSUME mode = "clamp", file.slide # 0, ~Fits(file, facts.region)
                 PROVE  FALSE
      OBVIOUS
    <3>1. file' = [file EXCEPT !.slide = 0]
      BY <1>1 DEF PatchDscMaxslide
    <3> QED BY <1>3, <1>4, <3>1
  <2>2. "clamp" \in applied' => "clamp" \in applied \/ mode = "clamp"
    BY <1>1
  <2>3. "clampForce" \notin applied' => "clampForce" \notin applied
    BY <1>1
  <2>4. applied' \subseteq {"clampDry"} => applied \subseteq {"clampDry"}
    BY <1>1
  <2> QED BY <1>1, <1>2, <1>4, <2>1, <2>2, <2>3, <2>4 DEF CacheInv, Fits
<1>5. CASE file' # file
  <2>1. file' = [file EXCEPT !.slide = 0] /\ mode # "clampDry"
        /\ (~Fits(file, facts.region) \/ mode = "clampForce")
    BY <1>1, <1>3, <1>5 DEF PatchDscMaxslide
  <2>2. file' = [orig EXCEPT !.slide = 0] /\ file'.slide = 0
    BY <1>3, <2>1
  <2>3. Fits(orig, facts.region) => Fits(file, facts.region)
    BY <1>2 DEF Fits
  <2>4. mode \in applied'
    BY <1>1
  <2>5. "clampForce" \notin applied' => ~Fits(orig, facts.region)
    BY <2>1, <2>3, <2>4
  <2>6. ~(applied' \subseteq {"clampDry"})
    BY <2>1, <2>4
  <2> QED BY <1>1, <1>2, <2>2, <2>5, <2>6 DEF CacheInv, Fits
<1> QED BY <1>4, <1>5

LEMMA CacheStep == CacheInv /\ [Next]_vars => CacheInv'
<1>1. ASSUME CacheInv, Next
      PROVE  CacheInv'
  <2>1. CASE Other
    BY <2>1, OtherKeeps DEF CacheInv
  <2>2. CASE \E mode \in ClampModes : ClampSlide(mode)
    BY <1>1, <2>2, ClampKeeps
  <2>3. CASE GenHashes \/ MergeCryptex
    BY <2>3 DEF GenHashes, MergeCryptex, Becomes, CacheInv
  <2> QED BY <1>1, <2>1, <2>2, <2>3 DEF Next, Other
<1>2. ASSUME CacheInv, UNCHANGED vars
      PROVE  CacheInv'
  BY <1>2 DEF vars, CacheInv, Fits
<1> QED BY <1>1, <1>2

(* cfw_patch_dsc_maxslide.py, for every cache and region and any sequence   *)
(* of its modes: what fits without a slide fits once clamped, what fits as  *)
(* it is keeps its slide unless forced, and a dry run changes nothing.      *)
THEOREM CacheCorrect == Spec => []CacheFits
<1>1. ASSUME CacheInv
      PROVE  CacheFits
  <2> SUFFICES ASSUME kind = "cache"
               PROVE  CacheFits
    BY DEF CacheFits
  <2>1. /\ orig \in [span : Nat, slide : Nat] /\ facts.region \in Nat
        /\ file \in {orig, [orig EXCEPT !.slide = 0]}
    BY <1>1, CachesAssumption DEF CacheInv
  <2>2. file.span = orig.span /\ file.slide \in Nat
    BY <2>1
  <2>3. file.slide = 0 /\ orig.span <= facts.region => Fits(file, facts.region)
    BY <2>1, <2>2 DEF Fits
  <2> QED BY <1>1, <2>3 DEF CacheInv, CacheFits
<1> QED BY <1>1, CacheInit, CacheStep, PTL DEF Spec

-----------------------------------------------------------------------------
LEMMA HashInit == Init => HashInv
<1> SUFFICES ASSUME Init, kind = "hashes"
             PROVE  HashInv
  BY DEF HashInv
<1>1. /\ file = [hashes |-> facts.hashes, orig |-> facts.old, saved |-> facts.old # {},
                 cx |-> {}, tc |-> {}, at |-> "copy"]
      /\ orig = file /\ applied = {}
  BY DEF Init
<1> QED BY <1>1 DEF HashInv, NothingLost

(* darwinvm_gen_rootfs_trustcache.py, between two runs of the merge.        *)
LEMMA GenKeeps ==
  ASSUME HashInv, GenHashes
  PROVE  HashInv'
<1>1. /\ kind = "hashes" /\ file.at = "copy" /\ UNCHANGED <<kind, facts, orig>>
      /\ file' = [file EXCEPT !.hashes = file.hashes \cup Programs]
      /\ applied' = applied \cup {"gen"}
  BY DEF GenHashes, Becomes, GenTrustcache, Programs
<1>2. file' = [hashes |-> file.hashes \cup Programs, orig |-> file.orig,
               saved |-> file.saved, cx |-> file.cx, tc |-> file.tc, at |-> "copy"]
  BY <1>1 DEF HashInv
<1>3. Programs' = Programs
  BY <1>1 DEF Programs
<1>4. "uncopied" \notin applied' => "uncopied" \notin applied
  BY <1>1
<1> QED BY <1>1, <1>2, <1>3, <1>4 DEF HashInv, NothingLost

(* Each step of merge_cryptex_trustcache.sh.                                *)
LEMMA MergeKeeps ==
  ASSUME HashInv, MergeCryptex
  PROVE  HashInv'
<1>1. kind = "hashes" /\ UNCHANGED <<kind, facts, orig>>
  BY DEF MergeCryptex, Becomes
<1>2. Programs' = Programs
  BY <1>1 DEF Programs
<1>3. \A t : applied' = applied \cup {t} /\ t # "gen" =>
               /\ "gen" \in applied' => "gen" \in applied
               /\ "uncopied" \notin applied' => "uncopied" \notin applied
  OBVIOUS
<1>4. CASE file.at = "copy" /\ Becomes("copy", MergeCopy(file))
  <2>1. file' = [hashes |-> file.hashes, orig |-> file.hashes, saved |-> TRUE,
                 cx |-> file.cx, tc |-> file.tc, at |-> "extract"]
    BY <1>1, <1>4 DEF HashInv, MergeCopy, Becomes
  <2> QED BY <1>1, <1>2, <1>3, <1>4, <2>1 DEF HashInv, Becomes, NothingLost
<1>5. ASSUME file.at = "copy", NEW left \in MergeCopyFails(file), Becomes("uncopied", left)
      PROVE  HashInv'
  <2>1. PICK part, saved : file' = [hashes |-> file.hashes, orig |-> part, saved |-> saved,
                                    cx |-> file.cx, tc |-> file.tc, at |-> "extract"]
    BY <1>1, <1>5 DEF HashInv, MergeCopyFails, Becomes
  <2>2. "uncopied" \in applied'
    BY <1>5 DEF Becomes
  <2> QED BY <1>1, <1>2, <2>1, <2>2 DEF HashInv
<1>6. ASSUME file.at = "extract", NEW found \in {{}, facts.cx},
             Becomes("extract", MergeExtract(file, found))
      PROVE  HashInv'
  <2>1. file' = [hashes |-> file.hashes, orig |-> file.orig, saved |-> file.saved,
                 cx |-> found, tc |-> file.tc,
                 at |-> IF found = {} THEN "copy" ELSE "merge"]
    BY <1>1, <1>6 DEF HashInv, MergeExtract, Becomes
  <2>2. found # {} => found = facts.cx
    BY <1>6
  <2> QED BY <1>1, <1>2, <1>3, <1>6, <2>1, <2>2 DEF HashInv, Becomes, NothingLost
<1>7. CASE file.at = "merge" /\ Becomes("merge", MergeSort(file))
  <2>1. CASE file.saved
    <3>1. file' = [hashes |-> file.orig \cup file.cx, orig |-> file.orig,
                   saved |-> file.saved, cx |-> file.cx, tc |-> file.tc, at |-> "build"]
      BY <1>1, <1>7, <2>1 DEF HashInv, MergeSort, Becomes
    <3> QED BY <1>1, <1>2, <1>3, <1>7, <3>1 DEF HashInv, Becomes, NothingLost
  <2>2. CASE ~file.saved
    <3>1. file' = [hashes |-> file.cx, orig |-> file.orig,
                   saved |-> file.saved, cx |-> file.cx, tc |-> file.tc, at |-> "copy"]
      BY <1>1, <1>7, <2>2 DEF HashInv, MergeSort, Becomes
    <3> QED BY <1>1, <1>2, <1>3, <1>7, <2>2, <3>1 DEF HashInv, Becomes, NothingLost
  <2> QED BY <2>1, <2>2
<1>8. CASE file.at = "build" /\ Becomes("build", MergeBuild(file))
  <2>1. file' = [hashes |-> file.hashes, orig |-> file.orig, saved |-> file.saved,
                 cx |-> file.cx, tc |-> file.hashes, at |-> "copy"]
    BY <1>1, <1>8 DEF HashInv, MergeBuild, Becomes
  <2> QED BY <1>1, <1>2, <1>3, <1>8, <2>1 DEF HashInv, Becomes, NothingLost
<1> QED BY <1>4, <1>5, <1>6, <1>7, <1>8 DEF MergeCryptex

LEMMA HashStep == HashInv /\ [Next]_vars => HashInv'
<1>1. ASSUME HashInv, Next
      PROVE  HashInv'
  <2>1. CASE Other
    BY <2>1, OtherKeeps DEF HashInv
  <2>2. CASE \E mode \in ClampModes : ClampSlide(mode)
    BY <2>2 DEF ClampSlide, Becomes, HashInv
  <2>3. CASE GenHashes \/ MergeCryptex
    BY <1>1, <2>3, GenKeeps, MergeKeeps
  <2> QED BY <1>1, <2>1, <2>2, <2>3 DEF Next, Other
<1>2. ASSUME HashInv, UNCHANGED vars
      PROVE  HashInv'
  <2>1. Programs' = Programs
    BY <1>2 DEF vars, Programs
  <2> QED BY <1>2, <2>1 DEF vars, HashInv, NothingLost
<1> QED BY <1>1, <1>2

(* merge_cryptex_trustcache.sh stops at whichever step fails and is run     *)
(* again, with the root's programs collected in between: for every list,    *)
(* older copy, root and cryptex a cache that is built trusts the cryptex,   *)
(* and no hash is lost until a copy fails.                                  *)
THEOREM HashesCorrect == Spec => []HashesKept
<1>1. ASSUME HashInv
      PROVE  HashesKept
  <2>1. Programs = {f.cdhash : f \in {g \in facts.root : g.kind = "macho"
                                    /\ g.dir # "com.apple.dyld"}} \ {""}
    BY DEF Programs, CdhashesOf, WalkMachos
  <2> QED BY <1>1, <2>1 DEF HashInv, HashesKept
<1> QED BY <1>1, HashInit, HashStep, PTL DEF Spec

-----------------------------------------------------------------------------
(* The probes.  A file is near the kernelcache p.img it was made from if    *)
(* each word is what it was, or a stub's where a function that is stubbed   *)
(* begins, or another error number in check_np.                             *)

Landings == {PACIBSP, BTI_C}
StubWords == {MOV_X0_0, RET, RETAB}
EntryOps == {"pacibsp", "bti", "stp", "subsp", "other"}
PlainOps == EntryOps \cup {"movz", "mov0", "ret", "retab"}

Like(p, i, v) ==
    \/ v = p.img.w[i]
    \/ /\ i \in Entries(p) /\ p.img.w[i].op \in EntryOps /\ p.img.w[i] \notin Landings
       /\ v \in StubWords
    \/ i \in p.np /\ p.img.w[i] = Movz(ENOMEM) /\ v.op = "movz"

Leveled(p) == [p.img.mem EXCEPT ![p.level] = 3]

Framed(p, f) ==
    /\ f = [w |-> f.w, mem |-> f.mem, strs |-> p.img.strs, seg |-> p.img.seg]
    /\ f.w = [i \in 1 .. Len(p.img.w) |-> f.w[i]]

Near(p, f) ==
    /\ Framed(p, f)
    /\ \A i \in 1 .. Len(p.img.w) : Like(p, i, f.w[i])
    /\ f.mem \in {p.img.mem, Leveled(p)}

\* The words a probe may change.
PlaceOf(p, t) ==
    CASE t = "checknp"  -> {i \in p.np : p.img.w[i] = Movz(ENOMEM)}
      [] t = "skipauth" -> p.remap
      [] t = "srtrace"  -> {}
      [] OTHER          -> p.fns[t]

\* The words' kinds, by which they are told apart.
LEMMA Ops ==
  /\ PACIBSP.op = "pacibsp" /\ BTI_C.op = "bti" /\ MOV_X0_0.op = "mov0"
  /\ RET.op = "ret" /\ RETAB.op = "retab" /\ MOV_X8_X0.op = "mov8"
  /\ \A k : Movz(k).op = "movz" /\ Movz(k).to = k
  /\ \A s : Adrp(s).op = "adrp" /\ Add(s).op = "add"
BY DEF PACIBSP, BTI_C, MOV_X0_0, RET, RETAB, MOV_X8_X0, Movz, Word, Branch, Adrp, Add

(* What a scan finds in a near file, word by word.                          *)
LEMMA NearWords ==
  ASSUME NEW p, NEW i, NEW v, Like(p, i, v)
  PROVE  /\ v = p.img.w[i] \/ (v.op \in PlainOps /\ p.img.w[i].op \in PlainOps)
         /\ v = PACIBSP <=> p.img.w[i] = PACIBSP
         /\ v = BTI_C <=> p.img.w[i] = BTI_C
         /\ v = Movz(ENOMEM) => p.img.w[i] = Movz(ENOMEM)
         /\ p.img.w[i] \in Returns => v = p.img.w[i]
         /\ i \notin Entries(p) =>
               /\ v \in Returns <=> p.img.w[i] \in Returns
               /\ v.op \in {"pacibsp", "bti", "stp"}
                     <=> p.img.w[i].op \in {"pacibsp", "bti", "stp"}
<1> DEFINE u == p.img.w[i]
<1>1. CASE v = u
  BY <1>1
<1>2. CASE u.op \in EntryOps /\ u \notin Landings /\ v \in StubWords /\ i \in Entries(p)
  <2>1. /\ v.op \in {"mov0", "ret", "retab"} /\ u.op \notin {"ret", "retab", "movz"}
        /\ u # PACIBSP /\ u # BTI_C
    BY <1>2, Ops DEF EntryOps, Landings, StubWords
  <2> QED BY <1>2, <2>1, Ops DEF EntryOps, PlainOps, Returns
<1>3. CASE u = Movz(ENOMEM) /\ v.op = "movz"
  BY <1>3, Ops DEF PlainOps, Returns
<1> QED BY <1>1, <1>2, <1>3 DEF Like

LEMMA Formed ==
  ASSUME NEW p \in Probed
  PROVE  WellFormedProbed(p)
BY ProbedAssumption

LEMMA BegunWords ==
  ASSUME NEW w, NEW n \in Nat, w = [i \in 1 .. n |-> w[i]], NEW entry, Begins(w, entry)
  PROVE  \E f \in 1 .. n : 
           /\ entry = f .. f + 2 /\ f + 2 \in 1 .. n
           /\ (w[f] \in Landings \/ w[f].op = "stp")
           /\ \A i \in entry : i \in 1 .. n /\ w[i].op \in EntryOps
           /\ w[f + 1] \notin Landings /\ w[f + 2] \notin Landings
<1>1. PICK f \in DOMAIN w :
        /\ entry = f .. f + 2 /\ f + 2 \in DOMAIN w
        /\ w[f] \in {PACIBSP, BTI_C} \/ w[f].op = "stp"
        /\ {w[f + 1].op, w[f + 2].op} \subseteq {"stp", "subsp", "other"}
  BY DEF Begins
<1>2. DOMAIN w = 1 .. n
  OBVIOUS
<1>3. w[f + 1] \notin Landings /\ w[f + 2] \notin Landings
  BY <1>1, Ops DEF Landings
<1>4. w[f].op \in EntryOps /\ w[f + 1].op \in EntryOps /\ w[f + 2].op \in EntryOps
  BY <1>1, Ops DEF EntryOps
<1>5. \A i \in entry : i = f \/ i = f + 1 \/ i = f + 2
  BY <1>1, <1>2
<1>6. f \in 1 .. n /\ f + 1 \in 1 .. n /\ f + 2 \in 1 .. n
  BY <1>1, <1>2
<1>7. w[f] \in Landings \/ w[f].op = "stp"
  BY <1>1 DEF Landings
<1> QED BY <1>1, <1>3, <1>4, <1>5, <1>6, <1>7

(* The smallest and the largest of a set of indices exist.                 *)
LEMMA LeastOf ==
  ASSUME NEW S \in SUBSET Nat, S # {}
  PROVE  \E i \in S : \A j \in S : i <= j
<1> DEFINE Less == {ss \in Nat \X Nat : ss[1] < ss[2]}
<1>1. IsWellFoundedOn(Less, Nat)
  BY NatLessThanWellFounded DEF OpToRel
<1> HIDE DEF Less
<1>2. PICK n \in S : \A k \in S : <<k, n>> \notin Less
  BY <1>1, WFMin
<1>3. ASSUME NEW k \in S PROVE n <= k
  <2>1. <<k, n>> \in Less <=> k < n
    BY DEF Less
  <2> QED BY <1>2, <2>1
<1> QED BY <1>3

LEMMA EarliestIs ==
  ASSUME NEW S \in SUBSET Nat, S # {}
  PROVE  Earliest(S) \in S /\ \A j \in S : Earliest(S) <= j
BY LeastOf DEF Earliest

LEMMA NearestIs ==
  ASSUME NEW K \in Nat, NEW S \in SUBSET (1 .. K)
  PROVE  /\ Nearest(S) = 0 <=> S = {}
         /\ S # {} => Nearest(S) \in S /\ \A j \in S : j <= Nearest(S)
         /\ \A i \in S : (\A j \in S : j <= i) => Nearest(S) = i
<1>1. S # {} => \E i \in S : \A j \in S : j <= i
  <2> SUFFICES ASSUME S # {} PROVE \E i \in S : \A j \in S : j <= i
    OBVIOUS
  <2> DEFINE D == {K - i : i \in S}
  <2>1. \A i \in S : i \in Int /\ i <= K /\ K - i \in Nat
    OBVIOUS
  <2>2. D \in SUBSET Nat /\ D # {}
    BY <2>1
  <2>3. PICK k \in D : \A j \in D : k <= j
    BY <2>2, LeastOf
  <2>4. PICK m \in S : k = K - m
    BY <2>3
  <2>5. ASSUME NEW i \in S PROVE i <= m
    <3>1. K - i \in D
      OBVIOUS
    <3>2. k <= K - i
      BY <2>3, <3>1
    <3> QED BY <2>1, <2>4, <3>2
  <2> QED BY <2>5
<1>2. \A i, j \in S : i <= j /\ j <= i => i = j
  OBVIOUS
<1>3. 0 \notin S
  OBVIOUS
<1> QED BY <1>1, <1>2, <1>3 DEF Nearest

-----------------------------------------------------------------------------
(* What the probes look up in a near file is what it was in the original.   *)

Loaded(img, s) == {i \in img.seg.lo .. img.seg.hi - 2 : img.w[i] = Adrp(s)
                                                         /\ img.w[i + 1] = Add(s)}

LEMMA XrefIs ==
  ASSUME NEW p \in Probed, NEW s, AnchorXref(p.img, s) # 0
  PROVE  LET x == AnchorXref(p.img, s)
         IN  /\ p.img.seg # <<>> /\ p.img.seg.lo \in Nat \ {0}
             /\ x \in Loaded(p.img, s) /\ x \in 1 .. Len(p.img.w) - 2
             /\ p.img.w[x].op = "adrp" /\ p.img.seg.lo <= x
<1> DEFINE S == Loaded(p.img, s)
<1>1. /\ p.img.seg # <<>> /\ AnchorXref(p.img, s) = Earliest(S) /\ S # {}
  BY DEF AnchorXref, FindAdrpAddXref, Loaded, Earliest
<1>2. /\ p.img.seg.lo \in Nat \ {0} /\ p.img.seg.hi \in Nat
      /\ p.img.seg.hi <= Len(p.img.w) /\ Len(p.img.w) \in Nat
  BY <1>1, Formed DEF WellFormedProbed
<1>3. \A i \in S : i \in 1 .. Len(p.img.w) - 2 /\ p.img.seg.lo <= i /\ p.img.w[i] = Adrp(s)
  BY <1>2, SMTT(60) DEF Loaded
<1>4. S \in SUBSET Nat
  BY <1>3
<1>5. Earliest(S) \in S
  BY <1>1, <1>4, EarliestIs
<1>6. p.img.w[Earliest(S)].op = "adrp"
  BY <1>3, <1>5, Ops
<1> HIDE DEF S
<1>7. Earliest(S) \in 1 .. Len(p.img.w) - 2 /\ p.img.seg.lo <= Earliest(S)
  BY <1>3, <1>5
<1> QED BY <1>1, <1>2, <1>5, <1>6, <1>7 DEF S

LEMMA NearShape ==
  ASSUME NEW p \in Probed, NEW f, Near(p, f)
  PROVE  /\ Len(p.img.w) \in Nat /\ DOMAIN p.img.w = 1 .. Len(p.img.w)
         /\ DOMAIN f.w = 1 .. Len(p.img.w) /\ Len(f.w) = Len(p.img.w)
         /\ f.seg = p.img.seg /\ f.strs = p.img.strs
         /\ \A i \in 1 .. Len(p.img.w) : Like(p, i, f.w[i])
<1>1. Len(p.img.w) \in Nat /\ p.img.w = [i \in 1 .. Len(p.img.w) |-> p.img.w[i]]
  BY Formed DEF WellFormedProbed
<1> DEFINE n == Len(p.img.w)
<1>2. f.w = [i \in 1 .. n |-> f.w[i]]
  BY DEF Near, Framed
<1>3. f.seg = p.img.seg /\ f.strs = p.img.strs
  BY DEF Near, Framed
<1>4. DOMAIN f.w = 1 .. n /\ Len(f.w) = n /\ DOMAIN p.img.w = 1 .. n
  <2>1. f.w \in Seq(Range(f.w))
    BY <1>1, <1>2 DEF Range
  <2>2. DOMAIN f.w = 1 .. n
    BY <1>2
  <2> HIDE DEF n
  <2>3. Len(f.w) = n
    BY <1>1, <2>1, <2>2 DEF n
  <2> QED BY <1>1, <2>2, <2>3 DEF n
<1> QED BY <1>1, <1>3, <1>4 DEF Near

LEMMA XrefSame ==
  ASSUME NEW p \in Probed, NEW f, Near(p, f), NEW s
  PROVE  AnchorXref(f, s) = AnchorXref(p.img, s)
<1>1. f.seg = p.img.seg /\ f.strs = p.img.strs
  BY NearShape
<1>2. CASE p.img.seg = <<>> \/ s \notin p.img.strs
  BY <1>1, <1>2 DEF AnchorXref
<1>3. CASE p.img.seg # <<>> /\ s \in p.img.strs
  <2>1. /\ p.img.seg.lo \in Nat \ {0} /\ p.img.seg.hi \in Nat
        /\ p.img.seg.hi <= Len(p.img.w) /\ Len(p.img.w) \in Nat
    BY <1>3, Formed DEF WellFormedProbed
  <2>2. ASSUME NEW i \in p.img.seg.lo .. p.img.seg.hi - 2
        PROVE  (f.w[i] = Adrp(s) /\ f.w[i + 1] = Add(s))
                 <=> (p.img.w[i] = Adrp(s) /\ p.img.w[i + 1] = Add(s))
    <3>1. i \in 1 .. Len(p.img.w) /\ i + 1 \in 1 .. Len(p.img.w)
      BY <2>1, SMTT(60)
    <3>2. Like(p, i, f.w[i]) /\ Like(p, i + 1, f.w[i + 1])
      BY <3>1, NearShape
    <3>3. \A j \in {i, i + 1} : \/ f.w[j] = p.img.w[j]
                                \/ f.w[j].op \in PlainOps /\ p.img.w[j].op \in PlainOps
      BY <3>2, NearWords
    <3>4. Adrp(s).op \notin PlainOps /\ Add(s).op \notin PlainOps
      BY Ops DEF PlainOps, EntryOps
    <3> QED BY <3>3, <3>4
  <2>3. Loaded(f, s) = Loaded(p.img, s)
    BY <1>1, <2>2 DEF Loaded
  <2> QED BY <1>1, <2>3 DEF AnchorXref, FindAdrpAddXref, Loaded
<1> QED BY <1>2, <1>3

-----------------------------------------------------------------------------
(* A stub: what it writes depends on the entry only, and once is enough.    *)
StubOf(n, w, f, v) ==
    /\ v = [i \in 1 .. n |-> v[i]]
    /\ \A i \in 1 .. n : i \notin f .. f + 2 => v[i] = w[i]
    /\ w[f] = PACIBSP => v[f] = w[f] /\ v[f + 1] = MOV_X0_0 /\ v[f + 2] = RETAB
    /\ w[f] = BTI_C => v[f] = w[f] /\ v[f + 1] = MOV_X0_0 /\ v[f + 2] = RET
    /\ w[f] \notin Landings => v[f] = MOV_X0_0 /\ v[f + 1] = RET /\ v[f + 2] = w[f + 2]

LEMMA StubIs ==
  ASSUME NEW n \in Nat, NEW w, w = [i \in 1 .. n |-> w[i]],
         NEW f \in 1 .. n, f + 2 \in 1 .. n
  PROVE  StubOf(n, w, f, StubEntry(w, f))
<1>1. f # f + 1 /\ f # f + 2 /\ f + 1 # f + 2 /\ f + 1 \in 1 .. n
  OBVIOUS
<1>2. \A i \in 1 .. n : i \notin f .. f + 2 => i # f /\ i # f + 1 /\ i # f + 2
  OBVIOUS
<1>3. PACIBSP # BTI_C
  BY Ops
<1>4. CASE w[f] = PACIBSP
  <2>1. StubEntry(w, f) = [w EXCEPT ![f + 1] = MOV_X0_0, ![f + 2] = RETAB]
    BY <1>3, <1>4 DEF StubEntry
  <2> QED BY <1>1, <1>2, <1>3, <1>4, <2>1 DEF Landings, StubOf
<1>5. CASE w[f] = BTI_C
  <2>1. StubEntry(w, f) = [w EXCEPT ![f + 1] = MOV_X0_0, ![f + 2] = RET]
    BY <1>3, <1>5 DEF StubEntry
  <2> QED BY <1>1, <1>2, <1>3, <1>5, <2>1 DEF Landings, StubOf
<1>6. CASE w[f] \notin Landings
  <2>1. StubEntry(w, f) = [w EXCEPT ![f] = MOV_X0_0, ![f + 1] = RET]
    BY <1>6 DEF StubEntry, Landings
  <2> QED BY <1>1, <1>2, <1>6, <2>1 DEF Landings, StubOf
<1> QED BY <1>4, <1>5, <1>6 DEF Landings

SameAt(f, u, w) == \A i \in f .. f + 2 : u[i] = w[i]

LEMMA StubSame ==
  ASSUME NEW n \in Nat, NEW w, NEW v, NEW u, NEW x, NEW f \in 1 .. n, f + 2 \in 1 .. n,
         StubOf(n, w, f, v), StubOf(n, u, f, x), SameAt(f, u, w)
  PROVE  SameAt(f, x, v)
<1>1. u[f] = w[f] /\ u[f + 2] = w[f + 2]
  <2>1. f \in f .. f + 2 /\ f + 2 \in f .. f + 2
    OBVIOUS
  <2> QED BY <2>1 DEF SameAt
<1>2. x[f] = v[f] /\ x[f + 1] = v[f + 1] /\ x[f + 2] = v[f + 2]
  BY <1>1 DEF Landings, StubOf
<1>3. \A i \in f .. f + 2 : i = f \/ i = f + 1 \/ i = f + 2
  OBVIOUS
<1> QED BY <1>2, <1>3 DEF SameAt

LEMMA StubTwice ==
  ASSUME NEW n \in Nat, NEW w, NEW v, NEW u, u = [i \in 1 .. n |-> u[i]], NEW x,
         NEW f \in 1 .. n, f + 2 \in 1 .. n,
         StubOf(n, w, f, v), StubOf(n, u, f, x), SameAt(f, u, v)
  PROVE  x = u
<1>1. u[f] = v[f] /\ u[f + 1] = v[f + 1] /\ u[f + 2] = v[f + 2]
  <2>1. f \in f .. f + 2 /\ f + 1 \in f .. f + 2 /\ f + 2 \in f .. f + 2
    OBVIOUS
  <2> QED BY <2>1 DEF SameAt
<1>2. MOV_X0_0 # PACIBSP /\ MOV_X0_0 # BTI_C
  BY Ops
<1>3. x[f] = u[f] /\ x[f + 1] = u[f + 1] /\ x[f + 2] = u[f + 2]
  BY <1>1, <1>2 DEF Landings, StubOf
<1>4. \A i \in f .. f + 2 : i = f \/ i = f + 1 \/ i = f + 2
  OBVIOUS
<1>5. \A i \in 1 .. n : x[i] = u[i]
  BY <1>3, <1>4 DEF StubOf
<1> QED BY <1>5 DEF StubOf

\* A stub makes no word but a stub's, and leaves a landing pad where it was.
LEMMA StubKinds ==
  ASSUME NEW n \in Nat, NEW w, NEW v, NEW f \in 1 .. n, f + 2 \in 1 .. n,
         StubOf(n, w, f, v), w[f + 1] \notin Landings, w[f + 2] \notin Landings
  PROVE  \A i \in f .. f + 2 : v[i] = w[i] \/ (v[i] \in StubWords /\ w[i] \notin Landings)
<1>1. /\ v[f] = w[f] \/ (v[f] \in StubWords /\ w[f] \notin Landings)
      /\ v[f + 1] \in StubWords
      /\ v[f + 2] \in StubWords \/ v[f + 2] = w[f + 2]
  BY DEF StubWords, Landings, StubOf
<1>2. \A i \in f .. f + 2 : i = f \/ i = f + 1 \/ i = f + 2
  OBVIOUS
<1> QED BY <1>1, <1>2

-----------------------------------------------------------------------------
(* What a probe does to a near file: it writes, if anything, what it would  *)
(* have written to the original, where it would have written it.            *)

Wrote(p, t, f, r) ==
    /\ Framed(p, r)
    /\ \A i \in 1 .. Len(p.img.w) : i \notin PlaceOf(p, t) => r.w[i] = f.w[i]
    /\ \A i \in PlaceOf(p, t) : r.w[i] = Probe(t, p.img).img.w[i]
    /\ r.mem = IF t = "srtrace" THEN Leveled(p) ELSE f.mem

Effect(p, t, f) ==
    /\ Probe(t, f).ok = Probe(t, p.img).ok
    /\ Probe(t, f).ok => Wrote(p, t, f, Probe(t, f).img)
    /\ ~Probe(t, f).ok => Probe(t, f).img = f

Kinds(p, t) ==
    Probe(t, p.img).ok =>
        \A i \in PlaceOf(p, t) : /\ i \in 1 .. Len(p.img.w)
                                 /\ Like(p, i, Probe(t, p.img).img.w[i])

\* The probe has not been run on the file, or has.
Fresh(p, t, f) ==
    /\ \A i \in PlaceOf(p, t) : f.w[i] = p.img.w[i]
    /\ t = "srtrace" => f.mem = p.img.mem

Done(p, t, f) ==
    /\ Probe(t, p.img).ok
    /\ \A i \in PlaceOf(p, t) : f.w[i] = Probe(t, p.img).img.w[i]
    /\ t = "srtrace" => f.mem = Leveled(p)

\* A stub written at the entry a of a near file f.
StubWritten(p, a, f, r) ==
    /\ Framed(p, r) /\ r.mem = f.mem
    /\ \A i \in 1 .. Len(p.img.w) : i \notin a .. a + 2 => r.w[i] = f.w[i]
    /\ (\A i \in a .. a + 2 : f.w[i] = p.img.w[i])
         => \A i \in a .. a + 2 : r.w[i] = StubEntry(p.img.w, a)[i]
    /\ (\A i \in a .. a + 2 : f.w[i] = StubEntry(p.img.w, a)[i]) => r = f

LEMMA StubWrote ==
  ASSUME NEW p \in Probed, NEW f, Near(p, f),
         NEW a \in 1 .. Len(p.img.w), a + 2 \in 1 .. Len(p.img.w),
         NEW r, r = [f EXCEPT !.w = StubEntry(f.w, a)]
  PROVE  StubWritten(p, a, f, r)
<1> DEFINE n == Len(p.img.w)
           u == f.w
           w == p.img.w
<1>1. n \in Nat /\ w = [i \in 1 .. n |-> w[i]] /\ u = [i \in 1 .. n |-> u[i]]
  BY Formed DEF WellFormedProbed, Near, Framed
<1>2. /\ f = [w |-> f.w, mem |-> f.mem, strs |-> p.img.strs, seg |-> p.img.seg]
      /\ r.w = StubEntry(u, a) /\ r.mem = f.mem
      /\ r = [w |-> r.w, mem |-> r.mem, strs |-> p.img.strs, seg |-> p.img.seg]
  BY DEF Near, Framed
<1> HIDE DEF n, u, w
<1>3. a \in 1 .. n /\ a + 2 \in 1 .. n
  BY DEF n
<1>4. StubOf(n, u, a, StubEntry(u, a)) /\ StubOf(n, w, a, StubEntry(w, a))
  BY <1>1, <1>3, StubIs
<1>5. Framed(p, r)
  BY <1>2, <1>4 DEF Framed, StubOf, n
<1>6. \A i \in 1 .. n : i \notin a .. a + 2 => r.w[i] = u[i]
  BY <1>2, <1>4, ZenonT(60) DEF StubOf
<1>7. SameAt(a, u, w) => SameAt(a, StubEntry(u, a), StubEntry(w, a))
  BY <1>1, <1>3, <1>4, StubSame, Zenon
<1>8. SameAt(a, u, StubEntry(w, a)) => StubEntry(u, a) = u
  BY <1>1, <1>3, <1>4, StubTwice, Zenon
<1>9. StubEntry(u, a) = u => r = f
  BY <1>2 DEF u
<1> QED BY <1>2, <1>5, <1>6, <1>7, <1>8, <1>9 DEF n, u, w, SameAt, StubWritten

LEMMA StubLike ==
  ASSUME NEW p \in Probed, NEW a \in 1 .. Len(p.img.w), a + 2 \in 1 .. Len(p.img.w),
         NEW entry, entry = a .. a + 2, Begins(p.img.w, entry), entry \subseteq Entries(p)
  PROVE  \A i \in entry : /\ i \in 1 .. Len(p.img.w)
                          /\ Like(p, i, StubEntry(p.img.w, a)[i])
<1> DEFINE n == Len(p.img.w)
           w == p.img.w
<1>1. n \in Nat /\ w = [i \in 1 .. n |-> w[i]]
  BY Formed DEF WellFormedProbed
<1> HIDE DEF n, w
<1>2. PICK f \in 1 .. n :
           /\ entry = f .. f + 2 /\ f + 2 \in 1 .. n
           /\ \A i \in entry : i \in 1 .. n /\ w[i].op \in EntryOps
           /\ w[f + 1] \notin Landings /\ w[f + 2] \notin Landings
  <2>1. Begins(w, entry)
    BY DEF w
  <2> QED BY <1>1, <2>1, BegunWords, ZenonT(60)
<1>3. f = a /\ a \in 1 .. n /\ a + 2 \in 1 .. n
  <2>1. f \in a .. a + 2 /\ a \in f .. f + 2 /\ a \in Int /\ f \in Int
    BY <1>1, <1>2 DEF n
  <2> QED BY <2>1 DEF n
<1>4. StubOf(n, w, a, StubEntry(w, a))
  BY <1>1, <1>3, StubIs
<1>5. \A i \in a .. a + 2 : \/ StubEntry(w, a)[i] = w[i]
                            \/ StubEntry(w, a)[i] \in StubWords /\ w[i] \notin Landings
  BY <1>1, <1>2, <1>3, <1>4, StubKinds, Zenon
<1> QED BY <1>2, <1>3, <1>5 DEF Like, n, w

(* The call whose function skipauth stubs.                                  *)
LEMMA RemapSame ==
  ASSUME NEW p \in Probed, NEW f, Near(p, f), AnchorXref(p.img, ANCHOR) # 0
  PROVE  LET x == AnchorXref(p.img, ANCHOR)
             c == RemapCall(p.img, x)
         IN  /\ RemapCall(f, x) = c
             /\ c # 0 => /\ f.w[c].to = p.img.w[c].to
                         /\ p.remap = p.img.w[c].to .. p.img.w[c].to + 2
<1> DEFINE n == Len(p.img.w)
           x == AnchorXref(p.img, ANCHOR)
           lo == p.img.seg.lo
           Kept(g) == {i \in g.seg.lo + 1 .. x - 1 :
                          x - i < Reach.call /\ g.w[i].op = "bl" /\ g.w[i + 1] = MOV_X8_X0}
           S == Kept(p.img)
<1>1. n \in Nat /\ lo \in Nat \ {0} /\ x \in 1 .. n /\ f.seg = p.img.seg
  BY XrefIs, NearShape
<1>2. ASSUME NEW i \in lo + 1 .. x - 1
      PROVE  /\ i \in 1 .. n
             /\ f.w[i].op = "bl" <=> p.img.w[i].op = "bl"
             /\ f.w[i].op = "bl" => f.w[i] = p.img.w[i]
             /\ f.w[i + 1] = MOV_X8_X0 <=> p.img.w[i + 1] = MOV_X8_X0
  <2>1. i \in 1 .. n /\ i + 1 \in 1 .. n
    BY <1>1
  <2>2. Like(p, i, f.w[i]) /\ Like(p, i + 1, f.w[i + 1])
    BY <2>1, NearShape
  <2>3. \A j \in {i, i + 1} : \/ f.w[j] = p.img.w[j]
                              \/ f.w[j].op \in PlainOps /\ p.img.w[j].op \in PlainOps
    BY <2>2, NearWords
  <2>4. MOV_X8_X0.op \notin PlainOps /\ "bl" \notin PlainOps
    BY Ops DEF PlainOps, EntryOps
  <2> QED BY <2>1, <2>3, <2>4
<1>3. Kept(f) = S
  BY <1>1, <1>2
<1>4. RemapCall(p.img, x) = Nearest(S) /\ RemapCall(f, x) = Nearest(S)
  BY <1>3 DEF RemapCall
<1>5. S \in SUBSET (1 .. n)
  BY <1>1, <1>2, SMTT(60)
<1>6. ASSUME Nearest(S) # 0
      PROVE  LET c == Nearest(S)
             IN  /\ f.w[c].to = p.img.w[c].to
                 /\ p.remap = p.img.w[c].to .. p.img.w[c].to + 2
  <2> DEFINE c == Nearest(S)
             All == {i \in lo + 1 .. x - 1 : p.img.w[i].op = "bl" /\ p.img.w[i + 1] = MOV_X8_X0}
  <2>1. c \in S /\ \A j \in S : j <= c
    BY <1>1, <1>5, <1>6, NearestIs, ZenonT(60)
  <2>2. c \in lo + 1 .. x - 1 /\ p.img.w[c].op = "bl" /\ c \in All /\ x - c < Reach.call
    BY <2>1, ZenonT(60)
  <2>3. f.w[c].to = p.img.w[c].to
    BY <1>2, <2>2
  <2>4. ASSUME NEW d \in All PROVE d <= c
    <3> SUFFICES ASSUME ~(d <= c) PROVE FALSE
      BY SMTT(60)
    <3>1. d \in lo + 1 .. x - 1 /\ c \in lo + 1 .. x - 1 /\ x - c < Reach.call
      BY <2>2
    <3>2. Reach.call \in Nat
      BY ReachAssumption
    <3>3. x - d < Reach.call
      <4> HIDE DEF x, lo, c, n
      <4> QED BY <1>1, <3>1, <3>2
    <3>4. d \in S
      BY <3>3
    <3> QED BY <2>1, <3>4
  <2>5. CallsRemap(p.img.w, lo, p.remap, x)
    BY Formed DEF WellFormedProbed
  <2>6. p.remap = p.img.w[c].to .. p.img.w[c].to + 2
    BY <2>2, <2>4, <2>5 DEF CallsRemap
  <2> QED BY <2>3, <2>6
<1> QED BY <1>4, <1>6

(* Two probes stub a function: the same one in every near file.             *)
Stubs(p, t, f) ==
    \/ Probe(t, f) = Refused(f) /\ Probe(t, p.img) = Refused(p.img)
    \/ \E a \in 1 .. Len(p.img.w) :
          /\ a + 2 \in 1 .. Len(p.img.w) /\ PlaceOf(p, t) = a .. a + 2
          /\ Begins(p.img.w, PlaceOf(p, t)) /\ PlaceOf(p, t) \subseteq Entries(p)
          /\ Probe(t, f) = Written(f, StubEntry(f.w, a))
          /\ Probe(t, p.img) = Written(p.img, StubEntry(p.img.w, a))

LEMMA StubEffect ==
  ASSUME NEW p \in Probed, NEW f, Near(p, f), NEW t, t # "srtrace", Stubs(p, t, f)
  PROVE  /\ Kinds(p, t)
         /\ Fresh(p, t, f) => Effect(p, t, f)
         /\ Done(p, t, f) => Probe(t, f).img = f
<1>1. CASE Probe(t, f) = Refused(f) /\ Probe(t, p.img) = Refused(p.img)
  BY <1>1 DEF Refused, Kinds, Effect
<1>2. ASSUME NEW a \in 1 .. Len(p.img.w), a + 2 \in 1 .. Len(p.img.w),
             PlaceOf(p, t) = a .. a + 2,
             Begins(p.img.w, PlaceOf(p, t)), PlaceOf(p, t) \subseteq Entries(p),
             Probe(t, f) = Written(f, StubEntry(f.w, a)),
             Probe(t, p.img) = Written(p.img, StubEntry(p.img.w, a))
      PROVE  /\ Kinds(p, t)
             /\ Fresh(p, t, f) => Effect(p, t, f)
             /\ Done(p, t, f) => Probe(t, f).img = f
  <2> DEFINE r == Probe(t, f).img
             v == StubEntry(p.img.w, a)
             place == PlaceOf(p, t)
  <2>1. Probe(t, f).ok /\ r = [f EXCEPT !.w = StubEntry(f.w, a)]
    BY <1>2 DEF Written
  <2>2. Probe(t, p.img).ok /\ Probe(t, p.img).img.w = v
    <3>1. p.img = [w |-> p.img.w, mem |-> p.img.mem, strs |-> p.img.strs, seg |-> p.img.seg]
      BY Formed DEF WellFormedProbed
    <3> QED BY <1>2, <3>1 DEF Written
  <2>3. StubWritten(p, a, f, r)
    <3>1. a \in 1 .. Len(p.img.w) /\ a + 2 \in 1 .. Len(p.img.w) /\ Near(p, f)
      BY <1>2
    <3> QED BY <2>1, <3>1, StubWrote, Zenon
  <2>4. \A i \in place : i \in 1 .. Len(p.img.w) /\ Like(p, i, v[i])
    BY <1>2, StubLike
  <2>5. Kinds(p, t)
    BY <2>2, <2>4 DEF Kinds
  <2> HIDE DEF r, v
  <2>6. Fresh(p, t, f) => Wrote(p, t, f, r)
    BY <1>2, <2>2, <2>3 DEF Fresh, Wrote, StubWritten, v
  <2>7. Done(p, t, f) => r = f
    BY <1>2, <2>2, <2>3 DEF Done, StubWritten, v
  <2> QED BY <2>1, <2>2, <2>5, <2>6, <2>7 DEF Effect, r
<1> QED BY <1>1, <1>2 DEF Stubs

LEMMA ProbeIs ==
  /\ \A f : /\ Probe("checknp", f) = CheckNpErrno(f)
            /\ Probe("skipauth", f) = SkipAuthRemap(f)
            /\ Probe("srtrace", f) = SrTrace(f)
            /\ \A t \in Named : Probe(t, f) = StubFnByString(f, t)
  /\ \A p : /\ PlaceOf(p, "checknp") = {i \in p.np : p.img.w[i] = Movz(ENOMEM)}
            /\ PlaceOf(p, "skipauth") = p.remap
            /\ PlaceOf(p, "srtrace") = {}
            /\ \A t \in Named : PlaceOf(p, t) = p.fns[t]
<1>1. \A t \in Named : t # "checknp" /\ t # "skipauth" /\ t # "srtrace"
  BY NamedAssumption
<1> QED BY <1>1 DEF Probe, PlaceOf

LEMMA SkipStubs ==
  ASSUME NEW p \in Probed, NEW f, Near(p, f)
  PROVE  Stubs(p, "skipauth", f)
<1> DEFINE x == AnchorXref(p.img, ANCHOR)
           w == p.img.w
           n == Len(p.img.w)
           c == RemapCall(p.img, x)
           a == w[c].to
<1>1. AnchorXref(f, ANCHOR) = x
  BY XrefSame
<1>2. n \in Nat /\ DOMAIN w = 1 .. n /\ DOMAIN f.w = 1 .. n
  BY NearShape
<1>3. /\ Probe("skipauth", f) = SkipAuthRemap(f)
      /\ Probe("skipauth", p.img) = SkipAuthRemap(p.img)
      /\ PlaceOf(p, "skipauth") = p.remap
  BY ProbeIs
<1> HIDE DEF x, n
<1>4. CASE x = 0
  <2>1. 0 \notin 1 .. n
    BY <1>2
  <2>2. SkipAuthRemap(f) = Refused(f) /\ SkipAuthRemap(p.img) = Refused(p.img)
    BY <1>1, <1>2, <1>4, <2>1 DEF SkipAuthRemap, x
  <2> QED BY <1>3, <2>2 DEF Stubs
<1>5. CASE x # 0
  <2>1. RemapCall(f, x) = c /\ (c # 0 => f.w[c].to = a /\ p.remap = a .. a + 2)
    BY <1>5, RemapSame DEF x
  <2>2. CASE c = 0 \/ a \notin 1 .. n
    <3>1. 0 \notin 1 .. n
      BY <1>2
    <3>2. SkipAuthRemap(f) = Refused(f) /\ SkipAuthRemap(p.img) = Refused(p.img)
      BY <1>1, <1>2, <1>5, <2>1, <2>2, <3>1, SMTT(60) DEF SkipAuthRemap, x
    <3> QED BY <1>3, <3>2 DEF Stubs
  <2>3. CASE c # 0 /\ a \in 1 .. n
    <3>1. /\ SkipAuthRemap(f) = Written(f, StubEntry(f.w, a))
          /\ SkipAuthRemap(p.img) = Written(p.img, StubEntry(w, a))
      BY <1>1, <1>2, <1>5, <2>1, <2>3 DEF SkipAuthRemap, x
    <3>2. Begins(w, p.remap) /\ w = [i \in 1 .. n |-> w[i]]
      BY Formed DEF WellFormedProbed, n
    <3>3. PICK g \in 1 .. n : p.remap = g .. g + 2 /\ g + 2 \in 1 .. n
      BY <1>2, <3>2, BegunWords
    <3>4. g = a
      <4> HIDE DEF a
      <4>1. a \in g .. g + 2 /\ g \in a .. a + 2
        BY <1>2, <2>1, <2>3, <3>3
      <4> QED BY <1>2, <2>3, <4>1
    <3>5. p.remap \subseteq Entries(p)
      BY DEF Entries
    <3> QED BY <1>3, <2>3, <3>1, <3>2, <3>3, <3>4, <3>5 DEF Stubs, n
  <2> QED BY <2>2, <2>3
<1> QED BY <1>4, <1>5

(* The entry of a function that is stubbed by a string it loads.            *)

\* Where the walk back from x stops, in words w in which nothing between the
\* entry g and x looks like an entry.
LEMMA WalkIs ==
  ASSUME NEW w, NEW x \in Nat, NEW g \in 1 .. x,
         \A i \in g + 1 .. x : w[i] \notin Landings,
         \A i \in g + 1 .. x :
             w[i - 1] \in Returns => w[i].op \notin {"pacibsp", "bti", "stp"},
         w[x] \notin Returns,
         w[g] \in Landings \/ (w[g].op = "stp" /\ g > 1 /\ w[g - 1] \in Returns)
  PROVE  WalkBackToLanding(w, x) =
             IF (IF w[g] \in Landings THEN g ELSE g - 1) > x - Reach.stub THEN g ELSE 0
<1> DEFINE seen == {i \in 1 .. x : i > x - Reach.stub}
           ends == {i \in seen : /\ w[i] \in {RET, RETAB}
                                 /\ w[i + 1].op \in {"pacibsp", "bti", "stp"}}
           pads == {i \in seen : w[i] \in {PACIBSP, BTI_C}}
           S == pads \cup ends
           g0 == IF w[g] \in Landings THEN g ELSE g - 1
<1>1. Reach.stub \in Nat
  BY ReachAssumption
<1>2. S \in SUBSET (1 .. x)
  OBVIOUS
<1>3. \A i \in pads : i <= g
  <2> SUFFICES ASSUME NEW i \in pads, ~(i <= g) PROVE FALSE
    OBVIOUS
  <2>1. i \in g + 1 .. x /\ w[i] \in Landings
    BY DEF Landings
  <2> QED BY <2>1
<1>4. \A i \in ends : i < g
  <2> SUFFICES ASSUME NEW i \in ends, ~(i < g) PROVE FALSE
    OBVIOUS
  <2>1. i \in g .. x /\ w[i] \in Returns /\ w[i + 1].op \in {"pacibsp", "bti", "stp"}
    BY DEF Returns
  <2>2. i # x
    BY <2>1
  <2>3. i + 1 \in g + 1 .. x /\ (i + 1) - 1 = i
    BY <2>1, <2>2
  <2> QED BY <2>1, <2>3
<1>5. Landings \cap Returns = {} /\ PACIBSP.op = "pacibsp" /\ BTI_C.op = "bti"
  BY Ops DEF Landings, Returns
<1>6. WalkBackToLanding(w, x) = IF Nearest(S) \in ends THEN Nearest(S) + 1 ELSE Nearest(S)
  BY DEF WalkBackToLanding
<1>7. CASE w[g] \in Landings
  <2>1. g \notin ends /\ (g \in pads <=> g > x - Reach.stub)
    BY <1>1, <1>4, <1>7 DEF Landings
  <2>2. CASE g > x - Reach.stub
    <3>1. g \in S /\ \A j \in S : j <= g
      BY <1>3, <1>4, <2>1, <2>2
    <3>2. Nearest(S) = g
      <4> HIDE DEF S, seen, ends, pads
      <4> QED BY <1>2, <3>1, NearestIs
    <3> QED BY <1>6, <1>7, <2>1, <2>2, <3>2
  <2>3. CASE ~(g > x - Reach.stub)
    <3>1. S = {}
      <4> SUFFICES ASSUME NEW i \in S PROVE FALSE
        OBVIOUS
      <4>1. i <= g /\ i > x - Reach.stub /\ i \in Nat
        BY <1>3, <1>4
      <4> QED BY <1>1, <2>3, <4>1
    <3>2. Nearest(S) = 0 /\ 0 \notin ends
      BY <3>1 DEF Nearest
    <3> QED BY <1>6, <1>7, <2>3, <3>2
  <2> QED BY <2>2, <2>3
<1>8. CASE w[g] \notin Landings
  <2>1. w[g].op = "stp" /\ g - 1 \in 1 .. x /\ w[g - 1] \in Returns
    BY <1>8
  <2>2. g \notin pads /\ g - 1 \notin pads
    BY <1>5, <1>8, <2>1 DEF Landings
  <2>3. g - 1 \in ends <=> g - 1 > x - Reach.stub
    <3>1. (g - 1) + 1 = g
      OBVIOUS
    <3> QED BY <2>1, <3>1 DEF Returns
  <2>4. \A i \in S : i <= g - 1
    <3>1. \A i \in S : i \in Nat /\ i <= g /\ i # g
      BY <1>3, <1>4, <2>2
    <3> QED BY <3>1
  <2>5. CASE g - 1 > x - Reach.stub
    <3>1. g - 1 \in S /\ g - 1 \in ends
      BY <2>3, <2>5
    <3>2. Nearest(S) = g - 1
      <4> HIDE DEF S
      <4> QED BY <1>2, <2>4, <3>1, NearestIs
    <3>3. WalkBackToLanding(w, x) = (g - 1) + 1
      <4> HIDE DEF S, ends
      <4> QED BY <1>6, <3>1, <3>2
    <3> QED BY <1>8, <2>5, <3>3
  <2>6. CASE ~(g - 1 > x - Reach.stub)
    <3>1. S = {}
      <4> SUFFICES ASSUME NEW i \in S PROVE FALSE
        OBVIOUS
      <4>1. i <= g - 1 /\ i > x - Reach.stub /\ i \in Nat
        BY <2>4
      <4> QED BY <1>1, <2>6, <4>1
    <3>2. Nearest(S) = 0 /\ 0 \notin ends
      BY <3>1 DEF Nearest
    <3> QED BY <1>6, <1>8, <2>6, <3>2
  <2> QED BY <2>5, <2>6
<1> QED BY <1>7, <1>8

LEMMA NamedStubs ==
  ASSUME NEW p \in Probed, NEW f, Near(p, f), NEW t \in Named,
         \A i \in p.fns[t] : f.w[i] = p.img.w[i]
  PROVE  Stubs(p, t, f)
<1> DEFINE x == AnchorXref(p.img, t)
           w == p.img.w
           u == f.w
           n == Len(p.img.w)
<1>1. AnchorXref(f, t) = x
  BY XrefSame
<1>2. /\ n \in Nat /\ DOMAIN w = 1 .. n /\ w = [i \in 1 .. n |-> w[i]]
      /\ \A i \in 1 .. n : Like(p, i, u[i])
  BY NearShape, Formed DEF WellFormedProbed
<1>3. /\ Probe(t, f) = StubFnByString(f, t) /\ Probe(t, p.img) = StubFnByString(p.img, t)
      /\ PlaceOf(p, t) = p.fns[t]
  BY ProbeIs
<1>4. CASE x = 0
  <2>1. StubFnByString(f, t) = Refused(f) /\ StubFnByString(p.img, t) = Refused(p.img)
    BY <1>1, <1>4 DEF StubFnByString
  <2> QED BY <1>3, <2>1 DEF Stubs
<1>5. CASE x # 0
  <2>1. x \in 1 .. n - 2 /\ w[x].op = "adrp"
    BY <1>5, XrefIs
  <2>2. IsNamed(w, p.fns[t], x) /\ Alone(p.fns[t], x, Entries(p)) /\ Begins(w, p.fns[t])
    BY <1>5, Formed DEF WellFormedProbed
  <2> HIDE DEF x, w, u, n
  <2>3. PICK g \in 1 .. n :
          /\ p.fns[t] = g .. g + 2 /\ g <= x
          /\ w[g].op = "stp" => g > 1 /\ w[g - 1] \in Returns
          /\ \A i \in g + 1 .. x :
                /\ w[i] \notin Landings
                /\ w[i - 1] \in Returns => w[i].op \notin {"pacibsp", "bti", "stp"}
    BY <1>2, <2>2 DEF IsNamed, Landings
  <2>4. g + 2 \in 1 .. n /\ (w[g] \in Landings \/ w[g].op = "stp")
    <3>1. PICK h \in 1 .. n : /\ p.fns[t] = h .. h + 2 /\ h + 2 \in 1 .. n
                              /\ (w[h] \in Landings \/ w[h].op = "stp")
      <4>1. Begins(w, p.fns[t])
        BY <2>2
      <4> DEFINE entry == p.fns[t]
      <4> HIDE DEF entry
      <4>2. Begins(w, entry)
        BY <4>1 DEF entry
      <4>3. \E h \in 1 .. n : /\ entry = h .. h + 2 /\ h + 2 \in 1 .. n
                              /\ (w[h] \in Landings \/ w[h].op = "stp")
        BY <1>2, <4>2, BegunWords
      <4> QED BY <4>3 DEF entry
    <3>2. h = g
      <4>1. h \in g .. g + 2 /\ g \in h .. h + 2
        BY <1>2, <2>3, <3>1
      <4> QED BY <1>2, <4>1
    <3> QED BY <3>1, <3>2
  <2>5. x \in Nat /\ g \in 1 .. x /\ x \in 1 .. n
    BY <1>2, <2>1, <2>3
  <2>6. u[g] = w[g]
    <3>1. g \in p.fns[t]
      BY <2>3, <2>5
    <3> QED BY <3>1 DEF u, w
  <2>7. ASSUME NEW i \in g .. x
        PROVE  /\ u[i] \in Landings <=> w[i] \in Landings
               /\ u[i] \in Returns <=> w[i] \in Returns
               /\ u[i].op \in {"pacibsp", "bti", "stp"}
                     <=> w[i].op \in {"pacibsp", "bti", "stp"}
    <3>1. CASE i \in p.fns[t]
      <4>1. u[i] = w[i]
        BY <3>1 DEF u, w
      <4> QED BY <4>1
    <3>2. CASE i \notin p.fns[t]
      <4>0. i \in Int /\ ~(g <= i /\ i <= g + 2)
        BY <2>3, <2>5, <3>2
      <4>1. i \in 1 .. n /\ i <= x /\ \A k \in p.fns[t] : k <= i
        <5>1. i > g + 2 /\ i <= x
          BY <2>5, <4>0
        <5>2. \A k \in g .. g + 2 : k <= i
          BY <2>5, <5>1
        <5> QED BY <1>2, <2>3, <2>5, <5>1, <5>2
      <4>2. i \notin Entries(p)
        BY <2>2, <3>2, <4>1 DEF Alone
      <4>3. Like(p, i, u[i])
        BY <1>2, <4>1
      <4> QED BY <4>2, <4>3, NearWords DEF Landings, w
    <3> QED BY <3>1, <3>2
  <2>8. /\ \A i \in g + 1 .. x : u[i] \notin Landings
        /\ \A i \in g + 1 .. x :
              u[i - 1] \in Returns => u[i].op \notin {"pacibsp", "bti", "stp"}
    <3>1. \A i \in g + 1 .. x : i \in g .. x /\ i - 1 \in g .. x
      BY <2>5
    <3> QED BY <2>3, <2>7, <3>1
  <2>9. w[x] \notin Returns /\ u[x] \notin Returns
    <3>1. x \in g .. x
      BY <2>5
    <3>2. w[x] \notin Returns
      BY <2>1, Ops DEF Returns
    <3> QED BY <2>7, <3>1, <3>2
  <2>10. w[g] \in Landings \/ (w[g].op = "stp" /\ g > 1 /\ w[g - 1] \in Returns)
    BY <2>3, <2>4
  <2>11. u[g] \in Landings \/ (u[g].op = "stp" /\ g > 1 /\ u[g - 1] \in Returns)
    <3>1. ASSUME g > 1, w[g - 1] \in Returns PROVE u[g - 1] \in Returns
      <4>1. Like(p, g - 1, u[g - 1])
        BY <1>2, <2>5, <3>1
      <4>2. u[g - 1] = w[g - 1]
        BY <3>1, <4>1, NearWords DEF w
      <4> QED BY <3>1, <4>2
    <3> QED BY <2>6, <2>10, <3>1
  <2>12. /\ WalkBackToLanding(w, x) = IF (IF w[g] \in Landings THEN g ELSE g - 1) > x - Reach.stub
                                      THEN g ELSE 0
         /\ WalkBackToLanding(u, x) = IF (IF u[g] \in Landings THEN g ELSE g - 1) > x - Reach.stub
                                      THEN g ELSE 0
    <3>1. WalkBackToLanding(w, x) = IF (IF w[g] \in Landings THEN g ELSE g - 1) > x - Reach.stub
                                    THEN g ELSE 0
      BY <2>3, <2>5, <2>9, <2>10, WalkIs
    <3>2. WalkBackToLanding(u, x) = IF (IF u[g] \in Landings THEN g ELSE g - 1) > x - Reach.stub
                                    THEN g ELSE 0
      BY <2>5, <2>8, <2>9, <2>11, WalkIs
    <3> QED BY <3>1, <3>2
  <2>13. CASE (IF w[g] \in Landings THEN g ELSE g - 1) > x - Reach.stub
    <3>1. WalkBackToLanding(w, x) = g /\ WalkBackToLanding(u, x) = g /\ g # 0
      BY <2>6, <2>12, <2>13
    <3>2. /\ StubFnByString(f, t) = Written(f, StubEntry(u, g))
          /\ StubFnByString(p.img, t) = Written(p.img, StubEntry(w, g))
      BY <1>1, <1>5, <3>1 DEF StubFnByString, u, w, x
    <3>3. p.fns[t] \subseteq Entries(p)
      BY DEF Entries
    <3> QED BY <1>3, <2>2, <2>3, <2>4, <3>2, <3>3 DEF Stubs, u, w, n
  <2>14. CASE ~((IF w[g] \in Landings THEN g ELSE g - 1) > x - Reach.stub)
    <3>1. WalkBackToLanding(w, x) = 0 /\ WalkBackToLanding(u, x) = 0
      BY <2>6, <2>12, <2>14
    <3>2. StubFnByString(f, t) = Refused(f) /\ StubFnByString(p.img, t) = Refused(p.img)
      BY <1>1, <1>5, <3>1 DEF StubFnByString, u, w, x
    <3> QED BY <1>3, <3>2 DEF Stubs
  <2> QED BY <2>13, <2>14
<1> QED BY <1>4, <1>5

(* The failure paths of check_np, in their order.                           *)
Rank(S, i) == Cardinality({j \in S : j <= i})

LEMMA Errnos ==
  /\ NewErrno(1) = ENOMEM
  /\ \A i, j \in 1 .. 6 : NewErrno(i) = NewErrno(j) => i = j
<1>1. /\ NewErrno(1) = 12 /\ NewErrno(2) = 90 /\ NewErrno(3) = 91 /\ NewErrno(4) = 92
      /\ NewErrno(5) = 93 /\ NewErrno(6) = 99
  BY DEF NewErrno
<1>2. \A i \in 1 .. 6 : i = 1 \/ i = 2 \/ i = 3 \/ i = 4 \/ i = 5 \/ i = 6
  OBVIOUS
<1> QED BY <1>1, <1>2 DEF ENOMEM

LEMMA Ranks ==
  ASSUME NEW n \in Nat, NEW S \in SUBSET (1 .. n)
  PROVE  /\ Cardinality(S) \in Nat
         /\ \A i \in S : Rank(S, i) \in 1 .. Cardinality(S)
         /\ \A i, j \in S : i < j => Rank(S, i) < Rank(S, j)
         /\ S # {} => Rank(S, Earliest(S)) = 1
         /\ (\A i, j \in S : i = j) => Cardinality(S) < 2
<1>1. IsFiniteSet(S)
  <2>1. IsFiniteSet(1 .. n)
    BY FS_Interval
  <2> QED BY <2>1, FS_Subset
<1>2. \A T \in SUBSET S : /\ IsFiniteSet(T) /\ Cardinality(T) \in Nat
                          /\ Cardinality(T) <= Cardinality(S)
  BY <1>1, FS_Subset, FS_CardinalityType
<1>3. Cardinality(S) \in Nat
  BY <1>1, FS_CardinalityType
<1>4. ASSUME NEW i \in S PROVE Rank(S, i) \in 1 .. Cardinality(S)
  <2> DEFINE T == {j \in S : j <= i}
  <2>1. T \in SUBSET S /\ i \in T
    OBVIOUS
  <2> HIDE DEF T
  <2>2. IsFiniteSet(T) /\ Cardinality(T) \in Nat /\ Cardinality(T) <= Cardinality(S)
    BY <1>2, <2>1
  <2>3. Cardinality(T) # 0
    BY <2>1, <2>2, FS_EmptySet
  <2> QED BY <1>3, <2>2, <2>3 DEF Rank, T
<1>5. ASSUME NEW i \in S, NEW j \in S, i < j PROVE Rank(S, i) < Rank(S, j)
  <2> DEFINE T == {k \in S : k <= i}
             U == {k \in S : k <= j}
  <2>0. i \in Int /\ j \in Int /\ \A k \in S : k \in Int
    OBVIOUS
  <2>1. T \in SUBSET U /\ U \in SUBSET S /\ j \in U /\ j \notin T
    <3>1. \A k \in S : k <= i => k <= j
      BY <1>5, <2>0
    <3>2. j <= j /\ ~(j <= i)
      BY <1>5, <2>0
    <3> QED BY <3>1, <3>2
  <2> HIDE DEF T, U
  <2>2. IsFiniteSet(U) /\ Cardinality(U) \in Nat /\ Cardinality(T) \in Nat
    BY <1>2, <2>1
  <2>3. Cardinality(T) <= Cardinality(U) /\ (Cardinality(T) = Cardinality(U) => T = U)
    BY <2>1, <2>2, FS_Subset
  <2> QED BY <2>1, <2>2, <2>3 DEF Rank, T, U
<1>6. ASSUME S # {} PROVE Rank(S, Earliest(S)) = 1
  <2>1. S \in SUBSET Nat
    OBVIOUS
  <2>2. Earliest(S) \in S /\ \A j \in S : Earliest(S) <= j
    BY <1>6, <2>1, EarliestIs
  <2>3. {j \in S : j <= Earliest(S)} = {Earliest(S)}
    <3> DEFINE e == Earliest(S)
    <3> HIDE DEF e
    <3>1. e \in S /\ \A j \in S : j \in Int /\ e <= j
      BY <2>1, <2>2 DEF e
    <3>2. \A j \in S : j <= e <=> j = e
      BY <3>1
    <3>3. {j \in S : j <= e} = {e}
      BY <3>1, <3>2
    <3> QED BY <3>3 DEF e
  <2> QED BY <2>3, FS_Singleton DEF Rank
<1>7. ASSUME \A i, j \in S : i = j PROVE Cardinality(S) < 2
  <2>1. CASE S = {}
    BY <2>1, FS_EmptySet
  <2>2. CASE S # {}
    <3>1. PICK i \in S : S = {i}
      BY <1>7, <2>2
    <3> QED BY <3>1, FS_Singleton
  <2> QED BY <2>1, <2>2
<1> QED BY <1>3, <1>4, <1>5, <1>6, <1>7

\* check_np is found where it is, from its PACIBSP to its return.
LEMMA NpFound ==
  ASSUME NEW p \in Probed, NEW u, NEW x, x = AnchorXref(p.img, ANCHOR), x # 0,
         Len(u) = Len(p.img.w),
         \A i \in 1 .. Len(p.img.w) : Like(p, i, u[i])
  PROVE  LET fn == WalkBackPrologue(u, x)
         IN  /\ fn = WalkBackPrologue(p.img.w, x)
             /\ fn # 0 => fn .. FunctionEnd(u, fn, x) = p.np
<1> DEFINE w == p.img.w
           n == Len(p.img.w)
           Pads(v) == {i \in 1 .. x : i > x - Reach.walk /\ v[i] = PACIBSP}
           fn == Nearest(Pads(w))
           Rets(v) == {i \in x .. Len(v) - 1 : i < x + Reach.ret /\ v[i] \in {RET, RETAB}}
<1>1. n \in Nat /\ x \in 1 .. n - 2 /\ Reach.walk \in Nat /\ Reach.ret \in Nat
  BY XrefIs, Formed, ReachAssumption DEF WellFormedProbed
<1>2. IsCheckNp(w, p.np, x) /\ \A e \in Entries(p) : e >= x => e \notin p.np
  BY Formed DEF WellFormedProbed
<1> HIDE DEF n
<1>3. PICK a \in DOMAIN w, b \in DOMAIN w :
          /\ p.np = a .. b /\ x \in p.np
          /\ w[a] = PACIBSP /\ \A i \in a + 1 .. x : w[i] # PACIBSP
          /\ w[b] \in Returns /\ \A i \in x .. b - 1 : w[i] \notin Returns
          /\ b < x + Reach.ret /\ b < n
  BY <1>2 DEF IsCheckNp, n
<1>4. w = [i \in 1 .. n |-> w[i]]
  BY Formed DEF WellFormedProbed, n
<1>5. a \in 1 .. n /\ b \in 1 .. n /\ a <= x /\ x <= b
  BY <1>1, <1>3, <1>4
<1>6. Pads(u) = Pads(w)
  <2>1. \A i \in 1 .. x : i \in 1 .. n
    BY <1>1
  <2>2. \A i \in 1 .. x : u[i] = PACIBSP <=> w[i] = PACIBSP
    BY <2>1, NearWords DEF n
  <2> QED BY <2>2
<1>7. WalkBackPrologue(u, x) = fn /\ WalkBackPrologue(w, x) = fn
  BY <1>6 DEF WalkBackPrologue
<1>8. ASSUME fn # 0 PROVE fn = a
  <2>1. x \in Nat /\ Pads(w) \in SUBSET (1 .. x)
    BY <1>1
  <2>2. fn \in Pads(w) /\ \A j \in Pads(w) : j <= fn
    <3> DEFINE P == Pads(w)
    <3> HIDE DEF P
    <3>1. P \in SUBSET (1 .. x) /\ Nearest(P) # 0
      BY <1>8, <2>1 DEF P
    <3>2. Nearest(P) \in P /\ \A j \in P : j <= Nearest(P)
      BY <2>1, <3>1, NearestIs
    <3> QED BY <3>2 DEF P
  <2>3. fn \in 1 .. x /\ fn > x - Reach.walk /\ w[fn] = PACIBSP
    BY <2>2
  <2> HIDE DEF fn
  <2>4. fn <= a
    BY <1>1, <1>3, <1>5, <2>3, SMTT(60)
  <2>5. a \in Pads(w)
    BY <1>1, <1>3, <1>5, <2>3, <2>4, SMTT(60)
  <2> QED BY <1>5, <2>2, <2>3, <2>4, <2>5
<1>9. FunctionEnd(u, fn, x) = b
  <2>1. \A i \in x .. b - 1 : u[i] \notin Returns
    <3> SUFFICES ASSUME NEW i \in x .. b - 1 PROVE u[i] \notin Returns
      OBVIOUS
    <3>1. i \in 1 .. n /\ i \in p.np /\ i >= x
      BY <1>1, <1>3, <1>5
    <3>2. i \notin Entries(p) /\ Like(p, i, u[i])
      BY <1>2, <3>1 DEF n
    <3>3. u[i] \in Returns <=> w[i] \in Returns
      BY <3>2, NearWords
    <3> QED BY <1>3, <3>3
  <2>2. u[b] \in Returns
    <3>1. Like(p, b, u[b])
      BY <1>5 DEF n
    <3> QED BY <1>3, <3>1, NearWords
  <2>3. Len(u) = n
    BY DEF n
  <2>4. b \in Rets(u) /\ Rets(u) \in SUBSET Nat
    BY <1>1, <1>3, <1>5, <2>2, <2>3 DEF Returns
  <2>5. \A i \in Rets(u) : b <= i
    <3> SUFFICES ASSUME NEW i \in Rets(u), ~(b <= i) PROVE FALSE
      OBVIOUS
    <3>1. i \in x .. b - 1 /\ u[i] \in Returns
      BY <1>1, <1>5 DEF Returns
    <3> QED BY <2>1, <3>1
  <2>6. Earliest(Rets(u)) = b
    <3> DEFINE R == Rets(u)
               e == Earliest(R)
    <3> HIDE DEF R, e
    <3>1. R \in SUBSET Nat /\ b \in R /\ \A i \in R : b <= i
      BY <2>4, <2>5 DEF R
    <3>2. e \in R /\ \A i \in R : e <= i
      BY <3>1, EarliestIs DEF e
    <3>3. e \in Nat /\ b \in Nat /\ b <= e /\ e <= b
      BY <3>1, <3>2
    <3> QED BY <3>3 DEF e, R
  <2> QED BY <2>4, <2>6 DEF FunctionEnd
<1> HIDE DEF fn
<1> QED BY <1>3, <1>7, <1>8, <1>9 DEF w

\* What checknp writes, given its sites.
Numbered(n, u, S) ==
    [i \in 1 .. n |-> IF i \in S THEN Movz(NewErrno(Rank(S, i))) ELSE u[i]]

NpSites(p, u) == {i \in p.np : u[i] = Movz(ENOMEM)}

\* Where the error numbers are, whether check_np is found at all, and that the
\* tool does what it does to those.
NpResult(p, f, found) ==
    Probe("checknp", f) =
        IF found /\ Cardinality(NpSites(p, f.w)) >= 2
        THEN Written(f, Numbered(Len(p.img.w), f.w, NpSites(p, f.w))) ELSE Refused(f)

LEMMA NpSame ==
  ASSUME NEW p \in Probed, NEW f, Near(p, f)
  PROVE  \E found \in BOOLEAN :
            /\ NpResult(p, f, found) /\ NpResult(p, p.img, found)
            /\ found => /\ p.np \in SUBSET (1 .. Len(p.img.w))
                         /\ Cardinality(PlaceOf(p, "checknp")) <= 6
<1> DEFINE x == AnchorXref(p.img, ANCHOR)
           w == p.img.w
           n == Len(p.img.w)
           fn == WalkBackPrologue(w, x)
<1>1. AnchorXref(f, ANCHOR) = x
  BY XrefSame
<1>2. /\ n \in Nat /\ DOMAIN w = 1 .. n /\ DOMAIN f.w = 1 .. n /\ Len(f.w) = n
      /\ \A i \in 1 .. n : Like(p, i, f.w[i])
      /\ \A i \in 1 .. n : Like(p, i, w[i])
  BY NearShape DEF Like
<1>3. /\ Probe("checknp", f) = CheckNpErrno(f)
      /\ Probe("checknp", p.img) = CheckNpErrno(p.img)
      /\ PlaceOf(p, "checknp") = NpSites(p, w)
  BY ProbeIs DEF NpSites
<1>4. CASE x = 0 \/ fn = 0
  <2>1. x # 0 => WalkBackPrologue(f.w, x) = fn
    BY <1>2, NpFound
  <2>2. CheckNpErrno(f) = Refused(f) /\ CheckNpErrno(p.img) = Refused(p.img)
    BY <1>1, <1>4, <2>1 DEF CheckNpErrno
  <2>3. NpResult(p, f, FALSE) /\ NpResult(p, p.img, FALSE)
    BY <1>3, <2>2 DEF NpResult
  <2> QED BY <2>3
<1>5. CASE x # 0 /\ fn # 0
  <2>1. /\ WalkBackPrologue(f.w, x) = fn
        /\ fn .. FunctionEnd(f.w, fn, x) = p.np
        /\ fn .. FunctionEnd(w, fn, x) = p.np
    <3>1. WalkBackPrologue(f.w, x) = fn /\ fn .. FunctionEnd(f.w, fn, x) = p.np
      BY <1>2, <1>5, NpFound
    <3>2. fn .. FunctionEnd(w, fn, x) = p.np
      BY <1>2, <1>5, NpFound
    <3> QED BY <3>1, <3>2
  <2>2. IsCheckNp(w, p.np, x)
    BY <1>5, Formed DEF WellFormedProbed
  <2> HIDE DEF x, n, fn
  <2>3. p.np \in SUBSET (1 .. n)
    <3>1. PICK a \in DOMAIN w, b \in DOMAIN w : p.np = a .. b
      BY <2>2 DEF IsCheckNp
    <3>2. a \in 1 .. n /\ b \in 1 .. n
      BY <1>2, <3>1
    <3> QED BY <1>2, <3>1, <3>2
  <2>4. Cardinality(NpSites(p, w)) <= 6
    BY <2>2 DEF IsCheckNp, NpSites
  <2>5. /\ Cardinality(NpSites(p, f.w)) \in Nat
        /\ Cardinality(NpSites(p, w)) \in Nat
    <3>1. NpSites(p, f.w) \in SUBSET (1 .. n) /\ NpSites(p, w) \in SUBSET (1 .. n)
      BY <2>3 DEF NpSites
    <3> QED BY <1>2, <3>1, Ranks
  <2>6. NpResult(p, f, TRUE)
    <3> DEFINE S == NpSites(p, f.w)
    <3>1. CheckNpErrno(f) =
            IF Cardinality(S) < 2 THEN Refused(f)
            ELSE Written(f, [i \in DOMAIN f.w |->
                                IF i \in S THEN Movz(NewErrno(Rank(S, i))) ELSE f.w[i]])
      BY <1>1, <1>5, <2>1 DEF CheckNpErrno, NpSites, Rank
    <3> QED BY <1>2, <1>3, <2>5, <3>1 DEF NpResult, Numbered, n
  <2>7. NpResult(p, p.img, TRUE)
    <3> DEFINE S == NpSites(p, w)
    <3>1. CheckNpErrno(p.img) =
            IF Cardinality(S) < 2 THEN Refused(p.img)
            ELSE Written(p.img, [i \in DOMAIN w |->
                                IF i \in S THEN Movz(NewErrno(Rank(S, i))) ELSE w[i]])
      BY <1>5, <2>1 DEF CheckNpErrno, NpSites, Rank, x, fn
    <3> QED BY <1>2, <1>3, <2>5, <3>1 DEF NpResult, Numbered, n
  <2> QED BY <1>3, <2>3, <2>4, <2>6, <2>7 DEF n
<1> QED BY <1>4, <1>5

LEMMA RefusedEffect ==
  ASSUME NEW p, NEW f, NEW t, Probe(t, f) = Refused(f), Probe(t, p.img) = Refused(p.img)
  PROVE  Effect(p, t, f)
BY DEF Refused, Effect

LEMMA NpEffect ==
  ASSUME NEW p \in Probed, NEW f, Near(p, f)
  PROVE  /\ Kinds(p, "checknp")
         /\ Fresh(p, "checknp", f) => Effect(p, "checknp", f)
         /\ Done(p, "checknp", f) => Probe("checknp", f).img = f
<1> DEFINE w == p.img.w
           n == Len(p.img.w)
           place == PlaceOf(p, "checknp")
           S == NpSites(p, f.w)
           new == Numbered(n, w, place)
<1>1. PICK found \in BOOLEAN :
         /\ NpResult(p, f, found) /\ NpResult(p, p.img, found)
         /\ found => p.np \in SUBSET (1 .. n) /\ Cardinality(place) <= 6
  BY NpSame
<1>2. place = {i \in p.np : w[i] = Movz(ENOMEM)} /\ place = NpSites(p, w)
  BY ProbeIs DEF NpSites
<1>3. /\ n \in Nat /\ DOMAIN w = 1 .. n
      /\ \A i \in 1 .. n : Like(p, i, f.w[i])
      /\ p.img = [w |-> w, mem |-> p.img.mem, strs |-> p.img.strs, seg |-> p.img.seg]
      /\ f = [w |-> f.w, mem |-> f.mem, strs |-> p.img.strs, seg |-> p.img.seg]
      /\ f.w = [i \in 1 .. n |-> f.w[i]]
  BY NearShape, Formed DEF WellFormedProbed, Near, Framed
<1> HIDE DEF n, w, place, new, S
<1>4. Probe("checknp", p.img) = IF found /\ Cardinality(place) >= 2
                                THEN Written(p.img, new) ELSE Refused(p.img)
  BY <1>1, <1>2 DEF NpResult, new, n, w
<1>5. Probe("checknp", f) = IF found /\ Cardinality(S) >= 2
                            THEN Written(f, Numbered(n, f.w, S)) ELSE Refused(f)
  BY <1>1 DEF NpResult, S, n
<1>6. \A i \in place : i \in p.np /\ w[i] = Movz(ENOMEM)
  BY <1>2
<1>7. ASSUME found PROVE \A i \in place : i \in 1 .. n /\ new[i] = Movz(NewErrno(Rank(place, i)))
  BY <1>1, <1>6, <1>7 DEF new, Numbered
<1>8. Probe("checknp", p.img).ok => /\ found /\ Cardinality(place) >= 2
                                    /\ Probe("checknp", p.img).img.w = new
  BY <1>3, <1>4 DEF Written, Refused
<1>9. Kinds(p, "checknp")
  <2> SUFFICES ASSUME Probe("checknp", p.img).ok, NEW i \in place
               PROVE  i \in 1 .. n /\ Like(p, i, Probe("checknp", p.img).img.w[i])
    BY DEF Kinds, place, n
  <2>1. i \in 1 .. n /\ Probe("checknp", p.img).img.w[i] = Movz(NewErrno(Rank(place, i)))
    BY <1>7, <1>8
  <2> QED BY <1>6, <2>1, Ops DEF Like, w
<1>10. ASSUME Fresh(p, "checknp", f) PROVE Effect(p, "checknp", f)
  <2>1. \A i \in place : f.w[i] = w[i]
    BY <1>10 DEF Fresh, place, w
  <2>0. ASSUME Probe("checknp", f) = Refused(f), Probe("checknp", p.img) = Refused(p.img)
        PROVE  Effect(p, "checknp", f)
    BY <2>0, RefusedEffect
  <2>2. CASE ~found
    BY <1>4, <1>5, <2>0, <2>2
  <2>3. CASE found
    <3>1. S = place
      <4>1. \A i \in p.np : f.w[i] = Movz(ENOMEM) => w[i] = Movz(ENOMEM)
        BY <1>1, <1>3, <2>3, NearWords DEF w
      <4> QED BY <1>2, <2>1, <4>1 DEF S, NpSites
    <3>2. CASE ~(Cardinality(place) >= 2)
      BY <1>4, <1>5, <2>0, <3>1, <3>2
    <3>3. CASE Cardinality(place) >= 2
      <4> DEFINE r == Probe("checknp", f).img
      <4>1. /\ Probe("checknp", f).ok /\ Probe("checknp", p.img).ok
            /\ r = [f EXCEPT !.w = Numbered(n, f.w, place)]
        BY <1>4, <1>5, <2>3, <3>1, <3>3 DEF Written
      <4>2. /\ r = [w |-> Numbered(n, f.w, place), mem |-> f.mem,
                    strs |-> p.img.strs, seg |-> p.img.seg]
            /\ r.w = Numbered(n, f.w, place) /\ r.mem = f.mem
        <5> HIDE DEF r
        <5> QED BY <1>3, <4>1
      <4>3. Framed(p, r)
        BY <4>2 DEF Framed, Numbered, n
      <4>4. \A i \in 1 .. n : i \notin place => r.w[i] = f.w[i]
        BY <4>2 DEF Numbered
      <4>5. \A i \in place : r.w[i] = new[i]
        BY <1>7, <2>3, <4>2 DEF Numbered
      <4>6. Wrote(p, "checknp", f, r)
        BY <1>8, <4>1, <4>2, <4>3, <4>4, <4>5 DEF Wrote, place, n
      <4> QED BY <4>1, <4>6 DEF Effect
    <3> QED BY <3>2, <3>3
  <2> QED BY <2>2, <2>3
<1>11. ASSUME Done(p, "checknp", f) PROVE Probe("checknp", f).img = f
  <2>1. /\ found /\ Cardinality(place) >= 2
        /\ \A i \in place : f.w[i] = Movz(NewErrno(Rank(place, i)))
    BY <1>7, <1>8, <1>11 DEF Done, place
  <2>2. place \in SUBSET (1 .. n) /\ p.np \in SUBSET (1 .. n) /\ Cardinality(place) <= 6
    BY <1>1, <1>2, <2>1
  <2>3. /\ Cardinality(place) \in Nat
        /\ \A i \in place : Rank(place, i) \in 1 .. Cardinality(place)
        /\ \A i, j \in place : i < j => Rank(place, i) < Rank(place, j)
    BY <1>3, <2>2, Ranks
  <2>4. ASSUME NEW i \in S PROVE i \in place /\ Rank(place, i) = 1
    <3>1. i \in p.np /\ i \in 1 .. n /\ f.w[i] = Movz(ENOMEM)
      BY <2>2 DEF S, NpSites
    <3>2. i \in place
      BY <1>2, <1>3, <3>1, NearWords DEF w
    <3>3. Movz(NewErrno(Rank(place, i))).to = Movz(NewErrno(1)).to
      BY <2>1, <3>1, <3>2, Errnos
    <3>4. NewErrno(Rank(place, i)) = NewErrno(1)
      BY <3>3, Ops
    <3>5. Rank(place, i) \in 1 .. 6 /\ 1 \in 1 .. 6
      BY <2>2, <2>3, <3>2
    <3> QED BY <3>2, <3>4, <3>5, Errnos
  <2>5. \A i, j \in S : i = j
    <3> SUFFICES ASSUME NEW i \in S, NEW j \in S, i # j PROVE FALSE
      OBVIOUS
    <3>1. i \in place /\ j \in place /\ Rank(place, i) = 1 /\ Rank(place, j) = 1
      BY <2>4
    <3>2. i \in Int /\ j \in Int
      BY <2>2, <3>1
    <3>3. i < j \/ j < i
      BY <3>2
    <3> QED BY <2>3, <3>1, <3>3
  <2>6. S \in SUBSET (1 .. n)
    BY <2>2 DEF S, NpSites
  <2>7. Cardinality(S) < 2 /\ Cardinality(S) \in Nat
    BY <1>3, <2>5, <2>6, Ranks
  <2>8. ~(Cardinality(S) >= 2)
    BY <2>7
  <2> QED BY <1>5, <2>8 DEF Refused
<1> QED BY <1>9, <1>10, <1>11

-----------------------------------------------------------------------------
(* The trace level: the globals looked at are the same as long as the level *)
(* was one of them, and then the level is the last.                         *)

LEMMA LevelsSame ==
  ASSUME NEW p \in Probed, NEW f, Near(p, f), AnchorXref(p.img, ANCHOR) # 0,
         f.mem = p.img.mem \/ LevelCandidates(p.img, AnchorXref(p.img, ANCHOR)) # {}
  PROVE  LET x == AnchorXref(p.img, ANCHOR)
         IN  /\ LevelCandidates(f, x) = LevelCandidates(p.img, x)
             /\ \A c \in LevelCandidates(p.img, x) : c[1] \in 1 .. Len(p.img.w)
<1> DEFINE x == AnchorXref(p.img, ANCHOR)
           w == p.img.w
           n == Len(p.img.w)
           Win(g) == {i \in g.seg.lo .. x - 1 : i >= x - Reach.level}
           win == Win(p.img)
           Page(u, i) == Nearest({j \in win : j < i /\ u[j].op = "adrpg" /\ u[j].str = u[i].str})
           Address(u, i) == u[Page(u, i)].to + u[i].to
           Hit(u, m, k) == /\ u[k].op = "ldr" /\ Page(u, k) > 0
                           /\ Address(u, k) \in DOMAIN m /\ m[Address(u, k)] <= 8
           cands == LevelCandidates(p.img, x)
<1>1. /\ n \in Nat /\ x \in 1 .. n - 2 /\ p.img.seg.lo \in Nat \ {0} /\ f.seg = p.img.seg
      /\ \A i \in 1 .. n : Like(p, i, f.w[i])
  BY XrefIs, NearShape, SMTT(60)
<1>2. /\ cands = {<<i, Address(w, i)>> : i \in {k \in win : Hit(w, p.img.mem, k)}}
      /\ LevelCandidates(f, x) = {<<i, Address(f.w, i)>> : i \in {k \in win : Hit(f.w, f.mem, k)}}
  BY <1>1 DEF LevelCandidates
<1> HIDE DEF n, x, cands
<1>3. win \in SUBSET (1 .. n)
  BY <1>1
<1> HIDE DEF win
<1>4. ASSUME NEW i \in win
      PROVE  /\ f.w[i].op = "ldr" <=> w[i].op = "ldr"
             /\ f.w[i].op = "adrpg" <=> w[i].op = "adrpg"
             /\ f.w[i].op \in {"ldr", "adrpg"} => f.w[i] = w[i]
  <2>1. Like(p, i, f.w[i])
    BY <1>1, <1>3
  <2>2. f.w[i] = w[i] \/ (f.w[i].op \in PlainOps /\ w[i].op \in PlainOps)
    BY <2>1, NearWords
  <2>3. "ldr" \notin PlainOps /\ "adrpg" \notin PlainOps
    BY DEF PlainOps, EntryOps
  <2> QED BY <2>2, <2>3
<1>5. ASSUME NEW k \in win, w[k].op = "ldr"
      PROVE  Page(f.w, k) = Page(w, k) /\ f.w[k] = w[k]
  <2>1. f.w[k] = w[k]
    BY <1>4, <1>5
  <2>2. \A j \in win : f.w[j].op = "adrpg" <=> w[j].op = "adrpg"
    BY <1>4
  <2>3. \A j \in win : f.w[j].op = "adrpg" => f.w[j] = w[j]
    BY <1>4
  <2>4. {j \in win : j < k /\ f.w[j].op = "adrpg" /\ f.w[j].str = f.w[k].str}
          = {j \in win : j < k /\ w[j].op = "adrpg" /\ w[j].str = w[k].str}
    BY <2>1, <2>2, <2>3
  <2> QED BY <2>1, <2>4
<1>6. ASSUME NEW k \in win, w[k].op = "ldr", Page(w, k) > 0
      PROVE  Address(f.w, k) = Address(w, k)
  <2> DEFINE T == {j \in win : j < k /\ w[j].op = "adrpg" /\ w[j].str = w[k].str}
  <2>1. T \in SUBSET (1 .. n) /\ Page(w, k) = Nearest(T)
    BY <1>3
  <2>2. Nearest(T) # 0
    BY <1>6, <2>1
  <2>3. Nearest(T) \in T
    <3> HIDE DEF T
    <3> QED BY <1>1, <2>1, <2>2, NearestIs
  <2>4. Page(w, k) \in win /\ w[Page(w, k)].op = "adrpg"
    BY <2>1, <2>3
  <2> HIDE DEF Page
  <2>5. f.w[Page(w, k)] = w[Page(w, k)]
    BY <1>4, <2>4
  <2> QED BY <1>5, <1>6, <2>5
<1> HIDE DEF Page, Address
<1>7. ASSUME NEW k \in win, f.mem = p.img.mem
      PROVE  Hit(f.w, f.mem, k) <=> Hit(w, p.img.mem, k)
  <2>1. f.w[k].op = "ldr" <=> w[k].op = "ldr"
    BY <1>4
  <2> QED BY <1>5, <1>6, <1>7, <2>1
<1>8. ASSUME f.mem # p.img.mem
      PROVE  p.level \in DOMAIN p.img.mem /\ p.img.mem[p.level] <= 8
  <2>1. cands # {} /\ \A c \in cands : (\A d \in cands : d[1] <= c[1]) => c[2] = p.level
    BY <1>8, Formed DEF WellFormedProbed, x, cands
  <2> DEFINE K == {k \in win : Hit(w, p.img.mem, k)}
  <2>2. cands = {<<k, Address(w, k)>> : k \in K} /\ K \in SUBSET (1 .. n)
    BY <1>2, <1>3
  <2>3. K # {}
    BY <2>1, <2>2
  <2>4. PICK m \in K : \A k \in K : k <= m
    <3> HIDE DEF K
    <3>1. Nearest(K) \in K /\ \A k \in K : k <= Nearest(K)
      BY <1>1, <2>2, <2>3, NearestIs
    <3> QED BY <3>1
  <2>5. Address(w, m) = p.level
    <3>1. <<m, Address(w, m)>> \in cands
      BY <2>2
    <3>2. \A d \in cands : d[1] <= m
      BY <2>2, <2>4
    <3> QED BY <2>1, <3>1, <3>2
  <2> QED BY <2>4, <2>5
<1>9. ASSUME NEW k \in win, f.mem # p.img.mem
      PROVE  Hit(f.w, f.mem, k) <=> Hit(w, p.img.mem, k)
  <2>1. f.w[k].op = "ldr" <=> w[k].op = "ldr"
    BY <1>4
  <2>2. f.mem = Leveled(p) /\ p.img.mem = [a \in DOMAIN p.img.mem |-> p.img.mem[a]]
    BY <1>9, Formed DEF WellFormedProbed, Near
  <2>3. /\ DOMAIN f.mem = DOMAIN p.img.mem
        /\ \A a \in DOMAIN f.mem : f.mem[a] = IF a = p.level THEN 3 ELSE p.img.mem[a]
    BY <2>2 DEF Leveled
  <2>4. \A a \in DOMAIN f.mem : f.mem[a] <= 8 <=> p.img.mem[a] <= 8
    BY <1>8, <1>9, <2>3
  <2> QED BY <1>5, <1>6, <2>1, <2>3, <2>4
<1>10. \A k \in win : Hit(f.w, f.mem, k) <=> Hit(w, p.img.mem, k)
  BY <1>7, <1>9
<1>11. ASSUME NEW k \in win, Hit(w, p.img.mem, k) PROVE Address(f.w, k) = Address(w, k)
  BY <1>6, <1>11
<1> HIDE DEF Hit
<1>12. LevelCandidates(f, x) = cands
  BY <1>2, <1>10, <1>11
<1>13. \A c \in cands : c[1] \in 1 .. n
  BY <1>2, <1>3
<1> QED BY <1>12, <1>13 DEF x, cands, n


LEMMA LevelEffect ==
  ASSUME NEW p \in Probed, NEW f, Near(p, f)
  PROVE  /\ Kinds(p, "srtrace")
         /\ Fresh(p, "srtrace", f) => Effect(p, "srtrace", f)
         /\ Done(p, "srtrace", f) => Probe("srtrace", f).img = f
<1> DEFINE x == AnchorXref(p.img, ANCHOR)
           cands == IF x = 0 THEN {} ELSE LevelCandidates(p.img, x)
           last == CHOOSE c \in cands : \A d \in cands : d[1] <= c[1]
           n == Len(p.img.w)
           Set(g) == [ok |-> TRUE, img |-> [g EXCEPT !.mem[last[2]] = 3]]
<1>1. AnchorXref(f, ANCHOR) = x
  BY XrefSame
<1>2. /\ Probe("srtrace", f) = SrTrace(f) /\ Probe("srtrace", p.img) = SrTrace(p.img)
      /\ PlaceOf(p, "srtrace") = {}
  BY ProbeIs
<1>3. /\ p.img = [w |-> p.img.w, mem |-> p.img.mem, strs |-> p.img.strs, seg |-> p.img.seg]
      /\ f = [w |-> f.w, mem |-> f.mem, strs |-> p.img.strs, seg |-> p.img.seg]
      /\ f.w = [i \in 1 .. n |-> f.w[i]]
      /\ p.img.mem = [a \in DOMAIN p.img.mem |-> p.img.mem[a]]
  BY Formed DEF WellFormedProbed, Near, Framed
<1>4. Kinds(p, "srtrace")
  BY <1>2 DEF Kinds
<1>5. SrTrace(p.img) = IF cands = {} THEN Refused(p.img) ELSE Set(p.img)
  BY DEF SrTrace
<1>6. ASSUME f.mem = p.img.mem \/ cands # {}
      PROVE  SrTrace(f) = IF cands = {} THEN Refused(f) ELSE Set(f)
  <2>1. x # 0 => LevelCandidates(f, x) = LevelCandidates(p.img, x)
    BY <1>6, LevelsSame
  <2>2. (IF x = 0 THEN {} ELSE LevelCandidates(f, x)) = cands
    BY <2>1
  <2> QED BY <1>1, <2>2 DEF SrTrace
<1>7. ASSUME cands # {} PROVE last[2] = p.level
  <2>1. x # 0 /\ cands = LevelCandidates(p.img, x)
    BY <1>7
  <2>2. \A c \in cands : (\A d \in cands : d[1] <= c[1]) => c[2] = p.level
    BY <2>1, Formed DEF WellFormedProbed
  <2>3. n \in Nat /\ x \in 1 .. n - 2 /\ p.img.seg.lo \in Nat \ {0}
    BY <2>1, XrefIs, NearShape
  <2> DEFINE K == {c[1] : c \in cands}
  <2>4. K \in SUBSET (1 .. n) /\ K # {}
    <3>1. Near(p, p.img)
      BY Formed DEF Near, Framed, Like, WellFormedProbed
    <3>2. \A c \in cands : c[1] \in 1 .. n
      BY <2>1, <3>1, LevelsSame
    <3> QED BY <1>7, <3>2
  <2>5. PICK m \in K : \A k \in K : k <= m
    <3> HIDE DEF K
    <3>1. Nearest(K) \in K /\ \A k \in K : k <= Nearest(K)
      BY <2>3, <2>4, NearestIs
    <3> QED BY <3>1
  <2>6. \E c \in cands : \A d \in cands : d[1] <= c[1]
    BY <2>5
  <2> HIDE DEF cands
  <2>7. last \in cands /\ \A d \in cands : d[1] <= last[1]
    BY <2>6
  <2> HIDE DEF last
  <2> QED BY <2>2, <2>7
<1> HIDE DEF cands, last, n
<1>8. ASSUME cands # {}
      PROVE  /\ Set(p.img).img.mem = Leveled(p) /\ Set(f).img.w = f.w
             /\ Set(f).img = [w |-> f.w, mem |-> [f.mem EXCEPT ![p.level] = 3],
                              strs |-> p.img.strs, seg |-> p.img.seg]
             /\ Set(f).ok /\ Set(p.img).ok
             /\ [f.mem EXCEPT ![p.level] = 3] = Leveled(p)
  <2>1. last[2] = p.level
    BY <1>7, <1>8
  <2> DEFINE l == last[2]
  <2> HIDE DEF l
  <2>2. [f EXCEPT !.mem[l] = 3] = [w |-> f.w, mem |-> [f.mem EXCEPT ![l] = 3],
                                   strs |-> p.img.strs, seg |-> p.img.seg]
    <3>1. \E a, b, c, d : /\ f = [w |-> a, mem |-> b, strs |-> c, seg |-> d]
                          /\ f.w = a /\ f.mem = b /\ p.img.strs = c /\ p.img.seg = d
      BY <1>3
    <3> QED BY <3>1
  <2>3. [p.img EXCEPT !.mem[l] = 3].mem = [p.img.mem EXCEPT ![l] = 3]
    BY <1>3
  <2>4. [f.mem EXCEPT ![p.level] = 3] = Leveled(p)
    BY <1>3 DEF Near, Leveled
  <2> QED BY <2>1, <2>2, <2>3, <2>4 DEF l, Leveled
<1> HIDE DEF Set
<1>9. ASSUME Fresh(p, "srtrace", f) PROVE Effect(p, "srtrace", f)
  <2>1. f.mem = p.img.mem
    BY <1>9 DEF Fresh
  <2>2. SrTrace(f) = IF cands = {} THEN Refused(f) ELSE Set(f)
    BY <1>6, <2>1
  <2>3. CASE cands = {}
    <3>1. Probe("srtrace", f) = Refused(f) /\ Probe("srtrace", p.img) = Refused(p.img)
      BY <1>2, <1>5, <2>2, <2>3
    <3> QED BY <3>1, RefusedEffect
  <2>4. CASE cands # {}
    <3>1. Probe("srtrace", f) = Set(f) /\ Probe("srtrace", p.img) = Set(p.img)
      BY <1>2, <1>5, <2>2, <2>4
    <3> DEFINE r == Set(f).img
    <3>2. r = [w |-> f.w, mem |-> Leveled(p), strs |-> p.img.strs, seg |-> p.img.seg]
          /\ Set(f).ok /\ Set(p.img).ok
      BY <1>8, <2>4
    <3> HIDE DEF r
    <3>3. r.w = f.w /\ r.mem = Leveled(p) /\ Framed(p, r)
      BY <1>3, <3>2 DEF Framed, n
    <3>4. Wrote(p, "srtrace", f, r)
      BY <1>2, <3>3 DEF Wrote
    <3>5. /\ Probe("srtrace", f).ok /\ Probe("srtrace", p.img).ok
          /\ Probe("srtrace", f).img = r
      BY <3>1, <3>2 DEF r
    <3> QED BY <3>4, <3>5 DEF Effect
  <2> QED BY <2>3, <2>4
<1>10. ASSUME Done(p, "srtrace", f) PROVE Probe("srtrace", f).img = f
  <2>1. f.mem = Leveled(p) /\ Probe("srtrace", p.img).ok
    BY <1>10 DEF Done
  <2>2. cands # {}
    BY <1>2, <1>5, <2>1 DEF Refused
  <2>3. Probe("srtrace", f) = Set(f)
    BY <1>2, <1>6, <2>2
  <2> QED BY <1>3, <1>8, <2>1, <2>2, <2>3
<1> QED BY <1>4, <1>9, <1>10

-----------------------------------------------------------------------------
(* All probes together: each writes to words of its own, so that in a file  *)
(* on which some were run each word is what one of them made of the         *)
(* original, or as it was.                                                  *)

LEMMA NearItself ==
  ASSUME NEW p \in Probed
  PROVE  Near(p, p.img)
BY Formed DEF Near, Framed, Like, WellFormedProbed

LEMMA Places ==
  ASSUME NEW p \in Probed, NEW t \in ProbeTools
  PROVE  /\ \A i \in PlaceOf(p, t) : i \in 1 .. Len(p.img.w)
         /\ t # "checknp" => \A i \in PlaceOf(p, t) : p.img.w[i].op \in EntryOps
<1> DEFINE n == Len(p.img.w)
           w == p.img.w
<1>1. n \in Nat /\ w = [i \in 1 .. n |-> w[i]] /\ DOMAIN w = 1 .. n
  BY Formed, NearItself, NearShape DEF WellFormedProbed
<1>2. ASSUME NEW entry, Begins(w, entry)
      PROVE  \A i \in entry : i \in 1 .. n /\ w[i].op \in EntryOps
  <2> HIDE DEF w, n
  <2> QED BY <1>1, <1>2, BegunWords
<1>3. /\ p.np \subseteq 1 .. n /\ Begins(w, p.remap)
      /\ \A s \in Named : Begins(w, p.fns[s])
  BY <1>1, Formed DEF WellFormedProbed
<1>4. CASE t = "checknp"
  BY <1>3, <1>4, ProbeIs
<1>5. CASE t = "skipauth"
  BY <1>2, <1>3, <1>5, ProbeIs
<1>6. CASE t = "srtrace"
  BY <1>6, ProbeIs
<1>7. CASE t \in Named
  <2>1. PlaceOf(p, t) = p.fns[t] /\ Begins(w, p.fns[t])
    BY <1>3, <1>7, ProbeIs
  <2> QED BY <1>2, <2>1, <1>7, NamedAssumption
<1> QED BY <1>4, <1>5, <1>6, <1>7 DEF ProbeTools

LEMMA Apart ==
  ASSUME NEW p \in Probed, NEW t \in ProbeTools, NEW u \in ProbeTools, t # u
  PROVE  \A i \in PlaceOf(p, t) : i \notin PlaceOf(p, u)
<1>1. ASSUME NEW v \in ProbeTools, v # "checknp", NEW i \in PlaceOf(p, v)
      PROVE  i \notin PlaceOf(p, "checknp")
  <2>1. p.img.w[i].op # "movz"
    BY <1>1, Places DEF EntryOps
  <2> QED BY <2>1, ProbeIs, Ops
<1>2. ASSUME NEW v \in Named
      PROVE  /\ p.fns[v] \cap p.remap = {}
             /\ \A s \in Named : s # v => p.fns[v] \cap p.fns[s] = {}
  BY Formed DEF WellFormedProbed
<1>3. PlaceOf(p, "srtrace") = {} /\ PlaceOf(p, "skipauth") = p.remap
      /\ \A v \in Named : PlaceOf(p, v) = p.fns[v]
  BY ProbeIs
<1>4. CASE t = "checknp" \/ u = "checknp"
  BY <1>1, <1>4
<1>5. CASE t = "srtrace" \/ u = "srtrace"
  BY <1>3, <1>5
<1>6. CASE t \in {"skipauth"} \cup Named /\ u \in {"skipauth"} \cup Named
  BY <1>2, <1>3, <1>6
<1> QED BY <1>4, <1>5, <1>6 DEF ProbeTools

LEMMA ProbeEffect ==
  ASSUME NEW p \in Probed, NEW f, Near(p, f), NEW t \in ProbeTools
  PROVE  /\ Kinds(p, t)
         /\ Fresh(p, t, f) => Effect(p, t, f)
         /\ t \notin Named /\ Done(p, t, f) => Probe(t, f).img = f
<1>1. CASE t = "checknp"
  BY <1>1, NpEffect
<1>2. CASE t = "srtrace"
  BY <1>2, LevelEffect
<1>3. CASE t = "skipauth"
  <2>1. Stubs(p, t, f) /\ t # "srtrace"
    BY <1>3, SkipStubs
  <2> QED BY <2>1, StubEffect
<1>4. CASE t \in Named
  <2>1. t # "srtrace" /\ PlaceOf(p, t) = p.fns[t]
    BY <1>4, NamedAssumption, ProbeIs
  <2>2. Kinds(p, t)
    <3>1. Near(p, p.img) /\ \A i \in p.fns[t] : p.img.w[i] = p.img.w[i]
      BY NearItself
    <3>2. Stubs(p, t, p.img)
      BY <1>4, <3>1, NamedStubs
    <3> QED BY <2>1, <3>1, <3>2, StubEffect
  <2>3. ASSUME Fresh(p, t, f) PROVE Effect(p, t, f)
    <3>1. \A i \in p.fns[t] : f.w[i] = p.img.w[i]
      BY <2>1, <2>3 DEF Fresh
    <3>2. Stubs(p, t, f)
      BY <1>4, <3>1, NamedStubs
    <3> QED BY <2>1, <2>3, <3>2, StubEffect
  <2> QED BY <1>4, <2>2, <2>3
<1> QED BY <1>1, <1>2, <1>3, <1>4 DEF ProbeTools

\* A file on which the probes ts have been run.
Mixed(p, ts, f) ==
    /\ Framed(p, f)
    /\ \A t \in ts : /\ Probe(t, p.img).ok
                     /\ \A i \in PlaceOf(p, t) : f.w[i] = Probe(t, p.img).img.w[i]
    /\ \A i \in 1 .. Len(p.img.w) :
          (\A t \in ts : i \notin PlaceOf(p, t)) => f.w[i] = p.img.w[i]
    /\ f.mem = IF "srtrace" \in ts THEN Leveled(p) ELSE p.img.mem

LEMMA MixedIs ==
  ASSUME NEW p \in Probed, NEW ts \in SUBSET ProbeTools, NEW f, Mixed(p, ts, f)
  PROVE  /\ Near(p, f)
         /\ \A t \in ts : Done(p, t, f)
         /\ \A t \in ProbeTools \ ts : Fresh(p, t, f)
<1>1. ASSUME NEW t \in ts PROVE Done(p, t, f)
  BY <1>1 DEF Mixed, Done
<1>2. ASSUME NEW t \in ProbeTools \ ts PROVE Fresh(p, t, f)
  <2>1. \A i \in PlaceOf(p, t) : i \in 1 .. Len(p.img.w) /\ \A u \in ts : i \notin PlaceOf(p, u)
    BY <1>2, Places, Apart
  <2> QED BY <1>2, <2>1 DEF Mixed, Fresh
<1>3. ASSUME NEW i \in 1 .. Len(p.img.w) PROVE Like(p, i, f.w[i])
  <2>1. CASE \A t \in ts : i \notin PlaceOf(p, t)
    BY <1>3, <2>1 DEF Mixed, Like
  <2>2. ASSUME NEW t \in ts, i \in PlaceOf(p, t) PROVE Like(p, i, f.w[i])
    <3>1. Kinds(p, t)
      BY NearItself, ProbeEffect
    <3> QED BY <2>2, <3>1 DEF Mixed, Kinds
  <2> QED BY <2>1, <2>2
<1> QED BY <1>1, <1>2, <1>3 DEF Mixed, Near

LEMMA MixedMore ==
  ASSUME NEW p \in Probed, NEW ts \in SUBSET ProbeTools, NEW f, Mixed(p, ts, f),
         NEW t \in ProbeTools, t \in Named => t \notin ts, Probe(t, f).ok
  PROVE  Mixed(p, ts \cup {t}, Probe(t, f).img)
<1> DEFINE r == Probe(t, f).img
<1>1. Near(p, f) /\ (t \in ts => Done(p, t, f)) /\ (t \notin ts => Fresh(p, t, f))
  BY MixedIs
<1>2. CASE t \in ts
  <2>1. r = f /\ ts \cup {t} = ts
    BY <1>1, <1>2, ProbeEffect
  <2> QED BY <2>1
<1>3. CASE t \notin ts
  <2>1. Probe(t, p.img).ok /\ Wrote(p, t, f, r)
    BY <1>1, <1>3, ProbeEffect DEF Effect
  <2> HIDE DEF r
  <2>2. ASSUME NEW u \in ts \cup {t}
        PROVE  /\ Probe(u, p.img).ok
               /\ \A i \in PlaceOf(p, u) : r.w[i] = Probe(u, p.img).img.w[i]
    <3>1. CASE u = t
      BY <2>1, <3>1 DEF Wrote
    <3>2. CASE u \in ts
      <4>1. \A i \in PlaceOf(p, u) : i \in 1 .. Len(p.img.w) /\ i \notin PlaceOf(p, t)
        BY <1>3, <3>2, Places, Apart
      <4> QED BY <2>1, <3>2, <4>1 DEF Wrote, Mixed
    <3> QED BY <3>1, <3>2
  <2>3. ASSUME NEW i \in 1 .. Len(p.img.w), \A u \in ts \cup {t} : i \notin PlaceOf(p, u)
        PROVE  r.w[i] = p.img.w[i]
    BY <2>1, <2>3 DEF Wrote, Mixed
  <2>4. r.mem = IF "srtrace" \in ts \cup {t} THEN Leveled(p) ELSE p.img.mem
    BY <2>1 DEF Wrote, Mixed
  <2> QED BY <2>1, <2>2, <2>3, <2>4 DEF Mixed, Wrote, r
<1> QED BY <1>2, <1>3

\* The file is what the probes that were run have made of the original.
ProbeInv ==
    kind = "probes" =>
        /\ facts \in Probed /\ orig = facts.img
        /\ applied \subseteq ProbeTools
        /\ Mixed(facts, applied, file)

LEMMA ProbeInit == Init => ProbeInv
<1> SUFFICES ASSUME Init, kind = "probes" PROVE ProbeInv
  BY DEF ProbeInv
<1>1. facts \in Probed /\ orig = facts.img /\ file = facts.img /\ applied = {}
  BY DEF Init
<1>2. Framed(facts, facts.img)
  BY <1>1, NearItself DEF Near
<1> QED BY <1>1, <1>2 DEF ProbeInv, Mixed

LEMMA ProbeStep == ProbeInv /\ [Next]_vars => ProbeInv'
<1>1. ASSUME ProbeInv, NEW t \in ProbeTools, RunProbe(t) PROVE ProbeInv'
  <2>1. /\ kind = "probes" /\ UNCHANGED <<kind, facts, orig>>
        /\ t \in Named => t \notin applied
        /\ Probe(t, file).ok
        /\ file' = Probe(t, file).img /\ applied' = applied \cup {t}
    BY <1>1 DEF RunProbe, Becomes
  <2>2. /\ facts \in Probed /\ orig = facts.img
        /\ applied \in SUBSET ProbeTools /\ Mixed(facts, applied, file)
    BY <1>1, <2>1 DEF ProbeInv
  <2>3. Mixed(facts, applied \cup {t}, Probe(t, file).img)
    BY <2>1, <2>2, MixedMore
  <2>4. Mixed(facts', applied', file')
    BY <2>1, <2>3
  <2> QED BY <2>1, <2>2, <2>4 DEF ProbeInv
<1>2. ASSUME ProbeInv, Next, ~\E t \in ProbeTools : RunProbe(t) PROVE ProbeInv'
  <2>1. kind' = kind /\ kind # "probes"
    BY <1>2 DEF Next, PatchRtbuddy, ClampSlide, GenHashes, MergeCryptex, WidenMd0, Becomes
  <2> QED BY <2>1 DEF ProbeInv
<1>3. ASSUME ProbeInv, UNCHANGED vars PROVE ProbeInv'
  BY <1>3 DEF vars, ProbeInv, Mixed, Framed
<1> QED BY <1>1, <1>2, <1>3

(* The probes of the shared-region code, for every kernelcache and in every *)
(* order: nothing but the error numbers, the entries and the trace level is *)
(* changed.                                                                 *)
THEOREM ProbesPlaced == Spec => []ProbesStayInPlace
<1>1. ASSUME ProbeInv PROVE ProbesStayInPlace
  <2> SUFFICES ASSUME kind = "probes" PROVE ProbesStayInPlace
    BY DEF ProbesStayInPlace
  <2> DEFINE w == facts.img.w
  <2>1. /\ facts \in Probed /\ orig = facts.img /\ applied \in SUBSET ProbeTools
        /\ Mixed(facts, applied, file)
    BY <1>1 DEF ProbeInv
  <2>2. DOMAIN file.w = 1 .. Len(w)
    BY <2>1 DEF Mixed, Framed
  <2>3. ASSUME NEW i \in DOMAIN file.w, file.w[i] # orig.w[i]
        PROVE  \/ i \in facts.np /\ orig.w[i] = Movz(ENOMEM)
               \/ i \in facts.remap \/ i \in UNION Range(facts.fns)
    <3>1. PICK t \in applied : i \in PlaceOf(facts, t)
      BY <2>1, <2>2, <2>3 DEF Mixed
    <3>2. t \in ProbeTools
      BY <2>1
    <3>3. CASE t = "checknp"
      BY <2>1, <3>1, <3>3, ProbeIs
    <3>4. CASE t = "skipauth"
      BY <3>1, <3>4, ProbeIs
    <3>5. CASE t = "srtrace"
      BY <3>1, <3>5, ProbeIs
    <3>6. CASE t \in Named
      <4>1. Named \subseteq DOMAIN facts.fns
        BY <2>1, Formed DEF WellFormedProbed
      <4>2. i \in facts.fns[t] /\ facts.fns[t] \in Range(facts.fns)
        BY <3>1, <3>6, <4>1, ProbeIs DEF Range
      <4> QED BY <4>2
    <3> QED BY <3>2, <3>3, <3>4, <3>5, <3>6 DEF ProbeTools
  <2>4. ASSUME NEW a \in DOMAIN file.mem, file.mem[a] # orig.mem[a]
        PROVE  a = facts.level
    <3>1. file.mem = Leveled(facts) /\ orig.mem = facts.img.mem
      BY <2>1, <2>4 DEF Mixed
    <3> QED BY <2>4, <3>1 DEF Leveled
  <2> QED BY <2>3, <2>4 DEF ProbesStayInPlace
<1> QED BY <1>1, ProbeInit, ProbeStep, PTL DEF Spec

\* The numbers checknp gives the failure paths.
LEMMA NpNumbers ==
  ASSUME NEW p \in Probed, Probe("checknp", p.img).ok
  PROVE  LET place == PlaceOf(p, "checknp")
         IN  /\ place \in SUBSET (1 .. Len(p.img.w)) /\ place # {}
             /\ Cardinality(place) <= 6
             /\ \A i \in place : Probe("checknp", p.img).img.w[i]
                                     = Movz(NewErrno(Rank(place, i)))
<1> DEFINE n == Len(p.img.w)
           w == p.img.w
           place == PlaceOf(p, "checknp")
           new == Numbered(n, w, place)
<1>1. PICK found \in BOOLEAN :
         /\ NpResult(p, p.img, found)
         /\ found => p.np \in SUBSET (1 .. n) /\ Cardinality(place) <= 6
  BY NearItself, NpSame
<1>2. place = {i \in p.np : w[i] = Movz(ENOMEM)} /\ place = NpSites(p, w)
  BY ProbeIs DEF NpSites
<1>3. p.img = [w |-> w, mem |-> p.img.mem, strs |-> p.img.strs, seg |-> p.img.seg]
  BY Formed DEF WellFormedProbed
<1> HIDE DEF n, w, place, new
<1>4. Probe("checknp", p.img) = IF found /\ Cardinality(place) >= 2
                                THEN Written(p.img, new) ELSE Refused(p.img)
  BY <1>1, <1>2 DEF NpResult, new, n, w
<1>5. found /\ Cardinality(place) >= 2 /\ Probe("checknp", p.img).img.w = new
  BY <1>3, <1>4 DEF Written, Refused
<1>6. place \in SUBSET (1 .. n) /\ Cardinality(place) <= 6
  BY <1>1, <1>2, <1>5
<1>7. place # {}
  BY <1>5, FS_EmptySet
<1>8. \A i \in place : new[i] = Movz(NewErrno(Rank(place, i)))
  BY <1>6 DEF new, Numbered
<1> QED BY <1>5, <1>6, <1>7, <1>8 DEF n, place

(* patch_checknp_errno.py, for every kernelcache whose check_np runs out of *)
(* memory in up to six places, whatever else is patched before or after:    *)
(* the failure paths return different numbers and the first keeps its 12.   *)
THEOREM ErrnosDistinct == Spec => []ErrnosTellApart
<1>1. ASSUME ProbeInv PROVE ErrnosTellApart
  <2> SUFFICES ASSUME kind = "probes", "checknp" \in applied PROVE ErrnosTellApart
    BY DEF ErrnosTellApart
  <2> DEFINE place == PlaceOf(facts, "checknp")
             n == Len(facts.img.w)
  <2>1. /\ facts \in Probed /\ orig = facts.img
        /\ Mixed(facts, applied, file)
    BY <1>1 DEF ProbeInv
  <2>2. /\ Probe("checknp", facts.img).ok
        /\ \A i \in place : file.w[i] = Probe("checknp", facts.img).img.w[i]
    BY <2>1 DEF Mixed
  <2>3. /\ place \in SUBSET (1 .. n) /\ place # {} /\ Cardinality(place) <= 6
        /\ \A i \in place : file.w[i] = Movz(NewErrno(Rank(place, i)))
    BY <2>1, <2>2, NpNumbers
  <2>4. place = {i \in facts.np : orig.w[i] = Movz(ENOMEM)}
    BY <2>1, ProbeIs
  <2>5. n \in Nat
    BY <2>1, Formed DEF WellFormedProbed
  <2> HIDE DEF place, n
  <2>6. /\ Cardinality(place) \in Nat
        /\ \A i \in place : Rank(place, i) \in 1 .. Cardinality(place)
        /\ \A i, j \in place : i < j => Rank(place, i) < Rank(place, j)
        /\ Rank(place, Earliest(place)) = 1
    BY <2>3, <2>5, Ranks
  <2>7. \A i \in place : Rank(place, i) \in 1 .. 6
    BY <2>3, <2>6
  <2>8. ASSUME NEW i \in place, NEW j \in place, i # j PROVE file.w[i] # file.w[j]
    <3>1. i \in Int /\ j \in Int
      BY <2>3
    <3>2. Rank(place, i) # Rank(place, j)
      <4>1. i < j \/ j < i
        BY <2>8, <3>1
      <4> QED BY <2>6, <2>7, <4>1
    <3>3. NewErrno(Rank(place, i)) # NewErrno(Rank(place, j))
      BY <2>7, <3>2, Errnos
    <3>4. Movz(NewErrno(Rank(place, i))).to # Movz(NewErrno(Rank(place, j))).to
      BY <3>3, Ops
    <3> QED BY <2>3, <3>4
  <2>9. file.w[Earliest(place)] = Movz(ENOMEM)
    <3>1. Earliest(place) \in place
      <4>1. place \in SUBSET Nat
        BY <2>3
      <4> QED BY <2>3, <4>1, EarliestIs
    <3> QED BY <2>3, <2>6, <3>1, Errnos
  <2> QED BY <2>4, <2>8, <2>9 DEF ErrnosTellApart
<1> QED BY <1>1, ProbeInit, ProbeStep, PTL DEF Spec

(* The patchers do not get in each other's way.                             *)

\* No tool of start() looks at a site that another one writes.
LEMMA Checked ==
  ASSUME NEW t \in DOMAIN Tools, NEW u \in DOMAIN Tools,
         NEW s \in DOMAIN Tools[t].checks
  PROVE  s \in Sites /\ (s \in DOMAIN Tools[u].writes => u = t)
<1>1. /\ DOMAIN Tools["route"].writes = {"found"}
      /\ DOMAIN Tools["skip"].writes = {"gate"}
      /\ DOMAIN Tools["timeout"].writes = {"timeout"}
      /\ DOMAIN Tools["skip0"].writes = {"offset", "index"}
      /\ DOMAIN Tools["secureproxy"].writes = {"filler", "notify"}
      /\ DOMAIN Tools["srmap"].writes = {"mapinfo"}
  BY ToolTables
<1>2. DOMAIN Tools = {"route", "skip", "timeout", "skip0", "secureproxy", "srmap"}
  BY ToolTables
<1>3. /\ Tools["route"] = RouteTool /\ Tools["skip"] = RouteSkipTool
      /\ Tools["timeout"] = RouteTimeoutTool /\ Tools["skip0"] = RouteSkip0Tool
      /\ Tools["secureproxy"] = SecureProxyTool /\ Tools["srmap"] = SrmapTool
  BY DEF Tools
<1>4. \A S : DOMAIN Exactly(S) = S
  BY DEF Exactly
<1>5. /\ DOMAIN RouteTool.checks = {"finding", "success", "found"}
      /\ DOMAIN RouteSkip0Tool.checks = {"finding", "success", "offset", "index"}
      /\ DOMAIN SrmapTool.checks = {"mapinfo"}
  BY <1>4 DEF RouteTool, RouteSkip0Tool, SrmapTool
<1>6. DOMAIN RouteSkipTool.checks = {"finding", "success", "cmp", "gate"}
  BY <1>4 DEF RouteSkipTool
<1>7. DOMAIN RouteTimeoutTool.checks = {"finding", "success", "service", "timeout", "wait"}
  BY <1>4 DEF RouteTimeoutTool
<1>8. DOMAIN SecureProxyTool.checks = {"ldr", "notify", "filler"}
  BY <1>4 DEF SecureProxyTool
<1>9. Sites = {"finding", "success", "cmp", "gate", "offset", "index", "service", "timeout",
               "wait", "found", "ldr", "notify", "filler", "mapinfo"}
  BY DEF Sites, Expected
<1> HIDE DEF Tools, Sites
<1>10. CASE t = "route"
  BY <1>1, <1>2, <1>3, <1>5, <1>9, <1>10
<1>11. CASE t = "skip"
  BY <1>1, <1>2, <1>3, <1>6, <1>9, <1>11
<1>12. CASE t = "timeout"
  BY <1>1, <1>2, <1>3, <1>7, <1>9, <1>12
<1>13. CASE t = "skip0"
  BY <1>1, <1>2, <1>3, <1>5, <1>9, <1>13
<1>14. CASE t = "secureproxy"
  BY <1>1, <1>2, <1>3, <1>8, <1>9, <1>14
<1>15. CASE t = "srmap"
  BY <1>1, <1>2, <1>3, <1>5, <1>9, <1>15
<1> QED BY <1>2, <1>10, <1>11, <1>12, <1>13, <1>14, <1>15

\* What a probe changes, it changes in every file it has not been run on.
LEMMA SameDelta ==
  ASSUME NEW p \in Probed, NEW t \in ProbeTools, NEW f, Near(p, f), Fresh(p, t, f)
  PROVE  Probe(t, f).ok = Probe(t, p.img).ok /\ Delta(t, f) = Delta(t, p.img)
<1> DEFINE n == Len(p.img.w)
           place == PlaceOf(p, t)
           v == Probe(t, p.img).img
           W == {<<i, v.w[i]>> : i \in {k \in place : v.w[k] # p.img.w[k]}}
           M == IF t = "srtrace"
                THEN {<<a, Leveled(p)[a]>> : a \in {b \in DOMAIN p.img.mem : 
                                                      Leveled(p)[b] # p.img.mem[b]}}
                ELSE {}
<1>1. \A i \in place : i \in 1 .. n
  BY Places
<1>2. ASSUME NEW g, Near(p, g), Fresh(p, t, g), Probe(t, p.img).ok
      PROVE  Delta(t, g) = W \cup M
  <2> DEFINE r == Probe(t, g).img
  <2>1. Wrote(p, t, g, r)
    BY <1>2, ProbeEffect DEF Effect
  <2>2. DOMAIN g.w = 1 .. n
    BY <1>2, NearShape
  <2> HIDE DEF r
  <2>3. {<<i, r.w[i]>> : i \in {k \in DOMAIN g.w : r.w[k] # g.w[k]}} = W
    <3>1. \A i \in 1 .. n : i \notin place => r.w[i] = g.w[i]
      BY <2>1 DEF Wrote
    <3>2. \A i \in place : r.w[i] = v.w[i] /\ g.w[i] = p.img.w[i]
      BY <1>2, <2>1 DEF Wrote, Fresh
    <3> HIDE DEF place, v, n
    <3>3. {k \in DOMAIN g.w : r.w[k] # g.w[k]} = {k \in place : v.w[k] # p.img.w[k]}
      BY <1>1, <2>2, <3>1, <3>2
    <3> QED BY <3>2, <3>3
  <2>4. {<<a, r.mem[a]>> : a \in {b \in DOMAIN g.mem : r.mem[b] # g.mem[b]}} = M
    <3>1. CASE t = "srtrace"
      <4>1. r.mem = Leveled(p) /\ g.mem = p.img.mem
        BY <1>2, <2>1, <3>1 DEF Wrote, Fresh
      <4> QED BY <3>1, <4>1
    <3>2. CASE t # "srtrace"
      <4>1. r.mem = g.mem
        BY <2>1, <3>2 DEF Wrote
      <4> QED BY <3>2, <4>1
    <3> QED BY <3>1, <3>2
  <2> QED BY <2>3, <2>4 DEF Delta, r
<1>3. ASSUME NEW g, Near(p, g), Fresh(p, t, g), ~Probe(t, p.img).ok
      PROVE  Delta(t, g) = {}
  <2>1. Probe(t, g).img = g
    BY <1>3, ProbeEffect DEF Effect
  <2> QED BY <2>1 DEF Delta
<1>4. Near(p, p.img) /\ Fresh(p, t, p.img)
  BY NearItself DEF Fresh
<1>5. Probe(t, f).ok = Probe(t, p.img).ok
  BY ProbeEffect DEF Effect
<1> HIDE DEF W, M
<1> QED BY <1>2, <1>3, <1>4, <1>5

(* Whichever patchers have been run on a file, in whatever order, one that  *)
(* has not is accepted exactly if it would have been on the untouched file, *)
(* and changes exactly the same: for every build and every kernelcache.     *)
THEOREM ToolsIndependent == Spec => []IndependentTools
<1>1. ASSUME SiteInv, kind = "rtbuddy", NEW t \in DOMAIN Tools \ applied
      PROVE  Accepts(file, Tools[t]) = Accepts(orig, Tools[t])
  <2>1. \A s \in DOMAIN Tools[t].checks : file[s] = orig[s]
    <3> SUFFICES ASSUME NEW s \in DOMAIN Tools[t].checks PROVE file[s] = orig[s]
      OBVIOUS
    <3>1. s \in Sites /\ \A u \in applied : s \notin DOMAIN Tools[u].writes
      <4>1. applied \subseteq DOMAIN Tools
        BY <1>1 DEF SiteInv
      <4> HIDE DEF Tools, Sites
      <4> QED BY <1>1, <4>1, Checked
    <3> QED BY <1>1, <3>1 DEF SiteInv
  <2> QED BY <2>1 DEF Accepts
<1>2. ASSUME ProbeInv, kind = "probes", NEW t \in ProbeTools \ applied
      PROVE  Probe(t, file).ok = Probe(t, orig).ok /\ Delta(t, file) = Delta(t, orig)
  <2>1. /\ facts \in Probed /\ orig = facts.img /\ applied \in SUBSET ProbeTools
        /\ Mixed(facts, applied, file)
    BY <1>2 DEF ProbeInv
  <2>2. Near(facts, file) /\ Fresh(facts, t, file)
    BY <1>2, <2>1, MixedIs
  <2> QED BY <1>2, <2>1, <2>2, SameDelta
<1>3. SiteInv /\ ProbeInv => IndependentTools
  BY <1>1, <1>2 DEF IndependentTools, SiteInv
<1> QED BY <1>3, SiteInit, SiteStep, ProbeInit, ProbeStep, PTL DEF Spec

-----------------------------------------------------------------------------
(* The memory-disk driver: which instructions are widened.                  *)

\* The conversion of the size, wherever it is, works on x registers.
Converts(code, f) ==
    \A l, s \in DOMAIN code :
        /\ ToBytes(code, l, s) => f[s].wide
        /\ ToBlocks(code, l, s) => \A i \in s .. s + 2 : f[i].wide

\* The code as it was but for some instructions that work on x registers.
Widened(code, f) ==
    /\ f = [i \in DOMAIN code |-> f[i]]
    /\ \A i \in DOMAIN code : f[i] = code[i] \/ f[i] = [code[i] EXCEPT !.wide = TRUE]

DriverInv ==
    kind = "md0" =>
        /\ facts \in Drivers /\ orig = facts.code
        /\ Widened(orig, file)
        /\ IF "widen" \in applied THEN Converts(orig, file) ELSE file = orig

LEMMA DriverShape ==
  ASSUME NEW p \in Drivers
  PROVE  /\ Len(p.code) \in Nat /\ DOMAIN p.code = 1 .. Len(p.code)
         /\ \A i \in DOMAIN p.code :
               /\ p.code[i].wide \in BOOLEAN
               /\ p.code[i] = [op |-> p.code[i].op, wide |-> p.code[i].wide, d |-> p.code[i].d,
                               n |-> p.code[i].n, m |-> p.code[i].m]
         /\ p.code = [i \in 1 .. Len(p.code) |-> p.code[i]]
<1>1. p.code = [i \in 1 .. Len(p.code) |-> p.code[i]]
  BY DriversAssumption
<1>2. DOMAIN p.code = 1 .. Len(p.code)
  BY <1>1
<1> QED BY <1>1, <1>2, DriversAssumption

LEMMA WidenConverts ==
  ASSUME NEW p \in Drivers
  PROVE  Converts(p.code, WidenSizes(p.code))
<1> DEFINE code == p.code
           n == Len(p.code)
           plan == BuildPlan(code)
           sites == FindMdevSizeShiftSites(code)
           new == WidenSizes(code)
<1>1. /\ n \in Nat /\ DOMAIN code = 1 .. n
      /\ \A i \in DOMAIN code : 
           code[i] = [op |-> code[i].op, wide |-> code[i].wide, d |-> code[i].d,
                      n |-> code[i].n, m |-> code[i].m]
  BY DriverShape
<1> HIDE DEF code, n
<1>2. ASSUME NEW i \in DOMAIN code, i \in plan PROVE new[i].wide
  <2>1. new[i] = [code[i] EXCEPT !.wide = TRUE]
    BY <1>2 DEF WidenSizes
  <2> QED BY <1>1, <2>1
<1>3. ASSUME NEW l \in DOMAIN code, NEW s \in DOMAIN code, Loads(code, l, s),
             \/ code[s].op = "lsl" /\ code[s].d = 0 /\ code[s].n = 0
             \/ code[s].op = "add" /\ code[s].d = 0 /\ code[s].m = 0
      PROVE  s \in sites
  <2>1. /\ ~code[s].wide /\ code[l].op = "ldrsize" /\ code[l].d = code[s].d
        /\ l < s /\ s <= l + 4
    BY <1>3 DEF Loads
  <2>2. l \in s - 4 .. s - 1
    BY <1>1, <2>1
  <2>3. /\ ~code[s].wide
        /\ \/ code[s].op = "lsl" /\ code[s].d = code[s].n
           \/ code[s].op = "add" /\ code[s].d = code[s].m
    BY <1>3, <2>1
  <2> QED BY <2>1, <2>2, <2>3 DEF FindMdevSizeShiftSites
<1>4. ASSUME NEW l \in DOMAIN code, NEW s \in DOMAIN code, ToBytes(code, l, s)
      PROVE  new[s].wide
  <2>1. s \in sites
    BY <1>3, <1>4 DEF ToBytes
  <2> QED BY <1>2, <2>1 DEF BuildPlan
<1>5. ASSUME NEW l \in DOMAIN code, NEW s \in DOMAIN code, ToBlocks(code, l, s)
      PROVE  \A i \in s .. s + 2 : new[i].wide
  <2>1. s \in sites /\ code[s].op = "add"
    <3>1. s \in s .. s + 2
      BY <1>1
    <3>2. code[s].d = 0
      BY <1>5, <3>1 DEF ToBlocks
    <3> QED BY <1>3, <1>5, <3>2 DEF ToBlocks
  <2>2. s + 1 \in DOMAIN code /\ s + 2 \in DOMAIN code
    <3>1. s + 2 \in DOMAIN code
      BY <1>5 DEF ToBlocks
    <3> QED BY <1>1, <3>1
  <2>3. code[s + 1].op = "sub" /\ code[s + 2].op = "udiv"
    BY <1>5 DEF ToBlocks
  <2>4. s \in plan /\ s + 1 \in plan /\ s + 2 \in plan
    BY <2>1, <2>2, <2>3 DEF BuildPlan
  <2>5. \A i \in s .. s + 2 : i = s \/ i = s + 1 \/ i = s + 2
    BY <1>1
  <2> QED BY <1>2, <2>2, <2>4, <2>5
<1> QED BY <1>4, <1>5 DEF Converts, code

LEMMA WidenKeeps ==
  ASSUME NEW p \in Drivers, NEW f, Widened(p.code, f)
  PROVE  /\ Widened(p.code, WidenSizes(f))
         /\ Converts(p.code, f) => Converts(p.code, WidenSizes(f))
<1> DEFINE code == p.code
           new == WidenSizes(f)
<1>1. /\ DOMAIN f = DOMAIN code /\ new = [i \in DOMAIN code |-> new[i]]
      /\ \A i \in DOMAIN code : new[i] = f[i] \/ new[i] = [f[i] EXCEPT !.wide = TRUE]
  BY DEF Widened, WidenSizes
<1>2. ASSUME NEW i \in DOMAIN code
      PROVE  /\ [f[i] EXCEPT !.wide = TRUE] = [code[i] EXCEPT !.wide = TRUE]
             /\ [f[i] EXCEPT !.wide = TRUE].wide
  <2>1. code[i] = [op |-> code[i].op, wide |-> code[i].wide, d |-> code[i].d,
                   n |-> code[i].n, m |-> code[i].m]
    BY DriverShape
  <2>2. f[i] = code[i] \/ f[i] = [code[i] EXCEPT !.wide = TRUE]
    BY DEF Widened
  <2>3. ASSUME NEW ins, NEW a, NEW b, NEW c, NEW d, NEW e,
               ins = [op |-> a, wide |-> b, d |-> c, n |-> d, m |-> e]
        PROVE  /\ [ins EXCEPT !.wide = TRUE].wide
               /\ [[ins EXCEPT !.wide = TRUE] EXCEPT !.wide = TRUE] = [ins EXCEPT !.wide = TRUE]
    BY <2>3
  <2>4. /\ [code[i] EXCEPT !.wide = TRUE].wide
        /\ [[code[i] EXCEPT !.wide = TRUE] EXCEPT !.wide = TRUE] = [code[i] EXCEPT !.wide = TRUE]
    BY <2>1, <2>3
  <2> QED BY <2>2, <2>4
<1>3. Widened(code, new)
  <2>1. \A i \in DOMAIN code : new[i] = code[i] \/ new[i] = [code[i] EXCEPT !.wide = TRUE]
    BY <1>1, <1>2 DEF Widened
  <2> QED BY <1>1, <2>1 DEF Widened
<1>4. \A i \in DOMAIN code : f[i].wide => new[i].wide
  BY <1>1, <1>2
<1> HIDE DEF new
<1>5. ASSUME Converts(code, f) PROVE Converts(code, new)
  <2>1. ASSUME NEW l \in DOMAIN code, NEW s \in DOMAIN code, ToBytes(code, l, s)
        PROVE  new[s].wide
    BY <1>4, <1>5, <2>1 DEF Converts
  <2>2. ASSUME NEW l \in DOMAIN code, NEW s \in DOMAIN code, ToBlocks(code, l, s),
               NEW i \in s .. s + 2
        PROVE  new[i].wide
    <3>1. s + 2 \in DOMAIN code
      BY <2>2 DEF ToBlocks
    <3>2. i \in DOMAIN code
      <4>1. DOMAIN code = 1 .. Len(code) /\ Len(code) \in Nat
        BY DriverShape
      <4> HIDE DEF code
      <4> QED BY <3>1, <4>1
    <3> QED BY <1>4, <1>5, <2>2, <3>2 DEF Converts
  <2> QED BY <2>1, <2>2 DEF Converts
<1> QED BY <1>3, <1>5 DEF new

LEMMA DriverInit == Init => DriverInv
<1> SUFFICES ASSUME Init, kind = "md0" PROVE DriverInv
  BY DEF DriverInv
<1>1. facts \in Drivers /\ orig = facts.code /\ file = orig /\ applied = {}
  BY DEF Init
<1>2. orig = [i \in DOMAIN orig |-> orig[i]]
  BY <1>1, DriverShape
<1> QED BY <1>1, <1>2 DEF DriverInv, Widened

LEMMA DriverStep == DriverInv /\ [Next]_vars => DriverInv'
<1>1. ASSUME DriverInv, WidenMd0 PROVE DriverInv'
  <2>1. /\ kind = "md0" /\ UNCHANGED <<kind, facts, orig>>
        /\ file' = WidenSizes(file) /\ applied' = applied \cup {"widen"}
    BY <1>1 DEF WidenMd0, Becomes
  <2>2. /\ facts \in Drivers /\ orig = facts.code /\ Widened(orig, file)
        /\ IF "widen" \in applied THEN Converts(orig, file) ELSE file = orig
    BY <1>1, <2>1 DEF DriverInv
  <2>3. Widened(orig, file') /\ Converts(orig, file')
    BY <2>1, <2>2, WidenKeeps, WidenConverts
  <2>4. Widened(orig', file') /\ Converts(orig', file')
    BY <2>1, <2>3
  <2> QED BY <2>1, <2>2, <2>4 DEF DriverInv
<1>2. ASSUME DriverInv, Next, ~WidenMd0 PROVE DriverInv'
  <2>1. kind' = kind /\ kind # "md0"
    BY <1>2 DEF Next, PatchRtbuddy, RunProbe, ClampSlide, GenHashes, MergeCryptex, Becomes
  <2> QED BY <2>1 DEF DriverInv
<1>3. ASSUME DriverInv, UNCHANGED vars PROVE DriverInv'
  BY <1>3 DEF vars, DriverInv, Widened, Converts
<1> QED BY <1>1, <1>2, <1>3

(* What the driver computes.                                                *)

LEMMA UpTo ==
  ASSUME NEW n \in Nat, NEW S, 0 \in S, \A k \in 0 .. n : k \in S /\ k < n => k + 1 \in S
  PROVE  \A k \in 0 .. n : k \in S
<1> DEFINE Bad == {k \in 0 .. n : k \notin S}
<1> SUFFICES ASSUME Bad # {} PROVE FALSE
  OBVIOUS
<1>1. Bad \in SUBSET Nat
  OBVIOUS
<1>2. PICK m \in Bad : \A k \in Bad : m <= k
  <2> HIDE DEF Bad
  <2> QED BY <1>1, LeastOf
<1>3. m # 0 /\ m - 1 \in 0 .. n /\ m - 1 < n /\ (m - 1) + 1 = m
  OBVIOUS
<1>4. m - 1 \notin Bad
  BY <1>2, <1>3
<1>5. m - 1 \in S
  BY <1>3, <1>4
<1> QED BY <1>3, <1>5

\* The registers before each instruction, and at the end.
Trace(code, regs, pages, n, a) ==
    a = [k \in 0 .. n |-> IF k = 0 THEN regs ELSE Step(a[k - 1], code[k], pages)]

LEMMA Traces ==
  ASSUME NEW code, NEW regs, NEW pages, NEW n \in Nat
  PROVE  \E a : Trace(code, regs, pages, n, a)
<1> DEFINE S == {k \in Nat : \E a : Trace(code, regs, pages, k, a)}
<1>1. 0 \in S
  <2> DEFINE a == [k \in 0 .. 0 |-> regs]
  <2>1. a = [k \in 0 .. 0 |-> IF k = 0 THEN regs ELSE Step(a[k - 1], code[k], pages)]
    OBVIOUS
  <2> HIDE DEF a
  <2>2. Trace(code, regs, pages, 0, a)
    BY <2>1 DEF Trace
  <2> QED BY <2>2
<1>2. ASSUME NEW k \in 0 .. n, k \in S PROVE k + 1 \in S
  <2>1. PICK a : Trace(code, regs, pages, k, a)
    BY <1>2
  <2> DEFINE b == [j \in 0 .. k + 1 |-> IF j = k + 1 THEN Step(a[k], code[k + 1], pages)
                                        ELSE a[j]]
  <2>2. b = [j \in 0 .. k + 1 |-> b[j]]
    OBVIOUS
  <2>3. ASSUME NEW j \in 0 .. k + 1
        PROVE  b[j] = IF j = 0 THEN regs ELSE Step(b[j - 1], code[j], pages)
    <3>1. CASE j = k + 1
      <4>1. b[j] = Step(a[k], code[k + 1], pages)
        BY <3>1
      <4>2. b[j - 1] = a[k] /\ j # 0
        BY <3>1
      <4> HIDE DEF b
      <4> QED BY <3>1, <4>1, <4>2
    <3>2. CASE j # k + 1
      <4>1. j \in 0 .. k /\ b[j] = a[j]
        BY <3>2
      <4>2. j # 0 => b[j - 1] = a[j - 1]
        BY <3>2
      <4> HIDE DEF b
      <4>3. a[j] = IF j = 0 THEN regs ELSE Step(a[j - 1], code[j], pages)
        BY <2>1, <4>1 DEF Trace
      <4> QED BY <4>1, <4>2, <4>3
    <3> QED BY <3>1, <3>2
  <2> HIDE DEF b
  <2>4. Trace(code, regs, pages, k + 1, b)
    BY <2>2, <2>3 DEF Trace
  <2> QED BY <2>4
<1> HIDE DEF S
<1>3. n \in S
  BY <1>1, <1>2, UpTo
<1> QED BY <1>3 DEF S

LEMMA RunIs ==
  ASSUME NEW code, NEW regs, NEW pages, Len(code) \in Nat
  PROVE  \E a : Trace(code, regs, pages, Len(code), a) /\ Run(code, regs, pages) = a[Len(code)]
<1> DEFINE a == CHOOSE g : g = [k \in 0 .. Len(code) |->
                    IF k = 0 THEN regs ELSE Step(g[k - 1], code[k], pages)]
<1>1. \E g : g = [k \in 0 .. Len(code) |->
                    IF k = 0 THEN regs ELSE Step(g[k - 1], code[k], pages)]
  <2>1. \E g : Trace(code, regs, pages, Len(code), g)
    BY Traces
  <2> QED BY <2>1 DEF Trace
<1>2. Trace(code, regs, pages, Len(code), a)
  BY <1>1 DEF Trace
<1>3. Run(code, regs, pages) = a[Len(code)]
  BY DEF Run
<1> QED BY <1>2, <1>3

\* One instruction.
LEMMA StepIs ==
  ASSUME NEW regs, NEW ins, NEW pages, DOMAIN regs = 0 .. 3
  PROVE  /\ DOMAIN Step(regs, ins, pages) = 0 .. 3
         /\ \A r \in 0 .. 3 : ins.d # r => Step(regs, ins, pages)[r] = regs[r]
BY DEF Step

LEMMA SmallMod ==
  ASSUME NEW v \in Nat, NEW m \in Nat, v < m
  PROVE  v % m = v
OBVIOUS

LEMMA TimesLess ==
  ASSUME NEW a \in Nat, NEW b \in Nat, NEW c \in Nat, a <= b
  PROVE  a * c <= b * c /\ a * c \in Nat
OBVIOUS

LEMMA Quotient ==
  ASSUME NEW v \in Nat, NEW b \in 1 .. 3
  PROVE  v \div b \in Nat /\ v \div b <= v
OBVIOUS

\* No page count is too large for the registers.
LEMMA Bytes ==
  ASSUME NEW pages \in 0 .. MaxPages, NEW blk \in 1 .. 3
  PROVE  /\ pages \in Nat /\ pages < Narrow /\ pages < Wide
         /\ pages * PageSize \in Nat /\ pages * PageSize + blk < Wide
<1>1. /\ Narrow \in Nat /\ Wide \in Nat /\ PageSize \in Nat /\ PageSize >= 1
      /\ 2 * Narrow * PageSize <= Wide /\ 3 < Narrow
  BY ImageToolsAssumption
<1>2. pages \in Nat /\ pages <= Narrow /\ pages < Narrow
  BY <1>1 DEF MaxPages
<1>3. pages * PageSize <= Narrow * PageSize /\ pages * PageSize \in Nat
  BY <1>1, <1>2, TimesLess
<1>4. 1 * Narrow <= PageSize * Narrow
  BY <1>1, TimesLess
<1>5. Narrow * PageSize \in Nat /\ PageSize * Narrow = Narrow * PageSize
  BY <1>1, TimesLess
<1>6. 2 * Narrow * PageSize = Narrow * PageSize + Narrow * PageSize
  BY <1>1
<1> DEFINE whole == Narrow * PageSize
           bytes == pages * PageSize
<1>7. /\ whole \in Nat /\ bytes \in Nat /\ bytes <= whole /\ Narrow <= whole
      /\ whole + whole <= Wide
  BY <1>1, <1>3, <1>4, <1>5, <1>6
<1> HIDE DEF whole, bytes
<1>8. pages < Wide /\ bytes + blk < Wide
  BY <1>1, <1>2, <1>7
<1> QED BY <1>2, <1>3, <1>8 DEF bytes

\* Each instruction of the conversion, if no result is cut off.
LEMMA StepValues ==
  ASSUME NEW regs, NEW ins, NEW pages, DOMAIN regs = 0 .. 3, ins.d = 0
  PROVE  LET r == Step(regs, ins, pages)[0]
         IN  /\ ins.op = "ldrsize" /\ pages \in Nat /\ pages < Narrow /\ pages < Wide => r = pages
             /\ \A v \in Nat : v < Wide /\ ins.wide =>
                   /\ ins.op = "lsl" /\ v = regs[ins.n] * PageSize => r = v
                   /\ ins.op = "add" /\ v = regs[ins.n] + regs[ins.m] * PageSize => r = v
                   /\ ins.op = "sub" /\ v = regs[ins.n] - 1 => r = v
                   /\ ins.op = "udiv" /\ v = regs[ins.n] /\ regs[ins.m] \in 1 .. 3
                         => r = v \div regs[ins.m]
<1> DEFINE trunc(v) == v % (IF ins.wide THEN Wide ELSE Narrow)
           r == Step(regs, ins, pages)[0]
           value == CASE ins.op = "ldrsize" -> pages
                      [] ins.op = "lsl" -> regs[ins.n] * PageSize
                      [] ins.op = "add" -> regs[ins.n] + regs[ins.m] * PageSize
                      [] ins.op = "sub" -> regs[ins.n] - 1
                      [] ins.op = "udiv" -> trunc(regs[ins.n]) \div regs[ins.m]
                      [] OTHER -> regs[ins.d]
<1>1. r = trunc(value)
  <2>1. 0 \in DOMAIN regs
    OBVIOUS
  <2> QED BY <2>1 DEF Step
<1>2. Narrow \in Nat /\ Wide \in Nat
  BY ImageToolsAssumption
<1>3. /\ ins.op = "ldrsize" => value = pages
      /\ ins.op = "lsl" => value = regs[ins.n] * PageSize
      /\ ins.op = "add" => value = regs[ins.n] + regs[ins.m] * PageSize
      /\ ins.op = "sub" => value = regs[ins.n] - 1
      /\ ins.op = "udiv" => value = trunc(regs[ins.n]) \div regs[ins.m]
  OBVIOUS
<1>4. ASSUME NEW v \in Nat, v < Wide, ins.wide PROVE trunc(v) = v
  BY <1>2, <1>4, SmallMod
<1>5. ASSUME pages \in Nat, pages < Narrow, pages < Wide PROVE trunc(pages) = pages
  BY <1>2, <1>5, SmallMod
<1> HIDE DEF trunc, value, r
<1>6. ASSUME NEW v \in Nat, v < Wide, ins.wide, ins.op = "udiv", v = regs[ins.n],
             regs[ins.m] \in 1 .. 3
      PROVE  r = v \div regs[ins.m]
  <2> DEFINE b == regs[ins.m]
  <2> HIDE DEF b
  <2>1. value = v \div b /\ b \in 1 .. 3
    BY <1>3, <1>4, <1>6 DEF b
  <2>2. v \div b \in Nat /\ v \div b <= v
    BY <2>1, Quotient
  <2>3. v \div b < Wide
    <3> DEFINE q == v \div b
    <3>1. q \in Nat /\ q <= v /\ v < Wide
      BY <1>6, <2>2
    <3> HIDE DEF q
    <3>2. q < Wide
      BY <1>2, <3>1
    <3> QED BY <3>2 DEF q
  <2>4. trunc(v \div b) = v \div b
    BY <1>4, <1>6, <2>2, <2>3
  <2> QED BY <1>1, <2>1, <2>4 DEF b
<1> QED BY <1>1, <1>3, <1>4, <1>5, <1>6 DEF r

LEMMA Instructions ==
  ASSUME NEW p \in Drivers, NEW f, Widened(p.code, f)
  PROVE  /\ Len(f) = Len(p.code)
         /\ \A i \in 1 .. Len(p.code) : /\ f[i].op = p.code[i].op /\ f[i].d = p.code[i].d
                                        /\ f[i].n = p.code[i].n /\ f[i].m = p.code[i].m
<1> DEFINE n == Len(p.code)
<1>1. n \in Nat /\ DOMAIN p.code = 1 .. n
  BY DriverShape
<1>2. Len(f) = n
  <2> HIDE DEF n
  <2>1. f \in Seq(Range(f)) /\ DOMAIN f = 1 .. n
    BY <1>1 DEF Widened, Range
  <2> QED BY <1>1, <2>1
<1>3. ASSUME NEW i \in 1 .. n
      PROVE  /\ f[i].op = p.code[i].op /\ f[i].d = p.code[i].d
             /\ f[i].n = p.code[i].n /\ f[i].m = p.code[i].m
  <2>1. p.code[i] = [op |-> p.code[i].op, wide |-> p.code[i].wide, d |-> p.code[i].d,
                     n |-> p.code[i].n, m |-> p.code[i].m]
    BY <1>1, DriverShape
  <2>2. f[i] = p.code[i] \/ f[i] = [p.code[i] EXCEPT !.wide = TRUE]
    BY <1>1 DEF Widened
  <2> QED BY <2>1, <2>2
<1> QED BY <1>2, <1>3

LEMMA SizeInBytes ==
  ASSUME NEW p \in Drivers, NEW f, Widened(p.code, f), Converts(p.code, f),
         NEW l \in DOMAIN p.code, NEW s \in DOMAIN p.code, ToBytes(p.code, l, s),
         NEW pages \in 0 .. MaxPages, NEW blk \in 1 .. 3
  PROVE  Run(f, Regs(blk), pages)[0] = pages * PageSize
<1> DEFINE n == Len(p.code)
           size == pages * PageSize
<1>1. n \in Nat /\ l \in 1 .. n /\ s \in 1 .. n /\ Len(f) = n /\ DOMAIN p.code = 1 .. n
  BY DriverShape, Instructions
<1>2. PICK a : Trace(f, Regs(blk), pages, n, a) /\ Run(f, Regs(blk), pages) = a[n]
  BY <1>1, RunIs
<1>3. /\ pages \in Nat /\ pages < Narrow /\ pages < Wide /\ size \in Nat /\ size < Wide
  <2>1. size + blk < Wide /\ size \in Nat /\ Wide \in Nat
    BY Bytes, ImageToolsAssumption
  <2> HIDE DEF size
  <2>2. size < Wide
    BY <2>1
  <2> QED BY <2>1, <2>2, Bytes
<1>4. /\ l < s /\ f[l].op = "ldrsize" /\ f[l].d = 0
      /\ f[s].op = "lsl" /\ f[s].d = 0 /\ f[s].n = 0 /\ f[s].wide
      /\ \A i \in 1 .. n : i > l /\ i # s => f[i].d # 0
  <2>1. /\ l < s /\ p.code[l].op = "ldrsize" /\ p.code[l].d = 0
        /\ p.code[s].op = "lsl" /\ p.code[s].d = 0 /\ p.code[s].n = 0
        /\ \A i \in 1 .. n : i > l /\ i # s => p.code[i].d # 0
    BY <1>1 DEF ToBytes, Loads
  <2>2. f[s].wide
    BY DEF Converts
  <2>3. \A i \in 1 .. n : /\ f[i].op = p.code[i].op /\ f[i].d = p.code[i].d
                          /\ f[i].n = p.code[i].n /\ f[i].m = p.code[i].m
    BY Instructions
  <2> QED BY <1>1, <2>1, <2>2, <2>3
<1> HIDE DEF n
<1> DEFINE Good(k) == /\ DOMAIN a[k] = 0 .. 3
                      /\ k >= l => a[k][0] = IF k < s THEN pages ELSE size
           S == {k \in 0 .. n : Good(k)}
<1> HIDE DEF size
<1>5. 0 \in S
  <2>1. a[0] = Regs(blk) /\ 0 \in 0 .. n
    BY <1>1, <1>2 DEF Trace
  <2>2. ~(0 >= l)
    BY <1>1
  <2> QED BY <2>1, <2>2 DEF Regs
<1>6. ASSUME NEW k \in 0 .. n, k \in S, k < n PROVE k + 1 \in S
  <2> DEFINE j == k + 1
             ins == f[j]
             b == a[k]
  <2>1. j \in 1 .. n /\ j \in 0 .. n /\ k \in Nat /\ j \in Nat
    BY <1>1, <1>6
  <2>2. a[j] = Step(b, ins, pages)
    <3>1. j # 0 /\ j - 1 = k
      BY <2>1
    <3> QED BY <1>2, <2>1, <3>1 DEF Trace
  <2>3. DOMAIN b = 0 .. 3 /\ (k >= l => b[0] = IF k < s THEN pages ELSE size)
    BY <1>6
  <2>4. DOMAIN a[j] = 0 .. 3 /\ (ins.d # 0 => a[j][0] = b[0])
    <3> HIDE DEF ins, b
    <3> QED BY <2>2, <2>3, StepIs
  <2> SUFFICES ASSUME j >= l PROVE a[j][0] = IF j < s THEN pages ELSE size
    BY <2>1, <2>4
  <2>5. CASE j = l
    <3>1. ins.d = 0 /\ ins.op = "ldrsize" /\ j < s
      BY <1>4, <2>5
    <3>2. a[j][0] = pages
      <4> HIDE DEF ins, b
      <4> QED BY <1>3, <2>2, <2>3, <3>1, StepValues
    <3> QED BY <3>1, <3>2
  <2>6. CASE j = s
    <3>1. ins.d = 0 /\ ins.op = "lsl" /\ ins.n = 0 /\ ins.wide
      BY <1>4, <2>6
    <3>2. b[0] = pages
      <4>1. k >= l /\ k < s
        BY <1>1, <1>4, <2>1, <2>6
      <4> QED BY <2>3, <4>1
    <3>3. a[j][0] = size
      <4> HIDE DEF ins, b
      <4>1. size = b[ins.n] * PageSize
        BY <3>1, <3>2 DEF size
      <4> QED BY <1>3, <2>2, <2>3, <3>1, <4>1, StepValues
    <3>4. ~(j < s)
      BY <1>1, <2>6
    <3> QED BY <3>3, <3>4
  <2>7. CASE j # l /\ j # s
    <3>1. j > l /\ k >= l /\ (j < s <=> k < s)
      BY <1>1, <2>1, <2>7
    <3>2. ins.d # 0
      BY <1>4, <2>1, <2>7, <3>1
    <3> QED BY <2>3, <2>4, <3>1, <3>2
  <2> QED BY <2>5, <2>6, <2>7
<1>7. n \in S
  <2>1. \A k \in 0 .. n : k \in S /\ k < n => k + 1 \in S
    BY <1>6
  <2>2. n \in 0 .. n
    BY <1>1
  <2> HIDE DEF S
  <2>3. \A k \in 0 .. n : k \in S
    BY <1>1, <1>5, <2>1, UpTo
  <2> QED BY <2>2, <2>3
<1>8. n >= l /\ ~(n < s)
  BY <1>1
<1> QED BY <1>2, <1>7, <1>8 DEF size

LEMMA SizeInBlocks ==
  ASSUME NEW p \in Drivers, NEW f, Widened(p.code, f), Converts(p.code, f),
         NEW l \in DOMAIN p.code, NEW s \in DOMAIN p.code, ToBlocks(p.code, l, s),
         NEW pages \in 0 .. MaxPages, NEW blk \in 1 .. 3
  PROVE  Run(f, Regs(blk), pages)[0] = (pages * PageSize + blk - 1) \div blk
<1> DEFINE n == Len(p.code)
           size == pages * PageSize
           sum == size + blk
           rest == size + blk - 1
           blocks == rest \div blk
<1>1. /\ n \in Nat /\ l \in 1 .. n /\ s \in 1 .. n /\ s + 2 \in 1 .. n
      /\ Len(f) = n /\ DOMAIN p.code = 1 .. n
  BY DriverShape, Instructions DEF ToBlocks
<1>2. PICK a : Trace(f, Regs(blk), pages, n, a) /\ Run(f, Regs(blk), pages) = a[n]
  BY <1>1, RunIs
<1>3. /\ pages \in Nat /\ pages < Narrow /\ pages < Wide
      /\ sum \in Nat /\ sum < Wide /\ rest \in Nat /\ rest < Wide /\ rest = sum - 1
  <2>1. size + blk < Wide /\ size \in Nat /\ Wide \in Nat
    BY Bytes, ImageToolsAssumption
  <2> HIDE DEF size
  <2>2. sum \in Nat /\ sum < Wide /\ rest \in Nat /\ rest < Wide /\ rest = sum - 1
    BY <2>1
  <2> QED BY <2>2, Bytes
<1>4. /\ l < s /\ f[l].op = "ldrsize" /\ f[l].d = 0
      /\ f[s].op = "add" /\ f[s].d = 0 /\ f[s].n = 1 /\ f[s].m = 0 /\ f[s].wide
      /\ f[s + 1].op = "sub" /\ f[s + 1].d = 0 /\ f[s + 1].n = 0 /\ f[s + 1].wide
      /\ f[s + 2].op = "udiv" /\ f[s + 2].d = 0 /\ f[s + 2].n = 0 /\ f[s + 2].m = 1
      /\ f[s + 2].wide
      /\ \A i \in 1 .. n : i > l /\ i \notin s .. s + 2 => f[i].d # 0
      /\ \A i \in 1 .. n : f[i].d # 1
  <2>1. /\ l < s /\ p.code[l].op = "ldrsize" /\ p.code[l].d = 0
        /\ p.code[s].op = "add" /\ p.code[s].n = 1 /\ p.code[s].m = 0
        /\ p.code[s + 1].op = "sub" /\ p.code[s + 1].n = 0
        /\ p.code[s + 2].op = "udiv" /\ p.code[s + 2].n = 0 /\ p.code[s + 2].m = 1
        /\ \A i \in s .. s + 2 : p.code[i].d = 0
        /\ \A i \in 1 .. n : i > l /\ i \notin s .. s + 2 => p.code[i].d # 0
        /\ \A i \in 1 .. n : p.code[i].d # 1
    BY <1>1 DEF ToBlocks, Loads
  <2>2. \A i \in s .. s + 2 : f[i].wide
    BY DEF Converts
  <2>3. \A i \in 1 .. n : /\ f[i].op = p.code[i].op /\ f[i].d = p.code[i].d
                          /\ f[i].n = p.code[i].n /\ f[i].m = p.code[i].m
    BY Instructions
  <2> HIDE DEF n
  <2>4. \A i \in {s, s + 1, s + 2} : i \in s .. s + 2 /\ i \in 1 .. n
    BY <1>1
  <2>5. \A i \in {s, s + 1, s + 2} :
           /\ f[i].op = p.code[i].op /\ f[i].n = p.code[i].n /\ f[i].m = p.code[i].m
           /\ f[i].d = 0 /\ f[i].wide
    BY <2>1, <2>2, <2>3, <2>4, ZenonT(60) DEF n
  <2>6. l < s /\ f[l].op = "ldrsize" /\ f[l].d = 0
    BY <1>1, <2>1, <2>3 DEF n
  <2>7. /\ \A i \in 1 .. n : i > l /\ i \notin s .. s + 2 => f[i].d # 0
        /\ \A i \in 1 .. n : f[i].d # 1
    BY <2>1, <2>3 DEF n
  <2> QED BY <2>1, <2>5, <2>6, <2>7
<1> HIDE DEF n
<1> DEFINE Value(k) == CASE k < s -> pages
                         [] k = s -> sum
                         [] k = s + 1 -> rest
                         [] OTHER -> blocks
           Good(k) == DOMAIN a[k] = 0 .. 3 /\ a[k][1] = blk /\ (k >= l => a[k][0] = Value(k))
           S == {k \in 0 .. n : Good(k)}
<1>5. \A k \in 0 .. n : /\ k < s => Value(k) = pages
                        /\ k = s => Value(k) = sum
                        /\ k = s + 1 => Value(k) = rest
                        /\ k > s + 1 => Value(k) = blocks
  <2> HIDE DEF sum, rest, blocks
  <2> QED BY <1>1
<1>6. size \in Nat /\ sum = blk + pages * PageSize
  <2>1. size \in Nat
    BY Bytes
  <2> HIDE DEF size
  <2>2. sum = blk + size
    BY <2>1
  <2> QED BY <2>1, <2>2 DEF size
<1> HIDE DEF size, sum, rest, blocks, Value
<1>7. 0 \in S
  <2>1. a[0] = Regs(blk) /\ 0 \in 0 .. n
    BY <1>1, <1>2 DEF Trace
  <2>2. ~(0 >= l)
    BY <1>1
  <2> QED BY <2>1, <2>2 DEF Regs
<1>8. ASSUME NEW k \in 0 .. n, k \in S, k < n PROVE k + 1 \in S
  <2> DEFINE j == k + 1
             ins == f[j]
             b == a[k]
  <2>1. j \in 1 .. n /\ j \in 0 .. n /\ k \in Nat /\ j \in Nat
    BY <1>1, <1>8
  <2>2. a[j] = Step(b, ins, pages)
    <3>1. j # 0 /\ j - 1 = k
      BY <2>1
    <3> QED BY <1>2, <2>1, <3>1 DEF Trace
  <2>3. DOMAIN b = 0 .. 3 /\ b[1] = blk /\ (k >= l => b[0] = Value(k))
    BY <1>8
  <2>4. DOMAIN a[j] = 0 .. 3 /\ (ins.d # 0 => a[j][0] = b[0]) /\ a[j][1] = blk
    <3>1. ins.d # 1
      BY <1>4, <2>1
    <3> HIDE DEF ins, b
    <3> QED BY <2>2, <2>3, <3>1, StepIs
  <2> SUFFICES ASSUME j >= l PROVE a[j][0] = Value(j)
    BY <2>1, <2>4
  <2>5. CASE j = l
    <3>1. ins.d = 0 /\ ins.op = "ldrsize" /\ j < s
      BY <1>4, <2>5
    <3>2. a[j][0] = pages
      <4> HIDE DEF ins, b
      <4> QED BY <1>3, <2>2, <2>3, <3>1, StepValues
    <3> QED BY <1>5, <2>1, <3>1, <3>2
  <2>6. CASE j = s
    <3>1. ins.d = 0 /\ ins.op = "add" /\ ins.n = 1 /\ ins.m = 0 /\ ins.wide
      BY <1>4, <2>6
    <3>2. b[0] = pages
      <4>1. k >= l /\ k < s
        BY <1>1, <1>4, <2>1, <2>6
      <4> QED BY <1>5, <2>3, <4>1
    <3>3. a[j][0] = sum
      <4> HIDE DEF ins, b
      <4>1. sum = b[ins.n] + b[ins.m] * PageSize
        BY <1>6, <2>3, <3>1, <3>2
      <4> QED BY <1>3, <2>2, <2>3, <3>1, <4>1, StepValues
    <3> QED BY <1>5, <2>1, <2>6, <3>3
  <2>7. CASE j = s + 1
    <3>1. ins.d = 0 /\ ins.op = "sub" /\ ins.n = 0 /\ ins.wide
      BY <1>4, <2>7
    <3>2. b[0] = sum
      <4>1. k >= l /\ k = s
        BY <1>1, <1>4, <2>1, <2>7
      <4> QED BY <1>5, <2>3, <4>1
    <3>3. a[j][0] = rest
      <4> HIDE DEF ins, b
      <4>1. rest = b[ins.n] - 1
        BY <1>3, <3>1, <3>2
      <4> QED BY <1>3, <2>2, <2>3, <3>1, <4>1, StepValues
    <3> QED BY <1>5, <2>1, <2>7, <3>3
  <2>8. CASE j = s + 2
    <3>1. ins.d = 0 /\ ins.op = "udiv" /\ ins.n = 0 /\ ins.m = 1 /\ ins.wide
      BY <1>4, <2>8
    <3>2. b[0] = rest
      <4>1. k >= l /\ k = s + 1
        BY <1>1, <1>4, <2>1, <2>8
      <4> QED BY <1>5, <2>3, <4>1
    <3>3. a[j][0] = rest \div blk
      <4> HIDE DEF ins, b
      <4>1. rest = b[ins.n] /\ b[ins.m] = blk
        BY <2>3, <3>1, <3>2
      <4> QED BY <1>3, <2>2, <2>3, <3>1, <4>1, StepValues
    <3>4. j > s + 1
      BY <1>1, <2>8
    <3> QED BY <1>5, <2>1, <3>3, <3>4 DEF blocks
  <2>9. CASE j # l /\ j \notin s .. s + 2
    <3>1. j > l /\ k >= l
      BY <1>1, <2>1, <2>9
    <3>2. ins.d # 0
      BY <1>4, <2>1, <2>9, <3>1
    <3>3. (j < s /\ k < s) \/ (j > s + 1 /\ k > s + 1)
      BY <1>1, <2>1, <2>9
    <3>4. Value(j) = Value(k)
      BY <1>5, <2>1, <3>3
    <3> QED BY <2>3, <2>4, <3>1, <3>2, <3>4
  <2>10. j \in s .. s + 2 => j = s \/ j = s + 1 \/ j = s + 2
    BY <1>1
  <2> QED BY <2>5, <2>6, <2>7, <2>8, <2>9, <2>10
<1>9. n \in S
  <2>1. \A k \in 0 .. n : k \in S /\ k < n => k + 1 \in S
    BY <1>8
  <2>2. n \in 0 .. n
    BY <1>1
  <2> HIDE DEF S
  <2>3. \A k \in 0 .. n : k \in S
    BY <1>1, <1>7, <2>1, UpTo
  <2> QED BY <2>2, <2>3
<1>10. n >= l /\ n > s + 1 /\ n \in 0 .. n
  BY <1>1
<1> QED BY <1>2, <1>5, <1>9, <1>10 DEF blocks, rest, size

(* patch_md0_size.py, for every driver that converts the size in one of the *)
(* two ways the tool knows: once it has run the driver reports the size of  *)
(* every image, in bytes or in blocks, however the instructions around the  *)
(* conversion go and however often it runs again.                           *)
THEOREM SizesCorrect == Spec => []SizesExact
<1>1. ASSUME DriverInv PROVE SizesExact
  <2> SUFFICES ASSUME kind = "md0", "widen" \in applied,
                      NEW pages \in 0 .. MaxPages, NEW blk \in 1 .. 3
               PROVE  Run(file, Regs(blk), pages)[0] =
                          IF facts.result = "bytes" THEN pages * PageSize
                          ELSE (pages * PageSize + blk - 1) \div blk
    BY DEF SizesExact
  <2>1. /\ facts \in Drivers /\ Widened(facts.code, file) /\ Converts(facts.code, file)
    BY <1>1 DEF DriverInv
  <2>2. PICK l \in DOMAIN facts.code, s \in DOMAIN facts.code :
           IF facts.result = "bytes" THEN ToBytes(facts.code, l, s)
           ELSE ToBlocks(facts.code, l, s)
    BY <2>1, DriversAssumption
  <2>3. CASE facts.result = "bytes"
    BY <2>1, <2>2, <2>3, SizeInBytes
  <2>4. CASE facts.result # "bytes"
    BY <2>1, <2>2, <2>4, SizeInBlocks
  <2> QED BY <2>3, <2>4
<1> QED BY <1>1, DriverInit, DriverStep, PTL DEF Spec
=============================================================================
