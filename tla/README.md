# A formal model of the iOS 27 / CL4 QEMU machine

This directory holds TLA+ modules that model the program logic of the
repository, TLC configurations that check them on small instances, and TLAPS
proofs of the theorems that matter most for every instance. The code is
the reference: each definition names, in `PROJECT.json` under `map`, the lines
it stands for.

## 1. The system

The repository boots an iOS 27 kernelcache, its SPTM and the CL4 exclave kernel
under a patched QEMU. Its own logic lies in four places: the coprocessor models
(`scripts/apple_rtkit.c`, `scripts/apple_dcp.c`), the QEMU patch
(`qemu-patches/qemu-sptm-cl4-all.patch`: interrupt controller, inline
mailboxes, power and DART stubs, boot loader, CPU hooks), the Python and shell
tools that patch firmware images (`scripts/dt_fixup.py`, `scripts/darwinvm/`,
`scripts/patch_*.py`), and the run scripts.

| Component | State | Operations | Talks to |
|---|---|---|---|
| I2A ring (`apple_rtkit_send`, `asc_push`) | `q`, `head`, `count` | append unless full, pop | every sender of a mailbox; the guest's RECV reads |
| AIC v3 | `pending` bits, `enabled`, CPU line | line up/down, IACK, global configuration | devices (lines), guest (registers, IRQ) |
| RTKit engine | ring, `a2i_msg`, `cpu_control`, `running`, `hello_sent`, `version`, `eps[].started`, `bufs[]`, timer | SEND0, SEND1, RECV0, RECV1, CPU_CONTROL, announce timer | AIC line; endpoint handlers (callbacks); guest |
| DCP AFK endpoints | one `bfr_dva`, `afk_inited`, `started` for three endpoints | INIT, GETBUF_ACK, START_ACK, RECV | the engine's ring; guest memory |
| Inline ASC mailboxes | per mailbox ring, `a2i_msg0`, `running`, `hello_sent`, timer | as the engine, endpoint 0 only; BOOT_STATUS | AIC line; NVMe window; guest |
| DCP panel console | 256 rows, cursor, stage of the boot bar | a byte of UART, a painted frame | UART tee, scanout |
| PMGR, DART | register files | read, write | guest |
| Boot loader | DRAM layout, boot arguments, `__DATA` of CL4 | place CL4's block, rebase its pointers, carve regions, publish them | device tree, guest memory |
| ERET hook and trampoline | `g_cl4_ctors_done`, injected registers, the seeded node | exception return, constructor call | CPU state, SPTM, CL4's entry |
| Device-tree fixer | tree in memory | decode with guessed types, rewrite, encode | the loader |
| Kernelcache patch chain | a copy of the image, what each stage reported | Image4 patcher, dry run, answer, root-authentication patcher, verifier | one another, through the file |
| Single-site patchers and probes | one image | find the site, check it, write the file | one another, through the file |
| Cache, ramdisk, trust-cache tools | cache header, driver code, hash lists | clamp the slide, widen the size, collect and merge hashes | the kernel, through the file |

What makes it hard:

- **Interleaving.** A guest reads a mailbox in several register accesses (IACK,
  I2A_CONTROL, RECV0, RECV1) and writes it in two (SEND0, SEND1). Between any
  two of them its other threads, the announce timer and the other mailbox run.
- **An edge-like controller on level lines.** `aic_read` clears the pending bit
  at IACK although the device still holds its line up, so a missing
  `update_irq` after one pop loses the mailbox for good.
- **Full rings.** Senders queue two, three or more messages at once and drop
  silently what does not fit; nothing is ever resent.
- **Two ways to boot.** RUN and the timer both boot the coprocessor.
- **Shared state.** Three AFK endpoints share one state record; two mailboxes
  share one IACK register.
- **Chains of in-place patches** whose later members look for what earlier ones
  may have changed, in runs that stop half way and start again.
- **Untyped data read by a guess.** The device tree is decoded by looking at its
  bytes, all of it is written back from the guess, and the loader then
  overwrites values whose room the fixer made.
- **Code that runs before the code.** CL4's constructors run on a borrowed stack
  in the middle of SPTM's exception return, over a list of one service, and CL4
  runs them again once it has made the environment they need.

What makes each part correct: the ring is a bounded FIFO; the AIC loses no
interrupt of a device with something to say; the engine gives the guest the
RTKit handshake in order, HELLO once, the complete endpoint map before LAST,
and accepts every buffer; AFK endpoints reach "transport up" in order and with
a buffer; a coprocessor that reports itself up has said HELLO; carved memory
regions are disjoint and the tree describes them; each chained pointer is
rebased once; a patcher changes the sites it means to, and does what its dry run
said; the panel shows and scans the lines the guest sent.

## 2. Modules

| Module | Models |
|---|---|
| `FifoChannel` | abstract: a bounded channel that keeps order and drops at its end |
| `RingQueue` | the arrays `q[]` with `head` and `count`; refines `FifoChannel` |
| `Aic` | the interrupt controller, shared by the two systems below |
| `IopHandshake` | abstract: what the RTKit handshake promises a guest |
| `RTKit` | the engine, one action per register access and one for the timer |
| `RTKitSystem` | engine + AIC + guest; refines `IopHandshake` |
| `AppleDcp` | the AFK handler of the DCP's endpoints on top of `RTKit` |
| `AfkSystem` | the DCP, its endpoints interleaved, and the guest's display driver |
| `AscMailbox` | the two inline mailboxes and the ANS's BOOT_STATUS |
| `AscSystem` | the mailboxes + AIC + guest |
| `PanelConsole` | the panel's text console, its boot bar, and the guest's lines |
| `Cl4Fixups` | CL4's contiguous block and the walk of its chained pointers |
| `AdtCodec`, `DtFixup` | the device tree's codec with guessed types; `fixup()` |
| `BootMemory` | the loader's carve-outs and what it writes into the tree |
| `Cl4Entry` | the ERET hook, the trampoline, the seeded node; CL4's set-up and its own constructors (external) |
| `BootSystem` | fixer, fixups, loader and CL4's entry, one after the other |
| `KcImage` | a kernelcache as the patchers see it, and the finders they share |
| `KcPatch` | the Image4 and root-authentication patchers and the verifier |
| `KcChain` | `darwinvm_patch_kc.sh`: the runner over both, refusals and restarts |
| `RtbuddyPatch` | the five RTBuddy patchers and the loop they patch |
| `SrProbes` | the probes of `check_np`, the stub-by-string tool |
| `ImageTools` | slide, memory-disk size, trust-cache hashes and merge |
| `HostTools` | these tools on one file, in any order and any number of times |
| `MC*` | constants for TLC |
| `RingQueueProofs`, `RTKitProofs`, `AfkProofs`, `AscProofs`, `BootProofs`, `KcProofs`, `HostProofs`, `PanelProofs` | theorems and proofs |

How they correspond to the code:

- **One handler, one action.** QEMU runs MMIO handlers and timers under its big
  lock, so `rtkit_write(SEND1)` with everything it calls (`handle_a2i`,
  `handle_mgmt`, `send_epmap`, each `apple_rtkit_send` and `aic_set_irq`) is one
  step. The guest's accesses are separate steps.
- **The ring** is the sequence `i2a` (or `q[s]`) in the system modules;
  `RingQueue` shows separately that `head`/`count`/`q[]` is that sequence.
  `Send(ms)` is a run of `apple_rtkit_send` calls: what does not fit is dropped,
  and the line is driven if anything was queued.
- **Messages** keep the fields the code looks at (type, base, bitmap, LAST,
  endpoint, version, IOVA or DVA). AFK types are the code's hexadecimal numbers.
  The EPMAP chunk of a base is built from the present endpoints as in
  `send_epmap`: bit `e % 32` of chunk `e / 32`, LAST on the highest.
- **The AIC** keeps its pending bits as a set. IACK hands over the lowest and
  clears it; `pending` and `enabled` determine the CPU line after every access.
- **`bufs[]`** is the sequence of its valid entries. A log endpoint's buffer is
  named by the endpoint, an AFK buffer by its endpoint too. Sizes do not matter
  to any branch and are left out.
- **`Wired`** is whether `aic_irq_line` gave the engine a line: without one
  (`NULL`) `qemu_set_irq` does nothing, and no interrupt property applies.
- **The guest** (XNU, RTBuddy, the display and ANS drivers) is not in this
  repository. Its actions are external: they follow from the registers and
  messages the code answers. The interrupt routine may stop after any message
  or go on, the sender may hand over any message it has in any order the
  protocol allows, RUN and the AIC's enable bit may be written at any time.

- **The console** is the code's static arrays in a record; a byte is one step.
  A row's text ends at its first NUL, for `strstr` and for the painter. Milestone
  words are short sequences, one set for each stage. What the guest sent is kept
  beside it as history.
- **Fixups.** Offsets count 8-byte words and memory is `__DATA` indexed from
  `rw_phys`. A raw word is split into the fields the code's masks and shifts
  select; bits no mask selects are left out. One step is one turn of a loop, so
  that the walk can be proved by induction on its steps. `BootSystem` runs it
  before the rest of the loader.
- **The device tree** is its nodes by their place in pre-order, a node a path, the
  entries of its `compatible` and a function from property names to values; in the
  file a value has a length and padded bytes, in memory a type tag and a value.
  `Put` and `Pop` are the code's assignments to `node.props` and its `pop`s: they
  change one node where it stands. A node that is removed leaves its place empty,
  so that every other node keeps its own and "the same node before and after" is
  "the same place". Sizes and addresses are in MiB (the size of the panic log), and
  numbers keep their low three bytes.
- **The loader** transforms a record of memory size, regions and tree, in the
  order of the code; a value that is shorter than what is written over it is
  recorded as spilled.
- **CL4's entry** is a CPU of program counter and the registers the hook, the
  trampoline and the constructors touch, both thread registers among them. The
  scratch page is a function from offsets to the words the loader writes there; the
  trampoline is the one whose words the loader installs, which drops the fake
  context before it goes to the entry (`msr tpidr_el0, xzr`), not the older one
  `gen_trampoline.py` prints. What follows the entry is CL4's binary, modelled from
  what `experiments/cl4-ctor-ordering` and `experiments/cl4-perthread-registry` found
  in it: a null descriptor is the end; without a thread context CL4 builds one and
  registers the base services; then it calls the same constructors itself, once. A
  constructor that logs needs the thread's read-only word and ends in an `svc`
  without a vector.
- **Kernelcaches** are sequences of words abstracted to their kind, the string
  they form the address of and the target of a branch; addresses are word
  indices. The finders' scan windows are constants, scaled down in the
  configurations. Every anchor string, alternative needle and fallback of the
  patchers is in the model; what a string says is not. The Image4 patcher takes
  one step per needle (`Img4Needle`) and one to write (`Img4Stage`); the dry run
  and the root-authentication patcher, whose turns touch nothing but their own
  memory before they write, one step each.
- **The RTBuddy patchers** are records of the instructions they check and the
  instructions they write. What their combination is worth is read off by
  running the route loop they patch, which is kernel code: it ends as the boots
  recorded in `docs/FINDINGS-ios27-display.md` (Parts 37 to 39) did.
- **Registers** in the memory-disk driver are scaled: `Narrow` for 2^32, `Wide`
  for 2^64, `PageSize` for 4096.
- **Tools are atomic**: each reads a file, checks it and writes all of it. The
  runner and the merge script are sequences of them, which may stop in between. The
  script's first copy may fail, which it ignores, and leave an older copy, none or a
  part (`MergeCopyFails`).

## 3. What is checked

`PROJECT.json` lists each run, its configuration and its properties, and for
each property a mutant of the code's model that breaks it.

| Run | Question | Bounds |
|---|---|---|
| `ring` | Is the ring a FIFO through wraps and overflow? | 3 slots, 3 messages: every head and count |
| `rtkit` | Engine, AIC and guest, any interleaving: no lost interrupt, no torn receive, one HELLO, buffers kept, handshake implemented; does the queue drain and every endpoint start? | a ring of 3, one short of two power acknowledgements and both EPMAP chunks, so that LAST may be dropped; two power requests; the AIC switched on and off |
| `afk` | Do three endpoints in one ring each keep the handshake's order? | ring of 4, so the three messages of one GETBUF_ACK may meet a full ring; two RECVs |
| `afk_shared` | Does RECV read its own endpoint's ring? **No** | the code's ring of 64 |
| `afk_start_ack` | Does the START acknowledgement of the build plan work? **No** | ring of 64 |
| `asc` | Do two mailboxes share AIC and interrupt routine safely, and do both finish? | rings of 2, two power requests in all, the DCP's number above the ANS's |
| `asc_epmap` | Does the DCP mailbox offer endpoint 0x24? **No** | rings of 2 |
| `panel` | Is each plain line shown and scanned as it was sent, whatever else the guest sends? | 3 rows of 4 columns, tab stops every 2, lines of up to 4 bytes: every wrap, tab and scroll |
| `boot` | Do fixer, loader and entry hook agree, and is every pointer of CL4 rebased once? | one stock tree per shape of node and property, combinations of the switches that meet in a node; labels of up to 5 bytes over a zero, a printable and another byte, and some of 8; 3 constructors that look up the seeded service or another, 3 exception returns; every set of pointers in 2 pages of 3 words, targets in each segment, on each boundary and past the end, both kinds of pointer, with and without other segments |
| `kc_chain` | Does the chain change what it means to, and what it said it would? | functions of every prologue, with and without signing, early returns and neighbours; absent anchors; 3 Image4 needles for the code's 7; 2 runs |
| `kc_reentry` | Also with two strings in one function? **No** | as above, one image |
| `host` | Are the other tools independent, and does each do what it promises? | each tool's file in every shape that takes another branch of it |

Why the bounds are enough: the code has three numeric limits here (ring size,
buffer table, chunk of 32) and each run has a configuration that meets the
limit, passes it and wraps: a ring of 2 to 4 slots overflows with a map of two
chunks, a power acknowledgement or the AFK triple; a power request is a message
with a reply that can arrive in any gap; two of them fill a small ring twice
over. Nothing in the code depends on the number of endpoints beyond the two
chunks their numbers fall into. The proofs lift the safety results to every size.

For the tools the limits are scan windows and counts of sites: the windows are
scaled so that functions just inside and just outside of them exist, and each
image has at most as many sites of a kind as its patcher counts plus one. In
`boot` a pointer's place in its page, its neighbours and its target decide every
branch, and every place in two neighbouring pages meets each target and kind. In
`panel` a row has room for the longest word and for less, so that words meet
every edge.

`MaxPings`, `MaxRecvs`, `MaxRuns`, `MaxErets` and `MaxLine` are bounds of the
models, not of the system. `CHECK_DEADLOCK FALSE` appears where the system ends:
a driver that has opened its endpoints and rung its doorbells (`afk*`), a runner
that was started as often as the bound allows (`kc_*`), a boot without CL4, one
the fixer refused, or one past the last exception return (`boot`), a file all of
whose tools refuse it (`host`).

What the runs take for granted: a string names one function, and the
stub-by-string tool is given each string once and not a function that begins
with `sub sp`, which its walk does not know; a kext's code and the kernel's are
apart; there is one CPU, and SPTM leaves the thread registers as they are; a
constructor looks up base services only; DRAM has room for what the run scripts ask
the loader to carve.
Of the stock tree (`StockTree`, in `TreesAssumption`): a path names one node; a
`name` ends in zeros; the DCP's nub is not flagged as on already and has not both of
the other power flags, which exclude one another (`dt_fixup.py:262`), nor a region
(`dt_fixup.py:265`); the ANS's nub has none or one left at zero, like `/vram`
(`docs/FINDINGS-ios27-display.md:1056`); `/pram`'s `reg` is `{0,0}`
(`dt_fixup.py:222`) and `/chosen` gets its panic log's size from the fixer
(`dt_fixup.py:224`).

### The properties

- `NoLostInterrupt` (engine and inline mailboxes): while a message is queued
  its interrupt is pending or the interrupt routine is on its way. It depends
  on every pop and every send driving the line again after IACK.
- `NoTornReceive`: the endpoint read at RECV1 belongs to the word read at
  RECV0, whatever is sent or dropped between the two.
- `HelloExactlyOnce`: RUN writes, re-runs and the timer send one HELLO in all.
- `BuffersRecorded`: no buffer handed over is forgotten, given a table with a
  place for each log endpoint (the code has 8 for 5).
- `HandshakeImplemented`: the engine refines `IopHandshake`; a guest that sees
  LAST has seen every endpoint, also when chunks are dropped.
- `HandshakeCompletes`: once the guest leaves the AIC on the queue is emptied
  again and again, and unless the ring fills every endpoint is started.
  `OpenedComesUp`, `BothHandshakesFinish`: progress of the others. All under the
  fairness below.
- `HandshakeInOrder`: each AFK endpoint receives a prefix of the handshake.
- `UpHasBuffer`: transport-up and RECV happen only with a buffer.
- `RunningSaidHello`: BOOT_STATUS never says OK before HELLO was sent.
- `RowsTerminated`: whatever the guest prints, `strstr` and the painter stay in
  their row. `PanelShowsLog`, `BarFollowsMilestones`: plain lines are shown in
  order through scrolling, and the boot bar says what they said, no less
  whatever came between them and no more while there was nothing else.
- `PointersRebased`: at its end, which the loader waits for, the walk has turned
  every pointer into the address of its target in the one block, and it never
  touches another word nor one pointer twice.
- `UntouchedPropsSurvive`: guessing types loses nothing of a property the fixer
  leaves alone. `DartIdsDistinct`, `PowerFlagsExclusive`: what SPTM and the power
  driver demand, over switches applied one after another.
- `RegionsPublished`: the tree the loader leaves describes the regions it took,
  and nothing was written past a value's end. `CarveOutsDisjoint`.
- `CtorPasses`: the trampoline, if installed, makes one pass over the constructors
  and CL4 another, each in the order of the array; the first is over before a guarded
  return gets to the entry and the second before CL4 runs on, however often SPTM
  returns.
- `OnlyUnseededFault`: in the trampoline a constructor dereferences null only for a
  service other than the seeded one, so loader, hook and look-up agree on the list;
  in CL4's own pass only for the read-only thread word nobody sets in a boot
  without the trampoline. It would fail if the fake context survived the entry, for
  CL4 would then have no services of its own.
- `EntryAbi`: a guarded return gets to CL4's entry with the stack pointer, the
  arguments and the thread register that the entry and the domain set-up branch on.
- `StubsAtEntry`: the chain changes entries of anchored functions and gates of
  the panic block, nothing else. `SitesPredicted` (`DryRunPredicts` and
  `VerifyPredicts`): the real run hits the sites the dry run and the verifier
  showed, though its patches search words already changed. `RefusalLeavesImg4Only`: what a stop leaves behind.
- `IndependentTools`: no tool's acceptance or effect depends on which others
  ran. `StartMatrix`: what any combination of the RTBuddy patches comes to, as
  the matrix of `docs/FINDINGS-ios27-display.md` has it: without the secure service
  nothing makes a coprocessor register, and `start()` ends cleanly exactly if the
  loop begins behind the secure route and is not skipped.
- `HashesKept`: a cache that was built trusts the cryptex, and as long as no copy
  failed no trusted hash is lost over stops and restarts of the merge, nor one of
  the root's programs. `ProbesStayInPlace`, `ErrnosTellApart`, `CacheFits`,
  `SizesExact`: what each of the others is for.

### Fairness

Weak fairness of the interrupt routine and of the driver's sending steps: the
guest's CPU runs, takes an asserted interrupt and schedules its threads; and of
enabling the AIC, which the kernel does while starting. Nothing is assumed of RUN or
of the announce timer, so liveness starts from `hello_sent` or
`running`. QEMU's handlers need no fairness: they run inside the guest's access.
The other modules state no liveness.

Nothing keeps the guest from switching the AIC off again, so `HandshakeCompletes`
begins with its staying on (`AicStaysOn`). When a chunk of the map is dropped the
handshake stops for good, since the engine resends nothing: hence `NeverFull`; in
the code 64 slots see to that. `OpenedComesUp` says it in its own way (`lost`).

### What the code does that its documents do not say

1. **One AFK state for three endpoints** (`afk_shared`). Two endpoints open;
   the second GETBUF_ACK overwrites `bfr_dva`; RECV on the first then dumps the
   second's buffer. The state is documented as that of endpoint 0x24.
2. **START_ACK is 0xa4 in the code, 0x86 in the build plan** (`afk_start_ack`).
   A guest that follows the plan never brings the transport up, while the
   device stays silent.
3. **The inline mailbox cannot offer 0x24** (`asc_epmap`). `1ULL << 0x24`
   masked with `0xffffffff` is an empty bitmap in a single chunk of base 0,
   against the comment just above it. The engine's `send_epmap` does it right.
4. **Two anchors in one function** (`kc_reentry`). The walk back to the entry
   from the second string meets the `ret` of the stub the first one left, takes
   the word after it for an entry, and stubs the middle of a function or a
   neighbour. Its docstring promises "the true function entry".

Four more statements do not hold either. They have no run of their own; the
properties named say what holds instead.

- `experiments/cl4-ctor-runner/README.md:116-118` calls running the constructors
  before the entry the faithful reproduction of what a loader does. CL4 runs the same
  constructors again behind its domain set-up, as the comment on the switch itself
  says (`qemu-sptm-cl4-all.patch:1412`) and `experiments/cl4-ctor-ordering` shows:
  `CtorPasses` has both passes.
- The comment above the seed (`:1437-1440`) promises the base services CL4's domain
  set-up would register; the code lays out (2,5) alone. A constructor of the
  trampoline that looks up another faults, as `OnlyUnseededFault` allows and the run
  meets.
- The docstring of `patch_rtbuddy_route.py` says its NOP lets `start()` complete.
  Behind the check the null route is dereferenced
  (`docs/FINDINGS-ios27-display.md:2676`): `LoopOutcome` is "faults", and
  `StartMatrix` that only a loop begun behind the route ends cleanly.
- `merge_cryptex_trustcache.sh` says it appends. Its copy ends in `|| true`, and
  after a failed one the list is built on an older copy, a part or none: hashes are
  lost, which is why `HashesKept` is restricted to runs without a failed copy.

Also, by design of the code and not a violation of anything it states:
`running` is never cleared, so a guest that clears RUN and sets it again gets no
second HELLO; a STARTEP needs no map to have been sent; the console moves its
cursor over a tab without filling the cells, whose NULs end the row for the painter
and the scan, so that `PanelShowsLog` speaks of lines without tabs only.

## 4. What is proved

`RingQueueProofs`: for every ring size and message set,

- `RingTypeCorrect`: `Spec => []TypeOK`;
- `RingImplementsFifo`: `Spec => RingIsFifo`, by a step simulation: the slot
  `(head + count) % size` is outside the window `Contents` reads, and popping
  shifts the window by one.

`RTKitProofs`: for every set of endpoints, ring size, buffer table, power-request bound
and interleaving, from `RTKitAssumption`, `HwirqsAssumption` and `SystemAssumption`,

- `TypeCorrect`: `Spec => []TypeOK`, one step per action, with lemmas on
  `Send`, `UpdateIrq` and the messages sent;
- `DeliveryCorrect`: `Spec => [](NoLostInterrupt /\ NoTornReceive)`. Neither is
  inductive: the message that I2A_CONTROL announced must still be there at
  RECV0, for nobody else pops the ring. `DeliveryInv` adds that; that sends only
  append is the lemma `SendAppends`. `ReceivePaired` is the second half alone;
- `EngineImplementsHandshake`: `Spec => HandshakeImplemented`. The refinement
  needs what is true of messages still in flight: an EPMAP in the ring, and
  anything the guest has to send, comes after the guest received HELLO
  (`AfterHello`); a queued chunk marked LAST has every lower chunk ahead of it
  in the ring or already received (`ChunksInOrder`); and what `a2i_msg` holds at
  SEND1 is what the sender staged, a STARTEP only for an endpoint of the complete
  map (`StagedIsSent`). `HandshakeInv` is their conjunction, inductive together with
  `TypeOK` and `DeliveryInv`, for the chunk a guest counts at RECV1 is the one
  it read at RECV0.

- `HelloCorrect`: `Spec => []HelloExactlyOnce`. Until HELLO was received the ring
  holds it alone or nothing, since nothing else is sent before: it finds room
  however small the ring (`HelloInv`);
- `BuffersCorrect`: `Spec => []BuffersRecorded`. The table's entries are of
  distinct log endpoints that were handed over (`BufsInv`), so a full table leaves no
  endpoint for another entry, by counting.

`AfkProofs`, for any endpoints, ring and acknowledgement of START:

- `AfkTypeCorrect`: `Spec => []TypeOK`;
- `UpHasBufferCorrect`: `Spec => []UpHasBuffer`. START is queued only after the
  buffer's address is known, a driver is up only after START, and acknowledgement
  and RECV wait to be sent only once some driver is up: `AfkInv` says this of the
  ring and of the guest's outbox. It needs that the acknowledgement is none of
  the other three types, as the code's `switch` does;
- `HandshakeInOrderCorrect`: `Spec => []HandshakeInOrder`. `OrderInv` says where
  everything that is still under way stands. What the ring holds for an endpoint is
  the messages that come next in its handshake, in ascending places and without a
  gap but at its end, where a full ring dropped the rest (`QueueInv`); and a driver
  asks one question at a time, whose answer has not been queued before (`AskInv`).
  That is why an INIT or a GETBUF_ACK finds the ring silent for its endpoint, and
  why the triple it queues goes on where the last message stopped.

`AscProofs`, for any number of mailboxes: `AscTypeCorrect`, `AscDeliveryCorrect`
(`NoLostInterrupt`) and `AscHelloCorrect` (`RunningSaidHello`). `AscInv` adds to
them which mailbox the routine is in and that `running` and `hello_sent` agree; the
controller's other pending bits are untouched by an IACK.

`BootProofs`:

- `EntryCorrect`, `CtorsCorrect`, `FaultsKnown`: `EntryAbi`, `CtorPasses` and
  `OnlyUnseededFault` for any number of constructors and returns, and whatever the
  constructors look up. `Cl4Inv` is inductive with one lemma per action: what was
  called is what the two cursors count (`Counted`), where each pass stands at each
  point of the program (`Passes`), which context the thread register holds inside and
  outside the trampoline (`Threads`), and the arguments the trampoline keeps
  (`Arguments`). That in the scratch page exactly (2,5) is found is the lemma
  `OnlyUnseededMissed`;
- `FixupTypeCorrect`, `FixupsCorrect`: `Spec => []FixTypeOK`, `Spec =>
  []PointersRebased`, for every boot of every image of the linker's form and every
  base. `WalkInv` says where the walk is and that exactly the pointers behind it are
  rebased. A step to the next pointer skips none since the chain leads to the
  least later one of its page (`Chains`), and a page's end is the next one's
  beginning (`PageBounds`). That three bases amount to one is the lemma
  `OneBlock`;
- `BootTypeCorrect`, `UntouchedCorrect`, `DartsCorrect`, `FlagsCorrect`,
  `CarvesCorrect`, `RegionsCorrect`: the six properties of the device tree and the
  carve-outs, for every stock tree and all switches.

The last six rest on `TreeInv`: what fixer and loader leave are `Fixup` and
`LoadTree` of what was there, or nothing. The rest is about these operators.

- *Which part of `fixup()` may change what.* `Edit(d, e, W)` says that a tree
  differs from another only in the properties `W` and in the nodes that were
  removed, and `From` that it may also have gained the clock. Each part has such a
  lemma (`MachineFrom`, `CtrrFrom`, ... `LateFrom`) and they compose (`FromTrans`).
  `FixupLeaves` is the sum: whatever is not in `FixupProps` is as it was.
  `FixupTouches` shows that those are the names `Touched` lists.
- `UntouchedCorrect` adds the codec. `RoundTrip`: decoded by the guess and encoded
  again, bytes keep their content up to trailing zeros and fit their length, and
  what was encoded once is a fixed point. Text gains a terminator when it had none,
  and that is the one case where the length grows.
- `DartsCorrect`: a DART's number is how many come before it in the tree the
  numbering sees, and later parts neither change it nor move a node.
- `FlagsCorrect`: each switch's effect on the DCP's nub is a set of flags
  (`FlagsIn`) of which each step leaves one at most, in every combination.
- `CarveOutsApart` says, for any DRAM, framebuffer and firmware, that the regions
  of `LoadTree`'s carve-outs do not overlap. Each keeps `LoadInv`: all regions end
  above the memory that is left. `CarvesCorrect` brings it to the whole system: no
  publication changes the size of DRAM that the next carve-out reads (`DramState`).
- `RegionsCorrect` needs the most. `Ready` is what the fixer has to have done for
  the loader: the properties it overwrites exist with the room it needs. `Sound`
  and `Placement` go through the loader's steps one by one: nothing was spilled, each
  nub's region is what was taken under its name or zero, the panic log's `reg` is
  the panic log's region. That a number written can be read back (`Value` of
  `Number`) needs DRAM to end below `NumberBound`, which `TreesAssumption` says.

`PanelProofs`, for every size of console, tab stop, milestones and text:
`RowsCorrect`, `BarCorrect`, `PanelCorrect`. `PanelInv` consists of the type of the
console, whose rows end in NUL; `LineInv`: a plain line is all there is in the
cursor's row, whatever came before; `SaidInv`: the bar has what the lines said; and
`LogInv`: while all lines were plain, the rows are the log and nothing else. A line
wraps, a carriage return rewinds and the array scrolls by three different parts of
the code, so each gets a lemma for a console that satisfies it.

`HostProofs`, for every cache and every hash list, with or without an older copy of
it: `CacheCorrect` (`CacheFits`) and `HashesCorrect` (`HashesKept`), by what each tool
leaves true of the file, where `HashInv` distinguishes runs in which a copy has
failed; and `StartCorrect` (`StartMatrix`) for every file and every order of the
RTBuddy patchers: each site holds what a patcher that was accepted writes there, or what
it held before any did (`SiteInv`), and the sites the route loop depends on have one
patcher each (`OneWriter`), so that `StartSites` knows them from what was applied.

The probes of the shared-region code (`ProbesPlaced`, `ErrnosDistinct` and
`ToolsIndependent`) read and write the same words, so none of the three can be shown
tool by tool. `ProbeInv` says that every word is what one of the
probes run so far makes of the *original* (`Effect`), or untouched (`Mixed`). It is
inductive for two reasons. What the probes write lies in different places (`Apart`);
and in a file that differs from the original in such words only (`Near`), a probe
finds what it finds in the original: the same string load (a stub makes none), the
same return, calls and trace level (`NpSame`, `LevelsSame`), and the same entry at
the end of its walk (`WalkIs`). `ErrnosTellApart` then needs no more than that the
numbers written increase with the site (`NpNumbers`, `Ranks`). For `IndependentTools` the new patch is
compared with what it would be on the original (`SameDelta`), and for RTBuddy's
patchers with what each checks (`Checked`).

`SizesCorrect` (`SizesExact`) is about a program in the driver: `Run` is a recursive
function over its instructions. That it has a value at each is shown by its least
counterexample (`Traces`), as the induction theorems cannot be used. `DriverInv` says
that instructions have only been widened, the conversion's among them once the tool
has succeeded (`WidenConverts`, `WidenKeeps`), so that a size in the register comes
out of the conversion whole (`SizeInBytes`, `SizeInBlocks`).

These theorems assume of a kernelcache and a driver what the tools rely on:

- `ProbedAssumption`: functions begin with a landing pad or an STP and set up a frame
  (the walk's stopping rule), do not overlap, and one without a landing pad follows a
  return; `check_np` ends at the first return behind its message and runs out of
  memory in at most six places (the tool knows three and has five numbers and 99:
  with a seventh, two would return 99); `auth_remap` is the last call whose result is
  kept in `x8` before the message, and the last small number loaded there is the trace
  level. A function whose string is found has nothing that looks like another entry
  up to the load.
- `NamedAssumption`: the strings given to the stub tool do not name the other probes.
- `DriversAssumption`: the driver loads the size at most four instructions before it
  converts it, by one `lsl` or by `add`, `sub` and `udiv`, and puts nothing
  else in the register it returns, or in the one with the block size. `ImageToolsAssumption` and `ReachAssumption`
  only say of what kind the widths and the bounds of the scans are.

TLC evaluates each on every kernelcache and driver of the run `host`.

`KcProofs`, for every kernelcache, any depth of the scans and any needles:
`StubsCorrect`, `PredictionCorrect` and `RefusalCorrect` (`StubsAtEntry`,
`SitesPredicted`, `RefusalLeavesImg4Only`). They assume of a kernelcache

- that code is laid out as the linker does it, and that the function round an
  anchor's load is one `_walk_back_to_prologue` describes (`Recognizable`: a prologue,
  signed or behind a return, and nothing up to the load that looks like another), and
  that gates enter the panic block at its start: `KernelcachesAssumption`, the
  tools' own premises. Their scans may still end short of an entry;
- that no function holds two anchors (`OneAnchorEach`, a hypothesis of the theorems). The
  run `kc_reentry` is what happens without it; a predicate and its iOS variant may share
  a function, for only one of them is patched.

TLC evaluates both on every kernelcache of `kc_chain`. The difficulty is that each
anchor is looked up in words the patches before it have changed. `Stubbed` says what
a file may differ in, given the entries that were stubbed. `XrefStays`: a stub makes
no load, so a first match stays the first. `RecognizableStays`: nothing changes in
another function, and a stub that reaches to the end of the function in front puts a
return where there was one. So a walk ends where it did (`WalkIs`, `EntryStays`), a
lookup one stub later says what the source alone says (`NextLookup`), and
`SsvIs` that a dry run and a real one report the same. `ChainInv` states, stage by
stage, what file and reports are in terms of the source.

Assumptions: those named `...Assumption` in the modules, which TLC evaluates in
the runs. `ImagesAssumption` (`WellFormed`) is what Apple's linker makes of
CL4: its code is external.

The AIC is edge-like, so `pending` alone is no record of the queue: this is why
`DeliveryInv` and `AscInv` speak of the interrupt routine's position as well.

Only model-checked: the three liveness properties, `HandshakeCompletes`,
`OpenedComesUp` and `BothHandshakesFinish`. Liveness under fairness, ENABLED and
induction over data are beyond the prover. Every invariant and every action property
of a passing run is stated by a theorem.

## 5. What is not modelled, and why

- The panel's pixels, colours and eased progress; the display stub: no branch
  depends on them.
- PMGR and DART: register files that answer in the access itself and share
  nothing with anyone.
- The keyboard: two modifier flags and a table in front of QEMU's UART receiver,
  which is not in this repository.
- The placement of the kernel's, SPTM's and TXM's segments: it belongs to the
  QEMU fork the patch applies to, as do GXF's registers.
- Kernel code that the patches target, and the guest in general, beyond what the
  repository's code relies on.
- A mailbox mapped without an interrupt line in `AscSystem`; `Wired = FALSE`
  covers the engine.
- Carve-outs larger than DRAM: nothing in the code compares them, and what is
  left depends on segments that are not modelled.
- A kill in the middle of one tool: an output emptied by `argparse` is modelled, a
  file half written by `sort` is not.
- `u32:` or `<NULL>` as text of a property, which the fixer would read back as
  another type: no device tree has it.
- Constructors that do more than look services up and log, and what CL4 does behind
  its own pass over them: its binary is not here.
- The reverse-engineering probes, `gen_perthread_seed.py`, `apply_kpatch.py`, `inject_cryptex.sh`, the run
  scripts and the boot triage: they print what they find, or copy what they are
  given, and keep no state.
- `msgs`, `trace` and trace budgets: counters for logging.

`PROJECT.json` lists each component with its status.

## 6. How the models are ordered, and what is left

The guest-visible protocols came first (`RingQueue`, `Aic`, `RTKit*`, `AppleDcp`,
`Afk*`, `Asc*`), then the image tools (`Kc*`, `HostTools` and the modules under
it), the boot (`DtFixup`, `BootMemory`, `Cl4Entry`, `BootSystem`), the panel and
the fixups. What could still be added:

- the keyboard together with a model of the UART's receiver;
- the segments of the five images, to bound what the carve-outs may take.
