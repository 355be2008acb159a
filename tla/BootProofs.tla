---------------------------- MODULE BootProofs -----------------------------
(* For any number of constructors that look up any of CL4's base services,   *)
(* any device tree and any number of exception returns: the secure kernel is *)
(* entered as it expects, its constructors run in order in the trampoline    *)
(* and then in CL4, and one faults in the two known cases only.  For         *)
(* every image CL4's linker can make and every place it is loaded to, the    *)
(* walk of the chains rebases each pointer once.  For every stock tree and   *)
(* all switches, fixup() leaves alone what it does not name and numbers the  *)
(* DARTs apart; and what the loader takes off the top of memory does not     *)
(* overlap and is what it writes into the tree.                              *)
EXTENDS BootSystem, SequenceTheorems, FiniteSetTheorems, WellFoundedInduction, TLAPS

Pcs == {"sptm", "entry", "other", "tramp", "loop", "ctor", "init", "cl4",
        "fault", "svc", "tag3"}

Hooks == [entry : BOOLEAN, tramp : BOOLEAN, x1 : {"zero", "desc"}, done : BOOLEAN]

Cpus == [pc : Pcs, g : BOOLEAN, x0 : {"zero", "handoff", "junk"},
         x1 : {"zero", "given", "desc", "junk"}, sp : {"zero", "scratch", "own"},
         x19 : {"zero", "handoff", "junk"}, x20 : {"zero", "given", "desc", "junk"},
         x21 : 1 .. Ctors + 1, tpidr : Int, tpidrro : Int]

Owns == [built : BOOLEAN, next : 1 .. Ctors + 1]

Calls == [by : {"tramp", "cl4"}, n : 1 .. Ctors]

Cl4TypeOK ==
    /\ hook \in Hooks
    /\ cpu \in Cpus
    /\ own \in Owns
    /\ asked \in [x1 : {"zero", "given"}, g : BOOLEAN]
    /\ called \in Seq(Calls)
    /\ env.ctors \in BOOLEAN
    /\ env.needs \in [1 .. Ctors -> SUBSET BaseServices]

\* x1 as CL4 has to see it.
OwedX1 == IF asked.x1 = "zero" THEN hook.x1 ELSE asked.x1

\* Nothing happens before the loader has put CL4 in place.
NotBefore ==
    /\ phase # "loaded" => ~hook.entry
    /\ ~hook.entry => /\ ~hook.tramp /\ ~hook.done /\ called = <<>> /\ cpu = Reset
                      /\ own = [built |-> FALSE, next |-> 1]
    /\ hook.tramp => scratch = Seed

\* The trampoline is in its pass over the constructors.
InTrampoline == cpu.pc \in {"tramp", "loop"} \/ (cpu.pc = "ctor" /\ ~own.built)

\* CL4, or SPTM around it, runs.
OutsideTrampoline ==
    cpu.pc \in {"sptm", "entry", "other", "init", "cl4"} \/ (cpu.pc = "ctor" /\ own.built)

\* The calls are the trampoline's, as many as its cursor has passed, and then
\* those of CL4, which come only after the whole of the trampoline's.
Counted ==
    /\ Len(called) = cpu.x21 + own.next - 2
    /\ \A i \in 1 .. Len(called) : called[i] = Turn(i)
    /\ hook.done => hook.tramp
    /\ ~hook.done => cpu.x21 = 1
    /\ ~own.built => own.next = 1
    /\ own.built /\ hook.tramp => hook.done /\ cpu.x21 = Ctors + 1

\* How far each pass is, by where the CPU is.
Passes ==
    /\ InTrampoline => hook.done /\ cpu.g
    /\ OutsideTrampoline /\ hook.done => cpu.x21 = Ctors + 1
    /\ cpu.pc \in {"tramp", "loop"} => ~own.built
    /\ cpu.pc = "tramp" => cpu.x21 = 1
    /\ cpu.pc = "ctor" => IF own.built THEN own.next > 1 ELSE cpu.x21 > 1
    /\ cpu.pc \in {"init", "cl4"} => own.built
    /\ cpu.pc = "cl4" => own.next = Ctors + 1
    /\ cpu.pc \in {"sptm", "entry", "other"} => own.next \in {1, Ctors + 1}
    /\ cpu.pc = "entry" /\ cpu.g /\ hook.tramp => hook.done

\* Which thread context is installed.
Threads ==
    /\ InTrampoline => cpu.tpidr = Ctx
    /\ OutsideTrampoline => cpu.tpidr = IF own.built THEN RealCtx ELSE 0
    /\ hook.done => cpu.tpidrro = ThreadRo

\* The arguments SPTM passed, wherever the trampoline has them.
Arguments ==
    /\ cpu.pc = "tramp" => cpu.x0 = "handoff" /\ cpu.x1 = OwedX1
    /\ InTrampoline /\ cpu.pc # "tramp" => cpu.x19 = "handoff" /\ cpu.x20 = OwedX1
    /\ cpu.pc = "entry" /\ cpu.g =>
          cpu.sp = "zero" /\ cpu.x0 = "handoff" /\ cpu.x1 = OwedX1

Cl4Inv ==
    /\ Cl4TypeOK
    /\ NotBefore
    /\ Counted
    /\ Passes
    /\ Threads
    /\ Arguments
    /\ OnlyUnseededFault

-----------------------------------------------------------------------------
LEMMA ResetTyped ==
    /\ Reset \in Cpus
    /\ Reset.pc = "sptm" /\ Reset.x21 = 1 /\ Reset.tpidr = 0
BY Cl4Assumption DEF Cpus, Reset, Pcs

(* The scratch page and CL4's context are at different, non-zero addresses. *)
LEMMA Addresses ==
    /\ Ctx = 513 /\ Regobj = 1025 /\ ListNode = 1057 /\ Cell8 = 1537 /\ ThreadRo = 1793
    /\ RealCtx = 32769 /\ SingletonObj = 32770
BY DEF Ctx, Regobj, ListNode, Cell8, ThreadRo, RealCtx, SingletonObj, PageEnd, Page

(* In the fake context CL4's walk finds the service that was seeded.        *)
LEMMA SeededFound ==
    ASSUME scratch = Seed, cpu.tpidr = Ctx
    PROVE  Found(<<2, 5>>)
<1>1. /\ At(Ctx + 8) = Cell8 /\ At(Ctx + 16) = Regobj /\ At(Regobj) = ListNode
      /\ At(ListNode + 8) = 2 /\ At(ListNode + 16) = 5 /\ At(ListNode + 24) = SingletonObj
    BY Addresses DEF At, Seed, Laid
<1>2. Ctx # RealCtx /\ Cell8 # 0 /\ ListNode # 0 /\ SingletonObj # 0
    BY Addresses
<1>3. ListNode \in {At(At(cpu.tpidr + 16)), At(At(At(cpu.tpidr + 16)))} \ {0}
    BY <1>1, <1>2
<1> QED BY <1>1, <1>2, <1>3 DEF Found

LEMMA Cl4InvInit == Init => Cl4Inv
<1> SUFFICES ASSUME Init PROVE Cl4Inv
    OBVIOUS
<1>1. PICK b \in Boots : env = b.env
    BY DEF Init
<1>2. /\ hook = [entry |-> FALSE, tramp |-> FALSE, x1 |-> "zero", done |-> FALSE]
      /\ scratch = <<>> /\ cpu = Reset /\ own = [built |-> FALSE, next |-> 1]
      /\ called = <<>> /\ asked = [x1 |-> "zero", g |-> FALSE]
    BY DEF Init, Cl4Init
<1>3. Cl4TypeOK
    BY <1>1, <1>2, ResetTyped, BootsAssumption, Cl4Assumption
       DEF Cl4TypeOK, Hooks, Owns, Calls
<1>4. NotBefore
    BY <1>2 DEF NotBefore
<1> QED BY <1>2, <1>3, <1>4, ResetTyped, Cl4Assumption
        DEF Cl4Inv, Counted, Passes, Threads, Arguments, OnlyUnseededFault,
            InTrampoline, OutsideTrampoline

(* The loader installs CL4 in a machine that is still at reset.             *)
LEMMA LoadKeepsInv == Cl4Inv /\ LoadKernel => Cl4Inv'
<1> SUFFICES ASSUME Cl4Inv, LoadKernel PROVE Cl4Inv'
    OBVIOUS
<1>1. /\ ~hook.entry /\ ~hook.tramp /\ ~hook.done /\ called = <<>> /\ cpu = Reset
      /\ own = [built |-> FALSE, next |-> 1]
    BY DEF LoadKernel, Cl4Inv, NotBefore
<1>2. /\ phase' = "loaded" /\ env' = env
      /\ UNCHANGED <<cpu, own, called, asked>>
    BY DEF LoadKernel, InstallCl4, cl4vars
<1>3. hook' \in Hooks /\ ~hook'.done /\ (hook'.tramp => scratch' = Seed)
      /\ (~hook'.entry => ~hook'.tramp)
    <2>1. CASE InstallCl4(env)
        BY <2>1 DEF InstallCl4, Hooks, Cl4Inv, Cl4TypeOK
    <2>2. CASE UNCHANGED cl4vars
        BY <1>1, <2>2 DEF cl4vars, Cl4Inv, Cl4TypeOK
    <2> QED BY <2>1, <2>2 DEF LoadKernel
<1>4. Cl4TypeOK'
    BY <1>2, <1>3 DEF Cl4Inv, Cl4TypeOK
<1>5. NotBefore'
    BY <1>1, <1>2, <1>3 DEF NotBefore
<1> QED BY <1>1, <1>2, <1>3, <1>4, <1>5, ResetTyped, Cl4Assumption
        DEF Cl4Inv, Counted, Passes, Threads, Arguments, OnlyUnseededFault,
            InTrampoline, OutsideTrampoline

(* What a step that leaves CL4's part of the machine alone preserves.       *)
LEMMA IdleKeepsInv ==
    ASSUME Cl4Inv, UNCHANGED cl4vars, env' = env, phase' # "loaded" \/ phase' = phase,
           phase = "loaded" => phase' = "loaded"
    PROVE  Cl4Inv'
<1>1. UNCHANGED <<hook, scratch, cpu, own, called, asked>>
    BY DEF cl4vars
<1> QED BY <1>1 DEF Cl4Inv, Cl4TypeOK, NotBefore, Counted, Turn, Offset, Passes, Threads,
        Arguments, OnlyUnseededFault, InTrampoline, OutsideTrampoline, OwedX1, Found, At

-----------------------------------------------------------------------------
\* What no step of the CPU changes.
Running == phase = "loaded" /\ UNCHANGED bootvars

LEMMA RunningKeeps == Running => phase' = "loaded" /\ env' = env
BY DEF Running, bootvars

(* Where CL4 or SPTM runs, the trampoline's pass is over or has not begun,  *)
(* and the thread has CL4's context or none.                                *)
LEMMA Outside ==
    ASSUME Cl4Inv, OutsideTrampoline
    PROVE  /\ hook.done => cpu.x21 = Ctors + 1
           /\ cpu.tpidr = IF own.built THEN RealCtx ELSE 0
           /\ (hook.tramp => hook.done) => cpu.x21 - 1 = Offset
<1>1. hook.done => cpu.x21 = Ctors + 1
    BY DEF Cl4Inv, Passes
<1>2. cpu.tpidr = IF own.built THEN RealCtx ELSE 0
    BY DEF Cl4Inv, Threads
<1>3. (hook.done => hook.tramp) /\ (~hook.done => cpu.x21 = 1)
    BY DEF Cl4Inv, Counted
<1> QED BY <1>1, <1>2, <1>3, Cl4Assumption DEF Offset

(* One step per action of the CPU.                                          *)
LEMMA EretKeepsInv ==
    ASSUME Cl4Inv, Running,
           NEW pc \in {"entry", "other"}, NEW g \in BOOLEAN, NEW x1 \in {"zero", "given"},
           ExceptionReturn(pc, g, x1)
    PROVE  Cl4Inv'
<1> DEFINE seen == IF pc = "entry" /\ g /\ x1 = "zero" THEN hook.x1 ELSE x1
           arrive == [cpu EXCEPT !.pc = pc, !.g = g, !.x0 = "handoff", !.sp = "zero",
                                 !.x1 = seen]
<1>1. /\ hook.entry /\ cpu.pc = "sptm" /\ asked' = [x1 |-> x1, g |-> g]
      /\ UNCHANGED <<scratch, own, called>>
    BY DEF ExceptionReturn
<1>2. cpu \in Cpus /\ hook \in Hooks /\ seen \in {"zero", "given", "desc", "junk"}
    BY DEF Cl4Inv, Cl4TypeOK, Hooks
<1> HIDE DEF seen
<1>3. /\ arrive \in Cpus /\ arrive.pc = pc /\ arrive.g = g /\ arrive.x0 = "handoff"
      /\ arrive.sp = "zero" /\ arrive.x1 = seen /\ arrive.x21 = cpu.x21
      /\ arrive.tpidr = cpu.tpidr /\ arrive.tpidrro = cpu.tpidrro
    <2> DEFINE c == [cpu EXCEPT !.pc = pc, !.g = g]
    <2>1. c \in Cpus
        BY <1>2 DEF Cpus, Pcs
    <2>2. arrive = [c EXCEPT !.x0 = "handoff", !.sp = "zero", !.x1 = seen]
        OBVIOUS
    <2>3. arrive \in Cpus
        <3> HIDE DEF c, arrive
        <3> QED BY <1>2, <2>1, <2>2, ZenonT(60) DEF Cpus
    <2> QED BY <1>2, <2>3 DEF Cpus
<1>4. /\ own.next \in {1, Ctors + 1}
      /\ hook.done => cpu.x21 = Ctors + 1
      /\ cpu.tpidr = IF own.built THEN RealCtx ELSE 0
    <2>1. OutsideTrampoline
        BY <1>1 DEF OutsideTrampoline
    <2>2. own.next \in {1, Ctors + 1}
        BY <1>1 DEF Cl4Inv, Passes
    <2> QED BY <2>1, <2>2, Outside
<1>5. CASE Divert(pc, g)
    <2>1. /\ cpu' = [arrive EXCEPT !.pc = "tramp", !.tpidr = Ctx, !.tpidrro = ThreadRo]
          /\ hook' = [hook EXCEPT !.done = TRUE]
        BY <1>5 DEF ExceptionReturn, seen
    <2>2. hook.tramp /\ ~hook.done /\ pc = "entry" /\ g
        BY <1>5 DEF Divert
    <2> HIDE DEF arrive
    <2>3. /\ cpu' \in Cpus /\ cpu'.pc = "tramp" /\ cpu'.g = g /\ cpu'.x0 = "handoff"
          /\ cpu'.x1 = seen /\ cpu'.x21 = cpu.x21 /\ cpu'.tpidr = Ctx
          /\ cpu'.tpidrro = ThreadRo
        <3>1. Ctx \in Int /\ ThreadRo \in Int
            BY Addresses
        <3>2. cpu' \in Cpus
            BY <1>3, <2>1, <3>1, ZenonT(60) DEF Cpus, Pcs
        <3> QED BY <1>3, <2>1, <3>2 DEF Cpus
    <2>4. hook' \in Hooks /\ hook'.done /\ hook'.tramp /\ hook'.entry /\ hook'.x1 = hook.x1
        BY <1>1, <1>2, <2>1, <2>2 DEF Hooks
    <2>5. cpu.x21 = 1 /\ ~own.built /\ own.next = 1
        BY <2>2 DEF Cl4Inv, Counted
    <2>6. seen = OwedX1'
        BY <1>1, <2>2, <2>4 DEF OwedX1, seen
    <2>7. Cl4TypeOK' /\ NotBefore'
        BY <1>1, <2>2, <2>3, <2>4, RunningKeeps DEF Cl4Inv, Cl4TypeOK, NotBefore
    <2>8. Counted'
        BY <1>1, <2>2, <2>3, <2>4, <2>5 DEF Cl4Inv, Counted, Turn, Offset
    <2> QED BY <1>1, <2>2, <2>3, <2>4, <2>5, <2>6, <2>7, <2>8
            DEF Cl4Inv, Passes, Threads, Arguments, OnlyUnseededFault, InTrampoline,
                OutsideTrampoline
<1>6. CASE ~Divert(pc, g)
    <2>1. cpu' = arrive /\ hook' = hook
        BY <1>6 DEF ExceptionReturn, seen
    <2>2. pc = "entry" /\ g /\ hook.tramp => hook.done
        BY <1>6 DEF Divert
    <2> HIDE DEF arrive
    <2>3. pc = "entry" /\ g => seen = OwedX1'
        BY <1>1, <2>1 DEF OwedX1, seen
    <2>4. Cl4TypeOK' /\ NotBefore'
        BY <1>1, <1>3, <2>1, RunningKeeps DEF Cl4Inv, Cl4TypeOK, NotBefore
    <2>5. Counted'
        BY <1>1, <1>3, <2>1 DEF Cl4Inv, Counted, Turn, Offset
    <2>6. Passes' /\ Threads'
        BY <1>1, <1>3, <1>4, <2>1, <2>2
           DEF Cl4Inv, Passes, Threads, InTrampoline, OutsideTrampoline
    <2> QED BY <1>1, <1>3, <2>1, <2>3, <2>4, <2>5, <2>6
            DEF Cl4Inv, Arguments, OnlyUnseededFault, InTrampoline
<1> QED BY <1>5, <1>6

LEMMA PrologueKeepsInv == Cl4Inv /\ Running /\ TrampolinePrologue => Cl4Inv'
<1> SUFFICES ASSUME Cl4Inv, Running, TrampolinePrologue PROVE Cl4Inv'
    OBVIOUS
<1>1. /\ cpu.pc = "tramp" /\ UNCHANGED <<hook, scratch, own, called, asked>>
      /\ cpu' = [cpu EXCEPT !.pc = "loop", !.x19 = cpu.x0, !.x20 = cpu.x1,
                            !.x21 = 1, !.sp = "scratch"]
    BY DEF TrampolinePrologue
<1>2. cpu \in Cpus
    BY DEF Cl4Inv, Cl4TypeOK
<1>3. /\ cpu' \in Cpus /\ cpu'.pc = "loop" /\ cpu'.g = cpu.g /\ cpu'.x19 = cpu.x0
      /\ cpu'.x20 = cpu.x1 /\ cpu'.x21 = 1 /\ cpu'.tpidr = cpu.tpidr
      /\ cpu'.tpidrro = cpu.tpidrro
    <2>1. /\ 1 \in 1 .. Ctors + 1 /\ cpu.x0 \in {"zero", "handoff", "junk"}
          /\ cpu.x1 \in {"zero", "given", "desc", "junk"}
        BY <1>2, Cl4Assumption DEF Cpus
    <2>2. cpu' \in Cpus
        BY <1>1, <1>2, <2>1, ZenonT(60) DEF Cpus, Pcs
    <2> QED BY <1>1, <1>2, <2>2 DEF Cpus
<1>4. /\ hook.done /\ cpu.g /\ cpu.tpidr = Ctx /\ cpu.x0 = "handoff" /\ cpu.x1 = OwedX1
    BY <1>1 DEF Cl4Inv, Passes, Threads, Arguments, InTrampoline
<1>5. Cl4TypeOK' /\ NotBefore'
    BY <1>1, <1>3, <1>4, RunningKeeps DEF Cl4Inv, Cl4TypeOK, NotBefore, Reset
<1> QED BY <1>1, <1>3, <1>4, <1>5
        DEF Cl4Inv, Counted, Turn, Offset, Passes, Threads, Arguments, OwedX1,
            OnlyUnseededFault, InTrampoline, OutsideTrampoline

LEMMA CallKeepsInv == Cl4Inv /\ Running /\ TrampolineCall => Cl4Inv'
<1> SUFFICES ASSUME Cl4Inv, Running, TrampolineCall PROVE Cl4Inv'
    OBVIOUS
<1>1. /\ cpu.pc = "loop" /\ cpu.x21 <= Ctors /\ UNCHANGED <<hook, scratch, own, asked>>
      /\ cpu' = [cpu EXCEPT !.pc = "ctor", !.x21 = cpu.x21 + 1]
      /\ called' = Append(called, [by |-> "tramp", n |-> cpu.x21])
    BY DEF TrampolineCall
<1>2. cpu \in Cpus /\ called \in Seq(Calls) /\ cpu.x21 \in 1 .. Ctors
    BY <1>1, Cl4Assumption DEF Cl4Inv, Cl4TypeOK, Cpus
<1>3. /\ cpu' \in Cpus /\ cpu'.pc = "ctor" /\ cpu'.g = cpu.g /\ cpu'.x19 = cpu.x19
      /\ cpu'.x20 = cpu.x20 /\ cpu'.x21 = cpu.x21 + 1 /\ cpu'.tpidr = cpu.tpidr
      /\ cpu'.tpidrro = cpu.tpidrro
    <2>1. cpu.x21 + 1 \in 1 .. Ctors + 1
        BY <1>2, Cl4Assumption
    <2>2. cpu' \in Cpus
        BY <1>1, <1>2, <2>1, ZenonT(60) DEF Cpus, Pcs
    <2> QED BY <1>1, <1>2, <2>2 DEF Cpus
<1>4. /\ hook.done /\ hook.tramp /\ cpu.g /\ ~own.built /\ own.next = 1 /\ cpu.tpidr = Ctx
      /\ cpu.x19 = "handoff" /\ cpu.x20 = OwedX1 /\ Len(called) = cpu.x21 - 1
    BY <1>1, <1>2 DEF Cl4Inv, Counted, Passes, Threads, Arguments, InTrampoline
<1>5. called' \in Seq(Calls) /\ Len(called') = cpu.x21
    BY <1>1, <1>2, <1>4 DEF Calls
<1>6. Cl4TypeOK' /\ NotBefore'
    BY <1>1, <1>3, <1>4, <1>5, RunningKeeps DEF Cl4Inv, Cl4TypeOK, NotBefore
<1>7. Counted'
    <2>1. ASSUME NEW i \in 1 .. Len(called')
          PROVE  called'[i] = Turn(i)'
        <3>1. CASE i = cpu.x21
            BY <1>1, <1>2, <1>4, <3>1 DEF Turn, Offset
        <3>2. CASE i # cpu.x21
            <4>1. i \in 1 .. Len(called) /\ called'[i] = called[i]
                BY <1>1, <1>2, <1>4, <1>5, <3>2
            <4> QED BY <1>1, <4>1 DEF Cl4Inv, Counted, Turn, Offset
        <3> QED BY <3>1, <3>2
    <2> QED BY <1>1, <1>2, <1>3, <1>4, <1>5, <2>1 DEF Counted
<1> QED BY <1>1, <1>2, <1>3, <1>4, <1>6, <1>7
        DEF Cl4Inv, Passes, Threads, Arguments, OwedX1, OnlyUnseededFault,
            InTrampoline, OutsideTrampoline

(* The constructor that runs is the trampoline's, or CL4's, by whether CL4  *)
(* has built its context.                                                   *)
LEMMA LastCall ==
    ASSUME Cl4Inv, cpu.pc = "ctor"
    PROVE  LET c == called[Len(called)]
           IN  /\ c \in Calls
               /\ c.by = IF own.built THEN "cl4" ELSE "tramp"
<1> DEFINE n == Len(called)
<1>1. /\ n = cpu.x21 + own.next - 2 /\ cpu.x21 \in 1 .. Ctors + 1
      /\ own.next \in 1 .. Ctors + 1 /\ called \in Seq(Calls)
    BY DEF Cl4Inv, Cl4TypeOK, Cpus, Owns, Counted
<1>2. n \in 1 .. Len(called) /\ called[n] = Turn(n)
    BY <1>1, Cl4Assumption DEF Cl4Inv, Counted, Passes
<1>3. called[n] \in Calls
    BY <1>1, <1>2, ElementOfSeq
<1>4. CASE own.built
    <2>1. own.next > 1 /\ Offset = cpu.x21 - 1
        BY <1>1, <1>4, Cl4Assumption DEF Cl4Inv, Counted, Passes, Offset
    <2>2. n > Offset
        BY <1>1, <2>1, Cl4Assumption
    <2> QED BY <1>2, <1>3, <1>4, <2>1, <2>2, Cl4Assumption DEF Turn
<1>5. CASE ~own.built
    <2>1. hook.tramp /\ own.next = 1
        BY <1>5 DEF Cl4Inv, Counted, Passes, InTrampoline
    <2>2. n <= Offset
        BY <1>1, <2>1, Cl4Assumption DEF Offset
    <2> QED BY <1>2, <1>3, <1>5, <2>2 DEF Turn
<1> QED BY <1>4, <1>5

(* A look-up that fails is the trampoline's, of a service not seeded.       *)
LEMMA OnlyUnseededMissed ==
    ASSUME Cl4Inv, cpu.pc = "ctor", NEW key \in env.needs[called[Len(called)].n], ~Found(key)
    PROVE  ~own.built /\ key # <<2, 5>>
<1>1. called[Len(called)].n \in 1 .. Ctors
    BY LastCall DEF Calls
<1>2. key \in BaseServices
    BY <1>1 DEF Cl4Inv, Cl4TypeOK
<1>3. ~own.built
    <2>1. own.built => cpu.tpidr = RealCtx
        BY DEF Cl4Inv, Threads, OutsideTrampoline
    <2> QED BY <1>2, <2>1 DEF Found
<1>4. cpu.tpidr = Ctx /\ scratch = Seed
    BY <1>3 DEF Cl4Inv, Counted, Passes, Threads, NotBefore, InTrampoline
<1> QED BY <1>3, <1>4, SeededFound

LEMMA ConstructorKeepsInv == Cl4Inv /\ Running /\ Constructor(env.needs) => Cl4Inv'
<1> SUFFICES ASSUME Cl4Inv, Running, Constructor(env.needs) PROVE Cl4Inv'
    OBVIOUS
<1> DEFINE c == called[Len(called)]
<1>1. cpu.pc = "ctor" /\ UNCHANGED <<hook, scratch, own, called, asked>>
    BY DEF Constructor
<1>2. c.by = IF own.built THEN "cl4" ELSE "tramp"
    BY <1>1, LastCall
<1>3. cpu \in Cpus /\ hook.entry
    BY <1>1, ResetTyped DEF Cl4Inv, Cl4TypeOK, NotBefore
<1>4. env' = env /\ phase' = "loaded"
    BY RunningKeeps
<1>5. CASE \A key \in env.needs[c.n] : Found(key)
    <2>1. cpu' = [cpu EXCEPT !.pc = IF c.by = "tramp" THEN "loop" ELSE "init",
                             !.x0 = "junk", !.x1 = "junk"]
        BY <1>5 DEF Constructor
    <2>2. /\ cpu' \in Cpus /\ cpu'.pc = IF own.built THEN "init" ELSE "loop"
          /\ cpu'.g = cpu.g /\ cpu'.x19 = cpu.x19 /\ cpu'.x20 = cpu.x20
          /\ cpu'.x21 = cpu.x21 /\ cpu'.tpidr = cpu.tpidr /\ cpu'.tpidrro = cpu.tpidrro
        BY <1>2, <1>3, <2>1 DEF Cpus, Pcs
    <2>3. Cl4TypeOK' /\ NotBefore'
        BY <1>1, <1>3, <1>4, <2>2 DEF Cl4Inv, Cl4TypeOK, NotBefore
    <2> QED BY <1>1, <1>4, <2>2, <2>3
            DEF Cl4Inv, Counted, Turn, Offset, Passes, Threads, Arguments, OwedX1,
                OnlyUnseededFault, InTrampoline, OutsideTrampoline
<1>6. CASE ~ \A key \in env.needs[c.n] : Found(key)
    <2>1. cpu' = [cpu EXCEPT !.pc = "fault"]
        BY <1>6 DEF Constructor
    <2>2. /\ cpu' \in Cpus /\ cpu'.pc = "fault" /\ cpu'.x21 = cpu.x21
          /\ cpu'.tpidrro = cpu.tpidrro
        BY <1>3, <2>1 DEF Cpus, Pcs
    <2>3. PICK key \in env.needs[c.n] : ~Found(key)
        BY <1>6
    <2>4. ~own.built /\ key # <<2, 5>>
        BY <1>1, <2>3, OnlyUnseededMissed
    <2>5. OnlyUnseededFault'
        BY <1>1, <1>2, <1>4, <2>3, <2>4 DEF OnlyUnseededFault
    <2>6. Cl4TypeOK' /\ NotBefore'
        BY <1>1, <1>3, <1>4, <2>2 DEF Cl4Inv, Cl4TypeOK, NotBefore
    <2> QED BY <1>1, <2>2, <2>5, <2>6
            DEF Cl4Inv, Counted, Turn, Offset, Passes, Threads, Arguments,
                InTrampoline, OutsideTrampoline
<1> QED BY <1>5, <1>6

LEMMA LogsKeepsInv == Cl4Inv /\ Running /\ ConstructorLogs => Cl4Inv'
<1> SUFFICES ASSUME Cl4Inv, Running, ConstructorLogs PROVE Cl4Inv'
    OBVIOUS
<1>1. /\ cpu.pc = "ctor" /\ UNCHANGED <<hook, scratch, own, called, asked>>
      /\ cpu' = [cpu EXCEPT !.pc = IF cpu.tpidrro = 0 THEN "fault" ELSE "svc"]
    BY DEF ConstructorLogs
<1>2. cpu \in Cpus /\ hook.entry
    BY <1>1, ResetTyped DEF Cl4Inv, Cl4TypeOK, NotBefore
<1>3. /\ cpu' \in Cpus /\ cpu'.pc = (IF cpu.tpidrro = 0 THEN "fault" ELSE "svc")
      /\ cpu'.x21 = cpu.x21 /\ cpu'.tpidrro = cpu.tpidrro
    BY <1>1, <1>2 DEF Cpus, Pcs
<1>4. env' = env /\ phase' = "loaded"
    BY RunningKeeps
<1>5. cpu.tpidrro = 0 => ~hook.done
    BY Addresses DEF Cl4Inv, Threads
<1>6. ~hook.done => own.built /\ ~hook.tramp
    BY <1>1 DEF Cl4Inv, Counted, Passes, InTrampoline
<1>7. called[Len(called)].by = IF own.built THEN "cl4" ELSE "tramp"
    BY <1>1, LastCall
<1>8. OnlyUnseededFault'
    BY <1>1, <1>3, <1>5, <1>6, <1>7 DEF OnlyUnseededFault
<1>9. Cl4TypeOK' /\ NotBefore'
    BY <1>1, <1>2, <1>3, <1>4 DEF Cl4Inv, Cl4TypeOK, NotBefore
<1> QED BY <1>1, <1>3, <1>8, <1>9
        DEF Cl4Inv, Counted, Turn, Offset, Passes, Threads, Arguments,
            InTrampoline, OutsideTrampoline

LEMMA EpilogueKeepsInv == Cl4Inv /\ Running /\ TrampolineEpilogue => Cl4Inv'
<1> SUFFICES ASSUME Cl4Inv, Running, TrampolineEpilogue PROVE Cl4Inv'
    OBVIOUS
<1>1. /\ cpu.pc = "loop" /\ cpu.x21 > Ctors
      /\ UNCHANGED <<hook, scratch, own, called, asked>>
      /\ cpu' = [cpu EXCEPT !.pc = "entry", !.x0 = cpu.x19, !.x1 = cpu.x20,
                            !.sp = "zero", !.tpidr = 0]
    BY DEF TrampolineEpilogue
<1>2. cpu \in Cpus /\ cpu.x21 = Ctors + 1
    BY <1>1, Cl4Assumption DEF Cl4Inv, Cl4TypeOK, Cpus
<1>3. /\ cpu' \in Cpus /\ cpu'.pc = "entry" /\ cpu'.g = cpu.g /\ cpu'.x0 = cpu.x19
      /\ cpu'.x1 = cpu.x20 /\ cpu'.sp = "zero" /\ cpu'.x21 = cpu.x21 /\ cpu'.tpidr = 0
      /\ cpu'.tpidrro = cpu.tpidrro
    <2>1. /\ 0 \in Int /\ cpu.x19 \in {"zero", "handoff", "junk"}
          /\ cpu.x20 \in {"zero", "given", "desc", "junk"}
        BY <1>2 DEF Cpus
    <2>2. cpu' \in Cpus
        BY <1>1, <1>2, <2>1, ZenonT(60) DEF Cpus, Pcs
    <2> QED BY <1>1, <1>2, <2>2 DEF Cpus
<1>4. /\ hook.done /\ hook.tramp /\ cpu.g /\ ~own.built /\ own.next = 1
      /\ cpu.x19 = "handoff" /\ cpu.x20 = OwedX1
    BY <1>1 DEF Cl4Inv, Counted, Passes, Arguments, InTrampoline
<1>5. Cl4TypeOK' /\ NotBefore'
    BY <1>1, <1>3, <1>4, RunningKeeps DEF Cl4Inv, Cl4TypeOK, NotBefore
<1> QED BY <1>1, <1>2, <1>3, <1>4, <1>5
        DEF Cl4Inv, Counted, Turn, Offset, Passes, Threads, Arguments, OwedX1,
            OnlyUnseededFault, InTrampoline, OutsideTrampoline

LEMMA SetupKeepsInv == Cl4Inv /\ Running /\ DomainSetup => Cl4Inv'
<1> SUFFICES ASSUME Cl4Inv, Running, DomainSetup PROVE Cl4Inv'
    OBVIOUS
<1>1. cpu.pc = "entry" /\ cpu.g /\ UNCHANGED <<hook, scratch, called, asked>>
    BY DEF DomainSetup
<1>2. cpu \in Cpus /\ own \in Owns /\ hook.entry
    BY <1>1, ResetTyped DEF Cl4Inv, Cl4TypeOK, NotBefore
<1>3. /\ hook.tramp => hook.done
      /\ hook.done => cpu.x21 = Ctors + 1
      /\ cpu.tpidr = IF own.built THEN RealCtx ELSE 0
    <2>1. OutsideTrampoline
        BY <1>1 DEF OutsideTrampoline
    <2>2. hook.tramp => hook.done
        BY <1>1 DEF Cl4Inv, Passes
    <2> QED BY <2>1, <2>2, Outside
<1>4. env' = env /\ phase' = "loaded"
    BY RunningKeeps
<1>5. CASE cpu' = [cpu EXCEPT !.pc = "tag3"] /\ own' = own
    <2>1. cpu' \in Cpus /\ cpu'.pc = "tag3" /\ cpu'.x21 = cpu.x21
          /\ cpu'.tpidrro = cpu.tpidrro
        BY <1>2, <1>5 DEF Cpus, Pcs
    <2>2. Cl4TypeOK' /\ NotBefore'
        BY <1>1, <1>2, <1>4, <1>5, <2>1 DEF Cl4Inv, Cl4TypeOK, NotBefore
    <2> QED BY <1>1, <1>5, <2>1, <2>2
            DEF Cl4Inv, Counted, Turn, Offset, Passes, Threads, Arguments,
                OnlyUnseededFault, InTrampoline, OutsideTrampoline
<1>6. CASE cpu.tpidr = 0 /\ cpu' = [cpu EXCEPT !.pc = "init", !.tpidr = RealCtx, !.sp = "own"]
           /\ own' = [own EXCEPT !.built = TRUE]
    <2>1. /\ cpu' \in Cpus /\ cpu'.pc = "init" /\ cpu'.x21 = cpu.x21
          /\ cpu'.tpidr = RealCtx /\ cpu'.tpidrro = cpu.tpidrro
        <3>1. RealCtx \in Int
            BY Addresses
        <3>2. cpu' \in Cpus
            BY <1>2, <1>6, <3>1, ZenonT(60) DEF Cpus, Pcs
        <3> QED BY <1>2, <1>6, <3>2 DEF Cpus
    <2>2. own' \in Owns /\ own'.built /\ own'.next = own.next
        BY <1>2, <1>6 DEF Owns
    <2>3. Cl4TypeOK' /\ NotBefore'
        BY <1>1, <1>2, <1>4, <2>1, <2>2 DEF Cl4Inv, Cl4TypeOK, NotBefore
    <2> QED BY <1>1, <1>3, <2>1, <2>2, <2>3
            DEF Cl4Inv, Counted, Turn, Offset, Passes, Threads, Arguments,
                OnlyUnseededFault, InTrampoline, OutsideTrampoline
<1>7. CASE cpu.tpidr # 0 /\ cpu' = [cpu EXCEPT !.pc = "init", !.sp = "own"] /\ own' = own
    <2>1. /\ cpu' \in Cpus /\ cpu'.pc = "init" /\ cpu'.x21 = cpu.x21
          /\ cpu'.tpidr = cpu.tpidr /\ cpu'.tpidrro = cpu.tpidrro
        BY <1>2, <1>7 DEF Cpus, Pcs
    <2>2. own.built
        BY <1>3, <1>7
    <2>3. Cl4TypeOK' /\ NotBefore'
        BY <1>1, <1>2, <1>4, <1>7, <2>1 DEF Cl4Inv, Cl4TypeOK, NotBefore
    <2> QED BY <1>1, <1>3, <1>7, <2>1, <2>2, <2>3
            DEF Cl4Inv, Counted, Turn, Offset, Passes, Threads, Arguments,
                OnlyUnseededFault, InTrampoline, OutsideTrampoline
<1> QED BY <1>5, <1>6, <1>7 DEF DomainSetup

LEMMA OwnCallKeepsInv == Cl4Inv /\ Running /\ CallOwnCtor => Cl4Inv'
<1> SUFFICES ASSUME Cl4Inv, Running, CallOwnCtor PROVE Cl4Inv'
    OBVIOUS
<1>1. /\ cpu.pc = "init" /\ own.next <= Ctors /\ UNCHANGED <<hook, scratch, asked>>
      /\ cpu' = [cpu EXCEPT !.pc = "ctor"]
      /\ own' = [own EXCEPT !.next = own.next + 1]
      /\ called' = Append(called, [by |-> "cl4", n |-> own.next])
    BY DEF CallOwnCtor
<1>2. /\ cpu \in Cpus /\ own \in Owns /\ called \in Seq(Calls) /\ own.next \in 1 .. Ctors
      /\ cpu.x21 \in 1 .. Ctors + 1
    BY <1>1, Cl4Assumption DEF Cl4Inv, Cl4TypeOK, Cpus, Owns
<1>3. /\ cpu' \in Cpus /\ cpu'.pc = "ctor" /\ cpu'.g = cpu.g /\ cpu'.x21 = cpu.x21
      /\ cpu'.tpidr = cpu.tpidr /\ cpu'.tpidrro = cpu.tpidrro
    BY <1>1, <1>2 DEF Cpus, Pcs
<1>4. own' \in Owns /\ own'.built = own.built /\ own'.next = own.next + 1
    <2>1. own.next + 1 \in 1 .. Ctors + 1
        BY <1>2, Cl4Assumption
    <2> QED BY <1>1, <1>2, <2>1 DEF Owns
<1>5. /\ own.built /\ Len(called) = Offset + own.next - 1 /\ hook.entry
      /\ (hook.tramp => hook.done /\ cpu.x21 = Ctors + 1)
      /\ cpu.tpidr = RealCtx
    <2>1. OutsideTrampoline
        BY <1>1 DEF OutsideTrampoline
    <2>2. own.built
        BY <1>1 DEF Cl4Inv, Passes
    <2>3. /\ hook.tramp => hook.done /\ cpu.x21 = Ctors + 1
          /\ Len(called) = cpu.x21 + own.next - 2
        BY <2>2 DEF Cl4Inv, Counted
    <2>4. cpu.x21 - 1 = Offset /\ cpu.tpidr = RealCtx
        BY <2>1, <2>2, <2>3, Outside
    <2>5. hook.entry
        BY <1>1, ResetTyped DEF Cl4Inv, NotBefore
    <2> QED BY <1>2, <2>2, <2>3, <2>4, <2>5
<1>6. Offset \in Nat /\ Offset' = Offset
    BY <1>1, Cl4Assumption DEF Offset
<1>7. called' \in Seq(Calls) /\ Len(called') = Len(called) + 1
    BY <1>1, <1>2 DEF Calls
<1>8. Cl4TypeOK' /\ NotBefore'
    BY <1>1, <1>3, <1>4, <1>5, <1>7, RunningKeeps DEF Cl4Inv, Cl4TypeOK, NotBefore
<1>9. Counted'
    <2>1. ASSUME NEW i \in 1 .. Len(called')
          PROVE  called'[i] = Turn(i)'
        <3>1. CASE i = Len(called) + 1
            <4>1. i > Offset /\ i - Offset = own.next
                BY <1>2, <1>5, <1>6, <3>1
            <4> QED BY <1>1, <1>2, <1>6, <3>1, <4>1 DEF Turn
        <3>2. CASE i # Len(called) + 1
            <4>1. i \in 1 .. Len(called) /\ called'[i] = called[i]
                BY <1>1, <1>2, <1>7, <3>2
            <4> QED BY <1>6, <4>1 DEF Cl4Inv, Counted, Turn
        <3> QED BY <3>1, <3>2
    <2>2. Len(called') = cpu'.x21 + own'.next - 2
        <3>1. Len(called) = cpu.x21 + own.next - 2
            BY DEF Cl4Inv, Counted
        <3> QED BY <1>2, <1>3, <1>4, <1>7, <3>1, SMTT(60)
    <2> QED BY <1>1, <1>3, <1>4, <1>5, <2>1, <2>2 DEF Cl4Inv, Counted
<1> QED BY <1>1, <1>2, <1>3, <1>4, <1>5, <1>8, <1>9
        DEF Cl4Inv, Passes, Threads, Arguments, OnlyUnseededFault, InTrampoline,
            OutsideTrampoline

LEMMA FinishKeepsInv == Cl4Inv /\ Running /\ FinishInit => Cl4Inv'
<1> SUFFICES ASSUME Cl4Inv, Running, FinishInit PROVE Cl4Inv'
    OBVIOUS
<1>1. /\ cpu.pc = "init" /\ own.next > Ctors
      /\ UNCHANGED <<hook, scratch, own, called, asked>>
      /\ cpu' = [cpu EXCEPT !.pc = "cl4"]
    BY DEF FinishInit
<1>2. cpu \in Cpus /\ own.next = Ctors + 1 /\ hook.entry
    BY <1>1, ResetTyped, Cl4Assumption DEF Cl4Inv, Cl4TypeOK, Owns, NotBefore
<1>3. /\ cpu' \in Cpus /\ cpu'.pc = "cl4" /\ cpu'.x21 = cpu.x21
      /\ cpu'.tpidr = cpu.tpidr /\ cpu'.tpidrro = cpu.tpidrro
    BY <1>1, <1>2 DEF Cpus, Pcs
<1>4. Cl4TypeOK' /\ NotBefore'
    BY <1>1, <1>2, <1>3, RunningKeeps DEF Cl4Inv, Cl4TypeOK, NotBefore
<1> QED BY <1>1, <1>2, <1>3, <1>4
        DEF Cl4Inv, Counted, Turn, Offset, Passes, Threads, Arguments,
            OnlyUnseededFault, InTrampoline, OutsideTrampoline

LEMMA BackKeepsInv == Cl4Inv /\ Running /\ BackToSptm => Cl4Inv'
<1> SUFFICES ASSUME Cl4Inv, Running, BackToSptm PROVE Cl4Inv'
    OBVIOUS
<1>1. /\ cpu.pc \in {"entry", "other", "cl4"}
      /\ UNCHANGED <<hook, scratch, own, called, asked>>
      /\ cpu' = [cpu EXCEPT !.pc = "sptm"]
    BY DEF BackToSptm
<1>2. cpu \in Cpus /\ hook.entry
    BY <1>1, ResetTyped DEF Cl4Inv, Cl4TypeOK, NotBefore
<1>3. /\ cpu' \in Cpus /\ cpu'.pc = "sptm" /\ cpu'.x21 = cpu.x21
      /\ cpu'.tpidr = cpu.tpidr /\ cpu'.tpidrro = cpu.tpidrro
    BY <1>1, <1>2 DEF Cpus, Pcs
<1>4. Cl4TypeOK' /\ NotBefore'
    BY <1>1, <1>2, <1>3, RunningKeeps DEF Cl4Inv, Cl4TypeOK, NotBefore
<1> QED BY <1>1, <1>3, <1>4
        DEF Cl4Inv, Counted, Turn, Offset, Passes, Threads, Arguments,
            OnlyUnseededFault, InTrampoline, OutsideTrampoline

LEMMA Cl4InvStep == Cl4Inv /\ [Next]_vars => Cl4Inv'
<1> SUFFICES ASSUME Cl4Inv, [Next]_vars PROVE Cl4Inv'
    OBVIOUS
<1>1. CASE FixupTree
    BY <1>1, IdleKeepsInv DEF FixupTree
<1>2. CASE RebaseCl4
    BY <1>2, IdleKeepsInv DEF RebaseCl4, bootvars
<1>3. CASE LoadKernel
    BY <1>3, LoadKeepsInv
<1>4. CASE RunCl4
    <2>1. Running /\ Cl4Next(env.needs)
        BY <1>4 DEF RunCl4, Running
    <2> QED BY <2>1, EretKeepsInv, PrologueKeepsInv, CallKeepsInv, ConstructorKeepsInv,
            LogsKeepsInv, EpilogueKeepsInv, SetupKeepsInv, OwnCallKeepsInv,
            FinishKeepsInv, BackKeepsInv DEF Cl4Next
<1>5. CASE UNCHANGED vars
    BY <1>5, IdleKeepsInv DEF vars, bootvars
<1> QED BY <1>1, <1>2, <1>3, <1>4, <1>5 DEF Next

-----------------------------------------------------------------------------
(* A guarded return reaches CL4's entry with SP zero, SPTM's hand-off, the  *)
(* descriptor it passed or the synthesized one, and a thread register that  *)
(* holds nothing or CL4's own context, trampoline or not.                   *)
THEOREM EntryCorrect == Spec => []EntryAbi
<1>1. Cl4Inv => EntryAbi
    <2> SUFFICES ASSUME Cl4Inv, cpu.pc = "entry", cpu.g PROVE EntryAbi
        BY DEF EntryAbi
    <2>1. OutsideTrampoline
        BY DEF OutsideTrampoline
    <2>2. cpu.tpidr = IF own.built THEN RealCtx ELSE 0
        BY <2>1, Outside
    <2>3. cpu.sp = "zero" /\ cpu.x0 = "handoff" /\ cpu.x1 = OwedX1
        BY DEF Cl4Inv, Arguments
    <2> QED BY <2>2, <2>3 DEF EntryAbi, OwedX1
<1> QED BY <1>1, Cl4InvInit, Cl4InvStep, PTL DEF Spec

(* The constructors run in order: once by the trampoline, all of them       *)
(* before a guarded return reaches CL4's entry, and once by CL4.            *)
THEOREM CtorsCorrect == Spec => []CtorPasses
<1>1. Cl4Inv => CtorPasses
    <2> SUFFICES ASSUME Cl4Inv PROVE CtorPasses
        OBVIOUS
    <2>1. /\ called \in Seq(Calls) /\ cpu.x21 \in 1 .. Ctors + 1
          /\ own.next \in 1 .. Ctors + 1 /\ Len(called) = cpu.x21 + own.next - 2
          /\ DOMAIN called = 1 .. Len(called)
        BY DEF Cl4Inv, Cl4TypeOK, Cpus, Owns, Counted
    <2>2. Len(called) <= Offset + Ctors
        BY <2>1, Cl4Assumption DEF Cl4Inv, Counted, Offset
    <2>3. OutsideTrampoline /\ (hook.tramp => hook.done) => cpu.x21 - 1 = Offset
        BY Outside
    <2>4. ASSUME cpu.pc = "entry", cpu.g
          PROVE  Len(called) \in {Offset, Offset + Ctors}
        <3>1. OutsideTrampoline
            BY <2>4 DEF OutsideTrampoline
        <3>2. (hook.tramp => hook.done) /\ own.next \in {1, Ctors + 1}
            BY <2>4 DEF Cl4Inv, Passes
        <3> QED BY <2>1, <2>3, <3>1, <3>2, Cl4Assumption, SMTT(60)
    <2>5. ASSUME cpu.pc = "cl4"
          PROVE  Len(called) = Offset + Ctors
        <3>1. OutsideTrampoline
            BY <2>5 DEF OutsideTrampoline
        <3>2. own.built /\ own.next = Ctors + 1
            BY <2>5 DEF Cl4Inv, Passes
        <3>3. hook.tramp => hook.done
            BY <3>2 DEF Cl4Inv, Counted
        <3> QED BY <2>1, <2>3, <3>1, <3>2, <3>3, Cl4Assumption
    <2> QED BY <2>1, <2>2, <2>4, <2>5 DEF Cl4Inv, Counted, CtorPasses
<1> QED BY <1>1, Cl4InvInit, Cl4InvStep, PTL DEF Spec

(* A constructor that dereferences null has looked up a service nobody      *)
(* seeded, or logs in CL4's own pass when no trampoline has run.            *)
THEOREM FaultsKnown == Spec => []OnlyUnseededFault
<1>1. Cl4Inv => OnlyUnseededFault
    BY DEF Cl4Inv
<1> QED BY <1>1, Cl4InvInit, Cl4InvStep, PTL DEF Spec

-----------------------------------------------------------------------------
LoaderState(s) == DOMAIN s = {"mem", "carves", "tree", "spilled"}

\* The regions lie between the memory that is left and the top, apart.
Apart(s, top) ==
    /\ \A a \in DOMAIN s.carves :
          /\ s.carves[a].lo \in Int /\ s.carves[a].hi \in Int
          /\ s.mem <= s.carves[a].lo /\ s.carves[a].hi <= top
    /\ \A a, b \in DOMAIN s.carves :
          a # b => s.carves[a].hi <= s.carves[b].lo \/ s.carves[b].hi <= s.carves[a].lo

LoadInv(s, top) == LoaderState(s) /\ s.mem \in Int /\ s.mem <= top /\ Apart(s, top)

(* A region taken off the memory that is left is below all others.         *)
LEMMA CarveKeeps ==
  ASSUME NEW s, NEW top \in Int, LoadInv(s, top), NEW name, NEW size \in Nat
  PROVE  LoadInv(Carve(s, name, size), top)
<1> DEFINE c   == Carve(s, name, size)
           new == [lo |-> s.mem - size, hi |-> s.mem]
<1> DEFINE cs == [n \in DOMAIN s.carves \cup {name} |->
                    IF n = name THEN new ELSE s.carves[n]]
<1>1. /\ LoaderState(c) /\ c.mem = s.mem - size /\ c.carves = cs
      /\ s.mem \in Int /\ s.mem <= top
  <2>1. c = [s EXCEPT !.mem = s.mem - size, !.carves = cs]
    BY Zenon DEF Carve
  <2> HIDE DEF c, cs
  <2>2. /\ [s EXCEPT !.mem = s.mem - size, !.carves = cs].mem = s.mem - size
        /\ [s EXCEPT !.mem = s.mem - size, !.carves = cs].carves = cs
        /\ LoaderState([s EXCEPT !.mem = s.mem - size, !.carves = cs])
    BY DEF LoadInv, LoaderState
  <2> QED BY <2>1, <2>2 DEF LoadInv
<1>2. /\ DOMAIN c.carves = DOMAIN s.carves \cup {name}
      /\ \A a \in DOMAIN s.carves : a # name => c.carves[a] = s.carves[a]
      /\ c.carves[name] = new
  BY <1>1
<1>3. new.lo = s.mem - size /\ new.hi = s.mem
  OBVIOUS
<1> HIDE DEF c, new
<1>4. \A a \in DOMAIN c.carves :
         \/ a \in DOMAIN s.carves /\ a # name /\ c.carves[a] = s.carves[a]
         \/ a = name /\ c.carves[a] = new
  BY <1>2
<1>5. Apart(c, top)
  <2>1. \A a \in DOMAIN c.carves :
           /\ c.carves[a].lo \in Int /\ c.carves[a].hi \in Int
           /\ c.mem <= c.carves[a].lo /\ c.carves[a].hi <= top
    BY <1>1, <1>3, <1>4 DEF LoadInv, Apart
  <2>2. ASSUME NEW a \in DOMAIN c.carves, NEW b \in DOMAIN c.carves, a # b
        PROVE  c.carves[a].hi <= c.carves[b].lo \/ c.carves[b].hi <= c.carves[a].lo
    <3>1. CASE a # name /\ b # name /\ a \in DOMAIN s.carves /\ b \in DOMAIN s.carves
      BY <1>2, <2>2, <3>1 DEF LoadInv, Apart
    <3>2. CASE a = name /\ c.carves[a] = new /\ b # name /\ b \in DOMAIN s.carves
      BY <1>2, <1>3, <3>2 DEF LoadInv, Apart
    <3>3. CASE b = name /\ c.carves[b] = new /\ a # name /\ a \in DOMAIN s.carves
      BY <1>2, <1>3, <3>3 DEF LoadInv, Apart
    <3> QED BY <1>4, <2>2, <3>1, <3>2, <3>3
  <2> QED BY <2>1, <2>2 DEF Apart
<1> QED BY <1>1, <1>5 DEF LoadInv, c

(* Writing into the tree moves no region.                                  *)
LEMMA PublishKeeps ==
  ASSUME NEW s, NEW top \in Int, LoadInv(s, top), NEW p, NEW n, NEW bytes
  PROVE  LoadInv(Publish(s, p, n, bytes), top)
<1>1. CASE HasProp(s.tree, p, n)
  <2>1. PICK tree, spilled : Publish(s, p, n, bytes) =
                               [s EXCEPT !.tree = tree, !.spilled = spilled]
    BY <1>1 DEF Publish
  <2> DEFINE r == [s EXCEPT !.tree = tree, !.spilled = spilled]
  <2>2. LoaderState(r) /\ r.mem = s.mem /\ r.carves = s.carves
    BY DEF LoadInv, LoaderState
  <2> HIDE DEF r
  <2> QED BY <2>1, <2>2 DEF LoadInv, Apart, r
<1>2. CASE ~HasProp(s.tree, p, n)
  BY <1>2 DEF Publish
<1> QED BY <1>1, <1>2

(* arm_load_xnu_sptm: for every size of DRAM, framebuffer and firmware the *)
(* regions taken off the top do not overlap and none reaches into what the *)
(* kernel is left with, whether or not they are published.                 *)
THEOREM CarveOutsApart ==
  ASSUME NEW tree, DramSize(tree) \in Int,
         NEW info, info.fbSize \in Nat, info.ansRegion \in Nat, info.dcpRegion \in Nat
  PROVE  Apart(LoadTree(tree, info), DramSize(tree))
<1> DEFINE top   == DramSize(tree)
           start == [mem |-> top, carves |-> <<>>, tree |-> tree, spilled |-> {}]
           fb    == CarveFramebuffer(start, info)
           ans   == CarveAns(fb, info)
           dcp   == CarveDcp(ans, info)
           pram  == CarvePram(dcp, info)
<1>1. LoadInv(start, top)
  BY DEF LoadInv, LoaderState, Apart
<1>2. LoadInv(fb, top)
  BY <1>1, CarveKeeps DEF CarveFramebuffer
<1> HIDE DEF fb
<1>3. LoadInv(ans, top)
  BY <1>2, CarveKeeps, PublishKeeps DEF CarveAns
<1> HIDE DEF ans
<1>4. LoadInv(dcp, top)
  BY <1>3, CarveKeeps, PublishKeeps DEF CarveDcp
<1> HIDE DEF dcp
<1>5. LoadInv(pram, top)
  BY <1>4, CarveKeeps, PublishKeeps DEF CarvePram, PanicLogSize
<1> HIDE DEF pram
<1>6. LoadInv(PublishFramebuffer(pram, info), top)
  BY <1>5, PublishKeeps DEF PublishFramebuffer
<1>7. LoadTree(tree, info) = PublishFramebuffer(pram, info)
  BY DEF LoadTree, pram, dcp, ans, fb
<1> QED BY <1>6, <1>7 DEF LoadInv

-----------------------------------------------------------------------------
IsData(s) == im.segs[s] # None /\ im.segs[s].off = DataOff
InData == 0 .. LinkOff - DataOff - 1

\* The pointers the walk has left behind.
Behind(i) ==
    \/ walk = "done"
    \/ walk = "segs" /\ \E s \in 1 .. sg - 1 : IsData(s)
    \/ walk = "pages" /\ i < pi * PageSize
    \/ walk = "chain" /\ i < off

WalkType ==
    /\ im \in Images
    /\ rx \in Nat /\ rw = rx + DataOff /\ le = rx + LinkOff
    /\ walk \in {"segs", "pages", "chain", "done"}
    /\ sg \in 1 .. Len(im.segs) + 1 /\ pi \in Nat /\ off \in Nat
    /\ data \in [InData -> Words \cup [addr : Nat]]

\* Where the walk is: pages and chains are those of __DATA only.
WalkAt ==
    /\ walk \in {"segs", "pages", "chain"} => im.fixups
    /\ walk \in {"pages", "chain"} =>
          sg <= Len(im.segs) /\ IsData(sg) /\ pi <= Len(im.segs[sg].start)
    /\ walk = "chain" => pi < Len(im.segs[sg].start) /\ off \in InPage(im, pi)
    /\ walk = "done" => ~im.fixups \/ sg = Len(im.segs) + 1

\* What it has done: the pointers behind it, and nothing else.
WalkData ==
    /\ \A i \in InData \ im.slots : data[i] = im.data[i]
    /\ \A i \in im.slots :
          data[i] = IF Behind(i) THEN Rebased(rx + im.target[i]) ELSE im.data[i]

WalkInv == WalkType /\ WalkAt /\ WalkData

-----------------------------------------------------------------------------
(* The image's types.                                                      *)
LEMMA ImageType ==
  ASSUME im \in Images
  PROVE  /\ im.data \in [InData -> Words]
         /\ im.slots \subseteq InData
         /\ \A i \in im.slots : im.target[i] \in Nat
         /\ im.segs \in Seq({None} \cup [off : Nat, start : Seq(Nat \cup {None})])
         /\ im.fixups \in BOOLEAN /\ (~im.fixups => im.slots = {})
<1>1. WellFormed(im)
  BY ImagesAssumption
<1>2. /\ im.data \in [InData -> Words]
      /\ im.fixups \in BOOLEAN /\ (~im.fixups => im.slots = {})
      /\ im.segs \in Seq({None} \cup [off : Nat, start : Seq(Nat \cup {None})])
      /\ im.slots \subseteq DOMAIN im.data
      /\ im.target \in [im.slots -> Nat]
  BY <1>1, Zenon DEF WellFormed, InData
<1> QED BY <1>2

(* The chains of __DATA, wherever the image lists it.                      *)
LEMMA Chains ==
  ASSUME im \in Images, im.fixups, NEW d \in 1 .. Len(im.segs), IsData(d)
  PROVE  /\ \A s \in 1 .. Len(im.segs) : IsData(s) => s = d
         /\ im.segs[d].start \in Seq(Nat \cup {None})
         /\ \A i \in im.slots : i < Len(im.segs[d].start) * PageSize
         /\ \A p \in 1 .. Len(im.segs[d].start) :
              /\ im.segs[d].start[p] = None <=> InPage(im, p - 1) = {}
              /\ im.segs[d].start[p] # None =>
                   /\ (p - 1) * PageSize + im.segs[d].start[p] \in InPage(im, p - 1)
                   /\ \A i \in InPage(im, p - 1) :
                         (p - 1) * PageSize + im.segs[d].start[p] <= i
              /\ \A i \in InPage(im, p - 1) :
                   IF im.data[i].next = 0
                   THEN \A j \in InPage(im, p - 1) : j <= i
                   ELSE /\ i + im.data[i].next \in InPage(im, p - 1)
                        /\ \A j \in InPage(im, p - 1) : j <= i \/ i + im.data[i].next <= j
<1>1. PICK c \in 1 .. Len(im.segs) :
        /\ \A s \in 1 .. Len(im.segs) :
              im.segs[s] # None /\ im.segs[s].off = DataOff <=> s = c
        /\ LET start == im.segs[c].start
           IN  /\ \A i \in im.slots : i < Len(start) * PageSize
               /\ \A p \in 1 .. Len(start) :
                    /\ start[p] = None <=> InPage(im, p - 1) = {}
                    /\ start[p] # None =>
                         /\ (p - 1) * PageSize + start[p] \in InPage(im, p - 1)
                         /\ \A i \in InPage(im, p - 1) : (p - 1) * PageSize + start[p] <= i
                    /\ \A i \in InPage(im, p - 1) :
                         LET next == im.data[i].next
                         IN  IF next = 0
                             THEN \A j \in InPage(im, p - 1) : j <= i
                             ELSE /\ i + next \in InPage(im, p - 1)
                                  /\ \A j \in InPage(im, p - 1) : j <= i \/ i + next <= j
  BY ImagesAssumption DEF WellFormed
<1>2. c = d
  BY <1>1 DEF IsData
<1>3. im.segs[d] \in [off : Nat, start : Seq(Nat \cup {None})]
  BY ImageType DEF IsData
<1>4. \A s \in 1 .. Len(im.segs) : IsData(s) => s = d
  BY <1>1, <1>2 DEF IsData
<1> QED BY <1>1, <1>2, <1>3, <1>4, Zenon

(* In the one block CL4 is placed in, every offset t of the image is at    *)
(* rx + t, whichever segment it lies in.                                   *)
LEMMA OneBlock ==
  ASSUME WalkType, NEW t \in Nat
  PROVE  Phys(t) = rx + t
BY FixupsAssumption DEF WalkType, Phys

(* A pointer not yet rebased decodes to what it points to.                 *)
LEMMA RawDecodes ==
  ASSUME WalkType, NEW i \in im.slots
  PROVE  Target(im.data[i]) = im.target[i] /\ im.target[i] \in Nat
<1>1. im \in Images
  BY DEF WalkType
<1> QED BY <1>1, ImagesAssumption, ImageType DEF WellFormed, Target

(* A page's pointers lie between its ends.                                 *)
LEMMA PageBounds ==
  ASSUME NEW p \in Nat
  PROVE  \E lo \in Nat :
           /\ p * PageSize = lo /\ (p + 1) * PageSize = lo + PageSize
           /\ \A i : i \in InPage(im, p) <=> i \in im.slots /\ lo <= i /\ i < lo + PageSize
<1>1. p * PageSize \in Nat /\ (p + 1) * PageSize = p * PageSize + PageSize
  BY FixupsAssumption
<1> QED BY <1>1 DEF InPage

-----------------------------------------------------------------------------
LEMMA InitWalk == Init => WalkInv
<1> SUFFICES ASSUME NEW b \in Boots, FixInit(b.cl4) PROVE WalkInv
  BY DEF Init
<1>1. im \in Images
  BY BootsAssumption DEF FixInit
<1>2. WalkType
  BY <1>1, ImageType, FixupsAssumption DEF FixInit, WalkType
<1>3. WalkAt
  BY <1>1, ImageType DEF FixInit, WalkAt
<1>4. WalkData
  <2>1. CASE im.fixups
    BY <1>1, <2>1, ImageType DEF FixInit, WalkData, Behind
  <2>2. CASE ~im.fixups
    BY <1>1, <2>2, ImageType DEF FixInit, WalkData
  <2> QED BY <2>1, <2>2
<1> QED BY <1>2, <1>3, <1>4 DEF WalkInv

LEMMA NextSegmentKeeps ==
  ASSUME WalkInv, NextSegment
  PROVE  WalkInv'
<1>1. /\ walk = "segs" /\ im \in Images /\ im.fixups /\ sg \in 1 .. Len(im.segs) + 1
      /\ Len(im.segs) \in Nat
  BY ImageType DEF WalkInv, WalkType, WalkAt, NextSegment
<1>2. UNCHANGED <<im, data, rx, rw, le, off>> /\ pi' = 0
  BY DEF NextSegment
<1>3. WalkType'
  BY <1>1, <1>2 DEF NextSegment, WalkInv, WalkType, InData
<1>4. CASE sg > Len(im.segs)
  <2>1. walk' = "done" /\ sg' = sg /\ sg = Len(im.segs) + 1
    BY <1>1, <1>4 DEF NextSegment
  <2>2. \E s \in 1 .. sg - 1 : IsData(s)
    BY <1>1, <2>1, ImagesAssumption DEF WellFormed, IsData
  <2>3. WalkAt'
    BY <1>2, <2>1 DEF WalkAt
  <2>4. WalkData'
    BY <1>1, <1>2, <2>1, <2>2 DEF WalkInv, WalkData, Behind, InData
  <2> QED BY <1>3, <2>3, <2>4 DEF WalkInv
<1>5. CASE sg <= Len(im.segs) /\ ~IsData(sg)
  <2>1. walk' = "segs" /\ sg' = sg + 1
    BY <1>1, <1>5 DEF NextSegment, IsData
  <2>2. (\E s \in 1 .. sg' - 1 : IsData(s)) <=> (\E s \in 1 .. sg - 1 : IsData(s))
    BY <1>1, <1>5, <2>1
  <2>3. WalkAt'
    BY <1>1, <1>2, <2>1 DEF WalkAt
  <2>4. WalkData'
    BY <1>1, <1>2, <2>1, <2>2 DEF WalkInv, WalkData, Behind, InData, IsData
  <2> QED BY <1>3, <2>3, <2>4 DEF WalkInv
<1>6. CASE sg <= Len(im.segs) /\ IsData(sg)
  <2>1. walk' = "pages" /\ sg' = sg
    BY <1>1, <1>6 DEF NextSegment, IsData
  <2>2. ~\E s \in 1 .. sg - 1 : IsData(s)
    BY <1>1, <1>6, Chains
  <2>3. im.segs[sg].start \in Seq(Nat \cup {None})
    BY <1>1, <1>6, Chains
  <2>4. WalkAt'
    BY <1>1, <1>2, <1>6, <2>1, <2>3 DEF WalkAt, IsData
  <2>5. \A i \in im.slots : ~(i < pi' * PageSize)
    BY <1>1, <1>2, ImageType, FixupsAssumption DEF InData
  <2>6. WalkData'
    BY <1>1, <1>2, <2>1, <2>2, <2>5 DEF WalkInv, WalkData, Behind, InData
  <2> QED BY <1>3, <2>4, <2>6 DEF WalkInv
<1> QED BY <1>1, <1>4, <1>5, <1>6

LEMMA NextPageKeeps ==
  ASSUME WalkInv, NextPage
  PROVE  WalkInv'
<1> DEFINE start == im.segs[sg].start
<1>1. /\ walk = "pages" /\ im \in Images /\ im.fixups /\ sg \in 1 .. Len(im.segs)
      /\ IsData(sg) /\ pi \in Nat /\ pi <= Len(start)
  BY DEF WalkInv, WalkType, WalkAt, NextPage
<1>2. start \in Seq(Nat \cup {None})
  BY <1>1, Chains
<1>3. UNCHANGED <<im, data, rx, rw, le>>
  BY DEF NextPage
<1>4. im.slots \subseteq Int
  BY <1>1, ImageType DEF InData
<1>5. CASE pi >= Len(start)
  <2>1. walk' = "segs" /\ sg' = sg + 1 /\ pi' = pi /\ off' = off
    BY <1>1, <1>5 DEF NextPage
  <2>2. pi = Len(start)
    BY <1>1, <1>2, <1>5
  <2>3. \A i \in im.slots : i < pi * PageSize
    BY <1>1, <2>2, Chains
  <2>4. \E s \in 1 .. sg' - 1 : IsData(s)
    BY <1>1, <2>1
  <2>5. WalkType'
    BY <1>1, <1>3, <2>1 DEF WalkInv, WalkType, InData
  <2>6. WalkAt'
    BY <1>1, <1>3, <2>1 DEF WalkAt
  <2>7. WalkData'
    BY <1>1, <1>3, <2>1, <2>3, <2>4 DEF WalkInv, WalkData, Behind, InData, IsData
  <2> QED BY <2>5, <2>6, <2>7 DEF WalkInv
<1>6. CASE pi < Len(start) /\ start[pi + 1] = None
  <2>1. walk' = "pages" /\ sg' = sg /\ pi' = pi + 1 /\ off' = off
    BY <1>1, <1>2, <1>6 DEF NextPage
  <2>2. pi + 1 \in 1 .. Len(start) /\ (pi + 1) - 1 = pi
    BY <1>1, <1>2, <1>6
  <2>3. InPage(im, pi) = {}
    BY <1>1, <1>6, <2>2, Chains
  <2>4. \A i \in im.slots : i < pi * PageSize <=> i < (pi + 1) * PageSize
    <3>1. PICK lo \in Nat :
            /\ pi * PageSize = lo /\ (pi + 1) * PageSize = lo + PageSize
            /\ \A i : i \in InPage(im, pi) <=> i \in im.slots /\ lo <= i /\ i < lo + PageSize
      BY <1>1, PageBounds
    <3> QED BY <1>4, <2>3, <3>1, FixupsAssumption
  <2>5. WalkType'
    BY <1>1, <1>3, <2>1 DEF WalkInv, WalkType, InData
  <2>6. WalkAt'
    BY <1>1, <1>3, <2>1, <2>2 DEF WalkAt, IsData
  <2>7. WalkData'
    BY <1>1, <1>3, <2>1, <2>4 DEF WalkInv, WalkData, Behind, InData
  <2> QED BY <2>5, <2>6, <2>7 DEF WalkInv
<1>7. CASE pi < Len(start) /\ start[pi + 1] # None
  <2>1. walk' = "chain" /\ sg' = sg /\ pi' = pi /\ off' = pi * PageSize + start[pi + 1]
    BY <1>1, <1>2, <1>7 DEF NextPage
  <2>2. pi + 1 \in 1 .. Len(start) /\ (pi + 1) - 1 = pi
    BY <1>1, <1>2, <1>7
  <2>3. off' \in InPage(im, pi) /\ \A i \in InPage(im, pi) : off' <= i
    BY <1>1, <1>7, <2>1, <2>2, Chains
  <2>4. \A i \in im.slots : i < pi * PageSize <=> i < off'
    <3>1. PICK lo \in Nat :
            /\ pi * PageSize = lo /\ (pi + 1) * PageSize = lo + PageSize
            /\ \A i : i \in InPage(im, pi) <=> i \in im.slots /\ lo <= i /\ i < lo + PageSize
      BY <1>1, PageBounds
    <3> QED BY <1>4, <2>3, <3>1, FixupsAssumption
  <2>5. off' \in Nat
    BY <1>1, <2>3, ImageType DEF InPage, InData
  <2>6. WalkType'
    BY <1>1, <1>3, <2>1, <2>5 DEF WalkInv, WalkType, InData
  <2>7. WalkAt'
    BY <1>1, <1>3, <1>7, <2>1, <2>3 DEF WalkAt, IsData, InPage
  <2>8. WalkData'
    BY <1>1, <1>3, <2>1, <2>4 DEF WalkInv, WalkData, Behind, InData
  <2> QED BY <2>6, <2>7, <2>8 DEF WalkInv
<1> QED BY <1>1, <1>2, <1>5, <1>6, <1>7

LEMMA RebaseKeeps ==
  ASSUME WalkInv, Rebase
  PROVE  WalkInv'
<1> DEFINE start == im.segs[sg].start
           next == im.data[off].next
<1>1. /\ walk = "chain" /\ im \in Images /\ im.fixups /\ sg \in 1 .. Len(im.segs)
      /\ IsData(sg) /\ pi \in Nat /\ pi < Len(start) /\ off \in InPage(im, pi)
      /\ WalkType
  BY DEF WalkInv, WalkType, WalkAt, Rebase
<1>2. start \in Seq(Nat \cup {None}) /\ pi + 1 \in 1 .. Len(start) /\ (pi + 1) - 1 = pi
  BY <1>1, Chains
<1>3. off \in im.slots /\ off \in InData /\ im.slots \subseteq Int
  BY <1>1, ImageType DEF InPage, InData
<1>4. data[off] = im.data[off] /\ next \in Nat
  <2>1. ~Behind(off)
    BY <1>1, <1>3 DEF Behind
  <2>2. im.data[off] \in Words
    BY <1>1, <1>3, ImageType
  <2> QED BY <1>3, <2>1, <2>2 DEF WalkInv, WalkData, Words
<1>5. UNCHANGED <<im, rx, rw, le, sg>>
  BY DEF Rebase
<1>6. /\ data' = [data EXCEPT ![off] = Rebased(rx + im.target[off])]
      /\ im.target[off] \in Nat
  BY <1>1, <1>3, <1>4, RawDecodes, OneBlock DEF Rebase
<1>7. data' \in [InData -> Words \cup [addr : Nat]]
  BY <1>1, <1>3, <1>6, SMTT(60) DEF WalkType, Rebased
<1>8. /\ data'[off] = Rebased(rx + im.target[off])
      /\ \A i \in InData \ {off} : data'[i] = data[i]
  BY <1>1, <1>3, <1>6 DEF WalkType
<1>9. \A i \in InData \ im.slots : data'[i] = im.data[i]
  BY <1>3, <1>8 DEF WalkInv, WalkData
<1>10. \A i \in im.slots \ {off} :
         data'[i] = IF i < off THEN Rebased(rx + im.target[i]) ELSE im.data[i]
  BY <1>1, <1>8, ImageType DEF WalkInv, WalkData, Behind
<1>11. CASE next = 0
  <2>1. walk' = "pages" /\ pi' = pi + 1 /\ off' = off
    BY <1>4, <1>11 DEF Rebase
  <2>2. \A j \in InPage(im, pi) : j <= off
    BY <1>1, <1>2, <1>11, Chains
  <2>3. \A i \in im.slots : i < (pi + 1) * PageSize <=> i < off \/ i = off
    <3>1. PICK lo \in Nat :
            /\ pi * PageSize = lo /\ (pi + 1) * PageSize = lo + PageSize
            /\ \A i : i \in InPage(im, pi) <=> i \in im.slots /\ lo <= i /\ i < lo + PageSize
      BY <1>1, PageBounds
    <3> QED BY <1>1, <1>3, <2>2, <3>1, FixupsAssumption
  <2>4. WalkType'
    BY <1>1, <1>5, <1>7, <2>1 DEF WalkType, InData
  <2>5. WalkAt'
    BY <1>1, <1>2, <1>5, <2>1 DEF WalkAt, IsData
  <2>6. \A i \in im.slots : Behind(i)' <=> i < off \/ i = off
    BY <2>1, <2>3 DEF Behind
  <2>7. WalkData'
    BY <1>3, <1>5, <1>8, <1>9, <1>10, <2>6 DEF WalkData, InData
  <2> QED BY <2>4, <2>5, <2>7 DEF WalkInv
<1>12. CASE next # 0
  <2>1. walk' = "chain" /\ pi' = pi /\ off' = off + next
    BY <1>1, <1>4, <1>12 DEF Rebase
  <2>2. /\ off + next \in InPage(im, pi)
        /\ \A j \in InPage(im, pi) : j <= off \/ off + next <= j
    BY <1>1, <1>2, <1>12, Chains
  <2>3. \A i \in im.slots : i < off + next <=> i < off \/ i = off
    <3>1. PICK lo \in Nat :
            /\ pi * PageSize = lo /\ (pi + 1) * PageSize = lo + PageSize
            /\ \A i : i \in InPage(im, pi) <=> i \in im.slots /\ lo <= i /\ i < lo + PageSize
      BY <1>1, PageBounds
    <3>2. next \in Nat \ {0} /\ off \in Int /\ off + next < lo + PageSize /\ lo <= off
      BY <1>1, <1>3, <1>4, <1>12, <2>2, <3>1
    <3> HIDE DEF next
    <3> SUFFICES ASSUME NEW i \in im.slots
                 PROVE  i < off + next <=> i < off \/ i = off
      OBVIOUS
    <3>3. i \in Int /\ PageSize \in Int
      BY <1>3, FixupsAssumption
    <3>4. CASE i <= off
      BY <3>2, <3>3, <3>4
    <3>5. CASE i > off /\ i < lo + PageSize
      <4>1. i \in InPage(im, pi)
        BY <3>1, <3>2, <3>3, <3>5
      <4>2. off + next <= i
        BY <2>2, <3>2, <3>3, <3>5, <4>1
      <4> QED BY <3>2, <3>3, <3>5, <4>2
    <3>6. CASE i >= lo + PageSize
      BY <3>2, <3>3, <3>6
    <3> QED BY <3>2, <3>3, <3>4, <3>5, <3>6
  <2>4. WalkType'
    BY <1>1, <1>3, <1>4, <1>5, <1>7, <2>1, SMTT(60) DEF WalkType, InData
  <2>5. WalkAt'
    BY <1>1, <1>5, <2>1, <2>2 DEF WalkAt, IsData, InPage
  <2>6. \A i \in im.slots : Behind(i)' <=> i < off \/ i = off
    BY <2>1, <2>3 DEF Behind
  <2>7. WalkData'
    BY <1>3, <1>5, <1>8, <1>9, <1>10, <2>6 DEF WalkData, InData
  <2> QED BY <2>4, <2>5, <2>7 DEF WalkInv
<1> QED BY <1>11, <1>12

(* The walk keeps its place and its work, and no other step touches them.  *)
LEMMA WalkInvHolds == Spec => []WalkInv
<1>1. WalkInv /\ [Next]_vars => WalkInv'
  <2> SUFFICES ASSUME WalkInv, [Next]_vars PROVE WalkInv'
    OBVIOUS
  <2>1. CASE UNCHANGED fixvars
    BY <2>1 DEF fixvars, WalkInv, WalkType, WalkAt, WalkData, Behind, IsData, InPage
  <2>2. CASE RebaseCl4
    BY <2>2, NextSegmentKeeps, NextPageKeeps, RebaseKeeps DEF RebaseCl4, FixNext
  <2>3. CASE FixupTree \/ LoadKernel \/ RunCl4 \/ UNCHANGED vars
    BY <2>1, <2>3 DEF FixupTree, LoadKernel, RunCl4, vars
  <2> QED BY <2>2, <2>3 DEF Next
<1> QED BY <1>1, InitWalk, PTL DEF Spec

(* The walk's counters stay in the tables of the image.                    *)
THEOREM FixupTypeCorrect == Spec => []FixTypeOK
<1>1. WalkInv => FixTypeOK
  BY ImageType, FixupsAssumption DEF WalkInv, WalkType, WalkAt, FixTypeOK, IsData
<1> QED BY <1>1, WalkInvHolds, PTL

(* Every pointer of CL4's __DATA is rebased once, to its target's place in *)
(* the contiguous block, and no other word changes: for every layout of    *)
(* pages and chains, every target and every base.                          *)
THEOREM FixupsCorrect == Spec => []PointersRebased
<1>1. WalkInv => PointersRebased
  BY ImageType DEF WalkInv, WalkType, WalkData, Behind, PointersRebased
<1> QED BY <1>1, WalkInvHolds, PTL

-----------------------------------------------------------------------------
(* The device tree: from here on, a tree is of typed values.               *)
Types == {"str", "null", "bytes", "u32", "u64"}
Values == [t : Types, v : Seq(0 .. 255)]

Typed(d) == \A i \in DOMAIN d : \A n \in DOMAIN d[i].props : d[i].props[n] \in Values

-----------------------------------------------------------------------------
LEMMA PadsProps ==
  ASSUME NEW n \in Nat
  PROVE  /\ RoundUpToMultipleOf4(n) \in Nat /\ RoundUpToMultipleOf4(n) >= n
         /\ RoundUpToMultipleOf4(n) < n + 4
BY DEF RoundUpToMultipleOf4

\* What one sequence after another is.
LEMMA Concatenated ==
  ASSUME NEW S, NEW a \in Seq(S), NEW b \in Seq(S)
  PROVE  /\ a \o b \in Seq(S) /\ Len(a \o b) = Len(a) + Len(b)
         /\ \A i \in 1 .. Len(a) + Len(b) :
              (a \o b)[i] = IF i <= Len(a) THEN a[i] ELSE b[i - Len(a)]
<1>1. a \o b \in Seq(S)
  OBVIOUS
<1>2. Len(a \o b) = Len(a) + Len(b)
  OBVIOUS
<1>3. \A i \in 1 .. Len(a) + Len(b) :
         (a \o b)[i] = IF i <= Len(a) THEN a[i] ELSE b[i - Len(a)]
  BY ConcatProperties
<1> QED BY <1>1, <1>2, <1>3

LEMMA LjustProps ==
  ASSUME NEW s \in Seq(0 .. 255)
  PROVE  /\ Ljust(s) \in Seq(0 .. 255) /\ Len(Ljust(s)) = RoundUpToMultipleOf4(Len(s))
         /\ \A i \in 1 .. Len(Ljust(s)) : Ljust(s)[i] = IF i <= Len(s) THEN s[i] ELSE 0
<1> DEFINE k == RoundUpToMultipleOf4(Len(s)) - Len(s)
           z == Zeros(k)
<1>1. Len(s) \in Nat /\ k \in Nat /\ Len(s) + k = RoundUpToMultipleOf4(Len(s))
  <2>1. /\ Len(s) \in Nat /\ RoundUpToMultipleOf4(Len(s)) \in Nat
        /\ RoundUpToMultipleOf4(Len(s)) >= Len(s)
    BY PadsProps
  <2> QED BY <2>1
<1> HIDE DEF k
<1>2. z \in Seq(0 .. 255) /\ Len(z) = k /\ \A i \in 1 .. k : z[i] = 0
  BY <1>1 DEF Zeros
<1> HIDE DEF z
<1>3. /\ s \o z \in Seq(0 .. 255) /\ Len(s \o z) = Len(s) + Len(z)
      /\ \A i \in 1 .. Len(s) + Len(z) :
           (s \o z)[i] = IF i <= Len(s) THEN s[i] ELSE z[i - Len(s)]
  BY <1>2, Concatenated, ZenonT(60)
<1>4. \A i \in 1 .. Len(s) + k : i <= Len(s) \/ i - Len(s) \in 1 .. k
  BY <1>1
<1>5. Ljust(s) = s \o z
  BY DEF Ljust, z, k
<1> QED BY <1>1, <1>2, <1>3, <1>4, <1>5

LEMMA LjustSame ==
  ASSUME NEW s \in Seq(0 .. 255), Len(s) = RoundUpToMultipleOf4(Len(s))
  PROVE  Ljust(s) = s
<1>1. /\ Ljust(s) \in Seq(0 .. 255) /\ Len(Ljust(s)) = Len(s)
      /\ \A i \in 1 .. Len(s) : Ljust(s)[i] = s[i]
  BY LjustProps
<1> QED BY <1>1, SeqEqual

LEMMA NumberTyped ==
  ASSUME NEW k \in Int, NEW n \in Nat
  PROVE  Number(k, n) \in Seq(0 .. 255) /\ Len(Number(k, n)) = n
<1>1. ASSUME NEW i \in 1 .. n
      PROVE  Number(k, n)[i] \in 0 .. 255
  <2>1. k % 256 \in 0 .. 255 /\ (k \div 256) % 256 \in 0 .. 255
        /\ (k \div 65536) % 256 \in 0 .. 255 /\ 0 \in 0 .. 255
    OBVIOUS
  <2> QED BY <2>1 DEF Number
<1>2. Number(k, n) \in [1 .. n -> 0 .. 255]
  BY <1>1 DEF Number
<1> QED BY <1>2

LEMMA ValuesTyped ==
  /\ \A k \in Int : U32(k) \in Values /\ U64(k) \in Values
  /\ \A s \in Seq(0 .. 255) : Bytes(s) \in Values /\ Str(s) \in Values
  /\ Null \in Values
<1>1. \A k \in Int : Number(k, 4) \in Seq(0 .. 255) /\ Number(k, 8) \in Seq(0 .. 255)
  BY NumberTyped
<1>2. <<>> \in Seq(0 .. 255)
  OBVIOUS
<1> QED BY <1>1, <1>2 DEF Values, Types, U32, U64, Bytes, Str, Null

LEMMA FrequencyTyped == Frequency \in Values
<1>1. 1048576 \in Int
  BY SMT
<1> QED BY <1>1, ValuesTyped, SMT DEF Frequency

LEMMA DramStartTyped == \A gen : DramStart(gen) \in Int
BY SMT DEF DramStart

(* A set of naturals has a least.                                          *)
LEMMA LeastOf ==
  ASSUME NEW S \in SUBSET Nat, S # {}
  PROVE  \E i \in S : \A j \in S : i <= j
<1> DEFINE Less == {ss \in Nat \X Nat : ss[1] < ss[2]}
<1>1. IsWellFoundedOn(Less, Nat)
  BY NatLessThanWellFounded DEF OpToRel
<1> HIDE DEF Less
<1>2. PICK n \in S : \A k \in S : <<k, n>> \notin Less
  BY <1>1, WFMin
<1>3. ASSUME NEW k \in S PROVE n <= k
  <2>1. <<k, n>> \in Less <=> k < n
    BY DEF Less
  <2> QED BY <1>2, <2>1
<1> QED BY <1>3

LEMMA GreatestOf ==
  ASSUME NEW K \in Nat, NEW S, S \subseteq 1 .. K, S # {}
  PROVE  \E m \in S : \A i \in S : i <= m
<1> DEFINE D == {K - i : i \in S}
<1>1. D \in SUBSET Nat /\ D # {}
  <2>1. \A i \in S : i \in Int /\ i <= K
    OBVIOUS
  <2>2. \A i \in S : K - i \in Nat
    BY <2>1
  <2> QED BY <2>2
<1>2. PICK k \in D : \A j \in D : k <= j
  BY <1>1, LeastOf
<1>3. PICK m \in S : k = K - m
  BY <1>2
<1>4. ASSUME NEW i \in S PROVE i <= m
  <2>1. K - i \in D /\ i \in Int /\ m \in Int
    BY <1>3
  <2>2. k <= K - i
    BY <1>2, <2>1
  <2> QED BY <1>3, <2>1, <2>2
<1> QED BY <1>4

LEMMA StringTyped ==
  ASSUME NEW s \in Seq(0 .. 255)
  PROVE  DecodeNullTerminatedString(s) \in Seq(0 .. 255)
<1> DEFINE nuls == {i \in DOMAIN s : s[i] = 0}
<1>1. CASE nuls = {}
  BY <1>1 DEF DecodeNullTerminatedString
<1>2. CASE nuls # {}
  <2> DEFINE m == CHOOSE i \in nuls : \A j \in nuls : i <= j
  <2>1. nuls \in SUBSET Nat /\ DOMAIN s = 1 .. Len(s) /\ Len(s) \in Nat
    OBVIOUS
  <2> HIDE DEF nuls
  <2>2. m \in nuls
    BY <1>2, <2>1, LeastOf
  <2> HIDE DEF m
  <2>3. m \in 1 .. Len(s)
    BY <2>1, <2>2 DEF nuls
  <2>4. SubSeq(s, 1, m - 1) \in Seq(0 .. 255)
    <3>1. 1 \in Int /\ m - 1 \in Int
      BY <2>3
    <3>2. ASSUME NEW i \in 1 .. m - 1 PROVE s[i] \in 0 .. 255
      <4>1. i \in 1 .. Len(s)
        BY <2>1, <2>3
      <4> QED BY <4>1, ElementOfSeq
    <3> QED BY <3>1, <3>2, SubSeqProperties
  <2> QED BY <1>2, <2>4 DEF DecodeNullTerminatedString, nuls, m
<1> QED BY <1>1, <1>2

LEMMA DecodeTyped ==
  ASSUME NEW s \in Seq(0 .. 255), NEW n
  PROVE  DecodeProp(n, s) \in Values
<1>1. DecodeNullTerminatedString(s) \in Seq(0 .. 255) /\ <<>> \in Seq(0 .. 255)
  BY StringTyped
<1> QED BY <1>1 DEF DecodeProp, Values, Types, Str, Null, Bytes

LEMMA EncodeTyped ==
  ASSUME NEW p \in Values
  PROVE  Filed(ParsePropEntry(p))
<1> DEFINE s == IF p.t = "str" THEN Append(p.v, 0) ELSE p.v
<1>1. p.v \in Seq(0 .. 255) /\ 0 \in 0 .. 255
  BY DEF Values
<1>2. s \in Seq(0 .. 255)
  BY <1>1
<1> HIDE DEF s
<1>3. ParsePropEntry(p) = [len |-> Len(s), bytes |-> Ljust(s)]
  BY DEF ParsePropEntry, s
<1> QED BY <1>2, <1>3, LjustProps DEF Filed

-----------------------------------------------------------------------------
\* What fixup() may do to a node: take compatible entries away, and change the
\* properties named; to a tree: that, add the clock, and take two nodes out.
Same(a, b, x) == (x \in DOMAIN a <=> x \in DOMAIN b) /\ (x \in DOMAIN a => a[x] = b[x])
NodeEdit(m, n, W) ==
    /\ n.path = m.path /\ n.compat \subseteq m.compat
    /\ \A x : x \notin W => Same(m.props, n.props, x)
Rtc(n) == n.path = <<"rtc">> /\ n.compat = {}
Gone(p) == IsPrefix(<<"arm-io", "sgx">>, p) \/ IsPrefix(<<"arm-io", "dockchannel-uart">>, p)

Edit(d, e, W) ==
    /\ \A i \in DOMAIN e : (i \in DOMAIN d /\ NodeEdit(d[i], e[i], W)) \/ Rtc(e[i])
    /\ \A i \in DOMAIN d : (i \in DOMAIN e /\ e[i].path = d[i].path) \/ Gone(d[i].path)

Placed(d) == \E K \in Nat : DOMAIN d \subseteq 1 .. K
From(d, e, W) == Typed(e) /\ Placed(e) /\ Edit(d, e, W)

LEMMA SetParts ==
  ASSUME NEW n, NEW names, NEW v
  PROVE  LET m == Set(n, names, v)
         IN  /\ m.path = n.path /\ m.compat = n.compat
             /\ DOMAIN m.props = DOMAIN n.props \cup names
             /\ \A x \in DOMAIN m.props : m.props[x] = IF x \in names THEN v ELSE n.props[x]
BY DEF Set, With

LEMMA UnsetParts ==
  ASSUME NEW n, NEW names
  PROVE  LET m == Unset(n, names)
         IN  /\ m.path = n.path /\ m.compat = n.compat
             /\ DOMAIN m.props = DOMAIN n.props \ names
             /\ \A x \in DOMAIN m.props : m.props[x] = n.props[x]
BY DEF Unset, With

LEMMA FromSelf ==
  ASSUME NEW d, NEW W, Typed(d), Placed(d)
  PROVE  From(d, d, W)
BY DEF From, Edit, NodeEdit, Same

LEMMA NodeTrans ==
  ASSUME NEW m, NEW n, NEW o, NEW W, NEW X, NodeEdit(m, n, W), NodeEdit(n, o, X)
  PROVE  NodeEdit(m, o, W \cup X)
BY DEF NodeEdit, Same

LEMMA FromTrans ==
  ASSUME NEW d, NEW e, NEW f, NEW W, NEW X, From(d, e, W), From(e, f, X)
  PROVE  From(d, f, W \cup X)
<1>1. ASSUME NEW i \in DOMAIN f, ~Rtc(f[i])
      PROVE  i \in DOMAIN d /\ NodeEdit(d[i], f[i], W \cup X)
  <2>1. i \in DOMAIN e /\ NodeEdit(e[i], f[i], X)
    BY <1>1 DEF From, Edit
  <2>2. ~Rtc(e[i])
    BY <1>1, <2>1 DEF Rtc, NodeEdit
  <2>3. i \in DOMAIN d /\ NodeEdit(d[i], e[i], W)
    BY <2>1, <2>2 DEF From, Edit
  <2> QED BY <2>1, <2>3, NodeTrans
<1>2. ASSUME NEW i \in DOMAIN d, ~Gone(d[i].path)
      PROVE  i \in DOMAIN f /\ f[i].path = d[i].path
  <2>1. i \in DOMAIN e /\ e[i].path = d[i].path
    BY <1>2 DEF From, Edit
  <2> QED BY <1>2, <2>1 DEF From, Edit
<1> QED BY <1>1, <1>2 DEF From, Edit

(* A change of the nodes one by one.                                        *)
LEMMA MapFrom ==
  ASSUME NEW d, NEW e, NEW f, NEW W, From(d, e, W),
         DOMAIN f = DOMAIN e,
         \A i \in DOMAIN e : /\ NodeEdit(e[i], f[i], W)
                             /\ \A n \in DOMAIN f[i].props : f[i].props[n] \in Values
  PROVE  From(d, f, W)
<1>1. Typed(f) /\ Placed(f)
  BY DEF From, Typed, Placed
<1>2. Edit(e, f, W)
  BY DEF Edit, NodeEdit
<1>3. From(e, f, W) /\ W \cup W = W
  BY <1>1, <1>2 DEF From
<1> QED BY <1>3, FromTrans

LEMMA PutFrom ==
  ASSUME NEW d, NEW e, NEW W, From(d, e, W),
         NEW p, NEW names, names \subseteq W, NEW v \in Values
  PROVE  From(d, Put(e, p, names, v), W)
<1> DEFINE f == Put(e, p, names, v)
<1>1. DOMAIN f = DOMAIN e /\ \A i \in DOMAIN e : f[i] = PutAt(e[i], p, names, v)
  BY DEF Put
<1> HIDE DEF f
<1>2. ASSUME NEW i \in DOMAIN e
      PROVE  NodeEdit(e[i], f[i], W) /\ \A n \in DOMAIN f[i].props : f[i].props[n] \in Values
  <2>1. CASE f[i] = e[i]
    BY <2>1 DEF NodeEdit, Same, From, Typed
  <2>2. CASE f[i] = Set(e[i], names, v)
    BY <2>2, SetParts DEF NodeEdit, Same, From, Typed
  <2> QED BY <1>1, <2>1, <2>2 DEF PutAt
<1>3. From(d, f, W)
  BY <1>1, <1>2, MapFrom
<1> QED BY <1>3 DEF f

LEMMA PopFrom ==
  ASSUME NEW d, NEW e, NEW W, From(d, e, W), NEW p, NEW names, names \subseteq W
  PROVE  From(d, Pop(e, p, names), W)
<1> DEFINE f == Pop(e, p, names)
<1>1. DOMAIN f = DOMAIN e /\ \A i \in DOMAIN e : f[i] = PopAt(e[i], p, names)
  BY DEF Pop
<1> HIDE DEF f
<1>2. ASSUME NEW i \in DOMAIN e
      PROVE  NodeEdit(e[i], f[i], W) /\ \A n \in DOMAIN f[i].props : f[i].props[n] \in Values
  <2>1. CASE f[i] = e[i]
    BY <2>1 DEF NodeEdit, Same, From, Typed
  <2>2. CASE f[i] = Unset(e[i], names)
    BY <2>2, UnsetParts DEF NodeEdit, Same, From, Typed
  <2> QED BY <1>1, <2>1, <2>2 DEF PopAt
<1>3. From(d, f, W)
  BY <1>1, <1>2, MapFrom
<1> QED BY <1>3 DEF f

LEMMA MuteFrom ==
  ASSUME NEW d, NEW e, NEW W, From(d, e, W), NEW sw
  PROVE  From(d, DelCompat(e, sw), W)
<1> DEFINE f == DelCompat(e, sw)
<1>1. DOMAIN f = DOMAIN e /\ \A i \in DOMAIN e : f[i] = MuteAt(e[i], sw)
  BY DEF DelCompat
<1> HIDE DEF f
<1>2. ASSUME NEW i \in DOMAIN e
      PROVE  NodeEdit(e[i], f[i], W) /\ \A n \in DOMAIN f[i].props : f[i].props[n] \in Values
  <2>1. CASE f[i] = e[i]
    BY <2>1 DEF NodeEdit, Same, From, Typed
  <2>2. CASE f[i] = [path |-> e[i].path, compat |-> {}, props |-> e[i].props]
    BY <2>2 DEF NodeEdit, Same, From, Typed
  <2> QED BY <1>1, <2>1, <2>2 DEF MuteAt
<1>3. From(d, f, W)
  BY <1>1, <1>2, MapFrom
<1> QED BY <1>3 DEF f

LEMMA RemoveFrom ==
  ASSUME NEW d, NEW e, NEW W, From(d, e, W),
         NEW p \in {<<"arm-io", "sgx">>, <<"arm-io", "dockchannel-uart">>}
  PROVE  From(d, RemoveChild(e, p), W)
<1> DEFINE f == RemoveChild(e, p)
<1>1. /\ DOMAIN f \subseteq DOMAIN e /\ \A i \in DOMAIN f : f[i] = e[i]
      /\ \A i \in DOMAIN e : i \in DOMAIN f \/ IsPrefix(p, e[i].path)
  BY DEF RemoveChild
<1> HIDE DEF f
<1>2. Typed(f) /\ Placed(f)
  BY <1>1 DEF From, Typed, Placed
<1>3. Edit(e, f, {})
  BY <1>1 DEF Edit, NodeEdit, Same, Gone
<1>4. From(e, f, {}) /\ W \cup {} = W
  BY <1>2, <1>3 DEF From
<1>5. From(d, f, W)
  BY <1>4, FromTrans
<1> QED BY <1>5 DEF f

-----------------------------------------------------------------------------
LEMMA NodeHas ==
  ASSUME NEW d, NEW p, p \in Paths(d)
  PROVE  \E i \in DOMAIN d : d[i].path = p /\ Node(d, p) = d[i]
BY DEF Paths, Node

LEMMA PropTyped ==
  ASSUME NEW d, Typed(d), NEW p, NEW n, HasProp(d, p, n)
  PROVE  Node(d, p).props[n] \in Values
<1>1. PICK i \in DOMAIN d : d[i].path = p /\ Node(d, p) = d[i]
  BY NodeHas DEF HasProp
<1> QED BY <1>1 DEF HasProp, Typed

DramProps == {"platform-name", "dram-base", "dram-size"}
MachineProps ==
    {"firmware-version", "system-firmware-version", "state", "random-seed",
     "kernel-ctrr-to-be-enabled", "serial-device", "memory-frequency",
     "peripheral-frequency", "fixed-frequency", "clock-frequency",
     "timebase-frequency", "nvram-bank-count", "nvram-current-bank",
     "nvram-proxy-data", "nvram-total-size", "nvram-bank-size"}
LogProps == {"reg", "embedded-panic-log-size", "config", "sio-hmac1-offset",
             "sio-hmac1-disable-mask"}
EarlyProps == DramProps \cup MachineProps \cup LogProps

Switches(sw) == sw.dram \in Nat /\ sw.nvram \in Seq(0 .. 255)

\* Every node at p has the value v.
Says(d, p, n, v) == \A i \in DOMAIN d : d[i].path = p =>
                       n \in DOMAIN d[i].props /\ d[i].props[n] = v

LEMMA PutSays ==
  ASSUME NEW d, NEW p, NEW n, NEW v
  PROVE  Says(Put(d, p, {n}, v), p, n, v)
<1> SUFFICES ASSUME NEW i \in DOMAIN d, Put(d, p, {n}, v)[i].path = p
             PROVE  /\ n \in DOMAIN Put(d, p, {n}, v)[i].props
                    /\ Put(d, p, {n}, v)[i].props[n] = v
  BY DEF Says, Put
<1>1. Put(d, p, {n}, v)[i] = PutAt(d[i], p, {n}, v)
  BY DEF Put
<1>2. d[i].path = p /\ PutAt(d[i], p, {n}, v) = Set(d[i], {n}, v)
  BY <1>1, SetParts DEF PutAt
<1> QED BY <1>1, <1>2, SetParts

LEMMA EditSays ==
  ASSUME NEW d, NEW e, NEW W, Edit(d, e, W), NEW p, p # <<"rtc">>, NEW n, n \notin W,
         NEW v, Says(d, p, n, v)
  PROVE  Says(e, p, n, v)
BY DEF Edit, NodeEdit, Same, Says, Rtc

\* The prefix of fixup() up to the size of memory.
DramPart(d, sw) ==
    LET root == Put(d, <<>>, {"platform-name"}, GetPlatformName(d))
    IN  Put(Put(root, Chosen, {"dram-base"},
                U64(DramStart(GetSocGen(d)))),
            Chosen, {"dram-size"}, U64(sw.dram))

LEMMA FixableValues ==
  ASSUME NEW d, Typed(d), Fixable(d)
  PROVE  /\ GetPlatformName(d) \in Values
         /\ Node(d, <<"arm-io", "uart0">>).props["AAPL,phandle"] \in Values
         /\ Bytes([i \in DOMAIN Node(d, Chosen).props["random-seed"].v |-> 65]) \in Values
<1>1. GetPlatformName(d) \in Values
  <2> DEFINE c == CHOOSE c \in Node(d, ArmIo).compat : c \in DOMAIN PlatformOf
  <2>1. \E x \in Node(d, ArmIo).compat : x \in DOMAIN PlatformOf
    BY DEF Fixable
  <2>2. c \in DOMAIN PlatformOf
    BY <2>1
  <2> HIDE DEF c
  <2>3. PlatformOf[c] \in Seq(0 .. 255)
    BY <2>2, TreesAssumption
  <2> QED BY <2>3, ValuesTyped DEF GetPlatformName, c
<1>2. Node(d, <<"arm-io", "uart0">>).props["AAPL,phandle"] \in Values
  BY PropTyped DEF Fixable
<1>3. PICK seed \in Values : seed = Node(d, Chosen).props["random-seed"]
  BY PropTyped DEF Fixable
<1>4. seed.v \in Seq(0 .. 255)
  BY <1>3 DEF Values
<1>5. [i \in DOMAIN seed.v |-> 65] \in Seq(0 .. 255)
  <2>1. DOMAIN seed.v = 1 .. Len(seed.v) /\ Len(seed.v) \in Nat
    BY <1>4
  <2>2. [i \in 1 .. Len(seed.v) |-> 65] \in Seq(0 .. 255)
    BY <2>1
  <2> QED BY <2>1, <2>2
<1> QED BY <1>1, <1>2, <1>3, <1>5, ValuesTyped

LEMMA DramFrom ==
  ASSUME NEW d, Typed(d), Placed(d), Fixable(d),
         NEW sw, Switches(sw)
  PROVE  /\ From(d, DramPart(d, sw), DramProps)
         /\ Says(DramPart(d, sw), Chosen, "dram-size", U64(sw.dram))
<1>1. From(d, d, DramProps)
  BY FromSelf
<1>2. /\ GetPlatformName(d) \in Values
      /\ U64(DramStart(GetSocGen(d))) \in Values
      /\ U64(sw.dram) \in Values
  <2>1. sw.dram \in Int /\ DramStart(GetSocGen(d)) \in Int
    BY DramStartTyped DEF Switches
  <2> QED BY <2>1, FixableValues, ValuesTyped
<1>3. From(d, Put(d, <<>>, {"platform-name"}, GetPlatformName(d)), DramProps)
  BY <1>1, <1>2, PutFrom DEF DramProps
<1> QED BY <1>2, <1>3, PutFrom, PutSays DEF DramPart, DramProps

LEMMA MachineFrom ==
  ASSUME NEW d, Typed(d), Placed(d), Fixable(d), NEW sw, Switches(sw)
  PROVE  From(DramPart(d, sw), FixupMachine(d, sw), MachineProps)
<1> DEFINE dram == DramPart(d, sw)
           phandle == Node(d, <<"arm-io", "uart0">>).props["AAPL,phandle"]
           seed == Bytes([i \in DOMAIN Node(d, Chosen).props["random-seed"].v |-> 65])
           running == Str(<<114, 117, 110, 110, 105, 110, 103>>)
           n1 == Put(dram, Chosen, {"firmware-version", "system-firmware-version"}, IBootName)
           n2 == Put(n1, Cpu0, {"state"}, running)
           e1 == Put(n2, Chosen, {"random-seed"}, seed)
           e2 == Put(e1, Chosen, {"kernel-ctrr-to-be-enabled"}, U32(0))
           e3 == Put(e2, <<"defaults">>, {"serial-device"}, phandle)
           e4 == Put(e3, Cpu0, {"memory-frequency", "peripheral-frequency", "fixed-frequency",
                                "clock-frequency", "timebase-frequency"}, Frequency)
           e5 == Put(e4, Chosen, {"nvram-bank-count", "nvram-current-bank"}, U32(1))
           e6 == Put(e5, Chosen, {"nvram-proxy-data"}, Bytes(sw.nvram))
           e7 == Put(e6, Chosen, {"nvram-total-size", "nvram-bank-size"}, U32(Len(sw.nvram)))
<1>1. FixupMachine(d, sw) = e7
  BY DEF FixupMachine, DramPart
<1>2. /\ phandle \in Values /\ seed \in Values /\ Frequency \in Values
      /\ U32(0) \in Values /\ U32(1) \in Values
      /\ Bytes(sw.nvram) \in Values /\ U32(Len(sw.nvram)) \in Values
  <2>1. sw.nvram \in Seq(0 .. 255) /\ Len(sw.nvram) \in Int
    BY DEF Switches
  <2>2. Bytes(sw.nvram) \in Values /\ U32(Len(sw.nvram)) \in Values
    BY <2>1, ValuesTyped
  <2>3. U32(0) \in Values /\ U32(1) \in Values
    BY ValuesTyped
  <2>4. phandle \in Values /\ seed \in Values
    BY FixableValues
  <2> QED BY <2>2, <2>3, <2>4, FrequencyTyped
<1>3. From(dram, dram, MachineProps)
  BY DramFrom, FromSelf DEF From
<1>11. IBootName \in Values /\ running \in Values
  <2>1. /\ <<113, 101, 109, 117, 45, 115, 112, 116, 109>> \in Seq(0 .. 255)
        /\ <<114, 117, 110, 110, 105, 110, 103>> \in Seq(0 .. 255)
    OBVIOUS
  <2> QED BY <2>1, ValuesTyped DEF IBootName
<1> HIDE DEF phandle, seed, dram, running
<1>12. From(dram, n1, MachineProps)
  BY <1>3, <1>11, PutFrom DEF MachineProps
<1> HIDE DEF n1
<1>13. From(dram, n2, MachineProps)
  BY <1>11, <1>12, PutFrom DEF MachineProps
<1> HIDE DEF n2
<1>4. From(dram, e1, MachineProps)
  BY <1>2, <1>13, PutFrom DEF MachineProps
<1> HIDE DEF e1
<1>5. From(dram, e2, MachineProps)
  BY <1>2, <1>4, PutFrom DEF MachineProps
<1> HIDE DEF e2
<1>6. From(dram, e3, MachineProps)
  BY <1>2, <1>5, PutFrom DEF MachineProps
<1> HIDE DEF e3
<1>7. From(dram, e4, MachineProps)
  BY <1>2, <1>6, PutFrom DEF MachineProps
<1> HIDE DEF e4
<1>8. From(dram, e5, MachineProps)
  BY <1>2, <1>7, PutFrom DEF MachineProps
<1> HIDE DEF e5
<1>9. From(dram, e6, MachineProps)
  BY <1>2, <1>8, PutFrom DEF MachineProps
<1> HIDE DEF e6
<1>10. From(dram, e7, MachineProps)
  BY <1>2, <1>9, PutFrom DEF MachineProps
<1> QED BY <1>1, <1>10 DEF dram

\* The tree up to the numbering of the DARTs.
EarlyPart(d, sw) == FixupHmac(FixupPram(FixupMachine(d, sw), sw))

LEMMA LogFrom ==
  ASSUME NEW d, Typed(d), Placed(d), NEW sw
  PROVE  From(d, FixupHmac(FixupPram(d, sw)), LogProps)
<1> DEFINE reg == Bytes(Number(0, 8) \o Number(PanicLogSize, 8))
           size == Bytes(Number(PanicLogSize, 4))
           mask == [t |-> "u64", v |-> [i \in 1 .. 8 |-> 255]]
           pram == FixupPram(d, sw)
           config == Put(pram, InvalidateHmac, {"config"}, U32(1))
           offset == Put(config, InvalidateHmac, {"sio-hmac1-offset"}, U64(0))
<1>1. /\ reg \in Values /\ size \in Values /\ mask \in Values
      /\ U32(1) \in Values /\ U64(0) \in Values
  <2>1. /\ Number(0, 8) \in Seq(0 .. 255) /\ Number(PanicLogSize, 8) \in Seq(0 .. 255)
        /\ Number(PanicLogSize, 4) \in Seq(0 .. 255)
    BY NumberTyped DEF PanicLogSize
  <2>2. Number(0, 8) \o Number(PanicLogSize, 8) \in Seq(0 .. 255)
    BY <2>1, ConcatProperties
  <2>3. [i \in 1 .. 8 |-> 255] \in Seq(0 .. 255)
    OBVIOUS
  <2>4. mask \in Values
    BY <2>3 DEF Values, Types
  <2>5. reg \in Values /\ size \in Values
    BY <2>1, <2>2, ValuesTyped
  <2>6. U32(1) \in Values /\ U64(0) \in Values
    BY ValuesTyped
  <2> QED BY <2>4, <2>5, <2>6
<1>2. From(d, d, LogProps)
  BY FromSelf
<1>3. pram = d \/ pram = Put(Put(d, <<"pram">>, {"reg"}, reg),
                             Chosen, {"embedded-panic-log-size"}, size)
  BY DEF FixupPram
<1>4. FixupHmac(pram) = Put(offset, InvalidateHmac, {"sio-hmac1-disable-mask"}, mask)
  BY DEF FixupHmac
<1> HIDE DEF reg, size, mask, pram
<1>5. From(d, Put(d, <<"pram">>, {"reg"}, reg), LogProps)
  BY <1>1, <1>2, PutFrom DEF LogProps
<1>6. From(d, pram, LogProps)
  BY <1>1, <1>2, <1>3, <1>5, PutFrom DEF LogProps
<1>7. From(d, config, LogProps)
  BY <1>1, <1>6, PutFrom DEF LogProps
<1> HIDE DEF config
<1>8. From(d, offset, LogProps)
  BY <1>1, <1>7, PutFrom DEF LogProps
<1> HIDE DEF offset
<1> QED BY <1>1, <1>4, <1>8, PutFrom DEF LogProps, pram

LEMMA EarlyFrom ==
  ASSUME NEW d, Typed(d), Placed(d), Fixable(d), NEW sw, Switches(sw)
  PROVE  /\ From(d, EarlyPart(d, sw), EarlyProps)
         /\ Says(EarlyPart(d, sw), Chosen, "dram-size", U64(sw.dram))
<1> DEFINE dram == DramPart(d, sw)
           machine == FixupMachine(d, sw)
           early == EarlyPart(d, sw)
<1>1. From(d, dram, DramProps) /\ Says(dram, Chosen, "dram-size", U64(sw.dram))
  BY DramFrom
<1>2. From(dram, machine, MachineProps)
  BY MachineFrom
<1>3. From(machine, early, LogProps)
  BY <1>2, LogFrom DEF From, EarlyPart
<1> HIDE DEF dram, machine, early
<1>4. From(dram, early, MachineProps \cup LogProps)
  BY <1>2, <1>3, FromTrans
<1>5. From(d, early, DramProps \cup (MachineProps \cup LogProps))
  BY <1>1, <1>4, FromTrans
<1>6. DramProps \cup (MachineProps \cup LogProps) = EarlyProps
  BY DEF EarlyProps
<1>7. "dram-size" \notin MachineProps \cup LogProps /\ Chosen # <<"rtc">>
  BY DEF MachineProps, LogProps, Chosen
<1>8. Says(early, Chosen, "dram-size", U64(sw.dram))
  <2>1. Edit(dram, early, MachineProps \cup LogProps)
    BY <1>4 DEF From
  <2> QED BY <1>1, <1>7, <2>1, EditSays
<1> QED BY <1>5, <1>6, <1>8 DEF early

-----------------------------------------------------------------------------
LEMMA DartsFinite ==
  ASSUME NEW d, Placed(d), NEW i
  PROVE  IsFiniteSet(DartsBefore(d, i)) /\ Cardinality(DartsBefore(d, i)) \in Nat
<1>1. PICK K \in Nat : DOMAIN d \subseteq 1 .. K
  BY DEF Placed
<1>2. IsFiniteSet(1 .. K)
  BY FS_Interval
<1>3. DartsBefore(d, i) \subseteq 1 .. K
  BY <1>1 DEF DartsBefore
<1> QED BY <1>2, <1>3, FS_Subset, FS_CardinalityType

LEMMA DartAt ==
  ASSUME NEW d, NEW i \in DOMAIN d
  PROVE  AssignDartIds(d)[i] =
           IF IsDart(d[i]) THEN Set(d[i], {"dart-id"}, U32(Cardinality(DartsBefore(d, i))))
           ELSE d[i]
BY DEF AssignDartIds

LEMMA DartFrom ==
  ASSUME NEW d, Typed(d), Placed(d)
  PROVE  From(d, AssignDartIds(d), {"dart-id"})
<1> DEFINE f == AssignDartIds(d)
<1>1. DOMAIN f = DOMAIN d
  BY DEF AssignDartIds
<1>2. From(d, d, {"dart-id"})
  BY FromSelf
<1>3. ASSUME NEW i \in DOMAIN d
      PROVE  /\ NodeEdit(d[i], f[i], {"dart-id"})
             /\ \A n \in DOMAIN f[i].props : f[i].props[n] \in Values
  <2>1. CASE f[i] = d[i]
    BY <2>1 DEF NodeEdit, Same, Typed
  <2>2. CASE f[i] = Set(d[i], {"dart-id"}, U32(Cardinality(DartsBefore(d, i))))
    <3> DEFINE v == U32(Cardinality(DartsBefore(d, i)))
    <3>1. v \in Values
      BY DartsFinite, ValuesTyped
    <3> HIDE DEF v
    <3>2. f[i] = Set(d[i], {"dart-id"}, v)
      BY <2>2 DEF v
    <3> HIDE DEF f
    <3> QED BY <3>1, <3>2, SetParts DEF NodeEdit, Same, Typed
  <2> QED BY <2>1, <2>2, DartAt
<1> HIDE DEF f
<1>4. From(d, f, {"dart-id"})
  BY <1>1, <1>2, <1>3, MapFrom
<1> QED BY <1>4 DEF f

\* The switches of the DCP's nub and of the exclaves, up to the power flags.
RoutesPart(d, sw) == FixupExclaves(FixupDcpRoutes(FixupDcpRegion(d, sw), sw), sw)
RoutesProps == RegionProps \cup {"routes", "no-firmware-service", "exclaves-enabled",
                                 "has-exclaves"}

LEMMA RoutesFrom ==
  ASSUME NEW d, Typed(d), Placed(d), NEW sw
  PROVE  From(d, RoutesPart(d, sw), RoutesProps)
<1> DEFINE e == FixupDcpRegion(d, sw)
           f == FixupDcpRoutes(e, sw)
           flags == {n \in {"exclaves-enabled", "has-exclaves"} : HasProp(f, <<"product">>, n)}
           gone == {"routes"} \cup
                   (IF sw.dropNofwsvc THEN {"no-firmware-service"} ELSE {})
<1>1. U32(0) \in Values /\ U64(0) \in Values
  BY ValuesTyped
<1>2. From(d, d, RoutesProps)
  BY FromSelf
<1>3. From(d, e, RoutesProps)
  BY <1>1, <1>2, PutFrom DEF FixupDcpRegion, RoutesProps
<1>4. f = e \/ f = Pop(e, DcpNub, gone)
  BY DEF FixupDcpRoutes
<1>5. gone \subseteq RoutesProps
  BY DEF RoutesProps
<1> HIDE DEF e, f, gone
<1>6. From(d, f, RoutesProps)
  BY <1>3, <1>4, <1>5, PopFrom
<1>7. RoutesPart(d, sw) = f \/ RoutesPart(d, sw) = Put(f, <<"product">>, flags, U32(0))
  BY DEF RoutesPart, FixupExclaves, f, e
<1>8. flags \subseteq RoutesProps
  BY DEF RoutesProps
<1> HIDE DEF flags
<1> QED BY <1>1, <1>6, <1>7, <1>8, PutFrom

PowerPart(d, sw) == FixupPowerMode(NormalizeDcp(d, sw), sw)
NormalProps == RegionProps \cup PowerFlags \cup
               {"coredump-enable", "coredump-rel-privacy-approved", "no-firmware-service",
                "routes", "watchdog-enable", "continuous-time", "crashlog-non-fatal",
                "no-hibernate-sleep", "shutdown-sleep", "quiesced"}

LEMMA NormalFrom ==
  ASSUME NEW d, Typed(d), Placed(d), NEW sw
  PROVE  From(d, NormalizeDcp(d, sw), NormalProps)
<1> DEFINE bare == Pop(d, DcpNub, {"coredump-enable", "coredump-rel-privacy-approved",
                                   "no-firmware-service", "routes", "user-power-managed",
                                   "watchdog-enable"})
           power == Put(bare, DcpNub, {"power-managed"}, U32(1))
           region == Put(power, DcpNub, RegionProps, U64(0))
<1>1. U32(1) \in Values /\ U64(0) \in Values /\ Null \in Values
  BY ValuesTyped
<1>2. From(d, d, NormalProps)
  BY FromSelf
<1>3. From(d, bare, NormalProps)
  BY <1>2, PopFrom DEF NormalProps, PowerFlags
<1>4. \/ NormalizeDcp(d, sw) = d
      \/ NormalizeDcp(d, sw) =
           Put(region, DcpNub, {"continuous-time", "crashlog-non-fatal", "no-hibernate-sleep",
                                "shutdown-sleep"}, Null)
  BY DEF NormalizeDcp
<1> HIDE DEF bare
<1>5. From(d, power, NormalProps)
  BY <1>1, <1>3, PutFrom DEF NormalProps, PowerFlags
<1> HIDE DEF power
<1>6. From(d, region, NormalProps)
  BY <1>1, <1>5, PutFrom DEF NormalProps
<1> HIDE DEF region
<1>7. From(d, Put(region, DcpNub, {"continuous-time", "crashlog-non-fatal",
                                   "no-hibernate-sleep", "shutdown-sleep"}, Null), NormalProps)
  BY <1>1, <1>6, PutFrom DEF NormalProps
<1> QED BY <1>2, <1>4, <1>7

LEMMA PowerFrom ==
  ASSUME NEW d, Typed(d), Placed(d), NEW sw
  PROVE  From(d, PowerPart(d, sw), NormalProps)
<1> DEFINE e == NormalizeDcp(d, sw)
           bare == Pop(e, DcpNub, PowerFlags \cup {"quiesced"})
<1>1. From(d, e, NormalProps)
  BY NormalFrom
<1>2. \/ PowerPart(d, sw) = e \/ PowerPart(d, sw) = bare
      \/ PowerPart(d, sw) = Put(bare, DcpNub, {"power-managed"}, U32(1))
      \/ PowerPart(d, sw) = Put(bare, DcpNub, {"dont-power-on"}, Null)
  BY Zenon DEF PowerPart, FixupPowerMode
<1> HIDE DEF e
<1>3. From(d, bare, NormalProps)
  BY <1>1, PopFrom DEF NormalProps
<1> HIDE DEF bare
<1>4. U32(1) \in Values /\ Null \in Values
  BY ValuesTyped
<1>5. /\ From(d, Put(bare, DcpNub, {"power-managed"}, U32(1)), NormalProps)
      /\ From(d, Put(bare, DcpNub, {"dont-power-on"}, Null), NormalProps)
  BY <1>3, <1>4, PutFrom DEF NormalProps, PowerFlags
<1> QED BY <1>1, <1>2, <1>3, <1>5

-----------------------------------------------------------------------------
LEMMA MaxPlace ==
  ASSUME NEW d, Placed(d), DOMAIN d # {}
  PROVE  Max(DOMAIN d) \in Nat /\ \A i \in DOMAIN d : i \in Nat /\ i <= Max(DOMAIN d)
<1>1. PICK K \in Nat : DOMAIN d \subseteq 1 .. K
  BY DEF Placed
<1>2. PICK m \in DOMAIN d : \A i \in DOMAIN d : i <= m
  BY <1>1, GreatestOf
<1>3. \A i \in DOMAIN d : m >= i
  BY <1>1, <1>2
<1>4. Max(DOMAIN d) \in DOMAIN d /\ \A i \in DOMAIN d : Max(DOMAIN d) >= i
  BY <1>3 DEF Max
<1> QED BY <1>1, <1>4

LEMMA RtcNodeIs ==
  /\ Rtc(RtcNode)
  /\ \A n \in DOMAIN RtcNode.props : RtcNode.props[n] \in Values
<1> DEFINE bare == [path |-> <<"rtc">>, compat |-> {}, props |-> <<>>]
           named == Set(bare, {"name"}, Str(<<114, 116, 99>>))
<1>1. bare.path = <<"rtc">> /\ bare.compat = {} /\ DOMAIN bare.props = {}
  OBVIOUS
<1>2. Str(<<114, 116, 99>>) \in Values /\ Null \in Values
  <2>1. <<114, 116, 99>> \in Seq(0 .. 255)
    OBVIOUS
  <2> QED BY <2>1, ValuesTyped
<1>3. RtcNode = Set(named, {"__placeholder_val"}, Null)
  BY DEF RtcNode
<1> HIDE DEF bare
<1>4. /\ named.path = <<"rtc">> /\ named.compat = {}
      /\ \A n \in DOMAIN named.props : named.props[n] \in Values
  BY <1>1, <1>2, SetParts
<1> HIDE DEF named
<1>5. /\ RtcNode.path = <<"rtc">> /\ RtcNode.compat = {}
      /\ \A n \in DOMAIN RtcNode.props : RtcNode.props[n] \in Values
  BY <1>2, <1>3, <1>4, SetParts
<1> QED BY <1>5 DEF Rtc

LEMMA RtcFrom ==
  ASSUME NEW d, Typed(d), Placed(d), DOMAIN d # {}
  PROVE  From(d, FixupRtc(d), {"no-rtc"})
<1> DEFINE end == Max(DOMAIN d) + 1
           root == Put(d, <<>>, {"no-rtc"}, Null)
           f == FixupRtc(d)
<1>1. end \in Nat /\ \A i \in DOMAIN d : i \in Nat /\ i >= 1 /\ i < end
  BY MaxPlace DEF Placed
<1>2. From(d, root, {"no-rtc"})
  BY FromSelf, PutFrom, ValuesTyped
<1>3. DOMAIN root = DOMAIN d
  BY DEF Put
<1>4. DOMAIN f = DOMAIN d \cup {end} /\ f[end] = RtcNode /\ \A i \in DOMAIN d : f[i] = root[i]
  BY <1>1 DEF FixupRtc
<1> HIDE DEF end, root, f
<1>5. Typed(f)
  BY <1>2, <1>3, <1>4, RtcNodeIs DEF Typed, From
<1>6. Placed(f)
  <2>1. DOMAIN f \subseteq 1 .. end
    BY <1>1, <1>4
  <2> QED BY <1>1, <2>1 DEF Placed
<1>7. Edit(d, f, {"no-rtc"})
  BY <1>2, <1>3, <1>4, RtcNodeIs DEF From, Edit
<1> QED BY <1>5, <1>6, <1>7 DEF From, f

CtrrProps == {"upper-limit-reg-mask", "lower-limit-reg-mask", "lower-limit-reg-offset",
              "upper-limit-reg-offset", "page-size-shift",
              "lock-reg-offset", "lock-reg-mask", "lock-reg-value", "enable-reg-offset",
              "write-disable-reg-offset", "enable-reg-mask", "enable-reg-value",
              "write-disable-reg-mask", "write-disable-reg-value"}
AmccProps == CtrrProps \cup
             {"aperture-phys-addr", "aperture-count", "plane-count", "aperture-size", "plane-size",
              "plane-stride", "cache-status-reg-offset", "cache-status-reg-mask",
               "cache-status-reg-value"}

LEMMA CtrrFrom ==
  ASSUME NEW d, NEW e, From(d, e, AmccProps), NEW i \in 1 .. 4
  PROVE  From(d, FixupCtrr(e, i), AmccProps)
<1> DEFINE p == Append(Amcc, Ctrrs[i])
           lower == Put(e, p, {"lower-limit-reg-offset"}, U32(256 * (i - 1) + 16))
           upper == Put(lower, p, {"upper-limit-reg-offset"}, U32(256 * (i - 1) + 32))
           ones == [t |-> "u32", v |-> [k \in 1 .. 4 |-> 255]]
           masks == Put(upper, p, {"upper-limit-reg-mask", "lower-limit-reg-mask"}, ones)
           zeros == Put(masks, p, {"page-size-shift", "lock-reg-offset", "lock-reg-mask",
                                   "lock-reg-value", "enable-reg-offset",
                                   "write-disable-reg-offset"}, U32(0))
<1>1. /\ U32(256 * (i - 1) + 16) \in Values /\ U32(256 * (i - 1) + 32) \in Values
      /\ U32(0) \in Values /\ U32(1) \in Values
  <2>1. 256 * (i - 1) + 16 \in Int /\ 256 * (i - 1) + 32 \in Int
    OBVIOUS
  <2> QED BY <2>1, ValuesTyped
<1>2. FixupCtrr(e, i) = Put(zeros, p, {"enable-reg-mask", "enable-reg-value",
                                       "write-disable-reg-mask", "write-disable-reg-value"},
                            U32(1))
  BY DEF FixupCtrr
<1> HIDE DEF p
<1>3. From(d, lower, AmccProps)
  BY <1>1, PutFrom DEF AmccProps, CtrrProps
<1> HIDE DEF lower
<1>4. From(d, upper, AmccProps)
  BY <1>1, <1>3, PutFrom DEF AmccProps, CtrrProps
<1> HIDE DEF upper
<1>6. ones \in Values
  <2>1. [k \in 1 .. 4 |-> 255] \in Seq(0 .. 255)
    OBVIOUS
  <2> QED BY <2>1 DEF Values, Types
<1> HIDE DEF ones
<1>7. From(d, masks, AmccProps)
  BY <1>4, <1>6, PutFrom DEF AmccProps, CtrrProps
<1> HIDE DEF masks
<1>5. From(d, zeros, AmccProps)
  BY <1>1, <1>7, PutFrom DEF AmccProps, CtrrProps
<1> HIDE DEF zeros
<1> QED BY <1>1, <1>2, <1>5, PutFrom DEF AmccProps, CtrrProps

LEMMA AmccFrom ==
  ASSUME NEW d, Typed(d), Placed(d)
  PROVE  From(d, FixupAmcc(d), AmccProps)
<1> DEFINE counts == Put(d, Amcc, {"aperture-count", "plane-count"}, U32(1))
           sizes == Put(counts, Amcc, {"aperture-size", "plane-size"}, U32(16384))
           phys == Put(sizes, Amcc, {"aperture-phys-addr"}, U64(8704))
           amcc == Put(phys, Amcc, {"plane-stride", "cache-status-reg-offset",
                                     "cache-status-reg-mask", "cache-status-reg-value"},
                       U32(0))
<1>1. U32(0) \in Values /\ U32(1) \in Values /\ U32(16384) \in Values /\ U64(8704) \in Values
  BY ValuesTyped
<1>2. FixupAmcc(d) = FixupCtrr(FixupCtrr(FixupCtrr(FixupCtrr(amcc, 1), 2), 3), 4)
  BY DEF FixupAmcc
<1>3. From(d, d, AmccProps)
  BY FromSelf
<1>4. From(d, counts, AmccProps)
  BY <1>1, <1>3, PutFrom DEF AmccProps
<1> HIDE DEF counts
<1>5. From(d, sizes, AmccProps)
  BY <1>1, <1>4, PutFrom DEF AmccProps
<1> HIDE DEF sizes
<1>9. From(d, phys, AmccProps)
  BY <1>1, <1>5, PutFrom DEF AmccProps
<1> HIDE DEF phys
<1>6. From(d, amcc, AmccProps)
  BY <1>1, <1>9, PutFrom DEF AmccProps
<1> HIDE DEF amcc
<1>7. 1 \in 1 .. 4 /\ 2 \in 1 .. 4 /\ 3 \in 1 .. 4 /\ 4 \in 1 .. 4
  OBVIOUS
<1>8. From(d, FixupCtrr(FixupCtrr(amcc, 1), 2), AmccProps)
  BY <1>6, <1>7, CtrrFrom
<1> QED BY <1>2, <1>7, <1>8, CtrrFrom

LatePart(d, sw) ==
    LET machine == FixupAmcc(Put(FixupRtc(RemoveChild(d, <<"arm-io", "dockchannel-uart">>)),
                                 <<"defaults">>, {"vmm-present"}, U32(1)))
    IN  Pop(FixupSptm(FixupAic(DelCompat(machine, sw))), <<>>, {"secure-root-prefix"})
LateProps == {"no-rtc", "vmm-present"} \cup AmccProps \cup
             {"aic-iack-offset", "slide", "secure-root-prefix"} \cup MapEntries

LEMMA PathStays ==
  ASSUME NEW d, NEW e, NEW W, Edit(d, e, W), NEW p, p \in Paths(d), ~Gone(p)
  PROVE  p \in Paths(e)
BY DEF Edit, Paths

LEMMA ChosenStays ==
  ASSUME NEW d, NEW e, NEW W, Edit(d, e, W), Chosen \in Paths(d)
  PROVE  Chosen \in Paths(e)
<1>1. ~Gone(Chosen)
  BY DEF Gone, Chosen, IsPrefix
<1> QED BY <1>1, PathStays

LEMMA LateFrom ==
  ASSUME NEW d, Typed(d), Placed(d), Chosen \in Paths(d), NEW sw
  PROVE  From(d, LatePart(d, sw), LateProps)
<1> DEFINE awake == RemoveChild(d, <<"arm-io", "dockchannel-uart">>)
           clock == FixupRtc(awake)
           guest == Put(clock, <<"defaults">>, {"vmm-present"}, U32(1))
           amcc == FixupAmcc(guest)
           mute == DelCompat(amcc, sw)
           aic == FixupAic(mute)
           regions == Put(aic, MemoryMap, MapEntries, Bytes([i \in 1 .. 16 |-> 255]))
           slide == Put(regions, MemoryMap, {"slide"}, Bytes(Zeros(16)))
           sptm == RemoveChild(slide, <<"arm-io", "sgx">>)
<1>1. LatePart(d, sw) = Pop(sptm, <<>>, {"secure-root-prefix"})
  BY DEF LatePart, FixupSptm
<1>2. /\ U32(1) \in Values /\ U64(4096) \in Values
      /\ Bytes([i \in 1 .. 16 |-> 255]) \in Values /\ Bytes(Zeros(16)) \in Values
  <2>1. [i \in 1 .. 16 |-> 255] \in Seq(0 .. 255) /\ Zeros(16) \in Seq(0 .. 255)
    BY DEF Zeros
  <2>2. Bytes([i \in 1 .. 16 |-> 255]) \in Values /\ Bytes(Zeros(16)) \in Values
    BY <2>1, ValuesTyped
  <2>3. U32(1) \in Values /\ U64(4096) \in Values
    BY ValuesTyped
  <2> QED BY <2>2, <2>3
<1>3. From(d, d, LateProps)
  BY FromSelf
<1>4. From(d, awake, LateProps)
  BY <1>3, RemoveFrom
<1>5. DOMAIN awake # {}
  <2>1. Chosen \in Paths(awake)
    BY <1>4, ChosenStays DEF From
  <2> QED BY <2>1 DEF Paths
<1> HIDE DEF awake
<1>6. From(d, clock, LateProps)
  <2>1. From(awake, clock, {"no-rtc"})
    BY <1>4, <1>5, RtcFrom DEF From
  <2>2. LateProps \cup {"no-rtc"} = LateProps
    BY DEF LateProps
  <2> HIDE DEF clock
  <2> QED BY <1>4, <2>1, <2>2, FromTrans
<1> HIDE DEF clock
<1>7. From(d, guest, LateProps)
  BY <1>2, <1>6, PutFrom DEF LateProps
<1> HIDE DEF guest
<1>8. From(d, amcc, LateProps)
  <2>1. From(guest, amcc, AmccProps)
    BY <1>7, AmccFrom DEF From
  <2>2. LateProps \cup AmccProps = LateProps
    BY DEF LateProps
  <2> HIDE DEF amcc
  <2> QED BY <1>7, <2>1, <2>2, FromTrans
<1> HIDE DEF amcc
<1>9. From(d, mute, LateProps)
  BY <1>8, MuteFrom
<1> HIDE DEF mute
<1>10. From(d, aic, LateProps)
  <2>1. From(d, Put(mute, <<"arm-io", "aic">>, {"aic-iack-offset"}, U64(4096)), LateProps)
    BY <1>2, <1>9, PutFrom DEF LateProps
  <2>2. \/ FixupAic(mute) = mute
        \/ FixupAic(mute) = Put(mute, <<"arm-io", "aic">>, {"aic-iack-offset"}, U64(4096))
    BY DEF FixupAic
  <2> QED BY <1>9, <2>1, <2>2
<1> HIDE DEF aic
<1>11. From(d, regions, LateProps)
  BY <1>2, <1>10, PutFrom DEF LateProps
<1> HIDE DEF regions
<1>12. From(d, slide, LateProps)
  BY <1>2, <1>11, PutFrom DEF LateProps
<1> HIDE DEF slide
<1>13. From(d, sptm, LateProps)
  BY <1>12, RemoveFrom
<1> HIDE DEF sptm
<1> QED BY <1>1, <1>13, PopFrom DEF LateProps

\* fixup() in five parts.
LEMMA FixupFrom ==
  ASSUME NEW d, Typed(d), Placed(d), Fixable(d), NEW sw, Switches(sw)
  PROVE  \E early, ids, routes, power :
           /\ ids = AssignDartIds(early) /\ power = PowerPart(routes, sw)
           /\ From(d, early, EarlyProps)
           /\ Says(early, Chosen, "dram-size", U64(sw.dram))
           /\ From(early, ids, {"dart-id"})
           /\ From(ids, routes, RoutesProps)
           /\ From(routes, power, NormalProps)
           /\ From(power, Fixup(d, sw), LateProps)
           /\ Chosen \in Paths(Fixup(d, sw))
<1> DEFINE early == EarlyPart(d, sw)
           ids == AssignDartIds(early)
           routes == RoutesPart(ids, sw)
           power == PowerPart(routes, sw)
<1>1. Fixup(d, sw) = LatePart(power, sw)
  BY DEF Fixup, LatePart, PowerPart, RoutesPart, EarlyPart
<1>2. From(d, early, EarlyProps) /\ Says(early, Chosen, "dram-size", U64(sw.dram))
  BY EarlyFrom
<1>3. From(early, ids, {"dart-id"})
  BY <1>2, DartFrom DEF From
<1>4. From(ids, routes, RoutesProps)
  BY <1>3, RoutesFrom DEF From
<1>5. From(routes, power, NormalProps)
  BY <1>4, PowerFrom DEF From
<1>6. ids = AssignDartIds(early) /\ power = PowerPart(routes, sw)
  OBVIOUS
<1> HIDE DEF early, ids, routes, power
<1>7. Chosen \in Paths(power)
  <2>1. Chosen \in Paths(d)
    BY DEF Fixable, Required
  <2> QED BY <2>1, <1>2, <1>3, <1>4, <1>5, ChosenStays DEF From
<1>8. From(power, Fixup(d, sw), LateProps)
  BY <1>1, <1>5, <1>7, LateFrom DEF From
<1>9. Chosen \in Paths(Fixup(d, sw))
  BY <1>7, <1>8, ChosenStays DEF From
<1> QED BY <1>2, <1>3, <1>4, <1>5, <1>6, <1>8, <1>9

-----------------------------------------------------------------------------
LEMMA Decoded ==
  ASSUME NEW file, StockTree(file)
  PROVE  /\ Typed(DecodeNode(file)) /\ Placed(DecodeNode(file))
         /\ DOMAIN DecodeNode(file) = DOMAIN file
         /\ \A i \in DOMAIN file :
               LET n == DecodeNode(file)[i]
               IN  /\ n.path = file[i].path /\ n.compat = file[i].compat
                   /\ DOMAIN n.props = DOMAIN file[i].props
                   /\ \A x \in DOMAIN n.props :
                         n.props[x] = DecodeProp(x, file[i].props[x].bytes)
<1>1. /\ DOMAIN DecodeNode(file) = DOMAIN file
      /\ \A i \in DOMAIN file :
            LET n == DecodeNode(file)[i]
            IN  /\ n.path = file[i].path /\ n.compat = file[i].compat
                /\ DOMAIN n.props = DOMAIN file[i].props
                /\ \A x \in DOMAIN n.props :
                      n.props[x] = DecodeProp(x, file[i].props[x].bytes)
  BY DEF DecodeNode
<1>2. ASSUME NEW i \in DOMAIN file, NEW x \in DOMAIN file[i].props
      PROVE  DecodeProp(x, file[i].props[x].bytes) \in Values
  BY DecodeTyped DEF StockTree, Filed
<1>3. Typed(DecodeNode(file))
  BY <1>1, <1>2 DEF Typed
<1>4. Placed(DecodeNode(file))
  BY <1>1 DEF Placed, StockTree
<1> QED BY <1>1, <1>3, <1>4

LEMMA Encoded ==
  ASSUME NEW d
  PROVE  /\ DOMAIN EncodeNode(d) = DOMAIN d
         /\ \A i \in DOMAIN d :
               LET n == EncodeNode(d)[i]
               IN  /\ n.path = d[i].path /\ n.compat = d[i].compat
                   /\ DOMAIN n.props = DOMAIN d[i].props
                   /\ \A x \in DOMAIN n.props : n.props[x] = ParsePropEntry(d[i].props[x])
BY DEF EncodeNode

Infos(info) == info.fbSize \in Nat /\ info.ansRegion \in Nat /\ info.dcpRegion \in Nat

\* The switches that decide whether the DCP has room for a region; and a DRAM whose
\* addresses the numbers can say, with room for what is taken off.
Deciding(sw) == sw.dcpRegion \in BOOLEAN /\ sw.normalize \in BOOLEAN
Roomy(sw) ==
    /\ sw.dram + 1048576 < NumberBound
    /\ sw.info.fbSize + sw.info.ansRegion + sw.info.dcpRegion + PanicLogSize <= sw.dram

TreeInv ==
    /\ StockTree(stock) /\ Switches(env) /\ Infos(env.info) /\ Deciding(env) /\ Roomy(env)
    /\ phase \in {"stock", "failed", "fixed", "loaded"}
    /\ \/ out = <<>> /\ phase \in {"stock", "failed"}
       \/ Fixable(DecodeNode(stock)) /\ out = EncodeNode(Fixup(DecodeNode(stock), env))
    /\ IF phase = "loaded" THEN ld = LoadTree(out, env.info) ELSE ld = NotLoaded

LEMMA TreeInit == Init => TreeInv
<1> SUFFICES ASSUME Init PROVE TreeInv
  OBVIOUS
<1>1. PICK b \in Boots : env = b.env /\ stock = b.tree
  BY DEF Init
<1>2. StockTree(stock) /\ Switches(env) /\ Infos(env.info) /\ Deciding(env) /\ Roomy(env)
  BY <1>1, TreesAssumption DEF Switches, Infos, Deciding, Roomy
<1> QED BY <1>2 DEF Init, TreeInv

LEMMA TreeStep == TreeInv /\ [Next]_vars => TreeInv'
<1> SUFFICES ASSUME TreeInv, [Next]_vars PROVE TreeInv'
  OBVIOUS
<1>1. CASE FixupTree
  BY <1>1 DEF FixupTree, TreeInv, DtFixupTool
<1>2. CASE LoadKernel
  BY <1>2 DEF LoadKernel, TreeInv
<1>3. CASE RebaseCl4 \/ RunCl4 \/ UNCHANGED vars
  BY <1>3 DEF RebaseCl4, RunCl4, vars, bootvars, TreeInv
<1> QED BY <1>1, <1>2, <1>3 DEF Next

LEMMA TreeInvHolds == Spec => []TreeInv
BY TreeInit, TreeStep, PTL DEF Spec

LEMMA OutFrom ==
  ASSUME TreeInv, out # <<>>
  PROVE  LET d == DecodeNode(stock)
         IN  Typed(d) /\ Placed(d) /\ Fixable(d) /\ out = EncodeNode(Fixup(d, env))
BY Decoded DEF TreeInv

LEMMA OutTyped ==
  ASSUME TreeInv
  PROVE  \A i \in DOMAIN out : \A n \in DOMAIN out[i].props : Filed(out[i].props[n])
<1>1. CASE out = <<>>
  BY <1>1
<1>2. CASE out # <<>>
  <2> DEFINE d == Fixup(DecodeNode(stock), env)
  <2>1. Typed(d) /\ out = EncodeNode(d)
    BY <1>2, OutFrom, FixupFrom DEF From, TreeInv
  <2> HIDE DEF d
  <2> QED BY <2>1, Encoded, EncodeTyped DEF Typed
<1> QED BY <1>1, <1>2

LEMMA RangeTyped ==
  ASSUME NEW S, NEW q \in Seq(S)
  PROVE  Range(q) \subseteq S
<1>1. \A i \in 1 .. Len(q) : q[i] \in S
  BY ElementOfSeq
<1>2. DOMAIN q = 1 .. Len(q)
  OBVIOUS
<1> QED BY <1>1, <1>2 DEF Range

LEMMA EretsCounted == Spec => [](erets \in 0 .. MaxErets)
<1>1. Init => erets \in 0 .. MaxErets
  BY Cl4Assumption DEF Init, Cl4Init
<1>2. erets \in 0 .. MaxErets /\ [Next]_vars => (erets \in 0 .. MaxErets)'
  <2> SUFFICES ASSUME erets \in 0 .. MaxErets, [Next]_vars
               PROVE  erets' = erets \/ (erets < MaxErets /\ erets' = erets + 1)
    BY Cl4Assumption
  <2>1. UNCHANGED cl4vars => erets' = erets
    BY DEF cl4vars
  <2>2. CASE FixupTree \/ RebaseCl4 \/ UNCHANGED vars
    BY <2>1, <2>2 DEF vars, FixupTree, RebaseCl4
  <2>3. CASE LoadKernel
    BY <2>1, <2>3 DEF LoadKernel, InstallCl4
  <2>4. CASE RunCl4
    <3>1. CASE \/ TrampolinePrologue \/ TrampolineCall \/ Constructor(env.needs)
               \/ ConstructorLogs \/ TrampolineEpilogue \/ DomainSetup \/ CallOwnCtor
               \/ FinishInit \/ BackToSptm
      BY <3>1 DEF TrampolinePrologue, TrampolineCall, Constructor, ConstructorLogs,
         TrampolineEpilogue, DomainSetup, CallOwnCtor, FinishInit, BackToSptm
    <3>2. ASSUME NEW pc, NEW g, NEW x1, ExceptionReturn(pc, g, x1)
          PROVE  erets < MaxErets /\ erets' = erets + 1
      BY <3>2 DEF ExceptionReturn
    <3> QED BY <2>4, <3>1, <3>2 DEF RunCl4, Cl4Next
  <2> QED BY <2>2, <2>3, <2>4 DEF Next
<1> QED BY <1>1, <1>2, PTL DEF Spec

(* From the file that is read to the kernel's entry every variable keeps to *)
(* its type; what dt_fixup.py writes is bytes, padded to words.             *)
THEOREM BootTypeCorrect == Spec => []TypeOK
<1>1. Cl4Inv /\ TreeInv /\ FixTypeOK /\ erets \in 0 .. MaxErets => TypeOK
  <2> SUFFICES ASSUME Cl4Inv, TreeInv, FixTypeOK, erets \in 0 .. MaxErets
               PROVE  TypeOK
    OBVIOUS
  <2>1. cpu \in Cpus /\ own \in Owns /\ called \in Seq(Calls)
    BY DEF Cl4Inv, Cl4TypeOK
  <2>2. Range(called) \subseteq Calls
    BY <2>1, RangeTyped
  <2>3. /\ cpu.pc \in {"sptm", "entry", "other", "tramp", "loop", "ctor", "init", "cl4",
                       "fault", "svc", "tag3"}
        /\ cpu.x21 \in 1 .. Ctors + 1
    BY <2>1 DEF Cpus, Pcs
  <2> QED BY <2>1, <2>2, <2>3, OutTyped DEF TypeOK, TreeInv, Owns, Calls
<1>2. Spec => []Cl4Inv
  BY Cl4InvInit, Cl4InvStep, PTL DEF Spec
<1> QED BY <1>1, <1>2, TreeInvHolds, FixupTypeCorrect, EretsCounted, PTL

-----------------------------------------------------------------------------
(* The model's numbers lose nothing below 2^24.                             *)
LEMMA NumberValue ==
  ASSUME NEW k \in Nat, k < NumberBound, NEW n \in Nat, n >= 3
  PROVE  Value(Number(k, n)) = k
<1>1. k < 16777216
  BY SMT DEF NumberBound
<1>2. /\ Number(k, n)[1] = k % 256 /\ Number(k, n)[2] = (k \div 256) % 256
      /\ Number(k, n)[3] = (k \div 65536) % 256
  BY <1>1 DEF Number
<1>3. (k % 256) + (256 * ((k \div 256) % 256)) + (65536 * ((k \div 65536) % 256)) = k
  BY <1>1, SMT
<1> QED BY <1>2, <1>3 DEF Value

LEMMA NumberRead ==
  ASSUME NEW k \in Int, NEW n \in Nat, n >= 3
  PROVE  Value(Number(k, n)) \in Int
<1>1. /\ Number(k, n)[1] = k % 256 /\ Number(k, n)[2] = (k \div 256) % 256
      /\ Number(k, n)[3] = (k \div 65536) % 256
  BY DEF Number
<1>2. k % 256 \in Int /\ (k \div 256) % 256 \in Int /\ (k \div 65536) % 256 \in Int
  OBVIOUS
<1>3. \A x, y, z \in Int : x + (256 * y) + (65536 * z) \in Int
  OBVIOUS
<1> QED BY <1>1, <1>2, <1>3 DEF Value

LEMMA FiledNumber ==
  ASSUME NEW k \in Int
  PROVE  /\ ParsePropEntry(U32(k)).bytes = Number(k, 4) /\ ParsePropEntry(U32(k)).len = 4
         /\ ParsePropEntry(U64(k)).bytes = Number(k, 8) /\ ParsePropEntry(U64(k)).len = 8
<1>1. /\ Number(k, 4) \in Seq(0 .. 255) /\ Len(Number(k, 4)) = 4
      /\ Number(k, 8) \in Seq(0 .. 255) /\ Len(Number(k, 8)) = 8
  BY NumberTyped, ZenonT(60)
<1>2. RoundUpToMultipleOf4(4) = 4 /\ RoundUpToMultipleOf4(8) = 8
  BY DEF RoundUpToMultipleOf4
<1>3. Ljust(Number(k, 4)) = Number(k, 4) /\ Ljust(Number(k, 8)) = Number(k, 8)
  BY <1>1, <1>2, LjustSame
<1>4. /\ ParsePropEntry(U32(k)) = [len |-> Len(Number(k, 4)), bytes |-> Ljust(Number(k, 4))]
      /\ ParsePropEntry(U64(k)) = [len |-> Len(Number(k, 8)), bytes |-> Ljust(Number(k, 8))]
  BY DEF ParsePropEntry, U32, U64
<1> QED BY <1>1, <1>3, <1>4

LEMMA DartCounts ==
  ASSUME NEW d, StockTree(d), NEW e, NEW W, From(DecodeNode(d), e, W), NEW i, NEW j \in DOMAIN e,
         i \in DOMAIN e, IsDart(e[i]), i < j
  PROVE  /\ Cardinality(DartsBefore(e, i)) \in Nat
         /\ Cardinality(DartsBefore(e, j)) \in Nat
         /\ Cardinality(DartsBefore(e, j)) < NumberBound
         /\ Cardinality(DartsBefore(e, i)) < Cardinality(DartsBefore(e, j))
<1>1. ASSUME NEW k PROVE DartsBefore(e, k) \subseteq 1 .. Len(d)
  <2>1. ASSUME NEW l \in DOMAIN e, IsDart(e[l]) PROVE l \in DOMAIN d
    BY <2>1, Decoded DEF From, Edit, Rtc, IsDart
  <2> QED BY <2>1 DEF DartsBefore, StockTree
<1>2. Len(d) \in Nat /\ Len(d) < NumberBound
  BY DEF StockTree
<1>3. ASSUME NEW k
      PROVE  /\ IsFiniteSet(DartsBefore(e, k))
             /\ Cardinality(DartsBefore(e, k)) \in Nat
             /\ Cardinality(DartsBefore(e, k)) < NumberBound
  <2>1. IsFiniteSet(1 .. Len(d)) /\ Cardinality(1 .. Len(d)) = Len(d)
    <3>1. /\ IsFiniteSet(1 .. Len(d))
          /\ Cardinality(1 .. Len(d)) = IF 1 > Len(d) THEN 0 ELSE Len(d) - 1 + 1
      BY <1>2, FS_Interval, SMTT(60)
    <3> QED BY <1>2, <3>1
  <2>2. /\ IsFiniteSet(DartsBefore(e, k))
        /\ Cardinality(DartsBefore(e, k)) <= Cardinality(1 .. Len(d))
    BY <1>1, <2>1, FS_Subset
  <2>3. Cardinality(DartsBefore(e, k)) \in Nat
    BY <2>2, FS_CardinalityType
  <2>4. NumberBound \in Nat
    BY SMT DEF NumberBound
  <2> QED BY <1>2, <2>1, <2>2, <2>3, <2>4
<1>4. DartsBefore(e, i) \subseteq DartsBefore(e, j) /\ DartsBefore(e, i) # DartsBefore(e, j)
  <2>1. DOMAIN e \subseteq Nat
    BY DEF From, Placed
  <2>2. i \in DartsBefore(e, j) /\ i \notin DartsBefore(e, i)
    BY <2>1 DEF DartsBefore
  <2> QED BY <2>1, <2>2 DEF DartsBefore
<1>5. Cardinality(DartsBefore(e, i)) < Cardinality(DartsBefore(e, j))
  BY <1>3, <1>4, FS_Subset
<1> QED BY <1>3, <1>5

\* What each DART of the finished tree was numbered with.
LEMMA DartNumbered ==
  ASSUME NEW early, NEW ids, NEW final, NEW W, NEW X, ids = AssignDartIds(early),
         From(early, ids, X), From(ids, final, W), "dart-id" \notin W,
         NEW i \in DOMAIN final, IsDart(final[i])
  PROVE  /\ i \in DOMAIN early /\ IsDart(early[i])
         /\ "dart-id" \in DOMAIN final[i].props
         /\ final[i].props["dart-id"] = U32(Cardinality(DartsBefore(early, i)))
<1>1. ~Rtc(final[i])
  BY DEF Rtc, IsDart
<1>2. i \in DOMAIN ids /\ NodeEdit(ids[i], final[i], W)
  BY <1>1 DEF From, Edit
<1>3. IsDart(ids[i])
  BY <1>2 DEF NodeEdit, IsDart
<1>4. i \in DOMAIN early /\ NodeEdit(early[i], ids[i], X)
  BY <1>2, <1>3 DEF From, Edit, Rtc, IsDart
<1>5. IsDart(early[i])
  BY <1>3, <1>4 DEF NodeEdit, IsDart
<1>6. ids[i] = Set(early[i], {"dart-id"}, U32(Cardinality(DartsBefore(early, i))))
  BY <1>4, <1>5, DartAt
<1>7. /\ "dart-id" \in DOMAIN ids[i].props
      /\ ids[i].props["dart-id"] = U32(Cardinality(DartsBefore(early, i)))
  BY <1>6, SetParts
<1> QED BY <1>2, <1>4, <1>5, <1>7 DEF NodeEdit, Same

(* Every DART that is still awake has an id and no two have the same, for   *)
(* any device tree and whichever nodes are muted.                           *)
THEOREM DartsCorrect == Spec => []DartIdsDistinct
<1>1. TreeInv => DartIdsDistinct
  <2> SUFFICES ASSUME TreeInv, out # <<>> PROVE DartIdsDistinct
    BY DEF DartIdsDistinct
  <2> DEFINE stk == DecodeNode(stock)
             final == Fixup(stk, env)
  <2>1. StockTree(stock) /\ Switches(env)
    BY DEF TreeInv
  <2>2. Typed(stk) /\ Placed(stk) /\ Fixable(stk) /\ out = EncodeNode(final)
    BY OutFrom
  <2> HIDE DEF stk
  <2>3. PICK early, ids, routes, power :
           /\ ids = AssignDartIds(early)
           /\ From(stk, early, EarlyProps) /\ From(early, ids, {"dart-id"})
           /\ From(ids, routes, RoutesProps) /\ From(routes, power, NormalProps)
           /\ From(power, final, LateProps)
    BY <2>1, <2>2, FixupFrom
  <2> DEFINE W == (RoutesProps \cup NormalProps) \cup LateProps
  <2>4. From(ids, final, W) /\ "dart-id" \notin W
    <3>1. From(ids, power, RoutesProps \cup NormalProps)
      BY <2>3, FromTrans
    <3>2. "dart-id" \notin W
      BY DEF RoutesProps, NormalProps, LateProps, RegionProps, PowerFlags, AmccProps,
         CtrrProps, MapEntries
    <3> QED BY <2>3, <3>1, <3>2, FromTrans
  <2> HIDE DEF W, final
  <2> DEFINE count(i) == Cardinality(DartsBefore(early, i))
  <2>5. ASSUME NEW i \in DOMAIN out, IsDart(out[i])
        PROVE  /\ i \in DOMAIN early /\ IsDart(early[i])
               /\ "dart-id" \in DOMAIN out[i].props
               /\ out[i].props["dart-id"] = ParsePropEntry(U32(count(i)))
    <3>1. i \in DOMAIN final /\ IsDart(final[i])
      BY <2>2, <2>5, Encoded DEF IsDart
    <3>2. /\ i \in DOMAIN early /\ IsDart(early[i])
          /\ "dart-id" \in DOMAIN final[i].props
          /\ final[i].props["dart-id"] = U32(count(i))
      BY <2>3, <2>4, <3>1, DartNumbered
    <3> QED BY <2>2, <3>1, <3>2, Encoded
  <2>6. ASSUME NEW i \in DOMAIN out, NEW j \in DOMAIN out, IsDart(out[i]), IsDart(out[j]),
               i < j
        PROVE  out[i].props["dart-id"] # out[j].props["dart-id"]
    <3>1. count(i) \in Nat /\ count(j) \in Nat /\ count(i) < count(j) /\ count(j) < NumberBound
      BY <2>1, <2>3, <2>5, <2>6, DartCounts DEF stk
    <3> HIDE DEF count
    <3>2. Value(Number(count(i), 4)) = count(i) /\ Value(Number(count(j), 4)) = count(j)
      <4>1. NumberBound \in Nat
        BY SMT DEF NumberBound
      <4>2. count(i) < NumberBound
        BY <3>1, <4>1
      <4> QED BY <3>1, <4>2, NumberValue
    <3>3. /\ ParsePropEntry(U32(count(i))).bytes = Number(count(i), 4)
          /\ ParsePropEntry(U32(count(j))).bytes = Number(count(j), 4)
      BY <3>1, FiledNumber
    <3>4. count(i) # count(j)
      BY <3>1
    <3> QED BY <2>5, <2>6, <3>2, <3>3, <3>4
  <2>7. ASSUME NEW i \in DOMAIN out PROVE i \in Nat
    BY <2>2, <2>4, <2>7, Encoded DEF From, Placed
  <2>8. ASSUME NEW i \in DOMAIN out, NEW j \in DOMAIN out, IsDart(out[i]), IsDart(out[j]),
               i # j
        PROVE  out[i].props["dart-id"] # out[j].props["dart-id"]
    BY <2>6, <2>7, <2>8
  <2> QED BY <2>5, <2>8 DEF DartIdsDistinct
<1> QED BY <1>1, TreeInvHolds, PTL

-----------------------------------------------------------------------------
\* Which power flags the DCP's nub has.
Flags(n) == DOMAIN n.props \cap PowerFlags
FlagsIn(d, S) == \A i \in DOMAIN d : d[i].path = DcpNub => Flags(d[i]) \subseteq S
OneFlag(d) == \A i \in DOMAIN d : d[i].path = DcpNub =>
                 \A f, g \in Flags(d[i]) : f = g

LEMMA FlagsStay ==
  ASSUME NEW d, NEW e, NEW W, From(d, e, W), W \cap PowerFlags = {}, NEW S
  PROVE  /\ OneFlag(d) => OneFlag(e)
         /\ FlagsIn(d, S) => FlagsIn(e, S)
<1>1. DcpNub # <<"rtc">>
  BY DEF DcpNub
<1>2. ASSUME NEW i \in DOMAIN e, e[i].path = DcpNub
      PROVE  i \in DOMAIN d /\ d[i].path = DcpNub /\ Flags(e[i]) = Flags(d[i])
  BY <1>1, <1>2 DEF From, Edit, Rtc, NodeEdit, Same, Flags
<1> QED BY <1>2 DEF OneFlag, FlagsIn

LEMMA PutFlags ==
  ASSUME NEW d, NEW S, FlagsIn(d, S), NEW names, NEW v
  PROVE  FlagsIn(Put(d, DcpNub, names, v), S \cup (names \cap PowerFlags))
<1> DEFINE e == Put(d, DcpNub, names, v)
<1> SUFFICES ASSUME NEW i \in DOMAIN e, e[i].path = DcpNub
             PROVE  Flags(e[i]) \subseteq S \cup (names \cap PowerFlags)
  BY DEF FlagsIn
<1>1. i \in DOMAIN d /\ e[i] = PutAt(d[i], DcpNub, names, v)
  BY DEF Put
<1> HIDE DEF e
<1>2. d[i].path = DcpNub /\ e[i] = Set(d[i], names, v)
  BY <1>1, SetParts DEF PutAt
<1> QED BY <1>1, <1>2, SetParts DEF FlagsIn, Flags

LEMMA PopFlags ==
  ASSUME NEW d, NEW S, FlagsIn(d, S), NEW names
  PROVE  FlagsIn(Pop(d, DcpNub, names), S \ names)
<1> DEFINE e == Pop(d, DcpNub, names)
<1> SUFFICES ASSUME NEW i \in DOMAIN e, e[i].path = DcpNub
             PROVE  Flags(e[i]) \subseteq S \ names
  BY DEF FlagsIn
<1>1. i \in DOMAIN d /\ e[i] = PopAt(d[i], DcpNub, names)
  BY DEF Pop
<1> HIDE DEF e
<1>2. d[i].path = DcpNub /\ e[i] = Unset(d[i], names)
  BY <1>1, UnsetParts DEF PopAt
<1> QED BY <1>1, <1>2, UnsetParts DEF FlagsIn, Flags

LEMMA SingleFlag ==
  ASSUME NEW d, NEW f, FlagsIn(d, {f})
  PROVE  OneFlag(d)
BY DEF FlagsIn, OneFlag

\* Whatever the switches, one flag at most.
LEMMA PowerOne ==
  ASSUME NEW d, OneFlag(d), FlagsIn(d, PowerFlags \ {"dont-power-on"}), NEW sw
  PROVE  OneFlag(PowerPart(d, sw))
<1> DEFINE e == NormalizeDcp(d, sw)
           bare == Pop(e, DcpNub, PowerFlags \cup {"quiesced"})
<1>1. OneFlag(e)
  <2> DEFINE gone == {"coredump-enable", "coredump-rel-privacy-approved",
                      "no-firmware-service", "routes", "user-power-managed", "watchdog-enable"}
             power == Put(Pop(d, DcpNub, gone), DcpNub, {"power-managed"}, U32(1))
             region == Put(power, DcpNub, RegionProps, U64(0))
             nulls == {"continuous-time", "crashlog-non-fatal", "no-hibernate-sleep",
                       "shutdown-sleep"}
  <2>1. e = d \/ e = Put(region, DcpNub, nulls, Null)
    BY DEF NormalizeDcp
  <2>2. FlagsIn(Pop(d, DcpNub, gone), (PowerFlags \ {"dont-power-on"}) \ gone)
    BY PopFlags
  <2>3. FlagsIn(power, ((PowerFlags \ {"dont-power-on"}) \ gone)
                       \cup ({"power-managed"} \cap PowerFlags))
    BY <2>2, PutFlags
  <2>4. ((PowerFlags \ {"dont-power-on"}) \ gone) \cup ({"power-managed"} \cap PowerFlags)
          = {"power-managed"}
    BY DEF PowerFlags
  <2> HIDE DEF power
  <2>5. FlagsIn(region, {"power-managed"} \cup (RegionProps \cap PowerFlags))
    BY <2>3, <2>4, PutFlags
  <2>6. /\ {"power-managed"} \cup (RegionProps \cap PowerFlags) = {"power-managed"}
        /\ {"power-managed"} \cup (nulls \cap PowerFlags) = {"power-managed"}
    BY DEF PowerFlags, RegionProps
  <2> HIDE DEF region, nulls, e
  <2>7. FlagsIn(Put(region, DcpNub, nulls, Null), {"power-managed"})
    BY <2>5, <2>6, PutFlags
  <2>8. OneFlag(Put(region, DcpNub, nulls, Null))
    BY <2>7, SingleFlag
  <2> QED BY <2>1, <2>8
<1>2. \/ PowerPart(d, sw) = e \/ PowerPart(d, sw) = bare
      \/ PowerPart(d, sw) = Put(bare, DcpNub, {"power-managed"}, U32(1))
      \/ PowerPart(d, sw) = Put(bare, DcpNub, {"dont-power-on"}, Null)
  BY Zenon DEF PowerPart, FixupPowerMode
<1> HIDE DEF e
<1>3. FlagsIn(bare, {})
  <2>1. FlagsIn(e, PowerFlags)
    BY DEF FlagsIn, Flags
  <2>2. FlagsIn(bare, PowerFlags \ (PowerFlags \cup {"quiesced"}))
    BY <2>1, PopFlags
  <2>3. PowerFlags \ (PowerFlags \cup {"quiesced"}) = {}
    OBVIOUS
  <2> QED BY <2>2, <2>3
<1> HIDE DEF bare
<1>4. OneFlag(bare)
  BY <1>3 DEF FlagsIn, OneFlag
<1>5. ASSUME NEW f \in PowerFlags, NEW v PROVE OneFlag(Put(bare, DcpNub, {f}, v))
  <2>1. FlagsIn(Put(bare, DcpNub, {f}, v), {} \cup ({f} \cap PowerFlags))
    BY <1>3, PutFlags
  <2>2. {} \cup ({f} \cap PowerFlags) = {f}
    OBVIOUS
  <2> QED BY <2>1, <2>2, SingleFlag
<1>6. "power-managed" \in PowerFlags /\ "dont-power-on" \in PowerFlags
  BY DEF PowerFlags
<1> QED BY <1>1, <1>2, <1>4, <1>5, <1>6

(* Whichever switches are combined, the DCP's nub ends up with one power    *)
(* flag at most, if it had at most one of the two others to begin with.     *)
THEOREM FlagsCorrect == Spec => []PowerFlagsExclusive
<1>1. TreeInv => PowerFlagsExclusive
  <2> SUFFICES ASSUME TreeInv, NEW f \in PowerFlags, NEW g \in PowerFlags,
                      HasProp(out, DcpNub, f), HasProp(out, DcpNub, g)
               PROVE  f = g
    BY DEF PowerFlagsExclusive
  <2> DEFINE stk == DecodeNode(stock)
             final == Fixup(stk, env)
  <2>1. StockTree(stock) /\ Switches(env)
    BY DEF TreeInv
  <2>2. PICK i \in DOMAIN out : out[i].path = DcpNub /\ Node(out, DcpNub) = out[i]
    BY NodeHas DEF HasProp
  <2>3. Typed(stk) /\ Placed(stk) /\ Fixable(stk) /\ out = EncodeNode(final)
    <3>1. out # <<>>
      BY <2>2
    <3> QED BY <3>1, OutFrom
  <2>4. OneFlag(stk) /\ FlagsIn(stk, PowerFlags \ {"dont-power-on"})
    <3> SUFFICES ASSUME NEW j \in DOMAIN stock, stock[j].path = DcpNub
                 PROVE  /\ \A x, y \in DOMAIN stock[j].props \cap PowerFlags : x = y
                        /\ "dont-power-on" \notin DOMAIN stock[j].props
      BY <2>1, Decoded DEF OneFlag, FlagsIn, Flags
    <3> QED BY <2>1 DEF StockTree, PowerFlags
  <2> HIDE DEF stk
  <2>5. PICK early, ids, routes, power :
           /\ power = PowerPart(routes, env)
           /\ From(stk, early, EarlyProps) /\ From(early, ids, {"dart-id"})
           /\ From(ids, routes, RoutesProps) /\ From(power, final, LateProps)
    BY <2>1, <2>3, FixupFrom
  <2> HIDE DEF final
  <2>6. /\ EarlyProps \cap PowerFlags = {} /\ {"dart-id"} \cap PowerFlags = {}
        /\ RoutesProps \cap PowerFlags = {} /\ LateProps \cap PowerFlags = {}
    BY DEF EarlyProps, DramProps, MachineProps, LogProps, RoutesProps, RegionProps, LateProps,
       AmccProps, CtrrProps, MapEntries, PowerFlags
  <2>7. OneFlag(routes) /\ FlagsIn(routes, PowerFlags \ {"dont-power-on"})
    BY <2>4, <2>5, <2>6, FlagsStay
  <2>8. OneFlag(final)
    BY <2>5, <2>6, <2>7, PowerOne, FlagsStay
  <2>9. /\ i \in DOMAIN final /\ final[i].path = DcpNub
        /\ f \in Flags(final[i]) /\ g \in Flags(final[i])
    BY <2>2, <2>3, Encoded DEF HasProp, Flags
  <2> QED BY <2>8, <2>9 DEF OneFlag
<1> QED BY <1>1, TreeInvHolds, PTL

-----------------------------------------------------------------------------
\* The size of DRAM, wherever the tree is asked for it.
Dram(tree, top) ==
    /\ Chosen \in Paths(tree)
    /\ \A i \in DOMAIN tree : tree[i].path = Chosen =>
          "dram-size" \in DOMAIN tree[i].props
          /\ Value(tree[i].props["dram-size"].bytes) = top

LEMMA DramRead ==
  ASSUME NEW tree, NEW top, Dram(tree, top)
  PROVE  DramSize(tree) = top
BY NodeHas DEF Dram, DramSize

LEMMA PutDram ==
  ASSUME NEW tree, NEW top, Dram(tree, top), NEW p, NEW n, n # "dram-size", NEW v
  PROVE  Dram(Put(tree, p, {n}, v), top)
<1> DEFINE f == Put(tree, p, {n}, v)
<1>1. DOMAIN f = DOMAIN tree /\ \A i \in DOMAIN tree : f[i] = PutAt(tree[i], p, {n}, v)
  BY DEF Put
<1> HIDE DEF f
<1>2. ASSUME NEW i \in DOMAIN tree
      PROVE  /\ f[i].path = tree[i].path
             /\ "dram-size" \in DOMAIN tree[i].props =>
                   /\ "dram-size" \in DOMAIN f[i].props
                   /\ f[i].props["dram-size"] = tree[i].props["dram-size"]
  BY <1>1, SetParts DEF PutAt
<1> QED BY <1>1, <1>2 DEF Dram, Paths, f

\* Loader states with such a tree.
DramState(s, top) == LoaderState(s) /\ Dram(s.tree, top)

LEMMA PublishDram ==
  ASSUME NEW s, NEW top, DramState(s, top), NEW p, NEW n, n # "dram-size", NEW bytes
  PROVE  DramState(Publish(s, p, n, bytes), top)
<1>1. CASE HasProp(s.tree, p, n)
  <2>1. PICK v, spilled : Publish(s, p, n, bytes) =
                            [s EXCEPT !.tree = Put(s.tree, p, {n}, v), !.spilled = spilled]
    BY <1>1 DEF Publish
  <2> DEFINE tree == Put(s.tree, p, {n}, v)
             r == [s EXCEPT !.tree = tree, !.spilled = spilled]
  <2>2. Dram(tree, top)
    BY PutDram DEF DramState
  <2> HIDE DEF tree
  <2>3. LoaderState(r) /\ r.tree = tree
    BY DEF DramState, LoaderState
  <2> HIDE DEF r
  <2> QED BY <2>1, <2>2, <2>3 DEF DramState, r, tree
<1>2. CASE ~HasProp(s.tree, p, n)
  BY <1>2 DEF Publish
<1> QED BY <1>1, <1>2

LEMMA CarveDram ==
  ASSUME NEW s, NEW top, DramState(s, top), NEW name, NEW size
  PROVE  DramState(Carve(s, name, size), top)
<1> DEFINE cs == [n \in DOMAIN s.carves \cup {name} |->
                    IF n = name THEN [lo |-> s.mem - size, hi |-> s.mem]
                    ELSE s.carves[n]]
           r == [s EXCEPT !.mem = s.mem - size, !.carves = cs]
<1>1. Carve(s, name, size) = r
  BY Zenon DEF Carve
<1> HIDE DEF cs
<1>2. LoaderState(r) /\ r.tree = s.tree
  BY DEF DramState, LoaderState
<1> HIDE DEF r
<1> QED BY <1>1, <1>2 DEF DramState

LEMMA LoadDram ==
  ASSUME NEW tree, NEW top, Dram(tree, top), NEW info
  PROVE  Dram(LoadTree(tree, info).tree, top)
<1> DEFINE start == [mem |-> DramSize(tree), carves |-> <<>>, tree |-> tree, spilled |-> {}]
           fb    == CarveFramebuffer(start, info)
           ans   == CarveAns(fb, info)
           dcp   == CarveDcp(ans, info)
           pram  == CarvePram(dcp, info)
           video == PublishFramebuffer(pram, info)
<1>1. LoadTree(tree, info) = video
  BY DEF LoadTree
<1>2. DramState(start, top)
  BY DEF DramState, LoaderState
<1>3. DramState(fb, top)
  BY <1>2, CarveDram DEF CarveFramebuffer
<1> HIDE DEF start, fb
<1>4. DramState(ans, top)
  BY <1>3, CarveDram, PublishDram DEF CarveAns
<1> HIDE DEF ans
<1>5. DramState(dcp, top)
  BY <1>4, CarveDram, PublishDram DEF CarveDcp
<1> HIDE DEF dcp
<1>6. DramState(pram, top)
  BY <1>5, CarveDram, PublishDram DEF CarvePram
<1> HIDE DEF pram
<1>7. DramState(video, top)
  BY <1>6, PublishDram DEF PublishFramebuffer
<1> QED BY <1>1, <1>7 DEF DramState

(* No two of the regions the loader hides overlap, and none reaches into    *)
(* the memory the kernel is left with or past the size of DRAM the tree     *)
(* goes on stating: for any tree, any sizes and any switches.               *)
THEOREM CarvesCorrect == Spec => []CarveOutsDisjoint
<1>1. TreeInv => CarveOutsDisjoint
  <2> SUFFICES ASSUME TreeInv PROVE CarveOutsDisjoint
    OBVIOUS
  <2>1. CASE phase # "loaded"
    BY <2>1 DEF TreeInv, NotLoaded, CarveOutsDisjoint
  <2>2. CASE phase = "loaded"
    <3> DEFINE stk == DecodeNode(stock)
               final == Fixup(stk, env)
               size == ParsePropEntry(U64(env.dram))
               top == Value(size.bytes)
    <3>1. /\ ld = LoadTree(out, env.info) /\ Infos(env.info) /\ Switches(env)
          /\ Fixable(stk) /\ out = EncodeNode(final)
      BY <2>2 DEF TreeInv
    <3>2. Typed(stk) /\ Placed(stk)
      BY Decoded DEF TreeInv
    <3> HIDE DEF stk
    <3>3. PICK early, ids, routes, power :
             /\ Says(early, Chosen, "dram-size", U64(env.dram))
             /\ From(early, ids, {"dart-id"}) /\ From(ids, routes, RoutesProps)
             /\ From(routes, power, NormalProps) /\ From(power, final, LateProps)
             /\ Chosen \in Paths(final)
      BY <3>1, <3>2, FixupFrom
    <3> HIDE DEF final
    <3>4. Says(final, Chosen, "dram-size", U64(env.dram))
      <4>1. /\ "dram-size" \notin {"dart-id"} /\ "dram-size" \notin RoutesProps
            /\ "dram-size" \notin NormalProps /\ "dram-size" \notin LateProps
        BY DEF RoutesProps, NormalProps, LateProps, RegionProps, PowerFlags, AmccProps,
           CtrrProps, MapEntries
      <4>2. Chosen # <<"rtc">>
        BY DEF Chosen
      <4> QED BY <3>3, <4>1, <4>2, EditSays DEF From
    <3>5. Dram(out, top)
      <4>1. Chosen \in Paths(out)
        BY <3>1, <3>3, Encoded DEF Paths
      <4>2. ASSUME NEW i \in DOMAIN out, out[i].path = Chosen
            PROVE  /\ "dram-size" \in DOMAIN out[i].props
                   /\ out[i].props["dram-size"] = size
        BY <3>1, <3>4, <4>2, Encoded DEF Says
      <4> QED BY <4>1, <4>2 DEF Dram
    <3>6. top \in Int
      <4>1. env.dram \in Int
        BY <3>1 DEF Switches
      <4>2. size.bytes = Number(env.dram, 8)
        BY <4>1, FiledNumber
      <4>3. Value(Number(env.dram, 8)) \in Int
        BY <4>1, NumberRead
      <4> QED BY <4>2, <4>3
    <3> HIDE DEF top
    <3>7. DramSize(out) = top /\ DramSize(ld.tree) = top
      BY <3>1, <3>5, DramRead, LoadDram
    <3>8. Apart(ld, DramSize(ld.tree))
      BY <3>1, <3>6, <3>7, CarveOutsApart DEF Infos
    <3> QED BY <3>8 DEF Apart, CarveOutsDisjoint
  <2> QED BY <2>1, <2>2
<1> QED BY <1>1, TreeInvHolds, PTL

-----------------------------------------------------------------------------
\* d is what s begins with, then come zeros.
Begins(s, d) ==
    /\ Len(d) <= Len(s)
    /\ \A i \in 1 .. Len(d) : s[i] = d[i] /\ d[i] # 0
    /\ \A i \in 1 .. Len(s) : i > Len(d) => s[i] = 0

LEMMA ByteAt ==
  ASSUME NEW s \in Seq(0 .. 255)
  PROVE  \A i \in 1 .. Len(s) : s[i] \in 0 .. 255
<1>1. \A S : \A q \in Seq(S) : \A i \in 1 .. Len(q) : q[i] \in S
  BY ElementOfSeq
<1> QED BY <1>1, Zenon

LEMMA Prefix ==
  ASSUME NEW s \in Seq(0 .. 255), NEW m \in 0 .. Len(s)
  PROVE  /\ SubSeq(s, 1, m) \in Seq(0 .. 255) /\ Len(SubSeq(s, 1, m)) = m
         /\ \A i \in 1 .. m : SubSeq(s, 1, m)[i] = s[i]
<1>1. 1 \in Int /\ m \in Int /\ Len(s) \in Nat
  OBVIOUS
<1>2. \A i \in 1 .. m : s[i] \in 0 .. 255
  <2>1. \A i \in 1 .. m : i \in 1 .. Len(s)
    BY <1>1
  <2> QED BY <2>1, ByteAt
<1>3. /\ SubSeq(s, 1, m) \in Seq(0 .. 255)
      /\ Len(SubSeq(s, 1, m)) = IF 1 <= m THEN m - 1 + 1 ELSE 0
      /\ \A i \in 1 .. m - 1 + 1 : SubSeq(s, 1, m)[i] = s[1 + i - 1]
  BY <1>1, <1>2, SubSeqProperties
<1> QED BY <1>1, <1>3

(* The string read is the bytes before the first zero.                      *)
LEMMA StringIs ==
  ASSUME NEW s \in Seq(0 .. 255)
  PROVE  LET d == DecodeNullTerminatedString(s)
         IN  /\ d \in Seq(0 .. 255) /\ Len(d) <= Len(s)
             /\ \A i \in 1 .. Len(d) : s[i] = d[i] /\ d[i] # 0
             /\ Len(d) < Len(s) => s[Len(d) + 1] = 0
<1> DEFINE nuls == {i \in DOMAIN s : s[i] = 0}
           d == DecodeNullTerminatedString(s)
<1>1. CASE nuls = {}
  BY <1>1 DEF DecodeNullTerminatedString
<1>2. CASE nuls # {}
  <2> DEFINE m == CHOOSE i \in nuls : \A j \in nuls : i <= j
  <2>1. nuls \in SUBSET Nat /\ DOMAIN s = 1 .. Len(s) /\ Len(s) \in Nat
    OBVIOUS
  <2>2. d = SubSeq(s, 1, m - 1)
    BY <1>2 DEF DecodeNullTerminatedString
  <2> HIDE DEF nuls, d
  <2>3. m \in nuls /\ \A j \in nuls : m <= j
    BY <1>2, <2>1, LeastOf
  <2> HIDE DEF m
  <2>4. m \in 1 .. Len(s) /\ s[m] = 0
    BY <2>1, <2>3 DEF nuls
  <2>5. m - 1 \in 0 .. Len(s)
    BY <2>1, <2>4
  <2>6. /\ d \in Seq(0 .. 255) /\ Len(d) = m - 1
        /\ \A i \in 1 .. m - 1 : d[i] = s[i]
    BY <2>2, <2>5, Prefix
  <2>7. ASSUME NEW i \in 1 .. m - 1 PROVE s[i] # 0
    <3>1. i \in 1 .. Len(s) /\ ~(m <= i)
      BY <2>1, <2>4
    <3>2. i \notin nuls
      BY <2>3, <3>1
    <3> QED BY <2>1, <3>1, <3>2 DEF nuls
  <2>8. Len(d) + 1 = m /\ Len(d) <= Len(s)
    BY <2>1, <2>4, <2>6
  <2> QED BY <2>4, <2>6, <2>7, <2>8 DEF d
<1> QED BY <1>1, <1>2

LEMMA StringOf ==
  ASSUME NEW s \in Seq(0 .. 255), NEW d \in Seq(0 .. 255), Begins(s, d)
  PROVE  DecodeNullTerminatedString(s) = d
<1> DEFINE e == DecodeNullTerminatedString(s)
<1>1. /\ e \in Seq(0 .. 255) /\ Len(e) <= Len(s)
      /\ \A i \in 1 .. Len(e) : s[i] = e[i] /\ e[i] # 0
      /\ Len(e) < Len(s) => s[Len(e) + 1] = 0
  BY StringIs
<1> HIDE DEF e
<1>2. Len(e) \in Nat /\ Len(d) \in Nat /\ Len(s) \in Nat
  BY <1>1
<1>3. ~(Len(e) < Len(d))
  <2> SUFFICES ASSUME Len(e) < Len(d) PROVE FALSE
    OBVIOUS
  <2>1. Len(e) + 1 \in 1 .. Len(d) /\ Len(e) < Len(s)
    BY <1>2 DEF Begins
  <2> QED BY <1>1, <2>1 DEF Begins
<1>4. ~(Len(d) < Len(e))
  <2> SUFFICES ASSUME Len(d) < Len(e) PROVE FALSE
    OBVIOUS
  <2>1. Len(d) + 1 \in 1 .. Len(e) /\ Len(d) + 1 \in 1 .. Len(s) /\ Len(d) + 1 > Len(d)
    BY <1>1, <1>2
  <2> QED BY <1>1, <2>1 DEF Begins
<1>5. Len(e) = Len(d)
  BY <1>2, <1>3, <1>4
<1>6. e = d
  BY <1>1, <1>5, SeqEqual DEF Begins
<1> QED BY <1>6 DEF e

LEMMA ContentIs ==
  ASSUME NEW s \in Seq(0 .. 255), NEW d \in Seq(0 .. 255), Begins(s, d)
  PROVE  Content(s) = d
<1> DEFINE last == {i \in DOMAIN s : s[i] # 0}
           m == CHOOSE i \in last : \A j \in last : j <= i
<1>1. DOMAIN s = 1 .. Len(s) /\ Len(s) \in Nat /\ Len(d) \in Nat /\ Len(d) <= Len(s)
  BY DEF Begins
<1>2. last = 1 .. Len(d)
  <2>1. ASSUME NEW i \in 1 .. Len(d) PROVE i \in last
    <3>1. i \in 1 .. Len(s)
      BY <1>1
    <3> QED BY <1>1, <3>1 DEF Begins
  <2>2. ASSUME NEW i \in last PROVE i \in 1 .. Len(d)
    <3>1. i \in 1 .. Len(s) /\ s[i] # 0
      BY <1>1
    <3>2. ~(i > Len(d))
      BY <3>1 DEF Begins
    <3> QED BY <1>1, <3>1, <3>2
  <2> QED BY <2>1, <2>2
<1> HIDE DEF last
<1>3. CASE Len(d) = 0
  <2>1. last = {} /\ d = <<>>
    BY <1>2, <1>3
  <2> QED BY <2>1 DEF Content, last
<1>4. CASE Len(d) # 0
  <2>0. Len(d) \in 1 .. Len(d) /\ \A j \in 1 .. Len(d) : j <= Len(d)
    BY <1>1, <1>4
  <2>1. last # {} /\ Len(d) \in last /\ \A j \in last : j <= Len(d)
    BY <1>2, <2>0, Zenon
  <2>2. m \in last /\ \A j \in last : j <= m
    BY <2>1
  <2> HIDE DEF m
  <2>3. m = Len(d)
    BY <1>1, <1>2, <2>1, <2>2
  <2>4. Content(s) = SubSeq(s, 1, m)
    BY <2>1 DEF Content, last, m
  <2>5. m \in 0 .. Len(s)
    BY <1>1, <2>3
  <2>6. /\ SubSeq(s, 1, m) \in Seq(0 .. 255) /\ Len(SubSeq(s, 1, m)) = m
        /\ \A i \in 1 .. m : SubSeq(s, 1, m)[i] = s[i]
    BY <2>5, Prefix
  <2> DEFINE q == SubSeq(s, 1, m)
  <2> HIDE DEF q
  <2>7. q \in Seq(0 .. 255) /\ Len(q) = Len(d) /\ \A i \in 1 .. Len(d) : q[i] = d[i]
    BY <2>3, <2>6 DEF Begins, q
  <2>8. q = d
    BY <2>7, SeqEqual
  <2> QED BY <2>4, <2>8 DEF q
<1> QED BY <1>3, <1>4

LEMMA ContentShort ==
  ASSUME NEW s \in Seq(0 .. 255)
  PROVE  Len(Content(s)) \in Nat /\ Len(Content(s)) <= Len(s)
<1> DEFINE last == {i \in DOMAIN s : s[i] # 0}
           m == CHOOSE i \in last : \A j \in last : j <= i
<1>1. last \subseteq 1 .. Len(s) /\ Len(s) \in Nat
  OBVIOUS
<1>2. CASE last = {}
  BY <1>2 DEF Content
<1>3. CASE last # {}
  <2>1. Content(s) = SubSeq(s, 1, m)
    BY <1>3 DEF Content
  <2> HIDE DEF last
  <2>2. m \in last
    BY <1>1, <1>3, GreatestOf
  <2> HIDE DEF m
  <2>3. m \in 0 .. Len(s)
    BY <1>1, <2>2
  <2> QED BY <1>1, <2>1, <2>3, Prefix
<1> QED BY <1>2, <1>3

\* Bytes as a file may hold them under the name n.
Stored(n, s) ==
    /\ s \in Seq(0 .. 255) /\ Len(s) = RoundUpToMultipleOf4(Len(s))
    /\ n = "name" => \A k \in DOMAIN s \ DOMAIN DecodeNullTerminatedString(s) : s[k] = 0

LEMMA TextBegins ==
  ASSUME NEW n, NEW s, Stored(n, s), n = "name" \/ IsProbablyAString(s)
  PROVE  Begins(s, DecodeNullTerminatedString(s))
<1> DEFINE d == DecodeNullTerminatedString(s)
<1>0. s \in Seq(0 .. 255)
  BY DEF Stored
<1>1. /\ d \in Seq(0 .. 255) /\ Len(d) <= Len(s)
      /\ \A i \in 1 .. Len(d) : s[i] = d[i] /\ d[i] # 0
  BY <1>0, StringIs
<1>2. \A k \in DOMAIN s \ DOMAIN d : s[k] = 0
  BY DEF Stored, IsProbablyAString
<1> HIDE DEF d
<1>3. DOMAIN s = 1 .. Len(s) /\ DOMAIN d = 1 .. Len(d) /\ Len(d) \in Nat /\ Len(s) \in Nat
  BY <1>0, <1>1
<1>4. ASSUME NEW i \in 1 .. Len(s), i > Len(d) PROVE s[i] = 0
  <2>1. i \in DOMAIN s \ DOMAIN d
    BY <1>3, <1>4
  <2> QED BY <1>2, <2>1
<1>5. Begins(s, d)
  BY <1>1, <1>4 DEF Begins
<1> QED BY <1>5 DEF d

LEMMA WrittenBegins ==
  ASSUME NEW d \in Seq(0 .. 255), \A i \in 1 .. Len(d) : d[i] # 0
  PROVE  /\ Ljust(Append(d, 0)) \in Seq(0 .. 255) /\ Begins(Ljust(Append(d, 0)), d)
         /\ Len(Append(d, 0)) = Len(d) + 1
<1> DEFINE a == Append(d, 0)
           b == Ljust(a)
<1>1. /\ a \in Seq(0 .. 255) /\ Len(a) = Len(d) + 1 /\ Len(d) \in Nat
      /\ \A i \in 1 .. Len(a) : a[i] = IF i <= Len(d) THEN d[i] ELSE 0
  BY 0 \in 0 .. 255
<1> HIDE DEF a
<1>2. /\ b \in Seq(0 .. 255) /\ Len(b) = RoundUpToMultipleOf4(Len(a))
      /\ \A i \in 1 .. Len(b) : b[i] = IF i <= Len(a) THEN a[i] ELSE 0
  BY <1>1, LjustProps
<1>3. Len(a) \in Nat /\ Len(b) \in Nat /\ Len(b) >= Len(a)
  BY <1>1, <1>2, PadsProps
<1> HIDE DEF b
<1>4. ASSUME NEW i \in 1 .. Len(d) PROVE b[i] = d[i] /\ d[i] # 0
  <2>1. i \in 1 .. Len(a) /\ i \in 1 .. Len(b) /\ i <= Len(d) /\ i <= Len(a)
    BY <1>1, <1>3
  <2> QED BY <1>1, <1>2, <2>1
<1>5. ASSUME NEW i \in 1 .. Len(b), i > Len(d) PROVE b[i] = 0
  <2>1. CASE i <= Len(a)
    <3>1. i \in 1 .. Len(a) /\ ~(i <= Len(d))
      BY <1>1, <1>3, <1>5, <2>1
    <3> QED BY <1>1, <1>2, <2>1, <3>1
  <2>2. CASE ~(i <= Len(a))
    BY <1>2, <2>2
  <2> QED BY <2>1, <2>2
<1>6. Begins(b, d)
  BY <1>1, <1>3, <1>4, <1>5 DEF Begins
<1> QED BY <1>1, <1>2, <1>6 DEF a, b

(* Reading a property and writing it back: the bytes up to trailing zeros   *)
(* are the same, the length holds them, and once more changes nothing.      *)
LEMMA RoundTrip ==
  ASSUME NEW n, NEW s, Stored(n, s)
  PROVE  LET f == ParsePropEntry(DecodeProp(n, s))
         IN  /\ Content(f.bytes) = Content(s) /\ f.len >= Len(Content(s))
             /\ ParsePropEntry(DecodeProp(n, f.bytes)) = f
<1> DEFINE f == ParsePropEntry(DecodeProp(n, s))
<1>0. s \in Seq(0 .. 255) /\ Len(s) = RoundUpToMultipleOf4(Len(s))
  BY DEF Stored
<1>1. CASE n = "name" \/ IsProbablyAString(s)
  <2> DEFINE d == DecodeNullTerminatedString(s)
             b == Ljust(Append(d, 0))
  <2>1. DecodeProp(n, s) = Str(d)
    BY <1>1 DEF DecodeProp
  <2>2. f = [len |-> Len(Append(d, 0)), bytes |-> b]
    BY <2>1 DEF ParsePropEntry, Str
  <2>3. d \in Seq(0 .. 255) /\ \A i \in 1 .. Len(d) : d[i] # 0
    BY <1>0, StringIs
  <2>4. Begins(s, d)
    BY <1>1, TextBegins
  <2>5. b \in Seq(0 .. 255) /\ Begins(b, d) /\ Len(Append(d, 0)) = Len(d) + 1
    BY <2>3, WrittenBegins
  <2> HIDE DEF b
  <2>6. IsProbablyAString(s) => Len(d) >= 3 /\ \A i \in DOMAIN d : d[i] \in 32 .. 126
    BY DEF IsProbablyAString
  <2> HIDE DEF d, f
  <2>7. Content(s) = d /\ Content(b) = d /\ DecodeNullTerminatedString(b) = d
    BY <1>0, <2>3, <2>4, <2>5, ContentIs, StringOf
  <2>8. \A k \in DOMAIN b \ DOMAIN d : b[k] = 0
    BY <2>3, <2>5 DEF Begins
  <2>9. IsProbablyAString(s) => IsProbablyAString(b)
    BY <2>6, <2>7, <2>8 DEF IsProbablyAString
  <2>10. DecodeProp(n, b) = Str(d)
    BY <1>1, <2>7, <2>9 DEF DecodeProp
  <2>11. f.bytes = b /\ f.len = Len(d) + 1 /\ Len(d) \in Nat
    BY <2>2, <2>3, <2>5
  <2>12. ParsePropEntry(DecodeProp(n, f.bytes)) = f
    <3>1. f = ParsePropEntry(Str(d))
      BY <2>1 DEF f
    <3> QED BY <2>10, <2>11, <3>1
  <2>13. f.len >= Len(d)
    BY <2>11
  <2> QED BY <2>7, <2>11, <2>12, <2>13 DEF f
<1>2. CASE ~(n = "name" \/ IsProbablyAString(s))
  <2> DEFINE v == DecodeProp(n, s)
  <2>1. v.v = s /\ v.t # "str"
    <3>1. Len(s) = 0 => s = <<>>
      BY <1>0
    <3> QED BY <1>2, <3>1 DEF DecodeProp, Null, Bytes
  <2> HIDE DEF v
  <2>2. ParsePropEntry(v) = [len |-> Len(s), bytes |-> Ljust(s)]
    BY <2>1 DEF ParsePropEntry
  <2>3. Ljust(s) = s
    BY <1>0, LjustSame
  <2>4. ParsePropEntry(v).bytes = s /\ ParsePropEntry(v).len = Len(s)
    BY <2>2, <2>3
  <2>5. Len(s) >= Len(Content(s))
    BY <1>0, ContentShort
  <2> QED BY <2>4, <2>5 DEF v
<1> QED BY <1>1, <1>2

LEMMA PadsOnce ==
  ASSUME NEW n \in Nat
  PROVE  RoundUpToMultipleOf4(RoundUpToMultipleOf4(n)) = RoundUpToMultipleOf4(n)
BY DEF RoundUpToMultipleOf4

\* What fixup sets or drops, part by part.
FixupProps == EarlyProps \cup {"dart-id"} \cup RoutesProps \cup NormalProps \cup LateProps

LEMMA FixupTouches == FixupProps \subseteq Touched
<1>1. EarlyProps \cup {"dart-id"} \subseteq Touched
  BY DEF EarlyProps, DramProps, MachineProps, LogProps, Touched
<1>2. RoutesProps \cup NormalProps \subseteq Touched
  BY DEF RoutesProps, NormalProps, Touched
<1>3. AmccProps \subseteq Touched
  BY DEF AmccProps, CtrrProps, Touched
<1>4. MapEntries \subseteq Touched /\ "slide" \in MapEntries
  <2>1. MapEntries \subseteq Touched
    BY DEF Touched
  <2>2. "slide" \in MapEntries
    BY DEF MapEntries
  <2> QED BY <2>1, <2>2
<1>5. {"no-rtc", "vmm-present", "aic-iack-offset", "secure-root-prefix"} \subseteq Touched
  BY DEF Touched
<1>6. LateProps \subseteq Touched
  BY <1>3, <1>4, <1>5 DEF LateProps
<1> QED BY <1>1, <1>2, <1>6 DEF FixupProps

LEMMA FixupWhole ==
  ASSUME NEW d, Typed(d), Placed(d), Fixable(d), NEW sw, Switches(sw)
  PROVE  From(d, Fixup(d, sw), FixupProps) /\ Chosen \in Paths(Fixup(d, sw))
<1> DEFINE final == Fixup(d, sw)
<1>1. PICK early, ids, routes, power :
         /\ From(d, early, EarlyProps) /\ From(early, ids, {"dart-id"})
         /\ From(ids, routes, RoutesProps) /\ From(routes, power, NormalProps)
         /\ From(power, final, LateProps) /\ Chosen \in Paths(final)
  BY FixupFrom
<1> HIDE DEF final
<1>2. From(d, ids, EarlyProps \cup {"dart-id"})
  BY <1>1, FromTrans
<1>3. From(d, routes, EarlyProps \cup {"dart-id"} \cup RoutesProps)
  BY <1>1, <1>2, FromTrans
<1>4. From(d, power, EarlyProps \cup {"dart-id"} \cup RoutesProps \cup NormalProps)
  BY <1>1, <1>3, FromTrans
<1>5. From(d, final, FixupProps)
  BY <1>1, <1>4, FromTrans DEF FixupProps
<1> QED BY <1>1, <1>5 DEF final

(* What fixup() leaves of a tree at a path other than the clock's is what    *)
(* the tree had there, the properties fixup names apart.                     *)
LEMMA FixupLeaves ==
  ASSUME NEW d, Typed(d), Placed(d), Fixable(d), NEW sw, Switches(sw),
         NEW k \in DOMAIN Fixup(d, sw), Fixup(d, sw)[k].path # <<"rtc">>
  PROVE  k \in DOMAIN d /\ NodeEdit(d[k], Fixup(d, sw)[k], FixupProps)
<1>1. From(d, Fixup(d, sw), FixupProps)
  BY FixupWhole
<1> QED BY <1>1 DEF From, Edit, Rtc

(* Whatever bytes a property has, and whichever type is guessed from them,  *)
(* a property fixup does not name keeps its bytes up to trailing zeros, and *)
(* its length holds them: for every stock tree and all switches.            *)
THEOREM UntouchedCorrect == Spec => []UntouchedPropsSurvive
<1>1. TreeInv => UntouchedPropsSurvive
  <2> DEFINE stk == DecodeNode(stock)
             final == Fixup(stk, env)
  <2> SUFFICES ASSUME TreeInv, NEW i \in DOMAIN stock,
                      NEW n \in DOMAIN stock[i].props \ Touched,
                      HasProp(out, stock[i].path, n)
               PROVE  LET was == stock[i].props[n]
                          is == Node(out, stock[i].path).props[n]
                      IN  /\ Content(is.bytes) = Content(was.bytes)
                          /\ is.len >= Len(Content(was.bytes))
                          /\ ParsePropEntry(DecodeProp(n, is.bytes)) = is
    BY DEF UntouchedPropsSurvive
  <2>1. StockTree(stock) /\ Switches(env)
    BY DEF TreeInv
  <2>2. PICK k \in DOMAIN out : out[k].path = stock[i].path
                                /\ Node(out, stock[i].path) = out[k]
    BY NodeHas DEF HasProp
  <2>3. Typed(stk) /\ Placed(stk) /\ Fixable(stk) /\ out = EncodeNode(final)
    <3>1. out # <<>>
      BY <2>2
    <3> QED BY <3>1, OutFrom
  <2>4. /\ stock[i].path # <<"rtc">>
        /\ \A j \in DOMAIN stock : stock[j].path = stock[i].path => j = i
    BY <2>1 DEF StockTree
  <2> HIDE DEF final
  <2>5. /\ k \in DOMAIN final /\ final[k].path = stock[i].path
        /\ n \in DOMAIN final[k].props
        /\ out[k].props[n] = ParsePropEntry(final[k].props[n])
    <3>1. n \in DOMAIN out[k].props
      BY <2>2 DEF HasProp
    <3> QED BY <2>2, <2>3, <3>1, Encoded
  <2>6. k \in DOMAIN stk /\ NodeEdit(stk[k], final[k], FixupProps)
    BY <2>1, <2>3, <2>4, <2>5, FixupLeaves DEF final
  <2>7. k = i
    <3>1. k \in DOMAIN stock /\ stk[k].path = stock[k].path
      BY <2>1, <2>6, Decoded
    <3>2. stock[k].path = stock[i].path
      BY <2>5, <2>6, <3>1 DEF NodeEdit
    <3> QED BY <2>4, <3>1, <3>2
  <2>8. final[i].props[n] = DecodeProp(n, stock[i].props[n].bytes)
    <3>1. n \notin FixupProps
      BY FixupTouches
    <3>2. final[i].props[n] = stk[i].props[n] /\ n \in DOMAIN stk[i].props
      BY <2>5, <2>6, <2>7, <3>1 DEF NodeEdit, Same
    <3> QED BY <2>1, <3>2, Decoded
  <2>9. Stored(n, stock[i].props[n].bytes)
    <3> DEFINE v == stock[i].props[n]
    <3>1. Filed(v)
      BY <2>1 DEF StockTree
    <3>2. n = "name" => \A x \in DOMAIN v.bytes \ DOMAIN DecodeNullTerminatedString(v.bytes) :
                           v.bytes[x] = 0
      BY <2>1 DEF StockTree
    <3> HIDE DEF v
    <3>3. Len(v.bytes) = RoundUpToMultipleOf4(Len(v.bytes))
      BY <3>1, PadsOnce DEF Filed
    <3>4. Stored(n, v.bytes)
      BY <3>1, <3>2, <3>3 DEF Stored, Filed
    <3> QED BY <3>4 DEF v
  <2>10. Node(out, stock[i].path).props[n]
           = ParsePropEntry(DecodeProp(n, stock[i].props[n].bytes))
    BY <2>2, <2>5, <2>7, <2>8
  <2> QED BY <2>9, <2>10, RoundTrip
<1> QED BY <1>1, TreeInvHolds, PTL

-----------------------------------------------------------------------------
\* What the loader will look for.  A node without room for a region, and one
\* whose room is empty; the nubs, the second given room or not.
NoRoom(n) == RegionProps \cap DOMAIN n.props = {}
Vacant(n) == RegionProps \subseteq DOMAIN n.props /\ \A x \in RegionProps : n.props[x] = U64(0)
RoomAt(n, given) ==
    /\ n.path = AnsNub => NoRoom(n) \/ Vacant(n)
    /\ n.path = DcpNub => IF given THEN Vacant(n) ELSE NoRoom(n)
Rooms(d, given) == \A i \in DOMAIN d : RoomAt(d[i], given)

LEMMA EditRooms ==
  ASSUME NEW d, NEW e, NEW W, Edit(d, e, W), W \cap RegionProps = {}, NEW given, Rooms(d, given)
  PROVE  Rooms(e, given)
<1> SUFFICES ASSUME NEW i \in DOMAIN e PROVE RoomAt(e[i], given)
  BY DEF Rooms
<1>1. CASE Rtc(e[i])
  BY <1>1 DEF Rtc, RoomAt, AnsNub, DcpNub
<1>2. CASE i \in DOMAIN d /\ NodeEdit(d[i], e[i], W)
  <2>1. e[i].path = d[i].path /\ \A x \in RegionProps : Same(d[i].props, e[i].props, x)
    BY <1>2 DEF NodeEdit
  <2>2. NoRoom(d[i]) => NoRoom(e[i])
    BY <2>1 DEF NoRoom, Same
  <2>3. Vacant(d[i]) => Vacant(e[i])
    BY <2>1 DEF Vacant, Same
  <2> QED BY <1>2, <2>1, <2>2, <2>3 DEF Rooms, RoomAt
<1> QED BY <1>1, <1>2 DEF Edit

LEMMA GiveRooms ==
  ASSUME NEW d, NEW given, Rooms(d, given)
  PROVE  Rooms(Put(d, DcpNub, RegionProps, U64(0)), TRUE)
<1> DEFINE f == Put(d, DcpNub, RegionProps, U64(0))
<1>1. DOMAIN f = DOMAIN d /\ \A i \in DOMAIN d : f[i] = PutAt(d[i], DcpNub, RegionProps, U64(0))
  BY DEF Put
<1> HIDE DEF f
<1>2. ASSUME NEW i \in DOMAIN d PROVE RoomAt(f[i], TRUE)
  <2>1. CASE d[i].path = DcpNub
    <3>1. f[i] = Set(d[i], RegionProps, U64(0))
      BY <1>1, <2>1 DEF PutAt
    <3>2. f[i].path = DcpNub /\ Vacant(f[i])
      BY <2>1, <3>1, SetParts DEF Vacant
    <3>3. DcpNub # AnsNub
      BY DEF DcpNub, AnsNub
    <3> QED BY <3>2, <3>3 DEF RoomAt
  <2>2. CASE d[i].path # DcpNub
    <3>1. f[i] = d[i]
      BY <1>1, <2>2 DEF PutAt
    <3> QED BY <2>2, <3>1 DEF Rooms, RoomAt
  <2> QED BY <2>1, <2>2
<1> QED BY <1>1, <1>2 DEF Rooms, f

\* The two switches that give the DCP's nub room.
LEMMA RoutesRooms ==
  ASSUME NEW d, Typed(d), Placed(d), Rooms(d, FALSE),
         NEW sw, NEW given \in BOOLEAN, given = sw.dcpRegion
  PROVE  Rooms(RoutesPart(d, sw), given)
<1> DEFINE e == FixupDcpRegion(d, sw)
           f == FixupDcpRoutes(e, sw)
           flags == {n \in {"exclaves-enabled", "has-exclaves"} : HasProp(f, <<"product">>, n)}
           gone == {"routes"} \cup
                   (IF sw.dropNofwsvc THEN {"no-firmware-service"} ELSE {})
           Rest == {"routes", "no-firmware-service", "exclaves-enabled", "has-exclaves"}
<1>1. U32(0) \in Values /\ U64(0) \in Values
  BY ValuesTyped
<1>2. Rooms(e, given)
  <2>1. CASE given
    <3>1. e = Put(d, DcpNub, RegionProps, U64(0)) /\ given = TRUE
      BY <2>1 DEF FixupDcpRegion
    <3>2. Rooms(e, TRUE)
      BY <3>1, GiveRooms
    <3> QED BY <3>1, <3>2, Zenon
  <2>2. CASE ~given
    <3>1. e = d /\ given = FALSE
      BY <2>2 DEF FixupDcpRegion
    <3> QED BY <3>1, Zenon
  <2> QED BY <2>1, <2>2
<1>3. From(d, e, RegionProps)
  BY <1>1, FromSelf, PutFrom DEF FixupDcpRegion
<1>4. f = e \/ f = Pop(e, DcpNub, gone)
  BY DEF FixupDcpRoutes
<1>5. gone \subseteq Rest /\ flags \subseteq Rest
  OBVIOUS
<1>6. Rest \cap RegionProps = {}
  BY DEF RegionProps
<1>7. RoutesPart(d, sw) = f \/ RoutesPart(d, sw) = Put(f, <<"product">>, flags, U32(0))
  BY DEF RoutesPart, FixupExclaves
<1> HIDE DEF e, f, gone, flags, Rest
<1>8. From(e, e, Rest)
  BY <1>3, FromSelf DEF From
<1>9. From(e, f, Rest)
  BY <1>4, <1>5, <1>8, PopFrom
<1>10. From(e, RoutesPart(d, sw), Rest)
  BY <1>1, <1>5, <1>7, <1>9, PutFrom
<1> QED BY <1>2, <1>6, <1>10, EditRooms DEF From

LEMMA NormalRooms ==
  ASSUME NEW d, Typed(d), Placed(d), NEW sw, sw.normalize \in BOOLEAN,
         NEW given \in BOOLEAN, Rooms(d, given)
  PROVE  Rooms(NormalizeDcp(d, sw), given \/ sw.normalize)
<1> DEFINE bare == Pop(d, DcpNub, {"coredump-enable", "coredump-rel-privacy-approved",
                                   "no-firmware-service", "routes", "user-power-managed",
                                   "watchdog-enable"})
           power == Put(bare, DcpNub, {"power-managed"}, U32(1))
           region == Put(power, DcpNub, RegionProps, U64(0))
           end == Put(region, DcpNub, {"continuous-time", "crashlog-non-fatal",
                                       "no-hibernate-sleep", "shutdown-sleep"}, Null)
           Rest == NormalProps \ RegionProps
<1>1. U32(1) \in Values /\ U64(0) \in Values /\ Null \in Values
  BY ValuesTyped
<1>2. Rest \cap RegionProps = {}
  OBVIOUS
<1>3. /\ {"coredump-enable", "coredump-rel-privacy-approved", "no-firmware-service", "routes",
          "user-power-managed", "watchdog-enable"} \subseteq Rest
      /\ {"power-managed"} \subseteq Rest
      /\ {"continuous-time", "crashlog-non-fatal", "no-hibernate-sleep", "shutdown-sleep"}
           \subseteq Rest
  BY DEF NormalProps, PowerFlags, RegionProps
<1>4. /\ ~sw.normalize => NormalizeDcp(d, sw) = d
      /\ sw.normalize => NormalizeDcp(d, sw) = end
  BY DEF NormalizeDcp
<1> HIDE DEF Rest
<1>5. From(d, bare, Rest)
  BY <1>3, FromSelf, PopFrom
<1> HIDE DEF bare
<1>6. From(d, power, Rest)
  BY <1>1, <1>3, <1>5, PutFrom
<1> HIDE DEF power
<1>7. Rooms(power, given)
  BY <1>2, <1>6, EditRooms DEF From
<1>8. Rooms(region, TRUE)
  BY <1>7, GiveRooms
<1>9. From(power, region, RegionProps)
  BY <1>1, <1>6, FromSelf, PutFrom DEF From
<1> HIDE DEF region
<1>10. From(region, end, Rest)
  BY <1>1, <1>3, <1>9, FromSelf, PutFrom DEF From
<1>11. Rooms(end, TRUE)
  BY <1>2, <1>8, <1>10, EditRooms DEF From
<1> HIDE DEF end
<1>12. CASE sw.normalize
  BY <1>4, <1>11, <1>12
<1>13. CASE ~sw.normalize
  <2>1. (given \/ sw.normalize) = given
    BY <1>13
  <2> QED BY <1>4, <1>13, <2>1
<1> QED BY <1>12, <1>13

LEMMA PowerRooms ==
  ASSUME NEW d, Typed(d), Placed(d), NEW sw, sw.normalize \in BOOLEAN,
         NEW given \in BOOLEAN, Rooms(d, given)
  PROVE  Rooms(PowerPart(d, sw), given \/ sw.normalize)
<1> DEFINE e == NormalizeDcp(d, sw)
           bare == Pop(e, DcpNub, PowerFlags \cup {"quiesced"})
           Rest == PowerFlags \cup {"quiesced"}
<1>1. From(d, e, NormalProps) /\ Rooms(e, given \/ sw.normalize)
  BY NormalFrom, NormalRooms
<1>2. \/ PowerPart(d, sw) = e \/ PowerPart(d, sw) = bare
      \/ PowerPart(d, sw) = Put(bare, DcpNub, {"power-managed"}, U32(1))
      \/ PowerPart(d, sw) = Put(bare, DcpNub, {"dont-power-on"}, Null)
  BY Zenon DEF PowerPart, FixupPowerMode
<1>3. /\ Rest \cap RegionProps = {}
      /\ {"power-managed"} \subseteq Rest /\ {"dont-power-on"} \subseteq Rest
  BY DEF PowerFlags, RegionProps
<1> HIDE DEF e
<1>4. From(e, e, Rest)
  BY <1>1, FromSelf DEF From
<1>5. From(e, bare, Rest)
  BY <1>4, PopFrom
<1> HIDE DEF bare, Rest
<1>6. U32(1) \in Values /\ Null \in Values
  BY ValuesTyped
<1>7. From(e, PowerPart(d, sw), Rest)
  BY <1>2, <1>3, <1>4, <1>5, <1>6, PutFrom
<1> QED BY <1>1, <1>3, <1>7, EditRooms DEF From

-----------------------------------------------------------------------------
\* The panic log and the display: two words where there is a reg; and no size of
\* the log for the kernel, or the right one and a reg to go with it.
LogSize == "embedded-panic-log-size"
TwoWords(v) == v.t = "bytes" /\ v.v \in Seq(0 .. 255) /\ Len(v.v) = 16
Regs(d) ==
    \A i \in DOMAIN d : d[i].path \in {<<"pram">>, <<"vram">>} /\ "reg" \in DOMAIN d[i].props =>
        TwoWords(d[i].props["reg"])
Unlogged(d) == \A i \in DOMAIN d : d[i].path = Chosen => LogSize \notin DOMAIN d[i].props
Logged(d) ==
    /\ Says(d, Chosen, LogSize, Bytes(Number(PanicLogSize, 4)))
    /\ <<"pram">> \in Paths(d)
    /\ \A i \in DOMAIN d : d[i].path = <<"pram">> => "reg" \in DOMAIN d[i].props
Logs(d) == Regs(d) /\ (Unlogged(d) \/ Logged(d))

LEMMA EditLogs ==
  ASSUME NEW d, NEW e, NEW W, Edit(d, e, W), "reg" \notin W, LogSize \notin W, Logs(d)
  PROVE  Logs(e)
<1>0. Chosen # <<"rtc">> /\ <<"pram">> # <<"rtc">> /\ <<"vram">> # <<"rtc">>
  BY DEF Chosen
<1>1. ASSUME NEW i \in DOMAIN e, e[i].path # <<"rtc">>
      PROVE  /\ i \in DOMAIN d /\ e[i].path = d[i].path
             /\ Same(d[i].props, e[i].props, "reg") /\ Same(d[i].props, e[i].props, LogSize)
  BY <1>1 DEF Edit, NodeEdit, Rtc
<1>2. Regs(e)
  BY <1>0, <1>1 DEF Logs, Regs, Same
<1>3. Unlogged(d) => Unlogged(e)
  BY <1>0, <1>1 DEF Unlogged, Same
<1>4. Logged(d) => Logged(e)
  <2> SUFFICES ASSUME Logged(d) PROVE Logged(e)
    OBVIOUS
  <2>1. Says(e, Chosen, LogSize, Bytes(Number(PanicLogSize, 4)))
    BY <1>0, EditSays DEF Logged
  <2>2. ~Gone(<<"pram">>)
    BY DEF Gone, IsPrefix
  <2>3. <<"pram">> \in Paths(e)
    BY <2>2, PathStays DEF Logged
  <2>4. \A i \in DOMAIN e : e[i].path = <<"pram">> => "reg" \in DOMAIN e[i].props
    BY <1>0, <1>1 DEF Logged, Same
  <2> QED BY <2>1, <2>3, <2>4 DEF Logged
<1> QED BY <1>2, <1>3, <1>4 DEF Logs

LEMMA Joined ==
  ASSUME NEW a \in Seq(0 .. 255), NEW b \in Seq(0 .. 255), Len(a) = 8, Len(b) = 8
  PROVE  /\ a \o b \in Seq(0 .. 255) /\ Len(a \o b) = 16
         /\ \A i \in 1 .. 16 : (a \o b)[i] = IF i <= 8 THEN a[i] ELSE b[i - 8]
<1>1. /\ a \o b \in Seq(0 .. 255) /\ Len(a \o b) = Len(a) + Len(b)
      /\ \A i \in 1 .. Len(a) + Len(b) :
           (a \o b)[i] = IF i <= Len(a) THEN a[i] ELSE b[i - Len(a)]
  BY Concatenated, ZenonT(60)
<1>2. Len(a) + Len(b) = 16
  OBVIOUS
<1> QED BY <1>1, <1>2

LEMMA PramLogs ==
  ASSUME NEW d, Regs(d), Unlogged(d), NEW sw
  PROVE  Logs(FixupPram(d, sw))
<1> DEFINE reg == Bytes(Number(0, 8) \o Number(PanicLogSize, 8))
           size == Bytes(Number(PanicLogSize, 4))
           e == Put(d, <<"pram">>, {"reg"}, reg)
           f == Put(e, Chosen, {LogSize}, size)
<1>1. CASE FixupPram(d, sw) = d
  BY <1>1 DEF Logs
<1>2. CASE FixupPram(d, sw) # d
  <2>1. <<"pram">> \in Paths(d) /\ FixupPram(d, sw) = f
    BY <1>2 DEF FixupPram, LogSize
  <2>2. TwoWords(reg)
    <3>1. /\ Number(0, 8) \in Seq(0 .. 255) /\ Len(Number(0, 8)) = 8
          /\ Number(PanicLogSize, 8) \in Seq(0 .. 255) /\ Len(Number(PanicLogSize, 8)) = 8
      <4>1. \A k \in Int : Number(k, 8) \in Seq(0 .. 255) /\ Len(Number(k, 8)) = 8
        BY NumberTyped
      <4>2. 0 \in Int /\ PanicLogSize \in Int
        BY DEF PanicLogSize
      <4> QED BY <4>1, <4>2
    <3> QED BY <3>1, Joined DEF TwoWords, Bytes
  <2> HIDE DEF reg, size
  <2>3. /\ DOMAIN e = DOMAIN d
        /\ \A i \in DOMAIN d : e[i] = PutAt(d[i], <<"pram">>, {"reg"}, reg)
    BY DEF Put
  <2> HIDE DEF e
  <2>4. /\ DOMAIN f = DOMAIN e
        /\ \A i \in DOMAIN e : f[i] = PutAt(e[i], Chosen, {LogSize}, size)
    BY DEF Put
  <2> HIDE DEF f
  <2>5. Chosen # <<"pram">> /\ Chosen # <<"vram">> /\ "reg" # LogSize
    BY DEF Chosen, LogSize
  <2>6. ASSUME NEW i \in DOMAIN d
        PROVE  /\ f[i].path = d[i].path
               /\ f[i].path = <<"pram">> =>
                     "reg" \in DOMAIN f[i].props /\ f[i].props["reg"] = reg
               /\ f[i].path = <<"vram">> => f[i] = d[i]
    <3>1. CASE d[i].path = <<"pram">>
      <4>1. e[i] = Set(d[i], {"reg"}, reg)
        BY <2>3, <3>1 DEF PutAt
      <4>2. e[i].path = <<"pram">> /\ "reg" \in DOMAIN e[i].props /\ e[i].props["reg"] = reg
        BY <3>1, <4>1, SetParts
      <4>3. f[i] = e[i]
        BY <2>3, <2>4, <2>5, <4>2 DEF PutAt
      <4> QED BY <3>1, <4>2, <4>3
    <3>2. CASE d[i].path # <<"pram">>
      <4>1. e[i] = d[i]
        BY <2>3, <3>2 DEF PutAt
      <4>2. f[i] = d[i] \/ (d[i].path = Chosen /\ f[i] = Set(d[i], {LogSize}, size))
        BY <2>3, <2>4, <4>1 DEF PutAt
      <4>3. ASSUME d[i].path = Chosen, f[i] = Set(d[i], {LogSize}, size) PROVE f[i].path = Chosen
        BY <4>3, SetParts
      <4> QED BY <2>5, <3>2, <4>2, <4>3
    <3> QED BY <3>1, <3>2
  <2>7. Regs(f)
    BY <2>2, <2>3, <2>4, <2>6 DEF Regs
  <2>8. Says(f, Chosen, LogSize, size)
    <3>1. f = Put(e, Chosen, {LogSize}, size)
      BY DEF f
    <3> QED BY <3>1, PutSays
  <2>9. <<"pram">> \in Paths(f)
    BY <2>1, <2>3, <2>4, <2>6 DEF Paths
  <2>10. \A i \in DOMAIN f : f[i].path = <<"pram">> => "reg" \in DOMAIN f[i].props
    BY <2>3, <2>4, <2>6
  <2>11. Logged(f)
    BY <2>8, <2>9, <2>10 DEF Logged, size
  <2> QED BY <2>1, <2>7, <2>11 DEF Logs
<1> QED BY <1>1, <1>2

LEMMA DramSays ==
  ASSUME NEW d, Typed(d), Placed(d), Fixable(d), NEW sw, Switches(sw)
  PROVE  Says(DramPart(d, sw), Chosen, "dram-base", U64(DramStart(GetSocGen(d))))
<1> DEFINE v == U64(DramStart(GetSocGen(d)))
           root == Put(d, <<>>, {"platform-name"}, GetPlatformName(d))
           base == Put(root, Chosen, {"dram-base"}, v)
<1>1. From(d, root, DramProps)
  BY FixableValues, FromSelf, PutFrom DEF DramProps
<1>2. v \in Values /\ U64(sw.dram) \in Values
  <2>1. sw.dram \in Int /\ DramStart(GetSocGen(d)) \in Int
    BY DramStartTyped DEF Switches
  <2> QED BY <2>1, ValuesTyped
<1>3. DramPart(d, sw) = Put(base, Chosen, {"dram-size"}, U64(sw.dram))
  BY DEF DramPart
<1> HIDE DEF v, root
<1>4. Says(base, Chosen, "dram-base", v)
  BY PutSays
<1>5. From(root, base, {"dram-base"})
  BY <1>1, <1>2, FromSelf, PutFrom DEF From
<1> HIDE DEF base
<1>6. From(base, DramPart(d, sw), {"dram-size"})
  BY <1>2, <1>3, <1>5, FromSelf, PutFrom DEF From
<1>7. Chosen # <<"rtc">> /\ "dram-base" \notin {"dram-size"}
  BY DEF Chosen
<1> QED BY <1>4, <1>6, <1>7, EditSays DEF From, v

\* The tree that is handed on, as the loader will look at it.
Ready(d, base, top, given) ==
    /\ Says(d, Chosen, "dram-base", U64(base)) /\ Says(d, Chosen, "dram-size", U64(top))
    /\ Rooms(d, given) /\ Logs(d)

LEMMA EditReady ==
  ASSUME NEW d, NEW e, NEW W, Edit(d, e, W), NEW base, NEW top, NEW given,
         Ready(d, base, top, given), W \cap RegionProps = {}, "reg" \notin W, LogSize \notin W,
         "dram-base" \notin W, "dram-size" \notin W
  PROVE  Ready(e, base, top, given)
<1>1. Chosen # <<"rtc">>
  BY DEF Chosen
<1> QED BY <1>1, EditSays, EditRooms, EditLogs DEF Ready

\* A decoded tree as StockTree has it.
Empty(d) == Rooms(d, FALSE) /\ Regs(d) /\ Unlogged(d)

LEMMA EarlyReady ==
  ASSUME NEW d, Typed(d), Placed(d), Fixable(d), Empty(d), NEW sw, Switches(sw)
  PROVE  Ready(EarlyPart(d, sw), DramStart(GetSocGen(d)), sw.dram, FALSE)
<1> DEFINE dram == DramPart(d, sw)
           machine == FixupMachine(d, sw)
           pram == FixupPram(machine, sw)
           early == EarlyPart(d, sw)
           base == DramStart(GetSocGen(d))
           Macs == {"config", "sio-hmac1-offset", "sio-hmac1-disable-mask"}
<1>1. /\ From(d, dram, DramProps) /\ From(dram, machine, MachineProps)
      /\ From(machine, early, LogProps) /\ From(d, early, EarlyProps)
      /\ Says(early, Chosen, "dram-size", U64(sw.dram))
  <2>1. From(dram, machine, MachineProps)
    BY MachineFrom
  <2>2. From(machine, early, LogProps)
    BY <2>1, LogFrom DEF From, EarlyPart
  <2> QED BY <2>1, <2>2, DramFrom, EarlyFrom
<1>2. Says(dram, Chosen, "dram-base", U64(base))
  BY DramSays
<1>3. Typed(machine) /\ Placed(machine)
  BY <1>1 DEF From
<1>4. early = FixupHmac(pram)
  BY DEF EarlyPart
<1>5. Chosen # <<"rtc">>
  BY DEF Chosen
<1> HIDE DEF dram, machine, early, base
<1>6. From(d, machine, DramProps \cup MachineProps)
  BY <1>1, FromTrans
<1>7. Says(early, Chosen, "dram-base", U64(base))
  <2>1. "dram-base" \notin MachineProps /\ "dram-base" \notin LogProps
    BY DEF MachineProps, LogProps
  <2>2. Says(machine, Chosen, "dram-base", U64(base))
    BY <1>1, <1>2, <1>5, <2>1, EditSays DEF From
  <2> QED BY <1>1, <1>5, <2>1, <2>2, EditSays DEF From
<1>8. Rooms(early, FALSE)
  <2>1. EarlyProps \cap RegionProps = {}
    BY DEF EarlyProps, DramProps, MachineProps, LogProps, RegionProps
  <2> QED BY <1>1, <2>1, EditRooms DEF From, Empty
<1>9. Regs(machine) /\ Unlogged(machine)
  <2>1. /\ "reg" \notin DramProps \cup MachineProps /\ LogSize \notin DramProps \cup MachineProps
        /\ <<"pram">> # <<"rtc">> /\ <<"vram">> # <<"rtc">>
    BY DEF DramProps, MachineProps, LogSize
  <2>2. ASSUME NEW i \in DOMAIN machine, machine[i].path # <<"rtc">>
        PROVE  /\ i \in DOMAIN d /\ machine[i].path = d[i].path
               /\ Same(d[i].props, machine[i].props, "reg")
               /\ Same(d[i].props, machine[i].props, LogSize)
    BY <1>6, <2>1, <2>2 DEF From, Edit, NodeEdit, Rtc
  <2> QED BY <1>5, <2>1, <2>2 DEF Empty, Regs, Unlogged, Same
<1>10. Logs(pram)
  BY <1>9, PramLogs
<1>11. Typed(pram) /\ Placed(pram)
  <2>1. /\ Bytes(Number(0, 8) \o Number(PanicLogSize, 8)) \in Values
        /\ Bytes(Number(PanicLogSize, 4)) \in Values
    <3>1. \A k \in Int : /\ Number(k, 8) \in Seq(0 .. 255) /\ Len(Number(k, 8)) = 8
                         /\ Number(k, 4) \in Seq(0 .. 255)
      BY NumberTyped, ZenonT(60)
    <3>2. 0 \in Int /\ PanicLogSize \in Int
      BY DEF PanicLogSize
    <3>3. Number(0, 8) \o Number(PanicLogSize, 8) \in Seq(0 .. 255)
      BY <3>1, <3>2, Joined
    <3> QED BY <3>1, <3>2, <3>3, ValuesTyped
  <2> DEFINE W == {"reg", LogSize}
             reg == Bytes(Number(0, 8) \o Number(PanicLogSize, 8))
             size == Bytes(Number(PanicLogSize, 4))
             e == Put(machine, <<"pram">>, {"reg"}, reg)
  <2>2. pram = machine \/ pram = Put(e, Chosen, {LogSize}, size)
    BY DEF FixupPram, LogSize
  <2> HIDE DEF pram, reg, size
  <2>3. From(machine, e, W)
    BY <1>3, <2>1, FromSelf, PutFrom DEF reg
  <2> HIDE DEF e
  <2>4. From(machine, Put(e, Chosen, {LogSize}, size), W)
    BY <2>1, <2>3, PutFrom DEF size
  <2> QED BY <1>3, <2>2, <2>4 DEF From
<1>12. From(pram, early, Macs)
  <2> DEFINE mask == [t |-> "u64", v |-> [i \in 1 .. 8 |-> 255]]
             config == Put(pram, InvalidateHmac, {"config"}, U32(1))
             offset == Put(config, InvalidateHmac, {"sio-hmac1-offset"}, U64(0))
  <2>1. mask \in Values /\ U32(1) \in Values /\ U64(0) \in Values
    <3>1. [i \in 1 .. 8 |-> 255] \in Seq(0 .. 255)
      OBVIOUS
    <3>2. mask \in Values
      BY <3>1 DEF Values, Types
    <3> QED BY <3>2, ValuesTyped
  <2>2. early = Put(offset, InvalidateHmac, {"sio-hmac1-disable-mask"}, mask)
    BY <1>4 DEF FixupHmac
  <2> HIDE DEF pram, mask
  <2>3. From(pram, config, Macs)
    BY <1>11, <2>1, FromSelf, PutFrom
  <2> HIDE DEF config
  <2>4. From(pram, offset, Macs)
    BY <2>1, <2>3, PutFrom
  <2> HIDE DEF offset
  <2> QED BY <2>1, <2>2, <2>4, PutFrom
<1>13. Logs(early)
  <2>1. "reg" \notin Macs /\ LogSize \notin Macs
    BY DEF LogSize
  <2> HIDE DEF Macs, pram
  <2> QED BY <1>10, <1>12, <2>1, EditLogs DEF From
<1> QED BY <1>1, <1>7, <1>8, <1>13 DEF Ready, early, base

(* Whatever fixup() does, the loader finds the places it writes to, empty.   *)
LEMMA FixupReady ==
  ASSUME NEW d, Typed(d), Placed(d), Fixable(d), Empty(d), NEW sw, Switches(sw), Deciding(sw)
  PROVE  Ready(Fixup(d, sw), DramStart(GetSocGen(d)), sw.dram, sw.dcpRegion \/ sw.normalize)
<1> DEFINE early == EarlyPart(d, sw)
           ids == AssignDartIds(early)
           routes == RoutesPart(ids, sw)
           power == PowerPart(routes, sw)
           base == DramStart(GetSocGen(d))
           top == sw.dram
           final == Fixup(d, sw)
<1>1. final = LatePart(power, sw)
  BY DEF Fixup, LatePart, PowerPart, RoutesPart, EarlyPart
<1>2. Ready(early, base, top, FALSE) /\ From(d, early, EarlyProps)
  BY EarlyReady, EarlyFrom
<1> HIDE DEF early, base, top, final
<1>3. From(early, ids, {"dart-id"})
  BY <1>2, DartFrom DEF From
<1>4. Ready(ids, base, top, FALSE)
  <2>1. {"dart-id"} \cap RegionProps = {} /\ LogSize \notin {"dart-id"}
    BY DEF RegionProps, LogSize
  <2> QED BY <1>2, <1>3, <2>1, EditReady DEF From
<1> HIDE DEF ids
<1>5. From(ids, routes, RoutesProps) /\ Rooms(routes, sw.dcpRegion)
  <2>1. Typed(ids) /\ Placed(ids) /\ Rooms(ids, FALSE) /\ sw.dcpRegion \in BOOLEAN
    BY <1>3, <1>4 DEF From, Ready, Deciding
  <2>2. From(ids, routes, RoutesProps)
    BY <2>1, RoutesFrom
  <2>3. \A g \in BOOLEAN : g = sw.dcpRegion => Rooms(routes, g)
    BY <2>1, RoutesRooms
  <2>4. PICK g \in BOOLEAN : g = sw.dcpRegion
    BY <2>1
  <2>5. Rooms(routes, g)
    BY <2>3, <2>4
  <2>6. Rooms(routes, sw.dcpRegion)
    BY <2>4, <2>5, Zenon
  <2> QED BY <2>2, <2>6
<1>6. Ready(routes, base, top, sw.dcpRegion)
  <2>1. /\ "reg" \notin RoutesProps /\ LogSize \notin RoutesProps
        /\ "dram-base" \notin RoutesProps /\ "dram-size" \notin RoutesProps
        /\ Chosen # <<"rtc">>
    BY DEF RoutesProps, RegionProps, LogSize, Chosen
  <2> QED BY <1>4, <1>5, <2>1, EditSays, EditLogs DEF From, Ready
<1> HIDE DEF routes
<1>7. From(routes, power, NormalProps) /\ Rooms(power, sw.dcpRegion \/ sw.normalize)
  BY <1>5, PowerFrom, PowerRooms DEF From, Deciding
<1> DEFINE given == sw.dcpRegion \/ sw.normalize
<1>8. Ready(power, base, top, given)
  <2>1. /\ "reg" \notin NormalProps /\ LogSize \notin NormalProps
        /\ "dram-base" \notin NormalProps /\ "dram-size" \notin NormalProps
        /\ Chosen # <<"rtc">>
    BY DEF NormalProps, RegionProps, PowerFlags, LogSize, Chosen
  <2> QED BY <1>6, <1>7, <2>1, EditSays, EditLogs DEF From, Ready
<1> HIDE DEF power, given
<1>9. Chosen \in Paths(power)
  <2>1. Chosen \in Paths(d)
    BY DEF Fixable, Required
  <2> QED BY <2>1, <1>2, <1>3, <1>5, <1>7, ChosenStays DEF From
<1>10. From(power, final, LateProps)
  BY <1>1, <1>7, <1>9, LateFrom DEF From
<1>11. Ready(final, base, top, given)
  <2>1. /\ "reg" \notin LateProps /\ LogSize \notin LateProps
        /\ "dram-base" \notin LateProps /\ "dram-size" \notin LateProps
        /\ LateProps \cap RegionProps = {}
    BY DEF LateProps, AmccProps, CtrrProps, MapEntries, RegionProps, LogSize
  <2> QED BY <1>8, <1>10, <2>1, EditReady DEF From
<1> QED BY <1>11 DEF final, base, top, given

-----------------------------------------------------------------------------
\* Trees in which a path but the clock's names one node.
Unique(d) == \A i, j \in DOMAIN d : d[i].path = d[j].path /\ d[i].path # <<"rtc">> => i = j
BytesOf(d, p, n) == Node(d, p).props[n].bytes

LEMMA NodeOne ==
  ASSUME NEW d, Unique(d), NEW i \in DOMAIN d, d[i].path # <<"rtc">>
  PROVE  Node(d, d[i].path) = d[i]
<1>1. d[i].path \in Paths(d)
  BY DEF Paths
<1>2. PICK j \in DOMAIN d : d[j].path = d[i].path /\ Node(d, d[i].path) = d[j]
  BY <1>1, NodeHas
<1>3. i = j
  BY <1>2 DEF Unique
<1> QED BY <1>2, <1>3

LEMMA PutUnique ==
  ASSUME NEW d, Unique(d), NEW q, NEW names, NEW v
  PROVE  /\ Unique(Put(d, q, names, v)) /\ Paths(Put(d, q, names, v)) = Paths(d)
         /\ \A p \in Paths(d) : p # <<"rtc">> =>
               Node(Put(d, q, names, v), p) = PutAt(Node(d, p), q, names, v)
<1> DEFINE f == Put(d, q, names, v)
<1>1. DOMAIN f = DOMAIN d /\ \A i \in DOMAIN d : f[i] = PutAt(d[i], q, names, v)
  BY DEF Put
<1> HIDE DEF f
<1>2. \A i \in DOMAIN d : f[i].path = d[i].path
  BY <1>1, SetParts DEF PutAt
<1>3. Unique(f) /\ Paths(f) = Paths(d)
  BY <1>1, <1>2 DEF Unique, Paths
<1>4. ASSUME NEW p \in Paths(d), p # <<"rtc">>
      PROVE  Node(f, p) = PutAt(Node(d, p), q, names, v)
  <2>1. PICK i \in DOMAIN d : d[i].path = p /\ Node(d, p) = d[i]
    BY NodeHas
  <2>2. Node(f, f[i].path) = f[i]
    BY <1>1, <1>2, <1>3, <1>4, <2>1, NodeOne
  <2> QED BY <1>1, <1>2, <2>1, <2>2
<1> QED BY <1>3, <1>4 DEF f

\* r is s with the bytes written at p's n, if it is there.
Wrote(s, r, p, n, bytes) ==
    /\ LoaderState(r) /\ r.mem = s.mem /\ r.carves = s.carves /\ r.spilled = s.spilled
    /\ Unique(r.tree) /\ Paths(r.tree) = Paths(s.tree)
    /\ \A q, m : q # <<"rtc">> =>
          /\ HasProp(r.tree, q, m) <=> HasProp(s.tree, q, m)
          /\ HasProp(s.tree, q, m) =>
                BytesOf(r.tree, q, m) = IF q = p /\ m = n THEN bytes ELSE BytesOf(s.tree, q, m)

LEMMA Overlay ==
  ASSUME NEW bytes \in Seq(0 .. 255), NEW old \in Seq(0 .. 255), Len(old) = Len(bytes)
  PROVE  bytes \o SubSeq(old, Len(bytes) + 1, Len(old)) = bytes
<1>1. SubSeq(old, Len(bytes) + 1, Len(old)) = <<>>
  OBVIOUS
<1> QED BY <1>1, ConcatEmptySeq

LEMMA PublishWrites ==
  ASSUME NEW s, LoaderState(s), Unique(s.tree), NEW p, p # <<"rtc">>, NEW n,
         NEW bytes \in Seq(0 .. 255),
         HasProp(s.tree, p, n) => BytesOf(s.tree, p, n) \in Seq(0 .. 255)
                                  /\ Len(BytesOf(s.tree, p, n)) = Len(bytes)
  PROVE  Wrote(s, Publish(s, p, n, bytes), p, n, bytes)
<1>1. CASE ~HasProp(s.tree, p, n)
  <2>1. Publish(s, p, n, bytes) = s
    BY <1>1 DEF Publish
  <2> QED BY <1>1, <2>1 DEF Wrote
<1>2. CASE HasProp(s.tree, p, n)
  <2> DEFINE old == Node(s.tree, p).props[n]
             v == [len |-> old.len, bytes |-> bytes]
             tree == Put(s.tree, p, {n}, v)
             r == [s EXCEPT !.tree = tree]
  <2>1. Publish(s, p, n, bytes) = [s EXCEPT !.tree = tree, !.spilled = s.spilled]
    <3>1. old.bytes \in Seq(0 .. 255) /\ Len(old.bytes) = Len(bytes)
      BY <1>2 DEF BytesOf
    <3>2. bytes \o SubSeq(old.bytes, Len(bytes) + 1, Len(old.bytes)) = bytes
      BY <3>1, Overlay
    <3>3. ~(Len(old.bytes) < Len(bytes))
      BY <3>1
    <3> QED BY <1>2, <3>2, <3>3, Zenon DEF Publish
  <2>2. /\ Unique(tree) /\ Paths(tree) = Paths(s.tree)
        /\ \A q \in Paths(s.tree) : q # <<"rtc">> =>
              Node(tree, q) = PutAt(Node(s.tree, q), p, {n}, v)
    BY PutUnique
  <2>3. ASSUME NEW q \in Paths(s.tree), q # <<"rtc">>
        PROVE  /\ q # p => Node(tree, q) = Node(s.tree, q)
               /\ q = p => Node(tree, q) = Set(Node(s.tree, q), {n}, v)
    <3>1. PICK i \in DOMAIN s.tree : s.tree[i].path = q /\ Node(s.tree, q) = s.tree[i]
      BY NodeHas
    <3>2. Node(tree, q) = PutAt(Node(s.tree, q), p, {n}, v)
      BY <2>2, <2>3
    <3> QED BY <3>1, <3>2 DEF PutAt
  <2> HIDE DEF tree
  <2>4. ASSUME NEW q, NEW m, q # <<"rtc">>
        PROVE  /\ HasProp(tree, q, m) <=> HasProp(s.tree, q, m)
               /\ HasProp(s.tree, q, m) =>
                     BytesOf(tree, q, m) = IF q = p /\ m = n THEN bytes ELSE BytesOf(s.tree, q, m)
    <3>1. CASE q \notin Paths(s.tree)
      BY <2>2, <3>1 DEF HasProp
    <3>2. CASE q \in Paths(s.tree) /\ q # p
      BY <2>2, <2>3, <2>4, <3>2 DEF HasProp, BytesOf
    <3>3. CASE q \in Paths(s.tree) /\ q = p
      <4> DEFINE old_ == Node(s.tree, q)
                 new == Node(tree, q)
      <4>1. new = Set(old_, {n}, v) /\ n \in DOMAIN old_.props
        BY <1>2, <2>3, <2>4, <3>3 DEF HasProp
      <4> HIDE DEF old_, new, v
      <4>2. /\ DOMAIN new.props = DOMAIN old_.props \cup {n}
            /\ \A x \in DOMAIN new.props : new.props[x] = IF x \in {n} THEN v ELSE old_.props[x]
        BY <4>1, SetParts
      <4>3. DOMAIN new.props = DOMAIN old_.props /\ v.bytes = bytes
        BY <4>1, <4>2 DEF v
      <4> QED BY <2>2, <3>3, <4>2, <4>3 DEF HasProp, BytesOf, old_, new
    <3> QED BY <3>1, <3>2, <3>3
  <2> DEFINE end == [s EXCEPT !.tree = tree, !.spilled = s.spilled]
  <2>5. /\ LoaderState(end) /\ end.mem = s.mem /\ end.carves = s.carves
        /\ end.spilled = s.spilled /\ end.tree = tree
    BY DEF LoaderState
  <2> HIDE DEF end
  <2>6. Wrote(s, end, p, n, bytes)
    BY <2>2, <2>4, <2>5 DEF Wrote
  <2> QED BY <2>1, <2>6 DEF end
<1> QED BY <1>1, <1>2

-----------------------------------------------------------------------------
\* A nub's region in the tree: no room for it, nothing of it, or what was carved.
Region(s, base, p, name) ==
    /\ HasProp(s.tree, p, "region-base") <=> HasProp(s.tree, p, "region-size")
    /\ HasProp(s.tree, p, "region-base") =>
          \/ /\ BytesOf(s.tree, p, "region-base") = Number(0, 8)
             /\ BytesOf(s.tree, p, "region-size") = Number(0, 8)
          \/ /\ name \in DOMAIN s.carves
             /\ BytesOf(s.tree, p, "region-base") = Number(base + s.carves[name].lo, 8)
             /\ BytesOf(s.tree, p, "region-size")
                  = Number(s.carves[name].hi - s.carves[name].lo, 8)

Span(c, top) ==
    /\ c.lo \in Nat /\ c.hi \in Nat /\ c.lo <= c.hi /\ c.hi <= top
    /\ c = [lo |-> c.lo, hi |-> c.hi]

Sixteen(tree, p) ==
    HasProp(tree, p, "reg") => /\ BytesOf(tree, p, "reg") \in Seq(0 .. 255)
                               /\ Len(BytesOf(tree, p, "reg")) = 16

\* A loader state on the way: what is in the tree is what was carved; nothing was
\* spilled; and the tree has the properties of the one that was read.
Sound(s, tree, base, top) ==
    /\ LoaderState(s) /\ Unique(s.tree) /\ s.spilled = {}
    /\ s.mem \in Nat /\ s.mem <= top
    /\ \A a \in DOMAIN s.carves : Span(s.carves[a], top)
    /\ HasProp(s.tree, Chosen, "dram-base")
    /\ BytesOf(s.tree, Chosen, "dram-base") = Number(base, 8)
    /\ Region(s, base, AnsNub, "ans") /\ Region(s, base, DcpNub, "dcp")
    /\ Sixteen(s.tree, <<"pram">>) /\ Sixteen(s.tree, <<"vram">>)
    /\ Paths(s.tree) = Paths(tree)
    /\ \A q, m : q # <<"rtc">> => (HasProp(s.tree, q, m) <=> HasProp(tree, q, m))
    /\ HasProp(tree, Chosen, LogSize) =>
          BytesOf(s.tree, Chosen, LogSize) = BytesOf(tree, Chosen, LogSize)

\* Numbers of the two parameters.
Bases(base, top) == base \in Nat /\ top \in Nat /\ base + top < NumberBound

LEMMA BaseRead ==
  ASSUME NEW s, NEW tree, NEW base, NEW top, Bases(base, top), Sound(s, tree, base, top)
  PROVE  DramBase(s.tree) = base
<1>1. base < NumberBound /\ base \in Nat /\ 8 \in Nat /\ 8 >= 3
  <2>1. NumberBound \in Nat
    BY SMT DEF NumberBound
  <2> QED BY <2>1 DEF Bases
<1>2. Value(Number(base, 8)) = base
  BY <1>1, NumberValue
<1> QED BY <1>2 DEF DramBase, BytesOf, Sound

LEMMA SoundCarve ==
  ASSUME NEW s, NEW tree, NEW base, NEW top, Bases(base, top), Sound(s, tree, base, top),
         NEW name, name \notin DOMAIN s.carves, NEW size \in Nat, size <= s.mem
  PROVE  LET c == Carve(s, name, size)
         IN  /\ Sound(c, tree, base, top) /\ c.mem = s.mem - size
             /\ DOMAIN c.carves = DOMAIN s.carves \cup {name}
             /\ c.carves[name] = [lo |-> s.mem - size, hi |-> s.mem]
             /\ \A a \in DOMAIN s.carves : c.carves[a] = s.carves[a]
<1> DEFINE new == [lo |-> s.mem - size, hi |-> s.mem]
           cs == [n \in DOMAIN s.carves \cup {name} |-> IF n = name THEN new ELSE s.carves[n]]
           c == [s EXCEPT !.mem = s.mem - size, !.carves = cs]
<1>1. Carve(s, name, size) = c
  BY Zenon DEF Carve
<1>2. /\ DOMAIN cs = DOMAIN s.carves \cup {name} /\ cs[name] = new
      /\ \A a \in DOMAIN s.carves : cs[a] = s.carves[a]
  OBVIOUS
<1> HIDE DEF cs
<1>3. /\ LoaderState(c) /\ c.mem = s.mem - size /\ c.carves = cs /\ c.tree = s.tree
      /\ c.spilled = s.spilled
  BY DEF Sound, LoaderState
<1> HIDE DEF c
<1>4. Span(new, top) /\ s.mem - size \in Nat /\ s.mem - size <= top
  BY DEF Sound, Span, Bases
<1> HIDE DEF new
<1>5. \A a \in DOMAIN c.carves : Span(c.carves[a], top)
  BY <1>2, <1>3, <1>4 DEF Sound
<1>6. Region(c, base, AnsNub, "ans") /\ Region(c, base, DcpNub, "dcp")
  <2>1. ASSUME NEW p, NEW n, Region(s, base, p, n) PROVE Region(c, base, p, n)
    <3>1. n \in DOMAIN s.carves => n \in DOMAIN c.carves /\ c.carves[n] = s.carves[n]
      BY <1>2, <1>3
    <3> QED BY <1>3, <2>1, <3>1 DEF Region
  <2> QED BY <2>1 DEF Sound
<1>7. Sound(c, tree, base, top)
  BY <1>3, <1>4, <1>5, <1>6 DEF Sound
<1> QED BY <1>1, <1>2, <1>3, <1>7 DEF new

LEMMA SoundOther ==
  ASSUME NEW s, NEW tree, NEW base, NEW top, Sound(s, tree, base, top),
         NEW r, NEW p, NEW n, NEW bytes \in Seq(0 .. 255), Wrote(s, r, p, n, bytes),
         \/ p \in {<<"pram">>, <<"vram">>} /\ n = "reg" /\ Len(bytes) = 16
         \/ p = Chosen /\ n = "display-scale"
  PROVE  Sound(r, tree, base, top)
<1>1. /\ Chosen # <<"rtc">> /\ AnsNub # <<"rtc">> /\ DcpNub # <<"rtc">>
      /\ <<"pram">> # <<"rtc">> /\ <<"vram">> # <<"rtc">>
      /\ AnsNub \notin {<<"pram">>, <<"vram">>, Chosen}
      /\ DcpNub \notin {<<"pram">>, <<"vram">>, Chosen}
      /\ Chosen \notin {<<"pram">>, <<"vram">>}
      /\ n \notin {"dram-base", LogSize}
  BY DEF Chosen, AnsNub, DcpNub, LogSize
<1>2. ASSUME NEW q, NEW m, q # <<"rtc">>
      PROVE  /\ HasProp(r.tree, q, m) <=> HasProp(s.tree, q, m)
             /\ HasProp(s.tree, q, m) =>
                   BytesOf(r.tree, q, m) = IF q = p /\ m = n THEN bytes ELSE BytesOf(s.tree, q, m)
  BY <1>2 DEF Wrote
<1>3. ASSUME NEW q \in {AnsNub, DcpNub}, NEW name, Region(s, base, q, name)
      PROVE  Region(r, base, q, name)
  <2>1. ASSUME NEW m
        PROVE  /\ HasProp(r.tree, q, m) <=> HasProp(s.tree, q, m)
               /\ HasProp(s.tree, q, m) => BytesOf(r.tree, q, m) = BytesOf(s.tree, q, m)
    BY <1>1, <1>2
  <2>2. r.carves = s.carves
    BY DEF Wrote
  <2> QED BY <1>3, <2>1, <2>2 DEF Region
<1>4. Region(r, base, AnsNub, "ans") /\ Region(r, base, DcpNub, "dcp")
  BY <1>3 DEF Sound
<1>5. Sixteen(r.tree, <<"pram">>) /\ Sixteen(r.tree, <<"vram">>)
  <2>1. ASSUME NEW q \in {<<"pram">>, <<"vram">>}, Sixteen(s.tree, q) PROVE Sixteen(r.tree, q)
    <3>1. q # <<"rtc">>
      BY <1>1
    <3>2. /\ HasProp(r.tree, q, "reg") <=> HasProp(s.tree, q, "reg")
          /\ HasProp(s.tree, q, "reg") =>
                BytesOf(r.tree, q, "reg") = IF q = p /\ "reg" = n THEN bytes
                                       ELSE BytesOf(s.tree, q, "reg")
      BY <1>2, <3>1
    <3>3. q = p /\ n = "reg" => Len(bytes) = 16
      BY <1>1
    <3> QED BY <2>1, <3>2, <3>3 DEF Sixteen
  <2> QED BY <2>1 DEF Sound
<1>6. /\ HasProp(r.tree, Chosen, "dram-base")
      /\ BytesOf(r.tree, Chosen, "dram-base") = Number(base, 8)
      /\ HasProp(tree, Chosen, LogSize) =>
            BytesOf(r.tree, Chosen, LogSize) = BytesOf(tree, Chosen, LogSize)
  BY <1>1, <1>2 DEF Sound
<1>7. \A q, m : q # <<"rtc">> => (HasProp(r.tree, q, m) <=> HasProp(tree, q, m))
  BY <1>2 DEF Sound
<1> QED BY <1>4, <1>5, <1>6, <1>7 DEF Sound, Wrote

LEMMA SpanInts ==
  ASSUME NEW s, NEW tree, NEW base, NEW top, Bases(base, top), Sound(s, tree, base, top),
         NEW name \in DOMAIN s.carves
  PROVE  base + s.carves[name].lo \in Int /\ s.carves[name].hi - s.carves[name].lo \in Int
<1> DEFINE c == s.carves[name]
<1>1. Span(c, top)
  BY DEF Sound
<1> HIDE DEF c
<1>2. c.lo \in Nat /\ c.hi \in Nat
  BY <1>1 DEF Span
<1>3. base \in Nat
  BY DEF Bases
<1> DEFINE lo == c.lo
           hi == c.hi
<1> HIDE DEF lo, hi
<1>4. lo \in Nat /\ hi \in Nat
  BY <1>2 DEF lo, hi
<1>5. base + lo \in Int /\ hi - lo \in Int
  BY <1>3, <1>4
<1> QED BY <1>5 DEF c, lo, hi

LEMMA RegionBytes ==
  ASSUME NEW s, NEW tree, NEW base, NEW top, Bases(base, top), Sound(s, tree, base, top),
         NEW p, NEW name, Region(s, base, p, name), NEW n \in RegionProps, HasProp(s.tree, p, n)
  PROVE  BytesOf(s.tree, p, n) \in Seq(0 .. 255) /\ Len(BytesOf(s.tree, p, n)) = 8
<1>1. ASSUME NEW k \in Int
      PROVE  Number(k, 8) \in Seq(0 .. 255) /\ Len(Number(k, 8)) = 8
  BY NumberTyped
<1>2. name \in DOMAIN s.carves =>
         base + s.carves[name].lo \in Int /\ s.carves[name].hi - s.carves[name].lo \in Int
  BY SpanInts
<1>3. PICK k \in Int : BytesOf(s.tree, p, n) = Number(k, 8)
  <2>1. n = "region-base" \/ n = "region-size"
    BY DEF RegionProps
  <2>2. HasProp(s.tree, p, "region-base")
    BY <2>1 DEF Region
  <2> QED BY <1>2, <2>1, <2>2 DEF Region
<1> QED BY <1>1, <1>3

LEMMA SoundRegion ==
  ASSUME NEW s, NEW tree, NEW base, NEW top, Bases(base, top), Sound(s, tree, base, top),
         NEW p, NEW name, \/ p = AnsNub /\ name = "ans"
                          \/ p = DcpNub /\ name = "dcp",
         name \in DOMAIN s.carves
  PROVE  LET c == s.carves[name]
             b == Publish(s, p, "region-base", Number(base + c.lo, 8))
             r == Publish(b, p, "region-size", Number(c.hi - c.lo, 8))
         IN  Sound(r, tree, base, top) /\ r.mem = s.mem /\ r.carves = s.carves
<1> DEFINE c == s.carves[name]
           x == Number(base + c.lo, 8)
           y == Number(c.hi - c.lo, 8)
           b == Publish(s, p, "region-base", x)
           r == Publish(b, p, "region-size", y)
<1>1. /\ x \in Seq(0 .. 255) /\ Len(x) = 8 /\ y \in Seq(0 .. 255) /\ Len(y) = 8
  <2>1. base + c.lo \in Int /\ c.hi - c.lo \in Int
    BY SpanInts
  <2> QED BY <2>1, NumberTyped, ZenonT(60)
<1>2. /\ AnsNub # DcpNub /\ AnsNub # <<"rtc">> /\ DcpNub # <<"rtc">> /\ Chosen # <<"rtc">>
      /\ <<"pram">> # <<"rtc">> /\ <<"vram">> # <<"rtc">>
      /\ Chosen \notin {AnsNub, DcpNub} /\ <<"pram">> \notin {AnsNub, DcpNub}
      /\ <<"vram">> \notin {AnsNub, DcpNub}
      /\ RegionProps = {"region-base", "region-size"}
  BY DEF AnsNub, DcpNub, Chosen, RegionProps
<1>3. p # <<"rtc">> /\ p \in {AnsNub, DcpNub} /\ Region(s, base, p, name)
  BY <1>2 DEF Sound
<1>4. \A n \in RegionProps : HasProp(s.tree, p, n) =>
         BytesOf(s.tree, p, n) \in Seq(0 .. 255) /\ Len(BytesOf(s.tree, p, n)) = 8
  BY <1>3, RegionBytes
<1> HIDE DEF x, y
<1>5. Wrote(s, b, p, "region-base", x)
  <2>1. LoaderState(s) /\ Unique(s.tree)
    BY DEF Sound
  <2> QED BY <1>1, <1>2, <1>3, <1>4, <2>1, PublishWrites
<1> HIDE DEF b
<1>6. Wrote(b, r, p, "region-size", y)
  <2>1. LoaderState(b) /\ Unique(b.tree)
    BY <1>5 DEF Wrote
  <2>2. HasProp(b.tree, p, "region-size") =>
           HasProp(s.tree, p, "region-size")
           /\ BytesOf(b.tree, p, "region-size") = BytesOf(s.tree, p, "region-size")
    BY <1>3, <1>5 DEF Wrote
  <2>3. HasProp(b.tree, p, "region-size") =>
           BytesOf(b.tree, p, "region-size") \in Seq(0 .. 255)
           /\ Len(BytesOf(b.tree, p, "region-size")) = Len(y)
    BY <1>1, <1>2, <1>4, <2>2
  <2> QED BY <1>1, <1>3, <2>1, <2>3, PublishWrites
<1> HIDE DEF r
<1>7. /\ LoaderState(r) /\ r.mem = s.mem /\ r.carves = s.carves /\ r.spilled = s.spilled
      /\ Unique(r.tree) /\ Paths(r.tree) = Paths(s.tree)
  BY <1>5, <1>6 DEF Wrote
<1>8. ASSUME NEW q, NEW m, q # <<"rtc">>
      PROVE  /\ HasProp(r.tree, q, m) <=> HasProp(s.tree, q, m)
             /\ HasProp(s.tree, q, m) =>
                   BytesOf(r.tree, q, m) =
                     IF q = p /\ m = "region-base" THEN x
                     ELSE IF q = p /\ m = "region-size" THEN y ELSE BytesOf(s.tree, q, m)
  <2>1. /\ HasProp(b.tree, q, m) <=> HasProp(s.tree, q, m)
        /\ HasProp(s.tree, q, m) =>
              BytesOf(b.tree, q, m) =
                IF q = p /\ m = "region-base" THEN x ELSE BytesOf(s.tree, q, m)
    BY <1>5, <1>8 DEF Wrote
  <2>2. /\ HasProp(r.tree, q, m) <=> HasProp(b.tree, q, m)
        /\ HasProp(b.tree, q, m) =>
              BytesOf(r.tree, q, m) =
                IF q = p /\ m = "region-size" THEN y ELSE BytesOf(b.tree, q, m)
    BY <1>6, <1>8 DEF Wrote
  <2>3. "region-base" # "region-size"
    OBVIOUS
  <2> QED BY <2>1, <2>2, <2>3
<1>9. Region(r, base, p, name)
  <2>1. name \in DOMAIN r.carves /\ r.carves[name] = c
    BY <1>7
  <2> QED BY <1>3, <1>8, <2>1 DEF Region, x, y
<1>10. ASSUME NEW q \in {AnsNub, DcpNub}, q # p, NEW n, Region(s, base, q, n)
       PROVE  Region(r, base, q, n)
  <2>1. ASSUME NEW m
        PROVE  /\ HasProp(r.tree, q, m) <=> HasProp(s.tree, q, m)
               /\ HasProp(s.tree, q, m) => BytesOf(r.tree, q, m) = BytesOf(s.tree, q, m)
    BY <1>2, <1>8, <1>10
  <2> QED BY <1>7, <1>10, <2>1 DEF Region
<1>11. Region(r, base, AnsNub, "ans") /\ Region(r, base, DcpNub, "dcp")
  <2>1. Region(s, base, AnsNub, "ans") /\ Region(s, base, DcpNub, "dcp")
    BY DEF Sound
  <2> QED BY <1>2, <1>9, <1>10, <2>1
<1>12. ASSUME NEW q \in {<<"pram">>, <<"vram">>, Chosen}, NEW m
       PROVE  /\ HasProp(r.tree, q, m) <=> HasProp(s.tree, q, m)
              /\ HasProp(s.tree, q, m) => BytesOf(r.tree, q, m) = BytesOf(s.tree, q, m)
  <2>1. q # <<"rtc">> /\ q # p
    BY <1>2, <1>3
  <2> QED BY <1>8, <2>1
<1>13. Sixteen(r.tree, <<"pram">>) /\ Sixteen(r.tree, <<"vram">>)
  BY <1>12 DEF Sound, Sixteen
<1>14. /\ HasProp(r.tree, Chosen, "dram-base")
       /\ BytesOf(r.tree, Chosen, "dram-base") = Number(base, 8)
       /\ HasProp(tree, Chosen, LogSize) =>
             BytesOf(r.tree, Chosen, LogSize) = BytesOf(tree, Chosen, LogSize)
  BY <1>2, <1>12 DEF Sound
<1>15. \A q, m : q # <<"rtc">> => (HasProp(r.tree, q, m) <=> HasProp(tree, q, m))
  BY <1>8 DEF Sound
<1>16. Sound(r, tree, base, top)
  BY <1>7, <1>11, <1>13, <1>14, <1>15 DEF Sound
<1> QED BY <1>7, <1>16 DEF r, b, x, y

\* A step of the loader that takes size off, for a region that is not taken yet.
Takes(s, r, tree, base, top, name, size) ==
    /\ Sound(r, tree, base, top) /\ r.mem = s.mem - size
    /\ DOMAIN s.carves \subseteq DOMAIN r.carves
    /\ DOMAIN r.carves \subseteq DOMAIN s.carves \cup {name}
    /\ size > 0 => name \in DOMAIN r.carves

LEMMA CarveTakes ==
  ASSUME NEW s, NEW tree, NEW base, NEW top, Bases(base, top), Sound(s, tree, base, top),
         NEW name, name \notin DOMAIN s.carves, NEW size \in Nat, size <= s.mem
  PROVE  Takes(s, Carve(s, name, size), tree, base, top, name, size)
<1> DEFINE c == Carve(s, name, size)
<1>1. /\ Sound(c, tree, base, top) /\ c.mem = s.mem - size
      /\ DOMAIN c.carves = DOMAIN s.carves \cup {name}
      /\ c.carves[name] = [lo |-> s.mem - size, hi |-> s.mem]
  BY SoundCarve
<1> HIDE DEF c
<1>2. Takes(s, c, tree, base, top, name, size)
  BY <1>1 DEF Takes
<1> QED BY <1>2 DEF c

LEMMA FramebufferTakes ==
  ASSUME NEW s, NEW tree, NEW base, NEW top, Bases(base, top), Sound(s, tree, base, top),
         "fb" \notin DOMAIN s.carves,
         NEW info, info.fbSize \in Nat, info.fbSize <= s.mem
  PROVE  Takes(s, CarveFramebuffer(s, info), tree, base, top, "fb", info.fbSize)
<1>1. s.mem \in Nat
  BY DEF Sound
<1>2. CASE info.fbSize > 0
  BY <1>2, CarveTakes DEF CarveFramebuffer
<1>3. CASE info.fbSize = 0
  <2>1. CarveFramebuffer(s, info) = s /\ s.mem = s.mem - info.fbSize
    BY <1>1, <1>3 DEF CarveFramebuffer
  <2> QED BY <1>3, <2>1 DEF Takes
<1> QED BY <1>2, <1>3

(* Taking a region off and writing its place and size to its nub.           *)
LEMMA NubTakes ==
  ASSUME NEW s, NEW tree, NEW base, NEW top, Bases(base, top), Sound(s, tree, base, top),
         NEW p, NEW name, \/ p = AnsNub /\ name = "ans"
                          \/ p = DcpNub /\ name = "dcp",
         name \notin DOMAIN s.carves, NEW size \in Nat, size > 0, size <= s.mem
  PROVE  LET c == Carve(s, name, size)
             b == Publish(c, p, "region-base", Number(DramBase(s.tree) + c.mem, 8))
             r == Publish(b, p, "region-size", Number(size, 8))
         IN  Takes(s, c, tree, base, top, name, size) /\ Takes(s, r, tree, base, top, name, size)
<1> DEFINE c == Carve(s, name, size)
           at == c.carves[name]
<1>1. /\ Sound(c, tree, base, top) /\ c.mem = s.mem - size
      /\ DOMAIN c.carves = DOMAIN s.carves \cup {name}
      /\ at = [lo |-> s.mem - size, hi |-> s.mem]
  BY SoundCarve
<1>2. DramBase(s.tree) = base
  BY BaseRead
<1> HIDE DEF c
<1>3. at.lo = c.mem /\ at.hi - at.lo = size
  <2>1. s.mem \in Nat
    BY DEF Sound
  <2> QED BY <1>1, <2>1
<1> HIDE DEF at
<1> DEFINE b == Publish(c, p, "region-base", Number(base + at.lo, 8))
           r == Publish(b, p, "region-size", Number(at.hi - at.lo, 8))
<1>4. name \in DOMAIN c.carves
  BY <1>1
<1>5. Sound(r, tree, base, top) /\ r.mem = c.mem /\ r.carves = c.carves
  BY <1>1, <1>4, SoundRegion DEF at
<1>6. /\ Number(DramBase(s.tree) + c.mem, 8) = Number(base + at.lo, 8)
      /\ Number(size, 8) = Number(at.hi - at.lo, 8)
  BY <1>2, <1>3
<1> HIDE DEF b, r
<1>7. Takes(s, c, tree, base, top, name, size) /\ Takes(s, r, tree, base, top, name, size)
  BY <1>1, <1>5 DEF Takes
<1> QED BY <1>6, <1>7 DEF b, r, c

LEMMA AnsTakes ==
  ASSUME NEW s, NEW tree, NEW base, NEW top, Bases(base, top), Sound(s, tree, base, top),
         "ans" \notin DOMAIN s.carves,
         NEW info, info.ansRegion \in Nat, info.ansRegion <= s.mem
  PROVE  Takes(s, CarveAns(s, info), tree, base, top, "ans", info.ansRegion)
<1>1. s.mem \in Nat
  BY DEF Sound
<1>2. CASE info.ansRegion > 0
  BY <1>2, NubTakes DEF CarveAns
<1>3. CASE info.ansRegion = 0
  <2>1. CarveAns(s, info) = s /\ s.mem = s.mem - info.ansRegion
    BY <1>1, <1>3 DEF CarveAns
  <2> QED BY <1>3, <2>1 DEF Takes
<1> QED BY <1>2, <1>3

LEMMA DcpTakes ==
  ASSUME NEW s, NEW tree, NEW base, NEW top, Bases(base, top), Sound(s, tree, base, top),
         "dcp" \notin DOMAIN s.carves,
         NEW info, info.dcpRegion \in Nat, info.dcpRegion <= s.mem
  PROVE  Takes(s, CarveDcp(s, info), tree, base, top, "dcp", info.dcpRegion)
<1>1. s.mem \in Nat
  BY DEF Sound
<1>2. CASE info.dcpRegion > 0
  BY <1>2, NubTakes DEF CarveDcp
<1>3. CASE info.dcpRegion = 0
  <2>1. CarveDcp(s, info) = s /\ s.mem = s.mem - info.dcpRegion
    BY <1>1, <1>3 DEF CarveDcp
  <2> QED BY <1>3, <2>1 DEF Takes
<1> QED BY <1>2, <1>3

\* A region of that size is taken off under that name, and where the panic log's
\* node has a reg it says so; the panic log's own.
PlacedAs(s, tree, base, name, size) ==
    /\ name \in DOMAIN s.carves /\ s.carves[name].hi - s.carves[name].lo = size
    /\ HasProp(tree, <<"pram">>, "reg") =>
          BytesOf(s.tree, <<"pram">>, "reg")
            = Number(base + s.carves[name].lo, 8) \o Number(size, 8)
Placement(s, tree, base) == PlacedAs(s, tree, base, "pram", PanicLogSize)

LEMMA WordsTyped ==
  ASSUME NEW a \in Int, NEW b \in Int
  PROVE  Number(a, 8) \o Number(b, 8) \in Seq(0 .. 255) /\ Len(Number(a, 8) \o Number(b, 8)) = 16
<1>1. /\ Number(a, 8) \in Seq(0 .. 255) /\ Len(Number(a, 8)) = 8
      /\ Number(b, 8) \in Seq(0 .. 255) /\ Len(Number(b, 8)) = 8
  <2>1. \A k \in Int : Number(k, 8) \in Seq(0 .. 255) /\ Len(Number(k, 8)) = 8
    BY NumberTyped
  <2> QED BY <2>1
<1> HIDE DEF Number
<1> QED BY <1>1, Joined

(* Writing two words over a node's reg.                                     *)
LEMMA RegWrites ==
  ASSUME NEW s, NEW tree, NEW base, NEW top, Sound(s, tree, base, top),
         NEW p \in {<<"pram">>, <<"vram">>}, NEW a \in Int, NEW b \in Int
  PROVE  LET words == Number(a, 8) \o Number(b, 8)
             r == Publish(s, p, "reg", words)
         IN  Sound(r, tree, base, top) /\ Wrote(s, r, p, "reg", words)
<1> DEFINE words == Number(a, 8) \o Number(b, 8)
           r == Publish(s, p, "reg", words)
<1>1. words \in Seq(0 .. 255) /\ Len(words) = 16
  BY WordsTyped
<1> HIDE DEF words
<1>2. p # <<"rtc">> /\ LoaderState(s) /\ Unique(s.tree)
  <2>1. <<"pram">> # <<"rtc">> /\ <<"vram">> # <<"rtc">>
    OBVIOUS
  <2> QED BY <2>1 DEF Sound
<1>3. HasProp(s.tree, p, "reg") =>
         /\ BytesOf(s.tree, p, "reg") \in Seq(0 .. 255)
         /\ Len(BytesOf(s.tree, p, "reg")) = Len(words)
  BY <1>1 DEF Sound, Sixteen
<1>4. Wrote(s, r, p, "reg", words)
  BY <1>1, <1>2, <1>3, PublishWrites
<1> HIDE DEF r
<1>5. Sound(r, tree, base, top)
  BY <1>1, <1>4, SoundOther
<1> QED BY <1>4, <1>5 DEF r, words

LEMMA RegTakes ==
  ASSUME NEW s, NEW tree, NEW base, NEW top, Bases(base, top), Sound(s, tree, base, top),
         NEW name, name \notin DOMAIN s.carves, NEW size \in Nat, size <= s.mem
  PROVE  LET c == Carve(s, name, size)
             r == Publish(c, <<"pram">>, "reg",
                          Number(DramBase(s.tree) + c.mem, 8) \o Number(size, 8))
         IN  Takes(s, r, tree, base, top, name, size) /\ PlacedAs(r, tree, base, name, size)
<1> DEFINE c == Carve(s, name, size)
           at == c.carves[name]
<1>1. size \in Int /\ s.mem \in Nat
  BY DEF Sound
<1>2. /\ Sound(c, tree, base, top) /\ c.mem = s.mem - size
      /\ DOMAIN c.carves = DOMAIN s.carves \cup {name}
      /\ at = [lo |-> s.mem - size, hi |-> s.mem]
  BY SoundCarve
<1>3. DramBase(s.tree) = base
  BY BaseRead
<1> DEFINE words == Number(DramBase(s.tree) + c.mem, 8) \o Number(size, 8)
           r == Publish(c, <<"pram">>, "reg", words)
<1> HIDE DEF c
<1>4. DramBase(s.tree) + c.mem \in Int
  BY <1>1, <1>2, <1>3 DEF Bases
<1>5. Sound(r, tree, base, top) /\ Wrote(c, r, <<"pram">>, "reg", words)
  BY <1>1, <1>2, <1>4, RegWrites
<1>6. at.lo = c.mem /\ at.hi - at.lo = size
  BY <1>1, <1>2
<1>7. words = Number(base + at.lo, 8) \o Number(size, 8)
  BY <1>3, <1>6
<1> HIDE DEF words, r
<1>8. r.carves = c.carves /\ r.mem = c.mem
  BY <1>5 DEF Wrote
<1>9. Takes(s, r, tree, base, top, name, size)
  BY <1>2, <1>5, <1>8 DEF Takes
<1>10. HasProp(tree, <<"pram">>, "reg") => BytesOf(r.tree, <<"pram">>, "reg") = words
  <2>1. <<"pram">> # <<"rtc">>
    OBVIOUS
  <2>2. HasProp(tree, <<"pram">>, "reg") => HasProp(c.tree, <<"pram">>, "reg")
    BY <1>2, <2>1 DEF Sound
  <2> QED BY <1>5, <2>1, <2>2 DEF Wrote
<1>11. PlacedAs(r, tree, base, name, size)
  BY <1>2, <1>6, <1>7, <1>8, <1>10 DEF PlacedAs
<1> QED BY <1>9, <1>11 DEF r, words, c

LEMMA PramTakes ==
  ASSUME NEW s, NEW tree, NEW base, NEW top, Bases(base, top), Sound(s, tree, base, top),
         "pram" \notin DOMAIN s.carves, NEW info, PanicLogSize <= s.mem
  PROVE  LET r == CarvePram(s, info)
         IN  Takes(s, r, tree, base, top, "pram", PanicLogSize) /\ Placement(r, tree, base)
<1>1. PanicLogSize \in Nat
  BY DEF PanicLogSize
<1> QED BY <1>1, RegTakes DEF CarvePram, Placement

LEMMA WrotePlacement ==
  ASSUME NEW s, NEW tree, NEW base, NEW top, Sound(s, tree, base, top), Placement(s, tree, base),
         NEW r, NEW p, NEW n, NEW bytes, Wrote(s, r, p, n, bytes), p # <<"pram">>
  PROVE  Placement(r, tree, base)
<1>1. r.carves = s.carves
  BY DEF Wrote
<1>2. ASSUME HasProp(tree, <<"pram">>, "reg")
      PROVE  BytesOf(r.tree, <<"pram">>, "reg") = BytesOf(s.tree, <<"pram">>, "reg")
  <2>1. <<"pram">> # <<"rtc">>
    OBVIOUS
  <2>2. HasProp(s.tree, <<"pram">>, "reg")
    BY <1>2, <2>1 DEF Sound
  <2> QED BY <2>1, <2>2 DEF Wrote
<1> QED BY <1>1, <1>2 DEF Placement, PlacedAs

(* The framebuffer's place and the display's scale are written last.        *)
LEMMA VideoSound ==
  ASSUME NEW s, NEW tree, NEW base, NEW top, Bases(base, top), Sound(s, tree, base, top),
         Placement(s, tree, base),
         NEW info, info.fbSize \in Nat, info.fbSize > 0 => "fb" \in DOMAIN s.carves
  PROVE  LET r == PublishFramebuffer(s, info)
         IN  Sound(r, tree, base, top) /\ Placement(r, tree, base)
<1> DEFINE words == Number(DramBase(s.tree) + s.carves["fb"].lo, 8) \o Number(info.fbSize, 8)
           w == Publish(s, <<"vram">>, "reg", words)
           v == IF info.fbSize > 0 /\ info.fbVideo THEN w ELSE s
           one == Number(1, 4)
           r == Publish(v, Chosen, "display-scale", one)
<1>1. ASSUME info.fbSize > 0
      PROVE  /\ Sound(w, tree, base, top) /\ Placement(w, tree, base)
             /\ Wrote(s, w, <<"vram">>, "reg", words)
  <2>1. DramBase(s.tree) + s.carves["fb"].lo \in Int /\ info.fbSize \in Int
    BY <1>1, BaseRead, SpanInts
  <2>2. Sound(w, tree, base, top) /\ Wrote(s, w, <<"vram">>, "reg", words)
    BY <2>1, RegWrites
  <2> HIDE DEF w, words
  <2>3. <<"vram">> # <<"pram">>
    OBVIOUS
  <2> QED BY <2>2, <2>3, WrotePlacement
<1> HIDE DEF w, words
<1>2. Sound(v, tree, base, top) /\ Placement(v, tree, base)
  BY <1>1
<1>3. ASSUME HasProp(s.tree, Chosen, "display-scale")
      PROVE  BytesOf(v.tree, Chosen, "display-scale") = BytesOf(s.tree, Chosen, "display-scale")
  <2>1. Chosen # <<"rtc">> /\ Chosen # <<"vram">>
    BY DEF Chosen
  <2> QED BY <1>1, <1>3, <2>1 DEF Wrote
<1>4. PublishFramebuffer(s, info) =
        IF /\ info.fbSize > 0 /\ info.fbVideo
           /\ HasProp(s.tree, Chosen, "display-scale")
           /\ BytesOf(s.tree, Chosen, "display-scale") = Zeros(4)
        THEN r ELSE v
  BY Zenon DEF PublishFramebuffer, BytesOf, w, words
<1> HIDE DEF v
<1>5. ASSUME HasProp(s.tree, Chosen, "display-scale"),
             BytesOf(s.tree, Chosen, "display-scale") = Zeros(4)
      PROVE  Sound(r, tree, base, top) /\ Placement(r, tree, base)
  <2>1. one \in Seq(0 .. 255) /\ Len(one) = 4
    <3>1. 1 \in Int /\ 4 \in Nat
      OBVIOUS
    <3> QED BY <3>1, NumberTyped
  <2> HIDE DEF one
  <2>2. Zeros(4) \in Seq(0 .. 255) /\ Len(Zeros(4)) = 4
    BY DEF Zeros
  <2>3. Chosen # <<"rtc">> /\ Chosen # <<"pram">> /\ LoaderState(v) /\ Unique(v.tree)
    BY <1>2 DEF Chosen, Sound
  <2>4. BytesOf(v.tree, Chosen, "display-scale") = Zeros(4)
    BY <1>3, <1>5
  <2>5. Wrote(v, r, Chosen, "display-scale", one)
    BY <2>1, <2>2, <2>3, <2>4, PublishWrites
  <2> HIDE DEF r
  <2>6. Sound(r, tree, base, top)
    BY <1>2, <2>1, <2>5, SoundOther
  <2> QED BY <1>2, <2>3, <2>5, <2>6, WrotePlacement
<1> HIDE DEF r
<1> QED BY <1>2, <1>4, <1>5

(* From a tree that was read to the one handed to the kernel.               *)
LEMMA LoadSound ==
  ASSUME NEW tree, NEW base, NEW top, Bases(base, top), NEW info, Infos(info),
         info.fbSize + info.ansRegion + info.dcpRegion + PanicLogSize <= top,
         Sound([mem |-> DramSize(tree), carves |-> <<>>, tree |-> tree, spilled |-> {}],
               tree, base, top),
         DramSize(tree) = top
  PROVE  LET r == LoadTree(tree, info)
         IN  Sound(r, tree, base, top) /\ Placement(r, tree, base)
<1> DEFINE start == [mem |-> DramSize(tree), carves |-> <<>>, tree |-> tree, spilled |-> {}]
           fb    == CarveFramebuffer(start, info)
           ans   == CarveAns(fb, info)
           dcp   == CarveDcp(ans, info)
           pram  == CarvePram(dcp, info)
           video == PublishFramebuffer(pram, info)
<1>1. LoadTree(tree, info) = video
  BY DEF LoadTree
<1>2. start.mem = top /\ DOMAIN start.carves = {} /\ Sound(start, tree, base, top)
  OBVIOUS
<1>3. /\ info.fbSize \in Nat /\ info.ansRegion \in Nat /\ info.dcpRegion \in Nat
      /\ PanicLogSize \in Nat /\ top \in Nat
  BY DEF Infos, PanicLogSize, Bases
<1> HIDE DEF start
<1>4. Takes(start, fb, tree, base, top, "fb", info.fbSize)
  <2>1. info.fbSize <= start.mem
    BY <1>2, <1>3
  <2> QED BY <1>2, <1>3, <2>1, FramebufferTakes
<1> HIDE DEF fb
<1>5. Takes(fb, ans, tree, base, top, "ans", info.ansRegion)
  <2>1. "ans" \notin DOMAIN fb.carves /\ Sound(fb, tree, base, top)
    BY <1>2, <1>4 DEF Takes
  <2>2. fb.mem = top - info.fbSize
    BY <1>2, <1>4 DEF Takes
  <2>3. info.ansRegion <= fb.mem
    BY <1>3, <2>2
  <2> QED BY <1>3, <2>1, <2>3, AnsTakes
<1> HIDE DEF ans
<1>6. Takes(ans, dcp, tree, base, top, "dcp", info.dcpRegion)
  <2>1. "dcp" \notin DOMAIN ans.carves /\ Sound(ans, tree, base, top)
    BY <1>2, <1>4, <1>5 DEF Takes
  <2>2. ans.mem = top - info.fbSize - info.ansRegion
    BY <1>2, <1>4, <1>5 DEF Takes
  <2>3. info.dcpRegion <= ans.mem
    BY <1>3, <2>2, SMTT(60)
  <2> QED BY <1>3, <2>1, <2>3, DcpTakes
<1> HIDE DEF dcp
<1>7. Takes(dcp, pram, tree, base, top, "pram", PanicLogSize) /\ Placement(pram, tree, base)
  <2>1. "pram" \notin DOMAIN dcp.carves /\ Sound(dcp, tree, base, top)
    BY <1>2, <1>4, <1>5, <1>6 DEF Takes
  <2>2. dcp.mem = top - info.fbSize - info.ansRegion - info.dcpRegion
    BY <1>2, <1>4, <1>5, <1>6 DEF Takes
  <2>3. PanicLogSize <= dcp.mem
    BY <1>3, <2>2
  <2> QED BY <2>1, <2>3, PramTakes
<1> HIDE DEF pram
<1>8. info.fbSize > 0 => "fb" \in DOMAIN pram.carves
  BY <1>4, <1>5, <1>6, <1>7 DEF Takes
<1>9. Sound(video, tree, base, top) /\ Placement(video, tree, base)
  BY <1>3, <1>7, <1>8, VideoSound DEF Takes
<1> QED BY <1>1, <1>9

-----------------------------------------------------------------------------
LEMMA ZerosTyped ==
  ASSUME NEW k \in Nat
  PROVE  Zeros(k) \in Seq(0 .. 255) /\ Len(Zeros(k)) = k /\ \A i \in 1 .. k : Zeros(k)[i] = 0
BY DEF Zeros

LEMMA ZerosNoString ==
  ASSUME NEW k \in Nat
  PROVE  ~IsProbablyAString(Zeros(k))
<1> DEFINE s == Zeros(k)
           d == DecodeNullTerminatedString(s)
<1>1. s \in Seq(0 .. 255) /\ Len(s) = k /\ \A i \in 1 .. k : s[i] = 0
  BY ZerosTyped
<1> HIDE DEF s
<1>2. /\ d \in Seq(0 .. 255) /\ Len(d) <= Len(s)
      /\ \A i \in 1 .. Len(d) : s[i] = d[i] /\ d[i] # 0
  BY <1>1, StringIs
<1> HIDE DEF d
<1>3. ~(Len(d) >= 3)
  BY <1>1, <1>2
<1> QED BY <1>3 DEF IsProbablyAString, d, s

LEMMA ZeroNumber == Number(0, 8) = Zeros(8)
<1>1. \A i \in 1 .. 8 : Number(0, 8)[i] = 0
  BY DEF Number
<1>2. Number(0, 8) \in Seq(0 .. 255) /\ Len(Number(0, 8)) = 8
  <2>1. \A k \in Int : Number(k, 8) \in Seq(0 .. 255) /\ Len(Number(k, 8)) = 8
    BY NumberTyped
  <2> QED BY <2>1
<1>3. Zeros(8) \in Seq(0 .. 255) /\ Len(Zeros(8)) = 8 /\ \A i \in 1 .. 8 : Zeros(8)[i] = 0
  BY ZerosTyped
<1> QED BY <1>1, <1>2, <1>3, SeqEqual

LEMMA ZerosDecode ==
  ASSUME NEW n, n # "name"
  PROVE  DecodeProp(n, Zeros(8)) = U64(0) /\ TwoWords(DecodeProp(n, Zeros(16)))
<1>1. /\ Zeros(8) \in Seq(0 .. 255) /\ Len(Zeros(8)) = 8
      /\ Zeros(16) \in Seq(0 .. 255) /\ Len(Zeros(16)) = 16
      /\ ~IsProbablyAString(Zeros(8)) /\ ~IsProbablyAString(Zeros(16))
  <2>1. 8 \in Nat /\ 16 \in Nat
    OBVIOUS
  <2> QED BY <2>1, ZerosTyped, ZerosNoString, ZenonT(60)
<1> DEFINE a == Zeros(8)
           b == Zeros(16)
<1> HIDE DEF a, b
<1>2. DecodeProp(n, a) = [t |-> "u64", v |-> a]
  BY <1>1 DEF DecodeProp, a
<1>3. DecodeProp(n, b) = Bytes(b)
  <2>1. ~IsProbablyAString(b) /\ Len(b) = 16
    BY <1>1 DEF b
  <2> QED BY <2>1 DEF DecodeProp, Bytes
<1>4. U64(0) = [t |-> "u64", v |-> a]
  BY ZeroNumber DEF U64, a
<1>5. TwoWords(Bytes(b))
  BY <1>1 DEF TwoWords, Bytes, b
<1> QED BY <1>2, <1>3, <1>4, <1>5 DEF a, b

(* In a stock tree the places are empty.                                    *)
LEMMA StockEmpty ==
  ASSUME NEW file, StockTree(file)
  PROVE  Empty(DecodeNode(file)) /\ Unique(DecodeNode(file))
<1> DEFINE d == DecodeNode(file)
<1>1. /\ DOMAIN d = DOMAIN file
      /\ \A i \in DOMAIN d : d[i].path = file[i].path /\ DOMAIN d[i].props = DOMAIN file[i].props
      /\ \A i \in DOMAIN d : \A x \in DOMAIN d[i].props :
            d[i].props[x] = DecodeProp(x, file[i].props[x].bytes)
  BY Decoded
<1> HIDE DEF d
<1>2. Unique(d)
  BY <1>1 DEF StockTree, Unique
<1>3. ASSUME NEW i \in DOMAIN d PROVE RoomAt(d[i], FALSE)
  <2>1. d[i].path = DcpNub => NoRoom(d[i])
    BY <1>1 DEF StockTree, NoRoom
  <2>2. ASSUME d[i].path = AnsNub, ~NoRoom(d[i]) PROVE Vacant(d[i])
    <3>1. RegionProps \subseteq DOMAIN d[i].props
      BY <1>1, <2>2 DEF StockTree, NoRoom
    <3>2. ASSUME NEW x \in RegionProps PROVE d[i].props[x] = U64(0)
      <4>1. file[i].props[x].bytes = Zeros(8) /\ x # "name"
        BY <1>1, <2>2 DEF StockTree, NoRoom, RegionProps
      <4> QED BY <1>1, <3>1, <4>1, ZerosDecode
    <3> QED BY <3>1, <3>2 DEF Vacant
  <2> QED BY <2>1, <2>2 DEF RoomAt
<1>4. Regs(d)
  <2> SUFFICES ASSUME NEW i \in DOMAIN d, d[i].path \in {<<"pram">>, <<"vram">>},
                      "reg" \in DOMAIN d[i].props
               PROVE  TwoWords(d[i].props["reg"])
    BY DEF Regs
  <2>1. file[i].props["reg"].bytes = Zeros(16) /\ "reg" # "name"
    BY <1>1 DEF StockTree
  <2> QED BY <1>1, <2>1, ZerosDecode
<1>5. Unlogged(d)
  BY <1>1 DEF StockTree, Unlogged, LogSize
<1>6. Rooms(d, FALSE)
  BY <1>3 DEF Rooms
<1> QED BY <1>2, <1>4, <1>5, <1>6 DEF Empty, d

LEMMA EditUnique ==
  ASSUME NEW d, NEW e, NEW W, Edit(d, e, W), Unique(d)
  PROVE  Unique(e)
<1>1. ASSUME NEW i \in DOMAIN e, e[i].path # <<"rtc">>
      PROVE  i \in DOMAIN d /\ e[i].path = d[i].path
  BY <1>1 DEF Edit, NodeEdit, Rtc
<1> QED BY <1>1 DEF Unique

LEMMA SaysOut ==
  ASSUME NEW d, NEW p, p \in Paths(d), NEW n, NEW v, Says(d, p, n, v)
  PROVE  HasProp(EncodeNode(d), p, n) /\ BytesOf(EncodeNode(d), p, n) = ParsePropEntry(v).bytes
<1> DEFINE e == EncodeNode(d)
<1>1. /\ DOMAIN e = DOMAIN d
      /\ \A i \in DOMAIN d : e[i].path = d[i].path /\ DOMAIN e[i].props = DOMAIN d[i].props
      /\ \A i \in DOMAIN d : \A x \in DOMAIN e[i].props :
            e[i].props[x] = ParsePropEntry(d[i].props[x])
  BY Encoded
<1> HIDE DEF e
<1>2. p \in Paths(e)
  BY <1>1 DEF Paths
<1>3. PICK i \in DOMAIN e : e[i].path = p /\ Node(e, p) = e[i]
  BY <1>2, NodeHas
<1>4. n \in DOMAIN e[i].props /\ e[i].props[n] = ParsePropEntry(v)
  BY <1>1, <1>3 DEF Says
<1> QED BY <1>2, <1>3, <1>4 DEF HasProp, BytesOf, e

\* A property the tree that is written has, in the one that was to be written.
LEMMA HasOut ==
  ASSUME NEW d, NEW p, NEW n, HasProp(EncodeNode(d), p, n)
  PROVE  \E i \in DOMAIN d : /\ d[i].path = p /\ Node(EncodeNode(d), p) = EncodeNode(d)[i]
                             /\ n \in DOMAIN d[i].props
                             /\ BytesOf(EncodeNode(d), p, n) = ParsePropEntry(d[i].props[n]).bytes
<1> DEFINE e == EncodeNode(d)
<1>1. /\ DOMAIN e = DOMAIN d
      /\ \A i \in DOMAIN d : e[i].path = d[i].path /\ DOMAIN e[i].props = DOMAIN d[i].props
      /\ \A i \in DOMAIN d : \A x \in DOMAIN e[i].props :
            e[i].props[x] = ParsePropEntry(d[i].props[x])
  BY Encoded
<1>2. HasProp(e, p, n)
  OBVIOUS
<1> HIDE DEF e
<1>3. PICK i \in DOMAIN e : e[i].path = p /\ Node(e, p) = e[i]
  BY <1>2, NodeHas DEF HasProp
<1>4. n \in DOMAIN e[i].props
  BY <1>2, <1>3 DEF HasProp
<1>5. /\ i \in DOMAIN d /\ d[i].path = p /\ n \in DOMAIN d[i].props
      /\ BytesOf(e, p, n) = ParsePropEntry(d[i].props[n]).bytes
  BY <1>1, <1>3, <1>4 DEF BytesOf
<1> QED BY <1>3, <1>5 DEF e

(* Bytes that need no padding are written as they are.                      *)
LEMMA BytesOut ==
  ASSUME NEW v, v.t = "bytes", v.v \in Seq(0 .. 255), Len(v.v) \in {4, 16}
  PROVE  ParsePropEntry(v).bytes = v.v
<1>1. RoundUpToMultipleOf4(4) = 4 /\ RoundUpToMultipleOf4(16) = 16
  BY DEF RoundUpToMultipleOf4
<1>2. Ljust(v.v) = v.v
  BY <1>1, LjustSame
<1>3. ParsePropEntry(v).bytes = Ljust(v.v)
  BY DEF ParsePropEntry
<1> QED BY <1>2, <1>3

LEMMA RegionOut ==
  ASSUME NEW d, Unique(d), NEW p \in {AnsNub, DcpNub},
         \A i \in DOMAIN d : d[i].path = p => NoRoom(d[i]) \/ Vacant(d[i])
  PROVE  LET e == EncodeNode(d)
         IN  /\ HasProp(e, p, "region-base") <=> HasProp(e, p, "region-size")
             /\ HasProp(e, p, "region-base") =>
                   /\ BytesOf(e, p, "region-base") = Number(0, 8)
                   /\ BytesOf(e, p, "region-size") = Number(0, 8)
<1> DEFINE e == EncodeNode(d)
<1>1. /\ "region-base" \in RegionProps /\ "region-size" \in RegionProps
      /\ ParsePropEntry(U64(0)).bytes = Number(0, 8)
  <2>1. 0 \in Int
    OBVIOUS
  <2> QED BY <2>1, FiledNumber DEF RegionProps
<1>2. ASSUME NEW n \in RegionProps, HasProp(e, p, n)
      PROVE  \A m \in RegionProps : HasProp(e, p, m) /\ BytesOf(e, p, m) = Number(0, 8)
  <2>1. PICK i \in DOMAIN d : /\ d[i].path = p /\ Node(e, p) = e[i] /\ n \in DOMAIN d[i].props
    BY <1>2, HasOut
  <2>2. Vacant(d[i])
    BY <1>2, <2>1 DEF NoRoom
  <2>3. ASSUME NEW m \in RegionProps PROVE Says(d, p, m, U64(0))
    <3>1. \A j \in DOMAIN d : d[j].path = p => j = i
      <4>1. p # <<"rtc">>
        BY DEF AnsNub, DcpNub
      <4> QED BY <2>1, <4>1 DEF Unique
    <3> QED BY <2>2, <3>1 DEF Says, Vacant
  <2>4. p \in Paths(d)
    BY <2>1 DEF Paths
  <2>5. ASSUME NEW m \in RegionProps
        PROVE  HasProp(e, p, m) /\ BytesOf(e, p, m) = Number(0, 8)
    BY <1>1, <2>3, <2>4, SaysOut
  <2> QED BY <2>5
<1> HIDE DEF e
<1> QED BY <1>1, <1>2 DEF e

LEMMA SixteenOut ==
  ASSUME NEW d, Regs(d), NEW p \in {<<"pram">>, <<"vram">>}
  PROVE  Sixteen(EncodeNode(d), p)
<1> DEFINE e == EncodeNode(d)
<1> SUFFICES ASSUME HasProp(e, p, "reg")
             PROVE  BytesOf(e, p, "reg") \in Seq(0 .. 255) /\ Len(BytesOf(e, p, "reg")) = 16
  BY DEF Sixteen
<1>1. PICK i \in DOMAIN d : /\ d[i].path = p /\ "reg" \in DOMAIN d[i].props
                            /\ BytesOf(e, p, "reg") = ParsePropEntry(d[i].props["reg"]).bytes
  BY HasOut
<1>2. TwoWords(d[i].props["reg"])
  BY <1>1 DEF Regs
<1>3. ParsePropEntry(d[i].props["reg"]).bytes = d[i].props["reg"].v
  BY <1>2, BytesOut DEF TwoWords
<1> HIDE DEF e
<1> QED BY <1>1, <1>2, <1>3 DEF TwoWords

(* What is read of the panic log in the tree that was written.              *)
LEMMA LogsOut ==
  ASSUME NEW d, Logs(d), HasProp(EncodeNode(d), Chosen, LogSize)
  PROVE  /\ BytesOf(EncodeNode(d), Chosen, LogSize) = Number(PanicLogSize, 4)
         /\ HasProp(EncodeNode(d), <<"pram">>, "reg")
<1> DEFINE e == EncodeNode(d)
           size == Bytes(Number(PanicLogSize, 4))
<1>1. PICK i \in DOMAIN d : d[i].path = Chosen /\ LogSize \in DOMAIN d[i].props
  BY HasOut
<1>2. Logged(d)
  BY <1>1 DEF Logs, Unlogged
<1>3. Chosen \in Paths(d)
  BY <1>1 DEF Paths
<1>4. BytesOf(e, Chosen, LogSize) = ParsePropEntry(size).bytes
  BY <1>2, <1>3, SaysOut DEF Logged
<1>5. ParsePropEntry(size).bytes = Number(PanicLogSize, 4)
  <2>1. Number(PanicLogSize, 4) \in Seq(0 .. 255) /\ Len(Number(PanicLogSize, 4)) = 4
    <3>1. \A k \in Int : Number(k, 4) \in Seq(0 .. 255) /\ Len(Number(k, 4)) = 4
      BY NumberTyped
    <3> QED BY <3>1 DEF PanicLogSize
  <2>2. size.t = "bytes" /\ size.v = Number(PanicLogSize, 4)
    BY DEF Bytes
  <2> HIDE DEF size
  <2> QED BY <2>1, <2>2, BytesOut
<1>6. HasProp(e, <<"pram">>, "reg")
  <2>1. PICK j \in DOMAIN d : d[j].path = <<"pram">>
    BY <1>2 DEF Logged, Paths
  <2>2. \A k \in DOMAIN d : d[k].path = <<"pram">> => "reg" \in DOMAIN d[k].props
    BY <1>2 DEF Logged
  <2>3. <<"pram">> \in Paths(e)
    BY <2>1, Encoded DEF Paths
  <2>4. PICK k \in DOMAIN e : e[k].path = <<"pram">> /\ Node(e, <<"pram">>) = e[k]
    BY <2>3, NodeHas
  <2>5. k \in DOMAIN d /\ d[k].path = <<"pram">> /\ DOMAIN e[k].props = DOMAIN d[k].props
    BY <2>4, Encoded
  <2> QED BY <2>2, <2>3, <2>4, <2>5 DEF HasProp
<1> QED BY <1>4, <1>5, <1>6

\* What the loader starts from.
Start(tree) == [mem |-> DramSize(tree), carves |-> <<>>, tree |-> tree, spilled |-> {}]

(* A tree made ready is one the loader can start from.                      *)
LEMMA ReadyOut ==
  ASSUME NEW d, Unique(d), Chosen \in Paths(d), NEW base, NEW top, Bases(base, top),
         NEW given \in BOOLEAN, Ready(d, base, top, given)
  PROVE  LET e == EncodeNode(d)
         IN  /\ DramSize(e) = top /\ Sound(Start(e), e, base, top)
             /\ DcpNub \in Paths(e) => (HasProp(e, DcpNub, "region-base") <=> given)
<1> DEFINE e == EncodeNode(d)
<1>1. Unique(e)
  BY Encoded DEF Unique
<1>2. base \in Int /\ top \in Int /\ base \in Nat /\ top \in Nat
      /\ base < NumberBound /\ top < NumberBound
  <2>1. NumberBound \in Nat
    BY SMT DEF NumberBound
  <2> QED BY <2>1 DEF Bases
<1>3. HasProp(e, Chosen, "dram-base") /\ BytesOf(e, Chosen, "dram-base") = Number(base, 8)
  <2>1. ParsePropEntry(U64(base)).bytes = Number(base, 8)
    BY <1>2, FiledNumber
  <2> QED BY <2>1, SaysOut DEF Ready
<1>4. DramSize(e) = top
  <2>1. ParsePropEntry(U64(top)).bytes = Number(top, 8)
    BY <1>2, FiledNumber
  <2>2. BytesOf(e, Chosen, "dram-size") = Number(top, 8)
    BY <2>1, SaysOut DEF Ready
  <2>3. 8 \in Nat /\ 8 >= 3
    OBVIOUS
  <2>4. Value(Number(top, 8)) = top
    BY <1>2, <2>3, NumberValue
  <2> QED BY <2>2, <2>4 DEF DramSize, BytesOf
<1>5. /\ \A i \in DOMAIN d : d[i].path = AnsNub => NoRoom(d[i]) \/ Vacant(d[i])
      /\ \A i \in DOMAIN d : d[i].path = DcpNub => IF given THEN Vacant(d[i]) ELSE NoRoom(d[i])
  BY DEF Ready, Rooms, RoomAt
<1>6. ASSUME NEW p \in {AnsNub, DcpNub}
      PROVE  /\ HasProp(e, p, "region-base") <=> HasProp(e, p, "region-size")
             /\ HasProp(e, p, "region-base") =>
                   /\ BytesOf(e, p, "region-base") = Number(0, 8)
                   /\ BytesOf(e, p, "region-size") = Number(0, 8)
  <2>1. \A i \in DOMAIN d : d[i].path = p => NoRoom(d[i]) \/ Vacant(d[i])
    BY <1>5
  <2> QED BY <2>1, RegionOut
<1>7. Sixteen(e, <<"pram">>) /\ Sixteen(e, <<"vram">>)
  BY SixteenOut DEF Ready, Logs
<1>8. ASSUME DcpNub \in Paths(e) PROVE HasProp(e, DcpNub, "region-base") <=> given
  <2>1. PICK i \in DOMAIN e : e[i].path = DcpNub /\ Node(e, DcpNub) = e[i]
    BY <1>8, NodeHas
  <2>2. i \in DOMAIN d /\ d[i].path = DcpNub /\ DOMAIN e[i].props = DOMAIN d[i].props
    BY <2>1, Encoded
  <2>3. "region-base" \in DOMAIN d[i].props <=> given
    BY <1>5, <2>2 DEF NoRoom, Vacant, RegionProps
  <2> QED BY <1>8, <2>1, <2>2, <2>3 DEF HasProp
<1> HIDE DEF e
<1>9. Sound(Start(e), e, base, top)
  <2> DEFINE s == Start(e)
  <2>1. /\ LoaderState(s) /\ s.mem = top /\ DOMAIN s.carves = {} /\ s.tree = e /\ s.spilled = {}
    BY <1>4 DEF Start, LoaderState
  <2> HIDE DEF s
  <2>2. Region(s, base, AnsNub, "ans") /\ Region(s, base, DcpNub, "dcp")
    BY <1>6, <2>1 DEF Region
  <2>3. Sound(s, e, base, top)
    BY <1>1, <1>2, <1>3, <1>7, <2>1, <2>2 DEF Sound
  <2> QED BY <2>3 DEF s
<1> QED BY <1>4, <1>8, <1>9 DEF e

-----------------------------------------------------------------------------
\* A piece of bytes.
LEMMA Slice ==
  ASSUME NEW s \in Seq(0 .. 255), NEW k \in 1 .. Len(s), NEW m \in k .. Len(s)
  PROVE  /\ SubSeq(s, k, m) \in Seq(0 .. 255) /\ Len(SubSeq(s, k, m)) = m - k + 1
         /\ \A i \in 1 .. m - k + 1 : SubSeq(s, k, m)[i] = s[k + i - 1]
<1>1. k \in Int /\ m \in Int /\ Len(s) \in Nat /\ k <= m
  OBVIOUS
<1>2. \A i \in k .. m : s[i] \in 0 .. 255
  <2>1. \A i \in k .. m : i \in 1 .. Len(s)
    BY <1>1
  <2> QED BY <2>1, ByteAt
<1>3. /\ SubSeq(s, k, m) \in Seq(0 .. 255)
      /\ Len(SubSeq(s, k, m)) = IF k <= m THEN m - k + 1 ELSE 0
      /\ \A i \in 1 .. m - k + 1 : SubSeq(s, k, m)[i] = s[k + i - 1]
  BY <1>1, <1>2, SubSeqProperties, SMTT(60)
<1> QED BY <1>1, <1>3

LEMMA Halves ==
  ASSUME NEW a \in Seq(0 .. 255), NEW b \in Seq(0 .. 255), Len(a) = 8, Len(b) = 8
  PROVE  /\ SubSeq(a \o b, 1, 8) = a /\ SubSeq(a \o b, 9, 16) = b
         /\ SubSeq(a \o b, 9, 12) \in Seq(0 .. 255) /\ Len(SubSeq(a \o b, 9, 12)) = 4
         /\ \A i \in 1 .. 4 : SubSeq(a \o b, 9, 12)[i] = b[i]
<1> DEFINE s == a \o b
<1>1. /\ s \in Seq(0 .. 255) /\ Len(s) = 16
      /\ \A i \in 1 .. 16 : s[i] = IF i <= 8 THEN a[i] ELSE b[i - 8]
  BY Joined
<1> HIDE DEF s
<1>2. /\ SubSeq(s, 1, 8) \in Seq(0 .. 255) /\ Len(SubSeq(s, 1, 8)) = 8
      /\ \A i \in 1 .. 8 : SubSeq(s, 1, 8)[i] = s[i]
  <2>1. 8 \in 0 .. Len(s)
    BY <1>1
  <2> QED BY <1>1, <2>1, Prefix
<1>3. /\ SubSeq(s, 9, 16) \in Seq(0 .. 255) /\ Len(SubSeq(s, 9, 16)) = 8
      /\ \A i \in 1 .. 8 : SubSeq(s, 9, 16)[i] = s[8 + i]
  <2>1. 9 \in 1 .. Len(s) /\ 16 \in 9 .. Len(s)
    BY <1>1
  <2>2. /\ SubSeq(s, 9, 16) \in Seq(0 .. 255) /\ Len(SubSeq(s, 9, 16)) = 16 - 9 + 1
        /\ \A i \in 1 .. 16 - 9 + 1 : SubSeq(s, 9, 16)[i] = s[9 + i - 1]
    BY <1>1, <2>1, Slice
  <2> QED BY <2>2
<1>4. /\ SubSeq(s, 9, 12) \in Seq(0 .. 255) /\ Len(SubSeq(s, 9, 12)) = 4
      /\ \A i \in 1 .. 4 : SubSeq(s, 9, 12)[i] = s[8 + i]
  <2>1. 9 \in 1 .. Len(s) /\ 12 \in 9 .. Len(s)
    BY <1>1
  <2>2. /\ SubSeq(s, 9, 12) \in Seq(0 .. 255) /\ Len(SubSeq(s, 9, 12)) = 12 - 9 + 1
        /\ \A i \in 1 .. 12 - 9 + 1 : SubSeq(s, 9, 12)[i] = s[9 + i - 1]
    BY <1>1, <2>1, Slice
  <2> QED BY <2>2
<1>5. /\ \A i \in 1 .. 8 : s[i] = a[i]
      /\ \A i \in 1 .. 8 : s[8 + i] = b[i]
  <2>1. \A i \in 1 .. 8 : i \in 1 .. 16 /\ 8 + i \in 1 .. 16 /\ ~(8 + i <= 8) /\ 8 + i - 8 = i
    OBVIOUS
  <2> QED BY <1>1, <2>1
<1>6. SubSeq(s, 1, 8) = a
  BY <1>2, <1>5, SeqEqual, SMTT(60)
<1>7. SubSeq(s, 9, 16) = b
  BY <1>3, <1>5, SeqEqual, SMTT(60)
<1>8. \A i \in 1 .. 4 : SubSeq(s, 9, 12)[i] = b[i]
  BY <1>4, <1>5, SMTT(60)
<1> QED BY <1>4, <1>6, <1>7, <1>8 DEF s

\* The two words of a region, read back.
LEMMA WordsRead ==
  ASSUME NEW s, NEW tree, NEW base, NEW top, Bases(base, top), Sound(s, tree, base, top),
         NEW name \in DOMAIN s.carves
  PROVE  LET c == s.carves[name]
         IN  /\ Value(Number(base + c.lo, 8)) = base + c.lo
             /\ Value(Number(c.hi - c.lo, 8)) = c.hi - c.lo
             /\ c = [lo |-> (base + c.lo) - base, hi |-> (base + c.lo) - base + (c.hi - c.lo)]
<1> DEFINE c == s.carves[name]
<1>1. Span(c, top)
  BY DEF Sound
<1> HIDE DEF c
<1> DEFINE lo == c.lo
           hi == c.hi
<1>2. lo \in Nat /\ hi \in Nat /\ lo <= hi /\ hi <= top /\ c = [lo |-> lo, hi |-> hi]
  BY <1>1 DEF Span
<1> HIDE DEF lo, hi
<1>3. base \in Nat /\ top \in Nat /\ base + top < NumberBound /\ NumberBound \in Nat
  BY SMT DEF Bases, NumberBound
<1>4. /\ base + lo \in Nat /\ base + lo < NumberBound /\ hi - lo \in Nat /\ hi - lo < NumberBound
      /\ (base + lo) - base = lo /\ (base + lo) - base + (hi - lo) = hi
  BY <1>2, <1>3
<1>5. 8 \in Nat /\ 8 >= 3
  OBVIOUS
<1>6. Value(Number(base + lo, 8)) = base + lo
  BY <1>4, <1>5, NumberValue
<1>7. Value(Number(hi - lo, 8)) = hi - lo
  BY <1>4, <1>5, NumberValue
<1> QED BY <1>2, <1>4, <1>6, <1>7 DEF c, lo, hi

LEMMA LoadedSound ==
  ASSUME TreeInv, phase = "loaded"
  PROVE  \E base : LET top == env.dram
                   IN  /\ Bases(base, top)
                       /\ Sound(ld, out, base, top) /\ Placement(ld, out, base)
                       /\ DcpNub \in Paths(out) =>
                             (HasProp(out, DcpNub, "region-base")
                                <=> env.dcpRegion \/ env.normalize)
                       /\ HasProp(out, Chosen, LogSize) =>
                             /\ BytesOf(out, Chosen, LogSize) = Number(PanicLogSize, 4)
                             /\ HasProp(out, <<"pram">>, "reg")
<1> DEFINE stk == DecodeNode(stock)
           final == Fixup(stk, env)
           base == DramStart(GetSocGen(stk))
           top == env.dram
           given == env.dcpRegion \/ env.normalize
<1>1. /\ ld = LoadTree(out, env.info) /\ Infos(env.info) /\ Switches(env) /\ Deciding(env)
      /\ Roomy(env) /\ StockTree(stock) /\ Fixable(stk) /\ out = EncodeNode(final)
  BY DEF TreeInv
<1>2. Typed(stk) /\ Placed(stk) /\ Empty(stk) /\ Unique(stk)
  BY <1>1, Decoded, StockEmpty
<1> HIDE DEF stk
<1>3. From(stk, final, FixupProps) /\ Chosen \in Paths(final)
  BY <1>1, <1>2, FixupWhole
<1>4. Ready(final, base, top, given)
  BY <1>1, <1>2, FixupReady
<1>5. Unique(final)
  BY <1>2, <1>3, EditUnique DEF From
<1>6. Bases(base, top)
  <2>1. base \in Nat /\ base <= 1048576
    BY SMT DEF DramStart
  <2> HIDE DEF base
  <2>2. top \in Nat /\ top + 1048576 < NumberBound
    BY <1>1 DEF Switches, Roomy
  <2>3. NumberBound \in Nat
    BY SMT DEF NumberBound
  <2> HIDE DEF top
  <2>4. base + top < NumberBound
    BY <2>1, <2>2, <2>3, SMT
  <2> QED BY <2>1, <2>2, <2>4 DEF Bases
<1>7. given \in BOOLEAN
  BY <1>1 DEF Deciding
<1> HIDE DEF final, base
<1>8. PICK g \in BOOLEAN : g = given
  BY <1>7
<1>9. Ready(final, base, top, g)
  BY <1>4, <1>8, Zenon
<1> HIDE DEF given
<1>10. /\ DramSize(out) = top /\ Sound(Start(out), out, base, top)
       /\ DcpNub \in Paths(out) => (HasProp(out, DcpNub, "region-base") <=> g)
  BY <1>1, <1>3, <1>5, <1>6, <1>9, ReadyOut
<1>11. HasProp(out, Chosen, LogSize) =>
          /\ BytesOf(out, Chosen, LogSize) = Number(PanicLogSize, 4)
          /\ HasProp(out, <<"pram">>, "reg")
  BY <1>1, <1>4, LogsOut DEF Ready
<1>12. Sound(ld, out, base, top) /\ Placement(ld, out, base)
  <2>1. env.info.fbSize + env.info.ansRegion + env.info.dcpRegion + PanicLogSize <= top
    BY <1>1 DEF Roomy
  <2> QED BY <1>1, <1>6, <1>10, <2>1, LoadSound DEF Start
<1>13. DcpNub \in Paths(out) =>
          (HasProp(out, DcpNub, "region-base") <=> env.dcpRegion \/ env.normalize)
  BY <1>8, <1>10, Zenon DEF given
<1> QED BY <1>6, <1>11, <1>12, <1>13

(* What the tree tells the kernel is where the loader put it: each nub has  *)
(* both words of its region or neither, and they are what was taken off for *)
(* it; the DCP has them exactly if a switch gave it the room; a panic log    *)
(* the kernel is told of is the one taken off; nothing is written past the   *)
(* end of a value: for every stock tree, all switches and any sizes DRAM     *)
(* has room for.                                                             *)
THEOREM RegionsCorrect == Spec => []RegionsPublished
<1>1. TreeInv => RegionsPublished
  <2> SUFFICES ASSUME TreeInv, phase = "loaded" PROVE RegionsPublished
    BY DEF RegionsPublished
  <2> DEFINE top == env.dram
  <2>1. PICK base :
           /\ Bases(base, top) /\ Sound(ld, out, base, top) /\ Placement(ld, out, base)
           /\ DcpNub \in Paths(out) =>
                 (HasProp(out, DcpNub, "region-base") <=> env.dcpRegion \/ env.normalize)
           /\ HasProp(out, Chosen, LogSize) =>
                 /\ BytesOf(out, Chosen, LogSize) = Number(PanicLogSize, 4)
                 /\ HasProp(out, <<"pram">>, "reg")
    BY LoadedSound
  <2> HIDE DEF top
  <2>2. DramBase(ld.tree) = base
    BY <2>1, BaseRead
  <2>3. ASSUME NEW name \in DOMAIN ld.carves, NEW x, NEW y,
               x = Number(base + ld.carves[name].lo, 8),
               y = Number(ld.carves[name].hi - ld.carves[name].lo, 8)
        PROVE  Described(x, y) = ld.carves[name]
    <3> DEFINE c == ld.carves[name]
    <3>1. /\ Value(x) = base + c.lo /\ Value(y) = c.hi - c.lo
          /\ c = [lo |-> (base + c.lo) - base, hi |-> (base + c.lo) - base + (c.hi - c.lo)]
      BY <2>1, <2>3, WordsRead
    <3> QED BY <2>2, <3>1, Zenon DEF Described
  <2>4. /\ Chosen # <<"rtc">> /\ DcpNub # <<"rtc">> /\ <<"pram">> # <<"rtc">>
    BY DEF Chosen, DcpNub
  <2>5. ASSUME NEW p, NEW name, Region(ld, base, p, name), HasProp(ld.tree, p, "region-base"),
               BytesOf(ld.tree, p, "region-base") # Zeros(8)
                 \/ BytesOf(ld.tree, p, "region-size") # Zeros(8)
        PROVE  /\ name \in DOMAIN ld.carves
               /\ Described(BytesOf(ld.tree, p, "region-base"),
                            BytesOf(ld.tree, p, "region-size")) = ld.carves[name]
    <3>1. /\ name \in DOMAIN ld.carves
          /\ BytesOf(ld.tree, p, "region-base") = Number(base + ld.carves[name].lo, 8)
          /\ BytesOf(ld.tree, p, "region-size")
               = Number(ld.carves[name].hi - ld.carves[name].lo, 8)
      BY <2>5, ZeroNumber DEF Region
    <3> QED BY <2>3, <3>1
  <2>6. Region(ld, base, AnsNub, "ans") /\ Region(ld, base, DcpNub, "dcp") /\ ld.spilled = {}
    BY <2>1 DEF Sound
  <2>7. \A p, n : PropValue(p, n) = BytesOf(ld.tree, p, n)
    BY DEF PropValue, BytesOf
  <2>8. ASSUME NEW nub \in {<<AnsNub, "ans">>, <<DcpNub, "dcp">>},
               HasProp(ld.tree, nub[1], "region-base"),
               PropValue(nub[1], "region-base") # Zeros(8)
                 \/ PropValue(nub[1], "region-size") # Zeros(8)
        PROVE  /\ nub[2] \in DOMAIN ld.carves
               /\ Described(PropValue(nub[1], "region-base"), PropValue(nub[1], "region-size"))
                    = ld.carves[nub[2]]
    <3>1. Region(ld, base, nub[1], nub[2])
      BY <2>6
    <3> QED BY <2>5, <2>7, <2>8, <3>1
  <2>9. DcpNub \in Paths(ld.tree) =>
           (env.dcpRegion \/ env.normalize <=> HasProp(ld.tree, DcpNub, "region-base"))
    <3>1. /\ Paths(ld.tree) = Paths(out)
          /\ HasProp(ld.tree, DcpNub, "region-base") <=> HasProp(out, DcpNub, "region-base")
      BY <2>1, <2>4 DEF Sound
    <3> QED BY <2>1, <3>1
  <2>10. ASSUME HasProp(ld.tree, Chosen, LogSize)
         PROVE  LET reg == PropValue(<<"pram">>, "reg")
                IN  /\ Described(SubSeq(reg, 1, 8), SubSeq(reg, 9, 16)) = ld.carves["pram"]
                    /\ SubSeq(reg, 9, 12) = PropValue(Chosen, LogSize)
    <3> DEFINE c == ld.carves["pram"]
               a == Number(base + c.lo, 8)
               b == Number(c.hi - c.lo, 8)
    <3>1. /\ HasProp(out, Chosen, LogSize)
          /\ BytesOf(ld.tree, Chosen, LogSize) = Number(PanicLogSize, 4)
      BY <2>1, <2>4, <2>10 DEF Sound
    <3>2. /\ "pram" \in DOMAIN ld.carves /\ c.hi - c.lo = PanicLogSize
          /\ BytesOf(ld.tree, <<"pram">>, "reg") = a \o b
      BY <2>1, <3>1 DEF Placement, PlacedAs
    <3>3. Described(a, b) = ld.carves["pram"]
      BY <2>3, <3>2
    <3>4. a \in Seq(0 .. 255) /\ Len(a) = 8 /\ b \in Seq(0 .. 255) /\ Len(b) = 8
      <4>1. base + c.lo \in Int /\ c.hi - c.lo \in Int
        BY <2>1, <3>2, SpanInts
      <4>2. \A k \in Int : Number(k, 8) \in Seq(0 .. 255) /\ Len(Number(k, 8)) = 8
        BY NumberTyped
      <4> QED BY <4>1, <4>2
    <3>5. b = Number(PanicLogSize, 8)
      BY <3>2
    <3> HIDE DEF a, b
    <3>6. /\ SubSeq(a \o b, 1, 8) = a /\ SubSeq(a \o b, 9, 16) = b
          /\ SubSeq(a \o b, 9, 12) \in Seq(0 .. 255) /\ Len(SubSeq(a \o b, 9, 12)) = 4
          /\ \A i \in 1 .. 4 : SubSeq(a \o b, 9, 12)[i] = b[i]
      BY <3>4, Halves
    <3>7. SubSeq(a \o b, 9, 12) = Number(PanicLogSize, 4)
      <4> DEFINE k == PanicLogSize
                 low == SubSeq(a \o b, 9, 12)
      <4>1. \A i \in 1 .. 4 : Number(k, 4)[i] = Number(k, 8)[i]
        BY DEF Number
      <4>2. Number(k, 4) \in Seq(0 .. 255) /\ Len(Number(k, 4)) = 4
        <5>1. \A j \in Int : Number(j, 4) \in Seq(0 .. 255) /\ Len(Number(j, 4)) = 4
          BY NumberTyped
        <5> QED BY <5>1 DEF PanicLogSize
      <4>3. /\ low \in Seq(0 .. 255) /\ Len(low) = 4
            /\ \A i \in 1 .. 4 : low[i] = Number(k, 4)[i]
        BY <3>5, <3>6, <4>1
      <4> HIDE DEF low, k
      <4>4. low = Number(k, 4)
        BY <4>2, <4>3, SeqEqual
      <4> QED BY <4>4 DEF low, k
    <3> QED BY <2>7, <3>1, <3>2, <3>3, <3>6, <3>7
  <2> QED BY <2>6, <2>8, <2>9, <2>10 DEF RegionsPublished, LogSize
<1> QED BY <1>1, TreeInvHolds, PTL
=============================================================================
