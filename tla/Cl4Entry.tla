------------------------------ MODULE Cl4Entry ------------------------------
(* How the secure kernel CL4 is entered.  SPTM returns to it with an ERET;   *)
(* a hook in the CPU model's exception return gives it the descriptor it     *)
(* lacks and, with CL4_CTORS, sends the first such return through a          *)
(* trampoline, which calls CL4's constructors on a scratch stack and then    *)
(* goes to the real entry.  Constructors look services up in a per-thread    *)
(* list, of which the loader seeds the beginning.  Behind its entry CL4      *)
(* builds a context of its own and calls the same constructors again: that   *)
(* part is CL4's binary, modelled from what the experiments found in it.     *)
(* There is one CPU, and SPTM leaves the thread registers alone.             *)
EXTENDS Integers, Sequences

CONSTANTS Ctors,     \* the number of words in __mod_init_func
          MaxErets   \* bound: exception returns of SPTM

ASSUME Cl4Assumption == Ctors \in Nat /\ MaxErets \in Nat

VARIABLES hook,    \* the loader's globals: [entry, tramp, x1, done]
          scratch, \* the words of the dummy page the loader has written
          cpu,     \* [pc, g, x0, x1, sp, x19, x20, x21, tpidr, tpidrro]
          own,     \* in CL4's memory: whether it has built a context of its
                   \* own, and the next constructor of its own pass
          called,  \* the constructors called, in order: [by, n]
          asked,   \* x1 as SPTM passed it, and whether the return was guarded
          erets    \* exception returns so far

cl4vars == <<hook, scratch, cpu, own, called, asked, erets>>

Reset == [pc |-> "sptm", g |-> TRUE, x0 |-> "zero", x1 |-> "zero", sp |-> "zero",
          x19 |-> "zero", x20 |-> "zero", x21 |-> 1, tpidr |-> 0, tpidrro |-> 0]

-----------------------------------------------------------------------------
\* The scratch page, and the context CL4 builds elsewhere.  The page begins at 1
\* here, so that no address in it is null.
Page == 1
Ctx == Page + 512
Regobj == Page + 1024
ListNode == Page + 1056
Cell8 == Page + 1536
ThreadRo == Page + 1792
PageEnd == Page + 32768
RealCtx == PageEnd      \* CL4's own context: not in the page
SingletonObj == PageEnd + 1

\* The services, by their two keys, that CL4's domain set-up registers.
BaseServices == {<<1, 1>>, <<2, 4>>, <<2, 5>>, <<4, 4>>}

\* The fake context and its registry: a list of the one node with these keys.
Laid(key1, key2) ==
    [a \in {Ctx + 8, Ctx + 16, Regobj, ListNode, ListNode + 8, ListNode + 16, ListNode + 24} |->
        CASE a = Ctx + 8       -> Cell8
          [] a = Ctx + 16      -> Regobj
          [] a = Regobj        -> ListNode
          [] a = ListNode      -> 0
          [] a = ListNode + 8  -> key1
          [] a = ListNode + 16 -> key2
          [] a = ListNode + 24 -> SingletonObj]

\* A bug: the keys the wrong way round.
SeedKeysSwapped == Laid(5, 2)

Seed == Laid(2, 5)

\* A word of the page nobody wrote is zero.
At(a) == IF a \in DOMAIN scratch THEN scratch[a] ELSE 0

\* CL4's look-up.  In a context of its own are the services it registered; in
\* one on the page those of the list behind its third word, whose head may lead
\* to one more node.
Found(key) ==
    IF cpu.tpidr = RealCtx THEN own.built /\ key \in BaseServices
    ELSE LET head == At(At(cpu.tpidr + 16))
         IN  /\ At(cpu.tpidr + 8) # 0
             /\ \E n \in {head, At(head)} \ {0} :
                   <<At(n + 8), At(n + 16)>> = key /\ At(n + 24) # 0

-----------------------------------------------------------------------------
Cl4Init ==
    /\ hook = [entry |-> FALSE, tramp |-> FALSE, x1 |-> "zero", done |-> FALSE]
    /\ scratch = <<>>
    /\ cpu = Reset
    /\ own = [built |-> FALSE, next |-> 1]
    /\ called = <<>>
    /\ asked = [x1 |-> "zero", g |-> FALSE]
    /\ erets = 0

\* The loader's part: the globals and, with CL4_CTORS, trampoline and seed.
InstallCl4(env) ==
    /\ hook' = [entry |-> TRUE, tramp |-> env.ctors,
                x1 |-> IF env.x1 THEN "desc" ELSE "zero", done |-> FALSE]
    /\ scratch' = IF env.ctors THEN Seed ELSE <<>>
    /\ UNCHANGED <<cpu, own, called, asked, erets>>

\* A bug: the trampoline is taken at every guarded return to the entry.
DivertAlways(pc, g) == hook.tramp /\ pc = "entry" /\ g

Divert(pc, g) == hook.tramp /\ ~hook.done /\ pc = "entry" /\ g

\* SPTM's exception return, and the hook in it.
ExceptionReturn(pc, g, x1) ==
    /\ hook.entry
    /\ cpu.pc = "sptm" /\ erets < MaxErets
    /\ erets' = erets + 1
    /\ asked' = [x1 |-> x1, g |-> g]
    /\ LET inject == pc = "entry" /\ g /\ x1 = "zero"
           arrive == [cpu EXCEPT !.pc = pc, !.g = g, !.x0 = "handoff", !.sp = "zero",
                                 !.x1 = IF inject THEN hook.x1 ELSE x1]
       IN  IF Divert(pc, g)
           THEN /\ cpu' = [arrive EXCEPT !.pc = "tramp", !.tpidr = Ctx, !.tpidrro = ThreadRo]
                /\ hook' = [hook EXCEPT !.done = TRUE]
           ELSE /\ cpu' = arrive
                /\ hook' = hook
    /\ UNCHANGED <<scratch, own, called>>

\* The trampoline saves the entry's arguments and takes a stack.
TrampolinePrologue ==
    /\ cpu.pc = "tramp"
    /\ cpu' = [cpu EXCEPT !.pc = "loop", !.x19 = cpu.x0, !.x20 = cpu.x1,
                          !.x21 = 1, !.sp = "scratch"]
    /\ UNCHANGED <<hook, scratch, own, called, asked, erets>>

\* One turn of its loop: the next constructor is loaded, and called.
TrampolineCall ==
    /\ cpu.pc = "loop" /\ cpu.x21 <= Ctors
    /\ cpu' = [cpu EXCEPT !.pc = "ctor", !.x21 = @ + 1]
    /\ called' = Append(called, [by |-> "tramp", n |-> cpu.x21])
    /\ UNCHANGED <<hook, scratch, own, asked, erets>>

\* A constructor keeps x19 to x22 and the stack, and nothing else.  It faults
\* on the null a service that is not listed comes back as.
Constructor(needs) ==
    /\ cpu.pc = "ctor"
    /\ LET c == called[Len(called)]
       IN  cpu' = IF \A key \in needs[c.n] : Found(key)
                  THEN [cpu EXCEPT !.pc = IF c.by = "tramp" THEN "loop" ELSE "init",
                                   !.x0 = "junk", !.x1 = "junk"]
                  ELSE [cpu EXCEPT !.pc = "fault"]
    /\ UNCHANGED <<hook, scratch, own, called, asked, erets>>

\* One that logs reads its thread's read-only word, and then calls SPTM by an
\* svc that has no vector here: either is the end.
ConstructorLogs ==
    /\ cpu.pc = "ctor"
    /\ cpu' = [cpu EXCEPT !.pc = IF cpu.tpidrro = 0 THEN "fault" ELSE "svc"]
    /\ UNCHANGED <<hook, scratch, own, called, asked, erets>>

\* A bug: the fake context stays, as in the trampoline gen_trampoline.py makes.
TrampolineEpilogueKeepsTpidr ==
    /\ cpu.pc = "loop" /\ cpu.x21 > Ctors
    /\ cpu' = [cpu EXCEPT !.pc = "entry", !.x0 = cpu.x19, !.x1 = cpu.x20, !.sp = "zero"]
    /\ UNCHANGED <<hook, scratch, own, called, asked, erets>>

\* No constructor left: give the arguments back, drop the fake context, and go
\* to the entry.
TrampolineEpilogue ==
    /\ cpu.pc = "loop" /\ cpu.x21 > Ctors
    /\ cpu' = [cpu EXCEPT !.pc = "entry", !.x0 = cpu.x19, !.x1 = cpu.x20, !.sp = "zero",
                          !.tpidr = 0]
    /\ UNCHANGED <<hook, scratch, own, called, asked, erets>>

-----------------------------------------------------------------------------
\* CL4's domain set-up.  A null descriptor is the end; a thread without a context
\* gets one, with the base services, and one that has a context keeps it.
DomainSetup ==
    /\ cpu.pc = "entry" /\ cpu.g
    /\ \/ /\ cpu.x1 = "zero"
          /\ cpu' = [cpu EXCEPT !.pc = "tag3"]
          /\ own' = own
       \/ /\ cpu.x1 # "zero" /\ cpu.tpidr = 0
          /\ cpu' = [cpu EXCEPT !.pc = "init", !.tpidr = RealCtx, !.sp = "own"]
          /\ own' = [own EXCEPT !.built = TRUE]
       \/ /\ cpu.x1 # "zero" /\ cpu.tpidr # 0
          /\ cpu' = [cpu EXCEPT !.pc = "init", !.sp = "own"]
          /\ own' = own
    /\ UNCHANGED <<hook, scratch, called, asked, erets>>

\* Then its own pass over the constructors, which it makes once.
CallOwnCtor ==
    /\ cpu.pc = "init" /\ own.next <= Ctors
    /\ cpu' = [cpu EXCEPT !.pc = "ctor"]
    /\ own' = [own EXCEPT !.next = @ + 1]
    /\ called' = Append(called, [by |-> "cl4", n |-> own.next])
    /\ UNCHANGED <<hook, scratch, asked, erets>>

FinishInit ==
    /\ cpu.pc = "init" /\ own.next > Ctors
    /\ cpu' = [cpu EXCEPT !.pc = "cl4"]
    /\ UNCHANGED <<hook, scratch, own, called, asked, erets>>

\* CL4, or whatever else SPTM returned to, gives SPTM control again.
BackToSptm ==
    /\ cpu.pc \in {"entry", "other", "cl4"}
    /\ cpu' = [cpu EXCEPT !.pc = "sptm"]
    /\ UNCHANGED <<hook, scratch, own, called, asked, erets>>

\* needs[c] are the services constructor c looks up.
Cl4Next(needs) ==
    \/ \E pc \in {"entry", "other"}, g \in BOOLEAN, x1 \in {"zero", "given"} :
          ExceptionReturn(pc, g, x1)
    \/ TrampolinePrologue
    \/ TrampolineCall
    \/ Constructor(needs)
    \/ ConstructorLogs
    \/ TrampolineEpilogue
    \/ DomainSetup
    \/ CallOwnCtor
    \/ FinishInit
    \/ BackToSptm
=============================================================================
