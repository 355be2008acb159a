----------------------------- MODULE AscSystem -----------------------------
(***************************************************************************)
(* The two ASC mailboxes, the interrupt controller and the guest: one      *)
(* interrupt routine, which asks IACK whose interrupt it is and then       *)
(* drains that mailbox, and per mailbox a driver thread that starts the    *)
(* coprocessor, waits for BOOT_STATUS where there is one, and answers.     *)
(***************************************************************************)
EXTENDS AscMailbox

CONSTANT MaxPings     \* bound on the power requests of the guest

ASSUME AscSystemAssumption ==
  /\ MaxPings \in Nat
  /\ \A s, t \in Mailboxes : HwirqOf[s] = HwirqOf[t] => s = t
  /\ Mailboxes \cap {"idle", "iack"} = {}

VARIABLES isr,        \* "idle", "iack" or the mailbox being drained
          ready,      \* ANS mailboxes the driver has seen BOOT_STATUS on
          hello_seen, \* HELLOs received on each mailbox
          mapped,     \* endpoints each mailbox has offered
          map_done,   \* mailboxes whose map is complete
          todo,       \* answers each driver thread has to send
          staged,     \* mailboxes with a message between SEND0 and SEND1
          pings       \* power requests made

driverVars == <<ready, hello_seen, mapped, map_done, todo, staged, pings>>
vars == <<ascVars, aicVars, isr, driverVars>>

Init == /\ AicInit
        /\ AscInit
        /\ isr = "idle" /\ ready = {}
        /\ hello_seen = [s \in Mailboxes |-> 0]
        /\ mapped = [s \in Mailboxes |-> {}] /\ map_done = {}
        /\ todo = [s \in Mailboxes |-> <<>>] /\ staged = {}
        /\ pings = 0
-----------------------------------------------------------------------------
TakeIrq == /\ isr = "idle" /\ cpu_irq
           /\ isr' = "iack"
           /\ UNCHANGED <<ascVars, aicVars, driverVars>>

ReadIack ==
  /\ isr = "iack"
  /\ \/ /\ AicIack
        /\ isr' = CHOOSE s \in Mailboxes : HwirqOf[s] = NextPending
     \/ /\ pending = {}
        /\ isr' = "idle"
        /\ UNCHANGED aicVars
  /\ UNCHANGED <<ascVars, driverVars>>

\* I2A_CONTROL, RECV0 and RECV1; the routine may return after any message.
Drain(s) ==
  /\ isr = s
  /\ \/ /\ q[s] = <<>>
        /\ isr' = "idle"
        /\ UNCHANGED <<ascVars, aicVars, driverVars>>
     \/ /\ AscRecv1(s)
        /\ isr' \in {s, "idle"}
        /\ LET m == Head(q[s])
           IN  \/ /\ m.type = "HELLO"
                  /\ hello_seen' = [hello_seen EXCEPT ![s] = @ + 1]
                  /\ todo' = [todo EXCEPT ![s] = Append(@, Msg("HELLO_REPLY"))]
                  /\ UNCHANGED <<mapped, map_done>>
               \/ /\ m.type = "EPMAP"
                  /\ mapped' = [mapped EXCEPT ![s] = @ \cup m.bitmap]
                  /\ map_done' = IF m.last THEN map_done \cup {s} ELSE map_done
                  /\ todo' = [todo EXCEPT ![s] = Append(@, Msg("EPMAP"))]
                  /\ UNCHANGED hello_seen
               \/ /\ m.type \notin {"HELLO", "EPMAP"}
                  /\ UNCHANGED <<hello_seen, mapped, map_done, todo>>
        /\ UNCHANGED <<ready, staged, pings>>

InterruptRoutine == TakeIrq \/ ReadIack \/ \E s \in Mailboxes : Drain(s)

Start(s, run) == /\ AscCpuControl(s, run)
                 /\ UNCHANGED <<isr, driverVars>>

Announce(s) == /\ AscAnnounce(s)
               /\ UNCHANGED <<isr, driverVars>>

PollBootStatus(s) ==
  /\ BootStatusOk(s) /\ s \notin ready
  /\ ready' = ready \cup {s}
  /\ UNCHANGED <<ascVars, aicVars, isr, hello_seen, mapped, map_done, todo,
                 staged, pings>>

\* The ANS driver sends nothing before BOOT_STATUS.
Stage(s) == /\ s \notin staged /\ todo[s] # <<>>
            /\ s \in Ans => s \in ready
            /\ AscSend0(s, Head(todo[s]))
            /\ staged' = staged \cup {s}
            /\ todo' = [todo EXCEPT ![s] = Tail(@)]
            /\ UNCHANGED <<isr, ready, hello_seen, mapped, map_done, pings>>

Commit(s) == /\ s \in staged
             /\ AscSend1(s, 0)
             /\ staged' = staged \ {s}
             /\ UNCHANGED <<isr, ready, hello_seen, mapped, map_done, todo, pings>>

Ping(s, t) == /\ hello_seen[s] > 0 /\ pings < MaxPings
              /\ pings' = pings + 1
              /\ todo' = [todo EXCEPT ![s] = Append(@, Msg(t))]
              /\ UNCHANGED <<ascVars, aicVars, isr, ready, hello_seen, mapped,
                             map_done, staged>>

EnableAic == /\ AicWriteGlbcfg(TRUE)
             /\ UNCHANGED <<ascVars, isr, driverVars>>

Next == \/ InterruptRoutine
        \/ \E s \in Mailboxes :
             \/ \E run \in BOOLEAN : Start(s, run)
             \/ Announce(s) \/ PollBootStatus(s) \/ Stage(s) \/ Commit(s)
             \/ \E t \in {"IOP_PWR", "AP_PWR"} : Ping(s, t)
        \/ EnableAic

Spec == Init /\ [][Next]_vars

\* The interrupt routine and each driver thread run, and the AIC is enabled.
FairSpec == /\ Spec
            /\ WF_vars(InterruptRoutine)
            /\ WF_vars(EnableAic)
            /\ \A s \in Mailboxes : WF_vars(PollBootStatus(s) \/ Stage(s) \/ Commit(s))
-----------------------------------------------------------------------------
I2ATypes == {"HELLO", "EPMAP", "IOP_PWR_ACK", "AP_PWR"}

(* Every variable keeps its type and no queue exceeds its array.           *)
TypeOK ==
  /\ AicTypeOK
  /\ \A s \in Mailboxes :
       /\ \A i \in DOMAIN q[s] : q[s][i].type \in I2ATypes
       /\ Len(q[s]) <= QSize
       /\ hello_sent[s] \in BOOLEAN /\ running[s] \in BOOLEAN
       /\ hello_seen[s] \in 0 .. 1
       /\ mapped[s] \subseteq 0 .. 31
  /\ announce \subseteq Mailboxes /\ pings \in 0 .. MaxPings
  /\ isr \in Mailboxes \cup {"idle", "iack"}
  /\ ready \subseteq Ans /\ map_done \subseteq Mailboxes
  /\ staged \subseteq Mailboxes

(* Each mailbox's messages keep its own interrupt pending, or the routine  *)
(* at that mailbox: retiring one mailbox's interrupt, or emptying its      *)
(* queue, never takes the other's with it.                                 *)
NoLostInterrupt ==
  \A s \in Mailboxes : q[s] # <<>> => HwirqOf[s] \in pending \/ isr = s

(* A coprocessor that reports itself up has said HELLO, once: whoever set  *)
(* it running, the guest's RUN or the timer, a driver that has seen        *)
(* BOOT_STATUS finds HELLO queued or received, and a silent one never      *)
(* reports itself up.                                                      *)
RunningSaidHello ==
  \A s \in Mailboxes :
    LET hellos == {i \in DOMAIN q[s] : q[s][i].type = "HELLO"}
    IN  IF running[s] THEN \/ hello_seen[s] = 1 /\ hellos = {}
                           \/ hello_seen[s] = 0 /\ \E i \in DOMAIN q[s] : hellos = {i}
                      ELSE hello_seen[s] = 0 /\ hellos = {} /\ s \notin ready

(* Each coprocessor that runs completes its handshake, although the        *)
(* interrupt controller always serves the lower number first.              *)
BothHandshakesFinish ==
  \A s \in Mailboxes : running[s] ~> s \in map_done

(* "so the DCP must offer it": a completed map of the DCP has endpoint     *)
(* 0x24 in it.                                                             *)
DcpOffersDisplay ==
  \A s \in map_done \ Ans : DISP_EP \in mapped[s]
=============================================================================
