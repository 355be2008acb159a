----------------------------- MODULE AscMailbox -----------------------------
(***************************************************************************)
(* The inline ASC mailboxes of the QEMU machine (DARWIN_ASC=1): one for    *)
(* the DCP and one for the ANS, each with its queue and its self-announce  *)
(* timer, both wired to one interrupt controller.  The ANS also shows the  *)
(* guest a BOOT_STATUS register, in its mailbox and in its NVMe window.    *)
(***************************************************************************)
EXTENDS Aic, Sequences

CONSTANTS Mailboxes,  \* the mailboxes init_asc_mailbox creates
          Ans,        \* those with is_ans set
          HwirqOf,    \* the interrupt of each
          QSize       \* ARRAY_SIZE(q), 32 in the code

ASSUME AscAssumption == /\ Ans \subseteq Mailboxes
                        /\ HwirqOf \in [Mailboxes -> Hwirqs]
                        /\ QSize \in Nat \ {0}

VARIABLES q,          \* messages queued for the guest, oldest first
          a2i_msg0,   \* the message staged with SEND0
          hello_sent, running,
          announce    \* mailboxes whose self-announce timer is armed

ascVars == <<q, a2i_msg0, hello_sent, running, announce>>

NoMsg == [type |-> "NONE"]
Msg(t) == [type |-> t]

DISP_EP == 36         \* 0x24, "so the DCP must offer it"

\* The endpoints in asc_handle's EPMAP: bitmap & 0xffffffff, base 0.
Epmap(s) == [type   |-> "EPMAP",
             bitmap |-> {b \in (IF s \in Ans THEN {} ELSE {DISP_EP}) : b < 32},
             last   |-> TRUE]

AscInit == /\ q = [s \in Mailboxes |-> <<>>]
           /\ a2i_msg0 = [s \in Mailboxes |-> NoMsg]
           /\ hello_sent = [s \in Mailboxes |-> FALSE]
           /\ running = [s \in Mailboxes |-> FALSE]
           /\ announce \in {{}, Mailboxes}

\* asc_update_irq, s's queue being empty or not.
AscUpdateIrq(s, level) == AicSetIrq(HwirqOf[s], level)

AscNothing == UNCHANGED <<q, aicVars>>

\* Mutants of AscPush: no test for a full queue, and no asc_update_irq.
AscPushUnchecked(s, m) == /\ q' = [q EXCEPT ![s] = Append(@, m)]
                          /\ AscUpdateIrq(s, TRUE)

AscPushSilent(s, m) == \/ /\ Len(q[s]) = QSize
                          /\ AscNothing
                       \/ /\ Len(q[s]) < QSize
                          /\ q' = [q EXCEPT ![s] = Append(@, m)]
                          /\ UNCHANGED aicVars

\* asc_push: a full queue drops the message.
AscPush(s, m) == \/ /\ Len(q[s]) = QSize
                    /\ AscNothing
                 \/ /\ Len(q[s]) < QSize
                    /\ q' = [q EXCEPT ![s] = Append(@, m)]
                    /\ AscUpdateIrq(s, TRUE)

\* Mutant of AscBoot: does not remember that HELLO was sent.
AscBootForgets(s) == \/ /\ hello_sent[s]
                        /\ AscNothing
                        /\ UNCHANGED hello_sent
                     \/ /\ ~hello_sent[s]
                        /\ AscPush(s, Msg("HELLO"))
                        /\ UNCHANGED hello_sent

\* asc_boot: HELLO once in the life of the mailbox.
AscBoot(s) == \/ /\ hello_sent[s]
                 /\ AscNothing
                 /\ UNCHANGED hello_sent
              \/ /\ ~hello_sent[s]
                 /\ hello_sent' = [hello_sent EXCEPT ![s] = TRUE]
                 /\ AscPush(s, Msg("HELLO"))

\* The guest writes CPU_CONTROL.  (The value is only read back.)
AscCpuControl(s, run) ==
  /\ \/ /\ run /\ ~running[s]
        /\ running' = [running EXCEPT ![s] = TRUE]
        /\ AscBoot(s)
     \/ /\ ~(run /\ ~running[s])
        /\ AscNothing
        /\ UNCHANGED <<running, hello_sent>>
  /\ UNCHANGED <<a2i_msg0, announce>>

\* asc_announce_cb: after HELLO the callback does nothing.
AscAnnounce(s) ==
  /\ s \in announce
  /\ announce' = announce \ {s}
  /\ \/ /\ hello_sent[s]
        /\ AscNothing
        /\ UNCHANGED <<running, hello_sent>>
     \/ /\ ~hello_sent[s]
        /\ running' = [running EXCEPT ![s] = TRUE]
        /\ AscBoot(s)
  /\ UNCHANGED a2i_msg0

AscSend0(s, m) == /\ a2i_msg0' = [a2i_msg0 EXCEPT ![s] = m]
                  /\ UNCHANGED <<q, hello_sent, running, announce, aicVars>>

\* asc_handle for endpoint 0; other endpoints are ignored.
AscHandle(s, m) ==
  \/ m.type = "HELLO_REPLY" /\ AscPush(s, Epmap(s))
  \/ m.type = "IOP_PWR"     /\ AscPush(s, Msg("IOP_PWR_ACK"))
  \/ m.type = "AP_PWR"      /\ AscPush(s, Msg("AP_PWR"))
  \/ m.type \notin {"HELLO_REPLY", "IOP_PWR", "AP_PWR"} /\ AscNothing

AscSend1(s, ep) ==
  /\ \/ ep = 0 /\ AscHandle(s, a2i_msg0[s])
     \/ ep # 0 /\ AscNothing
  /\ UNCHANGED <<a2i_msg0, hello_sent, running, announce>>

\* The guest reads RECV1 with a message queued.
AscRecv1(s) == /\ q[s] # <<>>
               /\ q' = [q EXCEPT ![s] = Tail(@)]
               /\ AscUpdateIrq(s, Tail(q[s]) # <<>>)
               /\ UNCHANGED <<a2i_msg0, hello_sent, running, announce>>

\* What the ANS driver spins on, in the mailbox and in the NVMe window.
BootStatusOk(s) == s \in Ans /\ running[s]
=============================================================================
