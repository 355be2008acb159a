----------------------------- MODULE AscProofs -----------------------------
(***************************************************************************)
(* For any number of mailboxes, any queue length, any interrupt numbers    *)
(* and interleaving.                                                       *)
(***************************************************************************)
EXTENDS AscSystem, SequenceTheorems, WellFoundedInduction, TLAPS

(* aic_next_pending picks a pending interrupt, as there is a lowest.       *)
LEMMA NextPendingIsPending ==
  ASSUME pending \subseteq Nat, pending # {}
  PROVE  NextPending \in pending
<1> DEFINE Less == {ss \in Nat \X Nat : ss[1] < ss[2]}
<1>1. IsWellFoundedOn(Less, Nat)
  BY NatLessThanWellFounded DEF OpToRel
<1>2. PICK n \in pending : \A k \in pending : <<k, n>> \notin Less
  BY <1>1, WFMin
<1>3. \A k \in pending : n <= k
  <2> SUFFICES ASSUME NEW k \in pending PROVE n <= k
    OBVIOUS
  <2>1. <<k, n>> \in Less <=> k < n
    OBVIOUS
  <2> QED BY <1>2, <2>1
<1> QED BY <1>3 DEF NextPending

(* The messages a mailbox sends.                                           *)
Messages == {Msg("HELLO"), Msg("IOP_PWR_ACK"), Msg("AP_PWR")}
              \cup {Epmap(s) : s \in Mailboxes}

Lines == {HwirqOf[s] : s \in Mailboxes}

QueuesOK ==
  /\ AicTypeOK /\ pending \subseteq Lines
  /\ q \in [Mailboxes -> Seq(Messages)]
  /\ \A s \in Mailboxes : Len(q[s]) <= QSize

StateOK ==
  /\ hello_sent \in [Mailboxes -> BOOLEAN] /\ running \in [Mailboxes -> BOOLEAN]
  /\ hello_seen \in [Mailboxes -> Nat]
  /\ mapped \in [Mailboxes -> SUBSET (0 .. 31)]
  /\ DOMAIN todo = Mailboxes
  /\ announce \subseteq Mailboxes /\ pings \in 0 .. MaxPings
  /\ isr \in Mailboxes \cup {"idle", "iack"}
  /\ ready \subseteq Ans /\ map_done \subseteq Mailboxes
  /\ staged \subseteq Mailboxes

(* Until HELLO is received it is alone in its queue, and the driver has    *)
(* nothing to say; running and hello_sent are one.                         *)
HelloFirst(s) ==
  /\ hello_seen[s] = 0 =>
       /\ q[s] = IF hello_sent[s] THEN <<Msg("HELLO")>> ELSE <<>>
       /\ todo[s] = <<>> /\ s \notin staged
  /\ hello_seen[s] # 0 =>
       /\ hello_seen[s] = 1 /\ hello_sent[s]
       /\ \A i \in 1 .. Len(q[s]) : q[s][i].type # "HELLO"
  /\ running[s] = hello_sent[s]
  /\ s \in ready => running[s]

AscInv == /\ QueuesOK /\ StateOK /\ NoLostInterrupt
          /\ \A s \in Mailboxes : HelloFirst(s)

LEMMA MessageTypes ==
  /\ \A m \in Messages : m.type \in I2ATypes
  /\ \A s \in Mailboxes : /\ Epmap(s) \in Messages /\ Epmap(s).type = "EPMAP"
                          /\ Epmap(s).bitmap \subseteq 0 .. 31
  /\ \A m \in Messages : m.type = "EPMAP" => m.bitmap \subseteq 0 .. 31
  /\ \A t : Msg(t).type = t
<1>1. \A t : Msg(t).type = t
  BY DEF Msg
<1>2. \A s \in Mailboxes : /\ Epmap(s) \in Messages /\ Epmap(s).type = "EPMAP"
                          /\ Epmap(s).bitmap \subseteq 0 .. 31
  <2> SUFFICES ASSUME NEW s \in Mailboxes
               PROVE  /\ Epmap(s) \in Messages /\ Epmap(s).type = "EPMAP"
                      /\ Epmap(s).bitmap \subseteq 0 .. 31
    OBVIOUS
  <2>1. /\ Epmap(s).type = "EPMAP"
        /\ Epmap(s).bitmap = {b \in (IF s \in Ans THEN {} ELSE {DISP_EP}) : b < 32}
    BY DEF Epmap
  <2>2. \A b \in (IF s \in Ans THEN {} ELSE {DISP_EP}) : b = 36
    BY DEF DISP_EP
  <2>3. Epmap(s).bitmap \subseteq 0 .. 31
    BY <2>1, <2>2
  <2> QED BY <2>1, <2>3 DEF Messages
<1> QED BY <1>1, <1>2 DEF Messages, I2ATypes

(* A push touches one queue, and raises its line if it has queued.         *)
LEMMA PushKeepsQueues ==
  ASSUME QueuesOK, NoLostInterrupt, NEW s \in Mailboxes, NEW m \in Messages,
         AscPush(s, m), isr' = isr
  PROVE  /\ QueuesOK' /\ NoLostInterrupt'
         /\ \A t \in Mailboxes \ {s} : q'[t] = q[t]
         /\ q'[s] = IF Len(q[s]) < QSize THEN Append(q[s], m) ELSE q[s]
<1>1. CASE Len(q[s]) = QSize
  <2>1. ~(Len(q[s]) < QSize)
    BY <1>1, AscAssumption
  <2>2. UNCHANGED <<q, pending, enabled, cpu_irq>>
    BY <2>1 DEF AscPush, AscNothing, aicVars
  <2>3. QueuesOK' /\ NoLostInterrupt'
    BY <2>2 DEF QueuesOK, AicTypeOK, NoLostInterrupt
  <2> QED BY <2>1, <2>2, <2>3
<1>2. CASE Len(q[s]) < QSize
  <2>1. /\ q' = [q EXCEPT ![s] = Append(q[s], m)]
        /\ pending' = pending \cup {HwirqOf[s]} /\ enabled' = enabled
        /\ cpu_irq' = (enabled' /\ pending' # {})
    BY <1>2 DEF AscPush, AscUpdateIrq, AicSetIrq, AicUpdate
  <2>2. /\ q[s] \in Seq(Messages) /\ Len(q[s]) \in Nat
        /\ Append(q[s], m) \in Seq(Messages) /\ Len(Append(q[s], m)) = Len(q[s]) + 1
    BY DEF QueuesOK
  <2>3. /\ q' \in [Mailboxes -> Seq(Messages)] /\ q'[s] = Append(q[s], m)
        /\ \A t \in Mailboxes \ {s} : q'[t] = q[t]
    BY <2>1, <2>2 DEF QueuesOK
  <2>4. \A t \in Mailboxes : Len(q'[t]) <= QSize
    <3>1. Len(q'[s]) <= QSize
      BY <1>2, <2>2, <2>3, AscAssumption
    <3> QED BY <2>3, <3>1 DEF QueuesOK
  <2>5. AicTypeOK' /\ pending' \subseteq Lines
    BY <2>1, AscAssumption DEF QueuesOK, AicTypeOK, Lines
  <2>6. NoLostInterrupt'
    BY <2>1, <2>3 DEF NoLostInterrupt
  <2> QED BY <1>2, <2>3, <2>4, <2>5, <2>6 DEF QueuesOK
<1>3. Len(q[s]) = QSize \/ Len(q[s]) < QSize
  BY DEF AscPush
<1> QED BY <1>1, <1>2, <1>3, AscAssumption

(* HELLO always finds room: its queue is empty.                            *)
LEMMA BootKeepsInv ==
  ASSUME AscInv, NEW s \in Mailboxes, AscBoot(s), ~hello_sent[s],
         running' = [running EXCEPT ![s] = TRUE], announce' \subseteq announce,
         UNCHANGED <<isr, driverVars>>
  PROVE  AscInv'
<1>1. /\ hello_sent' = [hello_sent EXCEPT ![s] = TRUE] /\ AscPush(s, Msg("HELLO"))
      /\ UNCHANGED <<isr, ready, hello_seen, mapped, map_done, todo, staged, pings>>
  BY DEF AscBoot, driverVars
<1>2. hello_seen[s] = 0 /\ q[s] = <<>> /\ todo[s] = <<>> /\ s \notin staged
  BY DEF AscInv, HelloFirst
<1>3. Msg("HELLO") \in Messages
  BY DEF Messages
<1>4. /\ QueuesOK' /\ NoLostInterrupt'
      /\ \A t \in Mailboxes \ {s} : q'[t] = q[t]
      /\ q'[s] = IF Len(q[s]) < QSize THEN Append(q[s], Msg("HELLO")) ELSE q[s]
  BY <1>1, <1>3, PushKeepsQueues DEF AscInv
<1>5. q'[s] = <<Msg("HELLO")>>
  BY <1>2, <1>4, AscAssumption
<1>6. StateOK'
  BY <1>1 DEF AscInv, StateOK
<1>7. hello_sent'[s] = TRUE /\ running'[s] = TRUE
      /\ \A t \in Mailboxes \ {s} : hello_sent'[t] = hello_sent[t] /\ running'[t] = running[t]
  BY <1>1 DEF AscInv, StateOK
<1>8. ASSUME NEW t \in Mailboxes PROVE HelloFirst(t)'
  <2>1. CASE t = s
    BY <1>1, <1>2, <1>5, <1>7, <2>1 DEF AscInv, HelloFirst
  <2>2. CASE t # s
    BY <1>1, <1>4, <1>7, <2>2 DEF AscInv, HelloFirst
  <2> QED BY <2>1, <2>2
<1> QED BY <1>4, <1>6, <1>8 DEF AscInv

LEMMA SendKeepsInv ==
  ASSUME AscInv, NEW s \in Mailboxes, Commit(s)
  PROVE  AscInv'
<1>1. /\ staged' = staged \ {s}
      /\ UNCHANGED <<isr, ready, hello_seen, mapped, map_done, todo, pings, hello_sent,
                     running, announce>>
      /\ \/ \E m \in Messages : m.type # "HELLO" /\ AscPush(s, m)
         \/ AscNothing
  BY MessageTypes DEF Commit, AscSend1, AscHandle, Messages
<1>2. hello_seen[s] # 0
  BY DEF Commit, AscInv, HelloFirst
<1>3. StateOK'
  BY <1>1 DEF AscInv, StateOK
<1>4. ASSUME NEW m \in Messages, m.type # "HELLO", AscPush(s, m)
      PROVE  AscInv'
  <2>1. /\ QueuesOK' /\ NoLostInterrupt'
        /\ \A t \in Mailboxes \ {s} : q'[t] = q[t]
        /\ q'[s] = IF Len(q[s]) < QSize THEN Append(q[s], m) ELSE q[s]
    BY <1>1, <1>4, PushKeepsQueues DEF AscInv
  <2>2. q[s] \in Seq(Messages) /\ \A i \in 1 .. Len(q[s]) : q[s][i].type # "HELLO"
    BY <1>2 DEF AscInv, QueuesOK, HelloFirst
  <2>3. \A i \in 1 .. Len(q'[s]) : q'[s][i].type # "HELLO"
    BY <1>4, <2>1, <2>2
  <2>4. ASSUME NEW t \in Mailboxes PROVE HelloFirst(t)'
    <3>1. CASE t = s
      BY <1>1, <1>2, <2>3, <3>1 DEF AscInv, HelloFirst
    <3>2. CASE t # s
      BY <1>1, <2>1, <3>2 DEF AscInv, HelloFirst
    <3> QED BY <3>1, <3>2
  <2> QED BY <1>3, <2>1, <2>4 DEF AscInv
<1>5. CASE AscNothing
  BY <1>1, <1>3, <1>5
  DEF AscNothing, aicVars, AscInv, QueuesOK, AicTypeOK, NoLostInterrupt, HelloFirst
<1> QED BY <1>1, <1>4, <1>5

(* A step that changes none of what the invariant speaks of, or only the   *)
(* timers and the power requests.                                          *)
LEMMA QuietKeepsInv ==
  ASSUME AscInv, StateOK',
         UNCHANGED <<q, pending, enabled, cpu_irq, isr, hello_sent, running, hello_seen,
                     todo, staged, ready>>
  PROVE  AscInv'
BY DEF AscInv, QueuesOK, AicTypeOK, NoLostInterrupt, HelloFirst

LEMMA StartKeepsInv ==
  ASSUME AscInv, NEW s \in Mailboxes, NEW run \in BOOLEAN, Start(s, run)
  PROVE  AscInv'
<1>1. running[s] = hello_sent[s] /\ UNCHANGED <<isr, driverVars, announce>>
  BY DEF Start, AscCpuControl, AscInv, HelloFirst
<1>2. CASE run /\ ~running[s]
  <2>1. running' = [running EXCEPT ![s] = TRUE] /\ AscBoot(s) /\ ~hello_sent[s]
    BY <1>1, <1>2 DEF Start, AscCpuControl
  <2> QED BY <1>1, <2>1, BootKeepsInv
<1>3. CASE ~(run /\ ~running[s])
  <2>1. UNCHANGED <<q, pending, enabled, cpu_irq, isr, hello_sent, running, hello_seen,
                    todo, staged, ready, mapped, map_done, pings, announce>>
    BY <1>1, <1>3 DEF Start, AscCpuControl, AscNothing, aicVars, driverVars
  <2>2. StateOK'
    BY <2>1 DEF AscInv, StateOK
  <2> QED BY <2>1, <2>2, QuietKeepsInv
<1> QED BY <1>2, <1>3

LEMMA AnnounceKeepsInv ==
  ASSUME AscInv, NEW s \in Mailboxes, Announce(s)
  PROVE  AscInv'
<1>1. announce' \subseteq announce /\ UNCHANGED <<isr, driverVars>>
  BY DEF Announce, AscAnnounce
<1>2. CASE ~hello_sent[s]
  BY <1>1, <1>2, BootKeepsInv DEF Announce, AscAnnounce
<1>3. CASE hello_sent[s]
  <2>1. UNCHANGED <<q, pending, enabled, cpu_irq, isr, hello_sent, running, hello_seen,
                    todo, staged, ready, mapped, map_done, pings>>
    BY <1>1, <1>3 DEF Announce, AscAnnounce, AscNothing, aicVars, driverVars
  <2>2. StateOK'
    BY <1>1, <2>1 DEF AscInv, StateOK
  <2> QED BY <2>1, <2>2, QuietKeepsInv
<1> QED BY <1>2, <1>3

LEMMA DriverKeepsInv ==
  ASSUME AscInv, NEW s \in Mailboxes,
         \/ PollBootStatus(s) \/ Stage(s)
         \/ \E t \in {"IOP_PWR", "AP_PWR"} : Ping(s, t)
  PROVE  AscInv'
<1>1. UNCHANGED <<q, pending, enabled, cpu_irq, isr, hello_sent, running, hello_seen,
                  mapped, map_done, announce>>
  BY DEF PollBootStatus, Stage, Ping, AscSend0, ascVars, aicVars
<1>2. QueuesOK' /\ NoLostInterrupt'
  BY <1>1 DEF AscInv, QueuesOK, AicTypeOK, NoLostInterrupt
<1>3. StateOK'
  <2>1. ready' \subseteq Ans /\ staged' \subseteq Mailboxes
    BY DEF PollBootStatus, BootStatusOk, Stage, Ping, AscInv, StateOK
  <2>2. pings' \in 0 .. MaxPings
    <3>1. pings' = pings \/ (pings < MaxPings /\ pings' = pings + 1)
      BY DEF PollBootStatus, Stage, Ping
    <3> QED BY <3>1, AscSystemAssumption DEF AscInv, StateOK
  <2>3. DOMAIN todo' = Mailboxes
    BY DEF PollBootStatus, Stage, Ping, AscInv, StateOK
  <2> QED BY <1>1, <2>1, <2>2, <2>3 DEF AscInv, StateOK
<1>4. ASSUME NEW t \in Mailboxes PROVE HelloFirst(t)'
  <2>1. hello_seen[t] = 0 => todo'[t] = <<>> /\ t \notin staged'
    <3>1. CASE PollBootStatus(s)
      BY <3>1 DEF PollBootStatus, AscInv, HelloFirst
    <3>2. CASE Stage(s)
      BY <3>2 DEF Stage, AscInv, HelloFirst, StateOK
    <3>3. CASE \E u \in {"IOP_PWR", "AP_PWR"} : Ping(s, u)
      <4>1. hello_seen[s] # 0 /\ staged' = staged /\ \A v \in Mailboxes \ {s} : todo'[v] = todo[v]
        BY <3>3 DEF Ping, AscInv, StateOK
      <4> QED BY <4>1 DEF AscInv, HelloFirst
    <3> QED BY <3>1, <3>2, <3>3
  <2>2. t \in ready' => running[t]
    BY DEF PollBootStatus, BootStatusOk, Stage, Ping, AscInv, HelloFirst
  <2> QED BY <1>1, <2>1, <2>2 DEF AscInv, HelloFirst
<1> QED BY <1>2, <1>3, <1>4 DEF AscInv

(* IACK hands the interrupt of one mailbox over to the routine, which then *)
(* stands at that mailbox.                                                 *)
LEMMA IackKeepsInv ==
  ASSUME AscInv, TakeIrq \/ ReadIack \/ EnableAic
  PROVE  AscInv'
<1>1. CASE TakeIrq \/ EnableAic
  <2>1. /\ UNCHANGED <<ascVars, driverVars, pending>>
        /\ isr' = isr \/ (isr = "idle" /\ isr' = "iack")
        /\ AicTypeOK'
    BY <1>1 DEF TakeIrq, EnableAic, AicWriteGlbcfg, AicUpdate, aicVars, AicTypeOK,
                AscInv, QueuesOK
  <2>2. QueuesOK' /\ StateOK'
    BY <2>1 DEF ascVars, driverVars, AscInv, QueuesOK, StateOK
  <2>3. NoLostInterrupt'
    BY <2>1, AscSystemAssumption DEF ascVars, AscInv, NoLostInterrupt
  <2> QED BY <2>1, <2>2, <2>3 DEF ascVars, driverVars, AscInv, HelloFirst
<1>2. CASE ReadIack /\ pending = {}
  <2>1. UNCHANGED <<ascVars, driverVars, pending, enabled, cpu_irq>> /\ isr' = "idle"
    BY <1>2 DEF ReadIack, AicIack, aicVars
  <2>2. QueuesOK' /\ StateOK'
    BY <2>1 DEF ascVars, driverVars, AscInv, QueuesOK, AicTypeOK, StateOK
  <2>3. \A t \in Mailboxes : isr # t
    BY <1>2, AscSystemAssumption DEF ReadIack
  <2>4. NoLostInterrupt'
    BY <2>1, <2>3 DEF ascVars, AscInv, NoLostInterrupt
  <2> QED BY <2>1, <2>2, <2>4 DEF ascVars, driverVars, AscInv, HelloFirst
<1>3. CASE ReadIack /\ pending # {}
  <2>1. /\ UNCHANGED <<ascVars, driverVars, enabled>>
        /\ pending' = pending \ {NextPending} /\ cpu_irq' = (enabled' /\ pending' # {})
        /\ isr = "iack" /\ isr' = CHOOSE s \in Mailboxes : HwirqOf[s] = NextPending
    BY <1>3 DEF ReadIack, AicIack, AicUpdate
  <2>2. pending \subseteq Nat /\ pending \subseteq Lines /\ pending \subseteq Hwirqs
    BY HwirqsAssumption DEF AscInv, QueuesOK, AicTypeOK
  <2>3. NextPending \in pending
    BY <1>3, <2>2, NextPendingIsPending
  <2>4. PICK s \in Mailboxes : HwirqOf[s] = NextPending
    BY <2>2, <2>3 DEF Lines
  <2>5. isr' = s
    BY <2>1, <2>4, AscSystemAssumption
  <2>6. QueuesOK' /\ StateOK'
    BY <2>1, <2>2, <2>5 DEF ascVars, driverVars, AscInv, QueuesOK, AicTypeOK, StateOK
  <2>7. NoLostInterrupt'
    <3> SUFFICES ASSUME NEW t \in Mailboxes, q[t] # <<>>, t # s
                 PROVE  HwirqOf[t] \in pending'
      BY <2>1, <2>5 DEF NoLostInterrupt, ascVars
    <3>1. HwirqOf[t] \in pending
      BY <2>1, AscSystemAssumption DEF AscInv, NoLostInterrupt
    <3>2. HwirqOf[t] # NextPending
      BY <2>4, AscSystemAssumption
    <3> QED BY <2>1, <3>1, <3>2
  <2> QED BY <2>1, <2>6, <2>7 DEF ascVars, driverVars, AscInv, HelloFirst
<1> QED BY <1>1, <1>2, <1>3

(* A pop drives its own line by what is left, and leaves the other's alone. *)
LEMMA PopKeepsInv ==
  ASSUME AscInv, NEW s \in Mailboxes, Drain(s), q[s] # <<>>
  PROVE  AscInv'
<1> DEFINE m == Head(q[s])
           rest == Tail(q[s])
<1>1. /\ isr = s /\ isr' \in {s, "idle"}
      /\ q' = [q EXCEPT ![s] = rest] /\ enabled' = enabled
      /\ pending' = IF rest # <<>> THEN pending \cup {HwirqOf[s]} ELSE pending \ {HwirqOf[s]}
      /\ cpu_irq' = (enabled' /\ pending' # {})
      /\ UNCHANGED <<a2i_msg0, hello_sent, running, announce, ready, staged, pings>>
  BY DEF Drain, AscRecv1, AscUpdateIrq, AicSetIrq, AicUpdate
<1>2. /\ m.type = "HELLO" => hello_seen' = [hello_seen EXCEPT ![s] = hello_seen[s] + 1]
      /\ m.type # "HELLO" => hello_seen' = hello_seen
      /\ m.type \notin {"HELLO", "EPMAP"} => todo' = todo
      /\ \/ todo' = todo
         \/ \E t : todo' = [todo EXCEPT ![s] = Append(todo[s], t)]
      /\ \/ mapped' = mapped
         \/ m.type = "EPMAP" /\ mapped' = [mapped EXCEPT ![s] = mapped[s] \cup m.bitmap]
      /\ map_done' \subseteq map_done \cup {s}
  BY DEF Drain
<1>3. /\ q[s] \in Seq(Messages) /\ m = q[s][1] /\ m \in Messages
      /\ Len(q[s]) \in Nat \ {0} /\ Len(q[s]) <= QSize
      /\ rest \in Seq(Messages) /\ Len(rest) = Len(q[s]) - 1
      /\ \A i \in 1 .. Len(rest) : rest[i] = q[s][i + 1]
  BY EmptySeq, HeadTailProperties DEF AscInv, QueuesOK
<1> HIDE DEF m, rest
<1>4. q' \in [Mailboxes -> Seq(Messages)] /\ q'[s] = rest
      /\ \A t \in Mailboxes \ {s} : q'[t] = q[t]
  BY <1>1, <1>3 DEF AscInv, QueuesOK
<1>5. QueuesOK'
  <2>1. Len(q'[s]) <= QSize
    BY <1>3, <1>4, AscAssumption
  <2>2. AicTypeOK' /\ pending' \subseteq Lines
    BY <1>1, AscAssumption DEF AscInv, QueuesOK, AicTypeOK, Lines
  <2> QED BY <1>4, <2>1, <2>2 DEF AscInv, QueuesOK
<1>6. StateOK'
  <2>1. hello_seen' \in [Mailboxes -> Nat]
    BY <1>2 DEF AscInv, StateOK
  <2>2. mapped' \in [Mailboxes -> SUBSET (0 .. 31)]
    <3>1. m.type = "EPMAP" => m.bitmap \subseteq 0 .. 31
      BY <1>3, MessageTypes
    <3> QED BY <1>2, <3>1, ZenonT(60) DEF AscInv, StateOK
  <2>3. DOMAIN todo' = Mailboxes
    BY <1>2 DEF AscInv, StateOK
  <2>4. map_done' \subseteq Mailboxes /\ isr' \in Mailboxes \cup {"idle", "iack"}
    BY <1>1, <1>2 DEF AscInv, StateOK
  <2> QED BY <1>1, <2>1, <2>2, <2>3, <2>4 DEF AscInv, StateOK
<1>7. NoLostInterrupt'
  <2>1. q'[s] # <<>> => HwirqOf[s] \in pending'
    BY <1>1, <1>4
  <2>2. ASSUME NEW t \in Mailboxes \ {s}, q[t] # <<>>
        PROVE  HwirqOf[t] \in pending'
    <3>1. HwirqOf[t] \in pending /\ HwirqOf[t] # HwirqOf[s]
      BY <1>1, <2>2, AscSystemAssumption DEF AscInv, NoLostInterrupt
    <3> QED BY <1>1, <3>1
  <2> QED BY <1>4, <2>1, <2>2 DEF NoLostInterrupt
<1>8. HelloFirst(s)'
  <2>0. running'[s] = hello_sent'[s] /\ (s \in ready' => running'[s])
    BY <1>1 DEF AscInv, HelloFirst
  <2>1. CASE hello_seen[s] = 0
    <3>1. hello_sent[s] /\ q[s] = <<Msg("HELLO")>>
      BY <1>3, <2>1, EmptySeq DEF AscInv, HelloFirst
    <3>2. m.type = "HELLO" /\ rest = <<>>
      BY <1>3, <3>1, MessageTypes
    <3>3. hello_seen'[s] = 1
      BY <1>2, <2>1, <3>2 DEF AscInv, StateOK
    <3>4. Len(q'[s]) = 0
      BY <1>4, <3>2
    <3>5. hello_sent'[s] /\ \A i \in 1 .. Len(q'[s]) : q'[s][i].type # "HELLO"
      BY <1>1, <3>1, <3>4
    <3> QED BY <2>0, <3>3, <3>5 DEF HelloFirst
  <2>2. CASE hello_seen[s] # 0
    <3>1. /\ hello_seen[s] = 1 /\ hello_sent[s]
          /\ \A i \in 1 .. Len(q[s]) : q[s][i].type # "HELLO"
      BY <2>2 DEF AscInv, HelloFirst
    <3>2. m.type # "HELLO" /\ \A i \in 1 .. Len(rest) : i + 1 \in 1 .. Len(q[s])
      BY <1>3, <3>1
    <3>3. \A i \in 1 .. Len(q'[s]) : q'[s][i].type # "HELLO"
      BY <1>3, <1>4, <3>1, <3>2
    <3>4. hello_sent'[s] /\ hello_seen'[s] = 1
      BY <1>1, <1>2, <3>1, <3>2
    <3> QED BY <2>0, <3>3, <3>4 DEF HelloFirst
  <2> QED BY <2>1, <2>2
<1>9. ASSUME NEW t \in Mailboxes \ {s} PROVE HelloFirst(t)'
  <2>1. hello_seen'[t] = hello_seen[t] /\ todo'[t] = todo[t] /\ q'[t] = q[t]
    BY <1>2, <1>4 DEF AscInv, StateOK
  <2> QED BY <1>1, <2>1 DEF AscInv, HelloFirst
<1> QED BY <1>5, <1>6, <1>7, <1>8, <1>9 DEF AscInv

LEMMA DrainKeepsInv ==
  ASSUME AscInv, NEW s \in Mailboxes, Drain(s)
  PROVE  AscInv'
<1>1. CASE q[s] # <<>>
  BY <1>1, PopKeepsInv
<1>2. CASE q[s] = <<>>
  <2>1. /\ UNCHANGED <<ascVars, driverVars, pending, enabled, cpu_irq>>
        /\ isr = s /\ isr' = "idle"
    BY <1>2 DEF Drain, AscRecv1, aicVars
  <2>2. QueuesOK' /\ StateOK'
    BY <2>1 DEF ascVars, driverVars, AscInv, QueuesOK, AicTypeOK, StateOK
  <2>3. NoLostInterrupt'
    BY <1>2, <2>1 DEF ascVars, AscInv, NoLostInterrupt
  <2> QED BY <2>1, <2>2, <2>3 DEF ascVars, driverVars, AscInv, HelloFirst
<1> QED BY <1>1, <1>2

LEMMA AscInvHolds == Spec => []AscInv
<1>1. Init => AscInv
  <2> SUFFICES ASSUME Init PROVE AscInv
    OBVIOUS
  <2>1. QueuesOK
    <3>1. <<>> \in Seq(Messages) /\ Len(<<>>) <= QSize
      BY AscAssumption
    <3>2. q \in [Mailboxes -> Seq(Messages)] /\ \A s \in Mailboxes : Len(q[s]) <= QSize
      BY <3>1 DEF Init, AscInit
    <3> QED BY <3>2 DEF Init, AicInit, QueuesOK, AicTypeOK
  <2>2. StateOK
    BY AscSystemAssumption DEF Init, AscInit, StateOK
  <2> QED BY <2>1, <2>2 DEF Init, AscInit, AscInv, NoLostInterrupt, HelloFirst
<1>2. AscInv /\ [Next]_vars => AscInv'
  <2> SUFFICES ASSUME AscInv, [Next]_vars PROVE AscInv'
    OBVIOUS
  <2>1. CASE UNCHANGED vars
    <3>1. StateOK'
      BY <2>1 DEF vars, ascVars, driverVars, AscInv, StateOK
    <3> QED BY <2>1, <3>1, QuietKeepsInv DEF vars, ascVars, aicVars, driverVars
  <2>2. CASE Next
    BY <2>2, IackKeepsInv, DrainKeepsInv, StartKeepsInv, AnnounceKeepsInv, DriverKeepsInv,
       SendKeepsInv DEF Next, InterruptRoutine
  <2> QED BY <2>1, <2>2
<1> QED BY <1>1, <1>2, PTL DEF Spec
-----------------------------------------------------------------------------
(* Every variable keeps its type and no queue exceeds its array.           *)
THEOREM AscTypeCorrect == Spec => []TypeOK
<1>1. AscInv => TypeOK
  <2> SUFFICES ASSUME AscInv PROVE TypeOK
    OBVIOUS
  <2>1. \A s \in Mailboxes : /\ \A i \in DOMAIN q[s] : q[s][i].type \in I2ATypes
                            /\ Len(q[s]) <= QSize
    BY MessageTypes DEF AscInv, QueuesOK
  <2>2. \A s \in Mailboxes : hello_seen[s] \in 0 .. 1
    BY DEF AscInv, HelloFirst
  <2> QED BY <2>1, <2>2 DEF AscInv, QueuesOK, StateOK, TypeOK
<1> QED BY <1>1, AscInvHolds, PTL

(* Retiring or lowering one mailbox's interrupt never loses another's.     *)
THEOREM AscDeliveryCorrect == Spec => []NoLostInterrupt
BY AscInvHolds, PTL DEF AscInv

(* A mailbox that reports itself up has said HELLO, once.                  *)
THEOREM AscHelloCorrect == Spec => []RunningSaidHello
<1>1. AscInv => RunningSaidHello
  <2> SUFFICES ASSUME AscInv, NEW s \in Mailboxes
               PROVE  LET hellos == {i \in DOMAIN q[s] : q[s][i].type = "HELLO"}
                      IN  IF running[s] THEN \/ hello_seen[s] = 1 /\ hellos = {}
                                             \/ hello_seen[s] = 0 /\ \E i \in DOMAIN q[s] : hellos = {i}
                                        ELSE hello_seen[s] = 0 /\ hellos = {} /\ s \notin ready
    BY DEF RunningSaidHello
  <2>1. HelloFirst(s) /\ q[s] \in Seq(Messages)
    BY DEF AscInv, QueuesOK
  <2>2. CASE hello_seen[s] = 0 /\ running[s]
    <3>1. q[s] = <<Msg("HELLO")>> /\ DOMAIN q[s] = {1} /\ q[s][1].type = "HELLO"
      BY <2>1, <2>2, MessageTypes DEF HelloFirst
    <3>2. {i \in DOMAIN q[s] : q[s][i].type = "HELLO"} = {1} /\ 1 \in DOMAIN q[s]
      BY <3>1
    <3> QED BY <2>2, <3>2
  <2>3. CASE hello_seen[s] = 0 /\ ~running[s]
    <3>1. q[s] = <<>> /\ s \notin ready
      BY <2>1, <2>3 DEF HelloFirst
    <3>2. {i \in DOMAIN q[s] : q[s][i].type = "HELLO"} = {}
      BY <3>1
    <3> QED BY <2>3, <3>1, <3>2
  <2>4. CASE hello_seen[s] # 0
    <3>1. hello_seen[s] = 1 /\ running[s]
          /\ {i \in DOMAIN q[s] : q[s][i].type = "HELLO"} = {}
      BY <2>1, <2>4 DEF HelloFirst
    <3> QED BY <3>1
  <2> QED BY <2>2, <2>3, <2>4
<1> QED BY <1>1, AscInvHolds, PTL
=============================================================================
