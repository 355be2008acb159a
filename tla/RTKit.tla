------------------------------- MODULE RTKit -------------------------------
(***************************************************************************)
(* The RTKit engine (apple_rtkit.c): the coprocessor side of an Apple ASC  *)
(* mailbox, one action per register the guest may touch and one for the    *)
(* self-announce timer.  QEMU runs each of them under its big lock, so an  *)
(* action is atomic however many messages it sends.                        *)
(*                                                                         *)
(* The I2A ring is kept as the sequence i2a of the messages in it;         *)
(* RingQueue shows that head, count and q[64] implement that.              *)
(***************************************************************************)
EXTENDS Aic, Sequences

CONSTANTS LogEps,     \* endpoints apple_rtkit_new registers, {1, 2, 3, 4, 8}
          DeviceEps,  \* endpoints a device adds (for the DCP 0x23, 0x24, 0x25)
          QLen,       \* ARRAY_SIZE(q), 64 in the code
          NBufs,      \* ARRAY_SIZE(bufs), 8 in the code
          Irq,        \* the hardware interrupt of this mailbox
          Wired       \* FALSE: aic_irq_line returned NULL, nothing is raised

MGMT_EP == 0
CHUNK == 32
RTKIT_MAX_ENDPOINTS == 64
RTKIT_VER == 11 .. 12

Present == LogEps \cup DeviceEps

ASSUME RTKitAssumption ==
  /\ LogEps \subseteq 1 .. RTKIT_MAX_ENDPOINTS - 1
  /\ DeviceEps \subseteq 1 .. RTKIT_MAX_ENDPOINTS - 1
  /\ LogEps \cap DeviceEps = {}
  /\ QLen \in Nat \ {0}
  /\ NBufs \in Nat
  /\ Irq \in Hwirqs
  /\ Wired \in BOOLEAN

VARIABLES i2a,        \* messages queued for the guest, oldest first
          a2i_msg,    \* the message the guest staged with SEND0
          cpu_run,    \* the RUN bit of CPU_CONTROL as last written
          running, hello_sent,
          version,    \* negotiated protocol version, 0 before
          started,    \* endpoints the guest has started
          bufs,       \* IOVAs of the valid entries of bufs[]
          announce    \* the self-announce timer is armed

rtkitVars == <<i2a, a2i_msg, cpu_run, running, hello_sent, version, started,
               bufs, announce>>
-----------------------------------------------------------------------------
(* Messages, by the fields of the 64-bit word the code looks at.           *)
NoMsg        == [type |-> "NONE"]
Hello        == [type |-> "HELLO"]
HelloReply(v) == [type |-> "HELLO_REPLY", minver |-> v]
EpmapAck(b)  == [type |-> "EPMAP", base |-> b]
StartEp(e)   == [type |-> "STARTEP", ep |-> e]
Pwr(t)       == [type |-> t]
BufferAt(i)  == [type |-> "BUFFER_REQUEST", iova |-> i]

PwrTypes == {"IOP_PWR", "IOP_PWR_ACK", "AP_PWR"}

On(e, m) == [ep |-> e, msg |-> m]

\* The last chunk send_epmap sends: that of the highest endpoint present.
Bases    == {0} \cup {e \div CHUNK : e \in Present}
LastBase == CHOOSE b \in Bases : \A c \in Bases : c <= b

\* Mutant of EpmapChunk: LAST on the chunk of base 0.
EpmapChunkFirstIsLast(b) ==
  [type   |-> "EPMAP",
   base   |-> b,
   bitmap |-> {e % CHUNK : e \in {p \in Present : p \div CHUNK = b}},
   last   |-> b = 0]

\* One EPMAP message: the endpoints base * 32 + bit, and LAST on the last.
EpmapChunk(b) ==
  [type   |-> "EPMAP",
   base   |-> b,
   bitmap |-> {e % CHUNK : e \in {p \in Present : p \div CHUNK = b}},
   last   |-> b = LastBase]

\* Mutant of Epmap: the loop stops before last_base.
EpmapShort == [i \in 1 .. LastBase |-> On(MGMT_EP, EpmapChunk(i - 1))]

Epmap == [i \in 1 .. LastBase + 1 |-> On(MGMT_EP, EpmapChunk(i - 1))]
-----------------------------------------------------------------------------
RTKitInit == /\ i2a = <<>>
             /\ a2i_msg = NoMsg
             /\ cpu_run = FALSE
             /\ running = FALSE
             /\ hello_sent = FALSE
             /\ version = 0
             /\ started = {}
             /\ bufs = <<>>
             /\ announce \in BOOLEAN

\* Mutant of UpdateIrq: drives the line only around an empty queue.
UpdateIrqOnEmpty(level) ==
  IF Wired /\ i2a = <<>> THEN AicSetIrq(Irq, level) ELSE UNCHANGED aicVars

\* rtkit_update_irq: the line follows "something is queued".
UpdateIrq(level) == IF Wired THEN AicSetIrq(Irq, level) ELSE UNCHANGED aicVars

\* Mutant of Room: no test for a full ring.
RoomUnchecked(ms) == Len(ms)

\* How many of ms apple_rtkit_send queues before it finds the ring full.
Room(ms) == IF Len(ms) <= QLen - Len(i2a) THEN Len(ms) ELSE QLen - Len(i2a)

\* Mutant of Send: the oldest messages make room for the new ones.
SendDropsOldest(ms) ==
  LET all == i2a \o ms
  IN  /\ i2a' = IF Len(all) <= QLen THEN all
                ELSE SubSeq(all, Len(all) - QLen + 1, Len(all))
      /\ IF ms = <<>> THEN UNCHANGED aicVars ELSE UpdateIrq(TRUE)

\* apple_rtkit_send for each of ms in turn; what does not fit is dropped.
Send(ms) ==
  /\ i2a' = i2a \o SubSeq(ms, 1, Room(ms))
  /\ IF Room(ms) = 0 THEN UNCHANGED aicVars ELSE UpdateIrq(TRUE)

SendNothing == UNCHANGED <<i2a, aicVars>>

\* Mutant of Boot: does not look at hello_sent.
BootEveryTime == /\ hello_sent' = TRUE
                 /\ running' = TRUE
                 /\ Send(<<On(MGMT_EP, Hello)>>)

\* apple_rtkit_boot: HELLO once in the life of the device.
Boot == \/ /\ hello_sent
           /\ UNCHANGED <<hello_sent, running>>
           /\ SendNothing
        \/ /\ ~hello_sent
           /\ hello_sent' = TRUE
           /\ running' = TRUE
           /\ Send(<<On(MGMT_EP, Hello)>>)

\* The guest writes CPU_CONTROL.
CpuControlWrite(run) ==
  /\ cpu_run' = run
  /\ \/ run /\ ~running /\ Boot
     \/ ~(run /\ ~running) /\ SendNothing /\ UNCHANGED <<hello_sent, running>>
  /\ UNCHANGED <<a2i_msg, version, started, bufs, announce>>

\* rtkit_announce_cb: the one-shot timer of apple_rtkit_announce_after fires.
AnnounceTimer ==
  /\ announce
  /\ announce' = FALSE
  /\ Boot
  /\ UNCHANGED <<a2i_msg, cpu_run, version, started, bufs>>

\* The guest writes A2I_SEND0.
A2ISend0(m) ==
  /\ a2i_msg' = m
  /\ UNCHANGED <<i2a, cpu_run, running, hello_sent, version, started, bufs,
                 announce, aicVars>>

\* What handle_mgmt sends back for m.
MgmtReplies(m) ==
  CASE m.type = "HELLO_REPLY" -> Epmap
    [] m.type = "IOP_PWR"     -> <<On(MGMT_EP, Pwr("IOP_PWR_ACK"))>>
    [] m.type = "AP_PWR"      -> <<On(MGMT_EP, Pwr("AP_PWR"))>>
    [] OTHER                  -> <<>>

HandleMgmt(m) ==
  /\ Send(MgmtReplies(m))
  /\ version' = IF m.type = "HELLO_REPLY" THEN m.minver ELSE version
  /\ started' = IF m.type = "STARTEP" /\ m.ep \in Present
                THEN started \cup {m.ep} ELSE started
  /\ UNCHANGED bufs

\* Mutant of HandleLog: leaves the last entry of bufs[] unused.
HandleLogOneShort(m) ==
  /\ bufs' = IF m.type = "BUFFER_REQUEST" /\ Len(bufs) + 1 < NBufs
             THEN Append(bufs, m.iova) ELSE bufs
  /\ SendNothing
  /\ UNCHANGED <<version, started>>

\* handle_log_ep: a handed-over buffer takes the first free entry, if any.
HandleLog(m) ==
  /\ bufs' = IF m.type = "BUFFER_REQUEST" /\ Len(bufs) < NBufs
             THEN Append(bufs, m.iova) ELSE bufs
  /\ SendNothing
  /\ UNCHANGED <<version, started>>

\* The guest writes A2I_SEND1: handle_a2i on the staged message.  Traffic of
\* the endpoints a device added goes to that device's handler (see AppleDcp).
A2ISend1(ep) ==
  /\ \/ ep = MGMT_EP /\ HandleMgmt(a2i_msg)
     \/ ep \in LogEps /\ HandleLog(a2i_msg)
     \/ /\ ep \notin Present \cup {MGMT_EP}
        /\ SendNothing
        /\ UNCHANGED <<version, started, bufs>>
  /\ UNCHANGED <<a2i_msg, cpu_run, running, hello_sent, announce>>

\* Mutant of I2ARecv1: pops without rtkit_update_irq.
I2ARecv1Silent ==
  /\ i2a # <<>>
  /\ i2a' = Tail(i2a)
  /\ UNCHANGED <<a2i_msg, cpu_run, running, hello_sent, version, started,
                 bufs, announce, aicVars>>

\* The guest reads I2A_RECV1 with a message queued: it is popped.
I2ARecv1 ==
  /\ i2a # <<>>
  /\ i2a' = Tail(i2a)
  /\ UpdateIrq(i2a' # <<>>)
  /\ UNCHANGED <<a2i_msg, cpu_run, running, hello_sent, version, started,
                 bufs, announce>>
=============================================================================
