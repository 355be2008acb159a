---------------------------- MODULE RTKitSystem ----------------------------
(***************************************************************************)
(* The RTKit engine, the interrupt controller and the guest that drives    *)
(* them.  The guest (XNU and its RTBuddy driver) is not part of this       *)
(* repository: it is modelled from the way the engine expects to be used   *)
(* and from the handshake its comments and docs describe.  It has          *)
(*   - an interrupt routine: IACK, then per message I2A_CONTROL, RECV0,    *)
(*     RECV1, one register access a step; after a message it may return    *)
(*     from the interrupt or look for the next one;                        *)
(*   - a sender: SEND0, then SEND1, with the interrupt routine and the     *)
(*     self-announce timer free to run in between;                         *)
(*   - the CPU_CONTROL and AIC configuration writes, at any time.          *)
(***************************************************************************)
EXTENDS RTKit

CONSTANTS MaxPings,   \* bound on the power requests the guest makes
          AicConfigs  \* values the guest writes to the AIC's enable bit

ASSUME SystemAssumption == /\ MaxPings \in Nat
                           /\ AicConfigs \subseteq BOOLEAN

VARIABLES isr,        \* where the interrupt routine stands
          held,       \* the word the routine read from RECV0
          replies,    \* answers the driver still has to send
          out,        \* the message between its SEND0 and its SEND1
          hello_seen, \* HELLOs received
          mapped,     \* endpoints the guest was told of
          map_done,   \* the guest has received the LAST chunk
          asked,      \* endpoints the guest has sent STARTEP for
          handed,     \* log endpoints whose buffer the guest handed over
          pings       \* power requests made

isrVars    == <<isr, held>>
driverVars == <<hello_seen, mapped, map_done>>
senderVars == <<replies, out, asked, handed, pings>>
vars == <<rtkitVars, aicVars, isrVars, driverVars, senderVars>>

NoSend == On(MGMT_EP, NoMsg)

Init == /\ AicInit
        /\ RTKitInit
        /\ isr = "idle" /\ held = NoMsg
        /\ hello_seen = 0 /\ mapped = {} /\ map_done = FALSE
        /\ replies = <<>> /\ out = NoSend
        /\ asked = {} /\ handed = {} /\ pings = 0
-----------------------------------------------------------------------------
(* The interrupt routine.                                                  *)

TakeIrq ==
  /\ isr = "idle"
  /\ cpu_irq
  /\ isr' = "iack"
  /\ UNCHANGED <<rtkitVars, aicVars, held, driverVars, senderVars>>

\* IACK returns 0 when nothing is pending any more.
ReadIack ==
  /\ isr = "iack"
  /\ \/ /\ AicIack
        /\ isr' = IF NextPending = Irq THEN "control" ELSE "idle"
     \/ /\ pending = {}
        /\ isr' = "idle"
        /\ UNCHANGED aicVars
  /\ UNCHANGED <<rtkitVars, held, driverVars, senderVars>>

ReadControl ==
  /\ isr = "control"
  /\ isr' = IF i2a = <<>> THEN "idle" ELSE "recv0"
  /\ UNCHANGED <<rtkitVars, aicVars, held, driverVars, senderVars>>

ReadRecv0 ==
  /\ isr = "recv0"
  /\ held' = IF i2a = <<>> THEN NoMsg ELSE Head(i2a).msg
  /\ isr' = "recv1"
  /\ UNCHANGED <<rtkitVars, aicVars, driverVars, senderVars>>

\* What the driver makes of a management message it received.
GotMgmt(m) ==
  \/ /\ m.type = "HELLO"
     /\ hello_seen' = hello_seen + 1
     /\ \E v \in RTKIT_VER :
          replies' = Append(replies, On(MGMT_EP, HelloReply(v)))
     /\ UNCHANGED <<mapped, map_done>>
  \/ /\ m.type = "EPMAP"
     /\ mapped' = mapped \cup {CHUNK * m.base + b : b \in m.bitmap}
     /\ map_done' = (map_done \/ m.last)
     /\ replies' = Append(replies, On(MGMT_EP, EpmapAck(m.base)))
     /\ UNCHANGED hello_seen
  \/ /\ m.type \notin {"HELLO", "EPMAP"}
     /\ UNCHANGED <<driverVars, replies>>

\* RECV1 pops; the driver pairs its word with the one it holds from RECV0.
ReadRecv1 ==
  /\ isr = "recv1"
  /\ I2ARecv1
  /\ \/ Head(i2a).ep = MGMT_EP /\ GotMgmt(held)
     \/ Head(i2a).ep # MGMT_EP /\ UNCHANGED <<driverVars, replies>>
  /\ isr' \in {"control", "idle"}
  /\ held' = NoMsg
  /\ UNCHANGED <<out, asked, handed, pings>>

InterruptRoutine ==
  TakeIrq \/ ReadIack \/ ReadControl \/ ReadRecv0 \/ ReadRecv1
-----------------------------------------------------------------------------
(* The sender.                                                             *)

\* SEND0, for whatever the driver wants to send next.
Stage(o) == /\ out = NoSend
            /\ A2ISend0(o.msg)
            /\ out' = o
            /\ UNCHANGED <<isrVars, driverVars>>

StageReply == /\ replies # <<>>
              /\ Stage(Head(replies))
              /\ replies' = Tail(replies)
              /\ UNCHANGED <<asked, handed, pings>>

StageStartEp(e) == /\ map_done
                   /\ e \in mapped \ asked
                   /\ Stage(On(MGMT_EP, StartEp(e)))
                   /\ asked' = asked \cup {e}
                   /\ UNCHANGED <<replies, handed, pings>>

\* A started log endpoint is handed one shared buffer, e standing for its IOVA.
StageBuffer(e) == /\ e \in (asked \cap LogEps) \ handed
                  /\ Stage(On(e, BufferAt(e)))
                  /\ handed' = handed \cup {e}
                  /\ UNCHANGED <<replies, asked, pings>>

\* The guest may change power states whenever it has heard from the IOP.
StagePing(t) == /\ hello_seen > 0
                /\ pings < MaxPings
                /\ Stage(On(MGMT_EP, Pwr(t)))
                /\ pings' = pings + 1
                /\ UNCHANGED <<replies, asked, handed>>

\* SEND1 hands the staged message to the engine.
Commit == /\ out # NoSend
          /\ A2ISend1(out.ep)
          /\ out' = NoSend
          /\ UNCHANGED <<isrVars, driverVars, replies, asked, handed, pings>>

Sender == \/ StageReply
          \/ \E e \in mapped : StageStartEp(e) \/ StageBuffer(e)
          \/ \E t \in {"IOP_PWR", "AP_PWR"} : StagePing(t)
          \/ Commit
-----------------------------------------------------------------------------
RunIop(run) == /\ CpuControlWrite(run)
               /\ UNCHANGED <<isrVars, driverVars, senderVars>>

ConfigureAic(on) == /\ AicWriteGlbcfg(on)
                    /\ UNCHANGED <<rtkitVars, isrVars, driverVars, senderVars>>

Announce == /\ AnnounceTimer
            /\ UNCHANGED <<isrVars, driverVars, senderVars>>

Next == \/ InterruptRoutine
        \/ Sender
        \/ \E run \in BOOLEAN : RunIop(run)
        \/ \E on \in AicConfigs : ConfigureAic(on)
        \/ Announce

Spec == Init /\ [][Next]_vars

(* The guest's CPU takes pending interrupts and runs its interrupt         *)
(* routine; the driver's thread is scheduled, so that it sends what it has *)
(* to send; and the AIC is switched on at some point, though it may be     *)
(* switched off again.  Nothing is assumed of CPU_CONTROL or of the timer. *)
Fairness == /\ WF_vars(InterruptRoutine)
            /\ WF_vars(StageReply)
            /\ WF_vars(\E e \in mapped : StageStartEp(e))
            /\ WF_vars(Commit)
            /\ WF_vars(ConfigureAic(TRUE))

FairSpec == Spec /\ Fairness
-----------------------------------------------------------------------------
(* Messages the coprocessor sends, and those the guest sends.              *)
I2AMessages ==
  {On(MGMT_EP, Hello)}
    \cup {On(MGMT_EP, EpmapChunk(b)) : b \in 0 .. LastBase}
    \cup {On(MGMT_EP, Pwr(t)) : t \in {"IOP_PWR_ACK", "AP_PWR"}}

GuestReplies ==
  {On(MGMT_EP, HelloReply(v)) : v \in RTKIT_VER}
    \cup {On(MGMT_EP, EpmapAck(b)) : b \in 0 .. LastBase}

GuestRequests ==
  {On(MGMT_EP, StartEp(e)) : e \in Present}
    \cup {On(MGMT_EP, Pwr(t)) : t \in {"IOP_PWR", "AP_PWR"}}
    \cup {On(e, BufferAt(e)) : e \in LogEps}

A2IMessages == GuestReplies \cup GuestRequests

(* Every variable of the engine, the controller and the guest keeps its    *)
(* type; the ring never holds more than QLen messages and the CPU line     *)
(* always follows the controller's pending bits.                           *)
TypeOK ==
  /\ AicTypeOK
  /\ i2a \in Seq(I2AMessages) /\ Len(i2a) <= QLen
  /\ a2i_msg \in {o.msg : o \in A2IMessages \cup {NoSend}}
  /\ cpu_run \in BOOLEAN /\ running \in BOOLEAN /\ hello_sent \in BOOLEAN
  /\ announce \in BOOLEAN
  /\ version \in RTKIT_VER \cup {0}
  /\ started \subseteq Present
  /\ bufs \in Seq(LogEps) /\ Len(bufs) <= NBufs
  /\ isr \in {"idle", "iack", "control", "recv0", "recv1"}
  /\ held \in {o.msg : o \in I2AMessages} \cup {NoMsg}
  /\ replies \in Seq(GuestReplies)
  /\ out \in A2IMessages \cup {NoSend}
  /\ hello_seen \in Nat /\ pings \in 0 .. MaxPings
  /\ mapped \subseteq Present /\ map_done \in BOOLEAN
  /\ asked \subseteq Present /\ handed \subseteq LogEps

(* No interrupt is lost: while a message is queued, either its interrupt   *)
(* is pending at the controller or the interrupt routine is on its way to  *)
(* the queue.  The controller forgets the level of the line at IACK, so    *)
(* this rests on rtkit_update_irq being called after every pop and every   *)
(* accepted send, whatever the guest does between the two.                 *)
NoLostInterrupt ==
  Wired /\ i2a # <<>> => \/ Irq \in pending
                        \/ isr \in {"control", "recv0", "recv1"}

(* The word read at RECV0 and the endpoint read at RECV1 are those of one  *)
(* message, although messages may be queued, or dropped for want of room,  *)
(* between the two reads.                                                  *)
NoTornReceive == isr = "recv1" => i2a # <<>> /\ Head(i2a).msg = held

(* Once sent, HELLO is in the queue or has been received, exactly once,    *)
(* however RUN writes, restarts and the announce timer interleave.         *)
HelloExactlyOnce ==
  LET queued == {i \in 1 .. Len(i2a) : i2a[i].msg = Hello}
  IN  IF hello_sent
      THEN \/ hello_seen = 1 /\ queued = {}
           \/ hello_seen = 0 /\ \E i \in 1 .. Len(i2a) : queued = {i}
      ELSE hello_seen = 0 /\ queued = {}

(* No buffer a log endpoint was handed is forgotten: it is on its way or   *)
(* in bufs[], which is large enough for one buffer per log endpoint.       *)
BuffersRecorded ==
  \A e \in handed : \/ out = On(e, BufferAt(e))
                    \/ \E i \in 1 .. Len(bufs) : bufs[i] = e

Handshake == INSTANCE IopHandshake
               WITH Endpoints <- Present, said_hello <- hello_seen > 0,
                    offered <- mapped, complete <- map_done,
                    opened <- started

(* The engine implements the handshake: in particular the chunk marked     *)
(* LAST reaches the guest only after all the others, even when the ring    *)
(* overflows, and only endpoints of the complete map are started.          *)
HandshakeImplemented == Handshake!Spec

\* The guest leaves the AIC on at some point.
AicStaysOn == <>[]enabled

\* Every send of more than one message finds its room, and nothing is dropped.
NeverFull == [](Len(i2a) < QLen)

(* Once the guest leaves the AIC on, whatever it did before, the queue is  *)
(* emptied again and again; and if the ring never fills, which drops the   *)
(* rest of a burst, every endpoint ends up started after a HELLO.          *)
HandshakeCompletes ==
  AicStaysOn => /\ (i2a # <<>>) ~> (i2a = <<>>)
                /\ NeverFull => (hello_sent ~> (started = Present))
=============================================================================
