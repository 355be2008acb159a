---------------------------- MODULE RTKitProofs ----------------------------
(***************************************************************************)
(* For all endpoint sets, ring sizes and guest interleavings: the RTKit    *)
(* engine with its interrupt controller and guest is type correct, loses   *)
(* no interrupt, never tears a message, and implements IopHandshake.       *)
(***************************************************************************)
EXTENDS RTKitSystem, SequenceTheorems, FiniteSets, FiniteSetTheorems, TLAPS

(* What apple_rtkit_send leaves in the ring: the old messages, then those  *)
(* of the new ones that fit.                                               *)
LEMMA SendAppends ==
  ASSUME NEW S, i2a \in Seq(S), Len(i2a) <= QLen, NEW ms \in Seq(S), Send(ms)
  PROVE  /\ Room(ms) \in 0 .. Len(ms)
         /\ i2a' \in Seq(S)
         /\ Len(i2a') = Len(i2a) + Room(ms)
         /\ Len(i2a') <= QLen
         /\ \A i \in 1 .. Len(i2a) : i2a'[i] = i2a[i]
         /\ \A j \in 1 .. Room(ms) : i2a'[Len(i2a) + j] = ms[j]
         /\ Room(ms) = 0 => i2a' = i2a
<1>1. Room(ms) \in 0 .. Len(ms) /\ Len(i2a) + Room(ms) <= QLen
  BY RTKitAssumption DEF Room
<1> DEFINE r == Room(ms)
           t == SubSeq(ms, 1, r)
<1>2. t \in Seq(S) /\ Len(t) = r /\ \A j \in 1 .. r : t[j] = ms[j]
  <2>1. r \in Int /\ 1 \in Int /\ \A i \in 1 .. r : ms[i] \in S
    BY <1>1
  <2> HIDE DEF r
  <2>2. /\ SubSeq(ms, 1, r) \in Seq(S)
        /\ Len(SubSeq(ms, 1, r)) = IF 1 <= r THEN r - 1 + 1 ELSE 0
        /\ \A i \in 1 .. r - 1 + 1 : SubSeq(ms, 1, r)[i] = ms[1 + i - 1]
    BY <2>1, SubSeqProperties
  <2>3. r \in 0 .. Len(ms)
    BY <1>1 DEF r
  <2> QED BY <2>2, <2>3
<1>3. i2a' = i2a \o t
  BY DEF Send
<1> HIDE DEF t
<1>4. /\ i2a \o t \in Seq(S)
      /\ Len(i2a \o t) = Len(i2a) + Len(t)
      /\ \A i \in 1 .. Len(i2a) + Len(t) :
           (i2a \o t)[i] = IF i <= Len(i2a) THEN i2a[i] ELSE t[i - Len(i2a)]
  BY <1>2, ConcatProperties
<1>5. Len(i2a) \in Nat
  OBVIOUS
<1>6. \A i \in 1 .. Len(i2a) : i2a'[i] = i2a[i]
  BY <1>1, <1>2, <1>3, <1>4, <1>5
<1>7. \A j \in 1 .. r : i2a'[Len(i2a) + j] = ms[j]
  <2> SUFFICES ASSUME NEW j \in 1 .. r
               PROVE  i2a'[Len(i2a) + j] = ms[j]
    OBVIOUS
  <2>1. Len(i2a) + j \in 1 .. Len(i2a) + Len(t) /\ ~(Len(i2a) + j <= Len(i2a))
    BY <1>1, <1>2, <1>5
  <2>2. (i2a \o t)[Len(i2a) + j] = t[Len(i2a) + j - Len(i2a)]
    BY <1>4, <2>1
  <2>3. Len(i2a) + j - Len(i2a) = j
    BY <1>1, <1>5
  <2> QED BY <1>2, <1>3, <2>2, <2>3
<1>8. r = 0 => i2a' = i2a
  <2> SUFFICES ASSUME r = 0
               PROVE  i2a' = i2a
    OBVIOUS
  <2>1. t = <<>>
    BY <1>2
  <2> QED BY <1>3, <2>1, ConcatEmptySeq
<1> QED BY <1>1, <1>2, <1>3, <1>4, <1>6, <1>7, <1>8

(* The line goes up if anything was queued, and never down.                *)
LEMMA SendRaises ==
  ASSUME AicTypeOK, NEW ms, Send(ms)
  PROVE  /\ AicTypeOK'
         /\ pending \subseteq pending'
         /\ Room(ms) # 0 /\ Wired => Irq \in pending'
<1>1. CASE Room(ms) = 0 \/ ~Wired
  BY <1>1 DEF Send, UpdateIrq, aicVars, AicTypeOK
<1>2. CASE Room(ms) # 0 /\ Wired
  BY <1>2, RTKitAssumption DEF Send, UpdateIrq, AicSetIrq, AicUpdate, AicTypeOK
<1> QED BY <1>1, <1>2

-----------------------------------------------------------------------------

(* Endpoints are below 64, so a map has one or two chunks.                 *)
LEMMA LastBaseIsHighest ==
  /\ LastBase \in Nat
  /\ \A e \in Present : e \in Nat /\ e \div CHUNK \in 0 .. LastBase
<1>1. \A e \in Present : e \in 1 .. 63 /\ e \div CHUNK \in 0 .. 1
  BY RTKitAssumption DEF Present, CHUNK, RTKIT_MAX_ENDPOINTS
<1>2. Bases \subseteq 0 .. 1 /\ 0 \in Bases
  BY <1>1 DEF Bases
<1>3. \E b \in Bases : \A c \in Bases : c <= b
  <2>1. CASE 1 \in Bases
    BY <1>2, <2>1
  <2>2. CASE 1 \notin Bases
    BY <1>2, <2>2
  <2> QED BY <2>1, <2>2
<1>4. LastBase \in Bases /\ \A c \in Bases : c <= LastBase
  BY <1>3 DEF LastBase
<1> QED BY <1>1, <1>2, <1>4 DEF Bases

EndpointsOf(b) == {p \in Present : p \div CHUNK = b}

(* The guest's decoding of a chunk gives back the endpoints it stands for. *)
LEMMA ChunkDecodes ==
  ASSUME NEW b \in 0 .. LastBase
  PROVE  {CHUNK * EpmapChunk(b).base + x : x \in EpmapChunk(b).bitmap}
           = EndpointsOf(b)
<1>1. EpmapChunk(b).base = b /\ b \in Nat
  BY LastBaseIsHighest DEF EpmapChunk
<1>2. EpmapChunk(b).bitmap = {e % CHUNK : e \in EndpointsOf(b)}
  BY DEF EpmapChunk, EndpointsOf
<1>3. \A e \in EndpointsOf(b) : CHUNK * b + (e % CHUNK) = e
  BY <1>1, LastBaseIsHighest DEF EndpointsOf, CHUNK
<1> QED BY <1>1, <1>2, <1>3

LEMMA EpmapIsSeq ==
  /\ Epmap \in Seq(I2AMessages)
  /\ Len(Epmap) = LastBase + 1
  /\ \A i \in 1 .. LastBase + 1 : Epmap[i] = On(MGMT_EP, EpmapChunk(i - 1))
<1>1. \A i \in 1 .. LastBase + 1 : On(MGMT_EP, EpmapChunk(i - 1)) \in I2AMessages
  BY LastBaseIsHighest DEF I2AMessages
<1> QED BY <1>1, LastBaseIsHighest, IsASeq DEF Epmap

(* Every message of the coprocessor is one of three kinds, on endpoint 0.  *)
LEMMA I2AKinds ==
  ASSUME NEW m \in I2AMessages
  PROVE  /\ m.ep = MGMT_EP
         /\ \/ m.msg = Hello /\ m.msg.type = "HELLO"
            \/ /\ m.msg.type = "EPMAP"
               /\ \E b \in 0 .. LastBase : m.msg = EpmapChunk(b)
            \/ m.msg.type \in {"IOP_PWR_ACK", "AP_PWR"}
<1>1. CASE m = On(MGMT_EP, Hello)
  BY <1>1 DEF On, Hello
<1>2. ASSUME NEW b \in 0 .. LastBase, m = On(MGMT_EP, EpmapChunk(b))
      PROVE  m.ep = MGMT_EP /\ m.msg = EpmapChunk(b) /\ m.msg.type = "EPMAP"
  <2>1. m.ep = MGMT_EP /\ m.msg = EpmapChunk(b)
    BY <1>2 DEF On
  <2>2. EpmapChunk(b).type = "EPMAP"
    BY DEF EpmapChunk
  <2> QED BY <2>1, <2>2
<1>3. ASSUME NEW t \in {"IOP_PWR_ACK", "AP_PWR"}, m = On(MGMT_EP, Pwr(t))
      PROVE  m.ep = MGMT_EP /\ m.msg.type = t
  BY <1>3 DEF On, Pwr
<1> QED BY <1>1, <1>2, <1>3 DEF I2AMessages

(* Every message of the guest is one of five kinds.                        *)
LEMMA A2IKinds ==
  ASSUME NEW o \in A2IMessages
  PROVE  \/ o.ep = MGMT_EP /\ o.msg.type = "HELLO_REPLY" /\ o.msg.minver \in RTKIT_VER
         \/ o.ep = MGMT_EP /\ o.msg.type = "EPMAP"
         \/ o.ep = MGMT_EP /\ o.msg.type = "STARTEP" /\ o.msg.ep \in Present
         \/ o.ep = MGMT_EP /\ o.msg.type \in {"IOP_PWR", "AP_PWR"}
         \/ /\ o.ep \in LogEps /\ o.ep # MGMT_EP
            /\ o.msg.type = "BUFFER_REQUEST" /\ o.msg.iova = o.ep
<1>1. ASSUME NEW v \in RTKIT_VER, o = On(MGMT_EP, HelloReply(v))
      PROVE  o.ep = MGMT_EP /\ o.msg.type = "HELLO_REPLY" /\ o.msg.minver = v
  BY <1>1 DEF On, HelloReply
<1>2. ASSUME NEW b \in 0 .. LastBase, o = On(MGMT_EP, EpmapAck(b))
      PROVE  o.ep = MGMT_EP /\ o.msg.type = "EPMAP"
  BY <1>2 DEF On, EpmapAck
<1>3. ASSUME NEW e \in Present, o = On(MGMT_EP, StartEp(e))
      PROVE  o.ep = MGMT_EP /\ o.msg.type = "STARTEP" /\ o.msg.ep = e
  BY <1>3 DEF On, StartEp
<1>4. ASSUME NEW t \in {"IOP_PWR", "AP_PWR"}, o = On(MGMT_EP, Pwr(t))
      PROVE  o.ep = MGMT_EP /\ o.msg.type = t
  BY <1>4 DEF On, Pwr
<1>5. ASSUME NEW e \in LogEps, o = On(e, BufferAt(e))
      PROVE  o.ep = e /\ o.msg.type = "BUFFER_REQUEST" /\ o.msg.iova = e
  BY <1>5 DEF On, BufferAt
<1>6. MGMT_EP \notin LogEps
  BY RTKitAssumption DEF MGMT_EP
<1> QED BY <1>1, <1>2, <1>3, <1>4, <1>5, <1>6
        DEF A2IMessages, GuestReplies, GuestRequests

(* handle_mgmt answers with messages of the three kinds only.              *)
LEMMA RepliesAreMessages ==
  ASSUME NEW o \in A2IMessages \cup {NoSend}
  PROVE  /\ MgmtReplies(o.msg) \in Seq(I2AMessages)
         /\ \/ o.msg.type = "HELLO_REPLY" /\ MgmtReplies(o.msg) = Epmap
            \/ /\ o.msg.type # "HELLO_REPLY"
               /\ \A i \in 1 .. Len(MgmtReplies(o.msg)) :
                    MgmtReplies(o.msg)[i].msg.type \in {"IOP_PWR_ACK", "AP_PWR"}
<1> DEFINE m == o.msg
<1>1. CASE m.type = "HELLO_REPLY"
  <2>1. MgmtReplies(m) = Epmap
    BY <1>1 DEF MgmtReplies
  <2> QED BY <1>1, <2>1, EpmapIsSeq
<1>2. CASE m.type = "IOP_PWR"
  <2>1. MgmtReplies(m) = <<On(MGMT_EP, Pwr("IOP_PWR_ACK"))>>
    BY <1>2 DEF MgmtReplies
  <2>2. /\ On(MGMT_EP, Pwr("IOP_PWR_ACK")) \in I2AMessages
        /\ On(MGMT_EP, Pwr("IOP_PWR_ACK")).msg.type = "IOP_PWR_ACK"
    BY DEF I2AMessages, On, Pwr
  <2> QED BY <1>2, <2>1, <2>2
<1>3. CASE m.type = "AP_PWR"
  <2>1. MgmtReplies(m) = <<On(MGMT_EP, Pwr("AP_PWR"))>>
    BY <1>3 DEF MgmtReplies
  <2>2. /\ On(MGMT_EP, Pwr("AP_PWR")) \in I2AMessages
        /\ On(MGMT_EP, Pwr("AP_PWR")).msg.type = "AP_PWR"
    BY DEF I2AMessages, On, Pwr
  <2> QED BY <1>3, <2>1, <2>2
<1>4. CASE m.type \notin {"HELLO_REPLY", "IOP_PWR", "AP_PWR"}
  <2>1. MgmtReplies(m) = <<>>
    BY <1>4 DEF MgmtReplies
  <2> QED BY <1>4, <2>1
<1> QED BY <1>1, <1>2, <1>3, <1>4

(* To the queue, the controller's pending bits and the interrupt routine a *)
(* step does one of these: nothing, a send, or a step of the routine.      *)
LEMMA QueueSteps ==
  ASSUME TypeOK, [Next]_vars
  PROVE  \/ UNCHANGED <<i2a, pending, isr, held>>
         \/ \E ms \in Seq(I2AMessages) : Send(ms) /\ UNCHANGED isrVars
         \/ InterruptRoutine
<1>1. CASE StageReply \/ (\E e \in mapped : StageStartEp(e) \/ StageBuffer(e))
           \/ (\E t \in {"IOP_PWR", "AP_PWR"} : StagePing(t))
  BY <1>1 DEF StageReply, StageStartEp, StageBuffer, StagePing, Stage, A2ISend0,
              aicVars, isrVars
<1>2. Boot /\ UNCHANGED isrVars =>
        \/ UNCHANGED <<i2a, pending, isr, held>>
        \/ \E ms \in Seq(I2AMessages) : Send(ms) /\ UNCHANGED isrVars
  <2>1. <<On(MGMT_EP, Hello)>> \in Seq(I2AMessages)
    BY DEF I2AMessages
  <2> QED BY <2>1 DEF Boot, SendNothing, aicVars, isrVars
<1>3. CASE \E run \in BOOLEAN : RunIop(run)
  BY <1>2, <1>3 DEF RunIop, CpuControlWrite, SendNothing, aicVars, isrVars
<1>4. CASE Announce
  BY <1>2, <1>4 DEF Announce, AnnounceTimer
<1>5. CASE \E on \in AicConfigs : ConfigureAic(on)
  BY <1>5 DEF ConfigureAic, AicWriteGlbcfg, AicUpdate, rtkitVars, isrVars
<1>6. CASE Commit
  <2>1. CASE HandleMgmt(a2i_msg)
    <3>1. MgmtReplies(a2i_msg) \in Seq(I2AMessages)
      BY RepliesAreMessages DEF TypeOK
    <3> QED BY <1>6, <2>1, <3>1 DEF Commit, HandleMgmt
  <2>2. CASE SendNothing
    BY <1>6, <2>2 DEF Commit, SendNothing, aicVars, isrVars
  <2> QED BY <1>6, <2>1, <2>2 DEF Commit, A2ISend1, HandleLog
<1>7. CASE UNCHANGED vars
  BY <1>7 DEF vars, rtkitVars, aicVars, isrVars
<1> QED BY <1>1, <1>3, <1>4, <1>5, <1>6, <1>7 DEF Next, Sender

-----------------------------------------------------------------------------
(* What a step of the engine preserves of the types of its own variables.  *)
LEMMA BootKeepsTypes ==
  ASSUME TypeOK, Boot
  PROVE  /\ AicTypeOK'
         /\ i2a' \in Seq(I2AMessages) /\ Len(i2a') <= QLen
         /\ running' \in BOOLEAN /\ hello_sent' \in BOOLEAN
<1>1. CASE hello_sent
  BY <1>1 DEF Boot, SendNothing, TypeOK, AicTypeOK, aicVars
<1>2. CASE ~hello_sent
  <2>1. Send(<<On(MGMT_EP, Hello)>>) /\ hello_sent' = TRUE /\ running' = TRUE
    BY <1>2 DEF Boot
  <2>2. <<On(MGMT_EP, Hello)>> \in Seq(I2AMessages)
    BY DEF I2AMessages
  <2> QED BY <2>1, <2>2, SendAppends, SendRaises DEF TypeOK
<1> QED BY <1>1, <1>2

LEMMA CommitKeepsTypes ==
  ASSUME TypeOK, Commit
  PROVE  TypeOK'
<1>1. PICK o \in A2IMessages \cup {NoSend} : a2i_msg = o.msg
  BY DEF TypeOK
<1>2. /\ AicTypeOK'
      /\ i2a' \in Seq(I2AMessages) /\ Len(i2a') <= QLen
  <2>1. CASE HandleMgmt(a2i_msg)
    <3>1. MgmtReplies(a2i_msg) \in Seq(I2AMessages) /\ Send(MgmtReplies(a2i_msg))
      BY <1>1, <2>1, RepliesAreMessages DEF HandleMgmt
    <3> QED BY <3>1, SendAppends, SendRaises DEF TypeOK
  <2>2. CASE SendNothing
    BY <2>2 DEF SendNothing, TypeOK, AicTypeOK, aicVars
  <2> QED BY <2>1, <2>2 DEF Commit, A2ISend1, HandleLog
<1>3. /\ version' \in RTKIT_VER \cup {0} /\ started' \subseteq Present
      /\ bufs' \in Seq(LogEps) /\ Len(bufs') <= NBufs
  <2>1. CASE HandleMgmt(a2i_msg)
    <3>1. o.msg.type = "HELLO_REPLY" => o.msg.minver \in RTKIT_VER
      BY A2IKinds DEF NoSend, On, NoMsg
    <3> QED BY <1>1, <2>1, <3>1 DEF HandleMgmt, TypeOK
  <2>2. CASE HandleLog(a2i_msg)
    <3>1. a2i_msg.type = "BUFFER_REQUEST" => a2i_msg.iova \in LogEps
      BY <1>1, A2IKinds DEF NoSend, On, NoMsg
    <3>2. Len(bufs) < NBufs /\ a2i_msg.iova \in LogEps
            => /\ Append(bufs, a2i_msg.iova) \in Seq(LogEps)
               /\ Len(Append(bufs, a2i_msg.iova)) <= NBufs
      BY RTKitAssumption, AppendProperties DEF TypeOK
    <3> QED BY <2>2, <3>1, <3>2 DEF HandleLog, TypeOK
  <2>3. CASE UNCHANGED <<version, started, bufs>>
    BY <2>3 DEF TypeOK
  <2> QED BY <2>1, <2>2, <2>3 DEF Commit, A2ISend1
<1>4. /\ UNCHANGED <<a2i_msg, cpu_run, running, hello_sent, announce, isrVars,
                      driverVars, replies, asked, handed, pings>>
      /\ out' = NoSend
  BY DEF Commit, A2ISend1
<1> QED BY <1>2, <1>3, <1>4 DEF TypeOK, isrVars, driverVars

LEMMA RecvKeepsTypes ==
  ASSUME TypeOK, ReadRecv1
  PROVE  TypeOK'
<1>1. i2a' \in Seq(I2AMessages) /\ Len(i2a') <= QLen
  <2>1. i2a # <<>> /\ i2a' = Tail(i2a)
    BY DEF ReadRecv1, I2ARecv1
  <2> QED BY <2>1, RTKitAssumption, HeadTailProperties DEF TypeOK
<1>2. AicTypeOK'
  BY RTKitAssumption
  DEF ReadRecv1, I2ARecv1, UpdateIrq, AicSetIrq, AicUpdate, AicTypeOK, aicVars,
      TypeOK
<1>3. /\ replies' \in Seq(GuestReplies) /\ hello_seen' \in Nat
      /\ mapped' \subseteq Present /\ map_done' \in BOOLEAN
  <2>1. CASE held.type = "HELLO" /\ GotMgmt(held)
    <3>1. PICK v \in RTKIT_VER : replies' = Append(replies, On(MGMT_EP, HelloReply(v)))
      BY <2>1 DEF GotMgmt
    <3>2. On(MGMT_EP, HelloReply(v)) \in GuestReplies
      BY DEF GuestReplies
    <3>3. replies' \in Seq(GuestReplies)
      BY <3>1, <3>2, AppendProperties DEF TypeOK
    <3> QED BY <2>1, <3>3 DEF GotMgmt, TypeOK
  <2>2. CASE held.type = "EPMAP" /\ GotMgmt(held)
    <3>1. PICK b \in 0 .. LastBase : held = EpmapChunk(b)
      BY <2>2, I2AKinds, SMTT(60) DEF TypeOK, NoMsg, Hello
    <3>2. mapped' = mapped \cup EndpointsOf(b) /\ held.base = b
      <4>1. mapped' = mapped \cup {CHUNK * held.base + x : x \in held.bitmap}
        BY <2>2 DEF GotMgmt
      <4>2. {CHUNK * held.base + x : x \in held.bitmap} = EndpointsOf(b)
        BY <3>1, ChunkDecodes
      <4>3. held.base = b
        BY <3>1 DEF EpmapChunk
      <4> QED BY <4>1, <4>2, <4>3
    <3>3. On(MGMT_EP, EpmapAck(b)) \in GuestReplies
      BY DEF GuestReplies
    <3>4. replies' = Append(replies, On(MGMT_EP, EpmapAck(b)))
      BY <2>2, <3>2 DEF GotMgmt
    <3>5. replies' \in Seq(GuestReplies)
      BY <3>3, <3>4, AppendProperties DEF TypeOK
    <3>6. held.last \in BOOLEAN
      BY <3>1 DEF EpmapChunk
    <3>7. map_done' \in BOOLEAN /\ hello_seen' = hello_seen
      BY <2>2, <3>6 DEF GotMgmt, TypeOK
    <3> QED BY <3>2, <3>5, <3>7 DEF TypeOK, EndpointsOf
  <2>3. CASE UNCHANGED <<driverVars, replies>>
    BY <2>3 DEF TypeOK, driverVars
  <2> QED BY <2>1, <2>2, <2>3 DEF ReadRecv1, GotMgmt
<1>4. /\ isr' \in {"idle", "iack", "control", "recv0", "recv1"}
      /\ held' = NoMsg
      /\ UNCHANGED <<out, asked, handed, pings, a2i_msg, cpu_run, running,
                     hello_sent, version, started, bufs, announce>>
  BY DEF ReadRecv1, I2ARecv1
<1> QED BY <1>1, <1>2, <1>3, <1>4 DEF TypeOK

(* Staging a message is the only thing the sender does besides Commit.     *)
LEMMA StageKeepsTypes ==
  ASSUME TypeOK,
         \/ StageReply
         \/ \E e \in mapped : StageStartEp(e) \/ StageBuffer(e)
         \/ \E t \in {"IOP_PWR", "AP_PWR"} : StagePing(t)
  PROVE  TypeOK'
<1>1. ASSUME NEW o \in A2IMessages, Stage(o)
      PROVE  /\ a2i_msg' \in {x.msg : x \in A2IMessages \cup {NoSend}}
             /\ out' \in A2IMessages
             /\ UNCHANGED <<i2a, cpu_run, running, hello_sent, version, started,
                            bufs, announce, pending, enabled, cpu_irq, isr, held,
                            hello_seen, mapped, map_done>>
  BY <1>1 DEF Stage, A2ISend0, aicVars, isrVars, driverVars
<1>2. CASE StageReply
  <2>1. Head(replies) \in GuestReplies /\ Tail(replies) \in Seq(GuestReplies)
    BY <1>2, HeadTailProperties DEF StageReply, TypeOK
  <2>2. Stage(Head(replies)) /\ Head(replies) \in A2IMessages
    BY <1>2, <2>1 DEF StageReply, A2IMessages
  <2> QED BY <1>1, <1>2, <2>1, <2>2 DEF StageReply, TypeOK, AicTypeOK
<1>3. ASSUME NEW e \in mapped, StageStartEp(e)
      PROVE  TypeOK'
  <2>1. On(MGMT_EP, StartEp(e)) \in A2IMessages /\ e \in Present
    BY DEF A2IMessages, GuestRequests, TypeOK
  <2> QED BY <1>1, <1>3, <2>1 DEF StageStartEp, TypeOK, AicTypeOK
<1>4. ASSUME NEW e \in mapped, StageBuffer(e)
      PROVE  TypeOK'
  <2>1. On(e, BufferAt(e)) \in A2IMessages /\ e \in LogEps
    BY <1>4 DEF A2IMessages, GuestRequests, StageBuffer
  <2> QED BY <1>1, <1>4, <2>1 DEF StageBuffer, TypeOK, AicTypeOK
<1>5. ASSUME NEW t \in {"IOP_PWR", "AP_PWR"}, StagePing(t)
      PROVE  TypeOK'
  <2>1. On(MGMT_EP, Pwr(t)) \in A2IMessages
    BY DEF A2IMessages, GuestRequests
  <2>2. pings' \in 0 .. MaxPings
    BY <1>5, SystemAssumption DEF StagePing, TypeOK
  <2> QED BY <1>1, <1>5, <2>1, <2>2 DEF StagePing, TypeOK, AicTypeOK
<1> QED BY <1>2, <1>3, <1>4, <1>5

(* The types of the engine, the controller and the guest hold for every    *)
(* set of endpoints, ring size and buffer table size.                      *)
THEOREM TypeCorrect == Spec => []TypeOK
<1>1. Init => TypeOK
  <2> SUFFICES ASSUME Init
               PROVE  TypeOK
    OBVIOUS
  <2>1. AicTypeOK
    BY DEF Init, AicInit, AicTypeOK
  <2>2. NoSend.msg = NoMsg
    BY DEF NoSend, On
  <2>3. i2a \in Seq(I2AMessages) /\ Len(i2a) <= QLen
    BY RTKitAssumption DEF Init, RTKitInit
  <2>4. bufs \in Seq(LogEps) /\ Len(bufs) <= NBufs
    BY RTKitAssumption DEF Init, RTKitInit
  <2>5. replies \in Seq(GuestReplies)
    BY DEF Init
  <2>6. a2i_msg \in {o.msg : o \in A2IMessages \cup {NoSend}}
    <3>1. a2i_msg = NoSend.msg /\ NoSend \in A2IMessages \cup {NoSend}
      BY <2>2 DEF Init, RTKitInit
    <3> QED BY <3>1
  <2>7. pings \in 0 .. MaxPings /\ hello_seen \in Nat
    BY SystemAssumption DEF Init
  <2> QED BY <2>1, <2>3, <2>4, <2>5, <2>6, <2>7
          DEF Init, RTKitInit, TypeOK
<1>2. TypeOK /\ [Next]_vars => TypeOK'
  <2> SUFFICES ASSUME TypeOK, [Next]_vars
               PROVE  TypeOK'
    OBVIOUS
  <2>1. CASE TakeIrq
    BY <2>1 DEF TakeIrq, rtkitVars, aicVars, driverVars, senderVars, TypeOK, AicTypeOK
  <2>2. CASE ReadIack
    <3>1. AicTypeOK'
      BY <2>2 DEF ReadIack, AicIack, AicUpdate, aicVars, TypeOK, AicTypeOK
    <3> QED BY <2>2, <3>1 DEF ReadIack, rtkitVars, driverVars, senderVars, TypeOK
  <2>3. CASE ReadControl
    BY <2>3 DEF ReadControl, rtkitVars, aicVars, driverVars, senderVars, TypeOK,
                AicTypeOK
  <2>4. CASE ReadRecv0
    <3>1. held' \in {o.msg : o \in I2AMessages} \cup {NoMsg}
      <4>1. i2a # <<>> => Head(i2a) \in I2AMessages
        BY HeadTailProperties DEF TypeOK
      <4> QED BY <2>4, <4>1 DEF ReadRecv0
    <3> QED BY <2>4, <3>1 DEF ReadRecv0, rtkitVars, aicVars, driverVars, senderVars,
                              TypeOK, AicTypeOK
  <2>5. CASE ReadRecv1
    BY <2>5, RecvKeepsTypes
  <2>6. CASE StageReply \/ (\E e \in mapped : StageStartEp(e) \/ StageBuffer(e))
             \/ (\E t \in {"IOP_PWR", "AP_PWR"} : StagePing(t))
    BY <2>6, StageKeepsTypes
  <2>7. CASE Commit
    BY <2>7, CommitKeepsTypes
  <2>8. ASSUME NEW run \in BOOLEAN, RunIop(run)
        PROVE  TypeOK'
    <3>1. CASE Boot
      BY <2>8, <3>1, BootKeepsTypes
      DEF RunIop, CpuControlWrite, isrVars, driverVars, senderVars, TypeOK
    <3>2. CASE SendNothing /\ UNCHANGED <<hello_sent, running>>
      BY <2>8, <3>2
      DEF RunIop, CpuControlWrite, SendNothing, aicVars, isrVars, driverVars,
          senderVars, TypeOK, AicTypeOK
    <3> QED BY <2>8, <3>1, <3>2 DEF RunIop, CpuControlWrite
  <2>9. ASSUME NEW on \in AicConfigs, ConfigureAic(on)
        PROVE  TypeOK'
    <3>1. on \in BOOLEAN
      BY SystemAssumption
    <3> QED BY <2>9, <3>1
            DEF ConfigureAic, AicWriteGlbcfg, AicUpdate, rtkitVars, isrVars,
                driverVars, senderVars, TypeOK, AicTypeOK
  <2>10. CASE Announce
    BY <2>10, BootKeepsTypes
    DEF Announce, AnnounceTimer, isrVars, driverVars, senderVars, TypeOK
  <2>11. CASE UNCHANGED vars
    BY <2>11 DEF vars, rtkitVars, aicVars, isrVars, driverVars, senderVars, TypeOK,
                 AicTypeOK
  <2> QED BY <2>1, <2>2, <2>3, <2>4, <2>5, <2>6, <2>7, <2>8, <2>9, <2>10, <2>11
          DEF Next, InterruptRoutine, Sender
<1> QED BY <1>1, <1>2, PTL DEF Spec
-----------------------------------------------------------------------------
(* Delivery.  Neither NoLostInterrupt nor NoTornReceive is inductive: that *)
(* the routine finds at RECV0 the message CONTROL announced rests on       *)
(* nobody else popping the queue.                                          *)
DeliveryInv == /\ NoLostInterrupt
               /\ NoTornReceive
               /\ isr = "recv0" => i2a # <<>>

LEMMA SendKeepsDelivery ==
  ASSUME TypeOK, DeliveryInv,
         NEW ms \in Seq(I2AMessages), Send(ms), UNCHANGED isrVars
  PROVE  DeliveryInv'
<1>1. /\ i2a' \in Seq(I2AMessages)
      /\ Len(i2a') = Len(i2a) + Room(ms) /\ Room(ms) \in Nat
      /\ \A i \in 1 .. Len(i2a) : i2a'[i] = i2a[i]
      /\ Room(ms) = 0 => i2a' = i2a
  BY SendAppends DEF TypeOK
<1>2. pending \subseteq pending' /\ (Room(ms) # 0 /\ Wired => Irq \in pending')
  BY SendRaises DEF TypeOK
<1>3. i2a # <<>> => i2a' # <<>> /\ Head(i2a') = Head(i2a)
  <2> SUFFICES ASSUME i2a # <<>>
               PROVE  i2a' # <<>> /\ Head(i2a') = Head(i2a)
    OBVIOUS
  <2>1. i2a \in Seq(I2AMessages) /\ Len(i2a) \in Nat \ {0}
    BY EmptySeq DEF TypeOK
  <2>2. Len(i2a') >= 1 /\ i2a'[1] = i2a[1]
    BY <1>1, <2>1
  <2> QED BY <1>1, <2>1, <2>2
<1> QED BY <1>1, <1>2, <1>3 DEF DeliveryInv, NoLostInterrupt, NoTornReceive, isrVars

(* No interrupt is lost and no message is torn, for every endpoint set,    *)
(* ring size and interleaving of the guest's threads with the timer.       *)
THEOREM DeliveryCorrect == Spec => [](NoLostInterrupt /\ NoTornReceive)
<1>1. Init => DeliveryInv
  BY DEF Init, RTKitInit, DeliveryInv, NoLostInterrupt, NoTornReceive
<1>2. TypeOK /\ DeliveryInv /\ [Next]_vars => DeliveryInv'
  <2> SUFFICES ASSUME TypeOK, DeliveryInv, [Next]_vars
               PROVE  DeliveryInv'
    OBVIOUS
  <2>1. CASE UNCHANGED <<i2a, pending, isr, held>>
    BY <2>1 DEF DeliveryInv, NoLostInterrupt, NoTornReceive
  <2>2. CASE \E ms \in Seq(I2AMessages) : Send(ms) /\ UNCHANGED isrVars
    BY <2>2, SendKeepsDelivery
  <2>3. CASE TakeIrq
    BY <2>3 DEF TakeIrq, rtkitVars, aicVars, DeliveryInv, NoLostInterrupt,
                NoTornReceive
  <2>4. CASE ReadIack
    BY <2>4 DEF ReadIack, AicIack, AicUpdate, rtkitVars, aicVars, DeliveryInv,
                NoLostInterrupt, NoTornReceive
  <2>5. CASE ReadControl
    BY <2>5 DEF ReadControl, rtkitVars, aicVars, DeliveryInv, NoLostInterrupt,
                NoTornReceive
  <2>6. CASE ReadRecv0
    BY <2>6 DEF ReadRecv0, rtkitVars, aicVars, DeliveryInv, NoLostInterrupt,
                NoTornReceive
  <2>7. CASE ReadRecv1
    <3>1. Wired /\ i2a' # <<>> => Irq \in pending'
      BY <2>7 DEF ReadRecv1, I2ARecv1, UpdateIrq, AicSetIrq, AicUpdate
    <3> QED BY <2>7, <3>1 DEF ReadRecv1, DeliveryInv, NoLostInterrupt, NoTornReceive
  <2> QED BY <2>1, <2>2, <2>3, <2>4, <2>5, <2>6, <2>7, QueueSteps
          DEF InterruptRoutine
<1>3. DeliveryInv => NoLostInterrupt /\ NoTornReceive
  BY DEF DeliveryInv
<1> QED BY <1>1, <1>2, <1>3, TypeCorrect, PTL DEF Spec

(* The half of it about the two registers of a message: the word a routine *)
(* holds when it comes to RECV1 is still that of the ring's head, whatever *)
(* the timer queued or found no room for since it read RECV0.              *)
THEOREM ReceivePaired == Spec => []NoTornReceive
BY DeliveryCorrect, PTL
-----------------------------------------------------------------------------
(* The handshake.  What makes an EPMAP in the ring trustworthy: it was     *)
(* asked for after HELLO arrived, and a chunk marked LAST has every lower  *)
(* chunk ahead of it or already received.                                  *)
AfterHello ==
  /\ \A i \in 1 .. Len(i2a) : i2a[i].msg.type = "EPMAP" => hello_seen > 0
  /\ replies # <<>> \/ out # NoSend \/ mapped # {} \/ map_done => hello_seen > 0

ChunksInOrder ==
  \A i \in 1 .. Len(i2a) : i2a[i].msg = EpmapChunk(LastBase) =>
    \A b \in 0 .. LastBase - 1 :
      \/ EndpointsOf(b) \subseteq mapped
      \/ \E j \in 1 .. i - 1 : i2a[j].msg = EpmapChunk(b)

StagedIsSent ==
  /\ out # NoSend => a2i_msg = out.msg
  /\ out.msg.type = "STARTEP" => map_done /\ out.msg.ep \in mapped

HandshakeInv == AfterHello /\ ChunksInOrder /\ StagedIsSent

LEMMA ChunkFacts ==
  /\ \A b \in 0 .. LastBase : /\ EpmapChunk(b).type = "EPMAP"
                              /\ EpmapChunk(b).base = b
                              /\ EpmapChunk(b).last = (b = LastBase)
  /\ \A m \in I2AMessages :
       m.msg.type \notin {"HELLO", "EPMAP"} \/ m.msg = Hello => m.msg.type # "EPMAP"
  /\ \A b, c \in 0 .. LastBase : EpmapChunk(b) = EpmapChunk(c) => b = c
<1>1. \A b \in 0 .. LastBase : /\ EpmapChunk(b).type = "EPMAP"
                               /\ EpmapChunk(b).base = b
                               /\ EpmapChunk(b).last = (b = LastBase)
  BY DEF EpmapChunk
<1>2. Hello.type = "HELLO"
  BY DEF Hello
<1> QED BY <1>1, <1>2

(* A send leaves the order of the chunks alone: it appends nothing of the  *)
(* map, or as much of the whole map as there is room for, from the start.  *)
LEMMA SendKeepsChunks ==
  ASSUME TypeOK, ChunksInOrder, mapped' = mapped,
         NEW ms \in Seq(I2AMessages), Send(ms),
         \/ ms = Epmap
         \/ \A i \in 1 .. Len(ms) : ms[i].msg.type # "EPMAP"
  PROVE  ChunksInOrder'
<1> SUFFICES ASSUME NEW i \in 1 .. Len(i2a'), i2a'[i].msg = EpmapChunk(LastBase),
                    NEW b \in 0 .. LastBase - 1
             PROVE  \/ EndpointsOf(b) \subseteq mapped
                    \/ \E j \in 1 .. i - 1 : i2a'[j].msg = EpmapChunk(b)
  BY DEF ChunksInOrder
<1> DEFINE n == Len(i2a)
           r == Room(ms)
<1>1. /\ r \in 0 .. Len(ms) /\ n \in Nat /\ Len(i2a') = n + r
      /\ \A k \in 1 .. n : i2a'[k] = i2a[k]
      /\ \A k \in 1 .. r : i2a'[n + k] = ms[k]
  BY SendAppends DEF TypeOK
<1> HIDE DEF n, r
<1>2. CASE i <= n
  <2>1. i \in 1 .. n /\ i2a[i].msg = EpmapChunk(LastBase)
    BY <1>1, <1>2
  <2>2. \/ EndpointsOf(b) \subseteq mapped
        \/ \E j \in 1 .. i - 1 : i2a[j].msg = EpmapChunk(b)
    BY <2>1 DEF ChunksInOrder, n
  <2> QED BY <1>1, <2>1, <2>2
<1>3. CASE i > n
  <2>1. PICK k \in 1 .. r : i = n + k /\ i2a'[i] = ms[k]
    <3>1. i - n \in 1 .. r /\ i = n + (i - n)
      BY <1>1, <1>3
    <3> QED BY <1>1, <3>1
  <2>2. ms[k].msg.type = "EPMAP" /\ k \in 1 .. Len(ms)
    BY <1>1, <2>1, LastBaseIsHighest, ChunkFacts
  <2>3. ms = Epmap
    BY <2>2
  <2>4. k \in 1 .. LastBase + 1 /\ ms[k] = On(MGMT_EP, EpmapChunk(k - 1))
    BY <2>2, <2>3, EpmapIsSeq, LastBaseIsHighest
  <2>5. k = LastBase + 1
    <3>1. EpmapChunk(k - 1) = EpmapChunk(LastBase)
      BY <2>1, <2>4 DEF On
    <3> QED BY <2>4, <3>1, ChunkFacts, LastBaseIsHighest
  <2>6. n + (b + 1) \in 1 .. i - 1 /\ b + 1 \in 1 .. r /\ b + 1 \in 1 .. LastBase + 1
    BY <1>1, <2>1, <2>5, LastBaseIsHighest
  <2>7. i2a'[n + (b + 1)] = On(MGMT_EP, EpmapChunk(b))
    <3>1. i2a'[n + (b + 1)] = ms[b + 1]
      BY <1>1, <2>6
    <3>2. Epmap[b + 1] = On(MGMT_EP, EpmapChunk(b + 1 - 1)) /\ b + 1 - 1 = b
      BY <2>6, EpmapIsSeq
    <3> QED BY <2>3, <3>1, <3>2
  <2>8. i2a'[n + (b + 1)].msg = EpmapChunk(b)
    BY <2>7 DEF On
  <2> QED BY <2>6, <2>8
<1>4. i <= n \/ i > n
  BY <1>1
<1> QED BY <1>2, <1>3, <1>4

(* A received chunk leaves the ring and its endpoints enter mapped.        *)
LEMMA RecvKeepsChunks ==
  ASSUME TypeOK, NoTornReceive, ChunksInOrder, ReadRecv1
  PROVE  ChunksInOrder'
<1>1. /\ i2a # <<>> /\ i2a' = Tail(i2a) /\ Head(i2a) = i2a[1]
      /\ Head(i2a).msg = held /\ Head(i2a) \in I2AMessages
  BY HeadTailProperties DEF ReadRecv1, I2ARecv1, NoTornReceive, TypeOK
<1>2. /\ Len(i2a) \in Nat \ {0} /\ Len(i2a') = Len(i2a) - 1
      /\ \A k \in 1 .. Len(i2a') : i2a'[k] = i2a[k + 1]
  BY <1>1, EmptySeq, HeadTailProperties DEF TypeOK
<1>3. mapped \subseteq mapped'
  BY DEF ReadRecv1, GotMgmt, driverVars
<1>4. ASSUME NEW b \in 0 .. LastBase, held = EpmapChunk(b)
      PROVE  mapped' = mapped \cup EndpointsOf(b)
  <2>1. held.type = "EPMAP" /\ Head(i2a).ep = MGMT_EP
    BY <1>1, <1>4, ChunkFacts, I2AKinds
  <2>2. mapped' = mapped \cup {CHUNK * held.base + x : x \in held.bitmap}
    BY <2>1 DEF ReadRecv1, GotMgmt
  <2> QED BY <1>4, <2>2, ChunkDecodes
<1> SUFFICES ASSUME NEW i \in 1 .. Len(i2a'), i2a'[i].msg = EpmapChunk(LastBase),
                    NEW b \in 0 .. LastBase - 1
             PROVE  \/ EndpointsOf(b) \subseteq mapped'
                    \/ \E j \in 1 .. i - 1 : i2a'[j].msg = EpmapChunk(b)
  BY DEF ChunksInOrder
<1>5. i + 1 \in 1 .. Len(i2a) /\ i2a[i + 1].msg = EpmapChunk(LastBase)
  BY <1>2
<1>6. CASE EndpointsOf(b) \subseteq mapped
  BY <1>3, <1>6
<1>7. ASSUME NEW j \in 1 .. i, i2a[j].msg = EpmapChunk(b)
      PROVE  \/ EndpointsOf(b) \subseteq mapped'
             \/ \E k \in 1 .. i - 1 : i2a'[k].msg = EpmapChunk(b)
  <2>1. CASE j = 1
    BY <1>1, <1>4, <1>7, <2>1, LastBaseIsHighest
  <2>2. CASE j # 1
    <3>1. j - 1 \in 1 .. i - 1 /\ j - 1 \in 1 .. Len(i2a') /\ (j - 1) + 1 = j
      BY <1>2, <2>2
    <3> QED BY <1>2, <1>7, <3>1
  <2> QED BY <2>1, <2>2
<1> QED BY <1>5, <1>6, <1>7 DEF ChunksInOrder

(* Where the map, the started endpoints and the staged message change.     *)
LEMMA HandshakeSteps ==
  ASSUME TypeOK, [Next]_vars
  PROVE  \/ Commit
         \/ ReadRecv1
         \/ UNCHANGED <<started, hello_seen, mapped, map_done>>
<1>1. CASE TakeIrq \/ ReadIack \/ ReadControl \/ ReadRecv0
  BY <1>1 DEF TakeIrq, ReadIack, ReadControl, ReadRecv0, rtkitVars, driverVars
<1>2. CASE StageReply \/ (\E e \in mapped : StageStartEp(e) \/ StageBuffer(e))
           \/ (\E t \in {"IOP_PWR", "AP_PWR"} : StagePing(t))
  BY <1>2 DEF StageReply, StageStartEp, StageBuffer, StagePing, Stage, A2ISend0,
              driverVars
<1>3. CASE (\E run \in BOOLEAN : RunIop(run)) \/ Announce
           \/ (\E on \in AicConfigs : ConfigureAic(on)) \/ UNCHANGED vars
  BY <1>3 DEF RunIop, CpuControlWrite, Announce, AnnounceTimer, ConfigureAic,
              rtkitVars, driverVars, vars
<1> QED BY <1>1, <1>2, <1>3 DEF Next, InterruptRoutine, Sender

(* An EPMAP enters the ring only once HELLO has been received.             *)
LEMMA SendKeepsAfterHello ==
  ASSUME TypeOK, AfterHello, UNCHANGED hello_seen,
         NEW ms \in Seq(I2AMessages), Send(ms),
         \/ hello_seen > 0
         \/ \A i \in 1 .. Len(ms) : ms[i].msg.type # "EPMAP"
  PROVE  \A i \in 1 .. Len(i2a') : i2a'[i].msg.type = "EPMAP" => hello_seen > 0
<1> SUFFICES ASSUME NEW i \in 1 .. Len(i2a'), i2a'[i].msg.type = "EPMAP",
                    ~(hello_seen > 0)
             PROVE  FALSE
  OBVIOUS
<1> DEFINE n == Len(i2a)
           r == Room(ms)
<1>1. /\ r \in 0 .. Len(ms) /\ n \in Nat /\ Len(i2a') = n + r
      /\ \A k \in 1 .. n : i2a'[k] = i2a[k]
      /\ \A k \in 1 .. r : i2a'[n + k] = ms[k]
  BY SendAppends DEF TypeOK
<1> HIDE DEF r
<1>2. CASE i <= n
  BY <1>1, <1>2 DEF AfterHello
<1> HIDE DEF n
<1>3. CASE i > n
  <2>1. i - n \in 1 .. r /\ i = n + (i - n) /\ i - n \in 1 .. Len(ms)
    BY <1>1, <1>3
  <2>2. i2a'[i] = ms[i - n]
    BY <1>1, <2>1
  <2> QED BY <2>1, <2>2
<1>4. i <= n \/ i > n
  BY <1>1
<1> QED BY <1>2, <1>3, <1>4

LEMMA BootKeepsHandshake ==
  ASSUME TypeOK, HandshakeInv, Boot,
         UNCHANGED <<a2i_msg, isrVars, driverVars, senderVars>>
  PROVE  HandshakeInv'
<1>1. CASE hello_sent
  BY <1>1 DEF Boot, SendNothing, HandshakeInv, AfterHello, ChunksInOrder,
              StagedIsSent, driverVars, senderVars
<1>2. CASE ~hello_sent
  <2> DEFINE ms == <<On(MGMT_EP, Hello)>>
  <2>1. Send(ms) /\ ms \in Seq(I2AMessages)
    BY <1>2 DEF Boot, I2AMessages
  <2>2. \A k \in 1 .. Len(ms) : ms[k].msg.type # "EPMAP"
    BY DEF On, Hello
  <2> HIDE DEF ms
  <2>3. ChunksInOrder'
    BY <2>1, <2>2, SendKeepsChunks DEF HandshakeInv, driverVars
  <2>4. \A i \in 1 .. Len(i2a') : i2a'[i].msg.type = "EPMAP" => hello_seen > 0
    BY <2>1, <2>2, SendKeepsAfterHello DEF HandshakeInv, driverVars
  <2> QED BY <2>3, <2>4 DEF HandshakeInv, AfterHello, StagedIsSent, driverVars,
                            senderVars
<1> QED BY <1>1, <1>2

LEMMA StageKeepsHandshake ==
  ASSUME TypeOK, HandshakeInv,
         \/ StageReply
         \/ \E e \in mapped : StageStartEp(e) \/ StageBuffer(e)
         \/ \E t \in {"IOP_PWR", "AP_PWR"} : StagePing(t)
  PROVE  HandshakeInv'
<1>1. UNCHANGED <<i2a, hello_seen, mapped, map_done>>
  BY DEF StageReply, StageStartEp, StageBuffer, StagePing, Stage, A2ISend0,
         driverVars
<1>2. hello_seen > 0
  BY DEF StageReply, StageStartEp, StageBuffer, StagePing, HandshakeInv, AfterHello
<1>3. ASSUME NEW o, Stage(o), o.msg.type = "STARTEP" => map_done /\ o.msg.ep \in mapped
      PROVE  StagedIsSent'
  BY <1>1, <1>3 DEF Stage, A2ISend0, StagedIsSent
<1>4. CASE StageReply
  <2>1. Head(replies) \in GuestReplies
    BY <1>4, HeadTailProperties DEF StageReply, TypeOK
  <2>2. Head(replies).msg.type # "STARTEP"
    BY <2>1 DEF GuestReplies, On, HelloReply, EpmapAck
  <2> QED BY <1>1, <1>2, <1>3, <1>4, <2>2
          DEF StageReply, HandshakeInv, AfterHello, ChunksInOrder
<1>5. ASSUME NEW e \in mapped, StageStartEp(e)
      PROVE  HandshakeInv'
  <2>1. On(MGMT_EP, StartEp(e)).msg.ep = e
    BY DEF On, StartEp
  <2> QED BY <1>1, <1>2, <1>3, <1>5, <2>1
          DEF StageStartEp, HandshakeInv, AfterHello, ChunksInOrder
<1>6. ASSUME NEW e \in mapped, StageBuffer(e)
      PROVE  HandshakeInv'
  <2>1. On(e, BufferAt(e)).msg.type # "STARTEP"
    BY DEF On, BufferAt
  <2> QED BY <1>1, <1>2, <1>3, <1>6, <2>1
          DEF StageBuffer, HandshakeInv, AfterHello, ChunksInOrder
<1>7. ASSUME NEW t \in {"IOP_PWR", "AP_PWR"}, StagePing(t)
      PROVE  HandshakeInv'
  <2>1. On(MGMT_EP, Pwr(t)).msg.type # "STARTEP"
    BY DEF On, Pwr
  <2> QED BY <1>1, <1>2, <1>3, <1>7, <2>1
          DEF StagePing, HandshakeInv, AfterHello, ChunksInOrder
<1> QED BY <1>4, <1>5, <1>6, <1>7

LEMMA CommitKeepsHandshake ==
  ASSUME TypeOK, HandshakeInv, Commit
  PROVE  HandshakeInv'
<1>1. /\ out' = NoSend /\ hello_seen > 0
      /\ UNCHANGED <<replies, hello_seen, mapped, map_done>>
  BY DEF Commit, HandshakeInv, AfterHello, driverVars
<1>2. NoSend.msg.type # "STARTEP"
  BY DEF NoSend, On, NoMsg
<1>3. CASE HandleMgmt(a2i_msg)
  <2> DEFINE ms == MgmtReplies(a2i_msg)
  <2>1. ms \in Seq(I2AMessages) /\ Send(ms)
    BY <1>3, RepliesAreMessages DEF HandleMgmt, TypeOK
  <2>2. ms = Epmap \/ \A k \in 1 .. Len(ms) : ms[k].msg.type # "EPMAP"
    BY RepliesAreMessages DEF TypeOK
  <2> HIDE DEF ms
  <2>3. ChunksInOrder'
    BY <1>1, <2>1, <2>2, SendKeepsChunks DEF HandshakeInv
  <2>4. \A i \in 1 .. Len(i2a') : i2a'[i].msg.type = "EPMAP" => hello_seen > 0
    BY <1>1, <2>1, SendKeepsAfterHello DEF HandshakeInv
  <2> QED BY <1>1, <1>2, <2>3, <2>4 DEF HandshakeInv, AfterHello, StagedIsSent
<1>4. CASE SendNothing
  BY <1>1, <1>2, <1>4 DEF SendNothing, HandshakeInv, AfterHello, ChunksInOrder,
                          StagedIsSent
<1> QED BY <1>3, <1>4 DEF Commit, A2ISend1, HandleLog

LEMMA RecvKeepsHandshake ==
  ASSUME TypeOK, NoTornReceive, HandshakeInv, ReadRecv1
  PROVE  HandshakeInv'
<1>1. /\ i2a # <<>> /\ i2a' = Tail(i2a) /\ Head(i2a) = i2a[1]
      /\ Head(i2a).msg = held
  BY HeadTailProperties DEF ReadRecv1, I2ARecv1, NoTornReceive, TypeOK
<1>2. /\ Len(i2a) \in Nat \ {0} /\ Len(i2a') = Len(i2a) - 1
      /\ \A k \in 1 .. Len(i2a') : i2a'[k] = i2a[k + 1]
  BY <1>1, EmptySeq, HeadTailProperties DEF TypeOK
<1>3. /\ hello_seen \in Nat /\ hello_seen' >= hello_seen
      /\ mapped \subseteq mapped' /\ (map_done => map_done')
      /\ UNCHANGED <<out, a2i_msg>>
  BY DEF ReadRecv1, I2ARecv1, GotMgmt, driverVars, TypeOK
<1>4. AfterHello'
  <2>1. \A i \in 1 .. Len(i2a') : i2a'[i].msg.type = "EPMAP" => hello_seen > 0
    <3> SUFFICES ASSUME NEW i \in 1 .. Len(i2a'), i2a'[i].msg.type = "EPMAP"
                 PROVE  hello_seen > 0
      OBVIOUS
    <3>1. i + 1 \in 1 .. Len(i2a) /\ i2a[i + 1].msg.type = "EPMAP"
      BY <1>2
    <3> QED BY <3>1 DEF HandshakeInv, AfterHello
  <2>2. CASE held.type = "HELLO" /\ GotMgmt(held)
    BY <1>3, <2>2 DEF GotMgmt, AfterHello
  <2>3. CASE held.type = "EPMAP" /\ GotMgmt(held)
    <3>1. 1 \in 1 .. Len(i2a) /\ i2a[1].msg.type = "EPMAP"
      BY <1>1, <1>2, <2>3
    <3>2. hello_seen > 0
      BY <3>1 DEF HandshakeInv, AfterHello
    <3>3. hello_seen' = hello_seen
      BY <2>3 DEF GotMgmt
    <3> QED BY <3>2, <3>3 DEF AfterHello
  <2>4. CASE UNCHANGED <<driverVars, replies>>
    BY <1>3, <2>1, <2>4 DEF HandshakeInv, AfterHello, driverVars
  <2> QED BY <2>2, <2>3, <2>4 DEF ReadRecv1, GotMgmt
<1>5. ChunksInOrder'
  BY RecvKeepsChunks DEF HandshakeInv
<1> QED BY <1>3, <1>4, <1>5 DEF HandshakeInv, StagedIsSent

LEMMA HandshakeInvHolds == Spec => []HandshakeInv
<1>1. Init => HandshakeInv
  BY DEF Init, RTKitInit, HandshakeInv, AfterHello, ChunksInOrder, StagedIsSent,
         NoSend, On, NoMsg
<1>2. TypeOK /\ NoTornReceive /\ HandshakeInv /\ [Next]_vars => HandshakeInv'
  <2> SUFFICES ASSUME TypeOK, NoTornReceive, HandshakeInv, [Next]_vars
               PROVE  HandshakeInv'
    OBVIOUS
  <2>1. CASE TakeIrq \/ ReadIack \/ ReadControl \/ ReadRecv0
    BY <2>1 DEF TakeIrq, ReadIack, ReadControl, ReadRecv0, rtkitVars, driverVars,
                senderVars, HandshakeInv, AfterHello, ChunksInOrder, StagedIsSent
  <2>2. CASE ReadRecv1
    BY <2>2, RecvKeepsHandshake
  <2>3. CASE StageReply \/ (\E e \in mapped : StageStartEp(e) \/ StageBuffer(e))
             \/ (\E t \in {"IOP_PWR", "AP_PWR"} : StagePing(t))
    BY <2>3, StageKeepsHandshake
  <2>4. CASE Commit
    BY <2>4, CommitKeepsHandshake
  <2>5. ASSUME NEW run \in BOOLEAN, RunIop(run)
        PROVE  HandshakeInv'
    <3>1. CASE Boot
      BY <2>5, <3>1, BootKeepsHandshake DEF RunIop, CpuControlWrite
    <3>2. CASE SendNothing
      BY <2>5, <3>2
      DEF RunIop, CpuControlWrite, SendNothing, driverVars, senderVars,
          HandshakeInv, AfterHello, ChunksInOrder, StagedIsSent
    <3> QED BY <2>5, <3>1, <3>2 DEF RunIop, CpuControlWrite
  <2>6. CASE Announce
    BY <2>6, BootKeepsHandshake DEF Announce, AnnounceTimer
  <2>7. CASE (\E on \in AicConfigs : ConfigureAic(on)) \/ UNCHANGED vars
    BY <2>7 DEF ConfigureAic, vars, rtkitVars, driverVars, senderVars,
                HandshakeInv, AfterHello, ChunksInOrder, StagedIsSent
  <2> QED BY <2>1, <2>2, <2>3, <2>4, <2>5, <2>6, <2>7
          DEF Next, InterruptRoutine, Sender
<1> QED BY <1>1, <1>2, TypeCorrect, DeliveryCorrect, PTL DEF Spec

(* What the guest receives is a step of the abstract handshake: HELLO, or  *)
(* an offer, complete only with every endpoint.                            *)
LEMMA RecvImplementsOffer ==
  ASSUME TypeOK, NoTornReceive, HandshakeInv, ReadRecv1
  PROVE  [Handshake!Next]_(Handshake!vars)
<1>1. /\ i2a # <<>> /\ Head(i2a) = i2a[1] /\ i2a[1] \in I2AMessages
      /\ i2a[1].msg = held /\ 1 \in 1 .. Len(i2a)
      /\ UNCHANGED started
  BY HeadTailProperties, EmptySeq DEF ReadRecv1, I2ARecv1, NoTornReceive, TypeOK
<1>2. hello_seen \in Nat /\ mapped \subseteq Present /\ map_done \in BOOLEAN
  BY DEF TypeOK
<1>3. CASE held.type = "HELLO" /\ GotMgmt(held)
  <2>1. hello_seen' = hello_seen + 1 /\ UNCHANGED <<mapped, map_done>>
    BY <1>3 DEF GotMgmt
  <2> QED BY <1>1, <1>2, <2>1 DEF Handshake!Next, Handshake!SayHello, Handshake!vars
<1>4. CASE held.type = "EPMAP" /\ GotMgmt(held)
  <2>1. PICK b \in 0 .. LastBase : held = EpmapChunk(b)
    BY <1>1, <1>4, I2AKinds
  <2>2. /\ mapped' = mapped \cup {CHUNK * held.base + x : x \in held.bitmap}
        /\ map_done' = (map_done \/ held.last) /\ UNCHANGED hello_seen
    BY <1>4 DEF GotMgmt
  <2>3. mapped' = mapped \cup EndpointsOf(b)
    BY <2>1, <2>2, ChunkDecodes
  <2>4. map_done' = (map_done \/ b = LastBase)
    BY <2>1, <2>2, ChunkFacts
  <2>5. hello_seen > 0
    BY <1>1, <1>4 DEF HandshakeInv, AfterHello
  <2>6. b = LastBase => mapped' = Present
    <3> SUFFICES ASSUME b = LastBase, NEW e \in Present
                 PROVE  e \in mapped'
      BY <1>2, <2>3 DEF EndpointsOf
    <3>1. e \div CHUNK \in 0 .. LastBase /\ LastBase \in Nat
      BY LastBaseIsHighest
    <3>2. CASE e \div CHUNK = LastBase
      BY <2>3, <3>2 DEF EndpointsOf
    <3>3. CASE e \div CHUNK \in 0 .. LastBase - 1
      <4>1. 1 .. 1 - 1 = {}
        OBVIOUS
      <4>2. EndpointsOf(e \div CHUNK) \subseteq mapped
        BY <1>1, <2>1, <3>3, <4>1 DEF HandshakeInv, ChunksInOrder
      <4> QED BY <2>3, <4>2 DEF EndpointsOf
    <3> QED BY <3>1, <3>2, <3>3
  <2>7. EndpointsOf(b) \in SUBSET Present
    BY DEF EndpointsOf
  <2>8. Handshake!Offer(EndpointsOf(b))
    BY <1>1, <1>2, <2>2, <2>3, <2>4, <2>5, <2>6 DEF Handshake!Offer
  <2> QED BY <2>7, <2>8 DEF Handshake!Next
<1>5. CASE UNCHANGED driverVars
  BY <1>1, <1>5 DEF driverVars, Handshake!vars
<1> QED BY <1>3, <1>4, <1>5 DEF ReadRecv1, GotMgmt

(* An endpoint is opened only when the complete map offered it.            *)
LEMMA CommitImplementsOpen ==
  ASSUME TypeOK, HandshakeInv, Commit
  PROVE  [Handshake!Next]_(Handshake!vars)
<1>1. UNCHANGED <<hello_seen, mapped, map_done>>
  BY DEF Commit, driverVars
<1>2. CASE started' = started
  BY <1>1, <1>2 DEF Handshake!vars
<1>3. CASE started' # started
  <2>1. /\ a2i_msg.type = "STARTEP" /\ a2i_msg.ep \in Present
        /\ started' = started \cup {a2i_msg.ep}
    BY <1>3 DEF Commit, A2ISend1, HandleMgmt, HandleLog
  <2>2. map_done /\ a2i_msg.ep \in mapped
    BY <2>1 DEF Commit, HandshakeInv, StagedIsSent
  <2>3. Handshake!Open(a2i_msg.ep)
    BY <1>1, <2>1, <2>2 DEF Handshake!Open
  <2> QED BY <2>1, <2>3 DEF Handshake!Next
<1> QED BY <1>2, <1>3

(* The engine implements the handshake for every set of endpoints, every   *)
(* ring size (even one too small for the map) and every interleaving.      *)
THEOREM EngineImplementsHandshake == Spec => HandshakeImplemented
<1>1. Init => Handshake!Init
  BY DEF Init, RTKitInit, Handshake!Init
<1>2. TypeOK /\ NoTornReceive /\ HandshakeInv /\ [Next]_vars
        => [Handshake!Next]_(Handshake!vars)
  <2> SUFFICES ASSUME TypeOK, NoTornReceive, HandshakeInv, [Next]_vars
               PROVE  [Handshake!Next]_(Handshake!vars)
    OBVIOUS
  <2>1. CASE Commit
    BY <2>1, CommitImplementsOpen
  <2>2. CASE ReadRecv1
    BY <2>2, RecvImplementsOffer
  <2>3. CASE UNCHANGED <<started, hello_seen, mapped, map_done>>
    BY <2>3 DEF Handshake!vars
  <2> QED BY <2>1, <2>2, <2>3, HandshakeSteps
<1> QED BY <1>1, <1>2, TypeCorrect, DeliveryCorrect, HandshakeInvHolds, PTL
        DEF Spec, HandshakeImplemented, Handshake!Spec

-----------------------------------------------------------------------------
(* HELLO is alone in the ring until the guest has received it, for nothing *)
(* else is sent before: it finds room however small the ring.              *)
HelloInv ==
  /\ hello_seen = 0 => i2a = IF hello_sent THEN <<On(MGMT_EP, Hello)>> ELSE <<>>
  /\ hello_seen # 0 => /\ hello_seen = 1 /\ hello_sent
                       /\ \A i \in 1 .. Len(i2a) : i2a[i].msg # Hello

LEMMA BootKeepsHello ==
  ASSUME TypeOK, HelloInv, Boot, UNCHANGED hello_seen
  PROVE  HelloInv'
<1>1. CASE hello_sent
  BY <1>1 DEF Boot, SendNothing, HelloInv
<1>2. CASE ~hello_sent
  <2> DEFINE ms == <<On(MGMT_EP, Hello)>>
  <2>1. Send(ms) /\ ms \in Seq(I2AMessages) /\ Len(ms) = 1 /\ hello_sent'
    BY <1>2 DEF Boot, I2AMessages
  <2>2. hello_seen = 0 /\ i2a = <<>>
    BY <1>2 DEF HelloInv
  <2>3. Room(ms) = 1
    BY <2>1, <2>2, RTKitAssumption DEF Room
  <2>4. i2a' \in Seq(I2AMessages) /\ Len(i2a') = 1 /\ i2a'[1] = On(MGMT_EP, Hello)
    <3>1. ms[1] = On(MGMT_EP, Hello)
      OBVIOUS
    <3>2. i2a \in Seq(I2AMessages) /\ Len(i2a) <= QLen /\ Len(i2a) = 0
      BY <2>2 DEF TypeOK
    <3> HIDE DEF ms
    <3>3. /\ i2a' \in Seq(I2AMessages) /\ Len(i2a') = Len(i2a) + Room(ms)
          /\ \A j \in 1 .. Room(ms) : i2a'[Len(i2a) + j] = ms[j]
      BY <2>1, <3>2, SendAppends
    <3>4. i2a'[0 + 1] = ms[1]
      BY <2>3, <3>2, <3>3
    <3> QED BY <2>3, <3>1, <3>2, <3>3, <3>4
  <2>5. i2a' = <<On(MGMT_EP, Hello)>>
    BY <2>4
  <2> QED BY <2>1, <2>2, <2>5 DEF HelloInv
<1> QED BY <1>1, <1>2

LEMMA CommitKeepsHello ==
  ASSUME TypeOK, HandshakeInv, HelloInv, Commit
  PROVE  HelloInv'
<1>1. /\ hello_seen = 1 /\ hello_sent /\ UNCHANGED <<hello_seen, hello_sent>>
      /\ \A i \in 1 .. Len(i2a) : i2a[i].msg # Hello
  BY DEF Commit, A2ISend1, driverVars, HandshakeInv, AfterHello, HelloInv
<1>2. CASE HandleMgmt(a2i_msg)
  <2> DEFINE ms == MgmtReplies(a2i_msg)
             n == Len(i2a)
             r == Room(ms)
  <2>1. ms \in Seq(I2AMessages) /\ Send(ms)
    BY <1>2, RepliesAreMessages DEF HandleMgmt, TypeOK
  <2>2. \A k \in 1 .. Len(ms) : ms[k].msg.type # "HELLO"
    <3>1. PICK o \in A2IMessages \cup {NoSend} : a2i_msg = o.msg
      BY DEF TypeOK
    <3>2. CASE ms = Epmap
      <4>1. Len(ms) = LastBase + 1
            /\ \A k \in 1 .. LastBase + 1 : ms[k] = On(MGMT_EP, EpmapChunk(k - 1))
        BY <3>2, EpmapIsSeq
      <4>2. \A b : On(MGMT_EP, EpmapChunk(b)).msg.type = "EPMAP"
        BY DEF On, EpmapChunk
      <4> QED BY <4>1, <4>2
    <3>3. CASE \A k \in 1 .. Len(ms) : ms[k].msg.type \in {"IOP_PWR_ACK", "AP_PWR"}
      BY <3>3
    <3> QED BY <3>1, <3>2, <3>3, RepliesAreMessages
  <2>3. /\ r \in 0 .. Len(ms) /\ n \in Nat /\ Len(i2a') = n + r
        /\ \A k \in 1 .. n : i2a'[k] = i2a[k]
        /\ \A k \in 1 .. r : i2a'[n + k] = ms[k]
    BY <2>1, SendAppends DEF TypeOK
  <2>4. Hello.type = "HELLO"
    BY DEF Hello
  <2> SUFFICES ASSUME NEW i \in 1 .. Len(i2a') PROVE i2a'[i].msg # Hello
    BY <1>1 DEF HelloInv
  <2> HIDE DEF ms, r
  <2>5. CASE i <= n
    BY <1>1, <2>3, <2>5
  <2> HIDE DEF n
  <2>6. CASE i > n
    <3>1. i - n \in 1 .. r /\ i = n + (i - n) /\ i - n \in 1 .. Len(ms)
      BY <2>3, <2>6
    <3>2. i2a'[i] = ms[i - n]
      BY <2>3, <3>1
    <3> QED BY <2>2, <2>4, <3>1, <3>2
  <2>7. i <= n \/ i > n
    BY <2>3
  <2> QED BY <2>5, <2>6, <2>7
<1>3. CASE SendNothing
  BY <1>1, <1>3 DEF SendNothing, HelloInv
<1> QED BY <1>2, <1>3 DEF Commit, A2ISend1, HandleLog

LEMMA RecvKeepsHello ==
  ASSUME TypeOK, NoTornReceive, HelloInv, ReadRecv1
  PROVE  HelloInv'
<1>1. /\ i2a # <<>> /\ i2a' = Tail(i2a) /\ Head(i2a) = i2a[1]
      /\ i2a[1].msg = held /\ i2a[1] \in I2AMessages /\ UNCHANGED hello_sent
      /\ \/ GotMgmt(held)
         \/ i2a[1].ep # MGMT_EP
  BY HeadTailProperties DEF ReadRecv1, I2ARecv1, NoTornReceive, TypeOK
<1>2. i2a[1].ep = MGMT_EP /\ (held.type = "HELLO" <=> held = Hello)
  BY <1>1, I2AKinds DEF Hello
<1>3. CASE hello_seen = 0
  <2>1. hello_sent /\ i2a = <<On(MGMT_EP, Hello)>>
    BY <1>1, <1>3 DEF HelloInv
  <2>2. held = Hello /\ held.type = "HELLO"
    BY <1>1, <2>1 DEF On, Hello
  <2>3. hello_seen' = 1
    BY <1>1, <1>2, <1>3, <2>2 DEF GotMgmt
  <2>4. i2a' = <<>>
    BY <1>1, <2>1
  <2> QED BY <1>1, <2>1, <2>3, <2>4 DEF HelloInv
<1>4. CASE hello_seen # 0
  <2>1. /\ hello_seen = 1 /\ hello_sent
        /\ \A i \in 1 .. Len(i2a) : i2a[i].msg # Hello
    BY <1>4 DEF HelloInv
  <2>2. /\ Len(i2a) \in Nat \ {0} /\ Len(i2a') = Len(i2a) - 1
        /\ \A k \in 1 .. Len(i2a') : i2a'[k] = i2a[k + 1]
    BY <1>1, EmptySeq, HeadTailProperties DEF TypeOK
  <2>3. held.type # "HELLO"
    BY <1>1, <1>2, <2>1, <2>2
  <2>4. hello_seen' = hello_seen
    BY <1>1, <1>2, <2>3 DEF GotMgmt, driverVars
  <2>5. \A i \in 1 .. Len(i2a') : i + 1 \in 1 .. Len(i2a)
    BY <2>2
  <2> QED BY <1>1, <2>1, <2>2, <2>4, <2>5 DEF HelloInv
<1> QED BY <1>3, <1>4

(* Where HELLO is sent or received.                                        *)
LEMMA HelloSteps ==
  ASSUME TypeOK, [Next]_vars
  PROVE  \/ Commit
         \/ ReadRecv1
         \/ Boot /\ UNCHANGED hello_seen
         \/ UNCHANGED <<i2a, hello_seen, hello_sent>>
<1>1. CASE TakeIrq \/ ReadIack \/ ReadControl \/ ReadRecv0
  BY <1>1 DEF TakeIrq, ReadIack, ReadControl, ReadRecv0, rtkitVars, driverVars
<1>2. CASE StageReply \/ (\E e \in mapped : StageStartEp(e) \/ StageBuffer(e))
           \/ (\E t \in {"IOP_PWR", "AP_PWR"} : StagePing(t))
  BY <1>2 DEF StageReply, StageStartEp, StageBuffer, StagePing, Stage, A2ISend0,
              driverVars
<1>3. CASE (\E run \in BOOLEAN : RunIop(run)) \/ Announce
           \/ (\E on \in AicConfigs : ConfigureAic(on)) \/ UNCHANGED vars
  BY <1>3 DEF RunIop, CpuControlWrite, SendNothing, Announce, AnnounceTimer,
              ConfigureAic, rtkitVars, driverVars, vars
<1> QED BY <1>1, <1>2, <1>3 DEF Next, InterruptRoutine, Sender

(* HELLO is sent once whatever RUN and the timer do, and it is never       *)
(* dropped: it is in the ring, or the guest has it, once.                  *)
THEOREM HelloCorrect == Spec => []HelloExactlyOnce
<1>1. Init => HelloInv
  BY DEF Init, RTKitInit, HelloInv
<1>2. TypeOK /\ NoTornReceive /\ HandshakeInv /\ HelloInv /\ [Next]_vars => HelloInv'
  BY HelloSteps, BootKeepsHello, CommitKeepsHello, RecvKeepsHello DEF HelloInv
<1>3. TypeOK /\ HelloInv => HelloExactlyOnce
  <2> SUFFICES ASSUME TypeOK, HelloInv PROVE HelloExactlyOnce
    OBVIOUS
  <2>1. CASE hello_seen = 0 /\ ~hello_sent
    BY <2>1 DEF HelloInv, HelloExactlyOnce
  <2>2. CASE hello_seen = 0 /\ hello_sent
    <3>1. i2a = <<On(MGMT_EP, Hello)>> /\ Len(i2a) = 1 /\ i2a[1].msg = Hello
      BY <2>2 DEF HelloInv, On
    <3>2. {i \in 1 .. Len(i2a) : i2a[i].msg = Hello} = {1} /\ 1 \in 1 .. Len(i2a)
      BY <3>1
    <3> QED BY <2>2, <3>2 DEF HelloExactlyOnce
  <2>3. CASE hello_seen # 0
    BY <2>3 DEF HelloInv, HelloExactlyOnce
  <2> QED BY <2>1, <2>2, <2>3
<1> QED BY <1>1, <1>2, <1>3, TypeCorrect, DeliveryCorrect, HandshakeInvHolds, PTL
        DEF Spec
-----------------------------------------------------------------------------
(* The entries of bufs[] are distinct buffers that were handed over, and   *)
(* one still on its way is not among them.                                 *)
BufsInv ==
  /\ BuffersRecorded
  /\ \A i \in 1 .. Len(bufs) : bufs[i] \in handed
  /\ \A i, j \in 1 .. Len(bufs) : bufs[i] = bufs[j] => i = j
  /\ \A e \in LogEps : out = On(e, BufferAt(e)) =>
       e \in handed /\ \A i \in 1 .. Len(bufs) : bufs[i] # e

(* A table with a place for each log endpoint has one for a buffer that is *)
(* not in it yet.                                                          *)
LEMMA RoomForBuffer ==
  ASSUME Cardinality(LogEps) <= NBufs, TypeOK, BufsInv, NEW e \in LogEps,
         \A i \in 1 .. Len(bufs) : bufs[i] # e
  PROVE  Len(bufs) < NBufs
<1>1. IsFiniteSet(LogEps)
  <2>1. LogEps \in SUBSET (1 .. 63) /\ 1 \in Int /\ 63 \in Int
    BY RTKitAssumption DEF RTKIT_MAX_ENDPOINTS
  <2> QED BY <2>1, FS_Interval, FS_Subset
<1>2. /\ IsFiniteSet(LogEps \ {e})
      /\ Cardinality(LogEps \ {e}) = Cardinality(LogEps) - 1
      /\ Cardinality(LogEps) \in Nat
  BY <1>1, FS_RemoveElement, FS_CardinalityType
<1>3. bufs \in Seq(LogEps) /\ Len(bufs) \in Nat
  BY DEF TypeOK
<1>4. bufs \in [1 .. Len(bufs) -> LogEps \ {e}]
  BY <1>3
<1> DEFINE D == 1 .. Len(bufs)
           T == LogEps \ {e}
<1>5. bufs \in Injection(D, T)
  <2>1. \A i, j \in 1 .. Len(bufs) : bufs[i] = bufs[j] => i = j
    BY DEF BufsInv
  <2>2. bufs \in [D -> T] /\ \A i, j \in D : bufs[i] = bufs[j] => i = j
    BY <1>4, <2>1
  <2> HIDE DEF D, T
  <2> QED BY <2>2 DEF Injection, IsInjective
<1>6. Cardinality(1 .. Len(bufs)) <= Cardinality(LogEps \ {e})
  BY <1>2, <1>5, FS_Injection
<1>7. Cardinality(1 .. Len(bufs)) = Len(bufs)
  BY <1>3, FS_Interval, SMTT(60)
<1> QED BY <1>2, <1>3, <1>6, <1>7, RTKitAssumption

LEMMA BufferMessages ==
  /\ \A e, f : On(e, BufferAt(e)) = On(f, BufferAt(f)) => e = f
  /\ \A e \in LogEps : /\ On(e, BufferAt(e)) # NoSend
                       /\ \A m \in GuestReplies : m # On(e, BufferAt(e))
                       /\ \A m : m # On(e, BufferAt(e)) \/ m.ep \in LogEps
<1>1. MGMT_EP \notin LogEps
  BY RTKitAssumption DEF MGMT_EP
<1>2. \A m \in GuestReplies \cup {NoSend} : m.ep = MGMT_EP
  BY DEF GuestReplies, NoSend, On
<1>3. \A e : On(e, BufferAt(e)).ep = e
  BY DEF On
<1> QED BY <1>1, <1>2, <1>3

LEMMA CommitKeepsBuffers ==
  ASSUME Cardinality(LogEps) <= NBufs, TypeOK, HandshakeInv, BufsInv, Commit
  PROVE  BufsInv'
<1>1. /\ out # NoSend /\ out' = NoSend /\ handed' = handed /\ a2i_msg = out.msg
      /\ out \in A2IMessages /\ bufs \in Seq(LogEps) /\ Len(bufs) \in Nat
  BY DEF Commit, HandshakeInv, StagedIsSent, TypeOK
<1>2. CASE \E e \in LogEps : out = On(e, BufferAt(e))
  <2>1. PICK e \in LogEps : out = On(e, BufferAt(e))
    BY <1>2
  <2>2. /\ out.ep = e /\ a2i_msg.type = "BUFFER_REQUEST" /\ a2i_msg.iova = e
        /\ e # MGMT_EP /\ e \in Present
    BY <1>1, <2>1, RTKitAssumption DEF On, BufferAt, MGMT_EP, Present
  <2>3. e \in handed /\ \A i \in 1 .. Len(bufs) : bufs[i] # e
    BY <2>1 DEF BufsInv
  <2>4. Len(bufs) < NBufs
    BY <2>3, RoomForBuffer
  <2>5. bufs' = Append(bufs, e)
    BY <2>2, <2>4 DEF Commit, A2ISend1, HandleLog
  <2>6. /\ Len(bufs') = Len(bufs) + 1 /\ bufs'[Len(bufs) + 1] = e
        /\ \A i \in 1 .. Len(bufs) : bufs'[i] = bufs[i]
    BY <1>1, <2>5
  <2>7. \A i \in 1 .. Len(bufs') : i \in 1 .. Len(bufs) \/ i = Len(bufs) + 1
    BY <1>1, <2>6
  <2>8. BuffersRecorded'
    <3> SUFFICES ASSUME NEW f \in handed
                 PROVE  \E i \in 1 .. Len(bufs') : bufs'[i] = f
      BY <1>1 DEF BuffersRecorded
    <3>1. CASE f = e
      BY <1>1, <2>6, <3>1
    <3>2. CASE f # e
      <4>1. PICK i \in 1 .. Len(bufs) : bufs[i] = f
        BY <2>1, <3>2, BufferMessages DEF BufsInv, BuffersRecorded
      <4>2. i \in 1 .. Len(bufs')
        BY <1>1, <2>6
      <4> QED BY <2>6, <4>1, <4>2
    <3> QED BY <3>1, <3>2
  <2>9. \A i \in 1 .. Len(bufs') : bufs'[i] \in handed'
    BY <1>1, <2>3, <2>6, <2>7 DEF BufsInv
  <2>10. \A i, j \in 1 .. Len(bufs') : bufs'[i] = bufs'[j] => i = j
    BY <2>3, <2>6, <2>7 DEF BufsInv
  <2> QED BY <1>1, <2>8, <2>9, <2>10, BufferMessages DEF BufsInv
<1>3. CASE \A e \in LogEps : out # On(e, BufferAt(e))
  <2>1. out.ep \notin LogEps
    <3>1. MGMT_EP \notin LogEps
      BY RTKitAssumption DEF MGMT_EP
    <3>2. out \in GuestReplies => out.ep = MGMT_EP
      BY DEF GuestReplies, On
    <3>3. ASSUME NEW e \in Present, out = On(MGMT_EP, StartEp(e))
          PROVE  out.ep = MGMT_EP
      BY <3>3 DEF On
    <3>4. ASSUME NEW t, out = On(MGMT_EP, Pwr(t))
          PROVE  out.ep = MGMT_EP
      BY <3>4 DEF On
    <3> QED BY <1>1, <1>3, <3>1, <3>2, <3>3, <3>4 DEF A2IMessages, GuestRequests
  <2>2. bufs' = bufs
    BY <2>1 DEF Commit, A2ISend1, HandleMgmt
  <2>3. \A f \in handed : f \in LogEps
    BY DEF TypeOK
  <2> QED BY <1>1, <1>3, <2>2, <2>3, BufferMessages DEF BufsInv, BuffersRecorded
<1> QED BY <1>2, <1>3

LEMMA StageKeepsBuffers ==
  ASSUME TypeOK, BufsInv,
         \/ StageReply
         \/ \E e \in mapped : StageStartEp(e) \/ StageBuffer(e)
         \/ \E t \in {"IOP_PWR", "AP_PWR"} : StagePing(t)
  PROVE  BufsInv'
<1>1. /\ bufs' = bufs /\ out = NoSend /\ handed \subseteq LogEps
      /\ \A f \in handed : \E i \in 1 .. Len(bufs) : bufs[i] = f
  BY BufferMessages
  DEF StageReply, StageStartEp, StageBuffer, StagePing, Stage, A2ISend0, TypeOK,
      BufsInv, BuffersRecorded
<1>2. ASSUME handed' = handed, \A e \in LogEps : out' # On(e, BufferAt(e))
      PROVE  BufsInv'
  BY <1>1, <1>2 DEF BufsInv, BuffersRecorded
<1>3. CASE StageReply
  <2>1. out' \in GuestReplies /\ handed' = handed
    BY <1>3, HeadTailProperties DEF StageReply, Stage, TypeOK
  <2> QED BY <1>2, <2>1, BufferMessages
<1>4. ASSUME NEW e \in mapped, StageStartEp(e)
      PROVE  BufsInv'
  <2>1. out'.ep = MGMT_EP /\ handed' = handed
    BY <1>4 DEF StageStartEp, Stage, On
  <2>2. MGMT_EP \notin LogEps
    BY RTKitAssumption DEF MGMT_EP
  <2> QED BY <1>2, <2>1, <2>2, BufferMessages
<1>5. ASSUME NEW e \in mapped, StageBuffer(e)
      PROVE  BufsInv'
  <2>1. /\ e \in LogEps \ handed /\ out' = On(e, BufferAt(e))
        /\ handed' = handed \cup {e}
    BY <1>5 DEF StageBuffer, Stage
  <2>2. \A i \in 1 .. Len(bufs) : bufs[i] # e
    BY <2>1 DEF BufsInv
  <2> QED BY <1>1, <2>1, <2>2, BufferMessages DEF BufsInv, BuffersRecorded
<1>6. ASSUME NEW t \in {"IOP_PWR", "AP_PWR"}, StagePing(t)
      PROVE  BufsInv'
  <2>1. out'.ep = MGMT_EP /\ handed' = handed
    BY <1>6 DEF StagePing, Stage, On
  <2>2. MGMT_EP \notin LogEps
    BY RTKitAssumption DEF MGMT_EP
  <2> QED BY <1>2, <2>1, <2>2, BufferMessages
<1> QED BY <1>3, <1>4, <1>5, <1>6

(* Where a buffer is handed over or recorded.                              *)
LEMMA BufferSteps ==
  ASSUME [Next]_vars
  PROVE  \/ Commit
         \/ StageReply
         \/ \E e \in mapped : StageStartEp(e) \/ StageBuffer(e)
         \/ \E t \in {"IOP_PWR", "AP_PWR"} : StagePing(t)
         \/ UNCHANGED <<bufs, handed, out>>
<1>1. CASE InterruptRoutine
  BY <1>1 DEF InterruptRoutine, TakeIrq, ReadIack, ReadControl, ReadRecv0, ReadRecv1,
              I2ARecv1, rtkitVars, senderVars
<1>2. CASE (\E run \in BOOLEAN : RunIop(run)) \/ Announce
           \/ (\E on \in AicConfigs : ConfigureAic(on)) \/ UNCHANGED vars
  BY <1>2 DEF RunIop, CpuControlWrite, Announce, AnnounceTimer, ConfigureAic,
              rtkitVars, senderVars, vars
<1> QED BY <1>1, <1>2 DEF Next, Sender

(* With a table that has a place for each log endpoint, as the code's eight *)
(* places for five, every buffer handed over is on its way or recorded.     *)
THEOREM BuffersCorrect ==
  ASSUME Cardinality(LogEps) <= NBufs
  PROVE  Spec => []BuffersRecorded
<1>1. Init => BufsInv
  BY BufferMessages DEF Init, RTKitInit, BufsInv, BuffersRecorded
<1>2. TypeOK /\ HandshakeInv /\ BufsInv /\ [Next]_vars => BufsInv'
  <2>1. UNCHANGED <<bufs, handed, out>> /\ BufsInv => BufsInv'
    BY DEF BufsInv, BuffersRecorded
  <2> QED BY <2>1, BufferSteps, CommitKeepsBuffers, StageKeepsBuffers
<1>3. BufsInv => BuffersRecorded
  BY DEF BufsInv
<1> QED BY <1>1, <1>2, <1>3, TypeCorrect, HandshakeInvHolds, PTL DEF Spec
=============================================================================
