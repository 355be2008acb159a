----------------------------- MODULE AfkProofs -----------------------------
(***************************************************************************)
(* For any number of endpoints, any ring size and any interleaving of the  *)
(* endpoints' drivers: the DCP declares its transport up, and reads the    *)
(* shared buffer, only with a buffer; and each driver receives a prefix of *)
(* the handshake.                                                          *)
(***************************************************************************)
EXTENDS AfkSystem, SequenceTheorems, TLAPS

(* What apple_rtkit_send leaves in the ring: the old messages, then those  *)
(* of the new ones that fit.                                               *)
LEMMA SendAppends ==
  ASSUME NEW S, i2a \in Seq(S), Len(i2a) <= QLen, NEW ms \in Seq(S), Send(ms)
  PROVE  /\ Room(ms) \in 0 .. Len(ms)
         /\ i2a' \in Seq(S)
         /\ Len(i2a') = Len(i2a) + Room(ms)
         /\ Len(i2a') <= QLen
         /\ \A i \in 1 .. Len(i2a) : i2a'[i] = i2a[i]
         /\ \A j \in 1 .. Room(ms) : i2a'[Len(i2a) + j] = ms[j]
         /\ Room(ms) = 0 => i2a' = i2a
<1>1. Room(ms) \in 0 .. Len(ms) /\ Len(i2a) + Room(ms) <= QLen
  BY RTKitAssumption DEF Room
<1> DEFINE r == Room(ms)
           t == SubSeq(ms, 1, r)
<1>2. t \in Seq(S) /\ Len(t) = r /\ \A j \in 1 .. r : t[j] = ms[j]
  <2>1. r \in Int /\ 1 \in Int /\ \A i \in 1 .. r : ms[i] \in S
    BY <1>1
  <2> HIDE DEF r
  <2>2. /\ SubSeq(ms, 1, r) \in Seq(S)
        /\ Len(SubSeq(ms, 1, r)) = IF 1 <= r THEN r - 1 + 1 ELSE 0
        /\ \A i \in 1 .. r - 1 + 1 : SubSeq(ms, 1, r)[i] = ms[1 + i - 1]
    BY <2>1, SubSeqProperties
  <2>3. r \in 0 .. Len(ms)
    BY <1>1 DEF r
  <2> QED BY <2>2, <2>3
<1>3. i2a' = i2a \o t
  BY DEF Send
<1> HIDE DEF t
<1>4. /\ i2a \o t \in Seq(S)
      /\ Len(i2a \o t) = Len(i2a) + Len(t)
      /\ \A i \in 1 .. Len(i2a) + Len(t) :
           (i2a \o t)[i] = IF i <= Len(i2a) THEN i2a[i] ELSE t[i - Len(i2a)]
  BY <1>2, ConcatProperties
<1>5. Len(i2a) \in Nat
  OBVIOUS
<1>6. \A i \in 1 .. Len(i2a) : i2a'[i] = i2a[i]
  BY <1>1, <1>2, <1>3, <1>4, <1>5
<1>7. \A j \in 1 .. r : i2a'[Len(i2a) + j] = ms[j]
  <2> SUFFICES ASSUME NEW j \in 1 .. r
               PROVE  i2a'[Len(i2a) + j] = ms[j]
    OBVIOUS
  <2>1. Len(i2a) + j \in 1 .. Len(i2a) + Len(t) /\ ~(Len(i2a) + j <= Len(i2a))
    BY <1>1, <1>2, <1>5
  <2>2. (i2a \o t)[Len(i2a) + j] = t[Len(i2a) + j - Len(i2a)]
    BY <1>4, <2>1
  <2>3. Len(i2a) + j - Len(i2a) = j
    BY <1>1, <1>5
  <2> QED BY <1>2, <1>3, <2>2, <2>3
<1>8. r = 0 => i2a' = i2a
  <2> SUFFICES ASSUME r = 0
               PROVE  i2a' = i2a
    OBVIOUS
  <2>1. t = <<>>
    BY <1>2
  <2> QED BY <1>3, <2>1, ConcatEmptySeq
<1> QED BY <1>1, <1>2, <1>3, <1>4, <1>6, <1>7, <1>8

(* The line goes up if anything was queued, and never down.                *)
LEMMA SendRaises ==
  ASSUME AicTypeOK, NEW ms, Send(ms)
  PROVE  /\ AicTypeOK'
         /\ pending \subseteq pending'
         /\ Room(ms) # 0 /\ Wired => Irq \in pending'
<1>1. CASE Room(ms) = 0 \/ ~Wired
  BY <1>1 DEF Send, UpdateIrq, aicVars, AicTypeOK
<1>2. CASE Room(ms) # 0 /\ Wired
  BY <1>2, RTKitAssumption DEF Send, UpdateIrq, AicSetIrq, AicUpdate, AicTypeOK
<1> QED BY <1>1, <1>2

-----------------------------------------------------------------------------

DcpMessages == [ep : DeviceEps, msg : [type : DcpTypes]]

\* What a driver has to send.
Sends == {On(ep, Rbep(t)) : ep \in DeviceEps, t \in {RBEP_INIT, GuestStartAck, RBEP_RECV}}
           \cup {On(ep, GetbufAck(ep)) : ep \in DeviceEps}

AfkTypeOK ==
  /\ TypeOK
  /\ todo \in Seq(Sends) /\ out \in Sends \cup {NoSend}
  /\ out # NoSend => a2i_msg = out.msg
  /\ DOMAIN got = DeviceEps

SomeUp == \E ep \in DeviceEps : Up(ep)

BufferKnown == afk_inited /\ bfr_dva # 0

\* The acknowledgement of START and RECV follow a START.
AfterStart(o) == o.msg.type \in {GuestStartAck, RBEP_RECV}

(* START is sent after the buffer is known, and whatever follows it too.   *)
UpInv ==
  /\ \A i \in 1 .. Len(i2a) : i2a[i].msg.type = RBEP_START => BufferKnown
  /\ SomeUp => BufferKnown
  /\ \A i \in 1 .. Len(todo) : AfterStart(todo[i]) => SomeUp
  /\ out # NoSend /\ AfterStart(out) => SomeUp
  /\ afk_started \/ dumped # Nowhere => SomeUp
  /\ dumped # Nowhere => dumped.dva # 0

AfkInv == AfkTypeOK /\ UpInv

LEMMA SendKinds ==
  ASSUME NEW o \in Sends
  PROVE  /\ o # NoSend /\ o.ep \in DeviceEps
         /\ \/ o.msg.type = RBEP_INIT /\ ~AfterStart(o)
            \/ o.msg.type = RBEP_GETBUF_ACK /\ o.msg.dva = o.ep /\ ~AfterStart(o)
            \/ AfterStart(o)
<1>1. \A ep \in DeviceEps : ep # MGMT_EP
  BY RTKitAssumption DEF MGMT_EP
<1>2. NoSend.ep = MGMT_EP
  BY DEF NoSend, On
<1>3. ASSUME NEW ep \in DeviceEps, NEW t \in {RBEP_INIT, GuestStartAck, RBEP_RECV},
             o = On(ep, Rbep(t))
      PROVE  o.ep = ep /\ o.msg.type = t
  BY <1>3 DEF On, Rbep
<1>4. ASSUME NEW ep \in DeviceEps, o = On(ep, GetbufAck(ep))
      PROVE  o.ep = ep /\ o.msg.type = RBEP_GETBUF_ACK /\ o.msg.dva = ep
  BY <1>4 DEF On, GetbufAck
<1>5. /\ RBEP_INIT \notin {GuestStartAck, RBEP_RECV}
      /\ RBEP_GETBUF_ACK \notin {GuestStartAck, RBEP_RECV}
  BY AfkAssumption DEF RBEP_INIT, RBEP_RECV, RBEP_GETBUF_ACK
<1> QED BY <1>1, <1>2, <1>3, <1>4, <1>5 DEF Sends, AfterStart

(* The messages of one handler, on its endpoint: as many as there is room  *)
(* for, at the end of the ring.                                            *)
LEMMA SendOnAppends ==
  ASSUME AfkTypeOK, NEW ep \in DeviceEps, NEW ts \in Seq(DcpTypes), SendOn(ep, ts)
  PROVE  /\ i2a' \in Seq(DcpMessages) /\ Len(i2a') <= QLen
         /\ AicTypeOK'
         /\ \E r \in 0 .. Len(ts) :
              /\ Len(i2a') = Len(i2a) + r
              /\ \A i \in 1 .. Len(i2a) : i2a'[i] = i2a[i]
              /\ \A j \in 1 .. r : i2a'[Len(i2a) + j] = On(ep, Rbep(ts[j]))
<1> DEFINE ms == [i \in DOMAIN ts |-> On(ep, Rbep(ts[i]))]
<1>1. ms \in Seq(DcpMessages) /\ Len(ms) = Len(ts) /\ Len(ts) \in Nat
  <2>1. \A i \in 1 .. Len(ts) : On(ep, Rbep(ts[i])) \in DcpMessages
    BY DEF On, Rbep, DcpMessages
  <2>2. ms = [i \in 1 .. Len(ts) |-> On(ep, Rbep(ts[i]))] /\ Len(ts) \in Nat
    OBVIOUS
  <2> QED BY <2>1, <2>2, IsASeq
<1>2. \A j \in 1 .. Len(ts) : ms[j] = On(ep, Rbep(ts[j]))
  OBVIOUS
<1>3. Send(ms)
  BY DEF SendOn
<1> HIDE DEF ms
<1>4. /\ Room(ms) \in 0 .. Len(ms) /\ Len(i2a') = Len(i2a) + Room(ms)
      /\ i2a' \in Seq(DcpMessages) /\ Len(i2a') <= QLen
      /\ \A k \in 1 .. Len(i2a) : i2a'[k] = i2a[k]
      /\ \A k \in 1 .. Room(ms) : i2a'[Len(i2a) + k] = ms[k]
  BY <1>1, <1>3, SendAppends DEF AfkTypeOK, TypeOK, DcpMessages
<1>5. AicTypeOK'
  BY <1>3, SendRaises DEF AfkTypeOK, TypeOK
<1>6. \A k \in 1 .. Room(ms) : k \in 1 .. Len(ts)
  BY <1>1, <1>4
<1>7. \A k \in 1 .. Room(ms) : i2a'[Len(i2a) + k] = On(ep, Rbep(ts[k]))
  BY <1>2, <1>4, <1>6
<1> QED BY <1>1, <1>4, <1>5, <1>7

(* Each message in the ring was there or is of the handler.                *)
LEMMA SendOnKeeps ==
  ASSUME AfkTypeOK, NEW ep \in DeviceEps, NEW ts \in Seq(DcpTypes), SendOn(ep, ts)
  PROVE  /\ i2a' \in Seq(DcpMessages) /\ Len(i2a') <= QLen
         /\ AicTypeOK'
         /\ \A i \in 1 .. Len(i2a') :
              \/ i \in 1 .. Len(i2a) /\ i2a'[i] = i2a[i]
              \/ \E j \in 1 .. Len(ts) : i2a'[i].msg.type = ts[j]
<1> DEFINE n == Len(i2a)
<1>1. i2a' \in Seq(DcpMessages) /\ Len(i2a') <= QLen /\ AicTypeOK'
  BY SendOnAppends
<1>2. PICK r \in 0 .. Len(ts) :
        /\ Len(i2a') = n + r
        /\ \A i \in 1 .. n : i2a'[i] = i2a[i]
        /\ \A j \in 1 .. r : i2a'[n + j] = On(ep, Rbep(ts[j]))
  BY SendOnAppends
<1>3. n \in Nat /\ Len(ts) \in Nat
  BY DEF AfkTypeOK, TypeOK
<1> HIDE DEF n
<1>4. ASSUME NEW i \in 1 .. Len(i2a')
      PROVE  \/ i \in 1 .. n /\ i2a'[i] = i2a[i]
             \/ \E j \in 1 .. Len(ts) : i2a'[i].msg.type = ts[j]
  <2>1. CASE i <= n
    BY <1>2, <1>3, <2>1
  <2>2. CASE i > n
    <3>1. i - n \in 1 .. r /\ i = n + (i - n) /\ i - n \in 1 .. Len(ts)
      BY <1>2, <1>3, <2>2
    <3>2. i2a'[i] = On(ep, Rbep(ts[i - n]))
      BY <1>2, <3>1
    <3> QED BY <3>1, <3>2 DEF On, Rbep
  <2>3. i <= n \/ i > n
    BY <1>2, <1>3
  <2> QED BY <2>1, <2>2, <2>3
<1> QED BY <1>1, <1>4 DEF n

(* The line follows the level, and the controller keeps its type.          *)
LEMMA UpdateIrqKeepsType ==
  ASSUME AicTypeOK, NEW level \in BOOLEAN, UpdateIrq(level)
  PROVE  AicTypeOK'
BY RTKitAssumption DEF UpdateIrq, AicSetIrq, AicUpdate, AicTypeOK, aicVars

(* Appending an element to a sequence, as the proofs below need it.        *)
LEMMA AppendKeeps ==
  ASSUME NEW S, NEW s \in Seq(S), NEW e \in S
  PROVE  /\ Append(s, e) \in Seq(S)
         /\ \A i \in 1 .. Len(Append(s, e)) :
              \/ i \in 1 .. Len(s) /\ Append(s, e)[i] = s[i]
              \/ Append(s, e)[i] = e
OBVIOUS

LEMMA OpenKeeps ==
  ASSUME AfkInv, NEW ep \in DeviceEps, Open(ep)
  PROVE  AfkInv'
<1> DEFINE o == On(ep, Rbep(RBEP_INIT))
<1>1. o \in Sends /\ ~AfterStart(o)
  BY AfkAssumption DEF Sends, AfterStart, On, Rbep, RBEP_INIT, RBEP_RECV
<1> HIDE DEF o
<1>2. todo' = Append(todo, o) /\ todo \in Seq(Sends) /\ out' = out
  BY DEF Open, AfkInv, AfkTypeOK, o
<1>3. /\ todo' \in Seq(Sends)
      /\ \A i \in 1 .. Len(todo') :
           \/ i \in 1 .. Len(todo) /\ todo'[i] = todo[i]
           \/ todo'[i] = o
  BY <1>1, <1>2, AppendKeeps
<1>4. AfkTypeOK'
  BY <1>3 DEF Open, AfkInv, AfkTypeOK, TypeOK, AicTypeOK, rtkitVars, aicVars, dcpVars
<1>5. SomeUp' <=> SomeUp
  BY DEF Open, SomeUp, Up
<1>6. BufferKnown' <=> BufferKnown
  BY DEF Open, BufferKnown, dcpVars
<1>7. \A x : AfterStart(x)' <=> AfterStart(x)
  BY DEF AfterStart
<1>8. UpInv'
  BY <1>1, <1>3, <1>5, <1>6 DEF Open, AfkInv, UpInv, AfterStart, rtkitVars, dcpVars
<1> QED BY <1>4, <1>8 DEF AfkInv

LEMMA RingDoorbellKeeps ==
  ASSUME AfkInv, NEW ep \in DeviceEps, RingDoorbell(ep)
  PROVE  AfkInv'
<1> DEFINE o == On(ep, Rbep(RBEP_RECV))
<1>1. o \in Sends
  BY DEF Sends
<1> HIDE DEF o
<1>2. todo' = Append(todo, o) /\ todo \in Seq(Sends) /\ SomeUp
  BY DEF RingDoorbell, AfkInv, AfkTypeOK, o, SomeUp
<1>3. /\ todo' \in Seq(Sends)
      /\ \A i \in 1 .. Len(todo') :
           \/ i \in 1 .. Len(todo) /\ todo'[i] = todo[i]
           \/ todo'[i] = o
  BY <1>1, <1>2, AppendKeeps
<1>4. recvs' \in 0 .. MaxRecvs
  BY AfkAssumption DEF RingDoorbell, AfkInv, AfkTypeOK, TypeOK
<1>5. AfkTypeOK'
  BY <1>3, <1>4
  DEF RingDoorbell, AfkInv, AfkTypeOK, TypeOK, AicTypeOK, rtkitVars, aicVars, dcpVars
<1>6. SomeUp'
  BY <1>2 DEF RingDoorbell, SomeUp, Up
<1>7. BufferKnown' <=> BufferKnown
  BY DEF RingDoorbell, BufferKnown, dcpVars
<1>8. UpInv'
  BY <1>2, <1>6, <1>7 DEF RingDoorbell, AfkInv, UpInv, rtkitVars, dcpVars
<1> QED BY <1>5, <1>8 DEF AfkInv

LEMMA StageKeeps ==
  ASSUME AfkInv, Stage
  PROVE  AfkInv'
<1>1. todo \in Seq(Sends) /\ todo # <<>>
  BY DEF Stage, AfkInv, AfkTypeOK
<1>2. /\ Head(todo) \in Sends /\ Head(todo) = todo[1] /\ 1 \in 1 .. Len(todo)
      /\ Tail(todo) \in Seq(Sends)
      /\ \A i \in 1 .. Len(Tail(todo)) :
           i + 1 \in 1 .. Len(todo) /\ Tail(todo)[i] = todo[i + 1]
  BY <1>1
<1>3. out' = todo[1] /\ todo' = Tail(todo) /\ a2i_msg' = out'.msg
  BY <1>2 DEF Stage, A2ISend0
<1>4. AfkTypeOK'
  BY <1>2, <1>3
  DEF Stage, A2ISend0, AfkInv, AfkTypeOK, TypeOK, AicTypeOK, aicVars, dcpVars
<1>5. SomeUp' <=> SomeUp
  BY DEF Stage, SomeUp, Up
<1>6. BufferKnown' <=> BufferKnown
  BY DEF Stage, BufferKnown, dcpVars
<1>7. UpInv'
  BY <1>2, <1>3, <1>5, <1>6 DEF Stage, A2ISend0, AfkInv, UpInv, AfterStart, dcpVars
<1> QED BY <1>4, <1>7 DEF AfkInv

(* A value is in the longer sequence if it was there or is what is added.  *)
LEMMA AppendHas ==
  ASSUME NEW S, NEW s \in Seq(S), NEW e \in S, NEW x
  PROVE  (\E i \in DOMAIN Append(s, e) : Append(s, e)[i] = x)
           <=> (\E i \in DOMAIN s : s[i] = x) \/ e = x
<1>1. /\ DOMAIN s = 1 .. Len(s) /\ Len(s) \in Nat
      /\ DOMAIN Append(s, e) = 1 .. Len(s) + 1
      /\ \A i \in 1 .. Len(s) : Append(s, e)[i] = s[i]
      /\ Append(s, e)[Len(s) + 1] = e
  OBVIOUS
<1>2. \A i \in 1 .. Len(s) + 1 : i \in 1 .. Len(s) \/ i = Len(s) + 1
  BY <1>1
<1>3. 1 .. Len(s) \subseteq 1 .. Len(s) + 1 /\ Len(s) + 1 \in 1 .. Len(s) + 1
  BY <1>1
<1> QED BY <1>1, <1>2, <1>3, Zenon

(* Only START is answered with something that follows a START.             *)
LEMMA AnswerKinds ==
  ASSUME NEW ep \in DeviceEps, NEW type \in DcpTypes
  PROVE  /\ Answer(ep, type) \in Seq(Sends)
         /\ \A i \in 1 .. Len(Answer(ep, type)) :
              AfterStart(Answer(ep, type)[i]) => type = RBEP_START
<1>1. CASE type = RBEP_GETBUF
  <2>1. Answer(ep, type) = <<On(ep, GetbufAck(ep))>>
    BY <1>1 DEF Answer, RBEP_GETBUF, RBEP_START
  <2>2. On(ep, GetbufAck(ep)) \in Sends
    BY DEF Sends
  <2>3. ~AfterStart(On(ep, GetbufAck(ep)))
    BY AfkAssumption DEF AfterStart, On, GetbufAck, RBEP_GETBUF_ACK, RBEP_RECV
  <2> QED BY <2>1, <2>2, <2>3
<1>2. CASE type = RBEP_START
  <2>1. Answer(ep, type) = <<On(ep, Rbep(GuestStartAck))>>
    BY <1>2 DEF Answer, RBEP_GETBUF, RBEP_START
  <2>2. On(ep, Rbep(GuestStartAck)) \in Sends
    BY DEF Sends
  <2> QED BY <1>2, <2>1, <2>2
<1>3. CASE type \notin {RBEP_GETBUF, RBEP_START}
  <2>1. Answer(ep, type) = <<>>
    BY <1>3 DEF Answer
  <2> QED BY <2>1
<1> QED BY <1>1, <1>2, <1>3

(* The message taken off the ring, and what the driver makes of it.        *)
LEMMA ReceiveKeeps ==
  ASSUME AfkInv, Receive
  PROVE  AfkInv'
<1>1. i2a \in Seq(DcpMessages) /\ i2a # <<>> /\ i2a' = Tail(i2a)
  BY DEF Receive, I2ARecv1, AfkInv, AfkTypeOK, TypeOK, DcpMessages
<1>2. /\ Head(i2a) \in DcpMessages /\ Head(i2a) = i2a[1] /\ 1 \in 1 .. Len(i2a)
      /\ i2a' \in Seq(DcpMessages) /\ Len(i2a') = Len(i2a) - 1 /\ Len(i2a) \in Nat
      /\ \A i \in 1 .. Len(i2a') :
           i + 1 \in 1 .. Len(i2a) /\ i2a'[i] = i2a[i + 1]
  BY <1>1
<1>3. PICK ep \in DeviceEps, type \in DcpTypes :
        ep = Head(i2a).ep /\ type = Head(i2a).msg.type
  BY <1>2 DEF DcpMessages
<1> DEFINE a == Answer(ep, type)
<1>4. type = RBEP_START => BufferKnown
  BY <1>2, <1>3 DEF AfkInv, UpInv
<1>5. /\ got' = [got EXCEPT ![ep] = Append(@, type)]
      /\ todo' = todo \o a /\ todo \in Seq(Sends) /\ DOMAIN got = DeviceEps
      /\ \A e \in DeviceEps : got[e] \in Seq(DcpTypes)
  BY <1>3 DEF Receive, AfkInv, AfkTypeOK, TypeOK
<1>6. /\ a \in Seq(Sends)
      /\ \A i \in 1 .. Len(a) : AfterStart(a[i]) => type = RBEP_START
  BY <1>3, AnswerKinds
<1> HIDE DEF a
<1>7. /\ todo' \in Seq(Sends)
      /\ \A i \in 1 .. Len(todo') :
           \/ i \in 1 .. Len(todo) /\ todo'[i] = todo[i]
           \/ \E j \in 1 .. Len(a) : todo'[i] = a[j]
  <2>1. /\ todo \o a \in Seq(Sends)
        /\ Len(todo \o a) = Len(todo) + Len(a)
        /\ \A i \in 1 .. Len(todo) + Len(a) :
             (todo \o a)[i] = IF i <= Len(todo) THEN todo[i] ELSE a[i - Len(todo)]
    BY <1>5, <1>6, ConcatProperties
  <2>2. Len(todo) \in Nat /\ Len(a) \in Nat
    BY <1>5, <1>6
  <2>3. ASSUME NEW i \in 1 .. Len(todo'), ~(i <= Len(todo))
        PROVE  \E j \in 1 .. Len(a) : todo'[i] = a[j]
    <3>1. i - Len(todo) \in 1 .. Len(a) /\ todo'[i] = a[i - Len(todo)]
      BY <1>5, <2>1, <2>2, <2>3
    <3> QED BY <3>1
  <2>4. ASSUME NEW i \in 1 .. Len(todo'), i <= Len(todo)
        PROVE  i \in 1 .. Len(todo) /\ todo'[i] = todo[i]
    BY <1>5, <2>1, <2>2, <2>4
  <2> QED BY <1>5, <2>1, <2>3, <2>4
<1>8. /\ \A e \in DeviceEps : got'[e] \in Seq(DcpTypes) /\ (Up(e) => Up(e)')
      /\ \A e \in DeviceEps : Up(e)' => Up(e) \/ type = RBEP_START
      /\ type = RBEP_START => Up(ep)'
      /\ DOMAIN got' = DeviceEps
  <2>1. DOMAIN got' = DeviceEps /\ got'[ep] = Append(got[ep], type)
        /\ \A e \in DeviceEps : e # ep => got'[e] = got[e]
    BY <1>3, <1>5
  <2>2. got'[ep] \in Seq(DcpTypes)
    BY <1>3, <1>5, <2>1
  <2>3. (\E i \in DOMAIN got'[ep] : got'[ep][i] = RBEP_START)
          <=> (\E i \in DOMAIN got[ep] : got[ep][i] = RBEP_START) \/ type = RBEP_START
    <3>1. got[ep] \in Seq(DcpTypes) /\ got'[ep] = Append(got[ep], type)
      BY <1>5, <2>1
    <3>2. (\E i \in DOMAIN Append(got[ep], type) :
             Append(got[ep], type)[i] = RBEP_START)
            <=> (\E i \in DOMAIN got[ep] : got[ep][i] = RBEP_START)
                \/ type = RBEP_START
      BY <3>1, AppendHas
    <3> QED BY <3>1, <3>2, Zenon
  <2>4. Up(ep)' <=> Up(ep) \/ type = RBEP_START
    BY <2>3, Zenon DEF Up
  <2>5. \A e \in DeviceEps : e # ep => (Up(e)' <=> Up(e))
    BY <2>1, Zenon DEF Up
  <2>6. \A e \in DeviceEps : got'[e] \in Seq(DcpTypes)
    BY <1>5, <2>1, <2>2
  <2> QED BY <2>1, <2>4, <2>5, <2>6, Zenon
<1>9. /\ UNCHANGED <<dcpVars, opened, out, recvs, lost, a2i_msg>>
      /\ AicTypeOK'
  BY UpdateIrqKeepsType DEF Receive, I2ARecv1, AfkInv, AfkTypeOK, TypeOK
<1>10. AfkTypeOK'
  <2>1. Len(i2a') <= QLen
    BY <1>2, RTKitAssumption DEF AfkInv, AfkTypeOK, TypeOK
  <2> QED BY <1>2, <1>7, <1>8, <1>9, <2>1
          DEF AfkInv, AfkTypeOK, TypeOK, DcpMessages, dcpVars
<1>11. /\ SomeUp => SomeUp'
       /\ SomeUp' => SomeUp \/ type = RBEP_START
       /\ type = RBEP_START => SomeUp'
  BY <1>3, <1>8, Zenon DEF SomeUp
<1>12. BufferKnown' <=> BufferKnown
  BY <1>9 DEF BufferKnown, dcpVars
<1>13. \A i \in 1 .. Len(todo') : AfterStart(todo'[i]) => SomeUp'
  BY <1>6, <1>7, <1>11 DEF AfkInv, UpInv
<1>14. \A i \in 1 .. Len(i2a') : i2a'[i].msg.type = RBEP_START => BufferKnown'
  BY <1>2, <1>12 DEF AfkInv, UpInv
<1>15. UpInv'
  BY <1>4, <1>9, <1>11, <1>12, <1>13, <1>14 DEF AfkInv, UpInv, AfterStart, dcpVars
<1> QED BY <1>10, <1>15 DEF AfkInv

(* What the handler of out does, message by message.                       *)
LEMMA CommitKeeps ==
  ASSUME AfkInv, Commit
  PROVE  AfkInv'
<1> DEFINE ep == out.ep
<1>1. /\ out \in Sends /\ a2i_msg = out.msg /\ ep \in DeviceEps
      /\ \/ a2i_msg.type = RBEP_INIT
         \/ a2i_msg.type = RBEP_GETBUF_ACK /\ a2i_msg.dva = ep
         \/ AfterStart(out)
  BY SendKinds DEF Commit, AfkInv, AfkTypeOK
<1>2. /\ UNCHANGED <<opened, todo, got, recvs, a2i_msg>> /\ out' = NoSend
      /\ DcpEpHandler(ep, a2i_msg)
      /\ lost' \in BOOLEAN
  BY DEF Commit, A2ISend1Dcp
<1>3. SomeUp' <=> SomeUp
  BY <1>2 DEF SomeUp, Up
<1>4. ep # 0 /\ AicTypeOK /\ i2a \in Seq(DcpMessages) /\ Len(i2a) <= QLen
  BY <1>1, RTKitAssumption DEF AfkInv, AfkTypeOK, TypeOK, DcpMessages
<1> HIDE DEF ep
<1> DEFINE Ring(known) ==
             /\ AicTypeOK' /\ i2a' \in Seq(DcpMessages) /\ Len(i2a') <= QLen
             /\ \A i \in 1 .. Len(i2a') : i2a'[i].msg.type = RBEP_START => known
<1>5. SUFFICES /\ Ring(BufferKnown')
               /\ BufferKnown => BufferKnown'
               /\ bfr_dva' \in DeviceEps \cup {0}
               /\ afk_inited' \in BOOLEAN /\ afk_started' \in BOOLEAN
               /\ dumped'.ep \in DeviceEps \cup {0} /\ dumped'.dva \in DeviceEps \cup {0}
               /\ afk_started' \/ dumped' # Nowhere => SomeUp
               /\ dumped' # Nowhere => dumped'.dva # 0
  <2>1. AfkTypeOK'
    BY <1>2, <1>5 DEF AfkInv, AfkTypeOK, TypeOK, DcpMessages
  <2>2. UpInv'
    BY <1>2, <1>3, <1>5 DEF AfkInv, UpInv, AfterStart
  <2> QED BY <2>1, <2>2 DEF AfkInv
<1>6. ASSUME SendNothing PROVE Ring(BufferKnown)
  BY <1>4, <1>6 DEF SendNothing, aicVars, AicTypeOK, AfkInv, UpInv
<1>7. CASE a2i_msg.type = RBEP_INIT /\ OnInit(ep)
  <2>1. <<RBEP_INIT_ACK, RBEP_GETBUF>> \in Seq(DcpTypes)
    BY DEF DcpTypes
  <2>2. \A j \in 1 .. Len(<<RBEP_INIT_ACK, RBEP_GETBUF>>) :
          <<RBEP_INIT_ACK, RBEP_GETBUF>>[j] # RBEP_START
    BY DEF RBEP_INIT_ACK, RBEP_GETBUF, RBEP_START
  <2>3. Ring(BufferKnown)
    <3> HIDE DEF Ring
    <3>1. SendOn(ep, <<RBEP_INIT_ACK, RBEP_GETBUF>>) /\ AfkTypeOK /\ ep \in DeviceEps
      BY <1>1, <1>7 DEF OnInit, AfkInv, ep
    <3>2. /\ i2a' \in Seq(DcpMessages) /\ Len(i2a') <= QLen
          /\ AicTypeOK'
          /\ \A i \in 1 .. Len(i2a') :
               \/ i \in 1 .. Len(i2a) /\ i2a'[i] = i2a[i]
               \/ \E j \in 1 .. Len(<<RBEP_INIT_ACK, RBEP_GETBUF>>) :
                    i2a'[i].msg.type = <<RBEP_INIT_ACK, RBEP_GETBUF>>[j]
      BY <2>1, <3>1, SendOnKeeps
    <3> QED BY <2>2, <3>2 DEF Ring, AfkInv, UpInv
  <2>4. UNCHANGED dcpVars
    BY <1>7 DEF OnInit
  <2> QED BY <2>3, <2>4 DEF dcpVars, BufferKnown, AfkInv, AfkTypeOK, TypeOK, UpInv
<1>8. CASE a2i_msg.type = RBEP_GETBUF_ACK /\ OnGetbufAck(ep, a2i_msg)
  <2> DEFINE ts == <<RBEP_INIT_TX, RBEP_INIT_RX, RBEP_START>>
  <2>1. ts \in Seq(DcpTypes)
    BY DEF DcpTypes
  <2>2. a2i_msg.dva = ep /\ ep \in DeviceEps
    BY <1>1, <1>8, AfkAssumption
    DEF AfterStart, RBEP_INIT, RBEP_GETBUF_ACK, RBEP_RECV, ep
  <2>3. bfr_dva' = ep /\ afk_inited' = TRUE /\ UNCHANGED <<afk_started, dumped>>
        /\ SendOn(ep, ts)
    BY <1>8, <2>2 DEF OnGetbufAck
  <2>4. BufferKnown'
    BY <1>4, <2>3 DEF BufferKnown, ep
  <2> HIDE DEF ts
  <2>5. /\ i2a' \in Seq(DcpMessages) /\ Len(i2a') <= QLen /\ AicTypeOK'
    BY <2>1, <2>2, <2>3, SendOnKeeps DEF AfkInv
  <2> QED BY <2>2, <2>3, <2>4, <2>5 DEF AfkInv, AfkTypeOK, TypeOK, UpInv
<1>9. CASE a2i_msg.type = RBEP_START_ACK /\ OnStartAck
  <2>1. SomeUp
    <3>1. AfterStart(out)
      BY <1>1, <1>9 DEF RBEP_INIT, RBEP_GETBUF_ACK, RBEP_START_ACK
    <3> QED BY <3>1 DEF Commit, AfkInv, UpInv
  <2> QED BY <1>6, <1>9, <2>1
          DEF OnStartAck, BufferKnown, AfkInv, AfkTypeOK, TypeOK, UpInv
<1>10. CASE a2i_msg.type = RBEP_RECV /\ OnRecv(ep)
  <2>1. SomeUp /\ bfr_dva # 0
    <3>1. AfterStart(out)
      BY <1>1, <1>10 DEF RBEP_INIT, RBEP_GETBUF_ACK, RBEP_RECV
    <3> QED BY <3>1 DEF Commit, AfkInv, UpInv, BufferKnown
  <2>2. dumped' = [ep |-> ep, dva |-> bfr_dva] /\ SendNothing
        /\ UNCHANGED <<bfr_dva, afk_inited, afk_started>>
    BY <1>10 DEF OnRecv
  <2>3. dumped'.ep = ep /\ dumped'.dva = bfr_dva
    BY <2>2
  <2>4. ep \in DeviceEps
    BY <1>1 DEF ep
  <2> QED BY <1>6, <2>1, <2>2, <2>3, <2>4
          DEF BufferKnown, AfkInv, AfkTypeOK, TypeOK, UpInv
<1>11. CASE SendNothing /\ UNCHANGED dcpVars
  BY <1>6, <1>11 DEF dcpVars, BufferKnown, AfkInv, AfkTypeOK, TypeOK, UpInv
<1> QED BY <1>2, <1>7, <1>8, <1>9, <1>10, <1>11 DEF DcpEpHandler

(* Nothing has been sent, received or opened.                              *)
LEMMA AfkInit == Init => AfkInv
<1> SUFFICES ASSUME Init
             PROVE  AfkInv
  OBVIOUS
<1>1. got = [ep \in DeviceEps |-> <<>>] /\ i2a = <<>> /\ todo = <<>> /\ out = NoSend
  BY DEF Init
<1>2. /\ DOMAIN got = DeviceEps
      /\ \A ep \in DeviceEps : got[ep] \in Seq(DcpTypes) /\ ~Up(ep)
  BY <1>1 DEF Up
<1>3. /\ bfr_dva = 0 /\ afk_inited = FALSE /\ afk_started = FALSE
      /\ dumped = Nowhere /\ dumped.ep = 0 /\ dumped.dva = 0
  BY DEF Init, DcpInit, Nowhere
<1>4. AicTypeOK
  BY DEF Init, AicTypeOK
<1>5. opened = {} /\ recvs \in 0 .. MaxRecvs /\ lost \in BOOLEAN
  <2>1. opened = {} /\ recvs = 0 /\ lost = FALSE
    BY DEF Init
  <2>2. MaxRecvs \in Nat
    BY AfkAssumption
  <2>3. recvs \in 0 .. MaxRecvs
    BY <2>1, <2>2
  <2> QED BY <2>1, <2>3
<1>6. /\ i2a \in Seq([ep : DeviceEps, msg : [type : DcpTypes]]) /\ Len(i2a) <= QLen
      /\ todo \in Seq(Sends) /\ out \in Sends \cup {NoSend}
  BY <1>1, RTKitAssumption
<1>7. AfkTypeOK
  BY <1>1, <1>2, <1>3, <1>4, <1>5, <1>6 DEF AfkTypeOK, TypeOK
<1>8. UpInv
  BY <1>1, <1>2, <1>3 DEF UpInv, SomeUp
<1> QED BY <1>7, <1>8 DEF AfkInv

LEMMA AfkStep == AfkInv /\ [Next]_vars => AfkInv'
<1>1. ASSUME AfkInv, Next
      PROVE  AfkInv'
  BY <1>1, OpenKeeps, RingDoorbellKeeps, ReceiveKeeps, StageKeeps, CommitKeeps DEF Next
<1>2. ASSUME AfkInv, UNCHANGED vars
      PROVE  AfkInv'
  <2>1. AfkTypeOK'
    BY <1>2 DEF vars, rtkitVars, aicVars, dcpVars, afkVars, AfkInv, AfkTypeOK, TypeOK,
                AicTypeOK
  <2>2. (SomeUp' <=> SomeUp) /\ (BufferKnown' <=> BufferKnown)
    BY <1>2 DEF vars, dcpVars, afkVars, SomeUp, Up, BufferKnown
  <2>3. UpInv'
    BY <1>2, <2>2 DEF vars, rtkitVars, dcpVars, afkVars, AfkInv, UpInv, AfterStart
  <2> QED BY <2>1, <2>3 DEF AfkInv
<1> QED BY <1>1, <1>2

LEMMA AfkInvariant == Spec => []AfkInv
<1> QED BY AfkInit, AfkStep, PTL DEF Spec

(* The types of the engine's, the device's and the drivers' variables, for *)
(* any number of endpoints, any ring and any acknowledgement of START.     *)
THEOREM AfkTypeCorrect == Spec => []TypeOK
<1>1. AfkInv => TypeOK
  BY DEF AfkInv, AfkTypeOK
<1> QED BY <1>1, AfkInvariant, PTL

(* apple_dcp.c declares the transport up, and dumps the shared buffer, only*)
(* after START has reached a driver and with a buffer: however the         *)
(* endpoints interleave and whatever the full ring drops.                  *)
THEOREM UpHasBufferCorrect == Spec => []UpHasBuffer
<1>1. AfkInv => UpHasBuffer
  BY DEF AfkInv, UpInv, UpHasBuffer, SomeUp, BufferKnown
<1> QED BY <1>1, AfkInvariant, PTL
-----------------------------------------------------------------------------
\* The place of a message in the handshake.
Place(t) == CASE t = RBEP_INIT_ACK -> 1
              [] t = RBEP_GETBUF   -> 2
              [] t = RBEP_INIT_TX  -> 3
              [] t = RBEP_INIT_RX  -> 4
              [] t = RBEP_START    -> 5

\* What the driver sends that the device answers, and where the answer starts.
Asks(o)   == o.msg.type \in {RBEP_INIT, RBEP_GETBUF_ACK}
Before(o) == IF o.msg.type = RBEP_INIT THEN 0 ELSE 2

Silent(ep) == \A i \in 1 .. Len(i2a) : i2a[i].ep # ep

(* What is queued for an endpoint ascends from what it received, without   *)
(* gaps, and is one answer only.                                           *)
QueueInv ==
  /\ \A ep \in DeviceEps : \A k \in 1 .. Len(got[ep]) : Place(got[ep][k]) = k
  /\ \A i \in 1 .. Len(i2a) : Place(i2a[i].msg.type) > Len(got[i2a[i].ep])
  /\ \A i, j \in 1 .. Len(i2a) : i < j /\ i2a[i].ep = i2a[j].ep =>
       /\ Place(i2a[i].msg.type) < Place(i2a[j].msg.type)
       /\ Place(i2a[i].msg.type) <= 2 => Place(i2a[j].msg.type) <= 2
  /\ \A i \in 1 .. Len(i2a) :
       \A k \in Len(got[i2a[i].ep]) + 1 .. Place(i2a[i].msg.type) - 1 :
         \E j \in 1 .. i - 1 : i2a[j].ep = i2a[i].ep /\ Place(i2a[j].msg.type) = k

\* A question finds its endpoint silent, at the place its answer starts from.
Due(o) == o.ep \in opened /\ Silent(o.ep) /\ Len(got[o.ep]) = Before(o)

\* The driver has one question at most for an endpoint.
OneQuestion ==
  \A i \in 1 .. Len(todo) : Asks(todo[i]) =>
    /\ ~(Asks(out) /\ out.ep = todo[i].ep)
    /\ \A j \in 1 .. Len(todo) : Asks(todo[j]) /\ todo[j].ep = todo[i].ep => i = j

AskInv ==
  /\ \A ep \in DeviceEps \ opened : got[ep] = <<>> /\ Silent(ep)
  /\ \A i \in 1 .. Len(todo) : Asks(todo[i]) => Due(todo[i])
  /\ Asks(out) => Due(out)
  /\ OneQuestion

OrderInv == AfkTypeOK /\ QueueInv /\ AskInv

LEMMA PlaceFacts ==
  /\ Place(RBEP_INIT_ACK) = 1 /\ Place(RBEP_GETBUF) = 2 /\ Place(RBEP_INIT_TX) = 3
  /\ Place(RBEP_INIT_RX) = 4 /\ Place(RBEP_START) = 5
  /\ \A t \in DcpTypes : /\ Place(t) \in DOMAIN Handshake /\ Handshake[Place(t)] = t
                         /\ Place(t) = 2 <=> t = RBEP_GETBUF
  /\ DOMAIN Handshake = 1 .. 5
  /\ \A k \in 1 .. 5 : Handshake[k] \in DcpTypes /\ Place(Handshake[k]) = k
<1>1. /\ Place(RBEP_INIT_ACK) = 1 /\ Place(RBEP_GETBUF) = 2 /\ Place(RBEP_INIT_TX) = 3
      /\ Place(RBEP_INIT_RX) = 4 /\ Place(RBEP_START) = 5
  BY DEF Place, RBEP_INIT_ACK, RBEP_GETBUF, RBEP_INIT_TX, RBEP_INIT_RX, RBEP_START
<1>2. /\ DOMAIN Handshake = 1 .. 5
      /\ Handshake[1] = RBEP_INIT_ACK /\ Handshake[2] = RBEP_GETBUF
      /\ Handshake[3] = RBEP_INIT_TX /\ Handshake[4] = RBEP_INIT_RX
      /\ Handshake[5] = RBEP_START
  BY DEF Handshake
<1>3. ASSUME NEW t \in DcpTypes
      PROVE  /\ Place(t) \in DOMAIN Handshake /\ Handshake[Place(t)] = t
             /\ Place(t) = 2 <=> t = RBEP_GETBUF
  BY <1>1, <1>2 DEF DcpTypes
<1>4. ASSUME NEW k \in 1 .. 5
      PROVE  Handshake[k] \in DcpTypes /\ Place(Handshake[k]) = k
  <2>1. k = 1 \/ k = 2 \/ k = 3 \/ k = 4 \/ k = 5
    OBVIOUS
  <2> QED BY <1>1, <1>2, <2>1 DEF DcpTypes
<1> QED BY <1>1, <1>2, <1>3, <1>4

(* What the driver sends asks only when it is INIT or GETBUF_ACK.          *)
LEMMA AskKinds ==
  /\ ~Asks(NoSend)
  /\ \A ep : /\ Asks(On(ep, Rbep(RBEP_INIT))) /\ Before(On(ep, Rbep(RBEP_INIT))) = 0
             /\ Asks(On(ep, GetbufAck(ep))) /\ Before(On(ep, GetbufAck(ep))) = 2
             /\ ~Asks(On(ep, Rbep(RBEP_RECV))) /\ ~Asks(On(ep, Rbep(GuestStartAck)))
  /\ \A ep, m : On(ep, m).ep = ep /\ On(ep, m).msg = m
<1>1. NoSend.msg.type \notin {RBEP_INIT, RBEP_GETBUF_ACK}
  BY DEF NoSend, On, NoMsg, RBEP_INIT, RBEP_GETBUF_ACK
<1> QED BY <1>1, AfkAssumption
        DEF Asks, Before, On, Rbep, GetbufAck, RBEP_INIT, RBEP_GETBUF_ACK, RBEP_RECV

(* A message may be appended to the outbox if it asks nothing, or asks for *)
(* an endpoint without a question.                                         *)
LEMMA AppendAsks ==
  ASSUME todo \in Seq(Sends), NEW o \in Sends, todo' = Append(todo, o), out' = out,
         OneQuestion,
         Asks(o) => /\ ~(Asks(out) /\ out.ep = o.ep)
                    /\ \A i \in 1 .. Len(todo) : ~(Asks(todo[i]) /\ todo[i].ep = o.ep)
  PROVE  OneQuestion'
<1> DEFINE n == Len(todo)
<1>1. /\ n \in Nat /\ Len(todo') = n + 1 /\ todo'[n + 1] = o
      /\ \A i \in 1 .. n : todo'[i] = todo[i]
  OBVIOUS
<1>2. \A x : Asks(x)' <=> Asks(x)
  BY DEF Asks
<1>3. \A i \in 1 .. Len(todo') : i \in 1 .. n \/ i = n + 1
  BY <1>1
<1> QED BY <1>1, <1>2, <1>3 DEF OneQuestion, Asks

(* Neither ring, received types nor openings change.                       *)
LEMMA SameQueue ==
  ASSUME UNCHANGED <<i2a, got>>
  PROVE  /\ QueueInv' <=> QueueInv
         /\ \A ep : Silent(ep)' <=> Silent(ep)
         /\ \A o : Asks(o)' <=> Asks(o)
         /\ opened \subseteq opened' => \A o : Due(o) => Due(o)'
BY DEF QueueInv, Silent, Due, Asks, Before, Place, RBEP_INIT_ACK, RBEP_GETBUF,
       RBEP_INIT_TX, RBEP_INIT_RX, RBEP_START

LEMMA OpenKeepsOrder ==
  ASSUME OrderInv, AfkTypeOK', NEW ep \in DeviceEps, Open(ep)
  PROVE  OrderInv'
<1> DEFINE o == On(ep, Rbep(RBEP_INIT))
<1>1. o \in Sends /\ Asks(o) /\ Before(o) = 0 /\ o.ep = ep
  BY AskKinds DEF Sends
<1> HIDE DEF o
<1>2. /\ todo' = Append(todo, o) /\ todo \in Seq(Sends) /\ out' = out
      /\ opened' = opened \cup {ep} /\ ep \notin opened
      /\ UNCHANGED <<i2a, got>>
  BY DEF Open, OrderInv, AfkTypeOK, o, rtkitVars
<1>3. Due(o)'
  <2>1. got'[ep] = <<>> /\ Silent(ep)'
    BY <1>2, SameQueue DEF OrderInv, AskInv
  <2> QED BY <1>1, <1>2, <2>1 DEF Due, Before
<1>4. \A x : Due(x) => Due(x)'
  BY <1>2, SameQueue
<1>5. \A x : Due(x) => x.ep # ep
  BY <1>2 DEF Due
<1>6. OneQuestion'
  BY <1>1, <1>2, <1>5, AppendAsks DEF OrderInv, AskInv
<1>7. \A i \in 1 .. Len(todo') : (i \in 1 .. Len(todo) /\ todo'[i] = todo[i]) \/ todo'[i] = o
  BY <1>1, <1>2, AppendKeeps
<1>8. AskInv'
  BY <1>2, <1>3, <1>4, <1>6, <1>7, SameQueue DEF OrderInv, AskInv
<1> QED BY <1>2, <1>8, SameQueue DEF OrderInv

LEMMA RingDoorbellKeepsOrder ==
  ASSUME OrderInv, AfkTypeOK', NEW ep \in DeviceEps, RingDoorbell(ep)
  PROVE  OrderInv'
<1> DEFINE o == On(ep, Rbep(RBEP_RECV))
<1>1. o \in Sends /\ ~Asks(o)
  BY AskKinds DEF Sends
<1> HIDE DEF o
<1>2. /\ todo' = Append(todo, o) /\ todo \in Seq(Sends) /\ UNCHANGED <<out, opened, i2a, got>>
  BY DEF RingDoorbell, OrderInv, AfkTypeOK, o, rtkitVars
<1>3. OneQuestion'
  BY <1>1, <1>2, AppendAsks DEF OrderInv, AskInv
<1>4. \A i \in 1 .. Len(todo') : (i \in 1 .. Len(todo) /\ todo'[i] = todo[i]) \/ todo'[i] = o
  BY <1>1, <1>2, AppendKeeps
<1>5. AskInv'
  BY <1>1, <1>2, <1>3, <1>4, SameQueue DEF OrderInv, AskInv
<1> QED BY <1>2, <1>5, SameQueue DEF OrderInv

(* The oldest of the outbox takes the free register.                       *)
LEMMA StageKeepsOrder ==
  ASSUME OrderInv, AfkTypeOK', Stage
  PROVE  OrderInv'
<1>1. /\ todo \in Seq(Sends) /\ todo # <<>> /\ out = NoSend
      /\ UNCHANGED <<opened, i2a, got>>
  BY DEF Stage, A2ISend0, OrderInv, AfkTypeOK
<1>2. /\ Head(todo) = todo[1] /\ 1 \in 1 .. Len(todo) /\ Len(todo) \in Nat
      /\ Len(Tail(todo)) = Len(todo) - 1
      /\ \A i \in 1 .. Len(Tail(todo)) :
           i + 1 \in 1 .. Len(todo) /\ Tail(todo)[i] = todo[i + 1] /\ i \in Nat
  BY <1>1
<1>3. out' = todo[1] /\ todo' = Tail(todo)
  BY <1>2 DEF Stage
<1>4. OneQuestion'
  BY <1>2, <1>3 DEF OrderInv, AskInv, OneQuestion, Asks
<1>5. AskInv'
  BY <1>1, <1>2, <1>3, <1>4, SameQueue DEF OrderInv, AskInv
<1> QED BY <1>1, <1>5, SameQueue DEF OrderInv

(* The driver's answer: nothing, or one message, a question only to GETBUF. *)
LEMMA AnswerAsks ==
  ASSUME NEW ep \in DeviceEps, NEW type \in DcpTypes
  PROVE  \/ Answer(ep, type) = <<>>
         \/ \E o \in Sends : /\ Answer(ep, type) = <<o>> /\ o.ep = ep
                             /\ Asks(o) => type = RBEP_GETBUF /\ Before(o) = 2
<1>1. CASE type = RBEP_GETBUF
  <2>1. Answer(ep, type) = <<On(ep, GetbufAck(ep))>>
    BY <1>1 DEF Answer, RBEP_GETBUF, RBEP_START
  <2> QED BY <1>1, <2>1, AskKinds DEF Sends
<1>2. CASE type = RBEP_START
  <2>1. Answer(ep, type) = <<On(ep, Rbep(GuestStartAck))>>
    BY <1>2 DEF Answer, RBEP_GETBUF, RBEP_START
  <2> QED BY <2>1, AskKinds DEF Sends
<1>3. CASE type \notin {RBEP_GETBUF, RBEP_START}
  BY <1>3 DEF Answer
<1> QED BY <1>1, <1>2, <1>3

(* The head of the ring is the next of its endpoint's handshake.           *)
LEMMA HeadIsNext ==
  ASSUME AfkTypeOK, QueueInv, i2a # <<>>
  PROVE  /\ i2a[1].ep \in DeviceEps /\ i2a[1].msg.type \in DcpTypes
         /\ Place(i2a[1].msg.type) = Len(got[i2a[1].ep]) + 1
<1>0. i2a \in Seq(DcpMessages)
  BY DEF AfkTypeOK, TypeOK, DcpMessages
<1>1. 1 \in 1 .. Len(i2a) /\ i2a[1] \in DcpMessages
  BY <1>0
<1>2. i2a[1].ep \in DeviceEps /\ i2a[1].msg.type \in DcpTypes
  BY <1>1 DEF DcpMessages
<1> DEFINE g == Len(got[i2a[1].ep])
           p == Place(i2a[1].msg.type)
<1>3. g \in Nat /\ p \in 1 .. 5
  BY <1>2, PlaceFacts DEF AfkTypeOK, TypeOK
<1>4. p > g
  BY <1>1 DEF QueueInv
<1>5. \A k \in g + 1 .. p - 1 : \E j \in 1 .. 1 - 1 : TRUE
  BY <1>1 DEF QueueInv
<1> HIDE DEF g, p
<1>6. p = g + 1
  BY <1>3, <1>4, <1>5
<1> QED BY <1>2, <1>6 DEF g, p

LEMMA ReceiveKeepsOrder ==
  ASSUME OrderInv, AfkTypeOK', Receive
  PROVE  OrderInv'
<1>1. /\ i2a \in Seq(DcpMessages) /\ i2a # <<>> /\ i2a' = Tail(i2a)
      /\ Head(i2a) = i2a[1]
  BY DEF Receive, I2ARecv1, OrderInv, AfkTypeOK, TypeOK, DcpMessages
<1>2. /\ Len(i2a) \in Nat /\ 1 \in 1 .. Len(i2a) /\ Len(i2a') = Len(i2a) - 1
      /\ \A i \in 1 .. Len(i2a') :
           /\ i \in Nat /\ i + 1 \in 1 .. Len(i2a) /\ i2a'[i] = i2a[i + 1]
           /\ i2a[i + 1].ep \in DeviceEps /\ i2a[i + 1].msg.type \in DcpTypes
  <2>1. /\ Len(i2a) \in Nat /\ 1 \in 1 .. Len(i2a) /\ Len(i2a') = Len(i2a) - 1
        /\ \A i \in 1 .. Len(i2a') :
             i \in Nat /\ i + 1 \in 1 .. Len(i2a) /\ i2a'[i] = i2a[i + 1]
    BY <1>1
  <2>2. \A j \in 1 .. Len(i2a) : i2a[j] \in DcpMessages
    BY <1>1
  <2> QED BY <2>1, <2>2 DEF DcpMessages
<1>3. PICK ep \in DeviceEps, type \in DcpTypes :
        /\ ep = i2a[1].ep /\ type = i2a[1].msg.type
        /\ Place(type) = Len(got[ep]) + 1 /\ Place(type) \in 1 .. 5
  BY <1>1, HeadIsNext, PlaceFacts, SMTT(60) DEF OrderInv
<1>4. /\ got' = [got EXCEPT ![ep] = Append(@, type)]
      /\ todo' = todo \o Answer(ep, type)
      /\ UNCHANGED <<opened, out>>
  BY <1>1, <1>3 DEF Receive
<1>5. /\ DOMAIN got = DeviceEps /\ todo \in Seq(Sends)
      /\ \A e \in DeviceEps : got[e] \in Seq(DcpTypes) /\ Len(got[e]) \in Nat
  BY DEF OrderInv, AfkTypeOK, TypeOK
<1>6. /\ got'[ep] = Append(got[ep], type) /\ Len(got'[ep]) = Len(got[ep]) + 1
      /\ got'[ep][Len(got[ep]) + 1] = type
      /\ \A k \in 1 .. Len(got[ep]) : got'[ep][k] = got[ep][k]
      /\ \A e \in DeviceEps : e # ep => got'[e] = got[e]
  <2>1. got'[ep] = Append(got[ep], type) /\ \A e \in DeviceEps : e # ep => got'[e] = got[e]
    BY <1>3, <1>4, <1>5
  <2>2. got[ep] \in Seq(DcpTypes)
    BY <1>3, <1>5
  <2> QED BY <1>3, <2>1, <2>2
<1>7. ~Silent(ep)
  BY <1>2, <1>3 DEF Silent
<1>8. \A i \in 1 .. Len(i2a') : i2a'[i].ep = ep => Place(i2a'[i].msg.type) > Place(type)
  BY <1>2, <1>3 DEF OrderInv, QueueInv
<1>9. \A i \in 1 .. Len(i2a') : i2a'[i].ep = ep /\ Place(type) <= 2 =>
        Place(i2a'[i].msg.type) <= 2
  BY <1>2, <1>3, SMTT(60) DEF OrderInv, QueueInv
<1>10. QueueInv'
  <2>1. \A e \in DeviceEps : \A k \in 1 .. Len(got'[e]) : Place(got'[e][k]) = k
    <3> SUFFICES ASSUME NEW e \in DeviceEps, NEW k \in 1 .. Len(got'[e])
                 PROVE  Place(got'[e][k]) = k
      OBVIOUS
    <3>1. \A j \in 1 .. Len(got[e]) : Place(got[e][j]) = j
      BY DEF OrderInv, QueueInv
    <3>2. CASE e # ep
      BY <1>6, <3>1, <3>2
    <3>3. CASE e = ep /\ k <= Len(got[ep])
      BY <1>3, <1>5, <1>6, <3>1, <3>3, SMTT(60)
    <3>4. CASE e = ep /\ k = Len(got[ep]) + 1
      BY <1>3, <1>6, <3>4
    <3> QED BY <1>3, <1>5, <1>6, <3>2, <3>3, <3>4, SMTT(60)
  <2>2. \A i \in 1 .. Len(i2a') : Place(i2a'[i].msg.type) > Len(got'[i2a'[i].ep])
    <3> SUFFICES ASSUME NEW i \in 1 .. Len(i2a')
                 PROVE  Place(i2a'[i].msg.type) > Len(got'[i2a'[i].ep])
      OBVIOUS
    <3>1. Place(i2a'[i].msg.type) > Len(got[i2a'[i].ep])
      BY <1>2 DEF OrderInv, QueueInv
    <3> QED BY <1>2, <1>3, <1>6, <1>8, <3>1
  <2>3. \A i, j \in 1 .. Len(i2a') : i < j /\ i2a'[i].ep = i2a'[j].ep =>
          /\ Place(i2a'[i].msg.type) < Place(i2a'[j].msg.type)
          /\ Place(i2a'[i].msg.type) <= 2 => Place(i2a'[j].msg.type) <= 2
    <3> SUFFICES ASSUME NEW i \in 1 .. Len(i2a'), NEW j \in 1 .. Len(i2a'), i < j,
                        i2a'[i].ep = i2a'[j].ep
                 PROVE  /\ Place(i2a'[i].msg.type) < Place(i2a'[j].msg.type)
                        /\ Place(i2a'[i].msg.type) <= 2 => Place(i2a'[j].msg.type) <= 2
      OBVIOUS
    <3>1. i + 1 < j + 1 /\ i2a[i + 1].ep = i2a[j + 1].ep
      BY <1>2
    <3> QED BY <1>2, <3>1 DEF OrderInv, QueueInv
  <2>4. ASSUME NEW i \in 1 .. Len(i2a'),
               NEW k \in Len(got'[i2a'[i].ep]) + 1 .. Place(i2a'[i].msg.type) - 1
        PROVE  \E j \in 1 .. i - 1 :
                 i2a'[j].ep = i2a'[i].ep /\ Place(i2a'[j].msg.type) = k
    <3> DEFINE e == i2a'[i].ep
    <3>1. /\ i + 1 \in 1 .. Len(i2a) /\ i2a'[i] = i2a[i + 1] /\ e \in DeviceEps
          /\ Place(i2a'[i].msg.type) \in 1 .. 5 /\ i \in Nat
      BY <1>2, PlaceFacts
    <3>2. Len(got[e]) \in Nat /\ Len(got'[e]) >= Len(got[e]) /\ Len(got'[e]) \in Nat
      <4>1. Len(got[e]) \in Nat
        BY <1>5, <3>1
      <4>2. Len(got'[e]) = Len(got[e]) + 1 \/ Len(got'[e]) = Len(got[e])
        BY <1>6, <3>1
      <4> QED BY <4>1, <4>2
    <3>3. k \in Len(got[i2a[i + 1].ep]) + 1 .. Place(i2a[i + 1].msg.type) - 1
      BY <3>1, <3>2
    <3>4. PICK j \in 1 .. (i + 1) - 1 :
            i2a[j].ep = i2a[i + 1].ep /\ Place(i2a[j].msg.type) = k
      BY <3>1, <3>3 DEF OrderInv, QueueInv
    <3>5. j # 1
      <4>1. ASSUME j = 1 PROVE FALSE
        <5>1. e = ep /\ k = Place(type)
          BY <1>3, <3>1, <3>4, <4>1
        <5> QED BY <1>3, <1>6, <3>2, <5>1
      <4> QED BY <4>1
    <3>6. j - 1 \in 1 .. i - 1 /\ j - 1 \in 1 .. Len(i2a') /\ i2a'[j - 1] = i2a[j]
      BY <1>2, <3>1, <3>4, <3>5
    <3> QED BY <3>1, <3>4, <3>6
  <2> QED BY <2>1, <2>2, <2>3, <2>4 DEF QueueInv, Place
<1>11. ep \in opened
  BY <1>3, <1>7 DEF OrderInv, AskInv
<1>12. \A e : Silent(e) => Silent(e)'
  BY <1>2 DEF Silent
<1>13. ASSUME NEW o, o.ep \in DeviceEps, Due(o) PROVE Due(o)'
  BY <1>4, <1>6, <1>7, <1>12, <1>13 DEF Due, Before
<1>14. \A e \in DeviceEps \ opened' : got'[e] = <<>> /\ Silent(e)'
  BY <1>4, <1>6, <1>11, <1>12 DEF OrderInv, AskInv
<1>15. \A i \in 1 .. Len(todo) : todo[i] \in Sends /\ todo[i].ep \in DeviceEps
  BY <1>5, SendKinds
<1>16. \A x : Asks(x)' <=> Asks(x)
  BY DEF Asks
<1>17. (Asks(out) => Due(out))'
  <2>1. Asks(out) => out.ep \in DeviceEps /\ Due(out)
    BY SendKinds, AskKinds DEF OrderInv, AfkTypeOK, AskInv
  <2>2. out' = out
    BY <1>4
  <2> QED BY <1>13, <1>16, <2>1, <2>2
<1>18. CASE Answer(ep, type) = <<>>
  <2>1. todo' = todo
    BY <1>4, <1>5, <1>18
  <2>2. OneQuestion'
    BY <1>4, <2>1 DEF OrderInv, AskInv, OneQuestion, Asks
  <2>3. AskInv'
    BY <1>13, <1>14, <1>15, <1>16, <1>17, <2>1, <2>2 DEF OrderInv, AskInv
  <2> QED BY <1>10, <2>3 DEF OrderInv
<1>19. ASSUME NEW o \in Sends, Answer(ep, type) = <<o>>, o.ep = ep,
              Asks(o) => type = RBEP_GETBUF /\ Before(o) = 2
       PROVE  OrderInv'
  <2>1. todo' = Append(todo, o)
    BY <1>4, <1>5, <1>19
  <2>2. \A x : Due(x) => x.ep # ep
    BY <1>7 DEF Due
  <2>3. OneQuestion'
    BY <1>4, <1>5, <1>19, <2>1, <2>2, AppendAsks DEF OrderInv, AskInv
  <2>4. Asks(o) => Due(o)'
    <3> SUFFICES ASSUME Asks(o) PROVE Due(o)'
      OBVIOUS
    <3>1. Place(type) = 2 /\ Before(o) = 2
      BY <1>3, <1>19, PlaceFacts
    <3>2. Silent(ep)'
      <4>1. ASSUME NEW i \in 1 .. Len(i2a'), i2a'[i].ep = ep
            PROVE  FALSE
        <5>1. Place(i2a'[i].msg.type) \in 1 .. 5
          BY <1>2, PlaceFacts
        <5> QED BY <1>8, <1>9, <3>1, <4>1, <5>1
      <4> QED BY <4>1 DEF Silent
    <3>3. Len(got'[ep]) = 2
      BY <1>3, <1>5, <1>6, <3>1
    <3> QED BY <1>4, <1>11, <1>19, <3>1, <3>2, <3>3 DEF Due, Before
  <2>5. \A i \in 1 .. Len(todo') :
          (i \in 1 .. Len(todo) /\ todo'[i] = todo[i]) \/ todo'[i] = o
    BY <1>5, <2>1, AppendKeeps
  <2>6. AskInv'
    BY <1>13, <1>14, <1>15, <1>16, <1>17, <2>3, <2>4, <2>5 DEF OrderInv, AskInv
  <2> QED BY <1>10, <2>6 DEF OrderInv
<1>20. \/ Answer(ep, type) = <<>>
       \/ \E o \in Sends : /\ Answer(ep, type) = <<o>> /\ o.ep = ep
                           /\ Asks(o) => type = RBEP_GETBUF /\ Before(o) = 2
  BY <1>3, AnswerAsks
<1> QED BY <1>18, <1>19, <1>20

(* The answer ts to the question out, from its place on.                   *)
LEMMA AnswerKeepsOrder ==
  ASSUME OrderInv, AfkTypeOK', Asks(out), out.ep \in DeviceEps, out' = NoSend,
         UNCHANGED <<opened, todo, got>>,
         NEW ts \in Seq(DcpTypes), SendOn(out.ep, ts),
         \A j \in 1 .. Len(ts) : Place(ts[j]) = Before(out) + j,
         Before(out) = 0 => Len(ts) <= 2
  PROVE  OrderInv'
<1> DEFINE n == Len(i2a)
<1>1. PICK ep \in DeviceEps, base \in {0, 2} :
        /\ ep = out.ep /\ base = Before(out)
        /\ Silent(ep) /\ Len(got[ep]) = base /\ ep \in opened
  BY DEF OrderInv, AskInv, Due, Before
<1>2. PICK r \in 0 .. Len(ts) :
        /\ Len(i2a') = n + r
        /\ \A i \in 1 .. n : i2a'[i] = i2a[i]
        /\ \A j \in 1 .. r : i2a'[n + j] = On(ep, Rbep(ts[j]))
  BY <1>1, SendOnAppends DEF OrderInv
<1>3. n \in Nat /\ Len(ts) \in Nat /\ got' = got
  BY SMTT(60) DEF OrderInv, AfkTypeOK, TypeOK
<1>4. \A j \in 1 .. r : i2a'[n + j].ep = ep /\ Place(i2a'[n + j].msg.type) = base + j
  <2> SUFFICES ASSUME NEW j \in 1 .. r
               PROVE  i2a'[n + j].ep = ep /\ Place(i2a'[n + j].msg.type) = base + j
    OBVIOUS
  <2>1. i2a'[n + j] = On(out.ep, Rbep(ts[j])) /\ j \in 1 .. Len(ts)
    BY <1>1, <1>2, <1>3
  <2>2. i2a'[n + j].ep = out.ep /\ i2a'[n + j].msg.type = ts[j]
    BY <2>1 DEF On, Rbep
  <2> QED BY <1>1, <2>1, <2>2
<1>5. \A i \in 1 .. n : i2a'[i] = i2a[i] /\ i2a[i].ep # ep
  BY <1>1, <1>2 DEF Silent
<1>6. \A i \in 1 .. Len(i2a') : i \in 1 .. n \/ \E j \in 1 .. r : i = n + j
  <2> SUFFICES ASSUME NEW i \in 1 .. Len(i2a'), i \notin 1 .. n
               PROVE  \E j \in 1 .. r : i = n + j
    OBVIOUS
  <2>1. i - n \in 1 .. r /\ i = n + (i - n)
    BY <1>2, <1>3
  <2> QED BY <2>1
<1>7. base = 0 => r <= 2
  BY <1>1, <1>2, <1>3
<1> HIDE DEF n
<1>8. \A i \in 1 .. Len(i2a') : Place(i2a'[i].msg.type) > Len(got[i2a'[i].ep])
  <2> SUFFICES ASSUME NEW i \in 1 .. Len(i2a')
               PROVE  Place(i2a'[i].msg.type) > Len(got[i2a'[i].ep])
    OBVIOUS
  <2>1. CASE i \in 1 .. n
    BY <1>5, <2>1 DEF OrderInv, QueueInv, n
  <2>2. ASSUME NEW j \in 1 .. r, i = n + j PROVE Place(i2a'[i].msg.type) > Len(got[i2a'[i].ep])
    BY <1>1, <1>2, <1>4, <2>2, SMTT(60)
  <2> QED BY <1>6, <2>1, <2>2
<1>9. \A i, j \in 1 .. Len(i2a') : i < j /\ i2a'[i].ep = i2a'[j].ep =>
        /\ Place(i2a'[i].msg.type) < Place(i2a'[j].msg.type)
        /\ Place(i2a'[i].msg.type) <= 2 => Place(i2a'[j].msg.type) <= 2
  <2> SUFFICES ASSUME NEW i \in 1 .. Len(i2a'), NEW j \in 1 .. Len(i2a'), i < j,
                      i2a'[i].ep = i2a'[j].ep
               PROVE  /\ Place(i2a'[i].msg.type) < Place(i2a'[j].msg.type)
                      /\ Place(i2a'[i].msg.type) <= 2 => Place(i2a'[j].msg.type) <= 2
    OBVIOUS
  <2>1. CASE j \in 1 .. n
    <3>1. i \in 1 .. n
      BY <1>3, <2>1
    <3> QED BY <1>5, <2>1, <3>1 DEF OrderInv, QueueInv, n
  <2>2. ASSUME NEW k \in 1 .. r, j = n + k
        PROVE  /\ Place(i2a'[i].msg.type) < Place(i2a'[j].msg.type)
               /\ Place(i2a'[i].msg.type) <= 2 => Place(i2a'[j].msg.type) <= 2
    <3>1. i2a'[j].ep = ep
      BY <1>4, <2>2
    <3>2. PICK l \in 1 .. r : i = n + l
      BY <1>5, <1>6, <3>1
    <3>3. /\ Place(i2a'[i].msg.type) = base + l
          /\ Place(i2a'[j].msg.type) = base + k
      BY <1>4, <2>2, <3>2
    <3>4. l < k
      BY <1>2, <1>3, <2>2, <3>2
    <3>5. l \in 1 .. r /\ k \in 1 .. r /\ r \in Nat
      BY <1>2, <1>3
    <3>6. CASE base = 0
      BY <1>7, <3>3, <3>4, <3>5, <3>6
    <3>7. CASE base = 2
      BY <3>3, <3>4, <3>5, <3>7
    <3> QED BY <3>6, <3>7
  <2> QED BY <1>6, <2>1, <2>2
<1>10. ASSUME NEW i \in 1 .. Len(i2a'),
              NEW k \in Len(got[i2a'[i].ep]) + 1 .. Place(i2a'[i].msg.type) - 1
       PROVE  \E j \in 1 .. i - 1 : i2a'[j].ep = i2a'[i].ep /\ Place(i2a'[j].msg.type) = k
  <2>1. CASE i \in 1 .. n
    <3>1. k \in Len(got[i2a[i].ep]) + 1 .. Place(i2a[i].msg.type) - 1
      BY <1>5, <2>1
    <3>2. PICK j \in 1 .. i - 1 : i2a[j].ep = i2a[i].ep /\ Place(i2a[j].msg.type) = k
      BY <2>1, <3>1 DEF OrderInv, QueueInv, n
    <3>3. j \in 1 .. n
      BY <1>3, <2>1, <3>2
    <3> QED BY <1>5, <2>1, <3>2, <3>3
  <2>2. ASSUME NEW j \in 1 .. r, i = n + j
        PROVE  \E l \in 1 .. i - 1 : i2a'[l].ep = i2a'[i].ep /\ Place(i2a'[l].msg.type) = k
    <3>1. i2a'[i].ep = ep /\ k \in base + 1 .. base + j - 1
      <4>1. i2a'[i].ep = ep /\ Place(i2a'[i].msg.type) = base + j
        BY <1>4, <2>2
      <4>2. Len(got[i2a'[i].ep]) = base
        BY <1>1, <4>1
      <4> QED BY <4>1, <4>2
    <3>2. k - base \in 1 .. r /\ n + (k - base) \in 1 .. i - 1 /\ base + (k - base) = k
      <4>1. base \in Nat /\ r \in Nat /\ j \in 1 .. r /\ n \in Nat /\ i = n + j /\ k \in Int
        BY <1>2, <1>3, <2>2, SMTT(60)
      <4> QED BY <3>1, <4>1
    <3> QED BY <1>4, <3>1, <3>2
  <2> QED BY <1>6, <2>1, <2>2
<1>11. QueueInv'
  <2>1. \A e \in DeviceEps : \A k \in 1 .. Len(got'[e]) : Place(got'[e][k]) = k
    BY <1>3 DEF OrderInv, QueueInv
  <2> QED BY <1>3, <1>8, <1>9, <1>10, <2>1 DEF QueueInv, Place
<1>12. \A e : e # ep /\ Silent(e) => Silent(e)'
  <2> SUFFICES ASSUME NEW e, e # ep, Silent(e), NEW i \in 1 .. Len(i2a')
               PROVE  i2a'[i].ep # e
    BY DEF Silent
  <2>1. CASE i \in 1 .. n
    BY <1>5, <2>1 DEF Silent, n
  <2> QED BY <1>4, <1>6, <2>1
<1>13. AskInv'
  <2>1. \A x : (Asks(x)' <=> Asks(x)) /\ (Due(x) /\ x.ep # ep => Due(x)')
    BY <1>3, <1>12 DEF Asks, Due, Before
  <2>2. \A e \in DeviceEps \ opened' : got'[e] = <<>> /\ Silent(e)'
    BY <1>1, <1>3, <1>12 DEF OrderInv, AskInv
  <2>3. \A i \in 1 .. Len(todo) : Asks(todo[i]) => todo[i].ep # ep
    BY <1>1 DEF OrderInv, AskInv, OneQuestion
  <2>4. ~Asks(NoSend)
    BY AskKinds
  <2>5. OneQuestion'
    BY <2>1, <2>4 DEF OrderInv, AskInv, OneQuestion
  <2> QED BY <2>1, <2>2, <2>3, <2>4, <2>5 DEF OrderInv, AskInv
<1> QED BY <1>11, <1>13 DEF OrderInv

LEMMA CommitKeepsOrder ==
  ASSUME OrderInv, AfkTypeOK', Commit
  PROVE  OrderInv'
<1>1. /\ out \in Sends /\ a2i_msg = out.msg /\ out.ep \in DeviceEps
      /\ UNCHANGED <<opened, todo, got>> /\ out' = NoSend
      /\ DcpEpHandler(out.ep, out.msg)
  BY SendKinds DEF Commit, A2ISend1Dcp, OrderInv, AfkTypeOK
<1>2. CASE out.msg.type = RBEP_INIT /\ OnInit(out.ep)
  <2> DEFINE ts == <<RBEP_INIT_ACK, RBEP_GETBUF>>
  <2>1. /\ Asks(out) /\ Before(out) = 0 /\ ts \in Seq(DcpTypes) /\ Len(ts) = 2
        /\ Len(ts) <= 2
        /\ SendOn(out.ep, ts)
    BY <1>2 DEF Asks, Before, DcpTypes, OnInit
  <2>2. \A j \in 1 .. Len(ts) : Place(ts[j]) = Before(out) + j
    <3>1. \A j \in 1 .. 2 : j = 1 \/ j = 2
      OBVIOUS
    <3> QED BY <2>1, <3>1, PlaceFacts
  <2> HIDE DEF ts
  <2> QED BY <1>1, <2>1, <2>2, AnswerKeepsOrder
<1>3. CASE out.msg.type = RBEP_GETBUF_ACK /\ OnGetbufAck(out.ep, out.msg)
  <2> DEFINE ts == <<RBEP_INIT_TX, RBEP_INIT_RX, RBEP_START>>
  <2>1. /\ Asks(out) /\ Before(out) = 2 /\ ts \in Seq(DcpTypes) /\ Len(ts) = 3
        /\ SendOn(out.ep, ts)
    BY <1>3 DEF Asks, Before, DcpTypes, OnGetbufAck, RBEP_INIT, RBEP_GETBUF_ACK
  <2>2. /\ Before(out) # 0
        /\ \A j \in 1 .. Len(ts) : Place(ts[j]) = Before(out) + j
    <3>1. \A j \in 1 .. 3 : j = 1 \/ j = 2 \/ j = 3
      OBVIOUS
    <3> QED BY <2>1, <3>1, PlaceFacts
  <2> HIDE DEF ts
  <2> QED BY <1>1, <2>1, <2>2, AnswerKeepsOrder
<1>4. CASE UNCHANGED i2a
  <2>1. /\ QueueInv' <=> QueueInv
        /\ \A x : (Asks(x)' <=> Asks(x)) /\ (Due(x) => Due(x)')
        /\ \A e : Silent(e)' <=> Silent(e)
    BY <1>1, <1>4, SameQueue
  <2>2. OneQuestion'
    BY <1>1, <2>1, AskKinds DEF OrderInv, AskInv, OneQuestion
  <2>3. AskInv'
    BY <1>1, <2>1, <2>2, AskKinds DEF OrderInv, AskInv
  <2> QED BY <2>1, <2>3 DEF OrderInv
<1> QED BY <1>1, <1>2, <1>3, <1>4 DEF DcpEpHandler, OnStartAck, OnRecv, SendNothing

LEMMA OrderStep == OrderInv /\ AfkTypeOK' /\ [Next]_vars => OrderInv'
<1>1. ASSUME OrderInv, AfkTypeOK', Next
      PROVE  OrderInv'
  BY <1>1, OpenKeepsOrder, RingDoorbellKeepsOrder, ReceiveKeepsOrder, StageKeepsOrder,
     CommitKeepsOrder DEF Next
<1>2. ASSUME OrderInv, AfkTypeOK', UNCHANGED vars
      PROVE  OrderInv'
  <2>1. UNCHANGED <<i2a, got, todo, out, opened>>
    BY <1>2 DEF vars, rtkitVars, afkVars
  <2>2. /\ QueueInv' <=> QueueInv
        /\ \A x : (Asks(x)' <=> Asks(x)) /\ (Due(x) => Due(x)')
        /\ \A e : Silent(e)' <=> Silent(e)
    BY <2>1, SameQueue
  <2>3. OneQuestion'
    BY <1>2, <2>1, <2>2 DEF OrderInv, AskInv, OneQuestion
  <2>4. AskInv'
    BY <1>2, <2>1, <2>2, <2>3 DEF OrderInv, AskInv
  <2> QED BY <1>2, <2>2, <2>4 DEF OrderInv
<1> QED BY <1>1, <1>2

(* A message of the ring is the next of the handshake after those received *)
(* and those ahead of it.                                                  *)
LEMMA OrderInvImplies == OrderInv => HandshakeInOrder
<1> SUFFICES ASSUME OrderInv
             PROVE  HandshakeInOrder
  OBVIOUS
<1>1. i2a \in Seq(DcpMessages) /\ DOMAIN i2a = 1 .. Len(i2a) /\ Len(i2a) \in Nat
  BY DEF OrderInv, AfkTypeOK, TypeOK, DcpMessages
<1>2. \A i \in 1 .. Len(i2a) : i2a[i].ep \in DeviceEps /\ i2a[i].msg.type \in DcpTypes
  <2>1. \A i \in 1 .. Len(i2a) : i2a[i] \in DcpMessages
    BY <1>1
  <2> QED BY <2>1 DEF DcpMessages
<1>3. \A ep \in DeviceEps : /\ got[ep] \in Seq(DcpTypes) /\ DOMAIN got[ep] = 1 .. Len(got[ep])
                           /\ Len(got[ep]) \in Nat
                           /\ \A k \in 1 .. Len(got[ep]) : got[ep][k] \in DcpTypes
  BY DEF OrderInv, AfkTypeOK, TypeOK
<1>4. ASSUME NEW ep \in DeviceEps, NEW k \in DOMAIN got[ep]
      PROVE  k \in DOMAIN Handshake /\ got[ep][k] = Handshake[k]
  <2>1. k \in 1 .. Len(got[ep]) /\ got[ep][k] \in DcpTypes
    BY <1>3
  <2>2. Place(got[ep][k]) = k
    BY <2>1 DEF OrderInv, QueueInv
  <2> QED BY <2>1, <2>2, PlaceFacts
<1>5. ASSUME NEW i \in DOMAIN i2a
      PROVE  \E n \in DOMAIN Handshake :
               /\ i2a[i].msg.type = Handshake[n]
               /\ n > Len(got[i2a[i].ep])
               /\ Ahead(i) = {Handshake[k] : k \in Len(got[i2a[i].ep]) + 1 .. n - 1}
  <2> DEFINE n == Place(i2a[i].msg.type)
             g == Len(got[i2a[i].ep])
  <2>1. i \in 1 .. Len(i2a) /\ n \in 1 .. 5 /\ g \in Nat /\ n > g /\ Handshake[n] = i2a[i].msg.type
    BY <1>1, <1>2, <1>3, PlaceFacts DEF OrderInv, QueueInv
  <2>2. ASSUME NEW j \in 1 .. i - 1, i2a[j].ep = i2a[i].ep
        PROVE  /\ Place(i2a[j].msg.type) \in g + 1 .. n - 1
               /\ Handshake[Place(i2a[j].msg.type)] = i2a[j].msg.type
    <3>1. j \in 1 .. Len(i2a) /\ j < i
      BY <1>1, <2>1
    <3>2. /\ Place(i2a[j].msg.type) \in 1 .. 5
          /\ Handshake[Place(i2a[j].msg.type)] = i2a[j].msg.type
      BY <1>2, <3>1, PlaceFacts
    <3>3. Place(i2a[j].msg.type) > g /\ Place(i2a[j].msg.type) < n
      BY <2>1, <2>2, <3>1 DEF OrderInv, QueueInv
    <3> QED BY <2>1, <3>2, <3>3, SMTT(60)
  <2>3. ASSUME NEW k \in g + 1 .. n - 1
        PROVE  \E j \in 1 .. i - 1 : i2a[j].ep = i2a[i].ep /\ i2a[j].msg.type = Handshake[k]
    <3>1. PICK j \in 1 .. i - 1 : i2a[j].ep = i2a[i].ep /\ Place(i2a[j].msg.type) = k
      BY <2>1 DEF OrderInv, QueueInv
    <3> QED BY <2>2, <3>1
  <2> HIDE DEF n, g
  <2>4. Ahead(i) = {Handshake[k] : k \in g + 1 .. n - 1}
    BY <2>2, <2>3 DEF Ahead
  <2>5. n \in DOMAIN Handshake
    BY <2>1, PlaceFacts
  <2> QED BY <2>1, <2>4, <2>5 DEF g
<1> QED BY <1>4, <1>5 DEF HandshakeInOrder

(* dcp_ep_handler's answers reach each driver as a prefix of the handshake *)
(* without gaps: however the endpoints share the ring, whatever the full   *)
(* ring drops and whenever the drivers open their endpoints.               *)
THEOREM HandshakeInOrderCorrect == Spec => []HandshakeInOrder
<1>1. Init => OrderInv
  <2> SUFFICES ASSUME Init
               PROVE  OrderInv
    OBVIOUS
  <2>1. AfkTypeOK
    BY AfkInit DEF AfkInv
  <2>2. /\ got = [ep \in DeviceEps |-> <<>>] /\ i2a = <<>> /\ todo = <<>> /\ out = NoSend
        /\ Len(i2a) = 0 /\ Len(todo) = 0 /\ \A ep \in DeviceEps : Len(got[ep]) = 0
    BY DEF Init
  <2>3. QueueInv
    BY <2>2 DEF QueueInv
  <2>4. AskInv
    BY <2>2, AskKinds DEF AskInv, OneQuestion, Silent
  <2> QED BY <2>1, <2>3, <2>4 DEF OrderInv
<1>2. AfkInv => AfkTypeOK
  BY DEF AfkInv
<1> QED BY <1>1, <1>2, AfkInvariant, OrderStep, OrderInvImplies, PTL DEF Spec
=============================================================================
