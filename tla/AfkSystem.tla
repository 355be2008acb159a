----------------------------- MODULE AfkSystem -----------------------------
(***************************************************************************)
(* The DCP and the guest's display driver, from the moment the management  *)
(* handshake (RTKitSystem) has started the device's endpoints.  The driver *)
(* opens each endpoint with INIT, allocates a buffer when asked for one,   *)
(* acknowledges START and from then on rings RECV when it has written into *)
(* the endpoint's ring.  The endpoints are driven independently; only the  *)
(* mailbox is shared.  A message is received in one step here: that the    *)
(* interrupt routine pairs its register reads is RTKitSystem's concern.    *)
(***************************************************************************)
EXTENDS AppleDcp

CONSTANTS GuestStartAck, \* the type the guest acknowledges START with
          MaxRecvs       \* bound on the RECVs the guest sends

ASSUME AfkAssumption ==
  /\ MaxRecvs \in Nat
  /\ GuestStartAck \notin {RBEP_INIT, RBEP_GETBUF_ACK, RBEP_RECV}

VARIABLES opened,  \* endpoints the driver has sent INIT on
          todo,    \* messages the driver has to send, oldest first
          out,     \* the message between its SEND0 and its SEND1
          got,     \* types received on each endpoint, oldest first
          recvs,   \* RECVs sent
          lost     \* some message found the I2A ring full

afkVars == <<opened, todo, out, got, recvs, lost>>
vars == <<rtkitVars, aicVars, dcpVars, afkVars>>

NoSend == On(MGMT_EP, NoMsg)

\* The engine as the management handshake leaves it.
Init == /\ i2a = <<>> /\ a2i_msg = NoMsg
        /\ cpu_run = TRUE /\ running = TRUE /\ hello_sent = TRUE
        /\ version = 12 /\ started = DeviceEps
        /\ bufs = <<>> /\ announce = FALSE
        /\ pending = {} /\ enabled = TRUE /\ cpu_irq = FALSE
        /\ DcpInit
        /\ opened = {} /\ todo = <<>> /\ out = NoSend
        /\ got = [ep \in DeviceEps |-> <<>>]
        /\ recvs = 0 /\ lost = FALSE

Open(ep) == /\ ep \notin opened
            /\ opened' = opened \cup {ep}
            /\ todo' = Append(todo, On(ep, Rbep(RBEP_INIT)))
            /\ UNCHANGED <<rtkitVars, aicVars, dcpVars, out, got, recvs, lost>>

\* A buffer's DVA is its endpoint's number.
Answer(ep, type) ==
  CASE type = RBEP_GETBUF -> <<On(ep, GetbufAck(ep))>>
    [] type = RBEP_START  -> <<On(ep, Rbep(GuestStartAck))>>
    [] OTHER              -> <<>>

Receive == /\ I2ARecv1
           /\ LET ep == Head(i2a).ep  type == Head(i2a).msg.type
              IN  /\ got' = [got EXCEPT ![ep] = Append(@, type)]
                  /\ todo' = todo \o Answer(ep, type)
           /\ UNCHANGED <<dcpVars, opened, out, recvs, lost>>

\* The transport of ep is up for the driver: START arrived, data may flow.
Up(ep) == \E i \in DOMAIN got[ep] : got[ep][i] = RBEP_START

RingDoorbell(ep) ==
  /\ Up(ep)
  /\ recvs < MaxRecvs
  /\ recvs' = recvs + 1
  /\ todo' = Append(todo, On(ep, Rbep(RBEP_RECV)))
  /\ UNCHANGED <<rtkitVars, aicVars, dcpVars, opened, out, got, lost>>

Stage == /\ out = NoSend /\ todo # <<>>
         /\ A2ISend0(Head(todo).msg)
         /\ out' = Head(todo)
         /\ todo' = Tail(todo)
         /\ UNCHANGED <<dcpVars, opened, got, recvs, lost>>

\* How many messages the handler of out sends.
Sent == CASE out.msg.type = RBEP_INIT -> 2
          [] out.msg.type = RBEP_GETBUF_ACK -> 3
          [] OTHER -> 0

Commit == /\ out # NoSend
          /\ A2ISend1Dcp(out.ep)
          /\ lost' = (lost \/ QLen - Len(i2a) < Sent)
          /\ out' = NoSend
          /\ UNCHANGED <<opened, todo, got, recvs>>

Next == \/ \E ep \in DeviceEps : Open(ep) \/ RingDoorbell(ep)
        \/ Receive
        \/ Stage
        \/ Commit

Spec == Init /\ [][Next]_vars

\* The driver receives what is queued and sends what it has to send.
FairSpec == Spec /\ WF_vars(Receive) /\ WF_vars(Stage) /\ WF_vars(Commit)
-----------------------------------------------------------------------------
Handshake == <<RBEP_INIT_ACK, RBEP_GETBUF, RBEP_INIT_TX, RBEP_INIT_RX, RBEP_START>>

\* The types queued for the endpoint of i2a[i] before it.
Ahead(i) == {i2a[j].msg.type : j \in {k \in 1 .. i - 1 : i2a[k].ep = i2a[i].ep}}

DcpTypes == {RBEP_INIT_ACK, RBEP_GETBUF, RBEP_INIT_TX, RBEP_INIT_RX, RBEP_START}

(* The engine's, the device's and the driver's variables keep their types; *)
(* the buffer is always one that an endpoint of the device handed over.    *)
TypeOK ==
  /\ AicTypeOK
  /\ i2a \in Seq([ep : DeviceEps, msg : [type : DcpTypes]]) /\ Len(i2a) <= QLen
  /\ bfr_dva \in DeviceEps \cup {0}
  /\ afk_inited \in BOOLEAN /\ afk_started \in BOOLEAN
  /\ dumped.ep \in DeviceEps \cup {0} /\ dumped.dva \in DeviceEps \cup {0}
  /\ opened \subseteq DeviceEps
  /\ \A ep \in DeviceEps : got[ep] \in Seq(DcpTypes)
  /\ recvs \in 0 .. MaxRecvs /\ lost \in BOOLEAN

(* Each endpoint receives a prefix of the AFK handshake, in order and      *)
(* without gaps, however the endpoints interleave in the one ring and      *)
(* whatever apple_rtkit_send drops when the ring is full: a message queued *)
(* is the one that follows those received and those queued ahead of it, so *)
(* a driver never sees START without the ring descriptions before it.      *)
HandshakeInOrder ==
  /\ \A ep \in DeviceEps : \A k \in DOMAIN got[ep] :
       k \in DOMAIN Handshake /\ got[ep][k] = Handshake[k]
  /\ \A i \in DOMAIN i2a : \E n \in DOMAIN Handshake :
       /\ i2a[i].msg.type = Handshake[n]
       /\ n > Len(got[i2a[i].ep])
       /\ Ahead(i) = {Handshake[k] : k \in Len(got[i2a[i].ep]) + 1 .. n - 1}

(* The device declares the transport up, and reads the shared buffer, only *)
(* when some driver has seen START and the buffer it handed over, or that  *)
(* of another endpoint, is known: never DVA 0.                             *)
UpHasBuffer ==
  afk_started \/ dumped # Nowhere =>
    /\ afk_inited /\ bfr_dva # 0
    /\ dumped # Nowhere => dumped.dva # 0
    /\ \E ep \in DeviceEps : Up(ep)

(* Every endpoint the driver opens comes up and the device agrees, unless  *)
(* a message was dropped: the engine never resends one.                    *)
OpenedComesUp ==
  \A ep \in DeviceEps :
    (ep \in opened) ~> (lost \/ (got[ep] = Handshake /\ afk_started))

(* "Dump the ring memory so we can see the AFK header" of the ring the     *)
(* guest signalled: RECV on an endpoint reads that endpoint's buffer.      *)
RecvReadsOwnRing == dumped # Nowhere => dumped.dva = dumped.ep

(* "guest START_ACK -> transport up": a driver that has seen START         *)
(* acknowledges it and the device then has its transport up.               *)
StartIsAcknowledged == \A ep \in DeviceEps : Up(ep) ~> afk_started
=============================================================================
