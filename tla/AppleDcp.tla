------------------------------ MODULE AppleDcp ------------------------------
(***************************************************************************)
(* The display coprocessor's endpoints (apple_dcp.c) on top of the RTKit   *)
(* engine.  Each endpoint runs the coprocessor's side of the AFK handshake *)
(*     INIT -> INIT_ACK GETBUF     GETBUF_ACK -> INIT_TX INIT_RX START     *)
(*     START_ACK (transport up)    RECV (the guest wrote into its ring)    *)
(* but apple_dcp_attach gives all of them one AppleDCPState, so that there *)
(* is one buffer and one "started" flag however many endpoints there are.  *)
(***************************************************************************)
EXTENDS RTKit

VARIABLES bfr_dva,      \* DVA of the guest's shared buffer, 0 before
          afk_inited,   \* s->afk_inited
          afk_started,  \* s->started
          dumped        \* the last RECV: its endpoint and the DVA it read

dcpVars == <<bfr_dva, afk_inited, afk_started, dumped>>

RBEP_INIT       == "0x80"
RBEP_INIT_ACK   == "0xa0"
RBEP_GETBUF     == "0x89"
RBEP_GETBUF_ACK == "0xa1"
RBEP_INIT_TX    == "0x8a"
RBEP_INIT_RX    == "0x8b"
RBEP_START      == "0xa3"
RBEP_START_ACK  == "0xa4"
RBEP_RECV       == "0x85"

Rbep(t)       == [type |-> t]
GetbufAck(d)  == [type |-> RBEP_GETBUF_ACK, dva |-> d]
Nowhere       == [ep |-> 0, dva |-> 0]

DcpInit == /\ bfr_dva = 0
           /\ afk_inited = FALSE
           /\ afk_started = FALSE
           /\ dumped = Nowhere

\* apple_rtkit_send of the messages ts, in turn, on endpoint ep.
SendOn(ep, ts) == Send([i \in DOMAIN ts |-> On(ep, Rbep(ts[i]))])

\* Mutant of OnInit: asks for no buffer.
OnInitWithoutGetbuf(ep) == /\ SendOn(ep, <<RBEP_INIT_ACK>>)
                           /\ UNCHANGED dcpVars

OnInit(ep) == /\ SendOn(ep, <<RBEP_INIT_ACK, RBEP_GETBUF>>)
              /\ UNCHANGED dcpVars

\* Mutants of OnGetbufAck: START before the rings, and the DVA not recorded.
OnGetbufAckStartsFirst(ep, m) ==
  /\ bfr_dva' = m.dva
  /\ SendOn(ep, <<RBEP_START, RBEP_INIT_TX, RBEP_INIT_RX>>)
  /\ afk_inited' = TRUE
  /\ UNCHANGED <<afk_started, dumped>>

OnGetbufAckForgetsDva(ep, m) ==
  /\ SendOn(ep, <<RBEP_INIT_TX, RBEP_INIT_RX, RBEP_START>>)
  /\ afk_inited' = TRUE
  /\ UNCHANGED <<bfr_dva, afk_started, dumped>>

OnGetbufAck(ep, m) == /\ bfr_dva' = m.dva
                      /\ SendOn(ep, <<RBEP_INIT_TX, RBEP_INIT_RX, RBEP_START>>)
                      /\ afk_inited' = TRUE
                      /\ UNCHANGED <<afk_started, dumped>>

OnStartAck == /\ afk_started' = TRUE
              /\ SendNothing
              /\ UNCHANGED <<bfr_dva, afk_inited, dumped>>

OnRecv(ep) == /\ dumped' = [ep |-> ep, dva |-> bfr_dva]
              /\ SendNothing
              /\ UNCHANGED <<bfr_dva, afk_inited, afk_started>>

DcpEpHandler(ep, m) ==
  \/ m.type = RBEP_INIT       /\ OnInit(ep)
  \/ m.type = RBEP_GETBUF_ACK /\ OnGetbufAck(ep, m)
  \/ m.type = RBEP_START_ACK  /\ OnStartAck
  \/ m.type = RBEP_RECV       /\ OnRecv(ep)
  \/ /\ m.type \notin {RBEP_INIT, RBEP_GETBUF_ACK, RBEP_START_ACK, RBEP_RECV}
     /\ SendNothing
     /\ UNCHANGED dcpVars

\* The guest writes A2I_SEND1 for one of the device's endpoints: handle_a2i
\* passes the staged message to the endpoint's handler.
A2ISend1Dcp(ep) ==
  /\ ep \in DeviceEps
  /\ DcpEpHandler(ep, a2i_msg)
  /\ UNCHANGED <<a2i_msg, cpu_run, running, hello_sent, version, started, bufs,
                 announce>>
=============================================================================
