---------------------------- MODULE MCRingQueue ----------------------------
(* RingQueue on a ring of three slots and three distinguishable messages:  *)
(* the smallest ring on which head and tail both wrap while one message    *)
(* stays queued.                                                           *)
EXTENDS RingQueue, TLC

CONSTANTS m1, m2, m3

MCMessages == {m1, m2, m3}
=============================================================================
