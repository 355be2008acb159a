---------------------------- MODULE FifoChannel ----------------------------
(***************************************************************************)
(* What the I2A half of an Apple mailbox promises, whatever data structure *)
(* holds the messages: a bounded first-in first-out channel.  A message    *)
(* that finds the channel full is lost without trace; every other message  *)
(* is delivered once, in the order of the sends.                           *)
(***************************************************************************)
EXTENDS Integers, Sequences

CONSTANTS Messages,   \* what may be sent
          Capacity,   \* how many messages the channel holds
          Nothing     \* what a receive from an empty channel returns

VARIABLES chan,       \* messages sent and not yet received, oldest first
          delivered   \* what the last receive returned

Init == /\ chan = <<>>
        /\ delivered = Nothing

Send(m) == /\ Len(chan) < Capacity
           /\ chan' = Append(chan, m)
           /\ UNCHANGED delivered

\* A send into a full channel: the message is dropped, the rest is untouched.
Drop(m) == /\ Len(chan) = Capacity
           /\ UNCHANGED <<chan, delivered>>

Receive == /\ chan # <<>>
           /\ delivered' = Head(chan)
           /\ chan' = Tail(chan)

ReceiveNothing == /\ chan = <<>>
                  /\ delivered' = Nothing
                  /\ UNCHANGED chan

Next == \/ \E m \in Messages : Send(m) \/ Drop(m)
        \/ Receive
        \/ ReceiveNothing

Spec == Init /\ [][Next]_<<chan, delivered>>
=============================================================================
