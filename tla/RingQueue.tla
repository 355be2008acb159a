----------------------------- MODULE RingQueue -----------------------------
(***************************************************************************)
(* The ring buffer that holds the I2A messages of a coprocessor:           *)
(* { msg, ep } q[64] with head and count in the RTKit engine, and          *)
(* AscMsg q[32] with head and count in the inline ASC mailbox.  The two    *)
(* have the same code; Size is 64 for the first and 32 for the second.     *)
(*                                                                         *)
(* The other modules keep the queue as a sequence.  That is justified      *)
(* here: the ring implements FifoChannel (see Fifo below).                 *)
(***************************************************************************)
EXTENDS Integers, Sequences

CONSTANTS Messages,   \* <<msg, ep>> pairs, as values to be told apart
          Size,       \* ARRAY_SIZE(q)
          Zero        \* the 0 of a slot never written and of an empty read

ASSUME SizeAssumption == Size \in Nat \ {0}

VARIABLES q, head, count,
          delivered   \* history: the message of the last RECV0 / RECV1 pair

vars == <<q, head, count, delivered>>

\* g_new0: an empty ring of zeroed slots.
Init == /\ q = [i \in 0 .. Size - 1 |-> Zero]
        /\ head = 0
        /\ count = 0
        /\ delivered = Zero

\* Mutant of Slot: off by one, past the tail.
SlotPastTail == (head + count + 1) % Size

\* The slot a new message goes to.
Slot == (head + count) % Size

\* apple_rtkit_send / asc_push with room left.
Push(m) == /\ count # Size
           /\ q' = [q EXCEPT ![Slot] = m]
           /\ count' = count + 1
           /\ UNCHANGED <<head, delivered>>

\* Mutant of PushFull: makes room by dropping the oldest message.
PushFullDropsOldest(m) == /\ count = Size
                          /\ q' = [q EXCEPT ![head] = m]
                          /\ head' = (head + 1) % Size
                          /\ UNCHANGED <<count, delivered>>

\* apple_rtkit_send / asc_push on a full ring: nothing is written.
PushFull(m) == /\ count = Size
               /\ UNCHANGED vars

\* The guest reads I2A_RECV0 and I2A_RECV1 while a message is queued.
Pop == /\ count # 0
       /\ delivered' = q[head]
       /\ head' = (head + 1) % Size
       /\ count' = count - 1
       /\ UNCHANGED q

\* The same reads on an empty ring return 0 and move nothing.
PopEmpty == /\ count = 0
            /\ delivered' = Zero
            /\ UNCHANGED <<q, head, count>>

Next == \/ \E m \in Messages : Push(m) \/ PushFull(m)
        \/ Pop
        \/ PopEmpty

Spec == Init /\ [][Next]_vars
-----------------------------------------------------------------------------
(* The sequence a ring stands for: count slots from head on, wrapping.     *)
Contents == [i \in 1 .. count |-> q[(head + i - 1) % Size]]

Fifo == INSTANCE FifoChannel
          WITH Capacity <- Size, Nothing <- Zero, chan <- Contents

(* The indices stay inside the array and the slots in use hold messages    *)
(* that were sent, never the zeroes of the allocation.                     *)
TypeOK ==
  /\ q \in [0 .. Size - 1 -> Messages \cup {Zero}]
  /\ head \in 0 .. Size - 1
  /\ count \in 0 .. Size
  /\ delivered \in Messages \cup {Zero}
  /\ \A i \in 1 .. count : q[(head + i - 1) % Size] \in Messages

(* The guest receives exactly the accepted messages, in order, whatever    *)
(* the interleaving of sends, wraps and overflows: the head / count        *)
(* arithmetic of the ring implements a bounded FIFO channel.               *)
RingIsFifo == Fifo!Spec
=============================================================================
