-------------------------- MODULE RingQueueProofs --------------------------
(***************************************************************************)
(* For every set of messages and every ring size: the ring buffer of the   *)
(* mailboxes keeps its indices in range and implements a bounded FIFO      *)
(* channel.                                                                *)
(***************************************************************************)
EXTENDS RingQueue, SequenceTheorems, TLAPS

(* One wrap at most: an index below twice the size needs one subtraction.  *)
LEMMA WrapOnce ==
  ASSUME NEW n \in Nat \ {0}, NEW x \in 0 .. 2 * n - 1
  PROVE  x % n = IF x < n THEN x ELSE x - n
<1>1. CASE x < n
  BY <1>1, SMTT(30)
<1>2. CASE x >= n
  <2>1. x - n \in 0 .. n - 1
    BY <1>2
  <2>2. x = 1 * n + (x - n)
    OBVIOUS
  <2>3. x % n = x - n
    BY <2>1, <2>2, SMTT(30)
  <2> QED BY <1>2, <2>3
<1> QED BY <1>1, <1>2

(* Distinct positions of the ring are distinct slots: the slot a push      *)
(* writes is none of the slots in use.                                     *)
LEMMA PushSlotIsFree ==
  ASSUME NEW n \in Nat \ {0}, NEW h \in 0 .. n - 1, NEW c \in 0 .. n - 1,
         NEW i \in 1 .. c
  PROVE  /\ (h + c) % n \in 0 .. n - 1
         /\ (h + i - 1) % n \in 0 .. n - 1
         /\ (h + i - 1) % n # (h + c) % n
<1> DEFINE x == h + c
           y == h + i - 1
<1>1. x \in 0 .. 2 * n - 1 /\ y \in 0 .. 2 * n - 1
  OBVIOUS
<1>2. y < x /\ x - n < y /\ x - n < n
  OBVIOUS
<1> HIDE DEF x, y
<1>3. x % n = IF x < n THEN x ELSE x - n
  BY <1>1, WrapOnce
<1>4. y % n = IF y < n THEN y ELSE y - n
  BY <1>1, WrapOnce
<1>5. x % n \in 0 .. n - 1 /\ y % n \in 0 .. n - 1 /\ y % n # x % n
  BY <1>1, <1>2, <1>3, <1>4
<1> QED BY <1>5 DEF x, y

(* After a pop, position i of the ring is what position i + 1 was.         *)
LEMMA PopShifts ==
  ASSUME NEW n \in Nat \ {0}, NEW h \in 0 .. n - 1, NEW i \in 1 .. n - 1,
         NEW g, g = (h + 1) % n
  PROVE  /\ g \in 0 .. n - 1
         /\ (g + i - 1) % n = (h + (i + 1) - 1) % n
<1> DEFINE x == h + 1
           y == h + (i + 1) - 1
           z == g + i - 1
<1>1. x \in 0 .. 2 * n - 1 /\ y \in 0 .. 2 * n - 1 /\ x % n = g
  OBVIOUS
<1>2. x <= n /\ y = x + i - 1
  OBVIOUS
<1> HIDE DEF x, y
<1>3. g = IF x < n THEN x ELSE x - n
  BY <1>1, WrapOnce
<1>4. g \in 0 .. n - 1 /\ z \in 0 .. 2 * n - 1
  BY <1>1, <1>2, <1>3
<1>5. CASE x < n
  <2>1. z = y
    BY <1>1, <1>2, <1>3, <1>5
  <2> QED BY <1>4, <2>1 DEF y
<1>6. CASE x = n
  <2>1. z = y - n /\ z < n /\ y >= n
    BY <1>1, <1>2, <1>3, <1>6
  <2> HIDE DEF z
  <2>2. z % n = IF z < n THEN z ELSE z - n
    BY <1>4, WrapOnce
  <2>3. y % n = IF y < n THEN y ELSE y - n
    BY <1>1, WrapOnce
  <2>4. z % n = y % n
    BY <1>1, <1>4, <2>1, <2>2, <2>3
  <2> QED BY <1>4, <2>4 DEF y, z
<1> QED BY <1>1, <1>2, <1>5, <1>6

-----------------------------------------------------------------------------
(* The indices stay inside the array and the slots in use hold messages    *)
(* that were sent.                                                         *)
THEOREM RingTypeCorrect == Spec => []TypeOK
<1> USE SizeAssumption
<1>1. Init => TypeOK
  BY DEF Init, TypeOK
<1>2. TypeOK /\ [Next]_vars => TypeOK'
  <2> SUFFICES ASSUME TypeOK, [Next]_vars
               PROVE  TypeOK'
    OBVIOUS
  <2>1. ASSUME NEW m \in Messages, Push(m)
        PROVE  TypeOK'
    <3>1. count \in 0 .. Size - 1 /\ head \in 0 .. Size - 1
      BY <2>1 DEF Push, TypeOK
    <3>2. Slot \in 0 .. Size - 1
      BY <3>1 DEF Slot
    <3>3. q' \in [0 .. Size - 1 -> Messages \cup {Zero}]
      BY <2>1, <3>2 DEF Push, TypeOK
    <3>4. ASSUME NEW i \in 1 .. count'
          PROVE  q'[(head' + i - 1) % Size] \in Messages
      <4>1. CASE i = count + 1
        <5>1. (head' + i - 1) % Size = Slot
          BY <2>1, <3>1, <4>1 DEF Push, Slot
        <5> QED BY <2>1, <3>2, <5>1 DEF Push, TypeOK
      <4>2. CASE i \in 1 .. count
        <5>1. /\ (head + i - 1) % Size \in 0 .. Size - 1
              /\ (head + i - 1) % Size # Slot
          BY <3>1, <4>2, PushSlotIsFree DEF Slot
        <5> QED BY <2>1, <4>2, <5>1 DEF Push, TypeOK
      <4> QED BY <2>1, <3>1, <3>4, <4>1, <4>2 DEF Push
    <3> QED BY <2>1, <3>1, <3>3, <3>4 DEF Push, TypeOK
  <2>2. ASSUME NEW m \in Messages, PushFull(m)
        PROVE  TypeOK'
    BY <2>2 DEF PushFull, vars, TypeOK
  <2>3. CASE Pop
    <3>1. count \in 1 .. Size /\ head \in 0 .. Size - 1
      BY <2>3 DEF Pop, TypeOK
    <3>2. q[head] \in Messages
      <4>1. (head + 1 - 1) % Size = head
        <5>1. head + 1 - 1 = head /\ head \in 0 .. 2 * Size - 1
          BY <3>1
        <5> QED BY <3>1, <5>1, WrapOnce
      <4>2. 1 \in 1 .. count
        BY <3>1
      <4>3. q[(head + 1 - 1) % Size] \in Messages
        BY <4>2 DEF TypeOK
      <4> QED BY <4>1, <4>3
    <3>3. head' \in 0 .. Size - 1
      BY <2>3, <3>1, SMTT(20) DEF Pop
    <3>4. ASSUME NEW i \in 1 .. count'
          PROVE  q'[(head' + i - 1) % Size] \in Messages
      <4>1. i \in 1 .. Size - 1 /\ i + 1 \in 1 .. count
        BY <2>3, <3>1, <3>4 DEF Pop
      <4>2. (head' + i - 1) % Size = (head + (i + 1) - 1) % Size
        <5>1. head' = (head + 1) % Size
          BY <2>3 DEF Pop
        <5> QED BY <3>1, <4>1, <5>1, PopShifts
      <4>3. q[(head + (i + 1) - 1) % Size] \in Messages
        BY <4>1 DEF TypeOK
      <4> QED BY <2>3, <4>2, <4>3 DEF Pop
    <3> QED BY <2>3, <3>1, <3>2, <3>3, <3>4 DEF Pop, TypeOK
  <2>4. CASE PopEmpty
    BY <2>4 DEF PopEmpty, TypeOK
  <2>5. CASE UNCHANGED vars
    BY <2>5 DEF vars, TypeOK
  <2> QED BY <2>1, <2>2, <2>3, <2>4, <2>5 DEF Next
<1> QED BY <1>1, <1>2, PTL DEF Spec

-----------------------------------------------------------------------------
LEMMA ContentsIsSeq ==
  ASSUME TypeOK
  PROVE  /\ Contents \in Seq(Messages)
         /\ Len(Contents) = count
         /\ \A i \in 1 .. count : Contents[i] = q[(head + i - 1) % Size]
<1>1. count \in Nat
  BY SizeAssumption DEF TypeOK
<1>2. \A i \in 1 .. count : q[(head + i - 1) % Size] \in Messages
  BY DEF TypeOK
<1> QED BY <1>1, <1>2, IsASeq DEF Contents

(* A push appends to the contents.                                         *)
LEMMA PushAppends ==
  ASSUME TypeOK, TypeOK', NEW m \in Messages, Push(m)
  PROVE  Contents' = Append(Contents, m)
<1>1. count \in 0 .. Size - 1 /\ head \in 0 .. Size - 1
  BY SizeAssumption DEF Push, TypeOK
<1>2. /\ Contents \in Seq(Messages) /\ Len(Contents) = count
      /\ \A i \in 1 .. count : Contents[i] = q[(head + i - 1) % Size]
  BY ContentsIsSeq
<1>3. /\ Contents' = [i \in 1 .. count + 1 |-> q'[(head + i - 1) % Size]]
  BY DEF Push, Contents
<1>4. q' = [q EXCEPT ![Slot] = m] /\ Slot \in DOMAIN q
  BY <1>1, SizeAssumption DEF Push, Slot, TypeOK
<1>5. \A i \in 1 .. count : Contents'[i] = Contents[i]
  <2> SUFFICES ASSUME NEW i \in 1 .. count
               PROVE  Contents'[i] = Contents[i]
    OBVIOUS
  <2>1. (head + i - 1) % Size # Slot
    BY <1>1, SizeAssumption, PushSlotIsFree DEF Slot
  <2>2. q'[(head + i - 1) % Size] = q[(head + i - 1) % Size]
    BY <1>4, <2>1
  <2> QED BY <1>1, <1>2, <1>3, <2>2
<1>6. Contents'[count + 1] = m
  <2>1. (head + (count + 1) - 1) % Size = Slot
    BY <1>1 DEF Slot
  <2> QED BY <1>1, <1>3, <1>4, <2>1
<1>7. /\ Contents' \in Seq(Messages) /\ Len(Contents') = count + 1
  <2>1. count' = count + 1
    BY DEF Push
  <2>2. /\ count' \in Nat
        /\ \A i \in 1 .. count' : q'[(head' + i - 1) % Size] \in Messages
    BY <1>1, <2>1 DEF TypeOK
  <2>3. [i \in 1 .. count' |-> q'[(head' + i - 1) % Size]] \in Seq(Messages)
    BY <2>2, IsASeq
  <2> QED BY <1>1, <2>1, <2>3 DEF Contents
<1>8. /\ Append(Contents, m) \in Seq(Messages)
      /\ Len(Append(Contents, m)) = count + 1
      /\ \A i \in 1 .. count : Append(Contents, m)[i] = Contents[i]
      /\ Append(Contents, m)[count + 1] = m
  BY <1>2, AppendProperties
<1>9. \A i \in 1 .. Len(Contents') : Contents'[i] = Append(Contents, m)[i]
  BY <1>1, <1>5, <1>6, <1>7, <1>8
<1> QED BY <1>7, <1>8, <1>9, SeqEqual

(* A pop hands out the head of the contents and leaves the tail.           *)
LEMMA PopTakesHead ==
  ASSUME TypeOK, TypeOK', Pop
  PROVE  /\ Contents # <<>>
         /\ delivered' = Head(Contents)
         /\ Contents' = Tail(Contents)
<1>1. count \in 1 .. Size /\ head \in 0 .. Size - 1
  BY SizeAssumption DEF Pop, TypeOK
<1>2. /\ Contents \in Seq(Messages) /\ Len(Contents) = count
      /\ \A i \in 1 .. count : Contents[i] = q[(head + i - 1) % Size]
  BY ContentsIsSeq
<1>3. Contents # <<>>
  BY <1>1, <1>2
<1>4. Head(Contents) = q[head]
  <2>1. (head + 1 - 1) % Size = head
    <3>1. head + 1 - 1 = head /\ head \in 0 .. 2 * Size - 1
      BY <1>1, SizeAssumption
    <3> QED BY <1>1, <3>1, SizeAssumption, WrapOnce
  <2>2. Contents[1] = q[head]
    BY <1>1, <1>2, <2>1
  <2> QED BY <1>2, <1>3, <2>2
<1>5. /\ Tail(Contents) \in Seq(Messages)
      /\ Len(Tail(Contents)) = count - 1
      /\ \A i \in 1 .. count - 1 : Tail(Contents)[i] = Contents[i + 1]
  BY <1>2, <1>3, HeadTailProperties
<1>6. /\ Contents' \in Seq(Messages) /\ Len(Contents') = count - 1
      /\ \A i \in 1 .. count - 1 : Contents'[i] = q[(head' + i - 1) % Size]
  <2>1. count' = count - 1 /\ q' = q
    BY DEF Pop
  <2>2. /\ count' \in Nat
        /\ \A i \in 1 .. count' : q'[(head' + i - 1) % Size] \in Messages
    BY <1>1, <2>1 DEF TypeOK
  <2>3. [i \in 1 .. count' |-> q'[(head' + i - 1) % Size]] \in Seq(Messages)
    BY <2>2, IsASeq
  <2> QED BY <1>1, <2>1, <2>3 DEF Contents
<1>7. \A i \in 1 .. count - 1 : Contents'[i] = Tail(Contents)[i]
  <2> SUFFICES ASSUME NEW i \in 1 .. count - 1
               PROVE  Contents'[i] = Tail(Contents)[i]
    OBVIOUS
  <2>1. (head' + i - 1) % Size = (head + (i + 1) - 1) % Size
    <3>1. i \in 1 .. Size - 1 /\ head' = (head + 1) % Size
      BY <1>1, SizeAssumption DEF Pop
    <3> QED BY <1>1, <3>1, SizeAssumption, PopShifts
  <2>2. Contents'[i] = q[(head + (i + 1) - 1) % Size]
    BY <1>6, <2>1
  <2>3. Tail(Contents)[i] = Contents[i + 1] /\ i + 1 \in 1 .. count
    BY <1>1, <1>5
  <2> QED BY <1>2, <2>2, <2>3
<1>8. Contents' = Tail(Contents)
  BY <1>5, <1>6, <1>7, SeqEqual
<1> QED BY <1>3, <1>4, <1>8 DEF Pop

(* Every behaviour of the ring, read through Contents, is a behaviour of   *)
(* the bounded FIFO channel: no message is reordered, duplicated or        *)
(* overwritten, and one is lost only when it finds the ring full.          *)
THEOREM RingImplementsFifo == Spec => RingIsFifo
<1>1. Init => Fifo!Init
  BY DEF Init, Fifo!Init, Contents
<1>2. TypeOK /\ TypeOK' /\ [Next]_vars => [Fifo!Next]_<<Contents, delivered>>
  <2> SUFFICES ASSUME TypeOK, TypeOK', [Next]_vars
               PROVE  [Fifo!Next]_<<Contents, delivered>>
    OBVIOUS
  <2>1. /\ Len(Contents) = count /\ count \in 0 .. Size
        /\ Contents \in Seq(Messages)
    BY ContentsIsSeq DEF TypeOK
  <2>2. ASSUME NEW m \in Messages, Push(m)
        PROVE  Fifo!Send(m)
    <3>1. Contents' = Append(Contents, m)
      BY <2>2, PushAppends
    <3> QED BY <2>1, <2>2, <3>1, SizeAssumption DEF Push, Fifo!Send
  <2>3. ASSUME NEW m \in Messages, PushFull(m)
        PROVE  Fifo!Drop(m)
    BY <2>1, <2>3 DEF PushFull, vars, Contents, Fifo!Drop
  <2>4. CASE Pop
    BY <2>4, PopTakesHead DEF Pop, Fifo!Receive, Fifo!Next
  <2>5. CASE PopEmpty
    <3>1. Contents = <<>> /\ Contents' = Contents
      BY <2>1, <2>5 DEF PopEmpty, Contents
    <3> QED BY <2>5, <3>1 DEF PopEmpty, Fifo!ReceiveNothing, Fifo!Next
  <2>6. CASE UNCHANGED vars
    BY <2>6 DEF vars, Contents
  <2> QED BY <2>2, <2>3, <2>4, <2>5, <2>6 DEF Next, Fifo!Next
<1> QED BY <1>1, <1>2, RingTypeCorrect, PTL DEF Spec, RingIsFifo, Fifo!Spec
=============================================================================
