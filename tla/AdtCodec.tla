------------------------------ MODULE AdtCodec ------------------------------
(* How dt_fixup.py reads and writes the properties of the Apple device tree. *)
(* The file gives a property a length and bytes padded to a multiple of 4,   *)
(* but no type: reading guesses one from the bytes, and writing derives      *)
(* length and bytes from the guess.  A property as it lies in a file is      *)
(* [len, bytes]; in memory it is [t, v], t its guessed type.                 *)
(*                                                                           *)
(* Types are tags here.  The code spells them in the text of the value, so   *)
(* that a string "u32:..." or "<NULL>" would be read back as a number: the   *)
(* device tree holds none.                                                   *)
EXTENDS Integers, Sequences, SequencesExt

RoundUpToMultipleOf4(n) == 4 * ((n + 3) \div 4)

Zeros(n) == [i \in 1 .. n |-> 0]
Ljust(s) == s \o Zeros(RoundUpToMultipleOf4(Len(s)) - Len(s))

\* The bytes before the first zero.
DecodeNullTerminatedString(s) ==
    LET nuls == {i \in DOMAIN s : s[i] = 0}
    IN  IF nuls = {} THEN s
        ELSE SubSeq(s, 1, (CHOOSE i \in nuls : \A j \in nuls : i <= j) - 1)

\* A bug: what follows the first zero is not looked at.
IsProbablyAStringPrefix(s) ==
    LET d == DecodeNullTerminatedString(s)
    IN  Len(d) >= 3 /\ \A i \in DOMAIN d : d[i] \in 32 .. 126

\* At least three printable characters and then nothing but zeros, if anything.
IsProbablyAString(s) ==
    LET d == DecodeNullTerminatedString(s)
    IN  /\ Len(d) >= 3
        /\ \A i \in DOMAIN d : d[i] \in 32 .. 126
        /\ \A i \in DOMAIN s \ DOMAIN d : s[i] = 0

Str(v) == [t |-> "str", v |-> v]
Null == [t |-> "null", v |-> <<>>]
Bytes(v) == [t |-> "bytes", v |-> v]

\* A little-endian number of n bytes, of which the model needs the low three:
\* the number itself, below NumberBound.
NumberBound == 16777216
Number(k, n) ==
    [i \in 1 .. n |-> CASE i = 1 -> k % 256
                       [] i = 2 -> (k \div 256) % 256
                       [] i = 3 -> (k \div 65536) % 256
                       [] OTHER -> 0]
U32(k) == [t |-> "u32", v |-> Number(k, 4)]
U64(k) == [t |-> "u64", v |-> Number(k, 8)]

DecodeProp(name, s) ==
    IF name = "name" \/ IsProbablyAString(s) THEN Str(DecodeNullTerminatedString(s))
    ELSE CASE Len(s) = 0 -> Null
           [] Len(s) = 4 -> [t |-> "u32", v |-> s]
           [] Len(s) = 8 -> [t |-> "u64", v |-> s]
           [] OTHER -> Bytes(s)

\* A bug: text is padded before it gets its terminator.
ParsePropEntryLateNul(p) ==
    LET s == IF p.t = "str" THEN Append(Ljust(p.v), 0) ELSE Ljust(p.v)
    IN  [len |-> Len(p.v), bytes |-> s]

\* A string gains a terminator, also if it had none.
ParsePropEntry(p) ==
    LET s == IF p.t = "str" THEN Append(p.v, 0) ELSE p.v
    IN  [len |-> Len(s), bytes |-> Ljust(s)]

\* A property as it lies in a file: padded, and of bytes.
Filed(v) ==
    /\ v.len \in Nat /\ v.bytes \in Seq(0 .. 255)
    /\ Len(v.bytes) = RoundUpToMultipleOf4(v.len)

-----------------------------------------------------------------------------
\* A tree is its nodes by their place in pre-order, each with its path from the
\* root, the entries of its "compatible" (none: {}), and its properties.  A node
\* that is removed leaves its place empty.
DecodeNode(file) ==
    [i \in DOMAIN file |->
        [path |-> file[i].path, compat |-> file[i].compat,
         props |-> [n \in DOMAIN file[i].props |-> DecodeProp(n, file[i].props[n].bytes)]]]

EncodeNode(d) ==
    [i \in DOMAIN d |->
        [path |-> d[i].path, compat |-> d[i].compat,
         props |-> [n \in DOMAIN d[i].props |-> ParsePropEntry(d[i].props[n])]]]
=============================================================================
