------------------------------ MODULE KcProofs ------------------------------
(***************************************************************************)
(* The kernelcache chain changes the words it means to and no others, does *)
(* what its dry run and the verifier said, and leaves all but the Image4   *)
(* kext alone when it is refused: for every kernelcache whose functions    *)
(* are recognizable, and every depth of the scans.                         *)
(***************************************************************************)
EXTENDS KcChain, SequenceTheorems, WellFoundedInduction, TLAPS

(* The smallest and the largest of a set of indices exist.                 *)
LEMMA LeastOf ==
  ASSUME NEW S \in SUBSET Nat, S # {}
  PROVE  \E i \in S : \A j \in S : i <= j
<1> DEFINE Less == {ss \in Nat \X Nat : ss[1] < ss[2]}
<1>1. IsWellFoundedOn(Less, Nat)
  BY NatLessThanWellFounded DEF OpToRel
<1> HIDE DEF Less
<1>2. PICK n \in S : \A k \in S : <<k, n>> \notin Less
  BY <1>1, WFMin
<1>3. ASSUME NEW k \in S PROVE n <= k
  <2>1. <<k, n>> \in Less <=> k < n
    BY DEF Less
  <2> QED BY <1>2, <2>1
<1> QED BY <1>3

LEMMA EarliestIs ==
  ASSUME NEW S \in SUBSET (Nat \ {0})
  PROVE  /\ Earliest(S) = 0 <=> S = {}
         /\ S # {} => Earliest(S) \in S /\ \A j \in S : Earliest(S) <= j
         /\ \A i \in S : (\A j \in S : i <= j) => Earliest(S) = i
<1>1. S # {} => \E i \in S : \A j \in S : i <= j
  BY LeastOf
<1>2. \A i, j \in S : i <= j /\ j <= i => i = j
  OBVIOUS
<1> QED BY <1>1, <1>2 DEF Earliest

LEMMA NearestIs ==
  ASSUME NEW K \in Nat, NEW S \in SUBSET (1 .. K)
  PROVE  /\ Nearest(S) = 0 <=> S = {}
         /\ S # {} => Nearest(S) \in S /\ \A j \in S : j <= Nearest(S)
         /\ \A i \in S : (\A j \in S : j <= i) => Nearest(S) = i
<1>1. S # {} => \E i \in S : \A j \in S : j <= i
  <2> SUFFICES ASSUME S # {} PROVE \E i \in S : \A j \in S : j <= i
    OBVIOUS
  <2> DEFINE D == {K - i : i \in S}
  <2>1. \A i \in S : i \in Int /\ i <= K /\ K - i \in Nat
    OBVIOUS
  <2>2. D \in SUBSET Nat /\ D # {}
    BY <2>1
  <2>3. PICK k \in D : \A j \in D : k <= j
    BY <2>2, LeastOf
  <2>4. PICK m \in S : k = K - m
    BY <2>3
  <2>5. ASSUME NEW i \in S PROVE i <= m
    <3>1. K - i \in D
      OBVIOUS
    <3>2. k <= K - i
      BY <2>3, <3>1
    <3> QED BY <2>1, <2>4, <3>2
  <2> QED BY <2>5
<1>2. \A i, j \in S : i <= j /\ j <= i => i = j
  OBVIOUS
<1>3. 0 \notin S
  OBVIOUS
<1> QED BY <1>1, <1>2, <1>3 DEF Nearest

-----------------------------------------------------------------------------
LEMMA WordsApart == PACIBSP \notin {RET, RETAB} /\ IsPrologueStart(PACIBSP)
BY DEF PACIBSP, RET, RETAB, Word, IsPrologueStart

(* Where a walk from a load in a recognizable function ends.               *)
WalkEnd(signed, entry, x) ==
  IF (IF signed THEN entry ELSE entry - 1) > x - MaxBack THEN entry ELSE 0

LEMMA WalkIs ==
  ASSUME NEW w, NEW f, NEW x \in Nat, f.entry \in Nat \ {0}, f.last \in Nat,
         Recognizable(w, f, x)
  PROVE  WalkBackToPrologue(w, x) = WalkEnd(w[f.entry] = PACIBSP, f.entry, x)
<1> DEFINE e == f.entry
           seen == {i \in 1 .. x : i > x - MaxBack}
           ends == {i \in seen : w[i] \in {RET, RETAB} /\ IsPrologueStart(w[i + 1])}
           heads == {i \in seen : w[i] = PACIBSP}
           stop == Nearest(heads \cup ends)
<1>1. WalkBackToPrologue(w, x) = IF stop \in ends THEN stop + 1 ELSE stop
  BY DEF WalkBackToPrologue
<1>2. MaxBack \in Nat /\ e \in Nat \ {0} /\ e < x
  BY KcImageAssumption DEF Recognizable
<1>3. /\ \A i \in e + 1 .. x : i \notin heads
      /\ \A i \in e .. x : i \notin ends
  BY DEF Recognizable
<1>4. heads \cup ends \in SUBSET (1 .. x)
  OBVIOUS
<1>5. \A i \in heads \cup ends : i \in 1 .. x /\ i > x - MaxBack
  OBVIOUS
<1>6. CASE w[e] = PACIBSP
  <2>1. e \notin ends
    BY <1>2, <1>3
  <2>2. CASE e > x - MaxBack
    <3>1. e \in heads
      BY <1>2, <1>6, <2>2
    <3>2. \A i \in heads \cup ends : i <= e
      BY <1>2, <1>3, <1>5
    <3> HIDE DEF heads, ends
    <3>3. stop = e
      BY <1>4, <3>1, <3>2, NearestIs, ZenonT(60)
    <3> QED BY <1>1, <1>6, <2>1, <2>2, <3>3 DEF WalkEnd
  <2>3. CASE ~(e > x - MaxBack)
    <3>1. \A i \in heads \cup ends : i >= e + 1 /\ i <= x /\ i \in Int
      BY <1>2, <1>5, <2>3
    <3>2. heads \cup ends = {}
      BY <1>2, <1>3, <3>1
    <3> HIDE DEF heads, ends
    <3>3. stop = 0
      BY <1>4, <3>2, NearestIs
    <3>4. 0 \notin ends
      BY <1>4
    <3> QED BY <1>1, <1>6, <2>3, <3>3, <3>4 DEF WalkEnd
  <2> QED BY <2>2, <2>3
<1>7. CASE w[e] # PACIBSP
  <2>1. e > 1 /\ w[e - 1] \in {RET, RETAB} /\ IsPrologueStart(w[e])
    BY <1>7 DEF Recognizable
  <2>2. \A i \in e .. x : i \notin heads
    <3>1. \A i \in e .. x : i = e \/ i \in e + 1 .. x
      BY <1>2
    <3> QED BY <1>3, <1>7, <3>1
  <2>3. CASE e - 1 > x - MaxBack
    <3>1. e - 1 \in ends
      <4>1. e - 1 \in seen /\ e - 1 + 1 = e
        BY <1>2, <2>1, <2>3
      <4> QED BY <2>1, <4>1
    <3>2. \A i \in heads \cup ends : i <= e - 1
      BY <1>2, <1>3, <1>5, <2>2
    <3> DEFINE p == e - 1
    <3> HIDE DEF heads, ends, p
    <3>3. stop = p
      <4>1. p \in heads \cup ends /\ \A i \in heads \cup ends : i <= p
        BY <3>1, <3>2 DEF p
      <4> QED BY <1>4, <4>1, NearestIs
    <3>4. e - 1 + 1 = e
      BY <1>2
    <3> QED BY <1>1, <1>7, <2>3, <3>1, <3>3, <3>4 DEF WalkEnd, p
  <2>4. CASE ~(e - 1 > x - MaxBack)
    <3>1. \A i \in heads \cup ends : i \in e .. x
      BY <1>2, <1>5, <2>4
    <3>2. heads \cup ends = {}
      BY <1>3, <2>2, <3>1
    <3> HIDE DEF heads, ends
    <3>3. stop = 0
      BY <1>4, <3>2, NearestIs
    <3>4. 0 \notin ends
      BY <1>4
    <3> QED BY <1>1, <1>7, <2>4, <3>3, <3>4 DEF WalkEnd
  <2> QED BY <2>3, <2>4
<1> QED BY <1>6, <1>7

-----------------------------------------------------------------------------
\* Entries of functions that are long enough for a stub.
Entries(img, E) ==
  \A e \in E : \E g \in img.fns : g.entry = e /\ e + 2 <= g.last

\* A file that differs from the image only in stubs at the entries E.
Stubbed(img, w, E) ==
  /\ DOMAIN w = DOMAIN img.w
  /\ \A i \in DOMAIN img.w : w[i] # img.w[i] =>
        \E e \in E : \/ i \in {e, e + 1} /\ w[i] \in {MOV_X0_0, RET}
                     \/ i = e + 2 /\ w[i] = RETAB

LEMMA Untampered ==
  ASSUME NEW img, LaidOut(img)
  PROVE  Stubbed(img, img.w, {})
BY DEF Stubbed, LaidOut

(* No word changes in a function that is not stubbed, nor the return that  *)
(* may stand in front of it.                                               *)
LEMMA BodyStays ==
  ASSUME NEW img, LaidOut(img), NEW E, Entries(img, E), NEW w, Stubbed(img, w, E),
         NEW f \in img.fns, f.entry \notin E
  PROVE  /\ \A i \in Body(f) : w[i] = img.w[i]
         /\ f.entry > 1 /\ img.w[f.entry - 1] \in {RET, RETAB}
               => w[f.entry - 1] \in {RET, RETAB}
<1>1. ASSUME NEW i \in DOMAIN img.w, w[i] # img.w[i]
      PROVE  \E g \in img.fns : /\ g # f /\ i \in Body(g)
                                /\ i + 1 \in Body(g) \/ w[i] = RETAB
  <2>1. PICK e \in E : \/ i \in {e, e + 1} /\ w[i] \in {MOV_X0_0, RET}
                       \/ i = e + 2 /\ w[i] = RETAB
    BY <1>1 DEF Stubbed
  <2>2. PICK g \in img.fns : g.entry = e /\ e + 2 <= g.last
    BY DEF Entries
  <2>3. g # f
    BY <2>2
  <2>4. e \in Int /\ g.last \in Int
    BY <2>2 DEF LaidOut
  <2>5. i \in Body(g) /\ (i + 1 \in Body(g) \/ w[i] = RETAB)
    BY <2>1, <2>2, <2>4 DEF Body
  <2> QED BY <2>3, <2>5
<1>2. \A g \in img.fns : g # f => Body(f) \cap Body(g) = {}
  BY DEF LaidOut
<1>3. Body(f) \subseteq DOMAIN img.w /\ f.entry \in Body(f) /\ f.entry \in Nat \ {0}
  BY DEF LaidOut, Body
<1>4. \A i \in Body(f) : w[i] = img.w[i]
  BY <1>1, <1>2, <1>3
<1>5. ASSUME f.entry > 1, img.w[f.entry - 1] \in {RET, RETAB}
      PROVE  w[f.entry - 1] \in {RET, RETAB}
  <2> DEFINE p == f.entry - 1
  <2>1. p \in DOMAIN img.w /\ p + 1 = f.entry
    BY <1>3, <1>5 DEF LaidOut
  <2> HIDE DEF p
  <2>2. w[p] = img.w[p] \/ w[p] = RETAB
    <3> SUFFICES ASSUME w[p] # img.w[p] PROVE w[p] = RETAB
      OBVIOUS
    <3>1. PICK g \in img.fns : g # f /\ p \in Body(g) /\ (p + 1 \in Body(g) \/ w[p] = RETAB)
      BY <1>1, <2>1
    <3> QED BY <1>2, <1>3, <2>1, <3>1
  <2> QED BY <1>5, <2>2 DEF p
<1> QED BY <1>4, <1>5

(* So it is as recognizable as it was.                                     *)
LEMMA RecognizableStays ==
  ASSUME NEW img, LaidOut(img), NEW E, Entries(img, E), NEW w, Stubbed(img, w, E),
         NEW f \in img.fns, f.entry \notin E, NEW x \in Nat, Recognizable(img.w, f, x)
  PROVE  Recognizable(w, f, x) /\ w[f.entry] = img.w[f.entry]
<1>1. \A i \in Body(f) : w[i] = img.w[i]
  BY BodyStays
<1>2. f.entry \in Nat \ {0} /\ f.last \in Nat /\ f.entry < x /\ x < f.last
  BY DEF LaidOut, Recognizable
<1>3. /\ f.entry \in Body(f)
      /\ \A i \in f.entry .. x : i \in Body(f) /\ i + 1 \in Body(f)
      /\ \A i \in f.entry + 1 .. x : i \in Body(f)
  BY <1>2 DEF Body
<1>4. w[f.entry] = img.w[f.entry]
  BY <1>1, <1>3
<1>5. w[f.entry] = PACIBSP \/ (f.entry > 1 /\ w[f.entry - 1] \in {RET, RETAB})
  BY <1>4, BodyStays DEF Recognizable
<1>6. /\ \A i \in f.entry + 1 .. x : w[i] # PACIBSP
      /\ \A i \in f.entry .. x : w[i] \in {RET, RETAB} => ~IsPrologueStart(w[i + 1])
  BY <1>1, <1>3 DEF Recognizable
<1> QED BY <1>2, <1>4, <1>5, <1>6 DEF Recognizable

-----------------------------------------------------------------------------
Pairs(w, seg, s) == {i \in seg.lo .. seg.hi - 2 : w[i] = Adrp(s) /\ w[i + 1] = Add(s)}

LEMMA StubsArePlain ==
  \A s : {Adrp(s), Add(s)} \cap {MOV_X0_0, RET, RETAB, NOP, PACIBSP} = {}
BY DEF Adrp, Add, MOV_X0_0, RET, RETAB, NOP, PACIBSP, Word

LEMMA PairsIn ==
  ASSUME NEW img, LaidOut(img), NEW k \in DOMAIN img.kexts, NEW w, NEW s
  PROVE  /\ Pairs(w, img.kexts[k], s) \in SUBSET (Nat \ {0})
         /\ \A i \in Pairs(w, img.kexts[k], s) :
               /\ {i, i + 1} \subseteq CodeOf(img.kexts[k]) /\ {i, i + 1} \subseteq DOMAIN img.w
               /\ i < img.kexts[k].hi
<1>1. /\ img.kexts[k].lo \in Nat \ {0} /\ img.kexts[k].hi \in Nat
      /\ CodeOf(img.kexts[k]) \subseteq DOMAIN img.w
  BY DEF LaidOut
<1> QED BY <1>1 DEF Pairs, CodeOf

(* The load of a needle's string, in the image itself.                     *)
LEMMA XrefIs ==
  ASSUME NEW img, LaidOut(img), NEW k, NEW n, Xref(img.w, img.kexts, k, n) # 0
  PROVE  LET x == Xref(img.w, img.kexts, k, n)
             s == StringHolding(img.kexts[k].strs, n)
         IN  /\ k \in DOMAIN img.kexts /\ x \in Nat \ {0}
             /\ x \in Pairs(img.w, img.kexts[k], s)
             /\ {x, x + 1} \subseteq CodeOf(img.kexts[k])
<1> DEFINE s == StringHolding(img.kexts[k].strs, n)
           P == Pairs(img.w, img.kexts[k], s)
<1>1. k \in DOMAIN img.kexts /\ Xref(img.w, img.kexts, k, n) = Earliest(P)
  BY DEF Xref, HasSegments, FindAdrpAddXref, Pairs
<1>2. P \in SUBSET (Nat \ {0})
  BY <1>1, PairsIn
<1> HIDE DEF P
<1>3. Earliest(P) \in P
  BY <1>1, <1>2, EarliestIs
<1> QED BY <1>1, <1>2, <1>3, PairsIn DEF P

(* Stubs make no load, so a lookup that finds nothing goes on finding      *)
(* nothing, and one whose load is untouched goes on finding that.          *)
LEMMA XrefStays ==
  ASSUME NEW img, LaidOut(img), NEW E, NEW w, Stubbed(img, w, E), NEW k, NEW n,
         LET x == Xref(img.w, img.kexts, k, n)
         IN  x # 0 => w[x] = img.w[x] /\ w[x + 1] = img.w[x + 1]
  PROVE  Xref(w, img.kexts, k, n) = Xref(img.w, img.kexts, k, n)
<1> DEFINE s == StringHolding(img.kexts[k].strs, n)
           P == Pairs(img.w, img.kexts[k], s)
           Q == Pairs(w, img.kexts[k], s)
           x == Xref(img.w, img.kexts, k, n)
<1>1. CASE ~HasSegments(img.kexts, k) \/ s = ""
  BY <1>1 DEF Xref
<1>2. CASE HasSegments(img.kexts, k) /\ s # ""
  <2>1. /\ Xref(w, img.kexts, k, n) = Earliest(Q)
        /\ Xref(img.w, img.kexts, k, n) = Earliest(P)
    BY <1>2 DEF Xref, FindAdrpAddXref, Pairs
  <2>2. k \in DOMAIN img.kexts
    BY <1>2 DEF HasSegments
  <2>3. P \in SUBSET (Nat \ {0}) /\ Q \in SUBSET (Nat \ {0})
    BY <2>2, PairsIn
  <2>4. Q \subseteq P
    <3> SUFFICES ASSUME NEW i \in Q PROVE i \in P
      OBVIOUS
    <3>1. {i, i + 1} \subseteq DOMAIN img.w
      BY <2>2, PairsIn
    <3>2. w[i] = Adrp(s) /\ w[i + 1] = Add(s)
      BY DEF Pairs
    <3>3. \A j \in {i, i + 1} : w[j] = img.w[j]
      BY <3>1, <3>2, StubsArePlain DEF Stubbed
    <3> QED BY <3>2, <3>3 DEF Pairs
  <2>5. x # 0 => x \in Q
    BY XrefIs DEF Pairs
  <2> HIDE DEF P, Q
  <2>6. CASE x = 0
    <3>1. P = {}
      BY <2>1, <2>3, <2>6, EarliestIs
    <3> QED BY <2>1, <2>3, <2>4, <2>6, <3>1, EarliestIs
  <2>7. CASE x # 0
    <3>1. \A j \in P : x <= j
      BY <2>1, <2>3, <2>7, EarliestIs
    <3>2. x \in Q /\ \A j \in Q : x <= j
      BY <2>4, <2>5, <2>7, <3>1
    <3> HIDE DEF x
    <3>3. Earliest(Q) = x
      BY <2>3, <3>2, EarliestIs
    <3> QED BY <2>1, <3>3 DEF x
  <2> QED BY <2>6, <2>7
<1> QED BY <1>1, <1>2

-----------------------------------------------------------------------------
EntryOf(img, a) == FunctionOf(img.w, img.kexts, a[1], a[2])

Owns(img, f, a) ==
  /\ f \in img.fns /\ f.anchored /\ Recognizable(img.w, f, LoadOf(img, a))
  /\ LoadOf(img, a) \in Body(f) /\ f.entry + 2 <= f.last
  /\ a[1] \in DOMAIN img.kexts /\ Body(f) \subseteq CodeOf(img.kexts[a[1]])

LEMMA OwnerOf ==
  ASSUME NEW img \in Images, NEW a \in Anchors, LoadOf(img, a) # 0
  PROVE  \E f \in img.fns : Owns(img, f, a) /\ EntryOf(img, a) \in {0, f.entry}
<1> DEFINE x == LoadOf(img, a)
<1>1. LaidOut(img)
  BY KernelcachesAssumption
<1>2. PICK f \in img.fns : f.anchored /\ Recognizable(img.w, f, x)
  BY KernelcachesAssumption
<1>3. a[1] \in DOMAIN img.kexts /\ x \in CodeOf(img.kexts[a[1]]) /\ x \in Nat
  BY <1>1, XrefIs DEF LoadOf
<1>4. f.entry \in Nat \ {0} /\ f.last \in Nat /\ f.entry < x /\ x < f.last
  BY <1>1, <1>2 DEF LaidOut, Recognizable
<1>5. x \in Body(f) /\ f.entry + 2 <= f.last
  BY <1>3, <1>4 DEF Body
<1>6. Body(f) \subseteq CodeOf(img.kexts[a[1]])
  BY <1>1, <1>3, <1>5 DEF LaidOut
<1>7. EntryOf(img, a) = WalkBackToPrologue(img.w, x)
  BY DEF EntryOf, FunctionOf, LoadOf
<1>8. EntryOf(img, a) \in {0, f.entry}
  BY <1>2, <1>3, <1>4, <1>7, WalkIs DEF WalkEnd
<1> QED BY <1>2, <1>3, <1>5, <1>6, <1>8 DEF Owns

LEMMA NoEntry ==
  ASSUME NEW img, NEW a, LoadOf(img, a) = 0
  PROVE  EntryOf(img, a) = 0
BY DEF EntryOf, LoadOf, FunctionOf

(* A lookup ends where it did in the image, unless its function is stubbed *)
(* already.                                                                *)
LEMMA EntryStays ==
  ASSUME NEW img \in Images, NEW E, Entries(img, E), NEW w, Stubbed(img, w, E),
         NEW a \in Anchors, \A f \in img.fns : Owns(img, f, a) => f.entry \notin E
  PROVE  FunctionOf(w, img.kexts, a[1], a[2]) = EntryOf(img, a)
<1> DEFINE x == LoadOf(img, a)
<1>1. LaidOut(img)
  BY KernelcachesAssumption
<1>2. CASE x = 0
  <2>1. Xref(w, img.kexts, a[1], a[2]) = 0
    BY <1>1, <1>2, XrefStays DEF LoadOf
  <2> QED BY <1>2, <2>1 DEF EntryOf, FunctionOf, LoadOf
<1>3. CASE x # 0
  <2>1. PICK f \in img.fns : Owns(img, f, a)
    BY <1>3, OwnerOf
  <2>2. f.entry \notin E
    BY <2>1
  <2>3. f.entry \in Nat \ {0} /\ f.last \in Nat /\ f.entry < x /\ x < f.last /\ x \in Nat
    <3>1. x \in Nat
      BY <1>1, <1>3, XrefIs DEF LoadOf
    <3> QED BY <1>1, <2>1, <3>1 DEF Owns, LaidOut, Recognizable
  <2>4. {x, x + 1} \subseteq Body(f)
    BY <2>3 DEF Body
  <2>5. w[x] = img.w[x] /\ w[x + 1] = img.w[x + 1]
    BY <1>1, <2>2, <2>4, BodyStays
  <2>6. Xref(w, img.kexts, a[1], a[2]) = x
    BY <1>1, <2>5, XrefStays DEF LoadOf
  <2>7. Recognizable(img.w, f, x)
    BY <2>1 DEF Owns
  <2>8. Recognizable(w, f, x) /\ w[f.entry] = img.w[f.entry]
    BY <1>1, <2>2, <2>3, <2>7, RecognizableStays
  <2>9. WalkBackToPrologue(w, x) = WalkBackToPrologue(img.w, x)
    BY <2>3, <2>7, <2>8, WalkIs
  <2> QED BY <1>3, <2>6, <2>9 DEF EntryOf, FunctionOf, LoadOf
<1> QED BY <1>2, <1>3

(* A stub leaves the file stubbed at one entry more.                       *)
LEMMA StubAt ==
  ASSUME NEW img, LaidOut(img), NEW E, Entries(img, E), NEW w, Stubbed(img, w, E),
         NEW f \in img.fns, f.entry + 2 <= f.last
  PROVE  /\ Entries(img, E \cup {f.entry})
         /\ Stubbed(img, StubFunction(w, f.entry), E \cup {f.entry})
<1> DEFINE e == f.entry
           v == StubFunction(w, e)
<1>1. Entries(img, E \cup {e})
  BY DEF Entries
<1>2. e \in Nat \ {0} /\ {e, e + 1, e + 2} \subseteq DOMAIN w /\ DOMAIN w = DOMAIN img.w
  BY DEF LaidOut, Stubbed
<1>4. DOMAIN v = DOMAIN img.w
  BY <1>2 DEF StubFunction
<1>5. \A i \in DOMAIN w : v[i] # w[i] => \/ i \in {e, e + 1} /\ v[i] \in {MOV_X0_0, RET}
                                         \/ i = e + 2 /\ v[i] = RETAB
  BY <1>2 DEF StubFunction, Stubbed
<1>6. ASSUME NEW i \in DOMAIN img.w, v[i] # img.w[i]
      PROVE  \E d \in E \cup {e} : \/ i \in {d, d + 1} /\ v[i] \in {MOV_X0_0, RET}
                                   \/ i = d + 2 /\ v[i] = RETAB
  <2>1. CASE v[i] # w[i]
    BY <1>2, <1>5, <2>1
  <2>2. CASE v[i] = w[i]
    BY <1>6, <2>2 DEF Stubbed
  <2> QED BY <2>1, <2>2
<1> HIDE DEF v
<1>7. Stubbed(img, v, E \cup {e})
  BY <1>4, <1>6 DEF Stubbed
<1> QED BY <1>1, <1>7 DEF v

-----------------------------------------------------------------------------
\* The entries of the functions some anchors are in, as the image has them.
EntriesOf(img, A) == {EntryOf(img, a) : a \in A} \ {0}

\* A predicate and its iOS variant may be in one function.
Twins == {<<Apfs, AuthRequired>>, <<Apfs, AuthRequiredIos>>}

LEMMA EntriesFit ==
  ASSUME NEW img \in Images, NEW A \in SUBSET Anchors
  PROVE  Entries(img, EntriesOf(img, A))
<1> SUFFICES ASSUME NEW e \in EntriesOf(img, A)
             PROVE  \E g \in img.fns : g.entry = e /\ e + 2 <= g.last
  BY DEF Entries
<1>1. PICK a \in A : e = EntryOf(img, a) /\ e # 0
  BY DEF EntriesOf
<1>2. LoadOf(img, a) # 0
  BY <1>1, NoEntry
<1>3. PICK f \in img.fns : Owns(img, f, a) /\ EntryOf(img, a) \in {0, f.entry}
  BY <1>2, OwnerOf
<1> QED BY <1>1, <1>3 DEF Owns

LEMMA OwnersApart ==
  ASSUME NEW img \in Images, OneAnchorEach(img), NEW a \in Anchors, NEW b \in Anchors,
         a # b, {a, b} # Twins, NEW f, NEW g, Owns(img, f, a), Owns(img, g, b)
  PROVE  f.entry # g.entry
<1>1. LaidOut(img)
  BY KernelcachesAssumption
<1>2. /\ f \in img.fns /\ g \in img.fns
      /\ LoadOf(img, a) \in Body(f) /\ LoadOf(img, b) \in Body(g)
  BY DEF Owns
<1>3. /\ f.entry \in Nat \ {0} /\ f.last \in Nat /\ f.entry <= f.last
      /\ g.entry \in Nat \ {0} /\ g.last \in Nat /\ g.entry <= g.last
  BY <1>1, <1>2 DEF LaidOut
<1>4. LoadOf(img, a) # 0 /\ LoadOf(img, b) # 0
  BY <1>2, <1>3 DEF Body
<1>5. f # g
  BY <1>2, <1>4 DEF OneAnchorEach, Twins
<1>6. f.entry \in Body(f) /\ g.entry \in Body(g)
  BY <1>3 DEF Body
<1> QED BY <1>1, <1>2, <1>5, <1>6 DEF LaidOut

(* Anchors looked up one after the other, each in what the stubs of those  *)
(* before it have left.                                                    *)
LEMMA NextLookup ==
  ASSUME NEW img \in Images, OneAnchorEach(img), NEW A \in SUBSET Anchors,
         NEW a \in Anchors \ A, \A b \in A : {a, b} # Twins,
         NEW w, Stubbed(img, w, EntriesOf(img, A))
  PROVE  LET e == EntryOf(img, a)
         IN  /\ FunctionOf(w, img.kexts, a[1], a[2]) = e
             /\ e = 0 => Stubbed(img, w, EntriesOf(img, A \cup {a}))
             /\ e # 0 => Stubbed(img, StubFunction(w, e), EntriesOf(img, A \cup {a}))
<1> DEFINE e == EntryOf(img, a)
           E == EntriesOf(img, A)
<1>1. LaidOut(img) /\ Entries(img, E)
  BY KernelcachesAssumption, EntriesFit
<1>2. ASSUME NEW f \in img.fns, Owns(img, f, a) PROVE f.entry \notin E
  <2> SUFFICES ASSUME NEW b \in A, f.entry = EntryOf(img, b), EntryOf(img, b) # 0
               PROVE  FALSE
    BY DEF EntriesOf
  <2>1. LoadOf(img, b) # 0
    BY NoEntry
  <2>2. PICK g \in img.fns : Owns(img, g, b) /\ EntryOf(img, b) \in {0, g.entry}
    BY <2>1, OwnerOf
  <2>3. a # b /\ b \in Anchors /\ {a, b} # Twins
    OBVIOUS
  <2> QED BY <1>2, <2>2, <2>3, OwnersApart
<1>3. FunctionOf(w, img.kexts, a[1], a[2]) = e
  BY <1>1, <1>2, EntryStays
<1>4. EntriesOf(img, A \cup {a}) = IF e = 0 THEN E ELSE E \cup {e}
  BY DEF EntriesOf
<1>5. ASSUME e # 0 PROVE Stubbed(img, StubFunction(w, e), EntriesOf(img, A \cup {a}))
  <2>1. LoadOf(img, a) # 0
    BY <1>5, NoEntry
  <2>2. PICK f \in img.fns : Owns(img, f, a) /\ e \in {0, f.entry}
    BY <2>1, OwnerOf
  <2>3. f.entry = e /\ f.entry + 2 <= f.last
    BY <1>5, <2>2 DEF Owns
  <2>4. EntriesOf(img, A \cup {a}) = E \cup {f.entry}
    BY <1>4, <1>5, <2>3
  <2> HIDE DEF e, E
  <2>5. Stubbed(img, w, E)
    BY DEF E
  <2>6. Stubbed(img, StubFunction(w, f.entry), E \cup {f.entry})
    BY <1>1, <2>3, <2>5, StubAt
  <2> QED BY <2>3, <2>4, <2>6
<1> QED BY <1>3, <1>4, <1>5

(* The gate of the kernel is out of reach of stubs in the kexts.           *)
LEMMA CodeStays ==
  ASSUME NEW img \in Images, NEW A \in SUBSET Anchors,
         NEW w, Stubbed(img, w, EntriesOf(img, A)),
         NEW k \in DOMAIN img.kexts, \A a \in A : a[1] # k
  PROVE  \A i \in CodeOf(img.kexts[k]) : w[i] = img.w[i]
<1> SUFFICES ASSUME NEW i \in CodeOf(img.kexts[k]), w[i] # img.w[i] PROVE FALSE
  OBVIOUS
<1>1. LaidOut(img)
  BY KernelcachesAssumption
<1>2. i \in DOMAIN img.w
  BY <1>1 DEF LaidOut
<1>3. PICK e \in EntriesOf(img, A) : i \in {e, e + 1} \/ i = e + 2
  BY <1>2 DEF Stubbed
<1>4. PICK a \in A : e = EntryOf(img, a) /\ e # 0
  BY DEF EntriesOf
<1>5. LoadOf(img, a) # 0
  BY <1>4, NoEntry
<1>6. PICK f \in img.fns : Owns(img, f, a) /\ EntryOf(img, a) \in {0, f.entry}
  BY <1>5, OwnerOf
<1>7. i \in Body(f)
  <2>1. f.entry \in Nat /\ f.last \in Nat /\ f.entry = e /\ e + 2 <= f.last
    BY <1>1, <1>4, <1>6 DEF LaidOut, Owns
  <2> QED BY <1>3, <2>1 DEF Body
<1>8. i \in CodeOf(img.kexts[a[1]]) /\ a[1] \in DOMAIN img.kexts \ {k}
  BY <1>6, <1>7 DEF Owns
<1> QED BY <1>1, <1>8 DEF LaidOut

LEMMA GateIs ==
  \A w, kexts : BsdInitGate(w, kexts) =
     LET x == Xref(w, kexts, Kernel, RootvpPanic)
     IN  IF x = 0 THEN 0 ELSE FindBranchInto(w, kexts[Kernel], x)
BY DEF BsdInitGate, KernelString, Xref

LEMMA KernelApart == \A a \in Anchors : a[1] # Kernel
BY DEF Anchors, Kernel, AppleImage4, Apfs

LEMMA GateStays ==
  ASSUME NEW img \in Images, NEW A \in SUBSET Anchors,
         NEW w, Stubbed(img, w, EntriesOf(img, A))
  PROVE  BsdInitGate(w, img.kexts) = BsdInitGate(img.w, img.kexts)
<1> DEFINE x == Xref(img.w, img.kexts, Kernel, RootvpPanic)
           seg == img.kexts[Kernel]
<1>1. LaidOut(img)
  BY KernelcachesAssumption
<1>2. CASE x = 0
  <2>1. Xref(w, img.kexts, Kernel, RootvpPanic) = 0
    BY <1>1, <1>2, XrefStays
  <2> QED BY <1>2, <2>1, GateIs
<1>3. CASE x # 0
  <2>1. Kernel \in DOMAIN img.kexts /\ x \in Nat \ {0} /\ {x, x + 1} \subseteq CodeOf(seg)
    BY <1>1, <1>3, XrefIs
  <2>2. \A i \in CodeOf(seg) : w[i] = img.w[i]
    BY <2>1, CodeStays, KernelApart
  <2>3. Xref(w, img.kexts, Kernel, RootvpPanic) = x
    BY <1>1, <2>1, <2>2, XrefStays
  <2>4. seg.lo \in Nat /\ seg.hi \in Nat
    BY <1>1, <2>1 DEF LaidOut
  <2> HIDE DEF x, seg
  <2>5. \A i \in seg.lo .. x - 1 : w[i] = img.w[i]
    BY <2>1, <2>2, <2>4 DEF CodeOf
  <2>6. FindBranchInto(w, seg, x) = FindBranchInto(img.w, seg, x)
    BY <2>5 DEF FindBranchInto
  <2> QED BY <1>3, <2>3, <2>6, GateIs DEF x, seg
<1> QED BY <1>2, <1>3

\* The gates of the panic block.
Gates(img) == {i \in DOMAIN img.w : img.w[i].op \in GateOps /\ img.w[i].to = img.block}

LEMMA GateGuards ==
  ASSUME NEW img \in Images
  PROVE  /\ BsdInitGate(img.w, img.kexts) \in Nat
         /\ BsdInitGate(img.w, img.kexts) # 0 => BsdInitGate(img.w, img.kexts) \in Gates(img)
<1> DEFINE x == Xref(img.w, img.kexts, Kernel, RootvpPanic)
           seg == img.kexts[Kernel]
           S == {i \in seg.lo .. x - 1 : /\ x - i < Window
                                         /\ img.w[i].op \in GateOps
                                         /\ img.w[i].to \in x - BlockSpan .. x + 1}
<1>1. LaidOut(img)
  BY KernelcachesAssumption
<1>2. CASE x = 0
  BY <1>2, GateIs
<1>3. CASE x # 0
  <2>1. Kernel \in DOMAIN img.kexts /\ x \in Nat \ {0} /\ {x, x + 1} \subseteq CodeOf(seg)
    BY <1>1, <1>3, XrefIs
  <2>2. seg.lo \in Nat \ {0} /\ seg.hi \in Nat /\ CodeOf(seg) \subseteq DOMAIN img.w
    BY <1>1, <2>1 DEF LaidOut
  <2>3. BsdInitGate(img.w, img.kexts) = Nearest(S)
    BY <1>3, GateIs DEF FindBranchInto
  <2>4. S \in SUBSET (1 .. x) /\ S \subseteq Nat /\ \A i \in S : i \in DOMAIN img.w
    BY <2>1, <2>2 DEF CodeOf
  <2>5. \A i \in S : i \in IntoBlock(img.w, x)
    BY <2>4 DEF IntoBlock
  <2>6. \A i \in IntoBlock(img.w, x) : i \in Gates(img)
    BY <1>3, KernelcachesAssumption DEF IntoBlock, Gates
  <2> HIDE DEF S
  <2>7. (Nearest(S) = 0 <=> S = {}) /\ (S # {} => Nearest(S) \in S)
    BY <2>1, <2>4, NearestIs
  <2>8. CASE S = {}
    BY <2>3, <2>7, <2>8
  <2>9. CASE S # {}
    <3>1. Nearest(S) \in S /\ S \subseteq Nat
      BY <2>4, <2>7, <2>9
    <3>2. Nearest(S) \in Nat
      BY <3>1
    <3>3. Nearest(S) \in Gates(img)
      BY <2>5, <2>6, <3>1
    <3> QED BY <2>3, <3>2, <3>3
  <2> QED BY <2>8, <2>9
<1> QED BY <1>2, <1>3

-----------------------------------------------------------------------------
(* What one patch does to a tool's result.                                 *)
Result(r) == DOMAIN r = {"w", "hit", "sites"}

Noted(s, v, e) == IF e = 0 THEN s ELSE Append(s, v)

LEMMA HitParts ==
  ASSUME NEW r, Result(r), NEW n, NEW e
  PROVE  /\ Result(Hit(r, n, e))
         /\ Hit(r, n, e).w = r.w
         /\ Hit(r, n, e).hit = Append(r.hit, n) /\ Hit(r, n, e).sites = Append(r.sites, e)
BY DEF Result, Hit

LEMMA WordParts ==
  ASSUME NEW r, Result(r), NEW v
  PROVE  LET q == [r EXCEPT !.w = v]
         IN  /\ Result(q) /\ q.w = v /\ q.hit = r.hit /\ q.sites = r.sites
BY DEF Result

LEMMA PatchByStringIs ==
  ASSUME NEW r, Result(r), NEW kexts, NEW n
  PROVE  LET e == FunctionOf(r.w, kexts, AppleImage4, n)
             q == PatchByString(r, kexts, n)
         IN  /\ Result(q)
             /\ q.hit = Noted(r.hit, n, e) /\ q.sites = Noted(r.sites, e, e)
             /\ q.w = IF e = 0 THEN r.w ELSE StubFunction(r.w, e)
<1> DEFINE e == FunctionOf(r.w, kexts, AppleImage4, n)
           h == Hit(r, n, e)
<1>1. CASE e = 0
  BY <1>1 DEF PatchByString, Noted
<1>2. CASE e # 0
  <2>1. PatchByString(r, kexts, n) = [h EXCEPT !.w = StubFunction(h.w, e)]
    BY <1>2 DEF PatchByString
  <2>2. /\ Result(h) /\ h.w = r.w
        /\ h.hit = Append(r.hit, n) /\ h.sites = Append(r.sites, e)
    BY HitParts
  <2> HIDE DEF e, h
  <2>4. \A v : LET q == [h EXCEPT !.w = v]
               IN  /\ Result(q) /\ q.w = v /\ q.hit = h.hit /\ q.sites = h.sites
    BY WordParts, <2>2
  <2> QED BY <1>2, <2>1, <2>2, <2>4 DEF Noted, e
<1> QED BY <1>1, <1>2

LEMMA PatchApfsIs ==
  ASSUME NEW r, Result(r), NEW kexts, NEW n, NEW dry \in BOOLEAN,
         FunctionOf(r.w, kexts, Apfs, n) \in Nat
  PROVE  LET e == FunctionOf(r.w, kexts, Apfs, n)
             q == PatchApfs(r, kexts, n, dry)
         IN  /\ Result(q)
             /\ q.hit = Noted(r.hit, n, e) /\ q.sites = Noted(r.sites, e, e)
             /\ q.w = IF e = 0 \/ dry THEN r.w ELSE StubFunction(r.w, e)
             /\ e = 0 => q = r
<1> DEFINE e == FunctionOf(r.w, kexts, Apfs, n)
           h == Hit(r, n, e)
<1>1. CASE e = 0
  BY <1>1 DEF PatchApfs, Noted
<1>2. CASE e # 0
  <2>1. e > 0
    BY <1>2
  <2>2. PatchApfs(r, kexts, n, dry) = IF dry THEN h ELSE [h EXCEPT !.w = StubFunction(h.w, e)]
    BY <1>2, <2>1 DEF PatchApfs
  <2>3. /\ Result(h) /\ h.w = r.w
        /\ h.hit = Append(r.hit, n) /\ h.sites = Append(r.sites, e)
    BY HitParts
  <2> HIDE DEF e, h
  <2>4. \A v : LET q == [h EXCEPT !.w = v]
               IN  /\ Result(q) /\ q.w = v /\ q.hit = h.hit /\ q.sites = h.sites
    BY WordParts, <2>3
  <2> QED BY <1>2, <2>2, <2>3, <2>4 DEF Noted, e
<1> QED BY <1>1, <1>2

LEMMA PatchGateIs ==
  ASSUME NEW r, Result(r), NEW n, NEW g \in Nat, NEW dry \in BOOLEAN
  PROVE  LET q == PatchGate(r, n, g, dry)
         IN  /\ Result(q)
             /\ q.hit = Noted(r.hit, n, g) /\ q.sites = Noted(r.sites, g, g)
             /\ q.w = IF g = 0 \/ dry THEN r.w ELSE [r.w EXCEPT ![g] = NOP]
<1> DEFINE h == Hit(r, n, g)
<1>1. CASE g = 0
  BY <1>1 DEF PatchGate, Noted
<1>2. CASE g # 0
  <2>1. g > 0
    BY <1>2
  <2>2. PatchGate(r, n, g, dry) = IF dry THEN h ELSE [h EXCEPT !.w = [h.w EXCEPT ![g] = NOP]]
    BY <1>2, <2>1 DEF PatchGate
  <2>3. /\ Result(h) /\ h.w = r.w
        /\ h.hit = Append(r.hit, n) /\ h.sites = Append(r.sites, g)
    BY HitParts
  <2> HIDE DEF h
  <2>4. \A v : LET q == [h EXCEPT !.w = v]
               IN  /\ Result(q) /\ q.w = v /\ q.hit = h.hit /\ q.sites = h.sites
    BY WordParts, <2>3
  <2> QED BY <1>2, <2>2, <2>3, <2>4 DEF Noted
<1> QED BY <1>1, <1>2

LEMMA EntryTyped ==
  ASSUME NEW img \in Images, NEW a \in Anchors
  PROVE  EntryOf(img, a) \in Nat
<1>1. CASE LoadOf(img, a) = 0
  BY <1>1, NoEntry
<1>2. CASE LoadOf(img, a) # 0
  <2>1. PICK f \in img.fns : EntryOf(img, a) \in {0, f.entry}
    BY <1>2, OwnerOf
  <2>2. f.entry \in Nat
    BY KernelcachesAssumption DEF LaidOut
  <2> QED BY <2>1, <2>2
<1> QED BY <1>1, <1>2

\* What a patch of apfs makes of r, after the patches at the anchors A.
ApfsDone(img, A, a, r, q, dry) ==
  /\ Result(q)
  /\ q.hit = Noted(r.hit, a[2], EntryOf(img, a))
  /\ q.sites = Noted(r.sites, EntryOf(img, a), EntryOf(img, a))
  /\ EntryOf(img, a) = 0 => q = r
  /\ dry => q.w = r.w
  /\ ~dry => Stubbed(img, q.w, EntriesOf(img, A \cup {a}))

(* A patch of apfs, dry or not, reports what the image itself says.        *)
LEMMA ApfsStep ==
  ASSUME NEW img \in Images, OneAnchorEach(img), NEW A \in SUBSET Anchors,
         NEW a \in Anchors \ A, a[1] = Apfs, \A b \in A : {a, b} # Twins,
         NEW r, Result(r), Stubbed(img, r.w, EntriesOf(img, A)), NEW dry \in BOOLEAN
  PROVE  ApfsDone(img, A, a, r, PatchApfs(r, img.kexts, a[2], dry), dry)
<1> DEFINE n == a[2]
           e == EntryOf(img, a)
<1> HIDE DEF n
<1>2. /\ FunctionOf(r.w, img.kexts, a[1], a[2]) = e
      /\ e = 0 => Stubbed(img, r.w, EntriesOf(img, A \cup {a}))
      /\ e # 0 => Stubbed(img, StubFunction(r.w, e), EntriesOf(img, A \cup {a}))
  BY NextLookup
<1>3. e \in Nat
  BY EntryTyped
<1> HIDE DEF e
<1> DEFINE q == PatchApfs(r, img.kexts, n, dry)
<1>4. /\ Result(q)
      /\ q.hit = Noted(r.hit, n, e) /\ q.sites = Noted(r.sites, e, e)
      /\ q.w = IF e = 0 \/ dry THEN r.w ELSE StubFunction(r.w, e)
      /\ e = 0 => q = r
  BY <1>2, <1>3, PatchApfsIs DEF n
<1> HIDE DEF q
<1>5. dry => q.w = r.w
  BY <1>4
<1>6. ~dry => Stubbed(img, q.w, EntriesOf(img, A \cup {a}))
  <2>1. CASE e = 0
    BY <1>2, <1>4, <2>1
  <2>2. CASE e # 0
    BY <1>2, <1>4, <2>2
  <2> QED BY <2>1, <2>2
<1> QED BY <1>4, <1>5, <1>6 DEF n, e, q, ApfsDone

SealA == <<Apfs, SealIsBroken>>
GenericA == <<Apfs, AuthRequired>>
IosA == <<Apfs, AuthRequiredIos>>
Img4A == {<<AppleImage4, n>> : n \in Range(Img4Needles)}

AuthName(img) == IF EntryOf(img, IosA) # 0 THEN AuthRequiredIos ELSE AuthRequired
AuthEntry(img) == IF EntryOf(img, IosA) # 0 THEN EntryOf(img, IosA)
                  ELSE EntryOf(img, GenericA)

LEMMA AnchorsAre ==
  /\ Anchors = Img4A \cup {SealA, GenericA, IosA} /\ Twins = {GenericA, IosA}
  /\ SealA \notin Twins \cup Img4A /\ GenericA # IosA /\ Img4A \cap Twins = {}
<1>1. Anchors = Img4A \cup {SealA, GenericA, IosA} /\ Twins = {GenericA, IosA}
  BY DEF Anchors, Img4A, SealA, GenericA, IosA, Twins
<1>2. \A a \in Img4A : a[1] = AppleImage4
  BY DEF Img4A
<1>3. SealA[1] # AppleImage4 /\ GenericA[1] # AppleImage4 /\ IosA[1] # AppleImage4
  BY DEF SealA, GenericA, IosA, Apfs, AppleImage4
<1>4. SealA[2] # GenericA[2] /\ SealA[2] # IosA[2] /\ GenericA[2] # IosA[2]
  BY DEF SealA, GenericA, IosA, SealIsBroken, AuthRequired, AuthRequiredIos
<1> QED BY <1>1, <1>2, <1>3, <1>4

LEMMA NotedGrows ==
  ASSUME NEW s \in Seq(Nat), NEW e \in Nat
  PROVE  /\ Noted(s, e, e) \in Seq(Nat)
         /\ e # 0 => Noted(s, e, e) # s
         /\ e = 0 => Noted(s, e, e) = s
<1>1. Append(s, e) \in Seq(Nat) /\ Len(Append(s, e)) = Len(s) + 1 /\ Len(s) \in Nat
  OBVIOUS
<1> QED BY <1>1 DEF Noted

(* The generic predicate is looked up in what failing to find the iOS one  *)
(* has left, which is what there was.                                      *)
LEMMA AuthStep ==
  ASSUME NEW img \in Images, OneAnchorEach(img), NEW A \in SUBSET (Anchors \ Twins),
         NEW r, Result(r), r.sites \in Seq(Nat), Stubbed(img, r.w, EntriesOf(img, A)),
         NEW dry \in BOOLEAN
  PROVE  LET e == AuthEntry(img)
             q == PatchVfsopMountAuth(r, img.kexts, dry)
         IN  /\ Result(q)
             /\ q.hit = Noted(r.hit, AuthName(img), e) /\ q.sites = Noted(r.sites, e, e)
             /\ dry => q.w = r.w
             /\ ~dry => \E B \in SUBSET Anchors : Stubbed(img, q.w, EntriesOf(img, B))
<1> DEFINE d == EntryOf(img, IosA)
           c == EntryOf(img, GenericA)
           ios == PatchApfs(r, img.kexts, AuthRequiredIos, dry)
           gen == PatchApfs(r, img.kexts, AuthRequired, dry)
<1>1. A \in SUBSET Anchors /\ IosA \in Anchors \ A /\ GenericA \in Anchors \ A
  BY AnchorsAre
<1>2. \A a, b : b \in A => {a, b} # Twins
  BY AnchorsAre
<1>3. /\ Result(ios)
      /\ ios.hit = Noted(r.hit, AuthRequiredIos, d) /\ ios.sites = Noted(r.sites, d, d)
      /\ d = 0 => ios = r
      /\ dry => ios.w = r.w
      /\ ~dry => Stubbed(img, ios.w, EntriesOf(img, A \cup {IosA}))
  <2>1. IosA[1] = Apfs /\ IosA[2] = AuthRequiredIos
    BY DEF IosA
  <2>2. \A b \in A : {IosA, b} # Twins
    BY <1>2
  <2>3. ApfsDone(img, A, IosA, r, PatchApfs(r, img.kexts, IosA[2], dry), dry)
    BY <1>1, <2>1, <2>2, ApfsStep
  <2> QED BY <1>1, <2>1, <2>3 DEF ApfsDone
<1>4. /\ Result(gen)
      /\ gen.hit = Noted(r.hit, AuthRequired, c) /\ gen.sites = Noted(r.sites, c, c)
      /\ dry => gen.w = r.w
      /\ ~dry => Stubbed(img, gen.w, EntriesOf(img, A \cup {GenericA}))
  <2>1. GenericA[1] = Apfs /\ GenericA[2] = AuthRequired
    BY DEF GenericA
  <2>2. \A b \in A : {GenericA, b} # Twins
    BY <1>2
  <2>3. ApfsDone(img, A, GenericA, r, PatchApfs(r, img.kexts, GenericA[2], dry), dry)
    BY <1>1, <2>1, <2>2, ApfsStep
  <2> QED BY <1>1, <2>1, <2>3 DEF ApfsDone
<1>5. d \in Nat
  BY <1>1, EntryTyped
<1>6. PatchVfsopMountAuth(r, img.kexts, dry) = IF ios # r THEN ios ELSE gen
  BY DEF PatchVfsopMountAuth
<1>7. A \cup {IosA} \in SUBSET Anchors /\ A \cup {GenericA} \in SUBSET Anchors
  BY <1>1
<1> HIDE DEF c, d, ios, gen
<1>8. CASE d # 0
  <2>1. ios # r
    BY <1>3, <1>5, <1>8, NotedGrows
  <2> QED BY <1>3, <1>6, <1>7, <1>8, <2>1 DEF AuthName, AuthEntry, d
<1>9. CASE d = 0
  <2>1. ios = r
    BY <1>3, <1>9
  <2> QED BY <1>4, <1>6, <1>7, <1>9, <2>1 DEF AuthName, AuthEntry, d, c
<1> QED BY <1>8, <1>9

\* What the root-authentication patcher reports, dry or not.
SsvHits(img) ==
  Noted(Noted(Noted(<<>>, SealIsBroken, EntryOf(img, SealA)), AuthName(img), AuthEntry(img)),
        RootvpPanic, BsdInitGate(img.w, img.kexts))
SsvSites(img) ==
  LET s == Noted(<<>>, EntryOf(img, SealA), EntryOf(img, SealA))
      t == Noted(s, AuthEntry(img), AuthEntry(img))
  IN  Noted(t, BsdInitGate(img.w, img.kexts), BsdInitGate(img.w, img.kexts))

\* A file that differs from the image where it is meant to.
StubWords(img) == UNION {f.entry .. f.entry + 2 : f \in {g \in img.fns : g.anchored}}
Mended(img, w) ==
  /\ DOMAIN w = DOMAIN img.w
  /\ \A i \in DOMAIN img.w : w[i] # img.w[i] => i \in StubWords(img) \cup Gates(img)

LEMMA StubsAreMeant ==
  ASSUME NEW img \in Images, NEW A \in SUBSET Anchors, NEW w,
         Stubbed(img, w, EntriesOf(img, A)),
         NEW i \in DOMAIN img.w, w[i] # img.w[i]
  PROVE  /\ i \in StubWords(img)
         /\ \E a \in A : a[1] \in DOMAIN img.kexts /\ i \in CodeOf(img.kexts[a[1]])
<1>1. LaidOut(img)
  BY KernelcachesAssumption
<1>2. PICK e \in EntriesOf(img, A) : i \in {e, e + 1} \/ i = e + 2
  BY DEF Stubbed
<1>3. PICK a \in A : e = EntryOf(img, a) /\ e # 0
  BY DEF EntriesOf
<1>4. LoadOf(img, a) # 0
  BY <1>3, NoEntry
<1>5. PICK f \in img.fns : Owns(img, f, a) /\ EntryOf(img, a) \in {0, f.entry}
  BY <1>4, OwnerOf
<1>6. f.entry \in Nat /\ f.last \in Nat /\ f.entry = e /\ e + 2 <= f.last
  BY <1>1, <1>3, <1>5 DEF LaidOut, Owns
<1>7. i \in Body(f) /\ i \in f.entry .. f.entry + 2
  BY <1>2, <1>6 DEF Body
<1> QED BY <1>5, <1>7 DEF Owns, StubWords

LEMMA SsvIs ==
  ASSUME NEW img \in Images, OneAnchorEach(img), NEW w,
         Stubbed(img, w, EntriesOf(img, Img4A)), NEW dry \in BOOLEAN
  PROVE  LET q == Ssv(w, img.kexts, dry, FALSE)
         IN  /\ q.hit = SsvHits(img) /\ q.sites = SsvSites(img)
             /\ dry => q.w = w
             /\ ~dry => Mended(img, q.w)
<1> DEFINE r == Untouched(w)
           s == PatchApfs(r, img.kexts, SealIsBroken, dry)
           t == PatchVfsopMountAuth(s, img.kexts, dry)
           q == PatchBsdInitRootauth(t, img.kexts, dry)
           d == EntryOf(img, SealA)
           e == AuthEntry(img)
           g == BsdInitGate(img.w, img.kexts)
<1>1. Ssv(w, img.kexts, dry, FALSE) = q
  BY DEF Ssv
<1>2. Result(r) /\ r.w = w /\ r.hit = <<>> /\ r.sites = <<>>
  BY DEF Result, Untouched
<1>3. Img4A \in SUBSET Anchors /\ SealA \in Anchors \ Img4A /\ \A b : {SealA, b} # Twins
  BY AnchorsAre
<1> HIDE DEF r
<1>4. /\ Result(s)
      /\ s.hit = Noted(<<>>, SealIsBroken, d) /\ s.sites = Noted(<<>>, d, d)
      /\ dry => s.w = w
      /\ ~dry => Stubbed(img, s.w, EntriesOf(img, Img4A \cup {SealA}))
  <2>1. SealA[1] = Apfs /\ SealA[2] = SealIsBroken
    BY DEF SealA
  <2>2. \A b \in Img4A : {SealA, b} # Twins
    BY <1>3
  <2>3. ApfsDone(img, Img4A, SealA, r, PatchApfs(r, img.kexts, SealA[2], dry), dry)
    BY <1>2, <1>3, <2>1, <2>2, ApfsStep
  <2> QED BY <1>2, <1>3, <2>1, <2>3 DEF ApfsDone
<1>5. PICK A \in SUBSET (Anchors \ Twins) : Stubbed(img, s.w, EntriesOf(img, A))
  <2>1. Img4A \in SUBSET (Anchors \ Twins) /\ Img4A \cup {SealA} \in SUBSET (Anchors \ Twins)
    BY AnchorsAre
  <2> QED BY <1>4, <2>1
<1>6. d \in Nat /\ s.sites \in Seq(Nat)
  <2>1. d \in Nat
    BY <1>3, EntryTyped
  <2>2. <<>> \in Seq(Nat)
    OBVIOUS
  <2> HIDE DEF d
  <2> QED BY <1>4, <2>1, <2>2, NotedGrows
<1> HIDE DEF s, d
<1>7. /\ Result(t)
      /\ t.hit = Noted(s.hit, AuthName(img), e) /\ t.sites = Noted(s.sites, e, e)
      /\ dry => t.w = s.w
      /\ ~dry => \E B \in SUBSET Anchors : Stubbed(img, t.w, EntriesOf(img, B))
  BY <1>4, <1>5, <1>6, AuthStep
<1>8. PICK B \in SUBSET Anchors : Stubbed(img, t.w, EntriesOf(img, B))
  <2>1. Anchors \ Twins \subseteq Anchors
    OBVIOUS
  <2> QED BY <1>5, <1>7, <2>1
<1> HIDE DEF t, e
<1>9. BsdInitGate(t.w, img.kexts) = g /\ g \in Nat
  BY <1>8, GateStays, GateGuards
<1> DEFINE p == PatchGate(t, RootvpPanic, g, dry)
<1>10. q = p
  BY <1>9 DEF PatchBsdInitRootauth
<1> HIDE DEF g, q
<1>11. /\ p.hit = Noted(t.hit, RootvpPanic, g) /\ p.sites = Noted(t.sites, g, g)
       /\ p.w = IF g = 0 \/ dry THEN t.w ELSE [t.w EXCEPT ![g] = NOP]
  BY <1>7, <1>9, PatchGateIs
<1> HIDE DEF p
<1>12. q.hit = SsvHits(img) /\ q.sites = SsvSites(img)
  BY <1>4, <1>7, <1>10, <1>11 DEF SsvHits, SsvSites, d, e, g
<1>13. dry => q.w = w
  BY <1>4, <1>7, <1>10, <1>11
<1>14. ASSUME ~dry PROVE Mended(img, q.w)
  <2>1. DOMAIN t.w = DOMAIN img.w
    BY <1>8 DEF Stubbed
  <2>2. \A i \in DOMAIN img.w : t.w[i] # img.w[i] => i \in StubWords(img)
    BY <1>8, StubsAreMeant
  <2>3. g # 0 => g \in Gates(img)
    BY GateGuards DEF g
  <2>4. q.w = IF g = 0 THEN t.w ELSE [t.w EXCEPT ![g] = NOP]
    BY <1>10, <1>11, <1>14
  <2> QED BY <2>1, <2>2, <2>3, <2>4 DEF Mended
<1> QED BY <1>1, <1>12, <1>13, <1>14

-----------------------------------------------------------------------------
\* The anchors of the first t needles, and a result that is true to them.
Tried(t) == {<<AppleImage4, Img4Needles[k]>> : k \in 1 .. t}

Img4So(img, r, t) ==
  /\ Result(r) /\ r.hit \in Seq(Range(Img4Needles)) /\ r.sites \in Seq(Nat)
  /\ Stubbed(img, r.w, EntriesOf(img, Tried(t)))
  /\ Range(r.hit) = {a[2] : a \in {b \in Tried(t) : EntryOf(img, b) # 0}}
  /\ Range(r.sites) = EntriesOf(img, Tried(t))

LEMMA RangeAppend ==
  ASSUME NEW S, NEW s \in Seq(S), NEW e \in S
  PROVE  Range(Append(s, e)) = Range(s) \cup {e}
<1>1. /\ DOMAIN s = 1 .. Len(s) /\ Len(s) \in Nat
      /\ DOMAIN Append(s, e) = 1 .. Len(s) + 1
      /\ \A i \in 1 .. Len(s) : Append(s, e)[i] = s[i]
      /\ Append(s, e)[Len(s) + 1] = e
  OBVIOUS
<1>2. 1 .. Len(s) + 1 = (1 .. Len(s)) \cup {Len(s) + 1}
  BY <1>1
<1> QED BY <1>1, <1>2 DEF Range

LEMMA TriedAre ==
  /\ \A t \in 0 .. Len(Img4Needles) : Tried(t) \in SUBSET Img4A
  /\ Tried(0) = {} /\ Tried(Len(Img4Needles)) = Img4A
  /\ \A t \in 0 .. Len(Img4Needles) : t < Len(Img4Needles) =>
        LET a == <<AppleImage4, Img4Needles[t + 1]>>
        IN  /\ a \in Img4A /\ a \notin Tried(t)
            /\ Tried(t + 1) = Tried(t) \cup {a}
<1>1. /\ Len(Img4Needles) \in Nat /\ DOMAIN Img4Needles = 1 .. Len(Img4Needles)
      /\ \A i, j \in DOMAIN Img4Needles : Img4Needles[i] = Img4Needles[j] => i = j
  BY KcPatchAssumption
<1>2. Img4A = {<<AppleImage4, Img4Needles[k]>> : k \in 1 .. Len(Img4Needles)}
  BY <1>1 DEF Img4A, Range
<1>3. Tried(0) = {} /\ Tried(Len(Img4Needles)) = Img4A
  BY <1>2 DEF Tried
<1>4. \A t \in 0 .. Len(Img4Needles) : Tried(t) \in SUBSET Img4A
  BY <1>1, <1>2 DEF Tried
<1>5. ASSUME NEW t \in 0 .. Len(Img4Needles), t < Len(Img4Needles)
      PROVE  LET a == <<AppleImage4, Img4Needles[t + 1]>>
             IN  /\ a \in Img4A /\ a \notin Tried(t)
                 /\ Tried(t + 1) = Tried(t) \cup {a}
  <2> DEFINE a == <<AppleImage4, Img4Needles[t + 1]>>
  <2>1. t + 1 \in 1 .. Len(Img4Needles) /\ 1 .. t + 1 = (1 .. t) \cup {t + 1}
    BY <1>1, <1>5
  <2>2. a \in Img4A
    BY <1>2, <2>1
  <2>3. a \notin Tried(t)
    <3>1. \A k \in 1 .. t : k # t + 1 /\ k \in DOMAIN Img4Needles
      BY <1>1, <1>5
    <3> QED BY <1>1, <2>1, <3>1 DEF Tried
  <2>4. Tried(t + 1) = Tried(t) \cup {a}
    BY <2>1 DEF Tried
  <2> QED BY <2>2, <2>3, <2>4
<1> QED BY <1>3, <1>4, <1>5

(* Before its first turn, and after each.                                  *)
LEMMA Img4Starts ==
  ASSUME NEW img \in Images
  PROVE  Img4So(img, Untouched(img.w), 0)
<1> DEFINE r == Untouched(img.w)
<1>1. Result(r) /\ r.w = img.w /\ r.hit = <<>> /\ r.sites = <<>>
  BY DEF Result, Untouched
<1> HIDE DEF r
<1>2. EntriesOf(img, Tried(0)) = {}
  BY TriedAre DEF EntriesOf
<1>3. Stubbed(img, r.w, {})
  BY <1>1, KernelcachesAssumption, Untampered
<1>4. Range(r.hit) = {} /\ Range(r.sites) = {}
  BY <1>1 DEF Range
<1>5. {a[2] : a \in {b \in Tried(0) : EntryOf(img, b) # 0}} = {}
  BY TriedAre
<1>6. r.hit \in Seq(Range(Img4Needles)) /\ r.sites \in Seq(Nat)
  BY <1>1
<1> QED BY <1>1, <1>2, <1>3, <1>4, <1>5, <1>6 DEF Img4So, r

LEMMA Img4Turn ==
  ASSUME NEW img \in Images, OneAnchorEach(img), NEW t \in 0 .. Len(Img4Needles),
         t < Len(Img4Needles), NEW r, Img4So(img, r, t)
  PROVE  Img4So(img, PatchByString(r, img.kexts, Img4Needles[t + 1]), t + 1)
<1> DEFINE a == <<AppleImage4, Img4Needles[t + 1]>>
           e == EntryOf(img, a)
           q == PatchByString(r, img.kexts, Img4Needles[t + 1])
           A == Tried(t)
<1>1. /\ a[1] = AppleImage4 /\ a[2] = Img4Needles[t + 1]
      /\ a \in Img4A /\ a \notin A /\ Tried(t + 1) = A \cup {a} /\ A \in SUBSET Img4A
  BY TriedAre
<1>2. a[2] \in Range(Img4Needles)
  <2>1. t + 1 \in DOMAIN Img4Needles
    BY KcPatchAssumption
  <2> QED BY <1>1, <2>1 DEF Range
<1> HIDE DEF a, A
<1>3. A \in SUBSET Anchors /\ a \in Anchors \ A
  BY <1>1, AnchorsAre
<1>4. \A b \in A : {a, b} # Twins
  BY <1>1, AnchorsAre
<1>5. /\ FunctionOf(r.w, img.kexts, a[1], a[2]) = e
      /\ e = 0 => Stubbed(img, r.w, EntriesOf(img, A \cup {a}))
      /\ e # 0 => Stubbed(img, StubFunction(r.w, e), EntriesOf(img, A \cup {a}))
  <2>1. Stubbed(img, r.w, EntriesOf(img, A))
    BY DEF Img4So, A
  <2> QED BY <1>3, <1>4, <2>1, NextLookup
<1>6. e \in Nat
  BY <1>3, EntryTyped
<1> HIDE DEF e
<1>7. /\ Result(q)
      /\ q.hit = Noted(r.hit, a[2], e) /\ q.sites = Noted(r.sites, e, e)
      /\ q.w = IF e = 0 THEN r.w ELSE StubFunction(r.w, e)
  BY <1>1, <1>5, PatchByStringIs DEF Img4So
<1> HIDE DEF q
<1>8. r.hit \in Seq(Range(Img4Needles)) /\ r.sites \in Seq(Nat)
  BY DEF Img4So
<1>9. q.hit \in Seq(Range(Img4Needles)) /\ q.sites \in Seq(Nat)
  BY <1>2, <1>6, <1>7, <1>8 DEF Noted
<1>10. Stubbed(img, q.w, EntriesOf(img, Tried(t + 1)))
  <2>1. CASE e = 0
    BY <1>1, <1>5, <1>7, <2>1
  <2>2. CASE e # 0
    BY <1>1, <1>5, <1>7, <2>2
  <2> QED BY <2>1, <2>2
<1>11. Range(q.sites) = EntriesOf(img, Tried(t + 1))
  <2>1. EntriesOf(img, Tried(t + 1)) = EntriesOf(img, A) \cup ({e} \ {0})
    BY <1>1 DEF EntriesOf, e
  <2>2. Range(q.sites) = Range(r.sites) \cup ({e} \ {0})
    <3>1. CASE e = 0
      BY <1>7, <3>1 DEF Noted
    <3>2. CASE e # 0
      <4>1. Range(Append(r.sites, e)) = Range(r.sites) \cup {e}
        BY <1>6, <1>8, RangeAppend
      <4> QED BY <1>7, <3>2, <4>1 DEF Noted
    <3> QED BY <3>1, <3>2
  <2> QED BY <2>1, <2>2 DEF Img4So, A
<1>12. Range(q.hit) = {c[2] : c \in {b \in Tried(t + 1) : EntryOf(img, b) # 0}}
  <2>1. Range(r.hit) = {c[2] : c \in {b \in A : EntryOf(img, b) # 0}}
    BY DEF Img4So, A
  <2>2. CASE e = 0
    <3>1. {b \in Tried(t + 1) : EntryOf(img, b) # 0} = {b \in A : EntryOf(img, b) # 0}
      BY <1>1, <2>2 DEF e
    <3> QED BY <1>7, <2>1, <2>2, <3>1 DEF Noted
  <2>3. CASE e # 0
    <3>1. {b \in Tried(t + 1) : EntryOf(img, b) # 0}
            = {b \in A : EntryOf(img, b) # 0} \cup {a}
      BY <1>1, <2>3 DEF e
    <3>2. Range(q.hit) = Range(r.hit) \cup {a[2]}
      BY <1>2, <1>7, <1>8, <2>3, RangeAppend DEF Noted
    <3> QED BY <2>1, <3>1, <3>2
  <2> QED BY <2>2, <2>3
<1> QED BY <1>7, <1>9, <1>10, <1>11, <1>12 DEF Img4So, q

-----------------------------------------------------------------------------
(***************************************************************************)
(* The inductive invariant: what each stage has made of the copy, and what *)
(* the tools have reported, in terms of the source alone.                  *)
(***************************************************************************)
Img4Done == Img4So(src, img4, Len(Img4Needles))

Told(r) == r.hit = SsvHits(src) /\ r.sites = SsvSites(src)

ChainInv ==
  /\ src \in Images
  /\ tried \in 0 .. Len(Img4Needles)
  /\ backup \in {<<>>, src.w}
  /\ stage \in {"idle", "copied", "img4", "dry", "agreed", "done", "aborted", "failed"}
  /\ stage = "idle" => out = <<>>
  /\ stage = "copied" => out = src.w /\ Img4So(src, img4, tried)
  /\ stage \in {"img4", "dry", "agreed", "aborted"} => out = img4.w /\ Img4Done
  /\ stage = "failed" => out = src.w \/ (out = img4.w /\ Img4Done)
  /\ stage \in {"dry", "agreed", "done"} => Told(dryRun)
  /\ stage = "done" => Img4Done /\ Told(ssv) /\ Mended(src, out)

LEMMA ChainInit == Init => ChainInv
BY KcPatchAssumption DEF Init, ChainInv

(* The files and the reports are those of one image, which is never        *)
(* exchanged.                                                              *)
LEMMA CopyKeeps == ChainInv /\ Copy => ChainInv'
<1> SUFFICES ASSUME ChainInv, Copy PROVE ChainInv'
  OBVIOUS
<1>1. /\ src' = src /\ src \in Images /\ tried' = 0 /\ stage' = "copied"
      /\ out' = src.w /\ backup' = src.w /\ img4' = Untouched(src.w)
  BY DEF Copy, ChainInv
<1>2. Img4So(src', img4', tried')
  BY <1>1, Img4Starts
<1> QED BY <1>1, <1>2, KcPatchAssumption DEF ChainInv

LEMMA NeedleKeeps ==
  ASSUME \A img \in Images : OneAnchorEach(img)
  PROVE  ChainInv /\ Img4Needle => ChainInv'
<1> SUFFICES ASSUME ChainInv, Img4Needle PROVE ChainInv'
  OBVIOUS
<1>1. /\ stage = "copied" /\ tried \in 0 .. Len(Img4Needles) /\ tried < Len(Img4Needles)
      /\ src \in Images /\ Img4So(src, img4, tried) /\ tried' = tried + 1
      /\ img4' = PatchByString(img4, src.kexts, Img4Needles[tried + 1])
  BY DEF Img4Needle, ChainInv
<1>2. Img4So(src, img4', tried')
  BY <1>1, Img4Turn
<1>3. tried' \in 0 .. Len(Img4Needles)
  BY <1>1, KcPatchAssumption
<1>4. UNCHANGED <<src, backup, out, stage, dryRun, ssv>>
  BY DEF Img4Needle
<1> QED BY <1>1, <1>2, <1>3, <1>4 DEF ChainInv

LEMMA StageKeeps == ChainInv /\ Img4Stage => ChainInv'
BY DEF Img4Stage, ChainInv, Img4Done

LEMMA AnswerKeeps == ChainInv /\ (Agree \/ Abort) => ChainInv'
BY DEF Agree, Abort, ChainInv, Img4Done, Told

(* Either run of the second patcher finds what the source alone says.      *)
LEMMA SsvTold ==
  ASSUME \A img \in Images : OneAnchorEach(img), ChainInv,
         stage \in {"img4", "agreed"}, NEW dry \in BOOLEAN
  PROVE  /\ Told(Ssv(out, src.kexts, dry, FALSE))
         /\ ~dry => Mended(src, Ssv(out, src.kexts, dry, FALSE).w)
<1>1. src \in Images /\ out = img4.w /\ Stubbed(src, img4.w, EntriesOf(src, Img4A))
  BY TriedAre DEF ChainInv, Img4Done, Img4So
<1> QED BY <1>1, SsvIs DEF Told

LEMMA DryRunKeeps ==
  ASSUME \A img \in Images : OneAnchorEach(img)
  PROVE  ChainInv /\ DryRunStage => ChainInv'
<1> SUFFICES ASSUME ChainInv, DryRunStage PROVE ChainInv'
  OBVIOUS
<1>1. Told(dryRun')
  BY SsvTold DEF DryRunStage
<1>2. Told(dryRun)'
  BY <1>1 DEF DryRunStage, Told
<1>3. /\ stage = "img4" /\ stage' \in {"failed", "dry"}
      /\ UNCHANGED <<src, backup, out, img4, tried, ssv>>
  BY DEF DryRunStage
<1> QED BY <1>2, <1>3 DEF ChainInv, Img4Done

LEMMA ApplyKeeps ==
  ASSUME \A img \in Images : OneAnchorEach(img)
  PROVE  ChainInv /\ ApplyStage => ChainInv'
<1> SUFFICES ASSUME ChainInv, ApplyStage PROVE ChainInv'
  OBVIOUS
<1>1. stage = "agreed" /\ ssv' = Ssv(out, src.kexts, FALSE, FALSE)
      /\ UNCHANGED <<src, backup, img4, tried, dryRun>>
  BY DEF ApplyStage
<1>2. Told(ssv') /\ Mended(src, ssv'.w)
  BY <1>1, SsvTold
<1>3. Told(ssv)' /\ Mended(src', ssv'.w)
  BY <1>1, <1>2 DEF Told
<1>4. \/ stage' = "failed" /\ out' = out
      \/ stage' = "done" /\ out' = ssv'.w
  BY DEF ApplyStage
<1>5. (Told(dryRun) => Told(dryRun)') /\ (Img4Done => Img4Done')
  BY <1>1 DEF Told, Img4Done
<1> QED BY <1>1, <1>3, <1>4, <1>5 DEF ChainInv

LEMMA ChainStep ==
  ASSUME \A img \in Images : OneAnchorEach(img)
  PROVE  ChainInv /\ [Next]_vars => ChainInv'
<1> SUFFICES ASSUME ChainInv, [Next]_vars PROVE ChainInv'
  OBVIOUS
<1>1. CASE Copy
  BY <1>1, CopyKeeps
<1>2. CASE Img4Needle
  BY <1>2, NeedleKeeps
<1>3. CASE Img4Stage
  BY <1>3, StageKeeps
<1>4. CASE DryRunStage
  BY <1>4, DryRunKeeps
<1>5. CASE Agree \/ Abort
  BY <1>5, AnswerKeeps
<1>6. CASE ApplyStage
  BY <1>6, ApplyKeeps
<1>7. CASE UNCHANGED vars
  BY <1>7 DEF vars, ChainInv, Img4Done, Told
<1> QED BY <1>1, <1>2, <1>3, <1>4, <1>5, <1>6, <1>7 DEF Next

LEMMA ChainInvHolds ==
  ASSUME \A img \in Images : OneAnchorEach(img)
  PROVE  Spec => []ChainInv
BY ChainInit, ChainStep, PTL DEF Spec

-----------------------------------------------------------------------------
LEMMA Img4Meant ==
  ASSUME ChainInv, Img4Done, NEW i \in DOMAIN src.w, img4.w[i] # src.w[i]
  PROVE  /\ i \in StubWords(src)
         /\ AppleImage4 \in DOMAIN src.kexts /\ i \in CodeOf(src.kexts[AppleImage4])
<1>1. src \in Images /\ Stubbed(src, img4.w, EntriesOf(src, Img4A)) /\ Img4A \in SUBSET Anchors
  BY TriedAre, AnchorsAre DEF ChainInv, Img4Done, Img4So
<1>2. /\ i \in StubWords(src)
      /\ \E a \in Img4A : a[1] \in DOMAIN src.kexts /\ i \in CodeOf(src.kexts[a[1]])
  BY <1>1, StubsAreMeant
<1>3. \A a \in Img4A : a[1] = AppleImage4
  BY DEF Img4A
<1> QED BY <1>2, <1>3

LEMMA Img4Domain == ChainInv /\ Img4Done => DOMAIN img4.w = DOMAIN src.w
BY DEF Img4Done, Img4So, Stubbed

(* Whatever the chain comes to, no word is changed but the entries of      *)
(* functions that hold an anchor and the gates of the panic block, in      *)
(* every kernelcache whose anchors are in functions of their own.          *)
THEOREM StubsCorrect ==
  ASSUME \A img \in Images : OneAnchorEach(img)
  PROVE  Spec => []StubsAtEntry
<1>1. ASSUME ChainInv PROVE StubsAtEntry
  <2>1. Intended = StubWords(src) \cup Gates(src)
    BY DEF Intended, StubWords, Gates
  <2>2. \/ out = <<>> \/ out = src.w
        \/ out = img4.w /\ Img4Done
        \/ Mended(src, out)
    BY <1>1 DEF ChainInv
  <2>3. CASE out = <<>> \/ out = src.w
    BY <2>3 DEF StubsAtEntry, Changed
  <2>4. CASE out = img4.w /\ Img4Done
    BY <1>1, <2>1, <2>4, Img4Meant, Img4Domain DEF StubsAtEntry, Changed
  <2>5. CASE Mended(src, out)
    BY <2>1, <2>5 DEF StubsAtEntry, Changed, Mended
  <2> QED BY <2>2, <2>3, <2>4, <2>5
<1> QED BY <1>1, ChainInvHolds, PTL

(* A chain that was refused, or found nothing, leaves no change outside    *)
(* the code of AppleImage4.                                                *)
THEOREM RefusalCorrect ==
  ASSUME \A img \in Images : OneAnchorEach(img)
  PROVE  Spec => []RefusalLeavesImg4Only
<1>1. ASSUME ChainInv PROVE RefusalLeavesImg4Only
  <2>1. backup \in {<<>>, src.w}
    BY <1>1 DEF ChainInv
  <2>2. ASSUME stage \in {"img4", "dry", "aborted", "failed"}, NEW i \in Changed
        PROVE  /\ AppleImage4 \in DOMAIN src.kexts
               /\ i \in src.kexts[AppleImage4].lo .. src.kexts[AppleImage4].hi
    <3>1. out = img4.w /\ Img4Done
      <4>1. out # src.w
        BY <2>2 DEF Changed
      <4> QED BY <1>1, <2>2, <4>1 DEF ChainInv
    <3>2. i \in DOMAIN src.w /\ img4.w[i] # src.w[i]
      BY <1>1, <2>2, <3>1, Img4Domain DEF Changed
    <3> QED BY <1>1, <3>1, <3>2, Img4Meant DEF CodeOf
  <2> QED BY <2>1, <2>2 DEF RefusalLeavesImg4Only
<1> QED BY <1>1, ChainInvHolds, PTL

(* The verifier says of the untouched file what the lookups of both        *)
(* patchers come to.                                                       *)
LEMMA NamesApart ==
  /\ SealIsBroken \notin {AsmbNode} /\ AuthRequired \notin {AsmbNode, SealIsBroken}
  /\ RootvpPanic \notin {AsmbNode, SealIsBroken, AuthRequired}
  /\ Range(Img4Needles) \cap {AsmbNode, SealIsBroken, AuthRequired, RootvpPanic} = {}
<1>1. /\ SealIsBroken \notin {AsmbNode} /\ AuthRequired \notin {AsmbNode, SealIsBroken}
      /\ RootvpPanic \notin {AsmbNode, SealIsBroken, AuthRequired}
  BY DEF SealIsBroken, AsmbNode, AuthRequired, RootvpPanic
<1>2. Range(Img4Needles) \cap {AsmbNode, SealIsBroken, AuthRequired, RootvpPanic} = {}
  BY KcPatchAssumption DEF Range
<1> QED BY <1>1, <1>2

LEMMA VerifiedAre ==
  ASSUME NEW img
  PROVE  LET v == VerifiedSites(img.w, img.kexts)
         IN  /\ DOMAIN v = Range(Img4Needles) \cup {AsmbNode, SealIsBroken, AuthRequired,
                                                    RootvpPanic}
             /\ \A n \in Range(Img4Needles) : v[n] = EntryOf(img, <<AppleImage4, n>>)
             /\ v[SealIsBroken] = EntryOf(img, SealA)
             /\ v[AuthRequired] = AuthEntry(img)
             /\ v[RootvpPanic] = BsdInitGate(img.w, img.kexts)
<1> DEFINE v == VerifiedSites(img.w, img.kexts)
<1>1. DOMAIN v = Range(Img4Needles) \cup {AsmbNode, SealIsBroken, AuthRequired, RootvpPanic}
  BY DEF VerifiedSites
<1>2. \A n \in Range(Img4Needles) : v[n] = FunctionOf(img.w, img.kexts, AppleImage4, n)
  BY NamesApart DEF VerifiedSites
<1>3. v[SealIsBroken] = FunctionOf(img.w, img.kexts, Apfs, SealIsBroken)
  BY NamesApart DEF VerifiedSites
<1>4. v[AuthRequired] = LET ios == FunctionOf(img.w, img.kexts, Apfs, AuthRequiredIos)
                        IN  IF ios # 0 THEN ios
                            ELSE FunctionOf(img.w, img.kexts, Apfs, AuthRequired)
  BY NamesApart DEF VerifiedSites
<1>5. v[RootvpPanic] = BsdInitGate(img.w, img.kexts)
  BY NamesApart DEF VerifiedSites
<1> HIDE DEF v
<1>6. \A n : EntryOf(img, <<AppleImage4, n>>) = FunctionOf(img.w, img.kexts, AppleImage4, n)
  BY DEF EntryOf
<1>7. /\ EntryOf(img, SealA) = FunctionOf(img.w, img.kexts, Apfs, SealIsBroken)
      /\ EntryOf(img, IosA) = FunctionOf(img.w, img.kexts, Apfs, AuthRequiredIos)
      /\ EntryOf(img, GenericA) = FunctionOf(img.w, img.kexts, Apfs, AuthRequired)
  BY DEF EntryOf, SealA, IosA, GenericA
<1> QED BY <1>1, <1>2, <1>3, <1>4, <1>5, <1>6, <1>7 DEF AuthEntry, v

Three(s, x, y, z) == Len(s) = 3 /\ Range(s) = {x, y, z}

Longer(s, r, e) == Len(r) = Len(s) + 1 /\ Range(r) = Range(s) \cup {e}

LEMMA OneAppended ==
  ASSUME NEW S, NEW s \in Seq(S), NEW e \in S, NEW r, r = Append(s, e)
  PROVE  r \in Seq(S) /\ Longer(s, r, e)
<1>1. /\ DOMAIN s = 1 .. Len(s) /\ Len(s) \in Nat
      /\ r \in Seq(S) /\ DOMAIN r = 1 .. Len(s) + 1 /\ Len(r) = Len(s) + 1
      /\ \A i \in 1 .. Len(s) : r[i] = s[i]
      /\ r[Len(s) + 1] = e
  OBVIOUS
<1>2. 1 .. Len(s) + 1 = (1 .. Len(s)) \cup {Len(s) + 1}
  BY <1>1
<1>3. Range(r) = Range(s) \cup {e}
  BY <1>1, <1>2 DEF Range
<1> QED BY <1>1, <1>3 DEF Longer

LEMMA ThreeTold ==
  ASSUME NEW x, NEW y, NEW z, NEW r, r = Append(Append(Append(<<>>, x), y), z)
  PROVE  Three(r, x, y, z)
<1> DEFINE S == {x, y, z}
<1>1. x \in S /\ y \in S /\ z \in S
  OBVIOUS
<1> HIDE DEF S
<1>2. PICK n : n = <<>>
  OBVIOUS
<1>3. n \in Seq(S) /\ Len(n) = 0
  BY <1>2
<1>4. Range(n) = {}
  BY <1>2 DEF Range
<1>5. PICK a : a = Append(n, x)
  OBVIOUS
<1>6. PICK b : b = Append(a, y)
  OBVIOUS
<1>7. r = Append(b, z)
  BY <1>2, <1>5, <1>6
<1>8. a \in Seq(S) /\ Longer(n, a, x)
  BY <1>1, <1>3, <1>5, OneAppended, Zenon
<1>9. b \in Seq(S) /\ Longer(a, b, y)
  BY <1>1, <1>6, <1>8, OneAppended, Zenon
<1>10. Longer(b, r, z)
  BY <1>1, <1>7, <1>9, OneAppended, Zenon
<1>11. Range(r) = {x, y, z}
  BY <1>4, <1>8, <1>9, <1>10 DEF Longer
<1>12. Len(r) = 3
  BY <1>3, <1>8, <1>9, <1>10 DEF Longer
<1> QED BY <1>11, <1>12 DEF Three

(* The dry run and the real run report the same, and both what the         *)
(* verifier printed.                                                       *)
THEOREM PredictionCorrect ==
  ASSUME \A img \in Images : OneAnchorEach(img)
  PROVE  Spec => []SitesPredicted
<1>1. ASSUME ChainInv PROVE DryRunPredicts
  BY <1>1 DEF ChainInv, Told, DryRunPredicts
<1>2. ASSUME ChainInv, stage = "done", Verify(src.w, src.kexts)
      PROVE  /\ Range(img4.hit) = Range(Img4Needles)
             /\ Len(ssv.hit) = 3
             /\ Range(img4.sites) \cup Range(ssv.sites)
                  \subseteq Range(VerifiedSites(src.w, src.kexts))
  <2> DEFINE v == VerifiedSites(src.w, src.kexts)
             d == EntryOf(src, SealA)
             e == AuthEntry(src)
             g == BsdInitGate(src.w, src.kexts)
  <2>1. \A n \in DOMAIN v : v[n] # 0
    BY <1>2 DEF Verify
  <2>2. /\ DOMAIN v = Range(Img4Needles) \cup {AsmbNode, SealIsBroken, AuthRequired,
                                               RootvpPanic}
        /\ \A n \in Range(Img4Needles) : v[n] = EntryOf(src, <<AppleImage4, n>>)
        /\ v[SealIsBroken] = d /\ v[AuthRequired] = e /\ v[RootvpPanic] = g
    BY VerifiedAre
  <2> HIDE DEF v, d, e, g
  <2>3. /\ Range(img4.hit) = {a[2] : a \in {b \in Img4A : EntryOf(src, b) # 0}}
        /\ Range(img4.sites) = EntriesOf(src, Img4A)
    BY <1>2, TriedAre DEF ChainInv, Img4Done, Img4So
  <2>4. {b \in Img4A : EntryOf(src, b) # 0} = Img4A
    BY <2>1, <2>2 DEF Img4A
  <2>5. Range(img4.hit) = Range(Img4Needles)
    <3>1. \A n : <<AppleImage4, n>>[2] = n
      OBVIOUS
    <3>2. {a[2] : a \in Img4A} = {<<AppleImage4, n>>[2] : n \in Range(Img4Needles)}
      BY DEF Img4A
    <3> QED BY <2>3, <2>4, <3>1, <3>2
  <2>6. Range(img4.sites) \subseteq Range(v)
    BY <2>2, <2>3 DEF EntriesOf, Img4A, Range
  <2>7. d # 0 /\ e # 0 /\ g # 0 /\ {d, e, g} \subseteq Range(v)
    BY <2>1, <2>2 DEF Range
  <2>8. /\ ssv.hit = Append(Append(Append(<<>>, SealIsBroken), AuthName(src)), RootvpPanic)
        /\ ssv.sites = Append(Append(Append(<<>>, d), e), g)
    BY <1>2, <2>7 DEF ChainInv, Told, SsvHits, SsvSites, Noted, d, e, g
  <2>9. Len(ssv.hit) = 3 /\ Range(ssv.sites) = {d, e, g}
    <3>1. Three(ssv.hit, SealIsBroken, AuthName(src), RootvpPanic) /\ Three(ssv.sites, d, e, g)
      BY <2>8, ThreeTold
    <3> QED BY <3>1 DEF Three
  <2> QED BY <2>5, <2>6, <2>7, <2>9 DEF v
<1>3. ASSUME ChainInv PROVE SitesPredicted
  BY <1>1, <1>2, <1>3 DEF SitesPredicted, VerifyPredicts
<1> QED BY <1>3, ChainInvHolds, PTL
=============================================================================
