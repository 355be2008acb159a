---------------------------- MODULE PanelProofs ----------------------------
(***************************************************************************)
(* For every panel and every text the guest sends, the console stays in    *)
(* its array, and plain lines are shown and scanned as they were sent.     *)
(***************************************************************************)
EXTENDS PanelConsole, SequenceTheorems, TLAPS

\* A row the painter and strstr may read: its last column ends it.
Rows == {r \in [0 .. COLS - 1 -> Chars \cup {NUL}] : r[COLS - 1] = NUL}

Consoles == [cons : [0 .. ROWS - 1 -> Rows], row : 0 .. ROWS - 1, col : 0 .. COLS - 1,
             stage : 0 .. 5, panic : BOOLEAN]

\* The row that holds a plain line.
RowOf(l) == [k \in 0 .. COLS - 1 |-> IF k < Len(l) THEN l[k + 1] ELSE NUL]

\* A plain line is all there is in the cursor's row, whatever came before.
LineInv ==
    /\ line \in Seq(Chars \cup {"\r", "\t"})
    /\ Plain(line) => con.col = Len(line) /\ con.cons[con.row] = RowOf(line)

SaidInv ==
    /\ said \in [stage : 0 .. 5, panic : BOOLEAN]
    /\ con.stage >= said.stage /\ (said.panic => con.panic)

\* While all lines were plain the rows are the log, and nothing else.
LogInv ==
    log # Odd =>
        /\ log \in Seq(Seq(Chars)) /\ Len(log) \in 1 .. ROWS
        /\ \A i \in 1 .. Len(log) : Len(log[i]) < COLS
        /\ Plain(line) /\ line = log[Len(log)]
        /\ con.row = Len(log) - 1
        /\ \A r \in 0 .. ROWS - 1 :
              con.cons[r] = IF r < Len(log) THEN RowOf(log[r + 1]) ELSE Blank
        /\ con.stage = said.stage /\ con.panic = said.panic

PanelInv == con \in Consoles /\ LineInv /\ SaidInv /\ LogInv

-----------------------------------------------------------------------------
(* The chain of tests finds one stage.                                     *)
LEMMA StageTyped ==
  ASSUME NEW text
  PROVE  StageOf(text) \in 0 .. 5
<1> DEFINE Is(k) == /\ k = 0 \/ Has(text, Words[k])
                    /\ \A j \in Stages : j > k => ~Has(text, Words[j])
<1> HIDE DEF Is
<1>1. \E k \in 0 .. 5 : Is(k)
  <2> DEFINE H(k) == Has(text, Words[k])
  <2> HIDE DEF H
  <2>1. \A k : Is(k) <=> (k = 0 \/ H(k)) /\ \A j \in Stages : j > k => ~H(j)
    BY DEF Is, H
  <2>2. CASE H(5)
    BY <2>1, <2>2 DEF Stages
  <2>3. CASE ~H(5) /\ H(4)
    BY <2>1, <2>3 DEF Stages
  <2>4. CASE ~H(5) /\ ~H(4) /\ H(3)
    BY <2>1, <2>4 DEF Stages
  <2>5. CASE ~H(5) /\ ~H(4) /\ ~H(3) /\ H(2)
    BY <2>1, <2>5 DEF Stages
  <2>6. CASE ~H(5) /\ ~H(4) /\ ~H(3) /\ ~H(2)
    BY <2>1, <2>6 DEF Stages
  <2> QED BY <2>2, <2>3, <2>4, <2>5, <2>6
<1>2. StageOf(text) = CHOOSE k \in 0 .. 5 : Is(k)
  BY DEF StageOf, Is
<1> QED BY <1>1, <1>2

(* The text of a row that holds a line is the line.                        *)
LEMMA TextOfRow ==
  ASSUME NEW l \in Seq(Chars), Len(l) < COLS
  PROVE  Text(RowOf(l)) = l
<1> DEFINE n == Len(l)
           r == RowOf(l)
           Ends(m) == /\ m = COLS \/ r[m] = NUL
                      /\ \A k \in 0 .. m - 1 : r[k] # NUL
<1>1. n \in 0 .. COLS - 1 /\ \A k \in 0 .. COLS - 1 : r[k] = IF k < n THEN l[k + 1] ELSE NUL
  BY ConsoleAssumption DEF RowOf
<1>2. \A k \in 0 .. n - 1 : l[k + 1] \in Chars
  OBVIOUS
<1>3. \A k \in 0 .. n - 1 : r[k] # NUL
  BY <1>1, <1>2, ConsoleAssumption, CharsAssumption
<1> HIDE DEF r
<1>4. Ends(n)
  BY <1>1, <1>3, ConsoleAssumption
<1>5. \A m \in 0 .. COLS : Ends(m) => m = n
  <2> SUFFICES ASSUME NEW m \in 0 .. COLS, Ends(m) PROVE m = n
    OBVIOUS
  <2>1. ~(n < m)
    BY <1>1, ConsoleAssumption
  <2>2. ~(m < n)
    BY <1>1, <1>3, ConsoleAssumption
  <2> QED BY <1>1, <2>1, <2>2, ConsoleAssumption
<1>6. (CHOOSE m \in 0 .. COLS : Ends(m)) = n
  <2>1. n \in 0 .. COLS
    BY <1>1, ConsoleAssumption
  <2> HIDE DEF Ends, n
  <2> QED BY <1>4, <1>5, <2>1
<1>7. Text(r) = [i \in 1 .. n |-> r[i - 1]]
  BY <1>6 DEF Text
<1>8. \A i \in 1 .. n : r[i - 1] = l[i]
  <2> SUFFICES ASSUME NEW i \in 1 .. n PROVE r[i - 1] = l[i]
    OBVIOUS
  <2>1. i - 1 \in 0 .. COLS - 1 /\ i - 1 < n /\ (i - 1) + 1 = i
    BY <1>1, ConsoleAssumption
  <2> QED BY <1>1, <2>1
<1>9. Text(r) = [i \in 1 .. n |-> l[i]]
  BY <1>7, <1>8
<1>10. l = [i \in 1 .. n |-> l[i]]
  OBVIOUS
<1> QED BY <1>9, <1>10 DEF r

(* A console with other rows and the cursor elsewhere.                     *)
With(c, cs, row, col) == [c EXCEPT !.cons = cs, !.row = row, !.col = col]

LEMMA WithParts ==
  ASSUME NEW c \in Consoles, NEW cs \in [0 .. ROWS - 1 -> Rows],
         NEW row \in 0 .. ROWS - 1, NEW col \in 0 .. COLS - 1
  PROVE  LET n == With(c, cs, row, col)
         IN  /\ n \in Consoles
             /\ n.cons = cs /\ n.row = row /\ n.col = col
             /\ n.stage = c.stage /\ n.panic = c.panic
BY DEF With, Consoles

(* What a newline does to each part of the console.                        *)
LEMMA NewlineParts ==
  ASSUME NEW c \in Consoles
  PROVE  /\ cons_newline(c) \in Consoles
         /\ cons_newline(c).col = 0
         /\ cons_newline(c).row = IF c.row + 1 >= ROWS THEN ROWS - 1 ELSE c.row + 1
         /\ cons_newline(c).cons[cons_newline(c).row] = Blank
         /\ \A r \in 0 .. ROWS - 1 :
               cons_newline(c).cons[r] =
                 IF c.row + 1 >= ROWS THEN IF r + 1 < ROWS THEN c.cons[r + 1] ELSE Blank
                 ELSE IF r = c.row + 1 THEN Blank ELSE c.cons[r]
         /\ cons_newline(c).stage = Larger(c.stage, StageOf(Text(c.cons[c.row])))
         /\ cons_newline(c).panic = (c.panic \/ Has(Text(c.cons[c.row]), Panics))
<1> DEFINE text == Text(c.cons[c.row])
           b == boot_check_stage(c, text)
           n == cons_newline(c)
<1>1. StageOf(text) \in 0 .. 5 /\ Has(text, Panics) \in BOOLEAN
  BY StageTyped DEF Has
<1>2. /\ b = [c EXCEPT !.panic = c.panic \/ Has(text, Panics),
                       !.stage = Larger(c.stage, StageOf(text))]
      /\ Larger(c.stage, StageOf(text)) \in 0 .. 5
  BY <1>1 DEF boot_check_stage, Larger, Consoles
<1>3. /\ b \in Consoles /\ b.cons = c.cons /\ b.row = c.row /\ b.col = c.col
      /\ b.stage = Larger(c.stage, StageOf(text))
      /\ b.panic = (c.panic \/ Has(text, Panics))
  BY <1>1, <1>2 DEF Consoles
<1>4. Blank \in Rows
  BY ConsoleAssumption DEF Blank, Rows
<1>5. n = IF c.row + 1 >= ROWS
          THEN [b EXCEPT !.cons = Scrolled(b.cons, Blank), !.row = ROWS - 1, !.col = 0]
          ELSE [b EXCEPT !.cons[c.row + 1] = Blank, !.row = b.row + 1, !.col = 0]
  BY DEF cons_newline
<1> HIDE DEF b, text, n
<1>6. CASE c.row + 1 >= ROWS
  <2> DEFINE cs == Scrolled(b.cons, Blank)
  <2>1. n = With(b, cs, ROWS - 1, 0)
    BY <1>5, <1>6 DEF With
  <2>2. cs \in [0 .. ROWS - 1 -> Rows]
    BY <1>3, <1>4, ConsoleAssumption DEF Scrolled, Consoles
  <2>3. \A r \in 0 .. ROWS - 1 : cs[r] = IF r + 1 < ROWS THEN c.cons[r + 1] ELSE Blank
    BY <1>3 DEF Scrolled
  <2> HIDE DEF cs
  <2>4. ROWS - 1 \in 0 .. ROWS - 1 /\ 0 \in 0 .. COLS - 1
    BY ConsoleAssumption
  <2>5. /\ n \in Consoles
        /\ n.cons = cs /\ n.row = ROWS - 1 /\ n.col = 0
        /\ n.stage = b.stage /\ n.panic = b.panic
    BY <1>3, <2>1, <2>2, <2>4, WithParts
  <2>6. n.cons[n.row] = Blank
    BY <2>3, <2>5, ConsoleAssumption
  <2> QED BY <1>3, <1>6, <2>3, <2>5, <2>6 DEF n, text
<1>7. CASE ~(c.row + 1 >= ROWS)
  <2> DEFINE cs == [b.cons EXCEPT ![c.row + 1] = Blank]
  <2>1. n = With(b, cs, c.row + 1, 0)
    BY <1>3, <1>5, <1>7 DEF With
  <2>2. c.row + 1 \in 0 .. ROWS - 1 /\ 0 \in 0 .. COLS - 1
    BY <1>7, ConsoleAssumption DEF Consoles
  <2>3. b.cons \in [0 .. ROWS - 1 -> Rows]
    BY <1>3 DEF Consoles
  <2>4. /\ cs \in [0 .. ROWS - 1 -> Rows]
        /\ \A r \in 0 .. ROWS - 1 : cs[r] = IF r = c.row + 1 THEN Blank ELSE c.cons[r]
    BY <1>3, <1>4, <2>2, <2>3
  <2> HIDE DEF cs
  <2>5. /\ n \in Consoles
        /\ n.cons = cs /\ n.row = c.row + 1 /\ n.col = 0
        /\ n.stage = b.stage /\ n.panic = b.panic
    BY <1>3, <2>1, <2>2, <2>4, WithParts
  <2> QED BY <1>3, <1>7, <2>2, <2>4, <2>5 DEF n, text
<1> QED BY <1>6, <1>7

(* A byte that is written.                                                 *)
LEMMA PutParts ==
  ASSUME NEW c \in Consoles, c.col < COLS - 1, NEW ch \in Chars
  PROVE  /\ Put(c, ch) \in Consoles
         /\ Put(c, ch).row = c.row /\ Put(c, ch).col = c.col + 1
         /\ Put(c, ch).stage = c.stage /\ Put(c, ch).panic = c.panic
         /\ \A r \in 0 .. ROWS - 1 :
               Put(c, ch).cons[r] =
                 IF r = c.row THEN [c.cons[r] EXCEPT ![c.col] = ch] ELSE c.cons[r]
<1> DEFINE row == [c.cons[c.row] EXCEPT ![c.col] = ch]
           cs == [c.cons EXCEPT ![c.row] = row]
<1>1. c.cons \in [0 .. ROWS - 1 -> Rows] /\ c.row \in 0 .. ROWS - 1
      /\ c.col \in 0 .. COLS - 1
  BY DEF Consoles
<1>2. row \in Rows
  BY <1>1, ConsoleAssumption DEF Rows
<1>3. Put(c, ch) = With(c, cs, c.row, c.col + 1)
  BY DEF Put, With, Consoles
<1> HIDE DEF row
<1>4. /\ cs \in [0 .. ROWS - 1 -> Rows]
      /\ \A r \in 0 .. ROWS - 1 : cs[r] = IF r = c.row THEN row ELSE c.cons[r]
  BY <1>1, <1>2
<1> HIDE DEF cs
<1>5. c.col + 1 \in 0 .. COLS - 1
  BY <1>1, ConsoleAssumption
<1>6. /\ Put(c, ch) \in Consoles
      /\ Put(c, ch).cons = cs /\ Put(c, ch).row = c.row /\ Put(c, ch).col = c.col + 1
      /\ Put(c, ch).stage = c.stage /\ Put(c, ch).panic = c.panic
  BY <1>1, <1>3, <1>4, <1>5, WithParts
<1> QED BY <1>4, <1>6 DEF row

LEMMA MoveParts ==
  ASSUME NEW c \in Consoles, NEW k \in 0 .. COLS - 1
  PROVE  /\ MoveTo(c, k) \in Consoles
         /\ MoveTo(c, k).stage = c.stage /\ MoveTo(c, k).panic = c.panic
BY DEF MoveTo, Consoles

(* The branches of dcp_console_feed.                                       *)
LEMMA FeedCases ==
  ASSUME NEW c, NEW ch
  PROVE  /\ ch = "\n" => dcp_console_feed(c, ch) = cons_newline(c)
         /\ ch = "\r" => dcp_console_feed(c, ch) = MoveTo(c, 0)
         /\ ch = "\t" => dcp_console_feed(c, ch) =
               IF TabTo(c.col) >= COLS - 1 THEN cons_newline(c) ELSE MoveTo(c, TabTo(c.col))
         /\ ch \in Chars => dcp_console_feed(c, ch) =
               Put(IF c.col >= COLS - 1 THEN cons_newline(c) ELSE c, ch)
         /\ ch \notin Chars \cup {"\n", "\r", "\t"} => dcp_console_feed(c, ch) = c
<1>1. ch \in Chars => ch # "\n" /\ ch # "\r" /\ ch # "\t"
  BY CharsAssumption DEF Ctrl
<1>2. ch = "\n" => dcp_console_feed(c, ch) = cons_newline(c)
  BY <1>1 DEF dcp_console_feed
<1>3. ch = "\r" => dcp_console_feed(c, ch) = MoveTo(c, 0)
  BY <1>1 DEF dcp_console_feed
<1>4. ch = "\t" => dcp_console_feed(c, ch) =
        IF TabTo(c.col) >= COLS - 1 THEN cons_newline(c) ELSE MoveTo(c, TabTo(c.col))
  BY <1>1 DEF dcp_console_feed
<1>5. ch \in Chars => dcp_console_feed(c, ch) =
        Put(IF c.col >= COLS - 1 THEN cons_newline(c) ELSE c, ch)
  BY <1>1 DEF dcp_console_feed
<1>6. ch \notin Chars \cup {"\n", "\r", "\t"} => dcp_console_feed(c, ch) = c
  BY DEF dcp_console_feed
<1> QED BY <1>2, <1>3, <1>4, <1>5, <1>6

(* Every byte leaves a console, and takes nothing back from the boot bar.  *)
LEMMA FeedTyped ==
  ASSUME NEW c \in Consoles, NEW ch
  PROVE  LET n == dcp_console_feed(c, ch)
         IN  /\ n \in Consoles
             /\ n.stage >= c.stage /\ (c.panic => n.panic)
<1> DEFINE nl == cons_newline(c)
<1>1. /\ nl \in Consoles /\ nl.col < COLS - 1
      /\ nl.stage >= c.stage /\ (c.panic => nl.panic)
  <2> DEFINE text == Text(c.cons[c.row])
  <2>1. StageOf(text) \in 0 .. 5 /\ c.stage \in 0 .. 5
    BY StageTyped DEF Consoles
  <2>2. /\ nl \in Consoles /\ nl.col = 0 /\ nl.stage = Larger(c.stage, StageOf(text))
        /\ nl.panic = (c.panic \/ Has(text, Panics))
    BY NewlineParts
  <2> HIDE DEF nl, text
  <2>3. Larger(c.stage, StageOf(text)) >= c.stage
    BY <2>1 DEF Larger
  <2>4. c.panic => nl.panic
    BY <2>2, Zenon
  <2> QED BY <2>2, <2>3, <2>4, ConsoleAssumption
<1>2. c.col \in 0 .. COLS - 1 /\ c.stage \in 0 .. 5
  BY DEF Consoles
<1>3. nl = cons_newline(c)
  OBVIOUS
<1> HIDE DEF nl
<1>4. CASE ch = "\n"
  BY <1>1, <1>3, <1>4, FeedCases
<1> DEFINE Fine(n) == n \in Consoles /\ n.stage >= c.stage /\ (c.panic => n.panic)
<1>5. ASSUME NEW k \in 0 .. COLS - 1
      PROVE  Fine(MoveTo(c, k))
  <2>1. MoveTo(c, k).stage >= c.stage
    BY <1>2, MoveParts
  <2> QED BY <2>1, MoveParts, Zenon
<1>6. CASE ch = "\r"
  <2>1. 0 \in 0 .. COLS - 1
    BY ConsoleAssumption
  <2> QED BY <1>5, <1>6, <2>1, FeedCases, Zenon
<1>7. CASE ch = "\t"
  <2>1. TabTo(c.col) \in Nat
    <3>1. c.col \div TabStop \in Nat
      BY <1>2, ConsoleAssumption
    <3> QED BY <3>1, ConsoleAssumption DEF TabTo
  <2>2. dcp_console_feed(c, ch) =
          IF TabTo(c.col) >= COLS - 1 THEN nl ELSE MoveTo(c, TabTo(c.col))
    BY <1>3, <1>7, FeedCases
  <2>3. TabTo(c.col) >= COLS - 1 \/ TabTo(c.col) \in 0 .. COLS - 1
    BY <2>1, ConsoleAssumption
  <2> QED BY <1>1, <1>5, <2>2, <2>3, Zenon
<1>8. CASE ch \in Chars
  <2> DEFINE m == IF c.col >= COLS - 1 THEN nl ELSE c
  <2>1. dcp_console_feed(c, ch) = Put(m, ch)
    BY <1>3, <1>8, FeedCases
  <2>2. m \in Consoles /\ m.col < COLS - 1 /\ m.stage >= c.stage /\ (c.panic => m.panic)
    BY <1>1, <1>2, ConsoleAssumption
  <2> HIDE DEF m
  <2>3. Put(m, ch) \in Consoles /\ Put(m, ch).stage = m.stage /\ Put(m, ch).panic = m.panic
    BY <1>8, <2>2, PutParts
  <2> QED BY <2>1, <2>2, <2>3, Zenon
<1>9. CASE ch \notin Chars \cup {"\n", "\r", "\t"}
  BY <1>2, <1>9, FeedCases
<1> QED BY <1>4, <1>6, <1>7, <1>8, <1>9
-----------------------------------------------------------------------------
LEMMA RowOfEmpty == RowOf(<<>>) = Blank
BY DEF RowOf, Blank

(* One more character of a plain line is one more in its row.              *)
LEMMA RowOfAppend ==
  ASSUME NEW S, NEW l \in Seq(S), NEW ch, Len(l) < COLS - 1
  PROVE  RowOf(Append(l, ch)) = [RowOf(l) EXCEPT ![Len(l)] = ch]
<1> DEFINE a == Append(l, ch)
<1>1. Len(a) = Len(l) + 1 /\ a[Len(l) + 1] = ch
      /\ \A k \in 0 .. Len(l) - 1 : a[k + 1] = l[k + 1]
  BY ConsoleAssumption
<1> HIDE DEF a
<1>2. \A k \in 0 .. COLS - 1 :
        RowOf(a)[k] = IF k = Len(l) THEN ch ELSE RowOf(l)[k]
  BY <1>1, ConsoleAssumption DEF RowOf
<1>3. RowOf(a) = [k \in 0 .. COLS - 1 |-> RowOf(a)[k]]
      /\ [RowOf(l) EXCEPT ![Len(l)] = ch] =
           [k \in 0 .. COLS - 1 |-> IF k = Len(l) THEN ch ELSE RowOf(l)[k]]
  BY DEF RowOf
<1> QED BY <1>2, <1>3 DEF a

(* A line is plain only as long as every byte of it was.                   *)
LEMMA PlainPrefix ==
  ASSUME NEW S, NEW l \in Seq(S), NEW ch \in S, Plain(Append(l, ch))
  PROVE  Plain(l) /\ ch \in Chars /\ Len(l) < COLS - 1
<1> DEFINE a == Append(l, ch)
<1>1. Len(a) = Len(l) + 1 /\ a[Len(l) + 1] = ch /\ Len(l) \in Nat
      /\ \A k \in 1 .. Len(l) : a[k] = l[k]
  OBVIOUS
<1>2. Len(a) < COLS /\ \A i \in 1 .. Len(a) : a[i] \in Chars
  BY DEF Plain
<1> HIDE DEF a
<1>3. Len(l) < COLS - 1
  BY <1>1, <1>2, ConsoleAssumption
<1>4. ch \in Chars
  BY <1>1, <1>2
<1>5. \A k \in 1 .. Len(l) : l[k] \in Chars
  BY <1>1, <1>2
<1>6. Len(l) < COLS
  BY <1>1, <1>3, ConsoleAssumption
<1> QED BY <1>3, <1>4, <1>5, <1>6 DEF Plain

(* A character in a line that stays plain is put at the end of its row.    *)
LEMMA FeedPlain ==
  ASSUME PanelInv, NEW ch \in Chars \cup {"\r", "\t"}, Plain(Append(line, ch))
  PROVE  LET n == dcp_console_feed(con, ch)
         IN  /\ n.row = con.row /\ n.col = Len(line) + 1
             /\ n.stage = con.stage /\ n.panic = con.panic
             /\ \A r \in 0 .. ROWS - 1 :
                   n.cons[r] = IF r = con.row THEN RowOf(Append(line, ch)) ELSE con.cons[r]
<1>1. /\ con \in Consoles /\ line \in Seq(Chars \cup {"\r", "\t"})
      /\ Plain(line) => con.col = Len(line) /\ con.cons[con.row] = RowOf(line)
  BY DEF PanelInv, LineInv
<1>2. Plain(line) /\ ch \in Chars /\ Len(line) < COLS - 1
  BY <1>1, PlainPrefix
<1>3. con.col = Len(line) /\ con.cons[con.row] = RowOf(line) /\ Len(line) \in Nat
  BY <1>1, <1>2
<1>4. dcp_console_feed(con, ch) = Put(con, ch)
  BY <1>2, <1>3, FeedCases, ConsoleAssumption
<1>5. RowOf(Append(line, ch)) = [RowOf(line) EXCEPT ![Len(line)] = ch]
  BY <1>1, <1>2, RowOfAppend
<1>6. con.col < COLS - 1
  BY <1>2, <1>3
<1>7. /\ Put(con, ch).row = con.row /\ Put(con, ch).col = con.col + 1
      /\ Put(con, ch).stage = con.stage /\ Put(con, ch).panic = con.panic
      /\ \A r \in 0 .. ROWS - 1 :
            Put(con, ch).cons[r] =
              IF r = con.row THEN [con.cons[r] EXCEPT ![con.col] = ch] ELSE con.cons[r]
  BY <1>1, <1>2, <1>6, PutParts
<1>8. [con.cons[con.row] EXCEPT ![con.col] = ch] = RowOf(Append(line, ch))
  BY <1>3, <1>5
<1> QED BY <1>3, <1>4, <1>7, <1>8

LEMMA TransmitKeepsInv ==
  ASSUME PanelInv, NEW ch \in Chars \cup {"\r", "\t", "bell"}, Transmit(ch)
  PROVE  PanelInv'
<1> DEFINE n == dcp_console_feed(con, ch)
<1>1. /\ con' = n /\ said' = said
      /\ line' = IF ch = "bell" THEN line ELSE Append(line, ch)
      /\ log' = IF log = Odd \/ ~Plain(line') THEN Odd ELSE [log EXCEPT ![Len(log)] = line']
  BY DEF Transmit
<1>2. con \in Consoles /\ n \in Consoles /\ n.stage >= con.stage /\ (con.panic => n.panic)
  BY FeedTyped DEF PanelInv
<1>3. con' \in Consoles
  BY <1>1, <1>2
<1>4. SaidInv'
  <2>1. con.stage \in 0 .. 5 /\ n.stage \in 0 .. 5
    BY <1>2 DEF Consoles
  <2> HIDE DEF n
  <2>2. /\ said \in [stage : 0 .. 5, panic : BOOLEAN]
        /\ con.stage >= said.stage /\ (said.panic => con.panic)
    BY DEF PanelInv, SaidInv
  <2>3. said.stage \in 0 .. 5
    BY <2>2
  <2>4. n.stage >= said.stage
    BY <1>2, <2>1, <2>2, <2>3
  <2>5. said.panic => n.panic
    BY <1>2, <2>2, Zenon
  <2> QED BY <1>1, <2>2, <2>4, <2>5, Zenon DEF SaidInv
<1>5. line \in Seq(Chars \cup {"\r", "\t"})
  BY DEF PanelInv, LineInv
<1>6. CASE ch = "bell"
  <2>1. ch \notin Chars \cup {"\n", "\r", "\t"}
    BY <1>6, CharsAssumption DEF Ctrl
  <2>2. con' = con /\ line' = line
    BY <1>1, <1>6, <2>1, FeedCases
  <2>3. LineInv'
    BY <2>2 DEF PanelInv, LineInv
  <2>4. LogInv'
    <3> SUFFICES ASSUME log' # Odd PROVE LogInv'
      BY DEF LogInv
    <3>1. log # Odd /\ log' = [log EXCEPT ![Len(log)] = line]
      BY <1>1, <2>2
    <3>2. log \in Seq(Seq(Chars)) /\ Len(log) \in 1 .. ROWS /\ line = log[Len(log)]
      BY <3>1 DEF PanelInv, LogInv
    <3>3. log' = log
      BY <3>1, <3>2
    <3> QED BY <1>1, <2>2, <3>3 DEF PanelInv, LogInv
  <2> QED BY <1>3, <1>4, <2>3, <2>4 DEF PanelInv
<1>7. CASE ch # "bell"
  <2>1. ch \in Chars \cup {"\r", "\t"} /\ line' = Append(line, ch)
    BY <1>1, <1>7
  <2>2. line' \in Seq(Chars \cup {"\r", "\t"}) /\ Len(line') = Len(line) + 1
    BY <1>5, <2>1
  <2>3. ASSUME Plain(line')
        PROVE  /\ con'.row = con.row /\ con'.col = Len(line')
               /\ con'.stage = con.stage /\ con'.panic = con.panic
               /\ \A r \in 0 .. ROWS - 1 :
                     con'.cons[r] = IF r = con.row THEN RowOf(line') ELSE con.cons[r]
    BY <1>1, <2>1, <2>2, <2>3, FeedPlain
  <2>4. con.row \in 0 .. ROWS - 1
    BY <1>2 DEF Consoles
  <2>5. LineInv'
    BY <2>2, <2>3, <2>4 DEF LineInv
  <2>6. LogInv'
    <3> SUFFICES ASSUME log' # Odd PROVE LogInv'
      BY DEF LogInv
    <3>1. log # Odd /\ Plain(line') /\ log' = [log EXCEPT ![Len(log)] = line']
      BY <1>1
    <3>2. /\ log \in Seq(Seq(Chars)) /\ Len(log) \in 1 .. ROWS
          /\ \A i \in 1 .. Len(log) : Len(log[i]) < COLS
          /\ con.row = Len(log) - 1
          /\ \A r \in 0 .. ROWS - 1 :
                con.cons[r] = IF r < Len(log) THEN RowOf(log[r + 1]) ELSE Blank
          /\ con.stage = said.stage /\ con.panic = said.panic
      BY <3>1 DEF PanelInv, LogInv
    <3>3. line' \in Seq(Chars)
      <4>1. \A i \in 1 .. Len(line') : line'[i] \in Chars
        BY <3>1 DEF Plain
      <4> QED BY <2>2, <4>1
    <3>4. /\ log' \in Seq(Seq(Chars)) /\ Len(log') = Len(log)
          /\ log'[Len(log)] = line'
          /\ \A i \in 1 .. Len(log) - 1 : log'[i] = log[i]
      BY <3>1, <3>2, <3>3
    <3>5. \A r \in 0 .. ROWS - 1 :
            con'.cons[r] = IF r < Len(log') THEN RowOf(log'[r + 1]) ELSE Blank
      <4> SUFFICES ASSUME NEW r \in 0 .. ROWS - 1
                   PROVE  con'.cons[r] = IF r < Len(log') THEN RowOf(log'[r + 1]) ELSE Blank
        OBVIOUS
      <4>1. CASE r = con.row
        <5>1. con'.cons[r] = RowOf(line')
          BY <2>3, <3>1, <4>1
        <5>2. r < Len(log') /\ r + 1 = Len(log)
          BY <3>2, <3>4, <4>1
        <5> QED BY <3>4, <5>1, <5>2
      <4>2. CASE r # con.row
        <5>1. con'.cons[r] = con.cons[r]
          BY <2>3, <3>1, <4>2
        <5>2. CASE r < Len(log)
          <6>1. r + 1 \in 1 .. Len(log) - 1
            BY <3>2, <4>2, <5>2
          <6>2. log'[r + 1] = log[r + 1]
            BY <3>4, <6>1
          <6>3. r < Len(log') /\ con'.cons[r] = RowOf(log[r + 1])
            BY <3>2, <3>4, <5>1, <5>2
          <6> QED BY <6>2, <6>3
        <5>3. CASE ~(r < Len(log))
          <6>1. ~(r < Len(log')) /\ con'.cons[r] = Blank
            BY <3>2, <3>4, <5>1, <5>3, SMTT(60)
          <6> QED BY <6>1
        <5> QED BY <5>2, <5>3
      <4> QED BY <4>1, <4>2
    <3>6. con'.row = Len(log') - 1 /\ line' = log'[Len(log')] /\ Len(log') \in 1 .. ROWS
      BY <2>3, <3>1, <3>2, <3>4
    <3>7. con'.stage = said'.stage /\ con'.panic = said'.panic
      BY <1>1, <2>3, <3>1, <3>2
    <3>8. \A i \in 1 .. Len(log') : Len(log'[i]) < COLS
      <4>1. Len(line') < COLS
        BY <3>1 DEF Plain
      <4>2. ASSUME NEW i \in 1 .. Len(log') PROVE Len(log'[i]) < COLS
        <5>1. CASE i = Len(log)
          BY <3>4, <4>1, <5>1
        <5>2. CASE i # Len(log)
          <6>1. i \in 1 .. Len(log) - 1
            BY <3>2, <3>4, <5>2
          <6> QED BY <3>2, <3>4, <6>1
        <5> QED BY <5>1, <5>2
      <4> QED BY <4>2
    <3> QED BY <3>1, <3>4, <3>5, <3>6, <3>7, <3>8 DEF LogInv
  <2> QED BY <1>3, <1>4, <2>5, <2>6 DEF PanelInv
<1> QED BY <1>6, <1>7
(* A plain line that ends is scanned as it was sent, and its row stays.    *)
LEMMA EndLineKeepsInv ==
  ASSUME PanelInv, EndLine
  PROVE  PanelInv'
<1> DEFINE n == cons_newline(con)
           text == Text(con.cons[con.row])
<1>1. /\ con' = n /\ line' = <<>>
      /\ log' = IF log = Odd THEN Odd ELSE Last(ROWS, Append(log, <<>>))
      /\ said' = IF Plain(line) THEN Note(said, line) ELSE said
  BY FeedCases DEF EndLine
<1>2. /\ con \in Consoles
      /\ n \in Consoles /\ n.col = 0
      /\ n.row = IF con.row + 1 >= ROWS THEN ROWS - 1 ELSE con.row + 1
      /\ n.cons[n.row] = Blank
      /\ \A r \in 0 .. ROWS - 1 :
            n.cons[r] =
              IF con.row + 1 >= ROWS THEN IF r + 1 < ROWS THEN con.cons[r + 1] ELSE Blank
              ELSE IF r = con.row + 1 THEN Blank ELSE con.cons[r]
      /\ n.stage = Larger(con.stage, StageOf(text))
      /\ n.panic = (con.panic \/ Has(text, Panics))
  BY NewlineParts DEF PanelInv
<1>3. /\ line \in Seq(Chars \cup {"\r", "\t"})
      /\ Plain(line) => con.col = Len(line) /\ con.cons[con.row] = RowOf(line)
      /\ said \in [stage : 0 .. 5, panic : BOOLEAN]
      /\ con.stage >= said.stage /\ (said.panic => con.panic)
  BY DEF PanelInv, LineInv, SaidInv
<1>4. con.stage \in 0 .. 5 /\ con.panic \in BOOLEAN /\ said.stage \in 0 .. 5
      /\ said.panic \in BOOLEAN /\ con.row \in 0 .. ROWS - 1
  BY <1>2, <1>3 DEF Consoles
<1>5. Plain(line) => text = line
  <2> SUFFICES ASSUME Plain(line) PROVE text = line
    OBVIOUS
  <2>1. Len(line) < COLS /\ \A i \in 1 .. Len(line) : line[i] \in Chars
    BY DEF Plain
  <2>2. line \in Seq(Chars)
    BY <1>3, <2>1
  <2> QED BY <1>3, <2>1, <2>2, TextOfRow
<1>6. StageOf(text) \in 0 .. 5 /\ Has(text, Panics) \in BOOLEAN
  BY StageTyped DEF Has
<1> HIDE DEF n, text
<1>7. /\ said' \in [stage : 0 .. 5, panic : BOOLEAN]
      /\ said'.stage = IF Plain(line) THEN Larger(said.stage, StageOf(text)) ELSE said.stage
      /\ said'.panic = IF Plain(line) THEN said.panic \/ Has(text, Panics) ELSE said.panic
  <2>1. CASE Plain(line)
    <3>1. said' = [stage |-> Larger(said.stage, StageOf(text)),
                   panic |-> said.panic \/ Has(text, Panics)]
      BY <1>1, <1>5, <2>1 DEF Note
    <3>2. Larger(said.stage, StageOf(text)) \in 0 .. 5
      BY <1>4, <1>6 DEF Larger
    <3> QED BY <1>4, <1>6, <2>1, <3>1, <3>2
  <2>2. CASE ~Plain(line)
    BY <1>1, <1>3, <2>2
  <2> QED BY <2>1, <2>2
<1>8. SaidInv'
  <2>1. n.stage >= said'.stage
    BY <1>2, <1>3, <1>4, <1>6, <1>7 DEF Larger
  <2>2. said'.panic => n.panic
    BY <1>2, <1>3, <1>7, Zenon
  <2> QED BY <1>1, <1>7, <2>1, <2>2 DEF SaidInv
<1>9. LineInv'
  <2>1. line' \in Seq(Chars \cup {"\r", "\t"}) /\ Len(line') = 0
    BY <1>1
  <2> QED BY <1>1, <1>2, <2>1, RowOfEmpty DEF LineInv
<1>10. LogInv'
  <2> SUFFICES ASSUME log' # Odd PROVE LogInv'
    BY DEF LogInv
  <2> DEFINE a == Append(log, <<>>)
  <2>1. log # Odd /\ log' = Last(ROWS, a)
    BY <1>1
  <2>2. /\ log \in Seq(Seq(Chars)) /\ Len(log) \in 1 .. ROWS /\ Plain(line)
        /\ \A i \in 1 .. Len(log) : Len(log[i]) < COLS
        /\ con.row = Len(log) - 1
        /\ \A r \in 0 .. ROWS - 1 :
              con.cons[r] = IF r < Len(log) THEN RowOf(log[r + 1]) ELSE Blank
        /\ con.stage = said.stage /\ con.panic = said.panic
    BY <2>1 DEF PanelInv, LogInv
  <2>3. /\ a \in Seq(Seq(Chars)) /\ Len(a) = Len(log) + 1 /\ a[Len(a)] = <<>>
        /\ \A i \in 1 .. Len(log) : a[i] = log[i]
        /\ \A i \in 1 .. Len(a) : Len(a[i]) < COLS
    <3>1. /\ a \in Seq(Seq(Chars)) /\ Len(a) = Len(log) + 1 /\ a[Len(a)] = <<>>
          /\ \A i \in 1 .. Len(log) : a[i] = log[i]
      BY <2>2
    <3> HIDE DEF a
    <3>2. ASSUME NEW i \in 1 .. Len(a) PROVE Len(a[i]) < COLS
      <4>1. i \in 1 .. Len(log) \/ i = Len(a)
        BY <2>2, <3>1
      <4>2. Len(<<>>) < COLS
        BY ConsoleAssumption
      <4> QED BY <2>2, <3>1, <4>1, <4>2
    <3> QED BY <3>1, <3>2
  <2> HIDE DEF a
  <2>4. con'.stage = said'.stage /\ con'.panic = said'.panic
    <3>1. con'.stage = said'.stage
      BY <1>1, <1>2, <1>7, <2>2
    <3>2. con'.panic = said'.panic
      BY <1>1, <1>2, <1>7, <2>2, Zenon
    <3> QED BY <3>1, <3>2
  <2>5. Plain(line')
    BY <1>1, ConsoleAssumption DEF Plain
  <2>6. CASE Len(log) < ROWS
    <3>1. log' = a
      BY <2>1, <2>2, <2>3, <2>6, ConsoleAssumption DEF Last
    <3>2. con'.row = Len(log') - 1 /\ Len(log') \in 1 .. ROWS /\ line' = log'[Len(log')]
      <4>1. con'.row = con.row + 1
        BY <1>1, <1>2, <2>2, <2>6, ConsoleAssumption
      <4>2. line' = log'[Len(log')]
        BY <1>1, <2>3, <3>1
      <4> QED BY <2>2, <2>3, <2>6, <3>1, <4>1, <4>2, ConsoleAssumption, SMTT(60)
    <3>3. ASSUME NEW r \in 0 .. ROWS - 1
          PROVE  con'.cons[r] = IF r < Len(log') THEN RowOf(log'[r + 1]) ELSE Blank
      <4>1. con'.cons[r] = IF r = con.row + 1 THEN Blank ELSE con.cons[r]
        BY <1>1, <1>2, <2>2, <2>6, ConsoleAssumption
      <4>2. CASE r < Len(log)
        <5>1. r + 1 \in 1 .. Len(log) /\ r # con.row + 1 /\ r < Len(log')
          BY <2>2, <2>3, <3>1, <4>2, SMTT(60)
        <5> QED BY <2>2, <2>3, <3>1, <4>1, <4>2, <5>1
      <4>3. CASE r = Len(log)
        <5>1. r = con.row + 1 /\ r < Len(log') /\ log'[r + 1] = <<>>
          BY <2>2, <2>3, <3>1, <4>3
        <5> QED BY <4>1, <5>1, RowOfEmpty
      <4>4. CASE r > Len(log)
        <5>1. r # con.row + 1 /\ ~(r < Len(log')) /\ ~(r < Len(log))
          BY <2>2, <2>3, <3>1, <4>4
        <5> QED BY <2>2, <4>1, <5>1
      <4> QED BY <2>2, <4>2, <4>3, <4>4, ConsoleAssumption
    <3> QED BY <2>3, <2>4, <2>5, <3>1, <3>2, <3>3 DEF LogInv
  <2>7. CASE Len(log) = ROWS
    <3>1. Len(a) = ROWS + 1 /\ log' = SubSeq(a, 2, ROWS + 1)
      BY <2>1, <2>2, <2>3, <2>7, ConsoleAssumption DEF Last
    <3>2. /\ log' \in Seq(Seq(Chars)) /\ Len(log') = ROWS
          /\ \A i \in 1 .. ROWS : log'[i] = a[i + 1]
      <4>1. \A i \in 2 .. ROWS + 1 : a[i] \in Seq(Chars)
        BY <2>3, <3>1, ConsoleAssumption, SMTT(60)
      <4> QED BY <2>3, <3>1, <4>1, ConsoleAssumption, SubSeqProperties, SMTT(60)
    <3>3. con'.row = Len(log') - 1 /\ Len(log') \in 1 .. ROWS /\ line' = log'[Len(log')]
      <4>1. con'.row = ROWS - 1
        BY <1>1, <1>2, <2>2, <2>7, ConsoleAssumption
      <4>2. line' = log'[Len(log')]
        <5>1. ROWS \in 1 .. ROWS
          BY ConsoleAssumption
        <5>2. log'[ROWS] = a[ROWS + 1]
          BY <3>2, <5>1
        <5> QED BY <1>1, <2>3, <3>1, <3>2, <5>2
      <4> QED BY <3>2, <4>1, <4>2, ConsoleAssumption
    <3>4. ASSUME NEW r \in 0 .. ROWS - 1
          PROVE  con'.cons[r] = IF r < Len(log') THEN RowOf(log'[r + 1]) ELSE Blank
      <4>1. con'.cons[r] = IF r + 1 < ROWS THEN con.cons[r + 1] ELSE Blank
        BY <1>1, <1>2, <2>2, <2>7, ConsoleAssumption, SMTT(60)
      <4>2. r < Len(log') /\ log'[r + 1] = a[r + 2]
        BY <3>2, ConsoleAssumption
      <4>3. CASE r + 1 < ROWS
        <5>1. r + 1 \in 0 .. ROWS - 1 /\ r + 2 \in 1 .. Len(log) /\ r + 1 < Len(log)
          BY <2>7, <4>3, ConsoleAssumption
        <5>2. con.cons[r + 1] = RowOf(log[r + 2])
          BY <2>2, <5>1
        <5> QED BY <2>3, <4>1, <4>2, <4>3, <5>1, <5>2
      <4>4. CASE ~(r + 1 < ROWS)
        <5>1. r + 2 = Len(a)
          BY <3>1, <4>4, ConsoleAssumption
        <5> QED BY <2>3, <4>1, <4>2, <4>4, <5>1, RowOfEmpty
      <4> QED BY <4>3, <4>4
    <3>5. \A i \in 1 .. Len(log') : Len(log'[i]) < COLS
      BY <2>3, <3>1, <3>2, ConsoleAssumption, SMTT(60)
    <3> QED BY <2>4, <2>5, <3>2, <3>3, <3>4, <3>5 DEF LogInv
  <2> QED BY <2>2, <2>6, <2>7, ConsoleAssumption
<1> QED BY <1>1, <1>2, <1>8, <1>9, <1>10 DEF PanelInv

LEMMA InitPanelInv == Init => PanelInv
<1> SUFFICES ASSUME Init PROVE PanelInv
  OBVIOUS
<1>1. Blank \in Rows
  BY ConsoleAssumption DEF Blank, Rows
<1>2. /\ con.cons = [r \in 0 .. ROWS - 1 |-> Blank] /\ con.row = 0 /\ con.col = 0
      /\ con.stage = 0 /\ con.panic = FALSE
      /\ con \in Consoles
  BY <1>1, ConsoleAssumption DEF Init, Consoles
<1>3. /\ line = <<>> /\ log = << <<>> >>
      /\ said.stage = 0 /\ said.panic = FALSE /\ said \in [stage : 0 .. 5, panic : BOOLEAN]
  BY DEF Init
<1>4. Plain(line) /\ line \in Seq(Chars \cup {"\r", "\t"}) /\ Len(line) = 0
  BY <1>3, ConsoleAssumption DEF Plain
<1>5. LineInv
  BY <1>2, <1>3, <1>4, RowOfEmpty, ConsoleAssumption DEF LineInv
<1>6. SaidInv
  BY <1>2, <1>3 DEF SaidInv
<1>7. LogInv
  <2>1. /\ log \in Seq(Seq(Chars)) /\ Len(log) = 1 /\ log[1] = <<>>
        /\ \A i \in 1 .. Len(log) : Len(log[i]) < COLS
    <3>1. <<>> \in Seq(Chars) /\ Len(<<>>) < COLS
      BY ConsoleAssumption
    <3> QED BY <1>3, <3>1
  <2>2. \A r \in 0 .. ROWS - 1 :
          con.cons[r] = IF r < Len(log) THEN RowOf(log[r + 1]) ELSE Blank
    BY <1>2, <2>1, RowOfEmpty
  <2>3. Len(log) \in 1 .. ROWS /\ con.row = Len(log) - 1 /\ line = log[Len(log)]
    BY <1>2, <1>3, <2>1, ConsoleAssumption
  <2>4. con.stage = said.stage /\ con.panic = said.panic
    BY <1>2, <1>3
  <2> QED BY <1>4, <2>1, <2>2, <2>3, <2>4 DEF LogInv
<1> QED BY <1>2, <1>5, <1>6, <1>7 DEF PanelInv

LEMMA PanelInvHolds == Spec => []PanelInv
<1>1. PanelInv /\ [Next]_vars => PanelInv'
  <2> SUFFICES ASSUME PanelInv, [Next]_vars PROVE PanelInv'
    OBVIOUS
  <2>1. CASE \E ch \in Chars \cup {"\r", "\t", "bell"} : Transmit(ch)
    BY <2>1, TransmitKeepsInv
  <2>2. CASE EndLine
    BY <2>2, EndLineKeepsInv
  <2>3. CASE UNCHANGED vars
    BY <2>3 DEF vars, PanelInv, LineInv, SaidInv, LogInv
  <2> QED BY <2>1, <2>2, <2>3 DEF Next
<1> QED BY <1>1, InitPanelInv, PTL DEF Spec

-----------------------------------------------------------------------------
(* The console never leaves its array, and strstr and the painter find a   *)
(* NUL in every row, whatever the guest sends.                             *)
THEOREM RowsCorrect == Spec => []RowsTerminated
<1>1. PanelInv => RowsTerminated
  <2> SUFFICES ASSUME PanelInv PROVE RowsTerminated
    OBVIOUS
  <2>1. /\ con.cons \in [0 .. ROWS - 1 -> Rows] /\ con.row \in 0 .. ROWS - 1
        /\ con.col \in 0 .. COLS - 1
    BY DEF PanelInv, Consoles
  <2>2. con.cons \in [0 .. ROWS - 1 -> [0 .. COLS - 1 -> Chars \cup {NUL}]]
    BY <2>1 DEF Rows
  <2>3. \A r \in 0 .. ROWS - 1 : con.cons[r][COLS - 1] = NUL
    BY <2>1 DEF Rows
  <2>4. con.row < ROWS /\ con.col < COLS
    BY <2>1, ConsoleAssumption
  <2> QED BY <2>2, <2>3, <2>4 DEF RowsTerminated
<1> QED BY <1>1, PanelInvHolds, PTL

(* The boot bar and the panic banner follow the plain lines, for any words *)
(* and any text between them.                                              *)
THEOREM BarCorrect == Spec => []BarFollowsMilestones
<1>1. PanelInv => BarFollowsMilestones
  BY DEF PanelInv, SaidInv, LogInv, BarFollowsMilestones
<1> QED BY <1>1, PanelInvHolds, PTL

(* The painter's choice of rows, and what it finds in them.                *)
LEMMA InvShowsLog == PanelInv => PanelShowsLog
<1> SUFFICES ASSUME PanelInv, log # Odd
             PROVE  LET shown == Last(Vis, log)
                    IN  Painted(con) =
                          [i \in 1 .. Vis |-> IF i <= Len(shown) THEN shown[i] ELSE <<>>]
  BY DEF PanelShowsLog
<1> DEFINE shown == Last(Vis, log)
           start == Larger(0, con.row - Vis + 1)
<1>1. /\ log \in Seq(Seq(Chars)) /\ Len(log) \in 1 .. ROWS
      /\ \A i \in 1 .. Len(log) : Len(log[i]) < COLS
      /\ Plain(line) /\ line = log[Len(log)]
      /\ con.row = Len(log) - 1
      /\ \A r \in 0 .. ROWS - 1 :
            con.cons[r] = IF r < Len(log) THEN RowOf(log[r + 1]) ELSE Blank
  BY DEF PanelInv, LogInv
<1>2. /\ start = IF Len(log) <= Vis THEN 0 ELSE Len(log) - Vis
      /\ start \in Nat
  BY <1>1, ConsoleAssumption DEF Larger
<1>3. /\ Len(shown) = IF Len(log) <= Vis THEN Len(log) ELSE Vis
      /\ \A i \in 1 .. Len(shown) : shown[i] = log[start + i]
  <2>1. CASE Len(log) <= Vis
    BY <1>1, <1>2, <2>1, ConsoleAssumption DEF Last
  <2>2. CASE ~(Len(log) <= Vis)
    <3> DEFINE lo == Len(log) - Vis + 1
               hi == Len(log)
    <3>1. shown = SubSeq(log, lo, hi)
      BY <2>2 DEF Last
    <3>2. lo \in 1 .. hi /\ hi = Len(log) /\ lo \in Int /\ hi \in Int
      BY <1>1, <2>2, ConsoleAssumption
    <3>3. \A i \in lo .. hi : log[i] \in Seq(Chars)
      BY <1>1, <3>2
    <3>4. /\ Len(shown) = hi - lo + 1
          /\ \A i \in 1 .. hi - lo + 1 : shown[i] = log[lo + i - 1]
      BY <1>1, <3>1, <3>2, <3>3, SubSeqProperties, SMTT(60)
    <3>5. start = lo - 1 /\ hi - lo + 1 = Vis /\ lo \in Int
      BY <1>1, <1>2, <2>2, <3>2, ConsoleAssumption
    <3> HIDE DEF shown, start, lo, hi
    <3>6. Len(shown) = Vis
      BY <3>4, <3>5
    <3>7. ASSUME NEW i \in 1 .. Len(shown) PROVE shown[i] = log[start + i]
      <4>1. i \in 1 .. hi - lo + 1 /\ lo + i - 1 = start + i
        BY <3>5, <3>6, ConsoleAssumption
      <4> QED BY <3>4, <4>1
    <3> QED BY <2>2, <3>6, <3>7
  <2> QED BY <2>1, <2>2
<1> HIDE DEF shown, start
<1>4. ASSUME NEW r \in 0 .. ROWS - 1
      PROVE  Text(con.cons[r]) = IF r < Len(log) THEN log[r + 1] ELSE <<>>
  <2>1. CASE r < Len(log)
    <3>1. r + 1 \in 1 .. Len(log) /\ log[r + 1] \in Seq(Chars)
      BY <1>1, <2>1
    <3>2. Len(log[r + 1]) < COLS
      BY <1>1, <3>1
    <3> QED BY <1>1, <2>1, <3>1, <3>2, TextOfRow
  <2>2. CASE ~(r < Len(log))
    <3>1. <<>> \in Seq(Chars) /\ Len(<<>>) < COLS
      BY ConsoleAssumption
    <3> QED BY <1>1, <2>2, <3>1, TextOfRow, RowOfEmpty
  <2> QED BY <2>1, <2>2
<1>5. ASSUME NEW i \in 1 .. Vis
      PROVE  (IF start + i - 1 < ROWS THEN Text(con.cons[start + i - 1]) ELSE <<>>)
               = IF i <= Len(shown) THEN shown[i] ELSE <<>>
  <2>1. start + i - 1 < Len(log) <=> i <= Len(shown)
    BY <1>1, <1>2, <1>3, ConsoleAssumption
  <2>2. CASE start + i - 1 < ROWS
    <3>1. start + i - 1 \in 0 .. ROWS - 1 /\ (start + i - 1) + 1 = start + i
      BY <1>2, <2>2, ConsoleAssumption
    <3>2. i <= Len(shown) => i \in 1 .. Len(shown)
      BY <1>1, <1>3, ConsoleAssumption
    <3> QED BY <1>3, <1>4, <2>1, <2>2, <3>1, <3>2
  <2>3. CASE ~(start + i - 1 < ROWS)
    <3>1. ~(start + i - 1 < Len(log))
      BY <1>1, <1>2, <2>3, ConsoleAssumption
    <3> QED BY <2>1, <2>3, <3>1
  <2> QED BY <2>2, <2>3
<1>6. Painted(con) =
        [i \in 1 .. Vis |-> IF start + i - 1 < ROWS THEN Text(con.cons[start + i - 1]) ELSE <<>>]
  BY DEF Painted, start
<1> QED BY <1>5, <1>6 DEF shown

(* The panel shows the last of the log's lines, in order and unchanged,    *)
(* for any number of rows of the console and of the panel.                 *)
THEOREM PanelCorrect == Spec => []PanelShowsLog
BY InvShowsLog, PanelInvHolds, PTL
=============================================================================
