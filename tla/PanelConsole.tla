---------------------------- MODULE PanelConsole ----------------------------
(* The DCP panel's text console.  The emulated UART hands it every byte the  *)
(* guest transmits; a newline ends a row, and the row is scanned for words   *)
(* that tell how far the boot has come.  The painter shows the last rows and *)
(* the stage of the boot.                                                    *)
(*                                                                           *)
(* A console is [cons, row, col, stage, panic], the code's static variables. *)
EXTENDS Integers, Sequences, FiniteSets

CONSTANTS
    ROWS, COLS, TabStop,  \* CONS_ROWS, CONS_COLS and the distance of two tab stops
    Vis,                  \* the rows the panel has room for
    Chars,                \* the printable characters
    Words, Panics,        \* the milestone words by stage, the words of a panic
    MaxLine               \* bound: bytes of one line of the guest

ASSUME ConsoleAssumption ==
    /\ ROWS \in Nat \ {0, 1} /\ TabStop \in Nat \ {0}
    /\ COLS \in Nat \ {0, 1} /\ COLS % TabStop = 0
    /\ Vis \in Nat \ {0} /\ MaxLine \in Nat

NUL == "nul"
Ctrl == {"\n", "\r", "\t", "bell"}   \* bell: any other control character
Stages == 1 .. 5

ASSUME CharsAssumption == NUL \notin Chars /\ Ctrl \cap Chars = {} /\ DOMAIN Words = Stages

VARIABLES
    con,          \* the console
    line,         \* history: what the guest sent since its last newline
    log,          \* history: its last ROWS lines, the one being written last,
                  \*          kept while every line was plain
    said          \* history: the milestones of all its plain lines

vars == <<con, line, log, said>>

-----------------------------------------------------------------------------
Larger(m, n) == IF m < n THEN n ELSE m
\* What strstr and the painter see of a row: up to its first NUL.
Text(r) ==
    LET end == CHOOSE n \in 0 .. COLS :
                   /\ n = COLS \/ r[n] = NUL
                   /\ \A k \in 0 .. n - 1 : r[k] # NUL
    IN  [i \in 1 .. end |-> r[i - 1]]

strstr(text, word) ==
    \E i \in 0 .. Len(text) - Len(word) : SubSeq(text, i + 1, i + Len(word)) = word
Has(text, words) == \E w \in words : strstr(text, w)

\* The stage of a text: the chain of tests begins with the highest.
StageOf(text) ==
    CHOOSE k \in 0 .. 5 : /\ k = 0 \/ Has(text, Words[k])
                          /\ \A j \in Stages : j > k => ~Has(text, Words[j])

boot_check_stage(c, text) ==
    [c EXCEPT !.panic = @ \/ Has(text, Panics), !.stage = Larger(@, StageOf(text))]

Blank == [k \in 0 .. COLS - 1 |-> NUL]

\* The rows one higher, with a new last row.
Scrolled(cons, last) == [r \in 0 .. ROWS - 1 |-> IF r + 1 < ROWS THEN cons[r + 1] ELSE last]

\* A bug: the row that scrolled up is not cleared for the next one.
NewlineNoClear(c) ==
    LET b == boot_check_stage(c, Text(c.cons[c.row]))
    IN  IF c.row + 1 >= ROWS
        THEN [b EXCEPT !.cons = Scrolled(@, c.cons[c.row]), !.row = ROWS - 1, !.col = 0]
        ELSE [b EXCEPT !.row = @ + 1, !.col = 0]

\* A bug: the row is scanned once the cursor has left it.
NewlineScansNext(c) ==
    LET n == IF c.row + 1 >= ROWS
             THEN [c EXCEPT !.cons = Scrolled(@, Blank), !.row = ROWS - 1, !.col = 0]
             ELSE [c EXCEPT !.cons[c.row + 1] = Blank, !.row = @ + 1, !.col = 0]
    IN  boot_check_stage(n, Text(n.cons[n.row]))

\* The row that ends is scanned; after the last row all scroll up.
cons_newline(c) ==
    LET b == boot_check_stage(c, Text(c.cons[c.row]))
    IN  IF c.row + 1 >= ROWS
        THEN [b EXCEPT !.cons = Scrolled(@, Blank), !.row = ROWS - 1, !.col = 0]
        ELSE [b EXCEPT !.cons[c.row + 1] = Blank, !.row = @ + 1, !.col = 0]

\* The next tab stop: (col + 8) & ~7.
TabTo(col) == ((col \div TabStop) + 1) * TabStop

MoveTo(c, col) == [c EXCEPT !.col = col]
Put(c, ch) == [c EXCEPT !.cons[c.row][c.col] = ch, !.col = @ + 1]

\* A bug: the last column is not kept for the NUL.
FeedWide(c, ch) ==
    CASE ch = "\n" -> cons_newline(c)
      [] ch = "\r" -> MoveTo(c, 0)
      [] ch = "\t" -> IF TabTo(c.col) > COLS - 1 THEN cons_newline(c)
                      ELSE MoveTo(c, TabTo(c.col))
      [] ch \in Chars -> Put(IF c.col > COLS - 1 THEN cons_newline(c) ELSE c, ch)
      [] OTHER -> c

\* One byte.  A tab moves the cursor and writes nothing.
dcp_console_feed(c, ch) ==
    CASE ch = "\n" -> cons_newline(c)
      [] ch = "\r" -> MoveTo(c, 0)
      [] ch = "\t" -> IF TabTo(c.col) >= COLS - 1 THEN cons_newline(c)
                      ELSE MoveTo(c, TabTo(c.col))
      [] ch \in Chars -> Put(IF c.col >= COLS - 1 THEN cons_newline(c) ELSE c, ch)
      [] OTHER -> c

\* The rows dcp_paint shows, from the top.
Painted(c) ==
    LET start == Larger(0, c.row - Vis + 1)
    IN  [i \in 1 .. Vis |-> IF start + i - 1 < ROWS THEN Text(c.cons[start + i - 1]) ELSE <<>>]

-----------------------------------------------------------------------------
\* A line the console has a row for, as it was sent.
Plain(l) == Len(l) < COLS /\ \A i \in 1 .. Len(l) : l[i] \in Chars
Odd == <<"odd">>     \* a log no longer kept

Note(m, text) == [stage |-> Larger(m.stage, StageOf(text)), panic |-> m.panic \/ Has(text, Panics)]
Last(n, s) == IF Len(s) <= n THEN s ELSE SubSeq(s, Len(s) - n + 1, Len(s))

Init ==
    /\ con = [cons |-> [r \in 0 .. ROWS - 1 |-> Blank],
              row |-> 0, col |-> 0, stage |-> 0, panic |-> FALSE]
    /\ line = <<>> /\ log = << <<>> >>
    /\ said = [stage |-> 0, panic |-> FALSE]

\* The guest transmits a byte of a line, which the UART tees.
Transmit(ch) ==
    /\ Len(line) < MaxLine
    /\ con' = dcp_console_feed(con, ch)
    /\ line' = IF ch = "bell" THEN line ELSE Append(line, ch)
    /\ log' = IF log = Odd \/ ~Plain(line') THEN Odd ELSE [log EXCEPT ![Len(log)] = line']
    /\ UNCHANGED said

EndLine ==
    /\ con' = dcp_console_feed(con, "\n")
    /\ line' = <<>>
    /\ log' = IF log = Odd THEN Odd ELSE Last(ROWS, Append(log, <<>>))
    /\ said' = IF Plain(line) THEN Note(said, line) ELSE said

Next ==
    \/ \E ch \in Chars \cup {"\r", "\t", "bell"} : Transmit(ch)
    \/ EndLine

Spec == Init /\ [][Next]_vars

-----------------------------------------------------------------------------
(* strstr and the painter stay in their row, and a row is one of the array: *)
(* whatever mixture of long lines, tabs and carriage returns the guest      *)
(* sends, the last column holds a NUL and the cursor is in a row.           *)
RowsTerminated ==
    /\ con.cons \in [0 .. ROWS - 1 -> [0 .. COLS - 1 -> Chars \cup {NUL}]]
    /\ con.row < ROWS /\ con.col < COLS
    /\ \A r \in 0 .. ROWS - 1 : con.cons[r][COLS - 1] = NUL

(* While the guest's lines fit and hold plain text only, the panel shows the *)
(* last of them, unchanged and in order, with the current one, also when the *)
(* rows have scrolled; below the current one it is empty.                    *)
PanelShowsLog ==
    log # Odd =>
        LET shown == Last(Vis, log)
        IN  Painted(con) = [i \in 1 .. Vis |-> IF i <= Len(shown) THEN shown[i] ELSE <<>>]

(* The boot bar and the panic banner have what the milestones of every plain *)
(* line say, whatever was sent before, between or after, and never go back   *)
(* on it; and as long as all lines were plain, no more than that: no text    *)
(* left in a row is taken for a new line's, none is scanned before it ends.  *)
BarFollowsMilestones ==
    /\ con.stage >= said.stage /\ (said.panic => con.panic)
    /\ log # Odd => con.stage = said.stage /\ con.panic = said.panic
=============================================================================
