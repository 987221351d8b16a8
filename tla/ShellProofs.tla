----------------------------- MODULE ShellProofs -----------------------------
(***************************************************************************)
(* Proofs about the file trees, the shell and the consoles, for every      *)
(* screen, volume and typing.                                              *)
(***************************************************************************)
EXTENDS Shell, FiniteSetTheorems, SequenceTheorems, WellFoundedInduction, TLAPS

-----------------------------------------------------------------------------
(* Recursion over the naturals.                                            *)

(* Induction, the claim given as the set of numbers it holds for.          *)
LEMMA NatSetInduction ==
  ASSUME NEW S \in SUBSET Nat, 0 \in S, \A n \in S : n + 1 \in S
  PROVE  \A n \in Nat : n \in S
  <1> DEFINE less == OpToRel(<, Nat)
             rest == Nat \ S
  <1> SUFFICES ASSUME rest # {} PROVE FALSE
      OBVIOUS
  <1>1. IsWellFoundedOn(less, Nat)
      BY NatLessThanWellFounded, Zenon
  <1>2. \A m, n \in Nat : m < n => <<m, n>> \in less
      BY DEF OpToRel
  <1> HIDE DEF less
  <1>3. PICK n \in rest : \A m \in rest : ~ (<<m, n>> \in less)
    <2>1. rest \subseteq Nat
        OBVIOUS
    <2> HIDE DEF rest
    <2> QED
        BY <1>1, <2>1, WFMin
  <1>4. n - 1 \in Nat /\ n - 1 < n
      OBVIOUS
  <1>5. n - 1 \in S
      BY <1>2, <1>3, <1>4
  <1>6. (n - 1) + 1 \in S
      BY <1>5
  <1> QED
      BY <1>6

(* f starts at b and goes on by g.                                         *)
Iterates(f, b, g, n) == f[0] = b /\ \A k \in 1 .. n : f[k] = g[k][f[k - 1]]

(* Steps from a set into itself can be taken one after the other.          *)
LEMMA Recursion ==
  ASSUME NEW T, NEW b \in T, NEW n \in Nat, NEW g \in [1 .. n -> [T -> T]]
  PROVE  \E f \in [0 .. n -> T] : Iterates(f, b, g, n)
  <1> DEFINE S == {m \in Nat : m <= n => \E f \in [0 .. m -> T] : Iterates(f, b, g, m)}
  <1>1. 0 \in S
    <2> DEFINE f == [k \in 0 .. 0 |-> b]
    <2>1. f \in [0 .. 0 -> T] /\ f[0] = b
        OBVIOUS
    <2> HIDE DEF f
    <2>2. Iterates(f, b, g, 0)
        BY <2>1 DEF Iterates
    <2> QED
        BY <2>1, <2>2
  <1>2. ASSUME NEW m \in S PROVE m + 1 \in S
    <2> SUFFICES ASSUME m + 1 <= n PROVE \E f \in [0 .. m + 1 -> T] : Iterates(f, b, g, m + 1)
        OBVIOUS
    <2>1. PICK f \in [0 .. m -> T] : Iterates(f, b, g, m)
        OBVIOUS
    <2> DEFINE h == [k \in 0 .. m + 1 |-> IF k = m + 1 THEN g[m + 1][f[m]] ELSE f[k]]
    <2>2. m + 1 \in 1 .. n /\ m \in 0 .. m /\ f[m] \in T
        OBVIOUS
    <2>3. g[m + 1] \in [T -> T]
        BY <2>2
    <2>4. g[m + 1][f[m]] \in T
        BY <2>2, <2>3
    <2>5. h \in [0 .. m + 1 -> T]
        BY <2>4
    <2>6. h[m + 1] = g[m + 1][f[m]] /\ \A k \in 0 .. m : h[k] = f[k]
        OBVIOUS
    <2> HIDE DEF h
    <2>7. h[0] = b
        BY <2>1, <2>6 DEF Iterates
    <2>8. ASSUME NEW k \in 1 .. m + 1 PROVE h[k] = g[k][h[k - 1]]
      <3>1. CASE k = m + 1
        <4>1. k - 1 = m /\ h[k - 1] = f[m]
            BY <2>6, <3>1
        <4> QED
            BY <2>6, <3>1, <4>1
      <3>2. CASE k # m + 1
        <4>1. k \in 1 .. m /\ k \in 0 .. m /\ k - 1 \in 0 .. m
            BY <3>2
        <4>2. h[k] = f[k] /\ h[k - 1] = f[k - 1]
            BY <2>6, <4>1
        <4> QED
            BY <2>1, <4>1, <4>2 DEF Iterates
      <3> QED
          BY <3>1, <3>2
    <2> QED
        BY <2>5, <2>7, <2>8 DEF Iterates
  <1>3. n \in S
    <2> HIDE DEF S
    <2>1. S \in SUBSET Nat
        BY DEF S
    <2> QED
        BY <1>1, <1>2, <2>1, NatSetInduction
  <1> QED
      BY <1>3

(* What is reached stays in the set, however the steps were found.         *)
LEMMA Iterated ==
  ASSUME NEW T, NEW n \in Nat, NEW h, h[0] \in T,
         \A k \in 1 .. n : h[k - 1] \in T => h[k] \in T
  PROVE  \A k \in 0 .. n : h[k] \in T
  <1> DEFINE S == {m \in Nat : m <= n => h[m] \in T}
  <1>1. 0 \in S
      OBVIOUS
  <1>2. ASSUME NEW m \in S PROVE m + 1 \in S
    <2>1. CASE m + 1 <= n
      <3>1. m + 1 \in 1 .. n /\ (m + 1) - 1 = m /\ h[m] \in T
          BY <2>1
      <3> QED
          BY <3>1
    <2> QED
        BY <2>1
  <1>3. \A m \in Nat : m \in S
    <2> HIDE DEF S
    <2>1. S \in SUBSET Nat
        BY DEF S
    <2> QED
        BY <1>1, <1>2, <2>1, NatSetInduction
  <1> QED
      BY <1>3

-----------------------------------------------------------------------------
(* Printing a text is printing its characters in order.                    *)

(* f is the way from v through the characters of s.                        *)
VgaWay(f, v, s) == f[0] = v /\ \A k \in 1 .. Len(s) : f[k] = vga_putc(f[k - 1], s[k])
PaperWay(f, p, s) == f[0] = p /\ \A k \in 1 .. Len(s) : f[k] = paper_putc(f[k - 1], s[k])
WinWay(f, w, s) == f[0] = w /\ \A k \in 1 .. Len(s) : f[k] = window_putc(f[k - 1], s[k])

(* vga_puts is a way of vga_putc from the first character to the last.     *)
LEMMA VgaPuts ==
  ASSUME NEW T, NEW v \in T, NEW s, Len(s) \in Nat,
         \A x \in T, k \in 1 .. Len(s) : vga_putc(x, s[k]) \in T
  PROVE  \E f : /\ VgaWay(f, v, s) /\ vga_puts(v, s) = f[Len(s)]
                /\ \A k \in 0 .. Len(s) : f[k] \in T
  <1> DEFINE n == Len(s)
             g == [k \in 1 .. n |-> [x \in T |-> vga_putc(x, s[k])]]
             Rec(h) == h = [k \in 0 .. n |-> IF k = 0 THEN v ELSE vga_putc(h[k - 1], s[k])]
  <1>1. n \in Nat /\ g \in [1 .. n -> [T -> T]]
      OBVIOUS
  <1>2. \A k \in 1 .. n, x \in T : g[k][x] = vga_putc(x, s[k])
      OBVIOUS
  <1>3. PICK f \in [0 .. n -> T] : Iterates(f, v, g, n)
    <2> HIDE DEF g, n
    <2> QED
        BY <1>1, Recursion
  <1>4. \E h : Rec(h)
    <2> HIDE DEF g
    <2>1. ASSUME NEW k \in 0 .. n
          PROVE  f[k] = IF k = 0 THEN v ELSE vga_putc(f[k - 1], s[k])
      <3>1. CASE k = 0
          BY <1>3, <3>1 DEF Iterates
      <3>2. CASE k # 0
        <4>1. k \in 1 .. n /\ k - 1 \in 0 .. n
            BY <3>2
        <4>2. f[k] = g[k][f[k - 1]] /\ f[k - 1] \in T
            BY <1>3, <4>1 DEF Iterates
        <4> QED
            BY <1>2, <3>2, <4>1, <4>2
      <3> QED
          BY <3>1, <3>2
    <2>2. f = [k \in 0 .. n |-> f[k]]
        OBVIOUS
    <2>3. Rec(f)
        BY <2>1, <2>2
    <2> QED
        BY <2>3
  <1> DEFINE h == CHOOSE h : Rec(h)
  <1>5. Rec(h)
      BY <1>4
  <1>6. vga_puts(v, s) = h[n]
      BY DEF vga_puts
  <1> HIDE DEF h, g
  <1>7. VgaWay(h, v, s)
    <2>1. h[0] = v
        BY <1>5
    <2>2. \A k \in 1 .. n : h[k] = vga_putc(h[k - 1], s[k])
        BY <1>5
    <2> QED
        BY <2>1, <2>2 DEF VgaWay
  <1>8. \A k \in 0 .. n : h[k] \in T
    <2>1. h[0] \in T /\ \A k \in 1 .. n : h[k - 1] \in T => h[k] \in T
        BY <1>7 DEF VgaWay
    <2> HIDE DEF n
    <2> QED
        BY <1>1, <2>1, Iterated
  <1> QED
      BY <1>6, <1>7, <1>8

(* The same for the printer.                                               *)
LEMMA PaperPuts ==
  ASSUME NEW T, NEW v \in T, NEW s, Len(s) \in Nat,
         \A x \in T, k \in 1 .. Len(s) : paper_putc(x, s[k]) \in T
  PROVE  \E f : /\ PaperWay(f, v, s) /\ paper_puts(v, s) = f[Len(s)]
                /\ \A k \in 0 .. Len(s) : f[k] \in T
  <1> DEFINE n == Len(s)
             g == [k \in 1 .. n |-> [x \in T |-> paper_putc(x, s[k])]]
             Rec(h) == h = [k \in 0 .. n |-> IF k = 0 THEN v ELSE paper_putc(h[k - 1], s[k])]
  <1>1. n \in Nat /\ g \in [1 .. n -> [T -> T]]
      OBVIOUS
  <1>2. \A k \in 1 .. n, x \in T : g[k][x] = paper_putc(x, s[k])
      OBVIOUS
  <1>3. PICK f \in [0 .. n -> T] : Iterates(f, v, g, n)
    <2> HIDE DEF g, n
    <2> QED
        BY <1>1, Recursion
  <1>4. \E h : Rec(h)
    <2> HIDE DEF g
    <2>1. ASSUME NEW k \in 0 .. n
          PROVE  f[k] = IF k = 0 THEN v ELSE paper_putc(f[k - 1], s[k])
      <3>1. CASE k = 0
          BY <1>3, <3>1 DEF Iterates
      <3>2. CASE k # 0
        <4>1. k \in 1 .. n /\ k - 1 \in 0 .. n
            BY <3>2
        <4>2. f[k] = g[k][f[k - 1]] /\ f[k - 1] \in T
            BY <1>3, <4>1 DEF Iterates
        <4> QED
            BY <1>2, <3>2, <4>1, <4>2
      <3> QED
          BY <3>1, <3>2
    <2>2. f = [k \in 0 .. n |-> f[k]]
        OBVIOUS
    <2>3. Rec(f)
        BY <2>1, <2>2
    <2> QED
        BY <2>3
  <1> DEFINE h == CHOOSE h : Rec(h)
  <1>5. Rec(h)
      BY <1>4
  <1>6. paper_puts(v, s) = h[n]
      BY DEF paper_puts
  <1> HIDE DEF h, g
  <1>7. PaperWay(h, v, s)
    <2>1. h[0] = v
        BY <1>5
    <2>2. \A k \in 1 .. n : h[k] = paper_putc(h[k - 1], s[k])
        BY <1>5
    <2> QED
        BY <2>1, <2>2 DEF PaperWay
  <1>8. \A k \in 0 .. n : h[k] \in T
    <2>1. h[0] \in T /\ \A k \in 1 .. n : h[k - 1] \in T => h[k] \in T
        BY <1>7 DEF PaperWay
    <2> HIDE DEF n
    <2> QED
        BY <1>1, <2>1, Iterated
  <1> QED
      BY <1>6, <1>7, <1>8

(* The same for a window.                                                  *)
LEMMA WindowPuts ==
  ASSUME NEW T, NEW v \in T, NEW s, Len(s) \in Nat,
         \A x \in T, k \in 1 .. Len(s) : window_putc(x, s[k]) \in T
  PROVE  \E f : /\ WinWay(f, v, s) /\ gui_window_print(v, s) = f[Len(s)]
                /\ \A k \in 0 .. Len(s) : f[k] \in T
  <1> DEFINE n == Len(s)
             g == [k \in 1 .. n |-> [x \in T |-> window_putc(x, s[k])]]
             Rec(h) == h = [k \in 0 .. n |-> IF k = 0 THEN v ELSE window_putc(h[k - 1], s[k])]
  <1>1. n \in Nat /\ g \in [1 .. n -> [T -> T]]
      OBVIOUS
  <1>2. \A k \in 1 .. n, x \in T : g[k][x] = window_putc(x, s[k])
      OBVIOUS
  <1>3. PICK f \in [0 .. n -> T] : Iterates(f, v, g, n)
    <2> HIDE DEF g, n
    <2> QED
        BY <1>1, Recursion
  <1>4. \E h : Rec(h)
    <2> HIDE DEF g
    <2>1. ASSUME NEW k \in 0 .. n
          PROVE  f[k] = IF k = 0 THEN v ELSE window_putc(f[k - 1], s[k])
      <3>1. CASE k = 0
          BY <1>3, <3>1 DEF Iterates
      <3>2. CASE k # 0
        <4>1. k \in 1 .. n /\ k - 1 \in 0 .. n
            BY <3>2
        <4>2. f[k] = g[k][f[k - 1]] /\ f[k - 1] \in T
            BY <1>3, <4>1 DEF Iterates
        <4> QED
            BY <1>2, <3>2, <4>1, <4>2
      <3> QED
          BY <3>1, <3>2
    <2>2. f = [k \in 0 .. n |-> f[k]]
        OBVIOUS
    <2>3. Rec(f)
        BY <2>1, <2>2
    <2> QED
        BY <2>3
  <1> DEFINE h == CHOOSE h : Rec(h)
  <1>5. Rec(h)
      BY <1>4
  <1>6. gui_window_print(v, s) = h[n]
      BY DEF gui_window_print
  <1> HIDE DEF h, g
  <1>7. WinWay(h, v, s)
    <2>1. h[0] = v
        BY <1>5
    <2>2. \A k \in 1 .. n : h[k] = window_putc(h[k - 1], s[k])
        BY <1>5
    <2> QED
        BY <2>1, <2>2 DEF WinWay
  <1>8. \A k \in 0 .. n : h[k] \in T
    <2>1. h[0] \in T /\ \A k \in 1 .. n : h[k - 1] \in T => h[k] \in T
        BY <1>7 DEF WinWay
    <2> HIDE DEF n
    <2> QED
        BY <1>1, <2>1, Iterated
  <1> QED
      BY <1>6, <1>7, <1>8

-----------------------------------------------------------------------------
(* The screen and the paper.                                               *)

(* All that is ever printed.                                               *)
Names == {"root", "dev", "tmp", "etc", "boot", "version", "fat32", "home", "proc", "hostname",
          "os-release"}
Messages == {Blank, ">", "LF", "BS", "Aerogel", "text", "Rebooting", "not_found",
             "no_such_directory", "command_not_found"}
Chars == Names \cup Messages \cup Bytes \cup {Junk} \cup (Keys \ Enter)

Rows == [0 .. COLS - 1 -> Chars]
Cells == [0 .. ROWS - 1 -> Rows]
Screens == [cells : Cells, row : 0 .. ROWS - 1, col : 0 .. COLS - 1]
Papers == [lines : Seq(Rows), col : 0 .. COLS - 1]

(* The cursor may be beyond the last column, before the line is wrapped.   *)
WideScreens == [cells : Cells, row : 0 .. ROWS - 1, col : Nat]
WidePapers == [lines : Seq(Rows), col : Nat]

(* What vga_putc ends with, and the same on paper.                         *)
Settle(m) == IF m.row >= ROWS THEN [m EXCEPT !.cells = scroll(@), !.row = ROWS - 1] ELSE m
Move(q) == IF q.col >= COLS THEN Feed(q) ELSE q

Typed(v, ch) == [v EXCEPT !.cells[v.row][v.col] = ch, !.col = @ + 1]
Erased(v) == [v EXCEPT !.col = @ - 1, !.cells[v.row][v.col - 1] = Blank]
Inked(p, ch) == [p EXCEPT !.col = @ + 1, !.lines[Len(p.lines)][p.col] = ch]
Whitened(p) == [p EXCEPT !.col = @ - 1, !.lines[Len(p.lines)][p.col - 1] = Blank]

(* What vga_putc does with each kind of character.                         *)
LEMMA VgaPutc ==
  ASSUME NEW v, NEW ch
  PROVE  /\ ch = "LF" => vga_putc(v, ch) = Settle(NewLine(v))
         /\ ch = "CR" => vga_putc(v, ch) = Settle([v EXCEPT !.col = 0])
         /\ ch = "BS" => vga_putc(v, ch) = Settle(IF v.col = 0 THEN v ELSE Erased(v))
         /\ ch = "HT" => vga_putc(v, ch) = Settle(WrapAt([v EXCEPT !.col = TabStop(@)]))
         /\ ch \notin {"LF", "CR", "BS", "HT"} => vga_putc(v, ch) = Settle(WrapAt(Typed(v, ch)))
  BY DEF vga_putc, Settle, Erased, Typed

(* What the printer does with each kind of character.                      *)
LEMMA PaperPutc ==
  ASSUME NEW p, NEW ch
  PROVE  /\ ch = "LF" => paper_putc(p, ch) = Feed(p)
         /\ ch = "CR" => paper_putc(p, ch) = [p EXCEPT !.col = 0]
         /\ ch = "BS" => paper_putc(p, ch) = IF p.col = 0 THEN p ELSE Whitened(p)
         /\ ch = "HT" => paper_putc(p, ch) = Move([p EXCEPT !.col = TabStop(@)])
         /\ ch \notin {"LF", "CR", "BS", "HT"} => paper_putc(p, ch) = Move(Inked(p, ch))
  BY DEF paper_putc, Move, Whitened, Inked

(* Screen and paper are well formed, and the screen shows the paper's end. *)
Agree(v, p) == v \in Screens /\ p \in Papers /\ ShowsEnd(v, p)
WideAgree(v, p) == v \in WideScreens /\ p \in WidePapers /\ ShowsEnd(v, p)

(* The sizes of the screen, and its blank cells.                           *)
LEMMA ConsoleTypes ==
  /\ ROWS \in Nat \ {0} /\ COLS \in Nat \ {0} /\ TAB \in Nat \ {0}
  /\ Blank \in Chars /\ BlankRow \in Rows
  BY ConsoleAssumption DEF BlankRow, Rows, Chars, Messages

(* A new row, with and without scrolling.                                  *)
LEMMA FeedAgrees ==
  ASSUME NEW v, NEW p, WideAgree(v, p)
  PROVE  Agree(Settle(NewLine(v)), Feed(p))
  <1> USE ConsoleTypes
  <1> DEFINE m == NewLine(v)
             n == Len(p.lines)
             L == Append(IF n < ROWS THEN p.lines ELSE Tail(p.lines), BlankRow)
             q == Feed(p)
             w == Settle(m)
  <1>1. /\ v.cells \in Cells /\ v.row \in 0 .. ROWS - 1 /\ p.lines \in Seq(Rows)
        /\ v.row = n - 1 /\ n \in 1 .. ROWS
        /\ \A r \in 0 .. ROWS - 1 : v.cells[r] = IF r < n THEN p.lines[r + 1] ELSE BlankRow
      BY DEF WideAgree, ShowsEnd, WideScreens, WidePapers
  <1>2. /\ m \in [cells : Cells, row : Nat, col : Nat]
        /\ m.cells = v.cells /\ m.row = v.row + 1 /\ m.col = 0
    <2>1. v \in [cells : Cells, row : 0 .. ROWS - 1, col : Nat] /\ v.row + 1 \in Nat /\ 0 \in Nat
        BY <1>1 DEF WideAgree, WideScreens
    <2> QED
        BY <2>1 DEF NewLine
  <1>3. q.col = 0 /\ q.lines = L /\ (L \in Seq(Rows) => q \in Papers)
    <2>1. q = [lines |-> L, col |-> 0]
        BY DEF Feed
    <2> HIDE DEF q, L
    <2> QED
        BY <2>1 DEF Papers
  <1>4. CASE n < ROWS
    <2>1. w = m
        BY <1>1, <1>2, <1>4 DEF Settle
    <2>2. w \in Screens
        BY <1>1, <1>2, <1>4, <2>1 DEF Screens
    <2>3. q.lines = Append(p.lines, BlankRow)
        BY <1>3, <1>4
    <2>4. /\ q.lines \in Seq(Rows) /\ Len(q.lines) = n + 1
          /\ \A k \in 1 .. n : q.lines[k] = p.lines[k]
          /\ q.lines[n + 1] = BlankRow
        BY <1>1, <2>3
    <2>5. q \in Papers
        BY <1>3, <2>4
    <2>6. \A r \in 0 .. ROWS - 1 : w.cells[r] = IF r < n + 1 THEN q.lines[r + 1] ELSE BlankRow
        BY <1>1, <1>2, <2>1, <2>4
    <2> QED
        BY <1>1, <1>2, <1>3, <2>1, <2>2, <2>4, <2>5, <2>6 DEF Agree, ShowsEnd
  <1>5. CASE n = ROWS
    <2>1. scroll(v.cells) \in Cells
      <3>1. ASSUME NEW r \in 0 .. ROWS - 1
            PROVE  (IF r < ROWS - 1 THEN v.cells[r + 1] ELSE BlankRow) \in Rows
          BY <1>1 DEF Cells
      <3> QED
          BY <3>1 DEF scroll, Cells
    <2>2. w = [m EXCEPT !.cells = scroll(v.cells), !.row = ROWS - 1]
        BY <1>1, <1>2, <1>5 DEF Settle
    <2>3. w \in Screens /\ w.cells = scroll(v.cells) /\ w.row = ROWS - 1 /\ w.col = 0
      <3>1. ROWS - 1 \in 0 .. ROWS - 1 /\ 0 \in 0 .. COLS - 1
          OBVIOUS
      <3> QED
          BY <1>2, <2>1, <2>2, <3>1 DEF Screens
    <2>4. q.lines = Append(Tail(p.lines), BlankRow)
        BY <1>3, <1>5
    <2>5. /\ Tail(p.lines) \in Seq(Rows) /\ Len(Tail(p.lines)) = n - 1
          /\ \A k \in 1 .. n - 1 : Tail(p.lines)[k] = p.lines[k + 1]
        BY <1>1
    <2>6. /\ q.lines \in Seq(Rows) /\ Len(q.lines) = n
          /\ \A k \in 1 .. n - 1 : q.lines[k] = p.lines[k + 1]
          /\ q.lines[n] = BlankRow
        BY <1>1, <2>4, <2>5
    <2>7. q \in Papers
        BY <1>3, <2>6
    <2>8. ASSUME NEW r \in 0 .. ROWS - 1 PROVE w.cells[r] = q.lines[r + 1]
      <3>1. w.cells[r] = IF r < ROWS - 1 THEN v.cells[r + 1] ELSE BlankRow
          BY <2>3 DEF scroll
      <3>2. CASE r < ROWS - 1
        <4>1. r + 1 \in 0 .. ROWS - 1 /\ r + 1 \in 1 .. n - 1 /\ r + 1 < n
            BY <1>5, <3>2
        <4>2. w.cells[r] = p.lines[r + 1 + 1] /\ q.lines[r + 1] = p.lines[r + 1 + 1]
            BY <1>1, <2>6, <3>1, <3>2, <4>1
        <4> QED
            BY <4>2
      <3>3. CASE r = ROWS - 1
        <4>1. r + 1 = n /\ w.cells[r] = BlankRow
            BY <1>5, <3>1, <3>3
        <4> QED
            BY <2>6, <4>1
      <3> QED
          BY <3>2, <3>3
    <2> QED
        BY <1>3, <1>5, <2>3, <2>6, <2>7, <2>8 DEF Agree, ShowsEnd
  <1> QED
      BY <1>1, <1>4, <1>5

(* The end of a row.                                                       *)
LEMMA MoveAgrees ==
  ASSUME NEW v, NEW p, WideAgree(v, p)
  PROVE  Agree(Settle(WrapAt(v)), Move(p))
  <1> USE ConsoleTypes
  <1>1. v.col = p.col /\ v.col \in Nat /\ v.row \in 0 .. ROWS - 1
      BY DEF WideAgree, ShowsEnd, WideScreens
  <1>2. CASE v.col >= COLS
    <2>1. WrapAt(v) = NewLine(v) /\ Move(p) = Feed(p)
        BY <1>1, <1>2 DEF WrapAt, Move
    <2> QED
        BY <2>1, FeedAgrees
  <1>3. CASE v.col < COLS
    <2>1. WrapAt(v) = v /\ Move(p) = p /\ Settle(v) = v
        BY <1>1, <1>3 DEF WrapAt, Move, Settle
    <2>2. v \in Screens /\ p \in Papers
        BY <1>1, <1>3 DEF WideAgree, WideScreens, WidePapers, Screens, Papers
    <2> QED
        BY <2>1, <2>2 DEF Agree, WideAgree
  <1> QED
      BY <1>1, <1>2, <1>3

(* Writing into one cell of the cursor's row.                              *)
SameRows(cells, lns) ==
    \A r \in 0 .. ROWS - 1 : cells[r] = IF r < Len(lns) THEN lns[r + 1] ELSE BlankRow

WithCell(cells, r, c, ch) == [cells EXCEPT ![r][c] = ch]
WithInk(lns, c, ch) == [lns EXCEPT ![Len(lns)][c] = ch]

CellWritten(new, ink, len) ==
    new \in Cells /\ ink \in Seq(Rows) /\ Len(ink) = len /\ SameRows(new, ink)

(* A cell written on the last row of both keeps them the same.             *)
LEMMA CellAgrees ==
  ASSUME NEW cells \in Cells, NEW lns \in Seq(Rows), NEW r \in 0 .. ROWS - 1, r = Len(lns) - 1,
         NEW c \in 0 .. COLS - 1, NEW ch \in Chars, SameRows(cells, lns)
  PROVE  CellWritten(WithCell(cells, r, c, ch), WithInk(lns, c, ch), Len(lns))
  <1> USE ConsoleTypes
  <1> DEFINE new == WithCell(cells, r, c, ch)
             ink == WithInk(lns, c, ch)
  <1>1. cells[r] \in Rows /\ lns[Len(lns)] = cells[r] /\ Len(lns) \in 1 .. Len(lns)
      BY DEF Cells, SameRows
  <1> DEFINE row == [cells[r] EXCEPT ![c] = ch]
  <1>2. row \in Rows
      BY <1>1 DEF Rows
  <1>3. new = [cells EXCEPT ![r] = row] /\ ink = [lns EXCEPT ![Len(lns)] = row]
      BY <1>1 DEF WithCell, WithInk
  <1> HIDE DEF row
  <1>4. new \in Cells /\ new[r] = row /\ \A q \in 0 .. ROWS - 1 : q # r => new[q] = cells[q]
      BY <1>2, <1>3 DEF Cells
  <1>5. /\ ink \in Seq(Rows) /\ Len(ink) = Len(lns) /\ ink[Len(lns)] = row
        /\ \A k \in 1 .. Len(lns) : k # Len(lns) => ink[k] = lns[k]
      BY <1>1, <1>2, <1>3
  <1>6. ASSUME NEW q \in 0 .. ROWS - 1
        PROVE  new[q] = IF q < Len(ink) THEN ink[q + 1] ELSE BlankRow
    <2>1. CASE q = r
      <3>1. q + 1 = Len(lns) /\ q < Len(ink)
          BY <1>5, <2>1
      <3> QED
          BY <1>4, <1>5, <2>1, <3>1
    <2>2. CASE q # r
      <3>1. q < Len(lns) => q + 1 \in 1 .. Len(lns) /\ q + 1 # Len(lns)
          BY <2>2
      <3> QED
          BY <1>4, <1>5, <2>2, <3>1 DEF SameRows
    <2> QED
        BY <2>1, <2>2
  <1> QED
      BY <1>4, <1>5, <1>6 DEF SameRows, CellWritten

(* Erasing, going to a tab stop and writing, before the line is wrapped.   *)
LEMMA EraseAgrees ==
  ASSUME NEW v, NEW p, Agree(v, p), v.col # 0
  PROVE  /\ Agree(Erased(v), Whitened(p))
         /\ Erased(v).row = v.row /\ Erased(v).col = v.col - 1
         /\ Erased(v).cells = WithCell(v.cells, v.row, v.col - 1, Blank)
  <1> USE ConsoleTypes
  <1>1. /\ v \in [cells : Cells, row : 0 .. ROWS - 1, col : 0 .. COLS - 1]
        /\ p \in [lines : Seq(Rows), col : 0 .. COLS - 1]
      BY DEF Agree, Screens, Papers
  <1>2. /\ v.cells \in Cells /\ v.row \in 0 .. ROWS - 1 /\ v.col \in 0 .. COLS - 1
        /\ p.lines \in Seq(Rows) /\ p.col = v.col /\ v.row = Len(p.lines) - 1
        /\ SameRows(v.cells, p.lines)
      BY <1>1 DEF Agree, ShowsEnd, SameRows
  <1> DEFINE c == v.col - 1
             new == WithCell(v.cells, v.row, c, Blank)
             ink == WithInk(p.lines, c, Blank)
  <1>3. c \in 0 .. COLS - 1
      BY <1>2
  <1>4. CellWritten(new, ink, Len(p.lines))
    <2> HIDE DEF c
    <2> QED
        BY <1>2, <1>3, CellAgrees
  <1>5. Erased(v) = [v EXCEPT !.col = c, !.cells = new]
      BY <1>1 DEF Erased, WithCell
  <1>6. Whitened(p) = [p EXCEPT !.col = c, !.lines = ink]
      BY <1>1, <1>2 DEF Whitened, WithInk
  <1> SUFFICES Agree(Erased(v), Whitened(p)) /\ Erased(v).row = v.row
               /\ Erased(v).col = c /\ Erased(v).cells = new
      OBVIOUS
  <1> HIDE DEF c, new, ink
  <1>7. /\ Erased(v) \in Screens /\ Erased(v).row = v.row
        /\ Erased(v).cells = new /\ Erased(v).col = c
      BY <1>1, <1>3, <1>4, <1>5 DEF Screens, CellWritten
  <1>8. Whitened(p) \in Papers /\ Whitened(p).lines = ink /\ Whitened(p).col = c
      BY <1>1, <1>3, <1>4, <1>6 DEF Papers, CellWritten
  <1>9. Agree(Erased(v), Whitened(p))
      BY <1>2, <1>4, <1>7, <1>8 DEF Agree, ShowsEnd, SameRows, CellWritten
  <1> QED
      BY <1>7, <1>9

(* The multiple of b behind a is larger than a.                            *)
LEMMA DivBelow ==
  ASSUME NEW a \in Nat, NEW b \in Nat \ {0}
  PROVE  a < (a \div b + 1) * b
  OBVIOUS

Tabbed(v) == [v EXCEPT !.col = TabStop(@)]

(* Going to a tab stop.                                                    *)
LEMMA TabAgrees ==
  ASSUME NEW v, NEW p, Agree(v, p)
  PROVE  /\ WideAgree(Tabbed(v), [p EXCEPT !.col = TabStop(@)])
         /\ Tabbed(v).row = v.row /\ Tabbed(v).cells = v.cells /\ Tabbed(v).col >= v.col
  <1> USE ConsoleTypes
  <1>1. /\ v \in [cells : Cells, row : 0 .. ROWS - 1, col : 0 .. COLS - 1]
        /\ p \in [lines : Seq(Rows), col : 0 .. COLS - 1]
      BY DEF Agree, Screens, Papers
  <1>2. /\ v.cells \in Cells /\ v.row \in 0 .. ROWS - 1 /\ v.col \in 0 .. COLS - 1
        /\ p.lines \in Seq(Rows) /\ p.col = v.col /\ v.row = Len(p.lines) - 1
        /\ SameRows(v.cells, p.lines)
      BY <1>1 DEF Agree, ShowsEnd, SameRows
  <1> DEFINE t == TabStop(v.col)
             w == Tabbed(v)
             q == [p EXCEPT !.col = TabStop(@)]
  <1>3. t \in Nat /\ t >= v.col
    <2>1. v.col + TAB \in Nat /\ (v.col + TAB) \div TAB \in Nat
      <3> DEFINE a == v.col + TAB
      <3>1. a \in Nat /\ TAB \in Nat \ {0}
          BY <1>2
      <3>2. a \div TAB \in Nat
        <4> HIDE DEF a
        <4> QED
            BY ONLY <3>1
      <3> QED
          BY <3>1, <3>2
    <2> DEFINE d == (v.col + TAB) \div TAB
    <2>2. v.col + TAB < (d + 1) * TAB
      <3> DEFINE a == v.col + TAB
      <3>1. a \in Nat /\ TAB \in Nat \ {0}
          BY <1>2
      <3>2. a < (a \div TAB + 1) * TAB
        <4> HIDE DEF a
        <4> QED
            BY <3>1, DivBelow
      <3> QED
          BY <3>2
    <2> HIDE DEF d
    <2>3. (d + 1) * TAB = d * TAB + TAB /\ d * TAB \in Nat
        BY <2>1 DEF d
    <2>4. t = d * TAB
        BY DEF TabStop, d
    <2> QED
        BY <1>2, <2>2, <2>3, <2>4
  <1>4. w = [v EXCEPT !.col = t] /\ q = [p EXCEPT !.col = t]
      BY <1>2 DEF Tabbed
  <1> HIDE DEF t, w, q
  <1>5. w \in WideScreens /\ w.row = v.row /\ w.cells = v.cells /\ w.col = t
      BY <1>1, <1>3, <1>4 DEF WideScreens
  <1>6. q \in WidePapers /\ q.lines = p.lines /\ q.col = t
      BY <1>1, <1>3, <1>4 DEF WidePapers
  <1>7. WideAgree(w, q)
      BY <1>2, <1>5, <1>6 DEF WideAgree, ShowsEnd, SameRows
  <1> QED
      BY <1>3, <1>5, <1>7 DEF w, q

(* Writing a character.                                                    *)
LEMMA TypeAgrees ==
  ASSUME NEW v, NEW p, Agree(v, p), NEW ch \in Chars
  PROVE  /\ WideAgree(Typed(v, ch), Inked(p, ch))
         /\ Typed(v, ch).row = v.row /\ Typed(v, ch).col = v.col + 1
         /\ Typed(v, ch).cells = WithCell(v.cells, v.row, v.col, ch)
  <1> USE ConsoleTypes
  <1>1. /\ v \in [cells : Cells, row : 0 .. ROWS - 1, col : 0 .. COLS - 1]
        /\ p \in [lines : Seq(Rows), col : 0 .. COLS - 1]
      BY DEF Agree, Screens, Papers
  <1>2. /\ v.cells \in Cells /\ v.row \in 0 .. ROWS - 1 /\ v.col \in 0 .. COLS - 1
        /\ p.lines \in Seq(Rows) /\ p.col = v.col /\ v.row = Len(p.lines) - 1
        /\ SameRows(v.cells, p.lines)
      BY <1>1 DEF Agree, ShowsEnd, SameRows
  <1> DEFINE c == v.col
             new == WithCell(v.cells, v.row, c, ch)
             ink == WithInk(p.lines, c, ch)
  <1>3. CellWritten(new, ink, Len(p.lines))
      BY <1>2, CellAgrees
  <1>4. Typed(v, ch) = [v EXCEPT !.cells = new, !.col = c + 1]
      BY <1>1 DEF Typed, WithCell
  <1>5. Inked(p, ch) = [p EXCEPT !.lines = ink, !.col = c + 1]
      BY <1>1, <1>2 DEF Inked, WithInk
  <1>6. c + 1 \in Nat
      BY <1>2
  <1> SUFFICES WideAgree(Typed(v, ch), Inked(p, ch)) /\ Typed(v, ch).row = v.row
               /\ Typed(v, ch).col = c + 1 /\ Typed(v, ch).cells = new
      OBVIOUS
  <1> HIDE DEF new, ink
  <1>7. /\ Typed(v, ch) \in WideScreens /\ Typed(v, ch).row = v.row
        /\ Typed(v, ch).cells = new /\ Typed(v, ch).col = c + 1
      BY <1>1, <1>3, <1>4, <1>6 DEF WideScreens, CellWritten
  <1>8. Inked(p, ch) \in WidePapers /\ Inked(p, ch).lines = ink /\ Inked(p, ch).col = c + 1
      BY <1>1, <1>3, <1>5, <1>6 DEF WidePapers, CellWritten
  <1>9. WideAgree(Typed(v, ch), Inked(p, ch))
      BY <1>2, <1>3, <1>7, <1>8 DEF WideAgree, ShowsEnd, SameRows, CellWritten
  <1> QED
      BY <1>7, <1>9

(* A character brings the same on the screen and on paper.                 *)
LEMMA PutcAgrees ==
  ASSUME NEW v, NEW p, Agree(v, p), NEW ch \in Chars
  PROVE  Agree(vga_putc(v, ch), paper_putc(p, ch))
  <1> USE ConsoleTypes
  <1>1. /\ v \in [cells : Cells, row : 0 .. ROWS - 1, col : 0 .. COLS - 1]
        /\ p \in [lines : Seq(Rows), col : 0 .. COLS - 1]
      BY DEF Agree, Screens, Papers
  <1>2. /\ v.cells \in Cells /\ v.row \in 0 .. ROWS - 1 /\ v.col \in 0 .. COLS - 1
        /\ p.lines \in Seq(Rows) /\ p.col = v.col /\ v.row = Len(p.lines) - 1
        /\ SameRows(v.cells, p.lines)
      BY <1>1 DEF Agree, ShowsEnd, SameRows
  <1>3. \A w : w.row \in 0 .. ROWS - 1 => Settle(w) = w
      BY DEF Settle
  <1>4. CASE ch = "LF"
    <2>1. WideAgree(v, p)
        BY <1>1, <1>2 DEF Agree, WideAgree, WideScreens, WidePapers
    <2>2. Agree(Settle(NewLine(v)), Feed(p))
        BY <2>1, FeedAgrees
    <2> QED
        BY <1>4, <2>2, VgaPutc, PaperPutc
  <1>5. CASE ch = "CR"
    <2> DEFINE w == [v EXCEPT !.col = 0]
               q == [p EXCEPT !.col = 0]
    <2>1. w \in Screens /\ w.row = v.row /\ w.cells = v.cells /\ w.col = 0
        BY <1>1 DEF Screens
    <2>2. q \in Papers /\ q.lines = p.lines /\ q.col = 0
        BY <1>1 DEF Papers
    <2>3. Agree(w, q)
        BY <1>2, <2>1, <2>2 DEF Agree, ShowsEnd, SameRows
    <2>4. Settle(w) = w
        BY <1>2, <1>3, <2>1
    <2> QED
        BY <1>5, <2>3, <2>4, VgaPutc, PaperPutc
  <1>6. CASE ch = "BS"
    <2>1. CASE v.col = 0
      <3>1. vga_putc(v, ch) = v /\ paper_putc(p, ch) = p
          BY <1>2, <1>3, <1>6, <2>1, VgaPutc, PaperPutc
      <3> QED
          BY <3>1
    <2>2. CASE v.col # 0
      <3>1. Agree(Erased(v), Whitened(p)) /\ Erased(v).row = v.row
          BY <2>2, EraseAgrees
      <3>2. vga_putc(v, ch) = Erased(v) /\ paper_putc(p, ch) = Whitened(p)
          BY <1>2, <1>3, <1>6, <2>2, <3>1, VgaPutc, PaperPutc
      <3> QED
          BY <3>1, <3>2
    <2> QED
        BY <2>1, <2>2
  <1>7. CASE ch = "HT"
    <2>1. Agree(Settle(WrapAt(Tabbed(v))), Move([p EXCEPT !.col = TabStop(@)]))
        BY TabAgrees, MoveAgrees
    <2> QED
        BY <1>7, <2>1, VgaPutc, PaperPutc DEF Tabbed
  <1>8. CASE ch \notin {"LF", "CR", "BS", "HT"}
    <2>1. Agree(Settle(WrapAt(Typed(v, ch))), Move(Inked(p, ch)))
        BY TypeAgrees, MoveAgrees
    <2> QED
        BY <1>8, <2>1, VgaPutc, PaperPutc
  <1> QED
      BY <1>4, <1>5, <1>6, <1>7, <1>8

(* Whatever text is printed, the screen goes on showing the end of the     *)
(* paper.                                                                  *)
LEMMA PutsAgrees ==
  ASSUME NEW v, NEW p, Agree(v, p), NEW s \in Seq(Chars)
  PROVE  Agree(vga_puts(v, s), paper_puts(p, s))
  <1> DEFINE S == {x \in Screens : \E q : Agree(x, q)}
             P == {q \in Papers : \E x : Agree(x, q)}
             B == {z \in Screens \X Papers : Agree(z[1], z[2])}
             n == Len(s)
  <1>1. n \in Nat /\ \A k \in 1 .. n : s[k] \in Chars
      OBVIOUS
  <1>2. v \in S /\ p \in P
      BY DEF Agree
  <1>3. \A x \in S, k \in 1 .. n : vga_putc(x, s[k]) \in S
      BY <1>1, PutcAgrees DEF Agree
  <1>4. \A q \in P, k \in 1 .. n : paper_putc(q, s[k]) \in P
      BY <1>1, PutcAgrees DEF Agree
  <1>5. PICK f : VgaWay(f, v, s) /\ vga_puts(v, s) = f[n]
    <2> HIDE DEF S
    <2> QED
        BY <1>1, <1>2, <1>3, VgaPuts
  <1>6. PICK g : PaperWay(g, p, s) /\ paper_puts(p, s) = g[n]
    <2> HIDE DEF P
    <2> QED
        BY <1>1, <1>2, <1>4, PaperPuts
  <1> DEFINE h == [k \in 0 .. n |-> <<f[k], g[k]>>]
  <1>7. h[0] \in B
    <2>1. h[0] = <<v, p>>
        BY <1>1, <1>5, <1>6 DEF VgaWay, PaperWay
    <2> HIDE DEF h
    <2> QED
        BY <2>1 DEF Agree
  <1>8. ASSUME NEW k \in 1 .. n, h[k - 1] \in B PROVE h[k] \in B
    <2>1. k - 1 \in 0 .. n /\ k \in 0 .. n
        BY <1>1
    <2>2. h[k - 1] = <<f[k - 1], g[k - 1]>> /\ h[k] = <<f[k], g[k]>>
        BY <2>1
    <2> HIDE DEF h
    <2>3. Agree(f[k - 1], g[k - 1])
        BY <1>8, <2>2
    <2>4. f[k] = vga_putc(f[k - 1], s[k]) /\ g[k] = paper_putc(g[k - 1], s[k])
        BY <1>5, <1>6 DEF VgaWay, PaperWay
    <2>5. Agree(f[k], g[k])
        BY <1>1, <2>3, <2>4, PutcAgrees
    <2> QED
        BY <2>2, <2>5 DEF Agree
  <1>9. \A k \in 0 .. n : h[k] \in B
    <2> HIDE DEF h, B, n
    <2> QED
        BY <1>1, <1>7, <1>8, Iterated
  <1>10. h[n] \in B /\ h[n] = <<f[n], g[n]>>
      BY <1>1, <1>9
  <1> HIDE DEF h
  <1> QED
      BY <1>5, <1>6, <1>10

(* There is nothing on the cursor's row from the cursor on.                *)
ClearAhead(v) == \A c \in v.col .. COLS - 1 : v.cells[v.row][c] = Blank

(* The row that a feed brings is clear.                                    *)
LEMMA FeedClear ==
  ASSUME NEW v, NEW p, WideAgree(v, p)
  PROVE  ClearAhead(Settle(NewLine(v)))
  <1> USE ConsoleTypes
  <1> DEFINE w == Settle(NewLine(v))
             q == Feed(p)
             L == IF Len(p.lines) < ROWS THEN p.lines ELSE Tail(p.lines)
  <1>1. Agree(w, q)
      BY FeedAgrees
  <1>2. q.lines = Append(L, BlankRow)
      BY DEF Feed
  <1>3. L \in Seq(Rows)
    <2>1. p.lines \in Seq(Rows) /\ v.row = Len(p.lines) - 1 /\ v.row \in 0 .. ROWS - 1
        BY DEF WideAgree, WidePapers, WideScreens, ShowsEnd
    <2> QED
        BY <2>1
  <1> HIDE DEF L, w, q
  <1>4. q.lines[Len(q.lines)] = BlankRow
      BY <1>2, <1>3
  <1>5. w.row = Len(q.lines) - 1 /\ w.row \in 0 .. ROWS - 1 /\ w.col \in 0 .. COLS - 1
        /\ q.lines \in Seq(Rows)
      BY <1>1 DEF Agree, ShowsEnd, Screens, Papers
  <1>6. w.cells[w.row] = q.lines[w.row + 1] /\ w.row + 1 = Len(q.lines)
      BY <1>1, <1>5 DEF Agree, ShowsEnd
  <1>7. w.cells[w.row] = BlankRow
      BY <1>4, <1>6
  <1>8. \A c \in 0 .. COLS - 1 : BlankRow[c] = Blank
      BY DEF BlankRow
  <1>9. ASSUME NEW c \in w.col .. COLS - 1 PROVE w.cells[w.row][c] = Blank
      BY <1>5, <1>7, <1>8
  <1>10. ClearAhead(w)
      BY <1>9 DEF ClearAhead
  <1> QED
      BY <1>10 DEF w

(* Wrapping leaves the rest of the row of the cursor clear.                *)
LEMMA MoveClear ==
  ASSUME NEW v, NEW p, WideAgree(v, p), ClearAhead(v)
  PROVE  ClearAhead(Settle(WrapAt(v)))
  <1> USE ConsoleTypes
  <1>1. v.col \in Nat /\ v.row \in 0 .. ROWS - 1
      BY DEF WideAgree, WideScreens
  <1>2. CASE v.col >= COLS
    <2>1. WrapAt(v) = NewLine(v)
        BY <1>2 DEF WrapAt
    <2> QED
        BY <2>1, FeedClear
  <1>3. CASE v.col < COLS
    <2>1. WrapAt(v) = v /\ Settle(v) = v
        BY <1>1, <1>3 DEF WrapAt, Settle
    <2> QED
        BY <2>1
  <1> QED
      BY <1>1, <1>2, <1>3

(* All but a carriage return leave the rest of the row clear.              *)
LEMMA PutcClear ==
  ASSUME NEW v, NEW p, Agree(v, p), ClearAhead(v), NEW ch \in Chars, ch # "CR"
  PROVE  ClearAhead(vga_putc(v, ch))
  <1> USE ConsoleTypes
  <1>1. v.cells \in Cells /\ v.row \in 0 .. ROWS - 1 /\ v.col \in 0 .. COLS - 1
        /\ v.cells[v.row] \in Rows
      BY DEF Agree, Screens, Cells
  <1>2. \A w : w.row \in 0 .. ROWS - 1 => Settle(w) = w
      BY DEF Settle
  <1>3. CASE ch = "LF"
    <2>1. WideAgree(v, p)
        BY <1>1 DEF Agree, WideAgree, Screens, Papers, WideScreens, WidePapers
    <2>2. ClearAhead(Settle(NewLine(v)))
        BY <2>1, FeedClear
    <2>3. vga_putc(v, ch) = Settle(NewLine(v))
        BY <1>3, VgaPutc
    <2> QED
        BY <2>2, <2>3
  <1>4. CASE ch = "BS"
    <2>1. CASE v.col = 0
      <3>1. vga_putc(v, ch) = v
          BY <1>1, <1>2, <1>4, <2>1, VgaPutc
      <3> QED
          BY <3>1
    <2>2. CASE v.col # 0
      <3>1. /\ Erased(v).row = v.row /\ Erased(v).col = v.col - 1
            /\ Erased(v).cells = WithCell(v.cells, v.row, v.col - 1, Blank)
          BY <2>2, EraseAgrees
      <3>2. vga_putc(v, ch) = Erased(v)
          BY <1>1, <1>2, <1>4, <2>2, <3>1, VgaPutc
      <3>3. Erased(v).cells[v.row] = [v.cells[v.row] EXCEPT ![v.col - 1] = Blank]
          BY <1>1, <3>1 DEF WithCell, Cells
      <3>4. ASSUME NEW c \in v.col - 1 .. COLS - 1 PROVE Erased(v).cells[v.row][c] = Blank
        <4>1. c \in 0 .. COLS - 1 /\ (c # v.col - 1 => c \in v.col .. COLS - 1)
            BY <1>1, <2>2
        <4>2. c # v.col - 1 => v.cells[v.row][c] = Blank
            BY <4>1 DEF ClearAhead
        <4> QED
            BY <1>1, <3>3, <4>1, <4>2 DEF Rows
      <3> QED
          BY <3>1, <3>2, <3>4 DEF ClearAhead
    <2> QED
        BY <2>1, <2>2
  <1>5. CASE ch = "HT"
    <2>1. /\ WideAgree(Tabbed(v), [p EXCEPT !.col = TabStop(@)])
          /\ Tabbed(v).row = v.row /\ Tabbed(v).cells = v.cells /\ Tabbed(v).col >= v.col
        BY TabAgrees
    <2>2. Tabbed(v).col \in Nat
        BY <2>1 DEF WideAgree, WideScreens
    <2>3. ClearAhead(Tabbed(v))
        BY <1>1, <2>1, <2>2 DEF ClearAhead
    <2>4. ClearAhead(Settle(WrapAt(Tabbed(v))))
        BY <2>1, <2>3, MoveClear
    <2> QED
        BY <1>5, <2>4, VgaPutc DEF Tabbed
  <1>6. CASE ch \notin {"LF", "CR", "BS", "HT"}
    <2>1. /\ WideAgree(Typed(v, ch), Inked(p, ch))
          /\ Typed(v, ch).row = v.row /\ Typed(v, ch).col = v.col + 1
          /\ Typed(v, ch).cells = WithCell(v.cells, v.row, v.col, ch)
        BY TypeAgrees
    <2>2. Typed(v, ch).cells[v.row] = [v.cells[v.row] EXCEPT ![v.col] = ch]
        BY <1>1, <2>1 DEF WithCell, Cells
    <2>3. ASSUME NEW c \in v.col + 1 .. COLS - 1 PROVE Typed(v, ch).cells[v.row][c] = Blank
      <3>1. c \in 0 .. COLS - 1 /\ c # v.col /\ c \in v.col .. COLS - 1
          BY <1>1
      <3>2. v.cells[v.row][c] = Blank
          BY <3>1 DEF ClearAhead
      <3> QED
          BY <1>1, <2>2, <3>1, <3>2 DEF Rows
    <2>4. ClearAhead(Typed(v, ch))
        BY <2>1, <2>3 DEF ClearAhead
    <2>5. ClearAhead(Settle(WrapAt(Typed(v, ch))))
        BY <2>1, <2>4, MoveClear
    <2> QED
        BY <1>6, <2>5, VgaPutc
  <1> QED
      BY <1>3, <1>4, <1>5, <1>6

(* Without a carriage return nothing is ever to the right of the cursor.   *)
LEMMA PutsClear ==
  ASSUME NEW v, NEW p, Agree(v, p), ClearAhead(v), NEW s \in Seq(Chars), "CR" \notin Chars
  PROVE  ClearAhead(vga_puts(v, s))
  <1> DEFINE S == {x \in Screens : ClearAhead(x) /\ \E q : Agree(x, q)}
             n == Len(s)
  <1>1. n \in Nat /\ \A k \in 1 .. n : s[k] \in Chars /\ s[k] # "CR"
      OBVIOUS
  <1>2. v \in S
      BY DEF Agree
  <1>3. ASSUME NEW x \in S, NEW k \in 1 .. n PROVE vga_putc(x, s[k]) \in S
    <2>1. PICK q : Agree(x, q)
        OBVIOUS
    <2>2. Agree(vga_putc(x, s[k]), paper_putc(q, s[k]))
        BY <1>1, <2>1, PutcAgrees
    <2>3. ClearAhead(vga_putc(x, s[k]))
        BY <1>1, <2>1, PutcClear
    <2> QED
        BY <2>2, <2>3 DEF Agree
  <1>4. PICK f : vga_puts(v, s) = f[n] /\ \A k \in 0 .. n : f[k] \in S
    <2> HIDE DEF S
    <2> QED
        BY <1>1, <1>2, <1>3, VgaPuts
  <1> QED
      BY <1>1, <1>4

(* A text of one character.                                                *)
LEMMA PutOne ==
  ASSUME NEW v, NEW p, Agree(v, p), NEW ch \in Chars
  PROVE  vga_puts(v, <<ch>>) = vga_putc(v, ch)
  <1> DEFINE S == {x \in Screens : \E q : Agree(x, q)}
             s == <<ch>>
  <1>1. Len(s) = 1 /\ s[1] = ch /\ Len(s) \in Nat
      OBVIOUS
  <1>2. v \in S
      BY DEF Agree
  <1>3. \A x \in S, k \in 1 .. Len(s) : vga_putc(x, s[k]) \in S
    <2>1. \A k \in 1 .. Len(s) : s[k] \in Chars
        BY <1>1
    <2> QED
        BY <2>1, PutcAgrees DEF Agree
  <1> HIDE DEF S, s
  <1>4. PICK f : VgaWay(f, v, s) /\ vga_puts(v, s) = f[Len(s)]
    <2>1. Len(s) \in Nat
        BY <1>1
    <2> QED
        BY ONLY <1>2, <1>3, <2>1, VgaPuts, ZenonT(60)
  <1>5. f[1] = vga_putc(f[0], s[1]) /\ f[0] = v
    <2>1. 1 \in 1 .. Len(s) /\ 1 - 1 = 0
        BY <1>1
    <2>2. f[1] = vga_putc(f[1 - 1], s[1]) /\ f[0] = v
        BY <1>4, <2>1 DEF VgaWay
    <2> QED
        BY <2>1, <2>2
  <1>6. vga_puts(v, s) = f[1]
      BY <1>1, <1>4
  <1>7. vga_puts(v, s) = vga_putc(v, ch)
      BY <1>1, <1>5, <1>6
  <1> QED
      BY <1>7, Zenon DEF s

-----------------------------------------------------------------------------
(* The terminal window.                                                    *)

(* It has room for a character: 16 pixels inside borders and margins, and  *)
(* a row below the title.                                                  *)
WindowFits == FbWidth >= 56 /\ FbHeight >= 124

Marks == [at : Int \X Int, ch : Chars]
Windows == [x : {20}, y : {30}, w : {FbWidth - 40}, h : {FbHeight - 80}, cx : Nat, cy : Nat,
            drawn : SUBSET Marks, page : Seq(Chars)]

Precedes(a, b) == a[2] < b[2] \/ (a[2] = b[2] /\ a[1] < b[1])
Cursor(w) == <<w.x + w.cx, w.y + w.cy>>

(* m is what was drawn on the page, in order, all of it before the cursor. *)
Drawn(w, m) ==
    /\ m \in Seq(Marks) /\ Len(m) = Len(w.page)
    /\ \A k \in 1 .. Len(m) : m[k].ch = w.page[k]
    /\ w.drawn = {m[k] : k \in 1 .. Len(m)}
    /\ \A i, j \in 1 .. Len(m) : i < j => Precedes(m[i].at, m[j].at)

Ahead(w, m) == \A k \in 1 .. Len(m) : Precedes(m[k].at, Cursor(w))

WindowOK(w) ==
    /\ w \in Windows /\ w.cx >= 4 /\ w.cy >= GUI_TITLEBAR_H + 4
    /\ \E m : Drawn(w, m) /\ Ahead(w, m)
    /\ InsideFrame(w)

(* The cursor after the checks that window_putc makes before it draws.     *)
Wrapped(w) == IF w.x + w.cx + FB_FONT_W > w.x + w.w - GUI_BORDER - 2 THEN NextRow(w) ELSE w
Turned(w, bot) == IF w.y + w.cy + FB_FONT_H > bot THEN TurnPage(w) ELSE w
Room(w) == w.cx + FB_FONT_W <= w.w - 4 /\ w.cy + FB_FONT_H <= w.h - 4
Advanced(w, ch) == [fb_char(w, ch) EXCEPT !.cx = @ + FB_FONT_W]

(* What window_putc does with a line feed and with any other character.    *)
LEMMA WindowPutc ==
  ASSUME NEW w, NEW ch
  PROVE  window_putc(w, ch) =
            IF ch = "LF" THEN NextRow(w)
            ELSE Advanced(Turned(Wrapped(w), w.y + w.h - GUI_BORDER - 2), ch)
  BY DEF window_putc, Wrapped, Turned, Advanced

(* The sizes of a character, the title bar and the border.                 *)
LEMMA WindowNumbers ==
  FB_FONT_W = 8 /\ FB_FONT_H = 16 /\ GUI_TITLEBAR_H = 20 /\ GUI_BORDER = 2
  BY DEF FB_FONT_W, FB_FONT_H, GUI_TITLEBAR_H, GUI_BORDER

(* All that is drawn lies before the cursor, and so above a lower row.     *)
LEMMA RowKeeps ==
  ASSUME NEW w, WindowOK(w)
  PROVE  WindowOK(NextRow(w)) /\ NextRow(w).cx = 4 /\ NextRow(w).cy = w.cy + 16
  <1> USE WindowNumbers
  <1> DEFINE r == NextRow(w)
  <1>1. w \in [x : {20}, y : {30}, w : {FbWidth - 40}, h : {FbHeight - 80}, cx : Nat, cy : Nat,
               drawn : SUBSET Marks, page : Seq(Chars)]
      BY DEF WindowOK, Windows
  <1>2. w.cx \in Nat /\ w.cy \in Nat /\ 4 \in Nat /\ w.cy + 16 \in Nat /\ w.x = 20 /\ w.y = 30
      BY <1>1
  <1>3. r = [w EXCEPT !.cx = 4, !.cy = w.cy + 16]
      BY <1>1 DEF NextRow
  <1> HIDE DEF r
  <1>4. /\ r \in Windows /\ r.x = w.x /\ r.y = w.y /\ r.w = w.w /\ r.h = w.h
        /\ r.cx = 4 /\ r.cy = w.cy + 16 /\ r.drawn = w.drawn /\ r.page = w.page
      BY <1>1, <1>2, <1>3 DEF Windows
  <1>5. PICK m : Drawn(w, m) /\ Ahead(w, m)
      BY DEF WindowOK
  <1>6. Drawn(r, m)
      BY <1>4, <1>5 DEF Drawn
  <1>7. Ahead(r, m)
    <2> SUFFICES ASSUME NEW k \in 1 .. Len(m) PROVE Precedes(m[k].at, Cursor(r))
        BY DEF Ahead
    <2>1. m[k] \in Marks
        BY <1>5 DEF Drawn
    <2>2. m[k].at \in Int \X Int
        BY <2>1 DEF Marks
    <2>3. Precedes(m[k].at, Cursor(w)) /\ Cursor(w)[2] = w.y + w.cy /\ Cursor(w)[1] = w.x + w.cx
        BY <1>5 DEF Ahead, Cursor
    <2> DEFINE y == m[k].at[2]
    <2>4. y \in Int
        BY ONLY <2>2
    <2>5. y < w.y + w.cy \/ y = w.y + w.cy
        BY ONLY <2>3 DEF Precedes
    <2>6. Cursor(r)[2] = w.y + w.cy + 16
        BY <1>2, <1>4 DEF Cursor
    <2>7. y < Cursor(r)[2]
      <3> HIDE DEF y
      <3> QED
          BY ONLY <1>2, <2>4, <2>5, <2>6
    <2> QED
        BY <2>7, Zenon DEF Precedes
  <1>8. InsideFrame(r)
      BY <1>4 DEF WindowOK, InsideFrame
  <1>9. r.cx >= 4 /\ r.cy >= GUI_TITLEBAR_H + 4
      BY <1>2, <1>4 DEF WindowOK
  <1> QED
      BY <1>4, <1>6, <1>7, <1>8, <1>9 DEF WindowOK, r

(* An empty page.                                                          *)
LEMMA PageTurns ==
  ASSUME NEW w, WindowOK(w)
  PROVE  WindowOK(TurnPage(w)) /\ TurnPage(w).cx = w.cx /\ TurnPage(w).cy = 24
  <1> USE WindowNumbers
  <1> DEFINE r == TurnPage(w)
  <1>1. w \in [x : {20}, y : {30}, w : {FbWidth - 40}, h : {FbHeight - 80}, cx : Nat, cy : Nat,
               drawn : SUBSET Marks, page : Seq(Chars)]
      BY DEF WindowOK, Windows
  <1>2. r = [w EXCEPT !.cy = 24, !.drawn = {}, !.page = <<>>]
      BY DEF TurnPage
  <1>3. 24 \in Nat /\ {} \in SUBSET Marks /\ <<>> \in Seq(Chars)
      OBVIOUS
  <1> HIDE DEF r
  <1>4. /\ r \in Windows /\ r.x = w.x /\ r.y = w.y /\ r.w = w.w /\ r.h = w.h
        /\ r.cx = w.cx /\ r.cy = 24 /\ r.drawn = {} /\ r.page = <<>>
      BY <1>1, <1>2, <1>3 DEF Windows
  <1>5. <<>> \in Seq(Marks) /\ Len(<<>>) = 0 /\ 1 .. 0 = {}
      OBVIOUS
  <1>6. Drawn(r, <<>>) /\ Ahead(r, <<>>)
      BY <1>4, <1>5 DEF Drawn, Ahead
  <1>7. InsideFrame(r)
      BY <1>4 DEF InsideFrame
  <1> QED
      BY <1>4, <1>6, <1>7 DEF WindowOK, r

(* A character at the cursor is the last of the page.                      *)
LEMMA CharKeeps ==
  ASSUME NEW w, WindowOK(w), Room(w), NEW ch \in Chars
  PROVE  WindowOK(Advanced(w, ch))
  <1> USE WindowNumbers
  <1> DEFINE r == Advanced(w, ch)
             c == Cursor(w)
             mark == [at |-> c, ch |-> ch]
             ink == {d \in w.drawn : d.at # c} \cup {mark}
             pg == Append(w.page, ch)
  <1>1. w \in [x : {20}, y : {30}, w : {FbWidth - 40}, h : {FbHeight - 80}, cx : Nat, cy : Nat,
               drawn : SUBSET Marks, page : Seq(Chars)]
      BY DEF WindowOK, Windows
  <1>2. /\ w.cx \in Nat /\ w.cy \in Nat /\ w.cx + 8 \in Nat /\ w.x = 20 /\ w.y = 30
        /\ w.cx >= 4 /\ w.cy >= 24 /\ w.w \in Int /\ w.h \in Int
    <2>1. FbWidth - 40 \in Int /\ FbHeight - 80 \in Int
        BY ConsoleAssumption
    <2>2. w.cx >= 4 /\ w.cy >= 24
        BY DEF WindowOK
    <2> QED
        BY ONLY <1>1, <2>1, <2>2
  <1>3. c[1] = w.x + w.cx /\ c[2] = w.y + w.cy /\ c \in Int \X Int
      BY <1>2 DEF Cursor
  <1>4. mark \in Marks /\ mark.at = c /\ mark.ch = ch
      BY <1>3 DEF Marks
  <1>5. ink \in SUBSET Marks /\ pg \in Seq(Chars) /\ Len(pg) = Len(w.page) + 1
      BY <1>1, <1>4
  <1>6. fb_char(w, ch) = [w EXCEPT !.drawn = ink, !.page = pg]
      BY DEF fb_char, Cursor
  <1>7. PICK m : Drawn(w, m) /\ Ahead(w, m)
      BY DEF WindowOK
  <1> DEFINE z == Append(m, mark)
             n == Len(m)
  <1>8. /\ m \in Seq(Marks) /\ n \in Nat /\ n = Len(w.page)
        /\ \A k \in 1 .. n : m[k] \in Marks /\ m[k].at \in Int \X Int
    <2>1. m \in Seq(Marks) /\ n = Len(w.page)
        BY <1>7 DEF Drawn
    <2>2. n \in Nat /\ \A k \in 1 .. n : m[k] \in Marks
        BY <2>1
    <2> QED
        BY <2>1, <2>2 DEF Marks
  <1> HIDE DEF mark
  <1>9. /\ z \in Seq(Marks) /\ Len(z) = n + 1 /\ z[n + 1] = mark
        /\ \A k \in 1 .. n : z[k] = m[k]
      BY <1>4, <1>8
  <1>10. \A k \in 1 .. n : m[k].at # c
    <2> SUFFICES ASSUME NEW k \in 1 .. n PROVE m[k].at # c
        OBVIOUS
    <2>1. Precedes(m[k].at, c)
        BY <1>7 DEF Ahead
    <2>2. ~ Precedes(c, c)
        BY <1>3 DEF Precedes
    <2> QED
        BY <2>1, <2>2
  <1>11. ink = {z[k] : k \in 1 .. n + 1}
    <2>1. w.drawn = {m[k] : k \in 1 .. n}
        BY <1>7 DEF Drawn
    <2>2. {d \in w.drawn : d.at # c} = w.drawn
        BY <1>10, <2>1
    <2>3. ink = {m[k] : k \in 1 .. n} \cup {mark}
        BY <2>1, <2>2
    <2>4. ASSUME NEW d \in ink PROVE d \in {z[k] : k \in 1 .. n + 1}
      <3>1. CASE d = mark
        <4>1. n + 1 \in 1 .. n + 1 /\ d = z[n + 1]
            BY <1>8, <1>9, <3>1
        <4> QED
            BY <4>1
      <3>2. CASE d \in {m[k] : k \in 1 .. n}
        <4>1. PICK k \in 1 .. n : d = m[k]
            BY <3>2
        <4>2. k \in 1 .. n + 1 /\ d = z[k]
            BY <1>8, <1>9, <4>1
        <4> QED
            BY <4>2
      <3> QED
          BY <2>3, <3>1, <3>2
    <2>5. ASSUME NEW k \in 1 .. n + 1 PROVE z[k] \in ink
      <3>1. CASE k = n + 1
          BY <1>9, <2>3, <3>1
      <3>2. CASE k # n + 1
        <4>1. k \in 1 .. n /\ z[k] = m[k]
            BY <1>8, <1>9, <3>2
        <4> QED
            BY <2>3, <4>1
      <3> QED
          BY <3>1, <3>2
    <2> QED
        BY <2>4, <2>5
  <1> HIDE DEF r, c, ink, pg, z
  <1>12. /\ r \in Windows /\ r.x = w.x /\ r.y = w.y /\ r.w = w.w /\ r.h = w.h
         /\ r.cx = w.cx + 8 /\ r.cy = w.cy /\ r.drawn = ink /\ r.page = pg
    <2> DEFINE f == fb_char(w, ch)
    <2>1. /\ f \in [x : {20}, y : {30}, w : {FbWidth - 40}, h : {FbHeight - 80}, cx : Nat, cy : Nat,
                   drawn : SUBSET Marks, page : Seq(Chars)]
          /\ f.cx = w.cx /\ f.cy = w.cy /\ f.x = w.x /\ f.y = w.y /\ f.w = w.w /\ f.h = w.h
          /\ f.drawn = ink /\ f.page = pg
      <3>1. f = [w EXCEPT !.drawn = ink, !.page = pg]
          BY <1>6
      <3> HIDE DEF f
      <3> QED
          BY <1>1, <1>5, <3>1
    <2>2. r = [f EXCEPT !.cx = w.cx + 8]
        BY <2>1 DEF r, Advanced
    <2> HIDE DEF f
    <2> QED
        BY <1>2, <2>1, <2>2 DEF Windows
  <1>13. ASSUME NEW k \in 1 .. n + 1 PROVE z[k].ch = pg[k]
    <2>1. CASE k = n + 1
        BY <1>1, <1>4, <1>8, <1>9, <2>1 DEF pg
    <2>2. CASE k # n + 1
      <3>1. k \in 1 .. n /\ z[k] = m[k] /\ m[k].ch = w.page[k]
          BY <1>7, <1>8, <1>9, <2>2 DEF Drawn
      <3>2. pg[k] = w.page[k]
          BY <1>1, <1>8, <3>1 DEF pg
      <3> QED
          BY <3>1, <3>2
    <2> QED
        BY <2>1, <2>2
  <1>14. ASSUME NEW i \in 1 .. n + 1, NEW j \in 1 .. n + 1, i < j
         PROVE  Precedes(z[i].at, z[j].at)
    <2>1. i \in 1 .. n /\ z[i] = m[i]
        BY <1>8, <1>9, <1>14
    <2>2. CASE j = n + 1
      <3>1. z[j].at = c
          BY <1>4, <1>9, <2>2
      <3>2. Precedes(m[i].at, c)
          BY <1>7, <2>1 DEF Ahead, c
      <3> QED
          BY <2>1, <3>1, <3>2
    <2>3. CASE j # n + 1
      <3>1. j \in 1 .. n /\ z[j] = m[j]
          BY <1>8, <1>9, <2>3
      <3> QED
          BY <1>7, <1>14, <2>1, <3>1 DEF Drawn
    <2> QED
        BY <2>2, <2>3
  <1>15. Drawn(r, z)
      BY <1>5, <1>8, <1>9, <1>11, <1>12, <1>13, <1>14 DEF Drawn
  <1>16. Ahead(r, z)
    <2> SUFFICES ASSUME NEW k \in 1 .. n + 1 PROVE Precedes(z[k].at, Cursor(r))
        BY <1>9 DEF Ahead
    <2>1. Cursor(r)[1] = c[1] + 8 /\ Cursor(r)[2] = c[2]
        BY <1>2, <1>3, <1>12 DEF Cursor
    <2>2. CASE k = n + 1
      <3>1. z[k].at = c
          BY <1>4, <1>9, <2>2
      <3> QED
          BY <1>3, <2>1, <3>1 DEF Precedes
    <2>3. CASE k # n + 1
      <3>1. k \in 1 .. n /\ z[k] = m[k] /\ m[k].at \in Int \X Int
          BY <1>8, <1>9, <2>3
      <3>2. Precedes(m[k].at, c)
          BY <1>7, <3>1 DEF Ahead, c
      <3> QED
          BY <1>3, <2>1, <3>1, <3>2 DEF Precedes
    <2> QED
        BY <2>2, <2>3
  <1>17. InsideFrame(r)
    <2>1. \A d \in ink : d = mark \/ d \in w.drawn
        BY DEF ink
    <2>2. /\ w.x + 2 <= c[1] /\ c[1] + 8 <= w.x + w.w - 2
          /\ w.y + 20 <= c[2] /\ c[2] + 16 <= w.y + w.h - 2
        BY <1>2, <1>3 DEF Room
    <2> QED
        BY <1>4, <1>12, <2>1, <2>2 DEF WindowOK, InsideFrame
  <1> QED
      BY <1>2, <1>12, <1>15, <1>16, <1>17 DEF WindowOK, r

(* One character keeps the page whole and inside the frame.                *)
LEMMA PutcInWindow ==
  ASSUME WindowFits, NEW w, WindowOK(w), NEW ch \in Chars
  PROVE  WindowOK(window_putc(w, ch))
  <1> USE WindowNumbers, ConsoleAssumption
  <1> DEFINE a == Wrapped(w)
             bot == w.y + w.h - GUI_BORDER - 2
             b == Turned(a, bot)
  <1>1. \A v : WindowOK(v) => /\ v.cx \in Nat /\ v.cy \in Nat /\ v.x = 20 /\ v.y = 30
                              /\ v.w = FbWidth - 40 /\ v.h = FbHeight - 80
      BY DEF WindowOK, Windows
  <1>2. WindowOK(NextRow(w)) /\ NextRow(w).cx = 4 /\ NextRow(w).cy = w.cy + 16
      BY RowKeeps
  <1>3. WindowOK(a) /\ a.cx + 8 <= a.w - 4
    <2>1. CASE w.x + w.cx + FB_FONT_W > w.x + w.w - GUI_BORDER - 2
      <3>1. a = NextRow(w)
          BY <2>1 DEF Wrapped
      <3> HIDE DEF a
      <3> QED
          BY <1>1, <1>2, <3>1 DEF WindowFits
    <2>2. CASE ~ (w.x + w.cx + FB_FONT_W > w.x + w.w - GUI_BORDER - 2)
      <3>1. a = w
          BY <2>2 DEF Wrapped
      <3> HIDE DEF a
      <3> QED
          BY <1>1, <2>2, <3>1
    <2> QED
        BY <2>1, <2>2
  <1> HIDE DEF a
  <1>4. WindowOK(TurnPage(a)) /\ TurnPage(a).cx = a.cx /\ TurnPage(a).cy = 24
      BY <1>3, PageTurns
  <1>5. WindowOK(b) /\ Room(b)
    <2>1. CASE a.y + a.cy + FB_FONT_H > bot
      <3>1. b = TurnPage(a)
          BY <2>1 DEF Turned
      <3> HIDE DEF b
      <3> QED
          BY <1>1, <1>3, <1>4, <3>1 DEF WindowFits, Room
    <2>2. CASE ~ (a.y + a.cy + FB_FONT_H > bot)
      <3>1. b = a
          BY <2>2 DEF Turned
      <3> HIDE DEF b
      <3> QED
          BY <1>1, <1>3, <2>2, <3>1 DEF Room
    <2> QED
        BY <2>1, <2>2
  <1>6. WindowOK(Advanced(b, ch))
    <2> HIDE DEF b
    <2> QED
        BY <1>5, CharKeeps
  <1> QED
      BY <1>2, <1>6, WindowPutc DEF a

(* So does any text.                                                       *)
LEMMA PrintInWindow ==
  ASSUME WindowFits, NEW w, WindowOK(w), NEW s \in Seq(Chars)
  PROVE  WindowOK(gui_window_print(w, s))
  <1> DEFINE T == {v \in Windows : WindowOK(v)}
  <1>1. Len(s) \in Nat /\ \A k \in 1 .. Len(s) : s[k] \in Chars
      OBVIOUS
  <1>2. w \in T
      BY DEF WindowOK
  <1>3. \A x \in T, k \in 1 .. Len(s) : window_putc(x, s[k]) \in T
    <2>1. \A x \in T, k \in 1 .. Len(s) : WindowOK(window_putc(x, s[k]))
        BY <1>1, PutcInWindow
    <2> QED
        BY <2>1 DEF WindowOK
  <1>4. PICK f : gui_window_print(w, s) = f[Len(s)] /\ \A k \in 0 .. Len(s) : f[k] \in T
    <2>1. Len(s) \in Nat
        BY <1>1
    <2> HIDE DEF T
    <2> QED
        BY <1>2, <1>3, <2>1, WindowPuts, ZenonT(60)
  <1> QED
      BY <1>1, <1>4

(* As many marks as there are places in a list of different ones.          *)
LEMMA CountMarks ==
  ASSUME NEW m \in Seq(Marks), NEW n \in 0 .. Len(m),
         \A i, j \in 1 .. Len(m) : i # j => m[i] # m[j]
  PROVE  Cardinality({m[k] : k \in 1 .. n}) = n
  <1> DEFINE S == {m[k] : k \in 1 .. n}
             f == [k \in 1 .. n |-> m[k]]
  <1>1. n \in Nat /\ \A k \in 1 .. n : k \in 1 .. Len(m)
      OBVIOUS
  <1>2. f \in [1 .. n -> S] /\ \A k \in 1 .. n : f[k] = m[k]
      OBVIOUS
  <1>3. \A d \in S : \E k \in 1 .. n : f[k] = d
      OBVIOUS
  <1>4. \A i, j \in 1 .. n : f[i] = f[j] => i = j
      BY <1>1, <1>2
  <1> HIDE DEF f, S
  <1>5. f \in Bijection(1 .. n, S)
      BY <1>2, <1>3, <1>4 DEF Bijection, Injection, Surjection, IsInjective
  <1>6. ExistsBijection(1 .. n, S)
      BY <1>5 DEF ExistsBijection
  <1>7. Cardinality(S) = n
      BY <1>1, <1>6, FS_CountingElements
  <1> QED
      BY <1>7 DEF S

(* Such a window shows its page.                                           *)
LEMMA WindowShows ==
  ASSUME NEW w, WindowOK(w)
  PROVE  ShowsPage(w) /\ InsideFrame(w)
  <1> DEFINE Before(d, e) == d.at[2] < e.at[2] \/ (d.at[2] = e.at[2] /\ d.at[1] < e.at[1])
  <1>1. PICK m : Drawn(w, m)
      BY DEF WindowOK
  <1> DEFINE n == Len(m)
  <1>2. /\ m \in Seq(Marks) /\ n \in Nat /\ n = Len(w.page) /\ w.drawn = {m[k] : k \in 1 .. n}
        /\ \A k \in 1 .. n : m[k] \in Marks /\ m[k].at \in Int \X Int /\ m[k].ch = w.page[k]
    <2>1. /\ m \in Seq(Marks) /\ n = Len(w.page) /\ w.drawn = {m[k] : k \in 1 .. n}
          /\ \A k \in 1 .. n : m[k].ch = w.page[k]
        BY <1>1 DEF Drawn
    <2>2. n \in Nat /\ \A k \in 1 .. n : m[k] \in Marks
        BY <2>1
    <2> QED
        BY <2>1, <2>2 DEF Marks
  <1>3. \A i, j \in 1 .. n : i < j => Before(m[i], m[j]) /\ ~ Before(m[j], m[i])
    <2> SUFFICES ASSUME NEW i \in 1 .. n, NEW j \in 1 .. n, i < j
                 PROVE  Before(m[i], m[j]) /\ ~ Before(m[j], m[i])
        OBVIOUS
    <2>1. Precedes(m[i].at, m[j].at)
        BY <1>1 DEF Drawn
    <2>2. /\ m[i].at[1] \in Int /\ m[i].at[2] \in Int
          /\ m[j].at[1] \in Int /\ m[j].at[2] \in Int
        BY <1>2
    <2> QED
        BY <2>1, <2>2 DEF Precedes
  <1>4. \A i \in 1 .. n : ~ Before(m[i], m[i])
    <2> SUFFICES ASSUME NEW i \in 1 .. n PROVE ~ Before(m[i], m[i])
        OBVIOUS
    <2>1. m[i].at[1] \in Int /\ m[i].at[2] \in Int
        BY <1>2
    <2> QED
        BY <2>1
  <1> HIDE DEF Before
  <1>5. \A i, j \in 1 .. n : i # j => m[i] # m[j]
    <2> SUFFICES ASSUME NEW i \in 1 .. n, NEW j \in 1 .. n, i # j PROVE m[i] # m[j]
        OBVIOUS
    <2>1. i < j \/ j < i
        BY <1>2
    <2> QED
        BY <1>3, <1>4, <2>1
  <1>6. Cardinality(w.drawn) = Len(w.page)
      BY <1>2, <1>5, CountMarks
  <1>7. ASSUME NEW d \in w.drawn
        PROVE  w.page[Cardinality({e \in w.drawn : Before(e, d)}) + 1] = d.ch
    <2>1. PICK k \in 1 .. n : d = m[k]
        BY <1>2
    <2>2. {e \in w.drawn : Before(e, d)} = {m[j] : j \in 1 .. k - 1}
      <3>1. ASSUME NEW e \in w.drawn, Before(e, d) PROVE e \in {m[j] : j \in 1 .. k - 1}
        <4>1. PICK j \in 1 .. n : e = m[j]
            BY <1>2
        <4>2. ~ (k < j) /\ j # k
            BY <1>3, <1>4, <2>1, <3>1, <4>1
        <4>3. j \in 1 .. k - 1
            BY <1>2, <4>2
        <4> QED
            BY <4>1, <4>3
      <3>2. ASSUME NEW j \in 1 .. k - 1 PROVE m[j] \in w.drawn /\ Before(m[j], d)
        <4>1. j \in 1 .. n /\ j < k
            BY <1>2
        <4> QED
            BY <1>2, <1>3, <2>1, <4>1
      <3> QED
          BY <3>1, <3>2
    <2>3. k - 1 \in 0 .. n
        BY <1>2
    <2>4. Cardinality({m[j] : j \in 1 .. k - 1}) = k - 1
        BY <1>2, <1>5, <2>3, CountMarks
    <2>5. (k - 1) + 1 = k /\ w.page[k] = d.ch
        BY <1>2, <2>1
    <2> QED
        BY <2>2, <2>4, <2>5
  <1>8. ShowsPage(w)
      BY <1>6, <1>7 DEF ShowsPage, Before
  <1> QED
      BY <1>8 DEF WindowOK

-----------------------------------------------------------------------------
(* The command line.                                                       *)

(* Every nonempty set of naturals has a least element.                     *)
LEMMA MinExists ==
  ASSUME NEW S \in SUBSET Nat, S # {}
  PROVE  \E q \in S : \A r \in S : q <= r
  <1> DEFINE less == OpToRel(<, Nat)
  <1>1. IsWellFoundedOn(less, Nat)
      BY NatLessThanWellFounded, Zenon
  <1>2. \A m, n \in Nat : m < n => <<m, n>> \in less
      BY DEF OpToRel
  <1> HIDE DEF less
  <1>3. PICK q \in S : \A r \in S : ~ (<<r, q>> \in less)
      BY <1>1, WFMin
  <1>4. ASSUME NEW r \in S PROVE q <= r
    <2>1. q \in Nat /\ r \in Nat
        OBVIOUS
    <2>2. ~ (r < q)
        BY <1>2, <1>3, <2>1
    <2> QED
        BY <2>1, <2>2
  <1> QED
      BY <1>3, <1>4

LineChars == Keys \ Enter
Words == Seq(LineChars)

(* The first of some places, or the end.                                   *)
LEMMA FirstOf ==
  ASSUME NEW n \in Nat, NEW p \in 1 .. n + 1, NEW stop \in SUBSET (p .. n)
  PROVE  (IF stop = {} THEN n + 1 ELSE CHOOSE q \in stop : \A r \in stop : q <= r) \in p .. n + 1
  <1> DEFINE c == CHOOSE q \in stop : \A r \in stop : q <= r
  <1>1. CASE stop = {}
      BY <1>1
  <1>2. CASE stop # {}
    <2>1. stop \in SUBSET Nat
        OBVIOUS
    <2>2. c \in stop
        BY <1>2, <2>1, MinExists
    <2> HIDE DEF c
    <2>3. c \in p .. n + 1
        BY <2>2
    <2> QED
        BY <1>2, <2>3 DEF c
  <1> QED
      BY <1>1, <1>2

(* UpTo stays within the line, or one place behind it.                     *)
LEMMA UpToPlace ==
  ASSUME NEW s \in Words, NEW p \in 1 .. Len(s) + 1
  PROVE  UpTo(s, p, TRUE) \in p .. Len(s) + 1 /\ UpTo(s, p, FALSE) \in p .. Len(s) + 1
  <1> DEFINE yes == {q \in p .. Len(s) : (s[q] = Blank) = TRUE}
             no == {q \in p .. Len(s) : (s[q] = Blank) = FALSE}
  <1>1. Len(s) \in Nat
      BY DEF Words
  <1>2. yes \in SUBSET (p .. Len(s)) /\ no \in SUBSET (p .. Len(s))
      OBVIOUS
  <1>3. UpTo(s, p, TRUE) = IF yes = {} THEN Len(s) + 1
                           ELSE CHOOSE q \in yes : \A r \in yes : q <= r
      BY DEF UpTo
  <1>4. UpTo(s, p, FALSE) = IF no = {} THEN Len(s) + 1
                            ELSE CHOOSE q \in no : \A r \in no : q <= r
      BY DEF UpTo
  <1> HIDE DEF yes, no
  <1>5. UpTo(s, p, TRUE) \in p .. Len(s) + 1
      BY <1>1, <1>2, <1>3, FirstOf
  <1>6. UpTo(s, p, FALSE) \in p .. Len(s) + 1
      BY <1>1, <1>2, <1>4, FirstOf
  <1> QED
      BY <1>5, <1>6

(* One argument more, in front of those that F finds behind it.            *)
NoArgs(s) == [p \in 1 .. Len(s) + 1 |-> <<>>]
OneMore(s, F) ==
    [p \in 1 .. Len(s) + 1 |->
        IF p > Len(s) THEN <<>>
        ELSE <<SubSeq(s, p, UpTo(s, p, TRUE) - 1)>> \o F[UpTo(s, UpTo(s, p, TRUE), FALSE)]]

(* One argument more is still a sequence of words.                         *)
LEMMA OneMoreType ==
  ASSUME NEW s \in Words, NEW F \in [1 .. Len(s) + 1 -> Seq(Words)]
  PROVE  OneMore(s, F) \in [1 .. Len(s) + 1 -> Seq(Words)]
  <1> SUFFICES ASSUME NEW p \in 1 .. Len(s) + 1, ~ (p > Len(s))
               PROVE  (<<SubSeq(s, p, UpTo(s, p, TRUE) - 1)>> \o F[UpTo(s, UpTo(s, p, TRUE), FALSE)])
                        \in Seq(Words)
    <2>1. <<>> \in Seq(Words)
        OBVIOUS
    <2> QED
        BY <2>1 DEF OneMore
  <1> DEFINE e == UpTo(s, p, TRUE)
             b == UpTo(s, e, FALSE)
  <1>1. Len(s) \in Nat
      BY DEF Words
  <1>2. e \in p .. Len(s) + 1 /\ e \in 1 .. Len(s) + 1
    <2>1. e \in p .. Len(s) + 1
        BY UpToPlace, Zenon
    <2> HIDE DEF e
    <2> QED
        BY <1>1, <2>1
  <1>3. b \in 1 .. Len(s) + 1
    <2> HIDE DEF e
    <2>1. b \in e .. Len(s) + 1
        BY <1>2, UpToPlace, Zenon
    <2> HIDE DEF b
    <2> QED
        BY <1>2, <2>1
  <1> HIDE DEF e, b
  <1>4. SubSeq(s, p, e - 1) \in Words
      BY <1>1, <1>2 DEF Words
  <1> DEFINE w == SubSeq(s, p, e - 1)
  <1>5. <<w>> \in Seq(Words) /\ F[b] \in Seq(Words)
    <2> HIDE DEF w
    <2> QED
        BY <1>3, <1>4 DEF w
  <1>6. <<w>> \o F[b] \in Seq(Words)
    <2> HIDE DEF w
    <2> QED
        BY <1>5
  <1> QED
      BY <1>6 DEF e, b

(* parse_args splits a line into words of its characters.                  *)
LEMMA ArgsType ==
  ASSUME NEW s \in Words
  PROVE  parse_args(s) \in Seq(Words)
  <1> DEFINE n == MAX_ARGS
             T == [1 .. Len(s) + 1 -> Seq(Words)]
             g == [k \in 1 .. n |-> [F \in T |-> OneMore(s, F)]]
             Inner(h, k) == [p \in 1 .. Len(s) + 1 |->
                                IF p > Len(s) \/ k = 0 THEN <<>>
                                ELSE LET end == UpTo(s, p, TRUE)
                                     IN  <<SubSeq(s, p, end - 1)>> \o h[k - 1][UpTo(s, end, FALSE)]]
             Rec(h) == h = [k \in 0 .. n |-> Inner(h, k)]
  <1>1. n \in Nat /\ Len(s) \in Nat
      BY ShellAssumption DEF Words
  <1>2. NoArgs(s) \in T /\ \A F \in T : OneMore(s, F) \in T
      BY OneMoreType DEF NoArgs
  <1>3. \A h, k : Inner(h, k) = IF k = 0 THEN NoArgs(s) ELSE OneMore(s, h[k - 1])
      BY DEF NoArgs, OneMore
  <1>4. parse_args(s) = (CHOOSE h : Rec(h))[n][UpTo(s, 1, FALSE)]
      BY DEF parse_args
  <1> HIDE DEF Inner, T
  <1>5. g \in [1 .. n -> [T -> T]] /\ \A k \in 1 .. n, F \in T : g[k][F] = OneMore(s, F)
      BY <1>2
  <1>6. PICK f \in [0 .. n -> T] : Iterates(f, NoArgs(s), g, n)
    <2> HIDE DEF g, n
    <2> QED
        BY <1>1, <1>2, <1>5, Recursion
  <1>7. Rec(f)
    <2> HIDE DEF g
    <2>1. ASSUME NEW k \in 0 .. n PROVE f[k] = Inner(f, k)
      <3>1. CASE k = 0
          BY <1>3, <1>6, <3>1 DEF Iterates
      <3>2. CASE k # 0
        <4>1. k \in 1 .. n /\ k - 1 \in 0 .. n
            BY <1>1, <3>2
        <4>2. f[k] = g[k][f[k - 1]] /\ f[k - 1] \in T
            BY <1>6, <4>1 DEF Iterates
        <4> QED
            BY <1>3, <1>5, <3>2, <4>1, <4>2
      <3> QED
          BY <3>1, <3>2
    <2>2. f = [k \in 0 .. n |-> f[k]]
        OBVIOUS
    <2> QED
        BY <2>1, <2>2
  <1> DEFINE h == CHOOSE h : Rec(h)
  <1>8. Rec(h)
      BY <1>7
  <1> HIDE DEF h, g
  <1>9. h[0] = NoArgs(s) /\ \A k \in 1 .. n : h[k] = OneMore(s, h[k - 1])
    <2>1. \A k \in 0 .. n : h[k] = Inner(h, k)
        BY <1>8
    <2> QED
        BY <1>1, <1>3, <2>1
  <1>10. \A k \in 0 .. n : h[k] \in T
    <2>1. h[0] \in T /\ \A k \in 1 .. n : h[k - 1] \in T => h[k] \in T
        BY <1>2, <1>9
    <2> HIDE DEF n
    <2> QED
        BY <1>1, <2>1, Iterated
  <1>11. h[n] \in [1 .. Len(s) + 1 -> Seq(Words)]
      BY <1>1, <1>10 DEF T
  <1>12. UpTo(s, 1, FALSE) \in 1 .. Len(s) + 1
      BY <1>1, UpToPlace
  <1>13. h[n][UpTo(s, 1, FALSE)] \in Seq(Words)
      BY <1>11, <1>12
  <1> QED
      BY <1>4, <1>13 DEF h

(* Words of a line can be printed.                                         *)
LEMMA WordsPrint ==
  ASSUME NEW w \in Words
  PROVE  w \in Seq(Chars)
  BY DEF Words, LineChars, Chars

(* echo prints its arguments.                                              *)
EchoStep(a, x, k) == x \o a[k + 1] \o IF k + 1 < Len(a) THEN <<Blank>> ELSE <<>>

(* echo prints characters of the line, spaces and a line feed.             *)
LEMMA EchoType ==
  ASSUME args \in Seq(Words), args # <<>>
  PROVE  Echo \in Seq(Chars)
  <1> DEFINE n == Len(args) - 1
             T == Seq(Chars)
             g == [k \in 1 .. n |-> [x \in T |-> EchoStep(args, x, k)]]
             Rec(h) == h = [k \in 0 .. n |-> IF k = 0 THEN <<>> ELSE EchoStep(args, h[k - 1], k)]
  <1>1. n \in Nat
      OBVIOUS
  <1>2. Echo = (CHOOSE h : Rec(h))[n] \o <<"LF">>
      BY DEF Echo, EchoStep
  <1>3. ASSUME NEW x \in T, NEW k \in 1 .. n PROVE EchoStep(args, x, k) \in T
    <2>1. k + 1 \in 1 .. Len(args)
        BY <1>1
    <2>2. args[k + 1] \in Words
        BY <2>1
    <2>3. args[k + 1] \in Seq(Chars)
        BY <2>2, WordsPrint
    <2>4. (IF k + 1 < Len(args) THEN <<Blank>> ELSE <<>>) \in Seq(Chars)
        BY ConsoleTypes
    <2> QED
        BY <2>3, <2>4 DEF EchoStep
  <1>4. g \in [1 .. n -> [T -> T]] /\ \A k \in 1 .. n, x \in T : g[k][x] = EchoStep(args, x, k)
    <2> HIDE DEF T
    <2> QED
        BY <1>3
  <1>5. <<>> \in T
      OBVIOUS
  <1>6. PICK f \in [0 .. n -> T] : Iterates(f, <<>>, g, n)
    <2> HIDE DEF g, n, T
    <2> QED
        BY <1>1, <1>4, <1>5, Recursion
  <1>7. Rec(f)
    <2> HIDE DEF g, T, n
    <2>1. ASSUME NEW k \in 0 .. n
          PROVE  f[k] = IF k = 0 THEN <<>> ELSE EchoStep(args, f[k - 1], k)
      <3>1. CASE k = 0
          BY <1>6, <3>1 DEF Iterates
      <3>2. CASE k # 0
        <4>1. k \in 1 .. n /\ k - 1 \in 0 .. n
            BY <1>1, <3>2
        <4>2. f[k] = g[k][f[k - 1]] /\ f[k - 1] \in T
            BY <1>6, <4>1 DEF Iterates
        <4> QED
            BY <1>4, <3>2, <4>1, <4>2
      <3> QED
          BY <3>1, <3>2
    <2>2. f = [k \in 0 .. n |-> f[k]]
        OBVIOUS
    <2> QED
        BY <2>1, <2>2
  <1> DEFINE h == CHOOSE h : Rec(h)
  <1>8. Rec(h)
      BY <1>7
  <1> HIDE DEF h, g, n, T
  <1>9. h[0] = <<>> /\ \A k \in 1 .. n : h[k] = EchoStep(args, h[k - 1], k)
      BY <1>1, <1>8
  <1>10. \A k \in 0 .. n : h[k] \in T
    <2>1. h[0] \in T /\ \A k \in 1 .. n : h[k - 1] \in T => h[k] \in T
        BY <1>3, <1>5, <1>9
    <2> QED
        BY <1>1, <2>1, Iterated
  <1>11. h[n] \in Seq(Chars)
      BY <1>1, <1>10 DEF T
  <1>12. <<"LF">> \in Seq(Chars)
      BY DEF Chars, Messages
  <1>13. h[n] \o <<"LF">> \in Seq(Chars)
      BY <1>11, <1>12
  <1> QED
      BY <1>2, <1>13 DEF h

(* So do the commands that only print.                                     *)
LEMMA ReplyType ==
  ASSUME buf \in Words
  PROVE  Reply \in Seq(Chars)
  <1>1. args \in Seq(Words)
      BY ArgsType DEF args
  <1>2. CASE Command = <<"echo">>
    <2>1. args # <<>>
        BY <1>2 DEF Command
    <2> QED
        BY <1>1, <1>2, <2>1, EchoType DEF Reply
  <1>3. CASE Command # <<"echo">>
    <2>1. Command \in Words
        BY <1>1 DEF Command, Words
    <2>2. Command \in Seq(Chars)
        BY <2>1, WordsPrint
    <2>3. <<"text", "LF">> \in Seq(Chars) /\ <<"command_not_found", "LF">> \in Seq(Chars)
        BY DEF Chars, Messages
    <2>4. Command \o <<"command_not_found", "LF">> \in Seq(Chars)
        BY <2>2, <2>3
    <2> QED
        BY <1>3, <2>3, <2>4 DEF Reply
  <1> QED
      BY <1>2, <1>3

-----------------------------------------------------------------------------
(* The file trees.                                                         *)

Data == Bytes \cup {Junk}
DirNodes == [name : Names, kind : {"dir"}, entries : Seq(Nat), cap : Nat]
FileNodes == [name : Names, kind : {"file"}, data : Seq(Data)]
Nodes == DirNodes \cup FileNodes

(* A directory's room, and where its entries lead.                         *)
DirOK(ns, d) ==
    /\ Len(ns[d].entries) <= ns[d].cap /\ Len(ns[d].entries) <= Len(ns)
    /\ \A k \in DOMAIN ns[d].entries : ns[d].entries[k] \in 1 .. Len(ns)

(* The nodes are trees, one below each root.                               *)
NodesOK(ns) == ns \in Seq(Nodes) /\ \A d \in 1 .. Len(ns) : ns[d].kind = "dir" => DirOK(ns, d)
Rooted(ns, roots) ==
    \A n \in 1 .. Len(ns), d \in 1 .. Len(ns), k \in Nat : IsEntry(ns, d, k, n) => n \notin roots
Entered(ns, roots) ==
    \A n \in 1 .. Len(ns) : n \notin roots => \E d \in 1 .. Len(ns), k \in Nat : IsEntry(ns, d, k, n)
Once(ns) ==
    \A n, d, e \in 1 .. Len(ns), j, k \in Nat :
        IsEntry(ns, d, j, n) /\ IsEntry(ns, e, k, n) => d = e /\ j = k
Tree(ns, roots) ==
    NodesOK(ns) /\ Rooted(ns, roots) /\ Entered(ns, roots) /\ Once(ns) /\ roots \subseteq 1 .. Len(ns)

(* ms is ns with a new node in the directory p.                            *)
Grown(ms, ns, p, new) ==
    /\ Len(ms) = Len(ns) + 1 /\ ms[Len(ns) + 1] = new
    /\ \A d \in 1 .. Len(ns) : d # p => ms[d] = ns[d]
    /\ ms[p] \in DirNodes /\ ms[p].name = ns[p].name
    /\ ms[p].entries = Append(ns[p].entries, Len(ns) + 1)

(* A new directory is empty; a new file has what it was given.             *)
Fresh(new) == new \in Nodes /\ (new.kind = "dir" => new.entries = <<>> /\ new.cap = 0)

(* A node is a directory or a file, with the fields of that kind.          *)
LEMMA NodeKinds ==
  ASSUME NEW x \in Nodes
  PROVE  /\ x.kind \in {"dir", "file"} /\ x.name \in Names
         /\ x.kind = "dir" => x \in DirNodes /\ x.entries \in Seq(Nat) /\ x.cap \in Nat
         /\ x.kind = "file" => x \in FileNodes /\ x.data \in Seq(Data)
  <1>1. CASE x \in DirNodes
      BY <1>1 DEF DirNodes
  <1>2. CASE x \in FileNodes
      BY <1>2 DEF FileNodes
  <1> QED
      BY <1>1, <1>2 DEF Nodes

(* Nodes as tmpfs_mkdir and tmpfs_mkfile make them.                        *)
LEMMA FreshNodes ==
  ASSUME NEW name \in Names
  PROVE  /\ Fresh(Dir(name)) /\ Dir(name).kind = "dir" /\ Dir(name).name = name
         /\ \A data \in Seq(Data) : /\ Fresh(File(name, data)) /\ File(name, data).kind = "file"
                                    /\ File(name, data).name = name
                                    /\ File(name, data).data = data
  <1>1. Dir(name) \in DirNodes /\ Dir(name).kind = "dir" /\ Dir(name).name = name
        /\ Dir(name).entries = <<>> /\ Dir(name).cap = 0
    <2>1. <<>> \in Seq(Nat) /\ 0 \in Nat
        OBVIOUS
    <2> QED
        BY <2>1 DEF Dir, DirNodes
  <1>2. ASSUME NEW data \in Seq(Data)
        PROVE  /\ File(name, data) \in FileNodes /\ File(name, data).kind = "file"
               /\ File(name, data).name = name /\ File(name, data).data = data
      BY DEF File, FileNodes
  <1> QED
      BY <1>1, <1>2 DEF Fresh, Nodes

(* dir_add makes room and enters the node behind the others.               *)
LEMMA DirAdd ==
  ASSUME NEW d \in DirNodes, NEW n \in Nat, Len(d.entries) <= d.cap
  PROVE  /\ dir_add(d, n) \in DirNodes /\ dir_add(d, n).name = d.name
         /\ dir_add(d, n).entries = Append(d.entries, n)
         /\ Len(dir_add(d, n).entries) <= dir_add(d, n).cap
  <1>1. /\ d \in [name : Names, kind : {"dir"}, entries : Seq(Nat), cap : Nat]
        /\ d.entries \in Seq(Nat) /\ d.cap \in Nat /\ FIRST_CAP \in Nat \ {0}
      BY VfsAssumption DEF DirNodes
  <1> DEFINE c == IF d.cap = 0 THEN FIRST_CAP ELSE 2 * d.cap
             full == Len(d.entries) >= d.cap
             m == IF full THEN [d EXCEPT !.cap = c] ELSE d
             L == Append(d.entries, n)
  <1>2. c \in Nat /\ c >= d.cap + 1
      BY <1>1
  <1>3. /\ m \in [name : Names, kind : {"dir"}, entries : Seq(Nat), cap : Nat]
        /\ m.name = d.name /\ m.entries = d.entries /\ m.cap = IF full THEN c ELSE d.cap
    <2> HIDE DEF c
    <2>1. CASE full
        BY <1>1, <1>2, <2>1
    <2>2. CASE ~ full
        BY <1>1, <2>2
    <2> QED
        BY <2>1, <2>2
  <1>4. L \in Seq(Nat) /\ Len(L) = Len(d.entries) + 1 /\ Len(L) <= m.cap
    <2>1. L \in Seq(Nat) /\ Len(L) = Len(d.entries) + 1 /\ Len(d.entries) \in Nat
        BY <1>1
    <2> HIDE DEF L, m, c
    <2> QED
        BY <1>1, <1>2, <1>3, <2>1
  <1>5. dir_add(d, n) = [m EXCEPT !.entries = Append(m.entries, n)]
      BY DEF dir_add
  <1>6. dir_add(d, n) = [m EXCEPT !.entries = L]
      BY <1>3, <1>5
  <1> HIDE DEF L, m, c, full
  <1>7. /\ dir_add(d, n) \in DirNodes /\ dir_add(d, n).name = m.name
        /\ dir_add(d, n).entries = L /\ dir_add(d, n).cap = m.cap
      BY <1>3, <1>4, <1>6 DEF DirNodes
  <1> QED
      BY <1>3, <1>4, <1>7 DEF L

(* The new node is the last entry of its directory, and nothing else       *)
(* changes.                                                                *)
LEMMA AddToGrows ==
  ASSUME NEW ns, NodesOK(ns), NEW p \in 1 .. Len(ns), ns[p].kind = "dir", NEW new, Fresh(new)
  PROVE  /\ Grown(AddTo(ns, p, new), ns, p, new)
         /\ NodesOK(AddTo(ns, p, new))
  <1> DEFINE n == Len(ns)
             q == dir_add(ns[p], n + 1)
             mid == [ns EXCEPT ![p] = q]
             ms == Append(mid, new)
  <1>1. /\ ns \in Seq(Nodes) /\ n \in Nat /\ new \in Nodes /\ ns[p] \in Nodes
        /\ \A d \in 1 .. n : ns[d] \in Nodes /\ (ns[d].kind = "dir" => DirOK(ns, d))
      BY DEF NodesOK, Fresh
  <1>2. ns[p] \in DirNodes /\ ns[p].entries \in Seq(Nat) /\ Len(ns[p].entries) <= ns[p].cap
      BY <1>1, NodeKinds DEF DirOK
  <1>3. /\ q \in DirNodes /\ q.name = ns[p].name /\ q.entries = Append(ns[p].entries, n + 1)
        /\ Len(q.entries) <= q.cap
    <2>1. n + 1 \in Nat
        BY <1>1
    <2> QED
        BY <1>2, <2>1, DirAdd
  <1>4. AddTo(ns, p, new) = ms
      BY DEF AddTo
  <1> HIDE DEF q
  <1>5. /\ mid \in Seq(Nodes) /\ Len(mid) = n /\ mid[p] = q
        /\ \A d \in 1 .. n : d # p => mid[d] = ns[d]
      BY <1>1, <1>3 DEF Nodes
  <1> HIDE DEF mid
  <1>6. /\ ms \in Seq(Nodes) /\ Len(ms) = n + 1 /\ ms[n + 1] = new
        /\ \A d \in 1 .. n : ms[d] = mid[d]
      BY <1>1, <1>5
  <1> HIDE DEF ms
  <1>7. ms[p] = q /\ \A d \in 1 .. n : d # p => ms[d] = ns[d]
      BY <1>5, <1>6
  <1>8. Grown(ms, ns, p, new)
      BY <1>3, <1>6, <1>7 DEF Grown
  <1>9. ASSUME NEW d \in 1 .. Len(ms), ms[d].kind = "dir" PROVE DirOK(ms, d)
    <2>1. CASE d = n + 1
      <3>1. ms[d].entries = <<>> /\ ms[d].cap = 0
          BY <1>6, <1>9, <2>1 DEF Fresh
      <3>2. Len(<<>>) = 0 /\ DOMAIN <<>> = {}
          OBVIOUS
      <3> QED
          BY <1>1, <1>6, <3>1, <3>2 DEF DirOK
    <2>2. CASE d = p
      <3>1. /\ q.entries = Append(ns[p].entries, n + 1) /\ Len(q.entries) = Len(ns[p].entries) + 1
            /\ DirOK(ns, p)
          BY <1>1, <1>2, <1>3
      <3>2. \A k \in DOMAIN q.entries : q.entries[k] \in 1 .. n + 1
        <4> SUFFICES ASSUME NEW k \in DOMAIN q.entries PROVE q.entries[k] \in 1 .. n + 1
            OBVIOUS
        <4>1. k \in 1 .. Len(ns[p].entries) + 1 /\ Len(ns[p].entries) \in Nat
            BY <1>2, <3>1
        <4>2. CASE k = Len(ns[p].entries) + 1
            BY <1>1, <1>2, <3>1, <4>1, <4>2
        <4>3. CASE k # Len(ns[p].entries) + 1
          <5>1. k \in DOMAIN ns[p].entries /\ q.entries[k] = ns[p].entries[k]
              BY <1>2, <3>1, <4>1, <4>3, SMTT(30)
          <5> QED
              BY <1>1, <3>1, <5>1 DEF DirOK
        <4> QED
            BY <4>2, <4>3
      <3>3. Len(q.entries) <= n + 1
          BY <1>1, <1>2, <3>1 DEF DirOK
      <3> QED
          BY <1>3, <1>6, <1>7, <2>2, <3>2, <3>3 DEF DirOK
    <2>3. CASE d # n + 1 /\ d # p
      <3>1. d \in 1 .. n /\ ms[d] = ns[d]
          BY <1>1, <1>6, <1>7, <2>3
      <3>2. DirOK(ns, d) /\ ns[d].entries \in Seq(Nat)
          BY <1>1, <1>9, <3>1, NodeKinds
      <3> QED
          BY <1>1, <1>6, <3>1, <3>2 DEF DirOK
    <2> QED
        BY <2>1, <2>2, <2>3
  <1> QED
      BY <1>4, <1>6, <1>8, <1>9 DEF NodesOK

(* The entries of the grown trees: the old ones and one more.              *)
LEMMA GrownEntries ==
  ASSUME NEW ns, NodesOK(ns), NEW p \in 1 .. Len(ns), ns[p].kind = "dir", NEW new, Fresh(new),
         NEW ms, Grown(ms, ns, p, new),
         NEW n \in 1 .. Len(ns) + 1, NEW d \in 1 .. Len(ns) + 1, NEW k \in Nat
  PROVE  IsEntry(ms, d, k, n) <=>
            \/ d \in 1 .. Len(ns) /\ n \in 1 .. Len(ns) /\ IsEntry(ns, d, k, n)
            \/ d = p /\ k = Len(ns[p].entries) + 1 /\ n = Len(ns) + 1
  <1>1. /\ ns \in Seq(Nodes) /\ Len(ns) \in Nat
        /\ \A e \in 1 .. Len(ns) : ns[e] \in Nodes /\ (ns[e].kind = "dir" => DirOK(ns, e))
      BY DEF NodesOK
  <1>2. ns[p].entries \in Seq(Nat) /\ Len(ns[p].entries) \in Nat
      BY <1>1, NodeKinds
  <1>3. CASE d = Len(ns) + 1
    <2>1. ms[d] = new
        BY <1>3 DEF Grown
    <2>2. ~ IsEntry(ms, d, k, n)
      <3>1. DOMAIN <<>> = {}
          OBVIOUS
      <3> QED
          BY <2>1, <3>1 DEF IsEntry, Fresh
    <2> QED
        BY <1>1, <1>3, <2>2
  <1>4. CASE d = p
    <2>1. ms[p].kind = "dir" /\ ms[p].entries = Append(ns[p].entries, Len(ns) + 1)
        BY DEF Grown, DirNodes
    <2>2. DOMAIN ms[p].entries = 1 .. Len(ns[p].entries) + 1
        BY <1>2, <2>1
    <2>3. DOMAIN ns[p].entries = 1 .. Len(ns[p].entries)
        BY <1>2
    <2>4. CASE k = Len(ns[p].entries) + 1
      <3>1. ms[p].entries[k] = Len(ns) + 1 /\ k \in DOMAIN ms[p].entries /\ k \notin DOMAIN ns[p].entries
          BY <1>1, <1>2, <2>1, <2>2, <2>3, <2>4
      <3> QED
          BY <1>4, <2>1, <2>4, <3>1 DEF IsEntry
    <2>5. CASE k # Len(ns[p].entries) + 1
      <3>1. k \in DOMAIN ms[p].entries <=> k \in DOMAIN ns[p].entries
          BY <1>2, <2>2, <2>3, <2>5
      <3>2. k \in DOMAIN ns[p].entries => ms[p].entries[k] = ns[p].entries[k]
          BY <1>2, <2>1, <2>3
      <3>3. k \in DOMAIN ns[p].entries => ns[p].entries[k] \in 1 .. Len(ns)
          BY <1>1 DEF DirOK
      <3> QED
          BY <1>4, <2>1, <2>5, <3>1, <3>2, <3>3 DEF IsEntry
    <2> QED
        BY <2>4, <2>5
  <1>5. CASE d # p /\ d # Len(ns) + 1
    <2>1. d \in 1 .. Len(ns) /\ ms[d] = ns[d]
        BY <1>1, <1>5 DEF Grown
    <2>2. IsEntry(ns, d, k, n) => n \in 1 .. Len(ns)
        BY <1>1, <2>1 DEF IsEntry, DirOK
    <2> QED
        BY <1>5, <2>1, <2>2 DEF IsEntry
  <1> QED
      BY <1>3, <1>4, <1>5

(* A new node in a directory keeps the trees.                              *)
LEMMA TreeGrows ==
  ASSUME NEW ns, NEW roots, Tree(ns, roots), NEW p \in 1 .. Len(ns), ns[p].kind = "dir",
         NEW new, Fresh(new), NEW ms, ms = AddTo(ns, p, new)
  PROVE  Tree(ms, roots) /\ Grown(ms, ns, p, new)
  <1>1. Grown(ms, ns, p, new) /\ NodesOK(ms) /\ NodesOK(ns)
      BY AddToGrows DEF Tree
  <1>2. Len(ms) = Len(ns) + 1 /\ Len(ns) \in Nat /\ roots \subseteq 1 .. Len(ns)
      BY <1>1 DEF Grown, NodesOK, Tree
  <1>3. \A n, d \in 1 .. Len(ms), k \in Nat :
            IsEntry(ms, d, k, n) <=>
                \/ d \in 1 .. Len(ns) /\ n \in 1 .. Len(ns) /\ IsEntry(ns, d, k, n)
                \/ d = p /\ k = Len(ns[p].entries) + 1 /\ n = Len(ns) + 1
    <2> TAKE n, d \in 1 .. Len(ms), k \in Nat
    <2>1. n \in 1 .. Len(ns) + 1 /\ d \in 1 .. Len(ns) + 1
        BY <1>2
    <2> QED
        BY <1>1, <2>1, GrownEntries, SMTT(30)
  <1>4. Rooted(ms, roots)
      BY <1>2, <1>3 DEF Tree, Rooted
  <1>5. Entered(ms, roots)
    <2> SUFFICES ASSUME NEW n \in 1 .. Len(ms), n \notin roots
                 PROVE  \E d \in 1 .. Len(ms), k \in Nat : IsEntry(ms, d, k, n)
        BY DEF Entered
    <2>1. CASE n = Len(ns) + 1
      <3>1. p \in 1 .. Len(ms) /\ Len(ns[p].entries) + 1 \in Nat
        <4>1. ns[p].entries \in Seq(Nat)
            BY <1>1, NodeKinds DEF NodesOK
        <4> QED
            BY <1>2, <4>1
      <3> QED
          BY <1>3, <2>1, <3>1
    <2>2. CASE n # Len(ns) + 1
      <3>1. n \in 1 .. Len(ns)
          BY <1>2, <2>2
      <3>2. PICK d \in 1 .. Len(ns), k \in Nat : IsEntry(ns, d, k, n)
          BY <3>1 DEF Tree, Entered
      <3>3. d \in 1 .. Len(ms)
          BY <1>2
      <3> QED
          BY <1>3, <3>1, <3>2, <3>3
    <2> QED
        BY <2>1, <2>2
  <1>6. Once(ms)
    <2> SUFFICES ASSUME NEW n \in 1 .. Len(ms), NEW d \in 1 .. Len(ms), NEW e \in 1 .. Len(ms),
                        NEW j \in Nat, NEW k \in Nat, IsEntry(ms, d, j, n), IsEntry(ms, e, k, n)
                 PROVE  d = e /\ j = k
        BY DEF Once
    <2>1. CASE n = Len(ns) + 1
        BY <1>2, <1>3, <2>1
    <2>2. CASE n # Len(ns) + 1
      <3>1. n \in 1 .. Len(ns) /\ d \in 1 .. Len(ns) /\ e \in 1 .. Len(ns)
            /\ IsEntry(ns, d, j, n) /\ IsEntry(ns, e, k, n)
          BY <1>2, <1>3, <2>2
      <3> QED
          BY <3>1 DEF Tree, Once
    <2> QED
        BY <2>1, <2>2
  <1> QED
      BY <1>1, <1>2, <1>4, <1>5, <1>6 DEF Tree

(* A new file system.                                                      *)
Planted(ms, ns, roots, name) ==
    /\ Tree(ms, roots \cup {Len(ns) + 1}) /\ Len(ms) = Len(ns) + 1
    /\ ms[Len(ns) + 1] = Dir(name) /\ \A d \in 1 .. Len(ns) : ms[d] = ns[d]

(* A new root is a tree of its own.                                        *)
LEMMA TreeRoot ==
  ASSUME NEW ns, NEW roots, Tree(ns, roots), NEW name \in Names,
         NEW ms, ms = Append(ns, Dir(name))
  PROVE  Planted(ms, ns, roots, name)
  <1> DEFINE n == Len(ns)
             new == Dir(name)
  <1>1. /\ ns \in Seq(Nodes) /\ n \in Nat
        /\ \A e \in 1 .. n : ns[e] \in Nodes /\ (ns[e].kind = "dir" => DirOK(ns, e))
      BY DEF Tree, NodesOK
  <1>2. Fresh(new) /\ new \in Nodes /\ new.kind = "dir" /\ new.entries = <<>> /\ new.cap = 0
      BY FreshNodes DEF Fresh
  <1> HIDE DEF new
  <1>3. /\ ms \in Seq(Nodes) /\ Len(ms) = n + 1 /\ ms[n + 1] = new
        /\ \A d \in 1 .. n : ms[d] = ns[d]
    <2>1. ms = Append(ns, new)
        BY DEF new
    <2> QED
        BY <1>1, <1>2, <2>1
  <1>4. ASSUME NEW d \in 1 .. Len(ms), ms[d].kind = "dir" PROVE DirOK(ms, d)
    <2>1. CASE d = n + 1
      <3>1. Len(<<>>) = 0 /\ DOMAIN <<>> = {}
          OBVIOUS
      <3> QED
          BY <1>1, <1>2, <1>3, <2>1, <3>1 DEF DirOK
    <2>2. CASE d # n + 1
      <3>1. d \in 1 .. n /\ ms[d] = ns[d]
          BY <1>1, <1>3, <2>2
      <3>2. DirOK(ns, d) /\ ns[d].entries \in Seq(Nat)
          BY <1>1, <1>4, <3>1, NodeKinds
      <3> QED
          BY <1>1, <1>3, <3>1, <3>2 DEF DirOK
    <2> QED
        BY <2>1, <2>2
  <1>5. ASSUME NEW m \in 1 .. n + 1, NEW d \in 1 .. n + 1, NEW k \in Nat
        PROVE  IsEntry(ms, d, k, m) <=> d \in 1 .. n /\ m \in 1 .. n /\ IsEntry(ns, d, k, m)
    <2>1. CASE d = n + 1
      <3>1. DOMAIN <<>> = {}
          OBVIOUS
      <3> QED
          BY <1>1, <1>2, <1>3, <2>1, <3>1 DEF IsEntry
    <2>2. CASE d # n + 1
      <3>1. d \in 1 .. n /\ ms[d] = ns[d]
          BY <1>1, <1>3, <2>2
      <3>2. IsEntry(ns, d, k, m) => m \in 1 .. n
          BY <1>1, <3>1 DEF IsEntry, DirOK
      <3> QED
          BY <3>1, <3>2 DEF IsEntry
    <2> QED
        BY <2>1, <2>2
  <1> DEFINE R == roots \cup {n + 1}
  <1>6. roots \subseteq 1 .. n /\ R \subseteq 1 .. Len(ms)
    <2>1. roots \subseteq 1 .. n
        BY DEF Tree
    <2>2. n + 1 \in 1 .. Len(ms) /\ \A r \in 1 .. n : r \in 1 .. Len(ms)
        BY <1>1, <1>3
    <2> QED
        BY <2>1, <2>2
  <1>7. Rooted(ms, R)
      BY <1>1, <1>3, <1>5, <1>6 DEF Rooted, Tree
  <1>8. Entered(ms, R)
    <2> SUFFICES ASSUME NEW m \in 1 .. n + 1, m \notin R
                 PROVE  \E d \in 1 .. n + 1, k \in Nat : IsEntry(ms, d, k, m)
        BY <1>3 DEF Entered
    <2>1. m \in 1 .. n /\ m \notin roots
        BY <1>1
    <2>2. PICK d \in 1 .. n, k \in Nat : IsEntry(ns, d, k, m)
        BY <2>1 DEF Tree, Entered
    <2>3. d \in 1 .. n + 1
        BY <1>1
    <2> QED
        BY <1>5, <2>1, <2>2, <2>3
  <1>9. Once(ms)
      BY <1>3, <1>5 DEF Once, Tree
  <1>10. Tree(ms, roots \cup {Len(ns) + 1}) /\ Len(ms) = Len(ns) + 1
      BY <1>3, <1>4, <1>6, <1>7, <1>8, <1>9 DEF Tree, NodesOK
  <1>11. ms[Len(ns) + 1] = Dir(name) /\ \A d \in 1 .. Len(ns) : ms[d] = ns[d]
      BY <1>3, <1>4, <1>6 DEF new
  <1> QED
      BY <1>10, <1>11 DEF Planted

(* There are no nodes before kmain makes the root.                         *)
LEMMA NoTree == Tree(<<>>, {})
  <1>1. <<>> \in Seq(Nodes) /\ Len(<<>>) = 0 /\ 1 .. 0 = {}
      OBVIOUS
  <1> QED
      BY <1>1 DEF Tree, NodesOK, Rooted, Entered, Once

(* Other contents in a file: the trees stay as they are.                   *)
WithData(ns, f, x) == [ns EXCEPT ![f].data = x]
Written(ms, ns, roots, f, x) ==
    /\ Tree(ms, roots) /\ Len(ms) = Len(ns)
    /\ ms[f] \in FileNodes /\ ms[f].name = ns[f].name /\ ms[f].data = x
    /\ \A d \in 1 .. Len(ns) : d # f => ms[d] = ns[d]

(* New contents of a file leave the trees alone.                           *)
LEMMA TreeWrite ==
  ASSUME NEW ns, NEW roots, Tree(ns, roots), NEW f \in 1 .. Len(ns), ns[f].kind = "file",
         NEW x \in Seq(Data), NEW ms, ms = WithData(ns, f, x)
  PROVE  Written(ms, ns, roots, f, x)
  <1> DEFINE n == Len(ns)
             q == [ns[f] EXCEPT !.data = x]
  <1>1. /\ ns \in Seq(Nodes) /\ n \in Nat
        /\ \A e \in 1 .. n : ns[e] \in Nodes /\ (ns[e].kind = "dir" => DirOK(ns, e))
      BY DEF Tree, NodesOK
  <1>2. ns[f] \in FileNodes
      BY <1>1, NodeKinds
  <1>3. q \in FileNodes /\ q.name = ns[f].name /\ q.data = x /\ q.kind = "file"
      BY <1>2 DEF FileNodes
  <1>4. ms = [ns EXCEPT ![f] = q]
      BY <1>1 DEF WithData
  <1> HIDE DEF q
  <1>5. /\ ms \in Seq(Nodes) /\ Len(ms) = n /\ ms[f] = q
        /\ \A d \in 1 .. n : d # f => ms[d] = ns[d]
      BY <1>1, <1>3, <1>4 DEF Nodes
  <1>6. \A m \in 1 .. n, d \in 1 .. n, k \in Nat : IsEntry(ms, d, k, m) <=> IsEntry(ns, d, k, m)
      BY <1>3, <1>5 DEF IsEntry
  <1>7. \A d \in 1 .. n : ms[d].kind = "dir" => DirOK(ms, d)
      BY <1>1, <1>3, <1>5 DEF DirOK
  <1>8. Rooted(ms, roots)
      BY <1>5, <1>6 DEF Rooted, Tree
  <1>9. Entered(ms, roots)
      BY <1>5, <1>6 DEF Entered, Tree
  <1>10. Once(ms)
      BY <1>5, <1>6 DEF Once, Tree
  <1> QED
      BY <1>3, <1>5, <1>7, <1>8, <1>9, <1>10 DEF Tree, NodesOK, Written

(* What TreeOK says.                                                       *)
LEMMA TreeIsOK ==
  ASSUME Tree(node, Roots)
  PROVE  TreeOK
  <1>1. /\ node \in Seq(Nodes) /\ Len(node) \in Nat /\ DOMAIN node = 1 .. Len(node)
        /\ \A e \in 1 .. Len(node) : node[e] \in Nodes /\ (node[e].kind = "dir" => DirOK(node, e))
      BY DEF Tree, NodesOK
  <1>2. ASSUME NEW n \in DOMAIN node
        PROVE  Cardinality(Places(n)) = IF n \in Roots THEN 0 ELSE 1
    <2>1. \A x \in Places(n) : /\ x[1] \in 1 .. Len(node) /\ x[2] \in Nat /\ x = <<x[1], x[2]>>
                               /\ IsEntry(node, x[1], x[2], n)
        BY <1>1 DEF Places
    <2>2. CASE n \in Roots
      <3>1. Places(n) = {}
          BY <1>1, <2>1, <2>2 DEF Tree, Rooted
      <3> QED
          BY <2>2, <3>1, FS_EmptySet
    <2>3. CASE n \notin Roots
      <3>1. PICK d \in 1 .. Len(node), k \in Nat : IsEntry(node, d, k, n)
          BY <1>1, <2>3 DEF Tree, Entered
      <3>2. k \in 1 .. Len(node)
        <4>1. node[d].entries \in Seq(Nat) /\ DirOK(node, d) /\ k \in DOMAIN node[d].entries
            BY <1>1, <3>1, NodeKinds DEF IsEntry
        <4>2. k \in 1 .. Len(node[d].entries) /\ Len(node[d].entries) <= Len(node)
            BY <4>1 DEF DirOK
        <4> QED
            BY <1>1, <4>1, <4>2
      <3>3. <<d, k>> \in Places(n)
          BY <1>1, <3>1, <3>2 DEF Places
      <3>4. ASSUME NEW x \in Places(n) PROVE x = <<d, k>>
        <4>1. x[1] = d /\ x[2] = k
            BY <1>1, <2>1, <3>1 DEF Tree, Once
        <4> QED
            BY <2>1, <4>1
      <3>5. Places(n) = {<<d, k>>}
          BY <3>3, <3>4
      <3> QED
          BY <2>3, <3>5, FS_Singleton
    <2> QED
        BY <2>2, <2>3
  <1> QED
      BY <1>1, <1>2 DEF TreeOK, DirOK

(* tmpfs_finddir finds an entry of that name, if there is one the first.   *)
LEMMA FindDir ==
  ASSUME NEW ns, NodesOK(ns), NEW d \in 1 .. Len(ns), ns[d].kind = "dir", NEW name
  PROVE  \/ /\ tmpfs_finddir(ns, d, name) = NULL
            /\ \A k \in DOMAIN ns[d].entries : ns[ns[d].entries[k]].name # name
         \/ \E k \in DOMAIN ns[d].entries :
              /\ tmpfs_finddir(ns, d, name) = ns[d].entries[k]
              /\ ns[ns[d].entries[k]].name = name
              /\ \A j \in DOMAIN ns[d].entries : ns[ns[d].entries[j]].name = name => k <= j
  <1> DEFINE found == {k \in DOMAIN ns[d].entries : ns[ns[d].entries[k]].name = name}
             k == CHOOSE k \in found : \A j \in found : k <= j
  <1>1. tmpfs_finddir(ns, d, name) = IF found = {} THEN NULL ELSE ns[d].entries[k]
      BY DEF tmpfs_finddir
  <1>2. ns[d] \in Nodes
      BY DEF NodesOK
  <1>3. ns[d].entries \in Seq(Nat)
      BY <1>2, NodeKinds
  <1>4. found \in SUBSET Nat
      BY <1>3
  <1>5. CASE found = {}
      BY <1>1, <1>5
  <1>6. CASE found # {}
    <2>1. k \in found /\ \A j \in found : k <= j
      <3> HIDE DEF found
      <3> QED
          BY <1>4, <1>6, MinExists
    <2> HIDE DEF k
    <2> QED
        BY <1>1, <1>6, <2>1
  <1> QED
      BY <1>5, <1>6

(* From n, a node or NULL, to a node of the trees by one name.             *)
Leads(ns, n, name, m) ==
    /\ n \in 1 .. Len(ns) /\ m \in 1 .. Len(ns) /\ ns[m].name = name
    /\ \E k \in Nat : IsEntry(ns, n, k, m)

(* finddir returns NULL or an entry of that name.                          *)
LEMMA FindIs ==
  ASSUME NEW ns, NodesOK(ns), NEW n \in 0 .. Len(ns), NEW name
  PROVE  \/ vfs_finddir(ns, n, name) = NULL
         \/ Leads(ns, n, name, vfs_finddir(ns, n, name))
  <1>1. /\ ns \in Seq(Nodes) /\ Len(ns) \in Nat
        /\ \A e \in 1 .. Len(ns) : ns[e] \in Nodes /\ (ns[e].kind = "dir" => DirOK(ns, e))
      BY DEF NodesOK
  <1>2. CASE n = NULL \/ ns[n].kind # "dir"
      BY <1>2 DEF vfs_finddir
  <1>3. CASE ~ (n = NULL \/ ns[n].kind # "dir")
    <2>1. n \in 1 .. Len(ns) /\ ns[n].kind = "dir"
        BY <1>3 DEF NULL
    <2>2. vfs_finddir(ns, n, name) = tmpfs_finddir(ns, n, name)
        BY <1>3 DEF vfs_finddir
    <2>3. CASE tmpfs_finddir(ns, n, name) # NULL
      <3>1. PICK k \in DOMAIN ns[n].entries :
                /\ tmpfs_finddir(ns, n, name) = ns[n].entries[k]
                /\ ns[ns[n].entries[k]].name = name
          BY <2>1, <2>3, FindDir
      <3>2. ns[n].entries[k] \in 1 .. Len(ns) /\ ns[n].entries \in Seq(Nat)
          BY <1>1, <2>1, NodeKinds DEF DirOK
      <3>3. k \in Nat
          BY <3>2
      <3> QED
          BY <2>1, <2>2, <3>1, <3>2, <3>3 DEF Leads, IsEntry
    <2> QED
        BY <2>2, <2>3
  <1> QED
      BY <1>2, <1>3

(* finddir returns NULL or a node.                                         *)
LEMMA FindType ==
  ASSUME NEW ns, NodesOK(ns), NEW n \in 0 .. Len(ns), NEW name
  PROVE  vfs_finddir(ns, n, name) \in 0 .. Len(ns)
  <1>1. Len(ns) \in Nat
      BY DEF NodesOK
  <1> QED
      BY <1>1, FindIs DEF Leads, NULL

(* w follows a path as far as its first len names.                         *)
Follows(ns, path, len, w) ==
    /\ w[0] = vfs_root
    /\ \A k \in 1 .. len : w[k] = vfs_finddir(ns, w[k - 1], path.names[k])
    /\ \A k \in 0 .. len : w[k] \in 0 .. Len(ns)

(* All that is needed of a path is that it is a sequence of names.         *)
PathOK(path) == Len(path.names) \in Nat /\ DOMAIN path.names = 1 .. Len(path.names)

(* The paths that the model uses.                                          *)
LEMMA PathsOK ==
  /\ \A path \in PathType : PathOK(path)
  /\ PathOK(Path(<<>>)) /\ PathOK(HostnamePath)
  <1>1. ASSUME NEW path \in PathType PROVE PathOK(path)
    <2>1. path.names \in Seq(STRING)
        BY DEF PathType
    <2> QED
        BY <2>1 DEF PathOK
  <1>2. PathOK(Path(<<>>)) /\ PathOK(HostnamePath)
      BY DEF PathOK, HostnamePath, Path
  <1> QED
      BY <1>1, <1>2

(* A path is not followed beyond its names.                                *)
LEMMA PathLenType ==
  ASSUME NEW path, PathOK(path)
  PROVE  PathLen(path) \in 0 .. Len(path.names)
  <1> DEFINE n == Len(path.names)
  <1>1. n \in Nat
      BY DEF PathOK
  <1>2. PathLen(path) = n \/ (n > 0 /\ PathLen(path) = n - 1)
      BY Zenon DEF PathLen
  <1> QED
      BY <1>1, <1>2

(* resolve follows the names from the root, one finddir after the other.   *)
LEMMA ResolveIs ==
  ASSUME NEW ns, NodesOK(ns), vfs_root \in 0 .. Len(ns), NEW path, PathOK(path)
  PROVE  \E w : /\ Follows(ns, path, PathLen(path), w)
                /\ resolve(ns, path) = IF path.absolute THEN w[PathLen(path)] ELSE NULL
  <1> DEFINE n == PathLen(path)
             T == 0 .. Len(ns)
             Step(x, k) == vfs_finddir(ns, x, path.names[k])
             g == [k \in 1 .. n |-> [x \in T |-> Step(x, k)]]
             Rec(h) == h = [k \in 0 .. n |-> IF k = 0 THEN vfs_root ELSE Step(h[k - 1], k)]
  <1>1. n \in Nat
    <2>1. Len(path.names) \in Nat
        BY DEF PathOK
    <2> QED
        BY <2>1, PathLenType
  <1>2. resolve(ns, path) = IF path.absolute THEN (CHOOSE h : Rec(h))[n] ELSE NULL
      BY Zenon DEF resolve
  <1>3. \A x \in T, k \in 1 .. n : Step(x, k) \in T
      BY FindType
  <1> HIDE DEF Step, n, T
  <1>4. g \in [1 .. n -> [T -> T]] /\ \A k \in 1 .. n, x \in T : g[k][x] = Step(x, k)
      BY <1>3
  <1>5. vfs_root \in T
      BY DEF T
  <1>6. PICK f \in [0 .. n -> T] : Iterates(f, vfs_root, g, n)
    <2> HIDE DEF g
    <2> QED
        BY <1>1, <1>4, <1>5, Recursion
  <1>7. Rec(f)
    <2> HIDE DEF g
    <2>1. ASSUME NEW k \in 0 .. n
          PROVE  f[k] = IF k = 0 THEN vfs_root ELSE Step(f[k - 1], k)
      <3>1. CASE k = 0
          BY <1>6, <3>1 DEF Iterates
      <3>2. CASE k # 0
        <4>1. k \in 1 .. n /\ k - 1 \in 0 .. n
            BY <1>1, <3>2
        <4>2. f[k] = g[k][f[k - 1]] /\ f[k - 1] \in T
            BY <1>6, <4>1 DEF Iterates
        <4> QED
            BY <1>4, <3>2, <4>1, <4>2
      <3> QED
          BY <3>1, <3>2
    <2>2. f = [k \in 0 .. n |-> f[k]]
        OBVIOUS
    <2> QED
        BY <2>1, <2>2
  <1> DEFINE h == CHOOSE h : Rec(h)
  <1>8. Rec(h)
      BY <1>7
  <1> HIDE DEF h, g
  <1>9. h[0] = vfs_root /\ \A k \in 1 .. n : h[k] = Step(h[k - 1], k)
      BY <1>1, <1>8
  <1>10. \A k \in 0 .. n : h[k] \in T
    <2>1. h[0] \in T /\ \A k \in 1 .. n : h[k - 1] \in T => h[k] \in T
        BY <1>3, <1>5, <1>9
    <2> QED
        BY <1>1, <2>1, Iterated
  <1>11. Follows(ns, path, n, h)
      BY <1>9, <1>10 DEF Follows, Step, T
  <1>12. resolve(ns, path) = IF path.absolute THEN h[n] ELSE NULL
      BY <1>2 DEF h
  <1> QED
      BY <1>11, <1>12 DEF n

(* resolve returns NULL or a node.                                         *)
LEMMA ResolveType ==
  ASSUME NEW ns, NodesOK(ns), vfs_root \in 0 .. Len(ns), NEW path, PathOK(path)
  PROVE  resolve(ns, path) \in 0 .. Len(ns)
  <1>1. PICK w : /\ Follows(ns, path, PathLen(path), w)
                 /\ resolve(ns, path) = IF path.absolute THEN w[PathLen(path)] ELSE NULL
      BY ResolveIs, Zenon
  <1>2. Len(path.names) \in Nat /\ PathLen(path) \in 0 .. Len(path.names)
    <2>1. Len(path.names) \in Nat
        BY DEF PathOK
    <2> QED
        BY <2>1, PathLenType
  <1>3. Len(ns) \in Nat
      BY DEF NodesOK
  <1> QED
      BY <1>1, <1>2, <1>3 DEF Follows, NULL

(* The entry that finddir returns is the first of that name.               *)
LEMMA FirstFound ==
  ASSUME NEW ns, NodesOK(ns), NEW d \in 1 .. Len(ns), ns[d].kind = "dir", NEW name,
         NEW k \in DOMAIN ns[d].entries, ns[ns[d].entries[k]].name = name,
         \A j \in 1 .. k - 1 : ns[ns[d].entries[j]].name # name
  PROVE  vfs_finddir(ns, d, name) = ns[d].entries[k]
  <1>1. d # NULL /\ ns[d] \in Nodes /\ ns[d].entries \in Seq(Nat)
    <2>1. ns[d] \in Nodes
        BY DEF NodesOK
    <2> QED
        BY <2>1, NodeKinds DEF NULL
  <1>2. vfs_finddir(ns, d, name) = tmpfs_finddir(ns, d, name)
      BY <1>1 DEF vfs_finddir
  <1>3. PICK i \in DOMAIN ns[d].entries :
              /\ tmpfs_finddir(ns, d, name) = ns[d].entries[i]
              /\ ns[ns[d].entries[i]].name = name
              /\ \A j \in DOMAIN ns[d].entries : ns[ns[d].entries[j]].name = name => i <= j
      BY FindDir, SMTT(30)
  <1>4. i \in Nat \ {0} /\ k \in Nat \ {0} /\ i <= k
      BY <1>1, <1>3
  <1>5. i \notin 1 .. k - 1
      BY <1>3
  <1>6. i = k
      BY <1>4, <1>5
  <1> QED
      BY <1>2, <1>3, <1>6

(* The walks along the path of the host name.                              *)
LEMMA HostnameWalk ==
  ASSUME NEW ns, NodesOK(ns), vfs_root \in 0 .. Len(ns)
  PROVE  resolve(ns, HostnamePath) = vfs_finddir(ns, vfs_finddir(ns, vfs_root, "etc"), "hostname")
  <1>1. PICK w : /\ Follows(ns, HostnamePath, PathLen(HostnamePath), w)
                 /\ resolve(ns, HostnamePath) =
                        IF HostnamePath.absolute THEN w[PathLen(HostnamePath)] ELSE NULL
      BY ResolveIs, PathsOK, Zenon
  <1>2. /\ HostnamePath.absolute /\ Len(HostnamePath.names) = 2 /\ DOMAIN HostnamePath.names = 1 .. 2
        /\ HostnamePath.names[1] = "etc" /\ HostnamePath.names[2] = "hostname"
      BY DEF HostnamePath, Path
  <1>4. PathLen(HostnamePath) = 2
      BY <1>2 DEF PathLen
  <1>5. w[2] = vfs_finddir(ns, w[1], "hostname") /\ w[1] = vfs_finddir(ns, w[0], "etc")
      BY <1>1, <1>2, <1>4 DEF Follows
  <1>6. w[0] = vfs_root
      BY <1>1 DEF Follows
  <1> QED
      BY <1>1, <1>2, <1>4, <1>5, <1>6

-----------------------------------------------------------------------------
(* What kmain puts into the root: /etc is the third entry and node 4.      *)
RootOK(ns) ==
    /\ Len(ns) >= 4 /\ ns[1].kind = "dir" /\ ns[4].kind = "dir"
    /\ Len(ns[1].entries) >= 3
    /\ ns[1].entries[1] = 2 /\ ns[1].entries[2] = 3 /\ ns[1].entries[3] = 4
    /\ ns[2].name = "dev" /\ ns[3].name = "tmp" /\ ns[4].name = "etc"

(* /etc is found at the node kmain made for it.                            *)
LEMMA EtcFound ==
  ASSUME NEW ns, NodesOK(ns), RootOK(ns)
  PROVE  vfs_finddir(ns, 1, "etc") = 4
  <1>1. ns \in Seq(Nodes) /\ Len(ns) \in Nat /\ 1 \in 1 .. Len(ns)
      BY DEF NodesOK, RootOK
  <1>2. ns[1].kind = "dir" /\ ns[1] \in Nodes
      BY <1>1 DEF RootOK
  <1>3. ns[1].entries \in Seq(Nat)
      BY <1>2, NodeKinds
  <1>4. 3 \in DOMAIN ns[1].entries /\ ns[1].entries[3] = 4 /\ ns[4].name = "etc"
      BY <1>3 DEF RootOK
  <1>5. \A j \in 1 .. 3 - 1 : ns[ns[1].entries[j]].name # "etc"
      BY DEF RootOK
  <1> QED
      BY <1>1, <1>2, <1>4, <1>5, FirstFound

(* A new node leaves what is in the root as it was.                        *)
LEMMA RootKept ==
  ASSUME NEW ns, NodesOK(ns), RootOK(ns), NEW p \in 1 .. Len(ns), ns[p].kind = "dir",
         NEW new, Fresh(new), NEW ms, Grown(ms, ns, p, new)
  PROVE  /\ RootOK(ms)
         /\ p = 4 => ms[4].entries = Append(ns[4].entries, Len(ns) + 1)
         /\ p # 4 => ms[4].entries = ns[4].entries
  <1>1. /\ ns \in Seq(Nodes) /\ Len(ns) \in Nat /\ Len(ns) >= 4
        /\ Len(ms) = Len(ns) + 1
        /\ ms[p] \in DirNodes /\ ms[p].name = ns[p].name
        /\ ms[p].entries = Append(ns[p].entries, Len(ns) + 1)
        /\ \A d \in 1 .. Len(ns) : d # p => ms[d] = ns[d]
      BY DEF NodesOK, RootOK, Grown
  <1>2. ns[p] \in Nodes /\ ns[p].entries \in Seq(Nat)
      BY <1>1, NodeKinds
  <1>3. ms[p].kind = "dir"
      BY <1>1 DEF DirNodes
  <1>4. \A d \in 1 .. 4 : ms[d].name = ns[d].name /\ (ns[d].kind = "dir" => ms[d].kind = "dir")
      BY <1>1, <1>3
  <1>5. /\ Len(ms[1].entries) >= 3 /\ ms[1].entries[1] = 2
        /\ ms[1].entries[2] = 3 /\ ms[1].entries[3] = 4
    <2>1. CASE p = 1
      <3> DEFINE e == ns[1].entries
                 f == ms[1].entries
      <3>1. e \in Seq(Nat) /\ f = Append(e, Len(ns) + 1) /\ Len(e) >= 3
          BY <1>1, <1>2, <2>1 DEF RootOK
      <3>2. Len(ns) + 1 \in Nat
          BY <1>1
      <3>3. Len(f) = Len(e) + 1 /\ Len(e) \in Nat /\ \A k \in 1 .. Len(e) : f[k] = e[k]
        <4> HIDE DEF e, f
        <4> QED
            BY ONLY <3>1, <3>2
      <3>4. e[1] = 2 /\ e[2] = 3 /\ e[3] = 4
          BY DEF RootOK
      <3>5. Len(f) >= 3 /\ f[1] = 2 /\ f[2] = 3 /\ f[3] = 4
        <4> HIDE DEF e, f
        <4> QED
            BY ONLY <3>1, <3>3, <3>4
      <3> QED
          BY <3>5
    <2>2. CASE p # 1
      <3>1. ms[1] = ns[1]
          BY <1>1, <2>2
      <3> QED
          BY <3>1 DEF RootOK
    <2> QED
        BY <2>1, <2>2
  <1>6. RootOK(ms)
      BY <1>1, <1>4, <1>5 DEF RootOK
  <1>7. /\ p = 4 => ms[4].entries = Append(ns[4].entries, Len(ns) + 1)
        /\ p # 4 => ms[4].entries = ns[4].entries
    <2>1. CASE p = 4
        BY <1>1, <2>1
    <2>2. CASE p # 4
      <3>1. 4 \in 1 .. Len(ns)
          BY <1>1
      <3>2. ms[4] = ns[4]
          BY <1>1, <2>2, <3>1
      <3> QED
          BY <2>2, <3>2
    <2> QED
        BY <2>1, <2>2
  <1> QED
      BY <1>6, <1>7

(* tmpfs_mkdir and tmpfs_mkfile.                                           *)
LEMMA Makes ==
  ASSUME NEW ns, NEW roots, Tree(ns, roots), NEW p \in 1 .. Len(ns), ns[p].kind = "dir",
         NEW name \in Names
  PROVE  /\ Tree(tmpfs_mkdir(ns, p, name), roots)
         /\ Grown(tmpfs_mkdir(ns, p, name), ns, p, Dir(name))
         /\ \A data \in Seq(Data) : /\ Tree(tmpfs_mkfile(ns, p, name, data), roots)
                                    /\ Grown(tmpfs_mkfile(ns, p, name, data), ns, p, File(name, data))
  <1>1. Tree(AddTo(ns, p, Dir(name)), roots) /\ Grown(AddTo(ns, p, Dir(name)), ns, p, Dir(name))
    <2>1. Fresh(Dir(name))
        BY FreshNodes
    <2> QED
        BY <2>1, TreeGrows, Zenon
  <1>2. ASSUME NEW data \in Seq(Data)
        PROVE  /\ Tree(AddTo(ns, p, File(name, data)), roots)
               /\ Grown(AddTo(ns, p, File(name, data)), ns, p, File(name, data))
    <2>1. Fresh(File(name, data))
        BY FreshNodes
    <2> QED
        BY <2>1, TreeGrows, Zenon
  <1> QED
      BY <1>1, <1>2, Zenon DEF tmpfs_mkdir, tmpfs_mkfile

(* Where the new node is.                                                  *)
Placed(ms, ns, p, new) ==
    /\ Len(ns) \in Nat /\ Len(ms) = Len(ns) + 1 /\ ms[Len(ns) + 1] = new
    /\ \A d \in 1 .. Len(ns) : (ns[d].kind = "dir" => ms[d].kind = "dir") /\ (d # p => ms[d] = ns[d])
    /\ ns[p].entries \in Seq(Nat) /\ ms[p].entries = Append(ns[p].entries, Len(ns) + 1)

(* The nodes after one was added, place by place.                          *)
LEMMA GrownAt ==
  ASSUME NEW ns, NEW roots, Tree(ns, roots), NEW p \in 1 .. Len(ns), ns[p].kind = "dir",
         NEW new, NEW ms, Grown(ms, ns, p, new)
  PROVE  Placed(ms, ns, p, new)
  <1>1. ns \in Seq(Nodes) /\ ns[p] \in Nodes
      BY DEF Tree, NodesOK
  <1>2. ms[p].kind = "dir"
      BY DEF Grown, DirNodes
  <1> QED
      BY <1>1, <1>2, NodeKinds DEF Grown, Placed

(* The texts of files are bytes.                                           *)
LEMMA TextTypes ==
  /\ VersionText \in Seq(Data) /\ OsReleaseText \in Seq(Data) /\ DefaultHostname \in Seq(Data)
  /\ Hostnames \subseteq Seq(Data) /\ Seq(Bytes) \subseteq Seq(Data)
  <1>1. ASSUME NEW s \in Seq(Bytes) PROVE s \in Seq(Data)
    <2>1. Len(s) \in Nat /\ \A k \in 1 .. Len(s) : s[k] \in Data
        BY DEF Data
    <2> QED
        BY <2>1
  <1> QED
      BY <1>1, VfsAssumption

(* The root file system that kmain makes.                                  *)
BootNodes ==
    LET n1 == tmpfs_create(<<>>, "root")
        n2 == tmpfs_mkdir(n1, 1, "dev")
        n3 == tmpfs_mkdir(n2, 1, "tmp")
        n4 == tmpfs_mkdir(n3, 1, "etc")
        n5 == tmpfs_mkdir(n4, 1, "boot")
    IN  tmpfs_mkfile(n5, 1, "version", VersionText)

(* The root file system is a tree, with an empty /etc.                     *)
LEMMA BootTree == /\ Tree(BootNodes, {1}) /\ RootOK(BootNodes) /\ BootNodes[4].entries = <<>>
                  /\ Len(BootNodes) = 6
  <1> DEFINE n1 == tmpfs_create(<<>>, "root")
             n2 == tmpfs_mkdir(n1, 1, "dev")
             n3 == tmpfs_mkdir(n2, 1, "tmp")
             n4 == tmpfs_mkdir(n3, 1, "etc")
             n5 == tmpfs_mkdir(n4, 1, "boot")
             n6 == tmpfs_mkfile(n5, 1, "version", VersionText)
  <1>0. BootNodes = n6
      BY Zenon DEF BootNodes
  <1>01. {"root", "dev", "tmp", "etc", "boot", "version"} \subseteq Names /\ VersionText \in Seq(Data)
      BY TextTypes DEF Names
  <1>02. \A name \in Names : Fresh(Dir(name)) /\ Dir(name).kind = "dir" /\ Dir(name).name = name
                             /\ Dir(name).entries = <<>>
      BY FreshNodes DEF Fresh
  <1>1. Tree(n1, {1}) /\ Len(n1) = 1 /\ n1[1] = Dir("root")
    <2>1. PICK e, none : e = <<>> /\ none = {}
        OBVIOUS
    <2>2. Tree(e, none) /\ n1 = Append(e, Dir("root")) /\ Len(e) = 0 /\ "root" \in Names
        BY <1>01, <2>1, NoTree DEF tmpfs_create
    <2> HIDE DEF n1
    <2>3. Tree(n1, none \cup {Len(e) + 1}) /\ Len(n1) = Len(e) + 1 /\ n1[Len(e) + 1] = Dir("root")
      <3>1. Planted(n1, e, none, "root")
          BY <2>2, TreeRoot
      <3> QED
          BY <3>1 DEF Planted
    <2>4. none \cup {Len(e) + 1} = {1} /\ Len(e) + 1 = 1
        BY <2>1, <2>2
    <2> QED
        BY <2>3, <2>4
  <1> HIDE DEF n1
  <1>2. Tree(n2, {1}) /\ Grown(n2, n1, 1, Dir("dev")) /\ n1[1].kind = "dir" /\ 1 \in 1 .. Len(n1)
        /\ n1[1].entries = <<>>
    <2>1. n1[1].kind = "dir" /\ 1 \in 1 .. Len(n1) /\ n1[1].entries = <<>>
        BY <1>01, <1>02, <1>1
    <2> QED
        BY <1>01, <1>1, <2>1, Makes, Zenon
  <1> HIDE DEF n2
  <1>21. Len(n2) = 2 /\ n2[2] = Dir("dev") /\ n2[1].kind = "dir" /\ Len(n2[1].entries) = 1
         /\ n2[1].entries[1] = 2
    <2>1. Placed(n2, n1, 1, Dir("dev"))
        BY <1>1, <1>2, GrownAt, Zenon
    <2> QED
        BY <1>1, <1>2, <2>1 DEF Placed
  <1>3. Tree(n3, {1}) /\ Grown(n3, n2, 1, Dir("tmp")) /\ 1 \in 1 .. Len(n2)
    <2>1. 1 \in 1 .. Len(n2)
        BY <1>21
    <2> QED
        BY <1>01, <1>2, <1>21, <2>1, Makes, Zenon
  <1> HIDE DEF n3
  <1>31. Len(n3) = 3 /\ n3[2] = Dir("dev") /\ n3[3] = Dir("tmp") /\ n3[1].kind = "dir"
         /\ Len(n3[1].entries) = 2 /\ n3[1].entries[1] = 2 /\ n3[1].entries[2] = 3
    <2>1. Placed(n3, n2, 1, Dir("tmp"))
        BY <1>2, <1>21, <1>3, GrownAt, Zenon
    <2> QED
        BY <1>21, <1>3, <2>1, SMTT(30) DEF Placed
  <1>4. Tree(n4, {1}) /\ Grown(n4, n3, 1, Dir("etc")) /\ 1 \in 1 .. Len(n3)
    <2>1. 1 \in 1 .. Len(n3)
        BY <1>31
    <2> QED
        BY <1>01, <1>3, <1>31, <2>1, Makes, Zenon
  <1> HIDE DEF n4
  <1>41. Len(n4) = 4 /\ n4[2] = Dir("dev") /\ n4[3] = Dir("tmp") /\ n4[4] = Dir("etc")
         /\ n4[1].kind = "dir" /\ Len(n4[1].entries) = 3
         /\ n4[1].entries[1] = 2 /\ n4[1].entries[2] = 3 /\ n4[1].entries[3] = 4
    <2>1. Placed(n4, n3, 1, Dir("etc"))
        BY <1>3, <1>31, <1>4, GrownAt, Zenon
    <2> QED
        BY <1>31, <1>4, <2>1, SMTT(30) DEF Placed
  <1>42. RootOK(n4) /\ n4[4].entries = <<>> /\ 1 \in 1 .. Len(n4)
      BY <1>01, <1>02, <1>41 DEF RootOK
  <1>5. Tree(n5, {1}) /\ Grown(n5, n4, 1, Dir("boot"))
      BY <1>01, <1>4, <1>41, <1>42, Makes, Zenon
  <1> HIDE DEF n5
  <1>51. Len(n5) = 5 /\ n5[1].kind = "dir" /\ RootOK(n5) /\ n5[4].entries = <<>> /\ 1 \in 1 .. Len(n5)
    <2>1. Len(n5) = 5 /\ n5[1].kind = "dir"
      <3>1. Placed(n5, n4, 1, Dir("boot"))
          BY <1>4, <1>41, <1>42, <1>5, GrownAt, Zenon
      <3> QED
          BY <1>41, <1>42, <3>1 DEF Placed
    <2>3. Fresh(Dir("boot"))
        BY <1>01, <1>02
    <2>2. RootOK(n5) /\ (1 # 4 => n5[4].entries = n4[4].entries)
        BY <1>4, <1>41, <1>42, <1>5, <2>3, RootKept, Zenon DEF Tree
    <2> QED
        BY <1>42, <2>1, <2>2
  <1>6. Tree(n6, {1}) /\ Grown(n6, n5, 1, File("version", VersionText))
      BY <1>01, <1>5, <1>51, Makes, Zenon
  <1> HIDE DEF n6
  <1>61. Len(n6) = 6 /\ RootOK(n6) /\ n6[4].entries = <<>>
    <2>1. Len(n6) = 6
      <3>1. Placed(n6, n5, 1, File("version", VersionText))
          BY <1>5, <1>51, <1>6, GrownAt, Zenon
      <3> QED
          BY <1>51, <3>1 DEF Placed
    <2>2. Fresh(File("version", VersionText))
        BY <1>01, FreshNodes
    <2>3. RootOK(n6) /\ (1 # 4 => n6[4].entries = n5[4].entries)
        BY <1>5, <1>51, <1>6, <2>2, RootKept, Zenon DEF Tree
    <2> QED
        BY <1>51, <2>1, <2>3
  <1> QED
      BY <1>0, <1>6, <1>61

(* The file of the host name: the first entry of /etc.                     *)
HostAt(ns) ==
    /\ Len(ns[4].entries) >= 1 /\ ns[4].entries[1] \in 1 .. Len(ns)
    /\ ns[ns[4].entries[1]].kind = "file" /\ ns[ns[4].entries[1]].name = "hostname"
HostIs(ns, data) == HostAt(ns) /\ ns[ns[4].entries[1]].data = data

(* After setup the trees are whole, and /etc holds the name that was       *)
(* given.                                                                  *)
LEMMA SetupTree ==
  ASSUME NEW ns, NEW roots, Tree(ns, roots), RootOK(ns), ns[4].entries = <<>>,
         NEW name \in Seq(Data)
  PROVE  /\ Tree(SetupFiles(ns, 1, name), roots)
         /\ RootOK(SetupFiles(ns, 1, name))
         /\ HostIs(SetupFiles(ns, 1, name), name)
  <1> DEFINE n2 == tmpfs_mkdir(ns, 1, "home")
             n3 == tmpfs_mkdir(n2, 1, "proc")
             n4 == tmpfs_mkfile(n3, 4, "hostname", name)
             n5 == tmpfs_mkfile(n4, 4, "os-release", OsReleaseText)
  <1>1. NodesOK(ns) /\ Len(ns) \in Nat /\ Len(ns) >= 4 /\ 1 \in 1 .. Len(ns) /\ ns[1].kind = "dir"
      BY DEF Tree, NodesOK, RootOK
  <1>2. vfs_finddir(ns, 1, "etc") = 4 /\ 4 # NULL
      BY <1>1, EtcFound DEF NULL
  <1>3. SetupFiles(ns, 1, name) = n5
      BY <1>2, Zenon DEF SetupFiles
  <1>4. /\ {"home", "proc", "hostname", "os-release"} \subseteq Names
        /\ OsReleaseText \in Seq(Data)
        /\ Fresh(Dir("home")) /\ Fresh(Dir("proc")) /\ Fresh(File("hostname", name))
        /\ Fresh(File("os-release", OsReleaseText))
        /\ File("hostname", name).kind = "file" /\ File("hostname", name).name = "hostname"
        /\ File("hostname", name).data = name
    <2>1. {"home", "proc", "hostname", "os-release"} \subseteq Names /\ OsReleaseText \in Seq(Data)
        BY TextTypes DEF Names
    <2> QED
        BY <2>1, FreshNodes
  <1>5. Tree(n2, roots) /\ Grown(n2, ns, 1, Dir("home"))
      BY <1>1, <1>4, Makes
  <1> HIDE DEF n2
  <1>6. /\ Len(n2) = Len(ns) + 1 /\ RootOK(n2) /\ n2[4].entries = <<>> /\ NodesOK(n2)
        /\ 1 \in 1 .. Len(n2) /\ n2[1].kind = "dir"
    <2>1. RootOK(n2) /\ (1 # 4 => n2[4].entries = ns[4].entries)
        BY <1>1, <1>4, <1>5, RootKept, Zenon
    <2> QED
        BY <1>1, <1>5, <2>1 DEF Grown, RootOK, Tree
  <1>7. Tree(n3, roots) /\ Grown(n3, n2, 1, Dir("proc"))
      BY <1>4, <1>5, <1>6, Makes
  <1> HIDE DEF n3
  <1>8. /\ Len(n3) = Len(ns) + 2 /\ RootOK(n3) /\ n3[4].entries = <<>> /\ NodesOK(n3)
        /\ 4 \in 1 .. Len(n3) /\ n3[4].kind = "dir"
    <2>1. RootOK(n3) /\ (1 # 4 => n3[4].entries = n2[4].entries)
        BY <1>4, <1>6, <1>7, RootKept, Zenon
    <2> QED
        BY <1>1, <1>6, <1>7, <2>1 DEF Grown, RootOK, Tree
  <1>9. Tree(n4, roots) /\ Grown(n4, n3, 4, File("hostname", name))
      BY <1>4, <1>7, <1>8, Makes
  <1> HIDE DEF n4
  <1> DEFINE h == Len(ns) + 3
  <1>10. /\ Len(n4) = h /\ RootOK(n4) /\ n4[4].entries = Append(<<>>, h) /\ NodesOK(n4)
         /\ 4 \in 1 .. Len(n4) /\ n4[4].kind = "dir" /\ n4[h] = File("hostname", name)
    <2>1. RootOK(n4) /\ (4 = 4 => n4[4].entries = Append(n3[4].entries, Len(n3) + 1))
        BY <1>4, <1>8, <1>9, RootKept
    <2> QED
        BY <1>1, <1>8, <1>9, <2>1 DEF Grown, RootOK, Tree
  <1>11. Tree(n5, roots) /\ Grown(n5, n4, 4, File("os-release", OsReleaseText))
      BY <1>4, <1>9, <1>10, Makes
  <1> HIDE DEF n5
  <1>12. /\ Len(n5) = h + 1 /\ RootOK(n5) /\ n5[4].entries = Append(Append(<<>>, h), h + 1)
         /\ n5[h] = File("hostname", name)
    <2>1. RootOK(n5) /\ (4 = 4 => n5[4].entries = Append(n4[4].entries, Len(n4) + 1))
      <3> HIDE DEF h
      <3>1. /\ NodesOK(n4) /\ RootOK(n4) /\ 4 \in 1 .. Len(n4) /\ n4[4].kind = "dir"
            /\ Fresh(File("os-release", OsReleaseText))
          BY <1>4, <1>10
      <3> QED
          BY ONLY <1>11, <3>1, RootKept
    <2>2. Len(n5) = h + 1 /\ n5[h] = n4[h]
      <3>1. h \in 1 .. Len(n4) /\ h # 4
          BY <1>1, <1>10
      <3> HIDE DEF h
      <3> QED
          BY <1>10, <1>11, <3>1 DEF Grown
    <2> QED
        BY <1>10, <2>1, <2>2
  <1>13. HostIs(n5, name)
    <2>1. h \in Nat /\ Len(n5[4].entries) = 2 /\ n5[4].entries[1] = h /\ h \in 1 .. Len(n5)
      <3>1. h \in Nat /\ h \in 1 .. h + 1
          BY <1>1
      <3> HIDE DEF h
      <3>2. Append(<<>>, h) \in Seq(Nat) /\ Len(Append(<<>>, h)) = 1 /\ Append(<<>>, h)[1] = h
          BY <3>1
      <3> QED
          BY <1>12, <3>1, <3>2
    <2> HIDE DEF h
    <2> QED
        BY <1>4, <1>12, <2>1 DEF HostIs, HostAt
  <1> QED
      BY <1>3, <1>11, <1>12, <1>13

(* The path of the host name leads to the first file of /etc.              *)
LEMMA HostFound ==
  ASSUME NEW ns, NodesOK(ns), RootOK(ns), HostAt(ns), vfs_root = 1
  PROVE  resolve(ns, HostnamePath) = ns[4].entries[1]
  <1>1. ns \in Seq(Nodes) /\ Len(ns) \in Nat /\ 4 \in 1 .. Len(ns) /\ vfs_root \in 0 .. Len(ns)
        /\ ns[4].kind = "dir"
      BY DEF NodesOK, RootOK
  <1>2. resolve(ns, HostnamePath) = vfs_finddir(ns, 4, "hostname")
      BY <1>1, HostnameWalk, EtcFound
  <1>3. ns[4] \in Nodes
      BY <1>1
  <1>4. ns[4].entries \in Seq(Nat)
      BY <1>1, <1>3, NodeKinds
  <1>5. 1 \in DOMAIN ns[4].entries /\ ns[ns[4].entries[1]].name = "hostname"
      BY <1>4 DEF HostAt
  <1>6. \A j \in 1 .. 1 - 1 : ns[ns[4].entries[j]].name # "hostname"
      OBVIOUS
  <1>7. vfs_finddir(ns, 4, "hostname") = ns[4].entries[1]
      BY <1>1, <1>5, <1>6, FirstFound
  <1> QED
      BY <1>2, <1>7

(* It leads nowhere while /etc is empty.                                   *)
LEMMA NoHost ==
  ASSUME NEW ns, NodesOK(ns), RootOK(ns), ns[4].entries = <<>>, vfs_root = 1
  PROVE  resolve(ns, HostnamePath) = NULL
  <1>1. ns \in Seq(Nodes) /\ Len(ns) \in Nat /\ 4 \in 1 .. Len(ns) /\ vfs_root \in 0 .. Len(ns)
        /\ ns[4].kind = "dir"
      BY DEF NodesOK, RootOK
  <1>2. resolve(ns, HostnamePath) = vfs_finddir(ns, 4, "hostname")
      BY <1>1, HostnameWalk, EtcFound
  <1>3. \A k \in Nat : ~ \E m : IsEntry(ns, 4, k, m)
      BY DEF IsEntry
  <1> QED
      BY <1>1, <1>2, <1>3, FindIs DEF Leads

(* Only a path through /etc leads to the file of the host name: its only   *)
(* directory is /etc, whose only directory is the root.                    *)
LEMMA NotTheHost ==
  ASSUME NEW ns, NEW roots, Tree(ns, roots), 1 \in roots, RootOK(ns), HostAt(ns), vfs_root = 1,
         NEW path, PathOK(path), path.names = <<>> \/ path.names[1] # "etc"
  PROVE  resolve(ns, path) # ns[4].entries[1]
  <1> SUFFICES ASSUME resolve(ns, path) = ns[4].entries[1] PROVE FALSE
      OBVIOUS
  <1> DEFINE h == ns[4].entries[1]
             n == PathLen(path)
  <1>1. /\ NodesOK(ns) /\ Len(ns) \in Nat /\ Len(ns) >= 4 /\ vfs_root \in 0 .. Len(ns)
        /\ h \in 1 .. Len(ns) /\ ns[h].kind = "file" /\ ns[1].kind = "dir" /\ ns[4].kind = "dir"
      BY DEF Tree, NodesOK, RootOK, HostAt
  <1>2. PICK w : /\ Follows(ns, path, n, w)
                 /\ resolve(ns, path) = IF path.absolute THEN w[n] ELSE NULL
      BY <1>1, ResolveIs, Zenon
  <1>3. n \in Nat /\ n <= Len(path.names) /\ Len(path.names) \in Nat
      BY PathLenType DEF PathOK
  <1>4. IsEntry(ns, 4, 1, h) /\ IsEntry(ns, 1, 3, 4)
    <2>1. ns[1] \in Nodes /\ ns[4] \in Nodes
        BY <1>1 DEF NodesOK
    <2>2. ns[1].entries \in Seq(Nat) /\ ns[4].entries \in Seq(Nat)
        BY <1>1, <2>1, NodeKinds
    <2> QED
        BY <1>1, <2>2, SMTT(30) DEF IsEntry, RootOK, HostAt
  <1> HIDE DEF h, n
  <1>5. ASSUME NEW k \in 1 .. n, w[k] # NULL
        PROVE  Leads(ns, w[k - 1], path.names[k], w[k])
    <2>1. w[k] = vfs_finddir(ns, w[k - 1], path.names[k]) /\ w[k - 1] \in 0 .. Len(ns)
        BY <1>2, <1>3 DEF Follows
    <2> QED
        BY <1>1, <1>5, <2>1, FindIs
  <1>6. w[n] = h /\ w[0] = 1
      BY <1>1, <1>2 DEF NULL, Follows, h
  <1>7. n # 0
      BY <1>1, <1>6
  <1>8. w[n - 1] = 4
    <2>1. Leads(ns, w[n - 1], path.names[n], h)
        BY <1>1, <1>3, <1>5, <1>6, <1>7 DEF NULL
    <2>2. PICK k \in Nat : IsEntry(ns, w[n - 1], k, h)
        BY <2>1 DEF Leads
    <2>3. w[n - 1] \in 1 .. Len(ns) /\ 4 \in 1 .. Len(ns) /\ 1 \in Nat
        BY <1>1, <2>1 DEF Leads
    <2> QED
        BY <1>1, <1>4, <2>2, <2>3 DEF Tree, Once
  <1>9. n - 1 # 0
      BY <1>6, <1>8
  <1>10. Leads(ns, w[n - 2], path.names[n - 1], 4)
    <2>1. n - 1 \in 1 .. n /\ (n - 1) - 1 = n - 2
        BY <1>3, <1>7, <1>9
    <2> QED
        BY <1>5, <1>8, <2>1 DEF NULL
  <1>11. w[n - 2] = 1
    <2>1. PICK k \in Nat : IsEntry(ns, w[n - 2], k, 4)
        BY <1>10 DEF Leads
    <2>2. w[n - 2] \in 1 .. Len(ns) /\ 4 \in 1 .. Len(ns) /\ 1 \in 1 .. Len(ns) /\ 3 \in Nat
        BY <1>1, <1>10 DEF Leads
    <2> QED
        BY <1>4, <2>1, <2>2 DEF Tree, Once
  <1>12. n - 2 = 0
    <2> SUFFICES ASSUME n - 2 # 0 PROVE FALSE
        OBVIOUS
    <2>1. n - 2 \in 1 .. n
        BY <1>3, <1>7, <1>9
    <2>2. Leads(ns, w[(n - 2) - 1], path.names[n - 2], 1)
        BY <1>5, <1>11, <2>1 DEF NULL
    <2>3. PICK k \in Nat : IsEntry(ns, w[(n - 2) - 1], k, 1)
        BY <2>2 DEF Leads
    <2>4. w[(n - 2) - 1] \in 1 .. Len(ns) /\ 1 \in 1 .. Len(ns)
        BY <2>2 DEF Leads
    <2> QED
        BY <2>3, <2>4 DEF Tree, Rooted
  <1>13. n = 2 /\ path.names # <<>>
      BY <1>3, <1>12
  <1>14. path.names[1] = "etc"
    <2>1. n - 1 = 1
        BY <1>13
    <2> QED
        BY <1>10, <2>1 DEF Leads, RootOK
  <1> QED
      BY <1>13, <1>14

-----------------------------------------------------------------------------
(* No write goes to /etc.                                                  *)
WritesElsewhere == \A path \in WritePaths : path.names = <<>> \/ path.names[1] # "etc"

Starting == {"boot", "mount", "setup"}

FsInv ==
    /\ pc \in Starting \cup {"idle", "ls", "listed", "cat", "printed", "wild"}
    /\ pc = "boot" => node = <<>> /\ mounts = <<>> /\ vfs_root = NULL
    /\ pc = "mount" => mounts \in Seq([path : {Path(<<>>)}, root : {1}]) /\ Len(mounts) = 1
    /\ pc # "boot" => Tree(node, Roots) /\ RootOK(node) /\ vfs_root = 1 /\ 1 \in Roots
    /\ pc \in {"mount", "setup"} => node[4].entries = <<>>
    /\ pc \notin Starting => HostAt(node) /\ (WritesElsewhere => HostIs(node, hostname))

(* How far ls and cat are.                                                 *)
Listing(x) == IF x.kind = "dir" THEN x.entries ELSE <<>>

(* cat is at place n, the start of a chunk or the end, with the bytes      *)
(* before it shown.                                                        *)
CatAt(data, n, places) ==
    /\ n \in 0 .. Len(data)
    /\ n = Len(data) \/ \E q \in Nat : n = q * CHUNK
    /\ places \in Seq(1 .. n)
    /\ InOrder(places, Visible(data, n))

CmdInv ==
    /\ pc \in {"ls", "listed", "cat", "printed"} => file \in 1 .. Len(node)
    /\ pc \in {"cat", "printed"} => node[file].kind = "file"
    /\ pc = "ls" => at \in 0 .. Len(Listing(node[file])) /\ shown = SubSeq(Listing(node[file]), 1, at)
    /\ pc = "cat" => CatAt(node[file].data, at, shown)
    /\ CommandShows

(* The roots after one more mount.                                         *)
LEMMA RootsAppend ==
  ASSUME NEW T, NEW ms \in Seq(T), NEW x
  PROVE  {Append(ms, x)[k].root : k \in DOMAIN Append(ms, x)}
            = {ms[k].root : k \in DOMAIN ms} \cup {x.root}
  <1> DEFINE n == Len(ms)
             a == Append(ms, x)
  <1>1. /\ n \in Nat /\ DOMAIN ms = 1 .. n /\ DOMAIN a = 1 .. n + 1 /\ a[n + 1] = x
        /\ \A k \in 1 .. n : a[k] = ms[k]
      OBVIOUS
  <1> HIDE DEF a, n
  <1>2. \A k \in 1 .. n + 1 : k \in 1 .. n \/ k = n + 1
      BY <1>1
  <1>3. n + 1 \in 1 .. n + 1 /\ \A k \in 1 .. n : k \in 1 .. n + 1
      BY <1>1
  <1>4. {a[k].root : k \in DOMAIN a} = {ms[k].root : k \in DOMAIN ms} \cup {x.root}
      BY <1>1, <1>2, <1>3
  <1> QED
      BY <1>4 DEF a

(* kmain makes the root file system.                                       *)
LEMMA BootStep ==
  ASSUME FsInv, BootFs
  PROVE  FsInv' /\ CmdInv'
  <1>1. /\ pc = "boot" /\ node' = BootNodes /\ vfs_mount(Path(<<>>), 1) /\ pc' = "mount"
      BY Zenon DEF BootFs, BootNodes
  <1>2. mounts = <<>> /\ vfs_root = NULL /\ Len(mounts) < MAX_MOUNTS /\ Len(mounts) = 0
      BY <1>1, VfsAssumption DEF FsInv
  <1> DEFINE m == [path |-> Path(<<>>), root |-> 1]
  <1>3. Path(<<>>).names = <<>>
      BY DEF Path
  <1>4. mounts' = Append(mounts, m) /\ vfs_root' = 1
      BY <1>1, <1>2, <1>3, VfsAssumption DEF vfs_mount
  <1>5. m \in [path : {Path(<<>>)}, root : {1}] /\ m.root = 1
      OBVIOUS
  <1> HIDE DEF m
  <1>6. /\ mounts' \in Seq([path : {Path(<<>>)}, root : {1}])
        /\ Len(mounts') = 1 /\ DOMAIN mounts' = 1 .. 1 /\ mounts'[1] = m
      BY <1>2, <1>4, <1>5
  <1>7. Roots' = {1}
      BY <1>5, <1>6 DEF Roots
  <1>8. Tree(node', Roots') /\ RootOK(node') /\ node'[4].entries = <<>> /\ 1 \in Roots'
      BY <1>1, <1>7, BootTree
  <1>9. FsInv'
      BY <1>1, <1>4, <1>6, <1>8 DEF FsInv, Starting
  <1> QED
      BY <1>1, <1>9 DEF CmdInv, CommandShows

(* kmain mounts the FAT32 volume, or cannot.                               *)
LEMMA MountStep ==
  ASSUME FsInv, MountData
  PROVE  FsInv' /\ CmdInv'
  <1>1. /\ pc = "mount" /\ pc' = "setup"
        /\ \/ UNCHANGED fsVars
           \/ node' = Append(node, Dir("fat32")) /\ vfs_mount(Path(<<"data">>), Len(node'))
      BY DEF MountData
  <1>2. /\ Tree(node, Roots) /\ RootOK(node) /\ vfs_root = 1 /\ 1 \in Roots
        /\ node[4].entries = <<>>
        /\ mounts \in Seq([path : {Path(<<>>)}, root : {1}]) /\ Len(mounts) = 1
      BY <1>1 DEF FsInv
  <1>3. Tree(node', Roots') /\ RootOK(node') /\ vfs_root' = 1 /\ 1 \in Roots' /\ node'[4].entries = <<>>
    <2>1. CASE UNCHANGED fsVars
        BY <1>2, <2>1 DEF fsVars, Roots
    <2>2. CASE node' = Append(node, Dir("fat32")) /\ vfs_mount(Path(<<"data">>), Len(node'))
      <3>1. Planted(node', node, Roots, "fat32")
        <4>1. "fat32" \in Names
            BY DEF Names
        <4> QED
            BY <1>2, <2>2, <4>1, TreeRoot
      <3>2. /\ Len(node) \in Nat /\ Len(node) >= 4 /\ Len(node') = Len(node) + 1
            /\ \A d \in 1 .. Len(node) : node'[d] = node[d]
          BY <1>2, <3>1 DEF Planted, Tree, NodesOK, RootOK
      <3> DEFINE m == [path |-> Path(<<"data">>), root |-> Len(node')]
      <3>3. mounts' = Append(mounts, m) /\ vfs_root' = 1
          BY <1>2, <2>2, VfsAssumption DEF vfs_mount, NULL
      <3>4. m.root = Len(node) + 1
          BY <3>2
      <3> HIDE DEF m
      <3>5. Roots' = Roots \cup {m.root}
        <4>1. {Append(mounts, m)[k].root : k \in DOMAIN Append(mounts, m)}
                 = {mounts[k].root : k \in DOMAIN mounts} \cup {m.root}
          <5> DEFINE T == [path : {Path(<<>>)}, root : {1}]
          <5>1. mounts \in Seq(T)
              BY <1>2
          <5> HIDE DEF T
          <5> QED
              BY ONLY <5>1, RootsAppend
        <4> QED
            BY <3>3, <4>1, Zenon DEF Roots
      <3>6. Tree(node', Roots') /\ 1 \in Roots'
          BY <1>2, <3>1, <3>4, <3>5 DEF Planted
      <3>7. node'[1] = node[1] /\ node'[2] = node[2] /\ node'[3] = node[3] /\ node'[4] = node[4]
          BY <3>2
      <3> QED
          BY <1>2, <3>2, <3>3, <3>6, <3>7 DEF RootOK
    <2> QED
        BY <1>1, <2>1, <2>2
  <1>4. FsInv'
      BY <1>1, <1>3 DEF FsInv, Starting
  <1> QED
      BY <1>1, <1>4 DEF CmdInv, CommandShows

(* setup_run finds that it is needed and makes its files.                  *)
LEMMA SetupStep ==
  ASSUME FsInv, NEW typed \in Hostnames, setup_run(typed)
  PROVE  FsInv' /\ CmdInv'
  <1>1. pc = "setup" /\ pc' = "idle" /\ UNCHANGED <<mounts, vfs_root>>
      BY DEF setup_run
  <1>2. /\ Tree(node, Roots) /\ RootOK(node) /\ vfs_root = 1 /\ 1 \in Roots
        /\ node[4].entries = <<>> /\ NodesOK(node)
      BY <1>1 DEF FsInv, Tree
  <1>3. setup_needed
      BY <1>2, NoHost DEF setup_needed
  <1>4. /\ hostname' \in Seq(Data)
        /\ node' = SetupFiles(node, 1, hostname')
    <2>1. hostname' = IF typed = <<>> THEN DefaultHostname ELSE typed
        BY <1>3 DEF setup_run
    <2>2. hostname' \in Seq(Data)
        BY <2>1, TextTypes
    <2> QED
        BY <1>2, <1>3, <2>2 DEF setup_run, NULL
  <1>5. Roots' = Roots
      BY <1>1 DEF Roots
  <1>6. Tree(node', Roots) /\ RootOK(node') /\ HostIs(node', hostname')
      BY <1>2, <1>4, SetupTree
  <1>7. FsInv'
      BY <1>1, <1>2, <1>5, <1>6 DEF FsInv, Starting, HostIs
  <1> QED
      BY <1>1, <1>7 DEF CmdInv, CommandShows

(* Going on from place a to place b.                                       *)
GoesOn(s, a, b, T) ==
    /\ SubSeq(s, 1, a) \o SubSeq(s, a + 1, b) = SubSeq(s, 1, b)
    /\ Len(SubSeq(s, a + 1, b)) = b - a
    /\ b = a + 1 => Append(SubSeq(s, 1, a), s[a + 1]) = SubSeq(s, 1, b)
    /\ SubSeq(s, 1, Len(s)) = s
    /\ SubSeq(s, 1, a) \in Seq(T) /\ Len(SubSeq(s, 1, a)) = a
    /\ SubSeq(s, 1, b) \in Seq(T) /\ Len(SubSeq(s, 1, b)) = b

(* The first a members, and those up to the b-th, are the first b.         *)
LEMMA SubSeqs ==
  ASSUME NEW T, NEW s \in Seq(T), NEW a \in 0 .. Len(s), NEW b \in a .. Len(s)
  PROVE  GoesOn(s, a, b, T)
  <1> DEFINE p == SubSeq(s, 1, a)
             q == SubSeq(s, a + 1, b)
             r == SubSeq(s, 1, b)
  <1>1. Len(s) \in Nat /\ a \in Nat /\ b \in Nat
      OBVIOUS
  <1>2. p \in Seq(T) /\ Len(p) = a /\ \A k \in 1 .. a : p[k] = s[k]
      BY <1>1
  <1>3. q \in Seq(T) /\ Len(q) = b - a /\ \A k \in 1 .. b - a : q[k] = s[k + a]
    <2>1. Len(q) = b - a
        BY <1>1
    <2>2. \A k \in 1 .. b - a : k + a \in 1 .. Len(s) /\ (a + 1) + k - 1 = k + a
        BY <1>1
    <2> QED
        BY <1>1, <2>1, <2>2
  <1>4. r \in Seq(T) /\ Len(r) = b /\ \A k \in 1 .. b : r[k] = s[k]
      BY <1>1
  <1>5. SubSeq(s, 1, Len(s)) = s
      OBVIOUS
  <1> HIDE DEF p, q, r
  <1>6. p \o q = r
    <2>1. Len(p \o q) = b /\ p \o q \in Seq(T)
        BY <1>1, <1>2, <1>3
    <2>2. ASSUME NEW k \in 1 .. b PROVE (p \o q)[k] = r[k]
      <3>1. CASE k <= a
        <4>1. k \in 1 .. a
            BY <1>1, <3>1
        <4>2. (p \o q)[k] = p[k]
            BY <1>1, <1>2, <1>3, <4>1
        <4> QED
            BY <1>2, <1>4, <4>1, <4>2
      <3>2. CASE k > a
        <4>1. k - a \in 1 .. b - a /\ (k - a) + a = k
            BY <1>1, <3>2
        <4>2. (p \o q)[k] = q[k - a]
            BY <1>1, <1>2, <1>3, <3>2
        <4> QED
            BY <1>3, <1>4, <4>1, <4>2
      <3>3. k <= a \/ k > a
          BY <1>1
      <3> QED
          BY <3>1, <3>2, <3>3
    <2> QED
        BY <1>4, <2>1, <2>2
  <1>7. ASSUME b = a + 1 PROVE Append(p, s[a + 1]) = r
    <2>1. a + 1 \in 1 .. Len(s) /\ s[a + 1] \in T
        BY <1>1, <1>7
    <2>2. Append(p, s[a + 1]) \in Seq(T) /\ Len(Append(p, s[a + 1])) = b
        BY <1>2, <1>7, <2>1
    <2>3. ASSUME NEW k \in 1 .. b PROVE Append(p, s[a + 1])[k] = r[k]
        BY <1>1, <1>2, <1>4, <1>7, <2>1
    <2> QED
        BY <1>4, <2>2, <2>3
  <1> QED
      BY <1>2, <1>3, <1>4, <1>5, <1>6, <1>7 DEF p, q, r, GoesOn

(* What the shell can reach in the file system, and what it shows of it.   *)
LEMMA FsTypes ==
  ASSUME FsInv, pc # "boot"
  PROVE  /\ node \in Seq(Nodes) /\ Len(node) \in Nat /\ NodesOK(node) /\ vfs_root \in 0 .. Len(node)
         /\ \A f \in 1 .. Len(node) :
               /\ node[f].kind \in {"dir", "file"} /\ node[f].name \in Names
               /\ node[f].kind = "file" => node[f].data \in Seq(Data)
               /\ Listing(node[f]) \in Seq(1 .. Len(node))
         /\ \A path : PathOK(path) => resolve(node, path) \in 0 .. Len(node)
  <1>1. Tree(node, Roots) /\ RootOK(node) /\ vfs_root = 1
      BY DEF FsInv
  <1>2. node \in Seq(Nodes) /\ Len(node) \in Nat /\ NodesOK(node) /\ vfs_root \in 0 .. Len(node)
      BY <1>1 DEF Tree, NodesOK, RootOK
  <1>3. ASSUME NEW f \in 1 .. Len(node)
        PROVE  /\ node[f].kind \in {"dir", "file"} /\ node[f].name \in Names
               /\ node[f].kind = "file" => node[f].data \in Seq(Data)
               /\ Listing(node[f]) \in Seq(1 .. Len(node))
    <2>1. node[f] \in Nodes /\ (node[f].kind = "dir" => DirOK(node, f))
        BY <1>2 DEF NodesOK
    <2>2. node[f].kind = "dir" => node[f].entries \in Seq(1 .. Len(node))
      <3> SUFFICES ASSUME node[f].kind = "dir" PROVE node[f].entries \in Seq(1 .. Len(node))
          OBVIOUS
      <3>1. node[f].entries \in Seq(Nat)
          BY <2>1, NodeKinds
      <3> QED
          BY <2>1, <3>1 DEF DirOK
    <2>3. <<>> \in Seq(1 .. Len(node))
        OBVIOUS
    <2> QED
        BY <2>1, <2>2, <2>3, NodeKinds DEF Listing
  <1>4. ASSUME NEW path, PathOK(path) PROVE resolve(node, path) \in 0 .. Len(node)
      BY <1>2, <1>4, ResolveType
  <1> QED
      BY <1>2, <1>3, <1>4

(* Steps that leave the file system as it is.                              *)
LEMMA FsUnchanged ==
  ASSUME FsInv, UNCHANGED <<fsVars, hostname>>, pc \notin Starting,
         pc' \in {"idle", "ls", "listed", "cat", "printed", "wild"}
  PROVE  FsInv'
  <1>1. node' = node /\ mounts' = mounts /\ vfs_root' = vfs_root /\ hostname' = hostname
      BY DEF fsVars
  <1>2. Roots' = Roots
      BY <1>1 DEF Roots
  <1>3. pc # "boot" /\ pc' \notin Starting /\ pc' # "boot" /\ pc' # "mount"
      BY DEF Starting
  <1>4. Tree(node', Roots') /\ RootOK(node') /\ vfs_root' = 1 /\ 1 \in Roots'
      BY <1>1, <1>2, <1>3 DEF FsInv
  <1>5. HostAt(node') /\ (WritesElsewhere => HostIs(node', hostname'))
      BY <1>1 DEF FsInv
  <1> QED
      BY <1>3, <1>4, <1>5 DEF FsInv, Starting

(* ls shows one entry more, or has shown all of them.                      *)
LEMMA LsStep ==
  ASSUME FsInv, CmdInv, LsEntry
  PROVE  /\ FsInv' /\ CmdInv' /\ pc = "ls"
         /\ shown' # shown => shown'[Len(shown')] \in 1 .. Len(node) /\ Len(shown') \in Nat
  <1> DEFINE e == vfs_readdir(node, file, at)
             s == Listing(node[file])
  <1>1. /\ pc = "ls" /\ UNCHANGED <<fsVars, file, hostname>>
        /\ e # NULL => shown' = Append(shown, e) /\ at' = at + 1 /\ pc' = "ls"
        /\ e = NULL => pc' = "listed" /\ shown' = shown
      BY DEF LsEntry
  <1>2. /\ file \in 1 .. Len(node) /\ at \in 0 .. Len(s) /\ shown = SubSeq(s, 1, at)
        /\ node[file].kind \in {"dir", "file"}
        /\ s \in Seq(1 .. Len(node)) /\ Len(s) \in Nat /\ Len(node) \in Nat /\ node' = node /\ file' = file
      BY <1>1, FsTypes DEF CmdInv, fsVars
  <1>3. FsInv'
      BY <1>1, FsUnchanged DEF Starting
  <1>4. e = IF at < Len(s) THEN s[at + 1] ELSE NULL
      BY <1>2 DEF vfs_readdir, tmpfs_readdir, Listing, NULL
  <1>5. CmdInv' /\ (shown' # shown => shown'[Len(shown')] \in 1 .. Len(node) /\ Len(shown') \in Nat)
    <2>1. CASE at < Len(s)
      <3>1. e = s[at + 1] /\ e \in 1 .. Len(node) /\ e # NULL /\ at + 1 \in at .. Len(s)
          BY <1>2, <1>4, <2>1, SMTT(30) DEF NULL
      <3> HIDE DEF e, s
      <3>2. Append(SubSeq(s, 1, at), s[at + 1]) = SubSeq(s, 1, at + 1) /\ Len(SubSeq(s, 1, at)) = at
            /\ SubSeq(s, 1, at) \in Seq(1 .. Len(node))
        <4>1. GoesOn(s, at, at + 1, 1 .. Len(node))
            BY <1>2, <3>1, SubSeqs, Zenon
        <4> QED
            BY <4>1 DEF GoesOn
      <3>3. at + 1 \in 0 .. Len(s)
          BY <1>2, <2>1
      <3>5. shown' = SubSeq(s, 1, at + 1) /\ at' = at + 1 /\ pc' = "ls"
          BY <1>1, <1>2, <3>1, <3>2
      <3>4. shown'[Len(shown')] = e /\ Len(shown') \in Nat
          BY <1>1, <1>2, <3>1, <3>2
      <3> QED
          BY <1>2, <3>1, <3>3, <3>4, <3>5 DEF CmdInv, CommandShows, s
    <2>2. CASE ~ (at < Len(s))
      <3>1. e = NULL /\ at = Len(s)
          BY <1>2, <1>4, <2>2
      <3> HIDE DEF e, s
      <3>2. shown = s
          BY <1>2, <3>1
      <3> QED
          BY <1>1, <1>2, <3>1, <3>2 DEF CmdInv, CommandShows, s, Listing
    <2> QED
        BY <2>1, <2>2
  <1> QED
      BY <1>1, <1>3, <1>5

(* The string in a sequence ends before its first 0.                       *)
LEMMA StrLen ==
  ASSUME NEW T, NEW s \in Seq(T)
  PROVE  /\ strlen(s) \in 0 .. Len(s) /\ \A k \in 1 .. strlen(s) : s[k] # NUL
         /\ strlen(s) < Len(s) => s[strlen(s) + 1] = NUL
  <1> DEFINE ends == {k \in DOMAIN s : s[k] = NUL}
             e == CHOOSE k \in ends : \A j \in ends : k <= j
  <1>1. Len(s) \in Nat /\ DOMAIN s = 1 .. Len(s)
      OBVIOUS
  <1>2. strlen(s) = IF ends = {} THEN Len(s) ELSE e - 1
      BY Zenon DEF strlen
  <1>3. CASE ends = {}
      BY <1>1, <1>2, <1>3
  <1>4. CASE ends # {}
    <2>1. ends \in SUBSET Nat
        BY <1>1
    <2>2. e \in ends /\ \A j \in ends : e <= j
      <3> HIDE DEF ends
      <3> QED
          BY <1>4, <2>1, MinExists
    <2>3. e \in 1 .. Len(s) /\ s[e] = NUL
        BY <1>1, <2>2
    <2> HIDE DEF e
    <2>4. ASSUME NEW k \in 1 .. e - 1 PROVE s[k] # NUL
      <3>1. k \in DOMAIN s /\ ~ (e <= k)
          BY <1>1, <2>3
      <3> QED
          BY <2>2, <3>1
    <2>5. e - 1 \in 0 .. Len(s) /\ (e - 1) + 1 = e
        BY <1>1, <2>3
    <2> QED
        BY <1>2, <1>4, <2>3, <2>4, <2>5
  <1> QED
      BY <1>3, <1>4

(* Division with a remainder.                                              *)
LEMMA DivRest ==
  ASSUME NEW x \in Nat, NEW c \in Nat \ {0}
  PROVE  x = c * (x \div c) + (x % c) /\ x % c \in 0 .. c - 1 /\ x \div c \in Nat
  OBVIOUS

(* The chunk of a place: the q-th has the places from q * c on.            *)
LEMMA ChunkOf ==
  ASSUME NEW q \in Nat, NEW c \in Nat \ {0}, NEW x \in Nat
  PROVE  /\ q * c <= x /\ x < q * c + c => x \div c = q
         /\ x < q * c => x \div c # q
  <1> DEFINE d == x \div c
             r == x % c
  <1>2. d \in Nat /\ r \in 0 .. c - 1 /\ x = c * d + r
      BY DivRest
  <1> HIDE DEF d, r
  <1>3. ASSUME d = q PROVE q * c <= x
      BY <1>2, <1>3
  <1>4. ASSUME q * c <= x, x < q * c + c, d < q PROVE FALSE
    <2>1. d + 1 <= q
        BY <1>2, <1>4
    <2>2. PICK m \in Nat : q = d + 1 + m
      <3>1. q - (d + 1) \in Nat /\ q = d + 1 + (q - (d + 1))
          BY <1>2, <2>1
      <3> QED
          BY <3>1
    <2>3. q * c = d * c + c + m * c /\ m * c \in Nat /\ d * c = c * d
        BY <1>2, <2>2
    <2> QED
        BY <1>2, <1>4, <2>3
  <1>5. ASSUME q * c <= x, x < q * c + c, d > q PROVE FALSE
    <2>2. PICK m \in Nat : d = q + 1 + m
      <3>1. d - (q + 1) \in Nat /\ d = q + 1 + (d - (q + 1))
          BY <1>2, <1>5
      <3> QED
          BY <3>1
    <2>3. c * d = q * c + c + m * c /\ m * c \in Nat /\ q * c \in Nat
        BY <1>2, <2>2
    <2> QED
        BY <1>2, <1>5, <2>3
  <1>6. q * c \in Nat
      OBVIOUS
  <1> QED
      BY <1>2, <1>3, <1>4, <1>5, <1>6 DEF d

(* got is the q-th chunk of s, from place n to place last.                 *)
IsChunk(s, q, n, last, got) ==
    /\ s \in Seq(Data) /\ q \in Nat /\ n = q * CHUNK
    /\ last \in n .. Len(s) /\ last <= n + CHUNK
    /\ got = SubSeq(s, n + 1, last)

(* It makes m bytes more visible.                                          *)
MakesVisible(s, n, last, m) ==
    /\ m \in Nat /\ n + m <= last
    /\ Visible(s, last) = Visible(s, n) \cup (n + 1 .. n + m)

(* What one more chunk makes visible: the string that it holds.            *)
LEMMA ChunkVisible ==
  ASSUME NEW s, NEW q, NEW n, NEW last, NEW got, IsChunk(s, q, n, last, got)
  PROVE  MakesVisible(s, n, last, strlen(got))
  <1>0. /\ s \in Seq(Data) /\ q \in Nat /\ n = q * CHUNK
        /\ last \in n .. Len(s) /\ last <= n + CHUNK
        /\ got = SubSeq(s, n + 1, last)
      BY DEF IsChunk
  <1>1. CHUNK \in Nat \ {0} /\ n \in Nat /\ Len(s) \in Nat /\ last \in Nat /\ n <= last
    <2>1. CHUNK \in Nat \ {0}
        BY VfsAssumption
    <2>2. n \in Nat
        BY <1>0, <2>1
    <2> QED
        BY <1>0, <2>1, <2>2
  <1>2. got \in Seq(Data) /\ Len(got) = last - n /\ \A k \in 1 .. last - n : got[k] = s[n + k]
    <2>1. Len(got) = last - n
        BY <1>0, <1>1
    <2>2. \A k \in 1 .. last - n : n + k \in 1 .. Len(s) /\ (n + 1) + k - 1 = n + k
        BY <1>0, <1>1
    <2> QED
        BY <1>0, <1>1, <2>1, <2>2
  <1> DEFINE m == strlen(got)
  <1>3. /\ m \in Nat /\ n + m <= last /\ \A k \in 1 .. m : got[k] # NUL
        /\ m < last - n => got[m + 1] = NUL
    <2>1. m \in 0 .. last - n /\ (\A k \in 1 .. m : got[k] # NUL) /\ (m < last - n => got[m + 1] = NUL)
        BY <1>2, StrLen
    <2> HIDE DEF m
    <2> QED
        BY <1>1, <2>1
  <1> HIDE DEF m
  <1>4. \A k \in n + 1 .. last : (k - 1) \div CHUNK = q
    <2>1. ASSUME NEW k \in n + 1 .. last PROVE (k - 1) \div CHUNK = q
      <3>1. k - 1 \in Nat /\ n <= k - 1 /\ k - 1 < n + CHUNK
          BY <1>0, <1>1
      <3> QED
          BY <1>0, <1>1, <3>1, ChunkOf
    <2> QED
        BY <2>1
  <1>5. \A j \in 1 .. n : (j - 1) \div CHUNK # q
    <2>1. ASSUME NEW j \in 1 .. n PROVE (j - 1) \div CHUNK # q
      <3>1. j - 1 \in Nat /\ j - 1 < n
          BY <1>1
      <3> QED
          BY <1>0, <1>1, <3>1, ChunkOf
    <2> QED
        BY <2>1
  <1>6. ASSUME NEW k \in n + 1 .. last PROVE Hidden(s, k) <=> ~ (k <= n + m)
    <2>1. ASSUME Hidden(s, k) PROVE ~ (k <= n + m)
      <3>1. PICK j \in 1 .. k : s[j] = NUL /\ (j - 1) \div CHUNK = (k - 1) \div CHUNK
          BY <2>1 DEF Hidden
      <3>2. (j - 1) \div CHUNK = q
          BY <1>4, <3>1
      <3>3. j \notin 1 .. n
          BY <1>5, <3>2
      <3>4. j - n \in 1 .. last - n /\ n + (j - n) = j /\ j <= k
          BY <1>1, <3>3
      <3>5. got[j - n] = NUL
          BY <1>2, <3>1, <3>4
      <3>6. j - n \notin 1 .. m
          BY <1>3, <3>5
      <3> QED
          BY <1>1, <1>3, <3>4, <3>6
    <2>2. ASSUME ~ (k <= n + m) PROVE Hidden(s, k)
      <3>1. m < last - n /\ m + 1 \in 1 .. last - n /\ n + (m + 1) \in 1 .. k
            /\ n + (m + 1) \in n + 1 .. last
          BY <1>1, <1>3, <2>2
      <3>2. s[n + (m + 1)] = NUL
          BY <1>2, <1>3, <3>1
      <3>3. ((n + (m + 1)) - 1) \div CHUNK = q /\ (k - 1) \div CHUNK = q
          BY <1>4, <3>1
      <3> QED
          BY <3>1, <3>2, <3>3 DEF Hidden
    <2> QED
        BY <2>1, <2>2
  <1>7. ASSUME NEW k PROVE k \in Visible(s, last) <=> k \in Visible(s, n) \cup (n + 1 .. n + m)
    <2>1. k \in 1 .. last <=> k \in 1 .. n \/ k \in n + 1 .. last
        BY <1>1
    <2>2. k \in n + 1 .. n + m <=> k \in n + 1 .. last /\ k <= n + m
        BY <1>1, <1>3
    <2>3. k \in 1 .. n => k \notin n + 1 .. last
        BY <1>1
    <2> QED
        BY <1>6, <2>1, <2>2, <2>3 DEF Visible
  <1>8. Visible(s, last) = Visible(s, n) \cup (n + 1 .. n + m)
      BY <1>7
  <1> QED
      BY <1>3, <1>8 DEF m, MakesVisible

(* The members of two sequences, one behind the other.                     *)
LEMMA Concatenated ==
  ASSUME NEW T, NEW p \in Seq(T), NEW q \in Seq(T)
  PROVE  /\ p \o q \in Seq(T) /\ Len(p \o q) = Len(p) + Len(q)
         /\ DOMAIN (p \o q) = 1 .. Len(p) + Len(q)
         /\ \A k \in 1 .. Len(p) : (p \o q)[k] = p[k]
         /\ \A k \in Len(p) + 1 .. Len(p) + Len(q) : (p \o q)[k] = q[k - Len(p)]
  OBVIOUS

(* p holds the places of S in order, up to n.                              *)
Front(p, S, n) == n \in Nat /\ p \in Seq(1 .. n) /\ InOrder(p, S)

(* Places are shown in order when later ones follow.                       *)
LEMMA OrderGoesOn ==
  ASSUME NEW n, NEW p, NEW S, Front(p, S, n), NEW m \in Nat, NEW b \in Nat, n + m <= b
  PROVE  /\ Front(p \o [k \in 1 .. m |-> n + k], S \cup (n + 1 .. n + m), b)
         /\ Len(p \o [k \in 1 .. m |-> n + k]) = Len(p) + m
  <1> DEFINE new == [k \in 1 .. m |-> n + k]
  <1>0. n \in Nat /\ p \in Seq(1 .. n) /\ InOrder(p, S)
      BY DEF Front
  <1> DEFINE l == Len(p)
             r == p \o new
  <1>1. l \in Nat /\ DOMAIN p = 1 .. l /\ \A k \in 1 .. l : p[k] \in 1 .. n /\ p[k] \in 1 .. b
      BY <1>0
  <1>2. new \in Seq(1 .. b) /\ Len(new) = m /\ \A k \in 1 .. m : new[k] = n + k
    <2>1. \A k \in 1 .. m : n + k \in 1 .. b
        BY <1>0
    <2> QED
        BY <2>1
  <1>3. p \in Seq(1 .. b)
      BY <1>0, <1>1
  <1> HIDE DEF new
  <1>4. /\ r \in Seq(1 .. b) /\ Len(r) = l + m /\ DOMAIN r = 1 .. l + m
        /\ \A k \in 1 .. l : r[k] = p[k]
        /\ \A k \in l + 1 .. l + m : r[k] = new[k - l]
    <2> DEFINE T == 1 .. b
    <2>1. p \in Seq(T) /\ new \in Seq(T) /\ Len(new) = m
        BY <1>2, <1>3
    <2> HIDE DEF T
    <2>2. /\ r \in Seq(T) /\ Len(r) = l + Len(new) /\ DOMAIN r = 1 .. l + Len(new)
          /\ \A k \in 1 .. l : r[k] = p[k]
          /\ \A k \in l + 1 .. l + Len(new) : r[k] = new[k - l]
        BY ONLY <2>1, Concatenated
    <2> QED
        BY <2>1, <2>2, Zenon DEF T
  <1> HIDE DEF r, l
  <1>5. \A k \in l + 1 .. l + m : r[k] = n + (k - l)
    <2>1. \A k \in l + 1 .. l + m : k - l \in 1 .. m
        BY <1>1
    <2> QED
        BY <1>2, <1>4, <2>1
  <1>6. \A k \in 1 .. l + m : k \in 1 .. l \/ k \in l + 1 .. l + m
      BY <1>1
  <1>7. ASSUME NEW j \in 1 .. l + m, NEW k \in 1 .. l + m, j < k PROVE r[j] < r[k]
    <2>1. CASE k \in 1 .. l
      <3>1. j \in 1 .. l
          BY <1>1, <1>7, <2>1
      <3> QED
          BY <1>0, <1>1, <1>4, <1>7, <2>1, <3>1 DEF InOrder
    <2>2. CASE j \in 1 .. l /\ k \in l + 1 .. l + m
      <3>1. r[j] = p[j] /\ p[j] \in 1 .. n /\ r[k] = n + (k - l)
          BY <1>1, <1>4, <1>5, <2>2
      <3> QED
          BY <1>0, <1>1, <2>2, <3>1
    <2>3. CASE j \in l + 1 .. l + m /\ k \in l + 1 .. l + m
      <3>1. r[j] = n + (j - l) /\ r[k] = n + (k - l)
          BY <1>5, <2>3
      <3> QED
          BY <1>0, <1>1, <1>7, <3>1
    <2> QED
        BY <1>6, <2>1, <2>2, <2>3
  <1>8. {r[k] : k \in DOMAIN r} = S \cup (n + 1 .. n + m)
    <2>1. ASSUME NEW x \in S PROVE \E k \in 1 .. l + m : x = r[k]
      <3>1. PICK k \in 1 .. l : x = p[k]
          BY <1>0, <1>1 DEF InOrder
      <3>2. k \in 1 .. l + m
          BY <1>1
      <3> QED
          BY <1>4, <3>1, <3>2
    <2>2. ASSUME NEW x \in n + 1 .. n + m PROVE \E k \in 1 .. l + m : x = r[k]
      <3>1. l + (x - n) \in l + 1 .. l + m /\ l + (x - n) \in 1 .. l + m /\ n + ((l + (x - n)) - l) = x
          BY <1>0, <1>1
      <3> QED
          BY <1>5, <3>1
    <2>3. ASSUME NEW k \in 1 .. l + m PROVE r[k] \in S \cup (n + 1 .. n + m)
      <3>1. CASE k \in 1 .. l
          BY <1>0, <1>1, <1>4, <3>1 DEF InOrder
      <3>2. CASE k \in l + 1 .. l + m
        <4>1. n + (k - l) \in n + 1 .. n + m
            BY <1>0, <1>1, <3>2
        <4> QED
            BY <1>5, <3>2, <4>1
      <3> QED
          BY <1>6, <3>1, <3>2
    <2> QED
        BY <1>4, <2>1, <2>2, <2>3
  <1>9. InOrder(r, S \cup (n + 1 .. n + m))
      BY <1>4, <1>7, <1>8 DEF InOrder
  <1> QED
      BY <1>4, <1>9 DEF r, l, new, Front

(* The text that cat prints of the file in one step.                       *)
CatText == [k \in 1 .. Len(shown') - Len(shown) |-> node[file].data[shown'[Len(shown) + k]]]

(* cat shows one chunk more, or has shown all of the file.                 *)
LEMMA CatStep ==
  ASSUME FsInv, CmdInv, CatChunk
  PROVE  FsInv' /\ CmdInv' /\ pc = "cat" /\ CatText \in Seq(Data)
  <1> DEFINE s == node[file].data
             got == tmpfs_read(s, at, CHUNK)
             last == IF at + CHUNK > Len(s) THEN Len(s) ELSE at + CHUNK
             new == [k \in 1 .. strlen(got) |-> at + k]
  <1>1. /\ pc = "cat" /\ UNCHANGED <<fsVars, file, hostname>>
        /\ shown' = shown \o new /\ at' = at + Len(got)
        /\ pc' = IF got = <<>> THEN "printed" ELSE "cat"
      BY DEF CatChunk
  <1>2. /\ file \in 1 .. Len(node) /\ node[file].kind = "file" /\ CatAt(s, at, shown)
        /\ node' = node /\ file' = file
        /\ s \in Seq(Data) /\ Len(s) \in Nat
      BY <1>1, FsTypes, SMTT(30) DEF CmdInv, fsVars
  <1>3. FsInv'
      BY <1>1, FsUnchanged DEF Starting
  <1>4. CHUNK \in Nat \ {0}
      BY VfsAssumption
  <1>5. got = IF at >= Len(s) THEN <<>> ELSE SubSeq(s, at + 1, last)
      BY Zenon DEF tmpfs_read
  <1>6. at \in 0 .. Len(s) /\ at \in Nat /\ shown \in Seq(1 .. at) /\ InOrder(shown, Visible(s, at))
      BY <1>2 DEF CatAt
  <1>7. CatText = [k \in 1 .. Len(shown') - Len(shown) |-> s[shown'[Len(shown) + k]]]
      BY Zenon DEF CatText
  <1> HIDE DEF s, got
  <1>8. CmdInv' /\ CatText \in Seq(Data)
    <2>1. CASE at < Len(s)
      <3>1. /\ last \in at .. Len(s) /\ last > at /\ last <= at + CHUNK
            /\ last = Len(s) \/ last = at + CHUNK
          BY ONLY <1>2, <1>4, <1>6, <2>1 DEF last
      <3> HIDE DEF last
      <3>2. got = SubSeq(s, at + 1, last) /\ Len(got) = last - at /\ last \in Nat
        <4>1. ~ (at >= Len(s))
            BY ONLY <1>2, <1>6, <2>1
        <4>2. got = SubSeq(s, at + 1, last)
            BY ONLY <1>5, <4>1, Zenon
        <4>3. Len(SubSeq(s, at + 1, last)) = last - at /\ last \in Nat
            BY ONLY <1>2, <1>6, <3>1
        <4> QED
            BY <4>2, <4>3
      <3>3. PICK q \in Nat : at = q * CHUNK
        <4>1. at # Len(s)
            BY <1>2, <1>6, <2>1
        <4> QED
            BY <1>2, <4>1 DEF CatAt
      <3> DEFINE m == strlen(got)
      <3>4. m \in Nat /\ at + m <= last /\ Visible(s, last) = Visible(s, at) \cup (at + 1 .. at + m)
        <4>1. IsChunk(s, q, at, last, got)
            BY <1>2, <3>1, <3>2, <3>3 DEF IsChunk
        <4>2. MakesVisible(s, at, last, m)
            BY <4>1, ChunkVisible
        <4> QED
            BY <4>2 DEF MakesVisible
      <3>5. new = [k \in 1 .. m |-> at + k]
          OBVIOUS
      <3> HIDE DEF m, new
      <3>6. shown' \in Seq(1 .. last) /\ Len(shown') = Len(shown) + m /\ InOrder(shown', Visible(s, last))
        <4>1. Front(shown, Visible(s, at), at)
            BY <1>6 DEF Front
        <4>2. /\ Front(shown \o [k \in 1 .. m |-> at + k], Visible(s, at) \cup (at + 1 .. at + m), last)
              /\ Len(shown \o [k \in 1 .. m |-> at + k]) = Len(shown) + m
            BY ONLY <3>2, <3>4, <4>1, OrderGoesOn
        <4>3. shown' = shown \o [k \in 1 .. m |-> at + k]
            BY <1>1, <3>5
        <4>4. Front(shown', Visible(s, last), last) /\ Len(shown') = Len(shown) + m
            BY ONLY <3>4, <4>2, <4>3
        <4> QED
            BY <4>4 DEF Front
      <3>7. at' = last /\ pc' = "cat"
        <4>1. Len(got) > 0 /\ at + Len(got) = last
            BY <1>6, <3>1, <3>2
        <4>2. got # <<>>
          <5>1. Len(<<>>) = 0
              OBVIOUS
          <5> QED
              BY <4>1, <5>1
        <4> QED
            BY <1>1, <4>1, <4>2
      <3>8. last = Len(s) \/ \E r \in Nat : last = r * CHUNK
        <4>1. (q + 1) * CHUNK = q * CHUNK + CHUNK /\ q + 1 \in Nat
            BY <1>4
        <4> QED
            BY <3>1, <3>3, <4>1
      <3>9. CatAt(s, at', shown')
        <4>1. last \in 0 .. Len(s)
            BY <1>2, <3>1, <3>2
        <4> QED
            BY <3>6, <3>7, <3>8, <4>1 DEF CatAt
      <3>10. CatText \in Seq(Data)
        <4> DEFINE l == Len(shown)
        <4>1. l \in Nat /\ Len(shown') - l = m
            BY <1>6, <3>4, <3>6
        <4>2. \A k \in 1 .. m : l + k \in 1 .. Len(shown')
            BY <3>4, <3>6, <4>1
        <4> HIDE DEF l
        <4>3. \A k \in 1 .. m : s[shown'[l + k]] \in Data
          <5>1. \A k \in 1 .. m : shown'[l + k] \in 1 .. last
            <6>1. ASSUME NEW k \in 1 .. m PROVE shown'[l + k] \in 1 .. last
              <7>1. l + k \in 1 .. Len(shown')
                  BY <4>2
              <7>2. shown' \in Seq(1 .. last)
                  BY <3>6
              <7> QED
                  BY ONLY <7>1, <7>2, ElementOfSeq, Zenon
            <6> QED
                BY ONLY <6>1
          <5>2. \A k \in 1 .. last : k \in 1 .. Len(s)
              BY <1>2, <3>1, <3>2
          <5> QED
              BY <1>2, <5>1, <5>2
        <4>4. CatText = [k \in 1 .. m |-> s[shown'[l + k]]]
            BY <1>7, <4>1 DEF l
        <4> QED
            BY <3>4, <4>3, <4>4
      <3> QED
          BY <1>2, <3>7, <3>9, <3>10 DEF CmdInv, CommandShows, s
    <2>2. CASE ~ (at < Len(s))
      <3>1. got = <<>> /\ at = Len(s)
          BY <1>2, <1>5, <1>6, <2>2
      <3>2. shown' = shown /\ pc' = "printed"
        <4>1. strlen(got) \in 0 .. Len(got) /\ Len(got) = 0
          <5>1. got \in Seq(Data) /\ Len(got) = 0
              BY <3>1
          <5> QED
              BY <5>1, StrLen
        <4>2. new = <<>>
          <5>1. strlen(got) = 0
              BY <4>1
          <5> QED
              BY <5>1
        <4> HIDE DEF new
        <4> QED
            BY <1>1, <1>6, <3>1, <4>2
      <3>3. CatText = <<>>
        <4>1. Len(shown') - Len(shown) = 0
            BY <1>6, <3>2
        <4> QED
            BY <1>7, <4>1
      <3>4. CatText \in Seq(Data)
          BY <3>3
      <3> QED
          BY <1>2, <1>6, <3>1, <3>2, <3>4 DEF CmdInv, CommandShows, s
    <2> QED
        BY <1>2, <2>1, <2>2
  <1> QED
      BY <1>1, <1>3, <1>8

(* cmd_ls and cmd_cat open what the path leads to.                         *)
LEMMA OpenStep ==
  ASSUME FsInv, CmdInv, NEW path, PathOK(path), cmd_ls(path) \/ cmd_cat(path)
  PROVE  FsInv' /\ CmdInv'
  <1>1. /\ pc \in {"idle", "listed", "printed"} /\ UNCHANGED <<fsVars, hostname>>
        /\ file' = resolve(node, path) /\ file' # NULL /\ at' = 0 /\ shown' = <<>>
        /\ pc' = "ls" \/ (pc' = "cat" /\ node[file'].kind = "file")
      BY DEF cmd_ls, cmd_cat, Idle
  <1>2. /\ node' = node /\ Len(node) \in Nat /\ file' \in 1 .. Len(node)
        /\ Listing(node[file']) \in Seq(1 .. Len(node))
        /\ node[file'].kind = "file" => node[file'].data \in Seq(Data)
    <2>1. pc # "boot"
        BY <1>1
    <2>2. file' \in 0 .. Len(node) /\ Len(node) \in Nat
        BY <1>1, <2>1, FsTypes
    <2>3. file' \in 1 .. Len(node)
        BY <1>1, <2>2 DEF NULL
    <2> QED
        BY <1>1, <2>1, <2>2, <2>3, FsTypes DEF fsVars
  <1>3. FsInv'
      BY <1>1, FsUnchanged DEF Starting
  <1>4. CASE pc' = "ls"
    <2>1. shown' = SubSeq(Listing(node[file']), 1, at') /\ at' \in 0 .. Len(Listing(node[file']))
        BY <1>1, <1>2
    <2> QED
        BY <1>2, <1>3, <1>4, <2>1 DEF CmdInv, CommandShows
  <1>5. CASE pc' = "cat" /\ node[file'].kind = "file"
    <2>1. CatAt(node[file'].data, at', shown')
      <3> DEFINE s == node[file'].data
      <3>1. Len(s) \in Nat /\ CHUNK \in Nat
          BY <1>2, <1>5, VfsAssumption
      <3> HIDE DEF s
      <3>2. at' \in 0 .. Len(s) /\ \E q \in Nat : at' = q * CHUNK
        <4>1. 0 = 0 * CHUNK /\ 0 \in Nat /\ 0 \in 0 .. Len(s)
            BY <3>1
        <4> QED
            BY <1>1, <4>1
      <3>3. shown' \in Seq(1 .. at') /\ Visible(s, at') = {} /\ DOMAIN shown' = {}
          BY <1>1 DEF Visible
      <3>4. InOrder(shown', Visible(s, at'))
          BY <3>3 DEF InOrder
      <3> QED
          BY <3>2, <3>3, <3>4 DEF CatAt, s
    <2> QED
        BY <1>2, <1>3, <1>5, <2>1 DEF CmdInv, CommandShows
  <1> QED
      BY <1>1, <1>4, <1>5

(* tmpfs_write gives a file that holds bytes.                              *)
LEMMA WriteType ==
  ASSUME NEW data \in Seq(Data), NEW pos \in Nat, NEW b \in Seq(Bytes),
         NEW gap \in [Len(data) + 1 .. pos -> {NUL, Junk}]
  PROVE  tmpfs_write(data, pos, b, gap) \in Seq(Data)
  <1> DEFINE size == IF pos + Len(b) > Len(data) THEN pos + Len(b) ELSE Len(data)
             At(k) == IF k \in pos + 1 .. pos + Len(b) THEN b[k - pos]
                      ELSE IF k <= Len(data) THEN data[k] ELSE gap[k]
  <1>1. tmpfs_write(data, pos, b, gap) = [k \in 1 .. size |-> At(k)]
      BY Zenon DEF tmpfs_write
  <1>2. Len(data) \in Nat /\ Len(b) \in Nat /\ size \in Nat
      OBVIOUS
  <1>3. ASSUME NEW k \in 1 .. size PROVE At(k) \in Data
    <2>1. CASE k \in pos + 1 .. pos + Len(b)
      <3>1. k - pos \in 1 .. Len(b)
          BY <1>2, <2>1
      <3> QED
          BY <2>1, <3>1 DEF Data
    <2>2. CASE k \notin pos + 1 .. pos + Len(b) /\ k <= Len(data)
      <3>1. k \in 1 .. Len(data)
          BY <1>2, <2>2
      <3> QED
          BY <2>2, <3>1
    <2>3. CASE k \notin pos + 1 .. pos + Len(b) /\ ~ (k <= Len(data))
      <3>1. k \in Len(data) + 1 .. pos
          BY <1>2, <2>3
      <3>2. gap[k] \in {NUL, Junk}
          BY <3>1
      <3>3. {NUL, Junk} \subseteq Data
          BY VfsAssumption DEF Data
      <3> QED
          BY <2>3, <3>2, <3>3
    <2> QED
        BY <2>1, <2>2, <2>3
  <1> HIDE DEF At, size
  <1> QED
      BY <1>1, <1>2, <1>3

(* What vfs_write leaves of the file system.                               *)
LEMMA WriteNodes ==
  ASSUME FsInv, NEW path, PathOK(path), NEW off \in Offsets, NEW b \in Buffers,
         NEW f, f = resolve(node, path), vfs_write(f, off, b),
         pc' = "idle"
  PROVE  /\ pc \notin Starting /\ UNCHANGED <<mounts, vfs_root, hostname>>
         /\ f \in 1 .. Len(node) /\ node[f].kind = "file"
         /\ Tree(node', Roots) /\ Len(node') = Len(node)
         /\ node'[f] \in FileNodes /\ node'[f].name = node[f].name
         /\ \A d \in 1 .. Len(node) : d # f => node'[d] = node[d]
  <1> DEFINE pos == off % U32
  <1>1. /\ pc \in {"idle", "listed", "printed"} /\ UNCHANGED <<mounts, vfs_root, hostname>>
        /\ f # NULL /\ node[f].kind = "file"
        /\ \E gap \in [Len(node[f].data) + 1 .. pos -> {NUL, Junk}] :
              node' = [node EXCEPT ![f].data = tmpfs_write(@, pos, b, gap)]
      BY DEF vfs_write, Idle
  <1>2. pc \notin Starting /\ pc # "boot"
      BY <1>1 DEF Starting
  <1>3. f \in 1 .. Len(node) /\ node[f].data \in Seq(Data) /\ Tree(node, Roots)
    <2>1. f \in 0 .. Len(node) /\ Len(node) \in Nat
        BY <1>2, FsTypes
    <2>2. f \in 1 .. Len(node)
        BY <1>1, <2>1 DEF NULL
    <2> QED
        BY <1>1, <1>2, <2>2, FsTypes DEF FsInv
  <1>4. pos \in Nat /\ b \in Seq(Bytes)
    <2>1. off \in Nat /\ U32 \in Nat \ {0}
        BY VfsAssumption
    <2> QED
        BY <2>1, VfsAssumption
  <1> HIDE DEF pos
  <1>0. PICK gap \in [Len(node[f].data) + 1 .. pos -> {NUL, Junk}] :
            node' = [node EXCEPT ![f].data = tmpfs_write(@, pos, b, gap)]
      BY <1>1
  <1> DEFINE x == tmpfs_write(node[f].data, pos, b, gap)
  <1>5. x \in Seq(Data)
      BY <1>3, <1>4, WriteType
  <1>7. node' = [node EXCEPT ![f].data = x]
      BY <1>0
  <1> HIDE DEF x
  <1>6. /\ Tree(node', Roots) /\ Len(node') = Len(node)
        /\ node'[f] \in FileNodes /\ node'[f].name = node[f].name /\ node'[f].data = x
        /\ \A d \in 1 .. Len(node) : d # f => node'[d] = node[d]
    <2>1. node' = WithData(node, f, x)
        BY <1>7, Zenon DEF WithData
    <2>2. Written(node', node, Roots, f, x)
        BY <1>1, <1>3, <1>5, <2>1, TreeWrite, Zenon
    <2> QED
        BY <2>2, Zenon DEF Written
  <1> QED
      BY <1>1, <1>2, <1>3, <1>5, <1>6

(* A write keeps the invariant; one that is not below /etc keeps the host  *)
(* name.                                                                   *)
LEMMA WriteStep ==
  ASSUME FsInv, NEW path \in WritePaths, NEW off \in Offsets, NEW b \in Buffers,
         vfs_write(resolve(node, path), off, b), pc' = "idle"
  PROVE  FsInv' /\ CmdInv'
  <1> DEFINE f == resolve(node, path)
             h == node[4].entries[1]
  <1>0. PathOK(path)
      BY PathsOK, VfsAssumption
  <1>1. /\ pc \notin Starting /\ pc' = "idle" /\ UNCHANGED <<mounts, vfs_root, hostname>>
        /\ f \in 1 .. Len(node) /\ node[f].kind = "file"
        /\ Tree(node', Roots) /\ Len(node') = Len(node)
        /\ node'[f] \in FileNodes /\ node'[f].name = node[f].name
        /\ \A d \in 1 .. Len(node) : d # f => node'[d] = node[d]
      BY <1>0, WriteNodes
  <1>2. /\ Tree(node, Roots) /\ RootOK(node) /\ vfs_root = 1 /\ 1 \in Roots /\ HostAt(node)
        /\ (WritesElsewhere => HostIs(node, hostname)) /\ Len(node) \in Nat
      BY <1>1, FsTypes DEF FsInv, Starting
  <1>3. WritesElsewhere => f # h
      BY <1>0, <1>2, NotTheHost DEF WritesElsewhere
  <1> HIDE DEF f
  <1>4. f # 1 /\ f # 4 /\ node'[1] = node[1] /\ node'[4] = node[4]
      BY <1>1, <1>2 DEF RootOK
  <1>5. RootOK(node')
    <2>1. \A d \in 1 .. Len(node) : node'[d].name = node[d].name
        BY <1>1
    <2>2. node'[2].name = node[2].name /\ node'[3].name = node[3].name
        BY <1>2, <2>1 DEF RootOK
    <2> QED
        BY <1>1, <1>2, <1>4, <2>2 DEF RootOK
  <1>6. HostAt(node')
    <2>1. node'[h].name = node[h].name /\ node'[h].kind = "file"
      <3>1. CASE h = f
          BY <1>1, <3>1 DEF FileNodes
      <3>2. CASE h # f
          BY <1>1, <1>2, <3>2 DEF HostAt
      <3> QED
          BY <3>1, <3>2
    <2> QED
        BY <1>1, <1>2, <1>4, <2>1 DEF HostAt
  <1>7. WritesElsewhere => HostIs(node', hostname')
    <2> SUFFICES ASSUME WritesElsewhere PROVE HostIs(node', hostname')
        OBVIOUS
    <2>1. node'[h] = node[h]
        BY <1>1, <1>2, <1>3 DEF HostAt
    <2> QED
        BY <1>1, <1>2, <1>4, <1>6, <2>1 DEF HostIs
  <1>8. Roots' = Roots
      BY <1>1 DEF Roots
  <1>9. FsInv'
      BY <1>1, <1>2, <1>5, <1>6, <1>7, <1>8 DEF FsInv, Starting
  <1> QED
      BY <1>1, <1>9 DEF CmdInv, CommandShows

(* After a write outside the memory of its file nothing is done.           *)
LEMMA WildStep ==
  ASSUME FsInv, NEW f, NEW off, NEW b, vfs_write(f, off, b), pc' # "idle"
  PROVE  FsInv' /\ CmdInv'
  <1>1. /\ pc \in {"idle", "listed", "printed"} /\ pc' = "wild"
        /\ UNCHANGED <<node, mounts, vfs_root, hostname>>
      BY DEF vfs_write, Idle
  <1>2. FsInv'
      BY <1>1, FsUnchanged DEF Starting, fsVars
  <1> QED
      BY <1>1, <1>2 DEF CmdInv, CommandShows

-----------------------------------------------------------------------------
(* No file holds a carriage return, after which text would be written over *)
(* other text.                                                             *)
NoReturn == "CR" \notin Bytes

ConInv ==
    /\ Agree(vga, paper)
    /\ NoReturn => ClearAhead(vga)
    /\ WindowFits => WindowOK(win)

(* Then no text that is printed holds one.                                 *)
LEMMA NoReturnIn ==
  ASSUME NoReturn
  PROVE  "CR" \notin Chars
  BY DEF NoReturn, Chars, Names, Messages, Enter, Junk, Blank

(* A cleared screen shows an empty sheet.                                  *)
LEMMA ClearScreen == Agree(vga_clear, NoPaper) /\ ClearAhead(vga_clear)
  <1> USE ConsoleTypes
  <1> DEFINE cells == [r \in 0 .. ROWS - 1 |-> BlankRow]
             lns == <<BlankRow>>
  <1>1. cells \in Cells /\ \A r \in 0 .. ROWS - 1 : cells[r] = BlankRow
      BY DEF Cells
  <1>2. lns \in Seq(Rows) /\ Len(lns) = 1 /\ lns[1] = BlankRow
      OBVIOUS
  <1>3. 0 \in 0 .. ROWS - 1 /\ 0 \in 0 .. COLS - 1
      OBVIOUS
  <1>4. \A c \in 0 .. COLS - 1 : BlankRow[c] = Blank
      BY DEF BlankRow
  <1>5. vga_clear = [cells |-> cells, row |-> 0, col |-> 0] /\ NoPaper = [lines |-> lns, col |-> 0]
      BY DEF vga_clear, NoPaper
  <1> HIDE DEF cells, lns
  <1>6. vga_clear \in Screens /\ vga_clear.cells = cells /\ vga_clear.row = 0 /\ vga_clear.col = 0
      BY <1>1, <1>3, <1>5 DEF Screens
  <1>7. NoPaper \in Papers /\ NoPaper.lines = lns /\ NoPaper.col = 0
      BY <1>2, <1>3, <1>5 DEF Papers
  <1>8. ShowsEnd(vga_clear, NoPaper)
    <2>1. ASSUME NEW r \in 0 .. ROWS - 1
          PROVE  cells[r] = IF r < Len(lns) THEN lns[r + 1] ELSE BlankRow
      <3>1. r < Len(lns) => r = 0
          BY <1>2
      <3> QED
          BY <1>1, <1>2, <3>1
    <2>2. vga_clear.col = NoPaper.col /\ vga_clear.row = Len(NoPaper.lines) - 1
        BY <1>2, <1>6, <1>7
    <2>3. \A r \in 0 .. ROWS - 1 :
              vga_clear.cells[r] = IF r < Len(NoPaper.lines) THEN NoPaper.lines[r + 1] ELSE BlankRow
        BY <1>6, <1>7, <2>1
    <2> QED
        BY <2>2, <2>3, Zenon DEF ShowsEnd
  <1>9. ClearAhead(vga_clear)
      BY <1>1, <1>3, <1>4, <1>6 DEF ClearAhead
  <1> QED
      BY <1>6, <1>7, <1>8, <1>9 DEF Agree

(* The window as kmain makes it.                                           *)
LEMMA EmptyWindow == WindowOK(TermWin)
  <1>1. FbWidth - 40 \in Int /\ FbHeight - 80 \in Int
      BY ConsoleAssumption
  <1>2. /\ TermWin \in Windows /\ TermWin.cx = 4 /\ TermWin.cy = GUI_TITLEBAR_H + 4
        /\ TermWin.drawn = {} /\ TermWin.page = <<>>
    <2>1. {} \in SUBSET Marks /\ <<>> \in Seq(Chars) /\ 4 \in Nat /\ GUI_TITLEBAR_H + 4 \in Nat
        BY DEF GUI_TITLEBAR_H
    <2> QED
        BY <2>1 DEF TermWin, gui_create_window, Windows
  <1>3. Drawn(TermWin, <<>>) /\ Ahead(TermWin, <<>>)
    <2>1. <<>> \in Seq(Marks) /\ Len(<<>>) = 0 /\ 1 .. 0 = {}
        OBVIOUS
    <2>2. {<<>>[k] : k \in {}} = {}
        OBVIOUS
    <2> QED
        BY <1>2, <2>1, <2>2 DEF Drawn, Ahead
  <1>4. InsideFrame(TermWin)
      BY <1>2 DEF InsideFrame
  <1>5. TermWin.cx >= 4 /\ TermWin.cy >= GUI_TITLEBAR_H + 4
      BY <1>2 DEF GUI_TITLEBAR_H
  <1> QED
      BY <1>2, <1>3, <1>4, <1>5 DEF WindowOK

(* Printing on the screen.                                                 *)
LEMMA VgaPrints ==
  ASSUME ConInv, NEW text \in Seq(Chars), PutVga(text)
  PROVE  ConInv'
  <1>1. vga' = vga_puts(vga, text) /\ paper' = paper_puts(paper, text) /\ win' = win
      BY DEF PutVga
  <1>2. Agree(vga, paper) /\ (NoReturn => ClearAhead(vga)) /\ (WindowFits => WindowOK(win))
      BY DEF ConInv
  <1>3. Agree(vga', paper')
      BY <1>1, <1>2, PutsAgrees
  <1>4. NoReturn => ClearAhead(vga')
      BY <1>1, <1>2, PutsClear, NoReturnIn
  <1> QED
      BY <1>1, <1>2, <1>3, <1>4 DEF ConInv

(* Printing through kprintf, on whichever console kmain chose.             *)
LEMMA Prints ==
  ASSUME ConInv, NEW text \in Seq(Chars), kprintf(text)
  PROVE  ConInv'
  <1>1. CASE use_fb
    <2>1. win' = gui_window_print(win, text) /\ vga' = vga /\ paper' = paper
        BY <1>1 DEF kprintf
    <2>2. WindowFits => WindowOK(win')
        BY <2>1, PrintInWindow DEF ConInv
    <2> QED
        BY <2>1, <2>2 DEF ConInv
  <1>2. CASE ~ use_fb
    <2>1. PutVga(text)
        BY <1>2 DEF kprintf
    <2> QED
        BY <2>1, VgaPrints
  <1> QED
      BY <1>1, <1>2

(* The cursor is on the screen.                                            *)
LEMMA ScreenTypes ==
  ASSUME ConInv
  PROVE  /\ vga.row \in 0 .. ROWS - 1 /\ vga.col \in 0 .. COLS - 1 /\ vga.cells \in Cells
         /\ vga.cells[vga.row] \in Rows
  BY DEF ConInv, Agree, Screens, Cells

(* What echoing a backspace and a character do to the row of the cursor.   *)
LEMMA EchoErases ==
  ASSUME ConInv, PutVga(<<"BS">>), vga.col # 0
  PROVE  /\ vga'.row = vga.row /\ vga'.col = vga.col - 1
         /\ vga'.cells[vga.row] = [vga.cells[vga.row] EXCEPT ![vga.col - 1] = Blank]
  <1>1. "BS" \in Chars
      BY DEF Chars, Messages
  <1>2. Agree(vga, paper) /\ vga.row \in 0 .. ROWS - 1 /\ vga.cells \in Cells /\ ROWS \in Nat
      BY ScreenTypes, ConsoleTypes DEF ConInv
  <1>3. vga' = vga_putc(vga, "BS")
      BY <1>1, <1>2, PutOne DEF PutVga
  <1>4. /\ Erased(vga).row = vga.row /\ Erased(vga).col = vga.col - 1
        /\ Erased(vga).cells = WithCell(vga.cells, vga.row, vga.col - 1, Blank)
      BY <1>2, EraseAgrees
  <1>5. vga' = Erased(vga)
    <2>1. vga' = Settle(Erased(vga))
        BY <1>3, VgaPutc
    <2> QED
        BY <1>2, <1>4, <2>1 DEF Settle
  <1>6. WithCell(vga.cells, vga.row, vga.col - 1, Blank)[vga.row]
            = [vga.cells[vga.row] EXCEPT ![vga.col - 1] = Blank]
      BY <1>2 DEF WithCell, Cells
  <1> QED
      BY <1>4, <1>5, <1>6

(* A character that does not reach the end of the row.                     *)
LEMMA EchoTypes ==
  ASSUME ConInv, NEW key \in LineChars, key \notin {"BS", "HT"}, PutVga(<<key>>), vga.col + 1 < COLS
  PROVE  /\ vga'.row = vga.row /\ vga'.col = vga.col + 1
         /\ vga'.cells[vga.row] = [vga.cells[vga.row] EXCEPT ![vga.col] = key]
  <1>1. key \in Chars /\ key \notin {"LF", "CR", "BS", "HT"}
      BY DEF Chars, LineChars, Enter
  <1>2. Agree(vga, paper) /\ vga.row \in 0 .. ROWS - 1 /\ vga.cells \in Cells /\ ROWS \in Nat
      BY ScreenTypes, ConsoleTypes DEF ConInv
  <1>3. vga' = vga_putc(vga, key)
      BY <1>1, <1>2, PutOne DEF PutVga
  <1>4. /\ Typed(vga, key).row = vga.row /\ Typed(vga, key).col = vga.col + 1
        /\ Typed(vga, key).cells = WithCell(vga.cells, vga.row, vga.col, key)
      BY <1>1, <1>2, TypeAgrees
  <1>5. vga' = Typed(vga, key)
    <2>1. vga' = Settle(WrapAt(Typed(vga, key)))
        BY <1>1, <1>3, VgaPutc
    <2>2. WrapAt(Typed(vga, key)) = Typed(vga, key)
      <3>1. vga.col \in Int /\ COLS \in Int
          BY ScreenTypes, ConsoleTypes
      <3> QED
          BY <1>4, <3>1 DEF WrapAt
    <2> QED
        BY <1>2, <1>4, <2>1, <2>2 DEF Settle
  <1>6. WithCell(vga.cells, vga.row, vga.col, key)[vga.row]
            = [vga.cells[vga.row] EXCEPT ![vga.col] = key]
      BY <1>2 DEF WithCell, Cells
  <1> QED
      BY <1>4, <1>5, <1>6

(* The line typed so far, on the row of the cursor, behind the prompt.     *)
LineAt(v, s, line) ==
    /\ v.col = s + Len(line)
    /\ \A c \in s .. COLS - 1 :
          v.cells[v.row][c] = IF c < s + Len(line) THEN line[c - s + 1] ELSE Blank

LineInv ==
    /\ buf \in Words
    /\ spc = "read" => /\ todo \in Seq(Keys) /\ todo # <<>> /\ todo[Len(todo)] \in Enter
                       /\ start \in Int
    /\ spc = "read" /\ ~ use_fb /\ NoReturn /\ start >= 0 => LineAt(vga, start, buf)

(* The inductive invariant.                                                *)
ShellInv == FsInv /\ CmdInv /\ ConInv /\ LineInv

(* Steps that change neither the file system nor a command.                *)
LEMMA SameFs ==
  ASSUME FsInv, CmdInv, UNCHANGED vars
  PROVE  FsInv' /\ CmdInv'
  <1>1. /\ node' = node /\ mounts' = mounts /\ vfs_root' = vfs_root /\ hostname' = hostname
        /\ pc' = pc /\ file' = file /\ at' = at /\ shown' = shown
      BY DEF vars, fsVars, cmdVars
  <1>2. Roots' = Roots
      BY <1>1 DEF Roots
  <1> QED
      BY <1>1, <1>2 DEF FsInv, CmdInv, CommandShows

(* Steps that change nothing of the shell.                                 *)
LEMMA SameShell ==
  ASSUME ConInv, LineInv, UNCHANGED shellVars
  PROVE  ConInv' /\ LineInv'
  BY DEF ConInv, LineInv, shellVars, conVars

(* Texts that are printed.                                                 *)
LEMMA TextsType ==
  /\ Prompt \in Seq(Chars) /\ <<"LF", "Aerogel", "LF">> \in Seq(Chars)
  /\ <<"no_such_directory", "LF">> \in Seq(Chars) /\ <<"not_found", "LF">> \in Seq(Chars)
  /\ <<"Rebooting", "LF">> \in Seq(Chars) /\ <<"LF">> \in Seq(Chars) /\ <<"BS">> \in Seq(Chars)
  /\ <<>> \in Seq(Chars) /\ Seq(Data) \subseteq Seq(Chars)
  /\ \A key \in LineChars : <<key>> \in Seq(Chars)
  /\ \A name \in Names : <<Blank, name, "LF">> \in Seq(Chars)
  <1>1. Names \cup Messages \cup Data \cup LineChars \subseteq Chars
      BY DEF Chars, Data, LineChars
  <1>2. {"LF", "BS", ">", "Aerogel", "Rebooting", "not_found", "no_such_directory", Blank}
            \subseteq Messages
      BY DEF Messages
  <1>3. ASSUME NEW s \in Seq(Data) PROVE s \in Seq(Chars)
    <2>1. Len(s) \in Nat /\ \A k \in 1 .. Len(s) : s[k] \in Chars
        BY <1>1
    <2> QED
        BY <2>1
  <1> QED
      BY <1>1, <1>2, <1>3 DEF Prompt

(* The argument of ls or cat is a path, whatever was typed.                *)
LEMMA PathArgOK == PathOK(PathArg)
  <1>1. \A w : PathOK(WordPath(w))
    <2> SUFFICES ASSUME NEW w PROVE PathOK(WordPath(w))
        OBVIOUS
    <2>1. CASE w \in DOMAIN PathOf
        BY <2>1, PathsOK, ShellAssumption DEF WordPath
    <2>2. CASE w \notin DOMAIN PathOf
        BY <2>2 DEF WordPath, PathOK
    <2> QED
        BY <2>1, <2>2
  <1> QED
      BY <1>1, PathsOK DEF PathArg

(* Nothing is typed at the prompt: the line is as it was.                  *)
LEMMA NotReading ==
  ASSUME LineInv, buf' = buf, spc' # "read"
  PROVE  LineInv'
  BY DEF LineInv

(* The prompt: the line is empty and the row behind the cursor is clear.   *)
LEMMA PromptStep ==
  ASSUME ShellInv, ShowPrompt
  PROVE  ShellInv'
  <1>1. /\ spc' = "read" /\ kprintf(Prompt) /\ buf' = <<>> /\ todo' \in Typings
        /\ start' = vga'.col /\ UNCHANGED vars
      BY DEF ShowPrompt
  <1>2. ConInv'
      BY <1>1, TextsType, Prints DEF ShellInv
  <1>3. vga'.col \in 0 .. COLS - 1 /\ COLS \in Nat /\ (NoReturn => ClearAhead(vga'))
      BY <1>2, ConsoleTypes DEF ConInv, Agree, Screens
  <1>4. todo' \in Seq(Keys) /\ todo' # <<>> /\ todo'[Len(todo')] \in Enter
      BY <1>1, ShellAssumption
  <1>5. NoReturn => LineAt(vga', start', buf')
    <2>1. Len(<<>>) = 0 /\ \A c \in vga'.col .. COLS - 1 : ~ (c < vga'.col + 0)
        BY <1>3
    <2>2. vga'.col = vga'.col + 0
        BY <1>3
    <2> QED
        BY <1>1, <1>3, <2>1, <2>2 DEF LineAt, ClearAhead
  <1>6. LineInv'
    <2>1. <<>> \in Words
        BY DEF Words
    <2> QED
        BY <1>1, <1>3, <1>4, <1>5, <2>1 DEF LineInv
  <1> QED
      BY <1>1, <1>2, <1>6, SameFs DEF ShellInv

(* ls and cat print what they show.                                        *)
LEMMA CommandStep ==
  ASSUME ShellInv, InCommand
  PROVE  ShellInv'
  <1> DEFINE text == IF pc = "cat" THEN CatText
                     ELSE IF shown' = shown THEN <<>>
                     ELSE <<Blank, node[shown'[Len(shown')]].name, "LF">>
  <1>1. (LsEntry \/ CatChunk) /\ kprintf(text) /\ buf' = buf /\ spc' # "read"
      BY DEF InCommand, CatText
  <1>2. FsInv' /\ CmdInv' /\ text \in Seq(Chars)
    <2>1. CASE LsEntry
      <3>1. /\ FsInv' /\ CmdInv' /\ pc = "ls"
            /\ shown' # shown => shown'[Len(shown')] \in 1 .. Len(node)
          BY <2>1, LsStep DEF ShellInv
      <3>2. shown' # shown => node[shown'[Len(shown')]].name \in Names
          BY <3>1, FsTypes DEF ShellInv
      <3> QED
          BY <3>1, <3>2, TextsType
    <2>2. CASE CatChunk
      <3>1. FsInv' /\ CmdInv' /\ pc = "cat" /\ CatText \in Seq(Data)
          BY <2>2, CatStep DEF ShellInv
      <3> QED
          BY <3>1, TextsType
    <2> QED
        BY <1>1, <2>1, <2>2
  <1> HIDE DEF text
  <1>3. ConInv'
      BY <1>1, <1>2, Prints DEF ShellInv
  <1> QED
      BY <1>1, <1>2, <1>3, NotReading DEF ShellInv

(* dispatch runs one of the commands.                                      *)
LEMMA DispatchStep ==
  ASSUME ShellInv, dispatch
  PROVE  ShellInv'
  <1>1. buf' = buf /\ (RunLs \/ RunCat \/ RunClear \/ RunReboot \/ RunOther \/ RunNothing)
      BY DEF dispatch
  <1>2. FsInv /\ CmdInv /\ ConInv /\ LineInv /\ buf \in Words
      BY DEF ShellInv, LineInv
  <1>3. ASSUME UNCHANGED conVars PROVE ConInv'
      BY <1>2, <1>3 DEF conVars, ConInv
  <1>4. ASSUME cmd_ls(PathArg) \/ cmd_cat(PathArg) PROVE FsInv' /\ CmdInv'
      BY <1>2, <1>4, PathArgOK, OpenStep
  <1>5. /\ spc' # "read" /\ ConInv'
        /\ UNCHANGED vars \/ cmd_ls(PathArg) \/ cmd_cat(PathArg)
    <2>1. CASE RunLs
        BY <1>2, <1>3, <2>1, TextsType, Prints DEF RunLs
    <2>2. CASE RunCat
        BY <1>2, <1>3, <2>2, TextsType, Prints DEF RunCat
    <2>3. CASE RunClear
        BY <1>2, <2>3, ClearScreen DEF RunClear, ConInv
    <2>4. CASE RunReboot
        BY <1>2, <2>4, TextsType, Prints DEF RunReboot
    <2>5. CASE RunOther
        BY <1>2, <2>5, ReplyType, Prints DEF RunOther
    <2>6. CASE RunNothing
        BY <1>2, <1>3, <2>6 DEF RunNothing
    <2> QED
        BY <1>1, <2>1, <2>2, <2>3, <2>4, <2>5, <2>6
  <1>6. FsInv' /\ CmdInv'
      BY <1>2, <1>4, <1>5, SameFs
  <1> QED
      BY <1>1, <1>2, <1>5, <1>6, NotReading DEF ShellInv

(* kmain, up to the start of the shell.                                    *)
LEMMA BootSteps ==
  ASSUME ShellInv, Boot
  PROVE  ShellInv'
  <1>1. CASE (BootFs \/ MountData) /\ UNCHANGED shellVars
      BY <1>1, BootStep, MountStep, SameShell DEF ShellInv
  <1>2. ASSUME NEW typed \in Hostnames, setup_run(typed), spc' \in {"off", "start"},
               UNCHANGED <<use_fb, conVars, todo, buf, start, lines>>
        PROVE  ShellInv'
    <2>1. FsInv' /\ CmdInv'
        BY <1>2, SetupStep DEF ShellInv
    <2>2. ConInv' /\ buf' = buf /\ spc' # "read"
        BY <1>2 DEF ShellInv, ConInv, conVars
    <2> QED
        BY <2>1, <2>2, NotReading DEF ShellInv
  <1> QED
      BY <1>1, <1>2 DEF Boot

(* Other callers of the file system.                                       *)
LEMMA OtherSteps ==
  ASSUME ShellInv, OtherCallers
  PROVE  ShellInv'
  <1>1. ConInv' /\ LineInv'
      BY SameShell DEF ShellInv, OtherCallers
  <1>2. FsInv' /\ CmdInv'
    <2>1. CASE LsEntry \/ CatChunk
        BY <2>1, LsStep, CatStep DEF ShellInv
    <2>2. ASSUME NEW path \in Paths, cmd_ls(path) \/ cmd_cat(path) PROVE FsInv' /\ CmdInv'
      <3>1. PathOK(path)
          BY PathsOK, VfsAssumption
      <3> QED
          BY <2>2, <3>1, OpenStep DEF ShellInv
    <2>3. ASSUME NEW path \in WritePaths, NEW off \in Offsets, NEW b \in Buffers,
                 vfs_write(resolve(node, path), off, b)
          PROVE  FsInv' /\ CmdInv'
        BY <2>3, WriteStep, WildStep DEF ShellInv
    <2> QED
        BY <2>1, <2>2, <2>3 DEF OtherCallers
  <1> QED
      BY <1>1, <1>2 DEF ShellInv

(* readline, key by key.                                                   *)
LEMMA KeyIs ==
  ASSUME ReadKey, NEW key, key = Head(todo)
  PROVE  /\ spc = "read" /\ todo' = Tail(todo) /\ UNCHANGED vars /\ use_fb' = use_fb
         /\ key \in Enter => spc' = "dispatch" /\ PutVga(<<"LF">>) /\ buf' = buf
         /\ key = "BS" /\ buf # <<>> =>
                buf' = SubSeq(buf, 1, Len(buf) - 1) /\ PutVga(<<"BS">>) /\ spc' = "read"
         /\ key \notin Enter /\ ~ (key = "BS" /\ buf # <<>>) =>
                /\ spc' = "read"
                /\ \/ Len(buf) < CMD_BUF - 1 /\ buf' = Append(buf, key) /\ PutVga(<<key>>)
                   \/ UNCHANGED <<buf, conVars>>
         /\ start' = IF key = "HT" \/ (key = "BS" /\ buf = <<>>) \/ start + Len(buf') >= COLS
                     THEN -1 ELSE start
  <1>1. "BS" \notin Enter
      BY DEF Enter
  <1>2. /\ spc = "read" /\ todo' = Tail(todo) /\ UNCHANGED <<vars, use_fb>>
        /\ CASE key \in Enter ->
                   spc' = "dispatch" /\ lines' = lines + 1 /\ PutVga(<<"LF">>) /\ UNCHANGED buf
             [] key = "BS" /\ buf # <<>> ->
                   /\ buf' = SubSeq(buf, 1, Len(buf) - 1) /\ PutVga(EraseEcho)
                   /\ UNCHANGED <<spc, lines>>
             [] OTHER ->
                   /\ IF Len(buf) < CMD_BUF - 1 THEN buf' = Append(buf, key) /\ PutVga(<<key>>)
                                                ELSE UNCHANGED <<buf, conVars>>
                   /\ UNCHANGED <<spc, lines>>
        /\ start' = IF key = "HT" \/ (key = "BS" /\ buf = <<>>) \/ start + Len(buf') >= COLS
                    THEN -1 ELSE start
      BY DEF ReadKey
  <1>3. CASE key \in Enter
      BY <1>1, <1>2, <1>3
  <1>4. CASE key = "BS" /\ buf # <<>>
      BY <1>1, <1>2, <1>4 DEF EraseEcho
  <1>5. CASE key \notin Enter /\ ~ (key = "BS" /\ buf # <<>>)
      BY <1>2, <1>5
  <1> QED
      BY <1>3, <1>4, <1>5

(* Before Enter there is another key to come.                              *)
LEMMA KeysLeft ==
  ASSUME NEW keys \in Seq(Keys), keys # <<>>, keys[Len(keys)] \in Enter
  PROVE  /\ Head(keys) \in Keys
         /\ Head(keys) \notin Enter => /\ Tail(keys) \in Seq(Keys) /\ Tail(keys) # <<>>
                                       /\ Tail(keys)[Len(Tail(keys))] \in Enter
  <1>1. Len(keys) \in Nat /\ Len(keys) >= 1 /\ Head(keys) = keys[1] /\ keys[1] \in Keys
      OBVIOUS
  <1>2. ASSUME Head(keys) \notin Enter
        PROVE  /\ Tail(keys) \in Seq(Keys) /\ Tail(keys) # <<>>
               /\ Tail(keys)[Len(Tail(keys))] \in Enter
    <2>1. Len(keys) # 1
        BY <1>1, <1>2
    <2>2. /\ Tail(keys) \in Seq(Keys) /\ Len(Tail(keys)) = Len(keys) - 1
          /\ \A k \in 1 .. Len(Tail(keys)) : Tail(keys)[k] = keys[k + 1]
        BY HeadTailProperties, Zenon
    <2>3. \A n \in Nat : n >= 1 /\ n # 1 => n - 1 \in 1 .. n - 1 /\ (n - 1) + 1 = n
        OBVIOUS
    <2>4. Tail(keys)[Len(keys) - 1] = keys[Len(keys)]
        BY <1>1, <2>1, <2>2, <2>3
    <2>5. Len(Tail(keys)) # 0 /\ Len(<<>>) = 0
        BY <1>1, <2>1, <2>2
    <2> QED
        BY <2>2, <2>4, <2>5
  <1> QED
      BY <1>1, <1>2

(* Erasing and adding the last character, in the line and on the screen.   *)
LEMMA LineErased ==
  ASSUME ConInv, NEW s \in Nat, NEW line \in Words, line # <<>>, LineAt(vga, s, line),
         PutVga(<<"BS">>)
  PROVE  LineAt(vga', s, SubSeq(line, 1, Len(line) - 1))
  <1> DEFINE n == Len(line)
             new == SubSeq(line, 1, n - 1)
  <1>1. n \in Nat /\ n >= 1 /\ Len(new) = n - 1 /\ \A k \in 1 .. n - 1 : new[k] = line[k]
      BY DEF Words
  <1>2. /\ vga.col = s + n /\ vga.col \in 0 .. COLS - 1 /\ COLS \in Nat
        /\ vga.cells[vga.row] \in Rows
      BY ScreenTypes, ConsoleTypes DEF LineAt
  <1>3. /\ vga'.row = vga.row /\ vga'.col = vga.col - 1
        /\ vga'.cells[vga.row] = [vga.cells[vga.row] EXCEPT ![vga.col - 1] = Blank]
      BY <1>1, <1>2, EchoErases
  <1> HIDE DEF new, n
  <1>4. ASSUME NEW c \in s .. COLS - 1
        PROVE  vga'.cells[vga.row][c] = IF c < s + (n - 1) THEN new[c - s + 1] ELSE Blank
    <2>1. c \in 0 .. COLS - 1
        BY <1>2
    <2>2. CASE c = s + n - 1
        BY <1>1, <1>2, <1>3, <2>1, <2>2 DEF Rows
    <2>3. CASE c # s + n - 1
      <3>1. vga'.cells[vga.row][c] = vga.cells[vga.row][c]
          BY <1>1, <1>2, <1>3, <2>1, <2>3 DEF Rows
      <3>2. vga.cells[vga.row][c] = IF c < s + n THEN line[c - s + 1] ELSE Blank
          BY DEF LineAt, n
      <3>3. CASE c < s + (n - 1)
        <4>1. c - s + 1 \in 1 .. n - 1 /\ c < s + n
            BY <1>1, <3>3
        <4> QED
            BY <1>1, <3>1, <3>2, <3>3, <4>1
      <3>4. CASE ~ (c < s + (n - 1))
        <4>1. ~ (c < s + n)
            BY <1>1, <2>3, <3>4
        <4> QED
            BY <3>1, <3>2, <3>4, <4>1
      <3> QED
          BY <3>3, <3>4
    <2> QED
        BY <2>2, <2>3
  <1>5. vga'.col = s + (n - 1)
      BY <1>1, <1>2, <1>3
  <1>6. LineAt(vga', s, new)
      BY <1>1, <1>3, <1>4, <1>5 DEF LineAt
  <1> QED
      BY <1>6 DEF new, n

(* A character is added to the line and to the screen.                     *)
LEMMA LineTyped ==
  ASSUME ConInv, NEW s \in Nat, NEW line \in Words, LineAt(vga, s, line),
         NEW key \in LineChars, key \notin {"BS", "HT"}, PutVga(<<key>>), s + Len(line) + 1 < COLS
  PROVE  LineAt(vga', s, Append(line, key))
  <1> DEFINE n == Len(line)
             new == Append(line, key)
  <1>1. n \in Nat /\ Len(new) = n + 1 /\ new[n + 1] = key /\ \A k \in 1 .. n : new[k] = line[k]
      BY DEF Words
  <1>2. /\ vga.col = s + n /\ vga.col \in 0 .. COLS - 1 /\ COLS \in Nat
        /\ vga.cells[vga.row] \in Rows
      BY ScreenTypes, ConsoleTypes DEF LineAt
  <1>3. /\ vga'.row = vga.row /\ vga'.col = vga.col + 1
        /\ vga'.cells[vga.row] = [vga.cells[vga.row] EXCEPT ![vga.col] = key]
      BY <1>1, <1>2, EchoTypes
  <1> HIDE DEF new, n
  <1>4. ASSUME NEW c \in s .. COLS - 1
        PROVE  vga'.cells[vga.row][c] = IF c < s + (n + 1) THEN new[c - s + 1] ELSE Blank
    <2>1. c \in 0 .. COLS - 1
        BY <1>2
    <2>2. CASE c = s + n
      <3>1. c - s + 1 = n + 1 /\ c < s + (n + 1)
          BY <1>1, <2>2
      <3> QED
          BY <1>1, <1>2, <1>3, <2>1, <2>2, <3>1, SMTT(30) DEF Rows
    <2>3. CASE c # s + n
      <3>1. vga'.cells[vga.row][c] = vga.cells[vga.row][c]
          BY <1>1, <1>2, <1>3, <2>1, <2>3 DEF Rows
      <3>2. vga.cells[vga.row][c] = IF c < s + n THEN line[c - s + 1] ELSE Blank
          BY DEF LineAt, n
      <3>3. CASE c < s + n
        <4>1. c - s + 1 \in 1 .. n /\ c < s + (n + 1)
            BY <1>1, <3>3
        <4> QED
            BY <1>1, <3>1, <3>2, <3>3, <4>1
      <3>4. CASE ~ (c < s + n)
        <4>1. ~ (c < s + (n + 1))
            BY <1>1, <2>3, <3>4
        <4> QED
            BY <3>1, <3>2, <3>4, <4>1
      <3> QED
          BY <3>3, <3>4
    <2> QED
        BY <2>2, <2>3
  <1>5. vga'.col = s + (n + 1)
      BY <1>1, <1>2, <1>3
  <1>6. LineAt(vga', s, new)
      BY <1>1, <1>3, <1>4, <1>5 DEF LineAt
  <1> QED
      BY <1>6 DEF new

(* One key at the prompt.                                                  *)
LEMMA ReadStep ==
  ASSUME ShellInv, ReadKey
  PROVE  ShellInv'
  <1>0. FsInv /\ CmdInv /\ ConInv /\ LineInv
      BY DEF ShellInv
  <1>1. PICK key : key = Head(todo)
      OBVIOUS
  <1>2. /\ spc = "read" /\ todo' = Tail(todo) /\ UNCHANGED vars /\ use_fb' = use_fb
        /\ key \in Enter => spc' = "dispatch" /\ PutVga(<<"LF">>) /\ buf' = buf
        /\ key = "BS" /\ buf # <<>> =>
                buf' = SubSeq(buf, 1, Len(buf) - 1) /\ PutVga(<<"BS">>) /\ spc' = "read"
        /\ key \notin Enter /\ ~ (key = "BS" /\ buf # <<>>) =>
                /\ spc' = "read"
                /\ \/ Len(buf) < CMD_BUF - 1 /\ buf' = Append(buf, key) /\ PutVga(<<key>>)
                   \/ UNCHANGED <<buf, conVars>>
        /\ start' = IF key = "HT" \/ (key = "BS" /\ buf = <<>>) \/ start + Len(buf') >= COLS
                    THEN -1 ELSE start
      BY <1>1, KeyIs
  <1>3. /\ key \in Keys /\ buf \in Words /\ start \in Int /\ Len(buf) \in Nat
        /\ key \notin Enter => todo' \in Seq(Keys) /\ todo' # <<>> /\ todo'[Len(todo')] \in Enter
      BY <1>0, <1>1, <1>2, KeysLeft, SMTT(30) DEF LineInv, Words
  <1>4. FsInv' /\ CmdInv'
      BY <1>0, <1>2, SameFs
  <1>5. COLS \in Nat /\ start' \in Int
      BY <1>2, <1>3, ConsoleTypes
  <1>6. CASE key \in Enter
    <2>1. ConInv'
        BY <1>0, <1>2, <1>6, TextsType, VgaPrints
    <2>2. LineInv'
        BY <1>0, <1>2, <1>6, NotReading
    <2> QED
        BY <1>4, <2>1, <2>2 DEF ShellInv
  <1>7. CASE key = "BS" /\ buf # <<>>
    <2>1. buf' = SubSeq(buf, 1, Len(buf) - 1) /\ PutVga(<<"BS">>) /\ spc' = "read" /\ key \notin Enter
        BY <1>2, <1>7 DEF Enter
    <2>2. ConInv'
        BY <1>0, <2>1, TextsType, VgaPrints
    <2>3. buf' \in Words
        BY <1>3, <1>7, <2>1 DEF Words
    <2>4. ASSUME ~ use_fb', NoReturn, start' >= 0 PROVE LineAt(vga', start', buf')
      <3>1. start' = start /\ start \in Nat /\ ~ use_fb
          BY <1>2, <1>3, <2>4
      <3>2. LineAt(vga, start, buf)
          BY <1>0, <1>2, <2>4, <3>1 DEF LineInv
      <3>3. LineAt(vga', start, SubSeq(buf, 1, Len(buf) - 1))
          BY <1>0, <1>3, <1>7, <2>1, <3>1, <3>2, LineErased
      <3> QED
          BY <2>1, <3>1, <3>3
    <2>5. LineInv'
        BY <1>3, <1>5, <2>1, <2>3, <2>4 DEF LineInv
    <2> QED
        BY <1>4, <2>2, <2>5 DEF ShellInv
  <1>8. CASE key \notin Enter /\ ~ (key = "BS" /\ buf # <<>>)
    <2>1. spc' = "read" /\ key \in LineChars
        BY <1>2, <1>3, <1>8 DEF LineChars
    <2>2. CASE buf' = Append(buf, key) /\ PutVga(<<key>>)
      <3>1. ConInv'
          BY <1>0, <2>1, <2>2, TextsType, VgaPrints
      <3>2. buf' \in Words /\ Len(buf') = Len(buf) + 1
          BY <1>3, <2>1, <2>2 DEF Words
      <3>3. ASSUME ~ use_fb', NoReturn, start' >= 0 PROVE LineAt(vga', start', buf')
        <4>1. /\ start' = start /\ start \in Nat /\ ~ use_fb /\ key # "HT"
              /\ ~ (key = "BS" /\ buf = <<>>) /\ ~ (start + Len(buf') >= COLS)
            BY <1>2, <1>3, <3>3
        <4>2. key \notin {"BS", "HT"} /\ start + Len(buf) + 1 < COLS
            BY <1>3, <1>5, <1>8, <3>2, <4>1
        <4>3. LineAt(vga, start, buf)
            BY <1>0, <1>2, <3>3, <4>1 DEF LineInv
        <4>4. LineAt(vga', start, Append(buf, key))
            BY <1>0, <1>3, <2>1, <2>2, <4>1, <4>2, <4>3, LineTyped
        <4> QED
            BY <2>2, <4>1, <4>4
      <3>4. LineInv'
          BY <1>3, <1>5, <1>8, <2>1, <3>2, <3>3 DEF LineInv
      <3> QED
          BY <1>4, <3>1, <3>4 DEF ShellInv
    <2>3. CASE UNCHANGED <<buf, conVars>>
      <3>1. ConInv' /\ vga' = vga /\ buf' = buf
          BY <1>0, <2>3 DEF ConInv, conVars
      <3>2. ASSUME ~ use_fb', NoReturn, start' >= 0 PROVE LineAt(vga', start', buf')
        <4>1. start' = start /\ ~ use_fb
            BY <1>2, <3>2
        <4> QED
            BY <1>0, <1>2, <3>1, <3>2, <4>1 DEF LineInv
      <3>3. LineInv'
          BY <1>3, <1>5, <1>8, <2>1, <3>1, <3>2 DEF LineInv
      <3> QED
          BY <1>4, <3>1, <3>3 DEF ShellInv
    <2> QED
        BY <1>2, <1>8, <2>2, <2>3
  <1> QED
      BY <1>6, <1>7, <1>8

(* The invariant holds at first,                                           *)
LEMMA ShellStarts == SInit => ShellInv
  <1> SUFFICES ASSUME SInit PROVE ShellInv
      OBVIOUS
  <1>1. FsInv
      BY DEF SInit, Init, FsInv, Starting
  <1>2. CmdInv
      BY DEF SInit, Init, CmdInv, CommandShows
  <1>3. ConInv
      BY ClearScreen, EmptyWindow DEF SInit, ConInv
  <1>4. LineInv
    <2>1. <<>> \in Words
        BY DEF Words
    <2> QED
        BY <2>1 DEF SInit, LineInv
  <1> QED
      BY <1>1, <1>2, <1>3, <1>4 DEF ShellInv

(* every step keeps it,                                                    *)
LEMMA ShellKeeps == ShellInv /\ [SNext]_svars => ShellInv'
  <1> SUFFICES ASSUME ShellInv, [SNext]_svars PROVE ShellInv'
      OBVIOUS
  <1>1. CASE Boot
      BY <1>1, BootSteps
  <1>2. CASE OtherCallers
      BY <1>2, OtherSteps
  <1>3. CASE Banner
    <2>1. ConInv'
        BY <1>3, TextsType, Prints DEF Banner, ShellInv
    <2>2. FsInv' /\ CmdInv'
        BY <1>3, SameFs DEF Banner, ShellInv
    <2>3. LineInv'
        BY <1>3, NotReading DEF Banner, ShellInv
    <2> QED
        BY <2>1, <2>2, <2>3 DEF ShellInv
  <1>4. CASE ShowPrompt
      BY <1>4, PromptStep
  <1>5. CASE ReadKey
      BY <1>5, ReadStep
  <1>6. CASE dispatch
      BY <1>6, DispatchStep
  <1>7. CASE InCommand
      BY <1>7, CommandStep
  <1>8. CASE UNCHANGED svars
      BY <1>8, SameFs, SameShell DEF svars, ShellInv
  <1> QED
      BY <1>1, <1>2, <1>3, <1>4, <1>5, <1>6, <1>7, <1>8 DEF SNext

(* and so it always holds.                                                 *)
LEMMA ShellInvariant == SSpec => []ShellInv
  BY ShellStarts, ShellKeeps, PTL DEF SSpec

-----------------------------------------------------------------------------
(* The nodes of the file systems always form trees below the mounted       *)
(* roots, and no directory has more entries than dir_add has made room     *)
(* for.                                                                    *)
THEOREM ShellTree == SSpec => []TreeOK
  <1>1. ShellInv => TreeOK
    <2> SUFFICES ASSUME ShellInv PROVE TreeOK
        OBVIOUS
    <2>1. CASE pc = "boot"
      <3>1. node = <<>> /\ mounts = <<>>
          BY <2>1 DEF ShellInv, FsInv
      <3>2. Roots = {}
          BY <3>1 DEF Roots
      <3> QED
          BY <3>1, <3>2, NoTree, TreeIsOK
    <2>2. CASE pc # "boot"
        BY <2>2, TreeIsOK DEF ShellInv, FsInv
    <2> QED
        BY <2>1, <2>2
  <1> QED
      BY <1>1, ShellInvariant, PTL

(* After setup, and as long as nothing is written below /etc, the path of  *)
(* the host name leads to the name that was given: setup put it where it   *)
(* is looked for, and no other call hides it or changes it.                *)
THEOREM ShellSetup == ASSUME WritesElsewhere PROVE SSpec => []SetupTakesEffect
  <1>1. ShellInv => SetupTakesEffect
    <2> SUFFICES ASSUME ShellInv, pc \notin {"boot", "mount", "setup", "wild"}
                 PROVE  /\ ~ setup_needed
                        /\ node[resolve(node, HostnamePath)].kind = "file"
                        /\ node[resolve(node, HostnamePath)].data = hostname
        BY DEF SetupTakesEffect
    <2>1. HostIs(node, hostname) /\ HostAt(node) /\ RootOK(node) /\ vfs_root = 1 /\ NodesOK(node)
        BY DEF ShellInv, FsInv, Starting, HostIs, Tree
    <2>2. resolve(node, HostnamePath) = node[4].entries[1]
        BY <2>1, HostFound
    <2> QED
        BY <2>1, <2>2 DEF HostIs, HostAt, setup_needed, NULL
  <1> QED
      BY <1>1, ShellInvariant, PTL

(* When ls ends it has shown the whole directory, in order.  When cat ends *)
(* it has shown, in order and once, every byte of the file that no 0 hides *)
(* in its own chunk, for every file and every size of a chunk.             *)
THEOREM ShellCommands == SSpec => []CommandShows
  <1>1. ShellInv => CommandShows
      BY DEF ShellInv, CmdInv
  <1> QED
      BY <1>1, ShellInvariant, PTL

(* The screen shows the end of what was printed since it was last cleared, *)
(* with every line break, tab, backspace and scrolling.                    *)
THEOREM ShellScreen == SSpec => []ScreenIsTail
  <1>1. ShellInv => ScreenIsTail
      BY DEF ShellInv, ConInv, Agree, ScreenIsTail
  <1> QED
      BY <1>1, ShellInvariant, PTL

(* While a line is typed, the row behind the prompt shows exactly the line *)
(* that readline holds, after any sequence of characters and backspaces.   *)
THEOREM ShellLine == ASSUME NoReturn PROVE SSpec => []LineShown
  <1>1. ShellInv => LineShown
      BY DEF ShellInv, LineInv, LineAt, LineShown
  <1> QED
      BY <1>1, ShellInvariant, PTL

(* The terminal window shows all that was printed since its page was last  *)
(* turned, in order, inside its frame, whatever is printed.                *)
THEOREM ShellPage == ASSUME WindowFits PROVE SSpec => []PageShown
  <1>1. ShellInv => PageShown
      BY WindowShows DEF ShellInv, ConInv, PageShown
  <1> QED
      BY <1>1, ShellInvariant, PTL
=============================================================================
