------------------------------ MODULE Console ------------------------------
(***************************************************************************)
(* Where text goes: the VGA screen (drivers/display/vga_text.c), and the   *)
(* terminal window (kernel/gui/gui.c) when there is a framebuffer.  A      *)
(* character is a piece of text that takes one cell, or a control one (line *)
(* feed LF, carriage return CR, backspace BS, tab HT); colours and the     *)
(* drawing of the desktop and of the frame are left out.                   *)
(***************************************************************************)
EXTENDS Integers, Sequences, FiniteSets

CONSTANTS
    ROWS, COLS,    \* VGA_ROWS and VGA_COLS
    TAB,           \* 8
    FbWidth, FbHeight      \* of the framebuffer

ASSUME ConsoleAssumption ==
    /\ {ROWS, COLS, TAB} \subseteq Nat \ {0}
    /\ {FbWidth, FbHeight} \subseteq Nat

Blank == "SP"

-----------------------------------------------------------------------------
(* The screen: its cells and the cursor.                                   *)
BlankRow == [c \in 0 .. COLS - 1 |-> Blank]

vga_clear == [cells |-> [r \in 0 .. ROWS - 1 |-> BlankRow], row |-> 0, col |-> 0]

(* Leaves the last row in place when it moves the others up.               *)
scroll_keep(cells) == [r \in 0 .. ROWS - 1 |-> IF r < ROWS - 1 THEN cells[r + 1] ELSE cells[r]]

scroll(cells) == [r \in 0 .. ROWS - 1 |-> IF r < ROWS - 1 THEN cells[r + 1] ELSE BlankRow]

NewLine(v) == [v EXCEPT !.col = 0, !.row = @ + 1]
WrapAt(v) == IF v.col >= COLS THEN NewLine(v) ELSE v
TabStop(col) == ((col + TAB) \div TAB) * TAB

vga_putc(v, ch) ==
    LET moved == CASE ch = "LF" -> NewLine(v)
                   [] ch = "CR" -> [v EXCEPT !.col = 0]
                   [] ch = "BS" -> IF v.col = 0 THEN v
                                   ELSE [v EXCEPT !.col = @ - 1, !.cells[v.row][v.col - 1] = Blank]
                   [] ch = "HT" -> WrapAt([v EXCEPT !.col = TabStop(@)])
                   [] OTHER     -> WrapAt([v EXCEPT !.cells[v.row][v.col] = ch, !.col = @ + 1])
    IN  IF moved.row >= ROWS THEN [moved EXCEPT !.cells = scroll(@), !.row = ROWS - 1] ELSE moved

vga_puts(v, s) ==
    LET At[k \in 0 .. Len(s)] == IF k = 0 THEN v ELSE vga_putc(At[k - 1], s[k]) IN At[Len(s)]

-----------------------------------------------------------------------------
(* A window: its place, the cursor inside it, the characters drawn, at     *)
(* their places on the screen, and (a history) what was printed since the  *)
(* client area was last cleared.                                           *)
FB_FONT_W == 8
FB_FONT_H == 16
GUI_TITLEBAR_H == 20
GUI_BORDER == 2

gui_create_window(x, y, w, h) ==
    [x |-> x, y |-> y, w |-> w, h |-> h, cx |-> 4, cy |-> GUI_TITLEBAR_H + 4,
     drawn |-> {}, page |-> <<>>]

(* kmain's window.                                                         *)
TermWin == gui_create_window(20, 30, FbWidth - 40, FbHeight - 80)

(* Starts over at the top without a clear client area.                     *)
TurnPageOver(win) == [win EXCEPT !.cy = GUI_TITLEBAR_H + 4, !.page = <<>>]

(* The text has reached the bottom.                                        *)
TurnPage(win) == [win EXCEPT !.cy = GUI_TITLEBAR_H + 4, !.drawn = {}, !.page = <<>>]

NextRow(win) == [win EXCEPT !.cx = 4, !.cy = @ + FB_FONT_H]

fb_char(win, ch) ==
    LET at == <<win.x + win.cx, win.y + win.cy>>
    IN  [win EXCEPT !.drawn = {d \in @ : d.at # at} \cup {[at |-> at, ch |-> ch]},
                    !.page = Append(@, ch)]

window_putc(win, ch) ==
    LET client_right == win.x + win.w - GUI_BORDER - 2
        client_bot   == win.y + win.h - GUI_BORDER - 2
        w1 == IF win.x + win.cx + FB_FONT_W > client_right THEN NextRow(win) ELSE win
        w2 == IF w1.y + w1.cy + FB_FONT_H > client_bot THEN TurnPage(w1) ELSE w1
    IN  IF ch = "LF" THEN NextRow(win) ELSE [fb_char(w2, ch) EXCEPT !.cx = @ + FB_FONT_W]

gui_window_print(win, text) ==
    LET At[k \in 0 .. Len(text)] == IF k = 0 THEN win ELSE window_putc(At[k - 1], text[k])
    IN  At[Len(text)]

-----------------------------------------------------------------------------
(* The reference for the screen: paper that is fed through a printer, of   *)
(* which the last rows can be seen.                                        *)
NoPaper == [lines |-> <<BlankRow>>, col |-> 0]

Feed(p) ==
    [lines |-> Append(IF Len(p.lines) < ROWS THEN p.lines ELSE Tail(p.lines), BlankRow),
     col   |-> 0]

paper_putc(p, ch) ==
    LET n == Len(p.lines)
        Move(q) == IF q.col >= COLS THEN Feed(q) ELSE q
    IN  CASE ch = "LF" -> Feed(p)
          [] ch = "CR" -> [p EXCEPT !.col = 0]
          [] ch = "BS" -> IF p.col = 0 THEN p
                          ELSE [p EXCEPT !.col = @ - 1, !.lines[n][p.col - 1] = Blank]
          [] ch = "HT" -> Move([p EXCEPT !.col = TabStop(@)])
          [] OTHER     -> Move([p EXCEPT !.col = @ + 1, !.lines[n][p.col] = ch])

paper_puts(p, s) ==
    LET At[k \in 0 .. Len(s)] == IF k = 0 THEN p ELSE paper_putc(At[k - 1], s[k]) IN At[Len(s)]

ShowsEnd(v, p) ==
    /\ v.col = p.col /\ v.row = Len(p.lines) - 1
    /\ \A r \in 0 .. ROWS - 1 :
          v.cells[r] = IF r < Len(p.lines) THEN p.lines[r + 1] ELSE BlankRow

-----------------------------------------------------------------------------
(* The window's text, read row by row, is all that the page should show.   *)
ShowsPage(win) ==
    LET Before(d, e) == d.at[2] < e.at[2] \/ (d.at[2] = e.at[2] /\ d.at[1] < e.at[1])
    IN  /\ Cardinality(win.drawn) = Len(win.page)
        /\ \A d \in win.drawn : win.page[Cardinality({e \in win.drawn : Before(e, d)}) + 1] = d.ch

InsideFrame(win) ==
    \A d \in win.drawn :
        /\ win.x + GUI_BORDER <= d.at[1]
        /\ d.at[1] + FB_FONT_W <= win.x + win.w - GUI_BORDER
        /\ win.y + GUI_TITLEBAR_H <= d.at[2]
        /\ d.at[2] + FB_FONT_H <= win.y + win.h - GUI_BORDER
=============================================================================
