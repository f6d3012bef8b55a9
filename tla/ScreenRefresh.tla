--------------------------- MODULE ScreenRefresh ---------------------------
(***************************************************************************)
(* Drawing in a terminal (src/screen.c, src/term.c): windows and the        *)
(* minibuffer are drawn into cells, and what differs from what the terminal *)
(* is believed to show is written to it.  The terminal itself is external:  *)
(* it knows only characters and cursor moves.                              *)
(*                                                                         *)
(* A cell holds the glyphs of one place, a character and its marks; the     *)
(* right half of a wide one holds none.  Abstracted: faces and attributes,  *)
(* tabs, gutters, scroll bars; there are two windows side by side, of one   *)
(* row each, and the minibuffer below.                                     *)
(***************************************************************************)
EXTENDS Integers, FiniteSetsExt, SequencesExt

CONSTANTS
    ScreenLines,     \* what lines of text show: sequences of glyphs
    Widths,          \* widths a terminal may have
    HALVES_COVERED,  \* may a drawing cover one half of a wide character
    MAX_CELL,        \* glyphs that fit a cell
    MAX_DRAWINGS                                                 \* bound

VARIABLES
    scr,      \* what is to be shown: cells and cursor
    phys,     \* what is believed to be displayed
    tty,      \* the terminal
    winch,    \* signals not yet handled: winch_pending,
    cont,     \* cont_pending
    shown,    \* history: nothing was drawn since the last refresh
    drawings
screenVars == <<scr, phys, tty, winch, cont, shown, drawings>>

ROWS == 2
Bottom == ROWS - 1
Blank == <<" ">>
RightHalf == <<>>
Invalid == <<"invalid">>            \* ~phys_valid
NoCursor == <<"unknown">>

Wide(g) == g = "W"
IsMark(g) == g = "m"
GlyphWidth(g) == IF IsMark(g) THEN 0 ELSE IF Wide(g) \/ g = "C" THEN 2 ELSE 1
ColumnsOf(c) == IF c # <<>> /\ Wide(c[1]) THEN 2 ELSE 1

BlankCells(cols) == [p \in (0 .. Bottom) \X (0 .. cols - 1) |-> Blank]

-----------------------------------------------------------------------------
(* The terminal *)

(* Writing over half of a wide character erases the other half.             *)
Halved(cells, p) ==
    LET left == <<p[1], p[2] - 1>>
        right == <<p[1], p[2] + 1>>
        c1 == IF cells[p] = RightHalf /\ left \in DOMAIN cells THEN [cells EXCEPT ![left] = Blank] ELSE cells
    IN  IF ColumnsOf(cells[p]) = 2 /\ right \in DOMAIN cells THEN [c1 EXCEPT ![right] = Blank] ELSE c1

Scrolled(t) ==
    [t EXCEPT !.cells = [p \in DOMAIN @ |-> IF p[1] < Bottom THEN @[<<p[1] + 1, p[2]>>] ELSE Blank]]

(* After the last column the next character goes to the next line.          *)
AtMargin(t, w) ==
    IF t.x + w <= t.cols THEN t
    ELSE IF t.y < Bottom THEN [t EXCEPT !.y = @ + 1, !.x = 0] ELSE [Scrolled(t) EXCEPT !.x = 0]

Written(t, cell) ==
    LET w == ColumnsOf(cell)
        at == AtMargin(t, w)
        p == <<at.y, at.x>>
        q == <<at.y, at.x + 1>>
        one == [Halved(at.cells, p) EXCEPT ![p] = cell]
    IN  [at EXCEPT !.cells = IF w = 1 THEN one ELSE [Halved(one, q) EXCEPT ![p] = cell, ![q] = RightHalf],
                   !.x = @ + w]
CursorAt(t, y, x) == [t EXCEPT !.y = y, !.x = IF x < t.cols THEN x ELSE t.cols - 1]

-----------------------------------------------------------------------------
(* Drawing into the virtual screen *)

TermMove(s, y, x) == [s EXCEPT !.y = y, !.x = IF x < s.cols THEN x ELSE s.cols - 1]

PutCell(s, g) ==
    LET w == IF Wide(g) THEN 2 ELSE 1
        fits == w = 1 \/ s.x + 1 < s.cols
        to == s.x + (IF fits THEN w ELSE 1)
        p == <<s.y, s.x>>
        one == [s.cells EXCEPT ![p] = IF fits THEN <<g>> ELSE Blank]
    IN  [s EXCEPT !.cells = IF fits /\ w = 2 THEN [one EXCEPT ![<<s.y, s.x + 1>>] = RightHalf] ELSE one,
                  !.y = IF to >= s.cols /\ @ < Bottom THEN @ + 1 ELSE @,
                  !.x = IF to < s.cols THEN to ELSE IF s.y < Bottom THEN 0 ELSE s.cols - 1]

PutCombining(s, g) ==
    LET p == <<s.y, s.x - 1>>
        at == IF s.cells[p] = RightHalf /\ s.x >= 2 THEN <<s.y, s.x - 2>> ELSE p
    IN  IF s.x = 0 \/ Len(s.cells[at]) >= MAX_CELL THEN s
        ELSE [s EXCEPT !.cells[at] = Append(@, g)]

(* A control character is two: ^ and a letter.                              *)
AddGlyph(s, g) ==
    IF IsMark(g) THEN PutCombining(s, g)
    ELSE IF g = "C" THEN PutCell(PutCell(s, "^"), "c")
    ELSE PutCell(s, g)
AddText(s, text) == FoldLeft(AddGlyph, s, text)
AddSpaces(s, n) == AddText(s, [i \in 1 .. n |-> " "])

(* draw_row: columns of the line from `startcol' on, in `ew' columns        *)
RowStep(startcol, ew, d, g) ==
    LET w == GlyphWidth(g)
        passed == [d EXCEPT !.col = @ + w, !.i = @ + 1]
        straddles == Min({d.col + w - startcol, ew - d.x})
    IN  IF d.over THEN d
        ELSE IF d.col + w <= startcol THEN passed
        ELSE IF d.col < startcol THEN [passed EXCEPT !.s = AddSpaces(@, straddles), !.x = @ + straddles]
        ELSE IF d.x >= ew THEN [d EXCEPT !.over = TRUE]
        ELSE IF d.x + w > ew THEN [passed EXCEPT !.s = AddSpaces(@, ew - d.x), !.x = ew, !.over = TRUE]
        ELSE [passed EXCEPT !.s = AddGlyph(@, g), !.x = @ + w]

DrawRow(s, leftcol, ew, text, startcol, truncate) ==
    LET step(d, g) == RowStep(startcol, ew, d, g)
        d == FoldLeft(step, [s |-> TermMove(s, 0, leftcol), x |-> 0, col |-> 0, i |-> 0, over |-> FALSE], text)
        ended == IF truncate /\ d.x >= ew /\ d.i < Len(text) THEN PutCell(TermMove(d.s, 0, leftcol + ew - 1), "$")
                 ELSE AddSpaces(d.s, ew - d.x)
    IN  IF truncate /\ startcol > 0 THEN PutCell(TermMove(ended, 0, leftcol), "$") ELSE ended

LeftWidth(s) == (s.cols - 2) \div 2
RightStart(s) == LeftWidth(s) + 2
Separator(s) == AddText(TermMove(s, 0, LeftWidth(s)), <<"|", " ">>)

TextWidth(text) == FoldLeft(LAMBDA n, g : n + GlyphWidth(g), 0, text)
Fitting(ew) == {l \in ScreenLines : TextWidth(l) <= ew}
Columns(text) == {TextWidth(SubSeq(text, 1, i)) : i \in 0 .. Len(text)}

MinibufFilled(s) == TermMove(AddSpaces(TermMove(s, Bottom, 0), s.cols), Bottom, 0)

(* draw_read, after a prompt of a column.  A mark counts for a column.      *)
ShownWidth(text) == FoldLeft(LAMBDA n, g : n + (IF IsMark(g) THEN 1 ELSE GlyphWidth(g)), 0, text)
DrawRead(s, val, point) ==
    LET cursor == ShownWidth(SubSeq(val, 1, point))
        scrolls == cursor + 2 >= s.cols
        avail == IF scrolls /\ s.cols > 2 THEN s.cols - 2 ELSE s.cols - 1
        col(i) == TextWidth(SubSeq(val, 1, i))
        n == IF ~scrolls THEN 0
             ELSE Min({i \in 0 .. Len(val) : i = Len(val) \/ cursor - col(i) <= (avail * 2) \div 3})
        margin == IF scrolls THEN 2 ELSE 1
        filled == MinibufFilled(s)
        text == AddText(filled, (IF scrolls THEN <<"?", "$">> ELSE <<"?">>) \o SubSeq(val, n + 1, Len(val)))
        marked == IF ShownWidth(val) - col(n) + margin >= avail + 1
                  THEN PutCell(TermMove(text, Bottom, s.cols - 1), "$") ELSE text
    IN  TermMove(marked, Bottom, 1 + margin - 1 + cursor - col(n))

-----------------------------------------------------------------------------
(* term_refresh *)

ScreenPlaces(s) == [i \in 1 .. ROWS * s.cols |-> <<(i - 1) \div s.cols, (i - 1) % s.cols>>]

(* Where the terminal's cursor is believed to be after a cell               *)
AfterCell(s, p) ==
    LET x == p[2] + (IF p[2] + 1 < s.cols /\ s.cells[<<p[1], p[2] + 1>>] = RightHalf THEN 2 ELSE 1)
    IN  IF x >= s.cols THEN NoCursor ELSE <<p[1], x>>

RefreshCell(s, r, p) ==
    LET want == s.cells[p]
        moved == IF r.at = p THEN r.tty ELSE CursorAt(r.tty, p[1], p[2])
    IN  IF want = r.phys[p] THEN r
        ELSE IF want = RightHalf THEN [r EXCEPT !.phys[p] = want]
        ELSE [tty |-> Written(moved, want), phys |-> [r.phys EXCEPT ![p] = want], at |-> AfterCell(s, p)]

Refreshed(s, believed) ==
    LET cell(r, p) == RefreshCell(s, r, p)
        start == IF believed # Invalid THEN [tty |-> tty, phys |-> believed, at |-> NoCursor]
                 ELSE [tty |-> [tty EXCEPT !.cells = BlankCells(tty.cols), !.y = 0, !.x = 0],
                       phys |-> BlankCells(s.cols), at |-> NoCursor]
        r == FoldLeft(cell, start, ScreenPlaces(s))
    IN  [r EXCEPT !.tty = CursorAt(@, s.y, s.x)]

RefreshWith(s, believed) ==
    LET r == Refreshed(s, believed)
    IN  /\ scr' = s /\ phys' = r.phys /\ tty' = r.tty
        /\ shown' = TRUE

(* Drawings in which a wide character keeps both halves, or loses both      *)
Whole(s) ==
    \A p \in DOMAIN s.cells :
        (ColumnsOf(s.cells[p]) = 2) <=> (<<p[1], p[2] + 1>> \in DOMAIN s.cells /\ s.cells[<<p[1], p[2] + 1>>] = RightHalf)
MayDraw(s) == HALVES_COVERED \/ Whole(s)

-----------------------------------------------------------------------------
(* Actions *)

BlankScreen(cols) == [cols |-> cols, cells |-> BlankCells(cols), y |-> 0, x |-> 0]

ScreenInit ==
    /\ \E c \in Widths : scr = BlankScreen(c) /\ tty = BlankScreen(c)
    /\ phys = Invalid
    /\ winch = FALSE /\ cont = FALSE /\ shown = FALSE /\ drawings = 0

Drawing == drawings < MAX_DRAWINGS /\ drawings' = drawings + 1

(* term_redisplay, with the lines the windows show.  The right one wraps.   *)
Windows(s, l, start, truncate, r) ==
    LET left == DrawRow(s, 0, LeftWidth(s), l, start, truncate)
        right == DrawRow(Separator(left), RightStart(s), s.cols - RightStart(s), r, 0, FALSE)
    IN  TermMove(right, 0, 0)
Redisplay ==
    \E l, r \in ScreenLines, truncate \in BOOLEAN :
    \E start \in IF truncate THEN Columns(l) ELSE {0} :
        /\ Drawing /\ (~truncate => l \in Fitting(LeftWidth(scr)))
        /\ r \in Fitting(scr.cols - RightStart(scr))
        /\ scr' = Windows(scr, l, start, truncate, r) /\ MayDraw(scr')
        /\ shown' = FALSE /\ UNCHANGED <<phys, tty, winch, cont>>

TermRefresh == ~shown /\ RefreshWith(scr, phys) /\ UNCHANGED <<winch, cont, drawings>>

(* minibuf_write, which leaves the cursor in the window                     *)
Message ==
    \E l \in ScreenLines :
        LET s == TermMove(AddText(MinibufFilled(scr), l), 0, 0)
        IN  Drawing /\ MayDraw(s) /\ RefreshWith(s, phys) /\ UNCHANGED <<winch, cont>>

Reading ==
    \E val \in ScreenLines : \E point \in 0 .. Len(val) :
        LET s == DrawRead(scr, val, point)
        IN  Drawing /\ MayDraw(s) /\ RefreshWith(s, phys) /\ UNCHANGED <<winch, cont>>

(* The terminal's window changes size, or the program is stopped and goes   *)
(* on: what the terminal shows is gone.                                    *)
WindowResized ==
    \E c \in Widths :
        /\ c # tty.cols /\ Drawing
        /\ tty' = BlankScreen(c) /\ winch' = TRUE
        /\ UNCHANGED <<scr, phys, cont, shown>>
Stopped ==
    /\ Drawing
    /\ tty' = BlankScreen(tty.cols) /\ cont' = TRUE
    /\ UNCHANGED <<scr, phys, winch, shown>>

(* get_char, handle_signal_wakeup: when a key is awaited                    *)
GetResize ==
    \E l, r \in ScreenLines :
        LET s == Windows(BlankScreen(tty.cols), l, 0, FALSE, r)
        IN  /\ winch
            /\ l \in Fitting(LeftWidth(tty)) /\ r \in Fitting(tty.cols - RightStart(tty))
            /\ RefreshWith(s, Invalid) /\ winch' = FALSE /\ UNCHANGED <<cont, drawings>>
Woken_Believing == cont /\ RefreshWith(scr, phys) /\ cont' = FALSE /\ UNCHANGED <<winch, drawings>>
Woken == cont /\ RefreshWith(scr, Invalid) /\ cont' = FALSE /\ UNCHANGED <<winch, drawings>>

ScreenNext ==
    Redisplay \/ TermRefresh \/ Message \/ Reading \/ WindowResized \/ Stopped \/ GetResize \/ Woken

-----------------------------------------------------------------------------
(* Property *)

(* Only what changed is written, at a cursor that is followed through wide  *)
(* characters and the right margin; yet once it is, and no signal waits,    *)
(* the terminal shows every cell, and the cursor, as drawn.                 *)
ScreenShown ==
    shown /\ ~winch /\ ~cont => tty.cells = scr.cells /\ tty.y = scr.y /\ tty.x = scr.x
=============================================================================
