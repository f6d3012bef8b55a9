------------------------------ MODULE Terminal ------------------------------
(***************************************************************************)
(* The terminal emulator (src/vterm.c) and the two modes its buffer shows   *)
(* it in (src/terminal.c): a screen and the alternate screen, the cursor,   *)
(* deferred wrapping, the scrolling region, characters of two columns and   *)
(* the lines scrolled off the top, which line mode shows as text.          *)
(*                                                                         *)
(* Each action is a character or a whole control sequence the program      *)
(* sends, or a command of the user.  Rows and columns count from 0.        *)
(* Left out: colours, tabs, the character sets, reports and the mouse, the  *)
(* parsing of sequences and the limit of 5000 lines.                       *)
(***************************************************************************)
EXTENDS Integers, Sequences, Selection

CONSTANTS ScreenSizes,        \* <<rows, columns>> its window may have
          RESIZES_ALWAYS,     \* whether its size may change at the right margin and, to fewer
                              \* rows, while the alternate screen is shown
          MAX_OUTPUTS         \* sequences sent and commands given

ASSUME TerminalAssumption == /\ ScreenSizes \subseteq (Nat \ {0}) \X (Nat \ {0})
                             /\ RESIZES_ALWAYS \in BOOLEAN

VARIABLES term,      \* the emulator
          asText,    \* whether the buffer is in line mode
          printed,   \* what was printed on the main screen
          onlyText,  \* only text and new lines went there, and nothing moved the cursor
          outputs
termVars == <<term, asText, printed, onlyText, outputs>>

(* A wide character is a cell "W" of two columns and a cell "tail"; in one  *)
(* column, where there is no room, it is "V".                              *)
CellWidth(c) == CASE c = "W" -> 2 [] c = "tail" -> 0 [] OTHER -> 1
BlankRow(n) == [i \in 1 .. n |-> "blank"]
NewScreen(rows, cols) == [y \in 1 .. rows |-> BlankRow(cols)]

AtHome == [x |-> 0, y |-> 0, origin |-> FALSE, pending |-> FALSE]
NewTerm(rows, cols) ==
    [rows |-> rows, cols |-> cols, main |-> NewScreen(rows, cols), alt |-> NewScreen(rows, cols),
     onAlt |-> FALSE, cx |-> 0, cy |-> 0, pending |-> FALSE, top |-> 0, bot |-> rows - 1,
     origin |-> FALSE, autowrap |-> TRUE, insert |-> FALSE,
     savedMain |-> AtHome, savedAlt |-> AtHome, last |-> "none", sb |-> <<>>]

(* start_terminal *)
TermInit == /\ \E s \in ScreenSizes : term = NewTerm(s[1], s[2])
            /\ asText = FALSE /\ printed = <<>> /\ onlyText = TRUE /\ outputs = 0

-----------------------------------------------------------------------------
(* Cells and lines *)

Smaller(a, b) == IF a < b THEN a ELSE b
Larger2(a, b) == IF a > b THEN a ELSE b
Clamped(n, low, high) == Smaller(Larger2(n, low), high)
Rows(t) == IF t.onAlt THEN t.alt ELSE t.main
WithRows(t, rs) == IF t.onAlt THEN [t EXCEPT !.alt = rs] ELSE [t EXCEPT !.main = rs]
CellAt(t, y, x) == Rows(t)[y + 1][x + 1]
WithRow(t, y, r) == WithRows(t, [Rows(t) EXCEPT ![y + 1] = r])
WithCell(t, y, x, c) == WithRow(t, y, [Rows(t)[y + 1] EXCEPT ![x + 1] = c])
Settled(t) == [t EXCEPT !.pending = FALSE]

(* erase: columns x0 up to x1, and the half of a wide character beside them *)
Erased(t, y, x0, x1) ==
    WithRow(t, y, [i \in 1 .. t.cols |->
        LET x == i - 1
            c == CellAt(t, y, x)
        IN  IF \/ x0 <= x /\ x < x1
               \/ x = x0 - 1 /\ CellWidth(c) = 2
               \/ x = x1 /\ CellWidth(c) = 0
            THEN "blank" ELSE c])
ErasedRows(t, from, to) ==
    WithRows(t, [y \in 1 .. t.rows |-> IF y - 1 \in from .. to THEN BlankRow(t.cols) ELSE Rows(t)[y]])

(* scroll_up; lines off the top of the main screen are kept unless deleted  *)
ScrollUp(t, top, bot, count, deleted) ==
    LET n == Smaller(count, bot - top + 1)
        rs == Rows(t)
        kept == IF top = 0 /\ ~t.onAlt /\ ~deleted THEN SubSeq(rs, 1, n) ELSE <<>>
    IN  WithRows([t EXCEPT !.sb = @ \o kept],
                 SubSeq(rs, 1, top) \o SubSeq(rs, top + n + 1, bot + 1)
                   \o NewScreen(n, t.cols) \o SubSeq(rs, bot + 2, t.rows))
ScrollDown(t, top, bot, count) ==
    LET n == Smaller(count, bot - top + 1)
        rs == Rows(t)
    IN  WithRows(t, SubSeq(rs, 1, top) \o NewScreen(n, t.cols)
                      \o SubSeq(rs, top + 1, bot + 1 - n) \o SubSeq(rs, bot + 2, t.rows))

IndexLine(t) ==
    IF t.cy = t.bot THEN ScrollUp(t, t.top, t.bot, 1, FALSE)
    ELSE [t EXCEPT !.cy = IF @ < t.rows - 1 THEN @ + 1 ELSE @]
ReverseIndex(t) ==
    IF t.cy = t.top THEN ScrollDown(t, t.top, t.bot, 1)
    ELSE [t EXCEPT !.cy = IF @ > 0 THEN @ - 1 ELSE @]

-----------------------------------------------------------------------------
(* put_char *)

Wrapped(t) == IF t.pending /\ t.autowrap THEN IndexLine([t EXCEPT !.cx = 0]) ELSE t

(* A wide character that would be cut by the margin goes to the next line.  *)
RoomMade(t, c) ==
    IF c = "W" /\ t.cx = t.cols - 1 /\ t.autowrap
    THEN IndexLine([WithCell(t, t.cy, t.cx, "blank") EXCEPT !.cx = 0]) ELSE t

Overwritten(t, c) ==
    LET w == CellWidth(c)
        old == Rows(t)[t.cy + 1]
        row == IF ~t.insert \/ t.cols - t.cx - w <= 0 THEN old
               ELSE SubSeq(old, 1, t.cx + w) \o SubSeq(old, t.cx + 1, t.cols - w)
    IN  WithRow(t, t.cy, [i \in 1 .. t.cols |->
          LET x == i - 1
          IN  CASE x = t.cx -> c
                [] x = t.cx + 1 /\ w = 2 -> "tail"
                [] x = t.cx - 1 /\ CellWidth(row[t.cx + 1]) = 0 -> "blank"
                [] x = t.cx + w /\ CellWidth(row[t.cx + w]) = 2 -> "blank"
                [] OTHER -> row[i]])

PutChar(t, c) ==
    LET u == RoomMade(Settled(Wrapped(t)), c)
        fits == IF c = "W" /\ (u.cx = u.cols - 1 \/ u.cols < 2) THEN "V" ELSE c
        w == CellWidth(fits)
        full == u.cx + w >= u.cols
    IN  [Overwritten(u, fits) EXCEPT
           !.last = c, !.cx = IF full THEN u.cols - 1 ELSE @ + w, !.pending = full /\ u.autowrap]

-----------------------------------------------------------------------------
(* The cursor *)

MoveTo(t, y, x) ==
    LET top == IF t.origin THEN t.top ELSE 0
        bot == IF t.origin THEN t.bot ELSE t.rows - 1
    IN  [t EXCEPT !.cy = Clamped(y + top, top, bot), !.cx = Clamped(x, 0, t.cols - 1), !.pending = FALSE]

SaveCursor(t) ==
    LET s == [x |-> t.cx, y |-> t.cy, origin |-> t.origin, pending |-> t.pending]
    IN  IF t.onAlt THEN [t EXCEPT !.savedAlt = s] ELSE [t EXCEPT !.savedMain = s]
RestoreCursor_Anywhere(t) ==
    LET s == IF t.onAlt THEN t.savedAlt ELSE t.savedMain
    IN  [t EXCEPT !.cx = s.x, !.cy = s.y, !.origin = s.origin, !.pending = s.pending]
RestoreCursor(t) ==
    LET s == IF t.onAlt THEN t.savedAlt ELSE t.savedMain
    IN  [t EXCEPT !.cx = Smaller(s.x, t.cols - 1), !.cy = Smaller(s.y, t.rows - 1),
                  !.origin = s.origin, !.pending = s.pending]

SetAlternate(t, on, clear) ==
    IF on = t.onAlt THEN t
    ELSE [t EXCEPT !.onAlt = on, !.pending = FALSE,
                   !.alt = IF on /\ clear THEN NewScreen(t.rows, t.cols) ELSE @]

(* reset: all but what the screens show and the last places' wrapping       *)
Reset(t) ==
    [t EXCEPT !.cx = 0, !.cy = 0, !.pending = FALSE, !.top = 0, !.bot = t.rows - 1,
              !.origin = FALSE, !.insert = FALSE, !.autowrap = TRUE, !.onAlt = FALSE,
              !.savedMain = [@ EXCEPT !.x = 0, !.y = 0],
              !.savedAlt = [t.savedMain EXCEPT !.x = 0, !.y = 0]]

-----------------------------------------------------------------------------
(* vterm_resize *)

ResizedCopy(old, rows, cols, skip) ==
    LET cellOf(y, x) == IF y + skip <= Len(old) /\ x <= Len(old[1]) THEN old[y + skip][x] ELSE "blank"
    IN  [y \in 1 .. rows |-> [x \in 1 .. cols |->
            IF x = cols /\ CellWidth(cellOf(y, x)) = 2 THEN "blank" ELSE cellOf(y, x)]]

RowsLost(t, rows) == Larger2(0, t.cy - rows + 1)
PushedOff(t, skip) == IF t.onAlt THEN t.sb ELSE t.sb \o SubSeq(t.main, 1, skip)
Resized(t, rows, cols) ==
    LET skip == RowsLost(t, rows)
    IN  [t EXCEPT !.rows = rows, !.cols = cols, !.sb = PushedOff(t, skip),
                  !.main = ResizedCopy(@, rows, cols, IF t.onAlt THEN 0 ELSE skip),
                  !.alt = ResizedCopy(@, rows, cols, IF t.onAlt THEN skip ELSE 0),
                  !.cy = Clamped(@ - skip, 0, rows - 1), !.cx = Smaller(@, cols - 1),
                  !.pending = FALSE, !.top = 0, !.bot = rows - 1]

-----------------------------------------------------------------------------
(* What the program sends.  `stillText' says whether the main screen still  *)
(* has the text printed and the cursor at its end.                         *)

Sends(t, stillText) ==
    /\ outputs < MAX_OUTPUTS
    /\ outputs' = outputs + 1
    /\ term' = t
    /\ onlyText' = (onlyText /\ stillText)
    /\ UNCHANGED <<asText, printed>>

PutText ==
    \E c \in {"a", "W"} :
      /\ outputs < MAX_OUTPUTS
      /\ outputs' = outputs + 1
      /\ term' = PutChar(term, c)
      /\ printed' = IF term.onAlt THEN printed ELSE Append(printed, c)
      /\ UNCHANGED <<asText, onlyText>>
NewLine == Sends(Settled(IndexLine([term EXCEPT !.cx = 0])), TRUE)
Return == Sends([Settled(term) EXCEPT !.cx = 0], term.onAlt)
LineFeed == Sends(Settled(IndexLine(term)), TRUE)
ReverseLine == Sends(Settled(ReverseIndex(term)), term.onAlt)
RepeatLast == term.last # "none" /\ Sends(PutChar(PutChar(term, term.last), term.last), term.onAlt)

CursorTo == \E y \in 0 .. term.rows - 1, x \in 0 .. term.cols - 1 :
              Sends(MoveTo(term, y, x), term.onAlt)
(* CUU, CUD, CNL and CPL *)
CursorUp == Sends([Settled(term) EXCEPT
                     !.cy = Larger2(@ - 1, IF @ >= term.top THEN term.top ELSE 0)], term.onAlt)
CursorDown == Sends([Settled(term) EXCEPT
                     !.cy = Smaller(@ + 1, IF @ <= term.bot THEN term.bot ELSE term.rows - 1)], term.onAlt)
CursorForward == Sends([Settled(term) EXCEPT !.cx = Smaller(@ + 1, term.cols - 1)], term.onAlt)
CursorBack == Sends([Settled(term) EXCEPT !.cx = Larger2(@ - 1, 0)], term.onAlt)
NextLine == Sends([Settled(term) EXCEPT !.cy = Smaller(@ + 1, term.bot), !.cx = 0], term.onAlt)
PreviousLine == Sends([Settled(term) EXCEPT !.cy = Larger2(@ - 1, term.top), !.cx = 0], term.onAlt)

EraseScreen ==
    \E how \in 0 .. 2 :
      LET t == term
      IN  Sends(Settled(CASE how = 0 -> ErasedRows(Erased(t, t.cy, t.cx, t.cols), t.cy + 1, t.rows)
                          [] how = 1 -> ErasedRows(Erased(t, t.cy, 0, t.cx + 1), 0, t.cy - 1)
                          [] how = 2 -> ErasedRows(t, 0, t.rows)), t.onAlt)
EraseLine ==
    \E how \in 0 .. 2 :
      Sends(Settled(Erased(term, term.cy, IF how = 0 THEN term.cx ELSE 0,
                           IF how = 1 THEN term.cx + 1 ELSE term.cols)), term.onAlt)
ForgetScrolled == Sends([Settled(term) EXCEPT !.sb = <<>>], FALSE)
EraseCharacters == \E n \in 1 .. 2 : Sends(Settled(Erased(term, term.cy, term.cx, term.cx + n)), term.onAlt)

InsertCharacters ==
    \E k \in 1 .. 2 :
      LET t == term
          n == Smaller(k, t.cols - t.cx)
          r == Rows(t)[t.cy + 1]
      IN  Sends(Settled(WithRow(t, t.cy, SubSeq(r, 1, t.cx) \o BlankRow(n)
                                           \o SubSeq(r, t.cx + 1, t.cols - n))), t.onAlt)
DeleteCharacters ==
    \E k \in 1 .. 2 :
      LET t == term
          n == Smaller(k, t.cols - t.cx)
          r == Rows(t)[t.cy + 1]
      IN  Sends(Settled(WithRow(t, t.cy, SubSeq(r, 1, t.cx) \o SubSeq(r, t.cx + n + 1, t.cols)
                                           \o BlankRow(n))), t.onAlt)

InRegion(t) == t.top <= t.cy /\ t.cy <= t.bot
InsertLines ==
    Sends(Settled(IF InRegion(term) THEN [ScrollDown(term, term.cy, term.bot, 1) EXCEPT !.cx = 0]
                  ELSE term), term.onAlt)
DeleteLines ==
    Sends(Settled(IF InRegion(term) THEN [ScrollUp(term, term.cy, term.bot, 1, TRUE) EXCEPT !.cx = 0]
                  ELSE term), term.onAlt)
ScrollScreen == Sends(ScrollUp(term, term.top, term.bot, 1, FALSE), term.onAlt)
ScrollBack == Sends(ScrollDown(term, term.top, term.bot, 1), term.onAlt)

SetRegion ==
    \E top \in 0 .. term.rows - 1, bot \in 0 .. term.rows - 1 :
      /\ top < bot
      /\ Sends(MoveTo([term EXCEPT !.top = top, !.bot = bot], 0, 0), FALSE)
SetOrigin == \E on \in BOOLEAN : Sends(MoveTo([term EXCEPT !.origin = on], 0, 0), FALSE)
SetAutowrap == \E on \in BOOLEAN :
                 Sends([term EXCEPT !.autowrap = on, !.pending = on /\ @], on /\ term.autowrap)
SetInsert == \E on \in BOOLEAN : Sends([term EXCEPT !.insert = on], ~on /\ ~term.insert)

Save == Sends(SaveCursor(term), TRUE)
Restore == Sends(RestoreCursor(term), FALSE)
SwitchScreen == \E on \in BOOLEAN : Sends(SetAlternate(term, on, on), FALSE)
EnterAlternate == Sends(SetAlternate(SaveCursor(term), TRUE, TRUE), ~term.onAlt)
LeaveAlternate == Sends(RestoreCursor(SetAlternate(term, FALSE, FALSE)), term.onAlt)
SoftReset == Sends(Reset(term), FALSE)
FullReset == Sends(ErasedRows(Reset(term), 0, term.rows), FALSE)

-----------------------------------------------------------------------------
(* The window and the modes of the buffer *)

(* shell_draw: only char mode gives the terminal its window's size          *)
ChangeSize ==
    \E s \in ScreenSizes :
      /\ ~asText
      /\ s # <<term.rows, term.cols>>
      /\ term.pending \/ (term.onAlt /\ s[1] < term.rows) => RESIZES_ALWAYS
      /\ Sends(Resized(term, s[1], s[2]), s[2] >= term.cols)

(* enter_line_mode and enter_char_mode *)
TermMode == /\ outputs < MAX_OUTPUTS
            /\ outputs' = outputs + 1
            /\ asText' = ~asText
            /\ UNCHANGED <<term, printed, onlyText>>

TermNext ==
    \/ PutText \/ NewLine \/ Return \/ LineFeed \/ ReverseLine \/ RepeatLast
    \/ CursorTo \/ CursorUp \/ CursorDown \/ CursorForward \/ CursorBack
    \/ NextLine \/ PreviousLine
    \/ EraseScreen \/ EraseLine \/ ForgetScrolled \/ EraseCharacters \/ InsertCharacters \/ DeleteCharacters
    \/ InsertLines \/ DeleteLines \/ ScrollScreen \/ ScrollBack
    \/ SetRegion \/ SetOrigin \/ SetAutowrap \/ SetInsert
    \/ Save \/ Restore \/ SwitchScreen \/ EnterAlternate \/ LeaveAlternate \/ SoftReset \/ FullReset
    \/ ChangeSize \/ TermMode

TermSpec == TermInit /\ [][TermNext]_termVars

-----------------------------------------------------------------------------
(* Properties *)

CharacterOf(c) == CASE c \in {"blank", "tail"} -> <<>> [] c = "V" -> <<"W">> [] OTHER -> <<c>>
TextOf(row) == Chained([x \in DOMAIN row |-> CharacterOf(row[x])])
Characters(rs) == Chained([y \in DOMAIN rs |-> TextOf(rs[y])])

(* Whatever is sent, and however the window changes meanwhile, the cursor   *)
(* and the scrolling region are on the screens, and these have the size of  *)
(* the window: what is saved in one size is restored in another.           *)
ScreenSound ==
    /\ term.cx \in 0 .. term.cols - 1 /\ term.cy \in 0 .. term.rows - 1
    /\ 0 <= term.top /\ term.top <= term.bot /\ term.bot < term.rows
    /\ \A s \in {term.main, term.alt} :
         Len(s) = term.rows /\ \A y \in DOMAIN s : Len(s[y]) = term.cols

(* Text that was printed is on the main screen or among the lines scrolled  *)
(* off it, once and in order, across wrapping, changes of the window's size *)
(* and visits to the alternate screen ("Keep the cursor line on the main    *)
(* screen, pushing lines off the top").                                     *)
HistoryKept == onlyText => Characters(term.sb \o term.main) = printed

(* Whatever a program prints and however the terminal's size changes, every *)
(* cell and the cursor are on the screen (vterm_resize, restore_cursor),    *)
(* and lines that went off its top are in the history, in order             *)
(* (scroll_up).                                                             *)
TerminalKept == ScreenSound /\ HistoryKept
=============================================================================
