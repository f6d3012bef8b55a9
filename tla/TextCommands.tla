---------------------------- MODULE TextCommands ----------------------------
(***************************************************************************)
(* Commands on lines, words and paragraphs (src/line.c, src/funcs.c), on    *)
(* one buffer.  `goalc' is the column that moves between lines aim at;      *)
(* going to the end of a line sets it to NOPOS, past any column.  A loop    *)
(* that runs over the text a step at a time, and might not end, is an       *)
(* action; the others are in closed form.                                  *)
(*                                                                         *)
(* Offsets count from 0, elements of a sequence from 1.  Abstracted: no     *)
(* tabs, wide characters or brackets; arguments are 1; windows do not wrap; *)
(* tab-always-indent is nil.                                               *)
(***************************************************************************)
EXTENDS Integers, FiniteSetsExt, SequencesExt

CONSTANTS
    TextsToEdit,
    FILL_COLUMN, TAB_WIDTH,
    SIZE,         \* 2^w for the width of a size_t
    EDGES,        \* the cases to run: see Edge
    MAX_TEXT_COMMANDS                                            \* bound

VARIABLES
    ed,        \* the buffer
    running,   \* the command that is looping
    did,       \* history: the last command
    ran        \* commands given
lineVars == <<ed, running, did, ran>>

Newline == "\n"
Lower == <<"a", "b">>
Upper == <<"A", "B">>
IsWord(c) == c \in ToSet(Lower) \cup ToSet(Upper)
NOPOS == SIZE - 1
NoMark == -1

(* Cases in which a command does not do what it should: they are run where  *)
(* EDGES names them.                                                       *)
Edge(case, rare) == case \in EDGES \/ ~rare

-----------------------------------------------------------------------------
(* Lines, and moving *)

CharAt(t, o) == t[o + 1]
LineStart(t, o) == Max({i \in 0 .. o : i = 0 \/ t[i] = Newline})
LineEnd(t, o) == Min({i \in o .. Len(t) : i = Len(t) \/ t[i + 1] = Newline})
LineText(t, o) == SubSeq(t, LineStart(t, o) + 1, LineEnd(t, o))
LineStarts(t) == {i \in 0 .. Len(t) : i = 0 \/ t[i] = Newline}
IsLast(t, o) == LineEnd(t, o) = Len(t)
NextLine(t, o) == LineEnd(t, o) + 1
PrevLine(t, o) == LineStart(t, LineStart(t, o) - 1)
EmptyLine(t, o) == LineText(t, o) = <<>>
BlankLine(t, o) == ToSet(LineText(t, o)) \subseteq {" "}

LineInit ==
    /\ \E t \in TextsToEdit, o \in 0 .. 6, fills \in BOOLEAN, reads \in BOOLEAN :
         /\ o <= Len(t)
         /\ ed = [text |-> t, pt |-> o, goalc |-> o - LineStart(t, o), mark |-> NoMark, active |-> FALSE,
                  kept |-> <<>>, back |-> FALSE, autofill |-> fills, readonly |-> reads]
    /\ running = "none" /\ did = "none" /\ ran = 0

At(e, o) == [e EXCEPT !.pt = o, !.goalc = o - LineStart(e.text, o)]
Bol(e) == At(e, LineStart(e.text, e.pt))
ToLineEnd(e) == [e EXCEPT !.pt = LineEnd(e.text, e.pt), !.goalc = NOPOS]

(* buffer_move_char by -1, but at the beginning                             *)
CharBack(e) == IF e.text[e.pt] = Newline THEN [At(e, e.pt - 1) EXCEPT !.goalc = NOPOS] ELSE At(e, e.pt - 1)

CanMoveLine(e, d) == IF d > 0 THEN ~IsLast(e.text, e.pt) ELSE LineStart(e.text, e.pt) > 0
LineMoved(e, d) ==
    LET lo == IF ~CanMoveLine(e, d) THEN LineStart(e.text, e.pt)
              ELSE IF d > 0 THEN NextLine(e.text, e.pt) ELSE PrevLine(e.text, e.pt)
    IN  [e EXCEPT !.pt = Min({lo + e.goalc, LineEnd(e.text, lo)})]

(* buffer_move_word: to the end, or the beginning, of the next word         *)
WordsAfter(e) == {o \in e.pt .. Len(e.text) - 1 : IsWord(CharAt(e.text, o))}
WordsBefore(e) == {o \in 1 .. e.pt : IsWord(e.text[o])}
WordMoved(e, d) ==
    IF d > 0
    THEN At(e, IF WordsAfter(e) = {} THEN Len(e.text)
               ELSE Min({o \in Min(WordsAfter(e)) .. Len(e.text) :
                           o = Len(e.text) \/ ~IsWord(CharAt(e.text, o))}))
    ELSE At(e, IF WordsBefore(e) = {} THEN 0
               ELSE Max({o \in 0 .. Max(WordsBefore(e)) : o = 0 \/ ~IsWord(e.text[o])}))

(* move_paragraph: over empty lines, then to one                            *)
Ahead(e, o, d, empty) ==
    LET starts == {s \in LineStarts(e.text) : IF d > 0 THEN s >= o ELSE s <= o}
        found == {s \in starts : EmptyLine(e.text, s) = empty}
        set == IF found = {} THEN starts ELSE found
    IN  IF (d > 0) = (found # {}) THEN Min(set) ELSE Max(set)
ParagraphMoved(e, d) ==
    LET s == Ahead(e, Ahead(e, LineStart(e.text, e.pt), d, FALSE), d, TRUE)
    IN  IF d < 0 \/ EmptyLine(e.text, s) THEN At(e, s) ELSE ToLineEnd(At(e, s))

-----------------------------------------------------------------------------
(* Changing the text: buffer_replace_estr and region_delete *)

Shifted(m, o, del, new) == IF m > o THEN Max({o, (m + new + SIZE - del) % SIZE}) ELSE m
Substituted(e, del, s) ==
    LET at(m) == Shifted(m, e.pt, del, Len(s))
    IN  IF e.readonly THEN e
        ELSE [At([e EXCEPT !.text = SubSeq(@, 1, e.pt) \o s \o SubSeq(@, e.pt + del + 1, Len(@))], e.pt + Len(s))
                EXCEPT !.mark = at(@), !.kept = [i \in DOMAIN @ |-> at(@[i])]]
Inserted(e, s) == Substituted(e, 0, s)

(* Point is kept by a marker.  `pt' may be no place in the text then.       *)
Cut(e, from, to) ==
    LET r == Substituted(At(e, from), to - from, <<>>)
        p == IF e.readonly THEN e.pt ELSE Shifted(e.pt, from, to - from, 0)
    IN  IF p <= Len(r.text) THEN At(r, p) ELSE [r EXCEPT !.pt = p]

(* Characters deleted one by one, each adjusting the markers                *)
Squeezed(e, from, to) ==
    LET at(m) == IF m <= from THEN m ELSE Max({from, m - (to - from)})
    IN  [At([e EXCEPT !.text = SubSeq(@, 1, from) \o SubSeq(@, to + 1, Len(@))], from)
           EXCEPT !.mark = at(@), !.kept = [i \in DOMAIN @ |-> at(@[i])], !.active = FALSE]

DeleteChar_NotLast(e) == IF e.readonly \/ e.pt >= Len(e.text) - 1 THEN [e EXCEPT !.active = FALSE]
                         ELSE [Substituted(e, 1, <<>>) EXCEPT !.active = FALSE]
DeleteChar(e) == IF e.readonly \/ e.pt = Len(e.text) THEN [e EXCEPT !.active = FALSE]
                 ELSE [Substituted(e, 1, <<>>) EXCEPT !.active = FALSE]

SpaceAfter(e) == e.pt < Len(e.text) /\ CharAt(e.text, e.pt) = " "
SpaceBefore_Any(e) == e.pt > 0
SpaceBefore(e) == e.pt > 0 /\ e.text[e.pt] = " "
FirstSpace(t, o) == Min({i \in 0 .. o : \A k \in i + 1 .. o : t[k] = " "})
LastSpace(t, o) == Max({i \in o .. Len(t) : \A k \in o + 1 .. i : t[k] = " "})
DeleteHorizontalSpace(e) ==
    IF e.readonly THEN At(e, FirstSpace(e.text, e.pt))
    ELSE Squeezed(e, FirstSpace(e.text, e.pt), LastSpace(e.text, e.pt))

-----------------------------------------------------------------------------
(* fill_break_line *)

(* Back to fill-column, at least by a character from the end of a line: past *)
(* line ends, where goalc stays NOPOS                                       *)
BackFrom(e) == IF e.goalc # NOPOS THEN {e.pt} ELSE {o \in 0 .. e.pt - 1 : CharAt(e.text, o) # Newline}
BreakColumn(e) ==
    LET from == Max(BackFrom(e))
        lo == LineStart(e.text, from)
        p == Min({from, lo + FILL_COLUMN + 1})
        left == {i \in 1 .. p - lo : CharAt(e.text, lo + i - 1) = " "}
        right == {i \in p + 1 .. LineEnd(e.text, lo) - 1 : e.text[i] = " "}
    IN  [lo |-> lo, col |-> IF left # {} THEN Max(left) ELSE IF right # {} THEN Min(right) - lo ELSE 0]

Fills(e) == e.goalc > FILL_COLUMN
Breaks(e) == Fills(e) /\ BackFrom(e) # {} /\ BreakColumn(e).col > 0
BrokenAt(e) == At(e, BreakColumn(e).lo + BreakColumn(e).col)
FillBreakLine(e) ==
    LET b == BreakColumn(e)
        k == [BrokenAt(e) EXCEPT !.kept = Append(@, e.pt)]
        n == Inserted(DeleteHorizontalSpace(k), <<Newline>>)
    IN  IF ~Fills(e) THEN e
        ELSE IF b.col > 0 THEN [At(n, Last(n.kept)) EXCEPT !.kept = Front(@)]
             ELSE At(e, b.lo + e.pt - LineStart(e.text, e.pt))

(* It goes on for ever if there is no character to go back to, or if the    *)
(* spaces after the break cannot be deleted.                               *)
CannotGoBack(e) == Fills(e) /\ BackFrom(e) = {}
CannotDelete(e) == e.readonly /\ Breaks(e) /\ SpaceAfter(BrokenAt(e))
AutoFilled(e) == IF e.autofill THEN FillBreakLine(e) ELSE e

-----------------------------------------------------------------------------
(* Moving lines *)

OnLine(e, lo, goal) == [At(e, Min({lo + goal, LineEnd(e.text, lo)})) EXCEPT !.goalc = goal]

MoveLineUp(e) ==
    LET t == e.text
        cur == LineStart(t, e.pt)
        end == IF IsLast(t, cur) THEN Len(t) ELSE NextLine(t, cur)
        prev == PrevLine(t, cur)
        new == IF end = Len(t) THEN LineText(t, cur) \o <<Newline>> \o LineText(t, prev)
               ELSE SubSeq(t, cur + 1, end) \o SubSeq(t, prev + 1, cur)
    IN  IF cur = 0 THEN e
        ELSE [OnLine(Substituted(At(e, prev), end - prev, new), prev, e.pt - cur) EXCEPT !.active = FALSE]

LastIsEmpty(e) == ~IsLast(e.text, e.pt) /\ NextLine(e.text, e.pt) = Len(e.text)

MoveLineDown(e) ==
    LET t == e.text
        cur == LineStart(t, e.pt)
        next == NextLine(t, cur)
        last == IsLast(t, next)
        end == IF last THEN Len(t) ELSE NextLine(t, next)
        new == IF last THEN LineText(t, next) \o <<Newline>> \o LineText(t, cur)
               ELSE SubSeq(t, next + 1, end) \o SubSeq(t, cur + 1, next)
        start == cur + Len(LineText(t, next)) + 1
    IN  IF IsLast(t, cur) THEN e
        ELSE [OnLine(Substituted(At(e, cur), end - cur, new), start, e.pt - cur) EXCEPT !.active = FALSE]

RegionStart(e) == Min({e.pt, e.mark})
RegionEnd(e) == Max({e.pt, e.mark})
RegionText(e) == SubSeq(e.text, RegionStart(e) + 1, RegionEnd(e))
HasRegion(e) == e.active /\ e.mark # NoMark /\ RegionText(e) # <<>>

MoveRegion(e, d) ==
    LET cut == Substituted(At(e, RegionStart(e)), Len(RegionText(e)), <<>>)
        to == LineMoved(cut, d)
    IN  [Inserted(to, RegionText(e)) EXCEPT !.mark = to.pt, !.active = TRUE]

DuplicateLine(e) ==
    LET t == e.text
        line == LineText(t, e.pt)
        lo == LineStart(t, e.pt)
        at == IF IsLast(t, lo) THEN Len(t) ELSE NextLine(t, lo)
        chunk == IF IsLast(t, lo) THEN <<Newline>> \o line ELSE line \o <<Newline>>
        new == Inserted(At(e, at), chunk)
    IN  [At(new, NextLine(new.text, lo) + e.pt - lo) EXCEPT !.active = FALSE]

-----------------------------------------------------------------------------
(* transpose_subr.  `move' is by characters, words or lines; the markers    *)
(* m1 and m2 are kept.                                                     *)

CanMove(e, what, d) ==
    CASE what = "chars" -> IF d > 0 THEN e.pt < Len(e.text) ELSE e.pt > 0
      [] what = "words" -> IF d > 0 THEN WordsAfter(e) # {} ELSE WordsBefore(e) # {}
      [] what = "lines" -> CanMoveLine(e, d)
Move(e, what, d) ==
    CASE what = "chars" -> IF ~CanMove(e, what, d) THEN e ELSE IF d > 0 THEN At(e, e.pt + 1) ELSE CharBack(e)
      [] what = "words" -> WordMoved(e, d)
      [] what = "lines" -> LineMoved(e, d)

TransposeStart(e, what) ==
    CASE what = "chars" -> IF e.pt = LineEnd(e.text, e.pt) THEN Move(e, what, -1) ELSE e
      [] what = "words" -> e
      [] what = "lines" -> IF LineStart(e.text, e.pt) = 0 THEN Move(e, what, 1) ELSE e

(* Its markers are the mark that is restored, and m1.                       *)
Exchanged(e, what) ==
    LET o1 == e.kept[2]
        f1 == Move(At(e, o1), what, 1)
        f2 == Move(Cut(f1, o1, f1.pt), what, 1)
        b2 == Move(f2, what, -1)
        i1 == Inserted(IF what = "lines" THEN f2 ELSE Cut(f2, b2.pt, f2.pt),
                       SubSeq(f1.text, o1 + 1, f1.pt))
        i2 == Inserted(At(i1, o1), SubSeq(f2.text, b2.pt + 1, f2.pt))
    IN  IF what = "lines" THEN i1 ELSE Move(i2, what, 1)

(* Where transpose-lines adds a line when it cannot go forward twice        *)
LineAddedAt(m1) ==
    LET f1 == Move(m1, "lines", 1)
    IN  ToLineEnd(IF CanMove(m1, "lines", 1) THEN Move(f1, "lines", 1) ELSE f1)
GoesTwice(m1, what) == CanMove(m1, what, 1) /\ CanMove(Move(m1, what, 1), what, 1)

Transposed(e, what) ==
    LET s == TransposeStart(e, what)
        first == Move(s, what, -1)
        m1 == [first EXCEPT !.kept = <<IF e.mark = NoMark THEN 0 ELSE e.mark, first.pt>>]
        twice == GoesTwice(m1, what)
        longer == Inserted(AutoFilled(LineAddedAt(m1)), <<Newline>>)
        done == Exchanged(IF twice THEN m1 ELSE longer, what)
    IN  IF ~CanMove(s, what, -1) THEN s
        ELSE IF twice \/ what = "lines" THEN [done EXCEPT !.mark = done.kept[1], !.active = FALSE, !.kept = <<>>]
        ELSE [At(m1, m1.pt) EXCEPT !.mark = m1.kept[1], !.active = TRUE, !.kept = <<>>]

-----------------------------------------------------------------------------
(* Other commands *)

DeleteTrailingWhitespace(e) ==
    LET t == e.text
        goes(o) == t[o] = " " /\ LastSpace(t, o) = LineEnd(t, o)
        before(o) == Cardinality({i \in 1 .. o : goes(i)})
    IN  At([e EXCEPT !.text = FlattenSeq([i \in DOMAIN t |-> IF goes(i) THEN <<>> ELSE <<t[i]>>]),
                     !.mark = IF @ = NoMark THEN @ ELSE @ - before(@)], e.pt - before(e.pt))

(* setcase_word, at the next word if not in one; setcase_region             *)
Cased(c) == IF c \in ToSet(Lower) THEN CHOOSE u \in ToSet(Upper) : \E i \in DOMAIN Lower : Lower[i] = c /\ Upper[i] = u
            ELSE c
UpcaseWord(e) ==
    LET w == IF e.pt < Len(e.text) /\ IsWord(CharAt(e.text, e.pt)) THEN e ELSE WordMoved(WordMoved(e, 1), -1)
        end == WordMoved(w, 1).pt
        word == SubSeq(e.text, w.pt + 1, end)
    IN  IF WordsAfter(e) = {} THEN WordMoved(e, 1)
        ELSE Substituted(w, Len(word), [i \in DOMAIN word |-> Cased(word[i])])
UpcaseRegion(e) ==
    [e EXCEPT !.text = [i \in DOMAIN @ |-> IF i \in RegionStart(e) + 1 .. RegionEnd(e) THEN Cased(@[i]) ELSE @[i]]]

(* The blank lines around the line, one left if there were several          *)
BlankRun(t, o) ==
    LET starts == LineStarts(t)
        blank(a, b) == \A s \in starts : a <= s /\ s <= b => BlankLine(t, s)
        lo == LineStart(t, o)
        after == {s \in starts : s > lo /\ blank(lo + 1, s)}
        before == {s \in starts : s <= lo /\ blank(s, lo)}
        end(s) == IF IsLast(t, s) THEN Len(t) ELSE NextLine(t, s)
    IN  IF before # {} THEN [from |-> Min(before), to |-> end(Max(after \cup {lo})),
                             several |-> Min(before) # lo \/ after # {}]
        ELSE IF after # {} THEN [from |-> Min(after), to |-> end(Max(after)), several |-> FALSE]
        ELSE [from |-> lo, to |-> lo, several |-> FALSE]
InRange(e) == e.pt <= Len(e.text) /\ e.mark <= Len(e.text)
DeleteBlankLines(e) ==
    LET r == BlankRun(e.text, e.pt)
        eob == r.to = Len(e.text) /\ r.from > 0
        from == IF eob THEN r.from - 1 ELSE r.from
        cut == IF from < r.to THEN Cut(At(e, e.pt), from, r.to) ELSE At(e, e.pt)
        left == Inserted(cut, <<Newline>>)
    IN  IF ~InRange(cut) THEN cut   \* no place to go on from
        ELSE [IF ~r.several \/ e.readonly THEN cut ELSE IF eob THEN left ELSE CharBack(left) EXCEPT !.active = FALSE]

(* Indentation, with spaces; a tab at NOPOS, the largest size_t, is short   *)
InsertTab(e) == Inserted(e, [i \in 1 .. TAB_WIDTH - (e.goalc % TAB_WIDTH) |-> " "])
AtNonblank(e) == At(e, LastSpace(e.text, e.pt))
PreviousNonblank(e) ==
    LET lo == LineStart(e.text, e.pt)
        full == {s \in LineStarts(e.text) : s < lo /\ ~BlankLine(e.text, s)}
        at == At(e, IF full = {} THEN 0 ELSE Max(full))
    IN  IF e.goalc = NOPOS THEN At(at, LineEnd(e.text, at.pt)) ELSE At(at, Min({at.pt + e.goalc, LineEnd(e.text, at.pt)}))
IndentTarget(e) ==
    LET p == PreviousNonblank(e)
        end == LineEnd(p.text, p.pt)
        word == Min({o \in p.pt .. end : o = end \/ CharAt(p.text, o) = " "})
        next == LastSpace(p.text, word)
    IN  IF LineStart(e.text, e.pt) = 0 \/ next = end THEN 0 ELSE At(p, next).goalc
IndentRelative(e) ==
    LET target == IndentTarget(e)
        here == IF LineStart(e.text, e.pt) = 0 THEN e ELSE At(e, e.pt)
    IN  [IF target > 0 /\ here.goalc < target
         THEN Inserted(here, [i \in 1 .. target - here.goalc |-> " "])
         ELSE InsertTab(here) EXCEPT !.active = FALSE]
IndentForTab(e) == IF e.goalc < AtNonblank(Bol(LineMoved(e, -1))).goalc THEN IndentRelative(At(e, e.pt)) ELSE At(e, e.pt)
NewlineAndIndent(e) ==
    LET n == Inserted(e, <<Newline>>)
        p == PreviousNonblank(n)
        indents == p.goalc > 0 \/ SpaceAfter(p)
    IN  [IF indents THEN IndentForTab(At(n, n.pt)) ELSE At(n, n.pt) EXCEPT !.active = FALSE]

-----------------------------------------------------------------------------
(* Commands.  Those that look first whether the buffer is read-only do      *)
(* nothing then.                                                           *)

Given(name) == /\ running = "none" /\ ran < MAX_TEXT_COMMANDS
               /\ did' = name /\ ran' = ran + 1
Quick(new) == ed' = new /\ Edge("wraps", ~InRange(new)) /\ running' = "none"
Loop(name, new) == ed' = new /\ running' = name

(* What a command does once the line is filled, if auto-fill is on: filling *)
(* in a loop that does not end changes nothing.                            *)
Filling(e, new) ==
    /\ Edge("empty", e.autofill /\ CannotGoBack(e))
    /\ Edge("read-only", e.autofill /\ CannotDelete(e))
    /\ IF e.autofill /\ (CannotGoBack(e) \/ CannotDelete(e)) THEN Loop("filling", e) ELSE Quick(new)

GotoChar == \E o \in 0 .. Len(ed.text) : o # ed.pt /\ Given("move") /\ Quick(At(ed, o))
GotoEnd == Given("move") /\ Quick(ToLineEnd(ed))
ToParagraph == \E d \in {-1, 1} : Given("move") /\ Quick(ParagraphMoved(ed, d))
BackToIndentation == Given("move") /\ Quick(AtNonblank(Bol(ed)))
SetMark == Given("mark") /\ Quick([ed EXCEPT !.mark = ed.pt, !.active = TRUE])
ExchangePointAndMark ==
    Given("mark") /\ ed.mark # NoMark /\ Quick([At(ed, ed.mark) EXCEPT !.mark = ed.pt, !.active = TRUE])
MarkWord == /\ Given("mark") /\ WordsAfter(ed) # {}
            /\ Quick([At(ed, ed.pt) EXCEPT !.mark = WordMoved(ed, 1).pt, !.active = TRUE])
MarkParagraph ==
    /\ Given("mark")
    /\ LET f == ParagraphMoved(ed, 1)
       IN  Quick([ParagraphMoved(f, -1) EXCEPT !.mark = f.pt, !.active = TRUE])

TypeNewline == Given("space") /\ Filling(ed, Inserted(AutoFilled(ed), <<Newline>>))
TypeSpace == LET e == [ed EXCEPT !.active = FALSE]
             IN  Given("space") /\ Filling(e, Inserted(AutoFilled(e), <<" ">>))
OpenLine == Given("space") /\ ~ed.readonly /\ Quick(CharBack(Inserted(ed, <<Newline>>)))
TabToTabStop == Given("space") /\ ~ed.readonly /\ Quick(InsertTab(ed))
Indent == /\ Given("space")
          /\ \/ ~ed.readonly /\ Quick(IndentRelative(ed))
             \/ Quick(IF ed.readonly THEN At(ed, ed.pt) ELSE IndentForTab(ed))
NewlineThenIndent == Given("space") /\ ~ed.readonly /\ Quick(NewlineAndIndent(ed))
TrailingWhitespace == Given("space") /\ ~ed.readonly /\ Quick(DeleteTrailingWhitespace(ed))
BlankLines == Given("space") /\ Quick(DeleteBlankLines(ed))
Upcase == Given("case") /\ Quick(UpcaseWord(ed))
UpcaseTheRegion == Given("case") /\ ~ed.readonly /\ ed.mark # NoMark /\ Quick(UpcaseRegion(ed))
MoveText ==
    \/ \E d \in {-1, 1} : Given("chars") /\ ~ed.readonly /\ HasRegion(ed) /\ Quick(MoveRegion(ed, d))
    \/ /\ Given("lines") /\ ~ed.readonly /\ ~HasRegion(ed)
       /\ \/ /\ Edge("last line", LastIsEmpty(ed))
             /\ Quick(MoveLineUp(ed))
          \/ Quick(MoveLineDown(ed))
Duplicate == Given("duplicate") /\ ~ed.readonly /\ Quick(DuplicateLine(ed))
TransposeOthers == \E what \in {"chars", "words"} : Given("chars") /\ ~ed.readonly /\ Quick(Transposed(ed, what))
TransposeLines ==
    /\ Given("lines") /\ ~ed.readonly
    /\ Edge("transpose", ed.goalc # 0)
    /\ LET m1 == Move(TransposeStart(ed, "lines"), "lines", -1)
       IN  IF CanMove(TransposeStart(ed, "lines"), "lines", -1) /\ ~GoesTwice(m1, "lines")
           THEN Filling(LineAddedAt(m1), Transposed(ed, "lines"))
           ELSE Quick(Transposed(ed, "lines"))

(* Those that loop.  A fill keeps two markers: point, and the last line.  In *)
(* a read-only buffer spaces after point stay, as do lines to be joined and *)
(* a line that is still too long.                                          *)
HorizontalSpace == \E name \in {"spaces", "one space"} :
                     /\ Edge("read-only", ed.readonly /\ SpaceAfter(ed))
                     /\ Given("space") /\ Loop(name, ed)
FillTo(e) == LET f == ParagraphMoved(e, 1)
             IN  IF EmptyLine(f.text, f.pt) THEN LineMoved(f, -1) ELSE f
FillFrom(e) == LET b == ParagraphMoved(e, -1)
               IN  IF EmptyLine(b.text, b.pt) THEN LineMoved(b, 1) ELSE b
StillBreaks(e) == Breaks(e) /\ (SpaceAfter(BrokenAt(e)) \/ Breaks(At(e, e.pt)))
FillParagraph ==
    \E end \in {FillTo(ed)} : \E at \in {FillFrom(end)} : \E line \in {ToLineEnd(at)} :
      LET joins == LineEnd(at.text, at.pt) < end.pt
      IN  /\ Given("space") /\ Loop("joining", [at EXCEPT !.kept = <<ed.pt, end.pt>>])
          /\ Edge("empty", ~joins /\ CannotGoBack(line))
          /\ Edge("read-only", ed.readonly /\ (joins \/ StillBreaks(line)))

(* Within a command: what runs next, with what buffer                       *)
Then(name, new) == Loop(name, new) /\ UNCHANGED <<did, ran>>

(* The spaces after point, then those before it: what comes after it is not *)
(* looked at again.                                                        *)
NoneAfter == ed.back \/ ~SpaceAfter(ed)
DeletingSpaces ==
    /\ running \in {"spaces", "one space", "joined", "broken"}
    /\ \/ ~NoneAfter /\ Then(running, DeleteChar(ed))
       \/ NoneAfter /\ SpaceBefore(ed) /\ Then(running, [DeleteChar(CharBack(ed)) EXCEPT !.back = TRUE])
SpacesDeleted ==
    LET e == [ed EXCEPT !.back = FALSE]
    IN  /\ NoneAfter /\ ~SpaceBefore(ed)
        /\ \/ running = "spaces" /\ Then("none", e)
           \/ running = "one space" /\ Then("none", Inserted(e, <<" ">>))
           \/ running = "joined" /\ Then("joining", Inserted(e, <<" ">>))
           \/ running = "broken" /\ LET n == Inserted(e, <<Newline>>)
                                    IN  Then("breaking", [At(n, n.kept[3]) EXCEPT !.kept = Front(@)])
Joining ==
    /\ running = "joining"
    /\ \/ LineEnd(ed.text, ed.pt) < ed.kept[2] /\ Then("joined", DeleteChar(ToLineEnd(ed)))
       \/ LineEnd(ed.text, ed.pt) >= ed.kept[2] /\ Then("breaking", ToLineEnd(ed))
Breaking ==
    /\ running = "breaking"
    /\ ~CannotGoBack(ed)
    /\ \/ Breaks(ed) /\ Then("broken", [BrokenAt(ed) EXCEPT !.kept = Append(@, ed.pt)])
       \/ ~Breaks(ed) /\ Then("none", [At(ed, ed.kept[1]) EXCEPT !.kept = <<>>])

LineLoop == DeletingSpaces \/ SpacesDeleted \/ Joining \/ Breaking
LineCommand ==
    \/ GotoChar \/ GotoEnd \/ ToParagraph \/ BackToIndentation \/ SetMark \/ ExchangePointAndMark
    \/ MarkWord \/ MarkParagraph \/ TypeNewline \/ TypeSpace \/ OpenLine \/ TabToTabStop \/ Indent
    \/ NewlineThenIndent \/ TrailingWhitespace \/ BlankLines \/ Upcase \/ UpcaseTheRegion \/ MoveText
    \/ Duplicate \/ TransposeOthers \/ TransposeLines \/ HorizontalSpace \/ FillParagraph
LineNext == LineLoop \/ LineCommand

(* A command that runs goes on; none need be given.                         *)
LineFairness == WF_lineVars(LineLoop)

-----------------------------------------------------------------------------
(* Properties *)

WordLetters(t) == SelectSeq(t, IsWord)
Folded(t) == [i \in DOMAIN t |-> Cased(t[i])]
CountOf(t, c) == Cardinality({i \in DOMAIN t : t[i] = c})
Lines(t, l) == Cardinality({s \in LineStarts(t) : LineText(t, s) = l})
AllLines(t) == {LineText(t, s) : s \in LineStarts(t)}

(* No command loses text, and each changes only what it is about: those on  *)
(* spaces and paragraphs keep the words, those on lines the lines (auto fill *)
(* may break one), and what                                                *)
(* is duplicated is the line, though most work on the text by offsets that  *)
(* their own changes move.                                                 *)
TextIsKept ==
    [][LET t == ed.text
           u == ed'.text
       IN  CASE did' \in {"none", "move", "mark"} -> u = t
             [] did' = "space" -> WordLetters(u) = WordLetters(t)
             [] did' = "case" -> Folded(u) = Folded(t)
             [] did' = "chars" -> \A c \in ToSet(t) \cup ToSet(u) : CountOf(u, c) = CountOf(t, c)
             [] did' = "lines" /\ ed.autofill -> \A c \in {x \in ToSet(t) : IsWord(x)} : CountOf(u, c) = CountOf(t, c)
             [] did' = "lines" -> \A l \in (AllLines(t) \cup AllLines(u)) \ {<<>>} : Lines(u, l) = Lines(t, l)
             [] did' = "duplicate" -> LET l == LineText(t, ed.pt)
                                      IN  \A k \in AllLines(t) \cup AllLines(u) :
                                            Lines(u, k) = Lines(t, k) + IF k = l THEN 1 ELSE 0
      ]_lineVars

(* Moving the line down undoes moving it up, point included.                *)
MovesUndone ==
    LET up == MoveLineUp(ed)
    IN  running = "none" /\ ~ed.readonly /\ LineStart(ed.text, ed.pt) > 0 /\ Edge("last line", LastIsEmpty(ed)) =>
          MoveLineDown(up).text = ed.text /\ MoveLineDown(up).pt = ed.pt

(* Commands on lines, words and paragraphs change only what they are for:   *)
(* white space, case, the order of words or of lines; and moving a line     *)
(* down takes back moving it up (src/line.c, src/funcs.c).                  *)
TextHeeded == []MovesUndone /\ TextIsKept

(* Every command ends, wherever point is in the text and whether or not the *)
(* buffer is read-only, and so do the spaces and line ends that fill a line *)
(* as they are typed.  Two cases are left to EDGES, as they do not end:     *)
(* "empty", filling with nothing but line ends before (src/line.c:89), and  *)
(* "read-only", a loop that goes on until a text is gone that cannot be     *)
(* deleted (src/line.c:498, src/funcs.c:780).                               *)
CommandsEnd == running # "none" ~> running = "none"

(* Point and the mark stay in the text.                                     *)
PointInText == InRange(ed)

(* "If point is greater than fill-column, then split the line": not if it   *)
(* is not.                                                                 *)
LongLinesBroken ==
    [][running = "breaking" /\ running' = "broken" =>
         Len(LineText(ed.text, ed.pt)) > FILL_COLUMN]_lineVars
=============================================================================
