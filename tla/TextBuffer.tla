----------------------------- MODULE TextBuffer -----------------------------
(***************************************************************************)
(* The text of a buffer and what is derived from it (src/buffer.c, with    *)
(* the strings of src/estr.c): an array with a gap at point, the offset of *)
(* every LINE_INDEX_STRIDE'th line, the state of the highlighter (src/syntax.c) at    *)
(* the start of each line, and markers (src/marker.c).  The line functions *)
(* scan the array, gap and all.                                            *)
(*                                                                         *)
(* Offsets count from 0, elements of a sequence from 1.  Abstracted: lines *)
(* end with one character, a delimiter is one, and faces are left out.      *)
(***************************************************************************)
EXTENDS Integers, SequencesExt

CONSTANTS
    TextChars,    \* characters that are typed or read, Eol among them
    EolChar, Blank,   \* the end of a line, and what the gap is filled with
    MIN_GAP, MAX_GAP,
    STRIDES,      \* lines from one noted to the next, in one buffer or another
    WORD,         \* 2^w for the width of a size_t
    HIGHLIGHTS_LONG, \* whether a buffer of that many lines is highlighted
    MARKS_INSIDE, \* whether text around a marker is deleted
    MAX_BUFFER, MAX_EDITS                                          \* bounds

ASSUME TextAssumption == EolChar \in TextChars /\ Blank \notin TextChars
ASSUME StrideAssumption == STRIDES \subseteq Nat \ {0}
(* A text is shorter than a size_t can tell.                                *)
ASSUME GapAssumption == /\ {MIN_GAP, MAX_GAP, MAX_BUFFER, MAX_EDITS, WORD} \subseteq Nat
                        /\ MAX_BUFFER < WORD
                        /\ {MARKS_INSIDE, HIGHLIGHTS_LONG} \subseteq BOOLEAN

VARIABLES
    text,     \* the buffer: its array, gap, caches and marker
    stride,   \* LINE_INDEX_STRIDE
    plain,    \* history: the text, as the commands given make it
    marked,   \* history: where the marker should be in it
    edits
textVars == <<text, stride, plain, marked, edits>>

NoIndex == [at |-> <<0>>, line |-> 0, upto |-> 0]
NoStates == [of |-> <<>>, line |-> 0, upto |-> 0]
Modes == {"none", "c", "python"}

TextInit ==
    /\ text = [array |-> <<>>, pt |-> 0, gap |-> 0, index |-> NoIndex,
               mode |-> "none", states |-> NoStates, mark |-> 0]
    /\ stride \in STRIDES
    /\ plain = <<>>
    /\ marked = 0
    /\ edits = 0

-----------------------------------------------------------------------------
(* Strings (src/estr.c) *)

Overwritten(s, pos, new) ==
    [i \in DOMAIN s |-> IF i \in pos + 1 .. pos + Len(new) THEN new[i - pos] ELSE s[i]]
Moved(s, to, from, n) == Overwritten(s, to, SubSeq(s, from + 1, from + n))
Filled(s, pos, n) == [i \in DOMAIN s |-> IF i \in pos + 1 .. pos + n THEN Blank ELSE s[i]]
WidenedGap(s, pos, n) == SubSeq(s, 1, pos) \o [i \in 1 .. n |-> Blank] \o SubSeq(s, pos + 1, Len(s))
Shut(s, pos, n) == SubSeq(s, 1, pos) \o SubSeq(s, pos + n + 1, Len(s))

-----------------------------------------------------------------------------
(* Lines *)

Length(b) == Len(b.array) - b.gap
Contents(b) == SubSeq(b.array, 1, b.pt) \o SubSeq(b.array, b.pt + b.gap + 1, Len(b.array))

RealToO(b, r) == IF r < b.pt + b.gap THEN IF r < b.pt THEN r ELSE b.pt ELSE r - b.gap

(* Where lines but the first start, as ev_end_of_line finds the Eols.       *)
IndexLines(b) == {RealToO(b, i) : i \in {j \in DOMAIN b.array : b.array[j] = EolChar}}
StartOfLine(b, o) ==
    LET before == {s \in IndexLines(b) : s <= o} \cup {0}
    IN  CHOOSE s \in before : \A t \in before : t <= s
NextLines(b, o) == {s \in IndexLines(b) : s > o}
Earliest(lines) == CHOOSE s \in lines : \A t \in lines : s <= t
LineAfter(b, o) == LET after == NextLines(b, o) IN Earliest(after)

(* ensure_line_index_to_offset: one line, and all of them                   *)
IndexLine(b, index, offset) ==
    LET after == NextLines(b, index.upto)
        next == Earliest(after)
    IN  IF index.upto >= offset \/ after = {} THEN index
        ELSE [at |-> IF (index.line + 1) % stride = 0 THEN Append(index.at, next) ELSE index.at,
              line |-> index.line + 1, upto |-> next]
Indexed(b, offset) ==
    LET lines[n \in Nat] == IF n = 0 THEN b.index ELSE IndexLine(b, lines[n - 1], offset)
    IN  [b EXCEPT !.index = lines[Cardinality(NextLines(b, b.index.upto))]]

(* buffer_offset_to_line of an indexed buffer *)
Checkpoint(b, o) == CHOOSE i \in DOMAIN b.index.at :
                       /\ i = 1 \/ b.index.at[i] <= o
                       /\ \A j \in i + 1 .. Len(b.index.at) : b.index.at[j] > o
LineAt(b, o) == (Checkpoint(b, o) - 1) * stride
                + Cardinality({s \in IndexLines(b) : b.index.at[Checkpoint(b, o)] < s /\ s <= o})

(* invalidate_line_index_at *)
LinesForgotten_After(b, o) ==
    LET c == Indexed(b, o)
        n == LineAt(c, o) \div stride
    IN  [c EXCEPT !.index = [at |-> SubSeq(@.at, 1, n + 1), line |-> @.line, upto |-> @.upto]]
LinesForgotten(b, o) ==
    LET c == Indexed(b, o)
        n == LineAt(c, o) \div stride
    IN  [c EXCEPT !.index = [at |-> SubSeq(@.at, 1, n + 1), line |-> n * stride,
                             upto |-> @.at[n + 1]]]

-----------------------------------------------------------------------------
(* Highlighting *)

(* The state after a character: in a block comment of C, or in a string of  *)
(* Python, triple or not, which no end of a line ends.                     *)
CScan(state, c) == IF state THEN c # "close" ELSE c = "open"
PythonScan(state, c) == IF c = "quote" THEN ~state ELSE state
Scan(mode, state, c) == IF mode = "c" THEN CScan(state, c) ELSE PythonScan(state, c)
ScanLine(mode, state, line) == FoldLeft(LAMBDA s, c : Scan(mode, s, c), state, line)

(* update_syntax_cache: one line, whose next one's state is set             *)
SyntaxLine(b, s) ==
    LET next == LineAfter(b, s.upto)
        after == ScanLine(b.mode, s.of[s.line + 1], SubSeq(Contents(b), s.upto + 1, next - 1))
    IN  IF NextLines(b, s.upto) = {} THEN s
        ELSE [of |-> SubSeq(s.of, 1, s.line + 1) \o <<after>> \o SubSeq(s.of, s.line + 3, Len(s.of)),
              line |-> s.line + 1, upto |-> next]

(* buffer_get_line_start_state *)
StatesKnown(b, line) ==
    LET first == IF b.states.of = <<>> THEN [b.states EXCEPT !.of = <<FALSE>>] ELSE b.states
        missing == IF line > first.line THEN line - first.line ELSE 0
    IN  IF b.mode = "none" THEN b
        ELSE [b EXCEPT !.states =
                FoldLeft(LAMBDA s, n : SyntaxLine(b, s), first, [n \in 1 .. missing |-> n])]

(* invalidate_syntax_cache_at *)
StatesForgotten(b, o) ==
    LET c == Indexed(b, o)
        line == LineAt(c, o)
    IN  IF b.mode = "none" \/ b.states.of = <<>> THEN b
        ELSE IF line >= b.states.line THEN c
        ELSE [c EXCEPT !.states = [of |-> @.of, line |-> line, upto |-> StartOfLine(b, o)]]

-----------------------------------------------------------------------------
(* Changes *)

(* set_pt: what was between is moved over the gap.                          *)
PointAt(b, o) ==
    LET n == IF o < b.pt THEN b.pt - o ELSE o - b.pt
        blanks == IF n < b.gap THEN n ELSE b.gap
    IN  [b EXCEPT
           !.array = IF o < b.pt THEN Filled(Moved(@, o + b.gap, o, n), o, blanks)
                     ELSE Filled(Moved(@, b.pt, b.pt + b.gap, n), o + b.gap - blanks, blanks),
           !.pt = o]

(* buffer_replace_estr, of the array: the gap is opened to MIN_GAP when too *)
(* small, and shut to MAX_GAP when too large.                               *)
Larger(m, n) == IF m > n THEN m ELSE n
Widened(b, del, n) ==
    [b EXCEPT !.array = Filled(WidenedGap(@, b.pt, n + MIN_GAP - (b.gap + del)), b.pt + n, MIN_GAP),
              !.gap = MIN_GAP]
Narrowed(b, del, n) ==
    [b EXCEPT !.array = Shut(@, b.pt + n + MAX_GAP, b.gap + del - (MAX_GAP + n)),
              !.gap = MAX_GAP]
Resized(b, del, n) ==
    IF b.gap + del < n THEN Widened(b, del, n)
    ELSE IF b.gap + del > MAX_GAP + n THEN Narrowed(b, del, n)
    ELSE [b EXCEPT !.gap = @ + del - n]

(* ... of a marker: the difference is a size_t                              *)
Adjusted(m, pt, del, n) == IF m <= pt THEN m ELSE Larger(pt, (m + n - del) % WORD)

(* ... and of it all                                                       *)
Put(b, del, new) ==
    LET n == Len(new)
        kept == Larger(b.gap, n) + (IF b.gap + del < n THEN MIN_GAP ELSE 0)
        c == Resized(StatesForgotten(LinesForgotten(b, b.pt), b.pt), del, n)
    IN  [c EXCEPT !.array = Overwritten(Filled(@, b.pt + kept, n + c.gap - kept), b.pt, new),
                  !.pt = b.pt + n,
                  !.mark = Adjusted(@, b.pt, del, n)]

-----------------------------------------------------------------------------
(* Commands.  `marked' and `plain' are changed as they should be.           *)

InPlace(m, o, del, n) == IF m <= o THEN m ELSE Larger(o, m + n - del)
MarkStays(o, del, n) == MARKS_INSIDE \/ marked <= o \/ marked + n >= del
Edited(b, o, del, new) ==
    /\ edits < MAX_EDITS
    /\ Len(plain) + Len(new) - del <= MAX_BUFFER
    /\ MarkStays(o, del, Len(new))
    /\ edits' = edits + 1
    /\ UNCHANGED stride
    /\ text' = b
    /\ plain' = SubSeq(plain, 1, o) \o new \o SubSeq(plain, o + del + 1, Len(plain))
    /\ marked' = InPlace(marked, o, del, Len(new))

Typed == UNION {[1 .. n -> TextChars] : n \in 1 .. 2}
Insert == \E new \in Typed : Edited(Put(text, 0, new), text.pt, 0, new)
Delete == \E n \in 1 .. Length(text) - text.pt : Edited(Put(text, n, <<>>), text.pt, n, <<>>)

(* region_delete, with a marker at point *)
RegionDelete ==
    LET o == IF text.pt < text.mark THEN text.pt ELSE text.mark
        n == Larger(text.pt, text.mark) - o
        b == Put(PointAt(text, o), n, <<>>)
    IN  /\ text.mark <= Length(text)
        /\ text.pt # text.mark
        /\ Edited(PointAt(b, Adjusted(text.pt, o, n, 0)), o, n, <<>>)

(* revert_to_text: what differs is replaced.                                *)
Common(s, t) == CHOOSE n \in 0 .. Len(s) :
                   /\ n <= Len(t) /\ SubSeq(s, 1, n) = SubSeq(t, 1, n)
                   /\ n < Len(s) /\ n < Len(t) => s[n + 1] # t[n + 1]
RevertText ==
    \E new \in UNION {[1 .. n -> TextChars] : n \in 0 .. MAX_BUFFER} :
      LET p == Common(plain, new)
          q == Common(Reverse(SubSeq(plain, p + 1, Len(plain))),
                      Reverse(SubSeq(new, p + 1, Len(new))))
          del == Len(plain) - p - q
          put == SubSeq(new, p + 1, Len(new) - q)
          b == Put(PointAt(text, p), del, put)
          o == Adjusted(text.pt, p, del, Len(put))
      IN  /\ new # plain
          /\ Edited(PointAt(b, IF o < Length(b) THEN o ELSE Length(b)), p, del, put)

Still == UNCHANGED <<stride, plain, edits>>
Goto == \E o \in 0 .. Length(text) : text' = PointAt(text, o) /\ UNCHANGED marked /\ Still
PlaceMark == text' = [text EXCEPT !.mark = text.pt] /\ marked' = text.pt /\ Still
Highlight == \E m \in Modes \ {text.mode} :
                /\ HIGHLIGHTS_LONG \/ stride > MAX_BUFFER
                /\ text' = [text EXCEPT !.mode = m, !.states = NoStates]
                /\ UNCHANGED marked /\ Still
OffsetToLine == \E o \in 0 .. Length(text) : text' = Indexed(text, o) /\ UNCHANGED marked /\ Still
ShowLine == \E line \in 0 .. Cardinality(IndexLines(text)) :
               text' = StatesKnown(text, line) /\ UNCHANGED marked /\ Still

TextNext == \/ Insert \/ Delete \/ RegionDelete \/ RevertText \/ Goto
            \/ PlaceMark \/ Highlight \/ OffsetToLine \/ ShowLine

TextSpec == TextInit /\ [][TextNext]_textVars

-----------------------------------------------------------------------------
(* Properties *)

(* The true start and highlighter state of line n, counted from 0.          *)
TrueStarts == {0} \cup {i \in DOMAIN plain : plain[i] = EolChar}
TrueLine(o) == Cardinality({s \in TrueStarts : s <= o}) - 1
TrueState(o) ==
    FoldLeft(LAMBDA s, c : IF c = EolChar THEN s ELSE Scan(text.mode, s, c),
             FALSE, SubSeq(plain, 1, o))

(* What is derived from the text is true of the text as it is now: the gap  *)
(* holds nothing a scan for lines would stop at, every offset is on the     *)
(* line that buffer_offset_to_line says, and the states noted are those     *)
(* that scanning from the top would give (the invalidations in              *)
(* buffer_replace_estr, and the filling of the gap there and in set_pt).    *)
GapIsBlank == \A i \in text.pt + 1 .. text.pt + text.gap : text.array[i] = Blank
LinesTrue == \A o \in 0 .. Len(plain) : LET b == Indexed(text, o) IN LineAt(b, o) = TrueLine(o)
StatesTrue ==
    LET states == text.states
    IN  states.of # <<>> =>
          /\ states.upto \in TrueStarts /\ TrueLine(states.upto) = states.line
          /\ \A s \in TrueStarts : TrueLine(s) <= states.line =>
                states.of[TrueLine(s) + 1] = TrueState(s)
DerivedTrue == GapIsBlank /\ LinesTrue /\ StatesTrue

(* Moving over the gap, opening it and shutting it lose, double and move    *)
(* no character, and the marker stays between the characters it was between *)
(* ("Marker offset within buffer", struct Marker of src/xzile.h).           *)
TextKept == Contents(text) = plain /\ text.mark = marked

(* The gap buffer is the plain text it stands for, with its marker in       *)
(* place, and the line starts and syntax states that are kept of it are     *)
(* those of the text as it now is (buffer_replace_estr, set_pt).            *)
TextSound == DerivedTrue /\ TextKept
=============================================================================
