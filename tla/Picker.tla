------------------------------- MODULE Picker -------------------------------
(***************************************************************************)
(* The picker (src/picker.c, and src/history.c): a panel of candidates that *)
(* the input narrows down.  Candidates are given, produced by a thread      *)
(* meanwhile (the files of a project), or the entries of the directory the  *)
(* input names.                                                            *)
(*                                                                         *)
(* A name is a sequence of letters, "/" among them; groups are numbers.     *)
(* The input has one term and is edited at its end.  Left out: remote       *)
(* directories, hidden files and the scrolling of the list.                 *)
(***************************************************************************)
EXTENDS Integers, Sequences, SequencesExt, FiniteSets

CONSTANTS PickerSpecs,  \* what a caller may ask for: see PickerInit
          Listing,      \* the entries of each directory, directories first
          Produced,     \* what the thread finds
          Older,        \* the history
          Letters2,     \* what may be typed
          MAX_INPUT_LENGTH, MAX_PICKER_KEYS

(* What may be offered; another directory is not there and lists nothing.   *)
Candidates == UNION ({ToSet(s.given) : s \in PickerSpecs} \cup {ToSet(Listing[d]) : d \in DOMAIN Listing})
                \cup ToSet(Produced)
Entries(d) == IF d \in DOMAIN Listing THEN Listing[d] ELSE <<>>
NoName == <<>>
NotLoaded == <<"none">>

(* As the callers in src/selectors.c fill in a specification.               *)
ASSUME PickerAssumption ==
    /\ \A s \in PickerSpecs : /\ s.given \in Seq(Candidates)
                              /\ s.require => s.preselect
                              /\ s.file => s.given = <<>> /\ ~s.require /\ ~s.thread /\ ~s.kill
    /\ \A d \in DOMAIN Listing : Listing[d] \in Seq(Candidates)
    /\ NotLoaded \notin DOMAIN Listing
    /\ Produced \in Seq(Candidates)
    /\ \A c \in Candidates : c.text # NoName /\ c.group \in Nat

VARIABLES panel,   \* the picker
          source,  \* its thread: what it has still to find, what is not taken yet, and whether it ended
          step,    \* where the loop is
          shown,   \* what is drawn
          choice,
          aimed,   \* the name the user moved to, and its directory
          typed    \* keys typed
pickerVars == <<panel, source, step, shown, choice, aimed, typed>>

NotAimed == [name |-> NoName, dir |-> NoName]
NotChosen == [kind |-> "none", text |-> NoName, place |-> 0]

(* picker_new, picker_add and the start of picker_run.  A specification has *)
(* the candidates given, whether it is for files, whether the name must be  *)
(* one of them, whether the first is preselected and the groups for which   *)
(* it is for a weak match too, the default's index, and whether there are   *)
(* headings, a command to remove candidates and a thread.                  *)
PickerInit ==
    /\ \E s \in PickerSpecs :
         /\ panel = [spec |-> s, items |-> s.given, input |-> NoName, matches |-> <<>>,
                     selected |-> 0, moved |-> FALSE, dir |-> NotLoaded, default |-> s.default,
                     dirty |-> TRUE, recalled |-> 0]
         /\ source = [started |-> s.thread, rest |-> IF s.thread THEN Produced ELSE <<>>,
                      pending |-> <<>>, done |-> FALSE]
    /\ step = "draw" /\ choice = NotChosen /\ aimed = NotAimed /\ typed = 0
    /\ shown = [names |-> <<>>, highlight |-> NoName, input |-> NoName]

-----------------------------------------------------------------------------
(* Matching *)

LastSlash(s) == IF "/" \in ToSet(s) THEN CHOOSE i \in DOMAIN s : s[i] = "/" /\ \A j \in i + 1 .. Len(s) : s[j] # "/"
                ELSE 0
QueryText(p) == IF p.spec.file THEN SubSeq(p.input, LastSlash(p.input) + 1, Len(p.input)) ELSE p.input

(* score_term: the whole, its start, a part, or letters in order            *)
FindSubstring(s, q) == \E i \in 0 .. Len(s) - Len(q) : SubSeq(s, i + 1, i + Len(q)) = q
Subsequence(s, q) == FoldLeft(LAMBDA k, c : IF k < Len(q) /\ c = q[k + 1] THEN k + 1 ELSE k, 0, s) = Len(q)
ScoreItem(s, q) ==
    IF q = <<>> THEN 0
    ELSE IF s = q THEN 4
    ELSE IF IsPrefix(q, s) THEN 3
    ELSE IF FindSubstring(s, q) THEN 2
    ELSE IF Subsequence(s, q) THEN 1 ELSE -1

(* compare_matches *)
ComesFirst(p, q, i, j) ==
    LET x == p.items[i]
        y == p.items[j]
    IN  IF p.spec.headings /\ x.group # y.group THEN x.group < y.group
        ELSE IF ScoreItem(x.text, q) # ScoreItem(y.text, q)
             THEN ScoreItem(x.text, q) > ScoreItem(y.text, q) ELSE i < j

(* The candidates that match; the k-th is the one that k - 1 come before.   *)
Matching(p, q) == {i \in DOMAIN p.items : ScoreItem(p.items[i].text, q) >= 0}
MatchesInOrder(p, q) ==
    LET all == Matching(p, q)
    IN  [k \in 1 .. Cardinality(all) |-> CHOOSE i \in all : Cardinality({j \in all : ComesFirst(p, q, j, i)}) = k - 1]

PositionOf(ms, i) == CHOOSE k \in DOMAIN ms : ms[k] = i

(* Only strong matches, or the default, are preselected.                    *)
Preselected(p, ms, q) ==
    LET exact == {k \in DOMAIN ms : p.items[ms[k]].text = q}
        first == p.items[ms[1]]
    IN  IF ms = <<>> THEN 0
        ELSE IF q = <<>>
             THEN IF p.default \in ToSet(ms) THEN PositionOf(ms, p.default)
                  ELSE IF p.spec.require THEN 1 ELSE 0
        ELSE IF exact # {} THEN CHOOSE k \in exact : \A j \in exact : k <= j
        ELSE IF p.spec.preselect /\ (\/ p.spec.require \/ first.group \in p.spec.fuzzy
                                     \/ FindSubstring(first.text, q)) THEN 1 ELSE 0

Filtered(p) ==
    LET q == QueryText(p)
        ms == MatchesInOrder(p, q)
    IN  [p EXCEPT !.matches = ms, !.selected = Preselected(p, ms, q), !.moved = FALSE]

-----------------------------------------------------------------------------
(* The loop: list the directory, filter, draw; then see whether the thread  *)
(* still runs, and wait for a key, a while only if it does.                *)

LoadDirectory(p) ==
    LET d == SubSeq(p.input, 1, LastSlash(p.input))
    IN  IF ~p.spec.file \/ p.dir = d THEN p
        ELSE [p EXCEPT !.dir = d, !.items = Entries(d)]

(* The selection the user made is kept, if it still matches.                *)
Kept_ByPlace(p, f) == IF p.moved /\ p.selected \in DOMAIN f.matches
                      THEN [f EXCEPT !.selected = p.selected, !.moved = TRUE] ELSE f
Kept(p, f) ==
    LET keep == p.matches[p.selected]
    IN  IF p.moved /\ p.selected > 0 /\ keep \in ToSet(f.matches)
        THEN [f EXCEPT !.selected = PositionOf(f.matches, keep), !.moved = TRUE] ELSE f
Reshown(p) ==
    LET l == LoadDirectory(p)
    IN  IF ~l.dirty THEN l ELSE [Kept(l, Filtered(l)) EXCEPT !.dirty = FALSE]

SelectedItem(p) == p.items[p.matches[p.selected]]
Redraw ==
    /\ step = "draw"
    /\ LET p == Reshown(panel)
       IN  /\ panel' = p
           /\ shown' = [names |-> [i \in DOMAIN p.matches |-> p.items[p.matches[i]].text],
                        highlight |-> IF p.selected = 0 THEN NoName ELSE SelectedItem(p).text,
                        input |-> p.input]
    /\ step' = "look"
    /\ UNCHANGED <<source, choice, aimed, typed>>

Look == /\ step = "look"
        /\ step' = IF source.started /\ ~source.done THEN "wait a while" ELSE "wait"
        /\ UNCHANGED <<panel, source, shown, choice, aimed, typed>>

(* merge_pending; nothing the callers refuse is produced here               *)
Merged(p, s) == [p EXCEPT !.items = @ \o s.pending, !.dirty = @ \/ s.pending # <<>>]
Taken(s) == [s EXCEPT !.pending = <<>>]

NoKey == /\ step = "wait a while"
         /\ panel' = Merged(panel, source)
         /\ source' = Taken(source)
         /\ step' = "merged"
         /\ UNCHANGED <<shown, choice, aimed, typed>>
SeeEnd == /\ step = "merged"
          /\ panel' = [panel EXCEPT !.dirty = @ \/ source.done]
          /\ step' = "draw"
          /\ UNCHANGED <<source, shown, choice, aimed, typed>>

(* async_thread *)
Produce == /\ source.rest # <<>>
           /\ source' = [source EXCEPT !.rest = Tail(@), !.pending = Append(@, Head(source.rest))]
           /\ UNCHANGED <<panel, step, shown, choice, aimed, typed>>
ThreadEnds == /\ source.started /\ source.rest = <<>> /\ ~source.done
              /\ source' = [source EXCEPT !.done = TRUE]
              /\ UNCHANGED <<panel, step, shown, choice, aimed, typed>>

-----------------------------------------------------------------------------
(* Keys.  What the thread has produced is taken before, but the candidates  *)
(* are those that are drawn.                                               *)

AtKey == Merged(panel, source)
Pressed(key) == /\ step \in {"wait", "wait a while"} /\ typed < MAX_PICKER_KEYS
                /\ source' = Taken(source) /\ typed' = typed + 1
Goes(p, aim) == /\ panel' = p /\ aimed' = aim /\ step' = "draw" /\ UNCHANGED <<shown, choice>>
AimAt(p) == [name |-> SelectedItem(p).text, dir |-> p.dir]
Edited(p, text) == [p EXCEPT !.input = text, !.dirty = TRUE]

FileChoice(p, it) == IF p.spec.file THEN p.dir \o it.text ELSE it.text
Chooses(kind, text, place) ==
    choice' = [kind |-> kind, text |-> text, place |-> place] /\ step' = "over" /\ UNCHANGED shown

TypeLetter ==
    \E c \in Letters2 :
      /\ Pressed("letter")
      /\ Len(panel.input) < MAX_INPUT_LENGTH
      /\ Goes(Edited(AtKey, Append(panel.input, c)), aimed)

(* In a file's name, the whole last directory goes.                         *)
Backspace ==
    LET i == panel.input
        l == LastSlash(Front(i))
    IN  /\ Pressed("backspace")
        /\ i # <<>>
        /\ Goes(Edited(AtKey, IF panel.spec.file /\ Last(i) = "/" /\ Len(i) > 1
                              THEN SubSeq(i, 1, l) ELSE Front(i)), aimed)

Complete ==
    LET p == AtKey
        it == IF p.selected > 0 THEN SelectedItem(p) ELSE p.items[p.matches[1]]
    IN  /\ Pressed("tab")
        /\ p.matches # <<>>
        /\ Goes(Edited(p, FileChoice(p, it)), aimed)

Bounded(n, low, high) == IF n < low THEN low ELSE IF n > high THEN high ELSE n
MoveSelection ==
    \E delta \in {-1, 1} :
      LET p == AtKey
          from == IF p.selected = 0 THEN IF delta > 0 THEN 0 ELSE 1 ELSE p.selected
          to == Bounded(from + delta, 1, Len(p.matches))
      IN  /\ Pressed("move")
          /\ p.matches # <<>>
          /\ LET q == [p EXCEPT !.selected = to, !.moved = TRUE] IN Goes(q, AimAt(q))

(* A click selects what is drawn there; another, or a double one, chooses   *)
(* it.                                                                     *)
Click ==
    \E i \in DOMAIN panel.matches :
      LET p == AtKey
          q == [p EXCEPT !.selected = i, !.moved = TRUE]
      IN  /\ Pressed("click")
          /\ \/ p.selected # i /\ Goes(q, AimAt(q))
             \/ /\ panel' = q /\ aimed' = AimAt(q)
                /\ Chooses("item", FileChoice(q, SelectedItem(q)), i)

Return2 ==
    LET p == AtKey
    IN  /\ Pressed("return")
        /\ panel' = p /\ aimed' = aimed
        /\ \/ p.selected > 0 /\ Chooses("item", FileChoice(p, SelectedItem(p)), 0)
           \/ /\ p.selected = 0 /\ p.spec.require /\ p.matches # <<>>
              /\ Chooses("item", p.items[p.matches[1]].text, 0)
           \/ p.selected = 0 /\ ~p.spec.require /\ Chooses("input", p.input, 0)
           \/ /\ p.selected = 0 /\ p.spec.require /\ p.matches = <<>>
              /\ step' = "draw" /\ UNCHANGED <<shown, choice>>

UseInput == /\ Pressed("C-j") /\ ~panel.spec.require
            /\ panel' = AtKey /\ aimed' = aimed
            /\ Chooses("input", panel.input, 0)
CancelPicker == Pressed("C-g") /\ panel' = AtKey /\ aimed' = aimed /\ Chooses("cancel", NoName, 0)

(* C-k: the caller may refuse; the next candidate is selected.              *)
Removed2(p) ==
    LET idx == p.matches[p.selected]
        f == Filtered([p EXCEPT !.items = RemoveAt(@, idx),
                                !.default = IF @ > idx THEN @ - 1 ELSE IF @ = idx THEN 0 ELSE @])
    IN  IF f.matches = <<>> THEN f
        ELSE [f EXCEPT !.selected = Bounded(p.selected, 1, Len(f.matches)), !.moved = TRUE]
RemoveItem ==
    LET p == AtKey
    IN  /\ Pressed("C-k") /\ p.spec.kill /\ p.selected > 0
        /\ \/ Goes(p, aimed)
           \/ LET r == Removed2(p)
              IN  Goes(r, IF r.selected > 0 THEN AimAt(r) ELSE NotAimed)
KillInput == /\ Pressed("C-k") /\ ~panel.spec.kill /\ panel.input # <<>>
             /\ Goes(Edited(AtKey, <<>>), aimed)

(* M-p and M-n: history_previous_element, history_next_element; 0 is none   *)
Previous(n) == IF n = 0 THEN Len(Older) ELSE IF n > 1 THEN n - 1 ELSE n
NextOne(n) == IF n > 0 /\ n < Len(Older) THEN n + 1 ELSE 0
Recall ==
    \E n \in {Previous(panel.recalled), NextOne(panel.recalled)} :
      /\ Pressed("history")
      /\ Goes([Edited(AtKey, IF n = 0 THEN <<>> ELSE Older[n]) EXCEPT !.recalled = n], aimed)

PickerLoop == Redraw \/ Look \/ NoKey \/ SeeEnd
PickerThread == Produce \/ ThreadEnds
PickerKey ==
    \/ TypeLetter \/ Backspace \/ Complete \/ MoveSelection \/ Click \/ Return2 \/ UseInput
    \/ CancelPicker \/ RemoveItem \/ KillInput \/ Recall
PickerNext == PickerLoop \/ PickerThread \/ PickerKey
PickerSpec == PickerInit /\ [][PickerNext]_pickerVars

(* The loop goes on unless it waits for a key, and the thread is run; no    *)
(* key need ever be typed.                                                 *)
PickerFairness == WF_pickerVars(PickerLoop) /\ WF_pickerVars(PickerThread)

-----------------------------------------------------------------------------
(* Properties *)

(* What is selected after the user moved the selection is what the user     *)
(* moved to, through candidates that arrive and a narrower input.  The code *)
(* keeps its index among the candidates: in another directory that is some  *)
(* other candidate, which stays selected as if the user had moved there.    *)
KeepsAim == panel.moved /\ panel.selected > 0 /\ panel.dir = aimed.dir => SelectedItem(panel).text = aimed.name

(* What RET chooses is what is drawn as selected, and the input as typed    *)
(* only if nothing is ("RET with no selection uses the input as typed; C-j  *)
(* always does"), and the mouse chooses what is drawn under it, whatever    *)
(* the thread finds between the drawing and the key.                       *)
PickedAsShown ==
    LET name == IF choice.place > 0 THEN shown.names[choice.place] ELSE shown.highlight
    IN  /\ choice.kind = "item" =>
             name # NoName /\ choice.text = IF panel.spec.file THEN panel.dir \o name ELSE name
        /\ choice.kind = "input" => choice.text = shown.input

(* Return gives what the user aimed at and was shown: while candidates come *)
(* in and the input changes, the selection stays with its candidate         *)
(* (filter), and a key is for the list that is drawn (picker_run).          *)
SelectionHeeded == KeepsAim /\ PickedAsShown

(* Every candidate the thread finds is shown in the end, whether or not a   *)
(* key is typed.                                                           *)
FoundAreShown == source.done ~> (source.pending = <<>> \/ step = "over")
=============================================================================
