----------------------------- MODULE Compilation -----------------------------
(***************************************************************************)
(* The *compilation* buffer (src/compile.c): output arrives in pieces, and *)
(* error messages in it name files relative to the directories that make   *)
(* has entered by then.  What the lines read so far say of directories is  *)
(* kept, for as long as nothing but output has changed the text.           *)
(*                                                                         *)
(* An offset is the number of a line.                                      *)
(***************************************************************************)
EXTENDS Integers, Sequences, SequencesExt, Selection

CONSTANTS MakeDirs,         \* directories that make enters
          MAX_LINES, MAX_EDITS, MAX_VISITS      \* bounds

Kinds == {"plain", "error", "info", "leave"}
CompLines == [kind : Kinds, dir : {"none"}, whole : BOOLEAN]
             \cup [kind : {"enter", "dash-C"}, dir : MakeDirs, whole : BOOLEAN]
CompStart == <<[kind |-> "plain", dir |-> "none", whole |-> TRUE]>>

VARIABLES
    compText,   \* the lines
    changes,    \* bp->changes
    dirs,       \* DirLine: the directory changes of the lines
    dirsUpto,   \* before this one, read when
    dirsChanges,\* bp->changes was this
    errorAt,    \* the line of the current error, or 0
    foundIn,    \* the directories its file was looked for in
    compPoint,  \* the line of point
    compProc,   \* whether the command runs
    edits, visits
compVars == <<compText, changes, dirs, dirsUpto, dirsChanges, errorAt, foundIn, compPoint, compProc, edits, visits>>
compCache == <<dirs, dirsUpto, dirsChanges>>

-----------------------------------------------------------------------------
(* Directories *)

(* directory_change: a line cut short says nothing yet.                     *)
ChangesDir(l) == l.whole /\ l.kind \in {"enter", "leave", "dash-C"}

(* scan_directories, of the lines before `o': the last line is not read     *)
(* until another follows it.                                                *)
Scanned(text, o) ==
  LET fresh == dirsChanges # changes
      known == IF fresh THEN <<>> ELSE dirs
      from == IF fresh THEN 1 ELSE dirsUpto
      upto == IF from >= o THEN from ELSE IF o <= Len(text) THEN o ELSE IF Len(text) > from THEN Len(text) ELSE from
      rows == Selected([i \in 1..Len(text) |-> i], {i \in 1..Len(text) : i >= from /\ i < upto /\ ChangesDir(text[i])})
  IN  [dirs |-> known \o [k \in DOMAIN rows |-> [o |-> rows[k], change |-> text[rows[k]]]], upto |-> upto]

(* directories_at: make's directory, then those of `make -C', the last of   *)
(* them first.                                                              *)
Entering(acc, l) ==
  CASE l.kind = "enter"  -> [acc EXCEPT !.stack = Append(@, l.dir)]
    [] l.kind = "leave"  -> [acc EXCEPT !.stack = IF @ = <<>> THEN @ ELSE Front(@)]
    [] l.kind = "dash-C" -> [acc EXCEPT !.dashC = Append(@, l.dir)]

Directories(ls) ==
  LET acc == FoldLeft(Entering, [stack |-> <<>>, dashC |-> <<>>], ls)
  IN  (IF acc.stack = <<>> THEN <<>> ELSE <<Last(acc.stack)>>) \o Reverse(acc.dashC)

DirectoriesAt(text, o) ==
  LET c == Scanned(text, o)
      kept == Selected(c.dirs, {k \in DOMAIN c.dirs : c.dirs[k].o < o})
  IN  Directories([i \in DOMAIN kept |-> kept[i].change])

CompInit ==
  /\ compText = CompStart /\ changes = 1
  /\ dirs = <<>> /\ dirsUpto = 1 /\ dirsChanges = 0
  /\ errorAt = 0 /\ foundIn = <<>> /\ compPoint = 1 /\ compProc = TRUE
  /\ edits = 0 /\ visits = 0

-----------------------------------------------------------------------------
(* Output *)

(* append: what is known of the lines stays true, if it was; point at the   *)
(* end follows.                                                             *)
Noted_Always == changes'
Noted == IF dirsChanges = changes THEN changes' ELSE dirsChanges

Appended(text) ==
  /\ compText' = text
  /\ changes' = changes + 1
  /\ dirsChanges' = Noted
  /\ compPoint' = IF compPoint = Len(compText) THEN Len(text) ELSE compPoint
  /\ UNCHANGED <<dirs, dirsUpto, errorAt, foundIn, edits, visits>>

(* on_output: a line, part of one, or the rest of it.                       *)
CompOutput ==
  /\ compProc
  /\ \/ /\ Last(compText).whole /\ Len(compText) < MAX_LINES
        /\ \E l \in CompLines : Appended(Append(compText, l))
     \/ /\ ~Last(compText).whole
        /\ Appended(Front(compText) \o <<[Last(compText) EXCEPT !.whole = TRUE]>>)
  /\ UNCHANGED compProc

CompExit == /\ compProc
            /\ compProc' = FALSE
            /\ Appended(IF Last(compText).whole THEN compText
                        ELSE Front(compText) \o <<[Last(compText) EXCEPT !.whole = TRUE]>>)

(* run_compile, again: the text is replaced, and nothing kept (what is      *)
(* compared with bp->changes is 0, so the count may start again).           *)
Recompile == /\ compText' = CompStart /\ changes' = 1
             /\ dirs' = <<>> /\ dirsUpto' = 1 /\ dirsChanges' = 0
             /\ errorAt' = 0 /\ foundIn' = <<>> /\ compPoint' = 1 /\ compProc' = TRUE
             /\ UNCHANGED <<edits, visits>>

-----------------------------------------------------------------------------
(* Visiting errors *)

(* find_error passes over notes.                                            *)
ErrorsAfter(o) == {i \in DOMAIN compText : i > o /\ compText[i].kind = "error"}
ErrorsBefore(o) == {i \in DOMAIN compText : i < o /\ compText[i].kind = "error"}

Visit(o) ==
  LET c == Scanned(compText, o)
  IN  /\ visits < MAX_VISITS /\ visits' = visits + 1
      /\ errorAt' = o /\ compPoint' = o
      /\ foundIn' = DirectoriesAt(compText, o)
      /\ dirs' = c.dirs /\ dirsUpto' = c.upto /\ dirsChanges' = changes
      /\ UNCHANGED <<compText, changes, compProc, edits>>

NextError == ErrorsAfter(errorAt) # {} /\ Visit(Min(ErrorsAfter(errorAt)))
PreviousError == ErrorsBefore(errorAt) # {} /\ Visit(Max(ErrorsBefore(errorAt)))
GotoError == compText[compPoint].kind \in {"error", "info"} /\ Visit(compPoint)

MoveToError == /\ \/ ErrorsAfter(compPoint) # {} /\ compPoint' = Min(ErrorsAfter(compPoint))
                  \/ ErrorsBefore(compPoint) # {} /\ compPoint' = Max(ErrorsBefore(compPoint))
               /\ UNCHANGED <<compText, changes, compCache, errorAt, foundIn, compProc, edits, visits>>

(* The user makes the buffer writable, and deletes a line or adds one.      *)
EditOutput ==
  /\ edits < MAX_EDITS /\ edits' = edits + 1
  /\ \E i \in 1..(Len(compText) - 1) :
       compText' \in {RemoveAt(compText, i)} \cup {InsertAt(compText, i, [kind |-> "enter", dir |-> d, whole |-> TRUE]) : d \in MakeDirs}
  /\ changes' = changes + 1
  /\ compPoint' = 1
  /\ UNCHANGED <<compCache, errorAt, foundIn, compProc, visits>>

CompNext == \/ CompOutput \/ CompExit \/ Recompile
            \/ NextError \/ PreviousError \/ GotoError \/ MoveToError \/ EditOutput
CompSpec == CompInit /\ [][CompNext]_compVars

-----------------------------------------------------------------------------
(* A message's file is looked for in the directories that the lines before  *)
(* it put make in, however much of them was read before, when, and whatever *)
(* has been added to the output or changed in it since.                     *)
DirectoriesTrue ==
  \A o \in DOMAIN compText :
    DirectoriesAt(compText, o) = Directories(Selected(compText, {i \in 1..o - 1 : ChangesDir(compText[i])}))
=============================================================================
