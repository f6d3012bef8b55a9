------------------------------ MODULE Editing ------------------------------
(***************************************************************************)
(* Buffers that visit files, as the command loop changes them: commands    *)
(* run from a key, or nested in M-x or a keyboard macro (src/bind.c), what *)
(* they change and undo (src/undo.c, src/buffer.c), saving, reverting, and *)
(* following the changes other programs make to the files (src/file.c).    *)
(*                                                                         *)
(* The editor has one thread: a command that runs no other is one action,  *)
(* from undo_start_sequence to undo_end_sequence; one that does is two,    *)
(* with the commands it runs between them.  Another program may write a    *)
(* file between any two actions, but not between the stat of a file and    *)
(* what the same function then does with it.                               *)
(*                                                                         *)
(* Abstracted: a file is what it holds, and `stale' says that stat finds   *)
(* it different from when the buffer was last read from it or written to   *)
(* it.  Files are never deleted, and buffers neither read-only nor without *)
(* undo.  Any command that edits makes one or two changes anywhere.        *)
(***************************************************************************)
EXTENDS UndoList

CONSTANTS
    Buffers,         \* buffers, each visiting a file of its own
    Chars, Eol,      \* characters, and the one that ends lines
    PASTES_LATE,     \* whether text is pasted right after an undo
    NESTED_SWITCHES, \* whether nested commands show other buffers
    MATCHES,         \* whether a file may be found to hold an unsaved text
    MAX_TEXT,        \* bound: characters typed into a buffer
    MAX_FILE,        \* bound: characters another program writes
    MAX_DEPTH,       \* bound: commands nested in each other
    MAX_COMMANDS     \* bound: commands and writes of other programs

ASSUME CharsAssumption == Eol \in Chars
ASSUME SwitchesAssumption == {PASTES_LATE, NESTED_SWITCHES, MATCHES} \subseteq BOOLEAN
ASSUME BoundsAssumption == {MAX_TEXT, MAX_FILE, MAX_DEPTH, MAX_COMMANDS} \subseteq Nat

VARIABLES
    buf,     \* each buffer
    file,    \* what its file holds
    stale,   \* buffer_disk_changed: the file is not as last read or written
    current, \* cur_bp
    depth,   \* commands that are running others
    undid,   \* last_command_fn is undo
    thisUndo,\* this_command_fn is undo
    top,     \* history: the number of the outermost command being run
    count    \* commands given and files written so far

vars == <<buf, file, stale, current, depth, undid, thisUndo, top, count>>

Init == /\ file = [b \in Buffers |-> <<>>]
        /\ buf = [b \in Buffers |-> NewBuffer(file[b])]
        /\ stale = [b \in Buffers |-> FALSE]
        /\ current \in Buffers
        /\ depth = 0
        /\ undid = FALSE /\ thisUndo = FALSE
        /\ top = 0 /\ count = 0

-----------------------------------------------------------------------------
(* Commands. *)

(* The command an entry is of: nested ones are part of the outermost.       *)
Now == IF depth = 0 THEN count + 1 ELSE top

Counted == /\ count < MAX_COMMANDS
           /\ count' = count + 1

(* call_command of a command that runs no other.  Its last_command is this  *)
(* one, or undo.                                                           *)
Called(undo) ==
    /\ Counted
    /\ undid' = undo
    /\ thisUndo' = undo
    /\ UNCHANGED <<depth, top>>

(* What the current buffer is after a command that made it B(b).            *)
InSequence(b, undoing) == Ended(b, undoing, Now)
Opened == Started(buf[current], Now)

(* A command makes a change, or a change in two steps. *)
Change(b, o, del, new) == Replaced(b, o, del, new, Now)
Edit ==
    \E o \in 0 .. Len(buf[current].text), c \in Chars :
      LET b == buf[current]
          inserted == Change(Opened, o, 0, <<c>>)
          deleted == Change(Opened, o, 1, <<>>)
          swapped == Change(deleted, o, 0, <<c>>)
      IN  /\ Called(FALSE)
          /\ \/ /\ Len(b.text) < MAX_TEXT
                /\ buf' = [buf EXCEPT ![current] = InSequence(inserted, FALSE)]
             \/ /\ o < Len(b.text)
                /\ \E changed \in {deleted, swapped} :
                      buf' = [buf EXCEPT ![current] = InSequence(changed, FALSE)]
          /\ UNCHANGED <<file, stale, current>>

Undo ==
    /\ Called(TRUE)
    /\ buf' = [buf EXCEPT ![current] = InSequence(Undone(Opened, Now), TRUE)]
    /\ UNCHANGED <<file, stale, current>>

(* A command that makes another buffer current: its sequence is started in  *)
(* one and ended in the other.                                             *)
Switch ==
    \E b \in Buffers \ {current} :
      /\ depth > 0 => NESTED_SWITCHES
      /\ Called(FALSE)
      /\ buf' = [buf EXCEPT ![current] = Opened, ![b] = InSequence(@, FALSE)]
      /\ current' = b
      /\ UNCHANGED <<file, stale>>

(* bracketed_paste_command, which is not called as a command.               *)
Paste ==
    \E o \in 0 .. Len(buf[current].text), c \in Chars :
      /\ depth = 0
      /\ undid => PASTES_LATE
      /\ Len(buf[current].text) < MAX_TEXT
      /\ Counted
      /\ buf' = [buf EXCEPT ![current] =
                   InSequence(Change(Opened, o, 0, <<c>>), undid)]
      /\ UNCHANGED <<file, stale, current, depth, undid, thisUndo, top>>

(* M-x or a keyboard macro: call_command up to the commands it runs ...      *)
Nest ==
    /\ depth < MAX_DEPTH
    /\ Counted
    /\ depth' = depth + 1
    /\ top' = Now
    /\ buf' = [buf EXCEPT ![current] = Opened]
    /\ thisUndo' = FALSE
    /\ UNCHANGED <<file, stale, current, undid>>

(* ... and after them: the command done is the last one it ran.             *)
Return ==
    /\ depth > 0
    /\ depth' = depth - 1
    /\ undid' = thisUndo
    /\ buf' = [buf EXCEPT ![current] = InSequence(@, thisUndo)]
    /\ UNCHANGED <<file, stale, current, thisUndo, top, count>>

-----------------------------------------------------------------------------
(* Files. *)

WithEol(t) == IF t = <<>> \/ Last(t) = Eol THEN t ELSE Append(t, Eol)

(* ensure_buffer_final_eol, and what write_buffer does when all is written. *)
Saved_OldFlags(b) ==
    LET ended == IF WithEol(b.text) = b.text THEN b
                 ELSE Change(b, Len(b.text), 0, <<Eol>>)
    IN  [ended EXCEPT !.modified = FALSE]
Saved(b) ==
    LET ended == IF WithEol(b.text) = b.text THEN b
                 ELSE Change(b, Len(b.text), 0, <<Eol>>)
    IN  AllChanged([ended EXCEPT !.modified = FALSE])

(* save-buffer of a modified buffer.  If the file has changed, and not to   *)
(* the same text, the user agrees.                                         *)
Save ==
    /\ buf[current].modified
    /\ Called(FALSE)
    /\ file' = [file EXCEPT ![current] = WithEol(buf[current].text)]
    /\ stale' = [stale EXCEPT ![current] = FALSE]
    /\ buf' = [buf EXCEPT ![current] = InSequence(Saved(Opened), FALSE)]
    /\ UNCHANGED current

(* Writing fails when the file has been truncated and some of it written.   *)
SaveFails ==
    /\ buf[current].modified
    /\ Called(FALSE)
    /\ \E n \in 0 .. Len(buf[current].text) :
          file' = [file EXCEPT ![current] = SubSeq(buf[current].text, 1, n)]
    /\ stale' = [stale EXCEPT ![current] = TRUE]
    /\ buf' = [buf EXCEPT ![current] = InSequence(Opened, FALSE)]
    /\ UNCHANGED current

(* A command that changes nothing, such as save-buffer of an unmodified     *)
(* buffer or a refusal to save.                                            *)
Other ==
    /\ Called(FALSE)
    /\ buf' = [buf EXCEPT ![current] = InSequence(Opened, FALSE)]
    /\ UNCHANGED <<file, stale, current>>

(* revert_to_text, which keeps what is to be undone if nothing changed.     *)
RevertedText(b, t) ==
    [(IF b.text = t THEN b ELSE Forgotten([b EXCEPT !.text = t])) EXCEPT !.modified = FALSE]

(* revert-buffer, confirmed. *)
Revert ==
    /\ Called(FALSE)
    /\ buf' = [buf EXCEPT ![current] =
                 InSequence(Forgotten(RevertedText(Opened, file[current])), FALSE)]
    /\ stale' = [stale EXCEPT ![current] = FALSE]
    /\ UNCHANGED <<file, current>>

(* buffers_check_disk, before a key is read: of all buffers or the current  *)
(* one.  A modified buffer stays, and its file is as last read if it holds  *)
(* the same text.                                                          *)
Same(b) == buf[b].text = file[b]
Followed(b) ==
    IF stale[b] /\ ~buf[b].modified THEN RevertedText(buf[b], file[b]) ELSE buf[b]
CheckDisk ==
    \E S \in {Buffers, {current}} :
      /\ \E b \in S : stale[b] /\ (buf[b].modified => Same(b))
      /\ MATCHES \/ \A b \in S : ~(stale[b] /\ buf[b].modified /\ Same(b))
      /\ buf' = [b \in Buffers |-> IF b \in S THEN Followed(b) ELSE buf[b]]
      /\ stale' = [b \in Buffers |-> stale[b] /\ ~(b \in S /\ (buf[b].modified => Same(b)))]
      /\ UNCHANGED <<file, current, depth, undid, thisUndo, top, count>>

(* Another program writes a file. *)
OtherWrites ==
    \E b \in Buffers, t \in BoundedSeq(Chars, MAX_FILE) :
      /\ Counted
      /\ file' = [file EXCEPT ![b] = t]
      /\ stale' = [stale EXCEPT ![b] = TRUE]
      /\ UNCHANGED <<buf, current, depth, undid, thisUndo, top>>

Command == Edit \/ Undo \/ Switch \/ Paste \/ Nest \/ Return
           \/ Save \/ SaveFails \/ Other \/ Revert

Next == Command \/ CheckDisk \/ OtherWrites

Spec == Init /\ [][Next]_vars

-----------------------------------------------------------------------------
(* Properties. *)

Entry == [type : {"start", "end", "block"}, o : Nat, size : Nat, text : Seq(Chars),
          unchanged : BOOLEAN, by : 1 .. MAX_COMMANDS]

(* What each variable holds; in particular next_undop always points into    *)
(* the buffer's own list, however entries were dropped or freed.            *)
TypeOK ==
    /\ \A b \in Buffers : /\ buf[b].text \in Seq(Chars) /\ buf[b].modified \in BOOLEAN
                          /\ buf[b].undo \in Seq(Entry)
                          /\ buf[b].next \in 0 .. Len(buf[b].undo)
    /\ file \in [Buffers -> Seq(Chars)] /\ stale \in [Buffers -> BOOLEAN]
    /\ current \in Buffers /\ depth \in 0 .. MAX_DEPTH
    /\ {undid, thisUndo} \subseteq BOOLEAN
    /\ {top, count} \subseteq 0 .. MAX_COMMANDS

(* The text of a buffer is the one its next undo was kept for: what has     *)
(* been done since then has been undone.  Every change an undo makes is     *)
(* thus at its own place, and takes away what it put there.                 *)
Before(b, n) == RevertedTo(b, n + 1, Len(b.undo), 0).text
UndoInStep == \A b \in Buffers : buf[b].text = Before(buf[b], buf[b].next)

(* Undo lists, of every buffer: next_undop is an entry of the list it is    *)
(* of, or none, and what is yet to be undone gives back, entry by entry,    *)
(* the text each entry was kept for (undo_save, revert_action).             *)
UndoSound == TypeOK /\ UndoInStep

(* A buffer that says it is not modified, and whose file is as last seen,   *)
(* holds what the file does, after any undoing and redoing across saves.    *)
(* xzile.h says of an entry's `unchanged' that it is set if "reverting this *)
(* undo leaves the buffer in an unchanged state".                           *)
UnmodifiedIsSaved ==
    \A b \in Buffers : ~buf[b].modified /\ ~stale[b] => buf[b].text = file[b]

(* One undo takes back the changes of one command at most, and all it made  *)
(* in the buffer, unless it goes on from inside it: the command was a macro *)
(* that ended with an undo.                                                *)
Blocks(u, m, n) == {i \in m .. n : u[i].type = "block"}
UndoTakesOneCommand ==
    [][Undo => LET b == Opened
                   m == MatchingStart(b.undo, b.next)
                   taken == {b.undo[i].by : i \in Blocks(b.undo, m, b.next)}
               IN  b.next # 0 =>
                     /\ Cardinality(taken) <= 1
                     /\ \A i \in Blocks(b.undo, 1, m - 1) :
                          b.undo[i].by \notin taken \ {b.undo[b.next + 1].by}]_vars
=============================================================================
