------------------------------ MODULE UndoList ------------------------------
(***************************************************************************)
(* The text of a buffer and what is kept to undo changes to it             *)
(* (src/undo.c and buffer_replace_estr of src/buffer.c).                   *)
(*                                                                         *)
(* A buffer's undo entries are a sequence, oldest first, and the C list's  *)
(* pointers are indices into it: last_undop is its length, next_undop is   *)
(* `next', 0 is NULL, and the `next' field of entry n is n - 1.            *)
(*                                                                         *)
(* Point and the gap are left out: a change names the offset it is made    *)
(* at.  `by' is history: the command, counted from the first one given,    *)
(* that an entry is of.                                                    *)
(***************************************************************************)
EXTENDS Naturals, SequencesExt

NewBuffer(text) == [text |-> text, modified |-> FALSE, undo |-> <<>>, next |-> 0]

StartEntry(k) == [type |-> "start", o |-> 0, size |-> 0, text |-> <<>>,
                  unchanged |-> FALSE, by |-> k]
EndEntry(k) == [StartEntry(k) EXCEPT !.type = "end"]

(* buffer_replace_estr: `del' characters at o give way to `new', and what   *)
(* will change that back is kept.                                          *)
Replaced(b, o, del, new, k) ==
    [b EXCEPT
       !.text = SubSeq(@, 1, o) \o new \o SubSeq(@, o + del + 1, Len(@)),
       !.modified = TRUE,
       !.undo = Append(@, [type |-> "block", o |-> o, size |-> Len(new),
                           text |-> SubSeq(b.text, o + 1, o + del),
                           unchanged |-> ~b.modified, by |-> k])]

(* undo_start_sequence *)
Started(b, k) == [b EXCEPT !.undo = Append(@, StartEntry(k))]

(* undo_end_sequence: an empty sequence is dropped.  Unless the command    *)
(* was an undo, the next one starts from the last change.                  *)
Empties(b) == b.undo # <<>> /\ Last(b.undo).type = "start"
Dropped(b) == [b EXCEPT !.undo = Front(@),
                        !.next = IF @ = Len(b.undo) THEN @ - 1 ELSE @]
Closed(b, k) == IF Empties(b) THEN Dropped(b)
                ELSE IF b.undo = <<>> THEN b
                ELSE [b EXCEPT !.undo = Append(@, EndEntry(k))]
Ended_Continued(b, undoing, k) == Closed(b, k)
Ended(b, undoing, k) ==
    LET c == Closed(b, k) IN IF undoing THEN c ELSE [c EXCEPT !.next = Len(c.undo)]

(* The first entry that revert_action reverts from entry n on: the start   *)
(* that matches an end, or the oldest if none does.                        *)
Count(u, k, n, type) == Cardinality({i \in k .. n : u[i].type = type})
MatchingStart_First(u, n) ==
    LET starts == {k \in 1 .. n : u[k].type = "start"}
    IN  IF u[n].type # "end" THEN n ELSE IF starts = {} THEN 1 ELSE Max(starts)
MatchingStart(u, n) ==
    LET starts == {k \in 1 .. n : /\ u[k].type = "start"
                                  /\ Count(u, k, n, "start") = Count(u, k, n, "end")}
    IN  IF u[n].type # "end" THEN n ELSE IF starts = {} THEN 1 ELSE Max(starts)

(* One change taken back, which is a change itself. *)
Reverted(b, e, k) ==
    IF e.type = "block"
    THEN [Replaced(b, e.o, e.size, e.text, k) EXCEPT !.modified = ~e.unchanged]
    ELSE b

(* revert_action of the entries n, n - 1, ..., m. *)
RevertedTo(b, m, n, k) ==
    LET back[j \in 0 .. n + 1 - m] ==
          IF j = 0 THEN b ELSE Reverted(back[j - 1], b.undo[n + 1 - j], k)
    IN  back[n + 1 - m]

(* F_undo *)
Undone(b, k) ==
    IF b.next = 0 THEN [b EXCEPT !.next = Len(b.undo)]
    ELSE LET m == MatchingStart(b.undo, b.next)
         IN  [RevertedTo(b, m, b.next, k) EXCEPT !.next = m - 1]

(* undo_free_all *)
Forgotten(b) == [b EXCEPT !.undo = <<>>, !.next = 0]

(* undo_set_unchanged, when the buffer has been saved: no older state is   *)
(* what the file holds any more.                                           *)
AllChanged(b) ==
    [b EXCEPT !.undo = [i \in DOMAIN @ |-> [@[i] EXCEPT !.unchanged = FALSE]]]
=============================================================================
