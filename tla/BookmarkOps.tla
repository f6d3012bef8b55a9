---------------------------- MODULE BookmarkOps ----------------------------
(* The bookmark lists of src/bookmark.c and the changes (struct Op) the     *)
(* commands make in them.  A list is a function from names to places: the   *)
(* order of BookmarkList is that of the names and carries nothing else.  A  *)
(* place stands for the kind, machine, path and point of a Bookmark.        *)
EXTENDS Naturals, Sequences, SequencesExt

CONSTANTS Names,     \* the names of bookmarks
          Places,    \* what a bookmark may lead to
          NoPlace    \* the name is not that of a bookmark

ASSUME NoPlaceAssumption == NoPlace \notin Places

Lists == [Names -> Places \cup {NoPlace}]

EmptyList == [n \in Names |-> NoPlace]

NoOp == [kind |-> "none"]

Ops == {NoOp}
         \cup [kind : {"set"}, name : Names, place : Places]
         \cup [kind : {"delete"}, name : Names]
         \cup [kind : {"rename"}, name : Names, to : Names]

(* Whether apply_op can make op in l: a bookmark deleted or renamed must be *)
(* there, and one renamed must not take the name of another.                *)
Applies(l, op) ==
  /\ op.kind \in {"delete", "rename"} => l[op.name] # NoPlace
  /\ op.kind = "rename" => op.to = op.name \/ l[op.to] = NoPlace

(* What apply_op leaves: the list changed, or as it was when it fails.      *)
Apply(l, op) ==
  IF op = NoOp \/ ~Applies(l, op) THEN l
  ELSE CASE op.kind = "set"    -> [l EXCEPT ![op.name] = op.place]
         [] op.kind = "delete" -> [l EXCEPT ![op.name] = NoPlace]
         [] op.kind = "rename" -> [l EXCEPT ![op.name] = NoPlace, ![op.to] = l[op.name]]

(* replay_pending: the changes made in turn, those that no longer apply     *)
(* left out.                                                                *)
Replay(l, changes) ==
  LET after[n \in 0 .. Len(changes)] == IF n = 0 THEN l ELSE Apply(after[n - 1], changes[n])
  IN  after[Len(changes)]

(* The names a change may add, replace or remove.                           *)
NamesOf(op) == CASE op = NoOp -> {}
                 [] op.kind = "rename" -> {op.name, op.to}
                 [] OTHER -> {op.name}
=============================================================================
