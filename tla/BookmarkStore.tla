--------------------------- MODULE BookmarkStore ---------------------------
(* What bookmarks kept across sessions promise: every save is one step that *)
(* makes the session's own changes, those it could not save before first,   *)
(* in what the store then holds, and nothing else.                          *)
EXTENDS Sequences

CONSTANTS Sessions,       \* editors that may run at once
          Quiet,          \* those started with -q, which keep bookmarks to themselves
          EmptyList,      \* no bookmarks
          Foreign,        \* a store written by another version of the program
          Ops, NoOp,      \* the changes, and the one that changes nothing
          Applies(_, _),  \* whether a list can be changed so
          Apply(_, _),    \* the list changed
          Replay(_, _)    \* the list after a sequence of changes

VARIABLES store,    \* the bookmarks kept, or Foreign
          view,     \* the bookmarks each session shows
          backlog   \* the changes each session has made and not saved, in order

storeVars == <<store, view, backlog>>

StoreInit == /\ store \in {EmptyList, Foreign}
             /\ view = [s \in Sessions |-> EmptyList]
             /\ backlog = [s \in Sessions |-> <<>>]

(* A change is saved, after those of the backlog that still apply.          *)
Save(s, o) ==
  /\ s \notin Quiet
  /\ store # Foreign
  /\ Applies(Replay(store, backlog[s]), o)
  /\ store' = Apply(Replay(store, backlog[s]), o)
  /\ view' = [view EXCEPT ![s] = store']
  /\ backlog' = [backlog EXCEPT ![s] = <<>>]

(* A change is made for the session only, to be saved with its next one.    *)
Keep(s, o) ==
  /\ Applies(view[s], o)
  /\ view' = [view EXCEPT ![s] = Apply(@, o)]
  /\ backlog' = IF s \in Quiet \/ o = NoOp THEN backlog
                ELSE [backlog EXCEPT ![s] = Append(@, o)]
  /\ UNCHANGED store

(* A session shows what is kept, with its own unsaved changes.              *)
Show(s) ==
  /\ s \notin Quiet
  /\ store # Foreign
  /\ view' = [view EXCEPT ![s] = Replay(store, backlog[s])]
  /\ UNCHANGED <<store, backlog>>

(* A session begins with what is kept.                                      *)
Enter(s) ==
  /\ s \notin Quiet
  /\ store # Foreign
  /\ backlog[s] = <<>>
  /\ view' = [view EXCEPT ![s] = store]
  /\ UNCHANGED <<store, backlog>>

(* A session ends, or dies, and what it did not save goes with it.          *)
Leave(s) ==
  /\ view' = [view EXCEPT ![s] = EmptyList]
  /\ backlog' = [backlog EXCEPT ![s] = <<>>]
  /\ UNCHANGED store

(* Another version of the program replaces the store.                       *)
Replaced == /\ store' = Foreign
            /\ UNCHANGED <<view, backlog>>

StoreNext == \/ Replaced
             \/ \E s \in Sessions : Enter(s) \/ Show(s) \/ Leave(s)
             \/ \E s \in Sessions, o \in Ops : Save(s, o) \/ Keep(s, o)

StoreSpec == StoreInit /\ [][StoreNext]_storeVars
=============================================================================
