----------------------------- MODULE Bookmarks -----------------------------
(***************************************************************************)
(* Bookmarks kept across sessions (src/bookmark.c).  Several editors share *)
(* ~/.xzile.d/bookmarks.  Each change is one call of commit: it locks a    *)
(* file of its own, reads the bookmarks, makes in them the changes it      *)
(* could not save before and the new one, renames a new file over the old, *)
(* and takes the result as the session's list.  Any of this may fail, and  *)
(* a session may die between any two steps; the kernel then drops its      *)
(* lock.                                                                   *)
(*                                                                         *)
(* Each system call that other sessions can see is an action: taking the   *)
(* lock, reading, renaming, unlocking.  The file is replaced and never     *)
(* written in place, so that reading it is one step.  The other             *)
(* failures of the calls around these (a directory that is not private, a  *)
(* lock that stays taken for STATE_LOCK_WAIT, a full disk) are choices.    *)
(***************************************************************************)
EXTENDS BookmarkOps

CONSTANTS Sessions,    \* editors that may run at once
          Quiet,       \* those started with -q: state_enabled is false
          Stuck,       \* those that may stop for good in the middle of a save
          NoSession,
          Foreign,     \* a file of another version of the format
          MAX_PENDING, \* bound: changes waiting to be saved in one session
          MAX_CHANGES  \* bound: commands and starts of one run

ASSUME SessionsAssumption == Quiet \subseteq Sessions /\ Stuck \subseteq Sessions /\ NoSession \notin Sessions
ASSUME ForeignAssumption == Foreign \notin Lists
ASSUME BoundsAssumption == MAX_PENDING \in Nat /\ MAX_CHANGES \in Nat

VARIABLES
    file,     \* what ~/.xzile.d/bookmarks holds, or Foreign
    lock,     \* the session that has the lock, or NoSession
    pc,       \* where each session is in commit
    op,       \* the change it is making
    cur,      \* the list commit is about to save
    marks,    \* the session's bookmarks
    pending,  \* the changes it made since the file was last saved
    seen,     \* history: the file contents its bookmarks come from
    changes   \* commands given so far

vars == <<file, lock, pc, op, cur, marks, pending, seen, changes>>

PCs == {"off", "idle", "locking", "reading", "writing", "saved", "keeping"}

Init == /\ file \in {EmptyList, Foreign}
        /\ lock = NoSession
        /\ pc = [s \in Sessions |-> "off"]
        /\ op = [s \in Sessions |-> NoOp]
        /\ cur = [s \in Sessions |-> EmptyList]
        /\ marks = [s \in Sessions |-> EmptyList]
        /\ pending = [s \in Sessions |-> <<>>]
        /\ seen = [s \in Sessions |-> EmptyList]
        /\ changes = 0

Counted == changes < MAX_CHANGES /\ changes' = changes + 1

(* read_state accepts the file.  It fills its list only then.               *)
Readable == file # Foreign

Parsed == IF file = Foreign THEN EmptyList ELSE file

(* bookmarks_load, which -q leaves out.  It takes no lock.                  *)
Start(s) ==
  /\ pc[s] = "off"
  /\ Counted
  /\ pc' = [pc EXCEPT ![s] = "idle"]
  /\ \/ /\ s \notin Quiet /\ Readable
        /\ marks' = [marks EXCEPT ![s] = Parsed]
        /\ seen' = [seen EXCEPT ![s] = Parsed]
     \/ UNCHANGED <<marks, seen>>
  /\ UNCHANGED <<file, lock, op, cur, pending>>

(* A command sets, deletes or renames a bookmark, or saves (an OP_NONE,     *)
(* which F_bookmark_save refuses with -q).                                  *)
Command(s, o) ==
  /\ pc[s] = "idle"
  /\ Counted
  /\ o = NoOp => s \notin Quiet
  /\ o # NoOp => Len(pending[s]) < MAX_PENDING
  /\ op' = [op EXCEPT ![s] = o]
  /\ pc' = [pc EXCEPT ![s] = IF s \in Quiet THEN "keeping" ELSE "locking"]
  /\ UNCHANGED <<file, lock, cur, marks, pending, seen>>

(* lock_state gets the lock.                                                *)
MayLock_Always(s) == TRUE
MayLock(s) == lock = NoSession

Lock(s) ==
  /\ pc[s] = "locking"
  /\ MayLock(s)
  /\ lock' = s
  /\ pc' = [pc EXCEPT ![s] = "reading"]
  /\ UNCHANGED <<file, op, cur, marks, pending, seen, changes>>

(* It does not: the directory is not private, the lock cannot be opened, or *)
(* it was taken for as long as the session waits.                           *)
GivesUp_IfBroken(s) == lock = NoSession
GivesUp(s) == lock # s

NoLock(s) ==
  /\ pc[s] = "locking"
  /\ GivesUp(s)
  /\ pc' = [pc EXCEPT ![s] = "keeping"]
  /\ UNCHANGED <<file, lock, op, cur, marks, pending, seen, changes>>

(* What commit makes its change in, once the file is read.                  *)
Merged_InOwnList(s) == marks[s]
Merged(s) == Replay(Parsed, pending[s])

Unlocked_Never == UNCHANGED lock
Unlocked == lock' = NoSession

Read(s) ==
  /\ pc[s] = "reading"
  /\ Readable
  /\ Applies(Merged(s), op[s])
  /\ cur' = [cur EXCEPT ![s] = Apply(Merged(s), op[s])]
  /\ pc' = [pc EXCEPT ![s] = "writing"]
  /\ UNCHANGED <<file, lock, op, marks, pending, seen, changes>>

(* The change cannot be made in what is kept: an error, and nothing done.   *)
Refuse(s) ==
  /\ pc[s] = "reading"
  /\ Readable
  /\ ~Applies(Merged(s), op[s])
  /\ Unlocked
  /\ pc' = [pc EXCEPT ![s] = "idle"]
  /\ UNCHANGED <<file, op, cur, marks, pending, seen, changes>>

(* The file must not be replaced, or cannot be read.                        *)
ReadFails(s) ==
  /\ pc[s] = "reading"
  /\ Unlocked
  /\ pc' = [pc EXCEPT ![s] = "keeping"]
  /\ UNCHANGED <<file, op, cur, marks, pending, seen, changes>>

(* write_state renames the new file over the old one, or the text is the    *)
(* same and it is not called.                                               *)
Write(s) ==
  /\ pc[s] = "writing"
  /\ file' = cur[s]
  /\ pc' = [pc EXCEPT ![s] = "saved"]
  /\ UNCHANGED <<lock, op, cur, marks, pending, seen, changes>>

WriteFails(s) ==
  /\ pc[s] = "writing"
  /\ Unlocked
  /\ pc' = [pc EXCEPT ![s] = "keeping"]
  /\ UNCHANGED <<file, op, cur, marks, pending, seen, changes>>

(* pending_clear.                                                           *)
Cleared_Never(p) == p
Cleared(p) == <<>>

(* What was saved becomes the session's list, and the lock is closed.       *)
Adopt(s) ==
  /\ pc[s] = "saved"
  /\ marks' = [marks EXCEPT ![s] = cur[s]]
  /\ seen' = [seen EXCEPT ![s] = cur[s]]
  /\ pending' = [pending EXCEPT ![s] = Cleared(@)]
  /\ Unlocked
  /\ pc' = [pc EXCEPT ![s] = "idle"]
  /\ UNCHANGED <<file, op, cur, changes>>

(* What is kept to be saved with the next change: made, and not an OP_NONE. *)
Backlog(s) == IF s \in Quiet \/ op[s] = NoOp \/ ~Applies(marks[s], op[s]) THEN pending[s]
              ELSE Append(pending[s], op[s])

(* The change is made in the session's own list.                            *)
Remember(s) ==
  /\ pc[s] = "keeping"
  /\ marks' = [marks EXCEPT ![s] = Apply(@, op[s])]
  /\ pending' = [pending EXCEPT ![s] = Backlog(s)]
  /\ pc' = [pc EXCEPT ![s] = "idle"]
  /\ UNCHANGED <<file, lock, op, cur, seen, changes>>

(* F_bookmark_bmenu_revert: `g' in the list reads the file, without lock.   *)
Reread_WithoutBacklog(s) == Parsed
Reread(s) == Replay(Parsed, pending[s])

Revert(s) ==
  /\ pc[s] = "idle"
  /\ s \notin Quiet
  /\ Counted
  /\ Readable
  /\ marks' = [marks EXCEPT ![s] = Reread(s)]
  /\ seen' = [seen EXCEPT ![s] = Parsed]
  /\ UNCHANGED <<file, lock, pc, op, cur, pending>>

(* The session ends, or is killed at any point of commit.                   *)
Leave(s) ==
  /\ pc[s] # "off"
  /\ pc' = [pc EXCEPT ![s] = "off"]
  /\ lock' = IF lock = s THEN NoSession ELSE lock
  /\ op' = [op EXCEPT ![s] = NoOp]
  /\ cur' = [cur EXCEPT ![s] = EmptyList]
  /\ marks' = [marks EXCEPT ![s] = EmptyList]
  /\ pending' = [pending EXCEPT ![s] = <<>>]
  /\ seen' = [seen EXCEPT ![s] = EmptyList]
  /\ UNCHANGED <<file, changes>>

(* An editor of another version, which takes the same lock, saves its own.  *)
OtherVersion ==
  /\ lock = NoSession
  /\ file # Foreign
  /\ file' = Foreign
  /\ UNCHANGED <<lock, pc, op, cur, marks, pending, seen, changes>>

Commit(s) == \/ Lock(s) \/ NoLock(s)
             \/ Read(s) \/ Refuse(s) \/ ReadFails(s)
             \/ Write(s) \/ WriteFails(s)
             \/ Adopt(s) \/ Remember(s)

Next == \/ OtherVersion
        \/ \E s \in Sessions : Commit(s) \/ Start(s) \/ Revert(s) \/ Leave(s)
        \/ \E s \in Sessions, o \in Ops : Command(s, o)

Spec == Init /\ [][Next]_vars

(* commit has no wait but the one for the lock and the ones for the file    *)
(* system, in which the sessions of Stuck may hang.                         *)
FairSpec == Spec /\ \A s \in Sessions \ Stuck : WF_vars(Commit(s))

-----------------------------------------------------------------------------
(* Properties *)

(* What each variable holds; commit never keeps an OP_NONE for later.       *)
TypeOK == /\ file \in Lists \cup {Foreign}
          /\ lock \in Sessions \cup {NoSession}
          /\ pc \in [Sessions -> PCs]
          /\ op \in [Sessions -> Ops]
          /\ cur \in [Sessions -> Lists]
          /\ marks \in [Sessions -> Lists]
          /\ pending \in [Sessions -> Seq(Ops \ {NoOp})]
          /\ seen \in [Sessions -> Lists]
          /\ changes \in 0 .. MAX_CHANGES

Locked(s) == pc[s] \in {"reading", "writing", "saved"}

(* The lock is held by the one session between lock_state and close, and by *)
(* nobody when no session is there: no error path of commit keeps it.       *)
LockHeld == \A s \in Sessions : Locked(s) <=> lock = s

(* No update is lost: what a session is about to rename over the file is    *)
(* what the file still holds, with the session's backlog and its change.    *)
NoLostUpdate ==
  \A s \in Sessions :
     pc[s] = "writing" => /\ file # Foreign
                          /\ Applies(Replay(file, pending[s]), op[s])
                          /\ cur[s] = Apply(Replay(file, pending[s]), op[s])

(* The list a session shows is always the file it last read or saved with   *)
(* the changes it has not saved: no command makes the two drift apart.      *)
MarksExplained ==
  \A s \in Sessions \ Quiet : pc[s] # "off" => marks[s] = Replay(seen[s], pending[s])

(* After a save no bookmark differs from before except those the session    *)
(* itself set, deleted or renamed since its last save.                      *)
Touched(s) == UNION {NamesOf(o) : o \in Range(pending[s]) \cup {op[s]}}

OnlyOwnChanges ==
  [][\A s \in Sessions :
        pc[s] = "writing" /\ pc'[s] = "saved" =>
          \A n \in Names : file'[n] # file[n] => n \in Touched(s)]_vars

(* A file of another version is never replaced.                             *)
ForeignLeftAlone == [][file = Foreign => file' = Foreign]_vars

(* Whatever the sessions do and wherever one of them dies, commit neither   *)
(* drops a bookmark another session saved nor touches a file it cannot      *)
(* read.                                                                    *)
FileKept == [][NoLostUpdate']_vars /\ ForeignLeftAlone

(* The variables of a session: what is kept for later has the types of what *)
(* failed to be saved, and what the session shows is what it read with its  *)
(* own changes made in it (bookmarks_load, commit,                          *)
(* F_bookmark_bmenu_revert).                                                *)
SessionsSound == TypeOK /\ MarksExplained

(* A session never hangs because another hangs with the lock: every change  *)
(* is saved, kept or refused.                                               *)
CommitsEnd == \A s \in Sessions \ Stuck : pc[s] = "locking" ~> pc[s] \in {"idle", "off"}

(* Saving is atomic: commit, with its failures and the crashes in it, does  *)
(* what one step of the abstract store does.  The step is the rename.       *)
Store == INSTANCE BookmarkStore
           WITH store <- file,
                view <- [s \in Sessions |-> IF pc[s] = "saved" THEN cur[s] ELSE marks[s]],
                backlog <- [s \in Sessions |-> IF pc[s] = "saved" THEN <<>> ELSE pending[s]]

SavesAreAtomic == Store!StoreSpec
=============================================================================
