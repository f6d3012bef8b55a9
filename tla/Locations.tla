----------------------------- MODULE Locations -----------------------------
(***************************************************************************)
(* The machines connected to and the directory last browsed on each, kept  *)
(* across sessions in ~/.xzile.d/locations (src/remote.c, "Saved           *)
(* locations").  location_note makes a location the first of the session's *)
(* list, then does the same in the file under a lock of its own and takes  *)
(* the file's list for its own.  Unlike a bookmark, a location that cannot *)
(* be saved is not kept to be saved later.                                 *)
(*                                                                         *)
(* The steps other sessions can see are actions, as in Bookmarks.          *)
(***************************************************************************)
EXTENDS Integers, SequencesExt, Selection

CONSTANTS Machines,   \* host, user and port of the machines
          Local,      \* this machine
          Dirs,
          NoDir,      \* not known, a NULL pointer
          Sessions,
          Quiet,      \* sessions started with -q: state_enabled is false
          NoSession,
          Foreign,    \* a file of another version of the format
          SAVES_MAY_FAIL, \* whether locking, reading and writing may fail
          MAX_SAVED_CONNECTIONS,
          MAX_NOTES   \* bound: locations noted and sessions started in a run

ASSUME SessionsAssumption == Quiet \subseteq Sessions /\ NoSession \notin Sessions
ASSUME PlacesAssumption == Local \notin Machines /\ NoDir \notin Dirs
ASSUME ForeignAssumption == Foreign # <<>>
ASSUME BoundsAssumption == /\ SAVES_MAY_FAIL \in BOOLEAN
                           /\ MAX_SAVED_CONNECTIONS \in Nat \ {0}
                           /\ MAX_NOTES \in Nat

VARIABLES
    file,    \* what ~/.xzile.d/locations holds, most recent first, or Foreign
    lock,    \* the session that has the lock, or NoSession
    pc,      \* where each session is in location_note
    note,    \* the location it is noting
    cur,     \* the list it is about to save
    saved,   \* the session's list, most recent first
    warned,  \* state_warned: told that a save failed, and none worked since
    notes,   \* locations noted so far
    stamp,   \* history: when each location was last noted in the file, or 0
    browsed  \* history: the directory each session last browsed on each

vars == <<file, lock, pc, note, cur, saved, warned, notes, stamp, browsed>>

At == Machines \cup {Local}

Locs == [at : At, dir : Dirs \cup {NoDir}]

(* location_note does nothing for this machine without a directory.         *)
Notes == {n \in Locs : n.at = Local => n.dir # NoDir}

-----------------------------------------------------------------------------
(* Lists of locations *)

DirIn(l, a) == LET here == {i \in DOMAIN l : l[i].at = a}
               IN  IF here = {} THEN NoDir ELSE l[CHOOSE i \in here : TRUE].dir

(* The machines among the first k; the local directory does not count.      *)
MachinesIn(l, k) == {i \in 1 .. k : l[i].at # Local}

(* saved_touch leaves out the first machine beyond the limit.               *)
TooMany_OneMore(l, k) == /\ l[k].at # Local
                         /\ Cardinality(MachinesIn(l, k)) = MAX_SAVED_CONNECTIONS + 2
TooMany(l, k) == /\ l[k].at # Local
                 /\ Cardinality(MachinesIn(l, k)) = MAX_SAVED_CONNECTIONS + 1

Capped(l) == LET over == {k \in DOMAIN l : TooMany(l, k)}
             IN  IF over = {} THEN l ELSE RemoveAt(l, CHOOSE k \in over : TRUE)

Ordered(l, new) == <<new>> \o Selected(l, {k \in DOMAIN l : l[k].at # new.at})

(* The directory noted, or else the one known.                              *)
KeptDir(l, n) == IF n.dir = NoDir THEN DirIn(l, n.at) ELSE n.dir

(* saved_touch: the location first, with its directory if one is given.     *)
Touch(l, n) == Capped(Ordered(l, [n EXCEPT !.dir = KeptDir(l, n)]))

-----------------------------------------------------------------------------

(* No list has a location yet, or another version of the program wrote it.  *)
Init == /\ file \in {<<>>, Foreign}
        /\ lock = NoSession
        /\ pc = [s \in Sessions |-> "off"]
        /\ note \in [Sessions -> {[at |-> Local, dir |-> NoDir]}]
        /\ cur = [s \in Sessions |-> <<>>]
        /\ saved = [s \in Sessions |-> <<>>]
        /\ warned = [s \in Sessions |-> FALSE]
        /\ notes = 0
        /\ stamp = [a \in At |-> 0]
        /\ browsed = [s \in Sessions |-> [a \in At |-> NoDir]]

Counted == notes < MAX_NOTES /\ notes' = notes + 1

Readable == file # Foreign

(* read_state fills its list unless the file is of another version.         *)
Parsed == IF file = Foreign THEN <<>> ELSE file

(* locations_load, which -q leaves out; a file that cannot be read gives an *)
(* empty list.                                                              *)
Start(s) ==
  /\ pc[s] = "off"
  /\ Counted
  /\ pc' = [pc EXCEPT ![s] = "idle"]
  /\ \/ /\ s \notin Quiet
        /\ saved' = [saved EXCEPT ![s] = Parsed]
        /\ browsed' = [browsed EXCEPT ![s] = [a \in At |-> DirIn(Parsed, a)]]
     \/ /\ s \in Quiet \/ SAVES_MAY_FAIL
        /\ UNCHANGED <<saved, browsed>>
  /\ UNCHANGED <<file, lock, note, cur, warned, stamp>>

(* The head of location_note: the session's own list, always.               *)
Note(s, n) ==
  /\ pc[s] = "idle"
  /\ Counted
  /\ note' = [note EXCEPT ![s] = n]
  /\ saved' = [saved EXCEPT ![s] = Touch(@, n)]
  /\ browsed' = IF n.dir = NoDir THEN browsed ELSE [browsed EXCEPT ![s][n.at] = n.dir]
  /\ pc' = [pc EXCEPT ![s] = IF s \in Quiet THEN "idle" ELSE "locking"]
  /\ UNCHANGED <<file, lock, cur, warned, stamp>>

MayLock_Always == TRUE
MayLock == lock = NoSession

Lock(s) ==
  /\ pc[s] = "locking"
  /\ MayLock
  /\ lock' = s
  /\ pc' = [pc EXCEPT ![s] = "reading"]
  /\ UNCHANGED <<file, note, cur, saved, warned, notes, stamp, browsed>>

(* state_unsaved, and the lock given up if the session has it.              *)
Unlocked(s) == lock' = IF lock = s THEN NoSession ELSE lock

Unsaved(s) ==
  /\ pc' = [pc EXCEPT ![s] = "idle"]
  /\ warned' = [warned EXCEPT ![s] = TRUE]
  /\ Unlocked(s)
  /\ UNCHANGED <<file, note, cur, saved, notes, stamp, browsed>>

(* The directory is not private, or the lock cannot be had in time.         *)
NoLock(s) == pc[s] = "locking" /\ SAVES_MAY_FAIL /\ Unsaved(s)

Read(s) ==
  /\ pc[s] = "reading"
  /\ Readable
  /\ cur' = [cur EXCEPT ![s] = Touch(Parsed, note[s])]
  /\ pc' = [pc EXCEPT ![s] = "writing"]
  /\ UNCHANGED <<file, lock, note, saved, warned, notes, stamp, browsed>>

ReadFails(s) == /\ pc[s] = "reading"
                /\ SAVES_MAY_FAIL \/ ~Readable
                /\ Unsaved(s)

(* write_state renames the new file over the old one, unless they are the   *)
(* same.                                                                    *)
Write(s) ==
  /\ pc[s] = "writing"
  /\ file' = cur[s]
  /\ stamp' = [stamp EXCEPT ![note[s].at] = 1 + Max({stamp[a] : a \in At})]
  /\ pc' = [pc EXCEPT ![s] = "saved"]
  /\ UNCHANGED <<lock, note, cur, saved, warned, notes, browsed>>

WriteFails(s) == pc[s] = "writing" /\ SAVES_MAY_FAIL /\ Unsaved(s)

(* What was saved becomes the session's list.                               *)
Adopt(s) ==
  /\ pc[s] = "saved"
  /\ saved' = [saved EXCEPT ![s] = cur[s]]
  /\ warned' = [warned EXCEPT ![s] = FALSE]
  /\ Unlocked(s)
  /\ pc' = [pc EXCEPT ![s] = "idle"]
  /\ UNCHANGED <<file, note, cur, notes, stamp, browsed>>

(* The session ends, or is killed at any point of location_note.            *)
Leave(s) ==
  /\ pc[s] # "off"
  /\ pc' = [pc EXCEPT ![s] = "off"]
  /\ Unlocked(s)
  /\ note' = [note EXCEPT ![s] = [at |-> Local, dir |-> NoDir]]
  /\ cur' = [cur EXCEPT ![s] = <<>>]
  /\ saved' = [saved EXCEPT ![s] = <<>>]
  /\ warned' = [warned EXCEPT ![s] = FALSE]
  /\ browsed' = [browsed EXCEPT ![s] = [a \in At |-> NoDir]]
  /\ UNCHANGED <<file, notes, stamp>>

Save(s) == \/ Lock(s) \/ NoLock(s) \/ Read(s) \/ ReadFails(s)
           \/ Write(s) \/ WriteFails(s) \/ Adopt(s)

Next == \/ \E s \in Sessions : Start(s) \/ Save(s) \/ Leave(s)
        \/ \E s \in Sessions, n \in Notes : Note(s, n)

Spec == Init /\ [][Next]_vars

-----------------------------------------------------------------------------
(* Properties *)

(* A list names every machine once and at most MAX_SAVED_CONNECTIONS of     *)
(* them, whatever other sessions did to the file.                           *)
WellFormed(l) ==
  /\ l \in Seq(Locs)
  /\ \A i, j \in DOMAIN l : l[i].at = l[j].at => i = j
  /\ Cardinality(MachinesIn(l, Len(l))) <= MAX_SAVED_CONNECTIONS

TypeOK == /\ file = Foreign \/ WellFormed(file)
          /\ lock \in Sessions \cup {NoSession}
          /\ pc \in [Sessions -> {"off", "idle", "locking", "reading", "writing", "saved"}]
          /\ note \in [Sessions -> Locs]
          /\ \A s \in Sessions : WellFormed(cur[s]) /\ WellFormed(saved[s])
          /\ warned \in [Sessions -> BOOLEAN]
          /\ notes \in 0 .. MAX_NOTES
          /\ stamp \in [At -> Nat]
          /\ browsed \in [Sessions -> [At -> Dirs \cup {NoDir}]]

(* Two sessions that note locations at once do not lose each other's: what  *)
(* is about to replace the file is what it holds, with one location noted.  *)
OneLocationChanged ==
  \A s \in Sessions :
     pc[s] = "writing" => file # Foreign /\ cur[s] = Touch(file, note[s])

(* The file is in the order locations were last noted by any session, and   *)
(* one left out was noted before all the machines that are kept.            *)
MostRecentKept ==
  file # Foreign =>
    LET kept == {file[i].at : i \in DOMAIN file}
    IN  /\ \A i, j \in DOMAIN file : i < j => stamp[file[i].at] >= stamp[file[j].at]
        /\ \A a \in Machines \ kept, b \in kept \cap Machines :
              stamp[a] <= stamp[b]
        /\ (\E a \in Machines \ kept : stamp[a] > 0) =>
              Cardinality(kept \cap Machines) = MAX_SAVED_CONNECTIONS

(* A file of another version is never replaced.                             *)
ForeignLeftAlone == [][file = Foreign => file' = Foreign]_vars

(* Whatever the sessions do and wherever one of them dies, location_note    *)
(* neither drops a location another session saved nor touches a file it     *)
(* cannot read.                                                             *)
NotesKept == [][OneLocationChanged']_vars /\ ForeignLeftAlone

(* The list of machines, of every session and in the file: no more of them  *)
(* than are to be kept, each once, the last noted first (saved_touch).      *)
ListSound == TypeOK /\ MostRecentKept

(* location_dir gives "The directory last browsed on `r'", for as long as   *)
(* the list has room for all machines.                                      *)
LastBrowsed ==
  \A s \in Sessions, a \in At :
     pc[s] # "off" => DirIn(saved[s], a) = browsed[s][a]
=============================================================================
