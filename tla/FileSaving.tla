---------------------------- MODULE FileSaving ----------------------------
(***************************************************************************)
(* Visiting, saving and reverting a file, here (src/file.c) or on another  *)
(* machine over ssh (src/remote.c), while other programs write it.         *)
(*                                                                         *)
(* A local file is known by its time, size and inode, a remote one by its  *)
(* checksum.  What a command does up to its next question is one action;   *)
(* others may write the file while a question waits.  A remote write that  *)
(* is given up (C-g, remote-timeout, a lost connection) may be carried out *)
(* later all the same.                                                     *)
(***************************************************************************)
EXTENDS Naturals, FiniteSets

CONSTANTS Contents,     \* what a file and a buffer can hold
          Missing,      \* no file
          Partial,      \* what a write that failed midway leaves
          NEW_FILES,    \* whether a file that is not there is visited
          WRITES_FAIL,  \* whether backups and writes fail, or are given up but done
          KEY_WAITS,    \* whether others write it while a failed backup's message waits for a key
          MAX_STEPS     \* bound: edits, saves, and writes of others

ASSUME FileAssumption == /\ {Missing, Partial} \cap Contents = {} /\ Missing # Partial
                         /\ {NEW_FILES, WRITES_FAIL, KEY_WAITS} \subseteq BOOLEAN /\ MAX_STEPS \in Nat

VARIABLES
    far,         \* whether the file is on another machine
    disk,        \* what the file holds
    version,     \* its time, size and inode, new at every write; 0 if it is missing
    writes,      \* number of writes
    backupFile,  \* what FILE~ holds
    visited,     \* whether a buffer visits it
    text,        \* what the buffer holds
    modified,
    known,       \* bp->disk: the version last read or written, 0 if there was none
    sum,         \* bp->remote_sum: the contents last read or written
    diskWarned,  \* disk_warned
    backedUp,    \* bp->backup
    asking,      \* whether it asks to save over a file that has changed
    waiting,     \* whether the message that no backup could be made waits for a key
    givenUp,     \* remote writes given up
    steps,       \* number of edits, saves, and writes of others
    heldTexts,        \* history: what the buffer has held of the file, by reading or writing
    original,    \* history: a file here as the first save found it, or Missing
    told,        \* history: the user was told that no backup could be made here
    lost         \* history: what others wrote was overwritten unasked

fsFile == <<disk, version, writes, backupFile>>
fsBuffer == <<visited, text, modified, known, sum, diskWarned, backedUp>>
fsHistory == <<heldTexts, original, told, lost>>
fsVars == <<far, fsFile, fsBuffer, asking, waiting, givenUp, steps, fsHistory>>

FsInit == /\ far \in BOOLEAN
          /\ disk \in Contents \cup (IF NEW_FILES THEN {Missing} ELSE {})
          /\ version = IF disk = Missing THEN 0 ELSE 1
          /\ writes = 1
          /\ backupFile = Missing
          /\ visited = FALSE /\ text = Missing /\ modified = FALSE
          /\ known = 0 /\ sum = Missing /\ diskWarned = FALSE /\ backedUp = FALSE
          /\ asking = FALSE /\ waiting = FALSE /\ givenUp = {} /\ steps = 0
          /\ heldTexts = {} /\ original = Missing /\ told = FALSE /\ lost = FALSE

Spend == steps < MAX_STEPS /\ steps' = steps + 1

Holds(c) == /\ disk' = c
            /\ writes' = writes + 1
            /\ version' = IF c = Missing THEN 0 ELSE writes'

-----------------------------------------------------------------------------
(* Other programs write the file, or delete it.                             *)
OthersWrite == /\ Spend
               /\ waiting => KEY_WAITS
               /\ \E c \in (Contents \cup {Missing}) \ {disk} : Holds(c)
               /\ UNCHANGED <<far, backupFile, fsBuffer, asking, waiting, givenUp, fsHistory>>

-----------------------------------------------------------------------------
(* Reading and editing *)

(* buffer_note_disk, or the checksum: the buffer holds what the file does.  *)
Noted == /\ known' = version
         /\ sum' = disk
         /\ diskWarned' = FALSE
         /\ heldTexts' = heldTexts \cup {disk}

ReadIn == /\ text' = disk
          /\ modified' = FALSE
          /\ Noted

NotWritten == UNCHANGED <<far, fsFile, backedUp, asking, waiting, givenUp, steps, original, told, lost>>

(* A command may begin: none waits for an answer or a key.                  *)
Idle == visited /\ ~asking /\ ~waiting

Visit == /\ ~visited
         /\ disk = Missing /\ ~far => NEW_FILES
         /\ visited' = TRUE
         /\ ReadIn
         /\ NotWritten

Edit == /\ Idle
        /\ Spend
        /\ \E c \in Contents \ {text} : text' = c
        /\ modified' = TRUE
        /\ UNCHANGED <<far, fsFile, visited, known, sum, diskWarned, backedUp, asking, waiting, givenUp, fsHistory>>

(* buffer_disk_changed: a file that was not there, or is gone, has not      *)
(* changed.                                                                 *)
DiskChanged_Warned == known # 0 /\ version # 0 /\ known # version /\ ~diskWarned
DiskChanged == known # 0 /\ version # 0 /\ known # version

(* buffers_check_disk, for files here: git may end while a question waits.  *)
CheckDisk == /\ visited /\ ~far
             /\ DiskChanged
             /\ \/ ~modified /\ ReadIn
                \/ modified /\ text = disk /\ Noted /\ UNCHANGED <<text, modified>>
                \/ /\ modified /\ text # disk /\ ~diskWarned
                   /\ diskWarned' = TRUE
                   /\ UNCHANGED <<text, modified, known, sum, heldTexts>>
             /\ NotWritten /\ UNCHANGED visited

RevertBuffer == /\ Idle /\ disk # Missing
                /\ ReadIn
                /\ NotWritten /\ UNCHANGED visited

-----------------------------------------------------------------------------
(* Writing: `data' over what is there, said to be so if `agreed'            *)

Overwrites(data, agreed) ==
  /\ lost' = (lost \/ ~(agreed \/ disk \in heldTexts \cup {data, Missing}))
  /\ heldTexts' = heldTexts \cup {disk'}
  /\ Holds(disk')

Wrote == /\ modified' = FALSE
         /\ known' = version'
         /\ sum' = disk'
         /\ diskWarned' = FALSE

NotSaved == UNCHANGED <<modified, known, sum, diskWarned>>

AsksFirst == /\ asking' = TRUE
             /\ UNCHANGED <<far, fsFile, fsBuffer, waiting, givenUp, fsHistory>>

AnswersNo == /\ asking' = FALSE
             /\ UNCHANGED <<far, fsFile, fsBuffer, waiting, givenUp, fsHistory>>

(* FILE~ after a copy of the file was wanted and was made, or could not be. *)
Copied(wanted, made) ==
  /\ made \/ (WRITES_FAIL /\ wanted)
  /\ backupFile' \in IF ~wanted THEN {backupFile} ELSE IF made THEN {disk} ELSE {backupFile, Partial}

-----------------------------------------------------------------------------
(* Saving a file here *)

(* A backup is made before the first write, or tried again before the next. *)
BackedUpHere(made) ==
  /\ Copied(disk # Missing /\ ~backedUp, made)
  /\ backedUp' = (backedUp \/ (disk # Missing /\ made))
  /\ original' = IF original = Missing THEN disk ELSE original
  /\ told' = (told \/ ~made)
  /\ UNCHANGED <<far, visited, text, givenUp>>

(* write_to_disk, which may fail midway or before it has changed anything.  *)
WritesHere ==
  /\ \/ disk' = text /\ Overwrites(text, asking) /\ Wrote
     \/ WRITES_FAIL /\ disk' = Partial /\ Overwrites(text, asking) /\ NotSaved
     \/ WRITES_FAIL /\ NotSaved /\ UNCHANGED <<disk, version, writes, heldTexts, lost>>
  /\ asking' = FALSE /\ waiting' = FALSE

(* Without a backup a message waits for a key, and then it is written.      *)
WaitsForKey == /\ waiting' = TRUE
               /\ NotSaved
               /\ UNCHANGED <<disk, version, writes, heldTexts, lost, asking>>

BacksUpAndWrites == \/ BackedUpHere(TRUE) /\ WritesHere
                    \/ BackedUpHere(FALSE) /\ WaitsForKey

KeyTyped == /\ waiting
            /\ WritesHere
            /\ UNCHANGED <<far, backupFile, visited, text, backedUp, givenUp, steps, original, told>>

SaveHere == /\ Idle /\ modified /\ ~far
            /\ Spend
            /\ IF DiskChanged /\ text # disk THEN AsksFirst ELSE BacksUpAndWrites

AnswerHere == /\ asking /\ ~waiting /\ ~far
              /\ BacksUpAndWrites \/ AnswersNo
              /\ UNCHANGED steps

-----------------------------------------------------------------------------
(* Saving a file on another machine *)

WriteOf(anyway) == [data |-> text, over |-> sum, anyway |-> anyway, backup |-> ~backedUp]

Expected(w) == w.anyway \/ disk = w.over

(* WRITE_SCRIPT makes a backup whenever it is asked for one, and writes     *)
(* even if it cannot.                                                       *)
ScriptWrites(w, c, made, agreed) ==
  /\ Copied(w.backup /\ disk # Missing, made)
  /\ UNCHANGED <<original, told>>
  /\ disk' = c
  /\ Overwrites(w.data, agreed)

(* ssh may fail before the far side has it all, or the write be given up.   *)
NotConfirmed(w) == /\ givenUp' \in {givenUp} \cup (IF WRITES_FAIL THEN {givenUp \cup {w}} ELSE {})
                   /\ UNCHANGED <<fsFile, fsHistory, fsBuffer>>

RemoteWrite(w, agreed) ==
  /\ \/ \E made \in BOOLEAN : /\ ScriptWrites(w, w.data, made, agreed)
                             /\ Wrote
                             /\ backedUp' = (backedUp \/ (w.backup /\ made))
                             /\ UNCHANGED <<visited, text, givenUp>>
     \/ /\ WRITES_FAIL
        /\ \E made \in BOOLEAN : ScriptWrites(w, Partial, made, agreed)
        /\ NotSaved
        /\ UNCHANGED <<visited, text, givenUp, backedUp>>
     \/ NotConfirmed(w)
  /\ asking' = FALSE
  /\ UNCHANGED <<far, waiting>>

(* On a conflict, the same text is written without asking.                  *)
Conflict(w) == ~Expected(w)

SaveRemote == /\ Idle /\ modified /\ far
              /\ Spend
              /\ IF ~Conflict(WriteOf(FALSE)) THEN RemoteWrite(WriteOf(FALSE), FALSE)
                 ELSE IF disk = text THEN RemoteWrite(WriteOf(TRUE), FALSE)
                 ELSE AsksFirst

AnswerRemote == /\ asking /\ far
                /\ RemoteWrite(WriteOf(TRUE), TRUE) \/ AnswersNo
                /\ UNCHANGED steps

(* What was given up is carried out after all.                              *)
LateWrite == \E w \in givenUp :
               /\ givenUp' = givenUp \ {w}
               /\ IF Expected(w) THEN \E made \in BOOLEAN : ScriptWrites(w, w.data, made, w.anyway)
                  ELSE UNCHANGED <<fsFile, fsHistory>>
               /\ UNCHANGED <<far, fsBuffer, asking, waiting, steps>>

-----------------------------------------------------------------------------
FsNext == OthersWrite \/ Visit \/ Edit \/ CheckDisk \/ RevertBuffer \/ SaveHere \/ AnswerHere \/ KeyTyped
          \/ SaveRemote \/ AnswerRemote \/ LateWrite

FsSpec == FsInit /\ [][FsNext]_fsVars

(* A save, even one that was given up and is carried out later, never       *)
(* replaces what others put in the file, unless the buffer has held that    *)
(* or it is to be written anyway: the user has agreed to save over a file   *)
(* that has changed, or the file had the same text when it was compared.    *)
NoSilentLoss == ~lost

(* Here, FILE~ has what was in the file when this buffer was first to save  *)
(* it, even if that save failed and was tried again, unless the user was    *)
(* told that the backup could not be made (make-backup-files is on, as it   *)
(* is by default).                                                          *)
BackupIsOriginal == ~far /\ original # Missing /\ ~told => backupFile = original

(* What backup_and_write says of its backup, "Make backup of original file, *)
(* the first time it is saved": not so when the first one fails and a later *)
(* save makes one, of what this buffer has written by then.                 *)
BackupOfOriginal == ~far /\ original # Missing /\ backedUp => backupFile = original

(* What was in a file when a buffer is saved over it is lost only as        *)
(* agreed: the text others put there is asked about, what was there first   *)
(* is in FILE~ unless the user was told otherwise (save_buffer,             *)
(* backup_and_write; remote_write).                                         *)
SavesAreSafe == NoSilentLoss /\ BackupIsOriginal
=============================================================================
