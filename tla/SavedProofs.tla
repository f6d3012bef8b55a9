----------------------------- MODULE SavedProofs ----------------------------
(* Proofs about what must not be lost: files as they are saved (FileSaving), *)
(* for any contents and any number of saves, by this editor and by others,  *)
(* and the text printed in a terminal (Terminal), for screens of any size   *)
(* and any sequences sent to it.                                           *)
EXTENDS FileSaving, Terminal, SelectionProofs, TLAPS

(* The versions of a file are numbered as they are written.                 *)
Versions == /\ version \in Nat /\ writes \in Nat /\ known \in Nat
            /\ version <= writes /\ known <= writes
            /\ version = 0 <=> disk = Missing

(* What the buffer knows a file by stands for a text it has held: the       *)
(* version of a file here, the checksum of one over ssh and the one that a  *)
(* write still under way expects.                                           *)
KnownTexts == /\ known # 0 /\ known = version => disk \in heldTexts
              /\ visited => sum \in heldTexts
              /\ \A w \in givenUp : w.over \in heldTexts

(* Only a file that was not there when it was visited is not known.         *)
VisitedHere == /\ ~far => givenUp = {}
               /\ asking \/ waiting => visited
               /\ far => ~waiting
               /\ visited /\ ~far /\ ~NEW_FILES => known # 0 /\ text # Missing

(* The backup of a file here is made with the first save that finds a file, *)
(* or the user is told.                                                     *)
BackedUpOnce == ~far /\ ~told => /\ backedUp <=> original # Missing
                                 /\ backedUp => backupFile = original

(* While the message of a backup that failed waits for a key, what is about *)
(* to be written over is what was compared, or agreed to.                   *)
NothingMissed == waiting /\ ~asking /\ ~NEW_FILES /\ ~KEY_WAITS => disk \in heldTexts \cup {text, Missing}

FsInv == Versions /\ KnownTexts /\ VisitedHere /\ BackedUpOnce /\ NothingMissed
         /\ (lost => ~far /\ (NEW_FILES \/ KEY_WAITS))

FsTyped == {visited, asking, waiting, backedUp, told, lost} \subseteq BOOLEAN

LEMMA NotContents == Missing \notin Contents /\ Partial \notin Contents /\ Missing # Partial /\ {NEW_FILES, KEY_WAITS} \subseteq BOOLEAN
  BY FileAssumption DEF FileAssumption

LEMMA FsInitInv == FsInit => FsInv /\ FsTyped
<1> SUFFICES ASSUME FsInit PROVE FsInv /\ FsTyped
  OBVIOUS
<1>1. FsTyped
  BY Zenon DEF FsInit, FsTyped
<1>2. ~visited /\ ~asking /\ ~waiting /\ ~backedUp /\ ~lost /\ known = 0 /\ givenUp = {} /\ original = Missing
  BY Zenon DEF FsInit
<1>3. Versions
  BY NotContents DEF FsInit, Versions
<1> QED
  BY <1>1, <1>2, <1>3 DEF FsInv, KnownTexts, VisitedHere, BackedUpOnce, NothingMissed

LEMMA FsTypedStep == FsTyped /\ [FsNext]_fsVars => FsTyped'
<1> SUFFICES ASSUME FsTyped, [FsNext]_fsVars PROVE FsTyped'
  OBVIOUS
<1> USE DEF FsTyped
<1>1. CASE UNCHANGED fsVars
  BY <1>1 DEF fsVars, fsBuffer, fsHistory
<1>2. CASE OthersWrite \/ Edit
  BY <1>2 DEF OthersWrite, Edit, fsBuffer, fsHistory
<1>3. CASE Visit \/ CheckDisk \/ RevertBuffer
  BY <1>3 DEF Visit, CheckDisk, RevertBuffer, NotWritten
<1>4. ASSUME WritesHere, UNCHANGED <<visited, backedUp, told>> PROVE FsTyped'
  BY <1>4 DEF WritesHere, Overwrites
<1>5. CASE KeyTyped
  BY <1>4, <1>5 DEF KeyTyped
<1>6. ASSUME NEW made \in BOOLEAN, BackedUpHere(made), WritesHere \/ WaitsForKey PROVE FsTyped'
  BY <1>6 DEF BackedUpHere, WritesHere, WaitsForKey, Overwrites
<1>7. CASE SaveHere \/ AnswerHere
  BY <1>6, <1>7 DEF SaveHere, AnswerHere, BacksUpAndWrites, AsksFirst, AnswersNo, fsBuffer, fsHistory
<1>8. ASSUME NEW w, NEW c, NEW made, NEW agreed, ScriptWrites(w, c, made, agreed) PROVE lost' \in BOOLEAN /\ told' = told
  BY <1>8 DEF ScriptWrites, Overwrites
<1>9. CASE LateWrite
  BY <1>8, <1>9 DEF LateWrite, fsBuffer, fsHistory
<1>10. ASSUME NEW w, NEW agreed, RemoteWrite(w, agreed) PROVE FsTyped'
  BY <1>8, <1>10 DEF RemoteWrite, NotConfirmed, fsBuffer, fsHistory
<1>11. CASE SaveRemote \/ AnswerRemote
  BY <1>10, <1>11 DEF SaveRemote, AnswerRemote, AsksFirst, AnswersNo, fsBuffer, fsHistory
<1> QED
  BY <1>1, <1>2, <1>3, <1>5, <1>7, <1>9, <1>11 DEF FsNext

(* Writing and reading keep the versions.                                   *)
LEMMA WritingVersions == ASSUME Versions, NEW c, disk' = c, Holds(c), known' \in {known, version'}
                         PROVE  Versions' /\ (version' = known => known = 0)
  BY NotContents DEF Versions, Holds

LEMMA FsInvStep == FsInv /\ FsTyped /\ [FsNext]_fsVars => FsInv'
<1> SUFFICES ASSUME FsInv, FsTyped, [FsNext]_fsVars PROVE FsInv'
  OBVIOUS
<1> USE NotContents DEF FsInv, VisitedHere
<1>1. CASE UNCHANGED fsVars
  BY <1>1 DEF fsVars, fsFile, fsBuffer, fsHistory, Versions, KnownTexts, BackedUpOnce, NothingMissed
<1>2. CASE OthersWrite
  <2>1. Versions' /\ (known' = version' => known' = 0)
    BY <1>2 DEF OthersWrite, Holds, Versions, fsBuffer
  <2> QED
    BY <1>2, <2>1 DEF OthersWrite, KnownTexts, BackedUpOnce, NothingMissed, fsBuffer, fsHistory
<1>3. CASE Edit
  BY <1>3 DEF Edit, Idle, fsFile, fsHistory, Versions, KnownTexts, BackedUpOnce, NothingMissed
<1>4. CASE Visit \/ CheckDisk \/ RevertBuffer
  <2>1. UNCHANGED <<far, disk, version, writes, backupFile, backedUp, asking, waiting, givenUp, original, told, lost>>
    BY <1>4 DEF Visit, CheckDisk, RevertBuffer, NotWritten, fsFile
  <2>2. visited => visited'
    BY <1>4 DEF Visit, CheckDisk, RevertBuffer
  <2>3. \/ known' = version /\ sum' = disk /\ heldTexts' = heldTexts \cup {disk}
        \/ UNCHANGED <<known, sum, heldTexts, visited, text>>
    BY <1>4 DEF Visit, CheckDisk, RevertBuffer, ReadIn, Noted
  <2>4. visited' /\ ~far /\ ~NEW_FILES => known' # 0 /\ text' # Missing
    BY <1>4 DEF Visit, CheckDisk, RevertBuffer, ReadIn, Noted, Versions, DiskChanged
  <2> QED
    BY <2>1, <2>2, <2>3, <2>4 DEF Versions, KnownTexts, BackedUpOnce, NothingMissed
<1>5. ASSUME WritesHere, ~far, visited, UNCHANGED <<far, visited, text, givenUp>>, BackedUpOnce',
             ~NEW_FILES /\ ~KEY_WAITS => asking \/ disk \in heldTexts \cup {text, Missing}
      PROVE  FsInv'
  <2>1. asking' = FALSE /\ waiting' = FALSE
    BY <1>5 DEF WritesHere
  <2>2. CASE disk' \in {text, Partial} /\ Overwrites(text, asking)
    <3>1. /\ Holds(disk') /\ heldTexts' = heldTexts \cup {disk'}
          /\ lost' => ~far' /\ (NEW_FILES \/ KEY_WAITS)
      BY <1>5, <2>2 DEF Overwrites
    <3>2. \/ disk' = text /\ known' = version' /\ sum' = disk'
          \/ UNCHANGED <<known, sum>>
      BY <1>5 DEF WritesHere, Wrote, NotSaved
    <3>3. Versions' /\ (version' = known => known = 0)
      BY <2>2, <3>1, <3>2, WritingVersions
    <3>4. KnownTexts'
      BY <1>5, <3>1, <3>2, <3>3 DEF KnownTexts
    <3>5. VisitedHere'
      BY <1>5, <2>1, <3>2, <3>3 DEF Versions
    <3> QED
      BY <1>5, <2>1, <3>1, <3>3, <3>4, <3>5 DEF NothingMissed
  <2>3. CASE NotSaved /\ UNCHANGED <<disk, version, writes, heldTexts, lost>>
    BY <1>5, <2>1, <2>3 DEF NotSaved, Versions, KnownTexts, NothingMissed
  <2> QED
    BY <1>5, <2>2, <2>3 DEF WritesHere
<1>a. ASSUME BacksUpAndWrites, ~far, visited, ~waiting,
             ~NEW_FILES /\ ~KEY_WAITS => asking \/ disk \in heldTexts \cup {text, Missing}
      PROVE  FsInv'
  <2>1. PICK made \in BOOLEAN : BackedUpHere(made) /\ IF made THEN WritesHere ELSE WaitsForKey
    BY <1>a DEF BacksUpAndWrites
  <2>2. UNCHANGED <<far, visited, text, givenUp>>
    BY <2>1 DEF BackedUpHere
  <2>3. BackedUpOnce'
    <3>1. /\ backedUp' <=> backedUp \/ (disk # Missing /\ made)
          /\ told' <=> told \/ ~made
      BY <2>1, Zenon DEF BackedUpHere
    <3>2. /\ original' = IF original = Missing THEN disk ELSE original
          /\ made /\ disk # Missing /\ ~backedUp => backupFile' = disk
      BY <2>1 DEF BackedUpHere, Copied
    <3>3. CASE made /\ ~told
      <4>1. CASE backedUp
        <5>1. backupFile' = backupFile
          BY <2>1, <4>1 DEF BackedUpHere, Copied
        <5> QED
          BY <1>a, <2>2, <3>1, <3>2, <3>3, <4>1, <5>1 DEF BackedUpOnce
      <4>2. CASE ~backedUp
        BY <1>a, <2>1, <2>2, <3>1, <3>2, <3>3, <4>2 DEF BackedUpOnce
      <4> QED
        BY <4>1, <4>2
    <3> QED
      BY <3>1, <3>3 DEF BackedUpOnce
  <2>4. CASE made
    BY <1>5, <1>a, <2>1, <2>2, <2>3, <2>4
  <2>5. CASE ~made
    <3>1. waiting' = TRUE /\ UNCHANGED <<disk, version, writes, heldTexts, lost, asking, known, sum>>
      BY <2>1, <2>5 DEF WaitsForKey, NotSaved
    <3>2. Versions' /\ KnownTexts'
      BY <2>2, <3>1 DEF Versions, KnownTexts
    <3>3. VisitedHere'
      BY <1>a, <2>2, <3>1
    <3>4. NothingMissed'
      BY <1>a, <2>2, <3>1, Zenon DEF NothingMissed
    <3>5. lost' => ~far' /\ (NEW_FILES \/ KEY_WAITS)
      BY <1>a, <2>2, <3>1
    <3> QED
      BY <2>3, <3>2, <3>3, <3>4, <3>5
  <2> QED
    BY <2>4, <2>5
<1>6. ASSUME AsksFirst \/ AnswersNo, visited, ~waiting PROVE FsInv'
  <2>1. UNCHANGED <<far, fsFile, fsBuffer, waiting, givenUp, fsHistory>>
    BY <1>6 DEF AsksFirst, AnswersNo
  <2> QED
    BY <1>6, <2>1 DEF fsFile, fsBuffer, fsHistory, Versions, KnownTexts, BackedUpOnce, NothingMissed
<1>7. CASE SaveHere
  <2>1. visited /\ ~far /\ ~asking /\ ~waiting
    BY <1>7 DEF SaveHere, Idle
  <2>2. CASE DiskChanged /\ text # disk
    BY <1>6, <1>7, <2>1, <2>2 DEF SaveHere
  <2>3. CASE ~(DiskChanged /\ text # disk)
    <3>1. BacksUpAndWrites
      BY <1>7, <2>3 DEF SaveHere
    <3>2. ~NEW_FILES => disk \in heldTexts \cup {text, Missing}
      BY <2>1, <2>3 DEF DiskChanged, Versions, KnownTexts
    <3> QED
      BY <1>a, <2>1, <3>1, <3>2
  <2> QED
    BY <2>2, <2>3
<1>8. CASE AnswerHere \/ KeyTyped
  <2>1. CASE AnswerHere
    BY <1>6, <1>a, <2>1 DEF AnswerHere
  <2>2. CASE KeyTyped
    <3>1. WritesHere /\ waiting /\ visited /\ ~far /\ UNCHANGED <<far, visited, text, givenUp>>
      BY <2>2 DEF KeyTyped
    <3>2. BackedUpOnce'
      BY <2>2 DEF KeyTyped, BackedUpOnce
    <3> QED
      BY <1>5, <3>1, <3>2 DEF NothingMissed
  <2> QED
    BY <1>8, <2>1, <2>2
<1>9. ASSUME NEW w, NEW c \in {w.data, Partial}, NEW made, NEW agreed, ScriptWrites(w, c, made, agreed), UNCHANGED far,
             far, agreed \/ disk \in heldTexts \cup {w.data}, UNCHANGED <<visited, waiting>>,
             asking' => asking, known' \in {known, version'}, sum' \in {sum, c}, givenUp' \subseteq givenUp
      PROVE  FsInv'
  <2>1. disk' = c /\ Holds(c) /\ heldTexts' = heldTexts \cup {c} /\ (lost' => lost)
    BY <1>9 DEF ScriptWrites, Overwrites
  <2>2. Versions' /\ (version' = known => known = 0)
    BY <1>9, <2>1, WritingVersions
  <2>3. KnownTexts'
    BY <1>9, <2>1, <2>2 DEF KnownTexts
  <2> QED
    BY <1>9, <2>1, <2>2, <2>3 DEF BackedUpOnce, NothingMissed
<1>10. ASSUME NEW w, NEW agreed, RemoteWrite(w, agreed), far, visited, agreed \/ disk \in heldTexts \cup {w.data},
              w.over \in heldTexts
       PROVE  FsInv'
  <2>0. asking' = FALSE /\ UNCHANGED <<far, waiting>>
    BY <1>10 DEF RemoteWrite
  <2>1. ASSUME NEW made, ScriptWrites(w, w.data, made, agreed), Wrote, UNCHANGED <<visited, givenUp>> PROVE FsInv'
    <3>1. known' = version' /\ sum' = w.data
      BY <2>1 DEF Wrote, ScriptWrites
    <3> QED
      BY <1>9, <1>10, <2>0, <2>1, <3>1
  <2>2. ASSUME NEW made, ScriptWrites(w, Partial, made, agreed), NotSaved, UNCHANGED <<visited, givenUp>> PROVE FsInv'
    <3>1. UNCHANGED <<known, sum>>
      BY <2>2 DEF NotSaved
    <3> QED
      BY <1>9, <1>10, <2>0, <2>2, <3>1
  <2>3. CASE NotConfirmed(w)
    BY <1>10, <2>0, <2>3 DEF NotConfirmed, fsFile, fsBuffer, fsHistory, Versions, KnownTexts, BackedUpOnce, NothingMissed
  <2> QED
    BY <1>10, <2>1, <2>2, <2>3 DEF RemoteWrite
<1>11. CASE SaveRemote
  <2> DEFINE w(anyway) == WriteOf(anyway)
  <2>1. visited /\ ~waiting /\ far /\ w(FALSE).over \in heldTexts /\ w(TRUE).over \in heldTexts /\ w(TRUE).data = text
    BY <1>11 DEF SaveRemote, Idle, WriteOf, KnownTexts
  <2>2. CASE ~Conflict(w(FALSE))
    <3>1. disk \in heldTexts
      BY <2>2, <2>1 DEF Conflict, Expected, WriteOf
    <3> QED
      BY <1>10, <1>11, <2>1, <2>2, <3>1 DEF SaveRemote
  <2>3. CASE Conflict(w(FALSE)) /\ disk = text
    BY <1>10, <1>11, <2>1, <2>3 DEF SaveRemote
  <2>4. CASE Conflict(w(FALSE)) /\ disk # text
    BY <1>6, <1>11, <2>1, <2>4 DEF SaveRemote
  <2> QED
    BY <2>2, <2>3, <2>4
<1>12. CASE AnswerRemote
  <2>1. visited /\ far /\ WriteOf(TRUE).over \in heldTexts
    BY <1>12 DEF AnswerRemote, WriteOf, KnownTexts
  <2> QED
    BY <1>6, <1>10, <1>12, <2>1 DEF AnswerRemote
<1>13. CASE LateWrite
  <2>1. PICK w \in givenUp : /\ givenUp' = givenUp \ {w}
                             /\ IF Expected(w) THEN \E made \in BOOLEAN : ScriptWrites(w, w.data, made, w.anyway)
                                ELSE UNCHANGED <<fsFile, fsHistory>>
                             /\ UNCHANGED <<far, fsBuffer, asking, waiting, steps>>
    BY <1>13 DEF LateWrite
  <2>2. far /\ w.over \in heldTexts
    BY DEF KnownTexts
  <2>3. far' = far /\ visited' = visited /\ known' = known /\ sum' = sum /\ asking' = asking /\ waiting' = waiting
    BY <2>1 DEF fsBuffer
  <2>4. CASE Expected(w)
    <3>1. w.anyway \/ disk \in heldTexts \cup {w.data}
      BY <2>2, <2>4 DEF Expected
    <3>2. PICK made \in BOOLEAN : ScriptWrites(w, w.data, made, w.anyway)
      BY <2>1, <2>4
    <3>3. givenUp' \subseteq givenUp
      BY <2>1
    <3> QED
      BY <1>9, <2>2, <2>3, <3>1, <3>2, <3>3
  <2>5. CASE ~Expected(w)
    BY <2>1, <2>2, <2>3, <2>5 DEF fsFile, fsHistory, Versions, KnownTexts, BackedUpOnce, NothingMissed
  <2> QED
    BY <2>4, <2>5
<1> QED
  BY <1>1, <1>2, <1>3, <1>4, <1>7, <1>8, <1>11, <1>12, <1>13 DEF FsNext

LEMMA FsInductive == FsSpec => [](FsInv /\ FsTyped)
  BY FsInitInv, FsInvStep, FsTypedStep, PTL DEF FsSpec

(* A file on another machine is never saved over unless it holds what the   *)
(* buffer has held of it, or the user was asked (WRITE_SCRIPT compares the  *)
(* checksum), though writes fail or are carried out after they were given   *)
(* up.                                                                      *)
THEOREM FarFilesAreCompared == FsSpec => [](far => NoSilentLoss)
<1>1. FsInv => (far => NoSilentLoss)
  BY DEF FsInv, NoSilentLoss
<1> QED
  BY <1>1, FsInductive, PTL

(* FILE~ holds what was in the file when this buffer was first to save it,  *)
(* whatever others write and however often a save fails midway, unless the  *)
(* user was told, by a message that waits for a key, that the backup could  *)
(* not be made (backup_and_write).                                          *)
THEOREM BackupsAreOriginal == FsSpec => []BackupIsOriginal
<1>1. FsInv => BackupIsOriginal
  BY DEF FsInv, BackedUpOnce, BackupIsOriginal
<1> QED
  BY <1>1, FsInductive, PTL

(* Of files that are there when they are visited, here or far, and that     *)
(* nobody else writes while the message of a failed backup waits for a key, *)
(* nothing that others put there is lost unasked, and what was there first  *)
(* is in FILE~ or the user was told that it could not be put there          *)
(* (save_buffer, buffer_disk_changed, backup_and_write, remote_write).      *)
THEOREM SavesLoseNothing == ASSUME ~NEW_FILES, ~KEY_WAITS
                            PROVE  FsSpec => []SavesAreSafe
<1>1. FsInv => SavesAreSafe
  BY DEF FsInv, BackedUpOnce, BackupIsOriginal, NoSilentLoss, SavesAreSafe
<1> QED
  BY <1>1, FsInductive, PTL

-----------------------------------------------------------------------------
(* The text of cells, of lines and of lists of lines.                       *)

(* What a cell may hold, the characters that are printed, and the screens:  *)
(* the same number of cells on every line.                                  *)
Cells == {"blank", "tail", "a", "W", "V"}
Chars == {"a", "W"}
Row(cols) == {r \in Seq(Cells) : Len(r) = cols}
Screen(rows, cols) == {s \in Seq(Row(cols)) : Len(s) = rows}

(* What each cell of a line, and each line, is in the text.                 *)
CellTexts(row) == [x \in DOMAIN row |-> CharacterOf(row[x])]
RowTexts(rs) == [y \in DOMAIN rs |-> TextOf(rs[y])]

LEMMA OneCell == ASSUME NEW c \in Cells PROVE CharacterOf(c) \in Seq(Chars)
<1>1. \A d \in Chars : <<d>> \in Seq(Chars) OBVIOUS
<1>2. "a" \in Chars /\ "W" \in Chars /\ <<>> \in Seq(Chars) BY DEF Chars
<1>3. <<"a">> \in Seq(Chars) /\ <<"W">> \in Seq(Chars) BY <1>1, <1>2
<1> QED BY <1>2, <1>3 DEF CharacterOf, Cells

LEMMA CellTextsType ==
    ASSUME NEW row \in Seq(Cells)
    PROVE  /\ CellTexts(row) \in Seq(Seq(Chars)) /\ Len(CellTexts(row)) = Len(row)
           /\ \A x \in 1 .. Len(row) : CellTexts(row)[x] = CharacterOf(row[x])
<1>1. Len(row) \in Nat /\ DOMAIN row = 1 .. Len(row) /\ \A x \in 1 .. Len(row) : row[x] \in Cells OBVIOUS
<1>2. \A x \in 1 .. Len(row) : CharacterOf(row[x]) \in Seq(Chars) BY <1>1, OneCell
<1>3. CellTexts(row) \in [1 .. Len(row) -> Seq(Chars)] BY <1>1, <1>2 DEF CellTexts
<1>4. \A x \in 1 .. Len(row) : CellTexts(row)[x] = CharacterOf(row[x]) BY <1>1 DEF CellTexts
<1> HIDE DEF CellTexts
<1> QED BY <1>1, <1>3, <1>4

LEMMA TextType == ASSUME NEW row \in Seq(Cells) PROVE TextOf(row) \in Seq(Chars)
<1>1. TextOf(row) = Chained(CellTexts(row)) BY DEF TextOf, CellTexts
<1> QED BY <1>1, CellTextsType, ChainedType

LEMMA RowTextsType ==
    ASSUME NEW rs \in Seq(Seq(Cells))
    PROVE  /\ RowTexts(rs) \in Seq(Seq(Chars)) /\ Len(RowTexts(rs)) = Len(rs)
           /\ \A y \in 1 .. Len(rs) : RowTexts(rs)[y] = TextOf(rs[y])
<1>1. Len(rs) \in Nat /\ DOMAIN rs = 1 .. Len(rs) /\ \A y \in 1 .. Len(rs) : rs[y] \in Seq(Cells) OBVIOUS
<1>2. \A y \in 1 .. Len(rs) : TextOf(rs[y]) \in Seq(Chars) BY <1>1, TextType
<1>3. RowTexts(rs) \in [1 .. Len(rs) -> Seq(Chars)] BY <1>1, <1>2 DEF RowTexts
<1>4. \A y \in 1 .. Len(rs) : RowTexts(rs)[y] = TextOf(rs[y]) BY <1>1 DEF RowTexts
<1>5. PICK q, n : q = RowTexts(rs) /\ n = Len(rs) OBVIOUS
<1>6. q \in Seq(Seq(Chars)) /\ Len(q) = n
  <2>1. q \in [1 .. n -> Seq(Chars)] /\ n \in Nat BY <1>1, <1>3, <1>5
  <2> QED BY ONLY <2>1
<1> QED BY <1>4, <1>5, <1>6

LEMMA CharactersType == ASSUME NEW rs \in Seq(Seq(Cells)) PROVE Characters(rs) \in Seq(Chars)
<1>1. Characters(rs) = Chained(RowTexts(rs)) BY DEF Characters, RowTexts
<1> QED BY <1>1, RowTextsType, ChainedType

LEMMA CharactersBoth ==
    ASSUME NEW a \in Seq(Seq(Cells)), NEW b \in Seq(Seq(Cells))
    PROVE  a \o b \in Seq(Seq(Cells)) /\ Characters(a \o b) = Characters(a) \o Characters(b)
<1>1. PICK c : c = a \o b OBVIOUS
<1>2. c \in Seq(Seq(Cells)) BY <1>1, ConcatProperties
<1>3. /\ Len(a) \in Nat /\ Len(b) \in Nat /\ Len(c) = Len(a) + Len(b)
      /\ \A i \in 1 .. Len(a) : c[i] = a[i]
      /\ \A i \in 1 .. Len(b) : c[Len(a) + i] = b[i]
  BY <1>1
<1>4. PICK p, q, r : p = RowTexts(a) /\ q = RowTexts(b) /\ r = RowTexts(c) OBVIOUS
<1>5. /\ p \in Seq(Seq(Chars)) /\ Len(p) = Len(a) /\ \A y \in 1 .. Len(a) : p[y] = TextOf(a[y])
  BY <1>4, RowTextsType
<1>6. /\ q \in Seq(Seq(Chars)) /\ Len(q) = Len(b) /\ \A y \in 1 .. Len(b) : q[y] = TextOf(b[y])
  BY <1>4, RowTextsType
<1>7. /\ r \in Seq(Seq(Chars)) /\ Len(r) = Len(c) /\ \A y \in 1 .. Len(c) : r[y] = TextOf(c[y])
  BY <1>2, <1>4, RowTextsType
<1>8. r = p \o q
  <2>1. PICK s : s = p \o q OBVIOUS
  <2>2. s \in Seq(Seq(Chars)) /\ Len(s) = Len(a) + Len(b) BY <1>5, <1>6, <2>1
  <2>3. ASSUME NEW i \in 1 .. Len(a) + Len(b) PROVE r[i] = s[i]
    <3>1. CASE i <= Len(a)
      <4>1. i \in 1 .. Len(a) BY <1>3, <3>1
      <4>2. s[i] = p[i] BY <1>5, <1>6, <2>1, <4>1
      <4>3. i \in 1 .. Len(c) BY <1>3
      <4> QED BY <1>3, <1>5, <1>7, <4>1, <4>2, <4>3
    <3>2. CASE i > Len(a)
      <4>1. PICK k : k = i - Len(a) OBVIOUS
      <4>2. k \in 1 .. Len(b) /\ i = Len(a) + k /\ i \in 1 .. Len(c) BY <1>3, <3>2, <4>1
      <4>3. s[i] = q[k] BY <1>3, <1>5, <1>6, <2>1, <4>2, SMTT(30)
      <4> QED BY <1>3, <1>6, <1>7, <4>2, <4>3
    <3> QED BY <1>3, <3>1, <3>2
  <2>4. Len(r) = Len(s) BY <1>3, <1>7, <2>2
  <2>5. r = s BY <1>3, <1>7, <2>2, <2>3, <2>4, SeqEqual
  <2> QED BY <2>1, <2>5
<1>9. Chained(r) = Chained(p) \o Chained(q) BY <1>5, <1>6, <1>8, ChainedBoth
<1> QED BY <1>1, <1>2, <1>4, <1>9 DEF Characters, RowTexts

(* Lists of lines that begin with the same text, and are blank after it.    *)
Without(row) == \A x \in 1 .. Len(row) : row[x] = "blank"

LEMMA BlankText == ASSUME NEW row \in Seq(Cells), Without(row) PROVE TextOf(row) = <<>>
<1>1. PICK q : q = CellTexts(row) OBVIOUS
<1>2. q \in Seq(Seq(Chars)) /\ Len(q) = Len(row) BY <1>1, CellTextsType
<1>3. \A x \in 1 .. Len(row) : q[x] = CharacterOf(row[x]) BY <1>1, CellTextsType
<1>4. CharacterOf("blank") = <<>> BY DEF CharacterOf
<1>5. \A x \in 1 .. Len(q) : q[x] = <<>> BY <1>2, <1>3, <1>4 DEF Without
<1>6. Chained(q) = <<>> BY <1>2, <1>5, ChainedNothing
<1> QED BY <1>1, <1>6 DEF TextOf, CellTexts

LEMMA SameText ==
    ASSUME NEW row \in Seq(Cells), NEW new \in Seq(Cells), NEW k \in Nat, k <= Len(row), k <= Len(new),
           \A x \in 1 .. k : row[x] = new[x],
           \A x \in k + 1 .. Len(row) : row[x] = "blank",
           \A x \in k + 1 .. Len(new) : new[x] = "blank"
    PROVE  TextOf(row) = TextOf(new)
<1>1. PICK p, q : p = CellTexts(row) /\ q = CellTexts(new) OBVIOUS
<1>2. p \in Seq(Seq(Chars)) /\ Len(p) = Len(row) BY <1>1, CellTextsType
<1>3. \A x \in 1 .. Len(row) : p[x] = CharacterOf(row[x]) BY <1>1, CellTextsType
<1>4. q \in Seq(Seq(Chars)) /\ Len(q) = Len(new) BY <1>1, CellTextsType
<1>5. \A x \in 1 .. Len(new) : q[x] = CharacterOf(new[x]) BY <1>1, CellTextsType
<1>6. CharacterOf("blank") = <<>> BY DEF CharacterOf
<1>7. Len(row) \in Nat /\ Len(new) \in Nat OBVIOUS
<1>8. \A x \in 1 .. k : p[x] = q[x]
  <2> TAKE x \in 1 .. k
  <2>1. x \in 1 .. Len(row) /\ x \in 1 .. Len(new) BY <1>7
  <2>2. row[x] = new[x] OBVIOUS
  <2> QED BY <1>3, <1>5, <2>1, <2>2
<1>9. \A x \in k + 1 .. Len(p) : p[x] = <<>>
  <2> TAKE x \in k + 1 .. Len(p)
  <2>1. x \in 1 .. Len(row) /\ x \in k + 1 .. Len(row) BY <1>2, <1>7
  <2>2. row[x] = "blank" BY <2>1
  <2> QED BY <1>3, <1>6, <2>1, <2>2
<1>10. \A x \in k + 1 .. Len(q) : q[x] = <<>>
  <2> TAKE x \in k + 1 .. Len(q)
  <2>1. x \in 1 .. Len(new) /\ x \in k + 1 .. Len(new) BY <1>4, <1>7
  <2>2. new[x] = "blank" BY <2>1
  <2> QED BY <1>5, <1>6, <2>1, <2>2
<1>11. k <= Len(p) /\ k <= Len(q) BY <1>2, <1>4
<1>12. Chained(p) = Chained(q) BY <1>2, <1>4, <1>8, <1>9, <1>10, <1>11, ChainedSame
<1> QED BY <1>1, <1>12 DEF TextOf, CellTexts

LEMMA SameCharacters ==
    ASSUME NEW rs \in Seq(Seq(Cells)), NEW new \in Seq(Seq(Cells)), NEW k \in Nat, k <= Len(rs), k <= Len(new),
           \A y \in 1 .. k : TextOf(rs[y]) = TextOf(new[y]),
           \A y \in k + 1 .. Len(rs) : TextOf(rs[y]) = <<>>,
           \A y \in k + 1 .. Len(new) : TextOf(new[y]) = <<>>
    PROVE  Characters(rs) = Characters(new)
<1>1. PICK p, q : p = RowTexts(rs) /\ q = RowTexts(new) OBVIOUS
<1>2. p \in Seq(Seq(Chars)) /\ Len(p) = Len(rs) BY <1>1, RowTextsType
<1>3. \A y \in 1 .. Len(rs) : p[y] = TextOf(rs[y]) BY <1>1, RowTextsType
<1>4. q \in Seq(Seq(Chars)) /\ Len(q) = Len(new) BY <1>1, RowTextsType
<1>5. \A y \in 1 .. Len(new) : q[y] = TextOf(new[y]) BY <1>1, RowTextsType
<1>7. Len(rs) \in Nat /\ Len(new) \in Nat OBVIOUS
<1>8. \A y \in 1 .. k : p[y] = q[y]
  <2> TAKE y \in 1 .. k
  <2>1. y \in 1 .. Len(rs) /\ y \in 1 .. Len(new) BY <1>7
  <2> QED BY <1>3, <1>5, <2>1
<1>9. \A y \in k + 1 .. Len(p) : p[y] = <<>>
  <2> TAKE y \in k + 1 .. Len(p)
  <2>1. y \in 1 .. Len(rs) /\ y \in k + 1 .. Len(rs) BY <1>2, <1>7
  <2> QED BY <1>3, <2>1
<1>10. \A y \in k + 1 .. Len(q) : q[y] = <<>>
  <2> TAKE y \in k + 1 .. Len(q)
  <2>1. y \in 1 .. Len(new) /\ y \in k + 1 .. Len(new) BY <1>4, <1>7
  <2> QED BY <1>5, <2>1
<1>11. k <= Len(p) /\ k <= Len(q) BY <1>2, <1>4
<1>12. Chained(p) = Chained(q) BY <1>2, <1>4, <1>8, <1>9, <1>10, <1>11, ChainedSame
<1> QED BY <1>1, <1>12 DEF Characters, RowTexts

(* A character put after the text of a list of lines.                       *)
LEMMA TextGrows ==
    ASSUME NEW row \in Seq(Cells), NEW new \in Seq(Cells), Len(new) = Len(row), NEW k \in 1 .. Len(row),
           row[k] = "blank",
           \A x \in 1 .. k - 1 : row[x] = new[x],
           \A x \in k + 1 .. Len(row) : row[x] = "blank" /\ new[x] \in {"blank", "tail"}
    PROVE  TextOf(new) = TextOf(row) \o CharacterOf(new[k])
<1>1. PICK p, q : p = CellTexts(row) /\ q = CellTexts(new) OBVIOUS
<1>2. p \in Seq(Seq(Chars)) /\ Len(p) = Len(row) BY <1>1, CellTextsType
<1>3. \A x \in 1 .. Len(row) : p[x] = CharacterOf(row[x]) BY <1>1, CellTextsType
<1>4. q \in Seq(Seq(Chars)) /\ Len(q) = Len(row) BY <1>1, CellTextsType
<1>5. \A x \in 1 .. Len(row) : q[x] = CharacterOf(new[x]) BY <1>1, CellTextsType
<1>6. CharacterOf("blank") = <<>> /\ CharacterOf("tail") = <<>> BY DEF CharacterOf
<1>7. Len(row) \in Nat OBVIOUS
<1>8. \A x \in 1 .. k - 1 : p[x] = q[x]
  <2> TAKE x \in 1 .. k - 1
  <2>1. x \in 1 .. Len(row) BY <1>7
  <2>2. row[x] = new[x] OBVIOUS
  <2> QED BY <1>3, <1>5, <2>1, <2>2
<1>9. \A x \in k + 1 .. Len(p) : p[x] = <<>> /\ q[x] = <<>>
  <2> TAKE x \in k + 1 .. Len(p)
  <2>1. x \in 1 .. Len(row) /\ x \in k + 1 .. Len(row) BY <1>2, <1>7
  <2>2. row[x] = "blank" /\ new[x] \in {"blank", "tail"} BY <2>1
  <2> QED BY <1>3, <1>5, <1>6, <2>1, <2>2
<1>10. PICK e : e = CharacterOf(new[k]) OBVIOUS
<1>11. e \in Seq(Chars) /\ q[k] = e /\ p[k] = <<>>
  <2>1. new[k] \in Cells BY <1>7
  <2>2. e \in Seq(Chars) BY <1>10, <2>1, OneCell
  <2> QED BY <1>3, <1>5, <1>6, <1>10, <2>2
<1>12. q[k] = p[k] \o e
  <2>1. <<>> \o e = e BY <1>11, ConcatEmptySeq
  <2> QED BY <1>11, <2>1
<1>13. k \in 1 .. Len(p) /\ Len(p) = Len(q) BY <1>2, <1>4
<1>14. Chained(q) = Chained(p) \o e BY <1>2, <1>4, <1>8, <1>9, <1>11, <1>12, <1>13, ChainedGrows
<1> QED BY <1>1, <1>10, <1>14 DEF TextOf, CellTexts

LEMMA CharactersGrow ==
    ASSUME NEW rs \in Seq(Seq(Cells)), NEW new \in Seq(Seq(Cells)), Len(new) = Len(rs), NEW k \in 1 .. Len(rs),
           NEW e \in Seq(Chars), TextOf(new[k]) = TextOf(rs[k]) \o e,
           \A y \in 1 .. k - 1 : rs[y] = new[y],
           \A y \in k + 1 .. Len(rs) : TextOf(rs[y]) = <<>> /\ TextOf(new[y]) = <<>>
    PROVE  Characters(new) = Characters(rs) \o e
<1>1. PICK p, q : p = RowTexts(rs) /\ q = RowTexts(new) OBVIOUS
<1>2. p \in Seq(Seq(Chars)) /\ Len(p) = Len(rs) BY <1>1, RowTextsType
<1>3. \A y \in 1 .. Len(rs) : p[y] = TextOf(rs[y]) BY <1>1, RowTextsType
<1>4. q \in Seq(Seq(Chars)) /\ Len(q) = Len(rs) BY <1>1, RowTextsType
<1>5. \A y \in 1 .. Len(rs) : q[y] = TextOf(new[y]) BY <1>1, RowTextsType
<1>7. Len(rs) \in Nat OBVIOUS
<1>8. \A y \in 1 .. k - 1 : p[y] = q[y]
  <2> TAKE y \in 1 .. k - 1
  <2>1. y \in 1 .. Len(rs) BY <1>7
  <2> QED BY <1>3, <1>5, <2>1
<1>9. \A y \in k + 1 .. Len(p) : p[y] = <<>> /\ q[y] = <<>>
  <2> TAKE y \in k + 1 .. Len(p)
  <2>1. y \in 1 .. Len(rs) /\ y \in k + 1 .. Len(rs) BY <1>2, <1>7
  <2> QED BY <1>3, <1>5, <2>1
<1>10. q[k] = p[k] \o e BY <1>3, <1>5
<1>11. k \in 1 .. Len(p) /\ Len(p) = Len(q) BY <1>2, <1>4
<1>12. Chained(q) = Chained(p) \o e BY <1>2, <1>4, <1>8, <1>9, <1>10, <1>11, ChainedGrows
<1> QED BY <1>1, <1>12 DEF Characters, RowTexts

-----------------------------------------------------------------------------
(* What a sequence does to the emulator: its size and the kind of every field.*)

(* Everything the emulator of a screen of so many rows and columns may be.  *)
Place == [x : Nat, y : Nat, origin : BOOLEAN, pending : BOOLEAN]
Emulator(rows, cols) ==
    [rows : {rows}, cols : {cols}, main : Screen(rows, cols), alt : Screen(rows, cols), onAlt : BOOLEAN,
     cx : 0 .. cols - 1, cy : 0 .. rows - 1, pending : BOOLEAN, top : 0 .. rows - 1, bot : 0 .. rows - 1,
     origin : BOOLEAN, autowrap : BOOLEAN, insert : BOOLEAN, savedMain : Place, savedAlt : Place,
     last : Chars \cup {"none"}, sb : Seq(Seq(Cells))]

(* u is t after something that leaves the main screen's lines and place     *)
(* alone while the alternate screen is shown.                               *)
Same(u, t) == /\ u.onAlt = t.onAlt /\ u.autowrap = t.autowrap /\ u.insert = t.insert
              /\ u.top = t.top /\ u.bot = t.bot /\ u.savedMain = t.savedMain
              /\ t.onAlt => u.main = t.main /\ u.sb = t.sb
Steps(u, t, rows, cols) == u \in Emulator(rows, cols) /\ Same(u, t)

LEMMA StepsOn ==
    ASSUME NEW rows, NEW cols, NEW t, NEW u, NEW v, Steps(u, t, rows, cols), Steps(v, u, rows, cols)
    PROVE  Steps(v, t, rows, cols)
  BY DEF Steps, Same

LEMMA StepsNot ==
    ASSUME NEW rows, NEW cols, NEW t \in Emulator(rows, cols)
    PROVE  Steps(t, t, rows, cols)
  BY DEF Steps, Same

LEMMA RowsType ==
    ASSUME NEW rows, NEW cols, NEW t \in Emulator(rows, cols)
    PROVE  Rows(t) \in Screen(rows, cols)
  BY DEF Rows, Emulator

LEMMA SettledSteps ==
    ASSUME NEW rows, NEW cols, NEW t \in Emulator(rows, cols)
    PROVE  Steps(Settled(t), t, rows, cols)
  BY DEF Settled, Emulator, Steps, Same

LEMMA WithRowsSteps ==
    ASSUME NEW rows, NEW cols, NEW t \in Emulator(rows, cols), NEW rs \in Screen(rows, cols)
    PROVE  Steps(WithRows(t, rs), t, rows, cols)
  BY DEF WithRows, Emulator, Steps, Same

LEMMA ScreenParts ==
    ASSUME NEW rows \in Nat, NEW cols \in Nat, NEW s \in Screen(rows, cols)
    PROVE  /\ Len(s) = rows /\ DOMAIN s = 1 .. rows
           /\ \A y \in 1 .. rows : s[y] \in Row(cols)
  BY DEF Screen

LEMMA RowParts ==
    ASSUME NEW cols \in Nat, NEW r \in Row(cols)
    PROVE  /\ r \in Seq(Cells) /\ Len(r) = cols /\ DOMAIN r = 1 .. cols
           /\ \A x \in 1 .. cols : r[x] \in Cells
  BY DEF Row

LEMMA MadeRow ==
    ASSUME NEW cols \in Nat, NEW r, r \in [1 .. cols -> Cells]
    PROVE  r \in Row(cols)
  BY DEF Row

LEMMA MadeScreen ==
    ASSUME NEW rows \in Nat, NEW cols \in Nat, NEW s, s \in [1 .. rows -> Row(cols)]
    PROVE  s \in Screen(rows, cols)
  BY DEF Screen

LEMMA BlankIsRow == ASSUME NEW cols \in Nat PROVE BlankRow(cols) \in Row(cols)
<1>1. BlankRow(cols) \in [1 .. cols -> Cells] BY DEF BlankRow, Cells
<1> QED BY <1>1, MadeRow

LEMMA NewIsScreen == ASSUME NEW rows \in Nat, NEW cols \in Nat PROVE NewScreen(rows, cols) \in Screen(rows, cols)
<1>1. NewScreen(rows, cols) \in [1 .. rows -> Row(cols)] BY BlankIsRow DEF NewScreen
<1> QED BY <1>1, MadeScreen

LEMMA ScreenRowPut ==
    ASSUME NEW rows \in Nat, NEW cols \in Nat, NEW s \in Screen(rows, cols), NEW y \in 1 .. rows, NEW r \in Row(cols)
    PROVE  /\ [s EXCEPT ![y] = r] \in Screen(rows, cols)
           /\ \A j \in 1 .. rows : [s EXCEPT ![y] = r][j] = IF j = y THEN r ELSE s[j]
  BY DEF Screen

LEMMA WithRowSteps ==
    ASSUME NEW rows \in Nat, NEW cols \in Nat, NEW t \in Emulator(rows, cols), NEW y \in 0 .. rows - 1, NEW r \in Row(cols)
    PROVE  Steps(WithRow(t, y, r), t, rows, cols)
<1>1. y + 1 \in 1 .. rows OBVIOUS
<1>2. [Rows(t) EXCEPT ![y + 1] = r] \in Screen(rows, cols) BY <1>1, RowsType, ScreenRowPut
<1> QED BY <1>2, WithRowsSteps DEF WithRow

LEMMA CellHere ==
    ASSUME NEW rows \in Nat, NEW cols \in Nat, NEW t \in Emulator(rows, cols), NEW y \in 0 .. rows - 1
    PROVE  /\ Rows(t)[y + 1] \in Row(cols)
           /\ \A i \in 1 .. cols : CellAt(t, y, i - 1) = Rows(t)[y + 1][i] /\ CellAt(t, y, i - 1) \in Cells
<1>1. y + 1 \in 1 .. rows OBVIOUS
<1>2. Rows(t)[y + 1] \in Row(cols) BY <1>1, RowsType, ScreenParts
<1>3. ASSUME NEW i \in 1 .. cols PROVE CellAt(t, y, i - 1) = Rows(t)[y + 1][i]
  <2>1. (i - 1) + 1 = i OBVIOUS
  <2> QED BY <2>1 DEF CellAt
<1>4. ASSUME NEW i \in 1 .. cols PROVE Rows(t)[y + 1][i] \in Cells
  <2>1. PICK r : r = Rows(t)[y + 1] OBVIOUS
  <2>2. r \in Row(cols) BY <1>2, <2>1
  <2>3. r[i] \in Cells BY <2>2, RowParts
  <2> QED BY <2>1, <2>3
<1> QED BY <1>2, <1>3, <1>4

LEMMA WithCellSteps ==
    ASSUME NEW rows \in Nat, NEW cols \in Nat, NEW t \in Emulator(rows, cols), NEW y \in 0 .. rows - 1, NEW x \in 0 .. cols - 1,
           NEW c \in Cells
    PROVE  Steps(WithCell(t, y, x, c), t, rows, cols)
<1>1. PICK r : r = Rows(t)[y + 1] OBVIOUS
<1>2. r \in Row(cols) BY <1>1, CellHere
<1>3. r \in [1 .. cols -> Cells] BY <1>2 DEF Row
<1>4. [r EXCEPT ![x + 1] = c] \in [1 .. cols -> Cells] BY <1>3
<1>5. [r EXCEPT ![x + 1] = c] \in Row(cols) BY <1>4, MadeRow
<1> QED BY <1>1, <1>5, WithRowSteps DEF WithCell

LEMMA ErasedSteps ==
    ASSUME NEW rows \in Nat, NEW cols \in Nat, NEW t \in Emulator(rows, cols), NEW y \in 0 .. rows - 1, NEW x0, NEW x1
    PROVE  Steps(Erased(t, y, x0, x1), t, rows, cols)
<1>1. t.cols = cols BY DEF Emulator
<1>2. "blank" \in Cells BY DEF Cells
<1> DEFINE gone(x) == \/ x0 <= x /\ x < x1
                      \/ x = x0 - 1 /\ CellWidth(CellAt(t, y, x)) = 2
                      \/ x = x1 /\ CellWidth(CellAt(t, y, x)) = 0
           r == [i \in 1 .. t.cols |-> IF gone(i - 1) THEN "blank" ELSE CellAt(t, y, i - 1)]
<1>3. ASSUME NEW i \in 1 .. cols PROVE (IF gone(i - 1) THEN "blank" ELSE CellAt(t, y, i - 1)) \in Cells
  <2>1. CellAt(t, y, i - 1) \in Cells BY CellHere
  <2> QED BY <1>2, <2>1
<1>4. r \in [1 .. cols -> Cells]
  <2> HIDE DEF gone
  <2> QED BY <1>1, <1>3
<1>5. r \in Row(cols) BY <1>4, MadeRow
<1>6. Erased(t, y, x0, x1) = WithRow(t, y, r) BY DEF Erased
<1> HIDE DEF r
<1> QED BY <1>5, <1>6, WithRowSteps

LEMMA ErasedRowsSteps ==
    ASSUME NEW rows \in Nat, NEW cols \in Nat, NEW t \in Emulator(rows, cols), NEW from, NEW to
    PROVE  Steps(ErasedRows(t, from, to), t, rows, cols)
<1>1. t.cols = cols /\ t.rows = rows BY DEF Emulator
<1> DEFINE s == [y \in 1 .. t.rows |-> IF y - 1 \in from .. to THEN BlankRow(t.cols) ELSE Rows(t)[y]]
<1>2. ASSUME NEW y \in 1 .. rows PROVE BlankRow(cols) \in Row(cols) /\ Rows(t)[y] \in Row(cols)
  BY BlankIsRow, RowsType, ScreenParts
<1>3. s \in [1 .. rows -> Row(cols)] BY <1>1, <1>2
<1>4. s \in Screen(rows, cols) BY <1>3, MadeScreen
<1>5. ErasedRows(t, from, to) = WithRows(t, s) BY DEF ErasedRows
<1> HIDE DEF s
<1> QED BY <1>4, <1>5, WithRowsSteps

-----------------------------------------------------------------------------

Depth(count, top, bot) == Smaller(count, bot - top + 1)
UpScrolled(rs, top, bot, n, rows, cols) ==
    SubSeq(rs, 1, top) \o SubSeq(rs, top + n + 1, bot + 1) \o NewScreen(n, cols) \o SubSeq(rs, bot + 2, rows)
DownScrolled(rs, top, bot, n, rows, cols) ==
    SubSeq(rs, 1, top) \o NewScreen(n, cols) \o SubSeq(rs, top + 1, bot + 1 - n) \o SubSeq(rs, bot + 2, rows)

LEMMA PartOfScreen ==
    ASSUME NEW rows \in Nat, NEW cols \in Nat, NEW s \in Screen(rows, cols), NEW m \in Nat \ {0}, NEW n \in 0 .. rows
    PROVE  /\ SubSeq(s, m, n) \in Seq(Row(cols)) /\ Len(SubSeq(s, m, n)) = IF m <= n THEN n - m + 1 ELSE 0
           /\ \A i \in 1 .. n - m + 1 : SubSeq(s, m, n)[i] = s[m + i - 1]
<1>1. \A i \in m .. n : s[i] \in Row(cols) BY ScreenParts
<1>2. m \in Int /\ n \in Int OBVIOUS
<1> QED BY <1>1, <1>2, SubSeqProperties

LEMMA PartLength ==
    ASSUME NEW rows \in Nat, NEW cols \in Nat, NEW s \in Screen(rows, cols), NEW m \in Nat \ {0}, NEW n \in 0 .. rows,
           NEW k \in Nat, k = n - m + 1, NEW p, p = SubSeq(s, m, n)
    PROVE  p \in Seq(Row(cols)) /\ Len(p) = k
<1>1. (IF m <= n THEN n - m + 1 ELSE 0) = k OBVIOUS
<1> QED BY <1>1, PartOfScreen

LEMMA OneAfter ==
    ASSUME NEW T, NEW a \in Seq(T), NEW b \in Seq(T), NEW s, s = a \o b
    PROVE  s \in Seq(T) /\ Len(s) = Len(a) + Len(b)
  BY ConcatProperties

LEMMA UpIsScreen ==
    ASSUME NEW rows \in Nat, NEW cols \in Nat, NEW rs \in Screen(rows, cols), NEW top \in Nat, NEW bot \in Nat,
           top <= bot, bot < rows, NEW n \in Nat, n <= bot - top + 1
    PROVE  UpScrolled(rs, top, bot, n, rows, cols) \in Screen(rows, cols)
<1>1. PICK p : p = SubSeq(rs, 1, top) OBVIOUS
<1>2. PICK q : q = SubSeq(rs, top + n + 1, bot + 1) OBVIOUS
<1>3. PICK z : z = NewScreen(n, cols) OBVIOUS
<1>4. PICK r : r = SubSeq(rs, bot + 2, rows) OBVIOUS
<1>5. p \in Seq(Row(cols)) /\ Len(p) = top
  <2>1. PICK u : u = 1 OBVIOUS
  <2>2. u \in Nat \ {0} /\ top \in 0 .. rows /\ top = top - u + 1 /\ p = SubSeq(rs, u, top) BY <1>1, <2>1
  <2>3. p \in Seq(Row(cols)) BY <2>2, PartLength
  <2>4. Len(p) = top BY <2>2, PartLength
  <2> QED BY <2>3, <2>4
<1>6. q \in Seq(Row(cols)) /\ Len(q) = bot - top + 1 - n
  <2>1. PICK u, v, w : u = top + n + 1 /\ v = bot + 1 /\ w = bot - top + 1 - n OBVIOUS
  <2>2. u \in Nat \ {0} /\ v \in 0 .. rows /\ w \in Nat /\ w = v - u + 1 BY <2>1
  <2>3. q = SubSeq(rs, u, v) BY <1>2, <2>1
  <2>4. q \in Seq(Row(cols)) BY <2>2, <2>3, PartLength
  <2>5. Len(q) = w BY <2>2, <2>3, PartLength
  <2> QED BY <2>1, <2>4, <2>5
<1>7. z \in Seq(Row(cols)) /\ Len(z) = n BY <1>3, NewIsScreen DEF Screen
<1>8. r \in Seq(Row(cols)) /\ Len(r) = rows - bot - 1
  <2>1. PICK u, w : u = bot + 2 /\ w = rows - bot - 1 OBVIOUS
  <2>2. u \in Nat \ {0} /\ rows \in 0 .. rows /\ w \in Nat /\ w = rows - u + 1 BY <2>1
  <2>3. r = SubSeq(rs, u, rows) BY <1>4, <2>1
  <2>4. r \in Seq(Row(cols)) BY <2>2, <2>3, PartLength
  <2>5. Len(r) = w BY <2>2, <2>3, PartLength
  <2> QED BY <2>1, <2>4, <2>5
<1>9. PICK s, x, y : x = p \o q /\ y = x \o z /\ s = y \o r OBVIOUS
<1>10. x \in Seq(Row(cols)) /\ Len(x) = Len(p) + Len(q) BY ONLY <1>5, <1>6, <1>9, OneAfter
<1>11. y \in Seq(Row(cols)) /\ Len(y) = Len(x) + Len(z)
  <2>1. x \in Seq(Row(cols)) /\ z \in Seq(Row(cols)) /\ y = x \o z BY <1>7, <1>9, <1>10
  <2> QED BY ONLY <2>1, OneAfter
<1>12. s \in Seq(Row(cols)) /\ Len(s) = Len(y) + Len(r) BY ONLY <1>8, <1>9, <1>11, OneAfter
<1>13. s \in Screen(rows, cols)
  <2>1. Len(s) = rows BY <1>5, <1>6, <1>7, <1>8, <1>10, <1>11, <1>12
  <2> QED BY <1>12, <2>1 DEF Screen
<1>14. s = UpScrolled(rs, top, bot, n, rows, cols) BY <1>1, <1>2, <1>3, <1>4, <1>9 DEF UpScrolled
<1> QED BY <1>13, <1>14

LEMMA DownIsScreen ==
    ASSUME NEW rows \in Nat, NEW cols \in Nat, NEW rs \in Screen(rows, cols), NEW top \in Nat, NEW bot \in Nat,
           top <= bot, bot < rows, NEW n \in Nat, n <= bot - top + 1
    PROVE  DownScrolled(rs, top, bot, n, rows, cols) \in Screen(rows, cols)
<1>1. PICK p : p = SubSeq(rs, 1, top) OBVIOUS
<1>2. PICK q : q = SubSeq(rs, top + 1, bot + 1 - n) OBVIOUS
<1>3. PICK z : z = NewScreen(n, cols) OBVIOUS
<1>4. PICK r : r = SubSeq(rs, bot + 2, rows) OBVIOUS
<1>5. p \in Seq(Row(cols)) /\ Len(p) = top
  <2>1. PICK u : u = 1 OBVIOUS
  <2>2. u \in Nat \ {0} /\ top \in 0 .. rows /\ top = top - u + 1 /\ p = SubSeq(rs, u, top) BY <1>1, <2>1
  <2>3. p \in Seq(Row(cols)) BY <2>2, PartLength
  <2>4. Len(p) = top BY <2>2, PartLength
  <2> QED BY <2>3, <2>4
<1>6. q \in Seq(Row(cols)) /\ Len(q) = bot - top + 1 - n
  <2>1. PICK u, v, w : u = top + 1 /\ v = bot + 1 - n /\ w = bot - top + 1 - n OBVIOUS
  <2>2. u \in Nat \ {0} /\ v \in 0 .. rows /\ w \in Nat /\ w = v - u + 1 BY <2>1
  <2>3. q = SubSeq(rs, u, v) BY <1>2, <2>1
  <2>4. q \in Seq(Row(cols)) BY <2>2, <2>3, PartLength
  <2>5. Len(q) = w BY <2>2, <2>3, PartLength
  <2> QED BY <2>1, <2>4, <2>5
<1>7. z \in Seq(Row(cols)) /\ Len(z) = n BY <1>3, NewIsScreen DEF Screen
<1>8. r \in Seq(Row(cols)) /\ Len(r) = rows - bot - 1
  <2>1. PICK u, w : u = bot + 2 /\ w = rows - bot - 1 OBVIOUS
  <2>2. u \in Nat \ {0} /\ rows \in 0 .. rows /\ w \in Nat /\ w = rows - u + 1 BY <2>1
  <2>3. r = SubSeq(rs, u, rows) BY <1>4, <2>1
  <2>4. r \in Seq(Row(cols)) BY <2>2, <2>3, PartLength
  <2>5. Len(r) = w BY <2>2, <2>3, PartLength
  <2> QED BY <2>1, <2>4, <2>5
<1>9. PICK s, x, y : x = p \o z /\ y = x \o q /\ s = y \o r OBVIOUS
<1>10. x \in Seq(Row(cols)) /\ Len(x) = Len(p) + Len(z)
  <2>1. p \in Seq(Row(cols)) /\ z \in Seq(Row(cols)) /\ x = p \o z BY <1>5, <1>7, <1>9
  <2> QED BY ONLY <2>1, OneAfter
<1>11. y \in Seq(Row(cols)) /\ Len(y) = Len(x) + Len(q) BY ONLY <1>6, <1>9, <1>10, OneAfter, ZenonT(40)
<1>12. s \in Seq(Row(cols)) /\ Len(s) = Len(y) + Len(r) BY ONLY <1>8, <1>9, <1>11, OneAfter
<1>13. s \in Screen(rows, cols)
  <2>1. Len(s) = rows BY <1>5, <1>6, <1>7, <1>8, <1>10, <1>11, <1>12
  <2> QED BY <1>12, <2>1 DEF Screen
<1>14. s = DownScrolled(rs, top, bot, n, rows, cols) BY <1>1, <1>2, <1>3, <1>4, <1>9 DEF DownScrolled
<1> QED BY <1>13, <1>14

LEMMA DepthSmall ==
    ASSUME NEW count \in Nat, NEW top \in Nat, NEW bot \in Nat, top <= bot
    PROVE  Depth(count, top, bot) \in Nat /\ Depth(count, top, bot) <= bot - top + 1
  BY DEF Depth, Smaller

LEMMA RowsAreCells ==
    ASSUME NEW cols \in Nat, NEW q \in Seq(Row(cols))
    PROVE  q \in Seq(Seq(Cells))
<1>1. Row(cols) \subseteq Seq(Cells) BY DEF Row
<1> QED BY <1>1, SeqMonotonic

LEMMA ScrollUpSteps ==
    ASSUME NEW rows \in Nat, NEW cols \in Nat, NEW t \in Emulator(rows, cols), NEW top \in Nat, NEW bot \in Nat,
           top <= bot, bot < rows, NEW count \in Nat, NEW deleted \in BOOLEAN
    PROVE  Steps(ScrollUp(t, top, bot, count, deleted), t, rows, cols)
<1>1. t.cols = cols /\ t.rows = rows /\ t.sb \in Seq(Seq(Cells)) BY DEF Emulator
<1>2. PICK n : n = Depth(count, top, bot) OBVIOUS
<1>3. n \in Nat /\ n <= bot - top + 1 BY <1>2, DepthSmall
<1>4. PICK kept : kept = IF top = 0 /\ ~t.onAlt /\ ~deleted THEN SubSeq(Rows(t), 1, n) ELSE <<>> OBVIOUS
<1>5. kept \in Seq(Seq(Cells))
  <2>1. n \in 0 .. rows BY <1>3
  <2>2. SubSeq(Rows(t), 1, n) \in Seq(Row(cols))
    <3>1. Rows(t) \in Screen(rows, cols) BY RowsType
    <3>2. 1 \in Nat \ {0} /\ n = n - 1 + 1 BY <1>3
    <3>3. PICK p, u, rs : u = 1 /\ rs = Rows(t) /\ p = SubSeq(rs, u, n) OBVIOUS
    <3>a. u \in Nat \ {0} /\ n = n - u + 1 /\ rs \in Screen(rows, cols) BY <3>1, <3>2, <3>3
    <3>4. p \in Seq(Row(cols)) BY <1>3, <2>1, <3>3, <3>a, PartLength
    <3> QED BY <3>3, <3>4
  <2>3. SubSeq(Rows(t), 1, n) \in Seq(Seq(Cells)) BY <2>2, RowsAreCells
  <2>4. <<>> \in Seq(Seq(Cells)) OBVIOUS
  <2> QED BY <1>4, <2>3, <2>4
<1>6. PICK sb : sb = t.sb \o kept OBVIOUS
<1>7. sb \in Seq(Seq(Cells))
  <2>1. PICK old : old = t.sb OBVIOUS
  <2>2. old \in Seq(Seq(Cells)) BY <1>1, <2>1
  <2>3. old \o kept \in Seq(Seq(Cells)) BY ONLY <1>5, <2>2, ConcatProperties
  <2> QED BY <1>6, <2>1, <2>3
<1>8. t.onAlt => sb = t.sb BY <1>1, <1>4, <1>6, ConcatEmptySeq
<1>9. PICK u : u = [t EXCEPT !.sb = sb] OBVIOUS
<1>10. Steps(u, t, rows, cols) BY <1>7, <1>8, <1>9 DEF Steps, Same, Emulator
<1>11. PICK s : s = UpScrolled(Rows(t), top, bot, n, rows, cols) OBVIOUS
<1>12. s \in Screen(rows, cols) BY <1>3, <1>11, RowsType, UpIsScreen
<1>13. ScrollUp(t, top, bot, count, deleted) = WithRows(u, s)
  BY <1>1, <1>2, <1>4, <1>6, <1>9, <1>11 DEF ScrollUp, UpScrolled, Depth
<1>14. Steps(WithRows(u, s), u, rows, cols) BY <1>10, <1>12, WithRowsSteps DEF Steps
<1> QED BY <1>10, <1>13, <1>14, StepsOn

LEMMA ScrollDownSteps ==
    ASSUME NEW rows \in Nat, NEW cols \in Nat, NEW t \in Emulator(rows, cols), NEW top \in Nat, NEW bot \in Nat,
           top <= bot, bot < rows, NEW count \in Nat
    PROVE  Steps(ScrollDown(t, top, bot, count), t, rows, cols)
<1>1. t.cols = cols /\ t.rows = rows BY DEF Emulator
<1>2. PICK n : n = Depth(count, top, bot) OBVIOUS
<1>3. n \in Nat /\ n <= bot - top + 1 BY <1>2, DepthSmall
<1>4. PICK s : s = DownScrolled(Rows(t), top, bot, n, rows, cols) OBVIOUS
<1>5. s \in Screen(rows, cols) BY <1>3, <1>4, RowsType, DownIsScreen
<1>6. ScrollDown(t, top, bot, count) = WithRows(t, s)
  BY <1>1, <1>2, <1>4 DEF ScrollDown, DownScrolled, Depth
<1> QED BY <1>5, <1>6, WithRowsSteps

-----------------------------------------------------------------------------
(* The cursor, the lines and a character put on the screen.                 *)

(* ... and the scrolling region is not empty: what every sequence keeps.    *)
Region(rows, cols, t) == /\ rows \in Nat \ {0} /\ cols \in Nat \ {0}
                         /\ t \in Emulator(rows, cols) /\ t.top <= t.bot

LEMMA RegionKept ==
    ASSUME NEW rows, NEW cols, NEW t, NEW u, Region(rows, cols, t), Steps(u, t, rows, cols)
    PROVE  Region(rows, cols, u)
  BY DEF Region, Steps, Same

LEMMA RegionFacts ==
    ASSUME NEW rows, NEW cols, NEW t, Region(rows, cols, t)
    PROVE  /\ rows \in Nat /\ rows > 0 /\ cols \in Nat /\ cols > 0 /\ t \in Emulator(rows, cols)
           /\ t.rows = rows /\ t.cols = cols /\ t.cx \in 0 .. cols - 1 /\ t.cy \in 0 .. rows - 1
           /\ t.top \in Nat /\ t.bot \in Nat /\ t.top <= t.bot /\ t.bot < rows
           /\ {t.pending, t.onAlt, t.origin, t.autowrap, t.insert} \subseteq BOOLEAN
<1>1. rows \in Nat /\ rows > 0 /\ cols \in Nat /\ cols > 0 /\ t \in Emulator(rows, cols) BY DEF Region
<1>2. t.rows = rows /\ t.cols = cols /\ t.cx \in 0 .. cols - 1 /\ t.cy \in 0 .. rows - 1 BY <1>1 DEF Emulator
<1>3. t.top \in 0 .. rows - 1 /\ t.bot \in 0 .. rows - 1 /\ t.top <= t.bot BY <1>1 DEF Emulator, Region
<1>4. {t.pending, t.onAlt, t.origin, t.autowrap, t.insert} \subseteq BOOLEAN BY <1>1 DEF Emulator
<1> QED BY <1>1, <1>2, <1>3, <1>4

(* Where the cursor goes, with everything else as it was.                   *)
LEMMA CursorSteps ==
    ASSUME NEW rows, NEW cols, NEW t, Region(rows, cols, t), NEW a \in 0 .. cols - 1, NEW b \in 0 .. rows - 1, NEW p \in BOOLEAN
    PROVE  /\ Steps([t EXCEPT !.cx = a], t, rows, cols) /\ Steps([t EXCEPT !.cy = b], t, rows, cols)
           /\ Steps([t EXCEPT !.cx = a, !.pending = p], t, rows, cols)
           /\ Steps([t EXCEPT !.cy = b, !.cx = a], t, rows, cols)
           /\ Steps([t EXCEPT !.cy = b, !.cx = a, !.pending = p], t, rows, cols)
<1>1. t \in Emulator(rows, cols) BY DEF Region
<1>2. Steps([t EXCEPT !.cx = a], t, rows, cols) BY <1>1 DEF Steps, Same, Emulator
<1>3. Steps([t EXCEPT !.cy = b], t, rows, cols) BY <1>1 DEF Steps, Same, Emulator
<1>4. Steps([t EXCEPT !.cx = a, !.pending = p], t, rows, cols) BY <1>1 DEF Steps, Same, Emulator
<1>5. Steps([t EXCEPT !.cy = b, !.cx = a], t, rows, cols) BY <1>1 DEF Steps, Same, Emulator
<1>6. Steps([t EXCEPT !.cy = b, !.cx = a, !.pending = p], t, rows, cols) BY <1>1 DEF Steps, Same, Emulator
<1> QED BY <1>2, <1>3, <1>4, <1>5, <1>6

LEMMA IndexLineSteps ==
    ASSUME NEW rows, NEW cols, NEW t, Region(rows, cols, t)
    PROVE  Steps(IndexLine(t), t, rows, cols)
<1>1. CASE t.cy = t.bot
  <2>1. PICK top, bot : top = t.top /\ bot = t.bot OBVIOUS
  <2>2. Steps(ScrollUp(t, top, bot, 1, FALSE), t, rows, cols)
    <3>1. /\ rows \in Nat /\ cols \in Nat /\ t \in Emulator(rows, cols) /\ top \in Nat /\ bot \in Nat
          /\ top <= bot /\ bot < rows
      BY <2>1, RegionFacts
    <3> QED BY <3>1, ScrollUpSteps
  <2> QED BY <1>1, <2>1, <2>2 DEF IndexLine
<1>2. CASE t.cy # t.bot
  <2>1. PICK b : b = IF t.cy < t.rows - 1 THEN t.cy + 1 ELSE t.cy OBVIOUS
  <2>2. b \in 0 .. rows - 1 BY <2>1, RegionFacts
  <2>3. Steps([t EXCEPT !.cy = b], t, rows, cols)
    <3>1. t \in Emulator(rows, cols) BY RegionFacts
    <3> QED BY <2>2, <3>1 DEF Steps, Same, Emulator
  <2>4. IndexLine(t) = [t EXCEPT !.cy = b] BY <1>2, <2>1 DEF IndexLine
  <2> QED BY <2>3, <2>4
<1> QED BY <1>1, <1>2

LEMMA ReverseIndexSteps ==
    ASSUME NEW rows, NEW cols, NEW t, Region(rows, cols, t)
    PROVE  Steps(ReverseIndex(t), t, rows, cols)
<1>1. CASE t.cy = t.top
  <2>1. PICK top, bot : top = t.top /\ bot = t.bot OBVIOUS
  <2>2. Steps(ScrollDown(t, top, bot, 1), t, rows, cols)
    <3>1. /\ rows \in Nat /\ cols \in Nat /\ t \in Emulator(rows, cols) /\ top \in Nat /\ bot \in Nat
          /\ top <= bot /\ bot < rows
      BY <2>1, RegionFacts
    <3> QED BY <3>1, ScrollDownSteps
  <2> QED BY <1>1, <2>1, <2>2 DEF ReverseIndex
<1>2. CASE t.cy # t.top
  <2>1. PICK b : b = IF t.cy > 0 THEN t.cy - 1 ELSE t.cy OBVIOUS
  <2>2. b \in 0 .. rows - 1 BY <2>1, RegionFacts
  <2>3. Steps([t EXCEPT !.cy = b], t, rows, cols)
    <3>1. t \in Emulator(rows, cols) BY RegionFacts
    <3> QED BY <2>2, <3>1 DEF Steps, Same, Emulator
  <2>4. ReverseIndex(t) = [t EXCEPT !.cy = b] BY <1>2, <2>1 DEF ReverseIndex
  <2> QED BY <2>3, <2>4
<1> QED BY <1>1, <1>2

LEMMA ToMargin ==
    ASSUME NEW rows, NEW cols, NEW t, Region(rows, cols, t)
    PROVE  Steps(IndexLine([t EXCEPT !.cx = 0]), t, rows, cols)
<1>1. PICK u : u = [t EXCEPT !.cx = 0] OBVIOUS
<1>2. Steps(u, t, rows, cols)
  <2>1. 0 \in 0 .. cols - 1 /\ t \in Emulator(rows, cols) BY RegionFacts
  <2> QED BY <1>1, <2>1 DEF Steps, Same, Emulator
<1>3. Region(rows, cols, u) BY <1>2, RegionKept
<1>4. Steps(IndexLine(u), u, rows, cols) BY <1>3, IndexLineSteps
<1> QED BY <1>1, <1>2, <1>4, StepsOn

LEMMA WrappedSteps ==
    ASSUME NEW rows, NEW cols, NEW t, Region(rows, cols, t)
    PROVE  Steps(Wrapped(t), t, rows, cols)
<1>1. t \in Emulator(rows, cols) BY RegionFacts
<1>2. Steps(t, t, rows, cols) BY <1>1, StepsNot
<1> QED BY <1>2, ToMargin DEF Wrapped

LEMMA RoomMadeSteps ==
    ASSUME NEW rows, NEW cols, NEW t, Region(rows, cols, t), NEW c
    PROVE  Steps(RoomMade(t, c), t, rows, cols)
<1>1. t \in Emulator(rows, cols) /\ rows \in Nat /\ cols \in Nat BY RegionFacts
<1>2. Steps(t, t, rows, cols) BY <1>1, StepsNot
<1>3. PICK u : u = WithCell(t, t.cy, t.cx, "blank") OBVIOUS
<1>4. Steps(u, t, rows, cols)
  <2>1. PICK a, b : a = t.cx /\ b = t.cy OBVIOUS
  <2>2. a \in 0 .. cols - 1 /\ b \in 0 .. rows - 1 /\ "blank" \in Cells BY <2>1, RegionFacts DEF Cells
  <2>3. u = WithCell(t, b, a, "blank") BY <1>3, <2>1
  <2> QED BY <1>1, <2>2, <2>3, WithCellSteps
<1>5. Region(rows, cols, u) BY <1>4, RegionKept
<1>6. Steps(IndexLine([u EXCEPT !.cx = 0]), u, rows, cols) BY <1>5, ToMargin
<1>7. Steps(IndexLine([u EXCEPT !.cx = 0]), t, rows, cols) BY <1>4, <1>6, StepsOn
<1> QED BY <1>2, <1>3, <1>7 DEF RoomMade

(* The cursor stays when a line is changed.                                 *)
Placed(u, t) == u.cx = t.cx /\ u.cy = t.cy /\ u.pending = t.pending /\ u.cols = t.cols /\ u.rows = t.rows

LEMMA WithRowPlaced ==
    ASSUME NEW rows, NEW cols, NEW t \in Emulator(rows, cols), NEW y, NEW r
    PROVE  Placed(WithRow(t, y, r), t)
  BY DEF WithRow, WithRows, Placed, Emulator

(* Cell i of the line of the cursor, after a character of w columns, and    *)
(* the line it is printed over: shifted to the right in insert mode.        *)
Printed(u, w, row, c, i) ==
    LET x == i - 1
    IN  CASE x = u.cx -> c
          [] x = u.cx + 1 /\ w = 2 -> "tail"
          [] x = u.cx - 1 /\ CellWidth(row[u.cx + 1]) = 0 -> "blank"
          [] x = u.cx + w /\ CellWidth(row[u.cx + w]) = 2 -> "blank"
          [] OTHER -> row[i]
PrintedOver(u, w, c) ==
    IF ~u.insert \/ u.cols - u.cx - w <= 0 THEN Rows(u)[u.cy + 1]
    ELSE SubSeq(Rows(u)[u.cy + 1], 1, u.cx + w) \o SubSeq(Rows(u)[u.cy + 1], u.cx + 1, u.cols - w)

LEMMA OverwrittenIs ==
    ASSUME NEW t, NEW c
    PROVE  Overwritten(t, c) = WithRow(t, t.cy, [i \in 1 .. t.cols |->
                Printed(t, CellWidth(c), PrintedOver(t, CellWidth(c), c), c, i)])
  BY Zenon DEF Overwritten, Printed, PrintedOver

LEMMA PieceOfRow ==
    ASSUME NEW cols \in Nat, NEW r \in Row(cols), NEW m \in Nat \ {0}, NEW n \in 0 .. cols, NEW k \in Nat, k = n - m + 1,
           NEW p, p = SubSeq(r, m, n)
    PROVE  p \in Seq(Cells) /\ Len(p) = k
<1>1. \A i \in m .. n : r[i] \in Cells BY RowParts
<1>2. m \in Int /\ n \in Int OBVIOUS
<1>3. (IF m <= n THEN n - m + 1 ELSE 0) = k OBVIOUS
<1> QED BY <1>1, <1>2, <1>3, SubSeqProperties

LEMMA PrintedOverRow ==
    ASSUME NEW rows, NEW cols, NEW t, Region(rows, cols, t), NEW w \in 1 .. 2, NEW c
    PROVE  PrintedOver(t, w, c) \in Row(cols)
<1>1. PICK r, a, b, n : r = Rows(t)[t.cy + 1] /\ a = t.cx /\ b = t.cy /\ n = t.cols OBVIOUS
<1>2. rows \in Nat /\ cols \in Nat /\ n = cols /\ t \in Emulator(rows, cols) /\ a \in 0 .. cols - 1 /\ b \in 0 .. rows - 1
  BY <1>1, RegionFacts
<1>3. r \in Row(cols)
  <2>1. r = Rows(t)[b + 1] BY <1>1
  <2> QED BY <1>2, <2>1, CellHere
<1>4. CASE ~t.insert \/ n - a - w <= 0
  BY <1>1, <1>3, <1>4 DEF PrintedOver
<1>5. CASE ~ (~t.insert \/ n - a - w <= 0)
  <2>1. n - a - w > 0 BY <1>2, <1>5
  <2>2. PICK p, q, u, x, v, y, z, s : /\ p = SubSeq(r, u, x) /\ u = 1 /\ x = a + w
                             /\ q = SubSeq(r, v, y) /\ v = a + 1 /\ y = cols - w /\ z = y - v + 1 /\ s = p \o q
    OBVIOUS
  <2>3. /\ u \in Nat \ {0} /\ x \in 0 .. cols /\ x \in Nat /\ x = x - u + 1
        /\ v \in Nat \ {0} /\ y \in 0 .. cols /\ z \in Nat /\ x + z = cols
    BY <1>2, <2>1, <2>2
  <2>4. p \in Seq(Cells) BY <1>2, <1>3, <2>2, <2>3, PieceOfRow
  <2>5. Len(p) = x BY <1>2, <1>3, <2>2, <2>3, PieceOfRow
  <2>6. q \in Seq(Cells) BY <1>2, <1>3, <2>2, <2>3, PieceOfRow
  <2>7. Len(q) = z BY <1>2, <1>3, <2>2, <2>3, PieceOfRow
  <2>8. s \in Seq(Cells) /\ Len(s) = Len(p) + Len(q)
    <3>1. p \in Seq(Cells) /\ q \in Seq(Cells) /\ s = p \o q BY <2>2, <2>4, <2>6
    <3> QED BY ONLY <3>1, OneAfter
  <2>9. Len(s) = cols BY <2>3, <2>5, <2>7, <2>8
  <2>10. s \in Row(cols) BY <2>8, <2>9 DEF Row
  <2>11. s = PrintedOver(t, w, c) BY <1>1, <1>2, <1>5, <2>2 DEF PrintedOver
  <2> QED BY <2>10, <2>11
<1> QED BY <1>4, <1>5

LEMMA OverwrittenSteps ==
    ASSUME NEW rows, NEW cols, NEW t, Region(rows, cols, t), NEW c \in Cells \ {"tail"}
    PROVE  /\ Steps(Overwritten(t, c), t, rows, cols) /\ Placed(Overwritten(t, c), t)
<1>1. CellWidth(c) \in 1 .. 2 BY DEF CellWidth, Cells
<1>2. PICK w, row : w = CellWidth(c) /\ row = PrintedOver(t, w, c) OBVIOUS
<1>3. row \in Row(cols) BY <1>1, <1>2, PrintedOverRow
<1>4. rows \in Nat /\ cols \in Nat /\ t \in Emulator(rows, cols) /\ t.cols = cols BY RegionFacts
<1>5. ASSUME NEW i \in 1 .. cols PROVE Printed(t, w, row, c, i) \in Cells
  <2>3. row[i] \in Cells BY <1>3, <1>4, RowParts
  <2>4. c \in Cells /\ "blank" \in Cells /\ "tail" \in Cells BY DEF Cells
  <2> HIDE DEF Cells
  <2> QED BY <2>3, <2>4 DEF Printed
<1>6. PICK r : r = [i \in 1 .. cols |-> Printed(t, w, row, c, i)] OBVIOUS
<1>7. r \in [1 .. cols -> Cells] BY <1>5, <1>6
<1>8. r \in Row(cols) BY <1>4, <1>7, MadeRow
<1>9. Overwritten(t, c) = WithRow(t, t.cy, r) BY <1>2, <1>4, <1>6, OverwrittenIs
<1>10. PICK y : y = t.cy OBVIOUS
<1>11. y \in 0 .. rows - 1 BY <1>10, RegionFacts
<1>12. Steps(WithRow(t, y, r), t, rows, cols) BY <1>4, <1>8, <1>11, WithRowSteps
<1>13. Placed(WithRow(t, y, r), t) BY <1>4, WithRowPlaced
<1> QED BY <1>9, <1>10, <1>12, <1>13

-----------------------------------------------------------------------------
(* The text that the lines scrolled off and the main screen hold.           *)

(* The lines sb and those of a screen hold the text p, which ends on line y *)
(* after x columns; there is no half of a character at the margin.          *)
BlankAfter(main, rows, cols, y, x) ==
    \A j \in 1 .. rows, i \in 1 .. cols : j > y + 1 \/ (j = y + 1 /\ i > x) => main[j][i] = "blank"
NothingCut(main, rows, cols) == \A j \in 1 .. rows : main[j][cols] # "W"
Held(sb, main, rows, cols, y, x, p) ==
    /\ y \in 0 .. rows - 1 /\ x \in 0 .. cols
    /\ Characters(sb \o main) = p
    /\ BlankAfter(main, rows, cols, y, x)
    /\ NothingCut(main, rows, cols)

LEMMA BlankLine ==
    ASSUME NEW rows \in Nat, NEW cols \in Nat, NEW main \in Screen(rows, cols), NEW y, NEW x, BlankAfter(main, rows, cols, y, x),
           NEW j \in 1 .. rows, j > y + 1
    PROVE  TextOf(main[j]) = <<>>
<1>1. PICK r : r = main[j] OBVIOUS
<1>2. r \in Row(cols) BY <1>1, ScreenParts
<1>3. r \in Seq(Cells) /\ Len(r) = cols BY <1>2, RowParts
<1>4. Without(r) BY <1>1, <1>3 DEF Without, BlankAfter
<1>5. TextOf(r) = <<>> BY <1>3, <1>4, BlankText
<1> QED BY <1>1, <1>5

LEMMA ScreenIsLines ==
    ASSUME NEW rows \in Nat, NEW cols \in Nat, NEW s \in Screen(rows, cols)
    PROVE  s \in Seq(Row(cols)) /\ s \in Seq(Seq(Cells))
<1>1. s \in Seq(Row(cols)) BY DEF Screen
<1> QED BY <1>1, RowsAreCells

LEMMA HeldDown ==
    ASSUME NEW rows \in Nat, NEW cols \in Nat, NEW sb, NEW main, NEW y, NEW x, NEW p, Held(sb, main, rows, cols, y, x, p),
           y < rows - 1, NEW new \in 0 .. cols
    PROVE  Held(sb, main, rows, cols, y + 1, new, p)
<1>1. y \in 0 .. rows - 1 /\ BlankAfter(main, rows, cols, y, x) BY DEF Held
<1>2. BlankAfter(main, rows, cols, y + 1, new) BY <1>1 DEF BlankAfter
<1>3. y + 1 \in 0 .. rows - 1 BY <1>1
<1> QED BY <1>2, <1>3 DEF Held

BothOf(s, a, b) == s = a \o b

LEMMA SplitText ==
    ASSUME NEW sb \in Seq(Seq(Cells)), NEW a \in Seq(Seq(Cells)), NEW b \in Seq(Seq(Cells)), NEW c \in Seq(Seq(Cells)),
           Characters(c) = Characters(b), NEW main, BothOf(main, a, b), NEW d, BothOf(d, sb, a),
           NEW f, BothOf(f, d, c), NEW g, BothOf(g, sb, main)
    PROVE  Characters(f) = Characters(g)
<1> USE DEF BothOf
<1>1. PICK w, x, y, z : w = Characters(sb) /\ x = Characters(a) /\ y = Characters(b) /\ z = Characters(c) OBVIOUS
<1>2. w \in Seq(Chars) /\ x \in Seq(Chars) /\ y \in Seq(Chars) /\ z = y BY <1>1, CharactersType
<1>3. main \in Seq(Seq(Cells)) /\ Characters(main) = x \o y BY <1>1, CharactersBoth
<1>4. Characters(sb \o main) = w \o (x \o y)
  <2>1. Characters(sb \o main) = Characters(sb) \o Characters(main)
    BY ONLY sb \in Seq(Seq(Cells)), <1>3, CharactersBoth
  <2> QED BY <1>1, <1>3, <2>1
<1>6. d \in Seq(Seq(Cells)) /\ Characters(d) = w \o x BY <1>1, CharactersBoth
<1>7. Characters(d \o c) = (w \o x) \o y BY <1>1, <1>2, <1>6, CharactersBoth, ZenonT(40)
<1>8. (w \o x) \o y = w \o (x \o y) BY ONLY <1>2, ConcatAssociative, SMTT(30)
<1> QED BY <1>4, <1>7, <1>8

IsCut(a, b, main, rows, cols, k) ==
    /\ a = SubSeq(main, 1, k) /\ b = SubSeq(main, k + 1, rows) /\ main = a \o b
    /\ a \in Seq(Row(cols)) /\ b \in Seq(Row(cols)) /\ Len(a) = k /\ Len(b) = rows - k
    /\ \A i \in 1 .. rows - k : b[i] = main[k + i]

LEMMA ScreenCut ==
    ASSUME NEW rows \in Nat \ {0}, NEW cols \in Nat, NEW main \in Screen(rows, cols), NEW k \in 0 .. rows
    PROVE  \E a, b : IsCut(a, b, main, rows, cols, k)
<1>1. PICK a, b, u, v : a = SubSeq(main, u, k) /\ u = 1 /\ b = SubSeq(main, v, rows) /\ v = k + 1 OBVIOUS
<1>2. main \in Seq(Row(cols)) /\ Len(main) = rows BY DEF Screen
<1>3. u \in Nat \ {0} /\ v \in Nat \ {0} /\ k \in Nat /\ rows \in 0 .. rows /\ k = k - u + 1 BY <1>1
<1>4. PICK m : m = rows - k OBVIOUS
<1>5. m \in Nat /\ m = rows - v + 1 BY <1>1, <1>4
<1>6. a \in Seq(Row(cols)) BY <1>1, <1>3, PartLength
<1>7. Len(a) = k BY <1>1, <1>3, PartLength
<1>8. b \in Seq(Row(cols)) BY <1>1, <1>3, <1>5, PartLength
<1>9. Len(b) = m BY <1>1, <1>3, <1>5, PartLength
<1>10. \A i \in 1 .. rows - k : b[i] = main[k + i]
  <2> TAKE i \in 1 .. rows - k
  <2>1. i \in 1 .. rows - v + 1 BY <1>1
  <2>2. b[i] = main[v + i - 1] BY <1>1, <1>3, <2>1, PartOfScreen
  <2>3. v + i - 1 = k + i BY <1>1
  <2> QED BY <2>2, <2>3
<1>11. main = a \o b
  <2>1. PICK s : s = a \o b OBVIOUS
  <2>2. s \in Seq(Row(cols)) /\ Len(s) = Len(a) + Len(b) BY ONLY <1>6, <1>8, <2>1, OneAfter
  <2>3. Len(s) = Len(main) BY <1>2, <1>4, <1>7, <1>9, <2>2
  <2>4. ASSUME NEW i \in 1 .. rows PROVE main[i] = s[i]
    <3>1. CASE i <= k
      <4>1. i \in 1 .. k - u + 1 /\ i \in 1 .. k BY <1>1, <3>1
      <4>2. a[i] = main[u + i - 1]
        <5>1. k \in 0 .. rows OBVIOUS
        <5> QED BY <1>1, <1>3, <4>1, <5>1, PartOfScreen
      <4>3. u + i - 1 = i BY <1>1
      <4>4. s[i] = a[i] BY <1>6, <1>7, <1>8, <2>1, <4>1
      <4> QED BY <4>2, <4>3, <4>4
    <3>2. CASE i > k
      <4>1. PICK l : l = i - k OBVIOUS
      <4>2. l \in 1 .. rows - k /\ i = k + l /\ l \in 1 .. Len(b) BY <1>4, <1>9, <3>2, <4>1
      <4>3. b[l] = main[i] BY <1>10, <4>2
      <4>4. s[i] = b[l] BY <1>6, <1>7, <1>8, <2>1, <4>2
      <4> QED BY <4>3, <4>4
    <3> QED BY <3>1, <3>2
  <2>5. main = s BY <1>2, <2>2, <2>3, <2>4, SeqEqual
  <2> QED BY <2>1, <2>5
<1>12. IsCut(a, b, main, rows, cols, k) BY <1>1, <1>4, <1>6, <1>7, <1>8, <1>9, <1>10, <1>11 DEF IsCut
<1> QED BY <1>12

(* The lines that went off the top are after those that went before them.   *)
LEMMA HeldScrolled ==
    ASSUME NEW rows \in Nat \ {0}, NEW cols \in Nat \ {0}, NEW sb \in Seq(Seq(Cells)), NEW main \in Screen(rows, cols),
           NEW x, NEW p, Held(sb, main, rows, cols, rows - 1, x, p), NEW new \in 0 .. cols
    PROVE  Held(sb \o SubSeq(main, 1, 1), UpScrolled(main, 0, rows - 1, 1, rows, cols), rows, cols, rows - 1, new, p)
<1>0. PICK k, a, b : k = 1 /\ IsCut(a, b, main, rows, cols, k)
  <2>1. PICK k : k = 1 OBVIOUS
  <2>2. k \in 0 .. rows BY <2>1
  <2>3. \E a, b : IsCut(a, b, main, rows, cols, k) BY <2>2, ScreenCut
  <2> QED BY <2>1, <2>3
<1>1. /\ a = SubSeq(main, 1, 1) /\ b = SubSeq(main, 2, rows) /\ main = a \o b
      /\ a \in Seq(Row(cols)) /\ b \in Seq(Row(cols)) /\ Len(b) = rows - 1
      /\ \A i \in 1 .. rows - 1 : b[i] = main[1 + i]
  <2>1. k + 1 = 2 BY <1>0
  <2> QED BY <1>0, <2>1 DEF IsCut
<1>2. PICK z : z = NewScreen(1, cols) OBVIOUS
<1>3. z \in Seq(Row(cols)) /\ Len(z) = 1 /\ z[1] = BlankRow(cols)
  <2>1. z \in Screen(1, cols) BY <1>2, NewIsScreen
  <2>2. z[1] = BlankRow(cols) BY <1>2 DEF NewScreen
  <2> QED BY <2>1, <2>2 DEF Screen
<1>4. PICK s : s = b \o z OBVIOUS
<1>5. s \in Seq(Row(cols)) /\ Len(s) = rows
  <2>1. s \in Seq(Row(cols)) /\ Len(s) = Len(b) + Len(z)
    <3>1. b \in Seq(Row(cols)) /\ z \in Seq(Row(cols)) /\ s = b \o z BY <1>1, <1>3, <1>4
    <3> QED BY ONLY <3>1, OneAfter
  <2> QED BY <1>1, <1>3, <2>1
<1>6. s = UpScrolled(main, 0, rows - 1, 1, rows, cols)
  <2>1. SubSeq(main, 1, 0) = <<>> /\ SubSeq(main, (rows - 1) + 2, rows) = <<>>
    <3>1. 1 \in Int /\ 0 \in Int /\ 0 < 1 /\ (rows - 1) + 2 \in Int /\ rows \in Int /\ rows < (rows - 1) + 2 OBVIOUS
    <3>2. SubSeq(main, 1, 0) = <<>> BY ONLY <3>1, SubSeqEmpty, Zenon
    <3>3. SubSeq(main, (rows - 1) + 2, rows) = <<>> BY ONLY <3>1, SubSeqEmpty, Zenon
    <3> QED BY <3>2, <3>3
  <2>2. (rows - 1) + 1 = rows /\ 0 + 1 + 1 = 2 OBVIOUS
  <2>3. UpScrolled(main, 0, rows - 1, 1, rows, cols) = <<>> \o b \o z \o <<>>
    BY <1>1, <1>2, <2>1, <2>2, Zenon DEF UpScrolled
  <2>4. <<>> \o b = b BY <1>1, ConcatEmptySeq
  <2>5. s \o <<>> = s BY <1>5, ConcatEmptySeq
  <2> QED BY <1>4, <2>3, <2>4, <2>5
<1>7. \A j \in 1 .. rows - 1 : s[j] = main[1 + j]
  <2> TAKE j \in 1 .. rows - 1
  <2>1. j \in 1 .. Len(b) BY <1>1
  <2>2. s[j] = b[j] BY <1>1, <1>3, <1>4, <2>1
  <2> QED BY <1>1, <2>2
<1>8. s[rows] = BlankRow(cols)
  <2>1. s[Len(b) + 1] = z[1]
    <3>1. PICK n : n = Len(b) + 1 OBVIOUS
    <3>2. n \in 1 .. Len(b) + Len(z) /\ ~ (n <= Len(b)) /\ n - Len(b) = 1 BY <1>1, <1>3, <3>1
    <3>3. b \in Seq(Row(cols)) /\ z \in Seq(Row(cols)) /\ s = b \o z BY <1>1, <1>3, <1>4
    <3>4. s[n] = z[n - Len(b)] BY ONLY <3>2, <3>3, ConcatProperties
    <3> QED BY <3>1, <3>2, <3>4
  <2>2. Len(b) + 1 = rows BY <1>1
  <2> QED BY <1>3, <2>1, <2>2
<1>9. Characters((sb \o a) \o s) = p
  <2>1. a \in Seq(Seq(Cells)) /\ b \in Seq(Seq(Cells)) /\ s \in Seq(Seq(Cells)) BY <1>1, <1>5, RowsAreCells
  <2>2. Characters(s) = Characters(b)
    <3>1. PICK m : m = rows - 1 OBVIOUS
    <3>2. m \in Nat /\ m <= Len(b) /\ m <= Len(s) BY <1>1, <1>5, <3>1
    <3>3. \A j \in 1 .. m : TextOf(s[j]) = TextOf(b[j]) BY <1>1, <1>7, <3>1
    <3>4. \A j \in m + 1 .. Len(b) : TextOf(b[j]) = <<>> BY <1>1, <3>1
    <3>5. \A j \in m + 1 .. Len(s) : TextOf(s[j]) = <<>>
      <4>1. TextOf(BlankRow(cols)) = <<>>
        <5>1. PICK r : r = BlankRow(cols) OBVIOUS
        <5>2. r \in Row(cols) BY <5>1, BlankIsRow
        <5>3. r \in Seq(Cells) /\ Len(r) = cols BY <5>2, RowParts
        <5>4. Without(r) BY <5>1, <5>3 DEF Without, BlankRow
        <5> QED BY <5>1, <5>3, <5>4, BlankText
      <4>2. TAKE j \in m + 1 .. Len(s)
      <4>3. j = rows BY <1>5, <3>1, <4>2
      <4> QED BY <1>8, <4>1, <4>3
    <3> QED BY <2>1, <3>2, <3>3, <3>4, <3>5, SameCharacters
  <2>3. Characters(sb \o main) = p BY DEF Held
  <2>4. Characters((sb \o a) \o s) = Characters(sb \o main)
    <3>1. main = a \o b BY <1>1
    <3>2. PICK d, f, g : d = sb \o a /\ f = d \o s /\ g = sb \o main OBVIOUS
    <3>4. BothOf(main, a, b) /\ BothOf(d, sb, a) /\ BothOf(f, d, s) /\ BothOf(g, sb, main)
      BY <3>1, <3>2 DEF BothOf
    <3>3. Characters(f) = Characters(g) BY ONLY sb \in Seq(Seq(Cells)), <2>1, <2>2, <3>4, SplitText
    <3> QED BY <3>2, <3>3
  <2> QED BY <2>3, <2>4
<1>10. BlankAfter(s, rows, cols, rows - 1, new)
  <2> SUFFICES ASSUME NEW j \in 1 .. rows, NEW i \in 1 .. cols, j > (rows - 1) + 1 \/ (j = (rows - 1) + 1 /\ i > new)
              PROVE  s[j][i] = "blank"
    BY DEF BlankAfter
  <2>1. j = rows OBVIOUS
  <2> QED BY <1>8, <2>1 DEF BlankRow
<1>11. NothingCut(s, rows, cols)
  <2> SUFFICES ASSUME NEW j \in 1 .. rows PROVE s[j][cols] # "W"
    BY DEF NothingCut
  <2>1. CASE j = rows
    <3>1. cols \in 1 .. cols OBVIOUS
    <3> QED BY <1>8, <2>1, <3>1 DEF BlankRow
  <2>2. CASE j # rows
    <3>1. j \in 1 .. rows - 1 /\ 1 + j \in 1 .. rows BY <2>2
    <3>2. NothingCut(main, rows, cols) BY DEF Held
    <3> QED BY <1>7, <3>1, <3>2 DEF NothingCut
  <2> QED BY <2>1, <2>2
<1>12. rows - 1 \in 0 .. rows - 1 OBVIOUS
<1> QED BY <1>1, <1>6, <1>9, <1>10, <1>11, <1>12 DEF Held

LEMMA HeldPut ==
    ASSUME NEW rows \in Nat \ {0}, NEW cols \in Nat \ {0}, NEW sb \in Seq(Seq(Cells)), NEW main \in Screen(rows, cols),
           NEW y, NEW x, NEW p, Held(sb, main, rows, cols, y, x, p), x < cols, NEW new \in x + 1 .. cols, NEW r \in Row(cols),
           \A i \in 1 .. x : r[i] = main[y + 1][i],
           \A i \in x + 2 .. cols : r[i] \in {"blank", "tail"} /\ (i > new => r[i] = "blank"),
           r[cols] # "W"
    PROVE  Held(sb, [main EXCEPT ![y + 1] = r], rows, cols, y, new, p \o CharacterOf(r[x + 1]))
<1>1. PICK k, m : k = y + 1 /\ m = x + 1 OBVIOUS
<1>2. /\ y \in 0 .. rows - 1 /\ x \in 0 .. cols /\ k \in 1 .. rows /\ m \in 1 .. cols
      /\ BlankAfter(main, rows, cols, y, x) /\ NothingCut(main, rows, cols)
  BY <1>1 DEF Held
<1>3. PICK old : old = main[k] OBVIOUS
<1>4. old \in Row(cols) BY <1>2, <1>3, ScreenParts
<1>5. old \in Seq(Cells) /\ r \in Seq(Cells) /\ Len(old) = cols /\ Len(r) = cols BY <1>4, RowParts
<1>6. \A i \in m .. cols : old[i] = "blank"
  <2> TAKE i \in m .. cols
  <2>1. i \in 1 .. cols /\ i > x BY <1>1, <1>2
  <2> QED BY <1>1, <1>2, <1>3, <2>1 DEF BlankAfter
<1>7. PICK e : e = CharacterOf(r[m]) OBVIOUS
<1>8. TextOf(r) = TextOf(old) \o e
  <2>1. m \in 1 .. Len(old) /\ Len(r) = Len(old) BY <1>2, <1>5
  <2>2. old[m] = "blank" BY <1>2, <1>6
  <2>3. \A i \in 1 .. m - 1 : old[i] = r[i] BY <1>1, <1>2, <1>3
  <2>4. \A i \in m + 1 .. Len(old) : old[i] = "blank" /\ r[i] \in {"blank", "tail"} BY <1>1, <1>2, <1>5, <1>6
  <2> QED BY <1>5, <1>7, <2>1, <2>2, <2>3, <2>4, TextGrows
<1>9. e \in Seq(Chars)
  <2>1. r[m] \in Cells BY <1>2, RowParts
  <2> QED BY <1>7, <2>1, OneCell
<1>10. PICK s : s = [main EXCEPT ![k] = r] OBVIOUS
<1>11. s \in Screen(rows, cols) BY <1>2, <1>10, ScreenRowPut
<1>12. \A j \in 1 .. rows : s[j] = IF j = k THEN r ELSE main[j] BY <1>2, <1>10, ScreenRowPut
<1>13. BlankAfter(s, rows, cols, y, new)
  <2> SUFFICES ASSUME NEW j \in 1 .. rows, NEW i \in 1 .. cols, j > y + 1 \/ (j = y + 1 /\ i > new)
              PROVE  s[j][i] = "blank"
    BY DEF BlankAfter
  <2>1. CASE j = k
    <3>1. i > new BY <1>1, <1>2, <2>1
    <3>2. i \in x + 2 .. cols BY <1>2, <3>1
    <3> QED BY <1>12, <2>1, <3>1, <3>2
  <2>2. CASE j # k
    <3>1. j > y + 1 BY <1>1, <2>2
    <3>2. s[j] = main[j] BY <1>12, <2>2
    <3> QED BY <1>2, <3>1, <3>2 DEF BlankAfter
  <2> QED BY <2>1, <2>2
<1>14. NothingCut(s, rows, cols) BY <1>2, <1>12 DEF NothingCut
<1>15. Characters(s) = Characters(main) \o e
  <2>1. main \in Seq(Seq(Cells)) /\ s \in Seq(Seq(Cells)) /\ Len(main) = rows /\ Len(s) = rows
    BY <1>11, ScreenIsLines, ScreenParts
  <2>2. k \in 1 .. Len(main) /\ TextOf(s[k]) = TextOf(main[k]) \o e BY <1>2, <1>3, <1>8, <1>12, <2>1
  <2>3. \A j \in 1 .. k - 1 : main[j] = s[j]
    <3> TAKE j \in 1 .. k - 1
    <3>1. j \in 1 .. rows /\ j # k BY <1>2
    <3> QED BY <1>12, <3>1
  <2>4. \A j \in k + 1 .. Len(main) : TextOf(main[j]) = <<>> /\ TextOf(s[j]) = <<>>
    <3> TAKE j \in k + 1 .. Len(main)
    <3>1. j \in 1 .. rows /\ j > y + 1 /\ j # k BY <1>1, <1>2, <2>1
    <3>2. TextOf(main[j]) = <<>> BY <1>2, <3>1, BlankLine
    <3> QED BY <1>12, <3>1, <3>2
  <2> QED BY <1>9, <2>1, <2>2, <2>3, <2>4, CharactersGrow
<1>16. Characters(sb \o s) = p \o e
  <2>1. PICK u, v : u = Characters(sb) /\ v = Characters(main) OBVIOUS
  <2>2. main \in Seq(Seq(Cells)) /\ s \in Seq(Seq(Cells)) BY <1>11, ScreenIsLines
  <2>3. u \in Seq(Chars) /\ v \in Seq(Chars) BY <2>1, <2>2, CharactersType
  <2>4. Characters(sb \o main) = Characters(sb) \o Characters(main)
    BY ONLY sb \in Seq(Seq(Cells)), <2>2, CharactersBoth
  <2>5. Characters(sb \o s) = Characters(sb) \o Characters(s)
    BY ONLY sb \in Seq(Seq(Cells)), <2>2, CharactersBoth
  <2>6. (u \o v) \o e = u \o (v \o e) BY ONLY <1>9, <2>3, ConcatAssociative, SMTT(30)
  <2>7. Characters(sb \o main) = p BY DEF Held
  <2> QED BY <1>15, <2>1, <2>4, <2>5, <2>6, <2>7
<1>17. new \in 0 .. cols BY <1>2
<1> QED BY <1>1, <1>2, <1>7, <1>10, <1>13, <1>14, <1>16, <1>17 DEF Held

-----------------------------------------------------------------------------
(* The lines in another size.                                               *)

(* The cell of a copy with new sizes, of which the first lines are left out. *)
CopiedCell(old, rows, cols, skip, y, x) ==
    IF y + skip <= rows /\ x <= cols THEN old[y + skip][x] ELSE "blank"
CopiedRow(old, rows, cols, new, skip, y) ==
    [x \in 1 .. new |-> IF x = new /\ CellWidth(CopiedCell(old, rows, cols, skip, y, x)) = 2 THEN "blank"
                        ELSE CopiedCell(old, rows, cols, skip, y, x)]

LEMMA CopyIs ==
    ASSUME NEW rows \in Nat \ {0}, NEW cols \in Nat, NEW old \in Screen(rows, cols), NEW high, NEW wide, NEW skip
    PROVE  ResizedCopy(old, high, wide, skip) = [y \in 1 .. high |-> CopiedRow(old, rows, cols, wide, skip, y)]
<1>1. Len(old) = rows /\ Len(old[1]) = cols
  <2>1. 1 \in 1 .. rows OBVIOUS
  <2>2. old[1] \in Row(cols) BY <2>1, ScreenParts
  <2> QED BY <2>2, ScreenParts DEF Row
<1> QED BY <1>1, Zenon DEF ResizedCopy, CopiedRow, CopiedCell

LEMMA CopiedCellType ==
    ASSUME NEW rows \in Nat \ {0}, NEW cols \in Nat, NEW old \in Screen(rows, cols), NEW skip \in Nat,
           NEW y \in Nat \ {0}, NEW x \in Nat \ {0}
    PROVE  CopiedCell(old, rows, cols, skip, y, x) \in Cells
<1>1. CASE y + skip <= rows /\ x <= cols
  <2>1. PICK k, r : k = y + skip /\ r = old[k] OBVIOUS
  <2>2. k \in 1 .. rows /\ x \in 1 .. cols BY <1>1, <2>1
  <2>3. r \in Row(cols) BY <2>1, <2>2, ScreenParts
  <2>4. r[x] \in Cells BY <2>2, <2>3, RowParts
  <2> QED BY <1>1, <2>1, <2>4 DEF CopiedCell
<1>2. CASE ~ (y + skip <= rows /\ x <= cols)
  BY <1>2 DEF CopiedCell, Cells
<1> QED BY <1>1, <1>2

LEMMA CopyIsScreen ==
    ASSUME NEW rows \in Nat \ {0}, NEW cols \in Nat, NEW old \in Screen(rows, cols), NEW skip \in Nat,
           NEW high \in Nat, NEW wide \in Nat
    PROVE  ResizedCopy(old, high, wide, skip) \in Screen(high, wide)
<1>1. ASSUME NEW y \in 1 .. high PROVE CopiedRow(old, rows, cols, wide, skip, y) \in Row(wide)
  <2>1. y \in Nat \ {0} /\ "blank" \in Cells BY DEF Cells
  <2>2. ASSUME NEW x \in 1 .. wide
        PROVE  (IF x = wide /\ CellWidth(CopiedCell(old, rows, cols, skip, y, x)) = 2 THEN "blank"
                ELSE CopiedCell(old, rows, cols, skip, y, x)) \in Cells
    <3>1. x \in Nat \ {0} OBVIOUS
    <3>2. CopiedCell(old, rows, cols, skip, y, x) \in Cells BY <2>1, <3>1, CopiedCellType
    <3> QED BY <2>1, <3>2
  <2>3. PICK r : r = CopiedRow(old, rows, cols, wide, skip, y) OBVIOUS
  <2>4. r \in [1 .. wide -> Cells] BY <2>2, <2>3 DEF CopiedRow
  <2> QED BY <2>3, <2>4, MadeRow
<1>2. PICK s : s = [y \in 1 .. high |-> CopiedRow(old, rows, cols, wide, skip, y)] OBVIOUS
<1>3. s \in [1 .. high -> Row(wide)] BY <1>1, <1>2
<1>4. s \in Screen(high, wide) BY <1>3, MadeScreen
<1> QED BY <1>2, <1>4, CopyIs

(* A copy as wide, or wider, that leaves out no line from the cursor's up.  *)
LEMMA HeldResized ==
    ASSUME NEW rows \in Nat \ {0}, NEW cols \in Nat \ {0}, NEW sb \in Seq(Seq(Cells)), NEW main \in Screen(rows, cols),
           NEW y, NEW x, NEW p, Held(sb, main, rows, cols, y, x, p),
           NEW high \in Nat \ {0}, NEW wide \in Nat \ {0}, cols <= wide,
           NEW skip, skip = Larger2(0, y - high + 1)
    PROVE  /\ skip \in 0 .. rows /\ y - skip \in 0 .. high - 1
           /\ Held(sb \o SubSeq(main, 1, skip), ResizedCopy(main, high, wide, skip), high, wide, y - skip, x, p)
<1>1. /\ y \in 0 .. rows - 1 /\ x \in 0 .. cols /\ Characters(sb \o main) = p
      /\ BlankAfter(main, rows, cols, y, x) /\ NothingCut(main, rows, cols)
  BY DEF Held
<1>2. skip \in 0 .. rows /\ skip <= y /\ y - skip \in 0 .. high - 1 /\ skip + high >= y + 1
  BY <1>1 DEF Larger2
<1>3. PICK s : s = ResizedCopy(main, high, wide, skip) OBVIOUS
<1>4. s \in Screen(high, wide)
  <2>1. skip \in Nat BY <1>2
  <2> QED BY <1>3, <2>1, CopyIsScreen
<1>5. ASSUME NEW j \in 1 .. high, NEW i \in 1 .. wide PROVE s[j][i] = CopiedCell(main, rows, cols, skip, j, i)
  <2>1. s = [k \in 1 .. high |-> CopiedRow(main, rows, cols, wide, skip, k)] BY <1>3, CopyIs
  <2>2. s[j] = CopiedRow(main, rows, cols, wide, skip, j) BY <2>1
  <2>3. CASE i = wide /\ CellWidth(CopiedCell(main, rows, cols, skip, j, i)) = 2
    <3>1. CopiedCell(main, rows, cols, skip, j, i) = "W" BY <2>3 DEF CellWidth
    <3>2. j + skip <= rows /\ i <= cols /\ main[j + skip][i] = "W" BY <3>1 DEF CopiedCell
    <3>3. i = cols BY <2>3, <3>2
    <3>4. PICK k : k = j + skip OBVIOUS
    <3>5. k \in 1 .. rows /\ main[k][cols] = "W" BY <1>2, <3>2, <3>3, <3>4
    <3> QED BY <1>1, <3>5 DEF NothingCut
  <2>4. CASE ~ (i = wide /\ CellWidth(CopiedCell(main, rows, cols, skip, j, i)) = 2)
    BY <2>2, <2>4 DEF CopiedRow
  <2> QED BY <2>3, <2>4
<1>6. PICK a, b : IsCut(a, b, main, rows, cols, skip) BY <1>2, ScreenCut
<1>7. /\ a = SubSeq(main, 1, skip) /\ main = a \o b /\ a \in Seq(Row(cols)) /\ b \in Seq(Row(cols))
      /\ Len(b) = rows - skip /\ \A i \in 1 .. rows - skip : b[i] = main[skip + i]
  BY <1>6 DEF IsCut
<1>8. a \in Seq(Seq(Cells)) /\ b \in Seq(Seq(Cells)) /\ s \in Seq(Seq(Cells)) /\ Len(s) = high
  BY <1>4, <1>7, RowsAreCells, ScreenIsLines, ScreenParts
<1>9. Characters(s) = Characters(b)
  <2>1. PICK k : k = Smaller(high, rows - skip) OBVIOUS
  <2>2. k \in Nat /\ k <= Len(b) /\ k <= Len(s) BY <1>2, <1>7, <1>8, <2>1 DEF Smaller
  <2>a. /\ k <= rows - skip /\ k <= high /\ (k = high \/ k = rows - skip) /\ Len(b) = rows - skip /\ Len(s) = high
        /\ skip \in Nat /\ skip <= rows /\ y \in Nat /\ skip + high >= y + 1 /\ rows \in Nat /\ high \in Nat /\ k \in Nat
    <3>1. k <= rows - skip /\ k <= high /\ (k = high \/ k = rows - skip) BY <1>2, <2>1 DEF Smaller
    <3>2. skip \in Nat /\ skip <= rows /\ y \in Nat /\ skip + high >= y + 1 BY <1>1, <1>2
    <3> QED BY <1>7, <1>8, <2>2, <3>1, <3>2
  <2>3. ASSUME NEW j \in 1 .. k PROVE TextOf(s[j]) = TextOf(b[j])
    <3>1. PICK l, u, v : l = skip + j /\ u = s[j] /\ v = main[l] OBVIOUS
    <3>2. j \in 1 .. high /\ l \in 1 .. rows /\ j + skip = l /\ l <= rows /\ j \in 1 .. rows - skip
      BY ONLY <2>a, <3>1, j \in 1 .. k
    <3>3. u \in Row(wide) BY <1>4, <3>1, <3>2, ScreenParts
    <3>4. v \in Row(cols) BY <3>1, <3>2, ScreenParts
    <3>5. u \in Seq(Cells) /\ Len(u) = wide /\ v \in Seq(Cells) /\ Len(v) = cols BY <3>3, <3>4, RowParts
    <3>6. \A i \in 1 .. wide : u[i] = IF i <= cols THEN v[i] ELSE "blank"
      <4> TAKE i \in 1 .. wide
      <4>1. u[i] = CopiedCell(main, rows, cols, skip, j, i) BY <1>5, <3>1, <3>2
      <4> QED BY <3>1, <3>2, <4>1 DEF CopiedCell
    <3>7. \A i \in 1 .. cols : v[i] = u[i] BY <3>6
    <3>8. \A i \in cols + 1 .. Len(v) : v[i] = "blank" BY <3>5
    <3>9. \A i \in cols + 1 .. Len(u) : u[i] = "blank" BY <3>5, <3>6
    <3>10. cols \in Nat /\ cols <= Len(v) /\ cols <= Len(u) BY <3>5
    <3>11. TextOf(v) = TextOf(u) BY <3>5, <3>7, <3>8, <3>9, <3>10, SameText
    <3>12. b[j] = v BY <1>7, <3>1, <3>2
    <3> QED BY <3>1, <3>11, <3>12
  <2>4. ASSUME NEW j \in k + 1 .. Len(b) PROVE TextOf(b[j]) = <<>>
    <3>1. PICK l : l = skip + j OBVIOUS
    <3>2. j \in 1 .. rows - skip /\ j > high /\ l \in 1 .. rows /\ l > y + 1
      BY ONLY <2>a, <3>1, j \in k + 1 .. Len(b)
    <3>3. TextOf(main[l]) = <<>> BY <1>1, <3>2, BlankLine
    <3> QED BY <1>7, <3>1, <3>2, <3>3
  <2>5. ASSUME NEW j \in k + 1 .. Len(s) PROVE TextOf(s[j]) = <<>>
    <3>1. PICK u : u = s[j] OBVIOUS
    <3>2. j \in 1 .. high /\ j > rows - skip BY ONLY <2>a, j \in k + 1 .. Len(s)
    <3>3. u \in Row(wide) BY <1>4, <3>1, <3>2, ScreenParts
    <3>4. u \in Seq(Cells) /\ Len(u) = wide BY <3>3, RowParts
    <3>5. ASSUME NEW i \in 1 .. wide PROVE u[i] = "blank"
      <4>1. u[i] = CopiedCell(main, rows, cols, skip, j, i) BY <1>5, <3>1, <3>2
      <4>2. ~ (j + skip <= rows) BY <1>2, <3>2
      <4> QED BY <4>1, <4>2 DEF CopiedCell
    <3>6. Without(u) BY <3>4, <3>5 DEF Without
    <3> QED BY <3>1, <3>4, <3>6, BlankText
  <2>6. \A j \in 1 .. k : TextOf(s[j]) = TextOf(b[j]) BY <2>3
  <2>7. \A j \in k + 1 .. Len(b) : TextOf(b[j]) = <<>> BY <2>4
  <2>8. \A j \in k + 1 .. Len(s) : TextOf(s[j]) = <<>> BY <2>5
  <2> QED BY <1>8, <2>2, <2>6, <2>7, <2>8, SameCharacters
<1>10. Characters((sb \o a) \o s) = p
  <2>1. PICK d, f, g : d = sb \o a /\ f = d \o s /\ g = sb \o main OBVIOUS
  <2>2. BothOf(main, a, b) /\ BothOf(d, sb, a) /\ BothOf(f, d, s) /\ BothOf(g, sb, main)
    BY <1>7, <2>1 DEF BothOf
  <2>3. Characters(f) = Characters(g) BY ONLY sb \in Seq(Seq(Cells)), <1>8, <1>9, <2>2, SplitText
  <2> QED BY <1>1, <2>1, <2>3
<1>11. BlankAfter(s, high, wide, y - skip, x)
  <2> SUFFICES ASSUME NEW j \in 1 .. high, NEW i \in 1 .. wide, j > (y - skip) + 1 \/ (j = (y - skip) + 1 /\ i > x)
              PROVE  s[j][i] = "blank"
    BY DEF BlankAfter
  <2>1. s[j][i] = CopiedCell(main, rows, cols, skip, j, i) BY <1>5
  <2>2. CASE j + skip <= rows /\ i <= cols
    <3>1. PICK l : l = j + skip OBVIOUS
    <3>2. l \in 1 .. rows /\ i \in 1 .. cols /\ (l > y + 1 \/ (l = y + 1 /\ i > x))
      <4>1. y \in Nat /\ skip \in Nat BY <1>1, <1>2
      <4>2. l \in 1 .. rows /\ i \in 1 .. cols BY <2>2, <3>1, <4>1
      <4>3. CASE j > (y - skip) + 1 BY <3>1, <4>1, <4>2, <4>3
      <4>4. CASE j = (y - skip) + 1 /\ i > x BY <3>1, <4>1, <4>2, <4>4
      <4> QED BY <4>2, <4>3, <4>4
    <3>3. main[l][i] = "blank" BY <1>1, <3>2 DEF BlankAfter
    <3> QED BY <2>1, <2>2, <3>1, <3>3 DEF CopiedCell
  <2>3. CASE ~ (j + skip <= rows /\ i <= cols)
    BY <2>1, <2>3 DEF CopiedCell
  <2> QED BY <2>2, <2>3
<1>12. NothingCut(s, high, wide)
  <2> SUFFICES ASSUME NEW j \in 1 .. high PROVE s[j][wide] # "W"
    BY DEF NothingCut
  <2>1. wide \in 1 .. wide OBVIOUS
  <2>2. s[j][wide] = CopiedCell(main, rows, cols, skip, j, wide) BY <1>5, <2>1
  <2>3. CASE j + skip <= rows /\ wide <= cols
    <3>1. PICK l : l = j + skip OBVIOUS
    <3>2. l \in 1 .. rows /\ wide = cols BY <1>2, <2>3, <3>1
    <3>3. main[l][cols] # "W" BY <1>1, <3>2 DEF NothingCut
    <3> QED BY <2>2, <2>3, <3>1, <3>2, <3>3 DEF CopiedCell
  <2>4. CASE ~ (j + skip <= rows /\ wide <= cols)
    BY <2>2, <2>4 DEF CopiedCell
  <2> QED BY <2>3, <2>4
<1>13. x \in 0 .. wide BY <1>1
<1>14. Held(sb \o a, s, high, wide, y - skip, x, p) BY <1>2, <1>10, <1>11, <1>12, <1>13 DEF Held
<1> QED BY <1>2, <1>3, <1>7, <1>14

-----------------------------------------------------------------------------
(* Where the text ends.                                                     *)

(* Where the text of the main screen ends: where the cursor is, or was when *)
(* the alternate screen was entered.                                        *)
MainX(t) == IF t.onAlt THEN t.savedMain.x ELSE t.cx
MainY(t) == IF t.onAlt THEN t.savedMain.y ELSE t.cy
MainFull(t) == IF t.onAlt THEN t.savedMain.pending ELSE t.pending
Ends(x, full) == x + (IF full THEN 1 ELSE 0)
InOrder(t, p) ==
    /\ ~t.insert /\ t.autowrap /\ t.top = 0 /\ t.bot = t.rows - 1
    /\ MainX(t) \in 0 .. t.cols - 1
    /\ Held(t.sb, t.main, t.rows, t.cols, MainY(t), Ends(MainX(t), MainFull(t)), p)

LEMMA AltInOrder ==
    ASSUME NEW rows, NEW cols, NEW t, NEW u, NEW p, t \in Emulator(rows, cols), Steps(u, t, rows, cols), t.onAlt, InOrder(t, p)
    PROVE  InOrder(u, p)
<1>1. u.rows = t.rows /\ u.cols = t.cols BY DEF Steps, Emulator
<1>2. u.main = t.main /\ u.sb = t.sb /\ u.savedMain = t.savedMain /\ u.onAlt = t.onAlt
      /\ u.insert = t.insert /\ u.autowrap = t.autowrap /\ u.top = t.top /\ u.bot = t.bot
  BY DEF Steps, Same
<1> QED BY <1>1, <1>2 DEF InOrder, MainX, MainY, MainFull

(* On the main screen, with the cursor in any column of the next line.      *)
OnMain(t) == ~t.onAlt /\ ~t.insert /\ t.autowrap /\ t.top = 0 /\ t.bot = t.rows - 1
Text(t, x, p) == Held(t.sb, t.main, t.rows, t.cols, t.cy, x, p)

LEMMA MainInOrder ==
    ASSUME NEW rows, NEW cols, NEW t, NEW p, Region(rows, cols, t), ~t.onAlt
    PROVE  InOrder(t, p) <=> OnMain(t) /\ Text(t, Ends(t.cx, t.pending), p)
<1>1. t.cx \in 0 .. t.cols - 1 BY RegionFacts
<1> QED BY <1>1 DEF InOrder, OnMain, Text, MainX, MainY, MainFull

LEMMA OnMainKept ==
    ASSUME NEW rows, NEW cols, NEW t, NEW u, t \in Emulator(rows, cols), Steps(u, t, rows, cols), OnMain(t)
    PROVE  OnMain(u)
  BY DEF Steps, Same, OnMain, Emulator

LEMMA IndexedText ==
    ASSUME NEW rows, NEW cols, NEW t, NEW x, NEW p, Region(rows, cols, t), OnMain(t), Text(t, x, p), NEW new \in 0 .. cols
    PROVE  /\ IndexLine(t).cx = t.cx /\ IndexLine(t).pending = t.pending
           /\ Text(IndexLine(t), new, p)
<1>1. /\ rows \in Nat /\ rows > 0 /\ cols \in Nat /\ cols > 0 /\ t \in Emulator(rows, cols)
      /\ t.rows = rows /\ t.cols = cols /\ t.cy \in 0 .. rows - 1
  BY RegionFacts
<1>2. t.main \in Screen(rows, cols) /\ t.sb \in Seq(Seq(Cells)) BY <1>1 DEF Emulator
<1>3. PICK sb, main, y : sb = t.sb /\ main = t.main /\ y = t.cy OBVIOUS
<1>4. Held(sb, main, rows, cols, y, x, p) BY <1>1, <1>3 DEF Text
<1>5. CASE t.cy = t.bot
  <2>1. y = rows - 1 BY <1>1, <1>3, <1>5 DEF OnMain
  <2>2. PICK u : u = ScrollUp(t, t.top, t.bot, 1, FALSE) OBVIOUS
  <2>3. PICK s, k : s = UpScrolled(main, 0, rows - 1, 1, rows, cols) /\ k = sb \o SubSeq(main, 1, 1) OBVIOUS
  <2>4. u = [t EXCEPT !.sb = k, !.main = s]
    <3>1. t.top = 0 /\ t.bot = rows - 1 /\ ~t.onAlt BY <1>1 DEF OnMain
    <3>2. Smaller(1, rows - 1 - 0 + 1) = 1 BY <1>1 DEF Smaller
    <3>3. Rows(t) = main BY <1>3, <3>1 DEF Rows
    <3>4. u = WithRows([t EXCEPT !.sb = @ \o SubSeq(main, 1, 1)], s)
      BY <1>1, <2>2, <2>3, <3>1, <3>2, <3>3 DEF ScrollUp, UpScrolled
    <3>5. [t EXCEPT !.sb = @ \o SubSeq(main, 1, 1)] = [t EXCEPT !.sb = k] BY <1>3, <2>3
    <3>6. u = WithRows([t EXCEPT !.sb = k], s) BY <3>4, <3>5
    <3> QED BY <1>1, <3>1, <3>6 DEF WithRows, Emulator
  <2>5. Held(k, s, rows, cols, rows - 1, new, p) BY <1>1, <1>2, <1>3, <1>4, <2>1, <2>3, HeldScrolled
  <2>6. u.sb = k /\ u.main = s /\ u.rows = rows /\ u.cols = cols /\ u.cy = rows - 1 /\ u.cx = t.cx /\ u.pending = t.pending
    BY <1>1, <1>3, <2>1, <2>4 DEF Emulator
  <2>7. IndexLine(t) = u BY <1>5, <2>2 DEF IndexLine
  <2> QED BY <2>5, <2>6, <2>7 DEF Text
<1>6. CASE t.cy # t.bot
  <2>1. y < rows - 1 BY <1>1, <1>3, <1>6 DEF OnMain
  <2>2. PICK u : u = [t EXCEPT !.cy = y + 1] OBVIOUS
  <2>3. IndexLine(t) = u BY <1>1, <1>3, <1>6, <2>1, <2>2 DEF IndexLine
  <2>4. u.sb = sb /\ u.main = main /\ u.rows = rows /\ u.cols = cols /\ u.cy = y + 1 /\ u.cx = t.cx /\ u.pending = t.pending
    BY <1>1, <1>3, <2>2 DEF Emulator
  <2>5. Held(sb, main, rows, cols, y + 1, new, p) BY <1>1, <1>4, <2>1, HeldDown
  <2> QED BY <2>3, <2>4, <2>5 DEF Text
<1> QED BY <1>5, <1>6

LEMMA MarginText ==
    ASSUME NEW rows, NEW cols, NEW t, NEW x, NEW p, Region(rows, cols, t), OnMain(t), Text(t, x, p), NEW new \in 0 .. cols
    PROVE  /\ IndexLine([t EXCEPT !.cx = 0]).cx = 0 /\ IndexLine([t EXCEPT !.cx = 0]).pending = t.pending
           /\ Text(IndexLine([t EXCEPT !.cx = 0]), new, p)
<1>1. PICK u : u = [t EXCEPT !.cx = 0] OBVIOUS
<1>2. 0 \in 0 .. cols - 1 /\ t \in Emulator(rows, cols) BY RegionFacts
<1>3. Steps(u, t, rows, cols) BY <1>1, <1>2 DEF Steps, Same, Emulator
<1>4. Region(rows, cols, u) /\ OnMain(u) BY <1>2, <1>3, RegionKept, OnMainKept
<1>5. /\ u.sb = t.sb /\ u.main = t.main /\ u.rows = t.rows /\ u.cols = t.cols /\ u.cy = t.cy /\ u.cx = 0
      /\ u.pending = t.pending
  BY <1>1, <1>2 DEF Emulator
<1>6. Text(u, x, p) BY <1>5 DEF Text
<1>7. IndexLine(u).cx = u.cx /\ IndexLine(u).pending = u.pending /\ Text(IndexLine(u), new, p)
  BY <1>4, <1>6, IndexedText
<1> QED BY <1>1, <1>5, <1>7

-----------------------------------------------------------------------------
(* Room for a character, and the text once there is room.                   *)

(* The cell of a character (a wide one where there is no room for two       *)
(* columns is V), and the emulator with room for it.                        *)
Fitting(u, c) == IF c = "W" /\ (u.cx = u.cols - 1 \/ u.cols < 2) THEN "V" ELSE c
RoomFor(t, c) == RoomMade(Settled(Wrapped(t)), c)
(* The cursor after a character of width w.                                 *)
PutDone(v, u, w, c) ==
    [v EXCEPT !.last = c, !.cx = IF u.cx + w >= u.cols THEN u.cols - 1 ELSE @ + w,
              !.pending = (u.cx + w >= u.cols) /\ u.autowrap]

LEMMA PutCharIs ==
    ASSUME NEW t, NEW c, NEW u, u = RoomFor(t, c), NEW f, f = Fitting(u, c)
    PROVE  PutChar(t, c) = PutDone(Overwritten(u, f), u, CellWidth(f), c)
  BY Zenon DEF PutChar, RoomFor, Fitting, PutDone

LEMMA FittingKind ==
    ASSUME NEW u, NEW c \in Chars
    PROVE  /\ Fitting(u, c) \in Cells \ {"tail"} /\ Fitting(u, c) \notin {"blank"}
           /\ CharacterOf(Fitting(u, c)) = <<c>> /\ CellWidth(Fitting(u, c)) \in 1 .. 2
           /\ Fitting(u, c) = "W" <=> CellWidth(Fitting(u, c)) = 2
           /\ Fitting(u, c) = "W" => u.cx # u.cols - 1
  BY DEF Fitting, Chars, Cells, CharacterOf, CellWidth

LEMMA RoomForSteps ==
    ASSUME NEW rows, NEW cols, NEW t, Region(rows, cols, t), NEW c
    PROVE  Steps(RoomFor(t, c), t, rows, cols)
<1>1. PICK v, w, u : v = Wrapped(t) /\ w = Settled(v) /\ u = RoomMade(w, c) OBVIOUS
<1>2. Steps(v, t, rows, cols) BY <1>1, WrappedSteps
<1>3. Region(rows, cols, v) BY <1>2, RegionKept
<1>4. Steps(w, v, rows, cols) BY <1>1, <1>3, SettledSteps, RegionFacts
<1>5. Region(rows, cols, w) BY <1>3, <1>4, RegionKept
<1>6. Steps(u, w, rows, cols) BY <1>1, <1>5, RoomMadeSteps
<1>7. Steps(w, t, rows, cols) BY <1>2, <1>4, StepsOn
<1>8. Steps(u, t, rows, cols) BY <1>6, <1>7, StepsOn
<1> QED BY <1>1, <1>8 DEF RoomFor

LEMMA PutDoneSteps ==
    ASSUME NEW rows, NEW cols, NEW u, NEW v, Region(rows, cols, u), Region(rows, cols, v), v.cx = u.cx, NEW w \in 1 .. 2,
           NEW c \in Chars
    PROVE  Steps(PutDone(v, u, w, c), v, rows, cols)
<1>1. u.cols = cols /\ u.cx \in 0 .. cols - 1 /\ cols \in Nat /\ u.autowrap \in BOOLEAN BY RegionFacts
<1>2. v \in Emulator(rows, cols) BY RegionFacts
<1>3. PICK a : a = IF u.cx + w >= u.cols THEN u.cols - 1 ELSE v.cx + w OBVIOUS
<1>4. PICK b : b = ((u.cx + w >= u.cols) /\ u.autowrap) OBVIOUS
<1>5. a \in 0 .. cols - 1 BY <1>1, <1>3
<1>6. b \in BOOLEAN BY <1>1, <1>4
<1>7. PutDone(v, u, w, c) = [v EXCEPT !.last = c, !.cx = a, !.pending = b] BY <1>3, <1>4, Zenon DEF PutDone
<1>8. [v EXCEPT !.last = c, !.cx = a, !.pending = b] \in Emulator(rows, cols) BY <1>2, <1>5, <1>6 DEF Emulator
<1>9. Same([v EXCEPT !.last = c, !.cx = a, !.pending = b], v) BY <1>2 DEF Emulator, Same
<1> QED BY <1>7, <1>8, <1>9 DEF Steps

LEMMA PutCharSteps ==
    ASSUME NEW rows, NEW cols, NEW t, Region(rows, cols, t), NEW c \in Chars
    PROVE  Steps(PutChar(t, c), t, rows, cols)
<1>1. PICK u : u = RoomFor(t, c) OBVIOUS
<1>2. PICK f, w, v : f = Fitting(u, c) /\ w = CellWidth(f) /\ v = Overwritten(u, f) OBVIOUS
<1>3. Steps(u, t, rows, cols) BY <1>1, RoomForSteps
<1>4. Region(rows, cols, u) BY <1>3, RegionKept
<1>5. f \in Cells \ {"tail"} /\ w \in 1 .. 2 BY <1>2, FittingKind
<1>6. Steps(v, u, rows, cols) /\ Placed(v, u) BY <1>2, <1>4, <1>5, OverwrittenSteps
<1>7. Region(rows, cols, v) /\ v.cx = u.cx BY <1>4, <1>6, RegionKept DEF Placed
<1>8. Steps(PutDone(v, u, w, c), v, rows, cols) BY <1>4, <1>5, <1>7, PutDoneSteps
<1>9. Steps(PutDone(v, u, w, c), u, rows, cols) BY <1>6, <1>8, StepsOn
<1>10. Steps(PutDone(v, u, w, c), t, rows, cols) BY <1>3, <1>9, StepsOn
<1>11. PutChar(t, c) = PutDone(v, u, w, c) BY <1>1, <1>2, PutCharIs
<1> QED BY <1>10, <1>11

(* The text goes on where the cursor is, once there is room.                *)
LEMMA WrappedText ==
    ASSUME NEW rows, NEW cols, NEW t, NEW p, Region(rows, cols, t), OnMain(t), Text(t, Ends(t.cx, t.pending), p)
    PROVE  Text(Settled(Wrapped(t)), Wrapped(t).cx, p) /\ Settled(Wrapped(t)).cx = Wrapped(t).cx
           /\ Wrapped(t).cx \in 0 .. cols - 1
<1>1. PICK v, w : v = Wrapped(t) /\ w = Settled(v) OBVIOUS
<1>2. Steps(v, t, rows, cols) BY <1>1, WrappedSteps
<1>3. Region(rows, cols, v) BY <1>2, RegionKept
<1>4. t.autowrap /\ cols \in Nat BY RegionFacts DEF OnMain
<1>5. Text(v, v.cx, p)
  <2>1. CASE t.pending
    <3>1. v = IndexLine([t EXCEPT !.cx = 0]) BY <1>1, <1>4, <2>1 DEF Wrapped
    <3>2. 0 \in 0 .. cols BY <1>4
    <3>3. v.cx = 0 /\ Text(v, 0, p) BY <3>1, <3>2, MarginText
    <3> QED BY <3>3
  <2>2. CASE ~t.pending
    <3>1. v = t BY <1>1, <2>2 DEF Wrapped
    <3>2. Ends(t.cx, t.pending) = t.cx
      <4>1. t.cx \in 0 .. cols - 1 BY RegionFacts
      <4> QED BY <1>4, <2>2, <4>1 DEF Ends
    <3> QED BY <3>1, <3>2
  <2> QED BY <2>1, <2>2
<1>6. /\ w.sb = v.sb /\ w.main = v.main /\ w.rows = v.rows /\ w.cols = v.cols /\ w.cy = v.cy /\ w.cx = v.cx
  <2>1. v \in Emulator(rows, cols) BY <1>3, RegionFacts
  <2> QED BY <1>1, <2>1 DEF Settled, Emulator
<1>7. Text(w, v.cx, p) BY <1>5, <1>6 DEF Text
<1>8. v.cx \in 0 .. cols - 1 BY <1>3, RegionFacts
<1> QED BY <1>1, <1>6, <1>7, <1>8

LEMMA TextIsSeq ==
    ASSUME NEW rows, NEW cols, NEW t, NEW p, NEW x, Region(rows, cols, t), Text(t, x, p)
    PROVE  p \in Seq(Chars)
<1>1. rows \in Nat /\ cols \in Nat /\ t \in Emulator(rows, cols) BY RegionFacts
<1>2. PICK a, b : a = t.sb /\ b = t.main OBVIOUS
<1>3. a \in Seq(Seq(Cells)) /\ b \in Screen(rows, cols) BY <1>1, <1>2 DEF Emulator
<1>4. b \in Seq(Seq(Cells)) BY <1>1, <1>3, ScreenIsLines
<1>5. PICK c : c = a \o b OBVIOUS
<1>6. c \in Seq(Seq(Cells)) BY <1>3, <1>4, <1>5, CharactersBoth
<1>7. Characters(c) \in Seq(Chars) BY <1>6, CharactersType
<1> QED BY <1>2, <1>5, <1>7 DEF Text, Held

(* The line r has what the line y has before column x, then one character   *)
(* that ends before column new, and nothing after.                          *)
Extends(r, main, cols, y, x, new) ==
    /\ \A i \in 1 .. x : r[i] = main[y + 1][i]
    /\ \A i \in x + 2 .. cols : r[i] \in {"blank", "tail"} /\ (i > new => r[i] = "blank")
    /\ r[cols] # "W"

LEMMA ExtendedHolds ==
    ASSUME NEW rows \in Nat, NEW cols \in Nat, rows > 0, cols > 0, NEW sb \in Seq(Seq(Cells)), NEW main \in Screen(rows, cols),
           NEW y, NEW x, NEW p, Held(sb, main, rows, cols, y, x, p), x < cols, NEW new \in x + 1 .. cols, NEW r \in Row(cols),
           Extends(r, main, cols, y, x, new), NEW s, s = [main EXCEPT ![y + 1] = r], NEW c, c = r[x + 1]
    PROVE  Held(sb, s, rows, cols, y, new, p \o CharacterOf(c))
<1>1. rows \in Nat \ {0} /\ cols \in Nat \ {0} OBVIOUS
<1>2. /\ \A i \in 1 .. x : r[i] = main[y + 1][i]
      /\ \A i \in x + 2 .. cols : r[i] \in {"blank", "tail"} /\ (i > new => r[i] = "blank")
      /\ r[cols] # "W"
  BY DEF Extends
<1>3. Held(sb, [main EXCEPT ![y + 1] = r], rows, cols, y, new, p \o CharacterOf(r[x + 1]))
  BY ONLY <1>1, <1>2, sb \in Seq(Seq(Cells)), main \in Screen(rows, cols), Held(sb, main, rows, cols, y, x, p), x < cols,
     new \in x + 1 .. cols, r \in Row(cols), HeldPut
<1> QED BY <1>3

LEMMA RoomMadeText ==
    ASSUME NEW rows, NEW cols, NEW t, NEW p, NEW c, Region(rows, cols, t), OnMain(t), Text(t, t.cx, p)
    PROVE  Text(RoomMade(t, c), RoomMade(t, c).cx, p)
<1>1. CASE ~ (c = "W" /\ t.cx = t.cols - 1 /\ t.autowrap)
  BY <1>1 DEF RoomMade
<1>2. CASE c = "W" /\ t.cx = t.cols - 1 /\ t.autowrap
  <2>1. PICK v, x, y : v = WithCell(t, t.cy, t.cx, "blank") /\ x = t.cx /\ y = t.cy OBVIOUS
  <2>2. /\ rows \in Nat /\ rows > 0 /\ cols \in Nat /\ cols > 0 /\ t \in Emulator(rows, cols) /\ t.rows = rows
        /\ t.cols = cols /\ x = cols - 1 /\ y \in 0 .. rows - 1
    BY <1>2, <2>1, RegionFacts
  <2>3. PICK sb, main, k, m : sb = t.sb /\ main = t.main /\ k = y + 1 /\ m = x + 1 OBVIOUS
  <2>4. sb \in Seq(Seq(Cells)) /\ main \in Screen(rows, cols) BY <2>2, <2>3 DEF Emulator
  <2>5. k \in 1 .. rows /\ m = cols /\ m \in 1 .. cols BY <2>2, <2>3
  <2>6. PICK old, r : old = main[k] /\ r = [old EXCEPT ![m] = "blank"] OBVIOUS
  <2>7. old \in Row(cols) BY <2>2, <2>4, <2>5, <2>6, ScreenParts
  <2>8. r \in Row(cols) /\ r[m] = "blank" /\ \A i \in 1 .. x : r[i] = old[i]
    <3>1. old \in [1 .. cols -> Cells] BY <2>7 DEF Row
    <3>2. r \in [1 .. cols -> Cells] BY <2>6, <3>1 DEF Cells
    <3>3. r \in Row(cols) BY <2>2, <3>2, MadeRow
    <3>4. r[m] = "blank" BY <2>5, <2>6, <3>1
    <3>5. \A i \in 1 .. x : r[i] = old[i] BY <2>2, <2>5, <2>6, <3>1
    <3> QED BY <3>3, <3>4, <3>5
  <2>9. Held(sb, main, rows, cols, y, x, p) BY <2>1, <2>2, <2>3 DEF Text
  <2>10. PICK s : s = [main EXCEPT ![y + 1] = r] OBVIOUS
  <2>11. Held(sb, s, rows, cols, y, m, p \o CharacterOf(r[x + 1]))
    <3>1. x < cols /\ m \in x + 1 .. cols /\ r[cols] # "W" BY <2>2, <2>5, <2>8
    <3>2. \A i \in 1 .. x : r[i] = main[y + 1][i] BY <2>3, <2>6, <2>8
    <3>3. \A i \in x + 2 .. cols : r[i] \in {"blank", "tail"} /\ (i > m => r[i] = "blank") BY <2>2
    <3>4. Extends(r, main, cols, y, x, m) BY <3>1, <3>2, <3>3 DEF Extends
    <3>5. PICK e : e = r[x + 1] OBVIOUS
    <3>6. Held(sb, s, rows, cols, y, m, p \o CharacterOf(e))
      BY ONLY <2>2, <2>4, <2>8, <2>9, <2>10, <3>1, <3>4, <3>5, ExtendedHolds
    <3> QED BY <3>5, <3>6
  <2>12. p \o CharacterOf(r[x + 1]) = p
    <3>1. CharacterOf(r[x + 1]) = <<>> BY <2>3, <2>8 DEF CharacterOf
    <3>2. p \in Seq(Chars) BY TextIsSeq
    <3> QED BY <3>1, <3>2, ConcatEmptySeq
  <2>13. Steps(v, t, rows, cols)
    <3>1. x \in 0 .. cols - 1 /\ "blank" \in Cells BY <2>2 DEF Cells
    <3> QED BY <2>1, <2>2, <3>1, WithCellSteps
  <2>14. Region(rows, cols, v) /\ OnMain(v) BY <2>2, <2>13, RegionKept, OnMainKept
  <2>15. v.main = s /\ v.sb = sb /\ v.cy = y /\ v.rows = rows /\ v.cols = cols
    <3>1. ~t.onAlt BY DEF OnMain
    <3>2. Rows(t) = main BY <2>3, <3>1 DEF Rows
    <3>3. WithCell(t, y, x, "blank") = WithRows(t, s)
      BY <2>3, <2>6, <2>10, <3>2, Zenon DEF WithCell, WithRow
    <3>4. v = [t EXCEPT !.main = s] BY <2>1, <3>1, <3>3 DEF WithRows
    <3> QED BY <2>1, <2>2, <2>3, <3>4 DEF Emulator
  <2>16. Text(v, m, p) BY <2>11, <2>12, <2>15 DEF Text
  <2>17. PICK u : u = IndexLine([v EXCEPT !.cx = 0]) OBVIOUS
  <2>18. u.cx = 0 /\ Text(u, 0, p)
    <3>1. 0 \in 0 .. cols BY <2>2
    <3> QED BY <2>14, <2>16, <2>17, <3>1, MarginText
  <2>19. RoomMade(t, c) = u BY <1>2, <2>1, <2>17 DEF RoomMade
  <2> QED BY <2>18, <2>19
<1> QED BY <1>1, <1>2

-----------------------------------------------------------------------------
(* A character printed.                                                     *)

(* The line a character is printed on, where the rest of it was row.        *)
PrintedRow(u, w, row, f, cols) == [i \in 1 .. cols |-> Printed(u, w, row, f, i)]

(* A character f of w columns put where the text of the screen ends.        *)
PutAt(u, main, rows, cols, y, x, row, f, w) ==
    /\ u.cx = x /\ x \in 0 .. cols - 1 /\ y \in 0 .. rows - 1 /\ BlankAfter(main, rows, cols, y, x)
    /\ row = main[y + 1] /\ w \in 1 .. 2 /\ x + w <= cols /\ (f = "W" <=> w = 2)

LEMMA PrintedExtends ==
    ASSUME NEW rows \in Nat, NEW cols \in Nat, NEW u, NEW main \in Screen(rows, cols), NEW x, NEW y, NEW row, NEW f, NEW w,
           PutAt(u, main, rows, cols, y, x, row, f, w), NEW r, r = PrintedRow(u, w, row, f, cols)
    PROVE  Extends(r, main, cols, y, x, x + w) /\ r[x + 1] = f
<1> USE DEF PrintedRow, PutAt
<1>a. PICK new : new = x + w OBVIOUS
<1>0. PICK k : k = y + 1 OBVIOUS
<1>1. \A i \in x + 1 .. cols : row[i] = "blank"
  <2> TAKE i \in x + 1 .. cols
  <2>1. i \in 1 .. cols /\ i > x /\ k \in 1 .. rows BY <1>0
  <2> QED BY <1>0, <2>1 DEF BlankAfter
<1>2. row[x + 1] = "blank" /\ CellWidth("blank") = 1
  <2>1. x + 1 \in x + 1 .. cols OBVIOUS
  <2> QED BY <1>1, <2>1 DEF CellWidth
<1>3. r[x + 1] = f
  <2>1. x + 1 \in 1 .. cols /\ (x + 1) - 1 = x OBVIOUS
  <2> QED BY <2>1 DEF Printed
<1>4. \A i \in 1 .. x : r[i] = row[i]
  <2> TAKE i \in 1 .. x
  <2>1. i \in 1 .. cols /\ i - 1 # x /\ i - 1 # x + 1 /\ i - 1 # x + w OBVIOUS
  <2>2. CellWidth(row[x + 1]) # 0 BY <1>2
  <2>3. Printed(u, w, row, f, i) = row[i] BY <2>1, <2>2 DEF Printed
  <2> QED BY <2>1, <2>3
<1>5. \A i \in x + 2 .. cols : r[i] \in {"blank", "tail"} /\ (i > new => r[i] = "blank")
  <2> TAKE i \in x + 2 .. cols
  <2>1. i \in 1 .. cols /\ i - 1 # x /\ i - 1 # x - 1 /\ (i > new => i - 1 # x + 1 \/ w # 2) BY <1>a
  <2>2. i \in x + 1 .. cols OBVIOUS
  <2>3. row[i] = "blank" BY <1>1, <2>2
  <2>4. r[i] = Printed(u, w, row, f, i) BY <2>1
  <2>5. \/ i - 1 = x + 1 /\ w = 2 /\ r[i] = "tail"
        \/ ~ (i - 1 = x + 1 /\ w = 2) /\ r[i] = "blank"
    BY <2>1, <2>3, <2>4 DEF Printed
  <2> QED BY <2>1, <2>5
<1>6. r[cols] # "W"
  <2>1. CASE cols = x + 1
    <3>1. w # 2 BY <2>1
    <3> QED BY <1>3, <2>1, <3>1
  <2>2. CASE cols # x + 1
    <3>1. cols \in x + 2 .. cols BY <2>2
    <3>2. r[cols] \in {"blank", "tail"} BY <1>5, <3>1
    <3> QED BY <3>2
  <2> QED BY <2>1, <2>2
<1> QED BY <1>a, <1>3, <1>4, <1>5, <1>6 DEF Extends

(* A character printed is the next one of the text.                         *)
LEMMA PutCharText ==
    ASSUME NEW rows, NEW cols, NEW t, NEW p, Region(rows, cols, t), OnMain(t), Text(t, Ends(t.cx, t.pending), p),
           NEW c \in Chars
    PROVE  LET e == PutChar(t, c) IN OnMain(e) /\ Text(e, Ends(e.cx, e.pending), Append(p, c))
<1>1. PICK v, u : v = Settled(Wrapped(t)) /\ u = RoomMade(v, c) OBVIOUS
<1>2. Region(rows, cols, v) /\ OnMain(v) /\ Text(v, v.cx, p)
  <2>1. PICK h : h = Wrapped(t) OBVIOUS
  <2>2. Steps(h, t, rows, cols) BY <2>1, WrappedSteps
  <2>3. Region(rows, cols, h) /\ OnMain(h) BY <2>2, RegionKept, OnMainKept, RegionFacts
  <2>4. Steps(v, h, rows, cols) BY <1>1, <2>1, <2>3, SettledSteps, RegionFacts
  <2>5. Region(rows, cols, v) /\ OnMain(v) BY <2>3, <2>4, RegionKept, OnMainKept, RegionFacts
  <2> QED BY <1>1, <2>5, WrappedText
<1>3. Region(rows, cols, u) /\ OnMain(u) /\ Text(u, u.cx, p)
  <2>1. Steps(u, v, rows, cols) BY <1>1, <1>2, RoomMadeSteps
  <2>2. v \in Emulator(rows, cols) BY <1>2, RegionFacts
  <2>3. Region(rows, cols, u) /\ OnMain(u) BY <1>2, <2>1, <2>2, RegionKept, OnMainKept
  <2> QED BY <1>1, <1>2, <2>3, RoomMadeText
<1>4. PICK f, w, x, y, main, sb : /\ f = Fitting(u, c) /\ w = CellWidth(f) /\ x = u.cx /\ y = u.cy
                                  /\ main = u.main /\ sb = u.sb
  OBVIOUS
<1>5. /\ rows \in Nat /\ rows > 0 /\ cols \in Nat /\ cols > 0 /\ u \in Emulator(rows, cols) /\ u.cols = cols
      /\ u.rows = rows /\ x \in 0 .. cols - 1 /\ y \in 0 .. rows - 1
  BY <1>3, <1>4, RegionFacts
<1>6. main \in Screen(rows, cols) /\ sb \in Seq(Seq(Cells)) BY <1>4, <1>5 DEF Emulator
<1>7. Held(sb, main, rows, cols, y, x, p) BY <1>3, <1>4, <1>5 DEF Text
<1>8. f \in Cells \ {"tail"} /\ CharacterOf(f) = <<c>> /\ w \in 1 .. 2 /\ (f = "W" <=> w = 2) /\ (f = "W" => x # cols - 1)
  BY <1>4, <1>5, FittingKind
<1>9. PICK new, row, r : /\ new = x + w /\ row = main[y + 1]
                         /\ r = PrintedRow(u, w, row, f, cols)
  OBVIOUS
<1>10. new <= cols /\ new \in x + 1 .. cols /\ x < cols BY <1>5, <1>8, <1>9
<1>11. Extends(r, main, cols, y, x, new) /\ r[x + 1] = f
  <2>1. BlankAfter(main, rows, cols, y, x) BY <1>7 DEF Held
  <2>2. PutAt(u, main, rows, cols, y, x, row, f, w) BY <1>4, <1>5, <1>8, <1>9, <1>10, <2>1 DEF PutAt
  <2>3. r = PrintedRow(u, w, row, f, cols) BY <1>9
  <2>4. Extends(r, main, cols, y, x, x + w) /\ r[x + 1] = f BY <1>5, <1>6, <2>2, <2>3, PrintedExtends
  <2> QED BY <1>9, <2>4
<1>12. PICK z : z = Overwritten(u, f) OBVIOUS
<1>13. Steps(z, u, rows, cols) /\ Placed(z, u) BY <1>3, <1>8, <1>12, OverwrittenSteps
<1>14. PICK s : s = [main EXCEPT ![y + 1] = r] OBVIOUS
<1>15. z = [u EXCEPT !.main = s]
  <2>1. ~u.onAlt /\ ~u.insert BY <1>3 DEF OnMain
  <2>2. Rows(u) = main BY <1>4, <2>1 DEF Rows
  <2>3. PrintedOver(u, w, f) = row BY <1>4, <1>9, <2>1, <2>2 DEF PrintedOver
  <2>4. z = WithRow(u, y, r) BY <1>4, <1>5, <1>9, <1>12, <2>3, OverwrittenIs DEF PrintedRow
  <2>5. WithRow(u, y, r) = WithRows(u, s) BY <1>14, <2>2, Zenon DEF WithRow
  <2> QED BY <2>1, <2>4, <2>5 DEF WithRows
<1>16. r \in Row(cols)
  <2>1. \A i \in 1 .. cols : r[i] \in Cells
    <3>1. TAKE i \in 1 .. cols
    <3>2. row \in Row(cols)
      <4>1. y + 1 \in 1 .. rows BY <1>5
      <4> QED BY <1>5, <1>6, <1>9, <4>1, ScreenParts
    <3>3. row[i] \in Cells BY <1>5, <3>2, RowParts
    <3>4. f \in Cells /\ "blank" \in Cells /\ "tail" \in Cells BY <1>8 DEF Cells
    <3>5. Printed(u, w, row, f, i) \in Cells
      <4> HIDE DEF Cells
      <4> QED BY <3>3, <3>4 DEF Printed
    <3> QED BY <1>9, <3>5 DEF PrintedRow
  <2>2. r \in [1 .. cols -> Cells] BY <1>9, <2>1 DEF PrintedRow
  <2> QED BY <1>5, <2>2, MadeRow
<1>17. Held(sb, s, rows, cols, y, new, p \o CharacterOf(f))
  <2>1. PICK e : e = r[x + 1] OBVIOUS
  <2>2. Held(sb, s, rows, cols, y, new, p \o CharacterOf(e))
    BY ONLY <1>5, <1>6, <1>7, <1>10, <1>11, <1>14, <1>16, <2>1, ExtendedHolds
  <2> QED BY <1>11, <2>1, <2>2
<1>18. p \o CharacterOf(f) = Append(p, c)
  <2>1. p \in Seq(Chars) BY <1>3, TextIsSeq
  <2>2. p \o <<c>> = Append(p, c) BY ONLY <2>1, c \in Chars, AppendIsConcat
  <2> QED BY <1>8, <2>2
<1>19. PICK e : e = PutDone(z, u, w, c) OBVIOUS
<1>20. PutChar(t, c) = e
  <2>1. u = RoomFor(t, c) BY <1>1 DEF RoomFor
  <2> QED BY <1>4, <1>12, <1>19, <2>1, PutCharIs
<1>21. z \in Emulator(rows, cols) /\ u.autowrap BY <1>3, <1>13 DEF Steps, OnMain
<1>22. /\ e.sb = z.sb /\ e.main = z.main /\ e.cy = z.cy /\ e.rows = z.rows /\ e.cols = z.cols
       /\ e.cx = (IF u.cx + w >= u.cols THEN u.cols - 1 ELSE z.cx + w)
       /\ e.pending = ((u.cx + w >= u.cols) /\ u.autowrap)
  BY <1>19, <1>21 DEF PutDone, Emulator
<1>23. z.sb = sb /\ z.main = s /\ z.cy = y /\ z.rows = rows /\ z.cols = cols /\ z.cx = x
  BY <1>4, <1>5, <1>15 DEF Emulator
<1>24. Ends(e.cx, e.pending) = new
  <2>1. CASE x + w >= cols
    <3>1. e.cx = cols - 1 /\ e.pending BY <1>4, <1>5, <1>21, <1>22, <2>1
    <3> QED BY <1>5, <1>9, <1>10, <2>1, <3>1 DEF Ends
  <2>2. CASE ~ (x + w >= cols)
    <3>1. e.cx = x + w /\ ~e.pending BY <1>4, <1>5, <1>22, <1>23, <2>2
    <3> QED BY <1>5, <1>8, <1>9, <3>1 DEF Ends
  <2> QED BY <2>1, <2>2
<1>25. Text(e, Ends(e.cx, e.pending), Append(p, c)) BY <1>17, <1>18, <1>22, <1>23, <1>24 DEF Text
<1>26. OnMain(e)
  <2>1. Steps(e, t, rows, cols) BY <1>20, PutCharSteps
  <2> QED BY <2>1, OnMainKept, RegionFacts
<1> QED BY <1>20, <1>25, <1>26

-----------------------------------------------------------------------------
(* The sequences that move the cursor and change lines.                     *)

LEMMA SettledRegion ==
    ASSUME NEW rows, NEW cols, NEW t, Region(rows, cols, t)
    PROVE  /\ Steps(Settled(t), t, rows, cols) /\ Region(rows, cols, Settled(t))
           /\ Settled(t).cx = t.cx /\ Settled(t).cy = t.cy
<1>1. t \in Emulator(rows, cols) BY RegionFacts
<1>2. Steps(Settled(t), t, rows, cols) BY <1>1, SettledSteps
<1>3. Settled(t).cx = t.cx /\ Settled(t).cy = t.cy BY <1>1 DEF Settled, Emulator
<1> QED BY <1>2, <1>3, RegionKept

LEMMA SettledAfter ==
    ASSUME NEW rows, NEW cols, NEW t, NEW u, Region(rows, cols, t), Steps(u, t, rows, cols)
    PROVE  Steps(Settled(u), t, rows, cols)
<1>1. Region(rows, cols, u) BY RegionKept
<1>2. Steps(Settled(u), u, rows, cols) BY <1>1, SettledRegion
<1> QED BY <1>2, StepsOn

(* Where the cursor may be sent.                                            *)
LEMMA SettledCursor ==
    ASSUME NEW rows, NEW cols, NEW t, Region(rows, cols, t), NEW a \in 0 .. cols - 1, NEW b \in 0 .. rows - 1
    PROVE  /\ Steps([Settled(t) EXCEPT !.cx = a], t, rows, cols) /\ Steps([Settled(t) EXCEPT !.cy = b], t, rows, cols)
           /\ Steps([Settled(t) EXCEPT !.cy = b, !.cx = a], t, rows, cols)
<1>1. PICK v : v = Settled(t) OBVIOUS
<1>2. Steps(v, t, rows, cols) /\ Region(rows, cols, v) BY <1>1, SettledRegion, SMTT(30)
<1>3. /\ Steps([v EXCEPT !.cx = a], v, rows, cols) /\ Steps([v EXCEPT !.cy = b], v, rows, cols)
      /\ Steps([v EXCEPT !.cy = b, !.cx = a], v, rows, cols)
  BY <1>2, CursorSteps, ZenonT(40), FALSE \in BOOLEAN
<1>4. Steps([v EXCEPT !.cx = a], t, rows, cols) BY <1>2, <1>3, StepsOn
<1>5. Steps([v EXCEPT !.cy = b], t, rows, cols) BY <1>2, <1>3, StepsOn
<1>6. Steps([v EXCEPT !.cy = b, !.cx = a], t, rows, cols) BY <1>2, <1>3, StepsOn
<1> QED BY <1>1, <1>4, <1>5, <1>6

LEMMA ReturnSteps ==
    ASSUME NEW rows, NEW cols, NEW t, Region(rows, cols, t)
    PROVE  Steps([Settled(t) EXCEPT !.cx = 0], t, rows, cols)
<1>1. 0 \in 0 .. cols - 1 /\ t.cy \in 0 .. rows - 1 BY RegionFacts
<1> QED BY <1>1, SettledCursor

LEMMA UpSteps ==
    ASSUME NEW rows, NEW cols, NEW t, Region(rows, cols, t)
    PROVE  Steps([Settled(t) EXCEPT !.cy = Larger2(@ - 1, IF @ >= t.top THEN t.top ELSE 0)], t, rows, cols)
<1>1. PICK b : b = Larger2(Settled(t).cy - 1, IF Settled(t).cy >= t.top THEN t.top ELSE 0) OBVIOUS
<1>2. Settled(t).cy = t.cy /\ t.cy \in 0 .. rows - 1 /\ t.top \in Nat /\ t.top < rows /\ rows \in Nat
  <2>1. Settled(t).cy = t.cy BY SettledRegion
  <2>2. t.cy \in 0 .. rows - 1 /\ t.top \in Nat /\ t.bot \in Nat /\ t.top <= t.bot /\ t.bot < rows /\ rows \in Nat
    BY RegionFacts
  <2> QED BY <2>1, <2>2
<1>3. b \in 0 .. rows - 1 BY <1>1, <1>2 DEF Larger2
<1>4. t.cx \in 0 .. cols - 1 BY RegionFacts
<1>5. Steps([Settled(t) EXCEPT !.cy = b], t, rows, cols) BY <1>3, <1>4, SettledCursor
<1> QED BY <1>1, <1>5

LEMMA DownSteps ==
    ASSUME NEW rows, NEW cols, NEW t, Region(rows, cols, t)
    PROVE  Steps([Settled(t) EXCEPT !.cy = Smaller(@ + 1, IF @ <= t.bot THEN t.bot ELSE t.rows - 1)], t, rows, cols)
<1>1. PICK b : b = Smaller(Settled(t).cy + 1, IF Settled(t).cy <= t.bot THEN t.bot ELSE t.rows - 1) OBVIOUS
<1>2. /\ Settled(t).cy = t.cy /\ t.cy \in 0 .. rows - 1 /\ t.bot \in Nat /\ t.bot < rows /\ rows \in Nat
      /\ t.rows = rows
  <2>1. Settled(t).cy = t.cy BY SettledRegion
  <2> QED BY <2>1, RegionFacts
<1>3. b \in 0 .. rows - 1 BY <1>1, <1>2 DEF Smaller
<1>4. t.cx \in 0 .. cols - 1 BY RegionFacts
<1>5. Steps([Settled(t) EXCEPT !.cy = b], t, rows, cols) BY <1>3, <1>4, SettledCursor
<1> QED BY <1>1, <1>5

LEMMA SidewaysSteps ==
    ASSUME NEW rows, NEW cols, NEW t, Region(rows, cols, t)
    PROVE  /\ Steps([Settled(t) EXCEPT !.cx = Smaller(@ + 1, t.cols - 1)], t, rows, cols)
           /\ Steps([Settled(t) EXCEPT !.cx = Larger2(@ - 1, 0)], t, rows, cols)
<1>1. PICK a, d : a = Smaller(Settled(t).cx + 1, t.cols - 1) /\ d = Larger2(Settled(t).cx - 1, 0) OBVIOUS
<1>2. /\ Settled(t).cx = t.cx /\ t.cx \in 0 .. cols - 1 /\ t.cy \in 0 .. rows - 1 /\ t.cols = cols /\ cols \in Nat
      /\ cols > 0
  <2>1. Settled(t).cx = t.cx BY SettledRegion
  <2> QED BY <2>1, RegionFacts
<1>3. a \in 0 .. cols - 1 /\ d \in 0 .. cols - 1 BY <1>1, <1>2 DEF Smaller, Larger2
<1>4. Steps([Settled(t) EXCEPT !.cx = a], t, rows, cols) BY <1>2, <1>3, SettledCursor
<1>5. Steps([Settled(t) EXCEPT !.cx = d], t, rows, cols) BY <1>2, <1>3, SettledCursor
<1> QED BY <1>1, <1>4, <1>5

LEMMA NextLineSteps ==
    ASSUME NEW rows, NEW cols, NEW t, Region(rows, cols, t)
    PROVE  /\ Steps([Settled(t) EXCEPT !.cy = Smaller(@ + 1, t.bot), !.cx = 0], t, rows, cols)
           /\ Steps([Settled(t) EXCEPT !.cy = Larger2(@ - 1, t.top), !.cx = 0], t, rows, cols)
<1>1. PICK b, d : b = Smaller(Settled(t).cy + 1, t.bot) /\ d = Larger2(Settled(t).cy - 1, t.top) OBVIOUS
<1>2. /\ Settled(t).cy = t.cy /\ t.cy \in 0 .. rows - 1 /\ rows \in Nat /\ t.bot \in Nat /\ t.bot < rows
      /\ t.top \in Nat /\ t.top < rows /\ 0 \in 0 .. cols - 1
  <2>1. Settled(t).cy = t.cy BY SettledRegion
  <2>2. /\ t.cy \in 0 .. rows - 1 /\ rows \in Nat /\ t.top \in Nat /\ t.bot \in Nat /\ t.top <= t.bot /\ t.bot < rows
        /\ cols \in Nat /\ cols > 0
    BY RegionFacts
  <2> QED BY <2>1, <2>2
<1>3. b \in 0 .. rows - 1 /\ d \in 0 .. rows - 1 BY <1>1, <1>2 DEF Smaller, Larger2
<1>4. Steps([Settled(t) EXCEPT !.cy = b, !.cx = 0], t, rows, cols) BY <1>2, <1>3, SettledCursor
<1>5. Steps([Settled(t) EXCEPT !.cy = d, !.cx = 0], t, rows, cols) BY <1>2, <1>3, SettledCursor
<1> QED BY <1>1, <1>4, <1>5

LEMMA MoveToSteps ==
    ASSUME NEW rows, NEW cols, NEW t, Region(rows, cols, t), NEW y \in Nat, NEW x \in Nat
    PROVE  Steps(MoveTo(t, y, x), t, rows, cols)
<1>1. PICK top, bot, a, b : /\ top = (IF t.origin THEN t.top ELSE 0) /\ bot = (IF t.origin THEN t.bot ELSE t.rows - 1)
                            /\ a = Clamped(x, 0, t.cols - 1) /\ b = Clamped(y + top, top, bot)
  OBVIOUS
<1>2. /\ rows \in Nat /\ rows > 0 /\ cols \in Nat /\ cols > 0 /\ t.rows = rows /\ t.cols = cols
      /\ t.top \in Nat /\ t.bot \in Nat /\ t.top <= t.bot /\ t.bot < rows
  BY RegionFacts
<1>3. a \in 0 .. cols - 1 BY <1>1, <1>2 DEF Clamped, Larger2, Smaller
<1>4. top \in Nat /\ bot \in Nat /\ top <= bot /\ bot < rows BY <1>1, <1>2
<1>5. b \in 0 .. rows - 1 BY <1>1, <1>2, <1>4, SMTT(30) DEF Clamped, Larger2, Smaller
<1>6. Steps([t EXCEPT !.cy = b, !.cx = a, !.pending = FALSE], t, rows, cols) BY <1>3, <1>5, CursorSteps, ZenonT(40), FALSE \in BOOLEAN
<1>7. MoveTo(t, y, x) = [t EXCEPT !.cy = b, !.cx = a, !.pending = FALSE] BY <1>1, Zenon DEF MoveTo
<1> QED BY <1>6, <1>7

LEMMA ReverseLineSteps ==
    ASSUME NEW rows, NEW cols, NEW t, Region(rows, cols, t)
    PROVE  Steps(Settled(ReverseIndex(t)), t, rows, cols) /\ Steps(Settled(IndexLine(t)), t, rows, cols)
           /\ Steps(Settled(IndexLine([t EXCEPT !.cx = 0])), t, rows, cols)
<1>1. Steps(ReverseIndex(t), t, rows, cols) BY ReverseIndexSteps
<1>2. Steps(IndexLine(t), t, rows, cols) BY IndexLineSteps
<1>3. Steps(IndexLine([t EXCEPT !.cx = 0]), t, rows, cols) BY ToMargin
<1>4. Steps(Settled(ReverseIndex(t)), t, rows, cols) BY <1>1, SettledAfter
<1>5. Steps(Settled(IndexLine(t)), t, rows, cols) BY <1>2, SettledAfter
<1>6. Steps(Settled(IndexLine([t EXCEPT !.cx = 0])), t, rows, cols) BY <1>3, SettledAfter
<1> QED BY <1>4, <1>5, <1>6

LEMMA RepeatSteps ==
    ASSUME NEW rows, NEW cols, NEW t, Region(rows, cols, t), t.last # "none"
    PROVE  Steps(PutChar(PutChar(t, t.last), t.last), t, rows, cols)
<1>1. PICK c, u : c = t.last /\ u = PutChar(t, c) OBVIOUS
<1>2. c \in Chars
  <2>1. t \in Emulator(rows, cols) BY RegionFacts
  <2> QED BY <1>1, <2>1 DEF Emulator
<1>3. Steps(u, t, rows, cols) BY <1>1, <1>2, PutCharSteps
<1>4. Region(rows, cols, u) BY <1>3, RegionKept
<1>5. Steps(PutChar(u, c), u, rows, cols) BY <1>2, <1>4, PutCharSteps
<1>6. Steps(PutChar(u, c), t, rows, cols) BY <1>3, <1>5, StepsOn
<1> QED BY <1>1, <1>6

LEMMA LineErased ==
    ASSUME NEW rows, NEW cols, NEW t, Region(rows, cols, t), NEW x0, NEW x1
    PROVE  Steps(Erased(t, t.cy, x0, x1), t, rows, cols) /\ Steps(Settled(Erased(t, t.cy, x0, x1)), t, rows, cols)
<1>1. PICK y : y = t.cy OBVIOUS
<1>2. rows \in Nat /\ cols \in Nat /\ t \in Emulator(rows, cols) /\ y \in 0 .. rows - 1 BY <1>1, RegionFacts
<1>3. Steps(Erased(t, y, x0, x1), t, rows, cols) BY <1>2, ErasedSteps
<1>4. Steps(Settled(Erased(t, y, x0, x1)), t, rows, cols) BY <1>3, SettledAfter
<1> QED BY <1>1, <1>3, <1>4

LEMMA LinesErased ==
    ASSUME NEW rows, NEW cols, NEW t, NEW u, Region(rows, cols, t), Steps(u, t, rows, cols), NEW from, NEW to
    PROVE  Steps(Settled(ErasedRows(u, from, to)), t, rows, cols)
<1>1. Region(rows, cols, u) BY RegionKept
<1>2. rows \in Nat /\ cols \in Nat /\ u \in Emulator(rows, cols) BY <1>1, RegionFacts
<1>3. Steps(ErasedRows(u, from, to), u, rows, cols) BY <1>2, ErasedRowsSteps
<1>4. Steps(ErasedRows(u, from, to), t, rows, cols) BY <1>3, StepsOn
<1> QED BY <1>4, SettledAfter

(* Characters put into, or taken out of, the line of the cursor.            *)
LEMMA ShiftedRow ==
    ASSUME NEW cols \in Nat, NEW r \in Row(cols), NEW x \in 0 .. cols - 1, NEW n \in Nat, n <= cols - x
    PROVE  /\ SubSeq(r, 1, x) \o BlankRow(n) \o SubSeq(r, x + 1, cols - n) \in Row(cols)
           /\ SubSeq(r, 1, x) \o SubSeq(r, x + n + 1, cols) \o BlankRow(n) \in Row(cols)
<1>1. PICK one, u, v, y, w, k : one = 1 /\ u = x + 1 /\ v = x + n + 1 /\ y = cols - n /\ w = cols /\ k = cols - x - n OBVIOUS
<1>2. /\ one \in Nat \ {0} /\ u \in Nat \ {0} /\ v \in Nat \ {0} /\ x \in 0 .. cols /\ y \in 0 .. cols /\ w \in 0 .. cols
      /\ k \in Nat /\ x \in Nat /\ x = x - one + 1 /\ k = y - u + 1 /\ k = w - v + 1
  BY <1>1
<1>3. PICK a, b, d, z : a = SubSeq(r, one, x) /\ b = SubSeq(r, u, y) /\ d = SubSeq(r, v, w) /\ z = BlankRow(n) OBVIOUS
<1>4. a \in Seq(Cells) BY <1>2, <1>3, PieceOfRow
<1>5. Len(a) = x BY <1>2, <1>3, PieceOfRow
<1>6. b \in Seq(Cells) BY <1>2, <1>3, PieceOfRow
<1>7. Len(b) = k BY <1>2, <1>3, PieceOfRow
<1>8. d \in Seq(Cells) BY <1>2, <1>3, PieceOfRow
<1>9. Len(d) = k BY <1>2, <1>3, PieceOfRow
<1>0. z \in Row(n) BY <1>3, BlankIsRow
<1>10. z \in Seq(Cells) BY <1>0 DEF Row
<1>a. Len(z) = n BY <1>0 DEF Row
<1>11. PICK g, h, i, j : g = a \o z /\ h = g \o b /\ i = a \o d /\ j = i \o z OBVIOUS
<1>12. g \in Seq(Cells) /\ Len(g) = Len(a) + Len(z) BY ONLY <1>4, <1>10, <1>11, OneAfter
<1>13. h \in Seq(Cells) /\ Len(h) = Len(g) + Len(b) BY ONLY <1>6, <1>11, <1>12, OneAfter
<1>14. i \in Seq(Cells) /\ Len(i) = Len(a) + Len(d) BY ONLY <1>4, <1>8, <1>11, OneAfter
<1>15. j \in Seq(Cells) /\ Len(j) = Len(i) + Len(z) BY ONLY <1>10, <1>11, <1>14, OneAfter
<1>16. Len(h) = cols BY <1>1, <1>a, <1>5, <1>7, <1>10, <1>12, <1>13
<1>17. Len(j) = cols BY <1>1, <1>a, <1>5, <1>9, <1>10, <1>14, <1>15
<1>18. h \in Row(cols) /\ j \in Row(cols) BY <1>13, <1>15, <1>16, <1>17 DEF Row
<1> QED BY <1>1, <1>3, <1>11, <1>18

LEMMA ShiftedSteps ==
    ASSUME NEW rows, NEW cols, NEW t, Region(rows, cols, t), NEW m \in Nat
    PROVE  LET n == Smaller(m, t.cols - t.cx)
               r == Rows(t)[t.cy + 1]
           IN  /\ Steps(Settled(WithRow(t, t.cy, SubSeq(r, 1, t.cx) \o BlankRow(n)
                                             \o SubSeq(r, t.cx + 1, t.cols - n))), t, rows, cols)
               /\ Steps(Settled(WithRow(t, t.cy, SubSeq(r, 1, t.cx) \o SubSeq(r, t.cx + n + 1, t.cols)
                                             \o BlankRow(n))), t, rows, cols)
<1>1. PICK x, y, n, r : /\ x = t.cx /\ y = t.cy /\ n = Smaller(m, t.cols - t.cx) /\ r = Rows(t)[t.cy + 1]
  OBVIOUS
<1>2. /\ rows \in Nat /\ cols \in Nat /\ t \in Emulator(rows, cols) /\ t.cols = cols /\ x \in 0 .. cols - 1
      /\ y \in 0 .. rows - 1
  BY <1>1, RegionFacts
<1>3. r \in Row(cols)
  <2>1. r = Rows(t)[y + 1] BY <1>1
  <2> QED BY <1>2, <2>1, CellHere
<1>4. n \in Nat /\ n <= cols - x BY <1>1, <1>2 DEF Smaller
<1>5. PICK g, h : /\ g = SubSeq(r, 1, x) \o BlankRow(n) \o SubSeq(r, x + 1, cols - n)
                  /\ h = SubSeq(r, 1, x) \o SubSeq(r, x + n + 1, cols) \o BlankRow(n)
  OBVIOUS
<1>6. g \in Row(cols) /\ h \in Row(cols) BY ONLY <1>2, <1>3, <1>4, <1>5, ShiftedRow
<1>7. Steps(WithRow(t, y, g), t, rows, cols) BY <1>2, <1>6, WithRowSteps
<1>8. Steps(WithRow(t, y, h), t, rows, cols) BY <1>2, <1>6, WithRowSteps
<1>9. Steps(Settled(WithRow(t, y, g)), t, rows, cols) BY <1>7, SettledAfter
<1>10. Steps(Settled(WithRow(t, y, h)), t, rows, cols) BY <1>8, SettledAfter
<1> QED BY <1>1, <1>2, <1>5, <1>9, <1>10

LEMMA LinesSteps ==
    ASSUME NEW rows, NEW cols, NEW t, Region(rows, cols, t), InRegion(t)
    PROVE  /\ Steps(Settled([ScrollDown(t, t.cy, t.bot, 1) EXCEPT !.cx = 0]), t, rows, cols)
           /\ Steps(Settled([ScrollUp(t, t.cy, t.bot, 1, TRUE) EXCEPT !.cx = 0]), t, rows, cols)
<1>1. PICK y, bot, u, v : /\ y = t.cy /\ bot = t.bot /\ u = ScrollDown(t, y, bot, 1) /\ v = ScrollUp(t, y, bot, 1, TRUE)
  OBVIOUS
<1>2. /\ rows \in Nat /\ cols \in Nat /\ t \in Emulator(rows, cols) /\ y \in Nat /\ bot \in Nat /\ y <= bot /\ bot < rows
      /\ 0 \in 0 .. cols - 1 /\ t.cy \in 0 .. rows - 1
  BY <1>1, RegionFacts DEF InRegion
<1>3. Steps(u, t, rows, cols)
  <2>1. 1 \in Nat OBVIOUS
  <2> QED BY <1>1, <1>2, <2>1, ScrollDownSteps
<1>4. Steps(v, t, rows, cols)
  <2>1. 1 \in Nat /\ TRUE \in BOOLEAN OBVIOUS
  <2> QED BY <1>1, <1>2, <2>1, ScrollUpSteps
<1>5. Region(rows, cols, u) /\ Region(rows, cols, v) BY <1>3, <1>4, RegionKept
<1>6. Steps([u EXCEPT !.cx = 0], u, rows, cols) /\ Steps([v EXCEPT !.cx = 0], v, rows, cols)
  BY <1>2, <1>5, CursorSteps, ZenonT(40), FALSE \in BOOLEAN
<1>7. Steps([u EXCEPT !.cx = 0], t, rows, cols) /\ Steps([v EXCEPT !.cx = 0], t, rows, cols)
  BY <1>3, <1>4, <1>6, StepsOn
<1> QED BY <1>1, <1>7, SettledAfter

LEMMA ScreenSteps ==
    ASSUME NEW rows, NEW cols, NEW t, Region(rows, cols, t)
    PROVE  /\ Steps(ScrollUp(t, t.top, t.bot, 1, FALSE), t, rows, cols)
           /\ Steps(ScrollDown(t, t.top, t.bot, 1), t, rows, cols)
<1>1. PICK top, bot : top = t.top /\ bot = t.bot OBVIOUS
<1>2. /\ rows \in Nat /\ cols \in Nat /\ t \in Emulator(rows, cols) /\ top \in Nat /\ bot \in Nat
      /\ top <= bot /\ bot < rows /\ 1 \in Nat /\ FALSE \in BOOLEAN
  BY <1>1, RegionFacts
<1> QED BY <1>1, <1>2, ScrollUpSteps, ScrollDownSteps

-----------------------------------------------------------------------------
(* The sequences that save, restore, switch and reset.                      *)

(* What the other sequences do to the emulator.                             *)
LEMMA SaveKeeps ==
    ASSUME NEW rows, NEW cols, NEW t, Region(rows, cols, t)
    PROVE  /\ Region(rows, cols, SaveCursor(t))
           /\ \A p : InOrder(t, p) => InOrder(SaveCursor(t), p)
<1>1. t \in Emulator(rows, cols) /\ rows \in Nat /\ cols \in Nat BY RegionFacts
<1>2. PICK s : s = [x |-> t.cx, y |-> t.cy, origin |-> t.origin, pending |-> t.pending] OBVIOUS
<1>3. s \in Place
  <2>1. t.cx \in Nat /\ t.cy \in Nat /\ t.origin \in BOOLEAN /\ t.pending \in BOOLEAN BY <1>1 DEF Emulator
  <2> QED BY <1>2, <2>1 DEF Place
<1>4. PICK u : u = SaveCursor(t) OBVIOUS
<1>5. u = IF t.onAlt THEN [t EXCEPT !.savedAlt = s] ELSE [t EXCEPT !.savedMain = s] BY <1>2, <1>4, Zenon DEF SaveCursor
<1>6. u \in Emulator(rows, cols) /\ u.top = t.top /\ u.bot = t.bot BY <1>1, <1>3, <1>5 DEF Emulator
<1>7. Region(rows, cols, u) BY <1>6 DEF Region
<1>8. ASSUME NEW p, InOrder(t, p) PROVE InOrder(u, p)
  <2>1. /\ u.rows = t.rows /\ u.cols = t.cols /\ u.main = t.main /\ u.sb = t.sb /\ u.onAlt = t.onAlt
        /\ u.insert = t.insert /\ u.autowrap = t.autowrap /\ u.cx = t.cx /\ u.cy = t.cy /\ u.pending = t.pending
        /\ t.onAlt => u.savedMain = t.savedMain
    BY <1>1, <1>5 DEF Emulator
  <2> QED BY <1>6, <1>8, <2>1 DEF InOrder, MainX, MainY, MainFull
<1> QED BY <1>4, <1>7, <1>8

LEMMA RestoreKeeps ==
    ASSUME NEW rows, NEW cols, NEW t, Region(rows, cols, t)
    PROVE  Region(rows, cols, RestoreCursor(t))
<1>1. t \in Emulator(rows, cols) /\ rows \in Nat /\ rows > 0 /\ cols \in Nat /\ cols > 0 BY RegionFacts
<1>2. PICK s : s = IF t.onAlt THEN t.savedAlt ELSE t.savedMain OBVIOUS
<1>3. s \in Place BY <1>1, <1>2 DEF Emulator
<1>4. PICK a, b : a = Smaller(s.x, t.cols - 1) /\ b = Smaller(s.y, t.rows - 1) OBVIOUS
<1>5. a \in 0 .. cols - 1 /\ b \in 0 .. rows - 1 /\ s.origin \in BOOLEAN /\ s.pending \in BOOLEAN
  <2>1. s.x \in Nat /\ s.y \in Nat /\ s.origin \in BOOLEAN /\ s.pending \in BOOLEAN BY <1>3 DEF Place
  <2>2. t.cols = cols /\ t.rows = rows BY RegionFacts
  <2> QED BY <1>1, <1>4, <2>1, <2>2 DEF Smaller
<1>6. PICK u : u = RestoreCursor(t) OBVIOUS
<1>7. u = [t EXCEPT !.cx = a, !.cy = b, !.origin = s.origin, !.pending = s.pending]
  BY <1>2, <1>4, <1>6, Zenon DEF RestoreCursor
<1>8. u \in Emulator(rows, cols) /\ u.top = t.top /\ u.bot = t.bot BY <1>1, <1>5, <1>7 DEF Emulator
<1>9. Region(rows, cols, u) BY <1>8 DEF Region
<1> QED BY <1>6, <1>9

LEMMA AlternateKeeps ==
    ASSUME NEW rows, NEW cols, NEW t, Region(rows, cols, t), NEW on \in BOOLEAN, NEW clear \in BOOLEAN
    PROVE  Region(rows, cols, SetAlternate(t, on, clear))
<1>1. t \in Emulator(rows, cols) /\ rows \in Nat /\ cols \in Nat /\ t.rows = rows /\ t.cols = cols BY RegionFacts
<1>2. PICK s : s = IF on /\ clear THEN NewScreen(t.rows, t.cols) ELSE t.alt OBVIOUS
<1>3. s \in Screen(rows, cols) BY <1>1, <1>2, NewIsScreen DEF Emulator
<1>4. PICK u : u = [t EXCEPT !.onAlt = on, !.pending = FALSE, !.alt = s] OBVIOUS
<1>5. u \in Emulator(rows, cols) /\ u.top = t.top /\ u.bot = t.bot BY <1>1, <1>3, <1>4 DEF Emulator
<1>6. Region(rows, cols, u) BY <1>5 DEF Region
<1>7. SetAlternate(t, on, clear) = IF on = t.onAlt THEN t ELSE u BY <1>2, <1>4, Zenon DEF SetAlternate
<1> QED BY <1>6, <1>7

(* The alternate screen entered: the place in the text is the one saved.    *)
LEMMA EnterKeeps ==
    ASSUME NEW rows, NEW cols, NEW t, Region(rows, cols, t), ~t.onAlt, NEW p, InOrder(t, p)
    PROVE  InOrder(SetAlternate(SaveCursor(t), TRUE, TRUE), p)
<1>1. t \in Emulator(rows, cols) BY RegionFacts
<1>2. PICK s : s = [x |-> t.cx, y |-> t.cy, origin |-> t.origin, pending |-> t.pending] OBVIOUS
<1>3. PICK u, v : u = SaveCursor(t) /\ v = SetAlternate(u, TRUE, TRUE) OBVIOUS
<1>4. Region(rows, cols, u) BY <1>3, SaveKeeps
<1>5. u \in Emulator(rows, cols) BY <1>4, RegionFacts
<1>6. u = [t EXCEPT !.savedMain = s] BY <1>2, <1>3 DEF SaveCursor
<1>7. ~u.onAlt /\ u.savedMain = s BY <1>1, <1>6 DEF Emulator
<1>8. PICK z : z = NewScreen(u.rows, u.cols) OBVIOUS
<1>9. v = [u EXCEPT !.onAlt = TRUE, !.pending = FALSE, !.alt = z] BY <1>3, <1>7, <1>8 DEF SetAlternate
<1>10. /\ v.rows = u.rows /\ v.cols = u.cols /\ v.main = u.main /\ v.sb = u.sb /\ v.onAlt = TRUE /\ v.insert = u.insert
       /\ v.autowrap = u.autowrap /\ v.top = u.top /\ v.bot = u.bot /\ v.savedMain = u.savedMain
  BY <1>5, <1>9 DEF Emulator
<1>11. /\ u.rows = t.rows /\ u.cols = t.cols /\ u.main = t.main /\ u.sb = t.sb /\ u.insert = t.insert
       /\ u.autowrap = t.autowrap /\ u.top = t.top /\ u.bot = t.bot
  BY <1>1, <1>6 DEF Emulator
<1>12. s.x = t.cx /\ s.y = t.cy /\ s.pending = t.pending BY <1>2
<1>13. MainX(v) = MainX(t) /\ MainY(v) = MainY(t) /\ MainFull(v) = MainFull(t)
  BY <1>7, <1>10, <1>12 DEF MainX, MainY, MainFull
<1>14. InOrder(v, p) BY <1>10, <1>11, <1>13 DEF InOrder
<1> QED BY <1>3, <1>14

(* ... and left: the cursor is at the end of the text again.                *)
LEMMA LeaveKeeps ==
    ASSUME NEW rows, NEW cols, NEW t, Region(rows, cols, t), t.onAlt, NEW p, InOrder(t, p)
    PROVE  InOrder(RestoreCursor(SetAlternate(t, FALSE, FALSE)), p)
<1>1. t \in Emulator(rows, cols) /\ rows \in Nat /\ cols \in Nat /\ t.rows = rows /\ t.cols = cols BY RegionFacts
<1>2. PICK s, u, v : s = t.savedMain /\ u = SetAlternate(t, FALSE, FALSE) /\ v = RestoreCursor(u) OBVIOUS
<1>3. PICK z : z = t.alt OBVIOUS
<1>4. u = [t EXCEPT !.onAlt = FALSE, !.pending = FALSE, !.alt = z] BY <1>2, <1>3 DEF SetAlternate
<1>5. u \in Emulator(rows, cols)
  <2>1. z \in Screen(rows, cols) BY <1>1, <1>3 DEF Emulator
  <2> QED BY <1>1, <1>4, <2>1 DEF Emulator
<1>6. /\ u.rows = rows /\ u.cols = cols /\ u.main = t.main /\ u.sb = t.sb /\ u.onAlt = FALSE /\ u.insert = t.insert
      /\ u.autowrap = t.autowrap /\ u.top = t.top /\ u.bot = t.bot /\ u.savedMain = s
  BY <1>1, <1>2, <1>4 DEF Emulator
<1>7. s \in Place BY <1>1, <1>2 DEF Emulator
<1>8. s.x \in 0 .. cols - 1 /\ s.y \in 0 .. rows - 1
  <2>1. MainX(t) = s.x /\ MainY(t) = s.y BY <1>2 DEF MainX, MainY
  <2>2. MainX(t) \in 0 .. t.cols - 1 BY DEF InOrder
  <2>3. MainY(t) \in 0 .. t.rows - 1 BY DEF InOrder, Held
  <2> QED BY <1>1, <2>1, <2>2, <2>3
<1>9. PICK a, b : a = Smaller(s.x, u.cols - 1) /\ b = Smaller(s.y, u.rows - 1) OBVIOUS
<1>10. a = s.x /\ b = s.y BY <1>1, <1>6, <1>8, <1>9 DEF Smaller
<1>11. v = [u EXCEPT !.cx = s.x, !.cy = s.y, !.origin = s.origin, !.pending = s.pending]
  BY <1>2, <1>6, <1>9, <1>10 DEF RestoreCursor
<1>12. /\ v.rows = u.rows /\ v.cols = u.cols /\ v.main = u.main /\ v.sb = u.sb /\ v.onAlt = FALSE /\ v.insert = u.insert
       /\ v.autowrap = u.autowrap /\ v.top = u.top /\ v.bot = u.bot /\ v.cx = s.x /\ v.cy = s.y /\ v.pending = s.pending
  BY <1>5, <1>6, <1>11 DEF Emulator
<1>13. MainX(v) = MainX(t) /\ MainY(v) = MainY(t) /\ MainFull(v) = MainFull(t)
  BY <1>2, <1>12 DEF MainX, MainY, MainFull
<1>14. InOrder(v, p) BY <1>1, <1>6, <1>12, <1>13 DEF InOrder
<1> QED BY <1>2, <1>14

LEMMA ResetKeeps ==
    ASSUME NEW rows, NEW cols, NEW t, Region(rows, cols, t)
    PROVE  Region(rows, cols, Reset(t)) /\ Region(rows, cols, ErasedRows(Reset(t), 0, t.rows))
<1>1. /\ t \in Emulator(rows, cols) /\ rows \in Nat /\ rows > 0 /\ cols \in Nat /\ cols > 0 /\ t.rows = rows
  BY RegionFacts
<1>2. PICK m, n, b, a : /\ m = t.savedMain /\ n = [m EXCEPT !.x = 0, !.y = 0] /\ b = rows - 1
                        /\ a = [m EXCEPT !.x = 0, !.y = 0]
  OBVIOUS
<1>3. n \in Place /\ a \in Place
  <2>1. m \in Place BY <1>1, <1>2 DEF Emulator
  <2> QED BY <1>2, <2>1 DEF Place
<1>4. PICK u : u = [t EXCEPT !.cx = 0, !.cy = 0, !.pending = FALSE, !.top = 0, !.bot = b,
                             !.origin = FALSE, !.insert = FALSE, !.autowrap = TRUE, !.onAlt = FALSE,
                             !.savedMain = n, !.savedAlt = a]
  OBVIOUS
<1>5. u = Reset(t)
  <2>1. t.savedMain = m /\ t.rows - 1 = b BY <1>1, <1>2
  <2> QED BY <1>2, <1>4, <2>1 DEF Reset
<1>6. 0 \in 0 .. cols - 1 /\ 0 \in 0 .. rows - 1 /\ b \in 0 .. rows - 1 BY <1>1, <1>2
<1>7. u \in Emulator(rows, cols) BY <1>1, <1>3, <1>4, <1>6 DEF Emulator
<1>8. u.top <= u.bot
  <2>1. u.top = 0 /\ u.bot = b BY <1>1, <1>4 DEF Emulator
  <2> QED BY <1>6, <2>1
<1>9. Region(rows, cols, u) BY <1>7, <1>8 DEF Region
<1>10. Steps(ErasedRows(u, 0, t.rows), u, rows, cols) BY <1>1, <1>7, ErasedRowsSteps
<1>11. Region(rows, cols, ErasedRows(u, 0, t.rows)) BY <1>9, <1>10, RegionKept
<1> QED BY <1>5, <1>9, <1>11

LEMMA SetRegionKeeps ==
    ASSUME NEW rows, NEW cols, NEW t, Region(rows, cols, t), NEW top \in 0 .. t.rows - 1, NEW bot \in 0 .. t.rows - 1, top < bot
    PROVE  Region(rows, cols, MoveTo([t EXCEPT !.top = top, !.bot = bot], 0, 0))
<1>1. /\ t \in Emulator(rows, cols) /\ rows \in Nat /\ cols \in Nat /\ t.rows = rows
  BY RegionFacts
<1>2. PICK u : u = [t EXCEPT !.top = top, !.bot = bot] OBVIOUS
<1>3. u \in Emulator(rows, cols) /\ u.top = top /\ u.bot = bot BY <1>1, <1>2 DEF Emulator
<1>4. top <= bot BY <1>1
<1>5. Region(rows, cols, u) BY <1>3, <1>4 DEF Region
<1>6. Steps(MoveTo(u, 0, 0), u, rows, cols) BY <1>5, MoveToSteps, 0 \in Nat
<1>7. Region(rows, cols, MoveTo(u, 0, 0)) BY <1>5, <1>6, RegionKept
<1> QED BY <1>2, <1>7

LEMMA SetOriginKeeps ==
    ASSUME NEW rows, NEW cols, NEW t, Region(rows, cols, t), NEW on \in BOOLEAN
    PROVE  Region(rows, cols, MoveTo([t EXCEPT !.origin = on], 0, 0))
<1>1. t \in Emulator(rows, cols) BY RegionFacts
<1>2. PICK u : u = [t EXCEPT !.origin = on] OBVIOUS
<1>3. u \in Emulator(rows, cols) /\ u.top = t.top /\ u.bot = t.bot BY <1>1, <1>2 DEF Emulator
<1>5. Region(rows, cols, u) BY <1>3 DEF Region
<1>6. Steps(MoveTo(u, 0, 0), u, rows, cols) BY <1>5, MoveToSteps, 0 \in Nat
<1>7. Region(rows, cols, MoveTo(u, 0, 0)) BY <1>5, <1>6, RegionKept
<1> QED BY <1>2, <1>7

LEMMA ModesKeep ==
    ASSUME NEW rows, NEW cols, NEW t, Region(rows, cols, t), NEW on \in BOOLEAN
    PROVE  /\ Region(rows, cols, [t EXCEPT !.autowrap = on, !.pending = on /\ @])
           /\ Region(rows, cols, [t EXCEPT !.insert = on])
           /\ Region(rows, cols, [Settled(t) EXCEPT !.sb = <<>>])
<1>1. t \in Emulator(rows, cols) BY RegionFacts
<1>2. PICK b : b = (on /\ t.pending) OBVIOUS
<1>3. b \in BOOLEAN BY <1>2
<1>4. PICK u, v : u = [t EXCEPT !.autowrap = on, !.pending = b] /\ v = [t EXCEPT !.insert = on] OBVIOUS
<1>5. u \in Emulator(rows, cols) /\ u.top = t.top /\ u.bot = t.bot BY <1>1, <1>3, <1>4 DEF Emulator
<1>6. v \in Emulator(rows, cols) /\ v.top = t.top /\ v.bot = t.bot BY <1>1, <1>4 DEF Emulator
<1>7. PICK s, w : s = Settled(t) /\ w = [s EXCEPT !.sb = <<>>] OBVIOUS
<1>8. Region(rows, cols, s) BY <1>7, SettledRegion
<1>9. s \in Emulator(rows, cols) BY <1>8, RegionFacts
<1>10. w \in Emulator(rows, cols) /\ w.top = s.top /\ w.bot = s.bot
  <2>1. <<>> \in Seq(Seq(Cells)) OBVIOUS
  <2> QED BY <1>7, <1>9, <2>1 DEF Emulator
<1>11. Region(rows, cols, u) /\ Region(rows, cols, v) /\ Region(rows, cols, w) BY <1>5, <1>6, <1>8, <1>10 DEF Region
<1> QED BY <1>2, <1>4, <1>7, <1>11

LEMMA ModesSame ==
    ASSUME NEW rows, NEW cols, NEW t, Region(rows, cols, t)
    PROVE  /\ t.autowrap => [t EXCEPT !.autowrap = TRUE, !.pending = TRUE /\ @] = t
           /\ ~t.insert => [t EXCEPT !.insert = FALSE] = t
<1>1. t \in Emulator(rows, cols) BY RegionFacts
<1>2. t.autowrap \in BOOLEAN /\ t.pending \in BOOLEAN /\ t.insert \in BOOLEAN BY <1>1 DEF Emulator
<1>3. PICK a, b, d : a = t.autowrap /\ b = t.pending /\ d = t.insert OBVIOUS
<1>4. t = [t EXCEPT !.autowrap = a, !.pending = b] /\ t = [t EXCEPT !.insert = d] BY <1>1, <1>3 DEF Emulator
<1>5. (TRUE /\ t.pending) = b BY <1>2, <1>3
<1>6. t.autowrap => a = TRUE BY <1>2, <1>3
<1>7. ~t.insert => d = FALSE BY <1>2, <1>3
<1> QED BY <1>4, <1>5, <1>6, <1>7

-----------------------------------------------------------------------------
(* The emulator in another size.                                            *)

(* The lines of the new size, and those that went off the top.              *)
LEMMA LinesPushed ==
    ASSUME NEW rows, NEW cols, NEW t, Region(rows, cols, t), NEW skip \in 0 .. rows
    PROVE  PushedOff(t, skip) \in Seq(Seq(Cells))
<1>1. /\ t \in Emulator(rows, cols) /\ rows \in Nat /\ cols \in Nat
  BY RegionFacts
<1>2. PICK sb, main : sb = t.sb /\ main = t.main OBVIOUS
<1>3. sb \in Seq(Seq(Cells)) /\ main \in Screen(rows, cols) BY <1>1, <1>2 DEF Emulator
<1>4. PICK one, k, p : one = 1 /\ k = skip /\ p = SubSeq(main, one, skip) OBVIOUS
<1>5. one \in Nat \ {0} /\ k \in Nat /\ k = skip - one + 1 BY <1>1, <1>4
<1>6. p \in Seq(Row(cols)) BY <1>1, <1>3, <1>4, <1>5, PartLength
<1>7. p \in Seq(Seq(Cells)) BY <1>1, <1>6, RowsAreCells
<1>8. PICK q : q = sb \o p OBVIOUS
<1>9. q \in Seq(Seq(Cells)) BY ONLY <1>3, <1>7, <1>8, OneAfter
<1>10. PushedOff(t, skip) = IF t.onAlt THEN sb ELSE q BY <1>2, <1>4, <1>8 DEF PushedOff
<1> QED BY <1>3, <1>9, <1>10

(* What the emulator is in another size.                                    *)
ResizedAs(u, t, high, wide, skip) ==
    /\ u.sb = PushedOff(t, skip) /\ u.main = ResizedCopy(t.main, high, wide, IF t.onAlt THEN 0 ELSE skip)
    /\ u.cy = Clamped(t.cy - skip, 0, high - 1) /\ u.cx = Smaller(t.cx, wide - 1) /\ u.pending = FALSE
    /\ u.top = 0 /\ u.bot = high - 1 /\ u.rows = high /\ u.cols = wide /\ u.onAlt = t.onAlt
    /\ u.insert = t.insert /\ u.autowrap = t.autowrap /\ u.savedMain = t.savedMain

LEMMA ResizedParts ==
    ASSUME NEW rows, NEW cols, NEW t, Region(rows, cols, t), NEW high \in Nat \ {0}, NEW wide \in Nat \ {0},
           NEW skip, skip = RowsLost(t, high), NEW u, u = Resized(t, high, wide)
    PROVE  Region(high, wide, u) /\ ResizedAs(u, t, high, wide, skip)
<1>1. /\ t \in Emulator(rows, cols) /\ rows \in Nat /\ rows > 0 /\ cols \in Nat /\ cols > 0
      /\ t.cx \in 0 .. cols - 1 /\ t.cy \in 0 .. rows - 1
  BY RegionFacts
<1>2. skip \in 0 .. rows /\ skip \in Nat BY <1>1 DEF RowsLost, Larger2
<1>3. PICK sb, main, alt, a, b, z, i, j : /\ sb = PushedOff(t, skip) /\ i = (IF t.onAlt THEN 0 ELSE skip)
          /\ j = (IF t.onAlt THEN skip ELSE 0)
          /\ main = ResizedCopy(t.main, high, wide, i) /\ alt = ResizedCopy(t.alt, high, wide, j)
          /\ a = Smaller(t.cx, wide - 1) /\ b = Clamped(t.cy - skip, 0, high - 1) /\ z = high - 1
  OBVIOUS
<1>4. u = [t EXCEPT !.rows = high, !.cols = wide, !.sb = sb, !.main = main, !.alt = alt, !.cy = b, !.cx = a,
                    !.pending = FALSE, !.top = 0, !.bot = z]
  BY <1>3, Zenon DEF Resized
<1>5. sb \in Seq(Seq(Cells)) BY <1>2, <1>3, LinesPushed
<1>6. main \in Screen(high, wide) /\ alt \in Screen(high, wide)
  <2>1. PICK m, n : m = t.main /\ n = t.alt OBVIOUS
  <2>2. m \in Screen(rows, cols) /\ n \in Screen(rows, cols) BY <1>1, <2>1 DEF Emulator
  <2>3. i \in Nat /\ j \in Nat /\ rows \in Nat \ {0} /\ high \in Nat /\ wide \in Nat BY <1>1, <1>2, <1>3
  <2>4. ResizedCopy(m, high, wide, i) \in Screen(high, wide) BY <1>1, <2>2, <2>3, CopyIsScreen
  <2>5. ResizedCopy(n, high, wide, j) \in Screen(high, wide) BY <1>1, <2>2, <2>3, CopyIsScreen
  <2> QED BY <1>3, <2>1, <2>4, <2>5
<1>7. a \in 0 .. wide - 1 BY <1>1, <1>3 DEF Smaller
<1>8. b \in 0 .. high - 1 BY <1>1, <1>2, <1>3 DEF Clamped, Smaller, Larger2
<1>9. 0 \in 0 .. high - 1 /\ z \in 0 .. high - 1 BY <1>3
<1>10. u \in Emulator(high, wide)
  <2>1. PICK v : v = [t EXCEPT !.cy = b, !.cx = a, !.pending = FALSE, !.top = 0, !.bot = z] OBVIOUS
  <2>2. u = [v EXCEPT !.rows = high, !.cols = wide, !.sb = sb, !.main = main, !.alt = alt] BY <1>1, <1>4, <2>1 DEF Emulator
  <2>3. PICK screens, spans, spots :
          screens = Screen(rows, cols) /\ spans = 0 .. wide - 1 /\ spots = 0 .. high - 1
    OBVIOUS
  <2>4. v \in [rows : {rows}, cols : {cols}, main : screens, alt : screens, onAlt : BOOLEAN,
               cx : spans, cy : spots, pending : BOOLEAN, top : spots, bot : spots,
               origin : BOOLEAN, autowrap : BOOLEAN, insert : BOOLEAN, savedMain : Place, savedAlt : Place,
               last : Chars \cup {"none"}, sb : Seq(Seq(Cells))]
    BY <1>1, <1>7, <1>8, <1>9, <2>1, <2>3 DEF Emulator
  <2>5. u \in [rows : {high}, cols : {wide}, main : Screen(high, wide), alt : Screen(high, wide), onAlt : BOOLEAN,
               cx : spans, cy : spots, pending : BOOLEAN, top : spots, bot : spots,
               origin : BOOLEAN, autowrap : BOOLEAN, insert : BOOLEAN, savedMain : Place, savedAlt : Place,
               last : Chars \cup {"none"}, sb : Seq(Seq(Cells))]
    BY <1>5, <1>6, <2>2, <2>4
  <2> QED BY <2>3, <2>5 DEF Emulator
<1>11. /\ u.sb = sb /\ u.main = main /\ u.cy = b /\ u.cx = a /\ u.pending = FALSE
       /\ u.top = 0 /\ u.bot = z /\ u.rows = high /\ u.cols = wide /\ u.onAlt = t.onAlt
       /\ u.insert = t.insert /\ u.autowrap = t.autowrap /\ u.savedMain = t.savedMain
  BY <1>1, <1>4 DEF Emulator
<1>12. Region(high, wide, u) BY <1>9, <1>10, <1>11 DEF Region
<1>13. ResizedAs(u, t, high, wide, skip) BY <1>3, <1>11 DEF ResizedAs
<1> QED BY <1>12, <1>13

(* A window as wide or wider, with no line left waiting to be wrapped, and  *)
(* with no fewer lines when it is the alternate screen that it shows.       *)
LEMMA ResizedText ==
    ASSUME NEW rows, NEW cols, NEW t, Region(rows, cols, t), NEW high \in Nat \ {0}, NEW wide \in Nat \ {0},
           NEW p, InOrder(t, p), cols <= wide, ~t.pending, t.onAlt => rows <= high
    PROVE  InOrder(Resized(t, high, wide), p)
<1>1. PICK skip, u : skip = RowsLost(t, high) /\ u = Resized(t, high, wide) OBVIOUS
<1>2. /\ u.sb = PushedOff(t, skip) /\ u.main = ResizedCopy(t.main, high, wide, IF t.onAlt THEN 0 ELSE skip)
      /\ u.cy = Clamped(t.cy - skip, 0, high - 1) /\ u.cx = Smaller(t.cx, wide - 1) /\ u.pending = FALSE
      /\ u.top = 0 /\ u.bot = high - 1 /\ u.rows = high /\ u.cols = wide /\ u.onAlt = t.onAlt
      /\ u.insert = t.insert /\ u.autowrap = t.autowrap /\ u.savedMain = t.savedMain
  <2>1. ResizedAs(u, t, high, wide, skip) BY <1>1, ResizedParts
  <2> QED BY <2>1 DEF ResizedAs
<1>3. /\ t \in Emulator(rows, cols) /\ rows \in Nat \ {0} /\ cols \in Nat \ {0} /\ t.rows = rows /\ t.cols = cols
      /\ t.cx \in 0 .. cols - 1 /\ t.cy \in 0 .. rows - 1
  BY RegionFacts
<1>4. PICK sb, main, y, x, e, k : /\ sb = t.sb /\ main = t.main /\ y = MainY(t) /\ x = MainX(t)
                                  /\ e = Ends(x, MainFull(t)) /\ k = Larger2(0, y - high + 1)
  OBVIOUS
<1>5. sb \in Seq(Seq(Cells)) /\ main \in Screen(rows, cols) BY <1>3, <1>4 DEF Emulator
<1>6. Held(sb, main, rows, cols, y, e, p) /\ x \in 0 .. cols - 1 /\ ~t.insert /\ t.autowrap BY <1>3, <1>4 DEF InOrder
<1>7. k \in 0 .. rows /\ y - k \in 0 .. high - 1
  BY ONLY <1>3, <1>4, <1>5, <1>6, cols <= wide, high \in Nat \ {0}, wide \in Nat \ {0}, HeldResized
<1>8. Held(sb \o SubSeq(main, 1, k), ResizedCopy(main, high, wide, k), high, wide, y - k, e, p)
  BY ONLY <1>3, <1>4, <1>5, <1>6, cols <= wide, high \in Nat \ {0}, wide \in Nat \ {0}, HeldResized
<1>9. y \in 0 .. rows - 1 BY <1>6 DEF Held
<1>10. CASE ~t.onAlt
  <2>1. y = t.cy /\ x = t.cx /\ MainFull(t) = t.pending BY <1>4, <1>10 DEF MainX, MainY, MainFull
  <2>2. k = skip BY <1>1, <1>4, <2>1 DEF RowsLost
  <2>3. u.sb = sb \o SubSeq(main, 1, k) /\ u.main = ResizedCopy(main, high, wide, k)
    BY <1>2, <1>4, <1>10, <2>2 DEF PushedOff
  <2>4. u.cy = y - k BY <1>2, <1>7, <2>1, <2>2 DEF Clamped, Smaller, Larger2
  <2>5. u.cx = x /\ x \in 0 .. wide - 1 BY <1>2, <1>3, <2>1 DEF Smaller
  <2>6. ~u.onAlt BY <1>2, <1>10
  <2>7. MainX(u) = x /\ MainY(u) = y - k BY <2>4, <2>5, <2>6 DEF MainX, MainY
  <2>8. Ends(MainX(u), MainFull(u)) = e BY <1>2, <1>4, <2>1, <2>6, <2>7 DEF Ends, MainFull
  <2>9. InOrder(u, p) BY <1>2, <1>6, <1>8, <2>3, <2>5, <2>7, <2>8 DEF InOrder
  <2> QED BY <1>1, <2>9
<1>11. CASE t.onAlt
  <2>1. k = 0
    <3>1. y - high + 1 <= 0 BY <1>3, <1>9, <1>11
    <3> QED BY <1>3, <1>4, <1>9, <3>1 DEF Larger2
  <2>2. u.sb = sb /\ u.main = ResizedCopy(main, high, wide, k) BY <1>2, <1>4, <1>11, <2>1 DEF PushedOff
  <2>3. sb \o SubSeq(main, 1, k) = sb
    <3>1. 1 \in Int /\ 0 \in Int /\ 0 < 1 OBVIOUS
    <3>2. SubSeq(main, 1, 0) = <<>> BY ONLY <3>1, SubSeqEmpty, Zenon
    <3>3. sb \o <<>> = sb BY <1>5, ConcatEmptySeq
    <3> QED BY <2>1, <3>2, <3>3
  <2>4. u.onAlt BY <1>2, <1>11
  <2>5. MainX(u) = x /\ MainY(u) = y /\ MainFull(u) = MainFull(t)
    BY <1>2, <1>4, <1>11, <2>4 DEF MainX, MainY, MainFull
  <2>6. y - k = y BY <1>9, <2>1
  <2>7. x \in 0 .. wide - 1 BY <1>3, <1>6
  <2>8. Held(sb, ResizedCopy(main, high, wide, k), high, wide, y, e, p) BY <1>8, <2>3, <2>6
  <2>9. InOrder(u, p) BY <1>2, <1>4, <1>6, <2>2, <2>5, <2>7, <2>8 DEF InOrder
  <2> QED BY <1>1, <2>9
<1> QED BY <1>10, <1>11

-----------------------------------------------------------------------------
(* The invariant of a terminal.                                             *)

(* The inductive invariant: the emulator is that of a screen of some size,  *)
(* and while only text went to the main screen, the text printed is all     *)
(* that its lines and those scrolled off hold, and ends at the cursor (at   *)
(* the place saved, while the alternate screen is shown). That nothing is   *)
(* after its end, that no half of a wide character is at the margin and     *)
(* that the modes are those of a new terminal is what the next character    *)
(* needs.                                                                   *)
TermInv == /\ \E rows, cols : Region(rows, cols, term)
           /\ ~RESIZES_ALWAYS /\ onlyText => InOrder(term, printed)

(* A new terminal holds no text.                                            *)
LEMMA NewText ==
    ASSUME NEW rows \in Nat \ {0}, NEW cols \in Nat \ {0}
    PROVE  Region(rows, cols, NewTerm(rows, cols)) /\ InOrder(NewTerm(rows, cols), <<>>)
<1>1. PICK s, t, b : s = NewScreen(rows, cols) /\ t = NewTerm(rows, cols) /\ b = rows - 1 OBVIOUS
<1>2. s \in Screen(rows, cols) /\ rows \in Nat /\ cols \in Nat BY <1>1, NewIsScreen
<1>3. AtHome \in Place BY DEF AtHome, Place
<1>4. 0 \in 0 .. cols - 1 /\ 0 \in 0 .. b /\ b \in 0 .. b BY <1>1
<1>5. t = [rows |-> rows, cols |-> cols, main |-> s, alt |-> s,
           onAlt |-> FALSE, cx |-> 0, cy |-> 0, pending |-> FALSE, top |-> 0, bot |-> b,
           origin |-> FALSE, autowrap |-> TRUE, insert |-> FALSE,
           savedMain |-> AtHome, savedAlt |-> AtHome, last |-> "none", sb |-> <<>>]
  BY <1>1, Zenon DEF NewTerm
<1>6. t \in Emulator(rows, cols)
  <2>1. <<>> \in Seq(Seq(Cells)) OBVIOUS
  <2> QED BY <1>1, <1>2, <1>3, <1>4, <1>5, <2>1 DEF Emulator
<1>7. /\ t.rows = rows /\ t.cols = cols /\ t.main = s /\ t.sb = <<>> /\ t.onAlt = FALSE /\ t.cx = 0 /\ t.cy = 0
      /\ t.pending = FALSE /\ t.top = 0 /\ t.bot = b /\ t.autowrap = TRUE /\ t.insert = FALSE
  BY <1>5
<1>8. Region(rows, cols, t) BY <1>4, <1>6, <1>7 DEF Region
<1>9. Characters(<<>> \o s) = <<>>
  <2>1. s \in Seq(Seq(Cells)) /\ Len(s) = rows BY <1>2, ScreenIsLines, ScreenParts
  <2>2. PICK e : e = <<>> OBVIOUS
  <2>3. e \in Seq(Seq(Cells)) /\ Len(e) = 0 /\ 0 \in Nat BY <2>2
  <2>4. \A y \in 1 .. Len(s) : TextOf(s[y]) = <<>>
    <3> TAKE y \in 1 .. Len(s)
    <3>1. y \in 1 .. rows BY <2>1
    <3>2. PICK r : r = BlankRow(cols) OBVIOUS
    <3>3. s[y] = r BY <1>1, <3>1, <3>2 DEF NewScreen
    <3>4. r \in Row(cols) BY <1>2, <3>2, BlankIsRow
    <3>5. r \in Seq(Cells) /\ Len(r) = cols BY <1>2, <3>4, RowParts
    <3>6. Without(r) BY <3>2, <3>5 DEF Without, BlankRow
    <3> QED BY <3>3, <3>5, <3>6, BlankText
  <2>5. PICK q : q = RowTexts(e) OBVIOUS
  <2>6. q \in Seq(Seq(Chars)) /\ Len(q) = 0 BY <2>3, <2>5, RowTextsType
  <2>7. Chained(q) = <<>>
    <3>1. \A i \in 1 .. Len(q) : q[i] = <<>> BY <2>6
    <3> QED BY <2>6, <3>1, ChainedNothing
  <2>8. Characters(e) = <<>> BY <2>5, <2>7 DEF Characters, RowTexts
  <2>9. Characters(s) = Characters(e)
    <3>1. 0 <= Len(s) /\ 0 <= Len(e) BY <1>2, <2>1, <2>3
    <3>2. \A y \in 1 .. 0 : TextOf(s[y]) = TextOf(e[y]) OBVIOUS
    <3>3. \A y \in 0 + 1 .. Len(s) : TextOf(s[y]) = <<>> BY <2>4
    <3>4. \A y \in 0 + 1 .. Len(e) : TextOf(e[y]) = <<>> BY <2>3
    <3> QED BY <2>1, <2>3, <3>1, <3>2, <3>3, <3>4, SameCharacters
  <2>10. <<>> \o s = s BY <2>1, ConcatEmptySeq
  <2> QED BY <2>8, <2>9, <2>10
<1>10. BlankAfter(s, rows, cols, 0, 0) /\ NothingCut(s, rows, cols)
  BY <1>1 DEF BlankAfter, NothingCut, NewScreen, BlankRow
<1>11. Held(<<>>, s, rows, cols, 0, 0, <<>>)
  <2>1. 0 \in 0 .. rows - 1 /\ 0 \in 0 .. cols OBVIOUS
  <2> QED BY <1>9, <1>10, <2>1 DEF Held
<1>12. MainX(t) = 0 /\ MainY(t) = 0 /\ Ends(MainX(t), MainFull(t)) = 0 BY <1>7 DEF MainX, MainY, MainFull, Ends
<1>13. InOrder(t, <<>>) BY <1>1, <1>4, <1>7, <1>11, <1>12 DEF InOrder
<1> QED BY <1>1, <1>8, <1>13

LEMMA TermInvInit == TermInit => TermInv
<1> SUFFICES ASSUME TermInit PROVE TermInv OBVIOUS
<1>1. PICK s \in ScreenSizes : term = NewTerm(s[1], s[2]) BY DEF TermInit
<1>2. PICK a, b : a = s[1] /\ b = s[2] OBVIOUS
<1>3. a \in Nat \ {0} /\ b \in Nat \ {0} BY <1>2, TerminalAssumption
<1>4. Region(a, b, NewTerm(a, b)) /\ InOrder(NewTerm(a, b), <<>>) BY <1>3, NewText
<1> QED BY <1>1, <1>2, <1>4 DEF TermInit, TermInv

(* A sequence that keeps the screen's size and the scrolling region.        *)
LEMMA SentSteps ==
    ASSUME NEW rows, NEW cols, TermInv, Region(rows, cols, term), NEW u, NEW still, Sends(u, still), Steps(u, term, rows, cols),
           still => term.onAlt
    PROVE  TermInv'
<1>1. Region(rows, cols, u) BY RegionKept
<1>2. term' = u /\ printed' = printed /\ onlyText' = (onlyText /\ still) BY DEF Sends
<1>3. ASSUME ~RESIZES_ALWAYS, onlyText' PROVE InOrder(u, printed)
  <2>1. onlyText /\ still BY <1>2, <1>3
  <2>2. InOrder(term, printed) BY <1>3, <2>1 DEF TermInv
  <2>3. term \in Emulator(rows, cols) BY RegionFacts
  <2> QED BY <2>1, <2>2, <2>3, AltInOrder
<1> QED BY <1>1, <1>2, <1>3 DEF TermInv

(* Any sequence, by what it does to the text.                               *)
LEMMA SentKeeps ==
    ASSUME NEW rows, NEW cols, TermInv, NEW u, NEW still, Sends(u, still), Region(rows, cols, u),
           still /\ ~RESIZES_ALWAYS => \A p : InOrder(term, p) => InOrder(u, p)
    PROVE  TermInv'
<1>2. term' = u /\ printed' = printed /\ onlyText' = (onlyText /\ still) BY DEF Sends
<1>3. ASSUME ~RESIZES_ALWAYS, onlyText' PROVE InOrder(u, printed)
  <2>1. onlyText /\ still BY <1>2, <1>3
  <2>2. InOrder(term, printed) BY <1>3, <2>1 DEF TermInv
  <2> QED BY <1>3, <2>1, <2>2
<1> QED BY <1>2, <1>3 DEF TermInv

(* A new line or a line feed where the text ends.                           *)
LEMMA LineAfterText ==
    ASSUME NEW rows, NEW cols, NEW t, Region(rows, cols, t), NEW p, InOrder(t, p)
    PROVE  InOrder(Settled(IndexLine([t EXCEPT !.cx = 0])), p) /\ InOrder(Settled(IndexLine(t)), p)
<1>1. PICK u, v, a, b : /\ u = IndexLine([t EXCEPT !.cx = 0]) /\ v = IndexLine(t)
                        /\ a = Settled(u) /\ b = Settled(v)
  OBVIOUS
<1>2. Steps(u, t, rows, cols) /\ Steps(v, t, rows, cols) BY <1>1, ToMargin, IndexLineSteps
<1>3. Region(rows, cols, u) /\ Region(rows, cols, v) BY <1>2, RegionKept
<1>4. Steps(a, t, rows, cols) /\ Steps(b, t, rows, cols) BY <1>1, <1>2, SettledAfter
<1>5. Region(rows, cols, a) /\ Region(rows, cols, b) BY <1>4, RegionKept
<1>6. t \in Emulator(rows, cols) /\ cols \in Nat /\ cols > 0 /\ t.cx \in 0 .. cols - 1 BY RegionFacts
<1>7. CASE t.onAlt
  <2>1. InOrder(a, p) /\ InOrder(b, p) BY <1>4, <1>6, <1>7, AltInOrder
  <2> QED BY <1>1, <2>1
<1>8. CASE ~t.onAlt
  <2>1. OnMain(t) /\ Text(t, Ends(t.cx, t.pending), p) BY <1>8, MainInOrder
  <2>2. PICK x, y, m : x = t.cx /\ y = 0 /\ m = Ends(t.cx, t.pending) OBVIOUS
  <2>3. x \in 0 .. cols /\ y \in 0 .. cols BY <1>6, <2>2
  <2>4. u.cx = y /\ Text(u, y, p) BY <1>1, <2>1, <2>2, <2>3, MarginText
  <2>5. v.cx = x /\ Text(v, x, p) BY <1>1, <2>1, <2>2, <2>3, IndexedText
  <2>6. u \in Emulator(rows, cols) /\ v \in Emulator(rows, cols) BY <1>3, RegionFacts
  <2>7. /\ a.sb = u.sb /\ a.main = u.main /\ a.rows = u.rows /\ a.cols = u.cols /\ a.cy = u.cy /\ a.cx = u.cx
        /\ a.pending = FALSE
    BY <1>1, <2>6 DEF Settled, Emulator
  <2>8. /\ b.sb = v.sb /\ b.main = v.main /\ b.rows = v.rows /\ b.cols = v.cols /\ b.cy = v.cy /\ b.cx = v.cx
        /\ b.pending = FALSE
    BY <1>1, <2>6 DEF Settled, Emulator
  <2>9. Ends(a.cx, a.pending) = y /\ Ends(b.cx, b.pending) = x BY <2>3, <2>4, <2>5, <2>7, <2>8 DEF Ends
  <2>10. Text(a, Ends(a.cx, a.pending), p) BY <2>4, <2>7, <2>9 DEF Text
  <2>11. Text(b, Ends(b.cx, b.pending), p) BY <2>5, <2>8, <2>9 DEF Text
  <2>12. OnMain(a) /\ OnMain(b) BY <1>4, <1>6, <2>1, OnMainKept
  <2>13. ~a.onAlt /\ ~b.onAlt BY <2>12 DEF OnMain
  <2>14. InOrder(a, p) BY <1>5, <2>10, <2>12, <2>13, MainInOrder
  <2>15. InOrder(b, p) BY <1>5, <2>11, <2>12, <2>13, MainInOrder
  <2> QED BY <1>1, <2>14, <2>15
<1> QED BY <1>7, <1>8

LEMMA TextPrinted ==
    ASSUME NEW rows, NEW cols, NEW t, Region(rows, cols, t), NEW p, InOrder(t, p), NEW c \in Chars
    PROVE  InOrder(PutChar(t, c), IF t.onAlt THEN p ELSE Append(p, c))
<1>1. Steps(PutChar(t, c), t, rows, cols) /\ t \in Emulator(rows, cols) BY PutCharSteps, RegionFacts
<1>2. CASE t.onAlt BY <1>1, <1>2, AltInOrder
<1>3. CASE ~t.onAlt
  <2>1. OnMain(t) /\ Text(t, Ends(t.cx, t.pending), p) BY <1>3, MainInOrder
  <2>2. PICK e : e = PutChar(t, c) OBVIOUS
  <2>3. OnMain(e) /\ Text(e, Ends(e.cx, e.pending), Append(p, c)) BY <2>1, <2>2, PutCharText
  <2>4. Region(rows, cols, e) BY <1>1, <2>2, RegionKept
  <2>5. InOrder(e, Append(p, c)) BY <2>3, <2>4, MainInOrder DEF OnMain
  <2> QED BY <1>3, <2>2, <2>5
<1> QED BY <1>2, <1>3

-----------------------------------------------------------------------------
(* Every sequence and command keeps it.                                     *)

LEMMA TermInvNext == TermInv /\ [TermNext]_termVars => TermInv'
<1> SUFFICES ASSUME TermInv, [TermNext]_termVars PROVE TermInv' OBVIOUS
<1>0. PICK rows, cols : Region(rows, cols, term) BY DEF TermInv
<1>1. CASE PutText
  <2>1. PICK c \in {"a", "W"} : /\ term' = PutChar(term, c)
                                /\ printed' = IF term.onAlt THEN printed ELSE Append(printed, c)
                                /\ onlyText' = onlyText
    BY <1>1 DEF PutText
  <2>2. c \in Chars BY DEF Chars
  <2>3. Steps(PutChar(term, c), term, rows, cols) BY <1>0, <2>2, PutCharSteps
  <2>4. Region(rows, cols, PutChar(term, c)) BY <1>0, <2>3, RegionKept
  <2>5. ASSUME ~RESIZES_ALWAYS, onlyText PROVE InOrder(term', printed')
    <3>1. InOrder(term, printed) BY <2>5 DEF TermInv
    <3>2. InOrder(PutChar(term, c), IF term.onAlt THEN printed ELSE Append(printed, c))
      BY <1>0, <2>2, <3>1, TextPrinted
    <3> QED BY <2>1, <3>2
  <2> QED BY <2>1, <2>4, <2>5 DEF TermInv
<1>2. CASE NewLine
  <2>1. PICK u : u = Settled(IndexLine([term EXCEPT !.cx = 0])) OBVIOUS
  <2>2. Sends(u, TRUE) BY <1>2, <2>1 DEF NewLine
  <2>3. Steps(u, term, rows, cols) BY <1>0, <2>1, ReverseLineSteps
  <2>4. Region(rows, cols, u) BY <1>0, <2>3, RegionKept
  <2>5. \A p : InOrder(term, p) => InOrder(u, p) BY <1>0, <2>1, LineAfterText
  <2> QED BY <2>2, <2>4, <2>5, SentKeeps
<1>3. CASE LineFeed
  <2>1. PICK u : u = Settled(IndexLine(term)) OBVIOUS
  <2>2. Sends(u, TRUE) BY <1>3, <2>1 DEF LineFeed
  <2>3. Steps(u, term, rows, cols) BY <1>0, <2>1, ReverseLineSteps
  <2>4. Region(rows, cols, u) BY <1>0, <2>3, RegionKept
  <2>5. \A p : InOrder(term, p) => InOrder(u, p) BY <1>0, <2>1, LineAfterText
  <2> QED BY <2>2, <2>4, <2>5, SentKeeps
<1>4. CASE Return
  <2>1. PICK u : u = [Settled(term) EXCEPT !.cx = 0] OBVIOUS
  <2>2. Sends(u, term.onAlt) BY <1>4, <2>1 DEF Return
  <2>3. Steps(u, term, rows, cols) BY <1>0, <2>1, ReturnSteps
  <2> QED BY <1>0, <2>2, <2>3, SentSteps
<1>5. CASE ReverseLine
  <2>1. PICK u : u = Settled(ReverseIndex(term)) OBVIOUS
  <2>2. Sends(u, term.onAlt) BY <1>5, <2>1 DEF ReverseLine
  <2>3. Steps(u, term, rows, cols) BY <1>0, <2>1, ReverseLineSteps
  <2> QED BY <1>0, <2>2, <2>3, SentSteps
<1>6. CASE RepeatLast
  <2>1. PICK u : u = PutChar(PutChar(term, term.last), term.last) OBVIOUS
  <2>2. term.last # "none" /\ Sends(u, term.onAlt) BY <1>6, <2>1 DEF RepeatLast
  <2>3. Steps(u, term, rows, cols) BY <1>0, <2>1, <2>2, RepeatSteps
  <2> QED BY <1>0, <2>2, <2>3, SentSteps
<1>7. CASE CursorTo
  <2>1. PICK y \in 0 .. term.rows - 1, x \in 0 .. term.cols - 1 : Sends(MoveTo(term, y, x), term.onAlt)
    BY <1>7 DEF CursorTo
  <2>2. y \in Nat /\ x \in Nat
    <3>1. term.rows \in Nat /\ term.cols \in Nat BY <1>0, RegionFacts
    <3> QED BY <3>1
  <2>3. Steps(MoveTo(term, y, x), term, rows, cols) BY <1>0, <2>2, MoveToSteps
  <2> QED BY <1>0, <2>1, <2>3, SentSteps
<1>8. CASE CursorUp
  <2>1. PICK u : u = [Settled(term) EXCEPT !.cy = Larger2(@ - 1, IF @ >= term.top THEN term.top ELSE 0)] OBVIOUS
  <2>2. Sends(u, term.onAlt) BY <1>8, <2>1 DEF CursorUp
  <2>3. Steps(u, term, rows, cols) BY <1>0, <2>1, UpSteps
  <2> QED BY <1>0, <2>2, <2>3, SentSteps
<1>9. CASE CursorDown
  <2>1. PICK u : u = [Settled(term) EXCEPT !.cy = Smaller(@ + 1, IF @ <= term.bot THEN term.bot ELSE term.rows - 1)]
    OBVIOUS
  <2>2. Sends(u, term.onAlt) BY <1>9, <2>1 DEF CursorDown
  <2>3. Steps(u, term, rows, cols) BY <1>0, <2>1, DownSteps
  <2> QED BY <1>0, <2>2, <2>3, SentSteps
<1>10. CASE CursorForward
  <2>1. PICK u : u = [Settled(term) EXCEPT !.cx = Smaller(@ + 1, term.cols - 1)] OBVIOUS
  <2>2. Sends(u, term.onAlt) BY <1>10, <2>1 DEF CursorForward
  <2>3. Steps(u, term, rows, cols) BY <1>0, <2>1, SidewaysSteps
  <2> QED BY <1>0, <2>2, <2>3, SentSteps
<1>11. CASE CursorBack
  <2>1. PICK u : u = [Settled(term) EXCEPT !.cx = Larger2(@ - 1, 0)] OBVIOUS
  <2>2. Sends(u, term.onAlt) BY <1>11, <2>1 DEF CursorBack
  <2>3. Steps(u, term, rows, cols) BY <1>0, <2>1, SidewaysSteps
  <2> QED BY <1>0, <2>2, <2>3, SentSteps
<1>12. CASE NextLine
  <2>1. PICK u : u = [Settled(term) EXCEPT !.cy = Smaller(@ + 1, term.bot), !.cx = 0] OBVIOUS
  <2>2. Sends(u, term.onAlt) BY <1>12, <2>1 DEF NextLine
  <2>3. Steps(u, term, rows, cols) BY <1>0, <2>1, NextLineSteps
  <2> QED BY <1>0, <2>2, <2>3, SentSteps
<1>13. CASE PreviousLine
  <2>1. PICK u : u = [Settled(term) EXCEPT !.cy = Larger2(@ - 1, term.top), !.cx = 0] OBVIOUS
  <2>2. Sends(u, term.onAlt) BY <1>13, <2>1 DEF PreviousLine
  <2>3. Steps(u, term, rows, cols) BY <1>0, <2>1, NextLineSteps
  <2> QED BY <1>0, <2>2, <2>3, SentSteps
<1>14. CASE EraseScreen
  <2>1. PICK a, b, e, f, g : /\ a = Erased(term, term.cy, term.cx, term.cols) /\ b = Erased(term, term.cy, 0, term.cx + 1)
                             /\ e = Settled(ErasedRows(a, term.cy + 1, term.rows))
                             /\ f = Settled(ErasedRows(b, 0, term.cy - 1))
                             /\ g = Settled(ErasedRows(term, 0, term.rows))
    OBVIOUS
  <2>2. Sends(e, term.onAlt) \/ Sends(f, term.onAlt) \/ Sends(g, term.onAlt)
    <3>1. PICK how \in 0 .. 2 :
            Sends(Settled(CASE how = 0 -> ErasedRows(a, term.cy + 1, term.rows)
                            [] how = 1 -> ErasedRows(b, 0, term.cy - 1)
                            [] how = 2 -> ErasedRows(term, 0, term.rows)), term.onAlt)
      BY <1>14, <2>1, Zenon DEF EraseScreen
    <3>2. how = 0 \/ how = 1 \/ how = 2 OBVIOUS
    <3>3. CASE how = 0 BY <2>1, <3>1, <3>3
    <3>4. CASE how = 1 BY <2>1, <3>1, <3>4
    <3>5. CASE how = 2 BY <2>1, <3>1, <3>5
    <3> QED BY <3>2, <3>3, <3>4, <3>5
  <2>3. Steps(a, term, rows, cols) /\ Steps(b, term, rows, cols) /\ Steps(term, term, rows, cols)
    BY <1>0, <2>1, LineErased, RegionFacts, StepsNot
  <2>4. Steps(e, term, rows, cols) BY <1>0, <2>1, <2>3, LinesErased
  <2>5. Steps(f, term, rows, cols) BY <1>0, <2>1, <2>3, LinesErased
  <2>6. Steps(g, term, rows, cols) BY <1>0, <2>1, <2>3, LinesErased
  <2> QED BY <1>0, <2>2, <2>4, <2>5, <2>6, SentSteps
<1>15. CASE EraseLine
  <2>1. PICK how, x0, x1 :
          /\ how \in 0 .. 2 /\ x0 = (IF how = 0 THEN term.cx ELSE 0) /\ x1 = (IF how = 1 THEN term.cx + 1 ELSE term.cols)
          /\ Sends(Settled(Erased(term, term.cy, x0, x1)), term.onAlt)
    BY <1>15 DEF EraseLine
  <2>2. PICK u : u = Settled(Erased(term, term.cy, x0, x1)) OBVIOUS
  <2>3. Steps(u, term, rows, cols) BY <1>0, <2>2, LineErased
  <2> QED BY <1>0, <2>1, <2>2, <2>3, SentSteps
<1>16. CASE EraseCharacters
  <2>1. PICK n \in 1 .. 2 : Sends(Settled(Erased(term, term.cy, term.cx, term.cx + n)), term.onAlt)
    BY <1>16 DEF EraseCharacters
  <2>2. PICK u : u = Settled(Erased(term, term.cy, term.cx, term.cx + n)) OBVIOUS
  <2>3. Steps(u, term, rows, cols) BY <1>0, <2>2, LineErased
  <2> QED BY <1>0, <2>1, <2>2, <2>3, SentSteps
<1>17. CASE InsertCharacters
  <2>1. PICK k, n, r, u :
          /\ k \in 1 .. 2 /\ n = Smaller(k, term.cols - term.cx) /\ r = Rows(term)[term.cy + 1]
          /\ u = Settled(WithRow(term, term.cy, SubSeq(r, 1, term.cx) \o BlankRow(n)
                                                  \o SubSeq(r, term.cx + 1, term.cols - n)))
          /\ Sends(u, term.onAlt)
    BY <1>17, Zenon DEF InsertCharacters
  <2>2. k \in Nat BY <2>1
  <2>3. Steps(u, term, rows, cols) BY <1>0, <2>1, <2>2, ShiftedSteps
  <2> QED BY <1>0, <2>1, <2>3, SentSteps
<1>18. CASE DeleteCharacters
  <2>1. PICK k, n, r, u :
          /\ k \in 1 .. 2 /\ n = Smaller(k, term.cols - term.cx) /\ r = Rows(term)[term.cy + 1]
          /\ u = Settled(WithRow(term, term.cy, SubSeq(r, 1, term.cx) \o SubSeq(r, term.cx + n + 1, term.cols)
                                                  \o BlankRow(n)))
          /\ Sends(u, term.onAlt)
    BY <1>18, Zenon DEF DeleteCharacters
  <2>2. k \in Nat BY <2>1
  <2>3. Steps(u, term, rows, cols) BY <1>0, <2>1, <2>2, ShiftedSteps
  <2> QED BY <1>0, <2>1, <2>3, SentSteps
<1>19. CASE InsertLines
  <2>1. PICK u : u = IF InRegion(term) THEN Settled([ScrollDown(term, term.cy, term.bot, 1) EXCEPT !.cx = 0])
                     ELSE Settled(term)
    OBVIOUS
  <2>2. Sends(u, term.onAlt) BY <1>19, <2>1 DEF InsertLines
  <2>3. Steps(u, term, rows, cols) BY <1>0, <2>1, LinesSteps, SettledRegion
  <2> QED BY <1>0, <2>2, <2>3, SentSteps
<1>20. CASE DeleteLines
  <2>1. PICK u : u = IF InRegion(term) THEN Settled([ScrollUp(term, term.cy, term.bot, 1, TRUE) EXCEPT !.cx = 0])
                     ELSE Settled(term)
    OBVIOUS
  <2>2. Sends(u, term.onAlt) BY <1>20, <2>1 DEF DeleteLines
  <2>3. Steps(u, term, rows, cols) BY <1>0, <2>1, LinesSteps, SettledRegion
  <2> QED BY <1>0, <2>2, <2>3, SentSteps
<1>21. CASE ScrollScreen
  <2>1. PICK u : u = ScrollUp(term, term.top, term.bot, 1, FALSE) OBVIOUS
  <2>2. Sends(u, term.onAlt) BY <1>21, <2>1 DEF ScrollScreen
  <2>3. Steps(u, term, rows, cols) BY <1>0, <2>1, ScreenSteps
  <2> QED BY <1>0, <2>2, <2>3, SentSteps
<1>22. CASE ScrollBack
  <2>1. PICK u : u = ScrollDown(term, term.top, term.bot, 1) OBVIOUS
  <2>2. Sends(u, term.onAlt) BY <1>22, <2>1 DEF ScrollBack
  <2>3. Steps(u, term, rows, cols) BY <1>0, <2>1, ScreenSteps
  <2> QED BY <1>0, <2>2, <2>3, SentSteps
<1>23. CASE ForgetScrolled
  <2>1. PICK u : u = [Settled(term) EXCEPT !.sb = <<>>] OBVIOUS
  <2>2. Sends(u, FALSE) BY <1>23, <2>1 DEF ForgetScrolled
  <2>3. Region(rows, cols, u) BY <1>0, <2>1, ModesKeep, FALSE \in BOOLEAN
  <2> QED BY <2>2, <2>3, SentKeeps
<1>24. CASE SetRegion
  <2>1. PICK top \in 0 .. term.rows - 1, bot \in 0 .. term.rows - 1 :
          top < bot /\ Sends(MoveTo([term EXCEPT !.top = top, !.bot = bot], 0, 0), FALSE)
    BY <1>24 DEF SetRegion
  <2>2. PICK u : u = MoveTo([term EXCEPT !.top = top, !.bot = bot], 0, 0) OBVIOUS
  <2>3. Region(rows, cols, u) BY <1>0, <2>1, <2>2, SetRegionKeeps
  <2> QED BY <2>1, <2>2, <2>3, SentKeeps
<1>25. CASE SetOrigin
  <2>1. PICK on \in BOOLEAN : Sends(MoveTo([term EXCEPT !.origin = on], 0, 0), FALSE) BY <1>25 DEF SetOrigin
  <2>2. PICK u : u = MoveTo([term EXCEPT !.origin = on], 0, 0) OBVIOUS
  <2>3. Region(rows, cols, u) BY <1>0, <2>2, SetOriginKeeps
  <2> QED BY <2>1, <2>2, <2>3, SentKeeps
<1>26. CASE SetAutowrap
  <2>1. PICK on, u, still :
          /\ on \in BOOLEAN /\ u = [term EXCEPT !.autowrap = on, !.pending = on /\ @] /\ still = (on /\ term.autowrap)
          /\ Sends(u, still)
    BY <1>26 DEF SetAutowrap
  <2>2. Region(rows, cols, u) BY <1>0, <2>1, ModesKeep
  <2>3. ASSUME still PROVE u = term
    <3>1. on = TRUE /\ term.autowrap BY <2>1, <2>3
    <3> QED BY <1>0, <2>1, <3>1, ModesSame
  <2> QED BY <2>1, <2>2, <2>3, SentKeeps
<1>27. CASE SetInsert
  <2>1. PICK on, u, still :
          /\ on \in BOOLEAN /\ u = [term EXCEPT !.insert = on] /\ still = (~on /\ ~term.insert) /\ Sends(u, still)
    BY <1>27 DEF SetInsert
  <2>2. Region(rows, cols, u) BY <1>0, <2>1, ModesKeep
  <2>3. ASSUME still PROVE u = term
    <3>1. on = FALSE /\ ~term.insert BY <2>1, <2>3
    <3> QED BY <1>0, <2>1, <3>1, ModesSame
  <2> QED BY <2>1, <2>2, <2>3, SentKeeps
<1>28. CASE Save
  <2>1. PICK u : u = SaveCursor(term) OBVIOUS
  <2>2. Sends(u, TRUE) BY <1>28, <2>1 DEF Save
  <2>3. Region(rows, cols, u) /\ \A p : InOrder(term, p) => InOrder(u, p) BY <1>0, <2>1, SaveKeeps
  <2> QED BY <2>2, <2>3, SentKeeps
<1>29. CASE Restore
  <2>1. PICK u : u = RestoreCursor(term) OBVIOUS
  <2>2. Sends(u, FALSE) BY <1>29, <2>1 DEF Restore
  <2>3. Region(rows, cols, u) BY <1>0, <2>1, RestoreKeeps
  <2> QED BY <2>2, <2>3, SentKeeps
<1>30. CASE SwitchScreen
  <2>1. PICK on \in BOOLEAN : Sends(SetAlternate(term, on, on), FALSE) BY <1>30 DEF SwitchScreen
  <2>2. PICK u : u = SetAlternate(term, on, on) OBVIOUS
  <2>3. Region(rows, cols, u) BY <1>0, <2>2, AlternateKeeps
  <2> QED BY <2>1, <2>2, <2>3, SentKeeps
<1>31. CASE EnterAlternate
  <2>1. PICK u, v : u = SaveCursor(term) /\ v = SetAlternate(u, TRUE, TRUE) OBVIOUS
  <2>2. Sends(v, ~term.onAlt) BY <1>31, <2>1 DEF EnterAlternate
  <2>3. Region(rows, cols, u) BY <1>0, <2>1, SaveKeeps
  <2>4. Region(rows, cols, v) BY <2>1, <2>3, AlternateKeeps, TRUE \in BOOLEAN
  <2>5. ~term.onAlt => \A p : InOrder(term, p) => InOrder(v, p) BY <1>0, <2>1, EnterKeeps
  <2> QED BY <2>2, <2>4, <2>5, SentKeeps
<1>32. CASE LeaveAlternate
  <2>1. PICK u, v : u = SetAlternate(term, FALSE, FALSE) /\ v = RestoreCursor(u) OBVIOUS
  <2>2. Sends(v, term.onAlt) BY <1>32, <2>1 DEF LeaveAlternate
  <2>3. Region(rows, cols, u) BY <1>0, <2>1, AlternateKeeps, FALSE \in BOOLEAN
  <2>4. Region(rows, cols, v) BY <2>1, <2>3, RestoreKeeps
  <2>5. term.onAlt => \A p : InOrder(term, p) => InOrder(v, p) BY <1>0, <2>1, LeaveKeeps
  <2> QED BY <2>2, <2>4, <2>5, SentKeeps
<1>33. CASE SoftReset
  <2>1. PICK u : u = Reset(term) OBVIOUS
  <2>2. Sends(u, FALSE) BY <1>33, <2>1 DEF SoftReset
  <2>3. Region(rows, cols, u) BY <1>0, <2>1, ResetKeeps
  <2> QED BY <2>2, <2>3, SentKeeps
<1>34. CASE FullReset
  <2>1. PICK u : u = ErasedRows(Reset(term), 0, term.rows) OBVIOUS
  <2>2. Sends(u, FALSE) BY <1>34, <2>1 DEF FullReset
  <2>3. Region(rows, cols, u) BY <1>0, <2>1, ResetKeeps
  <2> QED BY <2>2, <2>3, SentKeeps
<1>35. CASE ChangeSize
  <2>1. PICK s \in ScreenSizes :
          /\ term.pending \/ (term.onAlt /\ s[1] < term.rows) => RESIZES_ALWAYS
          /\ Sends(Resized(term, s[1], s[2]), s[2] >= term.cols)
    BY <1>35 DEF ChangeSize
  <2>2. PICK high, wide, u, still : /\ high = s[1] /\ wide = s[2] /\ u = Resized(term, high, wide)
                                    /\ still = (wide >= term.cols)
    OBVIOUS
  <2>3. high \in Nat \ {0} /\ wide \in Nat \ {0} BY <2>2, TerminalAssumption
  <2>4. Sends(u, still) BY <2>1, <2>2
  <2>5. Region(high, wide, u) BY <1>0, <2>2, <2>3, ResizedParts
  <2>6. ASSUME still, ~RESIZES_ALWAYS, NEW p, InOrder(term, p) PROVE InOrder(u, p)
    <3>1. term.rows = rows /\ term.cols = cols /\ rows \in Nat /\ cols \in Nat BY <1>0, RegionFacts
    <3>2. cols <= wide BY <2>2, <2>3, <2>6, <3>1
    <3>3. ~term.pending /\ ~(term.onAlt /\ high < rows) BY <2>1, <2>2, <2>6, <3>1
    <3>4. term.onAlt => rows <= high BY <2>3, <3>1, <3>3
    <3> QED BY <1>0, <2>2, <2>3, <2>6, <3>2, <3>3, <3>4, ResizedText
  <2> QED BY <2>4, <2>5, <2>6, SentKeeps
<1>36. CASE UNCHANGED <<term, printed, onlyText>>
  BY <1>36 DEF TermInv
<1>37. ASSUME TermMode \/ UNCHANGED termVars PROVE UNCHANGED <<term, printed, onlyText>>
  BY <1>37 DEF TermMode, termVars
<1> QED
  BY <1>1, <1>2, <1>3, <1>4, <1>5, <1>6, <1>7, <1>8, <1>9, <1>10, <1>11, <1>12, <1>13, <1>14, <1>15, <1>16, <1>17,
     <1>18, <1>19, <1>20, <1>21, <1>22, <1>23, <1>24, <1>25, <1>26, <1>27, <1>28, <1>29, <1>30, <1>31, <1>32, <1>33,
     <1>34, <1>35, <1>36, <1>37 DEF TermNext

LEMMA RegionIsSound == ASSUME NEW rows, NEW cols, Region(rows, cols, term) PROVE ScreenSound
<1>1. /\ term \in Emulator(rows, cols) /\ rows \in Nat /\ cols \in Nat /\ term.rows = rows /\ term.cols = cols
      /\ term.cx \in 0 .. cols - 1 /\ term.cy \in 0 .. rows - 1
      /\ term.top \in Nat /\ term.top <= term.bot /\ term.bot < rows
  BY RegionFacts
<1>2. term.main \in Screen(rows, cols) /\ term.alt \in Screen(rows, cols) BY <1>1 DEF Emulator
<1>3. ASSUME NEW s \in Screen(rows, cols) PROVE Len(s) = rows /\ \A y \in DOMAIN s : Len(s[y]) = cols
  BY <1>1 DEF Screen, Row
<1>4. 0 <= term.top BY <1>1
<1> QED BY <1>1, <1>2, <1>3, <1>4 DEF ScreenSound

(* Whatever is sent and however the window's size changes, the cursor and   *)
(* the scrolling region are on the screens and these have the size of the   *)
(* window (vterm_resize, restore_cursor, move_to).                          *)
THEOREM ScreensAreSound == TermSpec => []ScreenSound
<1>1. TermInv => ScreenSound BY RegionIsSound DEF TermInv
<1> QED BY <1>1, TermInvInit, TermInvNext, PTL DEF TermSpec

(* Where the size changes with no line waiting to be wrapped, and to no     *)
(* fewer rows while the alternate screen is shown, what was printed on the  *)
(* main screen is on it and in the lines scrolled off, in order, through    *)
(* scrolling, wrapping, visits to the alternate screen and changes of size  *)
(* (put_char, scroll_up, vterm_resize).                                     *)
THEOREM TerminalIsKept == ASSUME ~RESIZES_ALWAYS PROVE TermSpec => []TerminalKept
<1>1. TermInv => TerminalKept
  <2> SUFFICES ASSUME TermInv PROVE TerminalKept OBVIOUS
  <2>1. ScreenSound BY RegionIsSound DEF TermInv
  <2>2. HistoryKept BY DEF TermInv, InOrder, Held, HistoryKept
  <2> QED BY <2>1, <2>2 DEF TerminalKept
<1> QED BY <1>1, TermInvInit, TermInvNext, PTL DEF TermSpec
=============================================================================
