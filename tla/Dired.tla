------------------------------- MODULE Dired -------------------------------
(***************************************************************************)
(* Dired, the directory editor (src/dired.c): a listing whose entries are  *)
(* marked, and the commands that copy, move and delete what is marked, one *)
(* file after another, each of which may fail, partly done.                *)
(*                                                                         *)
(* Two directories are enough: the one listed, "here", and another, which  *)
(* may be on another file system, or be the same one by another name.  A   *)
(* file holds one piece of text and a directory some, in files of its own. *)
(***************************************************************************)
EXTENDS Naturals, Sequences, SequencesExt, Selection

CONSTANTS NAMES,            \* what entries are called, in order
          DirNames,         \* those of directories
          SAME_DIR,         \* "there" is "here" by another name
          MERGES,           \* whether a directory is copied over files in another of its name
          MAX_DIRED         \* bound: commands

Names == ToSet(NAMES)
DirSides == {"here", "there"}
Places == DirSides \X Names
Inside == 1..2              \* a directory's files; a file's text is the first
Text == Places \X Inside    \* a piece of text, called after where it was first
Gone == <<>>

ASSUME DiredAssumption ==
    /\ NAMES \in Seq(Names) /\ \A i, j \in DOMAIN NAMES : NAMES[i] = NAMES[j] => i = j
    /\ "into" \notin Names
    /\ DirNames \subseteq Names /\ MAX_DIRED \in Nat
    /\ SAME_DIR \in BOOLEAN /\ MERGES \in BOOLEAN

VARIABLES
    data,       \* the text in each place, or Gone
    there,      \* places where there is a file or directory
    crosses,    \* whether "there" is on another file system
    newest,     \* names here, the last changed first
    listing,    \* the lines: names and marks
    row,        \* the line of point
    byDate,
    queue,      \* names the command has yet to deal with
    doing,      \* what it does with them, and where to
    commandsRun,
    agreed,     \* history: text the user has agreed to lose
    given       \* history: the marks the user gave the names listed
dirVars == <<data, there, crosses, newest, listing, row, byDate, queue, doing, commandsRun, agreed, given>>
dirFiles == <<data, there, newest>>
dirShown == <<listing, row, given>>

Idle == [op |-> "none", dest |-> <<"here", "none">>]

(* Where a path leads.                                                      *)
Real(p) == IF SAME_DIR THEN <<"here", p[2]>> ELSE p
Is(p) == Real(p) \in there
IsDir(p) == Is(p) /\ p[2] \in DirNames
TextAt(p) == {data[Real(p)][k] : k \in Inside} \ {Gone}

-----------------------------------------------------------------------------
(* The listing *)

Here(files) == {n \in Names : <<"here", n>> \in files}

Those(names, set) == Selected(names, {i \in DOMAIN names : names[i] \in set})

(* make_listing: `.' and `..' are left out, being never marked.             *)
Listed(files, dates, by) ==
  Those(IF by THEN dates ELSE NAMES, Here(files))

Line(n, mark) == [name |-> n, mark |-> mark]
LineOf(lines, n) == {i \in DOMAIN lines : lines[i].name = n}

(* dired_refresh keeps the marks of names and the entry at point, or else   *)
(* the line.                                                                *)
MarkKept(lines, i, n) == IF LineOf(lines, n) = {} THEN " "
                         ELSE lines[CHOOSE j \in LineOf(lines, n) : TRUE].mark

Refreshed(files, dates, by, at) ==
  LET names == Listed(files, dates, by)
      lines == [i \in DOMAIN names |-> Line(names[i], MarkKept(listing, i, names[i]))]
      same == LineOf(lines, at)
  IN  /\ listing' = lines
      /\ row' = IF same # {} THEN CHOOSE i \in same : TRUE
                ELSE IF row <= Len(lines) THEN row ELSE Len(lines)
      /\ given' = [n \in ToSet(names) |-> IF n \in DOMAIN given THEN given[n] ELSE " "]

AtPoint == IF row \in DOMAIN listing THEN listing[row].name ELSE "none"

DirInit ==
  /\ \E files \in SUBSET Places :
       /\ <<"here", CHOOSE n \in Names : n \notin DirNames>> \in files
       /\ SAME_DIR => \A p \in files : p[1] = "here"
       /\ there = files
       /\ data = [p \in Places |-> [k \in Inside |->
                    IF p \in files /\ (k = 1 \/ p[2] \in DirNames) THEN <<p, k>> ELSE Gone]]
       /\ \E dates \in SetToSeqs(Here(files)) : newest = dates
       /\ listing = [i \in DOMAIN Listed(files, <<>>, FALSE) |-> Line(Listed(files, <<>>, FALSE)[i], " ")]
       /\ given = [n \in Here(files) |-> " "]
  /\ crosses \in (IF SAME_DIR THEN {FALSE} ELSE BOOLEAN)
  /\ row = 1 /\ byDate = FALSE
  /\ queue = <<>> /\ doing = Idle /\ commandsRun = 0
  /\ agreed = {t \in Text : data[t[1]][t[2]] = Gone}

-----------------------------------------------------------------------------
(* Marks *)

DiredCommand == /\ queue = <<>> /\ doing = Idle /\ commandsRun < MAX_DIRED
                /\ commandsRun' = commandsRun + 1

Marked(m) == {i \in DOMAIN listing : listing[i].mark = m}

(* mark_lines: one line, moving over it.                                    *)
MarkLine == /\ DiredCommand
            /\ row \in DOMAIN listing
            /\ \E m \in {"*", "D", " "} :
                 /\ listing' = [listing EXCEPT ![row].mark = m]
                 /\ given' = [given EXCEPT ![listing[row].name] = m]
            /\ row' = IF row < Len(listing) THEN row + 1 ELSE row
            /\ UNCHANGED <<dirFiles, crosses, byDate, queue, doing, agreed>>

MoveLines == /\ queue = <<>> /\ doing = Idle
             /\ row' \in DOMAIN listing \ {row}
             /\ UNCHANGED <<dirFiles, crosses, byDate, queue, doing, commandsRun, agreed, listing, given>>

(* The marks of all lines taken away, and lines whose names match marked.   *)
MarkSome ==
  \E rows \in SUBSET DOMAIN listing, m \in {"*", "D", " "} :
    /\ DiredCommand
    /\ m = " " => rows = DOMAIN listing
    /\ listing' = [i \in DOMAIN listing |-> IF i \in rows THEN [listing[i] EXCEPT !.mark = m] ELSE listing[i]]
    /\ given' = [n \in DOMAIN given |-> IF \E i \in rows : listing[i].name = n THEN m ELSE given[n]]
    /\ UNCHANGED <<dirFiles, crosses, row, byDate, queue, doing, agreed>>

ToggleMarks ==
  LET toggled(m) == IF m = "*" THEN " " ELSE IF m = " " THEN "*" ELSE m
  IN  /\ DiredCommand
      /\ listing' = [i \in DOMAIN listing |-> [listing[i] EXCEPT !.mark = toggled(@)]]
      /\ given' = [n \in DOMAIN given |-> toggled(given[n])]
      /\ UNCHANGED <<dirFiles, crosses, row, byDate, queue, doing, agreed>>

(* dired-do-kill-lines only takes lines away.                               *)
KillLines ==
  LET all == IF Marked("*") # {} THEN Marked("*") ELSE {row} \cap DOMAIN listing
      left == Selected(listing, DOMAIN listing \ all)
  IN  /\ DiredCommand /\ all # {}
      /\ listing' = left
      /\ given' = [n \in DOMAIN given \ {listing[i].name : i \in all} |-> given[n]]
      /\ row' = IF Min(all) <= Len(left) THEN Min(all) ELSE Len(left)
      /\ UNCHANGED <<dirFiles, crosses, byDate, queue, doing, agreed>>

Revert == /\ DiredCommand
          /\ \E by \in {byDate, ~byDate} :   \* dired-revert, dired-sort-toggle
               /\ byDate' = by
               /\ Refreshed(there, newest, by, AtPoint)
          /\ UNCHANGED <<dirFiles, crosses, queue, doing, agreed>>

(* Another program makes a file here, or deletes one.                       *)
OthersChange ==
  /\ DiredCommand
  /\ \E n \in Names \ DirNames :
       LET p == <<"here", n>>
       IN  IF p \in there
           THEN /\ there' = there \ {p} /\ data' = [data EXCEPT ![p] = [k \in Inside |-> Gone]]
                /\ agreed' = agreed \cup TextAt(p)
                /\ newest' = Those(newest, Names \ {n})
           ELSE /\ there' = there \cup {p} /\ newest' = <<n>> \o newest
                /\ UNCHANGED <<data, agreed>>
  /\ UNCHANGED <<dirShown, crosses, byDate, queue, doing>>

-----------------------------------------------------------------------------
(* What one file's operation may leave behind, done in full or not          *)

Becomes(d, files) ==
  /\ data' = d
  /\ there' = files
  /\ newest' = SetToSeq(Here(files \ there)) \o Those(newest, Here(files))

Parts(p) == IF p[2] \in DirNames THEN {k \in Inside : data[Real(p)][k] # Gone} ELSE {1}

(* copy_path, `done' of it: a file is truncated and written; a directory is *)
(* made if need be, and what is in it is copied.                            *)
Copied(d, from, to, done) ==
  [d EXCEPT ![Real(to)] = [k \in Inside |-> IF k \in done
                                            THEN IF Real(to) = Real(from) THEN Gone ELSE d[from][k]
                                            ELSE IF IsDir(from) THEN d[Real(to)][k] ELSE Gone]]

(* Nothing is asked about the files of a directory copied over another.     *)
Merges(from, to) == /\ IsDir(to)
                    /\ \E k \in Parts(from) : data[Real(to)][k] \notin {Gone, data[from][k]}
MayCopy(from, to) == MERGES \/ ~Merges(from, to)

CopyFile(from, to, ok) ==
  \/ ~ok /\ Becomes(data, there)
  \/ MayCopy(from, to) /\ \E done \in SUBSET Parts(from) :
       /\ ok => done = Parts(from)
       /\ Becomes(Copied(data, from, to, done), there \cup {Real(to)})

(* delete_path: of a directory, some may be gone and the rest not.          *)
DeletedIn(d, p, done) == [d EXCEPT ![p] = [k \in Inside |-> IF k \in done THEN Gone ELSE @[k]]]

DeleteFile(p, ok) ==
  \E done \in SUBSET Parts(p) :
    /\ IF ok THEN done = Parts(p) ELSE IsDir(p) \/ done = {}
    /\ Becomes(DeletedIn(data, p, done), IF ok THEN there \ {p} ELSE there)

(* rename takes the place of a file, or of an empty directory.              *)
RenameFile(from, to, ok) ==
  IF ~ok \/ Real(from) = Real(to) THEN Becomes(data, there)
  ELSE /\ IsDir(to) => TextAt(to) = {}
       /\ Becomes([data EXCEPT ![to] = data[from], ![from] = [k \in Inside |-> Gone]],
                  (there \ {from}) \cup {to})

(* move_path: across file systems it is copied, and if that went well,      *)
(* deleted.                                                                 *)
MoveAcross_Regardless(from, to, ok) ==
  \E done, gone \in SUBSET Parts(from) :
    /\ MayCopy(from, to)
    /\ ok => gone = Parts(from)
    /\ Becomes(DeletedIn(Copied(data, from, to, done), from, gone),
               (there \cup {to}) \ (IF ok THEN {from} ELSE {}))
MoveAcross(from, to, ok) ==
  \/ ~ok /\ CopyFile(from, to, FALSE)
  \/ MayCopy(from, to) /\ \E gone \in SUBSET Parts(from) :
       /\ IF ok THEN gone = Parts(from) ELSE IsDir(from) \/ gone = {}
       /\ Becomes(DeletedIn(Copied(data, from, to, Parts(from)), from, gone),
                  (there \cup {to}) \ (IF ok THEN {from} ELSE {}))

MoveFile(from, to, ok) == IF crosses /\ from[1] # to[1] THEN MoveAcross(from, to, ok)
                          ELSE RenameFile(from, to, ok)

-----------------------------------------------------------------------------
(* Commands on files *)

(* target_entries: the marked ones, or else the current one.                *)
Targets == IF Marked("*") # {} THEN Marked("*") ELSE {row} \cap DOMAIN listing

NamesAt(rows) == LET lines == Selected(listing, rows)
                 IN  [i \in DOMAIN lines |-> lines[i].name]

(* Into the other directory, or one file to a new name here.                *)
CopyOrRename ==
  /\ DiredCommand /\ Targets # {}
  /\ queue' = NamesAt(Targets)
  /\ \E op \in {"copy", "rename"} :
       \/ doing' = [op |-> op, dest |-> <<"there", "into">>]
       \/ \E n \in Names : /\ Len(queue') = 1
                           /\ (n \in DirNames) = (Head(queue') \in DirNames)
                           /\ ~IsDir(<<"here", n>>)
                           /\ doing' = [op |-> op, dest |-> <<"here", n>>]
  /\ UNCHANGED <<dirFiles, dirShown, crosses, byDate, agreed>>

Delete == /\ DiredCommand
          /\ \E rows \in {Targets, Marked("D")} : rows # {} /\ queue' = NamesAt(rows)
          /\ doing' = [op |-> "delete", dest |-> <<"here", "none">>]
          /\ UNCHANGED <<dirFiles, dirShown, crosses, byDate, agreed>>

(* A new directory is shown at point.                                       *)
CreateDirectory ==
  /\ DiredCommand
  /\ \E n \in DirNames :
       /\ ~Is(<<"here", n>>)
       /\ there' = there \cup {<<"here", n>>} /\ newest' = <<n>> \o newest
       /\ Refreshed(there', newest', byDate, n)
  /\ UNCHANGED <<data, crosses, byDate, queue, doing, agreed>>

Stops == queue' = <<>>
Continues == queue' = Tail(queue)

OneFile ==
  LET from == <<"here", Head(queue)>>
      to == IF doing.dest[2] = "into" THEN <<"there", Head(queue)>> ELSE doing.dest
      asks == Is(to) /\ ~IsDir(to)
  IN  \/ from = to /\ Stops /\ UNCHANGED <<dirFiles, agreed>>
      \/ from # to /\ asks /\ (Stops \/ Continues) /\ UNCHANGED <<dirFiles, agreed>>
      \/ /\ from # to
         /\ agreed' = IF asks THEN agreed \cup (TextAt(to) \ TextAt(from)) ELSE agreed
         /\ \E ok \in BOOLEAN :
              /\ IF ok THEN Continues ELSE Stops
              /\ IF ~Is(from) THEN ~ok /\ UNCHANGED dirFiles
                 ELSE IF doing.op = "copy" THEN CopyFile(from, to, ok) ELSE MoveFile(from, to, ok)

(* A directory that is not empty is asked about.                            *)
DeleteOne ==
  LET p == <<"here", Head(queue)>>
  IN  \/ IsDir(p) /\ TextAt(p) # {} /\ (Stops \/ Continues) /\ UNCHANGED <<dirFiles, agreed>>
      \/ /\ agreed' = agreed \cup TextAt(p)
         /\ \E ok \in BOOLEAN :
              /\ IF ok THEN Continues ELSE Stops
              /\ IF ~Is(p) THEN ~ok /\ UNCHANGED dirFiles ELSE DeleteFile(p, ok)

DoOne == /\ queue # <<>>
         /\ IF doing.op = "delete" THEN DeleteOne ELSE OneFile
         /\ UNCHANGED <<dirShown, crosses, byDate, doing, commandsRun>>

Done == /\ queue = <<>> /\ doing # Idle
        /\ doing' = Idle
        /\ \E at \in {AtPoint} \cup ({doing.dest[2]} \cap Here(there)) :   \* the one file's new name
             Refreshed(there, newest, byDate, at)
        /\ UNCHANGED <<dirFiles, crosses, byDate, queue, commandsRun, agreed>>

DirNext == MarkLine \/ MoveLines \/ MarkSome \/ CreateDirectory \/ ToggleMarks \/ KillLines \/ Revert \/ OthersChange
           \/ CopyOrRename \/ Delete \/ DoOne \/ Done
DirSpec == DirInit /\ [][DirNext]_dirVars

-----------------------------------------------------------------------------
(* Whatever is copied and moved, and whichever step of it fails, no text is *)
(* lost but what the user has agreed to delete or to overwrite.             *)
NothingLost == Text \subseteq agreed \cup UNION {TextAt(q) : q \in there}

(* A line has the mark its name was given, however the listing was read     *)
(* again, sorted and cut short since.                                       *)
MarksFollowNames == /\ DOMAIN given = {listing[i].name : i \in DOMAIN listing}
                    /\ \A i \in DOMAIN listing : listing[i].mark = given[listing[i].name]

(* The commands of dired that go through many files lose neither text nor   *)
(* marks: do_copy_or_rename and delete_entries, which may fail at any file, *)
(* and dired_refresh, which reads the directory again after them.           *)
DiredKept == NothingLost /\ MarksFollowNames
=============================================================================
