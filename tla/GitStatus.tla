------------------------------ MODULE GitStatus ------------------------------
(***************************************************************************)
(* The Git interface (src/magit.c): a status buffer that lists what        *)
(* differs between HEAD, the index and the working tree, as it was when    *)
(* git was last asked, and the commands that stage, unstage, discard,      *)
(* commit and stash what is at point.                                      *)
(*                                                                         *)
(* A repository is three sets of changes: those of HEAD, of the index and  *)
(* of the working tree.  A change is a hunk of a file.  A git command that *)
(* was left running may end, and refresh the buffer, whenever the editor   *)
(* waits for a key: while a question is asked too.                         *)
(***************************************************************************)
EXTENDS Integers, Sequences, SequencesExt

CONSTANTS FILES,            \* the repository's files, in order
          MAX_HUNKS,        \* hunks of a file
          MAX_GIT,          \* bound: commands
          NoLine            \* no line of the buffer

GitFiles == ToSet(FILES)
Changes == GitFiles \X (1..MAX_HUNKS)

ASSUME GitAssumption == MAX_HUNKS \in Nat /\ MAX_GIT \in Nat

VARIABLES
    repo,       \* the changes of HEAD, the index and the tree; the stashes
    lines,      \* the status buffer
    listed,     \* the diffs it lists: changes not staged, and staged
    toggled,    \* files expanded, each in its section
    folded,     \* sections collapsed
    at,         \* the line of point
    ask,        \* the question being asked, and what it was asked of
    message,    \* the commit message buffer, if any
    running,    \* a pull or push left running
    gitRun,     \* commands run
    behind,     \* history: the repository has changed since the last refresh
    harmed      \* history: what was discarded, and not by agreement
gitVars == <<repo, lines, listed, toggled, folded, at, ask, message, running, gitRun, behind, harmed>>
gitShown == <<lines, listed, at, behind>>

Sections == <<"unstaged", "staged">>
NotAsking == [op |-> "none", line |-> NoLine, i |-> 0, sec |-> "none", files |-> {}]
NoMessage == [open |-> FALSE, amend |-> FALSE, all |-> FALSE]


-----------------------------------------------------------------------------
(* The listing *)

(* `git diff' and `git diff --cached': each change is there added or taken  *)
(* away.                                                                    *)
Diff(r) == [unstaged |-> {[c |-> c, add |-> c \in r.tree] : c \in SymDiff(r.index, r.tree)},
            staged |-> {[c |-> c, add |-> c \in r.index] : c \in SymDiff(r.head, r.index)}]

FilesOf(hunks) == SelectSeq(FILES, LAMBDA f : \E h \in hunks : h.c[1] = f)
HunksOf(hunks, f) ==
  LET order == SelectSeq([k \in 1..MAX_HUNKS |-> k], LAMBDA k : \E h \in hunks : h.c = <<f, k>>)
  IN  [i \in DOMAIN order |-> CHOOSE h \in hunks : h.c = <<f, order[i]>>]

LineOn(kind, sec, f, i, h) == [kind |-> kind, sec |-> sec, file |-> f, hunk |-> i, patch |-> h]
NoPatch == [c |-> <<"none", 0>>, add |-> FALSE]

(* render_files, render_hunks: a file's hunks are shown if it is expanded   *)
(* and its diff was fetched.                                                *)
FileLines(sec, hunks, f, fetched) ==
  LET hs == HunksOf(hunks, f)
  IN  <<LineOn("file", sec, f, 0, NoPatch)>>
      \o IF <<sec, f>> \in fetched THEN [i \in DOMAIN hs |-> LineOn("hunk", sec, f, i, hs[i])] ELSE <<>>

SectionLines(sec, hunks, fetched, closed) ==
  LET fs == FilesOf(hunks)
  IN  IF hunks = {} THEN <<>>
      ELSE <<LineOn("heading", sec, "none", 0, NoPatch)>>
           \o IF sec \in closed THEN <<>>
              ELSE FlattenSeq([j \in DOMAIN fs |-> FileLines(sec, hunks, fs[j], fetched)])

Rendered(diff, fetched, closed) ==
  <<LineOn("head", "none", "none", 0, NoPatch)>>
  \o FlattenSeq([j \in DOMAIN Sections |-> SectionLines(Sections[j], diff[Sections[j]], fetched, closed)])

(* restore_position: the line most like the one point was on.               *)
Likeness(new, old) ==
  IF old.file # "none" /\ new.file = old.file
  THEN IF new.sec # old.sec THEN 2
       ELSE IF new.hunk = old.hunk THEN 5 ELSE IF new.kind = "file" THEN 4 ELSE 3
  ELSE IF new.kind = "heading" /\ new.sec = old.sec
       THEN IF old.kind = "heading" THEN 4 ELSE 1
       ELSE 0

MostLike(ls, old, i) ==
  LET best == {j \in DOMAIN ls : /\ Likeness(ls[j], old) > 0
                                 /\ \A k \in DOMAIN ls : /\ Likeness(ls[k], old) <= Likeness(ls[j], old)
                                                         /\ k < j => Likeness(ls[k], old) < Likeness(ls[j], old)}
  IN  IF best # {} THEN CHOOSE j \in best : TRUE ELSE IF i <= Len(ls) THEN i ELSE Len(ls)

(* redraw                                                                   *)
Redrawn(diff, fetched, closed) ==
  /\ lines' = Rendered(diff, fetched, closed)
  /\ at' = MostLike(lines', lines[at], at)

Fetched == {p \in toggled : \E h \in listed[p[1]] : h.c[1] = p[2]}

(* refresh_status of the repository as it is now: diffs are fetched of the  *)
(* files that were listed, and expanded, before.                            *)
RefreshStatus(r) == /\ listed' = Diff(r)
                    /\ Redrawn(Diff(r), Fetched, folded)
                    /\ behind' = FALSE

GitInit ==
  /\ \E tree \in SUBSET Changes :
       repo = [head |-> {}, index |-> {}, tree |-> tree, stashes |-> <<>>]
  /\ listed = Diff(repo) /\ lines = Rendered(listed, {}, {})
  /\ toggled = {} /\ folded = {} /\ at = 1
  /\ ask = NotAsking /\ message = NoMessage
  /\ running \in BOOLEAN
  /\ gitRun = 0 /\ behind = FALSE /\ harmed = {}

-----------------------------------------------------------------------------
(* Moving about *)

GitCommand == ask = NotAsking /\ gitRun < MAX_GIT /\ gitRun' = gitRun + 1

MoveSection == /\ ask = NotAsking
               /\ at' \in DOMAIN lines \ {at}
               /\ UNCHANGED <<repo, lines, listed, toggled, folded, ask, message, running, gitRun, behind, harmed>>

(* magit-section-toggle: the diff of a file that is expanded is fetched.    *)
SectionToggle ==
  LET li == lines[at]
      p == <<li.sec, li.file>>
  IN  /\ GitCommand
      /\ \/ /\ li.kind = "heading"
            /\ folded' = SymDiff(folded, {li.sec})
            /\ UNCHANGED toggled
         \/ /\ li.kind = "file"
            /\ toggled' = SymDiff(toggled, {p})
            /\ UNCHANGED folded
      /\ Redrawn(listed, toggled', folded')
      /\ UNCHANGED <<repo, listed, ask, message, running, behind, harmed>>

ShowLevel(all) ==
  /\ GitCommand
  /\ toggled' = IF all THEN toggled \cup UNION {{<<s, h.c[1]>> : h \in Diff(repo)[s]} : s \in ToSet(Sections)} ELSE {}
  /\ folded' = IF all THEN {} ELSE folded
  /\ listed' = IF all THEN Diff(repo) ELSE listed
  /\ behind' = (behind /\ ~all)
  /\ Redrawn(listed', toggled', folded')
  /\ UNCHANGED <<repo, ask, message, running, harmed>>

MagitRefresh == /\ GitCommand
                /\ RefreshStatus(repo)
                /\ UNCHANGED <<repo, toggled, folded, ask, message, running, harmed>>

-----------------------------------------------------------------------------
(* Staging *)

(* `git apply', of a patch or its reverse, to a set of changes.             *)
Applies(S, h, reverse) == (h.c \in S) # (h.add # reverse)
Applied(S, h, reverse) == IF h.add # reverse THEN S \cup {h.c} ELSE S \ {h.c}

OfFiles(S, T, files) == {c \in S : c[1] \notin files} \cup {c \in T : c[1] \in files}

(* selected_files: of the lines of the region, those of files, in one       *)
(* section; or the file at point.                                           *)
SelectedFiles(first, last) ==
  LET rows == {i \in first..last : lines[i].file # "none" /\ (first = last \/ lines[i].kind = "file")}
      sec == IF rows = {} THEN "none" ELSE lines[CHOOSE i \in rows : \A j \in rows : i <= j].sec
  IN  [sec |-> sec, files |-> {lines[i].file : i \in {j \in rows : lines[j].sec = sec}}]

Regions == {<<at, at>>} \cup {<<i, at>> : i \in 1..(at - 1)}

(* A git command has left the repository as `r', and the buffer shows it.   *)
RanGit(r) == /\ repo' = r
             /\ RefreshStatus(r)
             /\ UNCHANGED <<toggled, folded, message, running>>

Stage ==
  LET li == lines[at]
  IN  /\ GitCommand
      /\ \/ /\ li.kind = "hunk" /\ li.sec = "unstaged"
            /\ RanGit(IF Applies(repo.index, li.patch, FALSE)
                      THEN [repo EXCEPT !.index = Applied(@, li.patch, FALSE)] ELSE repo)
         \/ /\ li.kind = "heading" /\ li.sec = "unstaged"
            /\ RanGit([repo EXCEPT !.index = repo.tree])
         \/ /\ li.kind = "file"
            /\ \E r \in Regions :
                 LET sel == SelectedFiles(r[1], r[2])
                 IN  RanGit(IF sel.sec = "unstaged"
                            THEN [repo EXCEPT !.index = OfFiles(@, repo.tree, sel.files)] ELSE repo)
      /\ UNCHANGED <<ask, harmed>>

Unstage ==
  LET li == lines[at]
  IN  /\ GitCommand
      /\ \/ /\ li.kind = "hunk" /\ li.sec = "staged"
            /\ RanGit(IF Applies(repo.index, li.patch, TRUE)
                      THEN [repo EXCEPT !.index = Applied(@, li.patch, TRUE)] ELSE repo)
         \/ /\ li.kind = "heading" /\ li.sec = "staged"
            /\ RanGit([repo EXCEPT !.index = repo.head])
         \/ /\ li.kind = "file"
            /\ \E r \in Regions :
                 LET sel == SelectedFiles(r[1], r[2])
                 IN  RanGit(IF sel.sec = "staged"
                            THEN [repo EXCEPT !.index = OfFiles(@, repo.head, sel.files)] ELSE repo)
      /\ UNCHANGED <<ask, harmed>>

-----------------------------------------------------------------------------
(* Discarding: asked first, with the paths selected taken down, but not the *)
(* hunk                                                                     *)

Ask(op, i, sec, files) == ask' = [op |-> op, line |-> lines[i], i |-> i, sec |-> sec, files |-> files]

AskDiscard ==
  LET li == lines[at]
  IN  /\ GitCommand
      /\ \/ li.kind = "hunk" /\ Ask("hunk", at, li.sec, {})
         \/ /\ li.kind = "heading" /\ li.sec = "unstaged"
            /\ Ask("files", at, "unstaged", GitFiles)
         \/ /\ li.kind = "file"
            /\ \E r \in Regions :
                 LET sel == SelectedFiles(r[1], r[2])
                 IN  Ask("files", at, sel.sec, sel.files)
         \/ Ask("reset", at, "none", {})
         \/ repo.stashes # <<>> /\ Ask("drop", at, "none", {})
      /\ UNCHANGED <<repo, lines, listed, toggled, folded, at, message, running, behind, harmed>>

Lost(r) == SymDiff(repo.tree, r.tree)

(* What the question named: files, or the hunk of the line it was asked at. *)
Agreed(c) == /\ ask.op = "files" => c[1] \in ask.files
             /\ ask.op = "hunk" => c = ask.line.patch.c
Destroyed(r) == /\ harmed' = harmed \cup {<<ask.op, c>> : c \in {l \in Lost(r) : ~Agreed(l)}}
                /\ RanGit(r)

(* The patch of the line where the question was asked, as it is now: there  *)
(* may be none, in which case what was left in memory decides.              *)
PatchOf(i) == IF i \in DOMAIN lines
              THEN IF lines[i].kind = "hunk" THEN {<<lines[i].sec, lines[i].patch>>} ELSE {}
              ELSE {<<s, h>> : s \in {ask.sec}, h \in listed[ask.sec]}

DiscardHunk ==
  \/ /\ PatchOf(ask.i) = {} \/ ask.i \notin DOMAIN lines
     /\ Destroyed(repo)
  \/ \E p \in PatchOf(ask.i) :
       LET h == p[2]
           f == {c \in Changes : c[1] = h.c[1]}
       IN  Destroyed(IF p[1] = "unstaged"
                     THEN IF Applies(repo.tree, h, TRUE) THEN [repo EXCEPT !.tree = Applied(@, h, TRUE)] ELSE repo
                     ELSE IF Applies(repo.index, h, TRUE) /\ repo.index \cap f = repo.tree \cap f
                          THEN [repo EXCEPT !.tree = Applied(@, h, TRUE), !.index = Applied(@, h, TRUE)]
                          ELSE repo)

(* Files that were staged and are not any more are left alone.              *)
AskedFiles_Selected(q) == SelectedFiles(at, at).files
AskedFiles(q) == q.files
DiscardFiles ==
  LET fs == AskedFiles(ask)
      staged == {f \in fs : \E h \in listed["staged"] : h.c[1] = f}
  IN  Destroyed(IF ask.sec = "unstaged" THEN [repo EXCEPT !.tree = OfFiles(@, repo.index, fs)]
                ELSE [repo EXCEPT !.tree = OfFiles(@, repo.head, staged),
                                  !.index = OfFiles(@, repo.head, staged)])

AnswerYes ==
  /\ \/ ask.op = "hunk" /\ DiscardHunk
     \/ ask.op = "files" /\ DiscardFiles
     \/ ask.op = "reset" /\ Destroyed([repo EXCEPT !.index = repo.head, !.tree = repo.head])
     \/ ask.op = "drop" /\ Destroyed([repo EXCEPT !.stashes = Tail(@)])
  /\ ask' = NotAsking
  /\ UNCHANGED gitRun

AnswerNo == /\ ask # NotAsking
            /\ ask' = NotAsking
            /\ RefreshStatus(repo)
            /\ UNCHANGED <<repo, toggled, folded, message, running, gitRun, harmed>>

-----------------------------------------------------------------------------
(* Committing, stashing and other commands *)

(* The message's buffer says how it is to be committed.                     *)
StartCommit ==
  /\ GitCommand
  /\ \E amend \in BOOLEAN :
       message' = [open |-> TRUE, amend |-> amend, all |-> ~amend /\ repo.index = repo.head]
  /\ UNCHANGED <<repo, gitShown, toggled, folded, ask, running, harmed>>

Committed(r, all) == IF all THEN [r EXCEPT !.index = r.tree, !.head = r.tree] ELSE [r EXCEPT !.head = r.index]

(* git-commit-commit refreshes the status once the commit is made; git      *)
(* refuses one that changes nothing, and the buffer stays.                  *)
Shows(r) == repo' = r /\ RefreshStatus(r)
CommitCommit ==
  /\ GitCommand /\ message.open
  /\ LET r == Committed(repo, message.all)
     IN  IF r.head = repo.head /\ ~message.amend
         THEN UNCHANGED <<repo, gitShown, message>>
         ELSE Shows(r) /\ message' = NoMessage
  /\ UNCHANGED <<toggled, folded, ask, running, harmed>>

CommitAbort == /\ GitCommand /\ message.open
               /\ message' = NoMessage
               /\ UNCHANGED <<repo, gitShown, toggled, folded, ask, running, harmed>>

(* git stash push, and pop, which brings the changes back if they are not   *)
(* in the way of others.                                                    *)
Stash ==
  /\ GitCommand
  /\ \/ /\ repo.tree # repo.head \/ repo.index # repo.head
        /\ RanGit([repo EXCEPT !.index = repo.head, !.tree = repo.head,
                               !.stashes = <<[add |-> repo.tree \ repo.head, del |-> repo.head \ repo.tree]>> \o @])
     \/ /\ repo.stashes # <<>>
        /\ LET s == Head(repo.stashes)
           IN  RanGit(IF repo.tree = repo.index /\ repo.index = repo.head
                      THEN [repo EXCEPT !.tree = (@ \ s.del) \cup s.add, !.stashes = Tail(@)] ELSE repo)
  /\ UNCHANGED <<ask, harmed>>

(* A merge, a rebase or a checkout brings a change from another branch.     *)
Brought(c) == [repo EXCEPT !.head = @ \cup {c}, !.index = @ \cup {c}, !.tree = @ \cup {c}]
Untouched == {c \in Changes : \A k \in 1..MAX_HUNKS : <<c[1], k>> \notin repo.head \cup repo.index \cup repo.tree}

Merge == /\ GitCommand
         /\ \E c \in Untouched : RanGit(Brought(c))
         /\ UNCHANGED <<ask, harmed>>

(* Files are saved, by this editor or another program.                      *)
FilesChange ==
  /\ gitRun < MAX_GIT /\ gitRun' = gitRun + 1
  /\ \E c \in Changes \ repo.tree : repo' = [repo EXCEPT !.tree = @ \cup {c}]
  /\ behind' = TRUE
  /\ UNCHANGED <<lines, listed, at, toggled, folded, ask, message, running, harmed>>

(* git_async: pull and push run by themselves.                              *)
GitAsync == /\ GitCommand /\ ~running
            /\ running' = TRUE
            /\ UNCHANGED <<repo, gitShown, toggled, folded, ask, message, harmed>>

Pulled == /\ running
          /\ \E c \in Untouched : repo' = Brought(c)
          /\ behind' = TRUE
          /\ UNCHANGED <<lines, listed, at, toggled, folded, ask, message, running, gitRun, harmed>>

AsyncExit == /\ running
             /\ running' = FALSE
             /\ RefreshStatus(repo)
             /\ UNCHANGED <<repo, toggled, folded, ask, message, gitRun, harmed>>

GitNext == \/ MoveSection \/ SectionToggle \/ ShowLevel(TRUE) \/ ShowLevel(FALSE) \/ MagitRefresh
           \/ Stage \/ Unstage \/ AskDiscard \/ AnswerYes \/ AnswerNo
           \/ StartCommit \/ CommitCommit \/ CommitAbort \/ Stash \/ Merge
           \/ FilesChange \/ GitAsync \/ Pulled \/ AsyncExit

GitSpec == GitInit /\ [][GitNext]_gitVars

-----------------------------------------------------------------------------
(* The changes to files that a discard undoes are those of the files the    *)
(* question named, however the buffer was refreshed while it was asked.     *)
FilesAsAgreed == \A h \in harmed : h[1] # "files"

(* Discarding a hunk undoes the hunk at point when it was asked about.      *)
HunkAsAgreed == \A h \in harmed : h[1] # "hunk"

(* Once git has been run for the user, and nothing has been changed since,  *)
(* the buffer lists just what differs.                                      *)
StatusIsTrue == ~behind => listed = Diff(repo)

(* What the status buffer lists is what git says, and what is done to the   *)
(* files listed is what was agreed to, whichever process ends while the     *)
(* question waits (refresh_status, F_magit_discard).                        *)
StatusHeeded == FilesAsAgreed /\ StatusIsTrue
=============================================================================
