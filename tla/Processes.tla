----------------------------- MODULE Processes -----------------------------
(***************************************************************************)
(* Asynchronous subprocesses (src/process.c), the loop that serves them    *)
(* between keys (read_byte of src/term.c, serve_processes of src/gui.c)    *)
(* and their owners: the compilation, a terminal, git commands and the     *)
(* helper that previews HTML.                                              *)
(*                                                                         *)
(* A child runs, writes to its pipe and dies at any time; one it leaves    *)
(* behind may keep the pipe open.  The editor learns of it between keys    *)
(* only, by SIGCHLD or by its pipe, in either order.  What the editor is   *)
(* in the middle of is a stack: the exit of a git command on another       *)
(* machine runs ssh, and while it waits for that reads keys, which serves  *)
(* the other processes.                                                    *)
(***************************************************************************)
EXTENDS Naturals, SequencesExt

CONSTANTS MAX_PROCESSES,  \* bound: processes started
          REMOTE_REPOS,   \* whether git commands may be on another machine
          MAX_OUTPUT      \* bound: chunks in a pipe

ASSUME ProcsAssumption == {MAX_PROCESSES, MAX_OUTPUT} \subseteq Nat /\ REMOTE_REPOS \in BOOLEAN

Procs == 1 .. MAX_PROCESSES    \* in the order they are started
NoProc == 0                    \* a NULL pointer

VARIABLES
    processes,   \* the list, last started first
    proc,        \* the record of each process of the list
    kid,         \* the process itself: "none", "runs", "shut" (it has closed its
                 \* pipe, perhaps to exit), "dead"
    pipe,        \* chunks written and not read
    heir,        \* whether a child of the process holds its pipe open
    chld,        \* chld_pending, and the byte in signal_pipe
    stack,       \* the calls in progress, innermost first
    own,         \* the process of each owner that keeps one
    charMode,    \* whether the terminal takes keys itself
    owed         \* history: chunks a process wrote that its owner has not got

procVars == <<processes, proc, kid, pipe, heir, chld, stack, own, charMode, owed>>

Owners == {"compilation", "terminal", "helper"}
Kinds == Owners \cup {"git", "remote git"}

(* A walk of process_reap that is to look at `next', then the descriptors   *)
(* poll found ready; or the wait for ssh in the exit of a git command.      *)
Reaping(next, ready) == [next |-> next, ready |-> ready, ends |-> NoProc]
Waiting(p) == [next |-> NoProc, ready |-> {}, ends |-> p]

NewProcess(k) == [kind |-> k, open |-> TRUE, exited |-> FALSE, detached |-> FALSE, finished |-> FALSE]
Freed == [NewProcess("git") EXCEPT !.open = FALSE]
Records(list, r) == [p \in Procs |-> IF p \in Range(list) THEN r[p] ELSE Freed]

InList == Range(processes)

(* Keys are read, so commands run, at the outermost level only.             *)
Idle == stack = <<>>

Alive(p) == p # NoProc /\ ~proc[p].exited

ProcInit == /\ processes = <<>>
            /\ proc = [p \in Procs |-> Freed]
            /\ kid = [p \in Procs |-> "none"]
            /\ pipe = [p \in Procs |-> 0]
            /\ heir = [p \in Procs |-> FALSE]
            /\ chld = FALSE
            /\ stack = <<>>
            /\ own = [o \in Owners |-> NoProc]
            /\ charMode = FALSE
            /\ owed = [p \in Procs |-> 0]

-----------------------------------------------------------------------------
(* The processes themselves *)

ProcessWrites(p) ==
            /\ kid[p] = "runs" \/ heir[p]
            /\ pipe[p] < MAX_OUTPUT
            /\ proc[p].open
            /\ pipe' = [pipe EXCEPT ![p] = @ + 1]
            /\ owed' = IF kid[p] = "runs" THEN [owed EXCEPT ![p] = @ + 1] ELSE owed
            /\ UNCHANGED <<processes, proc, kid, heir, chld, stack, own, charMode>>

Shut(p) == /\ kid[p] = "runs"
           /\ kid' = [kid EXCEPT ![p] = "shut"]
           /\ \E left \in IF proc[p].open THEN BOOLEAN ELSE {FALSE} : heir' = [heir EXCEPT ![p] = left]
           /\ UNCHANGED <<processes, proc, pipe, chld, stack, own, charMode, owed>>

Die(p) == /\ kid[p] = "shut"
          /\ kid' = [kid EXCEPT ![p] = "dead"]
          /\ chld' = TRUE
          /\ UNCHANGED <<processes, proc, pipe, heir, stack, own, charMode, owed>>

HeirDies(p) == /\ heir[p] /\ proc[p].open
               /\ heir' = [heir EXCEPT ![p] = FALSE]
               /\ UNCHANGED <<processes, proc, kid, pipe, chld, stack, own, charMode, owed>>

AtEOF(p) == pipe[p] = 0 /\ kid[p] # "runs" /\ ~heir[p]

-----------------------------------------------------------------------------
(* Starting and freeing *)

(* process_free: a process still running stays in the list, to be reaped.   *)
Detached(p) == [proc EXCEPT ![p].open = FALSE, ![p].detached = ~proc[p].exited]

StillListed(p) == IF Alive(p) THEN processes ELSE SelectSeq(processes, LAMBDA q : q # p)

Free(p) == IF p = NoProc THEN UNCHANGED <<processes, proc>>
           ELSE /\ processes' = StillListed(p)
                /\ proc' = Records(processes', Detached(p))

(* process_start puts a new process first, after its owner freed `old'.     *)
StartProcess(p, k, old) ==
  /\ Idle
  /\ kid[p] = "none" /\ \A q \in 1 .. p - 1 : kid[q] # "none"
  /\ kid' = [kid EXCEPT ![p] = "runs"]
  /\ processes' = <<p>> \o (IF old = NoProc THEN processes ELSE StillListed(old))
  /\ proc' = [Records(processes', IF old = NoProc THEN proc ELSE Detached(old)) EXCEPT ![p] = NewProcess(k)]
  /\ UNCHANGED <<pipe, heir, chld, stack, owed>>

(* run_compile frees the last compilation; a running one after asking.      *)
RunCompile(p) == /\ StartProcess(p, "compilation", own["compilation"])
                 /\ own' = [own EXCEPT !["compilation"] = p]
                 /\ UNCHANGED charMode

(* The process could not be started: the buffer is left without one.        *)
CompileFails == /\ Idle
                /\ Free(own["compilation"])
                /\ own' = [own EXCEPT !["compilation"] = NoProc]
                /\ UNCHANGED <<kid, pipe, heir, chld, stack, charMode, owed>>

StartTerminal(p) == /\ StartProcess(p, "terminal", own["terminal"])
                    /\ own' = [own EXCEPT !["terminal"] = p]
                    /\ charMode' = TRUE

(* A terminal buffer is used again only if its program has exited.          *)
Shell(p) == ~Alive(own["terminal"]) /\ StartTerminal(p)

Term(p) == own["terminal"] = NoProc /\ StartTerminal(p)

GitAsync(p) == /\ \E k \in IF REMOTE_REPOS THEN {"git", "remote git"} ELSE {"git"} : StartProcess(p, k, NoProc)
               /\ UNCHANGED <<own, charMode>>

(* html-preview starts the helper, or tells the one that runs to reload.    *)
HtmlPreview(p) == /\ ~Alive(own["helper"])
                  /\ StartProcess(p, "helper", NoProc)
                  /\ own' = [own EXCEPT !["helper"] = p]
                  /\ UNCHANGED charMode

(* Killing the owner's buffer, or html-preview-quit.                        *)
FreeOwner(o) == /\ Idle
                /\ own[o] # NoProc
                /\ Free(own[o])
                /\ own' = [own EXCEPT ![o] = NoProc]
                /\ charMode' = (charMode /\ o # "terminal")
                /\ UNCHANGED <<kid, pipe, heir, chld, stack, owed>>

TermLineMode == /\ Idle
                /\ charMode
                /\ charMode' = FALSE
                /\ UNCHANGED <<processes, proc, kid, pipe, heir, chld, stack, own, owed>>

TermCharMode == /\ Idle
                /\ own["terminal"] # NoProc
                /\ Alive(own["terminal"])
                /\ charMode' = TRUE
                /\ UNCHANGED <<processes, proc, kid, pipe, heir, chld, stack, own, owed>>

-----------------------------------------------------------------------------
(* Serving: poll, then reap if SIGCHLD came, then read what poll found      *)

Ready == {p \in InList : proc[p].open /\ (pipe[p] > 0 \/ AtEOF(p))}

Serve == /\ ~Idle => Head(stack).ends # NoProc
         /\ chld \/ Ready # {}
         /\ stack' = <<Reaping(IF chld /\ processes # <<>> THEN Head(processes) ELSE NoProc, Ready)>> \o stack
         /\ chld' = FALSE
         /\ UNCHANGED <<processes, proc, kid, pipe, heir, own, charMode, owed>>

(* What the owner does with its output.                                     *)
Heard(p, k) == [owed EXCEPT ![p] = IF k > @ THEN 0 ELSE @ - k]

(* What the owners do at the exit: helper_exit and async_exit free the      *)
(* process, the last after running ssh if the repository is not here; a     *)
(* terminal leaves char mode.                                               *)
OwnAfter(p) == IF own["helper"] = p THEN [own EXCEPT !["helper"] = NoProc] ELSE own

CharModeAfter(p) == charMode /\ own["terminal"] # p

AsksRemote(p) == ~proc[p].detached /\ proc[p].kind = "remote git"

Left(p) == IF proc[p].detached \/ proc[p].kind \in {"git", "helper"}
           THEN SelectSeq(processes, LAMBDA q : q # p)
           ELSE processes

(* finish: tell the owner, or free a detached process.                      *)
FinishProcess(p, later) ==
  /\ processes' = Left(p)
  /\ proc' = Records(processes', [proc EXCEPT ![p].exited = TRUE, ![p].open = FALSE, ![p].finished = TRUE])
  /\ stack' = IF AsksRemote(p) THEN <<Waiting(p)>> \o later ELSE later
  /\ own' = OwnAfter(p)
  /\ charMode' = CharModeAfter(p)

(* process_reap: it has the next process from before the exit is told.      *)
NextOf_IfAlive(p) == LET i == CHOOSE i \in DOMAIN processes : processes[i] = p
                     IN  IF i = Len(processes) \/ kid[p] = "dead" THEN NoProc ELSE processes[i + 1]
NextOf(p) == LET i == CHOOSE i \in DOMAIN processes : processes[i] = p
             IN  IF i = Len(processes) THEN NoProc ELSE processes[i + 1]

SomeRead(p) == {k \in 0 .. pipe[p] : pipe[p] > 0 => k > 0}

LastRead(p) == {pipe[p]}

Reap ==
  /\ ~Idle
  /\ LET p == Head(stack).next
         later == <<[Head(stack) EXCEPT !.next = NextOf(p)]>> \o Tail(stack)
     IN  /\ p \in InList
         /\ \/ /\ kid[p] = "dead" /\ ~proc[p].exited
               /\ \E k \in IF proc[p].open THEN LastRead(p) ELSE {0} :
                    owed' = Heard(p, k)
               /\ pipe' = [pipe EXCEPT ![p] = 0]
               /\ FinishProcess(p, later)
            \/ /\ kid[p] # "dead" \/ proc[p].exited
               /\ stack' = later
               /\ UNCHANGED <<processes, proc, own, charMode, pipe, owed>>
  /\ UNCHANGED <<kid, heir, chld>>

(* process_handle_events: a descriptor that has been closed since the poll  *)
(* is passed over.  It reads until there is no more or too much.            *)
HandleEvent ==
  /\ ~Idle
  /\ Head(stack).next = NoProc
  /\ \E p \in Head(stack).ready :
       LET later == <<[Head(stack) EXCEPT !.ready = @ \ {p}]>> \o Tail(stack)
       IN  IF p \notin InList \/ ~proc[p].open
           THEN stack' = later /\ UNCHANGED <<processes, proc, own, charMode, pipe, owed>>
           ELSE \E k \in SomeRead(p) :
                  /\ pipe' = [pipe EXCEPT ![p] = @ - k]
                  /\ owed' = Heard(p, k)
                  /\ IF k = pipe[p] /\ kid[p] = "dead" /\ ~heir[p]
                     THEN FinishProcess(p, later)
                     ELSE /\ stack' = later
                          /\ proc' = [proc EXCEPT ![p].open = k < pipe[p] \/ kid[p] = "runs" \/ heir[p]]
                          /\ UNCHANGED <<processes, own, charMode>>
  /\ UNCHANGED <<kid, heir, chld>>

Served == /\ ~Idle
          /\ Head(stack) = Reaping(NoProc, {})
          /\ stack' = Tail(stack)
          /\ UNCHANGED <<processes, proc, kid, pipe, heir, chld, own, charMode, owed>>

(* async_exit, once the status buffer is refreshed.                         *)
GitRefreshed == /\ ~Idle
                /\ Head(stack).ends # NoProc
                /\ processes' = SelectSeq(processes, LAMBDA q : q # Head(stack).ends)
                /\ proc' = Records(processes', proc)
                /\ stack' = Tail(stack)
                /\ UNCHANGED <<kid, pipe, heir, chld, own, charMode, owed>>
-----------------------------------------------------------------------------
ProcLoop == Serve \/ Reap \/ HandleEvent \/ Served \/ GitRefreshed

ProcNext == \/ \E p \in Procs : \/ ProcessWrites(p) \/ Shut(p) \/ Die(p) \/ HeirDies(p)
                                \/ RunCompile(p) \/ Shell(p) \/ Term(p) \/ GitAsync(p) \/ HtmlPreview(p)
            \/ \E o \in Owners : FreeOwner(o)
            \/ CompileFails \/ TermLineMode \/ TermCharMode
            \/ ProcLoop

(* Between commands the editor waits for a key, and serves processes.       *)
ProcFairness == WF_procVars(ProcLoop)

-----------------------------------------------------------------------------
(* A process of the list belongs to the owner that points to it, to a git   *)
(* command that is running or refreshing, or is detached and running: no    *)
(* callback reaches an owner that has let go, no exited process is leaked,  *)
(* and a terminal that takes keys itself has a process to send them to.     *)
OwnersKept ==
  /\ IsInjective(processes)
  /\ \A p \in Procs : proc[p] \in [kind : Kinds, open : BOOLEAN, exited : BOOLEAN,
                                    detached : BOOLEAN, finished : BOOLEAN]
  /\ \A o \in Owners : own[o] # NoProc => own[o] \in InList /\ proc[own[o]].kind = o
  /\ \A p \in InList : IF proc[p].detached THEN ~proc[p].exited /\ ~proc[p].open
                       ELSE IF proc[p].kind \in Owners THEN own[proc[p].kind] = p
                       ELSE proc[p].finished => \E i \in DOMAIN stack : stack[i].ends = p
  /\ charMode => Alive(own["terminal"])

(* An owner that keeps listening is told of the exit after everything the   *)
(* process itself wrote, though SIGCHLD may come before the output is read  *)
(* and a descendant may go on writing.                                      *)
OutputBeforeExit ==
  \A p \in InList : proc[p].finished => owed[p] = 0

(* Every process that dies is noticed: told to its owner or freed.  A death *)
(* may come while the list is being walked, or between the end of the       *)
(* output and the exit.                                                     *)
DeathsNoticed ==
  \A p \in Procs : kid[p] = "dead" ~> (p \notin InList \/ proc[p].finished)

(* Of the processes that run on (src/process.c): no callback reaches an     *)
(* owner that has let go, output comes before the exit, and every death is  *)
(* noticed, in whatever order SIGCHLD, output and the commands come.        *)
ProcessesServed == []OwnersKept /\ []OutputBeforeExit /\ DeathsNoticed

(* The walk of the list in process_reap goes on from a process that is      *)
(* still there.                                                             *)
WalkIsLive == \A i \in DOMAIN stack : stack[i].next \in InList \cup {NoProc}
=============================================================================
