--------------------------- MODULE PipedCommands ---------------------------
(***************************************************************************)
(* Commands the editor runs and waits for: process_run (src/process.c),    *)
(* run_command (src/shell.c) and run_argv (src/remote.c).  All feed a      *)
(* child its input and read its outputs at once, through pipes that hold   *)
(* little; run_command has one pipe for both outputs.  These two wait as   *)
(* long as it takes.  run_argv gives up after a time or at C-g, reads the  *)
(* keyboard meanwhile and gives back the keys it read, and does not wait   *)
(* for a descendant of the child that holds the pipes (the shared ssh      *)
(* connection) once the child has exited.                                  *)
(***************************************************************************)
EXTENDS Integers, SequencesExt

CONSTANTS PIPE_SIZE,     \* chunks a pipe holds
          MAX_INPUT,     \* bound: chunks of input
          MAX_ANSWER,    \* bound: chunks the child writes to each output
          MAX_KEYS       \* bound: keys typed

ASSUME PipeAssumption == PIPE_SIZE \in Nat \ {0} /\ {MAX_INPUT, MAX_ANSWER, MAX_KEYS} \subseteq Nat

Outputs == {"out", "err"}
Ways == {"process_run", "run_command", "run_argv"}

VARIABLES
    how,       \* the function that runs it
    cancels,   \* which of the keys typed is C-g, if any
    phase,     \* "start", "loop", "wait" for the child, "done"
    outcome,    \* "none", "ran", "cancelled", "timed out"
    child,     \* "runs", "exited", "reaped"
    wants,     \* what the child does next: "in", an output, "exit"
    holder,    \* whether a descendant holds the outputs' pipes
    toFeed,    \* input not written yet
    inOpen,
    inPipe,    \* chunks in the pipe of the input
    outPipe,   \* chunks in the pipe of each output
    outOpen,
    wrote,     \* what the child has written to each output
    got,       \* what the editor has read of each
    late,      \* 200 ms have passed since the exit was seen
    queued,    \* keys were waiting at the start
    keyBuf, typed, tty,  \* key_buf, the keys read while waiting, those not read
    keys,      \* number of keys typed
    used,      \* the C-g that cancelled, or 0
    applied    \* whether shell-command has used the answer

bounded == how = "run_argv"
Pipes == IF how = "run_command" THEN {"out"} ELSE Outputs

cmdChildVars == <<child, wants, holder, wrote>>
cmdKeyVars == <<queued, keyBuf, typed, tty, keys, used>>
cmdPipeVars == <<toFeed, inOpen, inPipe, outPipe, outOpen, got, late>>
cmdVars == <<how, cancels, phase, outcome, applied, cmdChildVars, cmdKeyVars, cmdPipeVars>>

CmdInit == /\ how \in Ways
           /\ cancels \in {{}} \cup {{i} : i \in 1 .. MAX_KEYS}
           /\ phase = "start" /\ outcome = "none"
           /\ child = "runs" /\ wants \in {"in", "exit"} \cup Pipes /\ holder \in BOOLEAN
           /\ toFeed \in 0 .. MAX_INPUT
           /\ inOpen = (toFeed > 0)
           /\ inPipe = 0
           /\ outPipe = [o \in Outputs |-> 0]
           /\ outOpen = [o \in Outputs |-> o \in Pipes]
           /\ wrote = [o \in Outputs |-> 0]
           /\ got = [o \in Outputs |-> 0]
           /\ late = FALSE
           /\ keys \in {0, MAX_KEYS \div 2} /\ keyBuf = [i \in 1 .. keys |-> i]
           /\ queued = FALSE /\ typed = <<>> /\ tty = <<>> /\ used = 0 /\ applied = FALSE

-----------------------------------------------------------------------------
(* The child reads its input, writes and exits, and each of these may have  *)
(* to wait: it does nothing else meanwhile.                                 *)

Wants == wants' \in {"in", "exit"} \cup {o \in Pipes : wrote'[o] < MAX_ANSWER}

ChildReads == /\ child = "runs" /\ wants = "in"
              /\ inPipe > 0 \/ ~inOpen
              /\ inPipe' = IF inPipe > 0 THEN inPipe - 1 ELSE 0
              /\ wrote' = wrote
              /\ IF inPipe > 0 THEN Wants ELSE wants' = "exit"
              /\ UNCHANGED <<child, holder, toFeed, inOpen, outPipe, outOpen, got, late>>

ChildWrites == /\ child = "runs" /\ wants \in Outputs
               /\ outPipe[wants] < PIPE_SIZE \/ ~outOpen[wants]
               /\ outPipe' = IF outOpen[wants] THEN [outPipe EXCEPT ![wants] = @ + 1] ELSE outPipe
               /\ wrote' = [wrote EXCEPT ![wants] = @ + 1]
               /\ Wants
               /\ UNCHANGED <<child, holder, toFeed, inOpen, inPipe, outOpen, got, late>>

ChildExits == /\ child = "runs" /\ wants = "exit"
              /\ child' = "exited"
              /\ UNCHANGED <<wants, holder, wrote, toFeed, inOpen, inPipe, outPipe, outOpen, got, late>>

HolderEnds == /\ holder /\ child # "runs"
              /\ holder' = FALSE
              /\ UNCHANGED <<child, wants, wrote, toFeed, inOpen, inPipe, outPipe, outOpen, got, late>>

ChildActs == /\ ChildReads \/ ChildWrites \/ ChildExits \/ HolderEnds
             /\ UNCHANGED <<how, cancels, phase, outcome, applied, cmdKeyVars>>

KeyTyped == /\ keys < MAX_KEYS
            /\ phase # "done"
            /\ keys' = keys + 1
            /\ tty' = Append(tty, keys + 1)
            /\ UNCHANGED <<how, cancels, phase, outcome, applied, cmdChildVars, cmdPipeVars, queued, keyBuf, typed, used>>

-----------------------------------------------------------------------------
(* The editor *)

EndsWith(r) == /\ phase' = "wait"
               /\ outcome' = r

(* Keys that wait already are left, except for a C-g next in line.          *)
Begin == /\ phase = "start"
         /\ LET first == bounded /\ keyBuf # <<>>
                gives == IF first THEN Head(keyBuf) \in cancels ELSE FALSE
            IN  /\ queued' = first
                /\ keyBuf' = IF gives THEN Tail(keyBuf) ELSE keyBuf
                /\ used' = IF gives THEN Head(keyBuf) ELSE 0
                /\ IF gives THEN EndsWith("cancelled") ELSE phase' = "loop" /\ UNCHANGED outcome
         /\ UNCHANGED <<how, cancels, applied, cmdChildVars, cmdPipeVars, typed, tty, keys>>

Writers == child = "runs" \/ holder
AllRead == \A o \in Outputs : ~outOpen[o]

(* What poll finds ready is handled.                                        *)
Feed == /\ phase = "loop" /\ inOpen
        /\ inPipe < PIPE_SIZE \/ child # "runs"
        /\ toFeed' = IF child = "runs" THEN toFeed - 1 ELSE toFeed
        /\ inPipe' = IF child = "runs" THEN inPipe + 1 ELSE inPipe
        /\ inOpen' = (child = "runs" /\ toFeed' > 0)
        /\ UNCHANGED <<how, cancels, phase, outcome, applied, cmdChildVars, cmdKeyVars, outPipe, outOpen, got, late>>

ReadyToRead_AfterInput(o) == ~inOpen /\ (outPipe[o] > 0 \/ ~Writers)
ReadyToRead(o) == outPipe[o] > 0 \/ ~Writers

ReadOutput(o) ==
           /\ phase = "loop" /\ outOpen[o]
           /\ ReadyToRead(o)
           /\ got' = [got EXCEPT ![o] = @ + outPipe[o]]
           /\ outPipe' = [outPipe EXCEPT ![o] = 0]
           /\ outOpen' = [outOpen EXCEPT ![o] = outPipe[o] > 0]
           /\ UNCHANGED <<how, cancels, phase, outcome, applied, cmdChildVars, cmdKeyVars, toFeed, inOpen, inPipe, late>>

(* The time passes only between polls: what the child wrote is read first.  *)
Late == /\ phase = "loop" /\ bounded /\ child = "reaped" /\ ~late
        /\ \A o \in Outputs : outPipe[o] = 0
        /\ late' = TRUE
        /\ UNCHANGED <<how, cancels, phase, outcome, applied, cmdChildVars, cmdKeyVars, toFeed, inOpen, inPipe, outPipe, outOpen, got>>

SeesExit == /\ phase = "loop" /\ bounded /\ child = "exited"
            /\ child' = "reaped"
            /\ UNCHANGED <<how, cancels, phase, outcome, applied, wants, holder, wrote, cmdKeyVars, cmdPipeVars>>

Over == IF bounded THEN child = "reaped" /\ (AllRead \/ late) ELSE AllRead

LoopEnds == /\ phase = "loop"
            /\ \/ Over /\ EndsWith("ran")
               \/ bounded /\ EndsWith("timed out")
            /\ UNCHANGED <<how, cancels, applied, cmdChildVars, cmdKeyVars, cmdPipeVars>>

TakeKey == /\ phase = "loop" /\ bounded /\ ~queued /\ tty # <<>>
           /\ tty' = Tail(tty)
           /\ IF Head(tty) \in cancels
              THEN used' = Head(tty) /\ EndsWith("cancelled") /\ UNCHANGED typed
              ELSE typed' = Append(typed, Head(tty)) /\ UNCHANGED <<phase, outcome, used>>
           /\ UNCHANGED <<how, cancels, applied, cmdChildVars, cmdPipeVars, queued, keyBuf, keys>>

(* The last key read is given back first.                                   *)
GivenBack == typed \o keyBuf

(* The pipes are closed; the child is waited for, or killed first.          *)
CommandFinished ==
            /\ phase = "wait"
            /\ outcome = "ran" => child # "runs"
            /\ phase' = "done"
            /\ child' = "reaped"
            /\ inOpen' = FALSE
            /\ outOpen' = [o \in Outputs |-> FALSE]
            /\ keyBuf' = GivenBack
            /\ typed' = <<>>
            /\ UNCHANGED <<how, cancels, applied, outcome, wants, holder, wrote, toFeed, inPipe, outPipe, got, late,
                           queued, tty, keys, used>>

(* pipe_command inserts or shows the answer; a command given up changes     *)
(* nothing.                                                                 *)
PipeCommand == /\ phase = "done" /\ outcome = "ran" /\ how # "process_run"
               /\ applied' = TRUE
               /\ UNCHANGED <<how, cancels, phase, outcome, cmdChildVars, cmdPipeVars, cmdKeyVars>>

CmdLoop == Begin \/ Feed \/ (\E o \in Outputs : ReadOutput(o)) \/ SeesExit \/ (Over /\ LoopEnds) \/ CommandFinished

CmdNext == ChildActs \/ KeyTyped \/ Begin \/ Feed \/ (\E o \in Outputs : ReadOutput(o)) \/ Late \/ SeesExit
           \/ LoopEnds \/ TakeKey \/ CommandFinished \/ PipeCommand

(* The editor goes on, and the child does what it can.                      *)
CmdFairness == WF_cmdVars(CmdLoop) /\ WF_cmdVars(ChildActs)

-----------------------------------------------------------------------------
(* A command that is said to have run has its whole answer, though the exit *)
(* may be seen before the answer is read.  No key typed meanwhile is lost   *)
(* or read in another order, except for the C-g that gave up the command.   *)
RunIsWhole ==
  /\ (phase = "done" /\ outcome = "ran") \/ applied => got = wrote
  /\ keyBuf \o typed \o tty = SelectSeq([i \in 1 .. keys |-> i], LAMBDA k : k # used)
  /\ used # 0 => used \in cancels /\ outcome = "cancelled"
  /\ phase = "done" => child = "reaped"

(* The wait ends, whatever order the child reads and writes in, and though  *)
(* every pipe may be full.                                                  *)
RunEnds == phase \in {"loop", "wait"} ~> phase = "done"

(* process_run, run_argv and the like return, with all of the output or     *)
(* with why not: after a C-g, a timeout, a child that stops reading or one  *)
(* that leaves the pipe to another.                                         *)
RunsAnswered == []RunIsWhole /\ RunEnds
=============================================================================
