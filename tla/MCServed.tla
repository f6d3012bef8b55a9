------------------------------ MODULE MCServed ------------------------------
(* What others have a hand in, for TLC: the bookmark file, processes that   *)
(* run on and commands that are waited for.  A behaviour is one of one of   *)
(* these: the others stay as they began.                                    *)
EXTENDS Bookmarks, Processes, PipedCommands

CONSTANT PARTS    \* the parts that run, each by itself
VARIABLE part

allVars == <<part, vars, procVars, cmdVars>>

(* A part that is left alone begins in one state only.                      *)
PartsInit == /\ part \in PARTS
             /\ Init /\ (part # "bookmarks" => file = EmptyList)
             /\ ProcInit
             /\ CmdInit /\ (part # "piped" => /\ how = "run_argv" /\ cancels = {} /\ wants = "in"
                                              /\ ~holder /\ toFeed = 0 /\ keys = 0)

PartsNext == \/ part = "bookmarks" /\ Next /\ UNCHANGED <<part, procVars, cmdVars>>
             \/ part = "processes" /\ ProcNext /\ UNCHANGED <<part, vars, cmdVars>>
             \/ part = "piped" /\ CmdNext /\ UNCHANGED <<part, vars, procVars>>

(* The fairness of each part, where it is the one that runs.                *)
PartsFairness ==
    /\ \A s \in Sessions \ Stuck : WF_vars(part = "bookmarks" /\ Commit(s))
    /\ WF_procVars(part = "processes" /\ ProcLoop)
    /\ WF_cmdVars(part = "piped" /\ CmdLoop)
    /\ WF_cmdVars(part = "piped" /\ ChildActs)

PartsSpec == PartsInit /\ [][PartsNext]_allVars /\ PartsFairness
=============================================================================
