------------------------------ MODULE MCShared ------------------------------
(* Lists that change under the eyes of the user, for TLC: the locations     *)
(* that sessions share, windows and what they show, the directory listing,  *)
(* the git status, the compilation and the picker.  A behaviour is one of   *)
(* one of these: the others stay as they began.                             *)
EXTENDS Locations, Windows, Layout, Dired, GitStatus, Compilation, Picker

CONSTANT PARTS    \* the parts that run, each by itself
VARIABLE part

allVars == <<part, vars, winVars, layVars, dirVars, gitVars, compVars, pickerVars>>

WideAndSmall == {<<8, 23>>, <<4, 6>>}
TwoFilesAndDirectory == <<"f", "g", "x">>
TwoFiles == <<"f", "g">>

(* The picker for buffers, for files and for names that must exist; see     *)
(* Picker for what a candidate is.                                          *)
A == <<"a">>
AB == <<"a", "b">>
BA == <<"b", "a">>
ADir == <<"a", "/">>
Candidate(t, g) == [text |-> t, group |-> g]
ForNames == [given |-> <<Candidate(BA, 0), Candidate(AB, 0)>>, file |-> FALSE, require |-> TRUE, preselect |-> TRUE,
             fuzzy |-> {}, default |-> 0, headings |-> FALSE, kill |-> FALSE, thread |-> FALSE]
ForFiles == [ForNames EXCEPT !.given = <<>>, !.file = TRUE, !.require = FALSE]
ForBuffers == [ForNames EXCEPT !.given = @ \o <<Candidate(A, 1)>>, !.require = FALSE, !.fuzzy = {0}, !.default = 1,
                               !.headings = TRUE, !.kill = TRUE, !.thread = TRUE]
Pickers == {ForNames, ForFiles, ForBuffers}
InDirectory == (<<>> :> <<Candidate(ADir, 0), Candidate(AB, 1), Candidate(BA, 1)>>)
                 @@ (ADir :> <<Candidate(AB, 1)>>)
FoundByThread == <<Candidate(BA, 2), Candidate(<<"b">>, 2)>>
InHistory == <<A, AB>>

(* A part that is left alone begins in one state only.                      *)
PartsInit == /\ part \in PARTS
             /\ Init /\ (part # "locations" => file = <<>>)
             /\ WinInit
             /\ LayInit /\ (part # "layout" => size = <<4, 6>>)
             /\ DirInit /\ (part # "dired" => Cardinality(there) = 1 /\ crosses)
             /\ GitInit /\ (part # "git" => repo.tree = {} /\ ~running)
             /\ CompInit
             /\ PickerInit /\ (part # "picker" => panel.spec = ForNames)

PartsNext ==
    \/ part = "locations" /\ Next /\ UNCHANGED <<part, winVars, layVars, dirVars, gitVars, compVars, pickerVars>>
    \/ part = "windows" /\ WinNext /\ UNCHANGED <<part, vars, layVars, dirVars, gitVars, compVars, pickerVars>>
    \/ part = "layout" /\ LayNext /\ UNCHANGED <<part, vars, winVars, dirVars, gitVars, compVars, pickerVars>>
    \/ part = "dired" /\ DirNext /\ UNCHANGED <<part, vars, winVars, layVars, gitVars, compVars, pickerVars>>
    \/ part = "git" /\ GitNext /\ UNCHANGED <<part, vars, winVars, layVars, dirVars, compVars, pickerVars>>
    \/ part = "compilation" /\ CompNext /\ UNCHANGED <<part, vars, winVars, layVars, dirVars, gitVars, pickerVars>>
    \/ part = "picker" /\ PickerNext /\ UNCHANGED <<part, vars, winVars, layVars, dirVars, gitVars, compVars>>

PartsSpec == PartsInit /\ [][PartsNext]_allVars
=============================================================================
