----------------------------- MODULE MCAwaited ------------------------------
(* What must come to its end, for TLC: the preview workers' jobs, reading   *)
(* what is typed, and the commands that loop over the text.  A behaviour is *)
(* one of one of these: the others stay as they began.                      *)
EXTENDS PreviewWorkers, KeyInput, TextCommands

CONSTANT PARTS    \* the parts that run, each by itself
VARIABLE part

allVars == <<part, vars, inputVars, lineVars>>

Presses == {<<"text">>, <<"ESC">>, <<"ESC", "[", "A">>, <<"ESC", "O", "A">>, <<"ESC", "[", "1", ";", "3", "A">>}
Paste == <<"ESC", "[", "2", "0", "0", "~", "text", "ESC", "[", "2", "ESC", "[", "2", "0", "1", "~">>
PressesAndPaste == Presses \cup {Paste}

Texts == {<<>>, <<"\n", "\n">>, <<"a", "\n", "b">>, <<"a", "\n", "b", "\n">>, <<"a", "b", "\n", "a">>,
          <<"a", "b", " ", "a", "b">>, <<" ", " ", "a", " ", "b">>, <<"\n", "\n", "b", " ", "\n">>,
          <<" ", "a", " ", "b", "\n">>, <<"a", " ", "b", "\n", " ", " ">>,
          <<"a", "b", " ", "b", "\n", "b">>, <<"b", " ", " ", "a", "\n", "a">>,
          <<"a", "\n", "\n", " ", "\n", "b">>}

(* One line with one space, which is its last character                     *)
SpaceAtEnd == {<<"a", " ">>}

(* A part that is left alone begins in one state only.                      *)
PartsInit == /\ part \in PARTS
             /\ Init /\ (part # "previews" => \A w \in Windows : width[w] = CHOOSE n \in Widths : TRUE)
             /\ KeyInit
             /\ LineInit /\ (part # "text" => ed.text = <<>> /\ ~ed.autofill /\ ~ed.readonly)

PartsNext == \/ part = "previews" /\ Next /\ UNCHANGED <<part, inputVars, lineVars>>
             \/ part = "keys" /\ KeyNext /\ UNCHANGED <<part, vars, lineVars>>
             \/ part = "text" /\ LineNext /\ UNCHANGED <<part, vars, inputVars>>

(* The fairness of each part, where it is the one that runs.                *)
PartsFairness ==
    /\ WF_vars(part = "previews" /\ Main)
    /\ \A i \in Workers : WF_vars(part = "previews" /\ Worker(i))
    /\ WF_inputVars(part = "keys" /\ ReadKey)
    /\ WF_lineVars(part = "text" /\ LineLoop)

PartsSpec == PartsInit /\ [][PartsNext]_allVars /\ PartsFairness
=============================================================================
