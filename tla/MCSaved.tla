------------------------------ MODULE MCSaved -------------------------------
(* What must not be lost, for TLC: bookmarks and files as they are saved,   *)
(* what was printed in a terminal buffer, and what is on the screen.  A     *)
(* behaviour is one of one of these: the others stay as they began.         *)
EXTENDS Bookmarks, FileSaving, Terminal, ScreenRefresh

CONSTANT PARTS    \* the parts that run, each by itself
VARIABLE part

allVars == <<part, vars, fsVars, termVars, screenVars>>

TwoSizesAndNarrow == {<<2, 3>>, <<1, 3>>, <<3, 2>>}

(* A narrow character, a wide one, one that combines and a control          *)
(* character: see ScreenRefresh.                                            *)
LinesShown == {<<>>, <<"a">>, <<"W">>, <<"a", "W">>, <<"W", "b">>, <<"W", "m", "W">>, <<"m", "C">>,
               <<"a", "a", "W", "W", "W", "b">>}

(* A part that is left alone begins in one state only.                      *)
PartsInit == /\ part \in PARTS
             /\ Init /\ (part # "bookmarks" => file = EmptyList)
             /\ FsInit /\ (part # "files" => ~far /\ disk = CHOOSE c \in Contents : TRUE)
             /\ TermInit /\ (part # "terminal" => term.cols = 3 /\ term.rows = 2)
             /\ ScreenInit /\ (part # "screen" => \A n \in Widths : scr.cols <= n)

PartsNext == \/ part = "bookmarks" /\ Next /\ UNCHANGED <<part, fsVars, termVars, screenVars>>
             \/ part = "files" /\ FsNext /\ UNCHANGED <<part, vars, termVars, screenVars>>
             \/ part = "terminal" /\ TermNext /\ UNCHANGED <<part, vars, fsVars, screenVars>>
             \/ part = "screen" /\ ScreenNext /\ UNCHANGED <<part, vars, fsVars, termVars>>

PartsSpec == PartsInit /\ [][PartsNext]_allVars
=============================================================================
