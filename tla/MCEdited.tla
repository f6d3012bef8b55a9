------------------------------ MODULE MCEdited ------------------------------
(* Text and the commands on it, for TLC: undoing, the gap buffer, searching *)
(* and replacing, killing and yanking, and regular expressions.  A          *)
(* behaviour is one of one of these: the others stay as they began.         *)
EXTENDS Editing, TextBuffer, Searching, KillRing, Regexps

CONSTANT PARTS    \* the parts that run, each by itself
VARIABLE part

allVars == <<part, vars, textVars, searchVars, killVars, regexVars>>

BufferSymmetry == Permutations(Buffers)

SearchedTexts == {<<"a", "a">>, <<"a", "b", "a">>, <<"a", "a", "a", "a">>, <<"a", "b", "a", "b">>,
                  <<"b", "b", "a", "a">>}
ReplacedWith == {<<>>, <<"a">>, <<"a", "b">>}

(* Groups, classes of characters, and operators at the edges of patterns.   *)
GroupPatterns == {<<"\\(", "a">> \o p \o <<"\\)">> \o q :
                    p \in {<<>>, <<"*">>, <<"\\|", "b">>, <<"*", "?">>, <<"\\|">>},
                    q \in {<<"*">>, <<"*", "b">>, <<"\\1">>, <<"*", "\\1">>, <<"{2}">>,
                           <<"+", "?", "b">>, <<"{1,2}", "b">>}}
ClassPatterns == {<<x, y>> \o q : x \in {".", "[^b]", "\\w"}, y \in {"*", "\\|", "?"},
                                  q \in {<<"?", ".">>, <<".", "b">>, <<"\\<">>, <<"cont">>}}
EdgePatterns == {<<"a", "\\|", "a", "b">>, <<"^", "*", "b", "$">>, <<"a", "$">>, <<"^", "a", "?">>,
                 <<"\\<", "a">>, <<"b", "\\b">>, <<"a", "?", "\\|", "^", "b">>, <<"*">>, <<"\\)">>, <<"\\(">>}
CompiledPatterns == GroupPatterns \cup ClassPatterns \cup EdgePatterns
MatchedTexts == UNION {[1 .. n -> {"a", "b", "nl"}] : n \in 1 .. 2}
                \cup {<<"a", "a", "b">>, <<"lead", "cont">>, <<"a", "lead", "cont">>, <<"lead", "cont", "b">>,
                      <<"a", "b", "a", "b">>, <<"lead", "lead", "cont", "a">>}
CharactersBefore == {"none", "a"}

(* A part that is left alone begins in one state only.                      *)
PartsInit == /\ part \in PARTS
             /\ Init /\ (part # "undo" => current = CHOOSE b \in Buffers : TRUE)
             /\ TextInit /\ (part # "buffer" => stride = 2)
             /\ SearchInit /\ (part # "search" => doc = <<"a", "a">> /\ docPoint = 0)
             /\ docMark \in {NoDocMark} \cup (IF part = "search" THEN {1} ELSE {})
             /\ KillInit /\ (part # "kill" => reach = "none" /\ clip = Null)
             /\ RegexInit

PartsNext ==
    \/ part = "undo" /\ Next /\ UNCHANGED <<part, textVars, searchVars, killVars, regexVars>>
    \/ part = "buffer" /\ TextNext /\ UNCHANGED <<part, vars, searchVars, killVars, regexVars>>
    \/ part = "search" /\ SearchNext /\ UNCHANGED <<part, vars, textVars, killVars, regexVars>>
    \/ part = "kill" /\ KillNext /\ UNCHANGED <<part, vars, textVars, searchVars, regexVars>>
    \/ part = "regexps" /\ RegexNext /\ UNCHANGED <<part, vars, textVars, searchVars, killVars>>

PartsSpec == PartsInit /\ [][PartsNext]_allVars
=============================================================================
