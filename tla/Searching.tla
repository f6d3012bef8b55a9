------------------------------ MODULE Searching ------------------------------
(***************************************************************************)
(* Searching and replacing in the current buffer (src/search.c): plain and *)
(* incremental searches, and query-replace.  Each waits for keys between   *)
(* its steps; while it does, what runs in the background may read a        *)
(* changed file into the buffer (buffers_check_disk of src/file.c).        *)
(*                                                                         *)
(* Offsets count from 0.  Abstracted: patterns are plain strings and match *)
(* their own letters only; the searched text, once replaced in, keeps its  *)
(* case; counting and highlighting matches only read the text.             *)
(***************************************************************************)
EXTENDS Integers, Sequences, SequencesExt

CONSTANTS SearchLetters, FileTexts, \* letters, and the texts a file may hold
          Replacements,    \* what query-replace puts
          SHRINKS,         \* whether a file read again may be too short for the places
                           \* of a search going on (goes on at other places, not modelled)
          MAX_PATTERN, MAX_SEARCHES                              \* bounds

ASSUME SearchAssumption == /\ FileTexts \cup Replacements \subseteq Seq(SearchLetters)
                           /\ SHRINKS \in BOOLEAN /\ MAX_PATTERN \in Nat

NoDocMark == -1
NoMatch == <<0, 0>>

VARIABLES
    doc, docPoint, docMark,
    docModified,\* the buffer is, so that a changed file is not read into it
    searching,  \* "none", "isearch" or "query"
    pattern,    \* of the isearch, or what query-replace finds
    forward,    \* the direction of the isearch
    from, cur,  \* its `start' and `cur'
    last,       \* its last search found a match
    match,      \* match_start and match_end
    oldMark,    \* the mark when it started
    lastSearch, \* last_search
    repl, noask,\* the replacement, and whether `!' has been typed
    replaced, unread, \* history: the text query-replace has been through, and the rest
    reread,     \* history: the file was read again since the last round or answer
    searches
docVars == <<doc, docPoint, docMark, docModified>>
isearchVars == <<forward, from, cur, last, oldMark>>
queryVars == <<repl, noask, replaced, unread>>
searchVars == <<docVars, searching, pattern, isearchVars, match, lastSearch, queryVars, reread, searches>>

SearchInit ==
    /\ doc \in FileTexts
    /\ docPoint \in 0 .. Len(doc)
    /\ docMark \in {NoDocMark} \cup 0 .. Len(doc)
    /\ docModified = FALSE /\ reread = FALSE
    /\ searching = "none" /\ pattern = <<>>
    /\ forward = TRUE /\ from = 0 /\ cur = 0 /\ last = TRUE /\ oldMark = NoDocMark
    /\ match = NoMatch /\ lastSearch = <<>>
    /\ repl = <<>> /\ noask = FALSE /\ replaced = <<>> /\ unread = <<>>
    /\ searches = 0

Patterns == UNION {[1 .. n -> SearchLetters] : n \in 1 .. MAX_PATTERN}

-----------------------------------------------------------------------------
(* search: the first match after o, or the last before it                   *)
Matches(p, t) == {k \in 0 .. Len(t) - Len(p) : SubSeq(t, k + 1, k + Len(p)) = p}
After(p, t, o) == {k \in Matches(p, t) : k >= o}
MatchesBefore(p, t, o) == {k \in Matches(p, t) : k + Len(p) <= o}
First(s) == CHOOSE k \in s : \A j \in s : k <= j
Final(s) == CHOOSE k \in s : \A j \in s : j <= k

Found(p, t, o, fwd) == p # <<>> /\ (IF fwd THEN After(p, t, o) ELSE MatchesBefore(p, t, o)) # {}
Start(p, t, o, fwd) == IF fwd THEN First(After(p, t, o)) ELSE Final(MatchesBefore(p, t, o))

Searched(p, o, fwd) ==
    IF Found(p, doc, o, fwd)
    THEN LET k == Start(p, doc, o, fwd)
         IN  /\ match' = <<k, k + Len(p)>>
             /\ docPoint' = IF fwd THEN k + Len(p) ELSE k
    ELSE docPoint' = o /\ UNCHANGED match

(* A search begins when what is told of the last one is forgotten.          *)
Over == match # NoMatch \/ pattern # <<>> \/ unread \o replaced # <<>>
Begins == searching = "none" /\ ~Over /\ searches < MAX_SEARCHES

(* do_search, of a pattern asked for *)
Search(p, fwd) ==
    /\ lastSearch' = p
    /\ Searched(p, docPoint, fwd)
    /\ UNCHANGED <<doc, docMark, docModified, isearchVars, queryVars, reread>>
SearchOnce ==
    \E p \in Patterns, fwd \in BOOLEAN :
      /\ Begins
      /\ searches' = searches + 1
      /\ Search(p, fwd)
      /\ UNCHANGED <<searching, pattern>>

-----------------------------------------------------------------------------
(* isearch *)

Isearch ==
    \E fwd \in BOOLEAN :
      /\ Begins
      /\ searches' = searches + 1
      /\ searching' = "isearch"
      /\ pattern' = <<>>
      /\ forward' = fwd /\ from' = docPoint /\ cur' = docPoint /\ last' = TRUE
      /\ oldMark' = docMark
      /\ reread' = FALSE
      /\ UNCHANGED <<docVars, match, lastSearch, queryVars>>

(* The end of a round: the pattern is searched for from `cur'               *)
Round(p, o, fwd) ==
    /\ pattern' = p /\ cur' = o /\ forward' = fwd
    /\ IF p = <<>> THEN last' = TRUE /\ UNCHANGED match /\ docPoint' = o
       ELSE last' = Found(p, doc, o, fwd) /\ Searched(p, o, fwd)
    /\ reread' = FALSE
    /\ UNCHANGED <<doc, docMark, docModified, searching, from, oldMark, queryVars, searches>>

InIsearch == searching = "isearch"
Add == \E c \in SearchLetters :
          /\ InIsearch /\ Len(pattern) < MAX_PATTERN
          /\ Round(Append(pattern, c), cur, forward) /\ UNCHANGED lastSearch
Backspace ==
    InIsearch /\ pattern # <<>> /\ Round(Front(pattern), from, forward) /\ UNCHANGED lastSearch
Repeat ==
    \E fwd \in BOOLEAN :
      /\ InIsearch
      /\ \/ pattern # <<>> /\ Round(pattern, docPoint, fwd) /\ lastSearch' = pattern
         \/ pattern = <<>> /\ Round(lastSearch, cur, fwd) /\ UNCHANGED lastSearch

Done == /\ searching' = "none"
        /\ pattern' = <<>> /\ match' = NoMatch
        /\ forward' = TRUE /\ from' = 0 /\ cur' = 0 /\ last' = TRUE /\ oldMark' = NoDocMark
        /\ repl' = <<>> /\ noask' = FALSE /\ replaced' = <<>> /\ unread' = <<>>
        /\ reread' = FALSE
Abort == /\ InIsearch
         /\ docPoint' = from /\ docMark' = oldMark
         /\ Done
         /\ UNCHANGED <<doc, docModified, lastSearch, searches>>
Exit == /\ InIsearch
        /\ docMark' = IF pattern # <<>> THEN from ELSE docMark
        /\ lastSearch' = IF pattern # <<>> THEN pattern ELSE lastSearch
        /\ Done
        /\ UNCHANGED <<doc, docPoint, docModified, searches>>

ExitToSearch ==
    \E p \in Patterns :
      /\ InIsearch /\ pattern = <<>>
      /\ lastSearch' = p
      /\ Searched(p, docPoint, forward)
      /\ searching' = "none"
      /\ UNCHANGED <<doc, docMark, docModified, pattern, isearchVars, queryVars, reread, searches>>

-----------------------------------------------------------------------------
(* F_query_replace, up to the next match, and what is done with one         *)

NextMatch(t, o, p) ==
    IF After(p, t, o) # {}
    THEN /\ searching' = "query"
         /\ match' = <<First(After(p, t, o)), First(After(p, t, o)) + Len(p)>>
         /\ docPoint' = First(After(p, t, o)) + Len(p)
    ELSE searching' = "none" /\ docPoint' = o /\ match' = NoMatch

QueryReplace ==
    \E p \in Patterns, r \in Replacements :
      /\ Begins
      /\ searches' = searches + 1
      /\ NextMatch(doc, docPoint, p)
      /\ pattern' = p /\ repl' = r /\ noask' = FALSE
      /\ replaced' = SubSeq(doc, 1, docPoint)
      /\ unread' = SubSeq(doc, docPoint + 1, Len(doc))
      /\ reread' = FALSE
      /\ UNCHANGED <<doc, docMark, docModified, isearchVars, lastSearch>>

(* The replaced text is what ends at point.                                 *)
Begin == docPoint - Len(pattern)
PointAfter_Start(o, n) == o
PointAfter(o, n) == o + n
MarkAfter(o, n) ==
    IF docMark = NoDocMark \/ docMark <= o THEN docMark
    ELSE IF docMark + n < docPoint THEN o ELSE docMark + n - Len(pattern)
ReplacedDoc ==
    SubSeq(doc, 1, Begin) \o repl \o SubSeq(doc, docPoint + 1, Len(doc))

(* history: what is passed is what comes before the first match in the     *)
(* rest of the text; or, when that was read again, what is before point     *)
NextUnread == IF Matches(pattern, unread) = {} THEN Len(unread)
              ELSE First(Matches(pattern, unread))
Passed == IF reread THEN SubSeq(doc, 1, Begin) ELSE replaced \o SubSeq(unread, 1, NextUnread)
Rest == IF reread THEN SubSeq(doc, docPoint + 1, Len(doc))
        ELSE SubSeq(unread, NextUnread + Len(pattern) + 1, Len(unread))
Through(new) == replaced' = Passed \o new /\ unread' = Rest /\ reread' = FALSE

Replace(goes) ==
    /\ doc' = ReplacedDoc /\ docModified' = TRUE
    /\ docMark' = MarkAfter(Begin, Len(repl))
    /\ Through(repl)
    /\ IF goes THEN NextMatch(ReplacedDoc, PointAfter(Begin, Len(repl)), pattern)
       ELSE /\ searching' = "none" /\ match' = NoMatch
            /\ docPoint' = PointAfter(Begin, Len(repl))
    /\ UNCHANGED <<pattern, isearchVars, repl, lastSearch, searches>>

InQuery == searching = "query" /\ docPoint >= Len(pattern)
Yes == InQuery /\ Replace(TRUE) /\ UNCHANGED noask
All == InQuery /\ ~noask /\ Replace(TRUE) /\ noask' = TRUE
Only == InQuery /\ ~noask /\ Replace(FALSE) /\ UNCHANGED noask
No == /\ InQuery /\ ~noask
      /\ NextMatch(doc, docPoint, pattern)
      /\ Through(SubSeq(doc, Begin + 1, docPoint))
      /\ UNCHANGED <<doc, docMark, docModified, pattern, isearchVars, repl, noask, lastSearch, searches>>
Quit == /\ InQuery /\ ~noask
        /\ searching' = "none"
        /\ match' = NoMatch
        /\ UNCHANGED <<docVars, pattern, isearchVars, queryVars, reread, lastSearch, searches>>

(* A search that is over is forgotten, but for what it searched for.        *)
Leave == /\ searching = "none" /\ Over
         /\ Done
         /\ UNCHANGED <<docVars, lastSearch, searches>>

(* revert_to_text: only what differs is replaced, so that point stays, or   *)
(* goes to the end when it is too far in what gives way (TextBuffer).       *)
Agree(s, t) == Final({n \in 0 .. Len(s) : n <= Len(t) /\ SubSeq(s, 1, n) = SubSeq(t, 1, n)})
OffsetIn(m, t) ==
    LET p == Agree(doc, t)
        o == m + Len(t)
    IN  IF m <= p THEN m
        ELSE IF o < Len(doc) THEN Len(t)
        ELSE IF o < p + Len(doc) THEN p ELSE o - Len(doc)

(* Whether the places of the search going on are in t too                   *)
Reaches(t) == /\ searching = "isearch" => from <= Len(t) /\ cur <= Len(t)
              /\ searching = "query" => OffsetIn(docPoint, t) >= Len(pattern)

(* buffers_check_disk: between commands, and, while a key is awaited, when  *)
(* Git has ended (refresh_status_of); only an unmodified buffer is reverted *)
Reread ==
    \E t \in FileTexts \ {doc} :
      /\ ~docModified /\ ~noask
      /\ IF searching = "none" THEN ~Over ELSE SHRINKS \/ Reaches(t)
      /\ doc' = t
      /\ docPoint' = OffsetIn(docPoint, t)
      /\ docMark' = OffsetIn(docMark, t)
      /\ oldMark' = OffsetIn(oldMark, t)
      /\ reread' = (searching # "none")
      /\ UNCHANGED <<docModified, searching, pattern, forward, from, cur, last, match, lastSearch,
                     queryVars, searches>>

(* What was replaced is saved, or undone                                    *)
Unmodify ==
    /\ searching = "none" /\ ~Over /\ docModified
    /\ docModified' = FALSE
    /\ UNCHANGED <<doc, docPoint, docMark, searching, pattern, isearchVars, match, lastSearch,
                   queryVars, reread, searches>>

SearchNext == \/ SearchOnce \/ Isearch \/ Add \/ Backspace \/ Repeat \/ Abort \/ Exit \/ ExitToSearch
              \/ QueryReplace \/ Yes \/ All \/ Only \/ No \/ Quit \/ Leave \/ Reread \/ Unmodify
SearchSpec == SearchInit /\ [][SearchNext]_searchVars

-----------------------------------------------------------------------------
(* Properties *)

(* While an isearch waits for a key, the match shown is the pattern, point  *)
(* is at its end, or at its start when searching backward, and it is where  *)
(* it began when nothing is found ("As you type characters, they add to the *)
(* search string and are found", isearch-forward).  This is so again at the *)
(* next key when the file was read again under it.                          *)
IsearchTrue ==
    InIsearch /\ pattern # <<>> /\ ~reread =>
      IF last THEN /\ SubSeq(doc, match[1] + 1, match[2]) = pattern
                   /\ docPoint = IF forward THEN match[2] ELSE match[1]
      ELSE docPoint = cur

(* query-replace asks about a match, and goes once through what was in the  *)
(* buffer when it began, from point on: what has been put is not searched   *)
(* again, what is skipped is not asked about again, and nothing between     *)
(* matches is passed over.  A file read again while it asks is gone through *)
(* from the next answer on.                                                 *)
QueryInStep ==
    ~reread =>
      /\ unread \o replaced # <<>> => doc = replaced \o unread
      /\ searching = "query" => /\ docPoint = Len(replaced) + NextUnread + Len(pattern)
                                /\ SubSeq(doc, Begin + 1, docPoint) = pattern

(* Where a search goes back to, and what it is to replace, is in the text.  *)
PlacesInText == /\ InIsearch => {from, cur} \subseteq 0 .. Len(doc)
                /\ searching = "query" => Len(pattern) <= docPoint

(* Searching and replacing never lose their place in the text: isearch      *)
(* shows a match of the string typed, or is back where it began, and query- *)
(* replace goes once through the text that was there, also when the file is *)
(* read again between two keys (src/search.c).                              *)
SearchesTrue == IsearchTrue /\ QueryInStep /\ PlacesInText

(* What query-replace replaces is a match ("As each match is found, the     *)
(* user must type a character saying what to do with it."): not so of the   *)
(* answer after a file was read again.                                      *)
MatchesReplaced == [][searching = "query" /\ doc' # doc /\ ~reread' =>
                        SubSeq(doc, Begin + 1, docPoint) = pattern]_searchVars
=============================================================================
