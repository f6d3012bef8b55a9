------------------------------- MODULE KillRing -------------------------------
(***************************************************************************)
(* The text that yank inserts (src/killring.c) and the system clipboard    *)
(* (src/clipboard.c).  Consecutive kills add up; what has been killed goes *)
(* to the clipboard when the command is over, and what another program has *)
(* copied since is taken from it when something is yanked.                 *)
(*                                                                         *)
(* A text is the sequence of the pieces it was killed in.  An action is a  *)
(* command, up to the flush of the main loop, but for commands that read   *)
(* in the minibuffer.  Clipboard programs never fail.                      *)
(***************************************************************************)
EXTENDS Naturals, Sequences

CONSTANTS Pieces,
          KILLS_AGAIN,   \* whether a text is killed that was the last put on the clipboard
          KILLS_NOTHING, \* whether a first kill command is given where there is nothing to kill
          COPIES_BETWEEN,\* whether another program copies before a kill made in the minibuffer
                         \* is put on the clipboard
          MAX_KILLS                                               \* bound

Null == <<>>     \* no text, and the empty one

VARIABLES
    ring,      \* kill_ring_text
    lastKill,  \* whether last_command is kill-region
    pending,
    lastText,  \* last_text
    clip,      \* what the clipboard holds
    reach,     \* clipboards can be "read", "written" only, or not at all ("none")
    reading,   \* whether a command reads in the minibuffer
    killed,    \* history: the kills since a command of another kind
    latest,    \* history: what was killed here or copied elsewhere last
    kills
killVars == <<ring, lastKill, pending, lastText, clip, reach, reading, killed, latest, kills>>

KillInit ==
    /\ reach \in {"read", "written", "none"}
    /\ clip \in {Null} \cup {<<t>> : t \in Pieces}
    /\ ring = Null /\ lastText = Null
    /\ lastKill = FALSE /\ pending = FALSE /\ reading = FALSE
    /\ latest = IF reach = "read" THEN clip ELSE Null
    /\ killed = Null /\ kills = 0

-----------------------------------------------------------------------------
(* maybe_destroy_kill_ring, and kill_ring_push of pieces                    *)
Base_Always == ring
Base == IF lastKill THEN ring ELSE Null
Pushed(t) == Base \o t

(* clipboard_flush, of a kill ring that has just been set to t              *)
Flushed(t) == t # Null /\ reach # "none" /\ t # lastText
Flush(t) ==
    /\ pending' = FALSE
    /\ IF Flushed(t) THEN lastText' = t /\ clip' = t ELSE UNCHANGED <<lastText, clip>>

Texts == UNION {[1 .. n -> Pieces] : n \in 1 .. 2}
CountedKill(t) == kills < MAX_KILLS /\ kills' = kills + 1
              /\ (KILLS_AGAIN \/ t # lastText \/ reach = "none" \/ clip = t)

Killed(t) == /\ killed' = IF lastKill THEN killed \o t ELSE t
             /\ latest' = killed'

(* kill-region, kill-line, kill-word and others; copy-region-as-kill         *)
KillText ==
    \E t \in Texts :
      /\ ~reading
      /\ CountedKill(Pushed(t))
      /\ ring' = Pushed(t)
      /\ Killed(t)
      /\ lastKill' = TRUE
      /\ Flush(Pushed(t))
      /\ UNCHANGED <<reach, reading>>

(* F_kill_line at the end of the buffer, kill_text in a read-only one       *)
KillNothing ==
    /\ KILLS_NOTHING \/ ring = Base
    /\ ~reading
    /\ ring' = Base
    /\ lastKill' = FALSE
    /\ Flush(Base)
    /\ UNCHANGED <<reach, reading, killed, latest, kills>>

(* dired-copy-filename-as-kill, and a selection in a terminal               *)
CopyNames ==
    \E t \in Texts :
      /\ ~reading
      /\ CountedKill(t)
      /\ ring' = t /\ latest' = t /\ killed' = t
      /\ lastKill' = FALSE
      /\ Flush(t)
      /\ UNCHANGED <<reach, reading>>

(* A command of another kind; one that reads in the minibuffer, where C-k   *)
(* kills, and C-y yanks what has been killed here.                          *)
OtherCommand ==
    /\ ~reading
    /\ \/ reading' = TRUE /\ UNCHANGED lastKill
       \/ lastKill' = FALSE /\ UNCHANGED reading
    /\ UNCHANGED <<ring, pending, lastText, clip, reach, killed, latest, kills>>
EndReading ==
    /\ reading
    /\ reading' = FALSE /\ lastKill' = FALSE
    /\ IF pending THEN Flush(ring) ELSE UNCHANGED <<pending, lastText, clip>>
    /\ UNCHANGED <<ring, reach, killed, latest, kills>>
MinibufKill ==
    \E t \in Pieces :
      /\ reading
      /\ CountedKill(Pushed(<<t>>))
      /\ ring' = Pushed(<<t>>)
      /\ Killed(<<t>>)
      /\ pending' = TRUE
      /\ UNCHANGED <<lastKill, lastText, clip, reach, reading>>

(* clipboard_fetch after its flush: what another program has put there      *)
Fetched == reach = "read" /\ clip # Null /\ clip # lastText
Yanked == IF Fetched THEN clip ELSE ring

(* F_yank, F_term_paste *)
Yank ==
    /\ ~reading
    /\ ring' = Yanked
    /\ lastText' = IF Fetched THEN clip ELSE lastText
    /\ lastKill' = FALSE
    /\ UNCHANGED <<pending, clip, reach, reading, killed, latest, kills>>

(* Another program copies something.                                        *)
OtherCopies ==
    \E t \in Pieces :
      /\ kills < MAX_KILLS
      /\ pending => COPIES_BETWEEN
      /\ kills' = kills + 1
      /\ clip' = <<t>>
      /\ latest' = IF reach = "read" /\ clip # <<t>> THEN <<t>> ELSE latest
      /\ UNCHANGED <<ring, lastKill, pending, lastText, reach, reading, killed>>

KillNext == \/ KillText \/ KillNothing \/ CopyNames \/ OtherCommand \/ EndReading
            \/ MinibufKill \/ Yank \/ OtherCopies

KillSpec == KillInit /\ [][KillNext]_killVars

-----------------------------------------------------------------------------
(* Properties *)

(* Between commands, yank would insert what was last killed here or copied  *)
(* by another program, kills made one after the other together, whatever    *)
(* came between ("Reinsert (\"paste\") the last stretch of killed text.",   *)
(* F_yank, and "yank (and term-paste) inserts what another program          *)
(* copied", NEWS).                                                          *)
YankIsLatest == ~reading => Yanked = latest
=============================================================================
