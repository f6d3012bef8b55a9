------------------------------ MODULE Windows ------------------------------
(***************************************************************************)
(* The buffer list (src/buffer.c), the windows (src/window.c) and each     *)
(* window's history of the buffers it has shown (src/winhist.c).           *)
(*                                                                         *)
(* The state of the three is a record `frame'; what the code does to it is *)
(* an operator from one frame to the next.  A command is an action; two    *)
(* wait for keys halfway, moving through history and the buffer picker.    *)
(*                                                                         *)
(* A buffer is the address it has: one that was killed may be made anew.   *)
(***************************************************************************)
EXTENDS Integers, Sequences, SequencesExt

CONSTANTS Buffers,    \* addresses of buffers
          Scratch,    \* the scratch buffer, there from the start
          Help,       \* those of buffers shown in passing, all of one name
          MAX_PLACES, \* length of a window's history
          MAX_POINT,  \* bound: places in a buffer
          MAX_WINDOWS, MAX_COMMANDS,  \* bounds
          NoBuffer, NoPoint

ASSUME WindowsAssumption == /\ Scratch \in Buffers \ Help /\ Help \subseteq Buffers
                            /\ NoBuffer \notin Buffers
                            /\ {MAX_PLACES, MAX_WINDOWS} \subseteq Nat \ {0}
                            /\ {MAX_POINT, MAX_COMMANDS} \subseteq Nat

VARIABLES
    frame,      \* list: live buffers, most recent first; pt: their points;
                \* buf: cur_bp; wins: the windows in order; cur: index of cur_wp
    windowIds,  \* last_window_id
    snaps,      \* what each window showed before the command
    waiting,    \* "no", or what waits for a key: "navigate" or "pick"
    orig,       \* the picker: buffer current when it began
    previewed,  \* the picker: buffers made for it
    commands,   \* number of commands
    undo,       \* history: direction and origin of the last step of navigate
    wanted      \* history: the windows before the picker began
winVars == <<frame, windowIds, snaps, waiting, orig, previewed, commands, undo, wanted>>

Live(s) == ToSet(s.list)
Win(s) == s.wins[s.cur]
Place(b, o) == [bp |-> b, o |-> o]
NoStep == [dir |-> 0, bp |-> NoBuffer, o |-> 0]

WinInit == /\ frame = [list |-> <<Scratch>>, pt |-> [b \in Buffers |-> 0], buf |-> Scratch, cur |-> 1,
                       wins |-> <<[id |-> 1, bp |-> Scratch, saved |-> NoPoint, back |-> <<>>, fwd |-> <<>>]>>]
           /\ windowIds = 1
           /\ snaps = <<>> /\ waiting = "no" /\ orig = Scratch /\ previewed = {}
           /\ commands = 0 /\ undo = NoStep /\ wanted = <<>>

-----------------------------------------------------------------------------
(* Places (winhist.c).  buffer_is_internal says which are not kept.         *)

Internal(b) == b \in Help

(* places_prune *)
Prune(places, b) == SelectSeq(places, LAMBDA p : p.bp # NoBuffer /\ p.bp # b /\ ~Internal(p.bp))

PlacesPush(places, b, o) ==
  LET kept == Prune(places, b)
  IN  Append(IF Len(kept) = MAX_PLACES THEN Tail(kept) ELSE kept, Place(b, o))

(* winhist_copy: places in buffers that are gone are left behind.           *)
LivePlaces(places) == SelectSeq(places, LAMBDA p : p.bp # NoBuffer)

WindowO(s, i) == IF i = s.cur THEN s.pt[s.buf]
                 ELSE IF s.wins[i].saved # NoPoint THEN s.wins[i].saved.o
                 ELSE s.pt[s.wins[i].bp]

-----------------------------------------------------------------------------
(* Buffers and windows, as operators on the frame                           *)

ToHead(s, b) == [s EXCEPT !.list = <<b>> \o SelectSeq(s.list, LAMBDA x : x # b)]
ToEnd(s, b) == [s EXCEPT !.list = Append(SelectSeq(s.list, LAMBDA x : x # b), b)]

New(s, b) == [s EXCEPT !.list = <<b>> \o @, !.pt[b] = 0]

SwitchTo(s, b, reorder) ==
  IF s.buf = b THEN s
  ELSE LET t == [s EXCEPT !.buf = b, !.wins[s.cur].bp = b]
       IN  IF reorder THEN ToHead(t, b) ELSE t

Find(s, b) == SwitchTo(IF b \in Live(s) THEN s ELSE New(s, b), b, TRUE)

SetCurrent(s, i) ==
  LET left == [s EXCEPT !.wins[s.cur].saved = Place(s.buf, s.pt[s.buf])]
      to == left.wins[i]
      on == [left EXCEPT !.cur = i, !.buf = to.bp]
  IN  IF to.saved = NoPoint THEN on
      ELSE [on EXCEPT !.pt[to.bp] = to.saved.o, !.wins[i].saved = NoPoint]

Split(s, id) ==
  LET w == Win(s)
      new == [w EXCEPT !.id = id, !.saved = Place(s.buf, s.pt[s.buf]),
                       !.back = LivePlaces(@), !.fwd = LivePlaces(@)]
  IN  [s EXCEPT !.wins = InsertAt(@, s.cur + 1, new)]

(* window_delete: the one before the current one is selected, or the next. *)
DeleteWindow(s, i) ==
  LET prev == IF i = 1 THEN 2 ELSE i - 1
      t == IF i = s.cur THEN SetCurrent(s, prev) ELSE s
  IN  [t EXCEPT !.wins = RemoveAt(@, i), !.cur = IF @ > i THEN @ - 1 ELSE @]

(* popup_window splits a sole window.                                       *)
Popup(s) == IF Len(s.wins) = 1 THEN Split(s, windowIds + 1) ELSE s
Other(s) == IF s.cur < Len(s.wins) THEN s.cur + 1 ELSE 1
PoppedUp(s) == windowIds' = IF Len(s.wins) = 1 THEN windowIds + 1 ELSE windowIds
MayPopup(s) == Len(s.wins) = 1 => windowIds < MAX_WINDOWS

ShowBuffer(s, i, b) ==
  IF i = s.cur THEN [SwitchTo(s, b, TRUE) EXCEPT !.pt[b] = 0]
  ELSE [s EXCEPT !.wins[i].bp = b, !.wins[i].saved = Place(b, 0)]

NextBuffer(s, b) == LET at == CHOOSE i \in DOMAIN s.list : s.list[i] = b
                    IN  IF at < Len(s.list) THEN s.list[at + 1]
                        ELSE IF at = 1 THEN NoBuffer ELSE s.list[1]

(* winhist_replacement, in a window that shows the buffer to be killed; and *)
(* freeing it detaches the markers in it.                                   *)
Replaced(w, b, next) ==
  LET back == Prune(w.back, b)
      kept == [w EXCEPT !.fwd = Prune(@, b), !.saved = NoPoint]
  IN  IF back = <<>> THEN [kept EXCEPT !.back = <<>>, !.bp = next]
      ELSE [kept EXCEPT !.back = Front(back), !.bp = Last(back).bp, !.saved = Last(back)]

Detached(w, b) ==
  LET gone(p) == IF p.bp = b THEN [p EXCEPT !.bp = NoBuffer] ELSE p
  IN  [w EXCEPT !.back = [i \in DOMAIN @ |-> gone(@[i])], !.fwd = [i \in DOMAIN @ |-> gone(@[i])]]

Kill(s, b) ==
  LET next == NextBuffer(s, b)
      wins == [i \in DOMAIN s.wins |-> IF s.wins[i].bp = b THEN Replaced(s.wins[i], b, next)
                                       ELSE Detached(s.wins[i], b)]
      here == wins[s.cur]
      pt == IF here.saved = NoPoint THEN s.pt ELSE [s.pt EXCEPT ![here.bp] = here.saved.o]
      t == [s EXCEPT !.list = SelectSeq(@, LAMBDA x : x # b), !.pt = pt,
                     !.buf = IF @ = b THEN here.bp ELSE @,
                     !.wins = [wins EXCEPT ![s.cur].saved = NoPoint]]
  IN  IF next # NoBuffer THEN t
      ELSE [New(t, Scratch) EXCEPT !.buf = Scratch,
                                   !.wins = [i \in DOMAIN wins |-> [wins[i] EXCEPT !.bp = Scratch]]]

-----------------------------------------------------------------------------
(* Around commands                                                          *)

BeforeCommand == [i \in DOMAIN frame.wins |->
                    [id |-> frame.wins[i].id, bp |-> frame.wins[i].bp, o |-> WindowO(frame, i)]]

Record(w, b, o) == IF Internal(b) THEN w
                   ELSE [w EXCEPT !.back = PlacesPush(@, b, o), !.fwd = <<>>]

AfterCommand(s, before) ==
  LET noted(w) == LET left == {i \in DOMAIN before : /\ before[i].id = w.id /\ before[i].bp # w.bp
                                                     /\ before[i].bp \in Live(s)}
                  IN  IF left = {} THEN w
                      ELSE LET i == CHOOSE i \in left : TRUE IN Record(w, before[i].bp, before[i].o)
  IN  [s EXCEPT !.wins = [i \in DOMAIN @ |-> noted(@[i])]]

Starts == /\ waiting = "no" /\ commands < MAX_COMMANDS
          /\ commands' = commands + 1
          /\ undo' = NoStep

Command(s) == /\ Starts
              /\ frame' = AfterCommand(s, BeforeCommand)
              /\ UNCHANGED <<snaps, waiting, orig, previewed, wanted>>

-----------------------------------------------------------------------------
(* Commands                                                                 *)

MovePoint == /\ waiting = "no"
             /\ \E o \in 0..MAX_POINT \ {frame.pt[frame.buf]} : frame' = [frame EXCEPT !.pt[frame.buf] = o]
             /\ UNCHANGED <<windowIds, snaps, waiting, orig, previewed, commands, undo, wanted>>

SwitchToBuffer == /\ \E b \in Buffers \ Help : Command(Find(frame, b))
                  /\ UNCHANGED windowIds

KillBuffer == /\ \E b \in Live(frame) : Command(Kill(frame, b))
              /\ UNCHANGED windowIds

FindAlternateFile == /\ \E b \in Buffers \ Help : Command(Find(Kill(frame, frame.buf), b))
                     /\ UNCHANGED windowIds

SplitWindow == /\ windowIds < MAX_WINDOWS
               /\ Command(Split(frame, windowIds + 1))
               /\ windowIds' = windowIds + 1

DeleteThis == /\ Len(frame.wins) > 1
              /\ Command(DeleteWindow(frame, frame.cur))
              /\ UNCHANGED windowIds

DeleteOthers == /\ Len(frame.wins) > 1
                /\ Command([frame EXCEPT !.wins = <<Win(frame)>>, !.cur = 1])
                /\ UNCHANGED windowIds

OtherWindow == /\ Len(frame.wins) > 1
               /\ Command(SetCurrent(frame, Other(frame)))
               /\ UNCHANGED windowIds

(* A command shows its output from the start, as compile does: where it is  *)
(* shown already, or in another window.                                     *)
ShowElsewhere ==
  \E b \in Buffers \ Help :
    LET known == IF b \in Live(frame) THEN frame ELSE New(frame, b)
        at == {i \in DOMAIN frame.wins : frame.wins[i].bp = b}
    IN  IF at # {}
        THEN /\ Command(FoldSet(LAMBDA i, t : ShowBuffer(t, i, b), known, at))
             /\ UNCHANGED windowIds
        ELSE /\ MayPopup(frame)
             /\ LET s == Popup(known) IN Command(ShowBuffer(s, Other(s), b))
             /\ PoppedUp(frame)

(* write_temp_buffer: it is shown in a window that shows one of the name,   *)
(* or in another, and then killed for a new one.                            *)
TempBuffer ==
  /\ MayPopup(frame)
  /\ LET at == {i \in DOMAIN frame.wins : frame.wins[i].bp \in Help}
         up == IF at # {} THEN SetCurrent(frame, Min(at))
               ELSE LET s == Popup(frame)
                    IN  Find(SetCurrent(s, Other(s)),
                             CHOOSE h \in Help : Help \cap Live(frame) # {} => h \in Live(frame))
         old == CHOOSE i \in DOMAIN up.wins : up.wins[i].id = Win(frame).id
     IN  \E h \in Help \ {up.buf} :
           LET killed == Kill(New(up, h), up.buf)
               shown == ToEnd([killed EXCEPT !.buf = h, !.wins[killed.cur].bp = h], h)
           IN  Command(SetCurrent(shown, old))
     /\ windowIds' = IF at = {} /\ Len(frame.wins) = 1 THEN windowIds + 1 ELSE windowIds

-----------------------------------------------------------------------------
(* Moving through history *)

(* fallback_buffer: the most recent buffer the window has not shown.        *)
Fallback(s) ==
  LET w == Win(s)
      had == {w.back[i].bp : i \in DOMAIN w.back} \cup {w.fwd[i].bp : i \in DOMAIN w.fwd}
  IN  SelectSeq(s.list, LAMBDA b : b # w.bp /\ ~Internal(b) /\ b \notin had)

From(s, dir) == Prune(IF dir < 0 THEN Win(s).back ELSE Win(s).fwd, s.buf)
CanStep(s, dir) == From(s, dir) # <<>> \/ (dir < 0 /\ Fallback(s) # <<>>)
Target(s, dir) == IF From(s, dir) # <<>> THEN Last(From(s, dir))
                  ELSE Place(Head(Fallback(s)), s.pt[Head(Fallback(s))])

Left_AtTop(s, to) == IF Internal(s.buf) THEN to ELSE PlacesPush(to, s.buf, 0)
Left(s, to) == IF Internal(s.buf) THEN to ELSE PlacesPush(to, s.buf, s.pt[s.buf])

(* step and show_place *)
Step(s, dir) ==
  LET from == From(s, dir)
      rest == IF from = <<>> THEN from ELSE Front(from)
      p == Target(s, dir)
      w == Win(s)
      moved == IF dir < 0 THEN [w EXCEPT !.back = rest, !.fwd = Left(s, @)]
                          ELSE [w EXCEPT !.fwd = rest, !.back = Left(s, @)]
      t == SwitchTo([s EXCEPT !.wins[s.cur] = moved], p.bp, FALSE)
  IN  [t EXCEPT !.pt[p.bp] = p.o]

Stepped(dir) == /\ frame' = Step(frame, dir)
                /\ undo' = [dir |-> -dir, bp |-> frame.buf, o |-> frame.pt[frame.buf]]

Navigate == /\ waiting = "no" /\ commands < MAX_COMMANDS
            /\ \E dir \in {-1, 1} : CanStep(frame, dir) /\ Stepped(dir)
            /\ waiting' = "navigate"
            /\ commands' = commands + 1
            /\ UNCHANGED <<windowIds, snaps, orig, previewed, wanted>>

(* LEFT or RIGHT; any other key ends it, and counts as the next command.    *)
NavigateKey == /\ waiting = "navigate"
               /\ \/ /\ \E dir \in {-1, 1} : CanStep(frame, dir) /\ Stepped(dir)
                     /\ UNCHANGED waiting
                  \/ /\ frame' = ToHead(frame, frame.buf)
                     /\ waiting' = "no"
                     /\ undo' = NoStep
               /\ UNCHANGED <<windowIds, snaps, orig, previewed, commands, wanted>>

-----------------------------------------------------------------------------
(* The picker of switch-to-buffer, which shows what is selected             *)

Picker == /\ Starts
          /\ snaps' = BeforeCommand
          /\ waiting' = "pick"
          /\ orig' = frame.buf
          /\ previewed' = {}
          /\ wanted' = frame.wins
          /\ UNCHANGED <<frame, windowIds>>

(* switch_preview: a file is read in for it, at the end of the list.        *)
PreviewItem == /\ waiting = "pick"
               /\ \E b \in Buffers \ ({frame.buf} \cup Help) :
                    IF b \in Live(frame)
                    THEN /\ frame' = SwitchTo(frame, b, FALSE)
                         /\ UNCHANGED previewed
                    ELSE /\ frame' = SwitchTo(ToEnd(New(frame, b), b), b, FALSE)
                         /\ previewed' = previewed \cup {b}
               /\ UNCHANGED <<windowIds, snaps, waiting, orig, commands, undo, wanted>>

(* switch_kill: what is selected is what is shown.                          *)
SwitchKill == /\ waiting = "pick" /\ commands < MAX_COMMANDS
              /\ commands' = commands + 1
              /\ frame' = Kill(frame, frame.buf)
              /\ orig' = IF frame.buf = orig THEN frame'.buf ELSE orig
              /\ previewed' = previewed \ {frame.buf}
              /\ UNCHANGED <<windowIds, snaps, waiting, undo, wanted>>

Restored == IF orig \in Live(frame) THEN SwitchTo(frame, orig, FALSE) ELSE frame

(* Previews that were not chosen are killed; the last is so when none are   *)
(* left.                                                                    *)
Dropped(s) ==
  LET shown == {s.wins[i].bp : i \in DOMAIN s.wins} \cup {s.buf}
  IN  FoldSet(LAMBDA b, t : Kill(t, b), s, (previewed \cap Live(s)) \ shown)

Picked(s) == /\ waiting = "pick"
             /\ frame' = AfterCommand(Dropped(s), snaps)
             /\ waiting' = "no"
             /\ snaps' = <<>>
             /\ previewed' = {}
             /\ wanted' = <<>>
             /\ UNCHANGED <<orig, commands, undo>>

PickHere == /\ Picked(IF Restored.buf = frame.buf THEN Restored ELSE SwitchTo(Restored, frame.buf, TRUE))
            /\ UNCHANGED windowIds

PickThere == /\ MayPopup(frame)
             /\ LET s == Popup(Restored) IN Picked(SwitchTo(SetCurrent(s, Other(s)), frame.buf, TRUE))
             /\ PoppedUp(frame)

PickCancel == /\ Picked(Restored)
              /\ UNCHANGED windowIds

-----------------------------------------------------------------------------
WinNext == MovePoint \/ SwitchToBuffer \/ KillBuffer \/ FindAlternateFile \/ SplitWindow \/ DeleteThis
           \/ DeleteOthers \/ OtherWindow \/ ShowElsewhere \/ TempBuffer \/ Navigate \/ NavigateKey
           \/ Picker \/ PreviewItem \/ SwitchKill \/ PickHere \/ PickThere \/ PickCancel

(* The current buffer is the current window's, whose point is the buffer's; *)
(* the others show live buffers and have their point in them.               *)
InStep == /\ frame.cur \in DOMAIN frame.wins
          /\ frame.buf = Win(frame).bp
          /\ Win(frame).saved = NoPoint
          /\ \A i \in DOMAIN frame.wins :
               LET w == frame.wins[i]
               IN  w.bp \in Live(frame) /\ (w.saved # NoPoint => w.saved.bp = w.bp)

(* A buffer appears at most once in a window's history.                     *)
OnceInHistory ==
  \A i \in DOMAIN frame.wins :
    LET w == frame.wins[i]
        all == Prune(w.back, w.bp) \o Prune(w.fwd, w.bp)
    IN  \A j, k \in DOMAIN all : j # k => all[j].bp # all[k].bp

(* Whatever commands split, delete, kill and preview, windows stay in step  *)
(* with buffers and no buffer is twice on the way back and forward.         *)
WindowsSound == InStep /\ OnceInHistory

(* Going back and then forward, or forward and then back, returns to the    *)
(* buffer that was shown, at the place it was left.                         *)
Returns == undo.dir # 0 /\ undo'.dir = -undo.dir /\ ~Internal(undo.bp)
           => frame'.buf = undo.bp /\ frame'.pt[undo.bp] = undo.o
RoundTrip == [][Returns]_winVars

(* Whatever is split, deleted, killed or previewed, each window shows a     *)
(* live buffer, its history has a buffer once, and going back and forward   *)
(* returns to where one was (window.c, winhist.c).                          *)
WindowsKept == []WindowsSound /\ RoundTrip

(* The picker shows buffers only for a moment: a window that shows in the    *)
(* end what it did before has the history it had, but for killed buffers.   *)
NoTraceLeft ==
  waiting = "pick" /\ waiting' = "no" =>
    \A i \in DOMAIN frame'.wins, j \in DOMAIN wanted :
      LET w == frame'.wins[i]
          had == SelectSeq(wanted[j].back, LAMBDA p : p.bp \in Live(frame'))
      IN  w.id = wanted[j].id /\ w.bp = wanted[j].bp => Prune(w.back, w.bp) = Prune(had, w.bp)
LeavesNoTrace == [][NoTraceLeft]_winVars
=============================================================================
