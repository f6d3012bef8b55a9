----------------------------- MODULE KeyInput -----------------------------
(***************************************************************************)
(* Reading keys from a terminal (src/term.c, src/getkey.c): bytes arrive    *)
(* one by one, escape sequences are told from a typed ESC by a timeout,     *)
(* what does not decode is given back to be read again, pasted text comes   *)
(* between brackets, and commands may push a key back.  A change of size    *)
(* interrupts any of it.                                                    *)
(*                                                                         *)
(* The terminal is external.  A byte is its character, ESC, or "text" for   *)
(* bytes that are none of those the decoder looks for.  Abstracted: the     *)
(* kinds of function keys and mouse buttons, subprocesses, end of input.    *)
(***************************************************************************)
EXTENDS Integers, SequencesExt

CONSTANTS
    TypedKeys,         \* what a key press, or a paste, sends
    SEQ_SIZE,          \* sizeof seq
    RESIZES_IN_PASTE,  \* may the terminal change size while a paste is read
    PASTES_UNGOT,      \* may a command push a paste back
    MAX_TYPED, MAX_RESIZES, MAX_UNGOT                            \* bounds

VARIABLES
    line,     \* bytes sent and not yet read
    input,    \* what the reader holds: see NoInput
    winch,    \* winch_pending
    stale,    \* the size changed, and the windows are not resized yet
    key,      \* the last key given
    back,     \* history: the key pushed back and not yet given again
    read,     \* history: bytes that were read for good
    sent,     \* history: bytes the terminal sent
    counts    \* how often it was typed, resized and pushed back
inputVars == <<line, input, winch, stale, key, back, read, sent, counts>>

NoKey == [code |-> "none", meta |-> FALSE]
Quoted == [code |-> "quoted", meta |-> FALSE]
NotDecoding == <<"none">>
NONE == "none"
RESIZE == "resize"

(* mode: term_getkey awaits a key, a key after ESC, or the end of a paste.  *)
(* seq: what decode_escape read after ESC; or what may be the end of paste. *)
NoInput == [mode |-> "key", seq |-> NotDecoding, inq |-> <<>>, key_buf |-> <<>>]

Digits == {"0", "1", "2", "3"}
TtyBytes == Digits \cup {"ESC", "[", "O", "M", "A", "~", ";", "text"}
PASTE_END == <<"ESC", "[", "2", "0", "1", "~">>
IsByte(b) == b \notin {NONE, RESIZE}

ASSUME KeyAssumption == TypedKeys \subseteq Seq(TtyBytes) /\ SEQ_SIZE \in Nat

-----------------------------------------------------------------------------
(* decode_escape *)

(* The code of a whole sequence.  A third byte of "3" after ";" is Meta.    *)
CodeOf(seq) ==
    LET params == SubSeq(seq, 2, Len(seq) - 1)
    IN  CASE Last(seq) = "~" -> IF params = <<"2", "0", "0">> THEN "PASTE" ELSE IF params = <<"3">> THEN "DEL" ELSE "IGNORE"
          [] Last(seq) = "A" -> IF Len(params) > 2 /\ Last(params) = "3" THEN "M-UP" ELSE "UP"
          [] OTHER -> "IGNORE"

Console(seq) == seq = <<"[", "[">>
Mouse(seq) == Len(seq) > 1 /\ seq[1] = "[" /\ seq[2] = "M"

(* What comes of byte b after `seq': more is read, a code is given, or all  *)
(* is given back and ESC is the code.                                      *)
More(seq) == [result |-> "more", seq |-> seq]
Code(c) == [result |-> "code", code |-> c]
GiveBack(seq) == [result |-> "back", seq |-> seq]

AfterO(b) == IF b = "M" THEN Code("RET") ELSE IF b = "A" THEN Code("UP") ELSE GiveBack(<<"O", b>>)
AfterBracket(seq, b) ==
    LET all == Append(seq, b)
    IN  IF Len(seq) >= SEQ_SIZE THEN GiveBack(seq)
        ELSE IF b \in Digits \union {";"} \/ (b \in {"[", "M"} /\ Len(seq) = 1) THEN More(all)
        ELSE IF b = "ESC" THEN GiveBack(all) ELSE Code(CodeOf(all))
AfterConsole(b) == Code(IF b = "A" THEN "F1" ELSE "IGNORE")
AfterMouse(seq, b) ==
    IF b = "ESC" THEN Code("IGNORE") ELSE IF Len(seq) < 4 THEN More(Append(seq, b)) ELSE Code("MOUSE")
Decoded(seq, b) ==
    IF ~IsByte(b) THEN IF Console(seq) \/ Mouse(seq) THEN Code("IGNORE") ELSE GiveBack(seq)
    ELSE IF seq = <<>> THEN IF b \in {"O", "["} THEN More(<<b>>) ELSE GiveBack(<<b>>)
    ELSE IF seq[1] = "O" THEN AfterO(b)
    ELSE IF Console(seq) THEN AfterConsole(b)
    ELSE IF Mouse(seq) THEN AfterMouse(seq, b)
    ELSE AfterBracket(seq, b)

-----------------------------------------------------------------------------
(* Keys *)

KeyOf(code, meta) ==
    IF code = "M-UP" THEN [code |-> "UP", meta |-> TRUE] ELSE [code |-> code, meta |-> meta]

CodesOf_Swapped(k) ==
    IF k.code \in {"PASTE", "ESCAPE"} THEN <<>> ELSE IF k.meta THEN <<k.code, "ESC">> ELSE <<k.code>>
(* keytocodes: a bare ESC in a shell and a paste have no code.              *)
CodesOf(k) ==
    IF k.code \in {"PASTE", "ESCAPE"} THEN <<>> ELSE IF k.meta THEN <<"ESC", k.code>> ELSE <<k.code>>

Give(i, k) ==
    /\ input' = [i EXCEPT !.mode = "key"]
    /\ key' = k /\ back' = NoKey

Continue(i) == input' = i /\ UNCHANGED <<key, back>>

(* The end of a paste, as far as it is read; it may start over.             *)
Matched_Anew(seq, b) == IF b = PASTE_END[Len(seq) + 1] THEN Append(seq, b) ELSE <<>>
Matched(seq, b) == IF b = PASTE_END[Len(seq) + 1] THEN Append(seq, b) ELSE IF b = "ESC" THEN <<"ESC">> ELSE <<>>

(* term_getkey, given a code by get_char                                    *)
Taken(i, code, fromTty) ==
    CASE code = "IGNORE" -> Continue(i)
      [] code = "PASTE" /\ i.mode = "key" -> Continue([i EXCEPT !.mode = "paste", !.seq = <<>>])
      [] code = "ESC" ->
            \/ fromTty /\ i.mode = "key" /\ i.inq = <<>> /\ Give(i, [code |-> "ESCAPE", meta |-> FALSE])
            \/ Continue([i EXCEPT !.mode = "meta"])
      [] OTHER -> Give(i, KeyOf(IF code = "PASTE" THEN "NOKEY" ELSE code, i.mode = "meta"))

-----------------------------------------------------------------------------
(* read_byte: what it returns, and what it leaves *)

Bytes(timed) ==
    IF input.inq # <<>> THEN {[byte |-> Head(input.inq), inq |-> Tail(input.inq), line |-> line, winch |-> winch]}
    ELSE IF winch THEN {[byte |-> RESIZE, inq |-> <<>>, line |-> line, winch |-> FALSE]}
    ELSE {[byte |-> Head(line), inq |-> <<>>, line |-> Tail(line), winch |-> FALSE] : x \in IF line # <<>> THEN {1} ELSE {}}
         \union {[byte |-> NONE, inq |-> <<>>, line |-> line, winch |-> FALSE] : x \in IF timed THEN {1} ELSE {}}

Decoding == input.mode # "paste" /\ input.seq # NotDecoding
Awaiting == input.mode # "paste" /\ input.seq = NotDecoding

-----------------------------------------------------------------------------
(* Actions *)

KeyInit ==
    /\ line = <<>> /\ sent = <<>> /\ read = <<>>
    /\ input = NoInput
    /\ winch = FALSE /\ stale = FALSE
    /\ key = NoKey /\ back = NoKey
    /\ counts = [typed |-> 0, resized |-> 0, ungot |-> 0]

Type ==
    \E t \in TypedKeys :
        /\ counts.typed < MAX_TYPED /\ counts' = [counts EXCEPT !.typed = @ + 1]
        /\ line' = line \o t /\ sent' = sent \o t
        /\ UNCHANGED <<input, winch, stale, key, back, read>>

Resized ==
    /\ counts.resized < MAX_RESIZES /\ counts' = [counts EXCEPT !.resized = @ + 1]
    /\ RESIZES_IN_PASTE \/ input.mode # "paste"
    /\ winch' = TRUE /\ stale' = TRUE
    /\ UNCHANGED <<line, input, key, back, read, sent>>

(* get_char, when a key was pushed back                                     *)
ReadPushed ==
    /\ Awaiting /\ input.key_buf # <<>>
    /\ Taken([input EXCEPT !.key_buf = Front(@)], Last(input.key_buf), FALSE)
    /\ UNCHANGED <<line, winch, stale, read, sent, counts>>

(* get_char, handling a change of size; or starting decode_escape           *)
ReadFirst ==
    /\ Awaiting /\ input.key_buf = <<>>
    /\ \E b \in Bytes(FALSE) :
        LET i == [input EXCEPT !.inq = b.inq]
        IN  /\ line' = b.line /\ winch' = b.winch
            /\ stale' = (stale /\ b.byte # RESIZE)
            /\ read' = IF b.byte \in {RESIZE, "ESC"} THEN read ELSE Append(read, b.byte)
            /\ CASE b.byte = RESIZE -> Continue(i)
                 [] b.byte = "ESC" -> Continue([i EXCEPT !.seq = <<>>])
                 [] OTHER -> Taken(i, b.byte, TRUE)
    /\ UNCHANGED <<sent, counts>>

(* One byte of an escape sequence.  Most interruptions by a change of size  *)
(* are noted again.                                                         *)
DecodeByte ==
    /\ Decoding
    /\ \E b \in Bytes(TRUE) :
        LET d == Decoded(input.seq, b.byte)
            i == [input EXCEPT !.inq = b.inq, !.seq = NotDecoding]
            noted == b.byte = RESIZE /\ d.result = "back"
            bytes == <<"ESC">> \o input.seq \o (IF IsByte(b.byte) THEN <<b.byte>> ELSE <<>>)
        IN  /\ line' = b.line /\ winch' = (b.winch \/ noted)
            /\ CASE d.result = "more" -> Continue([i EXCEPT !.seq = d.seq]) /\ UNCHANGED read
                 [] d.result = "code" -> Taken(i, d.code, TRUE) /\ read' = read \o bytes
                 [] OTHER -> Taken([i EXCEPT !.inq = d.seq \o @], "ESC", TRUE) /\ read' = Append(read, "ESC")
    /\ UNCHANGED <<stale, sent, counts>>

(* read_bracketed_paste_payload                                             *)
PasteByte ==
    /\ input.mode = "paste"
    /\ \E b \in Bytes(FALSE) :
        LET i == [input EXCEPT !.inq = b.inq]
            matched == Matched(input.seq, b.byte)
        IN  /\ line' = b.line /\ winch' = (b.winch \/ b.byte = RESIZE)
            /\ read' = IF b.byte = RESIZE THEN read ELSE Append(read, b.byte)
            /\ IF b.byte = RESIZE THEN Continue(i)
               ELSE IF matched = PASTE_END
               THEN Give([i EXCEPT !.seq = NotDecoding], [code |-> "PASTE", meta |-> FALSE])
               ELSE Continue([i EXCEPT !.seq = matched])
    /\ UNCHANGED <<stale, sent, counts>>

(* term_getkey_unfiltered: a byte as it is                                  *)
ReadQuoted ==
    /\ Awaiting /\ input.mode = "key" /\ input.key_buf = <<>>
    /\ \E b \in Bytes(FALSE) :
        LET i == [input EXCEPT !.inq = b.inq]
        IN  /\ line' = b.line /\ winch' = b.winch
            /\ stale' = (stale /\ b.byte # RESIZE)
            /\ read' = IF b.byte = RESIZE THEN read ELSE Append(read, b.byte)
            /\ IF b.byte = RESIZE THEN Continue(i) ELSE Give(i, Quoted)
    /\ UNCHANGED <<sent, counts>>

(* ungetkey, by a command that ends at a key that is not its own            *)
Unget ==
    /\ Awaiting /\ input.mode = "key" /\ key # NoKey
    /\ counts.ungot < MAX_UNGOT /\ counts' = [counts EXCEPT !.ungot = @ + 1]
    /\ key # Quoted /\ key.code # "ESCAPE" /\ (PASTES_UNGOT \/ key.code # "PASTE")
    /\ input' = [input EXCEPT !.key_buf = @ \o Reverse(CodesOf(key))]
    /\ key' = NoKey /\ back' = key
    /\ UNCHANGED <<line, winch, stale, read, sent>>

ReadKey == ReadPushed \/ ReadFirst \/ DecodeByte \/ PasteByte
KeyNext == Type \/ Resized \/ ReadKey \/ ReadQuoted \/ Unget

KeySpec == KeyInit /\ [][KeyNext]_inputVars

(* Keys are read whenever a command is over.                                *)
KeyFairness == WF_inputVars(ReadKey)

-----------------------------------------------------------------------------
(* Properties *)

(* Whatever a timeout or a change of size interrupts, the bytes the         *)
(* terminal sent are read once each and in order, and a change of size that *)
(* is not handled yet is still noted.                                       *)
InDecoding == IF Decoding THEN <<"ESC">> \o input.seq ELSE <<>>
BytesKept == read \o InDecoding \o input.inq \o line = sent
SizeNoted == stale => winch
InputKept == BytesKept /\ SizeNoted

(* Unget a key as if it had not been fetched: it is the next key given.     *)
UngottenComesBack == [][back # NoKey /\ key' # NoKey /\ back' = NoKey => key' = back]_inputVars

(* Bytes that read_byte took and decode_escape could not use, changes of    *)
(* size in the middle of a sequence, and keys that commands push back: each *)
(* comes again, in order, and once.                                         *)
NoInputLost == []InputKept /\ UngottenComesBack

(* All that is typed gets read, pastes come to their end, and a change of   *)
(* size is handled.                                                        *)
InputRead == []<>(line = <<>> /\ input.inq = <<>> /\ input.mode # "paste" /\ ~stale)
=============================================================================
