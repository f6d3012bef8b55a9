--------------------------- MODULE KeyInputProofs ---------------------------
(* Proofs about reading keys from a terminal (KeyInput), for anything that  *)
(* the terminal sends, in any portions, with any timeouts and changes of    *)
(* size in between.                                                         *)
EXTENDS KeyInput, SequenceTheorems, TLAPS

ByteSeqs == Seq(TtyBytes)

(* What the reader holds of the bytes.                                      *)
InputShape ==
    /\ line \in ByteSeqs /\ read \in ByteSeqs /\ sent \in ByteSeqs
    /\ input = [mode |-> input.mode, seq |-> input.seq, inq |-> input.inq, key_buf |-> input.key_buf]
    /\ input.mode \in {"key", "meta", "paste"}
    /\ input.inq \in ByteSeqs
    /\ input.seq \in ByteSeqs \cup {NotDecoding}
    /\ input.mode = "paste" => input.seq \in ByteSeqs
    /\ Decoding /\ input.seq # <<>> /\ input.seq[1] = "O" => Len(input.seq) = 1

(* "none" and "resize" are no bytes of the terminal's.                      *)
LEMMA BytesAreBytes == /\ NONE \notin TtyBytes /\ RESIZE \notin TtyBytes
                       /\ NotDecoding \notin ByteSeqs
                       /\ \A b \in TtyBytes : IsByte(b)
<1>1. NONE \notin TtyBytes /\ RESIZE \notin TtyBytes
  BY DEF NONE, RESIZE, TtyBytes, Digits
<1>2. NotDecoding \notin ByteSeqs
  <2>1. ASSUME NotDecoding \in ByteSeqs PROVE FALSE
    <3>1. NotDecoding[1] \in TtyBytes
      BY <2>1, Len(NotDecoding) = 1, ElementOfSeq DEF ByteSeqs, NotDecoding
    <3> QED
      BY <1>1, <3>1 DEF NotDecoding, NONE
  <2> QED
    BY <2>1
<1> QED
  BY <1>1, <1>2 DEF IsByte

(* Sequences of bytes put together: as operators that the provers take for   *)
(* what CatFacts says of them, and no more.                                 *)
Cat(s, t) == s \o t
One(b) == <<b>>
Nothing == <<>>

LEMMA CatFacts ==
    /\ \A s, t \in ByteSeqs : Cat(s, t) \in ByteSeqs
    /\ \A s, t, u \in ByteSeqs : Cat(Cat(s, t), u) = Cat(s, Cat(t, u))
    /\ Nothing \in ByteSeqs
    /\ \A s \in ByteSeqs : Cat(s, Nothing) = s /\ Cat(Nothing, s) = s
    /\ \A b \in TtyBytes : One(b) \in ByteSeqs
<1>1. ASSUME NEW s \in ByteSeqs, NEW t \in ByteSeqs, NEW u \in ByteSeqs PROVE (s \o t) \o u = s \o (t \o u)
  BY ConcatAssociative DEF ByteSeqs
<1>2. ASSUME NEW s \in ByteSeqs PROVE s \o <<>> = s /\ <<>> \o s = s
  BY ConcatEmptySeq DEF ByteSeqs
<1>3. ASSUME NEW s \in ByteSeqs, NEW t \in ByteSeqs PROVE s \o t \in ByteSeqs
  BY DEF ByteSeqs
<1>4. <<>> \in ByteSeqs /\ \A b \in TtyBytes : <<b>> \in ByteSeqs
  BY DEF ByteSeqs
<1> QED
  BY <1>1, <1>2, <1>3, <1>4, Zenon DEF Cat, One, Nothing

LEMMA AppendCat == \A s \in ByteSeqs, b \in TtyBytes : Append(s, b) = Cat(s, One(b)) /\ Append(s, b) \in ByteSeqs
  BY AppendIsConcat DEF ByteSeqs, Cat, One

(* All that was sent is what was read and what is still held.                *)
Total(r, d, i, l) == Cat(r, Cat(d, Cat(i, l)))

LEMMA KeptIsTotal ==
    ASSUME NEW r \in ByteSeqs, NEW d \in ByteSeqs, NEW i \in ByteSeqs, NEW l \in ByteSeqs
    PROVE  r \o d \o i \o l = Total(r, d, i, l)
<1>1. Cat(Cat(Cat(r, d), i), l) = Cat(r, Cat(d, Cat(i, l)))
  BY CatFacts, SMTT(30)
<1> QED
  BY <1>1, Zenon DEF Cat, Total

(* What read_byte returns comes from what was held, and is taken from it.   *)
LEMMA ByteTaken ==
    ASSUME InputShape, NEW timed, NEW b \in Bytes(timed)
    PROVE  /\ b.inq \in ByteSeqs /\ b.line \in ByteSeqs
           /\ b.byte \in TtyBytes \cup {NONE, RESIZE}
           /\ b.byte \in TtyBytes => Cat(One(b.byte), Cat(b.inq, b.line)) = Cat(input.inq, line)
           /\ b.byte \notin TtyBytes => Cat(b.inq, b.line) = Cat(input.inq, line)
           /\ b.byte = NONE => timed
           /\ winch => b.winch \/ b.byte = RESIZE
<1>l. line \in ByteSeqs /\ input.inq \in ByteSeqs
  BY DEF InputShape
<1>0. \A s \in ByteSeqs : s # <<>> => Head(s) \in TtyBytes /\ Tail(s) \in ByteSeqs /\ Cat(One(Head(s)), Tail(s)) = s
  BY HeadTailProperties DEF ByteSeqs, Cat, One
<1>1. CASE input.inq # <<>>
  <2>1. b = [byte |-> Head(input.inq), inq |-> Tail(input.inq), line |-> line, winch |-> winch]
    BY <1>1 DEF Bytes
  <2>2. b.byte = Head(input.inq) /\ b.inq = Tail(input.inq) /\ b.line = line /\ b.winch = winch
    BY <2>1
  <2>3. Cat(One(b.byte), b.inq) = input.inq /\ b.byte \in TtyBytes /\ b.inq \in ByteSeqs
    BY <1>l, <1>0, <1>1, <2>2
  <2>4. Cat(One(b.byte), Cat(b.inq, line)) = Cat(input.inq, line)
    <3>1. One(b.byte) \in ByteSeqs
      BY <2>3, CatFacts
    <3>2. Cat(Cat(One(b.byte), b.inq), line) = Cat(One(b.byte), Cat(b.inq, line))
      BY <1>l, <2>3, <3>1, CatFacts, Zenon
    <3> QED
      BY <2>3, <3>2
  <2> QED
    BY <1>l, <2>2, <2>3, <2>4, BytesAreBytes
<1>2. CASE input.inq = <<>> /\ winch
  <2>1. b = [byte |-> RESIZE, inq |-> <<>>, line |-> line, winch |-> FALSE]
    BY <1>2 DEF Bytes
  <2>2. b.byte = RESIZE /\ b.inq = <<>> /\ b.line = line
    BY <2>1
  <2> QED
    BY <1>l, <1>2, <2>2, CatFacts, BytesAreBytes DEF NONE, RESIZE, Nothing
<1>3. CASE input.inq = <<>> /\ ~winch /\ line # <<>> /\ b.byte # NONE
  <2>1. b = [byte |-> Head(line), inq |-> <<>>, line |-> Tail(line), winch |-> FALSE]
    BY <1>3 DEF Bytes
  <2>2. b.byte = Head(line) /\ b.inq = Nothing /\ b.line = Tail(line)
    BY <2>1 DEF Nothing
  <2>3. Cat(One(b.byte), b.line) = line /\ b.byte \in TtyBytes /\ b.line \in ByteSeqs
    BY <1>l, <1>0, <1>3, <2>2
  <2>4. input.inq = Nothing
    BY <1>3 DEF Nothing
  <2>5. Cat(One(b.byte), Cat(b.inq, b.line)) = Cat(input.inq, line)
    BY <2>2, <2>3, <2>4, CatFacts
  <2> QED
    BY <1>l, <1>3, <2>2, <2>3, <2>5, CatFacts, BytesAreBytes
<1>4. CASE input.inq = <<>> /\ ~winch /\ (line = <<>> \/ b.byte = NONE)
  <2>1. line # <<>> => Head(line) # NONE
    BY <1>l, <1>0, BytesAreBytes
  <2>2. b = [byte |-> NONE, inq |-> <<>>, line |-> line, winch |-> FALSE] /\ timed
    BY <1>4, <2>1 DEF Bytes
  <2>3. b.byte = NONE /\ b.inq = <<>> /\ b.line = line
    BY <2>2
  <2> QED
    BY <1>l, <1>4, <2>2, <2>3, CatFacts, BytesAreBytes DEF NONE, RESIZE, Nothing
<1> QED
  BY <1>1, <1>2, <1>3, <1>4

(* A sequence that is decoded fits in `seq'.                                *)
Fits == Decoding => Len(input.seq) < SEQ_SIZE

(* decode_escape reads on, or gives back just what it has read.             *)
LEMMA DecodedKeeps ==
    ASSUME NEW seq \in ByteSeqs, NEW b \in TtyBytes \cup {NONE, RESIZE}, Len(seq) < SEQ_SIZE,
           seq # <<>> /\ seq[1] = "O" => Len(seq) = 1
    PROVE  LET d == Decoded(seq, b)
           IN  /\ d.result \in {"more", "code", "back"}
               /\ d.result = "more" => /\ b \in TtyBytes /\ d.seq = Append(seq, b)
                                       /\ d.seq[1] = "O" => Len(d.seq) = 1
               /\ d.result = "back" => d.seq = IF b \in TtyBytes THEN Append(seq, b) ELSE seq
<1> DEFINE d == Decoded(seq, b)
<1> USE DEF ByteSeqs, More, Code, GiveBack
<1>0. IsByte(b) <=> b \in TtyBytes
  BY BytesAreBytes DEF IsByte
<1>a. /\ Append(seq, b)[1] = IF seq = <<>> THEN b ELSE seq[1]
      /\ Len(Append(seq, b)) = Len(seq) + 1 /\ Len(seq) \in Nat
  OBVIOUS
<1>b. seq = <<>> => Append(seq, b) = <<b>>
  OBVIOUS
<1>1. CASE b \notin TtyBytes
  BY <1>0, <1>1 DEF Decoded
<1>2. CASE b \in TtyBytes /\ seq = <<>>
  <2>1. d = IF b \in {"O", "["} THEN More(<<b>>) ELSE GiveBack(<<b>>)
    BY <1>0, <1>2 DEF Decoded
  <2> QED
    BY <1>a, <1>b, <1>2, <2>1
<1>3. CASE b \in TtyBytes /\ seq # <<>> /\ seq[1] = "O"
  <2>1. d = AfterO(b)
    BY <1>0, <1>3 DEF Decoded
  <2>2. Append(seq, b) = <<"O", b>>
    <3>1. Append(seq, b) \in ByteSeqs /\ <<"O", b>> \in ByteSeqs
      BY <1>3
    <3>2. Len(Append(seq, b)) = 2 /\ Append(seq, b)[1] = "O" /\ Append(seq, b)[2] = b
      BY <1>3, <1>a, AppendProperties
    <3>3. \A i \in 1 .. 2 : Append(seq, b)[i] = <<"O", b>>[i]
      BY <3>2
    <3> QED
      BY <3>1, <3>2, <3>3, SeqEqual, Len(<<"O", b>>) = 2
  <2> QED
    BY <1>3, <2>1, <2>2 DEF AfterO
<1>4. CASE b \in TtyBytes /\ seq # <<>> /\ seq[1] # "O"
  <2>1. d \in {AfterConsole(b), AfterMouse(seq, b), AfterBracket(seq, b)}
    BY <1>0, <1>4 DEF Decoded
  <2>2. CASE d = AfterConsole(b)
    BY <1>4, <2>2 DEF AfterConsole
  <2>3. CASE d = AfterMouse(seq, b)
    BY <1>a, <1>4, <2>3 DEF AfterMouse
  <2>4. CASE d = AfterBracket(seq, b)
    <3>1. Len(seq) >= SEQ_SIZE <=> FALSE
      BY <1>a, KeyAssumption DEF KeyAssumption
    <3>2. d \in {More(Append(seq, b)), GiveBack(Append(seq, b)), Code(CodeOf(Append(seq, b)))}
      BY <2>4, <3>1 DEF AfterBracket
    <3> QED
      BY <1>a, <1>4, <3>2
  <2> QED
    BY <2>1, <2>2, <2>3, <2>4
<1> QED
  BY <1>1, <1>2, <1>3, <1>4

(* term_getkey, given a code, leaves the bytes alone.                       *)
Going(i) == \E m \in {"key", "meta", "paste"} :
    input' = [mode |-> m, seq |-> IF m = "paste" THEN <<>> ELSE NotDecoding, inq |-> i.inq, key_buf |-> i.key_buf]

Held(i) == /\ i = [mode |-> i.mode, seq |-> i.seq, inq |-> i.inq, key_buf |-> i.key_buf]
           /\ i.mode \in {"key", "meta"} /\ i.seq = NotDecoding

LEMMA TakenKeeps ==
    ASSUME NEW i, Held(i), NEW code, NEW tty, Taken(i, code, tty)
    PROVE  Going(i)
<1>1. CASE input' = i
  BY <1>1 DEF Held, Going
<1>2. CASE input' = [i EXCEPT !.mode = "key"]
  BY <1>2 DEF Held, Going
<1>3. CASE input' = [i EXCEPT !.mode = "meta"]
  BY <1>3 DEF Held, Going
<1>4. CASE input' = [i EXCEPT !.mode = "paste", !.seq = <<>>]
  BY <1>4 DEF Held, Going
<1> QED
  BY <1>1, <1>2, <1>3, <1>4 DEF Taken, Continue, Give

KeyInv == InputShape /\ BytesKept

LEMMA DecodingBytes ==
    ASSUME InputShape
    PROVE  /\ InDecoding \in ByteSeqs
           /\ Decoding => input.seq \in ByteSeqs /\ InDecoding = Cat(One("ESC"), input.seq)
           /\ ~Decoding => InDecoding = Nothing
<1>1. "ESC" \in TtyBytes
  BY DEF TtyBytes
<1>2. Decoding => input.seq \in ByteSeqs
  BY DEF InputShape, Decoding
<1>3. Decoding => InDecoding = Cat(One("ESC"), input.seq)
  BY DEF InDecoding, Cat, One
<1>4. ~Decoding => InDecoding = Nothing
  BY DEF InDecoding, Nothing
<1> QED
  BY <1>1, <1>2, <1>3, <1>4, CatFacts

LEMMA KeptBytes ==
    ASSUME InputShape
    PROVE  BytesKept <=> Total(read, InDecoding, input.inq, line) = sent
<1>1. read \in ByteSeqs /\ input.inq \in ByteSeqs /\ line \in ByteSeqs /\ InDecoding \in ByteSeqs
  BY DecodingBytes DEF InputShape
<1>2. read \o InDecoding \o input.inq \o line = Total(read, InDecoding, input.inq, line)
  BY <1>1, KeptIsTotal, Zenon
<1> QED
  BY <1>2, Zenon DEF BytesKept

(* A step keeps the bytes if all that is held and read stays the same.       *)
LEMMA NowKept ==
    ASSUME InputShape', Total(read', InDecoding', input'.inq, line') = sent'
    PROVE  KeyInv'
<1>1. read' \in ByteSeqs /\ input'.inq \in ByteSeqs /\ line' \in ByteSeqs /\ InDecoding' \in ByteSeqs
  <2>1. "ESC" \in TtyBytes
    BY DEF TtyBytes
  <2>2. Decoding' => input'.seq \in ByteSeqs
    BY DEF InputShape, Decoding
  <2>3. InDecoding' = IF Decoding' THEN Cat(One("ESC"), input'.seq) ELSE Nothing
    BY DEF InDecoding, Cat, One, Nothing
  <2> QED
    BY <2>1, <2>2, <2>3, CatFacts DEF InputShape
<1>2. read' \o InDecoding' \o input'.inq \o line' = Total(read', InDecoding', input'.inq, line')
  BY <1>1, KeptIsTotal, Zenon
<1> QED
  BY <1>2, Zenon DEF KeyInv, BytesKept

LEMMA StillKept ==
    ASSUME KeyInv, InputShape', sent' = sent,
           Total(read', InDecoding', input'.inq, line') = Total(read, InDecoding, input.inq, line)
    PROVE  KeyInv'
<1>1. Total(read, InDecoding, input.inq, line) = sent
  BY KeptBytes DEF KeyInv
<1> QED
  BY <1>1, NowKept

(* After a step that gives a key, or goes on to await one.                   *)
LEMMA GoneOn ==
    ASSUME KeyInv, NEW i, Going(i), i.inq \in ByteSeqs, line' \in ByteSeqs, read' \in ByteSeqs,
           Total(read', Nothing, i.inq, line') = Total(read, InDecoding, input.inq, line),
           sent' = sent
    PROVE  KeyInv'
<1>1. PICK m \in {"key", "meta", "paste"} :
        input' = [mode |-> m, seq |-> IF m = "paste" THEN <<>> ELSE NotDecoding, inq |-> i.inq, key_buf |-> i.key_buf]
  BY DEF Going
<1>2. ~Decoding'
  BY <1>1 DEF Decoding
<1>3. InputShape'
  BY <1>1, <1>2 DEF InputShape, ByteSeqs, KeyInv
<1>4. InDecoding' = Nothing /\ input'.inq = i.inq
  BY <1>1, <1>2 DEF InDecoding, Nothing
<1> QED
  BY <1>3, <1>4, StillKept

(* What read_byte took, as bytes: none, if it was interrupted.               *)
Took(byte) == IF byte \in TtyBytes THEN One(byte) ELSE Nothing

Moved(x, i2, l2, i, l) ==
    x \in ByteSeqs /\ i2 \in ByteSeqs /\ l2 \in ByteSeqs /\ i \in ByteSeqs /\ l \in ByteSeqs /\ Cat(x, Cat(i2, l2)) = Cat(i, l)

LEMMA TookFacts ==
    ASSUME InputShape, NEW timed, NEW b \in Bytes(timed)
    PROVE  /\ Took(b.byte) \in ByteSeqs
           /\ Moved(Took(b.byte), b.inq, b.line, input.inq, line)
           /\ b.inq \in ByteSeqs /\ b.line \in ByteSeqs
           /\ b.byte \in TtyBytes \cup {NONE, RESIZE}
<1>1. Cat(b.inq, b.line) \in ByteSeqs /\ Took(b.byte) \in ByteSeqs
  BY ByteTaken, CatFacts DEF Took
<1>2. CASE b.byte \in TtyBytes
  BY <1>1, <1>2, ByteTaken DEF Took, Moved, InputShape
<1>3. CASE b.byte \notin TtyBytes
  <2>1. Cat(Nothing, Cat(b.inq, b.line)) = Cat(b.inq, b.line)
    BY <1>1, CatFacts
  <2> QED
    BY <1>1, <1>3, <2>1, ByteTaken DEF Took, Moved, InputShape
<1> QED
  BY <1>2, <1>3

LEMMA CatAgain ==
    \A s, t, u \in ByteSeqs : Cat(s, t) \in ByteSeqs /\ Cat(Cat(s, t), u) = Cat(s, Cat(t, u))
  BY CatFacts

(* The bytes stay the same bytes: when one more of them is held, or is read  *)
(* for good with those held ...                                              *)
LEMMA TotalMoves ==
    ASSUME NEW r \in ByteSeqs, NEW d \in ByteSeqs,
           NEW x, NEW i, NEW l, NEW i2, NEW l2, Moved(x, i2, l2, i, l)
    PROVE  Total(r, Cat(d, x), i2, l2) = Total(r, d, i, l)
<1>0. /\ x \in ByteSeqs /\ i2 \in ByteSeqs /\ l2 \in ByteSeqs /\ i \in ByteSeqs /\ l \in ByteSeqs
      /\ Cat(x, Cat(i2, l2)) = Cat(i, l)
  BY DEF Moved
<1>1. Cat(i2, l2) \in ByteSeqs
  BY <1>0, CatAgain
<1>2. Cat(Cat(d, x), Cat(i2, l2)) = Cat(d, Cat(i, l))
  BY <1>0, <1>1, CatAgain
<1> QED
  BY <1>2, Zenon DEF Total

LEMMA TotalReads ==
    ASSUME NEW r \in ByteSeqs, NEW d \in ByteSeqs,
           NEW x, NEW i, NEW l, NEW i2, NEW l2, Moved(x, i2, l2, i, l)
    PROVE  Total(Cat(r, Cat(d, x)), Nothing, i2, l2) = Total(r, d, i, l)
<1>0. /\ x \in ByteSeqs /\ i2 \in ByteSeqs /\ l2 \in ByteSeqs /\ i \in ByteSeqs /\ l \in ByteSeqs
      /\ Cat(x, Cat(i2, l2)) = Cat(i, l)
  BY DEF Moved
<1>1. Cat(i2, l2) \in ByteSeqs /\ Cat(d, x) \in ByteSeqs /\ Cat(i, l) \in ByteSeqs
  BY <1>0, CatAgain
<1>2. Cat(Cat(d, x), Cat(i2, l2)) = Cat(d, Cat(i, l))
  BY <1>0, <1>1, CatAgain
<1>3. Cat(Nothing, Cat(i2, l2)) = Cat(i2, l2)
  BY <1>0, <1>1, CatFacts
<1>4. ASSUME NEW y \in ByteSeqs, NEW z \in ByteSeqs PROVE Cat(Cat(r, y), z) = Cat(r, Cat(y, z))
  BY <1>0, CatAgain
<1>5. Cat(Cat(r, Cat(d, x)), Cat(i2, l2)) = Cat(r, Cat(Cat(d, x), Cat(i2, l2)))
  BY <1>0, <1>1, <1>4
<1> QED
  BY <1>2, <1>3, <1>5, Zenon DEF Total

(* ... or is given back with the sequence `s' that was held after `e'.       *)
LEMMA TotalReturns ==
    ASSUME NEW r \in ByteSeqs, NEW e \in ByteSeqs, NEW s \in ByteSeqs,
           NEW x, NEW i, NEW l, NEW i2, NEW l2, Moved(x, i2, l2, i, l)
    PROVE  Total(Cat(r, e), Nothing, Cat(Cat(s, x), i2), l2) = Total(r, Cat(e, s), i, l)
<1>0. /\ x \in ByteSeqs /\ i2 \in ByteSeqs /\ l2 \in ByteSeqs /\ i \in ByteSeqs /\ l \in ByteSeqs
      /\ Cat(x, Cat(i2, l2)) = Cat(i, l)
  BY DEF Moved
<1>1. Cat(i2, l2) \in ByteSeqs /\ Cat(s, x) \in ByteSeqs /\ Cat(i, l) \in ByteSeqs
  BY <1>0, CatAgain
<1>2. ASSUME NEW y \in ByteSeqs PROVE Cat(Cat(y, i2), l2) = Cat(y, Cat(i2, l2))
  BY <1>0, CatAgain
<1>3. Cat(Cat(Cat(s, x), i2), l2) = Cat(Cat(s, x), Cat(i2, l2))
  BY <1>0, <1>1, <1>2
<1>4. ASSUME NEW z \in ByteSeqs PROVE Cat(Cat(s, x), z) = Cat(s, Cat(x, z)) /\ Cat(Cat(e, s), z) = Cat(e, Cat(s, z))
  BY <1>0, CatAgain
<1>5. Cat(Cat(s, x), Cat(i2, l2)) = Cat(s, Cat(i, l)) /\ Cat(Cat(e, s), Cat(i, l)) = Cat(e, Cat(s, Cat(i, l)))
  BY <1>0, <1>1, <1>4
<1>6. Cat(s, Cat(i, l)) \in ByteSeqs
  BY <1>0, <1>1, CatAgain
<1>7. ASSUME NEW z \in ByteSeqs PROVE Cat(Nothing, z) = z /\ Cat(Cat(r, e), z) = Cat(r, Cat(e, z))
  BY CatFacts
<1>8. Cat(Nothing, Cat(s, Cat(i, l))) = Cat(s, Cat(i, l)) /\ Cat(Cat(r, e), Cat(s, Cat(i, l))) = Cat(r, Cat(e, Cat(s, Cat(i, l))))
  BY <1>6, <1>7
<1> QED
  BY <1>3, <1>5, <1>8, Zenon DEF Total

(* A step of ReadFirst or ReadQuoted that gives a key, or goes on.           *)
LEMMA AwaitingStep ==
    ASSUME KeyInv, Awaiting, NEW b \in Bytes(FALSE), NEW i, i = [input EXCEPT !.inq = b.inq], Going(i),
           line' = b.line, sent' = sent,
           read' = IF b.byte \in TtyBytes THEN Append(read, b.byte) ELSE read
    PROVE  KeyInv'
<1>0. InputShape
  BY DEF KeyInv
<1>1. read \in ByteSeqs /\ input.inq \in ByteSeqs /\ line \in ByteSeqs /\ Nothing \in ByteSeqs
  BY <1>0, CatFacts DEF InputShape
<1>2. InDecoding = Nothing
  BY <1>0, DecodingBytes DEF Awaiting, Decoding
<1>3. i.inq = b.inq
  BY <1>0 DEF InputShape
<1>4. read' = Cat(read, Took(b.byte)) /\ read' \in ByteSeqs
  BY <1>0, <1>1, TookFacts, AppendCat, CatFacts DEF Took
<1>5. Cat(Nothing, Took(b.byte)) = Took(b.byte)
  BY <1>0, TookFacts, CatFacts
<1>6. Total(Cat(read, Cat(Nothing, Took(b.byte))), Nothing, b.inq, b.line) = Total(read, Nothing, input.inq, line)
  <2>1. Moved(Took(b.byte), b.inq, b.line, input.inq, line)
    BY <1>0, TookFacts
  <2> QED
    BY <1>1, <2>1, TotalReads
<1> QED
  BY <1>0, <1>2, <1>3, <1>4, <1>5, <1>6, TookFacts, GoneOn
LEMMA HoldingShape ==
    ASSUME InputShape, Awaiting, NEW inq
    PROVE  LET i == [input EXCEPT !.inq = inq]
           IN  Held(i) /\ i = [mode |-> input.mode, seq |-> NotDecoding, inq |-> inq, key_buf |-> input.key_buf]
  BY DEF InputShape, Awaiting, Held

LEMMA FirstStep == KeyInv /\ ReadFirst => KeyInv'
<1> SUFFICES ASSUME KeyInv, ReadFirst PROVE KeyInv'
  OBVIOUS
<1>0. InputShape /\ Awaiting /\ sent' = sent
  BY DEF KeyInv, ReadFirst
<1>1. PICK b \in Bytes(FALSE) :
        LET i == [input EXCEPT !.inq = b.inq]
        IN  /\ line' = b.line /\ winch' = b.winch
            /\ stale' = (stale /\ b.byte # RESIZE)
            /\ read' = IF b.byte \in {RESIZE, "ESC"} THEN read ELSE Append(read, b.byte)
            /\ CASE b.byte = RESIZE -> Continue(i)
                 [] b.byte = "ESC" -> Continue([i EXCEPT !.seq = <<>>])
                 [] OTHER -> Taken(i, b.byte, TRUE)
  BY DEF ReadFirst
<1> DEFINE i == [input EXCEPT !.inq = b.inq]
<1>2. Held(i) /\ i.inq = b.inq
  BY <1>0, HoldingShape
<1>3. b.byte \in TtyBytes \cup {RESIZE} /\ RESIZE # "ESC"
  BY <1>0, ByteTaken DEF RESIZE
<1>4. CASE b.byte # "ESC"
  <2>1. Going(i)
    <3>1. CASE b.byte = RESIZE
      <4>1. input' = i
        BY <1>1, <1>3, <3>1 DEF Continue
      <4> QED
        BY <1>2, <4>1 DEF Going, Held
    <3>2. CASE b.byte # RESIZE
      <4>1. Taken(i, b.byte, TRUE)
        BY <1>1, <1>4, <3>2
      <4> QED
        BY <1>2, <4>1, TakenKeeps
    <3> QED
      BY <3>1, <3>2
  <2>2. read' = IF b.byte \in TtyBytes THEN Append(read, b.byte) ELSE read
    BY <1>1, <1>3, <1>4, BytesAreBytes
  <2>3. line' = b.line
    BY <1>1
  <2> QED
    BY <1>0, <2>1, <2>2, <2>3, AwaitingStep
<1>5. CASE b.byte = "ESC"
  <2>1. input' = [mode |-> input.mode, seq |-> <<>>, inq |-> b.inq, key_buf |-> input.key_buf] /\ read' = read /\ line' = b.line
    BY <1>0, <1>1, <1>3, <1>5, HoldingShape DEF Continue
  <2>2. InputShape'
    <3>1. /\ input'.mode = input.mode /\ input'.seq = <<>> /\ input'.inq = b.inq /\ input'.key_buf = input.key_buf
          /\ input' = [mode |-> input'.mode, seq |-> input'.seq, inq |-> input'.inq, key_buf |-> input'.key_buf]
      BY <2>1
    <3>2. <<>> \in ByteSeqs /\ b.inq \in ByteSeqs /\ b.line \in ByteSeqs
      BY <1>0, TookFacts, CatFacts DEF Nothing
    <3> QED
      BY <1>0, <2>1, <3>1, <3>2 DEF InputShape
  <2>3. InDecoding' = Cat(One("ESC"), Nothing) /\ InDecoding = Nothing
    <3>1. Decoding' /\ input'.seq = Nothing /\ ~Decoding
      BY <1>0, <2>1 DEF Decoding, Awaiting, NotDecoding, Nothing
    <3>2. InDecoding = Nothing
      BY <1>0, <3>1, DecodingBytes
    <3>3. InDecoding' = <<"ESC">> \o Nothing
      BY <3>1 DEF InDecoding
    <3> QED
      BY <3>2, <3>3 DEF Cat, One
  <2>4. One("ESC") \in ByteSeqs /\ Nothing \in ByteSeqs /\ Took(b.byte) = One("ESC")
    BY <1>3, <1>5, CatFacts DEF Took
  <2>5. InDecoding' = Cat(Nothing, Took(b.byte))
    BY <2>3, <2>4, CatFacts
  <2>6. Total(read', InDecoding', input'.inq, line') = Total(read, InDecoding, input.inq, line)
    <3>1. Moved(Took(b.byte), b.inq, b.line, input.inq, line)
      BY <1>0, TookFacts
    <3>2. read \in ByteSeqs /\ input.inq \in ByteSeqs /\ line \in ByteSeqs
      BY <1>0 DEF InputShape
    <3>3. Total(read, Cat(Nothing, Took(b.byte)), b.inq, b.line) = Total(read, Nothing, input.inq, line)
      BY <2>4, <3>1, <3>2, TotalMoves
    <3> QED
      BY <2>1, <2>3, <2>5, <3>3
  <2> QED
    BY <1>0, <2>2, <2>6, StillKept
<1> QED
  BY <1>4, <1>5
LEMMA QuotedStep == KeyInv /\ ReadQuoted => KeyInv'
<1> SUFFICES ASSUME KeyInv, ReadQuoted PROVE KeyInv'
  OBVIOUS
<1>0. InputShape /\ Awaiting /\ sent' = sent
  BY DEF KeyInv, ReadQuoted
<1>1. PICK b \in Bytes(FALSE) :
        LET i == [input EXCEPT !.inq = b.inq]
        IN  /\ line' = b.line /\ winch' = b.winch
            /\ stale' = (stale /\ b.byte # RESIZE)
            /\ read' = IF b.byte = RESIZE THEN read ELSE Append(read, b.byte)
            /\ IF b.byte = RESIZE THEN Continue(i) ELSE Give(i, Quoted)
  BY DEF ReadQuoted
<1> DEFINE i == [input EXCEPT !.inq = b.inq]
<1>2. Held(i) /\ i.inq = b.inq
  BY <1>0, HoldingShape
<1>3. b.byte \in TtyBytes \cup {RESIZE}
  BY <1>0, ByteTaken
<1>4. input' = i \/ input' = [i EXCEPT !.mode = "key"]
  BY <1>1 DEF Continue, Give
<1>5. Going(i)
  BY <1>2, <1>4 DEF Going, Held
<1>6. line' = b.line /\ read' = IF b.byte \in TtyBytes THEN Append(read, b.byte) ELSE read
  BY <1>1, <1>3, BytesAreBytes
<1> QED
  BY <1>0, <1>5, <1>6, AwaitingStep

(* Steps that read no byte.                                                  *)
LEMMA OtherSteps == KeyInv /\ (ReadPushed \/ Unget \/ Resized) => KeyInv'
<1> SUFFICES ASSUME KeyInv, ReadPushed \/ Unget \/ Resized PROVE KeyInv'
  OBVIOUS
<1>0. InputShape /\ line' = line /\ read' = read /\ sent' = sent
  BY DEF KeyInv, ReadPushed, Unget, Resized
<1>1. CASE ReadPushed \/ Unget
  <2>1. PICK buf : \/ \E code : Taken([input EXCEPT !.key_buf = buf], code, FALSE)
                  \/ input' = [input EXCEPT !.key_buf = buf]
    <3>1. CASE ReadPushed
      BY <3>1 DEF ReadPushed
    <3>2. CASE Unget
      BY <3>2 DEF Unget
    <3> QED
      BY <1>1, <3>1, <3>2
  <2> DEFINE i == [input EXCEPT !.key_buf = buf]
  <2>2. Held(i) /\ i.inq = input.inq /\ Awaiting
    <3>1. Awaiting
      BY <1>1 DEF ReadPushed, Unget
    <3> QED
      BY <1>0, <3>1 DEF Held, InputShape, Awaiting
  <2>3. Going(i)
    <3>1. CASE input' = i
      BY <2>2, <3>1 DEF Going, Held
    <3>2. ASSUME NEW code, Taken(i, code, FALSE) PROVE Going(i)
      BY <2>2, <3>2, TakenKeeps
    <3> QED
      BY <2>1, <3>1, <3>2
  <2>4. InDecoding = Nothing
    BY <1>0, <2>2, DecodingBytes DEF Awaiting, Decoding
  <2>5. input.inq \in ByteSeqs /\ line' \in ByteSeqs /\ read' \in ByteSeqs
    BY <1>0 DEF InputShape
  <2> QED
    BY <1>0, <2>2, <2>3, <2>4, <2>5, GoneOn
<1>2. CASE Resized
  BY <1>0, <1>2 DEF Resized, KeyInv, InputShape, BytesKept, InDecoding, Decoding
<1> QED
  BY <1>1, <1>2

LEMMA TypeStep == KeyInv /\ Type => KeyInv'
<1> SUFFICES ASSUME KeyInv, Type PROVE KeyInv'
  OBVIOUS
<1>1. PICK t \in TypedKeys : line' = line \o t /\ sent' = sent \o t /\ input' = input /\ read' = read
  BY DEF Type
<1>2. t \in ByteSeqs /\ line \in ByteSeqs /\ sent \in ByteSeqs /\ read \in ByteSeqs /\ input.inq \in ByteSeqs
  BY KeyAssumption DEF KeyAssumption, ByteSeqs, KeyInv, InputShape
<1>3. line' = Cat(line, t) /\ sent' = Cat(sent, t)
  BY <1>1 DEF Cat
<1>4. line' \in ByteSeqs /\ sent' \in ByteSeqs
  BY <1>2, <1>3, CatFacts
<1>5. InDecoding' = InDecoding /\ InDecoding \in ByteSeqs
  BY <1>1, DecodingBytes DEF InDecoding, Decoding, KeyInv
<1>6. Total(read, InDecoding, input.inq, Cat(line, t)) = Cat(Total(read, InDecoding, input.inq, line), t)
  <2>1. Cat(input.inq, line) \in ByteSeqs /\ Cat(input.inq, Cat(line, t)) = Cat(Cat(input.inq, line), t)
    BY <1>2, CatAgain
  <2>2. ASSUME NEW z \in ByteSeqs
        PROVE  Cat(InDecoding, z) \in ByteSeqs /\ Cat(InDecoding, Cat(z, t)) = Cat(Cat(InDecoding, z), t)
    BY <1>2, <1>5, CatAgain
  <2>3. ASSUME NEW z \in ByteSeqs PROVE Cat(read, Cat(z, t)) = Cat(Cat(read, z), t)
    BY <1>2, CatAgain
  <2> QED
    BY <2>1, <2>2, <2>3 DEF Total
<1>7. Total(read, InDecoding, input.inq, line) = sent
  BY KeptBytes DEF KeyInv
<1>8. Total(read', InDecoding', input'.inq, line') = sent'
  BY <1>1, <1>3, <1>5, <1>6, <1>7
<1>9. InputShape'
  BY <1>1, <1>4 DEF KeyInv, InputShape, Decoding
<1> QED
  BY <1>8, <1>9, NowKept
LEMMA PasteStep == KeyInv /\ PasteByte => KeyInv'
<1> SUFFICES ASSUME KeyInv, PasteByte PROVE KeyInv'
  OBVIOUS
<1>0. InputShape /\ input.mode = "paste" /\ sent' = sent
  BY DEF KeyInv, PasteByte
<1>1. PICK b \in Bytes(FALSE) :
        LET i == [input EXCEPT !.inq = b.inq]
            matched == Matched(input.seq, b.byte)
        IN  /\ line' = b.line /\ winch' = (b.winch \/ b.byte = RESIZE)
            /\ read' = IF b.byte = RESIZE THEN read ELSE Append(read, b.byte)
            /\ IF b.byte = RESIZE THEN Continue(i)
               ELSE IF matched = PASTE_END
               THEN Give([i EXCEPT !.seq = NotDecoding], [code |-> "PASTE", meta |-> FALSE])
               ELSE Continue([i EXCEPT !.seq = matched])
  BY DEF PasteByte
<1>2. /\ read \in ByteSeqs /\ input.inq \in ByteSeqs /\ line \in ByteSeqs /\ Nothing \in ByteSeqs /\ input.seq \in ByteSeqs
      /\ Took(b.byte) \in ByteSeqs /\ b.inq \in ByteSeqs /\ b.line \in ByteSeqs /\ b.byte \in TtyBytes \cup {RESIZE}
  BY <1>0, ByteTaken, TookFacts, CatFacts DEF InputShape
<1>3. read' = Cat(read, Took(b.byte)) /\ read' \in ByteSeqs
  BY <1>1, <1>2, AppendCat, CatFacts, BytesAreBytes DEF Took
<1>4. b.byte # RESIZE => Matched(input.seq, b.byte) \in ByteSeqs
  <2>1. b.byte # RESIZE => Append(input.seq, b.byte) \in ByteSeqs
    BY <1>2, AppendCat
  <2>2. <<>> \in ByteSeqs /\ <<"ESC">> \in ByteSeqs
    BY "ESC" \in TtyBytes DEF ByteSeqs, TtyBytes
  <2> QED
    BY <2>1, <2>2 DEF Matched
<1>5. \/ input' = [mode |-> "key", seq |-> NotDecoding, inq |-> b.inq, key_buf |-> input.key_buf]
      \/ \E seq \in ByteSeqs : input' = [mode |-> "paste", seq |-> seq, inq |-> b.inq, key_buf |-> input.key_buf]
  <2>0. input = [mode |-> "paste", seq |-> input.seq, inq |-> input.inq, key_buf |-> input.key_buf]
    BY <1>0 DEF InputShape
  <2> DEFINE i == [mode |-> "paste", seq |-> input.seq, inq |-> b.inq, key_buf |-> input.key_buf]
  <2>1. [input EXCEPT !.inq = b.inq] = i
    BY <2>0
  <2>2. CASE b.byte = RESIZE
    <3>1. input' = i
      BY <1>1, <2>1, <2>2 DEF Continue
    <3> QED
      BY <1>2, <3>1
  <2>3. CASE b.byte # RESIZE /\ Matched(input.seq, b.byte) = PASTE_END
    BY <1>1, <2>1, <2>3 DEF Give
  <2>4. CASE b.byte # RESIZE /\ Matched(input.seq, b.byte) # PASTE_END
    BY <1>1, <1>4, <2>1, <2>4 DEF Continue
  <2> QED
    BY <2>2, <2>3, <2>4
<1>6. ~Decoding /\ ~Decoding' /\ input'.inq = b.inq
  BY <1>0, <1>5 DEF Decoding
<1>7. InDecoding = Nothing /\ InDecoding' = Nothing
  BY <1>6 DEF InDecoding, Nothing
<1>8. InputShape'
  BY <1>0, <1>1, <1>2, <1>3, <1>5, <1>6 DEF InputShape
<1>9. Total(Cat(read, Cat(Nothing, Took(b.byte))), Nothing, b.inq, b.line) = Total(read, Nothing, input.inq, line)
  <2>1. Moved(Took(b.byte), b.inq, b.line, input.inq, line)
    BY <1>0, TookFacts
  <2> QED
    BY <1>2, <2>1, TotalReads
<1> QED
  BY <1>0, <1>1, <1>2, <1>3, <1>6, <1>7, <1>8, <1>9, CatFacts, StillKept

LEMMA TwoFields ==
    ASSUME NEW r, r = [mode |-> r.mode, seq |-> r.seq, inq |-> r.inq, key_buf |-> r.key_buf], NEW q,
           NEW j, j = [r EXCEPT !.inq = q, !.seq = NotDecoding]
    PROVE  j = [mode |-> r.mode, seq |-> NotDecoding, inq |-> q, key_buf |-> r.key_buf]
  OBVIOUS

LEMMA OneField ==
    ASSUME NEW r, r = [mode |-> r.mode, seq |-> r.seq, inq |-> r.inq, key_buf |-> r.key_buf], NEW q
    PROVE  [r EXCEPT !.inq = q] = [mode |-> r.mode, seq |-> r.seq, inq |-> q, key_buf |-> r.key_buf]
  OBVIOUS

LEMMA DecodeStep == KeyInv /\ Fits /\ DecodeByte => KeyInv'
<1> SUFFICES ASSUME KeyInv, Fits, DecodeByte PROVE KeyInv'
  OBVIOUS
<1>0. InputShape /\ Decoding /\ sent' = sent
  BY DEF KeyInv, DecodeByte
<1>1. PICK b \in Bytes(TRUE) :
        LET d == Decoded(input.seq, b.byte)
            i == [input EXCEPT !.inq = b.inq, !.seq = NotDecoding]
            noted == b.byte = RESIZE /\ d.result = "back"
            bytes == <<"ESC">> \o input.seq \o (IF IsByte(b.byte) THEN <<b.byte>> ELSE <<>>)
        IN  /\ line' = b.line /\ winch' = (b.winch \/ noted)
            /\ CASE d.result = "more" -> Continue([i EXCEPT !.seq = d.seq]) /\ UNCHANGED read
                 [] d.result = "code" -> Taken(i, d.code, TRUE) /\ read' = read \o bytes
                 [] OTHER -> Taken([i EXCEPT !.inq = d.seq \o @], "ESC", TRUE) /\ read' = Append(read, "ESC")
  BY DEF DecodeByte
<1> DEFINE d == Decoded(input.seq, b.byte)
           i == [mode |-> input.mode, seq |-> NotDecoding, inq |-> b.inq, key_buf |-> input.key_buf]
           x == Took(b.byte)
           bytes == <<"ESC">> \o input.seq \o (IF IsByte(b.byte) THEN <<b.byte>> ELSE <<>>)
<1>2. /\ read \in ByteSeqs /\ input.inq \in ByteSeqs /\ line \in ByteSeqs /\ input.seq \in ByteSeqs
      /\ x \in ByteSeqs /\ b.inq \in ByteSeqs /\ b.line \in ByteSeqs /\ b.byte \in TtyBytes \cup {NONE, RESIZE}
      /\ Moved(x, b.inq, b.line, input.inq, line)
  BY <1>0, TookFacts, DecodingBytes DEF InputShape
<1>3. PICK j : j = [input EXCEPT !.inq = b.inq, !.seq = NotDecoding]
  OBVIOUS
<1>i. j = i
  BY <1>0, <1>3, TwoFields DEF InputShape
<1>4. /\ d.result \in {"more", "code", "back"}
      /\ d.result = "more" => /\ b.byte \in TtyBytes /\ d.seq = Append(input.seq, b.byte)
                              /\ d.seq[1] = "O" => Len(d.seq) = 1
      /\ d.result = "back" => d.seq = IF b.byte \in TtyBytes THEN Append(input.seq, b.byte) ELSE input.seq
  BY <1>0, <1>2, DecodedKeeps DEF Fits, InputShape
<1>5. IF b.byte \in TtyBytes THEN Append(input.seq, b.byte) = Cat(input.seq, x) ELSE input.seq = Cat(input.seq, x)
  BY <1>2, AppendCat, CatFacts DEF Took
<1>6. One("ESC") \in ByteSeqs /\ "ESC" \in TtyBytes
  BY CatFacts DEF TtyBytes
<1>7. InDecoding = Cat(One("ESC"), input.seq) /\ InDecoding \in ByteSeqs
  BY <1>0, DecodingBytes
<1>8. line' = b.line
  BY <1>1
<1>h. Held(i) /\ input.mode \in {"key", "meta"}
  BY <1>0 DEF InputShape, Held, Decoding
<1>m. d.result = "more" => Continue([j EXCEPT !.seq = d.seq]) /\ read' = read
  BY <1>1, <1>3, Zenon
<1>k. d.result = "code" => Taken(j, d.code, TRUE) /\ read' = read \o bytes
  BY <1>1, <1>3, Zenon
<1>g. d.result = "back" => Taken([j EXCEPT !.inq = d.seq \o @], "ESC", TRUE) /\ read' = Append(read, "ESC")
  BY <1>1, <1>3, Zenon
<1>x. (IF IsByte(b.byte) THEN <<b.byte>> ELSE <<>>) = x
  BY <1>2, BytesAreBytes DEF Took, One, Nothing, IsByte
<1>b. bytes = Cat(InDecoding, x)
  BY <1>7, <1>x, Zenon DEF Cat, One
<1> HIDE DEF d, x, bytes
<1>9. CASE d.result = "more"
  <2>1. input' = [mode |-> input.mode, seq |-> d.seq, inq |-> b.inq, key_buf |-> input.key_buf] /\ read' = read
    BY <1>m, <1>i, <1>9 DEF Continue
  <2>2. d.seq = Cat(input.seq, x) /\ d.seq \in ByteSeqs
    <3>1. d.seq = Cat(input.seq, x)
      BY <1>4, <1>5, <1>9
    <3> QED
      BY <1>2, <3>1, CatAgain
  <2>3. Decoding' /\ input'.seq = d.seq /\ input'.inq = b.inq
    BY <1>h, <2>1, <2>2, BytesAreBytes DEF Decoding
  <2>4. InDecoding' = Cat(InDecoding, x)
    <3>1. InDecoding' = Cat(One("ESC"), Cat(input.seq, x))
      <4>1. InDecoding' = <<"ESC">> \o input'.seq
        BY <2>3 DEF InDecoding
      <4> QED
        BY <2>2, <2>3, <4>1, Zenon DEF Cat, One
    <3> QED
      <4>1. Cat(Cat(One("ESC"), input.seq), x) = Cat(One("ESC"), Cat(input.seq, x))
        <5>1. ASSUME NEW e \in ByteSeqs PROVE Cat(Cat(e, input.seq), x) = Cat(e, Cat(input.seq, x))
          <6>1. input.seq \in ByteSeqs /\ x \in ByteSeqs
            BY <1>2
          <6>2. \A s, t, u \in ByteSeqs : Cat(Cat(s, t), u) = Cat(s, Cat(t, u))
            BY CatAgain
          <6> QED
            BY <6>1, <6>2
        <5> QED
          BY <1>6, <5>1
      <4> QED
        BY <1>7, <3>1, <4>1
  <2>5. InputShape'
    <3>1. line' \in ByteSeqs /\ read' \in ByteSeqs /\ sent' \in ByteSeqs
      BY <1>0, <1>2, <1>8, <2>1 DEF InputShape
    <3> QED
      BY <1>2, <1>4, <1>9, <1>h, <2>1, <2>2, <3>1 DEF InputShape
  <2>6. Total(read, Cat(InDecoding, x), b.inq, b.line) = Total(read, InDecoding, input.inq, line)
    BY <1>2, <1>7, TotalMoves
  <2> QED
    BY <1>0, <1>8, <2>1, <2>3, <2>4, <2>5, <2>6, StillKept
<1>10. CASE d.result = "code"
  <2>1. Taken(i, d.code, TRUE) /\ read' = read \o bytes
    BY <1>i, <1>k, <1>10
  <2>3. read' = Cat(read, Cat(InDecoding, x))
    BY <1>b, <2>1, Zenon DEF Cat
  <2>4. read' \in ByteSeqs
    BY <1>2, <1>7, <2>3, CatFacts
  <2>5. Total(Cat(read, Cat(InDecoding, x)), Nothing, b.inq, b.line) = Total(read, InDecoding, input.inq, line)
    BY <1>2, <1>7, TotalReads
  <2>6. Going(i) /\ i.inq = b.inq
    BY <1>h, <2>1, TakenKeeps
  <2> QED
    BY <1>0, <1>2, <1>8, <2>3, <2>4, <2>5, <2>6, GoneOn
<1>11. CASE d.result = "back"
  <2> DEFINE i2 == [mode |-> input.mode, seq |-> NotDecoding, inq |-> Cat(Cat(input.seq, x), b.inq), key_buf |-> input.key_buf]
  <2>1. Taken([i EXCEPT !.inq = d.seq \o @], "ESC", TRUE) /\ read' = Append(read, "ESC")
    BY <1>i, <1>g, <1>11
  <2>2. d.seq = Cat(input.seq, x)
    BY <1>4, <1>5, <1>11
  <2>3. [i EXCEPT !.inq = d.seq \o @] = i2
    <3>1. d.seq \o i.inq = Cat(Cat(input.seq, x), b.inq)
      BY <2>2 DEF Cat
    <3>2. [i EXCEPT !.inq = d.seq \o @] = [mode |-> i.mode, seq |-> i.seq, inq |-> d.seq \o i.inq, key_buf |-> i.key_buf]
      BY OneField
    <3> QED
      BY <3>1, <3>2
  <2>4. Held(i2) /\ i2.inq = Cat(Cat(input.seq, x), b.inq)
    BY <1>h DEF Held
  <2>5. Going(i2)
    BY <2>1, <2>3, <2>4, TakenKeeps
  <2>6. read' = Cat(read, One("ESC")) /\ read' \in ByteSeqs
    BY <1>2, <1>6, <2>1, AppendCat
  <2>7. Cat(Cat(input.seq, x), b.inq) \in ByteSeqs
    BY <1>2, CatAgain
  <2>8. Total(Cat(read, One("ESC")), Nothing, Cat(Cat(input.seq, x), b.inq), b.line) = Total(read, Cat(One("ESC"), input.seq), input.inq, line)
    BY <1>2, <1>6, TotalReturns
  <2> QED
    BY <1>0, <1>2, <1>7, <1>8, <2>4, <2>5, <2>6, <2>7, <2>8, GoneOn
<1> QED
  BY <1>4, <1>9, <1>10, <1>11
LEMMA KeyStep == KeyInv /\ Fits /\ [KeyNext]_inputVars => KeyInv'
<1> SUFFICES ASSUME KeyInv, Fits, [KeyNext]_inputVars PROVE KeyInv'
  OBVIOUS
<1>1. CASE UNCHANGED inputVars
  BY <1>1 DEF inputVars, KeyInv, InputShape, BytesKept, InDecoding, Decoding
<1> QED
  BY <1>1, TypeStep, OtherSteps, FirstStep, QuotedStep, PasteStep, DecodeStep DEF KeyNext, ReadKey

(* Bytes are neither lost nor doubled nor reordered while the sequences that *)
(* are decoded fit in `seq': a timeout or a change of size in any place, a   *)
(* sequence given back, a paste, a key pushed back.                          *)
THEOREM BytesAreKept == KeySpec /\ []Fits => []BytesKept
<1>1. KeyInit => KeyInv
  <2>1. <<>> \in ByteSeqs /\ <<>> \o <<>> = <<>>
    BY CatFacts, Zenon DEF Cat, Nothing
  <2> QED
    BY <2>1 DEF KeyInit, KeyInv, InputShape, BytesKept, NoInput, InDecoding, Decoding
<1>2. KeyInv => BytesKept
  BY DEF KeyInv
<1> QED
  BY <1>1, <1>2, KeyStep, PTL DEF KeySpec
-----------------------------------------------------------------------------
(* Sequences that are decoded fit, and are none of those after which a       *)
(* change of size is not noted again.                                        *)
Plain == Fits /\ (Decoding => ~Console(input.seq) /\ ~Mouse(input.seq))

LEMMA SizeStep == KeyInv /\ SizeNoted /\ Plain /\ [KeyNext]_inputVars => SizeNoted'
<1> SUFFICES ASSUME KeyInv, SizeNoted, Plain, [KeyNext]_inputVars PROVE SizeNoted'
  OBVIOUS
<1>0. InputShape
  BY DEF KeyInv
<1> USE DEF SizeNoted
<1>1. CASE UNCHANGED inputVars
  BY <1>1 DEF inputVars
<1>2. CASE Type \/ Resized \/ ReadPushed \/ Unget
  BY <1>2 DEF Type, Resized, ReadPushed, Unget
<1>3. CASE ReadFirst \/ ReadQuoted
  <2>1. PICK b \in Bytes(FALSE) : winch' = b.winch /\ stale' = (stale /\ b.byte # RESIZE)
    BY <1>3, Zenon DEF ReadFirst, ReadQuoted
  <2> QED
    BY <1>0, <2>1, ByteTaken
<1>4. CASE DecodeByte
  <2>1. PICK b \in Bytes(TRUE) : winch' = (b.winch \/ (b.byte = RESIZE /\ Decoded(input.seq, b.byte).result = "back"))
    BY <1>4, Zenon DEF DecodeByte
  <2>2. stale' = stale /\ Decoding
    BY <1>4 DEF DecodeByte
  <2>3. Decoded(input.seq, RESIZE).result = "back"
    BY <2>2 DEF Plain, Decoded, IsByte, GiveBack
  <2> QED
    BY <1>0, <2>1, <2>2, <2>3, ByteTaken
<1>5. CASE PasteByte
  <2>1. PICK b \in Bytes(FALSE) : winch' = (b.winch \/ b.byte = RESIZE)
    BY <1>5, Zenon DEF PasteByte
  <2>2. stale' = stale
    BY <1>5 DEF PasteByte
  <2> QED
    BY <1>0, <2>1, <2>2, ByteTaken
<1> QED
  BY <1>1, <1>2, <1>3, <1>4, <1>5 DEF KeyNext, ReadKey

(* A key that was given can be told from what is held back of one.           *)
AKey(k) == /\ k = [code |-> k.code, meta |-> k.meta] /\ k.meta \in BOOLEAN
           /\ k.code \notin {"IGNORE", "ESC", "M-UP"}
Whole(k) == input.mode = "key" /\ input.key_buf = IF k.meta THEN <<k.code, "ESC">> ELSE <<k.code>>
Half(k) == input.mode = "meta" /\ k.meta /\ input.key_buf = <<k.code>>

(* The key that was pushed back is all that key_buf holds, until it is given.*)
PushInv ==
    /\ AKey(key)
    /\ back = NoKey => input.key_buf = <<>>
    /\ back # NoKey => /\ key = NoKey /\ Awaiting /\ AKey(back) /\ back.code \notin {"PASTE", "ESCAPE"}
                       /\ Whole(back) \/ Half(back)

LEMMA PushedBack ==
    ASSUME NEW c
    PROVE  /\ Last(<<c>>) = c /\ Front(<<c>>) = <<>>
           /\ Last(<<c, "ESC">>) = "ESC" /\ Front(<<c, "ESC">>) = <<c>>
           /\ <<>> \o Reverse(<<c>>) = <<c>>
           /\ <<>> \o Reverse(<<"ESC", c>>) = <<c, "ESC">>
<1>1. Last(<<c>>) = c /\ Front(<<c>>) = <<>>
  BY DEF Last, Front
<1>2. Last(<<c, "ESC">>) = "ESC" /\ Front(<<c, "ESC">>) = <<c>>
  <2>1. <<c, "ESC">> \in Seq({c, "ESC"}) /\ Len(<<c, "ESC">>) = 2 /\ <<c, "ESC">>[1] = c /\ <<c, "ESC">>[2] = "ESC"
    OBVIOUS
  <2>2. SubSeq(<<c, "ESC">>, 1, 1) = <<c>>
    <3> DEFINE S == {c, "ESC"}
               t == SubSeq(<<c, "ESC">>, 1, 1)
    <3>1. \A i \in 1 .. 1 : <<c, "ESC">>[i] \in S
      BY <2>1
    <3>2. t \in Seq(S) /\ Len(t) = 1 /\ t[1] = c
      <4>1. /\ t \in Seq(S)
            /\ Len(t) = IF 1 <= 1 THEN 1 - 1 + 1 ELSE 0
            /\ \A i \in 1 .. 1 - 1 + 1 : t[i] = <<c, "ESC">>[1 + i - 1]
        BY <3>1, SubSeqProperties
      <4>2. t[1] = <<c, "ESC">>[1 + 1 - 1]
        BY <4>1
      <4> QED
        BY <2>1, <4>1, <4>2
    <3>3. <<c>> \in Seq(S) /\ Len(<<c>>) = 1 /\ <<c>>[1] = c
      OBVIOUS
    <3> HIDE DEF S, t
    <3>4. t = <<c>>
      BY <3>2, <3>3, SeqEqual
    <3> QED
      BY <3>4 DEF t
  <2> QED
    BY <2>1, <2>2 DEF Last, Front
<1>3. Reverse(<<c>>) = <<c>>
  BY DEF Reverse
<1>4. Reverse(<<"ESC", c>>) = <<c, "ESC">>
  BY DEF Reverse
<1>5. <<>> \o <<c>> = <<c>> /\ <<>> \o <<c, "ESC">> = <<c, "ESC">>
  OBVIOUS
<1> QED
  BY <1>1, <1>2, <1>3, <1>4, <1>5
(* A key that term_getkey gives is one, and none is left pushed back.        *)
LEMMA TakenGives ==
    ASSUME NEW i, Held(i), NEW code, NEW tty, Taken(i, code, tty)
    PROVE  /\ input'.key_buf = i.key_buf
           /\ (key' = key /\ back' = back) \/ (AKey(key') /\ back' = NoKey)
<1>1. input'.key_buf = i.key_buf
  BY TakenKeeps DEF Going
<1>2. CASE key' = key /\ back' = back
  BY <1>1, <1>2
<1>3. CASE ~(key' = key /\ back' = back)
  <2>1. \/ Give(i, [code |-> "ESCAPE", meta |-> FALSE])
        \/ code \notin {"IGNORE", "ESC"} /\ Give(i, KeyOf(IF code = "PASTE" THEN "NOKEY" ELSE code, i.mode = "meta"))
    BY <1>3 DEF Taken, Continue
  <2>2. AKey([code |-> "ESCAPE", meta |-> FALSE])
    BY DEF AKey
  <2>3. code \notin {"IGNORE", "ESC"} => AKey(KeyOf(IF code = "PASTE" THEN "NOKEY" ELSE code, i.mode = "meta"))
    BY DEF AKey, KeyOf
  <2> QED
    BY <1>1, <2>1, <2>2, <2>3 DEF Give
<1> QED
  BY <1>2, <1>3

(* While nothing is pushed back, a step that reads gives keys, and pushes    *)
(* none back.                                                                *)
LEMMA NothingPushed ==
    ASSUME PushInv, back = NoKey, input'.key_buf = input.key_buf,
           (key' = key /\ back' = back) \/ (AKey(key') /\ back' = NoKey)
    PROVE  PushInv'
  BY DEF PushInv

LEMMA DecodeGives ==
    ASSUME InputShape, DecodeByte
    PROVE  /\ input'.key_buf = input.key_buf
           /\ (key' = key /\ back' = back) \/ (AKey(key') /\ back' = NoKey)
<1>0. Decoding
  BY DEF DecodeByte
<1>1. PICK b \in Bytes(TRUE) :
        LET d == Decoded(input.seq, b.byte)
            i == [input EXCEPT !.inq = b.inq, !.seq = NotDecoding]
        IN  CASE d.result = "more" -> Continue([i EXCEPT !.seq = d.seq])
              [] d.result = "code" -> Taken(i, d.code, TRUE)
              [] OTHER -> Taken([i EXCEPT !.inq = d.seq \o @], "ESC", TRUE)
  BY Zenon DEF DecodeByte
<1> DEFINE d == Decoded(input.seq, b.byte)
<1>2. PICK j : j = [input EXCEPT !.inq = b.inq, !.seq = NotDecoding]
  OBVIOUS
<1>3. j = [mode |-> input.mode, seq |-> NotDecoding, inq |-> b.inq, key_buf |-> input.key_buf]
  BY <1>2, TwoFields DEF InputShape
<1>4. PICK k : k = [j EXCEPT !.inq = d.seq \o @]
  OBVIOUS
<1>5. k = [mode |-> input.mode, seq |-> NotDecoding, inq |-> d.seq \o b.inq, key_buf |-> input.key_buf]
  BY <1>3, <1>4
<1>6. Continue([j EXCEPT !.seq = d.seq]) \/ (\E code : Taken(j, code, TRUE)) \/ Taken(k, "ESC", TRUE)
  <2>1. CASE d.result = "more"
    BY <1>1, <1>2, <2>1, Zenon
  <2>2. CASE d.result = "code" /\ d.result # "more"
    BY <1>1, <1>2, <2>2, Zenon
  <2>3. CASE d.result # "code" /\ d.result # "more"
    BY <1>1, <1>2, <1>4, <2>3, Zenon
  <2> QED
    BY <2>1, <2>2, <2>3
<1>7. Held(j) /\ j.key_buf = input.key_buf /\ Held(k) /\ k.key_buf = input.key_buf
  BY <1>0, <1>3, <1>5 DEF InputShape, Held, Decoding
<1>8. CASE Continue([j EXCEPT !.seq = d.seq])
  BY <1>3, <1>8 DEF Continue
<1> QED
  BY <1>6, <1>7, <1>8, TakenGives

LEMMA PasteGives ==
    ASSUME InputShape, PasteByte
    PROVE  /\ input'.key_buf = input.key_buf
           /\ (key' = key /\ back' = back) \/ (AKey(key') /\ back' = NoKey)
<1>1. PICK b \in Bytes(FALSE) :
        LET i == [input EXCEPT !.inq = b.inq]
            matched == Matched(input.seq, b.byte)
        IN  IF b.byte = RESIZE THEN Continue(i)
            ELSE IF matched = PASTE_END
            THEN Give([i EXCEPT !.seq = NotDecoding], [code |-> "PASTE", meta |-> FALSE])
            ELSE Continue([i EXCEPT !.seq = matched])
  BY Zenon DEF PasteByte
<1>2. PICK j : j = [input EXCEPT !.inq = b.inq]
  OBVIOUS
<1>3. j = [mode |-> input.mode, seq |-> input.seq, inq |-> b.inq, key_buf |-> input.key_buf]
  BY <1>2, OneField DEF InputShape
<1>4. Continue(j) \/ (\E seq : Continue([j EXCEPT !.seq = seq])) \/ Give([j EXCEPT !.seq = NotDecoding], [code |-> "PASTE", meta |-> FALSE])
  BY <1>1, <1>2
<1>5. CASE Continue(j)
  BY <1>3, <1>5 DEF Continue
<1>6. ASSUME NEW seq, Continue([j EXCEPT !.seq = seq])
      PROVE  input'.key_buf = input.key_buf /\ key' = key /\ back' = back
  BY <1>3, <1>6 DEF Continue
<1>7. CASE Give([j EXCEPT !.seq = NotDecoding], [code |-> "PASTE", meta |-> FALSE])
  <2>1. AKey([code |-> "PASTE", meta |-> FALSE])
    BY DEF AKey
  <2> QED
    BY <1>3, <1>7, <2>1 DEF Give
<1> QED
  BY <1>4, <1>5, <1>6, <1>7

LEMMA FirstGives ==
    ASSUME InputShape, ReadFirst \/ ReadQuoted
    PROVE  /\ input'.key_buf = input.key_buf
           /\ (key' = key /\ back' = back) \/ (AKey(key') /\ back' = NoKey)
<1>1. PICK b \in Bytes(FALSE) :
        LET i == [input EXCEPT !.inq = b.inq]
        IN  Continue(i) \/ Continue([i EXCEPT !.seq = <<>>]) \/ Taken(i, b.byte, TRUE) \/ Give(i, Quoted)
  <2>1. CASE ReadFirst
    BY <2>1 DEF ReadFirst
  <2>2. CASE ReadQuoted
    BY <2>2 DEF ReadQuoted
  <2> QED
    BY <2>1, <2>2
<1>2. PICK j : j = [input EXCEPT !.inq = b.inq]
  OBVIOUS
<1>3. j = [mode |-> input.mode, seq |-> input.seq, inq |-> b.inq, key_buf |-> input.key_buf]
  BY <1>2, OneField DEF InputShape
<1>4. Continue(j) \/ Continue([j EXCEPT !.seq = <<>>]) \/ Taken(j, b.byte, TRUE) \/ Give(j, Quoted)
  BY <1>1, <1>2
<1>5. Held(j)
  BY <1>3 DEF InputShape, Held, Awaiting, ReadFirst, ReadQuoted
<1>6. CASE Continue(j) \/ Continue([j EXCEPT !.seq = <<>>])
  BY <1>3, <1>6 DEF Continue
<1>7. ASSUME NEW code, Taken(j, code, TRUE)
      PROVE  /\ input'.key_buf = input.key_buf
             /\ (key' = key /\ back' = back) \/ (AKey(key') /\ back' = NoKey)
  <2>1. /\ input'.key_buf = j.key_buf
        /\ (key' = key /\ back' = back) \/ (AKey(key') /\ back' = NoKey)
    BY <1>5, <1>7, TakenGives
  <2> QED
    BY <1>3, <2>1
<1>8. CASE Give(j, Quoted)
  <2>1. AKey(Quoted)
    BY DEF AKey, Quoted
  <2>2. input'.key_buf = input.key_buf
    BY <1>3, <1>8 DEF Give
  <2> QED
    BY <1>8, <2>1, <2>2 DEF Give
<1> QED
  BY <1>4, <1>6, <1>7, <1>8

LEMMA ReadStep == KeyInv /\ PushInv /\ (ReadFirst \/ ReadQuoted \/ DecodeByte \/ PasteByte) => PushInv' /\ back = NoKey
<1> SUFFICES ASSUME KeyInv, PushInv, ReadFirst \/ ReadQuoted \/ DecodeByte \/ PasteByte PROVE PushInv' /\ back = NoKey
  OBVIOUS
<1>0. InputShape
  BY DEF KeyInv
<1>1. back = NoKey
  <2>1. ~Awaiting \/ input.key_buf = <<>>
    BY DEF ReadFirst, ReadQuoted, DecodeByte, PasteByte, Awaiting, Decoding
  <2>2. \A c : <<c>> # <<>> /\ <<c, "ESC">> # <<>>
    OBVIOUS
  <2> QED
    BY <2>1, <2>2 DEF PushInv, Whole, Half
<1>2. /\ input'.key_buf = input.key_buf
      /\ (key' = key /\ back' = back) \/ (AKey(key') /\ back' = NoKey)
  BY <1>0, FirstGives, DecodeGives, PasteGives
<1> QED
  BY <1>1, <1>2, NothingPushed
LEMMA UngetStep == ASSUME ~PASTES_UNGOT, KeyInv, PushInv, Unget PROVE PushInv'
<1>1. /\ Awaiting /\ input.mode = "key" /\ key # NoKey /\ key # Quoted /\ key.code # "ESCAPE" /\ key.code # "PASTE"
      /\ input' = [input EXCEPT !.key_buf = @ \o Reverse(CodesOf(key))] /\ key' = NoKey /\ back' = key
  BY DEF Unget
<1>2. input.key_buf = <<>> /\ AKey(key)
  BY <1>1 DEF PushInv
<1>3. input.key_buf \o Reverse(CodesOf(key)) = IF key.meta THEN <<key.code, "ESC">> ELSE <<key.code>>
  <2>1. CASE key.meta
    <3>1. CodesOf(key) = <<"ESC", key.code>>
      BY <1>1, <2>1 DEF CodesOf
    <3> QED
      BY <1>2, <2>1, <3>1, PushedBack
  <2>2. CASE ~key.meta
    <3>1. CodesOf(key) = <<key.code>>
      BY <1>1, <2>2 DEF CodesOf
    <3> QED
      BY <1>2, <2>2, <3>1, PushedBack
  <2> QED
    BY <2>1, <2>2
<1>4. input' = [mode |-> "key", seq |-> NotDecoding, inq |-> input.inq,
                key_buf |-> IF key.meta THEN <<key.code, "ESC">> ELSE <<key.code>>]
  <2>1. input = [mode |-> "key", seq |-> NotDecoding, inq |-> input.inq, key_buf |-> input.key_buf]
    BY <1>1 DEF KeyInv, InputShape, Awaiting
  <2> QED
    BY <1>1, <1>3, <2>1
<1>5. Awaiting' /\ Whole(back)'
  <2>1. input'.mode = "key" /\ input'.seq = NotDecoding
    BY <1>4
  <2>2. input'.key_buf = IF back'.meta THEN <<back'.code, "ESC">> ELSE <<back'.code>>
    <3>1. input'.key_buf = IF key.meta THEN <<key.code, "ESC">> ELSE <<key.code>>
      BY <1>4
    <3> QED
      BY <1>1, <3>1, Zenon
  <2> QED
    BY <2>1, <2>2 DEF Awaiting, Whole
<1>6. AKey(NoKey)
  BY DEF AKey, NoKey
<1> QED
  BY <1>1, <1>2, <1>5, <1>6 DEF PushInv, AKey

LEMMA PushedStep ==
    ASSUME KeyInv, PushInv, ReadPushed
    PROVE  PushInv' /\ (key' # NoKey /\ back' = NoKey => key' = back)
<1>1. Awaiting /\ input.key_buf # <<>> /\ Taken([input EXCEPT !.key_buf = Front(@)], Last(input.key_buf), FALSE)
  BY DEF ReadPushed
<1>2. /\ back # NoKey /\ key = NoKey /\ AKey(back) /\ back.code \notin {"PASTE", "ESCAPE"}
      /\ Whole(back) \/ Half(back)
  BY <1>1 DEF PushInv
<1> DEFINE c == back.code
           i(buf) == [mode |-> input.mode, seq |-> NotDecoding, inq |-> input.inq, key_buf |-> buf]
<1>3. [input EXCEPT !.key_buf = Front(@)] = i(Front(input.key_buf))
  BY <1>1 DEF KeyInv, InputShape, Awaiting
<1>4. Taken(i(Front(input.key_buf)), Last(input.key_buf), FALSE)
  BY <1>1, <1>3
<1>5. AKey(NoKey)
  BY DEF AKey, NoKey
<1>6. CASE Whole(back) /\ back.meta
  <2>1. Taken(i(<<c>>), "ESC", FALSE) /\ input.mode = "key"
    BY <1>4, <1>6, PushedBack DEF Whole
  <2>2. input' = [mode |-> "meta", seq |-> NotDecoding, inq |-> input.inq, key_buf |-> <<c>>] /\ key' = key /\ back' = back
    BY <2>1 DEF Taken, Continue
  <2>3. Awaiting' /\ Half(back)'
    BY <1>6, <2>2 DEF Awaiting, Half
  <2> QED
    BY <1>2, <1>5, <2>2, <2>3 DEF PushInv, AKey
<1>7. CASE (Whole(back) /\ ~back.meta) \/ Half(back)
  <2>1. Taken(i(<<>>), c, FALSE) /\ (input.mode = "meta" <=> back.meta)
    BY <1>4, <1>7, PushedBack DEF Whole, Half
  <2>2. Give(i(<<>>), KeyOf(c, input.mode = "meta"))
    BY <1>2, <2>1 DEF Taken, AKey
  <2>3. KeyOf(c, input.mode = "meta") = back
    BY <1>2, <2>1 DEF KeyOf, AKey
  <2>4. key' = back /\ back' = NoKey /\ input'.key_buf = <<>>
    BY <2>2, <2>3 DEF Give
  <2> QED
    BY <1>2, <2>4 DEF PushInv, AKey
<1> QED
  BY <1>2, <1>6, <1>7
LEMMA PushStep ==
    ASSUME ~PASTES_UNGOT, KeyInv, PushInv, [KeyNext]_inputVars
    PROVE  PushInv' /\ (back # NoKey /\ key' # NoKey /\ back' = NoKey => key' = back)
<1>1. CASE UNCHANGED inputVars
  BY <1>1 DEF inputVars, PushInv, AKey, Whole, Half, Awaiting
<1>2. CASE Type \/ Resized
  BY <1>2 DEF Type, Resized, PushInv, AKey, Whole, Half, Awaiting
<1>3. CASE Unget
  <2>1. back' = key /\ key # NoKey
    BY <1>3 DEF Unget
  <2> QED
    BY <1>3, <2>1, UngetStep
<1>4. CASE ReadPushed
  BY <1>4, PushedStep
<1>5. CASE ReadFirst \/ ReadQuoted \/ DecodeByte \/ PasteByte
  BY <1>5, ReadStep
<1> QED
  BY <1>1, <1>2, <1>3, <1>4, <1>5 DEF KeyNext, ReadKey

(* What is typed is not lost: neither bytes nor changes of size that come in *)
(* the middle of what is read, nor keys that commands push back, if those    *)
(* are no pastes, for as long as the sequences decoded are plain ones.       *)
THEOREM InputIsNotLost == ASSUME ~PASTES_UNGOT PROVE KeySpec /\ []Plain => NoInputLost
<1> DEFINE Inv == KeyInv /\ SizeNoted /\ PushInv
<1>1. KeyInit => Inv
  <2>1. <<>> \in ByteSeqs /\ <<>> \o <<>> = <<>>
    BY CatFacts, Zenon DEF Cat, Nothing
  <2>2. KeyInit => KeyInv
    BY <2>1 DEF KeyInit, KeyInv, InputShape, BytesKept, NoInput, InDecoding, Decoding
  <2>3. KeyInit => SizeNoted
    BY DEF KeyInit, SizeNoted
  <2>4. KeyInit => PushInv
    BY DEF KeyInit, PushInv, AKey, NoKey, NoInput
  <2> QED
    BY <2>2, <2>3, <2>4
<1>2. Inv /\ Plain /\ [KeyNext]_inputVars => Inv'
  BY KeyStep, SizeStep, PushStep DEF Plain
<1>3. Inv /\ [KeyNext]_inputVars => [back # NoKey /\ key' # NoKey /\ back' = NoKey => key' = back]_inputVars
  BY PushStep
<1>4. Inv => InputKept
  BY DEF InputKept, KeyInv
<1> QED
  BY <1>1, <1>2, <1>3, <1>4, PTL DEF KeySpec, NoInputLost, UngottenComesBack
=============================================================================
