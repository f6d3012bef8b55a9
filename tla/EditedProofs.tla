---------------------------- MODULE EditedProofs ----------------------------
(* Proofs about the text a user works on: that undo gives back what was     *)
(* there, and knows what the file holds (UndoList, Editing), that yank      *)
(* gives what was killed or copied last, here or elsewhere (KillRing), and  *)
(* that searching and replacing keep their place in it (Searching).         *)
EXTENDS Editing, KillRing, Searching, SelectionProofs, TLAPS

-----------------------------------------------------------------------------
(* Changes to a text. *)

(* A piece of x put in the place of another. *)
Spliced(x, o, del, new) == SubSeq(x, 1, o) \o new \o SubSeq(x, o + del + 1, Len(x))

(* r is the n elements of x that follow the first m; s and then t.          *)
Piece(r, x, m, n) == Len(r) = n /\ \A i \in 1 .. n : r[i] = x[m + i]
Joins(r, s, t) ==
    /\ Len(r) = Len(s) + Len(t)
    /\ \A k \in 1 .. Len(s) + Len(t) : r[k] = IF k <= Len(s) THEN s[k] ELSE t[k - Len(s)]

Splices(y, x, o, del, new, p) ==
    /\ Len(y) = Len(x) - del + p
    /\ \A i \in 1 .. Len(x) - del + p :
          y[i] = IF i <= o THEN x[i] ELSE IF i <= o + p THEN new[i - o] ELSE x[i - p + del]

LEMMA PieceTaken ==
    ASSUME NEW C, NEW x \in Seq(C), NEW m \in Nat, NEW n \in Nat, m + n <= Len(x),
           NEW i, NEW j, i = m + 1, j = m + n, NEW r, r = SubSeq(x, i, j)
    PROVE  r \in Seq(C) /\ Piece(r, x, m, n)
<1>1. i \in Int /\ j \in Int /\ i \in 1 .. Len(x) + 1 /\ j \in i - 1 .. Len(x) OBVIOUS
<1>2. \A k \in i .. j : x[k] \in C BY <1>1
<1>3. r \in Seq(C) /\ Len(r) = j - i + 1 /\ \A k \in 1 .. j - i + 1 : r[k] = x[i + k - 1]
  BY <1>1, <1>2, SubSeqProperties
<1>4. j - i + 1 = n /\ \A k \in 1 .. n : i + k - 1 = m + k OBVIOUS
<1> QED BY <1>3, <1>4 DEF Piece

LEMMA TwoJoined ==
    ASSUME NEW C, NEW s \in Seq(C), NEW t \in Seq(C), NEW r, r = s \o t
    PROVE  r \in Seq(C) /\ Joins(r, s, t)
BY ConcatProperties DEF Joins

LEMMA SplicedFacts ==
    ASSUME NEW C, NEW x \in Seq(C), NEW o \in Nat, NEW del \in Nat, o + del <= Len(x),
           NEW new \in Seq(C), NEW y, y = Spliced(x, o, del, new), NEW p, p = Len(new)
    PROVE  y \in Seq(C) /\ Splices(y, x, o, del, new, p)
<1>0. Len(x) \in Nat /\ p \in Nat OBVIOUS
<1>1. PICK a : a = SubSeq(x, 1, o) OBVIOUS
<1>2. PICK q : q = o + del + 1 OBVIOUS
<1>3. PICK c : c = SubSeq(x, q, Len(x)) OBVIOUS
<1>4. PICK z : z = a \o new OBVIOUS
<1>5. y = z \o c BY <1>1, <1>2, <1>3, <1>4 DEF Spliced
<1>6. a \in Seq(C) /\ Piece(a, x, 0, o)
  <2>1. 0 \in Nat /\ 0 + o <= Len(x) /\ 1 = 0 + 1 /\ o = 0 + o BY <1>0
  <2> QED BY ONLY x \in Seq(C), o \in Nat, <1>1, <2>1, PieceTaken, Zenon
<1>7. PICK m : m = o + del OBVIOUS
<1>8. PICK n : n = Len(x) - m OBVIOUS
<1>9. c \in Seq(C) /\ Piece(c, x, m, n)
  <2>1. m \in Nat /\ n \in Nat /\ m + n <= Len(x) /\ q = m + 1 /\ Len(x) = m + n BY <1>0, <1>2, <1>7, <1>8
  <2> QED BY ONLY x \in Seq(C), <1>3, <2>1, PieceTaken, Zenon
<1>10. z \in Seq(C) /\ Joins(z, a, new) BY ONLY new \in Seq(C), <1>4, <1>6, TwoJoined, Zenon
<1>11. y \in Seq(C) /\ Joins(y, z, c) BY ONLY <1>5, <1>9, <1>10, TwoJoined, Zenon
<1>12. Len(a) = o /\ \A i \in 1 .. o : a[i] = x[i] BY <1>6 DEF Piece
<1>13. Len(z) = o + p /\ \A i \in 1 .. o + p : z[i] = IF i <= o THEN a[i] ELSE new[i - o]
  BY <1>10, <1>12 DEF Joins
<1>14. /\ Len(y) = Len(z) + Len(c)
       /\ \A i \in 1 .. Len(z) + Len(c) : y[i] = IF i <= Len(z) THEN z[i] ELSE c[i - Len(z)]
  BY <1>11 DEF Joins
<1>15. Len(c) = n /\ \A i \in 1 .. n : c[i] = x[m + i] BY <1>9 DEF Piece
<1>16. Len(y) = Len(x) - del + p BY <1>0, <1>7, <1>8, <1>13, <1>14, <1>15
<1>17. ASSUME NEW i \in 1 .. Len(x) - del + p
       PROVE y[i] = IF i <= o THEN x[i] ELSE IF i <= o + p THEN new[i - o] ELSE x[i - p + del]
  <2>0. i \in 1 .. Len(z) + Len(c) BY <1>14, <1>16
  <2>1. CASE i <= o
    <3>1. i \in 1 .. o /\ i <= o + p BY <1>0, <2>1
    <3> QED BY <1>0, <1>12, <1>13, <1>14, <2>0, <2>1, <3>1, SMTT(30)
  <2>2. CASE ~ (i <= o) /\ i <= o + p
    <3>1. i \in 1 .. o + p BY <1>0, <2>2
    <3> QED BY <1>13, <1>14, <2>0, <2>2, <3>1
  <2>3. CASE ~ (i <= o) /\ ~ (i <= o + p)
    <3>1. PICK k : k = i - (o + p) OBVIOUS
    <3>2. k \in 1 .. n /\ m + k = i - p + del BY <1>0, <1>7, <1>8, <2>3, <3>1
    <3>3. y[i] = c[k] BY <1>13, <1>14, <2>0, <2>3, <3>1
    <3> QED BY <1>15, <2>3, <3>2, <3>3
  <2> QED BY <2>1, <2>2, <2>3
<1> QED BY <1>11, <1>16, <1>17 DEF Splices

(* What takes a change back gives the text before it. *)
PutsBack(x, y, o, p, old) == o + p <= Len(y) /\ x = Spliced(y, o, p, old)

LEMMA SplicedBack ==
    ASSUME NEW C, NEW x \in Seq(C), NEW o \in Nat, NEW del \in Nat, o + del <= Len(x),
           NEW new \in Seq(C), NEW y, y = Spliced(x, o, del, new), NEW p, p = Len(new),
           NEW i, i = o + 1, NEW j, j = o + del, NEW old, old = SubSeq(x, i, j)
    PROVE  old \in Seq(C) /\ PutsBack(x, y, o, p, old)
<1>0. Len(x) \in Nat /\ p \in Nat OBVIOUS
<1>1. /\ y \in Seq(C) /\ Len(y) = Len(x) - del + p
      /\ \A k \in 1 .. Len(x) - del + p :
           y[k] = IF k <= o THEN x[k] ELSE IF k <= o + p THEN new[k - o] ELSE x[k - p + del]
  <2>1. y \in Seq(C) /\ Splices(y, x, o, del, new, p)
    BY ONLY x \in Seq(C), o \in Nat, del \in Nat, o + del <= Len(x), new \in Seq(C),
            y = Spliced(x, o, del, new), p = Len(new), SplicedFacts, Zenon
  <2> QED BY <2>1 DEF Splices
<1>2. old \in Seq(C) /\ Piece(old, x, o, del)
  BY ONLY x \in Seq(C), o \in Nat, del \in Nat, o + del <= Len(x), i = o + 1, j = o + del,
          old = SubSeq(x, i, j), PieceTaken, Zenon
<1>3. Len(old) = del /\ \A k \in 1 .. del : old[k] = x[o + k] BY <1>2 DEF Piece
<1>4. o + p <= Len(y) BY <1>0, <1>1, SMTT(30)
<1>5. PICK z : z = Spliced(y, o, p, old) OBVIOUS
<1>6. /\ z \in Seq(C) /\ Len(z) = Len(y) - p + del
      /\ \A k \in 1 .. Len(y) - p + del :
           z[k] = IF k <= o THEN y[k] ELSE IF k <= o + del THEN old[k - o] ELSE y[k - del + p]
  <2>1. del = Len(old) /\ p \in Nat /\ y \in Seq(C) /\ old \in Seq(C) BY <1>0, <1>1, <1>2, <1>3
  <2>2. z \in Seq(C) /\ Splices(z, y, o, p, old, del)
    BY ONLY o \in Nat, <1>4, <1>5, <2>1, SplicedFacts, Zenon
  <2> QED BY <2>2 DEF Splices
<1>7. Len(z) = Len(x) BY <1>0, <1>1, <1>6
<1>8. ASSUME NEW k \in 1 .. Len(x) PROVE z[k] = x[k]
  <2>0. k \in 1 .. Len(y) - p + del BY <1>0, <1>1
  <2>1. CASE k <= o
    <3>1. k \in 1 .. Len(x) - del + p BY <1>0, <2>1
    <3> QED BY <1>1, <1>6, <2>0, <2>1, <3>1
  <2>2. CASE ~ (k <= o) /\ k <= o + del
    <3>1. k - o \in 1 .. del /\ o + (k - o) = k BY <2>2
    <3> QED BY <1>3, <1>6, <2>0, <2>2, <3>1
  <2>3. CASE ~ (k <= o) /\ ~ (k <= o + del)
    <3>1. PICK h : h = k - del + p OBVIOUS
    <3>2. h \in 1 .. Len(x) - del + p /\ ~ (h <= o) /\ ~ (h <= o + p) /\ h - p + del = k BY <1>0, <2>3, <3>1
    <3>3. z[k] = y[h] BY <1>6, <2>0, <2>3, <3>1
    <3>4. y[h] = x[k] BY <1>1, <3>2
    <3> QED BY <3>3, <3>4
  <2> QED BY <2>1, <2>2, <2>3
<1>9. z = x
  <2>1. z \in Seq(C) /\ x \in Seq(C) BY <1>6
  <2> QED BY <1>7, <1>8, <2>1, SeqEqual
<1> QED BY <1>2, <1>4, <1>5, <1>9 DEF PutsBack

-----------------------------------------------------------------------------
(* A buffer whose entries are of the commands K; what an entry takes back;  *)
(* and the texts t that the entries were kept for, oldest first.            *)
EntryOf(K) == [type : {"start", "end", "block"}, o : Nat, size : Nat, text : Seq(Chars),
               unchanged : BOOLEAN, by : K]
BufferOf(K) == [text : Seq(Chars), modified : BOOLEAN, undo : Seq(EntryOf(K)), next : Nat]

TakesBack(e, after, before) ==
    IF e.type = "block"
    THEN e.o + e.size <= Len(after) /\ before = Spliced(after, e.o, e.size, e.text)
    ELSE before = after

Chain(b, t) ==
    /\ t \in [0 .. Len(b.undo) -> Seq(Chars)]
    /\ t[Len(b.undo)] = b.text
    /\ \A i \in 1 .. Len(b.undo) : TakesBack(b.undo[i], t[i], t[i - 1])

(* base is the text the buffer was last read or written with.               *)
Flagged(b, t, base) ==
    /\ ~b.modified => b.text = base
    /\ \A i \in 1 .. Len(b.undo) : b.undo[i].type = "block" /\ b.undo[i].unchanged => t[i - 1] = base

Kept(b, K, t, base) ==
    b \in BufferOf(K) /\ Chain(b, t) /\ (MATCHES \/ Flagged(b, t, base))

(* c is b after more changes, and u the texts its entries were kept for.    *)
Continues(c, u, b, t) ==
    /\ Len(b.undo) <= Len(c.undo) /\ c.next = b.next
    /\ \A i \in 1 .. Len(b.undo) : c.undo[i] = b.undo[i]
    /\ \A i \in 0 .. Len(b.undo) : u[i] = t[i]

Grown(c, b, K, t, base) == \E u : Kept(c, K, u, base) /\ Continues(c, u, b, t)

LEMMA ListFacts ==
    ASSUME NEW K, NEW b \in BufferOf(K)
    PROVE  /\ b.text \in Seq(Chars) /\ b.modified \in BOOLEAN /\ b.undo \in Seq(EntryOf(K)) /\ b.next \in Nat
           /\ Len(b.undo) \in Nat /\ Len(b.text) \in Nat
           /\ \A i \in 1 .. Len(b.undo) : b.undo[i] \in EntryOf(K)
BY DEF BufferOf

(* One more entry that takes back what was done keeps the chain.            *)
LEMMA OneMoreEntry ==
    ASSUME NEW K, NEW b, NEW t, NEW base, Kept(b, K, t, base),
           NEW e \in EntryOf(K), NEW c \in BufferOf(K), c.undo = Append(b.undo, e), c.next = b.next,
           TakesBack(e, c.text, b.text),
           MATCHES \/ /\ ~c.modified => c.text = base
                      /\ e.type = "block" /\ e.unchanged => b.text = base
    PROVE  Grown(c, b, K, t, base)
<1>1. b \in BufferOf(K) /\ Chain(b, t) /\ (MATCHES \/ Flagged(b, t, base)) BY DEF Kept
<1>2. PICK n : n = Len(b.undo) OBVIOUS
<1>3. n \in Nat /\ b.undo \in Seq(EntryOf(K)) BY <1>1, <1>2, ListFacts
<1>4. /\ t \in [0 .. n -> Seq(Chars)] /\ t[n] = b.text
      /\ \A i \in 1 .. n : TakesBack(b.undo[i], t[i], t[i - 1])
  BY <1>1, <1>2 DEF Chain
<1>5. Len(c.undo) = n + 1 /\ c.undo[n + 1] = e /\ \A i \in 1 .. n : c.undo[i] = b.undo[i]
  BY <1>2, <1>3
<1>6. PICK u : u = [i \in 0 .. n + 1 |-> IF i <= n THEN t[i] ELSE c.text] OBVIOUS
<1>7. \A i \in 0 .. n : u[i] = t[i] BY <1>3, <1>6
<1>8. u[n + 1] = c.text BY <1>3, <1>6
<1>9. u \in [0 .. n + 1 -> Seq(Chars)]
  <2>1. c.text \in Seq(Chars) BY ListFacts
  <2>2. \A i \in 0 .. n + 1 : i <= n => i \in 0 .. n BY <1>3
  <2> QED BY <1>4, <1>6, <2>1, <2>2
<1>10. ASSUME NEW i \in 1 .. n + 1 PROVE TakesBack(c.undo[i], u[i], u[i - 1])
  <2>1. CASE i <= n
    <3>1. i \in 1 .. n /\ i \in 0 .. n /\ i - 1 \in 0 .. n BY <1>3, <2>1
    <3> QED BY <1>4, <1>5, <1>7, <3>1
  <2>2. CASE i = n + 1
    <3>1. i - 1 = n /\ n \in 0 .. n BY <1>3, <2>2
    <3> QED BY <1>4, <1>5, <1>7, <1>8, <2>2, <3>1
  <2>3. i <= n \/ i = n + 1 BY <1>3
  <2> QED BY <2>1, <2>2, <2>3
<1>11. Chain(c, u) BY <1>5, <1>8, <1>9, <1>10 DEF Chain
<1>12. ASSUME ~MATCHES PROVE Flagged(c, u, base)
  <2>1. /\ ~b.modified => b.text = base
        /\ \A i \in 1 .. n : b.undo[i].type = "block" /\ b.undo[i].unchanged => t[i - 1] = base
    BY <1>1, <1>2, <1>12 DEF Flagged
  <2>2. ASSUME NEW i \in 1 .. n + 1, c.undo[i].type = "block", c.undo[i].unchanged PROVE u[i - 1] = base
    <3>1. CASE i <= n
      <4>1. i \in 1 .. n /\ i - 1 \in 0 .. n BY <1>3, <3>1
      <4> QED BY <1>5, <1>7, <2>1, <2>2, <4>1
    <3>2. CASE i = n + 1
      <4>1. i - 1 = n /\ n \in 0 .. n BY <1>3, <3>2
      <4> QED BY <1>4, <1>5, <1>7, <1>12, <2>2, <3>2, <4>1
    <3> QED BY <1>3, <3>1, <3>2
  <2> QED BY <1>5, <1>12, <2>2 DEF Flagged
<1>13. Kept(c, K, u, base) BY <1>11, <1>12 DEF Kept
<1>14. Continues(c, u, b, t) BY <1>2, <1>3, <1>5, <1>7 DEF Continues
<1> QED BY <1>13, <1>14 DEF Grown

(* c is b with a change made to it by a command of K that leaves `modified' *)
(* as m.                                                                   *)
Changed(c, b, K, o, del, new, m) ==
    /\ o \in Nat /\ del \in Nat /\ o + del <= Len(b.text) /\ new \in Seq(Chars) /\ m \in BOOLEAN
    /\ \E k \in K : c = [Replaced(b, o, del, new, k) EXCEPT !.modified = m]

LEMMA ChangeKept ==
    ASSUME NEW K, NEW b, NEW t, NEW base, Kept(b, K, t, base), NEW c, NEW o, NEW del, NEW new, NEW m,
           Changed(c, b, K, o, del, new, m), ~m => MATCHES \/ Spliced(b.text, o, del, new) = base
    PROVE  /\ Grown(c, b, K, t, base)
           /\ c.text = Spliced(b.text, o, del, new) /\ c.modified = m
<1>0. /\ o \in Nat /\ del \in Nat /\ o + del <= Len(b.text) /\ new \in Seq(Chars) /\ m \in BOOLEAN
      /\ \E k \in K : c = [Replaced(b, o, del, new, k) EXCEPT !.modified = m]
  BY DEF Changed
<1>k. PICK k \in K : c = [Replaced(b, o, del, new, k) EXCEPT !.modified = m] BY <1>0
<1>1. b \in BufferOf(K) /\ (MATCHES \/ Flagged(b, t, base)) BY DEF Kept
<1>2. b.text \in Seq(Chars) /\ b.undo \in Seq(EntryOf(K)) /\ b.modified \in BOOLEAN /\ b.next \in Nat
  BY <1>1, ListFacts
<1>3. PICK i : i = o + 1 OBVIOUS
<1>4. PICK j : j = o + del OBVIOUS
<1>5. PICK old : old = SubSeq(b.text, i, j) OBVIOUS
<1>6. PICK p : p = Len(new) OBVIOUS
<1>7. PICK y : y = Spliced(b.text, o, del, new) OBVIOUS
<1>8. y \in Seq(Chars) /\ Splices(y, b.text, o, del, new, p)
  BY ONLY <1>2, <1>6, <1>7, <1>0, SplicedFacts, Zenon
<1>9. o + p <= Len(y) /\ old \in Seq(Chars) /\ b.text = Spliced(y, o, p, old)
  <2>1. PICK x \in Seq(Chars) : x = b.text BY <1>2
  <2>2. old = SubSeq(x, i, j) /\ y = Spliced(x, o, del, new) /\ o + del <= Len(x) BY <1>0, <1>5, <1>7, <2>1
  <2>3. old \in Seq(Chars) /\ PutsBack(x, y, o, p, old)
    BY ONLY <1>3, <1>4, <1>6, <2>2, x \in Seq(Chars), <1>0, SplicedBack, Zenon
  <2> QED BY <2>1, <2>3 DEF PutsBack
<1>10. PICK e : e = [type |-> "block", o |-> o, size |-> p, text |-> old, unchanged |-> ~b.modified, by |-> k]
  OBVIOUS
<1>11. e \in EntryOf(K) /\ e.type = "block" /\ e.unchanged = ~b.modified
  <2>1. p \in Nat /\ (~b.modified) \in BOOLEAN BY <1>0, <1>6
  <2> QED BY <1>0, <1>9, <1>10, <2>1 DEF EntryOf
<1>12. c = [b EXCEPT !.text = y, !.modified = m, !.undo = Append(b.undo, e)]
  BY <1>k, <1>1, <1>3, <1>4, <1>5, <1>6, <1>7, <1>10 DEF Replaced, Spliced, BufferOf
<1>13. c.text = y /\ c.modified = m /\ c.undo = Append(b.undo, e) /\ c.next = b.next
  BY <1>0, <1>1, <1>12 DEF BufferOf
<1>14. c \in BufferOf(K)
  <2>1. Append(b.undo, e) \in Seq(EntryOf(K)) BY <1>2, <1>11
  <2> QED BY <1>0, <1>1, <1>8, <1>12, <2>1 DEF BufferOf
<1>15. TakesBack(e, c.text, b.text) BY <1>9, <1>10, <1>13 DEF TakesBack
<1>16. MATCHES \/ /\ ~c.modified => c.text = base
                  /\ e.type = "block" /\ e.unchanged => b.text = base
  BY <1>1, <1>7, <1>11, <1>13 DEF Flagged
<1> QED BY <1>7, <1>11, <1>13, <1>14, <1>15, <1>16, OneMoreEntry

LEMMA MarkKept ==
    ASSUME NEW K, NEW b, NEW t, NEW base, Kept(b, K, t, base), NEW e \in EntryOf(K), e.type # "block",
           NEW c, c = [b EXCEPT !.undo = Append(@, e)]
    PROVE  /\ Grown(c, b, K, t, base)
           /\ c.text = b.text /\ c.modified = b.modified
<1>1. b \in BufferOf(K) /\ (MATCHES \/ Flagged(b, t, base)) BY DEF Kept
<1>2. c.text = b.text /\ c.modified = b.modified /\ c.undo = Append(b.undo, e) /\ c.next = b.next
  BY <1>1 DEF BufferOf
<1>3. c \in BufferOf(K)
  <2>1. Append(b.undo, e) \in Seq(EntryOf(K)) BY <1>1, ListFacts
  <2> QED BY <1>1, <2>1 DEF BufferOf
<1>4. TakesBack(e, c.text, b.text) BY <1>2 DEF TakesBack
<1>5. MATCHES \/ (~c.modified => c.text = base) BY <1>1, <1>2 DEF Flagged
<1> QED BY <1>2, <1>3, <1>4, <1>5, OneMoreEntry

(* What the commands rely on, and what they keep when they are done: the    *)
(* next entry to undo is one of the list or none, and it was kept for the   *)
(* text there is.                                                           *)
Loose(b, K, base) == \E t : Kept(b, K, t, base) /\ b.next <= Len(b.undo)
Sound(b, K, base) == \E t : Kept(b, K, t, base) /\ b.next <= Len(b.undo) /\ t[b.next] = b.text

(* A start with nothing after it is dropped.                                *)
LEMMA DroppedKept ==
    ASSUME NEW K, NEW b, NEW t, NEW base, Kept(b, K, t, base), b.next <= Len(b.undo), Empties(b),
           NEW c, c = Dropped(b)
    PROVE  /\ \E u : Kept(c, K, u, base) /\ c.next <= Len(c.undo) /\ u[c.next] = t[b.next]
           /\ c.text = b.text /\ c.modified = b.modified
<1>1. b \in BufferOf(K) /\ Chain(b, t) /\ (MATCHES \/ Flagged(b, t, base)) BY DEF Kept
<1>2. PICK n : n = Len(b.undo) OBVIOUS
<1>3. /\ n \in Nat /\ b.undo \in Seq(EntryOf(K)) /\ b.next \in Nat /\ b.next <= n
      /\ \A i \in 1 .. n : b.undo[i] \in EntryOf(K)
  BY <1>1, <1>2, ListFacts
<1>4. n # 0 /\ b.undo[n].type = "start" BY <1>2, <1>3 DEF Empties, Last
<1>5. PICK u0 : u0 = Front(b.undo) OBVIOUS
<1>6. u0 \in Seq(EntryOf(K)) /\ Len(u0) = n - 1 /\ \A i \in 1 .. n - 1 : u0[i] = b.undo[i]
  <2>1. PICK m : m = n - 1 OBVIOUS
  <2>2. m \in Nat /\ 0 + m <= Len(b.undo) /\ 1 = 0 + 1 /\ m = 0 + m BY <1>2, <1>3, <1>4, <2>1
  <2>3. u0 = SubSeq(b.undo, 1, m) BY <1>2, <1>5, <2>1 DEF Front
  <2>4. PICK q \in Seq(EntryOf(K)) : q = b.undo BY <1>3
  <2>5. 0 \in Nat /\ u0 = SubSeq(q, 1, m) /\ 0 + m <= Len(q) BY <2>2, <2>3, <2>4
  <2>6. u0 \in Seq(EntryOf(K)) /\ Piece(u0, q, 0, m)
    BY ONLY q \in Seq(EntryOf(K)), <2>2, <2>5, PieceTaken, Zenon
  <2> QED BY <2>1, <2>4, <2>6 DEF Piece
<1>7. PICK x \in Nat : x = IF b.next = n THEN n - 1 ELSE b.next
  <2>1. n - 1 \in Nat BY <1>3, <1>4
  <2> QED BY <1>3, <2>1
<1>8. c = [b EXCEPT !.undo = u0, !.next = x]
  BY <1>1, <1>2, <1>5, <1>7 DEF Dropped, BufferOf
<1>9. c.text = b.text /\ c.modified = b.modified /\ c.undo = u0 /\ c.next = x
  BY <1>1, <1>8 DEF BufferOf
<1>10. c \in BufferOf(K) BY <1>1, <1>6, <1>8 DEF BufferOf
<1>11. PICK u : u = [i \in 0 .. n - 1 |-> t[i]] OBVIOUS
<1>12. /\ t \in [0 .. n -> Seq(Chars)] /\ t[n] = b.text
       /\ \A i \in 1 .. n : TakesBack(b.undo[i], t[i], t[i - 1])
  BY <1>1, <1>2 DEF Chain
<1>13. \A i \in 0 .. n - 1 : u[i] = t[i] /\ i \in 0 .. n BY <1>3, <1>11
<1>14. t[n - 1] = b.text
  <2>1. n \in 1 .. n BY <1>3, <1>4
  <2>2. TakesBack(b.undo[n], t[n], t[n - 1]) BY <1>12, <2>1
  <2> QED BY <1>4, <1>12, <2>2 DEF TakesBack
<1>15. u \in [0 .. n - 1 -> Seq(Chars)] BY <1>11, <1>12, <1>13
<1>16. u[n - 1] = c.text
  <2>1. n - 1 \in 0 .. n - 1 BY <1>3, <1>4
  <2> QED BY <1>9, <1>13, <1>14, <2>1
<1>17. ASSUME NEW i \in 1 .. n - 1 PROVE TakesBack(c.undo[i], u[i], u[i - 1])
  <2>1. i \in 1 .. n /\ i \in 0 .. n - 1 /\ i - 1 \in 0 .. n - 1 BY <1>3
  <2> QED BY <1>6, <1>9, <1>12, <1>13, <2>1
<1>18. Chain(c, u) BY <1>6, <1>9, <1>15, <1>16, <1>17 DEF Chain
<1>19. ASSUME ~MATCHES PROVE Flagged(c, u, base)
  <2>1. /\ ~b.modified => b.text = base
        /\ \A i \in 1 .. n : b.undo[i].type = "block" /\ b.undo[i].unchanged => t[i - 1] = base
    BY <1>1, <1>2, <1>19 DEF Flagged
  <2>2. ASSUME NEW i \in 1 .. n - 1, c.undo[i].type = "block", c.undo[i].unchanged PROVE u[i - 1] = base
    <3>1. i \in 1 .. n /\ i - 1 \in 0 .. n - 1 BY <1>3
    <3> QED BY <1>6, <1>9, <1>13, <2>1, <2>2, <3>1
  <2> QED BY <1>6, <1>9, <2>1, <2>2 DEF Flagged
<1>20. Kept(c, K, u, base) BY <1>10, <1>18, <1>19 DEF Kept
<1>21. c.next <= Len(c.undo) BY <1>3, <1>4, <1>6, <1>7, <1>9
<1>22. u[c.next] = t[b.next]
  <2>1. CASE b.next = n
    <3>1. n - 1 \in 0 .. n - 1 BY <1>3, <1>4
    <3> QED BY <1>7, <1>9, <1>12, <1>13, <1>14, <2>1, <3>1
  <2>2. CASE b.next # n
    <3>1. b.next \in 0 .. n - 1 BY <1>3, <2>2
    <3> QED BY <1>7, <1>9, <1>13, <2>2, <3>1
  <2> QED BY <2>1, <2>2
<1> QED BY <1>9, <1>20, <1>21, <1>22

LEMMA ClosedKept ==
    ASSUME NEW K, NEW b, NEW t, NEW base, Kept(b, K, t, base), b.next <= Len(b.undo), NEW k \in K,
           NEW c, c = Closed(b, k)
    PROVE  /\ \E u : Kept(c, K, u, base) /\ c.next <= Len(c.undo) /\ u[c.next] = t[b.next]
           /\ c.text = b.text /\ c.modified = b.modified
<1>1. b \in BufferOf(K) BY DEF Kept
<1>2. CASE Empties(b)
  <2>1. c = Dropped(b) BY <1>2 DEF Closed
  <2> QED BY <1>2, <2>1, DroppedKept
<1>3. CASE ~ Empties(b) /\ b.undo = <<>>
  <2>1. c = b BY <1>3 DEF Closed
  <2> QED BY <2>1
<1>4. CASE ~ Empties(b) /\ b.undo # <<>>
  <2>1. PICK e : e = EndEntry(k) OBVIOUS
  <2>2. e = [type |-> "end", o |-> 0, size |-> 0, text |-> <<>>, unchanged |-> FALSE, by |-> k]
    BY <2>1 DEF EndEntry, StartEntry
  <2>3. e \in EntryOf(K) /\ e.type # "block" BY <2>2 DEF EntryOf
  <2>4. c = [b EXCEPT !.undo = Append(@, e)] BY <1>4, <2>1 DEF Closed
  <2>5. /\ Grown(c, b, K, t, base)
        /\ c.text = b.text /\ c.modified = b.modified
    BY <2>3, <2>4, MarkKept
  <2>6. PICK u : Kept(c, K, u, base) /\ Continues(c, u, b, t) BY <2>5 DEF Grown
  <2>7. c \in BufferOf(K) BY <2>6 DEF Kept
  <2>8. b.next \in Nat /\ Len(b.undo) \in Nat /\ Len(c.undo) \in Nat BY <1>1, <2>7, ListFacts
  <2>9. c.next <= Len(c.undo) /\ u[c.next] = t[b.next]
    <3>1. b.next \in 0 .. Len(b.undo) BY <2>8
    <3> QED BY <2>6, <2>8, <3>1 DEF Continues
  <2> QED BY <2>5, <2>6, <2>9
<1> QED BY <1>2, <1>3, <1>4

(* A sequence that ends makes a buffer sound, and if it was an undo leaves  *)
(* it so.                                                                  *)
LEMMA EndedSound ==
    ASSUME NEW K, NEW b, NEW base, NEW k \in K, NEW undoing \in BOOLEAN,
           IF undoing THEN Sound(b, K, base) ELSE Loose(b, K, base)
    PROVE  Sound(Ended(b, undoing, k), K, base)
<1>1. PICK t : /\ Kept(b, K, t, base) /\ b.next <= Len(b.undo)
               /\ undoing => t[b.next] = b.text
  BY DEF Sound, Loose
<1>2. PICK c : c = Closed(b, k) OBVIOUS
<1>3. /\ \E u : Kept(c, K, u, base) /\ c.next <= Len(c.undo) /\ u[c.next] = t[b.next]
      /\ c.text = b.text /\ c.modified = b.modified
  BY <1>1, <1>2, ClosedKept
<1>4. PICK u : Kept(c, K, u, base) /\ c.next <= Len(c.undo) /\ u[c.next] = t[b.next] BY <1>3
<1>5. CASE undoing
  <2>1. Ended(b, undoing, k) = c BY <1>2, <1>5 DEF Ended
  <2> QED BY <1>1, <1>3, <1>4, <1>5, <2>1 DEF Sound
<1>6. CASE ~undoing
  <2>1. PICK d : d = [c EXCEPT !.next = Len(c.undo)] OBVIOUS
  <2>2. Ended(b, undoing, k) = d BY <1>2, <1>6, <2>1 DEF Ended
  <2>3. c \in BufferOf(K) /\ Chain(c, u) /\ (MATCHES \/ Flagged(c, u, base)) BY <1>4 DEF Kept
  <2>4. d.text = c.text /\ d.modified = c.modified /\ d.undo = c.undo /\ d.next = Len(c.undo)
    BY <2>1, <2>3 DEF BufferOf
  <2>5. Len(c.undo) \in Nat BY <2>3, ListFacts
  <2>6. d \in BufferOf(K) BY <2>1, <2>3, <2>5 DEF BufferOf
  <2>7. Chain(d, u) BY <2>3, <2>4 DEF Chain
  <2>8. MATCHES \/ Flagged(d, u, base) BY <2>3, <2>4 DEF Flagged
  <2>9. u[d.next] = d.text BY <2>3, <2>4 DEF Chain
  <2>10. Kept(d, K, u, base) BY <2>6, <2>7, <2>8 DEF Kept
  <2>11. d.next <= Len(d.undo) BY <2>4, <2>5
  <2> QED BY <2>2, <2>9, <2>10, <2>11 DEF Sound
<1> QED BY <1>5, <1>6

LEMMA ChangeEnds ==
    ASSUME NEW K, NEW b, NEW base, NEW k \in K, Loose(b, K, base)
    PROVE  Sound(Ended(b, FALSE, k), K, base)
<1>1. PICK u \in BOOLEAN : u = FALSE OBVIOUS
<1>2. IF u THEN Sound(b, K, base) ELSE Loose(b, K, base) BY <1>1
<1>3. Sound(Ended(b, u, k), K, base) BY ONLY u \in BOOLEAN, k \in K, <1>2, EndedSound, Zenon
<1> QED BY <1>1, <1>3

LEMMA UndoEnds ==
    ASSUME NEW K, NEW b, NEW base, NEW k \in K, Sound(b, K, base)
    PROVE  Sound(Ended(b, TRUE, k), K, base)
<1>1. PICK u \in BOOLEAN : u = TRUE OBVIOUS
<1>2. IF u THEN Sound(b, K, base) ELSE Loose(b, K, base) BY <1>1
<1>3. Sound(Ended(b, u, k), K, base) BY ONLY u \in BOOLEAN, k \in K, <1>2, EndedSound, Zenon
<1> QED BY <1>1, <1>3

LEMMA StartedSound ==
    ASSUME NEW K, NEW b, NEW base, NEW k \in K, Sound(b, K, base), NEW c, c = Started(b, k)
    PROVE  Sound(c, K, base) /\ c.text = b.text /\ c.modified = b.modified
<1>1. PICK t : Kept(b, K, t, base) /\ b.next <= Len(b.undo) /\ t[b.next] = b.text BY DEF Sound
<1>2. PICK e : e = StartEntry(k) OBVIOUS
<1>3. e \in EntryOf(K) /\ e.type # "block" BY <1>2 DEF EntryOf, StartEntry
<1>4. c = [b EXCEPT !.undo = Append(@, e)] BY <1>2 DEF Started
<1>5. /\ Grown(c, b, K, t, base)
      /\ c.text = b.text /\ c.modified = b.modified
  BY <1>1, <1>3, <1>4, MarkKept
<1>6. PICK u : Kept(c, K, u, base) /\ Continues(c, u, b, t) BY <1>5 DEF Grown
<1>7. b \in BufferOf(K) /\ c \in BufferOf(K) BY <1>1, <1>6 DEF Kept
<1>8. b.next \in Nat /\ Len(b.undo) \in Nat /\ Len(c.undo) \in Nat BY <1>7, ListFacts
<1>9. c.next <= Len(c.undo) /\ u[c.next] = t[b.next]
  <2>1. b.next \in 0 .. Len(b.undo) BY <1>1, <1>8
  <2> QED BY <1>1, <1>6, <1>8, <2>1 DEF Continues
<1> QED BY <1>1, <1>5, <1>6, <1>9 DEF Sound

LEMMA SoundIsLoose == ASSUME NEW K, NEW b, NEW base, Sound(b, K, base) PROVE Loose(b, K, base)
BY DEF Sound, Loose

LEMMA ReplacedLoose ==
    ASSUME NEW K, NEW b, NEW base, NEW k \in K, Loose(b, K, base),
           NEW o \in Nat, NEW del \in Nat, o + del <= Len(b.text), NEW new \in Seq(Chars),
           NEW c, c = Replaced(b, o, del, new, k)
    PROVE  Loose(c, K, base) /\ c.text = Spliced(b.text, o, del, new) /\ c.modified
<1>1. PICK t : Kept(b, K, t, base) /\ b.next <= Len(b.undo) BY DEF Loose
<1>2. c = [c EXCEPT !.modified = TRUE]
  <2>1. b \in BufferOf(K) BY <1>1 DEF Kept
  <2>2. PICK y, u : c = [b EXCEPT !.text = y, !.modified = TRUE, !.undo = u]
    BY <2>1 DEF Replaced, BufferOf
  <2> QED BY <2>1, <2>2 DEF BufferOf
<1>3. /\ Grown(c, b, K, t, base)
      /\ c.text = Spliced(b.text, o, del, new) /\ c.modified = TRUE
  <2>1. c = [Replaced(b, o, del, new, k) EXCEPT !.modified = TRUE] BY <1>2
  <2>2. Changed(c, b, K, o, del, new, TRUE) BY <2>1 DEF Changed
  <2>3. Kept(b, K, t, base) BY <1>1
  <2>4. PICK m : m = TRUE OBVIOUS
  <2>5. Changed(c, b, K, o, del, new, m) /\ (~m => MATCHES \/ Spliced(b.text, o, del, new) = base)
    BY <2>2, <2>4
  <2>6. /\ Grown(c, b, K, t, base)
        /\ c.text = Spliced(b.text, o, del, new) /\ c.modified = m
    <3>1. ~m => MATCHES \/ Spliced(b.text, o, del, new) = base BY <2>5
    <3>2. Changed(c, b, K, o, del, new, m) BY <2>5
    <3> QED BY <2>3, <3>1, <3>2, ChangeKept
  <2> QED BY <2>4, <2>6
<1>4. PICK u : Kept(c, K, u, base) /\ Continues(c, u, b, t) BY <1>3 DEF Grown
<1>5. b \in BufferOf(K) /\ c \in BufferOf(K) BY <1>1, <1>4 DEF Kept
<1>6. b.next \in Nat /\ Len(b.undo) \in Nat /\ Len(c.undo) \in Nat BY <1>5, ListFacts
<1>7. c.next <= Len(c.undo) BY <1>1, <1>4, <1>6 DEF Continues
<1> QED BY <1>3, <1>4, <1>7 DEF Loose

(* The changes of the entries n, n - 1, ... taken back, one after another.  *)
IsReverting(f, b, n, j, k) ==
    f = [i \in 0 .. j |-> IF i = 0 THEN b ELSE Reverted(f[i - 1], b.undo[n + 1 - i], k)]

LEMMA RevertingExists ==
    ASSUME NEW b, NEW n, NEW k, NEW l \in Nat
    PROVE  \E f : IsReverting(f, b, n, l, k)
<1> DEFINE T == {m \in Nat : ~ \E f : IsReverting(f, b, n, m, k)}
<1> SUFFICES ASSUME T # {} PROVE FALSE
  OBVIOUS
<1>1. PICK m \in T : \A y \in T : m <= y
  <2>1. T \subseteq Nat OBVIOUS
  <2> QED BY <2>1, LeastNumber
<1>2. m \in Nat /\ ~ \E f : IsReverting(f, b, n, m, k)
  OBVIOUS
<1>3. m # 0
  <2>1. IsReverting([i \in {0} |-> b], b, n, 0, k)
    <3>1. 0 .. 0 = {0} OBVIOUS
    <3> QED BY <3>1 DEF IsReverting
  <2> QED BY <1>2, <2>1
<1>4. m - 1 \in Nat /\ m - 1 \notin T
  BY <1>1, <1>2, <1>3
<1>5. PICK g : IsReverting(g, b, n, m - 1, k)
  BY <1>4
<1> DEFINE h == [i \in 0 .. m |-> IF i = m THEN Reverted(g[m - 1], b.undo[n + 1 - m], k) ELSE g[i]]
<1>6. ASSUME NEW i \in 0 .. m PROVE h[i] = IF i = 0 THEN b ELSE Reverted(h[i - 1], b.undo[n + 1 - i], k)
  <2>1. CASE i = m
    <3>1. h[i] = Reverted(g[m - 1], b.undo[n + 1 - m], k) BY <2>1
    <3>2. h[m - 1] = g[m - 1] BY <1>2, <1>3
    <3> QED BY <1>3, <2>1, <3>1, <3>2
  <2>2. CASE i # m
    <3>1. i \in 0 .. m - 1 BY <1>2, <2>2
    <3>2. g[i] = IF i = 0 THEN b ELSE Reverted(g[i - 1], b.undo[n + 1 - i], k) BY <1>5, <3>1 DEF IsReverting
    <3>3. h[i] = g[i] BY <2>2
    <3>4. i # 0 => h[i - 1] = g[i - 1] BY <1>2, <3>1
    <3> QED BY <3>2, <3>3, <3>4
  <2> QED BY <2>1, <2>2
<1>7. IsReverting(h, b, n, m, k)
  <2> HIDE DEF h
  <2>1. h = [i \in 0 .. m |-> h[i]] BY DEF h
  <2> QED BY <1>6, <2>1 DEF IsReverting
<1> QED BY <1>2, <1>7

LEMMA RevertedToIs ==
    ASSUME NEW b, NEW m, NEW n, NEW k, NEW l \in Nat, l = n + 1 - m
    PROVE  \E f : IsReverting(f, b, n, l, k) /\ RevertedTo(b, m, n, k) = f[l]
<1>1. PICK f : f = CHOOSE g : IsReverting(g, b, n, l, k) OBVIOUS
<1>2. IsReverting(f, b, n, l, k) BY <1>1, RevertingExists
<1>3. RevertedTo(b, m, n, k) = f[l] BY <1>1, Zenon DEF RevertedTo, IsReverting
<1> QED BY <1>2, <1>3

(* A buffer grows through changes on changes.                               *)
LEMMA GrownMore ==
    ASSUME NEW K, NEW b \in BufferOf(K), NEW c, NEW d, NEW t, NEW u, NEW v,
           Kept(c, K, u, {}) \/ c \in BufferOf(K), d \in BufferOf(K),
           Continues(c, u, b, t), Continues(d, v, c, u)
    PROVE  Continues(d, v, b, t)
<1>1. c \in BufferOf(K) BY DEF Kept
<1>2. Len(b.undo) \in Nat /\ Len(c.undo) \in Nat /\ Len(d.undo) \in Nat BY <1>1, ListFacts
<1>3. /\ Len(b.undo) <= Len(c.undo) /\ c.next = b.next
      /\ \A i \in 1 .. Len(b.undo) : c.undo[i] = b.undo[i]
      /\ \A i \in 0 .. Len(b.undo) : u[i] = t[i]
  BY DEF Continues
<1>4. /\ Len(c.undo) <= Len(d.undo) /\ d.next = c.next
      /\ \A i \in 1 .. Len(c.undo) : d.undo[i] = c.undo[i]
      /\ \A i \in 0 .. Len(c.undo) : v[i] = u[i]
  BY DEF Continues
<1>5. \A i \in 0 .. Len(b.undo) : i \in 0 .. Len(c.undo) BY <1>2, <1>3
<1>6. \A i \in 1 .. Len(b.undo) : i \in 1 .. Len(c.undo) BY <1>2, <1>3
<1>7. Len(b.undo) <= Len(d.undo) /\ d.next = b.next BY <1>2, <1>3, <1>4
<1>8. \A i \in 1 .. Len(b.undo) : d.undo[i] = b.undo[i] BY <1>3, <1>4, <1>6
<1>9. \A i \in 0 .. Len(b.undo) : v[i] = t[i] BY <1>3, <1>4, <1>5
<1> QED BY <1>7, <1>8, <1>9 DEF Continues

(* What an entry says of the text before it.                                *)
SaysSo(e, before, base) == MATCHES \/ (e.type = "block" /\ e.unchanged => before = base)

(* One entry taken back gives the text it was kept for.                     *)
LEMMA EntryTakenBack ==
    ASSUME NEW K, NEW b, NEW t, NEW base, Kept(b, K, t, base), NEW k \in K,
           NEW e \in EntryOf(K), NEW before, TakesBack(e, b.text, before),
           SaysSo(e, before, base), NEW c, c = Reverted(b, e, k)
    PROVE  Grown(c, b, K, t, base) /\ c.text = before
<1>1. CASE e.type = "block"
  <2>1. PICK o, del, new, m : o = e.o /\ del = e.size /\ new = e.text /\ m = ~e.unchanged OBVIOUS
  <2>2. /\ o \in Nat /\ del \in Nat /\ new \in Seq(Chars) /\ m \in BOOLEAN
        /\ o + del <= Len(b.text) /\ before = Spliced(b.text, o, del, new)
    BY <1>1, <2>1 DEF EntryOf, TakesBack
  <2>3. c = [Replaced(b, o, del, new, k) EXCEPT !.modified = m] BY <1>1, <2>1 DEF Reverted
  <2>4. Changed(c, b, K, o, del, new, m) BY <2>2, <2>3 DEF Changed
  <2>5. ~m => MATCHES \/ Spliced(b.text, o, del, new) = base BY <1>1, <2>1, <2>2 DEF SaysSo
  <2>6. Grown(c, b, K, t, base) /\ c.text = Spliced(b.text, o, del, new) BY <2>4, <2>5, ChangeKept
  <2> QED BY <2>2, <2>6
<1>2. CASE e.type # "block"
  <2>1. c = b /\ before = b.text BY <1>2 DEF Reverted, TakesBack
  <2>2. b \in BufferOf(K) BY DEF Kept
  <2>3. Len(b.undo) \in Nat BY <2>2, ListFacts
  <2>4. Continues(b, t, b, t) BY <2>3 DEF Continues
  <2> QED BY <2>1, <2>4 DEF Grown
<1> QED BY <1>1, <1>2

LEMMA RevertedKept ==
    ASSUME NEW K, NEW b, NEW t, NEW base, Kept(b, K, t, base), NEW k \in K,
           NEW n \in 0 .. Len(b.undo), t[n] = b.text, NEW l \in 0 .. n, NEW f, IsReverting(f, b, n, l, k)
    PROVE  Grown(f[l], b, K, t, base) /\ f[l].text = t[n - l]
<1>0. b \in BufferOf(K) /\ Chain(b, t) /\ (MATCHES \/ Flagged(b, t, base)) BY DEF Kept
<1>1. Len(b.undo) \in Nat /\ \A i \in 1 .. Len(b.undo) : b.undo[i] \in EntryOf(K) BY <1>0, ListFacts
<1> DEFINE Right(j) == Grown(f[j], b, K, t, base) /\ f[j].text = t[n - j]
           T == {j \in 0 .. l : ~ Right(j)}
<1>s. l \in 0 .. l BY <1>1
<1> SUFFICES ASSUME T # {} PROVE FALSE
  <2>1. T = {} => Right(l) BY <1>s
  <2> QED BY <2>1
<1>2. PICK j \in T : \A y \in T : j <= y
  <2>1. T \subseteq Nat OBVIOUS
  <2> QED BY <2>1, LeastNumber
<1>3. j \in 0 .. l /\ ~ Right(j) OBVIOUS
<1>4. f[j] = IF j = 0 THEN b ELSE Reverted(f[j - 1], b.undo[n + 1 - j], k) BY <1>3 DEF IsReverting
<1>5. j # 0
  <2> SUFFICES ASSUME j = 0 PROVE FALSE OBVIOUS
  <2>1. f[j] = b /\ n - j = n BY <1>4
  <2>2. Continues(b, t, b, t) BY <1>1 DEF Continues
  <2>3. Grown(b, b, K, t, base) BY <2>2 DEF Grown
  <2> QED BY <1>3, <2>1, <2>3
<1>6. PICK h : h = j - 1 OBVIOUS
<1>7. h \in 0 .. l /\ h < j BY <1>3, <1>5, <1>6
<1>8. Right(h)
  <2>1. ~ (j <= h) BY <1>3, <1>7
  <2> QED BY <1>2, <1>7, <2>1
<1> HIDE DEF T
<1>9. PICK c : c = f[h] OBVIOUS
<1>10. PICK u : Kept(c, K, u, base) /\ Continues(c, u, b, t) BY <1>8, <1>9 DEF Grown
<1>11. PICK i : i = n + 1 - j OBVIOUS
<1>12. i \in 1 .. Len(b.undo) /\ n - h = i /\ n - j = i - 1 BY <1>1, <1>3, <1>5, <1>6, <1>11
<1>13. PICK e : e = b.undo[i] OBVIOUS
<1>14. e \in EntryOf(K) BY <1>1, <1>12, <1>13
<1>15. c.text = t[i] BY <1>8, <1>9, <1>12
<1>16. TakesBack(e, c.text, t[i - 1])
  <2>1. \A x \in 1 .. Len(b.undo) : TakesBack(b.undo[x], t[x], t[x - 1]) BY <1>0 DEF Chain
  <2>2. TakesBack(b.undo[i], t[i], t[i - 1]) BY <1>12, <2>1
  <2> QED BY <1>13, <1>15, <2>2
<1>17. MATCHES \/ (e.type = "block" /\ e.unchanged => t[i - 1] = base) BY <1>0, <1>12, <1>13 DEF Flagged
<1>18. PICK d : d = f[j] OBVIOUS
<1>19. d = Reverted(c, e, k) BY <1>4, <1>5, <1>6, <1>9, <1>11, <1>13, <1>18
<1>20. Kept(c, K, u, base) BY <1>10
<1>21. Grown(d, c, K, u, base) /\ d.text = t[i - 1]
  <2>1. PICK x : x = t[i - 1] OBVIOUS
  <2>2. TakesBack(e, c.text, x) BY <1>16, <2>1
  <2>3. SaysSo(e, x, base) BY <1>17, <2>1 DEF SaysSo
  <2>4. Grown(d, c, K, u, base) /\ d.text = x
    BY ONLY k \in K, <1>14, <1>19, <1>20, <2>2, <2>3, EntryTakenBack
  <2> QED BY <2>1, <2>4
<1>22. PICK v : Kept(d, K, v, base) /\ Continues(d, v, c, u) BY <1>21 DEF Grown
<1>23. c \in BufferOf(K) /\ d \in BufferOf(K) BY <1>10, <1>22 DEF Kept
<1>24. Continues(d, v, b, t)
  <2>1. Continues(c, u, b, t) /\ Continues(d, v, c, u) /\ b \in BufferOf(K) BY <1>0, <1>10, <1>22
  <2> QED BY <1>23, <2>1, GrownMore
<1>25. Right(j) BY <1>12, <1>18, <1>21, <1>22, <1>24 DEF Grown
<1> QED BY <1>3, <1>25

(* Entries n, ..., m taken back: the text is what entry m was kept for.     *)
LEMMA RevertedToKept ==
    ASSUME NEW K, NEW b, NEW t, NEW base, Kept(b, K, t, base), NEW k \in K,
           NEW n \in 0 .. Len(b.undo), t[n] = b.text, NEW m \in 1 .. n + 1, NEW c, c = RevertedTo(b, m, n, k)
    PROVE  Grown(c, b, K, t, base) /\ c.text = t[m - 1]
<1>0. b \in BufferOf(K) BY DEF Kept
<1>1. Len(b.undo) \in Nat BY <1>0, ListFacts
<1>2. PICK l : l = n + 1 - m OBVIOUS
<1>3. l \in 0 .. n /\ l \in Nat /\ n - l = m - 1 BY <1>1, <1>2
<1>4. PICK f : IsReverting(f, b, n, l, k) /\ RevertedTo(b, m, n, k) = f[l]
  BY <1>2, <1>3, RevertedToIs
<1>5. IsReverting(f, b, n, l, k) BY <1>4
<1>6. Grown(f[l], b, K, t, base) /\ f[l].text = t[n - l] BY <1>3, <1>5, RevertedKept
<1> QED BY <1>3, <1>4, <1>6

LEMMA MatchingStartInRange ==
    ASSUME NEW u, NEW n \in Nat, n # 0
    PROVE  MatchingStart(u, n) \in 1 .. n
<1> DEFINE starts == {k \in 1 .. n : /\ u[k].type = "start"
                                     /\ Count(u, k, n, "start") = Count(u, k, n, "end")}
<1>1. starts \subseteq 1 .. n OBVIOUS
<1>2. MatchingStart(u, n) = IF u[n].type # "end" THEN n ELSE IF starts = {} THEN 1 ELSE Max(starts)
  BY DEF MatchingStart
<1> HIDE DEF starts
<1>3. ASSUME starts # {} PROVE Max(starts) \in 1 .. n
  <2>1. starts \subseteq 0 .. n BY <1>1
  <2>2. PICK k \in starts : \A j \in starts : j <= k BY <1>3, <2>1, GreatestIndex
  <2>3. \A y \in starts : k >= y BY <1>1, <2>2
  <2>4. \E x \in starts : \A y \in starts : x >= y BY <2>3
  <2>5. Max(starts) \in starts BY <2>4 DEF Max
  <2> QED BY <1>1, <2>5
<1> QED BY <1>2, <1>3

LEMMA NextSet ==
    ASSUME NEW K, NEW b, NEW t, NEW base, Kept(b, K, t, base), NEW x \in 0 .. Len(b.undo), t[x] = b.text,
           NEW c, c = [b EXCEPT !.next = x]
    PROVE  Sound(c, K, base) /\ c.text = b.text /\ c.modified = b.modified
<1>1. b \in BufferOf(K) /\ Chain(b, t) /\ (MATCHES \/ Flagged(b, t, base)) BY DEF Kept
<1>2. c.text = b.text /\ c.modified = b.modified /\ c.undo = b.undo /\ c.next = x
  BY <1>1 DEF BufferOf
<1>3. Len(b.undo) \in Nat BY <1>1, ListFacts
<1>4. c \in BufferOf(K)
  <2>1. x \in Nat BY <1>3
  <2> QED BY <1>1, <2>1 DEF BufferOf
<1>5. Chain(c, t) BY <1>1, <1>2 DEF Chain
<1>6. MATCHES \/ Flagged(c, t, base) BY <1>1, <1>2 DEF Flagged
<1>7. Kept(c, K, t, base) BY <1>4, <1>5, <1>6 DEF Kept
<1>8. c.next <= Len(c.undo) BY <1>2, <1>3
<1> QED BY <1>2, <1>7, <1>8 DEF Sound

(* F_undo leaves what the next one will need.                               *)
LEMMA UndoneSound ==
    ASSUME NEW K, NEW b, NEW base, NEW k \in K, Sound(b, K, base), NEW c, c = Undone(b, k)
    PROVE  Sound(c, K, base)
<1>1. PICK t : Kept(b, K, t, base) /\ b.next <= Len(b.undo) /\ t[b.next] = b.text BY DEF Sound
<1>2. b \in BufferOf(K) /\ Chain(b, t) BY <1>1 DEF Kept
<1>3. b.next \in Nat /\ Len(b.undo) \in Nat BY <1>2, ListFacts
<1>4. CASE b.next = 0
  <2>1. PICK x : x = Len(b.undo) OBVIOUS
  <2>2. x \in 0 .. Len(b.undo) /\ t[x] = b.text BY <1>2, <1>3, <2>1 DEF Chain
  <2>3. c = [b EXCEPT !.next = x] BY <1>4, <2>1 DEF Undone
  <2> QED BY <1>1, <2>2, <2>3, NextSet
<1>5. CASE b.next # 0
  <2>1. PICK n : n = b.next OBVIOUS
  <2>2. PICK m : m = MatchingStart(b.undo, n) OBVIOUS
  <2>3. n \in Nat /\ n # 0 BY <1>3, <1>5, <2>1
  <2>4. m \in 1 .. n BY <2>2, <2>3, MatchingStartInRange
  <2>5. n \in 0 .. Len(b.undo) /\ m \in 1 .. n + 1 /\ t[n] = b.text BY <1>1, <1>3, <2>1, <2>4
  <2>6. PICK d : d = RevertedTo(b, m, n, k) OBVIOUS
  <2>7. Kept(b, K, t, base) BY <1>1
  <2>8. Grown(d, b, K, t, base) /\ d.text = t[m - 1] BY <2>5, <2>6, <2>7, RevertedToKept
  <2>9. PICK u : Kept(d, K, u, base) /\ Continues(d, u, b, t) BY <2>8 DEF Grown
  <2>10. PICK x : x = m - 1 OBVIOUS
  <2>11. d \in BufferOf(K) BY <2>9 DEF Kept
  <2>12. Len(d.undo) \in Nat BY <2>11, ListFacts
  <2>13. Len(b.undo) <= Len(d.undo) /\ \A i \in 0 .. Len(b.undo) : u[i] = t[i] BY <2>9 DEF Continues
  <2>14. x \in 0 .. Len(b.undo) /\ x \in 0 .. Len(d.undo) BY <1>3, <2>5, <2>10, <2>12, <2>13, <2>4
  <2>15. u[x] = d.text BY <2>8, <2>10, <2>13, <2>14
  <2>16. c = [d EXCEPT !.next = x] BY <1>5, <2>1, <2>2, <2>6, <2>10 DEF Undone
  <2>17. Kept(d, K, u, base) BY <2>9
  <2> QED BY <2>14, <2>15, <2>16, <2>17, NextSet
<1> QED BY <1>4, <1>5

(* With nothing to undo, a buffer is sound as it is.                        *)
LEMMA FreshSound ==
    ASSUME NEW K, NEW b \in BufferOf(K), b.undo = <<>>, b.next = 0
    PROVE  Sound(b, K, b.text)
<1>1. PICK t : t = [i \in {0} |-> b.text] OBVIOUS
<1>2. Len(b.undo) = 0 /\ 0 .. 0 = {0} /\ 1 .. 0 = {} OBVIOUS
<1>3. b.text \in Seq(Chars) BY ListFacts
<1>4. t \in [0 .. Len(b.undo) -> Seq(Chars)] /\ t[0] = b.text BY <1>1, <1>2, <1>3
<1>5. Chain(b, t) BY <1>2, <1>4 DEF Chain
<1>6. Flagged(b, t, b.text) BY <1>2 DEF Flagged
<1>7. Kept(b, K, t, b.text) BY <1>5, <1>6 DEF Kept
<1> QED BY <1>2, <1>4, <1>7 DEF Sound

LEMMA ForgottenSound ==
    ASSUME NEW K, NEW b \in BufferOf(K), NEW x, x = b.text, NEW c, c = Forgotten(b)
    PROVE  Sound(c, K, x)
<1>1. <<>> \in Seq(EntryOf(K)) OBVIOUS
<1>2. c \in BufferOf(K) /\ c.undo = <<>> /\ c.next = 0 /\ c.text = b.text BY <1>1 DEF Forgotten, BufferOf
<1> QED BY <1>2, FreshSound

HasText(c, K, x) == c \in BufferOf(K) /\ c.text = x /\ c.modified = FALSE

LEMMA RevertedTextSound ==
    ASSUME NEW K, NEW b, NEW base, Sound(b, K, base), NEW x \in Seq(Chars), NEW c, c = RevertedText(b, x)
    PROVE  /\ HasText(c, K, x)
           /\ MATCHES \/ b.text # x \/ base = x => Sound(c, K, x)
<1>1. PICK t : Kept(b, K, t, base) /\ b.next <= Len(b.undo) /\ t[b.next] = b.text BY DEF Sound
<1>2. b \in BufferOf(K) /\ Chain(b, t) /\ (MATCHES \/ Flagged(b, t, base)) BY <1>1 DEF Kept
<1>3. CASE b.text = x
  <2>1. c = [b EXCEPT !.modified = FALSE] BY <1>3 DEF RevertedText
  <2>2. c \in BufferOf(K) /\ c.text = x /\ c.modified = FALSE /\ c.undo = b.undo /\ c.next = b.next
    BY <1>2, <1>3, <2>1 DEF BufferOf
  <2>3. Chain(c, t) BY <1>2, <1>3, <2>2 DEF Chain
  <2>4. ASSUME MATCHES \/ base = x PROVE Sound(c, K, x)
    <3>1. MATCHES \/ Flagged(c, t, x) BY <1>2, <2>2, <2>4 DEF Flagged
    <3>2. Kept(c, K, t, x) BY <2>2, <2>3, <3>1 DEF Kept
    <3> QED BY <1>1, <1>3, <2>2, <3>2 DEF Sound
  <2> QED BY <1>3, <2>2, <2>4 DEF HasText
<1>4. CASE b.text # x
  <2>1. PICK d : d = Forgotten([b EXCEPT !.text = x]) OBVIOUS
  <2>2. c = [d EXCEPT !.modified = FALSE] BY <1>4, <2>1 DEF RevertedText
  <2>3. <<>> \in Seq(EntryOf(K)) OBVIOUS
  <2>4. d \in BufferOf(K) /\ d.text = x /\ d.undo = <<>> /\ d.next = 0
    BY <1>2, <2>1, <2>3 DEF Forgotten, BufferOf
  <2>5. c \in BufferOf(K) /\ c.text = x /\ c.undo = <<>> /\ c.next = 0 /\ c.modified = FALSE
    BY <2>2, <2>4 DEF BufferOf
  <2> QED BY <2>5, FreshSound DEF HasText
<1> QED BY <1>3, <1>4

-----------------------------------------------------------------------------
(* Saving. *)

LEMMA EolAdded ==
    ASSUME NEW x \in Seq(Chars), NEW n, n = Len(x)
    PROVE  Spliced(x, n, 0, <<Eol>>) = Append(x, Eol) /\ Append(x, Eol) \in Seq(Chars) /\ <<Eol>> \in Seq(Chars)
<1>1. Append(x, Eol) \in Seq(Chars) /\ <<Eol>> \in Seq(Chars) /\ Len(<<Eol>>) = 1 /\ n \in Nat
  BY CharsAssumption
<1>2. PICK new \in Seq(Chars) : new = <<Eol>> BY <1>1
<1>3. PICK y : y = Spliced(x, n, 0, new) OBVIOUS
<1>4. PICK p : p = Len(new) OBVIOUS
<1>5. 0 \in Nat /\ n + 0 <= Len(x) /\ n \in Nat BY <1>1
<1>6. y \in Seq(Chars) /\ Splices(y, x, n, 0, new, p)
  BY ONLY x \in Seq(Chars), new \in Seq(Chars), <1>3, <1>4, <1>5, SplicedFacts, Zenon
<1>7. p = 1 /\ new[1] = Eol BY <1>1, <1>2, <1>4
<1>8. Len(y) = n + 1 /\ \A i \in 1 .. n + 1 : y[i] = IF i <= n THEN x[i] ELSE IF i <= n + p THEN new[i - n] ELSE x[i - p]
  BY <1>1, <1>6, <1>7 DEF Splices
<1>9. PICK z \in Seq(Chars) : z = Append(x, Eol) BY <1>1
<1>10. Len(z) = n + 1 /\ \A i \in 1 .. n + 1 : z[i] = IF i <= n THEN x[i] ELSE Eol BY <1>9
<1>11. ASSUME NEW i \in 1 .. n + 1 PROVE y[i] = z[i]
  <2>1. CASE i <= n BY <1>8, <1>10, <2>1
  <2>2. CASE ~ (i <= n)
    <3>1. i <= n + p /\ i - n = 1 BY <1>5, <1>7, <2>2
    <3> QED BY <1>7, <1>8, <1>10, <2>2, <3>1
  <2> QED BY <2>1, <2>2
<1>12. y = z
  <2>1. Len(y) = Len(z) /\ \A i \in 1 .. Len(y) : y[i] = z[i] BY <1>8, <1>10, <1>11
  <2> QED BY <1>6, <2>1, SeqEqual
<1> QED BY <1>1, <1>2, <1>3, <1>9, <1>12

Clean(b) == [b EXCEPT !.modified = FALSE]

Cleaned(c, K, x) == Loose(c, K, x) /\ c.text = x /\ c.modified = FALSE

(* No entry leads back to what is in the file, once this is.                *)
LEMMA AllChangedLoose ==
    ASSUME NEW K, NEW b, NEW base, Loose(b, K, base), NEW d, d = Clean(b),
           NEW c, c = AllChanged(d)
    PROVE  Cleaned(c, K, b.text)
<1>1. PICK t : Kept(b, K, t, base) /\ b.next <= Len(b.undo) BY DEF Loose
<1>2. b \in BufferOf(K) /\ Chain(b, t) BY <1>1 DEF Kept
<1>3. PICK n : n = Len(b.undo) OBVIOUS
<1>4. /\ n \in Nat /\ b.undo \in Seq(EntryOf(K)) /\ DOMAIN b.undo = 1 .. n
      /\ \A i \in 1 .. n : b.undo[i] \in EntryOf(K)
  BY <1>2, <1>3, ListFacts
<1>5. d \in BufferOf(K) /\ d.text = b.text /\ d.undo = b.undo /\ d.next = b.next /\ d.modified = FALSE
  BY <1>2 DEF BufferOf, Clean
<1>6. PICK l : l = [i \in 1 .. n |-> [b.undo[i] EXCEPT !.unchanged = FALSE]] OBVIOUS
<1>7. c = [d EXCEPT !.undo = l]
  <2>1. l = [i \in DOMAIN d.undo |-> [d.undo[i] EXCEPT !.unchanged = FALSE]] BY <1>4, <1>5, <1>6
  <2>2. c = [d EXCEPT !.undo = [i \in DOMAIN d.undo |-> [d.undo[i] EXCEPT !.unchanged = FALSE]]]
    BY DEF AllChanged
  <2> QED BY <2>1, <2>2
<1>8. ASSUME NEW i \in 1 .. n
      PROVE  /\ l[i] \in EntryOf(K) /\ l[i].unchanged = FALSE
             /\ l[i].type = b.undo[i].type /\ l[i].o = b.undo[i].o /\ l[i].size = b.undo[i].size
             /\ l[i].text = b.undo[i].text
  <2>1. l[i] = [b.undo[i] EXCEPT !.unchanged = FALSE] BY <1>6
  <2>2. b.undo[i] \in EntryOf(K) BY <1>4
  <2> QED BY <2>1, <2>2 DEF EntryOf
<1>9. l \in Seq(EntryOf(K)) /\ Len(l) = n
  <2>1. l = [i \in 1 .. n |-> l[i]] BY <1>6
  <2>2. l \in [1 .. n -> EntryOf(K)] BY <1>8, <2>1
  <2>3. DOMAIN l = 1 .. n BY <2>2
  <2>4. l \in Seq(EntryOf(K)) BY <1>4, <2>2, SeqDef
  <2> QED BY <1>4, <2>3, <2>4, LenProperties
<1>10. c \in BufferOf(K) /\ c.text = b.text /\ c.modified = FALSE /\ c.undo = l /\ c.next = b.next
  BY <1>5, <1>7, <1>9 DEF BufferOf
<1>11. ASSUME NEW i \in 1 .. n PROVE TakesBack(l[i], t[i], t[i - 1])
  <2>1. TakesBack(b.undo[i], t[i], t[i - 1]) BY <1>2, <1>3 DEF Chain
  <2> QED BY <1>8, <2>1 DEF TakesBack
<1>12. Chain(c, t) BY <1>2, <1>3, <1>9, <1>10, <1>11 DEF Chain
<1>13. Flagged(c, t, b.text) BY <1>8, <1>9, <1>10 DEF Flagged
<1>14. Kept(c, K, t, b.text) BY <1>10, <1>12, <1>13 DEF Kept
<1> QED BY <1>1, <1>3, <1>9, <1>10, <1>14 DEF Loose, Cleaned

LEMMA SavedLoose ==
    ASSUME NEW K, NEW b, NEW base, Loose(b, K, base), Now \in K, NEW c, c = Saved(b)
    PROVE  /\ WithEol(b.text) \in Seq(Chars)
           /\ Loose(c, K, WithEol(b.text)) /\ c.text = WithEol(b.text)
<1>1. PICK t : Kept(b, K, t, base) /\ b.next <= Len(b.undo) BY DEF Loose
<1>2. b \in BufferOf(K) BY <1>1 DEF Kept
<1>3. b.text \in Seq(Chars) /\ Len(b.text) \in Nat BY <1>2, ListFacts
<1>4. CASE WithEol(b.text) = b.text
  <2>1. PICK d : d = Clean(b) OBVIOUS
  <2>2. c = AllChanged(d) BY <1>4, <2>1 DEF Saved, Clean
  <2>3. Cleaned(c, K, b.text) BY ONLY Loose(b, K, base), <2>1, <2>2, AllChangedLoose, Zenon
  <2> QED BY <1>3, <1>4, <2>3 DEF Cleaned
<1>5. CASE WithEol(b.text) # b.text
  <2>1. WithEol(b.text) = Append(b.text, Eol) BY <1>5 DEF WithEol
  <2>2. PICK n : n = Len(b.text) OBVIOUS
  <2>3. Spliced(b.text, n, 0, <<Eol>>) = Append(b.text, Eol) /\ Append(b.text, Eol) \in Seq(Chars) /\ <<Eol>> \in Seq(Chars)
    BY <1>3, <2>2, EolAdded
  <2>4. PICK e : e = Replaced(b, n, 0, <<Eol>>, Now) OBVIOUS
  <2>5. n \in Nat /\ 0 \in Nat /\ n + 0 <= Len(b.text) BY <1>3, <2>2
  <2>6. PICK new \in Seq(Chars) : new = <<Eol>> BY <2>3
  <2>7. e = Replaced(b, n, 0, new, Now) BY <2>4, <2>6
  <2>8. Loose(e, K, base) /\ e.text = Spliced(b.text, n, 0, new) BY <2>5, <2>7, ReplacedLoose
  <2>9. PICK d : d = Clean(e) OBVIOUS
  <2>10. c = AllChanged(d) BY <1>5, <2>2, <2>4, <2>9 DEF Saved, Change, Clean
  <2>13. Loose(e, K, base) BY <2>8
  <2>11. Cleaned(c, K, e.text) BY ONLY <2>13, <2>9, <2>10, AllChangedLoose, Zenon
  <2>12. e.text = WithEol(b.text) BY <2>1, <2>3, <2>6, <2>8
  <2> QED BY <2>1, <2>3, <2>11, <2>12 DEF Cleaned
<1> QED BY <1>4, <1>5

(* What has been done since the next undo's text is undone.                 *)
LEMMA SoundIsUndone ==
    ASSUME NEW K, NEW b, NEW base, Sound(b, K, base)
    PROVE  b.text = Before(b, b.next)
<1>1. PICK t : Kept(b, K, t, base) /\ b.next <= Len(b.undo) /\ t[b.next] = b.text BY DEF Sound
<1>2. b \in BufferOf(K) /\ Chain(b, t) /\ (MATCHES \/ Flagged(b, t, base)) BY <1>1 DEF Kept
<1>3. PICK L : L = K \cup {0} OBVIOUS
<1>4. b \in BufferOf(L)
  <2>1. EntryOf(K) \subseteq EntryOf(L) BY <1>3 DEF EntryOf
  <2>2. Seq(EntryOf(K)) \subseteq Seq(EntryOf(L)) BY <2>1
  <2> QED BY <1>2, <2>2 DEF BufferOf
<1>5. Kept(b, L, t, base) BY <1>2, <1>4 DEF Kept
<1>6. PICK n : n = Len(b.undo) OBVIOUS
<1>7. PICK m : m = b.next + 1 OBVIOUS
<1>8. PICK k \in L : k = 0 BY <1>3
<1>9. b.next \in Nat /\ Len(b.undo) \in Nat BY <1>2, ListFacts
<1>10. n \in 0 .. Len(b.undo) /\ m \in 1 .. n + 1 /\ m - 1 = b.next BY <1>1, <1>6, <1>7, <1>9
<1>11. t[n] = b.text BY <1>2, <1>6 DEF Chain
<1>12. PICK c : c = RevertedTo(b, m, n, k) OBVIOUS
<1>13. Grown(c, b, L, t, base) /\ c.text = t[m - 1] BY <1>5, <1>10, <1>11, <1>12, RevertedToKept
<1> QED BY <1>1, <1>6, <1>7, <1>8, <1>10, <1>12, <1>13 DEF Before

Commands == 1 .. MAX_COMMANDS

(* A buffer that can be undone, with what stat says of its file (s) and     *)
(* what the file holds (f).                                                *)
Fits(b, s, f) == \E base : Sound(b, Commands, base) /\ (MATCHES \/ s \/ base = f)

EditShape ==
    /\ buf = [b \in Buffers |-> buf[b]]
    /\ file \in [Buffers -> Seq(Chars)] /\ stale \in [Buffers -> BOOLEAN]
    /\ current \in Buffers /\ depth \in 0 .. MAX_DEPTH
    /\ undid \in BOOLEAN /\ thisUndo \in BOOLEAN
    /\ top \in 0 .. MAX_COMMANDS /\ count \in 0 .. MAX_COMMANDS
    /\ depth > 0 => top # 0

EditInv == EditShape /\ \A b \in Buffers : Fits(buf[b], stale[b], file[b])

LEMMA EditInitInv == Init => EditInv
<1> SUFFICES ASSUME Init PROVE EditInv OBVIOUS
<1>0. MAX_DEPTH \in Nat /\ MAX_COMMANDS \in Nat BY BoundsAssumption
<1>1. /\ file = [b \in Buffers |-> <<>>] /\ buf = [b \in Buffers |-> NewBuffer(file[b])]
      /\ stale = [b \in Buffers |-> FALSE] /\ current \in Buffers /\ depth = 0
      /\ undid = FALSE /\ thisUndo = FALSE /\ top = 0 /\ count = 0
  BY DEF Init
<1>2. EditShape
  <2>1. buf = [b \in Buffers |-> buf[b]] BY <1>1
  <2>2. <<>> \in Seq(Chars) OBVIOUS
  <2>3. file \in [Buffers -> Seq(Chars)] BY <1>1, <2>2
  <2>4. stale \in [Buffers -> BOOLEAN] BY <1>1
  <2>5. depth \in 0 .. MAX_DEPTH /\ ~ (depth > 0) /\ top \in 0 .. MAX_COMMANDS /\ count \in 0 .. MAX_COMMANDS
    BY <1>0, <1>1
  <2>6. undid \in BOOLEAN /\ thisUndo \in BOOLEAN BY <1>1
  <2> QED BY <1>1, <2>1, <2>3, <2>4, <2>5, <2>6 DEF EditShape
<1>3. ASSUME NEW b \in Buffers PROVE Fits(buf[b], stale[b], file[b])
  <2>1. file[b] = <<>> /\ buf[b] = NewBuffer(<<>>) BY <1>1
  <2>2. /\ buf[b].text = <<>> /\ buf[b].undo = <<>> /\ buf[b].next = 0
        /\ buf[b] \in BufferOf(Commands)
    <3>1. <<>> \in Seq(Chars) /\ <<>> \in Seq(EntryOf(Commands)) OBVIOUS
    <3> QED BY <2>1, <3>1 DEF NewBuffer, BufferOf
  <2>3. PICK x : x = buf[b] OBVIOUS
  <2>4. Sound(x, Commands, x.text) BY <2>2, <2>3, FreshSound
  <2>5. x.text = file[b] BY <2>1, <2>2, <2>3
  <2> QED BY <2>3, <2>4, <2>5 DEF Fits
<1> QED BY <1>2, <1>3 DEF EditInv

(* One change in a sequence that has been started.                          *)
LEMMA InsertedFits ==
    ASSUME NEW K, NEW b, NEW base, Loose(b, K, base), NEW k \in K,
           NEW o \in 0 .. Len(b.text), NEW c \in Chars, NEW d, d = Replaced(b, o, 0, <<c>>, k)
    PROVE  Sound(Ended(d, FALSE, k), K, base)
<1>1. b \in BufferOf(K) BY DEF Loose, Kept
<1>2. Len(b.text) \in Nat BY <1>1, ListFacts
<1>3. o \in Nat /\ 0 \in Nat /\ o + 0 <= Len(b.text) BY <1>2
<1>n. <<c>> \in Seq(Chars) OBVIOUS
<1>4. PICK new \in Seq(Chars) : new = <<c>> BY <1>n
<1>5. d = Replaced(b, o, 0, new, k) BY <1>4
<1>6. Loose(d, K, base) BY <1>3, <1>5, ReplacedLoose
<1> QED BY <1>6, ChangeEnds

Deleted(d, K, base, o, k) ==
    Loose(d, K, base) /\ o \in 0 .. Len(d.text) /\ Sound(Ended(d, FALSE, k), K, base)

LEMMA DeletedFits ==
    ASSUME NEW K, NEW b, NEW base, Loose(b, K, base), NEW k \in K,
           NEW o \in Nat, o < Len(b.text), NEW d, d = Replaced(b, o, 1, <<>>, k)
    PROVE  Deleted(d, K, base, o, k)
<1>1. b \in BufferOf(K) BY DEF Loose, Kept
<1>2. b.text \in Seq(Chars) /\ Len(b.text) \in Nat BY <1>1, ListFacts
<1>3. 1 \in Nat /\ o + 1 <= Len(b.text) BY <1>2
<1>n. <<>> \in Seq(Chars) OBVIOUS
<1>4. PICK new \in Seq(Chars) : new = <<>> BY <1>n
<1>5. d = Replaced(b, o, 1, new, k) BY <1>4
<1>6. Loose(d, K, base) /\ d.text = Spliced(b.text, o, 1, new) BY <1>3, <1>5, ReplacedLoose
<1>7. PICK p : p = Len(new) OBVIOUS
<1>8. PICK y : y = Spliced(b.text, o, 1, new) OBVIOUS
<1>9. y \in Seq(Chars) /\ Splices(y, b.text, o, 1, new, p)
  BY ONLY <1>2, <1>3, <1>7, <1>8, o \in Nat, new \in Seq(Chars), SplicedFacts, Zenon
<1>10. p = 0 BY <1>4, <1>7
<1>11. Len(d.text) = Len(b.text) - 1
  <2>1. Len(y) = Len(b.text) - 1 + p BY <1>9 DEF Splices
  <2> QED BY <1>2, <1>6, <1>8, <1>10, <2>1
<1>12. o \in 0 .. Len(d.text) BY <1>2, <1>11
<1>13. Sound(Ended(d, FALSE, k), K, base) BY <1>6, ChangeEnds
<1> QED BY <1>6, <1>12, <1>13 DEF Deleted

(* What every command that changes the current buffer does to the others.   *)
LEMMA OthersFit ==
    ASSUME EditInv, NEW x, buf' = [buf EXCEPT ![current] = x],
           \A b \in Buffers \ {current} : stale'[b] = stale[b] /\ file'[b] = file[b],
           Fits(x, stale'[current], file'[current])
    PROVE  buf' = [b \in Buffers |-> buf'[b]] /\ \A b \in Buffers : Fits(buf'[b], stale'[b], file'[b])
<1>1. buf = [b \in Buffers |-> buf[b]] /\ current \in Buffers BY DEF EditInv, EditShape
<1>2. \A b \in Buffers : buf'[b] = IF b = current THEN x ELSE buf[b] BY <1>1
<1>3. buf' = [b \in Buffers |-> buf'[b]] BY <1>1, <1>2
<1>4. ASSUME NEW b \in Buffers PROVE Fits(buf'[b], stale'[b], file'[b])
  <2>1. CASE b = current BY <1>2, <2>1
  <2>2. CASE b # current BY <1>2, <2>2 DEF EditInv
  <2> QED BY <2>1, <2>2
<1> QED BY <1>3, <1>4

LEMMA NowIsCommand == ASSUME EditInv, Counted \/ depth > 0 PROVE Now \in Commands
<1>1. MAX_COMMANDS \in Nat BY BoundsAssumption
<1> QED BY <1>1 DEF EditInv, EditShape, Counted, Now, Commands

(* A sequence has been started in the current buffer.                       *)
LEMMA OpenedFits ==
    ASSUME EditInv, Now \in Commands
    PROVE  /\ \E base : /\ Sound(Opened, Commands, base)
                        /\ MATCHES \/ stale[current] \/ base = file[current]
           /\ Opened.text = buf[current].text /\ Opened.modified = buf[current].modified
           /\ Opened \in BufferOf(Commands)
<1>1. current \in Buffers BY DEF EditInv, EditShape
<1>2. PICK base : Sound(buf[current], Commands, base) /\ (MATCHES \/ stale[current] \/ base = file[current])
  BY <1>1 DEF EditInv, Fits
<1>3. PICK b : b = buf[current] OBVIOUS
<1>4. PICK c : c = Opened OBVIOUS
<1>5. c = Started(b, Now) BY <1>3, <1>4 DEF Opened
<1>6. Sound(b, Commands, base) BY <1>2, <1>3
<1>7. Sound(c, Commands, base) /\ c.text = b.text /\ c.modified = b.modified BY <1>5, <1>6, StartedSound
<1>8. c \in BufferOf(Commands) BY <1>7 DEF Sound, Kept
<1> QED BY <1>2, <1>3, <1>4, <1>7, <1>8

-----------------------------------------------------------------------------
(* What the commands leave in the other variables.                          *)
LEMMA CountedShape ==
    ASSUME EditInv, Counted
    PROVE  count' \in 0 .. MAX_COMMANDS /\ count + 1 \in 1 .. MAX_COMMANDS
<1>1. MAX_COMMANDS \in Nat BY BoundsAssumption
<1> QED BY <1>1 DEF EditInv, EditShape, Counted

LEMMA CalledShape ==
    ASSUME EditInv, NEW u \in BOOLEAN, Called(u), file' \in [Buffers -> Seq(Chars)],
           stale' \in [Buffers -> BOOLEAN], current' \in Buffers, buf' = [b \in Buffers |-> buf'[b]]
    PROVE  EditShape' /\ Now \in Commands
<1>1. Counted /\ undid' = u /\ thisUndo' = u /\ depth' = depth /\ top' = top BY DEF Called
<1>2. count' \in 0 .. MAX_COMMANDS BY <1>1, CountedShape
<1>3. Now \in Commands BY <1>1, NowIsCommand
<1> QED BY <1>1, <1>2, <1>3 DEF EditInv, EditShape

(* A command that makes the current buffer x.                               *)
LEMMA CommandKeeps ==
    ASSUME EditInv, NEW u \in BOOLEAN, Called(u), NEW x, buf' = [buf EXCEPT ![current] = x],
           file' \in [Buffers -> Seq(Chars)], stale' \in [Buffers -> BOOLEAN], current' = current,
           \A b \in Buffers \ {current} : stale'[b] = stale[b] /\ file'[b] = file[b],
           Fits(x, stale'[current], file'[current])
    PROVE  EditInv'
<1>1. buf' = [b \in Buffers |-> buf'[b]] /\ \A b \in Buffers : Fits(buf'[b], stale'[b], file'[b])
  BY OthersFit
<1>2. current' \in Buffers BY DEF EditInv, EditShape
<1>3. EditShape' BY <1>1, <1>2, CalledShape
<1> QED BY <1>1, <1>3 DEF EditInv

LEMMA QuietKeeps ==
    ASSUME EditInv, NEW u \in BOOLEAN, Called(u), NEW x, buf' = [buf EXCEPT ![current] = x],
           UNCHANGED <<file, stale, current>>,
           NEW base, Sound(x, Commands, base), MATCHES \/ stale[current] \/ base = file[current]
    PROVE  EditInv'
<1>1. file' \in [Buffers -> Seq(Chars)] /\ stale' \in [Buffers -> BOOLEAN] /\ current' = current
  BY DEF EditInv, EditShape
<1>2. \A b \in Buffers \ {current} : stale'[b] = stale[b] /\ file'[b] = file[b] OBVIOUS
<1>3. Fits(x, stale'[current], file'[current]) BY DEF Fits
<1> QED BY <1>1, <1>2, <1>3, CommandKeeps

LEMMA EditKeeps == ASSUME EditInv, Edit PROVE EditInv'
<1>1. PICK o \in 0 .. Len(buf[current].text), c \in Chars :
        /\ Called(FALSE)
        /\ \/ buf' = [buf EXCEPT ![current] = InSequence(Change(Opened, o, 0, <<c>>), FALSE)]
           \/ /\ o < Len(buf[current].text)
              /\ \E changed \in {Change(Opened, o, 1, <<>>), Change(Change(Opened, o, 1, <<>>), o, 0, <<c>>)} :
                    buf' = [buf EXCEPT ![current] = InSequence(changed, FALSE)]
        /\ UNCHANGED <<file, stale, current>>
  BY Zenon DEF Edit
<1>2. Called(FALSE) /\ UNCHANGED <<file, stale, current>> BY <1>1
<1>3. Now \in Commands BY <1>2, NowIsCommand DEF Called
<1>4. PICK base : Sound(Opened, Commands, base) /\ (MATCHES \/ stale[current] \/ base = file[current])
  BY <1>3, OpenedFits
<1>5. Opened.text = buf[current].text BY <1>3, OpenedFits
<1>6. PICK b : b = Opened OBVIOUS
<1>7. PICK k \in Commands : k = Now BY <1>3
<1>8. Sound(b, Commands, base) /\ Loose(b, Commands, base) BY <1>4, <1>6, SoundIsLoose
<1>9. o \in 0 .. Len(b.text) /\ o \in Nat BY <1>5, <1>6
<1>10. PICK i : i = Replaced(b, o, 0, <<c>>, k) OBVIOUS
<1>11. PICK d : d = Replaced(b, o, 1, <<>>, k) OBVIOUS
<1>12. PICK s : s = Replaced(d, o, 0, <<c>>, k) OBVIOUS
<1>13. Sound(Ended(i, FALSE, k), Commands, base) BY <1>8, <1>9, <1>10, InsertedFits
<1>14. ASSUME o < Len(b.text)
       PROVE  Sound(Ended(d, FALSE, k), Commands, base) /\ Sound(Ended(s, FALSE, k), Commands, base)
  <2>1. Loose(b, Commands, base) BY <1>8
  <2>2. Deleted(d, Commands, base, o, k)
    <3>1. o \in Nat BY <1>9
    <3> QED BY ONLY k \in Commands, <1>11, <1>14, <2>1, <3>1, DeletedFits, Zenon
  <2>3. Loose(d, Commands, base) BY <2>2 DEF Deleted
  <2>5. o \in 0 .. Len(d.text) BY <2>2 DEF Deleted
  <2>4. Sound(Ended(s, FALSE, k), Commands, base) BY ONLY k \in Commands, c \in Chars, <1>12, <2>3, <2>5, InsertedFits, Zenon
  <2> QED BY <2>2, <2>4 DEF Deleted
<1>15. \E x : Sound(x, Commands, base) /\ buf' = [buf EXCEPT ![current] = x]
  <2>1. CASE buf' = [buf EXCEPT ![current] = InSequence(Change(Opened, o, 0, <<c>>), FALSE)]
    <3>1. InSequence(Change(Opened, o, 0, <<c>>), FALSE) = Ended(i, FALSE, k)
      BY <1>6, <1>7, <1>10 DEF InSequence, Change
    <3> QED BY <1>13, <2>1, <3>1
  <2>2. CASE /\ o < Len(buf[current].text)
             /\ \E changed \in {Change(Opened, o, 1, <<>>), Change(Change(Opened, o, 1, <<>>), o, 0, <<c>>)} :
                   buf' = [buf EXCEPT ![current] = InSequence(changed, FALSE)]
    <3>1. Change(Opened, o, 1, <<>>) = d /\ Change(d, o, 0, <<c>>) = s
      BY <1>6, <1>7, <1>11, <1>12 DEF Change
    <3>2. PICK g \in {d, s} : buf' = [buf EXCEPT ![current] = InSequence(g, FALSE)] BY <2>2, <3>1
    <3>3. InSequence(g, FALSE) = Ended(g, FALSE, k) BY <1>7 DEF InSequence
    <3>4. o < Len(b.text) BY <1>5, <1>6, <2>2
    <3>5. Sound(Ended(g, FALSE, k), Commands, base) BY <1>14, <3>2, <3>4
    <3> QED BY <3>2, <3>3, <3>5
  <2>3. \/ buf' = [buf EXCEPT ![current] = InSequence(Change(Opened, o, 0, <<c>>), FALSE)]
        \/ /\ o < Len(buf[current].text)
           /\ \E changed \in {Change(Opened, o, 1, <<>>), Change(Change(Opened, o, 1, <<>>), o, 0, <<c>>)} :
                 buf' = [buf EXCEPT ![current] = InSequence(changed, FALSE)]
    BY <1>1, Zenon
  <2> QED BY ONLY <2>1, <2>2, <2>3, Zenon
<1>16. PICK x : Sound(x, Commands, base) /\ buf' = [buf EXCEPT ![current] = x] BY <1>15
<1>17. PICK u \in BOOLEAN : u = FALSE OBVIOUS
<1>18. Called(u) BY <1>2, <1>17
<1>19. Sound(x, Commands, base) BY <1>16
<1>20. buf' = [buf EXCEPT ![current] = x] BY <1>16
<1>21. UNCHANGED <<file, stale, current>> BY <1>2
<1>22. MATCHES \/ stale[current] \/ base = file[current] BY <1>4
<1> QED BY <1>18, <1>19, <1>20, <1>21, <1>22, QuietKeeps

LEMMA UndoKeeps == ASSUME EditInv, Undo PROVE EditInv'
<1>1. Called(TRUE) /\ UNCHANGED <<file, stale, current>> BY DEF Undo
<1>2. Now \in Commands BY <1>1, NowIsCommand DEF Called
<1>3. PICK base : Sound(Opened, Commands, base) /\ (MATCHES \/ stale[current] \/ base = file[current])
  BY <1>2, OpenedFits
<1>4. PICK k \in Commands : k = Now BY <1>2
<1>5. PICK b : b = Opened OBVIOUS
<1>6. PICK c : c = Undone(b, k) OBVIOUS
<1>7. Sound(b, Commands, base) BY <1>3, <1>5
<1>8. Sound(c, Commands, base) BY <1>6, <1>7, UndoneSound
<1>9. PICK x : x = Ended(c, TRUE, k) OBVIOUS
<1>10. Sound(x, Commands, base) BY <1>8, <1>9, UndoEnds
<1>11. buf' = [buf EXCEPT ![current] = x] BY <1>4, <1>5, <1>6, <1>9 DEF Undo, InSequence
<1>12. PICK u \in BOOLEAN : u = TRUE OBVIOUS
<1>13. Called(u) BY <1>1, <1>12
<1>14. UNCHANGED <<file, stale, current>> BY <1>1
<1>15. MATCHES \/ stale[current] \/ base = file[current] BY <1>3
<1> QED BY <1>10, <1>11, <1>13, <1>14, <1>15, QuietKeeps

LEMMA OtherKeeps == ASSUME EditInv, Other PROVE EditInv'
<1>1. Called(FALSE) /\ UNCHANGED <<file, stale, current>> BY DEF Other
<1>2. Now \in Commands BY <1>1, NowIsCommand DEF Called
<1>3. PICK base : Sound(Opened, Commands, base) /\ (MATCHES \/ stale[current] \/ base = file[current])
  BY <1>2, OpenedFits
<1>4. PICK k \in Commands : k = Now BY <1>2
<1>5. PICK b : b = Opened OBVIOUS
<1>6. Loose(b, Commands, base) BY <1>3, <1>5, SoundIsLoose
<1>7. PICK x : x = Ended(b, FALSE, k) OBVIOUS
<1>8. Sound(x, Commands, base) BY <1>6, <1>7, ChangeEnds
<1>9. buf' = [buf EXCEPT ![current] = x] BY <1>4, <1>5, <1>7 DEF Other, InSequence
<1>10. PICK u \in BOOLEAN : u = FALSE OBVIOUS
<1>11. Called(u) BY <1>1, <1>10
<1>12. UNCHANGED <<file, stale, current>> BY <1>1
<1>13. MATCHES \/ stale[current] \/ base = file[current] BY <1>3
<1> QED BY <1>8, <1>9, <1>11, <1>12, <1>13, QuietKeeps

(* Where a command is not counted as one: what is left of the invariant.    *)
LEMMA PasteKeeps == ASSUME ~PASTES_LATE, EditInv, Paste PROVE EditInv'
<1>1. PICK o \in 0 .. Len(buf[current].text), c \in Chars :
        /\ ~undid /\ Counted
        /\ buf' = [buf EXCEPT ![current] = InSequence(Change(Opened, o, 0, <<c>>), undid)]
        /\ UNCHANGED <<file, stale, current, depth, undid, thisUndo, top>>
  BY DEF Paste
<1>2. undid = FALSE BY <1>1 DEF EditInv, EditShape
<1>3. Now \in Commands BY <1>1, NowIsCommand
<1>4. PICK base : Sound(Opened, Commands, base) /\ (MATCHES \/ stale[current] \/ base = file[current])
  BY <1>3, OpenedFits
<1>5. PICK k \in Commands : k = Now BY <1>3
<1>6. PICK b : b = Opened OBVIOUS
<1>7. Loose(b, Commands, base) BY <1>4, <1>6, SoundIsLoose
<1>8. o \in 0 .. Len(b.text) BY <1>3, <1>6, OpenedFits
<1>9. PICK i : i = Replaced(b, o, 0, <<c>>, k) OBVIOUS
<1>10. PICK x : x = Ended(i, FALSE, k) OBVIOUS
<1>11. Sound(x, Commands, base) BY <1>7, <1>8, <1>9, <1>10, InsertedFits
<1>12. buf' = [buf EXCEPT ![current] = x]
  BY <1>1, <1>2, <1>5, <1>6, <1>9, <1>10 DEF InSequence, Change
<1>13. \A d \in Buffers \ {current} : stale'[d] = stale[d] /\ file'[d] = file[d] BY <1>1
<1>14. Fits(x, stale'[current], file'[current]) BY <1>1, <1>4, <1>11 DEF Fits
<1>15. buf' = [d \in Buffers |-> buf'[d]] /\ \A d \in Buffers : Fits(buf'[d], stale'[d], file'[d])
  BY <1>12, <1>13, <1>14, OthersFit
<1>16. count' \in 0 .. MAX_COMMANDS BY <1>1, CountedShape
<1>17. EditShape' BY <1>1, <1>15, <1>16 DEF EditInv, EditShape
<1> QED BY <1>15, <1>17 DEF EditInv

LEMMA SwitchKeeps == ASSUME EditInv, Switch PROVE EditInv'
<1>1. PICK b \in Buffers \ {current} :
        /\ Called(FALSE)
        /\ buf' = [buf EXCEPT ![current] = Opened, ![b] = InSequence(@, FALSE)]
        /\ current' = b
        /\ UNCHANGED <<file, stale>>
  BY DEF Switch
<1>2. current \in Buffers /\ buf = [d \in Buffers |-> buf[d]] BY DEF EditInv, EditShape
<1>3. Called(FALSE) BY <1>1
<1>4. Now \in Commands BY <1>3, NowIsCommand DEF Called
<1>5. PICK k \in Commands : k = Now BY <1>4
<1>6. PICK x : x = Ended(buf[b], FALSE, k) OBVIOUS
<1>7. \A d \in Buffers : buf'[d] = IF d = b THEN x ELSE IF d = current THEN Opened ELSE buf[d]
  BY <1>1, <1>2, <1>5, <1>6 DEF InSequence
<1>8. buf' = [d \in Buffers |-> buf'[d]] BY <1>1, <1>2
<1>9. ASSUME NEW d \in Buffers PROVE Fits(buf'[d], stale'[d], file'[d])
  <2>1. stale' = stale /\ file' = file BY <1>1
  <2>2. CASE d = b
    <3>1. PICK base : Sound(buf[b], Commands, base) /\ (MATCHES \/ stale[b] \/ base = file[b])
      BY DEF EditInv, Fits
    <3>2. Loose(buf[b], Commands, base) BY <3>1, SoundIsLoose
    <3>3. Sound(x, Commands, base) BY <1>6, <3>2, ChangeEnds
    <3>4. buf'[d] = x BY <1>7, <2>2
    <3> QED BY <2>1, <2>2, <3>1, <3>3, <3>4 DEF Fits
  <2>3. CASE d = current
    <3>1. PICK base : Sound(Opened, Commands, base) /\ (MATCHES \/ stale[current] \/ base = file[current])
      BY <1>4, OpenedFits
    <3>2. buf'[d] = Opened BY <1>1, <1>7, <2>3
    <3> QED BY <2>1, <2>3, <3>1, <3>2 DEF Fits
  <2>4. CASE d # b /\ d # current
    <3>1. buf'[d] = buf[d] BY <1>7, <2>4
    <3> QED BY <2>1, <3>1 DEF EditInv
  <2> QED BY <2>2, <2>3, <2>4
<1>10. file' \in [Buffers -> Seq(Chars)] /\ stale' \in [Buffers -> BOOLEAN] /\ current' \in Buffers
  BY <1>1 DEF EditInv, EditShape
<1>11. PICK u \in BOOLEAN : u = FALSE OBVIOUS
<1>12. Called(u) BY <1>3, <1>11
<1>13. EditShape' BY <1>8, <1>10, <1>12, CalledShape
<1> QED BY <1>9, <1>13 DEF EditInv

LEMMA NestKeeps == ASSUME EditInv, Nest PROVE EditInv'
<1>1. /\ depth < MAX_DEPTH /\ Counted /\ depth' = depth + 1 /\ top' = Now
      /\ buf' = [buf EXCEPT ![current] = Opened] /\ thisUndo' = FALSE
      /\ UNCHANGED <<file, stale, current, undid>>
  BY DEF Nest
<1>2. Now \in Commands BY <1>1, NowIsCommand
<1>3. PICK base : Sound(Opened, Commands, base) /\ (MATCHES \/ stale[current] \/ base = file[current])
  BY <1>2, OpenedFits
<1>4. PICK x : x = Opened OBVIOUS
<1>5. buf' = [buf EXCEPT ![current] = x] BY <1>1, <1>4
<1>6. \A d \in Buffers \ {current} : stale'[d] = stale[d] /\ file'[d] = file[d] BY <1>1
<1>7. Fits(x, stale'[current], file'[current]) BY <1>1, <1>3, <1>4 DEF Fits
<1>8. buf' = [d \in Buffers |-> buf'[d]] /\ \A d \in Buffers : Fits(buf'[d], stale'[d], file'[d])
  BY <1>5, <1>6, <1>7, OthersFit
<1>9. count' \in 0 .. MAX_COMMANDS BY <1>1, CountedShape
<1>10. depth' \in 0 .. MAX_DEPTH /\ top' \in 0 .. MAX_COMMANDS /\ top' # 0
  <2>1. MAX_DEPTH \in Nat /\ MAX_COMMANDS \in Nat /\ depth \in 0 .. MAX_DEPTH
    BY BoundsAssumption DEF EditInv, EditShape
  <2> QED BY <1>1, <1>2, <2>1 DEF Commands
<1>11. EditShape' BY <1>1, <1>8, <1>9, <1>10 DEF EditInv, EditShape
<1> QED BY <1>8, <1>11 DEF EditInv

LEMMA ReturnKeeps == ASSUME EditInv, Return PROVE EditInv'
<1>1. /\ depth > 0 /\ depth' = depth - 1 /\ undid' = thisUndo
      /\ buf' = [buf EXCEPT ![current] = InSequence(@, thisUndo)]
      /\ UNCHANGED <<file, stale, current, thisUndo, top, count>>
  BY DEF Return
<1>2. current \in Buffers /\ thisUndo \in BOOLEAN /\ buf = [d \in Buffers |-> buf[d]] BY DEF EditInv, EditShape
<1>3. Now \in Commands BY <1>1, NowIsCommand
<1>4. PICK base : Sound(buf[current], Commands, base) /\ (MATCHES \/ stale[current] \/ base = file[current])
  BY <1>2 DEF EditInv, Fits
<1>5. PICK k \in Commands : k = Now BY <1>3
<1>6. PICK b : b = buf[current] OBVIOUS
<1>7. PICK u \in BOOLEAN : u = thisUndo BY <1>2
<1>8. PICK x : x = Ended(b, u, k) OBVIOUS
<1>9. Sound(b, Commands, base) /\ Loose(b, Commands, base) BY <1>4, <1>6, SoundIsLoose
<1>10. IF u THEN Sound(b, Commands, base) ELSE Loose(b, Commands, base) BY <1>9
<1>11. Sound(x, Commands, base) BY <1>8, <1>10, EndedSound
<1>12. buf' = [buf EXCEPT ![current] = x] BY <1>1, <1>2, <1>5, <1>6, <1>7, <1>8 DEF InSequence
<1>13. \A d \in Buffers \ {current} : stale'[d] = stale[d] /\ file'[d] = file[d] BY <1>1
<1>14. Fits(x, stale'[current], file'[current]) BY <1>1, <1>4, <1>11 DEF Fits
<1>15. buf' = [d \in Buffers |-> buf'[d]] /\ \A d \in Buffers : Fits(buf'[d], stale'[d], file'[d])
  BY <1>12, <1>13, <1>14, OthersFit
<1>16. depth' \in 0 .. MAX_DEPTH
  <2>1. MAX_DEPTH \in Nat /\ depth \in 0 .. MAX_DEPTH BY BoundsAssumption DEF EditInv, EditShape
  <2> QED BY <1>1, <2>1
<1>17. EditShape' BY <1>1, <1>15, <1>16 DEF EditInv, EditShape
<1> QED BY <1>15, <1>17 DEF EditInv

-----------------------------------------------------------------------------
(* Files. *)

(* A command that ends its sequence as c, with the file and stat of the     *)
(* current buffer as f and s.                                              *)
LEMMA FileKeeps ==
    ASSUME EditInv, Called(FALSE), NEW c, buf' = [buf EXCEPT ![current] = InSequence(c, FALSE)],
           NEW f \in Seq(Chars), NEW s \in BOOLEAN, file' = [file EXCEPT ![current] = f],
           stale' = [stale EXCEPT ![current] = s], current' = current,
           NEW base, Loose(c, Commands, base), MATCHES \/ s \/ base = f
    PROVE  EditInv'
<1>1. Now \in Commands BY NowIsCommand DEF Called
<1>2. PICK k \in Commands : k = Now BY <1>1
<1>3. PICK x : x = Ended(c, FALSE, k) OBVIOUS
<1>4. Sound(x, Commands, base) BY <1>3, ChangeEnds
<1>5. buf' = [buf EXCEPT ![current] = x] BY <1>2, <1>3 DEF InSequence
<1>6. current \in Buffers /\ file \in [Buffers -> Seq(Chars)] /\ stale \in [Buffers -> BOOLEAN]
  BY DEF EditInv, EditShape
<1>7. file' \in [Buffers -> Seq(Chars)] /\ stale' \in [Buffers -> BOOLEAN] BY <1>6
<1>8. \A d \in Buffers \ {current} : stale'[d] = stale[d] /\ file'[d] = file[d] BY <1>6
<1>9. stale'[current] = s /\ file'[current] = f BY <1>6
<1>10. Fits(x, stale'[current], file'[current]) BY <1>4, <1>9 DEF Fits
<1>11. PICK u \in BOOLEAN : u = FALSE OBVIOUS
<1>12. Called(u) BY <1>11
<1> QED BY <1>5, <1>7, <1>8, <1>10, <1>12, CommandKeeps

LEMMA SaveKeeps == ASSUME EditInv, Save PROVE EditInv'
<1>1. /\ Called(FALSE) /\ current' = current
      /\ file' = [file EXCEPT ![current] = WithEol(buf[current].text)]
      /\ stale' = [stale EXCEPT ![current] = FALSE]
      /\ buf' = [buf EXCEPT ![current] = InSequence(Saved(Opened), FALSE)]
  BY DEF Save
<1>2. Now \in Commands BY <1>1, NowIsCommand DEF Called
<1>3. PICK base : Sound(Opened, Commands, base) BY <1>2, OpenedFits
<1>4. PICK b : b = Opened OBVIOUS
<1>5. b.text = buf[current].text BY <1>2, <1>4, OpenedFits
<1>6. Loose(b, Commands, base) BY <1>3, <1>4, SoundIsLoose
<1>7. PICK c : c = Saved(b) OBVIOUS
<1>8. WithEol(b.text) \in Seq(Chars) /\ Loose(c, Commands, WithEol(b.text)) BY <1>2, <1>6, <1>7, SavedLoose
<1>9. PICK f \in Seq(Chars) : f = WithEol(b.text) BY <1>8
<1>10. PICK s \in BOOLEAN : s = FALSE OBVIOUS
<1>11. file' = [file EXCEPT ![current] = f] BY <1>1, <1>5, <1>9
<1>12. stale' = [stale EXCEPT ![current] = s] BY <1>1, <1>10
<1>13. buf' = [buf EXCEPT ![current] = InSequence(c, FALSE)] BY <1>1, <1>4, <1>7
<1>14. Loose(c, Commands, f) BY <1>8, <1>9
<1>15. Called(FALSE) BY <1>1
<1>16. current' = current BY <1>1
<1>17. MATCHES \/ s \/ f = f OBVIOUS
<1> QED BY <1>11, <1>12, <1>13, <1>14, <1>15, <1>16, <1>17, FileKeeps

LEMMA SaveFailsKeeps == ASSUME EditInv, SaveFails PROVE EditInv'
<1>1. /\ Called(FALSE) /\ current' = current
      /\ \E n \in 0 .. Len(buf[current].text) :
            file' = [file EXCEPT ![current] = SubSeq(buf[current].text, 1, n)]
      /\ stale' = [stale EXCEPT ![current] = TRUE]
      /\ buf' = [buf EXCEPT ![current] = InSequence(Opened, FALSE)]
  BY DEF SaveFails
<1>2. Now \in Commands BY <1>1, NowIsCommand DEF Called
<1>3. PICK base : Sound(Opened, Commands, base) BY <1>2, OpenedFits
<1>4. PICK c : c = Opened OBVIOUS
<1>5. c.text = buf[current].text /\ c \in BufferOf(Commands) BY <1>2, <1>4, OpenedFits
<1>6. c.text \in Seq(Chars) /\ Len(c.text) \in Nat BY <1>5, ListFacts
<1>7. PICK n \in 0 .. Len(c.text) : file' = [file EXCEPT ![current] = SubSeq(c.text, 1, n)] BY <1>1, <1>5
<1>8. SubSeq(c.text, 1, n) \in Seq(Chars)
  <2>1. PICK x \in Seq(Chars) : x = c.text BY <1>6
  <2>2. n \in Nat /\ 0 \in Nat /\ 0 + n <= Len(x) /\ 1 = 0 + 1 /\ n = 0 + n BY <1>6, <2>1
  <2>4. PICK r : r = SubSeq(x, 1, n) OBVIOUS
  <2>3. r \in Seq(Chars) BY ONLY x \in Seq(Chars), <2>2, <2>4, PieceTaken, Zenon
  <2> QED BY <2>1, <2>3, <2>4
<1>9. PICK f \in Seq(Chars) : f = SubSeq(c.text, 1, n) BY <1>8
<1>10. PICK s \in BOOLEAN : s = TRUE OBVIOUS
<1>11. file' = [file EXCEPT ![current] = f] BY <1>7, <1>9
<1>12. stale' = [stale EXCEPT ![current] = s] BY <1>1, <1>10
<1>13. buf' = [buf EXCEPT ![current] = InSequence(c, FALSE)] BY <1>1, <1>4
<1>14. Loose(c, Commands, base) BY <1>3, <1>4, SoundIsLoose
<1>15. Called(FALSE) BY <1>1
<1>16. current' = current BY <1>1
<1>17. MATCHES \/ s \/ base = f BY <1>10
<1> QED BY <1>11, <1>12, <1>13, <1>14, <1>15, <1>16, <1>17, FileKeeps

LEMMA RevertKeeps == ASSUME EditInv, Revert PROVE EditInv'
<1>1. /\ Called(FALSE) /\ current' = current /\ file' = file
      /\ stale' = [stale EXCEPT ![current] = FALSE]
      /\ buf' = [buf EXCEPT ![current] = InSequence(Forgotten(RevertedText(Opened, file[current])), FALSE)]
  BY DEF Revert
<1>2. Now \in Commands BY <1>1, NowIsCommand DEF Called
<1>3. PICK base : Sound(Opened, Commands, base) BY <1>2, OpenedFits
<1>4. PICK b : b = Opened OBVIOUS
<1>5. current \in Buffers /\ file \in [Buffers -> Seq(Chars)] BY DEF EditInv, EditShape
<1>6. PICK f \in Seq(Chars) : f = file[current] BY <1>5
<1>7. PICK d : d = RevertedText(b, f) OBVIOUS
<1>8. Sound(b, Commands, base) BY <1>3, <1>4
<1>9. d \in BufferOf(Commands) /\ d.text = f
  <2>1. HasText(d, Commands, f) BY <1>7, <1>8, RevertedTextSound
  <2> QED BY <2>1 DEF HasText
<1>10. PICK c : c = Forgotten(d) OBVIOUS
<1>d. d \in BufferOf(Commands) BY <1>9
<1>f. f = d.text BY <1>9
<1>11. Sound(c, Commands, f) BY <1>d, <1>f, <1>10, ForgottenSound
<1>12. Loose(c, Commands, f) BY <1>9, <1>11, SoundIsLoose
<1>13. PICK s \in BOOLEAN : s = FALSE OBVIOUS
<1>14. file' = [file EXCEPT ![current] = f] BY <1>1, <1>5, <1>6
<1>15. stale' = [stale EXCEPT ![current] = s] BY <1>1, <1>13
<1>16. buf' = [buf EXCEPT ![current] = InSequence(c, FALSE)] BY <1>1, <1>4, <1>6, <1>7, <1>10
<1>17. Called(FALSE) BY <1>1
<1>18. current' = current BY <1>1
<1>19. MATCHES \/ s \/ f = f OBVIOUS
<1> QED BY <1>12, <1>14, <1>15, <1>16, <1>17, <1>18, <1>19, FileKeeps

LEMMA CheckDiskKeeps == ASSUME EditInv, CheckDisk PROVE EditInv'
<1>1. PICK S \in {Buffers, {current}} :
        /\ MATCHES \/ \A b \in S : ~(stale[b] /\ buf[b].modified /\ Same(b))
        /\ buf' = [b \in Buffers |-> IF b \in S THEN Followed(b) ELSE buf[b]]
        /\ stale' = [b \in Buffers |-> stale[b] /\ ~(b \in S /\ (buf[b].modified => Same(b)))]
        /\ UNCHANGED <<file, current, depth, undid, thisUndo, top, count>>
  BY DEF CheckDisk
<1>2. file \in [Buffers -> Seq(Chars)] /\ stale \in [Buffers -> BOOLEAN] BY DEF EditInv, EditShape
<1>3. buf' = [b \in Buffers |-> buf'[b]] BY <1>1
<1>4. stale' \in [Buffers -> BOOLEAN] BY <1>1, <1>2
<1>5. EditShape' BY <1>1, <1>3, <1>4 DEF EditInv, EditShape
<1>6. ASSUME NEW b \in Buffers PROVE Fits(buf'[b], stale'[b], file'[b])
  <2>1. PICK base : Sound(buf[b], Commands, base) /\ (MATCHES \/ stale[b] \/ base = file[b])
    BY DEF EditInv, Fits
  <2>2. file'[b] = file[b] /\ file[b] \in Seq(Chars) BY <1>1, <1>2
  <2>3. CASE b \notin S
    <3>1. buf'[b] = buf[b] /\ (stale'[b] <=> stale[b]) BY <1>1, <2>3
    <3> QED BY <2>1, <2>2, <3>1 DEF Fits
  <2>4. CASE b \in S /\ stale[b] /\ ~buf[b].modified
    <3>1. PICK x : x = buf[b] OBVIOUS
    <3>2. PICK f \in Seq(Chars) : f = file[b] BY <2>2
    <3>3. PICK c : c = RevertedText(x, f) OBVIOUS
    <3>4. buf'[b] = c BY <1>1, <2>4, <3>1, <3>2, <3>3 DEF Followed
    <3>5. Sound(x, Commands, base) BY <2>1, <3>1
    <3>6. MATCHES \/ x.text = base BY <2>4, <3>1, <3>5 DEF Sound, Kept, Flagged
    <3>7. MATCHES \/ x.text # f \/ base = f BY <3>6
    <3>8. MATCHES \/ x.text # f \/ base = f => Sound(c, Commands, f) BY <3>3, <3>5, RevertedTextSound
    <3>9. Sound(c, Commands, f) BY <3>7, <3>8
    <3> QED BY <2>2, <3>2, <3>4, <3>9 DEF Fits
  <2>5. CASE b \in S /\ ~ (stale[b] /\ ~buf[b].modified)
    <3>1. buf'[b] = buf[b] BY <1>1, <2>5 DEF Followed
    <3>2. MATCHES \/ stale'[b] \/ base = file[b]
      <4>1. CASE ~stale[b] BY <2>1, <4>1
      <4>2. CASE stale[b] /\ ~MATCHES
        <5>1. buf[b].modified /\ ~Same(b) BY <1>1, <2>5, <4>2
        <5> QED BY <1>1, <4>2, <5>1
      <4> QED BY <4>1, <4>2
    <3> QED BY <2>1, <2>2, <3>1, <3>2 DEF Fits
  <2> QED BY <2>3, <2>4, <2>5
<1> QED BY <1>5, <1>6 DEF EditInv

LEMMA OtherWritesKeeps == ASSUME EditInv, OtherWrites PROVE EditInv'
<1>1. PICK b \in Buffers, t \in BoundedSeq(Chars, MAX_FILE) :
        /\ Counted
        /\ file' = [file EXCEPT ![b] = t]
        /\ stale' = [stale EXCEPT ![b] = TRUE]
        /\ UNCHANGED <<buf, current, depth, undid, thisUndo, top>>
  BY DEF OtherWrites
<1>2. t \in Seq(Chars)
  <2>1. PICK n \in 0 .. MAX_FILE : t \in [1 .. n -> Chars] BY DEF BoundedSeq, SeqOf
  <2>2. MAX_FILE \in Nat BY BoundsAssumption
  <2>3. n \in Nat BY <2>1, <2>2
  <2> QED BY <2>1, <2>3, SeqDef
<1>3. file \in [Buffers -> Seq(Chars)] /\ stale \in [Buffers -> BOOLEAN] BY DEF EditInv, EditShape
<1>4. file' \in [Buffers -> Seq(Chars)] /\ stale' \in [Buffers -> BOOLEAN] BY <1>1, <1>2, <1>3
<1>5. count' \in 0 .. MAX_COMMANDS BY <1>1, CountedShape
<1>6. EditShape' BY <1>1, <1>4, <1>5 DEF EditInv, EditShape
<1>7. ASSUME NEW d \in Buffers PROVE Fits(buf'[d], stale'[d], file'[d])
  <2>1. PICK base : Sound(buf[d], Commands, base) /\ (MATCHES \/ stale[d] \/ base = file[d])
    BY DEF EditInv, Fits
  <2>2. buf'[d] = buf[d] BY <1>1
  <2>3. CASE d = b
    <3>1. stale'[d] BY <1>1, <1>3, <2>3
    <3> QED BY <2>1, <2>2, <3>1 DEF Fits
  <2>4. CASE d # b
    <3>1. stale'[d] = stale[d] /\ file'[d] = file[d] BY <1>1, <1>3, <2>4
    <3> QED BY <2>1, <2>2, <3>1 DEF Fits
  <2> QED BY <2>3, <2>4
<1> QED BY <1>6, <1>7 DEF EditInv

LEMMA EditInvStep == ASSUME ~PASTES_LATE, EditInv, [Next]_vars PROVE EditInv'
<1>1. CASE UNCHANGED vars
  BY <1>1 DEF vars, EditInv, EditShape
<1>2. CASE Next
  BY <1>2, EditKeeps, UndoKeeps, SwitchKeeps, PasteKeeps, NestKeeps, ReturnKeeps, SaveKeeps,
     SaveFailsKeeps, OtherKeeps, RevertKeeps, CheckDiskKeeps, OtherWritesKeeps DEF Next, Command
<1> QED BY <1>1, <1>2

LEMMA EditInvAlways == ASSUME ~PASTES_LATE PROVE Spec => []EditInv
<1>1. EditInv /\ [Next]_vars => EditInv' BY EditInvStep
<1> QED BY <1>1, EditInitInv, PTL DEF Spec

LEMMA InvTypes == ASSUME EditInv PROVE TypeOK
<1>1. EditShape /\ \A b \in Buffers : Fits(buf[b], stale[b], file[b]) BY DEF EditInv
<1>2. ASSUME NEW b \in Buffers
      PROVE  /\ buf[b].text \in Seq(Chars) /\ buf[b].modified \in BOOLEAN
             /\ buf[b].undo \in Seq(Entry)
             /\ buf[b].next \in 0 .. Len(buf[b].undo)
  <2>1. PICK base : Sound(buf[b], Commands, base) BY <1>1 DEF Fits
  <2>2. PICK x : x = buf[b] OBVIOUS
  <2>3. x \in BufferOf(Commands) /\ x.next <= Len(x.undo) BY <2>1, <2>2 DEF Sound, Kept
  <2>4. Entry = EntryOf(Commands) BY DEF Entry, EntryOf, Commands
  <2>5. /\ x.text \in Seq(Chars) /\ x.modified \in BOOLEAN /\ x.undo \in Seq(EntryOf(Commands))
        /\ x.next \in Nat /\ Len(x.undo) \in Nat
    BY <2>3, ListFacts
  <2>6. x.next \in 0 .. Len(x.undo) BY <2>3, <2>5
  <2> QED BY <2>2, <2>4, <2>5, <2>6
<1> QED BY <1>1, <1>2 DEF TypeOK, EditShape

(* However commands change a buffer, undo, redo, run in each other and are  *)
(* mixed with saving and other programs' writes, next_undop is an entry of  *)
(* the buffer's own list, and the text is the one that entry was kept for   *)
(* (undo_save, revert_action), if nothing is pasted right after an undo.    *)
THEOREM UndoIsSound == ASSUME ~PASTES_LATE PROVE Spec => []UndoSound
<1>1. EditInv => UndoSound
  <2> SUFFICES ASSUME EditInv PROVE UndoSound OBVIOUS
  <2>1. ASSUME NEW b \in Buffers PROVE buf[b].text = Before(buf[b], buf[b].next)
    <3>1. PICK base : Sound(buf[b], Commands, base) BY DEF EditInv, Fits
    <3> QED BY <3>1, SoundIsUndone
  <2> QED BY <2>1, InvTypes DEF UndoSound, UndoInStep
<1> QED BY <1>1, EditInvAlways, PTL

(* A buffer that says it is not modified holds what its file does, when     *)
(* that is as last seen (undo_set_unchanged, `unchanged' of an entry).      *)
THEOREM UnmodifiedHoldsFile == ASSUME ~PASTES_LATE, ~MATCHES PROVE Spec => []UnmodifiedIsSaved
<1>1. EditInv => UnmodifiedIsSaved
  <2> SUFFICES ASSUME EditInv, NEW b \in Buffers, ~buf[b].modified, ~stale[b]
               PROVE  buf[b].text = file[b]
    BY DEF UnmodifiedIsSaved
  <2>1. PICK base : Sound(buf[b], Commands, base) /\ (MATCHES \/ stale[b] \/ base = file[b])
    BY DEF EditInv, Fits
  <2>2. PICK t : Flagged(buf[b], t, base) BY <2>1 DEF Sound, Kept
  <2> QED BY <2>1, <2>2 DEF Flagged
<1> QED BY <1>1, EditInvAlways, PTL

-----------------------------------------------------------------------------
(* The kill ring. *)

(* What is killed and copied is a sequence of pieces; consecutive kills are *)
(* together in the ring.                                                    *)
RingShape == /\ ring \in Seq(Pieces) /\ clip \in Seq(Pieces) /\ lastText \in Seq(Pieces)
             /\ reach \in {"read", "written", "none"}
             /\ lastKill \in BOOLEAN /\ pending \in BOOLEAN /\ reading \in BOOLEAN
             /\ lastKill => killed = ring

(* Only a kill made in the minibuffer is not on the clipboard yet; until    *)
(* then it is the latest.                                                   *)
FlushedOrPending ==
    /\ reach = "none" => lastText = Null
    /\ reach # "none" /\ ~pending => ring = lastText
    /\ ~pending => Yanked = latest
    /\ pending => /\ reading /\ ring # Null /\ latest = ring
                  /\ ring # lastText \/ reach = "none" \/ clip = ring

KillInv == RingShape /\ FlushedOrPending

LEMMA KillInitInv == KillInit => KillInv
<1> SUFFICES ASSUME KillInit PROVE KillInv
  OBVIOUS
<1>1. ring = Null /\ lastText = Null /\ killed = Null
  BY Zenon DEF KillInit
<1>2. clip \in Seq(Pieces)
  <2>1. CASE clip = Null
    BY <2>1 DEF Null
  <2>2. CASE \E t \in Pieces : clip = <<t>>
    BY <2>2
  <2> QED
    BY <2>1, <2>2 DEF KillInit
<1>3. ~pending /\ ~lastKill /\ ~reading /\ lastKill \in BOOLEAN /\ pending \in BOOLEAN /\ reading \in BOOLEAN
  BY Zenon DEF KillInit
<1>4. /\ reach \in {"read", "written", "none"}
      /\ clip # Null \/ clip = Null
      /\ latest = IF reach = "read" THEN clip ELSE Null
  BY DEF KillInit
<1> QED
  BY <1>1, <1>2, <1>3, <1>4 DEF KillInv, RingShape, FlushedOrPending, Yanked, Fetched, Null

(* Killing something leaves something.                                      *)
LEMMA PushedSomething == ASSUME RingShape, NEW t \in Texts \cup {<<p>> : p \in Pieces}
                         PROVE  /\ t \in Seq(Pieces) /\ t # Null
                                /\ Pushed(t) \in Seq(Pieces) /\ Pushed(t) # Null
<1>1. t \in Seq(Pieces) /\ Len(t) > 0
  <2>1. ASSUME NEW n \in 1 .. 2, t \in [1 .. n -> Pieces] PROVE t \in Seq(Pieces) /\ Len(t) > 0
    BY <2>1, SeqDef, LenProperties
  <2>2. ASSUME NEW p \in Pieces, t = <<p>> PROVE t \in Seq(Pieces) /\ Len(t) > 0
    BY <2>2
  <2> QED
    BY <2>1, <2>2 DEF Texts
<1>2. Base \in Seq(Pieces)
  BY DEF Base, Null, RingShape
<1>3. Pushed(t) \in Seq(Pieces) /\ Len(Pushed(t)) = Len(Base) + Len(t)
  BY <1>1, <1>2 DEF Pushed
<1> QED
  BY <1>1, <1>2, <1>3 DEF Null

(* What a command that leaves t in the kill ring does to the clipboard.     *)
LEMMA FlushStep == ASSUME KillInv, NEW t, t # Null, Flush(t), ring' = t, latest' = t, reach' = reach,
                          t # lastText \/ reach = "none" \/ clip = t
                   PROVE  FlushedOrPending'
<1>1. ~pending'
  BY Zenon DEF Flush
<1>2. reach = "none" => lastText' = Null
  BY DEF Flush, Flushed, KillInv, FlushedOrPending
<1>3. reach # "none" => lastText' = t /\ clip' = t
  BY DEF Flush, Flushed
<1> QED
  BY <1>1, <1>2, <1>3 DEF FlushedOrPending, Yanked, Fetched

LEMMA KillInvStep == ASSUME ~KILLS_AGAIN, ~KILLS_NOTHING, ~COPIES_BETWEEN, KillInv, [KillNext]_killVars
                     PROVE  KillInv'
<1> USE DEF KillInv
<1>flush. ASSUME NEW t, Flush(t), t \in Seq(Pieces)
          PROVE  pending' \in BOOLEAN /\ clip' \in Seq(Pieces) /\ lastText' \in Seq(Pieces)
  BY <1>flush DEF Flush, RingShape
<1>1. CASE UNCHANGED killVars
  BY <1>1, Zenon DEF killVars, RingShape, FlushedOrPending, Yanked, Fetched
<1>2. CASE KillText
  <2>1. PICK t \in Texts : /\ ~reading /\ CountedKill(Pushed(t))
                           /\ ring' = Pushed(t) /\ Killed(t) /\ lastKill' = TRUE
                           /\ Flush(Pushed(t)) /\ UNCHANGED <<reach, reading>>
    BY <1>2 DEF KillText
  <2>2. Pushed(t) \in Seq(Pieces) /\ Pushed(t) # Null
    BY PushedSomething
  <2>3. killed' = Pushed(t) /\ latest' = Pushed(t)
    <3>1. Null \o t = t /\ t \in Seq(Pieces)
      BY PushedSomething, ConcatEmptySeq DEF Null
    <3> QED
      BY <2>1, <3>1 DEF Killed, Pushed, Base, RingShape
  <2>4. Pushed(t) # lastText \/ reach = "none" \/ clip = Pushed(t)
    BY <2>1 DEF CountedKill
  <2>5. FlushedOrPending'
    BY <2>1, <2>2, <2>3, <2>4, FlushStep
  <2> QED
    BY <1>flush, <2>1, <2>2, <2>3, <2>5 DEF RingShape
<1>3. CASE KillNothing
  <2>1. ring' = ring /\ ring = Base /\ ~reading /\ lastKill' = FALSE /\ Flush(ring) /\ UNCHANGED <<reach, reading, latest>>
    BY <1>3 DEF KillNothing
  <2>2. ~pending
    BY <2>1 DEF FlushedOrPending
  <2>3. UNCHANGED <<lastText, clip>> /\ pending' = FALSE
    BY <2>1, <2>2 DEF Flush, Flushed, FlushedOrPending
  <2> QED
    BY <2>1, <2>2, <2>3 DEF RingShape, FlushedOrPending, Yanked, Fetched
<1>4. CASE CopyNames
  <2>1. PICK t \in Texts : /\ ~reading /\ CountedKill(t)
                           /\ ring' = t /\ latest' = t /\ killed' = t /\ lastKill' = FALSE
                           /\ Flush(t) /\ UNCHANGED <<reach, reading>>
    BY <1>4 DEF CopyNames
  <2>2. t \in Seq(Pieces) /\ t # Null
    BY PushedSomething
  <2>3. t # lastText \/ reach = "none" \/ clip = t
    BY <2>1 DEF CountedKill
  <2>4. FlushedOrPending'
    BY <2>1, <2>2, <2>3, FlushStep
  <2> QED
    BY <1>flush, <2>1, <2>2, <2>4 DEF RingShape
<1>5. CASE OtherCommand
  <2>1. ~reading /\ ~pending /\ UNCHANGED <<ring, pending, lastText, clip, reach, killed, latest>>
    BY <1>5 DEF OtherCommand, FlushedOrPending
  <2>2. reading' \in BOOLEAN /\ lastKill' \in BOOLEAN /\ (lastKill' => lastKill)
    <3>1. CASE reading' = TRUE /\ lastKill' = lastKill
      BY <3>1, Zenon DEF RingShape
    <3>2. CASE lastKill' = FALSE /\ reading' = reading
      BY <3>2, Zenon DEF RingShape
    <3> QED
      BY <1>5, <3>1, <3>2, Zenon DEF OtherCommand
  <2> QED
    BY <2>1, <2>2 DEF RingShape, FlushedOrPending, Yanked, Fetched
<1>6. CASE EndReading
  <2>1. reading' = FALSE /\ lastKill' = FALSE /\ UNCHANGED <<ring, reach, killed, latest>>
    BY <1>6 DEF EndReading
  <2>2. CASE pending
    <3>1. Flush(ring) /\ ring # Null /\ latest' = ring /\ (ring # lastText \/ reach = "none" \/ clip = ring)
      BY <1>6, <2>1, <2>2 DEF EndReading, FlushedOrPending
    <3>2. FlushedOrPending'
      BY <2>1, <3>1, FlushStep
    <3> QED
      BY <1>flush, <2>1, <3>1, <3>2 DEF RingShape
  <2>3. CASE ~pending
    <3>1. UNCHANGED <<pending, lastText, clip>>
      BY <1>6, <2>3 DEF EndReading
    <3> QED
      BY <2>1, <2>3, <3>1 DEF RingShape, FlushedOrPending, Yanked, Fetched
  <2> QED
    BY <2>2, <2>3
<1>7. CASE MinibufKill
  <2>1. PICK p \in Pieces : /\ reading /\ CountedKill(Pushed(<<p>>))
                            /\ ring' = Pushed(<<p>>) /\ Killed(<<p>>) /\ pending' = TRUE
                            /\ UNCHANGED <<lastKill, lastText, clip, reach, reading>>
    BY <1>7 DEF MinibufKill
  <2> DEFINE t == <<p>>
  <2>2. t \in Texts \cup {<<q>> : q \in Pieces}
    OBVIOUS
  <2>3. Pushed(t) \in Seq(Pieces) /\ Pushed(t) # Null
    BY <2>2, PushedSomething
  <2>4. (latest' = Pushed(t) /\ killed' = latest') \/ ~lastKill
    BY <2>1 DEF Killed, Pushed, Base, RingShape
  <2>5. latest' = Pushed(t)
    BY <2>1, <2>3 DEF Killed, Pushed, Base, Null, RingShape
  <2>6. Pushed(t) # lastText \/ reach = "none" \/ clip = Pushed(t)
    BY <2>1 DEF CountedKill
  <2> QED
    BY <2>1, <2>3, <2>4, <2>5, <2>6 DEF RingShape, FlushedOrPending
<1>8. CASE Yank
  <2>1. /\ ~reading /\ ring' = Yanked /\ lastText' = (IF Fetched THEN clip ELSE lastText) /\ lastKill' = FALSE
        /\ UNCHANGED <<pending, clip, reach, reading, killed, latest>>
    BY <1>8 DEF Yank
  <2>2. ~pending /\ Yanked = latest
    BY <2>1 DEF FlushedOrPending
  <2> QED
    BY <2>1, <2>2 DEF RingShape, FlushedOrPending, Yanked, Fetched
<1>9. CASE OtherCopies
  <2>1. PICK t \in Pieces : /\ ~pending
                            /\ clip' = <<t>>
                            /\ latest' = IF reach = "read" /\ clip # <<t>> THEN <<t>> ELSE latest
                            /\ UNCHANGED <<ring, lastKill, pending, lastText, reach, reading, killed>>
    BY <1>9 DEF OtherCopies
  <2>2. <<t>> \in Seq(Pieces) /\ <<t>> # Null
    BY PushedSomething
  <2> QED
    BY <2>1, <2>2 DEF RingShape, FlushedOrPending, Yanked, Fetched
<1> QED
  BY <1>1, <1>2, <1>3, <1>4, <1>5, <1>6, <1>7, <1>8, <1>9 DEF KillNext

(* Between commands, yank would insert what was last killed here or copied  *)
(* by another program, for any sequence of kills, copies and yanks, whatever*)
(* the clipboard can do (clipboard_flush, clipboard_fetch), but for what    *)
(* the three constants leave out.                                          *)
THEOREM YankGivesLatest == ASSUME ~KILLS_AGAIN, ~KILLS_NOTHING, ~COPIES_BETWEEN
                           PROVE  KillSpec => []YankIsLatest
<1>1. KillInv => YankIsLatest
  BY DEF KillInv, FlushedOrPending, YankIsLatest
<1>2. KillInv /\ [KillNext]_killVars => KillInv'
  BY KillInvStep
<1> QED
  BY <1>1, <1>2, KillInitInv, PTL DEF KillSpec

-----------------------------------------------------------------------------
(* Searching: where matches are in a text that begins with what has been    *)
(* gone through already.                                                    *)

SearchTexts == Seq(SearchLetters)

LEMMA FirstIsLeast ==
    ASSUME NEW S, S \subseteq Nat, S # {}
    PROVE  First(S) \in S /\ \A j \in S : First(S) <= j
BY LeastNumber DEF First

LEMMA FinalIsGreatest ==
    ASSUME NEW n \in Nat, NEW S, S \subseteq 0 .. n, S # {}
    PROVE  Final(S) \in S /\ \A j \in S : j <= Final(S)
BY GreatestIndex DEF Final

LEMMA FirstShifted ==
    ASSUME NEW S, S \subseteq Nat, S # {}, NEW n \in Nat, NEW T, T = {k + n : k \in S}
    PROVE  T # {} /\ First(T) = First(S) + n
<1>1. PICK f : f = First(S) OBVIOUS
<1>2. f \in S /\ \A j \in S : f <= j BY <1>1, FirstIsLeast
<1>3. T \subseteq Nat /\ f + n \in T BY <1>2
<1>4. PICK g : g = First(T) OBVIOUS
<1>5. g \in T /\ \A j \in T : g <= j BY <1>3, <1>4, FirstIsLeast
<1>6. PICK k \in S : g = k + n BY <1>5
<1>7. f <= k /\ g <= f + n BY <1>2, <1>3, <1>5
<1>8. g = f + n BY <1>2, <1>6, <1>7
<1> QED BY <1>1, <1>3, <1>4, <1>8

LEMMA MatchFacts ==
    ASSUME NEW p \in SearchTexts, NEW t \in SearchTexts, NEW k \in Matches(p, t)
    PROVE  k \in Nat /\ k + Len(p) \in 0 .. Len(t) /\ SubSeq(t, k + 1, k + Len(p)) = p
<1>1. Len(p) \in Nat /\ Len(t) \in Nat BY DEF SearchTexts
<1> QED BY <1>1 DEF Matches

(* Beyond its beginning, the matches in a text are those in the rest of it. *)
ShiftedTo(p, u, t, n) == \A m : m \in After(p, t, n) <=> \E k \in Matches(p, u) : m = k + n

LEMMA MatchesShifted ==
    ASSUME NEW p \in SearchTexts, p # <<>>, NEW a \in SearchTexts, NEW u \in SearchTexts,
           NEW t, t = a \o u, NEW n, n = Len(a)
    PROVE  ShiftedTo(p, u, t, n)
<1>1. /\ Len(p) \in Nat \ {0} /\ Len(a) \in Nat /\ Len(u) \in Nat
      /\ t \in Seq(SearchLetters) /\ Len(t) = Len(a) + Len(u)
  BY ConcatProperties DEF SearchTexts
<1>2. ASSUME NEW k \in Nat, k + Len(p) <= Len(u)
      PROVE  SubSeq(t, k + n + 1, k + n + Len(p)) = SubSeq(u, k + 1, k + Len(p))
  <2>1. PICK i : i = k + n + 1 OBVIOUS
  <2>2. PICK j : j = k + n + Len(p) OBVIOUS
  <2>3. i \in Len(a) + 1 .. Len(a) + Len(u) /\ j \in Len(a) + 1 .. Len(a) + Len(u) BY <1>1, <1>2, <2>1, <2>2
  <2>4. SubSeq(a \o u, i, j) = SubSeq(u, i - Len(a), j - Len(a))
    BY <2>3, SubSeqOfConcat2 DEF SearchTexts
  <2>5. i - Len(a) = k + 1 /\ j - Len(a) = k + Len(p) BY <1>1, <2>1, <2>2
  <2> QED BY <2>1, <2>2, <2>4, <2>5
<1>3. ASSUME NEW m \in After(p, t, n) PROVE m \in {k + n : k \in Matches(p, u)}
  <2>1. /\ m \in 0 .. Len(t) - Len(p) /\ m >= n
        /\ SubSeq(t, m + 1, m + Len(p)) = p
    BY DEF After, Matches
  <2>2. PICK k : k = m - n OBVIOUS
  <2>3. k \in Nat /\ m = k + n /\ k + Len(p) <= Len(u) /\ k \in 0 .. Len(u) - Len(p) BY <1>1, <2>1, <2>2
  <2>4. SubSeq(u, k + 1, k + Len(p)) = p BY <1>2, <2>1, <2>3
  <2> QED BY <2>3, <2>4 DEF Matches
<1>4. ASSUME NEW k \in Matches(p, u) PROVE k + n \in After(p, t, n)
  <2>1. k \in 0 .. Len(u) - Len(p) /\ SubSeq(u, k + 1, k + Len(p)) = p BY DEF Matches
  <2>2. k \in Nat /\ k + Len(p) <= Len(u) /\ k + n \in 0 .. Len(t) - Len(p) /\ k + n >= n BY <1>1, <2>1
  <2>3. SubSeq(t, k + n + 1, k + n + Len(p)) = p BY <1>2, <2>1, <2>2
  <2> QED BY <2>2, <2>3 DEF After, Matches
<1> QED BY <1>3, <1>4 DEF ShiftedTo

(* The next match is the first in the rest of the text.                     *)
LEMMA NextMatchFacts ==
    ASSUME NEW p \in SearchTexts, p # <<>>, NEW a \in SearchTexts, NEW u \in SearchTexts,
           NEW t, t = a \o u, NEW n, n = Len(a), NextMatch(t, n, p)
    PROVE  /\ docPoint' \in 0 .. Len(t)
           /\ \/ searching' = "none"
              \/ /\ searching' = "query" /\ Matches(p, u) # {} /\ Len(p) <= docPoint'
                 /\ docPoint' = n + First(Matches(p, u)) + Len(p)
<1>1. /\ Len(p) \in Nat /\ n \in Nat /\ Len(u) \in Nat
      /\ t \in SearchTexts /\ Len(t) = n + Len(u)
  BY ConcatProperties DEF SearchTexts
<1>2. PICK S : S = Matches(p, u) OBVIOUS
<1>3. PICK T : T = After(p, t, n) OBVIOUS
<1>4. T = {k + n : k \in S}
  <2>1. ShiftedTo(p, u, t, n)
    <3>1. /\ p \in SearchTexts /\ p # <<>> /\ a \in SearchTexts /\ u \in SearchTexts
          /\ t = a \o u /\ n = Len(a)
      OBVIOUS
    <3> QED BY ONLY <3>1, MatchesShifted, Zenon
  <2> QED BY <1>2, <1>3, <2>1 DEF ShiftedTo
<1>5. S \subseteq Nat BY <1>2, MatchFacts
<1>6. CASE S = {}
  <2>1. T = {} BY <1>4, <1>6
  <2>2. searching' = "none" /\ docPoint' = n BY <1>3, <2>1 DEF NextMatch
  <2> QED BY <1>1, <2>2
<1>7. CASE S # {}
  <2>1. T # {} /\ First(T) = First(S) + n
    <3>1. n \in Nat BY <1>1
    <3> QED BY ONLY <3>1, <1>4, <1>5, <1>7, FirstShifted, Zenon
  <2>2. searching' = "query" /\ docPoint' = First(T) + Len(p) BY <1>3, <2>1 DEF NextMatch
  <2>3. First(S) \in S BY <1>5, <1>7, FirstIsLeast
  <2>4. First(S) \in Nat /\ First(S) + Len(p) <= Len(u) BY <1>1, <1>2, <2>3, MatchFacts
  <2>5. docPoint' = n + First(S) + Len(p) BY <1>1, <2>1, <2>2, <2>4
  <2> QED BY <1>1, <1>2, <1>7, <2>2, <2>4, <2>5
<1> QED BY <1>6, <1>7

LEMMA SearchedFacts ==
    ASSUME doc \in SearchTexts, NEW p \in SearchTexts, NEW o \in 0 .. Len(doc), NEW fwd \in BOOLEAN,
           Searched(p, o, fwd)
    PROVE  /\ docPoint' \in 0 .. Len(doc)
           /\ IF Found(p, doc, o, fwd)
              THEN /\ SubSeq(doc, match'[1] + 1, match'[2]) = p
                   /\ docPoint' = IF fwd THEN match'[2] ELSE match'[1]
              ELSE docPoint' = o
<1>1. Len(p) \in Nat /\ Len(doc) \in Nat BY DEF SearchTexts
<1>2. CASE ~ Found(p, doc, o, fwd) BY <1>2 DEF Searched
<1>3. CASE Found(p, doc, o, fwd)
  <2>1. PICK k : k = Start(p, doc, o, fwd) OBVIOUS
  <2>2. match' = <<k, k + Len(p)>> /\ docPoint' = IF fwd THEN k + Len(p) ELSE k
    BY <1>3, <2>1 DEF Searched
  <2>3. k \in Matches(p, doc)
    <3>1. CASE fwd
      <4>1. After(p, doc, o) # {} /\ After(p, doc, o) \subseteq Matches(p, doc) BY <1>3, <3>1 DEF Found, After
      <4>2. After(p, doc, o) \subseteq Nat BY <4>1, MatchFacts
      <4> QED BY <2>1, <3>1, <4>1, <4>2, FirstIsLeast DEF Start
    <3>2. CASE ~fwd
      <4>1. MatchesBefore(p, doc, o) # {} /\ MatchesBefore(p, doc, o) \subseteq Matches(p, doc)
        BY <1>3, <3>2 DEF Found, MatchesBefore
      <4>2. MatchesBefore(p, doc, o) \subseteq 0 .. Len(doc) BY <1>1, <4>1, MatchFacts
      <4> QED BY <1>1, <2>1, <3>2, <4>1, <4>2, FinalIsGreatest DEF Start
    <3> QED BY <3>1, <3>2
  <2>4. k \in Nat /\ k + Len(p) \in 0 .. Len(doc) /\ SubSeq(doc, k + 1, k + Len(p)) = p BY <2>3, MatchFacts
  <2>5. match'[1] = k /\ match'[2] = k + Len(p) BY <2>2
  <2> QED BY <1>1, <1>3, <2>2, <2>4, <2>5
<1> QED BY <1>2, <1>3

-----------------------------------------------------------------------------
(* What is so between keys: places are in the text, and query-replace, when *)
(* it asks, stands at the first match in what it has not been through; when *)
(* the file was read again since, it only stands far enough in the text.    *)

SearchTypes ==
    /\ {doc, pattern, lastSearch, repl, replaced, unread} \subseteq SearchTexts
    /\ docPoint \in 0 .. Len(doc) /\ forward \in BOOLEAN
    /\ InIsearch => {from, cur} \subseteq 0 .. Len(doc) /\ unread \o replaced = <<>>
    /\ searching = "query" => pattern # <<>> /\ Len(pattern) <= docPoint

Divided == ~reread /\ unread \o replaced # <<>> => doc = replaced \o unread
Asking == searching = "query" /\ ~reread =>
            /\ doc = replaced \o unread
            /\ Matches(pattern, unread) # {}
            /\ docPoint = Len(replaced) + First(Matches(pattern, unread)) + Len(pattern)

SearchInv == SearchTypes /\ IsearchTrue /\ Divided /\ Asking

LEMMA NoText == <<>> \in SearchTexts /\ Len(<<>>) = 0 /\ <<>> \o <<>> = <<>>
BY EmptySeq, ConcatEmptySeq DEF SearchTexts

LEMMA SearchInitInv == SearchInit => SearchInv
<1> SUFFICES ASSUME SearchInit PROVE SearchInv OBVIOUS
<1>1. doc \in SearchTexts BY SearchAssumption DEF SearchInit, SearchTexts
<1>2. SearchTypes BY <1>1, NoText DEF SearchInit, SearchTypes, InIsearch
<1>3. Divided /\ Asking BY NoText DEF SearchInit, Divided, Asking
<1>4. IsearchTrue BY DEF SearchInit, IsearchTrue, InIsearch
<1> QED BY <1>2, <1>3, <1>4 DEF SearchInv

LEMMA PatternTexts == \A p \in Patterns : p \in SearchTexts /\ p # <<>>
<1> SUFFICES ASSUME NEW p \in Patterns PROVE p \in SearchTexts /\ p # <<>> OBVIOUS
<1>1. PICK n \in 1 .. MAX_PATTERN : p \in [1 .. n -> SearchLetters] BY DEF Patterns
<1>2. n \in Nat \ {0} BY SearchAssumption, <1>1
<1>3. p \in SearchTexts /\ Len(p) = n BY <1>1, <1>2 DEF SearchTexts
<1> QED BY <1>2, <1>3, NoText

LEMMA RoundStep ==
    ASSUME SearchInv, InIsearch, NEW p \in SearchTexts, NEW o \in 0 .. Len(doc), NEW fwd \in BOOLEAN,
           Round(p, o, fwd), lastSearch' \in SearchTexts
    PROVE  SearchInv'
<1>1. /\ pattern' = p /\ cur' = o /\ forward' = fwd
      /\ UNCHANGED <<doc, docMark, docModified, searching, from, oldMark, queryVars, searches>>
  BY DEF Round
<1>2. /\ docPoint' \in 0 .. Len(doc)
      /\ p # <<>> => IF last' THEN /\ SubSeq(doc, match'[1] + 1, match'[2]) = p
                                   /\ docPoint' = IF fwd THEN match'[2] ELSE match'[1]
                     ELSE docPoint' = o
  <2>1. CASE p = <<>> BY <2>1 DEF Round
  <2>2. CASE p # <<>>
    <3>1. last' = Found(p, doc, o, fwd) /\ Searched(p, o, fwd) BY <2>2 DEF Round
    <3>2. doc \in SearchTexts BY DEF SearchInv, SearchTypes
    <3>3. /\ docPoint' \in 0 .. Len(doc)
          /\ IF Found(p, doc, o, fwd)
             THEN /\ SubSeq(doc, match'[1] + 1, match'[2]) = p
                  /\ docPoint' = IF fwd THEN match'[2] ELSE match'[1]
             ELSE docPoint' = o
      BY <3>1, <3>2, SearchedFacts
    <3> QED BY <3>1, <3>3
  <2> QED BY <2>1, <2>2
<1>3. SearchTypes' BY <1>1, <1>2 DEF SearchInv, SearchTypes, InIsearch, queryVars
<1>4. IsearchTrue' BY <1>1, <1>2 DEF IsearchTrue, InIsearch
<1>5. Divided' /\ Asking' BY <1>1 DEF SearchInv, SearchTypes, Divided, Asking, InIsearch, queryVars
<1> QED BY <1>3, <1>4, <1>5 DEF SearchInv

(* A search that is over leaves nothing to be true of.                      *)
LEMMA DoneStep ==
    ASSUME SearchInv, Done, doc' = doc, docPoint' \in 0 .. Len(doc), lastSearch' \in SearchTexts
    PROVE  SearchInv'
<1>1. /\ searching' = "none" /\ pattern' = <<>> /\ forward' = TRUE /\ repl' = <<>>
      /\ replaced' = <<>> /\ unread' = <<>>
  BY DEF Done
<1>2. SearchTypes' BY <1>1, NoText DEF SearchInv, SearchTypes, InIsearch
<1>3. IsearchTrue' BY <1>1 DEF IsearchTrue, InIsearch
<1>4. Divided' /\ Asking' BY <1>1, NoText DEF SearchInv, Divided, Asking
<1> QED BY <1>2, <1>3, <1>4 DEF SearchInv

LEMMA SearchingOnce ==
    ASSUME SearchInv, NEW p \in SearchTexts, NEW fwd \in BOOLEAN, Searched(p, docPoint, fwd), lastSearch' = p,
           searching' = "none", UNCHANGED <<doc, docMark, pattern, isearchVars, queryVars, reread>>
    PROVE  SearchInv'
<1>1. doc \in SearchTexts /\ docPoint \in 0 .. Len(doc) BY DEF SearchInv, SearchTypes
<1>2. docPoint' \in 0 .. Len(doc) BY <1>1, SearchedFacts
<1>3. SearchTypes' BY <1>2 DEF SearchInv, SearchTypes, InIsearch, isearchVars, queryVars
<1>4. IsearchTrue' BY DEF IsearchTrue, InIsearch
<1>5. Divided' /\ Asking' BY DEF SearchInv, Divided, Asking, queryVars
<1> QED BY <1>3, <1>4, <1>5 DEF SearchInv

-----------------------------------------------------------------------------
(* query-replace *)

(* What a step of it leaves is in two parts, and it asks about the second.  *)
LEMMA AskedNext ==
    ASSUME NEW p \in SearchTexts, p # <<>>, NEW a \in SearchTexts, NEW u \in SearchTexts,
           NEW t, t = a \o u, NEW n, n = Len(a), NextMatch(t, n, p),
           doc' = t, replaced' = a, unread' = u, pattern' = p,
           lastSearch' \in SearchTexts, repl' \in SearchTexts, forward' \in BOOLEAN
    PROVE  SearchInv'
<1>1. /\ docPoint' \in 0 .. Len(t)
      /\ \/ searching' = "none"
         \/ /\ searching' = "query" /\ Matches(p, u) # {} /\ Len(p) <= docPoint'
            /\ docPoint' = n + First(Matches(p, u)) + Len(p)
  BY NextMatchFacts
<1>2. t \in SearchTexts BY ConcatProperties DEF SearchTexts
<1>3. SearchTypes' BY <1>1, <1>2 DEF SearchTypes, InIsearch
<1>4. IsearchTrue' BY <1>1 DEF IsearchTrue, InIsearch
<1>5. Divided' BY DEF Divided
<1>6. Asking' BY <1>1 DEF Asking
<1> QED BY <1>3, <1>4, <1>5, <1>6 DEF SearchInv

Halves(t, a, c, n) ==
    /\ t \in SearchTexts /\ Len(t) = n + Len(c) /\ n \in Nat /\ Len(c) \in Nat
    /\ SubSeq(t, 1, n) = a /\ SubSeq(t, n + 1, Len(t)) = c

LEMMA TwoHalves ==
    ASSUME NEW a \in SearchTexts, NEW c \in SearchTexts, NEW t, t = a \o c, NEW n, n = Len(a)
    PROVE  Halves(t, a, c, n)
<1>0. a \in Seq(SearchLetters) /\ c \in Seq(SearchLetters) BY DEF SearchTexts
<1>1. t \in Seq(SearchLetters) /\ Joins(t, a, c) BY ONLY <1>0, t = a \o c, TwoJoined, Zenon
<1>2. /\ Len(t) = n + Len(c) /\ n \in Nat /\ Len(c) \in Nat
      /\ \A i \in 1 .. Len(a) + Len(c) : t[i] = IF i <= Len(a) THEN a[i] ELSE c[i - Len(a)]
  BY <1>0, <1>1 DEF Joins
<1>3. PICK s : s = SubSeq(t, 1, n) OBVIOUS
<1>4. s \in Seq(SearchLetters) /\ Piece(s, t, 0, n)
  <2>1. 0 \in Nat /\ n \in Nat /\ 0 + n <= Len(t) /\ 1 = 0 + 1 /\ n = 0 + n BY <1>2
  <2> QED BY ONLY <1>1, <1>3, <2>1, PieceTaken, Zenon
<1>5. s = a
  <2>1. \A i \in 1 .. n : s[i] = a[i] BY <1>2, <1>4 DEF Piece
  <2>2. Len(s) = Len(a) BY <1>4 DEF Piece
  <2> QED BY <1>0, <1>4, <2>1, <2>2, SeqEqual
<1>6. PICK m : m = n + 1 OBVIOUS
<1>7. PICK l : l = Len(c) OBVIOUS
<1>8. PICK r : r = SubSeq(t, m, Len(t)) OBVIOUS
<1>9. r \in Seq(SearchLetters) /\ Piece(r, t, n, l)
  <2>1. n \in Nat /\ l \in Nat /\ n + l <= Len(t) /\ Len(t) = n + l BY <1>2, <1>7
  <2> QED BY ONLY <1>1, <1>6, <1>8, <2>1, PieceTaken, Zenon
<1>10. r = c
  <2>1. ASSUME NEW i \in 1 .. l PROVE r[i] = c[i]
    <3>1. r[i] = t[n + i] BY <1>9 DEF Piece
    <3>2. n + i \in 1 .. Len(a) + Len(c) /\ ~(n + i <= Len(a)) /\ n + i - Len(a) = i BY <1>2, <1>7
    <3> QED BY <1>2, <3>1, <3>2
  <2>2. Len(r) = Len(c) BY <1>7, <1>9 DEF Piece
  <2> QED BY <1>0, <1>7, <1>9, <2>1, <2>2, SeqEqual
<1> QED BY <1>1, <1>2, <1>3, <1>5, <1>6, <1>8, <1>10 DEF Halves, SearchTexts

Together(r, x, p, w) ==
    /\ r \o ((x \o p) \o w) = ((r \o x) \o p) \o w
    /\ ((r \o x) \o p) \o w = (r \o x) \o (p \o w)
    /\ r \o x \in SearchTexts /\ p \o w \in SearchTexts /\ (r \o x) \o p \in SearchTexts

LEMMA Reassociated ==
    ASSUME NEW r \in SearchTexts, NEW x \in SearchTexts, NEW p \in SearchTexts, NEW w \in SearchTexts
    PROVE  Together(r, x, p, w)
<1>0. \A y \in SearchTexts, z \in SearchTexts : y \o z \in SearchTexts BY ConcatProperties DEF SearchTexts
<1>1. \A y \in SearchTexts, z \in SearchTexts, v \in SearchTexts : (y \o z) \o v = y \o (z \o v)
  BY ConcatAssociative, SMTT(30) DEF SearchTexts
<1>2. /\ x \o p \in SearchTexts /\ r \o x \in SearchTexts /\ p \o w \in SearchTexts
      /\ (r \o x) \o p \in SearchTexts
  BY ONLY <1>0, r \in SearchTexts, x \in SearchTexts, p \in SearchTexts, w \in SearchTexts, Zenon
<1>3. (r \o (x \o p)) \o w = r \o ((x \o p) \o w)
  <2>1. PICK z \in SearchTexts : z = x \o p BY <1>2
  <2>2. (r \o z) \o w = r \o (z \o w) BY <1>1, SMTT(30)
  <2> QED BY <2>1, <2>2
<1>4. (r \o x) \o p = r \o (x \o p)
  BY ONLY <1>1, r \in SearchTexts, x \in SearchTexts, p \in SearchTexts, Zenon
<1>5. ((r \o x) \o p) \o w = (r \o x) \o (p \o w)
  <2>1. PICK z \in SearchTexts : z = r \o x BY <1>2
  <2>2. (z \o p) \o w = z \o (p \o w) BY <1>1, SMTT(30)
  <2> QED BY <2>1, <2>2
<1> QED BY <1>2, <1>3, <1>4, <1>5 DEF Together

(* The text is what comes before a match, the match p, and the rest.        *)
Parted(t, a, p, w, b) ==
    /\ {t, a, w} \subseteq SearchTexts
    /\ b = Len(a) /\ b \in Nat /\ t = (a \o p) \o w /\ b + Len(p) = Len(a \o p)
    /\ SubSeq(t, 1, b) = a /\ SubSeq(t, b + 1, b + Len(p)) = p
    /\ SubSeq(t, b + Len(p) + 1, Len(t)) = w

LEMMA PartedAtMatch ==
    ASSUME NEW p \in SearchTexts, p # <<>>, NEW r \in SearchTexts, NEW u \in SearchTexts,
           NEW k \in Matches(p, u), NEW t, t = r \o u, NEW a, a = r \o SubSeq(u, 1, k),
           NEW w, w = SubSeq(u, k + Len(p) + 1, Len(u)), NEW b, b = Len(r) + k
    PROVE  Parted(t, a, p, w, b)
<1>0. /\ u \in Seq(SearchLetters) /\ p \in Seq(SearchLetters) /\ r \in Seq(SearchLetters)
      /\ Len(p) \in Nat \ {0} /\ Len(r) \in Nat /\ Len(u) \in Nat
  BY DEF SearchTexts
<1>1. k \in Nat /\ k + Len(p) <= Len(u) /\ SubSeq(u, k + 1, k + Len(p)) = p
  BY <1>0, MatchFacts
<1>2. PICK x : x = SubSeq(u, 1, k) OBVIOUS
<1>3. PICK m : m = k + Len(p) OBVIOUS
<1>4. m \in 0 .. Len(u) /\ k \in 0 .. m /\ m \in k .. Len(u)
  BY <1>0, <1>1, <1>3
<1>5. x \o p = SubSeq(u, 1, m)
  <2>1. 1 \in 1 .. Len(u) + 1 /\ k \in 1 - 1 .. Len(u) /\ m \in k .. Len(u) BY <1>0, <1>1, <1>4
  <2>2. SubSeq(u, 1, k) \o SubSeq(u, k + 1, m) = SubSeq(u, 1, m) BY <1>0, <2>1, ConcatAdjacentSubSeq
  <2> QED BY <1>1, <1>2, <1>3, <2>2
<1>6. SubSeq(u, 1, m) \o w = u
  <2>1. 1 \in 1 .. Len(u) + 1 /\ m \in 1 - 1 .. Len(u) /\ Len(u) \in m .. Len(u) BY <1>0, <1>1, <1>4
  <2>2. SubSeq(u, 1, m) \o SubSeq(u, m + 1, Len(u)) = SubSeq(u, 1, Len(u)) BY <1>0, <2>1, ConcatAdjacentSubSeq
  <2>3. SubSeq(u, 1, Len(u)) = u BY <1>0, SubSeqFull
  <2> QED BY <1>3, <2>2, <2>3
<1>7. x \in SearchTexts /\ Len(x) = k
  <2>1. 0 \in Nat /\ k \in Nat /\ 0 + k <= Len(u) /\ 1 = 0 + 1 /\ k = 0 + k BY <1>0, <1>1
  <2>2. x \in Seq(SearchLetters) /\ Piece(x, u, 0, k) BY ONLY <1>0, <1>2, <2>1, PieceTaken, Zenon
  <2> QED BY <2>2 DEF Piece, SearchTexts
<1>8. w \in SearchTexts
  <2>1. PICK i : i = k + Len(p) + 1 OBVIOUS
  <2>2. PICK n : n = Len(u) - m OBVIOUS
  <2>3. m \in Nat /\ n \in Nat /\ m + n <= Len(u) /\ i = m + 1 /\ Len(u) = m + n BY <1>0, <1>3, <1>4, <2>1, <2>2
  <2>4. w = SubSeq(u, i, Len(u)) BY <2>1
  <2>5. w \in Seq(SearchLetters) /\ Piece(w, u, m, n) BY ONLY <1>0, <2>3, <2>4, PieceTaken, Zenon
  <2> QED BY <2>5 DEF SearchTexts
<1>9. PICK q : q = a \o p OBVIOUS
<1>10. /\ t = q \o w /\ q \o w = a \o (p \o w)
       /\ {a, p \o w, q} \subseteq SearchTexts
  <2>1. Together(r, x, p, w)
    BY <1>7, <1>8, Reassociated
  <2> QED BY <1>2, <1>5, <1>6, <1>9, <2>1 DEF Together
<1>11. Len(a) = b
  <2>1. r \in Seq(SearchLetters) /\ x \in Seq(SearchLetters) /\ a = r \o x BY <1>0, <1>2, <1>7 DEF SearchTexts
  <2>2. Len(a) = Len(r) + Len(x) BY <2>1, ConcatProperties
  <2> QED BY <1>7, <2>2
<1>12. Halves(q, a, p, b) BY <1>9, <1>10, <1>11, TwoHalves
<1>13. PICK l : l = Len(q) OBVIOUS
<1>14. Halves(t, q, w, l) BY <1>8, <1>10, <1>13, TwoHalves
<1>15. PICK v \in SearchTexts : v = p \o w BY <1>10
<1>16. Halves(t, a, v, b) BY <1>10, <1>11, <1>15, TwoHalves
<1>17. b \in Nat /\ l = b + Len(p) BY <1>0, <1>1, <1>12, <1>13 DEF Halves
<1>18. SubSeq(t, b + 1, b + Len(p)) = p
  <2>1. PICK n : n = Len(p) OBVIOUS
  <2>2. PICK i : i = b + 1 OBVIOUS
  <2>3. PICK j : j = b + n OBVIOUS
  <2>4. PICK c : c = SubSeq(t, i, j) OBVIOUS
  <2>5. PICK d : d = SubSeq(q, i, j) OBVIOUS
  <2>6. b \in Nat /\ n \in Nat /\ b + n <= Len(q) /\ b + n <= Len(t) /\ Len(q) = j
    <3>1. Len(t) = l + Len(w) /\ Len(w) \in Nat /\ l \in Nat BY <1>14 DEF Halves
    <3>2. b \in Nat /\ n \in Nat /\ l = b + n /\ Len(q) = l BY <1>0, <1>13, <1>17, <2>1
    <3> QED BY ONLY <2>3, <3>1, <3>2
  <2>7. q \in Seq(SearchLetters) /\ w \in Seq(SearchLetters) /\ t \in Seq(SearchLetters)
    BY <1>8, <1>10, <1>14 DEF SearchTexts, Halves
  <2>8. c \in Seq(SearchLetters) /\ Piece(c, t, b, n) BY ONLY <2>2, <2>3, <2>4, <2>6, <2>7, PieceTaken, Zenon
  <2>9. d \in Seq(SearchLetters) /\ Piece(d, q, b, n) BY ONLY <2>2, <2>3, <2>5, <2>6, <2>7, PieceTaken, Zenon
  <2>10. \A k1 \in 1 .. Len(q) : t[k1] = q[k1]
    <3>1. t = q \o w BY <1>10
    <3>2. t \in Seq(SearchLetters) /\ Joins(t, q, w) BY ONLY <2>7, <3>1, TwoJoined, Zenon
    <3>3. Len(q) \in Nat /\ Len(w) \in Nat BY <2>7
    <3>4. \A k1 \in 1 .. Len(q) + Len(w) : t[k1] = IF k1 <= Len(q) THEN q[k1] ELSE w[k1 - Len(q)]
      BY <3>2 DEF Joins
    <3>5. \A k1 \in 1 .. Len(q) : k1 \in 1 .. Len(q) + Len(w) /\ k1 <= Len(q) BY ONLY <3>3
    <3> QED BY ONLY <3>4, <3>5
  <2>11. ASSUME NEW k1 \in 1 .. n PROVE c[k1] = d[k1]
    <3>1. b + k1 \in 1 .. Len(q) BY <2>6, SMTT(30)
    <3> QED BY <2>8, <2>9, <2>10, <3>1 DEF Piece
  <2>12. Len(c) = n /\ Len(d) = n BY <2>8, <2>9 DEF Piece
  <2>13. c = d BY <2>8, <2>9, <2>11, <2>12, SeqEqual
  <2>14. SubSeq(q, b + 1, Len(q)) = p BY <1>12 DEF Halves
  <2> QED BY <2>1, <2>2, <2>3, <2>4, <2>5, <2>6, <2>13, <2>14
<1>19. SubSeq(t, 1, b) = a BY <1>16 DEF Halves
<1>20. SubSeq(t, b + Len(p) + 1, Len(t)) = w BY <1>14, <1>17 DEF Halves
<1>21. t \in SearchTexts BY <1>14 DEF Halves
<1> QED BY <1>8, <1>9, <1>10, <1>11, <1>13, <1>17, <1>18, <1>19, <1>20, <1>21 DEF Parted

(* Any text is what comes before n of its letters, those, and the rest.     *)
InThree(t, b, n) ==
    \E a, p, w : /\ a = SubSeq(t, 1, b) /\ p = SubSeq(t, b + 1, b + n) /\ w = SubSeq(t, b + n + 1, Len(t))
                 /\ Parted(t, a, p, w, b) /\ p \in SearchTexts /\ Len(p) = n

LEMMA PartedAnywhere ==
    ASSUME NEW t \in SearchTexts, NEW b \in Nat, NEW n \in Nat, b + n <= Len(t)
    PROVE  InThree(t, b, n)
<1>a. PICK a : a = SubSeq(t, 1, b) OBVIOUS
<1>b. PICK p : p = SubSeq(t, b + 1, b + n) OBVIOUS
<1>c. PICK w : w = SubSeq(t, b + n + 1, Len(t)) OBVIOUS
<1>0. t \in Seq(SearchLetters) /\ Len(t) \in Nat BY DEF SearchTexts
<1>1. PICK m : m = b + n OBVIOUS
<1>2. PICK l : l = Len(t) - m OBVIOUS
<1>3. /\ m \in Nat /\ l \in Nat /\ m + l <= Len(t) /\ Len(t) = m + l
      /\ b + n <= Len(t) /\ 0 + b <= Len(t) /\ 0 \in Nat /\ 1 = 0 + 1 /\ b = 0 + b
  BY <1>0, <1>1, <1>2
<1>4. a \in SearchTexts /\ Len(a) = b
  <2>1. a \in Seq(SearchLetters) /\ Piece(a, t, 0, b) BY ONLY <1>0, <1>3, <1>a, b \in Nat, PieceTaken, Zenon
  <2> QED BY <2>1 DEF Piece, SearchTexts
<1>5. p \in SearchTexts /\ Len(p) = n
  <2>1. PICK i : i = b + 1 OBVIOUS
  <2>2. p = SubSeq(t, i, m) BY <1>1, <1>b, <2>1
  <2>3. p \in Seq(SearchLetters) /\ Piece(p, t, b, n)
    BY ONLY <1>0, <1>1, <1>3, <2>1, <2>2, b \in Nat, n \in Nat, PieceTaken, Zenon
  <2> QED BY <2>3 DEF Piece, SearchTexts
<1>6. w \in SearchTexts
  <2>1. PICK i : i = m + 1 OBVIOUS
  <2>2. w = SubSeq(t, i, Len(t)) BY <1>1, <1>c, <2>1
  <2>3. w \in Seq(SearchLetters) /\ Piece(w, t, m, l) BY ONLY <1>0, <1>3, <2>1, <2>2, PieceTaken, Zenon
  <2> QED BY <2>3 DEF SearchTexts
<1>7. a \o p = SubSeq(t, 1, m)
  <2>1. 1 \in 1 .. Len(t) + 1 /\ b \in 1 - 1 .. Len(t) /\ m \in b .. Len(t) BY <1>0, <1>1, <1>3
  <2>2. SubSeq(t, 1, b) \o SubSeq(t, b + 1, m) = SubSeq(t, 1, m) BY <1>0, <2>1, ConcatAdjacentSubSeq, SMTT(30)
  <2> QED BY <1>1, <1>a, <1>b, <2>2
<1>8. (a \o p) \o w = t
  <2>1. 1 \in 1 .. Len(t) + 1 /\ m \in 1 - 1 .. Len(t) /\ Len(t) \in m .. Len(t) BY <1>0, <1>3
  <2>2. SubSeq(t, 1, m) \o SubSeq(t, m + 1, Len(t)) = SubSeq(t, 1, Len(t)) BY <1>0, <2>1, ConcatAdjacentSubSeq
  <2>3. SubSeq(t, 1, Len(t)) = t BY <1>0, SubSeqFull
  <2> QED BY <1>1, <1>c, <1>7, <2>2, <2>3
<1>9. b + Len(p) = Len(a \o p)
  <2>1. a \in Seq(SearchLetters) /\ p \in Seq(SearchLetters) BY <1>4, <1>5 DEF SearchTexts
  <2>2. Len(a \o p) = Len(a) + Len(p) BY <2>1, ConcatProperties
  <2> QED BY <1>4, <2>2
<1>10. SubSeq(t, b + 1, b + Len(p)) = p /\ SubSeq(t, b + Len(p) + 1, Len(t)) = w BY <1>a, <1>b, <1>c, <1>5
<1>12. SubSeq(t, 1, b) = a BY <1>a
<1>11. {t, a, w} \subseteq SearchTexts BY <1>4, <1>6
<1>13. Parted(t, a, p, w, b) BY <1>4, <1>8, <1>9, <1>10, <1>11, <1>12 DEF Parted
<1> QED BY <1>a, <1>b, <1>c, <1>5, <1>13 DEF InThree

(* Where query-replace stands: after m, which it is to replace, and which   *)
(* is a match unless the file was read again.                               *)
Stands(a, m, w, b) ==
    /\ Parted(doc, a, m, w, b) /\ m \in SearchTexts /\ Len(m) = Len(pattern)
    /\ Begin = b /\ docPoint = b + Len(pattern)
    /\ a = Passed /\ w = Rest
    /\ reread \/ m = pattern

LEMMA StandsInText == SearchInv /\ searching = "query" => \E a, m, w, b : Stands(a, m, w, b)
<1> SUFFICES ASSUME SearchInv, searching = "query" PROVE \E a, m, w, b : Stands(a, m, w, b) OBVIOUS
<1>1. /\ pattern \in SearchTexts /\ replaced \in SearchTexts /\ unread \in SearchTexts
      /\ doc \in SearchTexts /\ docPoint \in 0 .. Len(doc)
      /\ pattern # <<>> /\ Len(pattern) <= docPoint
  BY DEF SearchInv, SearchTypes
<1>2. Len(pattern) \in Nat /\ Len(doc) \in Nat BY <1>1 DEF SearchTexts
<1>3. CASE reread
  <2>1. PICK b : b = Begin OBVIOUS
  <2>2. PICK n : n = Len(pattern) OBVIOUS
  <2>3. /\ b \in Nat /\ n \in Nat /\ b + n <= Len(doc) /\ docPoint = b + n
    BY <1>1, <1>2, <2>1, <2>2 DEF Begin
  <2>4. PICK t \in SearchTexts : t = doc BY <1>1
  <2>5. b \in Nat /\ n \in Nat /\ b + n <= Len(t) BY <2>3, <2>4
  <2>6. InThree(t, b, n) BY ONLY t \in SearchTexts, <2>5, PartedAnywhere
  <2>7. PICK a, m, w :
          /\ a = SubSeq(doc, 1, b) /\ m = SubSeq(doc, b + 1, b + n) /\ w = SubSeq(doc, b + n + 1, Len(doc))
          /\ Parted(doc, a, m, w, b) /\ m \in SearchTexts /\ Len(m) = n
    BY <2>4, <2>6 DEF InThree
  <2>9. a = Passed /\ w = Rest BY <1>3, <2>1, <2>3, <2>7 DEF Passed, Rest
  <2> QED BY <1>3, <2>1, <2>2, <2>3, <2>7, <2>9 DEF Stands
<1>4. CASE ~reread
  <2>0. /\ doc = replaced \o unread /\ Matches(pattern, unread) # {}
        /\ docPoint = Len(replaced) + First(Matches(pattern, unread)) + Len(pattern)
    BY <1>4 DEF SearchInv, Asking
  <2>1. Matches(pattern, unread) \subseteq Nat BY <1>1, MatchFacts
  <2>2. PICK k : k = First(Matches(pattern, unread)) OBVIOUS
  <2>3. k \in Matches(pattern, unread) BY <2>0, <2>1, <2>2, FirstIsLeast
  <2>4. NextUnread = k BY <2>0, <2>2 DEF NextUnread
  <2>5. PICK a : a = replaced \o SubSeq(unread, 1, k) OBVIOUS
  <2>6. PICK w : w = SubSeq(unread, k + Len(pattern) + 1, Len(unread)) OBVIOUS
  <2>7. PICK b : b = Len(replaced) + k OBVIOUS
  <2>8. Parted(doc, a, pattern, w, b)
    <3>1. PICK p \in SearchTexts : p = pattern BY <1>1
    <3>2. PICK r \in SearchTexts : r = replaced BY <1>1
    <3>3. PICK u \in SearchTexts : u = unread BY <1>1
    <3>4. PICK t : t = doc OBVIOUS
    <3>5. Parted(t, a, p, w, b) BY <1>1, <2>0, <2>3, <2>5, <2>6, <2>7, <3>1, <3>2, <3>3, <3>4, PartedAtMatch
    <3> QED BY <3>1, <3>4, <3>5
  <2>9. b \in Nat BY <2>8 DEF Parted
  <2>10. docPoint = b + Len(pattern) BY <2>0, <2>2, <2>7
  <2>11. Begin = b BY <1>2, <2>9, <2>10 DEF Begin
  <2>12. a = Passed /\ w = Rest BY <1>4, <2>4, <2>5, <2>6 DEF Passed, Rest
  <2> QED BY <1>1, <2>8, <2>10, <2>11, <2>12 DEF Stands
<1> QED BY <1>3, <1>4

LEMMA SearchInvTrue == SearchInv => SearchesTrue
<1> SUFFICES ASSUME SearchInv PROVE SearchesTrue OBVIOUS
<1>1. IsearchTrue /\ PlacesInText BY DEF SearchInv, SearchTypes, PlacesInText
<1>2. ASSUME ~reread PROVE unread \o replaced # <<>> => doc = replaced \o unread
  BY <1>2 DEF SearchInv, Divided
<1>3. ASSUME ~reread, searching = "query"
      PROVE  /\ docPoint = Len(replaced) + NextUnread + Len(pattern)
             /\ SubSeq(doc, Begin + 1, docPoint) = pattern
  <2>1. docPoint = Len(replaced) + NextUnread + Len(pattern) BY <1>3 DEF SearchInv, Asking, NextUnread
  <2>2. PICK a, m, w, b : Stands(a, m, w, b) BY <1>3, StandsInText
  <2>3. m = pattern /\ Begin = b /\ docPoint = b + Len(pattern) BY <1>3, <2>2 DEF Stands
  <2>4. SubSeq(doc, b + 1, b + Len(m)) = m BY <2>2 DEF Stands, Parted
  <2> QED BY <2>1, <2>3, <2>4
<1> QED BY <1>1, <1>2, <1>3 DEF SearchesTrue, QueryInStep

LEMMA ReplaceStep ==
    ASSUME SearchInv, searching = "query", NEW goes \in BOOLEAN, Replace(goes)
    PROVE  SearchInv'
<1>1. /\ {doc, pattern, lastSearch, repl, replaced, unread} \subseteq SearchTexts /\ forward \in BOOLEAN
      /\ pattern # <<>>
  BY DEF SearchInv, SearchTypes
<1>2. PICK a, m, w, b : Stands(a, m, w, b) BY StandsInText
<1>3. /\ {doc, a, w} \subseteq SearchTexts
      /\ b = Len(a) /\ b \in Nat
      /\ SubSeq(doc, 1, b) = a
      /\ SubSeq(doc, b + Len(pattern) + 1, Len(doc)) = w
      /\ Begin = b /\ docPoint = b + Len(pattern)
      /\ a = Passed /\ w = Rest
  BY <1>2 DEF Stands, Parted
<1>4. PICK z : z = a \o repl OBVIOUS
<1>5. PICK t : t = z \o w OBVIOUS
<1>6. PICK n : n = b + Len(repl) OBVIOUS
<1>7. z \in SearchTexts /\ Len(z) = n /\ t \in SearchTexts /\ n \in 0 .. Len(t)
  <2>1. z \in Seq(SearchLetters) /\ Len(z) = Len(a) + Len(repl) BY <1>1, <1>3, <1>4, ConcatProperties DEF SearchTexts
  <2>2. t \in Seq(SearchLetters) /\ Len(t) = Len(z) + Len(w) BY <1>3, <1>5, <2>1, ConcatProperties DEF SearchTexts
  <2>3. w \in Seq(SearchLetters) /\ repl \in Seq(SearchLetters) BY <1>1, <1>3 DEF SearchTexts
  <2>4. Len(w) \in Nat /\ Len(repl) \in Nat BY ONLY <2>3
  <2>5. Len(z) = n BY <1>3, <1>6, <2>1
  <2>6. n \in 0 .. Len(t)
    <3>1. b \in Nat BY <1>3
    <3> QED BY ONLY <3>1, <1>6, <2>2, <2>4, <2>5
  <2> QED BY <2>1, <2>2, <2>5, <2>6 DEF SearchTexts
<1>8. ReplacedDoc = t BY <1>3, <1>4, <1>5 DEF ReplacedDoc
<1>9. /\ doc' = t /\ replaced' = z /\ unread' = w
      /\ pattern' = pattern /\ repl' = repl /\ lastSearch' = lastSearch /\ forward' = forward
  BY <1>1, <1>3, <1>4, <1>8 DEF Replace, Through, isearchVars
<1>10. PointAfter(Begin, Len(repl)) = n BY <1>3, <1>6 DEF PointAfter
<1>11. CASE goes
  <2>1. NextMatch(t, n, pattern) BY <1>8, <1>10, <1>11 DEF Replace
  <2>2. PICK p \in SearchTexts : p = pattern BY <1>1
  <2>3. NextMatch(t, n, p) BY <2>1, <2>2
  <2>4. pattern' = p /\ p # <<>> BY <1>1, <1>9, <2>2
  <2> QED BY <1>1, <1>3, <1>5, <1>7, <1>9, <2>3, <2>4, AskedNext
<1>12. CASE ~goes
  <2>1. searching' = "none" /\ docPoint' = n BY <1>10, <1>12 DEF Replace
  <2>2. SearchTypes' BY <1>1, <1>3, <1>7, <1>9, <2>1 DEF SearchTypes, InIsearch
  <2>3. IsearchTrue' BY <2>1 DEF IsearchTrue, InIsearch
  <2>4. Divided' /\ Asking' BY <1>5, <1>9, <2>1 DEF Divided, Asking
  <2> QED BY <1>9, <2>2, <2>3, <2>4 DEF SearchInv
<1> QED BY <1>11, <1>12

LEMMA NoStep == ASSUME SearchInv, No PROVE SearchInv'
<1>1. /\ {doc, pattern, lastSearch, repl, replaced, unread} \subseteq SearchTexts /\ forward \in BOOLEAN
      /\ pattern # <<>>
  BY DEF SearchInv, SearchTypes, No, InQuery
<1>2. PICK a, m, w, b : Stands(a, m, w, b) BY StandsInText DEF No, InQuery
<1>3. /\ {doc, a, w, m} \subseteq SearchTexts
      /\ b = Len(a) /\ b \in Nat /\ doc = (a \o m) \o w /\ b + Len(pattern) = Len(a \o m)
      /\ SubSeq(doc, b + 1, b + Len(pattern)) = m
      /\ Begin = b /\ docPoint = b + Len(pattern)
      /\ a = Passed /\ w = Rest
  BY <1>2 DEF Stands, Parted
<1>4. PICK z : z = a \o m OBVIOUS
<1>5. z \in SearchTexts BY <1>3, <1>4, ConcatProperties DEF SearchTexts
<1>6. /\ doc' = doc /\ replaced' = z /\ unread' = w
      /\ pattern' = pattern /\ repl' = repl /\ lastSearch' = lastSearch /\ forward' = forward
  BY <1>1, <1>3, <1>4 DEF No, Through, isearchVars
<1>7. PICK t : t = doc OBVIOUS
<1>8. PICK n : n = docPoint OBVIOUS
<1>9. PICK p \in SearchTexts : p = pattern BY <1>1
<1>10. NextMatch(t, n, p) BY <1>7, <1>8, <1>9 DEF No
<1>11. t = z \o w /\ n = Len(z) /\ doc' = t BY <1>3, <1>4, <1>6, <1>7, <1>8
<1>12. pattern' = p /\ p # <<>> BY <1>1, <1>6, <1>9
<1> QED BY <1>1, <1>3, <1>5, <1>6, <1>10, <1>11, <1>12, AskedNext

LEMMA QueryStep == ASSUME SearchInv, QueryReplace PROVE SearchInv'
<1>1. /\ {doc, lastSearch} \subseteq SearchTexts /\ docPoint \in 0 .. Len(doc)
      /\ forward \in BOOLEAN
  BY DEF SearchInv, SearchTypes
<1>2. PICK p \in Patterns, r \in Replacements :
        /\ NextMatch(doc, docPoint, p)
        /\ pattern' = p /\ repl' = r /\ noask' = FALSE
        /\ replaced' = SubSeq(doc, 1, docPoint)
        /\ unread' = SubSeq(doc, docPoint + 1, Len(doc))
        /\ UNCHANGED <<doc, docMark, docModified, isearchVars, lastSearch>>
  BY DEF QueryReplace
<1>3. p \in SearchTexts /\ p # <<>> /\ r \in SearchTexts
  BY SearchAssumption, PatternTexts DEF SearchTexts
<1>4. PICK t \in SearchTexts : t = doc BY <1>1
<1>5. PICK n \in 0 .. Len(t) : n = docPoint BY <1>1, <1>4
<1>6. t \in Seq(SearchLetters) /\ Len(t) \in Nat /\ n \in Nat BY DEF SearchTexts
<1>7. PICK a : a = SubSeq(t, 1, n) OBVIOUS
<1>8. PICK u : u = SubSeq(t, n + 1, Len(t)) OBVIOUS
<1>9. a \in SearchTexts /\ Len(a) = n
  <2>1. 0 \in Nat /\ 0 + n <= Len(t) /\ 1 = 0 + 1 /\ n = 0 + n BY <1>6
  <2>2. a \in Seq(SearchLetters) /\ Piece(a, t, 0, n) BY ONLY <1>6, <1>7, <2>1, PieceTaken, Zenon
  <2> QED BY <2>2 DEF Piece, SearchTexts
<1>10. u \in SearchTexts
  <2>1. PICK i : i = n + 1 OBVIOUS
  <2>2. PICK m : m = Len(t) - n OBVIOUS
  <2>3. m \in Nat /\ n + m <= Len(t) /\ Len(t) = n + m BY <1>6, <2>2
  <2>4. u = SubSeq(t, i, Len(t)) BY <1>8, <2>1
  <2>5. u \in Seq(SearchLetters) /\ Piece(u, t, n, m) BY ONLY <1>6, <2>1, <2>3, <2>4, PieceTaken, ZenonT(40)
  <2> QED BY <2>5 DEF SearchTexts
<1>11. t = a \o u
  <2>1. 1 \in 1 .. Len(t) + 1 /\ n \in 1 - 1 .. Len(t) /\ Len(t) \in n .. Len(t) BY <1>6
  <2>2. SubSeq(t, 1, n) \o SubSeq(t, n + 1, Len(t)) = SubSeq(t, 1, Len(t)) BY <1>6, <2>1, ConcatAdjacentSubSeq
  <2>3. SubSeq(t, 1, Len(t)) = t BY <1>6, SubSeqFull
  <2> QED BY <1>7, <1>8, <2>2, <2>3
<1>12. NextMatch(t, n, p) /\ doc' = t /\ replaced' = a /\ unread' = u /\ pattern' = p
       /\ lastSearch' = lastSearch /\ repl' = r /\ forward' = forward
  BY <1>1, <1>2, <1>4, <1>5, <1>7, <1>8 DEF isearchVars
<1> QED BY <1>1, <1>3, <1>9, <1>10, <1>11, <1>12, AskedNext

-----------------------------------------------------------------------------
(* A file that is read again leaves point in the text, and the places of    *)
(* the search that goes on.                                                 *)
LEMMA RereadStep == ASSUME SearchInv, ~SHRINKS, Reread PROVE SearchInv'
<1>1. PICK t \in FileTexts :
        /\ IF searching = "none" THEN ~Over ELSE Reaches(t)
        /\ doc' = t /\ docPoint' = OffsetIn(docPoint, t)
        /\ reread' = (searching # "none")
        /\ UNCHANGED <<searching, pattern, forward, from, cur, last, match, lastSearch, queryVars>>
  BY DEF Reread
<1>2. /\ {doc, pattern, lastSearch, repl, replaced, unread} \subseteq SearchTexts
      /\ docPoint \in 0 .. Len(doc) /\ forward \in BOOLEAN
      /\ InIsearch => {from, cur} \subseteq 0 .. Len(doc) /\ unread \o replaced = <<>>
      /\ searching = "query" => pattern # <<>>
  BY DEF SearchInv, SearchTypes
<1>3. t \in SearchTexts BY SearchAssumption DEF SearchTexts
<1>4. Len(t) \in Nat /\ Len(doc) \in Nat BY <1>2, <1>3 DEF SearchTexts
<1>5. PICK m : m = docPoint OBVIOUS
<1>6. PICK p : p = Agree(doc, t) OBVIOUS
<1>7. p \in 0 .. Len(doc) /\ p <= Len(t)
  <2>1. PICK S : S = {n \in 0 .. Len(doc) : n <= Len(t) /\ SubSeq(doc, 1, n) = SubSeq(t, 1, n)} OBVIOUS
  <2>2. 0 \in S
    <3>1. SubSeq(doc, 1, 0) = <<>> /\ SubSeq(t, 1, 0) = <<>> BY SubSeqEmpty
    <3> QED BY <1>4, <2>1, <3>1
  <2>3. S \subseteq 0 .. Len(doc) /\ S # {} BY <2>1, <2>2
  <2>4. p = Final(S) BY <1>6, <2>1 DEF Agree
  <2>5. p \in S BY ONLY <1>4, <2>3, <2>4, FinalIsGreatest
  <2> QED BY <2>1, <2>5
<1>8. docPoint' \in 0 .. Len(t)
  <2>2. m \in 0 .. Len(doc) BY <1>2, <1>5
  <2>1. docPoint' = IF m <= p THEN m
                    ELSE IF m + Len(t) < Len(doc) THEN Len(t)
                    ELSE IF m + Len(t) < p + Len(doc) THEN p ELSE m + Len(t) - Len(doc)
    <3>1. docPoint' = OffsetIn(m, t) BY <1>1, <1>5
    <3>2. OffsetIn(m, t) = IF m <= p THEN m
                           ELSE IF m + Len(t) < Len(doc) THEN Len(t)
                           ELSE IF m + Len(t) < p + Len(doc) THEN p ELSE m + Len(t) - Len(doc)
      BY ONLY <1>4, <1>6, <1>7, <2>2, SMT DEF OffsetIn
    <3> QED BY ONLY <3>1, <3>2
  <2> QED BY <1>4, <1>7, <2>1, <2>2
<1>9. /\ InIsearch' => {from', cur'} \subseteq 0 .. Len(t) /\ unread' \o replaced' = <<>>
      /\ searching' = "query" => pattern' # <<>> /\ Len(pattern') <= docPoint'
  <2>1. ASSUME InIsearch PROVE {from, cur} \subseteq 0 .. Len(t)
    <3>1. {from, cur} \subseteq 0 .. Len(doc) BY <1>2, <2>1
    <3>2. from <= Len(t) /\ cur <= Len(t) BY <1>1, <2>1 DEF InIsearch, Reaches
    <3> QED BY <1>4, <3>1, <3>2
  <2>2. ASSUME searching = "query" PROVE Len(pattern) <= docPoint'
    <3>1. OffsetIn(docPoint, t) >= Len(pattern) BY <1>1, <2>2 DEF Reaches
    <3>2. docPoint' >= Len(pattern) BY <1>1, <3>1
    <3>3. docPoint' \in Int BY <1>4, <1>8
    <3>4. pattern \in Seq(SearchLetters) BY <1>2 DEF SearchTexts
    <3>5. Len(pattern) \in Nat BY <3>4
    <3> QED BY ONLY <3>2, <3>3, <3>5
  <2> QED BY <1>1, <1>2, <2>1, <2>2 DEF InIsearch, queryVars
<1>10. SearchTypes' BY <1>1, <1>2, <1>3, <1>8, <1>9 DEF SearchTypes, queryVars
<1>11. IsearchTrue' BY <1>1 DEF IsearchTrue, InIsearch
<1>12. Divided' /\ Asking' BY <1>1, <1>2 DEF Divided, Asking, Over, queryVars
<1> QED BY <1>10, <1>11, <1>12 DEF SearchInv

LEMMA SearchStep == ASSUME ~SHRINKS PROVE SearchInv /\ [SearchNext]_searchVars => SearchInv'
<1> SUFFICES ASSUME SearchInv, [SearchNext]_searchVars PROVE SearchInv' OBVIOUS
<1>0. /\ {doc, pattern, lastSearch, repl, replaced, unread} \subseteq SearchTexts
      /\ docPoint \in 0 .. Len(doc) /\ forward \in BOOLEAN
      /\ InIsearch => {from, cur} \subseteq 0 .. Len(doc)
  BY DEF SearchInv, SearchTypes
<1>1. CASE SearchOnce
  <2>1. PICK p \in Patterns, fwd \in BOOLEAN :
          searching = "none" /\ Search(p, fwd) /\ UNCHANGED <<searching, pattern>>
    BY <1>1 DEF SearchOnce, Begins
  <2>2. p \in SearchTexts BY PatternTexts
  <2>3. /\ Searched(p, docPoint, fwd) /\ lastSearch' = p /\ searching' = "none"
        /\ UNCHANGED <<doc, docMark, pattern, isearchVars, queryVars, reread>>
    BY <2>1 DEF Search
  <2> QED BY <2>2, <2>3, SearchingOnce
<1>2. CASE Isearch
  <2>1. PICK fwd \in BOOLEAN :
          /\ unread \o replaced = <<>>
          /\ searching' = "isearch" /\ pattern' = <<>>
          /\ forward' = fwd /\ from' = docPoint /\ cur' = docPoint
          /\ UNCHANGED <<docVars, match, lastSearch, queryVars>>
    BY <1>2 DEF Isearch, Begins, Over
  <2>2. SearchTypes' BY <1>0, <2>1, NoText DEF SearchTypes, InIsearch, docVars, queryVars
  <2>3. IsearchTrue' BY <2>1 DEF IsearchTrue
  <2>4. Divided' /\ Asking' BY <1>0, <2>1 DEF SearchInv, Divided, Asking, docVars, queryVars
  <2> QED BY <2>2, <2>3, <2>4 DEF SearchInv
<1>3. CASE Add
  <2>1. PICK c \in SearchLetters : InIsearch /\ Round(Append(pattern, c), cur, forward) /\ lastSearch' = lastSearch
    BY <1>3 DEF Add
  <2>2. PICK p : p = Append(pattern, c) OBVIOUS
  <2>3. p \in SearchTexts BY <1>0, <2>2 DEF SearchTexts
  <2>4. PICK o \in 0 .. Len(doc) : o = cur BY <1>0, <2>1
  <2>5. PICK fwd \in BOOLEAN : fwd = forward BY <1>0
  <2>6. Round(p, o, fwd) BY <2>1, <2>2, <2>4, <2>5
  <2> QED BY <1>0, <2>1, <2>3, <2>6, RoundStep
<1>4. CASE Backspace
  <2>1. InIsearch /\ pattern # <<>> /\ Round(Front(pattern), from, forward) /\ lastSearch' = lastSearch
    BY <1>4 DEF Backspace
  <2>2. PICK p : p = Front(pattern) OBVIOUS
  <2>3. p \in SearchTexts
    <3>1. PICK q \in Seq(SearchLetters) : q = pattern BY <1>0 DEF SearchTexts
    <3>2. PICK n : n = Len(q) - 1 OBVIOUS
    <3>3. Len(q) \in Nat /\ Len(q) # 0 BY <2>1, <3>1
    <3>4. 0 \in Nat /\ n \in Nat /\ 0 + n <= Len(q) /\ 1 = 0 + 1 /\ n = 0 + n BY <3>2, <3>3
    <3>5. p = SubSeq(q, 1, n) BY <2>2, <3>1, <3>2 DEF Front
    <3>6. p \in Seq(SearchLetters) /\ Piece(p, q, 0, n) BY ONLY q \in Seq(SearchLetters), <3>4, <3>5, PieceTaken, Zenon
    <3> QED BY <3>6 DEF SearchTexts
  <2>4. PICK o \in 0 .. Len(doc) : o = from BY <1>0, <2>1
  <2>5. PICK fwd \in BOOLEAN : fwd = forward BY <1>0
  <2>6. Round(p, o, fwd) BY <2>1, <2>2, <2>4, <2>5
  <2> QED BY <1>0, <2>1, <2>3, <2>6, RoundStep
<1>5. CASE Repeat
  <2>1. PICK fwd \in BOOLEAN :
          /\ InIsearch
          /\ \/ pattern # <<>> /\ Round(pattern, docPoint, fwd) /\ lastSearch' = pattern
             \/ pattern = <<>> /\ Round(lastSearch, cur, fwd) /\ UNCHANGED lastSearch
    BY <1>5 DEF Repeat
  <2>2. CASE Round(pattern, docPoint, fwd) /\ lastSearch' = pattern
    <3>1. PICK p \in SearchTexts : p = pattern BY <1>0
    <3>2. PICK o \in 0 .. Len(doc) : o = docPoint BY <1>0
    <3>3. Round(p, o, fwd) /\ lastSearch' \in SearchTexts BY <2>2, <3>1, <3>2
    <3> QED BY <2>1, <3>3, RoundStep
  <2>3. CASE Round(lastSearch, cur, fwd) /\ UNCHANGED lastSearch
    <3>1. PICK p \in SearchTexts : p = lastSearch BY <1>0
    <3>2. PICK o \in 0 .. Len(doc) : o = cur BY <1>0, <2>1
    <3>3. Round(p, o, fwd) /\ lastSearch' \in SearchTexts BY <2>3, <3>1, <3>2
    <3> QED BY <2>1, <3>3, RoundStep
  <2> QED BY <2>1, <2>2, <2>3
<1>6. CASE Abort
  <2>1. InIsearch /\ docPoint' = from /\ Done /\ doc' = doc /\ lastSearch' = lastSearch BY <1>6 DEF Abort
  <2>2. docPoint' \in 0 .. Len(doc) /\ lastSearch' \in SearchTexts BY <1>0, <2>1
  <2> QED BY <2>1, <2>2, DoneStep
<1>7. CASE Exit
  <2>1. /\ Done /\ doc' = doc /\ docPoint' = docPoint
        /\ lastSearch' = (IF pattern # <<>> THEN pattern ELSE lastSearch)
    BY <1>7 DEF Exit
  <2>2. docPoint' \in 0 .. Len(doc) /\ lastSearch' \in SearchTexts BY <1>0, <2>1
  <2> QED BY <2>1, <2>2, DoneStep
<1>8. CASE ExitToSearch
  <2>1. PICK p \in Patterns :
          /\ lastSearch' = p /\ Searched(p, docPoint, forward) /\ searching' = "none"
          /\ UNCHANGED <<doc, docMark, docModified, pattern, isearchVars, queryVars, reread, searches>>
    BY <1>8 DEF ExitToSearch
  <2>2. p \in SearchTexts BY PatternTexts
  <2>3. PICK fwd \in BOOLEAN : fwd = forward BY <1>0
  <2>4. Searched(p, docPoint, fwd) BY <2>1, <2>3
  <2> QED BY <2>1, <2>2, <2>4, SearchingOnce
<1>9. CASE QueryReplace BY <1>9, QueryStep
<1>10. CASE Yes \/ All \/ Only
  <2>1. searching = "query" BY <1>10 DEF Yes, All, Only, InQuery
  <2>2. Replace(TRUE) \/ Replace(FALSE) BY <1>10 DEF Yes, All, Only
  <2>3. PICK goes \in BOOLEAN : Replace(goes) BY <2>2
  <2> QED BY <2>1, <2>3, ReplaceStep
<1>11. CASE No BY <1>11, NoStep
<1>12. CASE Quit
  <2>1. /\ searching' = "none"
        /\ UNCHANGED <<docVars, pattern, isearchVars, queryVars, reread, lastSearch, searches>>
    BY <1>12 DEF Quit
  <2>2. SearchTypes' BY <1>0, <2>1 DEF SearchTypes, InIsearch, docVars, queryVars, isearchVars
  <2>3. IsearchTrue' BY <2>1 DEF IsearchTrue, InIsearch
  <2>4. Divided' /\ Asking' BY <1>0, <2>1 DEF SearchInv, Divided, Asking, docVars, queryVars
  <2> QED BY <2>2, <2>3, <2>4 DEF SearchInv
<1>13. CASE Leave
  <2>1. Done /\ doc' = doc /\ docPoint' = docPoint /\ lastSearch' = lastSearch BY <1>13 DEF Leave, docVars
  <2>2. docPoint' \in 0 .. Len(doc) /\ lastSearch' \in SearchTexts BY <1>0, <2>1
  <2> QED BY <2>1, <2>2, DoneStep
<1>14. CASE Reread BY <1>14, RereadStep
<1>15. CASE Unmodify \/ UNCHANGED searchVars
  <2>1. UNCHANGED <<doc, docPoint, searching, pattern, forward, from, cur, last, match, lastSearch,
                    repl, replaced, unread, reread>>
    BY <1>15 DEF Unmodify, searchVars, docVars, isearchVars, queryVars
  <2>2. SearchTypes' BY <2>1 DEF SearchInv, SearchTypes, InIsearch
  <2>3. IsearchTrue' BY <2>1 DEF SearchInv, IsearchTrue, InIsearch
  <2>4. Divided' /\ Asking' BY <2>1 DEF SearchInv, Divided, Asking
  <2> QED BY <2>2, <2>3, <2>4 DEF SearchInv
<1> QED
  BY <1>1, <1>2, <1>3, <1>4, <1>5, <1>6, <1>7, <1>8, <1>9, <1>10, <1>11, <1>12, <1>13, <1>14, <1>15
     DEF SearchNext

(* Whatever keys are typed, isearch shows a match of the string typed, or   *)
(* is where it began, and query-replace asks about a match and goes once    *)
(* through the text that was there (F_isearch_forward, F_query_replace); so *)
(* again from the next key on when the file was read again under it, unless *)
(* that is too short for the places of the search.                          *)
THEOREM SearchesAreTrue == ASSUME ~SHRINKS PROVE SearchSpec => []SearchesTrue
<1>1. SearchInv => SearchesTrue BY SearchInvTrue
<1> QED BY <1>1, SearchInitInv, SearchStep, PTL DEF SearchSpec
=============================================================================
