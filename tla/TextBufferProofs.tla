-------------------------- MODULE TextBufferProofs --------------------------
(* Proofs about the text of a buffer (TextBuffer): the array with its gap   *)
(* is the text, and a marker stays between the characters it was placed     *)
(* between, for any sizes of the gap, any text and any edits of it.         *)
EXTENDS TextBuffer, SelectionProofs, TLAPS

(* What the array of a buffer holds.                                        *)
Cells == TextChars \cup {Blank}

(* A buffer has these fields.                                               *)
Shaped(b) == b = [array |-> b.array, pt |-> b.pt, gap |-> b.gap, index |-> b.index,
                  mode |-> b.mode, states |-> b.states, mark |-> b.mark]

(* The array a has the text t, with a gap of g cells before character pt.   *)
Gapped(a, pt, g, t) ==
    /\ a \in Seq(Cells) /\ pt \in Nat /\ g \in Nat
    /\ pt <= Len(t) /\ Len(a) = Len(t) + g
    /\ \A k \in 1 .. Len(a) : a[k] = IF k <= pt THEN t[k] ELSE IF k <= pt + g THEN Blank ELSE t[k - g]

LEMMA CellsMakeSeq ==
    ASSUME NEW n \in Nat, NEW f, f = [k \in 1 .. n |-> f[k]], \A k \in 1 .. n : f[k] \in Cells
    PROVE  f \in Seq(Cells) /\ Len(f) = n
<1>1. f \in [1 .. n -> Cells] OBVIOUS
<1> QED BY <1>1, SeqDef

(* r is s with new written over its cells after the first pos, and with n   *)
(* of them blank.                                                           *)
Over(r, s, pos, new) ==
    /\ r \in Seq(Cells) /\ Len(r) = Len(s)
    /\ \A k \in 1 .. Len(s) :
          r[k] = IF pos + 1 <= k /\ k <= pos + Len(new) THEN new[k - pos] ELSE s[k]
Blanked(r, s, pos, n) ==
    /\ r \in Seq(Cells) /\ Len(r) = Len(s)
    /\ \A k \in 1 .. Len(s) : r[k] = IF pos + 1 <= k /\ k <= pos + n THEN Blank ELSE s[k]

LEMMA OverwrittenCells ==
    ASSUME NEW s \in Seq(Cells), NEW pos \in Nat, NEW new \in Seq(Cells), NEW r, r = Overwritten(s, pos, new)
    PROVE  Over(r, s, pos, new)
<1>1. /\ DOMAIN s = 1 .. Len(s) /\ Len(s) \in Nat /\ Len(new) \in Nat
      /\ \A k \in 1 .. Len(s) : s[k] \in Cells
      /\ \A k \in 1 .. Len(new) : new[k] \in Cells
  OBVIOUS
<1>2. \A k \in 1 .. Len(s) :
         r[k] = IF pos + 1 <= k /\ k <= pos + Len(new) THEN new[k - pos] ELSE s[k]
  BY <1>1 DEF Overwritten
<1>3. r = [k \in 1 .. Len(s) |-> r[k]] BY <1>1 DEF Overwritten
<1>4. \A k \in 1 .. Len(s) : r[k] \in Cells
  <2> TAKE k \in 1 .. Len(s)
  <2>1. CASE pos + 1 <= k /\ k <= pos + Len(new)
    <3>1. k - pos \in 1 .. Len(new) BY <1>1, <2>1
    <3> QED BY <3>1, <1>1, <1>2, <2>1
  <2>2. CASE ~ (pos + 1 <= k /\ k <= pos + Len(new)) BY <1>1, <1>2, <2>2
  <2> QED BY <2>1, <2>2
<1>5. r \in Seq(Cells) /\ Len(r) = Len(s)
  <2>1. Len(s) \in Nat BY <1>1
  <2> QED BY ONLY <1>3, <1>4, <2>1, CellsMakeSeq
<1> QED BY <1>2, <1>5 DEF Over

LEMMA FilledCells ==
    ASSUME NEW s \in Seq(Cells), NEW pos \in Nat, NEW n \in Int, NEW r, r = Filled(s, pos, n)
    PROVE  Blanked(r, s, pos, n)
<1>1. /\ DOMAIN s = 1 .. Len(s) /\ Len(s) \in Nat
      /\ \A k \in 1 .. Len(s) : s[k] \in Cells
  OBVIOUS
<1>2. \A k \in 1 .. Len(s) : r[k] = IF pos + 1 <= k /\ k <= pos + n THEN Blank ELSE s[k]
  BY <1>1 DEF Filled
<1>3. r = [k \in 1 .. Len(s) |-> r[k]] BY <1>1 DEF Filled
<1>4. \A k \in 1 .. Len(s) : r[k] \in Cells BY <1>1, <1>2 DEF Cells
<1>5. r \in Seq(Cells) /\ Len(r) = Len(s)
  <2>1. Len(s) \in Nat BY <1>1
  <2> QED BY ONLY <1>3, <1>4, <2>1, CellsMakeSeq
<1> QED BY <1>2, <1>5 DEF Blanked

(* r is what s has from i to j; its first n; all but those; s and then t.   *)
Sliced(r, s, i, j) ==
    /\ r \in Seq(Cells) /\ Len(r) = j - i + 1
    /\ \A k \in 1 .. j - i + 1 : r[k] = s[i + k - 1]

LEMMA Slice ==
    ASSUME NEW s \in Seq(Cells), NEW i \in 1 .. Len(s) + 1, NEW j \in i - 1 .. Len(s),
           NEW r, r = SubSeq(s, i, j)
    PROVE  Sliced(r, s, i, j)
<1>1. \A k \in i .. j : s[k] \in Cells OBVIOUS
<1>2. i \in Int /\ j \in Int OBVIOUS
<1> QED BY <1>1, <1>2, SubSeqProperties DEF Sliced

Begins(r, s, n) == r \in Seq(Cells) /\ Len(r) = n /\ \A k \in 1 .. n : r[k] = s[k]
Ends(r, s, n) ==
    r \in Seq(Cells) /\ Len(r) = Len(s) - n /\ \A k \in 1 .. Len(s) - n : r[k] = s[n + k]

LEMMA Prefix ==
    ASSUME NEW s \in Seq(Cells), NEW n \in 0 .. Len(s), NEW r, r = SubSeq(s, 1, n)
    PROVE  Begins(r, s, n)
<1>1. 1 \in 1 .. Len(s) + 1 /\ n \in 1 - 1 .. Len(s) /\ n \in Nat OBVIOUS
<1>2. Sliced(r, s, 1, n) BY <1>1, Slice
<1>3. n - 1 + 1 = n /\ \A k \in 1 .. n : 1 + k - 1 = k BY <1>1
<1> QED BY <1>2, <1>3 DEF Sliced, Begins

LEMMA Suffix ==
    ASSUME NEW s \in Seq(Cells), NEW n \in 0 .. Len(s), NEW r, r = SubSeq(s, n + 1, Len(s))
    PROVE  Ends(r, s, n)
<1>1. PICK i : i = n + 1 OBVIOUS
<1>2. PICK j : j = Len(s) OBVIOUS
<1>3. i \in 1 .. Len(s) + 1 /\ j \in i - 1 .. Len(s) /\ n \in Nat /\ j \in Nat BY <1>1, <1>2
<1>4. r = SubSeq(s, i, j) BY <1>1, <1>2
<1>5. Sliced(r, s, i, j) BY ONLY s \in Seq(Cells), <1>3, <1>4, Slice, Zenon
<1>6. j - i + 1 = Len(s) - n /\ \A k \in 1 .. Len(s) - n : i + k - 1 = n + k
  BY <1>1, <1>2, <1>3
<1> QED BY <1>5, <1>6 DEF Sliced, Ends

LEMMA Blanks ==
    ASSUME NEW m \in Nat, NEW r, r = [i \in 1 .. m |-> Blank]
    PROVE  r \in Seq(Cells) /\ Len(r) = m /\ \A k \in 1 .. m : r[k] = Blank
<1>1. \A k \in 1 .. m : r[k] = Blank OBVIOUS
<1>2. r = [k \in 1 .. m |-> r[k]] OBVIOUS
<1>3. \A k \in 1 .. m : r[k] \in Cells BY <1>1 DEF Cells
<1> QED BY ONLY m \in Nat, <1>1, <1>2, <1>3, CellsMakeSeq

Joins(r, s, t) ==
    /\ r \in Seq(Cells) /\ Len(r) = Len(s) + Len(t)
    /\ \A k \in 1 .. Len(s) + Len(t) : r[k] = IF k <= Len(s) THEN s[k] ELSE t[k - Len(s)]
(* m and n are the places in r where s and t end.                           *)
JoinsThree(r, s, t, u, m, n) ==
    /\ r \in Seq(Cells) /\ Len(r) = n + Len(u)
    /\ \A k \in 1 .. n + Len(u) :
          r[k] = IF k <= m THEN s[k] ELSE IF k <= n THEN t[k - m] ELSE u[k - n]

LEMMA Joined ==
    ASSUME NEW s \in Seq(Cells), NEW t \in Seq(Cells), NEW r, r = s \o t
    PROVE  Joins(r, s, t)
BY ConcatProperties DEF Joins

LEMMA ThreeJoined ==
    ASSUME NEW s \in Seq(Cells), NEW t \in Seq(Cells), NEW u \in Seq(Cells), NEW r, r = s \o t \o u,
           NEW m, m = Len(s), NEW n, n = Len(s) + Len(t)
    PROVE  JoinsThree(r, s, t, u, m, n)
<1>1. PICK st : st = s \o t OBVIOUS
<1>2. /\ st \in Seq(Cells) /\ Len(st) = n
      /\ \A k \in 1 .. n : st[k] = IF k <= m THEN s[k] ELSE t[k - m]
  <2>1. Joins(st, s, t) BY ONLY s \in Seq(Cells), t \in Seq(Cells), <1>1, Joined, Zenon
  <2> QED BY <2>1 DEF Joins
<1>3. r = st \o u BY <1>1
<1>4. /\ r \in Seq(Cells) /\ Len(r) = n + Len(u)
      /\ \A k \in 1 .. n + Len(u) : r[k] = IF k <= n THEN st[k] ELSE u[k - n]
  <2>1. st \in Seq(Cells) /\ Len(st) = n BY <1>2
  <2>2. Joins(r, st, u) BY ONLY u \in Seq(Cells), <1>3, <2>1, Joined, Zenon
  <2> QED BY <2>1, <2>2 DEF Joins
<1>5. m \in Nat /\ n \in Nat /\ m <= n /\ Len(u) \in Nat OBVIOUS
<1>6. ASSUME NEW k \in 1 .. n + Len(u)
      PROVE  r[k] = IF k <= m THEN s[k] ELSE IF k <= n THEN t[k - m] ELSE u[k - n]
  <2>1. CASE k <= n
    <3>1. k \in 1 .. n BY <1>5, <2>1
    <3> QED BY <1>2, <1>4, <2>1, <3>1
  <2>2. CASE ~ (k <= n)
    <3>1. ~ (k <= m) BY <1>5, <2>2
    <3> QED BY <1>4, <2>2, <3>1
  <2> QED BY <2>1, <2>2
<1> QED BY <1>4, <1>6 DEF JoinsThree

LEMMA GappedFacts ==
    ASSUME NEW t \in Seq(TextChars), NEW a, NEW pt, NEW g, Gapped(a, pt, g, t)
    PROVE  /\ a \in Seq(Cells) /\ pt \in Nat /\ g \in Nat /\ Len(t) \in Nat /\ Len(a) \in Nat
           /\ pt <= Len(t) /\ Len(a) = Len(t) + g
           /\ \A k \in 1 .. Len(a) :
                 a[k] = IF k <= pt THEN t[k] ELSE IF k <= pt + g THEN Blank ELSE t[k - g]
           /\ \A k \in 1 .. Len(a) : a[k] \in Cells
BY DEF Gapped

LEMMA PointMovesBack ==
    ASSUME NEW t \in Seq(TextChars), NEW a, NEW pt, NEW g, Gapped(a, pt, g, t),
           NEW o \in 0 .. Len(t), o < pt,
           NEW blanks, blanks = IF pt - o < g THEN pt - o ELSE g
    PROVE  Gapped(Filled(Moved(a, o + g, o, pt - o), o, blanks), o, g, t)
<1>1. /\ a \in Seq(Cells) /\ pt \in Nat /\ g \in Nat /\ Len(t) \in Nat /\ Len(a) \in Nat
      /\ pt <= Len(t) /\ Len(a) = Len(t) + g
  BY GappedFacts, Zenon
<1>2. \A k \in 1 .. Len(a) : a[k] = IF k <= pt THEN t[k] ELSE IF k <= pt + g THEN Blank ELSE t[k - g]
  BY Zenon DEF Gapped
<1>3. o \in Nat /\ blanks \in Nat /\ blanks <= g /\ blanks <= pt - o /\ (blanks = g \/ blanks = pt - o)
  BY <1>1
<1>4. PICK m : m = SubSeq(a, o + 1, o + (pt - o)) OBVIOUS
<1>5. m \in Seq(Cells) /\ Len(m) = pt - o /\ \A k \in 1 .. pt - o : m[k] = a[o + k]
  <2>1. PICK i : i = o + 1 OBVIOUS
  <2>2. PICK j : j = o + (pt - o) OBVIOUS
  <2>3. i \in 1 .. Len(a) + 1 /\ j \in i - 1 .. Len(a) BY <1>1, <1>3, <2>1, <2>2
  <2>4. a \in Seq(Cells) /\ m = SubSeq(a, i, j) BY <1>1, <1>4, <2>1, <2>2
  <2>5. Sliced(m, a, i, j) BY ONLY <2>3, <2>4, Slice, Zenon
  <2>6. j - i + 1 = pt - o /\ \A k \in 1 .. pt - o : i + k - 1 = o + k
    BY <1>1, <1>3, <2>1, <2>2
  <2> QED BY <2>5, <2>6 DEF Sliced
<1>6. PICK to : to = o + g OBVIOUS
<1>16. Len(m) = pt - o BY <1>5
<1>7. PICK c : c = Overwritten(a, to, m) OBVIOUS
<1>8. Over(c, a, to, m)
  <2>1. a \in Seq(Cells) /\ to \in Nat /\ m \in Seq(Cells) BY <1>1, <1>3, <1>5, <1>6
  <2> QED BY ONLY <1>7, <2>1, OverwrittenCells, Zenon
<1>9. /\ c \in Seq(Cells) /\ Len(c) = Len(a)
      /\ \A k \in 1 .. Len(a) : c[k] = IF to + 1 <= k /\ k <= to + Len(m) THEN m[k - to] ELSE a[k]
  BY <1>8 DEF Over
<1>10. PICK d : d = Filled(c, o, blanks) OBVIOUS
<1>11. Blanked(d, c, o, blanks)
  <2>1. c \in Seq(Cells) /\ o \in Nat /\ blanks \in Int BY <1>3, <1>9
  <2> QED BY ONLY <1>10, <2>1, FilledCells, Zenon
<1>12. /\ d \in Seq(Cells) /\ Len(d) = Len(a)
       /\ \A k \in 1 .. Len(a) : d[k] = IF o + 1 <= k /\ k <= o + blanks THEN Blank ELSE c[k]
  BY <1>9, <1>11 DEF Blanked
<1>13. ASSUME NEW k \in 1 .. Len(a)
       PROVE  d[k] = IF k <= o THEN t[k] ELSE IF k <= o + g THEN Blank ELSE t[k - g]
  <2>1. CASE k <= o
    <3>1. ~ (o + 1 <= k) /\ ~ (to + 1 <= k) /\ k <= pt BY <1>1, <1>3, <1>6, <2>1
    <3>2. d[k] = c[k] BY <1>12, <3>1
    <3>3. c[k] = a[k] BY <1>9, <3>1
    <3>4. a[k] = t[k] BY <1>2, <3>1
    <3> QED BY <2>1, <3>2, <3>3, <3>4
  <2>2. CASE o < k /\ k <= o + g
    <3>1. ~ (k <= o) /\ ~ (to + 1 <= k) /\ o + 1 <= k BY <1>1, <1>3, <1>6, <2>2
    <3>2. d[k] = Blank
      <4>1. CASE k <= o + blanks BY <1>12, <3>1, <4>1
      <4>2. CASE ~ (k <= o + blanks)
        <5>1. ~ (k <= pt) /\ k <= pt + g BY <1>1, <1>3, <2>2, <4>2
        <5>2. d[k] = c[k] BY <1>12, <4>2
        <5>3. c[k] = a[k] BY <1>9, <3>1
        <5>4. a[k] = Blank BY <1>2, <5>1
        <5> QED BY <5>2, <5>3, <5>4
      <4> QED BY <4>1, <4>2
    <3> QED BY <2>2, <3>1, <3>2
  <2>3. CASE o + g < k /\ k <= pt + g
    <3>1. /\ ~ (k <= o) /\ ~ (k <= o + g) /\ ~ (k <= o + blanks) /\ to + 1 <= k /\ k <= to + Len(m)
          /\ k - to \in 1 .. pt - o /\ o + (k - to) = k - g
          /\ k - g \in 1 .. Len(a) /\ k - g <= pt
      BY <1>1, <1>3, <1>6, <1>16, <2>3
    <3>2. d[k] = c[k] BY <1>12, <3>1
    <3>3. c[k] = m[k - to] BY <1>9, <3>1
    <3>4. m[k - to] = a[k - g] BY <1>5, <3>1
    <3>5. a[k - g] = t[k - g] BY <1>2, <3>1
    <3> QED BY <3>1, <3>2, <3>3, <3>4, <3>5
  <2>4. CASE pt + g < k
    <3>1. /\ ~ (k <= o) /\ ~ (k <= o + g) /\ ~ (k <= o + blanks) /\ ~ (k <= to + Len(m))
          /\ ~ (k <= pt) /\ ~ (k <= pt + g)
      BY <1>1, <1>3, <1>6, <1>16, <2>4
    <3>2. d[k] = c[k] BY <1>12, <3>1
    <3>3. c[k] = a[k] BY <1>9, <3>1
    <3>4. a[k] = t[k - g] BY <1>2, <3>1
    <3> QED BY <3>1, <3>2, <3>3, <3>4
  <2> QED BY <1>1, <1>3, <2>1, <2>2, <2>3, <2>4
<1>14. o <= Len(t) /\ Len(d) = Len(t) + g BY <1>1, <1>3, <1>12
<1>15. Gapped(d, o, g, t)
  BY <1>1, <1>3, <1>12, <1>13, <1>14 DEF Gapped
<1> QED BY <1>4, <1>6, <1>7, <1>10, <1>15 DEF Moved

LEMMA PointMovesOn ==
    ASSUME NEW t \in Seq(TextChars), NEW a, NEW pt, NEW g, Gapped(a, pt, g, t),
           NEW o \in 0 .. Len(t), pt <= o,
           NEW blanks, blanks = IF o - pt < g THEN o - pt ELSE g
    PROVE  Gapped(Filled(Moved(a, pt, pt + g, o - pt), o + g - blanks, blanks), o, g, t)
<1>1. /\ a \in Seq(Cells) /\ pt \in Nat /\ g \in Nat /\ Len(t) \in Nat /\ Len(a) \in Nat
      /\ pt <= Len(t) /\ Len(a) = Len(t) + g
  BY GappedFacts, Zenon
<1>2. \A k \in 1 .. Len(a) : a[k] = IF k <= pt THEN t[k] ELSE IF k <= pt + g THEN Blank ELSE t[k - g]
  BY Zenon DEF Gapped
<1>3. /\ o \in Nat /\ blanks \in Nat /\ blanks <= g /\ blanks <= o - pt /\ (blanks = g \/ blanks = o - pt)
  BY <1>1
<1>4. PICK m : m = SubSeq(a, pt + g + 1, pt + g + (o - pt)) OBVIOUS
<1>5. m \in Seq(Cells) /\ Len(m) = o - pt /\ \A k \in 1 .. o - pt : m[k] = a[pt + g + k]
  <2>1. PICK i : i = pt + g + 1 OBVIOUS
  <2>2. PICK j : j = pt + g + (o - pt) OBVIOUS
  <2>3. i \in 1 .. Len(a) + 1 /\ j \in i - 1 .. Len(a) BY <1>1, <1>3, <2>1, <2>2
  <2>4. a \in Seq(Cells) /\ m = SubSeq(a, i, j) BY <1>1, <1>4, <2>1, <2>2
  <2>5. Sliced(m, a, i, j) BY ONLY <2>3, <2>4, Slice, Zenon
  <2>6. j - i + 1 = o - pt /\ \A k \in 1 .. o - pt : i + k - 1 = pt + g + k
    BY <1>1, <1>3, <2>1, <2>2
  <2> QED BY <2>5, <2>6 DEF Sliced
<1>16. Len(m) = o - pt BY <1>5
<1>7. PICK c : c = Overwritten(a, pt, m) OBVIOUS
<1>8. Over(c, a, pt, m)
  <2>1. a \in Seq(Cells) /\ pt \in Nat /\ m \in Seq(Cells) BY <1>1, <1>5
  <2> QED BY ONLY <1>7, <2>1, OverwrittenCells, Zenon
<1>9. /\ c \in Seq(Cells) /\ Len(c) = Len(a)
      /\ \A k \in 1 .. Len(a) : c[k] = IF pt + 1 <= k /\ k <= pt + Len(m) THEN m[k - pt] ELSE a[k]
  BY <1>8 DEF Over
<1>6. PICK at : at = o + g - blanks OBVIOUS
<1>10. PICK d : d = Filled(c, at, blanks) OBVIOUS
<1>11. Blanked(d, c, at, blanks)
  <2>1. c \in Seq(Cells) /\ at \in Nat /\ blanks \in Int BY <1>1, <1>3, <1>6, <1>9
  <2> QED BY ONLY <1>10, <2>1, FilledCells, Zenon
<1>12. /\ d \in Seq(Cells) /\ Len(d) = Len(a)
       /\ \A k \in 1 .. Len(a) : d[k] = IF at + 1 <= k /\ k <= at + blanks THEN Blank ELSE c[k]
  BY <1>9, <1>11 DEF Blanked
<1>13. ASSUME NEW k \in 1 .. Len(a)
       PROVE  d[k] = IF k <= o THEN t[k] ELSE IF k <= o + g THEN Blank ELSE t[k - g]
  <2>1. CASE k <= pt
    <3>1. ~ (at + 1 <= k) /\ ~ (pt + 1 <= k) /\ k <= o BY <1>1, <1>3, <1>6, <2>1
    <3>2. d[k] = c[k] BY <1>12, <3>1
    <3>3. c[k] = a[k] BY <1>9, <3>1
    <3>4. a[k] = t[k] BY <1>2, <2>1
    <3> QED BY <3>1, <3>2, <3>3, <3>4
  <2>2. CASE pt < k /\ k <= o
    <3>1. /\ ~ (at + 1 <= k) /\ pt + 1 <= k /\ k <= pt + Len(m)
          /\ k - pt \in 1 .. o - pt /\ pt + g + (k - pt) = k + g
      BY <1>1, <1>3, <1>6, <1>16, <2>2
    <3>2. d[k] = c[k] BY <1>12, <3>1
    <3>3. c[k] = m[k - pt] BY <1>9, <3>1
    <3>4. PICK j : j = k + g OBVIOUS
    <3>5. m[k - pt] = a[j] BY <1>5, <3>1, <3>4
    <3>6. j \in 1 .. Len(a) /\ ~ (j <= pt) /\ ~ (j <= pt + g) /\ j - g = k BY <1>1, <1>3, <2>2, <3>4
    <3>7. a[j] = t[k] BY <1>2, <3>6
    <3> QED BY <2>2, <3>2, <3>3, <3>5, <3>7
  <2>3. CASE o < k /\ k <= o + g
    <3>1. ~ (k <= o) /\ ~ (k <= pt + Len(m)) /\ k <= at + blanks BY <1>1, <1>3, <1>6, <1>16, <2>3
    <3>2. d[k] = Blank
      <4>1. CASE at + 1 <= k BY <1>12, <3>1, <4>1
      <4>2. CASE ~ (at + 1 <= k)
        <5>1. ~ (k <= pt) /\ k <= pt + g BY <1>1, <1>3, <1>6, <2>3, <4>2
        <5>2. d[k] = c[k] BY <1>12, <4>2
        <5>3. c[k] = a[k] BY <1>9, <3>1
        <5>4. a[k] = Blank BY <1>2, <5>1
        <5> QED BY <5>2, <5>3, <5>4
      <4> QED BY <4>1, <4>2
    <3> QED BY <2>3, <3>1, <3>2
  <2>4. CASE o + g < k
    <3>1. /\ ~ (k <= o) /\ ~ (k <= o + g) /\ ~ (k <= at + blanks) /\ ~ (k <= pt + Len(m))
          /\ ~ (k <= pt) /\ ~ (k <= pt + g)
      BY <1>1, <1>3, <1>6, <1>16, <2>4
    <3>2. d[k] = c[k] BY <1>12, <3>1
    <3>3. c[k] = a[k] BY <1>9, <3>1
    <3>4. a[k] = t[k - g] BY <1>2, <3>1
    <3> QED BY <3>1, <3>2, <3>3, <3>4
  <2> QED BY <1>1, <1>3, <2>1, <2>2, <2>3, <2>4
<1>14. o <= Len(t) /\ Len(d) = Len(t) + g BY <1>1, <1>3, <1>12
<1>15. Gapped(d, o, g, t)
  BY <1>1, <1>3, <1>12, <1>13, <1>14 DEF Gapped
<1> QED BY <1>4, <1>6, <1>7, <1>10, <1>15 DEF Moved

(* c is a with m blank cells after pt.                                      *)
Wider(c, a, pt, m) ==
    /\ c \in Seq(Cells) /\ Len(c) = Len(a) + m
    /\ \A k \in 1 .. Len(a) + m :
          c[k] = IF k <= pt THEN a[k] ELSE IF k <= pt + m THEN Blank ELSE a[k - m]

LEMMA GapWidened ==
    ASSUME NEW a \in Seq(Cells), NEW pt \in Nat, pt <= Len(a), NEW m \in Nat,
           NEW c, c = WidenedGap(a, pt, m)
    PROVE  Wider(c, a, pt, m)
<1>1. PICK s : s = SubSeq(a, 1, pt) OBVIOUS
<1>2. PICK t : t = [i \in 1 .. m |-> Blank] OBVIOUS
<1>3. PICK u : u = SubSeq(a, pt + 1, Len(a)) OBVIOUS
<1>4. pt \in 0 .. Len(a) /\ Len(a) \in Nat OBVIOUS
<1>5. s \in Seq(Cells) /\ Len(s) = pt /\ \A k \in 1 .. pt : s[k] = a[k]
  <2>1. Begins(s, a, pt) BY <1>1, <1>4, Prefix
  <2> QED BY <2>1 DEF Begins
<1>6. t \in Seq(Cells) /\ Len(t) = m /\ \A k \in 1 .. m : t[k] = Blank
  BY <1>2, Blanks
<1>7. u \in Seq(Cells) /\ Len(u) = Len(a) - pt /\ \A k \in 1 .. Len(a) - pt : u[k] = a[pt + k]
  <2>1. Ends(u, a, pt) BY <1>3, <1>4, Suffix
  <2> QED BY <2>1 DEF Ends
<1>8. c = s \o t \o u BY <1>1, <1>2, <1>3 DEF WidenedGap
<1>9. PICK n : n = pt + m OBVIOUS
<1>10. /\ c \in Seq(Cells) /\ Len(c) = n + Len(u)
       /\ \A k \in 1 .. n + Len(u) :
             c[k] = IF k <= pt THEN s[k] ELSE IF k <= n THEN t[k - pt] ELSE u[k - n]
  <2>1. pt = Len(s) /\ n = Len(s) + Len(t) BY <1>5, <1>6, <1>9
  <2>2. s \in Seq(Cells) /\ t \in Seq(Cells) /\ u \in Seq(Cells) BY <1>5, <1>6, <1>7
  <2>3. JoinsThree(c, s, t, u, pt, n) BY ONLY <1>8, <2>1, <2>2, ThreeJoined, Zenon
  <2> QED BY <2>3 DEF JoinsThree
<1>11. n + Len(u) = Len(a) + m BY <1>4, <1>7, <1>9
<1>12. ASSUME NEW k \in 1 .. Len(a) + m
       PROVE  c[k] = IF k <= pt THEN a[k] ELSE IF k <= pt + m THEN Blank ELSE a[k - m]
  <2>1. CASE k <= pt
    <3>1. k \in 1 .. pt BY <2>1
    <3> QED BY <1>5, <1>10, <1>11, <2>1, <3>1
  <2>2. CASE pt < k /\ k <= pt + m
    <3>1. k - pt \in 1 .. m /\ ~ (k <= pt) /\ k <= n BY <1>9, <2>2
    <3>2. c[k] = t[k - pt] BY <1>10, <1>11, <3>1
    <3> QED BY <1>6, <2>2, <3>1, <3>2
  <2>3. CASE pt + m < k
    <3>1. /\ k - n \in 1 .. Len(a) - pt /\ ~ (k <= pt) /\ ~ (k <= n) /\ ~ (k <= pt + m)
          /\ pt + (k - n) = k - m
      BY <1>4, <1>9, <2>3
    <3>2. c[k] = u[k - n] BY <1>10, <1>11, <3>1
    <3>3. u[k - n] = a[pt + (k - n)] BY <1>7, <3>1
    <3> QED BY <3>1, <3>2, <3>3
  <2> QED BY <2>1, <2>2, <2>3
<1> QED BY <1>10, <1>11, <1>12 DEF Wider

(* c is a without the m cells after pos.                                    *)
Narrower(c, a, pos, m) ==
    /\ c \in Seq(Cells) /\ Len(c) = Len(a) - m
    /\ \A k \in 1 .. Len(a) - m : c[k] = IF k <= pos THEN a[k] ELSE a[k + m]

LEMMA GapShut ==
    ASSUME NEW a \in Seq(Cells), NEW pos \in Nat, NEW m \in Nat, pos + m <= Len(a),
           NEW c, c = Shut(a, pos, m)
    PROVE  Narrower(c, a, pos, m)
<1>1. PICK s : s = SubSeq(a, 1, pos) OBVIOUS
<1>2. PICK u : u = SubSeq(a, pos + m + 1, Len(a)) OBVIOUS
<1>3. /\ pos \in 0 .. Len(a) /\ pos + m \in 0 .. Len(a) /\ Len(a) \in Nat OBVIOUS
<1>4. s \in Seq(Cells) /\ Len(s) = pos /\ \A k \in 1 .. pos : s[k] = a[k]
  <2>1. Begins(s, a, pos) BY <1>1, <1>3, Prefix
  <2> QED BY <2>1 DEF Begins
<1>5. PICK n : n = pos + m OBVIOUS
<1>6. u \in Seq(Cells) /\ Len(u) = Len(a) - n /\ \A k \in 1 .. Len(a) - n : u[k] = a[n + k]
  <2>1. Ends(u, a, n) BY <1>2, <1>3, <1>5, Suffix
  <2> QED BY <2>1 DEF Ends
<1>7. c = s \o u BY <1>1, <1>2 DEF Shut
<1>8. /\ c \in Seq(Cells) /\ Len(c) = pos + (Len(a) - n)
      /\ \A k \in 1 .. pos + (Len(a) - n) : c[k] = IF k <= pos THEN s[k] ELSE u[k - pos]
  <2>1. /\ c \in Seq(Cells) /\ Len(c) = Len(s) + Len(u)
        /\ \A k \in 1 .. Len(s) + Len(u) : c[k] = IF k <= Len(s) THEN s[k] ELSE u[k - Len(s)]
    <3>1. s \in Seq(Cells) /\ u \in Seq(Cells) BY <1>4, <1>6
    <3>2. Joins(c, s, u) BY ONLY <1>7, <3>1, Joined, Zenon
    <3> QED BY <3>2 DEF Joins
  <2>2. Len(s) = pos /\ Len(u) = Len(a) - n BY <1>4, <1>6
  <2> QED BY <2>1, <2>2
<1>9. pos + (Len(a) - n) = Len(a) - m BY <1>3, <1>5
<1>10. ASSUME NEW k \in 1 .. Len(a) - m
       PROVE  c[k] = IF k <= pos THEN a[k] ELSE a[k + m]
  <2>1. CASE k <= pos
    <3>1. k \in 1 .. pos BY <2>1
    <3> QED BY <1>4, <1>8, <1>9, <2>1, <3>1
  <2>2. CASE ~ (k <= pos)
    <3>1. k - pos \in 1 .. Len(a) - n /\ n + (k - pos) = k + m BY <1>3, <1>5, <2>2
    <3>2. c[k] = u[k - pos] BY <1>8, <1>9, <2>2
    <3>3. u[k - pos] = a[n + (k - pos)] BY <1>6, <3>1
    <3> QED BY <2>2, <3>1, <3>2, <3>3
  <2> QED BY <2>1, <2>2
<1> QED BY <1>8, <1>9, <1>10 DEF Narrower

(* The array when the gap, of g2 cells, is large enough for n characters in *)
(* place of del: blank as far as it was, and where it is not filled next.   *)
Opened(a, pt, g2, t, del, n, kept) ==
    /\ a \in Seq(Cells) /\ g2 \in Nat /\ Len(a) = Len(t) - del + n + g2
    /\ \A k \in 1 .. Len(a) :
         /\ k <= pt => a[k] = t[k]
         /\ pt + n < k /\ k <= pt + n + g2 /\ k <= pt + kept => a[k] = Blank
         /\ pt + n + g2 < k => a[k] = t[k - n - g2 + del]

LEMMA WidenedOpens ==
    ASSUME NEW t \in Seq(TextChars), NEW a, NEW pt, NEW g, Gapped(a, pt, g, t),
           NEW del \in Nat, pt + del <= Len(t), NEW n \in Nat, g + del < n,
           NEW r, r = Filled(WidenedGap(a, pt, n + MIN_GAP - (g + del)), pt + n, MIN_GAP),
           NEW kept
    PROVE  Opened(r, pt, MIN_GAP, t, del, n, kept)
<1>1. /\ a \in Seq(Cells) /\ pt \in Nat /\ g \in Nat /\ Len(t) \in Nat /\ Len(a) \in Nat
      /\ pt <= Len(t) /\ Len(a) = Len(t) + g
      /\ \A k \in 1 .. Len(a) : a[k] = IF k <= pt THEN t[k] ELSE IF k <= pt + g THEN Blank ELSE t[k - g]
  BY GappedFacts
<1>2. MIN_GAP \in Nat BY GapAssumption
<1>3. PICK m : m = n + MIN_GAP - (g + del) OBVIOUS
<1>4. PICK c : c = WidenedGap(a, pt, m) OBVIOUS
<1>5. m \in Nat /\ pt <= Len(a) /\ pt + n \in Nat BY <1>1, <1>2, <1>3
<1>6. /\ c \in Seq(Cells) /\ Len(c) = Len(a) + m
      /\ \A k \in 1 .. Len(a) + m :
            c[k] = IF k <= pt THEN a[k] ELSE IF k <= pt + m THEN Blank ELSE a[k - m]
  <2>1. a \in Seq(Cells) /\ pt \in Nat BY <1>1
  <2>2. Wider(c, a, pt, m) BY ONLY <1>4, <1>5, <2>1, GapWidened, Zenon
  <2> QED BY <2>2 DEF Wider
<1>7. r = Filled(c, pt + n, MIN_GAP) BY <1>3, <1>4
<1>8. /\ r \in Seq(Cells) /\ Len(r) = Len(c)
      /\ \A k \in 1 .. Len(c) :
            r[k] = IF pt + n + 1 <= k /\ k <= pt + n + MIN_GAP THEN Blank ELSE c[k]
  <2>1. PICK pos : pos = pt + n OBVIOUS
  <2>2. c \in Seq(Cells) /\ MIN_GAP \in Int /\ pos \in Nat /\ r = Filled(c, pos, MIN_GAP)
    BY <1>2, <1>5, <1>6, <1>7, <2>1
  <2>3. Blanked(r, c, pos, MIN_GAP) BY ONLY <2>2, FilledCells, Zenon
  <2> QED BY <2>1, <2>3 DEF Blanked
<1>9. Len(r) = Len(t) - del + n + MIN_GAP
  <2>1. Len(r) = Len(a) + m BY <1>6, <1>8
  <2>2. Len(r) = Len(t) + g + m BY <1>1, <2>1
  <2>3. g \in Nat /\ Len(t) \in Nat BY <1>1
  <2> QED BY ONLY <1>2, <1>3, <2>2, <2>3, n \in Nat, del \in Nat
<1>10. ASSUME NEW k \in 1 .. Len(r), k <= pt PROVE r[k] = t[k]
  <2>1. k \in 1 .. Len(c) /\ k \in 1 .. Len(a) /\ ~ (pt + n + 1 <= k) BY <1>1, <1>5, <1>6, <1>8, <1>10
  <2>2. r[k] = c[k] BY <1>8, <2>1
  <2>3. c[k] = a[k] BY <1>6, <1>10, <2>1
  <2>4. a[k] = t[k] BY <1>1, <1>10, <2>1
  <2> QED BY <2>2, <2>3, <2>4
<1>11. ASSUME NEW k \in 1 .. Len(r), pt + n < k, k <= pt + n + MIN_GAP PROVE r[k] = Blank
  <2>1. k \in 1 .. Len(c) /\ pt + n + 1 <= k BY <1>1, <1>8, <1>11
  <2> QED BY <1>8, <1>11, <2>1
<1>12. ASSUME NEW k \in 1 .. Len(r), pt + n + MIN_GAP < k PROVE r[k] = t[k - n - MIN_GAP + del]
  <2>1. /\ k \in 1 .. Len(c) /\ ~ (k <= pt + n + MIN_GAP) /\ ~ (k <= pt) /\ ~ (k <= pt + m)
        /\ k - m \in 1 .. Len(a) /\ ~ (k - m <= pt) /\ ~ (k - m <= pt + g)
        /\ k - m - g = k - n - MIN_GAP + del
    BY <1>1, <1>2, <1>3, <1>6, <1>8, <1>12
  <2>2. r[k] = c[k] BY <1>8, <2>1
  <2>3. c[k] = a[k - m] BY <1>6, <1>8, <2>1
  <2>4. a[k - m] = t[k - m - g] BY <1>1, <2>1
  <2> QED BY <2>1, <2>2, <2>3, <2>4
<1> QED BY <1>2, <1>8, <1>9, <1>10, <1>11, <1>12 DEF Opened

LEMMA NarrowedOpens ==
    ASSUME NEW t \in Seq(TextChars), NEW a, NEW pt, NEW g, Gapped(a, pt, g, t),
           NEW del \in Nat, pt + del <= Len(t), NEW n \in Nat, g + del > MAX_GAP + n,
           NEW r, r = Shut(a, pt + n + MAX_GAP, g + del - (MAX_GAP + n)),
           NEW kept, kept = Larger(g, n)
    PROVE  Opened(r, pt, MAX_GAP, t, del, n, kept)
<1>1. /\ a \in Seq(Cells) /\ pt \in Nat /\ g \in Nat /\ Len(t) \in Nat /\ Len(a) \in Nat
      /\ pt <= Len(t) /\ Len(a) = Len(t) + g
      /\ \A k \in 1 .. Len(a) : a[k] = IF k <= pt THEN t[k] ELSE IF k <= pt + g THEN Blank ELSE t[k - g]
  BY GappedFacts
<1>2. MAX_GAP \in Nat BY GapAssumption
<1>3. PICK m : m = g + del - (MAX_GAP + n) OBVIOUS
<1>4. PICK pos : pos = pt + n + MAX_GAP OBVIOUS
<1>5. m \in Nat /\ pos \in Nat /\ pos + m <= Len(a)
  <2>1. pt \in Nat /\ g \in Nat /\ Len(t) \in Nat /\ Len(a) = Len(t) + g BY <1>1
  <2> QED BY <1>2, <1>3, <1>4, <2>1
<1>6. /\ r \in Seq(Cells) /\ Len(r) = Len(a) - m
      /\ \A k \in 1 .. Len(a) - m : r[k] = IF k <= pos THEN a[k] ELSE a[k + m]
  <2>1. a \in Seq(Cells) /\ r = Shut(a, pos, m) BY <1>1, <1>3, <1>4
  <2>2. pos \in Nat /\ m \in Nat /\ pos + m <= Len(a) BY <1>5
  <2>3. Narrower(r, a, pos, m) BY ONLY <2>1, <2>2, GapShut, Zenon
  <2> QED BY <2>3 DEF Narrower
<1>9. Len(r) = Len(t) - del + n + MAX_GAP
  <2>1. Len(r) = Len(a) - m BY <1>6
  <2>2. g \in Nat /\ Len(t) \in Nat /\ Len(a) = Len(t) + g BY <1>1
  <2> QED BY ONLY <1>2, <1>3, <2>1, <2>2, n \in Nat, del \in Nat
<1>10. ASSUME NEW k \in 1 .. Len(r), k <= pt PROVE r[k] = t[k]
  <2>1. k \in 1 .. Len(a) - m /\ k \in 1 .. Len(a) /\ k <= pos BY <1>1, <1>2, <1>4, <1>5, <1>6, <1>10
  <2>2. r[k] = a[k] BY <1>6, <2>1
  <2>3. a[k] = t[k] BY <1>1, <1>10, <2>1
  <2> QED BY <2>2, <2>3
<1>11. ASSUME NEW k \in 1 .. Len(r), pt + n < k, k <= pt + n + MAX_GAP, k <= pt + kept PROVE r[k] = Blank
  <2>1. kept = g \/ kept = n BY DEF Larger
  <2>2. /\ k \in 1 .. Len(a) - m /\ k \in 1 .. Len(a) /\ k <= pos /\ ~ (k <= pt) /\ k <= pt + g
    BY <1>1, <1>2, <1>4, <1>5, <1>6, <1>11, <2>1
  <2>3. r[k] = a[k] BY <1>6, <2>2
  <2>4. a[k] = Blank BY <1>1, <2>2
  <2> QED BY <2>3, <2>4
<1>12. ASSUME NEW k \in 1 .. Len(r), pt + n + MAX_GAP < k PROVE r[k] = t[k - n - MAX_GAP + del]
  <2>1. /\ k \in 1 .. Len(a) - m /\ ~ (k <= pos) /\ k + m \in 1 .. Len(a)
        /\ ~ (k + m <= pt) /\ ~ (k + m <= pt + g) /\ k + m - g = k - n - MAX_GAP + del
    <3>1. k \in 1 .. Len(a) - m BY <1>6
    <3>2. k > pt + n + MAX_GAP /\ k <= Len(a) - m /\ k \in Nat BY <1>1, <1>5, <1>12, <3>1
    <3> QED BY <1>1, <1>2, <1>3, <1>4, <1>5, <3>1, <3>2
  <2>2. r[k] = a[k + m] BY <1>6, <2>1
  <2>3. PICK j : j = k + m OBVIOUS
  <2>4. j \in 1 .. Len(a) /\ ~ (j <= pt) /\ ~ (j <= pt + g) BY <2>1, <2>3
  <2>5. a[j] = t[j - g] BY <1>1, <2>4
  <2>6. j - g = k - n - MAX_GAP + del
    <3>1. k \in Int /\ m \in Int /\ g \in Int /\ j \in Int BY <1>1, <1>5, <2>1, <2>4
    <3> QED BY <1>2, <2>1, <2>3, <3>1
  <2> QED BY <2>2, <2>3, <2>5, <2>6
<1> QED BY <1>2, <1>6, <1>9, <1>10, <1>11, <1>12 DEF Opened

LEMMA EnoughIsOpen ==
    ASSUME NEW t \in Seq(TextChars), NEW a, NEW pt, NEW g, Gapped(a, pt, g, t),
           NEW del \in Nat, pt + del <= Len(t), NEW n \in Nat, n <= g + del,
           NEW kept, kept = Larger(g, n)
    PROVE  Opened(a, pt, g + del - n, t, del, n, kept)
<1>1. /\ a \in Seq(Cells) /\ pt \in Nat /\ g \in Nat /\ Len(t) \in Nat /\ Len(a) \in Nat
      /\ pt <= Len(t) /\ Len(a) = Len(t) + g
      /\ \A k \in 1 .. Len(a) : a[k] = IF k <= pt THEN t[k] ELSE IF k <= pt + g THEN Blank ELSE t[k - g]
  BY GappedFacts
<1>2. g + del - n \in Nat /\ Len(a) = Len(t) - del + n + (g + del - n) BY <1>1
<1>3. ASSUME NEW k \in 1 .. Len(a), pt + n < k, k <= pt + kept PROVE a[k] = Blank
  <2>1. kept = g \/ kept = n BY DEF Larger
  <2>2. ~ (k <= pt) /\ k <= pt + g BY <1>1, <1>3, <2>1
  <2> QED BY <1>1, <2>2
<1>4. ASSUME NEW k \in 1 .. Len(a), pt + n + (g + del - n) < k
      PROVE  a[k] = t[k - n - (g + del - n) + del]
  <2>1. ~ (k <= pt) /\ ~ (k <= pt + g) /\ k - g = k - n - (g + del - n) + del BY <1>1, <1>4
  <2> QED BY <1>1, <2>1
<1> QED BY <1>1, <1>2, <1>3, <1>4 DEF Opened

(* The text u is t with new put in place of del characters after o.         *)
PutIn(u, t, o, del, new) ==
    /\ u \in Seq(TextChars) /\ Len(u) = Len(t) + Len(new) - del
    /\ \A k \in 1 .. Len(u) :
          u[k] = IF k <= o THEN t[k] ELSE IF k <= o + Len(new) THEN new[k - o] ELSE t[k - Len(new) + del]

LEMMA PutInPlace ==
    ASSUME NEW t \in Seq(TextChars), NEW pt \in Nat, NEW del \in Nat, pt + del <= Len(t),
           NEW new \in Seq(TextChars), NEW n, n = Len(new), NEW kept \in Nat, n <= kept,
           NEW a, NEW g2, Opened(a, pt, g2, t, del, n, kept),
           NEW r, r = Overwritten(Filled(a, pt + kept, n + g2 - kept), pt, new),
           NEW u, PutIn(u, t, pt, del, new)
    PROVE  Gapped(r, pt + n, g2, u)
<1>0. /\ u \in Seq(TextChars) /\ Len(u) = Len(t) + n - del
      /\ \A k \in 1 .. Len(u) :
            u[k] = IF k <= pt THEN t[k] ELSE IF k <= pt + n THEN new[k - pt] ELSE t[k - n + del]
  BY DEF PutIn
<1>1. /\ a \in Seq(Cells) /\ g2 \in Nat /\ Len(a) = Len(t) - del + n + g2
      /\ \A k \in 1 .. Len(a) :
           /\ k <= pt => a[k] = t[k]
           /\ pt + n < k /\ k <= pt + n + g2 /\ k <= pt + kept => a[k] = Blank
           /\ pt + n + g2 < k => a[k] = t[k - n - g2 + del]
  BY DEF Opened
<1>2. n \in Nat /\ Len(t) \in Nat /\ Len(u) \in Nat /\ Len(a) \in Nat
  <2>1. a \in Seq(Cells) /\ u \in Seq(TextChars) BY <1>0, <1>1
  <2> QED BY ONLY t \in Seq(TextChars), new \in Seq(TextChars), n = Len(new), <2>1, LenProperties
<1>3. new \in Seq(Cells) BY SeqMonotonic DEF Cells
<1>4. PICK c : c = Filled(a, pt + kept, n + g2 - kept) OBVIOUS
<1>5. /\ c \in Seq(Cells) /\ Len(c) = Len(a)
      /\ \A k \in 1 .. Len(a) :
            c[k] = IF pt + kept + 1 <= k /\ k <= pt + n + g2 THEN Blank ELSE a[k]
  <2>1. PICK m : m = n + g2 - kept OBVIOUS
  <2>2. PICK pos : pos = pt + kept OBVIOUS
  <2>3. a \in Seq(Cells) /\ pos \in Nat /\ m \in Int BY <1>1, <1>2, <2>1, <2>2
  <2>4. c = Filled(a, pos, m) BY <1>4, <2>1, <2>2
  <2>5. Blanked(c, a, pos, m) BY ONLY <2>3, <2>4, FilledCells, Zenon
  <2>6. pos + m = pt + n + g2 /\ pos + 1 = pt + kept + 1
    <3>1. g2 \in Nat BY <1>1
    <3> QED BY <1>2, <2>1, <2>2, <3>1
  <2> QED BY <2>5, <2>6 DEF Blanked
<1>6. r = Overwritten(c, pt, new) BY <1>4
<1>7. /\ r \in Seq(Cells) /\ Len(r) = Len(c)
      /\ \A k \in 1 .. Len(c) : r[k] = IF pt + 1 <= k /\ k <= pt + Len(new) THEN new[k - pt] ELSE c[k]
  <2>1. c \in Seq(Cells) BY <1>5
  <2>2. Over(r, c, pt, new) BY ONLY <1>3, <1>6, <2>1, pt \in Nat, OverwrittenCells, Zenon
  <2> QED BY <2>2 DEF Over
<1>10. g2 \in Nat /\ Len(a) = Len(t) - del + n + g2 /\ Len(u) = Len(t) + n - del BY <1>0, <1>1
<1>8. Len(r) = Len(u) + g2 /\ Len(r) = Len(a) /\ pt + n \in Nat /\ pt + n <= Len(u)
  <2>1. Len(r) = Len(a) BY <1>5, <1>7
  <2> QED BY <1>2, <1>10, <2>1
<1>9. ASSUME NEW k \in 1 .. Len(r)
      PROVE  r[k] = IF k <= pt + n THEN u[k] ELSE IF k <= pt + n + g2 THEN Blank ELSE u[k - g2]
  <2>1. k \in 1 .. Len(a) /\ k \in 1 .. Len(c) BY <1>5, <1>7
  <2>2. CASE k <= pt
    <3>1. ~ (pt + 1 <= k) /\ ~ (pt + kept + 1 <= k) /\ k <= pt + n /\ k \in 1 .. Len(u) BY <1>2, <1>8, <2>2
    <3>2. r[k] = c[k] BY <1>7, <2>1, <3>1
    <3>3. c[k] = a[k] BY <1>5, <2>1, <3>1
    <3>4. a[k] = t[k] BY <1>1, <2>1, <2>2
    <3>5. u[k] = t[k] BY <1>0, <2>2, <3>1
    <3> QED BY <3>1, <3>2, <3>3, <3>4, <3>5
  <2>3. CASE pt < k /\ k <= pt + n
    <3>1. pt + 1 <= k /\ ~ (k <= pt) /\ k \in 1 .. Len(u) BY <1>2, <1>8, <2>3
    <3>2. r[k] = new[k - pt] BY <1>7, <2>1, <2>3, <3>1
    <3>3. u[k] = new[k - pt] BY <1>0, <2>3, <3>1
    <3> QED BY <2>3, <3>2, <3>3
  <2>4. CASE pt + n < k /\ k <= pt + n + g2
    <3>1. ~ (k <= pt + n) BY <1>2, <2>4
    <3>2. r[k] = c[k] BY <1>7, <2>1, <3>1
    <3>3. CASE k <= pt + kept
      <4>1. a[k] = Blank BY <1>1, <2>1, <2>4, <3>3
      <4>2. c[k] = Blank BY <1>5, <2>1, <4>1
      <4> QED BY <2>4, <3>1, <3>2, <4>2
    <3>4. CASE ~ (k <= pt + kept)
      <4>1. pt + kept + 1 <= k /\ k <= pt + n + g2 BY <1>2, <1>10, <2>4, <3>4
      <4>2. c[k] = Blank BY <1>5, <2>1, <4>1
      <4> QED BY <2>4, <3>1, <3>2, <4>2
    <3> QED BY <3>3, <3>4
  <2>5. CASE pt + n + g2 < k
    <3>1. PICK j : j = k - g2 OBVIOUS
    <3>0. g2 \in Nat /\ k \in Nat /\ k <= Len(u) + g2
      <4>1. g2 \in Nat /\ Len(r) = Len(u) + g2 BY <1>8, <1>10
      <4> QED BY ONLY k \in 1 .. Len(r), <1>2, <4>1
    <3>2. ~ (k <= pt + n) /\ ~ (k <= pt + n + g2) BY ONLY pt \in Nat, <1>2, <2>5, <3>0
    <3>3. /\ j \in 1 .. Len(u) /\ ~ (j <= pt) /\ ~ (j <= pt + n)
          /\ j - n + del = k - n - g2 + del
      BY ONLY pt \in Nat, del \in Nat, <1>2, <2>5, <3>0, <3>1
    <3>4. r[k] = c[k] BY <1>7, <2>1, <3>2
    <3>5. c[k] = a[k] BY <1>5, <2>1, <3>2
    <3>6. a[k] = t[k - n - g2 + del] BY <1>1, <2>1, <2>5
    <3>7. u[j] = t[j - n + del] BY <1>0, <3>3
    <3> QED BY <3>1, <3>2, <3>3, <3>4, <3>5, <3>6, <3>7
  <2>6. k <= pt \/ (pt < k /\ k <= pt + n) \/ (pt + n < k /\ k <= pt + n + g2) \/ pt + n + g2 < k
    <3>1. g2 \in Nat /\ k \in Nat BY <1>2, <1>10, <2>1
    <3> QED BY ONLY pt \in Nat, <1>2, <3>1
  <2> QED BY <2>2, <2>3, <2>4, <2>5, <2>6
<1> QED BY <1>7, <1>8, <1>9, <1>10 DEF Gapped

(***************************************************************************)
(* The buffers that the operators make.                                    *)
(***************************************************************************)
WithPoint(b, a, o) == [b EXCEPT !.array = a, !.pt = o]

LEMMA PointAtParts ==
    ASSUME NEW b, Shaped(b), NEW o, NEW a, NEW c, c = WithPoint(b, a, o)
    PROVE  /\ Shaped(c) /\ c.array = a /\ c.pt = o
           /\ c.gap = b.gap /\ c.mark = b.mark /\ c.index = b.index
           /\ c.mode = b.mode /\ c.states = b.states
BY DEF Shaped, WithPoint

LEMMA PointAtKeeps ==
    ASSUME NEW t \in Seq(TextChars), NEW b, Shaped(b), Gapped(b.array, b.pt, b.gap, t),
           NEW o \in 0 .. Len(t), NEW c, c = PointAt(b, o)
    PROVE  /\ Shaped(c) /\ c.pt = o /\ c.mark = b.mark
           /\ Gapped(c.array, o, c.gap, t)
<1>1. b.pt \in Nat /\ o \in Nat BY GappedFacts
<1>2. CASE o < b.pt
  <2>1. PICK blanks : blanks = IF b.pt - o < b.gap THEN b.pt - o ELSE b.gap OBVIOUS
  <2>2. PICK a : a = Filled(Moved(b.array, o + b.gap, o, b.pt - o), o, blanks) OBVIOUS
  <2>3. c = WithPoint(b, a, o) BY <1>2, <2>1, <2>2 DEF PointAt, WithPoint
  <2>4. Gapped(a, o, b.gap, t) BY <1>2, <2>1, <2>2, PointMovesBack
  <2>5. Shaped(c) /\ c.array = a /\ c.pt = o /\ c.gap = b.gap /\ c.mark = b.mark BY <2>3, PointAtParts
  <2> QED BY <2>4, <2>5
<1>3. CASE ~ (o < b.pt)
  <2>1. PICK blanks : blanks = IF o - b.pt < b.gap THEN o - b.pt ELSE b.gap OBVIOUS
  <2>2. PICK a : a = Filled(Moved(b.array, b.pt, b.pt + b.gap, o - b.pt), o + b.gap - blanks, blanks)
    OBVIOUS
  <2>3. c = WithPoint(b, a, o) BY <1>3, <2>1, <2>2 DEF PointAt, WithPoint
  <2>4. b.pt <= o BY <1>1, <1>3
  <2>5. Gapped(a, o, b.gap, t) BY <2>1, <2>2, <2>4, PointMovesOn
  <2>6. Shaped(c) /\ c.array = a /\ c.pt = o /\ c.gap = b.gap /\ c.mark = b.mark BY <2>3, PointAtParts
  <2> QED BY <2>5, <2>6
<1> QED BY <1>2, <1>3

(* What is derived from the text is apart from it.                          *)
SameText(b, c) == /\ Shaped(c) /\ c.array = b.array /\ c.pt = b.pt
                  /\ c.gap = b.gap /\ c.mark = b.mark

LEMMA IndexApart ==
    ASSUME NEW b, Shaped(b), NEW i, NEW c, c = [b EXCEPT !.index = i]
    PROVE  SameText(b, c)
BY DEF Shaped, SameText

LEMMA StatesApart ==
    ASSUME NEW b, Shaped(b), NEW i, NEW c, c = [b EXCEPT !.states = i]
    PROVE  SameText(b, c)
BY DEF Shaped, SameText

LEMMA SameTextAgain ==
    ASSUME NEW b, NEW c, NEW d, SameText(b, c), SameText(c, d)
    PROVE  SameText(b, d)
BY DEF SameText

LEMMA IndexedApart ==
    ASSUME NEW b, Shaped(b), NEW o, NEW c, c = Indexed(b, o)
    PROVE  SameText(b, c)
<1>1. PICK i : c = [b EXCEPT !.index = i] BY Zenon DEF Indexed
<1> QED BY <1>1, IndexApart

LEMMA LinesForgottenApart ==
    ASSUME NEW b, Shaped(b), NEW o, NEW c, c = LinesForgotten(b, o)
    PROVE  SameText(b, c)
<1>1. PICK d : d = Indexed(b, o) OBVIOUS
<1>2. SameText(b, d) BY <1>1, IndexedApart
<1>3. PICK i : c = [d EXCEPT !.index = i] BY <1>1, Zenon DEF LinesForgotten
<1>4. SameText(d, c) BY <1>2, <1>3, IndexApart DEF SameText
<1> QED BY <1>2, <1>4, SameTextAgain

LEMMA StatesForgottenApart ==
    ASSUME NEW b, Shaped(b), NEW o, NEW c, c = StatesForgotten(b, o)
    PROVE  SameText(b, c)
<1>1. PICK d : d = Indexed(b, o) OBVIOUS
<1>2. SameText(b, d) BY <1>1, IndexedApart
<1>3. SameText(b, b) BY DEF SameText
<1>4. CASE c = b \/ c = d BY <1>2, <1>3, <1>4
<1>5. CASE \E i : c = [d EXCEPT !.states = i]
  <2>1. PICK i : c = [d EXCEPT !.states = i] BY <1>5
  <2>2. SameText(d, c) BY <1>2, <2>1, StatesApart DEF SameText
  <2> QED BY <1>2, <2>2, SameTextAgain
<1>6. c = b \/ c = d \/ \E i : c = [d EXCEPT !.states = i] BY <1>1, Zenon DEF StatesForgotten
<1> QED BY <1>4, <1>5, <1>6

LEMMA StatesKnownApart ==
    ASSUME NEW b, Shaped(b), NEW line, NEW c, c = StatesKnown(b, line)
    PROVE  SameText(b, c)
<1>1. c = b \/ \E i : c = [b EXCEPT !.states = i] BY Zenon DEF StatesKnown
<1>2. SameText(b, b) BY DEF SameText
<1> QED BY <1>1, <1>2, StatesApart

(* The buffers that opening the gap and filling it leave.                   *)
WithGap(b, a, g) == [b EXCEPT !.array = a, !.gap = g]
WithOnlyGap(b, g) == [b EXCEPT !.gap = g]
WithPut(b, a, pt, m) == [b EXCEPT !.array = a, !.pt = pt, !.mark = m]

LEMMA WithGapParts ==
    ASSUME NEW b, Shaped(b), NEW a, NEW g, NEW c, c = WithGap(b, a, g)
    PROVE  Shaped(c) /\ c.array = a /\ c.gap = g /\ c.pt = b.pt /\ c.mark = b.mark
BY DEF Shaped, WithGap
LEMMA WithOnlyGapParts ==
    ASSUME NEW b, Shaped(b), NEW g, NEW c, c = WithOnlyGap(b, g)
    PROVE  Shaped(c) /\ c.array = b.array /\ c.gap = g /\ c.pt = b.pt /\ c.mark = b.mark
BY DEF Shaped, WithOnlyGap
LEMMA WithPutParts ==
    ASSUME NEW b, Shaped(b), NEW a, NEW pt, NEW m, NEW c, c = WithPut(b, a, pt, m)
    PROVE  Shaped(c) /\ c.array = a /\ c.gap = b.gap /\ c.pt = pt /\ c.mark = m
BY DEF Shaped, WithPut

(* The cells after point that are not filled anew.                          *)
KeptCells(g, del, n) == Larger(g, n) + (IF g + del < n THEN MIN_GAP ELSE 0)

(* c is b with the gap made large enough.                                   *)
Fits(c, b, t, del, n, kept) ==
    /\ Shaped(c) /\ c.pt = b.pt /\ c.mark = b.mark
    /\ Opened(c.array, b.pt, c.gap, t, del, n, kept)
    /\ kept \in Nat /\ n <= kept

LEMMA ResizedOpens ==
    ASSUME NEW t \in Seq(TextChars), NEW b, Shaped(b), Gapped(b.array, b.pt, b.gap, t),
           NEW del \in Nat, b.pt + del <= Len(t), NEW n \in Nat,
           NEW kept, kept = KeptCells(b.gap, del, n), NEW c, c = Resized(b, del, n)
    PROVE  Fits(c, b, t, del, n, kept)
<1>1. b.gap \in Nat /\ b.pt \in Nat BY GappedFacts
<1>2. MIN_GAP \in Nat /\ MAX_GAP \in Nat BY GapAssumption
<1>3. kept \in Nat /\ n <= kept BY <1>1, <1>2 DEF Larger, KeptCells
<1>4. CASE b.gap + del < n
  <2>1. PICK a : a = Filled(WidenedGap(b.array, b.pt, n + MIN_GAP - (b.gap + del)), b.pt + n, MIN_GAP)
    OBVIOUS
  <2>2. c = WithGap(b, a, MIN_GAP) BY <1>4, <2>1 DEF Resized, Widened, WithGap
  <2>3. Opened(a, b.pt, MIN_GAP, t, del, n, kept) BY <1>4, <2>1, WidenedOpens
  <2>4. Shaped(c) /\ c.array = a /\ c.gap = MIN_GAP /\ c.pt = b.pt /\ c.mark = b.mark BY <2>2, WithGapParts
  <2> QED BY <1>3, <2>3, <2>4 DEF Fits
<1>5. CASE ~ (b.gap + del < n) /\ b.gap + del > MAX_GAP + n
  <2>1. PICK a : a = Shut(b.array, b.pt + n + MAX_GAP, b.gap + del - (MAX_GAP + n)) OBVIOUS
  <2>2. c = WithGap(b, a, MAX_GAP) BY <1>5, <2>1 DEF Resized, Narrowed, WithGap
  <2>3. kept = Larger(b.gap, n)
    <3>1. Larger(b.gap, n) \in Nat BY <1>1 DEF Larger
    <3> QED BY <1>5, <3>1 DEF KeptCells
  <2>4. Opened(a, b.pt, MAX_GAP, t, del, n, kept) BY <1>5, <2>1, <2>3, NarrowedOpens
  <2>5. Shaped(c) /\ c.array = a /\ c.gap = MAX_GAP /\ c.pt = b.pt /\ c.mark = b.mark BY <2>2, WithGapParts
  <2> QED BY <1>3, <2>4, <2>5 DEF Fits
<1>6. CASE ~ (b.gap + del < n) /\ ~ (b.gap + del > MAX_GAP + n)
  <2>1. PICK g : g = b.gap + del - n OBVIOUS
  <2>2. c = WithOnlyGap(b, g) BY <1>6, <2>1 DEF Resized, WithOnlyGap
  <2>3. kept = Larger(b.gap, n)
    <3>1. Larger(b.gap, n) \in Nat BY <1>1 DEF Larger
    <3> QED BY <1>6, <3>1 DEF KeptCells
  <2>4. n <= b.gap + del BY <1>1, <1>6
  <2>5. Opened(b.array, b.pt, b.gap + del - n, t, del, n, kept) BY <2>3, <2>4, EnoughIsOpen
  <2>6. Shaped(c) /\ c.array = b.array /\ c.gap = g /\ c.pt = b.pt /\ c.mark = b.mark
    BY <2>2, WithOnlyGapParts
  <2> QED BY <1>3, <2>1, <2>5, <2>6 DEF Fits
<1> QED BY <1>4, <1>5, <1>6

(* c is what Put leaves of b, and its text is u.                            *)
PutDone(c, b, del, new, u) ==
    /\ Shaped(c) /\ c.pt = b.pt + Len(new) /\ c.mark = Adjusted(b.mark, b.pt, del, Len(new))
    /\ Gapped(c.array, c.pt, c.gap, u)

LEMMA PutKeeps ==
    ASSUME NEW t \in Seq(TextChars), NEW b, Shaped(b), Gapped(b.array, b.pt, b.gap, t),
           NEW del \in Nat, b.pt + del <= Len(t), NEW new \in Seq(TextChars),
           NEW u, PutIn(u, t, b.pt, del, new), NEW c, c = Put(b, del, new)
    PROVE  PutDone(c, b, del, new, u)
<1>1. PICK n : n = Len(new) OBVIOUS
<1>2. PICK kept : kept = KeptCells(b.gap, del, n) OBVIOUS
<1>3. PICK e : e = StatesForgotten(LinesForgotten(b, b.pt), b.pt) OBVIOUS
<1>4. SameText(b, e)
  <2>1. PICK d : d = LinesForgotten(b, b.pt) OBVIOUS
  <2>2. SameText(b, d) BY <2>1, LinesForgottenApart
  <2>3. Shaped(d) BY <2>2 DEF SameText
  <2>4. e = StatesForgotten(d, b.pt) BY <1>3, <2>1
  <2>5. SameText(d, e) BY <2>3, <2>4, StatesForgottenApart
  <2> QED BY <2>2, <2>5, SameTextAgain
<1>5. PICK f : f = Resized(e, del, n) OBVIOUS
<1>6. n \in Nat /\ b.pt \in Nat BY <1>1, GappedFacts
<1>7. /\ Shaped(f) /\ f.pt = b.pt /\ f.mark = b.mark
      /\ Opened(f.array, b.pt, f.gap, t, del, n, kept)
      /\ kept \in Nat /\ n <= kept
  <2>1. Shaped(e) /\ e.array = b.array /\ e.pt = b.pt /\ e.gap = b.gap /\ e.mark = b.mark
    BY <1>4 DEF SameText
  <2>2. Gapped(e.array, e.pt, e.gap, t) /\ e.pt + del <= Len(t)
        /\ kept = KeptCells(e.gap, del, n)
    BY <1>2, <2>1
  <2>3. Fits(f, e, t, del, n, kept) BY <1>5, <1>6, <2>1, <2>2, ResizedOpens
  <2> QED BY <2>1, <2>3 DEF Fits
<1>8. PICK a : a = Overwritten(Filled(f.array, b.pt + kept, n + f.gap - kept), b.pt, new) OBVIOUS
<1>9. c = WithPut(f, a, b.pt + n, Adjusted(f.mark, b.pt, del, n))
  BY <1>1, <1>2, <1>3, <1>5, <1>8 DEF Put, WithPut, KeptCells
<1>10. /\ Shaped(c) /\ c.array = a /\ c.gap = f.gap /\ c.pt = b.pt + n
       /\ c.mark = Adjusted(f.mark, b.pt, del, n)
  BY <1>7, <1>9, WithPutParts
<1>11. Gapped(a, b.pt + n, f.gap, u)
  <2>1. n = Len(new) /\ kept \in Nat /\ n <= kept /\ b.pt \in Nat BY <1>1, <1>6, <1>7
  <2> QED BY <1>7, <1>8, <2>1, PutInPlace
<1> QED BY <1>1, <1>7, <1>10, <1>11 DEF PutDone

LEMMA PlainPut ==
    ASSUME NEW t \in Seq(TextChars), NEW o \in Nat, NEW del \in Nat, o + del <= Len(t),
           NEW new \in Seq(TextChars),
           NEW u, u = SubSeq(t, 1, o) \o new \o SubSeq(t, o + del + 1, Len(t))
    PROVE  PutIn(u, t, o, del, new)
<1>1. PICK l : l = SubSeq(t, 1, o) OBVIOUS
<1>2. PICK r : r = SubSeq(t, o + del + 1, Len(t)) OBVIOUS
<1>3. t \in Seq(Cells) /\ new \in Seq(Cells) BY SeqMonotonic DEF Cells
<1>4. PICK p : p = o + del OBVIOUS
<1>5. o \in 0 .. Len(t) /\ p \in 0 .. Len(t) /\ Len(t) \in Nat /\ Len(new) \in Nat BY <1>4
<1>6. l \in Seq(Cells) /\ Len(l) = o /\ \A k \in 1 .. o : l[k] = t[k]
  <2>1. Begins(l, t, o) BY <1>1, <1>3, <1>5, Prefix
  <2> QED BY <2>1 DEF Begins
<1>7. r \in Seq(Cells) /\ Len(r) = Len(t) - p /\ \A k \in 1 .. Len(t) - p : r[k] = t[p + k]
  <2>1. Ends(r, t, p) BY <1>2, <1>3, <1>4, <1>5, Suffix
  <2> QED BY <2>1 DEF Ends
<1>8. l \in Seq(TextChars) /\ r \in Seq(TextChars)
  <2>1. \A k \in 1 .. o : t[k] \in TextChars BY <1>5
  <2>2. ASSUME NEW k \in o + del + 1 .. Len(t) PROVE t[k] \in TextChars
    <3>1. k \in 1 .. Len(t) BY <1>5
    <3> QED BY <3>1
  <2>3. o + del + 1 \in Int /\ Len(t) \in Int /\ o \in Int /\ 1 \in Int BY <1>5
  <2> QED BY <1>1, <1>2, <2>1, <2>2, <2>3, SubSeqProperties
<1>9. u = l \o new \o r BY <1>1, <1>2
<1>10. u \in Seq(TextChars)
  <2>1. PICK s : s = l \o new OBVIOUS
  <2>2. s \in Seq(TextChars) BY ONLY <1>8, <2>1, new \in Seq(TextChars), ConcatProperties
  <2>3. u = s \o r BY <1>9, <2>1
  <2> QED BY ONLY <1>8, <2>2, <2>3, ConcatProperties
<1>11. PICK n : n = o + Len(new) OBVIOUS
<1>12. /\ Len(u) = n + Len(r)
       /\ \A k \in 1 .. n + Len(r) :
             u[k] = IF k <= o THEN l[k] ELSE IF k <= n THEN new[k - o] ELSE r[k - n]
  <2>1. o = Len(l) /\ n = Len(l) + Len(new) BY <1>6, <1>11
  <2>2. l \in Seq(Cells) /\ r \in Seq(Cells) BY <1>6, <1>7
  <2>3. JoinsThree(u, l, new, r, o, n) BY ONLY <1>3, <1>9, <2>1, <2>2, ThreeJoined, Zenon
  <2> QED BY <2>3 DEF JoinsThree
<1>13. Len(u) = Len(t) + Len(new) - del
  <2>1. Len(u) = n + Len(r) BY <1>12
  <2>2. Len(r) = Len(t) - p BY <1>7
  <2> QED BY ONLY <1>4, <1>5, <1>11, <2>1, <2>2, o \in Nat, del \in Nat
<1>14. ASSUME NEW k \in 1 .. Len(u)
       PROVE  u[k] = IF k <= o THEN t[k] ELSE IF k <= o + Len(new) THEN new[k - o]
                     ELSE t[k - Len(new) + del]
  <2>1. k \in 1 .. n + Len(r) /\ k \in Nat
    <3>1. Len(u) = n + Len(r) BY <1>12
    <3>2. Len(u) \in Nat BY ONLY <1>10, LenProperties
    <3>3. k \in 1 .. Len(u) OBVIOUS
    <3> QED BY ONLY <3>1, <3>2, <3>3
  <2>2. CASE k <= o
    <3>1. k \in 1 .. o BY <2>1, <2>2
    <3> QED BY <1>6, <1>12, <2>1, <2>2, <3>1
  <2>3. CASE ~ (k <= o) /\ k <= n BY <1>11, <1>12, <2>1, <2>3
  <2>4. CASE ~ (k <= o) /\ ~ (k <= n)
    <3>1. u[k] = r[k - n] BY <1>12, <2>1, <2>4
    <3>2. k - n \in 1 .. Len(t) - p /\ p + (k - n) = k - Len(new) + del
      BY <1>4, <1>5, <1>7, <1>11, <2>1, <2>4
    <3>3. r[k - n] = t[p + (k - n)] BY <1>7, <3>2
    <3> QED BY <1>11, <2>4, <3>1, <3>2, <3>3
  <2> QED BY <2>2, <2>3, <2>4
<1> QED BY <1>10, <1>13, <1>14 DEF PutIn

LEMMA GappedContents ==
    ASSUME NEW t \in Seq(TextChars), NEW b, Gapped(b.array, b.pt, b.gap, t)
    PROVE  /\ Contents(b) = t /\ Length(b) = Len(t)
           /\ \A i \in b.pt + 1 .. b.pt + b.gap : b.array[i] = Blank
<1>1. PICK a : a = b.array OBVIOUS
<1>2. PICK pt : pt = b.pt OBVIOUS
<1>3. PICK g : g = b.gap OBVIOUS
<1>4. /\ a \in Seq(Cells) /\ pt \in Nat /\ g \in Nat /\ Len(t) \in Nat /\ Len(a) \in Nat
      /\ pt <= Len(t) /\ Len(a) = Len(t) + g
      /\ \A k \in 1 .. Len(a) : a[k] = IF k <= pt THEN t[k] ELSE IF k <= pt + g THEN Blank ELSE t[k - g]
  <2>1. Gapped(a, pt, g, t) BY <1>1, <1>2, <1>3
  <2> QED BY <2>1, GappedFacts
<1>5. PICK l : l = SubSeq(a, 1, pt) OBVIOUS
<1>6. PICK p : p = pt + g OBVIOUS
<1>7. PICK r : r = SubSeq(a, p + 1, Len(a)) OBVIOUS
<1>8. pt \in 0 .. Len(a) /\ p \in 0 .. Len(a) BY <1>4, <1>6
<1>9. l \in Seq(Cells) /\ Len(l) = pt /\ \A k \in 1 .. pt : l[k] = a[k]
  <2>1. Begins(l, a, pt) BY <1>4, <1>5, <1>8, Prefix
  <2> QED BY <2>1 DEF Begins
<1>10. r \in Seq(Cells) /\ Len(r) = Len(a) - p /\ \A k \in 1 .. Len(a) - p : r[k] = a[p + k]
  <2>1. Ends(r, a, p) BY <1>4, <1>7, <1>8, Suffix
  <2> QED BY <2>1 DEF Ends
<1>11. PICK c : c = l \o r OBVIOUS
<1>12. /\ c \in Seq(Cells) /\ Len(c) = Len(l) + Len(r)
       /\ \A k \in 1 .. Len(l) + Len(r) : c[k] = IF k <= Len(l) THEN l[k] ELSE r[k - Len(l)]
  <2>1. l \in Seq(Cells) /\ r \in Seq(Cells) BY <1>9, <1>10
  <2>2. Joins(c, l, r) BY ONLY <1>11, <2>1, Joined, Zenon
  <2> QED BY <2>2 DEF Joins
<1>13. Len(c) = Len(t) BY <1>4, <1>6, <1>9, <1>10, <1>12
<1>14. ASSUME NEW k \in 1 .. Len(c) PROVE c[k] = t[k]
  <2>1. k \in Nat /\ k \in 1 .. Len(l) + Len(r) BY <1>4, <1>12, <1>13
  <2>2. CASE k <= pt
    <3>1. k \in 1 .. pt /\ k \in 1 .. Len(a) BY <1>4, <2>1, <2>2
    <3>2. c[k] = l[k] BY <1>9, <1>12, <2>1, <2>2
    <3> QED BY <1>4, <1>9, <2>2, <3>1, <3>2
  <2>3. CASE ~ (k <= pt)
    <3>1. c[k] = r[k - pt] BY <1>9, <1>12, <2>1, <2>3
    <3>2. k - pt \in 1 .. Len(a) - p BY <1>4, <1>6, <1>13, <2>1, <2>3
    <3>3. r[k - pt] = a[p + (k - pt)] BY <1>10, <3>2
    <3>4. PICK j : j = p + (k - pt) OBVIOUS
    <3>5. j \in 1 .. Len(a) /\ ~ (j <= pt) /\ ~ (j <= pt + g) /\ j - g = k
      BY <1>4, <1>6, <1>13, <2>1, <2>3, <3>4
    <3>6. a[j] = t[j - g] BY <1>4, <3>5
    <3> QED BY <3>1, <3>3, <3>4, <3>5, <3>6
  <2> QED BY <2>2, <2>3
<1>15. c = t
  <2>1. t \in Seq(Cells) BY SeqMonotonic DEF Cells
  <2> QED BY <1>12, <1>13, <1>14, <2>1, SeqEqual
<1>16. Contents(b) = c BY <1>1, <1>2, <1>3, <1>5, <1>6, <1>7, <1>11 DEF Contents
<1>17. Length(b) = Len(t) BY <1>1, <1>3, <1>4 DEF Length
<1>18. ASSUME NEW i \in b.pt + 1 .. b.pt + b.gap PROVE b.array[i] = Blank
  <2>1. i \in 1 .. Len(a) /\ ~ (i <= pt) /\ i <= pt + g BY <1>2, <1>3, <1>4
  <2> QED BY <1>1, <1>4, <2>1
<1> QED BY <1>15, <1>16, <1>17, <1>18

(***************************************************************************)
(* The marker.                                                             *)
(***************************************************************************)
LEMMA MarkFollows ==
    ASSUME NEW l \in Nat, NEW m \in 0 .. l, NEW o \in Nat, NEW del \in Nat, o + del <= l,
           NEW n \in Nat, l + n - del <= MAX_BUFFER, m <= o \/ m + n >= del
    PROVE  Adjusted(m, o, del, n) = InPlace(m, o, del, n)
<1>1. WORD \in Nat /\ MAX_BUFFER \in Nat /\ MAX_BUFFER < WORD BY GapAssumption
<1>2. CASE m <= o BY <1>2 DEF Adjusted, InPlace
<1>3. CASE ~ (m <= o)
  <2>1. PICK k : k = m + n - del OBVIOUS
  <2>2. k \in Nat /\ k < WORD BY <1>1, <1>3, <2>1
  <2>3. k % WORD = k BY <1>1, <2>2
  <2> QED BY <1>3, <2>1, <2>3 DEF Adjusted, InPlace
<1> QED BY <1>2, <1>3

LEMMA MarkIsInText ==
    ASSUME NEW l \in Nat, NEW m \in 0 .. l, NEW o \in Nat, NEW del \in Nat, o + del <= l, NEW n \in Nat
    PROVE  InPlace(m, o, del, n) \in 0 .. l + n - del
BY DEF InPlace, Larger

LEMMA AdjustedIsOffset ==
    ASSUME NEW m \in Nat, NEW o \in Nat, NEW del \in Nat, NEW n \in Nat
    PROVE  Adjusted(m, o, del, n) \in Nat
<1>1. WORD \in Nat \ {0} BY GapAssumption
<1>2. PICK k : k = m + n - del OBVIOUS
<1>3. k % WORD \in Nat BY <1>1, <1>2
<1> QED BY <1>2, <1>3 DEF Adjusted, Larger

(***************************************************************************)
(* The invariant.                                                          *)
(***************************************************************************)
MarkerInPlace == ~ MARKS_INSIDE => text.mark = marked
TextInv == /\ plain \in Seq(TextChars) /\ Len(plain) <= MAX_BUFFER
           /\ marked \in 0 .. Len(plain) /\ text.mark \in Nat /\ MarkerInPlace
           /\ Shaped(text) /\ Gapped(text.array, text.pt, text.gap, plain)

LEMMA TextBegins == TextInit => TextInv
<1> SUFFICES ASSUME TextInit PROVE TextInv OBVIOUS
<1>1. /\ text.array = <<>> /\ text.pt = 0 /\ text.gap = 0 /\ text.mark = 0
      /\ plain = <<>> /\ marked = 0
  BY DEF TextInit
<1>2. Shaped(text) BY DEF TextInit, Shaped
<1>3. plain \in Seq(TextChars) /\ Len(plain) = 0 BY <1>1, EmptySeq
<1>4. text.array \in Seq(Cells) /\ Len(text.array) = 0 BY <1>1, EmptySeq
<1>5. Gapped(text.array, text.pt, text.gap, plain) BY <1>1, <1>3, <1>4 DEF Gapped
<1> QED BY <1>1, <1>2, <1>3, <1>5, GapAssumption DEF TextInv, MarkerInPlace

(* Any change of the text, once the buffer b it leaves is right.            *)
LEMMA EditKeeps ==
    ASSUME TextInv, NEW o \in Nat, NEW del \in Nat, o + del <= Len(plain),
           NEW new \in Seq(TextChars), NEW b, Edited(b, o, del, new),
           Shaped(b), b.mark = Adjusted(text.mark, o, del, Len(new)),
           \A u : PutIn(u, plain, o, del, new) => Gapped(b.array, b.pt, b.gap, u)
    PROVE  TextInv'
<1>1. PutIn(plain', plain, o, del, new) BY PlainPut DEF TextInv, Edited
<1>2. plain' \in Seq(TextChars) /\ Len(plain') = Len(plain) + Len(new) - del BY <1>1 DEF PutIn
<1>3. Len(plain') <= MAX_BUFFER
  <2>1. Len(plain) + Len(new) - del <= MAX_BUFFER BY DEF Edited
  <2> QED BY <1>2, <2>1
<1>4. Gapped(text'.array, text'.pt, text'.gap, plain') /\ Shaped(text')
  BY <1>1 DEF Edited
<1>5. marked' = InPlace(marked, o, del, Len(new)) /\ MarkStays(o, del, Len(new))
  BY DEF Edited
<1>6. Len(plain) \in Nat /\ Len(new) \in Nat /\ marked \in 0 .. Len(plain) BY DEF TextInv
<1>7. marked' \in 0 .. Len(plain')
  <2>1. PICK l : l = Len(plain) OBVIOUS
  <2>2. PICK n : n = Len(new) OBVIOUS
  <2>3. l \in Nat /\ n \in Nat /\ marked \in 0 .. l /\ o + del <= l BY <1>6, <2>1, <2>2
  <2>4. InPlace(marked, o, del, n) \in 0 .. l + n - del BY <2>3, MarkIsInText, Zenon
  <2> QED BY <1>2, <1>5, <2>1, <2>2, <2>4
<1>8. text'.mark = Adjusted(text.mark, o, del, Len(new)) BY DEF Edited
<1>9. text'.mark \in Nat
  <2>1. text.mark \in Nat BY DEF TextInv
  <2>2. PICK n : n = Len(new) OBVIOUS
  <2>3. n \in Nat BY <1>6, <2>2
  <2>4. Adjusted(text.mark, o, del, n) \in Nat BY <2>1, <2>3, AdjustedIsOffset
  <2> QED BY <1>8, <2>2, <2>4
<1>10. ~ MARKS_INSIDE => text'.mark = marked'
  <2> SUFFICES ASSUME ~ MARKS_INSIDE PROVE text'.mark = marked' OBVIOUS
  <2>1. marked <= o \/ marked + Len(new) >= del BY <1>5 DEF MarkStays
  <2>2. Adjusted(marked, o, del, Len(new)) = InPlace(marked, o, del, Len(new))
    <3>1. PICK l : l = Len(plain) OBVIOUS
    <3>2. PICK n : n = Len(new) OBVIOUS
    <3>3. l + n - del <= MAX_BUFFER BY <1>2, <1>3, <3>1, <3>2
    <3>4. l \in Nat /\ n \in Nat /\ marked \in 0 .. l /\ o + del <= l /\ (marked <= o \/ marked + n >= del)
      BY <1>6, <2>1, <3>1, <3>2
    <3>5. Adjusted(marked, o, del, n) = InPlace(marked, o, del, n) BY ONLY <3>3, <3>4, o \in Nat, del \in Nat, MarkFollows
    <3> QED BY <3>2, <3>5
  <2>3. text.mark = marked BY DEF TextInv, MarkerInPlace
  <2> QED BY <1>5, <1>8, <2>2, <2>3
<1> QED BY <1>2, <1>3, <1>4, <1>7, <1>9, <1>10 DEF TextInv, MarkerInPlace

LEMMA PutAtPoint ==
    ASSUME TextInv, NEW o \in Nat, NEW del \in Nat, o + del <= Len(plain),
           NEW new \in Seq(TextChars), NEW b, b = Put(PointAt(text, o), del, new)
    PROVE  /\ Shaped(b) /\ b.mark = Adjusted(text.mark, o, del, Len(new))
           /\ \A u : PutIn(u, plain, o, del, new) => Gapped(b.array, b.pt, b.gap, u)
<1>1. /\ plain \in Seq(TextChars) /\ Shaped(text) /\ Gapped(text.array, text.pt, text.gap, plain)
  BY DEF TextInv
<1>2. o \in 0 .. Len(plain) BY <1>1
<1>3. PICK c : c = PointAt(text, o) OBVIOUS
<1>4. Shaped(c) /\ c.pt = o /\ c.mark = text.mark /\ Gapped(c.array, o, c.gap, plain)
  BY <1>1, <1>2, <1>3, PointAtKeeps
<1>5. b = Put(c, del, new) BY <1>3
<1>6. Gapped(c.array, c.pt, c.gap, plain) /\ c.pt + del <= Len(plain) BY <1>4
<1>7. PutIn(SubSeq(plain, 1, o) \o new \o SubSeq(plain, o + del + 1, Len(plain)), plain, o, del, new)
  BY <1>1, PlainPut
<1>8. ASSUME NEW u, PutIn(u, plain, o, del, new)
      PROVE  /\ Shaped(b) /\ b.mark = Adjusted(text.mark, o, del, Len(new))
             /\ Gapped(b.array, b.pt, b.gap, u)
  <2>1. PutIn(u, plain, c.pt, del, new) BY <1>4, <1>8
  <2>2. PutDone(b, c, del, new, u) BY <1>1, <1>4, <1>5, <1>6, <2>1, PutKeeps
  <2> QED BY <1>4, <2>2 DEF PutDone
<1> QED BY <1>7, <1>8

(* Moving point in a buffer that is right leaves it right.                  *)
LEMMA ThenPoint ==
    ASSUME NEW t \in Seq(TextChars), NEW b, Shaped(b), Gapped(b.array, b.pt, b.gap, t),
           NEW o \in 0 .. Len(t), NEW c, c = PointAt(b, o)
    PROVE  Shaped(c) /\ c.mark = b.mark /\ Gapped(c.array, c.pt, c.gap, t)
<1>1. Shaped(c) /\ c.pt = o /\ c.mark = b.mark /\ Gapped(c.array, o, c.gap, t) BY PointAtKeeps
<1> QED BY <1>1

(* Point where it is needs no moving.                                       *)
LEMMA PutHere ==
    ASSUME TextInv, NEW del \in Nat, text.pt + del <= Len(plain),
           NEW new \in Seq(TextChars), NEW b, b = Put(text, del, new)
    PROVE  /\ Shaped(b) /\ b.mark = Adjusted(text.mark, text.pt, del, Len(new))
           /\ \A u : PutIn(u, plain, text.pt, del, new) => Gapped(b.array, b.pt, b.gap, u)
<1>1. /\ plain \in Seq(TextChars) /\ Shaped(text) /\ Gapped(text.array, text.pt, text.gap, plain)
      /\ text.pt \in Nat
  BY GappedFacts DEF TextInv
<1>2. ASSUME NEW u, PutIn(u, plain, text.pt, del, new)
      PROVE  /\ Shaped(b) /\ b.mark = Adjusted(text.mark, text.pt, del, Len(new))
             /\ Gapped(b.array, b.pt, b.gap, u)
  <2>1. PutDone(b, text, del, new, u) BY <1>1, <1>2, PutKeeps
  <2> QED BY <2>1 DEF PutDone
<1>3. PutIn(SubSeq(plain, 1, text.pt) \o new \o SubSeq(plain, text.pt + del + 1, Len(plain)),
            plain, text.pt, del, new)
  BY <1>1, PlainPut
<1> QED BY <1>2, <1>3

(***************************************************************************)
(* The commands.                                                           *)
(***************************************************************************)
LEMMA TextFacts ==
    ASSUME TextInv
    PROVE  /\ plain \in Seq(TextChars) /\ Len(plain) \in Nat /\ Len(plain) <= MAX_BUFFER
           /\ Shaped(text) /\ Gapped(text.array, text.pt, text.gap, plain)
           /\ text.pt \in Nat /\ text.pt <= Len(plain) /\ Length(text) = Len(plain)
           /\ text.mark \in Nat
BY GappedFacts, GappedContents DEF TextInv

LEMMA InsertKeeps == TextInv /\ Insert => TextInv'
<1> SUFFICES ASSUME TextInv, Insert PROVE TextInv' OBVIOUS
<1>1. PICK new \in Typed : Edited(Put(text, 0, new), text.pt, 0, new) BY DEF Insert
<1>2. new \in Seq(TextChars)
  <2>1. PICK n \in 1 .. 2 : new \in [1 .. n -> TextChars] BY DEF Typed
  <2> QED BY <2>1, SeqDef
<1>3. PICK b : b = Put(text, 0, new) OBVIOUS
<1>4. text.pt \in Nat /\ text.pt + 0 <= Len(plain) BY TextFacts
<1>5. /\ Shaped(b) /\ b.mark = Adjusted(text.mark, text.pt, 0, Len(new))
      /\ \A u : PutIn(u, plain, text.pt, 0, new) => Gapped(b.array, b.pt, b.gap, u)
  BY <1>2, <1>3, <1>4, PutHere
<1>6. Edited(b, text.pt, 0, new) BY <1>1, <1>3
<1> QED BY <1>2, <1>4, <1>5, <1>6, EditKeeps

LEMMA DeleteKeeps == TextInv /\ Delete => TextInv'
<1> SUFFICES ASSUME TextInv, Delete PROVE TextInv' OBVIOUS
<1>1. PICK n \in 1 .. Length(text) - text.pt : Edited(Put(text, n, <<>>), text.pt, n, <<>>)
  BY DEF Delete
<1>2. PICK new : new = <<>> OBVIOUS
<1>3. new \in Seq(TextChars) BY <1>2, EmptySeq
<1>4. PICK b : b = Put(text, n, new) OBVIOUS
<1>5. text.pt \in Nat /\ n \in Nat /\ text.pt + n <= Len(plain) BY TextFacts
<1>6. /\ Shaped(b) /\ b.mark = Adjusted(text.mark, text.pt, n, Len(new))
      /\ \A u : PutIn(u, plain, text.pt, n, new) => Gapped(b.array, b.pt, b.gap, u)
  BY <1>3, <1>4, <1>5, PutHere
<1>7. Edited(b, text.pt, n, new) BY <1>1, <1>2, <1>4
<1> QED BY <1>3, <1>5, <1>6, <1>7, EditKeeps

(* Point is placed anew in the text with the change made.                   *)
LEMMA PutThenPoint ==
    ASSUME TextInv, NEW o \in Nat, NEW del \in Nat, o + del <= Len(plain),
           NEW new \in Seq(TextChars), NEW b, b = Put(PointAt(text, o), del, new),
           NEW at, at \in 0 .. Length(b), NEW c, c = PointAt(b, at), Edited(c, o, del, new)
    PROVE  TextInv'
<1>1. /\ Shaped(b) /\ b.mark = Adjusted(text.mark, o, del, Len(new))
      /\ \A u : PutIn(u, plain, o, del, new) => Gapped(b.array, b.pt, b.gap, u)
  BY PutAtPoint
<1>2. ASSUME NEW u, PutIn(u, plain, o, del, new)
      PROVE  Shaped(c) /\ c.mark = b.mark /\ Gapped(c.array, c.pt, c.gap, u)
  <2>1. u \in Seq(TextChars) /\ Gapped(b.array, b.pt, b.gap, u) BY <1>1, <1>2 DEF PutIn
  <2>2. at \in 0 .. Len(u) BY <2>1, GappedContents
  <2> QED BY <1>1, <2>1, <2>2, ThenPoint
<1>3. PutIn(SubSeq(plain, 1, o) \o new \o SubSeq(plain, o + del + 1, Len(plain)), plain, o, del, new)
  BY TextFacts, PlainPut
<1>4. Shaped(c) /\ c.mark = Adjusted(text.mark, o, del, Len(new)) BY <1>1, <1>2, <1>3
<1> QED BY <1>2, <1>4, EditKeeps

LEMMA LengthAfterPut ==
    ASSUME TextInv, NEW o \in Nat, NEW del \in Nat, o + del <= Len(plain),
           NEW new \in Seq(TextChars), NEW b, b = Put(PointAt(text, o), del, new)
    PROVE  Length(b) = Len(plain) + Len(new) - del
<1>1. \A u : PutIn(u, plain, o, del, new) => Gapped(b.array, b.pt, b.gap, u) BY PutAtPoint
<1>2. PICK u : PutIn(u, plain, o, del, new) BY TextFacts, PlainPut
<1>3. u \in Seq(TextChars) /\ Len(u) = Len(plain) + Len(new) - del BY <1>2 DEF PutIn
<1>4. Length(b) = Len(u) BY <1>1, <1>2, <1>3, GappedContents
<1> QED BY <1>3, <1>4

LEMMA RegionDeleteKeeps == TextInv /\ RegionDelete => TextInv'
<1> SUFFICES ASSUME TextInv, RegionDelete PROVE TextInv' OBVIOUS
<1>1. PICK o : o = IF text.pt < text.mark THEN text.pt ELSE text.mark OBVIOUS
<1>2. PICK n : n = Larger(text.pt, text.mark) - o OBVIOUS
<1>3. PICK new : new = <<>> OBVIOUS
<1>4. PICK b : b = Put(PointAt(text, o), n, new) OBVIOUS
<1>5. PICK at : at = Adjusted(text.pt, o, n, 0) OBVIOUS
<1>6. PICK c : c = PointAt(b, at) OBVIOUS
<1>7. Edited(c, o, n, new) /\ text.mark <= Length(text)
  BY <1>1, <1>2, <1>3, <1>4, <1>5, <1>6 DEF RegionDelete
<1>8. new \in Seq(TextChars) /\ Len(new) = 0 BY <1>3, EmptySeq
<1>9. /\ o \in Nat /\ n \in Nat /\ o + n <= Len(plain) /\ (text.pt = o \/ text.pt = o + n)
  BY <1>1, <1>2, <1>7, TextFacts DEF Larger
<1>10. Length(b) = Len(plain) + 0 - n BY <1>4, <1>8, <1>9, LengthAfterPut
<1>11. at = o
  <2>1. WORD \in Nat /\ o < WORD BY <1>9, TextFacts, GapAssumption
  <2>2. CASE text.pt <= o BY <1>5, <1>9, <2>2 DEF Adjusted
  <2>3. CASE ~ (text.pt <= o)
    <3>1. text.pt + 0 - n = o BY <1>9, <2>3
    <3>2. at = Larger(o, o % WORD) BY <1>5, <2>3, <3>1 DEF Adjusted
    <3>3. o % WORD = o BY <1>9, <2>1
    <3> QED BY <3>2, <3>3 DEF Larger
  <2> QED BY <2>2, <2>3
<1>12. at \in 0 .. Length(b) BY <1>9, <1>10, <1>11, TextFacts
<1> QED BY <1>4, <1>6, <1>7, <1>8, <1>9, <1>12, PutThenPoint

(* What two texts have in common at the start is a part of both.            *)
LEMMA CommonIsInBoth ==
    ASSUME NEW s \in Seq(TextChars), NEW t \in Seq(TextChars)
    PROVE  Common(s, t) \in 0 .. Len(s) /\ Common(s, t) <= Len(t)
<1> DEFINE Differ(k) == k = Len(s) \/ k = Len(t) \/ s[k + 1] # t[k + 1]
           T == {k \in Nat : Differ(k)}
           IsCommon(n) == /\ n <= Len(t) /\ SubSeq(s, 1, n) = SubSeq(t, 1, n)
                          /\ n < Len(s) /\ n < Len(t) => s[n + 1] # t[n + 1]
<1>1. Len(s) \in T /\ Len(t) \in T OBVIOUS
<1>2. PICK n \in T : \A k \in T : n <= k
  <2>1. T \subseteq Nat /\ T # {} BY <1>1
  <2> QED BY <2>1, LeastNumber
<1>3. n \in Nat /\ n <= Len(s) /\ n <= Len(t) BY <1>1, <1>2
<1>4. SubSeq(s, 1, n) = SubSeq(t, 1, n)
  <2>1. ASSUME NEW k \in 1 .. n PROVE s[k] = t[k]
    <3>1. PICK m : m = k - 1 OBVIOUS
    <3>2. m \in Nat /\ m < n /\ m + 1 = k BY <1>3, <3>1
    <3>3. m \notin T
      <4> HIDE DEF T
      <4>1. m \in T => n <= m BY <1>2
      <4> QED BY <1>3, <3>2, <4>1
    <3>4. ~ Differ(m) BY <3>2, <3>3
    <3> QED BY <3>2, <3>4
  <2>2. s \in Seq(Cells) /\ t \in Seq(Cells) BY SeqMonotonic DEF Cells
  <2>3. PICK p : p = SubSeq(s, 1, n) OBVIOUS
  <2>4. PICK q : q = SubSeq(t, 1, n) OBVIOUS
  <2>5. n \in 0 .. Len(s) /\ n \in 0 .. Len(t) BY <1>3
  <2>6. p \in Seq(Cells) /\ Len(p) = n /\ \A k \in 1 .. n : p[k] = s[k] BY <2>2, <2>3, <2>5, Prefix DEF Begins
  <2>7. q \in Seq(Cells) /\ Len(q) = n /\ \A k \in 1 .. n : q[k] = t[k] BY <2>2, <2>4, <2>5, Prefix DEF Begins
  <2>8. \A k \in 1 .. Len(p) : p[k] = q[k] BY <2>1, <2>6, <2>7
  <2>9. p = q BY <2>6, <2>7, <2>8, SeqEqual
  <2> QED BY <2>3, <2>4, <2>9
<1>5. IsCommon(n)
  <2>1. Differ(n) BY <1>2
  <2> QED BY <1>3, <1>4, <2>1
<1>6. n \in 0 .. Len(s) BY <1>3
<1> HIDE DEF IsCommon
<1>7. PICK c : c = CHOOSE m \in 0 .. Len(s) : IsCommon(m) OBVIOUS
<1>8. c \in 0 .. Len(s) /\ IsCommon(c) BY <1>5, <1>6, <1>7
<1>9. c = Common(s, t) BY <1>7 DEF Common, IsCommon
<1> QED BY <1>8, <1>9 DEF IsCommon

LEMMA ReversedText ==
    ASSUME NEW s \in Seq(TextChars)
    PROVE  Reverse(s) \in Seq(TextChars) /\ Len(Reverse(s)) = Len(s)
<1>1. Len(s) \in Nat /\ \A k \in 1 .. Len(s) : s[k] \in TextChars OBVIOUS
<1>2. PICK r : r = Reverse(s) OBVIOUS
<1>3. \A k \in 1 .. Len(s) : r[k] = s[(Len(s) - k) + 1] BY <1>2 DEF Reverse
<1>4. ASSUME NEW k \in 1 .. Len(s) PROVE r[k] \in TextChars
  <2>1. (Len(s) - k) + 1 \in 1 .. Len(s) BY <1>1
  <2> QED BY <1>1, <1>3, <2>1
<1>5. r = [k \in 1 .. Len(s) |-> r[k]] BY <1>2 DEF Reverse
<1>6. r \in [1 .. Len(s) -> TextChars] BY ONLY <1>4, <1>5
<1> QED BY <1>1, <1>2, <1>6, SeqDef

LEMMA PartOfText ==
    ASSUME NEW s \in Seq(TextChars), NEW i \in Nat, NEW j \in Nat, i <= j, j <= Len(s)
    PROVE  SubSeq(s, i + 1, j) \in Seq(TextChars) /\ Len(SubSeq(s, i + 1, j)) = j - i
<1>1. ASSUME NEW k \in i + 1 .. j PROVE s[k] \in TextChars
  <2>1. k \in 1 .. Len(s) OBVIOUS
  <2> QED BY <2>1
<1>2. i + 1 \in Int /\ j \in Int OBVIOUS
<1>3. /\ SubSeq(s, i + 1, j) \in Seq(TextChars)
      /\ Len(SubSeq(s, i + 1, j)) = IF i + 1 <= j THEN j - (i + 1) + 1 ELSE 0
  BY <1>1, <1>2, SubSeqProperties
<1> QED BY <1>3

LEMMA RevertTextKeeps == TextInv /\ RevertText => TextInv'
<1> SUFFICES ASSUME TextInv, RevertText PROVE TextInv' OBVIOUS
<1>1. PICK new \in UNION {[1 .. n -> TextChars] : n \in 0 .. MAX_BUFFER} :
         LET p == Common(plain, new)
             q == Common(Reverse(SubSeq(plain, p + 1, Len(plain))),
                         Reverse(SubSeq(new, p + 1, Len(new))))
             del == Len(plain) - p - q
             put == SubSeq(new, p + 1, Len(new) - q)
             b == Put(PointAt(text, p), del, put)
             o == Adjusted(text.pt, p, del, Len(put))
         IN  Edited(PointAt(b, IF o < Length(b) THEN o ELSE Length(b)), p, del, put)
  BY DEF RevertText
<1>2. new \in Seq(TextChars)
  <2>1. PICK n \in 0 .. MAX_BUFFER : new \in [1 .. n -> TextChars] OBVIOUS
  <2>2. n \in Nat BY GapAssumption
  <2> QED BY <2>1, <2>2, SeqDef
<1>3. PICK p : p = Common(plain, new) OBVIOUS
<1>4. PICK q : q = Common(Reverse(SubSeq(plain, p + 1, Len(plain))),
                          Reverse(SubSeq(new, p + 1, Len(new)))) OBVIOUS
<1>5. PICK del : del = Len(plain) - p - q OBVIOUS
<1>6. PICK put : put = SubSeq(new, p + 1, Len(new) - q) OBVIOUS
<1>7. PICK b : b = Put(PointAt(text, p), del, put) OBVIOUS
<1>8. PICK o : o = Adjusted(text.pt, p, del, Len(put)) OBVIOUS
<1>9. PICK at : at = IF o < Length(b) THEN o ELSE Length(b) OBVIOUS
<1>10. PICK c : c = PointAt(b, at) OBVIOUS
<1>11. Edited(c, p, del, put) BY <1>1, <1>3, <1>4, <1>5, <1>6, <1>7, <1>8, <1>9, <1>10
<1>12. plain \in Seq(TextChars) /\ Len(plain) \in Nat /\ Len(new) \in Nat BY <1>2, TextFacts
<1>13. p \in Nat /\ p <= Len(plain) /\ p <= Len(new) BY <1>2, <1>3, <1>12, CommonIsInBoth
<1>14. q \in Nat /\ q <= Len(plain) - p /\ q <= Len(new) - p
  <2>1. PICK s : s = SubSeq(plain, p + 1, Len(plain)) OBVIOUS
  <2>2. PICK t : t = SubSeq(new, p + 1, Len(new)) OBVIOUS
  <2>0. plain \in Seq(TextChars) /\ Len(plain) \in Nat /\ Len(new) \in Nat BY <1>12
  <2>3. s \in Seq(TextChars) /\ Len(s) = Len(plain) - p
    <3>1. Len(plain) <= Len(plain) BY <2>0
    <3> QED BY ONLY <1>13, <2>0, <2>1, <3>1, PartOfText
  <2>4. t \in Seq(TextChars) /\ Len(t) = Len(new) - p
    <3>1. Len(new) <= Len(new) BY <2>0
    <3> QED BY ONLY <1>2, <1>13, <2>0, <2>2, <3>1, PartOfText
  <2>5. PICK rs : rs = Reverse(s) OBVIOUS
  <2>6. PICK rt : rt = Reverse(t) OBVIOUS
  <2>7. rs \in Seq(TextChars) /\ Len(rs) = Len(plain) - p BY <2>3, <2>5, ReversedText
  <2>8. rt \in Seq(TextChars) /\ Len(rt) = Len(new) - p BY <2>4, <2>6, ReversedText
  <2>9. q = Common(rs, rt) BY <1>4, <2>1, <2>2, <2>5, <2>6
  <2>10. q \in 0 .. Len(rs) /\ q <= Len(rt) BY <2>7, <2>8, <2>9, CommonIsInBoth
  <2> QED BY <1>12, <1>13, <2>7, <2>8, <2>10
<1>15. del \in Nat /\ p + del <= Len(plain) BY <1>5, <1>12, <1>13, <1>14
<1>16. put \in Seq(TextChars) /\ Len(put) \in Nat
  <2>1. PICK e : e = Len(new) - q OBVIOUS
  <2>2. e \in Nat /\ p <= e /\ e <= Len(new) BY <1>12, <1>13, <1>14, <2>1
  <2>3. put \in Seq(TextChars) BY <1>2, <1>6, <1>13, <2>1, <2>2, PartOfText
  <2> QED BY <2>3
<1>17. Length(b) \in Nat
  <2>1. Length(b) = Len(plain) + Len(put) - del BY <1>7, <1>13, <1>15, <1>16, LengthAfterPut
  <2> QED BY <1>12, <1>13, <1>15, <1>16, <2>1
<1>18. o \in Nat
  <2>1. PICK n : n = Len(put) OBVIOUS
  <2>2. text.pt \in Nat /\ n \in Nat BY <1>16, <2>1, TextFacts
  <2>3. o = Adjusted(text.pt, p, del, n) BY <1>8, <2>1
  <2> QED BY <1>13, <1>15, <2>2, <2>3, AdjustedIsOffset
<1>19. at \in 0 .. Length(b) BY <1>9, <1>17, <1>18
<1> QED BY <1>7, <1>10, <1>11, <1>13, <1>15, <1>16, <1>19, PutThenPoint

(* What changes nothing of the text.                                        *)
LEMMA SameTextKeeps ==
    ASSUME TextInv, SameText(text, text'), UNCHANGED <<plain, marked>>
    PROVE  TextInv'
BY DEF TextInv, SameText, MarkerInPlace

LEMMA GotoKeeps == TextInv /\ Goto => TextInv'
<1> SUFFICES ASSUME TextInv, Goto PROVE TextInv' OBVIOUS
<1>1. PICK o \in 0 .. Length(text) : text' = PointAt(text, o) /\ UNCHANGED marked /\ Still
  BY DEF Goto
<1>2. o \in 0 .. Len(plain) BY TextFacts
<1>3. /\ plain \in Seq(TextChars) /\ Shaped(text) /\ Gapped(text.array, text.pt, text.gap, plain)
  BY TextFacts
<1>4. Shaped(text') /\ text'.mark = text.mark /\ Gapped(text'.array, text'.pt, text'.gap, plain)
  BY <1>1, <1>2, <1>3, ThenPoint
<1>5. plain' = plain /\ marked' = marked BY <1>1 DEF Still
<1> QED BY <1>4, <1>5 DEF TextInv, MarkerInPlace

LEMMA PlaceMarkKeeps == TextInv /\ PlaceMark => TextInv'
<1> SUFFICES ASSUME TextInv, PlaceMark PROVE TextInv' OBVIOUS
<1>1. /\ text' = [text EXCEPT !.mark = text.pt] /\ marked' = text.pt /\ plain' = plain
  BY DEF PlaceMark, Still
<1>2. Shaped(text) /\ text.pt \in Nat /\ text.pt <= Len(plain) /\ Len(plain) \in Nat BY TextFacts
<1>3. /\ Shaped(text') /\ text'.mark = text.pt /\ text'.array = text.array
      /\ text'.pt = text.pt /\ text'.gap = text.gap
  BY <1>1, <1>2 DEF Shaped
<1> QED BY <1>1, <1>2, <1>3 DEF TextInv, MarkerInPlace

LEMMA DerivedKeeps == TextInv /\ (Highlight \/ OffsetToLine \/ ShowLine) => TextInv'
<1> SUFFICES ASSUME TextInv, Highlight \/ OffsetToLine \/ ShowLine PROVE TextInv' OBVIOUS
<1>1. Shaped(text) BY TextFacts
<1>2. CASE Highlight
  <2>1. PICK m : text' = [text EXCEPT !.mode = m, !.states = NoStates] /\ UNCHANGED marked /\ Still
    BY <1>2 DEF Highlight
  <2>2. SameText(text, text') BY <1>1, <2>1 DEF SameText, Shaped
  <2> QED BY <2>1, <2>2, SameTextKeeps DEF Still
<1>3. CASE OffsetToLine
  <2>1. PICK o : text' = Indexed(text, o) /\ UNCHANGED marked /\ Still BY <1>3 DEF OffsetToLine
  <2>2. SameText(text, text') BY <1>1, <2>1, IndexedApart
  <2> QED BY <2>1, <2>2, SameTextKeeps DEF Still
<1>4. CASE ShowLine
  <2>1. PICK line : text' = StatesKnown(text, line) /\ UNCHANGED marked /\ Still BY <1>4 DEF ShowLine
  <2>2. SameText(text, text') BY <1>1, <2>1, StatesKnownApart
  <2> QED BY <2>1, <2>2, SameTextKeeps DEF Still
<1> QED BY <1>2, <1>3, <1>4

LEMMA TextInvKept == TextInv /\ [TextNext]_textVars => TextInv'
<1>1. TextInv /\ UNCHANGED textVars => TextInv'
  BY DEF TextInv, textVars, MarkerInPlace
<1> QED BY <1>1, InsertKeeps, DeleteKeeps, RegionDeleteKeeps, RevertTextKeeps, GotoKeeps,
           PlaceMarkKeeps, DerivedKeeps DEF TextNext

LEMMA TextIsHeld == TextSpec => []TextInv
BY TextBegins, TextInvKept, PTL DEF TextSpec

(* The array without its gap is the text that the commands given make, and  *)
(* the gap is blank from end to end, so that no line is found to end in it: *)
(* wherever point is moved over it (set_pt) and however it is opened and    *)
(* shut as text is replaced (buffer_replace_estr).                          *)
THEOREM GapBufferIsText == TextSpec => [](Contents(text) = plain /\ GapIsBlank)
<1>1. TextInv => Contents(text) = plain /\ GapIsBlank
  BY TextFacts, GappedContents DEF GapIsBlank
<1> QED BY <1>1, TextIsHeld, PTL

(* A marker is where it should be in the text after any changes of it, also *)
(* when a file is read again (revert_to_text), as long as the unsigned      *)
(* subtraction by which buffer_replace_estr adjusts it does not wrap: what  *)
(* is deleted is no longer than the text up to the marker and what is put   *)
(* in (MARKS_INSIDE leaves the others in).                                  *)
THEOREM MarkerKeepsItsPlace == ASSUME ~ MARKS_INSIDE PROVE TextSpec => []TextKept
<1>1. TextInv => TextKept
  BY TextFacts, GappedContents DEF TextInv, TextKept, MarkerInPlace
<1> QED BY <1>1, TextIsHeld, PTL
=============================================================================
