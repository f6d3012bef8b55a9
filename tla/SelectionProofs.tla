--------------------------- MODULE SelectionProofs ---------------------------
(* What the proofs about lists need: where the elements left in a list were *)
(* before, and how many there are of a kind.  A recursive function is       *)
(* reasoned about by the least number for which a claim might fail.         *)
EXTENDS Selection, FiniteSets, FiniteSetTheorems, SequenceTheorems, WellFoundedInduction, TLAPS

LEMMA LeastNumber ==
    ASSUME NEW T, T \subseteq Nat, T # {}
    PROVE  \E x \in T : \A y \in T : x <= y
<1>1. IsWellFoundedOn(OpToRel(<, Nat), Nat) BY NatLessThanWellFounded
<1>2. PICK x \in T : \A y \in T : ~ (<<y, x>> \in OpToRel(<, Nat)) BY <1>1, WFMin
<1>3. ASSUME NEW y \in T PROVE x <= y
  <2>1. ~ (<<y, x>> \in {ss \in Nat \X Nat : ss[1] < ss[2]}) BY <1>2 DEF OpToRel
  <2> QED BY <2>1
<1> QED BY <1>3

LEMMA GreatestIndex ==
    ASSUME NEW n \in Nat, NEW T, T \subseteq 0 .. n, T # {}
    PROVE  \E k \in T : \A j \in T : j <= k
<1> DEFINE U == {m \in Nat : n - m \in T}
<1>1. PICK t \in T : TRUE OBVIOUS
<1>2. n - t \in Nat /\ n - (n - t) = t OBVIOUS
<1>3. U \subseteq Nat /\ U # {}
  <2>1. n - t \in U BY <1>2
  <2> QED BY <2>1
<1>4. PICK m \in U : \A y \in U : m <= y BY <1>3, LeastNumber
<1>5. n - m \in T /\ m \in Nat BY <1>4
<1>6. ASSUME NEW j \in T PROVE j <= n - m
  <2>1. j \in 0 .. n OBVIOUS
  <2>2. n - j \in Nat /\ n - (n - j) = j BY <2>1
  <2>3. n - j \in U BY <2>2
  <2>4. m <= n - j BY <1>4, <2>3
  <2> QED BY <1>5, <2>1, <2>4
<1> QED BY <1>5, <1>6

(* f holds what is selected of the first elements of q, up to n.            *)
IsSelecting(f, q, S, n) ==
    f = [k \in 0 .. n |-> IF k = 0 THEN <<>> ELSE IF k \in S THEN Append(f[k - 1], q[k]) ELSE f[k - 1]]

LEMMA SelectingExists ==
    ASSUME NEW q, NEW S, NEW n \in Nat
    PROVE  \E f : IsSelecting(f, q, S, n)
<1> DEFINE T == {m \in Nat : ~ \E f : IsSelecting(f, q, S, m)}
<1> SUFFICES ASSUME T # {} PROVE FALSE
  OBVIOUS
<1>1. PICK m \in T : \A y \in T : m <= y
  <2>1. T \subseteq Nat OBVIOUS
  <2> QED BY <2>1, LeastNumber
<1>2. m \in Nat /\ ~ \E f : IsSelecting(f, q, S, m)
  OBVIOUS
<1>3. m # 0
  <2>1. IsSelecting([k \in {0} |-> <<>>], q, S, 0)
    <3>1. 0 .. 0 = {0} OBVIOUS
    <3> QED BY <3>1 DEF IsSelecting
  <2> QED BY <1>2, <2>1
<1>4. m - 1 \in Nat /\ m - 1 \notin T
  BY <1>1, <1>2, <1>3
<1>5. PICK g : IsSelecting(g, q, S, m - 1)
  BY <1>4
<1> DEFINE last == IF m \in S THEN Append(g[m - 1], q[m]) ELSE g[m - 1]
           h == [k \in 0 .. m |-> IF k = m THEN last ELSE g[k]]
<1>6. ASSUME NEW k \in 0 .. m
      PROVE  h[k] = IF k = 0 THEN <<>> ELSE IF k \in S THEN Append(h[k - 1], q[k]) ELSE h[k - 1]
  <2>1. CASE k = m
    <3>1. h[k] = last BY <2>1
    <3>2. h[m - 1] = g[m - 1] BY <1>2, <1>3
    <3> QED BY <1>3, <2>1, <3>1, <3>2
  <2>2. CASE k # m
    <3>1. k \in 0 .. m - 1 BY <1>2, <2>2
    <3>2. g[k] = IF k = 0 THEN <<>> ELSE IF k \in S THEN Append(g[k - 1], q[k]) ELSE g[k - 1]
      BY <1>5, <3>1 DEF IsSelecting
    <3>3. h[k] = g[k] BY <2>2
    <3>4. k # 0 => h[k - 1] = g[k - 1] BY <1>2, <3>1
    <3> QED BY <3>2, <3>3, <3>4
  <2> QED BY <2>1, <2>2
<1>7. IsSelecting(h, q, S, m)
  <2> HIDE DEF h
  <2>1. h = [k \in 0 .. m |-> h[k]] BY DEF h
  <2> QED BY <1>6, <2>1 DEF IsSelecting
<1> QED BY <1>2, <1>7

(* e says where in q each element of r was, of the first n.                 *)
ComesFrom(r, q, S, n, e) ==
    /\ e \in [1 .. Len(r) -> 1 .. n]
    /\ \A k \in 1 .. Len(r) : e[k] \in S /\ r[k] = q[e[k]]
    /\ \A j \in 1 .. Len(r), k \in 1 .. Len(r) : j < k => e[j] < e[k]
    /\ \A i \in 1 .. n : i \in S => \E k \in 1 .. Len(r) : e[k] = i

LEMMA OneMoreComes ==
    ASSUME NEW T, NEW r \in Seq(T), NEW q \in Seq(T), NEW S, NEW n \in Nat, n < Len(q), n + 1 \in S,
           NEW e, ComesFrom(r, q, S, n, e)
    PROVE  \E f : ComesFrom(Append(r, q[n + 1]), q, S, n + 1, f)
<1> DEFINE a == Append(r, q[n + 1])
           f == [k \in 1 .. Len(r) + 1 |-> IF k = Len(r) + 1 THEN n + 1 ELSE e[k]]
<1>1. Len(r) \in Nat /\ Len(a) = Len(r) + 1 /\ a[Len(r) + 1] = q[n + 1]
      /\ \A k \in 1 .. Len(r) : a[k] = r[k]
  <2>1. q[n + 1] \in T OBVIOUS
  <2> QED BY <2>1
<1>2. f[Len(r) + 1] = n + 1 /\ \A k \in 1 .. Len(r) : f[k] = e[k]
  BY <1>1
<1>3. \A k \in 1 .. Len(r) : e[k] \in 1 .. n /\ e[k] \in S /\ r[k] = q[e[k]]
  BY DEF ComesFrom
<1>4. f \in [1 .. Len(a) -> 1 .. n + 1]
  BY <1>1, <1>3
<1> HIDE DEF a, f
<1>5. \A k \in 1 .. Len(a) : f[k] \in S /\ a[k] = q[f[k]]
  <2> TAKE k \in 1 .. Len(a)
  <2>1. CASE k = Len(r) + 1 BY <1>1, <1>2, <2>1
  <2>2. CASE k # Len(r) + 1
    <3>1. k \in 1 .. Len(r) BY <1>1, <2>2
    <3> QED BY <1>1, <1>2, <1>3, <3>1
  <2> QED BY <2>1, <2>2
<1>6. ASSUME NEW j \in 1 .. Len(a), NEW k \in 1 .. Len(a), j < k PROVE f[j] < f[k]
  <2>1. j \in 1 .. Len(r) BY <1>1, <1>6
  <2>2. CASE k = Len(r) + 1
    <3>1. f[j] \in 1 .. n BY <1>2, <1>3, <2>1
    <3>2. f[k] = n + 1 BY <1>2, <2>2
    <3> QED BY ONLY <3>1, <3>2, n \in Nat
  <2>3. CASE k # Len(r) + 1
    <3>1. k \in 1 .. Len(r) BY <1>1, <2>3
    <3> QED BY <1>2, <1>6, <2>1, <3>1 DEF ComesFrom
  <2> QED BY <2>2, <2>3
<1>7. ASSUME NEW i \in 1 .. n + 1, i \in S PROVE \E k \in 1 .. Len(a) : f[k] = i
  <2>1. CASE i = n + 1 BY <1>1, <1>2, <2>1
  <2>2. CASE i # n + 1
    <3>1. i \in 1 .. n BY <2>2
    <3>2. PICK k \in 1 .. Len(r) : e[k] = i BY <1>7, <3>1 DEF ComesFrom
    <3>3. k \in 1 .. Len(a) /\ f[k] = i BY <1>1, <1>2, <3>2
    <3> QED BY <3>3
  <2> QED BY <2>1, <2>2
<1>8. ComesFrom(a, q, S, n + 1, f)
  BY <1>4, <1>5, <1>6, <1>7 DEF ComesFrom
<1> QED BY <1>8 DEF a

LEMMA SelectedComes ==
    ASSUME NEW T, NEW q \in Seq(T), NEW S
    PROVE  /\ Selected(q, S) \in Seq(T)
           /\ \E e : ComesFrom(Selected(q, S), q, S, Len(q), e)
<1>1. PICK f : IsSelecting(f, q, S, Len(q)) /\ Selected(q, S) = f[Len(q)]
  <2>1. \E f : IsSelecting(f, q, S, Len(q))
    <3>1. Len(q) \in Nat OBVIOUS
    <3> QED BY <3>1, SelectingExists
  <2> QED BY <2>1 DEF Selected, IsSelecting
<1> DEFINE Right(n) == f[n] \in Seq(T) /\ \E e : ComesFrom(f[n], q, S, n, e)
           B == {n \in 0 .. Len(q) : ~ Right(n)}
<1>2. B = {}
  <2> SUFFICES ASSUME B # {} PROVE FALSE
    OBVIOUS
  <2>1. PICK n \in B : \A y \in B : n <= y
    <3>1. B \subseteq Nat OBVIOUS
    <3> QED BY <3>1, LeastNumber
  <2>2. n \in 0 .. Len(q) /\ ~ Right(n) OBVIOUS
  <2>3. f[n] = IF n = 0 THEN <<>> ELSE IF n \in S THEN Append(f[n - 1], q[n]) ELSE f[n - 1]
    BY <1>1, <2>2 DEF IsSelecting
  <2>4. n # 0
    <3> SUFFICES ASSUME n = 0 PROVE FALSE OBVIOUS
    <3>1. f[n] = <<>> BY <2>3
    <3>2. Len(<<>>) = 0 /\ <<>> \in Seq(T) OBVIOUS
    <3>3. ComesFrom(<<>>, q, S, 0, [k \in 1 .. 0 |-> 1])
      <4>1. 1 .. 0 = {} OBVIOUS
      <4>2. [k \in 1 .. 0 |-> 1] \in [1 .. Len(<<>>) -> 1 .. 0] BY <3>2, <4>1
      <4> QED BY <3>2, <4>1, <4>2 DEF ComesFrom
    <3> QED BY <2>2, <3>1, <3>2, <3>3
  <2>5. PICK m : m = n - 1 OBVIOUS
  <2>6. m \in Nat /\ m < Len(q) /\ n = m + 1 /\ m \in 0 .. Len(q) BY <2>2, <2>4, <2>5
  <2>7. Right(m)
    <3>1. ~ (n <= m) BY <2>2, <2>6
    <3>2. m \notin B BY <2>1, <3>1
    <3> QED BY <2>6, <3>2
  <2> HIDE DEF B
  <2>8. PICK r \in Seq(T) : r = f[m] BY <2>7
  <2>9. PICK e : ComesFrom(r, q, S, m, e) BY <2>7, <2>8
  <2>10. CASE n \in S
    <3>1. f[n] = Append(r, q[m + 1]) BY <2>3, <2>4, <2>5, <2>6, <2>8, <2>10
    <3>2. \E g : ComesFrom(Append(r, q[m + 1]), q, S, m + 1, g)
      BY <2>6, <2>9, <2>10, OneMoreComes
    <3>3. q[m + 1] \in T BY <2>6
    <3> QED BY <2>2, <2>6, <3>1, <3>2, <3>3
  <2>11. CASE n \notin S
    <3>1. f[n] = r BY <2>3, <2>4, <2>5, <2>8, <2>11
    <3>2. ComesFrom(r, q, S, m + 1, e) BY <2>6, <2>9, <2>11 DEF ComesFrom
    <3> QED BY <2>2, <2>6, <3>1, <3>2
  <2> QED BY <2>10, <2>11
<1>3. Len(q) \in 0 .. Len(q) /\ Len(q) \notin B BY <1>2
<1>4. Right(Len(q)) BY <1>3
<1> QED BY <1>1, <1>4

-----------------------------------------------------------------------------
(* How many elements of a list are in a set.                                *)

Spots(q, X) == {k \in DOMAIN q : q[k] \in X}
HowMany(q, X) == Cardinality(Spots(q, X))

LEMMA SameSize ==
    ASSUME NEW A, NEW B, IsFiniteSet(A), NEW f \in [A -> B],
           \A x \in A, y \in A : f[x] = f[y] => x = y,
           \A b \in B : \E x \in A : f[x] = b
    PROVE  IsFiniteSet(B) /\ Cardinality(B) = Cardinality(A)
<1>1. f \in Bijection(A, B) BY DEF Bijection, Injection, Surjection, IsInjective
<1>2. ExistsBijection(A, B) BY <1>1 DEF ExistsBijection
<1> QED BY <1>2, FS_Bijection

LEMMA SpotsFinite ==
    ASSUME NEW T, NEW q \in Seq(T), NEW X
    PROVE  IsFiniteSet(Spots(q, X)) /\ HowMany(q, X) \in Nat
<1>1. Spots(q, X) \in SUBSET (1 .. Len(q)) /\ Len(q) \in Nat BY DEF Spots
<1>2. IsFiniteSet(1 .. Len(q)) BY <1>1, FS_Interval
<1>3. IsFiniteSet(Spots(q, X)) BY <1>1, <1>2, FS_Subset
<1> QED BY <1>3, FS_CardinalityType DEF HowMany

LEMMA NoneInEmpty == ASSUME NEW X PROVE HowMany(<<>>, X) = 0
<1>1. Spots(<<>>, X) = {} BY DEF Spots
<1> QED BY <1>1, FS_EmptySet DEF HowMany

LEMMA SomeSpot ==
    ASSUME NEW T, NEW q \in Seq(T), NEW X, NEW k \in DOMAIN q, q[k] \in X
    PROVE  HowMany(q, X) > 0
<1>1. k \in Spots(q, X) BY DEF Spots
<1>2. IsFiniteSet(Spots(q, X)) /\ HowMany(q, X) \in Nat BY SpotsFinite
<1>3. HowMany(q, X) # 0 BY <1>1, <1>2, FS_EmptySet DEF HowMany
<1> QED BY <1>2, <1>3

LEMMA NoSpot ==
    ASSUME NEW T, NEW q \in Seq(T), NEW X, HowMany(q, X) = 0, NEW k \in DOMAIN q
    PROVE  q[k] \notin X
  BY SomeSpot

LEMMA SameSpots ==
    ASSUME NEW T, NEW q \in Seq(T), NEW r \in Seq(T), NEW X, Len(q) = Len(r),
           \A k \in 1 .. Len(q) : q[k] \in X <=> r[k] \in X
    PROVE  HowMany(q, X) = HowMany(r, X)
<1>1. Spots(q, X) = Spots(r, X) BY DEF Spots
<1> QED BY <1>1 DEF HowMany

LEMMA OneMore ==
    ASSUME NEW T, NEW q \in Seq(T), NEW x \in T, NEW X
    PROVE  HowMany(Append(q, x), X) = HowMany(q, X) + (IF x \in X THEN 1 ELSE 0)
<1> DEFINE a == Append(q, x)
<1>1. /\ Len(q) \in Nat /\ DOMAIN q = 1 .. Len(q) /\ DOMAIN a = 1 .. Len(q) + 1
      /\ a[Len(q) + 1] = x /\ \A k \in 1 .. Len(q) : a[k] = q[k]
  OBVIOUS
<1> HIDE DEF a
<1>2. IsFiniteSet(Spots(q, X)) /\ HowMany(q, X) \in Nat BY SpotsFinite
<1>3. CASE x \in X
  <2>1. Spots(a, X) = Spots(q, X) \cup {Len(q) + 1} BY <1>1, <1>3 DEF Spots
  <2>2. Len(q) + 1 \notin Spots(q, X) BY <1>1 DEF Spots
  <2>3. HowMany(a, X) = HowMany(q, X) + 1 BY <1>2, <2>1, <2>2, FS_AddElement DEF HowMany
  <2> QED BY <1>3, <2>3 DEF a
<1>4. CASE x \notin X
  <2>1. Spots(a, X) = Spots(q, X) BY <1>1, <1>4 DEF Spots
  <2> QED BY <1>2, <1>4, <2>1 DEF HowMany, a
<1> QED BY <1>3, <1>4

LEMMA ReversedCount ==
    ASSUME NEW T, NEW q \in Seq(T), NEW X, NEW r, r = [i \in 1 .. Len(q) |-> q[(Len(q) - i) + 1]]
    PROVE  r \in Seq(T) /\ Len(r) = Len(q) /\ HowMany(r, X) = HowMany(q, X)
<1>1. Len(q) \in Nat /\ DOMAIN q = 1 .. Len(q) /\ \A k \in 1 .. Len(q) : q[k] \in T OBVIOUS
<1>2. \A i \in 1 .. Len(q) : (Len(q) - i) + 1 \in 1 .. Len(q) BY <1>1
<1>3. r \in [1 .. Len(q) -> T] BY <1>1, <1>2
<1>4. r \in Seq(T) /\ Len(r) = Len(q) /\ DOMAIN r = 1 .. Len(q) BY <1>1, <1>3
<1>5. IsFiniteSet(Spots(q, X)) BY SpotsFinite
<1> DEFINE f == [k \in Spots(q, X) |-> (Len(q) - k) + 1]
<1>6. f \in [Spots(q, X) -> Spots(r, X)]
  <2> SUFFICES ASSUME NEW k \in Spots(q, X) PROVE (Len(q) - k) + 1 \in Spots(r, X)
    OBVIOUS
  <2>1. k \in 1 .. Len(q) /\ q[k] \in X BY <1>1 DEF Spots
  <2>2. PICK i \in 1 .. Len(q) : i = (Len(q) - k) + 1 BY <1>2, <2>1
  <2>3. (Len(q) - i) + 1 = k BY <1>1, <2>1, <2>2
  <2>4. r[i] = q[k] BY <2>2, <2>3
  <2> QED BY <1>4, <2>1, <2>2, <2>4 DEF Spots
<1>7. ASSUME NEW x \in Spots(q, X), NEW y \in Spots(q, X), f[x] = f[y] PROVE x = y
  <2>1. x \in 1 .. Len(q) /\ y \in 1 .. Len(q) BY <1>1 DEF Spots
  <2> QED BY <1>1, <1>7, <2>1
<1>8. ASSUME NEW b \in Spots(r, X) PROVE \E x \in Spots(q, X) : f[x] = b
  <2>1. b \in 1 .. Len(q) /\ r[b] \in X BY <1>4 DEF Spots
  <2>2. PICK i \in 1 .. Len(q) : i = (Len(q) - b) + 1 BY <1>2, <2>1
  <2>3. r[b] = q[i] BY <2>1, <2>2
  <2>4. i \in Spots(q, X) BY <1>1, <2>1, <2>3 DEF Spots
  <2>5. f[i] = b BY <1>1, <2>1, <2>2, <2>4
  <2> QED BY <2>4, <2>5
<1> HIDE DEF f
<1>9. Cardinality(Spots(r, X)) = Cardinality(Spots(q, X)) BY <1>5, <1>6, <1>7, <1>8, SameSize
<1> QED BY <1>4, <1>9 DEF HowMany

LEMMA OneFirst ==
    ASSUME NEW T, NEW q \in Seq(T), q # <<>>, NEW X
    PROVE  /\ Tail(q) \in Seq(T) /\ Len(Tail(q)) = Len(q) - 1 /\ Head(q) \in T
           /\ HowMany(q, X) = HowMany(Tail(q), X) + (IF Head(q) \in X THEN 1 ELSE 0)
<1> DEFINE t == Tail(q)
<1>1. /\ Len(q) \in Nat /\ Len(q) > 0 /\ DOMAIN q = 1 .. Len(q) /\ t \in Seq(T) /\ Len(t) = Len(q) - 1
      /\ DOMAIN t = 1 .. Len(q) - 1 /\ \A k \in 1 .. Len(q) - 1 : t[k] = q[k + 1]
      /\ Head(q) = q[1] /\ Head(q) \in T
  OBVIOUS
<1> HIDE DEF t
<1>2. IsFiniteSet(Spots(t, X)) /\ HowMany(t, X) \in Nat BY <1>1, SpotsFinite
<1> DEFINE rest == Spots(q, X) \ {1}
           f == [k \in Spots(t, X) |-> k + 1]
<1>3. f \in [Spots(t, X) -> rest]
  <2> SUFFICES ASSUME NEW k \in Spots(t, X) PROVE k + 1 \in rest
    OBVIOUS
  <2>1. k \in 1 .. Len(q) - 1 /\ t[k] \in X BY <1>1 DEF Spots
  <2>2. k + 1 \in 1 .. Len(q) /\ k + 1 # 1 BY <1>1, <2>1
  <2>3. q[k + 1] \in X BY <1>1, <2>1
  <2> QED BY <1>1, <2>2, <2>3 DEF Spots
<1>4. ASSUME NEW x \in Spots(t, X), NEW y \in Spots(t, X), f[x] = f[y] PROVE x = y
  <2>1. x \in 1 .. Len(q) - 1 /\ y \in 1 .. Len(q) - 1 BY <1>1 DEF Spots
  <2> QED BY <1>1, <1>4, <2>1
<1>5. ASSUME NEW b \in rest PROVE \E x \in Spots(t, X) : f[x] = b
  <2>1. b \in 1 .. Len(q) /\ b # 1 /\ q[b] \in X BY <1>1 DEF Spots
  <2>2. PICK i : i = b - 1 OBVIOUS
  <2>3. i \in 1 .. Len(q) - 1 /\ i + 1 = b BY <1>1, <2>1, <2>2
  <2>4. t[i] = q[b] BY <1>1, <2>3
  <2>5. i \in Spots(t, X) BY <1>1, <2>1, <2>3, <2>4 DEF Spots
  <2> QED BY <2>3, <2>5
<1> HIDE DEF f
<1>6. IsFiniteSet(rest) /\ Cardinality(rest) = HowMany(t, X)
  <2> HIDE DEF rest
  <2> QED BY <1>2, <1>3, <1>4, <1>5, SameSize DEF HowMany
<1>7. CASE Head(q) \in X
  <2>1. 1 \in Spots(q, X) BY <1>1, <1>7 DEF Spots
  <2>2. Spots(q, X) = rest \cup {1} /\ 1 \notin rest BY <2>1
  <2>3. HowMany(q, X) = HowMany(t, X) + 1 BY <1>6, <2>2, FS_AddElement DEF HowMany
  <2> QED BY <1>1, <1>7, <2>3 DEF t
<1>8. CASE Head(q) \notin X
  <2>1. 1 \notin Spots(q, X) BY <1>1, <1>8 DEF Spots
  <2>2. Spots(q, X) = rest BY <2>1
  <2>3. HowMany(q, X) = HowMany(t, X) BY <1>6, <2>2 DEF HowMany
  <2> QED BY <1>1, <1>2, <1>8, <2>3 DEF t
<1> QED BY <1>7, <1>8

LEMMA OnePut ==
    ASSUME NEW T, NEW q \in Seq(T), NEW x \in T, NEW X
    PROVE  <<x>> \o q \in Seq(T) /\ HowMany(<<x>> \o q, X) = HowMany(q, X) + (IF x \in X THEN 1 ELSE 0)
<1> DEFINE p == <<x>> \o q
<1>1. p \in Seq(T) /\ p # <<>> /\ Head(p) = x /\ Tail(p) = q
  OBVIOUS
<1> HIDE DEF p
<1>2. HowMany(p, X) = HowMany(q, X) + (IF x \in X THEN 1 ELSE 0) BY <1>1, OneFirst
<1> QED BY <1>1, <1>2 DEF p

(* Of a kind, as many are selected as there are at the indices in S.        *)
LEMMA SelectedCount ==
    ASSUME NEW T, NEW q \in Seq(T), NEW S, NEW X
    PROVE  HowMany(Selected(q, S), X) = Cardinality({k \in Spots(q, X) : k \in S})
<1>1. PICK r \in Seq(T) : r = Selected(q, S) BY SelectedComes
<1>2. PICK e : ComesFrom(r, q, S, Len(q), e) BY <1>1, SelectedComes
<1>3. /\ DOMAIN r = 1 .. Len(r) /\ DOMAIN q = 1 .. Len(q) /\ Len(q) \in Nat /\ Len(r) \in Nat
  OBVIOUS
<1>4. /\ \A k \in 1 .. Len(r) : e[k] \in 1 .. Len(q) /\ e[k] \in S /\ r[k] = q[e[k]]
      /\ \A j \in 1 .. Len(r), k \in 1 .. Len(r) : j < k => e[j] < e[k]
      /\ \A i \in 1 .. Len(q) : i \in S => \E k \in 1 .. Len(r) : e[k] = i
  BY <1>2 DEF ComesFrom
<1> DEFINE B == {k \in Spots(q, X) : k \in S}
           f == [k \in Spots(r, X) |-> e[k]]
<1>5. IsFiniteSet(Spots(r, X)) BY SpotsFinite
<1>6. f \in [Spots(r, X) -> B]
  <2> SUFFICES ASSUME NEW k \in Spots(r, X) PROVE e[k] \in B
    OBVIOUS
  <2>1. k \in 1 .. Len(r) /\ r[k] \in X BY <1>3 DEF Spots
  <2> QED BY <1>3, <1>4, <2>1 DEF Spots
<1>7. ASSUME NEW x \in Spots(r, X), NEW y \in Spots(r, X), f[x] = f[y] PROVE x = y
  <2>1. x \in 1 .. Len(r) /\ y \in 1 .. Len(r) BY <1>3 DEF Spots
  <2>2. e[x] = e[y] BY <1>7
  <2>3. e[x] \in Int BY <1>3, <1>4, <2>1
  <2>4. ~ (x < y) /\ ~ (y < x) BY <1>4, <2>1, <2>2, <2>3
  <2> QED BY <1>3, <2>1, <2>4
<1>8. ASSUME NEW b \in B PROVE \E x \in Spots(r, X) : f[x] = b
  <2>1. b \in 1 .. Len(q) /\ q[b] \in X /\ b \in S BY <1>3 DEF Spots
  <2>2. PICK k \in 1 .. Len(r) : e[k] = b BY <1>4, <2>1
  <2>3. k \in Spots(r, X) BY <1>3, <1>4, <2>1, <2>2 DEF Spots
  <2> QED BY <2>2, <2>3
<1> HIDE DEF f, B
<1>9. Cardinality(B) = Cardinality(Spots(r, X)) BY <1>5, <1>6, <1>7, <1>8, SameSize
<1> QED BY <1>1, <1>9 DEF HowMany, B

(* And the others are as many as are missing.                               *)
LEMMA TakenOut ==
    ASSUME NEW T, NEW q \in Seq(T), NEW S, NEW X
    PROVE  /\ IsFiniteSet({k \in Spots(q, X) : k \notin S})
           /\ Cardinality({k \in Spots(q, X) : k \notin S}) \in Nat
           /\ HowMany(Selected(q, S), X) =
                 HowMany(q, X) - Cardinality({k \in Spots(q, X) : k \notin S})
<1> DEFINE A == Spots(q, X)
           B == {k \in Spots(q, X) : k \in S}
           C == {k \in Spots(q, X) : k \notin S}
<1>1. IsFiniteSet(A) /\ HowMany(q, X) = Cardinality(A)
  BY SpotsFinite DEF HowMany
<1>2. HowMany(Selected(q, S), X) = Cardinality(B)
  BY SelectedCount
<1>3. B = A \ C /\ A \cap C = C /\ C \subseteq A
  OBVIOUS
<1>4. HowMany(q, X) \in Nat
  BY SpotsFinite
<1> HIDE DEF A, B, C
<1>5. IsFiniteSet(C)
  BY <1>1, <1>3, FS_Subset
<1>6. Cardinality(C) \in Nat
  BY <1>5, FS_CardinalityType
<1>7. Cardinality(B) = Cardinality(A) - Cardinality(C)
  <2>1. Cardinality(A \ C) = Cardinality(A) - Cardinality(A \cap C)
    BY ONLY <1>1, FS_Difference, Zenon
  <2>2. A \ C = B /\ A \cap C = C
    BY <1>3
  <2> QED BY ONLY <2>1, <2>2, Zenon
<1> QED BY <1>1, <1>2, <1>5, <1>6, <1>7 DEF C

LEMMA AllAreHere ==
    ASSUME NEW T, NEW q \in Seq(T)
    PROVE  HowMany(q, T) = Len(q)
<1>1. Len(q) \in Nat /\ DOMAIN q = 1 .. Len(q) /\ \A k \in 1 .. Len(q) : q[k] \in T
  OBVIOUS
<1>2. Spots(q, T) = 1 .. Len(q)
  BY <1>1 DEF Spots
<1>3. Cardinality(1 .. Len(q)) = IF 1 > Len(q) THEN 0 ELSE Len(q) - 1 + 1
  BY <1>1, FS_Interval
<1> QED BY <1>1, <1>2, <1>3 DEF HowMany

-----------------------------------------------------------------------------
(* Sequences one after the other.                                           *)

(* f holds the first sequences of q joined, up to n.                        *)
IsChaining(f, q, n) == f = [k \in 0 .. n |-> IF k = 0 THEN <<>> ELSE f[k - 1] \o q[k]]

LEMMA ChainingExists ==
    ASSUME NEW q, NEW n \in Nat
    PROVE  \E f : IsChaining(f, q, n)
<1> DEFINE T == {m \in Nat : ~ \E f : IsChaining(f, q, m)}
<1> SUFFICES ASSUME T # {} PROVE FALSE
  OBVIOUS
<1>1. PICK m \in T : \A y \in T : m <= y
  <2>1. T \subseteq Nat OBVIOUS
  <2> QED BY <2>1, LeastNumber
<1>2. m \in Nat /\ ~ \E f : IsChaining(f, q, m)
  OBVIOUS
<1>3. m # 0
  <2>1. IsChaining([k \in {0} |-> <<>>], q, 0)
    <3>1. 0 .. 0 = {0} OBVIOUS
    <3> QED BY <3>1 DEF IsChaining
  <2> QED BY <1>2, <2>1
<1>4. m - 1 \in Nat /\ m - 1 \notin T
  BY <1>1, <1>2, <1>3
<1>5. PICK g : IsChaining(g, q, m - 1)
  BY <1>4
<1> DEFINE last == g[m - 1] \o q[m]
           h == [k \in 0 .. m |-> IF k = m THEN last ELSE g[k]]
<1>6. ASSUME NEW k \in 0 .. m PROVE h[k] = IF k = 0 THEN <<>> ELSE h[k - 1] \o q[k]
  <2>1. CASE k = m
    <3>1. h[k] = last BY <2>1
    <3>2. h[m - 1] = g[m - 1] BY <1>2, <1>3
    <3> QED BY <1>3, <2>1, <3>1, <3>2
  <2>2. CASE k # m
    <3>1. k \in 0 .. m - 1 BY <1>2, <2>2
    <3>2. g[k] = IF k = 0 THEN <<>> ELSE g[k - 1] \o q[k] BY <1>5, <3>1 DEF IsChaining
    <3>3. h[k] = g[k] BY <2>2
    <3>4. k # 0 => h[k - 1] = g[k - 1] BY <1>2, <3>1
    <3> QED BY <3>2, <3>3, <3>4
  <2> QED BY <2>1, <2>2
<1>7. IsChaining(h, q, m)
  <2> HIDE DEF h
  <2>1. h = [k \in 0 .. m |-> h[k]] BY DEF h
  <2> QED BY <1>6, <2>1 DEF IsChaining
<1> QED BY <1>2, <1>7

(* What Chained is made with.                                                *)
Chains(q, f) == /\ f[0] = <<>> /\ Chained(q) = f[Len(q)]
               /\ \A k \in 1 .. Len(q) : f[k] = f[k - 1] \o q[k]

LEMMA ChainedBy == ASSUME NEW T, NEW q \in Seq(T) PROVE \E f : Chains(q, f)
<1>1. Len(q) \in Nat OBVIOUS
<1>2. PICK f : IsChaining(f, q, Len(q)) /\ Chained(q) = f[Len(q)]
  <2>1. \E f : IsChaining(f, q, Len(q)) BY <1>1, ChainingExists
  <2> QED BY <2>1 DEF Chained, IsChaining
<1>3. ASSUME NEW k \in 0 .. Len(q) PROVE f[k] = IF k = 0 THEN <<>> ELSE f[k - 1] \o q[k]
  BY <1>2 DEF IsChaining
<1>4. 0 \in 0 .. Len(q) /\ \A k \in 1 .. Len(q) : k \in 0 .. Len(q) /\ k # 0 BY <1>1
<1>5. Chains(q, f) BY <1>2, <1>3, <1>4 DEF Chains
<1> QED BY <1>5

LEMMA ChainedParts ==
    ASSUME NEW T, NEW q \in Seq(Seq(T)), NEW f, Chains(q, f), NEW k \in 0 .. Len(q)
    PROVE  f[k] \in Seq(T)
<1> DEFINE B == {n \in 0 .. Len(q) : f[n] \notin Seq(T)}
<1> SUFFICES ASSUME B # {} PROVE FALSE
  OBVIOUS
<1>1. PICK n \in B : \A y \in B : n <= y
  <2>1. B \subseteq Nat OBVIOUS
  <2> QED BY <2>1, LeastNumber
<1>2. n \in 0 .. Len(q) /\ f[n] \notin Seq(T) /\ Len(q) \in Nat OBVIOUS
<1>3. n # 0
  <2>1. f[0] = <<>> /\ <<>> \in Seq(T) BY DEF Chains
  <2> QED BY <1>2, <2>1
<1>4. n - 1 \in 0 .. Len(q) /\ n \in 1 .. Len(q) /\ n - 1 \notin B BY <1>1, <1>2, <1>3
<1>5. f[n - 1] \in Seq(T) BY <1>4
<1>6. q[n] \in Seq(T) BY <1>4
<1>7. f[n] = f[n - 1] \o q[n] BY <1>4 DEF Chains
<1> QED BY <1>2, <1>5, <1>6, <1>7, ConcatProperties

LEMMA ChainedType == ASSUME NEW T, NEW q \in Seq(Seq(T)) PROVE Chained(q) \in Seq(T)
<1>1. PICK f : Chains(q, f) BY ChainedBy
<1>2. Len(q) \in 0 .. Len(q) /\ Chained(q) = f[Len(q)] BY <1>1 DEF Chains
<1> QED BY <1>1, <1>2, ChainedParts

LEMMA ChainedAgree ==
    ASSUME NEW p, NEW q, NEW f, NEW g, Chains(p, f), Chains(q, g), NEW k \in Nat, Len(p) \in Nat, Len(q) \in Nat,
           k <= Len(p), k <= Len(q), \A j \in 1 .. k : p[j] = q[j]
    PROVE  f[k] = g[k]
<1> DEFINE B == {n \in 0 .. k : f[n] # g[n]}
<1> SUFFICES ASSUME B # {} PROVE FALSE OBVIOUS
<1>1. PICK n \in B : \A y \in B : n <= y
  <2>1. B \subseteq Nat OBVIOUS
  <2> QED BY <2>1, LeastNumber
<1>2. n \in 0 .. k /\ f[n] # g[n] OBVIOUS
<1>3. n # 0 BY <1>2 DEF Chains
<1>4. n - 1 \in 0 .. k /\ n \in 1 .. k /\ n - 1 \notin B BY <1>1, <1>2, <1>3
<1>5. f[n - 1] = g[n - 1] BY <1>4
<1>6. n \in 1 .. Len(p) /\ n \in 1 .. Len(q) BY <1>4
<1>7. f[n] = f[n - 1] \o p[n] /\ g[n] = g[n - 1] \o q[n] BY <1>6 DEF Chains
<1>8. p[n] = q[n] BY <1>4
<1> QED BY <1>2, <1>5, <1>7, <1>8

LEMMA ChainedEnd ==
    ASSUME NEW T, NEW q \in Seq(Seq(T)), NEW f, Chains(q, f), NEW k \in Nat, k <= Len(q),
           \A j \in k + 1 .. Len(q) : q[j] = <<>>
    PROVE  Chained(q) = f[k] /\ f[k] \in Seq(T)
<1> DEFINE B == {n \in k .. Len(q) : f[n] # f[k]}
<1>0. Len(q) \in Nat OBVIOUS
<1>1. B = {}
  <2> SUFFICES ASSUME B # {} PROVE FALSE OBVIOUS
  <2>1. PICK n \in B : \A y \in B : n <= y
    <3>1. B \subseteq Nat OBVIOUS
    <3> QED BY <3>1, LeastNumber
  <2>2. n \in k .. Len(q) /\ f[n] # f[k] OBVIOUS
  <2>3. n # k BY <2>2
  <2>4. n - 1 \in k .. Len(q) /\ n \in 1 .. Len(q) /\ n \in k + 1 .. Len(q) /\ n - 1 \notin B
    BY <1>0, <2>1, <2>2, <2>3
  <2>5. f[n - 1] = f[k] BY <2>4
  <2>6. f[n] = f[n - 1] \o q[n] /\ q[n] = <<>> BY <2>4 DEF Chains
  <2>7. n - 1 \in 0 .. Len(q) BY <1>0, <2>4
  <2>8. f[n - 1] \in Seq(T) BY <2>7, ChainedParts
  <2>9. f[n - 1] \o <<>> = f[n - 1] BY <2>8, ConcatEmptySeq
  <2> QED BY <2>2, <2>5, <2>6, <2>9
<1>2. Len(q) \in k .. Len(q) /\ Len(q) \notin B BY <1>0, <1>1
<1>3. k \in 0 .. Len(q) BY <1>0
<1> QED BY <1>2, <1>3, ChainedParts DEF Chains

(* Two lists that begin with the same sequences, and have empty ones after. *)
LEMMA ChainedSame ==
    ASSUME NEW T, NEW p \in Seq(Seq(T)), NEW q \in Seq(Seq(T)), NEW k \in Nat, k <= Len(p), k <= Len(q),
           \A j \in 1 .. k : p[j] = q[j],
           \A j \in k + 1 .. Len(p) : p[j] = <<>>,
           \A j \in k + 1 .. Len(q) : q[j] = <<>>
    PROVE  Chained(p) = Chained(q)
<1>1. PICK f : Chains(p, f) BY ChainedBy
<1>2. PICK g : Chains(q, g) BY ChainedBy
<1>3. Len(p) \in Nat /\ Len(q) \in Nat OBVIOUS
<1>4. f[k] = g[k] BY <1>1, <1>2, <1>3, ChainedAgree
<1> QED BY <1>1, <1>2, <1>4, ChainedEnd

LEMMA ChainedNothing ==
    ASSUME NEW T, NEW q \in Seq(Seq(T)), \A j \in 1 .. Len(q) : q[j] = <<>>
    PROVE  Chained(q) = <<>>
<1>1. PICK f : Chains(q, f) BY ChainedBy
<1>2. 0 \in Nat /\ 0 <= Len(q) /\ 0 + 1 = 1 OBVIOUS
<1>3. Chained(q) = f[0] BY <1>1, <1>2, ChainedEnd
<1> QED BY <1>1, <1>3 DEF Chains

LEMMA ChainedBoth ==
    ASSUME NEW T, NEW p \in Seq(Seq(T)), NEW q \in Seq(Seq(T))
    PROVE  Chained(p \o q) = Chained(p) \o Chained(q)
<1>1. PICK r : r = p \o q OBVIOUS
<1>a. r \in Seq(Seq(T)) BY <1>1, ConcatProperties
<1>2. /\ Len(p) \in Nat /\ Len(q) \in Nat /\ Len(r) = Len(p) + Len(q)
      /\ \A i \in 1 .. Len(p) : r[i] = p[i]
      /\ \A i \in 1 .. Len(q) : r[Len(p) + i] = q[i]
  BY <1>1
<1>3. PICK f : Chains(r, f) BY <1>a, ChainedBy
<1>4. PICK g : Chains(q, g) BY ChainedBy
<1>5. PICK h : Chains(p, h) BY ChainedBy
<1>6. f[Len(p)] = h[Len(p)]
  <2>1. Len(r) \in Nat /\ Len(p) <= Len(r) /\ Len(p) <= Len(p) BY <1>2
  <2>2. \A j \in 1 .. Len(p) : r[j] = p[j] BY <1>2
  <2>3. Len(p) \in Nat BY <1>2
  <2> QED BY ONLY <2>3, <1>3, <1>5, <2>1, <2>2, ChainedAgree, SMT
<1>7. f[Len(p)] \in Seq(T)
  <2>1. Len(p) \in 0 .. Len(r) BY <1>2
  <2> QED BY <1>a, <1>3, <2>1, ChainedParts
<1> DEFINE B == {n \in 0 .. Len(q) : f[Len(p) + n] # f[Len(p)] \o g[n]}
<1>8. B = {}
  <2> SUFFICES ASSUME B # {} PROVE FALSE OBVIOUS
  <2>1. PICK n \in B : \A y \in B : n <= y
    <3>1. B \subseteq 0 .. Len(q) BY Zenon
    <3> HIDE DEF B
    <3>2. B \subseteq Nat BY <1>2, <3>1
    <3> QED BY <3>2, LeastNumber
  <2>b. n \in 0 .. Len(q) OBVIOUS
  <2>c. f[Len(p) + n] # f[Len(p)] \o g[n] OBVIOUS
  <2>2. n \in 0 .. Len(q) /\ f[Len(p) + n] # f[Len(p)] \o g[n] BY <2>b, <2>c
  <2>3. n # 0
    <3> SUFFICES ASSUME n = 0 PROVE FALSE OBVIOUS
    <3>1. g[n] = <<>> /\ Len(p) + n = Len(p) BY <1>2, <1>4 DEF Chains
    <3>2. f[Len(p)] \o <<>> = f[Len(p)] BY <1>7, ConcatEmptySeq
    <3> QED BY <2>2, <3>1, <3>2
  <2>4. PICK m : m = n - 1 OBVIOUS
  <2>5. m \in 0 .. Len(q) /\ n \in 1 .. Len(q) /\ n - 1 = m
    BY <1>2, <2>2, <2>3, <2>4
  <2>a. m \notin B
    <3>1. ~ (n <= m) BY <1>2, <2>5
    <3> HIDE DEF B
    <3> QED BY <2>1, <3>1
  <2>6. f[Len(p) + m] = f[Len(p)] \o g[m] BY <2>5, <2>a
  <2>7. Len(p) + n \in 1 .. Len(r) /\ (Len(p) + n) - 1 = Len(p) + m BY <1>2, <2>4, <2>5
  <2>8. f[Len(p) + n] = f[Len(p) + m] \o r[Len(p) + n] BY <1>3, <2>7 DEF Chains
  <2>9. r[Len(p) + n] = q[n] BY <1>2, <2>5
  <2>10. g[n] = g[m] \o q[n] BY <1>4, <2>5 DEF Chains
  <2>11. g[m] \in Seq(T) BY <1>4, <2>5, ChainedParts
  <2>12. q[n] \in Seq(T) BY <2>5
  <2>13. (f[Len(p)] \o g[m]) \o q[n] = f[Len(p)] \o (g[m] \o q[n])
    <3>1. PICK x, y, z : x = f[Len(p)] /\ y = g[m] /\ z = q[n] OBVIOUS
    <3>2. x \in Seq(T) /\ y \in Seq(T) /\ z \in Seq(T) BY <1>7, <2>11, <2>12, <3>1
    <3>3. (x \o y) \o z = x \o (y \o z) BY ONLY <3>2, ConcatAssociative, SMT
    <3> QED BY <3>1, <3>3
  <2> QED BY <2>2, <2>6, <2>8, <2>9, <2>10, <2>13
<1>9. Len(q) \in 0 .. Len(q) BY <1>2
<1>10. f[Len(r)] = f[Len(p)] \o g[Len(q)]
  <2>1. f[Len(p) + Len(q)] = f[Len(p)] \o g[Len(q)] BY <1>8, <1>9
  <2> QED BY <1>2, <2>1
<1>11. Chained(r) = f[Len(r)] BY <1>3 DEF Chains
<1>12. Chained(p) = h[Len(p)] BY <1>5 DEF Chains
<1>13. Chained(q) = g[Len(q)] BY <1>4 DEF Chains
<1> QED BY <1>1, <1>6, <1>10, <1>11, <1>12, <1>13

(* A sequence grows, and those after it are empty.                          *)
LEMMA ChainedGrows ==
    ASSUME NEW T, NEW p \in Seq(Seq(T)), NEW q \in Seq(Seq(T)), Len(p) = Len(q), NEW k \in 1 .. Len(p),
           NEW e \in Seq(T), q[k] = p[k] \o e,
           \A j \in 1 .. k - 1 : p[j] = q[j],
           \A j \in k + 1 .. Len(p) : p[j] = <<>> /\ q[j] = <<>>
    PROVE  Chained(q) = Chained(p) \o e
<1>1. PICK f : Chains(p, f) BY ChainedBy
<1>2. PICK g : Chains(q, g) BY ChainedBy
<1>3. Len(p) \in Nat OBVIOUS
<1>4. PICK m : m = k - 1 OBVIOUS
<1>5. m \in 0 .. Len(p) /\ k \in 0 .. Len(p) /\ k \in 1 .. Len(q) /\ m \in 0 .. Len(q) /\ k \in 0 .. Len(q)
  BY <1>3, <1>4
<1>6. f[m] = g[m]
  <2>1. m \in Nat /\ Len(p) \in Nat /\ Len(q) \in Nat /\ m <= Len(p) /\ m <= Len(q) BY <1>3, <1>4
  <2>2. \A j \in 1 .. m : p[j] = q[j] BY <1>4
  <2> QED BY ONLY <1>1, <1>2, <2>1, <2>2, ChainedAgree, SMT
<1>7. f[k] = f[m] \o p[k] /\ g[k] = g[m] \o q[k] BY <1>1, <1>2, <1>4, <1>5 DEF Chains
<1>8. f[m] \in Seq(T) /\ p[k] \in Seq(T)
  <2>1. f[m] \in Seq(T) BY <1>1, <1>5, ChainedParts
  <2> QED BY <2>1
<1>9. (f[m] \o p[k]) \o e = f[m] \o (p[k] \o e) 
  <2>1. PICK x, y : x = f[m] /\ y = p[k] OBVIOUS
  <2>2. x \in Seq(T) /\ y \in Seq(T) /\ e \in Seq(T) BY <1>8, <2>1
  <2>3. (x \o y) \o e = x \o (y \o e) BY ONLY <2>2, ConcatAssociative, SMT
  <2> QED BY <2>1, <2>3
<1>10. g[k] = f[k] \o e BY <1>6, <1>7, <1>9
<1>11. k \in Nat /\ k <= Len(p) /\ k <= Len(q) BY <1>3, <1>5
<1>12. Chained(p) = f[k] BY <1>1, <1>11, ChainedEnd
<1>13. Chained(q) = g[k]
  <2>1. \A j \in k + 1 .. Len(q) : q[j] = <<>> OBVIOUS
  <2> QED BY <1>2, <1>11, <2>1, ChainedEnd
<1> QED BY <1>10, <1>12, <1>13
=============================================================================
