---------------------------- MODULE SharedProofs ----------------------------
(* Proofs about the locations shared by sessions, for any sessions,         *)
(* machines, directories and bounds; about the status buffer of the git     *)
(* interface, for any files, hunks and bounds; about the directories that   *)
(* error messages are looked up in, for any output; about dired, for any    *)
(* files and directories; and about the picker, for any candidates.         *)
EXTENDS Locations, GitStatus, Compilation, Dired, Picker, SelectionProofs, TLAPS

(* Nothing here depends on what Touch makes of a list.                      *)

PCs == {"off", "idle", "locking", "reading", "writing", "saved"}

Locked(s) == pc[s] \in {"reading", "writing", "saved"}

(* A session between lock_state and close has the lock: what it read is     *)
(* still in the file when it comes to replace it.                           *)
LockKept == \A s \in Sessions : Locked(s) => lock = s

(* The variables are functions of the sessions, and -q sessions never save. *)
Shape == /\ pc \in [Sessions -> PCs]
         /\ DOMAIN cur = Sessions /\ DOMAIN note = Sessions
         /\ lock \in Sessions \cup {NoSession}
         /\ \A s \in Quiet : pc[s] \in {"off", "idle"}

IInv == Shape /\ LockKept /\ OneLocationChanged

LEMMA InitIInv == Init => IInv
  BY SessionsAssumption DEF Init, IInv, Shape, PCs, LockKept, Locked, OneLocationChanged

LEMMA ShapeStep == IInv /\ [Next]_vars => Shape'
<1> SUFFICES ASSUME IInv, [Next]_vars PROVE Shape'
  OBVIOUS
<1> USE SessionsAssumption DEF IInv, Shape, PCs
<1>1. CASE UNCHANGED vars
  BY <1>1 DEF vars
<1>2. ASSUME NEW s \in Sessions, Start(s) PROVE Shape'
  BY <1>2 DEF Start
<1>3. ASSUME NEW s \in Sessions, NEW n \in Notes, Note(s, n) PROVE Shape'
  BY <1>3 DEF Note
<1>4. ASSUME NEW s \in Sessions, Lock(s) PROVE Shape'
  BY <1>4 DEF Lock
<1>5. ASSUME NEW s \in Sessions, NoLock(s) \/ ReadFails(s) \/ WriteFails(s) PROVE Shape'
  BY <1>5 DEF NoLock, ReadFails, WriteFails, Unsaved, Unlocked
<1>6. ASSUME NEW s \in Sessions, Read(s) \/ Write(s) PROVE Shape'
  BY <1>6 DEF Read, Write
<1>7. ASSUME NEW s \in Sessions, Adopt(s) \/ Leave(s) PROVE Shape'
  BY <1>7 DEF Adopt, Leave, Unlocked
<1> QED
  BY <1>1, <1>2, <1>3, <1>4, <1>5, <1>6, <1>7 DEF Next, Save

(* The lock is taken only when free, and given up by its holder alone.      *)
LEMMA LockStep == IInv /\ [Next]_vars => LockKept'
<1> SUFFICES ASSUME IInv, [Next]_vars PROVE LockKept'
  OBVIOUS
<1> USE SessionsAssumption DEF IInv, Shape, PCs, LockKept, Locked
<1>1. CASE UNCHANGED vars
  BY <1>1 DEF vars
<1>2. ASSUME NEW s \in Sessions, Start(s) PROVE LockKept'
  BY <1>2 DEF Start
<1>3. ASSUME NEW s \in Sessions, NEW n \in Notes, Note(s, n) PROVE LockKept'
  BY <1>3 DEF Note
<1>4. ASSUME NEW s \in Sessions, Lock(s) PROVE LockKept'
  BY <1>4 DEF Lock, MayLock
<1>5. ASSUME NEW s \in Sessions, NoLock(s) \/ ReadFails(s) \/ WriteFails(s) PROVE LockKept'
  BY <1>5 DEF NoLock, ReadFails, WriteFails, Unsaved, Unlocked
<1>6. ASSUME NEW s \in Sessions, Read(s) \/ Write(s) PROVE LockKept'
  BY <1>6 DEF Read, Write
<1>7. ASSUME NEW s \in Sessions, Adopt(s) \/ Leave(s) PROVE LockKept'
  BY <1>7 DEF Adopt, Leave, Unlocked
<1> QED
  BY <1>1, <1>2, <1>3, <1>4, <1>5, <1>6, <1>7 DEF Next, Save

(* While a session is about to replace the file, no other can: a rename by  *)
(* another would need the same lock.                                        *)
LEMMA UpdateStep == IInv /\ [Next]_vars => OneLocationChanged'
<1> SUFFICES ASSUME IInv, [Next]_vars, NEW t \in Sessions, pc'[t] = "writing"
             PROVE  file' # Foreign /\ cur'[t] = Touch(file', note'[t])
  BY DEF OneLocationChanged
<1> DEFINE Same == /\ pc[t] = "writing" /\ file' = file
                   /\ cur'[t] = cur[t] /\ note'[t] = note[t]
<1>same. ASSUME Same PROVE file' # Foreign /\ cur'[t] = Touch(file', note'[t])
  BY <1>same DEF IInv, OneLocationChanged
<1> USE DEF Shape, PCs
<1>1. CASE UNCHANGED vars
  BY <1>1, <1>same DEF vars, IInv
<1>2. ASSUME NEW s \in Sessions, Start(s) PROVE Same
  BY <1>2 DEF Start, IInv
<1>3. ASSUME NEW s \in Sessions, NEW n \in Notes, Note(s, n) PROVE Same
  BY <1>3 DEF Note, IInv
<1>4. ASSUME NEW s \in Sessions, Lock(s) PROVE Same
  BY <1>4 DEF Lock, IInv
<1>5. ASSUME NEW s \in Sessions, NoLock(s) \/ ReadFails(s) \/ WriteFails(s) PROVE Same
  BY <1>5 DEF NoLock, ReadFails, WriteFails, Unsaved, IInv
<1>6. ASSUME NEW s \in Sessions, Read(s), s # t PROVE Same
  BY <1>6 DEF Read, IInv
<1>7. ASSUME Read(t) PROVE file' # Foreign /\ cur'[t] = Touch(file', note'[t])
  BY <1>7 DEF Read, Readable, Parsed, IInv
<1>8. ASSUME NEW s \in Sessions, Write(s) PROVE FALSE
  BY <1>8 DEF Write, IInv, LockKept, Locked
<1>9. ASSUME NEW s \in Sessions, Adopt(s) \/ Leave(s) PROVE Same
  BY <1>9 DEF Adopt, Leave, IInv
<1> QED
  BY <1>same, <1>1, <1>2, <1>3, <1>4, <1>5, <1>6, <1>7, <1>8, <1>9 DEF Next, Save

LEMMA Inductive == Spec => []IInv
<1>1. IInv /\ [Next]_vars => IInv'
  BY ShapeStep, LockStep, UpdateStep DEF IInv
<1> QED
  BY InitIInv, <1>1, PTL DEF Spec

(* Of two sessions that note locations at once neither loses the other's:   *)
(* what location_note is about to replace the file by is what the file      *)
(* holds, with its own location first.                                      *)
THEOREM LocationsAreKept == Spec => []OneLocationChanged
<1>1. IInv => OneLocationChanged
  BY DEF IInv
<1> QED
  BY Inductive, <1>1, PTL

(* A locations file of another version is never replaced.                   *)
THEOREM ForeignFilesStay == Spec => ForeignLeftAlone
<1>1. IInv /\ [Next]_vars => [file = Foreign => file' = Foreign]_vars
  <2> SUFFICES ASSUME IInv, Next, file = Foreign PROVE file' = Foreign
    OBVIOUS
  <2>1. ASSUME NEW s \in Sessions, Write(s) PROVE FALSE
    BY <2>1 DEF Write, IInv, OneLocationChanged
  <2> QED
    BY <2>1 DEF Next, Save, Start, Lock, NoLock, Read, ReadFails, WriteFails, Adopt, Leave,
                Note, Unsaved
<1> QED
  BY Inductive, <1>1, PTL DEF Spec, ForeignLeftAlone

(* What is in the locations file stays there until it is noted anew.        *)
THEOREM FilesAreKept == Spec => NotesKept
  BY LocationsAreKept, ForeignFilesStay, PTL DEF NotesKept

-----------------------------------------------------------------------------
(* What Touch makes of a list: the location noted comes first, the others   *)
(* keep their order, and the last machine goes if there is one too many.    *)

(* Where the machines of a list are, and how many there may be.             *)
Spot(l) == MachinesIn(l, Len(l))

LEMMA SpotFinite ==
    ASSUME NEW l \in Seq(Locs), NEW k \in Nat
    PROVE  IsFiniteSet(MachinesIn(l, k)) /\ Cardinality(MachinesIn(l, k)) \in Nat
<1>1. MachinesIn(l, k) \in SUBSET (1 .. k) BY DEF MachinesIn
<1>2. IsFiniteSet(1 .. k) BY FS_Interval
<1>3. IsFiniteSet(MachinesIn(l, k)) BY <1>1, <1>2, FS_Subset
<1> QED BY <1>3, FS_CardinalityType

(* The location put first has a directory, and is of the machine noted.     *)
LEMMA DirIsDir ==
    ASSUME NEW l \in Seq(Locs), NEW a
    PROVE  DirIn(l, a) \in Dirs \cup {NoDir}
<1> DEFINE here == {i \in DOMAIN l : l[i].at = a}
<1>1. CASE here = {} BY <1>1 DEF DirIn
<1>2. CASE here # {}
  <2>1. (CHOOSE i \in here : TRUE) \in here BY <1>2
  <2>2. PICK i \in DOMAIN l : i = CHOOSE j \in here : TRUE BY <2>1
  <2>3. l[i] \in Locs OBVIOUS
  <2>4. l[i].dir \in Dirs \cup {NoDir} BY <2>3 DEF Locs
  <2> QED BY <1>2, <2>2, <2>4 DEF DirIn
<1> QED BY <1>1, <1>2

LEMMA NewIsLoc ==
    ASSUME NEW l \in Seq(Locs), NEW n \in Locs
    PROVE  /\ [n EXCEPT !.dir = KeptDir(l, n)] \in Locs
           /\ [n EXCEPT !.dir = KeptDir(l, n)].at = n.at
<1>1. KeptDir(l, n) \in Dirs \cup {NoDir} BY DirIsDir DEF KeptDir, Locs
<1> QED BY <1>1 DEF Locs

(* r is l with a location of the machine a first: e says where in l the     *)
(* others were.                                                             *)
Moved(r, l, a, e) ==
    /\ Len(r) >= 1 /\ r[1].at = a
    /\ e \in [2 .. Len(r) -> 1 .. Len(l)]
    /\ \A k \in 2 .. Len(r) : r[k].at = l[e[k]].at /\ r[k].at # a
    /\ \A j \in 2 .. Len(r), k \in 2 .. Len(r) : j < k => e[j] < e[k]

LEMMA OrderedMoves ==
    ASSUME NEW l \in Seq(Locs), NEW new \in Locs
    PROVE  /\ Ordered(l, new) \in Seq(Locs)
           /\ \E e : /\ Moved(Ordered(l, new), l, new.at, e)
                     /\ \A i \in 1 .. Len(l) : l[i].at # new.at => \E k \in 2 .. Len(Ordered(l, new)) : e[k] = i
<1> DEFINE S == {k \in DOMAIN l : l[k].at # new.at}
           r == Ordered(l, new)
<1>1. PICK s \in Seq(Locs) : s = Selected(l, S) BY SelectedComes
<1>2. PICK e : ComesFrom(s, l, S, Len(l), e) BY <1>1, SelectedComes
<1>3. r = <<new>> \o s BY <1>1 DEF Ordered
<1>4. /\ r \in Seq(Locs) /\ Len(s) \in Nat /\ Len(r) = Len(s) + 1 /\ r[1] = new
      /\ \A k \in 2 .. Len(r) : r[k] = s[k - 1]
  BY <1>3
<1> HIDE DEF r
<1>5. /\ e \in [1 .. Len(s) -> 1 .. Len(l)]
      /\ \A k \in 1 .. Len(s) : e[k] \in S /\ s[k] = l[e[k]]
      /\ \A j \in 1 .. Len(s), k \in 1 .. Len(s) : j < k => e[j] < e[k]
      /\ \A i \in 1 .. Len(l) : i \in S => \E k \in 1 .. Len(s) : e[k] = i
  BY <1>2 DEF ComesFrom
<1> DEFINE f == [k \in 2 .. Len(r) |-> e[k - 1]]
<1>6. \A k \in 2 .. Len(r) : k - 1 \in 1 .. Len(s) /\ f[k] = e[k - 1]
  BY <1>4
<1>7. f \in [2 .. Len(r) -> 1 .. Len(l)]
  BY <1>5, <1>6
<1>8. \A k \in 2 .. Len(r) : r[k].at = l[f[k]].at /\ r[k].at # new.at
  BY <1>4, <1>5, <1>6
<1> HIDE DEF f
<1>9. ASSUME NEW j \in 2 .. Len(r), NEW k \in 2 .. Len(r), j < k PROVE f[j] < f[k]
  <2>1. j - 1 < k - 1 BY <1>9
  <2> QED BY <1>5, <1>6, <2>1
<1>10. Moved(r, l, new.at, f)
  BY <1>4, <1>7, <1>8, <1>9 DEF Moved
<1>11. ASSUME NEW i \in 1 .. Len(l), l[i].at # new.at PROVE \E k \in 2 .. Len(r) : f[k] = i
  <2>1. i \in S BY <1>11
  <2>2. PICK k \in 1 .. Len(s) : e[k] = i BY <1>5, <2>1
  <2>3. k + 1 \in 2 .. Len(r) /\ (k + 1) - 1 = k BY <1>4
  <2>4. f[k + 1] = i BY <1>6, <2>2, <2>3
  <2> QED BY <2>3, <2>4
<1> QED BY <1>4, <1>10, <1>11 DEF r

Distinct(l) == \A i \in 1 .. Len(l), j \in 1 .. Len(l) : l[i].at = l[j].at => i = j

LEMMA MovedCount ==
    ASSUME NEW l \in Seq(Locs), NEW r \in Seq(Locs), NEW a, NEW e, Moved(r, l, a, e),
           NEW m \in Nat, Cardinality(Spot(l)) <= m
    PROVE  Cardinality(Spot(r)) <= m + 1
<1>1. IsFiniteSet(Spot(l)) /\ IsFiniteSet(Spot(r)) /\ Cardinality(Spot(l)) \in Nat /\ Cardinality(Spot(r)) \in Nat
  BY SpotFinite DEF Spot
<1> DEFINE A == Spot(r) \ {1}
           f == [k \in A |-> e[k]]
<1>2. /\ e \in [2 .. Len(r) -> 1 .. Len(l)]
      /\ \A k \in 2 .. Len(r) : r[k].at = l[e[k]].at
      /\ \A j \in 2 .. Len(r), k \in 2 .. Len(r) : j < k => e[j] < e[k]
  BY DEF Moved
<1>3. \A k \in A : k \in 2 .. Len(r) /\ r[k].at # Local
  BY DEF Spot, MachinesIn
<1>4. f \in [A -> Spot(l)]
  <2> SUFFICES ASSUME NEW k \in A PROVE e[k] \in Spot(l)
    OBVIOUS
  <2>1. e[k] \in 1 .. Len(l) /\ l[e[k]].at # Local BY <1>2, <1>3
  <2> QED BY <2>1 DEF Spot, MachinesIn
<1>5. ASSUME NEW j \in A, NEW k \in A, f[j] = f[k] PROVE j = k
  <2>1. j \in 2 .. Len(r) /\ k \in 2 .. Len(r) /\ e[j] = e[k] BY <1>3, <1>5
  <2>2. e[j] \in 1 .. Len(l) BY <1>2, <2>1
  <2>3. ~ (j < k) /\ ~ (k < j) BY <1>2, <2>1, <2>2
  <2> QED BY <2>1, <2>3
<1>6. f \in Injection(A, Spot(l))
  BY <1>4, <1>5 DEF Injection, IsInjective
<1>7. Cardinality(A) <= Cardinality(Spot(l))
  BY <1>1, <1>6, FS_Injection
<1>8. Cardinality(A) = IF 1 \in Spot(r) THEN Cardinality(Spot(r)) - 1 ELSE Cardinality(Spot(r))
  BY <1>1, FS_RemoveElement
<1> QED BY <1>1, <1>7, <1>8

LEMMA MovedDistinct ==
    ASSUME NEW l \in Seq(Locs), NEW r \in Seq(Locs), NEW a, NEW e, Moved(r, l, a, e), Distinct(l)
    PROVE  Distinct(r)
<1> SUFFICES ASSUME NEW i \in 1 .. Len(r), NEW j \in 1 .. Len(r), r[i].at = r[j].at PROVE i = j
  BY DEF Distinct
<1>1. /\ r[1].at = a
      /\ e \in [2 .. Len(r) -> 1 .. Len(l)]
      /\ \A k \in 2 .. Len(r) : r[k].at = l[e[k]].at /\ r[k].at # a
      /\ \A x \in 2 .. Len(r), y \in 2 .. Len(r) : x < y => e[x] < e[y]
  BY DEF Moved
<1>2. CASE i = 1
  <2>1. j \notin 2 .. Len(r) BY <1>1, <1>2
  <2> QED BY <1>2, <2>1
<1>3. CASE j = 1
  <2>1. i \notin 2 .. Len(r) BY <1>1, <1>3
  <2> QED BY <1>3, <2>1
<1>4. CASE i # 1 /\ j # 1
  <2>1. i \in 2 .. Len(r) /\ j \in 2 .. Len(r) BY <1>4
  <2>2. e[i] \in 1 .. Len(l) /\ e[j] \in 1 .. Len(l) /\ l[e[i]].at = l[e[j]].at BY <1>1, <2>1
  <2>3. e[i] = e[j] BY <2>2 DEF Distinct
  <2>4. ~ (i < j) /\ ~ (j < i) BY <1>1, <2>1, <2>2, <2>3
  <2> QED BY <2>1, <2>4
<1> QED BY <1>2, <1>3, <1>4

LEMMA RemovedAt ==
    ASSUME NEW T, NEW r \in Seq(T), NEW k \in 1 .. Len(r)
    PROVE  /\ RemoveAt(r, k) \in Seq(T) /\ Len(RemoveAt(r, k)) = Len(r) - 1
           /\ \A i \in 1 .. Len(r) - 1 : RemoveAt(r, k)[i] = IF i < k THEN r[i] ELSE r[i + 1]
<1> DEFINE s == SubSeq(r, 1, k - 1)
           u == SubSeq(r, k + 1, Len(r))
<1>1. Len(r) \in Nat OBVIOUS
<1>2. s \in Seq(T) /\ Len(s) = k - 1 /\ \A i \in 1 .. k - 1 : s[i] = r[i]
  OBVIOUS
<1>3. u \in Seq(T) /\ Len(u) = Len(r) - k /\ \A i \in 1 .. Len(r) - k : u[i] = r[k + i]
  OBVIOUS
<1>4. RemoveAt(r, k) = s \o u BY DEF RemoveAt
<1> HIDE DEF s, u
<1>5. s \o u \in Seq(T) /\ Len(s \o u) = Len(s) + Len(u)
  <2>1. s \in Seq(T) /\ u \in Seq(T) BY <1>2, <1>3
  <2> QED BY <2>1, ConcatProperties
<1>6. ASSUME NEW i \in 1 .. Len(r) - 1 PROVE (s \o u)[i] = IF i < k THEN r[i] ELSE r[i + 1]
  <2>1. (s \o u)[i] = IF i <= Len(s) THEN s[i] ELSE u[i - Len(s)]
    BY <1>1, <1>2, <1>3
  <2>2. CASE i < k BY <2>1, <2>2, <1>2
  <2>3. CASE ~ (i < k)
    <3>1. i - (k - 1) \in 1 .. Len(r) - k /\ k + (i - (k - 1)) = i + 1 BY <2>3, <1>1
    <3>2. ~ (i <= Len(s)) BY <2>3, <1>2
    <3>3. u[i - (k - 1)] = r[i + 1] BY <3>1, <1>3
    <3> QED BY <2>1, <2>3, <3>2, <3>3, <1>2
  <2> QED BY <2>2, <2>3
<1>7. (k - 1) + (Len(r) - k) = Len(r) - 1 BY <1>1
<1> QED BY <1>1, <1>2, <1>3, <1>4, <1>5, <1>6, <1>7

(* saved_touch leaves out the last machine if there is one too many.        *)
LEMMA CappedCases ==
    ASSUME NEW r \in Seq(Locs), Cardinality(Spot(r)) <= MAX_SAVED_CONNECTIONS + 1
    PROVE  \/ Capped(r) = r /\ Cardinality(Spot(r)) <= MAX_SAVED_CONNECTIONS
           \/ \E k \in Spot(r) : /\ Capped(r) = RemoveAt(r, k)
                                 /\ Cardinality(Spot(r)) = MAX_SAVED_CONNECTIONS + 1
                                 /\ \A j \in Spot(r) : j <= k
<1> DEFINE over == {k \in DOMAIN r : TooMany(r, k)}
<1>0. MAX_SAVED_CONNECTIONS \in Nat BY BoundsAssumption
<1>1. Len(r) \in Nat /\ DOMAIN r = 1 .. Len(r) OBVIOUS
<1>2. IsFiniteSet(Spot(r)) /\ Cardinality(Spot(r)) \in Nat BY <1>1, SpotFinite DEF Spot
<1>3. Spot(r) \subseteq 1 .. Len(r) /\ Spot(r) \subseteq 0 .. Len(r) BY DEF Spot, MachinesIn
<1>4. ASSUME NEW k \in over
      PROVE  k \in Spot(r) /\ Cardinality(Spot(r)) = MAX_SAVED_CONNECTIONS + 1 /\ \A j \in Spot(r) : j <= k
  <2>1. k \in 1 .. Len(r) /\ r[k].at # Local /\ Cardinality(MachinesIn(r, k)) = MAX_SAVED_CONNECTIONS + 1
    BY <1>1 DEF TooMany
  <2>2. MachinesIn(r, k) \in SUBSET Spot(r) BY <2>1, <1>1 DEF Spot, MachinesIn
  <2>3. Cardinality(MachinesIn(r, k)) <= Cardinality(Spot(r)) BY <1>2, <2>2, FS_Subset
  <2>4. Cardinality(Spot(r)) = MAX_SAVED_CONNECTIONS + 1 BY <1>0, <1>2, <2>1, <2>3
  <2>5. Spot(r) = MachinesIn(r, k) BY <1>2, <2>1, <2>2, <2>4, FS_Subset
  <2>6. k \in Spot(r) BY <2>1 DEF Spot, MachinesIn
  <2>7. \A j \in Spot(r) : j <= k BY <2>5 DEF MachinesIn
  <2> QED BY <2>4, <2>6, <2>7
<1>5. CASE over # {}
  <2>1. PICK k \in over : k = CHOOSE j \in over : TRUE BY <1>5
  <2>2. Capped(r) = RemoveAt(r, k) BY <1>5, <2>1 DEF Capped
  <2>3. k \in Spot(r) BY <1>4
  <2> QED BY <1>4, <2>2, <2>3
<1>6. CASE over = {}
  <2>1. Capped(r) = r BY <1>6 DEF Capped
  <2>2. Cardinality(Spot(r)) # MAX_SAVED_CONNECTIONS + 1
    <3> SUFFICES ASSUME Cardinality(Spot(r)) = MAX_SAVED_CONNECTIONS + 1 PROVE FALSE
      OBVIOUS
    <3>1. Spot(r) # {}
      <4>1. ASSUME Spot(r) = {} PROVE Cardinality(Spot(r)) = 0
        <5>1. Cardinality({}) = 0 BY FS_EmptySet
        <5> QED BY <4>1, <5>1, Zenon
      <4>2. Cardinality(Spot(r)) # 0 BY <1>0
      <4> QED BY <4>1, <4>2
    <3>2. PICK k \in Spot(r) : \A j \in Spot(r) : j <= k BY <1>1, <1>3, <3>1, GreatestIndex
    <3>3. k \in 1 .. Len(r) /\ r[k].at # Local BY DEF Spot, MachinesIn
    <3>4. MachinesIn(r, k) = Spot(r) BY <1>1, <1>3, <3>2, <3>3 DEF Spot, MachinesIn
    <3>5. k \in over BY <1>1, <3>3, <3>4 DEF TooMany
    <3> QED BY <1>6, <3>5
  <2> QED BY <1>0, <1>2, <2>1, <2>2
<1> QED BY <1>5, <1>6

(* t is l with a location of a first, and perhaps without the last machine. *)
Touched(t, l, a, e) ==
    /\ Moved(t, l, a, e)
    /\ \A i \in 1 .. Len(l) :
          \/ l[i].at = a
          \/ \E k \in 2 .. Len(t) : e[k] = i
          \/ /\ l[i].at # Local /\ Cardinality(Spot(t)) = MAX_SAVED_CONNECTIONS
             /\ \A k \in 2 .. Len(t) : t[k].at # Local => e[k] < i

LEMMA LastLeftOut ==
    ASSUME NEW l \in Seq(Locs), NEW r \in Seq(Locs), NEW a, NEW e, Moved(r, l, a, e), Distinct(r),
           \A i \in 1 .. Len(l) : l[i].at # a => \E k \in 2 .. Len(r) : e[k] = i,
           NEW k \in Spot(r), Cardinality(Spot(r)) = MAX_SAVED_CONNECTIONS + 1, \A j \in Spot(r) : j <= k
    PROVE  /\ RemoveAt(r, k) \in Seq(Locs) /\ Distinct(RemoveAt(r, k))
           /\ Cardinality(Spot(RemoveAt(r, k))) <= MAX_SAVED_CONNECTIONS
           /\ \E f : Touched(RemoveAt(r, k), l, a, f)
<1>0. MAX_SAVED_CONNECTIONS \in Nat \ {0} BY BoundsAssumption
<1>1. Len(r) \in Nat /\ k \in 1 .. Len(r) /\ r[k].at # Local BY DEF Spot, MachinesIn
<1>2. k # 1
  <2> SUFFICES ASSUME k = 1 PROVE FALSE
    OBVIOUS
  <2>1. Spot(r) \in SUBSET {1} BY <1>1 DEF Spot, MachinesIn
  <2>2. IsFiniteSet({1}) /\ Cardinality({1}) = 1 BY FS_Singleton
  <2>3. Cardinality(Spot(r)) <= 1 BY <2>1, <2>2, FS_Subset
  <2> QED BY <1>0, <2>3
<1> DEFINE t == RemoveAt(r, k)
           was == [i \in 1 .. Len(r) - 1 |-> IF i < k THEN i ELSE i + 1]
           f == [i \in 2 .. Len(r) - 1 |-> e[was[i]]]
<1>3. /\ t \in Seq(Locs) /\ Len(t) = Len(r) - 1
      /\ \A i \in 1 .. Len(r) - 1 : t[i] = IF i < k THEN r[i] ELSE r[i + 1]
  BY <1>1, RemovedAt
<1> HIDE DEF t
<1>4. \A i \in 1 .. Len(r) - 1 : /\ was[i] \in 1 .. Len(r) /\ was[i] # k /\ t[i] = r[was[i]]
                                 /\ i >= 2 => was[i] >= 2
                                 /\ was[i] <= k => i < k /\ was[i] = i
                                 /\ i < k => was[i] = i
  BY <1>1, <1>3
<1>5. \A i \in 1 .. Len(r) - 1, j \in 1 .. Len(r) - 1 : i < j => was[i] < was[j]
  BY <1>1
<1>6. \A m \in 1 .. Len(r) : m # k => \E i \in 1 .. Len(r) - 1 : was[i] = m
  <2> SUFFICES ASSUME NEW m \in 1 .. Len(r), m # k PROVE \E i \in 1 .. Len(r) - 1 : was[i] = m
    OBVIOUS
  <2>1. CASE m < k
    <3>1. m \in 1 .. Len(r) - 1 /\ was[m] = m BY <1>1, <2>1
    <3> QED BY <3>1
  <2>2. CASE m > k
    <3>1. m - 1 \in 1 .. Len(r) - 1 /\ was[m - 1] = m BY <1>1, <2>2
    <3> QED BY <3>1
  <2> QED BY <2>1, <2>2, <1>1
<1>7. was[1] = 1 /\ Len(r) - 1 >= 1 /\ 1 \in 1 .. Len(r) - 1
  BY <1>1, <1>2
<1> HIDE DEF was
<1>8. /\ Len(r) >= 1 /\ r[1].at = a
      /\ e \in [2 .. Len(r) -> 1 .. Len(l)]
      /\ \A i \in 2 .. Len(r) : r[i].at = l[e[i]].at /\ r[i].at # a
      /\ \A i \in 2 .. Len(r), j \in 2 .. Len(r) : i < j => e[i] < e[j]
  BY DEF Moved
<1>9. \A i \in 2 .. Len(r) - 1 : /\ i \in 1 .. Len(r) - 1 /\ was[i] \in 2 .. Len(r) /\ f[i] = e[was[i]]
  BY <1>1, <1>4
<1>10. f \in [2 .. Len(t) -> 1 .. Len(l)]
  BY <1>3, <1>8, <1>9
<1> HIDE DEF f
<1>11. Moved(t, l, a, f)
  <2>1. t[1].at = a BY <1>4, <1>7, <1>8
  <2>2. ASSUME NEW i \in 2 .. Len(t) PROVE t[i].at = l[f[i]].at /\ t[i].at # a
    <3>1. i \in 2 .. Len(r) - 1 BY <1>3
    <3>2. was[i] \in 2 .. Len(r) /\ f[i] = e[was[i]] /\ i \in 1 .. Len(r) - 1 BY <1>9, <3>1
    <3>3. t[i] = r[was[i]] BY <1>4, <3>2
    <3>4. r[was[i]].at = l[e[was[i]]].at /\ r[was[i]].at # a BY <1>8, <3>2
    <3> QED BY <3>2, <3>3, <3>4
  <2>3. ASSUME NEW i \in 2 .. Len(t), NEW j \in 2 .. Len(t), i < j PROVE f[i] < f[j]
    <3>1. was[i] < was[j] BY <1>3, <1>5, <1>9, <2>3
    <3> QED BY <1>3, <1>8, <1>9, <3>1
  <2> QED BY <1>3, <1>7, <1>10, <2>1, <2>2, <2>3 DEF Moved
<1>12. Distinct(t)
  <2> SUFFICES ASSUME NEW i \in 1 .. Len(t), NEW j \in 1 .. Len(t), t[i].at = t[j].at PROVE i = j
    BY DEF Distinct
  <2>1. i \in 1 .. Len(r) - 1 /\ j \in 1 .. Len(r) - 1 BY <1>3
  <2>2. was[i] = was[j]
    <3>1. was[i] \in 1 .. Len(r) /\ t[i] = r[was[i]] BY <1>4, <2>1
    <3>2. was[j] \in 1 .. Len(r) /\ t[j] = r[was[j]] BY <1>4, <2>1
    <3>3. r[was[i]].at = r[was[j]].at BY <3>1, <3>2
    <3> QED BY <3>1, <3>2, <3>3 DEF Distinct
  <2>3. was[i] \in Int BY <1>4, <2>1
  <2>4. ~ (i < j) /\ ~ (j < i) BY <1>5, <2>1, <2>2, <2>3
  <2> QED BY <2>1, <2>4
<1>13. Spot(t) = Spot(r) \ {k}
  <2>1. ASSUME NEW i \in Spot(t) PROVE i \in Spot(r) \ {k} /\ i < k
    <3>1. i \in 1 .. Len(r) - 1 /\ t[i].at # Local BY <1>3 DEF Spot, MachinesIn
    <3>2. was[i] \in 1 .. Len(r) /\ r[was[i]].at # Local BY <1>4, <3>1
    <3>3. was[i] \in Spot(r) BY <3>2 DEF Spot, MachinesIn
    <3>4. i < k /\ was[i] = i BY <1>4, <3>1, <3>3
    <3> QED BY <3>1, <3>3, <3>4, <1>1
  <2>2. ASSUME NEW i \in Spot(r) \ {k} PROVE i \in Spot(t)
    <3>1. i \in 1 .. Len(r) /\ r[i].at # Local /\ i <= k /\ i # k BY DEF Spot, MachinesIn
    <3>2. i < k /\ i \in 1 .. Len(r) - 1 BY <1>1, <3>1
    <3>3. t[i] = r[i] BY <1>3, <3>2
    <3> QED BY <1>3, <3>1, <3>2, <3>3 DEF Spot, MachinesIn
  <2> QED BY <2>1, <2>2
<1>14. Cardinality(Spot(t)) = MAX_SAVED_CONNECTIONS
  <2>1. IsFiniteSet(Spot(r)) BY <1>1, SpotFinite DEF Spot
  <2>2. Cardinality(Spot(r) \ {k}) = Cardinality(Spot(r)) - 1 BY <2>1, FS_RemoveElement
  <2> QED BY <1>0, <1>13, <2>2
<1>15. ASSUME NEW i \in 1 .. Len(l), l[i].at # a, ~ \E j \in 2 .. Len(t) : f[j] = i
       PROVE  l[i].at # Local /\ \A j \in 2 .. Len(t) : t[j].at # Local => f[j] < i
  <2>1. PICK m \in 2 .. Len(r) : e[m] = i BY <1>15
  <2>2. m = k
    <3> SUFFICES ASSUME m # k PROVE FALSE
      OBVIOUS
    <3>1. m \in 1 .. Len(r) BY <1>1
    <3>2. PICK j \in 1 .. Len(r) - 1 : was[j] = m BY <1>6, <3>1
    <3>3. j # 1 BY <1>7, <3>2
    <3>4. j \in 2 .. Len(t) BY <1>3, <3>2, <3>3
    <3>5. f[j] = i BY <1>3, <1>9, <2>1, <3>2, <3>4
    <3> QED BY <1>15, <3>4, <3>5
  <2>3. l[i].at # Local BY <1>1, <1>8, <2>1, <2>2
  <2>4. ASSUME NEW j \in 2 .. Len(t), t[j].at # Local PROVE f[j] < i
    <3>1. j \in 2 .. Len(r) - 1 /\ j \in 1 .. Len(t) BY <1>3
    <3>2. j \in Spot(t) BY <2>4, <3>1 DEF Spot, MachinesIn
    <3>3. j \in Spot(r) /\ j # k /\ j <= k BY <1>13, <3>2
    <3>4. j < k BY <1>1, <3>1, <3>3
    <3>5. was[j] = j BY <1>4, <1>9, <3>1, <3>4
    <3>6. f[j] = e[j] /\ j \in 2 .. Len(r) BY <1>9, <3>1, <3>5
    <3>7. e[j] < e[k] BY <1>8, <2>1, <2>2, <3>4, <3>6
    <3> QED BY <2>1, <2>2, <3>6, <3>7
  <2> QED BY <2>3, <2>4
<1>16. Touched(t, l, a, f)
  BY <1>11, <1>14, <1>15 DEF Touched
<1> QED BY <1>0, <1>3, <1>12, <1>14, <1>16 DEF t

LEMMA TouchMoves ==
    ASSUME NEW l \in Seq(Locs), WellFormed(l), NEW n \in Locs
    PROVE  /\ WellFormed(Touch(l, n))
           /\ \E e : Touched(Touch(l, n), l, n.at, e)
<1>0. MAX_SAVED_CONNECTIONS \in Nat BY BoundsAssumption
<1>1. PICK new \in Locs : new = [n EXCEPT !.dir = KeptDir(l, n)] BY NewIsLoc
<1>2. new.at = n.at BY <1>1, NewIsLoc
<1>3. PICK r \in Seq(Locs) : r = Ordered(l, new) BY OrderedMoves
<1>4. PICK e : /\ Moved(r, l, n.at, e)
               /\ \A i \in 1 .. Len(l) : l[i].at # n.at => \E k \in 2 .. Len(r) : e[k] = i
  BY <1>2, <1>3, OrderedMoves
<1>5. Touch(l, n) = Capped(r) BY <1>1, <1>3 DEF Touch
<1>6. Distinct(l) /\ Cardinality(Spot(l)) <= MAX_SAVED_CONNECTIONS
  BY DEF WellFormed, Distinct, Spot
<1>7. Cardinality(Spot(r)) <= MAX_SAVED_CONNECTIONS + 1 BY <1>0, <1>4, <1>6, MovedCount
<1>8. Distinct(r) BY <1>4, <1>6, MovedDistinct
<1>9. ASSUME NEW t \in Seq(Locs), Distinct(t), Cardinality(Spot(t)) <= MAX_SAVED_CONNECTIONS PROVE WellFormed(t)
  BY <1>9 DEF WellFormed, Distinct, Spot
<1>10. CASE Capped(r) = r /\ Cardinality(Spot(r)) <= MAX_SAVED_CONNECTIONS
  <2>1. WellFormed(r) BY <1>8, <1>9, <1>10
  <2>2. Touched(r, l, n.at, e) BY <1>4 DEF Touched
  <2> QED BY <1>5, <1>10, <2>1, <2>2
<1>11. ASSUME NEW k \in Spot(r), Capped(r) = RemoveAt(r, k),
              Cardinality(Spot(r)) = MAX_SAVED_CONNECTIONS + 1, \A j \in Spot(r) : j <= k
       PROVE  WellFormed(Touch(l, n)) /\ \E f : Touched(Touch(l, n), l, n.at, f)
  <2>1. /\ RemoveAt(r, k) \in Seq(Locs) /\ Distinct(RemoveAt(r, k))
        /\ Cardinality(Spot(RemoveAt(r, k))) <= MAX_SAVED_CONNECTIONS
        /\ \E f : Touched(RemoveAt(r, k), l, n.at, f)
    BY <1>4, <1>8, <1>11, LastLeftOut
  <2>2. WellFormed(RemoveAt(r, k)) BY <1>9, <2>1
  <2> QED BY <1>5, <1>11, <2>1, <2>2
<1> QED BY <1>7, <1>10, <1>11, CappedCases

KeptIn(l) == {l[i].at : i \in DOMAIN l}

LEMMA PlacesOfList ==
    ASSUME NEW l \in Seq(Locs)
    PROVE  Len(l) \in Nat /\ DOMAIN l = 1 .. Len(l) /\ \A i \in 1 .. Len(l) : l[i].at \in At
<1>1. Len(l) \in Nat /\ DOMAIN l = 1 .. Len(l)
  OBVIOUS
<1>2. ASSUME NEW i \in 1 .. Len(l) PROVE l[i].at \in At
  <2>1. l[i] \in Locs OBVIOUS
  <2> QED BY <2>1 DEF Locs
<1> QED BY <1>1, <1>2

LEMMA KeptCount ==
    ASSUME NEW l \in Seq(Locs), Distinct(l)
    PROVE  /\ IsFiniteSet(KeptIn(l) \cap Machines)
           /\ Cardinality(KeptIn(l) \cap Machines) = Cardinality(Spot(l))
<1>1. Len(l) \in Nat /\ DOMAIN l = 1 .. Len(l) /\ \A i \in 1 .. Len(l) : l[i].at \in At
  BY PlacesOfList
<1>2. IsFiniteSet(Spot(l)) BY <1>1, SpotFinite DEF Spot
<1> DEFINE f == [k \in Spot(l) |-> l[k].at]
           K == KeptIn(l) \cap Machines
<1>3. \A k \in Spot(l) : k \in 1 .. Len(l) /\ l[k].at # Local BY DEF Spot, MachinesIn
<1>4. f \in [Spot(l) -> K]
  <2> SUFFICES ASSUME NEW k \in Spot(l) PROVE l[k].at \in K
    OBVIOUS
  <2>1. l[k].at \in Machines BY <1>1, <1>3 DEF At
  <2>2. l[k].at \in KeptIn(l) BY <1>1, <1>3 DEF KeptIn
  <2> QED BY <2>1, <2>2
<1>5. \A x \in Spot(l), y \in Spot(l) : f[x] = f[y] => x = y BY <1>3 DEF Distinct
<1>6. ASSUME NEW b \in K PROVE \E x \in Spot(l) : f[x] = b
  <2>1. PICK i \in 1 .. Len(l) : b = l[i].at BY <1>1 DEF KeptIn
  <2>2. b # Local BY PlacesAssumption
  <2>3. i \in Spot(l) BY <2>1, <2>2 DEF Spot, MachinesIn
  <2> QED BY <2>1, <2>3
<1> HIDE DEF f, K
<1>7. IsFiniteSet(K) /\ Cardinality(K) = Cardinality(Spot(l)) BY <1>2, <1>4, <1>5, <1>6, SameSize
<1> QED BY <1>7 DEF K

(* MostRecentKept, of any list and stamps.                                  *)
Recent(l, st) ==
    /\ \A i \in 1 .. Len(l), j \in 1 .. Len(l) : i < j => st[l[i].at] >= st[l[j].at]
    /\ \A a \in Machines \ KeptIn(l), b \in KeptIn(l) \cap Machines : st[a] <= st[b]
    /\ (\E a \in Machines \ KeptIn(l) : st[a] > 0) =>
          Cardinality(KeptIn(l) \cap Machines) = MAX_SAVED_CONNECTIONS

(* A location touched is the most recent; the least recent machine may go.  *)
LEMMA TouchKeepsRecent ==
    ASSUME NEW l \in Seq(Locs), WellFormed(l), NEW n \in Locs,
           NEW st \in [At -> Nat], NEW top \in Nat, \A a \in At : st[a] <= top, Recent(l, st)
    PROVE  Recent(Touch(l, n), [st EXCEPT ![n.at] = top])
<1>0. MAX_SAVED_CONNECTIONS \in Nat BY BoundsAssumption
<1>1. PICK t : t = Touch(l, n) OBVIOUS
<1>2. t \in Seq(Locs) /\ WellFormed(t) BY <1>1, TouchMoves DEF WellFormed
<1>3. PICK e : Touched(t, l, n.at, e) BY <1>1, TouchMoves
<1>4. n.at \in At BY DEF Locs
<1>5. PICK a : a = n.at /\ a \in At BY <1>4
<1>6. PICK new \in [At -> Nat] : new = [st EXCEPT ![a] = top] BY <1>5
<1>7. new[a] = top /\ \A b \in At : b # a => new[b] = st[b] BY <1>5, <1>6
<1>8. \A b \in At : new[b] \in Nat /\ st[b] \in Nat /\ st[b] <= top /\ new[b] <= top BY <1>6, <1>7
<1>9. /\ Len(t) >= 1 /\ t[1].at = a
      /\ e \in [2 .. Len(t) -> 1 .. Len(l)]
      /\ \A k \in 2 .. Len(t) : t[k].at = l[e[k]].at /\ t[k].at # a
      /\ \A i \in 2 .. Len(t), j \in 2 .. Len(t) : i < j => e[i] < e[j]
  BY <1>3, <1>5 DEF Touched, Moved
<1>10. \A i \in 1 .. Len(l) : \/ l[i].at = a
                              \/ \E k \in 2 .. Len(t) : e[k] = i
                              \/ /\ l[i].at # Local /\ Cardinality(Spot(t)) = MAX_SAVED_CONNECTIONS
                                 /\ \A k \in 2 .. Len(t) : t[k].at # Local => e[k] < i
  BY <1>3, <1>5 DEF Touched
<1>11. /\ DOMAIN l = 1 .. Len(l) /\ DOMAIN t = 1 .. Len(t) /\ Len(t) \in Nat /\ Len(l) \in Nat
       /\ \A i \in 1 .. Len(l) : l[i].at \in At
       /\ \A i \in 1 .. Len(t) : t[i].at \in At
  BY <1>2, PlacesOfList
<1>12. \A k \in 2 .. Len(t) : /\ e[k] \in 1 .. Len(l) /\ k \in 1 .. Len(t)
                              /\ new[t[k].at] = st[l[e[k]].at]
  <2> SUFFICES ASSUME NEW k \in 2 .. Len(t)
               PROVE  /\ e[k] \in 1 .. Len(l) /\ k \in 1 .. Len(t)
                      /\ new[t[k].at] = st[l[e[k]].at]
    OBVIOUS
  <2>1. e[k] \in 1 .. Len(l) /\ t[k].at = l[e[k]].at /\ t[k].at # a BY <1>9
  <2>2. k \in 1 .. Len(t) BY <1>11
  <2>3. t[k].at \in At BY <1>11, <2>2
  <2>4. new[t[k].at] = st[t[k].at] BY <1>7, <2>1, <2>3
  <2> QED BY <2>1, <2>2, <2>4
<1>13. /\ \A i \in 1 .. Len(l), j \in 1 .. Len(l) : i < j => st[l[i].at] >= st[l[j].at]
       /\ \A x \in Machines \ KeptIn(l), b \in KeptIn(l) \cap Machines : st[x] <= st[b]
       /\ (\E x \in Machines \ KeptIn(l) : st[x] > 0) =>
             Cardinality(KeptIn(l) \cap Machines) = MAX_SAVED_CONNECTIONS
  BY DEF Recent
<1>14. Distinct(l) /\ Distinct(t) BY <1>2 DEF WellFormed, Distinct
<1>15. a \in KeptIn(t) BY <1>9, <1>11 DEF KeptIn
<1>16. \A x \in KeptIn(t) : x # a => \E k \in 2 .. Len(t) : x = t[k].at
  <2> SUFFICES ASSUME NEW x \in KeptIn(t), x # a PROVE \E k \in 2 .. Len(t) : x = t[k].at
    OBVIOUS
  <2>1. PICK k \in 1 .. Len(t) : x = t[k].at BY <1>11 DEF KeptIn
  <2>2. k # 1 BY <1>9, <2>1
  <2>3. k \in 2 .. Len(t) BY <2>2
  <2> QED BY <2>1, <2>3
(* A machine that was in the list and is not any more was the last of them. *)
<1>17. ASSUME NEW x \in Machines \ KeptIn(t), x \in KeptIn(l)
       PROVE  /\ Cardinality(Spot(t)) = MAX_SAVED_CONNECTIONS
              /\ \A b \in KeptIn(t) \cap Machines : b # a => st[x] <= st[b]
  <2>1. PICK i \in 1 .. Len(l) : x = l[i].at BY <1>11, <1>17 DEF KeptIn
  <2>2. x # a BY <1>15
  <2>3. ~ \E k \in 2 .. Len(t) : e[k] = i
    <3> SUFFICES ASSUME NEW k \in 2 .. Len(t), e[k] = i PROVE FALSE
      OBVIOUS
    <3>1. t[k].at = x BY <1>9, <2>1
    <3>2. x \in KeptIn(t) BY <1>11, <1>12, <3>1 DEF KeptIn
    <3> QED BY <3>2
  <2>4. Cardinality(Spot(t)) = MAX_SAVED_CONNECTIONS /\ \A k \in 2 .. Len(t) : t[k].at # Local => e[k] < i
    BY <1>10, <2>1, <2>2, <2>3
  <2>5. ASSUME NEW b \in KeptIn(t) \cap Machines, b # a PROVE st[x] <= st[b]
    <3>1. PICK k \in 2 .. Len(t) : b = t[k].at BY <1>16, <2>5
    <3>2. b # Local BY PlacesAssumption
    <3>3. e[k] < i /\ e[k] \in 1 .. Len(l) BY <1>12, <2>4, <3>1, <3>2
    <3>4. b = l[e[k]].at BY <1>9, <3>1
    <3>5. st[l[e[k]].at] >= st[l[i].at] BY <1>13, <2>1, <3>3
    <3>6. st[b] \in Nat /\ st[x] \in Nat BY <1>8, <1>11, <2>1, <3>3, <3>4
    <3> QED BY <2>1, <3>4, <3>5, <3>6
  <2> QED BY <2>4, <2>5
<1>18. ASSUME NEW i \in 1 .. Len(t), NEW j \in 1 .. Len(t), i < j PROVE new[t[i].at] >= new[t[j].at]
  <2>1. j \in 2 .. Len(t) BY <1>18
  <2>2. CASE i = 1 BY <1>7, <1>8, <1>9, <1>11, <2>2
  <2>3. CASE i # 1
    <3>1. i \in 2 .. Len(t) BY <2>3
    <3>2. e[i] < e[j] BY <1>9, <1>18, <2>1, <3>1
    <3>3. e[i] \in 1 .. Len(l) /\ e[j] \in 1 .. Len(l) BY <1>12, <2>1, <3>1
    <3>4. st[l[e[i]].at] >= st[l[e[j]].at] BY <1>13, <3>2, <3>3
    <3> QED BY <1>12, <2>1, <3>1, <3>4
  <2> QED BY <2>2, <2>3
<1>19. ASSUME NEW x \in Machines \ KeptIn(t), NEW b \in KeptIn(t) \cap Machines PROVE new[x] <= new[b]
  <2>1. x \in At /\ b \in At /\ x # a BY <1>15 DEF At
  <2>2. CASE b = a BY <1>7, <1>8, <2>1, <2>2
  <2>3. CASE b # a
    <3>1. new[x] = st[x] /\ new[b] = st[b] BY <1>7, <2>1, <2>3
    <3>2. PICK k \in 2 .. Len(t) : b = t[k].at BY <1>16, <2>3
    <3>3. b \in KeptIn(l) \cap Machines BY <1>9, <1>11, <1>12, <3>2 DEF KeptIn
    <3>4. st[x] <= st[b] BY <1>13, <1>17, <2>3, <3>3
    <3> QED BY <3>1, <3>4
  <2> QED BY <2>2, <2>3
<1>20. ASSUME NEW x \in Machines \ KeptIn(t), new[x] > 0
       PROVE  Cardinality(KeptIn(t) \cap Machines) = MAX_SAVED_CONNECTIONS
  <2> DEFINE K == KeptIn(l) \cap Machines
             L == KeptIn(t) \cap Machines
  <2>1. /\ IsFiniteSet(L) /\ Cardinality(L) = Cardinality(Spot(t))
        /\ IsFiniteSet(K) /\ Cardinality(K) = Cardinality(Spot(l))
    BY <1>2, <1>14, KeptCount
  <2>2. CASE \E y \in Machines \ KeptIn(t) : y \in KeptIn(l)
    BY <1>17, <2>1, <2>2
  <2>3. CASE ~ \E y \in Machines \ KeptIn(t) : y \in KeptIn(l)
    <3>1. K \in SUBSET L BY <2>3
    <3>2. Cardinality(K) <= Cardinality(L) BY <2>1, <3>1, FS_Subset
    <3>3. x \in At /\ x # a /\ x \notin KeptIn(l) BY <1>15, <2>3 DEF At
    <3>4. st[x] > 0 BY <1>7, <1>20, <3>3
    <3>5. Cardinality(K) = MAX_SAVED_CONNECTIONS BY <1>13, <3>3, <3>4
    <3>6. Cardinality(L) <= MAX_SAVED_CONNECTIONS BY <1>2, <2>1 DEF WellFormed, Spot
    <3>7. Cardinality(L) \in Nat BY <2>1, FS_CardinalityType
    <3> QED BY <1>0, <3>2, <3>5, <3>6, <3>7
  <2> QED BY <2>2, <2>3
<1>21. Recent(t, new) BY <1>18, <1>19, <1>20 DEF Recent
<1> QED BY <1>1, <1>5, <1>6, <1>21

(* There is a latest stamp, so that the next one is later than all.         *)
Stamped == \E n \in Nat : \A a \in At : stamp[a] <= n

ListInv == TypeOK /\ MostRecentKept /\ Stamped /\ DOMAIN saved = Sessions

LEMMA NoListWellFormed == WellFormed(<<>>)
<1>1. MachinesIn(<<>>, Len(<<>>)) = {} BY DEF MachinesIn
<1>2. Cardinality({}) = 0 BY FS_EmptySet
<1>3. MAX_SAVED_CONNECTIONS \in Nat BY BoundsAssumption
<1>4. <<>> \in Seq(Locs) /\ DOMAIN <<>> = {} OBVIOUS
<1>5. Cardinality(MachinesIn(<<>>, Len(<<>>))) <= MAX_SAVED_CONNECTIONS BY <1>1, <1>2, <1>3
<1> QED BY <1>4, <1>5 DEF WellFormed

LEMMA ParsedWellFormed == TypeOK => WellFormed(Parsed)
  BY NoListWellFormed DEF TypeOK, Parsed

LEMMA RecentIsKept ==
    ASSUME TypeOK PROVE MostRecentKept <=> (file # Foreign => Recent(file, stamp))
<1>1. file # Foreign => file \in Seq(Locs) BY DEF TypeOK, WellFormed
<1>2. file # Foreign => DOMAIN file = 1 .. Len(file) BY <1>1
<1>3. {file[i].at : i \in DOMAIN file} = KeptIn(file) BY DEF KeptIn
<1> QED BY <1>2, <1>3 DEF MostRecentKept, Recent

LEMMA LaterStamp ==
    ASSUME Stamped, stamp \in [At -> Nat]
    PROVE  /\ 1 + Max({stamp[a] : a \in At}) \in Nat
           /\ \A a \in At : stamp[a] <= 1 + Max({stamp[b] : b \in At})
<1> DEFINE T == {stamp[a] : a \in At}
<1>1. PICK n \in Nat : \A a \in At : stamp[a] <= n BY DEF Stamped
<1>2. T \in SUBSET (0 .. n) BY <1>1
<1>3. stamp[Local] \in T BY DEF At
<1>4. PICK g \in T : \A i \in T : i <= g BY <1>1, <1>2, <1>3, GreatestIndex
<1>5. \E x \in T : \A y \in T : x >= y BY <1>2, <1>4
<1>6. Max(T) \in T /\ \A y \in T : Max(T) >= y BY <1>5 DEF Max
<1>7. \A a \in At : stamp[a] \in T OBVIOUS
<1>8. Max(T) \in Nat BY <1>2, <1>6
<1>9. T = {stamp[a] : a \in At} OBVIOUS
<1> HIDE DEF T
<1>10. \A a \in At : stamp[a] \in Nat OBVIOUS
<1>11. \A a \in At : stamp[a] <= 1 + Max(T) BY <1>6, <1>7, <1>8, <1>10
<1> QED BY <1>8, <1>9, <1>11

LEMMA InitLists == Init => ListInv
<1> SUFFICES ASSUME Init PROVE ListInv
  OBVIOUS
<1>1. TypeOK
  BY NoListWellFormed, BoundsAssumption DEF Init, TypeOK, Locs, At
<1>2. Stamped
  <2>1. 0 \in Nat /\ \A a \in At : stamp[a] <= 0 BY DEF Init
  <2> QED BY <2>1 DEF Stamped
<1>3. file # Foreign => Recent(file, stamp)
  <2> SUFFICES ASSUME file = <<>> PROVE Recent(file, stamp)
    BY DEF Init
  <2>1. KeptIn(file) = {} BY DEF KeptIn
  <2>2. \A a \in Machines : stamp[a] = 0 BY DEF Init, At
  <2>3. Len(file) = 0 OBVIOUS
  <2>4. \A i \in 1 .. Len(file) : FALSE BY <2>3
  <2>5. \A a \in Machines : ~ (stamp[a] > 0) BY <2>2
  <2> QED BY <2>1, <2>4, <2>5 DEF Recent
<1>4. DOMAIN saved = Sessions BY DEF Init
<1> QED BY <1>1, <1>2, <1>3, <1>4, RecentIsKept DEF ListInv

(* The file and the stamps change only when a list is written.              *)
LEMMA SameFile ==
    ASSUME ListInv, TypeOK', UNCHANGED <<file, stamp>>, DOMAIN saved' = Sessions PROVE ListInv'
  BY DEF ListInv, MostRecentKept, Stamped

LEMMA TypeStep == IInv /\ ListInv /\ [Next]_vars => TypeOK'
<1> SUFFICES ASSUME IInv, ListInv, [Next]_vars PROVE TypeOK'
  OBVIOUS
<1>0. TypeOK /\ Stamped /\ DOMAIN saved = Sessions BY DEF ListInv
<1>p. WellFormed(Parsed) /\ Parsed \in Seq(Locs) BY <1>0, ParsedWellFormed DEF WellFormed
<1>d. \A a \in At : DirIn(Parsed, a) \in Dirs \cup {NoDir} BY <1>p, DirIsDir
<1>e. WellFormed(<<>>) BY NoListWellFormed
<1>1. CASE UNCHANGED vars
  BY <1>0, <1>1 DEF vars, TypeOK, WellFormed, MachinesIn
<1>2. ASSUME NEW s \in Sessions, Start(s) PROVE TypeOK'
  <2>1. notes' \in 0 .. MAX_NOTES BY <1>0, <1>2, BoundsAssumption DEF TypeOK, Start, Counted
  <2>2. \A t \in Sessions : WellFormed(saved'[t]) BY <1>0, <1>2, <1>p DEF TypeOK, Start
  <2>3. browsed' \in [Sessions -> [At -> Dirs \cup {NoDir}]]
    <3>1. PICK b \in [At -> Dirs \cup {NoDir}] : b = [a \in At |-> DirIn(Parsed, a)] BY <1>d
    <3>2. browsed' = browsed \/ browsed' = [browsed EXCEPT ![s] = b] BY <1>2, <3>1 DEF Start
    <3> QED BY <1>0, <3>2 DEF TypeOK
  <2> QED BY <1>0, <1>2, <2>1, <2>2, <2>3 DEF TypeOK, Start
<1>3. ASSUME NEW s \in Sessions, NEW n \in Notes, Note(s, n) PROVE TypeOK'
  <2>0. n \in Locs /\ n.at \in At /\ n.dir \in Dirs \cup {NoDir} BY DEF Notes, Locs
  <2>1. notes' \in 0 .. MAX_NOTES BY <1>0, <1>3, BoundsAssumption DEF TypeOK, Note, Counted
  <2>2. WellFormed(saved[s]) /\ saved[s] \in Seq(Locs) BY <1>0 DEF TypeOK, WellFormed
  <2>3. WellFormed(Touch(saved[s], n)) BY <2>0, <2>2, TouchMoves
  <2>4. \A t \in Sessions : WellFormed(saved'[t]) BY <1>0, <1>3, <2>3 DEF TypeOK, Note
  <2>5. browsed' \in [Sessions -> [At -> Dirs \cup {NoDir}]] BY <1>0, <1>3, <2>0 DEF TypeOK, Note
  <2> QED BY <1>0, <1>3, <2>0, <2>1, <2>4, <2>5 DEF TypeOK, Note
<1>4. ASSUME NEW s \in Sessions, Lock(s) PROVE TypeOK'
  BY <1>0, <1>4 DEF TypeOK, Lock
<1>5. ASSUME NEW s \in Sessions, NoLock(s) \/ ReadFails(s) \/ WriteFails(s) PROVE TypeOK'
  BY <1>0, <1>5 DEF TypeOK, NoLock, ReadFails, WriteFails, Unsaved, Unlocked
<1>6. ASSUME NEW s \in Sessions, Read(s) PROVE TypeOK'
  <2>1. note[s] \in Locs BY <1>0 DEF TypeOK
  <2>2. WellFormed(Touch(Parsed, note[s])) BY <1>p, <2>1, TouchMoves
  <2>3. \A t \in Sessions : WellFormed(cur'[t]) BY <1>0, <1>6, <2>2 DEF TypeOK, Read
  <2> QED BY <1>0, <1>6, <2>3 DEF TypeOK, Read
<1>7. ASSUME NEW s \in Sessions, Write(s) PROVE TypeOK'
  <2>1. note[s].at \in At BY <1>0 DEF TypeOK, Locs
  <2>2. 1 + Max({stamp[a] : a \in At}) \in Nat BY <1>0, LaterStamp DEF TypeOK
  <2>3. stamp' \in [At -> Nat] BY <1>0, <1>7, <2>1, <2>2 DEF TypeOK, Write
  <2> QED BY <1>0, <1>7, <2>3 DEF TypeOK, Write
<1>8. ASSUME NEW s \in Sessions, Adopt(s) PROVE TypeOK'
  <2>1. \A t \in Sessions : WellFormed(saved'[t]) BY <1>0, <1>8 DEF TypeOK, Adopt
  <2> QED BY <1>0, <1>8, <2>1 DEF TypeOK, Adopt, Unlocked
<1>9. ASSUME NEW s \in Sessions, Leave(s) PROVE TypeOK'
  <2>1. \A t \in Sessions : WellFormed(saved'[t]) /\ WellFormed(cur'[t])
    BY <1>0, <1>9, <1>e DEF TypeOK, Leave
  <2>2. [at |-> Local, dir |-> NoDir] \in Locs BY DEF Locs, At
  <2> QED BY <1>0, <1>9, <2>1, <2>2 DEF TypeOK, Leave, Unlocked
<1> QED
  BY <1>1, <1>2, <1>3, <1>4, <1>5, <1>6, <1>7, <1>8, <1>9 DEF Next, Save

LEMMA ListStep == IInv /\ ListInv /\ [Next]_vars => ListInv'
<1> SUFFICES ASSUME IInv, ListInv, [Next]_vars PROVE ListInv'
  OBVIOUS
<1>0. TypeOK /\ TypeOK' BY TypeStep DEF ListInv
<1>s. DOMAIN saved' = Sessions
  BY DEF ListInv, Next, Save, Start, Lock, NoLock, Read, ReadFails, Write, WriteFails, Adopt,
         Leave, Note, Unsaved, vars
<1>1. ASSUME NEW s \in Sessions, Write(s) PROVE ListInv'
  <2>1. file # Foreign /\ cur[s] = Touch(file, note[s])
    BY <1>1 DEF IInv, OneLocationChanged, Write
  <2>2. file \in Seq(Locs) /\ WellFormed(file) /\ note[s] \in Locs /\ stamp \in [At -> Nat]
    BY <1>0, <2>1 DEF TypeOK, WellFormed
  <2>3. PICK top \in Nat : top = 1 + Max({stamp[a] : a \in At}) /\ \A a \in At : stamp[a] <= top
    BY <2>2, LaterStamp DEF ListInv
  <2>4. stamp' = [stamp EXCEPT ![note[s].at] = top] /\ file' = Touch(file, note[s])
    BY <1>1, <2>1, <2>3 DEF Write
  <2>5. Recent(file, stamp) BY <1>0, <2>1, RecentIsKept DEF ListInv
  <2>6. Recent(file', stamp') BY <2>2, <2>3, <2>4, <2>5, TouchKeepsRecent
  <2>7. MostRecentKept'
    <3>1. WellFormed(file') BY <2>2, <2>4, TouchMoves
    <3>2. file' \in Seq(Locs) BY <3>1 DEF WellFormed
    <3>3. DOMAIN file' = 1 .. Len(file') BY <3>2
    <3> QED BY <2>6, <3>3 DEF MostRecentKept, Recent, KeptIn
  <2>8. \A a \in At : stamp'[a] <= top BY <2>2, <2>3, <2>4
  <2>9. Stamped' BY <2>3, <2>8 DEF Stamped
  <2> QED BY <1>0, <1>s, <2>7, <2>9 DEF ListInv
<1>2. CASE UNCHANGED <<file, stamp>>
  BY <1>0, <1>s, <1>2, SameFile
<1> QED
  BY <1>1, <1>2 DEF Next, Save, Start, Lock, NoLock, Read, ReadFails, WriteFails, Adopt, Leave,
                    Note, Unsaved, vars

(* Whatever the sessions do and whichever dies, the list of machines, of    *)
(* every session and in the file, names each machine once and no more of    *)
(* them than are to be kept, and the file has them in the order they were   *)
(* last noted, the ones left out before all that are kept (saved_touch).    *)
THEOREM ListsAreSound == Spec => []ListSound
<1>1. Spec => []ListInv
  <2> QED BY Inductive, InitLists, ListStep, PTL DEF Spec
<1>2. ListInv => ListSound BY DEF ListInv, ListSound
<1> QED BY <1>1, <1>2, PTL

-----------------------------------------------------------------------------
(* The status buffer (GitStatus): every file or hunk that is discarded was  *)
(* listed when the user agreed to it, whatever the repository became since. *)

(* What a repository is.                                                    *)
RepoShape == repo = [head |-> repo.head, index |-> repo.index, tree |-> repo.tree, stashes |-> repo.stashes]

LEMMA RepoStep == RepoShape /\ [GitNext]_gitVars => RepoShape'
<1> SUFFICES ASSUME RepoShape, [GitNext]_gitVars PROVE RepoShape'
  OBVIOUS
<1> USE DEF RepoShape
<1>1. CASE UNCHANGED repo
  BY <1>1
<1>2. CASE Stage \/ Unstage
  BY <1>2 DEF Stage, Unstage, RanGit
<1>3. CASE AnswerYes
  BY <1>3 DEF AnswerYes, DiscardHunk, DiscardFiles, Destroyed, RanGit
<1>4. CASE CommitCommit
  BY <1>4 DEF CommitCommit, Committed, Shows
<1>5. CASE Stash \/ Merge \/ Pulled \/ FilesChange
  BY <1>5 DEF Stash, Merge, Pulled, FilesChange, RanGit, Brought
<1> QED
  BY <1>1, <1>2, <1>3, <1>4, <1>5, Zenon DEF gitVars, GitNext, MoveSection, SectionToggle, AskDiscard, StartCommit,
     CommitAbort, GitAsync, ShowLevel, MagitRefresh, AnswerNo, AsyncExit

(* No git command is run without its result being listed.                   *)
LEMMA ListedStep == StatusIsTrue /\ [GitNext]_gitVars => StatusIsTrue'
<1> SUFFICES ASSUME StatusIsTrue, [GitNext]_gitVars PROVE StatusIsTrue'
  OBVIOUS
<1> USE DEF StatusIsTrue
<1>1. CASE UNCHANGED gitVars
  BY <1>1, Zenon DEF gitVars, Diff
<1>2. ASSUME NEW r, RefreshStatus(r), repo' = r PROVE StatusIsTrue'
  BY <1>2, Zenon DEF RefreshStatus, Diff
<1>same. ASSUME UNCHANGED <<repo, listed, behind>> PROVE StatusIsTrue'
  BY <1>same, Zenon DEF Diff
<1>3. CASE MoveSection \/ SectionToggle \/ AskDiscard \/ StartCommit \/ CommitAbort \/ GitAsync
  BY <1>3, <1>same, Zenon DEF MoveSection, SectionToggle, AskDiscard, StartCommit, CommitAbort, GitAsync, gitShown
<1>4. CASE ShowLevel(TRUE) \/ ShowLevel(FALSE)
  BY <1>4, Zenon DEF ShowLevel, Diff
<1>5. CASE MagitRefresh \/ AnswerNo \/ AsyncExit
  BY <1>5, <1>2, Zenon DEF MagitRefresh, AnswerNo, AsyncExit
<1>6. CASE Stage \/ Unstage \/ Stash \/ Merge
  BY <1>6, <1>2, Zenon DEF Stage, Unstage, Stash, Merge, RanGit
<1>7. CASE AnswerYes
  BY <1>7, <1>2, Zenon DEF AnswerYes, DiscardHunk, DiscardFiles, Destroyed, RanGit
<1>8. CASE CommitCommit
  BY <1>8, <1>2, <1>same, Zenon DEF CommitCommit, Shows, gitShown
<1>9. CASE FilesChange \/ Pulled
  BY <1>9, Zenon DEF FilesChange, Pulled
<1> QED
  BY <1>1, <1>3, <1>4, <1>5, <1>6, <1>7, <1>8, <1>9 DEF GitNext

(* What is done to files, taken from one of the trees or the index, stays   *)
(* within the files the question named.                                     *)
LEMMA DiscardsAgreed == ASSUME ask.op = "files", NEW fs, fs \subseteq ask.files, NEW T,
                               NEW r, r.tree = OfFiles(repo.tree, T, fs)
                        PROVE  \A c \in Lost(r) : Agreed(c)
  BY DEF OfFiles, Lost, SymDiff, Agreed

LEMMA AgreedStep == RepoShape /\ FilesAsAgreed /\ [GitNext]_gitVars => FilesAsAgreed'
<1> SUFFICES ASSUME RepoShape, FilesAsAgreed, [GitNext]_gitVars PROVE FilesAsAgreed'
  OBVIOUS
<1>1. CASE UNCHANGED harmed
  BY <1>1 DEF FilesAsAgreed
<1>2. CASE AnswerYes
  <2>1. ASSUME NEW r, Destroyed(r), ask.op = "files" => \A c \in Lost(r) : Agreed(c)
        PROVE  FilesAsAgreed'
    BY <2>1 DEF Destroyed, FilesAsAgreed
  <2>2. CASE ask.op = "files" /\ DiscardFiles
    <3> DEFINE fs == AskedFiles(ask)
               staged == {f \in fs : \E h \in listed["staged"] : h.c[1] = f}
               ofTree == [repo EXCEPT !.tree = OfFiles(@, repo.index, fs)]
               ofHead == [repo EXCEPT !.tree = OfFiles(@, repo.head, staged),
                                      !.index = OfFiles(@, repo.head, staged)]
    <3>1. Destroyed(IF ask.sec = "unstaged" THEN ofTree ELSE ofHead)
      BY <2>2 DEF DiscardFiles
    <3>2. fs = ask.files /\ staged \subseteq ask.files
      BY DEF AskedFiles
    <3>3. ofTree.tree = OfFiles(repo.tree, repo.index, fs) /\ ofHead.tree = OfFiles(repo.tree, repo.head, staged)
      BY DEF RepoShape
    <3> QED
      BY <2>1, <2>2, <3>1, <3>2, <3>3, DiscardsAgreed
  <2> QED
    BY <1>2, <2>1, <2>2 DEF AnswerYes, DiscardHunk
<1> QED
  BY <1>1, <1>2, Zenon DEF gitVars, GitNext, MoveSection, SectionToggle, AskDiscard, StartCommit, CommitAbort, GitAsync,
     ShowLevel, MagitRefresh, AnswerNo, AsyncExit, Stage, Unstage, Stash, Merge, CommitCommit, FilesChange, Pulled, RanGit

(* What the status buffer lists is what git says once it was asked, and     *)
(* what is discarded of files is of those that the question named, whatever *)
(* git processes end and refresh the buffer meanwhile (refresh_status,      *)
(* F_magit_discard).                                                        *)
THEOREM StatusIsHeeded == GitSpec => []StatusHeeded
<1> DEFINE I == RepoShape /\ FilesAsAgreed /\ StatusIsTrue
<1>1. GitInit => I
  BY DEF GitInit, RepoShape, FilesAsAgreed, StatusIsTrue, Diff
<1>2. I /\ [GitNext]_gitVars => I'
  BY RepoStep, AgreedStep, ListedStep
<1>3. I => StatusHeeded
  BY DEF StatusHeeded
<1> QED
  BY <1>1, <1>2, <1>3, PTL DEF GitSpec

-----------------------------------------------------------------------------
(* The *compilation* buffer.  What is selected of a list is selected in one *)
(* way only.                                                                *)

LEMMA NoFurther ==
    ASSUME NEW T, NEW q, NEW S, NEW n \in Nat, NEW r \in Seq(T), NEW s \in Seq(T), NEW e, NEW f,
           ComesFrom(r, q, S, n, e), ComesFrom(s, q, S, n, f), NEW k \in 1 .. Len(r)
    PROVE  k <= Len(s) /\ e[k] = f[k]
<1>0. Len(r) \in Nat /\ Len(s) \in Nat OBVIOUS
<1>1. /\ \A j \in 1 .. Len(r) : e[j] \in 1 .. n /\ e[j] \in S
      /\ \A i \in 1 .. Len(r), j \in 1 .. Len(r) : i < j => e[i] < e[j]
      /\ \A i \in 1 .. n : i \in S => \E j \in 1 .. Len(r) : e[j] = i
  BY DEF ComesFrom
<1>2. /\ \A j \in 1 .. Len(s) : f[j] \in 1 .. n /\ f[j] \in S
      /\ \A i \in 1 .. Len(s), j \in 1 .. Len(s) : i < j => f[i] < f[j]
      /\ \A i \in 1 .. n : i \in S => \E j \in 1 .. Len(s) : f[j] = i
  BY DEF ComesFrom
<1> DEFINE B == {j \in 1 .. Len(r) : ~ (j <= Len(s) /\ e[j] = f[j])}
<1>3. B = {}
  <2> SUFFICES ASSUME B # {} PROVE FALSE OBVIOUS
  <2>1. B \subseteq Nat OBVIOUS
  <2>2. PICK m \in B : \A j \in B : m <= j BY <2>1, LeastNumber
  <2>3. m \in 1 .. Len(r) /\ ~ (m <= Len(s) /\ e[m] = f[m]) OBVIOUS
  <2>4. \A j \in 1 .. Len(r) : j < m => j <= Len(s) /\ e[j] = f[j]
    <3> SUFFICES ASSUME NEW j \in 1 .. Len(r), j < m PROVE j \notin B OBVIOUS
    <3>1. ~ (m <= j) BY <2>3
    <3> QED BY <2>2, <3>1
  <2> HIDE DEF B
  <2>5. PICK j \in 1 .. Len(s) : f[j] = e[m] BY <1>1, <1>2, <2>3
  <2>6. ~ (j < m)
    <3> SUFFICES ASSUME j < m PROVE FALSE OBVIOUS
    <3>1. j \in 1 .. Len(r) BY <1>0, <2>3
    <3>2. e[j] = f[j] BY <2>4, <3>1
    <3>3. e[j] < e[m] BY <1>1, <2>3, <3>1
    <3>4. e[m] \in Nat BY <1>1, <2>3
    <3> QED BY <2>5, <3>2, <3>3, <3>4
  <2>7. m <= Len(s) /\ m \in 1 .. Len(s) /\ j # m BY <1>0, <2>3, <2>5, <2>6
  <2>8. f[m] < e[m]
    <3>1. m < j BY <2>3, <2>6, <2>7
    <3> QED BY <1>2, <2>5, <2>7, <3>1
  <2>9. PICK i \in 1 .. Len(r) : e[i] = f[m] BY <1>1, <1>2, <2>7
  <2>10. i < m
    <3> SUFFICES ASSUME ~ (i < m) PROVE FALSE OBVIOUS
    <3>1. i = m \/ m < i BY <2>3
    <3>2. e[m] = e[i] \/ e[m] < e[i] BY <1>1, <2>3, <3>1
    <3>3. e[m] \in Nat /\ e[i] \in Nat /\ f[m] \in Nat BY <1>1, <1>2, <2>3, <2>7
    <3> QED BY <2>8, <2>9, <3>2, <3>3
  <2>11. i <= Len(s) /\ e[i] = f[i] BY <2>4, <2>10
  <2>12. i \in 1 .. Len(s) /\ f[i] < f[m] BY <1>0, <1>2, <2>7, <2>10, <2>11
  <2>13. f[m] \in Nat BY <1>2, <2>7
  <2> QED BY <2>9, <2>11, <2>12, <2>13
<1>4. k \notin B BY <1>3
<1> QED BY <1>4

LEMMA OneSelection ==
    ASSUME NEW T, NEW q, NEW S, NEW n \in Nat, NEW r \in Seq(T), NEW s \in Seq(T),
           \E e : ComesFrom(r, q, S, n, e), \E e : ComesFrom(s, q, S, n, e)
    PROVE  r = s
<1>1. PICK e : ComesFrom(r, q, S, n, e) OBVIOUS
<1>2. PICK f : ComesFrom(s, q, S, n, f) OBVIOUS
<1>3. Len(r) \in Nat /\ Len(s) \in Nat OBVIOUS
<1>4. \A k \in 1 .. Len(r) : k <= Len(s) /\ e[k] = f[k] BY <1>1, <1>2, NoFurther
<1>5. \A k \in 1 .. Len(s) : k <= Len(r) /\ f[k] = e[k] BY <1>1, <1>2, NoFurther
<1>6. Len(r) = Len(s)
  <2>1. Len(r) # 0 => Len(r) <= Len(s)
    <3>1. Len(r) # 0 => Len(r) \in 1 .. Len(r) BY <1>3
    <3> QED BY <1>4, <3>1
  <2>2. Len(s) # 0 => Len(s) <= Len(r)
    <3>1. Len(s) # 0 => Len(s) \in 1 .. Len(s) BY <1>3
    <3> QED BY <1>5, <3>1
  <2> QED BY <1>3, <2>1, <2>2
<1>7. \A k \in 1 .. Len(r) : r[k] = s[k]
  <2> SUFFICES ASSUME NEW k \in 1 .. Len(r) PROVE r[k] = s[k] OBVIOUS
  <2>1. k \in 1 .. Len(s) /\ e[k] = f[k] BY <1>4, <1>6
  <2>2. r[k] = q[e[k]] BY <1>1 DEF ComesFrom
  <2>3. s[k] = q[f[k]] BY <1>2, <2>1 DEF ComesFrom
  <2> QED BY <2>1, <2>2, <2>3
<1> QED BY <1>6, <1>7, SeqEqual

(* d is what the lines of the text before u say of directories.             *)
DirLines == [o : Nat, change : CompLines]
Lists(d, text, u) ==
    /\ d \in Seq(DirLines)
    /\ \A k \in 1 .. Len(d) : /\ d[k].o \in 1 .. u - 1 /\ ChangesDir(text[d[k].o])
                              /\ d[k].change = text[d[k].o]
    /\ \A j \in 1 .. Len(d), k \in 1 .. Len(d) : j < k => d[j].o < d[k].o
    /\ \A i \in 1 .. u - 1 : ChangesDir(text[i]) => \E k \in 1 .. Len(d) : d[k].o = i

LEMMA NoneListed == ASSUME NEW text PROVE Lists(<<>>, text, 1)
<1>1. <<>> \in Seq(DirLines) /\ Len(<<>>) = 0 BY EmptySeq
<1>2. 1 .. 1 - 1 = {} /\ 1 .. 0 = {} OBVIOUS
<1> QED BY <1>1, <1>2 DEF Lists

(* The lines read anew. *)
RowsFrom(text, a, b) ==
    Selected([i \in 1 .. Len(text) |-> i], {i \in 1 .. Len(text) : i >= a /\ i < b /\ ChangesDir(text[i])})
ReadAnew(text, rows) == [k \in DOMAIN rows |-> [o |-> rows[k], change |-> text[rows[k]]]]

LEMMA ReadingOn ==
    ASSUME NEW text \in Seq(CompLines), NEW a \in 1 .. Len(text), NEW b \in 1 .. Len(text), a <= b,
           NEW d, Lists(d, text, a)
    PROVE  Lists(d \o ReadAnew(text, RowsFrom(text, a, b)), text, b)
<1>0. PICK n \in Nat : n = Len(text) OBVIOUS
<1>1. PICK S : S = {i \in 1 .. n : i >= a /\ i < b /\ ChangesDir(text[i])} OBVIOUS
<1>2. PICK q : q = [i \in 1 .. n |-> i] OBVIOUS
<1>3. q \in Seq(1 .. n) /\ Len(q) = n /\ \A i \in 1 .. n : q[i] = i BY <1>2
<1>4. PICK r : r = Selected(q, S) OBVIOUS
<1>5. r \in Seq(1 .. n) /\ \E e : ComesFrom(r, q, S, Len(q), e) BY <1>3, <1>4, SelectedComes
<1>6. PICK e : ComesFrom(r, q, S, n, e) BY <1>3, <1>5
<1>7. PICK m \in Nat : m = Len(r) BY <1>5
<1>8. /\ \A k \in 1 .. m : r[k] \in 1 .. n /\ r[k] \in S
      /\ \A j \in 1 .. m, k \in 1 .. m : j < k => r[j] < r[k]
      /\ \A i \in 1 .. n : i \in S => \E k \in 1 .. m : r[k] = i
  <2>1. \A k \in 1 .. m : e[k] \in 1 .. n /\ e[k] \in S /\ r[k] = q[e[k]] BY <1>6, <1>7 DEF ComesFrom
  <2>2. \A k \in 1 .. m : r[k] = e[k] BY <1>3, <2>1
  <2> QED BY <1>6, <1>7, <2>1, <2>2 DEF ComesFrom
<1>9. PICK x : x = ReadAnew(text, r) OBVIOUS
<1>10. /\ x \in Seq(DirLines) /\ Len(x) = m
       /\ \A k \in 1 .. m : x[k].o = r[k] /\ x[k].change = text[r[k]]
  <2>1. DOMAIN r = 1 .. m BY <1>5, <1>7
  <2>2. x = [k \in 1 .. m |-> [o |-> r[k], change |-> text[r[k]]]] BY <1>9, <2>1 DEF ReadAnew
  <2>3. \A k \in 1 .. m : r[k] \in Nat /\ text[r[k]] \in CompLines BY <1>0, <1>8
  <2>4. x \in [1 .. m -> DirLines] BY <2>2, <2>3 DEF DirLines
  <2>5. x \in Seq(DirLines) /\ Len(x) = m BY ONLY <2>4, m \in Nat
  <2>6. ASSUME NEW k \in 1 .. m PROVE x[k] = [o |-> r[k], change |-> text[r[k]]] BY ONLY <2>2, k \in 1 .. m, Zenon
  <2>7. ASSUME NEW k \in 1 .. m PROVE x[k].o = r[k] /\ x[k].change = text[r[k]]
    <3>1. PICK l : l = text[r[k]] OBVIOUS
    <3>2. PICK i : i = r[k] OBVIOUS
    <3>3. x[k] = [o |-> i, change |-> l] BY ONLY <2>6, <3>1, <3>2, k \in 1 .. m
    <3>4. x[k].o = i /\ x[k].change = l BY ONLY <3>3
    <3> QED BY <3>1, <3>2, <3>4
  <2> QED BY <2>5, <2>7
<1>11. PICK y : y = d \o x OBVIOUS
<1>12. /\ d \in Seq(DirLines)
       /\ \A k \in 1 .. Len(d) : /\ d[k].o \in 1 .. a - 1 /\ ChangesDir(text[d[k].o])
                                 /\ d[k].change = text[d[k].o]
       /\ \A j \in 1 .. Len(d), k \in 1 .. Len(d) : j < k => d[j].o < d[k].o
       /\ \A i \in 1 .. a - 1 : ChangesDir(text[i]) => \E k \in 1 .. Len(d) : d[k].o = i
  BY DEF Lists
<1>13. PICK l \in Nat : l = Len(d) BY <1>12
<1>14. /\ y \in Seq(DirLines) /\ Len(y) = l + m
       /\ \A k \in 1 .. l + m : y[k] = IF k <= l THEN d[k] ELSE x[k - l]
  <2>1. d \in Seq(DirLines) /\ x \in Seq(DirLines) /\ Len(x) = m BY <1>10, <1>12
  <2> QED BY ONLY <1>11, <1>13, <2>1, ConcatProperties
<1>15. ASSUME NEW k \in 1 .. l + m
       PROVE  \/ k \in 1 .. l /\ y[k] = d[k]
              \/ k - l \in 1 .. m /\ y[k] = x[k - l] /\ ~ (k <= l)
  <2>1. y[k] = IF k <= l THEN d[k] ELSE x[k - l] BY <1>14
  <2>2. CASE k <= l BY <2>1, <2>2
  <2>3. CASE ~ (k <= l) BY <2>1, <2>3
  <2> QED BY <2>2, <2>3
<1>16. \A k \in 1 .. m : r[k] >= a /\ r[k] < b /\ ChangesDir(text[r[k]]) /\ r[k] \in 1 .. n BY <1>1, <1>8
<1>17. ASSUME NEW k \in 1 .. l + m
       PROVE  y[k].o \in 1 .. b - 1 /\ ChangesDir(text[y[k].o]) /\ y[k].change = text[y[k].o]
  <2>1. CASE k \in 1 .. l /\ y[k] = d[k]
    <3>1. d[k].o \in 1 .. a - 1 /\ ChangesDir(text[d[k].o]) /\ d[k].change = text[d[k].o] BY <1>12, <1>13, <2>1
    <3>2. d[k].o \in 1 .. b - 1 BY <3>1
    <3> QED BY <2>1, <3>1, <3>2
  <2>2. CASE k - l \in 1 .. m /\ y[k] = x[k - l]
    <3>1. PICK h \in 1 .. m : h = k - l BY <2>2
    <3>2. y[k].o = r[h] /\ y[k].change = text[r[h]] BY <1>10, <2>2, <3>1
    <3>3. r[h] \in 1 .. b - 1 BY <1>16
    <3> QED BY <1>16, <3>2, <3>3
  <2> QED BY <1>15, <2>1, <2>2
<1>18. ASSUME NEW j \in 1 .. l + m, NEW k \in 1 .. l + m, j < k PROVE y[j].o < y[k].o
  <2>1. CASE k \in 1 .. l /\ y[k] = d[k]
    <3>1. j \in 1 .. l /\ y[j] = d[j] BY <1>14, <1>18, <2>1
    <3>2. d[j].o < d[k].o BY <1>12, <1>13, <1>18, <2>1, <3>1
    <3> QED BY <2>1, <3>1, <3>2
  <2>2. CASE k - l \in 1 .. m /\ y[k] = x[k - l]
    <3>1. PICK h \in 1 .. m : h = k - l BY <2>2
    <3>2. y[k].o = r[h] /\ r[h] >= a /\ r[h] \in Nat BY <1>10, <1>16, <2>2, <3>1
    <3>3. CASE j \in 1 .. l /\ y[j] = d[j]
      <4>1. d[j].o \in 1 .. a - 1 BY <1>12, <1>13, <3>3
      <4>2. d[j].o < r[h] BY <3>2, <4>1
      <4> QED BY <3>2, <3>3, <4>2
    <3>4. CASE j - l \in 1 .. m /\ y[j] = x[j - l]
      <4>1. PICK g \in 1 .. m : g = j - l BY <3>4
      <4>2. y[j].o = r[g] BY <1>10, <3>4, <4>1
      <4>3. g < h BY <1>18, <3>1, <4>1
      <4>4. r[g] < r[h] BY <1>8, <4>3
      <4> QED BY <3>2, <4>2, <4>4
    <3> QED BY <1>15, <3>3, <3>4
  <2> QED BY <1>15, <2>1, <2>2
<1>19. ASSUME NEW i \in 1 .. b - 1, ChangesDir(text[i]) PROVE \E k \in 1 .. l + m : y[k].o = i
  <2>1. CASE i < a
    <3>1. i \in 1 .. a - 1 BY <2>1
    <3>2. PICK k \in 1 .. l : d[k].o = i BY <1>12, <1>13, <1>19, <3>1
    <3>3. k \in 1 .. l + m /\ k <= l OBVIOUS
    <3>4. y[k] = d[k] BY <1>14, <3>3
    <3> QED BY <3>2, <3>3, <3>4
  <2>2. CASE ~ (i < a)
    <3>1. i \in 1 .. n /\ i >= a /\ i < b BY <1>0, <2>2
    <3>2. i \in S BY <1>1, <1>19, <3>1
    <3>3. PICK h \in 1 .. m : r[h] = i BY <1>8, <3>1, <3>2
    <3>4. PICK k : k = l + h OBVIOUS
    <3>5. k \in 1 .. l + m /\ ~ (k <= l) /\ k - l = h BY <3>4
    <3>6. y[k] = x[h] BY <1>14, <3>5
    <3> QED BY <1>10, <3>3, <3>5, <3>6
  <2> QED BY <2>1, <2>2
<1>20. Lists(y, text, b) BY <1>14, <1>17, <1>18, <1>19 DEF Lists
<1> QED BY <1>0, <1>1, <1>2, <1>4, <1>9, <1>11, <1>20 DEF RowsFrom

(* What is known of the lines before a line is what they say.               *)
LEMMA KnownBefore ==
    ASSUME NEW text \in Seq(CompLines), NEW u \in 1 .. Len(text), NEW o \in 1 .. u, NEW d, Lists(d, text, u),
           NEW kept, kept = Selected(d, {k \in DOMAIN d : d[k].o < o}),
           NEW r, r = [i \in DOMAIN kept |-> kept[i].change]
    PROVE  r = Selected(text, {i \in 1 .. o - 1 : ChangesDir(text[i])})
<1>0. PICK n \in Nat : n = Len(text) OBVIOUS
<1>1. PICK S : S = {i \in 1 .. o - 1 : ChangesDir(text[i])} OBVIOUS
<1>2. PICK s : s = Selected(text, S) OBVIOUS
<1>3. s \in Seq(CompLines) /\ \E e : ComesFrom(s, text, S, n, e) BY <1>0, <1>2, SelectedComes
<1>4. /\ d \in Seq(DirLines)
      /\ \A k \in 1 .. Len(d) : /\ d[k].o \in 1 .. u - 1 /\ ChangesDir(text[d[k].o])
                                /\ d[k].change = text[d[k].o]
      /\ \A j \in 1 .. Len(d), k \in 1 .. Len(d) : j < k => d[j].o < d[k].o
      /\ \A i \in 1 .. u - 1 : ChangesDir(text[i]) => \E k \in 1 .. Len(d) : d[k].o = i
  BY DEF Lists
<1>5. PICK l \in Nat : l = Len(d) /\ DOMAIN d = 1 .. l BY <1>4
<1>6. PICK K : K = {k \in 1 .. l : d[k].o < o} OBVIOUS
<1>7. kept = Selected(d, K) BY <1>5, <1>6
<1>8. kept \in Seq(DirLines) /\ \E e : ComesFrom(kept, d, K, l, e)
  <2>1. d \in Seq(DirLines) BY <1>4
  <2>2. kept \in Seq(DirLines) /\ \E e : ComesFrom(kept, d, K, Len(d), e) BY ONLY <1>7, <2>1, SelectedComes
  <2> QED BY <1>5, <2>2
<1>8a. kept \in Seq(DirLines) BY <1>8
<1>9. PICK e : ComesFrom(kept, d, K, l, e) BY <1>8
<1>10. PICK m \in Nat : m = Len(kept) /\ DOMAIN kept = 1 .. m BY ONLY <1>8a
<1>11. /\ \A k \in 1 .. m : e[k] \in 1 .. l /\ e[k] \in K /\ kept[k] = d[e[k]]
       /\ \A j \in 1 .. m, k \in 1 .. m : j < k => e[j] < e[k]
       /\ \A i \in 1 .. l : i \in K => \E k \in 1 .. m : e[k] = i
  BY <1>9, <1>10 DEF ComesFrom
<1>12. /\ r \in Seq(CompLines) /\ Len(r) = m
       /\ \A k \in 1 .. m : r[k] = d[e[k]].change
  <2>1. r = [k \in 1 .. m |-> kept[k].change] BY <1>10
  <2>2. ASSUME NEW k \in 1 .. m PROVE kept[k].change \in CompLines
    <3>1. kept[k] \in DirLines BY ONLY <1>8a, <1>10, k \in 1 .. m
    <3> QED BY <3>1 DEF DirLines
  <2>3. r \in [1 .. m -> CompLines] BY <2>1, <2>2
  <2>4. r \in Seq(CompLines) /\ Len(r) = m BY ONLY <2>3, m \in Nat
  <2>5. \A k \in 1 .. m : r[k] = kept[k].change BY <2>1
  <2>6. \A k \in 1 .. m : kept[k] = d[e[k]] BY <1>11
  <2>7. \A k \in 1 .. m : r[k] = d[e[k]].change BY ONLY <2>5, <2>6
  <2> QED BY <2>4, <2>7
<1>13. PICK p : p = [k \in 1 .. m |-> d[e[k]].o] OBVIOUS
<1>14. ASSUME NEW k \in 1 .. m
       PROVE  p[k] \in 1 .. n /\ p[k] \in S /\ r[k] = text[p[k]] /\ p[k] = d[e[k]].o
  <2>1. PICK h \in 1 .. l : h = e[k] /\ h \in K BY <1>11
  <2>2. d[h].o \in 1 .. u - 1 /\ ChangesDir(text[d[h].o]) /\ d[h].change = text[d[h].o] BY <1>4, <1>5
  <2>3. d[h].o < o BY <1>6, <2>1
  <2>4. d[h].o \in 1 .. o - 1 /\ d[h].o \in 1 .. n BY <1>0, <2>2, <2>3
  <2> QED BY <1>1, <1>12, <1>13, <2>1, <2>2, <2>4
<1>15. ASSUME NEW j \in 1 .. m, NEW k \in 1 .. m, j < k PROVE p[j] < p[k]
  <2>1. e[j] \in 1 .. l /\ e[k] \in 1 .. l /\ e[j] < e[k] BY <1>11, <1>15
  <2>2. d[e[j]].o < d[e[k]].o BY <1>4, <1>5, <2>1
  <2> QED BY <1>14, <2>2
<1>16. ASSUME NEW i \in 1 .. n, i \in S PROVE \E k \in 1 .. m : p[k] = i
  <2>1. i \in 1 .. o - 1 /\ ChangesDir(text[i]) BY <1>1, <1>16
  <2>2. i \in 1 .. u - 1 /\ i < o BY <2>1
  <2>3. PICK h \in 1 .. l : d[h].o = i BY <1>4, <1>5, <2>1, <2>2
  <2>4. h \in K BY <1>6, <2>2, <2>3
  <2>5. PICK k \in 1 .. m : e[k] = h BY <1>11, <2>4
  <2> QED BY <1>14, <2>3, <2>5
<1>17. ComesFrom(r, text, S, n, p)
  <2>1. p \in [1 .. Len(r) -> 1 .. n] BY <1>12, <1>13, <1>14
  <2> QED BY <1>12, <1>14, <1>15, <1>16, <2>1 DEF ComesFrom
<1>18. r = s BY <1>3, <1>12, <1>17, OneSelection
<1> QED BY <1>1, <1>2, <1>18

-----------------------------------------------------------------------------
(* While the text has only been added to since it was read, what is kept    *)
(* lists what the lines before dirsUpto say; the last line is none of them. *)

CompTypes ==
    /\ compText \in Seq(CompLines) /\ compText # <<>>
    /\ changes \in Nat /\ dirsChanges \in Nat /\ dirsChanges <= changes
    /\ compPoint \in 1 .. Len(compText)
KnownListed ==
    dirsChanges = changes => dirsUpto \in 1 .. Len(compText) /\ Lists(dirs, compText, dirsUpto)
CompInv == CompTypes /\ KnownListed

LEMMA ScannedLists ==
    ASSUME CompInv, NEW o \in 1 .. Len(compText), NEW c, c = Scanned(compText, o)
    PROVE  Lists(c.dirs, compText, c.upto) /\ c.upto \in 1 .. Len(compText) /\ o <= c.upto
<1>1. PICK text \in Seq(CompLines) : text = compText BY DEF CompInv, CompTypes
<1>2. PICK n \in Nat : n = Len(text) OBVIOUS
<1>3. PICK known : known = IF dirsChanges # changes THEN <<>> ELSE dirs OBVIOUS
<1>4. PICK a : a = IF dirsChanges # changes THEN 1 ELSE dirsUpto OBVIOUS
<1>5. o \in 1 .. n BY <1>1, <1>2
<1>6. a \in 1 .. n /\ Lists(known, text, a)
  <2>1. CASE dirsChanges # changes
    <3>1. a = 1 /\ known = <<>> BY <1>3, <1>4, <2>1
    <3> QED BY <1>5, <3>1, NoneListed
  <2>2. CASE dirsChanges = changes
    <3>1. a = dirsUpto /\ known = dirs BY <1>3, <1>4, <2>2
    <3> QED BY <1>1, <1>2, <2>2, <3>1 DEF CompInv, KnownListed
  <2> QED BY <2>1, <2>2
<1>7. PICK b : b = IF a >= o THEN a ELSE IF o <= n THEN o ELSE IF n > a THEN n ELSE a OBVIOUS
<1>8. b \in 1 .. n /\ a <= b /\ o <= b BY <1>5, <1>6, <1>7
<1>9. c = [dirs |-> known \o ReadAnew(text, RowsFrom(text, a, b)), upto |-> b]
  BY <1>1, <1>2, <1>3, <1>4, <1>7 DEF Scanned, ReadAnew, RowsFrom
<1>10. PICK d : d = known \o ReadAnew(text, RowsFrom(text, a, b)) OBVIOUS
<1>11. Lists(d, text, b)
  <2>1. a \in 1 .. Len(text) /\ b \in 1 .. Len(text) BY <1>2, <1>6, <1>8
  <2> QED BY <1>6, <1>8, <1>10, <2>1, ReadingOn
<1>12. c.dirs = d /\ c.upto = b BY <1>9, <1>10
<1> QED BY <1>1, <1>2, <1>8, <1>11, <1>12

LEMMA CompInvTrue == CompInv => DirectoriesTrue
<1> SUFFICES ASSUME CompInv, NEW o \in DOMAIN compText
             PROVE  DirectoriesAt(compText, o)
                      = Directories(Selected(compText, {i \in 1 .. o - 1 : ChangesDir(compText[i])}))
  BY DEF DirectoriesTrue
<1>1. PICK text \in Seq(CompLines) : text = compText BY DEF CompInv, CompTypes
<1>2. o \in 1 .. Len(compText) BY <1>1
<1>3. PICK c : c = Scanned(compText, o) OBVIOUS
<1>4. Lists(c.dirs, compText, c.upto) /\ c.upto \in 1 .. Len(compText) /\ o <= c.upto
  BY <1>2, <1>3, ScannedLists
<1>5. PICK d : d = c.dirs OBVIOUS
<1>6. PICK u \in 1 .. Len(text) : u = c.upto BY <1>1, <1>4
<1>7. Lists(d, text, u) /\ o \in 1 .. u BY <1>1, <1>2, <1>4, <1>5, <1>6
<1>8. PICK kept : kept = Selected(d, {k \in DOMAIN d : d[k].o < o}) OBVIOUS
<1>9. PICK r : r = [i \in DOMAIN kept |-> kept[i].change] OBVIOUS
<1>10. r = Selected(text, {i \in 1 .. o - 1 : ChangesDir(text[i])}) BY <1>7, <1>8, <1>9, KnownBefore
<1>11. DirectoriesAt(compText, o) = Directories(r) BY <1>3, <1>5, <1>8, <1>9 DEF DirectoriesAt
<1> QED BY <1>1, <1>10, <1>11

LEMMA StartText == CompStart \in Seq(CompLines) /\ CompStart # <<>> /\ Len(CompStart) = 1
<1>1. [kind |-> "plain", dir |-> "none", whole |-> TRUE] \in CompLines BY DEF CompLines, Kinds
<1> QED BY <1>1 DEF CompStart

LEMMA CompInitInv == CompInit => CompInv
BY StartText DEF CompInit, CompInv, CompTypes, KnownListed

(* More output: all lines but the last are as they were.                    *)
LEMMA AppendedStep ==
    ASSUME CompInv, NEW text \in Seq(CompLines), Len(text) >= Len(compText),
           \A i \in 1 .. Len(compText) - 1 : text[i] = compText[i], Appended(text)
    PROVE  CompInv'
<1>1. /\ compText' = text /\ changes' = changes + 1
      /\ dirsChanges' = IF dirsChanges = changes THEN changes + 1 ELSE dirsChanges
      /\ compPoint' = IF compPoint = Len(compText) THEN Len(text) ELSE compPoint
      /\ dirs' = dirs /\ dirsUpto' = dirsUpto
  BY DEF Appended, Noted
<1>2. /\ compText \in Seq(CompLines) /\ compText # <<>>
      /\ changes \in Nat /\ dirsChanges \in Nat /\ dirsChanges <= changes
      /\ compPoint \in 1 .. Len(compText)
  BY DEF CompInv, CompTypes
<1>3. Len(compText) \in Nat \ {0} /\ Len(text) \in Nat \ {0} /\ text # <<>> BY <1>2
<1>4. CompTypes'
  <2>1. changes' \in Nat /\ dirsChanges' \in Nat /\ dirsChanges' <= changes' BY <1>1, <1>2
  <2>2. compPoint' \in 1 .. Len(text) BY <1>1, <1>2, <1>3
  <2> QED BY <1>1, <1>3, <2>1, <2>2 DEF CompTypes
<1>5. ASSUME dirsChanges' = changes' PROVE dirsUpto' \in 1 .. Len(compText') /\ Lists(dirs', compText', dirsUpto')
  <2>1. dirsChanges = changes BY <1>1, <1>2, <1>5
  <2>2. dirsUpto \in 1 .. Len(compText) /\ Lists(dirs, compText, dirsUpto) BY <2>1 DEF CompInv, KnownListed
  <2>3. PICK u \in 1 .. Len(compText) : u = dirsUpto BY <2>2
  <2>4. \A i \in 1 .. u - 1 : text[i] = compText[i] /\ i \in Nat BY <1>3
  <2>5. Lists(dirs, text, u) BY <2>2, <2>3, <2>4 DEF Lists
  <2>6. u \in 1 .. Len(text) BY <1>3
  <2> QED BY <1>1, <2>3, <2>5, <2>6
<1> QED BY <1>4, <1>5 DEF CompInv, KnownListed

LEMMA VisitStep == ASSUME CompInv, NEW o \in 1 .. Len(compText), Visit(o) PROVE CompInv'
<1>1. PICK c : c = Scanned(compText, o) OBVIOUS
<1>2. Lists(c.dirs, compText, c.upto) /\ c.upto \in 1 .. Len(compText) BY <1>1, ScannedLists
<1>3. /\ compPoint' = o /\ dirs' = c.dirs /\ dirsUpto' = c.upto /\ dirsChanges' = changes
      /\ compText' = compText /\ changes' = changes
  BY <1>1 DEF Visit
<1>4. CompTypes'
  <2>1. /\ compText \in Seq(CompLines) /\ compText # <<>> /\ changes \in Nat BY DEF CompInv, CompTypes
  <2> QED BY <1>3, <2>1 DEF CompTypes
<1>5. KnownListed'
  <2>1. PICK e : e = c.dirs OBVIOUS
  <2>2. PICK u : u = c.upto OBVIOUS
  <2>3. PICK text : text = compText OBVIOUS
  <2>4. Lists(e, text, u) /\ u \in 1 .. Len(text) BY <1>2, <2>1, <2>2, <2>3
  <2>5. dirs' = e /\ dirsUpto' = u /\ compText' = text BY <1>3, <2>1, <2>2, <2>3
  <2> QED BY <2>4, <2>5 DEF KnownListed
<1> QED BY <1>4, <1>5 DEF CompInv

LEMMA LineWhole ==
    ASSUME NEW text \in Seq(CompLines), text # <<>>, NEW whole, whole = Front(text) \o <<[Last(text) EXCEPT !.whole = TRUE]>>
    PROVE  /\ whole \in Seq(CompLines) /\ Len(whole) = Len(text)
           /\ \A i \in 1 .. Len(text) - 1 : whole[i] = text[i]
<1>0. Len(text) \in Nat \ {0}
  <2>1. text \in Seq(CompLines) /\ text # <<>> OBVIOUS
  <2> QED BY ONLY <2>1, EmptySeq
<1>1. PICK n \in Nat : n = Len(text) - 1
  <2>1. Len(text) - 1 \in Nat BY ONLY <1>0
  <2> QED BY ONLY <2>1
<1>2. PICK f : f = Front(text) OBVIOUS
<1>3. f \in Seq(CompLines) /\ Len(f) = n /\ \A i \in 1 .. n : f[i] = text[i]
  <2>1. f = SubSeq(text, 1, n) BY <1>1, <1>2 DEF Front
  <2>2. 1 \in Int /\ n \in Int /\ \A i \in 1 .. n : text[i] \in CompLines BY <1>1
  <2>3. /\ f \in Seq(CompLines) /\ Len(f) = IF 1 <= n THEN n - 1 + 1 ELSE 0
        /\ \A i \in 1 .. n - 1 + 1 : f[i] = text[1 + i - 1]
    BY ONLY <2>1, <2>2, SubSeqProperties
  <2>4. n - 1 + 1 = n /\ \A i \in 1 .. n : 1 + i - 1 = i OBVIOUS
  <2> QED BY <2>3, <2>4
<1>4. PICK l : l = [Last(text) EXCEPT !.whole = TRUE] OBVIOUS
<1>5. l \in CompLines
  <2>1. Last(text) = text[Len(text)] /\ Len(text) \in 1 .. Len(text) BY <1>1 DEF Last
  <2>2. text[Len(text)] \in CompLines BY <2>1
  <2> QED BY <1>4, <2>1, <2>2 DEF CompLines
<1>6. <<l>> \in Seq(CompLines) /\ Len(<<l>>) = 1 BY <1>5
<1>7. whole = f \o <<l>> BY <1>2, <1>4
<1>8. /\ whole \in Seq(CompLines) /\ Len(whole) = n + 1
      /\ \A i \in 1 .. n + 1 : whole[i] = IF i <= n THEN f[i] ELSE <<l>>[i - n]
  BY ONLY <1>3, <1>6, <1>7, ConcatProperties
<1>9. n + 1 = Len(text) BY ONLY <1>0, <1>1
<1> QED BY <1>3, <1>8, <1>9

LEMMA OneOfThese ==
    ASSUME NEW n \in Nat, NEW S, S \subseteq 1 .. n, S # {}
    PROVE  Min(S) \in 1 .. n /\ Max(S) \in 1 .. n
<1>1. S \subseteq Nat /\ S \subseteq 0 .. n OBVIOUS
<1>2. \E x \in S : \A y \in S : x <= y BY <1>1, LeastNumber
<1>3. \E x \in S : \A y \in S : y <= x BY <1>1, GreatestIndex
<1>4. Min(S) \in S BY <1>2 DEF Min
<1>5. Max(S) \in S
  <2>1. \E x \in S : \A y \in S : x >= y BY <1>1, <1>3
  <2> QED BY <2>1 DEF Max
<1> QED BY <1>4, <1>5

LEMMA EditedText ==
    ASSUME NEW text \in Seq(CompLines), NEW i \in 1 .. Len(text) - 1, NEW l \in CompLines
    PROVE  /\ RemoveAt(text, i) \in Seq(CompLines) /\ Len(RemoveAt(text, i)) = Len(text) - 1
           /\ InsertAt(text, i, l) \in Seq(CompLines) /\ Len(InsertAt(text, i, l)) = Len(text) + 1
<1>0. PICK n \in Nat : n = Len(text) OBVIOUS
<1>1. i \in 1 .. n - 1 BY <1>0
<1>2. \A k \in 1 .. n : text[k] \in CompLines BY <1>0
<1>3. PICK a : a = SubSeq(text, 1, i - 1) OBVIOUS
<1>4. PICK b : b = SubSeq(text, i + 1, n) OBVIOUS
<1>5. PICK c : c = SubSeq(text, i, n) OBVIOUS
<1>6. a \in Seq(CompLines) /\ Len(a) = i - 1
  <2>1. PICK j : j = i - 1 OBVIOUS
  <2>2. 1 \in Int /\ j \in Int /\ \A k \in 1 .. j : text[k] \in CompLines BY <1>1, <1>2, <2>1
  <2>3. a = SubSeq(text, 1, j) BY <1>3, <2>1
  <2>4. a \in Seq(CompLines) /\ Len(a) = IF 1 <= j THEN j - 1 + 1 ELSE 0 BY ONLY <2>2, <2>3, SubSeqProperties
  <2> QED BY <1>1, <2>1, <2>4
<1>7. b \in Seq(CompLines) /\ Len(b) = n - i
  <2>1. PICK j : j = i + 1 OBVIOUS
  <2>2. j \in Int /\ n \in Int /\ \A k \in j .. n : text[k] \in CompLines BY <1>1, <1>2, <2>1
  <2>3. b = SubSeq(text, j, n) BY <1>4, <2>1
  <2>4. b \in Seq(CompLines) /\ Len(b) = IF j <= n THEN n - j + 1 ELSE 0 BY ONLY <2>2, <2>3, SubSeqProperties
  <2> QED BY <1>1, <2>1, <2>4
<1>8. c \in Seq(CompLines) /\ Len(c) = n - i + 1
  <2>2. i \in Int /\ n \in Int /\ \A k \in i .. n : text[k] \in CompLines BY <1>1, <1>2
  <2>4. c \in Seq(CompLines) /\ Len(c) = IF i <= n THEN n - i + 1 ELSE 0 BY ONLY <1>5, <2>2, SubSeqProperties
  <2> QED BY <1>1, <2>4
<1>9. PICK r : r = a \o b OBVIOUS
<1>10. r \in Seq(CompLines) /\ Len(r) = Len(a) + Len(b) BY ONLY <1>6, <1>7, <1>9, ConcatProperties
<1>11. RemoveAt(text, i) = r BY <1>0, <1>3, <1>4, <1>9 DEF RemoveAt
<1>12. PICK g : g = a \o <<l>> OBVIOUS
<1>13. PICK h : h = g \o c OBVIOUS
<1>14. <<l>> \in Seq(CompLines) /\ Len(<<l>>) = 1 OBVIOUS
<1>15. g \in Seq(CompLines) /\ Len(g) = Len(a) + Len(<<l>>) BY ONLY <1>6, <1>12, <1>14, ConcatProperties
<1>16. h \in Seq(CompLines) /\ Len(h) = Len(g) + Len(c) BY ONLY <1>8, <1>13, <1>15, ConcatProperties
<1>17. InsertAt(text, i, l) = h BY <1>0, <1>3, <1>5, <1>12, <1>13 DEF InsertAt
<1>18. Len(r) = n - 1 BY ONLY <1>1, <1>6, <1>7, <1>10, n \in Nat
<1>19. Len(h) = n + 1 BY ONLY <1>1, <1>6, <1>8, <1>14, <1>15, <1>16, n \in Nat
<1> QED BY <1>0, <1>10, <1>11, <1>16, <1>17, <1>18, <1>19

LEMMA CompStep == CompInv /\ [CompNext]_compVars => CompInv'
<1> SUFFICES ASSUME CompInv, [CompNext]_compVars PROVE CompInv' OBVIOUS
<1>0. /\ compText \in Seq(CompLines) /\ compText # <<>>
      /\ changes \in Nat /\ dirsChanges \in Nat /\ dirsChanges <= changes
      /\ compPoint \in 1 .. Len(compText)
  BY DEF CompInv, CompTypes
<1>a. PICK text \in Seq(CompLines) : text = compText /\ text # <<>> BY <1>0
<1>b. PICK n \in Nat : n = Len(text) OBVIOUS
<1>c. n = Len(compText) /\ n > 0 /\ DOMAIN compText = 1 .. n BY <1>a, <1>b
<1>w. PICK whole : whole = Front(text) \o <<[Last(text) EXCEPT !.whole = TRUE]>> OBVIOUS
<1>x. /\ whole \in Seq(CompLines) /\ Len(whole) = Len(text)
      /\ \A i \in 1 .. Len(text) - 1 : whole[i] = text[i]
  BY <1>a, <1>w, LineWhole
<1>y. ASSUME Appended(whole) PROVE CompInv'
  <2>1. Len(whole) >= Len(compText) /\ \A i \in 1 .. Len(compText) - 1 : whole[i] = compText[i] BY <1>a, <1>b, <1>x
  <2> QED BY <1>x, <1>y, <2>1, AppendedStep
<1>1. CASE CompOutput
  <2>1. \/ \E l \in CompLines : Appended(Append(compText, l))
        \/ Appended(Front(compText) \o <<[Last(compText) EXCEPT !.whole = TRUE]>>)
    BY <1>1 DEF CompOutput
  <2>2. ASSUME NEW l \in CompLines, Appended(Append(compText, l)) PROVE CompInv'
    <3>1. PICK more : more = Append(text, l) OBVIOUS
    <3>2. more \in Seq(CompLines) /\ Len(more) = n + 1 /\ \A i \in 1 .. n : more[i] = text[i]
      BY <1>b, <3>1, AppendProperties
    <3>3. Len(more) >= Len(compText) BY <1>c, <3>2
    <3>4. \A i \in 1 .. Len(compText) - 1 : more[i] = compText[i] BY <1>a, <1>c, <3>2
    <3>5. Appended(more) BY <1>a, <2>2, <3>1
    <3> QED BY <3>2, <3>3, <3>4, <3>5, AppendedStep
  <2>3. ASSUME Appended(Front(compText) \o <<[Last(compText) EXCEPT !.whole = TRUE]>>) PROVE CompInv'
    <3>1. Appended(whole) BY <1>a, <1>w, <2>3
    <3> QED BY <1>y, <3>1
  <2> QED BY <2>1, <2>2, <2>3
<1>2. CASE CompExit
  <2>1. Appended(IF Last(compText).whole THEN compText
                 ELSE Front(compText) \o <<[Last(compText) EXCEPT !.whole = TRUE]>>)
    BY <1>2 DEF CompExit
  <2>2. CASE Last(compText).whole
    <3>1. Appended(text) BY <1>a, <2>1, <2>2
    <3>2. Len(text) >= Len(compText) /\ \A i \in 1 .. Len(compText) - 1 : text[i] = compText[i] BY <1>a, <1>b
    <3> QED BY <3>1, <3>2, AppendedStep
  <2>3. CASE ~ Last(compText).whole
    <3>1. Appended(whole) BY <1>a, <1>w, <2>1, <2>3
    <3> QED BY <1>y, <3>1
  <2> QED BY <2>2, <2>3
<1>3. CASE Recompile
  <2>1. /\ compText' = CompStart /\ changes' = 1 /\ dirsChanges' = 0 /\ compPoint' = 1
    BY <1>3 DEF Recompile
  <2> QED BY <2>1, StartText DEF CompInv, CompTypes, KnownListed
<1>4. CASE NextError \/ PreviousError
  <2>1. PICK o : Visit(o) /\ \/ ErrorsAfter(errorAt) # {} /\ o = Min(ErrorsAfter(errorAt))
                             \/ ErrorsBefore(errorAt) # {} /\ o = Max(ErrorsBefore(errorAt))
    BY <1>4 DEF NextError, PreviousError
  <2>2. ErrorsAfter(errorAt) \subseteq 1 .. n /\ ErrorsBefore(errorAt) \subseteq 1 .. n
    BY <1>c DEF ErrorsAfter, ErrorsBefore
  <2>3. o \in 1 .. n BY <2>1, <2>2, OneOfThese
  <2>4. o \in 1 .. Len(compText) BY <1>c, <2>3
  <2> QED BY <2>1, <2>4, VisitStep
<1>5. CASE GotoError
  <2>1. PICK o \in 1 .. Len(compText) : o = compPoint BY <1>0
  <2>2. Visit(o) BY <1>5, <2>1 DEF GotoError
  <2> QED BY <2>2, VisitStep
<1>6. CASE MoveToError
  <2>1. /\ \/ ErrorsAfter(compPoint) # {} /\ compPoint' = Min(ErrorsAfter(compPoint))
           \/ ErrorsBefore(compPoint) # {} /\ compPoint' = Max(ErrorsBefore(compPoint))
        /\ UNCHANGED <<compText, changes, dirs, dirsUpto, dirsChanges>>
    BY <1>6 DEF MoveToError, compCache
  <2>2. ErrorsAfter(compPoint) \subseteq 1 .. n /\ ErrorsBefore(compPoint) \subseteq 1 .. n
    BY <1>c DEF ErrorsAfter, ErrorsBefore
  <2>3. compPoint' \in 1 .. n BY <2>1, <2>2, OneOfThese
  <2>4. CompTypes' BY <1>0, <1>c, <2>1, <2>3 DEF CompTypes
  <2>5. KnownListed' BY <2>1 DEF CompInv, KnownListed
  <2> QED BY <2>4, <2>5 DEF CompInv
<1>7. CASE EditOutput
  <2>1. PICK i \in 1 .. (Len(compText) - 1) :
          compText' \in {RemoveAt(compText, i)}
                        \cup {InsertAt(compText, i, [kind |-> "enter", dir |-> d, whole |-> TRUE]) : d \in MakeDirs}
    BY <1>7 DEF EditOutput
  <2>2. changes' = changes + 1 /\ compPoint' = 1 /\ dirsChanges' = dirsChanges BY <1>7 DEF EditOutput, compCache
  <2>3. i \in 1 .. Len(text) - 1 BY <1>a, <2>1
  <2>4. compText' \in Seq(CompLines) /\ Len(compText') \in Nat \ {0}
    <3>1. CASE compText' = RemoveAt(text, i)
      <4>1. [kind |-> "plain", dir |-> "none", whole |-> TRUE] \in CompLines BY DEF CompLines, Kinds
      <4>2. RemoveAt(text, i) \in Seq(CompLines) /\ Len(RemoveAt(text, i)) = Len(text) - 1
        BY <2>3, <4>1, EditedText
      <4>3. Len(text) - 1 \in Nat \ {0} BY <1>b, <2>3
      <4> QED BY <3>1, <4>2, <4>3
    <3>2. ASSUME NEW d \in MakeDirs, compText' = InsertAt(text, i, [kind |-> "enter", dir |-> d, whole |-> TRUE])
          PROVE  compText' \in Seq(CompLines) /\ Len(compText') \in Nat \ {0}
      <4>1. PICK l : l = [kind |-> "enter", dir |-> d, whole |-> TRUE] OBVIOUS
      <4>2. l \in CompLines BY <4>1 DEF CompLines
      <4>3. InsertAt(text, i, l) \in Seq(CompLines) /\ Len(InsertAt(text, i, l)) = Len(text) + 1
        BY <2>3, <4>2, EditedText
      <4> QED BY <1>b, <3>2, <4>1, <4>3
    <3> QED BY <1>a, <2>1, <3>1, <3>2
  <2>5. compText' # <<>> /\ 1 \in 1 .. Len(compText') BY <2>4
  <2>6. CompTypes' BY <1>0, <2>2, <2>4, <2>5 DEF CompTypes
  <2>7. KnownListed' BY <1>0, <2>2 DEF KnownListed
  <2> QED BY <2>6, <2>7 DEF CompInv
<1>8. CASE UNCHANGED compVars
  <2>1. UNCHANGED <<compText, changes, dirs, dirsUpto, dirsChanges, compPoint>> BY <1>8 DEF compVars
  <2> QED BY <2>1 DEF CompInv, CompTypes, KnownListed
<1> QED
  BY <1>1, <1>2, <1>3, <1>4, <1>5, <1>6, <1>7, <1>8 DEF CompNext

(* A message's file is looked for in the directories that the lines before  *)
(* it put make in, whatever was read before and however the output grew or  *)
(* was edited since (scan_directories, directories_at).                     *)
THEOREM DirectoriesAreTrue == CompSpec => []DirectoriesTrue
<1> QED BY CompInitInv, CompStep, CompInvTrue, PTL DEF CompSpec

-----------------------------------------------------------------------------
(* Dired: the text in files, of which each operation keeps what is not      *)
(* agreed to be lost; then the names in the listing, each once, and marks.  *)

(* What is in place of a file is one piece of text, and each piece is in a  *)
(* file that is there or was given up.                                      *)
Datas == [Places -> [Inside -> Text \cup {Gone}]]
SingleFiles(d) == \A p \in Places : p[2] \notin DirNames => d[p][2] = Gone
Keeps(d, files, given_up) == \A t \in Text : t \in given_up \/ \E q \in files, k \in Inside : d[q][k] = t
Safe(d, files, given_up) == d \in Datas /\ files \subseteq Places /\ SingleFiles(d) /\ Keeps(d, files, given_up)

LEMMA TextIsThere == \A t \in Text : t # Gone
<1>1. \A t \in Places \X Inside : t # <<>> OBVIOUS
<1> QED BY <1>1 DEF Text, Gone

LEMMA Inside12 == Inside = {1, 2}
BY DEF Inside

LEMMA RealIs == ASSUME ~SAME_DIR PROVE \A p : Real(p) = p
BY DEF Real

(* What copying and deleting make of the text.                              *)
LEMMA CopiedAt ==
    ASSUME NEW d \in Datas, ~SAME_DIR, NEW from \in Places, NEW to \in Places, from # to, NEW done,
           NEW e, e = Copied(d, from, to, done)
    PROVE  /\ e \in Datas
           /\ \A q \in Places : q # to => e[q] = d[q]
           /\ \A k \in Inside : e[to][k] = IF k \in done THEN d[from][k] ELSE IF IsDir(from) THEN d[to][k] ELSE Gone
<1>1. Real(to) = to /\ Real(from) = from BY RealIs
<1> DEFINE new == [k \in Inside |-> IF k \in done THEN d[from][k] ELSE IF IsDir(from) THEN d[to][k] ELSE Gone]
<1>2. d[from] \in [Inside -> Text \cup {Gone}] /\ d[to] \in [Inside -> Text \cup {Gone}] BY DEF Datas
<1>3. \A k \in Inside : d[from][k] \in Text \cup {Gone} /\ d[to][k] \in Text \cup {Gone} BY <1>2
<1>4. new \in [Inside -> Text \cup {Gone}] BY <1>3
<1>5. e = [d EXCEPT ![to] = new] BY <1>1 DEF Copied
<1>6. \A k \in Inside : new[k] = IF k \in done THEN d[from][k] ELSE IF IsDir(from) THEN d[to][k] ELSE Gone OBVIOUS
<1> HIDE DEF new
<1>7. e \in Datas BY <1>4, <1>5 DEF Datas
<1>8. e[to] = new /\ \A q \in Places : q # to => e[q] = d[q] BY <1>5 DEF Datas
<1> QED BY <1>6, <1>7, <1>8

LEMMA DeletedAt ==
    ASSUME NEW d \in Datas, NEW p \in Places, NEW done, NEW e, e = DeletedIn(d, p, done)
    PROVE  /\ e \in Datas
           /\ \A q \in Places : q # p => e[q] = d[q]
           /\ \A k \in Inside : e[p][k] = IF k \in done THEN Gone ELSE d[p][k]
<1> DEFINE new == [k \in Inside |-> IF k \in done THEN Gone ELSE d[p][k]]
<1>1. d[p] \in [Inside -> Text \cup {Gone}] BY DEF Datas
<1>2. \A k \in Inside : d[p][k] \in Text \cup {Gone} BY <1>1
<1>3. new \in [Inside -> Text \cup {Gone}] BY <1>2
<1>4. e = [d EXCEPT ![p] = new] BY DEF DeletedIn, Datas
<1>5. \A k \in Inside : new[k] = IF k \in done THEN Gone ELSE d[p][k] OBVIOUS
<1> HIDE DEF new
<1>6. e \in Datas BY <1>3, <1>4 DEF Datas
<1>7. e[p] = new /\ \A q \in Places : q # p => e[q] = d[q] BY <1>4 DEF Datas
<1> QED BY <1>5, <1>6, <1>7

(* One file or directory is done to another of its kind: what is there now  *)
(* and was not agreed to be lost is also in the first.                      *)
OneTo(from, to, now) ==
    /\ from \in Places /\ to \in Places /\ from # to /\ from \in there
    /\ from[2] \in DirNames <=> to[2] \in DirNames
    /\ agreed \subseteq now
    /\ to \in there /\ to[2] \notin DirNames => TextAt(to) \subseteq now \cup TextAt(from)

LEMMA PartsAre ==
    ASSUME ~SAME_DIR, Safe(data, there, agreed), NEW p \in Places
    PROVE  /\ \A k \in Inside : k \notin Parts(p) => data[p][k] = Gone
           /\ Parts(p) \subseteq Inside
           /\ p[2] \notin DirNames => 2 \notin Parts(p)
           /\ \A k \in Inside : data[p][k] \in Text => data[p][k] \in TextAt(p)
           /\ \A t \in TextAt(p) : t # Gone /\ \E k \in Parts(p) : data[p][k] = t
<1>1. Real(p) = p BY RealIs
<1>2. p[2] \notin DirNames => data[p][2] = Gone BY DEF Safe, SingleFiles
<1>3. \A k \in Inside : k \notin Parts(p) => data[p][k] = Gone BY <1>1, <1>2, Inside12 DEF Parts
<1>4. Parts(p) \subseteq Inside /\ (p[2] \notin DirNames => 2 \notin Parts(p)) BY Inside12 DEF Parts
<1>5. \A k \in Inside : data[p][k] \in Text => data[p][k] \in TextAt(p) BY <1>1, TextIsThere DEF TextAt
<1>6. \A t \in TextAt(p) : t # Gone /\ \E k \in Inside : data[p][k] = t BY <1>1 DEF TextAt
<1>7. \A t \in TextAt(p) : t # Gone /\ \E k \in Parts(p) : data[p][k] = t BY <1>3, <1>6
<1> QED BY <1>3, <1>4, <1>5, <1>7

(* What was in the place copied to is there still, or was agreed to be lost *)
(* unless it is also what is copied.                                        *)
LEMMA CopyCovers ==
    ASSUME ~SAME_DIR, ~MERGES, Safe(data, there, agreed), NEW from, NEW to, NEW now, OneTo(from, to, now),
           MayCopy(from, to), NEW done \in SUBSET Parts(from), NEW e, e = Copied(data, from, to, done),
           to \in there, NEW k \in Inside, data[to][k] \in Text, data[to][k] \notin now
    PROVE  e[to][k] = data[to][k] \/ data[to][k] \in TextAt(from)
<1>1. from \in Places /\ to \in Places /\ from # to /\ from \in there BY DEF OneTo
<1>2. e[to][k] = IF k \in done THEN data[from][k] ELSE IF IsDir(from) THEN data[to][k] ELSE Gone
  BY <1>1, CopiedAt DEF Safe
<1>3. Real(from) = from /\ Real(to) = to BY RealIs
<1>4. CASE to[2] \in DirNames
  <2>1. IsDir(from) /\ IsDir(to) BY <1>1, <1>3, <1>4 DEF OneTo, IsDir, Is
  <2>2. \A j \in Parts(from) : data[to][j] \in {Gone, data[from][j]} BY <2>1, <1>3 DEF MayCopy, Merges
  <2>3. data[to][k] # Gone BY TextIsThere
  <2> QED BY <2>1, <2>2, <2>3, <1>2
<1>5. CASE to[2] \notin DirNames
  <2>1. data[to][k] \in TextAt(to) BY <1>1, PartsAre
  <2> QED BY <2>1, <1>5 DEF OneTo
<1> QED BY <1>4, <1>5

LEMMA CopyIsSafe ==
    ASSUME ~SAME_DIR, ~MERGES, Safe(data, there, agreed), NEW from, NEW to, NEW now, OneTo(from, to, now),
           MayCopy(from, to), NEW done \in SUBSET Parts(from), NEW e, e = Copied(data, from, to, done)
    PROVE  Safe(e, there \cup {to}, now)
<1>1. from \in Places /\ to \in Places /\ from # to /\ from \in there /\ agreed \subseteq now BY DEF OneTo
<1>2. data \in Datas /\ there \subseteq Places BY DEF Safe
<1>3. e \in Datas /\ \A q \in Places : q # to => e[q] = data[q] BY <1>1, <1>2, CopiedAt
<1>4. \A k \in Inside : e[to][k] = IF k \in done THEN data[from][k] ELSE IF IsDir(from) THEN data[to][k] ELSE Gone
  BY <1>1, <1>2, CopiedAt
<1>5. SingleFiles(e)
  <2> SUFFICES ASSUME NEW p \in Places, p[2] \notin DirNames PROVE e[p][2] = Gone BY DEF SingleFiles
  <2>1. CASE p = to
    <3>1. from[2] \notin DirNames BY <2>1 DEF OneTo
    <3>2. 2 \notin done /\ ~IsDir(from) BY <3>1, <1>1, PartsAre DEF IsDir
    <3> QED BY <3>2, <2>1, <1>4, Inside12
  <2>2. CASE p # to BY <2>2, <1>3 DEF Safe, SingleFiles
  <2> QED BY <2>1, <2>2
<1>6. Keeps(e, there \cup {to}, now)
  <2> SUFFICES ASSUME NEW t \in Text, t \notin now
               PROVE  \E q \in there \cup {to}, k \in Inside : e[q][k] = t
    BY DEF Keeps
  <2>1. PICK q \in there, k \in Inside : data[q][k] = t BY <1>1 DEF Safe, Keeps
  <2>2. CASE q # to BY <2>1, <2>2, <1>2, <1>3
  <2>3. CASE q = to
    <3>1. e[to][k] = t \/ t \in TextAt(from) BY <2>1, <2>3, CopyCovers
    <3>2. CASE t \in TextAt(from)
      <4>1. PICK j \in Parts(from) : data[from][j] = t BY <3>2, <1>1, PartsAre
      <4>2. j \in Inside /\ e[from][j] = t BY <4>1, <1>1, <1>3, PartsAre
      <4> QED BY <4>2, <1>1
    <3> QED BY <3>1, <3>2
  <2> QED BY <2>2, <2>3
<1> QED BY <1>1, <1>2, <1>3, <1>5, <1>6 DEF Safe

LEMMA MoveAcrossIsSafe ==
    ASSUME ~SAME_DIR, ~MERGES, Safe(data, there, agreed), NEW from, NEW to, NEW now, OneTo(from, to, now),
           MayCopy(from, to), NEW gone \in SUBSET Parts(from),
           NEW e, e = DeletedIn(Copied(data, from, to, Parts(from)), from, gone),
           NEW left, left = (there \cup {to}) \ {from} \/ left = there \cup {to}
    PROVE  Safe(e, left, now)
<1>1. from \in Places /\ to \in Places /\ from # to /\ from \in there /\ agreed \subseteq now BY DEF OneTo
<1>2. data \in Datas /\ there \subseteq Places BY DEF Safe
<1>3. PICK c : c = Copied(data, from, to, Parts(from)) OBVIOUS
<1>4. c \in Datas /\ \A q \in Places : q # to => c[q] = data[q] BY <1>1, <1>2, <1>3, CopiedAt
<1>5. \A k \in Inside : c[to][k] = IF k \in Parts(from) THEN data[from][k] ELSE IF IsDir(from) THEN data[to][k] ELSE Gone
  BY <1>1, <1>2, <1>3, CopiedAt
<1>6. e \in Datas /\ \A q \in Places : q # from => e[q] = c[q] BY <1>1, <1>3, <1>4, DeletedAt
<1>7. \A k \in Inside : e[from][k] = IF k \in gone THEN Gone ELSE c[from][k] BY <1>1, <1>3, <1>4, DeletedAt
<1>8. SingleFiles(e)
  <2> SUFFICES ASSUME NEW p \in Places, p[2] \notin DirNames PROVE e[p][2] = Gone BY DEF SingleFiles
  <2>1. CASE p = to
    <3>1. from[2] \notin DirNames BY <2>1 DEF OneTo
    <3>2. 2 \notin Parts(from) /\ ~IsDir(from) BY <3>1, <1>1, PartsAre DEF IsDir
    <3> QED BY <3>2, <2>1, <1>1, <1>5, <1>6, Inside12
  <2>2. CASE p # to
    <3>1. c[p][2] = Gone BY <2>2, <1>4 DEF Safe, SingleFiles
    <3> QED BY <3>1, <1>6, <1>7, Inside12
  <2> QED BY <2>1, <2>2
<1>9. Keeps(e, left, now)
  <2> SUFFICES ASSUME NEW t \in Text, t \notin now
               PROVE  \E q \in left, k \in Inside : e[q][k] = t
    BY DEF Keeps
  <2>1. PICK q \in there, k \in Inside : data[q][k] = t BY <1>1 DEF Safe, Keeps
  <2>2. to \in left /\ e[to] = c[to] BY <1>1, <1>6
  <2>3. ASSUME t \in TextAt(from) PROVE \E j \in Inside : e[to][j] = t
    <3>1. PICK j \in Parts(from) : data[from][j] = t BY <2>3, <1>1, PartsAre
    <3>2. j \in Inside BY <3>1, <1>1, PartsAre
    <3> QED BY <3>1, <3>2, <2>2, <1>5
  <2>4. CASE q = from
    <3>1. t \in TextAt(from) BY <2>1, <2>4, <1>1, PartsAre
    <3> QED BY <3>1, <2>2, <2>3
  <2>5. CASE q = to
    <3>1. c[to][k] = t \/ t \in TextAt(from) BY <2>1, <2>5, <1>3, CopyCovers
    <3> QED BY <3>1, <2>2, <2>3
  <2>6. CASE q # from /\ q # to
    <3>1. e[q][k] = t /\ q \in left BY <2>1, <2>6, <1>2, <1>4, <1>6
    <3> QED BY <3>1
  <2> QED BY <2>4, <2>5, <2>6
<1>10. left \subseteq Places BY <1>1, <1>2
<1> QED BY <1>6, <1>8, <1>9, <1>10 DEF Safe

LEMMA RenameIsSafe ==
    ASSUME ~SAME_DIR, Safe(data, there, agreed), NEW from, NEW to, NEW now, OneTo(from, to, now),
           IsDir(to) => TextAt(to) = {},
           NEW e, e = [data EXCEPT ![to] = data[from], ![from] = [k \in Inside |-> Gone]]
    PROVE  Safe(e, (there \ {from}) \cup {to}, now)
<1>1. from \in Places /\ to \in Places /\ from # to /\ from \in there /\ agreed \subseteq now BY DEF OneTo
<1>2. data \in Datas /\ there \subseteq Places BY DEF Safe
<1>3. PICK none : none = [k \in Inside |-> Gone] OBVIOUS
<1>9. none \in [Inside -> Text \cup {Gone}] /\ \A k \in Inside : none[k] = Gone BY <1>3
<1>4. data[from] \in [Inside -> Text \cup {Gone}] BY <1>1, <1>2 DEF Datas
<1>5. e \in Datas BY <1>1, <1>2, <1>3, <1>4, <1>9 DEF Datas
<1>6. e[to] = data[from] /\ e[from] = none /\ \A q \in Places : q # from /\ q # to => e[q] = data[q]
  BY <1>1, <1>2, <1>3 DEF Datas
<1>7. SingleFiles(e)
  <2> SUFFICES ASSUME NEW p \in Places, p[2] \notin DirNames PROVE e[p][2] = Gone BY DEF SingleFiles
  <2>1. CASE p = to
    <3>1. from[2] \notin DirNames BY <2>1 DEF OneTo
    <3> QED BY <3>1, <2>1, <1>1, <1>6 DEF Safe, SingleFiles
  <2>2. CASE p = from BY <2>2, <1>9, <1>6, Inside12
  <2>3. CASE p # to /\ p # from BY <2>3, <1>6 DEF Safe, SingleFiles
  <2> QED BY <2>1, <2>2, <2>3
<1>8. Keeps(e, (there \ {from}) \cup {to}, now)
  <2> SUFFICES ASSUME NEW t \in Text, t \notin now
               PROVE  \E q \in (there \ {from}) \cup {to}, k \in Inside : e[q][k] = t
    BY DEF Keeps
  <2>1. PICK q \in there, k \in Inside : data[q][k] = t BY <1>1 DEF Safe, Keeps
  <2>2. ASSUME t \in TextAt(from) PROVE \E j \in Inside : e[to][j] = t
    <3>1. PICK j \in Parts(from) : data[from][j] = t BY <2>2, <1>1, PartsAre
    <3>2. j \in Inside BY <3>1, <1>1, PartsAre
    <3> QED BY <3>1, <3>2, <1>6
  <2>3. CASE q = from BY <2>1, <2>3, <1>6
  <2>4. CASE q = to
    <3>1. t \in TextAt(to) BY <2>1, <2>4, <1>1, PartsAre
    <3>2. to[2] \notin DirNames BY <3>1, <2>1, <2>4, RealIs DEF IsDir, Is
    <3>3. t \in TextAt(from) BY <3>1, <3>2, <2>1, <2>4 DEF OneTo
    <3> QED BY <3>3, <2>2
  <2>5. CASE q # from /\ q # to
    <3>1. e[q][k] = t BY <2>1, <2>5, <1>2, <1>6
    <3> QED BY <3>1, <2>1, <2>5
  <2> QED BY <2>3, <2>4, <2>5
<1> QED BY <1>1, <1>2, <1>5, <1>7, <1>8 DEF Safe

LEMMA DeleteIsSafe ==
    ASSUME ~SAME_DIR, Safe(data, there, agreed), NEW p \in Places, NEW done,
           NEW e, e = DeletedIn(data, p, done), NEW left, left = there \ {p} \/ left = there
    PROVE  Safe(e, left, agreed \cup TextAt(p))
<1>1. data \in Datas /\ there \subseteq Places BY DEF Safe
<1>2. e \in Datas /\ \A q \in Places : q # p => e[q] = data[q] BY <1>1, DeletedAt
<1>3. \A k \in Inside : e[p][k] = IF k \in done THEN Gone ELSE data[p][k] BY <1>1, DeletedAt
<1>4. SingleFiles(e)
  <2> SUFFICES ASSUME NEW q \in Places, q[2] \notin DirNames PROVE e[q][2] = Gone BY DEF SingleFiles
  <2>1. data[q][2] = Gone BY DEF Safe, SingleFiles
  <2>2. q # p => e[q] = data[q] BY <1>2
  <2>3. q = p => e[q][2] = Gone BY <1>3, <2>1, Inside12
  <2> QED BY <2>1, <2>2, <2>3
<1>5. Keeps(e, left, agreed \cup TextAt(p))
  <2> SUFFICES ASSUME NEW t \in Text, t \notin agreed, t \notin TextAt(p)
               PROVE  \E q \in left, k \in Inside : e[q][k] = t
    BY DEF Keeps
  <2>1. PICK q \in there, k \in Inside : data[q][k] = t BY DEF Safe, Keeps
  <2>2. q # p BY <2>1, PartsAre
  <2>3. e[q][k] = t /\ q \in left BY <2>1, <2>2, <1>1, <1>2
  <2> QED BY <2>3
<1> QED BY <1>1, <1>2, <1>4, <1>5 DEF Safe

-----------------------------------------------------------------------------
NoneTwice(q) == \A i, j \in DOMAIN q : q[i] = q[j] => i = j
NamedOnce(q, set) == q \in Seq(Names) /\ NoneTwice(q) /\ \A i \in DOMAIN q : q[i] \in set

LEMMA ThoseAre ==
    ASSUME NEW q \in Seq(Names), NoneTwice(q), NEW set, NEW r, r = Those(q, set)
    PROVE  NamedOnce(r, set)
<1>1. r \in Seq(Names) BY SelectedComes DEF Those
<1>2. PICK e : ComesFrom(r, q, {i \in DOMAIN q : q[i] \in set}, Len(q), e) BY SelectedComes DEF Those
<1>3. Len(r) \in Nat /\ DOMAIN r = 1 .. Len(r) /\ Len(q) \in Nat /\ DOMAIN q = 1 .. Len(q) BY <1>1
<1>4. \A i \in 1 .. Len(r) : e[i] \in DOMAIN q /\ q[e[i]] \in set /\ r[i] = q[e[i]] BY <1>2 DEF ComesFrom
<1>5. \A i, j \in 1 .. Len(r) : i < j => e[i] < e[j] BY <1>2 DEF ComesFrom
<1>6. ASSUME NEW i \in DOMAIN r, NEW j \in DOMAIN r, r[i] = r[j] PROVE i = j
  <2>1. e[i] = e[j] BY <1>3, <1>4, <1>6 DEF NoneTwice
  <2>2. e[i] \in Nat /\ e[j] \in Nat BY <1>3, <1>4
  <2>3. i \in Nat /\ j \in Nat BY <1>3
  <2>4. ~(i < j) /\ ~(j < i) BY <1>3, <1>5, <2>1, <2>2
  <2> QED BY <2>3, <2>4
<1> QED BY <1>1, <1>3, <1>4, <1>6 DEF NamedOnce, NoneTwice

LEMMA JoinedOnce ==
    ASSUME NEW set, NEW a, NEW b, NamedOnce(a, set), NamedOnce(b, set),
           \A i \in DOMAIN a, j \in DOMAIN b : a[i] # b[j]
    PROVE  NamedOnce(a \o b, set)
<1>1. a \in Seq(Names) /\ b \in Seq(Names) BY DEF NamedOnce
<1>2. PICK c : c = a \o b OBVIOUS
<1>3. /\ c \in Seq(Names) /\ Len(a) \in Nat /\ Len(b) \in Nat /\ Len(c) = Len(a) + Len(b)
      /\ DOMAIN a = 1 .. Len(a) /\ DOMAIN b = 1 .. Len(b) /\ DOMAIN c = 1 .. Len(c)
  BY <1>1, <1>2
<1>4. \A i \in DOMAIN c : IF i <= Len(a) THEN i \in DOMAIN a /\ c[i] = a[i]
                                         ELSE i - Len(a) \in DOMAIN b /\ c[i] = b[i - Len(a)]
  BY <1>1, <1>2, <1>3
<1>5. \A i \in DOMAIN c : c[i] \in set BY <1>4 DEF NamedOnce
<1>6. ASSUME NEW i \in DOMAIN c, NEW j \in DOMAIN c, c[i] = c[j] PROVE i = j
  <2>1. i \in Nat /\ j \in Nat BY <1>3
  <2>2. CASE i <= Len(a) /\ j <= Len(a) BY <2>2, <1>4, <1>6 DEF NamedOnce, NoneTwice
  <2>3. CASE i <= Len(a) /\ ~(j <= Len(a)) BY <2>3, <1>4, <1>6
  <2>4. CASE ~(i <= Len(a)) /\ j <= Len(a) BY <2>4, <1>4, <1>6
  <2>5. CASE ~(i <= Len(a)) /\ ~(j <= Len(a))
    <3>1. i - Len(a) = j - Len(a) BY <2>5, <1>4, <1>6 DEF NamedOnce, NoneTwice
    <3> QED BY <3>1, <2>1, <1>3
  <2> QED BY <2>2, <2>3, <2>4, <2>5
<1> QED BY <1>2, <1>3, <1>5, <1>6 DEF NamedOnce, NoneTwice

LEMMA NamesFinite == IsFiniteSet(Names)
<1>1. PICK n \in Nat : n = Len(NAMES) BY DiredAssumption
<1>2. DOMAIN NAMES = 1 .. n BY <1>1, DiredAssumption
<1>3. NAMES \in [1 .. n -> Names] BY <1>1, <1>2, DiredAssumption
<1>4. \A x \in Names : \E i \in 1 .. n : NAMES[i] = x BY <1>2 DEF Names, ToSet
<1>5. ExistsSurjection(1 .. n, Names) BY <1>3, <1>4 DEF ExistsSurjection, Surjection
<1> QED BY <1>1, <1>5, FS_NatSurjection

LEMMA SetListed ==
    ASSUME NEW S \in SUBSET Names
    PROVE  NamedOnce(SetToSeq(S), S)
<1>1. IsFiniteSet(S) BY NamesFinite, FS_Subset
<1>2. Cardinality(S) \in Nat /\ ExistsBijection(1 .. Cardinality(S), S) BY <1>1, FS_CardinalityType
<1>3. \E f \in [1 .. Cardinality(S) -> S] : IsInjective(f) BY <1>2 DEF ExistsBijection, Bijection, Injection, IsInjective
<1>4. PICK f : f = SetToSeq(S) OBVIOUS
<1>5. f \in [1 .. Cardinality(S) -> S] /\ IsInjective(f) BY <1>3, <1>4 DEF SetToSeq
<1>6. f \in Seq(Names) BY <1>2, <1>5
<1> QED BY <1>4, <1>5, <1>6 DEF NamedOnce, NoneTwice, IsInjective

LEMMA NewestFollows ==
    ASSUME NamedOnce(newest, Here(there)), NEW d, NEW files, Becomes(d, files)
    PROVE  NamedOnce(newest', Here(files))
<1>1. PICK a : a = SetToSeq(Here(files \ there)) OBVIOUS
<1>2. PICK b : b = Those(newest, Here(files)) OBVIOUS
<1>3. newest' = a \o b BY <1>1, <1>2 DEF Becomes
<1>4. Here(files \ there) \in SUBSET Names BY DEF Here
<1>5. NamedOnce(a, Here(files \ there)) BY <1>1, <1>4, SetListed
<1>6. NamedOnce(a, Here(files)) BY <1>5 DEF NamedOnce, Here
<1>7. newest \in Seq(Names) /\ NoneTwice(newest) BY DEF NamedOnce
<1>8. NamedOnce(b, Here(files)) BY <1>2, <1>7, ThoseAre
<1>9. \A j \in DOMAIN b : b[j] \in Here(there)
  <2>1. PICK e : ComesFrom(b, newest, {i \in DOMAIN newest : newest[i] \in Here(files)}, Len(newest), e)
    BY <1>2, <1>7, SelectedComes DEF Those
  <2>2. DOMAIN b = 1 .. Len(b) /\ DOMAIN newest = 1 .. Len(newest) BY <1>7, <1>8 DEF NamedOnce
  <2>3. \A j \in DOMAIN b : e[j] \in DOMAIN newest /\ b[j] = newest[e[j]] BY <2>1, <2>2 DEF ComesFrom
  <2> QED BY <2>3 DEF NamedOnce
<1>10. \A i \in DOMAIN a, j \in DOMAIN b : a[i] # b[j] BY <1>5, <1>9 DEF NamedOnce, Here
<1> QED BY <1>3, <1>6, <1>8, <1>10, JoinedOnce

LEMMA AddedFirst ==
    ASSUME NEW n \in Names, NEW files, n \notin Here(files), NEW q, NamedOnce(q, Here(files))
    PROVE  NamedOnce(<<n>> \o q, Here(files \cup {<<"here", n>>}))
<1>1. PICK a : a = <<n>> OBVIOUS
<1>2. a \in Seq(Names) /\ Len(a) = 1 /\ a[1] = n /\ DOMAIN a = {1} BY <1>1
<1>3. NamedOnce(a, Here(files \cup {<<"here", n>>})) BY <1>1, <1>2 DEF NamedOnce, NoneTwice, Here
<1>4. NamedOnce(q, Here(files \cup {<<"here", n>>})) BY DEF NamedOnce, Here
<1>5. \A i \in DOMAIN a, j \in DOMAIN q : a[i] # q[j] BY <1>2 DEF NamedOnce
<1>6. NamedOnce(a \o q, Here(files \cup {<<"here", n>>})) BY <1>3, <1>4, <1>5, JoinedOnce
<1> QED BY <1>1, <1>6

-----------------------------------------------------------------------------
DirMarks == {"*", "D", " "}
ListLines == [name : Names, mark : DirMarks]
LinesOnce(drawn) == /\ drawn \in Seq(ListLines)
                    /\ \A i, j \in DOMAIN drawn : drawn[i].name = drawn[j].name => i = j
Follow(drawn, marks) == /\ DOMAIN marks = {drawn[i].name : i \in DOMAIN drawn}
                        /\ \A i \in DOMAIN drawn : drawn[i].mark = marks[drawn[i].name]

LEMMA LineIs ==
    ASSUME NEW drawn \in Seq(ListLines), NEW i \in DOMAIN drawn
    PROVE  /\ drawn[i].name \in Names /\ drawn[i].mark \in DirMarks
           /\ drawn[i] = [name |-> drawn[i].name, mark |-> drawn[i].mark]
<1>1. drawn[i] \in ListLines OBVIOUS
<1> QED BY <1>1 DEF ListLines

LEMMA MarkFound ==
    ASSUME LinesOnce(listing), Follow(listing, given), NEW i, NEW n
    PROVE  /\ MarkKept(listing, i, n) = IF n \in DOMAIN given THEN given[n] ELSE " "
           /\ MarkKept(listing, i, n) \in DirMarks
<1>1. CASE LineOf(listing, n) = {}
  <2>1. n \notin DOMAIN given BY <1>1 DEF LineOf, Follow
  <2> QED BY <1>1, <2>1 DEF MarkKept, DirMarks
<1>2. CASE LineOf(listing, n) # {}
  <2>1. PICK j : j = CHOOSE l \in LineOf(listing, n) : TRUE OBVIOUS
  <2>2. j \in DOMAIN listing /\ listing[j].name = n BY <1>2, <2>1 DEF LineOf
  <2>3. MarkKept(listing, i, n) = listing[j].mark BY <1>2, <2>1 DEF MarkKept
  <2>4. n \in DOMAIN given /\ listing[j].mark = given[n] BY <2>2 DEF Follow
  <2>5. listing[j].mark \in DirMarks BY <2>2, LineIs DEF LinesOnce
  <2> QED BY <2>3, <2>4, <2>5
<1> QED BY <1>1, <1>2

LEMMA RefreshedKeeps ==
    ASSUME LinesOnce(listing), Follow(listing, given), NEW files, NEW dates, NamedOnce(dates, Here(files)),
           NEW by, NEW place, Refreshed(files, dates, by, place)
    PROVE  LinesOnce(listing') /\ Follow(listing', given')
<1>1. PICK q : q = IF by THEN dates ELSE NAMES OBVIOUS
<1>2. q \in Seq(Names) /\ NoneTwice(q) BY <1>1, DiredAssumption DEF NamedOnce, NoneTwice
<1>3. PICK names : names = Those(q, Here(files)) OBVIOUS
<1>4. NamedOnce(names, Here(files)) BY <1>2, <1>3, ThoseAre
<1>5. names = Listed(files, dates, by) BY <1>1, <1>3, Zenon DEF Listed
<1>6. names \in Seq(Names) /\ Len(names) \in Nat /\ DOMAIN names = 1 .. Len(names) BY <1>4 DEF NamedOnce
<1>7. listing' = [i \in DOMAIN names |-> Line(names[i], MarkKept(listing, i, names[i]))] BY <1>5 DEF Refreshed
<1>8. given' = [n \in ToSet(names) |-> IF n \in DOMAIN given THEN given[n] ELSE " "] BY <1>5 DEF Refreshed
<1>9. PICK marks : marks = [i \in DOMAIN names |-> MarkKept(listing, i, names[i])] OBVIOUS
<1>10. \A i \in DOMAIN names : /\ marks[i] = IF names[i] \in DOMAIN given THEN given[names[i]] ELSE " "
                               /\ marks[i] \in DirMarks
  BY <1>9, MarkFound
<1>11. listing' = [i \in DOMAIN names |-> Line(names[i], marks[i])] BY <1>7, <1>9
<1>12. ASSUME NEW i \in DOMAIN names
       PROVE  listing'[i] \in ListLines /\ listing'[i].name = names[i] /\ listing'[i].mark = marks[i]
  <2>1. PICK n \in Names : n = names[i] BY <1>6
  <2>2. PICK m \in DirMarks : m = marks[i] BY <1>10
  <2>3. PICK l : l = listing'[i] OBVIOUS
  <2>4. l = [name |-> n, mark |-> m] BY <1>11, <2>1, <2>2, <2>3 DEF Line
  <2>5. l \in ListLines /\ l.name = n /\ l.mark = m BY <2>4 DEF ListLines
  <2> QED BY <2>1, <2>2, <2>3, <2>5
<1>13. \A i \in DOMAIN names : listing'[i] \in ListLines BY <1>12
<1>14. DOMAIN listing' = DOMAIN names BY <1>11
<1>15. listing' \in Seq(ListLines) BY <1>6, <1>11, <1>13
<1>16. \A i \in DOMAIN names : listing'[i].name = names[i] /\ listing'[i].mark = marks[i] BY <1>12
<1>17. \A i, j \in DOMAIN names : names[i] = names[j] => i = j BY <1>4 DEF NamedOnce, NoneTwice
<1>18. LinesOnce(listing') BY <1>14, <1>15, <1>16, <1>17 DEF LinesOnce
<1>19. DOMAIN given' = {names[i] : i \in DOMAIN names} BY <1>8 DEF ToSet
<1>20. \A i \in DOMAIN names : given'[names[i]] = marks[i] BY <1>8, <1>10 DEF ToSet
<1>21. DOMAIN given' = {listing'[i].name : i \in DOMAIN listing'} BY <1>14, <1>16, <1>19
<1>22. \A i \in DOMAIN listing' : listing'[i].mark = given'[listing'[i].name] BY <1>14, <1>16, <1>20
<1> QED BY <1>18, <1>21, <1>22 DEF Follow

LEMMA Remarked ==
    ASSUME LinesOnce(listing), Follow(listing, given), NEW marks \in [DOMAIN listing -> DirMarks],
           DOMAIN listing' = DOMAIN listing, listing' = [i \in DOMAIN listing |-> listing'[i]],
           \A i \in DOMAIN listing : listing'[i] = [name |-> listing[i].name, mark |-> marks[i]],
           DOMAIN given' = DOMAIN given, \A i \in DOMAIN listing : given'[listing[i].name] = marks[i]
    PROVE  LinesOnce(listing') /\ Follow(listing', given')
<1>1. listing \in Seq(ListLines) /\ DOMAIN listing = 1 .. Len(listing) /\ Len(listing) \in Nat BY DEF LinesOnce
<1>2. ASSUME NEW i \in DOMAIN listing
      PROVE  listing'[i] \in ListLines /\ listing'[i].name = listing[i].name /\ listing'[i].mark = marks[i]
  <2>1. PICK n \in Names : n = listing[i].name BY <1>1, LineIs
  <2>2. PICK m \in DirMarks : m = marks[i] OBVIOUS
  <2>3. PICK l : l = listing'[i] OBVIOUS
  <2>4. l = [name |-> n, mark |-> m] BY <2>1, <2>2, <2>3
  <2>5. l \in ListLines /\ l.name = n /\ l.mark = m BY <2>4 DEF ListLines
  <2> QED BY <2>1, <2>2, <2>3, <2>5
<1>3. listing' \in Seq(ListLines) BY <1>1, <1>2
<1>4. LinesOnce(listing') BY <1>2, <1>3 DEF LinesOnce
<1>5. DOMAIN given' = {listing'[i].name : i \in DOMAIN listing'} BY <1>2 DEF Follow
<1>6. \A i \in DOMAIN listing' : listing'[i].mark = given'[listing'[i].name] BY <1>2
<1> QED BY <1>4, <1>5, <1>6 DEF Follow

LEMMA ThoseAll ==
    ASSUME NEW q \in Seq(Names), NEW set, NEW r, r = Those(q, set), NEW i \in DOMAIN q, q[i] \in set
    PROVE  \E k \in DOMAIN r : r[k] = q[i]
<1>1. r \in Seq(Names) BY SelectedComes DEF Those
<1>2. PICK e : ComesFrom(r, q, {j \in DOMAIN q : q[j] \in set}, Len(q), e) BY SelectedComes DEF Those
<1>3. Len(r) \in Nat /\ DOMAIN r = 1 .. Len(r) /\ Len(q) \in Nat /\ DOMAIN q = 1 .. Len(q) BY <1>1
<1>4. PICK k \in 1 .. Len(r) : e[k] = i BY <1>2, <1>3 DEF ComesFrom
<1>5. r[k] = q[i] BY <1>2, <1>4 DEF ComesFrom
<1> QED BY <1>3, <1>4, <1>5

(* What the command goes on with, and where to.                             *)
Headed == queue # <<>> =>
            \/ doing.op = "delete"
            \/ doing.dest = <<"there", "into">>
            \/ \E n \in Names : /\ doing.dest = <<"here", n>> /\ Len(queue) = 1
                                /\ (n \in DirNames <=> Head(queue) \in DirNames)
FilesKept == Safe(data, there, agreed) /\ NamedOnce(newest, Here(there))
ShownKept == LinesOnce(listing) /\ Follow(listing, given)
QueueKept == queue \in Seq(Names) /\ Headed
DirInv == FilesKept /\ ShownKept /\ QueueKept

LEMMA ShownStays == ASSUME ShownKept, UNCHANGED dirShown PROVE ShownKept'
BY DEF ShownKept, dirShown, LinesOnce, Follow

LEMMA FilesStay ==
    ASSUME FilesKept, UNCHANGED dirFiles, agreed \subseteq agreed' PROVE FilesKept'
<1>1. data' = data /\ there' = there /\ newest' = newest BY DEF dirFiles
<1>2. Keeps(data', there', agreed') BY <1>1 DEF FilesKept, Safe, Keeps
<1> QED BY <1>1, <1>2 DEF FilesKept, Safe

LEMMA QueueStays == ASSUME QueueKept, UNCHANGED <<queue, doing>> PROVE QueueKept'
BY DEF QueueKept, Headed

LEMMA QueueEmpty == ASSUME queue' = <<>> PROVE QueueKept'
<1>1. <<>> \in Seq(Names) OBVIOUS
<1> QED BY <1>1 DEF QueueKept, Headed

LEMMA BecomesKept ==
    ASSUME FilesKept, NEW d, NEW files, Becomes(d, files), Safe(d, files, agreed')
    PROVE  FilesKept'
<1>1. NamedOnce(newest', Here(files)) BY NewestFollows DEF FilesKept
<1>2. data' = d /\ there' = files BY DEF Becomes
<1> QED BY <1>1, <1>2 DEF FilesKept

LEMMA SafeMore ==
    ASSUME NEW d, NEW files, NEW a, NEW b, Safe(d, files, a), a \subseteq b PROVE Safe(d, files, b)
BY DEF Safe, Keeps

LEMMA CopyFileKept ==
    ASSUME FilesKept, ~SAME_DIR, ~MERGES, NEW from, NEW to, NEW ok, OneTo(from, to, agreed'), CopyFile(from, to, ok)
    PROVE  FilesKept'
<1>1. Safe(data, there, agreed) /\ agreed \subseteq agreed' BY DEF FilesKept, OneTo
<1>2. CASE Becomes(data, there)
  <2>1. Safe(data, there, agreed') BY <1>1, SafeMore
  <2> QED BY <1>2, <2>1, BecomesKept
<1>3. ASSUME MayCopy(from, to), NEW done \in SUBSET Parts(from),
             Becomes(Copied(data, from, to, done), there \cup {Real(to)})
      PROVE  FilesKept'
  <2>1. PICK e : e = Copied(data, from, to, done) OBVIOUS
  <2>2. PICK now : now = agreed' OBVIOUS
  <2>3. OneTo(from, to, now) BY <2>2
  <2>4. Safe(e, there \cup {to}, now) BY <1>1, <1>3, <2>1, <2>3, CopyIsSafe
  <2>5. PICK files : files = there \cup {to} OBVIOUS
  <2>6. Becomes(e, files) BY <1>3, <2>1, <2>5, RealIs
  <2> QED BY <2>2, <2>4, <2>5, <2>6, BecomesKept
<1> QED BY <1>2, <1>3 DEF CopyFile

LEMMA MoveFileKept ==
    ASSUME FilesKept, ~SAME_DIR, ~MERGES, NEW from, NEW to, NEW ok \in BOOLEAN, OneTo(from, to, agreed'), MoveFile(from, to, ok)
    PROVE  FilesKept'
<1>1. Safe(data, there, agreed) /\ agreed \subseteq agreed' /\ from # to BY DEF FilesKept, OneTo
<1>2. PICK now : now = agreed' OBVIOUS
<1>3. OneTo(from, to, now) BY <1>2
<1>4. CASE Becomes(data, there)
  <2>1. Safe(data, there, agreed') BY <1>1, SafeMore
  <2> QED BY <1>4, <2>1, BecomesKept
<1>5. CASE CopyFile(from, to, FALSE) BY <1>5, CopyFileKept
<1>6. ASSUME MayCopy(from, to), NEW gone \in SUBSET Parts(from),
             Becomes(DeletedIn(Copied(data, from, to, Parts(from)), from, gone),
                     (there \cup {to}) \ (IF ok THEN {from} ELSE {}))
      PROVE  FilesKept'
  <2>1. PICK e : e = DeletedIn(Copied(data, from, to, Parts(from)), from, gone) OBVIOUS
  <2>2. PICK left : left = (there \cup {to}) \ (IF ok THEN {from} ELSE {}) OBVIOUS
  <2>3. left = (there \cup {to}) \ {from} \/ left = there \cup {to} BY <2>2
  <2>4. Safe(e, left, now) BY <1>1, <1>3, <1>6, <2>1, <2>3, MoveAcrossIsSafe
  <2>5. Becomes(e, left) BY <1>6, <2>1, <2>2
  <2> QED BY <1>2, <2>4, <2>5, BecomesKept
<1>7. ASSUME IsDir(to) => TextAt(to) = {},
             Becomes([data EXCEPT ![to] = data[from], ![from] = [k \in Inside |-> Gone]], (there \ {from}) \cup {to})
      PROVE  FilesKept'
  <2>1. PICK e : e = [data EXCEPT ![to] = data[from], ![from] = [k \in Inside |-> Gone]] OBVIOUS
  <2>2. PICK left : left = (there \ {from}) \cup {to} OBVIOUS
  <2>3. Safe(e, left, now) BY <1>1, <1>3, <1>7, <2>1, <2>2, RenameIsSafe
  <2>4. Becomes(e, left) BY <1>7, <2>1, <2>2
  <2> QED BY <1>2, <2>3, <2>4, BecomesKept
<1>8. CASE MoveAcross(from, to, ok) BY <1>5, <1>6, <1>8 DEF MoveAcross
<1>9. CASE RenameFile(from, to, ok) BY <1>4, <1>7, <1>9 DEF RenameFile
<1> QED BY <1>8, <1>9 DEF MoveFile

LEMMA TailNames ==
    ASSUME NEW q \in Seq(Names), q # <<>>
    PROVE  /\ Tail(q) \in Seq(Names) /\ Len(Tail(q)) = Len(q) - 1 /\ Head(q) \in Names /\ Len(q) \in Nat
           /\ Len(q) = 1 => Tail(q) = <<>>
<1>1. Tail(q) \in Seq(Names) /\ Len(Tail(q)) = Len(q) - 1 /\ Head(q) \in Names /\ Len(q) \in Nat OBVIOUS
<1>2. PICK t \in Seq(Names) : t = Tail(q) BY <1>1
<1>3. Len(t) = 0 => t = <<>> BY <1>2
<1> QED BY <1>1, <1>2, <1>3

LEMMA GoingOn ==
    ASSUME QueueKept, queue # <<>>, Stops \/ Continues, doing' = doing PROVE QueueKept'
<1>1. CASE Stops BY <1>1, QueueEmpty DEF Stops
<1>2. CASE Continues
  <2>1. PICK q \in Seq(Names) : q = queue BY DEF QueueKept
  <2>2. queue' = Tail(q) BY <1>2, <2>1 DEF Continues
  <2>3. Tail(q) \in Seq(Names) /\ (Len(q) = 1 => Tail(q) = <<>>) BY <2>1, TailNames
  <2>4. CASE doing.op = "delete" \/ doing.dest = <<"there", "into">>
    <3>1. doing'.op = "delete" \/ doing'.dest = <<"there", "into">> BY <2>4
    <3> QED BY <2>2, <2>3, <3>1 DEF QueueKept, Headed
  <2>5. CASE Len(queue) = 1
    <3>1. queue' = <<>> BY <2>1, <2>2, <2>3, <2>5
    <3> QED BY <3>1, QueueEmpty
  <2> QED BY <2>4, <2>5 DEF QueueKept, Headed
<1> QED BY <1>1, <1>2

LEMMA PlaceHere == ASSUME NEW n \in Names PROVE <<"here", n>> \in Places /\ <<"there", n>> \in Places
BY DEF Places, DirSides

LEMMA OneFileKept ==
    ASSUME DirInv, ~SAME_DIR, ~MERGES, queue # <<>>, doing.op # "delete", OneFile, doing' = doing
    PROVE  FilesKept' /\ QueueKept'
<1> DEFINE from == <<"here", Head(queue)>>
           to == IF doing.dest[2] = "into" THEN <<"there", Head(queue)>> ELSE doing.dest
           asks == Is(to) /\ ~IsDir(to)
<1>1. Head(queue) \in Names BY TailNames DEF DirInv, QueueKept
<1>2. from \in Places BY <1>1, PlaceHere
<1>3. to \in Places /\ (from[2] \in DirNames <=> to[2] \in DirNames)
  <2>1. CASE doing.dest = <<"there", "into">>
    <3>1. to = <<"there", Head(queue)>> BY <2>1
    <3>2. to[2] = Head(queue) /\ from[2] = Head(queue) BY <3>1
    <3> QED BY <1>1, <3>1, <3>2, PlaceHere
  <2>2. ASSUME NEW n \in Names, doing.dest = <<"here", n>>, n \in DirNames <=> Head(queue) \in DirNames
        PROVE  to \in Places /\ (from[2] \in DirNames <=> to[2] \in DirNames)
    <3>1. to = <<"here", n>> BY <2>2, DiredAssumption
    <3>2. to[2] = n /\ from[2] = Head(queue) BY <3>1
    <3> QED BY <2>2, <3>1, <3>2, PlaceHere
  <2> QED BY <2>1, <2>2 DEF DirInv, QueueKept, Headed
<1>4. /\ Real(from) = from /\ Real(to) = to
      /\ Is(from) <=> from \in there
      /\ asks <=> to \in there /\ to[2] \notin DirNames
  BY RealIs DEF Is, IsDir
<1>5. FilesKept /\ QueueKept BY DEF DirInv
<1>6. CASE from = to /\ Stops /\ UNCHANGED <<dirFiles, agreed>> BY <1>5, <1>6, FilesStay, GoingOn
<1>7. CASE from # to /\ asks /\ (Stops \/ Continues) /\ UNCHANGED <<dirFiles, agreed>> BY <1>5, <1>7, FilesStay, GoingOn
<1>8. ASSUME from # to, agreed' = IF asks THEN agreed \cup (TextAt(to) \ TextAt(from)) ELSE agreed,
             NEW ok \in BOOLEAN, IF ok THEN Continues ELSE Stops,
             IF ~Is(from) THEN ~ok /\ UNCHANGED dirFiles
             ELSE IF doing.op = "copy" THEN CopyFile(from, to, ok) ELSE MoveFile(from, to, ok)
      PROVE  FilesKept' /\ QueueKept'
  <2>1. agreed \subseteq agreed' BY <1>8
  <2>2. QueueKept' BY <1>5, <1>8, GoingOn
  <2>3. CASE ~Is(from) BY <1>5, <1>8, <2>1, <2>2, <2>3, FilesStay
  <2>4. CASE Is(from)
    <3>1. asks => TextAt(to) \subseteq agreed' \cup TextAt(from) BY <1>8
    <3> HIDE DEF from, to, asks
    <3>2. OneTo(from, to, agreed') BY <1>2, <1>3, <1>4, <1>8, <2>1, <2>4, <3>1 DEF OneTo
    <3>3. CASE CopyFile(from, to, ok) BY <2>2, <3>2, <3>3, <1>5, CopyFileKept
    <3>4. CASE MoveFile(from, to, ok) BY <2>2, <3>2, <3>4, <1>5, <1>8, MoveFileKept
    <3> QED BY <2>2, <2>4, <1>8, <3>3, <3>4
  <2> QED BY <2>3, <2>4
<1>9. \/ from = to /\ Stops /\ UNCHANGED <<dirFiles, agreed>>
      \/ from # to /\ asks /\ (Stops \/ Continues) /\ UNCHANGED <<dirFiles, agreed>>
      \/ /\ from # to
         /\ agreed' = IF asks THEN agreed \cup (TextAt(to) \ TextAt(from)) ELSE agreed
         /\ \E ok \in BOOLEAN :
              /\ IF ok THEN Continues ELSE Stops
              /\ IF ~Is(from) THEN ~ok /\ UNCHANGED dirFiles
                 ELSE IF doing.op = "copy" THEN CopyFile(from, to, ok) ELSE MoveFile(from, to, ok)
  BY DEF OneFile
<1> HIDE DEF from, to, asks
<1> QED BY <1>6, <1>7, <1>8, <1>9

LEMMA DeleteOneKept ==
    ASSUME DirInv, ~SAME_DIR, queue # <<>>, DeleteOne, doing' = doing
    PROVE  FilesKept' /\ QueueKept'
<1> DEFINE p == <<"here", Head(queue)>>
<1>1. Head(queue) \in Names BY TailNames DEF DirInv, QueueKept
<1>2. p \in Places BY <1>1, PlaceHere
<1>3. FilesKept /\ QueueKept BY DEF DirInv
<1>4. CASE IsDir(p) /\ TextAt(p) # {} /\ (Stops \/ Continues) /\ UNCHANGED <<dirFiles, agreed>>
  BY <1>3, <1>4, FilesStay, GoingOn
<1>5. ASSUME agreed' = agreed \cup TextAt(p), NEW ok \in BOOLEAN, IF ok THEN Continues ELSE Stops,
             IF ~Is(p) THEN ~ok /\ UNCHANGED dirFiles ELSE DeleteFile(p, ok)
      PROVE  FilesKept' /\ QueueKept'
  <2>1. agreed \subseteq agreed' /\ QueueKept' BY <1>3, <1>5, GoingOn
  <2>2. CASE ~Is(p) BY <1>3, <1>5, <2>1, <2>2, FilesStay
  <2>3. CASE DeleteFile(p, ok)
    <3> HIDE DEF p
    <3>1. PICK done \in SUBSET Parts(p) : Becomes(DeletedIn(data, p, done), IF ok THEN there \ {p} ELSE there)
      BY <2>3 DEF DeleteFile
    <3>2. PICK e : e = DeletedIn(data, p, done) OBVIOUS
    <3>3. PICK left : left = IF ok THEN there \ {p} ELSE there OBVIOUS
    <3>4. left = there \ {p} \/ left = there BY <3>3
    <3>5. Safe(data, there, agreed) BY <1>3 DEF FilesKept
    <3>6. Safe(e, left, agreed \cup TextAt(p)) BY <1>2, <3>2, <3>4, <3>5, DeleteIsSafe
    <3>7. Safe(e, left, agreed') BY <1>5, <3>6
    <3>8. Becomes(e, left) BY <3>1, <3>2, <3>3
    <3> QED BY <2>1, <1>3, <3>7, <3>8, BecomesKept
  <2> QED BY <1>5, <2>2, <2>3
<1>6. \/ IsDir(p) /\ TextAt(p) # {} /\ (Stops \/ Continues) /\ UNCHANGED <<dirFiles, agreed>>
      \/ /\ agreed' = agreed \cup TextAt(p)
         /\ \E ok \in BOOLEAN : /\ IF ok THEN Continues ELSE Stops
                                /\ IF ~Is(p) THEN ~ok /\ UNCHANGED dirFiles ELSE DeleteFile(p, ok)
  BY DEF DeleteOne
<1> HIDE DEF p
<1> QED BY <1>4, <1>5, <1>6

LEMMA DoOneKept == ASSUME DirInv, ~SAME_DIR, ~MERGES, DoOne PROVE DirInv'
<1>1. ShownKept' BY ShownStays DEF DirInv, DoOne
<1>2. CASE doing.op = "delete" BY <1>1, <1>2, DeleteOneKept DEF DoOne, DirInv
<1>3. CASE doing.op # "delete" BY <1>1, <1>3, OneFileKept DEF DoOne, DirInv
<1> QED BY <1>2, <1>3

(* The files others make and delete.                                        *)
LEMMA OthersChangeKept == ASSUME DirInv, ~SAME_DIR, OthersChange PROVE DirInv'
<1>1. ShownKept' /\ QueueKept' BY ShownStays, QueueStays DEF DirInv, OthersChange
<1>2. PICK n \in Names \ DirNames :
        LET p == <<"here", n>>
        IN  IF p \in there
            THEN /\ there' = there \ {p} /\ data' = [data EXCEPT ![p] = [k \in Inside |-> Gone]]
                 /\ agreed' = agreed \cup TextAt(p)
                 /\ newest' = Those(newest, Names \ {n})
            ELSE /\ there' = there \cup {p} /\ newest' = <<n>> \o newest
                 /\ UNCHANGED <<data, agreed>>
  BY DEF OthersChange
<1>3. PICK p \in Places : p = <<"here", n>> BY PlaceHere
<1>4. Safe(data, there, agreed) /\ NamedOnce(newest, Here(there)) BY DEF DirInv, FilesKept
<1>5. CASE p \in there
  <2>1. PICK e : e = DeletedIn(data, p, Inside) OBVIOUS
  <2>2. data' = e
    <3>1. [k \in Inside |-> IF k \in Inside THEN Gone ELSE data[p][k]] = [k \in Inside |-> Gone] OBVIOUS
    <3>2. data \in [Places -> [Inside -> Text \cup {Gone}]] BY <1>4 DEF Safe, Datas
    <3>3. e = [data EXCEPT ![p] = [k \in Inside |-> IF k \in Inside THEN Gone ELSE data[p][k]]] BY <2>1, <3>2 DEF DeletedIn
    <3> QED BY <1>2, <1>3, <1>5, <3>1, <3>3
  <2>3. there' = there \ {p} /\ agreed' = agreed \cup TextAt(p) BY <1>2, <1>3, <1>5
  <2>4. PICK left : left = there \ {p} OBVIOUS
  <2>5. Safe(e, left, agreed \cup TextAt(p)) BY <1>4, <2>1, <2>4, DeleteIsSafe
  <2>6. Safe(data', there', agreed') BY <2>2, <2>3, <2>4, <2>5
  <2>7. PICK r : r = Those(newest, Names \ {n}) OBVIOUS
  <2>8. newest' = r BY <1>2, <1>3, <1>5, <2>7
  <2>9. newest \in Seq(Names) /\ NoneTwice(newest) BY <1>4 DEF NamedOnce
  <2>10. NamedOnce(r, Names \ {n}) BY <2>7, <2>9, ThoseAre
  <2>11. \A j \in DOMAIN r : r[j] \in Here(there)
    <3>1. PICK e2 : ComesFrom(r, newest, {i \in DOMAIN newest : newest[i] \in Names \ {n}}, Len(newest), e2)
      BY <2>7, <2>9, SelectedComes DEF Those
    <3>2. DOMAIN r = 1 .. Len(r) /\ DOMAIN newest = 1 .. Len(newest) BY <2>9, <2>10 DEF NamedOnce
    <3>3. \A j \in DOMAIN r : e2[j] \in DOMAIN newest /\ r[j] = newest[e2[j]] BY <3>1, <3>2 DEF ComesFrom
    <3> QED BY <3>3, <1>4 DEF NamedOnce
  <2>12. \A j \in DOMAIN r : r[j] \in Here(there \ {p}) BY <2>10, <2>11, <1>3 DEF NamedOnce, Here
  <2>13. NamedOnce(newest', Here(there')) BY <2>3, <2>8, <2>10, <2>12 DEF NamedOnce
  <2> QED BY <1>1, <2>6, <2>13 DEF DirInv, FilesKept
<1>6. CASE p \notin there
  <2>1. there' = there \cup {p} /\ newest' = <<n>> \o newest /\ data' = data /\ agreed' = agreed BY <1>2, <1>3, <1>6
  <2>2. n \notin Here(there) BY <1>3, <1>6 DEF Here
  <2>3. NamedOnce(<<n>> \o newest, Here(there \cup {<<"here", n>>})) BY <1>4, <2>2, AddedFirst
  <2>4. Safe(data, there \cup {p}, agreed) BY <1>4 DEF Safe, Keeps
  <2> QED BY <1>1, <1>3, <2>1, <2>3, <2>4 DEF DirInv, FilesKept
<1> QED BY <1>5, <1>6

LEMMA CreateDirectoryKept == ASSUME DirInv, ~SAME_DIR, CreateDirectory PROVE DirInv'
<1>1. QueueKept' BY QueueStays DEF DirInv, CreateDirectory
<1>2. PICK n \in DirNames : /\ ~Is(<<"here", n>>)
                            /\ there' = there \cup {<<"here", n>>} /\ newest' = <<n>> \o newest
                            /\ Refreshed(there', newest', byDate, n)
  BY DEF CreateDirectory
<1>3. data' = data /\ agreed' = agreed BY DEF CreateDirectory
<1>4. n \in Names BY DiredAssumption
<1>5. PICK p \in Places : p = <<"here", n>> BY <1>4, PlaceHere
<1>6. n \notin Here(there) BY <1>2, RealIs DEF Here, Is
<1>7. Safe(data, there, agreed) /\ NamedOnce(newest, Here(there)) BY DEF DirInv, FilesKept
<1>8. PICK files : files = there' OBVIOUS
<1>9. PICK dates : dates = newest' OBVIOUS
<1>10. NamedOnce(<<n>> \o newest, Here(there \cup {<<"here", n>>})) BY <1>4, <1>6, <1>7, AddedFirst
<1>11. NamedOnce(dates, Here(files)) BY <1>2, <1>8, <1>9, <1>10
<1>12. Safe(data', there', agreed') BY <1>2, <1>3, <1>5, <1>7 DEF Safe, Keeps
<1>13. Refreshed(files, dates, byDate, n) BY <1>2, <1>8, <1>9
<1>14. LinesOnce(listing') /\ Follow(listing', given') BY <1>11, <1>13, RefreshedKeeps DEF DirInv, ShownKept
<1> QED BY <1>1, <1>8, <1>9, <1>11, <1>12, <1>14 DEF DirInv, FilesKept, ShownKept

LEMMA MarkLineKept == ASSUME DirInv, MarkLine PROVE DirInv'
<1>1. FilesKept' BY FilesStay DEF DirInv, MarkLine
<1>2. QueueKept' BY QueueStays DEF DirInv, MarkLine
<1>3. PICK m \in DirMarks : /\ listing' = [listing EXCEPT ![row].mark = m]
                            /\ given' = [given EXCEPT ![listing[row].name] = m]
  BY DEF MarkLine, DirMarks
<1>4. LinesOnce(listing) /\ Follow(listing, given) /\ row \in DOMAIN listing BY DEF DirInv, ShownKept, MarkLine
<1>5. listing \in Seq(ListLines) BY <1>4 DEF LinesOnce
<1> DEFINE marks == [i \in DOMAIN listing |-> IF i = row THEN m ELSE listing[i].mark]
<1>6. marks \in [DOMAIN listing -> DirMarks] BY <1>5, LineIs
<1>7. DOMAIN listing' = DOMAIN listing /\ listing' = [i \in DOMAIN listing |-> listing'[i]] BY <1>3, <1>5
<1>8. ASSUME NEW i \in DOMAIN listing
      PROVE  listing'[i] = [name |-> listing[i].name, mark |-> marks[i]]
  <2>1. listing[i] = [name |-> listing[i].name, mark |-> listing[i].mark] BY <1>5, LineIs
  <2>2. CASE i = row
    <3>1. listing'[i] = [listing[i] EXCEPT !.mark = m] BY <1>3, <1>5, <2>2
    <3>2. PICK l \in ListLines : l = listing[i] BY <1>5
    <3>3. [l EXCEPT !.mark = m] = [name |-> l.name, mark |-> m] BY <3>2 DEF ListLines
    <3> QED BY <2>2, <3>1, <3>2, <3>3
  <2>3. CASE i # row
    <3>1. listing'[i] = listing[i] BY <1>3, <1>5, <2>3
    <3> QED BY <2>1, <2>3, <3>1
  <2> QED BY <2>2, <2>3
<1>9. DOMAIN given' = DOMAIN given BY <1>3
<1>10. ASSUME NEW i \in DOMAIN listing PROVE given'[listing[i].name] = marks[i]
  <2>1. listing[i].name \in DOMAIN given /\ given[listing[i].name] = listing[i].mark BY <1>4 DEF Follow
  <2>2. listing[i].name = listing[row].name <=> i = row BY <1>4 DEF LinesOnce
  <2> QED BY <1>3, <2>1, <2>2
<1> HIDE DEF marks
<1>11. LinesOnce(listing') /\ Follow(listing', given') BY <1>4, <1>6, <1>7, <1>8, <1>9, <1>10, Remarked
<1> QED BY <1>1, <1>2, <1>11 DEF DirInv, ShownKept

LEMMA MarkSomeKept == ASSUME DirInv, MarkSome PROVE DirInv'
<1>1. FilesKept' BY FilesStay DEF DirInv, MarkSome
<1>2. QueueKept' BY QueueStays DEF DirInv, MarkSome
<1>3. PICK rows \in SUBSET DOMAIN listing, m \in DirMarks :
        /\ listing' = [i \in DOMAIN listing |-> IF i \in rows THEN [listing[i] EXCEPT !.mark = m] ELSE listing[i]]
        /\ given' = [n \in DOMAIN given |-> IF \E i \in rows : listing[i].name = n THEN m ELSE given[n]]
  BY DEF MarkSome, DirMarks
<1>4. LinesOnce(listing) /\ Follow(listing, given) BY DEF DirInv, ShownKept
<1>5. listing \in Seq(ListLines) BY <1>4 DEF LinesOnce
<1> DEFINE marks == [i \in DOMAIN listing |-> IF i \in rows THEN m ELSE listing[i].mark]
<1>6. marks \in [DOMAIN listing -> DirMarks] BY <1>5, LineIs
<1>7. DOMAIN listing' = DOMAIN listing /\ listing' = [i \in DOMAIN listing |-> listing'[i]] BY <1>3
<1>8. ASSUME NEW i \in DOMAIN listing
      PROVE  listing'[i] = [name |-> listing[i].name, mark |-> marks[i]]
  <2>1. listing[i] = [name |-> listing[i].name, mark |-> listing[i].mark] BY <1>5, LineIs
  <2>2. CASE i \in rows
    <3>1. listing'[i] = [listing[i] EXCEPT !.mark = m] BY <1>3, <2>2
    <3>2. PICK l \in ListLines : l = listing[i] BY <1>5
    <3>3. [l EXCEPT !.mark = m] = [name |-> l.name, mark |-> m] BY <3>2 DEF ListLines
    <3> QED BY <2>2, <3>1, <3>2, <3>3
  <2>3. CASE i \notin rows
    <3>1. listing'[i] = listing[i] BY <1>3, <2>3
    <3> QED BY <2>1, <2>3, <3>1
  <2> QED BY <2>2, <2>3
<1>9. DOMAIN given' = DOMAIN given BY <1>3
<1>10. ASSUME NEW i \in DOMAIN listing PROVE given'[listing[i].name] = marks[i]
  <2>1. listing[i].name \in DOMAIN given /\ given[listing[i].name] = listing[i].mark BY <1>4 DEF Follow
  <2>2. (\E j \in rows : listing[j].name = listing[i].name) <=> i \in rows BY <1>4 DEF LinesOnce
  <2> QED BY <1>3, <2>1, <2>2
<1> HIDE DEF marks
<1>11. LinesOnce(listing') /\ Follow(listing', given') BY <1>4, <1>6, <1>7, <1>8, <1>9, <1>10, Remarked
<1> QED BY <1>1, <1>2, <1>11 DEF DirInv, ShownKept

LEMMA ToggleMarksKept == ASSUME DirInv, ToggleMarks PROVE DirInv'
<1> DEFINE turned(m) == IF m = "*" THEN " " ELSE IF m = " " THEN "*" ELSE m
<1>1. FilesKept' BY FilesStay DEF DirInv, ToggleMarks
<1>2. QueueKept' BY QueueStays DEF DirInv, ToggleMarks
<1>3. /\ listing' = [i \in DOMAIN listing |-> [listing[i] EXCEPT !.mark = turned(@)]]
      /\ given' = [n \in DOMAIN given |-> turned(given[n])]
  BY DEF ToggleMarks
<1>4. LinesOnce(listing) /\ Follow(listing, given) BY DEF DirInv, ShownKept
<1>5. listing \in Seq(ListLines) BY <1>4 DEF LinesOnce
<1> DEFINE marks == [i \in DOMAIN listing |-> turned(listing[i].mark)]
<1>6. marks \in [DOMAIN listing -> DirMarks]
  <2>1. \A m \in DirMarks : turned(m) \in DirMarks BY DEF DirMarks
  <2>2. \A i \in DOMAIN listing : listing[i].mark \in DirMarks BY <1>5, LineIs
  <2> HIDE DEF turned
  <2> QED BY <2>1, <2>2
<1>7. DOMAIN listing' = DOMAIN listing /\ listing' = [i \in DOMAIN listing |-> listing'[i]] BY <1>3
<1>8. ASSUME NEW i \in DOMAIN listing
      PROVE  listing'[i] = [name |-> listing[i].name, mark |-> marks[i]]
  <2>1. PICK l \in ListLines : l = listing[i] BY <1>5
  <2>2. listing'[i] = [l EXCEPT !.mark = turned(@)] BY <1>3, <2>1
  <2>3. PICK m : m = turned(l.mark) OBVIOUS
  <2>4. [l EXCEPT !.mark = m] = [name |-> l.name, mark |-> m] BY <2>1 DEF ListLines
  <2>5. listing'[i] = [l EXCEPT !.mark = m] BY <2>2, <2>3
  <2>6. marks[i] = m BY <2>1, <2>3
  <2> QED BY <2>1, <2>4, <2>5, <2>6
<1>9. DOMAIN given' = DOMAIN given BY <1>3
<1>10. ASSUME NEW i \in DOMAIN listing PROVE given'[listing[i].name] = marks[i]
  <2>1. listing[i].name \in DOMAIN given /\ given[listing[i].name] = listing[i].mark BY <1>4 DEF Follow
  <2>2. given'[listing[i].name] = turned(given[listing[i].name]) BY <1>3, <2>1
  <2> QED BY <2>1, <2>2
<1> HIDE DEF marks
<1>11. LinesOnce(listing') /\ Follow(listing', given') BY <1>4, <1>6, <1>7, <1>8, <1>9, <1>10, Remarked
<1> QED BY <1>1, <1>2, <1>11 DEF DirInv, ShownKept

LEMMA MoveLinesKept == ASSUME DirInv, MoveLines PROVE DirInv'
<1>1. FilesKept' BY FilesStay DEF DirInv, MoveLines
<1>2. QueueKept' BY QueueStays DEF DirInv, MoveLines
<1>3. ShownKept' BY DEF DirInv, ShownKept, MoveLines, LinesOnce, Follow
<1> QED BY <1>1, <1>2, <1>3 DEF DirInv

LEMMA KillLinesKept == ASSUME DirInv, KillLines PROVE DirInv'
<1>1. FilesKept' BY FilesStay DEF DirInv, KillLines
<1>2. QueueKept' BY QueueStays DEF DirInv, KillLines
<1>3. PICK all : all = IF Marked("*") # {} THEN Marked("*") ELSE {row} \cap DOMAIN listing OBVIOUS
<1>4. all \subseteq DOMAIN listing BY <1>3 DEF Marked
<1>5. PICK left : left = Selected(listing, DOMAIN listing \ all) OBVIOUS
<1>6. listing' = left /\ given' = [n \in DOMAIN given \ {listing[i].name : i \in all} |-> given[n]]
  BY <1>3, <1>5 DEF KillLines
<1>7. LinesOnce(listing) /\ Follow(listing, given) BY DEF DirInv, ShownKept
<1>8. PICK q \in Seq(ListLines) : q = listing BY <1>7 DEF LinesOnce
<1>9. left \in Seq(ListLines) /\ \E e : ComesFrom(left, q, DOMAIN q \ all, Len(q), e) BY <1>5, <1>8, SelectedComes
<1>10. PICK e : ComesFrom(left, q, DOMAIN q \ all, Len(q), e) BY <1>9
<1>11. Len(left) \in Nat /\ DOMAIN left = 1 .. Len(left) /\ Len(q) \in Nat /\ DOMAIN q = 1 .. Len(q) BY <1>8, <1>9
<1>12. \A i \in DOMAIN left : e[i] \in DOMAIN q /\ e[i] \notin all /\ left[i] = q[e[i]] BY <1>10, <1>11 DEF ComesFrom
<1>13. \A i, j \in DOMAIN left : i < j => e[i] < e[j] BY <1>10, <1>11 DEF ComesFrom
<1>14. \A k \in DOMAIN q \ all : \E i \in DOMAIN left : e[i] = k BY <1>10, <1>11 DEF ComesFrom
<1>15. \A i, j \in DOMAIN q : q[i].name = q[j].name => i = j BY <1>7, <1>8 DEF LinesOnce
<1>16. ASSUME NEW i \in DOMAIN left, NEW j \in DOMAIN left, left[i].name = left[j].name PROVE i = j
  <2>1. e[i] = e[j] BY <1>12, <1>15, <1>16
  <2>2. e[i] \in Nat /\ e[j] \in Nat /\ i \in Nat /\ j \in Nat BY <1>11, <1>12
  <2>3. ~(i < j) /\ ~(j < i) BY <1>13, <2>1, <2>2
  <2> QED BY <2>2, <2>3
<1>17. LinesOnce(left) BY <1>9, <1>16 DEF LinesOnce
<1>18. DOMAIN given \ {listing[i].name : i \in all} = {left[i].name : i \in DOMAIN left}
  <2>1. DOMAIN given = {q[i].name : i \in DOMAIN q} BY <1>7, <1>8 DEF Follow
  <2>2. ASSUME NEW n \in DOMAIN given, n \notin {q[i].name : i \in all} PROVE n \in {left[i].name : i \in DOMAIN left}
    <3>1. PICK k \in DOMAIN q \ all : q[k].name = n BY <2>1, <2>2
    <3>2. PICK i \in DOMAIN left : e[i] = k BY <1>14, <3>1
    <3>3. left[i].name = n BY <1>12, <3>1, <3>2
    <3> QED BY <3>3
  <2>3. ASSUME NEW i \in DOMAIN left PROVE left[i].name \in DOMAIN given /\ left[i].name \notin {q[k].name : k \in all}
    <3>1. left[i].name \in DOMAIN given BY <1>12, <2>1
    <3>2. \A k \in all : q[k].name # left[i].name BY <1>4, <1>8, <1>12, <1>15
    <3> QED BY <3>1, <3>2
  <2> QED BY <1>8, <2>2, <2>3
<1>19. \A i \in DOMAIN left : left[i].mark = given[left[i].name]
  BY <1>7, <1>8, <1>12 DEF Follow
<1>20. Follow(listing', given') BY <1>6, <1>18, <1>19 DEF Follow
<1> QED BY <1>1, <1>2, <1>6, <1>17, <1>20 DEF DirInv, ShownKept

LEMMA RevertKept == ASSUME DirInv, Revert PROVE DirInv'
<1>1. FilesKept' BY FilesStay DEF DirInv, Revert
<1>2. QueueKept' BY QueueStays DEF DirInv, Revert
<1>3. PICK by : Refreshed(there, newest, by, AtPoint) BY DEF Revert
<1>4. LinesOnce(listing') /\ Follow(listing', given') BY <1>3, RefreshedKeeps DEF DirInv, ShownKept, FilesKept
<1> QED BY <1>1, <1>2, <1>4 DEF DirInv, ShownKept

LEMMA DoneKept == ASSUME DirInv, Done PROVE DirInv'
<1>1. FilesKept' BY FilesStay DEF DirInv, Done
<1>2. queue' = <<>> BY DEF Done
<1>3. PICK place : Refreshed(there, newest, byDate, place) BY DEF Done
<1>4. LinesOnce(listing') /\ Follow(listing', given') BY <1>3, RefreshedKeeps DEF DirInv, ShownKept, FilesKept
<1> QED BY <1>1, <1>2, <1>4, QueueEmpty DEF DirInv, ShownKept

LEMMA NamesAtAre == ASSUME LinesOnce(listing), NEW rows PROVE NamesAt(rows) \in Seq(Names)
<1>1. PICK drawn : drawn = Selected(listing, rows) OBVIOUS
<1>2. PICK q \in Seq(ListLines) : q = listing BY DEF LinesOnce
<1>3. drawn \in Seq(ListLines) BY <1>1, <1>2, SelectedComes
<1>4. \A i \in DOMAIN drawn : drawn[i].name \in Names BY <1>3, LineIs
<1>5. DOMAIN drawn = 1 .. Len(drawn) /\ Len(drawn) \in Nat BY <1>3
<1>6. [i \in DOMAIN drawn |-> drawn[i].name] \in Seq(Names) BY <1>4, <1>5
<1> QED BY <1>1, <1>6 DEF NamesAt

LEMMA CopyOrRenameKept == ASSUME DirInv, CopyOrRename PROVE DirInv'
<1>1. FilesKept' BY FilesStay DEF DirInv, CopyOrRename
<1>2. ShownKept' BY ShownStays DEF DirInv, CopyOrRename
<1>3. PICK q : q = NamesAt(Targets) OBVIOUS
<1>4. q \in Seq(Names) BY <1>3, NamesAtAre DEF DirInv, ShownKept
<1>5. queue' = q BY <1>3 DEF CopyOrRename
<1>6. \/ \E op : doing' = [op |-> op, dest |-> <<"there", "into">>]
      \/ \E op : \E n \in Names : /\ Len(q) = 1 /\ (n \in DirNames) = (Head(q) \in DirNames)
                                  /\ doing' = [op |-> op, dest |-> <<"here", n>>]
  BY <1>5 DEF CopyOrRename
<1>7. \/ doing'.dest = <<"there", "into">>
      \/ \E n \in Names : doing'.dest = <<"here", n>> /\ Len(q) = 1 /\ (n \in DirNames <=> Head(q) \in DirNames)
  BY <1>6
<1>8. QueueKept' BY <1>4, <1>5, <1>7 DEF QueueKept, Headed
<1> QED BY <1>1, <1>2, <1>8 DEF DirInv

LEMMA DeleteKept == ASSUME DirInv, Delete PROVE DirInv'
<1>1. FilesKept' BY FilesStay DEF DirInv, Delete
<1>2. ShownKept' BY ShownStays DEF DirInv, Delete
<1>3. PICK rows : queue' = NamesAt(rows) BY DEF Delete
<1>4. queue' \in Seq(Names) BY <1>3, NamesAtAre DEF DirInv, ShownKept
<1>5. doing' = [op |-> "delete", dest |-> <<"here", "none">>] BY DEF Delete
<1>6. doing'.op = "delete" BY <1>5
<1>7. QueueKept' BY <1>4, <1>6 DEF QueueKept, Headed
<1> QED BY <1>1, <1>2, <1>7 DEF DirInv

LEMMA DirInitInv == ASSUME DirInit PROVE DirInv
<1>1. PICK files \in SUBSET Places :
        /\ there = files
        /\ data = [p \in Places |-> [k \in Inside |->
                     IF p \in files /\ (k = 1 \/ p[2] \in DirNames) THEN <<p, k>> ELSE Gone]]
        /\ \E dates \in SetToSeqs(Here(files)) : newest = dates
        /\ listing = [i \in DOMAIN Listed(files, <<>>, FALSE) |-> Line(Listed(files, <<>>, FALSE)[i], " ")]
        /\ given = [n \in Here(files) |-> " "]
  BY DEF DirInit
<1>2. agreed = {t \in Text : data[t[1]][t[2]] = Gone} BY DEF DirInit
<1>3. ASSUME NEW p \in Places, NEW k \in Inside
      PROVE  /\ data[p][k] = IF p \in files /\ (k = 1 \/ p[2] \in DirNames) THEN <<p, k>> ELSE Gone
             /\ data[p][k] \in Text \cup {Gone}
  <2>1. data[p][k] = IF p \in files /\ (k = 1 \/ p[2] \in DirNames) THEN <<p, k>> ELSE Gone BY <1>1
  <2>2. <<p, k>> \in Text BY DEF Text
  <2> QED BY <2>1, <2>2
<1>4. data \in Datas
  <2>1. data = [p \in Places |-> data[p]] /\ \A p \in Places : data[p] = [k \in Inside |-> data[p][k]] BY <1>1
  <2>2. \A p \in Places : data[p] \in [Inside -> Text \cup {Gone}] BY <1>3, <2>1
  <2> QED BY <2>1, <2>2 DEF Datas
<1>5. SingleFiles(data)
  <2> SUFFICES ASSUME NEW p \in Places, p[2] \notin DirNames PROVE data[p][2] = Gone BY DEF SingleFiles
  <2>1. 2 \in Inside BY Inside12
  <2>2. data[p][2] = IF p \in files /\ (2 = 1 \/ p[2] \in DirNames) THEN <<p, 2>> ELSE Gone BY <1>3, <2>1
  <2> QED BY <2>2
<1>6. Keeps(data, there, agreed)
  <2> SUFFICES ASSUME NEW t \in Text, t \notin agreed PROVE \E q \in there, k \in Inside : data[q][k] = t BY DEF Keeps
  <2>1. PICK p \in Places, k \in Inside : t = <<p, k>> BY DEF Text
  <2>2. data[p][k] # Gone BY <1>2, <2>1
  <2>3. p \in files /\ data[p][k] = t BY <1>3, <2>1, <2>2
  <2> QED BY <1>1, <2>3
<1>7. NamedOnce(newest, Here(there))
  <2>1. newest \in [1 .. Cardinality(Here(files)) -> Here(files)] BY <1>1 DEF SetToSeqs
  <2>2. \A i, j \in 1 .. Cardinality(Here(files)) : i # j => newest[i] # newest[j] BY <1>1 DEF SetToSeqs
  <2>3. Here(files) \in SUBSET Names BY DEF Here
  <2>4. Cardinality(Here(files)) \in Nat BY <2>3, NamesFinite, FS_Subset, FS_CardinalityType
  <2>5. newest \in Seq(Names) BY <2>1, <2>3, <2>4
  <2> QED BY <1>1, <2>1, <2>2, <2>5 DEF NamedOnce, NoneTwice
<1>8. FilesKept BY <1>1, <1>4, <1>5, <1>6, <1>7 DEF FilesKept, Safe
<1>9. ShownKept
  <2>1. NAMES \in Seq(Names) /\ NoneTwice(NAMES) BY DiredAssumption DEF NoneTwice
  <2>2. PICK names : names = Those(NAMES, Here(files)) OBVIOUS
  <2>3. names = Listed(files, <<>>, FALSE) BY <2>2 DEF Listed
  <2>4. NamedOnce(names, Here(files)) BY <2>1, <2>2, ThoseAre
  <2>5. names \in Seq(Names) /\ DOMAIN names = 1 .. Len(names) /\ Len(names) \in Nat BY <2>4 DEF NamedOnce
  <2>6. listing = [i \in DOMAIN names |-> Line(names[i], " ")] BY <1>1, <2>3
  <2>7. ASSUME NEW i \in DOMAIN names
        PROVE  listing[i] \in ListLines /\ listing[i].name = names[i] /\ listing[i].mark = " "
    <3>1. PICK n \in Names : n = names[i] BY <2>5
    <3>2. PICK l : l = listing[i] OBVIOUS
    <3>3. l = [name |-> n, mark |-> " "] BY <2>6, <3>1, <3>2 DEF Line
    <3>4. l \in ListLines /\ l.name = n /\ l.mark = " " BY <3>3 DEF ListLines, DirMarks
    <3> QED BY <3>1, <3>2, <3>4
  <2>8. DOMAIN listing = DOMAIN names /\ listing \in Seq(ListLines)
    <3>1. DOMAIN listing = 1 .. Len(names) BY <2>5, <2>6
    <3>2. listing \in [1 .. Len(names) -> ListLines] BY <2>5, <2>6, <2>7, <3>1
    <3> QED BY <2>5, <3>1, <3>2
  <2>9. LinesOnce(listing) BY <2>4, <2>7, <2>8 DEF LinesOnce, NamedOnce, NoneTwice
  <2>10. \A i \in DOMAIN names : names[i] \in Here(files) BY <2>4 DEF NamedOnce
  <2>11. ASSUME NEW n \in Here(files) PROVE \E i \in DOMAIN names : names[i] = n
    <3>1. PICK j \in DOMAIN NAMES : NAMES[j] = n BY DEF Here, Names, ToSet
    <3>2. PICK q \in Seq(Names) : q = NAMES BY <2>1
    <3> QED BY <2>2, <3>1, <3>2, ThoseAll
  <2>12. DOMAIN given = {listing[i].name : i \in DOMAIN listing}
    <3>1. DOMAIN given = Here(files) BY <1>1
    <3>2. \A i \in DOMAIN listing : listing[i].name \in Here(files) BY <2>7, <2>8, <2>10
    <3>3. \A n \in Here(files) : \E i \in DOMAIN listing : listing[i].name = n BY <2>7, <2>8, <2>11
    <3> QED BY <3>1, <3>2, <3>3
  <2>13. \A i \in DOMAIN listing : listing[i].mark = given[listing[i].name] BY <1>1, <2>7, <2>8, <2>10
  <2> QED BY <2>9, <2>12, <2>13 DEF ShownKept, Follow
<1>10. QueueKept
  <2>1. <<>> \in Seq(Names) BY EmptySeq
  <2>2. queue = <<>> BY DEF DirInit
  <2> QED BY <2>1, <2>2 DEF QueueKept, Headed
<1> QED BY <1>8, <1>9, <1>10 DEF DirInv

LEMMA DirNextInv == ASSUME DirInv, ~SAME_DIR, ~MERGES, [DirNext]_dirVars PROVE DirInv'
<1>1. CASE UNCHANGED dirVars
  <2>1. FilesKept' BY <1>1, FilesStay DEF DirInv, dirVars, dirFiles
  <2>2. ShownKept' BY <1>1, ShownStays DEF DirInv, dirVars, dirShown
  <2>3. QueueKept' BY <1>1, QueueStays DEF DirInv, dirVars
  <2> QED BY <2>1, <2>2, <2>3 DEF DirInv
<1> QED BY <1>1, MarkLineKept, MoveLinesKept, MarkSomeKept, CreateDirectoryKept, ToggleMarksKept, KillLinesKept,
           RevertKept, OthersChangeKept, CopyOrRenameKept, DeleteKept, DoOneKept, DoneKept DEF DirNext

LEMMA DirInvKept == ASSUME DirInv, ~SAME_DIR PROVE DiredKept
<1>1. NothingLost
  <2> SUFFICES ASSUME NEW t \in Text, t \notin agreed PROVE \E q \in there : t \in TextAt(q) BY DEF NothingLost
  <2>1. PICK q \in there, k \in Inside : data[q][k] = t BY DEF DirInv, FilesKept, Safe, Keeps
  <2>2. t \in TextAt(q) BY <2>1, RealIs, TextIsThere DEF TextAt
  <2> QED BY <2>1, <2>2
<1>2. MarksFollowNames BY DEF DirInv, ShownKept, Follow, MarksFollowNames
<1> QED BY <1>1, <1>2 DEF DiredKept

(* Copying, moving and deleting any number of files and directories, across *)
(* file systems or not, each of which may fail half-way, loses no text but  *)
(* what was agreed to be; and marks stay with their names (src/dired.c).    *)
THEOREM DirectoriesAreKept == ASSUME ~SAME_DIR, ~MERGES PROVE DirSpec => []DiredKept
<1>1. DirInit => DirInv BY DirInitInv
<1>2. DirInv /\ [DirNext]_dirVars => DirInv' BY DirNextInv
<1>3. DirInv => DiredKept BY DirInvKept
<1> QED BY <1>1, <1>2, <1>3, PTL DEF DirSpec

-----------------------------------------------------------------------------
(* The picker *)

(* Of n things in a strict order, the k-th is the one that k - 1 come       *)
(* before: the number of those before is one to one, and so takes every     *)
(* value there is.                                                         *)
LEMMA KthExists ==
    ASSUME NEW S, IsFiniteSet(S), NEW before \in [S -> SUBSET S],
           \A i \in S : i \notin before[i],
           \A i, j \in S : i = j \/ i \in before[j] \/ j \in before[i],
           \A i, j, k \in S : i \in before[j] /\ j \in before[k] => i \in before[k],
           NEW k \in 1 .. Cardinality(S)
    PROVE  \E i \in S : Cardinality(before[i]) = k - 1
<1> DEFINE rank == [i \in S |-> Cardinality(before[i]) + 1]
           n == Cardinality(S)
<1>1. n \in Nat /\ 1 .. n = 1 .. n BY FS_CardinalityType
<1>2. ASSUME NEW i \in S
      PROVE  IsFiniteSet(before[i]) /\ Cardinality(before[i]) \in Nat /\ Cardinality(before[i]) < n
  <2>1. before[i] \in SUBSET S /\ before[i] # S OBVIOUS
  <2>2. IsFiniteSet(before[i]) /\ Cardinality(before[i]) <= n /\ (n = Cardinality(before[i]) => S = before[i])
    BY <2>1, FS_Subset
  <2>3. Cardinality(before[i]) \in Nat BY <2>2, FS_CardinalityType
  <2> QED BY <1>1, <2>1, <2>2, <2>3
<1>3. rank \in [S -> 1 .. n] BY <1>1, <1>2
<1>4. ASSUME NEW i \in S, NEW j \in S, i \in before[j] PROVE rank[i] # rank[j]
  <2>1. before[i] \in SUBSET before[j] /\ before[i] # before[j] BY <1>4
  <2>2. Cardinality(before[j]) # Cardinality(before[i]) BY <1>2, <2>1, FS_Subset
  <2> QED BY <1>2, <2>2
<1>5. \A i, j \in S : rank[i] = rank[j] => i = j BY <1>4
<1>6. rank \in Injection(S, 1 .. n) BY <1>3, <1>5 DEF Injection, IsInjective
<1>7. IsFiniteSet(1 .. n) /\ Cardinality(1 .. n) = n BY <1>1, FS_Interval
<1> HIDE DEF rank
<1>8. rank \in Surjection(S, 1 .. n) BY <1>6, <1>7, FS_Injection
<1>9. PICK i \in S : rank[i] = k BY <1>8 DEF Surjection
<1> QED BY <1>1, <1>2, <1>9 DEF rank

(* What a panel is.                                                        *)
PanelType(p) == p \in [spec : PickerSpecs, items : Seq(Candidates), input : {p.input}, matches : Seq(Nat),
                   selected : Nat, moved : BOOLEAN, dir : {p.dir}, default : {p.default},
                   dirty : BOOLEAN, recalled : {p.recalled}]

LEMMA ScoreRange == \A s, q : ScoreItem(s, q) \in -1 .. 4
  BY DEF ScoreItem

(* A panel shows candidates it has.                                        *)
InItems(p) == \A k \in DOMAIN p.matches : p.matches[k] \in DOMAIN p.items

MatchesAre(ms, items) == ms \in Seq(Nat) /\ \A k \in DOMAIN ms : ms[k] \in DOMAIN items

LEMMA InOrder ==
    ASSUME NEW p, PanelType(p), NEW q
    PROVE  MatchesAre(MatchesInOrder(p, q), p.items)
<1> DEFINE S == Matching(p, q)
           score == [i \in S |-> ScoreItem(p.items[i].text, q)]
           group == [i \in S |-> p.items[i].group]
           before == [i \in S |-> {j \in S : ComesFirst(p, q, j, i)}]
<1>1. p.items \in Seq(Candidates) /\ p.spec \in PickerSpecs BY DEF PanelType
<1>2. S \subseteq DOMAIN p.items /\ DOMAIN p.items = 1 .. Len(p.items) /\ Len(p.items) \in Nat
  BY <1>1 DEF Matching
<1>3. IsFiniteSet(S)
  <2>1. IsFiniteSet(1 .. Len(p.items)) BY <1>2, FS_Interval
  <2> QED BY <1>2, <2>1, FS_Subset
<1>4. score \in [S -> -1 .. 4] BY ScoreRange
<1>5. group \in [S -> Nat] BY <1>1, <1>2, PickerAssumption
<1>6. S \subseteq Nat BY <1>2
<1>7. before \in [S -> SUBSET S] OBVIOUS
<1>8. ASSUME NEW i \in S, NEW j \in S
      PROVE  j \in before[i] <=> IF p.spec.headings /\ group[j] # group[i] THEN group[j] < group[i]
                                 ELSE IF score[j] # score[i] THEN score[j] > score[i] ELSE j < i
  BY DEF ComesFirst
<1> HIDE DEF S, score, group, before
<1>9. \A i \in S : i \notin before[i]
  <2> SUFFICES ASSUME NEW i \in S PROVE i \notin before[i]
    OBVIOUS
  <2>1. i \in Nat BY <1>6
  <2> QED BY <1>8, <2>1
<1>10. \A i, j \in S : i = j \/ i \in before[j] \/ j \in before[i]
  <2> SUFFICES ASSUME NEW i \in S, NEW j \in S, i # j PROVE i \in before[j] \/ j \in before[i]
    OBVIOUS
  <2>1. /\ i \in Nat /\ j \in Nat /\ group[i] \in Nat /\ group[j] \in Nat
        /\ score[i] \in -1 .. 4 /\ score[j] \in -1 .. 4
    BY <1>5, <1>4, <1>6
  <2> QED BY <1>8, <2>1
<1>11. \A i, j, k \in S : i \in before[j] /\ j \in before[k] => i \in before[k]
  BY <1>5, <1>4, <1>6, <1>8
<1>12. \A k \in 1 .. Cardinality(S) : \E i \in S : Cardinality(before[i]) = k - 1
  BY <1>3, <1>7, <1>9, <1>10, <1>11, KthExists
<1>13. \A i \in S : before[i] = {j \in S : ComesFirst(p, q, j, i)} BY DEF before
<1>14. MatchesInOrder(p, q) = [k \in 1 .. Cardinality(S) |->
                                 CHOOSE i \in S : Cardinality({j \in S : ComesFirst(p, q, j, i)}) = k - 1]
  BY DEF MatchesInOrder, S
<1>15. ASSUME NEW k \in 1 .. Cardinality(S)
       PROVE  MatchesInOrder(p, q)[k] \in S
  <2>1. \E i \in S : Cardinality({j \in S : ComesFirst(p, q, j, i)}) = k - 1 BY <1>12, <1>13
  <2>2. (CHOOSE i \in S : Cardinality({j \in S : ComesFirst(p, q, j, i)}) = k - 1) \in S BY <2>1
  <2> QED BY <1>14, <2>2
<1>16. PICK ms : ms = MatchesInOrder(p, q) OBVIOUS
<1>17. Cardinality(S) \in Nat BY <1>3, FS_CardinalityType
<1>18. DOMAIN ms = 1 .. Cardinality(S) BY <1>14, <1>16
<1>19. \A k \in 1 .. Cardinality(S) : ms[k] \in S BY <1>15, <1>16
<1>20. ms = [k \in 1 .. Cardinality(S) |-> ms[k]] BY <1>14, <1>16
<1>21. ms \in [1 .. Cardinality(S) -> Nat] BY <1>19, <1>20, <1>6
<1>22. ms \in Seq(Nat) BY <1>17, <1>21
<1> QED BY <1>2, <1>16, <1>18, <1>19, <1>22 DEF MatchesAre

(* The selection is one of the matches, or there is none; there is one if   *)
(* the name must be a candidate and some candidate matches.                *)
SelectionIn(p) == /\ p.selected \in 0 .. Len(p.matches)
                  /\ p.spec.require /\ p.matches # <<>> => p.selected > 0

LEMMA PositionIs ==
    ASSUME NEW ms \in Seq(Nat), NEW i \in ToSet(ms)
    PROVE  PositionOf(ms, i) \in DOMAIN ms /\ ms[PositionOf(ms, i)] = i
<1>1. \E k \in DOMAIN ms : ms[k] = i BY DEF ToSet
<1> QED BY <1>1 DEF PositionOf

LEMMA PreselectedIs ==
    ASSUME NEW p, PanelType(p), NEW ms \in Seq(Nat), NEW q
    PROVE  /\ Preselected(p, ms, q) \in 0 .. Len(ms)
           /\ p.spec.require /\ ms # <<>> => Preselected(p, ms, q) > 0
<1> DEFINE exact == {k \in DOMAIN ms : p.items[ms[k]].text = q}
<1>1. DOMAIN ms = 1 .. Len(ms) /\ Len(ms) \in Nat OBVIOUS
<1>2. p.spec.require => p.spec.preselect BY PickerAssumption DEF PanelType
<1>3. ms # <<>> => Len(ms) > 0 BY EmptySeq
<1>4. p.default \in ToSet(ms) => PositionOf(ms, p.default) \in 1 .. Len(ms) BY <1>1, PositionIs
<1>5. exact # {} => (CHOOSE k \in exact : \A j \in exact : k <= j) \in 1 .. Len(ms)
  <2>1. exact \subseteq Nat /\ exact \subseteq 1 .. Len(ms) BY <1>1
  <2> HIDE DEF exact
  <2>2. exact # {} => \E k \in exact : \A j \in exact : k <= j BY <2>1, LeastNumber
  <2> QED BY <2>1, <2>2
<1>6. Preselected(p, ms, q) =
        IF ms = <<>> THEN 0
        ELSE IF q = <<>>
             THEN IF p.default \in ToSet(ms) THEN PositionOf(ms, p.default)
                  ELSE IF p.spec.require THEN 1 ELSE 0
        ELSE IF exact # {} THEN CHOOSE k \in exact : \A j \in exact : k <= j
        ELSE IF p.spec.preselect /\ (\/ p.spec.require \/ p.items[ms[1]].group \in p.spec.fuzzy
                                     \/ FindSubstring(p.items[ms[1]].text, q)) THEN 1 ELSE 0
  BY DEF Preselected
<1> HIDE DEF exact
<1> QED BY <1>1, <1>2, <1>3, <1>4, <1>5, <1>6

(* Filtering changes the matches and the selection, and nothing else.       *)
SameBut(f, p) == /\ f.spec = p.spec /\ f.items = p.items /\ f.input = p.input /\ f.dir = p.dir
                 /\ f.dirty = p.dirty
Narrowed(f, p) == PanelType(f) /\ InItems(f) /\ SelectionIn(f) /\ SameBut(f, p)

LEMMA FilteredIs ==
    ASSUME NEW p, PanelType(p)
    PROVE  Narrowed(Filtered(p), p) /\ ~Filtered(p).moved
<1>1. PICK q : q = QueryText(p) OBVIOUS
<1>2. PICK ms : ms = MatchesInOrder(p, q) OBVIOUS
<1>3. MatchesAre(ms, p.items) BY <1>2, InOrder
<1>4. ms \in Seq(Nat) /\ \A k \in DOMAIN ms : ms[k] \in DOMAIN p.items BY <1>3 DEF MatchesAre
<1>5. PICK sel : sel = Preselected(p, ms, q) OBVIOUS
<1>6. sel \in 0 .. Len(ms) /\ (p.spec.require /\ ms # <<>> => sel > 0) BY <1>4, <1>5, PreselectedIs
<1>7. sel \in Nat BY <1>4, <1>6
<1>8. PICK f : f = [p EXCEPT !.matches = ms, !.selected = sel, !.moved = FALSE] OBVIOUS
<1>9. Filtered(p) = f BY <1>1, <1>2, <1>5, <1>8 DEF Filtered
<1>10. PanelType(f) BY <1>4, <1>7, <1>8 DEF PanelType
<1>11. f.matches = ms /\ f.selected = sel /\ f.moved = FALSE BY <1>8 DEF PanelType
<1>12. SameBut(f, p) BY <1>8 DEF PanelType, SameBut
<1>13. InItems(f) BY <1>4, <1>11, <1>12 DEF InItems, SameBut
<1>14. SelectionIn(f) BY <1>6, <1>11, <1>12 DEF SelectionIn, SameBut
<1> QED BY <1>9, <1>10, <1>11, <1>12, <1>13, <1>14 DEF Narrowed

(* After it, a selection that the user made is the same candidate.          *)
LEMMA KeptIs ==
    ASSUME NEW p, PanelType(p), NEW f, Narrowed(f, p), ~f.moved
    PROVE  /\ Narrowed(Kept(p, f), p)
           /\ Kept(p, f).moved =>
                p.moved /\ p.selected > 0 /\ Kept(p, f).matches[Kept(p, f).selected] = p.matches[p.selected]
<1>1. PICK keep : keep = p.matches[p.selected] OBVIOUS
<1>2. CASE ~(p.moved /\ p.selected > 0 /\ keep \in ToSet(f.matches))
  BY <1>1, <1>2 DEF Kept
<1>3. CASE p.moved /\ p.selected > 0 /\ keep \in ToSet(f.matches)
  <2>1. f.matches \in Seq(Nat) BY DEF Narrowed, PanelType
  <2>2. PICK sel : sel = PositionOf(f.matches, keep) OBVIOUS
  <2>3. sel \in DOMAIN f.matches /\ f.matches[sel] = keep BY <1>3, <2>1, <2>2, PositionIs
  <2>4. sel \in 1 .. Len(f.matches) /\ sel \in Nat BY <2>1, <2>3
  <2>5. PICK g : g = [f EXCEPT !.selected = sel, !.moved = TRUE] OBVIOUS
  <2>6. Kept(p, f) = g BY <1>1, <1>3, <2>2, <2>5 DEF Kept
  <2>7. PanelType(f) /\ SameBut(f, p) BY DEF Narrowed
  <2>8. PanelType(g) BY <2>4, <2>5, <2>7 DEF PanelType
  <2>9. SameBut(g, f) /\ g.matches = f.matches /\ g.selected = sel /\ g.moved = TRUE
    BY <2>5, <2>7 DEF PanelType, SameBut
  <2>10. SameBut(g, p) BY <2>7, <2>9 DEF SameBut
  <2>11. InItems(g) BY <2>9 DEF InItems, Narrowed, SameBut
  <2>12. SelectionIn(g) BY <2>4, <2>9 DEF SelectionIn, SameBut
  <2> QED BY <1>1, <1>3, <2>3, <2>6, <2>8, <2>9, <2>10, <2>11, <2>12 DEF Narrowed
<1> QED BY <1>2, <1>3

(* The files of a picker for files are those of the directory it is in, and *)
(* that is the one in the input, unless the list is to be made again.       *)
Placed(p) == p.spec.file => /\ p.items = Entries(p.dir)
                            /\ ~p.dirty => p.dir = SubSeq(p.input, 1, LastSlash(p.input))

(* A selection the user made is by its index among the candidates; for      *)
(* files it is the one aimed at in the directory where that was.            *)
AimedAt(items, m, aim) == m \in DOMAIN items /\ items[m].text = aim.name
OnAim(p, aim) == p.moved /\ p.selected > 0 =>
                   AimedAt(IF p.spec.file THEN Entries(aim.dir) ELSE p.items, p.matches[p.selected], aim)

PanelInv(p, aim) == PanelType(p) /\ InItems(p) /\ SelectionIn(p) /\ Placed(p) /\ OnAim(p, aim)
PanelBecomes(f, p, aim) == PanelInv(f, aim) /\ f.spec = p.spec

LEMMA EditedIs ==
    ASSUME NEW p, NEW aim, PanelInv(p, aim), NEW t
    PROVE  PanelBecomes(Edited(p, t), p, aim)
<1>1. PICK f : f = Edited(p, t) OBVIOUS
<1>2. PanelType(p) BY DEF PanelInv
<1>3. PanelType(f) BY <1>1, <1>2 DEF PanelType, Edited
<1>4. /\ f.spec = p.spec /\ f.items = p.items /\ f.matches = p.matches /\ f.selected = p.selected
      /\ f.moved = p.moved /\ f.dir = p.dir /\ f.dirty = TRUE
  BY <1>1, <1>2 DEF PanelType, Edited
<1>5. InItems(f) BY <1>4 DEF PanelInv, InItems
<1>6. SelectionIn(f) BY <1>4 DEF PanelInv, SelectionIn
<1>7. Placed(f) BY <1>4 DEF PanelInv, Placed
<1>8. OnAim(f, aim) BY <1>4 DEF PanelInv, OnAim
<1> QED BY <1>1, <1>3, <1>4, <1>5, <1>6, <1>7, <1>8 DEF PanelInv, PanelBecomes

LEMMA RecalledIs ==
    ASSUME NEW p, NEW aim, PanelInv(p, aim), NEW n
    PROVE  PanelBecomes([p EXCEPT !.recalled = n], p, aim)
<1>1. PICK f : f = [p EXCEPT !.recalled = n] OBVIOUS
<1>2. PanelType(p) BY DEF PanelInv
<1>3. PanelType(f) BY <1>1, <1>2 DEF PanelType
<1>4. /\ f.spec = p.spec /\ f.items = p.items /\ f.matches = p.matches /\ f.selected = p.selected
      /\ f.moved = p.moved /\ f.dir = p.dir /\ f.dirty = p.dirty /\ f.input = p.input
  BY <1>1, <1>2 DEF PanelType
<1>5. InItems(f) BY <1>4 DEF PanelInv, InItems
<1>6. SelectionIn(f) BY <1>4 DEF PanelInv, SelectionIn
<1>7. Placed(f) BY <1>4 DEF PanelInv, Placed
<1>8. OnAim(f, aim) BY <1>4 DEF PanelInv, OnAim
<1> QED BY <1>1, <1>3, <1>4, <1>5, <1>6, <1>7, <1>8 DEF PanelInv, PanelBecomes

(* Moving the selection, by a key or the mouse, is aiming.                  *)
LEMMA MovedIs ==
    ASSUME NEW p, NEW aim, PanelInv(p, aim), NEW i \in 1 .. Len(p.matches)
    PROVE  LET f == [p EXCEPT !.selected = i, !.moved = TRUE] IN PanelBecomes(f, p, AimAt(f))
<1>1. PICK f : f = [p EXCEPT !.selected = i, !.moved = TRUE] OBVIOUS
<1>2. PanelType(p) BY DEF PanelInv
<1>3. p.matches \in Seq(Nat) BY <1>2 DEF PanelType
<1>4. i \in Nat /\ i > 0 /\ i \in DOMAIN p.matches BY <1>3
<1>5. PanelType(f) BY <1>1, <1>2, <1>4 DEF PanelType
<1>6. /\ f.spec = p.spec /\ f.items = p.items /\ f.matches = p.matches /\ f.selected = i
      /\ f.dir = p.dir /\ f.dirty = p.dirty /\ f.input = p.input
  BY <1>1, <1>2 DEF PanelType
<1>7. InItems(f) BY <1>6 DEF PanelInv, InItems
<1>8. SelectionIn(f) BY <1>4, <1>6 DEF SelectionIn
<1>9. Placed(f) BY <1>6 DEF PanelInv, Placed
<1>10. p.matches[i] \in DOMAIN p.items BY <1>4 DEF PanelInv, InItems
<1>11. AimAt(f) = [name |-> p.items[p.matches[i]].text, dir |-> p.dir] BY <1>6 DEF AimAt, SelectedItem
<1>12. AimAt(f).name = p.items[p.matches[i]].text /\ AimAt(f).dir = p.dir BY <1>11
<1>13. p.spec.file => p.items = Entries(p.dir) BY DEF PanelInv, Placed
<1>14. OnAim(f, AimAt(f))
  <2>1. AimedAt(p.items, p.matches[i], AimAt(f)) BY <1>10, <1>12 DEF AimedAt
  <2>2. (IF p.spec.file THEN Entries(AimAt(f).dir) ELSE p.items) = p.items BY <1>12, <1>13
  <2> QED BY <1>6, <2>1, <2>2 DEF OnAim
<1> QED BY <1>1, <1>5, <1>6, <1>7, <1>8, <1>9, <1>14 DEF PanelInv, PanelBecomes

(* What the thread found goes behind, and nothing that is shown changes.    *)
ShowsStill(f, p) == /\ f.matches = p.matches /\ f.selected = p.selected /\ f.input = p.input /\ f.dir = p.dir
               /\ f.spec = p.spec
               /\ \A k \in DOMAIN p.matches : f.items[p.matches[k]] = p.items[p.matches[k]]

SourceType(s) == s \in [started : {s.started}, rest : Seq(Candidates), pending : Seq(Candidates), done : BOOLEAN]

LEMMA LongerList ==
    ASSUME NEW q \in Seq(Candidates), NEW r \in Seq(Candidates)
    PROVE  /\ q \o r \in Seq(Candidates)
           /\ \A m \in DOMAIN q : m \in DOMAIN (q \o r) /\ (q \o r)[m] = q[m]
           /\ r = <<>> => q \o r = q
<1>1. Len(q) \in Nat /\ Len(r) \in Nat OBVIOUS
<1>2. DOMAIN q = 1 .. Len(q) /\ DOMAIN (q \o r) = 1 .. Len(q) + Len(r) OBVIOUS
<1>3. \A m \in DOMAIN q : m \in DOMAIN (q \o r) BY <1>1, <1>2
<1>4. \A m \in DOMAIN q : (q \o r)[m] = q[m] BY <1>2
<1>5. q \o <<>> = q OBVIOUS
<1> QED BY <1>3, <1>4, <1>5

LEMMA MergedIs ==
    ASSUME NEW p, NEW aim, PanelInv(p, aim), NEW s, SourceType(s), p.spec.file => s.pending = <<>>
    PROVE  PanelInv(Merged(p, s), aim) /\ ShowsStill(Merged(p, s), p)
<1>1. PICK f : f = Merged(p, s) OBVIOUS
<1>2. PanelType(p) /\ s.pending \in Seq(Candidates) BY DEF PanelInv, SourceType
<1>3. PICK its : its = p.items \o s.pending OBVIOUS
<1>4. p.items \in Seq(Candidates) BY <1>2 DEF PanelType
<1>5. its \in Seq(Candidates) BY <1>2, <1>3, <1>4, LongerList
<1>6. PICK b \in BOOLEAN : b = (p.dirty \/ s.pending # <<>>) OBVIOUS
<1>7. f = [p EXCEPT !.items = its, !.dirty = b] BY <1>1, <1>3, <1>6 DEF Merged
<1>8. PanelType(f) BY <1>2, <1>5, <1>7 DEF PanelType
<1>9. /\ f.spec = p.spec /\ f.items = its /\ f.matches = p.matches /\ f.selected = p.selected
      /\ f.moved = p.moved /\ f.dir = p.dir /\ f.dirty = b /\ f.input = p.input
  BY <1>7, <1>2 DEF PanelType
<1>10. \A m \in DOMAIN p.items : m \in DOMAIN its /\ its[m] = p.items[m]
  BY <1>2, <1>3, <1>4, LongerList
<1>11. InItems(f) BY <1>9, <1>10 DEF PanelInv, InItems
<1>12. SelectionIn(f) BY <1>9 DEF PanelInv, SelectionIn
<1>13. s.pending = <<>> => its = p.items /\ (b <=> p.dirty)
  <2>1. s.pending = <<>> => its = p.items BY <1>2, <1>3, <1>4, LongerList
  <2> QED BY <1>6, <2>1
<1>14. Placed(f) BY <1>9, <1>13 DEF PanelInv, Placed
<1>15. OnAim(f, aim)
  <2>1. \A m : AimedAt(p.items, m, aim) => AimedAt(its, m, aim) BY <1>10 DEF AimedAt
  <2> QED BY <1>9, <2>1 DEF PanelInv, OnAim
<1>16. ShowsStill(f, p) BY <1>9, <1>10 DEF ShowsStill, PanelInv, InItems
<1> QED BY <1>1, <1>8, <1>11, <1>12, <1>14, <1>15, <1>16 DEF PanelInv

(* Listing another directory leaves the selection's index, and no more is   *)
(* asked of what is not filtered yet.                                      *)
LEMMA LoadedIs ==
    ASSUME NEW p, NEW aim, PanelInv(p, aim)
    PROVE  LET l == LoadDirectory(p)
           IN  /\ PanelType(l) /\ Placed(l)
               /\ l.spec = p.spec /\ l.input = p.input /\ l.matches = p.matches
               /\ l.selected = p.selected /\ l.moved = p.moved /\ l.dirty = p.dirty
               /\ ~p.spec.file \/ ~p.dirty => l = p
               /\ p.spec.file => l.dir = SubSeq(p.input, 1, LastSlash(p.input))
<1>1. PICK d : d = SubSeq(p.input, 1, LastSlash(p.input)) OBVIOUS
<1>2. PICK l : l = LoadDirectory(p) OBVIOUS
<1>3. PanelType(p) /\ Placed(p) BY DEF PanelInv
<1>4. CASE ~p.spec.file \/ p.dir = d
  BY <1>1, <1>2, <1>3, <1>4 DEF LoadDirectory
<1>5. CASE p.spec.file /\ p.dir # d
  <2>1. PICK its : its = Entries(d) OBVIOUS
  <2>2. its \in Seq(Candidates)
    <3>1. <<>> \in Seq(Candidates) OBVIOUS
    <3> QED BY <2>1, <3>1, PickerAssumption DEF Entries
  <2>3. l = [p EXCEPT !.dir = d, !.items = its] BY <1>1, <1>2, <1>5, <2>1 DEF LoadDirectory
  <2>4. PanelType(l) BY <1>3, <2>2, <2>3 DEF PanelType
  <2>5. /\ l.spec = p.spec /\ l.input = p.input /\ l.matches = p.matches
        /\ l.selected = p.selected /\ l.moved = p.moved /\ l.dirty = p.dirty
        /\ l.dir = d /\ l.items = its
    BY <1>3, <2>3 DEF PanelType
  <2>6. Placed(l) BY <1>1, <2>1, <2>5 DEF Placed
  <2>7. p.dirty BY <1>1, <1>3, <1>5 DEF Placed
  <2> QED BY <1>1, <1>2, <1>5, <2>4, <2>5, <2>6, <2>7
<1> QED BY <1>4, <1>5

CleanPanel(f, p, aim) == PanelBecomes(f, p, aim) /\ ~f.dirty

LEMMA ReshownIs ==
    ASSUME NEW p, NEW aim, PanelInv(p, aim)
    PROVE  CleanPanel(Reshown(p), p, aim)
<1>1. PICK l : l = LoadDirectory(p) OBVIOUS
<1>2. /\ PanelType(l) /\ Placed(l)
      /\ l.spec = p.spec /\ l.input = p.input /\ l.matches = p.matches
      /\ l.selected = p.selected /\ l.moved = p.moved /\ l.dirty = p.dirty
      /\ ~p.spec.file \/ ~p.dirty => l = p
      /\ p.spec.file => l.dir = SubSeq(p.input, 1, LastSlash(p.input))
  BY <1>1, LoadedIs
<1>3. CASE ~l.dirty
  BY <1>1, <1>2, <1>3 DEF Reshown, CleanPanel, PanelBecomes
<1>4. CASE l.dirty
  <2>1. PICK f : f = Filtered(l) OBVIOUS
  <2>2. Narrowed(f, l) /\ ~f.moved BY <1>2, <2>1, FilteredIs
  <2>3. PICK g : g = Kept(l, f) OBVIOUS
  <2>4. /\ Narrowed(g, l)
        /\ g.moved => l.moved /\ l.selected > 0 /\ g.matches[g.selected] = l.matches[l.selected]
    BY <1>2, <2>2, <2>3, KeptIs
  <2>5. PICK h : h = [g EXCEPT !.dirty = FALSE] OBVIOUS
  <2>6. Reshown(p) = h BY <1>1, <1>4, <2>1, <2>3, <2>5 DEF Reshown
  <2>7. PanelType(g) /\ SameBut(g, l) BY <2>4 DEF Narrowed
  <2>8. PanelType(h) BY <2>5, <2>7 DEF PanelType
  <2>9. /\ h.spec = l.spec /\ h.items = l.items /\ h.input = l.input /\ h.dir = l.dir /\ h.dirty = FALSE
        /\ h.matches = g.matches /\ h.selected = g.selected /\ h.moved = g.moved
    BY <2>5, <2>7 DEF PanelType, SameBut
  <2>10. InItems(h) BY <2>4, <2>7, <2>9 DEF Narrowed, InItems, SameBut
  <2>11. SelectionIn(h) BY <2>4, <2>7, <2>9 DEF Narrowed, SelectionIn, SameBut
  <2>12. Placed(h) BY <1>2, <2>9 DEF Placed
  <2>13. OnAim(h, aim) BY <1>2, <2>4, <2>9 DEF PanelInv, OnAim
  <2> QED BY <1>2, <2>6, <2>8, <2>9, <2>10, <2>11, <2>12, <2>13 DEF PanelInv, CleanPanel, PanelBecomes
<1> QED BY <1>3, <1>4

LEMMA BoundedIs ==
    ASSUME NEW n \in Int, NEW high \in Nat, high > 0
    PROVE  Bounded(n, 1, high) \in 1 .. high
  BY DEF Bounded

LEMMA RemovedIs ==
    ASSUME NEW p, NEW aim, PanelInv(p, aim), ~p.spec.file, p.selected > 0
    PROVE  LET r == Removed2(p) IN PanelBecomes(r, p, IF r.selected > 0 THEN AimAt(r) ELSE NotAimed)
<1>1. PICK idx : idx = p.matches[p.selected] OBVIOUS
<1>2. PanelType(p) BY DEF PanelInv
<1>3. PICK its : its = p.items OBVIOUS
<1>4. its \in Seq(Candidates) /\ p.matches \in Seq(Nat) /\ p.selected \in Nat BY <1>2, <1>3 DEF PanelType
<1>5. p.selected \in 1 .. Len(p.matches) BY <1>4 DEF PanelInv, SelectionIn
<1>6. idx \in DOMAIN its BY <1>1, <1>3, <1>4, <1>5 DEF PanelInv, InItems
<1>7. PICK left : left = RemoveAt(its, idx) OBVIOUS
<1>8. left \in Seq(Candidates)
  <2>1. idx \in 1 .. Len(its) /\ Len(its) \in Nat BY <1>4, <1>6
  <2>2. left = SubSeq(its, 1, idx - 1) \o SubSeq(its, idx + 1, Len(its)) BY <1>7 DEF RemoveAt
  <2>3. SubSeq(its, 1, idx - 1) \in Seq(Candidates) BY <1>4, <2>1
  <2>4. SubSeq(its, idx + 1, Len(its)) \in Seq(Candidates) BY <1>4, <2>1
  <2> QED BY <2>2, <2>3, <2>4
<1>9. PICK def : def = IF p.default > idx THEN p.default - 1 ELSE IF p.default = idx THEN 0 ELSE p.default
  OBVIOUS
<1>10. PICK g : g = [p EXCEPT !.items = left, !.default = def] OBVIOUS
<1>11. PanelType(g) /\ g.spec = p.spec BY <1>2, <1>8, <1>10 DEF PanelType
<1>12. PICK f : f = Filtered(g) OBVIOUS
<1>13. Narrowed(f, g) /\ ~f.moved BY <1>11, <1>12, FilteredIs
<1>14. PanelType(f) /\ InItems(f) /\ SelectionIn(f) /\ f.spec = p.spec BY <1>11, <1>13 DEF Narrowed, SameBut
<1>15. Placed(f) BY <1>14 DEF Placed
<1>16. PICK spot : spot = Bounded(p.selected, 1, Len(f.matches)) OBVIOUS
<1>17. Removed2(p) = IF f.matches = <<>> THEN f ELSE [f EXCEPT !.selected = spot, !.moved = TRUE]
  BY <1>1, <1>3, <1>7, <1>9, <1>10, <1>12, <1>16 DEF Removed2
<1>18. \A any : PanelBecomes(f, p, any) BY <1>13, <1>14, <1>15 DEF PanelInv, PanelBecomes, OnAim
<1>19. CASE f.matches = <<>>
  BY <1>17, <1>18, <1>19
<1>20. CASE f.matches # <<>>
  <2>1. f.matches \in Seq(Nat) BY <1>14 DEF PanelType
  <2>2. PICK ms : ms = f.matches OBVIOUS
  <2>3. Len(ms) \in Nat /\ Len(ms) > 0
    <3>1. ms \in Seq(Nat) BY <2>1, <2>2
    <3>2. ms # <<>> BY <1>20, <2>2
    <3>3. Len(ms) \in Nat BY <3>1
    <3>4. Len(ms) # 0 BY <3>1, <3>2, EmptySeq
    <3> QED BY <3>3, <3>4
  <2>4. spot \in 1 .. Len(f.matches)
    <3>1. PICK high : high = Len(f.matches) OBVIOUS
    <3>2. PICK sel : sel = p.selected OBVIOUS
    <3>3. sel \in Int /\ high \in Nat /\ high > 0 BY <1>4, <2>2, <2>3, <3>1, <3>2
    <3>4. Bounded(sel, 1, high) \in 1 .. high BY <3>3, BoundedIs
    <3> QED BY <1>16, <3>1, <3>2, <3>4
  <2>5. PICK r : r = [f EXCEPT !.selected = spot, !.moved = TRUE] OBVIOUS
  <2>6. PanelBecomes(r, p, AimAt(r)) BY <1>18, <2>4, <2>5, MovedIs DEF PanelBecomes
  <2>7. r.selected = spot BY <1>14, <2>5 DEF PanelType
  <2> QED BY <1>17, <1>20, <2>2, <2>3, <2>4, <2>5, <2>6, <2>7
<1> QED BY <1>19, <1>20

(* What the thread has found is taken by the panel; without one there is    *)
(* nothing.  While a key is waited for, what is drawn is the panel.         *)
SourceInv == /\ SourceType(source)
             /\ panel.spec.file => ~source.started
             /\ ~source.started => source.rest = <<>> /\ source.pending = <<>>
Drawn == step \in {"look", "wait", "wait a while"} =>
           shown = [names |-> [i \in DOMAIN panel.matches |-> panel.items[panel.matches[i]].text],
                    highlight |-> IF panel.selected = 0 THEN NoName ELSE SelectedItem(panel).text,
                    input |-> panel.input]
Undecided == step # "over" => choice = NotChosen
PickInv == PanelInv(panel, aimed) /\ SourceInv /\ Drawn /\ Undecided /\ PickedAsShown

LEMMA PickInvInit == PickerInit => PickInv
<1> SUFFICES ASSUME PickerInit PROVE PickInv
  OBVIOUS
<1>1. PICK s \in PickerSpecs :
        /\ panel = [spec |-> s, items |-> s.given, input |-> NoName, matches |-> <<>>,
                    selected |-> 0, moved |-> FALSE, dir |-> NotLoaded, default |-> s.default,
                    dirty |-> TRUE, recalled |-> 0]
        /\ source = [started |-> s.thread, rest |-> IF s.thread THEN Produced ELSE <<>>,
                     pending |-> <<>>, done |-> FALSE]
  BY DEF PickerInit
<1>2. s.given \in Seq(Candidates) /\ (s.file => s.given = <<>> /\ ~s.thread) BY PickerAssumption
<1>3. PICK noName : noName = <<>> OBVIOUS
<1>4. noName \in Seq(Nat) /\ Len(noName) = 0 /\ DOMAIN noName = {} BY <1>3
<1>5. PanelType(panel) BY <1>1, <1>2, <1>3, <1>4 DEF PanelType
<1>6. InItems(panel) BY <1>1, <1>3, <1>4 DEF InItems
<1>7. SelectionIn(panel) BY <1>1, <1>3, <1>4 DEF SelectionIn
<1>8. Placed(panel) BY <1>1, <1>2, PickerAssumption DEF Placed, Entries
<1>9. OnAim(panel, aimed) BY <1>1 DEF OnAim
<1>10. SourceInv
  <2>1. Produced \in Seq(Candidates) BY PickerAssumption
  <2>2. <<>> \in Seq(Candidates) OBVIOUS
  <2> QED BY <1>1, <1>2, <2>1, <2>2 DEF SourceInv, SourceType
<1>11. Drawn /\ Undecided /\ PickedAsShown
  BY DEF PickerInit, Drawn, Undecided, PickedAsShown, NotChosen
<1> QED BY <1>5, <1>6, <1>7, <1>8, <1>9, <1>10, <1>11 DEF PickInv, PanelInv

LEMMA RedrawKeeps == PickInv /\ Redraw => PickInv'
<1> SUFFICES ASSUME PickInv, Redraw PROVE PickInv'
  OBVIOUS
<1>1. PICK p : p = Reshown(panel) OBVIOUS
<1>2. panel' = p /\ UNCHANGED <<source, choice, aimed, typed>> /\ step' = "look" /\ step = "draw"
  BY <1>1 DEF Redraw
<1>3. shown' = [names |-> [i \in DOMAIN p.matches |-> p.items[p.matches[i]].text],
                highlight |-> IF p.selected = 0 THEN NoName ELSE SelectedItem(p).text,
                input |-> p.input]
  BY <1>1 DEF Redraw
<1>4. PanelInv(p, aimed) /\ p.spec = panel.spec BY <1>1, ReshownIs DEF PickInv, CleanPanel, PanelBecomes
<1>5. PanelInv(panel, aimed)' BY <1>2, <1>4
<1>6. SourceInv' BY <1>2, <1>4 DEF PickInv, SourceInv
<1>7. Drawn' BY <1>2, <1>3 DEF Drawn, SelectedItem
<1>8. Undecided' /\ choice = NotChosen BY <1>2 DEF PickInv, Undecided
<1>9. PickedAsShown' BY <1>2, <1>8 DEF PickedAsShown, NotChosen
<1> QED BY <1>5, <1>6, <1>7, <1>8, <1>9 DEF PickInv

LEMMA WaitingKeeps == PickInv /\ (Look \/ Produce \/ ThreadEnds \/ UNCHANGED pickerVars) => PickInv'
<1> SUFFICES ASSUME PickInv, Look \/ Produce \/ ThreadEnds \/ UNCHANGED pickerVars PROVE PickInv'
  OBVIOUS
<1>1. UNCHANGED <<panel, shown, choice, aimed>> BY DEF Look, Produce, ThreadEnds, pickerVars
<1>2. PanelInv(panel, aimed)' BY <1>1 DEF PickInv
<1>3. PickedAsShown' BY <1>1 DEF PickInv, PickedAsShown
<1>4. Drawn' BY <1>1 DEF PickInv, Drawn, Look, Produce, ThreadEnds, pickerVars, SelectedItem
<1>5. Undecided' BY <1>1 DEF PickInv, Undecided, Look, Produce, ThreadEnds, pickerVars
<1>6. SourceInv'
  <2>1. SourceType(source) /\ (panel.spec.file => ~source.started) BY DEF PickInv, SourceInv
  <2>2. CASE Look \/ UNCHANGED pickerVars BY <1>1, <2>2 DEF PickInv, SourceInv, Look, pickerVars
  <2>3. CASE Produce
    <3>1. PICK r : r = source.rest OBVIOUS
    <3>2. PICK q : q = source.pending OBVIOUS
    <3>3. r \in Seq(Candidates) /\ r # <<>> /\ q \in Seq(Candidates) BY <2>1, <2>3, <3>1, <3>2 DEF SourceType, Produce
    <3>4. PICK t : t = Tail(r) OBVIOUS
    <3>5. PICK w : w = Append(q, Head(r)) OBVIOUS
    <3>6. t \in Seq(Candidates) BY <3>3, <3>4
    <3>7. w \in Seq(Candidates)
      <4>1. Head(r) \in Candidates BY <3>3, EmptySeq
      <4> QED BY <3>3, <3>5, <4>1
    <3>8. source' = [source EXCEPT !.rest = t, !.pending = w]
      BY <2>3, <3>1, <3>2, <3>4, <3>5 DEF Produce
    <3>9. SourceType(source') BY <2>1, <3>6, <3>7, <3>8 DEF SourceType
    <3>10. source'.started = source.started BY <2>1, <3>8 DEF SourceType
    <3>11. source.started BY <2>3 DEF PickInv, SourceInv, Produce
    <3> QED BY <1>1, <2>1, <3>9, <3>10, <3>11 DEF SourceInv, SourceType
  <2>4. CASE ThreadEnds
    BY <1>1, <2>1, <2>4 DEF PickInv, SourceInv, SourceType, ThreadEnds
  <2> QED BY <2>2, <2>3, <2>4
<1> QED BY <1>2, <1>3, <1>4, <1>5, <1>6 DEF PickInv

LEMMA AtKeyIs == PickInv => PanelBecomes(AtKey, panel, aimed) /\ ShowsStill(AtKey, panel)
<1> SUFFICES ASSUME PickInv PROVE PanelBecomes(AtKey, panel, aimed) /\ ShowsStill(AtKey, panel)
  OBVIOUS
<1>1. PanelInv(panel, aimed) /\ SourceType(source) BY DEF PickInv, SourceInv
<1>2. panel.spec.file => source.pending = <<>> BY DEF PickInv, SourceInv
<1>3. PanelInv(Merged(panel, source), aimed) /\ ShowsStill(Merged(panel, source), panel) BY <1>1, <1>2, MergedIs
<1> QED BY <1>3 DEF AtKey, PanelBecomes, ShowsStill

LEMMA TakenKeeps == PickInv /\ source' \in {source, Taken(source)} /\ panel'.spec = panel.spec => SourceInv'
<1> SUFFICES ASSUME PickInv, source' \in {source, Taken(source)}, panel'.spec = panel.spec PROVE SourceInv'
  OBVIOUS
<1>1. PICK none : none = <<>> OBVIOUS
<1>2. none \in Seq(Candidates) BY <1>1
<1>3. SourceType(source) BY DEF PickInv, SourceInv
<1>4. Taken(source) = [source EXCEPT !.pending = none] BY <1>1 DEF Taken
<1>5. SourceType(Taken(source)) /\ Taken(source).pending = none /\ Taken(source).rest = source.rest
      /\ Taken(source).started = source.started
  BY <1>2, <1>3, <1>4 DEF SourceType
<1> QED BY <1>1, <1>3, <1>5 DEF PickInv, SourceInv

(* A step back to drawing keeps the invariant if it keeps the panel's.      *)
LEMMA ToDrawing ==
    /\ PickInv /\ step # "over" /\ step' \in {"draw", "merged"}
    /\ source' \in {source, Taken(source)}
    /\ PanelBecomes(panel', panel, aimed')
    /\ UNCHANGED <<shown, choice>>
    => PickInv'
<1> SUFFICES ASSUME PickInv, step # "over", step' \in {"draw", "merged"}, source' \in {source, Taken(source)},
                    PanelBecomes(panel', panel, aimed'), UNCHANGED <<shown, choice>>
             PROVE  PickInv'
  OBVIOUS
<1>1. choice = NotChosen BY DEF PickInv, Undecided
<1>2. PickedAsShown' BY <1>1 DEF PickedAsShown, NotChosen
<1>3. Drawn' /\ Undecided' BY <1>1 DEF Drawn, Undecided
<1>4. SourceInv' BY TakenKeeps DEF PanelBecomes
<1>5. PanelInv(panel, aimed)' BY DEF PanelBecomes
<1> QED BY <1>2, <1>3, <1>4, <1>5 DEF PickInv

(* So does a choice of what is shown.                                       *)
LEMMA ToTheEnd ==
    /\ PickInv /\ step' = "over"
    /\ source' \in {source, Taken(source)}
    /\ PanelBecomes(panel', panel, aimed')
    /\ PickedAsShown'
    => PickInv'
<1> SUFFICES ASSUME PickInv, step' = "over", source' \in {source, Taken(source)},
                    PanelBecomes(panel', panel, aimed'), PickedAsShown'
             PROVE  PickInv'
  OBVIOUS
<1>1. Drawn' /\ Undecided' BY DEF Drawn, Undecided
<1>2. SourceInv' BY TakenKeeps DEF PanelBecomes
<1>3. PanelInv(panel, aimed)' BY DEF PanelBecomes
<1> QED BY <1>1, <1>2, <1>3 DEF PickInv

LEMMA LoopKeeps == PickInv /\ (NoKey \/ SeeEnd) => PickInv'
<1>1. ASSUME PickInv, NoKey PROVE PickInv'
  <2>1. panel' = AtKey /\ PanelBecomes(AtKey, panel, aimed) BY <1>1, AtKeyIs DEF NoKey, AtKey
  <2>2. PanelBecomes(panel', panel, aimed') BY <1>1, <2>1 DEF NoKey
  <2> QED BY <1>1, <2>2, ToDrawing DEF NoKey
<1>2. ASSUME PickInv, SeeEnd PROVE PickInv'
  <2>1. PICK b \in BOOLEAN : b = (panel.dirty \/ source.done) OBVIOUS
  <2>2. PICK f : f = [panel EXCEPT !.dirty = b] OBVIOUS
  <2>3. panel' = f BY <1>2, <2>1, <2>2 DEF SeeEnd
  <2>4. PanelType(panel) BY <1>2 DEF PickInv, PanelInv
  <2>5. PanelType(f) BY <2>2, <2>4 DEF PanelType
  <2>6. /\ f.spec = panel.spec /\ f.items = panel.items /\ f.matches = panel.matches
        /\ f.selected = panel.selected /\ f.moved = panel.moved /\ f.dir = panel.dir
        /\ f.dirty = b /\ f.input = panel.input
    BY <2>2, <2>4 DEF PanelType
  <2>7. InItems(f) BY <1>2, <2>6 DEF PickInv, PanelInv, InItems
  <2>8. SelectionIn(f) BY <1>2, <2>6 DEF PickInv, PanelInv, SelectionIn
  <2>9. ~b => ~panel.dirty BY <2>1
  <2>10. Placed(f) BY <1>2, <2>6, <2>9 DEF PickInv, PanelInv, Placed
  <2>11. OnAim(f, aimed) BY <1>2, <2>6 DEF PickInv, PanelInv, OnAim
  <2>12. PanelBecomes(f, panel, aimed) BY <2>5, <2>6, <2>7, <2>8, <2>10, <2>11 DEF PanelBecomes, PanelInv
  <2>13. PanelBecomes(panel', panel, aimed') BY <1>2, <2>3, <2>12 DEF SeeEnd
  <2> QED BY <1>2, <2>13, ToDrawing DEF SeeEnd
<1> QED BY <1>1, <1>2

(* Keys.                                                                    *)
LEMMA EditsKeep == PickInv /\ (TypeLetter \/ Backspace \/ Complete \/ KillInput \/ Recall) => PickInv'
<1> SUFFICES ASSUME PickInv, TypeLetter \/ Backspace \/ Complete \/ KillInput \/ Recall PROVE PickInv'
  OBVIOUS
<1>1. PICK p : p = AtKey OBVIOUS
<1>2. PanelBecomes(p, panel, aimed) BY <1>1, AtKeyIs
<1>3. ASSUME NEW t PROVE PanelBecomes(Edited(p, t), panel, aimed)
  BY <1>2, EditedIs DEF PanelBecomes
<1>4. ASSUME NEW t, NEW n PROVE PanelBecomes([Edited(p, t) EXCEPT !.recalled = n], panel, aimed)
  <2>1. PICK f : f = Edited(p, t) OBVIOUS
  <2>2. PanelBecomes(f, panel, aimed) BY <1>3, <2>1
  <2>3. PanelBecomes([f EXCEPT !.recalled = n], f, aimed) BY <2>2, RecalledIs DEF PanelBecomes
  <2> QED BY <2>1, <2>2, <2>3 DEF PanelBecomes
<1>5. ASSUME NEW key, Pressed(key) PROVE source' \in {source, Taken(source)} /\ step # "over"
  BY <1>5 DEF Pressed
<1>6. ASSUME NEW key, Pressed(key), NEW g, Goes(g, aimed), PanelBecomes(g, panel, aimed) PROVE PickInv'
  BY <1>5, <1>6, ToDrawing DEF Goes
<1>7. CASE TypeLetter
  <2>1. PICK c \in Letters2 : Pressed("letter") /\ Goes(Edited(p, Append(panel.input, c)), aimed)
    BY <1>1, <1>7 DEF TypeLetter
  <2> QED BY <1>3, <1>6, <2>1
<1>8. CASE Backspace
  <2>1. PICK t : Pressed("backspace") /\ Goes(Edited(p, t), aimed) BY <1>1, <1>8 DEF Backspace
  <2> QED BY <1>3, <1>6, <2>1
<1>9. CASE Complete
  <2>1. PICK t : Pressed("tab") /\ Goes(Edited(p, t), aimed) BY <1>1, <1>9 DEF Complete
  <2> QED BY <1>3, <1>6, <2>1
<1>10. CASE KillInput
  <2>1. PICK t : Pressed("C-k") /\ Goes(Edited(p, t), aimed) BY <1>1, <1>10 DEF KillInput
  <2> QED BY <1>3, <1>6, <2>1
<1>11. CASE Recall
  <2>1. PICK n : Pressed("history") /\ Goes([Edited(p, IF n = 0 THEN <<>> ELSE Older[n]) EXCEPT !.recalled = n], aimed)
    BY <1>1, <1>11 DEF Recall
  <2>2. PICK t : t = IF n = 0 THEN <<>> ELSE Older[n] OBVIOUS
  <2>3. PICK g : g = [Edited(p, t) EXCEPT !.recalled = n] OBVIOUS
  <2>4. PanelBecomes(g, panel, aimed) BY <1>4, <2>3
  <2>5. Pressed("history") /\ Goes(g, aimed) BY <2>1, <2>2, <2>3
  <2> QED BY <1>6, <2>4, <2>5
<1> QED BY <1>7, <1>8, <1>9, <1>10, <1>11

LEMMA MoveKeeps == PickInv /\ MoveSelection => PickInv'
<1> SUFFICES ASSUME PickInv, MoveSelection PROVE PickInv'
  OBVIOUS
<1>1. PICK p : p = AtKey OBVIOUS
<1>2. PanelBecomes(p, panel, aimed) BY <1>1, AtKeyIs
<1>3. PICK delta \in {-1, 1} :
        /\ Pressed("move")
        /\ p.matches # <<>>
        /\ LET from == IF p.selected = 0 THEN IF delta > 0 THEN 0 ELSE 1 ELSE p.selected
               to == Bounded(from + delta, 1, Len(p.matches))
               q == [p EXCEPT !.selected = to, !.moved = TRUE]
           IN  Goes(q, AimAt(q))
  BY <1>1 DEF MoveSelection
<1>4. PICK from : from = IF p.selected = 0 THEN IF delta > 0 THEN 0 ELSE 1 ELSE p.selected OBVIOUS
<1>5. PICK to : to = Bounded(from + delta, 1, Len(p.matches)) OBVIOUS
<1>6. PICK q : q = [p EXCEPT !.selected = to, !.moved = TRUE] OBVIOUS
<1>7. Goes(q, AimAt(q)) BY <1>3, <1>4, <1>5, <1>6
<1>8. PICK ms : ms = p.matches OBVIOUS
<1>9. ms \in Seq(Nat) /\ p.selected \in Nat BY <1>2, <1>8 DEF PanelBecomes, PanelInv, PanelType
<1>10. ms # <<>> BY <1>3, <1>8
<1>11. Len(ms) \in Nat /\ Len(ms) > 0 BY <1>9, <1>10, EmptySeq
<1>12. from + delta \in Int BY <1>3, <1>4, <1>9
<1>13. to \in 1 .. Len(p.matches) BY <1>5, <1>8, <1>11, <1>12, BoundedIs
<1>14. PanelBecomes(q, p, AimAt(q)) BY <1>2, <1>6, <1>13, MovedIs DEF PanelBecomes
<1>15. PanelBecomes(panel', panel, aimed') BY <1>2, <1>7, <1>14 DEF PanelBecomes, Goes
<1>16. source' \in {source, Taken(source)} /\ step # "over" BY <1>3 DEF Pressed
<1> QED BY <1>7, <1>15, <1>16, ToDrawing DEF Goes

(* A match that is drawn has the name that is drawn, whatever was found     *)
(* meanwhile, and a candidate has a name.                                  *)
LEMMA ElementIs ==
    ASSUME NEW T, NEW q \in Seq(T), NEW m \in DOMAIN q
    PROVE  q[m] \in T /\ m # 0
<1>1. DOMAIN q = 1 .. Len(q) /\ Len(q) \in Nat OBVIOUS
<1> QED BY <1>1

LEMMA DrawnIs ==
    ASSUME PickInv, step \in {"wait", "wait a while"}, NEW k \in DOMAIN AtKey.matches
    PROVE  /\ AtKey.items[AtKey.matches[k]].text = shown.names[k]
           /\ shown.names[k] # NoName
           /\ AtKey.selected = k => shown.highlight = shown.names[k]
<1>1. PICK p : p = AtKey OBVIOUS
<1>2. PanelBecomes(p, panel, aimed) /\ ShowsStill(p, panel) BY <1>1, AtKeyIs
<1>3. /\ p.matches = panel.matches /\ p.selected = panel.selected
      /\ \A j \in DOMAIN panel.matches : p.items[panel.matches[j]] = panel.items[panel.matches[j]]
  BY <1>2 DEF ShowsStill
<1>4. shown = [names |-> [i \in DOMAIN panel.matches |-> panel.items[panel.matches[i]].text],
               highlight |-> IF panel.selected = 0 THEN NoName ELSE SelectedItem(panel).text,
               input |-> panel.input]
  BY DEF PickInv, Drawn
<1>5. k \in DOMAIN panel.matches BY <1>1, <1>3
<1>6. shown.names[k] = panel.items[panel.matches[k]].text BY <1>4, <1>5
<1>7. panel.items \in Seq(Candidates) /\ panel.matches[k] \in DOMAIN panel.items
  BY <1>5 DEF PickInv, PanelInv, PanelType, InItems
<1>8. panel.items[panel.matches[k]] \in Candidates
  BY <1>7, ElementIs
<1>9. panel.items[panel.matches[k]].text # NoName BY <1>8, PickerAssumption
<1>10. panel.matches \in Seq(Nat) BY DEF PickInv, PanelInv, PanelType
<1>11. k # 0 BY <1>5, <1>10, ElementIs
<1>12. p.selected = k => shown.highlight = panel.items[panel.matches[k]].text
  BY <1>3, <1>4, <1>11 DEF SelectedItem
<1> QED BY <1>1, <1>3, <1>5, <1>6, <1>9, <1>12

LEMMA ClickKeeps == PickInv /\ Click => PickInv'
<1> SUFFICES ASSUME PickInv, Click PROVE PickInv'
  OBVIOUS
<1>1. PICK p : p = AtKey OBVIOUS
<1>2. PanelBecomes(p, panel, aimed) /\ ShowsStill(p, panel) BY <1>1, AtKeyIs
<1>3. PICK i \in DOMAIN panel.matches :
        LET q == [p EXCEPT !.selected = i, !.moved = TRUE]
        IN  /\ Pressed("click")
            /\ \/ p.selected # i /\ Goes(q, AimAt(q))
               \/ /\ panel' = q /\ aimed' = AimAt(q)
                  /\ Chooses("item", FileChoice(q, SelectedItem(q)), i)
  BY <1>1 DEF Click
<1>4. PICK q : q = [p EXCEPT !.selected = i, !.moved = TRUE] OBVIOUS
<1>5. p.matches \in Seq(Nat) /\ p.matches = panel.matches BY <1>2 DEF PanelBecomes, PanelInv, PanelType, ShowsStill
<1>6. i \in 1 .. Len(p.matches) /\ i > 0 BY <1>5
<1>7. PanelBecomes(q, p, AimAt(q)) BY <1>2, <1>4, <1>6, MovedIs DEF PanelBecomes
<1>8. Pressed("click") BY <1>3
<1>9. source' \in {source, Taken(source)} /\ step \in {"wait", "wait a while"} BY <1>8 DEF Pressed
<1>10. CASE Goes(q, AimAt(q))
  <2>1. PanelBecomes(panel', panel, aimed') BY <1>2, <1>7, <1>10 DEF PanelBecomes, Goes
  <2> QED BY <1>9, <1>10, <2>1, ToDrawing DEF Goes
<1>11. CASE /\ panel' = q /\ aimed' = AimAt(q)
            /\ Chooses("item", FileChoice(q, SelectedItem(q)), i)
  <2>1. PanelBecomes(panel', panel, aimed') BY <1>2, <1>7, <1>11 DEF PanelBecomes
  <2>2. p.items[p.matches[i]].text = shown.names[i] /\ shown.names[i] # NoName BY <1>1, <1>5, <1>9, <1>6, DrawnIs
  <2>3. q.items = p.items /\ q.matches = p.matches /\ q.selected = i /\ q.dir = p.dir /\ q.spec = p.spec
    BY <1>2, <1>4 DEF PanelBecomes, PanelInv, PanelType
  <2>4. SelectedItem(q).text = shown.names[i] BY <2>2, <2>3 DEF SelectedItem
  <2>5. choice' = [kind |-> "item", text |-> FileChoice(q, SelectedItem(q)), place |-> i]
        /\ step' = "over" /\ shown' = shown
    BY <1>11 DEF Chooses
  <2>6. FileChoice(q, SelectedItem(q)) = IF q.spec.file THEN q.dir \o shown.names[i] ELSE shown.names[i]
    BY <2>4 DEF FileChoice
  <2>7. PickedAsShown' BY <1>6, <1>11, <2>2, <2>5, <2>6 DEF PickedAsShown
  <2> QED BY <1>9, <2>1, <2>5, <2>7, ToTheEnd
<1> QED BY <1>3, <1>4, <1>10, <1>11

LEMMA ChoiceKeeps == PickInv /\ (Return2 \/ UseInput \/ CancelPicker) => PickInv'
<1> SUFFICES ASSUME PickInv, Return2 \/ UseInput \/ CancelPicker PROVE PickInv'
  OBVIOUS
<1>1. PICK p : p = AtKey OBVIOUS
<1>2. PanelBecomes(p, panel, aimed) /\ ShowsStill(p, panel) BY <1>1, AtKeyIs
<1>3. panel' = p /\ aimed' = aimed /\ source' \in {source, Taken(source)} /\ step \in {"wait", "wait a while"}
  BY <1>1 DEF Return2, UseInput, CancelPicker, Pressed
<1>4. PanelBecomes(panel', panel, aimed') BY <1>2, <1>3
<1>5. p.input = shown.input /\ p.input = panel.input
  <2>1. shown = [names |-> [i \in DOMAIN panel.matches |-> panel.items[panel.matches[i]].text],
                 highlight |-> IF panel.selected = 0 THEN NoName ELSE SelectedItem(panel).text,
                 input |-> panel.input]
    BY <1>3 DEF PickInv, Drawn
  <2>2. shown.input = panel.input BY <2>1
  <2> QED BY <1>2, <2>2 DEF ShowsStill
<1>6. ASSUME Chooses("input", p.input, 0) \/ Chooses("cancel", NoName, 0) PROVE PickInv'
  <2>1. choice'.kind # "item" /\ (choice'.kind = "input" => choice'.text = shown'.input)
    <3>1. PICK inp : inp = p.input OBVIOUS
    <3>2. shown' = shown /\ \/ choice' = [kind |-> "input", text |-> inp, place |-> 0]
                            \/ choice' = [kind |-> "cancel", text |-> NoName, place |-> 0]
      BY <1>6, <3>1 DEF Chooses
    <3>3. choice'.kind = "cancel" \/ (choice'.kind = "input" /\ choice'.text = inp) BY <3>2
    <3> QED BY <1>5, <3>1, <3>2, <3>3
  <2>2. PickedAsShown' BY <2>1 DEF PickedAsShown
  <2> QED BY <1>3, <1>4, <1>6, <2>2, ToTheEnd DEF Chooses
<1>7. CASE UseInput \/ CancelPicker
  BY <1>5, <1>6, <1>7 DEF UseInput, CancelPicker
<1>8. CASE Return2
  <2>1. p.selected = 0 /\ p.spec.require => p.matches = <<>> BY <1>2 DEF PanelBecomes, PanelInv, SelectionIn
  <2>2. CASE p.selected > 0 /\ Chooses("item", FileChoice(p, SelectedItem(p)), 0)
    <3>1. p.selected \in DOMAIN p.matches BY <1>2, <2>2 DEF PanelBecomes, PanelInv, SelectionIn, PanelType
    <3>2. /\ p.items[p.matches[p.selected]].text = shown.highlight /\ shown.highlight # NoName
      BY <1>1, <1>3, <3>1, DrawnIs
    <3>3. choice' = [kind |-> "item", text |-> FileChoice(p, SelectedItem(p)), place |-> 0]
          /\ step' = "over" /\ shown' = shown
      BY <2>2 DEF Chooses
    <3>4. FileChoice(p, SelectedItem(p)) = IF p.spec.file THEN p.dir \o shown.highlight ELSE shown.highlight
      BY <3>2 DEF FileChoice, SelectedItem
    <3>5. choice'.kind = "item" /\ choice'.place = 0 /\ choice'.text = FileChoice(p, SelectedItem(p))
      BY <3>3
    <3>6. choice'.text = IF panel'.spec.file THEN panel'.dir \o shown'.highlight ELSE shown'.highlight
      BY <1>3, <3>3, <3>4, <3>5
    <3>7. PickedAsShown' BY <3>2, <3>3, <3>5, <3>6 DEF PickedAsShown
    <3> QED BY <1>3, <1>4, <3>3, <3>7, ToTheEnd
  <2>3. CASE Chooses("input", p.input, 0)
    BY <1>6, <2>3
  <2>4. CASE step' = "draw" /\ UNCHANGED <<shown, choice>>
    BY <1>3, <1>4, <2>4, ToDrawing
  <2> QED BY <1>1, <1>8, <2>1, <2>2, <2>3, <2>4 DEF Return2
<1> QED BY <1>7, <1>8

LEMMA RemoveKeeps == PickInv /\ RemoveItem => PickInv'
<1> SUFFICES ASSUME PickInv, RemoveItem PROVE PickInv'
  OBVIOUS
<1>1. PICK p : p = AtKey OBVIOUS
<1>2. PanelBecomes(p, panel, aimed) BY <1>1, AtKeyIs
<1>3. source' \in {source, Taken(source)} /\ step # "over" /\ p.spec.kill /\ p.selected > 0
  BY <1>1 DEF RemoveItem, Pressed
<1>4. CASE Goes(p, aimed)
  BY <1>2, <1>3, <1>4, ToDrawing DEF Goes
<1>5. CASE LET r == Removed2(p) IN Goes(r, IF r.selected > 0 THEN AimAt(r) ELSE NotAimed)
  <2>1. PICK r : r = Removed2(p) OBVIOUS
  <2>2. PICK aim : aim = IF r.selected > 0 THEN AimAt(r) ELSE NotAimed OBVIOUS
  <2>3. ~p.spec.file
    <3>1. p.spec \in PickerSpecs BY <1>2 DEF PanelBecomes, PanelInv, PanelType
    <3> QED BY <1>3, <3>1, PickerAssumption
  <2>4. PanelBecomes(r, p, aim) BY <1>2, <1>3, <2>1, <2>2, <2>3, RemovedIs DEF PanelBecomes
  <2>5. Goes(r, aim) BY <1>5, <2>1, <2>2
  <2>6. PanelBecomes(panel', panel, aimed') BY <1>2, <2>4, <2>5 DEF PanelBecomes, Goes
  <2> QED BY <1>3, <2>5, <2>6, ToDrawing DEF Goes
<1> QED BY <1>1, <1>4, <1>5 DEF RemoveItem

LEMMA PickInvStep == PickInv /\ [PickerNext]_pickerVars => PickInv'
  BY RedrawKeeps, WaitingKeeps, LoopKeeps, EditsKeep, MoveKeeps, ClickKeeps, ChoiceKeeps, RemoveKeeps
     DEF PickerNext, PickerLoop, PickerThread, PickerKey

LEMMA AimedIsKept == PickInv => KeepsAim
<1> SUFFICES ASSUME PickInv, panel.moved, panel.selected > 0, panel.dir = aimed.dir
             PROVE  SelectedItem(panel).text = aimed.name
  BY DEF KeepsAim
<1>1. OnAim(panel, aimed) /\ Placed(panel) BY DEF PickInv, PanelInv
<1>2. panel.spec.file => panel.items = Entries(aimed.dir) BY <1>1 DEF Placed
<1> QED BY <1>1, <1>2 DEF OnAim, AimedAt, SelectedItem

(* RET gives what the user aimed at and was shown, for every list of        *)
(* candidates, however they come in and whatever is typed (picker_run,      *)
(* filter).                                                                *)
THEOREM SelectionIsHeeded == PickerSpec => []SelectionHeeded
<1>1. PickInv => SelectionHeeded BY AimedIsKept DEF SelectionHeeded, PickInv
<1> QED BY <1>1, PickInvInit, PickInvStep, PTL DEF PickerSpec
====
