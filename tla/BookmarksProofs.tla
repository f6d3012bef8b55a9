--------------------------- MODULE BookmarksProofs --------------------------
(* Proofs about Bookmarks for any sessions, names, places and bounds.  What *)
(* Replay computes is never looked into: a save and the abstract store make *)
(* the same changes in the same list, whatever these do.                    *)
EXTENDS Bookmarks, SelectionProofs, TLAPS

PerSession(f) == f = [s \in Sessions |-> f[s]]

(* What the steps of commit need of each other.                             *)
Shape == /\ pc \in [Sessions -> PCs]
         /\ lock \in Sessions \cup {NoSession}
         /\ op \in [Sessions -> Ops] /\ PerSession(cur) /\ PerSession(marks) /\ PerSession(pending)
         /\ \A s \in Sessions : pc[s] = "off" => pending[s] = <<>>
         /\ \A s \in Quiet : pc[s] \in {"off", "idle", "keeping"}

IInv == Shape /\ LockHeld /\ NoLostUpdate

LEMMA InitIInv == Init => IInv
  BY SessionsAssumption
  DEF Init, IInv, Shape, LockHeld, NoLostUpdate, PerSession, PCs, Locked, Ops

(* The variables keep their shape.                                          *)
LEMMA ShapeStep == IInv /\ [Next]_vars => Shape'
<1> SUFFICES ASSUME IInv, [Next]_vars PROVE Shape'
  OBVIOUS
<1> USE SessionsAssumption DEF IInv, Shape, PerSession, PCs, LockHeld, Locked
<1>1. CASE UNCHANGED vars
  BY <1>1 DEF vars
<1>2. CASE OtherVersion
  BY <1>2 DEF OtherVersion
<1>3. ASSUME NEW s \in Sessions, Lock(s) \/ NoLock(s) PROVE Shape'
  BY <1>3 DEF Lock, NoLock
<1>4. ASSUME NEW s \in Sessions, Read(s) PROVE Shape'
  BY <1>4 DEF Read
<1>5. ASSUME NEW s \in Sessions, Refuse(s) \/ ReadFails(s) \/ WriteFails(s) PROVE Shape'
  BY <1>5 DEF Refuse, ReadFails, WriteFails, Unlocked
<1>6. ASSUME NEW s \in Sessions, Write(s) PROVE Shape'
  BY <1>6 DEF Write
<1>7. ASSUME NEW s \in Sessions, Adopt(s) PROVE Shape'
  BY <1>7 DEF Adopt, Cleared, Unlocked
<1>8. ASSUME NEW s \in Sessions, Remember(s) PROVE Shape'
  BY <1>8 DEF Remember
<1>9. ASSUME NEW s \in Sessions, Start(s) PROVE Shape'
  BY <1>9 DEF Start
<1>10. ASSUME NEW s \in Sessions, Revert(s) PROVE Shape'
  BY <1>10 DEF Revert
<1>11. ASSUME NEW s \in Sessions, Leave(s) PROVE Shape'
  BY <1>11 DEF Leave, Ops
<1>12. ASSUME NEW s \in Sessions, NEW o \in Ops, Command(s, o) PROVE Shape'
  BY <1>12 DEF Command
<1> QED
  BY <1>1, <1>2, <1>3, <1>4, <1>5, <1>6, <1>7, <1>8, <1>9, <1>10, <1>11, <1>12
  DEF Next, Commit

(* The lock follows the sections of commit that need it.                    *)
LEMMA LockStep == IInv /\ [Next]_vars => LockHeld'
<1> SUFFICES ASSUME IInv, [Next]_vars PROVE LockHeld'
  OBVIOUS
<1> USE SessionsAssumption DEF IInv, Shape, PCs, LockHeld, Locked
<1>1. CASE UNCHANGED vars
  BY <1>1 DEF vars
<1>2. CASE OtherVersion
  BY <1>2 DEF OtherVersion
<1>3. ASSUME NEW s \in Sessions, Lock(s) \/ NoLock(s) PROVE LockHeld'
  BY <1>3 DEF Lock, NoLock, MayLock
<1>4. ASSUME NEW s \in Sessions, Read(s) \/ Write(s) PROVE LockHeld'
  BY <1>4 DEF Read, Write
<1>5. ASSUME NEW s \in Sessions, Refuse(s) \/ ReadFails(s) \/ WriteFails(s) \/ Adopt(s) PROVE LockHeld'
  BY <1>5 DEF Refuse, ReadFails, WriteFails, Adopt, Unlocked
<1>6. ASSUME NEW s \in Sessions, Remember(s) \/ Start(s) \/ Revert(s) PROVE LockHeld'
  BY <1>6 DEF Remember, Start, Revert
<1>7. ASSUME NEW s \in Sessions, Leave(s) PROVE LockHeld'
  BY <1>7 DEF Leave
<1>8. ASSUME NEW s \in Sessions, NEW o \in Ops, Command(s, o) PROVE LockHeld'
  BY <1>8 DEF Command
<1> QED
  BY <1>1, <1>2, <1>3, <1>4, <1>5, <1>6, <1>7, <1>8 DEF Next, Commit

(* What a session read stays what the file holds until it writes: only the  *)
(* one that has the lock changes the file, and its backlog does not change  *)
(* meanwhile.                                                               *)
LEMMA UpdateStep == IInv /\ [Next]_vars => NoLostUpdate'
<1> SUFFICES ASSUME IInv, [Next]_vars, NEW t \in Sessions, pc'[t] = "writing"
             PROVE  /\ file' # Foreign
                    /\ Applies(Replay(file', pending'[t]), op'[t])
                    /\ cur'[t] = Apply(Replay(file', pending'[t]), op'[t])
  BY DEF NoLostUpdate
<1> USE SessionsAssumption DEF IInv, Shape, PerSession, PCs, LockHeld, Locked
<1> DEFINE Same == /\ pc[t] = "writing" /\ file' = file
                   /\ pending'[t] = pending[t] /\ op'[t] = op[t] /\ cur'[t] = cur[t]
<1>same. ASSUME Same
         PROVE  /\ file' # Foreign
                /\ Applies(Replay(file', pending'[t]), op'[t])
                /\ cur'[t] = Apply(Replay(file', pending'[t]), op'[t])
  BY <1>same DEF NoLostUpdate
<1>1. CASE UNCHANGED vars
  <2>1. Same
    BY <1>1 DEF vars
  <2> QED BY <1>same, <2>1
<1>2. CASE OtherVersion
  BY <1>2 DEF OtherVersion
<1>3. ASSUME NEW s \in Sessions, Lock(s) \/ NoLock(s) PROVE Same
  BY <1>3 DEF Lock, NoLock
<1>4. ASSUME NEW s \in Sessions, Read(s), s # t PROVE Same
  BY <1>4 DEF Read
<1>5. ASSUME Read(t)
      PROVE  /\ file' # Foreign
             /\ Applies(Replay(file', pending'[t]), op'[t])
             /\ cur'[t] = Apply(Replay(file', pending'[t]), op'[t])
  BY <1>5 DEF Read, Readable, Merged, Parsed
<1>6. ASSUME NEW s \in Sessions, Refuse(s) \/ ReadFails(s) \/ WriteFails(s) PROVE Same
  BY <1>6 DEF Refuse, ReadFails, WriteFails
<1>7. ASSUME NEW s \in Sessions, Write(s) PROVE FALSE
  BY <1>7 DEF Write
<1>8. ASSUME NEW s \in Sessions, Adopt(s) PROVE Same
  BY <1>8 DEF Adopt
<1>9. ASSUME NEW s \in Sessions, Remember(s) PROVE Same
  BY <1>9 DEF Remember
<1>10. ASSUME NEW s \in Sessions, Start(s) \/ Revert(s) PROVE Same
  BY <1>10 DEF Start, Revert
<1>11. ASSUME NEW s \in Sessions, Leave(s) PROVE Same
  BY <1>11 DEF Leave
<1>12. ASSUME NEW s \in Sessions, NEW o \in Ops, Command(s, o) PROVE Same
  BY <1>12 DEF Command
<1> HIDE DEF Same
<1> QED
  BY <1>same, <1>1, <1>2, <1>3, <1>4, <1>5, <1>6, <1>7, <1>8, <1>9, <1>10, <1>11, <1>12
  DEF Next, Commit

LEMMA Inductive == Spec => []IInv
<1>1. IInv /\ [Next]_vars => IInv'
  BY ShapeStep, LockStep, UpdateStep DEF IInv
<1> QED
  BY InitIInv, <1>1, PTL DEF Spec

(* The lock on the bookmarks is held by at most one session, exactly while  *)
(* it is between lock_state and close; no path out of commit keeps it.      *)
THEOREM LockIsHeld == Spec => []LockHeld
  BY Inductive, PTL DEF IInv

(* A session that renames a new bookmarks file over the old one loses no    *)
(* change another session saved.                                            *)
THEOREM UpdatesAreKept == Spec => []NoLostUpdate
  BY Inductive, PTL DEF IInv

(* No session replaces a file of another version of the format.             *)
THEOREM ForeignFilesStay == Spec => ForeignLeftAlone
<1>1. IInv /\ [Next]_vars => [file = Foreign => file' = Foreign]_vars
  BY DEF IInv, NoLostUpdate, Next, Commit, vars, OtherVersion, Start, Command, Lock, NoLock, Read,
         Refuse, ReadFails, Write, WriteFails, Adopt, Remember, Revert, Leave
<1> QED
  BY Inductive, <1>1, PTL DEF Spec, ForeignLeftAlone

-----------------------------------------------------------------------------
(* The abstract store that Bookmarks implements. *)

View == [s \in Sessions |-> IF pc[s] = "saved" THEN cur[s] ELSE marks[s]]

Owed == [s \in Sessions |-> IF pc[s] = "saved" THEN <<>> ELSE pending[s]]

LEMMA InitRefines == Init => Store!StoreInit
  BY DEF Init, Store!StoreInit

(* Steps that the store does not see.                                       *)
LEMMA Unseen ==
  ASSUME IInv, NEW s \in Sessions,
         Lock(s) \/ NoLock(s) \/ Read(s) \/ Refuse(s) \/ ReadFails(s) \/ WriteFails(s) \/ Adopt(s)
  PROVE  UNCHANGED <<file, View, Owed>>
<1> USE DEF IInv, Shape, PerSession, PCs, View, Owed
<1>1. CASE Lock(s) \/ NoLock(s)
  BY <1>1 DEF Lock, NoLock
<1>2. CASE Read(s)
  BY <1>2 DEF Read
<1>3. CASE Refuse(s) \/ ReadFails(s) \/ WriteFails(s)
  BY <1>3 DEF Refuse, ReadFails, WriteFails
<1>4. CASE Adopt(s)
  BY <1>4 DEF Adopt, Cleared
<1> QED
  BY <1>1, <1>2, <1>3, <1>4

(* The rename saves the backlog and the change.                             *)
LEMMA WriteSaves ==
  ASSUME IInv, NEW s \in Sessions, Write(s)
  PROVE  /\ s \notin Quiet
         /\ file # Foreign
         /\ Applies(Replay(file, Owed[s]), op[s])
         /\ file' = Apply(Replay(file, Owed[s]), op[s])
         /\ View' = [View EXCEPT ![s] = file']
         /\ Owed' = [Owed EXCEPT ![s] = <<>>]
<1> USE DEF IInv, Shape, PerSession, PCs, NoLostUpdate, Write, View, Owed
<1>1. pc[s] = "writing" /\ Owed[s] = pending[s]
  OBVIOUS
<1>2. file # Foreign /\ Applies(Replay(file, pending[s]), op[s])
  BY <1>1
<1>3. file' = Apply(Replay(file, pending[s]), op[s])
  BY <1>1
<1>4. View' = [View EXCEPT ![s] = file']
  OBVIOUS
<1>5. Owed' = [Owed EXCEPT ![s] = <<>>]
  OBVIOUS
<1>6. s \notin Quiet
  BY <1>1
<1> QED
  BY <1>1, <1>2, <1>3, <1>4, <1>5, <1>6

LEMMA StepRefines == IInv /\ [Next]_vars => [Store!StoreNext]_(Store!storeVars)
<1> SUFFICES ASSUME IInv, [Next]_vars
             PROVE  Store!StoreNext \/ UNCHANGED <<file, View, Owed>>
  BY DEF Store!storeVars, View, Owed
<1>1. CASE UNCHANGED vars
  BY <1>1 DEF vars, View, Owed
<1>2. CASE OtherVersion
  <2>1. Store!Replaced
    BY <1>2 DEF OtherVersion, Store!Replaced, View, Owed
  <2> QED BY <2>1 DEF Store!StoreNext
<1>3. ASSUME NEW s \in Sessions, Write(s) PROVE Store!StoreNext
  <2>1. op[s] \in Ops
    BY DEF IInv, Shape
  <2>2. Store!Save(s, op[s])
    BY <1>3, WriteSaves DEF View, Owed, Store!Save
  <2> QED BY <2>1, <2>2 DEF Store!StoreNext, Store!Save
<1>4. ASSUME NEW s \in Sessions, Remember(s) PROVE Store!StoreNext \/ UNCHANGED <<file, View, Owed>>
  <2> USE <1>4 DEF IInv, Shape, PerSession, PCs, View, Owed, Remember, Backlog
  <2>1. CASE Applies(marks[s], op[s])
    <3>1. op[s] \in Ops
      OBVIOUS
    <3>2. View[s] = marks[s] /\ Owed[s] = pending[s]
      OBVIOUS
    <3>3. View' = [View EXCEPT ![s] = Apply(View[s], op[s])]
      OBVIOUS
    <3>4. Owed' = IF s \in Quiet \/ op[s] = NoOp THEN Owed
                  ELSE [Owed EXCEPT ![s] = Append(Owed[s], op[s])]
      BY <2>1
    <3>5. Store!Keep(s, op[s])
      BY <2>1, <3>2, <3>3, <3>4 DEF Store!Keep
    <3> QED BY <3>1, <3>5 DEF Store!StoreNext, Store!Keep
  <2>2. CASE ~Applies(marks[s], op[s])
    <3>1. Apply(marks[s], op[s]) = marks[s]
      BY <2>2 DEF Apply
    <3> QED BY <2>2, <3>1
  <2> QED BY <2>1, <2>2
<1>5. ASSUME NEW s \in Sessions, Start(s) PROVE Store!StoreNext \/ UNCHANGED <<file, View, Owed>>
  <2> USE <1>5 DEF IInv, Shape, PerSession, PCs, View, Owed, Start
  <2>1. CASE UNCHANGED marks
    BY <2>1
  <2>2. CASE s \notin Quiet /\ Readable /\ marks' = [marks EXCEPT ![s] = Parsed]
    <3>1. Store!Enter(s)
      BY <2>2 DEF Store!Enter, Readable, Parsed
    <3> QED BY <3>1 DEF Store!StoreNext
  <2> QED BY <2>1, <2>2
<1>6. ASSUME NEW s \in Sessions, Revert(s) PROVE Store!StoreNext
  <2>1. Store!Show(s)
    BY <1>6 DEF IInv, Shape, PerSession, View, Owed, Revert, Reread, Readable, Parsed, Store!Show
  <2> QED BY <2>1 DEF Store!StoreNext
<1>7. ASSUME NEW s \in Sessions, Leave(s) PROVE Store!StoreNext
  <2>1. Store!Leave(s)
    BY <1>7 DEF IInv, Shape, PerSession, PCs, View, Owed, Leave, Store!Leave
  <2> QED BY <2>1 DEF Store!StoreNext
<1>8. ASSUME NEW s \in Sessions, NEW o \in Ops, Command(s, o) PROVE UNCHANGED <<file, View, Owed>>
  BY <1>8 DEF IInv, Shape, PerSession, PCs, View, Owed, Command
<1> QED
  BY <1>1, <1>2, <1>3, <1>4, <1>5, <1>6, <1>7, <1>8, Unseen DEF Next, Commit

(* Whatever fails and whichever session dies in commit, the bookmarks file  *)
(* changes as if each save were one step.                                   *)
THEOREM CommitIsAtomic == Spec => SavesAreAtomic
<1> QED
  BY InitRefines, StepRefines, Inductive, PTL DEF Spec, SavesAreAtomic, Store!StoreSpec

(* What is in the bookmarks file stays there until it is changed on         *)
(* purpose: another session's changes, and a file of another version.       *)
THEOREM FilesAreKept == Spec => FileKept
  BY UpdatesAreKept, ForeignFilesStay, PTL DEF FileKept

-----------------------------------------------------------------------------
(* What sessions show.  Here it does matter what Replay computes: that a    *)
(* change more in the backlog is a change more in the list.  Replay is a    *)
(* recursive function, of which the lemmas below prove what they need by    *)
(* the least number for which it might fail.                                *)

(* f holds the lists that making the first n changes of c in l leaves.      *)
IsRun(f, l, c, n) == f = [k \in 0 .. n |-> IF k = 0 THEN l ELSE Apply(f[k - 1], c[k])]

LEMMA RunExists ==
  ASSUME NEW l, NEW c, NEW n \in Nat
  PROVE  \E f : IsRun(f, l, c, n)
<1> DEFINE T == {m \in Nat : ~ \E f : IsRun(f, l, c, m)}
<1> SUFFICES ASSUME T # {} PROVE FALSE
  OBVIOUS
<1>1. PICK m \in T : \A y \in T : m <= y
  <2>1. T \subseteq Nat OBVIOUS
  <2> QED BY <2>1, LeastNumber
<1>2. m \in Nat /\ ~ \E f : IsRun(f, l, c, m)
  OBVIOUS
<1>3. m # 0
  <2>1. IsRun([k \in {0} |-> l], l, c, 0)
    <3>1. 0 .. 0 = {0} OBVIOUS
    <3> QED BY <3>1 DEF IsRun
  <2> QED BY <1>2, <2>1
<1>4. m - 1 \in Nat /\ m - 1 \notin T
  BY <1>1, <1>2, <1>3
<1>5. PICK g : IsRun(g, l, c, m - 1)
  BY <1>4
<1> DEFINE h == [k \in 0 .. m |-> IF k = m THEN Apply(g[m - 1], c[m]) ELSE g[k]]
<1>6. ASSUME NEW k \in 0 .. m PROVE h[k] = IF k = 0 THEN l ELSE Apply(h[k - 1], c[k])
  <2>1. CASE k = m
    <3>1. h[k] = Apply(g[m - 1], c[m]) BY <2>1
    <3>2. h[m - 1] = g[m - 1] BY <1>2, <1>3
    <3> QED BY <1>3, <2>1, <3>1, <3>2
  <2>2. CASE k # m
    <3>1. k \in 0 .. m - 1 BY <1>2, <2>2
    <3>2. g[k] = IF k = 0 THEN l ELSE Apply(g[k - 1], c[k]) BY <1>5, <3>1 DEF IsRun
    <3>3. h[k] = g[k] BY <2>2
    <3>4. k # 0 => h[k - 1] = g[k - 1] BY <1>2, <3>1
    <3> QED BY <3>2, <3>3, <3>4
  <2> QED BY <2>1, <2>2
<1>7. IsRun(h, l, c, m)
  <2> HIDE DEF h
  <2>1. h = [k \in 0 .. m |-> h[k]] BY DEF h
  <2> QED BY <1>6, <2>1 DEF IsRun
<1> QED BY <1>2, <1>7

LEMMA RunsAgree ==
  ASSUME NEW l, NEW c, NEW d, NEW n \in Nat, NEW m \in Nat, NEW f, NEW g,
         IsRun(f, l, c, n), IsRun(g, l, d, m), n <= m, \A k \in 1 .. n : c[k] = d[k]
  PROVE  f[n] = g[n]
<1> DEFINE T == {k \in 0 .. n : f[k] # g[k]}
<1> SUFFICES ASSUME T # {} PROVE FALSE
  OBVIOUS
<1>1. PICK k \in T : \A y \in T : k <= y
  <2>1. T \subseteq Nat OBVIOUS
  <2> QED BY <2>1, LeastNumber
<1>2. k \in 0 .. n /\ k \in 0 .. m /\ f[k] # g[k]
  OBVIOUS
<1>3. f[k] = (IF k = 0 THEN l ELSE Apply(f[k - 1], c[k])) BY <1>2 DEF IsRun
<1>4. g[k] = (IF k = 0 THEN l ELSE Apply(g[k - 1], d[k])) BY <1>2 DEF IsRun
<1>5. k # 0 BY <1>2, <1>3, <1>4
<1>6. k - 1 \in 0 .. n /\ k - 1 \notin T BY <1>1, <1>2, <1>5
<1>7. f[k - 1] = g[k - 1] /\ c[k] = d[k] BY <1>2, <1>5, <1>6
<1> QED BY <1>2, <1>3, <1>4, <1>5, <1>7

LEMMA ReplayRuns ==
  ASSUME NEW l, NEW c, Len(c) \in Nat
  PROVE  \E f : IsRun(f, l, c, Len(c)) /\ Replay(l, c) = f[Len(c)]
<1>1. \E f : IsRun(f, l, c, Len(c)) BY RunExists
<1> QED BY <1>1 DEF Replay, IsRun

LEMMA ReplayNone == ASSUME NEW l PROVE Replay(l, <<>>) = l
<1>1. Len(<<>>) = 0 OBVIOUS
<1>2. PICK f : IsRun(f, l, <<>>, 0) /\ Replay(l, <<>>) = f[0] BY <1>1, ReplayRuns
<1> QED BY <1>2 DEF IsRun

LEMMA ReplayOneMore ==
  ASSUME NEW S, NEW l, NEW c \in Seq(S), NEW o \in S
  PROVE  Replay(l, Append(c, o)) = Apply(Replay(l, c), o)
<1> DEFINE d == Append(c, o)
<1>1. Len(c) \in Nat /\ Len(d) = Len(c) + 1 /\ d[Len(d)] = o /\ \A k \in 1 .. Len(c) : c[k] = d[k]
  OBVIOUS
<1> HIDE DEF d
<1>2. PICK f : IsRun(f, l, c, Len(c)) /\ Replay(l, c) = f[Len(c)] BY <1>1, ReplayRuns
<1>3. PICK g : IsRun(g, l, d, Len(d)) /\ Replay(l, d) = g[Len(d)] BY <1>1, ReplayRuns
<1>4. f[Len(c)] = g[Len(c)] BY <1>1, <1>2, <1>3, RunsAgree
<1>5. g[Len(d)] = Apply(g[Len(d) - 1], d[Len(d)])
  <2>1. Len(d) \in 0 .. Len(d) /\ Len(d) # 0 BY <1>1
  <2> QED BY <1>3, <2>1 DEF IsRun
<1> QED BY <1>1, <1>2, <1>3, <1>4, <1>5 DEF d

LEMMA AppliedIsList ==
  ASSUME NEW l \in Lists, NEW o \in Ops
  PROVE  Apply(l, o) \in Lists
BY DEF Apply, Applies, Lists, Ops, NoOp

LEMMA ReplayedIsList ==
  ASSUME NEW l \in Lists, NEW c \in Seq(Ops)
  PROVE  Replay(l, c) \in Lists
<1>1. PICK f : IsRun(f, l, c, Len(c)) /\ Replay(l, c) = f[Len(c)] BY ReplayRuns
<1> DEFINE T == {k \in 0 .. Len(c) : f[k] \notin Lists}
<1>2. T = {}
  <2> SUFFICES ASSUME T # {} PROVE FALSE
    OBVIOUS
  <2>1. PICK k \in T : \A y \in T : k <= y
    <3>1. T \subseteq Nat OBVIOUS
    <3> QED BY <3>1, LeastNumber
  <2>2. k \in 0 .. Len(c) /\ f[k] \notin Lists OBVIOUS
  <2>3. f[k] = (IF k = 0 THEN l ELSE Apply(f[k - 1], c[k])) BY <1>1, <2>2 DEF IsRun
  <2>4. k # 0 BY <2>2, <2>3
  <2>5. k - 1 \in 0 .. Len(c) /\ k - 1 \notin T BY <2>1, <2>2, <2>4
  <2>6. f[k - 1] \in Lists /\ c[k] \in Ops BY <2>2, <2>4, <2>5
  <2> QED BY <2>2, <2>3, <2>4, <2>6, AppliedIsList
<1>3. Len(c) \in 0 .. Len(c) OBVIOUS
<1> QED BY <1>1, <1>2, <1>3

(* A session's list is explained by what it read also while it is not there.*)
SoundInv == Shape /\ TypeOK /\ \A s \in Sessions \ Quiet : marks[s] = Replay(seen[s], pending[s])

LEMMA SeqOfFewer ==
  ASSUME NEW S, NEW T, S \subseteq T, NEW q \in Seq(S)
  PROVE  q \in Seq(T)
  OBVIOUS

LEMMA EmptyIsList == EmptyList \in Lists
  BY DEF EmptyList, Lists

LEMMA InitSound == Init => SoundInv
<1> SUFFICES ASSUME Init PROVE SoundInv
  OBVIOUS
<1>1. Shape
  BY InitIInv DEF IInv
<1>2. TypeOK
  BY EmptyIsList, BoundsAssumption, SessionsAssumption DEF Init, TypeOK, PCs, Ops
<1>3. \A s \in Sessions \ Quiet : marks[s] = Replay(seen[s], pending[s])
  BY ReplayNone DEF Init
<1> QED BY <1>1, <1>2, <1>3 DEF SoundInv

(* The list commit is about to save is a list, and so is what is read again.*)
LEMMA MergedIsList ==
  ASSUME TypeOK, NEW s \in Sessions
  PROVE  /\ Parsed \in Lists /\ Replay(Parsed, pending[s]) \in Lists
         /\ Apply(Replay(Parsed, pending[s]), op[s]) \in Lists /\ Apply(marks[s], op[s]) \in Lists
<1>1. Parsed \in Lists
  BY EmptyIsList DEF TypeOK, Parsed
<1>2. pending[s] \in Seq(Ops)
  <2>1. pending[s] \in Seq(Ops \ {NoOp})
    BY DEF TypeOK
  <2> QED BY <2>1, SeqOfFewer
<1>3. op[s] \in Ops /\ marks[s] \in Lists
  BY DEF TypeOK
<1>4. Replay(Parsed, pending[s]) \in Lists
  BY <1>1, <1>2, ReplayedIsList
<1> QED BY <1>1, <1>3, <1>4, AppliedIsList

LEMMA TypeStep == SoundInv /\ [Next]_vars => TypeOK'
<1> SUFFICES ASSUME SoundInv, [Next]_vars PROVE TypeOK'
  OBVIOUS
<1> USE SessionsAssumption, BoundsAssumption DEF SoundInv, TypeOK, PCs
<1>0. NoOp \in Ops
  BY DEF Ops
<1>1. CASE UNCHANGED vars
  BY <1>1 DEF vars
<1>2. CASE OtherVersion
  BY <1>2 DEF OtherVersion
<1>3. ASSUME NEW s \in Sessions, Lock(s) \/ NoLock(s) PROVE TypeOK'
  BY <1>3 DEF Lock, NoLock
<1>4. ASSUME NEW s \in Sessions, Read(s) PROVE TypeOK'
  BY <1>4, MergedIsList DEF Read, Merged
<1>5. ASSUME NEW s \in Sessions, Refuse(s) \/ ReadFails(s) \/ WriteFails(s) PROVE TypeOK'
  BY <1>5 DEF Refuse, ReadFails, WriteFails, Unlocked
<1>6. ASSUME NEW s \in Sessions, Write(s) PROVE TypeOK'
  BY <1>6 DEF Write
<1>7. ASSUME NEW s \in Sessions, Adopt(s) PROVE TypeOK'
  BY <1>7 DEF Adopt, Cleared, Unlocked
<1>8. ASSUME NEW s \in Sessions, Remember(s) PROVE TypeOK'
  <2>1. Backlog(s) \in Seq(Ops \ {NoOp})
    BY DEF Backlog
  <2>2. PICK b \in Seq(Ops \ {NoOp}) : b = Backlog(s)
    BY <2>1
  <2>3. PICK l \in Lists : l = Apply(marks[s], op[s])
    BY MergedIsList
  <2>4. pending' = [pending EXCEPT ![s] = b] /\ marks' = [marks EXCEPT ![s] = l]
    BY <1>8, <2>2, <2>3 DEF Remember
  <2>5. pending' \in [Sessions -> Seq(Ops \ {NoOp})] /\ marks' \in [Sessions -> Lists]
    BY <2>4
  <2>6. /\ pc' \in [Sessions -> PCs]
        /\ UNCHANGED <<file, lock, op, cur, seen, changes>>
    BY <1>8 DEF Remember
  <2> QED BY <2>5, <2>6
<1>9. ASSUME NEW s \in Sessions, Start(s) PROVE TypeOK'
  <2>1. Parsed \in Lists
    BY <1>9, MergedIsList
  <2>2. marks' \in [Sessions -> Lists] /\ seen' \in [Sessions -> Lists]
    <3>1. CASE UNCHANGED <<marks, seen>>
      BY <3>1
    <3>2. CASE marks' = [marks EXCEPT ![s] = Parsed] /\ seen' = [seen EXCEPT ![s] = Parsed]
      BY <2>1, <3>2
    <3> QED BY <1>9, <3>1, <3>2 DEF Start
  <2>3. changes' \in 0 .. MAX_CHANGES
    BY <1>9 DEF Start, Counted
  <2>4. pc' \in [Sessions -> PCs] /\ UNCHANGED <<file, lock, op, cur, pending>>
    BY <1>9 DEF Start
  <2> QED BY <2>2, <2>3, <2>4
<1>10. ASSUME NEW s \in Sessions, Revert(s) PROVE TypeOK'
  BY <1>10, MergedIsList DEF Revert, Reread, Counted
<1>11. ASSUME NEW s \in Sessions, Leave(s) PROVE TypeOK'
  BY <1>0, <1>11, EmptyIsList DEF Leave
<1>12. ASSUME NEW s \in Sessions, NEW o \in Ops, Command(s, o) PROVE TypeOK'
  BY <1>12 DEF Command, Counted
<1> QED
  BY <1>1, <1>2, <1>3, <1>4, <1>5, <1>6, <1>7, <1>8, <1>9, <1>10, <1>11, <1>12
  DEF Next, Commit

(* Each step that changes a session's list changes what explains it: the    *)
(* list read, or the backlog.                                               *)
LEMMA ExplainedStep ==
  SoundInv /\ [Next]_vars => \A s \in Sessions \ Quiet : marks'[s] = Replay(seen'[s], pending'[s])
<1> SUFFICES ASSUME SoundInv, [Next]_vars, NEW t \in Sessions \ Quiet
             PROVE  marks'[t] = Replay(seen'[t], pending'[t])
  OBVIOUS
<1> DEFINE Explained == marks'[t] = Replay(seen'[t], pending'[t])
           Same == marks'[t] = marks[t] /\ seen'[t] = seen[t] /\ pending'[t] = pending[t]
<1>same. ASSUME Same PROVE Explained
  BY <1>same DEF SoundInv
<1> USE DEF SoundInv, TypeOK
<1>1. CASE UNCHANGED vars
  BY <1>1 DEF vars
<1>2. CASE OtherVersion
  BY <1>2 DEF OtherVersion
<1>3. ASSUME NEW s \in Sessions, Lock(s) \/ NoLock(s) \/ Read(s) \/ Refuse(s) \/ ReadFails(s)
                                 \/ Write(s) \/ WriteFails(s)
      PROVE Explained
  BY <1>3 DEF Lock, NoLock, Read, Refuse, ReadFails, Write, WriteFails
<1>4. ASSUME NEW s \in Sessions, Adopt(s) PROVE Explained
  <2>1. CASE s = t
    BY <1>4, <2>1, ReplayNone DEF Adopt, Cleared
  <2>2. CASE s # t
    BY <1>4, <2>2 DEF Adopt
  <2> QED BY <2>1, <2>2
<1>5. ASSUME NEW s \in Sessions, Remember(s) PROVE Explained
  <2>1. CASE s = t
    <3>1. marks'[t] = Apply(marks[t], op[t]) /\ seen'[t] = seen[t] /\ pending'[t] = Backlog(t)
      BY <1>5, <2>1 DEF Remember
    <3>2. CASE op[t] = NoOp \/ ~Applies(marks[t], op[t])
      BY <3>1, <3>2 DEF Apply, Backlog
    <3>3. CASE ~(op[t] = NoOp \/ ~Applies(marks[t], op[t]))
      <4>1. pending'[t] = Append(pending[t], op[t])
        BY <3>1, <3>3 DEF Backlog
      <4>2. pending[t] \in Seq(Ops \ {NoOp}) /\ op[t] \in Ops \ {NoOp}
        BY <3>3
      <4>3. Replay(seen[t], Append(pending[t], op[t])) = Apply(Replay(seen[t], pending[t]), op[t])
        BY <4>2, ReplayOneMore
      <4> QED BY <3>1, <4>1, <4>3
    <3> QED BY <3>2, <3>3
  <2>2. CASE s # t
    BY <1>5, <2>2 DEF Remember
  <2> QED BY <2>1, <2>2
<1>6. ASSUME NEW s \in Sessions, Start(s) PROVE Explained
  <2>1. CASE s = t /\ ~UNCHANGED <<marks, seen>>
    <3>1. marks'[t] = Parsed /\ seen'[t] = Parsed /\ pending'[t] = <<>>
      BY <1>6, <2>1 DEF Start, Shape
    <3> QED BY <3>1, ReplayNone
  <2>2. CASE s # t \/ UNCHANGED <<marks, seen>>
    BY <1>6, <2>2 DEF Start
  <2> QED BY <2>1, <2>2
<1>7. ASSUME NEW s \in Sessions, Revert(s) PROVE Explained
  <2>1. CASE s = t
    BY <1>7, <2>1 DEF Revert, Reread
  <2>2. CASE s # t
    BY <1>7, <2>2 DEF Revert
  <2> QED BY <2>1, <2>2
<1>8. ASSUME NEW s \in Sessions, Leave(s) PROVE Explained
  <2>1. CASE s = t
    BY <1>8, <2>1, ReplayNone DEF Leave
  <2>2. CASE s # t
    BY <1>8, <2>2 DEF Leave
  <2> QED BY <2>1, <2>2
<1>9. ASSUME NEW s \in Sessions, NEW o \in Ops, Command(s, o) PROVE Explained
  BY <1>9 DEF Command
<1> QED
  BY <1>1, <1>2, <1>3, <1>4, <1>5, <1>6, <1>7, <1>8, <1>9 DEF Next, Commit

LEMMA SoundAlways == Spec => []SoundInv
<1>1. IInv /\ SoundInv /\ [Next]_vars => SoundInv'
  BY ShapeStep, TypeStep, ExplainedStep DEF SoundInv
<1> QED
  BY InitSound, Inductive, <1>1, PTL DEF Spec

(* What a session shows is at any time what it last read or saved, with the *)
(* changes made since that are not saved in it, in order: a save that fails *)
(* at any step, a bookmark list read again and a change refused leave the   *)
(* two in step.                                                             *)
THEOREM SessionsAreSound == Spec => []SessionsSound
<1>1. SoundInv => SessionsSound
  BY DEF SoundInv, SessionsSound, MarksExplained
<1> QED
  BY SoundAlways, <1>1, PTL

-----------------------------------------------------------------------------
(* Which bookmarks a save changes *)

LEMMA OthersStay ==
  ASSUME NEW l \in Lists, NEW o \in Ops, NEW n \in Names, n \notin NamesOf(o)
  PROVE  Apply(l, o)[n] = l[n]
  BY DEF Apply, Applies, Lists, Ops, NoOp, NamesOf

LEMMA ReplayedOthersStay ==
  ASSUME NEW l \in Lists, NEW c \in Seq(Ops), NEW n \in Names,
         \A k \in 1 .. Len(c) : n \notin NamesOf(c[k])
  PROVE  Replay(l, c)[n] = l[n]
<1>1. PICK f : IsRun(f, l, c, Len(c)) /\ Replay(l, c) = f[Len(c)]
  BY ReplayRuns
<1> DEFINE T == {k \in 0 .. Len(c) : ~(f[k] \in Lists /\ f[k][n] = l[n])}
<1>2. T = {}
  <2> SUFFICES ASSUME T # {} PROVE FALSE
    OBVIOUS
  <2>1. PICK k \in T : \A y \in T : k <= y
    <3>1. T \subseteq Nat
      OBVIOUS
    <3> QED BY <3>1, LeastNumber
  <2>2. k \in 0 .. Len(c) /\ ~(f[k] \in Lists /\ f[k][n] = l[n])
    OBVIOUS
  <2>3. f[k] = IF k = 0 THEN l ELSE Apply(f[k - 1], c[k])
    BY <1>1, <2>2 DEF IsRun
  <2>4. k # 0
    BY <2>2, <2>3
  <2>5. k - 1 \in 0 .. Len(c) /\ k - 1 \notin T
    BY <2>1, <2>2, <2>4
  <2>6. f[k - 1] \in Lists /\ f[k - 1][n] = l[n]
    BY <2>5
  <2>7. c[k] \in Ops /\ n \notin NamesOf(c[k])
    BY <2>2, <2>4
  <2>8. f[k] = Apply(f[k - 1], c[k])
    BY <2>3, <2>4
  <2> QED BY <2>2, <2>6, <2>7, <2>8, AppliedIsList, OthersStay
<1>3. Len(c) \in 0 .. Len(c)
  OBVIOUS
<1> QED BY <1>1, <1>2, <1>3

(* A save changes no bookmark but those the session itself set, deleted or  *)
(* renamed since it last saved: whatever others saved meanwhile is left.    *)
THEOREM OthersBookmarksStay == Spec => OnlyOwnChanges
<1>1. IInv /\ SoundInv /\ [Next]_vars =>
        [\A s \in Sessions : pc[s] = "writing" /\ pc'[s] = "saved" =>
            \A n \in Names : file'[n] # file[n] => n \in Touched(s)]_vars
  <2> SUFFICES ASSUME IInv, SoundInv, [Next]_vars, NEW s \in Sessions,
                      pc[s] = "writing", pc'[s] = "saved", NEW n \in Names, n \notin Touched(s)
               PROVE  file'[n] = file[n]
    OBVIOUS
  <2>1. file' = cur[s]
    <3> USE DEF SoundInv, Shape, PCs
    <3>1. CASE UNCHANGED vars
      BY <3>1 DEF vars
    <3>2. ASSUME NEW t \in Sessions, Write(t) PROVE file' = cur[s]
      BY <3>2 DEF Write
    <3>3. CASE OtherVersion
      BY <3>3 DEF OtherVersion
    <3>4. ASSUME NEW t \in Sessions, Lock(t) \/ NoLock(t) \/ Read(t) \/ Refuse(t) \/ ReadFails(t)
                                     \/ WriteFails(t) \/ Adopt(t) \/ Remember(t)
          PROVE FALSE
      BY <3>4 DEF Lock, NoLock, Read, Refuse, ReadFails, WriteFails, Adopt, Remember
    <3>5. ASSUME NEW t \in Sessions, Start(t) \/ Revert(t) \/ Leave(t) PROVE FALSE
      BY <3>5 DEF Start, Revert, Leave
    <3>6. ASSUME NEW t \in Sessions, NEW o \in Ops, Command(t, o) PROVE FALSE
      BY <3>6 DEF Command
    <3> QED BY <3>1, <3>2, <3>3, <3>4, <3>5, <3>6 DEF Next, Commit
  <2>2. file \in Lists /\ cur[s] = Apply(Replay(file, pending[s]), op[s])
    BY DEF IInv, NoLostUpdate, SoundInv, TypeOK
  <2>3. pending[s] \in Seq(Ops) /\ op[s] \in Ops
    <3>1. pending[s] \in Seq(Ops \ {NoOp})
      BY DEF SoundInv, TypeOK
    <3>2. pending[s] \in Seq(Ops)
      BY <3>1, SeqOfFewer
    <3> QED BY <3>2 DEF SoundInv, TypeOK
  <2>4. n \notin NamesOf(op[s])
    BY DEF Touched
  <2>5. ASSUME NEW k \in 1 .. Len(pending[s]) PROVE n \notin NamesOf(pending[s][k])
    <3>1. pending[s][k] \in Range(pending[s])
      BY <2>3 DEF Range
    <3> QED BY <3>1 DEF Touched
  <2>6. Replay(file, pending[s])[n] = file[n] /\ Replay(file, pending[s]) \in Lists
    BY <2>2, <2>3, <2>5, ReplayedOthersStay, ReplayedIsList
  <2>7. Apply(Replay(file, pending[s]), op[s])[n] = Replay(file, pending[s])[n]
    BY <2>3, <2>4, <2>6, OthersStay
  <2> QED BY <2>1, <2>2, <2>6, <2>7
<1> QED
  BY SoundAlways, Inductive, <1>1, PTL DEF Spec, OnlyOwnChanges
=============================================================================
