------------------------ MODULE PreviewWorkersProofs ------------------------
(***************************************************************************)
(* Theorems about PreviewWorkers, for any number of workers, documents,    *)
(* windows and pages.                                                      *)
(***************************************************************************)
EXTENDS PreviewWorkers, SelectionProofs, TLAPS

(* What makes WorkersExclusive inductive: the flags that take_job reads    *)
(* under the lock say what the workers have in hand.                       *)
FlagsHold ==
    \A i \in Workers : AtWork(i) =>
        /\ job[i].doc \in busy \cup {NoDoc}
        /\ IsPdfJob(job[i]) => pdfRunning

ExclusiveInv ==
    /\ DOMAIN pc = Workers /\ DOMAIN job = Workers
    /\ FlagsHold
    /\ WorkersExclusive

(* Starting and waking threads puts none to work, and takes none from it.  *)
LEMMA SignalKeepsWork ==
    ASSUME DOMAIN pc = Workers, NEW submitted, Signal(submitted)
    PROVE  /\ DOMAIN pc' = Workers
           /\ job' = job
           /\ \A i \in Workers : AtWork(i)' <=> AtWork(i)
<1>1. job' = job
  BY DEF Signal
<1>2. CASE submitted
  <2>1. PICK S \in Startable :
              pc' = Woken([i \in Workers |-> IF i \in S THEN "loop" ELSE pc[i]])
    BY <1>2 DEF Signal
  <2>2. S \subseteq Unstarted
    BY DEF Startable, Unstarted
  <2> QED
    BY <1>1, <2>1, <2>2 DEF Woken, AtWork, Unstarted
<1>3. CASE ~ submitted
  BY <1>1, <1>3 DEF Signal, AtWork
<1> QED
  BY <1>2, <1>3

(* So a step that leaves busy and pdfRunning alone, and is that or no step *)
(* of the workers, keeps the invariant.                                    *)
LEMMA SameWork ==
    ASSUME ExclusiveInv, DOMAIN pc' = Workers, job' = job,
           \A i \in Workers : AtWork(i)' => AtWork(i),
           UNCHANGED <<busy, pdfRunning>>
    PROVE  ExclusiveInv'
  BY DEF ExclusiveInv, FlagsHold, WorkersExclusive, IsPdfJob

LEMMA ExclusiveInit == Init => ExclusiveInv
  BY DEF Init, ExclusiveInv, FlagsHold, WorkersExclusive, AtWork

LEMMA ExclusiveStep == ExclusiveInv /\ [Next]_vars => ExclusiveInv'
<1> SUFFICES ASSUME ExclusiveInv, [Next]_vars PROVE ExclusiveInv'
  OBVIOUS
<1> USE DEF ExclusiveInv
<1>1. ASSUME NEW i \in Workers, Take(i) PROVE ExclusiveInv'
  <2>1. PICK k \in Runnable :
              /\ job' = [job EXCEPT ![i] = queue[k]]
              /\ busy' = busy \cup ({queue[k].doc} \ {NoDoc})
              /\ pdfRunning' = (pdfRunning \/ IsPdfJob(queue[k]))
    BY <1>1 DEF Take
  <2>2. pc' = [pc EXCEPT ![i] = "run"] /\ ~ AtWork(i)
    BY <1>1 DEF Take, AtWork
  <2>3. queue[k].doc \notin busy /\ ~ (IsPdfJob(queue[k]) /\ pdfRunning)
    BY <2>1 DEF Runnable, CanRun
  <2>4. \A m \in Workers \ {i} : job'[m] = job[m] /\ (AtWork(m)' <=> AtWork(m))
    BY <2>1, <2>2 DEF AtWork
  <2>5. job'[i] = queue[k]
    BY <2>1
  <2>6. FlagsHold'
    BY <2>1, <2>4, <2>5 DEF FlagsHold, IsPdfJob
  <2>7. WorkersExclusive'
    BY <2>3, <2>4, <2>5 DEF FlagsHold, WorkersExclusive, IsPdfJob
  <2> QED
    BY <2>1, <2>2, <2>6, <2>7
<1>2. ASSUME NEW i \in Workers, Finish(i) PROVE ExclusiveInv'
  <2>1. /\ busy' = busy \ {job[i].doc}
        /\ pdfRunning' = (pdfRunning /\ ~ IsPdfJob(job[i]))
        /\ job' = [job EXCEPT ![i] = NoJob]
        /\ pc' = Woken([pc EXCEPT ![i] = "loop"])
        /\ AtWork(i)
    BY <1>2 DEF Finish, AtWork
  <2>2. DOMAIN pc' = Workers /\ DOMAIN job' = Workers /\ ~ AtWork(i)'
    BY <2>1 DEF Woken, AtWork
  <2>3. \A m \in Workers \ {i} : job'[m] = job[m] /\ (AtWork(m)' <=> AtWork(m))
    BY <2>1 DEF Woken, AtWork
  <2>4. FlagsHold'
    BY <2>1, <2>2, <2>3 DEF FlagsHold, WorkersExclusive, IsPdfJob
  <2>5. WorkersExclusive'
    BY <2>2, <2>3 DEF WorkersExclusive, IsPdfJob
  <2> QED
    BY <2>2, <2>4, <2>5
<1>3. ASSUME NEW i \in Workers, Sleep(i) \/ Exit(i) \/ Run(i) PROVE ExclusiveInv'
  <2>1. /\ UNCHANGED <<busy, pdfRunning, job>>
        /\ pc' = [pc EXCEPT ![i] = "wait"] \/ pc' = [pc EXCEPT ![i] = "exited"]
              \/ (AtWork(i) /\ pc' = [pc EXCEPT ![i] = "ran"])
    BY <1>3 DEF Sleep, Exit, Run, lockVars, AtWork
  <2> QED
    BY <2>1, SameWork DEF AtWork
<1>4. ASSUME NEW submitted, Signal(submitted), UNCHANGED <<busy, pdfRunning>>
      PROVE  ExclusiveInv'
  BY <1>4, SignalKeepsWork, SameWork
<1>5. ASSUME UNCHANGED <<busy, pdfRunning, workerVars>> PROVE ExclusiveInv'
  BY <1>5, SameWork DEF workerVars, AtWork
<1>6. CASE User
  <2>1. ASSUME NEW d \in Docs, NEW w \in Windows, Open(d, w) PROVE ExclusiveInv'
    BY <2>1, <1>4 DEF Open, Submit, Command
  <2>2. ASSUME NEW d \in Docs, Close(d) PROVE ExclusiveInv'
    BY <2>2, <1>4 DEF Close, Command
  <2>3. ASSUME NEW d \in Docs, Reload(d) PROVE ExclusiveInv'
    BY <2>3, <1>4 DEF Reload, Command
  <2>4. ASSUME NEW d \in Docs, NEW p \in Pages, TurnPage(d, p) PROVE ExclusiveInv'
    BY <2>4, <1>5 DEF TurnPage, Command
  <2>5. ASSUME NEW w \in Windows, NEW d \in Docs \cup {NoDoc}, Show(w, d)
        PROVE  ExclusiveInv'
    BY <2>5, <1>5 DEF Show, Command
  <2>6. ASSUME NEW w \in Windows, NEW n \in Widths, Resize(w, n) PROVE ExclusiveInv'
    BY <2>6, <1>5 DEF Resize, Command
  <2>7. CASE DeviceReset
    BY <2>7, <1>5 DEF DeviceReset, Command
  <2>8. CASE Shutdown
    <3>1. /\ UNCHANGED <<busy, pdfRunning, job>>
          /\ pc' = Woken(pc)
      BY <2>8 DEF Shutdown
    <3> QED
      BY <3>1, SameWork DEF Woken, AtWork
  <2> QED
    BY <1>6, <2>1, <2>2, <2>3, <2>4, <2>5, <2>6, <2>7, <2>8 DEF User
<1>7. CASE Main
  <2>1. CASE Poll
    BY <2>1, <1>5 DEF Poll
  <2>2. CASE ApplyResult
    BY <2>2, <1>4 DEF ApplyResult, Submit
  <2>3. CASE StartFrame
    BY <2>3, <1>5 DEF StartFrame, lockVars
  <2>4. ASSUME NEW w \in Windows, DrawPlace(w) PROVE ExclusiveInv'
    BY <2>4, <1>4 DEF DrawPlace, Submit
  <2>5. CASE EndFrame
    BY <2>5, <1>5 DEF EndFrame
  <2>6. CASE Stop
    BY <2>6, <1>5 DEF Stop, lockVars
  <2> QED
    BY <1>7, <2>1, <2>2, <2>3, <2>4, <2>5, <2>6 DEF Main
<1>8. CASE UNCHANGED vars
  BY <1>8, <1>5 DEF vars, lockVars
<1> QED
  BY <1>1, <1>2, <1>3, <1>6, <1>7, <1>8 DEF Next, Worker

(* No two workers have jobs of one document, nor are two in poppler: what  *)
(* `busy' and pdf_running are for, in gui_preview.c's take_job and worker. *)
THEOREM WorkersAreExclusive == Spec => []WorkersExclusive
<1>1. ExclusiveInv => WorkersExclusive
  BY DEF ExclusiveInv
<1> QED
  BY <1>1, ExclusiveInit, ExclusiveStep, PTL DEF Spec

-----------------------------------------------------------------------------
(* wake_pending is set exactly while an event is on its way, which makes   *)
(* ResultsAnnounced inductive.                                             *)
WakeInv ==
    /\ \/ wakePending = TRUE /\ wakeEvents = 1
       \/ wakePending = FALSE /\ wakeEvents = 0
    /\ done # <<>> /\ ~ quitting => wakePending

LEMMA WakeInit == Init => WakeInv
  BY DEF Init, WakeInv

LEMMA WakeStep == WakeInv /\ [Next]_vars => WakeInv'
<1> SUFFICES ASSUME WakeInv, [Next]_vars PROVE WakeInv'
  OBVIOUS
<1>1. ASSUME UNCHANGED <<done, wakePending, wakeEvents>>,
             quitting' = quitting \/ quitting' = TRUE
      PROVE  WakeInv'
  <2>1. quitting => quitting'
    BY <1>1, Zenon
  <2> QED
    BY <1>1, <2>1, Zenon DEF WakeInv
<1>2. ASSUME NEW i \in Workers, Worker(i) PROVE WakeInv'
  <2>1. CASE Finish(i)
    <3>1. CASE job[i].type = "free_pdf"
      <4>1. UNCHANGED <<done, wakePending, wakeEvents, quitting>>
        BY <2>1, <3>1 DEF Finish
      <4> QED
        BY <4>1, <1>1
    <3>2. CASE job[i].type # "free_pdf"
      <4>1. Announce /\ quitting' = quitting
        BY <2>1, <3>2 DEF Finish
      <4>2. CASE wakePending \/ quitting
        <5>1. UNCHANGED <<wakePending, wakeEvents>>
          BY <4>1, <4>2, Zenon DEF Announce
        <5>2. wakePending' \/ quitting'
          BY <4>1, <4>2, <5>1, Zenon
        <5> QED
          BY <5>1, <5>2, Zenon DEF WakeInv
      <4>3. CASE ~ (wakePending \/ quitting)
        <5>1. wakePending' = TRUE /\ wakeEvents' = wakeEvents + 1
          BY <4>1, <4>3, Zenon DEF Announce
        <5>2. wakeEvents = 0
          BY <4>3, Zenon DEF WakeInv
        <5>3. wakeEvents' = 1
          BY <5>1, <5>2
        <5> QED
          BY <5>1, <5>3, Zenon DEF WakeInv
      <4> QED
        BY <4>2, <4>3
    <3> QED
      BY <3>1, <3>2
  <2>2. CASE Take(i)
    BY <2>2, <1>1 DEF Take
  <2>3. CASE Sleep(i) \/ Exit(i) \/ Run(i)
    <3>1. UNCHANGED <<done, wakePending, wakeEvents, quitting>>
      BY <2>3 DEF Sleep, Exit, Run, lockVars
    <3> QED
      BY <3>1, <1>1
  <2> QED
    BY <1>2, <2>1, <2>2, <2>3 DEF Worker
<1>3. CASE User
  <2>1. ASSUME Command PROVE WakeInv'
    BY <2>1, <1>1 DEF Command
  <2>2. CASE Shutdown
    BY <2>2, <1>1 DEF Shutdown
  <2> QED
    BY <1>3, <2>1, <2>2
       DEF User, Open, Close, Reload, TurnPage, Show, Resize, DeviceReset
<1>4. CASE Main
  <2>1. CASE Poll
    <3>1. wakeEvents = 1
      BY <2>1 DEF Poll, WakeInv
    <3>2. wakeEvents' = 0 /\ done' = <<>>
      BY <2>1, <3>1 DEF Poll
    <3>3. wakePending' = FALSE
      BY <2>1, Zenon DEF Poll, AllTaken
    <3> QED
      BY <3>2, <3>3, Zenon DEF WakeInv
  <2>2. CASE ApplyResult
    BY <2>2, <1>1 DEF ApplyResult
  <2>3. CASE StartFrame
    BY <2>3, <1>1 DEF StartFrame, lockVars
  <2>4. ASSUME NEW w \in Windows, DrawPlace(w) PROVE WakeInv'
    BY <2>4, <1>1 DEF DrawPlace
  <2>5. CASE EndFrame
    BY <2>5, <1>1 DEF EndFrame
  <2>6. CASE Stop
    BY <2>6, <1>1 DEF Stop, lockVars
  <2> QED
    BY <1>4, <2>1, <2>2, <2>3, <2>4, <2>5, <2>6 DEF Main
<1>5. CASE UNCHANGED vars
  BY <1>5, <1>1 DEF vars, lockVars
<1> QED
  BY <1>2, <1>3, <1>4, <1>5 DEF Next

(* No result waits on `done' without an event that will have it polled,    *)
(* and the events do not pile up: worker's wake_pending, cleared by        *)
(* gui_preview_poll.                                                       *)
THEOREM ResultsAreAnnounced == Spec => []ResultsAnnounced
<1>1. WakeInv => ResultsAnnounced
  BY DEF WakeInv, ResultsAnnounced
<1> QED
  BY <1>1, WakeInit, WakeStep, PTL DEF Spec

-----------------------------------------------------------------------------
(* Once quitting is set the main thread does nothing but stop, and no      *)
(* thread is started.                                                      *)
QuitInv ==
    /\ DOMAIN pc = Workers
    /\ quitting \in BOOLEAN
    /\ main \in {"stopping", "stopped"} <=> quitting
    /\ decodeQuit \in BOOLEAN
    /\ decodeQuit => main = "stopped" /\ Running = {}

LEMMA QuitInit == Init => QuitInv
  BY DEF Init, QuitInv

LEMMA QuitStep == QuitInv /\ [Next]_vars => QuitInv'
<1> SUFFICES ASSUME QuitInv, [Next]_vars PROVE QuitInv'
  OBVIOUS
<1>1. ASSUME main \notin {"stopping", "stopped"}, main' \notin {"stopping", "stopped"},
             quitting' = quitting, decodeQuit' = decodeQuit, DOMAIN pc' = Workers
      PROVE  QuitInv'
  BY <1>1 DEF QuitInv
<1>2. ASSUME NEW i \in Workers, Worker(i) PROVE QuitInv'
  <2>1. UNCHANGED <<main, quitting, decodeQuit>>
    BY <1>2 DEF Worker, Take, Sleep, Exit, Run, Finish, mainVars, lockVars
  <2>2. DOMAIN pc' = Workers
    BY <1>2 DEF Worker, Take, Sleep, Exit, Run, Finish, Woken, QuitInv
  <2>3. ASSUME decodeQuit PROVE FALSE
    <3>1. Running = {}
      BY <2>3 DEF QuitInv
    <3>2. i \in Running
      BY <1>2 DEF Worker, Take, Sleep, Exit, Run, Finish, Running
    <3> QED
      BY <3>1, <3>2
  <2> QED
    BY <2>1, <2>2, <2>3 DEF QuitInv
<1>3. ASSUME NEW submitted, Signal(submitted) PROVE DOMAIN pc' = Workers
  BY <1>3 DEF Signal, Woken, QuitInv
<1>4. CASE User
  <2>1. ASSUME Command, DOMAIN pc' = Workers PROVE QuitInv'
    BY <2>1, <1>1 DEF Command
  <2>2. ASSUME NEW d \in Docs, NEW w \in Windows, Open(d, w) PROVE QuitInv'
    BY <2>2, <2>1, <1>3 DEF Open, Submit
  <2>3. ASSUME NEW d \in Docs, Close(d) \/ Reload(d) PROVE QuitInv'
    BY <2>3, <2>1, <1>3 DEF Close, Reload
  <2>4. ASSUME Command, UNCHANGED workerVars PROVE QuitInv'
    BY <2>4, <2>1 DEF workerVars, QuitInv
  <2>5. CASE Shutdown
    BY <2>5 DEF Shutdown, QuitInv, Woken
  <2> QED
    BY <1>4, <2>2, <2>3, <2>4, <2>5 DEF User, TurnPage, Show, Resize, DeviceReset
<1>5. CASE Main
  <2>1. CASE Poll
    BY <2>1, <1>1 DEF Poll, workerVars, QuitInv
  <2>2. CASE ApplyResult
    BY <2>2, <1>1, <1>3 DEF ApplyResult, Submit
  <2>3. CASE StartFrame
    BY <2>3, <1>1 DEF StartFrame, workerVars, lockVars, QuitInv
  <2>4. ASSUME NEW w \in Windows, DrawPlace(w) PROVE QuitInv'
    BY <2>4, <1>1, <1>3 DEF DrawPlace, Submit
  <2>5. CASE EndFrame
    BY <2>5, <1>1 DEF EndFrame, workerVars, QuitInv
  <2>6. CASE Stop
    BY <2>6 DEF Stop, lockVars, workerVars, QuitInv, AllStopped, Running
  <2> QED
    BY <1>5, <2>1, <2>2, <2>3, <2>4, <2>5, <2>6 DEF Main
<1>6. CASE UNCHANGED vars
  BY <1>6 DEF vars, mainVars, lockVars, workerVars, QuitInv, Running
<1> QED
  BY <1>2, <1>4, <1>5, <1>6 DEF Next

(* gui_preview_shutdown calls image_decode_quit only if no thread is left. *)
THEOREM DecodersAreOutlived == Spec => []DecodersOutlived
<1>1. QuitInv => DecodersOutlived
  BY DEF QuitInv, DecodersOutlived
<1> QED
  BY <1>1, QuitInit, QuitStep, PTL DEF Spec

(* Once quitting is set no worker takes another job, and none sends SDL an *)
(* event: the tests of `quitting' in worker.                               *)
QuietStep == quitting => /\ wakeEvents' <= wakeEvents
                         /\ \A i \in Workers : pc'[i] = "run" => pc[i] = "run"
THEOREM QuietOnceQuitting == Spec => QuietAfterQuit
<1>1. ASSUME WakeInv, QuitInv, [Next]_vars PROVE [QuietStep]_vars
  <2> SUFFICES ASSUME quitting, Next
               PROVE  /\ wakeEvents' <= wakeEvents
                      /\ \A i \in Workers : pc'[i] = "run" => pc[i] = "run"
    BY <1>1 DEF QuietStep
  <2> USE <1>1
  <2>1. main \in {"stopping", "stopped"} /\ wakeEvents \in {0, 1} /\ DOMAIN pc = Workers
    BY DEF QuitInv, WakeInv
  <2>2. ~ User
    BY <2>1 DEF User, Open, Close, Reload, TurnPage, Show, Resize, DeviceReset,
                Shutdown, Command
  <2>3. CASE Main
    <3>1. Stop
      BY <2>1, <2>3 DEF Main, Poll, ApplyResult, StartFrame, DrawPlace, EndFrame
    <3> QED
      BY <2>1, <3>1 DEF Stop, lockVars, workerVars
  <2>4. ASSUME NEW i \in Workers, Worker(i)
        PROVE  /\ wakeEvents' <= wakeEvents
               /\ \A k \in Workers : pc'[k] = "run" => pc[k] = "run"
    <3>1. CASE Finish(i)
      <4>1. wakeEvents' = wakeEvents
        BY <3>1 DEF Finish, Announce
      <4> QED
        BY <2>1, <3>1, <4>1 DEF Finish, Woken
    <3>2. CASE Exit(i) \/ Run(i)
      <4>1. wakeEvents' = wakeEvents /\ pc' \in {[pc EXCEPT ![i] = "exited"], [pc EXCEPT ![i] = "ran"]}
        BY <3>2 DEF Exit, Run, lockVars
      <4> QED
        BY <2>1, <4>1
    <3> QED
      BY <2>4, <3>1, <3>2 DEF Worker, Take, Sleep
  <2> QED
    BY <2>2, <2>3, <2>4 DEF Next
<1>2. Spec => [][QuietStep]_vars
  BY <1>1, WakeInit, WakeStep, QuitInit, QuitStep, PTL DEF Spec
<1> QED
  BY <1>2 DEF QuietAfterQuit, QuietStep

(* Shutting down leaves no thread in what is shut down: the decoders        *)
(* outlive every thread, and no thread starts anything or reaches SDL.      *)
THEOREM ShutdownLeavesNothing == Spec => ShutdownIsSafe
  BY DecodersAreOutlived, QuietOnceQuitting, PTL DEF ShutdownIsSafe

-----------------------------------------------------------------------------
(* Types.  What TypeOK says of a document is completed by its textures and *)
(* its PDF, and by what makes "the last page" a page.                      *)

Texture == [width : Widths \cup {0}, stale : BOOLEAN, now : BOOLEAN, gen : Nat]
Document == [life : {"new", "open", "closed", "freed"}, gen : Nat, refs : Int,
             state : {"loading", "ready", "failed"}, loading : BOOLEAN, mips : BOOLEAN,
             now : BOOLEAN, npages : 0 .. MAX_PAGES, page : Pages, tex : [Pages -> Texture],
             errors : SUBSET Pages, pdf : PdfFile]

(* A job as it is in the queue, and as it is when done.                    *)
Queued == {j \in Job : j.type # "none" /\ (j.type = "free_pdf" <=> j.doc = NoDoc)}
HasPages(type, d, error, n) == type = "load" /\ d \in Pdfs /\ ~ error => n > 0
Outcomes == {j \in FinishedJob : HasPages(j.type, j.doc, j.error, j.npages)}

DocsTyped ==
    /\ doc \in [Docs -> Document]
    /\ \A d \in Docs : doc[d].gen <= commands
    /\ \A d \in Pdfs : doc[d].state = "ready" => doc[d].npages > 0
ListsTyped == queue \in Seq(Queued) /\ done \in Seq(Outcomes) /\ inbox \in Seq(Outcomes)
WorkTyped ==
    /\ pc \in [Workers -> {"unstarted", "loop", "wait", "run", "ran", "exited"}]
    /\ job \in [Workers -> Job] /\ result \in [Workers -> Result]
    /\ \A i \in Workers : AtWork(i) => job[i] \in Queued
    /\ \A i \in Workers : pc[i] = "ran" =>
          HasPages(job[i].type, job[i].doc, result[i].error, result[i].npages)
MainTyped ==
    /\ view \in [Windows -> Docs \cup {NoDoc}] /\ width \in [Windows -> Widths]
    /\ commands \in 0 .. MAX_COMMANDS
    /\ main \in {"idle", "poll", "draw", "stopping", "stopped"}
    /\ main = "poll" => inbox # <<>>
    /\ main # "draw" => todo = {}
    /\ todo \subseteq Placed /\ changed \in BOOLEAN /\ dirty \in BOOLEAN /\ decodeQuit \in BOOLEAN
FlagsTyped == busy \subseteq Docs /\ pdfRunning \in BOOLEAN /\ quitting \in BOOLEAN

LEMMA PageFacts == /\ MAX_PAGES \in Nat /\ MAX_PAGES > 0 /\ 0 \in Pages /\ Pages \subseteq Nat
                   /\ NoPages \in [Pages -> Texture] /\ NoTex \in Texture
                   /\ NoPdf \in PdfFile
  BY SizesAssumption DEF Pages, NoPages, NoTex, Texture, NoPdf, PdfFile

LEMMA BlankRecord ==
    ASSUME NEW life \in {"new", "open", "closed", "freed"}
    PROVE  NoRecord(life) \in Document
<1>1. NoRecord(life) = [life |-> life, gen |-> 0, refs |-> 0, state |-> "loading", loading |-> FALSE,
                        mips |-> FALSE, now |-> FALSE, npages |-> 0, page |-> 0,
                        tex |-> NoPages, errors |-> {}, pdf |-> NoPdf]
  BY DEF NoRecord
<1>2. 0 \in 0 .. MAX_PAGES /\ 0 \in Nat /\ 0 \in Int /\ {} \in SUBSET Pages
  BY PageFacts
<1>3. NoPages \in [Pages -> Texture] /\ NoPdf \in PdfFile /\ 0 \in Pages
  BY PageFacts
<1> QED BY <1>1, <1>2, <1>3 DEF Document

(* What each operation on a document does to what the proofs look at.      *)
LEMMA Reference ==
    ASSUME NEW r \in Document
    PROVE  /\ Loading(r) \in Document
           /\ Loading(r).life = r.life /\ Loading(r).gen = r.gen /\ Loading(r).refs = r.refs + 1
           /\ Loading(r).state = r.state /\ Loading(r).npages = r.npages
           /\ Loading(r).mips = r.mips /\ Loading(r).tex = r.tex /\ Loading(r).pdf = r.pdf
           /\ Loading(r).loading = TRUE /\ Loading(r).page = r.page
<1>1. PICK n \in Int : n = r.refs + 1
  BY DEF Document
<1>2. Loading(r) = [r EXCEPT !.loading = TRUE, !.refs = n]
  BY <1>1 DEF Loading, Document
<1>3. [r EXCEPT !.loading = TRUE, !.refs = n] \in Document
  BY DEF Document
<1> QED BY <1>1, <1>2, <1>3 DEF Document

LEMMA Unreference ==
    ASSUME NEW r \in Document, NEW n \in Nat
    PROVE  /\ Unreferenced(r, n) \in Document
           /\ Unreferenced(r, n).gen <= r.gen
           /\ Unreferenced(r, n).state = "ready" => r.state = "ready" /\ Unreferenced(r, n).npages = r.npages
           /\ r.refs > n => /\ Unreferenced(r, n).life = r.life /\ Unreferenced(r, n).refs = r.refs - n
                            /\ Unreferenced(r, n).gen = r.gen /\ Unreferenced(r, n).pdf = r.pdf
                            /\ Unreferenced(r, n).tex = r.tex /\ Unreferenced(r, n).mips = r.mips
                            /\ Unreferenced(r, n).now = r.now /\ Unreferenced(r, n).loading = r.loading
                            /\ Unreferenced(r, n).page = r.page
                            /\ Unreferenced(r, n).state = r.state /\ Unreferenced(r, n).npages = r.npages
           /\ r.refs <= n => Unreferenced(r, n) = NoRecord("freed")
<1>1. r.refs \in Int /\ r.gen \in Nat
  BY DEF Document
<1>2. CASE r.refs > n
  <2>1. PICK m \in Int : m = r.refs - n
    BY <1>1
  <2>2. Unreferenced(r, n) = [r EXCEPT !.refs = m]
    BY <1>2, <2>1 DEF Unreferenced, Document
  <2>3. [r EXCEPT !.refs = m] \in Document
    BY DEF Document
  <2> QED BY <1>1, <1>2, <2>1, <2>2, <2>3 DEF Document
<1>3. CASE ~ (r.refs > n)
  <2>1. Unreferenced(r, n) = NoRecord("freed")
    BY <1>3 DEF Unreferenced
  <2>2. NoRecord("freed") \in Document
    BY BlankRecord
  <2>3. NoRecord("freed").gen = 0 /\ NoRecord("freed").state = "loading"
    BY DEF NoRecord
  <2> QED BY <1>1, <1>3, <2>1, <2>2, <2>3
<1> QED BY <1>2, <1>3

Bare(r) == r.mips = FALSE /\ r.tex = NoPages

(* The textures t are those of u, but for some that are gone, and for      *)
(* which of them were drawn in this frame.                                 *)
TexFrom(t, u) == \A p \in Pages : \/ t[p].width = 0
                                  \/ /\ t[p].width = u[p].width /\ t[p].stale = u[p].stale
                                     /\ t[p].gen = u[p].gen
Blank(r) == \A p \in Pages : r.tex[p].width = 0

(* D and E hold the same but for textures.                                 *)
OnlyTextures(D, E) ==
    /\ E \in [Docs -> Document]
    /\ \A d \in Docs : /\ E[d].life = D[d].life /\ E[d].gen = D[d].gen /\ E[d].refs = D[d].refs
                       /\ E[d].state = D[d].state /\ E[d].loading = D[d].loading
                       /\ E[d].npages = D[d].npages /\ E[d].page = D[d].page
                       /\ E[d].errors = D[d].errors /\ E[d].pdf = D[d].pdf
                       /\ TexFrom(E[d].tex, D[d].tex)
                       /\ Bare(D[d]) => Bare(E[d])

LEMMA WithoutTyped ==
    ASSUME NEW D \in [Docs -> Document], NEW ts
    PROVE  OnlyTextures(D, Without(D, ts))
<1>1. ASSUME NEW d \in Docs
      PROVE  LET r == D[d]
                 e == Without(D, ts)[d]
             IN  /\ e \in Document
                 /\ e.life = r.life /\ e.gen = r.gen /\ e.refs = r.refs
                 /\ e.state = r.state /\ e.loading = r.loading /\ e.npages = r.npages /\ e.page = r.page
                 /\ e.errors = r.errors /\ e.pdf = r.pdf
                 /\ TexFrom(e.tex, r.tex)
                 /\ Bare(r) => Bare(e)
  <2>1. PICK r \in Document : r = D[d]
    OBVIOUS
  <2>2. PICK tex : tex = [p \in Pages |-> IF <<d, p>> \in ts THEN NoTex ELSE r.tex[p]]
    OBVIOUS
  <2>3. PICK mips : mips = (r.mips /\ <<d, -1>> \notin ts)
    OBVIOUS
  <2>4. Without(D, ts)[d] = [r EXCEPT !.mips = mips, !.tex = tex]
    BY <2>1, <2>2, <2>3 DEF Without
  <2>5. tex \in [Pages -> Texture]
    BY <2>2, PageFacts DEF Document
  <2>6. mips \in BOOLEAN
    BY <2>3 DEF Document
  <2>7. Bare(r) => tex = NoPages /\ mips = FALSE
    BY <2>2, <2>3 DEF Bare, NoPages
  <2>8. /\ Without(D, ts)[d].tex = tex /\ Without(D, ts)[d].mips = mips
    BY <2>1, <2>4, <2>5, <2>6 DEF Document
  <2>9. Bare(D[d]) => Bare(Without(D, ts)[d])
    BY <2>1, <2>7, <2>8 DEF Bare
  <2>11. TexFrom(tex, r.tex)
    <3> SUFFICES ASSUME NEW p \in Pages
                 PROVE  tex[p].width = 0 \/ tex[p] = r.tex[p]
      BY DEF TexFrom
    <3>1. tex[p] = NoTex \/ tex[p] = r.tex[p]
      BY <2>2
    <3> QED BY <3>1 DEF NoTex
  <2>10. TexFrom(Without(D, ts)[d].tex, D[d].tex)
    BY <2>1, <2>8, <2>11
  <2> QED BY <2>1, <2>4, <2>5, <2>6, <2>9, <2>10 DEF Document
<1>2. Without(D, ts) = [d \in Docs |-> Without(D, ts)[d]]
  BY DEF Without
<1> QED BY <1>1, <1>2 DEF OnlyTextures

(* E is D with textures gone that were not drawn in the last frame.        *)
Slimmed(D, E) == OnlyTextures(D, E) /\ \A t \in Textures(D) : InUse(D, t) => t \in Textures(E)

LEMMA NotSlimmed ==
    ASSUME NEW D \in [Docs -> Document]
    PROVE  Slimmed(D, D)
  BY DEF Slimmed, OnlyTextures, TexFrom

LEMMA TrimmedSlims ==
    ASSUME NEW D \in [Docs -> Document], NEW E \in Trimmed(D)
    PROVE  Slimmed(D, E)
<1>1. PICK ts : ts \subseteq Evictable(D) /\ E = Without(D, ts)
  BY DEF Trimmed
<1>2. OnlyTextures(D, E)
  BY <1>1, WithoutTyped
<1>3. ASSUME NEW t \in Textures(D), InUse(D, t) PROVE t \in Textures(E)
  <2>1. t \notin ts
    BY <1>1, <1>3 DEF Evictable
  <2>2. CASE \E d \in Docs : D[d].mips /\ t = <<d, -1>>
    <3>1. PICK d \in Docs : D[d].mips /\ t = <<d, -1>> BY <2>2
    <3>2. PICK r \in Document : r = D[d] OBVIOUS
    <3>3. E[d].mips = (r.mips /\ <<d, -1>> \notin ts)
      BY <1>1, <3>2 DEF Without, Document
    <3>4. E[d].mips BY <2>1, <3>1, <3>2, <3>3
    <3> QED BY <3>1, <3>4 DEF Textures
  <2>3. CASE \E d \in Docs, p \in Pages : HasTex(D, d, p) /\ t = <<d, p>>
    <3>1. PICK d \in Docs, p \in Pages : HasTex(D, d, p) /\ t = <<d, p>> BY <2>3
    <3>2. PICK r \in Document : r = D[d] OBVIOUS
    <3>3. E[d].tex = [q \in Pages |-> IF <<d, q>> \in ts THEN NoTex ELSE r.tex[q]]
      BY <1>1, <3>2 DEF Without, Document
    <3>4. E[d].tex[p] = D[d].tex[p] BY <2>1, <3>1, <3>2, <3>3
    <3> QED BY <3>1, <3>4 DEF Textures, HasTex
  <2> QED BY <2>2, <2>3 DEF Textures
<1> QED BY <1>2, <1>3 DEF Slimmed

LEMMA Failure ==
    ASSUME NEW r \in Document
    PROVE  /\ Failed(r) \in Document /\ Bare(Failed(r)) /\ Failed(r).state = "failed"
           /\ Failed(r).life = r.life /\ Failed(r).gen = r.gen /\ Failed(r).refs = r.refs
           /\ Failed(r).pdf = r.pdf /\ Failed(r).loading = r.loading /\ Failed(r).page = r.page
<1>1. NoPages \in [Pages -> Texture]
  BY PageFacts
<1> QED BY <1>1 DEF Failed, Document, Bare

(* What a load that has ended makes of a document.                         *)
AfterLoad(d, r, j, e) ==
    /\ e \in Document /\ e.life = r.life /\ e.gen = r.gen /\ e.refs = r.refs /\ e.pdf = r.pdf
    /\ e.state = "ready" /\ d \in Pdfs => ~ j.error /\ e.npages = j.npages
    /\ e.loading = FALSE /\ e.state \in {"ready", "failed"} /\ e.page = r.page
    /\ d \in Pdfs => \A p \in Pages : e.tex[p].width = 0 \/ e.tex[p].stale
    /\ d \notin Pdfs /\ Blank(r) => Blank(e)

LEMMA LoadEnded ==
    ASSUME NEW d, NEW r \in Document, NEW j \in FinishedJob, NEW e \in FinishLoad(d, r, j)
    PROVE  AfterLoad(d, r, j, e)
<1>0. j.error \in BOOLEAN /\ j.npages \in 0 .. MAX_PAGES
  BY DEF FinishedJob
<1>1. PICK loaded \in Document :
         /\ loaded = [r EXCEPT !.loading = FALSE]
         /\ loaded.life = r.life /\ loaded.gen = r.gen /\ loaded.refs = r.refs /\ loaded.pdf = r.pdf
         /\ loaded.loading = FALSE /\ loaded.page = r.page /\ loaded.tex = r.tex
  <2>1. [r EXCEPT !.loading = FALSE] \in Document
    BY DEF Document
  <2>2. PICK l \in Document : l = [r EXCEPT !.loading = FALSE]
    BY <2>1
  <2>3. /\ l.life = r.life /\ l.gen = r.gen /\ l.refs = r.refs /\ l.pdf = r.pdf
        /\ l.loading = FALSE /\ l.page = r.page /\ l.tex = r.tex
    BY <2>2 DEF Document
  <2> QED BY <2>2, <2>3
<1>2. PICK tex : tex = Reloaded(r, j.npages)
  OBVIOUS
<1>3. tex \in [Pages -> Texture]
  <2>1. r.tex \in [Pages -> Texture]
    BY DEF Document
  <2>2. ASSUME NEW p \in Pages
        PROVE  (IF p >= j.npages \/ r.tex[p] = NoTex THEN NoTex ELSE [r.tex[p] EXCEPT !.stale = TRUE]) \in Texture
    <3>1. PICK t \in Texture : t = r.tex[p]
      BY <2>1
    <3>2. [t EXCEPT !.stale = TRUE] \in Texture
      BY DEF Texture
    <3> QED BY <3>1, <3>2, PageFacts
  <2> QED BY <1>2, <2>2 DEF Reloaded
<1>8. \A p \in Pages : tex[p].width = 0 \/ tex[p].stale
  <2> SUFFICES ASSUME NEW p \in Pages PROVE tex[p].width = 0 \/ tex[p].stale
    OBVIOUS
  <2>1. PICK t \in Texture : t = r.tex[p] BY DEF Document
  <2>2. tex[p] = NoTex \/ tex[p] = [t EXCEPT !.stale = TRUE] BY <1>2, <2>1 DEF Reloaded
  <2> QED BY <2>1, <2>2 DEF Texture, NoTex
<1>4. CASE e = Failed(loaded)
  <2>2. e.tex = NoPages
    BY <1>1, <1>4, Failure DEF Bare
  <2>1. \A p \in Pages : e.tex[p].width = 0
    BY <2>2 DEF NoPages, NoTex
  <2> QED BY <1>1, <1>4, <2>1, Failure DEF AfterLoad, Blank
<1>5. CASE d \in Pdfs /\ e = [loaded EXCEPT !.state = "ready", !.npages = j.npages, !.tex = tex] /\ ~ j.error
  BY <1>0, <1>1, <1>3, <1>5, <1>8 DEF Document, AfterLoad
<1>6. CASE d \notin Pdfs /\ e = [loaded EXCEPT !.state = "ready", !.mips = TRUE]
  BY <1>1, <1>6 DEF Document, AfterLoad, Blank
<1>7. \/ e = Failed(loaded)
      \/ d \in Pdfs /\ e = [loaded EXCEPT !.state = "ready", !.npages = j.npages, !.tex = tex] /\ ~ j.error
      \/ d \notin Pdfs /\ e = [loaded EXCEPT !.state = "ready", !.mips = TRUE]
  BY <1>1, <1>2 DEF FinishLoad
<1> QED BY <1>4, <1>5, <1>6, <1>7 DEF AfterLoad

(* And a page that was rendered, or was not.                               *)
LEMMA RenderEnded ==
    ASSUME NEW r \in Document, NEW j \in FinishedJob, j.pdf.gen \in Nat, NEW e \in FinishRender(r, j)
    PROVE  /\ e \in Document /\ e.life = r.life /\ e.gen = r.gen /\ e.refs = r.refs /\ e.pdf = r.pdf
           /\ e.state = r.state /\ e.npages = r.npages /\ e.mips = r.mips /\ e.now = r.now
           /\ e.loading = r.loading /\ e.page = r.page
           /\ \A p \in Pages : p # j.page => e.tex[p] = r.tex[p]
           /\ \A p \in Pages : \/ e.tex[p] = r.tex[p] \/ e.tex[p].width = 0
                              \/ e.tex[p].gen = j.pdf.gen
<1>1. j.page \in Pages /\ j.width \in Widths \cup {0}
  BY DEF FinishedJob
<1>2. r.tex \in [Pages -> Texture] /\ r.errors \in SUBSET Pages
  BY DEF Document
<1>3. PICK errors \in SUBSET Pages : errors = r.errors \cup {j.page}
  BY <1>1, <1>2
<1>4. ASSUME NEW t \in Texture
      PROVE  [r.tex EXCEPT ![j.page] = t] \in [Pages -> Texture]
  BY <1>1, <1>2, <1>4
<1>5. PICK done1 : done1 = Rendered(j, r.tex[j.page])
  OBVIOUS
<1>6. done1 \in Texture
  BY <1>1, <1>5 DEF Rendered, Texture
<1>7. PICK t1, t2 : /\ t1 = [r.tex EXCEPT ![j.page] = NoTex]
                    /\ t2 = [r.tex EXCEPT ![j.page] = done1]
  OBVIOUS
<1>8. t1 \in [Pages -> Texture] /\ t2 \in [Pages -> Texture]
  BY <1>4, <1>6, <1>7, PageFacts
<1>9. \A p \in Pages : p # j.page => t1[p] = r.tex[p] /\ t2[p] = r.tex[p]
  BY <1>1, <1>2, <1>7
<1>14. \A p \in Pages : /\ t1[p] = r.tex[p] \/ t1[p].width = 0
                        /\ t2[p] = r.tex[p] \/ t2[p].gen = j.pdf.gen
  BY <1>1, <1>2, <1>5, <1>7 DEF NoTex, Rendered
<1>10. \/ e = r
       \/ e = [r EXCEPT !.errors = errors, !.tex = t1]
       \/ e = [r EXCEPT !.tex = t2]
  <2>1. [r EXCEPT !.errors = @ \cup {j.page}, !.tex[j.page] = NoTex] = [r EXCEPT !.errors = errors, !.tex = t1]
    BY <1>3, <1>7 DEF Document
  <2>2. [r EXCEPT !.tex[j.page] = Rendered(j, @)] = [r EXCEPT !.tex = t2]
    BY <1>5, <1>7 DEF Document, Rendered
  <2> QED BY <2>1, <2>2 DEF FinishRender
<1>11. CASE e = r BY <1>11
<1>12. CASE e = [r EXCEPT !.errors = errors, !.tex = t1]
  <2>1. /\ e \in Document /\ e.life = r.life /\ e.gen = r.gen /\ e.refs = r.refs /\ e.pdf = r.pdf
        /\ e.state = r.state /\ e.npages = r.npages /\ e.mips = r.mips /\ e.now = r.now
        /\ e.loading = r.loading /\ e.page = r.page /\ e.tex = t1
    BY <1>3, <1>8, <1>12 DEF Document
  <2> QED BY <1>9, <1>14, <2>1
<1>13. CASE e = [r EXCEPT !.tex = t2]
  BY <1>8, <1>9, <1>13, <1>14 DEF Document
<1> QED BY <1>10, <1>11, <1>12, <1>13

-----------------------------------------------------------------------------
(* The queue.                                                              *)
JobsOf(d) == {j \in Queued \cup Outcomes : j.doc = d}

LEMMA NewJobs ==
    ASSUME NEW d \in Docs, NEW g \in Nat, NEW pdf \in PdfFile, NEW prio \in {0, 1},
           NEW p \in Pages, NEW w \in Widths
    PROVE  /\ LoadJob(d, g) \in Queued /\ FreeJob(pdf) \in Queued
           /\ NewJob("render", d, g, prio, p, w) \in Queued
           /\ LoadJob(d, g).doc = d /\ LoadJob(d, g).by = NoWorker /\ LoadJob(d, g).type = "load"
           /\ FreeJob(pdf).doc = NoDoc /\ FreeJob(pdf).by = NoWorker
           /\ FreeJob(pdf).type = "free_pdf" /\ FreeJob(pdf).pdf = pdf
           /\ NewJob("render", d, g, prio, p, w).doc = d
           /\ NewJob("render", d, g, prio, p, w).by = NoWorker
           /\ NewJob("render", d, g, prio, p, w).type = "render"
<1>1. 0 \in Pages /\ 0 \in {0, 1} /\ 0 \in Nat /\ NoPdf \in PdfFile /\ d # NoDoc
  BY PageFacts, DocsAssumption
<1>2. LoadJob(d, g) = [type |-> "load", doc |-> d, gen |-> g, prio |-> 0, page |-> 0, width |-> 0,
                       by |-> NoWorker, pdf |-> NoPdf]
  BY DEF LoadJob, NewJob
<1>3. FreeJob(pdf) = [type |-> "free_pdf", doc |-> NoDoc, gen |-> 0, prio |-> 0, page |-> 0, width |-> 0,
                      by |-> NoWorker, pdf |-> pdf]
  BY DEF FreeJob, NewJob
<1>4. NewJob("render", d, g, prio, p, w) =
        [type |-> "render", doc |-> d, gen |-> g, prio |-> prio, page |-> p, width |-> w,
         by |-> NoWorker, pdf |-> NoPdf]
  BY DEF NewJob
<1>5. LoadJob(d, g) \in Queued
  BY <1>1, <1>2 DEF Queued, Job
<1>6. FreeJob(pdf) \in Queued
  BY <1>1, <1>3 DEF Queued, Job
<1>7. NewJob("render", d, g, prio, p, w) \in Queued
  BY <1>1, <1>4 DEF Queued, Job
<1> QED BY <1>2, <1>3, <1>4, <1>5, <1>6, <1>7

(* r is the queue q, the waiting jobs perhaps changed, with more waiting   *)
(* jobs of d, of the types ts, at the end.                                 *)
MoreOf(r, q, d, ts) ==
    /\ r \in Seq(Queued) /\ Len(q) <= Len(r)
    /\ \A e \in Docs : HowMany(r, JobsOf(e)) =
                          HowMany(q, JobsOf(e)) + (IF e = d THEN Len(r) - Len(q) ELSE 0)
    /\ \A k \in 1 .. Len(q) : /\ r[k].by = q[k].by /\ r[k].doc = q[k].doc
                              /\ r[k].type = q[k].type /\ r[k].pdf = q[k].pdf
    /\ \A k \in Len(q) + 1 .. Len(r) : r[k].by = NoWorker /\ r[k].doc = d /\ r[k].type \in ts

LEMMA NoMore ==
    ASSUME NEW q \in Seq(Queued), NEW d \in Docs, NEW ts
    PROVE  MoreOf(q, q, d, ts)
<1>1. Len(q) \in Nat OBVIOUS
<1>2. Len(q) + 1 .. Len(q) = {} BY <1>1
<1>3. \A e \in Docs : HowMany(q, JobsOf(e)) \in Nat BY SpotsFinite
<1>4. \A e \in Docs : HowMany(q, JobsOf(e)) = HowMany(q, JobsOf(e)) + (IF e = d THEN Len(q) - Len(q) ELSE 0)
  BY <1>1, <1>3
<1> QED BY <1>1, <1>2, <1>4 DEF MoreOf

LEMMA MoreAgain ==
    ASSUME NEW q \in Seq(Queued), NEW r \in Seq(Queued), NEW s \in Seq(Queued), NEW d \in Docs, NEW ts,
           MoreOf(r, q, d, ts), MoreOf(s, r, d, ts)
    PROVE  MoreOf(s, q, d, ts)
<1>1. Len(q) \in Nat /\ Len(r) \in Nat /\ Len(s) \in Nat OBVIOUS
<1>2. Len(q) <= Len(r) /\ Len(r) <= Len(s) BY DEF MoreOf
<1>3. ASSUME NEW e \in Docs
      PROVE  HowMany(s, JobsOf(e)) = HowMany(q, JobsOf(e)) + (IF e = d THEN Len(s) - Len(q) ELSE 0)
  <2>1. HowMany(s, JobsOf(e)) = HowMany(r, JobsOf(e)) + (IF e = d THEN Len(s) - Len(r) ELSE 0)
    BY DEF MoreOf
  <2>2. HowMany(r, JobsOf(e)) = HowMany(q, JobsOf(e)) + (IF e = d THEN Len(r) - Len(q) ELSE 0)
    BY DEF MoreOf
  <2>3. HowMany(q, JobsOf(e)) \in Nat
    BY SpotsFinite
  <2> QED BY ONLY <1>1, <2>1, <2>2, <2>3
<1>4. ASSUME NEW k \in 1 .. Len(q)
      PROVE  /\ s[k].by = q[k].by /\ s[k].doc = q[k].doc
             /\ s[k].type = q[k].type /\ s[k].pdf = q[k].pdf
  <2>1. k \in 1 .. Len(r) BY <1>1, <1>2
  <2> QED BY <2>1 DEF MoreOf
<1>5. ASSUME NEW k \in Len(q) + 1 .. Len(s)
      PROVE  s[k].by = NoWorker /\ s[k].doc = d /\ s[k].type \in ts
  <2>1. (k \in 1 .. Len(r) /\ k \in Len(q) + 1 .. Len(r)) \/ k \in Len(r) + 1 .. Len(s)
    BY <1>1, <1>2
  <2> QED BY <2>1 DEF MoreOf
<1>6. Len(q) <= Len(s) BY <1>1, <1>2
<1> QED BY <1>3, <1>4, <1>5, <1>6 DEF MoreOf

LEMMA RequestedMore ==
    ASSUME NEW q \in Seq(Queued), NEW d \in Docs, NEW p \in Pages, NEW w \in Widths,
           NEW prio \in {0, 1}, doc[d].gen \in Nat
    PROVE  MoreOf(Requested(q, d, p, w, prio), q, d, {"render"})
<1>1. /\ Len(q) \in Nat /\ DOMAIN q = 1 .. Len(q) /\ \A k \in 1 .. Len(q) : q[k] \in Queued
  OBVIOUS
<1> DEFINE Same(k) == /\ q[k].type = "render" /\ q[k].doc = d
                      /\ q[k].page = p /\ q[k].gen = doc[d].gen
           waiting == {k \in DOMAIN q : Same(k) /\ q[k].by = NoWorker}
           Sooner(j) == [j EXCEPT !.width = w, !.prio = IF prio < @ THEN prio ELSE @]
           r == [k \in DOMAIN q |-> IF k \in waiting THEN Sooner(q[k]) ELSE q[k]]
           new == NewJob("render", d, doc[d].gen, prio, p, w)
<1>2. \/ Requested(q, d, p, w, prio) = r
      \/ Requested(q, d, p, w, prio) = q
      \/ Requested(q, d, p, w, prio) = Append(q, new)
  BY DEF Requested
<1>3. ASSUME NEW j \in Queued
      PROVE  /\ Sooner(j) \in Queued /\ Sooner(j).by = j.by /\ Sooner(j).doc = j.doc
             /\ Sooner(j).type = j.type /\ Sooner(j).pdf = j.pdf
  <2>1. PICK n \in {0, 1} : n = IF prio < j.prio THEN prio ELSE j.prio
    BY DEF Queued, Job
  <2>2. Sooner(j) = [j EXCEPT !.width = w, !.prio = n]
    BY <2>1 DEF Queued, Job
  <2>3. [j EXCEPT !.width = w, !.prio = n] \in Job
    BY DEF Queued, Job
  <2>4. LET i == [j EXCEPT !.width = w, !.prio = n]
        IN  /\ i.by = j.by /\ i.doc = j.doc /\ i.type = j.type /\ i.pdf = j.pdf
    BY DEF Queued, Job
  <2> QED BY <2>2, <2>3, <2>4 DEF Queued
<1>4. MoreOf(r, q, d, {"render"})
  <2>1. r \in [1 .. Len(q) -> Queued]
    BY <1>1, <1>3
  <2>2. r \in Seq(Queued) /\ Len(r) = Len(q)
    <3> HIDE DEF r
    <3> QED BY <1>1, <2>1
  <2>3. \A k \in 1 .. Len(q) : /\ r[k].by = q[k].by /\ r[k].doc = q[k].doc
                               /\ r[k].type = q[k].type /\ r[k].pdf = q[k].pdf
    BY <1>1, <1>3
  <2>4. \A k \in 1 .. Len(q) : r[k] \in Queued
    BY <2>1
  <2> HIDE DEF r
  <2>5. \A e \in Docs : HowMany(r, JobsOf(e)) = HowMany(q, JobsOf(e))
    <3> SUFFICES ASSUME NEW e \in Docs PROVE HowMany(q, JobsOf(e)) = HowMany(r, JobsOf(e))
      OBVIOUS
    <3>1. \A k \in 1 .. Len(q) : q[k] \in JobsOf(e) <=> r[k] \in JobsOf(e)
      BY <1>1, <2>3, <2>4 DEF JobsOf
    <3> QED BY <2>2, <3>1, SameSpots
  <2>6. \A e \in Docs : HowMany(q, JobsOf(e)) \in Nat
    BY SpotsFinite
  <2>7. \A e \in Docs : HowMany(r, JobsOf(e)) =
                         HowMany(q, JobsOf(e)) + (IF e = d THEN Len(r) - Len(q) ELSE 0)
    BY <1>1, <2>2, <2>5, <2>6
  <2>8. Len(q) + 1 .. Len(r) = {}
    BY <1>1, <2>2
  <2>9. Len(q) <= Len(r)
    BY <1>1, <2>2
  <2> QED BY <2>2, <2>3, <2>7, <2>8, <2>9 DEF MoreOf
<1>5. MoreOf(Append(q, new), q, d, {"render"})
  <2>1. /\ new \in Queued /\ new.doc = d /\ new.by = NoWorker /\ new.type = "render"
    BY PageFacts, NewJobs
  <2> HIDE DEF new
  <2>2. PICK s \in Seq(Queued) : s = Append(q, new)
    <3>1. Append(q, new) \in Seq(Queued)
      BY ONLY <2>1, q \in Seq(Queued)
    <3> QED BY <3>1
  <2>3. /\ Len(s) = Len(q) + 1 /\ s[Len(q) + 1] = new
        /\ \A k \in 1 .. Len(q) : s[k] = q[k]
    BY <2>1, <2>2
  <2>4. ASSUME NEW e \in Docs
        PROVE  HowMany(s, JobsOf(e)) = HowMany(q, JobsOf(e)) + (IF e = d THEN Len(s) - Len(q) ELSE 0)
    <3>1. HowMany(s, JobsOf(e)) = HowMany(q, JobsOf(e)) + (IF new \in JobsOf(e) THEN 1 ELSE 0)
      BY <2>1, <2>2, OneMore
    <3>2. new \in JobsOf(e) <=> e = d
      BY <2>1 DEF JobsOf
    <3> QED BY <1>1, <2>3, <3>1, <3>2
  <2>5. \A k \in Len(q) + 1 .. Len(s) : s[k] = new
    BY <1>1, <2>3
  <2>6. Len(q) <= Len(s)
    BY <1>1, <2>3
  <2>7. MoreOf(s, q, d, {"render"})
    BY <2>1, <2>3, <2>4, <2>5, <2>6 DEF MoreOf
  <2> QED BY <2>2, <2>7
<1>6. MoreOf(q, q, d, {"render"})
  BY NoMore
<1> HIDE DEF r, new
<1> QED BY <1>2, <1>4, <1>5, <1>6

LEMMA RequestsMore ==
    ASSUME queue \in Seq(Queued), NEW d \in Docs, doc[d] \in Document, NEW w \in Widths
    PROVE  MoreOf(Requests(d, w), queue, d, {"render"})
<1>1. PICK r \in Document : r = doc[d]
  OBVIOUS
<1>2. doc[d].gen \in Nat /\ doc[d].page \in Pages /\ doc[d].npages \in 0 .. MAX_PAGES
  BY <1>1 DEF Document
<1>3. PageNumbers(d) \subseteq Pages
  BY <1>2, PageFacts DEF PageNumbers, Pages
<1> DEFINE Ahead(q, n) ==
             IF n \in PageNumbers(d) /\ n \notin doc[d].errors /\ Wanted(d, n, w)
             THEN Requested(q, d, n, w, 1) ELSE q
<1>4. ASSUME NEW q \in Seq(Queued), NEW n
      PROVE  MoreOf(Ahead(q, n), q, d, {"render"})
  <2>1. CASE n \in PageNumbers(d)
    <3>1. n \in Pages BY <1>3, <2>1
    <3>2. 1 \in {0, 1} OBVIOUS
    <3>3. MoreOf(Requested(q, d, n, w, 1), q, d, {"render"})
      BY <1>2, <3>1, <3>2, RequestedMore
    <3>4. MoreOf(q, q, d, {"render"}) BY NoMore
    <3> QED BY <3>3, <3>4
  <2>2. CASE n \notin PageNumbers(d)
    <3>1. MoreOf(q, q, d, {"render"}) BY NoMore
    <3> QED BY <2>2, <3>1
  <2> QED BY <2>1, <2>2
<1>5. PICK a : a = Ahead(queue, doc[d].page - 1)
  OBVIOUS
<1>6. MoreOf(a, queue, d, {"render"})
  BY <1>4, <1>5
<1>7. a \in Seq(Queued)
  BY <1>6 DEF MoreOf
<1>8. PICK b : b = Ahead(a, doc[d].page + 1)
  OBVIOUS
<1>9. MoreOf(b, a, d, {"render"})
  BY <1>4, <1>7, <1>8
<1>10. b \in Seq(Queued)
  BY <1>9 DEF MoreOf
<1>11. MoreOf(b, queue, d, {"render"})
  BY <1>6, <1>7, <1>9, <1>10, MoreAgain
<1>12. MoreOf(Requested(queue, d, doc[d].page, w, 0), queue, d, {"render"})
  <2>1. 0 \in {0, 1} OBVIOUS
  <2> QED BY <1>2, <2>1, RequestedMore
<1>13. \/ Requests(d, w) = Requested(queue, d, doc[d].page, w, 0)
       \/ Requests(d, w) = b
  BY <1>5, <1>8 DEF Requests
<1> QED BY <1>11, <1>12, <1>13

LEMMA CancelledFewer ==
    ASSUME NEW q \in Seq(Queued), NEW d \in Docs
    PROVE  /\ Cancelled(q, d) \in Seq(Queued) /\ Len(Cancelled(q, d)) \in 0 .. Len(q)
           /\ HowMany(Cancelled(q, d), JobsOf(d)) =
                 HowMany(q, JobsOf(d)) - (Len(q) - Len(Cancelled(q, d)))
           /\ \A e \in Docs : e # d => HowMany(Cancelled(q, d), JobsOf(e)) = HowMany(q, JobsOf(e))
<1> DEFINE S == {k \in DOMAIN q : ~ (q[k].doc = d /\ q[k].by = NoWorker)}
           Out(X) == {k \in Spots(q, X) : k \notin S}
<1>1. /\ Len(q) \in Nat /\ DOMAIN q = 1 .. Len(q) /\ \A k \in 1 .. Len(q) : q[k] \in Queued
  OBVIOUS
<1>2. PICK c : c = Selected(q, S)
  OBVIOUS
<1>3. Cancelled(q, d) = c
  BY <1>2 DEF Cancelled
<1>4. c \in Seq(Queued)
  BY <1>2, SelectedComes
<1>5. \A X : /\ Cardinality(Out(X)) \in Nat
             /\ HowMany(c, X) = HowMany(q, X) - Cardinality(Out(X))
  BY <1>2, TakenOut
<1>6. HowMany(c, Queued) = Len(c) /\ HowMany(q, Queued) = Len(q)
  BY <1>4, AllAreHere
<1>7. Out(Queued) = Out(JobsOf(d))
  <2>1. \A k \in DOMAIN q : q[k] \in JobsOf(d) <=> q[k].doc = d
    BY <1>1 DEF JobsOf
  <2>2. \A k \in DOMAIN q : k \notin S => q[k].doc = d
    OBVIOUS
  <2>3. \A k \in DOMAIN q : q[k] \in Queued
    BY <1>1
  <2> HIDE DEF S
  <2>4. Out(Queued) = {k \in DOMAIN q : k \notin S}
    BY <2>3 DEF Spots
  <2>5. Out(JobsOf(d)) = {k \in DOMAIN q : k \notin S}
    BY <2>1, <2>2 DEF Spots
  <2> QED BY <2>4, <2>5, Zenon
<1>8. \A e \in Docs : e # d => Out(JobsOf(e)) = {}
  BY DEF JobsOf, Spots
<1>9. Cardinality({}) = 0
  BY FS_EmptySet
<1>10. \A e \in Docs : HowMany(q, JobsOf(e)) \in Nat
  BY SpotsFinite
<1> HIDE DEF Out, S
<1>11. PICK n \in Nat : n = Cardinality(Out(Queued))
  BY <1>5
<1>12. Len(c) = Len(q) - n /\ HowMany(c, JobsOf(d)) = HowMany(q, JobsOf(d)) - n
  BY <1>5, <1>6, <1>7, <1>11
<1>13. Len(c) \in Nat
  BY <1>4
<1>14. Len(c) \in 0 .. Len(q) /\ Len(q) - Len(c) = n
  BY ONLY <1>1, <1>11, <1>12, <1>13
<1>15. ASSUME NEW e \in Docs, e # d PROVE HowMany(c, JobsOf(e)) = HowMany(q, JobsOf(e))
  <2>1. HowMany(c, JobsOf(e)) = HowMany(q, JobsOf(e)) - Cardinality(Out(JobsOf(e)))
    BY <1>5
  <2>2. Cardinality(Out(JobsOf(e))) = 0
    BY <1>8, <1>9, <1>15
  <2>3. HowMany(q, JobsOf(e)) \in Nat
    BY <1>10
  <2> QED BY ONLY <2>1, <2>2, <2>3
<1> QED BY <1>3, <1>4, <1>12, <1>14, <1>15

-----------------------------------------------------------------------------
TypeInv == DocsTyped /\ ListsTyped /\ WorkTyped /\ MainTyped /\ FlagsTyped

LEMMA TypeInit == Init => TypeInv
<1> SUFFICES ASSUME Init PROVE TypeInv
  OBVIOUS
<1>1. NoRecord("new") \in Document /\ NoRecord("new").gen = 0 /\ NoRecord("new").state = "loading"
  <2>1. NoRecord("new") \in Document
    BY BlankRecord
  <2>2. NoRecord("new").gen = 0 /\ NoRecord("new").state = "loading"
    BY DEF NoRecord
  <2> QED BY <2>1, <2>2
<1>2. DocsTyped
  <2>1. PICK r \in Document : r = NoRecord("new") BY <1>1
  <2>2. \A d \in Docs : doc[d] = r BY <2>1 DEF Init
  <2>3. doc \in [Docs -> Document] BY <2>1 DEF Init
  <2>4. r.gen <= commands /\ r.state # "ready" BY <1>1, <2>1 DEF Init
  <2> QED BY <2>2, <2>3, <2>4, DocsAssumption DEF DocsTyped
<1>3. NoJob \in Job /\ NoResult \in Result
  <2>1. NoJob = [type |-> "none", doc |-> NoDoc, gen |-> 0, prio |-> 0, page |-> 0, width |-> 0,
                 by |-> NoWorker, pdf |-> NoPdf]
    BY DEF NoJob, NewJob
  <2>2. 0 \in Pages /\ 0 \in 0 .. MAX_PAGES /\ NoPdf \in PdfFile
    BY PageFacts
  <2> QED BY <2>1, <2>2 DEF Job, NoResult, Result
<1>4. WorkTyped
  <2>1. /\ pc \in [Workers -> {"unstarted", "loop", "wait", "run", "ran", "exited"}]
        /\ \A i \in Workers : pc[i] = "unstarted"
    BY DEF Init
  <2>2. job \in [Workers -> Job] /\ result \in [Workers -> Result]
    BY <1>3 DEF Init
  <2> QED BY <2>1, <2>2 DEF WorkTyped, AtWork
<1>5. ListsTyped
  BY DEF Init, ListsTyped
<1>6. MainTyped
  <2>1. 0 \in 0 .. MAX_COMMANDS
    BY SizesAssumption
  <2>2. view \in [Windows -> Docs \cup {NoDoc}] /\ width \in [Windows -> Widths]
    BY DEF Init
  <2>3. commands = 0 /\ main = "idle" /\ todo = {} /\ changed = FALSE /\ dirty = FALSE /\ decodeQuit = FALSE
    BY DEF Init
  <2>4. main # "poll" /\ todo = {} /\ todo \subseteq Placed /\ changed \in BOOLEAN /\ dirty \in BOOLEAN /\ decodeQuit \in BOOLEAN
    BY <2>3
  <2> QED BY <2>1, <2>2, <2>3, <2>4 DEF MainTyped
<1>7. FlagsTyped
  BY DEF Init, FlagsTyped
<1> QED BY <1>2, <1>4, <1>5, <1>6, <1>7 DEF TypeInv

LEMMA WorkSame ==
    ASSUME WorkTyped, UNCHANGED workerVars
    PROVE  WorkTyped'
  BY DEF WorkTyped, workerVars, AtWork

LEMMA WorkSignalled ==
    ASSUME WorkTyped, NEW s, Signal(s)
    PROVE  WorkTyped'
<1>1. UNCHANGED <<job, result>>
  BY DEF Signal
<1>2. DOMAIN pc = Workers
  BY DEF WorkTyped
<1>3. /\ pc' \in [Workers -> {"unstarted", "loop", "wait", "run", "ran", "exited"}]
      /\ \A i \in Workers : pc'[i] \in {"run", "ran"} => pc'[i] = pc[i]
  <2>1. CASE s
    <3>1. PICK S \in Startable : pc' = Woken([i \in Workers |-> IF i \in S THEN "loop" ELSE pc[i]])
      BY <2>1 DEF Signal
    <3> QED BY <3>1 DEF Woken, WorkTyped
  <2>2. CASE ~ s
    BY <2>2 DEF Signal, WorkTyped
  <2> QED BY <2>1, <2>2
<1> QED BY <1>1, <1>3 DEF WorkTyped, AtWork

LEMMA OneDocument ==
    ASSUME DocsTyped, NEW d \in Docs, NEW e \in Document, doc' = [doc EXCEPT ![d] = e],
           commands \in Nat, commands' \in Nat, commands <= commands', e.gen <= commands',
           d \in Pdfs /\ e.state = "ready" => e.npages > 0
    PROVE  DocsTyped'
<1>1. doc \in [Docs -> Document]
  BY DEF DocsTyped
<1>2. doc' \in [Docs -> Document]
  BY <1>1
<1>3. ASSUME NEW x \in Docs
      PROVE  doc'[x].gen <= commands' /\ (x \in Pdfs /\ doc'[x].state = "ready" => doc'[x].npages > 0)
  <2>1. CASE x = d
    BY <1>1, <2>1
  <2>2. CASE x # d
    <3>1. doc'[x] = doc[x] BY <1>1, <2>2
    <3>2. PICK r \in Document : r = doc[x] BY <1>1
    <3>3. r.gen \in Nat /\ r.gen <= commands BY <3>2 DEF DocsTyped, Document
    <3>4. x \in Pdfs /\ r.state = "ready" => r.npages > 0 BY <3>2 DEF DocsTyped
    <3> QED BY <3>1, <3>2, <3>3, <3>4
  <2> QED BY <2>1, <2>2
<1> QED BY <1>2, <1>3, DocsAssumption DEF DocsTyped

LEMMA SameDocuments ==
    ASSUME DocsTyped, doc' = doc, commands \in Nat, commands' \in Nat, commands <= commands'
    PROVE  DocsTyped'
<1>1. doc \in [Docs -> Document]
  BY DEF DocsTyped
<1>2. ASSUME NEW x \in Docs PROVE doc[x].gen <= commands'
  <2>1. PICK r \in Document : r = doc[x] BY <1>1
  <2>2. r.gen \in Nat /\ r.gen <= commands BY <2>1 DEF DocsTyped, Document
  <2> QED BY <2>1, <2>2
<1> QED BY <1>1, <1>2 DEF DocsTyped

(* D is as good as doc, and doc' is D but for textures.                    *)
LEMMA TexturesOnly ==
    ASSUME NEW D \in [Docs -> Document],
           \A d \in Docs : D[d].gen <= commands',
           \A d \in Pdfs : D[d].state = "ready" => D[d].npages > 0,
           OnlyTextures(D, doc')
    PROVE  DocsTyped'
  BY DocsAssumption DEF DocsTyped, OnlyTextures

(* The steps of a worker keep the types.                                   *)
LEMMA TypeTake ==
    ASSUME TypeInv, NEW i \in Workers, Take(i)
    PROVE  TypeInv'
<1>1. PICK k \in Runnable :
         /\ job' = [job EXCEPT ![i] = queue[k]]
         /\ queue' = [queue EXCEPT ![k].by = i]
         /\ busy' = busy \cup ({queue[k].doc} \ {NoDoc})
         /\ pdfRunning' = (pdfRunning \/ IsPdfJob(queue[k]))
  BY DEF Take
<1>2. /\ pc' = [pc EXCEPT ![i] = "run"]
      /\ UNCHANGED <<docVars, userVars, mainVars, done, quitting, wakePending,
                     wakeEvents, result, decodeQuit>>
  BY DEF Take
<1>3. k \in 1 .. Len(queue) /\ queue \in Seq(Queued) /\ Len(queue) \in Nat
  BY DEF Runnable, TypeInv, ListsTyped
<1>4. PICK j \in Queued : j = queue[k]
  BY <1>3
<1>5. PICK n : n = [j EXCEPT !.by = i]
  OBVIOUS
<1>6. n \in Queued
  BY <1>4, <1>5 DEF Queued, Job
<1>7. queue' = [queue EXCEPT ![k] = n]
  BY <1>1, <1>4, <1>5
<1>8. queue' \in Seq(Queued)
  BY <1>3, <1>6, <1>7
<1>9. ListsTyped'
  BY <1>2, <1>8 DEF TypeInv, ListsTyped, mainVars
<1>10. WorkTyped'
  <2>1. WorkTyped BY DEF TypeInv
  <2>2. j \in Job BY <1>4 DEF Queued
  <2>3. job' = [job EXCEPT ![i] = j] /\ result' = result
    BY <1>1, <1>2, <1>4
  <2>4. pc' \in [Workers -> {"unstarted", "loop", "wait", "run", "ran", "exited"}]
    BY <1>2, <2>1 DEF WorkTyped
  <2>5. job' \in [Workers -> Job]
    BY <2>1, <2>2, <2>3 DEF WorkTyped
  <2>6. ASSUME NEW m \in Workers, AtWork(m)' PROVE job'[m] \in Queued
    BY <1>2, <1>4, <2>1, <2>3, <2>6 DEF WorkTyped, AtWork
  <2>7. ASSUME NEW m \in Workers, pc'[m] = "ran" PROVE m # i /\ pc[m] = "ran" /\ job'[m] = job[m]
    BY <1>2, <2>1, <2>3, <2>7 DEF WorkTyped
  <2> QED BY <2>1, <2>3, <2>4, <2>5, <2>6, <2>7 DEF WorkTyped
<1>11. DocsTyped' /\ MainTyped'
  BY <1>2 DEF TypeInv, DocsTyped, MainTyped, docVars, userVars, mainVars, Placed
<1>12. FlagsTyped'
  <2>1. j.doc \in Docs \cup {NoDoc} BY <1>4 DEF Queued, Job
  <2>2. busy' \subseteq Docs BY <1>1, <1>4, <2>1 DEF TypeInv, FlagsTyped
  <2>3. pdfRunning' \in BOOLEAN BY <1>1, Zenon DEF TypeInv, FlagsTyped, IsPdfJob
  <2> QED BY <1>2, <2>2, <2>3 DEF TypeInv, FlagsTyped
<1> QED BY <1>9, <1>10, <1>11, <1>12 DEF TypeInv

LEMMA TypeRest ==
    ASSUME TypeInv, NEW i \in Workers, Sleep(i) \/ Exit(i)
    PROVE  TypeInv'
<1>1. /\ pc' = [pc EXCEPT ![i] = "wait"] \/ pc' = [pc EXCEPT ![i] = "exited"]
      /\ UNCHANGED <<docVars, userVars, mainVars, lockVars, job, result, decodeQuit>>
  BY DEF Sleep, Exit
<1>2. WorkTyped'
  <2>1. pc' \in [Workers -> {"unstarted", "loop", "wait", "run", "ran", "exited"}]
    BY <1>1 DEF TypeInv, WorkTyped
  <2>2. \A m \in Workers : pc'[m] \in {"run", "ran"} => pc[m] = pc'[m]
    BY <1>1 DEF TypeInv, WorkTyped
  <2> QED BY <1>1, <2>1, <2>2 DEF TypeInv, WorkTyped, AtWork
<1>3. DocsTyped' /\ MainTyped' /\ ListsTyped' /\ FlagsTyped'
  BY <1>1 DEF TypeInv, DocsTyped, MainTyped, ListsTyped, FlagsTyped, docVars, userVars, mainVars,
              lockVars, Placed
<1> QED BY <1>2, <1>3 DEF TypeInv

(* What a worker's work may change: the document's PDF, and its result.    *)
LEMMA RunDoes ==
    ASSUME TypeInv, NEW i \in Workers, Run(i)
    PROVE  /\ job[i] \in Queued
           /\ \/ doc' = doc
              \/ /\ job[i].type = "load" /\ job[i].doc \in Pdfs
                 /\ \E pdf \in PdfFile : /\ pdf # NoPdf /\ pdf.doc = job[i].doc
                                        /\ doc' = [doc EXCEPT ![job[i].doc].pdf = pdf]
           /\ result'[i] \in Result /\ result' = [result EXCEPT ![i] = result'[i]]
           /\ HasPages(job[i].type, job[i].doc, result'[i].error, result'[i].npages)
<1>1. /\ job[i] \in Queued /\ result \in [Workers -> Result]
  BY DEF TypeInv, WorkTyped, Run, AtWork
<1>2. PICK j \in Queued : j = job[i]
  BY <1>1
<1>3. PICK r \in Result : r = result[i]
  BY <1>1
<1>4. CASE j.type = "free_pdf"
  <2>1. UNCHANGED <<doc, result>>
    BY <1>2, <1>4 DEF Run
  <2> QED BY <1>1, <1>2, <1>4, <2>1 DEF HasPages
<1>5. CASE j.type = "render"
  <2>1. RunRender(i)
    BY <1>2, <1>5 DEF Run
  <2>2. doc' = doc
    BY <2>1 DEF RunRender, docVars
  <2>3. PICK error \in BOOLEAN : result' = [result EXCEPT ![i].error = error, ![i].pdf = doc[job[i].doc].pdf]
    BY <2>1 DEF RunRender
  <2>4. j.doc \in Docs
    BY <1>5 DEF Queued, Job
  <2>5. doc[j.doc].pdf \in PdfFile
    <3>1. PICK x \in Document : x = doc[j.doc] BY <2>4 DEF TypeInv, DocsTyped
    <3> QED BY <3>1 DEF Document
  <2>6. PICK pdf \in PdfFile : pdf = doc[j.doc].pdf
    BY <2>5
  <2>7. [r EXCEPT !.error = error, !.pdf = pdf] \in Result
    BY DEF Result
  <2>8. PICK n \in Result : n = [r EXCEPT !.error = error, !.pdf = pdf]
    BY <2>7
  <2>9. result' = [result EXCEPT ![i] = n]
    BY <1>1, <1>2, <1>3, <2>3, <2>6, <2>8
  <2>10. result'[i] = n
    BY <1>1, <2>9
  <2> QED BY <1>1, <1>2, <1>5, <2>2, <2>9, <2>10 DEF HasPages
<1>6. CASE j.type = "load"
  <2>1. RunLoad(i)
    BY <1>2, <1>6 DEF Run
  <2>2. ASSUME NEW error \in BOOLEAN, NEW n \in 0 .. MAX_PAGES,
               result' = [result EXCEPT ![i].error = error, ![i].npages = n],
               j.doc \in Pdfs /\ ~ error => n > 0
        PROVE  /\ result'[i] \in Result /\ result' = [result EXCEPT ![i] = result'[i]]
               /\ HasPages(job[i].type, job[i].doc, result'[i].error, result'[i].npages)
    <3>1. [r EXCEPT !.error = error, !.npages = n] \in Result
      BY DEF Result
    <3>2. PICK x \in Result : x = [r EXCEPT !.error = error, !.npages = n]
      BY <3>1
    <3>3. x.error = error /\ x.npages = n
      BY <3>2 DEF Result
    <3>4. result' = [result EXCEPT ![i] = x]
      BY <1>1, <1>3, <2>2, <3>2
    <3>5. result'[i] = x
      BY <1>1, <3>4
    <3> QED BY <1>2, <2>2, <3>3, <3>4, <3>5 DEF HasPages
  <2>3. 0 \in 0 .. MAX_PAGES /\ TRUE \in BOOLEAN /\ FALSE \in BOOLEAN
    BY PageFacts
  <2>4. CASE result' = [result EXCEPT ![i].error = TRUE, ![i].npages = 0] /\ UNCHANGED docVars
    BY <1>1, <2>2, <2>3, <2>4 DEF docVars
  <2>5. CASE /\ j.doc \notin Pdfs /\ result' = [result EXCEPT ![i].error = FALSE, ![i].npages = 0]
             /\ UNCHANGED docVars
    BY <1>1, <2>2, <2>3, <2>5 DEF docVars
  <2>6. ASSUME NEW n \in 1 .. MAX_PAGES, j.doc \in Pdfs,
               result' = [result EXCEPT ![i].error = FALSE, ![i].npages = n],
               doc' = [doc EXCEPT ![j.doc].pdf = [[doc |-> j.doc, gen |-> j.gen, pages |-> 0] EXCEPT !.pages = n]]
        PROVE  /\ \E pdf \in PdfFile : /\ pdf # NoPdf /\ pdf.doc = j.doc
                                       /\ doc' = [doc EXCEPT ![j.doc].pdf = pdf]
               /\ result'[i] \in Result /\ result' = [result EXCEPT ![i] = result'[i]]
               /\ HasPages(job[i].type, job[i].doc, result'[i].error, result'[i].npages)
    <3>1. n \in 0 .. MAX_PAGES /\ n > 0
      BY PageFacts
    <3>2. PICK pdf : pdf = [[doc |-> j.doc, gen |-> j.gen, pages |-> 0] EXCEPT !.pages = n]
      OBVIOUS
    <3>3. pdf = [doc |-> j.doc, gen |-> j.gen, pages |-> n]
      BY <3>2
    <3>4. j.doc \in Docs /\ j.doc # NoDoc /\ j.gen \in Nat
      BY <1>6, DocsAssumption DEF Queued, Job
    <3>5. pdf \in PdfFile /\ pdf # NoPdf /\ pdf.doc = j.doc
      BY <3>1, <3>3, <3>4 DEF PdfFile, NoPdf
    <3> QED BY <2>2, <2>3, <2>6, <3>1, <3>2, <3>5
  <2>7. \/ result' = [result EXCEPT ![i].error = TRUE, ![i].npages = 0] /\ UNCHANGED docVars
        \/ /\ j.doc \notin Pdfs /\ result' = [result EXCEPT ![i].error = FALSE, ![i].npages = 0]
           /\ UNCHANGED docVars
        \/ /\ j.doc \in Pdfs
           /\ \E n \in 1 .. MAX_PAGES :
                 /\ result' = [result EXCEPT ![i].error = FALSE, ![i].npages = n]
                 /\ doc' = [doc EXCEPT ![j.doc].pdf = [[doc |-> j.doc, gen |-> j.gen, pages |-> 0] EXCEPT !.pages = n]]
    BY <1>2, <2>1 DEF RunLoad
  <2> QED BY <1>1, <1>2, <1>6, <2>4, <2>5, <2>6, <2>7
<1>7. j.type \in {"load", "render", "free_pdf"}
  BY <1>2 DEF Run
<1> QED BY <1>4, <1>5, <1>6, <1>7

LEMMA TypeRun ==
    ASSUME TypeInv, NEW i \in Workers, Run(i)
    PROVE  TypeInv'
<1>1. /\ pc' = [pc EXCEPT ![i] = "ran"] /\ AtWork(i)
      /\ UNCHANGED <<userVars, mainVars, lockVars, job, decodeQuit>>
  BY DEF Run, AtWork
<1>2. /\ result'[i] \in Result /\ result' = [result EXCEPT ![i] = result'[i]]
      /\ HasPages(job[i].type, job[i].doc, result'[i].error, result'[i].npages)
  BY RunDoes
<1>3. commands' = commands /\ commands \in Nat
  BY <1>1, SizesAssumption DEF TypeInv, MainTyped, userVars
<1>4. DocsTyped'
  <2>1. CASE doc' = doc
    BY <1>3, <2>1, SameDocuments DEF TypeInv
  <2>2. ASSUME NEW d \in Pdfs, NEW pdf \in PdfFile, doc' = [doc EXCEPT ![d].pdf = pdf]
        PROVE  DocsTyped'
    <3>1. d \in Docs BY DocsAssumption
    <3>2. PICK r \in Document : r = doc[d] BY <3>1 DEF TypeInv, DocsTyped
    <3>3. [r EXCEPT !.pdf = pdf] \in Document BY DEF Document
    <3>4. PICK e \in Document : e = [r EXCEPT !.pdf = pdf] BY <3>3
    <3>5. e.gen = r.gen /\ e.state = r.state /\ e.npages = r.npages BY <3>4 DEF Document
    <3>6. doc' = [doc EXCEPT ![d] = e] BY <2>2, <3>2, <3>4
    <3>7. r.gen <= commands /\ (r.state = "ready" => r.npages > 0)
      BY <3>1, <3>2 DEF TypeInv, DocsTyped
    <3>8. DocsTyped /\ commands <= commands' /\ commands' \in Nat /\ e.gen <= commands'
      BY <1>3, <3>5, <3>7 DEF TypeInv
    <3>9. d \in Pdfs /\ e.state = "ready" => e.npages > 0
      BY <3>5, <3>7
    <3> QED BY <1>3, <3>1, <3>6, <3>8, <3>9, OneDocument
  <2> QED BY <2>1, <2>2, RunDoes
<1>5. WorkTyped'
  <2>1. WorkTyped BY DEF TypeInv
  <2>2. pc' \in [Workers -> {"unstarted", "loop", "wait", "run", "ran", "exited"}]
    BY <1>1, <2>1 DEF WorkTyped
  <2>3. result' \in [Workers -> Result]
    BY <1>2, <2>1 DEF WorkTyped
  <2>4. \A m \in Workers : AtWork(m)' => AtWork(m)
    BY <1>1, <2>1 DEF WorkTyped, AtWork
  <2>5. ASSUME NEW m \in Workers, pc'[m] = "ran"
        PROVE  HasPages(job[m].type, job[m].doc, result'[m].error, result'[m].npages)
    <3>1. CASE m = i BY <1>2, <3>1
    <3>2. CASE m # i
      <4>1. pc[m] = "ran" /\ result'[m] = result[m] BY <1>1, <1>2, <2>1, <2>5, <3>2 DEF WorkTyped
      <4> QED BY <2>1, <4>1 DEF WorkTyped
    <3> QED BY <3>1, <3>2
  <2> QED BY <1>1, <2>1, <2>2, <2>3, <2>4, <2>5 DEF WorkTyped
<1>6. MainTyped' /\ ListsTyped' /\ FlagsTyped'
  BY <1>1 DEF TypeInv, MainTyped, ListsTyped, FlagsTyped, userVars, mainVars, lockVars, Placed
<1> QED BY <1>4, <1>5, <1>6 DEF TypeInv

LEMMA Nothing == NoJob \in Job /\ NoResult \in Result
<1>1. NoJob = [type |-> "none", doc |-> NoDoc, gen |-> 0, prio |-> 0, page |-> 0, width |-> 0,
               by |-> NoWorker, pdf |-> NoPdf]
  BY DEF NoJob, NewJob
<1>2. 0 \in Pages /\ 0 \in 0 .. MAX_PAGES /\ NoPdf \in PdfFile
  BY PageFacts
<1> QED BY <1>1, <1>2 DEF Job, NoResult, Result

LEMMA OutcomeTyped ==
    ASSUME NEW j \in Queued, NEW r \in Result, j.type # "free_pdf", HasPages(j.type, j.doc, r.error, r.npages)
    PROVE  Finished(j, r) \in Outcomes /\ Finished(j, r).doc = j.doc /\ j.doc \in Docs
<1>1. /\ j.type \in {"load", "render"} /\ j.doc \in Docs /\ j.gen \in Nat /\ j.page \in Pages
      /\ j.width \in Widths \cup {0} /\ r.error \in BOOLEAN /\ r.npages \in 0 .. MAX_PAGES /\ r.pdf \in PdfFile
  BY DEF Queued, Job, Result
<1>2. Finished(j, r) \in FinishedJob
  BY <1>1 DEF Finished, FinishedJob
<1>3. HasPages(Finished(j, r).type, Finished(j, r).doc, Finished(j, r).error, Finished(j, r).npages)
  BY DEF Finished
<1> QED BY <1>1, <1>2, <1>3 DEF Outcomes, Finished

LEMMA TypeFinish ==
    ASSUME TypeInv, NEW i \in Workers, Finish(i)
    PROVE  TypeInv'
<1>1. /\ busy' = busy \ {job[i].doc}
      /\ pdfRunning' = (pdfRunning /\ ~ IsPdfJob(job[i]))
      /\ queue' = Selected(queue, {k \in DOMAIN queue : queue[k].by # i})
      /\ job' = [job EXCEPT ![i] = NoJob]
      /\ result' = [result EXCEPT ![i] = NoResult]
      /\ pc' = Woken([pc EXCEPT ![i] = "loop"]) /\ pc[i] = "ran"
      /\ UNCHANGED <<docVars, userVars, mainVars, quitting, decodeQuit>>
  BY DEF Finish
<1>2. WorkTyped /\ ListsTyped
  BY DEF TypeInv
<1>3. queue' \in Seq(Queued)
  BY <1>1, <1>2, SelectedComes DEF ListsTyped
<1>4. done' \in Seq(Outcomes)
  <2>1. CASE job[i].type = "free_pdf"
    BY <1>2, <2>1 DEF Finish, ListsTyped
  <2>2. CASE job[i].type # "free_pdf"
    <3>1. done' = <<Finished(job[i], result[i])>> \o done
      BY <2>2 DEF Finish
    <3>2. job[i] \in Queued /\ result[i] \in Result
          /\ HasPages(job[i].type, job[i].doc, result[i].error, result[i].npages)
      BY <1>1, <1>2 DEF WorkTyped, AtWork
    <3>3. Finished(job[i], result[i]) \in Outcomes
      BY <2>2, <3>2, OutcomeTyped
    <3> QED BY <1>2, <3>1, <3>3, OnePut DEF ListsTyped
  <2> QED BY <2>1, <2>2
<1>5. WorkTyped'
  <2>1. pc' \in [Workers -> {"unstarted", "loop", "wait", "run", "ran", "exited"}]
    BY <1>1, <1>2 DEF WorkTyped, Woken
  <2>2. \A m \in Workers : pc'[m] \in {"run", "ran"} => m # i /\ pc[m] = pc'[m]
    BY <1>1, <1>2 DEF WorkTyped, Woken
  <2>3. job' \in [Workers -> Job] /\ result' \in [Workers -> Result]
    BY <1>1, <1>2, Nothing DEF WorkTyped
  <2>4. \A m \in Workers : m # i => job'[m] = job[m] /\ result'[m] = result[m]
    BY <1>1, <1>2 DEF WorkTyped
  <2> QED BY <1>2, <2>1, <2>2, <2>3, <2>4 DEF WorkTyped, AtWork
<1>6. ListsTyped'
  BY <1>1, <1>2, <1>3, <1>4 DEF ListsTyped, mainVars
<1>7. DocsTyped' /\ MainTyped'
  BY <1>1 DEF TypeInv, DocsTyped, MainTyped, docVars, userVars, mainVars, Placed
<1>8. FlagsTyped'
  <2>1. pdfRunning' \in BOOLEAN BY <1>1, Zenon DEF TypeInv, FlagsTyped, IsPdfJob
  <2>2. busy' \subseteq Docs BY <1>1 DEF TypeInv, FlagsTyped
  <2> QED BY <1>1, <2>1, <2>2 DEF TypeInv, FlagsTyped
<1> QED BY <1>5, <1>6, <1>7, <1>8 DEF TypeInv

LEMMA TypePoll ==
    ASSUME TypeInv, Poll
    PROVE  TypeInv'
<1>1. /\ inbox' = Reverse(done) /\ done' = <<>> /\ changed' = FALSE
      /\ main' = (IF done = <<>> THEN "idle" ELSE "poll") /\ main = "idle"
      /\ UNCHANGED <<docVars, userVars, todo, dirty, queue, busy, pdfRunning,
                     quitting, workerVars, decodeQuit>>
  BY DEF Poll
<1>2. done \in Seq(Outcomes)
  BY DEF TypeInv, ListsTyped
<1>3. inbox' = [i \in 1 .. Len(done) |-> done[(Len(done) - i) + 1]]
  BY <1>1 DEF Reverse
<1>4. inbox' \in Seq(Outcomes) /\ Len(inbox') = Len(done)
  BY <1>2, <1>3, ReversedCount
<1>5. ListsTyped'
  BY <1>1, <1>4 DEF TypeInv, ListsTyped
<1>6. main' = "poll" => inbox' # <<>>
  BY <1>1, <1>2, <1>4
<1>7. MainTyped'
  BY <1>1, <1>6 DEF TypeInv, MainTyped, userVars, Placed
<1>8. DocsTyped' /\ FlagsTyped' /\ WorkTyped'
  BY <1>1, WorkSame DEF TypeInv, DocsTyped, FlagsTyped, docVars, userVars
<1> QED BY <1>5, <1>7, <1>8 DEF TypeInv

(* What applying the result j makes of its document is r, before the       *)
(* reference goes; D are the documents before textures are trimmed.        *)
Applied(j, r, D) ==
    LET old == doc[j.doc]
    IN  /\ j \in Outcomes /\ j.doc \in Docs /\ j = Head(inbox) /\ inbox' = Tail(inbox)
        /\ r \in Document /\ r.life = old.life /\ r.gen = old.gen /\ r.refs = old.refs
        /\ r.pdf = old.pdf
        /\ ~ Live(j.doc) => r = old
        /\ j.doc \in Pdfs /\ r.state = "ready" => r.npages > 0
        /\ j.doc \in Pdfs /\ r.state = "ready" => old.state = "ready" \/ (j.type = "load" /\ ~ j.error)
        /\ j.type = "render" => /\ r.mips = old.mips /\ r.now = old.now
                               /\ \A p \in Pages : p # j.page => r.tex[p] = old.tex[p]
        /\ r.page = old.page
        /\ ~ Current(j) => r = old
        /\ Current(j) /\ j.type = "load" => AfterLoad(j.doc, old, j, r)
        /\ Current(j) /\ j.type = "render" =>
              /\ r.loading = old.loading /\ r.state = old.state
              /\ \A p \in Pages : r.tex[p] = old.tex[p] \/ r.tex[p].width = 0 \/ r.tex[p].gen = j.pdf.gen
        /\ D = [doc EXCEPT ![j.doc] = Unreferenced(r, 1)]
        /\ D \in [Docs -> Document]
        /\ Slimmed(D, doc')
        /\ queue' = queue \o PdfToFree(r, 1)

LEMMA ApplyDoes ==
    ASSUME TypeInv, ApplyResult
    PROVE  \E j, r, D : Applied(j, r, D)
<1>1. inbox \in Seq(Outcomes) /\ inbox # <<>>
  BY DEF TypeInv, ListsTyped, MainTyped, ApplyResult
<1>2. PICK j \in Outcomes : j = Head(inbox)
  BY <1>1
<1>3. /\ j \in FinishedJob /\ j.doc \in Docs /\ j.pdf.gen \in Nat /\ j.error \in BOOLEAN
      /\ j.npages \in 0 .. MAX_PAGES /\ j.type \in {"load", "render"}
      /\ HasPages(j.type, j.doc, j.error, j.npages)
  BY DEF Outcomes, FinishedJob, PdfFile
<1>4. PICK old \in Document : old = doc[j.doc]
  BY <1>3 DEF TypeInv, DocsTyped
<1>5. j.doc \in Pdfs /\ old.state = "ready" => old.npages > 0
  BY <1>4 DEF TypeInv, DocsTyped
<1>6. PICK r \in IF ~ Current(j) THEN {old}
                 ELSE IF j.type = "load" THEN FinishLoad(j.doc, old, j)
                 ELSE FinishRender(old, j) :
         LET D == [doc EXCEPT ![j.doc] = Unreferenced(r, 1)]
         IN  /\ (doc' \in Trimmed(D) \/ doc' = D)
             /\ queue' = queue \o PdfToFree(r, 1)
  BY <1>2, <1>4 DEF ApplyResult, Submit
<1>7. PICK D : D = [doc EXCEPT ![j.doc] = Unreferenced(r, 1)]
  OBVIOUS
<1>8. /\ r \in Document /\ r.life = old.life /\ r.gen = old.gen /\ r.refs = old.refs
      /\ r.pdf = old.pdf
      /\ ~ Live(j.doc) => r = old
      /\ j.doc \in Pdfs /\ r.state = "ready" => r.npages > 0
      /\ j.doc \in Pdfs /\ r.state = "ready" => old.state = "ready" \/ (j.type = "load" /\ ~ j.error)
      /\ j.type = "render" => /\ r.mips = old.mips /\ r.now = old.now
                             /\ \A p \in Pages : p # j.page => r.tex[p] = old.tex[p]
      /\ r.page = old.page
      /\ ~ Current(j) => r = old
      /\ Current(j) /\ j.type = "load" => AfterLoad(j.doc, old, j, r)
      /\ Current(j) /\ j.type = "render" =>
            /\ r.loading = old.loading /\ r.state = old.state
            /\ \A p \in Pages : r.tex[p] = old.tex[p] \/ r.tex[p].width = 0 \/ r.tex[p].gen = j.pdf.gen
  <2>1. CASE ~ Current(j)
    <3>1. r = old BY <1>6, <2>1
    <3> QED BY <1>5, <2>1, <3>1
  <2>2. CASE Current(j) /\ j.type = "load"
    <3>1. r \in FinishLoad(j.doc, old, j) BY <1>6, <2>2
    <3>2. Live(j.doc) /\ j.type # "render" BY <2>2 DEF Current
    <3>3. /\ r \in Document /\ r.life = old.life /\ r.gen = old.gen /\ r.refs = old.refs
          /\ r.pdf = old.pdf /\ (r.state = "ready" /\ j.doc \in Pdfs => ~ j.error /\ r.npages = j.npages)
          /\ r.page = old.page /\ AfterLoad(j.doc, old, j, r)
      <4>1. AfterLoad(j.doc, old, j, r)
        BY <1>3, <1>4, <3>1, LoadEnded, Zenon
      <4> QED BY <4>1 DEF AfterLoad
    <3>4. j.doc \in Pdfs /\ ~ j.error => j.npages > 0
      BY <1>3, <2>2 DEF HasPages
    <3> QED BY <2>2, <3>2, <3>3, <3>4
  <2>3. CASE Current(j) /\ j.type # "load"
    <3>1. r \in FinishRender(old, j) BY <1>6, <2>3
    <3>2. Live(j.doc) BY <2>3 DEF Current
    <3>3. /\ r \in Document /\ r.life = old.life /\ r.gen = old.gen /\ r.refs = old.refs
          /\ r.pdf = old.pdf /\ r.state = old.state /\ r.npages = old.npages /\ r.mips = old.mips
          /\ r.now = old.now /\ r.loading = old.loading /\ r.page = old.page
          /\ \A p \in Pages : p # j.page => r.tex[p] = old.tex[p]
          /\ \A p \in Pages : r.tex[p] = old.tex[p] \/ r.tex[p].width = 0 \/ r.tex[p].gen = j.pdf.gen
      BY <1>3, <3>1, RenderEnded
    <3> QED BY <1>5, <2>3, <3>2, <3>3
  <2> QED BY <2>1, <2>2, <2>3
<1>9. Unreferenced(r, 1) \in Document
  BY <1>8, Unreference
<1>10. D \in [Docs -> Document]
  BY <1>3, <1>7, <1>9 DEF TypeInv, DocsTyped
<1>11. Slimmed(D, doc')
  <2>1. doc' \in Trimmed(D) \/ doc' = D
    BY <1>6, <1>7
  <2> QED BY <1>10, <2>1, TrimmedSlims, NotSlimmed
<1>12. queue' = queue \o PdfToFree(r, 1) /\ inbox' = Tail(inbox)
  BY <1>6 DEF ApplyResult
<1>13. Applied(j, r, D)
  BY <1>2, <1>3, <1>4, <1>7, <1>8, <1>10, <1>11, <1>12 DEF Applied
<1> QED BY <1>13

LEMMA FreeingTyped ==
    ASSUME NEW q \in Seq(Queued), NEW r \in Document, NEW n
    PROVE  /\ q \o PdfToFree(r, n) \in Seq(Queued)
           /\ \/ PdfToFree(r, n) = <<>> /\ q \o PdfToFree(r, n) = q
              \/ /\ PdfToFree(r, n) = <<FreeJob(r.pdf)>> /\ r.refs <= n /\ r.pdf # NoPdf
                 /\ FreeJob(r.pdf) \in Queued /\ FreeJob(r.pdf).doc = NoDoc /\ FreeJob(r.pdf).by = NoWorker
                 /\ FreeJob(r.pdf).type = "free_pdf" /\ FreeJob(r.pdf).pdf = r.pdf
                 /\ q \o PdfToFree(r, n) = Append(q, FreeJob(r.pdf))
<1>1. FreeJob(r.pdf) = [type |-> "free_pdf", doc |-> NoDoc, gen |-> 0, prio |-> 0, page |-> 0, width |-> 0,
                        by |-> NoWorker, pdf |-> r.pdf]
  BY DEF FreeJob, NewJob
<1>2. r.pdf \in PdfFile /\ 0 \in Pages
  BY PageFacts DEF Document
<1>3. PICK f : f = FreeJob(r.pdf)
  OBVIOUS
<1>4. f \in Queued /\ f.doc = NoDoc /\ f.by = NoWorker /\ f.type = "free_pdf" /\ f.pdf = r.pdf
  BY <1>1, <1>2, <1>3 DEF Queued, Job
<1>5. q \o <<>> = q /\ q \o <<f>> = Append(q, f) /\ Append(q, f) \in Seq(Queued)
  BY <1>4
<1>6. CASE r.refs <= n /\ r.pdf # NoPdf
  <2>1. PdfToFree(r, n) = <<f>>
    BY <1>3, <1>6 DEF PdfToFree
  <2> QED BY <1>3, <1>4, <1>5, <1>6, <2>1
<1>7. CASE ~ (r.refs <= n /\ r.pdf # NoPdf)
  <2>1. PdfToFree(r, n) = <<>>
    BY <1>7 DEF PdfToFree
  <2> QED BY <1>5, <2>1
<1> QED BY <1>6, <1>7

LEMMA TypeApply ==
    ASSUME TypeInv, ApplyResult
    PROVE  TypeInv'
<1>1. PICK j, r, D : Applied(j, r, D)
  BY ApplyDoes
<1>2. /\ UNCHANGED <<userVars, handles, todo, done, busy, pdfRunning, quitting,
                     wakePending, wakeEvents, decodeQuit>>
      /\ main' = (IF Len(inbox) = 1 THEN "idle" ELSE "poll")
      /\ changed' = ((changed \/ Current(Head(inbox))) /\ Len(inbox) # 1)
      /\ dirty' = (dirty \/ ((changed \/ Current(Head(inbox))) /\ Len(inbox) = 1))
      /\ Signal(Len(queue') > Len(queue)) /\ main = "poll"
  BY DEF ApplyResult, Submit
<1>3. /\ queue \in Seq(Queued) /\ inbox \in Seq(Outcomes) /\ inbox # <<>>
  BY DEF TypeInv, ListsTyped, MainTyped, ApplyResult
<1>4. r \in Document /\ D = [doc EXCEPT ![j.doc] = Unreferenced(r, 1)] /\ D \in [Docs -> Document]
      /\ OnlyTextures(D, doc') /\ queue' = queue \o PdfToFree(r, 1) /\ j.doc \in Docs
      /\ inbox' = Tail(inbox) /\ r.gen = doc[j.doc].gen
      /\ (j.doc \in Pdfs /\ r.state = "ready" => r.npages > 0)
  BY <1>1 DEF Applied, Slimmed
<1>5. PICK u \in Document : /\ u = Unreferenced(r, 1) /\ u.gen <= r.gen
                            /\ u.state = "ready" => r.state = "ready" /\ u.npages = r.npages
  BY <1>4, Unreference
<1>6. commands' = commands /\ commands \in Nat
  BY <1>2, SizesAssumption DEF TypeInv, MainTyped, userVars
<1>7. DocsTyped'
  <2>1. doc \in [Docs -> Document] BY DEF TypeInv, DocsTyped
  <2>2. ASSUME NEW d \in Docs PROVE D[d].gen <= commands'
    <3>1. CASE d = j.doc
      <4>1. D[d] = u BY <1>4, <1>5, <2>1, <3>1
      <4>2. r.gen <= commands BY <1>4 DEF TypeInv, DocsTyped
      <4>3. u.gen \in Nat /\ r.gen \in Nat BY <1>4 DEF Document
      <4> QED BY <1>5, <1>6, <4>1, <4>2, <4>3
    <3>2. CASE d # j.doc
      BY <1>4, <1>6, <2>1, <3>2 DEF TypeInv, DocsTyped
    <3> QED BY <3>1, <3>2
  <2>3. ASSUME NEW d \in Pdfs, D[d].state = "ready" PROVE D[d].npages > 0
    <3>1. CASE d = j.doc
      <4>1. D[d] = u BY <1>4, <1>5, <2>1, <3>1
      <4> QED BY <1>4, <1>5, <2>3, <3>1, <4>1
    <3>2. CASE d # j.doc
      BY <1>4, <2>1, <2>3, <3>2, DocsAssumption DEF TypeInv, DocsTyped
    <3> QED BY <3>1, <3>2
  <2> QED BY <1>4, <2>2, <2>3, TexturesOnly
<1>8. ListsTyped'
  <2>1. queue' \in Seq(Queued) BY <1>3, <1>4, FreeingTyped
  <2>2. inbox' \in Seq(Outcomes) BY <1>3, <1>4
  <2> QED BY <1>2, <2>1, <2>2 DEF TypeInv, ListsTyped
<1>9. WorkTyped'
  BY <1>2, WorkSignalled DEF TypeInv
<1>10. MainTyped'
  <2>1. main' = "poll" => inbox' # <<>>
    <3>1. PICK t \in Seq(Outcomes) : t = inbox'
      <4>1. Tail(inbox) \in Seq(Outcomes) BY <1>3
      <4> QED BY <1>4, <4>1
    <3>2. Len(t) = Len(inbox) - 1 BY <1>3, <1>4, <3>1
    <3>3. t = <<>> => Len(t) = 0 OBVIOUS
    <3>4. t = <<>> => Len(inbox) = 1 BY <1>3, <3>2, <3>3
    <3> QED BY <1>2, <3>1, <3>4
  <2>2. changed' \in BOOLEAN /\ dirty' \in BOOLEAN
    BY <1>2, Zenon
  <2> QED BY <1>2, <2>1, <2>2 DEF TypeInv, MainTyped, userVars, Placed
<1>11. FlagsTyped'
  BY <1>2 DEF TypeInv, FlagsTyped
<1> QED BY <1>7, <1>8, <1>9, <1>10, <1>11 DEF TypeInv

(* D and E hold the same but for which page is shown and what is drawn.    *)
OnlyTurned(D, E) ==
    /\ E \in [Docs -> Document]
    /\ \A d \in Docs : /\ E[d].life = D[d].life /\ E[d].gen = D[d].gen /\ E[d].refs = D[d].refs
                       /\ E[d].state = D[d].state /\ E[d].npages = D[d].npages /\ E[d].pdf = D[d].pdf
                       /\ E[d].loading = D[d].loading /\ TexFrom(E[d].tex, D[d].tex)
                       /\ Bare(D[d]) => Bare(E[d])

(* A frame starts: nothing is drawn yet, and each page shown is a page.    *)
LEMMA FrameStarts ==
    ASSUME TypeInv, StartFrame
    PROVE  /\ OnlyTurned(doc, doc')
           /\ todo' = Placed /\ dirty' = FALSE /\ main = "idle"
           /\ main' = (IF Placed = {} THEN "idle" ELSE "draw")
           /\ UNCHANGED <<userVars, handles, inbox, changed, lockVars, workerVars, decodeQuit>>
<1>1. /\ todo' = Placed /\ dirty' = FALSE /\ main = "idle"
      /\ main' = (IF Placed = {} THEN "idle" ELSE "draw")
      /\ UNCHANGED <<userVars, handles, inbox, changed, lockVars, workerVars, decodeQuit>>
  BY DEF StartFrame
<1>2. doc \in [Docs -> Document]
  BY DEF TypeInv, DocsTyped
<1>3. CASE Placed = {}
  <2>1. doc' = doc BY <1>3 DEF StartFrame
  <2> QED BY <1>1, <1>2, <2>1 DEF OnlyTurned, TexFrom
<1>4. CASE Placed # {}
  <2> DEFINE pg(d) == IF /\ d \in {view[w] : w \in Placed} \cap Pdfs
                        /\ doc[d].state = "ready" /\ doc[d].page >= doc[d].npages
                     THEN doc[d].npages - 1 ELSE doc[d].page
             tx(d) == [p \in Pages |-> [doc[d].tex[p] EXCEPT !.now = FALSE]]
             E == [d \in Docs |-> [doc[d] EXCEPT !.now = FALSE,
                     !.tex = [p \in Pages |-> [@[p] EXCEPT !.now = FALSE]],
                     !.page = IF /\ d \in {view[w] : w \in Placed} \cap Pdfs
                                 /\ doc[d].state = "ready" /\ @ >= doc[d].npages
                              THEN doc[d].npages - 1 ELSE @]]
  <2>1. doc' = E
    BY <1>4 DEF StartFrame
  <2>2. ASSUME NEW d \in Docs
        PROVE  /\ E[d] \in Document
               /\ E[d].life = doc[d].life /\ E[d].gen = doc[d].gen /\ E[d].refs = doc[d].refs
               /\ E[d].state = doc[d].state /\ E[d].npages = doc[d].npages /\ E[d].pdf = doc[d].pdf
               /\ E[d].loading = doc[d].loading /\ TexFrom(E[d].tex, doc[d].tex)
               /\ Bare(doc[d]) => Bare(E[d])
    <3>1. PICK r \in Document : r = doc[d] BY <1>2
    <3>2. PICK t : t = tx(d) OBVIOUS
    <3>3. PICK n : n = pg(d) OBVIOUS
    <3>4. [r EXCEPT !.now = FALSE, !.tex = [p \in Pages |-> [@[p] EXCEPT !.now = FALSE]],
                     !.page = IF /\ d \in {view[w] : w \in Placed} \cap Pdfs
                                 /\ r.state = "ready" /\ @ >= r.npages
                              THEN r.npages - 1 ELSE @]
          = [r EXCEPT !.now = FALSE, !.tex = t, !.page = n]
      BY <3>1, <3>2, <3>3 DEF Document
    <3>5. E[d] = [r EXCEPT !.now = FALSE, !.tex = t, !.page = n]
      BY <3>1, <3>4
    <3>6. t \in [Pages -> Texture]
      <4>1. r.tex \in [Pages -> Texture] BY DEF Document
      <4>2. ASSUME NEW p \in Pages PROVE [r.tex[p] EXCEPT !.now = FALSE] \in Texture
        <5>1. PICK x \in Texture : x = r.tex[p] BY <4>1
        <5>2. [x EXCEPT !.now = FALSE] \in Texture BY DEF Texture
        <5> QED BY <5>1, <5>2
      <4> QED BY <3>1, <3>2, <4>2
    <3>7. n \in Pages
      <4>1. r.page \in Pages /\ r.npages \in 0 .. MAX_PAGES BY DEF Document
      <4>2. d \in Pdfs /\ r.state = "ready" => r.npages > 0
        BY <3>1 DEF TypeInv, DocsTyped
      <4>3. r.npages > 0 => r.npages - 1 \in Pages
        BY <4>1, PageFacts DEF Pages
      <4> QED BY <3>1, <3>3, <4>1, <4>2, <4>3
    <3>8. Bare(r) => t = NoPages
      <4> SUFFICES ASSUME Bare(r) PROVE t = NoPages
        OBVIOUS
      <4>1. \A p \in Pages : r.tex[p] = NoTex BY DEF Bare, NoPages
      <4>2. [NoTex EXCEPT !.now = FALSE] = NoTex
        <5>1. PICK x \in Texture : x = NoTex BY PageFacts
        <5>2. x.now = FALSE BY <5>1 DEF NoTex
        <5>3. [x EXCEPT !.now = FALSE] = x BY <5>2 DEF Texture
        <5> QED BY <5>1, <5>3
      <4> QED BY <3>1, <3>2, <4>1, <4>2 DEF NoPages
    <3>9. PICK e : e = [r EXCEPT !.now = FALSE, !.tex = t, !.page = n] OBVIOUS
    <3>10. e \in Document BY <3>6, <3>7, <3>9 DEF Document
    <3>11. /\ e.life = r.life /\ e.gen = r.gen /\ e.refs = r.refs /\ e.tex = t /\ e.mips = r.mips
           /\ e.state = r.state /\ e.npages = r.npages /\ e.pdf = r.pdf /\ e.loading = r.loading
      BY <3>9 DEF Document
    <3>14. TexFrom(t, r.tex)
      <4>1. r.tex \in [Pages -> Texture] BY DEF Document
      <4>2. ASSUME NEW p \in Pages
            PROVE  t[p].width = r.tex[p].width /\ t[p].stale = r.tex[p].stale /\ t[p].gen = r.tex[p].gen
        <5>1. PICK x \in Texture : x = r.tex[p] BY <4>1
        <5>2. t[p] = [x EXCEPT !.now = FALSE] BY <3>1, <3>2, <5>1
        <5> QED BY <5>1, <5>2 DEF Texture
      <4> QED BY <4>2 DEF TexFrom
    <3>12. Bare(r) => Bare(e) BY <3>8, <3>11 DEF Bare
    <3>13. E[d] = e BY <3>5, <3>9
    <3> HIDE DEF E
    <3> QED BY <3>1, <3>10, <3>11, <3>12, <3>13, <3>14
  <2>3. E = [d \in Docs |-> E[d]]
    OBVIOUS
  <2> HIDE DEF E
  <2>4. OnlyTurned(doc, E)
    BY <2>2, <2>3 DEF OnlyTurned
  <2> QED BY <1>1, <2>1, <2>4
<1> QED BY <1>3, <1>4

LEMMA TypeStartFrame ==
    ASSUME TypeInv, StartFrame
    PROVE  TypeInv'
<1>1. /\ OnlyTurned(doc, doc')
      /\ todo' = Placed /\ dirty' = FALSE /\ main = "idle"
      /\ main' = (IF Placed = {} THEN "idle" ELSE "draw")
      /\ UNCHANGED <<userVars, handles, inbox, changed, lockVars, workerVars, decodeQuit>>
  BY FrameStarts
<1>2. DocsTyped'
  BY <1>1, DocsAssumption DEF TypeInv, DocsTyped, OnlyTurned, userVars
<1>3. MainTyped'
  BY <1>1 DEF TypeInv, MainTyped, userVars, Placed
<1>4. ListsTyped' /\ FlagsTyped' /\ WorkTyped'
  BY <1>1, WorkSame DEF TypeInv, ListsTyped, FlagsTyped, lockVars
<1> QED BY <1>2, <1>3, <1>4 DEF TypeInv

LEMMA LoadMore ==
    ASSUME NEW q \in Seq(Queued), NEW d \in Docs, NEW g \in Nat
    PROVE  /\ MoreOf(Append(q, LoadJob(d, g)), q, d, {"load"})
           /\ Len(Append(q, LoadJob(d, g))) = Len(q) + 1
<1>1. PICK new : new = LoadJob(d, g)
  OBVIOUS
<1>2. /\ new \in Queued /\ new.doc = d /\ new.by = NoWorker /\ new.type = "load"
  <2>1. LoadJob(d, g) = [type |-> "load", doc |-> d, gen |-> g, prio |-> 0, page |-> 0, width |-> 0,
                         by |-> NoWorker, pdf |-> NoPdf]
    BY DEF LoadJob, NewJob
  <2>2. 0 \in Pages /\ NoPdf \in PdfFile /\ d # NoDoc
    BY PageFacts, DocsAssumption
  <2> QED BY <1>1, <2>1, <2>2 DEF Queued, Job
<1>3. PICK s \in Seq(Queued) : s = Append(q, new)
  <2>1. Append(q, new) \in Seq(Queued)
    BY ONLY <1>2, q \in Seq(Queued)
  <2> QED BY <2>1
<1>4. /\ Len(s) = Len(q) + 1 /\ s[Len(q) + 1] = new /\ Len(q) \in Nat
      /\ \A k \in 1 .. Len(q) : s[k] = q[k]
  BY <1>2, <1>3
<1>5. ASSUME NEW e \in Docs
      PROVE  HowMany(s, JobsOf(e)) = HowMany(q, JobsOf(e)) + (IF e = d THEN Len(s) - Len(q) ELSE 0)
  <2>1. HowMany(s, JobsOf(e)) = HowMany(q, JobsOf(e)) + (IF new \in JobsOf(e) THEN 1 ELSE 0)
    BY <1>2, <1>3, OneMore
  <2>2. new \in JobsOf(e) <=> e = d
    BY <1>2 DEF JobsOf
  <2> QED BY <1>4, <2>1, <2>2
<1>6. \A k \in Len(q) + 1 .. Len(s) : s[k] = new
  BY <1>4
<1>7. Len(q) <= Len(s)
  BY <1>4
<1>8. MoreOf(s, q, d, {"load"})
  BY <1>2, <1>4, <1>5, <1>6, <1>7 DEF MoreOf
<1> QED BY <1>1, <1>3, <1>4, <1>8

(* What drawing a window does to the document it shows.                    *)
Drawn(d, e) ==
    LET r == doc[d]
    IN  /\ e \in Document /\ e.life = r.life /\ e.gen = r.gen /\ e.pdf = r.pdf
        /\ e.state = r.state /\ e.npages = r.npages
        /\ e.refs = r.refs + (Len(queue') - Len(queue))
        /\ e.page = r.page /\ TexFrom(e.tex, r.tex)
        /\ doc' = [doc EXCEPT ![d] = e]
        /\ \/ /\ d \notin Pdfs /\ r.state = "ready" /\ ~ r.loading /\ e.loading = TRUE
              /\ queue' = Append(queue, LoadJob(d, r.gen))
           \/ /\ d \in Pdfs /\ e.loading = r.loading
              /\ \E n \in Widths : queue' = Requests(d, n)
           \/ e.loading = r.loading /\ queue' = queue
        /\ \/ MoreOf(queue', queue, d, {"load"})
           \/ d \in Pdfs /\ r.state = "ready" /\ MoreOf(queue', queue, d, {"render"})

LEMMA DrawDoes ==
    ASSUME TypeInv, NEW w \in Windows, DrawPlace(w)
    PROVE  view[w] \in Docs /\ \E e : Drawn(view[w], e)
<1>1. view[w] \in Docs
  BY DEF TypeInv, MainTyped, DrawPlace, Placed
<1>2. PICK d \in Docs : d = view[w]
  BY <1>1
<1>3. PICK old \in Document : old = doc[d]
  BY DEF TypeInv, DocsTyped
<1>4. queue \in Seq(Queued) /\ width[w] \in Widths
  BY DEF TypeInv, ListsTyped, MainTyped
<1>5. [old EXCEPT !.now = TRUE] \in Document
  BY DEF Document
<1>6. PICK r \in Document : r = [old EXCEPT !.now = TRUE]
  BY <1>5
<1>7. /\ r.life = old.life /\ r.gen = old.gen /\ r.pdf = old.pdf /\ r.state = old.state
      /\ r.npages = old.npages /\ r.refs = old.refs /\ r.page = old.page
      /\ r.loading = old.loading /\ r.tex = old.tex
  BY <1>6 DEF Document
<1>8. r.gen \in Nat /\ r.refs \in Int /\ r.page \in Pages /\ r.tex \in [Pages -> Texture]
  BY DEF Document
<1>9. Len(queue) \in Nat
  BY <1>4
<1>14. TexFrom(r.tex, r.tex)
  BY DEF TexFrom
<1>10. CASE /\ doc' = [doc EXCEPT ![d] = Loading(r)] /\ queue' = Append(queue, LoadJob(d, r.gen))
            /\ d \notin Pdfs /\ r.state = "ready" /\ ~ r.loading
  <2>1. MoreOf(queue', queue, d, {"load"}) /\ Len(queue') = Len(queue) + 1
    BY <1>4, <1>8, <1>10, LoadMore
  <2>2. PICK e : e = Loading(r)
    OBVIOUS
  <2>3. /\ e \in Document /\ e.life = r.life /\ e.gen = r.gen /\ e.refs = r.refs + 1
        /\ e.state = r.state /\ e.npages = r.npages /\ e.pdf = r.pdf
        /\ e.loading = TRUE /\ e.page = r.page /\ e.tex = r.tex
    BY <2>2, Reference
  <2>4. e.refs = old.refs + (Len(queue') - Len(queue))
    BY <1>7, <1>8, <1>9, <2>1, <2>3
  <2>5. Drawn(d, e)
    BY <1>3, <1>7, <1>10, <1>14, <2>1, <2>2, <2>3, <2>4 DEF Drawn
  <2> QED BY <1>1, <1>2, <2>5
<1>11. ASSUME d \in Pdfs, r.state = "ready",
              NEW q, q = Requests(d, width[w]), queue' = q,
              doc' = [doc EXCEPT ![d] = [r EXCEPT !.refs = @ + Len(q) - Len(queue),
                                            !.tex[r.page].now = HasTex(doc, d, r.page)]]
       PROVE  \E e : Drawn(d, e)
  <2>1. MoreOf(q, queue, d, {"render"})
    BY <1>3, <1>4, <1>11, RequestsMore
  <2>2. Len(q) \in Nat
    <3>1. q \in Seq(Queued) BY <2>1 DEF MoreOf
    <3> QED BY <3>1
  <2>3. PICK n \in Int : n = r.refs + Len(q) - Len(queue) /\ n = r.refs + (Len(q) - Len(queue))
    BY <1>8, <1>9, <2>2
  <2>4. PICK x \in Texture : x = r.tex[r.page]
    BY <1>8
  <2>5. PICK now \in BOOLEAN : now = HasTex(doc, d, r.page)
    BY Zenon DEF HasTex
  <2>6. [x EXCEPT !.now = now] \in Texture
    BY DEF Texture
  <2>7. PICK t : t = [r.tex EXCEPT ![r.page] = [x EXCEPT !.now = now]]
    OBVIOUS
  <2>8. t \in [Pages -> Texture]
    BY <1>8, <2>6, <2>7
  <2>9. PICK e : e = [r EXCEPT !.refs = n, !.tex = t]
    OBVIOUS
  <2>10. [r EXCEPT !.refs = @ + Len(q) - Len(queue), !.tex[r.page].now = HasTex(doc, d, r.page)] = e
    BY <2>3, <2>4, <2>5, <2>7, <2>9 DEF Document
  <2>11. /\ e \in Document /\ e.life = r.life /\ e.gen = r.gen /\ e.refs = n
         /\ e.state = r.state /\ e.npages = r.npages /\ e.pdf = r.pdf
         /\ e.loading = r.loading /\ e.page = r.page /\ e.tex = t
    BY <2>8, <2>9 DEF Document
  <2>14. TexFrom(t, r.tex)
    <3>1. [x EXCEPT !.now = now].width = x.width /\ [x EXCEPT !.now = now].stale = x.stale
          /\ [x EXCEPT !.now = now].gen = x.gen
      BY DEF Texture
    <3>2. \A p \in Pages : t[p] = r.tex[p] \/ (p = r.page /\ t[p] = [x EXCEPT !.now = now])
      BY <1>8, <2>7
    <3> QED BY <2>4, <3>1, <3>2 DEF TexFrom
  <2>12. e.refs = old.refs + (Len(queue') - Len(queue))
    BY <1>7, <1>11, <2>3, <2>11
  <2>13. Drawn(d, e)
    BY <1>3, <1>4, <1>7, <1>11, <2>1, <2>10, <2>11, <2>12, <2>14 DEF Drawn
  <2> QED BY <2>13
<1>12. CASE doc' = [doc EXCEPT ![d] = r] /\ queue' = queue
  <2>1. MoreOf(queue', queue, d, {"load"})
    BY <1>4, <1>12, NoMore
  <2>2. r.refs = old.refs + (Len(queue') - Len(queue))
    BY <1>7, <1>8, <1>9, <1>12
  <2>3. Drawn(d, r)
    BY <1>3, <1>7, <1>12, <1>14, <2>1, <2>2 DEF Drawn
  <2> QED BY <1>1, <1>2, <2>3
<1>13. \/ /\ doc' = [doc EXCEPT ![d] = Loading(r)] /\ queue' = Append(queue, LoadJob(d, r.gen))
          /\ d \notin Pdfs /\ r.state = "ready" /\ ~ r.loading
       \/ d \in Pdfs /\ r.state = "ready" /\ \E q :
             /\ q = Requests(d, width[w]) /\ queue' = q
             /\ doc' = [doc EXCEPT ![d] = [r EXCEPT !.refs = @ + Len(q) - Len(queue),
                                            !.tex[r.page].now = HasTex(doc, d, r.page)]]
       \/ doc' = [doc EXCEPT ![d] = r] /\ queue' = queue
  BY <1>2, <1>3, <1>6 DEF DrawPlace, Submit
<1> QED BY <1>1, <1>2, <1>10, <1>11, <1>12, <1>13

LEMMA TypeDraw ==
    ASSUME TypeInv, NEW w \in Windows, DrawPlace(w)
    PROVE  TypeInv'
<1>1. /\ UNCHANGED <<userVars, handles, main, inbox, changed, dirty, done, busy,
                     pdfRunning, quitting, wakePending, wakeEvents, decodeQuit>>
      /\ todo' = todo \ {w} /\ Signal(Len(queue') > Len(queue)) /\ main = "draw"
  BY DEF DrawPlace, Submit
<1>0. PICK d \in Docs : \E e : Drawn(d, e)
  BY DrawDoes
<1>2. PICK e : Drawn(d, e)
  BY <1>0
<1>3. PICK r \in Document : r = doc[d]
  BY DEF TypeInv, DocsTyped
<1>4. /\ r.gen <= commands /\ r.gen \in Nat
      /\ d \in Pdfs /\ r.state = "ready" => r.npages > 0
  BY <1>3 DEF TypeInv, DocsTyped, Document
<1>5. commands' = commands /\ commands \in Nat /\ commands <= commands'
  BY <1>1, SizesAssumption DEF TypeInv, MainTyped, userVars
<1>6. /\ e \in Document /\ doc' = [doc EXCEPT ![d] = e] /\ e.gen <= commands'
      /\ d \in Pdfs /\ e.state = "ready" => e.npages > 0
  BY <1>2, <1>3, <1>4, <1>5 DEF Drawn
<1>7. DocsTyped'
  <2>1. DocsTyped BY DEF TypeInv
  <2> QED BY <1>5, <1>6, <2>1, OneDocument
<1>8. queue' \in Seq(Queued)
  BY <1>2 DEF Drawn, MoreOf
<1>9. ListsTyped' /\ FlagsTyped'
  BY <1>1, <1>8 DEF TypeInv, ListsTyped, FlagsTyped
<1>10. WorkTyped'
  BY <1>1, WorkSignalled DEF TypeInv
<1>11. MainTyped'
  BY <1>1 DEF TypeInv, MainTyped, userVars, Placed
<1> QED BY <1>7, <1>9, <1>10, <1>11 DEF TypeInv

(* The end of a frame: D are the documents before the textures are trimmed. *)
ShownPdfs == {view[w] : w \in Placed} \cap Pdfs
Pruned(D) ==
    /\ D \in [Docs -> Document]
    /\ \A d \in Docs : /\ D[d].life = doc[d].life /\ D[d].gen = doc[d].gen /\ D[d].pdf = doc[d].pdf
                       /\ D[d].state = doc[d].state /\ D[d].npages = doc[d].npages
                       /\ D[d].loading = doc[d].loading /\ D[d].page = doc[d].page
                       /\ TexFrom(D[d].tex, doc[d].tex)
                       /\ HowMany(queue', JobsOf(d)) - D[d].refs = HowMany(queue, JobsOf(d)) - doc[d].refs
                       /\ d \notin ShownPdfs => D[d].refs = doc[d].refs
                       /\ Bare(doc[d]) => Bare(D[d])
    /\ \A t \in Textures(doc) : InUse(doc, t) => t \in Textures(D) /\ InUse(D, t)

LEMMA EndDoes ==
    ASSUME TypeInv, EndFrame
    PROVE  /\ queue' = Selected(queue, {k \in DOMAIN queue : ~ (queue[k].doc \in ShownPdfs /\ FlickedPast(queue[k]))})
           /\ queue' \in Seq(Queued)
           /\ \E D : Pruned(D) /\ Slimmed(D, doc')
<1> DEFINE S == {k \in DOMAIN queue : ~ (queue[k].doc \in ShownPdfs /\ FlickedPast(queue[k]))}
           D == [d \in Docs |->
                   IF d \in ShownPdfs
                   THEN [doc[d] EXCEPT !.refs = @ - GivenUp(d), !.tex = Near(doc[d])]
                   ELSE doc[d]]
<1>1. queue' = Selected(queue, S) /\ doc' \in Trimmed(D)
  BY DEF EndFrame, ShownPdfs
<1>2. queue \in Seq(Queued) /\ doc \in [Docs -> Document] /\ DOMAIN queue = 1 .. Len(queue)
  BY DEF TypeInv, ListsTyped, DocsTyped
<1>3. queue' \in Seq(Queued)
  BY <1>1, <1>2, SelectedComes
<1>4. \A k \in DOMAIN queue : queue[k] \in Queued
  BY <1>2
<1>5. ASSUME NEW d \in Docs
      PROVE  /\ GivenUp(d) \in Nat
             /\ HowMany(queue', JobsOf(d)) =
                   HowMany(queue, JobsOf(d)) - (IF d \in ShownPdfs THEN GivenUp(d) ELSE 0)
  <2>1. \A k \in DOMAIN queue : queue[k] \in JobsOf(d) <=> queue[k].doc = d
    BY <1>4 DEF JobsOf
  <2> DEFINE Out == {k \in Spots(queue, JobsOf(d)) : k \notin S}
             Past == {k \in Spots(queue, JobsOf(d)) : FlickedPast(queue[k])}
  <2>2. /\ Cardinality(Out) \in Nat
        /\ HowMany(queue', JobsOf(d)) = HowMany(queue, JobsOf(d)) - Cardinality(Out)
    <3> HIDE DEF S
    <3> QED BY <1>1, <1>2, TakenOut
  <2>3. GivenUp(d) = Cardinality(Past)
    <3>1. {k \in DOMAIN queue : queue[k].doc = d /\ FlickedPast(queue[k])} = Past
      BY <2>1 DEF Spots
    <3> QED BY <3>1 DEF GivenUp
  <2>4. Cardinality(Past) \in Nat
    <3>1. Past \subseteq Spots(queue, JobsOf(d)) /\ IsFiniteSet(Spots(queue, JobsOf(d)))
      BY <1>2, SpotsFinite
    <3>2. IsFiniteSet(Past)
      BY <3>1, FS_Subset
    <3> QED BY <3>2, FS_CardinalityType
  <2>5. HowMany(queue, JobsOf(d)) \in Nat
    BY <1>2, SpotsFinite
  <2>6. CASE d \in ShownPdfs
    <3>1. Out = Past
      BY <2>1, <2>6 DEF Spots
    <3> QED BY <2>2, <2>3, <2>4, <2>6, <3>1
  <2>7. CASE d \notin ShownPdfs
    <3>1. Out = {}
      BY <2>1, <2>7 DEF Spots
    <3>2. Cardinality({}) = 0
      BY FS_EmptySet
    <3> QED BY <2>2, <2>3, <2>4, <2>5, <2>7, <3>1, <3>2
  <2> QED BY <2>6, <2>7
<1>6. ASSUME NEW d \in Docs
      PROVE  /\ D[d] \in Document
             /\ D[d].life = doc[d].life /\ D[d].gen = doc[d].gen /\ D[d].pdf = doc[d].pdf
             /\ D[d].state = doc[d].state /\ D[d].npages = doc[d].npages
             /\ D[d].now = doc[d].now /\ D[d].mips = doc[d].mips
             /\ D[d].loading = doc[d].loading /\ D[d].page = doc[d].page
             /\ TexFrom(D[d].tex, doc[d].tex)
             /\ D[d].refs = doc[d].refs - (IF d \in ShownPdfs THEN GivenUp(d) ELSE 0)
             /\ \A p \in Pages : doc[d].tex[p].now => D[d].tex[p] = doc[d].tex[p]
             /\ Bare(doc[d]) => Bare(D[d])
  <2>1. PICK r \in Document : r = doc[d] BY <1>2
  <2>2. r.refs \in Int /\ r.tex \in [Pages -> Texture] BY DEF Document
  <2>3. CASE d \notin ShownPdfs
    <3>1. D[d] = r BY <2>1, <2>3
    <3>2. TexFrom(r.tex, r.tex) BY DEF TexFrom
    <3> HIDE DEF D
    <3> QED BY <2>1, <2>2, <2>3, <3>1, <3>2
  <2>4. CASE d \in ShownPdfs
    <3>1. PICK n \in Int : n = r.refs - GivenUp(d) BY <1>5, <2>2
    <3>2. PICK t : t = Near(r) OBVIOUS
    <3>3. D[d] = [r EXCEPT !.refs = n, !.tex = t] BY <2>1, <2>4, <3>1, <3>2 DEF Document
    <3>4. t \in [Pages -> Texture]
      <4>1. NoTex \in Texture BY PageFacts
      <4> QED BY <2>2, <3>2, <4>1 DEF Near
    <3>5. \A p \in Pages : r.tex[p].now => t[p] = r.tex[p] BY <3>2 DEF Near
    <3>6. Bare(r) => t = NoPages
      <4> SUFFICES ASSUME Bare(r) PROVE t = NoPages OBVIOUS
      <4>1. \A p \in Pages : r.tex[p] = NoTex BY DEF Bare, NoPages
      <4>2. t = [p \in Pages |-> NoTex] BY <3>2, <4>1 DEF Near
      <4> QED BY <4>2 DEF NoPages
    <3>7. PICK e : e = [r EXCEPT !.refs = n, !.tex = t] OBVIOUS
    <3>8. /\ e \in Document
          /\ e.life = r.life /\ e.gen = r.gen /\ e.pdf = r.pdf /\ e.state = r.state
          /\ e.npages = r.npages /\ e.now = r.now /\ e.mips = r.mips /\ e.refs = n /\ e.tex = t
          /\ e.loading = r.loading /\ e.page = r.page
      BY <3>4, <3>7 DEF Document
    <3>11. TexFrom(t, r.tex) BY <3>2 DEF TexFrom, Near, NoTex
    <3>9. D[d] = e BY <3>3, <3>7
    <3>10. Bare(r) => Bare(e) BY <3>6, <3>8 DEF Bare
    <3> HIDE DEF D
    <3> QED BY <2>1, <2>4, <3>1, <3>5, <3>8, <3>9, <3>10, <3>11
  <2> QED BY <2>3, <2>4
<1>7. D = [d \in Docs |-> D[d]]
  OBVIOUS
<1> HIDE DEF D
<1>8. D \in [Docs -> Document]
  BY <1>6, <1>7
<1>9. ASSUME NEW d \in Docs
      PROVE  HowMany(queue', JobsOf(d)) - D[d].refs = HowMany(queue, JobsOf(d)) - doc[d].refs
  <2>1. PICK r \in Document : r = doc[d] BY <1>2
  <2>2. r.refs \in Int BY DEF Document
  <2>3. HowMany(queue, JobsOf(d)) \in Nat BY <1>2, SpotsFinite
  <2> QED BY <1>5, <1>6, <2>1, <2>2, <2>3
<1>13. ASSUME NEW d \in Docs, d \notin ShownPdfs PROVE D[d].refs = doc[d].refs
  <2>1. PICK r \in Document : r = doc[d] BY <1>2
  <2>2. r.refs \in Int BY DEF Document
  <2> QED BY <1>6, <1>13, <2>1, <2>2
<1>10. ASSUME NEW t \in Textures(doc), InUse(doc, t)
       PROVE  t \in Textures(D) /\ InUse(D, t)
  <2>1. CASE \E d \in Docs : doc[d].mips /\ t = <<d, -1>>
    <3>1. PICK d \in Docs : doc[d].mips /\ t = <<d, -1>> BY <2>1
    <3>2. D[d].mips /\ D[d].now BY <1>6, <1>10, <3>1 DEF InUse
    <3> QED BY <3>1, <3>2 DEF Textures, InUse
  <2>2. CASE \E d \in Docs, p \in Pages : HasTex(doc, d, p) /\ t = <<d, p>>
    <3>1. PICK d \in Docs, p \in Pages : HasTex(doc, d, p) /\ t = <<d, p>> BY <2>2
    <3>2. p # -1 BY PageFacts
    <3>3. doc[d].tex[p].now BY <1>10, <3>1, <3>2 DEF InUse
    <3>4. D[d].tex[p] = doc[d].tex[p] BY <1>6, <3>3
    <3> QED BY <3>1, <3>2, <3>3, <3>4 DEF Textures, InUse, HasTex
  <2> QED BY <2>1, <2>2 DEF Textures
<1>11. Pruned(D)
  BY <1>6, <1>8, <1>9, <1>10, <1>13 DEF Pruned
<1>12. Slimmed(D, doc')
  BY <1>1, <1>8, TrimmedSlims DEF D
<1> QED BY <1>1, <1>3, <1>11, <1>12

LEMMA TypeEndFrame ==
    ASSUME TypeInv, EndFrame
    PROVE  TypeInv'
<1>1. /\ main' = "idle" /\ main = "draw" /\ todo = {}
      /\ UNCHANGED <<userVars, handles, todo, inbox, changed, dirty, done, busy,
                     pdfRunning, quitting, wakePending, wakeEvents, workerVars, decodeQuit>>
  BY DEF EndFrame
<1>2. PICK D : Pruned(D) /\ Slimmed(D, doc')
  BY EndDoes
<1>3. queue' \in Seq(Queued)
  BY EndDoes
<1>4. DocsTyped'
  <2>1. D \in [Docs -> Document] BY <1>2 DEF Pruned
  <2>2. \A d \in Docs : D[d].gen <= commands'
    BY <1>1, <1>2 DEF TypeInv, DocsTyped, Pruned, userVars
  <2>3. \A d \in Pdfs : D[d].state = "ready" => D[d].npages > 0
    BY <1>2, DocsAssumption DEF TypeInv, DocsTyped, Pruned
  <2>4. OnlyTextures(D, doc') BY <1>2 DEF Slimmed
  <2> QED BY <2>1, <2>2, <2>3, <2>4, TexturesOnly
<1>5. ListsTyped' /\ FlagsTyped'
  BY <1>1, <1>3 DEF TypeInv, ListsTyped, FlagsTyped
<1>6. MainTyped'
  BY <1>1 DEF TypeInv, MainTyped, userVars, Placed
<1>7. WorkTyped'
  BY <1>1, WorkSame DEF TypeInv
<1> QED BY <1>4, <1>5, <1>6, <1>7 DEF TypeInv

(* What commands do to a document and to the queue.                        *)
LEMMA OpenDoes ==
    ASSUME TypeInv, NEW d \in Docs, NEW w \in Windows, Open(d, w)
    PROVE  \E e \in Document :
             /\ e.life = "open" /\ e.gen = 1 /\ e.refs = 2 /\ e.state = "loading" /\ e.pdf = NoPdf
             /\ e.loading = TRUE /\ Blank(e) /\ queue' = Append(queue, LoadJob(d, 1))
             /\ doc' = [doc EXCEPT ![d] = e]
             /\ MoreOf(queue', queue, d, {"load"}) /\ Len(queue') = Len(queue) + 1
<1>1. NoRecord("open") \in Document
  BY BlankRecord
<1>2. PICK b \in Document : b = NoRecord("open")
  BY <1>1
<1>3. b.life = "open" /\ b.state = "loading" /\ b.pdf = NoPdf /\ b.tex = NoPages
  BY <1>2 DEF NoRecord
<1>4. [b EXCEPT !.gen = 1, !.refs = 1] \in Document
  <2>1. PICK g \in Nat, n \in Int : g = 1 /\ n = 1
    OBVIOUS
  <2>2. [b EXCEPT !.gen = g, !.refs = n] \in Document
    BY DEF Document
  <2> QED BY <2>1, <2>2
<1>5. PICK c \in Document : c = [b EXCEPT !.gen = 1, !.refs = 1]
  BY <1>4
<1>6. c.life = "open" /\ c.state = "loading" /\ c.pdf = NoPdf /\ c.gen = 1 /\ c.refs = 1 /\ c.tex = NoPages
  BY <1>3, <1>5 DEF Document
<1>7. PICK e : e = Loading(c)
  OBVIOUS
<1>12. c.refs + 1 = 2
  BY <1>6
<1>13. /\ e \in Document /\ e.life = c.life /\ e.gen = c.gen /\ e.refs = c.refs + 1 /\ e.state = c.state
       /\ e.pdf = c.pdf /\ e.loading = TRUE /\ e.tex = c.tex
  BY <1>7, Reference
<1>8. /\ e \in Document /\ e.life = "open" /\ e.gen = 1 /\ e.refs = 2 /\ e.state = "loading" /\ e.pdf = NoPdf
      /\ e.loading = TRUE /\ e.tex = NoPages
  BY <1>6, <1>12, <1>13
<1>9. doc' = [doc EXCEPT ![d] = e] /\ queue' = Append(queue, LoadJob(d, 1))
  BY <1>2, <1>5, <1>7 DEF Open, Submit
<1>10. MoreOf(queue', queue, d, {"load"}) /\ Len(queue') = Len(queue) + 1
  <2>1. queue \in Seq(Queued) /\ 1 \in Nat BY DEF TypeInv, ListsTyped
  <2> QED BY <1>9, <2>1, LoadMore
<1>11. Blank(e) BY <1>8 DEF Blank, NoPages, NoTex
<1> QED BY <1>8, <1>9, <1>10, <1>11

(* Closing makes c of a document, and takes n references from it.          *)
Closing(d, c, n) ==
    LET q == Cancelled(queue, d)
    IN  /\ c \in Document /\ c.life = "closed" /\ Bare(c)
        /\ c.gen = doc[d].gen /\ c.refs = doc[d].refs /\ c.pdf = doc[d].pdf
        /\ c.state = doc[d].state /\ c.npages = doc[d].npages
        /\ n \in Nat /\ n = 1 + (Len(queue) - Len(q))
        /\ doc' = [doc EXCEPT ![d] = Unreferenced(c, n)]
        /\ queue' = q \o PdfToFree(c, n)

LEMMA CloseDoes ==
    ASSUME TypeInv, NEW d \in Docs, Close(d)
    PROVE  \E c, n : Closing(d, c, n)
<1>1. PICK r \in Document : r = doc[d]
  BY DEF TypeInv, DocsTyped
<1>2. PICK n : n = 1 + Len(queue) - Len(Cancelled(queue, d))
  OBVIOUS
<1>3. queue \in Seq(Queued) /\ Len(queue) \in Nat
  BY DEF TypeInv, ListsTyped
<1>4. Len(Cancelled(queue, d)) \in 0 .. Len(queue)
  BY <1>3, CancelledFewer
<1>5. n \in Nat /\ n = 1 + (Len(queue) - Len(Cancelled(queue, d)))
  BY <1>2, <1>3, <1>4
<1>6. PICK c : c = [r EXCEPT !.life = "closed", !.mips = FALSE, !.tex = NoPages]
  OBVIOUS
<1>7. /\ c \in Document /\ c.life = "closed" /\ c.mips = FALSE /\ c.tex = NoPages
      /\ c.gen = r.gen /\ c.refs = r.refs /\ c.pdf = r.pdf
      /\ c.state = r.state /\ c.npages = r.npages
  BY <1>6, PageFacts DEF Document
<1>8. PdfToFree(doc[d], n) = PdfToFree(c, n)
  BY <1>1, <1>7 DEF PdfToFree
<1>9. doc' = [doc EXCEPT ![d] = Unreferenced(c, n)] /\ queue' = Cancelled(queue, d) \o PdfToFree(c, n)
  BY <1>1, <1>2, <1>6, <1>8 DEF Close
<1>10. Closing(d, c, n)
  BY <1>1, <1>5, <1>7, <1>9 DEF Closing, Bare
<1> QED BY <1>10

LEMMA ReloadDoes ==
    ASSUME TypeInv, NEW d \in Docs, Reload(d)
    PROVE  \E e \in Document :
             /\ e.life = doc[d].life /\ e.gen = doc[d].gen + 1 /\ e.pdf = doc[d].pdf
             /\ e.refs = doc[d].refs - (Len(queue) - Len(Cancelled(queue, d))) + 1
             /\ doc' = [doc EXCEPT ![d] = e]
             /\ MoreOf(queue', Cancelled(queue, d), d, {"load"})
             /\ e.state = "ready" => doc[d].state = "ready" /\ e.npages = doc[d].npages
             /\ e.loading = TRUE /\ e.tex = doc[d].tex /\ e.state \in {"loading", "ready"}
             /\ queue' = Append(Cancelled(queue, d), LoadJob(d, e.gen))
             /\ Len(queue') = Len(Cancelled(queue, d)) + 1
<1>1. PICK old \in Document : old = doc[d]
  BY DEF TypeInv, DocsTyped
<1>2. PICK q : q = Cancelled(queue, d)
  OBVIOUS
<1>3. queue \in Seq(Queued) /\ Len(queue) \in Nat
  BY DEF TypeInv, ListsTyped
<1>4. q \in Seq(Queued) /\ Len(q) \in 0 .. Len(queue)
  BY <1>2, <1>3, CancelledFewer
<1>5. old.refs \in Int /\ old.gen \in Nat
  BY DEF Document
<1>6. PICK n \in Int : n = old.refs - (Len(queue) - Len(q))
  BY <1>3, <1>4, <1>5
<1>7. PICK g \in Nat : g = old.gen + 1
  BY <1>5
<1>8. PICK st \in {"loading", "ready"} : st = IF old.state = "failed" THEN "loading" ELSE old.state
  BY DEF Document
<1>9. PICK r : r = [old EXCEPT !.gen = g, !.errors = {}, !.refs = n, !.state = st]
  OBVIOUS
<1>10. /\ r \in Document /\ r.life = old.life /\ r.gen = g /\ r.refs = n /\ r.state = st
       /\ r.npages = old.npages /\ r.pdf = old.pdf /\ r.tex = old.tex
  BY <1>9 DEF Document
<1>11. [doc[d] EXCEPT !.gen = @ + 1, !.errors = {},
                 !.refs = @ - (Len(queue) - Len(q)),
                 !.state = IF @ = "failed" THEN "loading" ELSE @] = r
  <2>1. PICK a : a = [old EXCEPT !.gen = g]
    OBVIOUS
  <2>2. PICK b : b = [a EXCEPT !.errors = {}]
    OBVIOUS
  <2>3. PICK c : c = [b EXCEPT !.refs = n]
    OBVIOUS
  <2>4. a \in Document /\ a.refs = old.refs /\ a.state = old.state
    BY <2>1 DEF Document
  <2>5. b \in Document /\ b.refs = old.refs /\ b.state = old.state
    BY <2>2, <2>4 DEF Document
  <2>6. c \in Document /\ c.state = old.state
    BY <2>3, <2>5 DEF Document
  <2>7. r = [c EXCEPT !.state = st]
    BY <1>9, <2>1, <2>2, <2>3
  <2>8. [old EXCEPT !.gen = @ + 1] = a
    BY <1>7, <2>1 DEF Document
  <2>9. [b EXCEPT !.refs = @ - (Len(queue) - Len(q))] = c
    BY <1>6, <2>3, <2>5
  <2>10. [c EXCEPT !.state = IF @ = "failed" THEN "loading" ELSE @] = r
    BY <1>8, <2>6, <2>7
  <2> QED BY <1>1, <2>2, <2>8, <2>9, <2>10
<1>12. PICK e : e = Loading(r)
  OBVIOUS
<1>13. /\ e \in Document /\ e.life = r.life /\ e.gen = r.gen /\ e.refs = r.refs + 1
       /\ e.state = r.state /\ e.npages = r.npages /\ e.pdf = r.pdf
       /\ e.loading = TRUE /\ e.tex = r.tex
  BY <1>10, <1>12, Reference
<1>14. doc' = [doc EXCEPT ![d] = e] /\ queue' = Append(q, LoadJob(d, r.gen))
  BY <1>2, <1>11, <1>12 DEF Reload
<1>15. MoreOf(queue', q, d, {"load"}) /\ Len(queue') = Len(q) + 1
  <2>1. r.gen \in Nat BY <1>10
  <2> QED BY <1>4, <1>14, <2>1, LoadMore
<1>16. e.state = "ready" => old.state = "ready"
  BY <1>8, <1>10, <1>13
<1>17. /\ e.life = old.life /\ e.gen = old.gen + 1 /\ e.pdf = old.pdf
       /\ e.npages = old.npages /\ e.tex = old.tex /\ e.gen = r.gen /\ e.state \in {"loading", "ready"}
       /\ e.refs = old.refs - (Len(queue) - Len(q)) + 1
  BY <1>6, <1>7, <1>8, <1>10, <1>13
<1> QED BY <1>1, <1>2, <1>13, <1>14, <1>15, <1>16, <1>17

(* A command leaves the rest as typed as it was.                           *)
LEMMA CommandTyped ==
    ASSUME TypeInv, Command, queue' \in Seq(Queued),
           view' \in [Windows -> Docs \cup {NoDoc}], width' \in [Windows -> Widths]
    PROVE  /\ ListsTyped' /\ MainTyped' /\ FlagsTyped'
           /\ commands \in Nat /\ commands' \in Nat /\ commands' = commands + 1
<1>1. /\ main = "idle" /\ commands < MAX_COMMANDS /\ commands' = commands + 1 /\ dirty' = TRUE
      /\ UNCHANGED <<main, todo, inbox, changed, done, busy, pdfRunning, quitting, decodeQuit>>
  BY DEF Command
<1>2. commands \in 0 .. MAX_COMMANDS /\ todo = {}
  BY <1>1 DEF TypeInv, MainTyped
<1>3. commands \in Nat /\ commands' \in Nat /\ commands' \in 0 .. MAX_COMMANDS
  BY <1>1, <1>2, SizesAssumption
<1>4. ListsTyped' /\ FlagsTyped'
  BY <1>1 DEF TypeInv, ListsTyped, FlagsTyped
<1>5. MainTyped'
  BY <1>1, <1>2, <1>3 DEF TypeInv, MainTyped
<1> QED BY <1>1, <1>3, <1>4, <1>5

LEMMA TypeUser ==
    ASSUME TypeInv, User
    PROVE  TypeInv'
<1>1. /\ doc \in [Docs -> Document] /\ queue \in Seq(Queued)
      /\ view \in [Windows -> Docs \cup {NoDoc}] /\ width \in [Windows -> Widths]
      /\ DocsTyped /\ WorkTyped
  BY DEF TypeInv, DocsTyped, ListsTyped, MainTyped
<1>2. ASSUME NEW d \in Docs, NEW w \in Windows, Open(d, w) PROVE TypeInv'
  <2>1. PICK e \in Document :
             /\ e.gen = 1 /\ e.state = "loading" /\ doc' = [doc EXCEPT ![d] = e]
             /\ MoreOf(queue', queue, d, {"load"})
    BY <1>2, OpenDoes
  <2>2. queue' \in Seq(Queued) BY <2>1 DEF MoreOf
  <2>3. Command /\ view' = [view EXCEPT ![w] = d] /\ width' = width /\ \E s : Signal(s)
    BY <1>2 DEF Open, Submit
  <2>4. view' \in [Windows -> Docs \cup {NoDoc}] BY <1>1, <2>3
  <2>5. /\ ListsTyped' /\ MainTyped' /\ FlagsTyped'
        /\ commands \in Nat /\ commands' \in Nat /\ commands' = commands + 1
    BY <1>1, <2>2, <2>3, <2>4, CommandTyped
  <2>6. e.gen <= commands' /\ commands <= commands' /\ e.state # "ready"
    BY <2>1, <2>5
  <2>7. DocsTyped' BY <1>1, <2>1, <2>5, <2>6, OneDocument
  <2>8. WorkTyped' BY <1>1, <2>3, WorkSignalled
  <2> QED BY <2>5, <2>7, <2>8 DEF TypeInv
<1>3. ASSUME NEW d \in Docs, Close(d) PROVE TypeInv'
  <2>1. PICK c, n : Closing(d, c, n)
    BY <1>3, CloseDoes
  <2>2. /\ c \in Document /\ n \in Nat /\ c.gen = doc[d].gen /\ c.state = doc[d].state
        /\ c.npages = doc[d].npages
        /\ doc' = [doc EXCEPT ![d] = Unreferenced(c, n)]
        /\ queue' = Cancelled(queue, d) \o PdfToFree(c, n)
    BY <2>1 DEF Closing
  <2>3. queue' \in Seq(Queued)
    <3>1. Cancelled(queue, d) \in Seq(Queued) BY <1>1, CancelledFewer
    <3> QED BY <2>2, <3>1, FreeingTyped
  <2>4. /\ Command /\ width' = width /\ \E s : Signal(s)
        /\ view' = [w \in Windows |-> IF view[w] = d THEN NoDoc ELSE view[w]]
    BY <1>3 DEF Close
  <2>5. view' \in [Windows -> Docs \cup {NoDoc}] BY <1>1, <2>4
  <2>6. /\ ListsTyped' /\ MainTyped' /\ FlagsTyped'
        /\ commands \in Nat /\ commands' \in Nat /\ commands' = commands + 1
    BY <1>1, <2>3, <2>4, <2>5, CommandTyped
  <2>7. PICK u \in Document : /\ u = Unreferenced(c, n) /\ u.gen <= c.gen
                              /\ u.state = "ready" => c.state = "ready" /\ u.npages = c.npages
    BY <2>2, Unreference
  <2>8. u.gen <= commands' /\ commands <= commands'
    <3>1. c.gen <= commands BY <2>2 DEF TypeInv, DocsTyped
    <3>2. u.gen \in Nat /\ c.gen \in Nat BY <2>2 DEF Document
    <3> QED BY <2>6, <2>7, <3>1, <3>2
  <2>9. d \in Pdfs /\ u.state = "ready" => u.npages > 0
    BY <2>2, <2>7 DEF TypeInv, DocsTyped
  <2>10. doc' = [doc EXCEPT ![d] = u] BY <2>2, <2>7
  <2>11. DocsTyped' BY <1>1, <2>6, <2>8, <2>9, <2>10, OneDocument
  <2>12. WorkTyped' BY <1>1, <2>4, WorkSignalled
  <2> QED BY <2>6, <2>11, <2>12 DEF TypeInv
<1>4. ASSUME NEW d \in Docs, Reload(d) PROVE TypeInv'
  <2>1. PICK e \in Document :
             /\ e.gen = doc[d].gen + 1
             /\ e.state = "ready" => doc[d].state = "ready" /\ e.npages = doc[d].npages
             /\ doc' = [doc EXCEPT ![d] = e]
             /\ MoreOf(queue', Cancelled(queue, d), d, {"load"})
    BY <1>4, ReloadDoes
  <2>2. queue' \in Seq(Queued) BY <2>1 DEF MoreOf
  <2>3. Command /\ view' = view /\ width' = width /\ \E s : Signal(s)
    BY <1>4 DEF Reload
  <2>4. /\ ListsTyped' /\ MainTyped' /\ FlagsTyped'
        /\ commands \in Nat /\ commands' \in Nat /\ commands' = commands + 1
    BY <1>1, <2>2, <2>3, CommandTyped
  <2>5. e.gen <= commands' /\ commands <= commands'
    <3>1. PICK r \in Document : r = doc[d] BY <1>1
    <3>2. r.gen <= commands /\ r.gen \in Nat BY <3>1 DEF TypeInv, DocsTyped, Document
    <3> QED BY <2>1, <2>4, <3>1, <3>2
  <2>6. d \in Pdfs /\ e.state = "ready" => e.npages > 0
    BY <2>1 DEF TypeInv, DocsTyped
  <2>7. DocsTyped' BY <1>1, <2>1, <2>4, <2>5, <2>6, OneDocument
  <2>8. WorkTyped' BY <1>1, <2>3, WorkSignalled
  <2> QED BY <2>4, <2>7, <2>8 DEF TypeInv
<1>5. ASSUME NEW d \in Docs, NEW p \in Pages, TurnPage(d, p) PROVE TypeInv'
  <2>1. Command /\ UNCHANGED <<view, width, queue, workerVars>> /\ doc' = [doc EXCEPT ![d].page = p]
    BY <1>5 DEF TurnPage
  <2>2. /\ ListsTyped' /\ MainTyped' /\ FlagsTyped'
        /\ commands \in Nat /\ commands' \in Nat /\ commands' = commands + 1
    BY <1>1, <2>1, CommandTyped
  <2>3. PICK r \in Document : r = doc[d] BY <1>1
  <2>4. PICK e : e = [r EXCEPT !.page = p] OBVIOUS
  <2>5. e \in Document /\ e.gen = r.gen /\ e.state = r.state /\ e.npages = r.npages
    BY <2>4 DEF Document
  <2>6. doc' = [doc EXCEPT ![d] = e] BY <1>1, <2>1, <2>3, <2>4
  <2>7. e.gen <= commands' /\ commands <= commands'
    <3>1. r.gen <= commands /\ r.gen \in Nat BY <2>3 DEF TypeInv, DocsTyped, Document
    <3> QED BY <2>2, <2>5, <3>1
  <2>8. d \in Pdfs /\ e.state = "ready" => e.npages > 0
    BY <2>3, <2>5 DEF TypeInv, DocsTyped
  <2>9. DocsTyped' BY <1>1, <2>2, <2>5, <2>6, <2>7, <2>8, OneDocument
  <2>10. WorkTyped' BY <1>1, <2>1, WorkSame
  <2> QED BY <2>2, <2>9, <2>10 DEF TypeInv
<1>6. ASSUME Command, UNCHANGED <<doc, queue, workerVars>>, view' \in [Windows -> Docs \cup {NoDoc}],
             width' \in [Windows -> Widths]
      PROVE  TypeInv'
  <2>1. /\ ListsTyped' /\ MainTyped' /\ FlagsTyped'
        /\ commands \in Nat /\ commands' \in Nat /\ commands' = commands + 1
    BY <1>1, <1>6, CommandTyped
  <2>2. commands <= commands' BY <2>1
  <2>3. DocsTyped' BY <1>1, <1>6, <2>1, <2>2, SameDocuments
  <2>4. WorkTyped' BY <1>1, <1>6, WorkSame
  <2> QED BY <2>1, <2>3, <2>4 DEF TypeInv
<1>7. ASSUME NEW w \in Windows, NEW d \in Docs \cup {NoDoc}, Show(w, d) PROVE TypeInv'
  <2>1. /\ Command /\ view' = [view EXCEPT ![w] = d]
        /\ UNCHANGED <<doc, width, queue, workerVars>>
    BY <1>7 DEF Show
  <2>2. view' \in [Windows -> Docs \cup {NoDoc}] /\ width' \in [Windows -> Widths]
    BY <1>1, <2>1
  <2> QED BY <1>6, <2>1, <2>2
<1>8. ASSUME NEW w \in Windows, NEW n \in Widths, Resize(w, n) PROVE TypeInv'
  <2>1. /\ Command /\ width' = [width EXCEPT ![w] = n]
        /\ UNCHANGED <<doc, view, queue, workerVars>>
    BY <1>8 DEF Resize
  <2>2. view' \in [Windows -> Docs \cup {NoDoc}] /\ width' \in [Windows -> Widths]
    BY <1>1, <2>1
  <2> QED BY <1>6, <2>1, <2>2
<1>9. CASE DeviceReset
  <2>1. /\ Command /\ UNCHANGED <<view, width, queue, workerVars>>
        /\ doc' = Without(doc, Textures(doc))
    BY <1>9 DEF DeviceReset
  <2>2. /\ ListsTyped' /\ MainTyped' /\ FlagsTyped'
        /\ commands \in Nat /\ commands' \in Nat /\ commands' = commands + 1
    BY <1>1, <2>1, CommandTyped
  <2>3. OnlyTextures(doc, doc') BY <1>1, <2>1, WithoutTyped
  <2>4. ASSUME NEW d \in Docs PROVE doc[d].gen <= commands'
    <3>1. PICK r \in Document : r = doc[d] BY <1>1
    <3>2. r.gen <= commands /\ r.gen \in Nat BY <3>1 DEF TypeInv, DocsTyped, Document
    <3> QED BY <2>2, <3>1, <3>2
  <2>5. \A d \in Pdfs : doc[d].state = "ready" => doc[d].npages > 0 BY <1>1 DEF DocsTyped
  <2>6. DocsTyped' BY <1>1, <2>3, <2>4, <2>5, TexturesOnly
  <2>7. WorkTyped' BY <1>1, <2>1, WorkSame
  <2> QED BY <2>2, <2>6, <2>7 DEF TypeInv
<1>10. CASE Shutdown
  <2>1. /\ main = "idle" /\ main' = "stopping" /\ quitting' = TRUE /\ pc' = Woken(pc)
        /\ UNCHANGED <<docVars, userVars, todo, inbox, changed, dirty, queue, done, busy,
                       pdfRunning, job, result, decodeQuit>>
    BY <1>10 DEF Shutdown
  <2>2. MainTyped' BY <2>1 DEF TypeInv, MainTyped, userVars, Placed
  <2>3. DocsTyped' /\ ListsTyped' /\ FlagsTyped'
    BY <2>1 DEF TypeInv, DocsTyped, ListsTyped, FlagsTyped, docVars, userVars
  <2>4. /\ pc' \in [Workers -> {"unstarted", "loop", "wait", "run", "ran", "exited"}]
        /\ \A i \in Workers : pc'[i] \in {"run", "ran"} => pc'[i] = pc[i]
    BY <1>1, <2>1 DEF Woken, WorkTyped
  <2>5. WorkTyped' BY <1>1, <2>1, <2>4 DEF WorkTyped, AtWork
  <2> QED BY <2>2, <2>3, <2>5 DEF TypeInv
<1> QED BY <1>2, <1>3, <1>4, <1>5, <1>7, <1>8, <1>9, <1>10 DEF User

LEMMA TypeStop ==
    ASSUME TypeInv, Stop
    PROVE  TypeInv'
<1>1. /\ main = "stopping" /\ main' = "stopped" /\ decodeQuit' = AllStopped
      /\ doc' = Without(doc, Textures(doc)) /\ view' = [w \in Windows |-> NoDoc]
      /\ UNCHANGED <<handles, width, commands, todo, inbox, changed, dirty, lockVars, workerVars>>
  BY DEF Stop
<1>2. doc \in [Docs -> Document] BY DEF TypeInv, DocsTyped
<1>3. OnlyTextures(doc, doc') BY <1>1, <1>2, WithoutTyped
<1>4. DocsTyped' BY <1>1, <1>2, <1>3, TexturesOnly DEF TypeInv, DocsTyped
<1>5. decodeQuit' \in BOOLEAN BY <1>1, Zenon DEF AllStopped
<1>6. MainTyped' BY <1>1, <1>5 DEF TypeInv, MainTyped
<1>7. ListsTyped' /\ FlagsTyped' /\ WorkTyped'
  BY <1>1, WorkSame DEF TypeInv, ListsTyped, FlagsTyped, lockVars
<1> QED BY <1>4, <1>6, <1>7 DEF TypeInv

LEMMA TypeStep == TypeInv /\ [Next]_vars => TypeInv'
<1> SUFFICES ASSUME TypeInv, [Next]_vars PROVE TypeInv'
  OBVIOUS
<1>1. CASE UNCHANGED vars
  BY <1>1, WorkSame DEF vars, docVars, userVars, mainVars, lockVars, TypeInv, DocsTyped, ListsTyped,
                        MainTyped, FlagsTyped, Placed
<1>2. CASE Main
  BY <1>2, TypePoll, TypeApply, TypeStartFrame, TypeDraw, TypeEndFrame, TypeStop DEF Main
<1>3. ASSUME NEW i \in Workers, Worker(i) PROVE TypeInv'
  BY <1>3, TypeTake, TypeRest, TypeRun, TypeFinish DEF Worker
<1> QED BY <1>1, <1>2, <1>3, TypeUser DEF Next

-----------------------------------------------------------------------------
(* Jobs in hand.  A worker at work has exactly one job in the queue, which *)
(* is the one it works on, and no other job there is being run.            *)
Alike(a, b) == a.by = b.by /\ a.doc = b.doc /\ a.type = b.type /\ a.pdf = b.pdf
OneEach(q) == \A k, m \in DOMAIN q : q[k].by = q[m].by /\ q[k].by # NoWorker => k = m
InHand(j, mine, i) == j.by = i /\ j.doc = mine.doc /\ j.type = mine.type /\ j.pdf = mine.pdf
WorkHeld ==
    /\ OneEach(queue)
    /\ \A k \in DOMAIN queue : queue[k].by # NoWorker => AtWork(queue[k].by)
    /\ \A i \in Workers : AtWork(i) => \E k \in DOMAIN queue : InHand(queue[k], job[i], i)

(* The same jobs are being run in r as in q.                               *)
KeepsRunning(q, r) ==
    /\ OneEach(q) => OneEach(r)
    /\ \A k \in DOMAIN q : q[k].by # NoWorker => \E m \in DOMAIN r : Alike(r[m], q[k])
    /\ \A m \in DOMAIN r : r[m].by # NoWorker => \E k \in DOMAIN q : q[k].by = r[m].by

LEMMA KeepsAgain ==
    ASSUME NEW q, NEW r, NEW s, KeepsRunning(q, r), KeepsRunning(r, s)
    PROVE  KeepsRunning(q, s)
<1>1. ASSUME NEW k \in DOMAIN q, q[k].by # NoWorker
      PROVE  \E m \in DOMAIN s : Alike(s[m], q[k])
  <2>1. PICK l \in DOMAIN r : Alike(r[l], q[k]) BY <1>1 DEF KeepsRunning
  <2>2. PICK m \in DOMAIN s : Alike(s[m], r[l]) BY <1>1, <2>1 DEF KeepsRunning, Alike
  <2> QED BY <2>1, <2>2 DEF Alike
<1>2. ASSUME NEW m \in DOMAIN s, s[m].by # NoWorker
      PROVE  \E k \in DOMAIN q : q[k].by = s[m].by
  <2>1. PICK l \in DOMAIN r : r[l].by = s[m].by BY <1>2 DEF KeepsRunning
  <2>2. PICK k \in DOMAIN q : q[k].by = r[l].by BY <1>2, <2>1 DEF KeepsRunning
  <2> QED BY <2>1, <2>2
<1> QED BY <1>1, <1>2 DEF KeepsRunning

LEMMA MoreKeeps ==
    ASSUME NEW q \in Seq(Queued), NEW r \in Seq(Queued), NEW d, NEW ts, MoreOf(r, q, d, ts)
    PROVE  KeepsRunning(q, r)
<1>1. /\ Len(q) \in Nat /\ Len(r) \in Nat /\ DOMAIN q = 1 .. Len(q) /\ DOMAIN r = 1 .. Len(r)
  OBVIOUS
<1>2. /\ Len(q) <= Len(r)
      /\ \A k \in 1 .. Len(q) : Alike(r[k], q[k])
      /\ \A k \in Len(q) + 1 .. Len(r) : r[k].by = NoWorker
  BY DEF MoreOf, Alike
<1>3. \A k \in DOMAIN q : k \in DOMAIN r
  BY <1>1, <1>2
<1>4. \A m \in DOMAIN r : r[m].by # NoWorker => m \in DOMAIN q
  BY <1>1, <1>2
<1>5. \A k \in DOMAIN q : r[k].by = q[k].by
  BY <1>1, <1>2 DEF Alike
<1>6. OneEach(q) => OneEach(r)
  BY <1>4, <1>5 DEF OneEach
<1>7. \A k \in DOMAIN q : Alike(r[k], q[k])
  BY <1>1, <1>2
<1> QED BY <1>3, <1>4, <1>5, <1>6, <1>7 DEF KeepsRunning

LEMMA FreeingKeeps ==
    ASSUME NEW q \in Seq(Queued), NEW r \in Document, NEW n
    PROVE  KeepsRunning(q, q \o PdfToFree(r, n))
<1>1. \A k \in DOMAIN q : Alike(q[k], q[k])
  BY DEF Alike
<1>2. KeepsRunning(q, q)
  BY <1>1 DEF KeepsRunning
<1>3. ASSUME NEW f \in Queued, f.by = NoWorker PROVE KeepsRunning(q, Append(q, f))
  <2>1. PICK a \in Seq(Queued) : a = Append(q, f)
    <3>1. Append(q, f) \in Seq(Queued) OBVIOUS
    <3> QED BY <3>1
  <2>2. /\ Len(q) \in Nat /\ Len(a) = Len(q) + 1 /\ DOMAIN q = 1 .. Len(q) /\ DOMAIN a = 1 .. Len(q) + 1
        /\ a[Len(q) + 1] = f /\ \A k \in 1 .. Len(q) : a[k] = q[k]
    BY <2>1
  <2>3. \A k \in DOMAIN q : k \in DOMAIN a /\ a[k] = q[k]
    BY <2>2
  <2>4. \A m \in DOMAIN a : a[m].by # NoWorker => m \in DOMAIN q
    BY <1>3, <2>2
  <2>5. OneEach(q) => OneEach(a)
    BY <2>3, <2>4 DEF OneEach
  <2>6. KeepsRunning(q, a)
    BY <1>1, <2>3, <2>4, <2>5 DEF KeepsRunning
  <2> QED BY <2>1, <2>6
<1>4. CASE q \o PdfToFree(r, n) = q
  BY <1>2, <1>4
<1>5. CASE q \o PdfToFree(r, n) = Append(q, FreeJob(r.pdf)) /\ FreeJob(r.pdf) \in Queued /\ FreeJob(r.pdf).by = NoWorker
  BY <1>3, <1>5
<1> QED BY <1>4, <1>5, FreeingTyped

(* Taking out jobs that wait leaves those running.                         *)
LEMMA SelectedKeeps ==
    ASSUME NEW q \in Seq(Queued), NEW S, \A k \in DOMAIN q : q[k].by # NoWorker => k \in S
    PROVE  KeepsRunning(q, Selected(q, S))
<1>1. PICK r \in Seq(Queued) : r = Selected(q, S) BY SelectedComes
<1>2. PICK e : ComesFrom(r, q, S, Len(q), e) BY <1>1, SelectedComes
<1>3. /\ DOMAIN r = 1 .. Len(r) /\ DOMAIN q = 1 .. Len(q) /\ Len(q) \in Nat /\ Len(r) \in Nat
  OBVIOUS
<1>4. /\ \A k \in DOMAIN r : e[k] \in DOMAIN q /\ e[k] \in S /\ r[k] = q[e[k]]
      /\ \A j \in DOMAIN r, k \in DOMAIN r : j < k => e[j] < e[k]
      /\ \A i \in DOMAIN q : i \in S => \E k \in DOMAIN r : e[k] = i
  BY <1>2, <1>3 DEF ComesFrom
<1>5. \A j \in DOMAIN r, k \in DOMAIN r : e[j] = e[k] => j = k
  <2> SUFFICES ASSUME NEW j \in DOMAIN r, NEW k \in DOMAIN r, e[j] = e[k], j # k PROVE FALSE
    OBVIOUS
  <2>1. j < k \/ k < j BY <1>3
  <2>2. e[j] < e[k] \/ e[k] < e[j] BY <1>4, <2>1
  <2>3. e[j] \in Nat /\ e[k] \in Nat BY <1>3, <1>4
  <2> QED BY <2>2, <2>3
<1>6. OneEach(q) => OneEach(r)
  BY <1>4, <1>5 DEF OneEach
<1>7. \A k \in DOMAIN q : q[k].by # NoWorker => \E m \in DOMAIN r : Alike(r[m], q[k])
  BY <1>4 DEF Alike
<1>8. \A m \in DOMAIN r : \E k \in DOMAIN q : q[k].by = r[m].by
  BY <1>4
<1> QED BY <1>1, <1>6, <1>7, <1>8 DEF KeepsRunning

LEMMA HeldStill ==
    ASSUME WorkHeld, KeepsRunning(queue, queue'), job' = job, \A i \in Workers : AtWork(i)' <=> AtWork(i),
           queue' \in Seq(Queued)
    PROVE  WorkHeld'
<1>1. OneEach(queue')
  BY DEF WorkHeld, KeepsRunning
<1>2. ASSUME NEW m \in DOMAIN queue', queue'[m].by # NoWorker PROVE pc'[queue'[m].by] \in {"run", "ran"}
  <2>1. PICK k \in DOMAIN queue : queue[k].by = queue'[m].by BY <1>2 DEF KeepsRunning
  <2>2. queue'[m] \in Queued BY <1>2
  <2>3. queue'[m].by \in Workers BY <1>2, <2>2 DEF Queued, Job
  <2>4. PICK i \in Workers : i = queue'[m].by BY <2>3
  <2>5. AtWork(i) BY <1>2, <2>1, <2>4 DEF WorkHeld
  <2>6. AtWork(i)' BY <2>5
  <2> QED BY <2>4, <2>6 DEF AtWork
<1>3. ASSUME NEW i \in Workers, AtWork(i)'
      PROVE  \E k \in DOMAIN queue' : InHand(queue'[k], job'[i], i)
  <2>1. PICK k \in DOMAIN queue : InHand(queue[k], job[i], i) BY <1>3 DEF WorkHeld
  <2>2. queue[k].by # NoWorker BY <2>1, WorkersAssumption DEF InHand
  <2>3. PICK m \in DOMAIN queue' : Alike(queue'[m], queue[k]) BY <2>2 DEF KeepsRunning
  <2> QED BY <2>1, <2>3 DEF Alike, InHand
<1> QED BY <1>1, <1>2, <1>3 DEF WorkHeld, OneEach, AtWork, InHand

LEMMA HeldInit == Init => WorkHeld
  BY DEF Init, WorkHeld, OneEach, AtWork

LEMMA HeldTake ==
    ASSUME TypeInv, WorkHeld, NEW i \in Workers, Take(i)
    PROVE  WorkHeld'
<1>1. PICK k \in Runnable :
         /\ job' = [job EXCEPT ![i] = queue[k]]
         /\ queue' = [queue EXCEPT ![k].by = i]
  BY DEF Take
<1>2. pc' = [pc EXCEPT ![i] = "run"] /\ ~ AtWork(i)
  BY DEF Take, AtWork
<1>3. /\ queue \in Seq(Queued) /\ k \in DOMAIN queue /\ queue[k].by = NoWorker
      /\ DOMAIN pc = Workers /\ DOMAIN job = Workers
  BY <1>1 DEF TypeInv, ListsTyped, WorkTyped, Runnable, CanRun
<1>4. DOMAIN queue' = DOMAIN queue /\ \A m \in DOMAIN queue : m # k => queue'[m] = queue[m]
  BY <1>1, <1>3
<1>5. /\ queue'[k].by = i /\ queue'[k].doc = queue[k].doc /\ queue'[k].type = queue[k].type
      /\ queue'[k].pdf = queue[k].pdf
  <2>1. PICK j \in Queued : j = queue[k] BY <1>3
  <2>2. queue'[k] = [j EXCEPT !.by = i] BY <1>1, <1>3, <2>1
  <2> QED BY <2>1, <2>2 DEF Queued, Job
<1>6. i # NoWorker
  BY WorkersAssumption
<1>7. \A m \in DOMAIN queue : queue[m].by # i
  BY <1>2, <1>6 DEF WorkHeld
<1>8. OneEach(queue')
  <2> SUFFICES ASSUME NEW m \in DOMAIN queue, NEW n \in DOMAIN queue,
                      queue'[m].by = queue'[n].by, queue'[m].by # NoWorker
               PROVE  m = n
    BY <1>4 DEF OneEach
  <2>1. CASE m = k /\ n = k BY <2>1
  <2>2. CASE m = k /\ n # k BY <1>4, <1>5, <1>7, <2>2
  <2>3. CASE m # k /\ n = k BY <1>4, <1>5, <1>7, <2>3
  <2>4. CASE m # k /\ n # k BY <1>4, <2>4 DEF WorkHeld, OneEach
  <2> QED BY <2>1, <2>2, <2>3, <2>4
<1>9. \A m \in Workers : m # i => (pc'[m] = pc[m] /\ job'[m] = job[m])
  BY <1>1, <1>2, <1>3
<1>10. pc'[i] = "run" /\ job'[i] = queue[k]
  BY <1>1, <1>2, <1>3
<1>11. ASSUME NEW m \in DOMAIN queue, queue'[m].by # NoWorker PROVE pc'[queue'[m].by] \in {"run", "ran"}
  <2>1. CASE m = k BY <1>5, <1>10, <2>1
  <2>2. CASE m # k
    <3>1. queue[m] \in Queued /\ queue'[m] = queue[m] BY <1>3, <1>4, <2>2
    <3>2. PICK n \in Workers : n = queue[m].by BY <1>11, <3>1 DEF Queued, Job
    <3>3. AtWork(n) /\ n # i BY <1>7, <1>11, <3>1, <3>2 DEF WorkHeld
    <3> QED BY <1>9, <3>1, <3>2, <3>3 DEF AtWork
  <2> QED BY <2>1, <2>2
<1>12. ASSUME NEW m \in Workers, pc'[m] \in {"run", "ran"}
       PROVE  \E n \in DOMAIN queue : InHand(queue'[n], job'[m], m)
  <2>1. CASE m = i BY <1>3, <1>5, <1>10, <2>1 DEF InHand
  <2>2. CASE m # i
    <3>1. AtWork(m) BY <1>9, <1>12, <2>2 DEF AtWork
    <3>2. PICK n \in DOMAIN queue : InHand(queue[n], job[m], m) BY <3>1 DEF WorkHeld
    <3>3. n # k BY <1>3, <3>2, WorkersAssumption DEF InHand
    <3> QED BY <1>4, <1>9, <2>2, <3>2, <3>3
  <2> QED BY <2>1, <2>2
<1> QED BY <1>4, <1>8, <1>11, <1>12 DEF WorkHeld, AtWork, OneEach

LEMMA HeldFinish ==
    ASSUME TypeInv, WorkHeld, NEW i \in Workers, Finish(i)
    PROVE  WorkHeld'
<1>1. /\ queue' = Selected(queue, {k \in DOMAIN queue : queue[k].by # i})
      /\ job' = [job EXCEPT ![i] = NoJob]
      /\ pc' = Woken([pc EXCEPT ![i] = "loop"]) /\ pc[i] = "ran"
  BY DEF Finish
<1>2. /\ queue \in Seq(Queued) /\ DOMAIN pc = Workers /\ DOMAIN job = Workers
  BY DEF TypeInv, ListsTyped, WorkTyped
<1> DEFINE S == {k \in DOMAIN queue : queue[k].by # i}
<1>3. PICK r \in Seq(Queued) : r = queue'
  BY <1>1, <1>2, SelectedComes
<1>4. PICK e : ComesFrom(r, queue, S, Len(queue), e)
  BY <1>1, <1>2, <1>3, SelectedComes
<1>5. /\ DOMAIN r = 1 .. Len(r) /\ DOMAIN queue = 1 .. Len(queue) /\ Len(queue) \in Nat /\ Len(r) \in Nat
  BY <1>2
<1>6. /\ \A k \in DOMAIN r : e[k] \in DOMAIN queue /\ e[k] \in S /\ r[k] = queue[e[k]]
      /\ \A j \in DOMAIN r, k \in DOMAIN r : j < k => e[j] < e[k]
      /\ \A m \in DOMAIN queue : m \in S => \E k \in DOMAIN r : e[k] = m
  BY <1>4, <1>5 DEF ComesFrom
<1>7. \A j \in DOMAIN r, k \in DOMAIN r : e[j] = e[k] => j = k
  <2> SUFFICES ASSUME NEW j \in DOMAIN r, NEW k \in DOMAIN r, e[j] = e[k], j # k PROVE FALSE
    OBVIOUS
  <2>1. j < k \/ k < j BY <1>5
  <2>2. e[j] < e[k] \/ e[k] < e[j] BY <1>6, <2>1
  <2>3. e[j] \in Nat /\ e[k] \in Nat BY <1>5, <1>6
  <2> QED BY <2>2, <2>3
<1>8. \A m \in Workers : /\ m # i => job'[m] = job[m] /\ (AtWork(m)' <=> AtWork(m))
                         /\ m = i => ~ AtWork(m)'
  BY <1>1, <1>2 DEF Woken, AtWork
<1>9. OneEach(r)
  BY <1>6, <1>7 DEF WorkHeld, OneEach
<1>10. ASSUME NEW m \in DOMAIN r, r[m].by # NoWorker PROVE pc'[r[m].by] \in {"run", "ran"}
  <2>1. e[m] \in DOMAIN queue /\ queue[e[m]].by # i /\ r[m] = queue[e[m]] BY <1>6
  <2>2. r[m] \in Queued BY <1>3
  <2>3. PICK n \in Workers : n = r[m].by BY <1>10, <2>2 DEF Queued, Job
  <2>4. AtWork(n) BY <1>10, <2>1, <2>3 DEF WorkHeld
  <2>5. AtWork(n)' BY <1>8, <2>1, <2>3, <2>4
  <2> QED BY <2>3, <2>5 DEF AtWork
<1>11. ASSUME NEW m \in Workers, AtWork(m)'
       PROVE  \E k \in DOMAIN r : InHand(r[k], job'[m], m)
  <2>1. m # i /\ AtWork(m) /\ job'[m] = job[m] BY <1>8, <1>11
  <2>2. PICK n \in DOMAIN queue : InHand(queue[n], job[m], m) BY <2>1 DEF WorkHeld
  <2>3. n \in S BY <2>1, <2>2 DEF InHand
  <2>4. PICK k \in DOMAIN r : e[k] = n BY <1>6, <2>3
  <2> QED BY <1>6, <2>1, <2>2, <2>4
<1> QED BY <1>3, <1>9, <1>10, <1>11 DEF WorkHeld, AtWork, OneEach, InHand

LEMMA HeldSame ==
    ASSUME TypeInv, WorkHeld, UNCHANGED <<queue, workerVars>>
    PROVE  WorkHeld'
  BY DEF WorkHeld, workerVars, AtWork, OneEach, InHand

LEMMA HeldSignalled ==
    ASSUME TypeInv, TypeInv', WorkHeld, NEW s, Signal(s), KeepsRunning(queue, queue')
    PROVE  WorkHeld'
<1>1. DOMAIN pc = Workers /\ queue' \in Seq(Queued)
  BY DEF TypeInv, WorkTyped, ListsTyped
<1>2. job' = job /\ \A i \in Workers : AtWork(i)' <=> AtWork(i)
  BY <1>1, SignalKeepsWork
<1> QED BY <1>1, <1>2, HeldStill

LEMMA HeldStep == TypeInv /\ TypeInv' /\ WorkHeld /\ [Next]_vars => WorkHeld'
<1> SUFFICES ASSUME TypeInv, TypeInv', WorkHeld, [Next]_vars PROVE WorkHeld'
  OBVIOUS
<1>0. queue \in Seq(Queued) /\ queue' \in Seq(Queued) /\ doc \in [Docs -> Document] /\ DOMAIN pc = Workers
  BY DEF TypeInv, ListsTyped, DocsTyped, WorkTyped
<1>1. ASSUME NEW i \in Workers, Worker(i) PROVE WorkHeld'
  <2>1. CASE Take(i) BY <2>1, HeldTake
  <2>2. CASE Finish(i) BY <2>2, HeldFinish
  <2>3. CASE Sleep(i) \/ Exit(i) \/ Run(i)
    <3>1. /\ UNCHANGED <<queue, job>>
          /\ \/ pc' = [pc EXCEPT ![i] = "wait"] /\ pc[i] = "loop"
             \/ pc' = [pc EXCEPT ![i] = "exited"] /\ pc[i] = "loop"
             \/ pc' = [pc EXCEPT ![i] = "ran"] /\ pc[i] = "run"
      BY <2>3 DEF Sleep, Exit, Run, lockVars
    <3>2. \A m \in Workers : AtWork(m)' <=> AtWork(m)
      BY <1>0, <3>1 DEF AtWork
    <3>3. KeepsRunning(queue, queue')
      BY <3>1 DEF KeepsRunning, Alike
    <3> QED BY <1>0, <3>1, <3>2, <3>3, HeldStill
  <2> QED BY <1>1, <2>1, <2>2, <2>3 DEF Worker
<1>2. CASE User
  <2>1. ASSUME NEW d \in Docs, NEW w \in Windows, Open(d, w) PROVE WorkHeld'
    <3>1. MoreOf(queue', queue, d, {"load"}) BY <2>1, OpenDoes
    <3>2. KeepsRunning(queue, queue') BY <1>0, <3>1, MoreKeeps
    <3> QED BY <2>1, <3>2, HeldSignalled DEF Open, Submit
  <2>2. ASSUME NEW d \in Docs PROVE KeepsRunning(queue, Cancelled(queue, d))
    <3>1. \A k \in DOMAIN queue : queue[k].by # NoWorker =>
             k \in {m \in DOMAIN queue : ~ (queue[m].doc = d /\ queue[m].by = NoWorker)}
      OBVIOUS
    <3> QED BY <1>0, <3>1, SelectedKeeps DEF Cancelled
  <2>3. ASSUME NEW d \in Docs, Close(d) PROVE WorkHeld'
    <3>1. PICK c, n : Closing(d, c, n) BY <2>3, CloseDoes
    <3>2. c \in Document /\ queue' = Cancelled(queue, d) \o PdfToFree(c, n) BY <3>1 DEF Closing
    <3>3. Cancelled(queue, d) \in Seq(Queued) BY <1>0, CancelledFewer
    <3>4. KeepsRunning(Cancelled(queue, d), queue') BY <3>2, <3>3, FreeingKeeps
    <3>5. KeepsRunning(queue, queue') BY <2>2, <3>4, KeepsAgain
    <3>6. PICK s : Signal(s) BY <2>3 DEF Close
    <3> QED BY <3>5, <3>6, HeldSignalled
  <2>4. ASSUME NEW d \in Docs, Reload(d) PROVE WorkHeld'
    <3>1. MoreOf(queue', Cancelled(queue, d), d, {"load"}) BY <2>4, ReloadDoes
    <3>2. Cancelled(queue, d) \in Seq(Queued) BY <1>0, CancelledFewer
    <3>3. KeepsRunning(Cancelled(queue, d), queue') BY <1>0, <3>1, <3>2, MoreKeeps
    <3>4. KeepsRunning(queue, queue') BY <2>2, <3>3, KeepsAgain
    <3>5. PICK s : Signal(s) BY <2>4 DEF Reload
    <3> QED BY <3>4, <3>5, HeldSignalled
  <2>5. CASE Shutdown
    <3>1. UNCHANGED <<queue, job>> /\ pc' = Woken(pc) BY <2>5 DEF Shutdown
    <3>2. KeepsRunning(queue, queue') BY <3>1 DEF KeepsRunning, Alike
    <3>3. \A m \in Workers : AtWork(m)' <=> AtWork(m) BY <3>1 DEF Woken, AtWork
    <3> QED BY <1>0, <3>1, <3>2, <3>3, HeldStill
  <2> QED BY <1>2, <2>1, <2>3, <2>4, <2>5, HeldSame DEF User, TurnPage, Show, Resize, DeviceReset
<1>3. CASE Main
  <2>1. CASE Poll BY <2>1, HeldSame DEF Poll
  <2>2. CASE ApplyResult
    <3>1. PICK j, r, D : Applied(j, r, D) BY <2>2, ApplyDoes
    <3>2. r \in Document /\ queue' = queue \o PdfToFree(r, 1) BY <3>1 DEF Applied
    <3>3. KeepsRunning(queue, queue') BY <1>0, <3>2, FreeingKeeps
    <3>4. PICK s : Signal(s) BY <2>2 DEF ApplyResult, Submit
    <3> QED BY <3>3, <3>4, HeldSignalled
  <2>3. CASE StartFrame BY <2>3, HeldSame DEF StartFrame, lockVars
  <2>4. ASSUME NEW w \in Windows, DrawPlace(w) PROVE WorkHeld'
    <3>1. PICK e : Drawn(view[w], e) BY <2>4, DrawDoes
    <3>2. KeepsRunning(queue, queue') BY <1>0, <3>1, MoreKeeps DEF Drawn
    <3>3. PICK s : Signal(s) BY <2>4 DEF DrawPlace, Submit
    <3> QED BY <3>2, <3>3, HeldSignalled
  <2>5. CASE EndFrame
    <3> DEFINE S == {k \in DOMAIN queue : ~ (queue[k].doc \in ShownPdfs /\ FlickedPast(queue[k]))}
    <3>1. queue' = Selected(queue, S) BY <2>5, EndDoes
    <3>2. \A k \in DOMAIN queue : queue[k].by # NoWorker => k \in S BY DEF FlickedPast
    <3>3. KeepsRunning(queue, queue')
      <4> HIDE DEF S
      <4> QED BY <1>0, <3>1, <3>2, SelectedKeeps
    <3>4. job' = job /\ \A m \in Workers : AtWork(m)' <=> AtWork(m)
      BY <2>5 DEF EndFrame, workerVars, AtWork
    <3> QED BY <1>0, <3>3, <3>4, HeldStill
  <2>6. CASE Stop BY <2>6, HeldSame DEF Stop, lockVars
  <2> QED BY <1>3, <2>1, <2>2, <2>3, <2>4, <2>5, <2>6 DEF Main
<1>4. CASE UNCHANGED vars
  BY <1>4, HeldSame DEF vars, lockVars
<1> QED BY <1>1, <1>2, <1>3, <1>4 DEF Next

-----------------------------------------------------------------------------
(* References.  What ReferencesCounted says, with what makes it inductive: *)
(* documents not open or closed have no references, only open ones have    *)
(* textures or are shown, and results are applied only by a poll.          *)
Owed(d) == HowMany(queue, JobsOf(d)) + HowMany(done, JobsOf(d)) + HowMany(inbox, JobsOf(d))
Balanced(r, n) ==
    /\ r.refs = n + (IF r.life = "open" THEN 1 ELSE 0)
    /\ r.life = "closed" => n > 0
    /\ r.life \in {"new", "freed"} => n = 0
    /\ r.life # "open" => Bare(r)
ShownAreLive == \A w \in Windows : view[w] # NoDoc => Live(view[w])
Emptied == main # "poll" => inbox = <<>>
CountInv == (\A d \in Docs : Balanced(doc[d], Owed(d))) /\ ShownAreLive /\ Emptied

LEMMA CountsAreNat ==
    ASSUME TypeInv, NEW d \in Docs
    PROVE  /\ HowMany(queue, JobsOf(d)) \in Nat /\ HowMany(done, JobsOf(d)) \in Nat
           /\ HowMany(inbox, JobsOf(d)) \in Nat /\ Owed(d) \in Nat
<1>1. queue \in Seq(Queued) /\ done \in Seq(Outcomes) /\ inbox \in Seq(Outcomes)
  BY DEF TypeInv, ListsTyped
<1>2. HowMany(queue, JobsOf(d)) \in Nat /\ HowMany(done, JobsOf(d)) \in Nat /\ HowMany(inbox, JobsOf(d)) \in Nat
  BY <1>1, SpotsFinite
<1> QED BY <1>2 DEF Owed

LEMMA Balance ==
    ASSUME NEW r \in Document, NEW e \in Document, NEW n \in Nat, NEW m \in Nat,
           e.life = r.life, e.refs = r.refs + (m - n), Bare(r) => Bare(e), Balanced(r, n),
           r.life = "open" \/ m = n
    PROVE  Balanced(e, m)
<1>1. r.refs \in Int /\ e.refs \in Int BY DEF Document
<1> QED BY <1>1 DEF Balanced

LEMMA OpenBalance ==
    ASSUME NEW r \in Document, NEW e \in Document, NEW n \in Nat, NEW m \in Nat,
           r.life = "open", e.life = r.life, e.refs = r.refs + (m - n), Balanced(r, n)
    PROVE  Balanced(e, m)
<1>1. r.refs \in Int /\ e.refs \in Int BY DEF Document
<1> QED BY <1>1 DEF Balanced

(* k references of a document that is not open are given back, as many     *)
(* jobs being gone.                                                        *)
LEMMA GivenBack ==
    ASSUME NEW r \in Document, NEW n \in Nat, NEW m \in Nat, NEW k \in Nat,
           r.life # "new", r.refs = m + k + (IF r.life = "open" THEN 1 ELSE 0),
           r.life # "open" => Bare(r), r.life = "freed" => m + k = 0
    PROVE  Balanced(Unreferenced(r, k), m)
<1>1. r.refs \in Int /\ r.life \in {"new", "open", "closed", "freed"} BY DEF Document
<1>2. CASE r.refs > k
  <2>1. PICK e \in Document : /\ e = Unreferenced(r, k) /\ e.life = r.life /\ e.refs = r.refs - k
                              /\ e.tex = r.tex /\ e.mips = r.mips
    BY <1>2, Unreference
  <2>2. Bare(r) => Bare(e) BY <2>1 DEF Bare
  <2>3. e.refs = m + (IF e.life = "open" THEN 1 ELSE 0) BY <1>1, <2>1
  <2>4. e.life = "closed" => m > 0 BY <1>1, <1>2, <2>1
  <2>5. e.life \in {"new", "freed"} => m = 0 BY <1>1, <2>1
  <2> QED BY <2>1, <2>2, <2>3, <2>4, <2>5 DEF Balanced
<1>3. CASE ~ (r.refs > k)
  <2>1. Unreferenced(r, k) = NoRecord("freed") BY <1>3 DEF Unreferenced
  <2>2. m = 0 BY <1>1, <1>3
  <2> QED BY <2>1, <2>2 DEF Balanced, NoRecord, Bare
<1> QED BY <1>2, <1>3

LEMMA CountInit == Init => CountInv
<1> SUFFICES ASSUME Init PROVE CountInv
  OBVIOUS
<1>1. ASSUME NEW d \in Docs PROVE Balanced(doc[d], Owed(d))
  <2>1. doc[d] = NoRecord("new") BY DEF Init
  <2>2. Owed(d) = 0 BY NoneInEmpty DEF Init, Owed
  <2> QED BY <2>1, <2>2 DEF Balanced, NoRecord, Bare
<1> QED BY <1>1 DEF Init, CountInv, ShownAreLive, Emptied

(* A step that changes one document, and the number of jobs of no other.   *)
LEMMA CountOne ==
    ASSUME CountInv, NEW d \in Docs, NEW e, doc \in [Docs -> Document], doc' = [doc EXCEPT ![d] = e],
           \A c \in Docs : c # d => Owed(c)' = Owed(c), Balanced(e, Owed(d)'),
           \A w \in Windows : view'[w] \in {NoDoc, view[w]} \/ view'[w] = d,
           \A w \in Windows : view'[w] = d => e.life = "open", Emptied'
    PROVE  CountInv'
<1>1. ASSUME NEW c \in Docs PROVE Balanced(doc'[c], Owed(c)')
  <2>1. CASE c = d BY <2>1
  <2>2. CASE c # d
    <3>1. doc'[c] = doc[c] BY <2>2
    <3>2. Owed(c)' = Owed(c) BY <2>2
    <3> QED BY <3>1, <3>2 DEF CountInv
  <2> QED BY <2>1, <2>2
<1>2. ShownAreLive'
  BY DocsAssumption DEF CountInv, ShownAreLive, Live
<1> QED BY <1>1, <1>2 DEF CountInv, Balanced, Bare

(* A step that changes no number of jobs, and no document's references.    *)
LEMMA CountAll ==
    ASSUME CountInv, TypeInv, TypeInv',
           \A d \in Docs : /\ doc'[d].life = doc[d].life /\ doc'[d].refs = doc[d].refs
                           /\ Bare(doc[d]) => Bare(doc'[d])
                           /\ Owed(d)' = Owed(d),
           ShownAreLive', Emptied'
    PROVE  CountInv'
<1>1. ASSUME NEW d \in Docs PROVE Balanced(doc'[d], Owed(d)')
  <2>1. Balanced(doc[d], Owed(d)) BY DEF CountInv
  <2>2. Owed(d)' = Owed(d) OBVIOUS
  <2>3. Balanced(doc'[d], Owed(d)) BY <2>1 DEF Balanced
  <2> QED BY <2>2, <2>3
<1> QED BY <1>1 DEF CountInv, Balanced, Bare

LEMMA OwedSame ==
    ASSUME UNCHANGED <<queue, done, inbox>>
    PROVE  \A d \in Docs : Owed(d)' = Owed(d)
  BY DEF Owed, HowMany, Spots, JobsOf

LEMMA CountFinish ==
    ASSUME TypeInv, TypeInv', WorkHeld, CountInv, NEW i \in Workers, Finish(i)
    PROVE  CountInv'
<1>1. /\ queue' = Selected(queue, {k \in DOMAIN queue : queue[k].by # i})
      /\ UNCHANGED <<docVars, userVars, mainVars>> /\ pc[i] = "ran"
      /\ IF job[i].type = "free_pdf" THEN done' = done
         ELSE done' = <<Finished(job[i], result[i])>> \o done
  BY DEF Finish
<1>2. /\ queue \in Seq(Queued) /\ done \in Seq(Outcomes) /\ job[i] \in Queued /\ result[i] \in Result
      /\ HasPages(job[i].type, job[i].doc, result[i].error, result[i].npages)
  BY <1>1 DEF TypeInv, ListsTyped, WorkTyped, AtWork
<1>3. PICK k \in DOMAIN queue : InHand(queue[k], job[i], i)
  BY <1>1 DEF WorkHeld, AtWork
<1> DEFINE S == {m \in DOMAIN queue : queue[m].by # i}
<1>4. \A m \in DOMAIN queue : m \notin S <=> m = k
  BY <1>3, WorkersAssumption DEF WorkHeld, OneEach, InHand
<1>5. \A m \in DOMAIN queue : queue[m] \in Queued
  BY <1>2
<1> HIDE DEF S
<1>6. ASSUME NEW d \in Docs PROVE Owed(d)' = Owed(d)
  <2> DEFINE Out == {m \in Spots(queue, JobsOf(d)) : m \notin S}
             one == IF job[i].doc = d THEN 1 ELSE 0
  <2>1. queue[k] \in JobsOf(d) <=> job[i].doc = d
    BY <1>3, <1>5 DEF JobsOf, InHand
  <2>2. Cardinality(Out) = one
    <3>1. CASE job[i].doc = d
      <4>1. Out = {k} BY <1>4, <2>1, <3>1 DEF Spots
      <4> QED BY <3>1, <4>1, FS_Singleton
    <3>2. CASE job[i].doc # d
      <4>1. Out = {} BY <1>4, <2>1, <3>2 DEF Spots
      <4> QED BY <3>2, <4>1, FS_EmptySet
    <3> QED BY <3>1, <3>2
  <2>3. HowMany(Selected(queue, S), JobsOf(d)) = HowMany(queue, JobsOf(d)) - Cardinality(Out)
    BY <1>2, TakenOut
  <2>4. queue' = Selected(queue, S) BY <1>1 DEF S
  <2>5. HowMany(queue', JobsOf(d)) = HowMany(queue, JobsOf(d)) - one
    BY <2>2, <2>3, <2>4
  <2>6. HowMany(done', JobsOf(d)) = HowMany(done, JobsOf(d)) + one
    <3>1. HowMany(done, JobsOf(d)) \in Nat BY CountsAreNat
    <3>2. CASE job[i].type = "free_pdf"
      <4>1. job[i].doc # d BY <1>2, <3>2, DocsAssumption DEF Queued
      <4> QED BY <1>1, <3>1, <3>2, <4>1
    <3>3. CASE job[i].type # "free_pdf"
      <4>1. PICK x \in Outcomes : x = Finished(job[i], result[i]) /\ x.doc = job[i].doc
        BY <1>2, <3>3, OutcomeTyped
      <4>2. done' = <<x>> \o done BY <1>1, <3>3, <4>1
      <4>3. HowMany(<<x>> \o done, JobsOf(d)) = HowMany(done, JobsOf(d)) + (IF x \in JobsOf(d) THEN 1 ELSE 0)
        BY <1>2, OnePut
      <4>4. x \in JobsOf(d) <=> job[i].doc = d BY <4>1 DEF JobsOf
      <4> QED BY <4>2, <4>3, <4>4
    <3> QED BY <3>2, <3>3
  <2>7. inbox' = inbox BY <1>1 DEF mainVars
  <2>8. one \in Nat OBVIOUS
  <2>9. Owed(d)' = HowMany(queue', JobsOf(d)) + HowMany(done', JobsOf(d)) + HowMany(inbox, JobsOf(d))
    BY <2>7 DEF Owed, JobsOf
  <2> HIDE DEF one
  <2> QED BY <2>5, <2>6, <2>8, <2>9, CountsAreNat DEF Owed
<1>7. doc' = doc /\ ShownAreLive' /\ Emptied'
  BY <1>1 DEF CountInv, ShownAreLive, Live, Emptied, docVars, userVars, mainVars
<1> QED BY <1>6, <1>7, CountAll

LEMMA CountTake ==
    ASSUME TypeInv, TypeInv', CountInv, NEW i \in Workers, Take(i)
    PROVE  CountInv'
<1>1. PICK k \in Runnable : queue' = [queue EXCEPT ![k].by = i]
  BY DEF Take
<1>2. UNCHANGED <<docVars, userVars, mainVars, done>>
  BY DEF Take
<1>3. queue \in Seq(Queued) /\ queue' \in Seq(Queued) /\ k \in DOMAIN queue
  BY <1>1 DEF TypeInv, ListsTyped, Runnable
<1>4. Len(queue') = Len(queue) /\ DOMAIN queue = 1 .. Len(queue) BY <1>1, <1>3
<1>5. \A m \in 1 .. Len(queue) : /\ queue'[m] \in Queued /\ queue[m] \in Queued
                                 /\ queue'[m].doc = queue[m].doc
  <2>1. ASSUME NEW m \in 1 .. Len(queue) PROVE queue'[m].doc = queue[m].doc
    <3>1. CASE m = k
      <4>1. PICK j \in Queued : j = queue[k] BY <1>3
      <4>2. queue'[k] = [j EXCEPT !.by = i] BY <1>1, <1>3, <4>1
      <4> QED BY <3>1, <4>1, <4>2 DEF Queued, Job
    <3>2. CASE m # k BY <1>1, <1>3, <1>4, <3>2
    <3> QED BY <3>1, <3>2
  <2>2. \A m \in 1 .. Len(queue) : queue'[m] \in Queued /\ queue[m] \in Queued
    BY <1>3, <1>4
  <2> QED BY <2>1, <2>2
<1>6. ASSUME NEW d \in Docs PROVE Owed(d)' = Owed(d)
  <2>1. \A m \in 1 .. Len(queue) : queue[m] \in JobsOf(d) <=> queue'[m] \in JobsOf(d)
    BY <1>5 DEF JobsOf
  <2>2. HowMany(queue', JobsOf(d)) = HowMany(queue, JobsOf(d))
    BY <1>3, <1>4, <2>1, SameSpots
  <2>3. done' = done /\ inbox' = inbox BY <1>2 DEF mainVars
  <2> QED BY <2>2, <2>3 DEF Owed, JobsOf
<1>7. doc' = doc /\ ShownAreLive' /\ Emptied'
  BY <1>2 DEF CountInv, ShownAreLive, Live, Emptied, docVars, userVars, mainVars
<1> QED BY <1>6, <1>7, CountAll

LEMMA CountRest ==
    ASSUME TypeInv, TypeInv', CountInv, NEW i \in Workers, Sleep(i) \/ Exit(i) \/ Run(i)
    PROVE  CountInv'
<1>1. UNCHANGED <<userVars, mainVars, lockVars>>
  BY DEF Sleep, Exit, Run
<1>2. \A d \in Docs : Owed(d)' = Owed(d)
  BY <1>1, OwedSame DEF mainVars, lockVars
<1>3. \A d \in Docs : /\ doc'[d].life = doc[d].life /\ doc'[d].refs = doc[d].refs
                      /\ doc'[d].tex = doc[d].tex /\ doc'[d].mips = doc[d].mips
  <2>1. CASE Sleep(i) \/ Exit(i) BY <2>1 DEF Sleep, Exit, docVars
  <2>2. CASE Run(i)
    <3>1. CASE doc' = doc BY <3>1
    <3>2. ASSUME NEW pdf \in PdfFile, doc' = [doc EXCEPT ![job[i].doc].pdf = pdf]
          PROVE  \A d \in Docs : /\ doc'[d].life = doc[d].life /\ doc'[d].refs = doc[d].refs
                                 /\ doc'[d].tex = doc[d].tex /\ doc'[d].mips = doc[d].mips
      <4> SUFFICES ASSUME NEW d \in Docs
                   PROVE  /\ doc'[d].life = doc[d].life /\ doc'[d].refs = doc[d].refs
                          /\ doc'[d].tex = doc[d].tex /\ doc'[d].mips = doc[d].mips
        OBVIOUS
      <4>1. PICK r \in Document : r = doc[d] BY DEF TypeInv, DocsTyped
      <4>2. doc'[d] = r \/ doc'[d] = [r EXCEPT !.pdf = pdf] BY <3>2, <4>1 DEF TypeInv, DocsTyped
      <4> QED BY <4>1, <4>2 DEF Document
    <3> QED BY <2>2, <3>1, <3>2, RunDoes
  <2> QED BY <2>1, <2>2
<1>4. \A d \in Docs : Bare(doc[d]) => Bare(doc'[d])
  BY <1>3 DEF Bare
<1>5. ShownAreLive' /\ Emptied'
  <2>1. view' = view /\ main' = main /\ inbox' = inbox BY <1>1 DEF userVars, mainVars
  <2>2. \A w \in Windows : view[w] # NoDoc => view[w] \in Docs BY DEF TypeInv, MainTyped
  <2> QED BY <1>3, <2>1, <2>2 DEF CountInv, ShownAreLive, Live, Emptied
<1> QED BY <1>2, <1>3, <1>4, <1>5, CountAll

LEMMA CountPoll ==
    ASSUME TypeInv, TypeInv', CountInv, Poll
    PROVE  CountInv'
<1>1. /\ inbox' = Reverse(done) /\ done' = <<>> /\ main = "idle"
      /\ main' = (IF done = <<>> THEN "idle" ELSE "poll")
      /\ UNCHANGED <<docVars, userVars, queue>>
  BY DEF Poll
<1>2. done \in Seq(Outcomes) /\ inbox = <<>>
  BY <1>1 DEF TypeInv, ListsTyped, CountInv, Emptied
<1>3. inbox' = [i \in 1 .. Len(done) |-> done[(Len(done) - i) + 1]]
  BY <1>1 DEF Reverse
<1>4. ASSUME NEW d \in Docs PROVE Owed(d)' = Owed(d)
  <2>1. HowMany(inbox', JobsOf(d)) = HowMany(done, JobsOf(d)) BY <1>2, <1>3, ReversedCount
  <2>2. HowMany(<<>>, JobsOf(d)) = 0 BY NoneInEmpty
  <2>3. Owed(d)' = HowMany(queue, JobsOf(d)) + 0 + HowMany(done, JobsOf(d))
    BY <1>1, <2>1, <2>2 DEF Owed, JobsOf
  <2>4. Owed(d) = HowMany(queue, JobsOf(d)) + HowMany(done, JobsOf(d)) + 0
    BY <1>2, <2>2 DEF Owed
  <2> QED BY <2>3, <2>4, CountsAreNat
<1>5. Len(inbox') = Len(done) /\ inbox' \in Seq(Outcomes) BY <1>2, <1>3, ReversedCount
<1>6. main' # "poll" => inbox' = <<>> BY <1>1, <1>2, <1>5
<1>7. doc' = doc /\ ShownAreLive' /\ Emptied'
  BY <1>1, <1>6 DEF CountInv, ShownAreLive, Live, Emptied, docVars, userVars
<1> QED BY <1>4, <1>7, CountAll

LEMMA OwedLater ==
    ASSUME TypeInv', NEW d \in Docs
    PROVE  Owed(d)' \in Nat
<1>1. queue' \in Seq(Queued) /\ done' \in Seq(Outcomes) /\ inbox' \in Seq(Outcomes)
  BY DEF TypeInv, ListsTyped
<1>2. HowMany(queue', JobsOf(d)) \in Nat /\ HowMany(done', JobsOf(d)) \in Nat /\ HowMany(inbox', JobsOf(d)) \in Nat
  BY <1>1, SpotsFinite
<1> QED BY <1>2 DEF Owed, JobsOf

(* A step that ends by trimming textures.                                  *)
LEMMA CountTrim ==
    ASSUME NEW D, OnlyTextures(D, doc'), \A d \in Docs : Balanced(D[d], Owed(d)'),
           ShownAreLive', Emptied'
    PROVE  CountInv'
<1>1. ASSUME NEW d \in Docs PROVE Balanced(doc'[d], Owed(d)')
  <2>1. /\ doc'[d].life = D[d].life /\ doc'[d].refs = D[d].refs
        /\ Bare(D[d]) => Bare(doc'[d])
    BY DEF OnlyTextures
  <2>2. Balanced(D[d], Owed(d)') OBVIOUS
  <2> QED BY <2>1, <2>2 DEF Balanced
<1> QED BY <1>1 DEF CountInv, Balanced, Bare

LEMMA FreeingCounts ==
    ASSUME NEW q \in Seq(Queued), NEW r \in Document, NEW n, NEW d \in Docs
    PROVE  HowMany(q \o PdfToFree(r, n), JobsOf(d)) = HowMany(q, JobsOf(d))
<1>1. CASE q \o PdfToFree(r, n) = q BY <1>1
<1>2. CASE /\ q \o PdfToFree(r, n) = Append(q, FreeJob(r.pdf))
           /\ FreeJob(r.pdf) \in Queued /\ FreeJob(r.pdf).doc = NoDoc
  <2>1. PICK f \in Queued : f = FreeJob(r.pdf) /\ f.doc = NoDoc BY <1>2
  <2>2. f \notin JobsOf(d) BY <2>1, DocsAssumption DEF JobsOf
  <2>3. HowMany(Append(q, f), JobsOf(d)) = HowMany(q, JobsOf(d)) + (IF f \in JobsOf(d) THEN 1 ELSE 0)
    BY OneMore
  <2>4. HowMany(q, JobsOf(d)) \in Nat BY SpotsFinite
  <2> QED BY <1>2, <2>1, <2>2, <2>3, <2>4
<1> QED BY <1>1, <1>2, FreeingTyped

LEMMA CountApply ==
    ASSUME TypeInv, TypeInv', CountInv, ApplyResult
    PROVE  CountInv'
<1>1. PICK j, r, D : Applied(j, r, D)
  BY ApplyDoes
<1>2. PICK d \in Docs : d = j.doc
  BY <1>1 DEF Applied
<1>3. /\ r \in Document /\ r.life = doc[d].life /\ r.refs = doc[d].refs
      /\ ~ Live(d) => r = doc[d]
      /\ D = [doc EXCEPT ![d] = Unreferenced(r, 1)] /\ OnlyTextures(D, doc')
      /\ queue' = queue \o PdfToFree(r, 1) /\ j = Head(inbox) /\ inbox' = Tail(inbox) /\ j \in Outcomes
  BY <1>1, <1>2 DEF Applied, Slimmed
<1>4. UNCHANGED <<userVars, done>> /\ main' = (IF Len(inbox) = 1 THEN "idle" ELSE "poll")
  BY DEF ApplyResult
<1>5. /\ queue \in Seq(Queued) /\ inbox \in Seq(Outcomes) /\ inbox # <<>>
      /\ doc \in [Docs -> Document]
  BY DEF TypeInv, ListsTyped, MainTyped, DocsTyped, ApplyResult
<1>6. ASSUME NEW c \in Docs PROVE Owed(c) = Owed(c)' + (IF c = d THEN 1 ELSE 0)
  <2>1. HowMany(queue', JobsOf(c)) = HowMany(queue, JobsOf(c)) BY <1>3, <1>5, FreeingCounts
  <2>2. HowMany(inbox, JobsOf(c)) = HowMany(inbox', JobsOf(c)) + (IF j \in JobsOf(c) THEN 1 ELSE 0)
    BY <1>3, <1>5, OneFirst
  <2>3. j \in JobsOf(c) <=> c = d BY <1>2, <1>3 DEF JobsOf
  <2>4. Owed(c)' = HowMany(queue, JobsOf(c)) + HowMany(done, JobsOf(c)) + HowMany(inbox', JobsOf(c))
    BY <1>4, <2>1 DEF Owed, JobsOf
  <2>5. HowMany(inbox', JobsOf(c)) \in Nat
    <3>1. inbox' \in Seq(Outcomes) BY DEF TypeInv, ListsTyped
    <3> QED BY <3>1, SpotsFinite
  <2> QED BY <2>2, <2>3, <2>4, <2>5, CountsAreNat DEF Owed
<1>7. Owed(d) \in Nat /\ Owed(d)' \in Nat
  BY CountsAreNat, OwedLater
<1>8. PICK m \in Nat : m = Owed(d)' BY <1>7
<1>9. Owed(d) = m + 1 /\ Balanced(doc[d], Owed(d))
  BY <1>6, <1>8 DEF CountInv
<1>10. /\ r.refs = m + 1 + (IF r.life = "open" THEN 1 ELSE 0)
       /\ r.life # "new" /\ r.life # "freed"
  BY <1>3, <1>8, <1>9 DEF Balanced
<1>11. r.life # "open" => Bare(r)
  BY <1>3, <1>9 DEF Balanced, Live
<1>12. Balanced(Unreferenced(r, 1), m)
  BY <1>3, <1>8, <1>10, <1>11, GivenBack
<1>13. ASSUME NEW c \in Docs PROVE Balanced(D[c], Owed(c)')
  <2>1. CASE c = d BY <1>3, <1>5, <1>8, <1>12, <2>1
  <2>2. CASE c # d
    <3>1. Owed(c)' = Owed(c)
      <4>1. Owed(c)' \in Nat BY OwedLater
      <4> QED BY <1>6, <2>2, <4>1
    <3>2. D[c] = doc[c] BY <1>3, <1>5, <2>2
    <3> QED BY <3>1, <3>2 DEF CountInv
  <2> QED BY <2>1, <2>2
<1>14. ShownAreLive'
  <2>1. Live(d) => D[d].life = "open"
    <3> SUFFICES ASSUME Live(d) PROVE D[d].life = "open" OBVIOUS
    <3>1. r.life = "open" BY <1>3 DEF Live
    <3>2. r.refs > 1 BY <1>8, <1>10, <3>1
    <3>3. Unreferenced(r, 1).life = "open" BY <1>3, <3>1, <3>2, Unreference
    <3> QED BY <1>3, <1>5, <3>3
  <2>2. \A c \in Docs : Live(c) => doc'[c].life = "open"
    BY <1>3, <1>5, <2>1 DEF OnlyTextures, Live
  <2>3. \A w \in Windows : view[w] # NoDoc => view[w] \in Docs BY DEF TypeInv, MainTyped
  <2> QED BY <1>4, <2>2, <2>3 DEF CountInv, ShownAreLive, Live, userVars
<1>15. Emptied'
  <2>1. Len(Tail(inbox)) = Len(inbox) - 1 /\ Tail(inbox) \in Seq(Outcomes) BY <1>5
  <2>2. Len(inbox) = 1 => Tail(inbox) = <<>>
    <3>1. PICK t \in Seq(Outcomes) : t = Tail(inbox) BY <2>1
    <3>2. Len(t) = 0 => t = <<>> OBVIOUS
    <3> QED BY <2>1, <3>1, <3>2
  <2> QED BY <1>3, <1>4, <2>2 DEF Emptied
<1> QED BY <1>3, <1>13, <1>14, <1>15, CountTrim

LEMMA CountDraw ==
    ASSUME TypeInv, TypeInv', CountInv, NEW w \in Windows, DrawPlace(w)
    PROVE  CountInv'
<1>1. PICK d \in Docs : d = view[w] /\ \E e : Drawn(d, e)
  BY DrawDoes
<1>2. PICK e : Drawn(d, e)
  BY <1>1
<1>3. /\ e \in Document /\ e.life = doc[d].life /\ doc' = [doc EXCEPT ![d] = e]
      /\ e.refs = doc[d].refs + (Len(queue') - Len(queue))
      /\ \E ts : MoreOf(queue', queue, d, ts)
  BY <1>2 DEF Drawn
<1>4. UNCHANGED <<userVars, main, inbox, done>>
  BY DEF DrawPlace
<1>5. /\ queue \in Seq(Queued) /\ queue' \in Seq(Queued) /\ doc \in [Docs -> Document]
  BY DEF TypeInv, ListsTyped, DocsTyped
<1>6. ASSUME NEW c \in Docs PROVE Owed(c)' = Owed(c) + (IF c = d THEN Len(queue') - Len(queue) ELSE 0)
  <2>1. HowMany(queue', JobsOf(c)) = HowMany(queue, JobsOf(c)) + (IF c = d THEN Len(queue') - Len(queue) ELSE 0)
    BY <1>3 DEF MoreOf
  <2>2. Owed(c)' = HowMany(queue', JobsOf(c)) + HowMany(done, JobsOf(c)) + HowMany(inbox, JobsOf(c))
    BY <1>4 DEF Owed, JobsOf
  <2>3. Len(queue') \in Nat /\ Len(queue) \in Nat BY <1>5
  <2> QED BY <2>1, <2>2, <2>3, CountsAreNat DEF Owed
<1>7. \A c \in Docs : Owed(c) \in Nat /\ Owed(c)' \in Nat
  BY CountsAreNat, OwedLater
<1>8. \A c \in Docs : c # d => Owed(c)' = Owed(c)
  BY <1>6, <1>7
<1>9. Live(d)
  BY <1>1, DocsAssumption DEF CountInv, ShownAreLive
<1>10. Balanced(e, Owed(d)')
  <2>1. PICK n \in Nat, m \in Nat : n = Owed(d) /\ m = Owed(d)' BY <1>7
  <2>2. PICK r \in Document : r = doc[d] BY <1>5
  <2>3. Len(queue') \in Nat /\ Len(queue) \in Nat BY <1>5
  <2>4. m = n + (Len(queue') - Len(queue)) BY <1>6, <2>1
  <2>5. m - n = Len(queue') - Len(queue) BY ONLY <2>1, <2>3, <2>4
  <2>6. r.life = "open" /\ e.life = r.life /\ e.refs = r.refs + (m - n) /\ Balanced(r, n)
    BY <1>3, <1>9, <2>1, <2>2, <2>5 DEF Live, CountInv
  <2>7. Balanced(e, m) BY <1>3, <2>6, OpenBalance
  <2> QED BY <2>1, <2>7
<1>11. view' = view /\ Emptied'
  BY <1>4 DEF CountInv, Emptied, userVars
<1>12. e.life = "open" BY <1>3, <1>9 DEF Live
<1> QED BY <1>3, <1>5, <1>8, <1>10, <1>11, <1>12, CountOne

LEMMA CountStartFrame ==
    ASSUME TypeInv, TypeInv', CountInv, StartFrame
    PROVE  CountInv'
<1>1. OnlyTurned(doc, doc') /\ main = "idle" /\ UNCHANGED <<userVars, inbox, lockVars>>
      /\ main' = (IF Placed = {} THEN "idle" ELSE "draw")
  BY FrameStarts
<1>2. \A d \in Docs : Owed(d)' = Owed(d)
  BY <1>1, OwedSame DEF lockVars
<1>3. ShownAreLive' /\ Emptied'
  <2>1. \A w \in Windows : view[w] # NoDoc => view[w] \in Docs BY DEF TypeInv, MainTyped
  <2> QED BY <1>1, <2>1 DEF CountInv, ShownAreLive, Live, Emptied, OnlyTurned, userVars
<1> QED BY <1>1, <1>2, <1>3, CountAll DEF OnlyTurned

LEMMA CountEndFrame ==
    ASSUME TypeInv, TypeInv', CountInv, EndFrame
    PROVE  CountInv'
<1>1. PICK D : Pruned(D) /\ Slimmed(D, doc')
  BY EndDoes
<1>2. UNCHANGED <<userVars, inbox, done>> /\ main = "draw" /\ main' = "idle"
  BY DEF EndFrame
<1>3. doc \in [Docs -> Document] /\ D \in [Docs -> Document] /\ OnlyTextures(D, doc')
  BY <1>1 DEF TypeInv, DocsTyped, Pruned, Slimmed
<1>4. ASSUME NEW d \in Docs PROVE Balanced(D[d], Owed(d)')
  <2>1. PICK n \in Nat, m \in Nat : n = Owed(d) /\ m = Owed(d)' BY CountsAreNat, OwedLater
  <2>2. PICK r \in Document, e \in Document : r = doc[d] /\ e = D[d] BY <1>3
  <2>3. r.refs \in Int /\ e.refs \in Int BY DEF Document
  <2>4. HowMany(queue, JobsOf(d)) \in Nat /\ HowMany(done, JobsOf(d)) \in Nat
        /\ HowMany(inbox, JobsOf(d)) \in Nat
    BY CountsAreNat
  <2>5. HowMany(queue', JobsOf(d)) \in Nat
    <3>1. queue' \in Seq(Queued) BY DEF TypeInv, ListsTyped
    <3> QED BY <3>1, SpotsFinite
  <2>6. HowMany(queue', JobsOf(d)) - e.refs = HowMany(queue, JobsOf(d)) - r.refs
    BY <1>1, <2>2 DEF Pruned
  <2>7. m - n = HowMany(queue', JobsOf(d)) - HowMany(queue, JobsOf(d))
    <3>1. m = HowMany(queue', JobsOf(d)) + HowMany(done, JobsOf(d)) + HowMany(inbox, JobsOf(d))
      BY <1>2, <2>1 DEF Owed, JobsOf
    <3>2. n = HowMany(queue, JobsOf(d)) + HowMany(done, JobsOf(d)) + HowMany(inbox, JobsOf(d))
      BY <2>1 DEF Owed
    <3> QED BY ONLY <2>4, <2>5, <3>1, <3>2
  <2>8. e.refs = r.refs + (m - n)
    BY ONLY <2>3, <2>4, <2>5, <2>6, <2>7
  <2>9. e.life = r.life /\ (Bare(r) => Bare(e)) BY <1>1, <2>2 DEF Pruned
  <2>10. r.life = "open" \/ m = n
    <3>1. CASE d \in ShownPdfs
      <4>1. Live(d) BY <3>1, DocsAssumption DEF ShownPdfs, Placed, CountInv, ShownAreLive
      <4> QED BY <2>2, <4>1 DEF Live
    <3>2. CASE d \notin ShownPdfs
      <4>1. e.refs = r.refs BY <1>1, <2>2, <3>2 DEF Pruned
      <4> QED BY ONLY <2>1, <2>3, <2>8, <4>1
    <3> QED BY <3>1, <3>2
  <2>11. Balanced(r, n) BY <2>1, <2>2 DEF CountInv
  <2>12. Balanced(e, m) BY <2>8, <2>9, <2>10, <2>11, Balance
  <2> QED BY <2>1, <2>2, <2>12
<1>5. ShownAreLive'
  <2>1. \A w \in Windows : view[w] # NoDoc => view[w] \in Docs BY DEF TypeInv, MainTyped
  <2>2. \A d \in Docs : doc'[d].life = doc[d].life BY <1>1 DEF Pruned, Slimmed, OnlyTextures
  <2> QED BY <1>2, <2>1, <2>2 DEF CountInv, ShownAreLive, Live, userVars
<1>6. Emptied'
  BY <1>2 DEF CountInv, Emptied
<1> QED BY <1>3, <1>4, <1>5, <1>6, CountTrim

LEMMA CountOpen ==
    ASSUME TypeInv, TypeInv', CountInv, NEW d \in Docs, NEW w \in Windows, Open(d, w)
    PROVE  CountInv'
<1>1. PICK e \in Document :
             /\ e.life = "open" /\ e.refs = 2 /\ doc' = [doc EXCEPT ![d] = e]
             /\ MoreOf(queue', queue, d, {"load"}) /\ Len(queue') = Len(queue) + 1
  BY OpenDoes
<1>2. /\ doc[d].life = "new" /\ UNCHANGED <<done, inbox, main>> /\ view' = [view EXCEPT ![w] = d]
  BY DEF Open, Command
<1>3. queue \in Seq(Queued) /\ doc \in [Docs -> Document] /\ view \in [Windows -> Docs \cup {NoDoc}]
  BY DEF TypeInv, ListsTyped, DocsTyped, MainTyped
<1>4. ASSUME NEW c \in Docs PROVE Owed(c)' = Owed(c) + (IF c = d THEN 1 ELSE 0)
  <2>1. HowMany(queue', JobsOf(c)) = HowMany(queue, JobsOf(c)) + (IF c = d THEN Len(queue') - Len(queue) ELSE 0)
    BY <1>1 DEF MoreOf
  <2>2. Owed(c)' = HowMany(queue', JobsOf(c)) + HowMany(done, JobsOf(c)) + HowMany(inbox, JobsOf(c))
    BY <1>2 DEF Owed, JobsOf
  <2>3. Len(queue') - Len(queue) = 1
    <3>1. Len(queue) \in Nat BY <1>3
    <3> QED BY <1>1, <3>1
  <2> QED BY <2>1, <2>2, <2>3, CountsAreNat DEF Owed
<1>5. Owed(d) = 0
  <2>1. Balanced(doc[d], Owed(d)) BY DEF CountInv
  <2> QED BY <1>2, <2>1 DEF Balanced
<1>6. Owed(d)' = 1
  BY <1>4, <1>5
<1>7. Balanced(e, Owed(d)')
  BY <1>1, <1>6 DEF Balanced
<1>8. \A c \in Docs : c # d => Owed(c)' = Owed(c)
  BY <1>4, CountsAreNat
<1>9. \A v \in Windows : view'[v] = view[v] \/ view'[v] = d
  BY <1>2, <1>3
<1>10. Emptied' BY <1>2 DEF CountInv, Emptied
<1> QED BY <1>1, <1>3, <1>7, <1>8, <1>9, <1>10, CountOne

(* What closing or reloading a document cancels.                           *)
LEMMA CancellingCounts ==
    ASSUME TypeInv, NEW d \in Docs
    PROVE  \E m \in Nat, k \in Nat :
             /\ Owed(d) = m + k /\ k = Len(queue) - Len(Cancelled(queue, d))
             /\ m = HowMany(Cancelled(queue, d), JobsOf(d)) + HowMany(done, JobsOf(d)) + HowMany(inbox, JobsOf(d))
<1>1. queue \in Seq(Queued) BY DEF TypeInv, ListsTyped
<1>2. PICK q \in Seq(Queued) : q = Cancelled(queue, d)
  BY <1>1, CancelledFewer
<1>3. Len(q) \in 0 .. Len(queue) /\ HowMany(q, JobsOf(d)) = HowMany(queue, JobsOf(d)) - (Len(queue) - Len(q))
  BY <1>1, <1>2, CancelledFewer
<1>4. Len(queue) \in Nat /\ Len(q) \in Nat /\ HowMany(q, JobsOf(d)) \in Nat
  BY <1>1, <1>2, SpotsFinite
<1>5. PICK k \in Nat : k = Len(queue) - Len(q)
  BY <1>3, <1>4
<1>6. PICK m \in Nat : m = HowMany(q, JobsOf(d)) + HowMany(done, JobsOf(d)) + HowMany(inbox, JobsOf(d))
  BY <1>4, CountsAreNat
<1>7. Owed(d) = m + k
  BY <1>3, <1>4, <1>5, <1>6, CountsAreNat DEF Owed
<1> QED BY <1>2, <1>5, <1>6, <1>7

LEMMA CountClose ==
    ASSUME TypeInv, TypeInv', CountInv, NEW d \in Docs, Close(d)
    PROVE  CountInv'
<1>1. PICK c, n : Closing(d, c, n)
  BY CloseDoes
<1>2. PICK q : q = Cancelled(queue, d)
  OBVIOUS
<1>3. /\ c \in Document /\ c.life = "closed" /\ Bare(c) /\ c.refs = doc[d].refs
      /\ n \in Nat /\ n = 1 + (Len(queue) - Len(q))
      /\ doc' = [doc EXCEPT ![d] = Unreferenced(c, n)] /\ queue' = q \o PdfToFree(c, n)
  BY <1>1, <1>2 DEF Closing
<1>4. /\ Live(d) /\ UNCHANGED <<done, inbox, main>>
      /\ view' = [w \in Windows |-> IF view[w] = d THEN NoDoc ELSE view[w]]
  BY DEF Close, Command
<1>5. /\ queue \in Seq(Queued) /\ doc \in [Docs -> Document] /\ q \in Seq(Queued)
  BY <1>2, CancelledFewer DEF TypeInv, ListsTyped, DocsTyped
<1>6. \A b \in Docs : HowMany(queue', JobsOf(b)) = HowMany(q, JobsOf(b))
  BY <1>3, <1>5, FreeingCounts
<1>7. PICK m \in Nat, k \in Nat :
             /\ Owed(d) = m + k /\ k = Len(queue) - Len(q)
             /\ m = HowMany(q, JobsOf(d)) + HowMany(done, JobsOf(d)) + HowMany(inbox, JobsOf(d))
  BY <1>2, CancellingCounts
<1>8. Owed(d)' = m
  BY <1>4, <1>6, <1>7 DEF Owed, JobsOf
<1>9. c.refs = m + n
  <2>1. doc[d].refs = Owed(d) + 1 BY <1>4 DEF CountInv, Balanced, Live
  <2>2. n = 1 + k BY <1>3, <1>7
  <2>3. c.refs = Owed(d) + 1 BY <1>3, <2>1
  <2>4. c.refs = m + k + 1 BY <1>7, <2>3
  <2> QED BY ONLY <2>2, <2>4, m \in Nat, k \in Nat
<1>10. Balanced(Unreferenced(c, n), m)
  <2>1. c.refs = m + n + (IF c.life = "open" THEN 1 ELSE 0) BY <1>3, <1>9
  <2>2. c.life # "new" /\ c.life # "freed" BY <1>3
  <2> QED BY <1>3, <2>1, <2>2, GivenBack
<1>11. \A b \in Docs : b # d => Owed(b)' = Owed(b)
  <2>1. \A b \in Docs : b # d => HowMany(q, JobsOf(b)) = HowMany(queue, JobsOf(b))
    BY <1>2, <1>5, CancelledFewer
  <2> QED BY <1>4, <1>6, <2>1 DEF Owed, JobsOf
<1>12. \A w \in Windows : view'[w] \in {NoDoc, view[w]} /\ view'[w] # d
  BY <1>4, DocsAssumption
<1>13. Emptied' BY <1>4 DEF CountInv, Emptied
<1> QED BY <1>3, <1>5, <1>8, <1>10, <1>11, <1>12, <1>13, CountOne

LEMMA CountReload ==
    ASSUME TypeInv, TypeInv', CountInv, NEW d \in Docs, Reload(d)
    PROVE  CountInv'
<1>1. PICK q : q = Cancelled(queue, d)
  OBVIOUS
<1>2. PICK e \in Document :
             /\ e.life = doc[d].life /\ e.refs = doc[d].refs - (Len(queue) - Len(q)) + 1
             /\ doc' = [doc EXCEPT ![d] = e]
             /\ MoreOf(queue', q, d, {"load"}) /\ Len(queue') = Len(q) + 1
  BY <1>1, ReloadDoes
<1>3. Live(d) /\ UNCHANGED <<done, inbox, main, view>>
  BY DEF Reload, Command
<1>4. /\ queue \in Seq(Queued) /\ doc \in [Docs -> Document] /\ q \in Seq(Queued)
  BY <1>1, CancelledFewer DEF TypeInv, ListsTyped, DocsTyped
<1>5. Len(queue') - Len(q) = 1
  <2>1. Len(q) \in Nat BY <1>4
  <2> QED BY <1>2, <2>1
<1>6. \A b \in Docs : HowMany(queue', JobsOf(b)) = HowMany(q, JobsOf(b)) + (IF b = d THEN 1 ELSE 0)
  BY <1>2, <1>5 DEF MoreOf
<1>7. PICK m \in Nat, k \in Nat :
             /\ Owed(d) = m + k /\ k = Len(queue) - Len(q)
             /\ m = HowMany(q, JobsOf(d)) + HowMany(done, JobsOf(d)) + HowMany(inbox, JobsOf(d))
  BY <1>1, CancellingCounts
<1>8. Owed(d)' = m + 1
  <2>1. Owed(d)' = HowMany(queue', JobsOf(d)) + HowMany(done, JobsOf(d)) + HowMany(inbox, JobsOf(d))
    BY <1>3 DEF Owed, JobsOf
  <2>2. HowMany(q, JobsOf(d)) \in Nat BY <1>4, SpotsFinite
  <2>3. HowMany(queue', JobsOf(d)) = HowMany(q, JobsOf(d)) + 1 BY <1>6
  <2> QED BY <1>7, <2>1, <2>2, <2>3, CountsAreNat
<1>9. Balanced(e, Owed(d)')
  <2>1. doc[d].refs = Owed(d) + 1 BY <1>3 DEF CountInv, Balanced, Live
  <2>2. e.life = "open" BY <1>2, <1>3 DEF Live
  <2>3. e.refs = m + 2
    <3>1. e.refs = doc[d].refs - k + 1 BY <1>2, <1>7
    <3>2. doc[d].refs = m + k + 1 BY <1>7, <2>1
    <3> QED BY ONLY <3>1, <3>2, m \in Nat, k \in Nat
  <2> QED BY <1>8, <2>2, <2>3 DEF Balanced
<1>10. \A b \in Docs : b # d => Owed(b)' = Owed(b)
  <2> SUFFICES ASSUME NEW b \in Docs, b # d PROVE Owed(b)' = Owed(b)
    OBVIOUS
  <2>1. HowMany(q, JobsOf(b)) = HowMany(queue, JobsOf(b)) BY <1>1, <1>4, CancelledFewer
  <2>2. HowMany(queue', JobsOf(b)) = HowMany(queue, JobsOf(b)) BY <1>6, <2>1, CountsAreNat
  <2> QED BY <1>3, <2>2 DEF Owed, JobsOf
<1>11. \A w \in Windows : view'[w] = view[w] BY <1>3
<1>12. e.life = "open" BY <1>2, <1>3 DEF Live
<1>13. Emptied' BY <1>3 DEF CountInv, Emptied
<1> QED BY <1>2, <1>4, <1>9, <1>10, <1>11, <1>12, <1>13, CountOne

LEMMA CountQuiet ==
    ASSUME TypeInv, TypeInv', CountInv, UNCHANGED <<queue, done, inbox>>, ShownAreLive', Emptied',
           OnlyTextures(doc, doc') \/ OnlyTurned(doc, doc')
    PROVE  CountInv'
<1>1. \A d \in Docs : Owed(d)' = Owed(d)
  BY OwedSame
<1>2. \A d \in Docs : /\ doc'[d].life = doc[d].life /\ doc'[d].refs = doc[d].refs
                      /\ Bare(doc[d]) => Bare(doc'[d])
  BY DEF OnlyTextures, OnlyTurned
<1>3. \A d \in Docs : /\ doc'[d].life = doc[d].life /\ doc'[d].refs = doc[d].refs
                      /\ Bare(doc[d]) => Bare(doc'[d])
                      /\ Owed(d)' = Owed(d)
  BY <1>1, <1>2
<1> QED BY <1>3, CountAll

LEMMA CountStep == TypeInv /\ TypeInv' /\ WorkHeld /\ CountInv /\ [Next]_vars => CountInv'
<1> SUFFICES ASSUME TypeInv, TypeInv', WorkHeld, CountInv, [Next]_vars PROVE CountInv'
  OBVIOUS
<1>0. /\ doc \in [Docs -> Document] /\ OnlyTurned(doc, doc)
      /\ \A w \in Windows : view[w] # NoDoc => view[w] \in Docs /\ Live(view[w])
  BY DEF TypeInv, DocsTyped, MainTyped, CountInv, ShownAreLive, OnlyTurned, TexFrom
<1>1. ASSUME NEW i \in Workers, Worker(i) PROVE CountInv'
  BY <1>1, CountTake, CountFinish, CountRest DEF Worker
<1>2. CASE User
  <2>1. ASSUME NEW d \in Docs, NEW w \in Windows, Open(d, w) PROVE CountInv'
    BY <2>1, CountOpen
  <2>2. ASSUME NEW d \in Docs, Close(d) PROVE CountInv'
    BY <2>2, CountClose
  <2>3. ASSUME NEW d \in Docs, Reload(d) PROVE CountInv'
    BY <2>3, CountReload
  <2>4. ASSUME Command PROVE Emptied' /\ UNCHANGED <<done, inbox>>
    BY <2>4 DEF Command, CountInv, Emptied
  <2>5. ASSUME NEW d \in Docs, NEW p \in Pages, TurnPage(d, p) PROVE CountInv'
    <3>1. doc' = [doc EXCEPT ![d].page = p] /\ view' = view /\ queue' = queue BY <2>5 DEF TurnPage
    <3>2. OnlyTurned(doc, doc')
      <4>1. doc' \in [Docs -> Document] BY DEF TypeInv, DocsTyped
      <4>2. ASSUME NEW c \in Docs
            PROVE  /\ doc'[c].life = doc[c].life /\ doc'[c].gen = doc[c].gen /\ doc'[c].refs = doc[c].refs
                   /\ doc'[c].state = doc[c].state /\ doc'[c].npages = doc[c].npages
                   /\ doc'[c].pdf = doc[c].pdf /\ doc'[c].tex = doc[c].tex /\ doc'[c].mips = doc[c].mips
                   /\ doc'[c].loading = doc[c].loading
        <5>1. PICK r \in Document : r = doc[c] BY <1>0
        <5>2. doc'[c] = r \/ doc'[c] = [r EXCEPT !.page = p] BY <1>0, <3>1, <5>1
        <5> QED BY <5>1, <5>2 DEF Document
      <4> QED BY <4>1, <4>2 DEF OnlyTurned, Bare, TexFrom
    <3>3. ShownAreLive' BY <1>0, <3>1, <3>2 DEF ShownAreLive, Live, OnlyTurned
    <3> QED BY <2>4, <2>5, <3>1, <3>2, <3>3, CountQuiet DEF TurnPage
  <2>6. ASSUME NEW w \in Windows, NEW d \in Docs \cup {NoDoc}, Show(w, d) PROVE CountInv'
    <3>1. /\ doc' = doc /\ queue' = queue /\ view' = [view EXCEPT ![w] = d] /\ (d # NoDoc => Live(d))
      BY <2>6 DEF Show
    <3>2. ShownAreLive' BY <1>0, <3>1 DEF ShownAreLive, Live, TypeInv, MainTyped
    <3> QED BY <1>0, <2>4, <2>6, <3>1, <3>2, CountQuiet DEF Show
  <2>7. ASSUME NEW w \in Windows, NEW n \in Widths, Resize(w, n) PROVE CountInv'
    <3>1. doc' = doc /\ queue' = queue /\ view' = view BY <2>7 DEF Resize
    <3>2. ShownAreLive' BY <1>0, <3>1 DEF ShownAreLive, Live
    <3> QED BY <1>0, <2>4, <2>7, <3>1, <3>2, CountQuiet DEF Resize
  <2>8. CASE DeviceReset
    <3>1. doc' = Without(doc, Textures(doc)) /\ queue' = queue /\ view' = view BY <2>8 DEF DeviceReset
    <3>2. OnlyTextures(doc, doc') BY <1>0, <3>1, WithoutTyped
    <3>3. ShownAreLive' BY <1>0, <3>1, <3>2 DEF ShownAreLive, Live, OnlyTextures
    <3> QED BY <2>4, <2>8, <3>1, <3>2, <3>3, CountQuiet DEF DeviceReset
  <2>9. CASE Shutdown
    <3>1. /\ UNCHANGED <<docVars, userVars, inbox, queue, done>> /\ main = "idle" /\ main' = "stopping"
      BY <2>9 DEF Shutdown
    <3>2. ShownAreLive' /\ Emptied' /\ doc' = doc
      BY <1>0, <3>1 DEF ShownAreLive, Live, Emptied, CountInv, docVars, userVars
    <3> QED BY <1>0, <3>1, <3>2, CountQuiet
  <2> QED BY <1>2, <2>1, <2>2, <2>3, <2>5, <2>6, <2>7, <2>8, <2>9 DEF User
<1>3. CASE Main
  <2>1. CASE Stop
    <3>1. /\ doc' = Without(doc, Textures(doc)) /\ view' = [w \in Windows |-> NoDoc]
          /\ UNCHANGED <<inbox, lockVars>> /\ main' = "stopped" /\ main = "stopping"
      BY <2>1 DEF Stop
    <3>2. OnlyTextures(doc, doc') BY <1>0, <3>1, WithoutTyped
    <3>3. ShownAreLive' /\ Emptied' BY <3>1 DEF ShownAreLive, Emptied, CountInv
    <3> QED BY <3>1, <3>2, <3>3, CountQuiet DEF lockVars
  <2> QED BY <1>3, <2>1, CountPoll, CountApply, CountStartFrame, CountDraw, CountEndFrame DEF Main
<1>4. CASE UNCHANGED vars
  <2>1. UNCHANGED <<doc, view, main, inbox, queue, done>>
    BY <1>4 DEF vars, docVars, userVars, mainVars, lockVars
  <2>2. ShownAreLive' /\ Emptied' BY <2>1 DEF CountInv, ShownAreLive, Live, Emptied
  <2> QED BY <1>0, <2>1, <2>2, CountQuiet
<1> QED BY <1>1, <1>2, <1>3, <1>4 DEF Next

(* Counted twice over: what the runs count, and what is reasoned about.    *)
LEMMA JobsAreOwed ==
    ASSUME TypeInv, NEW d \in Docs
    PROVE  Jobs(d) = Owed(d)
<1>1. queue \in Seq(Queued) /\ done \in Seq(Outcomes) /\ inbox \in Seq(Outcomes)
  BY DEF TypeInv, ListsTyped
<1>2. /\ \A k \in DOMAIN queue : queue[k] \in Queued
      /\ \A k \in DOMAIN done : done[k] \in Outcomes
      /\ \A k \in DOMAIN inbox : inbox[k] \in Outcomes
  BY <1>1
<1>3. Of(queue, d) = Spots(queue, JobsOf(d)) BY <1>2 DEF Of, Spots, JobsOf
<1>4. Of(done, d) = Spots(done, JobsOf(d)) BY <1>2 DEF Of, Spots, JobsOf
<1>5. Of(inbox, d) = Spots(inbox, JobsOf(d)) BY <1>2 DEF Of, Spots, JobsOf
<1> QED BY <1>3, <1>4, <1>5 DEF Jobs, Owed, HowMany

RefsInv == TypeInv /\ WorkHeld /\ CountInv

LEMMA RefsAlways == Spec => []RefsInv
<1>1. Init => RefsInv
  BY TypeInit, HeldInit, CountInit DEF RefsInv
<1>2. RefsInv /\ [Next]_vars => RefsInv'
  BY TypeStep, HeldStep, CountStep DEF RefsInv
<1> QED BY <1>1, <1>2, PTL DEF Spec

(* A document's reference count is the owner's and one for each of its     *)
(* jobs, waiting, running, finished or being applied, and a closed one is  *)
(* freed with its last job: doc_unref is never called once too often.      *)
THEOREM ReferencesAreCounted == Spec => []ReferencesCounted
<1>1. ASSUME RefsInv PROVE ReferencesCounted
  <2> SUFFICES ASSUME NEW d \in Docs
               PROVE  /\ doc[d].refs = Jobs(d) + (IF Live(d) THEN 1 ELSE 0)
                      /\ doc[d].life = "closed" => Jobs(d) > 0
    BY DEF ReferencesCounted
  <2>1. Jobs(d) = Owed(d) BY <1>1, JobsAreOwed DEF RefsInv
  <2>2. Balanced(doc[d], Owed(d)) BY <1>1 DEF RefsInv, CountInv
  <2> QED BY <2>1, <2>2 DEF Balanced, Live
<1> QED BY <1>1, RefsAlways, PTL

(* Every variable keeps its type: no count of references, and no count of  *)
(* wake-up events, goes below zero, and no job names a page there is not.  *)
THEOREM TypesAreKept == Spec => []TypeOK
<1>1. ASSUME RefsInv, WakeInv, QuitInv PROVE TypeOK
  <2>1. TypeInv BY <1>1 DEF RefsInv
  <2>2. ASSUME NEW d \in Docs
        PROVE  /\ doc[d].life \in {"new", "open", "closed", "freed"}
               /\ doc[d].gen \in 0 .. MAX_COMMANDS /\ doc[d].refs \in Nat
               /\ doc[d].state \in {"loading", "ready", "failed"}
               /\ doc[d].page \in Pages /\ doc[d].errors \subseteq Pages
    <3>1. PICK r \in Document : r = doc[d] BY <2>1 DEF TypeInv, DocsTyped
    <3>2. r.gen \in Nat /\ r.gen <= commands /\ commands \in 0 .. MAX_COMMANDS /\ MAX_COMMANDS \in Nat
      BY <2>1, <3>1, SizesAssumption DEF TypeInv, DocsTyped, MainTyped, Document
    <3>3. Owed(d) \in Nat BY <2>1, CountsAreNat
    <3>4. Balanced(r, Owed(d)) BY <1>1, <3>1 DEF RefsInv, CountInv
    <3>5. r.refs \in Nat BY <3>3, <3>4 DEF Balanced
    <3>6. r.gen \in 0 .. MAX_COMMANDS BY <3>2
    <3> QED BY <3>1, <3>5, <3>6 DEF Document
  <2>3. view \in [Windows -> Docs \cup {NoDoc}] /\ width \in [Windows -> Widths]
        /\ commands \in 0 .. MAX_COMMANDS
        /\ main \in {"idle", "poll", "draw", "stopping", "stopped"}
        /\ todo \subseteq Windows /\ {changed, dirty, decodeQuit} \subseteq BOOLEAN
    BY <2>1 DEF TypeInv, MainTyped, Placed
  <2>4. queue \in Seq(Job) /\ done \in Seq(FinishedJob) /\ inbox \in Seq(FinishedJob)
    <3>1. queue \in Seq(Queued) /\ done \in Seq(Outcomes) /\ inbox \in Seq(Outcomes)
      BY <2>1 DEF TypeInv, ListsTyped
    <3>2. Queued \subseteq Job /\ Outcomes \subseteq FinishedJob BY DEF Queued, Outcomes
    <3> QED BY <3>1, <3>2
  <2>5. /\ busy \subseteq Docs /\ pdfRunning \in BOOLEAN /\ quitting \in BOOLEAN
        /\ pc \in [Workers -> {"unstarted", "loop", "wait", "run", "ran", "exited"}]
        /\ job \in [Workers -> Job] /\ result \in [Workers -> Result]
    BY <2>1 DEF TypeInv, FlagsTyped, WorkTyped
  <2>6. wakeEvents \in Nat /\ wakePending \in BOOLEAN
    <3>1. wakeEvents = 1 \/ wakeEvents = 0 BY <1>1 DEF WakeInv
    <3>2. wakePending \in BOOLEAN BY <1>1, Zenon DEF WakeInv
    <3> QED BY <3>1, <3>2
  <2>7. {pdfRunning, quitting, wakePending} \subseteq BOOLEAN
    BY <2>5, <2>6
  <2> QED BY <2>2, <2>3, <2>4, <2>5, <2>6, <2>7 DEF TypeOK
<1> QED BY <1>1, RefsAlways, WakeInit, WakeStep, QuitInit, QuitStep, PTL DEF Spec

-----------------------------------------------------------------------------
LEMMA ApplyKeeps ==
    ASSUME TypeInv, CountInv, ApplyResult, NEW t \in Textures(doc), InUse(doc, t), main = "poll"
    PROVE  Kept(t)
<1>1. PICK j, r, D : Applied(j, r, D)
  BY ApplyDoes
<1>2. PICK d \in Docs : d = j.doc
  BY <1>1 DEF Applied
<1>3. /\ r \in Document /\ r.refs = doc[d].refs /\ j = Head(inbox) /\ j \in Outcomes
      /\ D = [doc EXCEPT ![d] = Unreferenced(r, 1)] /\ D \in [Docs -> Document]
      /\ \A s \in Textures(D) : InUse(D, s) => s \in Textures(doc')
      /\ j.type = "render" => /\ r.mips = doc[d].mips /\ r.now = doc[d].now
                             /\ \A p \in Pages : p # j.page => r.tex[p] = doc[d].tex[p]
  BY <1>1, <1>2 DEF Applied, Slimmed
<1>4. doc \in [Docs -> Document] /\ inbox \in Seq(Outcomes) /\ inbox # <<>>
  BY DEF TypeInv, DocsTyped, ListsTyped, MainTyped
<1>5. \/ \E c \in Docs : t = <<c, -1>> /\ doc[c].mips /\ doc[c].now
      \/ \E c \in Docs, p \in Pages : t = <<c, p>> /\ HasTex(doc, c, p) /\ doc[c].tex[p].now
  <2>1. CASE \E c \in Docs : doc[c].mips /\ t = <<c, -1>>
    BY <2>1 DEF InUse
  <2>2. CASE \E c \in Docs, p \in Pages : HasTex(doc, c, p) /\ t = <<c, p>>
    <3>1. PICK c \in Docs, p \in Pages : HasTex(doc, c, p) /\ t = <<c, p>> BY <2>2
    <3>2. p # -1 BY PageFacts
    <3> QED BY <3>1, <3>2 DEF InUse
  <2> QED BY <2>1, <2>2 DEF Textures
<1>6. \A c \in Docs : doc[c].mips \/ (\E p \in Pages : HasTex(doc, c, p)) => Live(c)
  <2> SUFFICES ASSUME NEW c \in Docs, ~ Live(c)
               PROVE  ~ doc[c].mips /\ \A p \in Pages : ~ HasTex(doc, c, p)
    OBVIOUS
  <2>1. Bare(doc[c]) BY DEF CountInv, Balanced, Live
  <2> QED BY <2>1 DEF Bare, HasTex, NoPages, NoTex
<1>7. Live(d) => LET u == D[d] IN u.tex = r.tex /\ u.mips = r.mips /\ u.now = r.now
  <2> SUFFICES ASSUME Live(d) PROVE LET u == D[d] IN u.tex = r.tex /\ u.mips = r.mips /\ u.now = r.now
    OBVIOUS
  <2>1. r.refs > 1
    <3>1. HowMany(inbox, JobsOf(d)) > 0
      <4>1. Head(inbox) = inbox[1] /\ 1 \in DOMAIN inbox BY <1>4
      <4>2. inbox[1] \in JobsOf(d) BY <1>2, <1>3, <4>1 DEF JobsOf
      <4> QED BY <1>4, <4>1, <4>2, SomeSpot
    <3>2. Owed(d) \in Nat /\ Owed(d) > 0 BY <3>1, CountsAreNat DEF Owed
    <3>3. doc[d].refs = Owed(d) + 1 BY DEF CountInv, Balanced, Live
    <3> QED BY <1>3, <3>2, <3>3
  <2>2. LET u == Unreferenced(r, 1) IN u.tex = r.tex /\ u.mips = r.mips /\ u.now = r.now
    BY <1>3, <2>1, Unreference
  <2> QED BY <1>3, <1>4, <2>2
<1>8. \A c \in Docs : c # d => D[c] = doc[c]
  BY <1>3, <1>4
<1>9. CASE \E c \in Docs : t = <<c, -1>> /\ doc[c].mips /\ doc[c].now
  <2>1. PICK c \in Docs : t = <<c, -1>> /\ doc[c].mips /\ doc[c].now BY <1>9
  <2>2. CASE c = d /\ j.type # "render"
    <3>1. j.type = "load" BY <1>3, <2>2 DEF Outcomes, FinishedJob
    <3> QED BY <1>2, <1>3, <2>1, <2>2, <3>1 DEF Kept
  <2>3. CASE c # d \/ j.type = "render"
    <3>1. Live(c) BY <1>6, <2>1
    <3>2. D[c].mips /\ D[c].now BY <1>3, <1>7, <1>8, <2>1, <2>3, <3>1
    <3>3. t \in Textures(D) /\ InUse(D, t) BY <2>1, <3>2 DEF Textures, InUse
    <3>4. t \in Textures(doc') BY <1>3, <3>3
    <3> QED BY <3>4 DEF Kept, Textures, HasTex
  <2> QED BY <2>2, <2>3
<1>10. CASE \E c \in Docs, p \in Pages : t = <<c, p>> /\ HasTex(doc, c, p) /\ doc[c].tex[p].now
  <2>1. PICK c \in Docs, p \in Pages : t = <<c, p>> /\ HasTex(doc, c, p) /\ doc[c].tex[p].now BY <1>10
  <2>2. CASE c = d /\ (j.type # "render" \/ p = j.page)
    <3>1. j.type = "load" \/ p = j.page BY <1>3, <2>2 DEF Outcomes, FinishedJob
    <3> QED BY <1>2, <1>3, <2>1, <2>2, <3>1 DEF Kept
  <2>3. CASE c # d \/ (j.type = "render" /\ p # j.page)
    <3>1. Live(c) BY <1>6, <2>1
    <3>2. D[c].tex[p] = doc[c].tex[p] BY <1>3, <1>7, <1>8, <2>1, <2>3, <3>1
    <3>3. p # -1 BY PageFacts
    <3>4. t \in Textures(D) /\ InUse(D, t) BY <2>1, <3>2, <3>3 DEF Textures, InUse, HasTex
    <3>5. t \in Textures(doc') BY <1>3, <3>4
    <3> QED BY <3>5 DEF Kept, Textures, HasTex
  <2> QED BY <2>2, <2>3
<1> QED BY <1>5, <1>9, <1>10

ShownStep == TrimEnds => \A t \in Textures(doc) : InUse(doc, t) => Kept(t)

(* Trimming at the end of a frame or of a poll takes no texture that was   *)
(* drawn in the last frame: trim_textures frees others first, and only     *)
(* while there are any.                                                    *)
THEOREM ShownTexturesAreKept == Spec => ShownTexturesKept
<1>1. ASSUME RefsInv, [Next]_vars PROVE [ShownStep]_vars
  <2> SUFFICES ASSUME Next, TrimEnds, NEW t \in Textures(doc), InUse(doc, t) PROVE Kept(t)
    BY <1>1 DEF ShownStep
  <2>1. TypeInv /\ CountInv BY <1>1 DEF RefsInv
  <2>2. main \in {"draw", "poll"} /\ main' = "idle" BY DEF TrimEnds
  <2>3. ~ User
    BY <2>2 DEF User, Open, Close, Reload, TurnPage, Show, Resize, DeviceReset, Shutdown, Command
  <2>4. \A i \in Workers : ~ Worker(i)
    BY <2>2 DEF Worker, Take, Sleep, Exit, Run, Finish, mainVars
  <2>5. CASE EndFrame
    <3>1. PICK D : Pruned(D) /\ Slimmed(D, doc') BY <2>1, <2>5, EndDoes
    <3>2. t \in Textures(D) /\ InUse(D, t) BY <3>1 DEF Pruned
    <3>3. t \in Textures(doc') BY <3>1, <3>2 DEF Slimmed
    <3> QED BY <3>3 DEF Kept, Textures, HasTex
  <2>6. CASE ApplyResult
    <3>1. main = "poll" BY <2>6 DEF ApplyResult
    <3> QED BY <2>1, <2>6, <3>1, ApplyKeeps
  <2>7. ~ (Poll \/ StartFrame \/ Stop \/ \E w \in Windows : DrawPlace(w))
    BY <2>2 DEF Poll, StartFrame, Stop, DrawPlace
  <2> QED BY <2>3, <2>4, <2>5, <2>6, <2>7 DEF Next, Main
<1>2. Spec => [][ShownStep]_vars
  BY <1>1, RefsAlways, PTL DEF Spec
<1> QED BY <1>2 DEF ShownTexturesKept, ShownStep

-----------------------------------------------------------------------------
(* PDFs.  A document holds a PDF of its own until it is freed, which has a *)
(* job close the PDF; whatever needs the PDF of a document finds one.      *)
Frees(q) == {k \in DOMAIN q : q[k].type = "free_pdf"}
OneFree(q) == \A k, m \in Frees(q) : q[k].pdf.doc = q[m].pdf.doc => k = m
Owned == {doc[d].pdf : d \in Docs} \ {NoPdf}
Due(j, at) == j.type = "free_pdf" /\ (j.by = NoWorker \/ at[j.by] = "run")
FreeingOf(q, at) == {q[k].pdf : k \in {m \in DOMAIN q : Due(q[m], at)}}
Freeing == FreeingOf(queue, pc)
Gone(d) == doc[d].life \in {"new", "freed"}

PdfsOwn == \A d \in Docs : /\ doc[d].pdf # NoPdf => doc[d].pdf.doc = d
                           /\ Gone(d) => doc[d].pdf = NoPdf /\ doc[d].state = "loading"
FreesDue == \A k \in Frees(queue) : /\ queue[k].pdf # NoPdf /\ queue[k].pdf.doc \in Docs
                                    /\ doc[queue[k].pdf.doc].life = "freed"

(* A load that has succeeded, a page to render, and a PDF shown.           *)
Good(j) == j.type = "load" /\ j.doc \in Pdfs /\ ~ j.error
GoodRun(i) == pc[i] = "ran" /\ job[i].type = "load" /\ job[i].doc \in Pdfs /\ ~ result[i].error
Rendering(q, d) == \E k \in DOMAIN q : q[k].type = "render" /\ q[k].doc = d
Arriving(q, d) == \E k \in DOMAIN q : Good(q[k]) /\ q[k].doc = d
ReadyPdf(d) == d \in Pdfs /\ doc[d].state = "ready"
Needed(d) == \/ ReadyPdf(d) \/ Rendering(queue, d) \/ Arriving(done, d) \/ Arriving(inbox, d)
             \/ \E i \in Workers : GoodRun(i) /\ job[i].doc = d

PdfInv ==
    /\ PdfsOwn /\ OneFree(queue) /\ FreesDue
    /\ handles = Owned \cup Freeing
    /\ \A d \in Docs : Needed(d) => doc[d].pdf # NoPdf

(* The jobs closing PDFs are the same in r as in q.                        *)
SameFrees(q, r) ==
    /\ OneFree(q) => OneFree(r)
    /\ \A k \in Frees(q) : \E m \in Frees(r) : Alike(r[m], q[k])
    /\ \A m \in Frees(r) : \E k \in Frees(q) : Alike(q[k], r[m])

LEMMA FreesAgain ==
    ASSUME NEW q, NEW r, NEW s, SameFrees(q, r), SameFrees(r, s)
    PROVE  SameFrees(q, s)
<1>1. ASSUME NEW k \in Frees(q) PROVE \E m \in Frees(s) : Alike(s[m], q[k])
  <2>1. PICK l \in Frees(r) : Alike(r[l], q[k]) BY DEF SameFrees
  <2>2. PICK m \in Frees(s) : Alike(s[m], r[l]) BY DEF SameFrees
  <2> QED BY <2>1, <2>2 DEF Alike
<1>2. ASSUME NEW m \in Frees(s) PROVE \E k \in Frees(q) : Alike(q[k], s[m])
  <2>1. PICK l \in Frees(r) : Alike(r[l], s[m]) BY DEF SameFrees
  <2>2. PICK k \in Frees(q) : Alike(q[k], r[l]) BY DEF SameFrees
  <2> QED BY <2>1, <2>2 DEF Alike
<1>3. OneFree(q) => OneFree(s)
  BY DEF SameFrees
<1> QED BY <1>1, <1>2, <1>3 DEF SameFrees

LEMMA FreesSelf == ASSUME NEW q PROVE SameFrees(q, q)
  BY DEF SameFrees, Alike

LEMMA MoreFrees ==
    ASSUME NEW q \in Seq(Queued), NEW r \in Seq(Queued), NEW d, NEW ts, MoreOf(r, q, d, ts), "free_pdf" \notin ts
    PROVE  SameFrees(q, r)
<1>1. /\ Len(q) \in Nat /\ Len(r) \in Nat /\ DOMAIN q = 1 .. Len(q) /\ DOMAIN r = 1 .. Len(r)
  OBVIOUS
<1>2. /\ Len(q) <= Len(r)
      /\ \A k \in 1 .. Len(q) : Alike(r[k], q[k])
      /\ \A k \in Len(q) + 1 .. Len(r) : r[k].type \in ts
  BY DEF MoreOf, Alike
<1>3. \A k \in DOMAIN q : k \in DOMAIN r /\ Alike(r[k], q[k])
  BY <1>1, <1>2
<1>4. \A m \in DOMAIN r : m \in DOMAIN q \/ r[m].type \in ts
  BY <1>1, <1>2
<1>5. Frees(r) = Frees(q) /\ \A k \in Frees(q) : r[k].pdf = q[k].pdf /\ Alike(r[k], q[k]) /\ Alike(q[k], r[k])
  BY <1>3, <1>4 DEF Frees, Alike
<1>6. OneFree(q) => OneFree(r)
  BY <1>5 DEF OneFree
<1> QED BY <1>5, <1>6 DEF SameFrees

LEMMA SelectedFrees ==
    ASSUME NEW q \in Seq(Queued), NEW S, Frees(q) \subseteq S
    PROVE  SameFrees(q, Selected(q, S))
<1>1. PICK r \in Seq(Queued) : r = Selected(q, S) BY SelectedComes
<1>2. PICK e : ComesFrom(r, q, S, Len(q), e) BY <1>1, SelectedComes
<1>3. /\ DOMAIN r = 1 .. Len(r) /\ DOMAIN q = 1 .. Len(q) /\ Len(q) \in Nat /\ Len(r) \in Nat
  OBVIOUS
<1>4. /\ \A k \in DOMAIN r : e[k] \in DOMAIN q /\ e[k] \in S /\ r[k] = q[e[k]]
      /\ \A j \in DOMAIN r, k \in DOMAIN r : j < k => e[j] < e[k]
      /\ \A i \in DOMAIN q : i \in S => \E k \in DOMAIN r : e[k] = i
  BY <1>2, <1>3 DEF ComesFrom
<1>5. \A j \in DOMAIN r, k \in DOMAIN r : e[j] = e[k] => j = k
  <2> SUFFICES ASSUME NEW j \in DOMAIN r, NEW k \in DOMAIN r, e[j] = e[k], j # k PROVE FALSE
    OBVIOUS
  <2>1. j < k \/ k < j BY <1>3
  <2>2. e[j] < e[k] \/ e[k] < e[j] BY <1>4, <2>1
  <2>3. e[j] \in Nat /\ e[k] \in Nat BY <1>3, <1>4
  <2> QED BY <2>2, <2>3
<1>6. \A m \in Frees(r) : e[m] \in Frees(q) /\ r[m] = q[e[m]]
  BY <1>4 DEF Frees
<1>7. \A k \in Frees(q) : \E m \in Frees(r) : r[m] = q[k]
  BY <1>4 DEF Frees
<1>8. OneFree(q) => OneFree(r)
  BY <1>5, <1>6 DEF OneFree, Frees
<1>9. \A x : Alike(x, x) BY DEF Alike
<1> QED BY <1>1, <1>6, <1>7, <1>8, <1>9 DEF SameFrees

(* Starting and waking threads takes none from its work.                   *)
StillBusy == \A i \in Workers : AtWork(i) \/ AtWork(i)' => pc'[i] = pc[i]

LEMMA SignalStillBusy ==
    ASSUME DOMAIN pc = Workers, NEW s, Signal(s)
    PROVE  StillBusy
<1>1. CASE s
  <2>1. PICK S \in Startable :
              pc' = Woken([i \in Workers |-> IF i \in S THEN "loop" ELSE pc[i]])
    BY <1>1 DEF Signal
  <2>2. S \subseteq Unstarted
    BY DEF Startable, Unstarted
  <2> QED BY <2>1, <2>2 DEF Woken, AtWork, Unstarted, StillBusy
<1>2. CASE ~ s
  BY <1>2 DEF Signal, AtWork, StillBusy
<1> QED BY <1>1, <1>2

LEMMA SameFreeing ==
    ASSUME NEW q \in Seq(Queued), NEW r \in Seq(Queued), SameFrees(q, r), StillBusy
    PROVE  FreeingOf(r, pc') = FreeingOf(q, pc)
<1>1. \A k \in DOMAIN q : q[k].by \in Workers \cup {NoWorker}
  BY DEF Queued, Job
<1>2. \A k \in DOMAIN r : r[k].by \in Workers \cup {NoWorker}
  BY DEF Queued, Job
<1>3. \A b \in Workers : pc'[b] = "run" <=> pc[b] = "run"
  BY DEF StillBusy, AtWork
<1>4. ASSUME NEW k \in DOMAIN q, Due(q[k], pc)
      PROVE  \E m \in DOMAIN r : Due(r[m], pc') /\ r[m].pdf = q[k].pdf
  <2>1. k \in Frees(q) BY <1>4 DEF Frees, Due
  <2>2. PICK m \in Frees(r) : Alike(r[m], q[k]) BY <2>1 DEF SameFrees
  <2>3. m \in DOMAIN r /\ r[m].by = q[k].by /\ r[m].pdf = q[k].pdf /\ r[m].type = q[k].type
    BY <2>2 DEF Alike, Frees
  <2> QED BY <1>1, <1>3, <1>4, <2>3 DEF Due
<1>5. ASSUME NEW m \in DOMAIN r, Due(r[m], pc')
      PROVE  \E k \in DOMAIN q : Due(q[k], pc) /\ q[k].pdf = r[m].pdf
  <2>1. m \in Frees(r) BY <1>5 DEF Frees, Due
  <2>2. PICK k \in Frees(q) : Alike(q[k], r[m]) BY <2>1 DEF SameFrees
  <2>3. k \in DOMAIN q /\ r[m].by = q[k].by /\ r[m].pdf = q[k].pdf /\ r[m].type = q[k].type
    BY <2>2 DEF Alike, Frees
  <2> QED BY <1>2, <1>3, <1>5, <2>3 DEF Due
<1> QED BY <1>4, <1>5 DEF FreeingOf

(* A step that closes no PDF and opens none.                               *)
SameHolders ==
    \A d \in Docs : /\ doc'[d].pdf = doc[d].pdf
                    /\ doc[d].life = "freed" => doc'[d].life = "freed"
                    /\ Gone(d)' => doc'[d].state = "loading" /\ (Gone(d) \/ doc[d].pdf = NoPdf)

LEMMA PdfKept ==
    ASSUME PdfInv, SameHolders, handles' = handles, Freeing' = Freeing, OneFree(queue'),
           \A k \in Frees(queue') : \E m \in Frees(queue) : queue[m].pdf = queue'[k].pdf,
           \A d \in Docs : Needed(d)' => Needed(d)
    PROVE  PdfInv'
<1>1. PdfsOwn'
  <2> SUFFICES ASSUME NEW d \in Docs
               PROVE  /\ doc'[d].pdf # NoPdf => doc'[d].pdf.doc = d
                      /\ Gone(d)' => doc'[d].pdf = NoPdf /\ doc'[d].state = "loading"
    BY DEF PdfsOwn
  <2>1. doc'[d].pdf = doc[d].pdf BY DEF SameHolders
  <2>2. Gone(d)' => doc'[d].state = "loading" /\ doc[d].pdf = NoPdf
    BY DEF SameHolders, PdfInv, PdfsOwn
  <2> QED BY <2>1, <2>2 DEF PdfInv, PdfsOwn
<1>2. FreesDue'
  <2> SUFFICES ASSUME NEW k \in Frees(queue')
               PROVE  /\ queue'[k].pdf # NoPdf /\ queue'[k].pdf.doc \in Docs
                      /\ doc'[queue'[k].pdf.doc].life = "freed"
    BY DEF FreesDue, Frees
  <2>1. PICK m \in Frees(queue) : queue[m].pdf = queue'[k].pdf OBVIOUS
  <2>2. queue[m].pdf # NoPdf /\ queue[m].pdf.doc \in Docs /\ doc[queue[m].pdf.doc].life = "freed"
    BY DEF PdfInv, FreesDue
  <2> QED BY <2>1, <2>2 DEF SameHolders
<1>3. Owned' = Owned
  <2>1. \A d \in Docs : doc'[d].pdf = doc[d].pdf BY DEF SameHolders
  <2> QED BY <2>1 DEF Owned
<1>4. \A d \in Docs : Needed(d)' => doc'[d].pdf # NoPdf
  BY DEF PdfInv, SameHolders
<1> QED BY <1>1, <1>2, <1>3, <1>4 DEF PdfInv, OneFree, Frees

LEMMA PdfKeep ==
    ASSUME TypeInv, TypeInv', PdfInv, SameFrees(queue, queue'), StillBusy, handles' = handles,
           SameHolders, \A d \in Docs : Needed(d)' => Needed(d)
    PROVE  PdfInv'
<1>1. queue \in Seq(Queued) /\ queue' \in Seq(Queued)
  BY DEF TypeInv, ListsTyped
<1>2. OneFree(queue')
  BY DEF PdfInv, SameFrees
<1>3. \A k \in Frees(queue') : \E m \in Frees(queue) : queue[m].pdf = queue'[k].pdf
  BY DEF SameFrees, Alike
<1>4. Freeing' = Freeing
  BY <1>1, SameFreeing DEF Freeing, FreeingOf, Due
<1> QED BY <1>2, <1>3, <1>4, PdfKept

(* A document that is gone has no job left, so none needs its PDF.         *)
LEMMA GoneUnneeded ==
    ASSUME TypeInv', WorkHeld', CountInv', NEW d \in Docs, Gone(d)', doc'[d].state = "loading"
    PROVE  ~ Needed(d)'
<1>1. queue' \in Seq(Queued) /\ done' \in Seq(Outcomes) /\ inbox' \in Seq(Outcomes)
  BY DEF TypeInv, ListsTyped
<1>2. Owed(d)' = 0
  <2>1. Balanced(doc'[d], Owed(d)') BY DEF CountInv, Balanced, Bare
  <2> QED BY <2>1 DEF Balanced, Gone
<1>3. HowMany(queue', JobsOf(d)) = 0 /\ HowMany(done', JobsOf(d)) = 0 /\ HowMany(inbox', JobsOf(d)) = 0
  <2>1. HowMany(queue', JobsOf(d)) \in Nat /\ HowMany(done', JobsOf(d)) \in Nat /\ HowMany(inbox', JobsOf(d)) \in Nat
    BY <1>1, SpotsFinite
  <2>2. HowMany(queue', JobsOf(d)) + HowMany(done', JobsOf(d)) + HowMany(inbox', JobsOf(d)) = 0
    BY <1>2 DEF Owed, JobsOf
  <2> QED BY <2>1, <2>2
<1>4. \A k \in DOMAIN queue' : queue'[k].doc # d
  <2> SUFFICES ASSUME NEW k \in DOMAIN queue', queue'[k].doc = d PROVE FALSE
    OBVIOUS
  <2>1. queue'[k] \in JobsOf(d) BY <1>1 DEF JobsOf
  <2> QED BY <1>1, <1>3, <2>1, SomeSpot
<1>5. \A k \in DOMAIN done' : done'[k].doc # d
  <2> SUFFICES ASSUME NEW k \in DOMAIN done', done'[k].doc = d PROVE FALSE
    OBVIOUS
  <2>1. done'[k] \in JobsOf(d) BY <1>1 DEF JobsOf
  <2> QED BY <1>1, <1>3, <2>1, SomeSpot
<1>6. \A k \in DOMAIN inbox' : inbox'[k].doc # d
  <2> SUFFICES ASSUME NEW k \in DOMAIN inbox', inbox'[k].doc = d PROVE FALSE
    OBVIOUS
  <2>1. inbox'[k] \in JobsOf(d) BY <1>1 DEF JobsOf
  <2> QED BY <1>1, <1>3, <2>1, SomeSpot
<1>7. \A i \in Workers : ~ (GoodRun(i)' /\ job'[i].doc = d)
  <2> SUFFICES ASSUME NEW i \in Workers, pc'[i] = "ran", job'[i].doc = d PROVE FALSE
    BY DEF GoodRun
  <2>1. \E k \in DOMAIN queue' : InHand(queue'[k], job'[i], i)
    BY DEF WorkHeld, AtWork, InHand
  <2> QED BY <1>4, <2>1 DEF InHand
<1> QED BY <1>4, <1>5, <1>6, <1>7 DEF Needed, ReadyPdf, Rendering, Arriving

(* What is needed of the queue, as it changes.                             *)
LEMMA MoreRenders ==
    ASSUME NEW q \in Seq(Queued), NEW r \in Seq(Queued), NEW d, NEW ts, MoreOf(r, q, d, ts),
           NEW c, Rendering(r, c)
    PROVE  Rendering(q, c) \/ (c = d /\ "render" \in ts)
<1>1. /\ Len(q) \in Nat /\ Len(r) \in Nat /\ DOMAIN q = 1 .. Len(q) /\ DOMAIN r = 1 .. Len(r)
  OBVIOUS
<1>2. PICK k \in DOMAIN r : r[k].type = "render" /\ r[k].doc = c
  BY DEF Rendering
<1>3. CASE k \in 1 .. Len(q)
  <2>1. q[k].type = "render" /\ q[k].doc = c BY <1>2, <1>3 DEF MoreOf
  <2> QED BY <1>1, <1>3, <2>1 DEF Rendering
<1>4. CASE k \in Len(q) + 1 .. Len(r)
  BY <1>2, <1>4 DEF MoreOf
<1>5. k \in 1 .. Len(q) \/ k \in Len(q) + 1 .. Len(r)
  BY <1>1, <1>2
<1> QED BY <1>3, <1>4, <1>5

LEMMA SelectedRenders ==
    ASSUME NEW q \in Seq(Queued), NEW S, NEW c, Rendering(Selected(q, S), c)
    PROVE  Rendering(q, c)
<1>1. PICK r \in Seq(Queued) : r = Selected(q, S) BY SelectedComes
<1>2. PICK e : ComesFrom(r, q, S, Len(q), e) BY <1>1, SelectedComes
<1>3. /\ DOMAIN r = 1 .. Len(r) /\ DOMAIN q = 1 .. Len(q)
  OBVIOUS
<1>4. \A k \in DOMAIN r : e[k] \in DOMAIN q /\ r[k] = q[e[k]]
  BY <1>2, <1>3 DEF ComesFrom
<1> QED BY <1>1, <1>4 DEF Rendering

LEMMA NeedSame ==
    ASSUME StillBusy, UNCHANGED <<job, result>>, NEW d \in Docs,
           ReadyPdf(d)' => Needed(d), Rendering(queue', d) => Needed(d),
           Arriving(done', d) => Needed(d), Arriving(inbox', d) => Needed(d)
    PROVE  Needed(d)' => Needed(d)
<1>1. \A i \in Workers : GoodRun(i)' => GoodRun(i)
  BY DEF StillBusy, AtWork, GoodRun
<1>2. CASE \E i \in Workers : GoodRun(i)' /\ job'[i].doc = d
  BY <1>1, <1>2 DEF Needed
<1>3. Needed(d)' => \/ ReadyPdf(d)' \/ Rendering(queue', d) \/ Arriving(done', d) \/ Arriving(inbox', d)
                    \/ \E i \in Workers : GoodRun(i)' /\ job'[i].doc = d
  BY DEF Needed, Rendering, Arriving, Good
<1> QED BY <1>2, <1>3

-----------------------------------------------------------------------------
LEMMA PdfQuiet ==
    ASSUME TypeInv, TypeInv', PdfInv, StillBusy, UNCHANGED <<queue, done, inbox, job, result, handles>>,
           \A d \in Docs : /\ doc'[d].pdf = doc[d].pdf /\ doc'[d].life = doc[d].life
                           /\ doc'[d].state = doc[d].state
    PROVE  PdfInv'
<1>1. SameHolders
  BY DEF SameHolders, PdfInv, PdfsOwn, Gone
<1>2. SameFrees(queue, queue')
  BY FreesSelf
<1>3. ASSUME NEW d \in Docs PROVE Needed(d)' => Needed(d)
  <2>1. ReadyPdf(d)' => Needed(d) BY DEF ReadyPdf, Needed
  <2>2. Rendering(queue', d) => Needed(d) BY DEF Needed
  <2>3. Arriving(done', d) => Needed(d) BY DEF Needed
  <2>4. Arriving(inbox', d) => Needed(d) BY DEF Needed
  <2> QED BY <2>1, <2>2, <2>3, <2>4, NeedSame
<1> QED BY <1>1, <1>2, <1>3, PdfKeep

LEMMA PdfTake ==
    ASSUME TypeInv, TypeInv', WorkHeld, PdfInv, NEW i \in Workers, Take(i)
    PROVE  PdfInv'
<1>1. PICK k \in Runnable : queue' = [queue EXCEPT ![k].by = i]
  BY DEF Take
<1>2. /\ UNCHANGED <<docVars, mainVars, done, result>> /\ pc' = [pc EXCEPT ![i] = "run"] /\ pc[i] = "loop"
      /\ \E j : job' = [job EXCEPT ![i] = j]
  BY DEF Take
<1>3. /\ queue \in Seq(Queued) /\ k \in DOMAIN queue /\ queue[k].by = NoWorker
      /\ DOMAIN pc = Workers /\ DOMAIN job = Workers
  BY <1>1 DEF TypeInv, ListsTyped, WorkTyped, Runnable, CanRun
<1>4. DOMAIN queue' = DOMAIN queue /\ \A m \in DOMAIN queue : m # k => queue'[m] = queue[m]
  BY <1>1, <1>3
<1>5. /\ queue'[k].by = i /\ queue'[k].doc = queue[k].doc /\ queue'[k].type = queue[k].type
      /\ queue'[k].pdf = queue[k].pdf
  <2>1. PICK j \in Queued : j = queue[k] BY <1>3
  <2>2. queue'[k] = [j EXCEPT !.by = i] BY <1>1, <1>3, <2>1
  <2> QED BY <2>1, <2>2 DEF Queued, Job
<1>6. \A m \in DOMAIN queue : /\ queue'[m].doc = queue[m].doc /\ queue'[m].type = queue[m].type
                              /\ queue'[m].pdf = queue[m].pdf
  BY <1>4, <1>5
<1>7. Frees(queue') = Frees(queue)
  BY <1>4, <1>6 DEF Frees
<1>8. OneFree(queue') /\ \A m \in Frees(queue') : \E n \in Frees(queue) : queue[n].pdf = queue'[m].pdf
  BY <1>6, <1>7 DEF PdfInv, OneFree, Frees
<1>9. \A m \in DOMAIN queue : Due(queue'[m], pc') <=> Due(queue[m], pc)
  <2> SUFFICES ASSUME NEW m \in DOMAIN queue PROVE Due(queue'[m], pc') <=> Due(queue[m], pc)
    OBVIOUS
  <2>1. CASE m = k BY <1>2, <1>3, <1>5, <2>1 DEF Due
  <2>2. CASE m # k
    <3>1. queue'[m] = queue[m] BY <1>4, <2>2
    <3>2. queue[m].by # i BY <1>2, WorkersAssumption DEF WorkHeld, AtWork
    <3> QED BY <1>2, <3>1, <3>2 DEF Due
  <2> QED BY <2>1, <2>2
<1>10. Freeing' = Freeing
  BY <1>4, <1>6, <1>9 DEF Freeing, FreeingOf, Due
<1>11. handles' = handles /\ SameHolders
  BY <1>2 DEF docVars, SameHolders, PdfInv, PdfsOwn, Gone
<1>12. ASSUME NEW d \in Docs PROVE Needed(d)' => Needed(d)
  <2>1. UNCHANGED <<doc, done, inbox, result>> BY <1>2 DEF docVars, mainVars
  <2>2. Rendering(queue', d) => Rendering(queue, d) BY <1>4, <1>6 DEF Rendering
  <2>3. \A m \in Workers : GoodRun(m)' => GoodRun(m) /\ job'[m] = job[m]
    BY <1>2, <1>3 DEF GoodRun
  <2> QED BY <2>1, <2>2, <2>3 DEF Needed, ReadyPdf, Rendering, Arriving, Good
<1> QED BY <1>8, <1>10, <1>11, <1>12, PdfKept

LEMMA PdfFinish ==
    ASSUME TypeInv, TypeInv', WorkHeld, PdfInv, NEW i \in Workers, Finish(i)
    PROVE  PdfInv'
<1>1. /\ queue' = Selected(queue, {k \in DOMAIN queue : queue[k].by # i})
      /\ job' = [job EXCEPT ![i] = NoJob]
      /\ pc' = Woken([pc EXCEPT ![i] = "loop"]) /\ pc[i] = "ran"
      /\ UNCHANGED <<docVars, mainVars>> /\ result' = [result EXCEPT ![i] = NoResult]
      /\ IF job[i].type = "free_pdf" THEN done' = done
         ELSE done' = <<Finished(job[i], result[i])>> \o done
  BY DEF Finish
<1>2. /\ queue \in Seq(Queued) /\ done \in Seq(Outcomes) /\ DOMAIN pc = Workers /\ DOMAIN job = Workers
      /\ DOMAIN result = Workers
  BY DEF TypeInv, ListsTyped, WorkTyped
<1> DEFINE S == {k \in DOMAIN queue : queue[k].by # i}
<1>3. PICK r \in Seq(Queued) : r = queue'
  BY <1>1, <1>2, SelectedComes
<1>4. PICK e : ComesFrom(r, queue, S, Len(queue), e)
  BY <1>1, <1>2, <1>3, SelectedComes
<1>5. /\ DOMAIN r = 1 .. Len(r) /\ DOMAIN queue = 1 .. Len(queue) /\ Len(queue) \in Nat /\ Len(r) \in Nat
  BY <1>2
<1>6. /\ \A k \in DOMAIN r : e[k] \in DOMAIN queue /\ queue[e[k]].by # i /\ r[k] = queue[e[k]]
      /\ \A j \in DOMAIN r, k \in DOMAIN r : j < k => e[j] < e[k]
      /\ \A m \in DOMAIN queue : queue[m].by # i => \E k \in DOMAIN r : e[k] = m
  BY <1>4, <1>5 DEF ComesFrom
<1>7. \A j \in DOMAIN r, k \in DOMAIN r : e[j] = e[k] => j = k
  <2> SUFFICES ASSUME NEW j \in DOMAIN r, NEW k \in DOMAIN r, e[j] = e[k], j # k PROVE FALSE
    OBVIOUS
  <2>1. j < k \/ k < j BY <1>5
  <2>2. e[j] < e[k] \/ e[k] < e[j] BY <1>6, <2>1
  <2>3. e[j] \in Nat /\ e[k] \in Nat BY <1>5, <1>6
  <2> QED BY <2>2, <2>3
<1> HIDE DEF S
<1>8. \A m \in Workers : pc'[m] = "run" <=> pc[m] = "run"
  BY <1>1, <1>2 DEF Woken
<1>9. OneFree(r) /\ \A m \in Frees(r) : e[m] \in Frees(queue) /\ queue[e[m]].pdf = r[m].pdf
  BY <1>6, <1>7 DEF PdfInv, OneFree, Frees
<1>10. Freeing' = Freeing
  <2>1. \A k \in DOMAIN queue : queue[k].by \in Workers \cup {NoWorker} BY <1>2 DEF Queued, Job
  <2>2. \A k \in DOMAIN r : Due(r[k], pc') => Due(queue[e[k]], pc) /\ queue[e[k]].pdf = r[k].pdf
    BY <1>6, <1>8, <2>1 DEF Due
  <2>3. ASSUME NEW k \in DOMAIN queue, Due(queue[k], pc)
        PROVE  \E m \in DOMAIN r : Due(r[m], pc') /\ r[m].pdf = queue[k].pdf
    <3>1. queue[k].by # i BY <1>1, <2>3, WorkersAssumption DEF Due
    <3>2. PICK m \in DOMAIN r : e[m] = k BY <1>6, <3>1
    <3> QED BY <1>6, <1>8, <2>1, <2>3, <3>2 DEF Due
  <2> QED BY <1>3, <1>6, <2>2, <2>3 DEF Freeing, FreeingOf, Due
<1>11. handles' = handles /\ SameHolders
  BY <1>1 DEF docVars, SameHolders, PdfInv, PdfsOwn, Gone
<1>12. ASSUME NEW d \in Docs PROVE Needed(d)' => Needed(d)
  <2>1. UNCHANGED <<doc, inbox>> BY <1>1 DEF docVars, mainVars
  <2>2. Rendering(queue', d) => Rendering(queue, d) BY <1>3, <1>6 DEF Rendering
  <2>3. \A m \in Workers : GoodRun(m)' => GoodRun(m) /\ job'[m] = job[m]
    BY <1>1, <1>2 DEF GoodRun, Woken
  <2>4. Arriving(done', d) => Arriving(done, d) \/ (GoodRun(i) /\ job[i].doc = d)
    <3>1. CASE job[i].type = "free_pdf"
      BY <1>1, <3>1
    <3>2. CASE job[i].type # "free_pdf"
      <4>1. job[i] \in Queued /\ result[i] \in Result
            /\ HasPages(job[i].type, job[i].doc, result[i].error, result[i].npages)
        BY <1>1 DEF TypeInv, WorkTyped, AtWork
      <4>2. PICK x \in Outcomes : x = Finished(job[i], result[i])
        BY <3>2, <4>1, OutcomeTyped
      <4>3. done' = <<x>> \o done BY <1>1, <3>2, <4>2
      <4>4. /\ Len(done) \in Nat /\ DOMAIN done = 1 .. Len(done) /\ DOMAIN (<<x>> \o done) = 1 .. Len(done) + 1
            /\ (<<x>> \o done)[1] = x
            /\ \A k \in 2 .. Len(done) + 1 : (<<x>> \o done)[k] = done[k - 1]
        BY <1>2, <4>2
      <4>5. Good(x) /\ x.doc = d => GoodRun(i) /\ job[i].doc = d
        BY <1>1, <4>2 DEF Good, GoodRun, Finished
      <4>6. ASSUME NEW k \in DOMAIN done', Good(done'[k]), done'[k].doc = d
            PROVE  Arriving(done, d) \/ (GoodRun(i) /\ job[i].doc = d)
        <5>1. CASE k = 1 BY <4>3, <4>4, <4>5, <4>6, <5>1
        <5>2. CASE k # 1
          <6>1. k \in 2 .. Len(done) + 1 /\ k - 1 \in DOMAIN done BY <4>3, <4>4, <5>2
          <6>2. done'[k] = done[k - 1] BY <4>3, <4>4, <6>1
          <6> QED BY <4>6, <6>1, <6>2 DEF Arriving
        <5> QED BY <5>1, <5>2
      <4> QED BY <4>6 DEF Arriving
    <3> QED BY <3>1, <3>2
  <2> QED BY <2>1, <2>2, <2>3, <2>4 DEF Needed, ReadyPdf, Rendering, Arriving, Good
<1> QED BY <1>3, <1>9, <1>10, <1>11, <1>12, PdfKept

-----------------------------------------------------------------------------
(* What a worker's work does to PDFs: nothing, or one is opened in place   *)
(* of the document's, or one is closed.                                    *)
Opened(i) ==
    \E pdf \in PdfFile : /\ pdf # NoPdf /\ pdf.doc = job[i].doc /\ job[i].doc \in Docs
                         /\ doc' = [doc EXCEPT ![job[i].doc].pdf = pdf]
                         /\ handles' = (handles \ {doc[job[i].doc].pdf}) \cup {pdf}

LEMMA RunOpens ==
    ASSUME TypeInv, NEW i \in Workers, Run(i)
    PROVE  \/ UNCHANGED docVars /\ job[i].type # "free_pdf" /\ ~ GoodRun(i)'
           \/ Opened(i) /\ job[i].type = "load"
           \/ job[i].type = "free_pdf" /\ doc' = doc /\ handles' = handles \ {job[i].pdf}
<1>1. /\ job[i] \in Queued /\ result \in [Workers -> Result] /\ job' = job
  BY DEF TypeInv, WorkTyped, Run, AtWork
<1>2. PICK j \in Queued : j = job[i]
  BY <1>1
<1>3. CASE j.type = "free_pdf"
  BY <1>2, <1>3 DEF Run
<1>4. CASE j.type = "render"
  <2>1. UNCHANGED docVars
    BY <1>2, <1>4 DEF Run, RunRender
  <2>2. ~ GoodRun(i)'
    BY <1>1, <1>2, <1>4 DEF GoodRun
  <2> QED BY <1>2, <1>4, <2>1, <2>2
<1>5. CASE j.type = "load"
  <2>1. \/ result' = [result EXCEPT ![i].error = TRUE, ![i].npages = 0] /\ UNCHANGED docVars
        \/ /\ j.doc \notin Pdfs /\ UNCHANGED docVars
        \/ /\ j.doc \in Pdfs
           /\ \E n \in 1 .. MAX_PAGES :
                 /\ doc' = [doc EXCEPT ![j.doc].pdf = [[doc |-> j.doc, gen |-> j.gen, pages |-> 0] EXCEPT !.pages = n]]
                 /\ handles' = (handles \ {doc[j.doc].pdf})
                                  \cup {[[doc |-> j.doc, gen |-> j.gen, pages |-> 0] EXCEPT !.pages = n]}
    BY <1>2, <1>5 DEF Run, RunLoad
  <2>2. CASE result' = [result EXCEPT ![i].error = TRUE, ![i].npages = 0] /\ UNCHANGED docVars
    <3>1. PICK r \in Result : r = result[i] BY <1>1
    <3>2. PICK x : x = [r EXCEPT !.error = TRUE] OBVIOUS
    <3>3. x.error = TRUE /\ x \in Result BY <3>2 DEF Result
    <3>4. result' = [result EXCEPT ![i] = [x EXCEPT !.npages = 0]] BY <1>1, <2>2, <3>1, <3>2
    <3>5. result'[i] = [x EXCEPT !.npages = 0] BY <1>1, <3>4
    <3>6. result'[i].error = TRUE BY <3>3, <3>5 DEF Result
    <3> QED BY <1>2, <1>5, <2>2, <3>6 DEF GoodRun
  <2>3. CASE j.doc \notin Pdfs /\ UNCHANGED docVars
    BY <1>1, <1>2, <1>5, <2>3 DEF GoodRun
  <2>4. ASSUME NEW n \in 1 .. MAX_PAGES, j.doc \in Pdfs,
               doc' = [doc EXCEPT ![j.doc].pdf = [[doc |-> j.doc, gen |-> j.gen, pages |-> 0] EXCEPT !.pages = n]],
               handles' = (handles \ {doc[j.doc].pdf})
                             \cup {[[doc |-> j.doc, gen |-> j.gen, pages |-> 0] EXCEPT !.pages = n]}
        PROVE  Opened(i)
    <3>1. n \in 0 .. MAX_PAGES /\ n > 0
      BY PageFacts
    <3>2. PICK pdf : pdf = [[doc |-> j.doc, gen |-> j.gen, pages |-> 0] EXCEPT !.pages = n]
      OBVIOUS
    <3>3. pdf = [doc |-> j.doc, gen |-> j.gen, pages |-> n]
      BY <3>2
    <3>4. j.doc \in Docs /\ j.doc # NoDoc /\ j.gen \in Nat
      BY <2>4, DocsAssumption DEF Queued, Job
    <3>5. pdf \in PdfFile /\ pdf # NoPdf /\ pdf.doc = j.doc
      BY <3>1, <3>3, <3>4 DEF PdfFile, NoPdf
    <3> QED BY <1>2, <2>4, <3>2, <3>4, <3>5 DEF Opened
  <2> QED BY <1>2, <1>5, <2>1, <2>2, <2>3, <2>4
<1>6. j.type \in {"load", "render", "free_pdf"}
  BY <1>2 DEF Run
<1> QED BY <1>3, <1>4, <1>5, <1>6

LEMMA PdfRun ==
    ASSUME TypeInv, TypeInv', WorkHeld, CountInv, PdfInv, NEW i \in Workers, Run(i)
    PROVE  PdfInv'
<1>1. /\ UNCHANGED <<queue, done, inbox, job>> /\ pc' = [pc EXCEPT ![i] = "ran"] /\ pc[i] = "run"
  BY DEF Run, lockVars, mainVars
<1>2. /\ queue \in Seq(Queued) /\ DOMAIN pc = Workers /\ doc \in [Docs -> Document]
      /\ \A m \in Workers : m # i => result'[m] = result[m]
  <2>1. result' = [result EXCEPT ![i] = result'[i]] BY RunDoes
  <2>2. DOMAIN result = Workers BY DEF TypeInv, WorkTyped
  <2>3. \A m \in Workers : m # i => result'[m] = result[m] BY <2>1, <2>2
  <2> QED BY <2>3 DEF TypeInv, ListsTyped, WorkTyped, DocsTyped
<1>3. PICK k \in DOMAIN queue : InHand(queue[k], job[i], i)
  BY <1>1 DEF WorkHeld, AtWork
<1>4. \A m \in DOMAIN queue : queue[m].by = i <=> m = k
  BY <1>3, WorkersAssumption DEF WorkHeld, OneEach, InHand
<1>5. \A m \in DOMAIN queue : m # k => (Due(queue[m], pc') <=> Due(queue[m], pc))
  BY <1>1, <1>2, <1>4 DEF Due
<1>6. ~ Due(queue[k], pc') /\ (Due(queue[k], pc) <=> job[i].type = "free_pdf")
  BY <1>1, <1>2, <1>3, WorkersAssumption DEF Due, InHand
<1>7. \A m \in Workers : GoodRun(m)' => GoodRun(m) \/ m = i
  BY <1>1, <1>2 DEF GoodRun
<1>8. /\ Freeing = {queue[m].pdf : m \in {n \in DOMAIN queue : Due(queue[n], pc)}}
      /\ Freeing' = {queue[m].pdf : m \in {n \in DOMAIN queue : Due(queue[n], pc')}}
  BY <1>1 DEF Freeing, FreeingOf, Due
<1>9. CASE UNCHANGED docVars /\ job[i].type # "free_pdf" /\ ~ GoodRun(i)'
  <2>1. Freeing' = Freeing BY <1>5, <1>6, <1>8, <1>9
  <2>2. handles' = handles /\ SameHolders
    BY <1>9 DEF docVars, SameHolders, PdfInv, PdfsOwn, Gone
  <2>3. OneFree(queue') /\ \A m \in Frees(queue') : \E n \in Frees(queue) : queue[n].pdf = queue'[m].pdf
    BY <1>1 DEF PdfInv
  <2>4. ASSUME NEW d \in Docs PROVE Needed(d)' => Needed(d)
    BY <1>1, <1>7, <1>9 DEF Needed, ReadyPdf, Rendering, Arriving, Good, docVars
  <2> QED BY <2>1, <2>2, <2>3, <2>4, PdfKept
<1>10. CASE job[i].type = "free_pdf" /\ doc' = doc /\ handles' = handles \ {job[i].pdf}
  <2>1. k \in Frees(queue) /\ queue[k].pdf = job[i].pdf BY <1>3, <1>10 DEF Frees, InHand
  <2>2. Freeing' = Freeing \ {job[i].pdf}
    <3>1. \A m \in DOMAIN queue : Due(queue[m], pc) /\ m # k => queue[m].pdf # job[i].pdf
      <4> SUFFICES ASSUME NEW m \in DOMAIN queue, Due(queue[m], pc), m # k, queue[m].pdf = job[i].pdf
                   PROVE  FALSE
        OBVIOUS
      <4>1. m \in Frees(queue) BY DEF Due, Frees
      <4> QED BY <2>1, <4>1 DEF PdfInv, OneFree
    <3> QED BY <1>5, <1>6, <1>8, <2>1, <3>1
  <2>3. job[i].pdf \notin Owned
    <3> SUFFICES ASSUME NEW d \in Docs, doc[d].pdf = job[i].pdf, job[i].pdf # NoPdf PROVE FALSE
      BY DEF Owned
    <3>1. doc[d].pdf.doc = d BY DEF PdfInv, PdfsOwn
    <3>2. doc[d].life = "freed" BY <2>1, <3>1 DEF PdfInv, FreesDue
    <3> QED BY <3>2 DEF PdfInv, PdfsOwn, Gone
  <2>4. PdfsOwn' /\ OneFree(queue') /\ FreesDue' /\ Owned' = Owned
    BY <1>1, <1>10 DEF PdfInv, PdfsOwn, FreesDue, Owned, Gone, Frees
  <2>5. handles' = Owned' \cup Freeing'
    BY <1>10, <2>2, <2>3, <2>4 DEF PdfInv
  <2>6. ~ GoodRun(i)' BY <1>1, <1>10 DEF GoodRun
  <2>7. ASSUME NEW d \in Docs, Needed(d)' PROVE doc'[d].pdf # NoPdf
    <3>1. Needed(d)
      BY <1>1, <1>7, <1>10, <2>6, <2>7 DEF Needed, ReadyPdf, Rendering, Arriving, Good
    <3> QED BY <1>10, <3>1 DEF PdfInv
  <2> QED BY <2>4, <2>5, <2>7 DEF PdfInv, OneFree, Frees
<1>11. CASE Opened(i) /\ job[i].type = "load"
  <2>1. PICK pdf \in PdfFile : /\ pdf # NoPdf /\ pdf.doc = job[i].doc /\ job[i].doc \in Docs
                               /\ doc' = [doc EXCEPT ![job[i].doc].pdf = pdf]
                               /\ handles' = (handles \ {doc[job[i].doc].pdf}) \cup {pdf}
    BY <1>11 DEF Opened
  <2>2. PICK d \in Docs : d = job[i].doc BY <2>1
  <2>3. \A c \in Docs : c # d => doc'[c] = doc[c]
    BY <1>2, <2>1, <2>2
  <2>4. doc'[d].pdf = pdf /\ doc'[d].life = doc[d].life /\ doc'[d].state = doc[d].state
    <3>1. PICK r \in Document : r = doc[d] BY <1>2
    <3>2. doc'[d] = [r EXCEPT !.pdf = pdf] BY <1>2, <2>1, <2>2, <3>1
    <3> QED BY <3>1, <3>2 DEF Document
  <2>5. ~ Gone(d)
    <3>1. queue[k] \in JobsOf(d) BY <1>2, <1>3, <2>2 DEF JobsOf, InHand
    <3>2. HowMany(queue, JobsOf(d)) > 0 BY <1>2, <3>1, SomeSpot
    <3>3. Owed(d) \in Nat /\ Owed(d) > 0 BY <3>2, CountsAreNat DEF Owed
    <3> QED BY <3>3 DEF CountInv, Balanced, Gone
  <2>6. Freeing' = Freeing BY <1>5, <1>6, <1>8, <1>11
  <2>7. PdfsOwn'
    <3> SUFFICES ASSUME NEW c \in Docs
                 PROVE  /\ doc'[c].pdf # NoPdf => doc'[c].pdf.doc = c
                        /\ Gone(c)' => doc'[c].pdf = NoPdf /\ doc'[c].state = "loading"
      BY DEF PdfsOwn
    <3>1. CASE c = d BY <2>1, <2>2, <2>4, <2>5, <3>1 DEF Gone
    <3>2. CASE c # d BY <2>3, <3>2 DEF PdfInv, PdfsOwn, Gone
    <3> QED BY <3>1, <3>2
  <2>8. OneFree(queue') /\ FreesDue'
    <3>1. \A c \in Docs : doc'[c].life = doc[c].life BY <2>3, <2>4
    <3> QED BY <1>1, <3>1 DEF PdfInv, FreesDue, OneFree, Frees
  <2>9. doc[d].pdf \notin Freeing \/ doc[d].pdf = NoPdf
    <3> SUFFICES ASSUME NEW m \in DOMAIN queue, Due(queue[m], pc), queue[m].pdf = doc[d].pdf, doc[d].pdf # NoPdf
                 PROVE  FALSE
      BY <1>8
    <3>1. m \in Frees(queue) BY DEF Due, Frees
    <3>2. doc[d].pdf.doc = d BY DEF PdfInv, PdfsOwn
    <3>3. doc[d].life = "freed" BY <3>1, <3>2 DEF PdfInv, FreesDue
    <3> QED BY <2>5, <3>3 DEF Gone
  <2>10. NoPdf \notin Freeing
    <3> SUFFICES ASSUME NEW m \in DOMAIN queue, Due(queue[m], pc), queue[m].pdf = NoPdf PROVE FALSE
      BY <1>8
    <3>1. m \in Frees(queue) BY DEF Due, Frees
    <3> QED BY <3>1 DEF PdfInv, FreesDue
  <2>11. Owned' = (Owned \ {doc[d].pdf}) \cup {pdf}
    <3>1. \A c \in Docs : c # d /\ doc[c].pdf # NoPdf => doc[c].pdf # doc[d].pdf
      <4> SUFFICES ASSUME NEW c \in Docs, c # d, doc[c].pdf # NoPdf, doc[c].pdf = doc[d].pdf PROVE FALSE
        OBVIOUS
      <4>1. doc[c].pdf.doc = c /\ doc[d].pdf.doc = d BY DEF PdfInv, PdfsOwn
      <4> QED BY <4>1
    <3>2. \A c \in Docs : doc'[c].pdf = IF c = d THEN pdf ELSE doc[c].pdf BY <2>3, <2>4
    <3> QED BY <2>1, <3>1, <3>2 DEF Owned
  <2>12. handles' = Owned' \cup Freeing'
    BY <2>1, <2>2, <2>6, <2>9, <2>10, <2>11 DEF PdfInv
  <2>13. ASSUME NEW c \in Docs, Needed(c)' PROVE doc'[c].pdf # NoPdf
    <3>1. CASE c = d BY <2>1, <2>4, <3>1
    <3>2. CASE c # d
      <4>1. Needed(c)
        BY <1>1, <1>7, <2>2, <2>3, <2>13, <3>2 DEF Needed, ReadyPdf, Rendering, Arriving, Good
      <4> QED BY <2>3, <3>2, <4>1 DEF PdfInv
    <3> QED BY <3>1, <3>2
  <2> QED BY <2>7, <2>8, <2>12, <2>13 DEF PdfInv, OneFree, Frees
<1> QED BY <1>9, <1>10, <1>11, RunOpens

-----------------------------------------------------------------------------
(* A document is freed that has a PDF: f, a job to close it, is submitted, *)
(* and the jobs that close others, in q, are as they were.                 *)
LEMMA PdfMoved ==
    ASSUME TypeInv, TypeInv', WorkHeld', CountInv', PdfInv, NEW d \in Docs,
           NEW q \in Seq(Queued), SameFrees(queue, q), NEW f \in Queued,
           f.type = "free_pdf", f.by = NoWorker, f.pdf = doc[d].pdf, doc[d].pdf # NoPdf,
           queue' = Append(q, f),
           doc'[d].life = "freed" /\ doc'[d].pdf = NoPdf /\ doc'[d].state = "loading",
           \A c \in Docs : c # d => /\ doc'[c].life = doc[c].life /\ doc'[c].pdf = doc[c].pdf
                                    /\ doc'[c].state = doc[c].state,
           StillBusy, handles' = handles,
           \A c \in Docs : c # d /\ Needed(c)' => Needed(c)
    PROVE  PdfInv'
<1>1. doc'[d].life = "freed" /\ doc'[d].pdf = NoPdf /\ doc'[d].state = "loading"
  OBVIOUS
<1>2. queue \in Seq(Queued) /\ doc[d].pdf.doc = d /\ ~ Gone(d)
  BY DEF TypeInv, ListsTyped, PdfInv, PdfsOwn
<1>3. /\ Len(q) \in Nat /\ DOMAIN q = 1 .. Len(q) /\ DOMAIN queue' = 1 .. Len(q) + 1
      /\ queue'[Len(q) + 1] = f /\ \A k \in 1 .. Len(q) : queue'[k] = q[k]
  <2>1. PICK a \in Seq(Queued) : a = Append(q, f)
    <3>1. Append(q, f) \in Seq(Queued) OBVIOUS
    <3> QED BY <3>1
  <2>2. /\ Len(q) \in Nat /\ Len(a) = Len(q) + 1 /\ DOMAIN q = 1 .. Len(q) /\ DOMAIN a = 1 .. Len(q) + 1
        /\ a[Len(q) + 1] = f /\ \A k \in 1 .. Len(q) : a[k] = q[k]
    BY <2>1
  <2> QED BY <2>1, <2>2
<1>4. PICK last : last = Len(q) + 1
  OBVIOUS
<1>5. /\ last \notin DOMAIN q /\ DOMAIN queue' = DOMAIN q \cup {last} /\ queue'[last] = f
      /\ \A k \in DOMAIN q : queue'[k] = q[k]
  BY <1>3, <1>4
<1>6. Frees(queue') = Frees(q) \cup {last}
  BY <1>5 DEF Frees
<1>7. \A k \in Frees(q) : /\ q[k].pdf # NoPdf /\ q[k].pdf.doc \in Docs
                          /\ doc[q[k].pdf.doc].life = "freed" /\ q[k].pdf.doc # d
  <2> SUFFICES ASSUME NEW k \in Frees(q)
               PROVE  /\ q[k].pdf # NoPdf /\ q[k].pdf.doc \in Docs
                      /\ doc[q[k].pdf.doc].life = "freed" /\ q[k].pdf.doc # d
    OBVIOUS
  <2>1. PICK m \in Frees(queue) : Alike(queue[m], q[k]) BY DEF SameFrees
  <2>2. q[k].pdf = queue[m].pdf BY <2>1 DEF Alike
  <2> QED BY <1>2, <2>2 DEF PdfInv, FreesDue, Gone
<1>8. OneFree(q)
  BY DEF PdfInv, SameFrees
<1>9. OneFree(queue')
  <2> SUFFICES ASSUME NEW k \in Frees(q) \cup {last}, NEW m \in Frees(q) \cup {last},
                      queue'[k].pdf.doc = queue'[m].pdf.doc
               PROVE  k = m
    BY <1>6 DEF OneFree
  <2>1. \A n \in Frees(q) : queue'[n] = q[n] BY <1>5 DEF Frees
  <2>2. CASE k \in Frees(q) /\ m \in Frees(q) BY <1>8, <2>1, <2>2 DEF OneFree
  <2>3. queue'[last].pdf.doc = d BY <1>2, <1>5
  <2>4. \A l \in Frees(q) : queue'[l].pdf.doc # d BY <1>7, <2>1
  <2> QED BY <2>2, <2>3, <2>4
<1>10. FreesDue'
  <2> SUFFICES ASSUME NEW k \in Frees(q) \cup {last}
               PROVE  /\ queue'[k].pdf # NoPdf /\ queue'[k].pdf.doc \in Docs
                      /\ doc'[queue'[k].pdf.doc].life = "freed"
    BY <1>6 DEF FreesDue, Frees
  <2>1. CASE k = last BY <1>1, <1>2, <1>5, <2>1
  <2>2. CASE k \in Frees(q)
    <3>1. queue'[k] = q[k] BY <1>5, <2>2 DEF Frees
    <3> QED BY <1>7, <2>2, <3>1
  <2> QED BY <2>1, <2>2
<1>11. PdfsOwn'
  <2> SUFFICES ASSUME NEW c \in Docs
               PROVE  /\ doc'[c].pdf # NoPdf => doc'[c].pdf.doc = c
                      /\ Gone(c)' => doc'[c].pdf = NoPdf /\ doc'[c].state = "loading"
    BY DEF PdfsOwn
  <2>1. CASE c = d BY <1>1, <2>1
  <2>2. CASE c # d BY <2>2 DEF PdfInv, PdfsOwn, Gone
  <2> QED BY <2>1, <2>2
<1>12. Freeing' = Freeing \cup {doc[d].pdf}
  <2>1. FreeingOf(q, pc') = Freeing BY <1>2, SameFreeing DEF Freeing
  <2>2. Due(f, pc') BY DEF Due
  <2>3. {m \in DOMAIN queue' : Due(queue'[m], pc')} = {m \in DOMAIN q : Due(q[m], pc')} \cup {last}
    BY <1>5, <2>2
  <2>4. Freeing' = {queue'[m].pdf : m \in {n \in DOMAIN queue' : Due(queue'[n], pc')}}
    BY DEF Freeing, FreeingOf, Due
  <2>5. FreeingOf(q, pc') = {q[m].pdf : m \in {n \in DOMAIN q : Due(q[n], pc')}}
    BY DEF FreeingOf
  <2> QED BY <1>5, <2>1, <2>3, <2>4, <2>5
<1>13. Owned' = Owned \ {doc[d].pdf}
  <2>1. \A c \in Docs : c # d /\ doc[c].pdf # NoPdf => doc[c].pdf # doc[d].pdf
    <3> SUFFICES ASSUME NEW c \in Docs, c # d, doc[c].pdf # NoPdf, doc[c].pdf = doc[d].pdf PROVE FALSE
      OBVIOUS
    <3>1. doc[c].pdf.doc = c BY DEF PdfInv, PdfsOwn
    <3> QED BY <1>2, <3>1
  <2>2. \A c \in Docs : doc'[c].pdf = IF c = d THEN NoPdf ELSE doc[c].pdf BY <1>1
  <2> QED BY <2>1, <2>2 DEF Owned
<1>14. doc[d].pdf \in Owned
  BY DEF Owned
<1>15. handles' = Owned' \cup Freeing'
  BY <1>12, <1>13, <1>14 DEF PdfInv
<1>16. ASSUME NEW c \in Docs, Needed(c)' PROVE doc'[c].pdf # NoPdf
  <2>1. CASE c = d
    <3>1. Gone(d)' BY <1>1 DEF Gone
    <3> QED BY <1>1, <1>16, <2>1, <3>1, GoneUnneeded
  <2>2. CASE c # d BY <1>16, <2>2 DEF PdfInv
  <2> QED BY <2>1, <2>2
<1> QED BY <1>9, <1>10, <1>11, <1>15, <1>16 DEF PdfInv, OneFree, Frees

LEMMA FreesAppended ==
    ASSUME NEW q \in Seq(Queued), NEW r \in Document, NEW n, NEW c, Rendering(q \o PdfToFree(r, n), c)
    PROVE  Rendering(q, c)
<1>1. CASE q \o PdfToFree(r, n) = q
  BY <1>1
<1>2. CASE q \o PdfToFree(r, n) = Append(q, FreeJob(r.pdf)) /\ FreeJob(r.pdf) \in Queued /\ FreeJob(r.pdf).type = "free_pdf"
  <2>1. PICK f \in Queued : f = FreeJob(r.pdf) /\ f.type = "free_pdf" BY <1>2
  <2>2. PICK k \in DOMAIN Append(q, f) : Append(q, f)[k].type = "render" /\ Append(q, f)[k].doc = c
    BY <1>2, <2>1 DEF Rendering
  <2>3. k \in DOMAIN q /\ q[k] = Append(q, f)[k] BY <2>1, <2>2
  <2> QED BY <2>2, <2>3 DEF Rendering
<1> QED BY <1>1, <1>2, FreeingTyped

(* n references of a document go, which is r but for those.                *)
LEMMA PdfUnreferenced ==
    ASSUME TypeInv, TypeInv', WorkHeld', CountInv', PdfInv, NEW d \in Docs,
           NEW r \in Document, NEW n \in Nat, r.pdf = doc[d].pdf, r.life \notin {"new", "freed"}, ~ Gone(d),
           NEW q \in Seq(Queued), SameFrees(queue, q), queue' = q \o PdfToFree(r, n),
           LET u == Unreferenced(r, n)
           IN  doc'[d].life = u.life /\ doc'[d].pdf = u.pdf /\ doc'[d].state = u.state,
           \A c \in Docs : c # d => /\ doc'[c].life = doc[c].life /\ doc'[c].pdf = doc[c].pdf
                                    /\ doc'[c].state = doc[c].state,
           StillBusy, handles' = handles,
           \A c \in Docs : Needed(c)' => Needed(c) \/ (c = d /\ r.refs <= n)
    PROVE  PdfInv'
<1>1. r.refs \in Int BY DEF Document
<1>2. CASE r.refs > n
  <2>1. doc'[d].life = r.life /\ doc'[d].pdf = r.pdf BY <1>2, Unreference
  <2>2. ~ (r.refs <= n) BY <1>1, <1>2
  <2>3. PdfToFree(r, n) = <<>> BY <2>2 DEF PdfToFree
  <2>4. queue' = q BY <2>3
  <2>5. SameHolders
    <3> SUFFICES ASSUME NEW c \in Docs
                 PROVE  /\ doc'[c].pdf = doc[c].pdf
                        /\ doc[c].life = "freed" => doc'[c].life = "freed"
                        /\ Gone(c)' => doc'[c].state = "loading" /\ (Gone(c) \/ doc[c].pdf = NoPdf)
      BY DEF SameHolders
    <3>1. CASE c = d BY <2>1, <3>1 DEF Gone
    <3>2. CASE c # d BY <3>2 DEF PdfInv, PdfsOwn, Gone
    <3> QED BY <3>1, <3>2
  <2> QED BY <2>2, <2>4, <2>5, PdfKeep
<1>3. CASE r.refs <= n
  <2>1. doc'[d].life = "freed" /\ doc'[d].pdf = NoPdf /\ doc'[d].state = "loading"
    <3>1. Unreferenced(r, n) = NoRecord("freed") BY <1>3, Unreference
    <3> QED BY <3>1 DEF NoRecord
  <2>2. ~ Needed(d)' BY <2>1, GoneUnneeded DEF Gone
  <2>3. CASE r.pdf = NoPdf
    <3>1. PdfToFree(r, n) = <<>> BY <2>3 DEF PdfToFree
    <3>2. queue' = q BY <3>1
    <3>3. SameHolders
      <4> SUFFICES ASSUME NEW c \in Docs
                   PROVE  /\ doc'[c].pdf = doc[c].pdf
                          /\ doc[c].life = "freed" => doc'[c].life = "freed"
                          /\ Gone(c)' => doc'[c].state = "loading" /\ (Gone(c) \/ doc[c].pdf = NoPdf)
        BY DEF SameHolders
      <4>1. CASE c = d BY <2>1, <2>3, <4>1
      <4>2. CASE c # d BY <4>2 DEF PdfInv, PdfsOwn, Gone
      <4> QED BY <4>1, <4>2
    <3> QED BY <2>2, <3>2, <3>3, PdfKeep
  <2>4. CASE r.pdf # NoPdf
    <3>1. /\ FreeJob(r.pdf) \in Queued /\ FreeJob(r.pdf).by = NoWorker
          /\ FreeJob(r.pdf).type = "free_pdf" /\ FreeJob(r.pdf).pdf = r.pdf
          /\ q \o PdfToFree(r, n) = Append(q, FreeJob(r.pdf))
      <4>1. PdfToFree(r, n) # <<>> BY <1>3, <2>4 DEF PdfToFree
      <4> QED BY <4>1, FreeingTyped
    <3>2. PICK f \in Queued : f = FreeJob(r.pdf) /\ f.by = NoWorker /\ f.type = "free_pdf" /\ f.pdf = r.pdf
      BY <3>1
    <3>3. queue' = Append(q, f) BY <3>1, <3>2
    <3>4. f.pdf = doc[d].pdf /\ doc[d].pdf # NoPdf BY <2>4, <3>2
    <3>5. \A c \in Docs : c # d /\ Needed(c)' => Needed(c) OBVIOUS
    <3> QED BY <2>1, <3>2, <3>3, <3>4, <3>5, PdfMoved
  <2> QED BY <2>3, <2>4
<1> QED BY <1>1, <1>2, <1>3

-----------------------------------------------------------------------------
LEMMA PdfPoll ==
    ASSUME TypeInv, TypeInv', PdfInv, Poll
    PROVE  PdfInv'
<1>1. /\ inbox' = Reverse(done) /\ done' = <<>> /\ UNCHANGED <<docVars, queue, workerVars>>
  BY DEF Poll
<1>2. done \in Seq(Outcomes) /\ Len(done) \in Nat /\ DOMAIN done = 1 .. Len(done)
  BY DEF TypeInv, ListsTyped
<1>3. inbox' = [i \in 1 .. Len(done) |-> done[(Len(done) - i) + 1]]
  BY <1>1 DEF Reverse
<1>4. StillBusy /\ UNCHANGED <<job, result, doc, handles>>
  BY <1>1 DEF StillBusy, AtWork, workerVars, docVars
<1>5. SameHolders
  BY <1>4 DEF SameHolders, PdfInv, PdfsOwn, Gone
<1>6. SameFrees(queue, queue')
  BY <1>1, FreesSelf
<1>7. ASSUME NEW d \in Docs PROVE Needed(d)' => Needed(d)
  <2>1. ReadyPdf(d)' => Needed(d) BY <1>4 DEF ReadyPdf, Needed
  <2>2. Rendering(queue', d) => Needed(d) BY <1>1 DEF Needed
  <2>3. Arriving(done', d) => Needed(d) BY <1>1 DEF Arriving
  <2>4. Arriving(inbox', d) => Needed(d)
    <3> SUFFICES ASSUME Arriving(inbox', d) PROVE Arriving(done, d)
      BY DEF Needed
    <3>1. PICK k \in 1 .. Len(done) : Good(inbox'[k]) /\ inbox'[k].doc = d
      BY <1>3 DEF Arriving
    <3>2. inbox'[k] = done[(Len(done) - k) + 1] /\ (Len(done) - k) + 1 \in DOMAIN done
      BY <1>2, <1>3
    <3> QED BY <3>1, <3>2 DEF Arriving
  <2> QED BY <1>4, <2>1, <2>2, <2>3, <2>4, NeedSame
<1> QED BY <1>4, <1>5, <1>6, <1>7, PdfKeep

LEMMA FreesOnly == ASSUME NEW q \in Seq(Queued), NEW r \in Document, NEW n
                   PROVE  SameFrees(q, q) /\ q \o PdfToFree(r, n) \in Seq(Queued)
  BY FreesSelf, FreeingTyped

LEMMA PdfApply ==
    ASSUME TypeInv, TypeInv', WorkHeld', CountInv, CountInv', PdfInv, ApplyResult
    PROVE  PdfInv'
<1>1. PICK j, r, D : Applied(j, r, D)
  BY ApplyDoes
<1>2. PICK d \in Docs : d = j.doc
  BY <1>1 DEF Applied
<1>3. /\ r \in Document /\ r.life = doc[d].life /\ r.pdf = doc[d].pdf
      /\ D = [doc EXCEPT ![d] = Unreferenced(r, 1)] /\ OnlyTextures(D, doc')
      /\ queue' = queue \o PdfToFree(r, 1) /\ j = Head(inbox) /\ inbox' = Tail(inbox) /\ j \in Outcomes
      /\ d \in Pdfs /\ r.state = "ready" => doc[d].state = "ready" \/ (j.type = "load" /\ ~ j.error)
  BY <1>1, <1>2 DEF Applied, Slimmed
<1>4. /\ queue \in Seq(Queued) /\ inbox \in Seq(Outcomes) /\ inbox # <<>> /\ doc \in [Docs -> Document]
      /\ DOMAIN pc = Workers
  BY DEF TypeInv, ListsTyped, MainTyped, DocsTyped, WorkTyped, ApplyResult
<1>5. /\ Len(inbox) \in Nat /\ DOMAIN inbox = 1 .. Len(inbox) /\ 1 \in DOMAIN inbox /\ j = inbox[1]
      /\ Len(Tail(inbox)) = Len(inbox) - 1 /\ DOMAIN Tail(inbox) = 1 .. Len(inbox) - 1
      /\ \A k \in 1 .. Len(inbox) - 1 : Tail(inbox)[k] = inbox[k + 1]
  BY <1>3, <1>4
<1>6. UNCHANGED <<done, job, result, handles>> /\ \E s : Signal(s)
  BY DEF ApplyResult, Submit, Signal
<1>7. StillBusy
  <2>1. PICK s : Signal(s) BY <1>6
  <2> QED BY <1>4, <2>1, SignalStillBusy
<1>8. ~ Gone(d)
  <2>1. inbox[1] \in JobsOf(d) BY <1>2, <1>3, <1>5 DEF JobsOf
  <2>2. HowMany(inbox, JobsOf(d)) > 0 BY <1>4, <1>5, <2>1, SomeSpot
  <2>3. Owed(d) \in Nat /\ Owed(d) > 0 BY <2>2, CountsAreNat DEF Owed
  <2> QED BY <2>3 DEF CountInv, Balanced, Gone
<1>9. \A c \in Docs : c # d => /\ doc'[c].life = doc[c].life /\ doc'[c].pdf = doc[c].pdf
                               /\ doc'[c].state = doc[c].state
  BY <1>3, <1>4 DEF OnlyTextures
<1>10. LET u == Unreferenced(r, 1)
       IN  doc'[d].life = u.life /\ doc'[d].pdf = u.pdf /\ doc'[d].state = u.state
  BY <1>3, <1>4 DEF OnlyTextures
<1>11. ASSUME NEW c \in Docs PROVE Needed(c)' => Needed(c)
  <2>1. ReadyPdf(c)' => Needed(c)
    <3>1. CASE c # d BY <1>9, <3>1 DEF ReadyPdf, Needed
    <3>2. CASE c = d /\ ReadyPdf(c)'
      <4>1. r.state = "ready" BY <1>3, <1>10, <3>2, Unreference DEF ReadyPdf
      <4>2. CASE doc[d].state = "ready" BY <3>2, <4>2 DEF ReadyPdf, Needed
      <4>3. CASE j.type = "load" /\ ~ j.error
        <5>1. Good(j) /\ j.doc = d BY <1>2, <3>2, <4>3 DEF Good, ReadyPdf
        <5>2. Arriving(inbox, d) BY <1>5, <5>1 DEF Arriving
        <5> QED BY <3>2, <5>2 DEF Needed
      <4> QED BY <1>3, <3>2, <4>1, <4>2, <4>3 DEF ReadyPdf
    <3> QED BY <3>1, <3>2
  <2>2. Rendering(queue', c) => Needed(c) BY <1>3, <1>4, FreesAppended DEF Needed
  <2>3. Arriving(done', c) => Needed(c) BY <1>6 DEF Needed
  <2>4. Arriving(inbox', c) => Needed(c)
    <3> SUFFICES ASSUME Arriving(inbox', c) PROVE Arriving(inbox, c)
      BY DEF Needed
    <3>1. PICK k \in 1 .. Len(inbox) - 1 : Good(inbox[k + 1]) /\ inbox[k + 1].doc = c
      BY <1>3, <1>5 DEF Arriving
    <3>2. k + 1 \in DOMAIN inbox BY <1>5
    <3> QED BY <3>1, <3>2 DEF Arriving
  <2> QED BY <1>6, <1>7, <2>1, <2>2, <2>3, <2>4, NeedSame
<1>12. SameFrees(queue, queue) BY FreesSelf
<1>13. handles' = handles /\ 1 \in Nat /\ r.life \notin {"new", "freed"}
  BY <1>3, <1>6, <1>8 DEF Gone
<1> QED BY <1>3, <1>4, <1>7, <1>8, <1>9, <1>10, <1>11, <1>12, <1>13, PdfUnreferenced

LEMMA PdfClose ==
    ASSUME TypeInv, TypeInv', WorkHeld', CountInv', PdfInv, NEW d \in Docs, Close(d)
    PROVE  PdfInv'
<1>1. PICK r, n : Closing(d, r, n)
  BY CloseDoes
<1>2. PICK q : q = Cancelled(queue, d)
  OBVIOUS
<1>3. /\ r \in Document /\ r.life = "closed" /\ r.pdf = doc[d].pdf /\ r.state = doc[d].state /\ n \in Nat
      /\ doc' = [doc EXCEPT ![d] = Unreferenced(r, n)] /\ queue' = q \o PdfToFree(r, n)
  BY <1>1, <1>2 DEF Closing
<1>4. /\ queue \in Seq(Queued) /\ q \in Seq(Queued) /\ doc \in [Docs -> Document] /\ DOMAIN pc = Workers
  BY <1>2, CancelledFewer DEF TypeInv, ListsTyped, DocsTyped, WorkTyped
<1>5. UNCHANGED <<done, inbox, job, result, handles>> /\ (\E s : Signal(s)) /\ Live(d)
  BY DEF Close, Command, Signal
<1>6. StillBusy
  <2>1. PICK s : Signal(s) BY <1>5
  <2> QED BY <1>4, <2>1, SignalStillBusy
<1> DEFINE S == {k \in DOMAIN queue : ~ (queue[k].doc = d /\ queue[k].by = NoWorker)}
<1>7. q = Selected(queue, S) /\ Frees(queue) \subseteq S
  <2>1. \A k \in DOMAIN queue : queue[k] \in Queued BY <1>4
  <2> QED BY <1>2, <2>1, DocsAssumption DEF Cancelled, Frees, Queued
<1> HIDE DEF S
<1>8. SameFrees(queue, q) BY <1>4, <1>7, SelectedFrees
<1>9. \A c \in Docs : c # d => /\ doc'[c].life = doc[c].life /\ doc'[c].pdf = doc[c].pdf
                               /\ doc'[c].state = doc[c].state
  BY <1>3, <1>4
<1>10. LET u == Unreferenced(r, n)
       IN  doc'[d].life = u.life /\ doc'[d].pdf = u.pdf /\ doc'[d].state = u.state
  BY <1>3, <1>4
<1>11. ASSUME NEW c \in Docs PROVE Needed(c)' => Needed(c)
  <2>1. ReadyPdf(c)' => Needed(c)
    <3>1. CASE c # d BY <1>9, <3>1 DEF ReadyPdf, Needed
    <3>2. CASE c = d /\ ReadyPdf(c)'
      <4>1. r.state = "ready" BY <1>3, <1>10, <3>2, Unreference DEF ReadyPdf
      <4> QED BY <1>3, <3>2, <4>1 DEF ReadyPdf, Needed
    <3> QED BY <3>1, <3>2
  <2>2. Rendering(queue', c) => Needed(c)
    BY <1>3, <1>4, <1>7, FreesAppended, SelectedRenders DEF Needed
  <2>3. Arriving(done', c) => Needed(c) BY <1>5 DEF Needed
  <2>4. Arriving(inbox', c) => Needed(c) BY <1>5 DEF Needed
  <2> QED BY <1>5, <1>6, <2>1, <2>2, <2>3, <2>4, NeedSame
<1>12. handles' = handles /\ r.life \notin {"new", "freed"} /\ ~ Gone(d)
  BY <1>3, <1>5 DEF Gone, Live
<1> QED BY <1>3, <1>4, <1>6, <1>8, <1>9, <1>10, <1>11, <1>12, PdfUnreferenced

(* A step that adds jobs of d to q, the queue without some of its jobs.    *)
LEMMA PdfMore ==
    ASSUME TypeInv, TypeInv', PdfInv, NEW d \in Docs, NEW e,
           doc' = [doc EXCEPT ![d] = e], e.life \in {"open", doc[d].life}, e.pdf = doc[d].pdf,
           e.state = "ready" => doc[d].state = "ready", e.state = doc[d].state \/ e.life = "open",
           doc[d].life # "freed",
           NEW q \in Seq(Queued), SameFrees(queue, q), \A c \in Docs : Rendering(q, c) => Rendering(queue, c),
           NEW ts, MoreOf(queue', q, d, ts), "free_pdf" \notin ts, "render" \in ts => ReadyPdf(d),
           UNCHANGED <<done, inbox, handles>>, NEW s, Signal(s)
    PROVE  PdfInv'
<1>1. queue \in Seq(Queued) /\ queue' \in Seq(Queued) /\ doc \in [Docs -> Document] /\ DOMAIN pc = Workers
  BY DEF TypeInv, ListsTyped, DocsTyped, WorkTyped
<1>2. SameFrees(queue, queue')
  <2>1. SameFrees(q, queue') BY <1>1, MoreFrees
  <2> QED BY <2>1, FreesAgain
<1>3. StillBusy /\ UNCHANGED <<job, result>>
  BY <1>1, SignalStillBusy DEF Signal
<1>4. doc'[d] = e /\ \A c \in Docs : c # d => doc'[c] = doc[c]
  BY <1>1
<1>5. SameHolders
  <2> SUFFICES ASSUME NEW c \in Docs
               PROVE  /\ doc'[c].pdf = doc[c].pdf
                      /\ doc[c].life = "freed" => doc'[c].life = "freed"
                      /\ Gone(c)' => doc'[c].state = "loading" /\ (Gone(c) \/ doc[c].pdf = NoPdf)
    BY DEF SameHolders
  <2>1. CASE c = d BY <1>4, <2>1 DEF Gone, PdfInv, PdfsOwn
  <2>2. CASE c # d BY <1>4, <2>2 DEF PdfInv, PdfsOwn, Gone
  <2> QED BY <2>1, <2>2
<1>6. ASSUME NEW c \in Docs PROVE Needed(c)' => Needed(c)
  <2>1. ReadyPdf(c)' => Needed(c)
    <3>1. CASE c # d BY <1>4, <3>1 DEF ReadyPdf, Needed
    <3>2. CASE c = d BY <1>4, <3>2 DEF ReadyPdf, Needed
    <3> QED BY <3>1, <3>2
  <2>2. Rendering(queue', c) => Needed(c)
    <3> SUFFICES ASSUME Rendering(queue', c) PROVE Needed(c)
      OBVIOUS
    <3>1. Rendering(q, c) \/ (c = d /\ "render" \in ts) BY <1>1, MoreRenders
    <3> QED BY <3>1 DEF Needed
  <2>3. Arriving(done', c) => Needed(c) BY DEF Needed
  <2>4. Arriving(inbox', c) => Needed(c) BY DEF Needed
  <2> QED BY <1>3, <2>1, <2>2, <2>3, <2>4, NeedSame
<1> QED BY <1>2, <1>3, <1>5, <1>6, PdfKeep

LEMMA PdfOpen ==
    ASSUME TypeInv, TypeInv', PdfInv, NEW d \in Docs, NEW w \in Windows, Open(d, w)
    PROVE  PdfInv'
<1>1. PICK e \in Document :
             /\ e.life = "open" /\ e.state = "loading" /\ e.pdf = NoPdf
             /\ doc' = [doc EXCEPT ![d] = e]
             /\ MoreOf(queue', queue, d, {"load"})
  BY OpenDoes
<1>2. UNCHANGED <<done, inbox, handles>> /\ (\E s : Signal(s)) /\ doc[d].life = "new"
  BY DEF Open, Command, Submit
<1>3. doc[d].pdf = NoPdf /\ queue \in Seq(Queued)
  BY <1>2 DEF PdfInv, PdfsOwn, Gone, TypeInv, ListsTyped
<1>4. PICK s : Signal(s) BY <1>2
<1>5. SameFrees(queue, queue) BY FreesSelf
<1>6. "free_pdf" \notin {"load"} /\ "render" \notin {"load"} OBVIOUS
<1>7. /\ e.life \in {"open", doc[d].life} /\ e.pdf = doc[d].pdf
      /\ (e.state = "ready" => doc[d].state = "ready") /\ (e.state = doc[d].state \/ e.life = "open")
      /\ doc[d].life # "freed"
  BY <1>1, <1>2, <1>3
<1>8. PICK ts : ts = {"load"} OBVIOUS
<1>9. MoreOf(queue', queue, d, ts) /\ "free_pdf" \notin ts /\ "render" \notin ts BY <1>1, <1>6, <1>8
<1> QED BY <1>1, <1>2, <1>3, <1>4, <1>5, <1>7, <1>9, PdfMore

LEMMA PdfReload ==
    ASSUME TypeInv, TypeInv', PdfInv, NEW d \in Docs, Reload(d)
    PROVE  PdfInv'
<1>1. PICK q : q = Cancelled(queue, d)
  OBVIOUS
<1>2. PICK e \in Document :
             /\ e.life = doc[d].life /\ e.pdf = doc[d].pdf
             /\ e.state = "ready" => doc[d].state = "ready"
             /\ doc' = [doc EXCEPT ![d] = e]
             /\ MoreOf(queue', q, d, {"load"})
  BY <1>1, ReloadDoes
<1>3. UNCHANGED <<done, inbox, handles>> /\ (\E s : Signal(s)) /\ Live(d)
  BY DEF Reload, Command
<1>4. queue \in Seq(Queued) /\ q \in Seq(Queued)
  BY <1>1, CancelledFewer DEF TypeInv, ListsTyped
<1> DEFINE S == {k \in DOMAIN queue : ~ (queue[k].doc = d /\ queue[k].by = NoWorker)}
<1>5. q = Selected(queue, S) /\ Frees(queue) \subseteq S
  <2>1. \A k \in DOMAIN queue : queue[k] \in Queued BY <1>4
  <2> QED BY <1>1, <2>1, DocsAssumption DEF Cancelled, Frees, Queued
<1> HIDE DEF S
<1>6. SameFrees(queue, q) BY <1>4, <1>5, SelectedFrees
<1>7. \A c \in Docs : Rendering(q, c) => Rendering(queue, c) BY <1>4, <1>5, SelectedRenders
<1>8. PICK ts : ts = {"load"} OBVIOUS
<1>9. MoreOf(queue', q, d, ts) /\ "free_pdf" \notin ts /\ "render" \notin ts BY <1>2, <1>8
<1>10. PICK s : Signal(s) BY <1>3
<1>11. /\ e.life \in {"open", doc[d].life} /\ e.pdf = doc[d].pdf
       /\ (e.state = "ready" => doc[d].state = "ready") /\ (e.state = doc[d].state \/ e.life = "open")
       /\ doc[d].life # "freed"
  BY <1>2, <1>3 DEF Live
<1> QED BY <1>2, <1>3, <1>4, <1>6, <1>7, <1>9, <1>10, <1>11, PdfMore

LEMMA PdfDraw ==
    ASSUME TypeInv, TypeInv', CountInv, PdfInv, NEW w \in Windows, DrawPlace(w)
    PROVE  PdfInv'
<1>0. PICK d \in Docs : d = view[w]
  BY DrawDoes
<1>1. PICK e : d = view[w] /\ Drawn(d, e)
  BY <1>0, DrawDoes
<1>2. UNCHANGED <<done, inbox, handles>> /\ \E s : Signal(s)
  BY DEF DrawPlace, Submit
<1>3. queue \in Seq(Queued) /\ SameFrees(queue, queue)
  BY FreesSelf DEF TypeInv, ListsTyped
<1>4. /\ e.life = doc[d].life /\ e.pdf = doc[d].pdf /\ e.state = doc[d].state
      /\ doc' = [doc EXCEPT ![d] = e]
      /\ \/ MoreOf(queue', queue, d, {"load"})
         \/ ReadyPdf(d) /\ MoreOf(queue', queue, d, {"render"})
  BY <1>1 DEF Drawn, ReadyPdf
<1>5. PICK ts : MoreOf(queue', queue, d, ts) /\ "free_pdf" \notin ts /\ ("render" \in ts => ReadyPdf(d))
  BY <1>4
<1>6. PICK s : Signal(s) BY <1>2
<1>7. doc[d].life # "freed"
  BY <1>1, DocsAssumption DEF CountInv, ShownAreLive, Live
<1>8. e.life \in {"open", doc[d].life} /\ (e.state = "ready" => doc[d].state = "ready")
      /\ (e.state = doc[d].state \/ e.life = "open")
  BY <1>4
<1> QED BY <1>2, <1>3, <1>4, <1>5, <1>6, <1>7, <1>8, PdfMore

LEMMA PdfEndFrame ==
    ASSUME TypeInv, TypeInv', PdfInv, EndFrame
    PROVE  PdfInv'
<1> DEFINE S == {k \in DOMAIN queue : ~ (queue[k].doc \in ShownPdfs /\ FlickedPast(queue[k]))}
<1>1. queue' = Selected(queue, S) BY EndDoes
<1>2. PICK D : Pruned(D) /\ Slimmed(D, doc') BY EndDoes
<1>3. \A d \in Docs : /\ doc'[d].pdf = doc[d].pdf /\ doc'[d].life = doc[d].life
                      /\ doc'[d].state = doc[d].state
  BY <1>2 DEF Pruned, Slimmed, OnlyTextures
<1>4. queue \in Seq(Queued) /\ Frees(queue) \subseteq S
  BY DEF TypeInv, ListsTyped, Frees, FlickedPast
<1> HIDE DEF S
<1>5. SameFrees(queue, queue') BY <1>1, <1>4, SelectedFrees
<1>6. UNCHANGED <<done, inbox, handles, job, result, pc>>
  BY DEF EndFrame, workerVars
<1>7. StillBusy BY <1>6 DEF StillBusy, AtWork
<1>8. SameHolders BY <1>3 DEF SameHolders, PdfInv, PdfsOwn, Gone
<1>9. ASSUME NEW c \in Docs PROVE Needed(c)' => Needed(c)
  <2>1. ReadyPdf(c)' => Needed(c) BY <1>3 DEF ReadyPdf, Needed
  <2>2. Rendering(queue', c) => Needed(c) BY <1>1, <1>4, SelectedRenders DEF Needed
  <2>3. Arriving(done', c) => Needed(c) BY <1>6 DEF Needed
  <2>4. Arriving(inbox', c) => Needed(c) BY <1>6 DEF Needed
  <2> QED BY <1>6, <1>7, <2>1, <2>2, <2>3, <2>4, NeedSame
<1> QED BY <1>5, <1>6, <1>7, <1>8, <1>9, PdfKeep

-----------------------------------------------------------------------------
LEMMA PdfInit == Init => PdfInv
<1> SUFFICES ASSUME Init PROVE PdfInv
  OBVIOUS
<1>1. \A d \in Docs : /\ doc[d].pdf = NoPdf /\ doc[d].state = "loading"
  <2> SUFFICES ASSUME NEW d \in Docs PROVE doc[d].pdf = NoPdf /\ doc[d].state = "loading"
    OBVIOUS
  <2>1. doc[d] = NoRecord("new") BY DEF Init
  <2> QED BY <2>1 DEF NoRecord
<1>2. queue = <<>> /\ done = <<>> /\ inbox = <<>> /\ handles = {} /\ \A i \in Workers : pc[i] = "unstarted"
  BY DEF Init
<1>3. DOMAIN queue = {} /\ DOMAIN done = {} /\ DOMAIN inbox = {} BY <1>2
<1>4. PdfsOwn /\ OneFree(queue) /\ FreesDue /\ Owned = {} /\ Freeing = {}
  BY <1>1, <1>3 DEF PdfsOwn, OneFree, FreesDue, Frees, Owned, Freeing, FreeingOf
<1>5. \A d \in Docs : ~ Needed(d)
  BY <1>1, <1>2, <1>3 DEF Needed, ReadyPdf, Rendering, Arriving, GoodRun
<1> QED BY <1>2, <1>4, <1>5 DEF PdfInv

LEMMA PdfStep ==
    TypeInv /\ TypeInv' /\ WorkHeld /\ WorkHeld' /\ CountInv /\ CountInv' /\ PdfInv /\ [Next]_vars => PdfInv'
<1> SUFFICES ASSUME TypeInv, TypeInv', WorkHeld, WorkHeld', CountInv, CountInv', PdfInv, [Next]_vars
             PROVE  PdfInv'
  OBVIOUS
<1>0. doc \in [Docs -> Document] /\ DOMAIN pc = Workers
  BY DEF TypeInv, DocsTyped, WorkTyped
<1>1. ASSUME NEW i \in Workers, Worker(i) PROVE PdfInv'
  <2>1. CASE Sleep(i) \/ Exit(i)
    <3>1. /\ UNCHANGED <<queue, done, inbox, job, result, handles, doc>> /\ pc[i] = "loop"
          /\ pc' = [pc EXCEPT ![i] = "wait"] \/ pc' = [pc EXCEPT ![i] = "exited"]
      BY <2>1 DEF Sleep, Exit, lockVars, mainVars, docVars
    <3>2. StillBusy BY <1>0, <3>1 DEF StillBusy, AtWork
    <3> QED BY <3>1, <3>2, PdfQuiet
  <2> QED BY <1>1, <2>1, PdfTake, PdfRun, PdfFinish DEF Worker
<1>2. CASE User
  <2>1. ASSUME Command PROVE UNCHANGED <<done, inbox, handles>>
    BY <2>1 DEF Command
  <2>2. ASSUME NEW d \in Docs, NEW p \in Pages, TurnPage(d, p) PROVE PdfInv'
    <3>1. doc' = [doc EXCEPT ![d].page = p] /\ UNCHANGED <<queue, pc, job, result>>
      BY <2>2 DEF TurnPage, workerVars
    <3>2. \A c \in Docs : /\ doc'[c].pdf = doc[c].pdf /\ doc'[c].life = doc[c].life
                          /\ doc'[c].state = doc[c].state
      <4> SUFFICES ASSUME NEW c \in Docs
                   PROVE  /\ doc'[c].pdf = doc[c].pdf /\ doc'[c].life = doc[c].life
                          /\ doc'[c].state = doc[c].state
        OBVIOUS
      <4>1. PICK r \in Document : r = doc[c] BY <1>0
      <4>2. doc'[c] = r \/ doc'[c] = [r EXCEPT !.page = p] BY <1>0, <3>1, <4>1
      <4> QED BY <4>1, <4>2 DEF Document
    <3>3. StillBusy BY <3>1 DEF StillBusy, AtWork
    <3> QED BY <2>1, <2>2, <3>1, <3>2, <3>3, PdfQuiet DEF TurnPage
  <2>3. ASSUME UNCHANGED <<doc, queue, workerVars>>, Command PROVE PdfInv'
    <3>1. UNCHANGED <<pc, job, result>> BY <2>3 DEF workerVars
    <3>2. StillBusy BY <3>1 DEF StillBusy, AtWork
    <3> QED BY <2>1, <2>3, <3>1, <3>2, PdfQuiet
  <2>4. CASE DeviceReset
    <3>1. doc' = Without(doc, Textures(doc)) /\ UNCHANGED <<queue, pc, job, result>>
      BY <2>4 DEF DeviceReset, workerVars
    <3>2. OnlyTextures(doc, doc') BY <1>0, <3>1, WithoutTyped
    <3>3. StillBusy BY <3>1 DEF StillBusy, AtWork
    <3> QED BY <2>1, <2>4, <3>1, <3>2, <3>3, PdfQuiet DEF DeviceReset, OnlyTextures
  <2>5. CASE Shutdown
    <3>1. UNCHANGED <<doc, handles, inbox, queue, done, job, result>> /\ pc' = Woken(pc)
      BY <2>5 DEF Shutdown, docVars
    <3>2. StillBusy BY <3>1 DEF StillBusy, AtWork, Woken
    <3> QED BY <3>1, <3>2, PdfQuiet
  <2> QED BY <1>2, <2>2, <2>3, <2>4, <2>5, PdfOpen, PdfClose, PdfReload DEF User, Show, Resize
<1>3. CASE Main
  <2>1. CASE StartFrame
    <3>1. OnlyTurned(doc, doc') /\ UNCHANGED <<handles, inbox, lockVars, workerVars>>
      BY <2>1, FrameStarts
    <3>2. StillBusy BY <3>1 DEF StillBusy, AtWork, workerVars
    <3> QED BY <3>1, <3>2, PdfQuiet DEF OnlyTurned, lockVars, workerVars
  <2>2. CASE Stop
    <3>1. doc' = Without(doc, Textures(doc)) /\ UNCHANGED <<handles, inbox, lockVars, workerVars>>
      BY <2>2 DEF Stop
    <3>2. OnlyTextures(doc, doc') BY <1>0, <3>1, WithoutTyped
    <3>3. StillBusy BY <3>1 DEF StillBusy, AtWork, workerVars
    <3> QED BY <3>1, <3>2, <3>3, PdfQuiet DEF OnlyTextures, lockVars, workerVars
  <2> QED BY <1>3, <2>1, <2>2, PdfPoll, PdfApply, PdfDraw, PdfEndFrame DEF Main
<1>4. CASE UNCHANGED vars
  <2>1. UNCHANGED <<doc, handles, inbox, queue, done, pc, job, result>>
    BY <1>4 DEF vars, docVars, mainVars, lockVars, workerVars
  <2>2. StillBusy BY <2>1 DEF StillBusy, AtWork
  <2> QED BY <2>1, <2>2, PdfQuiet
<1> QED BY <1>1, <1>2, <1>3, <1>4 DEF Next

(* The PDFs open in poppler are those of documents in memory and those a   *)
(* job submitted is to close: none leaks, none is closed twice or while a  *)
(* worker may use it, and a page is rendered from one that is open.        *)
THEOREM PdfsAreOwned == Spec => []PdfsOwned
<1>1. Init => RefsInv /\ PdfInv
  BY TypeInit, HeldInit, CountInit, PdfInit DEF RefsInv
<1>2. RefsInv /\ PdfInv /\ [Next]_vars => (RefsInv /\ PdfInv)'
  BY TypeStep, HeldStep, CountStep, PdfStep DEF RefsInv
<1>3. ASSUME RefsInv, PdfInv PROVE PdfsOwned
  <2>1. TypeInv /\ WorkHeld BY <1>3 DEF RefsInv
  <2>2. handles = ({doc[d].pdf : d \in Docs} \ {NoPdf}) \cup {queue[k].pdf : k \in Unfreed}
    <3>1. Unfreed = {m \in DOMAIN queue : Due(queue[m], pc)} BY DEF Unfreed, Due
    <3> QED BY <1>3, <3>1 DEF PdfInv, Owned, Freeing, FreeingOf
  <2>3. ASSUME NEW k \in Unfreed, NEW d \in Docs PROVE doc[d].pdf # queue[k].pdf
    <3> SUFFICES ASSUME doc[d].pdf = queue[k].pdf PROVE FALSE
      OBVIOUS
    <3>1. k \in Frees(queue) BY DEF Unfreed, Frees
    <3>2. doc[d].pdf # NoPdf BY <1>3, <3>1 DEF PdfInv, FreesDue
    <3>3. doc[d].pdf.doc = d BY <1>3, <3>2 DEF PdfInv, PdfsOwn
    <3>4. doc[d].life = "freed" BY <1>3, <3>1, <3>3 DEF PdfInv, FreesDue
    <3> QED BY <1>3, <3>2, <3>4 DEF PdfInv, PdfsOwn, Gone
  <2>4. ASSUME NEW k \in Unfreed, NEW m \in Unfreed, m # k PROVE queue[m].pdf # queue[k].pdf
    <3>1. k \in Frees(queue) /\ m \in Frees(queue) BY DEF Unfreed, Frees
    <3> QED BY <1>3, <2>4, <3>1 DEF PdfInv, OneFree
  <2>5. ASSUME NEW i \in Workers, pc[i] = "run", job[i].type = "render"
        PROVE  doc[job[i].doc].pdf \in handles
    <3>1. PICK k \in DOMAIN queue : InHand(queue[k], job[i], i) BY <2>1, <2>5 DEF WorkHeld, AtWork
    <3>2. queue[k].type = "render" /\ queue[k].doc = job[i].doc BY <2>5, <3>1 DEF InHand
    <3>3. queue[k] \in Queued BY <2>1 DEF TypeInv, ListsTyped
    <3>4. PICK d \in Docs : d = job[i].doc BY <3>2, <3>3 DEF Queued, Job
    <3>5. Rendering(queue, d) BY <3>2, <3>4 DEF Rendering
    <3>6. doc[d].pdf # NoPdf BY <1>3, <3>5 DEF PdfInv, Needed
    <3> QED BY <2>2, <3>4, <3>6
  <2> QED BY <2>2, <2>3, <2>4, <2>5 DEF PdfsOwned
<1> QED BY <1>1, <1>2, <1>3, PTL DEF Spec

-----------------------------------------------------------------------------
(* Pages.  What steps do to the queue, with the order and the generations  *)
(* of the jobs: those that are left come in their order, only the size and *)
(* priority of waiting pages changed, and new ones are at the end.         *)
Kin(a, b) == /\ a.by = b.by /\ a.doc = b.doc /\ a.type = b.type /\ a.gen = b.gen /\ a.page = b.page
             /\ a.type = "load" => a.prio = b.prio
             /\ a.by # NoWorker => a = b
NewOf(d, g, ts) ==
    {j \in Queued : /\ j.by = NoWorker /\ j.doc = d /\ j.gen = g /\ j.type \in ts
                    /\ j.type = "load" => j.prio = 0}
Extended(q, r, N) ==
    /\ r \in Seq(Queued) /\ Len(q) <= Len(r)
    /\ \A k \in 1 .. Len(q) : Kin(r[k], q[k])
    /\ \A k \in Len(q) + 1 .. Len(r) : r[k] \in N
Followed(q, r, K, N, m, e) ==
    /\ r \in Seq(Queued) /\ m \in 0 .. Len(r) /\ K \subseteq DOMAIN q
    /\ \A k \in 1 .. m : e[k] \in K /\ Kin(r[k], q[e[k]])
    /\ \A j \in 1 .. m, k \in 1 .. m : j < k => e[j] < e[k]
    /\ \A i \in K : \E k \in 1 .. m : e[k] = i
    /\ \A k \in m + 1 .. Len(r) : r[k] \in N
Follows(q, r, K, N) == \E m, e : Followed(q, r, K, N, m, e)

LEMMA KinSelf == ASSUME NEW a PROVE Kin(a, a)
  BY DEF Kin
LEMMA KinAgain == ASSUME NEW a, NEW b, NEW c, Kin(a, b), Kin(b, c) PROVE Kin(a, c)
  BY DEF Kin
LEMMA KinNew ==
    ASSUME NEW d, NEW g, NEW ts, NEW a \in Queued, NEW b \in NewOf(d, g, ts), Kin(a, b)
    PROVE  a \in NewOf(d, g, ts)
  BY DEF Kin, NewOf

LEMMA ExtendedSelf == ASSUME NEW q \in Seq(Queued), NEW N PROVE Extended(q, q, N)
<1>1. Len(q) \in Nat OBVIOUS
<1>2. Len(q) + 1 .. Len(q) = {} BY <1>1
<1> QED BY <1>1, <1>2, KinSelf DEF Extended

LEMMA ExtendedAgain ==
    ASSUME NEW q \in Seq(Queued), NEW r \in Seq(Queued), NEW s \in Seq(Queued), NEW d, NEW g, NEW ts,
           Extended(q, r, NewOf(d, g, ts)), Extended(r, s, NewOf(d, g, ts))
    PROVE  Extended(q, s, NewOf(d, g, ts))
<1>1. Len(q) \in Nat /\ Len(r) \in Nat /\ Len(s) \in Nat /\ Len(q) <= Len(r) /\ Len(r) <= Len(s)
  BY DEF Extended
<1>2. ASSUME NEW k \in 1 .. Len(q) PROVE Kin(s[k], q[k])
  <2>1. k \in 1 .. Len(r) BY <1>1
  <2>2. Kin(r[k], q[k]) /\ Kin(s[k], r[k]) BY <2>1 DEF Extended
  <2> QED BY <2>2, KinAgain
<1>3. ASSUME NEW k \in Len(q) + 1 .. Len(s) PROVE s[k] \in NewOf(d, g, ts)
  <2>1. CASE k \in Len(r) + 1 .. Len(s) BY <2>1 DEF Extended
  <2>2. CASE k \notin Len(r) + 1 .. Len(s)
    <3>1. k \in 1 .. Len(r) /\ k \in Len(q) + 1 .. Len(r) /\ k \in 1 .. Len(s) BY <1>1, <2>2
    <3>2. r[k] \in NewOf(d, g, ts) /\ Kin(s[k], r[k]) BY <3>1 DEF Extended
    <3>3. s[k] \in Queued BY <3>1
    <3> QED BY <3>2, <3>3, KinNew
  <2> QED BY <2>1, <2>2
<1> QED BY <1>1, <1>2, <1>3 DEF Extended

LEMMA ExtendedOne ==
    ASSUME NEW q \in Seq(Queued), NEW N, NEW x \in Queued, x \in N
    PROVE  Extended(q, Append(q, x), N)
<1>1. PICK s \in Seq(Queued) : s = Append(q, x)
  <2>1. Append(q, x) \in Seq(Queued) OBVIOUS
  <2> QED BY <2>1
<1>2. /\ Len(q) \in Nat /\ Len(s) = Len(q) + 1 /\ s[Len(q) + 1] = x
      /\ \A k \in 1 .. Len(q) : s[k] = q[k]
  BY <1>1
<1>3. Extended(q, s, N)
  <2>1. \A k \in 1 .. Len(q) : Kin(s[k], q[k]) BY <1>2, KinSelf
  <2>2. \A k \in Len(q) + 1 .. Len(s) : s[k] = x BY <1>2
  <2> QED BY <1>2, <2>1, <2>2 DEF Extended
<1> QED BY <1>1, <1>3

LEMMA FollowsExtended ==
    ASSUME NEW q \in Seq(Queued), NEW s, NEW N, Extended(q, s, N)
    PROVE  Follows(q, s, DOMAIN q, N)
<1> DEFINE e == [k \in 1 .. Len(q) |-> k]
<1>1. Len(q) \in Nat /\ Len(s) \in Nat /\ Len(q) <= Len(s) /\ DOMAIN q = 1 .. Len(q)
  BY DEF Extended
<1>2. Followed(q, s, DOMAIN q, N, Len(q), e)
  BY <1>1 DEF Followed, Extended
<1> QED BY <1>2 DEF Follows

LEMMA FollowsMore ==
    ASSUME NEW q \in Seq(Queued), NEW r, NEW s, NEW K, NEW d, NEW g, NEW ts,
           Follows(q, r, K, NewOf(d, g, ts)), Extended(r, s, NewOf(d, g, ts))
    PROVE  Follows(q, s, K, NewOf(d, g, ts))
<1> DEFINE N == NewOf(d, g, ts)
<1>1. PICK m, e : Followed(q, r, K, N, m, e)
  BY DEF Follows
<1>2. /\ r \in Seq(Queued) /\ s \in Seq(Queued) /\ Len(r) \in Nat /\ Len(s) \in Nat /\ Len(r) <= Len(s)
      /\ m \in Nat /\ m <= Len(r)
  BY <1>1 DEF Followed, Extended
<1>3. ASSUME NEW k \in 1 .. m PROVE e[k] \in K /\ Kin(s[k], q[e[k]])
  <2>1. k \in 1 .. Len(r) BY <1>2
  <2>2. Kin(s[k], r[k]) BY <2>1 DEF Extended
  <2>3. e[k] \in K /\ Kin(r[k], q[e[k]]) BY <1>1 DEF Followed
  <2> QED BY <2>2, <2>3, KinAgain
<1>4. ASSUME NEW k \in m + 1 .. Len(s) PROVE s[k] \in N
  <2>1. CASE k \in Len(r) + 1 .. Len(s) BY <2>1 DEF Extended
  <2>2. CASE k \notin Len(r) + 1 .. Len(s)
    <3>1. k \in 1 .. Len(r) /\ k \in m + 1 .. Len(r) /\ k \in 1 .. Len(s) BY <1>2, <2>2
    <3>2. r[k] \in N BY <1>1, <3>1 DEF Followed
    <3>3. Kin(s[k], r[k]) BY <3>1 DEF Extended
    <3>4. s[k] \in Queued BY <1>2, <3>1
    <3> QED BY <3>2, <3>3, <3>4, KinNew
  <2> QED BY <2>1, <2>2
<1>5. m \in 0 .. Len(s) /\ K \subseteq DOMAIN q BY <1>1, <1>2 DEF Followed
<1>6. Followed(q, s, K, N, m, e)
  <2>1. \A j \in 1 .. m, k \in 1 .. m : j < k => e[j] < e[k] BY <1>1 DEF Followed
  <2>2. \A i \in K : \E k \in 1 .. m : e[k] = i BY <1>1 DEF Followed
  <2> HIDE DEF N
  <2> QED BY <1>2, <1>3, <1>4, <1>5, <2>1, <2>2 DEF Followed
<1> QED BY <1>6 DEF Follows

LEMMA FollowsSelected ==
    ASSUME NEW q \in Seq(Queued), NEW S, NEW N
    PROVE  Follows(q, Selected(q, S), S \cap DOMAIN q, N)
<1>1. PICK r \in Seq(Queued) : r = Selected(q, S) BY SelectedComes
<1>2. PICK e : ComesFrom(r, q, S, Len(q), e) BY <1>1, SelectedComes
<1>3. /\ DOMAIN r = 1 .. Len(r) /\ DOMAIN q = 1 .. Len(q) /\ Len(q) \in Nat /\ Len(r) \in Nat
  OBVIOUS
<1>4. \A k \in 1 .. Len(r) : e[k] \in S \cap DOMAIN q /\ Kin(r[k], q[e[k]])
  BY <1>2, <1>3, KinSelf DEF ComesFrom
<1>5. Len(r) + 1 .. Len(r) = {} /\ Len(r) \in 0 .. Len(r) BY <1>3
<1>6. Followed(q, r, S \cap DOMAIN q, N, Len(r), e)
  BY <1>2, <1>3, <1>4, <1>5 DEF Followed, ComesFrom
<1> QED BY <1>1, <1>6 DEF Follows

(* Loads and closings put at the end.                                      *)
LEMMA LoadExtends ==
    ASSUME NEW q \in Seq(Queued), NEW d \in Docs, NEW g \in Nat
    PROVE  /\ LoadJob(d, g) \in NewOf(d, g, {"load"})
           /\ Extended(q, Append(q, LoadJob(d, g)), NewOf(d, g, {"load"}))
<1>1. PICK x : x = LoadJob(d, g) OBVIOUS
<1>2. x = [type |-> "load", doc |-> d, gen |-> g, prio |-> 0, page |-> 0, width |-> 0,
           by |-> NoWorker, pdf |-> NoPdf]
  BY <1>1 DEF LoadJob, NewJob
<1>3. 0 \in Pages /\ NoPdf \in PdfFile /\ d # NoDoc
  BY PageFacts, DocsAssumption
<1>4. x \in Queued BY <1>2, <1>3 DEF Queued, Job
<1>5. x \in NewOf(d, g, {"load"}) BY <1>2, <1>4 DEF NewOf
<1>6. Extended(q, Append(q, x), NewOf(d, g, {"load"})) BY <1>4, <1>5, ExtendedOne
<1> QED BY <1>1, <1>5, <1>6

Closings == NewOf(NoDoc, 0, {"free_pdf"})
LEMMA FreeExtends ==
    ASSUME NEW q \in Seq(Queued), NEW r \in Document, NEW n
    PROVE  Extended(q, q \o PdfToFree(r, n), Closings)
<1>1. CASE q \o PdfToFree(r, n) = q BY <1>1, ExtendedSelf
<1>2. CASE /\ q \o PdfToFree(r, n) = Append(q, FreeJob(r.pdf)) /\ FreeJob(r.pdf) \in Queued
           /\ FreeJob(r.pdf).doc = NoDoc /\ FreeJob(r.pdf).by = NoWorker /\ FreeJob(r.pdf).type = "free_pdf"
  <2>1. FreeJob(r.pdf) = [type |-> "free_pdf", doc |-> NoDoc, gen |-> 0, prio |-> 0, page |-> 0, width |-> 0,
                          by |-> NoWorker, pdf |-> r.pdf]
    BY DEF FreeJob, NewJob
  <2>2. FreeJob(r.pdf).gen = 0 BY <2>1
  <2>3. FreeJob(r.pdf) \in Closings BY <1>2, <2>2 DEF Closings, NewOf
  <2>4. PICK f \in Queued : f = FreeJob(r.pdf) BY <1>2
  <2>5. Extended(q, Append(q, f), Closings) BY <2>3, <2>4, ExtendedOne
  <2> QED BY <1>2, <2>4, <2>5
<1> QED BY <1>1, <1>2, FreeingTyped

(* Requests for pages.                                                     *)
LEMMA RequestedExtends ==
    ASSUME NEW q \in Seq(Queued), NEW d \in Docs, NEW p \in Pages, NEW w \in Widths,
           NEW prio \in {0, 1}, doc[d].gen \in Nat
    PROVE  Extended(q, Requested(q, d, p, w, prio), NewOf(d, doc[d].gen, {"render"}))
<1>1. /\ Len(q) \in Nat /\ DOMAIN q = 1 .. Len(q) /\ \A k \in 1 .. Len(q) : q[k] \in Queued
  OBVIOUS
<1> DEFINE Same(k) == /\ q[k].type = "render" /\ q[k].doc = d
                      /\ q[k].page = p /\ q[k].gen = doc[d].gen
           waiting == {k \in DOMAIN q : Same(k) /\ q[k].by = NoWorker}
           Sooner(j) == [j EXCEPT !.width = w, !.prio = IF prio < @ THEN prio ELSE @]
           r == [k \in DOMAIN q |-> IF k \in waiting THEN Sooner(q[k]) ELSE q[k]]
           new == NewJob("render", d, doc[d].gen, prio, p, w)
           N == NewOf(d, doc[d].gen, {"render"})
<1>2. \/ Requested(q, d, p, w, prio) = r
      \/ Requested(q, d, p, w, prio) = q
      \/ Requested(q, d, p, w, prio) = Append(q, new)
  BY DEF Requested
<1>3. ASSUME NEW j \in Queued, j.type = "render", j.by = NoWorker
      PROVE  Sooner(j) \in Queued /\ Kin(Sooner(j), j)
  <2>1. PICK n \in {0, 1} : n = IF prio < j.prio THEN prio ELSE j.prio
    BY DEF Queued, Job
  <2>2. Sooner(j) = [j EXCEPT !.width = w, !.prio = n]
    BY <2>1 DEF Queued, Job
  <2>3. [j EXCEPT !.width = w, !.prio = n] \in Job
    BY DEF Queued, Job
  <2>4. LET i == [j EXCEPT !.width = w, !.prio = n]
        IN  /\ i.by = j.by /\ i.doc = j.doc /\ i.type = j.type /\ i.gen = j.gen /\ i.page = j.page
    BY DEF Queued, Job
  <2> QED BY <1>3, <2>2, <2>3, <2>4 DEF Queued, Kin
<1>4. Extended(q, r, N)
  <2>1. \A k \in 1 .. Len(q) : r[k] \in Queued /\ Kin(r[k], q[k])
    <3> SUFFICES ASSUME NEW k \in 1 .. Len(q) PROVE r[k] \in Queued /\ Kin(r[k], q[k])
      OBVIOUS
    <3>1. CASE k \in waiting
      <4>1. PICK j \in Queued : j = q[k] BY <1>1
      <4>2. j.type = "render" /\ j.by = NoWorker BY <3>1, <4>1
      <4>3. r[k] = Sooner(j) BY <1>1, <3>1, <4>1
      <4>4. Sooner(j) \in Queued /\ Kin(Sooner(j), j) BY <1>3, <4>2
      <4> HIDE DEF Sooner, r
      <4> QED BY <4>1, <4>3, <4>4
    <3>2. CASE k \notin waiting
      <4>1. r[k] = q[k] BY <1>1, <3>2
      <4> QED BY <1>1, <4>1, KinSelf
    <3> QED BY <3>1, <3>2
  <2>2. r = [k \in 1 .. Len(q) |-> r[k]] BY <1>1
  <2> HIDE DEF r
  <2>3. r \in [1 .. Len(q) -> Queued] BY <2>1, <2>2
  <2>4. r \in Seq(Queued) /\ Len(r) = Len(q) BY <1>1, <2>3
  <2>5. Len(q) + 1 .. Len(r) = {} /\ Len(q) <= Len(r) BY <1>1, <2>4
  <2> QED BY <2>1, <2>4, <2>5 DEF Extended
<1>5. Extended(q, Append(q, new), N)
  <2>1. /\ new \in Queued /\ new.doc = d /\ new.by = NoWorker /\ new.type = "render"
    BY PageFacts, NewJobs
  <2>2. new.gen = doc[d].gen BY DEF NewJob
  <2>3. new \in N BY <2>1, <2>2 DEF NewOf
  <2> HIDE DEF new, N
  <2> QED BY <2>1, <2>3, ExtendedOne
<1>6. Extended(q, q, N) BY ExtendedSelf
<1> HIDE DEF r, new
<1> QED BY <1>2, <1>4, <1>5, <1>6

LEMMA RequestsExtend ==
    ASSUME queue \in Seq(Queued), NEW d \in Docs, doc[d] \in Document, NEW w \in Widths
    PROVE  Extended(queue, Requests(d, w), NewOf(d, doc[d].gen, {"render"}))
<1>1. doc[d].gen \in Nat /\ doc[d].page \in Pages /\ doc[d].npages \in 0 .. MAX_PAGES
  <2>1. PICK r \in Document : r = doc[d] OBVIOUS
  <2> QED BY <2>1 DEF Document
<1>2. PageNumbers(d) \subseteq Pages
  BY <1>1, PageFacts DEF PageNumbers, Pages
<1> DEFINE N == NewOf(d, doc[d].gen, {"render"})
           Ahead(q, n) ==
             IF n \in PageNumbers(d) /\ n \notin doc[d].errors /\ Wanted(d, n, w)
             THEN Requested(q, d, n, w, 1) ELSE q
<1>3. ASSUME NEW q \in Seq(Queued), NEW n PROVE Extended(q, Ahead(q, n), N)
  <2>1. CASE n \in PageNumbers(d)
    <3>1. n \in Pages /\ 1 \in {0, 1} BY <1>2, <2>1
    <3>2. Extended(q, Requested(q, d, n, w, 1), N) BY <1>1, <3>1, RequestedExtends
    <3>3. Extended(q, q, N) BY ExtendedSelf
    <3> QED BY <3>2, <3>3
  <2>2. CASE n \notin PageNumbers(d)
    <3>1. Extended(q, q, N) BY ExtendedSelf
    <3> QED BY <2>2, <3>1
  <2> QED BY <2>1, <2>2
<1>4. PICK a : a = Ahead(queue, doc[d].page - 1) OBVIOUS
<1>5. Extended(queue, a, N) BY <1>3, <1>4
<1>6. a \in Seq(Queued) BY <1>5 DEF Extended
<1>7. PICK b : b = Ahead(a, doc[d].page + 1) OBVIOUS
<1>8. Extended(a, b, N) BY <1>3, <1>6, <1>7
<1>9. b \in Seq(Queued) BY <1>8 DEF Extended
<1>10. Extended(queue, b, N) BY <1>5, <1>6, <1>8, <1>9, ExtendedAgain
<1>11. Extended(queue, Requested(queue, d, doc[d].page, w, 0), N)
  <2>1. 0 \in {0, 1} OBVIOUS
  <2> QED BY <1>1, <2>1, RequestedExtends
<1>12. \/ Requests(d, w) = Requested(queue, d, doc[d].page, w, 0)
       \/ Requests(d, w) = b
  BY <1>4, <1>7 DEF Requests
<1> QED BY <1>10, <1>11, <1>12

-----------------------------------------------------------------------------
(* What jobs there may be.  A job in hand is the one its worker took;      *)
(* loads are the most urgent, pages are of PDFs; and for an open document, *)
(* no job is from a generation to come, and the waiting ones are of the    *)
(* present one.                                                            *)
Whole(q, work) == \A k \in DOMAIN q : q[k].by # NoWorker => q[k] = [work[q[k].by] EXCEPT !.by = q[k].by]
Sorted(q) == \A k \in DOMAIN q : /\ q[k].type = "load" => q[k].prio = 0
                                 /\ q[k].type = "render" => q[k].doc \in Pdfs
OfPdfs(q) == \A k \in DOMAIN q : q[k].type = "render" => q[k].doc \in Pdfs
Known(q, d, g) == \A k \in DOMAIN q : q[k].doc = d => /\ q[k].gen <= g
                                                      /\ q[k].by = NoWorker => q[k].gen = g
Past(q, d, g) == \A k \in DOMAIN q : q[k].doc = d => q[k].gen <= g
KnownTo(d, g) == Known(queue, d, g) /\ Past(done, d, g) /\ Past(inbox, d, g)
KindInv ==
    /\ Whole(queue, job) /\ Sorted(queue) /\ OfPdfs(done) /\ OfPdfs(inbox)
    /\ \A d \in Docs : Live(d) => KnownTo(d, doc[d].gen)
    /\ \A d \in Docs : Live(d) /\ d \notin Pdfs => Blank(doc[d])

LEMMA Origin ==
    ASSUME NEW q, NEW r, NEW K, NEW N, NEW m, NEW e, Followed(q, r, K, N, m, e), NEW k \in DOMAIN r
    PROVE  \/ k \in 1 .. m /\ e[k] \in K /\ e[k] \in DOMAIN q /\ Kin(r[k], q[e[k]])
           \/ k \in m + 1 .. Len(r) /\ r[k] \in N
<1>1. r \in Seq(Queued) /\ m \in Nat /\ m <= Len(r) /\ k \in 1 .. Len(r)
  BY DEF Followed
<1>2. k \in 1 .. m \/ k \in m + 1 .. Len(r) BY <1>1
<1> QED BY <1>2 DEF Followed

LEMMA OriginKind ==
    ASSUME NEW q, NEW r, NEW K, NEW N, Follows(q, r, K, N), NEW k \in DOMAIN r
    PROVE  (\E l \in K : l \in DOMAIN q /\ Kin(r[k], q[l])) \/ r[k] \in N
<1>1. PICK m, e : Followed(q, r, K, N, m, e) BY DEF Follows
<1> QED BY <1>1, Origin

LEMMA WholeFollows ==
    ASSUME NEW q, NEW r, NEW K, NEW d, NEW g, NEW ts, Follows(q, r, K, NewOf(d, g, ts)),
           NEW work, Whole(q, work)
    PROVE  Whole(r, work)
<1> SUFFICES ASSUME NEW k \in DOMAIN r, r[k].by # NoWorker
             PROVE  r[k] = [work[r[k].by] EXCEPT !.by = r[k].by]
  BY DEF Whole
<1>1. CASE r[k] \in NewOf(d, g, ts) BY <1>1 DEF NewOf
<1>2. ASSUME NEW l \in DOMAIN q, Kin(r[k], q[l]) PROVE r[k] = [work[r[k].by] EXCEPT !.by = r[k].by]
  <2>1. r[k] = q[l] BY <1>2 DEF Kin
  <2> QED BY <2>1 DEF Whole
<1> QED BY <1>1, <1>2, OriginKind

LEMMA SortedFollows ==
    ASSUME NEW q, NEW r, NEW K, NEW d, NEW g, NEW ts, Follows(q, r, K, NewOf(d, g, ts)),
           "render" \in ts => d \in Pdfs, Sorted(q)
    PROVE  Sorted(r)
<1> SUFFICES ASSUME NEW k \in DOMAIN r
             PROVE  /\ r[k].type = "load" => r[k].prio = 0
                    /\ r[k].type = "render" => r[k].doc \in Pdfs
  BY DEF Sorted
<1>1. CASE r[k] \in NewOf(d, g, ts) BY <1>1 DEF NewOf
<1>2. ASSUME NEW l \in DOMAIN q, Kin(r[k], q[l])
      PROVE  /\ r[k].type = "load" => r[k].prio = 0
             /\ r[k].type = "render" => r[k].doc \in Pdfs
  BY <1>2 DEF Kin, Sorted
<1> QED BY <1>1, <1>2, OriginKind

LEMMA KnownFollows ==
    ASSUME NEW q, NEW r, NEW K, NEW d, NEW g, NEW ts, Follows(q, r, K, NewOf(d, g, ts)),
           NEW x, NEW n \in Nat, Known(q, x, n), x = d => g = n
    PROVE  Known(r, x, n)
<1> SUFFICES ASSUME NEW k \in DOMAIN r, r[k].doc = x
             PROVE  r[k].gen <= n /\ (r[k].by = NoWorker => r[k].gen = n)
  BY DEF Known
<1>1. CASE r[k] \in NewOf(d, g, ts) BY <1>1 DEF NewOf
<1>2. ASSUME NEW l \in DOMAIN q, Kin(r[k], q[l])
      PROVE  r[k].gen <= n /\ (r[k].by = NoWorker => r[k].gen = n)
  BY <1>2 DEF Kin, Known
<1> QED BY <1>1, <1>2, OriginKind

-----------------------------------------------------------------------------
(* Loads under way.                                                        *)
IsLoad(j, d, g) == j.type = "load" /\ j.doc = d /\ j.gen = g
IsPage(j, d, g) == j.type = "render" /\ j.doc = d /\ j.gen = g
Loads(d, g) == {j \in Queued \cup Outcomes : IsLoad(j, d, g)}
Tally(d, g) == HowMany(queue, Loads(d, g)) + HowMany(done, Loads(d, g)) + HowMany(inbox, Loads(d, g))
BackedAt(d, g) == /\ Tally(d, g) = (IF doc[d].loading THEN 1 ELSE 0)
                  /\ doc[d].state = "loading" => doc[d].loading
BackInv == \A d \in Docs : Live(d) => BackedAt(d, doc[d].gen)

LEMMA LoadsFollow ==
    ASSUME NEW q \in Seq(Queued), NEW r, NEW K, NEW x, NEW h, NEW ts, Follows(q, r, K, NewOf(x, h, ts)),
           NEW d, NEW g, \A k \in DOMAIN q : IsLoad(q[k], d, g) => k \in K,
           x = d => "load" \notin ts
    PROVE  HowMany(r, Loads(d, g)) = HowMany(q, Loads(d, g))
<1> DEFINE L == Loads(d, g)
           N == NewOf(x, h, ts)
<1>1. PICK m, e : Followed(q, r, K, N, m, e) BY DEF Follows
<1>2. /\ r \in Seq(Queued) /\ Len(r) \in Nat /\ m \in Nat /\ m <= Len(r) /\ DOMAIN r = 1 .. Len(r)
      /\ K \subseteq DOMAIN q /\ DOMAIN q = 1 .. Len(q) /\ Len(q) \in Nat
  BY <1>1 DEF Followed
<1>3. /\ \A k \in DOMAIN q : q[k] \in Queued
      /\ \A k \in DOMAIN r : r[k] \in Queued
  BY <1>2
<1>4. ASSUME NEW j \in N PROVE j \notin L
  BY <1>4 DEF NewOf, Loads, IsLoad
<1>5. ASSUME NEW k \in 1 .. m
      PROVE  e[k] \in K /\ e[k] \in DOMAIN q /\ (r[k] \in L <=> q[e[k]] \in L)
  <2>1. e[k] \in K /\ e[k] \in DOMAIN q /\ Kin(r[k], q[e[k]]) /\ k \in DOMAIN r
    BY <1>1, <1>2 DEF Followed
  <2>2. r[k] \in Queued /\ q[e[k]] \in Queued BY <1>3, <2>1
  <2> QED BY <2>1, <2>2 DEF Kin, Loads, IsLoad
<1> DEFINE A == Spots(r, L)
           B == Spots(q, L)
           f == [k \in A |-> e[k]]
<1>6. ASSUME NEW k \in A PROVE k \in 1 .. m
  <2>1. k \in DOMAIN r /\ r[k] \in L BY <1>6 DEF Spots
  <2>2. k \in m + 1 .. Len(r) => r[k] \in N BY <1>1 DEF Followed
  <2>3. k \in m + 1 .. Len(r) => FALSE BY <1>4, <2>1, <2>2
  <2> QED BY <1>2, <2>1, <2>3
<1>7. f \in [A -> B]
  <2> SUFFICES ASSUME NEW k \in A PROVE e[k] \in B
    OBVIOUS
  <2>1. r[k] \in L BY DEF Spots
  <2> HIDE DEF L, A
  <2>2. e[k] \in DOMAIN q /\ q[e[k]] \in L BY <1>5, <1>6, <2>1
  <2> QED BY <2>2 DEF Spots
<1>8. ASSUME NEW k \in A, NEW j \in A, f[k] = f[j] PROVE k = j
  <2>1. k \in 1 .. m /\ j \in 1 .. m BY <1>6
  <2>2. e[k] = e[j] BY <1>8
  <2>3. (k < j => e[k] < e[j]) /\ (j < k => e[j] < e[k]) BY <1>1, <2>1 DEF Followed
  <2>4. e[k] \in Nat /\ e[j] \in Nat BY <1>2, <1>5, <2>1
  <2> QED BY <1>2, <2>1, <2>2, <2>3, <2>4
<1>9. ASSUME NEW i \in B PROVE \E k \in A : f[k] = i
  <2>1. i \in DOMAIN q /\ q[i] \in L BY <1>9 DEF Spots
  <2>2. IsLoad(q[i], d, g) BY <2>1 DEF Loads
  <2>3. i \in K BY <2>1, <2>2
  <2>4. PICK k \in 1 .. m : e[k] = i BY <1>1, <2>3 DEF Followed
  <2>5. r[k] \in L BY <1>5, <2>1, <2>4
  <2>6. k \in DOMAIN r BY <1>2
  <2>7. k \in A BY <2>5, <2>6 DEF Spots
  <2> QED BY <2>4, <2>7
<1>10. IsFiniteSet(A) BY <1>2, SpotsFinite
<1> HIDE DEF A, B, f
<1>11. Cardinality(B) = Cardinality(A) BY <1>7, <1>8, <1>9, <1>10, SameSize
<1> QED BY <1>11 DEF HowMany, A, B

-----------------------------------------------------------------------------
(* Pages of the file last loaded.  While a load of the present generation  *)
(* is in the queue it comes before the pages, none of which is under way   *)
(* or done; jobs of older generations are in hand, and it waits for them;  *)
(* and once it has succeeded, the PDF is of that generation, and so is any *)
(* page from it.                                                           *)
Ordered(q, d, g) ==
    \A l, k \in DOMAIN q : IsLoad(q[l], d, g) /\ IsPage(q[k], d, g) => l < k /\ q[k].by = NoWorker
OldHeld(q, d, g) ==
    \A k \in DOMAIN q : q[k].doc = d /\ q[k].gen # g =>
        /\ q[k].by # NoWorker
        /\ \E l \in DOMAIN q : IsLoad(q[l], d, g) /\ q[l].by = NoWorker
LoadIn(q, d, g) == \E k \in DOMAIN q : IsLoad(q[k], d, g)
Came == {done[k] : k \in DOMAIN done} \cup {inbox[k] : k \in DOMAIN inbox}
NoneCame(d, g) == \A j \in Came : ~ IsPage(j, d, g)
LoadCame(d, g) == \E j \in Came : IsLoad(j, d, g) /\ ~ j.error
LoadRan(d, g) == \E i \in Workers : pc[i] = "ran" /\ IsLoad(job[i], d, g) /\ ~ result[i].error
Fed(d, g) ==
    /\ doc[d].pdf.gen = g
    /\ \A j \in Came : IsPage(j, d, g) => j.pdf.gen = g
    /\ \A i \in Workers : pc[i] = "ran" /\ IsPage(job[i], d, g) => result[i].pdf.gen = g
Settled(r) == r.state = "ready" /\ ~ r.loading
OfGen(r, g) == \A p \in Pages : r.tex[p].width # 0 /\ ~ r.tex[p].stale => r.tex[p].gen = g
FreshAt(d, g) ==
    /\ Ordered(queue, d, g) /\ OldHeld(queue, d, g)
    /\ LoadIn(queue, d, g) => NoneCame(d, g)
    /\ LoadRan(d, g) => doc[d].pdf.gen = g
    /\ Settled(doc[d]) \/ LoadCame(d, g) => Fed(d, g)
    /\ Settled(doc[d]) => OfGen(doc[d], g)
FreshInv == \A d \in Pdfs : Live(d) => FreshAt(d, doc[d].gen)

LEMMA OrderedFollows ==
    ASSUME NEW q \in Seq(Queued), NEW r, NEW K, NEW x, NEW h, NEW ts, Follows(q, r, K, NewOf(x, h, ts)),
           NEW d, NEW g, x = d => "load" \notin ts, Ordered(q, d, g)
    PROVE  Ordered(r, d, g)
<1> DEFINE N == NewOf(x, h, ts)
<1>1. PICK m, e : Followed(q, r, K, N, m, e) BY DEF Follows
<1>2. /\ r \in Seq(Queued) /\ Len(r) \in Nat /\ m \in Nat /\ m <= Len(r) /\ DOMAIN r = 1 .. Len(r)
      /\ K \subseteq DOMAIN q /\ DOMAIN q = 1 .. Len(q) /\ Len(q) \in Nat
  BY <1>1 DEF Followed
<1> SUFFICES ASSUME NEW l \in DOMAIN r, NEW k \in DOMAIN r, IsLoad(r[l], d, g), IsPage(r[k], d, g)
             PROVE  l < k /\ r[k].by = NoWorker
  BY DEF Ordered
<1>3. r[l] \notin N BY DEF NewOf, IsLoad
<1>4. l \in 1 .. m /\ e[l] \in DOMAIN q /\ Kin(r[l], q[e[l]])
  <2> HIDE DEF N
  <2> QED BY <1>1, <1>3, Origin
<1>5. IsLoad(q[e[l]], d, g) BY <1>4 DEF Kin, IsLoad
<1>6. CASE k \in m + 1 .. Len(r) /\ r[k] \in N
  BY <1>2, <1>4, <1>6 DEF NewOf
<1>7. CASE k \in 1 .. m /\ e[k] \in DOMAIN q /\ Kin(r[k], q[e[k]])
  <2>1. IsPage(q[e[k]], d, g) BY <1>7 DEF Kin, IsPage
  <2>2. e[l] < e[k] /\ q[e[k]].by = NoWorker BY <1>4, <1>5, <1>7, <2>1 DEF Ordered
  <2>3. r[k].by = NoWorker BY <1>7, <2>2 DEF Kin
  <2>4. k < l => e[k] < e[l] BY <1>1, <1>4, <1>7 DEF Followed
  <2>5. e[l] \in Nat /\ e[k] \in Nat BY <1>2, <1>4, <1>7
  <2>6. l # k BY <2>2, <2>5
  <2> QED BY <1>2, <1>4, <1>7, <2>2, <2>3, <2>4, <2>5, <2>6
<1> QED
  <2> HIDE DEF N
  <2> QED BY <1>1, <1>6, <1>7, Origin

LEMMA LoadFollows ==
    ASSUME NEW q, NEW r, NEW K, NEW N, Follows(q, r, K, N), NEW d, NEW g,
           NEW k \in K, IsLoad(q[k], d, g), q[k].by = NoWorker
    PROVE  \E l \in DOMAIN r : IsLoad(r[l], d, g) /\ r[l].by = NoWorker
<1>1. PICK m, e : Followed(q, r, K, N, m, e) BY DEF Follows
<1>2. PICK l \in 1 .. m : e[l] = k BY <1>1 DEF Followed
<1>3. l \in DOMAIN r BY <1>1 DEF Followed
<1>4. Kin(r[l], q[k]) BY <1>1, <1>2 DEF Followed
<1> QED BY <1>3, <1>4 DEF Kin, IsLoad

LEMMA OldFollow ==
    ASSUME NEW q, NEW r, NEW K, NEW x, NEW h, NEW ts, Follows(q, r, K, NewOf(x, h, ts)),
           NEW d, NEW g, \A k \in DOMAIN q : IsLoad(q[k], d, g) /\ q[k].by = NoWorker => k \in K,
           x = d => h = g, OldHeld(q, d, g)
    PROVE  OldHeld(r, d, g)
<1> SUFFICES ASSUME NEW k \in DOMAIN r, r[k].doc = d, r[k].gen # g
             PROVE  /\ r[k].by # NoWorker
                    /\ \E l \in DOMAIN r : IsLoad(r[l], d, g) /\ r[l].by = NoWorker
  BY DEF OldHeld
<1>1. r[k] \notin NewOf(x, h, ts) BY DEF NewOf
<1>2. PICK i \in K : i \in DOMAIN q /\ Kin(r[k], q[i]) BY <1>1, OriginKind
<1>3. q[i].doc = d /\ q[i].gen # g BY <1>2 DEF Kin
<1>4. q[i].by # NoWorker BY <1>2, <1>3 DEF OldHeld
<1>5. PICK l \in DOMAIN q : IsLoad(q[l], d, g) /\ q[l].by = NoWorker BY <1>2, <1>3 DEF OldHeld
<1>6. l \in K BY <1>5
<1>7. \E n \in DOMAIN r : IsLoad(r[n], d, g) /\ r[n].by = NoWorker BY <1>5, <1>6, LoadFollows
<1> QED BY <1>2, <1>4, <1>7 DEF Kin

LEMMA LoadWasIn ==
    ASSUME NEW q, NEW r, NEW K, NEW x, NEW h, NEW ts, Follows(q, r, K, NewOf(x, h, ts)),
           NEW d, NEW g, x = d => "load" \notin ts, LoadIn(r, d, g)
    PROVE  LoadIn(q, d, g)
<1>1. PICK k \in DOMAIN r : IsLoad(r[k], d, g) BY DEF LoadIn
<1>2. r[k] \notin NewOf(x, h, ts) BY <1>1 DEF NewOf, IsLoad
<1>3. PICK i \in K : i \in DOMAIN q /\ Kin(r[k], q[i]) BY <1>2, OriginKind
<1> QED BY <1>1, <1>3 DEF Kin, IsLoad, LoadIn

-----------------------------------------------------------------------------
(* Steps that take no job and finish none.  They leave a document d alone, *)
(* but for textures, pages asked for and pages no longer wanted ...        *)
Still == /\ UNCHANGED <<done, inbox, job, result>>
         /\ \A i \in Workers : pc'[i] = "ran" <=> pc[i] = "ran"
SameRecord(r, e) == /\ e.gen = r.gen /\ e.loading = r.loading /\ e.state = r.state /\ e.pdf = r.pdf
                    /\ TexFrom(e.tex, r.tex)
Spared(d, K, x, h, ts) ==
    /\ Live(d) /\ SameRecord(doc[d], doc'[d])
    /\ \A k \in DOMAIN queue : queue[k].doc = d /\ queue[k].type = "load" => k \in K
    /\ x = d => h = doc[d].gen /\ "load" \notin ts

LEMMA CameSame == ASSUME UNCHANGED <<done, inbox>> PROVE Came' = Came
  BY DEF Came

LEMMA KnownSpared ==
    ASSUME NEW K, NEW x, NEW h, NEW ts, Follows(queue, queue', K, NewOf(x, h, ts)), Still,
           NEW d, NEW g \in Nat, x = d => h = g, KnownTo(d, g)
    PROVE  KnownTo(d, g)'
<1>1. Known(queue, d, g) BY DEF KnownTo
<1>2. Known(queue', d, g) BY <1>1, KnownFollows
<1> QED BY <1>2 DEF KnownTo, Still

LEMMA BackedSpared ==
    ASSUME queue \in Seq(Queued), NEW K, NEW x, NEW h, NEW ts, Follows(queue, queue', K, NewOf(x, h, ts)), Still,
           NEW d, NEW g, doc[d].gen = g, Spared(d, K, x, h, ts), BackedAt(d, g)
    PROVE  BackedAt(d, g)'
<1>1. \A k \in DOMAIN queue : IsLoad(queue[k], d, g) => k \in K
  BY DEF Spared, IsLoad
<1>2. x = d => "load" \notin ts
  BY DEF Spared
<1>3. HowMany(queue', Loads(d, g)) = HowMany(queue, Loads(d, g))
  BY <1>1, <1>2, LoadsFollow
<1>4. Tally(d, g)' = Tally(d, g)
  BY <1>3 DEF Tally, Still
<1> QED BY <1>4 DEF BackedAt, Spared, SameRecord

LEMMA FedStill ==
    ASSUME Still, NEW d, NEW g, doc'[d].pdf = doc[d].pdf
    PROVE  /\ Fed(d, g)' <=> Fed(d, g)
           /\ LoadRan(d, g)' <=> LoadRan(d, g)
           /\ LoadCame(d, g)' <=> LoadCame(d, g)
           /\ NoneCame(d, g)' <=> NoneCame(d, g)
<1>1. Came' = Came BY CameSame DEF Still
<1>2. LoadCame(d, g)' <=> LoadCame(d, g) BY <1>1 DEF LoadCame
<1>3. NoneCame(d, g)' <=> NoneCame(d, g) BY <1>1 DEF NoneCame
<1>4. LoadRan(d, g)' <=> LoadRan(d, g) BY DEF LoadRan, Still
<1>5. Fed(d, g)' <=> Fed(d, g) BY <1>1 DEF Fed, Still
<1> QED BY <1>2, <1>3, <1>4, <1>5

LEMMA GenKept ==
    ASSUME NEW r, NEW e, NEW g, TexFrom(e.tex, r.tex), OfGen(r, g)
    PROVE  OfGen(e, g)
  BY DEF TexFrom, OfGen

LEMMA FreshSpared ==
    ASSUME queue \in Seq(Queued), NEW K, NEW x, NEW h, NEW ts, Follows(queue, queue', K, NewOf(x, h, ts)), Still,
           NEW d, NEW g, doc[d].gen = g, Spared(d, K, x, h, ts), FreshAt(d, g)
    PROVE  FreshAt(d, g)'
<1>1. \A k \in DOMAIN queue : IsLoad(queue[k], d, g) => k \in K
  BY DEF Spared, IsLoad
<1>2. (x = d => "load" \notin ts) /\ (x = d => h = g)
  BY DEF Spared
<1>3. Ordered(queue, d, g) /\ OldHeld(queue, d, g)
  BY DEF FreshAt
<1>4. Ordered(queue', d, g) BY <1>2, <1>3, OrderedFollows
<1>5. OldHeld(queue', d, g) BY <1>1, <1>2, <1>3, OldFollow
<1>6. LoadIn(queue', d, g) => LoadIn(queue, d, g) BY <1>2, LoadWasIn
<1>7. doc'[d].pdf = doc[d].pdf /\ (Settled(doc'[d]) <=> Settled(doc[d])) /\ TexFrom(doc'[d].tex, doc[d].tex)
  BY DEF Spared, SameRecord, Settled
<1>8. /\ Fed(d, g)' <=> Fed(d, g)
      /\ LoadRan(d, g)' <=> LoadRan(d, g)
      /\ LoadCame(d, g)' <=> LoadCame(d, g)
      /\ NoneCame(d, g)' <=> NoneCame(d, g)
  BY <1>7, FedStill
<1>9. Settled(doc'[d]) => OfGen(doc'[d], g) BY <1>7, GenKept DEF FreshAt
<1> QED BY <1>4, <1>5, <1>6, <1>7, <1>8, <1>9 DEF FreshAt

(* ... or begin a load of it, of generation g, after the jobs of q.        *)
Begun(d, g, q) ==
    /\ q \in Seq(Queued) /\ queue' = Append(q, LoadJob(d, g))
    /\ doc'[d].gen = g /\ doc'[d].loading = TRUE
AllOld(q, d, g) ==
    \A k \in DOMAIN q : q[k].doc = d => q[k].gen <= g /\ q[k].gen # g /\ q[k].by # NoWorker
OldCame(d, g) == \A j \in Came : j.doc = d => j.gen <= g /\ j.gen # g
OldWork(d, g) == \A i \in Workers : pc[i] = "ran" /\ job[i].doc = d => job[i].gen # g

LEMMA NewLoad ==
    ASSUME NEW d \in Docs, NEW g \in Nat
    PROVE  /\ LoadJob(d, g) \in Queued /\ LoadJob(d, g) \in Loads(d, g) /\ LoadJob(d, g).by = NoWorker
           /\ IsLoad(LoadJob(d, g), d, g)
<1>1. LoadJob(d, g) \in NewOf(d, g, {"load"}) 
  <2>1. <<>> \in Seq(Queued) OBVIOUS
  <2> QED BY <2>1, LoadExtends
<1> QED BY <1>1 DEF NewOf, Loads, IsLoad

LEMMA BegunBacked ==
    ASSUME done \in Seq(Outcomes), inbox \in Seq(Outcomes), Still, NEW d \in Docs, NEW g \in Nat, NEW q, Begun(d, g, q),
           HowMany(q, Loads(d, g)) = 0, HowMany(done, Loads(d, g)) = 0, HowMany(inbox, Loads(d, g)) = 0
    PROVE  BackedAt(d, g)'
<1>1. PICK x \in Queued : x = LoadJob(d, g) /\ x \in Loads(d, g) BY NewLoad
<1>2. q \in Seq(Queued) /\ queue' = Append(q, x) BY <1>1 DEF Begun
<1>3. HowMany(Append(q, x), Loads(d, g)) = HowMany(q, Loads(d, g)) + (IF x \in Loads(d, g) THEN 1 ELSE 0)
  BY <1>2, OneMore
<1>4. HowMany(queue', Loads(d, g)) = 1 BY <1>1, <1>2, <1>3
<1>5. Tally(d, g)' = 1 BY <1>4 DEF Tally, Still
<1> QED BY <1>5 DEF BackedAt, Begun

(* Where each job of the queue is from.                                    *)
LEMMA BegunJobs ==
    ASSUME NEW d \in Docs, NEW g \in Nat, NEW q, Begun(d, g, q)
    PROVE  /\ queue' \in Seq(Queued) /\ Len(q) \in Nat /\ DOMAIN queue' = 1 .. Len(q) + 1
           /\ \A k \in DOMAIN queue' : \/ k \in DOMAIN q /\ queue'[k] = q[k]
                                       \/ k = Len(q) + 1 /\ queue'[k] = LoadJob(d, g)
           /\ queue'[Len(q) + 1] = LoadJob(d, g) /\ Len(q) + 1 \in DOMAIN queue'
<1>1. PICK x \in Queued : x = LoadJob(d, g) BY NewLoad
<1>2. q \in Seq(Queued) /\ queue' = Append(q, x) BY <1>1 DEF Begun
<1>3. PICK r \in Seq(Queued) : r = Append(q, x) BY <1>2
<1>4. /\ Len(q) \in Nat /\ Len(r) = Len(q) + 1 /\ r[Len(q) + 1] = x /\ DOMAIN q = 1 .. Len(q)
      /\ DOMAIN r = 1 .. Len(q) + 1
      /\ \A k \in 1 .. Len(q) : r[k] = q[k]
  BY <1>2, <1>3
<1>5. \A k \in 1 .. Len(q) + 1 : k \in 1 .. Len(q) \/ k = Len(q) + 1 BY <1>4
<1> QED BY <1>1, <1>2, <1>3, <1>4, <1>5

LEMMA BegunKnown ==
    ASSUME Still, NEW d \in Docs, NEW g \in Nat, NEW q, Begun(d, g, q), Known(q, d, g), Past(done, d, g), Past(inbox, d, g)
    PROVE  KnownTo(d, g)'
<1>1. PICK x \in Queued : x = LoadJob(d, g) /\ IsLoad(x, d, g) BY NewLoad
<1>2. \A k \in DOMAIN queue' : (k \in DOMAIN q /\ queue'[k] = q[k]) \/ queue'[k] = x
  BY <1>1, BegunJobs
<1>3. x.gen <= g /\ x.gen = g BY <1>1 DEF IsLoad
<1>4. Known(queue', d, g) BY <1>2, <1>3 DEF Known
<1> QED BY <1>4 DEF KnownTo, Still

LEMMA BegunFresh ==
    ASSUME Still, NEW d \in Docs, NEW g \in Nat, NEW q, Begun(d, g, q), AllOld(q, d, g), OldCame(d, g), OldWork(d, g)
    PROVE  FreshAt(d, g)'
<1>1. PICK x \in Queued : x = LoadJob(d, g) /\ IsLoad(x, d, g) /\ x.by = NoWorker BY NewLoad
<1>2. /\ \A k \in DOMAIN queue' : (k \in DOMAIN q /\ queue'[k] = q[k]) \/ queue'[k] = x
      /\ Len(q) + 1 \in DOMAIN queue' /\ queue'[Len(q) + 1] = x
  BY <1>1, BegunJobs
<1>3. Came' = Came BY CameSame DEF Still
<1>4. Ordered(queue', d, g)
  <2> SUFFICES ASSUME NEW k \in DOMAIN queue', IsPage(queue'[k], d, g) PROVE FALSE
    BY DEF Ordered
  <2>1. queue'[k] # x BY <1>1 DEF IsPage, IsLoad
  <2> QED BY <1>2, <2>1 DEF AllOld, IsPage
<1>5. OldHeld(queue', d, g)
  <2>1. \E l \in DOMAIN queue' : IsLoad(queue'[l], d, g) /\ queue'[l].by = NoWorker
    BY <1>1, <1>2
  <2>2. ASSUME NEW k \in DOMAIN queue', queue'[k].doc = d, queue'[k].gen # g PROVE queue'[k].by # NoWorker
    <3>1. queue'[k] # x BY <1>1, <2>2 DEF IsLoad
    <3> QED BY <1>2, <2>2, <3>1 DEF AllOld
  <2> QED BY <2>1, <2>2 DEF OldHeld
<1>6. NoneCame(d, g)' /\ ~ LoadCame(d, g)'
  BY <1>3 DEF NoneCame, LoadCame, OldCame, IsPage, IsLoad
<1>7. ~ LoadRan(d, g)'
  BY DEF LoadRan, OldWork, Still, IsLoad
<1>8. ~ Settled(doc'[d]) BY DEF Begun, Settled
<1> QED BY <1>4, <1>5, <1>6, <1>7, <1>8 DEF FreshAt

LEMMA TurnDoes ==
    ASSUME TypeInv, TypeInv', NEW d \in Docs, NEW p \in Pages, TurnPage(d, p)
    PROVE  OnlyTurned(doc, doc')
<1>1. doc' = [doc EXCEPT ![d].page = p] BY DEF TurnPage
<1>2. doc' \in [Docs -> Document] /\ doc \in [Docs -> Document] BY DEF TypeInv, DocsTyped
<1>3. ASSUME NEW c \in Docs
      PROVE  /\ doc'[c].life = doc[c].life /\ doc'[c].gen = doc[c].gen /\ doc'[c].refs = doc[c].refs
             /\ doc'[c].state = doc[c].state /\ doc'[c].npages = doc[c].npages
             /\ doc'[c].pdf = doc[c].pdf /\ doc'[c].tex = doc[c].tex /\ doc'[c].mips = doc[c].mips
             /\ doc'[c].loading = doc[c].loading
  <2>1. PICK r \in Document : r = doc[c] BY <1>2
  <2>2. doc'[c] = r \/ doc'[c] = [r EXCEPT !.page = p] BY <1>1, <1>2, <2>1
  <2> QED BY <2>1, <2>2 DEF Document
<1> QED BY <1>2, <1>3 DEF OnlyTurned, Bare, TexFrom

(* Each such step is one of two kinds: one that leaves alone the documents *)
(* open after it, or one that begins a load of one of them.                *)
Leaving(K, x, h, ts) ==
    /\ Follows(queue, queue', K, NewOf(x, h, ts)) /\ Still
    /\ "render" \in ts => x \in Pdfs
    /\ \A d \in Docs : Live(d)' => Spared(d, K, x, h, ts)
Leaves == \E K, x, h, ts : Leaving(K, x, h, ts)

Starting(d, g, q, K) ==
    /\ Begun(d, g, q) /\ Follows(queue, queue', K, NewOf(d, g, {"load"})) /\ Still
    /\ \A c \in Docs : c # d /\ Live(c)' => Spared(c, K, d, g, {"load"})
    /\ d \notin Pdfs /\ (Live(d) => Blank(doc[d])) => Blank(doc'[d])
Anew(d, g, q) == AllOld(q, d, g) /\ OldCame(d, g) /\ OldWork(d, g)
Retried(d, g, q) == d \notin Pdfs /\ Live(d) /\ doc[d].gen = g /\ ~ doc[d].loading /\ q = queue
Starts == \E d \in Docs, g \in Nat : \E q, K : Starting(d, g, q, K) /\ (Anew(d, g, q) \/ Retried(d, g, q))

LEMMA StillSignal ==
    ASSUME TypeInv, NEW s, Signal(s), UNCHANGED <<done, inbox>>
    PROVE  Still
<1>1. DOMAIN pc = Workers BY DEF TypeInv, WorkTyped
<1>2. StillBusy BY <1>1, SignalStillBusy
<1>3. job' = job /\ result' = result BY DEF Signal
<1> QED BY <1>2, <1>3 DEF Still, StillBusy, AtWork

LEMMA StillSame ==
    ASSUME UNCHANGED <<done, inbox, workerVars>>
    PROVE  Still
  BY DEF Still, workerVars

(* A step of the first kind that puts nothing in the queue.                *)
LEMMA LeavesSame ==
    ASSUME TypeInv, Still, queue' = queue,
           \A d \in Docs : Live(d)' => Live(d) /\ SameRecord(doc[d], doc'[d])
    PROVE  Leaves
<1>1. queue \in Seq(Queued) BY DEF TypeInv, ListsTyped
<1>2. Extended(queue, queue, Closings) BY <1>1, ExtendedSelf
<1>3. Follows(queue, queue', DOMAIN queue, Closings) BY <1>1, <1>2, FollowsExtended DEF Closings
<1>4. Leaving(DOMAIN queue, NoDoc, 0, {"free_pdf"})
  BY <1>3, DocsAssumption DEF Leaving, Closings, Spared
<1> QED BY <1>4 DEF Leaves

LEMMA LeavesTextures ==
    ASSUME TypeInv, Still, queue' = queue, OnlyTextures(doc, doc') \/ OnlyTurned(doc, doc')
    PROVE  Leaves
<1>1. \A d \in Docs : Live(d)' => Live(d) /\ SameRecord(doc[d], doc'[d])
  BY DEF OnlyTextures, OnlyTurned, Live, SameRecord
<1> QED BY <1>1, LeavesSame

LEMMA LeavesDocs ==
    ASSUME TypeInv, Still, queue' = queue, doc' = doc
    PROVE  Leaves
<1>1. \A d \in Docs : SameRecord(doc[d], doc'[d])
  BY DEF SameRecord, TexFrom
<1> QED BY <1>1, LeavesSame DEF Live

LEMMA LeavesEndFrame ==
    ASSUME TypeInv, EndFrame
    PROVE  Leaves
<1> DEFINE S == {k \in DOMAIN queue : ~ (queue[k].doc \in ShownPdfs /\ FlickedPast(queue[k]))}
           K == S \cap DOMAIN queue
<1>1. queue' = Selected(queue, S) /\ queue \in Seq(Queued) BY EndDoes DEF TypeInv, ListsTyped
<1>2. PICK D : Pruned(D) /\ Slimmed(D, doc') BY EndDoes
<1>3. Still BY StillSame DEF EndFrame
<1>4. \A d \in Docs : Live(d)' => Live(d) /\ SameRecord(doc[d], doc'[d])
  <2> SUFFICES ASSUME NEW d \in Docs PROVE doc'[d].life = doc[d].life /\ SameRecord(doc[d], doc'[d])
    BY DEF Live
  <2>1. /\ D[d].life = doc[d].life /\ D[d].gen = doc[d].gen /\ D[d].pdf = doc[d].pdf
        /\ D[d].state = doc[d].state /\ D[d].loading = doc[d].loading /\ TexFrom(D[d].tex, doc[d].tex)
    BY <1>2 DEF Pruned
  <2>2. /\ doc'[d].life = D[d].life /\ doc'[d].gen = D[d].gen /\ doc'[d].pdf = D[d].pdf
        /\ doc'[d].state = D[d].state /\ doc'[d].loading = D[d].loading /\ TexFrom(doc'[d].tex, D[d].tex)
    BY <1>2 DEF Slimmed, OnlyTextures
  <2>3. TexFrom(doc'[d].tex, doc[d].tex) BY <2>1, <2>2 DEF TexFrom
  <2> QED BY <2>1, <2>2, <2>3 DEF SameRecord
<1>5. \A k \in DOMAIN queue : queue[k].type = "load" => k \in K
  BY DEF FlickedPast
<1>6. Follows(queue, queue', K, Closings)
  <2> HIDE DEF S
  <2> QED BY <1>1, FollowsSelected
<1> HIDE DEF K
<1>7. Leaving(K, NoDoc, 0, {"free_pdf"})
  BY <1>3, <1>4, <1>5, <1>6, DocsAssumption DEF Leaving, Closings, Spared
<1> QED BY <1>7 DEF Leaves

LEMMA CancelledFollows ==
    ASSUME NEW q \in Seq(Queued), NEW d, NEW N
    PROVE  Follows(q, Cancelled(q, d), {k \in DOMAIN q : ~ (q[k].doc = d /\ q[k].by = NoWorker)}, N)
<1> DEFINE S == {k \in DOMAIN q : ~ (q[k].doc = d /\ q[k].by = NoWorker)}
<1>1. S \cap DOMAIN q = S OBVIOUS
<1>2. Cancelled(q, d) = Selected(q, S) BY DEF Cancelled
<1> HIDE DEF S
<1>3. Follows(q, Selected(q, S), S \cap DOMAIN q, N) BY FollowsSelected
<1>4. Follows(q, Cancelled(q, d), S, N) BY <1>1, <1>2, <1>3
<1> QED BY <1>4 DEF S

LEMMA OneChanged ==
    ASSUME doc \in [Docs -> Document], NEW d, NEW e, doc' = [doc EXCEPT ![d] = e], NEW c \in Docs, c # d
    PROVE  (Live(c)' <=> Live(c)) /\ SameRecord(doc[c], doc'[c])
<1>1. doc'[c] = doc[c] OBVIOUS
<1> QED BY <1>1 DEF Live, SameRecord, TexFrom

LEMMA LeavesClose ==
    ASSUME TypeInv, NEW d \in Docs, Close(d)
    PROVE  Leaves
<1>1. PICK c, n : Closing(d, c, n) BY CloseDoes
<1>2. PICK q : q = Cancelled(queue, d) OBVIOUS
<1>3. /\ queue \in Seq(Queued) /\ doc \in [Docs -> Document] BY DEF TypeInv, ListsTyped, DocsTyped
<1>4. /\ q \in Seq(Queued) /\ c \in Document /\ queue' = q \o PdfToFree(c, n) /\ c.life = "closed"
      /\ doc' = [doc EXCEPT ![d] = Unreferenced(c, n)] /\ n \in Nat
  BY <1>1, <1>2, <1>3, CancelledFewer DEF Closing
<1> DEFINE K == {k \in DOMAIN queue : ~ (queue[k].doc = d /\ queue[k].by = NoWorker)}
<1>5. Follows(queue, q, K, Closings) BY <1>2, <1>3, CancelledFollows
<1>6. Extended(q, queue', Closings) BY <1>4, FreeExtends
<1> DEFINE ts == {"free_pdf"}
<1>7. Follows(queue, queue', K, NewOf(NoDoc, 0, ts))
  <2>1. Closings = NewOf(NoDoc, 0, ts) BY DEF Closings
  <2> HIDE DEF K, ts
  <2> QED BY <1>3, <1>5, <1>6, <2>1, FollowsMore
<1>8. ~ Live(d)'
  <2>1. Unreferenced(c, n).life # "open"
    <3>1. CASE c.refs > n BY <1>4, <3>1, Unreference
    <3>2. CASE ~ (c.refs > n)
      <4>1. Unreferenced(c, n) = NoRecord("freed") BY <3>2 DEF Unreferenced
      <4> QED BY <4>1 DEF NoRecord
    <3> QED BY <3>1, <3>2
  <2> QED BY <1>3, <1>4, <2>1 DEF Live
<1>9. Still
  <2>1. PICK s : Signal(s) BY DEF Close
  <2> QED BY <2>1, StillSignal DEF Close, Command
<1>10. ASSUME NEW e \in Docs, Live(e)' PROVE Spared(e, K, NoDoc, 0, ts)
  <2>1. e # d BY <1>8, <1>10
  <2>2. Live(e) /\ SameRecord(doc[e], doc'[e]) BY <1>3, <1>4, <1>10, <2>1, OneChanged
  <2>3. \A k \in DOMAIN queue : queue[k].doc = e => k \in K BY <2>1
  <2> QED BY <2>2, <2>3, DocsAssumption DEF Spared
<1>11. Leaving(K, NoDoc, 0, ts)
  <2>1. "render" \notin ts OBVIOUS
  <2> HIDE DEF K, ts
  <2> QED BY <1>7, <1>9, <1>10, <2>1 DEF Leaving
<1> QED BY <1>11 DEF Leaves

(* No job of a document that has not been opened, and what the workers     *)
(* have in hand is in the queue.                                           *)
LEMMA NoJobsYet ==
    ASSUME TypeInv, CountInv, NEW d \in Docs, doc[d].life = "new"
    PROVE  /\ \A k \in DOMAIN queue : queue[k].doc # d
           /\ \A k \in DOMAIN done : done[k].doc # d
           /\ \A k \in DOMAIN inbox : inbox[k].doc # d
<1>1. queue \in Seq(Queued) /\ done \in Seq(Outcomes) /\ inbox \in Seq(Outcomes)
  BY DEF TypeInv, ListsTyped
<1>2. Owed(d) = 0 BY DEF CountInv, Balanced
<1>3. HowMany(queue, JobsOf(d)) = 0 /\ HowMany(done, JobsOf(d)) = 0 /\ HowMany(inbox, JobsOf(d)) = 0
  BY <1>2, CountsAreNat DEF Owed
<1>4. /\ \A k \in DOMAIN queue : queue[k] \notin JobsOf(d)
      /\ \A k \in DOMAIN done : done[k] \notin JobsOf(d)
      /\ \A k \in DOMAIN inbox : inbox[k] \notin JobsOf(d)
  BY <1>1, <1>3, NoSpot
<1> QED BY <1>1, <1>4 DEF JobsOf

LEMMA WorkIsQueued ==
    ASSUME TypeInv, WorkHeld, Whole(queue, job), NEW i \in Workers, AtWork(i)
    PROVE  \E k \in DOMAIN queue : /\ queue[k].by = i /\ queue[k].doc = job[i].doc /\ queue[k].type = job[i].type
                                   /\ queue[k].gen = job[i].gen
<1>1. PICK k \in DOMAIN queue : InHand(queue[k], job[i], i) BY DEF WorkHeld
<1>2. queue[k].by = i /\ i # NoWorker BY <1>1, WorkersAssumption DEF InHand
<1>3. queue[k] = [job[i] EXCEPT !.by = i] BY <1>2 DEF Whole
<1>4. PICK j \in Job : j = job[i] BY DEF TypeInv, WorkTyped
<1>5. queue[k].gen = j.gen BY <1>3, <1>4 DEF Job
<1> QED BY <1>1, <1>2, <1>4, <1>5 DEF InHand

LEMMA StartsOpen ==
    ASSUME TypeInv, WorkHeld, CountInv, KindInv, NEW d \in Docs, NEW w \in Windows, Open(d, w)
    PROVE  Starts
<1>1. PICK e \in Document : /\ e.gen = 1 /\ e.loading = TRUE /\ Blank(e)
                            /\ queue' = Append(queue, LoadJob(d, 1)) /\ doc' = [doc EXCEPT ![d] = e]
  BY OpenDoes
<1>2. queue \in Seq(Queued) /\ doc \in [Docs -> Document] /\ 1 \in Nat /\ doc[d].life = "new"
  BY DEF TypeInv, ListsTyped, DocsTyped, Open
<1>3. doc'[d] = e BY <1>1, <1>2
<1>4. Begun(d, 1, queue) BY <1>1, <1>2, <1>3 DEF Begun
<1>5. Follows(queue, queue', DOMAIN queue, NewOf(d, 1, {"load"}))
  <2>1. Extended(queue, queue', NewOf(d, 1, {"load"})) BY <1>1, <1>2, LoadExtends
  <2> QED BY <1>2, <2>1, FollowsExtended
<1>6. Still
  <2>1. PICK s : Signal(s) BY DEF Open, Submit
  <2> QED BY <2>1, StillSignal DEF Open, Command
<1>7. ASSUME NEW c \in Docs, c # d, Live(c)' PROVE Spared(c, DOMAIN queue, d, 1, {"load"})
  <2>1. Live(c) /\ SameRecord(doc[c], doc'[c]) BY <1>1, <1>2, <1>7, OneChanged
  <2> QED BY <1>7, <2>1 DEF Spared
<1>8. Blank(doc'[d]) BY <1>1, <1>3
<1>9. Starting(d, 1, queue, DOMAIN queue)
  BY <1>4, <1>5, <1>6, <1>7, <1>8 DEF Starting
<1>10. AllOld(queue, d, 1) BY <1>2, NoJobsYet DEF AllOld
<1>11. OldCame(d, 1) BY <1>2, NoJobsYet DEF OldCame, Came
<1>12. OldWork(d, 1)
  <2> SUFFICES ASSUME NEW i \in Workers, pc[i] = "ran", job[i].doc = d PROVE FALSE
    BY DEF OldWork
  <2>1. PICK k \in DOMAIN queue : queue[k].doc = d BY WorkIsQueued DEF AtWork, KindInv
  <2> QED BY <1>2, <2>1, NoJobsYet
<1>13. Anew(d, 1, queue) BY <1>10, <1>11, <1>12 DEF Anew
<1> QED BY <1>2, <1>9, <1>13 DEF Starts

LEMMA StartsReload ==
    ASSUME TypeInv, WorkHeld, KindInv, NEW d \in Docs, Reload(d)
    PROVE  Starts
<1>1. PICK e \in Document : /\ e.gen = doc[d].gen + 1 /\ e.loading = TRUE /\ e.tex = doc[d].tex
                            /\ queue' = Append(Cancelled(queue, d), LoadJob(d, e.gen))
                            /\ doc' = [doc EXCEPT ![d] = e]
  BY ReloadDoes
<1>2. queue \in Seq(Queued) /\ doc \in [Docs -> Document] /\ Live(d)
  BY DEF TypeInv, ListsTyped, DocsTyped, Reload
<1>3. PICK n \in Nat : n = doc[d].gen
  <2>1. PICK r \in Document : r = doc[d] BY <1>2
  <2> QED BY <2>1 DEF Document
<1>4. PICK g \in Nat : g = n + 1 OBVIOUS
<1>5. doc'[d] = e /\ e.gen = g BY <1>1, <1>2, <1>3, <1>4
<1>6. PICK q \in Seq(Queued) : q = Cancelled(queue, d) BY <1>2, CancelledFewer
<1>7. Begun(d, g, q) BY <1>1, <1>5, <1>6 DEF Begun
<1> DEFINE K == {k \in DOMAIN queue : ~ (queue[k].doc = d /\ queue[k].by = NoWorker)}
<1>8. Follows(queue, q, K, NewOf(d, g, {"load"})) BY <1>2, <1>6, CancelledFollows
<1>9. Extended(q, queue', NewOf(d, g, {"load"})) BY <1>1, <1>5, <1>6, LoadExtends
<1>10. Follows(queue, queue', K, NewOf(d, g, {"load"}))
  <2> HIDE DEF K
  <2> QED BY <1>2, <1>8, <1>9, FollowsMore
<1>11. Still
  <2>1. PICK s : Signal(s) BY DEF Reload
  <2> QED BY <2>1, StillSignal DEF Reload, Command
<1>12. ASSUME NEW c \in Docs, c # d, Live(c)' PROVE Spared(c, K, d, g, {"load"})
  <2>1. Live(c) /\ SameRecord(doc[c], doc'[c]) BY <1>1, <1>2, <1>12, OneChanged
  <2>2. \A k \in DOMAIN queue : queue[k].doc = c => k \in K BY <1>12
  <2> QED BY <1>12, <2>1, <2>2 DEF Spared
<1>13. Live(d) => (Blank(doc[d]) <=> Blank(doc'[d])) BY <1>1, <1>5 DEF Blank
<1>14. Starting(d, g, q, K)
  <2> HIDE DEF K
  <2> QED BY <1>2, <1>7, <1>10, <1>11, <1>12, <1>13 DEF Starting
<1>15. KnownTo(d, n) BY <1>2, <1>3 DEF KindInv
<1>16. AllOld(q, d, g)
  <2> SUFFICES ASSUME NEW k \in DOMAIN q, q[k].doc = d
               PROVE  q[k].gen <= g /\ q[k].gen # g /\ q[k].by # NoWorker
    BY DEF AllOld
  <2>1. Follows(queue, q, K, NewOf(d, g, {})) BY <1>2, <1>6, CancelledFollows
  <2>2. q[k] \notin NewOf(d, g, {}) BY DEF NewOf
  <2>3. PICK l \in K : l \in DOMAIN queue /\ Kin(q[k], queue[l])
    <3> HIDE DEF K
    <3> QED BY <2>1, <2>2, OriginKind
  <2>4. queue[l].doc = d /\ queue[l].gen = q[k].gen /\ queue[l].by = q[k].by BY <2>3 DEF Kin
  <2>5. queue[l].gen <= n /\ queue[l].by # NoWorker BY <1>15, <2>3, <2>4 DEF KnownTo, Known
  <2>6. queue[l].gen \in Nat BY <1>2, <2>3 DEF Queued, Job
  <2> QED BY <1>4, <2>4, <2>5, <2>6
<1>17. OldCame(d, g)
  <2> SUFFICES ASSUME NEW j \in Came, j.doc = d PROVE j.gen <= g /\ j.gen # g
    BY DEF OldCame
  <2>1. j.gen <= n BY <1>15 DEF KnownTo, Past, Came
  <2>2. j \in Outcomes BY DEF Came, TypeInv, ListsTyped
  <2>3. j.gen \in Nat BY <2>2 DEF Outcomes, FinishedJob
  <2> QED BY <1>4, <2>1, <2>3
<1>18. OldWork(d, g)
  <2> SUFFICES ASSUME NEW i \in Workers, pc[i] = "ran", job[i].doc = d PROVE job[i].gen # g
    BY DEF OldWork
  <2>1. PICK k \in DOMAIN queue : queue[k].doc = d /\ queue[k].gen = job[i].gen
    BY WorkIsQueued DEF AtWork, KindInv
  <2>2. queue[k].gen <= n BY <1>15, <2>1 DEF KnownTo, Known
  <2>3. queue[k].gen \in Nat BY <1>2, <2>1 DEF Queued, Job
  <2> QED BY <1>4, <2>1, <2>2, <2>3
<1>19. Anew(d, g, q) BY <1>16, <1>17, <1>18 DEF Anew
<1> HIDE DEF K
<1> QED BY <1>14, <1>19 DEF Starts

LEMMA DrawKinds ==
    ASSUME TypeInv, NEW w \in Windows, DrawPlace(w), Live(view[w])
    PROVE  Leaves \/ Starts
<1>1. PICK d \in Docs : d = view[w] /\ \E e : Drawn(d, e) BY DrawDoes
<1>2. PICK e : Drawn(d, e) BY <1>1
<1>3. queue \in Seq(Queued) /\ doc \in [Docs -> Document] BY DEF TypeInv, ListsTyped, DocsTyped
<1>4. PICK r \in Document : r = doc[d] BY <1>3
<1>5. /\ e \in Document /\ e.gen = r.gen /\ e.pdf = r.pdf /\ e.state = r.state /\ TexFrom(e.tex, r.tex)
      /\ e.life = r.life /\ doc' = [doc EXCEPT ![d] = e]
  BY <1>2, <1>4 DEF Drawn
<1>6. doc'[d] = e BY <1>3, <1>5
<1>7. Still
  <2>1. PICK s : Signal(s) BY DEF DrawPlace, Submit
  <2> QED BY <2>1, StillSignal DEF DrawPlace
<1>8. ASSUME NEW c \in Docs, e.loading = r.loading \/ c # d, Live(c)' PROVE Live(c) /\ SameRecord(doc[c], doc'[c])
  <2>1. CASE c = d BY <1>4, <1>5, <1>6, <1>8, <2>1 DEF Live, SameRecord
  <2>2. CASE c # d BY <1>3, <1>5, <1>8, <2>2, OneChanged
  <2> QED BY <2>1, <2>2
<1>9. PICK g \in Nat : g = r.gen BY DEF Document
<1>10. CASE /\ d \notin Pdfs /\ r.state = "ready" /\ ~ r.loading /\ e.loading = TRUE
            /\ queue' = Append(queue, LoadJob(d, r.gen))
  <2>1. Begun(d, g, queue) BY <1>3, <1>5, <1>6, <1>9, <1>10 DEF Begun
  <2>2. Follows(queue, queue', DOMAIN queue, NewOf(d, g, {"load"}))
    <3>1. Extended(queue, queue', NewOf(d, g, {"load"})) BY <1>3, <1>9, <1>10, LoadExtends
    <3> QED BY <1>3, <3>1, FollowsExtended
  <2>3. ASSUME NEW c \in Docs, c # d, Live(c)' PROVE Spared(c, DOMAIN queue, d, g, {"load"})
    BY <1>8, <2>3 DEF Spared
  <2>4. Blank(doc[d]) => Blank(doc'[d]) BY <1>4, <1>5, <1>6 DEF Blank, TexFrom
  <2>5. Starting(d, g, queue, DOMAIN queue) BY <1>1, <1>7, <2>1, <2>2, <2>3, <2>4 DEF Starting
  <2>6. Retried(d, g, queue) BY <1>1, <1>4, <1>9, <1>10 DEF Retried
  <2> QED BY <2>5, <2>6 DEF Starts
<1>11. CASE d \in Pdfs /\ e.loading = r.loading /\ \E n \in Widths : queue' = Requests(d, n)
  <2>1. Extended(queue, queue', NewOf(d, g, {"render"})) BY <1>3, <1>4, <1>9, <1>11, RequestsExtend
  <2>2. Follows(queue, queue', DOMAIN queue, NewOf(d, g, {"render"})) BY <1>3, <2>1, FollowsExtended
  <2>3. ASSUME NEW c \in Docs, Live(c)' PROVE Spared(c, DOMAIN queue, d, g, {"render"})
    BY <1>4, <1>8, <1>9, <1>11, <2>3 DEF Spared
  <2>4. Leaving(DOMAIN queue, d, g, {"render"}) BY <1>7, <1>11, <2>2, <2>3 DEF Leaving
  <2> QED BY <2>4 DEF Leaves
<1>12. CASE e.loading = r.loading /\ queue' = queue
  BY <1>7, <1>8, <1>12, LeavesSame
<1> QED BY <1>2, <1>4, <1>10, <1>11, <1>12 DEF Drawn

(* Every step is of a worker taking, doing or ending a job, of the main    *)
(* thread taking or applying results, or of these kinds.                   *)
LEMMA Kinds ==
    ASSUME TypeInv, TypeInv', WorkHeld, CountInv, KindInv, [Next]_vars
    PROVE  \/ \E i \in Workers : Take(i) \/ Run(i) \/ Finish(i)
           \/ Poll \/ ApplyResult \/ Leaves \/ Starts
<1>1. ASSUME NEW i \in Workers, Sleep(i) \/ Exit(i) PROVE Leaves
  <2>1. UNCHANGED <<docVars, lockVars, mainVars, job, result>> BY <1>1 DEF Sleep, Exit
  <2>2. pc' = [pc EXCEPT ![i] = "wait"] \/ pc' = [pc EXCEPT ![i] = "exited"] BY <1>1 DEF Sleep, Exit
  <2>3. pc[i] = "loop" /\ DOMAIN pc = Workers BY <1>1 DEF Sleep, Exit, TypeInv, WorkTyped
  <2>4. Still BY <2>1, <2>2, <2>3 DEF Still, lockVars, mainVars
  <2> QED BY <2>1, <2>4, LeavesDocs DEF docVars, lockVars
<1>2. CASE User
  <2>1. ASSUME Command, UNCHANGED workerVars PROVE Still
    BY <2>1, StillSame DEF Command
  <2>2. ASSUME NEW d \in Docs, NEW w \in Windows, Open(d, w) PROVE Starts BY <2>2, StartsOpen
  <2>3. ASSUME NEW d \in Docs, Close(d) PROVE Leaves BY <2>3, LeavesClose
  <2>4. ASSUME NEW d \in Docs, Reload(d) PROVE Starts BY <2>4, StartsReload
  <2>5. ASSUME NEW d \in Docs, NEW p \in Pages, TurnPage(d, p) PROVE Leaves
    <3>1. Still /\ queue' = queue BY <2>1, <2>5 DEF TurnPage
    <3>2. OnlyTurned(doc, doc') BY <2>5, TurnDoes
    <3> QED BY <3>1, <3>2, LeavesTextures
  <2>6. ASSUME NEW w \in Windows, NEW d \in Docs \cup {NoDoc}, Show(w, d) PROVE Leaves
    BY <2>1, <2>6, LeavesDocs DEF Show
  <2>7. ASSUME NEW w \in Windows, NEW n \in Widths, Resize(w, n) PROVE Leaves
    BY <2>1, <2>7, LeavesDocs DEF Resize
  <2>8. CASE DeviceReset
    <3>1. doc' = Without(doc, Textures(doc)) /\ queue' = queue /\ Still BY <2>1, <2>8 DEF DeviceReset
    <3>2. OnlyTextures(doc, doc') BY <3>1, WithoutTyped DEF TypeInv, DocsTyped
    <3> QED BY <3>1, <3>2, LeavesTextures
  <2>9. CASE Shutdown
    <3>1. /\ UNCHANGED <<docVars, inbox, queue, done, job, result>> /\ pc' = Woken(pc)
      BY <2>9 DEF Shutdown
    <3>2. Still BY <3>1 DEF Still, Woken
    <3> QED BY <3>1, <3>2, LeavesDocs DEF docVars
  <2> QED BY <1>2, <2>2, <2>3, <2>4, <2>5, <2>6, <2>7, <2>8, <2>9 DEF User
<1>3. CASE Main
  <2>1. CASE StartFrame
    <3>1. OnlyTurned(doc, doc') /\ UNCHANGED <<inbox, lockVars, workerVars>> BY <2>1, FrameStarts
    <3>2. Still /\ queue' = queue BY <3>1, StillSame DEF lockVars
    <3> QED BY <3>1, <3>2, LeavesTextures
  <2>2. ASSUME NEW w \in Windows, DrawPlace(w) PROVE Leaves \/ Starts
    <3>1. Live(view[w]) BY <2>2 DEF CountInv, ShownAreLive, DrawPlace, TypeInv, MainTyped, Placed
    <3> QED BY <2>2, <3>1, DrawKinds
  <2>3. CASE EndFrame BY <2>3, LeavesEndFrame
  <2>4. CASE Stop
    <3>1. /\ doc' = Without(doc, Textures(doc)) /\ UNCHANGED <<inbox, lockVars, workerVars>>
      BY <2>4 DEF Stop
    <3>2. Still /\ queue' = queue BY <3>1, StillSame DEF lockVars
    <3>3. OnlyTextures(doc, doc') BY <3>1, WithoutTyped DEF TypeInv, DocsTyped
    <3> QED BY <3>2, <3>3, LeavesTextures
  <2> QED BY <1>3, <2>1, <2>2, <2>3, <2>4 DEF Main
<1>4. CASE UNCHANGED vars
  <2>1. UNCHANGED <<doc, inbox, queue, done, workerVars>> BY <1>4 DEF vars, docVars, mainVars, lockVars
  <2>2. Still BY <2>1, StillSame
  <2> QED BY <2>1, <2>2, LeavesDocs
<1> QED BY <1>1, <1>2, <1>3, <1>4 DEF Next, Worker

LEMMA NoSuch ==
    ASSUME NEW q, NEW X, \A k \in DOMAIN q : q[k] \notin X
    PROVE  HowMany(q, X) = 0
<1>1. Spots(q, X) = {} BY DEF Spots
<1> QED BY <1>1, FS_EmptySet DEF HowMany

LEMMA GenOf ==
    ASSUME TypeInv, NEW d \in Docs
    PROVE  doc[d].gen \in Nat /\ doc[d] \in Document
<1>1. PICK r \in Document : r = doc[d] BY DEF TypeInv, DocsTyped
<1> QED BY <1>1 DEF Document

(* What a document spared by a step keeps.                                 *)
LEMMA SparedKeeps ==
    ASSUME TypeInv, KindInv, BackInv, FreshInv, NEW K, NEW x, NEW h, NEW ts,
           Follows(queue, queue', K, NewOf(x, h, ts)), Still, NEW d \in Docs, Spared(d, K, x, h, ts)
    PROVE  /\ KnownTo(d, doc[d].gen)' /\ BackedAt(d, doc[d].gen)'
           /\ d \in Pdfs => FreshAt(d, doc[d].gen)'
           /\ d \notin Pdfs => Blank(doc[d])'
<1>1. PICK g \in Nat : g = doc[d].gen BY GenOf
<1>2. doc'[d].gen = g /\ Live(d) /\ TexFrom(doc'[d].tex, doc[d].tex) BY <1>1 DEF Spared, SameRecord
<1>3. KnownTo(d, g)'
  <2>1. KnownTo(d, g) BY <1>1, <1>2 DEF KindInv
  <2>2. x = d => h = g BY <1>1 DEF Spared
  <2> QED BY <2>1, <2>2, KnownSpared
<1>4. queue \in Seq(Queued) BY DEF TypeInv, ListsTyped
<1>5. BackedAt(d, g)'
  <2>1. BackedAt(d, g) BY <1>1, <1>2 DEF BackInv
  <2> QED BY <1>1, <1>4, <2>1, BackedSpared
<1>6. d \in Pdfs => FreshAt(d, g)'
  <2>1. d \in Pdfs => FreshAt(d, g) BY <1>1, <1>2 DEF FreshInv
  <2> QED BY <1>1, <1>4, <2>1, FreshSpared
<1>7. d \notin Pdfs => Blank(doc'[d])
  <2>1. d \notin Pdfs => Blank(doc[d]) BY <1>2 DEF KindInv
  <2> QED BY <1>2, <2>1 DEF Blank, TexFrom
<1> QED BY <1>2, <1>3, <1>5, <1>6, <1>7

FollowInv == KindInv /\ BackInv /\ FreshInv
Followable(d) == /\ KnownTo(d, doc[d].gen) /\ BackedAt(d, doc[d].gen)
                 /\ d \in Pdfs => FreshAt(d, doc[d].gen)
                 /\ d \notin Pdfs => Blank(doc[d])
LEMMA FollowsAll ==
    ASSUME Whole(queue', job'), Sorted(queue'), OfPdfs(done'), OfPdfs(inbox'),
           \A d \in Docs : Live(d)' => Followable(d)'
    PROVE  FollowInv'
  BY DocsAssumption DEF FollowInv, KindInv, BackInv, FreshInv, Followable

LEMMA FollowLeaves ==
    ASSUME TypeInv, TypeInv', FollowInv, Leaves
    PROVE  FollowInv'
<1>1. PICK K, x, h, ts : Leaving(K, x, h, ts) BY DEF Leaves
<1>2. /\ Follows(queue, queue', K, NewOf(x, h, ts)) /\ Still /\ ("render" \in ts => x \in Pdfs)
      /\ UNCHANGED <<done, inbox, job>>
  BY <1>1 DEF Leaving, Still
<1>3. Whole(queue, job) /\ Sorted(queue) /\ OfPdfs(done) /\ OfPdfs(inbox) BY DEF FollowInv, KindInv
<1>4. Whole(queue', job') BY <1>2, <1>3, WholeFollows
<1>5. Sorted(queue') BY <1>2, <1>3, SortedFollows
<1>6. OfPdfs(done') /\ OfPdfs(inbox') BY <1>2, <1>3
<1>7. ASSUME NEW d \in Docs, Live(d)' PROVE Followable(d)'
  <2>1. Spared(d, K, x, h, ts) BY <1>1, <1>7 DEF Leaving
  <2>2. KindInv /\ BackInv /\ FreshInv BY DEF FollowInv
  <2> QED BY <1>2, <2>1, <2>2, SparedKeeps DEF Followable
<1> QED BY <1>4, <1>5, <1>6, <1>7, FollowsAll

LEMMA FollowStarts ==
    ASSUME TypeInv, TypeInv', FollowInv, Starts
    PROVE  FollowInv'
<1>1. PICK d \in Docs, g \in Nat : \E q, K : Starting(d, g, q, K) /\ (Anew(d, g, q) \/ Retried(d, g, q))
  BY DEF Starts
<1>2. PICK q, K : Starting(d, g, q, K) /\ (Anew(d, g, q) \/ Retried(d, g, q)) BY <1>1
<1> DEFINE ts == {"load"}
<1>3. /\ Follows(queue, queue', K, NewOf(d, g, ts)) /\ Still /\ Begun(d, g, q)
      /\ UNCHANGED <<done, inbox, job>>
  BY <1>2 DEF Starting, Still
<1>4. Whole(queue, job) /\ Sorted(queue) /\ OfPdfs(done) /\ OfPdfs(inbox) BY DEF FollowInv, KindInv
<1>5. "render" \in ts => d \in Pdfs OBVIOUS
<1>6. Whole(queue', job')
  <2> HIDE DEF ts
  <2> QED BY <1>3, <1>4, WholeFollows
<1>7. Sorted(queue')
  <2> HIDE DEF ts
  <2> QED BY <1>3, <1>4, <1>5, SortedFollows
<1>8. OfPdfs(done') /\ OfPdfs(inbox') BY <1>3, <1>4
<1>9. ASSUME NEW c \in Docs, Live(c)', c # d PROVE Followable(c)'
  <2>1. Spared(c, K, d, g, ts) BY <1>2, <1>9 DEF Starting
  <2>2. KindInv /\ BackInv /\ FreshInv BY DEF FollowInv
  <2> HIDE DEF ts
  <2> QED BY <1>3, <2>1, <2>2, SparedKeeps DEF Followable
<1>10. done \in Seq(Outcomes) /\ inbox \in Seq(Outcomes) /\ q \in Seq(Queued) /\ queue \in Seq(Queued)
  BY <1>3 DEF TypeInv, ListsTyped, Begun
<1>11. CASE Anew(d, g, q)
  <2>1. AllOld(q, d, g) /\ OldCame(d, g) /\ OldWork(d, g) BY <1>11 DEF Anew
  <2>2. /\ HowMany(q, Loads(d, g)) = 0 /\ HowMany(done, Loads(d, g)) = 0 /\ HowMany(inbox, Loads(d, g)) = 0
    <3>1. \A k \in DOMAIN q : q[k] \notin Loads(d, g) BY <2>1 DEF AllOld, Loads, IsLoad
    <3>2. \A k \in DOMAIN done : done[k] \notin Loads(d, g) BY <2>1 DEF OldCame, Came, Loads, IsLoad
    <3>3. \A k \in DOMAIN inbox : inbox[k] \notin Loads(d, g) BY <2>1 DEF OldCame, Came, Loads, IsLoad
    <3> QED BY <3>1, <3>2, <3>3, NoSuch
  <2>3. BackedAt(d, g)' BY <1>3, <1>10, <2>2, BegunBacked
  <2>4. Known(q, d, g) BY <2>1 DEF Known, AllOld
  <2>5. Past(done, d, g) /\ Past(inbox, d, g) BY <2>1 DEF Past, OldCame, Came
  <2>6. KnownTo(d, g)' BY <1>3, <2>4, <2>5, BegunKnown
  <2>7. FreshAt(d, g)' BY <1>3, <2>1, BegunFresh
  <2>8. Live(d)' /\ d \notin Pdfs => Blank(doc'[d])
    BY <1>2 DEF Starting, FollowInv, KindInv
  <2>9. Live(d)' => Followable(d)'
    BY <1>3, <2>3, <2>6, <2>7, <2>8 DEF Followable, Begun
  <2> QED BY <1>6, <1>7, <1>8, <1>9, <2>9, FollowsAll
<1>12. CASE Retried(d, g, q)
  <2>1. d \notin Pdfs /\ Live(d) /\ doc[d].gen = g /\ ~ doc[d].loading /\ q = queue BY <1>12 DEF Retried
  <2>2. BackedAt(d, g) /\ KnownTo(d, g) BY <2>1 DEF FollowInv, KindInv, BackInv
  <2>3. Tally(d, g) = 0 BY <2>1, <2>2 DEF BackedAt
  <2>4. /\ HowMany(q, Loads(d, g)) = 0 /\ HowMany(done, Loads(d, g)) = 0 /\ HowMany(inbox, Loads(d, g)) = 0
    <3>1. /\ HowMany(queue, Loads(d, g)) \in Nat /\ HowMany(done, Loads(d, g)) \in Nat
          /\ HowMany(inbox, Loads(d, g)) \in Nat
      BY <1>10, SpotsFinite
    <3> QED BY <2>1, <2>3, <3>1 DEF Tally
  <2>5. BackedAt(d, g)' BY <1>3, <1>10, <2>4, BegunBacked
  <2>6. KnownTo(d, g)' BY <1>3, <2>1, <2>2, BegunKnown DEF KnownTo
  <2>7. Blank(doc'[d])
    BY <1>2, <2>1 DEF Starting, FollowInv, KindInv
  <2>8. Followable(d)'
    BY <1>3, <2>1, <2>5, <2>6, <2>7 DEF Followable, Begun
  <2> QED BY <1>6, <1>7, <1>8, <1>9, <2>8, FollowsAll
<1> QED BY <1>2, <1>11, <1>12

(* A poll moves what is done to the results to be applied.                 *)
LEMMA PollMoves ==
    ASSUME TypeInv, CountInv, Poll
    PROVE  /\ UNCHANGED <<doc, queue, job, result, pc>>
           /\ done' = <<>> /\ inbox = <<>> /\ done \in Seq(Outcomes)
           /\ inbox' = [i \in 1 .. Len(done) |-> done[(Len(done) - i) + 1]]
           /\ {inbox'[k] : k \in DOMAIN inbox'} = {done[k] : k \in DOMAIN done}
<1>1. /\ UNCHANGED <<doc, queue, job, result, pc>> /\ done' = <<>> /\ inbox = <<>> /\ done \in Seq(Outcomes)
      /\ inbox' = Reverse(done)
  BY DEF Poll, docVars, workerVars, TypeInv, ListsTyped, CountInv, Emptied
<1>2. inbox' = [i \in 1 .. Len(done) |-> done[(Len(done) - i) + 1]] BY <1>1 DEF Reverse
<1>3. DOMAIN inbox' = 1 .. Len(done) /\ DOMAIN done = 1 .. Len(done) /\ Len(done) \in Nat BY <1>1, <1>2
<1>4. ASSUME NEW k \in 1 .. Len(done)
      PROVE  \E m \in 1 .. Len(done) : inbox'[k] = done[m] /\ inbox'[m] = done[k]
  <2>1. PICK m : m = (Len(done) - k) + 1 OBVIOUS
  <2>2. m \in 1 .. Len(done) /\ (Len(done) - m) + 1 = k BY <1>3, <2>1
  <2>3. inbox'[k] = done[m] BY <1>2, <2>1
  <2>4. inbox'[m] = done[k] BY <1>2, <2>2
  <2> QED BY <2>2, <2>3, <2>4
<1>5. \A k \in 1 .. Len(done) : inbox'[k] \in {done[m] : m \in 1 .. Len(done)} /\ done[k] \in {inbox'[m] : m \in 1 .. Len(done)}
  BY <1>4
<1>6. {inbox'[k] : k \in 1 .. Len(done)} = {done[k] : k \in 1 .. Len(done)}
  <2>1. \A x \in {inbox'[k] : k \in 1 .. Len(done)} : x \in {done[k] : k \in 1 .. Len(done)} BY <1>5
  <2>2. \A x \in {done[k] : k \in 1 .. Len(done)} : x \in {inbox'[k] : k \in 1 .. Len(done)} BY <1>5
  <2> QED BY <2>1, <2>2
<1> QED BY <1>1, <1>2, <1>3, <1>6

LEMMA CameKinds ==
    ASSUME NEW d, NEW g
    PROVE  /\ OfPdfs(done) /\ OfPdfs(inbox) <=> \A j \in Came : j.type = "render" => j.doc \in Pdfs
           /\ Past(done, d, g) /\ Past(inbox, d, g) <=> \A j \in Came : j.doc = d => j.gen <= g
  BY DEF Came, OfPdfs, Past

LEMMA CameKindsLater ==
    ASSUME NEW d, NEW g
    PROVE  /\ (\A j \in Came' : j.type = "render" => j.doc \in Pdfs) => OfPdfs(done') /\ OfPdfs(inbox')
           /\ (\A j \in Came' : j.doc = d => j.gen <= g) => Past(done', d, g) /\ Past(inbox', d, g)
  BY DEF Came, OfPdfs, Past

LEMMA FollowPoll ==
    ASSUME TypeInv, TypeInv', CountInv, FollowInv, Poll
    PROVE  FollowInv'
<1>1. UNCHANGED <<doc, queue, job, result, pc>> BY PollMoves
<1>2. Came' = Came
  <2>1. done' = <<>> /\ inbox = <<>> /\ {inbox'[k] : k \in DOMAIN inbox'} = {done[k] : k \in DOMAIN done}
    BY PollMoves
  <2>2. {done'[k] : k \in DOMAIN done'} = {} /\ {inbox[k] : k \in DOMAIN inbox} = {} BY <2>1
  <2> QED BY <2>1, <2>2 DEF Came
<1>3. Whole(queue', job') /\ Sorted(queue') BY <1>1 DEF FollowInv, KindInv
<1>4. OfPdfs(done') /\ OfPdfs(inbox')
  BY <1>2, CameKinds, CameKindsLater DEF FollowInv, KindInv
<1>5. ASSUME NEW d \in Docs, Live(d)' PROVE Followable(d)'
  <2>1. PICK g \in Nat : g = doc[d].gen BY GenOf
  <2>2. Live(d) /\ KnownTo(d, g) /\ BackedAt(d, g) /\ (d \in Pdfs => FreshAt(d, g)) /\ (d \notin Pdfs => Blank(doc[d]))
    BY <1>1, <1>5, <2>1 DEF Live, FollowInv, KindInv, BackInv, FreshInv
  <2>3. KnownTo(d, g)'
    <3>1. Past(done', d, g) /\ Past(inbox', d, g) BY <1>2, <2>2, CameKinds, CameKindsLater DEF KnownTo
    <3> QED BY <1>1, <2>2, <3>1 DEF KnownTo
  <2>4. BackedAt(d, g)'
    <3>1. /\ inbox = <<>> /\ done' = <<>> /\ done \in Seq(Outcomes)
          /\ inbox' = [i \in 1 .. Len(done) |-> done[(Len(done) - i) + 1]]
      BY PollMoves
    <3>2. HowMany(inbox', Loads(d, g)) = HowMany(done, Loads(d, g)) BY <3>1, ReversedCount
    <3>3. HowMany(<<>>, Loads(d, g)) = 0 BY NoneInEmpty
    <3>4. HowMany(queue, Loads(d, g)) \in Nat /\ HowMany(done, Loads(d, g)) \in Nat
      BY SpotsFinite DEF TypeInv, ListsTyped
    <3>5. Tally(d, g)' = HowMany(queue, Loads(d, g)) + 0 + HowMany(done, Loads(d, g))
      BY <1>1, <3>1, <3>2, <3>3 DEF Tally
    <3>6. Tally(d, g) = HowMany(queue, Loads(d, g)) + HowMany(done, Loads(d, g)) + 0
      BY <3>1, <3>3 DEF Tally
    <3>7. Tally(d, g)' = Tally(d, g) BY <3>4, <3>5, <3>6
    <3> QED BY <1>1, <2>2, <3>7 DEF BackedAt
  <2>5. d \in Pdfs => FreshAt(d, g)'
    <3>1. /\ Fed(d, g)' <=> Fed(d, g)
          /\ LoadRan(d, g)' <=> LoadRan(d, g)
          /\ LoadCame(d, g)' <=> LoadCame(d, g)
          /\ NoneCame(d, g)' <=> NoneCame(d, g)
      BY <1>1, <1>2 DEF Fed, LoadRan, LoadCame, NoneCame
    <3> QED BY <1>1, <2>2, <3>1 DEF FreshAt
  <2> QED BY <1>1, <2>1, <2>2, <2>3, <2>4, <2>5 DEF Followable
<1> QED BY <1>3, <1>4, <1>5, FollowsAll

-----------------------------------------------------------------------------
(* Taking a job.  A page is not taken while the load of its document       *)
(* waits, nor a load while another job of its document is in hand.         *)
Taking(i, k) ==
    /\ k \in DOMAIN queue /\ queue[k].by = NoWorker /\ queue[k].doc \notin busy
    /\ \A m \in Runnable : queue[k].prio < queue[m].prio \/ (queue[k].prio = queue[m].prio /\ k <= m)
    /\ CanRun(queue[k])
    /\ DOMAIN queue' = DOMAIN queue
    /\ \A m \in DOMAIN queue : m # k => queue'[m] = queue[m]
    /\ queue'[k] = [queue[k] EXCEPT !.by = i] /\ queue'[k].by = i
    /\ \A m \in DOMAIN queue : /\ queue'[m].doc = queue[m].doc /\ queue'[m].type = queue[m].type
                               /\ queue'[m].gen = queue[m].gen /\ queue'[m].page = queue[m].page
                               /\ queue'[m].prio = queue[m].prio
    /\ job'[i] = queue[k] /\ \A n \in Workers : n # i => job'[n] = job[n]
    /\ \A n \in Workers : pc'[n] = "ran" <=> pc[n] = "ran"
    /\ ~ AtWork(i)
    /\ UNCHANGED <<doc, done, inbox, result>>

LEMMA TakeDoes ==
    ASSUME TypeInv, NEW i \in Workers, Take(i)
    PROVE  \E k : Taking(i, k)
<1>1. PICK k \in Runnable :
         /\ job' = [job EXCEPT ![i] = queue[k]]
         /\ queue' = [queue EXCEPT ![k].by = i]
         /\ \A m \in Runnable : queue[k].prio < queue[m].prio \/ (queue[k].prio = queue[m].prio /\ k <= m)
  BY DEF Take
<1>2. pc' = [pc EXCEPT ![i] = "run"] /\ pc[i] = "loop" /\ UNCHANGED <<doc, done, inbox, result>>
  BY DEF Take, docVars, mainVars
<1>3. /\ queue \in Seq(Queued) /\ k \in DOMAIN queue /\ CanRun(queue[k])
      /\ queue[k].by = NoWorker /\ queue[k].doc \notin busy
      /\ DOMAIN pc = Workers /\ DOMAIN job = Workers
  BY <1>1 DEF TypeInv, ListsTyped, WorkTyped, Runnable, CanRun
<1>4. DOMAIN queue' = DOMAIN queue /\ \A m \in DOMAIN queue : m # k => queue'[m] = queue[m]
  BY <1>1, <1>3
<1>5. PICK j \in Queued : j = queue[k] BY <1>3
<1>6. queue'[k] = [j EXCEPT !.by = i] BY <1>1, <1>3, <1>5
<1>7. /\ queue'[k].by = i /\ queue'[k].doc = j.doc /\ queue'[k].type = j.type
      /\ queue'[k].gen = j.gen /\ queue'[k].page = j.page /\ queue'[k].prio = j.prio
  BY <1>6 DEF Queued, Job
<1>8. ASSUME NEW m \in DOMAIN queue
      PROVE  /\ queue'[m].doc = queue[m].doc /\ queue'[m].type = queue[m].type
             /\ queue'[m].gen = queue[m].gen /\ queue'[m].page = queue[m].page
             /\ queue'[m].prio = queue[m].prio
  <2>1. CASE m = k BY <1>5, <1>7, <2>1
  <2>2. CASE m # k BY <1>4, <2>2
  <2> QED BY <2>1, <2>2
<1>9. job'[i] = queue[k] /\ \A n \in Workers : n # i => job'[n] = job[n] BY <1>1, <1>3
<1>10. \A n \in Workers : pc'[n] = "ran" <=> pc[n] = "ran" BY <1>2, <1>3
<1>11. ~ AtWork(i) BY <1>2 DEF AtWork
<1>12. queue'[k] = [queue[k] EXCEPT !.by = i] BY <1>5, <1>6
<1>13. Taking(i, k)
  BY ONLY <1>1, <1>2, <1>3, <1>4, <1>5, <1>7, <1>8, <1>9, <1>10, <1>11, <1>12 DEF Taking
<1> QED BY <1>13

LEMMA FollowTake ==
    ASSUME TypeInv, TypeInv', WorkHeld, ExclusiveInv, FollowInv, NEW i \in Workers, Take(i)
    PROVE  FollowInv'
<1>1. PICK k : Taking(i, k) BY TakeDoes
<1>2. /\ queue \in Seq(Queued) /\ queue' \in Seq(Queued) /\ i # NoWorker
      /\ \A m \in DOMAIN queue : queue[m] \in Queued
  BY WorkersAssumption DEF TypeInv, ListsTyped
<1>3. \A m \in DOMAIN queue : queue[m].by # i
  BY <1>1, <1>2 DEF WorkHeld, Taking
<1>4. \A m \in DOMAIN queue : queue[m].by # NoWorker => /\ queue[m].by \in Workers /\ queue[m].by # i
                                                        /\ queue'[m] = queue[m] /\ m # k
                                                        /\ AtWork(queue[m].by)
  BY <1>1, <1>2, <1>3 DEF Taking, Queued, Job, WorkHeld
<1>5. Whole(queue', job')
  <2> SUFFICES ASSUME NEW m \in DOMAIN queue, queue'[m].by # NoWorker
               PROVE  queue'[m] = [job'[queue'[m].by] EXCEPT !.by = queue'[m].by]
    BY <1>1 DEF Whole, Taking
  <2>1. CASE m = k BY <1>1, <2>1 DEF Taking
  <2>2. CASE m # k
    <3>1. queue'[m] = queue[m] BY <1>1, <2>2 DEF Taking
    <3>2. queue[m].by \in Workers /\ queue[m].by # i BY <1>4, <3>1
    <3>3. job'[queue[m].by] = job[queue[m].by] BY <1>1, <3>2 DEF Taking
    <3>4. queue[m] = [job[queue[m].by] EXCEPT !.by = queue[m].by] BY <3>1 DEF FollowInv, KindInv, Whole
    <3> QED BY <3>1, <3>3, <3>4
  <2> QED BY <2>1, <2>2
<1>6. Sorted(queue') BY <1>1 DEF Taking, FollowInv, KindInv, Sorted
<1>7. OfPdfs(done') /\ OfPdfs(inbox') BY <1>1 DEF Taking, FollowInv, KindInv
<1>8. ASSUME NEW m \in DOMAIN queue, queue[m].by # NoWorker, queue[m].doc \in Docs
      PROVE  queue[m].doc \in busy
  <2>1. PICK n \in Workers : n = queue[m].by /\ AtWork(n) BY <1>4, <1>8
  <2>2. PICK h \in DOMAIN queue : InHand(queue[h], job[n], n) BY <2>1 DEF WorkHeld
  <2>3. h = m BY <1>8, <2>1, <2>2 DEF WorkHeld, OneEach, InHand
  <2>4. job[n].doc = queue[m].doc BY <2>2, <2>3 DEF InHand
  <2> QED BY <1>8, <2>1, <2>4, DocsAssumption DEF ExclusiveInv, FlagsHold
<1>9. ASSUME NEW d \in Docs, Live(d)' PROVE Followable(d)'
  <2>1. PICK g \in Nat : g = doc[d].gen BY GenOf
  <2>2. doc' = doc BY <1>1 DEF Taking
  <2>3. Live(d) /\ KnownTo(d, g) /\ BackedAt(d, g) /\ (d \in Pdfs => FreshAt(d, g)) /\ (d \notin Pdfs => Blank(doc[d]))
    BY <1>9, <2>1, <2>2 DEF Live, FollowInv, KindInv, BackInv, FreshInv
  <2>4. KnownTo(d, g)'
    <3>1. Known(queue', d, g)
      <4> SUFFICES ASSUME NEW m \in DOMAIN queue, queue'[m].doc = d
                   PROVE  queue'[m].gen <= g /\ (queue'[m].by = NoWorker => queue'[m].gen = g)
        BY <1>1 DEF Known, Taking
      <4>1. queue[m].doc = d /\ queue'[m].gen = queue[m].gen /\ (queue'[m].by = NoWorker => queue[m].by = NoWorker)
        BY <1>1, <1>2 DEF Taking
      <4> QED BY <2>3, <4>1 DEF KnownTo, Known
    <3> QED BY <1>1, <2>3, <3>1 DEF KnownTo, Taking
  <2>5. BackedAt(d, g)'
    <3>1. \A m \in 1 .. Len(queue) : queue[m] \in Loads(d, g) <=> queue'[m] \in Loads(d, g)
      <4>1. \A m \in 1 .. Len(queue) : m \in DOMAIN queue /\ queue[m] \in Queued /\ queue'[m] \in Queued
        BY <1>1, <1>2 DEF Taking
      <4> QED BY <1>1, <4>1 DEF Taking, Loads, IsLoad
    <3>2. Len(queue') = Len(queue) BY <1>1, <1>2 DEF Taking
    <3>3. HowMany(queue', Loads(d, g)) = HowMany(queue, Loads(d, g)) BY <1>2, <3>1, <3>2, SameSpots
    <3>4. Tally(d, g)' = Tally(d, g) BY <1>1, <3>3 DEF Tally, Taking
    <3> QED BY <2>2, <2>3, <3>4 DEF BackedAt
  <2>6. ASSUME d \in Pdfs PROVE FreshAt(d, g)'
    <3>1. FreshAt(d, g) BY <2>3, <2>6
    <3>2. Ordered(queue', d, g)
      <4> SUFFICES ASSUME NEW l \in DOMAIN queue, NEW m \in DOMAIN queue, IsLoad(queue'[l], d, g), IsPage(queue'[m], d, g)
                   PROVE  l < m /\ queue'[m].by = NoWorker
        BY <1>1 DEF Ordered, Taking
      <4>1. IsLoad(queue[l], d, g) /\ IsPage(queue[m], d, g) BY <1>1 DEF IsLoad, IsPage, Taking
      <4>2. l < m /\ queue[m].by = NoWorker BY <3>1, <4>1 DEF FreshAt, Ordered
      <4>3. m # k
        <5> SUFFICES ASSUME m = k PROVE FALSE OBVIOUS
        <5>1. d \notin busy /\ CanRun(queue[m]) BY <1>1, <4>1 DEF Taking, IsPage
        <5>2. queue[l].by = NoWorker BY <1>8, <4>1, <5>1 DEF IsLoad
        <5>3. CanRun(queue[l]) BY <2>6, <4>1, <5>1, <5>2 DEF CanRun, IsPdfJob, IsLoad, IsPage
        <5>4. l \in Runnable BY <5>3 DEF Runnable
        <5>5. queue[m].prio < queue[l].prio \/ (queue[m].prio = queue[l].prio /\ m <= l)
          BY <1>1, <5>4 DEF Taking
        <5>6. queue[l].prio = 0 BY <4>1 DEF FollowInv, KindInv, Sorted, IsLoad
        <5>7. queue[m].prio \in {0, 1} BY <1>2 DEF Queued, Job
        <5>8. l \in Nat /\ m \in Nat BY <1>2
        <5> QED BY <4>2, <5>5, <5>6, <5>7, <5>8
      <4> QED BY <1>1, <4>2, <4>3 DEF Taking
    <3>3. OldHeld(queue', d, g)
      <4> SUFFICES ASSUME NEW m \in DOMAIN queue, queue'[m].doc = d, queue'[m].gen # g
                   PROVE  /\ queue'[m].by # NoWorker
                          /\ \E l \in DOMAIN queue : IsLoad(queue'[l], d, g) /\ queue'[l].by = NoWorker
        BY <1>1 DEF OldHeld, Taking
      <4>1. queue[m].doc = d /\ queue[m].gen # g BY <1>1 DEF Taking
      <4>2. queue[m].by # NoWorker BY <3>1, <4>1 DEF FreshAt, OldHeld
      <4>3. PICK l \in DOMAIN queue : IsLoad(queue[l], d, g) /\ queue[l].by = NoWorker
        BY <3>1, <4>1 DEF FreshAt, OldHeld
      <4>4. d \in busy BY <1>8, <4>1, <4>2
      <4>5. l # k BY <1>1, <4>3, <4>4 DEF Taking, IsLoad
      <4>6. queue'[m] = queue[m] BY <1>4, <4>2
      <4>7. queue'[l] = queue[l] BY <1>1, <4>5 DEF Taking
      <4> QED BY <4>2, <4>3, <4>6, <4>7
    <3>4. LoadIn(queue', d, g) => LoadIn(queue, d, g)
      BY <1>1 DEF LoadIn, IsLoad, Taking
    <3>5. Came' = Came BY <1>1 DEF Came, Taking
    <3>6. ASSUME NEW n \in Workers, pc'[n] = "ran" PROVE pc[n] = "ran" /\ job'[n] = job[n] /\ result'[n] = result[n]
      <4>1. pc[n] = "ran" /\ n # i BY <1>1, <3>6 DEF Taking, AtWork
      <4> QED BY <1>1, <4>1 DEF Taking
    <3>7. LoadRan(d, g)' => LoadRan(d, g) BY <3>6 DEF LoadRan
    <3>8. /\ Fed(d, g) => Fed(d, g)'
          /\ LoadCame(d, g)' <=> LoadCame(d, g)
          /\ NoneCame(d, g)' <=> NoneCame(d, g)
      BY <2>2, <3>5, <3>6 DEF Fed, LoadCame, NoneCame
    <3> QED BY <2>2, <3>1, <3>2, <3>3, <3>4, <3>7, <3>8 DEF FreshAt
  <2> QED BY <2>1, <2>2, <2>3, <2>4, <2>5, <2>6 DEF Followable
<1> QED BY <1>5, <1>6, <1>7, <1>9, FollowsAll

(* Once a load has succeeded, whether or not its result has been applied,  *)
(* all that is under way is of its generation, and is no load.             *)
LEMMA NoLoadNow ==
    ASSUME TypeInv, NEW d \in Pdfs, NEW g \in Nat, BackedAt(d, g), FreshAt(d, g), Settled(doc[d]) \/ LoadCame(d, g)
    PROVE  \A k \in DOMAIN queue : queue[k].doc = d => queue[k].gen = g /\ queue[k].type # "load"
<1>1. queue \in Seq(Queued) /\ done \in Seq(Outcomes) /\ inbox \in Seq(Outcomes)
  BY DEF TypeInv, ListsTyped
<1>2. /\ HowMany(queue, Loads(d, g)) \in Nat /\ HowMany(done, Loads(d, g)) \in Nat
      /\ HowMany(inbox, Loads(d, g)) \in Nat
  BY <1>1, SpotsFinite
<1>3. Tally(d, g) \in {0, 1} /\ (Settled(doc[d]) => Tally(d, g) = 0)
  BY DEF BackedAt, Settled
<1>4. LoadCame(d, g) => HowMany(done, Loads(d, g)) > 0 \/ HowMany(inbox, Loads(d, g)) > 0
  <2> SUFFICES ASSUME LoadCame(d, g)
               PROVE  HowMany(done, Loads(d, g)) > 0 \/ HowMany(inbox, Loads(d, g)) > 0
    OBVIOUS
  <2>1. PICK j \in Came : IsLoad(j, d, g) BY DEF LoadCame
  <2>2. CASE \E k \in DOMAIN done : done[k] = j
    <3>1. PICK k \in DOMAIN done : done[k] = j BY <2>2
    <3>2. done[k] \in Loads(d, g) BY <1>1, <2>1, <3>1 DEF Loads
    <3> QED BY <1>1, <3>2, SomeSpot
  <2>3. CASE \E k \in DOMAIN inbox : inbox[k] = j
    <3>1. PICK k \in DOMAIN inbox : inbox[k] = j BY <2>3
    <3>2. inbox[k] \in Loads(d, g) BY <1>1, <2>1, <3>1 DEF Loads
    <3> QED BY <1>1, <3>2, SomeSpot
  <2> QED BY <2>1, <2>2, <2>3 DEF Came
<1>5. HowMany(queue, Loads(d, g)) = 0 BY <1>2, <1>3, <1>4 DEF Tally
<1>6. ASSUME NEW k \in DOMAIN queue PROVE ~ IsLoad(queue[k], d, g)
  <2>1. queue[k] \notin Loads(d, g) BY <1>1, <1>5, NoSpot
  <2> QED BY <1>1, <2>1 DEF Loads
<1>7. \A k \in DOMAIN queue : queue[k].doc = d => queue[k].gen = g
  BY <1>6 DEF FreshAt, OldHeld
<1> QED BY <1>6, <1>7 DEF IsLoad

-----------------------------------------------------------------------------
(* Doing a job.                                                            *)
Doing(i) ==
    /\ UNCHANGED <<queue, done, inbox, job>> /\ pc[i] = "run"
    /\ \A n \in Workers : n # i => (pc'[n] = "ran" <=> pc[n] = "ran") /\ result'[n] = result[n]
    /\ \A d \in Docs : /\ doc'[d].life = doc[d].life /\ doc'[d].gen = doc[d].gen
                       /\ doc'[d].state = doc[d].state /\ doc'[d].loading = doc[d].loading
                       /\ doc'[d].tex = doc[d].tex
    /\ \A d \in Docs : doc'[d].pdf = doc[d].pdf \/ /\ job[i].type = "load" /\ job[i].doc = d
                                                   /\ doc'[d].pdf.gen = job[i].gen
    /\ job[i].type = "load" /\ job[i].doc \in Pdfs /\ ~ result'[i].error => doc'[job[i].doc].pdf.gen = job[i].gen
    /\ job[i].type = "render" => doc' = doc /\ result'[i].pdf = doc[job[i].doc].pdf

LEMMA RunLoads ==
    ASSUME TypeInv, NEW i \in Workers, Run(i), job[i].type = "load"
    PROVE  \/ doc' = doc /\ (job[i].doc \in Pdfs => result'[i].error)
           \/ \E pdf \in PdfFile : /\ job[i].doc \in Docs /\ pdf.gen = job[i].gen
                                  /\ doc' = [doc EXCEPT ![job[i].doc].pdf = pdf]
<1>1. PICK j \in Queued : j = job[i] /\ result \in [Workers -> Result]
  BY DEF TypeInv, WorkTyped, Run, AtWork
<1>2. \/ result' = [result EXCEPT ![i].error = TRUE, ![i].npages = 0] /\ UNCHANGED docVars
      \/ j.doc \notin Pdfs /\ UNCHANGED docVars
      \/ /\ j.doc \in Pdfs
         /\ \E n \in 1 .. MAX_PAGES :
               doc' = [doc EXCEPT ![j.doc].pdf = [[doc |-> j.doc, gen |-> j.gen, pages |-> 0] EXCEPT !.pages = n]]
  BY <1>1 DEF Run, RunLoad
<1>3. CASE result' = [result EXCEPT ![i].error = TRUE, ![i].npages = 0] /\ UNCHANGED docVars
  <2>1. PICK r \in Result : r = result[i] BY <1>1
  <2>2. PICK x : x = [r EXCEPT !.error = TRUE] OBVIOUS
  <2>3. x.error = TRUE /\ x \in Result BY <2>2 DEF Result
  <2>4. result' = [result EXCEPT ![i] = [x EXCEPT !.npages = 0]] BY <1>1, <1>3, <2>1, <2>2
  <2>5. result'[i] = [x EXCEPT !.npages = 0] BY <1>1, <2>4
  <2>6. result'[i].error = TRUE BY <2>3, <2>5 DEF Result
  <2> QED BY <1>3, <2>6 DEF docVars
<1>4. CASE j.doc \notin Pdfs /\ UNCHANGED docVars
  BY <1>1, <1>4 DEF docVars
<1>5. ASSUME NEW n \in 1 .. MAX_PAGES, j.doc \in Pdfs,
             doc' = [doc EXCEPT ![j.doc].pdf = [[doc |-> j.doc, gen |-> j.gen, pages |-> 0] EXCEPT !.pages = n]]
      PROVE  \E pdf \in PdfFile : /\ j.doc \in Docs /\ pdf.gen = j.gen
                                 /\ doc' = [doc EXCEPT ![j.doc].pdf = pdf]
  <2>1. n \in 0 .. MAX_PAGES BY PageFacts
  <2>2. PICK pdf : pdf = [[doc |-> j.doc, gen |-> j.gen, pages |-> 0] EXCEPT !.pages = n] OBVIOUS
  <2>3. pdf = [doc |-> j.doc, gen |-> j.gen, pages |-> n] BY <2>2
  <2>4. j.doc \in Docs /\ j.gen \in Nat BY <1>5, DocsAssumption DEF Queued, Job
  <2>5. pdf \in PdfFile /\ pdf.gen = j.gen BY <2>1, <2>3, <2>4 DEF PdfFile
  <2> QED BY <1>5, <2>2, <2>4, <2>5
<1> QED BY <1>1, <1>2, <1>3, <1>4, <1>5

LEMMA DoingRun ==
    ASSUME TypeInv, NEW i \in Workers, Run(i)
    PROVE  Doing(i)
<1>1. /\ UNCHANGED <<queue, done, inbox, job>> /\ pc' = [pc EXCEPT ![i] = "ran"] /\ pc[i] = "run"
  BY DEF Run, lockVars, mainVars
<1>2. /\ DOMAIN pc = Workers /\ result \in [Workers -> Result] /\ doc \in [Docs -> Document]
  BY DEF TypeInv, WorkTyped, DocsTyped
<1>3. PICK j \in Queued : j = job[i] BY <1>1 DEF TypeInv, WorkTyped, AtWork
<1>4. result' = [result EXCEPT ![i] = result'[i]] BY RunDoes
<1>5. \A n \in Workers : n # i => (pc'[n] = "ran" <=> pc[n] = "ran") /\ result'[n] = result[n]
  BY <1>1, <1>2, <1>4
<1>6. CASE j.type = "load"
  <2>1. CASE doc' = doc /\ (job[i].doc \in Pdfs => result'[i].error)
    <3>1. job[i].type # "render" BY <1>3, <1>6
    <3> QED BY <1>1, <1>5, <2>1, <3>1 DEF Doing
  <2>2. ASSUME NEW pdf \in PdfFile, job[i].doc \in Docs, pdf.gen = job[i].gen,
               doc' = [doc EXCEPT ![job[i].doc].pdf = pdf]
        PROVE  Doing(i)
    <3>1. PICK c \in Docs : c = job[i].doc BY <2>2
    <3>2. PICK r \in Document : r = doc[c] BY <1>2
    <3>3. PICK e : e = [r EXCEPT !.pdf = pdf] OBVIOUS
    <3>4. doc' = [doc EXCEPT ![c] = e] BY <1>2, <2>2, <3>1, <3>2, <3>3
    <3>5. /\ e.life = r.life /\ e.gen = r.gen /\ e.state = r.state /\ e.loading = r.loading /\ e.tex = r.tex
          /\ e.pdf = pdf
      BY <3>3 DEF Document
    <3>6. ASSUME NEW d \in Docs
          PROVE  /\ doc'[d].life = doc[d].life /\ doc'[d].gen = doc[d].gen
                 /\ doc'[d].state = doc[d].state /\ doc'[d].loading = doc[d].loading
                 /\ doc'[d].tex = doc[d].tex
      BY <1>2, <3>2, <3>4, <3>5
    <3>7. \A d \in Docs : d # c => doc'[d].pdf = doc[d].pdf BY <1>2, <3>4
    <3>8. doc'[c].pdf.gen = job[i].gen BY <1>2, <2>2, <3>4, <3>5
    <3>9. job[i].type = "load" BY <1>3, <1>6
    <3> QED BY <1>1, <1>5, <3>1, <3>6, <3>7, <3>8, <3>9 DEF Doing
  <2>3. \/ doc' = doc /\ (job[i].doc \in Pdfs => result'[i].error)
        \/ \E pdf \in PdfFile : /\ job[i].doc \in Docs /\ pdf.gen = job[i].gen
                                /\ doc' = [doc EXCEPT ![job[i].doc].pdf = pdf]
    BY <1>3, <1>6, RunLoads
  <2> QED BY <2>1, <2>2, <2>3
<1>7. CASE j.type = "render"
  <2>1. /\ doc' = doc
        /\ \E error \in BOOLEAN : result' = [result EXCEPT ![i].error = error, ![i].pdf = doc[j.doc].pdf]
    BY <1>3, <1>7 DEF Run, RunRender, docVars
  <2>2. PICK error \in BOOLEAN : result' = [result EXCEPT ![i].error = error, ![i].pdf = doc[j.doc].pdf]
    BY <2>1
  <2>3. PICK r \in Result : r = result[i] BY <1>2
  <2>4. PICK x : x = [r EXCEPT !.error = error] OBVIOUS
  <2>5. x \in Result BY <2>4 DEF Result
  <2>6. PICK pdf : pdf = doc[j.doc].pdf OBVIOUS
  <2>7. result' = [result EXCEPT ![i] = [x EXCEPT !.pdf = pdf]] BY <1>2, <2>2, <2>3, <2>4, <2>6
  <2>8. result'[i] = [x EXCEPT !.pdf = pdf] BY <1>2, <2>7
  <2>9. result'[i].pdf = pdf BY <2>5, <2>8 DEF Result
  <2>10. job[i].type = "render" BY <1>3, <1>7
  <2> QED BY <1>1, <1>3, <1>5, <2>1, <2>6, <2>9, <2>10 DEF Doing
<1>8. CASE j.type = "free_pdf"
  <2>1. doc' = doc BY <1>3, <1>8 DEF Run
  <2>2. job[i].type = "free_pdf" BY <1>3, <1>8
  <2> QED BY <1>1, <1>5, <2>1, <2>2 DEF Doing
<1> QED BY <1>3, <1>6, <1>7, <1>8 DEF Run

LEMMA FollowRun ==
    ASSUME TypeInv, TypeInv', WorkHeld, ExclusiveInv, FollowInv, NEW i \in Workers, Run(i)
    PROVE  FollowInv'
<1>1. Doing(i) BY DoingRun
<1>2. AtWork(i) /\ UNCHANGED <<queue, done, inbox, job>> BY <1>1 DEF Doing, AtWork
<1>3. Whole(queue', job') /\ Sorted(queue') /\ OfPdfs(done') /\ OfPdfs(inbox')
  BY <1>2 DEF FollowInv, KindInv
<1>4. Came' = Came BY <1>2 DEF Came
<1>5. PICK h \in DOMAIN queue : /\ queue[h].by = i /\ queue[h].doc = job[i].doc /\ queue[h].type = job[i].type
                                /\ queue[h].gen = job[i].gen
  BY <1>2, WorkIsQueued DEF FollowInv, KindInv
<1>6. ASSUME NEW d \in Docs, Live(d)' PROVE Followable(d)'
  <2>1. PICK g \in Nat : g = doc[d].gen BY GenOf
  <2>2. /\ doc'[d].life = doc[d].life /\ doc'[d].gen = g /\ doc'[d].tex = doc[d].tex
        /\ doc'[d].state = doc[d].state /\ doc'[d].loading = doc[d].loading
    BY <1>1, <2>1 DEF Doing
  <2>3. Live(d) /\ KnownTo(d, g) /\ BackedAt(d, g) /\ (d \in Pdfs => FreshAt(d, g)) /\ (d \notin Pdfs => Blank(doc[d]))
    BY <1>6, <2>1, <2>2 DEF Live, FollowInv, KindInv, BackInv, FreshInv
  <2>4. KnownTo(d, g)' BY <1>2, <2>3 DEF KnownTo
  <2>5. BackedAt(d, g)' BY <1>2, <2>2, <2>3 DEF BackedAt, Tally
  <2>6. d \notin Pdfs => Blank(doc'[d]) BY <2>2, <2>3 DEF Blank
  <2>7. ASSUME d \in Pdfs PROVE FreshAt(d, g)'
    <3>1. FreshAt(d, g) BY <2>3, <2>7
    <3>2. LoadRan(d, g)' => doc'[d].pdf.gen = g
      <4> SUFFICES ASSUME NEW n \in Workers, pc'[n] = "ran", IsLoad(job[n], d, g), ~ result'[n].error
                   PROVE  doc'[d].pdf.gen = g
        BY <1>2 DEF LoadRan
      <4>1. CASE n = i BY <1>1, <2>7, <4>1 DEF Doing, IsLoad
      <4>2. CASE n # i
        <5>1. pc[n] = "ran" /\ ~ result[n].error BY <1>1, <4>2 DEF Doing
        <5>2. doc[d].pdf.gen = g BY <3>1, <5>1 DEF FreshAt, LoadRan
        <5>3. job[i].doc # d
          BY <1>2, <4>2, <5>1, DocsAssumption DEF ExclusiveInv, WorkersExclusive, AtWork, IsLoad
        <5>4. doc'[d].pdf = doc[d].pdf BY <1>1, <5>3 DEF Doing
        <5> QED BY <5>2, <5>4
      <4> QED BY <4>1, <4>2
    <3>3. ASSUME Settled(doc'[d]) \/ LoadCame(d, g)' PROVE Fed(d, g)'
      <4>1. Settled(doc[d]) \/ LoadCame(d, g) BY <1>4, <2>2, <3>3 DEF Settled, LoadCame
      <4>2. Fed(d, g) BY <3>1, <4>1 DEF FreshAt
      <4>3. \A k \in DOMAIN queue : queue[k].doc = d => queue[k].gen = g /\ queue[k].type # "load"
        BY <2>3, <2>7, <3>1, <4>1, NoLoadNow
      <4>4. ~ (job[i].type = "load" /\ job[i].doc = d) BY <1>5, <4>3
      <4>5. doc'[d].pdf = doc[d].pdf BY <1>1, <4>4 DEF Doing
      <4>6. ASSUME NEW n \in Workers, pc'[n] = "ran", IsPage(job[n], d, g) PROVE result'[n].pdf.gen = g
        <5>1. CASE n = i BY <1>1, <4>2, <4>6, <5>1 DEF Doing, Fed, IsPage
        <5>2. CASE n # i BY <1>1, <4>2, <4>6, <5>2 DEF Doing, Fed
        <5> QED BY <5>1, <5>2
      <4> QED BY <1>2, <1>4, <4>2, <4>5, <4>6 DEF Fed
    <3>4. NoneCame(d, g)' <=> NoneCame(d, g) BY <1>4 DEF NoneCame
    <3>5. Settled(doc'[d]) => OfGen(doc'[d], g)
      BY <2>2, <3>1 DEF FreshAt, Settled, OfGen
    <3> QED BY <1>2, <2>2, <3>1, <3>2, <3>3, <3>4, <3>5 DEF FreshAt
  <2> QED BY <2>2, <2>4, <2>5, <2>6, <2>7 DEF Followable
<1> QED BY <1>3, <1>6, FollowsAll

-----------------------------------------------------------------------------
(* Ending a job: it leaves the queue and, unless it closed a PDF, its      *)
(* result is the newest of those done.                                     *)
CameOf(f, i) ==
    /\ f \in Outcomes /\ f.doc = job[i].doc /\ f.type = job[i].type /\ f.gen = job[i].gen
    /\ f.error = result[i].error /\ f.pdf = result[i].pdf
Ending(i, f) ==
    /\ Follows(queue, queue', {k \in DOMAIN queue : queue[k].by # i}, Closings)
    /\ \A d \in Docs, g \in Nat : Tally(d, g)' = Tally(d, g)
    /\ UNCHANGED <<doc, inbox>> /\ AtWork(i) /\ pc[i] = "ran"
    /\ \A n \in Workers : pc'[n] = "ran" => n # i /\ pc[n] = "ran"
    /\ \A n \in Workers : n # i => job'[n] = job[n] /\ result'[n] = result[n]
    /\ \/ job[i].type = "free_pdf" /\ Came' = Came
       \/ job[i].type # "free_pdf" /\ CameOf(f, i) /\ Came' = Came \cup {f}

Entries(q) == {q[k] : k \in DOMAIN q}
LEMMA PutFirst ==
    ASSUME NEW T, NEW q \in Seq(T), NEW x \in T
    PROVE  Entries(<<x>> \o q) = Entries(q) \cup {x}
<1> DEFINE r == <<x>> \o q
<1>1. /\ Len(q) \in Nat /\ DOMAIN q = 1 .. Len(q) /\ DOMAIN r = 1 .. Len(q) + 1
      /\ r[1] = x /\ \A k \in 1 .. Len(q) : r[k + 1] = q[k]
  OBVIOUS
<1> HIDE DEF r
<1>2. ASSUME NEW k \in DOMAIN r PROVE r[k] \in {q[m] : m \in DOMAIN q} \cup {x}
  <2>1. CASE k = 1 BY <1>1, <2>1
  <2>2. CASE k # 1
    <3>1. k - 1 \in 1 .. Len(q) /\ (k - 1) + 1 = k BY <1>1, <2>2
    <3>2. r[k] = q[k - 1] BY <1>1, <3>1
    <3> QED BY <1>1, <3>1, <3>2
  <2> QED BY <2>1, <2>2
<1>3. ASSUME NEW k \in DOMAIN q PROVE q[k] \in {r[m] : m \in DOMAIN r}
  <2>1. k + 1 \in DOMAIN r /\ r[k + 1] = q[k] BY <1>1
  <2> QED BY <2>1
<1>4. x \in {r[m] : m \in DOMAIN r} BY <1>1
<1>5. Entries(r) = Entries(q) \cup {x} BY <1>2, <1>3, <1>4 DEF Entries
<1> QED BY <1>5 DEF r

LEMMA FinishDoes ==
    ASSUME TypeInv, WorkHeld, Whole(queue, job), NEW i \in Workers, Finish(i)
    PROVE  \E f : Ending(i, f)
<1>1. /\ queue' = Selected(queue, {k \in DOMAIN queue : queue[k].by # i})
      /\ UNCHANGED <<doc, inbox>> /\ pc[i] = "ran" /\ AtWork(i)
      /\ job' = [job EXCEPT ![i] = NoJob] /\ result' = [result EXCEPT ![i] = NoResult]
      /\ pc' = Woken([pc EXCEPT ![i] = "loop"])
      /\ IF job[i].type = "free_pdf" THEN done' = done
         ELSE done' = <<Finished(job[i], result[i])>> \o done
  BY DEF Finish, docVars, mainVars, AtWork
<1>2. /\ queue \in Seq(Queued) /\ done \in Seq(Outcomes) /\ job[i] \in Queued /\ result[i] \in Result
      /\ HasPages(job[i].type, job[i].doc, result[i].error, result[i].npages)
      /\ DOMAIN pc = Workers /\ DOMAIN job = Workers /\ DOMAIN result = Workers
  BY <1>1 DEF TypeInv, ListsTyped, WorkTyped
<1> DEFINE S == {k \in DOMAIN queue : queue[k].by # i}
<1>3. Follows(queue, queue', S, Closings)
  <2>1. S \cap DOMAIN queue = S OBVIOUS
  <2>2. queue' = Selected(queue, S) BY <1>1
  <2> HIDE DEF S
  <2>3. Follows(queue, queue', S \cap DOMAIN queue, Closings) BY <1>2, <2>2, FollowsSelected
  <2> QED BY <2>1, <2>3
<1>4. \A n \in Workers : /\ pc'[n] = "ran" => n # i /\ pc[n] = "ran"
                         /\ n # i => job'[n] = job[n] /\ result'[n] = result[n]
  BY <1>1, <1>2 DEF Woken
<1>5. CASE job[i].type = "free_pdf"
  <2>1. done' = done BY <1>1, <1>5
  <2>2. Came' = Came BY <1>1, <2>1 DEF Came
  <2>3. ASSUME NEW d \in Docs, NEW g \in Nat PROVE Tally(d, g)' = Tally(d, g)
    <3>1. \A k \in DOMAIN queue : IsLoad(queue[k], d, g) => k \in S
      <4> SUFFICES ASSUME NEW k \in DOMAIN queue, IsLoad(queue[k], d, g), queue[k].by = i PROVE FALSE
        OBVIOUS
      <4>1. PICK h \in DOMAIN queue : queue[h].by = i /\ queue[h].type = job[i].type
        BY <1>1, WorkIsQueued
      <4>2. h = k BY <4>1, WorkersAssumption DEF WorkHeld, OneEach
      <4> QED BY <1>5, <4>1, <4>2 DEF IsLoad
    <3>2. NoDoc # d BY DocsAssumption
    <3> HIDE DEF S
    <3>3. HowMany(queue', Loads(d, g)) = HowMany(queue, Loads(d, g))
      BY <1>2, <1>3, <3>1, <3>2, LoadsFollow DEF Closings
    <3> QED BY <1>1, <2>1, <3>3 DEF Tally
  <2> QED BY <1>1, <1>3, <1>4, <1>5, <2>2, <2>3 DEF Ending
<1>6. CASE job[i].type # "free_pdf"
  <2>1. PICK f \in Outcomes : f = Finished(job[i], result[i]) BY <1>2, <1>6, OutcomeTyped
  <2>2. PICK mine \in Queued : mine = job[i] BY <1>2
  <2> DEFINE res == result[i]
  <2>3. /\ f.type = mine.type /\ f.doc = mine.doc /\ f.gen = mine.gen /\ f.error = res.error /\ f.pdf = res.pdf
    BY <2>1, <2>2 DEF Finished
  <2> HIDE DEF res
  <2>4. CameOf(f, i) BY <2>1, <2>2, <2>3 DEF CameOf, res
  <2>5. done' = <<f>> \o done BY <1>1, <1>6, <2>1
  <2>6. Entries(done') = Entries(done) \cup {f}
    <3>1. done \in Seq(Outcomes) BY <1>2
    <3>2. Entries(<<f>> \o done) = Entries(done) \cup {f} BY <3>1, PutFirst
    <3> QED BY <2>5, <3>2
  <2>7. Came' = Came \cup {f}
    <3>1. Came = Entries(done) \cup Entries(inbox) BY DEF Came, Entries
    <3>2. Came' = Entries(done') \cup Entries(inbox') BY DEF Came, Entries
    <3> QED BY <1>1, <2>6, <3>1, <3>2
  <2>8. ASSUME NEW d \in Docs, NEW g \in Nat PROVE Tally(d, g)' = Tally(d, g)
    <3> DEFINE L == Loads(d, g)
               Out == {m \in Spots(queue, L) : m \notin S}
               one == IF IsLoad(job[i], d, g) THEN 1 ELSE 0
    <3>1. PICK h \in DOMAIN queue : /\ queue[h].by = i /\ queue[h].doc = job[i].doc /\ queue[h].type = job[i].type
                                    /\ queue[h].gen = job[i].gen
      BY <1>1, WorkIsQueued
    <3>2. queue[h] \in L <=> IsLoad(job[i], d, g) BY <1>2, <3>1 DEF Loads, IsLoad
    <3>3. f \in L <=> IsLoad(job[i], d, g) BY <2>1, <2>2, <2>3 DEF Loads, IsLoad
    <3>4. \A m \in DOMAIN queue : m \notin S <=> m = h
      BY <3>1, WorkersAssumption DEF WorkHeld, OneEach
    <3> HIDE DEF S, L
    <3>5. Cardinality(Out) = one
      <4>1. CASE IsLoad(job[i], d, g)
        <5>1. Out = {h} BY <3>2, <3>4, <4>1 DEF Spots
        <5> QED BY <4>1, <5>1, FS_Singleton
      <4>2. CASE ~ IsLoad(job[i], d, g)
        <5>1. Out = {} BY <3>2, <3>4, <4>2 DEF Spots
        <5> QED BY <4>2, <5>1, FS_EmptySet
      <4> QED BY <4>1, <4>2
    <3>6. HowMany(Selected(queue, S), L) = HowMany(queue, L) - Cardinality(Out) BY <1>2, TakenOut
    <3>7. queue' = Selected(queue, S) BY <1>1 DEF S
    <3>8. HowMany(queue', L) = HowMany(queue, L) - one BY <3>5, <3>6, <3>7
    <3>9. HowMany(<<f>> \o done, L) = HowMany(done, L) + (IF f \in L THEN 1 ELSE 0) BY <1>2, OnePut
    <3>10. HowMany(done', L) = HowMany(done, L) + one BY <2>5, <3>3, <3>9
    <3>11. /\ HowMany(queue, L) \in Nat /\ HowMany(done, L) \in Nat /\ HowMany(inbox, L) \in Nat /\ one \in Nat
      BY <1>2, SpotsFinite DEF TypeInv, ListsTyped
    <3>12. Tally(d, g)' = HowMany(queue', L) + HowMany(done', L) + HowMany(inbox, L)
      BY <1>1 DEF Tally, L
    <3>13. Tally(d, g) = HowMany(queue, L) + HowMany(done, L) + HowMany(inbox, L)
      BY DEF Tally, L
    <3> HIDE DEF one
    <3> QED BY <3>8, <3>10, <3>11, <3>12, <3>13
  <2>9. Ending(i, f) BY <1>1, <1>3, <1>4, <1>6, <2>4, <2>7, <2>8 DEF Ending
  <2> QED BY <2>9
<1> QED BY <1>5, <1>6

LEMMA FollowFinish ==
    ASSUME TypeInv, TypeInv', WorkHeld, FollowInv, NEW i \in Workers, Finish(i)
    PROVE  FollowInv'
<1>1. PICK f : Ending(i, f) BY FinishDoes DEF FollowInv, KindInv
<1> DEFINE S == {k \in DOMAIN queue : queue[k].by # i}
<1>2. /\ Follows(queue, queue', S, Closings) /\ UNCHANGED <<doc, inbox>> /\ AtWork(i)
      /\ queue \in Seq(Queued)
  BY <1>1 DEF Ending, TypeInv, ListsTyped
<1>3. PICK h \in DOMAIN queue : /\ queue[h].by = i /\ queue[h].doc = job[i].doc /\ queue[h].type = job[i].type
                                /\ queue[h].gen = job[i].gen
  BY <1>2, WorkIsQueued DEF FollowInv, KindInv
<1>4. Whole(queue', job')
  <2> SUFFICES ASSUME NEW k \in DOMAIN queue', queue'[k].by # NoWorker
               PROVE  queue'[k] = [job'[queue'[k].by] EXCEPT !.by = queue'[k].by]
    BY DEF Whole
  <2>1. queue'[k] \notin Closings BY DEF Closings, NewOf
  <2>2. PICK l \in S : l \in DOMAIN queue /\ Kin(queue'[k], queue[l])
    <3> HIDE DEF S
    <3> QED BY <1>2, <2>1, OriginKind
  <2>3. queue'[k] = queue[l] BY <2>2 DEF Kin
  <2>4. queue[l] = [job[queue[l].by] EXCEPT !.by = queue[l].by] BY <2>3 DEF FollowInv, KindInv, Whole
  <2>5. queue[l].by \in Workers /\ queue[l].by # i BY <1>2, <2>2, <2>3 DEF Queued, Job
  <2>6. job'[queue[l].by] = job[queue[l].by] BY <1>1, <2>5 DEF Ending
  <2> QED BY <2>3, <2>4, <2>6
<1>5. Sorted(queue')
  <2>1. Sorted(queue) BY DEF FollowInv, KindInv
  <2> DEFINE ts == {"free_pdf"}
  <2>2. "render" \in ts => NoDoc \in Pdfs OBVIOUS
  <2>3. Follows(queue, queue', S, NewOf(NoDoc, 0, ts)) BY <1>2 DEF Closings
  <2> HIDE DEF S, ts
  <2> QED BY <2>1, <2>2, <2>3, SortedFollows
<1>6. Came' \subseteq Came \cup {f} /\ (Came' # Came => CameOf(f, i) /\ Came' = Came \cup {f})
  BY <1>1 DEF Ending
<1>7. OfPdfs(done') /\ OfPdfs(inbox')
  <2>1. \A j \in Came : j.type = "render" => j.doc \in Pdfs BY CameKinds DEF FollowInv, KindInv
  <2>2. CameOf(f, i) /\ f.type = "render" => f.doc \in Pdfs
    BY <1>3 DEF CameOf, FollowInv, KindInv, Sorted
  <2>3. \A j \in Came' : j.type = "render" => j.doc \in Pdfs BY <1>6, <2>1, <2>2
  <2> QED BY <2>3, CameKindsLater
<1>8. ASSUME NEW d \in Docs, Live(d)' PROVE Followable(d)'
  <2>1. PICK g \in Nat : g = doc[d].gen BY GenOf
  <2>2. Live(d) /\ KnownTo(d, g) /\ BackedAt(d, g) /\ (d \in Pdfs => FreshAt(d, g)) /\ (d \notin Pdfs => Blank(doc[d]))
    BY <1>2, <1>8, <2>1 DEF Live, FollowInv, KindInv, BackInv, FreshInv
  <2>3. NoDoc # d BY DocsAssumption
  <2>4. KnownTo(d, g)'
    <3>1. Known(queue, d, g) BY <2>2 DEF KnownTo
    <3>2. Known(queue', d, g)
      <4> DEFINE ts == {"free_pdf"}
      <4>1. Follows(queue, queue', S, NewOf(NoDoc, 0, ts)) BY <1>2 DEF Closings
      <4> HIDE DEF S, ts
      <4> QED BY <2>3, <3>1, <4>1, KnownFollows
    <3>3. \A j \in Came : j.doc = d => j.gen <= g BY <2>2, CameKinds DEF KnownTo
    <3>4. CameOf(f, i) /\ f.doc = d => f.gen <= g BY <1>3, <3>1 DEF CameOf, Known
    <3>5. \A j \in Came' : j.doc = d => j.gen <= g BY <1>6, <3>3, <3>4
    <3> QED BY <3>2, <3>5, CameKindsLater DEF KnownTo
  <2>5. BackedAt(d, g)'
    <3>1. Tally(d, g)' = Tally(d, g) BY <1>1 DEF Ending
    <3> QED BY <1>2, <2>2, <3>1 DEF BackedAt
  <2>6. ASSUME d \in Pdfs PROVE FreshAt(d, g)'
    <3>1. FreshAt(d, g) /\ Ordered(queue, d, g) /\ OldHeld(queue, d, g) BY <2>2, <2>6 DEF FreshAt
    <3>2. \A k \in DOMAIN queue : IsLoad(queue[k], d, g) /\ queue[k].by = NoWorker => k \in S
      BY WorkersAssumption
    <3>3. Ordered(queue', d, g) /\ OldHeld(queue', d, g) /\ (LoadIn(queue', d, g) => LoadIn(queue, d, g))
      <4> DEFINE ts == {"free_pdf"}
      <4>1. Follows(queue, queue', S, NewOf(NoDoc, 0, ts)) BY <1>2 DEF Closings
      <4> HIDE DEF S, ts
      <4>2. Ordered(queue', d, g) BY <1>2, <2>3, <3>1, <4>1, OrderedFollows
      <4>3. OldHeld(queue', d, g) BY <2>3, <3>1, <3>2, <4>1, OldFollow
      <4>4. LoadIn(queue', d, g) => LoadIn(queue, d, g) BY <2>3, <4>1, LoadWasIn
      <4> QED BY <4>2, <4>3, <4>4
    <3>4. CameOf(f, i) /\ IsPage(f, d, g) => ~ LoadIn(queue, d, g)
      <4> SUFFICES ASSUME CameOf(f, i), IsPage(f, d, g), NEW l \in DOMAIN queue, IsLoad(queue[l], d, g) PROVE FALSE
        BY DEF LoadIn
      <4>1. IsPage(queue[h], d, g) BY <1>3 DEF CameOf, IsPage
      <4> QED BY <1>3, <3>1, <4>1, WorkersAssumption DEF Ordered
    <3>5. LoadIn(queue', d, g) => NoneCame(d, g)'
      BY <1>6, <3>1, <3>3, <3>4 DEF FreshAt, NoneCame
    <3>6. ASSUME NEW n \in Workers, pc'[n] = "ran" PROVE pc[n] = "ran" /\ job'[n] = job[n] /\ result'[n] = result[n]
      BY <1>1, <3>6 DEF Ending
    <3>7. LoadRan(d, g)' => doc'[d].pdf.gen = g
      BY <1>2, <3>1, <3>6 DEF FreshAt, LoadRan
    <3>8. ASSUME Fed(d, g) PROVE Fed(d, g)'
      <4>1. CameOf(f, i) /\ IsPage(f, d, g) => f.pdf.gen = g
        BY <1>1, <3>8 DEF Fed, CameOf, IsPage, Ending
      <4> QED BY <1>2, <1>6, <3>6, <3>8, <4>1 DEF Fed
    <3>9. ASSUME Settled(doc'[d]) \/ LoadCame(d, g)' PROVE Fed(d, g)'
      <4>1. CASE Settled(doc[d]) \/ LoadCame(d, g) BY <3>1, <3>8, <4>1 DEF FreshAt
      <4>2. CASE CameOf(f, i) /\ IsLoad(f, d, g) /\ ~ f.error
        <5>1. IsLoad(job[i], d, g) /\ ~ result[i].error /\ pc[i] = "ran"
          BY <1>1, <4>2 DEF CameOf, IsLoad, Ending
        <5>2. doc[d].pdf.gen = g BY <3>1, <5>1 DEF FreshAt, LoadRan
        <5>3. IsLoad(queue[h], d, g) BY <1>3, <5>1 DEF IsLoad
        <5>4. NoneCame(d, g) BY <3>1, <5>3 DEF FreshAt, LoadIn
        <5>5. ~ IsPage(f, d, g) BY <4>2 DEF IsPage, IsLoad
        <5>6. ASSUME NEW n \in Workers, pc[n] = "ran", IsPage(job[n], d, g) PROVE FALSE
          <6>1. PICK m \in DOMAIN queue : /\ queue[m].by = n /\ queue[m].doc = job[n].doc
                                          /\ queue[m].type = job[n].type /\ queue[m].gen = job[n].gen
            BY <5>6, WorkIsQueued DEF AtWork, FollowInv, KindInv
          <6>2. IsPage(queue[m], d, g) BY <5>6, <6>1 DEF IsPage
          <6> QED BY <3>1, <5>3, <6>1, <6>2, WorkersAssumption DEF Ordered
        <5> QED BY <1>2, <1>6, <3>6, <5>2, <5>4, <5>5, <5>6 DEF Fed, NoneCame
      <4> QED BY <1>2, <1>6, <3>9, <4>1, <4>2 DEF LoadCame
    <3>10. Settled(doc'[d]) => OfGen(doc'[d], g) BY <1>2, <3>1 DEF FreshAt
    <3> QED BY <3>3, <3>5, <3>7, <3>9, <3>10 DEF FreshAt
  <2> QED BY <1>2, <2>1, <2>2, <2>4, <2>5, <2>6 DEF Followable
<1> QED BY <1>4, <1>5, <1>7, <1>8, FollowsAll

-----------------------------------------------------------------------------
(* Applying a result j.  What becomes of a document c that stays open: it  *)
(* is left alone unless the result is of its present generation.           *)
Unlike(j, c, g) == ~ IsLoad(j, c, g) /\ ~ IsPage(j, c, g)
Became(c, g, j, e) ==
    \/ Unlike(j, c, g) /\ e = doc[c]
    \/ IsLoad(j, c, g) /\ AfterLoad(c, doc[c], j, e)
    \/ /\ IsPage(j, c, g) /\ e.loading = doc[c].loading /\ e.state = doc[c].state
       /\ \A p \in Pages : e.tex[p] = doc[c].tex[p] \/ e.tex[p].width = 0 \/ e.tex[p].gen = j.pdf.gen
Becomes(c, g, j) ==
    /\ Live(c) /\ doc[c].gen = g /\ doc'[c].gen = g /\ doc'[c].pdf = doc[c].pdf
    /\ \E e : /\ Became(c, g, j, e)
              /\ doc'[c].loading = e.loading /\ doc'[c].state = e.state /\ TexFrom(doc'[c].tex, e.tex)
Applying(j) ==
    /\ j \in Came /\ j \in Outcomes /\ Came' \subseteq Came /\ UNCHANGED <<done, job, result>>
    /\ Follows(queue, queue', DOMAIN queue, Closings)
    /\ \A n \in Workers : pc'[n] = "ran" <=> pc[n] = "ran"
    /\ \A X : HowMany(inbox, X) = HowMany(inbox', X) + (IF j \in X THEN 1 ELSE 0)
    /\ \A c \in Docs : Live(c)' => \E g \in Nat : Becomes(c, g, j)

LEMMA TailCame ==
    ASSUME NEW T, inbox \in Seq(T), inbox # <<>>, inbox' = Tail(inbox), done' = done
    PROVE  Head(inbox) \in Came /\ Came' \subseteq Came
<1>1. /\ Len(inbox) \in Nat /\ Len(inbox) > 0 /\ DOMAIN inbox = 1 .. Len(inbox)
      /\ DOMAIN inbox' = 1 .. Len(inbox) - 1 /\ \A k \in 1 .. Len(inbox) - 1 : inbox'[k] = inbox[k + 1]
      /\ Head(inbox) = inbox[1]
  OBVIOUS
<1>2. \A k \in DOMAIN inbox' : inbox'[k] \in {inbox[m] : m \in DOMAIN inbox}
  <2> SUFFICES ASSUME NEW k \in DOMAIN inbox' PROVE inbox'[k] \in {inbox[m] : m \in DOMAIN inbox}
    OBVIOUS
  <2>1. k + 1 \in DOMAIN inbox /\ inbox'[k] = inbox[k + 1] BY <1>1
  <2> QED BY <2>1
<1>3. inbox[1] \in {inbox[m] : m \in DOMAIN inbox} BY <1>1
<1>4. {inbox'[k] : k \in DOMAIN inbox'} \subseteq {inbox[m] : m \in DOMAIN inbox} BY <1>2
<1>5. Came' = {done[k] : k \in DOMAIN done} \cup {inbox'[k] : k \in DOMAIN inbox'} BY DEF Came
<1>6. Came = {done[k] : k \in DOMAIN done} \cup {inbox[k] : k \in DOMAIN inbox} BY DEF Came
<1> QED BY <1>1, <1>3, <1>4, <1>5, <1>6

LEMMA ApplyKinds ==
    ASSUME TypeInv, ApplyResult
    PROVE  \E j : Applying(j)
<1>1. PICK j, r, D : Applied(j, r, D) BY ApplyDoes
<1>2. PICK d \in Docs : d = j.doc BY <1>1 DEF Applied
<1>3. /\ r \in Document /\ r.gen = doc[d].gen /\ r.pdf = doc[d].pdf
      /\ D = [doc EXCEPT ![d] = Unreferenced(r, 1)] /\ OnlyTextures(D, doc')
      /\ queue' = queue \o PdfToFree(r, 1) /\ j = Head(inbox) /\ inbox' = Tail(inbox) /\ j \in Outcomes
      /\ ~ Current(j) => r = doc[d]
      /\ Current(j) /\ j.type = "load" => AfterLoad(d, doc[d], j, r)
      /\ r.life = doc[d].life
      /\ Current(j) /\ j.type = "render" =>
            /\ r.loading = doc[d].loading /\ r.state = doc[d].state
            /\ \A p \in Pages : r.tex[p] = doc[d].tex[p] \/ r.tex[p].width = 0 \/ r.tex[p].gen = j.pdf.gen
  BY <1>1, <1>2 DEF Applied, Slimmed
<1>4. UNCHANGED done /\ \E s : Signal(s) BY DEF ApplyResult, Submit
<1>5. /\ queue \in Seq(Queued) /\ inbox \in Seq(Outcomes) /\ inbox # <<>>
      /\ doc \in [Docs -> Document] /\ DOMAIN pc = Workers
  BY DEF TypeInv, ListsTyped, MainTyped, DocsTyped, WorkTyped, ApplyResult
<1>6. j \in Came /\ Came' \subseteq Came BY <1>3, <1>4, <1>5, TailCame
<1>7. Follows(queue, queue', DOMAIN queue, Closings)
  <2>1. Extended(queue, queue', Closings) BY <1>3, <1>5, FreeExtends
  <2> QED BY <1>5, <2>1, FollowsExtended
<1>8. UNCHANGED <<job, result>> /\ \A n \in Workers : pc'[n] = "ran" <=> pc[n] = "ran"
  <2>1. PICK s : Signal(s) BY <1>4
  <2>2. StillBusy BY <1>5, <2>1, SignalStillBusy
  <2> QED BY <2>1, <2>2 DEF Signal, StillBusy, AtWork
<1>9. ASSUME NEW X PROVE HowMany(inbox, X) = HowMany(inbox', X) + (IF j \in X THEN 1 ELSE 0)
  BY <1>3, <1>5, OneFirst
<1>10. ASSUME NEW c \in Docs, Live(c)' PROVE \E g \in Nat : Becomes(c, g, j)
  <2>1. PICK g \in Nat : g = doc[c].gen BY GenOf
  <2>2. /\ doc'[c].life = D[c].life /\ doc'[c].gen = D[c].gen /\ doc'[c].pdf = D[c].pdf
        /\ doc'[c].state = D[c].state /\ doc'[c].loading = D[c].loading /\ TexFrom(doc'[c].tex, D[c].tex)
    BY <1>3 DEF OnlyTextures
  <2>3. CASE c # d
    <3>1. D[c] = doc[c] BY <1>3, <1>5, <2>3
    <3>2. Unlike(j, c, g) BY <1>2, <2>3 DEF Unlike, IsLoad, IsPage
    <3>3. Became(c, g, j, doc[c]) BY <3>2 DEF Became
    <3> QED BY <1>10, <2>1, <2>2, <3>1, <3>3 DEF Becomes, Live
  <2>4. CASE c = d
    <3>1. D[c] = Unreferenced(r, 1) BY <1>3, <1>5, <2>4
    <3>2. r.refs > 1
      <4> SUFFICES ASSUME ~ (r.refs > 1) PROVE FALSE OBVIOUS
      <4>1. D[c] = NoRecord("freed") BY <3>1 DEF Unreferenced
      <4>2. D[c].life = "freed" BY <4>1 DEF NoRecord
      <4> QED BY <1>10, <2>2, <4>2 DEF Live
    <3>3. /\ D[c].life = r.life /\ D[c].gen = r.gen /\ D[c].pdf = r.pdf /\ D[c].tex = r.tex
          /\ D[c].loading = r.loading /\ D[c].state = r.state
      BY <1>3, <3>1, <3>2, Unreference
    <3>4. Live(c) /\ doc'[c].gen = g /\ doc'[c].pdf = doc[c].pdf
      BY <1>3, <1>10, <2>1, <2>2, <2>4, <3>3 DEF Live
    <3>5. Became(c, g, j, r)
      <4>1. Current(j) <=> j.gen = g BY <1>2, <2>1, <2>4, <3>4 DEF Current
      <4>2. CASE ~ Current(j)
        <5>1. Unlike(j, c, g) BY <4>1, <4>2 DEF Unlike, IsLoad, IsPage
        <5> QED BY <1>3, <2>4, <4>2, <5>1 DEF Became
      <4>3. CASE Current(j) /\ j.type = "load"
        <5>1. IsLoad(j, c, g) BY <1>2, <2>4, <4>1, <4>3 DEF IsLoad
        <5> QED BY <1>3, <2>4, <4>3, <5>1 DEF Became
      <4>4. CASE Current(j) /\ j.type = "render"
        <5>1. IsPage(j, c, g) BY <1>2, <2>4, <4>1, <4>4 DEF IsPage
        <5> QED BY <1>3, <2>4, <4>4, <5>1 DEF Became
      <4>5. j.type \in {"load", "render"} BY <1>3 DEF Outcomes, FinishedJob
      <4> QED BY <4>2, <4>3, <4>4, <4>5
    <3> QED BY <2>1, <2>2, <3>3, <3>4, <3>5 DEF Becomes
  <2> QED BY <2>3, <2>4
<1>11. Applying(j)
  BY ONLY <1>3, <1>4, <1>6, <1>7, <1>8, <1>9, <1>10 DEF Applying
<1> QED BY <1>11

LEMMA FollowApply ==
    ASSUME TypeInv, TypeInv', FollowInv, ApplyResult
    PROVE  FollowInv'
<1>1. PICK j : Applying(j) BY ApplyKinds
<1>2. /\ j \in Came /\ j \in Outcomes /\ Came' \subseteq Came /\ UNCHANGED <<done, job, result>>
      /\ Follows(queue, queue', DOMAIN queue, Closings)
      /\ \A n \in Workers : pc'[n] = "ran" <=> pc[n] = "ran"
      /\ queue \in Seq(Queued)
  BY <1>1 DEF Applying, TypeInv, ListsTyped
<1> DEFINE ts == {"free_pdf"}
<1>3. Follows(queue, queue', DOMAIN queue, NewOf(NoDoc, 0, ts)) BY <1>2 DEF Closings
<1>4. "render" \notin ts /\ "load" \notin ts OBVIOUS
<1> HIDE DEF ts
<1>5. Whole(queue, job) /\ Sorted(queue) BY DEF FollowInv, KindInv
<1>6. Whole(queue', job') BY <1>2, <1>3, <1>5, WholeFollows
<1>7. Sorted(queue') BY <1>3, <1>4, <1>5, SortedFollows
<1>8. OfPdfs(done') /\ OfPdfs(inbox')
  <2>1. \A i \in Came : i.type = "render" => i.doc \in Pdfs BY CameKinds DEF FollowInv, KindInv
  <2>2. \A i \in Came' : i.type = "render" => i.doc \in Pdfs BY <1>2, <2>1
  <2> QED BY <2>2, CameKindsLater
<1>9. ASSUME NEW d \in Docs, Live(d)' PROVE Followable(d)'
  <2>1. PICK g \in Nat : Becomes(d, g, j) BY <1>1, <1>9 DEF Applying
  <2>2. PICK e : /\ Became(d, g, j, e) /\ doc'[d].loading = e.loading /\ doc'[d].state = e.state
                 /\ TexFrom(doc'[d].tex, e.tex)
    BY <2>1 DEF Becomes
  <2>3. Live(d) /\ doc[d].gen = g /\ doc'[d].gen = g /\ doc'[d].pdf = doc[d].pdf BY <2>1 DEF Becomes
  <2>4. KnownTo(d, g) /\ BackedAt(d, g) /\ (d \in Pdfs => FreshAt(d, g)) /\ (d \notin Pdfs => Blank(doc[d]))
    BY <2>3 DEF FollowInv, KindInv, BackInv, FreshInv
  <2>5. NoDoc # d BY DocsAssumption
  <2>6. KnownTo(d, g)'
    <3>1. Known(queue, d, g) BY <2>4 DEF KnownTo
    <3>2. Known(queue', d, g) BY <1>3, <2>5, <3>1, KnownFollows
    <3>3. \A i \in Came : i.doc = d => i.gen <= g BY <2>4, CameKinds DEF KnownTo
    <3>4. \A i \in Came' : i.doc = d => i.gen <= g BY <1>2, <3>3
    <3> QED BY <3>2, <3>4, CameKindsLater DEF KnownTo
  <2>7. Tally(d, g) = Tally(d, g)' + (IF IsLoad(j, d, g) THEN 1 ELSE 0) /\ Tally(d, g)' \in Nat
    <3> DEFINE L == Loads(d, g)
    <3>1. j \in L <=> IsLoad(j, d, g) BY <1>2 DEF Loads
    <3>2. \A k \in DOMAIN queue : IsLoad(queue[k], d, g) => k \in DOMAIN queue OBVIOUS
    <3>3. HowMany(queue', L) = HowMany(queue, L) BY <1>2, <1>3, <2>5, <3>2, LoadsFollow
    <3> HIDE DEF L
    <3>4. HowMany(inbox, L) = HowMany(inbox', L) + (IF j \in L THEN 1 ELSE 0) BY <1>1 DEF Applying
    <3>5. HowMany(queue, L) \in Nat /\ HowMany(done, L) \in Nat BY SpotsFinite DEF TypeInv, ListsTyped
    <3>6. HowMany(inbox', L) \in Nat
      <4>1. inbox' \in Seq(Outcomes) BY DEF TypeInv, ListsTyped
      <4> QED BY <4>1, SpotsFinite
    <3>7. Tally(d, g)' = HowMany(queue, L) + HowMany(done, L) + HowMany(inbox', L)
      BY <1>2, <3>3 DEF Tally, L
    <3>8. Tally(d, g) = HowMany(queue, L) + HowMany(done, L) + HowMany(inbox, L)
      BY DEF Tally, L
    <3> QED BY <3>1, <3>4, <3>5, <3>6, <3>7, <3>8
  <2>8. BackedAt(d, g)'
    <3>1. CASE IsLoad(j, d, g)
      <4>1. AfterLoad(d, doc[d], j, e) BY <2>2, <3>1 DEF Became, Unlike, IsPage, IsLoad
      <4>2. Tally(d, g)' = 0 BY <2>4, <2>7, <3>1 DEF BackedAt
      <4> QED BY <2>2, <4>1, <4>2 DEF BackedAt, AfterLoad
    <3>2. CASE ~ IsLoad(j, d, g)
      <4>1. e.loading = doc[d].loading /\ e.state = doc[d].state BY <2>2, <3>2 DEF Became
      <4>2. Tally(d, g)' = Tally(d, g) BY <2>7, <3>2
      <4> QED BY <2>2, <2>4, <4>1, <4>2 DEF BackedAt
    <3> QED BY <3>1, <3>2
  <2>9. ASSUME d \notin Pdfs PROVE Blank(doc'[d])
    <3>1. Blank(doc[d]) BY <2>4, <2>9
    <3>2. ~ IsPage(j, d, g)
      <4>1. \A i \in Came : i.type = "render" => i.doc \in Pdfs BY CameKinds DEF FollowInv, KindInv
      <4> QED BY <1>2, <2>9, <4>1 DEF IsPage
    <3>3. Blank(e) BY <2>2, <2>9, <3>1, <3>2 DEF Became, AfterLoad
    <3> QED BY <2>2, <3>3 DEF Blank, TexFrom
  <2>10. ASSUME d \in Pdfs PROVE FreshAt(d, g)'
    <3>1. FreshAt(d, g) /\ Ordered(queue, d, g) /\ OldHeld(queue, d, g) BY <2>4, <2>10 DEF FreshAt
    <3>2. \A k \in DOMAIN queue : IsLoad(queue[k], d, g) /\ queue[k].by = NoWorker => k \in DOMAIN queue
      OBVIOUS
    <3>3. Ordered(queue', d, g) BY <1>2, <1>3, <2>5, <3>1, OrderedFollows
    <3>4. OldHeld(queue', d, g) BY <1>3, <2>5, <3>1, <3>2, OldFollow
    <3>5. LoadIn(queue', d, g) => LoadIn(queue, d, g) BY <1>3, <2>5, LoadWasIn
    <3>6. LoadIn(queue', d, g) => NoneCame(d, g)' BY <1>2, <3>1, <3>5 DEF FreshAt, NoneCame
    <3>7. LoadRan(d, g)' => doc'[d].pdf.gen = g BY <1>2, <2>3, <3>1 DEF FreshAt, LoadRan
    <3>8. Fed(d, g) => Fed(d, g)' BY <1>2, <2>3 DEF Fed
    <3>9. LoadCame(d, g)' => LoadCame(d, g) BY <1>2 DEF LoadCame
    <3>10. CASE IsLoad(j, d, g)
      <4>1. AfterLoad(d, doc[d], j, e) BY <2>2, <3>10 DEF Became, Unlike, IsPage, IsLoad
      <4>2. Settled(doc'[d]) => ~ j.error BY <2>2, <2>10, <4>1 DEF AfterLoad, Settled
      <4>3. Settled(doc'[d]) => LoadCame(d, g) BY <1>2, <3>10, <4>2 DEF LoadCame
      <4>4. Settled(doc'[d]) \/ LoadCame(d, g)' => Fed(d, g)' BY <3>1, <3>8, <3>9, <4>3 DEF FreshAt
      <4>5. OfGen(e, g) BY <2>10, <4>1 DEF OfGen, AfterLoad
      <4>6. OfGen(doc'[d], g) BY <2>2, <4>5, GenKept
      <4> QED BY <3>3, <3>4, <3>6, <3>7, <4>4, <4>6 DEF FreshAt
    <3>11. CASE ~ IsLoad(j, d, g)
      <4>1. Settled(doc'[d]) => Settled(doc[d]) BY <2>2, <3>11 DEF Became, Settled
      <4>2. Settled(doc'[d]) \/ LoadCame(d, g)' => Fed(d, g)' BY <3>1, <3>8, <3>9, <4>1 DEF FreshAt
      <4>3. ASSUME Settled(doc'[d]) PROVE OfGen(doc'[d], g)
        <5>1. OfGen(doc[d], g) /\ Fed(d, g) BY <3>1, <4>1, <4>3 DEF FreshAt
        <5>2. CASE IsPage(j, d, g)
          <6>1. j.pdf.gen = g BY <1>2, <5>1, <5>2 DEF Fed
          <6>2. \A p \in Pages : e.tex[p] = doc[d].tex[p] \/ e.tex[p].width = 0 \/ e.tex[p].gen = g
            BY <2>2, <3>11, <5>2, <6>1 DEF Became, Unlike
          <6>3. OfGen(e, g) BY <5>1, <6>2 DEF OfGen
          <6> QED BY <2>2, <6>3, GenKept
        <5>3. CASE ~ IsPage(j, d, g)
          <6>1. e = doc[d] BY <2>2, <3>11, <5>3 DEF Became
          <6> QED BY <2>2, <5>1, <6>1, GenKept
        <5> QED BY <5>2, <5>3
      <4> QED BY <3>3, <3>4, <3>6, <3>7, <4>2, <4>3 DEF FreshAt
    <3> QED BY <3>10, <3>11
  <2> QED BY <2>3, <2>6, <2>8, <2>9, <2>10 DEF Followable
<1> QED BY <1>6, <1>7, <1>8, <1>9, FollowsAll

-----------------------------------------------------------------------------
LEMMA FollowInit == Init => FollowInv
<1> SUFFICES ASSUME Init PROVE FollowInv
  OBVIOUS
<1>1. queue = <<>> /\ done = <<>> /\ inbox = <<>> BY DEF Init
<1>2. DOMAIN queue = {} /\ DOMAIN done = {} /\ DOMAIN inbox = {} BY <1>1
<1>3. \A d \in Docs : ~ Live(d)
  <2> SUFFICES ASSUME NEW d \in Docs PROVE ~ Live(d)
    OBVIOUS
  <2>1. doc[d] = NoRecord("new") BY DEF Init
  <2> QED BY <2>1 DEF NoRecord, Live
<1>4. Whole(queue, job) /\ Sorted(queue) /\ OfPdfs(done) /\ OfPdfs(inbox)
  BY <1>2 DEF Whole, Sorted, OfPdfs
<1>5. KindInv BY <1>3, <1>4 DEF KindInv
<1>6. BackInv /\ FreshInv BY <1>3, DocsAssumption DEF BackInv, FreshInv
<1> QED BY <1>5, <1>6 DEF FollowInv

LEMMA FollowStep ==
    TypeInv /\ TypeInv' /\ WorkHeld /\ CountInv /\ ExclusiveInv /\ FollowInv /\ [Next]_vars => FollowInv'
<1> SUFFICES ASSUME TypeInv, TypeInv', WorkHeld, CountInv, ExclusiveInv, FollowInv, [Next]_vars
             PROVE  FollowInv'
  OBVIOUS
<1>1. KindInv BY DEF FollowInv
<1>2. ASSUME NEW i \in Workers, Take(i) PROVE FollowInv' BY <1>2, FollowTake
<1>3. ASSUME NEW i \in Workers, Run(i) PROVE FollowInv' BY <1>3, FollowRun
<1>4. ASSUME NEW i \in Workers, Finish(i) PROVE FollowInv' BY <1>4, FollowFinish
<1>5. CASE Poll BY <1>5, FollowPoll
<1>6. CASE ApplyResult BY <1>6, FollowApply
<1>7. CASE Leaves BY <1>7, FollowLeaves
<1>8. CASE Starts BY <1>8, FollowStarts
<1>9. \/ \E i \in Workers : Take(i) \/ Run(i) \/ Finish(i)
      \/ Poll \/ ApplyResult \/ Leaves \/ Starts
  BY <1>1, Kinds
<1> QED BY <1>2, <1>3, <1>4, <1>5, <1>6, <1>7, <1>8, <1>9

-----------------------------------------------------------------------------
(* Pages flicked past.  While the screen is up to date, and while results  *)
(* are applied that leave it so, none waits.                               *)
Nearby(j) ==
    /\ j.type = "render" /\ j.by = NoWorker /\ j.doc \in {view[w] : w \in Windows}
    => Dist(j.page, doc[j.doc].page) <= 1
NoneFar == \A k \in DOMAIN queue : Nearby(queue[k])
FarInv == main \in {"idle", "poll"} /\ ~ dirty => NoneFar

(* Such a step has no page waiting that did not wait, and turns no page.   *)
Waited ==
    \A k \in DOMAIN queue' : queue'[k].type = "render" /\ queue'[k].by = NoWorker =>
        \E l \in DOMAIN queue : /\ queue[l].type = "render" /\ queue[l].by = NoWorker
                                /\ queue[l].doc = queue'[k].doc /\ queue[l].page = queue'[k].page
SamePages == view' = view /\ \A d \in Docs : Live(d)' => doc'[d].page = doc[d].page

LEMMA StaysNear ==
    ASSUME ShownAreLive', view \in [Windows -> Docs \cup {NoDoc}], Sorted(queue'), Waited, SamePages, NoneFar
    PROVE  NoneFar'
<1> SUFFICES ASSUME NEW k \in DOMAIN queue', queue'[k].type = "render", queue'[k].by = NoWorker,
                    queue'[k].doc \in {view'[w] : w \in Windows}
             PROVE  Dist(queue'[k].page, doc'[queue'[k].doc].page) <= 1
  BY DEF NoneFar, Nearby
<1>1. PICK l \in DOMAIN queue : /\ queue[l].type = "render" /\ queue[l].by = NoWorker
                                /\ queue[l].doc = queue'[k].doc /\ queue[l].page = queue'[k].page
  BY DEF Waited
<1>2. view' = view BY DEF SamePages
<1>3. Dist(queue[l].page, doc[queue[l].doc].page) <= 1 BY <1>1, <1>2 DEF NoneFar, Nearby
<1>4. queue'[k].doc \in Pdfs BY DEF Sorted
<1>5. PICK d \in Docs : d = queue'[k].doc BY <1>4, DocsAssumption
<1>6. PICK w \in Windows : view'[w] = d /\ d # NoDoc BY <1>5, DocsAssumption
<1>7. Live(d)' BY <1>6 DEF ShownAreLive
<1>8. doc'[d].page = doc[d].page BY <1>7 DEF SamePages
<1> QED BY <1>1, <1>3, <1>5, <1>8

LEMMA WaitedFollows ==
    ASSUME NEW K, Follows(queue, queue', K, Closings)
    PROVE  Waited
<1> SUFFICES ASSUME NEW k \in DOMAIN queue', queue'[k].type = "render", queue'[k].by = NoWorker
             PROVE  \E l \in DOMAIN queue : /\ queue[l].type = "render" /\ queue[l].by = NoWorker
                                /\ queue[l].doc = queue'[k].doc /\ queue[l].page = queue'[k].page
  BY DEF Waited
<1>1. queue'[k] \notin Closings BY DEF Closings, NewOf
<1>2. PICK l \in K : l \in DOMAIN queue /\ Kin(queue'[k], queue[l]) BY <1>1, OriginKind
<1> QED BY <1>2 DEF Kin

LEMMA FarEndFrame ==
    ASSUME TypeInv, CountInv, Sorted(queue), EndFrame
    PROVE  NoneFar'
<1> DEFINE S == {k \in DOMAIN queue : ~ (queue[k].doc \in ShownPdfs /\ FlickedPast(queue[k]))}
<1>1. queue' = Selected(queue, S) /\ queue \in Seq(Queued) BY EndDoes DEF TypeInv, ListsTyped
<1>2. PICK D : Pruned(D) /\ Slimmed(D, doc') BY EndDoes
<1>3. \A d \in Docs : doc'[d].page = doc[d].page BY <1>2 DEF Pruned, Slimmed, OnlyTextures
<1>4. view' = view BY DEF EndFrame, userVars
<1>5. Follows(queue, queue', S \cap DOMAIN queue, Closings)
  <2> HIDE DEF S
  <2> QED BY <1>1, FollowsSelected
<1> SUFFICES ASSUME NEW k \in DOMAIN queue', queue'[k].type = "render", queue'[k].by = NoWorker,
                    queue'[k].doc \in {view'[w] : w \in Windows}
             PROVE  Dist(queue'[k].page, doc'[queue'[k].doc].page) <= 1
  BY DEF NoneFar, Nearby
<1>6. queue'[k] \notin Closings BY DEF Closings, NewOf
<1>7. PICK l \in S \cap DOMAIN queue : l \in DOMAIN queue /\ Kin(queue'[k], queue[l])
  <2> HIDE DEF S
  <2> QED BY <1>5, <1>6, OriginKind
<1>8. /\ queue[l].type = "render" /\ queue[l].by = NoWorker
      /\ queue[l].doc = queue'[k].doc /\ queue[l].page = queue'[k].page
  BY <1>7 DEF Kin
<1>9. queue[l].doc \in Pdfs BY <1>8 DEF Sorted
<1>10. PICK d \in Docs : d = queue[l].doc BY <1>9, DocsAssumption
<1>11. d \in ShownPdfs BY <1>4, <1>8, <1>9, <1>10, DocsAssumption DEF ShownPdfs, Placed
<1>12. ~ FlickedPast(queue[l]) BY <1>7, <1>10, <1>11
<1>13. ~ (Dist(queue[l].page, doc[d].page) > 1) BY <1>8, <1>10, <1>12 DEF FlickedPast
<1>14. PICK r \in Document : r = doc[d] BY <1>10 DEF TypeInv, DocsTyped
<1>15. queue[l] \in Queued BY <1>1
<1>16. queue[l].page \in Pages /\ r.page \in Pages BY <1>15 DEF Queued, Job, Document
<1>17. Dist(queue[l].page, r.page) \in Int BY <1>16 DEF Dist, Pages
<1>18. Dist(queue[l].page, r.page) <= 1 BY <1>13, <1>14, <1>17
<1> QED BY <1>3, <1>8, <1>10, <1>14, <1>18

LEMMA FarStep ==
    ASSUME TypeInv, TypeInv', CountInv, CountInv', KindInv, KindInv', FarInv, [Next]_vars
    PROVE  FarInv'
<1>1. /\ view \in [Windows -> Docs \cup {NoDoc}] /\ view' \in [Windows -> Docs \cup {NoDoc}]
      /\ Sorted(queue) /\ Sorted(queue') /\ ShownAreLive /\ ShownAreLive'
      /\ doc \in [Docs -> Document] /\ DOMAIN pc = Workers
  BY DEF TypeInv, MainTyped, DocsTyped, WorkTyped, KindInv, CountInv
<1>2. SUFFICES ASSUME main' \in {"idle", "poll"}, dirty' = FALSE PROVE NoneFar'
  BY DEF FarInv, TypeInv, MainTyped
<1>3. ASSUME main \in {"idle", "poll"}, ~ dirty, Waited, SamePages PROVE NoneFar'
  <2>1. NoneFar BY <1>3 DEF FarInv
  <2> QED BY <1>1, <1>3, <2>1, StaysNear
<1>4. ASSUME queue' = queue PROVE Waited BY <1>4 DEF Waited
<1>5. ASSUME doc' = doc, view' = view PROVE SamePages BY <1>5 DEF SamePages
<1>6. ASSUME NEW i \in Workers, Worker(i) PROVE NoneFar'
  <2>1. main' = main /\ dirty' = dirty /\ view' = view
    BY <1>6 DEF Worker, Take, Sleep, Exit, Run, Finish, mainVars, userVars
  <2>2. main \in {"idle", "poll"} /\ ~ dirty BY <1>2, <2>1
  <2>3. CASE Take(i)
    <3>1. PICK k : Taking(i, k) BY <2>3, TakeDoes
    <3>2. ASSUME NEW m \in DOMAIN queue', queue'[m].by = NoWorker PROVE m \in DOMAIN queue /\ queue'[m] = queue[m]
      BY <3>1, <3>2, WorkersAssumption DEF Taking
    <3>3. Waited BY <3>2 DEF Waited
    <3>4. doc' = doc BY <3>1 DEF Taking
    <3> QED BY <1>3, <1>5, <2>1, <2>2, <3>3, <3>4
  <2>4. CASE Sleep(i) \/ Exit(i)
    <3>1. queue' = queue /\ doc' = doc BY <2>4 DEF Sleep, Exit, lockVars, docVars
    <3> QED BY <1>3, <1>4, <1>5, <2>1, <2>2, <3>1
  <2>5. CASE Run(i)
    <3>1. queue' = queue BY <2>5 DEF Run, lockVars
    <3>2. SamePages
      <4>1. \/ doc' = doc
            \/ \E pdf \in PdfFile : job[i].doc \in Docs /\ doc' = [doc EXCEPT ![job[i].doc].pdf = pdf]
        BY <2>5, RunLoads DEF Run, RunRender, docVars
      <4>2. ASSUME NEW pdf \in PdfFile, NEW c \in Docs, doc' = [doc EXCEPT ![c].pdf = pdf], NEW d \in Docs
            PROVE  doc'[d].page = doc[d].page
        <5>1. PICK r \in Document : r = doc[d] BY <1>1
        <5>2. doc'[d] = r \/ doc'[d] = [r EXCEPT !.pdf = pdf] BY <1>1, <4>2, <5>1
        <5> QED BY <5>1, <5>2 DEF Document
      <4> QED BY <2>1, <4>1, <4>2 DEF SamePages
    <3> QED BY <1>3, <1>4, <2>2, <3>1, <3>2
  <2>6. CASE Finish(i)
    <3>1. queue' = Selected(queue, {k \in DOMAIN queue : queue[k].by # i}) /\ doc' = doc
      BY <2>6 DEF Finish, docVars
    <3> DEFINE S == {k \in DOMAIN queue : queue[k].by # i}
    <3>2. queue \in Seq(Queued) BY DEF TypeInv, ListsTyped
    <3>3. Follows(queue, queue', S \cap DOMAIN queue, Closings)
      <4> HIDE DEF S
      <4> QED BY <3>1, <3>2, FollowsSelected DEF S
    <3> HIDE DEF S
    <3>4. Waited BY <3>3, WaitedFollows
    <3> QED BY <1>3, <1>5, <2>1, <2>2, <3>1, <3>4
  <2> QED BY <1>6, <2>3, <2>4, <2>5, <2>6 DEF Worker
<1>7. CASE User
  <2>1. ~ Command BY <1>2 DEF Command
  <2>2. ~ Shutdown BY <1>2 DEF Shutdown
  <2> QED BY <1>7, <2>1, <2>2 DEF User, Open, Close, Reload, TurnPage, Show, Resize, DeviceReset
<1>8. CASE Poll
  <2>1. UNCHANGED <<doc, view, queue, dirty>> /\ main = "idle" BY <1>8 DEF Poll, docVars, userVars
  <2> QED BY <1>2, <1>3, <1>4, <1>5, <2>1
<1>9. CASE ApplyResult
  <2>1. main = "poll" /\ view' = view BY <1>9 DEF ApplyResult, userVars
  <2>2. ~ dirty
    <3>1. dirty' = (dirty \/ ((changed \/ Current(Head(inbox))) /\ Len(inbox) = 1)) BY <1>9 DEF ApplyResult
    <3> QED BY <1>2, <3>1
  <2>3. PICK j : Applying(j) BY <1>9, ApplyKinds
  <2>4. Waited
    <3>1. Follows(queue, queue', DOMAIN queue, Closings) BY <2>3 DEF Applying
    <3> QED BY <3>1, WaitedFollows
  <2>5. PICK n, r, D : Applied(n, r, D) BY <1>9, ApplyDoes
  <2>6. PICK c \in Docs : c = n.doc BY <2>5 DEF Applied
  <2>7. /\ r \in Document /\ r.page = doc[c].page
        /\ D = [doc EXCEPT ![c] = Unreferenced(r, 1)] /\ OnlyTextures(D, doc')
    BY <2>5, <2>6 DEF Applied, Slimmed
  <2>8. ASSUME NEW d \in Docs, Live(d)' PROVE doc'[d].page = doc[d].page
    <3>1. doc'[d].page = D[d].page /\ doc'[d].life = D[d].life BY <2>7 DEF OnlyTextures
    <3>2. CASE d # c BY <1>1, <2>7, <3>1, <3>2
    <3>3. CASE d = c
      <4>1. D[d] = Unreferenced(r, 1) BY <1>1, <2>7, <3>3
      <4>2. r.refs \in Int BY <2>7 DEF Document
      <4>3. CASE r.refs > 1
        <5>1. Unreferenced(r, 1).page = r.page BY <2>7, <4>3, Unreference
        <5> QED BY <2>7, <3>1, <3>3, <4>1, <5>1
      <4>4. CASE r.refs <= 1
        <5>1. Unreferenced(r, 1) = NoRecord("freed") BY <2>7, <4>4, Unreference
        <5> QED BY <2>8, <3>1, <4>1, <5>1 DEF Live, NoRecord
      <4> QED BY <4>2, <4>3, <4>4
    <3> QED BY <3>2, <3>3
  <2>9. SamePages BY <2>1, <2>8 DEF SamePages
  <2> QED BY <1>3, <2>1, <2>2, <2>4, <2>9
<1>10. CASE StartFrame
  <2>1. /\ main' = (IF Placed = {} THEN "idle" ELSE "draw")
        /\ UNCHANGED <<userVars, lockVars>>
    BY <1>10, FrameStarts
  <2>2. Placed = {} BY <1>2, <2>1
  <2>3. \A w \in Windows : view'[w] = NoDoc BY <2>1, <2>2 DEF Placed, userVars
  <2> QED BY <1>1, <2>3, DocsAssumption DEF NoneFar, Nearby, Sorted
<1>11. ASSUME NEW w \in Windows, DrawPlace(w) PROVE NoneFar'
  BY <1>2, <1>11 DEF DrawPlace
<1>12. CASE EndFrame BY <1>1, <1>12, FarEndFrame
<1>13. CASE Stop BY <1>2, <1>13 DEF Stop
<1>14. CASE UNCHANGED vars
  <2>1. UNCHANGED <<doc, view, queue, dirty, main>> BY <1>14 DEF vars, docVars, userVars, mainVars, lockVars
  <2> QED BY <1>2, <1>3, <1>4, <1>5, <2>1
<1> QED BY <1>6, <1>7, <1>8, <1>9, <1>10, <1>11, <1>12, <1>13, <1>14 DEF Next, Main

-----------------------------------------------------------------------------
LEMMA FarInit == Init => FarInv
<1> SUFFICES ASSUME Init PROVE FarInv
  OBVIOUS
<1>1. DOMAIN queue = {} BY DEF Init
<1> QED BY <1>1 DEF FarInv, NoneFar

PageInv == RefsInv /\ ExclusiveInv /\ FollowInv /\ FarInv

LEMMA PagesAlways == Spec => []PageInv
<1>1. Init => PageInv
  BY TypeInit, HeldInit, CountInit, ExclusiveInit, FollowInit, FarInit DEF PageInv, RefsInv
<1>2. PageInv /\ [Next]_vars => PageInv'
  <2> SUFFICES ASSUME PageInv, [Next]_vars PROVE PageInv'
    OBVIOUS
  <2>1. TypeInv /\ WorkHeld /\ CountInv /\ ExclusiveInv /\ FollowInv /\ FarInv BY DEF PageInv, RefsInv
  <2>2. TypeInv' BY <2>1, TypeStep
  <2>3. WorkHeld' BY <2>1, <2>2, HeldStep
  <2>4. CountInv' BY <2>1, <2>2, CountStep
  <2>5. ExclusiveInv' BY <2>1, ExclusiveStep
  <2>6. FollowInv' BY <2>1, <2>2, FollowStep
  <2>7. FarInv' BY <2>1, <2>2, <2>4, <2>6, FarStep DEF FollowInv
  <2> QED BY <2>2, <2>3, <2>4, <2>5, <2>6, <2>7 DEF PageInv, RefsInv
<1> QED BY <1>1, <1>2, PTL DEF Spec

(* What is shown is of the file last loaded: an image is no texture of     *)
(* pages, and a PDF's pages are fresh.                                     *)
LEMMA FreshPages ==
    ASSUME TypeInv, FollowInv
    PROVE  PagesFresh
<1> SUFFICES ASSUME NEW d \in Docs, NEW p \in Pages, Live(d), doc[d].state = "ready", ~ doc[d].loading,
                    HasTex(doc, d, p), ~ doc[d].tex[p].stale
             PROVE  doc[d].tex[p].gen = doc[d].gen
  BY DEF PagesFresh
<1>1. doc[d].tex[p].width # 0 BY DEF HasTex
<1>2. CASE d \in Pdfs
  <2>1. FreshAt(d, doc[d].gen) BY <1>2 DEF FollowInv, FreshInv
  <2>2. OfGen(doc[d], doc[d].gen) BY <2>1 DEF FreshAt, Settled
  <2> QED BY <1>1, <2>2 DEF OfGen
<1>3. CASE d \notin Pdfs
  BY <1>1, <1>3 DEF FollowInv, KindInv, Blank
<1> QED BY <1>2, <1>3

LEMMA LoadsAreBacked ==
    ASSUME TypeInv, FollowInv
    PROVE  LoadingIsBacked
<1> SUFFICES ASSUME NEW d \in Docs, Live(d)
             PROVE  /\ Cardinality(LoadsOf(queue, d)) + Cardinality(LoadsOf(done, d))
                        + Cardinality(LoadsOf(inbox, d)) = (IF doc[d].loading THEN 1 ELSE 0)
                    /\ doc[d].state = "loading" => doc[d].loading
  BY DEF LoadingIsBacked
<1>1. queue \in Seq(Queued) /\ done \in Seq(Outcomes) /\ inbox \in Seq(Outcomes)
  BY DEF TypeInv, ListsTyped
<1>2. /\ \A k \in DOMAIN queue : queue[k] \in Queued
      /\ \A k \in DOMAIN done : done[k] \in Outcomes
      /\ \A k \in DOMAIN inbox : inbox[k] \in Outcomes
  BY <1>1
<1> DEFINE L == Loads(d, doc[d].gen)
<1>3. LoadsOf(queue, d) = Spots(queue, L) BY <1>2 DEF LoadsOf, Of, Spots, Loads, IsLoad
<1>4. LoadsOf(done, d) = Spots(done, L) BY <1>2 DEF LoadsOf, Of, Spots, Loads, IsLoad
<1>5. LoadsOf(inbox, d) = Spots(inbox, L) BY <1>2 DEF LoadsOf, Of, Spots, Loads, IsLoad
<1>6. BackedAt(d, doc[d].gen) BY DEF FollowInv, BackInv
<1> QED BY <1>3, <1>4, <1>5, <1>6 DEF BackedAt, Tally, HowMany

(* What was rendered from a file since replaced is never taken for the     *)
(* newer one, whatever was running when it was reloaded; a document says   *)
(* it is loading while one load of its generation is outstanding, and only *)
(* then; and once the screen is up to date no job waits for a page flicked *)
(* past.                                                                   *)
THEOREM PagesAreFollowed == Spec => []PagesFollowed
<1>1. ASSUME PageInv PROVE PagesFollowed
  <2>1. PagesFresh BY <1>1, FreshPages DEF PageInv, RefsInv
  <2>2. LoadingIsBacked BY <1>1, LoadsAreBacked DEF PageInv, RefsInv
  <2>3. NothingFarWaits
    <3> SUFFICES ASSUME main = "idle", ~ dirty, NEW k \in DOMAIN queue,
                        queue[k].type = "render", queue[k].by = NoWorker,
                        queue[k].doc \in {view[w] : w \in Windows}
                 PROVE  Dist(queue[k].page, doc[queue[k].doc].page) <= 1
      BY DEF NothingFarWaits
    <3>1. NoneFar BY <1>1 DEF PageInv, FarInv
    <3> QED BY <3>1 DEF NoneFar, Nearby
  <2> QED BY <2>1, <2>2, <2>3 DEF PagesFollowed
<1> QED BY <1>1, PagesAlways, PTL
=============================================================================
