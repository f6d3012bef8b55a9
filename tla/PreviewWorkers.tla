--------------------------- MODULE PreviewWorkers ---------------------------
(***************************************************************************)
(* Previews of images and PDFs in xzile-gui (src/modes/gui_preview.c): the *)
(* main thread opens, reloads, draws and closes documents and submits jobs *)
(* to a queue; up to NWORKERS threads load files and render pages, and put *)
(* what they finished on a list that the main thread polls when an SDL     *)
(* event wakes it.                                                         *)
(*                                                                         *)
(* Everything done under one hold of `lock' is one action.  A job's work,  *)
(* done without the lock, is an action between the two holds around it     *)
(* (Take, Run, Finish), so the threads interleave there.  A frame and a    *)
(* poll of the main thread are several actions, one per window drawn and   *)
(* one per result applied, and the workers may run between them.           *)
(*                                                                         *)
(* Abstracted: the pixels and the time a texture was last used, of which   *)
(* only "in this frame or not" is kept, so that the least recently used    *)
(* textures are any of those not used in this frame; the size of a texture *)
(* (each counts one towards TEXTURE_BUDGET); the size a page is rendered   *)
(* at, which is the width of the window that asked for it.  A file read    *)
(* twice may have changed: each load finds an error or any page count.     *)
(***************************************************************************)
EXTENDS Integers, SequencesExt, Selection

CONSTANTS
    Docs,            \* documents that may be opened; each is opened once
    Pdfs,            \* those of them that are PDFs; the rest are images
    NoDoc,           \* no document: a NULL pointer
    Windows,         \* the windows of the editor
    Widths,          \* the sizes a page may be shown at
    Workers,         \* worker threads (NWORKERS, 2, in the source)
    NoWorker,
    THREADS_MAY_FAIL, \* whether pthread_create may fail
    MAX_PAGES,       \* bound: pages of a PDF
    KEEP_PAGES,      \* pages kept either side of the one shown (2)
    TEXTURE_BUDGET,  \* textures kept before those not shown are freed
    MAX_COMMANDS     \* bound: commands and window events of one run

ASSUME DocsAssumption == /\ Pdfs \subseteq Docs
                         /\ NoDoc \notin Docs
ASSUME WorkersAssumption == NoWorker \notin Workers /\ THREADS_MAY_FAIL \in BOOLEAN
ASSUME SizesAssumption == /\ Widths \subseteq Nat \ {0}
                          /\ MAX_PAGES \in Nat \ {0}
                          /\ KEEP_PAGES \in Nat \ {0}
                          /\ TEXTURE_BUDGET \in Nat
                          /\ MAX_COMMANDS \in Nat

VARIABLES
    doc,         \* the main thread's documents, and the PdfFile of each
    view,        \* the document each window shows, or NoDoc
    width,       \* how large each window shows it
    commands,    \* commands given so far
    main,        \* what the main thread is doing
    todo,        \* windows still to be drawn in this frame
    inbox,       \* results taken by a poll and not applied yet, oldest first
    changed,     \* whether this poll has changed a document
    dirty,       \* a redisplay is due
    queue,       \* waiting and running jobs, in order of submission
    done,        \* finished jobs, newest first
    busy,        \* the documents a worker has a job for
    pdfRunning,  \* a worker is using poppler
    quitting, wakePending,
    wakeEvents,  \* wake-up events in SDL's queue
    pc,          \* where each worker is
    job, result, \* the job each worker has, and what came of it
    handles,     \* the PdfFiles that are open
    decodeQuit   \* image_decode_quit was called

docVars == <<doc, handles>>
userVars == <<view, width, commands>>
mainVars == <<main, todo, inbox, changed, dirty>>
lockVars == <<queue, done, busy, pdfRunning, quitting, wakePending, wakeEvents>>
workerVars == <<pc, job, result>>
vars == <<docVars, userVars, mainVars, lockVars, workerVars, decodeQuit>>

Pages == 0 .. MAX_PAGES - 1
NoPdf == [doc |-> NoDoc, gen |-> 0, pages |-> 0]
NoTex == [width |-> 0, stale |-> FALSE, now |-> FALSE, gen |-> 0]
NoPages == [p \in Pages |-> NoTex]

(* A document whose memory is not (yet, or any more) in use. *)
NoRecord(life) ==
    [life |-> life, gen |-> 0, refs |-> 0, state |-> "loading", loading |-> FALSE,
     mips |-> FALSE, now |-> FALSE, npages |-> 0, page |-> 0,
     tex |-> NoPages, errors |-> {}, pdf |-> NoPdf]

(* A job as submitted: `by' is the worker running it, if any. *)
NewJob(type, d, gen, prio, p, w) ==
    [type |-> type, doc |-> d, gen |-> gen, prio |-> prio, page |-> p, width |-> w,
     by |-> NoWorker, pdf |-> NoPdf]
FreeJob(pdf) == [NewJob("free_pdf", NoDoc, 0, 0, 0, 0) EXCEPT !.pdf = pdf]
NoJob == NewJob("none", NoDoc, 0, 0, 0, 0)

(* Its results: an error, the pages a PDF has, the PDF a page is from. *)
NoResult == [error |-> FALSE, npages |-> 0, pdf |-> NoPdf]
Finished(j, r) ==
    [type |-> j.type, doc |-> j.doc, gen |-> j.gen, page |-> j.page, width |-> j.width,
     error |-> r.error, npages |-> r.npages, pdf |-> r.pdf]

IsPdfJob(j) == j.type = "free_pdf" \/ j.doc \in Pdfs

Live(d) == doc[d].life = "open"
HasTex(D, d, p) == D[d].tex[p].width # 0

Init ==
    /\ doc = [d \in Docs |-> NoRecord("new")]
    /\ handles = {}
    /\ view = [w \in Windows |-> NoDoc]
    /\ width \in [Windows -> Widths]
    /\ commands = 0
    /\ main = "idle" /\ todo = {} /\ inbox = <<>> /\ changed = FALSE /\ dirty = FALSE
    /\ queue = <<>> /\ done = <<>> /\ busy = {} /\ pdfRunning = FALSE
    /\ quitting = FALSE /\ wakePending = FALSE /\ wakeEvents = 0
    /\ pc = [i \in Workers |-> "unstarted"]
    /\ job = [i \in Workers |-> NoJob]
    /\ result = [i \in Workers |-> NoResult]
    /\ decodeQuit = FALSE

-----------------------------------------------------------------------------
(* The queue, from the main thread. *)

(* pthread_cond_broadcast on work_cond. *)
Woken_NoBroadcast(at) == at
Woken(at) == [i \in Workers |-> IF at[i] = "wait" THEN "loop" ELSE at[i]]

(* submit, once or more if `submitted': the threads not running are        *)
(* started, and those waiting woken.                                       *)
Unstarted == {i \in Workers : pc[i] = "unstarted"}
Startable == IF quitting THEN {{}}
             ELSE IF THREADS_MAY_FAIL THEN SUBSET Unstarted ELSE {Unstarted}
Signal(submitted) ==
    /\ UNCHANGED <<job, result>>
    /\ IF submitted
       THEN \E S \in Startable :
               pc' = Woken([i \in Workers |-> IF i \in S THEN "loop" ELSE pc[i]])
       ELSE UNCHANGED pc
Submit(q) == queue' = q /\ Signal(Len(q) > Len(queue))

(* start_load: the document as it is afterwards, and its job. *)
Loading_NoReference(r) == [r EXCEPT !.loading = TRUE]
Loading(r) == [r EXCEPT !.loading = TRUE, !.refs = @ + 1]
LoadJob(d, gen) == NewJob("load", d, gen, 0, 0, 0)

(* cancel_jobs with nothing to keep: the waiting jobs of d go. *)
Cancelled(q, d) == Selected(q, {k \in DOMAIN q : ~ (q[k].doc = d /\ q[k].by = NoWorker)})

(* request_render: ask for a page, unless that is in hand.  A waiting job  *)
(* for the page takes the new size; a running one of that size will do.    *)
Requested(q, d, p, w, prio) ==
    LET Same(k) == /\ q[k].type = "render" /\ q[k].doc = d
                   /\ q[k].page = p /\ q[k].gen = doc[d].gen
        waiting == {k \in DOMAIN q : Same(k) /\ q[k].by = NoWorker}
    IN  IF waiting # {}
        THEN [k \in DOMAIN q |->
                IF k \in waiting
                THEN [q[k] EXCEPT !.width = w, !.prio = IF prio < @ THEN prio ELSE @]
                ELSE q[k]]
        ELSE IF \E k \in DOMAIN q : Same(k) /\ q[k].width = w
             THEN q
             ELSE Append(q, NewJob("render", d, doc[d].gen, prio, p, w))

(* doc_unref, n references at once: the last frees the document, and has a *)
(* worker close its PDF.                                                   *)
Unreferenced(r, n) ==
    IF r.refs > n THEN [r EXCEPT !.refs = @ - n] ELSE NoRecord("freed")
PdfToFree_Never(r, n) == <<>>
PdfToFree(r, n) == IF r.refs <= n /\ r.pdf # NoPdf THEN <<FreeJob(r.pdf)>> ELSE <<>>

-----------------------------------------------------------------------------
(* Workers. *)

CanRun_PdfsTogether(j) == j.by = NoWorker /\ j.doc \notin busy
CanRun(j) == /\ j.by = NoWorker
             /\ j.doc \notin busy
             /\ ~ (IsPdfJob(j) /\ pdfRunning)
Runnable == {k \in DOMAIN queue : CanRun(queue[k])}

(* take_job: the most urgent job that can run, the oldest of those. *)
Take(i) ==
    /\ pc[i] = "loop" /\ ~ quitting
    /\ \E k \in Runnable :
          /\ \A m \in Runnable : \/ queue[k].prio < queue[m].prio
                                 \/ queue[k].prio = queue[m].prio /\ k <= m
          /\ job' = [job EXCEPT ![i] = queue[k]]
          /\ queue' = [queue EXCEPT ![k].by = i]
          /\ busy' = busy \cup ({queue[k].doc} \ {NoDoc})
          /\ pdfRunning' = (pdfRunning \/ IsPdfJob(queue[k]))
    /\ pc' = [pc EXCEPT ![i] = "run"]
    /\ UNCHANGED <<docVars, userVars, mainVars, done, quitting, wakePending,
                   wakeEvents, result, decodeQuit>>

Sleep(i) ==
    /\ pc[i] = "loop" /\ ~ quitting /\ Runnable = {}
    /\ pc' = [pc EXCEPT ![i] = "wait"]
    /\ UNCHANGED <<docVars, userVars, mainVars, lockVars, job, result, decodeQuit>>

Exit(i) ==
    /\ pc[i] = "loop" /\ quitting
    /\ pc' = [pc EXCEPT ![i] = "exited"]
    /\ UNCHANGED <<docVars, userVars, mainVars, lockVars, job, result, decodeQuit>>

(* load: an image is decoded; a PDF that opens replaces the document's. *)
RunLoad(i) ==
    LET j == job[i]
        new == [doc |-> j.doc, gen |-> j.gen, pages |-> 0]
        Outcome(error, n) == result' = [result EXCEPT ![i].error = error, ![i].npages = n]
    IN  \/ /\ Outcome(TRUE, 0)
           /\ UNCHANGED docVars
        \/ /\ j.doc \notin Pdfs
           /\ Outcome(FALSE, 0)
           /\ UNCHANGED docVars
        \/ /\ j.doc \in Pdfs
           /\ \E n \in 1 .. MAX_PAGES :
                 /\ Outcome(FALSE, n)
                 /\ doc' = [doc EXCEPT ![j.doc].pdf = [new EXCEPT !.pages = n]]
                 /\ handles' = (handles \ {doc[j.doc].pdf}) \cup {[new EXCEPT !.pages = n]}

(* pdf_render_page on the document's PDF, which may have no such page. *)
RunRender(i) ==
    LET pdf == doc[job[i].doc].pdf
    IN  /\ \E error \in BOOLEAN :
              /\ job[i].page >= pdf.pages => error
              /\ result' = [result EXCEPT ![i].error = error, ![i].pdf = pdf]
        /\ UNCHANGED docVars

(* The work itself, without the lock. *)
Run(i) ==
    /\ pc[i] = "run"
    /\ \/ job[i].type = "load" /\ RunLoad(i)
       \/ job[i].type = "render" /\ RunRender(i)
       \/ /\ job[i].type = "free_pdf"
          /\ handles' = handles \ {job[i].pdf}
          /\ UNCHANGED <<doc, result>>
    /\ pc' = [pc EXCEPT ![i] = "ran"]
    /\ UNCHANGED <<userVars, mainVars, lockVars, job, decodeQuit>>

(* The wake-up event is sent unless one is under way, or SDL may be gone.  *)
Announce_AlsoQuitting ==
    /\ wakePending' = TRUE
    /\ wakeEvents' = IF wakePending THEN wakeEvents ELSE wakeEvents + 1
Announce ==
    IF wakePending \/ quitting
    THEN UNCHANGED <<wakePending, wakeEvents>>
    ELSE wakePending' = TRUE /\ wakeEvents' = wakeEvents + 1

(* Under the lock again: the job leaves the queue, a result goes on `done' *)
(* and the main thread is woken.                                           *)
Finish(i) ==
    /\ pc[i] = "ran"
    /\ busy' = busy \ {job[i].doc}
    /\ pdfRunning' = (pdfRunning /\ ~ IsPdfJob(job[i]))
    /\ queue' = Selected(queue, {k \in DOMAIN queue : queue[k].by # i})
    /\ IF job[i].type = "free_pdf"
       THEN UNCHANGED <<done, wakePending, wakeEvents>>
       ELSE /\ done' = <<Finished(job[i], result[i])>> \o done
            /\ Announce
    /\ job' = [job EXCEPT ![i] = NoJob]
    /\ result' = [result EXCEPT ![i] = NoResult]
    /\ pc' = Woken([pc EXCEPT ![i] = "loop"])
    /\ UNCHANGED <<docVars, userVars, mainVars, quitting, decodeQuit>>

Worker(i) == Take(i) \/ Sleep(i) \/ Exit(i) \/ Run(i) \/ Finish(i)

-----------------------------------------------------------------------------
(* Textures, on the main thread. *)

Textures(D) ==
    {<<d, -1>> : d \in {e \in Docs : D[e].mips}}
        \cup {t \in Docs \X Pages : HasTex(D, t[1], t[2])}
InUse(D, t) == IF t[2] = -1 THEN D[t[1]].now ELSE D[t[1]].tex[t[2]].now
Without(D, ts) ==
    [d \in Docs |-> [D[d] EXCEPT
        !.mips = @ /\ <<d, -1>> \notin ts,
        !.tex = [p \in Pages |-> IF <<d, p>> \in ts THEN NoTex ELSE @[p]]]]

Evictable_All(D) == Textures(D)
Evictable(D) == {t \in Textures(D) : ~ InUse(D, t)}

(* trim_textures: what the documents may be afterwards. *)
Trimmed(D) ==
    LET over == Cardinality(Textures(D)) - TEXTURE_BUDGET
        old == Evictable(D)
        Freed == IF over <= 0 THEN {{}}
                 ELSE IF Cardinality(old) <= over THEN {old}
                 ELSE {ts \in SUBSET old : Cardinality(ts) = over}
    IN  {Without(D, ts) : ts \in Freed}

(* set_failed *)
Failed(r) == [r EXCEPT !.state = "failed", !.mips = FALSE, !.tex = NoPages]

(* The pages of a PDF loaded again stay on screen until rendered again. *)
Reloaded_StillGood(r, n) == [p \in Pages |-> IF p >= n THEN NoTex ELSE r.tex[p]]
Reloaded(r, n) ==
    [p \in Pages |-> IF p >= n \/ r.tex[p] = NoTex THEN NoTex
                     ELSE [r.tex[p] EXCEPT !.stale = TRUE]]

(* finish_load: what the document r may become.  Its textures may fail. *)
FinishLoad(d, r, j) ==
    LET loaded == [r EXCEPT !.loading = FALSE]
    IN  IF j.error THEN {Failed(loaded)}
        ELSE IF d \in Pdfs
        THEN {[loaded EXCEPT !.state = "ready", !.npages = j.npages,
                 !.tex = Reloaded(r, j.npages)]}
        ELSE {[loaded EXCEPT !.state = "ready", !.mips = TRUE], Failed(loaded)}

(* The texture of a page rendered by j, in place of `old'. *)
Rendered(j, old) ==
    [width |-> j.width, stale |-> FALSE, now |-> TRUE, gen |-> j.pdf.gen]

(* finish_render, likewise. *)
FinishRender(r, j) ==
    LET failed == [r EXCEPT !.errors = @ \cup {j.page}, !.tex[j.page] = NoTex]
    IN  IF j.page >= r.npages THEN {r}
        ELSE IF j.error THEN {failed}
        ELSE {failed, [r EXCEPT !.tex[j.page] = Rendered(j, @)]}

(* Results for a closed document, or from before a reload, are dropped. *)
Current(j) == Live(j.doc) /\ j.gen = doc[j.doc].gen

AllTaken_StillPending == UNCHANGED wakePending
AllTaken == wakePending' = FALSE

(* gui_preview_poll takes what is done ... *)
Poll ==
    /\ main = "idle" /\ wakeEvents > 0
    /\ wakeEvents' = wakeEvents - 1
    /\ AllTaken
    /\ inbox' = Reverse(done)
    /\ done' = <<>>
    /\ changed' = FALSE
    /\ main' = IF done = <<>> THEN "idle" ELSE "poll"
    /\ UNCHANGED <<docVars, userVars, todo, dirty, queue, busy, pdfRunning,
                   quitting, workerVars, decodeQuit>>

(* ... applies each result, oldest first, and trims the textures. *)
ApplyResult ==
    LET j == Head(inbox)
        last == Len(inbox) = 1
        ch == changed \/ Current(j)
    IN  /\ main = "poll"
        /\ \E r \in IF ~ Current(j) THEN {doc[j.doc]}
                    ELSE IF j.type = "load" THEN FinishLoad(j.doc, doc[j.doc], j)
                    ELSE FinishRender(doc[j.doc], j) :
              LET D == [doc EXCEPT ![j.doc] = Unreferenced(r, 1)]
              IN  /\ doc' \in IF last /\ ch THEN Trimmed(D) ELSE {D}
                  /\ Submit(queue \o PdfToFree(r, 1))
        /\ inbox' = Tail(inbox)
        /\ main' = IF last THEN "idle" ELSE "poll"
        /\ changed' = (ch /\ ~ last)
        /\ dirty' = (dirty \/ (ch /\ last))
        /\ UNCHANGED <<userVars, handles, todo, done, busy, pdfRunning, quitting,
                       wakePending, wakeEvents, decodeQuit>>

-----------------------------------------------------------------------------
(* Drawing. *)

Placed == {w \in Windows : view[w] # NoDoc}

(* A redisplay places the previews shown, keeping each on a page there is, *)
(* and gui_preview_draw starts a frame if there are any.                   *)
StartFrame ==
    /\ main = "idle" /\ dirty
    /\ dirty' = FALSE
    /\ todo' = Placed
    /\ main' = IF Placed = {} THEN "idle" ELSE "draw"
    /\ doc' = IF Placed = {} THEN doc
              ELSE [d \in Docs |-> [doc[d] EXCEPT
                     !.now = FALSE,
                     !.tex = [p \in Pages |-> [@[p] EXCEPT !.now = FALSE]],
                     !.page = IF /\ d \in {view[w] : w \in Placed} \cap Pdfs
                                 /\ doc[d].state = "ready" /\ @ >= doc[d].npages
                              THEN doc[d].npages - 1 ELSE @]]
    /\ UNCHANGED <<userVars, handles, inbox, changed, lockVars, workerVars, decodeQuit>>

(* request_pages: the page shown, unless it is rendered at the size shown; *)
(* then those either side of it.                                           *)
PageNumbers(d) == 0 .. doc[d].npages - 1
Wanted_UnlessRendered(d, p, w) == doc[d].tex[p].width # w
Wanted(d, p, w) == LET t == doc[d].tex[p] IN t.stale \/ t.width # w
Requests(d, w) ==
    LET p == doc[d].page
        Ahead(q, n) ==
            IF n \in PageNumbers(d) /\ n \notin doc[d].errors /\ Wanted(d, n, w)
            THEN Requested(q, d, n, w, 1) ELSE q
    IN  IF Wanted(d, p, w) THEN Requested(queue, d, p, w, 0)
        ELSE Ahead(Ahead(queue, p - 1), p + 1)

(* draw_place *)
DrawPlace(w) ==
    LET d == view[w]
        r == [doc[d] EXCEPT !.now = TRUE]
        shown == /\ d \in Pdfs /\ r.state = "ready" /\ r.page \notin r.errors
    IN  /\ main = "draw" /\ w \in todo
        /\ todo' = todo \ {w}
        /\ IF d \notin Pdfs /\ r.state = "ready" /\ ~ r.mips /\ ~ r.loading
           THEN /\ doc' = [doc EXCEPT ![d] = Loading(r)]
                /\ Submit(Append(queue, LoadJob(d, r.gen)))
           ELSE IF shown
           THEN LET q == Requests(d, width[w])
                IN  /\ doc' = [doc EXCEPT ![d] =
                          [r EXCEPT !.refs = @ + Len(q) - Len(queue),
                                    !.tex[r.page].now = HasTex(doc, d, r.page)]]
                    /\ Submit(q)
           ELSE /\ doc' = [doc EXCEPT ![d] = r]
                /\ Submit(queue)
        /\ UNCHANGED <<userVars, handles, main, inbox, changed, dirty, done, busy,
                       pdfRunning, quitting, wakePending, wakeEvents, decodeQuit>>

(* near_page, negated, of a waiting job: its page has been flicked past. *)
Dist(p, n) == IF p < n THEN n - p ELSE p - n
FlickedPast(j) ==
    j.by = NoWorker /\ j.type = "render" /\ Dist(j.page, doc[j.doc].page) > 1

(* The references of d that cancelling those gives up. *)
GivenUp_None(d) == 0
GivenUp(d) ==
    Cardinality({k \in DOMAIN queue : queue[k].doc = d /\ FlickedPast(queue[k])})

(* prune_pages: without those far from the page shown. *)
Near(r) ==
    [p \in Pages |-> IF Dist(p, r.page) > KEEP_PAGES /\ ~ r.tex[p].now
                     THEN NoTex ELSE r.tex[p]]

(* After the last place the waiting jobs for pages flicked past are        *)
(* cancelled, those pages forgotten and the textures trimmed.              *)
EndFrame ==
    LET shown == {view[w] : w \in Placed} \cap Pdfs
        D == [d \in Docs |->
                IF d \in shown
                THEN [doc[d] EXCEPT !.refs = @ - GivenUp(d), !.tex = Near(doc[d])]
                ELSE doc[d]]
    IN  /\ main = "draw" /\ todo = {}
        /\ main' = "idle"
        /\ queue' = Selected(queue, {k \in DOMAIN queue : ~ (queue[k].doc \in shown /\ FlickedPast(queue[k]))})
        /\ doc' \in Trimmed(D)
        /\ UNCHANGED <<userVars, handles, todo, inbox, changed, dirty, done, busy,
                       pdfRunning, quitting, wakePending, wakeEvents, workerVars,
                       decodeQuit>>

-----------------------------------------------------------------------------
(* Commands, each followed by a redisplay. *)

Command ==
    /\ main = "idle" /\ commands < MAX_COMMANDS
    /\ commands' = commands + 1
    /\ dirty' = TRUE
    /\ UNCHANGED <<main, todo, inbox, changed, handles, done, busy, pdfRunning,
                   quitting, wakePending, wakeEvents, decodeQuit>>

(* b_open, of a document shown in window w. *)
Open(d, w) ==
    /\ Command
    /\ doc[d].life = "new"
    /\ doc' = [doc EXCEPT ![d] =
                 Loading([NoRecord("open") EXCEPT !.gen = 1, !.refs = 1])]
    /\ Submit(Append(queue, LoadJob(d, 1)))
    /\ view' = [view EXCEPT ![w] = d]
    /\ UNCHANGED width

(* b_close: the owner's reference goes, and those of the waiting jobs. *)
Close(d) ==
    LET q == Cancelled(queue, d)
        n == 1 + Len(queue) - Len(q)
    IN  /\ Command
        /\ Live(d)
        /\ doc' = [doc EXCEPT ![d] =
              Unreferenced([@ EXCEPT !.life = "closed", !.mips = FALSE, !.tex = NoPages], n)]
        /\ queue' = q \o PdfToFree(doc[d], n)
        /\ Signal(PdfToFree(doc[d], n) # <<>>)
        /\ view' = [w \in Windows |-> IF view[w] = d THEN NoDoc ELSE view[w]]
        /\ UNCHANGED width

(* b_reload: results of the old generation will be dropped. *)
Reload(d) ==
    LET q == Cancelled(queue, d)
        r == [doc[d] EXCEPT !.gen = @ + 1, !.errors = {},
                 !.refs = @ - (Len(queue) - Len(q)),
                 !.state = IF @ = "failed" THEN "loading" ELSE @]
    IN  /\ Command
        /\ Live(d)
        /\ doc' = [doc EXCEPT ![d] = Loading(r)]
        /\ queue' = Append(q, LoadJob(d, r.gen))
        /\ Signal(TRUE)
        /\ UNCHANGED <<view, width>>

(* The user goes to another page, has a window show another buffer, or     *)
(* zooms or resizes.                                                       *)
TurnPage(d, p) ==
    /\ Command
    /\ Live(d) /\ d \in Pdfs /\ doc[d].state = "ready"
    /\ p \in PageNumbers(d) /\ p # doc[d].page
    /\ doc' = [doc EXCEPT ![d].page = p]
    /\ UNCHANGED <<view, width, queue, workerVars>>

Show(w, d) ==
    /\ Command
    /\ d # view[w] /\ (d # NoDoc => Live(d))
    /\ view' = [view EXCEPT ![w] = d]
    /\ UNCHANGED <<doc, width, queue, workerVars>>

Resize(w, n) ==
    /\ Command
    /\ n # width[w]
    /\ width' = [width EXCEPT ![w] = n]
    /\ UNCHANGED <<doc, view, queue, workerVars>>

(* gui_preview_reset, after the renderer lost its textures. *)
DeviceReset ==
    /\ Command
    /\ doc' = Without(doc, Textures(doc))
    /\ UNCHANGED <<view, width, queue, workerVars>>

(* gui_preview_shutdown: no job is started any more, and after at most a   *)
(* second the threads are joined, or left to the exit of the process.      *)
Shutdown ==
    /\ main = "idle"
    /\ main' = "stopping"
    /\ quitting' = TRUE
    /\ pc' = Woken(pc)
    /\ UNCHANGED <<docVars, userVars, todo, inbox, changed, dirty, queue, done, busy,
                   pdfRunning, wakePending, wakeEvents, job, result, decodeQuit>>

Running == {i \in Workers : pc[i] \notin {"unstarted", "exited"}}
AllStopped == Running = {}
Stop ==
    /\ main = "stopping"
    /\ main' = "stopped"
    /\ decodeQuit' = AllStopped    \* or else the wait timed out
    /\ doc' = Without(doc, Textures(doc))
    /\ view' = [w \in Windows |-> NoDoc]
    /\ UNCHANGED <<handles, width, commands, todo, inbox, changed, dirty, lockVars,
                   workerVars>>

User ==
    \/ \E d \in Docs, w \in Windows : Open(d, w)
    \/ \E d \in Docs : Close(d)
    \/ \E d \in Docs : Reload(d)
    \/ \E d \in Docs, p \in Pages : TurnPage(d, p)
    \/ \E w \in Windows, d \in Docs \cup {NoDoc} : Show(w, d)
    \/ \E w \in Windows, n \in Widths : Resize(w, n)
    \/ DeviceReset
    \/ Shutdown

Main == Poll \/ ApplyResult \/ StartFrame \/ (\E w \in Windows : DrawPlace(w))
            \/ EndFrame \/ Stop

Next == User \/ Main \/ \E i \in Workers : Worker(i)

(* The threads are scheduled, a decoder or poppler returns in the end, and *)
(* the main loop serves its events and redisplays.  The user need do       *)
(* nothing.                                                                *)
Fairness == WF_vars(Main) /\ \A i \in Workers : WF_vars(Worker(i))
Spec == Init /\ [][Next]_vars /\ Fairness

-----------------------------------------------------------------------------
(* Properties. *)

PdfFile == [doc : Docs \cup {NoDoc}, gen : Nat, pages : 0 .. MAX_PAGES]
Job == [type : {"none", "load", "render", "free_pdf"}, doc : Docs \cup {NoDoc},
        gen : Nat, prio : {0, 1}, page : Pages, width : Widths \cup {0},
        by : Workers \cup {NoWorker}, pdf : PdfFile]
Result == [error : BOOLEAN, npages : 0 .. MAX_PAGES, pdf : PdfFile]
FinishedJob == [type : {"load", "render"}, doc : Docs, gen : Nat, page : Pages,
                width : Widths \cup {0}, error : BOOLEAN, npages : 0 .. MAX_PAGES,
                pdf : PdfFile]

(* Every variable keeps its type; in particular the reference counts and   *)
(* the count of wake-up events never leave the naturals.                   *)
TypeOK ==
    /\ \A d \in Docs : /\ doc[d].life \in {"new", "open", "closed", "freed"}
                       /\ doc[d].gen \in 0 .. MAX_COMMANDS /\ doc[d].refs \in Nat
                       /\ doc[d].state \in {"loading", "ready", "failed"}
                       /\ doc[d].page \in Pages /\ doc[d].errors \subseteq Pages
    /\ view \in [Windows -> Docs \cup {NoDoc}] /\ width \in [Windows -> Widths]
    /\ commands \in 0 .. MAX_COMMANDS
    /\ main \in {"idle", "poll", "draw", "stopping", "stopped"}
    /\ todo \subseteq Windows /\ {changed, dirty, decodeQuit} \subseteq BOOLEAN
    /\ queue \in Seq(Job) /\ done \in Seq(FinishedJob) /\ inbox \in Seq(FinishedJob)
    /\ busy \subseteq Docs
    /\ {pdfRunning, quitting, wakePending} \subseteq BOOLEAN
    /\ wakeEvents \in Nat
    /\ pc \in [Workers -> {"unstarted", "loop", "wait", "run", "ran", "exited"}]
    /\ job \in [Workers -> Job] /\ result \in [Workers -> Result]

Of(q, d) == {k \in DOMAIN q : q[k].doc = d}
Jobs(d) == Cardinality(Of(queue, d)) + Cardinality(Of(done, d)) + Cardinality(Of(inbox, d))

(* A document's reference count is the owner's reference and one for each  *)
(* job waiting, running, finished or being applied: no job outlives its    *)
(* document, and a closed document goes with its last job.                 *)
ReferencesCounted ==
    \A d \in Docs :
        /\ doc[d].refs = Jobs(d) + (IF Live(d) THEN 1 ELSE 0)
        /\ doc[d].life = "closed" => Jobs(d) > 0

(* Two workers never have jobs of one document, which both could change    *)
(* its PDF, nor are two in poppler, which is not safe from two threads.    *)
AtWork(i) == pc[i] \in {"run", "ran"}
WorkersExclusive ==
    \A i, k \in Workers :
        i # k /\ AtWork(i) /\ AtWork(k) =>
            /\ job[i].doc # job[k].doc \/ job[i].doc = NoDoc
            /\ ~ (IsPdfJob(job[i]) /\ IsPdfJob(job[k]))

(* PDFs open in poppler are those of documents still in memory and those   *)
(* of free_pdf jobs not carried out: none leaks, none is closed twice or   *)
(* while a worker may use it, and a page is rendered from an open one.     *)
Unfreed == {k \in DOMAIN queue : /\ queue[k].type = "free_pdf"
                                 /\ queue[k].by = NoWorker \/ pc[queue[k].by] = "run"}
PdfsOwned ==
    /\ handles = ({doc[d].pdf : d \in Docs} \ {NoPdf}) \cup {queue[k].pdf : k \in Unfreed}
    /\ \A k \in Unfreed : /\ \A d \in Docs : doc[d].pdf # queue[k].pdf
                          /\ \A m \in Unfreed : m # k => queue[m].pdf # queue[k].pdf
    /\ \A i \in Workers :
          pc[i] = "run" /\ job[i].type = "render" => doc[job[i].doc].pdf \in handles

(* Once a document has been loaded again, a page not marked stale was      *)
(* rendered from the file as last loaded, whatever was running when it was *)
(* reloaded.                                                               *)
PagesFresh ==
    \A d \in Docs, p \in Pages :
        /\ Live(d) /\ doc[d].state = "ready" /\ ~ doc[d].loading
        /\ HasTex(doc, d, p) /\ ~ doc[d].tex[p].stale
        => doc[d].tex[p].gen = doc[d].gen

(* A document says it is loading only while a load of its present          *)
(* generation is outstanding, and there is never more than one.            *)
LoadsOf(q, d) == {k \in Of(q, d) : q[k].type = "load" /\ q[k].gen = doc[d].gen}
LoadingIsBacked ==
    \A d \in Docs : Live(d) =>
        /\ Cardinality(LoadsOf(queue, d)) + Cardinality(LoadsOf(done, d))
             + Cardinality(LoadsOf(inbox, d)) = (IF doc[d].loading THEN 1 ELSE 0)
        /\ doc[d].state = "loading" => doc[d].loading

(* README.md: "PDF pages are rendered only when shown or about to be (one   *)
(* page either side)": once the screen is up to date, no job waits for a   *)
(* page further from the one shown.                                        *)
NothingFarWaits ==
    main = "idle" /\ ~ dirty =>
        \A k \in DOMAIN queue :
            /\ queue[k].type = "render" /\ queue[k].by = NoWorker
            /\ queue[k].doc \in {view[w] : w \in Windows}
            => Dist(queue[k].page, doc[queue[k].doc].page) <= 1

(* Neither a page nor a load under way is ever taken for a newer one, and   *)
(* none waits for a page flicked past.                                     *)
PagesFollowed == PagesFresh /\ LoadingIsBacked /\ NothingFarWaits

(* While something finished has not been polled, an event that will have   *)
(* it polled is in the queue, and only one.                                *)
ResultsAnnounced ==
    /\ done # <<>> /\ ~ quitting => wakeEvents = 1
    /\ wakeEvents <= 1

(* SDL_image is shut down only when no thread can be decoding.             *)
DecodersOutlived == decodeQuit => Running = {}

(* Once quitting is set no worker takes a job, and none sends SDL, which   *)
(* may be shut down, an event.                                             *)
QuietAfterQuit == [][quitting => /\ wakeEvents' <= wakeEvents
                                 /\ \A i \in Workers : pc'[i] = "run" => pc[i] = "run"]_vars

(* gui_preview_shutdown leaves no thread in what is shut down: no worker is *)
(* in a decoder after image_decode_quit, takes a job or sends an event to   *)
(* SDL once it has begun.                                                   *)
ShutdownIsSafe == []DecodersOutlived /\ QuietAfterQuit

(* README.md: "Textures on screen are kept": the trimming at the end of a  *)
(* frame and of a poll takes no texture drawn in the last frame.           *)
TrimEnds == main \in {"draw", "poll"} /\ main' = "idle"
Kept(t) == \/ t \in Textures(doc)'
           \/ /\ main = "poll"                    \* or the result replaces it
              /\ t[1] = Head(inbox).doc
              /\ Head(inbox).type = "load" \/ t[2] = Head(inbox).page
ShownTexturesKept ==
    [][TrimEnds => \A t \in Textures(doc) : InUse(doc, t) => Kept(t)]_vars

Serving == Running # {} /\ ~ quitting

(* A document being loaded is not so for ever, if there is a worker.       *)
LoadsEnd ==
    \A d \in Docs : doc[d].loading /\ Live(d) /\ Serving ~>
                        ~ doc[d].loading \/ ~ Live(d) \/ quitting

(* A closed document is freed in the end, and so is its PDF.               *)
ClosedAreFreed ==
    \A d \in Docs : doc[d].life \in {"closed", "freed"} /\ Serving ~>
                        \/ quitting
                        \/ doc[d].life = "freed" /\ \A h \in handles : h.doc # d

(* README.md: "PDF pages are rendered only when shown or about to be (one  *)
(* page either side), at the size shown": when the user has stopped doing  *)
(* things, each window comes to show its page rendered at its size, or an  *)
(* error, for good.                                                        *)
ShownAtItsSize(w) ==
    LET r == doc[view[w]]
        t == r.tex[r.page]
    IN  view[w] \in Pdfs /\ r.state = "ready" =>
            r.page \in r.errors \/ (t.width = width[w] /\ ~ t.stale)
PagesSettle ==
    <>[](quitting \/ Running = {} \/ \A w \in Windows : ShownAtItsSize(w))

(* And then the workers come to rest.                                      *)
WorkersRest ==
    <>[](quitting \/ Running = {} \/ queue = <<>>)

StartsRender(i, d, p) ==
    pc[i] = "loop" /\ pc'[i] = "run" /\ job'[i].type = "render"
        /\ job'[i].doc = d /\ job'[i].page = p /\ job'[i].gen = doc[d].gen
(* preview.h: a page that cannot be shown "is not tried again until the    *)
(* document is reloaded".                                                  *)
FailedPagesNotRetried ==
    [][\A i \in Workers, d \in Docs, p \in Pages :
         StartsRender(i, d, p) => p \notin doc[d].errors]_vars

(* Whatever is asked of the workers comes to an end: loads and renderings   *)
(* are over, and the memory of closed documents is given back.             *)
JobsEnd == LoadsEnd /\ ClosedAreFreed /\ WorkersRest
=============================================================================
