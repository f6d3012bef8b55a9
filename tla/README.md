# Formal models of XZile

TLA+ models of [XZile](../src/README.md), a fork of GNU Zile in C99, with the TLC
configurations that check them on small instances and theorems checked by TLAPS.
File names below are relative to `src/`, as in `src/file.c` for `src/src/file.c` and
`modes/gui_preview.c` for `src/modes/gui_preview.c`.

1. [What is here](#1-what-is-here)
2. [The system](#2-the-system): inventory of its components
3. [How the models are checked](#3-how-the-models-are-checked): runs, sums, bounds, fairness
4. [Previews](#4-previews)
5. [Files that sessions share: bookmarks and locations](#5-files-that-sessions-share)
6. [Files and undo](#6-files-and-undo)
7. [Text and the commands on it](#7-text-and-the-commands-on-it)
8. [Windows and lists](#8-windows-and-lists)
9. [Processes](#9-processes)
10. [Terminals: input, screen, emulator](#10-terminals)
11. [Where the code and its texts disagree](#11-where-the-code-and-its-texts-disagree)
12. [What is proved](#12-what-is-proved)
13. [What is only model-checked, and what is not modelled](#13-only-model-checked-or-not-modelled)
14. [Plan](#14-plan)

Model-check a run with `tlc -config Saved.cfg MCSaved` (module and configuration of every
run are in `PROJECT.json`), check the proofs with `tlapm BookmarksProofs.tla`.

## 1. What is here

| Module | Models | Checked in | Proofs |
|---|---|---|---|
| `PreviewWorkers` | the threads that decode images and render PDF pages, and the main thread's document and texture caches (`modes/gui_preview.c`) | `preview_safety`, `preview_mixed`, `awaited` | `PreviewWorkersProofs` |
| `Selection` | the members of a sequence that satisfy a condition: the queue without the jobs cancelled or taken (`modes/gui_preview.c`), the list of machines without the one noted (`src/remote.c`), the lines that change directory (`src/compile.c`), the lines of a listing (`src/dired.c`); sequences joined: the text of a screen's lines | with `PreviewWorkers`, `Locations`, `Compilation`, `Dired`, `Terminal` | `SelectionProofs` |
| `BookmarkOps`, `Bookmarks` | bookmark lists and their changes; saving them, by several editors, with failures and crashes (`src/bookmark.c`) | `saved`, `served` | `BookmarksProofs` |
| `BookmarkStore` | abstract: what bookmarks kept across sessions promise | `served` (implemented by `Bookmarks`) | `BookmarksProofs` |
| `Locations` | the list of machines and directories, saved the same way but with another merge (`src/remote.c`) | `shared` | `SharedProofs` |
| `FileSaving` | visiting, saving, backing up and reverting one file, here or over ssh, while others write it (`src/file.c`, `src/remote.c`) | `saved` | `SavedProofs` |
| `UndoList`, `Editing` | the undo list; buffers and files under the command loop, nested commands, undo across saves (`src/undo.c`, `src/bind.c`, `src/file.c`) | `edited` | `EditedProofs` |
| `TextBuffer` | the gap buffer, its line index, syntax states and a marker (`src/buffer.c`, `src/estr.c`, `src/syntax.c`, `src/marker.c`) | `edited` | `TextBufferProofs` |
| `TextCommands` | commands on lines, words and paragraphs (`src/line.c`, `src/funcs.c`, `src/basic.c`) | `awaited` | |
| `Searching` | search, incremental search and query-replace (`src/search.c`) | `edited` | `EditedProofs` |
| `Regexps` | the regexp parser, compiler and both engines, against a reference definition (`src/regex.c`) | `edited` | |
| `KillRing` | kill, yank and the system clipboard (`src/killring.c`, `src/clipboard.c`) | `edited` | `EditedProofs` |
| `Windows` | the buffer list, windows and their histories, the buffer picker's previews (`src/buffer.c`, `src/window.c`, `src/winhist.c`, `src/selectors.c`) | `shared` | |
| `Layout` | the tree of splits, resizing and dragging (`src/layout.c`, `src/window.c`) | `shared` | |
| `Dired` | marks, and copying, moving and deleting many files (`src/dired.c`, `src/file.c`) | `shared` | `SharedProofs` |
| `GitStatus` | the status buffer and what is done from it (`src/magit.c`) | `shared` | `SharedProofs` |
| `Compilation` | the directories make is in, for error messages (`src/compile.c`) | `shared` | `SharedProofs` |
| `Picker` | narrowing and choosing while candidates arrive; its history (`src/picker.c`, `src/history.c`) | `shared` | `SharedProofs` |
| `Processes` | processes that run on, their owners and the loop that serves them (`src/process.c`, `src/term.c`, `src/gui.c`) | `served` | |
| `PipedCommands` | commands that are waited for (`src/process.c`, `src/shell.c`, `src/remote.c`) | `served` | |
| `KeyInput` | bytes to keys: timeouts, escape sequences, pastes, keys pushed back (`src/term.c`, `src/getkey.c`) | `awaited` | `KeyInputProofs` |
| `ScreenRefresh` | drawing, and writing what changed to the terminal (`src/screen.c`, `src/term.c`, `src/term_redisplay.c`, `src/term_minibuf.c`) | `saved` | |
| `Terminal` | the terminal emulator (`src/vterm.c`, `src/terminal.c`) | `saved` | `SavedProofs` |

Names with a suffix, such as `CanRun_PdfsTogether` next to `CanRun`, are plausible
wrong versions of a definition (there: poppler used by two threads). They are used nowhere; putting one in the
place of the definition it is named after makes a property fail that depends on that
code. Where a property is a conjunction, most of its parts have one.

## 2. The system

XZile is one process with one main thread. The main loop reads a key, runs the command bound
to it, and redisplays; while it waits for a key it serves child processes, SDL events and
timers. Only `xzile-gui` has other threads, the preview workers. State that outlives the process is in
files: the ones edited, and `~/.xzile.d`, which several editors share. Concurrency thus
comes from preview workers, child processes (serviced by callbacks between keys), other
editors on the same files, other programs on the same files, and machines at the end of an ssh connection.

For each component: its state; its operations; how it meets others; what is hard; what
makes it correct. *(M)* modelled, *(M in part)* as far as listed in `PROJECT.json`, *(-)* not modelled.

**Preview workers** *(M in part)* `modes/gui_preview.c`. Documents with reference counts, a job
queue, a list of finished jobs, flags `pdf_running`, `quitting`, `wake_pending` under one lock; a
texture per page. Operations: submit, cancel, take, run, finish, poll, draw, prune, trim, reload, close,
reset, shutdown. Meets SDL's event queue (wake-ups) and poppler. Hard: results that arrive after a reload or
close, one poppler user at a time, last reference dropped in one of three places, missed
wake-ups, shutdown with threads running. Correct if nothing leaks or is used after it is
freed, no stale page passes for fresh, every result is seen, and work comes to rest.

**Preview buffers** *(M in part)* `modes/preview.c`, `preview_view.c`, `image.c`, `pdf.c`. A view per buffer:
page, zoom, pan, fit. Operations: next page, go to page, zoom, pan, reload when the file
changes. Calls the backend above; in the terminal version, there is none. Correct if the page stays in the document and zooming keeps the point under the pointer.

**Image and PDF decoding** *(-)* `modes/image_decode.c`, `image_probe.c`, `pdf_render.c`. No state; functions from bytes to pixels
or an error, and library calls.

**Bookmarks** *(M in part)* `src/bookmark.c`. A sorted list, changes not saved yet,
the file and its lock; a list buffer with rows and deletion flags; a jump that may visit a remote file.
Hard: editors that save at once, saves that fail at each step, an editor killed with
the lock. Correct if no editor loses another's change or its own, and none waits for ever.

**Saved locations** *(M in part)* `src/remote.c` from line 1690, shown by `src/selectors.c`. A list of machines with a directory
each, limited in length, and its file. Like bookmarks, but a failed save is not retried.

**Remote files** *(M in part)* `src/remote.c`. A connection per machine, the checksum of each remote file as last
read or written. Operations: run a command with a deadline, read, write on condition of a checksum, list. Hard: a deadline that passes while the far end goes on, check and write
not atomic there, broken connections half-way. Correct if no change made by others is overwritten silently and a save reported as done is done.

**File visiting and saving** *(M in part)* `src/file.c`. Per buffer: file name, stamp (time, size, inode), `modified`, `backup`. Operations: find, insert, write, save, save some,
revert, auto-revert, leave the editor. Meets undo (`unchanged` flags), other programs, remote files. Hard: the file
changes between stat and read or between read and save; writing fails half-way.
Correct if "not modified" means "the file holds this".

**Undo** *(M)* `src/undo.c`. A list of blocks and of start and end entries, `next_undop`. Operations: start and end a
sequence, save a block, revert, free. Hard: sequences nest in macros and M-x; an undo is itself undone later; flags across saves. Correct if an
undo restores exactly the text before one command.

**Buffer text and markers** *(M in part)* `src/buffer.c`, `src/estr.c`, `src/marker.c`. A gap buffer, a line
index, a list of markers, a global ring of marks, point, narrowing, `text_version`. Operations: replace, move the gap, find a line.
Hard: offsets kept by others while text moves, gap at either end, cached line positions, markers of killed buffers. Correct if it behaves as a plain string and every marker stays at its character and in the list of its buffer.

**Buffer list and windows** *(M in part)* `src/buffer.c`, `src/window.c`, `src/layout.c`, `src/winhist.c`. The list of buffers in order of use, a tree of windows,
back and forward lists. Operations: split, delete, switch, kill, back, forward. Hard: killing a buffer shown in several
windows or held in histories. Correct if a window always shows a live buffer and the tree tiles the frame.

**Processes and shell commands** *(M in part)* `src/process.c`, `src/shell.c`. A list of children with pipes or ptys. Operations: start, write, read what is ready, reap, free, run to
completion with a timeout, pipe a region through a command. Calls back its owners (compile, magit, terminal, html), which may start and free processes from inside the callback. Hard: freeing what a caller is still using, output left after exit, a child that
closes its output and lives on, failure after some output. Correct if each start gets exactly one exit, after all output, nothing is used after it is freed, and a failure leaves the buffer alone.

**Compilation** *(M in part)* `src/compile.c`. Output appended to a buffer, error positions as markers, the current error. Hard: output in pieces, edits above the errors, a second compile while one runs. Correct if a message's file is looked for where make was when it was printed.

**Terminal** *(M in part)* `src/terminal.c`, `src/vterm.c`. A screen emulator (parser state, cells, scroll-back) mirrored to a buffer, line and char modes. Hard: resize,
scroll regions, split escape sequences and UTF-8. Correct if splitting the input anywhere changes nothing.

**Git interface** *(M in part)* `src/magit.c`. Sections of a status buffer and asynchronous git processes. Hard: a refresh while a question is asked, a buffer out of date. Correct if it lists what git says, and only what was agreed to is destroyed.

**Dired** *(M in part)* `src/dired.c`. Rows with marks, carried over when the directory is read again. Hard: operations on many files that fail half-way. Correct if a mark never moves to another file.

**Command loop, macros and key input** *(M in part)* `src/main.c`, `src/bind.c`, `src/macro.c`, `src/getkey.c`, `src/keycode.c`. Last and this command, flags, prefix argument,
pushed-back keys, the macro being recorded. Hard: macros that run macros or fail; commands that read keys.

**Kill ring, registers and clipboard** *(M in part)* `src/killring.c`, `src/registers.c`, `src/clipboard.c`. One kill text that consecutive kills extend, the clipboard text last seen. Hard: telling its own clipboard text from another program's.

**Minibuffer, history and completion** *(M in part)* `src/minibuf.c`, `src/term_minibuf.c`, `src/history.c`, `src/completion.c`. The text being read, position in a history. Correct if going back and forth returns to what was typed, and completion is the longest common prefix.

**Pickers** *(M in part)* `src/picker.c`, `src/selectors.c`. Candidates, a filter, a selected row. Correct if the selected row exists and is the one chosen.

**Search and replace** *(M in part)* `src/search.c`, `src/regex.c`. Incremental search's stack of states, query-replace's range; a regexp matcher of two engines. Hard: replacements that contain matches, empty matches, text that changes while a key is awaited. Correct if both engines agree and query-replace goes once through the text.

**Display and interfaces** *(M in part)* `src/display.c`, `redisplay.c`, `term_redisplay.c`, `screen.c`; `src/tui.c`, `src/term.c`; `src/gui.c`. Positions to rows and back, scrolling, cached row counts; two screens and
their difference, key decoding with a timeout; the SDL event loop, whose part in previews is in `PreviewWorkers`. Hard: a cache keyed by `text_version`, stops and changes of size in the middle of anything. Correct if what the terminal shows is the screen drawn.

**Line and text commands** *(M in part)* `src/line.c`, `basic.c`, `funcs.c`, `paren.c`. No state of their own: filling, transposing, indenting, balanced expressions.

**Lisp and utilities** *(-)* `src/lisp.c`, `eval.c`, `variables.c`, `help.c`; `src/util.c`, `utf8.c`, `debug.c`. A reader and evaluator for the init file, global and buffer-local variables; UTF-8 decoding, wrappers.

**Syntax highlighting, themes and markup modes** *(M in part)* `src/syntax.c`, `src/theme.c`; `modes/markdown.c`, `html.c`, `html_preview.c`, `html_preview_macos.m`. Scanner state cached per line; a helper process that shows a page and reloads it. Hard: invalidation when a line above changes.

**Tests and build** *(-)* `tests/`, `*-test.c`, `Makefile`. Read as statements of what is meant.

How they meet: the command loop calls commands; commands change buffers through
`buffer_replace_estr`, which keeps undo entries, moves markers and bumps `text_version`; display, syntax and preview caches are checked against that version or a generation. Files are read and written by
`file.c`, over ssh by `remote.c`, which uses `process.c`. Process callbacks append to buffers
between keys. Preview workers touch nothing but their job, its document's PDF and, under the lock, the queue.

## 3. How the models are checked

### Sums

Components that share no state are checked together, in a module that extends them all and
has one more variable, `part`, which names the one that runs: a behaviour of `MCSaved` is one of
`Bookmarks`, `FileSaving`, `Terminal` or `ScreenRefresh`, and the others stay as they began (in one
initial state, so that nothing is counted twice). This adds no behaviour and hides none; a property of one component
holds of the sum if it holds of that component and of its initial state. Each sum asks one question of several parts:

| Run | Module | Parts | Question |
|---|---|---|---|
| `preview_safety`, `preview_mixed` | `MCPreviewWorkers` | | Do workers and main thread keep documents, pages and PDFs straight? |
| `awaited` | `MCAwaited` | previews, keys, text | Does what the user waits for come to its end, and is nothing typed lost? |
| `served` | `MCServed` | bookmarks, processes, piped | Are others served, whatever they do: sessions, children, far machines? |
| `saved` | `MCSaved` | bookmarks, files, terminal, screen | Is anything lost that was saved, printed or shown? |
| `shared` | `MCShared` | locations, windows, layout, dired, git, compilation, picker | Are lists right that change under the user's eyes? |
| `edited` | `MCEdited` | undo, buffer, search, kill, regexps | Does text become what the commands say? |

Components do interact where the interaction is what matters: `Editing` composes the undo list with the
command loop and files; `Processes` has the owners, the loop that serves them and ssh inside of callbacks; `Windows` has the buffer
list, windows, histories and picker; `FileSaving` the editor and the far machine; `Searching` files that are read again
while a key is awaited; `Terminal` the emulator and its buffer's modes.

Every run says `CHECK_DEADLOCK FALSE`: commands are counted, a session may end, a user need do nothing,
so the system really may stop. That it does not stop where it must go on is what the liveness properties are for.

### Bounds

Constants in capitals that start with `MAX_` are bounds of the
model, except `MAX_SAVED_CONNECTIONS`, which is the source's. They and the reasons they are enough are given with each
module below. Symmetry (workers, PDFs, buffers) is used only in runs whose temporal
properties are action properties or none.

### Fairness

| Part | Assumed weakly fair | Why |
|---|---|---|
| previews | the main thread's own steps; each worker's | the event loop goes on without the user; threads are scheduled, and decoders and poppler return |
| bookmarks | `Commit` of every session not in `Stuck` | it waits only for the lock, at most STATE_LOCK_WAIT ms, and for the file system |
| processes | `ProcLoop` | the loop polls pipes and the signal pipe whenever it waits for a key |
| piped | `CmdLoop`; `ChildActs` | the editor's loop polls; a child that has something to do does it (one that hangs is cut off by the deadline of `run_argv`; the others wait for it, as the code does) |
| keys | `ReadKey` | commands come back for the next key, and a read that waits ends by its timeout |
| text | `LineLoop` | the loop of a command runs until its condition ends it |

Nothing a user, another program or another session does is assumed to happen. Properties that need no fairness are checked as invariants and action properties.

## 4. Previews

`PreviewWorkers`.

| Variables | Code |
|---|---|
| `doc[d]`: `life`, `gen`, `refs`, `state`, `loading`, `mips`, `now`, `npages`, `page`, `tex`, `errors`, `pdf` | struct PreviewDoc: its reference count, generation, textures per page, and the PdfFile only a worker touches |
| `view`, `width` | which preview each window shows, and how large |
| `main`, `todo`, `inbox`, `changed`, `dirty` | where the main thread is in a frame or poll, its local variables, and a redisplay due |
| `queue`, `done`, `busy`, `pdfRunning`, `quitting`, `wakePending` | the fields under the lock |
| `wakeEvents` | events of the wake-up type in SDL's queue |
| `pc`, `job`, `result` | each worker thread |
| `handles`, `decodeQuit` | PDFs open in poppler; image_decode_quit was called |

A worker is `Take` or `Sleep` or `Exit` under the lock, `Run` without it, `Finish` under
it. The code keeps the lock from `Finish` to the next `Take`; the model
lets others in between, which is a superset of its behaviours. The main thread's `Poll` takes the
finished list under the lock, `ApplyResult` applies one result, `StartFrame`,
`DrawPlace` and `EndFrame` are a redisplay, and `Stop` ends the shutdown. User actions are `Open`,
`Close`, `Reload`, `TurnPage`, `Show`, `Resize`, `DeviceReset` and `Shutdown`. Each is followed
by a redisplay (`dirty`), as in the main loop.

Abstracted: pixels; times of use (which textures are freed first is any choice among
those not drawn in this frame, which covers the code's choice of the least recently used); sizes in bytes (a texture counts one; the budget counts textures);
the size of a page (the width of the window that asked for it, so that "about as wide" is "as wide"). A file read twice may have
changed, so that each load gives an error or any number of pages. SDL_PushEvent succeeds.
Each document is opened once: opened again it would be another member of `Docs`.

- `preview_safety` (1 PDF of up to 3 pages, 1 window, 2 widths, 2 workers, `KEEP_PAGES` 1, budget 1, 3 commands):
  `TypeOK`, `ReferencesCounted`, `PagesFollowed` (no result passes for a newer one, a load said to be under way is, nothing waits for a page flicked past) and `ShownTexturesKept`.
- `preview_mixed` (2 PDFs, 1 image, 2 widths, 2 workers, 3 commands): `WorkersExclusive`, `PdfsOwned`, `ResultsAnnounced`, `ShutdownIsSafe`.
- `awaited` (1 PDF of up to 2 pages, 2 widths, 2 workers that may fail to start, 2 commands): `JobsEnd` (loads end, closed documents are freed, workers rest), `PagesSettle`.

Three pages with `KEEP_PAGES` 1 are the fewest with a page to
prune and a page two away to cancel; a budget of 1 is exceeded by any two textures; three
commands open a document, reload or page it, and close it, with every interleaving of the two
workers in between; two PDFs and an image are the fewest that have a worker wait for poppler while
another kind of job can run. The workers are NWORKERS, two, as in the source. `Shutdown` is the
user's: the liveness properties hold "or `quitting`".

## 5. Files that sessions share

### Bookmarks

`Bookmarks` makes an action of each system call another editor can see: `Lock`, `Read`,
`Write` (the rename), `Adopt` (unlocking); `NoLock`, `ReadFails`, `WriteFails` and `Refuse` are `commit`'s error
paths, after which `Remember` makes the change in the session's own list and keeps it in `pending`
to be replayed by the next save. `Leave` ends a session between any two steps and drops its lock, as the kernel does. `OtherVersion` is an editor
of another version, which takes the same lock but writes a format this one refuses to replace. `Quiet` sessions were started with `-q`.
Reading is one step because the file is only ever replaced by rename. A list is a function from names to places, the order being that of the names.

`BookmarkStore` says what that amounts to: saving is one step that makes the backlog's changes, then the
new one, in whatever the store then holds; otherwise the change is kept. `SavesAreAtomic` says that `Bookmarks` implements
it. The refinement mapping (`Store` in `Bookmarks`) puts the save at the rename: between the rename and `Adopt` the session
already counts as showing what it saved.

`saved` (2 sessions, 2 names, 2 places, up to 2 pending changes, 5 changes in all) checks `LockHeld`, `SessionsSound`, `OnlyOwnChanges` and `FileKept`;
`served` (3 sessions, one `Quiet`, one `Stuck` anywhere, with the lock too; 1 pending change, 5 changes) checks `SavesAreAtomic` and `CommitsEnd`.
Two names are what a rename needs, two places tell a bookmark from the one it replaced, two pending changes have an order, and five commands let one
session build up a backlog while the other saves what conflicts with it.

### Locations

`location_note` puts a machine first in the session's list, then in the file's under the lock, with the actions `Lock`, `Read`,
`Write`, `Adopt` and their failures as above. There is no backlog. `Touch` is `saved_touch`: move to the front, keep the
directory known if none is given, drop the first machine beyond the limit; the local directory does not count. `stamp` and `browsed` are history variables: when each location was last noted in the
file, and what each session last browsed.

`shared` (2 sessions, 3 machines of which 2 are kept, 5 notes and starts) checks `ListSound` (lists within the limit, each machine once, the last noted first) and `NotesKept`.
Three machines for two places is the smallest case with a machine left out and two to choose from. The source keeps 32.

## 6. Files and undo

### FileSaving

One buffer and its file, here or far (`far`). `disk` and `version` are the file and how often it has been written, `known` and `sum` what the
buffer knows of it (`disk` of struct Buffer; the checksum of `src/remote.c`), `backupFile` the file FILE~, `givenUp` the far writes that were given
up but may still be carried out. Actions: `Visit`, `Edit`, `CheckDisk` (`buffers_check_disk`), `RevertBuffer`, `SaveHere` and `SaveRemote` up to the question,
`AnswerHere` and `AnswerRemote`, `LateWrite`, `OthersWrite`. A backup may fail (`BackedUpHere(FALSE)`, `Copied`): a message then waits for a key (`WaitsForKey`), the file is written over all
the same (`KeyTyped`), and as `backedUp` is still false the next save tries again, with what this one wrote; the far script writes too when its `cp` fails. `SavesAreSafe`: others' text is replaced only if the buffer held it
or the user was asked, also by a write carried out late; and FILE~ holds what was in the file when it was first to be saved, unless the user was told (`told`) that the backup could not be made. That the
comment of `backup_and_write` promises more is `BackupOfOriginal`, which fails (section 11). `make-backup-files` is on, its default. Three contents are the fewest with the buffer's, others' and what was there before; six steps reach a save, a conflict, an answer, a second save and others' writes between them.

What a command does between two questions, or keys waited for, is one step. Outside are thus: a write between the read and the stat of `file_revert`; one between the far script's checksum and its write
(`src/remote.c:1046`).

### UndoList and Editing

`UndoList` has the C list as a sequence, oldest entry first; pointers are indices, `next` of entry *n* is *n - 1*, and NULL is 0. It gives, as operators,
`buffer_replace_estr` (`Replaced`), `undo_start_sequence` (`Started`), `undo_end_sequence` (`Ended`), `revert_action` (`MatchingStart` and `RevertedTo`: which entries are
reverted, and the fold that reverts them), `F_undo` (`Undone`), `undo_set_unchanged` and `undo_free_all`.

`Editing` composes it with the command loop and the files. A command that runs no other (`Edit`,
`Undo`, `Switch`, `Save`, `SaveFails`, `Revert`, `Other`) is one action, from the start of its undo sequence to its end, in which it makes one or two changes anywhere. `Nest` is
M-x or a macro up to the commands it runs, `Return` after them. `Paste` is bracketed paste,
which is not called as a command. `CheckDisk` follows changes of files before a key is read, `OtherWrites` is another program. `undid` and `thisUndo` are what
`last_command_fn` and `this_command_fn` say about undo.

`edited` (2 buffers, 2 characters, texts of up to 2 characters typed, nesting 1, 5 commands) checks `UndoSound` (the list is in step with the text, `next_undop` never dangles), `UnmodifiedIsSaved` and `UndoTakesOneCommand`.
Five commands are enough for an edit, a save, an undo, one more command and an undo of the undo, the shortest way to undo past a save and redo; one
of the characters ends lines, so that saving may itself change the text. Another program writes only an empty file
(`MAX_FILE` 0): what it writes matters only by being different from the buffer or the same.
`UndoTakesOneCommand` leaves out one case on purpose: a macro that ends with an undo leaves `next_undop` inside its own sequence, and an undo after it goes on from there.

## 7. Text and the commands on it

**TextBuffer.** `text` is struct Buffer: the array with its gap at `pt`, the index of every LINE_INDEX_STRIDE'th line start, the
highlighter's state at each line start and a marker. `Edited` is `buffer_replace_estr`, with the gap widened, narrowed and refilled and both caches dropped from the place
of the change; `Goto` is `set_pt`, which moves text over the gap; `OffsetToLine`, `ShowLine` and `Highlight` fill the caches. `plain` and `marked` are what the buffer stands for.
`TextSound` relates the two after any order of these. Gaps of 1 and 2, strides of 2 and 4, three edits and three characters make the gap move, fill up, be cut and be at
either end, with an index of more than one entry. The scanners are those of C (comments over lines) and Python (strings over lines), of one-character delimiters.

**TextCommands.** The buffer with point, mark, goal column, read-only and auto-fill; thirteen texts chosen for empty, blank, long, first and last lines; two commands on each. A command is one action; a loop that might not
end is an action per turn (`DeletingSpaces`, `Joining`, `Breaking`), for `CommandsEnd`, in a buffer that is read-only or not. Auto-fill, from a space or line end typed or a line added by `transpose-lines`, is `Filling`: where its loop
does not end the command is `running` for ever. Just these cases, and those in which a read-only text is to be deleted until it is gone, are let in by `EDGES` only (section 11). `TextHeeded`: commands on spaces and paragraphs keep the words, those on lines the lines, and so on; moving a line down takes back moving it up.

**Searching.** `Isearch` with each key (more, backspace, again, done, cancelled, any other), plain search, and `QueryReplace` with each answer. `unread` and `replaced` hold what is to come and what has been replaced; `SearchesTrue` says that
isearch shows a match of what was typed, or the place it began, and that query-replace asks about a match and goes through the original text once. Five texts of two to four letters of two, patterns of up to two letters, so that matches overlap and replacements contain matches.
While a key is awaited, `Reread` puts a changed file into the buffer, as `buffers_check_disk` does when git ends (`src/magit.c:1745`), as long as the buffer is not modified: after it, `SearchesTrue` must hold again from the next key or answer on, in the new text, and
what the search goes back to must be in it. Two things fail (section 11): the answer typed right after it replaces what stands there, a match or not (`MatchesReplaced`), and a text too short for those places is let in by `SHRINKS` only, as the code goes on outside of it.

**Regexps.** `Parsed` patterns (81: groups, alternatives, greedy and lazy loops, counts, classes, assertions, back-references, operators at the edges), `Compiled` as the
source compiles it, `Backtracked` and the lockstep engine, forward and backward. `Ends` is the reference: all ends of a match of the tree from a place, preferred first. `FoundAsMeant` compares the
engine the code would choose with it for each text, which includes characters of two bytes and an end of line.

**KillRing.** `ring` and its flag (`lastKill` is FLAG_DONE_KILL of the command before), `clip` the clipboard, `lastText` what was last put there or taken from it, `reach` whether there is a program to write to it and one to read it. Four kills and two pieces: consecutive ones, an interruption, another
program's copy and a yank. `YankIsLatest` compares with the history variable `latest`.

## 8. Windows and lists

**Windows.** `frame` is the buffer list, point of each buffer, the windows, the current one; what the code does to it are operators from frame to frame (`Kill`, `Split`, `SwitchTo`, `ShowBuffer`, `Step`, `Popup`), and commands
are actions that record histories before and after, as `winhist_before_command` and the main loop do. Going back and forward (`Navigate`, `NavigateKey`) and the picker (`Picker`, `PreviewItem`, `SwitchKill`, `PickHere`, ...) wait for keys between steps. Five buffers, of which the scratch buffer
is there from the start and two are shown in passing; two windows with histories of two places; four commands. `WindowsKept`: windows show live buffers, a history has a buffer once, one step back and one forward return.

**Layout.** The tree of splits with ratios as fractions; `Rects` is `layout_node`, and doubles that come out just below a whole number are listed (`ROUNDS_DOWN`). Terminals of 23 and of 6 rows, three windows, three splits and deletions, two resizings. `FrameShared`: the windows tile the frame, and a divider that
is dragged is where it was put.

**Dired.** `there` and `data` are what is in two directories and their files, which may be on two file systems (`crosses`), `listing` the lines with their marks. `CopyOrRename` and `Delete` put the marked entries in `queue`, and `OneFile` or `DeleteOne` deals with the next, which may fail at any step: moving across file
systems (`MoveAcross`) is copying and deleting. Any files there or not, two files and a directory of two, two commands; another program makes and deletes files. `DiredKept`: no text is gone but what was agreed to be, and marks follow names.

**GitStatus.** A repository is three sets of changes (HEAD, index, tree); `lines` is the status buffer as `refresh_status` last drew it, `toggled` what is unfolded, `ask` the question being asked. Two files of two hunks, three commands; a background command may end and refresh while a question waits. `StatusHeeded`: unless something outside
changed the files since (`behind`), the buffer lists what git says; and only files agreed to are discarded.

**Compilation.** Lines are plain, errors, or enter and leave directories, or `-C`, in pieces or whole; `dirs` and `dirsUpto` are the cache of `directories_at`. Three lines, an edit, a visit. `DirectoriesTrue` compares with reading from the top.

**Picker.** Candidates given, of a directory, or found by a thread, in groups; the panel is `panel`, the thread `source`. A turn of `picker_run` is drawing, then a key, with the thread in between; all keys that change the input or the selection, the history, choosing and cancelling.
After TAB into a directory the entry of the same number stays selected, as if the user had moved there: `aimed` is a name and the directory it is in. Three pickers (names that must exist, files, buffers with a thread), four keys. `SelectionHeeded`: the selection stays
with its candidate as others arrive, and Return gives what was drawn.

## 9. Processes

**Processes.** `processes` is the list, `proc[p]` struct Process, `kid`, `pipe`, `heir` the child, its output and a descendant that keeps the pipe open. The editor's place is a stack (`stack`) of walks through the list: `Serve` begins what `read_byte` or `serve_processes` does with signals and
pipes, `Reap` and `HandleEvent` take one process each, with its callbacks: the compilation, a terminal, a git command (whose exit may start another) and the HTML helper, which may free themselves, start others or, on a far repository, wait for ssh with keys read. Two processes at a time, one chunk in a pipe. `ProcessesServed`: an owner that let go is
not called, output is delivered before the exit, and every death is noticed.

**PipedCommands.** One command: input fed, outputs read, a C-g, a deadline, a child that exits without reading, one that leaves the pipe to another, keys read and given back. Pipes of one chunk, two chunks each way, two keys: the smallest that fill and empty. `RunsAnswered`: it ends, with the whole output or saying why not, and no key is lost or
out of order.

## 10. Terminals

**KeyInput.** `line` is what has arrived from the terminal and was not read, `input.inq` bytes given back, `input.key_buf` keys pushed back, `input.seq` the sequence being decoded. `ReadFirst`, `DecodeByte`, `PasteByte` and `ReadQuoted` read a byte each, or time out, or see a change of size, as `read_byte` does. Five keys and a paste that looks for
its end twice; two of them, a change of size, a key pushed back. `NoInputLost` and, with fairness, `InputRead`.

**ScreenRefresh.** `scr` is what was drawn, `phys` what `src/term.c` believes, `tty` the terminal, an external model that knows only characters and moves, wraps and scrolls at the margin. Two windows side by side of a row each, the minibuffer, lines with wide, combining and control characters cut at either end, two widths, two drawings, stops and changes of size. `ScreenShown`: once written, they are
the same.

**Terminal.** `term` is struct VTerm; each action is a character or a control sequence, `ChangeSize` or a change of mode. Screens of up to three rows and columns, five of these. `TerminalKept`: cells and cursor are on the screen, and text printed by a program that only prints is on the screen or in the history, once and in order.

## 11. Where the code and its texts disagree

Five runs end in a violation; `PROJECT.json` quotes the text contradicted.

- **Two widths** (`preview_two_widths`; `modes/gui_preview.c:744`). A PDF has one texture per page. Two windows of different widths on
  it each have the page rendered again at their own width, each rendering makes both redraw, and this never ends.
- **Paste and size** (`paste_resized`; `src/term.c:1114`). A change of size while a paste is read is put back and returned again for ever: the paste never ends.
- **Read-only text** (`read_only_text`; `src/line.c:498`). `delete-horizontal-space` in a read-only buffer never ends.
- **Half a character** (`screen_halves`; `src/term_redisplay.c:240`). The mark of a line cut short, put over half of a wide character, leaves the other half in the image: the terminal then shows something else.
- **The same directory** (`dired_same_dir`; `src/dired.c:678`). A file copied to its own directory under another name of that is emptied.

More are seen by changing a constant or by checking a definition that no run names. The passing runs leave these cases out, by the constants named here:

| Change | Then fails | In the code |
|---|---|---|
| check `FailedPagesNotRetried` of `PreviewWorkers`, one window of two widths | itself | `modes/gui_preview.c:606`: a page that fails while a rendering at another size is queued is tried again |
| check `LastBrowsed` of `Locations` | itself | `src/remote.c:2103`: a directory noted while a save failed is overwritten by the next save that works |
| `PASTES_LATE` TRUE | `UndoSound`, `UnmodifiedIsSaved` | `src/bind.c:390`: a paste after an undo counts as one, the next undo goes on in a text it was not kept for |
| `NESTED_SWITCHES` TRUE | `UndoTakesOneCommand` | `src/undo.c:58`: sequences are started and ended in whatever buffer is current |
| `MATCHES` TRUE | `UnmodifiedIsSaved` | `src/file.c:304`: a file found to hold an unsaved text is noted as seen, while undo entries go on saying which older state it held |
| `NEW_FILES` TRUE | `SavesAreSafe` | `src/file.c:178`: a file that was not there when visited is never taken for changed, though another program makes it meanwhile |
| `KEY_WAITS` TRUE | `SavesAreSafe` | `src/file.c:665`: after a failed backup a key is waited for, and the file then written over without being compared again with what was read |
| check `BackupOfOriginal` of `FileSaving` | itself | `src/file.c:661`: when the backup fails the file is written all the same; the next save backs up what this one wrote, where the comment at 645 has a backup of the original file made |
| check `LeavesNoTrace` of `Windows` | itself | `src/winhist.c:167`: a buffer previewed in the picker may stay in a window's history |
| check `ResizedAsAsked` of `Layout` | itself | `src/layout.c:247`: a window made a line bigger may keep its size, the ratio being cut to cells |
| `MERGES` TRUE | `DiredKept` | `src/dired.c:681`: the question is asked of what is not a directory; files in a directory copied over another of its name are written over unasked |
| check `HunkAsAgreed` of `GitStatus` | itself | `src/magit.c:2345`: the line of a hunk is taken before the question, during which the buffer may be drawn again |
| `HIGHLIGHTS_LONG` TRUE | `TextSound` | states are kept by line number while lines above a stride change |
| `MARKS_INSIDE` TRUE | `TextSound` | `src/buffer.c:426`: the sum of a marker inside deleted text wraps |
| check `FoundAreShown` of `Picker` | itself | `src/picker.c:982`: what the thread finds just before it ends may be shown only after the next key |
| check `MatchesReplaced` of `Searching` | itself | `src/search.c:498`: what the answer typed after the file was read again replaces is whatever is there |
| `SHRINKS` TRUE | `SearchesTrue` | `src/search.c:521`, `src/search.c:317`: a file read again while a key is awaited may end before where the search began, or leave less before point than the string to replace |
| `KILLS_AGAIN`, `KILLS_NOTHING` or `COPIES_BETWEEN` TRUE | `YankIsLatest` | `src/clipboard.c:149`: a text killed again is not put on the clipboard; a kill of nothing, or in the minibuffer, against a copy of another program |
| `RESIZES_ALWAYS` TRUE | `TerminalKept` | `src/vterm.c:293`: resized at the margin, or smaller while the alternate screen is shown, lines are lost |
| `EDGES` with `"wraps"`, check `PointInText` of `TextCommands` | itself | `src/buffer.c:426`: `delete-blank-lines` in a text of empty lines goes back to a marker that wrapped |
| `EDGES` with `"empty"` in `Awaited.cfg` | `CommandsEnd` | `src/line.c:89`: filling from the end of a line, where only line ends come before, moves back from the text's start for ever: `fill-paragraph`, and with auto-fill a space or line end typed |
| `EDGES` with `"read-only"` in `Awaited.cfg` | `CommandsEnd` | `src/line.c:498`, as in `read_only_text`; `src/funcs.c:780`: `fill-paragraph` goes on until lines are joined that cannot be; with auto-fill, a space typed that would break a line at two spaces |
| `EDGES` with `"transpose"` | `TextHeeded` | transposing lines from the middle of one |
| `EDGES` with `"last line"` | `TextHeeded` | moving a line over an empty last line |
| check `LongLinesBroken` of `TextCommands` | itself | `src/line.c:88`: a goal column of a line's end counts as past the fill column |
| `PASTES_UNGOT` TRUE | `NoInputLost` | `src/getkey.c:112`: a paste has no code, and is dropped when pushed back |
| `TypedKeys` with mouse reports or `ESC [ [` | `NoInputLost` | `src/term.c:821`: what a timeout interrupts in these is not given back |
| `SEQ_SIZE` 3 in `Awaited.cfg` | `NoInputLost` | `src/term.c:862`: when `seq` is full the byte just read is dropped, where the comment at 822 has all bytes pushed back that form no sequence |
| `REMOTE_REPOS` TRUE, check `WalkIsLive` of `Processes` | itself | `src/process.c:423`: the next process is freed while ssh is waited for |

## 12. What is proved

All theorems are for any value of the constants, under the named assumptions of the modules (such as: `NoWorker` is no worker, `Foreign` is
no list). The only bound assumed is in `TextBuffer`: `MAX_BUFFER` is less than `WORD`, a buffer is shorter than a `size_t` counts.
Where a theorem has a hypothesis of its own, it is one of the cases of section 11, in which the code does not do what the property says.
Most of the inductive invariants are small because most of the state does not matter to them.

| Module | Properties of the runs proved | Only model-checked |
|---|---|---|
| `PreviewWorkers` | `TypeOK`, `ReferencesCounted`, `ShownTexturesKept`, `WorkersExclusive`, `PdfsOwned`, `PagesFollowed`, `ResultsAnnounced`, `ShutdownIsSafe` | liveness |
| `Bookmarks` | `LockHeld`, `SessionsSound`, `FileKept`, `OnlyOwnChanges`, `SavesAreAtomic` | liveness |
| `Locations` | `ListSound`, `NotesKept` | |
| `FileSaving` | `SavesAreSafe` (`~NEW_FILES`, `~KEY_WAITS`) | |
| `Terminal` | `TerminalKept` (`~RESIZES_ALWAYS`) | |
| `GitStatus` | `StatusHeeded` | |
| `Compilation` | `DirectoriesTrue` | |
| `Dired` | `DiredKept` (`~SAME_DIR`, `~MERGES`) | |
| `Picker` | `SelectionHeeded` | liveness |
| `Editing` | `UndoSound` (`~PASTES_LATE`), `UnmodifiedIsSaved` (`~PASTES_LATE`, `~MATCHES`) | `UndoTakesOneCommand` |
| `Searching` | `SearchesTrue` (`~SHRINKS`) | |
| `KillRing` | `YankIsLatest` (without the three cases left out) | |
| `KeyInput` | `NoInputLost` (`~PASTES_UNGOT`, sequences that are plain) | liveness |
| `TextBuffer` | of `TextSound`: the text, the gap and the marker | the line index and the syntax states |

`PreviewWorkersProofs`:

- `WorkersAreExclusive` (`WorkersExclusive`). Not inductive alone: a worker takes a job by looking at `busy` and
  `pdfRunning`, not at the other workers. `FlagsHold` says that the flags cover every job in hand. `SignalKeepsWork` is the lemma that starting and waking threads changes no worker at work.
- `ResultsAreAnnounced` (`ResultsAnnounced`). `WakeInv`: `wake_pending` is set exactly while an event is on its way, and it is set whenever something is done and not polled.
- `ShutdownLeavesNothing` (`ShutdownIsSafe`), from `DecodersAreOutlived` and `QuietOnceQuitting`, both from `QuitInv`: `quitting` is set exactly in the last two states of the main thread, in which no thread is started.
- `ReferencesAreCounted` (`ReferencesCounted`), from `RefsInv == TypeInv /\ WorkHeld /\ CountInv`. `WorkHeld`: a worker at work has exactly one job in the queue, the one it
  took, and no job there is marked as taken by a worker that is not at work. `CountInv`: for each document the references are the owner's and those of the jobs in `queue` (waiting or taken), `done` and `inbox`; one that is closed has
  some; one that is shown is open; the inbox is empty outside a poll. The count is a sum over three lists, and a job moves from each to the next: `HowMany` of
  `SelectionProofs` counts members of a sequence and says what appending, removing and cancelling do to the count.
- `TypesAreKept` (`TypeOK`), from the same, `WakeInv` and `QuitInv`: that `refs` stays a natural number is the count, that `wakeEvents` does is `WakeInv`.
- `ShownTexturesAreKept` (`ShownTexturesKept`): of `EndFrame`, whichever textures `trim` chooses.
- `PdfsAreOwned` (`PdfsOwned`), from `PdfInv`: `PdfsOwn` (a PDF open in poppler is that of one document in memory, or of one job that frees it), `OneFree` and `FreesDue` (there is at most one such
  job of a document, and the document has been freed), and that whatever needs an open PDF finds one: a rendering, a document that is ready, a load that succeeded and is on its way back.
- `PagesAreFollowed` (`PagesFollowed`), from `PageInv`: `RefsInv`, `ExclusiveInv` and four parts. `KindInv`: a job in hand is the one its worker took, a load is as urgent as any job, no job or result is of a generation to come and
  those waiting are of the present one. `BackInv`: loads of the present generation, in whichever list, are counted by `loading`. `FreshInv`: such a load comes before every page of its generation in the queue; older jobs are in hand and it waits for them;
  once it has succeeded the PDF, and every page rendered or on its way, is of its generation. `FarInv`: outside a frame no page flicked past waits unless a redisplay is due, also between two results applied.
  `Follows` says of a queue that it is an older one with some jobs left out, some asked for again and some put at the end; every step is a worker's, a poll, a result applied, or one that begins a load of one document or none (`Kinds`), and leaves the others alone (`Spared`).

`SelectionProofs`: what `Selected` keeps (order, and every member with the condition, each once) and what it does to counts; that `Chained` joins. `Selected` is a recursive function on the length of
the part gone through; that its equations hold for any sequence follows from the least length at which they could fail.

`BookmarksProofs`, from `IInv == Shape /\ LockHeld /\ NoLostUpdate`. `Shape` holds what the steps need of each other (the range of `pc`, that a `-q` session
never locks, that a session not there owes nothing):

- `LockIsHeld`, `UpdatesAreKept`, `ForeignFilesStay` and the two together, `FilesAreKept` (`FileKept`). That a session about to rename has merged what the file *still* holds needs the lock, and the lock needs the range of `pc`.
- `CommitIsAtomic` (`SavesAreAtomic`): `Bookmarks` implements `BookmarkStore`. `WriteSaves` maps the rename to the abstract save, `Unseen` the other
  steps of `commit` to stutters. What `Replay` computes is never unfolded: both sides make the same changes in the same list.
- `SessionsAreSound` (`SessionsSound`), from `SoundInv`: what a session shows is what it last saw with its pending changes replayed, also for a session that is not there. Here it matters what `Replay` computes:
  it is a recursive function, whose equations follow for changes up to any length from the least length at which they could fail.
- `OthersBookmarksStay` (`OnlyOwnChanges`): a replay touches only the names its changes touch, by the same argument.

`SharedProofs`, on `Locations`, from `IInv == Shape /\ LockKept /\ OneLocationChanged`, along the argument of the bookmarks, the first three with what `Touch` computes left folded:

- `LocationsAreKept`: what a session is about to rename over the file is what the file still holds, with one location changed.
- `ForeignFilesStay`, and the two together, `FilesAreKept` (`NotesKept`).
- `ListsAreSound` (`ListSound`), where what `Touch` computes does matter. `TouchMoves`: there is an increasing map from the places of the new list, but for the first, to those of the old, and whatever it leaves out is
  the location noted or the *last* machine, left out only when `MAX_SAVED_CONNECTIONS` stay. From that follow that each machine is named once, the limit (`WellFormed`), and that the file stays in the order of the stamps, with no machine left out
  later than one kept (`TouchKeepsRecent`). The invariant adds that the stamps have a greatest, and `IInv`, for the list written is made from what the file still holds.

and on `GitStatus`, `StatusIsHeeded` (`StatusHeeded`): what is listed is the difference of what git was last asked about, and what is discarded is among the files the question named, through any refresh while it waits.

and on `Compilation`, `DirectoriesAreTrue` (`DirectoriesTrue`), from `CompInv`: the directories kept are those of the lines before `dirsUpto` that change directory, each once and in order, as long as nothing but the end of the
text was written since (`KnownListed`). Reading on from there is reading from the top: what a selection gives for a text is what it gives for its beginning and then for the rest (`ReadingOn`), and a text that only grew has the same beginning.

and on `Dired`, `DirectoriesAreKept` (`DiredKept`), from `DirInv == FilesKept /\ ShownKept /\ QueueKept`. `FilesKept`: a text that nobody agreed to lose is in some file or in one of the directories that is there (`Safe`), through the two steps of a move
between file systems, a copy and then a deletion, either of which may stop after any of the files. `ShownKept`: the listing names each file once and its marks are those given (`LinesOnce`, `Follow`), whatever order it is in and however the directory changed when it
is read again. `QueueKept`: what is copied or moved goes into the other directory, or it is one entry that gets a new name, a directory's if it is one. It assumes `~SAME_DIR` and `~MERGES`, each of which breaks the property (section 11).

and on `Picker`, `SelectionIsHeeded` (`SelectionHeeded`), from `PickInv`: every match is a candidate there is (`InItems`); the selection is one of the matches, and there is one when the name must be a candidate (`SelectionIn`: else RET would take
the first match without its being highlighted); a picker for files lists the directory it is in, which is the one in the input unless a filter is due (`Placed`); the index selected is that of the candidate aimed at, in the directory where that was (`OnAim`); and while
a key is waited for the screen shows the panel (`Drawn`), to which candidates only ever come behind. That the list sorted is one of the candidates is `InOrder`: in a strict order of n things the number of those before takes each value up to n - 1 (`KthExists`).

`SavedProofs`, on `FileSaving`, from `FsInv`: `Versions` (the states of the file are numbered as they are written), `KnownTexts` (what the buffer knows the file by stands for a text it has held: the version
here, the checksum over ssh, and the one that a write still under way expects), `VisitedHere` (a file visited here is known, but for `NEW_FILES`), `BackedUpOnce` (until a backup fails), `NothingMissed` (while the message of a
failed backup waits for a key, the file is still as it was compared, but for `KEY_WAITS`), and that losses come only of `NEW_FILES` and `KEY_WAITS`.

- `FarFilesAreCompared`: with `NEW_FILES` or without, no far file is saved over that holds what the buffer never held and the user was not asked about.
- `BackupsAreOriginal`: `FILE~` holds what was there before the first save, unless the user was told that the backup failed.
- `SavesLoseNothing` (`SavesAreSafe`), assuming `~NEW_FILES` and `~KEY_WAITS`: backups and writes may fail.

and on `Terminal`, for screens of any size and any number of sequences, from `TermInv`: the emulator is that of a screen of some size (`Region`), and while only text went to the main screen it is `InOrder`. That says more than the property: the text
ends where the cursor is, or, while the alternate screen is shown, at the place saved when it was entered; every cell after that is blank; no wide character begins in the last column (it would lose its other half when the line is copied); and the
modes and the scrolling region are those of a new terminal. Without these the next character, scroll or change of size could break the order.

- `ScreensAreSound`: the first half of `TerminalKept`, with `RESIZES_ALWAYS` or without, from `Region` alone. Most sequences change nothing but cells, cursor and history (`Steps`), and of these only what is on the screen shown.
- `TerminalIsKept` (`TerminalKept`), assuming `~RESIZES_ALWAYS` (section 11). A character extends the text of one line (`ExtendedHolds`), a line scrolled off joins the history at its end (`HeldScrolled`), and a change of size pushes off the lines that no
  longer fit, or copies them with blanks around (`HeldResized`). What lines say is `Chained`, a recursive function that joins sequences, whose equations follow from the least length at which they could fail (`ChainedParts`).

`EditedProofs`, on `UndoList` and `Editing`, from `EditInv`. An entry of the undo list is kept for one text: the one it was made in. So a buffer is sound when there is a text `t[i]` for each of its entries such that
undoing entry `i` in `t[i]` gives what entry `i + 1` was kept for (`TakesBack`, `Chain`), the first entry not undone yet is kept for the buffer's text, and an entry that says the buffer was unmodified leads to the text
last read or written (`Flagged`). `Sound` says so of a buffer whose undo is going on or may start; `Loose` of one whose list was just given up, and whose `next_undop` is never read before it is reset. The induction is over commands: what an edit adds
(`SplicedBack`), what undo adds in the other direction (`UndoneSound`), and that the recursive `RevertedTo` walks the chain (`RevertedToKept`, by the least entry that fails).

- `UndoIsSound` (`UndoSound`), assuming `~PASTES_LATE`: at every step of every command, nested ones included, in all buffers, the list reverts the text to texts it was.
- `UnmodifiedHoldsFile` (`UnmodifiedIsSaved`), assuming also `~MATCHES`: a buffer not marked as modified holds what the file was last known to hold, after any edits, undos and saves between.

On `Searching`, from `SearchInv`, assuming `~SHRINKS` (a file read again while a key is awaited reaches the places of the search):

- `SearchesAreTrue` (`SearchesTrue`): isearch is at a match of what was typed, or where it began; query-replace has `replaced` before it and `unread` after it, which together are the text, and what it asks about is a match, the first in `unread` (`Divided`, `Asking`). After the file was read again nothing is known but that the places are in the text (`SearchTypes`); the next key searches, or the next answer parts the text at point, and all holds again (`StandsInText`, `PartedAnywhere`).

On `KillRing`: `YankGivesLatest` (`YankIsLatest`), from `RingShape` and `FlushedOrPending`: either what yank would insert is the latest text, or a kill made in the minibuffer
is not on the clipboard yet, and then it is the latest. It assumes `~KILLS_AGAIN`, `~KILLS_NOTHING` and `~COPIES_BETWEEN`, each of which breaks the property.

`KeyInputProofs`, from `KeyInv == InputShape /\ BytesKept`:

- `BytesAreKept`: what was read, is being decoded, was given back and waits is what was typed, in order, as long as the sequences decoded fit in `seq` (`Fits`; see `SEQ_SIZE` in section 11).
- `InputIsNotLost` (`NoInputLost`), with `SizeNoted` (a change of size seen and not given is noted) and `PushInv` (`key_buf` holds the key pushed back, whole or the half of it that is left); for sequences that are `Plain`, which
  those of the run are, and no paste pushed back.

`TextBufferProofs`, from `TextInv`, the gap buffer seen from outside: the array is the text before point, blanks as many as the gap, the text after.

- `GapBufferIsText`: the array without its gap is the text the commands make, and the gap is blank from end to end, wherever it is moved, opened and shut.
- `MarkerKeepsItsPlace`, assuming `~MARKS_INSIDE`: the marker stays between the characters it was between.

## 13. Only model-checked, or not modelled

Left to TLC because they are out of the prover's reach: all liveness properties, and `ENABLED`; what is in modules with recursive operators (`FrameShared` of `Layout`, `FoundAsMeant` of `Regexps`);
what folds and flattening of sequences compute, whose definitions the provers do not see into: the line index and syntax states of `TextSound`, `ScreenShown`, `TextHeeded`. `UndoTakesOneCommand`, which needs how the sequences of each command are bracketed and not only what texts
the entries are for, was left to TLC too. Not proved yet, but with no such obstacle: `WindowsKept`, `ProcessesServed`, `RunsAnswered`.

Outside every model: power failures (the directory is not synced after a rename); temporary files left by a crash; errors of memory allocation; which of several
readers of a terminal gets a key; the contents of pixels, fonts and colours; the libraries SDL,
poppler, cairo and WebKit, of which only the calls made appear. Of files: what others write between a read and the stat after it or between a far checksum and the write after it;
that a far backup is made again, over the first, when a write is repeated; permissions. Of the components marked *(M in part)*, `PROJECT.json` says what is left out.

Not modelled: image and PDF decoding (functions of bytes and calls of libraries); the Lisp reader and evaluator, help and variables (sequential, decided by their input); the layout of Markdown; themes; UTF-8 and the wrappers of `src/util.c`;
the widgets of `src/tui.c` and most of `src/gui.c`, which are drawing and SDL calls; git's logs, branches and rebasing, which run git and show what it says.

## 14. Plan

Done: previews, bookmarks, locations, undo and editing; files here and far, the buffer's text, commands on it, searching, regexps, killing, windows and layout, dired, git, compilation, pickers, processes, key input,
the screen and the terminal; the proofs of section 12. Next, proofs:

1. `PipedCommands`: `RunIsWhole`; `Processes`: owners that let go are left alone; `Windows`: what is removed from lists, with `Selected`.
2. `Editing`: `UndoTakesOneCommand`, from how the sequences each command makes are bracketed.
3. `ScreenRefresh`: that what was written is what the terminal shows, for lines of any length; its folds would have to be recursive functions, as those of `Terminal` are.

And in the models: the bookmark list's rows and flags; `save-some-buffers` and leaving; the recording of keyboard macros; the parser of terminal sequences.
