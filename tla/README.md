# GitGlasses in TLA+

A verification project for GitGlasses: an editor extension (TypeScript, under
`extension/` and `packages/`) that asks a native engine (C++, under `engine/`)
about Git repositories over JSON-RPC on standard input and output. The modules
here model the parts where steps of several actors interleave, and the algorithms
whose results have to agree from one call to the next; TLC checks them on small
instances and TLAPS proves what can be proved for every instance.

Contents: 1 the system · 2 modules · 3 what each run shows · 4 bounds ·
5 fairness · 6 proofs · 7 behaviours the properties leave out, and findings ·
8 not modelled · 9 plan · 10 running it

## 1. The system: components and what makes them hard

`PROJECT.json` lists every component with its files. The ones with state:

**Request lifecycle** (`engine/src/rpc/dispatcher.*`, `util/strand.h`,
`server.cpp`). State: in-flight ids, cancels remembered for requests not yet
routed, bytes being parsed off the read loop, routes queued behind them, a
strand per repository and lane, one strand for notifications. Operations: take a
payload, route it, run its handler, answer it, cancel it, stop. It calls the
worker pool and writes frames. Hard: a large payload is parsed on a worker while
small ones arrive; ids are reused; cancels overtake what they cancel; the stop
comes at any moment. Correct if order within a lane is arrival order, a blame
sees the edits sent before it, each request gets one answer, a cancel reaches
exactly the request it was meant for, and the stop ends.

**Worker pool** (`util/task_pool.*`). State: two lanes, counts of sleeping and
living threads, a stop flag. A supervisor adds threads when queued work starves
and joins those that retire. Hard: `notify_one` outside the lock, retirement
racing a wakeup, shutdown while the supervisor joins. Correct if no queued task
is left beside a thread that sleeps, and if shutdown runs what is queued.

**Credential prompts** (`exec/askpass.cpp`, `exec/git_process*`,
`rpc/client_channel.h`, `extension/src/auth/`). A git with a deadline raises a
prompt; a broker thread asks the client and waits; meanwhile the reader of that
git looks at its deadline through two atomics. Hard: the order in which the two
are written and read, prompts nobody answers, the way down with prompts open.
Correct if time spent on prompts never counts, every git ends, no dialog stays
up for a git that is gone, and the broker's destructor returns.

**Watcher** (`watch/watch_manager.cpp`). An inotify hub with one kernel queue for
every watched repository, whose worktrees share directories; elsewhere a thread
that stats files again and again. Hard: directories made and removed while the
hub walks them, descriptors two repositories share, batches handed over outside
the mutex, timestamps as coarse as the sweep is fast. Correct if no change goes
unheard and the hub's tables are the kernel's.

**Blame service and cache** (`services/blame/`, `cache/blame_cache.*`). An LRU
of results by content key, filled by several workers; the inputs are read once
for the key and again by git.

**Buffer overlay** (`cache/doc_overlay.h`). Unsaved buffers the engine was sent.

**Graph service** (`services/graph/`). Pages of the commit graph, each computed
from a cursor the client sends back, over a cached walk; every row carries the
columns its lines are drawn in. Hard: refs, stashes and filters change between two
pages, the cache is evicted, a page begins in the middle of lines. Correct if the
pages are slices of one listing and no line breaks.

**Rebase** (`webviews-src/rebase/`, `services/mutate/rebase_methods.cpp`,
`exec/sequence_editor.cpp`). The user edits a plan; the engine checks it against
the branch, starts git, and git runs the engine again as its editor. Hard: the
branch moves between the plan, the check and git's own reading; the rebase stops
and is resumed; refs have to follow. Correct if no commit is lost and the plan is
carried out.

**Staging, log, stashes, sequencer** (`services/status/`, `services/history/`,
`services/mutate/`). Requests that name a place by what the client saw: hunks of a
diff, a cursor into a walk, an index of a stash, the operation git is stopped in.
Hard: the file, the refs, the stash list and `.git` change between the listing and
the request, from other clients and terminals. Correct if what is acted on is what
was named or the request fails, and if pages continue one listing.

**Engine client** (`packages/rpc/src/engineClient.ts`). State: the current
generation and its transport, the cached start, crash times, the respawn timer,
pending requests with deadlines, prompts from the engine. Hard: start, restart,
respawn, crash and dispose in any order, each with awaits in it; late messages
of earlier generations; prompts that hold a deadline still. Correct if one
engine runs at a time, every request settles, no answer of an old engine
settles a request, and an engine that exits is replaced.

**Buffer synchronisation, document blame, blame model**
(`extension/src/engine/documentSync.ts`, `annotations/documentBlame.ts`,
`model/blameModel.ts`). Surfaces (current line, hover, annotations, code lens)
share one request per buffer version and one cache. Hard: the buffer changes
between the push, the request and the answer; a surface leaves while others
wait; the engine restarts. Correct if what is shown describes the buffer it was
asked about, no surface loses its answer to another's cancellation, and a
request nobody waits for is cancelled.

**Annotations** (`annotations/fileAnnotations.ts`, `annotations/lineBlame.ts`,
`modes/`). Whole-file annotations of the visible editors and the blame of the
current line, rendered from answers that arrive later. Hard: edits, toggles, modes,
focus and editors shown or hidden while renders wait. Correct if what is painted is
of the mode, the text and the line that are current, once everything has ended.

**Web extension** (`web/memfsBridge.ts`, `web/extensionWeb.ts`,
`engine/wasmTransport.ts`). The engine works on a copy of the workspace in the
memory of a wasm module, made before it starts and flushed file by file after.
Hard: files change between the reads of a mirror or of a flush, and modules come and
go under both. Correct if a file differs from the workspace's only while the change
is on its way.

**Repository lookup and registry** (`model/repositoryService.ts`,
`model/activeRepo.ts`, `engine/src/repo/registry.*`). Ids of repositories,
per-directory answers, watches, registration anew after a respawn, in an engine
that counts ids from 1 again. Correct if no id of an earlier engine is used, the
list is what the listeners know, and the registry's two maps agree.

**Graph and rebase panels** (`webviews/graphHost.ts`, `webviews-src/graph/`,
`webviews/rebaseHost.ts`). A host with awaits between the reader's choices, the
engine's answers and the repository's changes, and a page that keeps rows of one
generation. Correct if the rows are those of one current walk, paging never
stalls, and what was put off is looked at.

**File history** (`webviews/timelineHost.ts`, `webviews-src/timeline/`). A panel
that is retargeted, refetched and paged while answers are under way. Correct if it
ends with the history of the file it names.

**Hosting integrations** (`packages/integrations/src/rateLimiter.ts`,
`cache.ts`). A queue and a lazily filled token bucket per host, of which any
waiter may abort; a cache whose fetches outlive its drops.

How they interact: the extension's services call `EngineClient.request`; frames
reach `Dispatcher::dispatch` in order; handlers run on the pool through strands
and call git; git's prompts go back through `ClientChannel` to `EngineClient`,
which pauses the deadline of the request they belong to; the watcher's batches go
to the repository service, the graph and rebase hosts and the caches.

## 2. Modules

| module | models | composed with |
| --- | --- | --- |
| `RequestService` | what the engine promises about requests, without queues or threads | abstract specification of `Dispatcher` |
| `Dispatcher` | request lifecycle, strands, workers, stop | implements `RequestService` |
| `TaskPool` | the pool at the grain of its critical sections | `Dispatcher` has the pool at a coarser grain |
| `Askpass` | git processes, broker threads, client channel, stop | |
| `WatchHub` | the inotify hub: kernel queue, walks, shared descriptors, batches | |
| `StatSweep` | the polling watcher and coarse timestamps | |
| `BlameCache` | the engine's cache and the fill that races the repository | |
| `GraphRows` | walk, order, lanes, plan cache and cursors of the graph | |
| `Rebase` | plan, check, git's run with the engine as its editor, resumption | |
| `HunkStaging` | a diff, the hunks picked from it, and git's search for where they go | |
| `LogPages` | `log/commits`'s kept walks, cursors, budget, readers | |
| `Stashes` | stashes looked up by commit, acted on by index | |
| `Sequencer` | merges, picks and reverts that stop, and the state the engine names | shares the idea of a stopped git with `Rebase` |
| `EngineClient` | generations of engines, requests, prompts | |
| `BlameModel` | sharing, leaving, abandoning, budgets of the client's cache | the cache of `BufferBlame` in full |
| `BufferBlame` | editor, DocumentSync, lookup, overlay, BlameModel's requests, surfaces | takes from `Dispatcher` that a blame runs after earlier notices |
| `Repositories` | the extension's lookups, the engine's registry and watches, restarts | both sides in one module |
| `GraphPanel` | graph host, its page, and the messages between them | takes pages as `GraphRows` gives them |
| `RebaseHost` | the rebase panel | drives what `Rebase` models |
| `Timeline` | the file history's host and page | |
| `FileAnnotations` | renders of a document's editors under zen and review | takes blame as an answer that comes or not |
| `LineBlame` | the timer, the pass, the text and the status bar of the current line | likewise |
| `WebMirror` | workspace, watcher, mirror, flushes, wasm modules | takes starts, exits and restarts from `EngineClient` |
| `RateLimiter` | turns, tokens and held-back hosts | implements `TokenBucket` |
| `TokenBucket` | requests leave as from a bucket that fills at every tick | abstract specification |
| `TtlCache` | reads, fetches under way, drops | |
| `EngineParts` | `BlameCache`, `WatchHub` and `StatSweep`, with every constant open | `MCEngine` extends it |
| `ExtensionParts` | `Repositories`, `RebaseHost`, `WebMirror`, `TtlCache`, likewise | `MCExtension` extends it |
| `ViewParts` | `FileAnnotations`, `LineBlame`, `Timeline`, `Stashes`, `Sequencer`, likewise | `MCViews` extends it |
| `AskpassProofs`, `RateLimiterProofs` | theorems about the component | |
| `ServiceProofs`, `EngineClientProofs` | theorems about the components of `MCService` and of `MCClient` | |
| `EngineProofs`, `ExtensionProofs`, `ViewsProofs` | theorems about the components of `EngineParts`, `ExtensionParts`, `ViewParts` | |
| `SumTheorems` | induction below a bound, and sums of sequences | used by `EngineProofs`, `EngineClientProofs` |
| `MC...` | constants and scenarios for TLC | |

Six of the MC modules (`MCEngine`, `MCService`, `MCClient`, `MCTimers`,
`MCExtension`, `MCViews`) put components that do not touch each other side by side, to check
them in one run: a variable `subject` names the component at work, the variables
of the others are 0 or stay as they began, and a property of one is
`subject = "..." => Component!Property`. It is not a product: a behaviour is one of
one component, and the states of the run are the sum of theirs.

The components about which something is proved are instanced, and their properties
stated, in a `...Parts` module of its own, which gives no constant a value: the MC
module extends it, adds what is only model-checked and says which subject is at work,
and its configuration gives the values; the proof module extends it too. So what is
proved is the very formula that a run checks, and nothing else is in the provers' way.

State and actions correspond to the code as `map` in `PROJECT.json` says,
definition by definition. The main choices:

*Dispatcher.* A payload is a member of `Messages`; its size is chosen when it is
taken. `Dispatch...` are the three ways of `Dispatcher::dispatch`; between the
decision to route behind the queue and the post (`held`) a worker may drain the
queue, so that is a step of its own. `TakeTask`, `DrainNext`, `DrainEnd` are a
worker's critical sections; a task (`RouteQueued`, `HandleNotice`,
`StartHandler`, ...) is one step per lock it takes. `EraseEntry` comes before
`SendAnswer`. `StopReading`, `DrainIdle`, `DrainTimeout`, `ShutdownPool` are
`runServer`'s stop. The strand's wedge on an exception is left out: tasks catch
theirs. Malformed payloads, and those nested too deep, are the unknown method,
answered at once with an error.

*TaskPool.* One step is one critical section of `mutex_`. Time is abstract:
`overdue` says that `kStarvationDelay` has passed, and a thread above the core
may retire at any moment of a wait. `notify_one` chooses any sleeping thread that
no notify has picked yet, as one that is picked no longer waits on the condition;
there are no spurious wakeups.

*Askpass.* Every access to `open` and `millis` is a step, in the order of the
code (`AddTime` then `ClosePrompt`; `ReaderReadsOpen` then `ReaderReadsMillis`).
A clock of coarse ticks; a thread polls many times per tick, so `Tick` waits for
whoever has something overdue to notice. The broker's answer-size limit, peers
that are not authorised, the socket and the Windows pipe are left out.

*WatchHub.* Directories come and go while the hub walks them, one kernel call a
step; `queue` is the kernel's event queue with its `IN_IGNORED` and its limit, at
which it drops events. The kernel may refuse a watch (`Unwatched`), and a walk ends at
a directory that is gone (`List`); of all three the hub takes no notice, and `partial`
is who was affected. `unseen` is what the properties compare with: the repositories
whose listener has not been called since a change.

*StatSweep.* One file. A sweep's stat, hash and listing are steps between which
git writes; times are multiples of the file system's tick.

*BlameCache.* The world is three inputs that may change at any time: HEAD, the
file, and the mailmap and ignore-revs files. A fill reads each twice.

*GraphRows.* Commits are numbers, older ones larger, so the order of the walk is
the order of the numbers and every history of that size is a choice of parents.
A page is one step; the cursor is the record the client sends back, and a page is
computed from it, the refs as they are and the plan cache.

*Rebase.* A commit stands for its sha and its change. Git is modelled from its
documented contract: it writes a todo, runs the editor on it, picks line by line
and stops at conflicts and edits. Whether the running git's editor is the plan's
or git's own is a variable, since a rebase may be resumed by another call or from
a terminal. Plans are those `validate()` accepts.

*HunkStaging.* A file is a sequence of slots, each an original line, changed or
not, and a stretch of equal lines makes a file that repeats itself; the diff is the
set of maximal runs of changed slots. `ApplyNearest` is git's documented search: the
place nearest to the one the header names at which the lines of the hunk are found. A
patch carries the numbers `buildSubsetPatch` gives it. The diff (`TakeDiff`) and the
patch (`StageHunks`) are two steps, and other tools move the index between them;
`git_apply` may work on the index the repository has loaded, so it chooses either.

*LogPages.* Commits are numbers and a history is what its ref reaches. A sequence is
kept under the tip it began with; the budget of bytes evicts it, and a cursor whose
sequence is gone has it made anew and skips. Commits nothing reaches may be collected
at any time: a cursor into them gets an empty last page (`AskInVain`).

*Stashes.* A stash is a commit and its place in the list; a terminal pushes and
drops between the steps of the extension (list, look up, confirm, act).

*Sequencer.* `.git` is what git keeps there: `MERGE_HEAD`, `CHERRY_PICK_HEAD`,
`REVERT_HEAD`, and the commits still to go. Git's own moves are modelled from its
documented contract; the engine's refusals and the extension's context are steps. Git
may be killed by a cancel or a timeout, having done none, some or all of its commits
(`GitDies`), and a refresh of the context may find no answer.

*EngineClient.* JavaScript runs to completion, and continuations of settled
promises run before the next callback: macro steps have `Idle` as a guard.
`this.transport` always belongs to the current generation and is not a variable.
Delays are abstract: an armed timer may fire at any time. `start()` after
`dispose()` and the frames written to the engine are left out. A prompt may still
be read from the pipe after the exit of its engine was reported.

*BlameModel.* Each request is an entry with an identity that outlives its place
in the cache. A step is a macro task with its continuations.

*BufferBlame.* Contents are numbers, versions the editor's document versions. A
macro step runs only when no continuation is pending (`Quiet`). One document,
and no cancellation tokens (those are in `BlameModel`).

*Repositories.* Discovers are answered in the order they were sent, closes run
beside them, `.git` directories come and go, and the engine counts its ids from 1
again after an exit.

*GraphPanel.* A host callback is a step, and what follows an await is one of its
own; `asks` holds what the host waits for. The page takes messages as they are
posted, its own are under way until the host takes them.

*RebaseHost.* A flow is one call of the host; what it waits for is a request,
which is answered with what the repository was when the engine read it, or the
user.

*Timeline.* A file is a value and its history the commits that touch it; a page
under way carries the file and the cursor it was asked with. A cursor carries its own
file, as in the engine, which walks that one whatever file is asked for; renames are
left out.

*FileAnnotations.* A state of the document is its version and how often its blame was
invalidated; what is painted is named by the state it was rendered for. `missed` is
what a reader would call an editor that kept its annotations: it only excepts what
section 7 lists.

*LineBlame.* One document in several editors; what is shown is named by the pass that
found it. A cancelled pass is forgotten, as its answer has no effect.

*WebMirror.* The workspace answers `list`, `stat` and `read` as it is at one moment
and the continuation runs at a later one, so that every await is a window. A start
that was killed goes on, as in the code, and ends by becoming `currentModule`.

*RateLimiter.* Times are what is left of them, so time has no bound. Timers fire
on time.

*TtlCache.* A value stands for the fetch that brought it, and a fetch for the
drops of its key before it began.

## 3. What each run shows

Seven runs must find no error and five must find one. A *scenario* constant
(`Sessions`, `Hanging`, `Hosts`, `Settings`, `Bounds`, `Scripts`, `Scopes`) is a
set of configurations; the initial state, or the guard of the first step, picks
one, so a run covers them all.

| run | shows |
| --- | --- |
| `engine_state` | Requests: one drain per strand, order in a lane and notices before a blame, exact ids and counters, cancels that reach what they were meant for and nothing else, a drain that answers all. Blame: the cache is consistent and an undisturbed fill is what its key says. Watcher: every change is on its way to the listener, the tables are the kernel's, whatever watches are refused, events dropped and directories gone, and a sweep misses nothing. Graph: pages are slices of one listing, and lines do not break. Rebase: no commit is lost, the plan is carried out. Log: readers page through one history though the ref moves, sequences are evicted and commits are collected (`LogsExact`). |
| `engine_service` | `Dispatcher` implements `RequestService`, its liveness included; a stop completes though a handler returns only once cancelled. The pool loses no wakeup, starves nobody behind a task that hangs, and a shutdown drains and joins. |
| `client` | One engine at a time; deadlines exact though prompts overlap, and prompts withdrawn by their own engine (`PromptsExact`); no stale answer, a restart that outlives the restart that overtakes it, and no lost request for a host that starts its engine once (the extension). The blame model: exact bytes and budgets, callers kept apart, deserted requests on a timer (`CallersServed`). |
| `timers` | The limiter passes turns on in order and implements `TokenBucket`; every caller leaves. With fair timers alone every request and restart of the client settles and an engine that exits comes back. |
| `askpass` | Prompt time is never charged to git; every git ends and the broker stops (`GitsAndBrokerEnd`); every dialog is answered or withdrawn. |
| `extension_state` | Ids are of the current engine and listeners know the list (`ListKept`), the registry's maps agree. What is shown describes the buffer asked about, and the overlay is what was sent (`BuffersBlamed`). Graph rows are of one current walk and paging stays alive (`GraphRight`). The rebase host looks again at what it put off. A file of the web engine's copy is the workspace's or on its way (`MirrorExact`). Nothing fetched before a drop is cached after it. |
| `views` | Every blame asked for is shown or given up, across a restart, a reopening and a rewrite of the file (`AskEnds`). Hunks picked are staged as pointed at or refused (`SubsetExact`). The stash meant is the one that goes, if nobody moves it in between (`GoneAsMeant`). A stopped operation is named, and answered on its repository (`OperationsKept`). The file history keeps to its file (`TimelineKept`). Annotations are of one kind, and those of the mode and the text that are current (`AnnotationsKept`); line blame is of the current line (`LineKept`). |
| `client_orphan` | *violation*: a host with `autoStart` orphans requests (section 7). |
| `buffer_reopen` | *violation*: a document opened again is shown the blame of another buffer. |
| `graph_actions` | *violation*: an action acts on another repository than the one it was chosen on. |
| `unstage_astray` | *violation*: another hunk than the one pointed at is unstaged. |
| `sequence_forgotten` | *violation*: the engine knows of no operation while git is in the middle of a sequence. |

Every property has a mutant in `PROJECT.json`: a plausible mistake in one mapped
definition (a dropped guard, a wrong order) that makes TLC report it.

## 4. Bounds, and why they are enough

*Dispatcher.* At most four payloads of a session, each sent at most once, two
threads, one lane, ids 1 and 2, room for one deferred payload and one remembered
cancel. The hazards need two tasks of a strand, a payload ahead of them that is
parsed late, and a cancel or a reuse in between; a third request of one id shows
the second reuse. Both limits are reached: a second large payload finds no room.
The threads are symmetric in the safety run.
*TaskPool.* Three tasks, a core thread and one more: enough for one thread to
retire as another is woken and for the supervisor to be needed.
*Askpass.* One git and two prompts that may overlap, on a clock of 4 that runs
past the deadline and the prompt timeout of 1; one prompt with a server that
stops; and deadlines as far away as the clock, so that the stop cannot lean on
them. Gits share nothing but the broker's stop flag.
*WatchHub.* Two repositories over one tree of a directory and two nested in it,
five changes or refused watches and a kernel queue of three: enough to make, fill,
remove and make again a directory while one repository leaves and another comes, to
overflow the queue while the hub is busy, and for a directory to go while it is walked.
*StatSweep.* Three writes in a time of five, a tick of two and a racy window of
one tick: two writes may share a stamp, fall on either side of a sweep, or
between its stat and its hash.
*BlameCache.* Two workers, two values for each input, one change, results of one
or two bytes in a budget of three.
*GraphRows.* Every history of four commits, and every one of three with one
change of refs, files, stash or filter, two branches and two stashes; pages of
one and three rows; a cache of one plan, so that it is always evicted by another.
Four commits make a merge whose lines cross.
*Rebase.* Three commits, in order and with the last one first, any valid plan of
them, refs on two, two happenings outside. Three make a fold between two others.
*EngineClient.* Up to four generations, two requests, two restarts, two prompts,
a crash limit of 0 or 1 (the code: 3), in six combinations for safety and four
smaller ones for liveness. Two generations make a stale event, three an
overtaken restart, four one after the client gave up.
*BlameModel.* Two callers, four keys (a revision, the disk, two versions), three
requests, room for two entries and three bytes: the third request evicts, by
count or by bytes.
*BufferBlame.* Two surfaces; five versions and three contents against an eviction
and forgotten directories, or four and two against an eviction and a restart. A staleness needs one surface to
ask, the buffer to change, another to ask, and an answer between them. For
liveness one edit, with a restart and a rewrite of the file, and either an
eviction or forgotten directories.
*Repositories.* A directory inside another, two events, two lookups, one crash: a
lookup answered across the crash, or registered while the list is made anew.
*GraphPanel.* Two repositories of two rows, pages of one row, one retry, two
events of each of six pairs or triples of kinds: what a page under way can meet.
*RebaseHost.* Two calls that overlap and two changes of the repository.
*HunkStaging.* Three places a hunk may be, in stretches of three lines, equal or not,
and one change of the file or of the index at any moment, between the listing and the
request or between the diff and the patch: two hunks chosen from and a third place that
looks alike. A place holds no line, one, another one or two, so that an edit may keep
the ranges of a hunk or not.
*LogPages.* Four commits with a merge, two readers, three requests and one move of the
ref, a budget that holds the sequence of one tip and not of two: one reader begins, the
other reads from where the ref has moved and evicts its sequence, and the first goes on.
*Stashes.* Two stashes, three entries, three actions: one acts while another moves
what it names.
*Sequencer.* Two repositories, a pick of two commits, two commands and one thing from
outside (a command in a terminal, a killed git or an engine started): the shortest
sequence that stops with commits still to go.
*Timeline.* Two files with two commits each, pages of one, two shows, one change and
one failure: a page of one file under way while the other is shown.
*FileAnnotations.* Two editors, two kinds of annotation, one edit or invalidation and
three of what the user does: toggle, switch the mode, show, hide, focus, close.
*LineBlame.* Two editors, two lines, one edit, three moves: a pass that is overtaken by
a move in the other editor, and a tooltip by both.
*WebMirror.* Two files of one or two bytes under a limit of three, two modules, two
flushes, two changes, one crash or restart: one flush can overtake another, a mirror
can exceed the limit, and a flush can meet a mirror.
*RateLimiter.* Three callers, one token of two parts, waits of up to two ticks,
five kinds of headers: a head that sleeps, one behind it and one behind that.
*TtlCache.* Two keys in a cache of one, two readers, two fetches, two drops.

`CHECK_DEADLOCK FALSE` stands where the system may stop for good: a clock or a
bound is used up, a document is closed, a client has nothing left to do, no event
is left in a script. `EngineService` has it because a handler that never returns,
routed after `cancelAll`, does hold up the stop (section 7), and the runs of
several components because some of those stop.

## 5. Fairness

Every assumption is weak fairness unless said otherwise, and of steps whose
thread or timer is always scheduled in the end.

* *Dispatcher*: each worker, the read loop's pending route, the stop once begun.
  The client need not send anything, and an endless handler has no fairness
  beyond "it returns once cancelled".
* *TaskPool*: each thread, the posters' notify, the supervisor, the passing of
  time, the shutdown once begun. A task of `stuck` never ends.
* *EngineClient*: continuations, the start of a transport, timers. An engine need
  not answer or exit, and a user need not answer a prompt; the handler of one
  that was withdrawn does settle.
* *Askpass*: the reader of each git, the broker's workers, the stop once begun,
  the clock. Neither git nor the user does anything by itself.
* *BufferBlame*: continuations and the engine's steps; strong fairness of the
  frames, timers and answers that wait for the one JavaScript thread, because the
  event loop is a first-in first-out queue: a task that waits is reached though
  others run before it, whereas its guard (`Quiet`) is disabled each time one
  does.
* *RateLimiter*: the turn of each caller, and strong fairness of the clock, which
  a turn disables. Nobody need call, abort or answer.

In a run of several components the fairness of each is conjoined with `subject`
being that component; it is the fairness of the component's own specification.

## 6. Proofs

Eight modules hold theorems, one of them (`SumTheorems`) only lemmas. A theorem rests on the component's named assumption
about its constants alone (`RebaseHost` and `Repositories` need none), never on the
sizes the runs use.
The invariants were checked by TLC on small instances before they were proved.

Of a component that a run has beside others, two things are proved: that its own
specification implies its property, `Component!Spec => []Component!Property`; and
`(subject = "component" => Component!Spec) /\ [][UNCHANGED subject]_subject =>
[]Property`, where `Property` is what the run checks. The specification of the run,
`AllSpec`, gives the hypotheses by its definition: the subject never changes, and the
steps of the component at work are those of its `Next`. For the pool and the blame
model `ServiceProofs` and `EngineClientProofs` extend the run's module itself and prove
`AllSpec => []WakeupsKept` and `AllSpec => []CallersServed`.

`ServiceProofs`, of the dispatcher, for every finite set of messages and any sets of ids, lanes,
threads and sessions, under `ConstantsAssumption`:

* `TypeCorrect`: `Spec => []TypeOK`. `TypeOK` says more than kinds: `worker` is
  one of the combinations of place, strand and task a thread can be in, so that
  a thread is inside a strand only while it drains it. It is inductive as it
  stands; the proof has one lemma per helper (`PostPoolType`, `PostStrandType`,
  `RouteMessageType`, ...) and one case per action.
* `OneDrainAlways`: `Spec => []OneDrain`. Mutual exclusion inside a strand is not
  inductive: a drain queued in the pool could start beside one that runs. The
  strengthening says that a strand whose `draining_` is set has exactly one
  drain, queued or running, and one whose flag is clear has none. `PostStrand`
  queues a drain only with the flag clear and sets it (`PostStrandOneDrain`);
  a worker takes the queued drain and becomes the running one; only a running
  one clears the flag (`WorkerStepOneDrain`). It uses `TypeOK` as its other half.
* `StrandMutualExclusion`: two threads are never inside one strand, hence two
  mutations of one repository never overlap; a corollary.
* `AccountsRight`: `Spec => []AccountsExact`; `OrderAlways`: `Spec => []OrderKept`;
  `DrainComplete`: `Spec => []DrainAnswersAll`. One invariant, `DispatcherInv`,
  carries the three. None of them is inductive, because each speaks of what has
  come out (answers, handlers started, notices handled) and says nothing of what
  is still inside. `DispatcherInv` says that there is a function `at` giving every
  message one place on its way: `unsent`, held by the read loop, `waiting` to be
  routed or `routing`, `queued` on a strand, `opened` by it, `pooled`, `called`,
  `sending`, `done`, or `lost` by a pool that was stopping. `Located(at)` ties the
  places to the state: a strand holds exactly its waiting and queued messages, in
  the order of arrival (`OnStrands`); the pool each of its requests once
  (`InPool`); no two threads have one message (`OnThreads`); what a thread took
  off a strand arrived before what is left there (`Ahead`); apart from cancels,
  all that is routed arrived before all that is not (`InTurn`, which is where the
  queue behind a large payload matters); and an id's entry belongs to the
  request registered under it, from its routing to its answer (`Entered`).
  `Orders(at)` says what has come out so far comes before what is inside and would
  follow it, `DrainedOut(at)` that after `waitIdle` let the stop pass nothing is
  left inside. `CountersExact` ties `queuedRoutes_` and the bytes to the tasks they
  count, `Reused` sees to it that whoever met its id in use is in `clash`.
  `OneDrain` is needed as well: that a strand's order survives rests on there being
  one thread that takes from it. A step moves at most one message, so the proof has
  a lemma for each part and each kind of move (`Moved(at, m, p)`), and
  `DispatcherStep` chooses the new `at` for each action.
* `CancelsHit`: `Spec => []CancelsExact`, for a client that cancels no more ids than
  `kMaxEarlyCancelled` (`FewIdsCancelled`: beyond it the code gives up cancels, and the
  property does not hold); `CancelledAsAsked`: `Spec => []CancelledOnlyIfAsked`, its
  other half, without that condition. `CancelReaches` speaks of a handler that runs,
  and is decided long before, when its request is still on its way. `CancelsInv` says
  of every cancel that has been routed that it has reached every earlier, unanswered
  request of its id, in its entry or by what is remembered (`Reached`), and of what is
  remembered for an id that some cancel of that id came after all payloads it applies
  to (`Remembered`); so a spent or forgotten cancel never hits a later request. It
  rests on `DispatcherInv`: routing in turn says that what is left for an id once
  one of its requests is registered has reused it, the exact count of queued routes
  that forgetting when the last has been counted out forgets nothing still due.
* `ServiceKept`: `Spec => Service!Init /\ [][Service!Next]_(Service!vars)`, the safety
  part of `ImplementsService`. Taking a request maps to `Submit`, or `Bounce` when it is
  turned away at once; a cancel to `AskCancel`; a queued payload turned away and an
  answer written to `Finish`; leaving the loop to `StopServing`; everything else to a
  stutter. A refusal needs the entry that is in the way to be of a pending request
  (`Entered`), an answer that says cancelled needs `CancelledOnlyIfAsked`.

`ServiceProofs`, of the pool, for any finite sets of threads and core threads, any tasks and hanging
sets, under `PoolAssumption`:

* `NoWakeupLost`: `Spec => []WakeupsKept` and `AllSpec => []WakeupsKept`. `idle_` and
  `live_` are cardinalities of the sets of threads they count; moving one thread
  changes each by at most one (`OneMoves`). `NoLostWakeup` is close to inductive:
  `notify_one` may find every sleeping thread already picked, and what keeps its task
  from waiting forever is that a thread signalled, once awake, looks at the queues
  before it sleeps again.
  What it lacks is that a task queued or run was posted (`OnlyPosted`).

`AskpassProofs`, for every finite set of prompts and every setting of deadlines,
under `AskpassAssumption`:

* `PromptsNeverCharged`: `Spec => []NeverCutShort`. The reader of a git looks at the
  count of open prompts and then at the time added up; the broker adds the time and
  only then lowers the count. The invariant says that the time elapsed is at most
  the time with no prompt open plus the time added up (`Accounted`): now or, while
  a prompt's time has still to be added, up to where that prompt began
  (`NowAccounted`); and, once the reader has seen no prompt open, up to the instant
  it sampled (`SampleAccounted`). The count of open prompts is that of the handlers
  between the two writes (`OpenCounts`), so a reader that sees zero knows that
  nothing is still to be added: the order of the reads and of the writes is used
  exactly there.

`EngineClientProofs`, for any sets of requests, restarts and prompts, any number of
generations and any crash limit, under `ClientAssumption`:

* `EnginesAlone`: `Spec => []EnginesKept`. One engine runs at a time because a
  generation to come has done nothing, `ready` is of the current one unless its
  handshake failed, and a crash is of a generation of its own (`LifeInv`). That a host
  which starts its engine once loses no request (`NoOrphans`) needs what holds while
  the respawn timer runs: it is the only timer, of the exit of the last engine, and
  nothing has been sent since (`Between`, `StartedOnce`). `client_orphan` is the same
  claim of a host with `autoStart`, where `Between` fails.
* `PromptsAccounted`: `Spec => []PromptsExact`. `pauses` is the number of prompts open
  for a request (`PausesExact`), by generation and prompt, so that a handler that
  settles after the engine has gone resumes the deadline it paused and no other.
* `GenerationsStayApart`: `Spec => GenerationsApart`, an action property: no answer of
  an earlier engine resolves a request of a later one, and a restart overtaken by
  another fails only when the newest engine did. It is a property of the steps under
  `ClientInv`, with one lemma per half.

`EngineClientProofs`, of the blame model, for any callers, keys, versions, sizes, budgets
and tokens, under `BlameModel`'s `ConstantsAssumption`:

* `BlameServes`: `[]CallersServed`. The account of the cache is a sum, so the invariant
  says it of the sequence of its ids: `Balanced` (the total is the sum of their bytes,
  and both budgets are met from two entries on) and `Accounted` (each id there once, and
  nothing charged yet for a request that runs). The callers' half is `Served`: whom a
  request has as a waiter waits for it, whoever waits is counted by a request that
  runs, and a request everybody left has its timer. Dropping, moving to the
  end, charging and evicting are one lemma each about that sum (`DropBalanced`,
  `MoveBalanced`, `AnswerKeeps`, ...), and one more per operation puts the halves together.

`EngineProofs`, under the assumptions of the three components:

* `SweepHears`: `[]SweptIsHeard`, for any granularity of timestamps within the racy
  window and any times. What is reported at the end of a sweep was decided at its
  stat, so the invariant says what the stamp kept from the last sweep will tell
  (`WillDiffer`, `Undisturbed`, `WillBeListed`), and why a stamp without a content
  hash cannot hide a write: it was older than the racy window (`OldUnhashed`).
* `EveryChangeTold`: `[]WatchesKept`, for any repositories over any tree of directories,
  any number of changes, any watches refused and any limit of the kernel's queue. The
  invariant says that below a directory that is watched
  for a repository that has lost nothing each one is watched, still to be walked, or told of by an event not
  yet read (`Reached`); that the hub's descriptors are the kernel's or about to be read
  to have gone (`Known`); and that a listener not yet called has its repository pending,
  due or coming (`InFlight`). That every directory is then watched is an induction on
  the depth of the tree, made without one: a directory is made after the one it is in,
  so among those not watched there is an oldest, and it is in one that is
  (`FirstUncovered`). The loss of an event, of a watch or of the rest of a walk makes a
  repository `partial`, and the invariant says of the partial ones only what still holds:
  what the kernel tells of them is told.
* `CacheAgrees`: `[]BlameExact`, for any threads, values, sizes and budget. `Indexed` has
  each key once in the list and a result for just these; `Accounted` has `used_` the sum
  of their bytes, within the budget from two on. `put` subtracts what it replaces, adds
  what it stores and subtracts what it evicts: the sum over the list with the key at
  its head is that of the kept part and of the rest (`FrontIs`, `HeadIs`, `EvictedRight`).
  That an undisturbed result is what its key says needs it of the fill on its way:
  as long as nothing it sees has changed, what it read for the key and what git read are
  what the repository holds, and what it cannot see is the same in both (`Agrees`).

`SumTheorems` is where those sums come from. `Least` is well-founded induction in the form
of a least element, `Induction` and `Recursion` are proved from it with sets and functions
for predicates: a set contains `0 .. n` if it contains 0 and is closed below `n`, and what
a recursion defines there exists. `SumIs` says that the recursive sum is the only function
that runs through the partial sums; `WeighConcat`, `WeighParts` and `WeighRaised` what it is
of a concatenation, of two parts, and when one element changes.

`ExtensionProofs`, for every set of directories however nested, any calls that overlap,
any files and modules, any keys, readers and fetches:

* `RegistryAgrees`: `Spec => []RegistryExact`. The strengthening adds that ids
  given out are below the next one and that a root has one entry: `AddKeeps` and
  `RemoveKeeps` are the two operations, every other action leaves the maps alone
  or, with the engine's exit, empties them.
* `ListRight`: `Spec => []ListKept`. An id is checked when it is listed, and must stay
  right while requests, closes, crashes and rediscoveries cross. The invariant follows
  it from the engine on: an answer under way is of an id the running engine issued for
  that root (`AnswersIssued`), and of one it watches if a watch was asked for
  (`AnswersWatched`); so is what is listed (`Listed`); rediscovery has one request under
  way, for the head of what it has left, and none when it is over (`LoopExact`); the
  listeners know the list as it is or as it was before it (`Announced`).
* `PutOffIsLookedAt`: `[]NothingPutOff`. The flags of the rebase host say nothing about
  who will clear them. The invariant gives each an owner: while `running` some call is
  in the part of a step that ends by clearing it, likewise `starting`, and while
  something is put off some call is in either (`RunHeld`, `StartHeld`,
  `PutOffHeld`); `CallsFit` says which waits belong to which operation.
* `MirrorFollows`: `[]MirrorExact`. For a file that is neither reported, put
  off nor taken astray, the invariant says what each stage has of it: the mirror
  under way has still to read it, holds it as it is, or has written it
  (`Mirroring`); once the engine is ready, one flush at most has it, and that one
  has not read it yet or has read it as it is (`Following`). `EmptyFirst` says that
  a module that is not mirrored yet holds nothing, `ToLive` that flushes go to
  modules whose start has ended, so that none writes into a mirror under way.
* `NothingOlder`: `[]FreshAfterDrop`. A key has one entry, of a fetch that began after
  its last drop (`EntriesFresh`); so did the fetch that owns it (`OwnersFresh`), which
  is why one that a drop disowned stores nothing; a reader waits for one that began
  after the drop before its read (`ReadersFresh`).

`ViewsProofs`, for any editors, lines, files, commits, surfaces and repositories, under
the assumptions of the components:

* `AnnotationsFollow`: `Spec => []AnnotationsKept`. That what is painted is up to
  date when nothing is under way is not inductive; the invariant says, while
  something is, that a render that will have an effect is of the mode and blame as
  they are (`Fresh`) and that there is one, or a timer that will begin one, as
  long as what is painted is not (`Reached`).
* `LineFollows`: `[]LineKept`. The active editor shows what is known of its
  line, or the timer is set for it, or the one pass under way is of the line as it
  is (`Awaited`); the bar and its tooltip are of one pass (`OnePass`).
* `TimelineRight`: `[]TimelineKept`. The last reset on its way tells the page its file
  (`FilesFollow`); until the host is asked to go on with a file the panel has left, what
  is under way for the panel's target is of its file, by the file in the cursor as well
  (`CursorsFollow`); entries are known to the host until a reset follows them
  (`EntriesKnown`); and while no page has been crossed by a reset one page is asked for
  at a time (`OneAtATime`), finds the page ending where it begins (`InTurn`), and what is
  first is the newest or a refetch is due (`Newest`).
* `WhatGoesWasMeant`: `[]GoneAsMeant`. Every entry ever made is in the list, once, or
  gone; until the list changes an action's entry is at the index where it was found
  (`FoundThere`).
* `OperationsNamed`: `[]OperationsKept`. What git is stopped in has a marker of its own
  unless a commit or reset by hand took it or a killed git never wrote it (`GitKept`); a
  repository being served has no answer, and one that has is as the answer says
  (`AnswersKept`, `TrueOf`); a refresh is of the active repository, and what it has read,
  if anything, is so still or the timer is set (`KeyKept`).

`RateLimiterProofs`, for every set of callers, capacity, rate and headers, under
`RateLimiterAssumption`:

* `RefillLazily`: `Spec => ImplementsBucket`. A host's bucket is filled only when
  somebody looks; what it would then hold (`Level`) is a bucket that fills at
  every tick. Initial states map to initial states, an admission to `Take`, a tick
  to `Accrue`, and everything else to a stutter.
* `CallersInTurn`: `Spec => []TurnsInOrder`. The chain of promises is one queue: the
  callers that wait are some `q[1], ..., q[n]`, each behind the one before it, and
  only the first sleeps (`Queued`); a sleep ends within what its caller is willing
  to wait (`Patient`).

Only model-checked:

* every liveness property, that of `RequestService` among them: liveness under fairness
  and `ENABLED` are out of the prover's reach;
* `GraphDrawn`, `PlanKept`, `SubsetExact` and `LogsExact`: lanes of a walk, a plan carried
  out line by line, the place of a hunk, pages cut from a history are values of recursive
  definitions over data of any length. The library's induction theorems take an operator
  as a parameter, which no prover here can instantiate. `SumTheorems` goes around them
  with sets where one function of the index is summed; what these four compute has no
  such short description, and the modules use `RECURSIVE` operators of the library.
* `BuffersBlamed` and `GraphRight`, whose invariants nobody has proved (section 9).

No module with a theorem reaches a `RECURSIVE` operator. `RECURSIVE` also hides in the
library: `SelectSeq` is one, so the modules proved about state a filter by what it keeps
(`Forget`) or by a recursive function (`Only` of `BlameModel`). An instance has its own copy of `FiniteSets`, hence `SameFinite` and `SameCount`
in `ServiceProofs`.

## 7. What the properties leave out, and findings

Five runs find a disagreement between the code and what its comments or tests say:

* `client_orphan`. The comment of `EngineClient` says pending requests are
  rejected on respawn. An engine that exits during its handshake arms the respawn
  timer; with `autoStart` (the MCP server) the next request starts a new engine
  within the backoff without clearing it; the timer then replaces that engine,
  whose exit is no longer heeded, and its requests wait for their deadlines. They
  do settle (`ClientSettles`). The extension starts its engine once, and
  `EnginesKept` shows it is not exposed.
* `buffer_reopen`. `BlameModel` finds superseded answers by version and relies on
  versions that only increase; the editor counts from 1 each time a document is
  opened. Discard a modified document, open and modify it again before anything
  asked about the clean one, and an answer cached for the discarded buffer is
  shown.
* `graph_actions`. A panel without a repository resolves one with retries, follows
  another one chosen meanwhile, and is then put on the first by `adoptRepo`, which
  keeps the generations issued: an action chosen on the rows still shown is let
  through and acts on the other repository.
* `unstage_astray`. The comment of `buildSubsetPatch` says the numbers of a reversed
  hunk are absolute and are kept. They are absolute on the index, and `git apply
  --reverse` looks in HEAD, so they are off by what the hunks that were not chosen
  added; in a file that repeats itself the nearest match is another place.
* `sequence_forgotten`. `repo/state` names the operation by `CHERRY_PICK_HEAD` and
  `REVERT_HEAD`, which git removes when what stopped a pick of several commits is
  committed; the commits still to go stay in `.git/sequencer`, git refuses another
  pick, and the engine says nothing is going on and refuses to continue.

Other behaviour met while modelling, inside the models but outside what the
properties claim:

* A request routed after `cancelAll` ran (`server.cpp`, `stop`) is not cancelled;
  if its handler is endless the engine's exit waits for it. `StopCompletes` says
  when the stop does get through.
* A pool that is stopping drops what is posted: a request whose turn on the
  notification strand comes after that is never answered. `DrainAnswersAll`
  states what is promised: a stop that waited until idle left nothing unanswered.
* A caller of `BlameModel.getBlame` whose token has already fired starts a
  request that nobody has joined and no grace timer will cancel. `CallersKept` speaks of
  requests somebody joined.
* `blame_cache.h` says entries never go stale. HEAD, the file or the mailmap may
  change between the key and git's own reading, and the result stays under the
  old key. `UndisturbedExact` speaks of fills nothing disturbed.
* While an engine that was respawned is told of repositories and buffers again,
  cached answers of the one before are still shown (`reloading`), and a buffer
  pushed in that time may be forgotten by `resync` and stay in the engine; hence
  the conditions of `BlameDescribesBuffer` and `OverlayExact`. A tool that
  rewrites the file behind the editor is seen only when the watcher reports it.
* A prompt read from the pipe after the exit of its engine was reported (`node.ts`
  listens to `exit`, not to the end of the pipe) is never withdrawn; `InboundExact`
  speaks of engines that run.
* The watcher loses changes in three ways without noticing, though the comment above
  `addDirTreeLocked` (`watch_manager.cpp:251`) says every directory is watched: a directory
  that vanishes while its tree is walked ends the walk, and those after it stay unwatched
  (262); a watch the kernel refuses, at its limit of watches for one, is not made (242);
  and when the kernel's queue overflows, the event that says so is of no descriptor the
  hub knows and is passed over (291). `WatchesKept` still claims of such a repository
  (`partial`) that what the kernel does tell reaches the listener, and no more.
* The graph panel: an error carries no generation, so it may release the page's
  paging guard while a page is under way; a panel closed while its first page loads
  and opened again has its `ready` swallowed by the attach still pending; two
  resolves that overlap leave the graph on a repository that is not the active one;
  `checkWip` compares with rows about to be replaced; after a failed refresh the
  page's generation lags behind and asks for more rows are ignored; `setFilter`
  carries no generation. `RowsRight` and `PagingAlive` except a panel that shows an
  error, and are stated for panels that have settled.
* The rebase panel: messages of a plan hold only while the rebase is resumed by
  `rebase/continue`; the general sequencer and a terminal resume it with git's own
  editor, and `PlanKept` excludes those and skipped commits. A panel opened for a
  rebase that ended between the check and `ensurePanel` stays in its paused state.
  `resume()` looks at `busy()` before its await.
* Overlapping refreshes of the conflict indicator may end with the older answer.
* "Forgets every per-directory answer" (`repositoryService.ts`) clears the answers
  kept and not the lookups under way: one that the engine answered before a
  repository was created is kept for good, and lookups in between join it.
* Closing the rebase panel while a step runs clears its repository; the step stops
  and opens a panel that has none to show.
* A request to stage hunks does not carry the diff it was chosen from. The comment
  (`stage_methods.cpp:290`) says that a stale request fails; an edit that leaves the
  ranges as they were and changes their lines is staged as it now stands. `SubsetExact`
  claims the places.
* Another tool may stage between the diff (`stage_methods.cpp:310`) and the patch (368,
  373). The patch may then be refused though its hunks were there; libgit2 may write the
  index it had loaded over what the tool staged; and in a file that repeats itself the
  patch may land elsewhere. `SubsetExact` allows the first two, and the third only there.
* A stash is looked up by its commit and dropped by its index: one pushed or dropped
  in a terminal while the confirmation is open makes another entry the one that goes.
  `GoneAsMeant` speaks of lists that nobody moved.
* The context that says which operation is going on is not refreshed when the active
  repository changes, overlapping refreshes may end with the older answer, and a refresh
  that cannot read `repo/state` hides the commands, until the next notice, while the
  operation goes on (`syncCommands.ts:402`). `KeyInStep` excepts the three. The buttons
  of a notification act on the repository that is active when pressed.
* A git that is killed between two commits of a sequence leaves `.git/sequencer` and no
  HEAD file, which `sequencerState` misses as in `sequence_forgotten`; its handler fails
  without a look at what was left. `NamedRightly` and `AnswersTrue` except it.
* File history: a page under way when a refetch resets the list is appended to the
  new one; a page that fails leaves `loadPending` set until the next reset; and a
  `loadMore` the host takes after `showFile` has put the panel on another file is sent
  with the new target, passes the check of it (`timelineHost.ts:186`), and is answered
  with the former file, which the cursor names (`history_methods.cpp:489`): its entries
  stand under the new file. `TimelineKept` excepts the first once they have met
  (`crossed`), and the last until the panel is closed (`strayed`).
* The log of a tip that has been collected ends with an empty page and no cursor
  (`history_methods.cpp:337`), which a client cannot tell from the end: `LogsExact`
  says a client told there is no more has read it all, or its tip is gone.
* `DocumentSync` says the engine's copy of a buffer goes when the document is clean. Of
  one that was closed and opened again a late answer about its former versions makes the
  retry forget that it was pushed, and nothing drops it when it is clean before its
  repository is found; `CleanBufferDropped` excepts documents opened again.
* The web extension: flushes are not serialised, so of two that hold a file the older
  reading may be written last; a change reported while the first mirror is under way
  waits for the next event, as the timer that finds no module is not set again; one
  reported while a respawned engine is mirrored goes to the module that exited; a start
  that was killed by a restart still makes its module the one that is flushed into; and
  a file that vanishes between the listing and its reading fails the mirror and, with
  it, the start. `MirrorExact` excepts `crossed` paths and speaks of engines that run.
* Annotations: turning them off does not supersede a render under way, which paints
  afterwards, though the comment of `setEnabled` says that disabling clears every
  editor; off reaches the active editor only; renders of two editors of one document
  supersede each other; and review leaves gutter blame forced on the documents visited.
  `AnnotationsKept` excepts these.
* Line blame has one timer and one token, though the comment says one token per editor:
  a selection in the other editor of a split takes those of the active one, and an
  editor that loses the focus keeps its text. `LineKept` excepts these.

## 8. Not modelled, and why

Pure functions and rendering (search, refs, diff, provenance, trees,
what an annotation looks like, the pages' drawing); calls to other services (AI, hosting providers,
MCP tools); type definitions (protocol schemas); command lines and environment
(git helpers); the wasm build, which runs the same code on one thread with an
inline pool; scripts. Byte-level framing is sequential parsing. Of the modelled
components: the socket and the authentication of prompts, the macOS watcher, the
classification of watched paths, graph search and parent rewriting for file
filters, the mutations that are one git command on their repository's strand.

## 9. Plan

Next, in this order:

1. Composition of `EngineClient` with the stop of `Dispatcher`, and of `WebMirror`
   with `EngineClient`, whose part in it is an abstraction now.
2. `EngineClient`'s byte streams (`rpc/framing.*`), as sequences cut at any place.

Theorems to come: `BuffersBlamed` of `BufferBlame`, whose
invariant has to follow each content through lookup, overlay and cache; `GraphRight` of
`GraphPanel`.

## 10. Running it

    tlc -workers 2 -config EngineState.cfg MCEngine
    tlapm ServiceProofs.tla

`PROJECT.json` pairs every run with its module and configuration. No run takes
more than about two and a half minutes on two workers that have the machine to
themselves.
