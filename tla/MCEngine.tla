------------------------------ MODULE MCEngine ------------------------------
(* The engine's components that serve requests, side by side for TLC: a run   *)
(* chooses one, and the others stay away.                                     *)
EXTENDS Dispatcher, EngineParts, TLC

CONSTANTS r1, r2, r3, r4, r5, r6, n1, n2, c1, w1, w2, lane

TwoWorkers == {w1, w2}

\* r1 and r2 are mutations of one repository, r3 is a blame, r4 a search, r5 has
\* no known method, and r6 is a mutation that ends only when it is cancelled.
Ids12 == [m \in Requests \cup Cancels |-> IF m = r2 THEN 2 ELSE 1]
Modes1 == [r \in Requests |->
  CASE r \in {r1, r2, r6} -> "serial" [] r = r3 -> "after" [] r = r4 -> "concurrent" [] OTHER -> "unknown"]
Lanes1 == [r \in Requests |-> lane]
Priorities1 == [r \in Requests |-> IF r = r4 THEN "background" ELSE "interactive"]

\* Two mutations and a cancel; a blame among edits; three requests of one id and
\* a cancel for it.
SerialBlameReuse == {{r1, r2, c1}, {r3, n1, n2}, {r3, r4, r5, c1}}

\* refs/ and a tree two deep below it.
Above(d) == IF d = "tags" THEN "heads" ELSE "refs"

\* A longer history; and one that changes, with two stashes.
GraphScopes == {[commits |-> 4, moves |-> 0, stashes |-> 0], [commits |-> 3, moves |-> 1, stashes |-> 2]}

\* A merge below a line of one, and so at the top once the ref has moved.
LogHistories == {<<{}, {}, {1, 2}, {3}>>}

VARIABLES
  graphParents, graphAt, graphStashes, graphDirty, graphFilter, graphCache, graphCursor,
  graphShown, graphWalked, graphMoves,
  rebaseBranch, rebaseUpstream, rebaseOutside, rebasePlan, rebaseExpected, rebasePhase,
  rebaseTodo, rebaseCurrent, rebaseStopped, rebaseEditor, rebaseMade, rebaseRecorded,
  rebaseSkipped, rebaseOthers,
  logHistory, logRef, logGone, logOrders, logLru, logBytes, logCharged, logReader,
  logRequests, logMoves

Graph == INSTANCE GraphRows WITH
  Scopes <- GraphScopes, Branches <- {"main", "topic"}, Main <- "main", MaxStashes <- 2,
  Limits <- {1, 3}, Entries <- 1, parents <- graphParents, at <- graphAt,
  stashes <- graphStashes, dirty <- graphDirty, filter <- graphFilter, cache <- graphCache,
  cursor <- graphCursor, shown <- graphShown, walked <- graphWalked, moves <- graphMoves

Rebasing == INSTANCE Rebase WITH
  History <- <<"c1", "c2", "c3">>, Later <- "c4", Marked <- {"c1", "c2"},
  Orders <- {<<1, 2, 3>>, <<3, 1, 2>>}, MaxOutside <- 2, NONE <- "none",
  branch <- rebaseBranch, upstream <- rebaseUpstream, outside <- rebaseOutside,
  plan <- rebasePlan, expected <- rebaseExpected, phase <- rebasePhase, todo <- rebaseTodo,
  current <- rebaseCurrent, stopped <- rebaseStopped, editor <- rebaseEditor,
  made <- rebaseMade, recorded <- rebaseRecorded, skipped <- rebaseSkipped,
  others <- rebaseOthers

Log == INSTANCE LogPages WITH
  Histories <- LogHistories, Readers <- TwoWorkers, Limits <- {1, 2}, Shas <- {1},
  Budget <- 6, Overhead <- 2, MaxRequests <- 3, MaxMoves <- 1, NONE <- None,
  history <- logHistory, ref <- logRef, gone <- logGone, orders <- logOrders, lru <- logLru,
  bytes <- logBytes, charged <- logCharged, reader <- logReader, requests <- logRequests,
  moves <- logMoves

BlameVars == <<blameWorld, blameChanges, blameLru, blameEntries, blameUsed, blameWorker>>
WatchVars == <<watchInode, watchChanges, watchKernel, watchLastWd, watchQueue, watchRepos, watchClosed,
  watchWatchDirs, watchWalk, watchAdding, watchDraining, watchPending, watchDue,
  watchUnseen, watchPartial>>
SweepVars == <<sweepKind, sweepNow, sweepWrites, sweepFile, sweepDirTime, sweepSeen, sweepSeenDir,
  sweepStep, sweepSweep, sweepHeard, sweepTouched, sweepInPlace>>
GraphVars == <<graphParents, graphAt, graphStashes, graphDirty, graphFilter, graphCache, graphCursor,
  graphShown, graphWalked, graphMoves>>
RebaseVars == <<rebaseBranch, rebaseUpstream, rebaseOutside, rebasePlan, rebaseExpected, rebasePhase,
  rebaseTodo, rebaseCurrent, rebaseStopped, rebaseEditor, rebaseMade, rebaseRecorded,
  rebaseSkipped, rebaseOthers>>
LogVars == <<logHistory, logRef, logGone, logOrders, logLru, logBytes, logCharged, logReader,
  logRequests, logMoves>>

BlameAway ==
  /\ blameWorld = 0 /\ blameChanges = 0 /\ blameLru = 0 /\ blameEntries = 0 /\ blameUsed = 0
  /\ blameWorker = 0
WatchAway ==
  /\ watchInode = 0 /\ watchChanges = 0 /\ watchKernel = 0 /\ watchLastWd = 0
  /\ watchQueue = 0 /\ watchRepos = 0 /\ watchClosed = 0 /\ watchWatchDirs = 0
  /\ watchWalk = 0 /\ watchAdding = 0 /\ watchDraining = 0 /\ watchPending = 0
  /\ watchDue = 0 /\ watchUnseen = 0 /\ watchPartial = 0
SweepAway ==
  /\ sweepKind = 0 /\ sweepNow = 0 /\ sweepWrites = 0 /\ sweepFile = 0 /\ sweepDirTime = 0
  /\ sweepSeen = 0 /\ sweepSeenDir = 0 /\ sweepStep = 0 /\ sweepSweep = 0 /\ sweepHeard = 0
  /\ sweepTouched = 0 /\ sweepInPlace = 0
GraphAway ==
  /\ graphParents = 0 /\ graphAt = 0 /\ graphStashes = 0 /\ graphDirty = 0
  /\ graphFilter = 0 /\ graphCache = 0 /\ graphCursor = 0 /\ graphShown = 0
  /\ graphWalked = 0 /\ graphMoves = 0
RebaseAway ==
  /\ rebaseBranch = 0 /\ rebaseUpstream = 0 /\ rebaseOutside = 0 /\ rebasePlan = 0
  /\ rebaseExpected = 0 /\ rebasePhase = 0 /\ rebaseTodo = 0 /\ rebaseCurrent = 0
  /\ rebaseStopped = 0 /\ rebaseEditor = 0 /\ rebaseMade = 0 /\ rebaseRecorded = 0
  /\ rebaseSkipped = 0 /\ rebaseOthers = 0
LogAway ==
  /\ logHistory = 0 /\ logRef = 0 /\ logGone = 0 /\ logOrders = 0 /\ logLru = 0
  /\ logBytes = 0 /\ logCharged = 0 /\ logReader = 0 /\ logRequests = 0 /\ logMoves = 0
RequestsAway == Init

Begins ==
  \/ subject = "requests" /\ Init /\ BlameAway /\ WatchAway /\ SweepAway /\ GraphAway /\ RebaseAway /\ LogAway
  \/ subject = "blame" /\ Blame!Init /\ RequestsAway /\ WatchAway /\ SweepAway /\ GraphAway /\ RebaseAway /\ LogAway
  \/ subject = "watch" /\ Watch!Init /\ RequestsAway /\ BlameAway /\ SweepAway /\ GraphAway /\ RebaseAway /\ LogAway
  \/ subject = "sweep" /\ Sweep!Init /\ RequestsAway /\ BlameAway /\ WatchAway /\ GraphAway /\ RebaseAway /\ LogAway
  \/ subject = "graph" /\ Graph!Init /\ RequestsAway /\ BlameAway /\ WatchAway /\ SweepAway /\ RebaseAway /\ LogAway
  \/ subject = "rebase" /\ Rebasing!Init /\ RequestsAway /\ BlameAway /\ WatchAway /\ SweepAway /\ GraphAway /\ LogAway
  \/ subject = "log" /\ Log!Init /\ RequestsAway /\ BlameAway /\ WatchAway /\ SweepAway /\ GraphAway /\ RebaseAway

Others(here) ==
  /\ UNCHANGED subject
  /\ IF here = "requests" THEN TRUE ELSE UNCHANGED vars
  /\ IF here = "blame" THEN TRUE ELSE UNCHANGED BlameVars
  /\ IF here = "watch" THEN TRUE ELSE UNCHANGED WatchVars
  /\ IF here = "sweep" THEN TRUE ELSE UNCHANGED SweepVars
  /\ IF here = "graph" THEN TRUE ELSE UNCHANGED GraphVars
  /\ IF here = "rebase" THEN TRUE ELSE UNCHANGED RebaseVars
  /\ IF here = "log" THEN TRUE ELSE UNCHANGED LogVars

Step ==
  \/ subject = "requests" /\ Next /\ Others("requests")
  \/ subject = "blame" /\ Blame!Next /\ Others("blame")
  \/ subject = "watch" /\ Watch!Next /\ Others("watch")
  \/ subject = "sweep" /\ Sweep!Next /\ Others("sweep")
  \/ subject = "graph" /\ Graph!Next /\ Others("graph")
  \/ subject = "rebase" /\ Rebasing!Next /\ Others("rebase")
  \/ subject = "log" /\ Log!Next /\ Others("log")

AllVars == <<subject, vars, BlameVars, WatchVars, SweepVars, GraphVars, RebaseVars, LogVars>>

AllSpec == Begins /\ [][Step]_AllVars

-----------------------------------------------------------------------------
ASSUME EngineAssumptions == Rebasing!RebaseAssumption /\ Log!LogPagesAssumption

\* Pool threads are interchangeable, and so are the readers of a log, one to a thread.
Threads == Permutations({w1, w2})

\* The pages of a graph are slices of one listing, and no line breaks at the boundary
\* of two of them (services/graph).
GraphDrawn == subject = "graph" => Graph!PagesAgree /\ Graph!LinesDrawn

\* No commit is lost in a rebase, and its plan is carried out to the letter, refs
\* included (services/rebase).
PlanKept == subject = "rebase" => Rebasing!NothingLost /\ Rebasing!PlanKept

\* Pages of a history are of one history, and the sequences they come from are
\* accounted for (history_methods.cpp, log_order_cache.h).
LogsExact == subject = "log" => Log!LogsExact
=============================================================================
