---------------------------- MODULE EngineParts -----------------------------
(* What the engine keeps of a repository that changes under it: the blame cache, *)
(* and the watches of its hub and the sweeps of its polling, side by side, each   *)
(* by an instance.  MCEngine checks them with other components of the engine;     *)
(* what is proved holds for every value of the constants.                         *)
EXTENDS Integers

CONSTANTS
  Fillers, Values, MaxEdits, Budget, Sizes,         \* BlameCache
  Repos, Dirs, Top, In(_), QueueLimit, MaxChanges,  \* WatchHub
  Tick, RacyWindow, MaxWrites, MaxTime              \* StatSweep

VARIABLES
  subject,      \* the component at work: the others are away
  blameWorld, blameChanges, blameLru, blameEntries, blameUsed, blameWorker,
  watchInode, watchChanges, watchKernel, watchLastWd, watchQueue, watchRepos, watchClosed,
  watchWatchDirs, watchWalk, watchAdding, watchDraining, watchPending, watchDue,
  watchUnseen, watchPartial,
  sweepKind, sweepNow, sweepWrites, sweepFile, sweepDirTime, sweepSeen, sweepSeenDir,
  sweepStep, sweepSweep, sweepHeard, sweepTouched, sweepInPlace

Blame == INSTANCE BlameCache WITH
  Workers <- Fillers, MaxChanges <- MaxEdits, world <- blameWorld, changes <- blameChanges,
  lru <- blameLru, entries <- blameEntries, used <- blameUsed, worker <- blameWorker

Watch == INSTANCE WatchHub WITH
  inode <- watchInode, changes <- watchChanges, kernel <- watchKernel,
  lastWd <- watchLastWd, queue <- watchQueue, repos <- watchRepos, closed <- watchClosed,
  watchDirs <- watchWatchDirs, walk <- watchWalk, adding <- watchAdding,
  draining <- watchDraining, pending <- watchPending, due <- watchDue,
  unseen <- watchUnseen, partial <- watchPartial

Sweep == INSTANCE StatSweep WITH
  kind <- sweepKind, now <- sweepNow, writes <- sweepWrites, file <- sweepFile,
  dirTime <- sweepDirTime, seen <- sweepSeen, seenDir <- sweepSeenDir, step <- sweepStep,
  sweep <- sweepSweep, heard <- sweepHeard, touched <- sweepTouched, inPlace <- sweepInPlace

-----------------------------------------------------------------------------
ASSUME EnginePartsAssumptions ==
  Blame!ConstantsAssumption /\ Watch!WatchHubAssumption /\ Sweep!StatSweepAssumption

\* Cached blame is what its key says, and within the budget (blame_cache.cpp).
BlameExact == subject = "blame" => Blame!CacheExact /\ Blame!UndisturbedExact

\* Every change of a watched repository is on its way to the listener, and the
\* hub's tables agree with the kernel's (watch_manager.cpp).
WatchesKept == subject = "watch" => Watch!ChangesOnTheirWay /\ Watch!WatchesExact

\* What a stat sweep has gone over has been heard (watch_manager.cpp).
SweptIsHeard == subject = "sweep" => Sweep!SweptIsHeard
=============================================================================
