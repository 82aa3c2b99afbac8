----------------------------- MODULE ViewParts ------------------------------
(* What the user looks at and acts on: how a document is annotated, and side   *)
(* by side with it, each by an instance, the blame of the current line, the     *)
(* file history, the stashes and what git is stopped in.  MCViews checks them   *)
(* with other components; what is proved holds for every value of the constants.*)
EXTENDS FileAnnotations

CONSTANTS
  Lines, MaxVersion, MaxMoves,                                 \* LineBlame
  Files, MaxCommits, Page, MaxShows, MaxChanges, MaxFailures,  \* Timeline
  StashSurfaces, Palette, Stashed, MaxEntries, MaxActions,     \* Stashes
  Repos, Busy, Picks, MaxOperations, MaxOutside                \* Sequencer

VARIABLES
  subject,      \* the component at work: the others are away
  stashStashes, stashMade, stashShown, stashFlow, stashActions, stashGone,
  sequencerGit, sequencerServing, sequencerAnswer, sequencerActive, sequencerTimer,
  sequencerRefreshes, sequencerKey, sequencerUnread, sequencerCrossed, sequencerOutOfTurn,
  sequencerCommands, sequencerOutsides,
  lineVersion, lineLine, lineActive, lineSurfaces, lineTimer, linePass, lineTip, lineInline,
  lineState, lineTooltip, lineBarShown, lineUnblamed, lineTaken, lineMoves,
  timelineLength, timelinePanel, timelineTarget, timelineKnown, timelineRefetch,
  timelineBegins, timelineFetches, timelineToPage, timelineToHost, timelinePage,
  timelineShows, timelineChanges, timelineFailures, timelineCrossed, timelineStrayed

Stash == INSTANCE Stashes WITH
  Surfaces <- StashSurfaces, stashes <- stashStashes, made <- stashMade,
  shown <- stashShown, flow <- stashFlow, actions <- stashActions, gone <- stashGone

Stopped == INSTANCE Sequencer WITH
  MaxCommands <- MaxOperations, git <- sequencerGit, serving <- sequencerServing,
  answer <- sequencerAnswer, active <- sequencerActive, timer <- sequencerTimer,
  refreshes <- sequencerRefreshes, key <- sequencerKey, unread <- sequencerUnread,
  crossed <- sequencerCrossed, outOfTurn <- sequencerOutOfTurn,
  commands <- sequencerCommands, outsides <- sequencerOutsides

Line == INSTANCE LineBlame WITH
  version <- lineVersion, line <- lineLine, active <- lineActive, surfaces <- lineSurfaces,
  timer <- lineTimer, pass <- linePass, tip <- lineTip, inline <- lineInline,
  state <- lineState, tooltip <- lineTooltip, barShown <- lineBarShown,
  unblamed <- lineUnblamed, taken <- lineTaken, moves <- lineMoves

History == INSTANCE Timeline WITH
  Commits <- MaxCommits, length <- timelineLength, panel <- timelinePanel,
  target <- timelineTarget, known <- timelineKnown, refetch <- timelineRefetch,
  begins <- timelineBegins, fetches <- timelineFetches, toPage <- timelineToPage,
  toHost <- timelineToHost, page <- timelinePage, shows <- timelineShows,
  changes <- timelineChanges, failures <- timelineFailures, crossed <- timelineCrossed,
  strayed <- timelineStrayed

-----------------------------------------------------------------------------
ASSUME ViewPartsAssumptions ==
  /\ Line!LineBlameAssumption /\ History!TimelineAssumption
  /\ Stash!StashesAssumption /\ Stopped!SequencerAssumption

\* What is dropped is the stash that was meant, unless the list changes between the
\* look and git (refCommands.ts, graphActions.ts, gitPalette.ts).
GoneAsMeant == subject = "stashes" => Stash!GoneAsMeant

\* What git is stopped in is named, answered for and shown (mutate_common.cpp,
\* mutate_methods.cpp, syncCommands.ts).
OperationsKept == subject = "sequencer" => Stopped!OperationsKept

\* The blame of the current line is that of the line (lineBlame.ts).
LineKept == subject = "line" => Line!LineKept

\* The file history shows entries of its file, as they were asked for (timelineHost.ts).
TimelineKept == subject = "timeline" => History!TimelineKept
=============================================================================
