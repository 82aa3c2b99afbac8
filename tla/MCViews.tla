------------------------------ MODULE MCViews -------------------------------
(* What the user looks at and acts on, side by side for TLC: the blame of a    *)
(* document and how it is annotated, its file history, the hunks of a file,    *)
(* the stashes and what git is stopped in.  A run chooses one, and the others  *)
(* stay away.                                                                  *)
EXTENDS ViewParts, TLC

Bound(v, c, large, open, evict, forget, restart, external) ==
  [version |-> v, contents |-> c, large |-> large, open |-> open, evict |-> evict,
   forget |-> forget, restart |-> restart, external |-> external]

TwoStashes == <<2, 1>>

\* One edit, and everything else once.
Everything == {Bound(3, 1, FALSE, 1, 1, 0, 1, 1), Bound(3, 1, FALSE, 1, 0, 1, 0, 1)}

\* A slot is empty, has one line of two, or two others.
E == <<>>
X == <<-1>>
Y == <<-3>>
N == <<-2, -2>>
File(head, work, alike, filtered) ==
  [head |-> head, work |-> work, alike |-> alike, filtered |-> filtered]

\* A line moved up, with lines that differ or that are alike, through a filter or
\* not; two lines ahead of one; and one line out of two.
SomeFiles ==
  {File(<<E, X, E>>, <<X, E, N>>, alike, TRUE) : alike \in BOOLEAN} \cup
  {File(<<E, X, E>>, <<N, E, E>>, FALSE, FALSE), File(<<E, X, X>>, <<X, E, X>>, TRUE, TRUE)}

VARIABLES
  bufferDoc, bufferDisk, bufferContents, bufferKnown, bufferLooking, bufferPushed,
  bufferTooLarge, bufferFlights, bufferWire, bufferAsked, bufferAnswers, bufferOverlay,
  bufferCache, bufferCaller, bufferAlive, bufferReloading, bufferSpent, bufferBound,
  stagingFile, stagingHead, stagingIndex, stagingWork, stagingChanges, stagingListed,
  stagingRequest, stagingPatch, stagingOutcome

Buffer == INSTANCE BufferBlame WITH
  Callers <- {"c1", "c2"}, MaxVersion <- 5, MaxContents <- 3, Bounds <- Everything,
  doc <- bufferDoc, disk <- bufferDisk, contents <- bufferContents, known <- bufferKnown,
  looking <- bufferLooking, pushed <- bufferPushed, tooLarge <- bufferTooLarge,
  flights <- bufferFlights, wire <- bufferWire, asked <- bufferAsked,
  answers <- bufferAnswers, overlay <- bufferOverlay, cache <- bufferCache,
  caller <- bufferCaller, alive <- bufferAlive, reloading <- bufferReloading,
  spent <- bufferSpent, bound <- bufferBound

Staging == INSTANCE HunkStaging WITH
  Slots <- 3, Stretch <- 3, Around <- 1, Contents <- {E, X, Y, N}, Files <- SomeFiles,
  MaxChanges <- 1, file <- stagingFile, head <- stagingHead, index <- stagingIndex,
  work <- stagingWork, changes <- stagingChanges, listed <- stagingListed,
  request <- stagingRequest, patch <- stagingPatch, outcome <- stagingOutcome

BufferVars == <<bufferDoc, bufferDisk, bufferContents, bufferKnown, bufferLooking, bufferPushed,
  bufferTooLarge, bufferFlights, bufferWire, bufferAsked, bufferAnswers, bufferOverlay,
  bufferCache, bufferCaller, bufferAlive, bufferReloading, bufferSpent, bufferBound>>
StagingVars == <<stagingFile, stagingHead, stagingIndex, stagingWork, stagingChanges, stagingListed,
  stagingRequest, stagingPatch, stagingOutcome>>
StashesVars == <<stashStashes, stashMade, stashShown, stashFlow, stashActions, stashGone>>
SequencerVars == <<sequencerGit, sequencerServing, sequencerAnswer, sequencerActive, sequencerTimer,
  sequencerRefreshes, sequencerKey, sequencerUnread, sequencerCrossed, sequencerOutOfTurn,
  sequencerCommands, sequencerOutsides>>
LineVars == <<lineVersion, lineLine, lineActive, lineSurfaces, lineTimer, linePass, lineTip, lineInline,
  lineState, lineTooltip, lineBarShown, lineUnblamed, lineTaken, lineMoves>>
TimelineVars == <<timelineLength, timelinePanel, timelineTarget, timelineKnown, timelineRefetch,
  timelineBegins, timelineFetches, timelineToPage, timelineToHost, timelinePage,
  timelineShows, timelineChanges, timelineFailures, timelineCrossed, timelineStrayed>>

BufferAway == Buffer!Init /\ bufferBound.forget = 1
StagingAway ==
  /\ stagingFile = 0 /\ stagingHead = 0 /\ stagingIndex = 0 /\ stagingWork = 0
  /\ stagingChanges = 0 /\ stagingListed = 0 /\ stagingRequest = 0 /\ stagingPatch = 0
  /\ stagingOutcome = 0
StashesAway ==
  /\ stashStashes = 0 /\ stashMade = 0 /\ stashShown = 0 /\ stashFlow = 0
  /\ stashActions = 0 /\ stashGone = 0
SequencerAway ==
  /\ sequencerGit = 0 /\ sequencerServing = 0 /\ sequencerAnswer = 0 /\ sequencerActive = 0
  /\ sequencerTimer = 0 /\ sequencerRefreshes = 0 /\ sequencerKey = 0 /\ sequencerUnread = 0
  /\ sequencerCrossed = 0 /\ sequencerOutOfTurn = 0 /\ sequencerCommands = 0
  /\ sequencerOutsides = 0
LineAway ==
  /\ lineVersion = 0 /\ lineLine = 0 /\ lineActive = 0 /\ lineSurfaces = 0 /\ lineTimer = 0
  /\ linePass = 0 /\ lineTip = 0 /\ lineInline = 0 /\ lineState = 0 /\ lineTooltip = 0
  /\ lineBarShown = 0 /\ lineUnblamed = 0 /\ lineTaken = 0 /\ lineMoves = 0
TimelineAway ==
  /\ timelineLength = 0 /\ timelinePanel = 0 /\ timelineTarget = 0 /\ timelineKnown = 0
  /\ timelineRefetch = 0 /\ timelineBegins = 0 /\ timelineFetches = 0 /\ timelineToPage = 0
  /\ timelineToHost = 0 /\ timelinePage = 0 /\ timelineShows = 0 /\ timelineChanges = 0
  /\ timelineFailures = 0 /\ timelineCrossed = 0 /\ timelineStrayed = 0
AnnotationsAway == Init /\ active = "e"

Begins ==
  \/ subject = "annotations" /\ Init /\ BufferAway /\ StagingAway /\ StashesAway /\ SequencerAway /\ LineAway /\ TimelineAway
  \/ subject = "buffer" /\ Buffer!Init /\ AnnotationsAway /\ StagingAway /\ StashesAway /\ SequencerAway /\ LineAway /\ TimelineAway
  \/ subject = "staging" /\ Staging!Init /\ AnnotationsAway /\ BufferAway /\ StashesAway /\ SequencerAway /\ LineAway /\ TimelineAway
  \/ subject = "stashes" /\ Stash!Init /\ AnnotationsAway /\ BufferAway /\ StagingAway /\ SequencerAway /\ LineAway /\ TimelineAway
  \/ subject = "sequencer" /\ Stopped!Init /\ AnnotationsAway /\ BufferAway /\ StagingAway /\ StashesAway /\ LineAway /\ TimelineAway
  \/ subject = "line" /\ Line!Init /\ AnnotationsAway /\ BufferAway /\ StagingAway /\ StashesAway /\ SequencerAway /\ TimelineAway
  \/ subject = "timeline" /\ History!Init /\ AnnotationsAway /\ BufferAway /\ StagingAway /\ StashesAway /\ SequencerAway /\ LineAway

Others(here) ==
  /\ UNCHANGED subject
  /\ IF here = "annotations" THEN TRUE ELSE UNCHANGED vars
  /\ IF here = "buffer" THEN TRUE ELSE UNCHANGED BufferVars
  /\ IF here = "staging" THEN TRUE ELSE UNCHANGED StagingVars
  /\ IF here = "stashes" THEN TRUE ELSE UNCHANGED StashesVars
  /\ IF here = "sequencer" THEN TRUE ELSE UNCHANGED SequencerVars
  /\ IF here = "line" THEN TRUE ELSE UNCHANGED LineVars
  /\ IF here = "timeline" THEN TRUE ELSE UNCHANGED TimelineVars

Step ==
  \/ subject = "annotations" /\ Next /\ Others("annotations")
  \/ subject = "buffer" /\ Buffer!Next /\ Others("buffer")
  \/ subject = "staging" /\ Staging!Next /\ Others("staging")
  \/ subject = "stashes" /\ Stash!Next /\ Others("stashes")
  \/ subject = "sequencer" /\ Stopped!Next /\ Others("sequencer")
  \/ subject = "line" /\ Line!Next /\ Others("line")
  \/ subject = "timeline" /\ History!Next /\ Others("timeline")

\* The fairness of BufferBlame!FairSpec, when the document is what happens.
AllFairness ==
  /\ WF_BufferVars(subject = "buffer" /\ Buffer!Continue)
  /\ WF_BufferVars(subject = "buffer" /\ Buffer!EngineTakes)
  /\ \A k \in Buffer!Keys : WF_BufferVars(subject = "buffer" /\ Buffer!EngineReads(k))
  /\ SF_BufferVars(subject = "buffer" /\ Buffer!LookupAnswered)
  /\ SF_BufferVars(subject = "buffer" /\ Buffer!Replies)
  /\ SF_BufferVars(subject = "buffer" /\ Buffer!Respawn)
  /\ SF_BufferVars(subject = "buffer" /\ Buffer!Rediscovered)
  /\ SF_BufferVars(subject = "buffer" /\ Buffer!ReloadDone)

AllVars == <<subject, vars, BufferVars, StagingVars, StashesVars, SequencerVars, LineVars, TimelineVars>>

AllSpec == Begins /\ [][Step]_AllVars /\ AllFairness

-----------------------------------------------------------------------------
ASSUME ViewAssumptions == Staging!HunkStagingAssumption /\ Buffer!BoundsAssumption

\* Every blame asked for is shown or given up (documentBlame.ts).
AskEnds == subject = "buffer" => Buffer!EveryAskEnds

\* A subset of hunks is staged and unstaged as it was pointed at
\* (stage_methods.cpp, hunkStaging.ts).
SubsetExact == subject = "staging" => Staging!SubsetExact
=============================================================================
