--------------------------- MODULE ExtensionParts ---------------------------
(* What the extension keeps of repositories and documents: its registrations,  *)
(* and side by side with them, each by an instance, the blame of a document with *)
(* unsaved changes, the host of the rebase panel, the web extension's mirror of  *)
(* the workspace and the cache of hosting answers.  MCExtension checks them with *)
(* the graph panel; what is proved holds for every value of the constants.       *)
EXTENDS Repositories

CONSTANTS
  Surfaces, MaxVersion, MaxContents, Bounds,        \* BufferBlame
  Flows, MaxChanges,                                \* RebaseHost, WebMirror
  Paths, Sizes, Workspaces, Limit, Modules,         \* WebMirror
  Flights, MaxStops, Gone,
  CacheKeys, Readers, Fetches, MaxEntries, MaxDrops,  \* TtlCache
  NONE

VARIABLES
  subject,      \* the component at work: the others are away
  bufferDoc, bufferDisk, bufferContents, bufferKnown, bufferLooking, bufferPushed,
  bufferTooLarge, bufferFlights, bufferWire, bufferAsked, bufferAnswers, bufferOverlay,
  bufferCache, bufferCaller, bufferAlive, bufferReloading, bufferSpent, bufferBound,
  hostRebasing, hostChanges, hostNotice, hostPanel, hostRepo, hostSession, hostOverlay,
  hostRunning, hostStarting, hostRecheckPending, hostTimer, hostFlow,
  mirrorWorkspace, mirrorEvents, mirrorPending, mirrorTimer, mirrorCurrent, mirrorEngine,
  mirrorRespawn, mirrorStart, mirrorMemfs, mirrorFlush, mirrorChanges, mirrorStops,
  mirrorCrossed,
  cacheEntries, cacheInflight, cacheFetching, cacheDrops, cacheReader

Buffer == INSTANCE BufferBlame WITH
  Callers <- Surfaces, doc <- bufferDoc, disk <- bufferDisk, contents <- bufferContents,
  known <- bufferKnown, looking <- bufferLooking, pushed <- bufferPushed,
  tooLarge <- bufferTooLarge, flights <- bufferFlights, wire <- bufferWire,
  asked <- bufferAsked, answers <- bufferAnswers, overlay <- bufferOverlay,
  cache <- bufferCache, caller <- bufferCaller, alive <- bufferAlive,
  reloading <- bufferReloading, spent <- bufferSpent, bound <- bufferBound

Host == INSTANCE RebaseHost WITH
  rebasing <- hostRebasing, changes <- hostChanges, notice <- hostNotice,
  panel <- hostPanel, repo <- hostRepo, session <- hostSession, overlay <- hostOverlay,
  running <- hostRunning, starting <- hostStarting, recheckPending <- hostRecheckPending,
  timer <- hostTimer, flow <- hostFlow

Mirror == INSTANCE WebMirror WITH
  workspace <- mirrorWorkspace, events <- mirrorEvents, pending <- mirrorPending,
  timer <- mirrorTimer, current <- mirrorCurrent, engine <- mirrorEngine,
  respawn <- mirrorRespawn, start <- mirrorStart, memfs <- mirrorMemfs,
  flush <- mirrorFlush, changes <- mirrorChanges, stops <- mirrorStops,
  crossed <- mirrorCrossed

Cache == INSTANCE TtlCache WITH
  Keys <- CacheKeys, entries <- cacheEntries, inflight <- cacheInflight,
  fetching <- cacheFetching, drops <- cacheDrops, reader <- cacheReader

-----------------------------------------------------------------------------
ASSUME ExtensionPartsAssumptions ==
  /\ Buffer!BoundsAssumption
  /\ Host!RebaseHostAssumption /\ Mirror!WebMirrorAssumption /\ Cache!TtlCacheAssumption

\* What is shown describes the buffer it was asked for, and the engine's overlay
\* holds what it was sent and no clean buffer (documentBlame.ts, documentSync.ts).
BuffersBlamed == subject = "buffer" => Buffer!BlameDescribesBuffer /\ Buffer!OverlayExact

\* A rebase the panel put off looking at is looked at (rebaseHost.ts).
NothingPutOff == subject = "host" => Host!NothingPutOff

\* The engine of the web extension works on the files of the workspace, or a change is
\* on its way to it (memfsBridge.ts, extensionWeb.ts).
MirrorExact == subject = "mirror" => Mirror!MirrorExact

\* A fetch begun before a drop is not cached after it (cache.ts).
FreshAfterDrop == subject = "cache" => Cache!FreshAfterDrop
=============================================================================
