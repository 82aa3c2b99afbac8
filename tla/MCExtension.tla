---------------------------- MODULE MCExtension -----------------------------
(* The components of the extension that keep state of repositories and        *)
(* documents, side by side for TLC: a run chooses one, and the others stay    *)
(* away.                                                                      *)
EXTENDS ExtensionParts, TLC

CONSTANTS outer, inner, c1, c2

Two == {c1, c2}

Nested(d) == IF d = inner THEN {inner, outer} ELSE {d}

SmallWorkspaces == {[a |-> 1, b |-> 1]}

Bound(v, c, large, open, evict, forget, restart, external) ==
  [version |-> v, contents |-> c, large |-> large, open |-> open, evict |-> evict,
   forget |-> forget, restart |-> restart, external |-> external]

\* Edits, undos and saves against evictions; and against an engine that exits.
Editing == {Bound(5, 3, TRUE, 0, 1, 1, 0, 0), Bound(4, 2, TRUE, 0, 1, 0, 1, 0)}

\* What happens to the graph besides the reader scrolling, answers and timers.
PanelScripts ==
  {{"select", "refs"}, {"select", "filter"}, {"files", "close"}, {"crash", "refs", "act"},
   {"workspace"}, {"fail", "refs"}}

VARIABLES
  panelChosen, panelPresent, panelRefs, panelDirty, panelBranch, panelEpoch, panelEngine,
  panelScript, panelHost, panelAsks, panelToHost, panelView

Panel == INSTANCE GraphPanel WITH
  Repos <- {"A", "B"}, Rows <- 2, Retries <- 1, Scripts <- PanelScripts, Length <- 2,
  chosen <- panelChosen, present <- panelPresent, refs <- panelRefs, dirty <- panelDirty,
  branch <- panelBranch, epoch <- panelEpoch, engine <- panelEngine, script <- panelScript,
  host <- panelHost, asks <- panelAsks, toHost <- panelToHost, view <- panelView

BufferVars == <<bufferDoc, bufferDisk, bufferContents, bufferKnown, bufferLooking, bufferPushed,
  bufferTooLarge, bufferFlights, bufferWire, bufferAsked, bufferAnswers, bufferOverlay,
  bufferCache, bufferCaller, bufferAlive, bufferReloading, bufferSpent, bufferBound>>
PanelVars == <<panelChosen, panelPresent, panelRefs, panelDirty, panelBranch, panelEpoch, panelEngine,
  panelScript, panelHost, panelAsks, panelToHost, panelView>>
HostVars == <<hostRebasing, hostChanges, hostNotice, hostPanel, hostRepo, hostSession, hostOverlay,
  hostRunning, hostStarting, hostRecheckPending, hostTimer, hostFlow>>
MirrorVars == <<mirrorWorkspace, mirrorEvents, mirrorPending, mirrorTimer, mirrorCurrent, mirrorEngine,
  mirrorRespawn, mirrorStart, mirrorMemfs, mirrorFlush, mirrorChanges, mirrorStops,
  mirrorCrossed>>
CacheVars == <<cacheEntries, cacheInflight, cacheFetching, cacheDrops, cacheReader>>

BufferAway ==
  /\ bufferDoc = 0 /\ bufferDisk = 0 /\ bufferContents = 0 /\ bufferKnown = 0
  /\ bufferLooking = 0 /\ bufferPushed = 0 /\ bufferTooLarge = 0 /\ bufferFlights = 0
  /\ bufferWire = 0 /\ bufferAsked = 0 /\ bufferAnswers = 0 /\ bufferOverlay = 0
  /\ bufferCache = 0 /\ bufferCaller = 0 /\ bufferAlive = 0 /\ bufferReloading = 0
  /\ bufferSpent = 0 /\ bufferBound = 0
PanelAway ==
  /\ panelChosen = 0 /\ panelPresent = 0 /\ panelRefs = 0 /\ panelDirty = 0
  /\ panelBranch = 0 /\ panelEpoch = 0 /\ panelEngine = 0 /\ panelScript = 0
  /\ panelHost = 0 /\ panelAsks = 0 /\ panelToHost = 0 /\ panelView = 0
HostAway ==
  /\ hostRebasing = 0 /\ hostChanges = 0 /\ hostNotice = 0 /\ hostPanel = 0 /\ hostRepo = 0
  /\ hostSession = 0 /\ hostOverlay = 0 /\ hostRunning = 0 /\ hostStarting = 0
  /\ hostRecheckPending = 0 /\ hostTimer = 0 /\ hostFlow = 0
MirrorAway ==
  /\ mirrorWorkspace = 0 /\ mirrorEvents = 0 /\ mirrorPending = 0 /\ mirrorTimer = 0
  /\ mirrorCurrent = 0 /\ mirrorEngine = 0 /\ mirrorRespawn = 0 /\ mirrorStart = 0
  /\ mirrorMemfs = 0 /\ mirrorFlush = 0 /\ mirrorChanges = 0 /\ mirrorStops = 0
  /\ mirrorCrossed = 0
CacheAway ==
  /\ cacheEntries = 0 /\ cacheInflight = 0 /\ cacheFetching = 0 /\ cacheDrops = 0
  /\ cacheReader = 0
RepositoriesAway == Init /\ gits = {}

Begins ==
  \/ subject = "repositories" /\ Init /\ BufferAway /\ PanelAway /\ HostAway /\ MirrorAway /\ CacheAway
  \/ subject = "buffer" /\ Buffer!Init /\ RepositoriesAway /\ PanelAway /\ HostAway /\ MirrorAway /\ CacheAway
  \/ subject = "panel" /\ Panel!Init /\ RepositoriesAway /\ BufferAway /\ HostAway /\ MirrorAway /\ CacheAway
  \/ subject = "host" /\ Host!Init /\ RepositoriesAway /\ BufferAway /\ PanelAway /\ MirrorAway /\ CacheAway
  \/ subject = "mirror" /\ Mirror!Init /\ RepositoriesAway /\ BufferAway /\ PanelAway /\ HostAway /\ CacheAway
  \/ subject = "cache" /\ Cache!Init /\ RepositoriesAway /\ BufferAway /\ PanelAway /\ HostAway /\ MirrorAway

Others(here) ==
  /\ UNCHANGED subject
  /\ IF here = "repositories" THEN TRUE ELSE UNCHANGED vars
  /\ IF here = "buffer" THEN TRUE ELSE UNCHANGED BufferVars
  /\ IF here = "panel" THEN TRUE ELSE UNCHANGED PanelVars
  /\ IF here = "host" THEN TRUE ELSE UNCHANGED HostVars
  /\ IF here = "mirror" THEN TRUE ELSE UNCHANGED MirrorVars
  /\ IF here = "cache" THEN TRUE ELSE UNCHANGED CacheVars

Step ==
  \/ subject = "repositories" /\ Next /\ Others("repositories")
  \/ subject = "buffer" /\ Buffer!Next /\ Others("buffer")
  \/ subject = "panel" /\ Panel!Next /\ Others("panel")
  \/ subject = "host" /\ Host!Next /\ Others("host")
  \/ subject = "mirror" /\ Mirror!Next /\ Others("mirror")
  \/ subject = "cache" /\ Cache!Next /\ Others("cache")

AllVars == <<subject, vars, BufferVars, PanelVars, HostVars, MirrorVars, CacheVars>>

AllSpec == Begins /\ [][Step]_AllVars

-----------------------------------------------------------------------------
\* What shows blame, drives a rebase or reads a cache is interchangeable.
Interchangeable == Permutations(Two)

\* The rows of the graph are of one walk, the present one, and while some are
\* missing the graph can go on paging (graphHost.ts, graph/main.ts).
GraphRight == subject = "panel" => Panel!RowsRight /\ Panel!PagingAlive
=============================================================================
