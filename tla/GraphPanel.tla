---------------------------- MODULE GraphPanel -----------------------------
(***************************************************************************)
(* The commit graph panel: its extension host (graphHost.ts), the webview  *)
(* that shows the rows (store.ts, main.ts) and the messages between them,  *)
(* while the user picks repositories and filters, git moves refs, the      *)
(* engine restarts, requests fail and the panel is closed and reopened.    *)
(*                                                                         *)
(* A callback of the host is one step; what it does after an await is a    *)
(* step of its own, reached when the ask it waits for is answered.  Asks   *)
(* of the host are answered in any order.                                  *)
(***************************************************************************)
EXTENDS Integers, Sequences, FiniteSets, SequencesExt, FiniteSetsExt

CONSTANTS
  Repos,        \* roots, in the order the workspace lists them
  Rows,         \* commits of a walk; a page is one row
  Retries,      \* RESOLVE_RETRIES
  Scripts,      \* what the user, git and the engine may do: kinds of event, together
  Length        \* how many events

VARIABLES
  \* the world
  chosen,       \* the stored choice of Select Repository
  present,      \* the repositories of the workspace
  refs,         \* how often the refs of each repository moved
  dirty,        \* whether its working tree has changes
  branch,       \* whether the branch its filter names exists
  epoch,        \* engine generation: repository ids are of one
  engine,       \* "up", "exited", or "shaken": handshaken, repositories not yet registered
  script,       \* the kinds of event, and how many are left
  \* the host: see Host
  host,
  asks,         \* what the host waits for, in the order it was asked
  toHost,       \* the webview's messages under way
  view          \* the webview, which takes the host's messages as they are posted

world == <<chosen, present, refs, dirty, branch, epoch, engine, script>>
vars == <<world, host, asks, toHost, view>>

None == [root |-> "none", epoch |-> 0]
All == "all"                       \* no branch filter
NoCursor == [pos |-> -1]
Failed == [failed |-> TRUE, stale |-> FALSE]
Stale == [failed |-> TRUE, stale |-> TRUE]
Answer(a) == [failed |-> FALSE, answer |-> a]

NewView == [generation |-> 0, rows |-> <<>>, cursor |-> NoCursor, inFlight |-> FALSE,
            error |-> FALSE]

\* The repository the repo-scoped surfaces act on: the choice when it is there, else
\* the first one.
Active ==
  IF present = {} THEN None
  ELSE [root |-> IF chosen \in present THEN chosen
                 ELSE CHOOSE r \in present : TRUE,
        epoch |-> epoch]

\* --- asks ------------------------------------------------------------------
\* kind     follow, reload, attach, show: the active repository
\*          first, more, replace, refresh, peek: graph/rows     branches: refs/list
\* attach   the attaching promise waits for it

Ask(kind, generation, attach) ==
  [kind |-> kind, generation |-> generation, attach |-> attach, answered |-> FALSE,
   repo |-> None, filter |-> All, cursor |-> NoCursor, limit |-> 1, value |-> Failed]

\* The host and the webview between two calls of one callback.
Now == [host |-> host, asks |-> asks, view |-> view]

Become(s) == host' = s.host /\ asks' = s.asks /\ view' = s.view

Resolve(s, kind) == [s EXCEPT !.asks = Append(@, Ask(kind, 0, kind = "attach"))]

Request(s, kind, generation, attach, cursor, limit) ==
  [s EXCEPT !.asks = Append(@, [Ask(kind, generation, attach) EXCEPT
      !.repo = s.host.repo, !.filter = s.host.filter, !.cursor = cursor, !.limit = limit])]

\* store.ts acceptRows: a page belongs to one generation, a refresh starts a newer one.
AcceptRows(v, generation, replace) ==
  IF replace THEN generation >= v.generation ELSE generation = v.generation

\* Posted to the webview, when there is one.
PostReset(s, generation) ==
  IF s.host.panel THEN [s EXCEPT !.view = [NewView EXCEPT !.generation = generation]] ELSE s

PostRows(s, generation, page, replace) ==
  IF s.host.panel /\ AcceptRows(s.view, generation, replace)
  THEN [s EXCEPT !.view = [generation |-> generation,
                           rows |-> IF replace THEN page.rows ELSE @.rows \o page.rows,
                           cursor |-> page.cursor, inFlight |-> FALSE, error |-> FALSE]]
  ELSE s

PostError(s) ==
  IF s.host.panel THEN [s EXCEPT !.view.inFlight = FALSE, !.view.error = TRUE] ELSE s

EmptyPage == [rows |-> <<>>, cursor |-> NoCursor]

\* --- what the host's methods do --------------------------------------------

\* A generation begins; owner is what it shows, kept for the properties.
NewGeneration(s) ==
  [s EXCEPT !.host.generation = @ + 1,
            !.host.generations = @ \cup {s.host.generation + 1},
            !.host.owner = Append(@, [root |-> s.host.repo.root, filter |-> s.host.filter])]

\* The branch list read while no filter is set only fills a menu.
PostBranches(s, attach) ==
  IF s.host.repo = None \/ s.host.filter = All THEN s ELSE Request(s, "branches", 0, attach, NoCursor, 0)

MutReset(s, attach) ==
  IF ~s.host.panel \/ s.host.repo = None THEN s
  ELSE PostBranches(Request(PostReset(s, s.host.generation), "first", s.host.generation,
                            attach, NoCursor, 1), attach)

Reset(s, attach) ==
  IF ~s.host.panel \/ s.host.repo = None THEN s
  ELSE LET n == NewGeneration(s)
           g == n.host.generation
           p == PostReset([n EXCEPT !.host.loadedRows = 0], g)
       IN  PostBranches(Request(p, "first", g, attach, NoCursor, 1), attach)

ReplaceLimit(loadedRows) == Max({1, loadedRows})

\* replaceRows; `branches` when the branch list is read after it.
ReplaceRows(s, branches) ==
  IF ~s.host.panel \/ s.host.repo = None THEN (IF branches THEN PostBranches(s, FALSE) ELSE s)
  ELSE LET n == NewGeneration(s)
       IN  Request(n, IF branches THEN "refresh" ELSE "replace", n.host.generation, FALSE,
                   NoCursor, ReplaceLimit(n.host.loadedRows))

StartRepo(s, repo) ==
  LET same == s.host.repo # None /\ s.host.repo.root = repo.root
  IN  Reset([s EXCEPT !.host.repo = repo, !.host.generations = {},
                      !.host.filter = IF same THEN @ ELSE All], FALSE)

AdoptRepo(s, repo) == Reset([s EXCEPT !.host.repo = repo], TRUE)

Attaching(s) == \E i \in DOMAIN s.asks : s.asks[i].attach

AttachRepo(s) ==
  IF Attaching(s) THEN s
  ELSE IF s.host.repo = None THEN Resolve(s, "attach")
  ELSE IF ~s.host.panel THEN s
  ELSE AdoptRepo([s EXCEPT !.host.retry = FALSE], s.host.repo)

Attached(s, repo) ==
  IF ~s.host.panel THEN s
  ELSE IF repo # None THEN AdoptRepo([s EXCEPT !.host.retry = FALSE], repo)
  ELSE IF s.host.resolveAttempts < Retries
       THEN [s EXCEPT !.host.retry = TRUE, !.host.resolveAttempts = @ + 1]
       ELSE PostError(s)

FollowActiveRepo(s, reloaded) ==
  IF ~s.host.panel THEN (IF reloaded THEN [s EXCEPT !.host.repo = None] ELSE s)
  ELSE Resolve(s, IF reloaded THEN "reload" ELSE "follow")

Followed(s, repo, reloaded) ==
  IF repo = None
  THEN AttachRepo([s EXCEPT !.host.repo = None, !.host.resolveAttempts = 0])
  ELSE IF reloaded \/ repo # s.host.repo THEN StartRepo(s, repo) ELSE s

Shown(s, repo) ==
  IF repo = None THEN s
  ELSE IF s.host.panel THEN (IF repo # s.host.repo THEN StartRepo(s, repo) ELSE s)
  ELSE [s EXCEPT !.host.repo = repo, !.host.panel = TRUE, !.view = NewView]

ScheduleRefresh(s, kind) ==
  [s EXCEPT !.host.pendingRefresh = IF kind = "replace" \/ @ = "none" THEN kind ELSE @]

\* A page that failed: stale when the refs moved after the earlier ones were taken.
MoreFailed(s, ask) ==
  IF ask.value.stale THEN ReplaceRows(s, FALSE)
  ELSE PostRows(s, ask.generation, EmptyPage, FALSE)

\* Rows the host takes over and forwards.
Take(s, ask, replace) ==
  LET page == ask.value.answer
      kept == [s EXCEPT !.host.loadedRows = IF ask.kind = "more" THEN @ + Len(page.rows)
                                            ELSE Len(page.rows),
                        !.host.hasWip = IF ask.kind = "more" THEN @
                                        ELSE page.rows # <<>> /\ page.rows[1].pos = 0]
  IN  PostRows(kept, ask.generation, page, replace)

\* --- the engine ------------------------------------------------------------

Listing(walk) ==
  (IF walk.wip THEN << [walk |-> walk, pos |-> 0] >> ELSE <<>>)
  \o [p \in 1..Rows |-> [walk |-> walk, pos |-> p]]

\* graph/rows (see GraphRows): a walk of one state of the refs; the cursor continues it.
Walk(ask) ==
  LET root == ask.repo.root
  IN  [root |-> root, filter |-> ask.filter, refs |-> refs[root],
       wip |-> IF ask.cursor # NoCursor THEN ask.cursor.walk.wip
               ELSE dirty[root] /\ ask.filter = All]

RowsAnswer(ask) ==
  LET walk == Walk(ask)
      all  == IF ask.filter = All \/ (ask.filter = ask.repo.root /\ branch[ask.filter])
              THEN Listing(walk) ELSE <<>>
      pos  == IF ask.cursor = NoCursor THEN 0 ELSE ask.cursor.pos
      end  == Min({pos + ask.limit, Len(all)})
  IN  IF ask.cursor # NoCursor /\ ask.cursor.walk # walk THEN Stale
      ELSE Answer([rows   |-> SubSeq(all, pos + 1, end),
                   cursor |-> IF end < Len(all) THEN [walk |-> walk, pos |-> end] ELSE NoCursor])

\* What the ask may be answered with.  While the engine is away the active repository
\* is not found, or is the one of the scan before it exited.
EngineAnswers(ask) ==
  IF ask.kind \in {"follow", "reload", "attach", "show"}
  THEN (IF engine = "up" THEN {Answer(Active)}
        ELSE {Failed} \cup (IF Active = None THEN {}
                            ELSE {Answer([Active EXCEPT !.epoch = epoch - 1])}))
  ELSE IF engine # "up" \/ ask.repo.epoch # epoch \/ ask.repo.root \notin present THEN {Failed}
  ELSE IF ask.kind = "branches" THEN {Answer({ r \in Repos : branch[r] })}
  ELSE {RowsAnswer(ask)}

\* --- initial states --------------------------------------------------------

Init ==
  /\ present \in SUBSET Repos /\ chosen \in Repos
  /\ refs = [r \in Repos |-> 0] /\ dirty = [r \in Repos |-> FALSE]
  /\ branch = [r \in Repos |-> TRUE]
  /\ epoch = 1 /\ engine = "up" /\ script \in [kinds : Scripts, left : {Length}]
  /\ host = [panel |-> TRUE, repo |-> Active, generation |-> 0, generations |-> {},
             owner |-> <<>>, filter |-> All, loadedRows |-> 0, hasWip |-> FALSE,
             pendingRefresh |-> "none", retry |-> FALSE, resolveAttempts |-> 0]
  /\ asks = <<>> /\ toHost = << [type |-> "ready"] >>
  /\ view = NewView

\* --- the world's steps -----------------------------------------------------

Event(kind) ==
  kind \in script.kinds /\ script.left > 0 /\ script' = [script EXCEPT !.left = @ - 1]

\* Select Repository: the choice is stored and announced.
Select(r) ==
  /\ Event("select") /\ r # chosen
  /\ chosen' = r
  /\ Become(FollowActiveRepo(Now, FALSE))
  /\ UNCHANGED <<present, refs, dirty, branch, epoch, engine, toHost>>

\* A repository leaves the workspace or comes back, and the change is announced.
Workspace(r) ==
  /\ Event("workspace")
  /\ present' = IF r \in present THEN present \ {r} ELSE present \cup {r}
  /\ Become(FollowActiveRepo(Now, FALSE))
  /\ UNCHANGED <<chosen, refs, dirty, branch, epoch, engine, toHost>>

\* repo/didChange of the graphed repository; others are passed over.
DidChange(r, kind) ==
  IF host.panel /\ host.repo = [root |-> r, epoch |-> epoch]
  THEN Become(ScheduleRefresh(Now, kind)) ELSE UNCHANGED <<host, asks, view>>

\* Refs move: a commit, a fetch; the filtered branch may go with it.
MoveRefs(r) ==
  /\ Event("refs") /\ engine = "up"
  /\ refs' = [refs EXCEPT ![r] = @ + 1]
  /\ branch' \in {branch, [branch EXCEPT ![r] = FALSE]}
  /\ DidChange(r, "replace")
  /\ UNCHANGED <<chosen, present, dirty, epoch, engine, toHost>>

\* A file is saved or the index written; the tree may become dirty or clean.
EditFiles(r) ==
  /\ Event("files") /\ engine = "up"
  /\ dirty' \in {dirty, [dirty EXCEPT ![r] = ~@]}
  /\ DidChange(r, "wip")
  /\ UNCHANGED <<chosen, present, refs, branch, epoch, engine, toHost>>

\* The engine exits: what it had not answered fails, its notifications are gone.
Crash ==
  /\ Event("crash") /\ engine = "up"
  /\ engine' = "exited" /\ epoch' = epoch + 1
  /\ asks' = [i \in DOMAIN asks |->
                IF asks[i].answered THEN asks[i]
                ELSE [asks[i] EXCEPT !.answered = TRUE, !.value = Failed]]
  /\ UNCHANGED <<chosen, present, refs, dirty, branch, host, toHost, view>>

\* It completes its handshake: onDidChangeCapabilities.
Handshake ==
  /\ engine = "exited" /\ engine' = "shaken"
  /\ IF host.panel /\ host.repo = None
     THEN Become(AttachRepo([Now EXCEPT !.host.resolveAttempts = 0]))
     ELSE UNCHANGED <<host, asks, view>>
  /\ UNCHANGED <<chosen, present, refs, dirty, branch, epoch, script, toHost>>

\* The repositories are registered again: onDidReload.
Reload ==
  /\ engine = "shaken" /\ engine' = "up"
  /\ Become(FollowActiveRepo(Now, TRUE))
  /\ UNCHANGED <<chosen, present, refs, dirty, branch, epoch, script, toHost>>

\* --- the engine's and the host's steps -------------------------------------

\* The engine computes an answer, or fails this one request.
Answered(i) ==
  /\ ~asks[i].answered
  /\ \/ /\ \E v \in EngineAnswers(asks[i]) :
              asks' = [asks EXCEPT ![i].answered = TRUE, ![i].value = v]
        /\ UNCHANGED script
     \/ /\ Event("fail")
        /\ asks[i].kind \in {"first", "more", "replace", "refresh"}
        /\ asks' = [asks EXCEPT ![i].answered = TRUE, ![i].value = Failed]
  /\ UNCHANGED <<chosen, present, refs, dirty, branch, epoch, engine, host, toHost, view>>

Without(i) == [Now EXCEPT !.asks = RemoveAt(asks, i)]

\* The continuation of an answered graph/rows.
RowsArrived(i) ==
  LET ask     == asks[i]
      s       == Without(i)
      current == ask.generation = host.generation
      then    == IF ask.kind = "refresh" THEN PostBranches(s, FALSE) ELSE s
  IN  /\ ask.answered
      /\ ask.kind \in {"first", "more", "replace", "refresh"}
      /\ Become(IF ~current THEN then
                ELSE IF ~ask.value.failed
                     THEN Take(then, ask, ask.kind \in {"replace", "refresh"})
                ELSE IF ask.kind # "more" THEN PostError(then)
                ELSE MoreFailed(s, ask))
      /\ UNCHANGED <<world, toHost>>

\* checkWip: the rows only change when the uncommitted-changes row came or went.
Peeked(i) ==
  LET ask == asks[i]
      s   == Without(i)
      wip == ask.value.answer.rows # <<>> /\ ask.value.answer.rows[1].pos = 0
  IN  /\ ask.answered /\ ask.kind = "peek"
      /\ Become(IF ~ask.value.failed /\ wip # host.hasWip THEN ReplaceRows(s, FALSE) ELSE s)
      /\ UNCHANGED <<world, toHost>>

\* postBranches: a filter none of whose branches is left is dropped.
BranchesListed(i) ==
  LET ask == asks[i]
      s   == Without(i)
  IN  /\ ask.answered /\ ask.kind = "branches"
      /\ Become(IF ~ask.value.failed /\ ask.repo = host.repo
                   /\ host.filter # All
                   /\ ~(host.filter = ask.repo.root /\ host.filter \in ask.value.answer)
                THEN Reset([s EXCEPT !.host.filter = All], ask.attach) ELSE s)
      /\ UNCHANGED <<world, toHost>>

Resolved(i) ==
  LET ask  == asks[i]
      s    == Without(i)
      repo == IF ask.value.failed THEN None ELSE ask.value.answer
      open == ask.kind = "show" /\ ~host.panel /\ repo # None
  IN  /\ ask.answered /\ ask.kind \in {"follow", "reload", "attach", "show"}
      /\ Become(CASE ask.kind = "attach" -> Attached(s, repo)
                  [] ask.kind = "show"   -> Shown(s, repo)
                  [] OTHER               -> Followed(s, repo, ask.kind = "reload"))
      /\ toHost' = IF open THEN << [type |-> "ready"] >> ELSE toHost
      /\ UNCHANGED world

\* The debounce of repository changes is over.
RefreshFires ==
  /\ host.pendingRefresh # "none"
  /\ LET s == [Now EXCEPT !.host.pendingRefresh = "none"]
     IN  Become(IF host.pendingRefresh = "replace" THEN ReplaceRows(s, TRUE)
                ELSE IF host.panel /\ host.repo # None
                     THEN Request(s, "peek", 0, FALSE, NoCursor, 1) ELSE s)
  /\ UNCHANGED <<world, toHost>>

RetryFires ==
  /\ host.retry
  /\ Become(AttachRepo([Now EXCEPT !.host.retry = FALSE]))
  /\ UNCHANGED <<world, toHost>>

\* A message of the webview.
Deliver ==
  /\ toHost # <<>>
  /\ toHost' = Tail(toHost)
  /\ LET m == Head(toHost)
     IN  Become(CASE m.type = "ready" -> AttachRepo([Now EXCEPT !.host.resolveAttempts = 0])
                  [] m.type = "loadMore" ->
                       (IF m.generation = host.generation /\ host.repo # None
                        THEN Request(Now, "more", m.generation, FALSE, m.cursor, 1)
                        ELSE IF m.generation = host.generation
                             THEN PostRows(Now, m.generation, EmptyPage, FALSE)
                             ELSE Now)
                  [] m.type = "setFilter" ->
                       Reset([Now EXCEPT !.host.filter = m.filter], FALSE)
                  [] m.type = "refresh" -> ReplaceRows(Now, FALSE)
                  [] OTHER -> Now)
  /\ UNCHANGED world

\* The user closes the panel, and opens the graph again.
Close ==
  /\ Event("close") /\ host.panel
  /\ host' = [host EXCEPT !.panel = FALSE, !.repo = None, !.filter = All, !.generations = {},
                          !.pendingRefresh = "none", !.retry = FALSE]
  /\ toHost' = <<>> /\ view' = NewView
  /\ UNCHANGED <<chosen, present, refs, dirty, branch, epoch, engine, asks>>

ShowGraph ==
  /\ ~host.panel
  /\ ~\E i \in DOMAIN asks : asks[i].kind = "show"
  /\ Become(Resolve(Now, "show"))
  /\ UNCHANGED <<world, toHost>>

\* --- the webview's steps ---------------------------------------------------

\* The reader scrolls near the end of the rows.
LoadMore ==
  /\ host.panel /\ view.cursor # NoCursor /\ ~view.inFlight
  /\ view' = [view EXCEPT !.inFlight = TRUE]
  /\ toHost' = Append(toHost, [type |-> "loadMore", generation |-> view.generation,
                               cursor |-> view.cursor])
  /\ UNCHANGED <<world, host, asks>>

\* The branch filter is set to a branch of the shown repository, or cleared.
PickFilter ==
  /\ Event("filter") /\ host.panel /\ view.rows # <<>>
  /\ \E f \in {All, view.rows[1].walk.root} :
       toHost' = Append(toHost, [type |-> "setFilter", generation |-> 0, filter |-> f])
  /\ UNCHANGED <<chosen, present, refs, dirty, branch, epoch, engine, host, asks, view>>

\* The refresh button, or a menu action on a shown row.
Act ==
  /\ Event("act") /\ host.panel /\ view.rows # <<>>
  /\ \E type \in {"refresh", "action"} :
       toHost' = Append(toHost, [type |-> type, generation |-> view.generation,
                                 root |-> view.rows[1].walk.root])
  /\ UNCHANGED <<chosen, present, refs, dirty, branch, epoch, engine, host, asks, view>>

Next ==
  \/ \E r \in Repos : Select(r) \/ Workspace(r) \/ MoveRefs(r) \/ EditFiles(r)
  \/ Crash \/ Handshake \/ Reload
  \/ \E i \in DOMAIN asks : \/ Answered(i) \/ RowsArrived(i) \/ Peeked(i)
                            \/ BranchesListed(i) \/ Resolved(i)
  \/ RefreshFires \/ RetryFires \/ Deliver \/ Close \/ ShowGraph
  \/ LoadMore \/ PickFilter \/ Act

Spec == Init /\ [][Next]_vars

\* --- properties ------------------------------------------------------------

\* The rows on screen are of one walk, which is the walk of the repository and the branch
\* filter that the shown generation was started for: pages, refreshes, switches and
\* restarts that overlap never mix two graphs (graphHost.ts: what belongs to an older
\* generation belongs "to a snapshot the webview no longer shows").
ViewShowsOneWalk ==
  \A i \in DOMAIN view.rows :
    /\ view.rows[i].walk = view.rows[1].walk
    /\ view.generation \in DOMAIN host.owner
    /\ host.owner[view.generation] =
         [root |-> view.rows[i].walk.root, filter |-> view.rows[i].walk.filter]

\* Nothing is under way any more.
Quiet == /\ asks = <<>> /\ toHost = <<>> /\ engine = "up"
         /\ host.pendingRefresh = "none" /\ ~host.retry

\* Once everything has settled the panel shows the refs as they are, however refreshes,
\* pages, switches and restarts overlapped, unless it shows an error instead
\* (graphHost.ts: "keeps them current as the repository changes").
RowsCurrent ==
  Quiet /\ host.panel /\ host.repo # None /\ view.rows # <<>> /\ ~view.error =>
    view.rows[1].walk.refs = refs[view.rows[1].walk.root]

\* The rows are those of one walk, and of the refs as they are.
RowsRight == ViewShowsOneWalk /\ RowsCurrent

\* The webview's paging guard is not held for good: a page it waits for is answered, or a
\* newer snapshot replaces the rows, unless the panel shows an error (graphHost.ts, of a
\* page it ignores: "a newer snapshot is on its way").
PagingAlive == Quiet /\ ~view.error => ~view.inFlight

\* A menu action that is let through acts on the repository whose rows it was chosen on
\* (graphHost.ts: "Generations issued for the current repository, which actions from the
\* webview must carry").
ActionsOnTheirRepository ==
  toHost # <<>> /\ Head(toHost).type = "action" /\ host.repo # None
    /\ Head(toHost).generation \in host.generations =>
    Head(toHost).root = host.repo.root
=============================================================================
