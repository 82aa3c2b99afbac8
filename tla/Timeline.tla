------------------------------ MODULE Timeline ------------------------------
(* The visual file history: the panel's host (webviews/timelineHost.ts),    *)
(* its page (webviews-src/timeline/main.ts) and the engine's history/file,  *)
(* while the panel is put on other files, closed and opened again, and the  *)
(* repository changes.                                                      *)
(*                                                                          *)
(* The history of a file is n, ..., 2, 1 when it has n commits; an entry is *)
(* one of them with its file. A cursor is the commit the next page begins   *)
(* with and the file to walk from there, whatever file is asked for.        *)
EXTENDS Integers, SequencesExt

CONSTANTS
  Files,
  Commits,      \* how many a file has to begin with
  Page,         \* graphPageSize()
  MaxShows,     \* bounds on what the user and the repository do
  MaxChanges,
  MaxFailures,
  NONE

TimelineAssumption ==
  /\ {Commits, Page} \subseteq Nat \ {0}
  /\ {MaxShows, MaxChanges, MaxFailures} \subseteq Nat

VARIABLES
  length,       \* how many commits each file has
  panel,        \* "closed", "loading" or "live"
  target,       \* the file of the panel, and which call of showFile put it there
  known,        \* entriesBySha
  refetch,      \* whether refetchTimer is set
  begins,       \* posts of a reset whose fetchAndPost is still to begin
  fetches,      \* requests on their way: target, cursor
  toPage,       \* messages to the page, in order
  toHost,       \* and to the host
  page,         \* what the page shows: its file, entries, nextCursor and loadPending
  shows, changes, failures,
  crossed,      \* whether a reset and a page asked for before it were on their way at once
  strayed       \* whether the host was asked to go on with another file than the panel's

panelVars == <<panel, target, known>>
vars == <<length, panelVars, refetch, begins, fetches, toPage, toHost, page, shows, changes,
          failures, crossed, strayed>>
budgets == <<shows, changes, failures>>

\* No cursor; one without a commit says as much.
NoCursor == [file |-> NONE, commit |-> 0]
Blank == [file |-> NONE, entries |-> <<>>, cursor |-> NoCursor, pending |-> FALSE]
Untargeted == [file |-> NONE, call |-> 0]

Init ==
  /\ length = [f \in Files |-> Commits]
  /\ panel = "closed" /\ target = Untargeted /\ known = {}
  /\ refetch = FALSE /\ begins = 0 /\ fetches = {}
  /\ toPage = <<>> /\ toHost = <<>> /\ page = Blank
  /\ shows = 0 /\ changes = 0 /\ failures = 0 /\ crossed = FALSE /\ strayed = FALSE

-----------------------------------------------------------------------------
(* The host posts to its panel, if there is one. *)
Post(message) == toPage' = IF panel = "closed" THEN toPage ELSE Append(toPage, message)

Among(messages, type) == \E i \in DOMAIN messages : messages[i].type = type

\* A reset and then, once it has been posted, fetchAndPost.
Reset(file) ==
  /\ Post([type |-> "reset", file |-> file])
  /\ begins' = begins + 1
  /\ crossed' = (crossed \/ fetches # {} \/ begins > 0 \/ Among(toHost, "loadMore"))

\* showFile, once the file is located: the panel is put on it, or made.
ShowFile(f) ==
  /\ shows < MaxShows /\ shows' = shows + 1
  /\ target' = [file |-> f, call |-> shows + 1] /\ known' = {}
  /\ IF panel # "closed" THEN Reset(f) /\ UNCHANGED <<panel, page>>
     ELSE panel' = "loading" /\ page' = Blank /\ UNCHANGED <<toPage, begins, crossed>>
  /\ UNCHANGED <<length, refetch, fetches, toHost, changes, failures, strayed>>

\* The page has run its script; what was posted before is kept for it, or lost.
Load ==
  /\ panel = "loading" /\ panel' = "live"
  /\ toPage' \in {toPage, <<>>}
  /\ toHost' = Append(toHost, [type |-> "ready"])
  /\ UNCHANGED <<length, target, known, refetch, begins, fetches, page, budgets, crossed, strayed>>

\* onPanelDisposed.
Close ==
  /\ panel # "closed" /\ panel' = "closed"
  /\ target' = Untargeted /\ known' = {} /\ refetch' = FALSE
  /\ toPage' = <<>> /\ toHost' = <<>> /\ page' = Blank /\ strayed' = FALSE
  /\ UNCHANGED <<length, begins, fetches, budgets, crossed>>

\* A commit to a file: repo/didChange sets the timer; the timer fires.
Commit(f) ==
  /\ changes < MaxChanges /\ changes' = changes + 1
  /\ length' = [length EXCEPT ![f] = @ + 1]
  /\ refetch' = (refetch \/ panel # "closed")
  /\ UNCHANGED <<panelVars, begins, fetches, toPage, toHost, page, shows, failures, crossed, strayed>>

RefetchFires ==
  /\ refetch /\ refetch' = FALSE
  /\ known' = {} /\ Reset(target.file)
  /\ UNCHANGED <<length, panel, target, fetches, toHost, page, budgets, strayed>>

\* onMessage: ready, loadMore.
Receive ==
  /\ toHost # <<>> /\ toHost' = Tail(toHost)
  /\ LET m == Head(toHost) IN
     IF m.type = "ready" THEN Reset(target.file) /\ UNCHANGED <<fetches, strayed>>
     ELSE /\ fetches' = fetches \cup {[target |-> target, cursor |-> m.cursor]}
          /\ strayed' = (strayed \/ m.cursor.file # target.file)
          /\ UNCHANGED <<toPage, begins, crossed>>
  /\ UNCHANGED <<length, panelVars, refetch, page, budgets>>

\* fetchAndPost of the first page: for whatever the target has become.
Fetch ==
  /\ begins > 0 /\ begins' = begins - 1
  /\ fetches' = IF panel = "closed" THEN fetches
                ELSE fetches \cup {[target |-> target, cursor |-> NoCursor]}
  /\ UNCHANGED <<length, panelVars, refetch, toPage, toHost, page, budgets, crossed, strayed>>

\* history/file: a page from the newest commit or from the cursor on, and where the
\* next one begins. A cursor says which path is walked; the request's is not looked at.
Listing(file, cursor) ==
  LET from == IF cursor.commit = 0 THEN [file |-> file, commit |-> length[file]] ELSE cursor
      n == IF from.commit < Page THEN from.commit ELSE Page
  IN [type |-> "entries", next |-> [from EXCEPT !.commit = @ - n],
      entries |-> [i \in 1 .. n |-> [from EXCEPT !.commit = @ + 1 - i]]]

\* A page whose panel is on another file by now is dropped only if it was the first.
MutStale(fetch) == fetch.cursor.commit = 0 /\ target # fetch.target
\* The answer is posted while the target is the one asked about.
Stale(fetch) == target # fetch.target

Answer(fetch) ==
  /\ fetch \in fetches /\ fetches' = fetches \ {fetch}
  /\ LET listing == Listing(fetch.target.file, fetch.cursor) IN
     IF Stale(fetch) THEN UNCHANGED <<known, toPage>>
     ELSE known' = known \cup ToSet(listing.entries) /\ Post(listing)
  /\ UNCHANGED <<length, panel, target, refetch, begins, toHost, page, budgets, crossed, strayed>>

Fail(fetch) ==
  /\ fetch \in fetches /\ fetches' = fetches \ {fetch}
  /\ failures < MaxFailures /\ failures' = failures + 1
  /\ UNCHANGED <<length, panelVars, refetch, begins, toPage, toHost, page, shows, changes, crossed,
                 strayed>>

-----------------------------------------------------------------------------
(* The page takes a message: a reset empties it, entries are added. *)
Take ==
  /\ panel = "live" /\ toPage # <<>> /\ toPage' = Tail(toPage)
  /\ LET m == Head(toPage) IN
     page' = IF m.type = "reset"
             THEN [file |-> m.file, entries |-> <<>>, cursor |-> NoCursor, pending |-> TRUE]
             ELSE [page EXCEPT !.entries = @ \o m.entries, !.cursor = m.next, !.pending = FALSE]
  /\ UNCHANGED <<length, panelVars, refetch, begins, fetches, toHost, budgets, crossed, strayed>>

LoadMore ==
  /\ page.cursor.commit # 0 /\ ~page.pending /\ page.entries # <<>>
  /\ page' = [page EXCEPT !.pending = TRUE]
  /\ toHost' = Append(toHost, [type |-> "loadMore", cursor |-> page.cursor])
  /\ crossed' = (crossed \/ Among(toPage, "reset"))
  /\ UNCHANGED <<length, panelVars, refetch, begins, fetches, toPage, budgets, strayed>>

Next ==
  \/ \E f \in Files : ShowFile(f) \/ Commit(f)
  \/ Load \/ Close \/ RefetchFires \/ Receive \/ Fetch \/ Take \/ LoadMore
  \/ \E fetch \in fetches : Answer(fetch) \/ Fail(fetch)

Spec == Init /\ [][Next]_vars

-----------------------------------------------------------------------------
\* However often the panel is put on other files, closed and opened, the page shows no
\* entry of a file it is not about, as long as the host is not asked to go on with a
\* file the panel has left; and while no reset is on its way a click on what it shows
\* finds its diff (timelineHost.ts, entriesBySha).
EntriesOfTheFile ==
  /\ (~strayed /\ page.file # NONE) => \A i \in DOMAIN page.entries : page.entries[i].file = page.file
  /\ (target.file = page.file /\ ~Among(toPage, "reset"))
       => ToSet(page.entries) \subseteq known

\* As long as no reset has met a page asked for before it, what is shown is successive
\* commits, each once, and the cursor is where they go on; and they begin with the
\* newest there is, unless a refetch is set or its reset is on its way.
UncrossedExact ==
  ~crossed =>
    /\ \A i \in DOMAIN page.entries : i > 1 => page.entries[i].commit = page.entries[i - 1].commit - 1
    /\ page.entries # <<>> =>
         /\ page.cursor.commit = Last(page.entries).commit - 1
         /\ refetch \/ Among(toPage, "reset") \/ page.entries[1].commit = length[page.entries[1].file]

TimelineKept == EntriesOfTheFile /\ UncrossedExact

\* No commit is shown twice.
EntriesOnce == IsInjective(page.entries)
=============================================================================
