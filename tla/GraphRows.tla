----------------------------- MODULE GraphRows -----------------------------
(***************************************************************************)
(* graph/rows: the engine's walk of the commit graph, the columns it draws *)
(* every row in, and the paging of both.  A page carries no state over to  *)
(* the next one but the cursor the client sends back, the plan cache is    *)
(* shared by every request, and refs move between two pages.               *)
(*                                                                         *)
(* A commit is a number 1..N, older commits have larger ones; Time order of the *)
(* tips is the order of the numbers (every order is reached, the numbers   *)
(* of incomparable commits being free).  Row 0 is the uncommitted-changes  *)
(* row and stash@{i - 1} is the row N + i.                                 *)
(***************************************************************************)
EXTENDS Integers, Sequences, FiniteSets, SequencesExt, FiniteSetsExt

CONSTANTS
  Scopes,       \* [commits, moves, stashes]: sizes of the history, of the stash, and how
                \* much then changes
  Branches,     \* branch names; Main is the checked-out one
  Main,
  MaxStashes,   \* stash entries
  Limits,       \* page sizes a request may ask for
  Entries       \* plans the cache's byte budget holds

VARIABLES
  parents,      \* the commit DAG: immutable objects
  at,           \* commit of each branch; 0 when it does not exist
  stashes,      \* base commit of each stash entry, stash@{0} first
  dirty,        \* the working tree differs from HEAD
  filter,       \* the branches the client asks for; {} for every one
  cache,        \* GraphCache: [key, plan], most recently used first
  cursor,       \* the cursor of the client's last page, or NoCursor
  shown,        \* rows the client has of the current walk
  walked,       \* what the repository was when the client's first page was taken
  moves         \* changes of the repository left

vars == <<parents, at, stashes, dirty, filter, cache, cursor, shown, walked, moves>>

N == Len(parents)
Commits == 1..N
Wip == 0
Free == -1
StashRow(i) == N + i
NoCursor == [pos |-> -1]
NoWalk == [roots |-> {}, stashes |-> <<>>, wip |-> FALSE]

\* --- the refs snapshot -----------------------------------------------------

Tips(branches) == { at[b] : b \in branches } \ {0}

\* What buildSnapshot hashes: every ref and stash, and for a filtered walk the roots.
Fingerprint ==
  [refs |-> at, stashes |-> stashes, roots |-> IF filter = {} THEN {} ELSE Tips(filter)]

Roots == IF filter = {} THEN Tips(Branches) ELSE Tips(filter)

\* --- the walk --------------------------------------------------------------

Upto(n) == [i \in 1..n |-> i]

\* Commits reachable from the roots.
CollectNodes(roots) ==
  FoldLeft(LAMBDA seen, c : IF c \in seen THEN seen \cup ToSet(parents[c]) ELSE seen,
           roots, Upto(N))

\* Pops one ready commit; its parents that have no child left become ready, the
\* last parent on top of the stack.
Emit(walk, k) ==
  LET top  == Last(walk.ready)
      left == [c \in DOMAIN walk.pending |->
                 walk.pending[c] - IF c \in ToSet(parents[top]) THEN 1 ELSE 0]
  IN  [ready   |-> Front(walk.ready) \o SelectSeq(parents[top], LAMBDA p : left[p] = 0),
       pending |-> left,
       order   |-> Append(walk.order, top)]

BuildOrder(nodes) ==
  LET children == [c \in nodes |-> Cardinality({ k \in nodes : c \in ToSet(parents[k]) })]
      start    == [ready   |-> SetToSortSeq({ c \in nodes : children[c] = 0 }, >),
                   pending |-> children,
                   order   |-> <<>>]
  IN  FoldLeft(Emit, start, Upto(Cardinality(nodes))).order

\* A cached plan: the commit order and the stash rows that precede each commit.
BuildPlan(roots) ==
  LET nodes == CollectNodes(roots)
  IN  [commits |-> BuildOrder(nodes),
       stashed |-> [c \in nodes |->
                      SelectSeq(Upto(Len(stashes)), LAMBDA i : stashes[i] = c)]]

\* The rows of a walk: the uncommitted changes on top of HEAD, then the commits,
\* each after the stash entries taken on it.
RowsOf(plan, wip) ==
  (IF wip THEN << [sha |-> Wip, parents |-> <<at[Main]>>] >> ELSE <<>>)
  \o FlattenSeq([k \in DOMAIN plan.commits |->
       LET c == plan.commits[k]
           s == plan.stashed[c]
       IN  [i \in DOMAIN s |-> [sha |-> StashRow(s[i]), parents |-> <<c>>]]
           \o << [sha |-> c, parents |-> parents[c]] >>])

\* --- lanes -----------------------------------------------------------------

\* Puts sha in the lowest free lane: the lanes and its column.
Allocate(lanes, sha) ==
  LET unused == Min({ i \in DOMAIN lanes : lanes[i] = Free } \cup {Len(lanes) + 1})
  IN  [lanes |-> [i \in 1..Max({Len(lanes), unused}) |-> IF i = unused THEN sha ELSE lanes[i]],
       lane  |-> unused]

Shrink(lanes) ==
  SubSeq(lanes, 1, Max({0} \cup { i \in DOMAIN lanes : lanes[i] # Free }))

\* One row's dot, the lanes that end in it (`in`), the lane each parent leaves by
\* (`out`), the lanes that pass it by with the column each continues in
\* (`through`), and the lanes below it.
LayoutRow(lanes, row) ==
  LET waiting == { i \in DOMAIN lanes : lanes[i] = row.sha }
      start   == IF waiting = {} THEN Allocate(lanes, row.sha)
                 ELSE [lanes |-> [i \in DOMAIN lanes |->
                                    IF i \in waiting \ {Min(waiting)} THEN Free ELSE lanes[i]],
                       lane  |-> Min(waiting)]
      dot     == start.lane
      passing == { i \in DOMAIN start.lanes : i # dot /\ start.lanes[i] # Free }
      root    == row.parents = <<>>
      joining == IF root THEN {} ELSE { i \in passing : start.lanes[i] = row.parents[1] }
      keep    == Min(joining \cup {dot})
      first   == [i \in DOMAIN start.lanes |->
                    IF ~root /\ i = keep THEN row.parents[1]
                    ELSE IF i \in joining \cup {dot} THEN Free
                    ELSE start.lanes[i]]
      further == FoldLeft(
        LAMBDA s, p :
          LET there == { i \in passing : s.lanes[i] = p }
              found == IF there = {} THEN Allocate(s.lanes, p)
                       ELSE [lanes |-> s.lanes, lane |-> Min(there)]
          IN  [lanes |-> found.lanes, out |-> Append(s.out, found.lane)],
        [lanes |-> first, out |-> IF root THEN <<>> ELSE <<keep>>],
        IF root THEN <<>> ELSE Tail(row.parents))
  IN  [row   |-> [sha |-> row.sha, parents |-> row.parents, lane |-> dot, in |-> waiting,
                  out |-> further.out,
                  through |-> [i \in passing |-> IF i \in joining THEN keep ELSE i]],
       lanes |-> Shrink(further.lanes)]

\* The rows laid out one under the other, from the given lanes.
LayOut(rows, lanes) ==
  FoldLeft(LAMBDA s, row : LET laid == LayoutRow(s.lanes, row)
                           IN  [lanes |-> laid.lanes, rows |-> Append(s.rows, laid.row)],
           [lanes |-> lanes, rows |-> <<>>], rows)

\* --- paging ----------------------------------------------------------------

MutEncodeCursor(pos, lanes, wip) ==
  [pos |-> pos, lanes |-> <<>>, fingerprint |-> Fingerprint, wip |-> wip]

EncodeCursor(pos, lanes, wip) ==
  [pos |-> pos, lanes |-> lanes, fingerprint |-> Fingerprint, wip |-> wip]

\* GraphCache::get and put, around BuildPlan on a miss.
PlanFor ==
  LET hits == { i \in DOMAIN cache : cache[i].key = Fingerprint }
  IN  IF hits = {} THEN BuildPlan(Roots) ELSE cache[Min(hits)].plan

Cached(plan) ==
  LET others == SelectSeq(cache, LAMBDA e : e.key # Fingerprint)
      all    == << [key |-> Fingerprint, plan |-> plan] >> \o others
  IN  SubSeq(all, 1, Min({Len(all), Entries}))

\* The page at the cursor: only page 0 looks at the working tree, later ones learn
\* from the cursor whether the walk opened with the uncommitted changes.
Page(limit) ==
  LET again == cursor # NoCursor
      wip   == IF again THEN cursor.wip
               ELSE dirty /\ at[Main] # 0 /\ at[Main] \in Roots
      rows  == RowsOf(PlanFor, wip)
      pos   == IF again THEN cursor.pos ELSE 0
      end   == Min({pos + limit, Len(rows)})
      laid  == LayOut(SubSeq(rows, pos + 1, end), IF again THEN cursor.lanes ELSE <<>>)
  IN  [rows |-> laid.rows,
       next |-> IF end < Len(rows) THEN EncodeCursor(end, laid.lanes, wip) ELSE NoCursor]

\* --- behaviour -------------------------------------------------------------

\* The parents a commit may have, older ones: none, one, or a merge of any number.
ParentLists(n) == UNION { SetToSeqs(s) : s \in SUBSET (2..n) }

Histories(n) ==
  { h \in [1..n -> ParentLists(n)] : \A c \in 1..n : ToSet(h[c]) \subseteq (c + 1)..n }

StashLists(n) == {<<>>} \cup { [i \in 1..k |-> b] : k \in 1..n, b \in Commits }

Init ==
  /\ \E scope \in Scopes : /\ parents \in Histories(scope.commits)
                            /\ stashes \in StashLists(scope.stashes)
                            /\ moves = scope.moves
  /\ at \in [Branches -> Commits]
  /\ CollectNodes(Tips(Branches)) = Commits
  /\ dirty \in BOOLEAN
  /\ filter = {}
  /\ cache = <<>> /\ cursor = NoCursor /\ shown = <<>> /\ walked = NoWalk

Walked == [roots |-> Roots, stashes |-> stashes,
           wip |-> dirty /\ at[Main] # 0 /\ at[Main] \in Roots]

\* The client asks for the first page, anew or after a refusal.
FirstPage(limit) ==
  LET page == Page(limit)
  IN  /\ shown = <<>> /\ Roots # {}
      /\ cursor' = page.next /\ shown' = page.rows /\ walked' = Walked
      /\ cache' = Cached(PlanFor)
      /\ UNCHANGED <<parents, at, stashes, dirty, filter, moves>>

\* The client asks for the page after the ones it has.
NextPage(limit) ==
  LET page == Page(limit)
  IN  /\ cursor # NoCursor
      /\ IF cursor.fingerprint = Fingerprint
         THEN /\ cursor' = page.next /\ shown' = shown \o page.rows
              /\ cache' = Cached(PlanFor)
              /\ UNCHANGED walked
         ELSE /\ cursor' = NoCursor /\ shown' = <<>> /\ walked' = NoWalk
              /\ UNCHANGED cache
      /\ UNCHANGED <<parents, at, stashes, dirty, filter, moves>>

\* graph/find: the index of every row in the walk without its uncommitted changes.
FindIndex(sha) ==
  LET rows == RowsOf(PlanFor, FALSE)
  IN  CHOOSE i \in DOMAIN rows : rows[i].sha = sha

Find ==
  /\ Roots # {}
  /\ cache' = Cached(PlanFor)
  /\ UNCHANGED <<parents, at, stashes, dirty, filter, cursor, shown, walked, moves>>

Rest == UNCHANGED <<parents, cache, cursor, shown, walked>> /\ moves' = moves - 1

\* Git moves or deletes a branch, stashes, drops a stash; files are edited.
MoveBranch ==
  /\ moves > 0
  /\ \E b \in Branches, c \in Commits \cup {0} :
       /\ c = 0 => b # Main
       /\ c # at[b]
       /\ at' = [at EXCEPT ![b] = c]
  /\ Rest /\ UNCHANGED <<stashes, dirty, filter>>

StashOrDrop ==
  /\ moves > 0
  /\ stashes' \in (IF stashes = <<>> THEN {} ELSE {Tail(stashes)})
                  \cup (IF Len(stashes) < MaxStashes THEN {<<at[Main]>> \o stashes} ELSE {})
  /\ Rest /\ UNCHANGED <<at, dirty, filter>>

EditFiles ==
  /\ moves > 0
  /\ dirty' = ~dirty
  /\ Rest /\ UNCHANGED <<at, stashes, filter>>

\* The branch filter changes: the client starts the graph over.
SetFilter ==
  /\ moves > 0
  /\ filter' \in SUBSET Branches \ {filter}
  /\ cursor' = NoCursor /\ shown' = <<>> /\ walked' = NoWalk
  /\ moves' = moves - 1
  /\ UNCHANGED <<parents, at, stashes, dirty, cache>>

Next ==
  \/ \E limit \in Limits : FirstPage(limit) \/ NextPage(limit)
  \/ Find \/ MoveBranch \/ StashOrDrop \/ EditFiles \/ SetFilter

Spec == Init /\ [][Next]_vars

\* --- properties ------------------------------------------------------------

\* The parents of the rows of a walk, as a reader of the repository would list them.
RowSet(w) ==
  LET nodes == CollectNodes(w.roots)
  IN  nodes \cup (IF w.wip THEN {Wip} ELSE {})
            \cup { StashRow(i) : i \in { j \in DOMAIN w.stashes : w.stashes[j] \in nodes } }

\* The pages of any sizes, asked one after the other while refs, files and the filter
\* move, are slices of one listing: every row of the walk the first page was taken of
\* comes once, children before their parents, the last page completes it, and while the
\* refs have not moved graph/find counts the same rows
\* (commit-graph-lanes.md: "page N+1 continues exactly where page N stopped").
PagesAgree ==
  LET shas == [i \in DOMAIN shown |-> shown[i].sha]
  IN  /\ \A i, j \in DOMAIN shown : i # j => shas[i] # shas[j]
      /\ \A i, j \in DOMAIN shown : shas[j] \in ToSet(shown[i].parents) => i < j
      /\ ToSet(shas) \subseteq RowSet(walked)
      /\ shown # <<>> /\ cursor = NoCursor => ToSet(shas) = RowSet(walked)
      /\ \A i \in DOMAIN shown : shas[i] = Wip => i = 1
      /\ cursor # NoCursor /\ cursor.fingerprint = Fingerprint =>
           \A i \in DOMAIN shown \ (IF walked.wip THEN {1} ELSE {}) :
             FindIndex(shas[i]) = i - IF walked.wip THEN 1 ELSE 0

\* The lanes at the bottom and at the top of a row.
Leaving(row) == ToSet(row.out) \cup { row.through[i] : i \in DOMAIN row.through }
Entering(row) == row.in \cup DOMAIN row.through

\* The column of a line that left row i by the lane l, at the top of row j.
ColumnAt(i, l, j) ==
  FoldLeft(LAMBDA column, k : IF column \in DOMAIN shown[k].through
                              THEN shown[k].through[column] ELSE 0,
           l, [k \in 1..(j - i - 1) |-> i + k])

\* Every line that leaves a row enters the next one in the same column, and the line
\* drawn from a row to each of its parents ends in that parent's dot: no line is broken,
\* crosses into another commit's lane or is lost at the boundary of two pages
\* (commit-graph-lanes.md: "an unbroken graph from the edges alone").
LinesDrawn ==
  /\ \A i \in DOMAIN shown \ {1} : Entering(shown[i]) = Leaving(shown[i - 1])
  /\ shown # <<>> => Entering(shown[1]) = {}
  /\ \A i, j \in DOMAIN shown : \A p \in DOMAIN shown[i].parents :
       shown[j].sha = shown[i].parents[p] => ColumnAt(i, shown[i].out[p], j) \in shown[j].in
=============================================================================
