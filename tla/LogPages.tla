------------------------------ MODULE LogPages ------------------------------
(* log/commits (src/engine/src/services/history): pages of the history of a *)
(* tip, read by several workers from commit sequences they share, which are *)
(* filled lazily (LogOrder), held one request at a time (OrderHold) and     *)
(* kept within a budget of bytes (LogOrderCache), while the ref moves and   *)
(* requests are cancelled.                                                  *)
(*                                                                          *)
(* A commit is a number, later commits having greater ones; History gives   *)
(* its parents. Shallow boundaries and grafts stay as they are.             *)
EXTENDS Integers, SequencesExt

CONSTANTS
  Histories,    \* functions from commits to sets of earlier commits
  Readers,      \* clients that page through a history, each request on a worker
  Limits,       \* page sizes
  Shas,         \* the bare shas a client may begin at
  Budget,       \* LogOrderCache::budget_, in commits (EntryBytes)
  Overhead,     \* what an entry counts besides its commits
  MaxRequests,  \* bound on requests
  MaxMoves,     \* bound on the moves of the ref
  NONE

LogPagesAssumption ==
  /\ \A h \in Histories : \A c \in DOMAIN h : h[c] \subseteq 1 .. (c - 1)
  /\ Limits \subseteq Nat \ {0} /\ {Budget, Overhead, MaxRequests, MaxMoves} \subseteq Nat
  /\ NONE \notin Nat

VARIABLES
  history, ref,     \* the commits, and the commit the ref points at
  gone,             \* the commits that have been collected
  orders,           \* the sequences ever made: oids, complete, runEnded, holder
  lru, bytes,       \* the cache: [tip, order] from the least recent on, and used_
  charged,          \* Entry::bytes, by order
  reader,           \* what each client read: tip, rows, cursor; and its request
  requests, moves

repository == <<history, ref, gone, moves>>
vars == <<repository, orders, lru, bytes, charged, reader, requests>>

Unread == 0      \* no cursor yet
NoMore == -1     \* and none any more
Cut == -2        \* none, as the tip is gone: the client cannot tell it from NoMore

Idle == [step |-> "idle", start |-> 0, limit |-> 0, order |-> NONE]
Fresh == [tip |-> NONE, from |-> NONE, rows |-> <<>>, cursor |-> Unread, request |-> Idle]

Init ==
  /\ history \in Histories /\ ref = Cardinality(DOMAIN history) /\ gone = {} /\ moves = 0
  /\ orders = <<>> /\ lru = <<>> /\ bytes = 0 /\ charged = <<>>
  /\ reader = [r \in Readers |-> Fresh] /\ requests = 0

-----------------------------------------------------------------------------
(* Every commit a tip reaches, the latest first, and so children before parents: the
   walk of completeOrder. *)
Below(tip) ==
  LET reached[c \in 1 .. tip] == c = tip \/ \E d \in (c + 1) .. tip : c \in history[d] /\ reached[d]
  IN {c \in 1 .. tip : reached[c]}

Sorted(tip) ==
  LET all == Below(tip) IN SelectSeq([i \in 1 .. tip |-> tip + 1 - i], LAMBDA c : c \in all)

\* extendRun: from the tip through sole parents, until it holds `want` commits,
\* has come to a root, or ends at a merge.
RECURSIVE Run(_, _, _)
Run(tip, o, want) ==
  IF o.oids = <<>> THEN Run(tip, [o EXCEPT !.oids = <<tip>>], want)
  ELSE IF o.complete \/ o.runEnded \/ Len(o.oids) >= want THEN o
  ELSE LET parents == history[Last(o.oids)] IN
       CASE parents = {} -> [o EXCEPT !.complete = TRUE]
         [] Cardinality(parents) > 1 -> [o EXCEPT !.runEnded = TRUE]
         [] OTHER -> Run(tip, [o EXCEPT !.oids = Append(@, CHOOSE p \in parents : TRUE)], want)

Whole(tip, o) == [o EXCEPT !.oids = Sorted(tip), !.complete = TRUE]

-----------------------------------------------------------------------------
(* LogOrderCache. *)
EntryBytes(n) == Overhead + n

\* evictLocked: the least recent go, the most recent stays.
RECURSIVE Settle(_, _, _)
Settle(list, cost, used) ==
  IF used > Budget /\ Len(list) > 1
  THEN Settle(Tail(list), cost, used - cost[Head(list).order])
  ELSE lru' = list /\ bytes' = used

Empty == [oids |-> <<>>, complete |-> FALSE, runEnded |-> FALSE, holder |-> NONE]

\* acquire: the sequence of the tip, made when there is none.
Acquire(tip) ==
  LET cached == {i \in DOMAIN lru : lru[i].tip = tip} IN
  IF cached # {}
  THEN LET i == CHOOSE j \in cached : TRUE IN
       /\ lru' = Append(RemoveAt(lru, i), lru[i])
       /\ UNCHANGED <<orders, bytes, charged>>
  ELSE LET made == Len(orders) + 1 IN
       /\ orders' = Append(orders, Empty)
       /\ charged' = Append(charged, EntryBytes(0))
       /\ Settle(Append(lru, [tip |-> tip, order |-> made]), charged', bytes + EntryBytes(0))

\* resized: what the sequence grew to, unless it was evicted or made anew meanwhile.
Resize(tip, order, n) ==
  IF \E i \in DOMAIN lru : lru[i] = [tip |-> tip, order |-> order]
  THEN /\ charged' = [charged EXCEPT ![order] = EntryBytes(n)]
       /\ Settle(lru, charged', bytes - charged[order] + EntryBytes(n))
  ELSE UNCHANGED <<lru, bytes, charged>>

-----------------------------------------------------------------------------
(* The ref moves, to another commit, older or newer; and what it does not reach is
   collected. *)
Move ==
  /\ moves < MaxMoves /\ moves' = moves + 1
  /\ \E c \in DOMAIN history \ (gone \cup {ref}) : ref' = c
  /\ UNCHANGED <<history, gone, orders, lru, bytes, charged, reader, requests>>

Collect ==
  /\ gone' = DOMAIN history \ Below(ref) /\ gone' # gone
  /\ UNCHANGED <<history, ref, moves, orders, lru, bytes, charged, reader, requests>>

\* A client asks for the first page, at the tip or (a bare sha, as clients once had
\* it) at some commit below it, or goes on with a cursor, which pins the tip; the
\* request finds its sequence.
Ask(r, limit, from) ==
  LET me == reader[r]
      tip == IF me.cursor = Unread THEN ref ELSE me.tip
      entry == CHOOSE i \in DOMAIN lru' : lru'[i].tip = tip
  IN
  /\ me.request = Idle /\ me.cursor \notin {NoMore, Cut} /\ tip \notin gone
  /\ requests < MaxRequests /\ requests' = requests + 1
  /\ me.cursor # Unread => from = me.from
  /\ Acquire(tip)
  /\ reader' = [reader EXCEPT ![r] =
       [@ EXCEPT !.tip = tip, !.from = from,
                 !.request = [step |-> "waiting", limit |-> limit, order |-> lru'[entry].order,
                              start |-> me.cursor]]]
  /\ UNCHANGED repository

\* The tip of the cursor is gone: an empty page, and no cursor.
AskInVain(r) ==
  /\ reader[r].request = Idle /\ reader[r].cursor > Unread /\ reader[r].tip \in gone
  /\ requests < MaxRequests /\ requests' = requests + 1
  /\ reader' = [reader EXCEPT ![r].cursor = Cut]
  /\ UNCHANGED <<repository, orders, lru, bytes, charged>>

\* OrderHold.
Hold(r) ==
  LET q == reader[r].request IN
  /\ q.step = "waiting" /\ orders[q.order].holder = NONE
  /\ orders' = [orders EXCEPT ![q.order].holder = r]
  /\ reader' = [reader EXCEPT ![r].request.step = "holding"]
  /\ UNCHANGED <<repository, lru, bytes, charged, requests>>

\* A request that is cancelled, or comes upon a commit that is gone, leaves off
\* waiting, or leaves the sequence as far as it got: some of the run, never some of
\* the walk.
Cancel(r) ==
  LET q == reader[r].request IN
  /\ \/ q.step = "waiting" /\ UNCHANGED orders
     \/ /\ q.step = "holding"
        /\ \E n \in 0 .. (q.start + q.limit) :
             orders' = [orders EXCEPT ![q.order] =
               [(IF n = 0 THEN @ ELSE Run(reader[r].tip, @, n)) EXCEPT !.holder = NONE]]
  /\ reader' = [reader EXCEPT ![r].request = Idle]
  /\ UNCHANGED <<repository, lru, bytes, charged, requests>>

\* The place of a bare sha: in what there is, in the whole history, or nowhere.
Place(oids, sha) ==
  IF sha \in ToSet(oids) THEN (CHOOSE i \in DOMAIN oids : oids[i] = sha) - 1 ELSE Len(oids)

Located(tip, o, sha) ==
  IF sha = NONE \/ sha \in ToSet(o.oids) \/ o.complete THEN o ELSE Whole(tip, o)

\* A plausible bug: a run that ends at a merge is taken for the whole history.
MutHasMore(o, end) == Len(o.oids) > end

\* An incomplete sequence ends in a commit that still has parents.
HasMore(o, end) == Len(o.oids) > end \/ (~o.complete /\ Len(o.oids) >= end)

\* The rest of the request: the run is extended to one past the page, or the whole
\* history sorted; the page is cut out and the sequence let go.  The page may still be
\* lost, to a cancel or a commit that is gone, as its commits are looked up.
Serve(r) ==
  LET me == reader[r]
      q == me.request
      sha == IF me.cursor = Unread THEN me.from ELSE NONE
      located == Located(me.tip, orders[q.order], sha)
      start == IF sha = NONE THEN q.start ELSE Place(located.oids, sha)
      end == start + q.limit
      ran == Run(me.tip, located, end + 1)
      o == IF ~ran.complete /\ Len(ran.oids) < end THEN Whole(me.tip, ran) ELSE ran
      page == SubSeq(o.oids, start + 1, IF end < Len(o.oids) THEN end ELSE Len(o.oids))
  IN
  /\ q.step = "holding"
  /\ orders' = [orders EXCEPT ![q.order] = [o EXCEPT !.holder = NONE]]
  /\ Resize(me.tip, q.order, Len(o.oids))
  /\ \/ reader' = [reader EXCEPT ![r] =
            [@ EXCEPT !.rows = @ \o page, !.request = Idle,
                      !.cursor = IF HasMore(o, end) THEN end ELSE NoMore]]
     \/ reader' = [reader EXCEPT ![r].request = Idle]
  /\ UNCHANGED <<repository, requests>>

Next ==
  \/ Move \/ Collect
  \/ \E r \in Readers :
       \/ \E limit \in Limits, from \in Shas \cup {NONE} : Ask(r, limit, from)
       \/ AskInVain(r) \/ Hold(r) \/ Cancel(r) \/ Serve(r)

Spec == Init /\ [][Next]_vars

-----------------------------------------------------------------------------
\* What is to be read of a history from some commit on.
Rest(tip, sha) ==
  LET all == Sorted(tip) IN
  IF sha = NONE THEN all ELSE SubSeq(all, Place(all, sha) + 1, Len(all))

\* Whatever the sizes of its pages, whoever else reads, fills or cancels, and
\* wherever the ref goes, a client reads one history, that of the tip it began
\* with: nothing is left out or comes twice, and it is told there is no more when,
\* and only when, it has read it all, or that tip has been collected (log/commits).
PagesOfOneHistory ==
  \A r \in Readers : reader[r].cursor # Unread =>
    LET rest == Rest(reader[r].tip, reader[r].from) IN
    /\ IsPrefix(reader[r].rows, rest)
    /\ IF reader[r].cursor = Cut THEN reader[r].tip \in gone
       ELSE reader[r].cursor = NoMore <=> reader[r].rows = rest

\* The cache counts the bytes of what it holds, one sequence per tip, and holds no
\* more than its budget besides the latest (LogOrderCache).
OrdersAccounted ==
  /\ bytes = FoldSeq(LAMBDA e, n : charged[e.order] + n, 0, lru)
  /\ \A i, j \in DOMAIN lru : lru[i].tip = lru[j].tip => i = j
  /\ bytes <= Budget \/ Len(lru) = 1

LogsExact == PagesOfOneHistory /\ OrdersAccounted
=============================================================================
