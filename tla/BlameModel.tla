------------------------------ MODULE BlameModel ------------------------------
(* The extension's whole-file blame cache (blameModel.ts) for one file:       *)
(* requests shared by every caller, callers who leave through their own       *)
(* token, the grace period before a request nobody waits for is cancelled,    *)
(* supersession, invalidation and the two budgets of the LRU.                 *)
(*                                                                            *)
(* The extension host is one thread and EngineClient rejects a cancelled      *)
(* request at once, so each step here is one macro task with all the          *)
(* continuations it releases.  An entry keeps its identity after it left the  *)
(* cache: its request may still run for the callers that joined it.  Its      *)
(* `joined` only records that somebody once did.                              *)
EXTENDS Integers, SequencesExt

CONSTANTS
  Callers,       \* blame surfaces
  Versions,      \* buffer versions asked about, positive
  Tokens,        \* what callers pass: "none", a "live" token, or a "dead" one,
                 \* already cancelled when getBlame is called
  MaxRequests,   \* bound on requests sent
  MaxEntries,    \* entry budget (maxEntries)
  MaxBytes,      \* byte budget (maxBytes)
  Sizes          \* sizes of answers

ConstantsAssumption ==
  /\ Versions \subseteq Nat \ {0} /\ Tokens \subseteq {"none", "live", "dead"}
  /\ MaxRequests \in Nat /\ MaxEntries \in Nat \ {0} /\ MaxBytes \in Nat
  /\ Sizes \subseteq Nat

OnDisk == 0                             \* ON_DISK_VERSION
Revision == -1                          \* a blame at a revision
Keys == {Revision, OnDisk} \cup Versions
Ids == 1 .. MaxRequests

VARIABLES
  entry,   \* every CacheEntry made so far, by the request it stands for
  lru,     \* BlameModel.cache: ids in insertion order, least recent first
  total,   \* BlameModel.totalBytes
  sent,    \* requests made so far
  caller   \* each caller's last getBlame

vars == <<entry, lru, total, sent, caller>>

Unused == [key |-> OnDisk, state |-> "unused", bytes |-> 0, waiters |-> {},
           pinned |-> FALSE, timer |-> FALSE, joined |-> FALSE]
Nobody == [state |-> "idle", id |-> 0]

Init ==
  /\ entry = [i \in Ids |-> Unused]
  /\ lru = <<>> /\ total = 0 /\ sent = 0
  /\ caller = [c \in Callers |-> Nobody]

Cached == Range(lru)
Running(i) == entry[i].state = "running"
Waiting(c) == caller[c].state \in {"waiting", "pinning"}

SumBytes(es, s) ==
  LET sum[n \in 0 .. Len(s)] == IF n = 0 THEN 0 ELSE sum[n - 1] + es[s[n]].bytes
  IN  sum[Len(s)]

-----------------------------------------------------------------------------
(* What settling the requests of S does: timers stop, and whoever waited is  *)
(* told, with the blame or without.                                          *)
Settled(es, S, how) ==
  [i \in Ids |-> IF i \in S
                 THEN [es[i] EXCEPT !.state = how, !.waiters = {}, !.timer = FALSE, !.pinned = FALSE]
                 ELSE es[i]]
Told(cs, S, how) ==
  [c \in Callers |-> IF cs[c].state \in {"waiting", "pinning"} /\ cs[c].id \in S
                     THEN [state |-> how, id |-> 0] ELSE cs[c]]

(* remove(): the entries of S leave the cache with their bytes.              *)
Only(s, S) ==
  LET only[n \in 0 .. Len(s)] ==
        IF n = 0 THEN <<>>
        ELSE IF s[n] \in S THEN Append(only[n - 1], s[n]) ELSE only[n - 1]
  IN  only[Len(s)]
Without(s, S) == Only(s, Range(s) \ S)

(* evictToBudget(): the oldest entries go until both budgets are met, the    *)
(* most recent one always stays.  A running request goes on.                 *)
Fits(es, s) == Len(s) <= MaxEntries /\ SumBytes(es, s) <= MaxBytes
Evictions(es, s) ==
  CHOOSE n \in 0 .. Len(s) :
    /\ n >= Len(s) - 1 \/ Fits(es, SubSeq(s, n + 1, Len(s)))
    /\ \A m \in 0 .. n - 1 : ~(m >= Len(s) - 1 \/ Fits(es, SubSeq(s, m + 1, Len(s))))

(* The cache after s was evicted to the budgets; `sum` is its totalBytes.    *)
Evict(es, s, sum) ==
  LET n == Evictions(es, s)
  IN /\ lru' = SubSeq(s, n + 1, Len(s))
     /\ total' = sum - SumBytes(es, SubSeq(s, 1, n))

(* evictSuperseded(): dead buffer versions of the file.                      *)
Superseded(k) ==
  {i \in Cached : /\ k # Revision /\ entry[i].key \in Versions
                  /\ k = OnDisk \/ entry[i].key < k}

(* join(): without a token the caller pins the entry; with one it waits      *)
(* beside it; with a cancelled one it is turned away before it counts.       *)
Entering(e, c, token) ==
  CASE token = "none" -> [e EXCEPT !.pinned = TRUE, !.timer = FALSE, !.joined = TRUE]
    [] token = "live" -> [e EXCEPT !.waiters = @ \cup {c}, !.timer = FALSE, !.joined = TRUE]
    [] token = "dead" -> e
Entered(i, token, settled) ==
  IF token = "dead" \/ settled THEN [state |-> "told", id |-> 0]
  ELSE [state |-> IF token = "live" THEN "waiting" ELSE "pinning", id |-> i]

-----------------------------------------------------------------------------
(* getBlame of a key the cache holds: shared, and moved to the recent end.   *)
Rejoin(c, k, token) ==
  /\ ~Waiting(c)
  /\ \E i \in Cached :
       /\ entry[i].key = k
       /\ lru' = Append(Without(lru, {i}), i)
       /\ entry' = IF Running(i) THEN [entry EXCEPT ![i] = Entering(@, c, token)] ELSE entry
       /\ caller' = [caller EXCEPT ![c] = Entered(i, token, ~Running(i))]
  /\ UNCHANGED <<total, sent>>

(* getBlame of a key it does not hold: what it supersedes is cancelled, the  *)
(* request is sent and the budget is kept.                                   *)
Request(c, k, token) ==
  /\ ~Waiting(c) /\ sent < MaxRequests
  /\ \A i \in Cached : entry[i].key # k
  /\ sent' = sent + 1
  /\ LET dead == Superseded(k)
         stopped == {i \in dead : Running(i)}
         new == [Unused EXCEPT !.key = k, !.state = "running"]
         left == Settled(entry, stopped, "dropped")
     IN /\ entry' = [left EXCEPT ![sent + 1] = Entering(new, c, token)]
        /\ Evict(entry', Append(Without(lru, dead), sent + 1),
                 total - SumBytes(entry, Only(lru, dead)))
        /\ caller' = [Told(caller, stopped, "told") EXCEPT
                        ![c] = Entered(sent + 1, token, FALSE)]

(* Nobody waits for the request any more.                                    *)
MutDeserted(e) == e.waiters = {}
Deserted(e) == e.waiters = {} /\ ~e.pinned

(* A caller's token fires: it stops waiting, and the last one to leave       *)
(* starts the grace period.                                                  *)
MutLeave(c) ==
  /\ caller[c].state = "waiting"
  /\ entry' = [entry EXCEPT ![caller[c].id].waiters = @ \ {c}]
  /\ caller' = [caller EXCEPT ![c] = [state |-> "told", id |-> 0]]
  /\ UNCHANGED <<lru, total, sent>>
Leave(c) ==
  /\ caller[c].state = "waiting"
  /\ LET i == caller[c].id
         e == [entry[i] EXCEPT !.waiters = @ \ {c}]
     IN entry' = [entry EXCEPT ![i] = [e EXCEPT !.timer = @ \/ Deserted(e)]]
  /\ caller' = [caller EXCEPT ![c] = [state |-> "told", id |-> 0]]
  /\ UNCHANGED <<lru, total, sent>>

(* abandonTimer: cancels the request unless someone came back.               *)
Abandon(i) ==
  /\ Running(i) /\ entry[i].timer
  /\ IF Deserted(entry[i])
     THEN /\ entry' = Settled(entry, {i}, "dropped")
          /\ lru' = Without(lru, {i})
          /\ caller' = Told(caller, {i}, "abandoned")
     ELSE /\ entry' = [entry EXCEPT ![i].timer = FALSE]
          /\ UNCHANGED <<lru, caller>>
  /\ UNCHANGED <<total, sent>>

(* The engine answers: every caller is served, and an entry still in the     *)
(* cache is charged for.                                                     *)
Charged(i) == i \in Cached
Answer(i) ==
  /\ Running(i)
  /\ \E b \in Sizes :
       LET done == Settled(entry, {i}, "answered")
           size == IF Charged(i) THEN b ELSE 0
       IN /\ entry' = [done EXCEPT ![i].bytes = size]
          /\ IF Charged(i) THEN Evict(entry', lru, total + size)
             ELSE UNCHANGED <<lru, total>>
  /\ caller' = Told(caller, {i}, "told")
  /\ UNCHANGED sent

(* A failed request, or one answered for another buffer, is not kept.        *)
Fail(i) ==
  /\ Running(i)
  /\ entry' = Settled(entry, {i}, "dropped")
  /\ lru' = Without(lru, {i})
  /\ caller' = Told(caller, {i}, "told")
  /\ UNCHANGED <<total, sent>>

(* invalidate(), invalidatePath(), invalidateSaved(): everything of the file *)
(* goes, and what still runs is cancelled.                                   *)
Stopped == {i \in Cached : Running(i)}
Invalidate ==
  /\ lru # <<>>
  /\ entry' = Settled(entry, Stopped, "dropped")
  /\ lru' = <<>> /\ total' = total - SumBytes(entry, lru)
  /\ caller' = Told(caller, Stopped, "told")
  /\ UNCHANGED sent

GetBlame == \E c \in Callers, k \in Keys, t \in Tokens : Rejoin(c, k, t) \/ Request(c, k, t)

Next ==
  \/ GetBlame
  \/ \E c \in Callers : Leave(c)
  \/ \E i \in Ids : Abandon(i) \/ Answer(i) \/ Fail(i)
  \/ Invalidate

Spec == Init /\ [][Next]_vars

-----------------------------------------------------------------------------
(* Every variable holds a value of its kind.                                 *)
TypeOK ==
  /\ entry \in [Ids -> [key : Keys, bytes : Nat, waiters : SUBSET Callers,
                        state : {"unused", "running", "answered", "dropped"},
                        pinned : BOOLEAN, timer : BOOLEAN, joined : BOOLEAN]]
  /\ Cached \subseteq 1 .. sent /\ total \in Nat /\ sent \in 0 .. MaxRequests
  /\ caller \in [Callers -> [id : 0 .. sent,
                             state : {"idle", "waiting", "pinning", "told", "abandoned"}]]

(* totalBytes is the size of what the cache holds, and both budgets are met  *)
(* whenever more than one entry is cached (request, remove, evictToBudget).  *)
BytesExact == total = SumBytes(entry, lru)
BudgetHeld == Len(lru) > 1 => Fits(entry, lru)
AccountKept == TypeOK /\ BytesExact /\ BudgetHeld

(* A caller waits only for a request that still runs, and that request       *)
(* counts it: nobody waits for an answer that came, failed or was cancelled. *)
(* And no caller's cancellation reaches another: one that has not left is    *)
(* never told its request was abandoned (join, scheduleAbandon).             *)
WaitersCounted ==
  \A c \in Callers :
    Waiting(c) => /\ Running(caller[c].id)
                  /\ caller[c].state = "waiting" <=> c \in entry[caller[c].id].waiters
                  /\ caller[c].state = "pinning" => entry[caller[c].id].pinned
NeverAbandoned == \A c \in Callers : caller[c].state # "abandoned"

(* Were the engine never to answer, a request that everyone who joined it    *)
(* has left would still come to an end: it has a grace timer, which nothing  *)
(* but its end or a caller's coming back stops (scheduleAbandon).  (One      *)
(* begun by a caller whose token was dead already has been joined by nobody, *)
(* and no timer is ever started for it.)                                     *)
DesertedTimed ==
  \A i \in Ids : Running(i) /\ entry[i].joined /\ Deserted(entry[i]) => entry[i].timer

(* No caller is left waiting, none costs another its answer, and no request  *)
(* runs on for nobody.                                                       *)
CallersKept == WaitersCounted /\ NeverAbandoned /\ DesertedTimed
=============================================================================
