------------------------------ MODULE BlameCache ------------------------------
(* The engine's blame cache (blame_cache) and the fill that uses it           *)
(* (BlameService::blame), for one path, with worker threads that fill it at   *)
(* once while the repository changes under them.                              *)
(*                                                                            *)
(* A blame reads three inputs: the commit HEAD names, the contents of the     *)
(* file, and the mailmap and ignore-revs files.  The key is built from them   *)
(* first, one after another; git (or libgit2) reads them again afterwards.  A *)
(* request for a revision reads a commit that cannot change and a blob that   *)
(* cannot either, but the mailmap and ignore-revs files all the same.         *)
EXTENDS Integers, SequencesExt, FiniteSetsExt

CONSTANTS
  Workers,     \* worker threads blaming this path
  Values,      \* values each input may have
  MaxChanges,  \* bound on changes to the repository
  Budget,      \* the cache's byte budget
  Sizes        \* byteSize() of results

ConstantsAssumption ==
  /\ MaxChanges \in Nat /\ Budget \in Nat /\ Sizes \subseteq Nat /\ Values # {}

Inputs == {"head", "file", "extra"}
World == [Inputs -> Values]
NoResult == [key |-> <<>>, about |-> <<>>, bytes |-> 0, clean |-> FALSE]

VARIABLES
  world,    \* what the repository holds now
  changes,  \* how often it changed
  lru,      \* keys, most recent first
  entries,  \* key -> result, only for the keys of lru
  used,     \* BlameCache::used_
  worker    \* each thread's blame

vars == <<world, changes, lru, entries, used, worker>>

Idle == [pc |-> "idle", kind |-> "worktree", todo |-> Inputs, key |-> <<>>,
         about |-> <<>>, clean |-> TRUE]

Init ==
  /\ world \in {w \in World : \A i, j \in Inputs : w[i] = w[j]}
  /\ changes = 0
  /\ lru = <<>> /\ entries = <<>> /\ used = 0
  /\ worker = [w \in Workers |-> Idle]

Cached == Range(lru)
SumBytes(es, s) ==
  LET sum[n \in 0 .. Len(s)] == IF n = 0 THEN 0 ELSE sum[n - 1] + es[s[n]].bytes
  IN  sum[Len(s)]

(* What a request of this kind can see change.                               *)
Sees(kind) == IF kind = "worktree" THEN Inputs ELSE {"extra"}

-----------------------------------------------------------------------------
(* The repository changes: a commit or checkout moves HEAD, the file is      *)
(* saved, a mailmap or ignore-revs file is edited.                           *)
Change ==
  /\ changes < MaxChanges /\ changes' = changes + 1
  /\ \E i \in Inputs, v \in Values :
       /\ v # world[i]
       /\ world' = [world EXCEPT ![i] = v]
       /\ worker' = [w \in Workers |->
                       IF worker[w].pc # "idle" /\ i \in Sees(worker[w].kind)
                       THEN [worker[w] EXCEPT !.clean = FALSE] ELSE worker[w]]
  /\ UNCHANGED <<lru, entries, used>>

(* A blame begins; `about` and `key` fill up as the inputs are read.         *)
Begin(w) ==
  /\ worker[w].pc = "idle"
  /\ \E kind \in {"worktree", "revision"} :
       worker' = [worker EXCEPT ![w] = [Idle EXCEPT !.pc = "keying", !.kind = kind,
                                          !.key = world, !.about = world]]
  /\ UNCHANGED <<world, changes, lru, entries, used>>

(* inputsDigest, then resolveOids: HEAD, then the hash of the file.          *)
Order == <<"extra", "head", "file">>
Next1(todo) == Order[Min({i \in 1 .. 3 : Order[i] \in todo})]
Reads(old, i, kind) == IF i \in Sees(kind) THEN [old EXCEPT ![i] = world[i]] ELSE old

ReadForKey(w) ==
  /\ worker[w].pc = "keying" /\ worker[w].todo # {}
  /\ LET i == Next1(worker[w].todo)
     IN worker' = [worker EXCEPT ![w].todo = @ \ {i},
                                 ![w].key = Reads(@, i, worker[w].kind)]
  /\ UNCHANGED <<world, changes, lru, entries, used>>

(* The key a request is cached under.                                        *)
MutKeyOf(r) == [r.key EXCEPT !["extra"] = CHOOSE v \in Values : TRUE]
KeyOf(r) == r.key

(* Where a key is (Entry::lruPos), and the order once it is the most recent. *)
At(k) == CHOOSE n \in 1 .. Len(lru) : lru[n] = k
AtFront(k) == <<k>> \o (IF k \in Cached THEN RemoveAt(lru, At(k)) ELSE lru)

(* BlameCache::get: a hit is answered from the cache and becomes the most    *)
(* recent entry; a miss starts git.                                          *)
Lookup(w) ==
  /\ worker[w].pc = "keying" /\ worker[w].todo = {}
  /\ LET k == KeyOf(worker[w])
     IN \/ /\ k \in Cached
           /\ lru' = AtFront(k)
           /\ worker' = [worker EXCEPT ![w] = Idle]
        \/ /\ k \notin Cached
           /\ lru' = lru
           /\ worker' = [worker EXCEPT ![w].pc = "blaming", ![w].todo = Inputs]
  /\ UNCHANGED <<world, changes, entries, used>>

(* git reads its inputs when it pleases.                                     *)
GitReads(w) ==
  /\ worker[w].pc = "blaming"
  /\ \E i \in worker[w].todo :
       worker' = [worker EXCEPT ![w].todo = @ \ {i},
                                ![w].about = Reads(@, i, worker[w].kind)]
  /\ UNCHANGED <<world, changes, lru, entries, used>>

(* evictLocked: how many of the least recent entries go.                     *)
Evicted(es, s) ==
  Min({n \in 0 .. Len(s) : Len(s) - n <= 1
                           \/ SumBytes(es, SubSeq(s, 1, Len(s) - n)) <= Budget})

(* BlameCache::put, replacing what another thread filled in meanwhile.       *)
Before(k) == IF k \in Cached THEN used - entries[k].bytes ELSE used

Put(w) ==
  /\ worker[w].pc = "blaming" /\ worker[w].todo = {}
  /\ \E b \in Sizes :
       LET k == KeyOf(worker[w])
           result == [key |-> worker[w].key, about |-> worker[w].about, bytes |-> b,
                      clean |-> worker[w].clean]
           all == [x \in Cached \cup {k} |-> IF x = k THEN result ELSE entries[x]]
           order == AtFront(k)
           n == Evicted(all, order)
           kept == SubSeq(order, 1, Len(order) - n)
       IN /\ lru' = kept
          /\ entries' = [x \in Range(kept) |-> all[x]]
          /\ used' = Before(k) + b - SumBytes(all, SubSeq(order, Len(order) - n + 1, Len(order)))
  /\ worker' = [worker EXCEPT ![w] = Idle]
  /\ UNCHANGED <<world, changes>>

(* git failed, timed out or was cancelled: nothing is kept.                  *)
GiveUp(w) ==
  /\ worker[w].pc = "blaming"
  /\ worker' = [worker EXCEPT ![w] = Idle]
  /\ UNCHANGED <<world, changes, lru, entries, used>>

Step(w) == Begin(w) \/ ReadForKey(w) \/ Lookup(w) \/ GitReads(w) \/ Put(w) \/ GiveUp(w)
Next == Change \/ \E w \in Workers : Step(w)
Spec == Init /\ [][Next]_vars

-----------------------------------------------------------------------------
(* The list and the index of the cache hold the same keys, each once, with   *)
(* results of its kind, though threads fill the same key at once.            *)
TypeOK ==
  /\ world \in World /\ changes \in 0 .. MaxChanges
  /\ Cached \subseteq World /\ DOMAIN entries = Cached /\ IsInjective(lru)
  /\ \A k \in Cached : /\ entries[k].key \in World /\ entries[k].about \in World
                       /\ entries[k].bytes \in Sizes /\ entries[k].clean \in BOOLEAN
  /\ used \in Nat
  /\ \A w \in Workers : worker[w].pc \in {"idle", "keying", "blaming"}

(* used_ is the size of what is cached, and the budget is met whenever more  *)
(* than one result is cached (put, evictLocked).                             *)
UsedExact == used = SumBytes(entries, lru)
BudgetHeld == Len(lru) > 1 => used <= Budget
CacheExact == TypeOK /\ UsedExact /\ BudgetHeld

(* A result computed while nothing it reads changed is what its key says.    *)
(* (That entries are never stale, blame_cache.h, is more than this: a change *)
(* between the key and the blame leaves a result under another's key.)       *)
UndisturbedExact == \A k \in Cached : entries[k].clean => entries[k].about = k
=============================================================================
