------------------------------ MODULE TtlCache ------------------------------
(***************************************************************************)
(* TtlCache (src/packages/integrations/src/cache.ts) as its users share it: the    *)
(* pull requests of the launchpad, whose forced refresh deletes the key and reads    *)
(* it again at once, the answers and identities each provider keeps, which are       *)
(* bounded, and the chips of branches, which a change of the connections clears.      *)
(*                                                                          *)
(* A value stands for the fetch that brought it, of which `began` says when it       *)
(* started, counted in the drops of its key.  What a drop is for is that nothing      *)
(* fetched before it is shown after it.                                          *)
(***************************************************************************)
EXTENDS Integers, SequencesExt

CONSTANTS
  Keys, Readers, Fetches,
  MaxEntries,     \* maxEntries
  MaxDrops,       \* bound on deletes and clears
  NONE

TtlCacheAssumption ==
  /\ MaxEntries \in Nat \ {0} /\ MaxDrops \in Nat
  /\ NONE \notin Keys \cup Readers \cup Fetches \cup Nat \cup [key : Keys, began : Nat]

Ages == {"fresh", "stale", "expired"}

VARIABLES
  entries,    \* as a sequence, the least recently written first
  inflight,   \* of each key, the fetch that owns it
  fetching,   \* of each fetch under way, its key and `began`
  drops,      \* how often each key has been dropped
  reader      \* the reads: key, drops of the key when it was asked, fetch awaited, answer

vars == <<entries, inflight, fetching, drops, reader>>

Idle == [key |-> NONE, since |-> 0, on |-> NONE, got |-> NONE]

Init ==
  /\ entries = <<>> /\ inflight = [k \in Keys |-> NONE]
  /\ fetching = [f \in Fetches |-> NONE]
  /\ drops = [k \in Keys |-> 0] /\ reader = [r \in Readers |-> Idle]

(* A key has one entry. *)
Held(k) == \E i \in DOMAIN entries : entries[i].key = k
At(k) == CHOOSE i \in DOMAIN entries : entries[i].key = k
EntryOf(k) == entries[At(k)]
Without(k) == IF Held(k) THEN RemoveAt(entries, At(k)) ELSE entries

-----------------------------------------------------------------------------
(* refresh: a fetch under way for the key is shared, else one begins. *)
Join(k, f) ==
  /\ IF inflight[k] # NONE
       THEN f = inflight[k] /\ UNCHANGED <<inflight, fetching>>
       ELSE /\ fetching[f] = NONE
            /\ fetching' = [fetching EXCEPT ![f] = [key |-> k, began |-> drops[k]]]
            /\ inflight' = [inflight EXCEPT ![k] = f]

(* getOrFetch *)
Read(r, k) ==
  /\ reader[r].key = NONE
  /\ LET entry == EntryOf(k)
         asked == [Idle EXCEPT !.key = k, !.since = drops[k]]
     IN \/ /\ Held(k) /\ entry.age = "fresh"
           /\ reader' = [reader EXCEPT ![r] = [asked EXCEPT !.got = entry.began]]
           /\ UNCHANGED <<inflight, fetching>>
        \/ /\ Held(k) /\ entry.age = "stale"
           /\ reader' = [reader EXCEPT ![r] = [asked EXCEPT !.got = entry.began]]
           /\ \E f \in Fetches : Join(k, f)
        \/ /\ Held(k) => entry.age = "expired"
           /\ \E f \in Fetches :
                /\ Join(k, f)
                /\ reader' = [reader EXCEPT ![r] = [asked EXCEPT !.on = f]]
  /\ UNCHANGED <<entries, drops>>

Done(r) ==
  /\ reader[r].got # NONE
  /\ reader' = [reader EXCEPT ![r] = Idle]
  /\ UNCHANGED <<entries, inflight, fetching, drops>>

-----------------------------------------------------------------------------
MutOwns(f) == TRUE

Owns(f) == inflight[fetching[f].key] = f

(* store *)
Stored(k, began) ==
  LET written == Append(Without(k), [key |-> k, began |-> began, age |-> "fresh"])
  IN IF Len(written) > MaxEntries THEN Tail(written) ELSE written

(* The fetcher's promise settles; its readers are answered, or its error reaches
   them. *)
Settle(f, ok) ==
  /\ fetching[f] # NONE
  /\ entries' = IF ok /\ Owns(f) THEN Stored(fetching[f].key, fetching[f].began) ELSE entries
  /\ inflight' = IF Owns(f) THEN [inflight EXCEPT ![fetching[f].key] = NONE] ELSE inflight
  /\ fetching' = [fetching EXCEPT ![f] = NONE]
  /\ reader' = [r \in Readers |->
       IF reader[r].on # f THEN reader[r]
       ELSE IF ok THEN [reader[r] EXCEPT !.on = NONE, !.got = fetching[f].began] ELSE Idle]
  /\ UNCHANGED drops

Age(k) ==
  /\ Held(k) /\ EntryOf(k).age # "expired"
  /\ entries' = [i \in DOMAIN entries |->
       IF entries[i].key = k
         THEN [entries[i] EXCEPT !.age = IF @ = "fresh" THEN "stale" ELSE "expired"]
         ELSE entries[i]]
  /\ UNCHANGED <<inflight, fetching, drops, reader>>

(* What delete and clear do besides dropping entries. *)
Forgotten(ks) ==
  /\ \A k \in ks : drops[k] < MaxDrops
  /\ inflight' = [k \in Keys |-> IF k \in ks THEN NONE ELSE inflight[k]]
  /\ drops' = [k \in Keys |-> IF k \in ks THEN drops[k] + 1 ELSE drops[k]]
  /\ UNCHANGED <<fetching, reader>>

Delete(k) == entries' = Without(k) /\ Forgotten({k})
Clear == entries' = <<>> /\ Forgotten(Keys)

Next ==
  \/ \E r \in Readers : Done(r) \/ \E k \in Keys : Read(r, k)
  \/ \E f \in Fetches, ok \in BOOLEAN : Settle(f, ok)
  \/ \E k \in Keys : Age(k) \/ Delete(k)
  \/ Clear

Spec == Init /\ [][Next]_vars

-----------------------------------------------------------------------------
(* A read is answered with what was fetched after the key was last dropped before
   the read, whether from an entry, fresh or stale, or from a fetch under way; a
   fetch that was under way at the drop leaves no entry when it ends
   (TtlCache.getOrFetch, refresh and delete). *)
FreshAfterDrop ==
  /\ \A r \in Readers : reader[r].got # NONE => reader[r].got >= reader[r].since
  /\ \A e \in ToSet(entries) : e.began = drops[e.key]
=============================================================================
