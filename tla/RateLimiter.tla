----------------------------- MODULE RateLimiter -----------------------------
(***************************************************************************)
(* The requests to one forge (src/packages/integrations/src/rateLimiter.ts): each *)
(* waits for its turn and a token before it is sent, and the headers of each      *)
(* answer may hold back the next.                                             *)
(*                                                                          *)
(* Times are kept as what is left of them, in ticks, so that time has no bound,   *)
(* and -1 stands for any time that has passed;                                *)
(* a token is Parts parts, of which the refill rate adds one per tick.  A timer   *)
(* fires on time: no tick passes while a sleeper is due or a turn is pending.      *)
(***************************************************************************)
EXTENDS Integers

CONSTANTS
  Callers,
  Capacity, Parts,
  MaxWait,     \* maxWaitMs
  Low,         \* fewer remaining requests than this are spaced out
  Backoff,     \* what an answer without a reset time is taken to say
  Headers,     \* the rate-limit headers of an answer
  NONE

Header == [retry : Nat, remaining : Nat \cup {NONE}, reset : Nat \cup {NONE}]

ASSUME RateLimiterAssumption ==
  /\ {Capacity, Parts, Low} \subseteq Nat \ {0} /\ {MaxWait, Backoff} \subseteq Nat
  /\ Headers \subseteq Header /\ NONE \notin Nat \cup Callers

VARIABLES
  tokens, since,          \* parts in the bucket at the last refill, and ticks since
  blocked, spacing, next, \* blockedUntil, spacingMs, nextAllowedAt
  tail,                   \* the caller whose promise is the queue's tail, if pending
  pc, ahead, patience, due, aborted

hostVars == <<tokens, since, blocked, spacing, next>>
vars == <<hostVars, tail, pc, ahead, patience, due, aborted>>

Full == Capacity * Parts
Least(a, b) == IF a < b THEN a ELSE b
Most(a, b) == IF a > b THEN a ELSE b
Less(n) == IF n > 0 THEN n - 1 ELSE 0

Init ==
  /\ tokens = Full /\ since = 0
  /\ blocked = 0 /\ spacing = 0 /\ next = 0 /\ tail = NONE
  /\ pc = [c \in Callers |-> "idle"] /\ ahead = [c \in Callers |-> NONE]
  /\ patience = [c \in Callers |-> 0] /\ due = [c \in Callers |-> 0]
  /\ aborted = [c \in Callers |-> FALSE]

Waiting(c) == pc[c] \in {"queued", "asleep"}

-----------------------------------------------------------------------------
(* acquire(), up to await ahead. *)
Arrive(c) ==
  /\ pc[c] = "idle"
  /\ pc' = [pc EXCEPT ![c] = "queued"]
  /\ patience' = [patience EXCEPT ![c] = MaxWait]
  /\ ahead' = [ahead EXCEPT ![c] = tail] /\ tail' = c
  /\ aborted' = [aborted EXCEPT ![c] = FALSE]
  /\ UNCHANGED <<hostVars, due>>

Forgotten(c) ==
  /\ patience' = [patience EXCEPT ![c] = 0] /\ due' = [due EXCEPT ![c] = 0]
  /\ aborted' = [aborted EXCEPT ![c] = FALSE]

(* The signal: a sleeper rejects at once, a queued caller when its turn comes. *)
MutLeave(c, to) ==
  /\ pc' = [pc EXCEPT ![c] = to]
  /\ Forgotten(c)
  /\ IF to = "sent"
       THEN /\ ahead' = [d \in Callers |-> IF ahead[d] = c THEN NONE ELSE ahead[d]]
            /\ tail' = IF tail = c THEN NONE ELSE tail
       ELSE UNCHANGED <<ahead, tail>>

(* The promise of a caller is settled whichever way it leaves. *)
Leave(c, to) ==
  /\ pc' = [pc EXCEPT ![c] = to]
  /\ Forgotten(c)
  /\ ahead' = [d \in Callers |-> IF ahead[d] = c THEN NONE ELSE ahead[d]]
  /\ tail' = IF tail = c THEN NONE ELSE tail

MutAbortQueued(c) == Leave(c, "idle")

AbortQueued(c) ==
  /\ aborted' = [aborted EXCEPT ![c] = TRUE]
  /\ UNCHANGED <<pc, ahead, tail, patience, due>>

Abort(c) ==
  /\ Waiting(c) /\ ~aborted[c]
  /\ \/ pc[c] = "asleep" /\ Leave(c, "idle")
     \/ pc[c] = "queued" /\ AbortQueued(c)
  /\ UNCHANGED hostVars

-----------------------------------------------------------------------------
(* One round of acquire's loop, after await ahead or a sleep. *)
Ready(c) == \/ pc[c] = "queued" /\ ahead[c] = NONE
            \/ pc[c] = "asleep" /\ due[c] = 0

Level == Least(Full, tokens + since)
HeldBack == IF blocked > 0 THEN blocked ELSE next

MutRefilled == UNCHANGED since

Refilled == since' = 0

GivesUp(c) ==
  /\ Ready(c) /\ aborted[c] /\ Leave(c, "idle")
  /\ UNCHANGED hostVars

Admit(c) ==
  /\ Ready(c) /\ ~aborted[c] /\ HeldBack = 0 /\ Level >= Parts
  /\ tokens' = Level - Parts /\ Refilled
  /\ next' = spacing
  /\ Leave(c, "sent")
  /\ UNCHANGED <<blocked, spacing>>

Wait == IF HeldBack > 0 THEN HeldBack ELSE Parts - Level

Postpone(c) ==
  /\ Ready(c) /\ ~aborted[c] /\ (HeldBack > 0 \/ Level < Parts)
  /\ IF HeldBack > 0 THEN UNCHANGED <<tokens, since>> ELSE tokens' = Level /\ Refilled
  /\ IF Wait > patience[c]
       THEN Leave(c, "idle")
       ELSE /\ pc' = [pc EXCEPT ![c] = "asleep"] /\ due' = [due EXCEPT ![c] = Wait]
            /\ UNCHANGED <<ahead, tail, patience, aborted>>
  /\ UNCHANGED <<blocked, spacing, next>>

Turn(c) == GivesUp(c) \/ Admit(c) \/ Postpone(c)

-----------------------------------------------------------------------------
(* The answer, and updateFromHeaders; a request that fails has no headers. *)
Window(h) == IF h.reset = NONE THEN Backoff ELSE h.reset

Answer(c, h) ==
  /\ pc[c] = "sent" /\ pc' = [pc EXCEPT ![c] = "idle"]
  /\ blocked' = Most(blocked, Most(h.retry, IF h.remaining = 0 THEN Window(h) ELSE 0))
  /\ spacing' = IF h.remaining \in {NONE, 0} THEN spacing
                ELSE IF h.remaining < Low THEN Window(h) \div h.remaining ELSE 0
  /\ UNCHANGED <<tokens, since, next, tail, ahead, patience, due, aborted>>

Fails(c) ==
  /\ pc[c] = "sent" /\ pc' = [pc EXCEPT ![c] = "idle"]
  /\ UNCHANGED <<hostVars, tail, ahead, patience, due, aborted>>

-----------------------------------------------------------------------------
Tick ==
  /\ \A c \in Callers : ~Ready(c)
  /\ since' = Least(Full, since + 1)
  /\ blocked' = Less(blocked) /\ next' = Less(next)
  /\ patience' = [c \in Callers |-> IF Waiting(c) THEN Most(-1, patience[c] - 1) ELSE 0]
  /\ due' = [c \in Callers |-> Less(due[c])]
  /\ UNCHANGED <<tokens, spacing, tail, pc, ahead, aborted>>

Next ==
  \/ \E c \in Callers :
       \/ Arrive(c) \/ Abort(c) \/ Turn(c) \/ Fails(c)
       \/ \E h \in Headers : Answer(c, h)
  \/ Tick

(* Time passes however much else happens. *)
Fairness == SF_vars(Tick) /\ \A c \in Callers : WF_vars(Turn(c))
Spec == Init /\ [][Next]_vars /\ Fairness

-----------------------------------------------------------------------------
(* One caller at most sleeps or has its turn, it is the one that has waited
   longest, and no caller waits past its deadline: also after callers before it
   gave up, were refused or were held back again by an answer that arrived while
   they slept (RateLimiter.acquire). *)
TurnsInOrder ==
  /\ \A c, d \in {x \in Callers : Waiting(x)} :
       (pc[c] = "asleep" \/ Ready(c)) /\ c # d
         => pc[d] = "queued" /\ ~Ready(d) /\ patience[c] <= patience[d]
  /\ \A c \in Callers : Waiting(c) => patience[c] >= 0

(* The lazily filled bucket sends no request a bucket filled at every tick would
   not have sent (RateLimiter.refill). *)
Bucket == INSTANCE TokenBucket WITH level <- Level
ImplementsBucket == Bucket!Spec

(* Every caller is admitted, refused or aborted, whatever happens to those before
   it (the finally of RateLimiter.acquire). *)
EveryCallerLeaves == \A c \in Callers : Waiting(c) ~> ~Waiting(c)
=============================================================================
