------------------------------ MODULE MCClient ------------------------------
(* The engine client and the blame model, which makes its requests, side by   *)
(* side for TLC: a run chooses one, and the other stays away.                 *)
EXTENDS EngineClient, TLC

CONSTANTS
  r1, r2, c1, c2, k1, k2, b1, b2,
  Callers, Versions, Tokens, MaxRequests, MaxEntries, MaxBytes, Sizes   \* BlameModel

Host(auto, calls, cancels, prompts, maxCrashes, generations) ==
  [autoStart |-> auto, calls |-> calls, cancels |-> cancels, prompts |-> prompts,
   maxCrashes |-> maxCrashes, generations |-> generations]

\* The extension starts its engine on activation and restarts it on demand; a
\* prompt may come in each engine's life, for either of two requests, or two that
\* overlap.
Extension == {Host(FALSE, {r1, c1}, {}, {k1}, 1, 2), Host(FALSE, {r1, c1}, {}, {}, 1, 3),
              Host(FALSE, {r1}, {r1}, {k1, k2}, 0, 1), Host(FALSE, {r1, r2}, {}, {k1}, 0, 1)}

\* The MCP server starts it with the first request; restarts may overtake each
\* other, and crashes follow each other.
McpServer == {Host(TRUE, {r1, c1, c2}, {r1}, {}, 0, 4), Host(TRUE, {r1, r2}, {}, {}, 1, 3)}

\* Requests are interchangeable: what one of them does, another does as well.
Swapped(S) == {IF x = r1 THEN r2 ELSE IF x = r2 THEN r1 ELSE x : x \in S}
Other(h) == [h EXCEPT !.calls = Swapped(@), !.cancels = Swapped(@)]
Everyone == UNION {{h, Other(h)} : h \in Extension \cup McpServer}

VARIABLES
  subject,      \* the component at work: the others are away
  blameEntry, blameLru, blameTotal, blameSent, blameCaller

Blame == INSTANCE BlameModel WITH
  entry <- blameEntry, lru <- blameLru, total <- blameTotal, sent <- blameSent,
  caller <- blameCaller

BlameVars == <<blameEntry, blameLru, blameTotal, blameSent, blameCaller>>

BlameAway ==
  /\ blameEntry = 0 /\ blameLru = 0 /\ blameTotal = 0 /\ blameSent = 0 /\ blameCaller = 0
ClientAway == Init /\ host.calls = {r1, c1, c2}

Begins ==
  \/ subject = "client" /\ Init /\ BlameAway
  \/ subject = "blame" /\ Blame!Init /\ ClientAway

Others(here) ==
  /\ UNCHANGED subject
  /\ IF here = "client" THEN TRUE ELSE UNCHANGED vars
  /\ IF here = "blame" THEN TRUE ELSE UNCHANGED BlameVars

Step ==
  \/ subject = "client" /\ Next /\ Others("client")
  \/ subject = "blame" /\ Blame!Next /\ Others("blame")

AllVars == <<subject, vars, BlameVars>>

AllSpec == Begins /\ [][Step]_AllVars

-----------------------------------------------------------------------------
ASSUME BlameAssumed == Blame!ConstantsAssumption

\* Requests are interchangeable, and so are the callers of the blame model.
Interchangeable == Permutations({r1, r2}) \cup Permutations({b1, b2})

\* No caller of the blame model is left waiting or costs another its answer, a
\* request nobody waits for has a timer to end it, and the byte count is that of
\* the entries (blameModel.ts).
CallersServed == subject = "blame" => Blame!AccountKept /\ Blame!CallersKept
=============================================================================
