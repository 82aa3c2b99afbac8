------------------------------ MODULE MCTimers ------------------------------
(* Two components that live by timers, side by side for TLC: the rate limiter *)
(* of the hosting integrations and the engine client.  A run chooses one, and *)
(* the other stays as it began.                                               *)
EXTENDS RateLimiter

CONSTANTS r1, d1, d2, k1

\* What a response says of the budget.
MCHeaders == {[retry |-> 0, remaining |-> NONE, reset |-> NONE],
              [retry |-> 2, remaining |-> NONE, reset |-> NONE],
              [retry |-> 0, remaining |-> 0, reset |-> NONE],
              [retry |-> 0, remaining |-> 1, reset |-> 2],
              [retry |-> 0, remaining |-> 2, reset |-> 2]}

\* The extension, once with a restart and once with a prompt; and the MCP server,
\* whose engine starts with a request, once with restarts that overtake each other.
Host(auto, calls, cancels, prompts, maxCrashes, generations) ==
  [autoStart |-> auto, calls |-> calls, cancels |-> cancels, prompts |-> prompts,
   maxCrashes |-> maxCrashes, generations |-> generations]

Few == {Host(FALSE, {r1, d1}, {}, {}, 1, 2), Host(FALSE, {r1}, {r1}, {k1}, 1, 2),
        Host(TRUE, {d1, d2}, {}, {}, 0, 3), Host(TRUE, {r1}, {r1}, {}, 1, 3)}

VARIABLES
  subject,      \* the component at work: the others are away
  clientHost, clientGeneration, clientProc, clientAlive, clientReady, clientSpawn,
  clientArmed, clientRespawnTimer, clientCrashes, clientGaveUp, clientDisposed,
  clientOutcome, clientHome, clientTimer, clientPauses, clientWaitsOn, clientWithdrawn,
  clientInbound, clientPrompt, clientAsksFor

Client == INSTANCE EngineClient WITH
  Requests <- {r1}, Restarts <- {d1, d2}, Prompts <- {k1}, MaxGenerations <- 3,
  Hosts <- Few, host <- clientHost, generation <- clientGeneration, proc <- clientProc,
  alive <- clientAlive, ready <- clientReady, spawn <- clientSpawn, armed <- clientArmed,
  respawnTimer <- clientRespawnTimer, crashes <- clientCrashes, gaveUp <- clientGaveUp,
  disposed <- clientDisposed, outcome <- clientOutcome, home <- clientHome,
  timer <- clientTimer, pauses <- clientPauses, waitsOn <- clientWaitsOn,
  withdrawn <- clientWithdrawn, inbound <- clientInbound, prompt <- clientPrompt,
  asksFor <- clientAsksFor

ClientVars == <<clientHost, clientGeneration, clientProc, clientAlive, clientReady, clientSpawn,
  clientArmed, clientRespawnTimer, clientCrashes, clientGaveUp, clientDisposed,
  clientOutcome, clientHome, clientTimer, clientPauses, clientWaitsOn, clientWithdrawn,
  clientInbound, clientPrompt, clientAsksFor>>

ClientAway == Client!Init /\ clientHost.calls = {d1, d2}
LimiterAway == Init

Begins ==
  \/ subject = "limiter" /\ Init /\ ClientAway
  \/ subject = "client" /\ Client!Init /\ LimiterAway

Others(here) ==
  /\ UNCHANGED subject
  /\ IF here = "limiter" THEN TRUE ELSE UNCHANGED vars
  /\ IF here = "client" THEN TRUE ELSE UNCHANGED ClientVars

Step ==
  \/ subject = "limiter" /\ Next /\ Others("limiter")
  \/ subject = "client" /\ Client!Next /\ Others("client")

\* RateLimiter!Fairness and EngineClient!Fairness, of the one at work.
AllFairness ==
  /\ SF_vars(subject = "limiter" /\ Tick)
  /\ \A c \in Callers : WF_vars(subject = "limiter" /\ Turn(c))
  /\ WF_ClientVars(subject = "client" /\ Client!Continue)
  /\ \A g \in Client!Engines :
       /\ WF_ClientVars(subject = "client" /\ (Client!StartDone(g) \/ Client!StartFails(g)))
       /\ WF_ClientVars(subject = "client" /\ Client!RespawnFires(g))
       /\ WF_ClientVars(subject = "client" /\ Client!PromptWithdrawn(g, k1))
       /\ WF_ClientVars(subject = "client" /\ clientPrompt[g][k1] = "cancelled" /\ Client!PromptSettles(g, k1))
  /\ \A i \in Client!Ids : WF_ClientVars(subject = "client" /\ Client!Deadline(i))

AllVars == <<subject, vars, ClientVars>>

AllSpec == Begins /\ [][Step]_AllVars /\ AllFairness

-----------------------------------------------------------------------------
\* Every request and restart settles, and an engine that exits is replaced
\* (engineClient.ts).
ClientSettles == Client!ClientSettles
=============================================================================
