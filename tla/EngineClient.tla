----------------------------- MODULE EngineClient -----------------------------
(***************************************************************************)
(* The client's side of the engine's life                                    *)
(* (src/packages/rpc/src/engineClient.ts): generations of engines behind     *)
(* fresh transports, the initialize handshake, crashes with a respawn timer   *)
(* and a limit, restart and dispose, requests with deadlines and cancellation *)
(* tokens, and the prompts an engine sends, which hold a deadline still.      *)
(*                                                                          *)
(* JavaScript runs to completion: one step is one callback.  Continuations    *)
(* of settled promises run before the next timer, message or exit, hence      *)
(* Idle.  this.transport is always that of the current generation, so it is   *)
(* not a variable of its own.  Delays are abstract: an armed timer may fire    *)
(* at any time.                                                              *)
(***************************************************************************)
EXTENDS Integers, FiniteSets

CONSTANTS
  Requests,       \* calls of request(), each made once
  Restarts,       \* calls of restart(), each made once
  Prompts,        \* ids an engine gives its own requests, the same in each
  MaxGenerations, \* bound on generations
  Hosts           \* the programs a client may be part of, see HostType

Askers == Requests \cup Restarts

(* A host's EngineClientOptions.autoStart, the calls it makes and those it may
   cancel, the prompts its engines send, MAX_CRASHES_IN_WINDOW, and a bound on
   generations. *)
HostType ==
  [autoStart : BOOLEAN, calls : SUBSET Askers, cancels : SUBSET Requests,
   prompts : SUBSET Prompts, maxCrashes : Nat, generations : 0..MaxGenerations]

(* Requests are told apart from restarts, and both from the numbers that stand for
   generations and for no request. *)
ASSUME ClientAssumption ==
  /\ MaxGenerations \in Nat /\ IsFiniteSet(Prompts) /\ Hosts \subseteq HostType
  /\ Requests \cap Restarts = {} /\ Askers \cap (0..MaxGenerations) = {}

VARIABLES
  host,          \* of Hosts
  generation,    \* this.generation
  proc,          \* each engine: "none", "up", "killed", "dead" or "unloaded"
  alive,         \* transportAlive
  ready,         \* the generation whose spawnEngine promise is cached, or 0
  spawn,         \* how far each generation's spawnEngine has come
  armed,         \* respawn timers running, by the generation whose exit armed them
  respawnTimer,  \* the timer this.respawnTimer names, or 0
  crashes,       \* crashTimes within CRASH_WINDOW_MS
  gaveUp, disposed,
  outcome,       \* of each request, and of each generation's initialize
  home,          \* the generation a request was sent to
  timer,         \* whether a request's deadline is running
  pauses,        \* Pending.pauses
  waitsOn,       \* the spawn a caller awaits
  withdrawn,     \* requests whose cancellation token has fired
  inbound,       \* the generation of the prompt this.inbound holds under an id
  prompt,        \* each engine's prompts: "none", "open", "cancelled", "settled"
  asksFor        \* the request whose deadline a prompt stopped

lifeVars == <<generation, proc, alive, ready, spawn>>
crashVars == <<armed, respawnTimer, crashes, gaveUp>>
requestVars == <<outcome, home, timer, pauses, waitsOn, withdrawn>>
promptVars == <<inbound, prompt, asksFor>>
vars == <<lifeVars, crashVars, requestVars, promptVars, disposed, host>>

Engines == 1..MaxGenerations
Ids == Requests \cup Engines      \* initialize of generation g has id g here
NoRequest == 0
Settled == {"answered", "refused", "restarted", "timedOut", "cancelled", "failed"}

Pending == {i \in Ids : outcome[i] = "pending"}

Init ==
  /\ generation = 0 /\ alive = FALSE /\ ready = 0
  /\ proc = [g \in Engines |-> "none"]
  /\ spawn = [g \in Engines |-> "none"]
  /\ armed = {} /\ respawnTimer = 0 /\ crashes = 0 /\ gaveUp = FALSE
  /\ disposed = FALSE /\ host \in Hosts
  /\ outcome = [i \in Ids \cup Restarts |-> "unsent"]
  /\ home = [i \in Ids |-> 0]
  /\ timer = [i \in Ids |-> FALSE]
  /\ pauses = [i \in Ids |-> 0]
  /\ waitsOn = [c \in Askers |-> 0]
  /\ withdrawn = {}
  /\ inbound = [k \in Prompts |-> 0]
  /\ prompt = [g \in Engines |-> [k \in Prompts |-> "none"]]
  /\ asksFor = [g \in Engines |-> [k \in Prompts |-> NoRequest]]

-----------------------------------------------------------------------------
(* What the promises settled so far still have to run. *)
HandshakeOver(g) == spawn[g] = "handshake" /\ outcome[g] \in Settled
SpawnOver(g) == g # 0 /\ spawn[g] \in {"ok", "failed"}
Resumable(c) == outcome[c] = "starting" /\ SpawnOver(waitsOn[c])
Idle == /\ \A g \in Engines : ~HandshakeOver(g)
        /\ \A c \in Askers : ~Resumable(c)

(* spawnEngine up to its first await, for generation g. *)
MutKilled(g) == proc

Killed(g) == [h \in Engines |-> IF h = g /\ proc[h] = "up" THEN "killed" ELSE proc[h]]

SpawnEngine(g) ==
  /\ g <= host.generations
  /\ generation' = g
  /\ proc' = [Killed(generation) EXCEPT ![g] = "up"]
  /\ spawn' = [spawn EXCEPT ![g] = "starting"]
  /\ ready' = g

(* send() of ids to the current engine, alive or not. *)
Stopped(ids) == [i \in Ids |-> IF i \in ids THEN FALSE ELSE timer[i]]

Sent(i, up) ==
  IF up
    THEN /\ outcome' = [outcome EXCEPT ![i] = "pending"]
         /\ home' = [home EXCEPT ![i] = generation]
         /\ timer' = [timer EXCEPT ![i] = TRUE]
    ELSE outcome' = [outcome EXCEPT ![i] = "restarted"] /\ UNCHANGED <<home, timer>>

(* failAllPending *)
AllFailed ==
  [i \in Ids \cup Restarts |-> IF outcome[i] = "pending" THEN "restarted" ELSE outcome[i]]

(* cancelInbound *)
PromptsCancelled ==
  [g \in Engines |-> [k \in Prompts |->
     IF inbound[k] = g /\ prompt[g][k] = "open" THEN "cancelled" ELSE prompt[g][k]]]

CancelInbound ==
  /\ prompt' = PromptsCancelled
  /\ inbound' = [k \in Prompts |-> 0]
  /\ UNCHANGED asksFor

-----------------------------------------------------------------------------
(* start() *)
MayTryAgain == gaveUp /\ crashes = 0

StartCall ==
  /\ IF (MayTryAgain \/ ready = 0) /\ ~disposed
       THEN SpawnEngine(generation + 1) ELSE UNCHANGED <<generation, proc, spawn, ready>>
  /\ gaveUp' = (gaveUp /\ ~MayTryAgain)
  /\ UNCHANGED <<alive, armed, respawnTimer, crashes>>

(* Without autoStart the host calls start() once, on activation. *)
Start ==
  /\ Idle /\ ~host.autoStart /\ generation = 0
  /\ StartCall
  /\ UNCHANGED <<requestVars, promptVars, disposed, host>>

(* transport.start() resolves: initialize goes to whichever engine is current. *)
StartDone(g) ==
  /\ Idle /\ spawn[g] = "starting"
  /\ alive' = (alive \/ g = generation)
  /\ spawn' = [spawn EXCEPT ![g] = "handshake"]
  /\ Sent(g, alive')
  /\ UNCHANGED <<generation, proc, ready, crashVars, pauses, waitsOn, withdrawn,
                 promptVars, disposed, host>>

(* It rejects, as a wasm module that does not load does. *)
StartFails(g) ==
  /\ Idle /\ spawn[g] = "starting"
  /\ spawn' = [spawn EXCEPT ![g] = "failed"]
  /\ proc' = [proc EXCEPT ![g] = "unloaded"]
  /\ UNCHANGED <<generation, alive, ready, crashVars, requestVars, promptVars,
                 disposed, host>>

(* spawnEngine after its handshake settled. *)
HandshakeEnds(g) ==
  /\ HandshakeOver(g)
  /\ IF outcome[g] = "answered"
       THEN /\ spawn' = [spawn EXCEPT ![g] = IF g = generation THEN "ok" ELSE "failed"]
            /\ UNCHANGED <<proc, alive, ready>>
       ELSE /\ spawn' = [spawn EXCEPT ![g] = "failed"]
            /\ proc' = Killed(g)
            /\ alive' = (alive /\ g # generation)
            /\ ready' = IF g = generation THEN 0 ELSE ready
  /\ UNCHANGED <<generation, crashVars, requestVars, promptVars, disposed, host>>

-----------------------------------------------------------------------------
(* The engine goes away; its transport reports it once. *)
IsCurrent(g) == ~disposed /\ g = generation

(* scheduleRespawn *)
TooMany == crashes + 1 > host.maxCrashes

ScheduleRespawn(g) ==
  /\ crashes' = crashes + 1
  /\ IF TooMany
       THEN gaveUp' = TRUE /\ UNCHANGED <<armed, respawnTimer>>
       ELSE armed' = armed \cup {g} /\ respawnTimer' = g /\ UNCHANGED gaveUp

Exit(g) ==
  /\ Idle /\ proc[g] \in {"up", "killed"} /\ spawn[g] # "starting"
  /\ proc' = [proc EXCEPT ![g] = "dead"]
  /\ IF IsCurrent(g)
       THEN /\ alive' = FALSE
            /\ outcome' = AllFailed /\ timer' = Stopped(Ids)
            /\ CancelInbound
            /\ ScheduleRespawn(g)
       ELSE UNCHANGED <<alive, outcome, timer, promptVars, crashVars>>
  /\ UNCHANGED <<generation, ready, spawn, home, pauses, waitsOn, withdrawn, disposed, host>>

RespawnFires(t) ==
  /\ Idle /\ t \in armed
  /\ armed' = armed \ {t} /\ respawnTimer' = 0
  /\ IF disposed THEN UNCHANGED <<generation, proc, spawn, ready>>
                 ELSE SpawnEngine(generation + 1)
  /\ UNCHANGED <<alive, crashes, gaveUp, requestVars, promptVars, disposed, host>>

(* A crash ages out of the window. *)
CrashAges ==
  /\ Idle /\ crashes > 0
  /\ crashes' = crashes - 1
  /\ UNCHANGED <<lifeVars, armed, respawnTimer, gaveUp, requestVars, promptVars, disposed, host>>

-----------------------------------------------------------------------------
(* clearRespawn stops only the timer this.respawnTimer names. *)
Cleared == armed \ {respawnTimer}

Restart(c) ==
  /\ Idle /\ c \in host.calls /\ outcome[c] = "unsent" /\ ~disposed
  /\ armed' = Cleared /\ respawnTimer' = 0
  /\ outcome' = [AllFailed EXCEPT ![c] = "starting"] /\ timer' = Stopped(Ids)
  /\ alive' = FALSE
  /\ CancelInbound
  /\ crashes' = 0 /\ gaveUp' = FALSE
  /\ SpawnEngine(generation + 2)
  /\ waitsOn' = [waitsOn EXCEPT ![c] = ready']
  /\ UNCHANGED <<home, pauses, withdrawn, disposed, host>>

(* A later restart replaced the spawn this one awaits. *)
Overtaken(c) == ready # waitsOn[c] /\ ready # 0 /\ ~disposed

RestartResumes(c) ==
  /\ c \in Restarts /\ Resumable(c)
  /\ IF spawn[waitsOn[c]] = "ok"
       THEN outcome' = [outcome EXCEPT ![c] = "answered"] /\ UNCHANGED waitsOn
     ELSE IF Overtaken(c)
       THEN waitsOn' = [waitsOn EXCEPT ![c] = ready] /\ UNCHANGED outcome
       ELSE outcome' = [outcome EXCEPT ![c] = "failed"] /\ UNCHANGED waitsOn
  /\ UNCHANGED <<lifeVars, crashVars, home, timer, pauses, withdrawn, promptVars, disposed, host>>

Dispose ==
  /\ Idle /\ ~disposed
  /\ disposed' = TRUE
  /\ armed' = Cleared /\ respawnTimer' = 0
  /\ outcome' = AllFailed /\ timer' = Stopped(Ids)
  /\ CancelInbound
  /\ proc' = Killed(generation)
  /\ UNCHANGED <<generation, alive, ready, spawn, crashes, gaveUp, home, pauses,
                 waitsOn, withdrawn, host>>

-----------------------------------------------------------------------------
(* request(): with autoStart it first awaits start(). *)
SendRequest(r) ==
  IF alive /\ r \in withdrawn
    THEN outcome' = [outcome EXCEPT ![r] = "cancelled"] /\ UNCHANGED <<home, timer>>
    ELSE Sent(r, alive)

Request(r) ==
  /\ Idle /\ r \in host.calls /\ outcome[r] = "unsent"
  /\ IF host.autoStart
       THEN /\ StartCall
            /\ outcome' = [outcome EXCEPT ![r] = IF ready' = 0 THEN "failed" ELSE "starting"]
            /\ waitsOn' = [waitsOn EXCEPT ![r] = ready']
            /\ UNCHANGED <<home, timer>>
       ELSE SendRequest(r) /\ UNCHANGED <<lifeVars, crashVars, waitsOn>>
  /\ UNCHANGED <<pauses, withdrawn, promptVars, disposed, host>>

RequestResumes(r) ==
  /\ r \in Requests /\ Resumable(r)
  /\ IF spawn[waitsOn[r]] = "ok"
       THEN SendRequest(r)
       ELSE outcome' = [outcome EXCEPT ![r] = "failed"] /\ UNCHANGED <<home, timer>>
  /\ UNCHANGED <<lifeVars, crashVars, pauses, waitsOn, withdrawn, promptVars, disposed, host>>

Settle(i, how) ==
  /\ outcome' = [outcome EXCEPT ![i] = how]
  /\ timer' = Stopped({i})
  /\ UNCHANGED <<lifeVars, crashVars, home, pauses, waitsOn, promptVars, disposed, host>>

MutHeeded(g) == ~disposed

(* Messages of an earlier generation's transport are dropped. *)
Heeded(g) == ~disposed /\ g = generation

(* handleMessage: an answer, in whatever order the engine gives them. *)
Answer(i) ==
  /\ Idle /\ outcome[i] = "pending" /\ Heeded(home[i])
  /\ \E how \in {"answered", "refused"} : Settle(i, how)
  /\ UNCHANGED withdrawn

(* The deadline passes. *)
Deadline(i) ==
  /\ Idle /\ outcome[i] = "pending" /\ timer[i]
  /\ Settle(i, "timedOut")
  /\ UNCHANGED withdrawn

CancelRequest(r) ==
  /\ Idle /\ r \in host.cancels \ withdrawn /\ outcome[r] \notin Settled
  /\ withdrawn' = withdrawn \cup {r}
  /\ IF outcome[r] = "pending" THEN Settle(r, "cancelled")
     ELSE UNCHANGED <<lifeVars, crashVars, outcome, home, timer, pauses, waitsOn,
                      promptVars, disposed, host>>

-----------------------------------------------------------------------------
(* answerEngineRequest: a prompt on behalf of request r stops r's deadline. *)
PromptArrives(g, k, r) ==
  /\ Idle /\ Heeded(g) /\ k \in host.prompts /\ prompt[g][k] = "none" /\ home[r] = g
  /\ prompt' = [prompt EXCEPT ![g][k] = "open"]
  /\ inbound' = [inbound EXCEPT ![k] = g]
  /\ IF outcome[r] = "pending"
       THEN /\ asksFor' = [asksFor EXCEPT ![g][k] = r]
            /\ pauses' = [pauses EXCEPT ![r] = @ + 1]
            /\ timer' = Stopped({r})
       ELSE UNCHANGED <<asksFor, pauses, timer>>
  /\ UNCHANGED <<lifeVars, crashVars, outcome, home, waitsOn, withdrawn, disposed, host>>

(* The engine withdraws its prompt. *)
PromptWithdrawn(g, k) ==
  /\ Idle /\ Heeded(g) /\ prompt[g][k] = "open" /\ inbound[k] # 0
  /\ prompt' = [prompt EXCEPT ![inbound[k]][k] = "cancelled"]
  /\ UNCHANGED <<lifeVars, crashVars, requestVars, inbound, asksFor, disposed, host>>

MutResumes(r) == TRUE

MutNeverResumes(r) == FALSE

(* The deadline runs again once the last prompt for its request is answered. *)
Resumes(r) == pauses[r] = 1

BeingAnswered(g, k) == prompt[g][k] \in {"open", "cancelled"}

(* this.inbound.get(key) === cancellation *)
MutOwns(g, k) == TRUE

Owns(g, k) == inbound[k] = g

(* A prompt's handler settles, once: the user answered, or it was cancelled. *)
PromptSettles(g, k) ==
  /\ Idle /\ BeingAnswered(g, k)
  /\ prompt' = [prompt EXCEPT ![g][k] = "settled"]
  /\ inbound' = IF Owns(g, k) THEN [inbound EXCEPT ![k] = 0] ELSE inbound
  /\ LET r == asksFor[g][k] IN
       IF r \in Pending
         THEN /\ pauses' = [pauses EXCEPT ![r] = @ - 1]
              /\ timer' = [timer EXCEPT ![r] = @ \/ Resumes(r)]
         ELSE UNCHANGED <<pauses, timer>>
  /\ UNCHANGED <<lifeVars, crashVars, outcome, home, waitsOn, withdrawn, asksFor, disposed, host>>

Continue ==
  \/ \E g \in Engines : HandshakeEnds(g)
  \/ \E c \in Askers : RestartResumes(c) \/ RequestResumes(c)

Next ==
  \/ Start \/ CrashAges \/ Dispose \/ Continue
  \/ \E g \in Engines : StartDone(g) \/ StartFails(g) \/ Exit(g) \/ RespawnFires(g)
  \/ \E c \in Restarts : Restart(c)
  \/ \E r \in Requests : Request(r) \/ CancelRequest(r)
  \/ \E i \in Ids : Answer(i) \/ Deadline(i)
  \/ \E g \in Engines, k \in Prompts :
       \/ \E r \in Requests : PromptArrives(g, k, r)
       \/ PromptWithdrawn(g, k) \/ PromptSettles(g, k)

(* The event loop runs continuations and armed timers, and a transport's start
   settles.  A user may never answer a prompt: the engine withdraws it when its
   own deadline for it passes, and a cancelled prompt's handler settles. *)
Fairness ==
  /\ WF_vars(Continue)
  /\ \A g \in Engines :
       /\ WF_vars(StartDone(g) \/ StartFails(g))
       /\ WF_vars(RespawnFires(g))
       /\ \A k \in Prompts :
            /\ WF_vars(PromptWithdrawn(g, k))
            /\ WF_vars(prompt[g][k] = "cancelled" /\ PromptSettles(g, k))
  /\ \A i \in Ids : WF_vars(Deadline(i))

Spec == Init /\ [][Next]_vars /\ Fairness

-----------------------------------------------------------------------------
(* Every variable holds a value of its kind. *)
TypeOK ==
  /\ generation \in 0..MaxGenerations /\ ready \in 0..MaxGenerations
  /\ proc \in [Engines -> {"none", "up", "killed", "dead", "unloaded"}]
  /\ spawn \in [Engines -> {"none", "starting", "handshake", "ok", "failed"}]
  /\ alive \in BOOLEAN /\ gaveUp \in BOOLEAN /\ disposed \in BOOLEAN
  /\ armed \subseteq Engines /\ respawnTimer \in 0..MaxGenerations
  /\ crashes \in 0..MaxGenerations /\ host \in Hosts
  /\ outcome \in [Ids \cup Restarts -> {"unsent", "starting", "pending"} \cup Settled]
  /\ home \in [Ids -> 0..MaxGenerations]
  /\ timer \in [Ids -> BOOLEAN]
  /\ pauses \in [Ids -> 0..Cardinality(Engines \X Prompts)]
  /\ waitsOn \in [Askers -> 0..MaxGenerations] /\ withdrawn \subseteq Requests
  /\ inbound \in [Prompts -> 0..MaxGenerations]
  /\ prompt \in [Engines -> [Prompts -> {"none", "open", "cancelled", "settled"}]]
  /\ asksFor \in [Engines -> [Prompts -> Requests \cup {NoRequest}]]

(* A deadline runs exactly while its request is pending and no prompt for it
   is open: none is lost when prompts overlap, and none outlives its request
   (armDeadline, pauseDeadline and every path that settles). *)
OpenFor(i) == {p \in Engines \X Prompts :
                 /\ asksFor[p[1]][p[2]] = i
                 /\ BeingAnswered(p[1], p[2])}
DeadlineExact ==
  \A i \in Ids : timer[i] <=> (outcome[i] = "pending" /\ OpenFor(i) = {})

(* No engine runs on beside the current one: every engine that is replaced,
   or whose handshake failed, has been told to exit. *)
OneEngine == \A g \in Engines : proc[g] = "up" => g = generation /\ ~disposed

(* Every request in flight was sent to the engine that is current, so the
   exit that would reject it is still heeded. *)
PendingOfCurrentGeneration == \A i \in Pending : home[i] = generation

(* MAX_CRASHES_IN_WINDOW crashes are tolerated, one more ends the respawning:
   no timer is left running that would start the engine again. *)
GivenUpStaysDown == crashes <= host.maxCrashes + 1 /\ (gaveUp => armed = {})

(* Both hold of a client whose host starts it once, as the extension does:
   respawnTimer then always names the only timer running. *)
NoOrphans == ~host.autoStart => PendingOfCurrentGeneration /\ GivenUpStaysDown

(* One engine runs at a time, and a client whose host starts it once never loses
   sight of what it sent or armed. *)
EnginesKept == TypeOK /\ OneEngine /\ NoOrphans

(* An open prompt of an engine that runs can be withdrawn: the client's entry
   under its id is its own, though the ids of a respawned engine start again at 1
   and the prompts of the one before settle late (answerEngineRequest,
   cancelInbound).  One read from the pipe after its engine's exit was reported
   is beyond it: nothing will withdraw it. *)
InboundExact ==
  \A g \in Engines, k \in Prompts :
    /\ prompt[g][k] = "open" /\ proc[g] = "up" => inbound[k] = g
    /\ inbound[k] = g => BeingAnswered(g, k)

(* Prompts and deadlines are accounted for together: what stands still is what a
   prompt that can be withdrawn holds. *)
PromptsExact == DeadlineExact /\ InboundExact

(* No result of an earlier generation ever resolves a request. *)
NoStaleResult ==
  \A i \in Ids : outcome'[i] = "answered" /\ outcome[i] = "pending" => home[i] = generation

(* A restart settles with failure only if the newest engine, whichever restart or
   respawn it is of, has failed to come up. *)
RestartOutlivesRestart ==
  \A c \in Restarts : outcome'[c] = "failed" /\ outcome[c] # "failed" =>
     disposed \/ \E g \in Engines : g = generation /\ spawn[g] = "failed"

(* Generations do not reach into each other: no answer of one resolves a request
   of another, and no restart fails for one it replaced. *)
GenerationsApart == [][NoStaleResult /\ RestartOutlivesRestart]_vars

(* Every request and every restart settles: by an answer, its deadline, the
   engine's exit or the failure of the spawn it awaits. *)
EverySettles ==
  \A c \in Askers : outcome[c] \notin {"unsent"} \cup Settled ~> outcome[c] \in Settled

(* An engine that exits is replaced, unless the client gave up, was disposed
   or has used the bound of the model. *)
EngineComesBack ==
  \A g \in Engines :
    (proc[g] = "dead" /\ g = generation) ~>
      (generation # g \/ gaveUp \/ disposed \/ generation = host.generations)

(* What the client began comes to an end, and an engine that exits comes back. *)
ClientSettles == EverySettles /\ EngineComesBack
=============================================================================
