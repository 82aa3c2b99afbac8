------------------------- MODULE EngineClientProofs -------------------------
(* One engine runs at a time, no deadline is lost to a prompt, and no generation   *)
(* reaches into another, for any number of requests, restarts, prompts and         *)
(* generations.                                                                    *)
EXTENDS MCClient, SumTheorems, FiniteSetTheorems, TLAPS

(* A generation to come has done nothing, and one whose transport is still being
   started has been sent nothing. *)
Later ==
  /\ \A g \in Engines : g > generation => spawn[g] = "none" /\ \A k \in Prompts : prompt[g][k] = "none"
  /\ \A g \in Engines : spawn[g] \in {"none", "starting"} => outcome[g] = "unsent"

(* this.ready is of the current generation, unless its handshake failed. *)
ReadyExact ==
  /\ ready \in {0, generation}
  /\ ready = 0 /\ generation # 0 => \E g \in Engines : g = generation /\ spawn[g] = "failed"

(* A crash is of a generation of its own. *)
Exits(g) == g = generation /\ proc[g] \in {"up", "killed"}
CrashesCounted ==
  /\ crashes <= generation
  /\ \A g \in Engines : Exits(g) => crashes < g

LifeInv == OneEngine /\ Later /\ ReadyExact /\ CrashesCounted

(* While the respawn timer runs there is no engine: the only timer is that of the
   exit of the last one, and nothing has been sent since. *)
Between ==
  /\ armed = {respawnTimer} /\ respawnTimer = generation /\ ~gaveUp /\ crashes <= host.maxCrashes
  /\ \E g \in Engines : g = generation /\ proc[g] = "dead" /\ spawn[g] # "starting"

StartedOnce ==
  /\ PendingOfCurrentGeneration /\ GivenUpStaysDown
  /\ generation = 0 \/ armed # {} => ~alive /\ Pending = {}
  /\ generation = 0 => ~gaveUp
  /\ armed # {} => Between
  /\ \A g \in Engines : Exits(g) => ~gaveUp /\ crashes <= host.maxCrashes

OrphanInv == ~host.autoStart => StartedOnce

(* Pending.pauses counts the prompts open for a request. *)
PausesExact ==
  /\ \A i \in Ids : outcome[i] = "pending" => pauses[i] = Cardinality(OpenFor(i))
  /\ \A i \in Ids : outcome[i] \in {"unsent", "starting"} => OpenFor(i) = {} /\ pauses[i] = 0
  /\ \A g \in Engines, k \in Prompts : prompt[g][k] = "none" => asksFor[g][k] = NoRequest

PromptInv == DeadlineExact /\ PausesExact /\ InboundExact

ClientInv == TypeOK /\ LifeInv /\ OrphanInv /\ PromptInv
-----------------------------------------------------------------------------
LEMMA Apart ==
  /\ NoRequest \notin Ids /\ \A c \in Restarts : c \notin Ids
  /\ \A g \in Engines : g \notin Requests /\ g \in Nat
  /\ \A r \in Requests : r \notin Engines
  BY ClientAssumption DEF Ids, Engines, NoRequest, Askers

LEMMA PairsFinite ==
  ASSUME NEW S \in SUBSET (Engines \X Prompts)
  PROVE  IsFiniteSet(S) /\ Cardinality(S) \in 0..Cardinality(Engines \X Prompts)
<1>1. IsFiniteSet(Engines)
  BY ClientAssumption, FS_Interval DEF Engines
<1>2. IsFiniteSet(Engines \X Prompts)
  BY <1>1, ClientAssumption, FS_Product
<1>3. IsFiniteSet(S) /\ Cardinality(S) <= Cardinality(Engines \X Prompts)
  BY <1>2, FS_Subset
<1>4. Cardinality(S) \in Nat /\ Cardinality(Engines \X Prompts) \in Nat
  BY <1>2, <1>3, FS_CardinalityType
<1> QED BY <1>3, <1>4

LEMMA OpenFinite ==
  ASSUME NEW i
  PROVE  IsFiniteSet(OpenFor(i)) /\ Cardinality(OpenFor(i)) \in 0..Cardinality(Engines \X Prompts)
  BY PairsFinite DEF OpenFor

(* Prompts are open for the same requests as before. *)
SameOpen ==
  \A g \in Engines, k \in Prompts :
    /\ asksFor'[g][k] = asksFor[g][k]
    /\ BeingAnswered(g, k)' = BeingAnswered(g, k)
    /\ (prompt'[g][k] = "none") = (prompt[g][k] = "none")

(* What a step that opens and closes no prompt may do to a request. *)
Waits(i) == outcome[i] \in {"unsent", "starting"}
Moves(i) ==
  \/ outcome'[i] = outcome[i] /\ timer'[i] = timer[i]
  \/ outcome'[i] \in Settled /\ ~timer'[i]
  \/ Waits(i) /\ Waits(i)' /\ timer'[i] = timer[i]
  \/ Waits(i) /\ outcome'[i] = "pending" /\ timer'[i]

LEMMA DeadlinesMove ==
  ASSUME TypeOK, PromptInv, SameOpen, pauses' = pauses, timer' \in [Ids -> BOOLEAN],
         \A i \in Ids : Moves(i)
  PROVE  DeadlineExact' /\ PausesExact'
<1>1. ASSUME NEW i \in Ids PROVE OpenFor(i)' = OpenFor(i)
  BY DEF SameOpen, OpenFor
<1>2. ASSUME NEW i \in Ids
      PROVE  /\ timer'[i] <=> (outcome'[i] = "pending" /\ OpenFor(i) = {})
             /\ outcome'[i] = "pending" => pauses[i] = Cardinality(OpenFor(i))
             /\ Waits(i)' => OpenFor(i) = {} /\ pauses[i] = 0
  <2>1. /\ timer[i] <=> (outcome[i] = "pending" /\ OpenFor(i) = {})
        /\ outcome[i] = "pending" => pauses[i] = Cardinality(OpenFor(i))
        /\ Waits(i) => OpenFor(i) = {} /\ pauses[i] = 0
    BY DEF PromptInv, DeadlineExact, PausesExact, Waits
  <2>2. Cardinality({}) = 0
    BY FS_EmptySet, Zenon
  <2>3. timer'[i] \in BOOLEAN /\ timer[i] \in BOOLEAN
    BY DEF TypeOK
  <2> QED BY <2>1, <2>2, <2>3 DEF Moves, Waits, Settled
<1>3. DeadlineExact'
  BY <1>1, <1>2 DEF DeadlineExact
<1>4. PausesExact'
  BY <1>1, <1>2 DEF PausesExact, Waits, SameOpen, PromptInv
<1> QED BY <1>3, <1>4

(* An engine that comes up has sent no prompt. *)
UpAsBefore ==
  \A g \in Engines : proc'[g] = "up" => proc[g] = "up" \/ \A k \in Prompts : prompt[g][k] = "none"

LEMMA InboundStays ==
  ASSUME InboundExact, UNCHANGED promptVars, UpAsBefore PROVE InboundExact'
  BY DEF InboundExact, promptVars, UpAsBefore, BeingAnswered

LEMMA InboundCancelled ==
  ASSUME TypeOK, InboundExact, CancelInbound, UpAsBefore
  PROVE  InboundExact' /\ SameOpen
<1>1. ASSUME NEW g \in Engines, NEW k \in Prompts
      PROVE  /\ prompt'[g][k] = IF inbound[k] = g /\ prompt[g][k] = "open" THEN "cancelled"
                                ELSE prompt[g][k]
             /\ inbound'[k] = 0 /\ asksFor'[g][k] = asksFor[g][k]
  BY DEF CancelInbound, PromptsCancelled
<1>2. SameOpen
  BY <1>1 DEF SameOpen, BeingAnswered
<1>3. InboundExact'
  BY <1>1 DEF InboundExact, UpAsBefore, BeingAnswered, Engines
<1> QED BY <1>2, <1>3
-----------------------------------------------------------------------------
LEMMA Quiet ==
  ASSUME TypeOK, PromptInv, UNCHANGED <<requestVars, promptVars>>, UpAsBefore PROVE PromptInv'
<1>1. SameOpen /\ (\A i \in Ids : Moves(i)) /\ pauses' = pauses /\ timer' \in [Ids -> BOOLEAN]
  BY DEF TypeOK, requestVars, promptVars, SameOpen, BeingAnswered, Moves
<1> QED BY <1>1, DeadlinesMove, InboundStays DEF PromptInv

LEMMA KilledUps ==
  ASSUME TypeOK, NEW h, proc' = Killed(h) PROVE UpAsBefore
  BY DEF TypeOK, Killed, UpAsBefore

LEMMA SpawnUps ==
  ASSUME TypeOK, Later, NEW g \in Nat, g > generation, SpawnEngine(g) PROVE UpAsBefore
<1> SUFFICES ASSUME NEW h \in Engines, proc'[h] = "up", proc[h] # "up"
             PROVE  \A k \in Prompts : prompt[h][k] = "none"
  BY DEF UpAsBefore
<1>1. proc' = [Killed(generation) EXCEPT ![g] = "up"]
  BY DEF SpawnEngine
<1>2. h = g
  BY <1>1 DEF Killed
<1> QED BY <1>2 DEF Later

LEMMA StartUps == ASSUME TypeOK, Later, StartCall PROVE UpAsBefore
<1>1. generation \in Nat
  BY ClientAssumption DEF TypeOK
<1>2. CASE SpawnEngine(generation + 1)
  BY <1>1, <1>2, SpawnUps
<1>3. CASE UNCHANGED proc
  BY <1>3 DEF UpAsBefore
<1> QED BY <1>2, <1>3 DEF StartCall

LEMMA HandshakeUps == ASSUME TypeOK, NEW g \in Engines, HandshakeEnds(g) PROVE UpAsBefore
<1>1. CASE proc' = proc
  BY <1>1 DEF UpAsBefore
<1>2. CASE proc' = Killed(g)
  BY <1>2, KilledUps
<1> QED BY <1>1, <1>2 DEF HandshakeEnds

(* send() of a request that has waited until now. *)
LEMMA SentMoves ==
  ASSUME TypeOK, NEW i \in Ids, Waits(i), NEW up \in BOOLEAN, Sent(i, up), PromptInv
  PROVE  timer' \in [Ids -> BOOLEAN] /\ \A j \in Ids : Moves(j)
<1>1. ~timer[i]
  BY DEF PromptInv, DeadlineExact, Waits
<1>2. outcome \in [Ids \cup Restarts -> {"unsent", "starting", "pending"} \cup Settled]
      /\ timer \in [Ids -> BOOLEAN]
  BY DEF TypeOK
<1> QED BY <1>1, <1>2 DEF Sent, Moves, Settled

LEMMA SendRequestMoves ==
  ASSUME TypeOK, NEW r \in Requests, Waits(r), SendRequest(r), PromptInv
  PROVE  timer' \in [Ids -> BOOLEAN] /\ \A j \in Ids : Moves(j)
<1>1. r \in Ids /\ alive \in BOOLEAN /\ ~timer[r]
  BY DEF Ids, TypeOK, PromptInv, DeadlineExact, Waits
<1>2. CASE Sent(r, alive)
  BY <1>1, <1>2, SentMoves
<1>3. CASE outcome' = [outcome EXCEPT ![r] = "cancelled"] /\ timer' = timer
  BY <1>1, <1>3 DEF TypeOK, Moves, Settled
<1> QED BY <1>2, <1>3 DEF SendRequest

LEMMA SettleMoves ==
  ASSUME TypeOK, NEW i \in Ids, NEW how \in Settled, Settle(i, how)
  PROVE  timer' \in [Ids -> BOOLEAN] /\ \A j \in Ids : Moves(j)
  BY DEF TypeOK, Settle, Stopped, Moves, Settled

LEMMA AllFailedMoves ==
  ASSUME TypeOK, PromptInv, timer' = Stopped(Ids), \A i \in Ids : outcome'[i] = AllFailed[i]
  PROVE  timer' \in [Ids -> BOOLEAN] /\ \A j \in Ids : Moves(j)
<1>1. ASSUME NEW i \in Ids PROVE timer'[i] = FALSE /\ outcome'[i] = IF outcome[i] = "pending" THEN "restarted" ELSE outcome[i]
  BY DEF Stopped, AllFailed
<1>2. ASSUME NEW i \in Ids PROVE Moves(i)
  BY <1>1 DEF TypeOK, Moves, PromptInv, DeadlineExact, Settled, Waits
<1> QED BY <1>2 DEF Stopped, TypeOK

(* A step that moves requests and touches no prompt. *)
LEMMA RequestsMove ==
  ASSUME TypeOK, PromptInv, UNCHANGED <<promptVars, pauses>>, UpAsBefore,
         timer' \in [Ids -> BOOLEAN], \A i \in Ids : Moves(i)
  PROVE  PromptInv'
<1>1. SameOpen
  BY DEF promptVars, SameOpen, BeingAnswered
<1> QED BY <1>1, DeadlinesMove, InboundStays DEF PromptInv

(* A step that cancels every prompt. *)
LEMMA PromptsMove ==
  ASSUME TypeOK, PromptInv, CancelInbound, UNCHANGED pauses, UpAsBefore,
         timer' \in [Ids -> BOOLEAN], \A i \in Ids : Moves(i)
  PROVE  PromptInv'
  BY InboundCancelled, DeadlinesMove DEF PromptInv

LEMMA SameProcs == ASSUME UNCHANGED proc PROVE UpAsBefore
  BY DEF UpAsBefore
-----------------------------------------------------------------------------
(* answerEngineRequest opens a prompt, for a request or for none. *)
LEMMA ArrivesKeeps ==
  ASSUME TypeOK, OneEngine, PromptInv, NEW g \in Engines, NEW k \in Prompts, NEW r \in Requests,
         PromptArrives(g, k, r)
  PROVE  PromptInv'
<1>1. /\ g = generation /\ prompt[g][k] = "none" /\ r \in Ids /\ asksFor[g][k] = NoRequest
      /\ prompt' = [prompt EXCEPT ![g][k] = "open"]
      /\ inbound' = [inbound EXCEPT ![k] = g]
      /\ UNCHANGED <<outcome, proc>>
  BY DEF PromptArrives, Heeded, Ids, PromptInv, PausesExact, lifeVars
<1>2. ASSUME NEW h \in Engines, NEW j \in Prompts
      PROVE  /\ prompt'[h][j] = IF h = g /\ j = k THEN "open" ELSE prompt[h][j]
             /\ inbound'[j] = IF j = k THEN g ELSE inbound[j]
  BY <1>1 DEF TypeOK
<1>3. InboundExact'
  BY <1>1, <1>2 DEF InboundExact, PromptInv, OneEngine, BeingAnswered
<1>4. ~BeingAnswered(g, k) /\ \A i \in Ids : <<g, k>> \notin OpenFor(i)
  BY <1>1 DEF BeingAnswered, OpenFor
<1>5. CASE outcome[r] = "pending"
  <2>1. /\ asksFor' = [asksFor EXCEPT ![g][k] = r] /\ timer' = Stopped({r})
        /\ pauses' = [pauses EXCEPT ![r] = @ + 1]
    BY <1>5 DEF PromptArrives
  <2>2. ASSUME NEW h \in Engines, NEW j \in Prompts
        PROVE  asksFor'[h][j] = IF h = g /\ j = k THEN r ELSE asksFor[h][j]
    BY <2>1 DEF TypeOK
  <2>3. ASSUME NEW i \in Ids, i # r
        PROVE  OpenFor(i)' = OpenFor(i) /\ timer'[i] = timer[i] /\ pauses'[i] = pauses[i]
    <3>1. ASSUME NEW h \in Engines, NEW j \in Prompts
          PROVE (asksFor'[h][j] = i /\ BeingAnswered(h, j)') <=> (asksFor[h][j] = i /\ BeingAnswered(h, j))
      BY <1>1, <1>2, <2>2, <2>3 DEF BeingAnswered
    <3>2. OpenFor(i)' = OpenFor(i)
      BY <3>1 DEF OpenFor
    <3> QED BY <2>1, <2>3, <3>2 DEF Stopped, TypeOK
  <2>4. OpenFor(r)' = OpenFor(r) \cup {<<g, k>>}
    <3>1. ASSUME NEW h \in Engines, NEW j \in Prompts
          PROVE (asksFor'[h][j] = r /\ BeingAnswered(h, j)')
                  <=> ((asksFor[h][j] = r /\ BeingAnswered(h, j)) \/ <<h, j>> = <<g, k>>)
      BY <1>1, <1>2, <2>2 DEF BeingAnswered
    <3> QED BY <3>1 DEF OpenFor
  <2>5. pauses'[r] = Cardinality(OpenFor(r)') /\ timer'[r] = FALSE
    <3>1. Cardinality(OpenFor(r) \cup {<<g, k>>}) = Cardinality(OpenFor(r)) + 1
      BY <1>1, <1>4, OpenFinite, FS_AddElement
    <3>2. pauses[r] = Cardinality(OpenFor(r))
      BY <1>1, <1>5 DEF PromptInv, PausesExact
    <3> QED BY <1>1, <2>1, <2>4, <3>1, <3>2 DEF Stopped, TypeOK
  <2>6. DeadlineExact'
    BY <1>1, <2>3, <2>4, <2>5 DEF DeadlineExact, PromptInv
  <2>7. PausesExact'
    <3>1. \A i \in Ids : outcome'[i] = "pending" => pauses'[i] = Cardinality(OpenFor(i)')
      BY <1>1, <2>3, <2>5 DEF PausesExact, PromptInv
    <3>2. \A i \in Ids : outcome'[i] \in {"unsent", "starting"} => OpenFor(i)' = {} /\ pauses'[i] = 0
      BY <1>1, <1>5, <2>3 DEF PausesExact, PromptInv
    <3>3. \A h \in Engines, j \in Prompts : prompt'[h][j] = "none" => asksFor'[h][j] = NoRequest
      BY <1>2, <2>2 DEF PausesExact, PromptInv
    <3> QED BY <3>1, <3>2, <3>3 DEF PausesExact
  <2> QED BY <1>3, <2>6, <2>7 DEF PromptInv
<1>6. CASE outcome[r] # "pending"
  <2>1. UNCHANGED <<asksFor, pauses, timer>>
    BY <1>6 DEF PromptArrives
  <2>2. ASSUME NEW i \in Ids PROVE OpenFor(i)' = OpenFor(i)
    <3>1. i # NoRequest
      BY Apart
    <3>2. ASSUME NEW h \in Engines, NEW j \in Prompts
          PROVE (asksFor'[h][j] = i /\ BeingAnswered(h, j)') <=> (asksFor[h][j] = i /\ BeingAnswered(h, j))
      BY <1>1, <1>2, <2>1, <3>1 DEF BeingAnswered
    <3> QED BY <3>2 DEF OpenFor
  <2>3. DeadlineExact'
    BY <1>1, <2>1, <2>2 DEF DeadlineExact, PromptInv
  <2>4. PausesExact'
    <3>1. \A i \in Ids : outcome'[i] = "pending" => pauses'[i] = Cardinality(OpenFor(i)')
      BY <1>1, <2>1, <2>2 DEF PausesExact, PromptInv
    <3>2. \A i \in Ids : outcome'[i] \in {"unsent", "starting"} => OpenFor(i)' = {} /\ pauses'[i] = 0
      BY <1>1, <2>1, <2>2 DEF PausesExact, PromptInv
    <3>3. \A h \in Engines, j \in Prompts : prompt'[h][j] = "none" => asksFor'[h][j] = NoRequest
      BY <1>2, <2>1 DEF PausesExact, PromptInv
    <3> QED BY <3>1, <3>2, <3>3 DEF PausesExact
  <2> QED BY <1>3, <2>3, <2>4 DEF PromptInv
<1> QED BY <1>5, <1>6

(* The engine withdraws a prompt that is open. *)
LEMMA WithdrawnKeeps ==
  ASSUME TypeOK, PromptInv, NEW g \in Engines, NEW k \in Prompts, PromptWithdrawn(g, k)
  PROVE  PromptInv'
<1>1. /\ inbound[k] \in Engines /\ prompt' = [prompt EXCEPT ![inbound[k]][k] = "cancelled"]
      /\ UNCHANGED <<requestVars, inbound, asksFor, proc>>
  BY ClientAssumption DEF PromptWithdrawn, lifeVars, TypeOK, Engines
<1>2. BeingAnswered(inbound[k], k)
  BY <1>1 DEF PromptInv, InboundExact
<1>3. ASSUME NEW h \in Engines, NEW j \in Prompts
      PROVE  prompt'[h][j] = IF h = inbound[k] /\ j = k THEN "cancelled" ELSE prompt[h][j]
  BY <1>1 DEF TypeOK
<1>4. SameOpen
  BY <1>1, <1>2, <1>3 DEF SameOpen, BeingAnswered
<1>5. InboundExact'
  BY <1>1, <1>3 DEF InboundExact, PromptInv, BeingAnswered
<1>6. (\A i \in Ids : Moves(i)) /\ pauses' = pauses /\ timer' \in [Ids -> BOOLEAN]
  BY <1>1 DEF TypeOK, requestVars, Moves
<1> QED BY <1>4, <1>5, <1>6, DeadlinesMove DEF PromptInv

(* A prompt's handler settles: the deadline runs again with the last of them. *)
LEMMA SettlesKeeps ==
  ASSUME TypeOK, PromptInv, NEW g \in Engines, NEW k \in Prompts, PromptSettles(g, k)
  PROVE  PromptInv'
<1>1. /\ BeingAnswered(g, k) /\ prompt' = [prompt EXCEPT ![g][k] = "settled"]
      /\ inbound' = IF inbound[k] = g THEN [inbound EXCEPT ![k] = 0] ELSE inbound
      /\ UNCHANGED <<outcome, proc, asksFor>>
  BY DEF PromptSettles, Owns, lifeVars
<1>2. ASSUME NEW h \in Engines, NEW j \in Prompts
      PROVE  /\ prompt'[h][j] = IF h = g /\ j = k THEN "settled" ELSE prompt[h][j]
             /\ inbound'[j] = IF j = k /\ inbound[k] = g THEN 0 ELSE inbound[j]
  BY <1>1 DEF TypeOK
<1>3. InboundExact'
  BY <1>1, <1>2 DEF InboundExact, PromptInv, BeingAnswered, Engines
<1>4. ASSUME NEW i \in Ids PROVE OpenFor(i)' = OpenFor(i) \ {<<g, k>>}
  <2>1. ASSUME NEW h \in Engines, NEW j \in Prompts
        PROVE (asksFor'[h][j] = i /\ BeingAnswered(h, j)')
                <=> ((asksFor[h][j] = i /\ BeingAnswered(h, j)) /\ <<h, j>> # <<g, k>>)
    BY <1>1, <1>2 DEF BeingAnswered
  <2> QED BY <2>1 DEF OpenFor
<1>5. ASSUME NEW i \in Ids, i # asksFor[g][k] PROVE OpenFor(i)' = OpenFor(i)
  BY <1>4, <1>5 DEF OpenFor
<1>6. \A h \in Engines, j \in Prompts : prompt'[h][j] = "none" => asksFor'[h][j] = NoRequest
  BY <1>1, <1>2 DEF PausesExact, PromptInv
<1>7. PICK r \in Requests \cup {NoRequest} : asksFor[g][k] = r
  BY DEF TypeOK
<1>8. CASE r \in Pending
  <2>1. /\ r \in Ids /\ outcome[r] = "pending"
        /\ pauses' = [pauses EXCEPT ![r] = @ - 1]
        /\ timer' = [timer EXCEPT ![r] = @ \/ pauses[r] = 1]
    BY <1>7, <1>8 DEF PromptSettles, Pending, Resumes
  <2>2. pauses[r] = Cardinality(OpenFor(r)) /\ <<g, k>> \in OpenFor(r)
    BY <1>1, <1>7, <2>1 DEF PromptInv, PausesExact, OpenFor
  <2>3. Cardinality(OpenFor(r)') = Cardinality(OpenFor(r)) - 1
    BY <1>4, <2>1, <2>2, OpenFinite, FS_RemoveElement
  <2>4. OpenFor(r)' = {} <=> pauses[r] = 1
    <3>1. IsFiniteSet(OpenFor(r)')
      BY <1>4, <2>1, OpenFinite, FS_Subset
    <3>2. OpenFor(r)' = {} <=> Cardinality(OpenFor(r)') = 0
      BY <3>1, FS_EmptySet, Zenon
    <3>3. Cardinality(OpenFor(r)) \in Nat
      BY OpenFinite
    <3> QED BY <2>2, <2>3, <3>2, <3>3
  <2>5. pauses'[r] = Cardinality(OpenFor(r)')
    BY <2>1, <2>2, <2>3 DEF TypeOK
  <2>6. timer'[r] <=> OpenFor(r)' = {}
    <3>1. ~timer[r]
      BY <2>1, <2>2 DEF PromptInv, DeadlineExact
    <3>2. timer'[r] = (timer[r] \/ pauses[r] = 1)
      BY <2>1 DEF TypeOK
    <3> QED BY <2>4, <3>1, <3>2
  <2>7. ASSUME NEW i \in Ids, i # r
        PROVE  OpenFor(i)' = OpenFor(i) /\ timer'[i] = timer[i] /\ pauses'[i] = pauses[i]
    BY <1>5, <1>7, <2>1, <2>7 DEF TypeOK
  <2>8. DeadlineExact'
    BY <1>1, <2>1, <2>6, <2>7 DEF DeadlineExact, PromptInv
  <2>9. PausesExact'
    BY <1>1, <1>6, <2>1, <2>5, <2>7 DEF PausesExact, PromptInv
  <2> QED BY <1>3, <2>8, <2>9 DEF PromptInv
<1>9. CASE r \notin Pending
  <2>1. UNCHANGED <<pauses, timer>>
    BY <1>7, <1>9 DEF PromptSettles
  <2>2. ASSUME NEW i \in Ids PROVE OpenFor(i)' \subseteq OpenFor(i) /\ (i # r => OpenFor(i)' = OpenFor(i))
    BY <1>4, <1>5, <1>7
  <2>3. DeadlineExact'
    BY <1>1, <1>9, <2>1, <2>2 DEF DeadlineExact, PromptInv, Pending
  <2>4. PausesExact'
    BY <1>1, <1>6, <1>9, <2>1, <2>2 DEF PausesExact, PromptInv, Pending
  <2> QED BY <1>3, <2>3, <2>4 DEF PromptInv
<1> QED BY <1>8, <1>9
-----------------------------------------------------------------------------
LEMMA Numbers ==
  ASSUME TypeOK
  PROVE  /\ host.generations \in 0..MaxGenerations /\ host.maxCrashes \in Nat /\ host.autoStart \in BOOLEAN
         /\ MaxGenerations \in Nat /\ generation \in 0..MaxGenerations /\ crashes \in 0..MaxGenerations
  BY ClientAssumption DEF TypeOK, HostType

(* A step of the engines' lives that keeps the generation. *)
LEMMA LifeStays ==
  ASSUME TypeOK, LifeInv, UNCHANGED generation,
         \A g \in Engines : proc'[g] = "up" => proc[g] = "up" /\ ~disposed',
         \A g \in Engines : proc'[g] \in {"up", "killed"} => proc[g] \in {"up", "killed"},
         \A g \in Engines : g > generation => spawn'[g] = "none" /\ \A k \in Prompts : prompt'[g][k] = "none",
         \A g \in Engines : spawn'[g] \in {"none", "starting"} => outcome'[g] = "unsent",
         \/ ready' = ready /\ (\A g \in Engines : spawn[g] = "failed" => spawn'[g] = "failed")
         \/ ready' = 0 /\ \E g \in Engines : g = generation /\ spawn'[g] = "failed",
         crashes' <= crashes
         \/ (crashes' = crashes + 1 /\ \E g \in Engines : Exits(g) /\ ~Exits(g)'),
         crashes' \in Nat
  PROVE  LifeInv'
<1>1. OneEngine' /\ Later'
  BY DEF LifeInv, OneEngine, Later
<1>2. ReadyExact'
  BY DEF LifeInv, ReadyExact
<1>3. CrashesCounted'
  <2>1. generation \in Nat /\ crashes \in Nat
    BY ClientAssumption DEF TypeOK
  <2>2. CASE crashes' <= crashes
    BY <2>1, <2>2 DEF LifeInv, CrashesCounted, Exits, Engines
  <2>3. CASE crashes' = crashes + 1 /\ \E g \in Engines : Exits(g) /\ ~Exits(g)'
    <3>1. PICK g \in Engines : Exits(g) /\ ~Exits(g)' /\ g = generation
      BY <2>3 DEF Exits
    <3>2. crashes < g /\ g \in Nat
      BY <3>1, Apart DEF LifeInv, CrashesCounted
    <3>3. \A h \in Engines : ~Exits(h)'
      BY <3>1 DEF Exits
    <3> QED BY <2>1, <2>3, <3>1, <3>2, <3>3 DEF CrashesCounted
  <2> QED BY <2>2, <2>3
<1> QED BY <1>1, <1>2, <1>3 DEF LifeInv

(* A new generation. *)
LEMMA LifeBegins ==
  ASSUME TypeOK, LifeInv, NEW g \in Nat, g > generation, SpawnEngine(g), ~disposed, ~disposed',
         \A h \in Engines : outcome[h] = "unsent" => outcome'[h] = "unsent",
         \A h \in Engines, k \in Prompts : prompt[h][k] = "none" => prompt'[h][k] = "none",
         crashes' \in Nat, crashes' <= crashes
  PROVE  LifeInv' /\ g \in Engines
<1>1. g \in Engines /\ generation \in Nat /\ crashes \in Nat
  BY Numbers DEF SpawnEngine, Engines
<1>2. /\ generation' = g /\ ready' = g /\ spawn' = [spawn EXCEPT ![g] = "starting"]
      /\ \A h \in Engines : proc'[h] = IF h = g THEN "up" ELSE Killed(generation)[h]
  BY DEF SpawnEngine, Killed
<1>3. OneEngine'
  BY <1>2 DEF LifeInv, OneEngine, Killed
<1>4. Later'
  <2>1. ASSUME NEW h \in Engines
        PROVE  spawn'[h] = IF h = g THEN "starting" ELSE spawn[h]
    BY <1>1, <1>2 DEF TypeOK
  <2>2. ASSUME NEW h \in Engines, h > g PROVE h > generation /\ h # g
    BY <1>1, <2>2 DEF Engines
  <2>3. outcome[g] = "unsent"
    BY <1>1 DEF LifeInv, Later
  <2>4. \A h \in Engines : h > g => spawn'[h] = "none" /\ \A k \in Prompts : prompt'[h][k] = "none"
    BY <2>1, <2>2 DEF LifeInv, Later
  <2>5. \A h \in Engines : spawn'[h] \in {"none", "starting"} => outcome'[h] = "unsent"
    BY <1>1, <2>1, <2>3 DEF LifeInv, Later
  <2> QED BY <1>2, <2>4, <2>5 DEF Later
<1>5. ReadyExact' /\ CrashesCounted'
  BY <1>1, <1>2 DEF LifeInv, ReadyExact, CrashesCounted, Exits, Engines
<1> QED BY <1>1, <1>3, <1>4, <1>5 DEF LifeInv

LEMMA LifeUnchanged ==
  ASSUME TypeOK, LifeInv, UNCHANGED <<lifeVars, outcome, prompt, crashes, disposed>> PROVE LifeInv'
  BY DEF LifeInv, OneEngine, Later, ReadyExact, CrashesCounted, Exits, lifeVars

\* What has been settled was sent.
LEMMA LifeSettles ==
  ASSUME TypeOK, LifeInv, UNCHANGED <<lifeVars, crashes, disposed>>,
         \A h \in Engines : outcome[h] = "unsent" => outcome'[h] = "unsent",
         \A h \in Engines : h > generation => \A k \in Prompts : prompt[h][k] = "none" => prompt'[h][k] = "none"
  PROVE  LifeInv'
  BY DEF LifeInv, OneEngine, Later, ReadyExact, CrashesCounted, Exits, lifeVars

LEMMA StartCallLife ==
  ASSUME TypeOK, LifeInv, StartCall, UNCHANGED <<prompt, disposed>>,
         \A h \in Engines : outcome[h] = "unsent" => outcome'[h] = "unsent"
  PROVE  LifeInv'
<1>1. generation \in Nat /\ crashes' = crashes /\ crashes \in Nat /\ alive' = alive
  BY ClientAssumption DEF TypeOK, StartCall
<1>2. CASE SpawnEngine(generation + 1) /\ ~disposed
  BY <1>1, <1>2, LifeBegins
<1>3. CASE UNCHANGED <<generation, proc, spawn, ready>>
  BY <1>1, <1>3, LifeSettles DEF lifeVars
<1> QED BY <1>2, <1>3 DEF StartCall
LEMMA AllFailedKeepsUnsent ==
  ASSUME TypeOK, \A i \in Ids : outcome'[i] = AllFailed[i]
  PROVE  \A h \in Engines : outcome[h] = "unsent" => outcome'[h] = "unsent"
  BY DEF AllFailed, Ids

LEMMA StartDoneLife == ASSUME TypeOK, LifeInv, NEW g \in Engines, StartDone(g) PROVE LifeInv'
<1>1. /\ spawn[g] = "starting" /\ spawn' = [spawn EXCEPT ![g] = "handshake"]
      /\ UNCHANGED <<generation, proc, ready, crashes, prompt, disposed>> /\ Sent(g, alive')
  BY DEF StartDone, crashVars, promptVars
<1>2. ASSUME NEW h \in Engines
      PROVE  /\ spawn'[h] = IF h = g THEN "handshake" ELSE spawn[h]
             /\ h # g => outcome'[h] = outcome[h]
  BY <1>1 DEF Sent, TypeOK, Ids
<1>3. g <= generation
  BY <1>1, ClientAssumption DEF LifeInv, Later, TypeOK, Engines
<1>4. \A h \in Engines : h > generation => spawn'[h] = "none" /\ \A k \in Prompts : prompt'[h][k] = "none"
  BY <1>1, <1>2, <1>3, ClientAssumption DEF LifeInv, Later, TypeOK, Engines
<1>5. \A h \in Engines : spawn'[h] \in {"none", "starting"} => outcome'[h] = "unsent"
  BY <1>2 DEF LifeInv, Later
<1>6. \A h \in Engines : spawn[h] = "failed" => spawn'[h] = "failed"
  BY <1>1, <1>2
<1>7. crashes' <= crashes /\ crashes' \in Nat
  BY <1>1, ClientAssumption DEF TypeOK
<1>8. \A h \in Engines : proc'[h] = "up" => proc[h] = "up" /\ ~disposed'
  BY <1>1 DEF LifeInv, OneEngine
<1> QED BY <1>1, <1>4, <1>5, <1>6, <1>7, <1>8, LifeStays

LEMMA SpawnEndsLife ==
  ASSUME TypeOK, LifeInv, NEW g \in Engines, StartFails(g) \/ HandshakeEnds(g) PROVE LifeInv'
<1>1. /\ UNCHANGED <<generation, crashes, prompt, disposed, outcome>>
      /\ spawn[g] \notin {"none", "failed"} /\ spawn'[g] \notin {"none", "starting"}
      /\ \A h \in Engines : h # g => spawn'[h] = spawn[h]
  <2>1. CASE StartFails(g)
    BY <2>1 DEF StartFails, TypeOK, crashVars, promptVars, requestVars
  <2>2. CASE HandshakeEnds(g)
    BY <2>2 DEF HandshakeEnds, HandshakeOver, TypeOK, crashVars, promptVars, requestVars
  <2> QED BY <2>1, <2>2
<1>2. /\ \A h \in Engines : proc'[h] = "up" => proc[h] = "up"
      /\ \A h \in Engines : proc'[h] \in {"up", "killed"} => proc[h] \in {"up", "killed"}
  <2>1. CASE StartFails(g)
    BY <2>1 DEF StartFails, TypeOK
  <2>2. CASE HandshakeEnds(g)
    BY <2>2 DEF HandshakeEnds, Killed, TypeOK
  <2> QED BY <2>1, <2>2
<1>3. \/ ready' = ready
      \/ ready' = 0 /\ \E h \in Engines : h = generation /\ spawn'[h] = "failed"
  BY DEF StartFails, HandshakeEnds, TypeOK
<1>4. g <= generation /\ generation \in Nat
  BY <1>1, ClientAssumption DEF LifeInv, Later, TypeOK, Engines
<1>5. \A h \in Engines : h > generation => spawn'[h] = "none" /\ \A k \in Prompts : prompt'[h][k] = "none"
  BY <1>1, <1>4 DEF LifeInv, Later
<1>6. \A h \in Engines : spawn'[h] \in {"none", "starting"} => outcome'[h] = "unsent"
  BY <1>1 DEF LifeInv, Later
<1>7. \A h \in Engines : spawn[h] = "failed" => spawn'[h] = "failed"
  BY <1>1
<1>8. crashes' <= crashes /\ crashes' \in Nat
  BY <1>1, ClientAssumption DEF TypeOK
<1>9. \A h \in Engines : proc'[h] = "up" => proc[h] = "up" /\ ~disposed'
  BY <1>1, <1>2 DEF LifeInv, OneEngine
<1> QED BY <1>1, <1>2, <1>3, <1>5, <1>6, <1>7, <1>8, <1>9, LifeStays

LEMMA ExitLife == ASSUME TypeOK, LifeInv, NEW g \in Engines, Exit(g) PROVE LifeInv'
<1>1. /\ UNCHANGED <<generation, ready, spawn, disposed>>
      /\ proc[g] \in {"up", "killed"} /\ proc' = [proc EXCEPT ![g] = "dead"]
  BY DEF Exit
<1>2. \A h \in Engines : outcome[h] = "unsent" => outcome'[h] = "unsent"
  BY AllFailedKeepsUnsent DEF Exit
<1>3. \A h \in Engines, k \in Prompts : prompt[h][k] = "none" => prompt'[h][k] = "none"
  BY DEF Exit, CancelInbound, PromptsCancelled, promptVars
<1>4. crashes' = crashes \/ (crashes' = crashes + 1 /\ g = generation)
  BY DEF Exit, IsCurrent, ScheduleRespawn, crashVars
<1>5. crashes \in Nat
  BY ClientAssumption DEF TypeOK
<1>6. ~Exits(g)' /\ (g = generation => Exits(g))
  BY <1>1 DEF Exits, TypeOK
<1>7. \A h \in Engines : proc'[h] = "up" => proc[h] = "up" /\ ~disposed'
  BY <1>1 DEF LifeInv, OneEngine, TypeOK
<1>8. \A h \in Engines : proc'[h] \in {"up", "killed"} => proc[h] \in {"up", "killed"}
  BY <1>1 DEF TypeOK
<1>9. \A h \in Engines : h > generation => spawn'[h] = "none" /\ \A k \in Prompts : prompt'[h][k] = "none"
  BY <1>1, <1>3 DEF LifeInv, Later
<1>10. \A h \in Engines : spawn'[h] \in {"none", "starting"} => outcome'[h] = "unsent"
  BY <1>1, <1>2 DEF LifeInv, Later
<1>11. /\ crashes' \in Nat
       /\ crashes' <= crashes \/ (crashes' = crashes + 1 /\ \E h \in Engines : Exits(h) /\ ~Exits(h)')
  BY <1>4, <1>5, <1>6
<1> QED BY <1>1, <1>7, <1>8, <1>9, <1>10, <1>11, LifeStays

LEMMA RestartLife == ASSUME TypeOK, LifeInv, NEW c \in Restarts, Restart(c) PROVE LifeInv'
<1>1. /\ ~disposed /\ disposed' = disposed /\ crashes' = 0 /\ SpawnEngine(generation + 2)
      /\ outcome' = [AllFailed EXCEPT ![c] = "starting"] /\ CancelInbound
  BY DEF Restart
<1>2. \A i \in Ids : outcome'[i] = AllFailed[i]
  BY <1>1, Apart DEF AllFailed
<1>3. \A h \in Engines, k \in Prompts : prompt[h][k] = "none" => prompt'[h][k] = "none"
  BY <1>1 DEF CancelInbound, PromptsCancelled
<1>4. crashes \in Nat /\ generation \in Nat
  BY ClientAssumption DEF TypeOK
<1> QED BY <1>1, <1>2, <1>3, <1>4, AllFailedKeepsUnsent, LifeBegins

LEMMA DisposeLife == ASSUME TypeOK, LifeInv, Dispose PROVE LifeInv'
<1>1. /\ proc' = Killed(generation) /\ disposed' = TRUE
      /\ UNCHANGED <<generation, ready, spawn, crashes>> /\ CancelInbound
      /\ \A i \in Ids : outcome'[i] = AllFailed[i]
  BY DEF Dispose
<1>2. \A h \in Engines : proc'[h] # "up"
  BY <1>1 DEF Killed, LifeInv, OneEngine
<1>3. \A h \in Engines : proc'[h] \in {"up", "killed"} => proc[h] \in {"up", "killed"}
  BY <1>1 DEF Killed
<1>4. \A h \in Engines, k \in Prompts : prompt[h][k] = "none" => prompt'[h][k] = "none"
  BY <1>1 DEF CancelInbound, PromptsCancelled
<1>5. \A h \in Engines : outcome[h] = "unsent" => outcome'[h] = "unsent"
  BY <1>1, AllFailedKeepsUnsent
<1>6. crashes' <= crashes /\ crashes' \in Nat
  BY <1>1, ClientAssumption DEF TypeOK
<1>7. \A h \in Engines : h > generation => spawn'[h] = "none" /\ \A k \in Prompts : prompt'[h][k] = "none"
  BY <1>1, <1>4 DEF LifeInv, Later
<1>8. \A h \in Engines : spawn'[h] \in {"none", "starting"} => outcome'[h] = "unsent"
  BY <1>1, <1>5 DEF LifeInv, Later
<1> QED BY <1>1, <1>2, <1>3, <1>6, <1>7, <1>8, LifeStays

\* A request is of no engine, so what becomes of it is no handshake.
LEMMA RequestOutcomes ==
  ASSUME TypeOK, NEW c \in Askers, NEW to, outcome' = [outcome EXCEPT ![c] = to]
  PROVE  \A h \in Engines : outcome'[h] = outcome[h]
  BY Apart DEF TypeOK, Askers, Ids

LEMMA SendRequestOutcomes ==
  ASSUME TypeOK, NEW r \in Requests, SendRequest(r)
  PROVE  \A h \in Engines : outcome'[h] = outcome[h]
  BY RequestOutcomes DEF SendRequest, Sent, Askers

LEMMA RequestLife == ASSUME TypeOK, LifeInv, NEW r \in Requests, Request(r) PROVE LifeInv'
<1>1. r \in Askers /\ UNCHANGED <<prompt, disposed>>
  BY DEF Request, Askers, promptVars
<1>2. CASE host.autoStart
  <2>1. StartCall /\ \E to \in {"failed", "starting"} : outcome' = [outcome EXCEPT ![r] = to]
    BY <1>2 DEF Request
  <2>2. \A h \in Engines : outcome'[h] = outcome[h]
    BY <1>1, <2>1, RequestOutcomes
  <2> QED BY <1>1, <2>1, <2>2, StartCallLife
<1>3. CASE ~host.autoStart
  <2>1. SendRequest(r) /\ UNCHANGED <<lifeVars, crashVars>>
    BY <1>3 DEF Request
  <2> QED BY <1>1, <2>1, SendRequestOutcomes, LifeSettles DEF crashVars
<1> QED BY <1>2, <1>3

LEMMA ResumesLife ==
  ASSUME TypeOK, LifeInv, NEW c \in Askers, RestartResumes(c) \/ RequestResumes(c) PROVE LifeInv'
<1>1. UNCHANGED <<lifeVars, crashes, disposed, prompt>>
  BY DEF RestartResumes, RequestResumes, crashVars, promptVars
<1>2. \A h \in Engines : outcome'[h] = outcome[h]
  BY RequestOutcomes, SendRequestOutcomes DEF RestartResumes, RequestResumes
<1> QED BY <1>1, <1>2, LifeSettles

LEMMA SettleLife ==
  ASSUME TypeOK, LifeInv, NEW i \in Ids, outcome[i] = "pending", NEW how, Settle(i, how) PROVE LifeInv'
<1>1. UNCHANGED <<lifeVars, crashes, disposed, prompt>>
  BY DEF Settle, crashVars, promptVars
<1>2. \A h \in Engines : outcome[h] = "unsent" => outcome'[h] = "unsent"
  BY DEF Settle, TypeOK
<1> QED BY <1>1, <1>2, LifeSettles

LEMMA PromptLife ==
  ASSUME TypeOK, LifeInv, PromptInv, NEW g \in Engines, NEW k \in Prompts,
         (\E r \in Requests : PromptArrives(g, k, r)) \/ PromptWithdrawn(g, k) \/ PromptSettles(g, k)
  PROVE  LifeInv'
<1>0. generation \in Nat
  BY ClientAssumption DEF TypeOK
<1>1. UNCHANGED <<lifeVars, crashes, disposed, outcome>>
  <2>1. CASE \E r \in Requests : PromptArrives(g, k, r)
    BY <2>1 DEF PromptArrives, crashVars
  <2>2. CASE PromptWithdrawn(g, k)
    BY <2>2 DEF PromptWithdrawn, crashVars, requestVars
  <2>3. CASE PromptSettles(g, k)
    BY <2>3 DEF PromptSettles, crashVars
  <2> QED BY <2>1, <2>2, <2>3
<1>2. \A h \in Engines, j \in Prompts : h > generation /\ prompt[h][j] = "none" => prompt'[h][j] = "none"
  <2>1. CASE \E r \in Requests : PromptArrives(g, k, r)
    BY <1>0, <2>1 DEF PromptArrives, Heeded, TypeOK
  <2>2. CASE PromptWithdrawn(g, k)
    <3>1. inbound[k] \in Engines /\ prompt' = [prompt EXCEPT ![inbound[k]][k] = "cancelled"]
      BY <2>2, ClientAssumption DEF PromptWithdrawn, TypeOK, Engines
    <3>2. prompt[inbound[k]][k] # "none"
      BY <3>1 DEF PromptInv, InboundExact, BeingAnswered
    <3> QED BY <3>1, <3>2 DEF TypeOK
  <2>3. CASE PromptSettles(g, k)
    BY <2>3 DEF PromptSettles, BeingAnswered, TypeOK
  <2> QED BY <2>1, <2>2, <2>3
<1> QED BY <1>1, <1>2, LifeSettles

LEMMA StepLife == ASSUME ClientInv, [Next]_vars PROVE LifeInv'
<1> USE DEF ClientInv
<1>1. CASE Start
  BY <1>1, StartCallLife DEF Start, requestVars, promptVars
<1>2. CASE CrashAges
  <2>1. crashes' = crashes - 1 /\ crashes > 0 /\ UNCHANGED <<lifeVars, outcome, prompt, disposed>>
    BY <1>2 DEF CrashAges, requestVars, promptVars
  <2>2. crashes \in Nat /\ generation \in Nat
    BY ClientAssumption DEF TypeOK
  <2> QED BY <2>1, <2>2, ClientAssumption
          DEF LifeInv, OneEngine, Later, ReadyExact, CrashesCounted, Exits, lifeVars, Engines
<1>3. CASE Dispose
  BY <1>3, DisposeLife
<1>4. ASSUME NEW g \in Engines, HandshakeEnds(g) \/ StartFails(g) PROVE LifeInv'
  BY <1>4, SpawnEndsLife
<1>5. ASSUME NEW c \in Askers, RestartResumes(c) \/ RequestResumes(c) PROVE LifeInv'
  BY <1>5, ResumesLife
<1>6. ASSUME NEW g \in Engines, StartDone(g) PROVE LifeInv'
  BY <1>6, StartDoneLife
<1>7. ASSUME NEW g \in Engines, Exit(g) PROVE LifeInv'
  BY <1>7, ExitLife
<1>8. ASSUME NEW g \in Engines, RespawnFires(g) PROVE LifeInv'
  <2>1. crashes' = crashes /\ crashes \in Nat /\ generation \in Nat /\ UNCHANGED <<disposed, outcome, prompt>>
    BY <1>8, ClientAssumption DEF RespawnFires, TypeOK, requestVars, promptVars
  <2>2. CASE disposed
    BY <1>8, <2>1, <2>2, LifeUnchanged DEF RespawnFires, lifeVars
  <2>3. CASE ~disposed
    <3>1. SpawnEngine(generation + 1)
      BY <1>8, <2>3 DEF RespawnFires
    <3> QED BY <2>1, <2>3, <3>1, LifeBegins
  <2> QED BY <2>2, <2>3
<1>9. ASSUME NEW c \in Restarts, Restart(c) PROVE LifeInv'
  BY <1>9, RestartLife
<1>10. ASSUME NEW r \in Requests, Request(r) PROVE LifeInv'
  BY <1>10, RequestLife
<1>11. ASSUME NEW r \in Requests, CancelRequest(r) PROVE LifeInv'
  <2>1. CASE outcome[r] = "pending"
    BY <1>11, <2>1, SettleLife DEF CancelRequest, Ids
  <2>2. CASE outcome[r] # "pending"
    BY <1>11, <2>2, LifeUnchanged DEF CancelRequest, crashVars, promptVars
  <2> QED BY <2>1, <2>2
<1>12. ASSUME NEW i \in Ids, Answer(i) \/ Deadline(i) PROVE LifeInv'
  BY <1>12, SettleLife DEF Answer, Deadline
<1>13. ASSUME NEW g \in Engines, NEW k \in Prompts,
              (\E r \in Requests : PromptArrives(g, k, r)) \/ PromptWithdrawn(g, k) \/ PromptSettles(g, k)
       PROVE  LifeInv'
  BY <1>13, PromptLife
<1>14. CASE UNCHANGED vars
  BY <1>14, LifeUnchanged DEF vars, requestVars, promptVars, crashVars
<1> QED
  BY <1>1, <1>2, <1>3, <1>4, <1>5, <1>6, <1>7, <1>8, <1>9, <1>10, <1>11, <1>12, <1>13, <1>14
  DEF Next, Continue
-----------------------------------------------------------------------------
LEMMA StepPrompt == ASSUME ClientInv, [Next]_vars PROVE PromptInv'
<1> USE DEF ClientInv
<1>0. Later /\ OneEngine /\ generation \in Nat /\ alive \in BOOLEAN
  BY ClientAssumption DEF LifeInv, TypeOK
<1>1. CASE Start
  BY <1>0, <1>1, StartUps, Quiet DEF Start
<1>2. CASE CrashAges
  BY <1>2, SameProcs, Quiet DEF CrashAges, lifeVars
<1>3. CASE Dispose
  <2>1. /\ CancelInbound /\ proc' = Killed(generation) /\ pauses' = pauses /\ timer' = Stopped(Ids)
        /\ \A i \in Ids : outcome'[i] = AllFailed[i]
    BY <1>3 DEF Dispose
  <2> QED BY <2>1, KilledUps, AllFailedMoves, PromptsMove
<1>4. ASSUME NEW g \in Engines, HandshakeEnds(g) PROVE PromptInv'
  BY <1>4, HandshakeUps, Quiet DEF HandshakeEnds
<1>5. ASSUME NEW g \in Engines, StartFails(g) PROVE PromptInv'
  <2>1. UpAsBefore
    BY <1>5 DEF StartFails, TypeOK, UpAsBefore
  <2> QED BY <1>5, <2>1, Quiet DEF StartFails
<1>6. ASSUME NEW c \in Restarts, RestartResumes(c) PROVE PromptInv'
  <2>1. /\ UNCHANGED <<promptVars, pauses, proc, timer>>
        /\ outcome' = outcome \/ \E to \in {"answered", "failed"} : outcome' = [outcome EXCEPT ![c] = to]
    BY <1>6 DEF RestartResumes, lifeVars
  <2>2. \A i \in Ids : outcome'[i] = outcome[i]
    BY <2>1, Apart DEF TypeOK
  <2>3. timer' \in [Ids -> BOOLEAN] /\ \A i \in Ids : Moves(i)
    BY <2>1, <2>2 DEF Moves, TypeOK
  <2> QED BY <2>1, <2>3, SameProcs, RequestsMove
<1>7. ASSUME NEW r \in Requests, RequestResumes(r) PROVE PromptInv'
  <2>1. UNCHANGED <<promptVars, pauses, proc>> /\ Waits(r) /\ r \in Ids
    BY <1>7 DEF RequestResumes, Resumable, Waits, lifeVars, Ids
  <2>2. CASE SendRequest(r)
    BY <2>1, <2>2, SendRequestMoves, SameProcs, RequestsMove
  <2>3. CASE outcome' = [outcome EXCEPT ![r] = "failed"] /\ timer' = timer
    <3>1. ~timer[r]
      BY <2>1 DEF PromptInv, DeadlineExact, Waits
    <3>2. timer' \in [Ids -> BOOLEAN] /\ \A i \in Ids : Moves(i)
      BY <2>1, <2>3, <3>1 DEF Moves, TypeOK, Settled
    <3> QED BY <2>1, <3>2, SameProcs, RequestsMove
  <2> QED BY <1>7, <2>2, <2>3 DEF RequestResumes
<1>8. ASSUME NEW g \in Engines, StartDone(g) PROVE PromptInv'
  <2>1. UNCHANGED <<promptVars, pauses, proc>> /\ g \in Ids /\ Sent(g, alive') /\ alive' \in BOOLEAN
    BY <1>0, <1>8 DEF StartDone, Ids
  <2>2. Waits(g)
    BY <1>0, <1>8 DEF StartDone, Waits, Later
  <2> QED BY <2>1, <2>2, SentMoves, SameProcs, RequestsMove
<1>9. ASSUME NEW g \in Engines, Exit(g) PROVE PromptInv'
  <2>1. pauses' = pauses /\ proc' = [proc EXCEPT ![g] = "dead"]
    BY <1>9 DEF Exit
  <2>2. UpAsBefore
    BY <2>1 DEF TypeOK, UpAsBefore
  <2>3. CASE IsCurrent(g)
    <3>1. CancelInbound /\ timer' = Stopped(Ids) /\ \A i \in Ids : outcome'[i] = AllFailed[i]
      BY <1>9, <2>3 DEF Exit
    <3> QED BY <2>1, <2>2, <3>1, AllFailedMoves, PromptsMove
  <2>4. CASE ~IsCurrent(g)
    <3>1. UNCHANGED <<outcome, timer, promptVars>>
      BY <1>9, <2>4 DEF Exit
    <3>2. timer' \in [Ids -> BOOLEAN] /\ \A i \in Ids : Moves(i)
      BY <3>1 DEF TypeOK, Moves
    <3> QED BY <2>1, <2>2, <3>1, <3>2, RequestsMove
  <2> QED BY <2>3, <2>4
<1>10. ASSUME NEW g \in Engines, RespawnFires(g) PROVE PromptInv'
  <2>1. UpAsBefore
    <3>1. CASE UNCHANGED proc
      BY <3>1, SameProcs
    <3>2. CASE SpawnEngine(generation + 1)
      BY <1>0, <3>2, SpawnUps
    <3> QED BY <1>10, <3>1, <3>2 DEF RespawnFires
  <2> QED BY <1>10, <2>1, Quiet DEF RespawnFires
<1>11. ASSUME NEW c \in Restarts, Restart(c) PROVE PromptInv'
  <2>1. /\ CancelInbound /\ SpawnEngine(generation + 2) /\ pauses' = pauses /\ timer' = Stopped(Ids)
        /\ outcome' = [AllFailed EXCEPT ![c] = "starting"]
    BY <1>11 DEF Restart
  <2>2. \A i \in Ids : outcome'[i] = AllFailed[i]
    BY <2>1, Apart DEF AllFailed
  <2>3. UpAsBefore
    BY <1>0, <2>1, SpawnUps
  <2> QED BY <2>1, <2>2, <2>3, AllFailedMoves, PromptsMove
<1>12. ASSUME NEW r \in Requests, Request(r) PROVE PromptInv'
  <2>1. UNCHANGED <<promptVars, pauses>> /\ Waits(r) /\ r \in Ids
    BY <1>12 DEF Request, Waits, Ids
  <2>2. CASE host.autoStart
    <3>1. /\ StartCall /\ timer' = timer
          /\ \E to \in {"failed", "starting"} : outcome' = [outcome EXCEPT ![r] = to]
      BY <1>12, <2>2 DEF Request
    <3>2. ~timer[r]
      BY <2>1 DEF PromptInv, DeadlineExact, Waits
    <3>3. timer' \in [Ids -> BOOLEAN] /\ \A i \in Ids : Moves(i)
      BY <2>1, <3>1, <3>2 DEF Moves, TypeOK, Settled, Waits
    <3> QED BY <1>0, <2>1, <3>1, <3>3, StartUps, RequestsMove
  <2>3. CASE ~host.autoStart
    <3>1. SendRequest(r) /\ UNCHANGED proc
      BY <1>12, <2>3 DEF Request, lifeVars
    <3> QED BY <2>1, <3>1, SendRequestMoves, SameProcs, RequestsMove
  <2> QED BY <2>2, <2>3
<1>13. ASSUME NEW i \in Ids, NEW how \in Settled, Settle(i, how) PROVE PromptInv'
  <2>1. UNCHANGED <<promptVars, pauses, proc>>
    BY <1>13 DEF Settle, lifeVars
  <2> QED BY <1>13, <2>1, SettleMoves, SameProcs, RequestsMove
<1>14. ASSUME NEW r \in Requests, CancelRequest(r) PROVE PromptInv'
  <2>1. CASE outcome[r] = "pending"
    BY <1>13, <1>14, <2>1 DEF CancelRequest, Ids, Settled
  <2>2. CASE outcome[r] # "pending"
    <3>1. UNCHANGED <<promptVars, pauses, proc, outcome, timer>>
      BY <1>14, <2>2 DEF CancelRequest, lifeVars
    <3>2. timer' \in [Ids -> BOOLEAN] /\ \A i \in Ids : Moves(i)
      BY <3>1 DEF TypeOK, Moves
    <3> QED BY <3>1, <3>2, SameProcs, RequestsMove
  <2> QED BY <2>1, <2>2
<1>15. ASSUME NEW i \in Ids, Answer(i) \/ Deadline(i) PROVE PromptInv'
  BY <1>13, <1>15 DEF Answer, Deadline, Settled
<1>16. ASSUME NEW g \in Engines, NEW k \in Prompts, NEW r \in Requests, PromptArrives(g, k, r)
       PROVE  PromptInv'
  BY <1>0, <1>16, ArrivesKeeps
<1>17. ASSUME NEW g \in Engines, NEW k \in Prompts, PromptWithdrawn(g, k) \/ PromptSettles(g, k)
       PROVE  PromptInv'
  BY <1>17, WithdrawnKeeps, SettlesKeeps
<1>18. CASE UNCHANGED vars
  BY <1>18, SameProcs, Quiet DEF vars, lifeVars
<1>19. ASSUME NEW c \in Askers, RestartResumes(c) \/ RequestResumes(c) PROVE PromptInv'
  BY <1>6, <1>7, <1>19 DEF RestartResumes, RequestResumes
<1> QED
  BY <1>1, <1>2, <1>3, <1>4, <1>5, <1>8, <1>9, <1>10, <1>11, <1>12, <1>14, <1>15, <1>16, <1>17,
     <1>18, <1>19 DEF Next, Continue
-----------------------------------------------------------------------------
(* A client whose host starts it once. *)
LEMMA NotBetween ==
  ASSUME TypeOK, OrphanInv, ~host.autoStart, NEW g \in Engines, Exits(g) PROVE armed = {}
  BY DEF OrphanInv, StartedOnce, Between, Exits

\* What it sends goes to the current engine, which there is.
LEMMA SentOrphans ==
  ASSUME TypeOK, LifeInv, OrphanInv, UNCHANGED <<generation, proc, ready, crashVars, host>>,
         NEW i \in Ids, NEW up \in BOOLEAN, Sent(i, up), up => armed = {} /\ generation # 0,
         alive' \in BOOLEAN, alive' => armed = {} /\ generation # 0,
         \A g \in Engines : spawn'[g] = "starting" => spawn[g] = "starting"
  PROVE  OrphanInv'
<1> SUFFICES ASSUME ~host.autoStart PROVE StartedOnce'
  BY DEF OrphanInv
<1>1. StartedOnce
  BY DEF OrphanInv
<1>2. \A j \in Ids : \/ outcome'[j] = outcome[j] /\ home'[j] = home[j]
                     \/ outcome'[j] # "pending"
                     \/ up /\ home'[j] = generation
  BY DEF Sent, TypeOK
<1>3. PendingOfCurrentGeneration'
  BY <1>1, <1>2 DEF StartedOnce, PendingOfCurrentGeneration, Pending
<1>4. generation = 0 \/ armed # {} => Pending' = {} /\ ~alive'
  <2> SUFFICES ASSUME generation = 0 \/ armed # {} PROVE Pending' = {} /\ ~alive'
    OBVIOUS
  <2>1. ~up /\ ~alive' /\ Pending = {}
    BY <1>1 DEF StartedOnce
  <2>2. \A j \in Ids : outcome'[j] # "pending"
    BY <2>1 DEF Sent, TypeOK, Pending
  <2> QED BY <2>1, <2>2 DEF Pending
<1> QED BY <1>1, <1>3, <1>4 DEF StartedOnce, crashVars, GivenUpStaysDown, Between, Exits

LEMMA StartDoneOrphans ==
  ASSUME TypeOK, LifeInv, OrphanInv, NEW g \in Engines, StartDone(g) PROVE OrphanInv'
<1> SUFFICES ASSUME ~host.autoStart PROVE OrphanInv'
  BY DEF OrphanInv, StartDone
<1>1. /\ spawn[g] = "starting" /\ spawn' = [spawn EXCEPT ![g] = "handshake"] /\ Sent(g, alive')
      /\ alive' = (alive \/ g = generation) /\ UNCHANGED <<generation, proc, ready, crashVars, host>>
  BY DEF StartDone
<1>2. alive' \in BOOLEAN /\ g \in Ids /\ \A h \in Engines : spawn'[h] = "starting" => spawn[h] = "starting"
  BY <1>1 DEF TypeOK, Ids
<1>3. alive' => armed = {} /\ generation # 0
  <2>1. alive => armed = {} /\ generation # 0
    BY DEF OrphanInv, StartedOnce
  <2>2. g = generation => armed = {}
    BY <1>1 DEF OrphanInv, StartedOnce, Between
  <2>3. g # 0
    BY DEF Engines
  <2> QED BY <1>1, <2>1, <2>2, <2>3
<1> QED BY <1>1, <1>2, <1>3, SentOrphans

\* Nothing is in flight after abandonAll.
LEMMA NothingPending ==
  ASSUME TypeOK, \A i \in Ids : outcome'[i] = AllFailed[i] PROVE Pending' = {}
  BY DEF AllFailed, Pending, Ids

LEMMA ExitOrphans ==
  ASSUME TypeOK, LifeInv, OrphanInv, NEW g \in Engines, Exit(g) PROVE OrphanInv'
<1> SUFFICES ASSUME ~host.autoStart PROVE StartedOnce'
  BY DEF OrphanInv, Exit
<1>1. /\ StartedOnce /\ proc[g] \in {"up", "killed"} /\ spawn[g] # "starting"
      /\ proc' = [proc EXCEPT ![g] = "dead"] /\ UNCHANGED <<generation, spawn, home, host>>
  BY DEF OrphanInv, Exit
<1>2. CASE ~IsCurrent(g)
  <2>1. UNCHANGED <<alive, outcome, crashVars>>
    BY <1>2 DEF Exit
  <2>2. \A h \in Engines : Exits(h)' => Exits(h)
    BY <1>1 DEF Exits, TypeOK
  <2>3. armed # {} => Between'
    BY <1>1, <2>1 DEF StartedOnce, Between, crashVars, TypeOK
  <2> QED BY <1>1, <2>1, <2>2, <2>3
          DEF StartedOnce, PendingOfCurrentGeneration, Pending, GivenUpStaysDown, crashVars
<1>3. CASE IsCurrent(g)
  <2>1. Exits(g) /\ g = generation
    BY <1>1, <1>3 DEF Exits, IsCurrent
  <2>2. armed = {} /\ crashes <= host.maxCrashes
    BY <1>1, <2>1, NotBetween DEF StartedOnce
  <2>3. alive' = FALSE /\ Pending' = {} /\ ScheduleRespawn(g)
    BY <1>3, NothingPending DEF Exit
  <2>4. crashes \in Nat /\ host.maxCrashes \in Nat /\ g # 0
    BY Numbers, Apart DEF Engines
  <2>5. crashes' = crashes + 1 /\ \/ crashes + 1 > host.maxCrashes /\ gaveUp' = TRUE /\ armed' = {}
                                  \/ /\ crashes + 1 <= host.maxCrashes /\ gaveUp' = gaveUp
                                     /\ armed' = {g} /\ respawnTimer' = g
    BY <2>2, <2>3, <2>4 DEF ScheduleRespawn, TooMany
  <2>6. \A h \in Engines : ~Exits(h)'
    BY <1>1, <2>1 DEF Exits, TypeOK
  <2>7. CASE armed' = {}
    <3>1. PendingOfCurrentGeneration' /\ GivenUpStaysDown'
      BY <1>1, <2>2, <2>3, <2>4, <2>5, <2>7 DEF PendingOfCurrentGeneration, GivenUpStaysDown
    <3> QED BY <1>1, <2>1, <2>3, <2>4, <2>6, <2>7, <3>1 DEF StartedOnce
  <2>8. CASE crashes + 1 <= host.maxCrashes /\ gaveUp' = gaveUp /\ armed' = {g} /\ respawnTimer' = g
    <3>1. ~gaveUp
      BY <1>1, <2>1 DEF StartedOnce
    <3>2. PendingOfCurrentGeneration' /\ GivenUpStaysDown'
      BY <1>1, <2>2, <2>3, <2>4, <2>5, <2>8, <3>1 DEF PendingOfCurrentGeneration, GivenUpStaysDown
    <3>3. Between'
      BY <1>1, <2>1, <2>4, <2>5, <2>8, <3>1 DEF Between, TypeOK
    <3> QED BY <1>1, <2>1, <2>3, <2>4, <2>6, <3>1, <3>2, <3>3, <2>8 DEF StartedOnce
  <2> QED BY <2>5, <2>7, <2>8
<1> QED BY <1>2, <1>3

\* What an engine does for itself, and what becomes of callers, orphans nothing.
LEMMA OrphansStay ==
  ASSUME TypeOK, OrphanInv, UNCHANGED <<generation, crashVars, home, host>>,
         (alive' => alive),
         \A i \in Ids : outcome'[i] = "pending" => outcome[i] = "pending",
         \A g \in Engines : proc'[g] \in {"up", "killed"} => proc[g] \in {"up", "killed"},
         \A g \in Engines : proc[g] = "dead" => proc'[g] = "dead" \/ spawn[g] = "starting",
         \A g \in Engines : spawn'[g] = "starting" => spawn[g] = "starting"
  PROVE  OrphanInv'
<1> SUFFICES ASSUME ~host.autoStart PROVE StartedOnce'
  BY DEF OrphanInv
<1>1. StartedOnce
  BY DEF OrphanInv
<1>2. Pending' \subseteq Pending /\ \A i \in Ids : outcome'[i] = "pending" => i \in Pending
  BY DEF Pending
<1>3. PendingOfCurrentGeneration' /\ GivenUpStaysDown'
  BY <1>1, <1>2 DEF StartedOnce, PendingOfCurrentGeneration, Pending, GivenUpStaysDown, crashVars
<1>4. armed # {} => Between'
  BY <1>1 DEF StartedOnce, Between, crashVars
<1>5. \A g \in Engines : Exits(g)' => ~gaveUp' /\ crashes' <= host'.maxCrashes
  BY <1>1 DEF StartedOnce, crashVars, Exits
<1>6. (generation = 0 \/ armed # {} => ~alive' /\ Pending' = {}) /\ (generation = 0 => ~gaveUp)
  <2>1. StartedOnce => /\ generation = 0 \/ armed # {} => ~alive /\ Pending = {}
                       /\ generation = 0 => ~gaveUp
    BY DEF StartedOnce
  <2> QED BY <1>1, <1>2, <2>1
<1>7. UNCHANGED <<generation, armed, gaveUp>>
  BY DEF crashVars
<1> QED BY <1>3, <1>4, <1>5, <1>6, <1>7 DEF StartedOnce, Exits

\* A new engine of such a client has nothing in flight, and no timer beside it.
LEMMA OrphansBegin ==
  ASSUME TypeOK, NEW g \in Engines, SpawnEngine(g), host' = host,
         ~host.autoStart => /\ Pending' = {} /\ armed' = {} /\ ~gaveUp'
                            /\ crashes' \in Nat /\ crashes' <= host.maxCrashes
  PROVE  OrphanInv'
<1> SUFFICES ASSUME ~host.autoStart PROVE StartedOnce'
  BY DEF OrphanInv
<1>1. generation' # 0 /\ host.maxCrashes \in Nat
  BY Numbers, Apart DEF SpawnEngine, Engines
<1>2. PendingOfCurrentGeneration' /\ GivenUpStaysDown'
  BY <1>1 DEF PendingOfCurrentGeneration, GivenUpStaysDown
<1> QED BY <1>1, <1>2 DEF StartedOnce

LEMMA StartOrphans ==
  ASSUME TypeOK, LifeInv, OrphanInv, Start PROVE OrphanInv'
<1> SUFFICES ASSUME StartedOnce PROVE OrphanInv'
  BY DEF Start, OrphanInv
<1>1. /\ generation = 0 /\ ~gaveUp /\ armed = {} /\ Pending = {}
  BY Apart DEF StartedOnce, Between, Start, Engines
<1>2. gaveUp' = FALSE /\ UNCHANGED <<alive, armed, respawnTimer, crashes, outcome, home, host>> /\ StartCall
  BY <1>1 DEF Start, StartCall, requestVars, TypeOK
<1>3. Pending' = {} /\ crashes = 0 /\ host.maxCrashes \in Nat
  BY <1>1, <1>2, Numbers DEF Pending, LifeInv, CrashesCounted
<1>4. CASE SpawnEngine(generation + 1)
  <2>1. generation + 1 \in Engines
    BY <1>1, <1>4, Numbers DEF SpawnEngine, Engines
  <2> QED BY <1>1, <1>2, <1>3, <1>4, <2>1, OrphansBegin
<1>5. CASE UNCHANGED <<generation, proc, spawn, ready>>
  <2>1. UNCHANGED <<crashVars, home, host>>
    BY <1>1, <1>2 DEF crashVars, TypeOK
  <2> QED BY <1>2, <1>5, <2>1, OrphansStay
<1> QED BY <1>2, <1>4, <1>5 DEF StartCall

LEMMA RespawnOrphans ==
  ASSUME TypeOK, LifeInv, OrphanInv, NEW t \in Engines, RespawnFires(t) PROVE OrphanInv'
<1> SUFFICES ASSUME ~host.autoStart PROVE OrphanInv'
  BY DEF OrphanInv, RespawnFires
<1>1. /\ t \in armed /\ armed' = armed \ {t} /\ UNCHANGED <<alive, crashes, gaveUp, outcome, home, host>>
      /\ StartedOnce
  BY DEF RespawnFires, requestVars, OrphanInv
<1>2. armed' = {} /\ Between /\ Pending = {} /\ Pending' = {} /\ ~alive
  BY <1>1 DEF StartedOnce, Between, Pending
<1>3. CASE disposed
  <2>1. UNCHANGED <<generation, proc, spawn, ready>>
    BY <1>3 DEF RespawnFires
  <2> QED BY <1>1, <1>2, <2>1
          DEF OrphanInv, StartedOnce, PendingOfCurrentGeneration, GivenUpStaysDown, Exits
<1>4. CASE ~disposed
  <2>1. SpawnEngine(generation + 1)
    BY <1>4 DEF RespawnFires
  <2>2. generation + 1 \in Engines /\ crashes \in Nat
    BY <2>1, Numbers DEF SpawnEngine, Engines
  <2> QED BY <1>1, <1>2, <2>1, <2>2, OrphansBegin DEF Between
<1> QED BY <1>3, <1>4

LEMMA RestartOrphans ==
  ASSUME TypeOK, LifeInv, OrphanInv, NEW c \in Restarts, Restart(c) PROVE OrphanInv'
<1>1. /\ armed' = Cleared /\ outcome' = [AllFailed EXCEPT ![c] = "starting"] /\ crashes' = 0
      /\ gaveUp' = FALSE /\ SpawnEngine(generation + 2) /\ host' = host
  BY DEF Restart
<1>2. Pending' = {}
  BY <1>1, NothingPending, Apart DEF AllFailed
<1>3. ~host.autoStart => armed' = {}
  BY <1>1 DEF OrphanInv, StartedOnce, Between, Cleared
<1>4. generation + 2 \in Engines /\ host.maxCrashes \in Nat
  BY <1>1, Numbers DEF SpawnEngine, Engines
<1> QED BY <1>1, <1>2, <1>3, <1>4, OrphansBegin

LEMMA DisposeOrphans ==
  ASSUME TypeOK, LifeInv, OrphanInv, Dispose PROVE OrphanInv'
<1> SUFFICES ASSUME ~host.autoStart PROVE OrphanInv'
  BY DEF OrphanInv, Dispose
<1>1. /\ armed' = Cleared /\ proc' = Killed(generation) /\ \A i \in Ids : outcome'[i] = AllFailed[i]
      /\ UNCHANGED <<generation, alive, crashes, gaveUp, host>> /\ StartedOnce
  BY DEF Dispose, OrphanInv
<1>2. armed' = {} /\ Pending' = {}
  BY <1>1, NothingPending DEF StartedOnce, Between, Cleared
<1>3. \A g \in Engines : Exits(g)' => Exits(g)
  BY <1>1 DEF Exits, Killed
<1>4. Pending = {} => ~alive' \/ ~(generation = 0 \/ armed # {})
  BY <1>1 DEF StartedOnce
<1>5. generation = 0 => ~alive'
  BY <1>1 DEF StartedOnce
<1> QED BY <1>1, <1>2, <1>3, <1>5
        DEF OrphanInv, StartedOnce, PendingOfCurrentGeneration, GivenUpStaysDown

LEMMA HandshakeOrphans ==
  ASSUME TypeOK, OrphanInv, NEW g \in Engines, HandshakeEnds(g) \/ StartFails(g) PROVE OrphanInv'
<1>1. CASE HandshakeEnds(g)
  <2>1. UNCHANGED <<generation, crashVars, outcome, home, host>>
    BY <1>1 DEF HandshakeEnds, requestVars
  <2>2. /\ (alive' => alive)
        /\ \A h \in Engines : spawn'[h] = "starting" => spawn[h] = "starting"
        /\ \A h \in Engines : proc'[h] \in {"up", "killed"} => proc[h] \in {"up", "killed"}
        /\ \A h \in Engines : proc[h] = "dead" => proc'[h] = "dead"
    BY <1>1 DEF HandshakeEnds, Killed, TypeOK
  <2> QED BY <2>1, <2>2, OrphansStay
<1>2. CASE StartFails(g)
  <2>1. UNCHANGED <<generation, alive, crashVars, outcome, home, host>>
    BY <1>2 DEF StartFails, requestVars
  <2>2. /\ \A h \in Engines : spawn'[h] = "starting" => spawn[h] = "starting"
        /\ \A h \in Engines : proc'[h] \in {"up", "killed"} => proc[h] \in {"up", "killed"}
        /\ \A h \in Engines : proc[h] = "dead" => proc'[h] = "dead" \/ spawn[h] = "starting"
    BY <1>2 DEF StartFails, TypeOK
  <2> QED BY <2>1, <2>2, OrphansStay
<1> QED BY <1>1, <1>2

\* A request of such a client is sent at once.
LEMMA SendRequestOrphans ==
  ASSUME TypeOK, LifeInv, OrphanInv, NEW r \in Requests, SendRequest(r),
         UNCHANGED <<lifeVars, crashVars, host>>
  PROVE  OrphanInv'
<1> SUFFICES ASSUME ~host.autoStart PROVE OrphanInv'
  BY DEF OrphanInv
<1>1. r \in Ids /\ alive \in BOOLEAN /\ (alive => armed = {} /\ generation # 0)
  BY DEF TypeOK, Ids, OrphanInv, StartedOnce
<1>2. CASE Sent(r, alive)
  BY <1>1, <1>2, SentOrphans DEF lifeVars
<1>3. CASE outcome' = [outcome EXCEPT ![r] = "cancelled"] /\ home' = home
  BY <1>1, <1>3, OrphansStay DEF lifeVars, TypeOK
<1> QED BY <1>2, <1>3 DEF SendRequest

LEMMA SettleOrphans ==
  ASSUME TypeOK, OrphanInv, NEW i \in Ids, NEW how \in Settled, Settle(i, how) PROVE OrphanInv'
<1>1. UNCHANGED <<lifeVars, crashVars, home, host>> /\ \A j \in Ids : outcome'[j] = "pending" => outcome[j] = "pending"
  BY DEF Settle, TypeOK, Settled
<1> QED BY <1>1, OrphansStay DEF lifeVars

LEMMA StepOrphans == ASSUME ClientInv, [Next]_vars PROVE OrphanInv'
<1> USE DEF ClientInv
<1>1. ASSUME UNCHANGED <<lifeVars, crashVars, outcome, home, host>> PROVE OrphanInv'
  BY <1>1, OrphansStay DEF lifeVars
<1>2. CASE CrashAges
  <2>1. crashes' = crashes - 1 /\ crashes > 0 /\ crashes \in Nat
        /\ UNCHANGED <<lifeVars, armed, respawnTimer, gaveUp, outcome, home, host>>
    BY <1>2, ClientAssumption DEF CrashAges, requestVars, TypeOK
  <2>2. host.maxCrashes \in Nat
    BY Numbers
  <2> QED BY <2>1, <2>2 DEF OrphanInv, StartedOnce, PendingOfCurrentGeneration, Pending,
                           GivenUpStaysDown, Between, Exits, lifeVars
<1>3. ASSUME NEW c \in Restarts, RestartResumes(c) PROVE OrphanInv'
  <2>1. UNCHANGED <<lifeVars, crashVars, home, host>> /\ \A i \in Ids : outcome'[i] = outcome[i]
    BY <1>3, Apart DEF RestartResumes, TypeOK
  <2> QED BY <2>1, OrphansStay DEF lifeVars
<1>4. ASSUME NEW r \in Requests, RequestResumes(r) PROVE OrphanInv'
  <2>1. UNCHANGED <<lifeVars, crashVars, host>>
    BY <1>4 DEF RequestResumes
  <2>2. CASE SendRequest(r)
    BY <2>1, <2>2, SendRequestOrphans
  <2>3. CASE outcome' = [outcome EXCEPT ![r] = "failed"] /\ home' = home
    BY <2>1, <2>3, OrphansStay DEF lifeVars, TypeOK, Ids
  <2> QED BY <1>4, <2>2, <2>3 DEF RequestResumes
<1>5. ASSUME NEW r \in Requests, Request(r) PROVE OrphanInv'
  <2>1. CASE host.autoStart
    BY <1>5, <2>1 DEF Request, OrphanInv
  <2>2. CASE ~host.autoStart
    BY <1>5, <2>2, SendRequestOrphans DEF Request
  <2> QED BY <2>1, <2>2
<1>6. ASSUME NEW r \in Requests, CancelRequest(r) PROVE OrphanInv'
  <2>1. CASE outcome[r] = "pending"
    BY <1>6, <2>1, SettleOrphans DEF CancelRequest, Ids, Settled
  <2>2. CASE outcome[r] # "pending"
    BY <1>1, <1>6, <2>2 DEF CancelRequest
  <2> QED BY <2>1, <2>2
<1>7. ASSUME NEW i \in Ids, Answer(i) \/ Deadline(i) PROVE OrphanInv'
  BY <1>7, SettleOrphans DEF Answer, Deadline, Settled
<1>8. ASSUME NEW g \in Engines, NEW k \in Prompts,
             (\E r \in Requests : PromptArrives(g, k, r)) \/ PromptWithdrawn(g, k) \/ PromptSettles(g, k)
      PROVE  OrphanInv'
  BY <1>1, <1>8 DEF PromptArrives, PromptWithdrawn, PromptSettles, requestVars
<1>9. ASSUME NEW g \in Engines, StartDone(g) \/ StartFails(g) \/ HandshakeEnds(g) \/ Exit(g) \/ RespawnFires(g)
      PROVE  OrphanInv'
  BY <1>9, StartDoneOrphans, HandshakeOrphans, ExitOrphans, RespawnOrphans
<1>10. CASE Start \/ Dispose
  BY <1>10, StartOrphans, DisposeOrphans
<1>11. ASSUME NEW c \in Restarts, Restart(c) PROVE OrphanInv'
  BY <1>11, RestartOrphans
<1>12. CASE UNCHANGED vars
  BY <1>1, <1>12 DEF vars, requestVars
<1>13. ASSUME NEW c \in Askers, RestartResumes(c) \/ RequestResumes(c) PROVE OrphanInv'
  BY <1>3, <1>4, <1>13 DEF RestartResumes, RequestResumes
<1> QED
  BY <1>2, <1>5, <1>6, <1>7, <1>8, <1>9, <1>10, <1>11, <1>12, <1>13 DEF Next, Continue
-----------------------------------------------------------------------------
(* Types. *)
LifeType ==
  /\ generation \in 0..MaxGenerations /\ ready \in 0..MaxGenerations
  /\ proc \in [Engines -> {"none", "up", "killed", "dead", "unloaded"}]
  /\ spawn \in [Engines -> {"none", "starting", "handshake", "ok", "failed"}]
  /\ alive \in BOOLEAN /\ gaveUp \in BOOLEAN /\ disposed \in BOOLEAN
  /\ armed \subseteq Engines /\ respawnTimer \in 0..MaxGenerations /\ host \in Hosts

RequestType ==
  /\ outcome \in [Ids \cup Restarts -> {"unsent", "starting", "pending"} \cup Settled]
  /\ home \in [Ids -> 0..MaxGenerations] /\ timer \in [Ids -> BOOLEAN]
  /\ waitsOn \in [Askers -> 0..MaxGenerations] /\ withdrawn \subseteq Requests

PromptType ==
  /\ pauses \in [Ids -> 0..Cardinality(Engines \X Prompts)]
  /\ inbound \in [Prompts -> 0..MaxGenerations]
  /\ prompt \in [Engines -> [Prompts -> {"none", "open", "cancelled", "settled"}]]
  /\ asksFor \in [Engines -> [Prompts -> Requests \cup {NoRequest}]]

LEMMA Types == TypeOK <=> LifeType /\ RequestType /\ PromptType /\ crashes \in 0..MaxGenerations
  BY DEF TypeOK, LifeType, RequestType, PromptType

LEMMA SpawnType ==
  ASSUME TypeOK, NEW g \in Nat, g > 0, SpawnEngine(g)
  PROVE  /\ generation' \in 1..MaxGenerations /\ ready' \in 0..MaxGenerations
         /\ proc' \in [Engines -> {"none", "up", "killed", "dead", "unloaded"}]
         /\ spawn' \in [Engines -> {"none", "starting", "handshake", "ok", "failed"}]
<1>1. g \in 1..MaxGenerations
  BY Numbers DEF SpawnEngine
<1>2. Killed(generation) \in [Engines -> {"none", "up", "killed", "dead", "unloaded"}]
  BY DEF Killed, TypeOK
<1>3. LifeType /\ generation \in Nat /\ g \in Engines
  BY <1>1, Types, Numbers DEF Engines
<1>4. proc' = [Killed(generation) EXCEPT ![g] = "up"]
  BY DEF SpawnEngine
<1>5. proc' \in [Engines -> {"none", "up", "killed", "dead", "unloaded"}]
  BY <1>2, <1>4
<1> QED BY <1>1, <1>3, <1>5 DEF SpawnEngine, LifeType

LEMMA StartCallType ==
  ASSUME TypeOK, StartCall, UNCHANGED <<disposed, host>> PROVE LifeType'
<1>1. CASE SpawnEngine(generation + 1)
  <2>1. generation + 1 \in Nat /\ generation + 1 > 0
    BY Numbers
  <2>2. /\ generation' \in 1..MaxGenerations /\ ready' \in 0..MaxGenerations
        /\ proc' \in [Engines -> {"none", "up", "killed", "dead", "unloaded"}]
        /\ spawn' \in [Engines -> {"none", "starting", "handshake", "ok", "failed"}]
    BY <1>1, <2>1, SpawnType
  <2> QED BY <2>2, Types DEF StartCall, LifeType
<1>2. CASE UNCHANGED <<generation, proc, spawn, ready>>
  BY <1>2, Types DEF StartCall, LifeType
<1> QED BY <1>1, <1>2 DEF StartCall

LEMMA SentType ==
  ASSUME TypeOK, NEW i \in Ids, NEW up, Sent(i, up)
  PROVE  /\ outcome' \in [Ids \cup Restarts -> {"unsent", "starting", "pending"} \cup Settled]
         /\ home' \in [Ids -> 0..MaxGenerations] /\ timer' \in [Ids -> BOOLEAN]
  BY DEF TypeOK, Sent, Settled

LEMMA SendRequestType ==
  ASSUME TypeOK, NEW r \in Requests, SendRequest(r), UNCHANGED <<waitsOn, withdrawn>> PROVE RequestType'
<1>1. r \in Ids
  BY DEF Ids
<1>2. CASE Sent(r, alive)
  BY <1>1, <1>2, SentType DEF RequestType, TypeOK
<1>3. CASE outcome' = [outcome EXCEPT ![r] = "cancelled"] /\ UNCHANGED <<home, timer>>
  BY <1>1, <1>3 DEF RequestType, TypeOK, Settled
<1> QED BY <1>2, <1>3 DEF SendRequest

LEMMA AllFailedType ==
  ASSUME TypeOK
  PROVE  /\ AllFailed \in [Ids \cup Restarts -> {"unsent", "starting", "pending"} \cup Settled]
         /\ \A ids : Stopped(ids) \in [Ids -> BOOLEAN]
  BY DEF TypeOK, AllFailed, Settled, Stopped

LEMMA CancelInboundType ==
  ASSUME TypeOK, CancelInbound, UNCHANGED pauses PROVE PromptType'
<1>1. PromptsCancelled \in [Engines -> [Prompts -> {"none", "open", "cancelled", "settled"}]]
  BY DEF PromptsCancelled, TypeOK
<1>2. 0 \in 0..MaxGenerations
  BY Numbers
<1> QED BY <1>1, <1>2, Types DEF CancelInbound, PromptType

LEMMA TypeUnchanged ==
  ASSUME TypeOK
  PROVE  /\ UNCHANGED <<lifeVars, crashVars, disposed, host>> => LifeType'
         /\ UNCHANGED requestVars => RequestType' 
         /\ UNCHANGED <<promptVars, pauses>> => PromptType'
  BY DEF TypeOK, lifeVars, crashVars, requestVars, promptVars, LifeType, RequestType, PromptType

\* Most steps leave most of the variables alone.
LEMMA LifeStep ==
  ASSUME TypeOK, [Next]_vars PROVE LifeType'
<1>1. CASE Start
  BY <1>1, StartCallType DEF Start
<1>2. CASE CrashAges
  BY <1>2 DEF CrashAges, lifeVars, LifeType, TypeOK
<1>3. CASE Dispose
  <2>1. 0 \in 0..MaxGenerations
    BY Numbers
  <2>2. Killed(generation) \in [Engines -> {"none", "up", "killed", "dead", "unloaded"}]
    BY DEF Killed, TypeOK
  <2> QED BY <1>3, <2>1, <2>2, Types DEF Dispose, Cleared, LifeType
<1>4. ASSUME NEW g \in Engines, HandshakeEnds(g) PROVE LifeType'
  <2>1. 0 \in 0..MaxGenerations
    BY Numbers
  <2>2. Killed(g) \in [Engines -> {"none", "up", "killed", "dead", "unloaded"}]
    BY DEF Killed, TypeOK
  <2>3. CASE outcome[g] = "answered"
    BY <1>4, <2>3, Types DEF HandshakeEnds, crashVars, LifeType
  <2>4. CASE outcome[g] # "answered"
    BY <1>4, <2>1, <2>2, <2>4, Types DEF HandshakeEnds, crashVars, LifeType
  <2> QED BY <2>3, <2>4
<1>5. ASSUME NEW g \in Engines, StartFails(g) PROVE LifeType'
  BY <1>5 DEF StartFails, crashVars, LifeType, TypeOK
<1>6. ASSUME NEW g \in Engines, StartDone(g) PROVE LifeType'
  BY <1>6 DEF StartDone, crashVars, LifeType, TypeOK
<1>7. ASSUME NEW g \in Engines, Exit(g) PROVE LifeType'
  <2>1. /\ proc' = [proc EXCEPT ![g] = "dead"] /\ alive' \in {alive, FALSE}
        /\ armed' \in {armed, armed \cup {g}} /\ respawnTimer' \in {respawnTimer, g}
        /\ gaveUp' \in {gaveUp, TRUE} /\ UNCHANGED <<generation, ready, spawn, disposed, host>>
    BY <1>7 DEF Exit, ScheduleRespawn, crashVars
  <2>2. g \in 0..MaxGenerations
    BY DEF Engines
  <2> QED BY <2>1, <2>2 DEF LifeType, TypeOK
<1>8. ASSUME NEW g \in Engines, RespawnFires(g) PROVE LifeType'
  <2>1. CASE SpawnEngine(generation + 1)
    <3>1. generation + 1 \in Nat /\ generation + 1 > 0 /\ 0 \in 0..MaxGenerations
      BY Numbers
    <3>2. /\ generation' \in 1..MaxGenerations /\ ready' \in 0..MaxGenerations
          /\ proc' \in [Engines -> {"none", "up", "killed", "dead", "unloaded"}]
          /\ spawn' \in [Engines -> {"none", "starting", "handshake", "ok", "failed"}]
      BY <2>1, <3>1, SpawnType
    <3> QED BY <1>8, <3>1, <3>2, Types DEF RespawnFires, LifeType
  <2>2. CASE UNCHANGED <<generation, proc, spawn, ready>>
    <3>1. 0 \in 0..MaxGenerations
      BY Numbers
    <3> QED BY <1>8, <2>2, <3>1, Types DEF RespawnFires, LifeType
  <2> QED BY <1>8, <2>1, <2>2 DEF RespawnFires
<1>9. ASSUME NEW c \in Restarts, Restart(c) PROVE LifeType'
  <2>1. generation + 2 \in Nat /\ generation + 2 > 0 /\ 0 \in 0..MaxGenerations
    BY Numbers
  <2>2. SpawnEngine(generation + 2)
    BY <1>9 DEF Restart
  <2>3. /\ generation' \in 1..MaxGenerations /\ ready' \in 0..MaxGenerations
        /\ proc' \in [Engines -> {"none", "up", "killed", "dead", "unloaded"}]
        /\ spawn' \in [Engines -> {"none", "starting", "handshake", "ok", "failed"}]
    BY <2>1, <2>2, SpawnType
  <2>4. generation' \in 0..MaxGenerations
    BY <2>3
  <2> QED BY <1>9, <2>1, <2>3, <2>4, Types DEF Restart, Cleared, LifeType
<1>10. ASSUME NEW r \in Requests, Request(r) PROVE LifeType'
  <2>1. CASE host.autoStart
    BY <1>10, <2>1, StartCallType DEF Request
  <2>2. CASE ~host.autoStart
    BY <1>10, <2>2, TypeUnchanged DEF Request
  <2> QED BY <2>1, <2>2
<1>11. ASSUME NEW r \in Requests, CancelRequest(r) PROVE LifeType'
  BY <1>11, TypeUnchanged DEF CancelRequest, Settle
<1>12. ASSUME NEW i \in Ids, Answer(i) \/ Deadline(i) PROVE LifeType'
  BY <1>12, TypeUnchanged DEF Answer, Deadline, Settle
<1>13. ASSUME NEW g \in Engines, NEW k \in Prompts,
              (\E r \in Requests : PromptArrives(g, k, r)) \/ PromptWithdrawn(g, k) \/ PromptSettles(g, k)
       PROVE  LifeType'
  BY <1>13, TypeUnchanged DEF PromptArrives, PromptWithdrawn, PromptSettles
<1>14. ASSUME NEW c \in Askers, RestartResumes(c) \/ RequestResumes(c) PROVE LifeType'
  BY <1>14, TypeUnchanged DEF RestartResumes, RequestResumes
<1>15. CASE UNCHANGED vars
  BY <1>15, TypeUnchanged DEF vars
<1> QED
  BY <1>1, <1>2, <1>3, <1>4, <1>5, <1>6, <1>7, <1>8, <1>9, <1>10, <1>11, <1>12, <1>13, <1>14, <1>15
  DEF Next, Continue

LEMMA RequestStep ==
  ASSUME TypeOK, [Next]_vars PROVE RequestType'
<1>1. CASE Start \/ CrashAges
  BY <1>1, TypeUnchanged DEF Start, CrashAges
<1>2. CASE Dispose
  BY <1>2, AllFailedType DEF Dispose, RequestType, TypeOK
<1>3. ASSUME NEW g \in Engines, HandshakeEnds(g) \/ StartFails(g) \/ RespawnFires(g) PROVE RequestType'
  BY <1>3, TypeUnchanged DEF HandshakeEnds, StartFails, RespawnFires
<1>4. ASSUME NEW g \in Engines, StartDone(g) PROVE RequestType'
  <2>1. g \in Ids /\ Sent(g, alive') /\ UNCHANGED <<waitsOn, withdrawn>>
    BY <1>4 DEF StartDone, Ids
  <2> QED BY <2>1, SentType DEF RequestType, TypeOK
<1>5. ASSUME NEW g \in Engines, Exit(g) PROVE RequestType'
  BY <1>5, AllFailedType DEF Exit, RequestType, TypeOK
<1>6. ASSUME NEW c \in Restarts, Restart(c) PROVE RequestType'
  <2>1. ready' \in 0..MaxGenerations /\ c \in Askers
    BY <1>6, Numbers, SpawnType DEF Restart, Askers
  <2> QED BY <1>6, <2>1, AllFailedType DEF Restart, RequestType, TypeOK, Settled
<1>7. ASSUME NEW r \in Requests, Request(r) PROVE RequestType'
  <2>1. CASE host.autoStart
    <3>1. ready' \in 0..MaxGenerations /\ r \in Askers /\ r \in Ids
      BY <1>7, <2>1, StartCallType DEF Request, Askers, Ids, LifeType
    <3> QED BY <1>7, <2>1, <3>1 DEF Request, RequestType, TypeOK, Settled
  <2>2. CASE ~host.autoStart
    BY <1>7, <2>2, SendRequestType DEF Request
  <2> QED BY <2>1, <2>2
<1>8. ASSUME NEW i \in Ids, NEW how \in Settled, Settle(i, how), withdrawn' \subseteq Requests
      PROVE RequestType'
  BY <1>8, AllFailedType DEF Settle, RequestType, TypeOK, Ids
<1>9. ASSUME NEW r \in Requests, CancelRequest(r) PROVE RequestType'
  <2>1. withdrawn' \subseteq Requests
    BY <1>9 DEF CancelRequest, TypeOK
  <2>2. CASE outcome[r] = "pending"
    BY <1>8, <1>9, <2>1, <2>2 DEF CancelRequest, Ids, Settled
  <2>3. CASE outcome[r] # "pending"
    BY <1>9, <2>1, <2>3 DEF CancelRequest, RequestType, TypeOK
  <2> QED BY <2>2, <2>3
<1>10. ASSUME NEW i \in Ids, Answer(i) \/ Deadline(i) PROVE RequestType'
  BY <1>8, <1>10 DEF Answer, Deadline, Settled, TypeOK
<1>11. ASSUME NEW g \in Engines, NEW k \in Prompts, NEW r \in Requests, PromptArrives(g, k, r) PROVE RequestType'
  BY <1>11, AllFailedType DEF PromptArrives, RequestType, TypeOK
<1>12. ASSUME NEW g \in Engines, NEW k \in Prompts, PromptWithdrawn(g, k) PROVE RequestType'
  BY <1>12, TypeUnchanged DEF PromptWithdrawn
<1>13. ASSUME NEW g \in Engines, NEW k \in Prompts, PromptSettles(g, k) PROVE RequestType'
  <2>1. timer' \in [Ids -> BOOLEAN]
    <3>1. PICK r : r = asksFor[g][k]
      OBVIOUS
    <3>2. timer' = timer \/ timer' = [timer EXCEPT ![r] = @ \/ Resumes(r)]
      BY <1>13, <3>1 DEF PromptSettles
    <3>3. CASE timer' = [timer EXCEPT ![r] = @ \/ Resumes(r)]
      <4>1. timer' = [i \in Ids |-> IF i = r THEN timer[r] \/ Resumes(r) ELSE timer[i]]
        BY <3>3 DEF TypeOK
      <4>2. (timer[r] \/ Resumes(r)) \in BOOLEAN
        OBVIOUS
      <4> QED BY <4>1, <4>2 DEF TypeOK
    <3> QED BY <3>2, <3>3 DEF TypeOK
  <2> QED BY <1>13, <2>1 DEF PromptSettles, RequestType, TypeOK
<1>14. ASSUME NEW c \in Askers, RestartResumes(c) PROVE RequestType'
  BY <1>14 DEF RestartResumes, lifeVars, RequestType, TypeOK, Settled
<1>15. ASSUME NEW c \in Askers, RequestResumes(c) PROVE RequestType'
  <2>1. CASE SendRequest(c)
    BY <1>15, <2>1, SendRequestType DEF RequestResumes
  <2>2. CASE outcome' = [outcome EXCEPT ![c] = "failed"] /\ UNCHANGED <<home, timer>>
    BY <1>15, <2>2 DEF RequestResumes, RequestType, TypeOK, Settled
  <2> QED BY <1>15, <2>1, <2>2 DEF RequestResumes
<1>16. CASE UNCHANGED vars
  BY <1>16, TypeUnchanged DEF vars
<1> QED
  BY <1>1, <1>2, <1>3, <1>4, <1>5, <1>6, <1>7, <1>9, <1>10, <1>11, <1>12, <1>13, <1>14, <1>15, <1>16
  DEF Next, Continue

LEMMA PromptStep ==
  ASSUME TypeOK, PromptInv, PromptInv', [Next]_vars PROVE PromptType'
<1>1. ASSUME UNCHANGED <<promptVars, pauses>> PROVE PromptType'
  BY <1>1, TypeUnchanged
<1>2. ASSUME NEW r \in Ids, outcome'[r] = "pending" PROVE pauses'[r] \in 0..Cardinality(Engines \X Prompts)
  <2>1. OpenFor(r)' \in SUBSET (Engines \X Prompts)
    BY DEF OpenFor
  <2>2. Cardinality(OpenFor(r)') \in 0..Cardinality(Engines \X Prompts)
    BY <2>1, PairsFinite
  <2> QED BY <1>2, <2>2 DEF PromptInv, PausesExact
<1>3. CASE Start \/ CrashAges
  BY <1>1, <1>3 DEF Start, CrashAges, requestVars
<1>4. CASE Dispose
  BY <1>4, CancelInboundType DEF Dispose
<1>5. ASSUME NEW g \in Engines, HandshakeEnds(g) \/ StartFails(g) \/ RespawnFires(g) \/ StartDone(g)
      PROVE  PromptType'
  BY <1>1, <1>5 DEF HandshakeEnds, StartFails, RespawnFires, StartDone, requestVars
<1>6. ASSUME NEW g \in Engines, Exit(g) PROVE PromptType'
  BY <1>1, <1>6, CancelInboundType DEF Exit
<1>7. ASSUME NEW c \in Restarts, Restart(c) PROVE PromptType'
  BY <1>7, CancelInboundType DEF Restart
<1>8. ASSUME NEW r \in Requests, Request(r) \/ CancelRequest(r) PROVE PromptType'
  BY <1>1, <1>8 DEF Request, CancelRequest, Settle
<1>9. ASSUME NEW i \in Ids, Answer(i) \/ Deadline(i) PROVE PromptType'
  BY <1>1, <1>9 DEF Answer, Deadline, Settle
<1>10. ASSUME NEW c \in Askers, RestartResumes(c) \/ RequestResumes(c) PROVE PromptType'
  BY <1>1, <1>10 DEF RestartResumes, RequestResumes
<1>11. ASSUME NEW g \in Engines, NEW k \in Prompts, NEW r \in Requests, PromptArrives(g, k, r) PROVE PromptType'
  <2>1. /\ g \in 0..MaxGenerations /\ prompt' = [prompt EXCEPT ![g][k] = "open"]
        /\ inbound' = [inbound EXCEPT ![k] = g] /\ outcome' = outcome
        /\ \/ UNCHANGED <<asksFor, pauses>>
           \/ /\ outcome[r] = "pending" /\ asksFor' = [asksFor EXCEPT ![g][k] = r]
              /\ pauses' = [pauses EXCEPT ![r] = @ + 1]
    BY <1>11 DEF PromptArrives, Engines
  <2>2. pauses' \in [Ids -> 0..Cardinality(Engines \X Prompts)]
    BY <1>2, <2>1 DEF TypeOK, Ids
  <2> QED BY <2>1, <2>2 DEF PromptType, TypeOK
<1>12. ASSUME NEW g \in Engines, NEW k \in Prompts, PromptWithdrawn(g, k) PROVE PromptType'
  BY <1>12 DEF PromptWithdrawn, requestVars, PromptType, TypeOK
<1>13. ASSUME NEW g \in Engines, NEW k \in Prompts, PromptSettles(g, k) PROVE PromptType'
  <2>1. PICK r : r = asksFor[g][k]
    OBVIOUS
  <2>2. /\ prompt' = [prompt EXCEPT ![g][k] = "settled"]
        /\ inbound' \in {inbound, [inbound EXCEPT ![k] = 0]} /\ UNCHANGED <<outcome, asksFor>>
        /\ pauses' = pauses \/ (r \in Pending /\ pauses' = [pauses EXCEPT ![r] = @ - 1])
    BY <1>13, <2>1 DEF PromptSettles
  <2>3. pauses' \in [Ids -> 0..Cardinality(Engines \X Prompts)]
    BY <1>2, <2>2 DEF TypeOK, Pending
  <2>4. 0 \in 0..MaxGenerations
    BY Numbers
  <2>5. inbound' \in [Prompts -> 0..MaxGenerations]
    BY <2>2, <2>4 DEF TypeOK
  <2>6. prompt' \in [Engines -> [Prompts -> {"none", "open", "cancelled", "settled"}]]
    BY <2>2 DEF TypeOK
  <2> QED BY <2>2, <2>3, <2>5, <2>6 DEF PromptType, TypeOK
<1>14. CASE UNCHANGED vars
  BY <1>1, <1>14 DEF vars, requestVars
<1> QED
  BY <1>3, <1>4, <1>5, <1>6, <1>7, <1>8, <1>9, <1>10, <1>11, <1>12, <1>13, <1>14 DEF Next, Continue

LEMMA CrashStep == ASSUME TypeOK, [Next]_vars PROVE crashes' \in Nat
<1>1. crashes \in Nat
  BY Numbers
<1>2. CASE Start \/ Dispose \/ UNCHANGED crashVars \/ UNCHANGED vars
  BY <1>1, <1>2 DEF Start, StartCall, Dispose, crashVars, vars
<1>3. CASE CrashAges \/ \E c \in Restarts : Restart(c)
  BY <1>1, <1>3 DEF CrashAges, Restart
<1>4. ASSUME NEW g \in Engines, Exit(g) \/ RespawnFires(g) PROVE crashes' \in Nat
  BY <1>1, <1>4 DEF Exit, ScheduleRespawn, RespawnFires, crashVars
<1>5. ASSUME NEW r \in Requests, Request(r) PROVE crashes' \in Nat
  BY <1>1, <1>5 DEF Request, StartCall, crashVars
<1>6. CASE Continue \/ \E g \in Engines : StartDone(g) \/ StartFails(g)
  BY <1>2, <1>6 DEF Continue, HandshakeEnds, RestartResumes, RequestResumes, StartDone, StartFails
<1>7. CASE (\E r \in Requests : CancelRequest(r)) \/ \E i \in Ids : Answer(i) \/ Deadline(i)
  BY <1>2, <1>7 DEF CancelRequest, Settle, Answer, Deadline
<1>8. ASSUME NEW g \in Engines, NEW k \in Prompts,
             (\E r \in Requests : PromptArrives(g, k, r)) \/ PromptWithdrawn(g, k) \/ PromptSettles(g, k)
      PROVE  crashes' \in Nat
  BY <1>2, <1>8 DEF PromptArrives, PromptWithdrawn, PromptSettles
<1> QED BY <1>2, <1>3, <1>4, <1>5, <1>6, <1>7, <1>8 DEF Next

-----------------------------------------------------------------------------
(* The invariant. *)
LEMMA StepClient == ASSUME ClientInv, [Next]_vars PROVE ClientInv'
<1>1. LifeInv' /\ PromptInv' /\ OrphanInv'
  BY StepLife, StepPrompt, StepOrphans DEF ClientInv
<1>2. LifeType' /\ RequestType' /\ PromptType'
  BY <1>1, LifeStep, RequestStep, PromptStep DEF ClientInv
<1>3. crashes' \in 0..MaxGenerations
  <2>1. crashes' <= generation' /\ generation' \in 0..MaxGenerations
    BY <1>1, <1>2 DEF LifeInv, CrashesCounted, LifeType
  <2>2. crashes' \in Nat /\ MaxGenerations \in Nat
    BY CrashStep, ClientAssumption DEF ClientInv
  <2> QED BY <2>1, <2>2
<1>4. TypeOK'
  BY <1>2, <1>3 DEF TypeOK, LifeType, RequestType, PromptType
<1> QED BY <1>1, <1>4 DEF ClientInv

LEMMA NothingOpen == ASSUME Init, NEW i \in Ids PROVE OpenFor(i) = {} /\ Cardinality(OpenFor(i)) = 0
<1>1. OpenFor(i) = {}
  BY DEF Init, OpenFor, BeingAnswered
<1>2. Cardinality({}) = 0
  BY FS_EmptySet, Zenon
<1> QED BY <1>1, <1>2

LEMMA InitClient == ASSUME Init PROVE ClientInv
<1>1. /\ MaxGenerations \in Nat /\ 0 \in 0..MaxGenerations /\ host \in HostType
      /\ host.maxCrashes \in Nat
  BY ClientAssumption DEF Init, HostType
<1>2. 0 \in 0..Cardinality(Engines \X Prompts)
  BY PairsFinite
<1>3. LifeType /\ RequestType /\ crashes \in 0..MaxGenerations
  BY <1>1 DEF Init, LifeType, RequestType
<1>4. PromptType
  BY <1>1, <1>2 DEF Init, PromptType
<1>5. TypeOK
  BY <1>3, <1>4 DEF TypeOK, LifeType, RequestType, PromptType
<1>6. LifeInv
  BY <1>1 DEF Init, LifeInv, OneEngine, Later, ReadyExact, CrashesCounted, Exits, Engines, Ids
<1>7. OrphanInv
  BY <1>1 DEF Init, OrphanInv, StartedOnce, PendingOfCurrentGeneration, Pending, GivenUpStaysDown, Exits, Ids
<1>8. DeadlineExact /\ PausesExact
  BY NothingOpen DEF Init, DeadlineExact, PausesExact, Ids
<1>9. InboundExact
  BY <1>1 DEF Init, InboundExact, Engines
<1> QED BY <1>5, <1>6, <1>7, <1>8, <1>9 DEF ClientInv, PromptInv

(* An answer is heeded only of the current generation's engine: no other step
   makes a pending request answered (handleMessage's generation check). *)
LEMMA StepAnswers == ASSUME ClientInv, [Next]_vars PROVE NoStaleResult
<1> SUFFICES ASSUME NEW i \in Ids, outcome[i] = "pending", outcome'[i] = "answered"
             PROVE  home[i] = generation
  BY DEF NoStaleResult
<1>0. outcome \in [Ids \cup Restarts -> {"unsent", "starting", "pending"} \cup Settled]
  BY DEF ClientInv, TypeOK
<1>1. AllFailed[i] = "restarted"
  BY DEF AllFailed
<1>2. ~Resumable(i)
  BY DEF Resumable
<1>3. CASE UNCHANGED outcome \/ outcome' = AllFailed
  BY <1>1, <1>3
<1>4. ASSUME NEW j \in Ids \cup Restarts, NEW how, outcome' = [outcome EXCEPT ![j] = how],
             j # i \/ how # "answered"
      PROVE  FALSE
  BY <1>0, <1>4
<1>5. ASSUME NEW j \in Ids, Answer(j) PROVE home[i] = generation
  BY <1>0, <1>5 DEF Answer, Settle, Heeded
<1>6. ASSUME NEW j \in Ids, Deadline(j) PROVE FALSE
  BY <1>0, <1>6 DEF Deadline, Settle
<1>7. ASSUME NEW r \in Requests, CancelRequest(r) PROVE FALSE
  BY <1>0, <1>7 DEF CancelRequest, Settle
<1>8. ASSUME NEW j \in Ids, NEW up, Sent(j, up) PROVE FALSE
  BY <1>0, <1>8 DEF Sent
<1>9. ASSUME NEW r \in Requests, SendRequest(r) PROVE FALSE
  BY <1>0, <1>8, <1>9 DEF SendRequest, Ids
<1>10. ASSUME NEW r \in Requests, Request(r) PROVE FALSE
  BY <1>0, <1>9, <1>10 DEF Request
<1>11. ASSUME NEW c \in Askers, RestartResumes(c) PROVE FALSE
  BY <1>0, <1>2, <1>11 DEF RestartResumes, Askers, Ids
<1>12. ASSUME NEW c \in Askers, RequestResumes(c) PROVE FALSE
  BY <1>0, <1>9, <1>12 DEF RequestResumes, Askers, Ids
<1>13. ASSUME NEW g \in Engines, StartDone(g) PROVE FALSE
  <2>1. g \in Ids /\ Sent(g, alive')
    BY <1>13 DEF StartDone, Ids
  <2> QED BY <1>8, <2>1
<1>14. ASSUME NEW c \in Restarts, Restart(c) PROVE FALSE
  <2>1. outcome' = [AllFailed EXCEPT ![c] = "starting"]
    BY <1>14 DEF Restart
  <2> QED BY <1>1, <2>1 DEF AllFailed
<1>15. CASE Start \/ CrashAges \/ Dispose \/ UNCHANGED vars
  BY <1>3, <1>15 DEF Start, CrashAges, Dispose, requestVars, vars
<1>16. ASSUME NEW g \in Engines, HandshakeEnds(g) \/ StartFails(g) \/ Exit(g) \/ RespawnFires(g) PROVE FALSE
  BY <1>3, <1>16, <1>1 DEF HandshakeEnds, StartFails, Exit, RespawnFires, requestVars
<1>17. ASSUME NEW g \in Engines, NEW k \in Prompts,
              (\E r \in Requests : PromptArrives(g, k, r)) \/ PromptWithdrawn(g, k) \/ PromptSettles(g, k)
       PROVE  FALSE
  BY <1>17 DEF PromptArrives, PromptWithdrawn, PromptSettles, requestVars
<1> QED
  BY <1>5, <1>6, <1>7, <1>10, <1>11, <1>12, <1>13, <1>14, <1>15, <1>16, <1>17, <1>3, <1>1 DEF Next, Continue

(* A restart fails only when it finds ready to be 0, or of the generation it
   awaits, which has failed: restart()'s catch. *)
LEMMA RestartFails ==
  ASSUME ClientInv, NEW c \in Restarts, c \in Askers, RestartResumes(c), outcome'[c] = "failed", ~disposed
  PROVE  \E g \in Engines : g = generation /\ spawn[g] = "failed"
<1>1. /\ waitsOn[c] # 0 /\ waitsOn[c] \in Engines /\ spawn[waitsOn[c]] \in {"ok", "failed"}
  BY ClientAssumption DEF RestartResumes, Resumable, SpawnOver, ClientInv, TypeOK, Engines
<1>2. outcome[c] = "starting" /\ spawn[waitsOn[c]] # "ok" /\ ~Overtaken(c)
  BY DEF RestartResumes, Resumable, ClientInv, TypeOK
<1>3. generation \in 0..MaxGenerations /\ MaxGenerations \in Nat /\ generation # 0
  <2>1. generation \in 0..MaxGenerations /\ MaxGenerations \in Nat
    BY ClientAssumption DEF ClientInv, TypeOK
  <2>2. ~(waitsOn[c] > generation)
    BY <1>1 DEF ClientInv, LifeInv, Later
  <2> QED BY <1>1, <2>1, <2>2 DEF Engines
<1>4. CASE ready = 0
  BY <1>3, <1>4 DEF ClientInv, LifeInv, ReadyExact
<1>5. CASE ready = waitsOn[c]
  <2>1. ready = generation
    BY <1>1, <1>5 DEF ClientInv, LifeInv, ReadyExact
  <2> QED BY <1>1, <1>2, <1>5, <2>1
<1> QED BY <1>2, <1>4, <1>5 DEF Overtaken

LEMMA StepRestarts == ASSUME ClientInv, [Next]_vars PROVE RestartOutlivesRestart
<1> SUFFICES ASSUME NEW c \in Restarts, outcome[c] # "failed", outcome'[c] = "failed", ~disposed
             PROVE  \E g \in Engines : g = generation /\ spawn[g] = "failed"
  BY DEF RestartOutlivesRestart
<1>0. /\ outcome \in [Ids \cup Restarts -> {"unsent", "starting", "pending"} \cup Settled]
      /\ c \in Askers /\ c \notin Ids
  BY Apart DEF ClientInv, TypeOK, Askers
<1>1. AllFailed[c] # "failed"
  BY DEF AllFailed
<1>2. CASE UNCHANGED outcome \/ outcome' = AllFailed
  BY <1>1, <1>2
<1>3. ASSUME NEW j \in Ids, NEW how, outcome' = [outcome EXCEPT ![j] = how] PROVE FALSE
  BY <1>0, <1>3
<1>4. ASSUME NEW d \in Askers, RestartResumes(d) PROVE \E g \in Engines : g = generation /\ spawn[g] = "failed"
  <2>1. d = c
    BY <1>0, <1>4 DEF RestartResumes
  <2> QED BY <1>0, <1>4, <2>1, RestartFails
<1>5. ASSUME NEW d \in Restarts, Restart(d) PROVE FALSE
  <2>1. outcome' = [AllFailed EXCEPT ![d] = "starting"]
    BY <1>5 DEF Restart
  <2> QED BY <1>1, <2>1 DEF AllFailed
<1>6. ASSUME NEW j \in Ids, Answer(j) \/ Deadline(j) PROVE FALSE
  BY <1>3, <1>6 DEF Answer, Deadline, Settle
<1>7. ASSUME NEW r \in Requests, SendRequest(r) PROVE FALSE
  <2>1. r \in Ids
    BY DEF Ids
  <2> QED BY <1>3, <1>7, <2>1 DEF SendRequest, Sent
<1>8. ASSUME NEW r \in Requests, Request(r) \/ CancelRequest(r) PROVE FALSE
  <2>1. r \in Ids
    BY DEF Ids
  <2>2. CASE Request(r)
    BY <1>3, <1>7, <2>1, <2>2 DEF Request
  <2>3. CASE CancelRequest(r)
    BY <1>3, <2>1, <2>3 DEF CancelRequest, Settle
  <2> QED BY <1>8, <2>2, <2>3
<1>9. ASSUME NEW d \in Askers, RequestResumes(d) PROVE FALSE
  <2>1. d \in Ids /\ d \in Requests
    BY <1>9 DEF RequestResumes, Ids
  <2> QED BY <1>3, <1>7, <1>9, <2>1 DEF RequestResumes
<1>10. ASSUME NEW g \in Engines, StartDone(g) PROVE FALSE
  <2>1. g \in Ids /\ Sent(g, alive')
    BY <1>10 DEF StartDone, Ids
  <2> QED BY <1>3, <2>1 DEF Sent
<1>11. CASE Start \/ CrashAges \/ Dispose \/ UNCHANGED vars
  BY <1>2, <1>11 DEF Start, CrashAges, Dispose, requestVars, vars
<1>12. ASSUME NEW g \in Engines, HandshakeEnds(g) \/ StartFails(g) \/ Exit(g) \/ RespawnFires(g) PROVE FALSE
  BY <1>1, <1>12 DEF HandshakeEnds, StartFails, Exit, RespawnFires, requestVars
<1>13. ASSUME NEW g \in Engines, NEW k \in Prompts,
              (\E r \in Requests : PromptArrives(g, k, r)) \/ PromptWithdrawn(g, k) \/ PromptSettles(g, k)
       PROVE  FALSE
  BY <1>13 DEF PromptArrives, PromptWithdrawn, PromptSettles, requestVars
<1> QED
  BY <1>4, <1>5, <1>6, <1>8, <1>9, <1>10, <1>11, <1>12, <1>13, <1>2, <1>1 DEF Next, Continue

LEMMA ClientHolds == Spec => []ClientInv
<1>1. ClientInv /\ UNCHANGED vars => ClientInv'
  BY StepClient
<1>2. ClientInv /\ [Next]_vars => ClientInv'
  BY StepClient
<1> QED BY InitClient, <1>2, PTL DEF Spec

(* One engine runs at a time, every one that is replaced is told to exit, and a
   client whose host starts it once never holds a request sent to an engine that
   is gone, nor a timer that would respawn one after it gave up. *)
THEOREM EnginesAlone == Spec => []EnginesKept
<1>1. ClientInv => EnginesKept
  BY DEF ClientInv, LifeInv, OrphanInv, StartedOnce, NoOrphans, EnginesKept
<1> QED BY ClientHolds, <1>1, PTL

(* A deadline runs exactly while its request is pending and no prompt for it is
   open, however the prompts of one request overlap and whichever generation's
   handler settles late; and a prompt of an engine that runs can be withdrawn. *)
THEOREM PromptsAccounted == Spec => []PromptsExact
<1>1. ClientInv => PromptsExact
  BY DEF ClientInv, PromptInv, PromptsExact
<1> QED BY ClientHolds, <1>1, PTL

(* No answer of an earlier engine resolves a request sent to a later one, and a
   restart fails only when the newest engine did. *)
THEOREM GenerationsStayApart == Spec => GenerationsApart
<1>1. ClientInv /\ [Next]_vars => NoStaleResult /\ RestartOutlivesRestart
  BY StepAnswers, StepRestarts
<1>2. ClientInv /\ [Next]_vars => [NoStaleResult /\ RestartOutlivesRestart]_vars
  BY <1>1
<1> QED BY ClientHolds, <1>2, PTL DEF Spec, GenerationsApart

-----------------------------------------------------------------------------
(* What a recursion along a sequence makes of it, step by step. *)
Picks(I, s, S, g) ==
  /\ g \in [0 .. Len(s) -> Seq(I)] /\ g[0] = << >>
  /\ \A i \in 1 .. Len(s) : g[i] = IF s[i] \in S THEN Append(g[i - 1], s[i]) ELSE g[i - 1]

LEMMA PicksThere ==
  ASSUME NEW I, NEW s \in Seq(I), NEW S
  PROVE  \E g : Picks(I, s, S, g)
<1> DEFINE n == Len(s)
           step == [i \in 1 .. n |-> [x \in Seq(I) |-> IF s[i] \in S THEN Append(x, s[i]) ELSE x]]
<1>1. n \in Nat /\ << >> \in Seq(I) /\ step \in [1 .. n -> [Seq(I) -> Seq(I)]]
  <2>1. \A i \in 1 .. n : s[i] \in I
    OBVIOUS
  <2> QED  BY <2>1
<1>2. \E g \in [0 .. n -> Seq(I)] : Follows(g, n, << >>, step)
  <2> DEFINE base == << >>
             Y == Seq(I)
  <2>1. base \in Y /\ step \in [1 .. n -> [Y -> Y]]
    BY <1>1
  <2> HIDE DEF step, n, base, Y
  <2>2. \E g \in [0 .. n -> Y] : Follows(g, n, base, step)
    BY <1>1, <2>1, Recursion
  <2> QED  BY <2>2 DEF base, Y
<1>3. PICK g \in [0 .. n -> Seq(I)] : Follows(g, n, << >>, step)
  BY <1>2
<1>4. ASSUME NEW i \in 1 .. n PROVE g[i] = IF s[i] \in S THEN Append(g[i - 1], s[i]) ELSE g[i - 1]
  <2>0. i - 1 \in 0 .. n
    BY <1>1
  <2>1. g[i - 1] \in Seq(I)
    BY <1>3, <2>0
  <2>2. g[i] = step[i][g[i - 1]]
    BY <1>3 DEF Follows
  <2> QED  BY <2>1, <2>2
<1>5. Picks(I, s, S, g)
  BY <1>3, <1>4 DEF Picks, Follows
<1> QED  BY <1>5

LEMMA OnlyPicks ==
  ASSUME NEW I, NEW s \in Seq(I), NEW S, NEW f, Picks(I, s, S, f)
  PROVE  Blame!Only(s, S) = f[Len(s)]
<1> DEFINE n == Len(s)
           F(g) == g = [i \in 0 .. n |-> IF i = 0 THEN << >>
                          ELSE IF s[i] \in S THEN Append(g[i - 1], s[i]) ELSE g[i - 1]]
           g == CHOOSE g : F(g)
           P == {i \in 0 .. n : g[i] = f[i]}
<1>0. n \in Nat
  OBVIOUS
<1>1. F(f)
  <2>1. f \in [0 .. n -> Seq(I)] /\ f[0] = << >>
    BY DEF Picks
  <2>2. \A i \in 0 .. n : i # 0 => i \in 1 .. n
    BY <1>0
  <2>3. \A i \in 0 .. n : f[i] = IF i = 0 THEN << >>
                                ELSE IF s[i] \in S THEN Append(f[i - 1], s[i]) ELSE f[i - 1]
    BY <2>1, <2>2 DEF Picks
  <2> QED  BY <2>1, <2>3, Zenon
<1>2. F(g)
  BY <1>1
<1>3. Blame!Only(s, S) = g[n]
  BY DEF Blame!Only
<1> HIDE DEF g
<1>4. 0 \in P
  BY <1>0, <1>2 DEF Picks
<1>5. ASSUME NEW i \in 0 .. n - 1, i \in P PROVE i + 1 \in P
  <2>1. i + 1 \in 0 .. n /\ i + 1 \in 1 .. n /\ (i + 1) - 1 = i /\ i + 1 # 0
    BY <1>0
  <2>2. /\ f[i + 1] = IF s[i + 1] \in S THEN Append(f[i], s[i + 1]) ELSE f[i]
        /\ g[i + 1] = IF s[i + 1] \in S THEN Append(g[i], s[i + 1]) ELSE g[i]
    BY <1>2, <2>1 DEF Picks
  <2> QED  BY <1>5, <2>1, <2>2
<1> HIDE DEF P
<1>6. \A i \in 0 .. n : i \in P
  BY <1>0, <1>4, <1>5, Induction
<1> QED  BY <1>0, <1>3, <1>6 DEF P

(* The ids of a sequence, each of which is there once. *)
Once(s) == \A m, n \in 1 .. Len(s) : s[m] = s[n] => m = n
In(s) == {s[n] : n \in 1 .. Len(s)}

LEMMA OnlyIs ==
  ASSUME NEW I, NEW s \in Seq(I), NEW S, Once(s)
  PROVE  Blame!Only(s, S) \in Seq(I) /\ Once(Blame!Only(s, S)) /\ In(Blame!Only(s, S)) = In(s) \cap S
<1> DEFINE n == Len(s)
<1>0. n \in Nat /\ \A i \in 1 .. n : s[i] \in I
  OBVIOUS
<1>1. PICK g : Picks(I, s, S, g)
  BY PicksThere
<1> DEFINE Beginning(k) == {s[m] : m \in 1 .. k}
           P == {k \in 0 .. n : Once(g[k]) /\ In(g[k]) = Beginning(k) \cap S}
<1>2. 0 \in P
  <2>1. g[0] = << >>
    BY <1>1 DEF Picks
  <2>2. Once(<< >>) /\ In(<< >>) = {} /\ Beginning(0) = {}
    BY DEF Once, In
  <2> QED  BY <1>0, <2>1, <2>2
<1>3. ASSUME NEW k \in 0 .. n - 1, k \in P PROVE k + 1 \in P
  <2>1. k + 1 \in 0 .. n /\ k + 1 \in 1 .. n /\ (k + 1) - 1 = k /\ k \in 0 .. n
    BY <1>0
  <2> DEFINE x == s[k + 1]
  <2>2. /\ g[k] \in Seq(I) /\ x \in I
        /\ g[k + 1] = IF x \in S THEN Append(g[k], x) ELSE g[k]
    BY <1>0, <1>1, <2>1 DEF Picks
  <2>3. Beginning(k + 1) = Beginning(k) \cup {x} /\ x \notin Beginning(k)
    <3>1. \A m \in 1 .. k : m \in 1 .. n /\ m # k + 1
      BY <1>0, <2>1
    <3>2. 1 .. k + 1 = (1 .. k) \cup {k + 1}
      BY <2>1
    <3> QED  BY <2>1, <3>1, <3>2 DEF Once
  <2>4. Once(g[k]) /\ In(g[k]) = Beginning(k) \cap S
    BY <1>3
  <2>5. CASE x \notin S
    <3> HIDE DEF Beginning, x
    <3> QED  BY <2>1, <2>2, <2>3, <2>4, <2>5
  <2>6. CASE x \in S
    <3> DEFINE t == g[k]
               u == Append(t, x)
    <3>1. /\ t \in Seq(I) /\ Len(t) \in Nat /\ u \in Seq(I) /\ Len(u) = Len(t) + 1
          /\ (\A i \in 1 .. Len(t) : u[i] = t[i]) /\ u[Len(t) + 1] = x
      BY <2>2
    <3>2. Once(t) /\ In(t) = Beginning(k) \cap S /\ g[k + 1] = u
      BY <2>2, <2>4, <2>6
    <3> HIDE DEF Beginning, x, t, u
    <3>3. 1 .. Len(u) = (1 .. Len(t)) \cup {Len(t) + 1}
      BY <3>1
    <3>4. In(u) = In(t) \cup {x}
      BY <3>1, <3>3 DEF In
    <3>5. x \notin In(t)
      BY <2>3, <3>2
    <3>6. Once(u)
      BY <3>1, <3>2, <3>3, <3>5 DEF Once, In
    <3>7. In(u) = Beginning(k + 1) \cap S
      BY <2>3, <2>6, <3>2, <3>4
    <3> QED  BY <2>1, <3>2, <3>6, <3>7
  <2> QED  BY <2>5, <2>6
<1> HIDE DEF P
<1>4. \A k \in 0 .. n : k \in P
  BY <1>0, <1>2, <1>3, Induction
<1>5. /\ Once(g[n]) /\ In(g[n]) = In(s) \cap S /\ g[n] \in Seq(I)
  <2>1. n \in P /\ n \in 0 .. n /\ Beginning(n) = In(s)
    BY <1>0, <1>4 DEF In
  <2>2. Once(g[n]) /\ In(g[n]) = Beginning(n) \cap S
    BY <2>1, Zenon DEF P
  <2>3. g[n] \in Seq(I)
    BY <1>1, <2>1 DEF Picks
  <2> QED  BY <2>1, <2>2, <2>3
<1> QED  BY <1>1, <1>5, OnlyPicks

(* What is taken out of a sequence and what stays make up its weight. *)
LEMMA OnlyWeighs ==
  ASSUME NEW I, NEW w \in [I -> Nat], NEW s \in Seq(I), NEW S
  PROVE  Weigh(w, s) = Weigh(w, Blame!Only(s, S)) + Weigh(w, Blame!Without(s, S))
<1> DEFINE n == Len(s)
           T == Blame!Range(s) \ S
<1>0. n \in Nat /\ \A i \in 1 .. n : s[i] \in I /\ s[i] \in Blame!Range(s)
  BY DEF Blame!Range
<1>1. PICK g : Picks(I, s, S, g)
  BY PicksThere
<1>2. PICK h : Picks(I, s, T, h)
  BY PicksThere
<1>3. Blame!Only(s, S) = g[n] /\ Blame!Without(s, S) = h[n]
  BY <1>1, <1>2, OnlyPicks DEF Blame!Without
<1>4. \A i \in 1 .. n : s[i] \in T <=> s[i] \notin S
  BY <1>0
<1> HIDE DEF T
<1> DEFINE v == Weights(w, s)
           f == [i \in 0 .. n |-> Weigh(w, g[i]) + Weigh(w, h[i])]
<1>5. v \in Seq(Nat) /\ Len(v) = n /\ \A i \in 1 .. n : v[i] = w[s[i]]
  BY <1>0, WeightsNat DEF Weights
<1>6. Sums(v, f)
  <2>1. ASSUME NEW i \in 0 .. n
        PROVE  g[i] \in Seq(I) /\ h[i] \in Seq(I) /\ Weigh(w, g[i]) \in Nat /\ Weigh(w, h[i]) \in Nat
    <3>1. g[i] \in Seq(I) /\ h[i] \in Seq(I)
      BY <1>1, <1>2 DEF Picks
    <3> QED  BY <3>1, WeightsNat
  <2>2. f \in [0 .. n -> Nat]
    BY <2>1
  <2>3. f[0] = 0
    BY <1>0, <1>1, <1>2, WeighEmpty DEF Picks
  <2>4. ASSUME NEW i \in 1 .. n PROVE f[i] = f[i - 1] + v[i]
    <3>1. i - 1 \in 0 .. n /\ i \in 0 .. n /\ s[i] \in I /\ w[s[i]] \in Nat
      BY <1>0
    <3>2. /\ g[i] = IF s[i] \in S THEN Append(g[i - 1], s[i]) ELSE g[i - 1]
          /\ h[i] = IF s[i] \in S THEN h[i - 1] ELSE Append(h[i - 1], s[i])
      BY <1>1, <1>2, <1>4 DEF Picks
    <3>3. /\ Weigh(w, Append(g[i - 1], s[i])) = Weigh(w, g[i - 1]) + w[s[i]]
          /\ Weigh(w, Append(h[i - 1], s[i])) = Weigh(w, h[i - 1]) + w[s[i]]
      <4> DEFINE a == g[i - 1]
                 b == h[i - 1]
                 x == s[i]
      <4>1. a \in Seq(I) /\ b \in Seq(I) /\ x \in I
        BY <2>1, <3>1
      <4> HIDE DEF a, b, x
      <4>2. /\ Weigh(w, Append(a, x)) = Weigh(w, a) + w[x]
            /\ Weigh(w, Append(b, x)) = Weigh(w, b) + w[x]
        BY <4>1, WeighAppend
      <4> QED  BY <4>2 DEF a, b, x
    <3>4. /\ Weigh(w, g[i - 1]) \in Nat /\ Weigh(w, h[i - 1]) \in Nat
      BY <2>1, <3>1
    <3>5. f[i] = Weigh(w, g[i]) + Weigh(w, h[i]) /\ f[i - 1] = Weigh(w, g[i - 1]) + Weigh(w, h[i - 1])
      BY <3>1
    <3> HIDE DEF f
    <3> QED  BY <1>5, <3>1, <3>2, <3>3, <3>4, <3>5
  <2> HIDE DEF f, v
  <2> QED  BY <1>5, <2>2, <2>3, <2>4 DEF Sums
<1>7. Weigh(w, s) = f[n]
  <2> HIDE DEF f
  <2>1. Sum(v) = f[n]
    BY <1>5, <1>6, SumIs
  <2> QED  BY <2>1 DEF Weigh
<1> QED  BY <1>0, <1>3, <1>7

(* The bytes of the model are such a weight. *)
Charge(es) == [i \in Blame!Ids |-> es[i].bytes]
Weighed(es) == \A i \in Blame!Ids : es[i].bytes \in Nat

LEMMA BytesWeigh ==
  ASSUME NEW es, Weighed(es), NEW s \in Seq(Blame!Ids)
  PROVE  /\ Charge(es) \in [Blame!Ids -> Nat]
         /\ Blame!SumBytes(es, s) = Weigh(Charge(es), s)
<1> DEFINE n == Len(s)
           w == Charge(es)
           v == Weights(w, s)
           F(g) == g = [i \in 0 .. n |-> IF i = 0 THEN 0 ELSE g[i - 1] + es[s[i]].bytes]
           g == CHOOSE g : F(g)
<1>0. n \in Nat /\ \A i \in 1 .. n : s[i] \in Blame!Ids
  OBVIOUS
<1>1. w \in [Blame!Ids -> Nat] /\ \A i \in 1 .. n : w[s[i]] = es[s[i]].bytes
  BY <1>0 DEF Charge, Weighed
<1> HIDE DEF w
<1>2. v \in Seq(Nat) /\ Len(v) = n
  BY <1>1, WeightsNat
<1>3. \A i \in 1 .. n : v[i] = es[s[i]].bytes
  BY <1>0, <1>1 DEF Weights
<1> HIDE DEF v
<1>4. PICK f : Sums(v, f)
  BY <1>2, SumsThere
<1>5. F(f)
  <2>1. f \in [0 .. n -> Nat] /\ f[0] = 0
    BY <1>2, <1>4 DEF Sums
  <2>2. \A i \in 0 .. n : i # 0 => i \in 1 .. n
    BY <1>0
  <2>3. \A i \in 0 .. n : f[i] = IF i = 0 THEN 0 ELSE f[i - 1] + es[s[i]].bytes
    BY <1>2, <1>3, <1>4, <2>1, <2>2 DEF Sums
  <2> QED  BY <2>1, <2>3, Zenon
<1>6. F(g)
  BY <1>5
<1>7. Blame!SumBytes(es, s) = g[n]
  BY DEF Blame!SumBytes
<1> HIDE DEF g
<1>8. g[0] = 0 /\ \A i \in 1 .. n : g[i] = g[i - 1] + v[i]
  BY <1>0, <1>3, <1>6
<1>9. g[n] = f[n]
  BY <1>2, <1>4, <1>8, SumsOnce
<1>10. Sum(v) = f[n]
  BY <1>2, <1>4, SumIs
<1> QED  BY <1>1, <1>7, <1>9, <1>10 DEF v, w, Weigh

(* evictToBudget() leaves a cache within its budgets, whose bytes are counted. *)
LEMMA Evicts ==
  ASSUME Blame!ConstantsAssumption, NEW es, Weighed(es), NEW s \in Seq(Blame!Ids),
         Blame!Evict(es, s, Blame!SumBytes(es, s))
  PROVE  /\ blameLru' \in Seq(Blame!Ids) /\ In(blameLru') \subseteq In(s)
         /\ Once(s) => Once(blameLru')
         /\ blameTotal' = Blame!SumBytes(es, blameLru') /\ blameTotal' \in Nat
         /\ Len(blameLru') > 1 => Blame!Fits(es, blameLru')
<1> DEFINE Enough(n) == n >= Len(s) - 1 \/ Blame!Fits(es, SubSeq(s, n + 1, Len(s)))
           N == {n \in 0 .. Len(s) : Enough(n)}
           k == Blame!Evictions(es, s)
<1>0. Len(s) \in Nat
  OBVIOUS
<1>1. k \in 0 .. Len(s) /\ Enough(k)
  <2>1. N \in SUBSET Nat /\ Len(s) \in N
    BY <1>0
  <2>2. PICK m \in N : \A n \in N : m <= n
    <3> HIDE DEF N
    <3> QED  BY <2>1, Least
  <2>3. m \in 0 .. Len(s) /\ Enough(m) /\ \A n \in 0 .. m - 1 : ~ Enough(n)
    <3> HIDE DEF Enough
    <3>1. m \in 0 .. Len(s) /\ Enough(m)
      BY <2>2
    <3>2. \A n \in 0 .. m - 1 : n \in 0 .. Len(s) /\ n \in Nat /\ m \in Nat /\ ~ m <= n
      BY <1>0, <3>1
    <3> QED  BY <2>2, <3>1, <3>2
  <2> HIDE DEF N
  <2>4. \E n \in 0 .. Len(s) : Enough(n) /\ \A j \in 0 .. n - 1 : ~ Enough(j)
    BY <2>3
  <2>5. k = CHOOSE n \in 0 .. Len(s) : Enough(n) /\ \A j \in 0 .. n - 1 : ~ Enough(j)
    BY DEF Blame!Evictions
  <2> HIDE DEF k, Enough
  <2> QED  BY <2>4, <2>5
<1>2. blameLru' = SubSeq(s, k + 1, Len(s)) /\ blameTotal' = Blame!SumBytes(es, s) - Blame!SumBytes(es, SubSeq(s, 1, k))
  BY DEF Blame!Evict
<1> HIDE DEF k
<1> DEFINE t == SubSeq(s, k + 1, Len(s))
           u == SubSeq(s, 1, k)
<1>3. /\ t \in Seq(Blame!Ids) /\ u \in Seq(Blame!Ids) /\ Len(t) = Len(s) - k
      /\ \A n \in 1 .. Len(s) - k : t[n] = s[n + k] /\ n + k \in 1 .. Len(s)
  BY <1>0, <1>1
<1>4. Weigh(Charge(es), s) = Weigh(Charge(es), u) + Weigh(Charge(es), t)
  BY <1>1, BytesWeigh, WeighParts
<1>5. Len(t) > 1 => Blame!Fits(es, t)
  BY <1>0, <1>1, <1>3
<1> HIDE DEF t, u, Enough
<1>6. In(t) \subseteq In(s) /\ (Once(s) => Once(t))
  <2>1. In(t) \subseteq In(s)
    BY <1>3 DEF In
  <2>2. ASSUME Once(s), NEW m \in 1 .. Len(t), NEW n \in 1 .. Len(t), t[m] = t[n] PROVE m = n
    <3>1. t[m] = s[m + k] /\ t[n] = s[n + k] /\ m + k \in 1 .. Len(s) /\ n + k \in 1 .. Len(s)
      BY <1>3
    <3>2. m + k = n + k
      BY <2>2, <3>1 DEF Once
    <3> QED  BY <1>0, <1>1, <1>3, <3>2
  <2> QED  BY <2>1, <2>2 DEF Once
<1>7. /\ Blame!SumBytes(es, s) = Weigh(Charge(es), s) /\ Blame!SumBytes(es, t) = Weigh(Charge(es), t)
      /\ Blame!SumBytes(es, u) = Weigh(Charge(es), u)
      /\ Weigh(Charge(es), t) \in Nat /\ Weigh(Charge(es), u) \in Nat
  BY <1>3, BytesWeigh, WeightsNat
<1>8. blameLru' = t /\ blameTotal' = Blame!SumBytes(es, s) - Blame!SumBytes(es, u)
  BY <1>2 DEF t, u
<1> QED  BY <1>3, <1>4, <1>5, <1>6, <1>7, <1>8
-----------------------------------------------------------------------------
(* Callers and the requests they wait for, of any entries and callers. *)
EntryStates == {"unused", "running", "answered", "dropped"}
CallerStates == {"idle", "waiting", "pinning", "told"}
BlameEntries ==
  [key : Blame!Keys, bytes : Nat, waiters : SUBSET Callers, state : EntryStates,
   pinned : BOOLEAN, timer : BOOLEAN, joined : BOOLEAN]
BlameCallers(n) == [id : 0 .. n, state : CallerStates]

Awaits(r) == r.state \in {"waiting", "pinning"}
Counts(es, r, c, n) ==
  /\ r.id \in 1 .. n /\ es[r.id].state = "running"
  /\ r.state = "waiting" <=> c \in es[r.id].waiters
  /\ r.state = "pinning" => es[r.id].pinned
Kinds(es, cs, n) == es \in [Blame!Ids -> BlameEntries] /\ cs \in [Callers -> BlameCallers(n)]
Asked(es, cs) == \A i \in Blame!Ids : \A c \in es[i].waiters : cs[c] = [state |-> "waiting", id |-> i]
Counted(es, cs, n) == \A c \in Callers : Awaits(cs[c]) => Counts(es, cs[c], c, n)
Times(e) == e.state = "running" /\ e.joined /\ Blame!Deserted(e) => e.timer
Timed(es) == \A i \in Blame!Ids : Times(es[i])
Served(es, cs, n) == Kinds(es, cs, n) /\ Asked(es, cs) /\ Counted(es, cs, n) /\ Timed(es)

(* A request somebody waits for has been made. *)
LEMMA MadeIds ==
  ASSUME Blame!ConstantsAssumption, NEW n \in 0 .. MaxRequests
  PROVE  1 .. n \subseteq Blame!Ids /\ n \in Nat
  BY DEF Blame!ConstantsAssumption, Blame!Ids

LEMMA CountsSame ==
  ASSUME NEW es, NEW fs, NEW r, NEW c, NEW n, Counts(es, r, c, n),
         fs[r.id].state = "running", c \in fs[r.id].waiters <=> c \in es[r.id].waiters,
         es[r.id].pinned => fs[r.id].pinned
  PROVE  Counts(fs, r, c, n)
  BY DEF Counts

LEMMA SettleServes ==
  ASSUME Blame!ConstantsAssumption, NEW es, NEW cs, NEW n \in 0 .. MaxRequests, Served(es, cs, n), NEW S,
         NEW how \in {"dropped", "answered"}
  PROVE  Served(Blame!Settled(es, S, how), Blame!Told(cs, S, "told"), n)
<1> DEFINE fs == Blame!Settled(es, S, how)
           ds == Blame!Told(cs, S, "told")
<1>0. es \in [Blame!Ids -> BlameEntries] /\ cs \in [Callers -> BlameCallers(n)]
  BY DEF Served, Kinds
<1>1. ASSUME NEW i \in Blame!Ids
      PROVE  /\ fs[i] \in BlameEntries
             /\ i \notin S => fs[i] = es[i]
             /\ i \in S => fs[i].state = how /\ fs[i].waiters = {}
  <2>1. es[i] \in BlameEntries
    BY <1>0
  <2>2. CASE i \in S
    BY <2>1, <2>2 DEF Blame!Settled, BlameEntries, EntryStates
  <2>3. CASE i \notin S
    BY <2>1, <2>3 DEF Blame!Settled
  <2> QED  BY <2>2, <2>3
<1>2. ASSUME NEW c \in Callers
      PROVE  /\ ds[c] \in BlameCallers(n)
             /\ ds[c] = IF Awaits(cs[c]) /\ cs[c].id \in S THEN [state |-> "told", id |-> 0] ELSE cs[c]
  BY <1>0 DEF Blame!Told, BlameCallers, CallerStates, Awaits
<1>3. fs \in [Blame!Ids -> BlameEntries] /\ ds \in [Callers -> BlameCallers(n)]
  BY <1>1, <1>2 DEF Blame!Settled, Blame!Told
<1> HIDE DEF fs, ds
<1>4. ASSUME NEW i \in Blame!Ids, NEW c \in fs[i].waiters PROVE ds[c] = [state |-> "waiting", id |-> i]
  <2>1. i \notin S /\ c \in es[i].waiters /\ c \in Callers
    BY <1>0, <1>1, <1>4 DEF BlameEntries
  <2>2. cs[c] = [state |-> "waiting", id |-> i]
    BY <2>1 DEF Served, Asked
  <2> QED  BY <1>2, <2>1, <2>2
<1>5. ASSUME NEW c \in Callers, Awaits(ds[c]) PROVE Counts(fs, ds[c], c, n)
  <2>1. ds[c] = cs[c] /\ Awaits(cs[c]) /\ cs[c].id \notin S
    BY <1>2, <1>5 DEF Awaits
  <2>2. Counts(es, cs[c], c, n) /\ cs[c].id \in Blame!Ids
    BY <2>1, MadeIds DEF Served, Counted, Counts
  <2>3. fs[cs[c].id] = es[cs[c].id]
    BY <1>1, <2>1, <2>2
  <2> QED  BY <2>1, <2>2, <2>3 DEF Counts
<1>6. ASSUME NEW i \in Blame!Ids PROVE Times(fs[i])
  <2>1. fs[i].state = "running" => fs[i] = es[i]
    BY <1>1
  <2> QED  BY <2>1 DEF Served, Timed, Times
<1>7. Served(fs, ds, n)
  BY <1>3, <1>4, <1>5, <1>6 DEF Served, Kinds, Asked, Counted, Timed
<1> QED  BY <1>7 DEF fs, ds

(* An entry whose answer is charged for, or one newly made. *)
LEMMA ChargeServes ==
  ASSUME Blame!ConstantsAssumption, NEW es, NEW cs, NEW n \in 0 .. MaxRequests, Served(es, cs, n), NEW i \in Blame!Ids, NEW b \in Nat
  PROVE  Served([es EXCEPT ![i].bytes = b], cs, n)
<1> DEFINE fs == [es EXCEPT ![i].bytes = b]
<1>0. es \in [Blame!Ids -> BlameEntries] /\ cs \in [Callers -> BlameCallers(n)]
  BY DEF Served, Kinds
<1>1. ASSUME NEW j \in Blame!Ids
      PROVE  /\ fs[j] \in BlameEntries
             /\ fs[j].state = es[j].state /\ fs[j].waiters = es[j].waiters /\ fs[j].pinned = es[j].pinned
             /\ fs[j].joined = es[j].joined /\ fs[j].timer = es[j].timer
  <2>1. es[j] \in BlameEntries
    BY <1>0
  <2>2. CASE j = i
    BY <1>0, <2>1, <2>2 DEF BlameEntries
  <2>3. CASE j # i
    BY <1>0, <2>1, <2>3
  <2> QED  BY <2>2, <2>3
<1>2. fs \in [Blame!Ids -> BlameEntries]
  BY <1>0, <1>1
<1> HIDE DEF fs
<1>3. ASSUME NEW c \in Callers, Awaits(cs[c]) PROVE Counts(fs, cs[c], c, n)
  <2>1. Counts(es, cs[c], c, n) /\ cs[c].id \in Blame!Ids
    BY <1>3, MadeIds DEF Served, Counted, Counts
  <2> QED  BY <1>1, <2>1 DEF Counts
<1>4. Asked(fs, cs)
  BY <1>1 DEF Served, Asked
<1>5. Timed(fs)
  BY <1>1 DEF Served, Timed, Times, Blame!Deserted
<1>6. Served(fs, cs, n)
  BY <1>0, <1>2, <1>3, <1>4, <1>5 DEF Served, Kinds, Counted
<1> QED  BY <1>6 DEF fs

LEMMA NewServes ==
  ASSUME Blame!ConstantsAssumption, NEW es, NEW cs, NEW n \in 0 .. MaxRequests - 1, Served(es, cs, n),
         es[n + 1] = Blame!Unused, NEW k \in Blame!Keys,
         NEW e, e = [Blame!Unused EXCEPT !.key = k, !.state = "running"]
  PROVE  Served([es EXCEPT ![n + 1] = e], cs, n + 1)
<1> DEFINE fs == [es EXCEPT ![n + 1] = e]
<1>0. /\ es \in [Blame!Ids -> BlameEntries] /\ cs \in [Callers -> BlameCallers(n)]
      /\ n + 1 \in Blame!Ids /\ n \in Nat /\ 1 .. n \subseteq Blame!Ids
  BY DEF Served, Kinds, Blame!Ids, Blame!ConstantsAssumption
<1>1. e \in BlameEntries /\ e.state = "running" /\ e.waiters = {} /\ ~ e.joined
  BY DEF BlameEntries, Blame!Unused, EntryStates
<1>2. fs \in [Blame!Ids -> BlameEntries] /\ fs[n + 1] = e /\ \A j \in Blame!Ids : j # n + 1 => fs[j] = es[j]
  BY <1>0, <1>1
<1>3. cs \in [Callers -> BlameCallers(n + 1)]
  <2>1. 0 .. n \subseteq 0 .. n + 1
    BY <1>0
  <2>2. BlameCallers(n) \subseteq BlameCallers(n + 1)
    BY <2>1 DEF BlameCallers
  <2> QED  BY <1>0, <2>2
<1> HIDE DEF fs
<1>4. ASSUME NEW c \in Callers, Awaits(cs[c]) PROVE Counts(fs, cs[c], c, n + 1)
  <2>1. Counts(es, cs[c], c, n)
    BY <1>4 DEF Served, Counted
  <2>2. cs[c].id \in Blame!Ids /\ cs[c].id # n + 1 /\ cs[c].id \in 1 .. n + 1
    BY <1>0, <2>1 DEF Counts
  <2> QED  BY <1>2, <2>1, <2>2 DEF Counts
<1>5. Asked(fs, cs)
  BY <1>1, <1>2 DEF Served, Asked
<1>6. Timed(fs)
  BY <1>1, <1>2 DEF Served, Timed, Times
<1>7. Served(fs, cs, n + 1)
  BY <1>2, <1>3, <1>4, <1>5, <1>6 DEF Served, Kinds, Counted
<1> QED  BY <1>7 DEF fs

(* join(): a caller that waits for nothing joins a request. *)
LEMMA EnterServes ==
  ASSUME Blame!ConstantsAssumption, NEW es, NEW cs, NEW n \in 0 .. MaxRequests, Served(es, cs, n),
         NEW i \in 1 .. n, es[i].state = "running", NEW c \in Callers, ~ Awaits(cs[c]), NEW token \in Tokens
  PROVE  Served([es EXCEPT ![i] = Blame!Entering(@, c, token)],
                [cs EXCEPT ![c] = Blame!Entered(i, token, FALSE)], n)
<1> DEFINE f == Blame!Entering(es[i], c, token)
           r == Blame!Entered(i, token, FALSE)
           fs == [es EXCEPT ![i] = f]
           ds == [cs EXCEPT ![c] = r]
<1>0. /\ es \in [Blame!Ids -> BlameEntries] /\ cs \in [Callers -> BlameCallers(n)]
      /\ i \in Blame!Ids /\ i \in 0 .. n /\ 0 \in 0 .. n /\ token \in {"none", "live", "dead"}
  BY MadeIds DEF Served, Kinds, Blame!ConstantsAssumption
<1>1. es[i] \in BlameEntries /\ es[i].state = "running"
  BY <1>0
<1>2. /\ f \in BlameEntries /\ f.state = "running"
      /\ f.waiters = IF token = "live" THEN es[i].waiters \cup {c} ELSE es[i].waiters
      /\ f.pinned = (token = "none" \/ es[i].pinned)
      /\ token = "dead" => f = es[i]
  <2>1. CASE token = "none"
    BY <1>1, <2>1 DEF Blame!Entering, BlameEntries
  <2>2. CASE token = "live"
    BY <1>1, <2>2 DEF Blame!Entering, BlameEntries
  <2>3. CASE token = "dead"
    BY <1>1, <2>3 DEF Blame!Entering, BlameEntries
  <2> QED  BY <1>0, <2>1, <2>2, <2>3
<1>3. /\ r = IF token = "dead" THEN [state |-> "told", id |-> 0]
             ELSE [state |-> IF token = "live" THEN "waiting" ELSE "pinning", id |-> i]
      /\ r \in BlameCallers(n)
  BY <1>0 DEF Blame!Entered, BlameCallers, CallerStates
<1>4. /\ fs \in [Blame!Ids -> BlameEntries] /\ ds \in [Callers -> BlameCallers(n)]
      /\ fs[i] = f /\ (\A j \in Blame!Ids : j # i => fs[j] = es[j])
      /\ ds[c] = r /\ (\A d \in Callers : d # c => ds[d] = cs[d])
  BY <1>0, <1>2, <1>3
<1> HIDE DEF f, r, fs, ds
<1>5. ASSUME NEW j \in Blame!Ids, c \in es[j].waiters PROVE FALSE
  <2>1. cs[c] = [state |-> "waiting", id |-> j]
    BY <1>5 DEF Served, Asked
  <2> QED  BY <2>1 DEF Awaits
<1>6. ASSUME NEW j \in Blame!Ids, NEW d \in fs[j].waiters PROVE ds[d] = [state |-> "waiting", id |-> j]
  <2>1. d \in Callers
    BY <1>4, <1>6 DEF BlameEntries
  <2>2. CASE d # c
    <3>1. d \in es[j].waiters
      BY <1>2, <1>4, <1>6, <2>2
    <3> QED  BY <1>4, <2>1, <2>2, <3>1 DEF Served, Asked
  <2>3. CASE d = c
    <3>1. j = i /\ token = "live"
      BY <1>2, <1>4, <1>5, <1>6, <2>3
    <3> QED  BY <1>3, <1>4, <2>3, <3>1
  <2> QED  BY <2>2, <2>3
<1>7. ASSUME NEW d \in Callers, Awaits(ds[d]) PROVE Counts(fs, ds[d], d, n)
  <2>1. CASE d = c
    <3>1. token # "dead" /\ ds[d].id = i /\ ds[d].state = IF token = "live" THEN "waiting" ELSE "pinning"
      BY <1>3, <1>4, <1>7, <2>1 DEF Awaits
    <3> QED  BY <1>0, <1>2, <1>4, <1>5, <2>1, <3>1 DEF Counts
  <2>2. CASE d # c
    <3>1. ds[d] = cs[d] /\ Awaits(cs[d])
      BY <1>4, <1>7, <2>2
    <3>2. Counts(es, cs[d], d, n) /\ cs[d].id \in Blame!Ids
      BY <3>1, MadeIds DEF Served, Counted, Counts
    <3>3. fs[cs[d].id].state = "running" /\ (d \in fs[cs[d].id].waiters <=> d \in es[cs[d].id].waiters)
          /\ (es[cs[d].id].pinned => fs[cs[d].id].pinned)
      <4>1. CASE cs[d].id = i
        BY <1>2, <1>4, <2>2, <4>1
      <4>2. CASE cs[d].id # i
        <5>1. fs[cs[d].id] = es[cs[d].id]
          BY <1>4, <3>2, <4>2
        <5> QED  BY <3>2, <5>1 DEF Counts
      <4> QED  BY <4>1, <4>2
    <3> QED  BY <3>1, <3>2, <3>3, CountsSame
  <2> QED  BY <2>1, <2>2
<1>8. ASSUME NEW j \in Blame!Ids PROVE Times(fs[j])
  <2>1. CASE j # i \/ token = "dead"
    <3>1. fs[j] = es[j]
      BY <1>2, <1>4, <2>1
    <3> QED  BY <3>1 DEF Served, Timed
  <2>2. CASE j = i /\ token # "dead"
    BY <1>0, <1>2, <1>4, <2>2 DEF Times, Blame!Deserted
  <2> QED  BY <2>1, <2>2
<1>9. Served(fs, ds, n)
  BY <1>4, <1>6, <1>7, <1>8 DEF Served, Kinds, Asked, Counted, Timed
<1> QED  BY <1>0, <1>9 DEF fs, ds, f, r

(* A caller that waits for nothing is told at once. *)
LEMMA TellServes ==
  ASSUME Blame!ConstantsAssumption, NEW es, NEW cs, NEW n \in 0 .. MaxRequests, Served(es, cs, n), NEW c \in Callers, ~ Awaits(cs[c])
  PROVE  Served(es, [cs EXCEPT ![c] = [state |-> "told", id |-> 0]], n)
<1> DEFINE ds == [cs EXCEPT ![c] = [state |-> "told", id |-> 0]]
<1>0. /\ es \in [Blame!Ids -> BlameEntries] /\ cs \in [Callers -> BlameCallers(n)]
  BY DEF Served, Kinds
<1>1. /\ ds \in [Callers -> BlameCallers(n)] /\ ~ Awaits(ds[c])
      /\ \A d \in Callers : d # c => ds[d] = cs[d]
  BY <1>0 DEF BlameCallers, CallerStates, Awaits
<1>2. ASSUME NEW j \in Blame!Ids, c \in es[j].waiters PROVE FALSE
  <2>1. cs[c] = [state |-> "waiting", id |-> j]
    BY <1>2 DEF Served, Asked
  <2> QED  BY <2>1 DEF Awaits
<1> HIDE DEF ds
<1>3. Asked(es, ds)
  <2>1. \A j \in Blame!Ids : es[j].waiters \subseteq Callers
    BY <1>0 DEF BlameEntries
  <2> QED  BY <1>1, <1>2, <2>1 DEF Served, Asked
<1>4. Counted(es, ds, n)
  BY <1>1 DEF Served, Counted
<1>5. Served(es, ds, n)
  BY <1>0, <1>1, <1>3, <1>4 DEF Served, Kinds
<1> QED  BY <1>5 DEF ds

(* leave(): it stops waiting, and the last one starts the grace period. *)
LEMMA LeaveServes ==
  ASSUME Blame!ConstantsAssumption, Served(blameEntry, blameCaller, blameSent), blameSent \in 0 .. MaxRequests,
         NEW c \in Callers, Blame!Leave(c)
  PROVE  Served(blameEntry', blameCaller', blameSent)
<1> DEFINE i == blameCaller[c].id
           e == [blameEntry[i] EXCEPT !.waiters = @ \ {c}]
           f == [e EXCEPT !.timer = @ \/ Blame!Deserted(e)]
           n == blameSent
<1>0. /\ blameEntry \in [Blame!Ids -> BlameEntries] /\ blameCaller \in [Callers -> BlameCallers(n)]
      /\ blameCaller[c].state = "waiting" /\ Awaits(blameCaller[c]) /\ i \in 1 .. n /\ i \in Blame!Ids
      /\ blameEntry[i].state = "running"
  BY MadeIds DEF Served, Kinds, Counted, Counts, Blame!Leave, Awaits
<1>1. blameEntry[i] \in BlameEntries
  BY <1>0
<1>2. /\ e \in BlameEntries /\ e.waiters = blameEntry[i].waiters \ {c} /\ e.state = "running"
      /\ e.pinned = blameEntry[i].pinned
  BY <1>0, <1>1 DEF BlameEntries
<1>3. /\ f \in BlameEntries /\ f.waiters = blameEntry[i].waiters \ {c} /\ f.state = "running"
      /\ f.pinned = blameEntry[i].pinned /\ (Blame!Deserted(f) => f.timer)
  <2> HIDE DEF e
  <2>1. /\ f \in BlameEntries /\ f.waiters = e.waiters /\ f.state = e.state /\ f.pinned = e.pinned
        /\ f.timer = (e.timer \/ Blame!Deserted(e))
    BY <1>2 DEF BlameEntries
  <2> HIDE DEF f
  <2>2. Blame!Deserted(f) = Blame!Deserted(e)
    BY <2>1 DEF Blame!Deserted
  <2> QED  BY <1>2, <2>1, <2>2
<1>4. /\ blameEntry' = [blameEntry EXCEPT ![i] = f]
      /\ blameCaller' = [blameCaller EXCEPT ![c] = [state |-> "told", id |-> 0]]
  BY DEF Blame!Leave
<1> HIDE DEF e, f
<1>5. /\ blameEntry' \in [Blame!Ids -> BlameEntries] /\ blameCaller' \in [Callers -> BlameCallers(n)]
      /\ blameEntry'[i] = f /\ (\A j \in Blame!Ids : j # i => blameEntry'[j] = blameEntry[j])
      /\ ~ Awaits(blameCaller'[c]) /\ (\A d \in Callers : d # c => blameCaller'[d] = blameCaller[d])
  BY <1>0, <1>3, <1>4 DEF BlameCallers, CallerStates, Awaits
<1>6. \A j \in Blame!Ids : blameEntry[j].waiters \subseteq Callers
  BY <1>0 DEF BlameEntries
<1>7. ASSUME NEW j \in Blame!Ids
      PROVE  /\ blameEntry'[j].waiters = blameEntry[j].waiters \ {c}
             /\ blameEntry'[j].state = blameEntry[j].state /\ blameEntry'[j].pinned = blameEntry[j].pinned
  <2>1. CASE j = i
    BY <1>0, <1>3, <1>5, <2>1
  <2>2. CASE j # i
    <3>1. c \in blameEntry[j].waiters => blameCaller[c] = [state |-> "waiting", id |-> j]
      BY DEF Served, Asked
    <3> QED  BY <1>5, <2>2, <3>1
  <2> QED  BY <2>1, <2>2
<1>8. Asked(blameEntry', blameCaller')
  BY <1>5, <1>6, <1>7 DEF Served, Asked
<1>9. ASSUME NEW d \in Callers, Awaits(blameCaller'[d]) PROVE Counts(blameEntry', blameCaller'[d], d, n)
  <2>1. d # c /\ blameCaller'[d] = blameCaller[d] /\ Awaits(blameCaller[d])
    BY <1>5, <1>9
  <2>2. Counts(blameEntry, blameCaller[d], d, n) /\ blameCaller[d].id \in Blame!Ids
    BY <2>1, MadeIds DEF Served, Counted, Counts
  <2> QED  BY <1>7, <2>1, <2>2 DEF Counts
<1>10. ASSUME NEW j \in Blame!Ids PROVE Times(blameEntry'[j])
  <2>1. CASE j = i
    BY <1>3, <1>5, <2>1 DEF Times
  <2>2. CASE j # i
    BY <1>5, <2>2 DEF Served, Timed
  <2> QED  BY <2>1, <2>2
<1> QED  BY <1>5, <1>8, <1>9, <1>10 DEF Served, Kinds, Counted, Timed

(* abandonTimer stops without effect when somebody waits. *)
LEMMA StayServes ==
  ASSUME Blame!ConstantsAssumption, blameSent \in 0 .. MaxRequests, Served(blameEntry, blameCaller, blameSent), NEW i \in Blame!Ids, ~ Blame!Deserted(blameEntry[i]),
         blameEntry' = [blameEntry EXCEPT ![i].timer = FALSE]
  PROVE  Served(blameEntry', blameCaller, blameSent)
<1> DEFINE n == blameSent
<1>0. blameEntry \in [Blame!Ids -> BlameEntries] /\ blameCaller \in [Callers -> BlameCallers(n)]
  BY DEF Served, Kinds
<1>1. ASSUME NEW j \in Blame!Ids
      PROVE  /\ blameEntry'[j] \in BlameEntries
             /\ blameEntry'[j].state = blameEntry[j].state /\ blameEntry'[j].waiters = blameEntry[j].waiters
             /\ blameEntry'[j].pinned = blameEntry[j].pinned /\ (j # i => blameEntry'[j] = blameEntry[j])
  <2>1. blameEntry[j] \in BlameEntries
    BY <1>0
  <2>2. CASE j = i
    BY <1>0, <2>1, <2>2 DEF BlameEntries
  <2>3. CASE j # i
    BY <1>0, <2>1, <2>3
  <2> QED  BY <2>2, <2>3
<1>2. blameEntry' \in [Blame!Ids -> BlameEntries]
  BY <1>0, <1>1
<1>3. ASSUME NEW c \in Callers, Awaits(blameCaller[c]) PROVE Counts(blameEntry', blameCaller[c], c, n)
  <2>1. Counts(blameEntry, blameCaller[c], c, n) /\ blameCaller[c].id \in Blame!Ids
    BY <1>3, MadeIds DEF Served, Counted, Counts
  <2> QED  BY <1>1, <2>1 DEF Counts
<1>4. Asked(blameEntry', blameCaller)
  BY <1>1 DEF Served, Asked
<1>5. ASSUME NEW j \in Blame!Ids PROVE Times(blameEntry'[j])
  <2>1. CASE j = i
    BY <1>1, <2>1 DEF Times, Blame!Deserted
  <2>2. CASE j # i
    BY <1>1, <2>2 DEF Served, Timed
  <2> QED  BY <2>1, <2>2
<1> QED  BY <1>0, <1>2, <1>3, <1>4, <1>5 DEF Served, Kinds, Counted, Timed
-----------------------------------------------------------------------------
(* The cache and its bytes, of any entries. *)
Unasked(es, n) == \A i \in Blame!Ids : i > n => es[i] = Blame!Unused
Uncharged(es) == \A i \in Blame!Ids : es[i].state = "running" => es[i].bytes = 0
Accounted(es, s, n) == s \in Seq(1 .. n) /\ Once(s) /\ Unasked(es, n) /\ Uncharged(es)
Balanced(es, s, t) == t = Blame!SumBytes(es, s) /\ (Len(s) > 1 => Blame!Fits(es, s))

BlameInv ==
  /\ blameSent \in 0 .. MaxRequests
  /\ Served(blameEntry, blameCaller, blameSent)
  /\ Accounted(blameEntry, blameLru, blameSent)
  /\ Balanced(blameEntry, blameLru, blameTotal)

LEMMA CachedIn == ASSUME NEW I, NEW s \in Seq(I) PROVE Blame!Range(s) = In(s)
  BY DEF Blame!Range, In

LEMMA ServedWeighed == ASSUME NEW es, NEW cs, NEW n, Served(es, cs, n) PROVE Weighed(es)
  BY DEF Served, Kinds, BlameEntries, Weighed

LEMMA MadeSeq ==
  ASSUME Blame!ConstantsAssumption, NEW n \in 0 .. MaxRequests, NEW s \in Seq(1 .. n)
  PROVE  s \in Seq(Blame!Ids) /\ Len(s) \in Nat /\ In(s) \subseteq 1 .. n /\ Blame!Range(s) = In(s)
<1>1. s \in Seq(Blame!Ids)
  BY MadeIds, SeqMonotonic
<1> QED  BY <1>1, CachedIn DEF In

LEMMA WeighCount ==
  ASSUME NEW I, NEW s \in Seq(I)
  PROVE  [i \in I |-> 1] \in [I -> Nat] /\ Weigh([i \in I |-> 1], s) = Len(s)
<1> DEFINE w == [i \in I |-> 1]
           v == Weights(w, s)
<1>1. w \in [I -> Nat] /\ Len(s) \in Nat /\ \A i \in 1 .. Len(s) : w[s[i]] = 1
  OBVIOUS
<1> HIDE DEF w
<1>2. v \in Seq(Nat) /\ Len(v) = Len(s)
  BY <1>1, WeightsNat
<1>3. \A i \in 1 .. Len(s) : v[i] = 1
  BY <1>1 DEF Weights
<1> HIDE DEF v
<1>4. Sums(v, [i \in 0 .. Len(v) |-> i])
  BY <1>1, <1>2, <1>3 DEF Sums
<1>5. Sum(v) = Len(s)
  BY <1>1, <1>2, <1>4, SumIs
<1>6. w \in [I -> Nat] /\ Weigh(w, s) = Len(s)
  BY <1>1, <1>5 DEF v, Weigh
<1> QED  BY <1>6 DEF w

(* Entries of the cache that keep their bytes. *)
LEMMA StayBalanced ==
  ASSUME NEW es, Weighed(es), NEW fs, Weighed(fs), NEW s \in Seq(Blame!Ids), NEW t, Balanced(es, s, t),
         \A i \in In(s) : fs[i].bytes = es[i].bytes
  PROVE  Balanced(fs, s, t)
<1>1. \A n \in 1 .. Len(s) : Charge(es)[s[n]] = Charge(fs)[s[n]]
  <2>1. \A n \in 1 .. Len(s) : s[n] \in Blame!Ids /\ s[n] \in In(s)
    BY DEF In
  <2> QED  BY <2>1 DEF Charge
<1>2. Weigh(Charge(es), s) = Weigh(Charge(fs), s)
  BY <1>1, WeighSame
<1>3. Blame!SumBytes(fs, s) = Blame!SumBytes(es, s)
  BY <1>2, BytesWeigh
<1> QED  BY <1>3 DEF Balanced, Blame!Fits

(* Entries that leave the cache with their bytes. *)
LEMMA LeavesBytes ==
  ASSUME NEW es, Weighed(es), NEW s \in Seq(Blame!Ids), Once(s), NEW S
  PROVE  /\ Blame!Without(s, S) \in Seq(Blame!Ids) /\ Once(Blame!Without(s, S))
         /\ In(Blame!Without(s, S)) = In(s) \ S
         /\ Blame!SumBytes(es, s) = Blame!SumBytes(es, Blame!Only(s, S)) + Blame!SumBytes(es, Blame!Without(s, S))
         /\ Blame!SumBytes(es, Blame!Only(s, S)) \in Nat /\ Blame!SumBytes(es, Blame!Without(s, S)) \in Nat
         /\ Len(s) = Len(Blame!Only(s, S)) + Len(Blame!Without(s, S))
<1> DEFINE a == Blame!Only(s, S)
           b == Blame!Without(s, S)
           w == [i \in Blame!Ids |-> 1]
<1>1. a \in Seq(Blame!Ids) /\ In(a) = In(s) \cap S
  BY OnlyIs
<1>2. b \in Seq(Blame!Ids) /\ Once(b) /\ In(b) = In(s) \ S
  <2> DEFINE T == Blame!Range(s) \ S
  <2>1. Blame!Range(s) = In(s)
    BY CachedIn
  <2>2. b = Blame!Only(s, T) /\ In(s) \cap T = In(s) \ S
    BY <2>1 DEF Blame!Without
  <2> HIDE DEF T, b
  <2>3. Blame!Only(s, T) \in Seq(Blame!Ids) /\ Once(Blame!Only(s, T)) /\ In(Blame!Only(s, T)) = In(s) \cap T
    BY OnlyIs
  <2> QED  BY <2>2, <2>3
<1>3. Weigh(Charge(es), s) = Weigh(Charge(es), a) + Weigh(Charge(es), b)
  BY BytesWeigh, OnlyWeighs
<1>4. Len(s) = Len(a) + Len(b)
  <2>1. w \in [Blame!Ids -> Nat] /\ Weigh(w, s) = Len(s)
    BY WeighCount
  <2>2. Weigh(w, a) = Len(a) /\ Weigh(w, b) = Len(b)
    BY <1>1, <1>2, WeighCount
  <2> HIDE DEF w
  <2>3. Weigh(w, s) = Weigh(w, a) + Weigh(w, b)
    BY <2>1, OnlyWeighs
  <2> QED  BY <2>1, <2>2, <2>3
<1> HIDE DEF a, b
<1>5. /\ Blame!SumBytes(es, s) = Weigh(Charge(es), s) /\ Blame!SumBytes(es, a) = Weigh(Charge(es), a)
      /\ Blame!SumBytes(es, b) = Weigh(Charge(es), b)
      /\ Weigh(Charge(es), a) \in Nat /\ Weigh(Charge(es), b) \in Nat
  BY <1>1, <1>2, BytesWeigh, WeightsNat
<1> QED  BY <1>2, <1>3, <1>4, <1>5 DEF a, b

(* A new id at the end of a sequence. *)
LEMMA AppendOnce ==
  ASSUME NEW I, NEW s \in Seq(I), NEW x \in I, Once(s), x \notin In(s)
  PROVE  /\ Append(s, x) \in Seq(I) /\ Once(Append(s, x)) /\ In(Append(s, x)) = In(s) \cup {x}
         /\ Len(Append(s, x)) = Len(s) + 1 /\ Len(s) \in Nat
<1> DEFINE u == Append(s, x)
<1>1. /\ Len(s) \in Nat /\ u \in Seq(I) /\ Len(u) = Len(s) + 1
      /\ (\A i \in 1 .. Len(s) : u[i] = s[i]) /\ u[Len(s) + 1] = x
  OBVIOUS
<1> HIDE DEF u
<1>2. 1 .. Len(u) = (1 .. Len(s)) \cup {Len(s) + 1}
  BY <1>1
<1>3. In(u) = In(s) \cup {x}
  BY <1>1, <1>2 DEF In
<1>4. Once(u)
  BY <1>1, <1>2 DEF Once, In
<1>5. /\ u \in Seq(I) /\ Once(u) /\ In(u) = In(s) \cup {x} /\ Len(u) = Len(s) + 1 /\ Len(s) \in Nat
  BY <1>1, <1>3, <1>4
<1> QED  BY <1>5 DEF u

LEMMA DropBalanced ==
  ASSUME Blame!ConstantsAssumption, NEW es, Weighed(es), NEW s \in Seq(Blame!Ids), Once(s), NEW S, NEW t, Balanced(es, s, t),
         \A i \in In(s) \cap S : es[i].bytes = 0
  PROVE  Balanced(es, Blame!Without(s, S), t)
<1> DEFINE a == Blame!Only(s, S)
           b == Blame!Without(s, S)
<1>1. /\ Blame!SumBytes(es, s) = Blame!SumBytes(es, a) + Blame!SumBytes(es, b)
      /\ Blame!SumBytes(es, b) \in Nat /\ Len(s) = Len(a) + Len(b) /\ b \in Seq(Blame!Ids)
  BY LeavesBytes
<1>2. a \in Seq(Blame!Ids) /\ In(a) = In(s) \cap S
  BY OnlyIs
<1> HIDE DEF a, b
<1>3. \A n \in 1 .. Len(a) : Charge(es)[a[n]] = 0
  <2>1. \A n \in 1 .. Len(a) : a[n] \in In(a) /\ a[n] \in Blame!Ids
    BY <1>2 DEF In
  <2> QED  BY <1>2, <2>1 DEF Charge
<1>4. Blame!SumBytes(es, a) = 0
  BY <1>2, <1>3, BytesWeigh, WeighNothing
<1>5. Len(b) <= Len(s) /\ Len(a) \in Nat /\ Len(b) \in Nat /\ Len(s) \in Nat
  BY <1>1, <1>2
<1>6. Blame!SumBytes(es, b) = Blame!SumBytes(es, s)
  BY <1>1, <1>4
<1>7. ASSUME Len(b) > 1 PROVE Blame!Fits(es, b)
  <2>1. Len(s) > 1 /\ MaxEntries \in Nat
    BY <1>5, <1>7 DEF Blame!ConstantsAssumption
  <2>2. Len(s) <= MaxEntries /\ Blame!SumBytes(es, s) <= MaxBytes
    BY <2>1 DEF Balanced, Blame!Fits
  <2>3. Len(b) <= MaxEntries
    BY <1>5, <2>1, <2>2
  <2> QED  BY <1>6, <2>2, <2>3 DEF Blame!Fits
<1>8. Balanced(es, b, t)
  BY <1>6, <1>7 DEF Balanced
<1> QED  BY <1>8 DEF b

(* Entries that become the most recent. *)
LEMMA MoveBalanced ==
  ASSUME NEW es, Weighed(es), NEW s \in Seq(Blame!Ids), Once(s), NEW i \in In(s), NEW t, Balanced(es, s, t)
  PROVE  /\ Append(Blame!Without(s, {i}), i) \in Seq(Blame!Ids)
         /\ Once(Append(Blame!Without(s, {i}), i)) /\ In(Append(Blame!Without(s, {i}), i)) = In(s)
         /\ Balanced(es, Append(Blame!Without(s, {i}), i), t)
<1> DEFINE a == Blame!Only(s, {i})
           b == Blame!Without(s, {i})
           c == Append(b, i)
<1>0. i \in Blame!Ids
  BY DEF In
<1>1. /\ b \in Seq(Blame!Ids) /\ Once(b) /\ In(b) = In(s) \ {i}
      /\ Blame!SumBytes(es, s) = Blame!SumBytes(es, a) + Blame!SumBytes(es, b)
      /\ Blame!SumBytes(es, b) \in Nat /\ Len(s) = Len(a) + Len(b)
  BY LeavesBytes
<1>2. a \in Seq(Blame!Ids) /\ Once(a) /\ In(a) = {i}
  <2>1. In(s) \cap {i} = {i}
    OBVIOUS
  <2> QED  BY <2>1, OnlyIs
<1> HIDE DEF a, b
<1> DEFINE one == <<i>>
<1>3. a = one
  <2>1. Len(a) \in Nat /\ \A n \in 1 .. Len(a) : a[n] \in In(a)
    BY <1>2 DEF In
  <2>2. Len(a) # 0
    <3>1. ASSUME Len(a) = 0 PROVE FALSE
      <4>1. 1 .. Len(a) = {}
        BY <3>1
      <4> QED  BY <1>2, <4>1 DEF In
    <3> QED  BY <3>1
  <2>3. Len(a) <= 1
    <3>1. ASSUME Len(a) > 1 PROVE FALSE
      <4>1. 1 \in 1 .. Len(a) /\ 2 \in 1 .. Len(a)
        BY <2>1, <3>1
      <4>2. a[1] = i /\ a[2] = i
        BY <1>2, <2>1, <4>1
      <4> QED  BY <1>2, <4>1, <4>2 DEF Once
    <3> QED  BY <2>1, <3>1
  <2>4. Len(a) = 1
    BY <2>1, <2>2, <2>3
  <2>5. a[1] = i
    BY <1>2, <2>1, <2>4
  <2>6. one \in Seq(Blame!Ids) /\ Len(one) = 1 /\ one[1] = i
    BY <1>0
  <2> HIDE DEF one
  <2>7. \A n \in 1 .. Len(a) : a[n] = one[n]
    BY <2>4, <2>5, <2>6
  <2> QED  BY <1>2, <2>4, <2>6, <2>7, SeqEqual
<1>4. /\ c \in Seq(Blame!Ids) /\ Once(c) /\ In(c) = In(s) /\ Len(c) = Len(b) + 1
  <2>1. i \notin In(b) /\ In(b) \cup {i} = In(s)
    BY <1>1
  <2>2. /\ c \in Seq(Blame!Ids) /\ Once(c) /\ In(c) = In(b) \cup {i} /\ Len(c) = Len(b) + 1
    BY <1>0, <1>1, <2>1, AppendOnce
  <2> HIDE DEF c
  <2> QED  BY <2>1, <2>2
<1>5. /\ Blame!SumBytes(es, b) = Weigh(Charge(es), b) /\ Charge(es) \in [Blame!Ids -> Nat]
      /\ Charge(es)[i] = es[i].bytes
  BY <1>0, <1>1, BytesWeigh DEF Charge
<1>6. Blame!SumBytes(es, c) = Blame!SumBytes(es, b) + es[i].bytes
  <2> DEFINE w == Charge(es)
  <2>1. w \in [Blame!Ids -> Nat]
    BY <1>5
  <2> HIDE DEF w
  <2>2. Weigh(w, c) = Weigh(w, b) + w[i]
    BY <1>0, <1>1, <2>1, WeighAppend
  <2> HIDE DEF c
  <2>3. Blame!SumBytes(es, c) = Weigh(Charge(es), c)
    BY <1>4, BytesWeigh
  <2> QED  BY <1>5, <2>2, <2>3 DEF w
<1>7. Blame!SumBytes(es, a) = es[i].bytes
  <2> DEFINE w == Charge(es)
  <2>1. w \in [Blame!Ids -> Nat]
    BY <1>5
  <2> HIDE DEF w
  <2>2. Weigh(w, one) = w[i]
    BY <1>0, <2>1, WeighOne
  <2>3. Blame!SumBytes(es, a) = Weigh(w, a)
    BY <1>2, BytesWeigh DEF w
  <2> HIDE DEF one
  <2> QED  BY <1>3, <1>5, <2>2, <2>3 DEF w
<1>8. es[i].bytes \in Nat
  BY <1>0 DEF Weighed
<1>9. Len(a) = 1
  BY <1>3
<1> HIDE DEF c, one
<1>13. Blame!SumBytes(es, c) = Blame!SumBytes(es, s) /\ Len(c) = Len(s)
  <2>1. Len(b) \in Nat
    BY <1>1
  <2> QED  BY <1>1, <1>4, <1>6, <1>7, <1>8, <1>9, <2>1
<1>14. Balanced(es, c, t)
  BY <1>13 DEF Balanced, Blame!Fits
<1> QED  BY <1>4, <1>14 DEF c, b
-----------------------------------------------------------------------------
(* Only bytes and order count for the cache's account. *)
LEMMA SameBytes ==
  ASSUME NEW es, Weighed(es), NEW fs, Weighed(fs), NEW s \in Seq(Blame!Ids),
         \A i \in In(s) : fs[i].bytes = es[i].bytes
  PROVE  Blame!SumBytes(fs, s) = Blame!SumBytes(es, s)
<1>1. \A n \in 1 .. Len(s) : Charge(es)[s[n]] = Charge(fs)[s[n]]
  <2>1. \A n \in 1 .. Len(s) : s[n] \in Blame!Ids /\ s[n] \in In(s)
    BY DEF In
  <2> QED  BY <2>1 DEF Charge
<1>2. Weigh(Charge(es), s) = Weigh(Charge(fs), s)
  BY <1>1, WeighSame
<1> QED  BY <1>2, BytesWeigh

LEMMA SeqOf ==
  ASSUME NEW I, NEW J, NEW s \in Seq(I), In(s) \subseteq J
  PROVE  s \in Seq(J)
<1>1. Len(s) \in Nat /\ \A n \in 1 .. Len(s) : s[n] \in J
  BY DEF In
<1>2. s = [n \in 1 .. Len(s) |-> s[n]]
  OBVIOUS
<1>3. [n \in 1 .. Len(s) |-> s[n]] \in Seq(J)
  BY <1>1
<1> QED  BY <1>2, <1>3

LEMMA SettleAccounts ==
  ASSUME Blame!ConstantsAssumption, NEW es, NEW cs, NEW n \in 0 .. MaxRequests, Served(es, cs, n),
         Unasked(es, n), Uncharged(es), NEW S \in SUBSET (1 .. n), NEW how \in {"dropped", "answered"}
  PROVE  /\ Unasked(Blame!Settled(es, S, how), n) /\ Uncharged(Blame!Settled(es, S, how))
         /\ \A j \in Blame!Ids : /\ Blame!Settled(es, S, how)[j].bytes = es[j].bytes
                                 /\ j \in S => Blame!Settled(es, S, how)[j].state = how
                                 /\ j \notin S => Blame!Settled(es, S, how)[j] = es[j]
<1> DEFINE fs == Blame!Settled(es, S, how)
<1>0. es \in [Blame!Ids -> BlameEntries] /\ n \in Nat /\ Blame!Ids \subseteq Nat
  BY MadeIds DEF Served, Kinds, Blame!Ids
<1>1. ASSUME NEW j \in Blame!Ids
      PROVE  /\ fs[j].bytes = es[j].bytes /\ (j \notin S => fs[j] = es[j]) /\ (j \in S => fs[j].state = how)
             /\ j \in S => ~ j > n
  <2>1. es[j] \in BlameEntries
    BY <1>0
  <2>2. CASE j \in S
    <3>1. j \in 1 .. n /\ ~ j > n
      BY <1>0, <2>2
    <3>2. fs[j] = [es[j] EXCEPT !.state = how, !.waiters = {}, !.timer = FALSE, !.pinned = FALSE]
      BY <2>2 DEF Blame!Settled
    <3>3. fs[j].bytes = es[j].bytes /\ fs[j].state = how
      BY <2>1, <3>2 DEF BlameEntries
    <3> QED  BY <2>2, <3>1, <3>3
  <2>3. CASE j \notin S
    BY <2>3 DEF Blame!Settled
  <2> QED  BY <2>2, <2>3
<1> HIDE DEF fs
<1>2. Unasked(fs, n)
  BY <1>1 DEF Unasked
<1>3. Uncharged(fs)
  BY <1>1 DEF Uncharged
<1>4. Unasked(fs, n) /\ Uncharged(fs)
      /\ \A j \in Blame!Ids : /\ fs[j].bytes = es[j].bytes /\ (j \in S => fs[j].state = how)
                              /\ j \notin S => fs[j] = es[j]
  BY <1>1, <1>2, <1>3
<1> QED  BY <1>4 DEF fs

LEMMA EnteringIs ==
  ASSUME Blame!ConstantsAssumption, NEW e \in BlameEntries, NEW c, NEW token \in Tokens
  PROVE  /\ Blame!Entering(e, c, token).state = e.state
         /\ Blame!Entering(e, c, token).bytes = e.bytes
<1>0. token \in {"none", "live", "dead"}
  BY DEF Blame!ConstantsAssumption
<1>1. CASE token = "none"
  BY <1>1 DEF Blame!Entering, BlameEntries
<1>2. CASE token = "live"
  BY <1>2 DEF Blame!Entering, BlameEntries
<1>3. CASE token = "dead"
  BY <1>3 DEF Blame!Entering, BlameEntries
<1> QED  BY <1>0, <1>1, <1>2, <1>3

(* What getBlame of a key the cache holds leaves as it should be. *)
LEMMA RejoinKeeps ==
  ASSUME Blame!ConstantsAssumption, BlameInv, NEW c \in Callers, NEW k, NEW token \in Tokens,
         Blame!Rejoin(c, k, token)
  PROVE  BlameInv'
<1> DEFINE n == blameSent
<1>0. /\ n \in 0 .. MaxRequests /\ n \in Nat /\ Served(blameEntry, blameCaller, n)
      /\ blameLru \in Seq(1 .. n) /\ blameLru \in Seq(Blame!Ids) /\ Once(blameLru)
      /\ In(blameLru) \subseteq 1 .. n /\ Blame!Cached = In(blameLru)
      /\ Unasked(blameEntry, n) /\ Uncharged(blameEntry) /\ Balanced(blameEntry, blameLru, blameTotal)
      /\ blameEntry \in [Blame!Ids -> BlameEntries] /\ Weighed(blameEntry)
      /\ 1 .. n \subseteq Blame!Ids /\ Blame!Ids \subseteq Nat
  BY MadeSeq, MadeIds, ServedWeighed DEF BlameInv, Accounted, Blame!Cached, Served, Kinds, Blame!Ids
<1>1. PICK i \in Blame!Cached :
        /\ blameLru' = Append(Blame!Without(blameLru, {i}), i)
        /\ blameEntry' = IF Blame!Running(i) THEN [blameEntry EXCEPT ![i] = Blame!Entering(@, c, token)] ELSE blameEntry
        /\ blameCaller' = [blameCaller EXCEPT ![c] = Blame!Entered(i, token, ~ Blame!Running(i))]
  BY DEF Blame!Rejoin
<1>2. i \in In(blameLru) /\ i \in 1 .. n /\ i \in Blame!Ids
  BY <1>0
<1>3. UNCHANGED <<blameTotal, blameSent>> /\ ~ Awaits(blameCaller[c])
  BY DEF Blame!Rejoin, Blame!Waiting, Awaits
<1>4. /\ blameLru' \in Seq(Blame!Ids) /\ Once(blameLru') /\ In(blameLru') = In(blameLru)
      /\ Balanced(blameEntry, blameLru', blameTotal)
  BY <1>0, <1>1, <1>2, MoveBalanced
<1>5. /\ Served(blameEntry', blameCaller', n) /\ Unasked(blameEntry', n) /\ Uncharged(blameEntry')
      /\ \A j \in Blame!Ids : blameEntry'[j].bytes = blameEntry[j].bytes
  <2>1. CASE Blame!Running(i)
    <3>1. blameEntry[i].state = "running"
      BY <2>1 DEF Blame!Running
    <3>2. /\ blameEntry' = [blameEntry EXCEPT ![i] = Blame!Entering(@, c, token)]
          /\ blameCaller' = [blameCaller EXCEPT ![c] = Blame!Entered(i, token, FALSE)]
      BY <1>1, <2>1, Zenon
    <3>3. Served(blameEntry', blameCaller', n)
      BY <1>0, <1>2, <1>3, <3>1, <3>2, EnterServes
    <3>4. ASSUME NEW j \in Blame!Ids
          PROVE  /\ blameEntry'[j].bytes = blameEntry[j].bytes /\ blameEntry'[j].state = blameEntry[j].state
                 /\ j > n => blameEntry'[j] = blameEntry[j]
      <4>1. CASE j = i
        <5> DEFINE f == Blame!Entering(blameEntry[i], c, token)
        <5>1. blameEntry[i] \in BlameEntries
          BY <1>0, <1>2
        <5>2. f.state = blameEntry[i].state /\ f.bytes = blameEntry[i].bytes
          BY <5>1, EnteringIs
        <5>3. blameEntry'[i] = f
          BY <1>0, <1>2, <3>2
        <5> HIDE DEF f
        <5> QED  BY <1>0, <1>2, <4>1, <5>2, <5>3
      <4>2. CASE j # i
        BY <1>0, <3>2, <4>2
      <4> QED  BY <4>1, <4>2
    <3>5. Unasked(blameEntry', n) /\ Uncharged(blameEntry')
      BY <1>0, <3>4 DEF Unasked, Uncharged
    <3> QED  BY <3>3, <3>4, <3>5
  <2>2. CASE ~ Blame!Running(i)
    <3>1. blameEntry' = blameEntry /\ blameCaller' = [blameCaller EXCEPT ![c] = [state |-> "told", id |-> 0]]
      BY <1>1, <2>2 DEF Blame!Entered
    <3>2. Served(blameEntry, blameCaller', n)
      BY <1>0, <1>3, <3>1, TellServes
    <3> QED  BY <1>0, <3>1, <3>2
  <2> QED  BY <2>1, <2>2
<1>6. Balanced(blameEntry', blameLru', blameTotal)
  <2>1. Weighed(blameEntry')
    BY <1>5, ServedWeighed
  <2>2. \A j \in In(blameLru') : j \in Blame!Ids
    BY <1>0, <1>4
  <2> QED  BY <1>0, <1>4, <1>5, <2>1, <2>2, StayBalanced
<1>7. blameLru' \in Seq(1 .. n)
  BY <1>0, <1>4, SeqOf
<1> QED  BY <1>0, <1>3, <1>4, <1>5, <1>6, <1>7 DEF BlameInv, Accounted

(* What getBlame of a key it does not hold leaves as it should be. *)
LEMMA RequestKeeps ==
  ASSUME Blame!ConstantsAssumption, BlameInv, NEW c \in Callers, NEW k \in Blame!Keys, NEW token \in Tokens,
         Blame!Request(c, k, token)
  PROVE  BlameInv'
<1> DEFINE n == blameSent
           dead == Blame!Superseded(k)
           stopped == {i \in dead : Blame!Running(i)}
           new == [Blame!Unused EXCEPT !.key = k, !.state = "running"]
           left == Blame!Settled(blameEntry, stopped, "dropped")
           told == Blame!Told(blameCaller, stopped, "told")
           mid == [left EXCEPT ![n + 1] = new]
           b == Blame!Without(blameLru, dead)
           s == Append(b, n + 1)
<1>0. /\ n \in 0 .. MaxRequests /\ n \in Nat /\ Served(blameEntry, blameCaller, n)
      /\ blameLru \in Seq(1 .. n) /\ blameLru \in Seq(Blame!Ids) /\ Once(blameLru)
      /\ In(blameLru) \subseteq 1 .. n /\ Blame!Cached = In(blameLru)
      /\ Unasked(blameEntry, n) /\ Uncharged(blameEntry) /\ Balanced(blameEntry, blameLru, blameTotal)
      /\ blameEntry \in [Blame!Ids -> BlameEntries] /\ Weighed(blameEntry)
      /\ 1 .. n \subseteq Blame!Ids /\ Blame!Ids \subseteq Nat
  BY MadeSeq, MadeIds, ServedWeighed DEF BlameInv, Accounted, Blame!Cached, Served, Kinds, Blame!Ids
<1>1. /\ ~ Awaits(blameCaller[c]) /\ blameSent' = n + 1 /\ n \in 0 .. MaxRequests - 1
      /\ n + 1 \in 0 .. MaxRequests /\ n + 1 \in Blame!Ids /\ n + 1 \in 1 .. n + 1
  BY <1>0 DEF Blame!Request, Blame!Waiting, Awaits, Blame!Ids, Blame!ConstantsAssumption
<1>2. /\ blameEntry' = [left EXCEPT ![n + 1] = Blame!Entering(new, c, token)]
      /\ Blame!Evict(blameEntry', s, blameTotal - Blame!SumBytes(blameEntry, Blame!Only(blameLru, dead)))
      /\ blameCaller' = [told EXCEPT ![c] = Blame!Entered(n + 1, token, FALSE)]
  BY DEF Blame!Request
<1>3. dead \subseteq In(blameLru) /\ stopped \in SUBSET (1 .. n)
  BY <1>0 DEF Blame!Superseded
<1>4. /\ Served(left, told, n) /\ Unasked(left, n) /\ Uncharged(left)
      /\ \A j \in Blame!Ids : left[j].bytes = blameEntry[j].bytes
  <2> HIDE DEF stopped
  <2> QED  BY <1>0, <1>3, SettleServes, SettleAccounts
<1>5. ~ Awaits(told[c])
  <2> HIDE DEF stopped
  <2>1. told[c] = blameCaller[c] \/ told[c] = [state |-> "told", id |-> 0]
    BY DEF Blame!Told
  <2> QED  BY <1>1, <2>1 DEF Awaits
<1>6. /\ new \in BlameEntries /\ new.state = "running" /\ new.bytes = 0
  BY DEF BlameEntries, Blame!Unused, EntryStates
<1>7. left \in [Blame!Ids -> BlameEntries] /\ left[n + 1] = Blame!Unused
  BY <1>0, <1>1, <1>4 DEF Served, Kinds, Unasked
<1>8. Served(mid, told, n + 1)
  <2> HIDE DEF left, told
  <2> QED  BY <1>1, <1>4, <1>7, NewServes
<1> HIDE DEF dead, stopped, left, told, new
<1>9. /\ mid[n + 1] = new /\ blameEntry' = [mid EXCEPT ![n + 1] = Blame!Entering(@, c, token)]
  BY <1>1, <1>2, <1>7
<1>10. Served(blameEntry', blameCaller', n + 1)
  <2> DEFINE m == n + 1
  <2>1. m \in 0 .. MaxRequests /\ m \in 1 .. m /\ Served(mid, told, m) /\ mid[m].state = "running"
    BY <1>1, <1>6, <1>8, <1>9
  <2> HIDE DEF mid, m
  <2>2. Served([mid EXCEPT ![m] = Blame!Entering(@, c, token)],
               [told EXCEPT ![c] = Blame!Entered(m, token, FALSE)], m)
    BY <1>5, <2>1, EnterServes
  <2> QED  BY <1>2, <1>9, <2>2, Zenon DEF m
<1> DEFINE e == Blame!Entering(new, c, token)
<1>11. e.state = "running" /\ e.bytes = 0
  BY <1>6, EnteringIs
<1>12. /\ blameEntry'[n + 1] = e /\ \A j \in Blame!Ids : j # n + 1 => blameEntry'[j] = left[j]
  BY <1>1, <1>2, <1>7
<1> HIDE DEF e
<1>13. /\ Weighed(blameEntry') /\ blameEntry'[n + 1].bytes = 0
       /\ \A j \in Blame!Ids : j # n + 1 => blameEntry'[j].bytes = blameEntry[j].bytes
  BY <1>4, <1>10, <1>11, <1>12, ServedWeighed
<1>14. Unasked(blameEntry', n + 1)
  BY <1>0, <1>4, <1>12 DEF Unasked
<1>15. Uncharged(blameEntry')
  BY <1>4, <1>11, <1>12 DEF Uncharged
<1>16. /\ b \in Seq(Blame!Ids) /\ Once(b) /\ In(b) = In(blameLru) \ dead
       /\ Blame!SumBytes(blameEntry, blameLru)
            = Blame!SumBytes(blameEntry, Blame!Only(blameLru, dead)) + Blame!SumBytes(blameEntry, b)
       /\ Blame!SumBytes(blameEntry, Blame!Only(blameLru, dead)) \in Nat /\ Blame!SumBytes(blameEntry, b) \in Nat
  BY <1>0, LeavesBytes
<1>17. In(b) \subseteq 1 .. n /\ n + 1 \notin In(b)
  BY <1>0, <1>16
<1> HIDE DEF b
<1>18. s \in Seq(Blame!Ids) /\ Once(s) /\ In(s) = In(b) \cup {n + 1}
  BY <1>1, <1>16, <1>17, AppendOnce
<1>19. Blame!SumBytes(blameEntry', s) = Blame!SumBytes(blameEntry, b)
  <2> DEFINE w == Charge(blameEntry')
  <2>1. \A j \in In(b) : j \in Blame!Ids /\ j # n + 1
    BY <1>0, <1>17
  <2>2. Blame!SumBytes(blameEntry', b) = Blame!SumBytes(blameEntry, b)
    BY <1>0, <1>13, <1>16, <2>1, SameBytes
  <2>3. w \in [Blame!Ids -> Nat] /\ w[n + 1] = 0 /\ Blame!SumBytes(blameEntry', b) = Weigh(w, b)
    BY <1>1, <1>13, <1>16, BytesWeigh DEF Charge
  <2>4. Blame!SumBytes(blameEntry', s) = Weigh(w, s)
    <3> HIDE DEF s
    <3> QED  BY <1>13, <1>18, BytesWeigh
  <2> HIDE DEF w
  <2>5. Weigh(w, s) = Weigh(w, b) + w[n + 1]
    BY <1>1, <1>16, <2>3, WeighAppend
  <2> QED  BY <1>16, <2>2, <2>3, <2>4, <2>5
<1> HIDE DEF s
<1>20. blameTotal - Blame!SumBytes(blameEntry, Blame!Only(blameLru, dead)) = Blame!SumBytes(blameEntry', s)
  BY <1>0, <1>16, <1>19 DEF Balanced
<1>21. Blame!Evict(blameEntry', s, Blame!SumBytes(blameEntry', s))
  BY <1>2, <1>20
<1>22. /\ blameLru' \in Seq(Blame!Ids) /\ In(blameLru') \subseteq In(s) /\ Once(blameLru')
       /\ blameTotal' = Blame!SumBytes(blameEntry', blameLru')
       /\ Len(blameLru') > 1 => Blame!Fits(blameEntry', blameLru')
  BY <1>13, <1>18, <1>21, Evicts
<1>23. blameLru' \in Seq(1 .. n + 1)
  <2>1. In(s) \subseteq 1 .. n + 1
    BY <1>0, <1>17, <1>18
  <2> QED  BY <1>22, <2>1, SeqOf
<1> QED  BY <1>1, <1>10, <1>14, <1>15, <1>22, <1>23 DEF BlameInv, Accounted, Balanced

(* A request that ends without an answer to keep. *)
LEMMA EndsKeep ==
  ASSUME Blame!ConstantsAssumption, BlameInv, NEW i \in Blame!Ids, Blame!Running(i),
         blameEntry' = Blame!Settled(blameEntry, {i}, "dropped"), blameLru' = Blame!Without(blameLru, {i}),
         blameCaller' = Blame!Told(blameCaller, {i}, "told"), UNCHANGED <<blameTotal, blameSent>>
  PROVE  BlameInv'
<1> DEFINE n == blameSent
<1>0. /\ n \in 0 .. MaxRequests /\ n \in Nat /\ Served(blameEntry, blameCaller, n)
      /\ blameLru \in Seq(1 .. n) /\ blameLru \in Seq(Blame!Ids) /\ Once(blameLru)
      /\ In(blameLru) \subseteq 1 .. n
      /\ Unasked(blameEntry, n) /\ Uncharged(blameEntry) /\ Balanced(blameEntry, blameLru, blameTotal)
      /\ Weighed(blameEntry) /\ 1 .. n \subseteq Blame!Ids /\ Blame!Ids \subseteq Nat
  BY MadeSeq, MadeIds, ServedWeighed DEF BlameInv, Accounted, Blame!Ids
<1>1. blameEntry[i].state = "running" /\ blameEntry[i].bytes = 0 /\ {i} \in SUBSET (1 .. n)
  <2>1. blameEntry[i].state = "running" /\ blameEntry[i].bytes = 0
    BY <1>0 DEF Blame!Running, Uncharged
  <2>2. ~ i > n
    BY <1>0, <2>1 DEF Unasked, Blame!Unused
  <2> QED  BY <1>0, <2>1, <2>2 DEF Blame!Ids
<1>2. /\ Served(blameEntry', blameCaller', n) /\ Unasked(blameEntry', n) /\ Uncharged(blameEntry')
      /\ \A j \in Blame!Ids : blameEntry'[j].bytes = blameEntry[j].bytes
  <2> DEFINE S == {i}
  <2>1. S \in SUBSET (1 .. n)
    BY <1>1
  <2> HIDE DEF S
  <2>2. /\ Served(Blame!Settled(blameEntry, S, "dropped"), Blame!Told(blameCaller, S, "told"), n)
        /\ Unasked(Blame!Settled(blameEntry, S, "dropped"), n) /\ Uncharged(Blame!Settled(blameEntry, S, "dropped"))
        /\ \A j \in Blame!Ids : Blame!Settled(blameEntry, S, "dropped")[j].bytes = blameEntry[j].bytes
    BY <1>0, <2>1, SettleServes, SettleAccounts
  <2> QED  BY <2>2 DEF S
<1>3. /\ blameLru' \in Seq(Blame!Ids) /\ Once(blameLru') /\ In(blameLru') = In(blameLru) \ {i}
  BY <1>0, LeavesBytes
<1>4. Balanced(blameEntry, blameLru', blameTotal)
  <2>1. \A j \in In(blameLru) \cap {i} : blameEntry[j].bytes = 0
    BY <1>1
  <2> QED  BY <1>0, <2>1, DropBalanced
<1>5. Balanced(blameEntry', blameLru', blameTotal)
  <2>1. Weighed(blameEntry')
    BY <1>2, ServedWeighed
  <2>2. \A j \in In(blameLru') : j \in Blame!Ids
    BY <1>0, <1>3
  <2> QED  BY <1>0, <1>2, <1>3, <1>4, <2>1, <2>2, StayBalanced
<1>6. blameLru' \in Seq(1 .. n)
  BY <1>0, <1>3, SeqOf
<1> QED  BY <1>0, <1>2, <1>3, <1>5, <1>6 DEF BlameInv, Accounted

(* abandonTimer: nobody waits for the request it ends. *)
LEMMA AbandonKeeps ==
  ASSUME Blame!ConstantsAssumption, BlameInv, NEW i \in Blame!Ids, Blame!Abandon(i)
  PROVE  BlameInv'
<1> DEFINE n == blameSent
<1>0. /\ n \in 0 .. MaxRequests /\ Served(blameEntry, blameCaller, n) /\ blameLru \in Seq(Blame!Ids)
      /\ Unasked(blameEntry, n) /\ Uncharged(blameEntry) /\ Balanced(blameEntry, blameLru, blameTotal)
      /\ Weighed(blameEntry) /\ In(blameLru) \subseteq Blame!Ids
      /\ blameEntry \in [Blame!Ids -> BlameEntries] /\ blameCaller \in [Callers -> BlameCallers(n)]
  BY MadeSeq, MadeIds, ServedWeighed DEF BlameInv, Accounted, Served, Kinds
<1>1. CASE Blame!Deserted(blameEntry[i])
  <2>1. ASSUME NEW c \in Callers, Awaits(blameCaller[c]) PROVE blameCaller[c].id # i
    <3>1. Counts(blameEntry, blameCaller[c], c, n)
      BY <1>0, <2>1 DEF Served, Counted
    <3> QED  BY <1>1, <2>1, <3>1 DEF Counts, Blame!Deserted, Awaits
  <2>2. /\ Blame!Told(blameCaller, {i}, "abandoned") = blameCaller
        /\ Blame!Told(blameCaller, {i}, "told") = blameCaller
    BY <1>0, <2>1 DEF Blame!Told, Awaits
  <2> QED  BY <1>1, <2>2, EndsKeep DEF Blame!Abandon
<1>2. CASE ~ Blame!Deserted(blameEntry[i])
  <2>1. /\ blameEntry' = [blameEntry EXCEPT ![i].timer = FALSE]
        /\ UNCHANGED <<blameLru, blameCaller, blameTotal, blameSent>>
    BY <1>2 DEF Blame!Abandon
  <2>2. Served(blameEntry', blameCaller, n)
    BY <1>0, <1>2, <2>1, StayServes
  <2>3. ASSUME NEW j \in Blame!Ids
        PROVE  /\ blameEntry'[j].bytes = blameEntry[j].bytes /\ blameEntry'[j].state = blameEntry[j].state
               /\ j # i => blameEntry'[j] = blameEntry[j]
    <3>1. blameEntry[j] \in BlameEntries
      BY <1>0
    <3> QED  BY <1>0, <2>1, <3>1 DEF BlameEntries
  <2>4. Unasked(blameEntry', n)
    <3>1. ~ i > n
      BY <1>0 DEF Blame!Abandon, Blame!Running, Unasked, Blame!Unused
    <3> QED  BY <1>0, <2>3, <3>1 DEF Unasked
  <2>5. Uncharged(blameEntry')
    BY <1>0, <2>3 DEF Uncharged
  <2>6. Balanced(blameEntry', blameLru, blameTotal)
    <3>1. Weighed(blameEntry')
      BY <2>2, ServedWeighed
    <3> QED  BY <1>0, <2>3, <3>1, StayBalanced
  <2> QED  BY <2>1, <2>2, <2>4, <2>5, <2>6 DEF BlameInv, Accounted
<1> QED  BY <1>1, <1>2

(* leave() changes neither the cache nor its bytes. *)
LEMMA LeaveKeeps ==
  ASSUME Blame!ConstantsAssumption, BlameInv, NEW c \in Callers, Blame!Leave(c)
  PROVE  BlameInv'
<1> DEFINE n == blameSent
           i == blameCaller[c].id
<1>0. /\ n \in 0 .. MaxRequests /\ Served(blameEntry, blameCaller, n) /\ blameLru \in Seq(Blame!Ids)
      /\ Unasked(blameEntry, n) /\ Uncharged(blameEntry) /\ Balanced(blameEntry, blameLru, blameTotal)
      /\ Weighed(blameEntry) /\ In(blameLru) \subseteq Blame!Ids
      /\ blameEntry \in [Blame!Ids -> BlameEntries] /\ UNCHANGED <<blameLru, blameTotal, blameSent>>
  BY MadeSeq, MadeIds, ServedWeighed DEF BlameInv, Accounted, Served, Kinds, Blame!Leave
<1>1. Served(blameEntry', blameCaller', n)
  BY <1>0, LeaveServes
<1>2. i \in 1 .. n /\ i \in Blame!Ids /\ n \in Nat
  <2>1. Awaits(blameCaller[c])
    BY DEF Blame!Leave, Awaits
  <2>2. Counts(blameEntry, blameCaller[c], c, n)
    BY <1>0, <2>1 DEF Served, Counted
  <2> QED  BY <1>0, <2>2, MadeIds DEF Counts
<1>3. ASSUME NEW j \in Blame!Ids
      PROVE  /\ blameEntry'[j].bytes = blameEntry[j].bytes /\ blameEntry'[j].state = blameEntry[j].state
             /\ j # i => blameEntry'[j] = blameEntry[j]
  <2>1. blameEntry[j] \in BlameEntries
    BY <1>0
  <2> DEFINE e == [blameEntry[i] EXCEPT !.waiters = @ \ {c}]
             f == [e EXCEPT !.timer = @ \/ Blame!Deserted(e)]
  <2>2. blameEntry' = [blameEntry EXCEPT ![i] = f]
    BY DEF Blame!Leave
  <2>3. f.bytes = blameEntry[i].bytes /\ f.state = blameEntry[i].state
    <3>1. blameEntry[i] \in BlameEntries
      BY <1>0, <1>2
    <3>2. e \in BlameEntries /\ e.bytes = blameEntry[i].bytes /\ e.state = blameEntry[i].state
      BY <3>1 DEF BlameEntries
    <3> HIDE DEF e
    <3> QED  BY <3>2 DEF BlameEntries
  <2> HIDE DEF f
  <2> QED  BY <1>0, <1>2, <2>2, <2>3
<1>4. Unasked(blameEntry', n)
  <2>1. ~ i > n
    BY <1>2
  <2> QED  BY <1>0, <1>3, <2>1 DEF Unasked
<1>5. Uncharged(blameEntry')
  BY <1>0, <1>3 DEF Uncharged
<1>6. Balanced(blameEntry', blameLru, blameTotal)
  <2>1. Weighed(blameEntry')
    BY <1>1, ServedWeighed
  <2> QED  BY <1>0, <1>3, <2>1, StayBalanced
<1> QED  BY <1>0, <1>1, <1>4, <1>5, <1>6 DEF BlameInv, Accounted

(* The engine answers: what is still cached is charged for. *)
LEMMA AnswerKeeps ==
  ASSUME Blame!ConstantsAssumption, BlameInv, NEW i \in Blame!Ids, Blame!Answer(i)
  PROVE  BlameInv'
<1> DEFINE n == blameSent
           done == Blame!Settled(blameEntry, {i}, "answered")
<1>0. /\ n \in 0 .. MaxRequests /\ n \in Nat /\ Served(blameEntry, blameCaller, n)
      /\ blameLru \in Seq(1 .. n) /\ blameLru \in Seq(Blame!Ids) /\ Once(blameLru) /\ Len(blameLru) \in Nat
      /\ In(blameLru) \subseteq 1 .. n /\ Blame!Cached = In(blameLru)
      /\ Unasked(blameEntry, n) /\ Uncharged(blameEntry) /\ Balanced(blameEntry, blameLru, blameTotal)
      /\ Weighed(blameEntry) /\ 1 .. n \subseteq Blame!Ids /\ Blame!Ids \subseteq Nat
  BY MadeSeq, MadeIds, ServedWeighed DEF BlameInv, Accounted, Blame!Cached, Blame!Ids
<1>1. blameEntry[i].state = "running" /\ blameEntry[i].bytes = 0 /\ ~ i > n /\ {i} \in SUBSET (1 .. n)
  <2>1. blameEntry[i].state = "running" /\ blameEntry[i].bytes = 0
    BY <1>0 DEF Blame!Answer, Blame!Running, Uncharged
  <2>2. ~ i > n
    BY <1>0, <2>1 DEF Unasked, Blame!Unused
  <2> QED  BY <1>0, <2>1, <2>2 DEF Blame!Ids
<1>2. PICK b \in Sizes :
        /\ blameEntry' = [done EXCEPT ![i].bytes = IF Blame!Charged(i) THEN b ELSE 0]
        /\ IF Blame!Charged(i)
           THEN Blame!Evict(blameEntry', blameLru, blameTotal + (IF Blame!Charged(i) THEN b ELSE 0))
           ELSE UNCHANGED <<blameLru, blameTotal>>
  BY DEF Blame!Answer
<1> DEFINE size == IF Blame!Charged(i) THEN b ELSE 0
<1>3. size \in Nat /\ UNCHANGED blameSent
  BY DEF Blame!ConstantsAssumption, Blame!Answer
<1>4. /\ Served(done, blameCaller', n) /\ Unasked(done, n) /\ Uncharged(done)
      /\ \A j \in Blame!Ids : /\ done[j].bytes = blameEntry[j].bytes
                              /\ j = i => done[j].state = "answered"
  <2> DEFINE S == {i}
  <2>1. S \in SUBSET (1 .. n) /\ \A j \in Blame!Ids : j \in S <=> j = i
    BY <1>1
  <2> DEFINE fs == Blame!Settled(blameEntry, S, "answered")
  <2> HIDE DEF S
  <2>2. /\ Served(fs, Blame!Told(blameCaller, S, "told"), n)
        /\ Unasked(fs, n) /\ Uncharged(fs)
        /\ \A j \in Blame!Ids : fs[j].bytes = blameEntry[j].bytes /\ (j \in S => fs[j].state = "answered")
    BY <1>0, <2>1, SettleServes, SettleAccounts
  <2>3. blameCaller' = Blame!Told(blameCaller, S, "told") /\ done = fs
    BY DEF Blame!Answer, S
  <2> HIDE DEF fs, done
  <2> QED  BY <2>1, <2>2, <2>3
<1> HIDE DEF done
<1>5. blameEntry' = [done EXCEPT ![i].bytes = size]
  BY <1>2
<1> HIDE DEF size
<1>6. Served(blameEntry', blameCaller', n)
  BY <1>0, <1>3, <1>4, <1>5, ChargeServes
<1>7. ASSUME NEW j \in Blame!Ids
      PROVE  /\ blameEntry'[j].state = done[j].state
             /\ j # i => blameEntry'[j] = done[j] /\ blameEntry'[j].bytes = blameEntry[j].bytes
             /\ j = i => blameEntry'[j].bytes = size
  <2>1. done \in [Blame!Ids -> BlameEntries] /\ done[j] \in BlameEntries
    BY <1>4 DEF Served, Kinds
  <2> QED  BY <1>4, <1>5, <2>1 DEF BlameEntries
<1>8. Unasked(blameEntry', n)
  BY <1>1, <1>4, <1>7 DEF Unasked
<1>9. Uncharged(blameEntry')
  BY <1>4, <1>7 DEF Uncharged
<1>10. Weighed(blameEntry')
  BY <1>6, ServedWeighed
<1>11. CASE ~ Blame!Charged(i)
  <2>1. size = 0 /\ UNCHANGED <<blameLru, blameTotal>>
    BY <1>2, <1>11 DEF size
  <2>2. \A j \in Blame!Ids : blameEntry'[j].bytes = blameEntry[j].bytes
    BY <1>1, <1>7, <2>1
  <2>3. Balanced(blameEntry', blameLru, blameTotal)
    BY <1>0, <1>10, <2>2, StayBalanced
  <2> QED  BY <1>0, <1>3, <1>6, <1>8, <1>9, <2>1, <2>3 DEF BlameInv, Accounted
<1>12. CASE Blame!Charged(i)
  <2>1. PICK k \in 1 .. Len(blameLru) : blameLru[k] = i
    BY <1>0, <1>12 DEF Blame!Charged, In
  <2> DEFINE w == Charge(blameEntry)
             u == Charge(blameEntry')
             s == blameLru
  <2>2. w \in [Blame!Ids -> Nat] /\ u \in [Blame!Ids -> Nat] /\ w[i] = 0 /\ u[i] = size
        /\ Blame!SumBytes(blameEntry, s) = Weigh(w, s) /\ Blame!SumBytes(blameEntry', s) = Weigh(u, s)
    BY <1>0, <1>1, <1>7, <1>10, BytesWeigh DEF Charge
  <2>3. ASSUME NEW m \in 1 .. Len(s), m # k PROVE u[s[m]] = w[s[m]]
    <3>1. s[m] # i /\ s[m] \in Blame!Ids
      BY <1>0, <2>1, <2>3 DEF Once
    <3> QED  BY <1>7, <3>1 DEF Charge
  <2>4. s \in Seq(Blame!Ids) /\ k \in 1 .. Len(s) /\ s[k] = i
    BY <1>0, <2>1
  <2> HIDE DEF w, u, s
  <2>5. Weigh(u, s) = Weigh(w, s) - w[s[k]] + u[s[k]] /\ Weigh(w, s) \in Nat
    <3>1. Raised(w, u, s, k)
      BY <2>2, <2>3, <2>4, WeighRaised
    <3> QED  BY <2>2, <2>4, <3>1, WeightsNat DEF Raised
  <2>6. blameTotal + size = Blame!SumBytes(blameEntry', blameLru)
    BY <1>0, <1>3, <2>2, <2>4, <2>5 DEF Balanced, s
  <2>7. Blame!Evict(blameEntry', blameLru, Blame!SumBytes(blameEntry', blameLru))
    BY <1>2, <1>12, <2>6 DEF size
  <2>8. /\ blameLru' \in Seq(Blame!Ids) /\ In(blameLru') \subseteq In(blameLru) /\ Once(blameLru')
        /\ blameTotal' = Blame!SumBytes(blameEntry', blameLru')
        /\ Len(blameLru') > 1 => Blame!Fits(blameEntry', blameLru')
    BY <1>0, <1>10, <2>7, Evicts
  <2>9. blameLru' \in Seq(1 .. n)
    <3>1. In(blameLru') \subseteq 1 .. n
      BY <1>0, <2>8
    <3> QED  BY <2>8, <3>1, SeqOf
  <2> QED  BY <1>0, <1>3, <1>6, <1>8, <1>9, <2>8, <2>9 DEF BlameInv, Accounted, Balanced
<1> QED  BY <1>11, <1>12

(* invalidate() leaves nothing of the file. *)
LEMMA InvalidateKeeps ==
  ASSUME Blame!ConstantsAssumption, BlameInv, Blame!Invalidate
  PROVE  BlameInv'
<1> DEFINE n == blameSent
           S == Blame!Stopped
<1>0. /\ n \in 0 .. MaxRequests /\ Served(blameEntry, blameCaller, n)
      /\ blameLru \in Seq(Blame!Ids) /\ In(blameLru) \subseteq 1 .. n /\ Blame!Cached = In(blameLru)
      /\ Unasked(blameEntry, n) /\ Uncharged(blameEntry) /\ Balanced(blameEntry, blameLru, blameTotal)
      /\ Weighed(blameEntry)
  BY MadeSeq, ServedWeighed DEF BlameInv, Accounted, Blame!Cached
<1>1. /\ blameEntry' = Blame!Settled(blameEntry, S, "dropped")
      /\ blameLru' = << >> /\ blameTotal' = blameTotal - Blame!SumBytes(blameEntry, blameLru)
      /\ blameCaller' = Blame!Told(blameCaller, S, "told") /\ UNCHANGED blameSent
  BY DEF Blame!Invalidate
<1>2. S \in SUBSET (1 .. n)
  BY <1>0 DEF Blame!Stopped
<1> HIDE DEF S
<1>3. Served(blameEntry', blameCaller', n) /\ Unasked(blameEntry', n) /\ Uncharged(blameEntry')
  BY <1>0, <1>1, <1>2, SettleServes, SettleAccounts
<1>4. blameTotal' = 0
  <2>1. blameTotal = Weigh(Charge(blameEntry), blameLru) /\ blameTotal = Blame!SumBytes(blameEntry, blameLru)
        /\ Weigh(Charge(blameEntry), blameLru) \in Nat
    BY <1>0, BytesWeigh, WeightsNat DEF Balanced
  <2> QED  BY <1>1, <2>1
<1> DEFINE s == << >>
<1>5. s \in Seq(Blame!Ids) /\ s \in Seq(1 .. n) /\ Once(s) /\ Len(s) = 0
  BY DEF Once
<1>6. Blame!SumBytes(blameEntry', s) = 0
  <2>1. Weighed(blameEntry')
    BY <1>3, ServedWeighed
  <2>2. Weigh(Charge(blameEntry'), s) = 0
    BY WeighEmpty
  <2> HIDE DEF s
  <2> QED  BY <1>5, <2>1, <2>2, BytesWeigh
<1>7. blameLru' = s
  BY <1>1
<1> HIDE DEF s
<1> QED  BY <1>0, <1>1, <1>3, <1>4, <1>5, <1>6, <1>7 DEF BlameInv, Accounted, Balanced

LEMMA InitBlame == ASSUME Blame!ConstantsAssumption, Blame!Init PROVE BlameInv
<1>0. /\ blameEntry = [i \in Blame!Ids |-> Blame!Unused] /\ blameLru = << >> /\ blameTotal = 0 /\ blameSent = 0
      /\ blameCaller = [c \in Callers |-> Blame!Nobody] /\ MaxRequests \in Nat
  BY DEF Blame!Init, Blame!ConstantsAssumption
<1>1. Blame!Unused \in BlameEntries /\ Blame!Nobody \in BlameCallers(0)
  BY DEF Blame!Unused, Blame!Nobody, BlameEntries, BlameCallers, EntryStates, CallerStates, Blame!Keys
<1>2. Kinds(blameEntry, blameCaller, blameSent)
  BY <1>0, <1>1 DEF Kinds
<1>3. Asked(blameEntry, blameCaller) /\ Timed(blameEntry)
  BY <1>0 DEF Asked, Timed, Times, Blame!Unused
<1>4. Counted(blameEntry, blameCaller, blameSent)
  BY <1>0 DEF Counted, Awaits, Blame!Nobody
<1> DEFINE s == << >>
<1>5. s \in Seq(Blame!Ids) /\ s \in Seq(1 .. 0) /\ Once(s) /\ Len(s) = 0
  BY DEF Once
<1>6. Weighed(blameEntry) /\ Weigh(Charge(blameEntry), s) = 0
  BY <1>0, WeighEmpty DEF Weighed, Blame!Unused
<1>7. blameLru = s
  BY <1>0
<1> HIDE DEF s
<1>8. Balanced(blameEntry, blameLru, blameTotal)
  <2>1. Blame!SumBytes(blameEntry, s) = 0
    BY <1>5, <1>6, BytesWeigh
  <2> QED  BY <1>0, <1>5, <1>7, <2>1 DEF Balanced
<1>9. Unasked(blameEntry, blameSent) /\ Uncharged(blameEntry)
  BY <1>0 DEF Unasked, Uncharged, Blame!Unused
<1> QED  BY <1>0, <1>2, <1>3, <1>4, <1>5, <1>7, <1>8, <1>9 DEF BlameInv, Served, Accounted

LEMMA StepBlame ==
  ASSUME Blame!ConstantsAssumption, BlameInv, [Blame!Next]_(Blame!vars)
  PROVE  BlameInv'
<1>1. CASE UNCHANGED Blame!vars
  BY <1>1 DEF BlameInv, Blame!vars
<1>2. CASE Blame!GetBlame
  BY <1>2, RejoinKeeps, RequestKeeps DEF Blame!GetBlame
<1>3. CASE \E c \in Callers : Blame!Leave(c)
  BY <1>3, LeaveKeeps
<1>4. CASE \E i \in Blame!Ids : Blame!Abandon(i)
  BY <1>4, AbandonKeeps
<1>5. CASE \E i \in Blame!Ids : Blame!Answer(i)
  BY <1>5, AnswerKeeps
<1>6. CASE \E i \in Blame!Ids : Blame!Fail(i)
  BY <1>6, EndsKeep DEF Blame!Fail
<1>7. CASE Blame!Invalidate
  BY <1>7, InvalidateKeeps
<1> QED  BY <1>1, <1>2, <1>3, <1>4, <1>5, <1>6, <1>7 DEF Blame!Next

LEMMA BlameKept ==
  ASSUME Blame!ConstantsAssumption, BlameInv
  PROVE  Blame!AccountKept /\ Blame!CallersKept
<1> DEFINE n == blameSent
<1>0. /\ n \in 0 .. MaxRequests /\ Served(blameEntry, blameCaller, n) /\ blameLru \in Seq(Blame!Ids)
      /\ Blame!Cached = In(blameLru) /\ In(blameLru) \subseteq 1 .. n
      /\ Balanced(blameEntry, blameLru, blameTotal) /\ Weighed(blameEntry)
      /\ blameEntry \in [Blame!Ids -> BlameEntries] /\ blameCaller \in [Callers -> BlameCallers(n)]
  BY MadeSeq, ServedWeighed DEF BlameInv, Accounted, Blame!Cached, Served, Kinds
<1>1. Blame!AccountKept
  <2>1. blameTotal \in Nat
    BY <1>0, BytesWeigh, WeightsNat DEF Balanced
  <2>2. \A c \in Callers : blameCaller[c] \in
          [id : 0 .. n, state : {"idle", "waiting", "pinning", "told", "abandoned"}]
    BY <1>0 DEF BlameCallers, CallerStates
  <2>3. Blame!TypeOK
    BY <1>0, <2>1, <2>2 DEF Blame!TypeOK, BlameEntries, EntryStates
  <2> QED  BY <1>0, <2>3 DEF Blame!AccountKept, Blame!BytesExact, Blame!BudgetHeld, Balanced
<1>2. Blame!WaitersCounted
  <2>1. ASSUME NEW c \in Callers, Blame!Waiting(c)
        PROVE  Counts(blameEntry, blameCaller[c], c, n)
    BY <1>0, <2>1 DEF Blame!Waiting, Awaits, Served, Counted
  <2> QED  BY <2>1 DEF Blame!WaitersCounted, Blame!Running, Counts
<1>3. Blame!NeverAbandoned
  BY <1>0 DEF Blame!NeverAbandoned, BlameCallers, CallerStates
<1>4. Blame!DesertedTimed
  BY <1>0 DEF Blame!DesertedTimed, Blame!Running, Served, Timed, Times
<1> QED  BY <1>1, <1>2, <1>3, <1>4 DEF Blame!CallersKept

(* CallersServed: nobody is left waiting for a request that is over, none costs another
   its answer, what everybody left has a timer to end it, and the byte count is that of
   the entries, within both budgets (blameModel.ts, getBlame, join, request, evictToBudget):
   of the model by itself, and beside the engine client. *)
THEOREM BlameServes ==
  /\ Blame!Spec => [](Blame!AccountKept /\ Blame!CallersKept)
  /\ AllSpec => []CallersServed
<1>0. Blame!ConstantsAssumption
  BY BlameAssumed
<1>1. Blame!Init => BlameInv
  BY <1>0, InitBlame
<1>2. BlameInv /\ [Blame!Next]_(Blame!vars) => BlameInv'
  BY <1>0, StepBlame
<1>3. BlameInv => Blame!AccountKept /\ Blame!CallersKept
  BY <1>0, BlameKept
<1>4. Blame!Spec => [](Blame!AccountKept /\ Blame!CallersKept)
  BY <1>1, <1>2, <1>3, PTL DEF Blame!Spec
<1>5. AllSpec => []CallersServed
  <2> DEFINE Inv == subject = "blame" => BlameInv
  <2>1. Begins => Inv
    BY <1>1 DEF Begins
  <2>2. Inv /\ [Step]_AllVars => Inv'
    <3> SUFFICES ASSUME Inv, [Step]_AllVars, subject' = "blame" PROVE BlameInv'
      OBVIOUS
    <3>1. subject = "blame" /\ BlameInv
      BY DEF Step, Others, AllVars
    <3>2. [Blame!Next]_(Blame!vars)
      BY <3>1 DEF Step, AllVars, BlameVars, Blame!vars
    <3> QED  BY <1>2, <3>1, <3>2
  <2>3. Inv => CallersServed
    BY <1>3 DEF CallersServed
  <2> HIDE DEF Inv
  <2> QED  BY <2>1, <2>2, <2>3, PTL DEF AllSpec
<1> QED  BY <1>4, <1>5
=============================================================================
