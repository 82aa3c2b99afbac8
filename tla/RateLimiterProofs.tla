-------------------------- MODULE RateLimiterProofs --------------------------
(* The lazily filled bucket implements the one that fills at every tick, and callers
   are served in their order and before their patience ends, for every set of
   callers, capacity, rate and answers. *)
EXTENDS RateLimiter, TLAPS

Counters == {tokens, since} \subseteq 0 .. Full /\ Full \in Nat /\ Parts \in Nat \ {0}

LEMMA FullIsNat == Full \in Nat /\ Parts \in Nat \ {0} /\ Capacity \in Nat
  BY RateLimiterAssumption DEF Full

LEMMA InitCounters == Init => Counters
  BY FullIsNat DEF Init, Counters

(* A refill leaves what a bucket that had been filled all along would hold. *)
LEMMA LevelBounds ==
  ASSUME Counters PROVE Level \in 0 .. Full /\ Least(Full, Level) = Level
  BY DEF Counters, Level, Least

(* An admission takes Parts parts from what the bucket holds. *)
LEMMA AdmitTakes ==
  ASSUME Counters, NEW c \in Callers, Admit(c)
  PROVE  Counters' /\ Level >= Parts /\ Level' = Level - Parts
<1>1. tokens' = Level - Parts /\ since' = 0 /\ Level >= Parts
  BY DEF Admit, Refilled
<1>2. Level \in 0 .. Full
  BY LevelBounds
<1> QED
  BY <1>1, <1>2 DEF Counters, Level, Least, Full

(* A round that admits no one leaves the level alone, refill or not. *)
LEMMA PostponeKeeps ==
  ASSUME Counters, NEW c \in Callers, Postpone(c)
  PROVE  Counters' /\ Level' = Level
<1>1. CASE UNCHANGED <<tokens, since>>
  BY <1>1 DEF Counters, Level, Least, Full
<1>2. CASE tokens' = Level /\ since' = 0
  <2>1. Level \in 0 .. Full
    BY LevelBounds
  <2> QED
    BY <1>2, <2>1 DEF Counters, Level, Least, Full
<1> QED
  BY <1>1, <1>2 DEF Postpone, Refilled

(* A tick adds one part, or none to a full bucket. *)
LEMMA TickAccrues ==
  ASSUME Counters, Tick
  PROVE  Counters' /\ Level' = IF Level < Full THEN Level + 1 ELSE Full
<1>1. tokens' = tokens /\ since' = IF Full < since + 1 THEN Full ELSE since + 1
  BY DEF Tick, Least
<1> QED
  BY <1>1 DEF Counters, Level, Least, Full

LEMMA OthersKeep ==
  ASSUME Counters, UNCHANGED <<tokens, since>>
  PROVE  Counters' /\ Level' = Level
  BY DEF Counters, Level, Least, Full

LEMMA NextImplements ==
  ASSUME Counters, [Next]_vars
  PROVE  Counters' /\ [Bucket!Next]_Level
<1>1. CASE UNCHANGED vars
  BY <1>1, OthersKeep DEF vars, hostVars
<1>2. CASE Tick
  BY <1>2, TickAccrues DEF Bucket!Next, Bucket!Accrue, Bucket!Full, Full
<1>3. CASE \E c \in Callers : Arrive(c) \/ Abort(c) \/ GivesUp(c) \/ Fails(c)
  BY <1>3, OthersKeep DEF Arrive, Abort, GivesUp, Fails, hostVars
<1>4. CASE \E c \in Callers : Admit(c)
  BY <1>4, AdmitTakes DEF Bucket!Next, Bucket!Take
<1>5. CASE \E c \in Callers : Postpone(c)
  BY <1>5, PostponeKeeps
<1>6. CASE \E c \in Callers, h \in Headers : Answer(c, h)
  BY <1>6, OthersKeep DEF Answer
<1> QED
  BY <1>1, <1>2, <1>3, <1>4, <1>5, <1>6 DEF Next, Turn

(* Whatever the callers and the answers do, the requests sent are those a bucket
   filled at every tick could send (RateLimiter.refill and acquire). *)
THEOREM RefillLazily == Spec => ImplementsBucket
<1>1. Init => Bucket!Init
  BY FullIsNat DEF Init, Bucket!Init, Bucket!Full, Full, Level, Least
<1>2. Counters /\ [Next]_vars => Counters' /\ [Bucket!Next]_Level
  BY NextImplements
<1>3. Spec => []Counters
  BY InitCounters, <1>2, PTL DEF Spec
<1> QED
  BY <1>1, <1>2, <1>3, PTL DEF Spec, ImplementsBucket, Bucket!Spec

-----------------------------------------------------------------------------
(* The turns.  What the promises hold is a queue: q is its order, first to last.
   Only the first leaves it, and the order is that of what is left of patience. *)
HostTypes ==
  /\ Counters /\ {blocked, spacing, next} \subseteq Nat
  /\ pc \in [Callers -> {"idle", "queued", "asleep", "sent"}]
  /\ ahead \in [Callers -> Callers \cup {NONE}] /\ tail \in Callers \cup {NONE}
  /\ patience \in [Callers -> Int] /\ due \in [Callers -> Nat]

Order(n, q) ==
  /\ n \in Nat /\ q \in [1 .. n -> Callers]
  /\ \A i, j \in 1 .. n : q[i] = q[j] => i = j
  /\ \A c \in Callers : Waiting(c) <=> \E i \in 1 .. n : c = q[i]
  /\ tail = IF n = 0 THEN NONE ELSE q[n]
  /\ \A i \in 1 .. n : ahead[q[i]] = IF i = 1 THEN NONE ELSE q[i - 1]
  /\ \A i \in 2 .. n : pc[q[i]] = "queued"
  /\ \A i, j \in 1 .. n : i <= j => patience[q[i]] <= patience[q[j]]

Patient ==
  \A c \in Callers :
    /\ Waiting(c) => patience[c] \in 0 .. MaxWait
    /\ pc[c] = "asleep" => due[c] <= patience[c]

Queued == \E n \in Nat : \E q \in [1 .. n -> Callers] : Order(n, q)

TurnsInv == HostTypes /\ Patient /\ Queued

LEMMA NumberTypes ==
  /\ MaxWait \in Nat /\ Backoff \in Nat /\ NONE \notin Callers
  /\ \A h \in Headers : h.retry \in Nat /\ h.remaining \in Nat \cup {NONE} /\ h.reset \in Nat \cup {NONE}
  /\ NONE \notin Nat
  BY RateLimiterAssumption DEF Header

(* Whoever has its turn or sleeps is the first. *)
LEMMA FirstHasTheTurn ==
  ASSUME HostTypes, NEW n, NEW q, Order(n, q), NEW c \in Callers, pc[c] = "asleep" \/ Ready(c)
  PROVE  n > 0 /\ c = q[1]
<1>1. PICK i \in 1 .. n : c = q[i]
  BY DEF Order, Waiting, Ready
<1>2. i = 1
  <2>1. SUFFICES ASSUME i # 1 PROVE FALSE
    OBVIOUS
  <2>2. i \in 2 .. n /\ i - 1 \in 1 .. n
    BY <2>1, <1>1 DEF Order
  <2>3. ahead[c] = q[i - 1] /\ q[i - 1] \in Callers /\ pc[c] = "queued"
    BY <2>1, <2>2, <1>1 DEF Order
  <2> QED
    BY <2>3, NumberTypes DEF Ready
<1> QED
  BY <1>1, <1>2 DEF Order

LEMMA ArriveQueues ==
  ASSUME HostTypes, Patient, NEW n, NEW q, Order(n, q), NEW c \in Callers, Arrive(c)
  PROVE  Order(n + 1, [i \in 1 .. n + 1 |-> IF i = n + 1 THEN c ELSE q[i]])'
<1> DEFINE r == [i \in 1 .. n + 1 |-> IF i = n + 1 THEN c ELSE q[i]]
<1>0. n \in Nat /\ n + 1 \in Nat /\ r \in [1 .. n + 1 -> Callers] /\ r[n + 1] = c
      /\ \A i \in 1 .. n : i \in 1 .. n + 1 /\ i # n + 1 /\ r[i] = q[i]
  BY DEF Order
<1>1. \A i \in 1 .. n + 1 : i \in 1 .. n \/ i = n + 1
  BY <1>0
<1>2. ~Waiting(c) /\ \A i \in 1 .. n : q[i] # c /\ q[i] \in Callers
  BY DEF Arrive, Waiting, Order
<1>3. /\ pc' = [pc EXCEPT ![c] = "queued"] /\ patience' = [patience EXCEPT ![c] = MaxWait]
      /\ ahead' = [ahead EXCEPT ![c] = tail] /\ tail' = c
  BY DEF Arrive
<1>4. \A i, j \in 1 .. n + 1 : r[i] = r[j] => i = j
  BY <1>0, <1>1, <1>2 DEF Order
<1>5. \A d \in Callers : Waiting(d)' <=> \E i \in 1 .. n + 1 : d = r[i]
  <2>1. TAKE d \in Callers
  <2>2. CASE d = c
    BY <2>2, <1>0, <1>3 DEF Waiting, HostTypes
  <2>3. CASE d # c
    <3>1. Waiting(d)' <=> Waiting(d)
      BY <2>3, <1>3 DEF Waiting, HostTypes
    <3>2. (\E i \in 1 .. n + 1 : d = r[i]) <=> \E i \in 1 .. n : d = q[i]
      BY <2>3, <1>0, <1>1
    <3> QED
      BY <3>1, <3>2 DEF Order
  <2> QED
    BY <2>2, <2>3
<1>6. \A i \in 1 .. n + 1 : ahead'[r[i]] = IF i = 1 THEN NONE ELSE r[i - 1]
  <2>1. TAKE i \in 1 .. n + 1
  <2>2. CASE i = n + 1
    <3>1. ahead'[r[i]] = tail
      BY <2>2, <1>0, <1>3 DEF HostTypes
    <3>2. CASE n = 0
      BY <2>2, <3>1, <3>2 DEF Order
    <3>3. CASE n # 0
      <4>1. i # 1 /\ i - 1 = n /\ n \in 1 .. n
        BY <2>2, <3>3, <1>0
      <4> QED
        BY <3>1, <3>3, <4>1, <1>0 DEF Order
    <3> QED
      BY <3>2, <3>3
  <2>3. CASE i \in 1 .. n
    <3>1. ahead'[r[i]] = ahead[q[i]]
      BY <2>3, <1>0, <1>2, <1>3 DEF HostTypes
    <3>2. i # 1 => i - 1 \in 1 .. n
      BY <2>3, <1>0
    <3> QED
      BY <2>3, <3>1, <3>2, <1>0 DEF Order
  <2> QED
    BY <2>2, <2>3, <1>1
<1>7. \A i \in 2 .. n + 1 : pc'[r[i]] = "queued"
  <2>1. TAKE i \in 2 .. n + 1
  <2>2. CASE i = n + 1
    BY <2>2, <1>0, <1>3 DEF HostTypes
  <2>3. CASE i \in 2 .. n
    BY <2>3, <1>0, <1>2, <1>3 DEF HostTypes, Order
  <2> QED
    BY <2>2, <2>3, <1>0
<1>8. \A i, j \in 1 .. n + 1 : i <= j => patience'[r[i]] <= patience'[r[j]]
  <2>1. \A i \in 1 .. n : patience'[r[i]] = patience[q[i]] /\ patience[q[i]] \in 0 .. MaxWait
    BY <1>0, <1>2, <1>3 DEF HostTypes, Order, Patient
  <2>2. patience'[r[n + 1]] = MaxWait
    BY <1>0, <1>3 DEF HostTypes
  <2>3. TAKE i, j \in 1 .. n + 1
  <2>4. HAVE i <= j
  <2>5. CASE j \in 1 .. n
    <3>1. i \in 1 .. n
      BY <2>4, <2>5, <1>0
    <3> QED
      BY <2>1, <2>4, <2>5, <3>1 DEF Order
  <2>6. CASE j = n + 1
    <3>1. patience'[r[j]] = MaxWait
      BY <2>2, <2>6
    <3>2. patience'[r[i]] <= MaxWait
      BY <2>1, <2>2, <1>1, NumberTypes
    <3> QED
      BY <3>1, <3>2
  <2> QED
    BY <2>5, <2>6, <1>1
<1>9. tail' = IF n + 1 = 0 THEN NONE ELSE r[n + 1]
  BY <1>0, <1>3
<1> QED
  BY <1>0, <1>4, <1>5, <1>6, <1>7, <1>8, <1>9 DEF Order

LEMMA LeaveQueues ==
  ASSUME HostTypes, NEW n, NEW q, Order(n, q), n > 0, NEW to \in {"idle", "sent"}, Leave(q[1], to)
  PROVE  Order(n - 1, [i \in 1 .. n - 1 |-> q[i + 1]])'
<1> DEFINE c == q[1]
           r == [i \in 1 .. n - 1 |-> q[i + 1]]
<1>0. /\ n \in Nat /\ n - 1 \in Nat /\ 1 \in 1 .. n /\ c \in Callers /\ r \in [1 .. n - 1 -> Callers]
      /\ \A i \in 1 .. n - 1 : i + 1 \in 1 .. n /\ i + 1 # 1 /\ i + 1 \in 2 .. n /\ r[i] = q[i + 1]
  BY DEF Order
<1>1. \A i \in 1 .. n : i # 1 => i - 1 \in 1 .. n - 1 /\ r[i - 1] = q[i] /\ q[i] # c
  BY <1>0 DEF Order
<1>2. \A i \in 1 .. n - 1 : r[i] # c /\ r[i] \in Callers
  BY <1>0 DEF Order
<1>3. /\ pc' = [pc EXCEPT ![c] = to]
      /\ patience' = [patience EXCEPT ![c] = 0]
      /\ ahead' = [d \in Callers |-> IF ahead[d] = c THEN NONE ELSE ahead[d]]
      /\ tail' = IF tail = c THEN NONE ELSE tail
  BY DEF Leave, Forgotten
<1>4. \A i, j \in 1 .. n - 1 : r[i] = r[j] => i = j
  <2>1. TAKE i, j \in 1 .. n - 1
  <2>2. HAVE r[i] = r[j]
  <2>3. i + 1 = j + 1
    BY <2>2, <1>0 DEF Order
  <2> QED
    BY <2>3
<1>5. \A d \in Callers : Waiting(d)' <=> \E i \in 1 .. n - 1 : d = r[i]
  <2>1. TAKE d \in Callers
  <2>2. CASE d = c
    BY <2>2, <1>0, <1>2, <1>3 DEF Waiting, HostTypes
  <2>3. CASE d # c
    <3>1. Waiting(d)' <=> Waiting(d)
      BY <2>3, <1>3 DEF Waiting, HostTypes
    <3>2. (\E i \in 1 .. n : d = q[i]) <=> \E i \in 1 .. n - 1 : d = r[i]
      BY <2>3, <1>0, <1>1
    <3> QED
      BY <3>1, <3>2 DEF Order
  <2> QED
    BY <2>2, <2>3
<1>6. \A i \in 1 .. n - 1 : ahead'[r[i]] = IF i = 1 THEN NONE ELSE r[i - 1]
  <2>1. TAKE i \in 1 .. n - 1
  <2>2. ahead[r[i]] = q[i]
    <3>1. ahead[q[i + 1]] = q[(i + 1) - 1] /\ (i + 1) - 1 = i
      BY <1>0 DEF Order
    <3> QED
      BY <3>1, <1>0
  <2>3. CASE i = 1
    BY <2>2, <2>3, <1>2, <1>3
  <2>4. CASE i # 1
    <3>1. i \in 1 .. n /\ r[i - 1] = q[i] /\ q[i] # c
      BY <2>4, <1>0, <1>1
    <3> QED
      BY <2>2, <2>4, <3>1, <1>2, <1>3
  <2> QED
    BY <2>3, <2>4
<1>7. \A i \in 2 .. n - 1 : pc'[r[i]] = "queued"
  <2>1. TAKE i \in 2 .. n - 1
  <2>2. i \in 1 .. n - 1
    BY <1>0
  <2> QED
    BY <2>2, <1>0, <1>2, <1>3 DEF HostTypes, Order
<1>8. \A i, j \in 1 .. n - 1 : i <= j => patience'[r[i]] <= patience'[r[j]]
  <2>1. \A i \in 1 .. n - 1 : patience'[r[i]] = patience[q[i + 1]]
    BY <1>0, <1>2, <1>3 DEF HostTypes
  <2>2. TAKE i, j \in 1 .. n - 1
  <2>3. HAVE i <= j
  <2>4. i + 1 <= j + 1
    BY <2>3
  <2>5. patience[q[i + 1]] <= patience[q[j + 1]]
    BY <2>4, <1>0 DEF Order
  <2> QED
    BY <2>1, <2>5
<1>9. tail' = IF n - 1 = 0 THEN NONE ELSE r[n - 1]
  <2>1. CASE n = 1
    BY <2>1, <1>3 DEF Order
  <2>2. CASE n # 1
    <3>1. n - 1 # 0 /\ n \in 1 .. n /\ r[n - 1] = q[n] /\ q[n] # c
      BY <2>2, <1>0, <1>1
    <3> QED
      BY <3>1, <1>0, <1>3 DEF Order
  <2> QED
    BY <2>1, <2>2
<1> QED
  BY <1>0, <1>4, <1>5, <1>6, <1>7, <1>8, <1>9 DEF Order

LEMMA StaysQueued ==
  ASSUME NEW n, NEW q, Order(n, q), UNCHANGED <<ahead, tail>>,
         \A d \in Callers : Waiting(d)' <=> Waiting(d),
         \A i \in 2 .. n : pc'[q[i]] = "queued",
         \A d, e \in Callers : Waiting(d) /\ Waiting(e) /\ patience[d] <= patience[e]
                               => patience'[d] <= patience'[e]
  PROVE  Order(n, q)'
<1>1. \A i \in 1 .. n : q[i] \in Callers /\ Waiting(q[i])
  BY DEF Order
<1>2. \A i, j \in 1 .. n : i <= j => patience'[q[i]] <= patience'[q[j]]
  BY <1>1 DEF Order
<1>3. \A c \in Callers : Waiting(c)' <=> \E i \in 1 .. n : c = q[i]
  BY DEF Order
<1> QED
  BY <1>2, <1>3 DEF Order

-----------------------------------------------------------------------------
(* The types. *)
LEMMA LeaveTypes ==
  ASSUME HostTypes, NEW c \in Callers, NEW to \in {"idle", "sent"}, Leave(c, to)
  PROVE  /\ pc' \in [Callers -> {"idle", "queued", "asleep", "sent"}]
         /\ ahead' \in [Callers -> Callers \cup {NONE}] /\ tail' \in Callers \cup {NONE}
         /\ patience' \in [Callers -> Int] /\ due' \in [Callers -> Nat]
         /\ ~Waiting(c)' /\ pc'[c] # "asleep"
         /\ \A d \in Callers \ {c} : pc'[d] = pc[d] /\ patience'[d] = patience[d] /\ due'[d] = due[d]
  BY DEF HostTypes, Leave, Forgotten, Waiting

LEMMA WaitIsNat ==
  ASSUME HostTypes, HeldBack > 0 \/ Level < Parts
  PROVE  Wait \in Nat
<1>1. Level \in 0 .. Full /\ Parts \in Nat /\ Full \in Nat
  BY LevelBounds, FullIsNat DEF HostTypes
<1>2. HeldBack \in Nat
  BY DEF HostTypes, HeldBack
<1> QED
  BY <1>1, <1>2 DEF Wait

LEMMA AnswerNumbers ==
  ASSUME HostTypes, NEW c \in Callers, NEW h \in Headers, Answer(c, h)
  PROVE  blocked' \in Nat /\ spacing' \in Nat
<1>1. Window(h) \in Nat /\ h.retry \in Nat /\ h.remaining \in Nat \cup {NONE}
  BY NumberTypes DEF Window
<1>2. blocked' \in Nat
  <2>1. \A a, b \in Nat : Most(a, b) \in Nat
    BY DEF Most
  <2>2. (IF h.remaining = 0 THEN Window(h) ELSE 0) \in Nat /\ blocked \in Nat
    BY <1>1 DEF HostTypes
  <2> QED
    BY <1>1, <2>1, <2>2 DEF Answer
<1>3. CASE h.remaining \in {NONE, 0} \/ ~(h.remaining < Low)
  BY <1>2, <1>3 DEF Answer, HostTypes
<1>4. CASE h.remaining \notin {NONE, 0} /\ h.remaining < Low
  <2>1. h.remaining \in Nat \ {0} /\ spacing' = Window(h) \div h.remaining
    BY <1>1, <1>4 DEF Answer
  <2>2. \A a \in Nat, b \in Nat \ {0} : a \div b \in Nat
    OBVIOUS
  <2> QED
    BY <1>1, <1>2, <2>1, <2>2
<1> QED
  BY <1>2, <1>3, <1>4

LEMMA TypesKept ==
  ASSUME HostTypes, [Next]_vars
  PROVE  HostTypes'
<1>0. Counters' /\ MaxWait \in Nat /\ \A n \in Nat : Less(n) \in Nat
  BY NextImplements, NumberTypes DEF HostTypes, Less
<1>1. CASE UNCHANGED vars
  BY <1>0, <1>1 DEF vars, hostVars, HostTypes
<1>2. ASSUME NEW c \in Callers, Arrive(c) PROVE HostTypes'
  BY <1>0, <1>2 DEF Arrive, HostTypes, hostVars
<1>3. ASSUME NEW c \in Callers, Abort(c) PROVE HostTypes'
  <2>1. CASE Leave(c, "idle")
    BY <1>0, <1>3, <2>1, LeaveTypes DEF Abort, HostTypes, hostVars
  <2>2. CASE AbortQueued(c)
    BY <1>0, <1>3, <2>2 DEF Abort, AbortQueued, HostTypes, hostVars
  <2> QED
    BY <1>3, <2>1, <2>2 DEF Abort
<1>4. ASSUME NEW c \in Callers, GivesUp(c) PROVE HostTypes'
  BY <1>0, <1>4, LeaveTypes DEF GivesUp, HostTypes, hostVars
<1>5. ASSUME NEW c \in Callers, Admit(c) PROVE HostTypes'
  BY <1>0, <1>5, LeaveTypes DEF Admit, HostTypes
<1>6. ASSUME NEW c \in Callers, Postpone(c) PROVE HostTypes'
  <2>1. Wait \in Nat
    BY <1>6, WaitIsNat DEF Postpone
  <2>2. CASE Leave(c, "idle")
    BY <1>0, <1>6, <2>2, LeaveTypes DEF Postpone, HostTypes
  <2>3. CASE pc' = [pc EXCEPT ![c] = "asleep"] /\ due' = [due EXCEPT ![c] = Wait]
             /\ UNCHANGED <<ahead, tail, patience, aborted>>
    BY <1>0, <1>6, <2>1, <2>3 DEF Postpone, HostTypes
  <2> QED
    BY <1>6, <2>2, <2>3 DEF Postpone
<1>7. ASSUME NEW c \in Callers, NEW h \in Headers, Answer(c, h) PROVE HostTypes'
  <2>1. blocked' \in Nat /\ spacing' \in Nat
    BY <1>7, AnswerNumbers
  <2> QED
    BY <1>0, <1>7, <2>1 DEF Answer, HostTypes
<1>8. ASSUME NEW c \in Callers, Fails(c) PROVE HostTypes'
  BY <1>0, <1>8 DEF Fails, HostTypes, hostVars
<1>9. CASE Tick
  <2>1. \A a, b \in Int : Most(a, b) \in Int
    BY DEF Most
  <2>2. patience' \in [Callers -> Int] /\ due' \in [Callers -> Nat]
    BY <1>0, <1>9, <2>1 DEF Tick, HostTypes
  <2> QED
    BY <1>0, <1>9, <2>2 DEF Tick, HostTypes
<1> QED
  BY <1>1, <1>2, <1>3, <1>4, <1>5, <1>6, <1>7, <1>8, <1>9 DEF Next, Turn

-----------------------------------------------------------------------------
(* The steps. *)
LEMMA FirstLeaves ==
  ASSUME HostTypes, Patient, NEW n, NEW q, Order(n, q), NEW c \in Callers,
         pc[c] = "asleep" \/ Ready(c), NEW to \in {"idle", "sent"}, Leave(c, to)
  PROVE  Patient' /\ Queued'
<1>0. n > 0 /\ c = q[1]
  BY FirstHasTheTurn
<1>1. n > 0 /\ c = q[1] /\ n \in Nat
  BY <1>0 DEF Order
<1>2. Order(n - 1, [i \in 1 .. n - 1 |-> q[i + 1]])'
  BY <1>1, LeaveQueues
<1>3. n - 1 \in Nat /\ [i \in 1 .. n - 1 |-> q[i + 1]] \in [1 .. n - 1 -> Callers]
  BY <1>1 DEF Order
<1>4. Patient'
  BY LeaveTypes DEF Patient, Waiting
<1> QED
  BY <1>2, <1>3, <1>4 DEF Queued

LEMMA ArriveLast ==
  ASSUME HostTypes, Patient, NEW n, NEW q, Order(n, q), NEW c \in Callers, Arrive(c)
  PROVE  Patient' /\ Queued'
<1>1. Order(n + 1, [i \in 1 .. n + 1 |-> IF i = n + 1 THEN c ELSE q[i]])'
  BY ArriveQueues
<1>2. n + 1 \in Nat
      /\ [i \in 1 .. n + 1 |-> IF i = n + 1 THEN c ELSE q[i]] \in [1 .. n + 1 -> Callers]
  BY DEF Order
<1>3. Patient'
  BY NumberTypes DEF Arrive, Patient, Waiting, HostTypes
<1> QED
  BY <1>1, <1>2, <1>3 DEF Queued

LEMMA TickQueue ==
  ASSUME HostTypes, Patient, NEW n, NEW q, Order(n, q), Tick
  PROVE  Patient' /\ Order(n, q)'
<1>1. \A d \in Callers : Waiting(d) => patience[d] > 0
  <2>1. SUFFICES ASSUME NEW d \in Callers, Waiting(d) PROVE patience[d] > 0
    OBVIOUS
  <2>2. PICK i \in 1 .. n : d = q[i]
    BY <2>1 DEF Order
  <2>3. 1 \in 1 .. n /\ q[1] \in Callers /\ Waiting(q[1]) /\ ahead[q[1]] = NONE
        /\ patience[q[1]] <= patience[d]
    BY <2>2 DEF Order
  <2>4. pc[q[1]] = "asleep" /\ due[q[1]] # 0
    BY <2>3 DEF Tick, Ready, Waiting
  <2>5. due[q[1]] \in Nat /\ due[q[1]] <= patience[q[1]] /\ patience[q[1]] \in Int /\ patience[d] \in Int
    BY <2>3, <2>4, <2>1 DEF HostTypes, Patient
  <2> QED
    BY <2>3, <2>4, <2>5
<1>2. \A d \in Callers : Waiting(d) => patience'[d] = patience[d] - 1 /\ patience[d] \in 0 .. MaxWait
  BY <1>1, NumberTypes DEF Tick, Most, Patient
<1>3. UNCHANGED <<pc, ahead, tail>> /\ \A d \in Callers : due'[d] = Less(due[d]) /\ due[d] \in Nat
  BY DEF Tick, HostTypes
<1>4. Patient'
  <2>1. SUFFICES ASSUME NEW d \in Callers
                 PROVE  /\ Waiting(d)' => patience'[d] \in 0 .. MaxWait
                        /\ pc'[d] = "asleep" => due'[d] <= patience'[d]
    BY DEF Patient
  <2>2. Waiting(d)' <=> Waiting(d)
    BY <1>3 DEF Waiting
  <2>3. Waiting(d) => patience'[d] \in 0 .. MaxWait
    BY <1>1, <1>2, NumberTypes
  <2>4. pc[d] = "asleep" => Waiting(d) /\ due[d] <= patience[d]
    BY DEF Patient, Waiting
  <2>5. Waiting(d) /\ due[d] <= patience[d] => due'[d] <= patience'[d]
    BY <1>1, <1>2, <1>3, NumberTypes DEF Less
  <2> QED
    BY <1>3, <2>2, <2>3, <2>4, <2>5
<1>5. \A d \in Callers : Waiting(d)' <=> Waiting(d)
  BY <1>3 DEF Waiting
<1>6. \A i \in 2 .. n : pc'[q[i]] = "queued"
  BY <1>3 DEF Order
<1>7. \A d, e \in Callers : Waiting(d) /\ Waiting(e) /\ patience[d] <= patience[e]
                             => patience'[d] <= patience'[e]
  BY <1>2, NumberTypes
<1> QED
  BY <1>3, <1>4, <1>5, <1>6, <1>7, StaysQueued

(* A step that changes neither the queue nor who is in it. *)
LEMMA ElsewhereKeeps ==
  ASSUME HostTypes, Patient, NEW n, NEW q, Order(n, q), UNCHANGED <<ahead, tail, patience, due>>,
         \A d \in Callers : pc'[d] = pc[d] \/ (~Waiting(d) /\ pc'[d] = "idle")
  PROVE  Patient' /\ Order(n, q)'
<1>1. \A d \in Callers : (Waiting(d)' <=> Waiting(d)) /\ (pc'[d] = "asleep" <=> pc[d] = "asleep")
  BY DEF Waiting
<1>2. \A i \in 2 .. n : pc'[q[i]] = "queued"
  <2>1. \A i \in 2 .. n : q[i] \in Callers /\ pc[q[i]] = "queued"
    BY DEF Order
  <2> QED
    BY <2>1 DEF Waiting
<1>3. Order(n, q)'
  BY <1>1, <1>2, StaysQueued
<1> QED
  BY <1>1, <1>3 DEF Patient

LEMMA PostponeQueue ==
  ASSUME HostTypes, Patient, NEW n, NEW q, Order(n, q), NEW c \in Callers, Ready(c), Wait \in Nat,
         ~(Wait > patience[c]), pc' = [pc EXCEPT ![c] = "asleep"], due' = [due EXCEPT ![c] = Wait],
         UNCHANGED <<ahead, tail, patience>>
  PROVE  Patient' /\ Order(n, q)'
<1>0. n > 0 /\ c = q[1]
  BY FirstHasTheTurn
<1>1. n > 0 /\ c = q[1] /\ n \in Nat
  BY <1>0 DEF Order
<1>2. \A i \in 2 .. n : pc'[q[i]] = "queued"
  <2>1. TAKE i \in 2 .. n
  <2>2. 1 \in 1 .. n /\ i \in 1 .. n /\ i # 1
    BY <1>1
  <2>3. q[i] # c /\ pc[q[i]] = "queued" /\ q[i] \in Callers
    BY <1>1, <2>2 DEF Order
  <2> QED
    BY <2>3 DEF HostTypes
<1>3. \A d \in Callers : Waiting(d)' <=> Waiting(d)
  BY DEF HostTypes, Waiting, Ready
<1>4. Order(n, q)'
  BY <1>2, <1>3, StaysQueued
<1>5. Wait <= patience[c]
  BY DEF HostTypes
<1>6. due'[c] = Wait /\ \A d \in Callers \ {c} : due'[d] = due[d] /\ pc'[d] = pc[d]
  BY DEF HostTypes
<1> QED
  BY <1>3, <1>4, <1>5, <1>6 DEF Patient

LEMMA TurnsStep ==
  ASSUME TurnsInv, [Next]_vars
  PROVE  TurnsInv'
<1>1. HostTypes /\ Patient /\ Queued /\ HostTypes'
  BY TypesKept DEF TurnsInv
<1>2. PICK n \in Nat : \E q \in [1 .. n -> Callers] : Order(n, q)
  BY <1>1 DEF Queued
<1>3. PICK q \in [1 .. n -> Callers] : Order(n, q)
  BY <1>2
<1>4. SUFFICES Patient' /\ Queued'
  BY <1>1 DEF TurnsInv
<1>5. Order(n, q)' => Queued'
  BY <1>2, <1>3 DEF Queued
<1>6. CASE UNCHANGED vars
  BY <1>1, <1>3, <1>5, <1>6, ElsewhereKeeps DEF vars
<1>7. ASSUME NEW c \in Callers, Arrive(c) PROVE Patient' /\ Queued'
  BY <1>1, <1>3, <1>7, ArriveLast
<1>8. ASSUME NEW c \in Callers, Abort(c) PROVE Patient' /\ Queued'
  <2>1. CASE pc[c] = "asleep" /\ Leave(c, "idle")
    BY <1>1, <1>3, <2>1, FirstLeaves
  <2>2. CASE AbortQueued(c)
    BY <1>1, <1>3, <1>5, <2>2, ElsewhereKeeps DEF AbortQueued
  <2> QED
    BY <1>8, <2>1, <2>2 DEF Abort
<1>9. ASSUME NEW c \in Callers, GivesUp(c) PROVE Patient' /\ Queued'
  BY <1>1, <1>3, <1>9, FirstLeaves DEF GivesUp
<1>10. ASSUME NEW c \in Callers, Admit(c) PROVE Patient' /\ Queued'
  BY <1>1, <1>3, <1>10, FirstLeaves DEF Admit
<1>11. ASSUME NEW c \in Callers, Postpone(c) PROVE Patient' /\ Queued'
  <2>1. Ready(c) /\ Wait \in Nat
    BY <1>1, <1>11, WaitIsNat DEF Postpone
  <2>2. CASE Wait > patience[c]
    BY <1>1, <1>3, <1>11, <2>1, <2>2, FirstLeaves DEF Postpone
  <2>3. CASE ~(Wait > patience[c])
    BY <1>1, <1>3, <1>5, <1>11, <2>1, <2>3, PostponeQueue DEF Postpone
  <2> QED
    BY <2>2, <2>3
<1>12. ASSUME NEW c \in Callers, Fails(c) \/ \E h \in Headers : Answer(c, h)
       PROVE  Patient' /\ Queued'
  <2>1. pc[c] = "sent" /\ pc' = [pc EXCEPT ![c] = "idle"] /\ UNCHANGED <<ahead, tail, patience, due>>
    BY <1>12 DEF Fails, Answer
  <2>2. \A d \in Callers : pc'[d] = pc[d] \/ (~Waiting(d) /\ pc'[d] = "idle")
    BY <1>1, <2>1 DEF HostTypes, Waiting
  <2> QED
    BY <1>1, <1>3, <1>5, <2>1, <2>2, ElsewhereKeeps
<1>13. CASE Tick
  BY <1>1, <1>3, <1>5, <1>13, TickQueue
<1> QED
  BY <1>6, <1>7, <1>8, <1>9, <1>10, <1>11, <1>12, <1>13 DEF Next, Turn

LEMMA TurnsInit == Init => TurnsInv
<1>1. SUFFICES ASSUME Init PROVE TurnsInv
  OBVIOUS
<1>2. HostTypes /\ Patient /\ \A c \in Callers : ~Waiting(c)
  BY <1>1, InitCounters DEF Init, HostTypes, Patient, Waiting
<1>3. Order(0, [i \in 1 .. 0 |-> NONE]) /\ [i \in 1 .. 0 |-> NONE] \in [1 .. 0 -> Callers]
  BY <1>1, <1>2 DEF Init, Order
<1> QED
  BY <1>2, <1>3 DEF TurnsInv, Queued

LEMMA TurnsKept == TurnsInv => TurnsInOrder
<1>1. SUFFICES ASSUME TurnsInv PROVE TurnsInOrder
  OBVIOUS
<1>2. PICK n \in Nat : \E q \in [1 .. n -> Callers] : Order(n, q)
  BY <1>1 DEF TurnsInv, Queued
<1>3. PICK q \in [1 .. n -> Callers] : Order(n, q)
  BY <1>2
<1>4. ASSUME NEW c \in Callers, NEW d \in Callers, Waiting(c), Waiting(d),
             pc[c] = "asleep" \/ Ready(c), c # d
      PROVE  pc[d] = "queued" /\ ~Ready(d) /\ patience[c] <= patience[d]
  <2>1. n > 0 /\ c = q[1]
    BY <1>1, <1>3, <1>4, FirstHasTheTurn DEF TurnsInv
  <2>2. PICK i \in 1 .. n : d = q[i]
    BY <1>3, <1>4 DEF Order
  <2>3. i \in 2 .. n /\ 1 \in 1 .. n /\ 1 <= i
    BY <1>2, <1>4, <2>1, <2>2
  <2>4. pc[d] = "queued" /\ patience[c] <= patience[d]
    BY <1>3, <2>1, <2>2, <2>3 DEF Order
  <2>5. ~Ready(d)
    BY <1>1, <1>3, <1>4, <2>1, FirstHasTheTurn DEF TurnsInv
  <2> QED
    BY <2>4, <2>5
<1>5. \A c \in Callers : Waiting(c) => patience[c] >= 0
  BY <1>1, NumberTypes DEF TurnsInv, Patient
<1> QED
  BY <1>4, <1>5 DEF TurnsInOrder

(* For any number of callers, their turns come in the order of their arrival and no
   one waits past its deadline, whatever is aborted, refused or held back by answers
   that arrive while others wait (RateLimiter.acquire). *)
THEOREM CallersInTurn == Spec => []TurnsInOrder
<1>1. TurnsInv /\ [Next]_vars => TurnsInv'
  BY TurnsStep
<1> QED
  BY TurnsInit, <1>1, TurnsKept, PTL DEF Spec
=============================================================================
