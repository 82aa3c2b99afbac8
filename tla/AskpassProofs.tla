--------------------------- MODULE AskpassProofs ----------------------------
(* Time spent on prompts is never charged to git, however many prompts overlap,
   whatever the deadlines and whenever the threads look: proved from the order in
   which the broker writes the two atomics and the reader reads them. *)
EXTENDS Askpass, FiniteSetTheorems, TLAPS

(* AskpassPromptStats::open counts the prompts between OpenPrompt and ClosePrompt. *)
Counted(g) ==
  {p \in Prompts : GitOf[p] = g /\ (InHandler(p) \/ worker[p] = "closing")}

OpenCounts ==
  \A g \in Gits : IsFiniteSet(Counted(g)) /\ open[g] = Cardinality(Counted(g))

(* The time with no prompt open, as far as it is counted, and the time added up by
   the broker: together they make up all of it, once no prompt has still to be added. *)
Accounted(g, time) == idleTime[g] = setting.timeout \/ time <= idleTime[g] + millis[g]

NowAccounted ==
  \A g \in Gits : Accounted(g, now) \/ \E p \in Asking(g) : Accounted(g, started[p])

SampleAccounted == \A g \in Gits : reader[g] = "readMillis" => Accounted(g, sampled[g])

InThePast ==
  /\ \A p \in Prompts : started[p] <= now
  /\ \A g \in Gits : sampled[g] <= now

CutShortInv ==
  /\ TypeOK /\ OpenCounts /\ NowAccounted /\ SampleAccounted /\ InThePast
  /\ \A g \in Gits : timedOut[g] => idleTime[g] >= setting.timeout

LEMMA SettingTyped ==
  ASSUME setting \in Settings PROVE setting \in SettingType
  BY AskpassAssumption

LEMMA InitCutShort == Init => CutShortInv
<1> SUFFICES ASSUME Init PROVE CutShortInv
  OBVIOUS
<1>1. setting \in SettingType
  BY SettingTyped DEF Init
<1>2. \A g \in Gits : Counted(g) = {}
  BY DEF Init, Counted, InHandler
<1>3. IsFiniteSet({}) /\ Cardinality({}) = 0
  BY FS_EmptySet
<1>4. Cardinality(Prompts) \in Nat
  BY AskpassAssumption, FS_CardinalityType
<1>5. TypeOK
  BY <1>1, <1>4 DEF Init, TypeOK, SettingType
<1>6. OpenCounts
  BY <1>2, <1>3 DEF OpenCounts, Init
<1>7. NowAccounted /\ SampleAccounted /\ InThePast
  BY <1>1 DEF NowAccounted, SampleAccounted, InThePast, Accounted, Init, SettingType
<1> QED BY <1>1, <1>5, <1>6, <1>7 DEF CutShortInv, Init

-----------------------------------------------------------------------------
(* What neither opens nor closes a prompt leaves the count as it is. *)
LEMMA CountStays ==
  ASSUME OpenCounts, open' = open,
         \A p \in Prompts : (InHandler(p) \/ worker[p] = "closing")
                              <=> (InHandler(p)' \/ worker'[p] = "closing")
  PROVE  OpenCounts'
<1>1. \A g \in Gits : Counted(g)' = Counted(g)
  BY DEF Counted
<1> QED BY <1>1 DEF OpenCounts

(* The count of a git that opens or closes a prompt follows the set. *)
LEMMA CountGrows ==
  ASSUME TypeOK, OpenCounts, NEW p \in Prompts, OpenPrompt(p)
  PROVE  OpenCounts' /\ open' \in [Gits -> 0..Cardinality(Prompts)]
<1> DEFINE g == GitOf[p]
<1>1. g \in Gits /\ IsFiniteSet(Prompts)
  BY AskpassAssumption
<1>2. worker[p] = "opening" /\ worker' = [worker EXCEPT ![p] = "calling"]
  BY DEF OpenPrompt, At
<1>3. open' = [open EXCEPT ![g] = open[g] + 1]
  BY DEF OpenPrompt, Opened
<1>4. Counted(g)' = Counted(g) \cup {p} /\ p \notin Counted(g)
  BY <1>2 DEF Counted, InHandler, TypeOK
<1>5. \A h \in Gits \ {g} : Counted(h)' = Counted(h)
  BY <1>2 DEF Counted, InHandler, TypeOK
<1>6. IsFiniteSet(Counted(g)') /\ Cardinality(Counted(g)') = Cardinality(Counted(g)) + 1
  BY <1>1, <1>4, FS_AddElement DEF OpenCounts
<1>7. OpenCounts'
  BY <1>1, <1>3, <1>5, <1>6 DEF OpenCounts, TypeOK
<1>8. Counted(g)' \subseteq Prompts
  BY DEF Counted
<1>9. Cardinality(Counted(g)') <= Cardinality(Prompts) /\ Cardinality(Counted(g)') \in Nat
      /\ Cardinality(Prompts) \in Nat
  BY <1>1, <1>6, <1>8, FS_Subset, FS_CardinalityType
<1>10. open'[g] = Cardinality(Counted(g)')
  BY <1>1, <1>7 DEF OpenCounts
<1> QED BY <1>1, <1>3, <1>7, <1>9, <1>10 DEF TypeOK

LEMMA CountShrinks ==
  ASSUME TypeOK, OpenCounts, NEW p \in Prompts, ClosePrompt(p)
  PROVE  OpenCounts' /\ open' \in [Gits -> 0..Cardinality(Prompts)]
<1> DEFINE g == GitOf[p]
<1>1. g \in Gits /\ IsFiniteSet(Prompts) /\ Cardinality(Prompts) \in Nat
  BY AskpassAssumption, FS_CardinalityType
<1>2. worker[p] = "closing" /\ worker' = [worker EXCEPT ![p] = "replying"]
  BY DEF ClosePrompt, At
<1>3. open' = [open EXCEPT ![g] = open[g] - 1]
  BY DEF ClosePrompt
<1>4. Counted(g)' = Counted(g) \ {p} /\ p \in Counted(g)
  BY <1>2 DEF Counted, InHandler, TypeOK
<1>5. \A h \in Gits \ {g} : Counted(h)' = Counted(h)
  BY <1>2 DEF Counted, InHandler, TypeOK
<1>6. /\ IsFiniteSet(Counted(g)') /\ Cardinality(Counted(g)') = Cardinality(Counted(g)) - 1
      /\ Cardinality(Counted(g)') \in Nat
  BY <1>1, <1>4, FS_RemoveElement, FS_CardinalityType DEF OpenCounts
<1>7. OpenCounts'
  BY <1>1, <1>3, <1>5, <1>6 DEF OpenCounts, TypeOK
<1>8. open'[g] \in 0..Cardinality(Prompts)
  BY <1>1, <1>3, <1>6 DEF OpenCounts, TypeOK
<1> QED BY <1>1, <1>3, <1>7, <1>8 DEF TypeOK

(* No prompt is open, so none has still to be added. *)
LEMMA NoneOpen ==
  ASSUME OpenCounts, NEW g \in Gits, open[g] = 0
  PROVE  Asking(g) = {}
<1>1. Counted(g) = {}
  BY FS_EmptySet DEF OpenCounts
<1> QED BY <1>1 DEF Counted, Asking

-----------------------------------------------------------------------------
(* What neither takes time, adds any up nor ends an open prompt accounts as before. *)
LEMMA AccountStays ==
  ASSUME NowAccounted, UNCHANGED <<idleTime, millis, now, setting>>,
         \A p \in Prompts : InHandler(p) => InHandler(p)' /\ started'[p] = started[p]
  PROVE  NowAccounted'
<1> SUFFICES ASSUME NEW g \in Gits
             PROVE  Accounted(g, now)' \/ \E p \in Asking(g)' : Accounted(g, started[p])'
  BY DEF NowAccounted
<1>1. CASE Accounted(g, now)
  BY <1>1 DEF Accounted
<1>2. ASSUME NEW p \in Asking(g), Accounted(g, started[p])
      PROVE  p \in Asking(g)' /\ Accounted(g, started[p])'
  BY <1>2 DEF Accounted, Asking
<1> QED BY <1>1, <1>2 DEF NowAccounted

LEMMA SampleStays ==
  ASSUME SampleAccounted, UNCHANGED <<idleTime, millis, setting>>,
         \A g \in Gits : reader'[g] = "readMillis" =>
                           reader[g] = "readMillis" /\ sampled'[g] = sampled[g]
  PROVE  SampleAccounted'
  BY DEF SampleAccounted, Accounted

(* The reader of a git. *)
LEMMA ReaderKeeps ==
  ASSUME CutShortInv, NEW g \in Gits, Read(g) \/ ChildExits(g) \/ Cancel(g)
  PROVE  CutShortInv'
<1> USE DEF CutShortInv
<1>1. setting \in SettingType /\ now \in Nat
  BY SettingTyped DEF TypeOK, SettingType
<1>2. UNCHANGED <<now, setting, statVars, workerVars, idleTime>>
  BY DEF Read, ReaderPolls, ReaderReadsOpen, ReaderReadsMillis, SessionCloses, ChildExits, Cancel
<1>3. TypeOK'
  <2>1. CASE ReaderPolls(g)
    <3>1. UNCHANGED <<closed, cancelled, statVars, workerVars, clientVars, stop, timedOut>>
      BY <2>1 DEF ReaderPolls, Stopped, NotExpired
    <3>2. child' = child \/ child' = [child EXCEPT ![g] = FALSE]
      BY <2>1 DEF ReaderPolls, Stopped, NotExpired
    <3>3. \/ sampled' = sampled \/ sampled' = [sampled EXCEPT ![g] = now]
          \/ sampled' = [sampled EXCEPT ![g] = 0]
      BY <2>1 DEF ReaderPolls, Stopped, NotExpired
    <3>4. \E to \in {"polling", "readOpen", "stopped"} : reader' = [reader EXCEPT ![g] = to]
      BY <2>1 DEF ReaderPolls, Stopped, NotExpired
    <3>5. child' \in [Gits -> BOOLEAN]
      BY <3>2 DEF TypeOK
    <3>6. sampled' \in [Gits -> 0..setting.maxTime]
      BY <1>1, <3>3 DEF TypeOK, SettingType
    <3>7. reader' \in [Gits -> {"polling", "readOpen", "readMillis", "stopped"}]
      BY <3>4 DEF TypeOK
    <3> QED BY <1>2, <3>1, <3>5, <3>6, <3>7 DEF TypeOK, statVars, workerVars, clientVars
  <2>2. CASE ReaderReadsOpen(g)
    BY <1>1, <1>2, <2>2 DEF ReaderReadsOpen, NotExpired, TypeOK, SettingType,
                            statVars, workerVars, clientVars
  <2>3. CASE ReaderReadsMillis(g)
    <3>1. UNCHANGED <<closed, cancelled, statVars, workerVars, clientVars, stop>>
      BY <2>3 DEF ReaderReadsMillis
    <3>2. child' = child \/ child' = [child EXCEPT ![g] = FALSE]
      BY <2>3 DEF ReaderReadsMillis, Stopped, NotExpired
    <3>3. sampled' = sampled \/ sampled' = [sampled EXCEPT ![g] = 0]
      BY <2>3 DEF ReaderReadsMillis, Stopped, NotExpired
    <3>4. \E to \in {"polling", "stopped"} : reader' = [reader EXCEPT ![g] = to]
      BY <2>3 DEF ReaderReadsMillis, Stopped, NotExpired
    <3>5. timedOut' = timedOut \/ timedOut' = [timedOut EXCEPT ![g] = TRUE]
      BY <2>3 DEF ReaderReadsMillis, Stopped, NotExpired
    <3>6. child' \in [Gits -> BOOLEAN] /\ timedOut' \in [Gits -> BOOLEAN]
      BY <3>2, <3>5 DEF TypeOK
    <3>7. sampled' \in [Gits -> 0..setting.maxTime]
      BY <1>1, <3>3 DEF TypeOK, SettingType
    <3>8. reader' \in [Gits -> {"polling", "readOpen", "readMillis", "stopped"}]
      BY <3>4 DEF TypeOK
    <3> QED BY <1>2, <3>1, <3>6, <3>7, <3>8 DEF TypeOK, statVars, workerVars, clientVars
  <2>4. CASE SessionCloses(g)
    BY <1>2, <2>4 DEF SessionCloses, TypeOK, statVars, workerVars, clientVars
  <2>5. CASE ChildExits(g) \/ Cancel(g)
    BY <1>2, <2>5 DEF ChildExits, Cancel, TypeOK, gitVars, statVars, workerVars, clientVars
  <2> QED BY <2>1, <2>2, <2>3, <2>4, <2>5 DEF Read
<1>4. OpenCounts'
  BY <1>2, CountStays DEF InHandler, statVars, workerVars
<1>5. NowAccounted'
  BY <1>2, AccountStays DEF InHandler, statVars, workerVars
<1>6. SampleAccounted'
  <2>1. CASE ReaderReadsOpen(g) /\ reader'[g] = "readMillis"
    <3>1. open[g] = 0 /\ reader' = [reader EXCEPT ![g] = "readMillis"] /\ sampled' = sampled
      BY <2>1 DEF ReaderReadsOpen, NotExpired, StandsStill, TypeOK
    <3>2. Accounted(g, now)
      BY <3>1, NoneOpen DEF NowAccounted
    <3>3. Accounted(g, sampled[g])
      BY <1>1, <3>2 DEF Accounted, InThePast, TypeOK
    <3> QED BY <1>2, <3>1, <3>3 DEF SampleAccounted, Accounted, TypeOK, statVars
  <2>2. CASE ~(ReaderReadsOpen(g) /\ reader'[g] = "readMillis")
    <3>1. \A h \in Gits : reader'[h] = "readMillis" =>
                            reader[h] = "readMillis" /\ sampled'[h] = sampled[h]
      BY <2>2 DEF Read, ReaderPolls, ReaderReadsOpen, ReaderReadsMillis, SessionCloses,
                  ChildExits, Cancel, Stopped, NotExpired, TypeOK, gitVars
    <3> QED BY <1>2, <3>1, SampleStays DEF statVars
  <2> QED BY <2>1, <2>2
<1>7. InThePast'
  BY <1>1, <1>2 DEF InThePast, Read, ReaderPolls, ReaderReadsOpen, ReaderReadsMillis, SessionCloses,
          ChildExits, Cancel, Stopped, NotExpired, TypeOK, workerVars, gitVars
<1>8. ASSUME NEW h \in Gits, timedOut'[h] PROVE idleTime'[h] >= setting'.timeout
  <2>1. CASE timedOut[h]
    BY <1>2, <2>1
  <2>2. CASE ~timedOut[h]
    <3>1. h = g /\ ReaderReadsMillis(g) /\ sampled[g] >= Moved(g)
      BY <1>8, <2>2 DEF Read, ReaderPolls, ReaderReadsOpen, ReaderReadsMillis, SessionCloses,
                        ChildExits, Cancel, Stopped, NotExpired, TypeOK, gitVars
    <3>2. Accounted(g, sampled[g])
      BY <3>1 DEF SampleAccounted, ReaderReadsMillis
    <3> QED BY <1>1, <1>2, <3>1, <3>2 DEF Accounted, Moved, TypeOK, SettingType
  <2> QED BY <2>1, <2>2
<1> QED BY <1>3, <1>4, <1>5, <1>6, <1>7, <1>8

(* The thread serving a prompt, but for what it counts and adds up. *)
Quietly(p) ==
  \/ Connect(p) \/ FindSession(p) \/ Call(p) \/ CallEnds(p) \/ CallFindsGone(p)
  \/ CallWithdraws(p) \/ Reply(p) \/ ClientReplies(p)

LEMMA WorkerKeeps ==
  ASSUME CutShortInv, NEW p \in Prompts, Quietly(p) PROVE CutShortInv'
<1> USE DEF CutShortInv
<1>1. setting \in SettingType /\ now \in Nat
  BY SettingTyped DEF TypeOK, SettingType
<1>2. UNCHANGED <<now, setting, statVars, idleTime, gitVars>>
  BY DEF Quietly, Connect, FindSession, Call, CallEnds, CallFindsGone, CallWithdraws, Reply,
         ClientReplies
<1>3. TypeOK'
  <2>1. CASE Connect(p) \/ FindSession(p)
    BY <1>1, <1>2, <2>1 DEF Connect, FindSession, At, TypeOK, SettingType, gitVars, statVars,
                            clientVars
  <2>2. CASE Call(p) \/ CallEnds(p) \/ CallFindsGone(p)
    BY <1>2, <2>2 DEF Call, CallEnds, CallFindsGone, At, TypeOK, gitVars, statVars, clientVars
  <2>3. CASE CallWithdraws(p)
    BY <1>2, <2>3 DEF CallWithdraws, TellsClient, At, TypeOK, gitVars, statVars
  <2>4. CASE Reply(p)
    BY <1>1, <1>2, <2>4 DEF Reply, At, TypeOK, SettingType, gitVars, statVars, clientVars
  <2>5. CASE ClientReplies(p)
    BY <1>2, <2>5 DEF ClientReplies, TypeOK, Replies, gitVars, statVars, workerVars
  <2> QED BY <2>1, <2>2, <2>3, <2>4, <2>5 DEF Quietly
<1>4. \A q \in Prompts :
        /\ (InHandler(q) \/ worker[q] = "closing") <=> (InHandler(q)' \/ worker'[q] = "closing")
        /\ InHandler(q) => InHandler(q)' /\ started'[q] = started[q]
  BY DEF Quietly, Connect, FindSession, Call, CallEnds, CallFindsGone, CallWithdraws, Reply,
         ClientReplies, At, InHandler, TypeOK, workerVars
<1>5. OpenCounts'
  BY <1>2, <1>4, CountStays DEF statVars
<1>6. NowAccounted'
  BY <1>2, <1>4, AccountStays DEF statVars
<1>7. SampleAccounted'
  BY <1>2, SampleStays DEF statVars, gitVars
<1>8. InThePast'
  BY <1>1, <1>2 DEF InThePast, Quietly, Connect, FindSession, Call, CallEnds, CallFindsGone,
                    CallWithdraws, Reply, ClientReplies, TypeOK, gitVars, workerVars, SettingType
<1> QED BY <1>2, <1>3, <1>5, <1>6, <1>7, <1>8 DEF gitVars

(* A prompt begins to count. *)
LEMMA OpenKeeps ==
  ASSUME CutShortInv, NEW p \in Prompts, OpenPrompt(p) PROVE CutShortInv'
<1> USE DEF CutShortInv
<1>1. OpenCounts' /\ open' \in [Gits -> 0..Cardinality(Prompts)]
  BY CountGrows
<1>2. UNCHANGED <<now, setting, millis, idleTime, gitVars, started>>
  BY DEF OpenPrompt
<1>3. TypeOK'
  BY <1>1, <1>2 DEF OpenPrompt, At, TypeOK, gitVars, clientVars
<1>4. \A q \in Prompts : InHandler(q) => InHandler(q)' /\ started'[q] = started[q]
  BY <1>2 DEF OpenPrompt, At, InHandler, TypeOK
<1>5. NowAccounted' /\ SampleAccounted'
  BY <1>2, <1>4, AccountStays, SampleStays DEF gitVars
<1> QED BY <1>1, <1>2, <1>3, <1>5 DEF InThePast, gitVars

(* Its time is added up first: what it accounted for is accounted for without it. *)
LEMMA AddKeeps ==
  ASSUME CutShortInv, NEW p \in Prompts, AddTime(p) PROVE CutShortInv'
<1> USE DEF CutShortInv
<1> DEFINE g == GitOf[p]
           spent == now - started[p]
<1>1. setting \in SettingType /\ now \in Nat /\ spent \in Nat /\ g \in Gits
  BY SettingTyped, AskpassAssumption DEF TypeOK, SettingType, InThePast
<1>2. UNCHANGED <<now, setting, open, started, idleTime, gitVars>>
  BY DEF AddTime
<1>3. millis' = [millis EXCEPT ![g] = millis[g] + spent]
  BY DEF AddTime
<1>4. worker[p] = "adding" /\ worker' = [worker EXCEPT ![p] = "closing"]
  BY DEF AddTime, At
<1>5. TypeOK'
  BY <1>1, <1>2, <1>3 DEF AddTime, At, TypeOK, gitVars, clientVars
<1>6. OpenCounts'
  BY <1>2, <1>4, CountStays DEF InHandler, TypeOK
<1>7. ASSUME NEW h \in Gits, NEW t \in Nat, Accounted(h, t) PROVE Accounted(h, t)'
  BY <1>1, <1>2, <1>3, <1>7 DEF Accounted, TypeOK, SettingType
<1>8. NowAccounted'
  <2> SUFFICES ASSUME NEW h \in Gits
               PROVE  Accounted(h, now)' \/ \E q \in Asking(h)' : Accounted(h, started[q])'
    BY DEF NowAccounted
  <2>1. CASE Accounted(h, now)
    BY <1>1, <1>2, <1>7, <2>1
  <2>2. ASSUME NEW q \in Asking(h), q # p, Accounted(h, started[q])
        PROVE  q \in Asking(h)' /\ Accounted(h, started[q])'
    <3>1. q \in Asking(h)'
      BY <1>4, <2>2 DEF Asking, InHandler, TypeOK
    <3>2. started[q] \in Nat
      BY <1>1 DEF Asking, TypeOK, SettingType
    <3> QED BY <1>2, <1>7, <2>2, <3>1, <3>2
  <2>3. CASE p \in Asking(h) /\ Accounted(h, started[p])
    <3>1. h = g
      BY <2>3 DEF Asking
    <3> QED BY <1>1, <1>2, <1>3, <2>3, <3>1 DEF Accounted, TypeOK, SettingType
  <2> QED BY <2>1, <2>2, <2>3 DEF NowAccounted
<1>9. SampleAccounted'
  BY <1>1, <1>2, <1>7 DEF SampleAccounted, TypeOK, gitVars, SettingType
<1> QED BY <1>2, <1>5, <1>6, <1>8, <1>9 DEF InThePast, gitVars

LEMMA CloseKeeps ==
  ASSUME CutShortInv, NEW p \in Prompts, ClosePrompt(p) PROVE CutShortInv'
<1> USE DEF CutShortInv
<1>1. OpenCounts' /\ open' \in [Gits -> 0..Cardinality(Prompts)]
  BY CountShrinks
<1>2. UNCHANGED <<now, setting, millis, idleTime, gitVars, started>>
  BY DEF ClosePrompt
<1>3. TypeOK'
  BY <1>1, <1>2 DEF ClosePrompt, At, TypeOK, gitVars, clientVars
<1>4. \A q \in Prompts : InHandler(q) => InHandler(q)' /\ started'[q] = started[q]
  BY <1>2 DEF ClosePrompt, At, InHandler, TypeOK
<1>5. NowAccounted' /\ SampleAccounted'
  BY <1>2, <1>4, AccountStays, SampleStays DEF gitVars
<1> QED BY <1>1, <1>2, <1>3, <1>5 DEF InThePast, gitVars

LEMMA StopKeeps ==
  ASSUME CutShortInv, ServerStops PROVE CutShortInv'
<1> USE DEF CutShortInv
<1>1. UNCHANGED <<now, setting, gitVars, statVars, workerVars, idleTime>>
  BY DEF ServerStops
<1>2. TypeOK'
  BY <1>1 DEF ServerStops, TypeOK, StillRunning, gitVars, statVars, workerVars, clientVars
<1>3. OpenCounts' /\ NowAccounted' /\ SampleAccounted'
  BY <1>1, CountStays, AccountStays, SampleStays DEF InHandler, gitVars, statVars, workerVars
<1> QED BY <1>1, <1>2, <1>3 DEF InThePast, gitVars, workerVars

(* A tick is idle time of a git that has no prompt open, and is within the time of
   every prompt that is. *)
LEMMA TickKeeps ==
  ASSUME CutShortInv, Tick PROVE CutShortInv'
<1> USE DEF CutShortInv
<1>1. setting \in SettingType /\ now \in Nat
  BY SettingTyped DEF TypeOK, SettingType
<1>2. UNCHANGED <<setting, gitVars, statVars, workerVars>> /\ now' = now + 1
  BY DEF Tick
<1>3. idleTime' = [g \in Gits |-> IF Asking(g) = {} /\ idleTime[g] < setting.timeout
                                  THEN idleTime[g] + 1 ELSE idleTime[g]]
  BY DEF Tick
<1>4. TypeOK'
  BY <1>1, <1>2, <1>3 DEF Tick, TypeOK, SettingType, gitVars, statVars, workerVars, clientVars
<1>5. OpenCounts'
  BY <1>2, CountStays DEF InHandler, statVars, workerVars
<1>6. ASSUME NEW g \in Gits, NEW t \in Nat, Accounted(g, t) PROVE Accounted(g, t)'
  BY <1>1, <1>2, <1>3, <1>6 DEF Accounted, TypeOK, SettingType, statVars
<1>7. NowAccounted'
  <2> SUFFICES ASSUME NEW g \in Gits
               PROVE  Accounted(g, now)' \/ \E q \in Asking(g)' : Accounted(g, started[q])'
    BY DEF NowAccounted
  <2>1. Asking(g)' = Asking(g)
    BY <1>2 DEF Asking, InHandler, workerVars
  <2>2. CASE Asking(g) = {}
    <3>1. Accounted(g, now)
      BY <2>2 DEF NowAccounted
    <3> QED BY <1>1, <1>2, <1>3, <2>2, <3>1 DEF Accounted, TypeOK, SettingType, statVars
  <2>3. CASE Asking(g) # {}
    <3>1. PICK q \in Asking(g) : Accounted(g, started[q])
      BY <1>1, <2>3 DEF NowAccounted, Accounted, InThePast, Asking, TypeOK, SettingType
    <3>2. started[q] \in Nat /\ started' = started
      BY <1>1, <1>2 DEF Asking, TypeOK, SettingType, workerVars
    <3> QED BY <1>6, <2>1, <3>1, <3>2
  <2> QED BY <2>2, <2>3
<1>8. SampleAccounted'
  BY <1>1, <1>2, <1>6 DEF SampleAccounted, TypeOK, SettingType, gitVars
<1>9. InThePast'
  BY <1>1, <1>2 DEF InThePast, TypeOK, SettingType, gitVars, workerVars
<1>10. \A g \in Gits : timedOut'[g] => idleTime'[g] >= setting'.timeout
  BY <1>1, <1>2, <1>3 DEF TypeOK, SettingType, gitVars
<1> QED BY <1>4, <1>5, <1>7, <1>8, <1>9, <1>10

LEMMA StepCutShort == CutShortInv /\ [Next]_vars => CutShortInv'
<1> SUFFICES ASSUME CutShortInv, [Next]_vars PROVE CutShortInv'
  OBVIOUS
<1>1. ASSUME NEW g \in Gits, Read(g) \/ ChildExits(g) \/ Cancel(g) PROVE CutShortInv'
  BY <1>1, ReaderKeeps
<1>2. ASSUME NEW p \in Prompts, Connect(p) \/ Serve(p) \/ ClientReplies(p) PROVE CutShortInv'
  BY <1>2, WorkerKeeps, OpenKeeps, AddKeeps, CloseKeeps DEF Serve, Quietly
<1>3. CASE ServerStops \/ Tick
  BY <1>3, StopKeeps, TickKeeps
<1>4. CASE UNCHANGED vars
  <2>1. UNCHANGED <<now, setting, gitVars, statVars, workerVars, idleTime>>
    BY <1>4 DEF vars
  <2>2. OpenCounts' /\ NowAccounted' /\ SampleAccounted'
    BY <2>1, CountStays, AccountStays, SampleStays
       DEF CutShortInv, InHandler, gitVars, statVars, workerVars
  <2>3. TypeOK'
    BY <1>4 DEF CutShortInv, TypeOK, vars, gitVars, statVars, workerVars, clientVars
  <2> QED BY <2>1, <2>2, <2>3 DEF CutShortInv, InThePast, gitVars, workerVars
<1> QED BY <1>1, <1>2, <1>3, <1>4 DEF Next

(* NeverCutShort: a git is timed out only after the whole of its time with no prompt
   open, for any number of gits and of prompts that overlap (GitProcess::expired
   against the broker's bookkeeping). *)
THEOREM PromptsNeverCharged == Spec => []NeverCutShort
<1>1. CutShortInv => NeverCutShort
  BY DEF CutShortInv, NeverCutShort
<1> QED BY <1>1, InitCutShort, StepCutShort, PTL DEF Spec
=============================================================================
