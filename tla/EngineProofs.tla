---------------------------- MODULE EngineProofs ----------------------------
(* How the engine hears of changes: neither its watches nor its sweeps lose    *)
(* one, whatever the repositories, the directories and the clock; and that its *)
(* blame cache is exact, whatever fills it while the repository changes.       *)
EXTENDS EngineParts, SumTheorems, FiniteSetTheorems, SequenceTheorems, WellFoundedInduction, TLAPS

-----------------------------------------------------------------------------
(***************************************************************************)
(* StatSweep.  Whatever a sweep of the polling backend has gone over has   *)
(* been reported, or will be: proved from what the snapshot says of the    *)
(* file at each step of a sweep, and from the clock, which passes the racy *)
(* window before a stamp is trusted.                                       *)
(***************************************************************************)
Stamps == [mtime : Nat, content : Nat \cup {Sweep!Unhashed}]
Sweeps == [since : Int, full : BOOLEAN, dir : Int, racy : BOOLEAN,
           stamp : {Sweep!Gone} \cup [mtime : Nat, content : {Sweep!Unhashed}], report : BOOLEAN]

SweepType ==
  /\ sweepKind \in {"HEAD", "ref"} /\ sweepNow \in Nat /\ sweepWrites \in Nat
  /\ sweepFile \in {Sweep!Gone, Sweep!Deleted} \cup [mtime : Nat, content : Nat]
  /\ sweepFile.content <= sweepWrites
  /\ sweepSeen \in {Sweep!Gone} \cup Stamps /\ sweepSeen.content <= sweepWrites
  /\ sweepDirTime \in Int /\ sweepSeenDir \in [mtime : Int, racy : BOOLEAN]
  /\ sweepStep \in {"rest", "dir", "stat", "diff", "emit"}
  /\ sweepSweep \in Sweeps
  /\ sweepStep # "rest" => sweepSweep.since <= sweepNow - RacyWindow
  /\ sweepStep # "emit" => ~sweepSweep.report
  /\ sweepStep = "dir" => sweepKind = "ref"

(* Whether a stat of the file now gives the stamp of the sweep, and whether one would
   be told from the stamp of the last sweep. *)
Match == IF Sweep!There THEN sweepSweep.stamp # Sweep!Gone /\ sweepSweep.stamp.mtime = sweepFile.mtime
         ELSE sweepSweep.stamp = Sweep!Gone
Differs ==
  IF Sweep!There /\ sweepSeen # Sweep!Gone
    THEN sweepSeen.mtime # sweepFile.mtime \/ (sweepSeen.content # Sweep!Unhashed /\ sweepSeen.content # sweepFile.content)
    ELSE Sweep!There \/ sweepSeen # Sweep!Gone

(* A stamp without a content is too old for another write to have its time. *)
OldUnhashed ==
  sweepSeen # Sweep!Gone /\ sweepSeen.content = Sweep!Unhashed /\ sweepFile # Sweep!Deleted =>
    sweepSeen.mtime < IF sweepStep = "rest" THEN sweepNow - RacyWindow ELSE sweepSweep.since

(* What is not there was not there before, or is deleted for good. *)
GoneIsGone ==
  /\ sweepFile = Sweep!Gone => sweepSeen = Sweep!Gone /\ sweepHeard = Sweep!Unhashed /\ sweepSweep.stamp = Sweep!Gone
  /\ sweepStep = "diff" /\ sweepSweep.stamp = Sweep!Gone /\ sweepSeen # Sweep!Gone => sweepFile = Sweep!Deleted
  /\ sweepSeen = Sweep!Gone => IF sweepSweep.report THEN sweepFile = Sweep!Deleted ELSE sweepHeard = Sweep!Unhashed

(* What the listener has not read will be told from the last stamp. *)
WillDiffer == ~sweepSweep.report /\ sweepHeard # sweepFile.content => Differs

(* An undisturbed sweep has the file's stamp, and reports what was not heard. *)
Undisturbed ==
  /\ sweepStep = "diff" /\ ~sweepTouched => Match
  /\ sweepStep = "emit" /\ ~sweepTouched /\ ~(sweepKind = "ref" /\ sweepInPlace) => sweepSweep.report \/ sweepHeard = sweepFile.content

(* The directory of what the listener has not read will be listed, unless the file was
   rewritten in place. *)
WillBeListed ==
  /\ ~sweepSeenDir.racy => sweepSeenDir.mtime < sweepNow - RacyWindow
  /\ sweepStep \in {"stat", "diff"} => (sweepSweep.racy \/ sweepSweep.dir < sweepSweep.since)
  /\ (sweepStep \in {"rest", "emit"} \/ (sweepStep = "dir" /\ ~sweepSweep.full)) =>
       (~sweepInPlace /\ ~sweepSweep.report /\ sweepHeard # sweepFile.content => sweepDirTime # sweepSeenDir.mtime \/ sweepSeenDir.racy)
  /\ sweepStep = "diff" /\ ~sweepInPlace /\ ~Match => sweepDirTime # sweepSweep.dir \/ sweepSweep.racy

SweepInv ==
  /\ SweepType /\ OldUnhashed /\ GoneIsGone /\ WillDiffer /\ Undisturbed
  /\ sweepKind = "ref" => WillBeListed
  /\ Sweep!SweptIsHeard
LEMMA InitSweep == ASSUME Sweep!StatSweepAssumption, Sweep!Init PROVE SweepInv
<1>1. SweepType
  <2>1. /\ sweepKind \in {"HEAD", "ref"} /\ sweepNow \in Nat /\ sweepWrites \in Nat
        /\ sweepDirTime \in Int
    BY DEF Sweep!Init
  <2>2. /\ sweepFile \in {Sweep!Gone, Sweep!Deleted} \cup [mtime : Nat, content : Nat]
        /\ sweepFile.content <= sweepWrites
        /\ sweepSeen \in {Sweep!Gone} \cup Stamps /\ sweepSeen.content <= sweepWrites
    BY DEF Sweep!Init, Sweep!Gone, Sweep!Deleted, Sweep!Unhashed, Stamps
  <2>3. sweepSeenDir \in [mtime : Int, racy : BOOLEAN]
    BY DEF Sweep!Init
  <2>4. sweepSweep \in Sweeps /\ ~sweepSweep.report
    BY DEF Sweep!Init, Sweep!Rest, Sweeps
  <2> QED BY <2>1, <2>2, <2>3, <2>4 DEF Sweep!Init, SweepType
<1>2. OldUnhashed
  BY DEF Sweep!Init, OldUnhashed, Sweep!Gone, Sweep!Unhashed
<1>3. GoneIsGone
  BY DEF Sweep!Init, GoneIsGone, Sweep!Gone, Sweep!Unhashed, Sweep!Rest
<1>4. WillDiffer
  BY DEF Sweep!Init, WillDiffer
<1>5. Undisturbed
  BY DEF Sweep!Init, Undisturbed
<1>6. WillBeListed
  BY DEF Sweep!Init, WillBeListed
<1>7. Sweep!SweptIsHeard
  BY DEF Sweep!Init, Sweep!SweptIsHeard
<1> QED BY <1>1, <1>2, <1>3, <1>4, <1>5, <1>6, <1>7 DEF SweepInv

(* Timestamps follow the clock, by less than a tick. *)
LEMMA StampedLately ==
  ASSUME Sweep!StatSweepAssumption, sweepNow \in Nat
  PROVE  Sweep!Stamped \in Nat /\ Sweep!Stamped > sweepNow - Tick /\ Sweep!Stamped > sweepNow - RacyWindow
  BY DEF Sweep!StatSweepAssumption, Sweep!Stamped

(* The file's kinds. *)
LEMMA Kinds ==
  ASSUME SweepType
  PROVE  /\ Sweep!There <=> sweepFile \in [mtime : Nat, content : Nat]
         /\ Sweep!There => sweepFile.mtime \in Nat /\ sweepFile.content \in Nat /\ sweepFile # Sweep!Gone /\ sweepFile # Sweep!Deleted
         /\ ~Sweep!There => sweepFile.content = Sweep!Unhashed
         /\ sweepSeen # Sweep!Gone => sweepSeen \in Stamps /\ sweepSeen.mtime \in Nat
         /\ Sweep!Gone # Sweep!Deleted /\ Sweep!Gone.content = Sweep!Unhashed
         /\ Sweep!Deleted.content = Sweep!Unhashed
         /\ sweepSeen.content \in Int /\ sweepFile.content \in Int
  BY DEF SweepType, Sweep!There, Sweep!Gone, Sweep!Deleted, Sweep!Unhashed, Stamps

LEMMA PassesKeeps == ASSUME Sweep!StatSweepAssumption, SweepInv, Sweep!Passes PROVE SweepInv'
<1>1. /\ sweepNow' = sweepNow + 1 /\ sweepNow \in Nat
      /\ UNCHANGED <<sweepKind, sweepWrites, sweepFile, sweepDirTime, sweepTouched, sweepInPlace,
                     sweepSeen, sweepSeenDir, sweepStep, sweepSweep, sweepHeard>>
  BY DEF Sweep!Passes, SweepInv, SweepType, Sweep!fileVars
<1>2. SweepType'
  <2>1. sweepSweep.since \in Int /\ RacyWindow \in Nat
    BY DEF SweepInv, SweepType, Sweeps, Sweep!StatSweepAssumption
  <2> QED BY <1>1, <2>1 DEF SweepInv, SweepType
<1>3. OldUnhashed'
  <2>1. sweepSeen # Sweep!Gone => sweepSeen.mtime \in Nat /\ RacyWindow \in Nat
    BY Kinds DEF SweepInv, Sweep!StatSweepAssumption
  <2> QED BY <1>1, <2>1 DEF SweepInv, OldUnhashed
<1>4. GoneIsGone' /\ WillDiffer' /\ Undisturbed' /\ Sweep!SweptIsHeard'
  BY <1>1
  DEF SweepInv, GoneIsGone, WillDiffer, Differs, Undisturbed, Match, Sweep!There,
      Sweep!SweptIsHeard
<1>5. sweepKind = "ref" => WillBeListed'
  <2>1. sweepSeenDir.mtime \in Int /\ RacyWindow \in Nat
    BY DEF SweepInv, SweepType, Sweep!StatSweepAssumption
  <2> QED BY <1>1, <2>1 DEF SweepInv, WillBeListed, Match, Sweep!There
<1> QED BY <1>1, <1>2, <1>3, <1>4, <1>5 DEF SweepInv
LEMMA SweepChangeKeeps ==
  ASSUME Sweep!StatSweepAssumption, SweepInv,
         Sweep!Write \/ Sweep!Delete \/ Sweep!Rewrite PROVE SweepInv'
<1>1. /\ sweepFile # Sweep!Deleted /\ sweepTouched' = TRUE
      /\ UNCHANGED <<sweepKind, sweepNow, sweepSeen, sweepSeenDir, sweepStep, sweepSweep,
                     sweepHeard>>
  BY DEF Sweep!Write, Sweep!Delete, Sweep!Rewrite, Sweep!Written, Sweep!Change
<1>2. \/ sweepFile' = [mtime |-> Sweep!Stamped, content |-> sweepWrites + 1] /\ sweepWrites' = sweepWrites + 1
      \/ sweepFile' = Sweep!Deleted /\ Sweep!There /\ sweepWrites' = sweepWrites
  BY DEF Sweep!Write, Sweep!Delete, Sweep!Rewrite, Sweep!Written, Sweep!Change
<1>3. \/ sweepDirTime' = Sweep!Stamped /\ sweepInPlace' = sweepInPlace
      \/ sweepDirTime' = sweepDirTime /\ sweepInPlace' = TRUE
  BY DEF Sweep!Write, Sweep!Delete, Sweep!Rewrite
<1>4. SweepType
  BY DEF SweepInv
<1>5. /\ Sweep!Stamped \in Nat /\ Sweep!Stamped > sweepNow - RacyWindow /\ sweepWrites \in Nat
      /\ sweepNow \in Nat /\ RacyWindow \in Nat
  BY <1>4, StampedLately DEF SweepType, Sweep!StatSweepAssumption
<1>6. SweepType'
  <2>1. /\ sweepFile' \in {Sweep!Gone, Sweep!Deleted} \cup [mtime : Nat, content : Nat]
        /\ sweepFile'.content <= sweepWrites'
        /\ sweepWrites' \in Nat /\ sweepSeen.content <= sweepWrites'
    <3>1. sweepFile' = Sweep!Deleted => sweepFile'.content <= sweepWrites
      BY <1>5 DEF Sweep!Deleted, Sweep!Unhashed
    <3>2. sweepSeen.content <= sweepWrites /\ sweepSeen.content \in Int
      BY <1>4, Kinds DEF SweepType
    <3> QED BY <1>2, <1>5, <3>1, <3>2
  <2>2. sweepDirTime' \in Int
    BY <1>3, <1>4, <1>5 DEF SweepType
  <2> QED BY <1>1, <1>4, <2>1, <2>2 DEF SweepType
<1>7. Sweep!There' <=> sweepFile' # Sweep!Deleted
  BY <1>2, <1>5 DEF Sweep!There, Sweep!Gone, Sweep!Deleted
<1>8. OldUnhashed'
  BY <1>1 DEF SweepInv, OldUnhashed
<1>9. GoneIsGone'
  <2>1. sweepFile' # Sweep!Gone
    BY <1>2, <1>5 DEF Sweep!Gone, Sweep!Deleted
  <2>2. ~(sweepStep = "diff" /\ sweepSweep.stamp = Sweep!Gone /\ sweepSeen # Sweep!Gone)
    BY <1>1 DEF SweepInv, GoneIsGone
  <2>3. sweepSeen = Sweep!Gone => ~sweepSweep.report /\ sweepHeard = Sweep!Unhashed
    BY <1>1 DEF SweepInv, GoneIsGone
  <2> QED BY <1>1, <2>1, <2>2, <2>3 DEF GoneIsGone
<1>10. WillDiffer'
  <2>1. CASE sweepFile' = Sweep!Deleted
    <3>1. sweepSeen = Sweep!Gone => sweepHeard = Sweep!Unhashed \/ sweepSweep.report
      BY <1>1 DEF SweepInv, GoneIsGone
    <3>2. sweepFile'.content = Sweep!Unhashed /\ ~Sweep!There'
      BY <1>7, <2>1 DEF Sweep!Deleted
    <3> QED BY <1>1, <3>1, <3>2 DEF WillDiffer, Differs
  <2>2. CASE sweepFile' = [mtime |-> Sweep!Stamped, content |-> sweepWrites + 1]
    <3>1. Sweep!There' /\ sweepFile'.mtime = Sweep!Stamped /\ sweepFile'.content = sweepWrites + 1
      BY <1>5, <1>7, <2>2 DEF Sweep!Deleted, Sweep!Unhashed
    <3>2. sweepSeen # Sweep!Gone /\ sweepSeen.content = Sweep!Unhashed => sweepSeen.mtime < sweepNow - RacyWindow
      <4>1. sweepSeen # Sweep!Gone => sweepSeen.mtime \in Nat
        BY <1>4, Kinds
      <4>2. /\ sweepSweep.since \in Int
            /\ (sweepStep # "rest" => sweepSweep.since <= sweepNow - RacyWindow)
        BY <1>4 DEF SweepType, Sweeps
      <4> QED BY <1>1, <1>5, <4>1, <4>2 DEF SweepInv, OldUnhashed
    <3>3. /\ sweepSeen.content <= sweepWrites /\ sweepSeen.content \in Int
          /\ (sweepSeen # Sweep!Gone => sweepSeen.mtime \in Nat)
      BY <1>4, Kinds DEF SweepType
    <3> QED BY <1>1, <1>5, <3>1, <3>2, <3>3 DEF WillDiffer, Differs
  <2> QED BY <1>2, <2>1, <2>2
<1>11. Undisturbed' /\ Sweep!SweptIsHeard'
  BY <1>1 DEF Undisturbed, Sweep!SweptIsHeard
<1>12. sweepKind = "ref" => WillBeListed'
  <2> SUFFICES ASSUME sweepKind = "ref" PROVE WillBeListed'
    OBVIOUS
  <2>1. WillBeListed
    BY DEF SweepInv
  <2>2. /\ ~sweepSeenDir.racy => sweepSeenDir.mtime < sweepNow - RacyWindow
        /\ sweepStep \in {"stat", "diff"} => (sweepSweep.racy \/ sweepSweep.dir < sweepSweep.since)
    BY <2>1 DEF WillBeListed
  <2>3. sweepSeenDir.mtime \in Int /\ sweepSweep.dir \in Int /\ sweepSweep.since \in Int
        /\ (sweepStep # "rest" => sweepSweep.since <= sweepNow - RacyWindow)
    BY <1>4 DEF SweepType, Sweeps
  <2>4. ~sweepInPlace' => sweepDirTime' # sweepSeenDir.mtime \/ sweepSeenDir.racy
    BY <1>3, <1>5, <2>2, <2>3
  <2>5. sweepStep = "diff" /\ ~sweepInPlace' => sweepDirTime' # sweepSweep.dir \/ sweepSweep.racy
    BY <1>3, <1>5, <2>2, <2>3
  <2> QED BY <1>1, <2>2, <2>4, <2>5 DEF WillBeListed
<1> QED BY <1>1, <1>6, <1>8, <1>9, <1>10, <1>11, <1>12 DEF SweepInv

LEMMA BeginKeeps ==
  ASSUME Sweep!StatSweepAssumption, SweepInv, NEW full \in BOOLEAN,
         Sweep!SweepBegin(full) PROVE SweepInv'
<1>1. /\ sweepStep = "rest" /\ sweepStep' = (IF sweepKind = "ref" THEN "dir" ELSE "stat")
      /\ sweepSweep' = [sweepSweep EXCEPT !.since = sweepNow - RacyWindow, !.full = full]
      /\ sweepInPlace' = (sweepInPlace /\ ~full)
      /\ UNCHANGED <<sweepKind, sweepNow, sweepWrites, sweepFile, sweepDirTime, sweepSeen,
                     sweepSeenDir, sweepHeard>>
  BY DEF Sweep!SweepBegin, Sweep!Sweeping
<1>2. SweepType
  BY DEF SweepInv
<1>3. sweepNow - RacyWindow \in Int
  BY <1>2 DEF SweepType, Sweep!StatSweepAssumption
<1>4. /\ sweepSweep' \in Sweeps /\ sweepSweep'.since = sweepNow - RacyWindow
      /\ sweepSweep'.full = full
      /\ sweepSweep'.stamp = sweepSweep.stamp /\ sweepSweep'.report = sweepSweep.report
  BY <1>1, <1>2, <1>3 DEF SweepType, Sweeps
<1>5. SweepType'
  BY <1>1, <1>2, <1>3, <1>4 DEF SweepType
<1>6. OldUnhashed' /\ GoneIsGone' /\ WillDiffer' /\ Undisturbed' /\ Sweep!SweptIsHeard'
  BY <1>1, <1>4
  DEF SweepInv, OldUnhashed, GoneIsGone, WillDiffer, Differs, Sweep!There, Undisturbed,
      Sweep!SweptIsHeard
<1>7. sweepKind = "ref" => WillBeListed'
  BY <1>1, <1>4 DEF SweepInv, WillBeListed
<1> QED BY <1>1, <1>5, <1>6, <1>7 DEF SweepInv

LEMMA StatDirKeeps == ASSUME Sweep!StatSweepAssumption, SweepInv, Sweep!StatDir PROVE SweepInv'
<1>1. /\ sweepStep = "dir" /\ sweepStep' = (IF Sweep!Relist THEN "stat" ELSE "emit")
      /\ sweepSweep' = [sweepSweep EXCEPT !.dir = sweepDirTime, !.racy = sweepDirTime >= sweepSweep.since]
      /\ UNCHANGED <<sweepKind, sweepNow, sweepWrites, sweepFile, sweepDirTime, sweepTouched,
                     sweepInPlace, sweepSeen, sweepSeenDir, sweepHeard>>
  BY DEF Sweep!StatDir, Sweep!Sweeping
<1>2. SweepType /\ sweepKind = "ref" /\ WillBeListed
  BY <1>1 DEF SweepInv, SweepType
<1>3. sweepDirTime \in Int /\ sweepSweep.since \in Int /\ sweepSweep \in Sweeps
  BY <1>2 DEF SweepType, Sweeps
<1>4. /\ sweepSweep' \in Sweeps /\ sweepSweep'.since = sweepSweep.since
      /\ sweepSweep'.full = sweepSweep.full
      /\ sweepSweep'.dir = sweepDirTime /\ (sweepSweep'.racy <=> sweepDirTime >= sweepSweep.since)
      /\ sweepSweep'.stamp = sweepSweep.stamp /\ sweepSweep'.report = sweepSweep.report
  <2>1. PICK b \in BOOLEAN : b = (sweepDirTime >= sweepSweep.since)
    <3>1. (sweepDirTime >= sweepSweep.since) \in BOOLEAN
      BY <1>3
    <3> QED BY <3>1, Zenon
  <2>2. sweepSweep' = [sweepSweep EXCEPT !.dir = sweepDirTime, !.racy = b]
    BY <1>1, <2>1, Zenon
  <2>3. /\ sweepSweep' \in Sweeps /\ sweepSweep'.since = sweepSweep.since
        /\ sweepSweep'.full = sweepSweep.full
        /\ sweepSweep'.dir = sweepDirTime /\ sweepSweep'.racy = b
        /\ sweepSweep'.stamp = sweepSweep.stamp /\ sweepSweep'.report = sweepSweep.report
    BY <1>3, <2>2 DEF Sweeps
  <2> QED BY <2>1, <2>3
<1>5. SweepType'
  BY <1>1, <1>2, <1>4 DEF SweepType
<1>6. OldUnhashed' /\ GoneIsGone' /\ WillDiffer' /\ Sweep!SweptIsHeard'
  BY <1>1, <1>4
  DEF SweepInv, OldUnhashed, GoneIsGone, WillDiffer, Differs, Sweep!There, Sweep!SweptIsHeard
<1>7. ~Sweep!Relist /\ ~sweepInPlace => sweepHeard = sweepFile.content
  BY <1>1, <1>2 DEF WillBeListed, Sweep!Relist, SweepType
<1>8. Undisturbed'
  BY <1>1, <1>2, <1>7 DEF Undisturbed
<1>9. WillBeListed'
  <2>1. sweepSweep'.racy \/ sweepSweep'.dir < sweepSweep'.since
    BY <1>3, <1>4
  <2> QED BY <1>1, <1>2, <1>7, <2>1 DEF WillBeListed
<1> QED BY <1>1, <1>5, <1>6, <1>8, <1>9 DEF SweepInv

LEMMA StatKeeps == ASSUME Sweep!StatSweepAssumption, SweepInv, Sweep!Stat PROVE SweepInv'
<1>1. /\ sweepStep = "stat" /\ sweepStep' = "diff"
      /\ sweepSweep' = [sweepSweep EXCEPT !.stamp =
                     IF Sweep!There THEN [mtime |-> sweepFile.mtime, content |-> Sweep!Unhashed] ELSE Sweep!Gone]
      /\ UNCHANGED <<sweepKind, sweepNow, sweepWrites, sweepFile, sweepDirTime, sweepTouched,
                     sweepInPlace, sweepSeen, sweepSeenDir, sweepHeard>>
  BY DEF Sweep!Stat, Sweep!Sweeping
<1>2. SweepType /\ sweepSweep \in Sweeps
  BY DEF SweepInv, SweepType
<1>3. (IF Sweep!There THEN [mtime |-> sweepFile.mtime, content |-> Sweep!Unhashed] ELSE Sweep!Gone)
        \in {Sweep!Gone} \cup [mtime : Nat, content : {Sweep!Unhashed}]
  BY <1>2, Kinds
<1>4. /\ sweepSweep' \in Sweeps /\ sweepSweep'.since = sweepSweep.since
      /\ sweepSweep'.full = sweepSweep.full
      /\ sweepSweep'.dir = sweepSweep.dir /\ sweepSweep'.racy = sweepSweep.racy
      /\ sweepSweep'.report = sweepSweep.report
      /\ sweepSweep'.stamp = IF Sweep!There THEN [mtime |-> sweepFile.mtime, content |-> Sweep!Unhashed] ELSE Sweep!Gone
  BY <1>1, <1>2, <1>3 DEF Sweeps
<1>5. SweepType'
  BY <1>1, <1>2, <1>4 DEF SweepType
<1>6. Sweep!There' = Sweep!There /\ Match'
  <2>1. Sweep!There => [mtime |-> sweepFile.mtime, content |-> Sweep!Unhashed] # Sweep!Gone
    BY <1>2, Kinds DEF Sweep!Gone, Sweep!Unhashed
  <2> QED BY <1>1, <1>4, <2>1 DEF Sweep!There, Match
<1>7. OldUnhashed' /\ WillDiffer' /\ Sweep!SweptIsHeard'
  BY <1>1, <1>4 DEF SweepInv, OldUnhashed, WillDiffer, Differs, Sweep!There, Sweep!SweptIsHeard
<1>8. GoneIsGone'
  <2>1. ~Sweep!There => sweepFile = Sweep!Gone \/ sweepFile = Sweep!Deleted
    BY DEF Sweep!There
  <2>2. Sweep!There => [mtime |-> sweepFile.mtime, content |-> Sweep!Unhashed] # Sweep!Gone
    BY <1>2, Kinds DEF Sweep!Gone, Sweep!Unhashed
  <2>3. sweepFile = Sweep!Gone => ~Sweep!There
    BY DEF Sweep!There
  <2> QED BY <1>1, <1>4, <2>1, <2>2, <2>3 DEF SweepInv, GoneIsGone
<1>9. Undisturbed'
  BY <1>1, <1>6 DEF Undisturbed
<1>10. sweepKind = "ref" => WillBeListed'
  BY <1>1, <1>4, <1>6 DEF SweepInv, WillBeListed
<1> QED BY <1>1, <1>5, <1>7, <1>8, <1>9, <1>10 DEF SweepInv

LEMMA DiffKeeps == ASSUME Sweep!StatSweepAssumption, SweepInv, Sweep!Diff PROVE SweepInv'
<1>1. /\ sweepStep = "diff" /\ sweepStep' = "emit" /\ sweepSeen' = Sweep!Hashed(sweepSweep.stamp)
      /\ sweepSweep' = [sweepSweep EXCEPT !.report = Sweep!Changed(sweepSeen, sweepSeen')]
      /\ sweepSeenDir' = IF sweepKind = "ref" THEN [mtime |-> sweepSweep.dir, racy |-> sweepSweep.racy] ELSE sweepSeenDir
      /\ UNCHANGED <<sweepKind, sweepNow, sweepWrites, sweepFile, sweepDirTime, sweepTouched,
                     sweepInPlace, sweepHeard>>
  BY DEF Sweep!Diff, Sweep!Sweeping
<1>2. SweepType /\ sweepSweep \in Sweeps /\ ~sweepSweep.report
  BY <1>1 DEF SweepInv, SweepType
<1>3. Sweep!Changed(sweepSeen, sweepSeen') \in BOOLEAN
  BY DEF Sweep!Changed, Sweep!Same
<1>4. /\ sweepSweep' \in Sweeps /\ sweepSweep'.since = sweepSweep.since
      /\ sweepSweep'.full = sweepSweep.full
      /\ sweepSweep'.dir = sweepSweep.dir /\ sweepSweep'.racy = sweepSweep.racy
      /\ sweepSweep'.stamp = sweepSweep.stamp
      /\ sweepSweep'.report = Sweep!Changed(sweepSeen, sweepSeen')
  BY <1>1, <1>2, <1>3 DEF Sweeps
<1>5. /\ sweepSweep.stamp = Sweep!Gone => sweepSeen' = Sweep!Gone
      /\ sweepSweep.stamp # Sweep!Gone =>
           /\ sweepSeen' \in Stamps /\ sweepSeen' # Sweep!Gone
           /\ sweepSeen'.mtime = sweepSweep.stamp.mtime /\ sweepSeen'.mtime \in Nat
           /\ sweepSeen'.content = IF sweepSweep.stamp.mtime >= sweepSweep.since THEN sweepFile.content ELSE Sweep!Unhashed
  <2>1. sweepSweep.stamp # Sweep!Gone => sweepSweep.stamp \in [mtime : Nat, content : {Sweep!Unhashed}]
    BY <1>2 DEF Sweeps
  <2>2. sweepFile.content \in Nat \cup {Sweep!Unhashed}
    BY <1>2, Kinds
  <2> QED BY <1>1, <2>1, <2>2 DEF Sweep!Hashed, Stamps, Sweep!Gone, Sweep!Unhashed
<1>6. Sweep!There' = Sweep!There /\ Differs' = (IF Sweep!There /\ sweepSeen' # Sweep!Gone
        THEN sweepSeen'.mtime # sweepFile.mtime \/ (sweepSeen'.content # Sweep!Unhashed /\ sweepSeen'.content # sweepFile.content)
        ELSE Sweep!There \/ sweepSeen' # Sweep!Gone)
  BY <1>1 DEF Sweep!There, Differs
<1>7. SweepType'
  <2>1. sweepSeen' \in {Sweep!Gone} \cup Stamps
    BY <1>5
  <2>2. sweepSeen'.content <= sweepWrites
    <3>1. /\ Sweep!Unhashed <= sweepWrites /\ Sweep!Gone.content = Sweep!Unhashed
          /\ sweepFile.content <= sweepWrites
      BY <1>2 DEF SweepType, Sweep!Unhashed, Sweep!Gone
    <3> QED BY <1>5, <3>1
  <2>3. sweepSeenDir' \in [mtime : Int, racy : BOOLEAN]
    BY <1>1, <1>2 DEF SweepType, Sweeps
  <2> QED BY <1>1, <1>2, <1>4, <2>1, <2>2, <2>3 DEF SweepType
<1>8. OldUnhashed'
  <2> SUFFICES ASSUME sweepSeen' # Sweep!Gone, sweepSeen'.content = Sweep!Unhashed,
                      sweepFile # Sweep!Deleted
               PROVE  sweepSeen'.mtime < sweepSweep.since
    BY <1>1, <1>4 DEF OldUnhashed
  <2>1. Sweep!There
    BY <1>5 DEF SweepInv, GoneIsGone, Sweep!There
  <2>2. sweepFile.content # Sweep!Unhashed
    BY <1>2, <2>1, Kinds DEF Sweep!Unhashed
  <2>3. sweepSweep.stamp # Sweep!Gone /\ sweepSweep.stamp.mtime \in Nat /\ sweepSweep.since \in Int
    BY <1>2, <1>5 DEF Sweeps
  <2> QED BY <1>5, <2>2, <2>3
(* What is not reported is as it was seen, but for a content that is not kept. *)
<1>9. ASSUME ~Sweep!Changed(sweepSeen, sweepSeen')
      PROVE  \/ sweepSeen' = sweepSeen
             \/ /\ sweepSeen # Sweep!Gone /\ sweepSeen' # Sweep!Gone /\ sweepSeen'.mtime = sweepSeen.mtime
                /\ sweepSeen'.content = Sweep!Unhashed /\ sweepSeen.content = sweepFile.content
  <2>1. CASE Sweep!Same(sweepSeen, sweepSeen')
    <3>1. /\ sweepSeen # Sweep!Gone /\ sweepSeen' # Sweep!Gone /\ sweepSeen.mtime = sweepSeen'.mtime
          /\ sweepSeen.content = Sweep!Unhashed \/ sweepSeen.content = sweepFile.content
      BY <1>9, <2>1 DEF Sweep!Same, Sweep!Changed
    <3>2. /\ sweepSeen \in Stamps /\ sweepSeen' \in Stamps
          /\ sweepSeen'.content \in {Sweep!Unhashed, sweepFile.content}
      BY <1>2, <1>5, <3>1, Kinds
    <3>3. CASE sweepSeen'.content = sweepSeen.content
      BY <3>1, <3>2, <3>3 DEF Stamps
    <3>4. CASE sweepSeen'.content # sweepSeen.content /\ sweepSeen.content = sweepFile.content
      BY <3>1, <3>2, <3>4
    <3>5. CASE sweepSeen'.content # sweepSeen.content /\ sweepSeen.content # sweepFile.content
      <4>1. /\ sweepSeen.content = Sweep!Unhashed /\ sweepSeen'.content = sweepFile.content
            /\ sweepFile.content # Sweep!Unhashed
        BY <3>1, <3>2, <3>5
      <4>2. sweepFile # Sweep!Deleted
        BY <4>1 DEF Sweep!Deleted
      <4>3. sweepSeen.mtime < sweepSweep.since
        BY <1>1, <3>1, <4>1, <4>2 DEF SweepInv, OldUnhashed
      <4>4. /\ sweepSweep.stamp # Sweep!Gone /\ sweepSweep.stamp.mtime = sweepSeen.mtime
            /\ ~(sweepSeen.mtime < sweepSweep.since)
        <5>1. sweepSweep.stamp # Sweep!Gone /\ sweepSweep.stamp.mtime = sweepSeen.mtime
          BY <1>5, <3>1
        <5>2. sweepSeen.mtime \in Nat /\ sweepSweep.since \in Int
          BY <1>2, <3>1, Kinds DEF Sweeps
        <5> QED BY <1>5, <4>1, <5>1, <5>2
      <4> QED BY <4>3, <4>4
    <3> QED BY <3>3, <3>4, <3>5
  <2>2. CASE ~Sweep!Same(sweepSeen, sweepSeen')
    BY <1>9, <2>2 DEF Sweep!Changed
  <2> QED BY <2>1, <2>2
<1>10. GoneIsGone'
  <2>1. sweepSeen' = Sweep!Gone <=> sweepSweep.stamp = Sweep!Gone
    BY <1>5
  <2>2. sweepFile = Sweep!Gone => sweepSeen' = Sweep!Gone /\ sweepHeard = Sweep!Unhashed
    BY <2>1 DEF SweepInv, GoneIsGone
  <2>3. sweepSeen' = Sweep!Gone /\ Sweep!Changed(sweepSeen, sweepSeen') => sweepFile = Sweep!Deleted
    <3>1. sweepSeen' = Sweep!Gone /\ Sweep!Changed(sweepSeen, sweepSeen') => sweepSeen # Sweep!Gone
      BY DEF Sweep!Changed, Sweep!Same
    <3> QED BY <1>1, <2>1, <3>1 DEF SweepInv, GoneIsGone
  <2>4. sweepSeen' = Sweep!Gone /\ ~Sweep!Changed(sweepSeen, sweepSeen') => sweepHeard = Sweep!Unhashed
    BY <1>2, <1>9 DEF SweepInv, GoneIsGone
  <2> QED BY <1>1, <1>4, <2>1, <2>2, <2>3, <2>4 DEF SweepInv, GoneIsGone
<1>11. WillDiffer'
  <2> SUFFICES ASSUME ~Sweep!Changed(sweepSeen, sweepSeen'),
                      sweepHeard # sweepFile.content PROVE Differs'
    BY <1>1, <1>4 DEF WillDiffer
  <2>1. Differs
    BY <1>2 DEF SweepInv, WillDiffer
  <2> QED BY <1>6, <1>9, <2>1 DEF Differs
(* An undisturbed sweep's stamp is of the file, and a change since the last shows. *)
<1>12. Match /\ sweepHeard # sweepFile.content => Sweep!Changed(sweepSeen, sweepSeen')
  <2> SUFFICES ASSUME Match, sweepHeard # sweepFile.content,
                      ~Sweep!Changed(sweepSeen, sweepSeen') PROVE FALSE
    OBVIOUS
  <2>1. Differs
    BY <1>2 DEF SweepInv, WillDiffer
  <2>2. Sweep!There <=> sweepSeen' # Sweep!Gone
    BY <1>5 DEF Match
  <2>3. Sweep!There => sweepSeen'.mtime = sweepFile.mtime
    BY <1>5, <2>2 DEF Match
  <2>4. CASE sweepSeen' = sweepSeen
    <3>1. /\ Sweep!There /\ sweepSeen # Sweep!Gone /\ sweepSeen.content # Sweep!Unhashed
          /\ sweepSeen.content # sweepFile.content
      BY <2>1, <2>2, <2>3, <2>4 DEF Differs
    <3> QED BY <2>4, <3>1 DEF Sweep!Changed, Sweep!Same
  <2>5. CASE sweepSeen # Sweep!Gone /\ sweepSeen' # Sweep!Gone /\ sweepSeen'.mtime = sweepSeen.mtime /\ sweepSeen.content = sweepFile.content
    BY <2>1, <2>2, <2>3, <2>5 DEF Differs
  <2> QED BY <1>9, <2>4, <2>5
<1>13. Undisturbed'
  BY <1>1, <1>4, <1>12 DEF SweepInv, Undisturbed
<1>14. sweepKind = "ref" => WillBeListed'
  <2> SUFFICES ASSUME sweepKind = "ref" PROVE WillBeListed'
    OBVIOUS
  <2>1. WillBeListed
    BY DEF SweepInv
  <2>2. sweepSeenDir'.mtime = sweepSweep.dir /\ (sweepSeenDir'.racy <=> sweepSweep.racy)
    BY <1>1
  <2>3. ~sweepSeenDir'.racy => sweepSeenDir'.mtime < sweepNow - RacyWindow
    <3>1. sweepSweep.racy \/ sweepSweep.dir < sweepSweep.since
      BY <1>1, <2>1 DEF WillBeListed
    <3>2. /\ sweepSweep.dir \in Int /\ sweepSweep.since \in Int /\ sweepNow \in Nat
          /\ RacyWindow \in Nat
          /\ sweepSweep.since <= sweepNow - RacyWindow
      BY <1>1, <1>2 DEF SweepType, Sweeps, Sweep!StatSweepAssumption
    <3> QED BY <2>2, <3>1, <3>2
  <2>4. ~sweepInPlace /\ ~Sweep!Changed(sweepSeen, sweepSeen') /\ sweepHeard # sweepFile.content
          => sweepDirTime # sweepSeenDir'.mtime \/ sweepSeenDir'.racy
    BY <1>1, <1>12, <2>1, <2>2 DEF WillBeListed
  <2> QED BY <1>1, <1>4, <2>3, <2>4 DEF WillBeListed
<1>15. Sweep!SweptIsHeard'
  BY <1>1 DEF Sweep!SweptIsHeard
<1> QED BY <1>1, <1>7, <1>8, <1>10, <1>11, <1>13, <1>14, <1>15 DEF SweepInv

LEMMA EmitKeeps == ASSUME Sweep!StatSweepAssumption, SweepInv, Sweep!Emit PROVE SweepInv'
<1>1. /\ sweepStep = "emit" /\ sweepStep' = "rest" /\ sweepSweep' = Sweep!Rest
      /\ sweepHeard' = IF sweepSweep.report THEN sweepFile.content ELSE sweepHeard
      /\ UNCHANGED <<sweepKind, sweepNow, sweepWrites, sweepFile, sweepDirTime, sweepTouched,
                     sweepInPlace, sweepSeen, sweepSeenDir>>
  BY DEF Sweep!Emit, Sweep!Sweeping
<1>2. SweepType
  BY DEF SweepInv
<1>3. sweepSweep' \in Sweeps /\ ~sweepSweep'.report /\ sweepSweep'.stamp = Sweep!Gone
  BY <1>1 DEF Sweep!Rest, Sweeps
<1>4. SweepType'
  BY <1>1, <1>2, <1>3 DEF SweepType
<1>5. OldUnhashed'
  <2>1. sweepSeen # Sweep!Gone => sweepSeen.mtime \in Nat
    BY <1>2, Kinds
  <2>2. /\ sweepSweep.since \in Int /\ sweepSweep.since <= sweepNow - RacyWindow
        /\ sweepNow \in Nat /\ RacyWindow \in Nat
    BY <1>1, <1>2 DEF SweepType, Sweeps, Sweep!StatSweepAssumption
  <2> QED BY <1>1, <2>1, <2>2 DEF SweepInv, OldUnhashed
<1>6. GoneIsGone'
  <2>1. Sweep!Gone.content = Sweep!Unhashed /\ Sweep!Deleted.content = Sweep!Unhashed
    BY DEF Sweep!Gone, Sweep!Deleted
  <2> QED BY <1>1, <1>3, <2>1 DEF SweepInv, GoneIsGone
<1>7. WillDiffer' /\ Undisturbed'
  BY <1>1, <1>3 DEF SweepInv, WillDiffer, Differs, Sweep!There, Undisturbed
<1>8. sweepKind = "ref" => WillBeListed'
  BY <1>1, <1>3 DEF SweepInv, WillBeListed
<1>9. Sweep!SweptIsHeard'
  BY <1>1 DEF SweepInv, Undisturbed, Sweep!SweptIsHeard
<1> QED BY <1>1, <1>4, <1>5, <1>6, <1>7, <1>8, <1>9 DEF SweepInv

LEMMA StepSweep == ASSUME Sweep!StatSweepAssumption, SweepInv, [Sweep!Next]_(Sweep!vars) PROVE SweepInv'
<1>1. CASE UNCHANGED Sweep!vars
  BY <1>1
  DEF Sweep!vars, Sweep!fileVars, SweepInv, SweepType, OldUnhashed, GoneIsGone, WillDiffer,
      Differs,
      Undisturbed, Match, Sweep!There, WillBeListed, Sweep!SweptIsHeard
<1> QED
  BY <1>1, PassesKeeps, SweepChangeKeeps, BeginKeeps, StatDirKeeps, StatKeeps, DiffKeeps, EmitKeeps
  DEF Sweep!Next

(* SweptIsHeard: once a sweep is over the listener has read the file as it is, unless it
   has changed since the sweep began or is a ref rewritten in place since the last full
   one, whatever the granularity of timestamps within the racy window
   (watch_manager.cpp, sweep, changed, sweepRefs): by itself, and as the one component at
   work of several. *)
THEOREM SweepHears ==
  ASSUME Sweep!StatSweepAssumption
  PROVE  /\ Sweep!Spec => []Sweep!SweptIsHeard
         /\ (subject = "sweep" => Sweep!Spec) /\ [][UNCHANGED subject]_subject => []SweptIsHeard
<1>1. Sweep!Init => SweepInv
  BY InitSweep
<1>2. SweepInv /\ [Sweep!Next]_(Sweep!vars) => SweepInv'
  BY StepSweep
<1>3. SweepInv => Sweep!SweptIsHeard
  BY DEF SweepInv
<1>4. Sweep!Spec => []Sweep!SweptIsHeard
  BY <1>1, <1>2, <1>3, PTL DEF Sweep!Spec
<1>5. (subject = "sweep" => Sweep!Spec) /\ [][UNCHANGED subject]_subject => []SweptIsHeard
  <2>1. /\ ~ (subject = "sweep") /\ [UNCHANGED subject]_subject => ~ (subject = "sweep")'
        /\ ~ (subject = "sweep") => SweptIsHeard
        /\ Sweep!SweptIsHeard => SweptIsHeard
    BY DEF SweptIsHeard
  <2> QED  BY <1>4, <2>1, PTL
<1> QED  BY <1>4, <1>5

-----------------------------------------------------------------------------
(***************************************************************************)
(* WatchHub.  Every change of a watched tree is on its way to the          *)
(* listener, and the hub's tables are the kernel's, but for repositories   *)
(* that an overflow, a refusal or a directory gone in a walk cost a watch. *)
(***************************************************************************)
EventKinds == {"ref", "create", "delete", "ignored", "overflow"}
Event == [wd : Int, kind : EventKinds, name : Dirs]
Entry == [wd : Nat, repo : Repos, dir : Dirs]
Visited == [repo : Repos, dir : Dirs, step : {"watch", "list"}]

TreeType == watchInode \in [Dirs -> Nat] /\ watchChanges \in Nat \ {0}

KernelType ==
  /\ watchKernel \subseteq [wd : Nat, inode : Nat] /\ IsFiniteSet(watchKernel)
  /\ watchLastWd \in Nat /\ watchQueue \in Seq(Event)

HubType ==
  /\ watchRepos \subseteq Repos /\ watchAdding \subseteq Repos
  /\ watchWatchDirs \subseteq Entry /\ watchWalk \subseteq Visited /\ watchPartial \subseteq Repos

WatchType == TreeType /\ KernelType /\ HubType

(* A directory is made after the one it is in, and outlived by it. *)
Inodes ==
  /\ watchInode[Top] # 0
  /\ \A d \in Dirs : watchInode[d] <= watchChanges
  /\ \A c, d \in Dirs : watchInode[c] = watchInode[d] /\ watchInode[c] # 0 => c = d
  /\ \A d \in Dirs \ {Top} : watchInode[d] # 0 => watchInode[In(d)] # 0 /\ watchInode[In(d)] < watchInode[d]

(* A descriptor is of one inode and not handed out twice, and is read to have gone
   only after it has. *)
OneEach == \A k, l \in watchKernel : k.wd = l.wd <=> k.inode = l.inode
NoneNewer ==
  /\ \A k \in watchKernel : k.wd <= watchLastWd
  /\ \A i \in DOMAIN watchQueue : watchQueue[i].kind = "ignored" =>
       watchQueue[i].wd <= watchLastWd /\ \A k \in watchKernel : k.wd # watchQueue[i].wd
  /\ \A e \in watchWatchDirs : e.wd <= watchLastWd
Descriptors == OneEach /\ NoneNewer

(* What the hub knows is what the kernel holds, or is about to be read to have gone,
   unless it has lost something of the repository. *)
Kept == (watchRepos \cup watchAdding) \ watchPartial
KernelKnown == \A k \in watchKernel : \E e \in watchWatchDirs : e.wd = k.wd
Alive(e) ==
  \/ \E k \in watchKernel : k.wd = e.wd
  \/ \E i \in DOMAIN watchQueue : watchQueue[i].kind = "ignored" /\ watchQueue[i].wd = e.wd
EntriesAlive ==
  \A e \in watchWatchDirs :
    e.repo \in watchRepos \cup watchAdding /\ (e.repo \in Kept => Alive(e))
Known == KernelKnown /\ EntriesAlive

(* A tree is walked for a repository being added, or for one told of a change. *)
Walks ==
  /\ \A v \in watchWalk :
       v.repo \in watchAdding \/ (v.repo \in watchRepos /\ v.repo \in watchPending)
  /\ watchAdding # {} => watchWalk # {}
  /\ watchAdding \cap watchRepos = {}

(* No directory is missed: below one that is watched, each one is watched, about to be
   watched or listed, or told of by an event not yet read. *)
Covered(r, d) == \E e \in watchWatchDirs : e.repo = r /\ e.dir = d /\ e.wd \in Watch!WdsOf(watchInode[d])
Walked(r, d) == \E v \in watchWalk : v.repo = r /\ v.dir = d /\ v.step = "watch"
Opened(r, d) == \E v \in watchWalk : v.repo = r /\ v.dir = d /\ v.step = "list"
Told(d) ==
  \E i \in DOMAIN watchQueue :
    watchQueue[i].kind = "create" /\ watchQueue[i].name = d /\ watchQueue[i].wd \in Watch!WdsOf(watchInode[In(d)])

TopReached == \A r \in Kept : Covered(r, Top) \/ Walked(r, Top)
RestReached ==
  \A r \in Kept, d \in Dirs \ {Top} :
    watchInode[d] # 0 /\ Covered(r, In(d)) =>
      Covered(r, d) \/ Walked(r, d) \/ Opened(r, In(d)) \/ Told(d)
Reached == TopReached /\ RestReached

(* A listener not called since a change will be: its repository is pending or due, or
   an event not yet read makes it so. *)
Carries(i, e) ==
  /\ watchQueue[i].kind # "ignored" /\ e.wd = watchQueue[i].wd
  /\ \A j \in 1 .. i - 1 : watchQueue[j].kind = "ignored" => watchQueue[j].wd # e.wd
Coming(r) == \E i \in DOMAIN watchQueue : \E e \in watchWatchDirs : e.repo = r /\ Carries(i, e)
InFlight == \A r \in watchUnseen : r \in watchPending \cup watchDue \/ Coming(r)

HubInv == WatchType /\ Inodes /\ Descriptors /\ Known /\ Walks /\ Reached /\ InFlight

-----------------------------------------------------------------------------
(* The first directory not watched for a repository is Top or in one that is. *)
LEMMA FirstUncovered ==
  ASSUME Watch!WatchHubAssumption, TreeType, Inodes, NEW r, NEW d \in Dirs, watchInode[d] # 0,
         ~ Covered(r, d)
  PROVE  \E x \in Dirs : /\ watchInode[x] # 0 /\ ~ Covered(r, x)
                         /\ x = Top \/ Covered(r, In(x))
<1> DEFINE S == {watchInode[x] : x \in {y \in Dirs : watchInode[y] # 0 /\ ~ Covered(r, y)}}
<1>1. S \in SUBSET Nat /\ S # {}
  BY DEF TreeType
<1>2. PICK m \in S : \A n \in S : m <= n
  BY <1>1, Least
<1>3. PICK x \in Dirs : watchInode[x] = m /\ watchInode[x] # 0 /\ ~ Covered(r, x)
  BY <1>2
<1>4. ASSUME x # Top, ~ Covered(r, In(x)) PROVE FALSE
  <2>1. In(x) \in Dirs /\ watchInode[In(x)] # 0 /\ watchInode[In(x)] < watchInode[x]
    BY <1>3, <1>4 DEF Watch!WatchHubAssumption, Inodes
  <2>2. watchInode[In(x)] \in S
    BY <1>4, <2>1
  <2>3. m <= watchInode[In(x)]
    BY <1>2, <2>2
  <2>4. watchInode[In(x)] \in Nat /\ m \in Nat /\ m = watchInode[x]
    BY <1>3, <2>1 DEF TreeType
  <2> QED  BY <2>1, <2>3, <2>4
<1> QED  BY <1>3, <1>4

(* An unwatched directory of a watched repository is about to be walked, or told of. *)
LEMMA UncoveredComes ==
  ASSUME Watch!WatchHubAssumption, HubInv, NEW r \in watchRepos \ watchPartial, NEW d \in Dirs,
         watchInode[d] # 0, ~ Covered(r, d)
  PROVE  r \in watchPending \/ Coming(r)
<1>1. PICK x \in Dirs : watchInode[x] # 0 /\ ~ Covered(r, x) /\ (x = Top \/ Covered(r, In(x)))
  BY FirstUncovered DEF HubInv, WatchType
<1>2. CASE Walked(r, x) \/ Opened(r, In(x))
  BY <1>2 DEF HubInv, Walks, Walked, Opened
<1>3. CASE ~ (Walked(r, x) \/ Opened(r, In(x)))
  <2>1. x # Top /\ Covered(r, In(x)) /\ Told(x)
    BY <1>1, <1>3 DEF HubInv, Reached, TopReached, RestReached, Kept
  <2>2. PICK e \in watchWatchDirs : e.repo = r /\ e.wd \in Watch!WdsOf(watchInode[In(x)])
    BY <2>1 DEF Covered
  <2>3. PICK i \in DOMAIN watchQueue : watchQueue[i].kind = "create" /\ watchQueue[i].wd \in Watch!WdsOf(watchInode[In(x)])
    BY <2>1 DEF Told
  <2>4. e.wd = watchQueue[i].wd /\ \E k \in watchKernel : k.wd = e.wd
    BY <2>2, <2>3 DEF Watch!WdsOf, HubInv, Descriptors, OneEach
  <2>5. \A j \in 1 .. i - 1 : watchQueue[j].kind = "ignored" => watchQueue[j].wd # e.wd
    <3>1. \A j \in 1 .. i - 1 : j \in DOMAIN watchQueue
      BY <2>3 DEF HubInv, WatchType, KernelType
    <3> QED  BY <2>4, <3>1 DEF HubInv, Descriptors, NoneNewer
  <2> QED  BY <2>2, <2>3, <2>4, <2>5 DEF Coming, Carries
<1> QED  BY <1>2, <1>3

-----------------------------------------------------------------------------
LEMMA Appended ==
  ASSUME KernelType, NEW evs \in Seq(Event), watchQueue' = watchQueue \o evs
  PROVE  /\ watchQueue' \in Seq(Event) /\ Len(watchQueue) \in Nat /\ DOMAIN watchQueue = 1 .. Len(watchQueue)
         /\ \A i \in DOMAIN watchQueue : i \in DOMAIN watchQueue' /\ watchQueue'[i] = watchQueue[i]
         /\ \A j \in DOMAIN evs : Len(watchQueue) + j \in DOMAIN watchQueue' /\ watchQueue'[Len(watchQueue) + j] = evs[j]
         /\ \A i \in DOMAIN watchQueue' :
              i \in DOMAIN watchQueue \/ \E j \in DOMAIN evs : i = Len(watchQueue) + j /\ watchQueue'[i] = evs[j]
<1>1. watchQueue \in Seq(Event)
  BY DEF KernelType
<1>2. /\ watchQueue' \in Seq(Event) /\ Len(watchQueue') = Len(watchQueue) + Len(evs)
      /\ \A i \in 1 .. Len(watchQueue) + Len(evs) :
           watchQueue'[i] = IF i <= Len(watchQueue) THEN watchQueue[i] ELSE evs[i - Len(watchQueue)]
  BY <1>1, ConcatProperties
<1>3. /\ Len(watchQueue) \in Nat /\ Len(evs) \in Nat /\ DOMAIN watchQueue = 1 .. Len(watchQueue)
      /\ DOMAIN evs = 1 .. Len(evs) /\ DOMAIN watchQueue' = 1 .. Len(watchQueue) + Len(evs)
  BY <1>1, <1>2
<1>4. ASSUME NEW i \in DOMAIN watchQueue', i \notin DOMAIN watchQueue
      PROVE  \E j \in DOMAIN evs : i = Len(watchQueue) + j /\ watchQueue'[i] = evs[j]
  <2>1. /\ i - Len(watchQueue) \in DOMAIN evs /\ i = Len(watchQueue) + (i - Len(watchQueue))
        /\ ~ i <= Len(watchQueue)
    BY <1>3, <1>4
  <2> QED  BY <1>2, <1>3, <2>1
<1>5. \A j \in DOMAIN evs : Len(watchQueue) + j \in DOMAIN watchQueue' /\ watchQueue'[Len(watchQueue) + j] = evs[j]
  BY <1>2, <1>3
<1> QED  BY <1>2, <1>3, <1>4, <1>5

(* A queue that is full takes fewer, and the event that says so. *)
LEMMA PutAppends ==
  ASSUME Watch!WatchHubAssumption, KernelType, NEW evs \in Seq(Event), watchQueue' = Watch!Put(evs)
  PROVE  \E more \in Seq(Event) :
           /\ watchQueue' = watchQueue \o more
           /\ Watch!Room(evs) => more = evs
           /\ \A j \in DOMAIN more : more[j].kind = "overflow" \/ \E i \in DOMAIN evs : more[j] = evs[i]
<1>1. CASE Watch!Room(evs)
  BY <1>1 DEF Watch!Put
<1>2. CASE ~ Watch!Room(evs)
  <2> DEFINE n == QueueLimit - Len(watchQueue)
             some == SubSeq(evs, 1, n)
             note == IF Watch!Overflow \in Watch!ToSet(watchQueue) THEN << >> ELSE <<Watch!Overflow>>
             more == some \o note
  <2>1. n \in Int /\ n < Len(evs)
    BY <1>2 DEF KernelType, Watch!WatchHubAssumption, Watch!Room
  <2> HIDE DEF n
  <2>2. /\ some \in Seq(Event) /\ Len(some) = IF 1 <= n THEN n - 1 + 1 ELSE 0
        /\ \A i \in 1 .. n - 1 + 1 : some[i] = evs[1 + i - 1]
    BY <2>1, SubSeqProperties
  <2>3. \A i \in 1 .. Len(some) : \E j \in DOMAIN evs : some[i] = evs[j]
    BY <2>1, <2>2
  <2>4. Watch!Overflow \in Event /\ Watch!Overflow.kind = "overflow"
    BY DEF Watch!Overflow, Event, EventKinds, Watch!WatchHubAssumption
  <2>5. note \in Seq(Event) /\ \A i \in 1 .. Len(note) : note[i].kind = "overflow"
    <3> HIDE DEF note
    <3>1. note = << >> \/ note = <<Watch!Overflow>>
      BY DEF note
    <3>2. PICK o \in Event : o = Watch!Overflow /\ o.kind = "overflow"
      BY <2>4
    <3>3. CASE note = <<o>>
      <4>1. <<o>> \in Seq(Event) /\ \A i \in 1 .. Len(<<o>>) : <<o>>[i] = o
        OBVIOUS
      <4> QED  BY <3>2, <3>3, <4>1
    <3>4. CASE note = << >>
      BY <3>4
    <3> QED  BY <3>1, <3>2, <3>3, <3>4
  <2>6. watchQueue' = watchQueue \o more
    BY <1>2 DEF Watch!Put, n
  <2> HIDE DEF some, note
  <2>7. /\ more \in Seq(Event) /\ Len(more) = Len(some) + Len(note)
        /\ \A i \in 1 .. Len(some) + Len(note) :
             more[i] = IF i <= Len(some) THEN some[i] ELSE note[i - Len(some)]
    BY <2>2, <2>5, ConcatProperties
  <2>8. ASSUME NEW j \in DOMAIN more
        PROVE  more[j].kind = "overflow" \/ \E i \in DOMAIN evs : more[j] = evs[i]
    <3>1. j \in 1 .. Len(some) + Len(note) /\ Len(some) \in Nat /\ Len(note) \in Nat
      BY <2>2, <2>5, <2>7, <2>8
    <3>2. CASE j <= Len(some)
      BY <2>3, <2>7, <3>1, <3>2
    <3>3. CASE ~ j <= Len(some)
      <4>1. j - Len(some) \in 1 .. Len(note)
        BY <3>1, <3>3
      <4> QED  BY <2>5, <2>7, <3>1, <3>3, <4>1
    <3> QED  BY <3>2, <3>3
  <2> HIDE DEF more
  <2> QED  BY <1>2, <2>6, <2>7, <2>8
<1> QED  BY <1>1, <1>2

LEMMA Shifted ==
  ASSUME KernelType, watchQueue # << >>, watchQueue' = Tail(watchQueue)
  PROVE  /\ watchQueue' \in Seq(Event)
         /\ 1 \in DOMAIN watchQueue /\ Head(watchQueue) = watchQueue[1]
         /\ \A i \in DOMAIN watchQueue' : i + 1 \in DOMAIN watchQueue /\ watchQueue'[i] = watchQueue[i + 1]
         /\ \A i \in DOMAIN watchQueue : i = 1 \/ (i - 1 \in DOMAIN watchQueue' /\ watchQueue'[i - 1] = watchQueue[i])
<1>1. watchQueue \in Seq(Event)
  BY DEF KernelType
<1>2. /\ watchQueue' \in Seq(Event) /\ Len(watchQueue') = Len(watchQueue) - 1
      /\ Len(watchQueue) \in Nat \ {0}
      /\ \A i \in 1 .. Len(watchQueue) - 1 : watchQueue'[i] = watchQueue[i + 1]
  BY <1>1
<1>3. DOMAIN watchQueue = 1 .. Len(watchQueue) /\ DOMAIN watchQueue' = 1 .. Len(watchQueue) - 1
  BY <1>1, <1>2
<1>4. Head(watchQueue) = watchQueue[1]
  BY <1>1
<1> QED  BY <1>2, <1>3, <1>4

LEMMA Joined ==
  ASSUME NEW s \in Seq(Event), NEW t \in Seq(Event)
  PROVE  /\ s \o t \in Seq(Event)
         /\ \A j \in DOMAIN (s \o t) : (\E i \in DOMAIN s : (s \o t)[j] = s[i]) \/ (\E i \in DOMAIN t : (s \o t)[j] = t[i])
         /\ \A i \in DOMAIN t : \E j \in DOMAIN (s \o t) : (s \o t)[j] = t[i]
         /\ 1 \in DOMAIN s => 1 \in DOMAIN (s \o t) /\ (s \o t)[1] = s[1]
<1> DEFINE all == s \o t
<1>1. /\ all \in Seq(Event) /\ Len(all) = Len(s) + Len(t)
      /\ \A i \in 1 .. Len(s) + Len(t) : all[i] = IF i <= Len(s) THEN s[i] ELSE t[i - Len(s)]
  BY ConcatProperties
<1> HIDE DEF all
<1>2. /\ Len(s) \in Nat /\ Len(t) \in Nat /\ DOMAIN s = 1 .. Len(s) /\ DOMAIN t = 1 .. Len(t)
      /\ DOMAIN all = 1 .. Len(s) + Len(t)
  BY <1>1
<1>3. ASSUME NEW j \in DOMAIN all PROVE (\E i \in DOMAIN s : all[j] = s[i]) \/ (\E i \in DOMAIN t : all[j] = t[i])
  <2>1. CASE j <= Len(s)
    BY <1>1, <1>2, <1>3, <2>1
  <2>2. CASE ~ j <= Len(s)
    <3>1. j - Len(s) \in DOMAIN t
      BY <1>2, <1>3, <2>2
    <3> QED  BY <1>1, <1>2, <1>3, <2>2, <3>1
  <2> QED  BY <2>1, <2>2
<1>4. ASSUME NEW i \in DOMAIN t PROVE \E j \in DOMAIN all : all[j] = t[i]
  <2>1. PICK m \in Int : m = Len(s) + i
    BY <1>2, <1>4
  <2>2. m \in DOMAIN all /\ ~ m <= Len(s) /\ m - Len(s) = i
    BY <1>2, <1>4, <2>1
  <2> QED  BY <1>1, <1>2, <2>2
<1>5. 1 \in DOMAIN s => 1 \in DOMAIN all /\ all[1] = s[1]
  BY <1>1, <1>2
<1> QED  BY <1>1, <1>3, <1>4, <1>5 DEF all

LEMMA EventsAre ==
  ASSUME TreeType, KernelType, NEW d \in Dirs, NEW name \in Dirs,
         NEW kind \in EventKinds
  PROVE  /\ Watch!Events(d, kind, name) \in Seq(Event)
         /\ \A i \in DOMAIN Watch!Events(d, kind, name) :
              /\ Watch!Events(d, kind, name)[i].kind = kind
              /\ Watch!Events(d, kind, name)[i].name = name
              /\ Watch!Events(d, kind, name)[i].wd \in Watch!WdsOf(watchInode[d])
         /\ Watch!WdsOf(watchInode[d]) # {} => 1 \in DOMAIN Watch!Events(d, kind, name)
<1>1. CASE Watch!WdsOf(watchInode[d]) = {}
  BY <1>1 DEF Watch!Events
<1>2. CASE Watch!WdsOf(watchInode[d]) # {}
  <2> DEFINE w == CHOOSE w \in Watch!WdsOf(watchInode[d]) : TRUE
             e == [wd |-> w, kind |-> kind, name |-> name]
  <2>1. w \in Watch!WdsOf(watchInode[d])
    BY <1>2
  <2>2. w \in Nat
    BY <2>1 DEF Watch!WdsOf, KernelType
  <2>3. e \in Event /\ e.kind = kind /\ e.name = name /\ e.wd = w
    BY <2>2 DEF Event
  <2>4. Watch!Events(d, kind, name) = <<e>>
    BY <1>2 DEF Watch!Events
  <2> HIDE DEF e, w
  <2> QED  BY <2>1, <2>3, <2>4
<1> QED  BY <1>1, <1>2

(* What was coming still comes when events are added. *)
LEMMA StillComing ==
  ASSUME KernelType, NEW evs \in Seq(Event), watchQueue' = watchQueue \o evs, NEW r, Coming(r),
         \A e \in watchWatchDirs : e.repo = r => e \in watchWatchDirs'
  PROVE  Coming(r)'
<1>1. PICK i \in DOMAIN watchQueue, e \in watchWatchDirs : e.repo = r /\ Carries(i, e)
  BY DEF Coming
<1>2. i \in DOMAIN watchQueue' /\ watchQueue'[i] = watchQueue[i]
  BY Appended
<1>3. \A j \in 1 .. i - 1 : j \in DOMAIN watchQueue /\ watchQueue'[j] = watchQueue[j]
  <2>1. \A j \in 1 .. i - 1 : j \in DOMAIN watchQueue
    BY Appended
  <2> QED  BY <2>1, Appended
<1>4. Carries(i, e)'
  BY <1>1, <1>2, <1>3 DEF Carries
<1> QED  BY <1>1, <1>2, <1>4 DEF Coming

(* A change in a directory comes to every repository that watches it, or the tree. *)
LEMMA ChangeComes ==
  ASSUME Watch!WatchHubAssumption, HubInv, NEW x \in Dirs, watchInode[x] # 0, NEW evs \in Seq(Event),
         watchQueue' = watchQueue \o evs, watchWatchDirs' = watchWatchDirs,
         Watch!WdsOf(watchInode[x]) # {} =>
           1 \in DOMAIN evs /\ evs[1].kind # "ignored" /\ evs[1].wd \in Watch!WdsOf(watchInode[x]),
         NEW r \in watchRepos, r \notin watchPartial \/ Watch!Watches(r, x)
  PROVE  r \in watchPending \/ Coming(r)'
<1>0. TreeType /\ KernelType
  BY DEF HubInv, WatchType
<1>1. Covered(r, x) => Watch!Watches(r, x)
  BY DEF Covered, Watch!Watches
<1>2. CASE ~ Watch!Watches(r, x)
  BY <1>0, <1>1, <1>2, UncoveredComes, StillComing
<1>3. CASE Watch!Watches(r, x)
  <2>1. PICK e \in watchWatchDirs : e.repo = r /\ e.wd \in Watch!WdsOf(watchInode[x])
    BY <1>3 DEF Watch!Watches
  <2>2. 1 \in DOMAIN evs /\ evs[1].kind # "ignored" /\ evs[1].wd \in Watch!WdsOf(watchInode[x])
    BY <2>1
  <2>3. PICK n \in Nat : n = Len(watchQueue) + 1
    BY <1>0 DEF KernelType
  <2>4. n \in DOMAIN watchQueue' /\ watchQueue'[n] = evs[1]
    BY <1>0, <2>2, <2>3, Appended
  <2>5. evs[1].wd = e.wd /\ \E k \in watchKernel : k.wd = e.wd
    BY <2>1, <2>2 DEF Watch!WdsOf, HubInv, Descriptors, OneEach
  <2>6. \A j \in 1 .. n - 1 : j \in DOMAIN watchQueue /\ watchQueue'[j] = watchQueue[j]
    <3>1. \A j \in 1 .. n - 1 : j \in DOMAIN watchQueue
      BY <1>0, <2>3, Appended
    <3> QED  BY <1>0, <3>1, Appended
  <2>7. \A j \in 1 .. n - 1 : watchQueue'[j].kind = "ignored" => watchQueue'[j].wd # e.wd
    BY <2>5, <2>6 DEF HubInv, Descriptors, NoneNewer
  <2>8. Carries(n, e)'
    BY <2>2, <2>4, <2>5, <2>7 DEF Carries
  <2> QED  BY <2>1, <2>4, <2>8 DEF Coming
<1> QED  BY <1>2, <1>3

-----------------------------------------------------------------------------
LEMMA InitHub == ASSUME Watch!WatchHubAssumption, Watch!Init PROVE HubInv
<1>1. TreeType /\ Inodes
  BY DEF Watch!Init, TreeType, Inodes, Watch!WatchHubAssumption
<1>2. KernelType /\ HubType
  <2>1. IsFiniteSet(watchKernel)
    BY FS_EmptySet, Zenon DEF Watch!Init
  <2> QED  BY <2>1 DEF Watch!Init, KernelType, HubType
<1> QED  BY <1>1, <1>2 DEF Watch!Init, HubInv, WatchType, Descriptors, OneEach, NoneNewer, Known,
    KernelKnown, EntriesAlive, Walks, Reached, TopReached, RestReached, InFlight, Kept

(* What a change of the file system leaves to see to: every event is told in a
   directory there is, and the hub's own state stays. *)
LEMMA WatchChangeKeeps ==
  ASSUME Watch!WatchHubAssumption, HubInv, NEW x \in Dirs, watchInode[x] # 0, NEW evs \in Seq(Event),
         Watch!Changed(x, evs),
         Watch!WdsOf(watchInode[x]) # {} =>
           1 \in DOMAIN evs /\ evs[1].kind # "ignored" /\ evs[1].wd \in Watch!WdsOf(watchInode[x]),
         \A j \in DOMAIN evs : evs[j].kind = "ignored" =>
           evs[j].wd <= watchLastWd /\ \A k \in watchKernel' : k.wd # evs[j].wd,
         watchKernel' \subseteq watchKernel,
         \A k \in watchKernel \ watchKernel' :
           \E j \in DOMAIN evs : evs[j].kind = "ignored" /\ evs[j].wd = k.wd
  PROVE  /\ KernelType' /\ HubType' /\ Descriptors' /\ Known' /\ Walks' /\ InFlight'
         /\ \A i \in DOMAIN watchQueue : i \in DOMAIN watchQueue' /\ watchQueue'[i] = watchQueue[i]
         /\ Kept' \subseteq Kept /\ (Kept' # {} => watchQueue' = watchQueue \o evs)
<1>0. /\ TreeType /\ KernelType /\ HubType
      /\ watchQueue' = Watch!Put(evs) /\ watchChanges' = watchChanges + 1
      /\ watchLastWd' = watchLastWd /\ watchRepos' = watchRepos /\ watchWatchDirs' = watchWatchDirs
      /\ watchWalk' = watchWalk
      /\ watchAdding' = watchAdding /\ watchPending' = watchPending /\ watchDue' = watchDue
  BY DEF HubInv, WatchType, Watch!Changed, Watch!hubVars
<1>1. /\ watchUnseen' = IF Watch!Room(evs)
           THEN watchUnseen \cup {r \in watchRepos : r \notin watchPartial \/ Watch!Watches(r, x)}
           ELSE watchUnseen
      /\ watchPartial' = IF Watch!Room(evs) THEN watchPartial
                         ELSE watchPartial \cup watchRepos \cup watchAdding
  BY DEF Watch!Changed
<1>2. PICK more \in Seq(Event) :
        /\ watchQueue' = watchQueue \o more
        /\ Watch!Room(evs) => more = evs
        /\ \A j \in DOMAIN more : more[j].kind = "overflow" \/ \E i \in DOMAIN evs : more[j] = evs[i]
  BY <1>0, PutAppends
<1>3. Kept' \subseteq Kept /\ (Kept' # {} => Watch!Room(evs))
  BY <1>0, <1>1 DEF Kept
<1>4. /\ watchQueue' \in Seq(Event)
      /\ \A i \in DOMAIN watchQueue : i \in DOMAIN watchQueue' /\ watchQueue'[i] = watchQueue[i]
      /\ \A i \in DOMAIN watchQueue' : i \in DOMAIN watchQueue \/ \E j \in DOMAIN more : watchQueue'[i] = more[j]
      /\ \A j \in DOMAIN more : \E i \in DOMAIN watchQueue' : watchQueue'[i] = more[j]
  <2>1. /\ watchQueue' \in Seq(Event)
        /\ \A i \in DOMAIN watchQueue : i \in DOMAIN watchQueue' /\ watchQueue'[i] = watchQueue[i]
    BY <1>0, <1>2, Appended
  <2>3. \A i \in DOMAIN watchQueue' :
          i \in DOMAIN watchQueue
            \/ \E j \in DOMAIN more : i = Len(watchQueue) + j /\ watchQueue'[i] = more[j]
    BY <1>0, <1>2, Appended
  <2>2. \A j \in DOMAIN more :
          Len(watchQueue) + j \in DOMAIN watchQueue' /\ watchQueue'[Len(watchQueue) + j] = more[j]
    BY <1>0, <1>2, Appended
  <2>4. \A i \in DOMAIN watchQueue' : i \in DOMAIN watchQueue \/ \E j \in DOMAIN more : watchQueue'[i] = more[j]
    BY <2>3
  <2>5. \A j \in DOMAIN more : \E i \in DOMAIN watchQueue' : watchQueue'[i] = more[j]
    BY <2>2
  <2> QED  BY <2>1, <2>4, <2>5
<1>5. KernelType' /\ HubType'
  <2>1. IsFiniteSet(watchKernel')
    BY <1>0, FS_Subset DEF KernelType
  <2>2. watchPartial' \subseteq Repos
    BY <1>0, <1>1 DEF HubType
  <2> QED  BY <1>0, <1>4, <2>1, <2>2 DEF KernelType, HubType
<1>6. Descriptors'
  <2>1. OneEach'
    BY DEF HubInv, Descriptors, OneEach
  <2>2. ASSUME NEW i \in DOMAIN watchQueue', watchQueue'[i].kind = "ignored"
        PROVE  watchQueue'[i].wd <= watchLastWd /\ \A k \in watchKernel' : k.wd # watchQueue'[i].wd
    <3>1. CASE i \in DOMAIN watchQueue
      BY <1>4, <2>2, <3>1 DEF HubInv, Descriptors, NoneNewer
    <3>2. CASE i \notin DOMAIN watchQueue
      <4>1. PICK j \in DOMAIN more : watchQueue'[i] = more[j]
        BY <1>4, <3>2
      <4>2. PICK m \in DOMAIN evs : watchQueue'[i] = evs[m]
        BY <1>2, <2>2, <4>1
      <4> QED  BY <2>2, <4>2
    <3> QED  BY <3>1, <3>2
  <2>3. NoneNewer'
    BY <1>0, <2>2 DEF HubInv, Descriptors, NoneNewer
  <2> QED  BY <2>1, <2>3 DEF Descriptors
<1>7. Known'
  <2>1. KernelKnown'
    BY <1>0 DEF HubInv, Known, KernelKnown
  <2>2. ASSUME NEW e \in watchWatchDirs, e.repo \in Kept' PROVE Alive(e)'
    <3>1. CASE \E i \in DOMAIN watchQueue : watchQueue[i].kind = "ignored" /\ watchQueue[i].wd = e.wd
      BY <1>4, <3>1 DEF Alive
    <3>2. ASSUME NEW k \in watchKernel, k.wd = e.wd PROVE Alive(e)'
      <4>1. CASE k \in watchKernel'
        BY <3>2, <4>1 DEF Alive
      <4>2. CASE k \notin watchKernel'
        <5>1. PICK j \in DOMAIN evs : evs[j].kind = "ignored" /\ evs[j].wd = k.wd
          BY <4>2
        <5>2. more = evs
          BY <1>2, <1>3, <2>2
        <5>3. PICK i \in DOMAIN watchQueue' : watchQueue'[i] = evs[j]
          BY <1>4, <5>2
        <5> QED  BY <3>2, <5>1, <5>3 DEF Alive
      <4> QED  BY <4>1, <4>2
    <3> QED  BY <1>3, <2>2, <3>1, <3>2 DEF HubInv, Known, EntriesAlive, Alive
  <2>3. EntriesAlive'
    BY <1>0, <2>2 DEF HubInv, Known, EntriesAlive
  <2> QED  BY <2>1, <2>3 DEF Known
<1>8. Walks'
  BY <1>0 DEF HubInv, Walks
<1>9. InFlight'
  <2>1. ASSUME NEW r \in watchUnseen PROVE r \in watchPending \cup watchDue \/ Coming(r)'
    BY <1>0, <1>2, StillComing DEF HubInv, InFlight
  <2>2. ASSUME Watch!Room(evs), NEW r \in watchRepos, r \notin watchPartial \/ Watch!Watches(r, x)
        PROVE  r \in watchPending \/ Coming(r)'
    <3>1. watchQueue' = watchQueue \o evs
      BY <1>2, <2>2
    <3> QED  BY <1>0, <2>2, <3>1, ChangeComes
  <2> QED  BY <1>0, <1>1, <2>1, <2>2 DEF InFlight
<1> QED  BY <1>2, <1>3, <1>4, <1>5, <1>6, <1>7, <1>8, <1>9

LEMMA WriteRefKeeps ==
  ASSUME Watch!WatchHubAssumption, HubInv, NEW d \in Dirs, Watch!WriteRef(d) PROVE HubInv'
<1> DEFINE evs == Watch!Events(d, "ref", d)
<1>1. watchInode[d] # 0 /\ Watch!Changed(d, evs) /\ watchInode' = watchInode /\ watchKernel' = watchKernel
  BY DEF Watch!WriteRef
<1>2. /\ evs \in Seq(Event) /\ \A j \in DOMAIN evs : evs[j].kind = "ref"
      /\ Watch!WdsOf(watchInode[d]) # {} =>
           1 \in DOMAIN evs /\ evs[1].kind = "ref" /\ evs[1].wd \in Watch!WdsOf(watchInode[d])
  <2>1. "ref" \in EventKinds
    BY DEF EventKinds
  <2>2. evs \in Seq(Event) /\ (Watch!WdsOf(watchInode[d]) # {} => 1 \in DOMAIN evs)
    BY <2>1, EventsAre DEF HubInv, WatchType
  <2>3. \A j \in DOMAIN evs : evs[j].kind = "ref" /\ evs[j].wd \in Watch!WdsOf(watchInode[d])
    BY <2>1, EventsAre DEF HubInv, WatchType
  <2> QED  BY <2>2, <2>3
<1> HIDE DEF evs
<1>3. /\ KernelType' /\ HubType' /\ Descriptors' /\ Known' /\ Walks' /\ InFlight'
      /\ \A i \in DOMAIN watchQueue : i \in DOMAIN watchQueue' /\ watchQueue'[i] = watchQueue[i]
      /\ Kept' \subseteq Kept
  BY <1>1, <1>2, WatchChangeKeeps
<1>4. TreeType' /\ Inodes'
  BY <1>1 DEF HubInv, WatchType, TreeType, Inodes, Watch!Changed
<1>5. watchWatchDirs' = watchWatchDirs /\ watchWalk' = watchWalk
  BY <1>1 DEF Watch!Changed, Watch!hubVars
<1>6. /\ \A r, c : Covered(r, c)' <=> Covered(r, c)
      /\ \A r, c : (Walked(r, c)' <=> Walked(r, c)) /\ (Opened(r, c)' <=> Opened(r, c))
      /\ \A c : Told(c) => Told(c)'
  BY <1>1, <1>3, <1>5 DEF Covered, Walked, Opened, Told, Watch!WdsOf
<1>7. TopReached' /\ RestReached'
  BY <1>1, <1>3, <1>6 DEF HubInv, Reached, TopReached, RestReached
<1> QED  BY <1>3, <1>4, <1>7 DEF HubInv, WatchType, Reached

LEMMA MakeDirKeeps ==
  ASSUME Watch!WatchHubAssumption, HubInv, NEW d \in Dirs, Watch!MakeDir(d) PROVE HubInv'
<1> DEFINE up == In(d)
           one == Watch!Events(up, "create", d)
<1>1. /\ d # Top /\ watchInode[d] = 0 /\ up \in Dirs /\ watchInode[up] # 0 /\ Watch!Changed(up, one)
      /\ up # d
      /\ watchInode' = [watchInode EXCEPT ![d] = watchChanges + 1]
      /\ watchKernel' = watchKernel
  BY DEF Watch!MakeDir, Watch!Changed, Watch!WatchHubAssumption
<1>0. /\ watchRepos' = watchRepos /\ watchAdding' = watchAdding /\ watchWatchDirs' = watchWatchDirs
      /\ watchWalk' = watchWalk
      /\ watchChanges' = watchChanges + 1
  BY <1>1 DEF Watch!Changed, Watch!hubVars
<1>2. /\ watchInode \in [Dirs -> Nat] /\ watchChanges \in Nat \ {0}
      /\ watchInode'[d] = watchChanges + 1 /\ \A c \in Dirs \ {d} : watchInode'[c] = watchInode[c]
  BY <1>1 DEF HubInv, WatchType, TreeType
<1>20. /\ one \in Seq(Event) /\ \A j \in DOMAIN one : one[j].kind = "create" /\ one[j].name = d
       /\ Watch!WdsOf(watchInode[up]) # {} =>
            1 \in DOMAIN one /\ one[1].kind = "create" /\ one[1].wd \in Watch!WdsOf(watchInode[up])
  <2>1. "create" \in EventKinds
    BY DEF EventKinds
  <2>2. one \in Seq(Event) /\ (Watch!WdsOf(watchInode[up]) # {} => 1 \in DOMAIN one)
    BY <1>1, <2>1, EventsAre DEF HubInv, WatchType
  <2>3. \A j \in DOMAIN one : one[j].kind = "create" /\ one[j].name = d /\ one[j].wd \in Watch!WdsOf(watchInode[up])
    BY <1>1, <2>1, EventsAre DEF HubInv, WatchType
  <2> QED  BY <2>2, <2>3
<1> HIDE DEF one
<1>3. /\ KernelType' /\ HubType' /\ Descriptors' /\ Known' /\ Walks' /\ InFlight'
      /\ \A i \in DOMAIN watchQueue : i \in DOMAIN watchQueue' /\ watchQueue'[i] = watchQueue[i]
      /\ Kept' \subseteq Kept /\ (Kept' # {} => watchQueue' = watchQueue \o one)
  BY <1>1, <1>20, WatchChangeKeeps
<1>4. TreeType'
  BY <1>1, <1>2, <1>0 DEF TreeType
<1>5. \A c \in Dirs \ {Top} : watchInode[c] # 0 => In(c) \in Dirs /\ In(c) # d
  BY <1>1 DEF HubInv, Inodes, Watch!WatchHubAssumption
<1>6. Inodes'
  <2>1. watchInode'[Top] # 0
    BY <1>1, <1>2 DEF HubInv, Inodes, Watch!WatchHubAssumption
  <2>2. \A c \in Dirs : watchInode'[c] <= watchChanges + 1
    BY <1>2 DEF HubInv, Inodes
  <2>3. ASSUME NEW c \in Dirs, NEW e \in Dirs, watchInode'[c] = watchInode'[e],
               watchInode'[c] # 0 PROVE c = e
    BY <1>2, <2>3 DEF HubInv, Inodes
  <2>4. ASSUME NEW c \in Dirs \ {Top}, watchInode'[c] # 0
        PROVE  watchInode'[In(c)] # 0 /\ watchInode'[In(c)] < watchInode'[c]
    <3>1. CASE c = d
      BY <1>1, <1>2, <3>1 DEF HubInv, Inodes
    <3>2. CASE c # d
      BY <1>2, <1>5, <2>4, <3>2 DEF HubInv, Inodes
    <3> QED  BY <3>1, <3>2
  <2> QED  BY <1>0, <2>1, <2>2, <2>3, <2>4 DEF Inodes
<1>7. ASSUME NEW r, NEW c \in Dirs \ {d} PROVE Covered(r, c)' <=> Covered(r, c)
  BY <1>0, <1>1, <1>2 DEF Covered, Watch!WdsOf
<1>8. \A r, c : (Walked(r, c)' <=> Walked(r, c)) /\ (Opened(r, c)' <=> Opened(r, c))
  BY <1>0 DEF Walked, Opened
<1>9. TopReached'
  BY <1>1, <1>3, <1>7, <1>8 DEF HubInv, Reached, TopReached, Watch!WatchHubAssumption
<1>10. ASSUME NEW r \in Kept', NEW c \in Dirs \ {Top}, watchInode'[c] # 0, Covered(r, In(c))'
       PROVE  Covered(r, c)' \/ Walked(r, c)' \/ Opened(r, In(c))' \/ Told(c)'
  <2>1. CASE c = d
    <3>1. Covered(r, up)
      BY <1>1, <1>7, <1>10, <2>1
    <3>2. Watch!WdsOf(watchInode[up]) # {}
      BY <3>1 DEF Covered
    <3>4. /\ 1 \in DOMAIN one /\ one[1].kind = "create" /\ one[1].name = d
          /\ one[1].wd \in Watch!WdsOf(watchInode[up])
      BY <1>20, <3>2
    <3>5. watchQueue' = watchQueue \o one
      BY <1>3, <1>10
    <3>6. PICK i \in DOMAIN watchQueue' : watchQueue'[i] = one[1]
      BY <1>20, <3>4, <3>5, Appended DEF HubInv, WatchType
    <3>7. Watch!WdsOf(watchInode[up])' = Watch!WdsOf(watchInode[up])
      BY <1>1, <1>2 DEF Watch!WdsOf
    <3> QED  BY <2>1, <3>4, <3>6, <3>7 DEF Told
  <2>2. CASE c # d
    <3>1. watchInode[c] # 0 /\ In(c) \in Dirs \ {d}
      BY <1>2, <1>5, <1>10, <2>2
    <3>2. Covered(r, c) \/ Walked(r, c) \/ Opened(r, In(c)) \/ Told(c)
      BY <1>3, <1>7, <1>10, <3>1 DEF HubInv, Reached, RestReached
    <3>3. Told(c) => Told(c)'
      BY <1>1, <1>2, <1>3, <3>1 DEF Told, Watch!WdsOf
    <3> QED  BY <1>7, <1>8, <2>2, <3>2, <3>3
  <2> QED  BY <2>1, <2>2
<1>11. RestReached'
  BY <1>10 DEF RestReached
<1> QED  BY <1>3, <1>4, <1>6, <1>9, <1>11 DEF HubInv, WatchType, Reached

LEMMA RemoveDirKeeps ==
  ASSUME Watch!WatchHubAssumption, HubInv, NEW d \in Dirs, Watch!RemoveDir(d) PROVE HubInv'
<1> DEFINE up == In(d)
           told == Watch!Events(up, "delete", d)
           lost == Watch!Events(d, "ignored", d)
           evs == told \o lost
<1>0. TreeType /\ KernelType
  BY DEF HubInv, WatchType
<1>1. /\ d # Top /\ watchInode[d] # 0 /\ Watch!Changed(up, evs)
      /\ \A c \in Dirs \ {Top} : In(c) = d => watchInode[c] = 0
      /\ watchInode' = [watchInode EXCEPT ![d] = 0]
      /\ watchKernel' = {k \in watchKernel : k.inode # watchInode[d]}
      /\ up \in Dirs /\ watchInode[up] # 0 /\ up # d
  BY DEF Watch!RemoveDir, HubInv, Inodes, Watch!WatchHubAssumption
<1>2. told \in Seq(Event) /\ lost \in Seq(Event)
  <2>1. "delete" \in EventKinds /\ "ignored" \in EventKinds
    BY DEF EventKinds
  <2> QED  BY <1>0, <1>1, <2>1, EventsAre
<1>3. /\ \A j \in DOMAIN told : told[j].kind = "delete" /\ told[j].wd \in Watch!WdsOf(watchInode[up])
      /\ Watch!WdsOf(watchInode[up]) # {} => 1 \in DOMAIN told
  <2>1. "delete" \in EventKinds
    BY DEF EventKinds
  <2>2. \A j \in DOMAIN told : told[j].kind = "delete" /\ told[j].wd \in Watch!WdsOf(watchInode[up])
    BY <1>0, <1>1, <2>1, EventsAre
  <2>3. Watch!WdsOf(watchInode[up]) # {} => 1 \in DOMAIN told
    BY <1>0, <1>1, <2>1, EventsAre
  <2> QED  BY <2>2, <2>3
<1>4. \A j \in DOMAIN lost : lost[j].wd \in Watch!WdsOf(watchInode[d]) /\ lost[j].kind = "ignored"
  BY <1>0, EventsAre DEF EventKinds
<1>5. Watch!WdsOf(watchInode[d]) # {} => 1 \in DOMAIN lost
  BY <1>0, EventsAre DEF EventKinds
<1> HIDE DEF lost, told
<1>20. /\ evs \in Seq(Event)
       /\ \A j \in DOMAIN evs : (\E i \in DOMAIN told : evs[j] = told[i]) \/ (\E i \in DOMAIN lost : evs[j] = lost[i])
       /\ \A i \in DOMAIN lost : \E j \in DOMAIN evs : evs[j] = lost[i]
       /\ 1 \in DOMAIN told => 1 \in DOMAIN evs /\ evs[1] = told[1]
  BY <1>2, Joined
<1> HIDE DEF evs
<1>6. /\ watchInode \in [Dirs -> Nat] /\ watchInode'[d] = 0 /\ \A c \in Dirs \ {d} : watchInode'[c] = watchInode[c]
  BY <1>0, <1>1 DEF TreeType
<1>7. \A j \in DOMAIN evs : evs[j].kind = "ignored" =>
        evs[j].wd <= watchLastWd /\ \A k \in watchKernel' : k.wd # evs[j].wd
  <2>1. \A j \in DOMAIN lost : lost[j].wd <= watchLastWd /\ \A k \in watchKernel' : k.wd # lost[j].wd
    BY <1>1, <1>4 DEF Watch!WdsOf, HubInv, Descriptors, OneEach, NoneNewer
  <2> QED  BY <1>3, <1>20, <2>1
<1>8. \A k \in watchKernel \ watchKernel' : \E j \in DOMAIN evs : evs[j].kind = "ignored" /\ evs[j].wd = k.wd
  <2>1. ASSUME NEW k \in watchKernel, k \notin watchKernel'
        PROVE  lost[1].kind = "ignored" /\ lost[1].wd = k.wd /\ 1 \in DOMAIN lost
    <3>1. k.inode = watchInode[d] /\ k.wd \in Watch!WdsOf(watchInode[d])
      BY <1>1, <2>1 DEF Watch!WdsOf
    <3>2. 1 \in DOMAIN lost /\ lost[1].wd \in Watch!WdsOf(watchInode[d]) /\ lost[1].kind = "ignored"
      BY <1>4, <1>5, <3>1
    <3> QED  BY <3>1, <3>2 DEF Watch!WdsOf, HubInv, Descriptors, OneEach
  <2> QED  BY <1>20, <2>1
<1>9. /\ KernelType' /\ HubType' /\ Descriptors' /\ Known' /\ Walks' /\ InFlight'
      /\ \A i \in DOMAIN watchQueue : i \in DOMAIN watchQueue' /\ watchQueue'[i] = watchQueue[i]
      /\ Kept' \subseteq Kept
  <2>1. watchKernel' \subseteq watchKernel
    BY <1>1
  <2>2. Watch!WdsOf(watchInode[up]) # {} =>
          1 \in DOMAIN evs /\ evs[1].kind # "ignored" /\ evs[1].wd \in Watch!WdsOf(watchInode[up])
    BY <1>3, <1>20
  <2> QED  BY <1>1, <1>7, <1>8, <1>20, <2>1, <2>2, WatchChangeKeeps
<1>10. /\ watchRepos' = watchRepos /\ watchAdding' = watchAdding /\ watchWatchDirs' = watchWatchDirs
       /\ watchWalk' = watchWalk
       /\ watchChanges' = watchChanges + 1
  BY <1>1 DEF Watch!Changed, Watch!hubVars
<1>11. TreeType'
  BY <1>0, <1>1, <1>6, <1>10 DEF TreeType
<1>12. Inodes'
  <2>1. watchInode'[Top] # 0 /\ \A c \in Dirs : watchInode'[c] <= watchChanges + 1
    BY <1>0, <1>1, <1>6 DEF HubInv, Inodes, TreeType, Watch!WatchHubAssumption
  <2>2. \A c, e \in Dirs : watchInode'[c] = watchInode'[e] /\ watchInode'[c] # 0 => c = e
    BY <1>6 DEF HubInv, Inodes
  <2>3. ASSUME NEW c \in Dirs \ {Top}, watchInode'[c] # 0
        PROVE  watchInode'[In(c)] # 0 /\ watchInode'[In(c)] < watchInode'[c]
    <3>1. c # d /\ watchInode[c] # 0 /\ watchInode'[c] = watchInode[c]
      BY <1>6, <2>3
    <3>2. In(c) \in Dirs \ {d}
      BY <1>1, <3>1 DEF Watch!WatchHubAssumption
    <3> QED  BY <1>6, <3>1, <3>2 DEF HubInv, Inodes
  <2> QED  BY <1>10, <2>1, <2>2, <2>3 DEF Inodes
<1>13. ASSUME NEW c \in Dirs \ {d} PROVE Watch!WdsOf(watchInode[c])' = Watch!WdsOf(watchInode[c])
  <2>1. watchInode'[c] = watchInode[c] /\ watchInode[c] # watchInode[d]
    BY <1>1, <1>6 DEF HubInv, Inodes
  <2> QED  BY <1>1, <2>1 DEF Watch!WdsOf
<1>14. ASSUME NEW r, NEW c \in Dirs \ {d} PROVE Covered(r, c)' <=> Covered(r, c)
  BY <1>10, <1>13 DEF Covered
<1>15. TopReached'
  BY <1>1, <1>9, <1>10, <1>14 DEF HubInv, Reached, TopReached, Walked, Watch!WatchHubAssumption
<1>16. ASSUME NEW r \in Kept', NEW c \in Dirs \ {Top}, watchInode'[c] # 0, Covered(r, In(c))'
       PROVE  Covered(r, c)' \/ Walked(r, c)' \/ Opened(r, In(c))' \/ Told(c)'
  <2>1. c # d /\ watchInode[c] # 0 /\ In(c) \in Dirs \ {d}
    BY <1>1, <1>6, <1>16 DEF Watch!WatchHubAssumption
  <2>2. Covered(r, c) \/ Walked(r, c) \/ Opened(r, In(c)) \/ Told(c)
    BY <1>9, <1>14, <1>16, <2>1 DEF HubInv, Reached, RestReached
  <2>3. Told(c) => Told(c)'
    BY <1>9, <1>13, <2>1 DEF Told
  <2> QED  BY <1>10, <1>14, <2>1, <2>2, <2>3 DEF Walked, Opened
<1>17. RestReached'
  BY <1>16 DEF RestReached
<1> QED  BY <1>9, <1>11, <1>12, <1>15, <1>17 DEF HubInv, WatchType, Reached

-----------------------------------------------------------------------------
(* A directory is watched, and is to be listed. *)
LEMMA WatchedKeeps ==
  ASSUME Watch!WatchHubAssumption, HubInv, NEW v \in watchWalk, Watch!Visit(v), Watch!Watched(v)
  PROVE  HubInv'
<1> DEFINE here == watchInode[v.dir]
           known == Watch!WdsOf(here)
           next == [repo |-> v.repo, dir |-> v.dir, step |-> "list"]
<1>0. /\ TreeType /\ KernelType /\ HubType /\ v \in Visited
      /\ \A u \in watchWalk : u.step = "watch"
      /\ here # 0
  BY DEF HubInv, WatchType, HubType, Watch!Visit, Watch!Watched
<1>1. PICK wd \in Nat :
        /\ IF known = {} THEN wd = watchLastWd + 1 ELSE wd \in known
        /\ watchKernel' = watchKernel \cup {[wd |-> wd, inode |-> here]}
        /\ watchLastWd' = IF known = {} THEN wd ELSE watchLastWd
        /\ watchWatchDirs' = watchWatchDirs \cup {[wd |-> wd, repo |-> v.repo, dir |-> v.dir]}
  <2> DEFINE w == IF known = {} THEN watchLastWd + 1 ELSE CHOOSE n \in known : TRUE
  <2>1. w \in Nat /\ IF known = {} THEN w = watchLastWd + 1 ELSE w \in known
    <3>1. watchLastWd + 1 \in Nat /\ known \subseteq Nat
      BY <1>0 DEF Watch!WdsOf, KernelType
    <3> HIDE DEF known
    <3>2. known # {} => (CHOOSE n \in known : TRUE) \in known
      OBVIOUS
    <3> QED  BY <3>1, <3>2
  <2> QED  BY <2>1 DEF Watch!Watched
<1>2. /\ watchWalk' = (watchWalk \ {v}) \cup {next}
      /\ UNCHANGED <<watchInode, watchChanges, watchQueue, watchPending, watchDue, watchUnseen,
                     watchRepos, watchAdding, watchPartial>>
  <2>1. [v EXCEPT !.step = "list"] = next
    BY <1>0 DEF Visited
  <2> QED  BY <2>1 DEF Watch!Visit, Watch!Watched
<1>19. /\ \E k \in watchKernel' : k.wd = wd /\ k.inode = here
       /\ \E e \in watchWatchDirs' : e.wd = wd /\ e.repo = v.repo /\ e.dir = v.dir
  <2> DEFINE k == [wd |-> wd, inode |-> here]
             e == [wd |-> wd, repo |-> v.repo, dir |-> v.dir]
  <2>1. k \in watchKernel' /\ k.wd = wd /\ k.inode = here
    BY <1>1
  <2>2. e \in watchWatchDirs' /\ e.wd = wd /\ e.repo = v.repo /\ e.dir = v.dir
    BY <1>1
  <2> HIDE DEF k, e
  <2> QED  BY <2>1, <2>2
<1>3. here \in Nat /\ v.dir \in Dirs /\ v.repo \in Repos /\ v.repo \in watchRepos \cup watchAdding
  BY <1>0 DEF TreeType, Visited, HubInv, Walks
<1>4. next \in Visited /\ next.repo = v.repo /\ next.dir = v.dir /\ next.step = "list"
  BY <1>3 DEF Visited
<1> HIDE DEF next
<1>5. WatchType'
  <2>1. IsFiniteSet(watchKernel')
    BY <1>0, <1>1, FS_AddElement DEF KernelType
  <2>2. KernelType'
    BY <1>0, <1>1, <1>2, <1>3, <2>1 DEF KernelType
  <2>3. HubType'
    BY <1>0, <1>1, <1>2, <1>3, <1>4 DEF HubType, Entry
  <2>4. TreeType'
    BY <1>0, <1>2 DEF TreeType
  <2> QED  BY <2>2, <2>3, <2>4 DEF WatchType
<1>6. Inodes'
  BY <1>2 DEF HubInv, Inodes
<1>7. \/ known # {} /\ watchKernel' = watchKernel /\ watchLastWd' = watchLastWd
      \/ known = {} /\ wd = watchLastWd + 1 /\ watchLastWd' = watchLastWd + 1
  <2>1. ASSUME known # {} PROVE watchKernel' = watchKernel
    <3>1. PICK k \in watchKernel : k.inode = here /\ k.wd = wd
      BY <1>1, <2>1 DEF Watch!WdsOf
    <3>2. k = [wd |-> wd, inode |-> here]
      BY <1>0, <3>1 DEF KernelType
    <3> QED  BY <1>1, <3>2
  <2> QED  BY <1>1, <2>1
<1>8. Descriptors'
  <2>0. \A e \in watchWatchDirs' : e \in watchWatchDirs \/ e.wd = wd
    BY <1>1
  <2>1. CASE known # {}
    <3>1. wd <= watchLastWd
      BY <1>1, <2>1 DEF Watch!WdsOf, HubInv, Descriptors, NoneNewer
    <3> QED  BY <1>2, <1>7, <2>0, <2>1, <3>1 DEF HubInv, Descriptors, OneEach, NoneNewer
  <2>2. CASE known = {}
    <3>1. wd = watchLastWd + 1 /\ watchLastWd' = watchLastWd + 1 /\ watchLastWd \in Nat /\ \A k \in watchKernel : k.inode # here
      BY <1>0, <1>7, <2>2 DEF Watch!WdsOf, KernelType
    <3>2. \A k \in watchKernel : k.wd # wd /\ k.wd <= watchLastWd /\ k.wd \in Nat
      BY <1>0, <3>1 DEF HubInv, Descriptors, NoneNewer, KernelType
    <3>3. \A k \in watchKernel' : k \in watchKernel \/ (k.wd = wd /\ k.inode = here)
      BY <1>1
    <3>4. OneEach'
      BY <3>1, <3>2, <3>3 DEF HubInv, Descriptors, OneEach
    <3>5. \A i \in DOMAIN watchQueue : watchQueue[i].wd \in Int
      <4>1. \A i \in DOMAIN watchQueue : watchQueue[i] \in Event
        BY <1>0 DEF KernelType
      <4> QED  BY <4>1 DEF Event
    <3>6. \A e \in watchWatchDirs : e.wd \in Nat /\ e.wd <= watchLastWd
      BY <1>0 DEF HubInv, Descriptors, NoneNewer, HubType, Entry
    <3>7. NoneNewer'
      BY <1>2, <2>0, <3>1, <3>2, <3>3, <3>5, <3>6 DEF HubInv, Descriptors, NoneNewer
    <3> QED  BY <3>4, <3>7 DEF Descriptors
  <2> QED  BY <2>1, <2>2
<1>20. Kept' = Kept
  BY <1>2 DEF Kept
<1>9. Known'
  <2>1. KernelKnown'
    <3>1. \E e \in watchWatchDirs' : e.wd = wd
      BY <1>19
    <3>2. \A k \in watchKernel' : k \in watchKernel \/ k.wd = wd
      BY <1>1
    <3>3. watchWatchDirs \subseteq watchWatchDirs'
      BY <1>1
    <3> QED  BY <3>1, <3>2, <3>3 DEF HubInv, Known, KernelKnown
  <2>2. ASSUME NEW e \in watchWatchDirs', e.repo \in Kept PROVE Alive(e)'
    <3>1. CASE e \in watchWatchDirs
      BY <1>1, <1>2, <2>2, <3>1 DEF HubInv, Known, EntriesAlive, Alive
    <3>2. CASE e \notin watchWatchDirs
      <4>1. e.wd = wd
        BY <1>1, <3>2
      <4>2. \E k \in watchKernel' : k.wd = wd
        BY <1>19
      <4> QED  BY <4>1, <4>2 DEF Alive
    <3> QED  BY <3>1, <3>2
  <2>3. \A e \in watchWatchDirs' : e.repo \in watchRepos \cup watchAdding
    BY <1>1, <1>3 DEF HubInv, Known, EntriesAlive
  <2> QED  BY <1>2, <1>20, <2>1, <2>2, <2>3 DEF Known, EntriesAlive
<1>10. Walks'
  BY <1>2, <1>4 DEF HubInv, Walks
<1>11. \A r, c : Covered(r, c) => Covered(r, c)'
  BY <1>1, <1>2 DEF Covered, Watch!WdsOf
<1>12. Covered(v.repo, v.dir)' /\ Opened(v.repo, v.dir)'
  <2>1. PICK k \in watchKernel' : k.wd = wd /\ k.inode = here
    BY <1>19
  <2>2. PICK e \in watchWatchDirs' : e.wd = wd /\ e.repo = v.repo /\ e.dir = v.dir
    BY <1>19
  <2>3. e.wd \in Watch!WdsOf(watchInode[v.dir])'
    BY <1>2, <2>1, <2>2 DEF Watch!WdsOf
  <2>4. Opened(v.repo, v.dir)'
    BY <1>2, <1>4 DEF Opened
  <2> QED  BY <2>2, <2>3, <2>4 DEF Covered
<1>13. \A c : Told(c) => Told(c)'
  BY <1>1, <1>2 DEF Told, Watch!WdsOf
<1>14. /\ \A r, c : Walked(r, c) => Walked(r, c)' \/ (r = v.repo /\ c = v.dir)
       /\ \A r, c : ~ Opened(r, c)
  BY <1>0, <1>2 DEF Walked, Opened
<1>15. TopReached'
  BY <1>20, <1>11, <1>12, <1>14 DEF HubInv, Reached, TopReached
<1>16. ASSUME NEW r \in Kept, NEW c \in Dirs \ {Top}, watchInode[c] # 0, Covered(r, In(c))'
       PROVE  Covered(r, c)' \/ Walked(r, c)' \/ Opened(r, In(c))' \/ Told(c)'
  <2>1. CASE Covered(r, In(c))
    BY <1>11, <1>12, <1>13, <1>14, <1>16, <2>1 DEF HubInv, Reached, RestReached
  <2>2. CASE ~ Covered(r, In(c))
    <3>1. PICK e \in watchWatchDirs' : e.repo = r /\ e.dir = In(c) /\ e.wd \in Watch!WdsOf(watchInode[In(c)])'
      BY <1>16 DEF Covered
    <3>2. CASE e.repo = v.repo /\ e.dir = v.dir
      BY <1>12, <3>1, <3>2
    <3>3. CASE ~ (e.repo = v.repo /\ e.dir = v.dir)
      <4>1. e \in watchWatchDirs
        BY <1>1, <3>3
      <4>2. e.wd \notin Watch!WdsOf(watchInode[In(c)])
        BY <2>2, <3>1, <4>1 DEF Covered
      <4>3. PICK k \in watchKernel' : k.wd = e.wd /\ k.inode = watchInode'[In(c)]
        BY <3>1 DEF Watch!WdsOf
      <4>4. k \notin watchKernel
        BY <1>2, <4>2, <4>3 DEF Watch!WdsOf
      <4>5. e.wd = watchLastWd + 1
        BY <1>1, <1>7, <4>3, <4>4
      <4>6. e.wd <= watchLastWd
        BY <4>1 DEF HubInv, Descriptors, NoneNewer
      <4> QED  BY <1>0, <4>5, <4>6 DEF KernelType
    <3> QED  BY <3>2, <3>3
  <2> QED  BY <2>1, <2>2
<1>17. RestReached'
  BY <1>2, <1>20, <1>16 DEF RestReached
<1>18. InFlight'
  BY <1>1, <1>2 DEF HubInv, InFlight, Coming, Carries
<1> QED  BY <1>5, <1>6, <1>8, <1>9, <1>10, <1>15, <1>17, <1>18 DEF HubInv, Reached

(* A directory is gone, or refused a watch: it is to be listed all the same. *)
LEMMA UnwatchedKeeps ==
  ASSUME Watch!WatchHubAssumption, HubInv, NEW v \in watchWalk, Watch!Visit(v), Watch!Unwatched(v)
  PROVE  HubInv'
<1> DEFINE next == [repo |-> v.repo, dir |-> v.dir, step |-> "list"]
<1>0. /\ TreeType /\ KernelType /\ HubType /\ v \in Visited
      /\ v.repo \in Repos /\ v.dir \in Dirs
  BY DEF HubInv, WatchType, HubType, Visited
<1>1. /\ watchWalk' = (watchWalk \ {v}) \cup {next}
      /\ UNCHANGED <<watchInode, watchKernel, watchLastWd, watchQueue, watchRepos, watchAdding,
                     watchWatchDirs, watchPending, watchDue, watchUnseen>>
  <2>1. [v EXCEPT !.step = "list"] = next
    BY <1>0 DEF Visited
  <2> QED  BY <2>1 DEF Watch!Visit, Watch!Unwatched
<1>2. \/ watchInode[v.dir] = 0 /\ watchChanges' = watchChanges /\ watchPartial' = watchPartial
      \/ watchChanges' = watchChanges + 1 /\ watchPartial' = watchPartial \cup {v.repo}
  BY DEF Watch!Unwatched
<1>3. next \in Visited /\ next.repo = v.repo /\ next.dir = v.dir /\ next.step = "list"
  BY <1>0 DEF Visited
<1> HIDE DEF next
<1>4. WatchType'
  BY <1>0, <1>1, <1>2, <1>3 DEF WatchType, TreeType, KernelType, HubType
<1>5. Inodes' /\ Descriptors'
  BY <1>0, <1>1, <1>2 DEF HubInv, Inodes, Descriptors, OneEach, NoneNewer, TreeType
<1>6. Kept' \subseteq Kept /\ (watchInode[v.dir] = 0 \/ v.repo \notin Kept')
  BY <1>1, <1>2 DEF Kept
<1>7. Known'
  BY <1>1, <1>6 DEF HubInv, Known, KernelKnown, EntriesAlive, Alive
<1>8. Walks'
  BY <1>1, <1>3 DEF HubInv, Walks
<1>9. /\ \A r, c : Covered(r, c)' <=> Covered(r, c)
      /\ \A c : Told(c)' <=> Told(c)
      /\ \A r, c : Walked(r, c) => Walked(r, c)' \/ (r = v.repo /\ c = v.dir)
      /\ \A r, c : ~ Opened(r, c)
  BY <1>1 DEF Covered, Told, Walked, Opened, Watch!WdsOf, Watch!Visit
<1>10. TopReached'
  BY <1>6, <1>9 DEF HubInv, Reached, TopReached, Inodes
<1>11. RestReached'
  BY <1>1, <1>6, <1>9 DEF HubInv, Reached, RestReached
<1>12. InFlight'
  BY <1>1 DEF HubInv, InFlight, Coming, Carries
<1> QED  BY <1>4, <1>5, <1>7, <1>8, <1>10, <1>11, <1>12 DEF HubInv, Reached

(* A directory is listed, or gone, and with it what was left of its walk. *)
LEMMA ListKeeps ==
  ASSUME Watch!WatchHubAssumption, HubInv, NEW v \in watchWalk, Watch!List(v)
  PROVE  HubInv'
<1>0. /\ TreeType /\ KernelType /\ HubType
      /\ v \in Visited /\ v.repo \in Repos /\ v.dir \in Dirs
  BY DEF HubInv, WatchType, HubType, Visited
<1>1. /\ v.step = "list"
      /\ UNCHANGED <<watchInode, watchChanges, watchKernel, watchLastWd, watchQueue,
                     watchWatchDirs, watchPending, watchDue, watchUnseen>>
  BY DEF Watch!List, Watch!kernelVars
<1>2. /\ watchInode[v.dir] = 0 =>
           /\ watchWalk' = watchWalk \ (Watch!Rest(v) \cup {v})
           /\ watchPartial' = IF Watch!Rest(v) = {} THEN watchPartial ELSE watchPartial \cup {v.repo}
      /\ watchInode[v.dir] # 0 =>
           watchWalk' = (watchWalk \ {v}) \cup Watch!Listed(v) /\ watchPartial' = watchPartial
  BY DEF Watch!List
<1>3. /\ watchRepos' \cup watchAdding' \subseteq watchRepos \cup watchAdding
      /\ watchWalk' # {} => watchRepos' = watchRepos /\ watchAdding' = watchAdding
      /\ watchWalk' = {} => watchAdding' = {}
      /\ watchAdding' \cap watchRepos' = {}
      /\ \A e \in watchWatchDirs : e.repo \in watchRepos' \cup watchAdding'
  BY DEF Watch!List, Watch!Added, HubInv, Walks, Known, EntriesAlive
<1>4. \A u \in watchWalk' : u \in Visited /\ (u \in watchWalk \/ u.repo = v.repo)
  <2>1. ASSUME NEW c \in Watch!Below(v.dir)
        PROVE  LET u == [repo |-> v.repo, dir |-> c, step |-> "watch"]
               IN  u \in Visited /\ u.repo = v.repo
    BY <1>0, <2>1 DEF Watch!Below, Visited
  <2>2. \A u \in Watch!Listed(v) : u \in Visited /\ u.repo = v.repo
    BY <2>1 DEF Watch!Listed
  <2> QED  BY <1>0, <1>2, <2>2 DEF HubType
<1>5. Kept' \subseteq Kept
  BY <1>2, <1>3 DEF Kept
<1>6. WatchType'
  <2>1. watchPartial' \subseteq Repos
    BY <1>0, <1>2 DEF HubType
  <2> QED  BY <1>0, <1>1, <1>3, <1>4, <2>1 DEF WatchType, TreeType, KernelType, HubType
<1>7. Inodes' /\ Descriptors'
  BY <1>1 DEF HubInv, Inodes, Descriptors, OneEach, NoneNewer
<1>8. Known'
  BY <1>1, <1>3, <1>5 DEF HubInv, Known, KernelKnown, EntriesAlive, Alive
<1>9. Walks'
  <2>1. ASSUME NEW u \in watchWalk'
        PROVE  u.repo \in watchAdding' \/ (u.repo \in watchRepos' /\ u.repo \in watchPending')
    BY <1>1, <1>3, <1>4, <2>1 DEF HubInv, Walks
  <2> QED  BY <1>3, <2>1 DEF Walks
<1>10. /\ \A r, c : Covered(r, c)' <=> Covered(r, c)
       /\ \A c : Told(c)' <=> Told(c)
  BY <1>1 DEF Covered, Told, Watch!WdsOf
<1>11. ASSUME NEW r \in Kept', NEW u \in watchWalk, u.repo = r, u # v
       PROVE  u \in watchWalk'
  <2>1. r = v.repo => watchInode[v.dir] # 0 \/ Watch!Rest(v) = {}
    BY <1>2 DEF Kept
  <2>2. u \notin Watch!Rest(v) \/ watchInode[v.dir] # 0
    BY <1>11, <2>1 DEF Watch!Rest
  <2> QED  BY <1>2, <1>11, <2>2
<1>12. ASSUME NEW r \in Kept', NEW c, Walked(r, c) PROVE Walked(r, c)'
  BY <1>1, <1>11, <1>12 DEF Walked
<1>13. TopReached'
  BY <1>5, <1>10, <1>12 DEF HubInv, Reached, TopReached
<1>14. ASSUME NEW r \in Kept', NEW c \in Dirs \ {Top}, watchInode[c] # 0, Opened(r, In(c))
       PROVE  Walked(r, c)' \/ Opened(r, In(c))'
  <2>1. PICK u \in watchWalk : u.repo = r /\ u.dir = In(c) /\ u.step = "list"
    BY <1>14 DEF Opened
  <2>2. CASE u # v
    BY <1>11, <2>1, <2>2 DEF Opened
  <2>3. CASE u = v
    <3>1. watchInode[v.dir] # 0 /\ c \in Watch!Below(v.dir)
      BY <1>14, <2>1, <2>3 DEF HubInv, Inodes, Watch!Below
    <3>2. [repo |-> v.repo, dir |-> c, step |-> "watch"] \in watchWalk'
      BY <1>2, <3>1 DEF Watch!Listed
    <3> QED  BY <2>1, <2>3, <3>2 DEF Walked
  <2> QED  BY <2>2, <2>3
<1>15. RestReached'
  BY <1>1, <1>5, <1>10, <1>12, <1>14 DEF HubInv, Reached, RestReached
<1>16. InFlight'
  BY <1>1 DEF HubInv, InFlight, Coming, Carries
<1> QED  BY <1>6, <1>7, <1>8, <1>9, <1>13, <1>15, <1>16 DEF HubInv, Reached

(* A step that leaves the kernel's side, and adds nothing to walk. *)
LEMMA AddRepoKeeps ==
  ASSUME Watch!WatchHubAssumption, HubInv, NEW r \in Repos, Watch!AddRepo(r) PROVE HubInv'
<1> DEFINE first == [repo |-> r, dir |-> Top, step |-> "watch"]
<1>1. /\ watchWalk = {} /\ watchAdding = {} /\ r \notin watchRepos
      /\ watchWalk' = {first} /\ watchAdding' = {r}
      /\ UNCHANGED <<watchInode, watchChanges, watchKernel, watchLastWd, watchQueue, watchRepos,
                     watchWatchDirs, watchPending, watchDue, watchUnseen, watchPartial>>
  BY DEF Watch!AddRepo, Watch!MutexFree, HubInv, Walks, Watch!kernelVars
<1>2. first \in Visited
  BY DEF Visited, Watch!WatchHubAssumption
<1>3. WatchType'
  BY <1>1, <1>2 DEF HubInv, WatchType, TreeType, KernelType, HubType
<1>4. Inodes' /\ Descriptors'
  BY <1>1 DEF HubInv, Inodes, Descriptors, OneEach, NoneNewer
<1>5. Known'
  BY <1>1 DEF HubInv, Known, KernelKnown, EntriesAlive, Alive, Kept
<1>6. Walks'
  BY <1>1 DEF HubInv, Walks
<1>7. \A q, c : Covered(q, c)' <=> Covered(q, c)
  BY <1>1 DEF Covered, Watch!WdsOf
<1>8. \A c : Told(c)' <=> Told(c)
  BY <1>1 DEF Told, Watch!WdsOf
<1>9. \A c : ~ Covered(r, c)
  BY <1>1 DEF Covered, HubInv, Known, EntriesAlive
<1>10. Walked(r, Top)'
  BY <1>1 DEF Walked
<1>11. \A q, c : ~ Walked(q, c) /\ ~ Opened(q, c)
  BY <1>1 DEF Walked, Opened
<1>15. Kept' \subseteq Kept \cup {r}
  BY <1>1 DEF Kept
<1>12. TopReached'
  BY <1>7, <1>10, <1>11, <1>15 DEF HubInv, Reached, TopReached
<1>13. RestReached'
  BY <1>1, <1>7, <1>8, <1>9, <1>11, <1>15 DEF HubInv, Reached, RestReached
<1>14. InFlight'
  BY <1>1 DEF HubInv, InFlight, Coming, Carries
<1> QED  BY <1>3, <1>4, <1>5, <1>6, <1>12, <1>13, <1>14 DEF HubInv, Reached

(* The hub's instance has a Cardinality of its own, which is that of FiniteSets. *)
LEMMA SameCount == ASSUME NEW S PROVE Watch!Cardinality(S) = Cardinality(S)
  BY Zenon DEF Watch!Cardinality, Cardinality

(* The descriptors given up are each told of once. *)
LEMMA IgnoredAre ==
  ASSUME Watch!WatchHubAssumption, NEW wds \in SUBSET Nat, IsFiniteSet(wds)
  PROVE  /\ Watch!Ignored(wds) \in Seq(Event)
         /\ \A i \in DOMAIN Watch!Ignored(wds) :
              Watch!Ignored(wds)[i].kind = "ignored" /\ Watch!Ignored(wds)[i].wd \in wds
<1> DEFINE n == Cardinality(wds)
           order == Watch!SetToSeq(wds)
<1>1. n \in Nat
  BY FS_CardinalityType
<1>2. order \in [1 .. n -> wds]
  <2>1. IsFiniteSet(1 .. n) /\ Cardinality(1 .. n) = n
    BY <1>1, FS_Interval
  <2>2. PICK f : f \in Bijection(1 .. n, wds)
    BY <2>1, FS_SameCardinalityBij DEF ExistsBijection
  <2>3. f \in [1 .. n -> wds] /\ Watch!IsInjective(f)
    BY <2>2 DEF Bijection, Injection, IsInjective, Watch!IsInjective
  <2>4. \E g \in [1 .. n -> wds] : Watch!IsInjective(g)
    BY <2>3
  <2> HIDE DEF n
  <2>5. (CHOOSE g \in [1 .. n -> wds] : Watch!IsInjective(g)) \in [1 .. n -> wds]
    BY <2>4
  <2> QED  BY <2>5, SameCount DEF Watch!SetToSeq, n
<1> HIDE DEF order
<1> DEFINE lost == [i \in DOMAIN order |-> [wd |-> order[i], kind |-> "ignored", name |-> Top]]
<1>3. \A i \in 1 .. n : lost[i] \in Event /\ lost[i].kind = "ignored" /\ lost[i].wd \in wds
  <2> HIDE DEF n
  <2>0. wds \subseteq Int
    OBVIOUS
  <2>1. \A i \in 1 .. n : order[i] \in wds /\ order[i] \in Int /\ i \in DOMAIN order
    BY <1>2, <2>0
  <2>2. Top \in Dirs /\ "ignored" \in EventKinds
    BY DEF EventKinds, Watch!WatchHubAssumption
  <2> QED  BY <2>1, <2>2 DEF Event
<1>4. lost \in [1 .. n -> Event]
  BY <1>2, <1>3
<1>5. lost \in Seq(Event) /\ DOMAIN lost = 1 .. n
  BY <1>1, <1>4, SeqDef
<1>6. Watch!Ignored(wds) = lost
  BY DEF Watch!Ignored, order
<1> QED  BY <1>3, <1>5, <1>6

LEMMA RemoveRepoKeeps ==
  ASSUME Watch!WatchHubAssumption, HubInv, NEW r \in Repos, Watch!RemoveRepo(r) PROVE HubInv'
<1> DEFINE gone == Watch!Released(r) \cap {k.wd : k \in watchKernel}
           lost == Watch!Ignored(gone)
<1>0. TreeType /\ KernelType /\ HubType
  BY DEF HubInv, WatchType
<1>1. /\ watchWalk = {} /\ watchAdding = {}
      /\ watchKernel' = {k \in watchKernel : k.wd \notin gone}
      /\ watchQueue' = Watch!Put(lost)
      /\ watchWatchDirs' = {e \in watchWatchDirs : e.repo # r}
      /\ watchRepos' = watchRepos \ {r} /\ watchPending' = watchPending \ {r}
      /\ watchUnseen' = watchUnseen \ {r} /\ watchPartial' = watchPartial \ {r}
      /\ UNCHANGED <<watchInode, watchChanges, watchLastWd, watchWalk, watchAdding, watchDue>>
  BY DEF Watch!RemoveRepo, Watch!MutexFree, HubInv, Walks
<1>2. gone \in SUBSET Nat /\ IsFiniteSet(gone)
  <2>1. IsFiniteSet({k.wd : k \in watchKernel})
    <3> DEFINE f == [k \in watchKernel |-> k.wd]
    <3>1. f \in Surjection(watchKernel, {k.wd : k \in watchKernel})
      BY DEF Surjection
    <3> QED  BY <1>0, <3>1, FS_Surjection DEF KernelType
  <2>2. gone \subseteq {k.wd : k \in watchKernel}
    OBVIOUS
  <2>3. {k.wd : k \in watchKernel} \subseteq Nat
    BY <1>0 DEF KernelType
  <2> QED  BY <2>1, <2>2, <2>3, FS_Subset
<1>3. lost \in Seq(Event) /\ \A i \in DOMAIN lost : lost[i].kind = "ignored" /\ lost[i].wd \in gone
  BY <1>2, IgnoredAre
<1>4. \A k \in watchKernel : k.wd \in gone <=>
        /\ \E e \in watchWatchDirs : e.repo = r /\ e.wd = k.wd
        /\ \A e \in watchWatchDirs : e.wd = k.wd => e.repo = r
  BY DEF Watch!Released
<1>5. \A w \in gone : \E k \in watchKernel : k.wd = w
  OBVIOUS
<1> HIDE DEF gone, lost
<1>20. PICK more \in Seq(Event) :
         /\ watchQueue' = watchQueue \o more
         /\ \A j \in DOMAIN more : more[j].kind = "overflow" \/ \E i \in DOMAIN lost : more[j] = lost[i]
  BY <1>0, <1>1, <1>3, PutAppends
<1>6. /\ watchQueue' \in Seq(Event)
      /\ \A i \in DOMAIN watchQueue : i \in DOMAIN watchQueue' /\ watchQueue'[i] = watchQueue[i]
      /\ \A i \in DOMAIN watchQueue' : i \in DOMAIN watchQueue \/ \E j \in DOMAIN more : watchQueue'[i] = more[j]
  BY <1>0, <1>20, Appended
<1>7. WatchType'
  <2>1. IsFiniteSet(watchKernel')
    BY <1>0, <1>1, FS_Subset DEF KernelType
  <2> QED  BY <1>0, <1>1, <1>6, <2>1 DEF WatchType, TreeType, KernelType, HubType
<1>8. Inodes'
  BY <1>1 DEF HubInv, Inodes
<1>9. OneEach' /\ NoneNewer'
  <2>1. OneEach'
    BY <1>1 DEF HubInv, Descriptors, OneEach
  <2>2. ASSUME NEW i \in DOMAIN watchQueue', watchQueue'[i].kind = "ignored"
        PROVE  watchQueue'[i].wd <= watchLastWd /\ \A k \in watchKernel' : k.wd # watchQueue'[i].wd
    <3>1. CASE i \in DOMAIN watchQueue
      BY <1>1, <1>6, <2>2, <3>1 DEF HubInv, Descriptors, NoneNewer
    <3>2. CASE i \notin DOMAIN watchQueue
      <4>1. watchQueue'[i].wd \in gone
        BY <1>3, <1>6, <1>20, <2>2, <3>2
      <4> QED  BY <1>1, <1>5, <4>1 DEF HubInv, Descriptors, NoneNewer
    <3> QED  BY <3>1, <3>2
  <2> QED  BY <1>1, <2>1, <2>2 DEF HubInv, Descriptors, NoneNewer
<1>21. Kept' \subseteq Kept \ {r}
  BY <1>1 DEF Kept
<1>10. KernelKnown' /\ EntriesAlive'
  <2>1. KernelKnown'
    <3>1. ASSUME NEW k \in watchKernel' PROVE \E e \in watchWatchDirs : e.repo # r /\ e.wd = k.wd
      BY <1>1, <1>4 DEF HubInv, Known, KernelKnown
    <3> QED  BY <1>1, <3>1 DEF KernelKnown
  <2>2. ASSUME NEW e \in watchWatchDirs' PROVE e.repo \in watchRepos' \cup watchAdding' /\ (e.repo \in Kept' => Alive(e)')
    <3>1. e \in watchWatchDirs /\ e.repo # r /\ (e.repo \in Kept' => Alive(e)) /\ e.repo \in watchRepos
      BY <1>1, <1>21 DEF HubInv, Known, EntriesAlive
    <3>2. \A k \in watchKernel : k.wd = e.wd => k \in watchKernel'
      BY <1>1, <1>4, <3>1
    <3> QED  BY <1>1, <1>6, <3>1, <3>2 DEF Alive
  <2> QED  BY <2>1, <2>2 DEF EntriesAlive
<1>11. Walks'
  BY <1>1 DEF HubInv, Walks
<1>12. ASSUME NEW q, q # r, NEW c PROVE Covered(q, c)' <=> Covered(q, c)
  <2>1. Covered(q, c)' => Covered(q, c)
    BY <1>1 DEF Covered, Watch!WdsOf
  <2>2. ASSUME NEW e \in watchWatchDirs, e.repo = q, e.wd \in Watch!WdsOf(watchInode[c])
        PROVE  e.wd \in Watch!WdsOf(watchInode[c])'
    <3>1. PICK k \in watchKernel : k.wd = e.wd /\ k.inode = watchInode[c]
      BY <2>2 DEF Watch!WdsOf
    <3>2. k \in watchKernel'
      BY <1>1, <1>4, <1>12, <2>2, <3>1
    <3> QED  BY <1>1, <3>1, <3>2 DEF Watch!WdsOf
  <2>3. Covered(q, c) => Covered(q, c)'
    BY <1>1, <1>12, <2>2 DEF Covered
  <2> QED  BY <2>1, <2>3
<1>13. \A q, c : ~ Walked(q, c) /\ ~ Opened(q, c)
  BY <1>1 DEF Walked, Opened
<1>14. TopReached'
  BY <1>12, <1>13, <1>21 DEF HubInv, Reached, TopReached
<1>15. ASSUME NEW q \in Kept', NEW c \in Dirs \ {Top}, watchInode[c] # 0, Covered(q, In(c))'
       PROVE  Covered(q, c)' \/ Told(c)'
  <2>1. q \in Kept /\ q # r
    BY <1>21
  <2>2. Covered(q, c) \/ Told(c)
    BY <1>12, <1>13, <1>15, <2>1 DEF HubInv, Reached, RestReached
  <2>3. ASSUME Told(c) PROVE Told(c)'
    <3>1. PICK i \in DOMAIN watchQueue :
            watchQueue[i].kind = "create" /\ watchQueue[i].name = c /\ watchQueue[i].wd \in Watch!WdsOf(watchInode[In(c)])
      BY <2>3 DEF Told
    <3>2. PICK w : w \in Watch!WdsOf(watchInode[In(c)])'
      BY <1>15 DEF Covered
    <3>3. w = watchQueue[i].wd
      BY <1>1, <3>1, <3>2 DEF Watch!WdsOf, HubInv, Descriptors, OneEach
    <3> QED  BY <1>6, <3>1, <3>2, <3>3 DEF Told
  <2> QED  BY <1>12, <2>1, <2>2, <2>3
<1>16. RestReached'
  BY <1>1, <1>15 DEF RestReached
<1>17. ASSUME NEW q \in watchUnseen' PROVE q \in watchPending' \cup watchDue' \/ Coming(q)'
  <2>1. q \in watchUnseen /\ q # r
    BY <1>1
  <2>2. \A e \in watchWatchDirs : e.repo = q => e \in watchWatchDirs'
    BY <1>1, <2>1
  <2>3. Coming(q) => Coming(q)'
    BY <1>0, <1>20, <2>2, StillComing
  <2> QED  BY <1>1, <2>1, <2>3 DEF HubInv, InFlight
<1> QED
  BY <1>7, <1>8, <1>9, <1>10, <1>11, <1>14, <1>16, <1>17
  DEF HubInv, Descriptors, Known, Reached, InFlight

LEMMA DrainEventKeeps == ASSUME Watch!WatchHubAssumption, HubInv, Watch!DrainEvent PROVE HubInv'
<1> DEFINE event == watchQueue[1]
<1>0. TreeType /\ KernelType /\ HubType
  BY DEF HubInv, WatchType
<1>1. /\ watchWalk = {} /\ watchAdding = {} /\ watchQueue # << >> /\ watchQueue' = Tail(watchQueue)
      /\ UNCHANGED <<watchInode, watchChanges, watchKernel, watchLastWd, watchRepos, watchAdding,
                     watchDue, watchUnseen, watchPartial>>
  BY DEF Watch!DrainEvent, HubInv, Walks
<1>2. /\ watchQueue' \in Seq(Event)
      /\ 1 \in DOMAIN watchQueue /\ Head(watchQueue) = event
      /\ \A i \in DOMAIN watchQueue' : i + 1 \in DOMAIN watchQueue /\ watchQueue'[i] = watchQueue[i + 1]
      /\ \A i \in DOMAIN watchQueue : i = 1 \/ (i - 1 \in DOMAIN watchQueue' /\ watchQueue'[i - 1] = watchQueue[i])
  BY <1>0, <1>1, Shifted
<1>3. event \in Event
  BY <1>0, <1>2 DEF KernelType
<1> HIDE DEF event
<1>4. /\ event.kind = "ignored" => watchWatchDirs' = Watch!Forgotten(event.wd) /\ watchWalk' = {} /\ watchPending' = watchPending
      /\ event.kind # "ignored" =>
           /\ watchWatchDirs' = watchWatchDirs
           /\ watchPending' = watchPending \cup {e.repo : e \in {f \in watchWatchDirs : f.wd = event.wd}}
           /\ watchWalk' = IF event.kind = "create"
                        THEN {[repo |-> e.repo, dir |-> event.name, step |-> "watch"] :
                                e \in {f \in watchWatchDirs : f.wd = event.wd}}
                        ELSE {}
  BY <1>1, <1>2 DEF Watch!DrainEvent
<1>5. /\ watchWatchDirs' \subseteq watchWatchDirs
      /\ \A e \in watchWatchDirs : e \notin watchWatchDirs' => event.kind = "ignored" /\ e.wd = event.wd
      /\ \A e \in watchWatchDirs' : event.kind # "ignored" \/ e.wd # event.wd
  BY <1>4 DEF Watch!Forgotten
<1>6. \A v \in watchWalk' : v \in Visited /\ v.step = "watch" /\ v.repo \in watchRepos /\ v.repo \in watchPending'
  <2>1. CASE event.kind = "create"
    <3>1. ASSUME NEW e \in watchWatchDirs, e.wd = event.wd
          PROVE  LET v == [repo |-> e.repo, dir |-> event.name, step |-> "watch"]
                 IN  v \in Visited /\ v.step = "watch" /\ v.repo \in watchRepos /\ v.repo \in watchPending'
      BY <1>0, <1>1, <1>3, <1>4, <2>1, <3>1
      DEF HubType, Entry, Event, Visited, HubInv, Known, EntriesAlive
    <3> QED  BY <1>4, <2>1, <3>1
  <2> QED  BY <1>4, <2>1
<1>7. WatchType'
  BY <1>0, <1>1, <1>2, <1>5, <1>6 DEF WatchType, TreeType, KernelType, HubType
<1>8. Inodes'
  BY <1>1 DEF HubInv, Inodes
<1>9. Descriptors'
  <2>1. \A i \in DOMAIN watchQueue' : watchQueue'[i].kind = "ignored" =>
          watchQueue'[i].wd <= watchLastWd /\ \A k \in watchKernel : k.wd # watchQueue'[i].wd
    BY <1>2 DEF HubInv, Descriptors, NoneNewer
  <2>2. \A e \in watchWatchDirs' : e.wd <= watchLastWd
    BY <1>5 DEF HubInv, Descriptors, NoneNewer
  <2> QED  BY <1>1, <2>1, <2>2 DEF HubInv, Descriptors, OneEach, NoneNewer
<1>20. Kept' = Kept
  BY <1>1 DEF Kept
<1>10. KernelKnown'
  <2>1. ASSUME NEW k \in watchKernel PROVE \E e \in watchWatchDirs' : e.wd = k.wd
    <3>1. PICK e \in watchWatchDirs : e.wd = k.wd
      BY DEF HubInv, Known, KernelKnown
    <3>2. e \in watchWatchDirs'
      BY <1>2, <1>5, <3>1 DEF event, HubInv, Descriptors, NoneNewer
    <3> QED  BY <3>1, <3>2
  <2> QED  BY <1>1, <2>1 DEF KernelKnown
<1>11. EntriesAlive'
  <2>1. ASSUME NEW e \in watchWatchDirs', e.repo \in Kept PROVE Alive(e)'
    <3>1. CASE \E k \in watchKernel : k.wd = e.wd
      BY <1>1, <3>1 DEF Alive
    <3>2. ASSUME NEW i \in DOMAIN watchQueue, watchQueue[i].kind = "ignored",
                 watchQueue[i].wd = e.wd
          PROVE  Alive(e)'
      <4>1. i # 1
        BY <1>5, <3>2 DEF event
      <4> QED  BY <1>2, <3>2, <4>1 DEF Alive
    <3> QED  BY <1>5, <2>1, <3>1, <3>2 DEF HubInv, Known, EntriesAlive, Alive
  <2> QED  BY <1>1, <1>5, <1>20, <2>1 DEF HubInv, Known, EntriesAlive
<1>12. Walks'
  BY <1>1, <1>6 DEF HubInv, Walks
<1>13. ASSUME NEW r, NEW c PROVE Covered(r, c)' <=> Covered(r, c)
  <2>1. \A e \in watchWatchDirs : e.wd \in Watch!WdsOf(watchInode[c]) => e \in watchWatchDirs'
    BY <1>2, <1>5 DEF event, Watch!WdsOf, HubInv, Descriptors, NoneNewer
  <2> QED  BY <1>1, <1>5, <2>1 DEF Covered, Watch!WdsOf
<1>14. \A r, c : ~ Walked(r, c) /\ ~ Opened(r, c)
  BY <1>1 DEF Walked, Opened
<1>15. TopReached'
  BY <1>13, <1>14, <1>20 DEF HubInv, Reached, TopReached
<1>16. ASSUME NEW r \in Kept, NEW c \in Dirs \ {Top}, watchInode[c] # 0, Covered(r, In(c))
       PROVE  Covered(r, c) \/ Walked(r, c)' \/ Told(c)'
  <2>1. SUFFICES ASSUME Told(c) PROVE Walked(r, c)' \/ Told(c)'
    BY <1>1, <1>14, <1>16 DEF HubInv, Reached, RestReached
  <2>2. PICK i \in DOMAIN watchQueue :
          watchQueue[i].kind = "create" /\ watchQueue[i].name = c /\ watchQueue[i].wd \in Watch!WdsOf(watchInode[In(c)])
    BY <2>1 DEF Told
  <2>3. CASE i = 1
    <3>1. PICK e \in watchWatchDirs : e.repo = r /\ e.wd \in Watch!WdsOf(watchInode[In(c)])
      BY <1>16 DEF Covered
    <3>2. e.wd = event.wd /\ event.kind = "create" /\ event.name = c
      BY <2>2, <2>3, <3>1 DEF event, Watch!WdsOf, HubInv, Descriptors, OneEach
    <3>3. [repo |-> e.repo, dir |-> event.name, step |-> "watch"] \in watchWalk'
      BY <1>4, <3>2
    <3> QED  BY <3>1, <3>2, <3>3 DEF Walked
  <2>4. CASE i # 1
    <3>1. i - 1 \in DOMAIN watchQueue' /\ watchQueue'[i - 1] = watchQueue[i]
      BY <1>2, <2>4
    <3>2. Watch!WdsOf(watchInode[In(c)])' = Watch!WdsOf(watchInode[In(c)])
      BY <1>1 DEF Watch!WdsOf
    <3> QED  BY <2>2, <3>1, <3>2 DEF Told
  <2> QED  BY <2>3, <2>4
<1>17. RestReached'
  BY <1>1, <1>13, <1>16, <1>20 DEF RestReached
<1>18. ASSUME NEW r \in watchUnseen, Coming(r) PROVE r \in watchPending' \/ Coming(r)'
  <2>1. PICK i \in DOMAIN watchQueue, e \in watchWatchDirs : e.repo = r /\ Carries(i, e)
    BY <1>18 DEF Coming
  <2>2. CASE i = 1
    <3>1. event.kind # "ignored" /\ e.wd = event.wd
      BY <2>1, <2>2 DEF Carries, event
    <3> QED  BY <1>4, <2>1, <3>1
  <2>3. CASE i # 1
    <3>1. i \in Nat /\ i > 1 /\ i - 1 \in DOMAIN watchQueue' /\ watchQueue'[i - 1] = watchQueue[i]
      BY <1>0, <1>2, <2>3 DEF KernelType
    <3>2. 1 \in 1 .. i - 1
      BY <3>1
    <3>3. e \in watchWatchDirs'
      BY <1>5, <2>1, <3>2 DEF Carries, event
    <3>4. PICK m \in Nat : m = i - 1
      BY <3>1
    <3>5. ASSUME NEW j \in 1 .. m - 1,
                 watchQueue'[j].kind = "ignored" PROVE watchQueue'[j].wd # e.wd
      <4>1. j + 1 \in 1 .. i - 1 /\ j + 1 \in DOMAIN watchQueue /\ j + 1 # 1 /\ (j + 1) - 1 = j
        BY <1>0, <3>1, <3>4 DEF KernelType
      <4>2. watchQueue'[j] = watchQueue[j + 1]
        BY <1>2, <4>1
      <4> QED  BY <2>1, <3>5, <4>1, <4>2 DEF Carries
    <3>6. watchQueue'[m].kind # "ignored" /\ e.wd = watchQueue'[m].wd
      BY <2>1, <3>1, <3>4 DEF Carries
    <3>7. Carries(m, e)'
      BY <3>5, <3>6 DEF Carries
    <3> QED  BY <2>1, <3>1, <3>3, <3>4, <3>7 DEF Coming
  <2> QED  BY <2>2, <2>3
<1>19. InFlight'
  BY <1>1, <1>4, <1>18 DEF HubInv, InFlight
<1> QED
  BY <1>7, <1>8, <1>9, <1>10, <1>11, <1>12, <1>15, <1>17, <1>19 DEF HubInv, Known, Reached

(* The steps that only hand over who is to be told. *)
LEMMA HandedOver ==
  ASSUME HubInv, watchInode' = watchInode, watchChanges' = watchChanges,
         UNCHANGED Watch!kernelVars, UNCHANGED Watch!hubVars,
         watchUnseen' \subseteq watchUnseen, (watchPending \cup watchDue) \cap watchUnseen' \subseteq watchPending' \cup watchDue',
         watchWalk = {} \/ watchPending' = watchPending, watchPartial' = watchPartial
  PROVE  HubInv'
<1>1. UNCHANGED <<watchInode, watchChanges, watchKernel, watchLastWd, watchQueue, watchRepos,
                  watchWatchDirs, watchWalk, watchAdding, watchPartial>>
  BY DEF Watch!kernelVars, Watch!hubVars
<1>2. WatchType' /\ Inodes' /\ Descriptors' /\ Known'
  BY <1>1 DEF HubInv, WatchType, TreeType, KernelType, HubType, Inodes, Descriptors, OneEach,
    NoneNewer, Known, KernelKnown, EntriesAlive, Alive, Kept
<1>3. Walks'
  BY <1>1 DEF HubInv, Walks
<1>4. Reached'
  BY <1>1 DEF HubInv, Reached, TopReached, RestReached, Covered, Walked, Opened, Told, Kept, Watch!WdsOf
<1>5. InFlight'
  BY <1>1 DEF HubInv, InFlight, Coming, Carries
<1> QED  BY <1>2, <1>3, <1>4, <1>5 DEF HubInv

LEMMA StepHub ==
  ASSUME Watch!WatchHubAssumption, HubInv, [Watch!Next]_(Watch!vars) PROVE HubInv'
<1>1. ASSUME NEW v \in watchWalk, Watch!Visit(v) \/ Watch!List(v) PROVE HubInv'
  BY <1>1, WatchedKeeps, UnwatchedKeeps, ListKeeps DEF Watch!Visit
<1>2. CASE Watch!DrainBegin \/ Watch!DrainEnd
  <2>1. /\ watchInode' = watchInode /\ watchChanges' = watchChanges /\ UNCHANGED Watch!kernelVars
        /\ UNCHANGED Watch!hubVars
        /\ watchPending' = watchPending /\ watchDue' = watchDue /\ watchUnseen' = watchUnseen
        /\ watchPartial' = watchPartial
    BY <1>2 DEF Watch!DrainBegin, Watch!DrainEnd
  <2> QED  BY <2>1, HandedOver
<1>3. ASSUME NEW taken \in SUBSET watchPending, Watch!Collect(taken) PROVE HubInv'
  <2>1. /\ watchInode' = watchInode /\ watchChanges' = watchChanges /\ UNCHANGED Watch!kernelVars
        /\ UNCHANGED Watch!hubVars
        /\ watchWalk = {} /\ watchDue = {} /\ watchDue' = taken
        /\ watchPending' = watchPending \ taken /\ watchUnseen' = watchUnseen
        /\ watchPartial' = watchPartial
    BY <1>3 DEF Watch!Collect, Watch!MutexFree, Watch!Left
  <2> QED  BY <2>1, HandedOver
<1>4. ASSUME NEW r \in Repos, Watch!Callback(r) PROVE HubInv'
  <2>1. /\ watchInode' = watchInode /\ watchChanges' = watchChanges /\ UNCHANGED Watch!kernelVars
        /\ UNCHANGED Watch!hubVars
        /\ watchPending' = watchPending /\ watchDue' = watchDue \ {r}
        /\ watchUnseen' = watchUnseen \ {r} /\ watchPartial' = watchPartial
    BY <1>4 DEF Watch!Callback
  <2> QED  BY <2>1, HandedOver
<1>5. CASE UNCHANGED Watch!vars
  <2>1. /\ watchInode' = watchInode /\ watchChanges' = watchChanges /\ UNCHANGED Watch!kernelVars
        /\ UNCHANGED Watch!hubVars
        /\ watchPending' = watchPending /\ watchDue' = watchDue /\ watchUnseen' = watchUnseen
        /\ watchPartial' = watchPartial
    BY <1>5 DEF Watch!vars
  <2> QED  BY <2>1, HandedOver
<1> QED
  BY <1>1, <1>2, <1>3, <1>4, <1>5, WriteRefKeeps, MakeDirKeeps, RemoveDirKeeps, AddRepoKeeps,
    RemoveRepoKeeps, DrainEventKeeps DEF Watch!Next

-----------------------------------------------------------------------------
(* Whatever the repositories, the tree, its changes, the kernel's refusals, the limit of its
   queue and the order of the hub's steps: a change of a watched tree that the kernel told of
   is on its way to the listener until the listener is called; and with every event read the
   hub watches each directory there is for each repository and knows the kernel's descriptors
   and no others, except for repositories of which it has lost something: an event the queue
   had no room for, a watch refused, or a directory gone before its walk was done
   (watch_manager.cpp): by itself, and as the one component at work of several. *)
THEOREM EveryChangeTold ==
  ASSUME Watch!WatchHubAssumption
  PROVE  /\ Watch!Spec => [](Watch!ChangesOnTheirWay /\ Watch!WatchesExact)
         /\ (subject = "watch" => Watch!Spec) /\ [][UNCHANGED subject]_subject => []WatchesKept
<1>1. ASSUME HubInv PROVE Watch!ChangesOnTheirWay
  BY <1>1 DEF Watch!ChangesOnTheirWay, HubInv, InFlight, Coming
<1>2. ASSUME HubInv PROVE Watch!WatchesExact
  <2>1. ASSUME Watch!MutexFree, watchQueue = << >>, NEW r \in watchRepos \ watchPartial, NEW d \in Dirs,
               watchInode[d] # 0
        PROVE  Covered(r, d)
    <3>1. SUFFICES ASSUME ~ Covered(r, d) PROVE FALSE  OBVIOUS
    <3>2. PICK x \in Dirs : watchInode[x] # 0 /\ ~ Covered(r, x) /\ (x = Top \/ Covered(r, In(x)))
      BY <1>2, <2>1, <3>1, FirstUncovered DEF HubInv, WatchType
    <3>3. ~ Walked(r, x) /\ ~ Walked(r, Top) /\ ~ Opened(r, In(x)) /\ r \in Kept
      BY <2>1 DEF Watch!MutexFree, Walked, Opened, Kept
    <3>4. ~ Told(x)
      BY <2>1 DEF Told
    <3> QED  BY <1>2, <3>2, <3>3, <3>4 DEF HubInv, Reached, TopReached, RestReached
  <2>2. Watch!EveryDirWatched
    BY <2>1 DEF Watch!EveryDirWatched, Covered
  <2>3. ASSUME Watch!MutexFree
        PROVE  /\ \A k \in watchKernel : \E e \in watchWatchDirs : e.wd = k.wd
               /\ \A e \in watchWatchDirs : e.repo \in watchRepos /\ (e.repo \in watchPartial \/ Alive(e))
    BY <1>2, <2>3 DEF Watch!MutexFree, HubInv, Known, KernelKnown, EntriesAlive, Walks, Kept
  <2> QED  BY <2>2, <2>3 DEF Watch!WatchesExact, Alive
<1>3. Watch!Init => HubInv
  BY InitHub
<1>4. HubInv /\ [Watch!Next]_(Watch!vars) => HubInv'
  BY StepHub
<1>5. HubInv => Watch!ChangesOnTheirWay /\ Watch!WatchesExact
  BY <1>1, <1>2
<1>6. Watch!Spec => [](Watch!ChangesOnTheirWay /\ Watch!WatchesExact)
  BY <1>3, <1>4, <1>5, PTL DEF Watch!Spec
<1>7. (subject = "watch" => Watch!Spec) /\ [][UNCHANGED subject]_subject => []WatchesKept
  <2>1. /\ ~ (subject = "watch") /\ [UNCHANGED subject]_subject => ~ (subject = "watch")'
        /\ ~ (subject = "watch") => WatchesKept
        /\ Watch!ChangesOnTheirWay /\ Watch!WatchesExact => WatchesKept
    BY DEF WatchesKept
  <2> QED  BY <1>6, <2>1, PTL
<1> QED  BY <1>6, <1>7

-----------------------------------------------------------------------------
(***************************************************************************)
(* BlameCache.  The list and the index of the cache agree, its byte count  *)
(* is theirs, and what nothing disturbed is what its key says.             *)
(***************************************************************************)
Results == [key : Blame!World, about : Blame!World, bytes : Sizes, clean : BOOLEAN]
Fills ==
  [pc : {"idle", "keying", "blaming"}, kind : {"worktree", "revision"}, todo : SUBSET Blame!Inputs,
   key : Blame!World \cup {<< >>}, about : Blame!World \cup {<< >>}, clean : BOOLEAN]

(* The keys of a list, each of which is there once. *)
Unique(s) == \A m, n \in 1 .. Len(s) : s[m] = s[n] => m = n
Members(s) == {s[n] : n \in 1 .. Len(s)}

(* What a fill has read of an input is what there is as long as nothing it sees changed;
   what it cannot see it has from the start. *)
Agrees(r) ==
  \A i \in Blame!Inputs :
    IF i \in Blame!Sees(r.kind) THEN r.key[i] = blameWorld[i] /\ r.about[i] = blameWorld[i]
    ELSE r.key[i] = r.about[i]
Filling(r) == r.pc # "idle" => /\ r.key \in Blame!World /\ r.about \in Blame!World
                               /\ r.clean => Agrees(r)

FillsRight == blameWorker \in [Fillers -> Fills] /\ \A w \in Fillers : Filling(blameWorker[w])
Indexed(es, s) == s \in Seq(Blame!World) /\ Unique(s) /\ es \in [Members(s) -> Results]
Accounted(es, s, used) == used = Blame!SumBytes(es, s) /\ (Len(s) > 1 => used <= Budget)
Undisturbed1(es, s) == \A k \in Members(s) : es[k].clean => es[k].about = k

CacheInv ==
  /\ blameWorld \in Blame!World /\ blameChanges \in 0 .. MaxEdits /\ FillsRight
  /\ Indexed(blameEntries, blameLru) /\ Accounted(blameEntries, blameLru, blameUsed)
  /\ Undisturbed1(blameEntries, blameLru)

(* The bytes of the cache are a weight of its keys. *)
Bytes(es) == [k \in Blame!World |-> IF k \in DOMAIN es THEN es[k].bytes ELSE 0]

LEMMA BytesWeigh ==
  ASSUME Blame!ConstantsAssumption, NEW S \in SUBSET Blame!World, NEW es \in [S -> Results],
         NEW s \in Seq(Blame!World), Members(s) \subseteq S
  PROVE  /\ Bytes(es) \in [Blame!World -> Nat]
         /\ Blame!SumBytes(es, s) = Weigh(Bytes(es), s)
<1> DEFINE n == Len(s)
           w == Bytes(es)
           v == Weights(w, s)
           F(g) == g = [i \in 0 .. n |-> IF i = 0 THEN 0 ELSE g[i - 1] + es[s[i]].bytes]
           g == CHOOSE g : F(g)
<1>0. n \in Nat /\ (\A i \in 1 .. n : s[i] \in S /\ s[i] \in Blame!World) /\ DOMAIN es = S
  BY DEF Members
<1>1. w \in [Blame!World -> Nat] /\ \A i \in 1 .. n : w[s[i]] = es[s[i]].bytes
  <2>1. \A k \in S : es[k].bytes \in Nat
    BY DEF Results, Blame!ConstantsAssumption
  <2> QED  BY <1>0, <2>1 DEF Bytes
<1> HIDE DEF w
<1>2. v \in Seq(Nat) /\ Len(v) = n
  <2> DEFINE J == Blame!World
  <2>1. w \in [J -> Nat] /\ s \in Seq(J)
    BY <1>1
  <2> HIDE DEF J
  <2> QED  BY <2>1, WeightsNat
<1>3. \A i \in 1 .. n : v[i] = es[s[i]].bytes
  BY <1>0, <1>1 DEF Weights
<1> HIDE DEF v
<1>4. PICK f : Sums(v, f)
  BY <1>2, SumsThere
<1>5. F(f)
  <2>1. f \in [0 .. n -> Nat] /\ f[0] = 0
    BY <1>2, <1>4 DEF Sums
  <2>2. \A i \in 0 .. n : i # 0 => i \in 1 .. n
    BY <1>0
  <2>3. \A i \in 0 .. n : f[i] = IF i = 0 THEN 0 ELSE f[i - 1] + es[s[i]].bytes
    BY <1>2, <1>3, <1>4, <2>1, <2>2 DEF Sums
  <2> QED  BY <2>1, <2>3, Zenon
<1>6. F(g)
  BY <1>5
<1>7. Blame!SumBytes(es, s) = g[n]
  BY DEF Blame!SumBytes
<1> HIDE DEF g
<1>8. g[0] = 0 /\ \A i \in 1 .. n : g[i] = g[i - 1] + v[i]
  BY <1>0, <1>3, <1>6
<1>9. g[n] = f[n]
  BY <1>2, <1>4, <1>8, SumsOnce
<1>10. Sum(v) = f[n]
  BY <1>2, <1>4, SumIs
<1> QED  BY <1>1, <1>7, <1>9, <1>10 DEF v, w, Weigh

(* A sequence without one of its elements. *)
Lighter(w, s, t, x) == Weigh(w, s) = Weigh(w, t) + w[x]

LEMMA CutAt ==
  ASSUME NEW I, NEW s \in Seq(I), NEW k \in 1 .. Len(s)
  PROVE  /\ Blame!RemoveAt(s, k) \in Seq(I) /\ Len(Blame!RemoveAt(s, k)) = Len(s) - 1
         /\ \A n \in 1 .. k - 1 : Blame!RemoveAt(s, k)[n] = s[n]
         /\ \A n \in k .. Len(s) - 1 : Blame!RemoveAt(s, k)[n] = s[n + 1]
         /\ \A w \in [I -> Nat] : Lighter(w, s, Blame!RemoveAt(s, k), s[k])
<1> DEFINE a == SubSeq(s, 1, k - 1)
           b == SubSeq(s, k, Len(s))
           c == SubSeq(s, k + 1, Len(s))
           t == Blame!RemoveAt(s, k)
<1>1. Len(s) \in Nat /\ k \in 1 .. Len(s) /\ k - 1 \in 0 .. Len(s) /\ (k - 1) + 1 = k /\ s[k] \in I
  OBVIOUS
<1>2. a \in Seq(I) /\ Len(a) = k - 1 /\ \A n \in 1 .. k - 1 : a[n] = s[n]
  BY <1>1
<1>3. c \in Seq(I) /\ Len(c) = Len(s) - k /\ \A n \in 1 .. Len(c) : c[n] = s[k + n]
  BY <1>1
<1>4. t = a \o c
  BY DEF Blame!RemoveAt
<1>5. b \in Seq(I) /\ b = <<s[k]>> \o c
  <2>1. Len(s) \in k .. Len(s)
    BY <1>1
  <2> QED  BY <2>1, SubSeqRecursiveFirst
<1>6. \A w : w \in [I -> Nat] => Weigh(w, s) = Weigh(w, a) + Weigh(w, b)
  BY <1>1, WeighParts
<1> HIDE DEF a, b, c, t
<1>7. t \in Seq(I) /\ Len(t) = Len(s) - 1
  <2>1. t \in Seq(I)
    BY <1>2, <1>3, <1>4, ConcatProperties
  <2>2. Len(t) = Len(a) + Len(c)
    BY <1>2, <1>3, <1>4, ConcatProperties
  <2> QED  BY <1>1, <1>2, <1>3, <2>1, <2>2
<1>8. \A n \in 1 .. Len(a) + Len(c) : t[n] = IF n <= Len(a) THEN a[n] ELSE c[n - Len(a)]
  BY <1>2, <1>3, <1>4, ConcatProperties
<1>9. ASSUME NEW n \in 1 .. k - 1 PROVE t[n] = s[n]
  <2>1. n \in 1 .. Len(a) + Len(c) /\ n <= Len(a)
    BY <1>1, <1>2, <1>3
  <2> QED  BY <1>2, <1>8, <2>1
<1>10. ASSUME NEW n \in k .. Len(s) - 1 PROVE t[n] = s[n + 1]
  <2>1. /\ n \in 1 .. Len(a) + Len(c) /\ ~ n <= Len(a) /\ n - Len(a) \in 1 .. Len(c)
        /\ k + (n - Len(a)) = n + 1
    BY <1>1, <1>2, <1>3
  <2>2. t[n] = c[n - Len(a)]
    BY <1>8, <2>1
  <2>3. c[n - Len(a)] = s[k + (n - Len(a))]
    BY <1>3, <2>1
  <2> QED  BY <2>1, <2>2, <2>3
<1>11. ASSUME NEW w \in [I -> Nat] PROVE Lighter(w, s, t, s[k])
  <2> DEFINE d == <<s[k]>>
  <2>1. d \in Seq(I) /\ Weigh(w, d) = w[s[k]]
    BY <1>1, WeighOne
  <2>2. Weigh(w, s) = Weigh(w, a) + Weigh(w, b)
    BY <1>6
  <2>3. b = d \o c
    BY <1>5
  <2> HIDE DEF d
  <2>4. Weigh(w, b) = Weigh(w, d) + Weigh(w, c)
    BY <1>3, <2>1, <2>3, WeighConcat
  <2>5. Weigh(w, t) = Weigh(w, a) + Weigh(w, c)
    BY <1>2, <1>3, <1>4, WeighConcat
  <2>6. Weigh(w, a) \in Nat /\ Weigh(w, c) \in Nat /\ w[s[k]] \in Nat
    BY <1>1, <1>2, <1>3, WeightsNat
  <2> QED  BY <2>1, <2>2, <2>4, <2>5, <2>6 DEF Lighter
<1>12. /\ t \in Seq(I) /\ Len(t) = Len(s) - 1
       /\ (\A n \in 1 .. k - 1 : t[n] = s[n]) /\ (\A n \in k .. Len(s) - 1 : t[n] = s[n + 1])
       /\ \A w \in [I -> Nat] : Lighter(w, s, t, s[k])
  BY <1>7, <1>9, <1>10, <1>11
<1> QED  BY <1>12 DEF t

LEMMA CutIs ==
  ASSUME NEW I, NEW s \in Seq(I), Unique(s), NEW k \in 1 .. Len(s)
  PROVE  /\ Blame!RemoveAt(s, k) \in Seq(I) /\ Unique(Blame!RemoveAt(s, k))
         /\ Members(Blame!RemoveAt(s, k)) = Members(s) \ {s[k]}
<1> DEFINE t == Blame!RemoveAt(s, k)
<1>1. /\ t \in Seq(I) /\ Len(t) = Len(s) - 1 /\ Len(s) \in Nat /\ k \in 1 .. Len(s)
      /\ (\A n \in 1 .. k - 1 : t[n] = s[n]) /\ (\A n \in k .. Len(s) - 1 : t[n] = s[n + 1])
  BY CutAt
<1> HIDE DEF t
<1>2. ASSUME NEW n \in 1 .. Len(t)
      PROVE  \E x \in 1 .. Len(s) : /\ t[n] = s[x] /\ x # k
                                    /\ (n < k /\ x = n) \/ (n >= k /\ x = n + 1)
  <2>1. CASE n < k
    <3>1. n \in 1 .. k - 1 /\ n \in 1 .. Len(s) /\ n # k
      BY <1>1, <2>1
    <3>2. t[n] = s[n]
      BY <1>1, <3>1
    <3> QED  BY <2>1, <3>1, <3>2
  <2>2. CASE n >= k
    <3>1. n \in k .. Len(s) - 1 /\ n + 1 \in 1 .. Len(s) /\ n + 1 # k
      BY <1>1, <2>2
    <3>2. t[n] = s[n + 1]
      BY <1>1, <3>1
    <3> QED  BY <2>2, <3>1, <3>2
  <2> QED  BY <1>1, <2>1, <2>2
<1>3. ASSUME NEW x \in 1 .. Len(s), x # k PROVE \E n \in 1 .. Len(t) : t[n] = s[x]
  <2>1. CASE x < k
    <3>1. x \in 1 .. k - 1 /\ x \in 1 .. Len(t)
      BY <1>1, <2>1
    <3> QED  BY <1>1, <3>1
  <2>2. CASE x > k
    <3>1. x - 1 \in k .. Len(s) - 1 /\ x - 1 \in 1 .. Len(t) /\ (x - 1) + 1 = x
      BY <1>1, <2>2
    <3>2. t[x - 1] = s[x]
      BY <1>1, <3>1
    <3> QED  BY <3>1, <3>2
  <2> QED  BY <1>1, <1>3, <2>1, <2>2
<1>4. Unique(t)
  <2>1. ASSUME NEW m \in 1 .. Len(t), NEW n \in 1 .. Len(t), t[m] = t[n] PROVE m = n
    <3>1. PICK x \in 1 .. Len(s) : t[m] = s[x] /\ ((m < k /\ x = m) \/ (m >= k /\ x = m + 1))
      BY <1>2
    <3>2. PICK y \in 1 .. Len(s) : t[n] = s[y] /\ ((n < k /\ y = n) \/ (n >= k /\ y = n + 1))
      BY <1>2
    <3>3. x = y
      BY <2>1, <3>1, <3>2 DEF Unique
    <3> QED  BY <1>1, <3>1, <3>2, <3>3
  <2> QED  BY <2>1 DEF Unique
<1>5. Members(t) = Members(s) \ {s[k]}
  <2>1. ASSUME NEW n \in 1 .. Len(t) PROVE t[n] \in Members(s) \ {s[k]}
    <3>1. PICK x \in 1 .. Len(s) : t[n] = s[x] /\ x # k
      BY <1>2
    <3> QED  BY <1>1, <3>1 DEF Unique, Members
  <2>2. ASSUME NEW x \in 1 .. Len(s), s[x] # s[k] PROVE s[x] \in Members(t)
    <3>1. PICK n \in 1 .. Len(t) : t[n] = s[x]
      BY <1>3, <2>2
    <3> QED  BY <3>1 DEF Members
  <2> QED  BY <2>1, <2>2 DEF Members
<1>6. t \in Seq(I) /\ Unique(t) /\ Members(t) = Members(s) \ {s[k]}
  BY <1>1, <1>4, <1>5
<1> QED  BY <1>6 DEF t

(* A new element at its head. *)
LEMMA HeadIs ==
  ASSUME NEW I, NEW s \in Seq(I), Unique(s), NEW x \in I, x \notin Members(s)
  PROVE  /\ <<x>> \o s \in Seq(I) /\ Unique(<<x>> \o s) /\ Members(<<x>> \o s) = {x} \cup Members(s)
         /\ \A w \in [I -> Nat] : Weigh(w, <<x>> \o s) = w[x] + Weigh(w, s)
<1> DEFINE d == <<x>>
           t == d \o s
<1>1. d \in Seq(I) /\ Len(d) = 1 /\ d[1] = x /\ Len(s) \in Nat
  OBVIOUS
<1> HIDE DEF d
<1>2. /\ t \in Seq(I) /\ Len(t) = 1 + Len(s)
      /\ \A n \in 1 .. 1 + Len(s) : t[n] = IF n <= 1 THEN d[n] ELSE s[n - 1]
  <2>1. /\ t \in Seq(I) /\ Len(t) = Len(d) + Len(s)
        /\ \A n \in 1 .. Len(d) + Len(s) : t[n] = IF n <= Len(d) THEN d[n] ELSE s[n - Len(d)]
    BY <1>1, ConcatProperties, Zenon
  <2> HIDE DEF t
  <2> QED  BY <1>1, <2>1
<1> HIDE DEF t
<1>3. t[1] = x /\ \A n \in 1 .. Len(s) : t[n + 1] = s[n]
  BY <1>1, <1>2
<1>4. \A n \in 1 .. Len(t) : n = 1 \/ (n - 1 \in 1 .. Len(s) /\ t[n] = s[n - 1])
  BY <1>1, <1>2
<1>5. Members(t) = {x} \cup Members(s)
  <2>1. \A n \in 1 .. Len(s) : n + 1 \in 1 .. Len(t)
    BY <1>1, <1>2
  <2>2. 1 \in 1 .. Len(t)
    BY <1>1, <1>2
  <2> QED  BY <1>3, <1>4, <2>1, <2>2 DEF Members
<1>6. Unique(t)
  <2>1. ASSUME NEW m \in 1 .. Len(t), NEW n \in 1 .. Len(t), t[m] = t[n] PROVE m = n
    <3>1. CASE m = 1 /\ n = 1
      BY <3>1
    <3>2. CASE m = 1 /\ n # 1
      <4>1. t[n] \in Members(s)
        BY <1>4, <3>2 DEF Members
      <4> QED  BY <1>3, <2>1, <3>2, <4>1
    <3>3. CASE m # 1 /\ n = 1
      <4>1. t[m] \in Members(s)
        BY <1>4, <3>3 DEF Members
      <4> QED  BY <1>3, <2>1, <3>3, <4>1
    <3>4. CASE m # 1 /\ n # 1
      <4>1. m - 1 = n - 1
        BY <1>4, <2>1, <3>4 DEF Unique
      <4> QED  BY <1>2, <4>1
    <3> QED  BY <3>1, <3>2, <3>3, <3>4
  <2> QED  BY <2>1 DEF Unique
<1>7. ASSUME NEW w \in [I -> Nat] PROVE Weigh(w, t) = w[x] + Weigh(w, s)
  <2>1. Weigh(w, d) = w[x]
    BY WeighOne DEF d
  <2>2. Weigh(w, d \o s) = Weigh(w, d) + Weigh(w, s)
    BY <1>1, WeighConcat
  <2> QED  BY <2>1, <2>2 DEF t
<1>8. /\ t \in Seq(I) /\ Unique(t) /\ Members(t) = {x} \cup Members(s)
      /\ \A w \in [I -> Nat] : Weigh(w, t) = w[x] + Weigh(w, s)
  BY <1>2, <1>5, <1>6, <1>7
<1> QED  BY <1>8 DEF t, d

LEMMA CacheInit == ASSUME Blame!ConstantsAssumption, Blame!Init PROVE CacheInv
<1>1. /\ blameWorld \in Blame!World /\ blameChanges = 0 /\ blameLru = << >> /\ blameEntries = << >>
      /\ blameUsed = 0 /\ blameWorker = [w \in Fillers |-> Blame!Idle]
  BY DEF Blame!Init
<1>2. Blame!Idle \in Fills /\ Filling(Blame!Idle)
  BY DEF Blame!Idle, Fills, Filling
<1>3. FillsRight
  BY <1>1, <1>2 DEF FillsRight
<1>4. << >> \in Seq(Blame!World) /\ Len(<< >>) = 0 /\ Members(<< >>) = {} /\ Unique(<< >>)
  BY DEF Members, Unique
<1>5. << >> \in [{} -> Results]
  OBVIOUS
<1>6. Blame!SumBytes(<< >>, << >>) = 0
  <2> DEFINE es == << >>
             s == << >>
             S == {}
  <2>1. es \in [S -> Results] /\ s \in Seq(Blame!World) /\ Members(s) \subseteq S /\ S \in SUBSET Blame!World
    BY <1>4, <1>5
  <2> HIDE DEF es, S
  <2>2. Blame!SumBytes(es, s) = Weigh(Bytes(es), s)
    BY <2>1, BytesWeigh
  <2>3. Weigh(Bytes(es), s) = 0
    BY WeighEmpty
  <2> QED  BY <2>2, <2>3 DEF es
<1>7. Indexed(blameEntries, blameLru)
  BY <1>1, <1>4, <1>5 DEF Indexed
<1>8. Accounted(blameEntries, blameLru, blameUsed)
  BY <1>1, <1>4, <1>6 DEF Accounted
<1>9. Undisturbed1(blameEntries, blameLru)
  BY <1>1, <1>4 DEF Undisturbed1
<1> QED  BY <1>1, <1>3, <1>7, <1>8, <1>9 DEF CacheInv, Blame!ConstantsAssumption

(* The repository changes: the fills that see it are not clean any more. *)
LEMMA CacheChange ==
  ASSUME Blame!ConstantsAssumption, CacheInv, Blame!Change
  PROVE  CacheInv'
<1>0. /\ blameLru' = blameLru /\ blameEntries' = blameEntries /\ blameUsed' = blameUsed
      /\ blameChanges' = blameChanges + 1 /\ blameChanges < MaxEdits
  BY DEF Blame!Change
<1>1. PICK i \in Blame!Inputs, v \in Values :
        /\ blameWorld' = [blameWorld EXCEPT ![i] = v]
        /\ blameWorker' = [w \in Fillers |->
             IF blameWorker[w].pc # "idle" /\ i \in Blame!Sees(blameWorker[w].kind)
             THEN [blameWorker[w] EXCEPT !.clean = FALSE] ELSE blameWorker[w]]
  BY DEF Blame!Change
<1>2. blameWorld' \in Blame!World
  BY <1>1 DEF CacheInv, Blame!World
<1>3. ASSUME NEW w \in Fillers PROVE blameWorker'[w] \in Fills /\ Filling(blameWorker[w])'
  <2> DEFINE r == blameWorker[w]
             q == blameWorker'[w]
  <2>1. r \in Fills /\ Filling(r)
    BY DEF CacheInv, FillsRight
  <2>2. CASE r.pc # "idle" /\ i \in Blame!Sees(r.kind)
    <3>1. q = [r EXCEPT !.clean = FALSE]
      BY <1>1, <2>2
    <3> HIDE DEF q
    <3>2. q \in Fills /\ q.clean = FALSE /\ q.pc = r.pc /\ q.key = r.key /\ q.about = r.about
      BY <2>1, <3>1 DEF Fills
    <3> QED  BY <2>1, <3>2 DEF Filling, q
  <2>3. CASE r.pc = "idle" \/ i \notin Blame!Sees(r.kind)
    <3>1. q = r
      BY <1>1, <2>3
    <3>2. ASSUME r.pc # "idle", r.clean PROVE Agrees(r)'
      <4>1. Agrees(r) /\ i \notin Blame!Sees(r.kind)
        BY <2>1, <2>3, <3>2 DEF Filling
      <4>2. \A j \in Blame!Sees(r.kind) \cap Blame!Inputs : blameWorld'[j] = blameWorld[j]
        BY <1>1, <4>1 DEF CacheInv, Blame!World
      <4> QED  BY <3>1, <4>1, <4>2 DEF Agrees, Blame!Sees, Blame!Inputs
    <3> QED  BY <2>1, <3>1, <3>2 DEF Filling
  <2> QED  BY <2>2, <2>3
<1>4. FillsRight'
  <2>1. blameWorker' = [w \in Fillers |-> blameWorker'[w]]
    BY <1>1
  <2> QED  BY <1>3, <2>1 DEF FillsRight
<1> QED  BY <1>0, <1>2, <1>4 DEF CacheInv, Blame!ConstantsAssumption

(* What a fill does on its own. *)
LEMMA CacheOwn ==
  ASSUME CacheInv, NEW w \in Fillers, NEW q \in Fills, Filling(q),
         blameWorker' = [blameWorker EXCEPT ![w] = q],
         UNCHANGED <<blameWorld, blameChanges, blameLru, blameEntries, blameUsed>>
  PROVE  CacheInv'
<1>1. blameWorker' \in [Fillers -> Fills]
  BY DEF CacheInv, FillsRight
<1>2. \A v \in Fillers : blameWorker'[v] = IF v = w THEN q ELSE blameWorker[v]
  BY DEF CacheInv, FillsRight
<1>3. ASSUME NEW v \in Fillers PROVE Filling(blameWorker[v])'
  <2>1. Filling(blameWorker'[v])
    BY <1>2 DEF CacheInv, FillsRight
  <2> QED  BY <2>1 DEF Filling, Agrees
<1>4. FillsRight'
  BY <1>1, <1>3 DEF FillsRight
<1> QED  BY <1>4 DEF CacheInv

LEMMA IdleFills == Blame!Idle \in Fills /\ Filling(Blame!Idle)
  BY DEF Blame!Idle, Fills, Filling

LEMMA CacheBegin ==
  ASSUME CacheInv, NEW w \in Fillers, Blame!Begin(w)
  PROVE  CacheInv'
<1>1. PICK kind \in {"worktree", "revision"} :
        blameWorker' = [blameWorker EXCEPT ![w] = [Blame!Idle EXCEPT !.pc = "keying", !.kind = kind,
                                                     !.key = blameWorld, !.about = blameWorld]]
  BY DEF Blame!Begin
<1> DEFINE q == [Blame!Idle EXCEPT !.pc = "keying", !.kind = kind,
                                   !.key = blameWorld, !.about = blameWorld]
<1>2. blameWorker' = [blameWorker EXCEPT ![w] = q]
  BY <1>1
<1>3. q \in Fills /\ Filling(q)
  <2> DEFINE r == Blame!Idle
  <2>1. r \in Fills /\ r.clean
    BY IdleFills DEF Blame!Idle
  <2>2. /\ q = [r EXCEPT !.pc = "keying", !.kind = kind, !.key = blameWorld, !.about = blameWorld]
        /\ blameWorld \in Blame!World
    BY DEF CacheInv
  <2> HIDE DEF r, q
  <2>3. q \in Fills /\ q.clean /\ q.key = blameWorld /\ q.about = blameWorld
    BY <2>1, <2>2 DEF Fills
  <2> QED  BY <2>2, <2>3 DEF Filling, Agrees
<1> HIDE DEF q
<1> QED  BY <1>2, <1>3, CacheOwn DEF Blame!Begin

(* An input that is read is what there is; what cannot be seen stays as it is. *)
LEMMA ReadsRight ==
  ASSUME CacheInv, NEW i \in Blame!Inputs, NEW kind, NEW old \in Blame!World
  PROVE  /\ Blame!Reads(old, i, kind) \in Blame!World
         /\ i \in Blame!Sees(kind) => Blame!Reads(old, i, kind)[i] = blameWorld[i]
         /\ i \notin Blame!Sees(kind) => Blame!Reads(old, i, kind)[i] = old[i]
         /\ \A j \in Blame!Inputs : j # i => Blame!Reads(old, i, kind)[j] = old[j]
<1>1. blameWorld[i] \in Values /\ old \in [Blame!Inputs -> Values]
  BY DEF CacheInv, Blame!World
<1> QED  BY <1>1 DEF Blame!Reads, Blame!World

LEMMA CacheReadForKey ==
  ASSUME CacheInv, NEW w \in Fillers, Blame!ReadForKey(w)
  PROVE  CacheInv'
<1> DEFINE r == blameWorker[w]
           i == Blame!Next1(r.todo)
           key == Blame!Reads(r.key, i, r.kind)
           q == [r EXCEPT !.todo = @ \ {i}, !.key = key]
<1>1. r \in Fills /\ Filling(r) /\ r.pc = "keying" /\ r.todo # {} /\ r.todo \subseteq Blame!Inputs
  BY DEF CacheInv, FillsRight, Fills, Blame!ReadForKey
<1>2. i \in Blame!Inputs
  <2> DEFINE S == {n \in 1 .. 3 : Blame!Order[n] \in r.todo}
  <2>1. S \in SUBSET Nat /\ S # {}
    BY <1>1 DEF Blame!Order, Blame!Inputs
  <2>2. PICK m \in S : \A n \in S : m <= n
    BY <2>1, Least
  <2>3. Blame!Min(S) \in S
    BY <2>2 DEF Blame!Min
  <2>4. Blame!Order[Blame!Min(S)] \in r.todo
    BY <2>3
  <2> QED  BY <1>1, <2>4 DEF Blame!Next1
<1>3. blameWorker' = [blameWorker EXCEPT ![w] = q]
  <2>1. blameWorker' = [blameWorker EXCEPT ![w].todo = @ \ {i}, ![w].key = Blame!Reads(@, i, r.kind)]
    BY DEF Blame!ReadForKey
  <2> QED  BY <1>1, <2>1 DEF CacheInv, FillsRight
<1> HIDE DEF i
<1>4. /\ key \in Blame!World /\ (i \in Blame!Sees(r.kind) => key[i] = blameWorld[i])
      /\ (i \notin Blame!Sees(r.kind) => key[i] = r.key[i])
      /\ \A j \in Blame!Inputs : j # i => key[j] = r.key[j]
  <2>1. r.key \in Blame!World
    BY <1>1 DEF Filling
  <2> QED  BY <1>2, <2>1, ReadsRight
<1> HIDE DEF key
<1>5. q = [r EXCEPT !.todo = r.todo \ {i}, !.key = key]
  OBVIOUS
<1> HIDE DEF q
<1>6. /\ q \in Fills /\ q.pc = r.pc /\ q.kind = r.kind /\ q.key = key /\ q.about = r.about
      /\ q.clean = r.clean
  BY <1>1, <1>4, <1>5 DEF Fills
<1>7. Filling(q)
  BY <1>1, <1>4, <1>6 DEF Filling, Agrees
<1> QED  BY <1>3, <1>6, <1>7, CacheOwn DEF Blame!ReadForKey

LEMMA CacheGitReads ==
  ASSUME CacheInv, NEW w \in Fillers, Blame!GitReads(w)
  PROVE  CacheInv'
<1> DEFINE r == blameWorker[w]
<1>1. r \in Fills /\ Filling(r) /\ r.pc = "blaming" /\ r.todo \subseteq Blame!Inputs
  BY DEF CacheInv, FillsRight, Fills, Blame!GitReads
<1>2. PICK i \in r.todo :
        blameWorker' = [blameWorker EXCEPT ![w].todo = @ \ {i},
                                           ![w].about = Blame!Reads(@, i, r.kind)]
  BY DEF Blame!GitReads
<1> DEFINE about == Blame!Reads(r.about, i, r.kind)
           q == [r EXCEPT !.todo = @ \ {i}, !.about = about]
<1>3. blameWorker' = [blameWorker EXCEPT ![w] = q]
  BY <1>1, <1>2 DEF CacheInv, FillsRight
<1>4. /\ about \in Blame!World /\ (i \in Blame!Sees(r.kind) => about[i] = blameWorld[i])
      /\ (i \notin Blame!Sees(r.kind) => about[i] = r.about[i])
      /\ \A j \in Blame!Inputs : j # i => about[j] = r.about[j]
  <2>1. r.about \in Blame!World /\ i \in Blame!Inputs
    BY <1>1 DEF Filling
  <2> QED  BY <2>1, ReadsRight
<1> HIDE DEF about
<1>5. q = [r EXCEPT !.todo = r.todo \ {i}, !.about = about]
  OBVIOUS
<1> HIDE DEF q
<1>6. /\ q \in Fills /\ q.pc = r.pc /\ q.kind = r.kind /\ q.key = r.key /\ q.about = about
      /\ q.clean = r.clean
  BY <1>1, <1>4, <1>5 DEF Fills
<1>7. Filling(q)
  BY <1>1, <1>4, <1>6 DEF Filling, Agrees
<1> QED  BY <1>3, <1>6, <1>7, CacheOwn DEF Blame!GitReads

LEMMA CacheGiveUp ==
  ASSUME CacheInv, NEW w \in Fillers, Blame!GiveUp(w)
  PROVE  CacheInv'
  BY CacheOwn, IdleFills DEF Blame!GiveUp

-----------------------------------------------------------------------------
(* The list with a key at its head, which is there once: `rest` are the others. *)
Fronted(k, rest) ==
  /\ rest \in Seq(Blame!World) /\ Unique(rest) /\ Members(rest) = Members(blameLru) \ {k}
  /\ Blame!AtFront(k) = <<k>> \o rest

LEMMA FrontIs ==
  ASSUME CacheInv, NEW k \in Blame!World
  PROVE  \E rest :
           /\ Fronted(k, rest) /\ k \notin Members(rest)
           /\ \A w \in [Blame!World -> Nat] :
                Weigh(w, blameLru) = Weigh(w, rest) + IF k \in Members(blameLru) THEN w[k] ELSE 0
<1> DEFINE s == blameLru
           I == Blame!World
<1>1. s \in Seq(I) /\ Unique(s)
  BY DEF CacheInv, Indexed
<1>2. Blame!Cached = Members(s)
  BY <1>1 DEF Blame!Cached, Blame!Range, Members
<1>3. CASE k \in Members(s)
  <2> DEFINE n == Blame!At(k)
             t == Blame!RemoveAt(s, n)
  <2>1. n \in 1 .. Len(s) /\ s[n] = k
    BY <1>3 DEF Blame!At, Members
  <2>2. Blame!AtFront(k) = <<k>> \o t
    BY <1>2, <1>3 DEF Blame!AtFront
  <2> HIDE DEF n
  <2>3. t \in Seq(I) /\ Unique(t) /\ Members(t) = Members(s) \ {k}
    BY <1>1, <2>1, CutIs
  <2>4. \A w \in [I -> Nat] : Weigh(w, s) = Weigh(w, t) + w[k]
    <3>1. \A w \in [I -> Nat] : Lighter(w, s, t, s[n])
      BY <1>1, <2>1, CutAt
    <3> QED  BY <2>1, <3>1 DEF Lighter
  <2> HIDE DEF t
  <2>5. Fronted(k, t) /\ k \notin Members(t)
    BY <2>2, <2>3 DEF Fronted
  <2> QED  BY <1>3, <2>4, <2>5
<1>4. CASE k \notin Members(s)
  <2>1. Blame!AtFront(k) = <<k>> \o s
    BY <1>2, <1>4 DEF Blame!AtFront
  <2>2. Fronted(k, s) /\ k \notin Members(s)
    BY <1>1, <1>4, <2>1 DEF Fronted
  <2>3. \A w \in [I -> Nat] : Weigh(w, s) = Weigh(w, s) + 0
    BY <1>1, WeightsNat
  <2> QED  BY <1>4, <2>2, <2>3
<1> QED  BY <1>3, <1>4

LEMMA CachedIs == ASSUME NEW s \in Seq(Blame!World) PROVE Blame!Range(s) = Members(s)
  BY DEF Blame!Range, Members

(* A hit: the key comes to the head, and nothing else changes. *)
LEMMA CacheHit ==
  ASSUME Blame!ConstantsAssumption, CacheInv, NEW k \in Members(blameLru), NEW w \in Fillers,
         blameLru' = Blame!AtFront(k), blameWorker' = [blameWorker EXCEPT ![w] = Blame!Idle],
         UNCHANGED <<blameWorld, blameChanges, blameEntries, blameUsed>>
  PROVE  CacheInv'
<1> DEFINE s == blameLru
           t == blameLru'
           es == blameEntries
           S == Members(s)
           W == Bytes(es)
<1>1. s \in Seq(Blame!World) /\ Unique(s) /\ es \in [S -> Results] /\ S \in SUBSET Blame!World
  BY DEF CacheInv, Indexed, Members
<1>2. k \in Blame!World
  BY <1>1
<1>3. PICK rest : /\ Fronted(k, rest) /\ k \notin Members(rest)
                  /\ \A v \in [Blame!World -> Nat] :
                       Weigh(v, s) = Weigh(v, rest) + IF k \in Members(s) THEN v[k] ELSE 0
  BY <1>2, FrontIs
<1>4. t = <<k>> \o rest
  BY <1>3 DEF Fronted
<1>5. rest \in Seq(Blame!World) /\ Unique(rest) /\ Members(rest) = S \ {k}
  BY <1>3 DEF Fronted
<1> HIDE DEF t, s, es
<1>6. /\ t \in Seq(Blame!World) /\ Unique(t) /\ Members(t) = {k} \cup Members(rest)
      /\ \A v \in [Blame!World -> Nat] : Weigh(v, t) = v[k] + Weigh(v, rest)
  BY <1>2, <1>3, <1>4, <1>5, HeadIs
<1>7. Members(t) = S
  BY <1>5, <1>6 DEF s
<1>8. Blame!SumBytes(es, t) = Blame!SumBytes(es, s)
  <2>1. W \in [Blame!World -> Nat] /\ Blame!SumBytes(es, s) = Weigh(W, s)
    <3>1. /\ s \in Seq(Blame!World) /\ Members(s) \subseteq S
          /\ es \in [S -> Results] /\ S \in SUBSET Blame!World
      BY <1>1
    <3> HIDE DEF S
    <3> QED  BY <3>1, BytesWeigh
  <2>2. Blame!SumBytes(es, t) = Weigh(W, t)
    <3>1. t \in Seq(Blame!World) /\ Members(t) \subseteq S
      BY <1>6, <1>7
    <3> HIDE DEF S, W
    <3>2. Blame!SumBytes(es, t) = Weigh(Bytes(es), t)
      BY <1>1, <3>1, BytesWeigh
    <3> QED  BY <3>2 DEF W
  <2> HIDE DEF W
  <2>3. Weigh(W, t) = W[k] + Weigh(W, rest) /\ Weigh(W, s) = Weigh(W, rest) + W[k]
    BY <1>3, <1>6, <2>1 DEF s
  <2>4. W[k] \in Nat /\ Weigh(W, rest) \in Nat
    BY <1>2, <1>5, <2>1, WeightsNat
  <2> QED  BY <2>1, <2>2, <2>3, <2>4
<1>9. Len(t) > 1 => Len(s) > 1
  <2> SUFFICES ASSUME Len(t) > 1 PROVE Len(s) > 1
    OBVIOUS
  <2>1. 1 \in 1 .. Len(t) /\ 2 \in 1 .. Len(t)
    BY <1>6
  <2>2. t[1] # t[2] /\ t[1] \in Members(s) /\ t[2] \in Members(s)
    <3>1. Unique(t) /\ Members(t) = Members(s)
      BY <1>6, <1>7
    <3>2. t[1] # t[2]
      BY <2>1, <3>1 DEF Unique
    <3>3. t[1] \in Members(t) /\ t[2] \in Members(t)
      BY <2>1 DEF Members
    <3> QED  BY <3>1, <3>2, <3>3
  <2>3. PICK m \in 1 .. Len(s) : s[m] = t[1]
    BY <2>2 DEF Members
  <2>4. PICK n \in 1 .. Len(s) : s[n] = t[2]
    BY <2>2 DEF Members
  <2> QED  BY <1>1, <2>2, <2>3, <2>4
<1>10. Indexed(es, t) /\ Accounted(es, t, blameUsed) /\ Undisturbed1(es, t)
  <2>1. Accounted(es, s, blameUsed) /\ Undisturbed1(es, s)
    BY DEF CacheInv, s, es
  <2> QED  BY <1>1, <1>6, <1>7, <1>8, <1>9, <2>1 DEF Indexed, Accounted, Undisturbed1
<1>11. FillsRight'
  <2>1. blameWorker' \in [Fillers -> Fills]
    BY IdleFills DEF CacheInv, FillsRight
  <2>2. ASSUME NEW v \in Fillers PROVE Filling(blameWorker[v])'
    <3>1. Filling(blameWorker'[v])
      BY IdleFills DEF CacheInv, FillsRight
    <3> QED  BY <3>1 DEF Filling, Agrees
  <2> QED  BY <2>1, <2>2 DEF FillsRight
<1>12. blameEntries' = es /\ blameUsed' = blameUsed /\ blameLru' = t
  BY DEF es, t
<1> QED  BY <1>10, <1>11, <1>12 DEF CacheInv, Indexed, Accounted, Undisturbed1

LEMMA CacheLookup ==
  ASSUME Blame!ConstantsAssumption, CacheInv, NEW w \in Fillers, Blame!Lookup(w)
  PROVE  CacheInv'
<1> DEFINE r == blameWorker[w]
<1>1. r \in Fills /\ Filling(r) /\ r.pc = "keying"
  BY DEF CacheInv, FillsRight, Blame!Lookup
<1>2. Blame!Cached = Members(blameLru)
  BY CachedIs DEF CacheInv, Indexed, Blame!Cached
<1>3. CASE /\ r.key \in Members(blameLru) /\ blameLru' = Blame!AtFront(r.key)
           /\ blameWorker' = [blameWorker EXCEPT ![w] = Blame!Idle]
  BY <1>3, CacheHit DEF Blame!Lookup
<1>4. CASE /\ blameLru' = blameLru
           /\ blameWorker' = [blameWorker EXCEPT ![w].pc = "blaming", ![w].todo = Blame!Inputs]
  <2> DEFINE q == [r EXCEPT !.pc = "blaming", !.todo = Blame!Inputs]
  <2>1. blameWorker' = [blameWorker EXCEPT ![w] = q]
    BY <1>4 DEF CacheInv, FillsRight
  <2>2. q \in Fills /\ Filling(q)
    <3>1. q = [r EXCEPT !.pc = "blaming", !.todo = Blame!Inputs]
      OBVIOUS
    <3> HIDE DEF q
    <3>2. /\ q \in Fills /\ q.pc = "blaming" /\ q.kind = r.kind /\ q.key = r.key
          /\ q.about = r.about /\ q.clean = r.clean
      BY <1>1, <3>1 DEF Fills
    <3> QED  BY <1>1, <3>2 DEF Filling, Agrees
  <2> HIDE DEF q
  <2> QED  BY <1>4, <2>1, <2>2, CacheOwn DEF Blame!Lookup
<1> QED  BY <1>2, <1>3, <1>4 DEF Blame!Lookup, Blame!KeyOf

-----------------------------------------------------------------------------
(* Eviction leaves one result, or what is within the budget. *)
LEMMA EvictedRight ==
  ASSUME NEW es, NEW s \in Seq(Blame!World)
  PROVE  /\ Blame!Evicted(es, s) \in 0 .. Len(s)
         /\ \/ Len(s) - Blame!Evicted(es, s) <= 1
            \/ Blame!SumBytes(es, SubSeq(s, 1, Len(s) - Blame!Evicted(es, s))) <= Budget
<1> DEFINE P(n) == Len(s) - n <= 1 \/ Blame!SumBytes(es, SubSeq(s, 1, Len(s) - n)) <= Budget
           S == {n \in 0 .. Len(s) : P(n)}
<1>1. Len(s) \in S /\ S \in SUBSET Nat
  OBVIOUS
<1> HIDE DEF P
<1>2. PICK m \in S : \A n \in S : m <= n
  <2> HIDE DEF S
  <2> QED  BY <1>1, Least
<1>3. Blame!Min(S) \in S
  BY <1>2 DEF Blame!Min
<1>4. Blame!Evicted(es, s) = Blame!Min(S)
  BY DEF Blame!Evicted, P
<1>5. Blame!Evicted(es, s) \in 0 .. Len(s) /\ P(Blame!Evicted(es, s))
  BY <1>3, <1>4
<1> QED  BY <1>5 DEF P

(* The head of a list, with each of its keys once. *)
LEMMA HeadPart ==
  ASSUME NEW I, NEW s \in Seq(I), Unique(s), NEW m \in 0 .. Len(s)
  PROVE  /\ SubSeq(s, 1, m) \in Seq(I) /\ Len(SubSeq(s, 1, m)) = m /\ Unique(SubSeq(s, 1, m))
         /\ Members(SubSeq(s, 1, m)) \subseteq Members(s)
         /\ Members(SubSeq(s, m + 1, Len(s))) \subseteq Members(s)
<1> DEFINE t == SubSeq(s, 1, m)
           u == SubSeq(s, m + 1, Len(s))
<1>1. t \in Seq(I) /\ Len(t) = m /\ \A n \in 1 .. m : t[n] = s[n] /\ n \in 1 .. Len(s)
  OBVIOUS
<1>2. Len(u) = Len(s) - m /\ \A n \in 1 .. Len(u) : u[n] = s[m + n] /\ m + n \in 1 .. Len(s)
  OBVIOUS
<1> HIDE DEF t, u
<1>3. Unique(t) /\ Members(t) \subseteq Members(s) /\ Members(u) \subseteq Members(s)
  BY <1>1, <1>2 DEF Unique, Members
<1> QED  BY <1>1, <1>3 DEF t, u

(* A result is kept: the key comes to the head, and the least recent go. *)
LEMMA CachePut ==
  ASSUME Blame!ConstantsAssumption, CacheInv, NEW w \in Fillers, Blame!Put(w)
  PROVE  CacheInv'
<1> DEFINE r == blameWorker[w]
           k == r.key
           s == blameLru
           es == blameEntries
<1>1. r \in Fills /\ Filling(r) /\ r.pc = "blaming"
  BY DEF CacheInv, FillsRight, Blame!Put
<1>2. k \in Blame!World /\ r.about \in Blame!World /\ r.clean \in BOOLEAN /\ (r.clean => r.about = k)
  <2>1. k \in Blame!World /\ r.about \in Blame!World /\ r.clean \in BOOLEAN
    BY <1>1 DEF Filling, Fills
  <2>2. ASSUME r.clean PROVE r.about = k
    <3>1. \A i \in Blame!Inputs : r.about[i] = k[i]
      BY <1>1, <2>2 DEF Filling, Agrees
    <3> QED  BY <2>1, <3>1 DEF Blame!World
  <2> QED  BY <2>1, <2>2
<1>3. s \in Seq(Blame!World) /\ Unique(s) /\ es \in [Members(s) -> Results]
  BY DEF CacheInv, Indexed
<1>4. Blame!Cached = Members(s)
  BY <1>3, CachedIs DEF Blame!Cached
<1> DEFINE S == Blame!Cached \cup {k}
           Result(b) == [key |-> k, about |-> r.about, bytes |-> b, clean |-> r.clean]
           All(b) == [x \in S |-> IF x = k THEN Result(b) ELSE es[x]]
           t == Blame!AtFront(k)
           N(b) == Blame!Evicted(All(b), t)
           Staying(b) == SubSeq(t, 1, Len(t) - N(b))
<1>5. PICK b \in Sizes :
        /\ blameLru' = Staying(b) /\ blameEntries' = [x \in Blame!Range(Staying(b)) |-> All(b)[x]]
        /\ blameUsed' = Blame!Before(k) + b
                          - Blame!SumBytes(All(b), SubSeq(t, Len(t) - N(b) + 1, Len(t)))
  BY DEF Blame!Put, Blame!KeyOf
<1> DEFINE all == All(b)
           m == Len(t) - N(b)
           kept == SubSeq(t, 1, m)
           gone == SubSeq(t, m + 1, Len(t))
           es2 == blameEntries'
<1>6. /\ blameLru' = kept /\ es2 = [x \in Blame!Range(kept) |-> all[x]]
      /\ blameUsed' = Blame!Before(k) + b - Blame!SumBytes(all, gone)
  BY <1>5
<1>7. /\ b \in Nat /\ all \in [S -> Results] /\ all[k].bytes = b /\ all[k].about = r.about
      /\ all[k].clean = r.clean /\ (\A x \in S : x # k => all[x] = es[x]) /\ k \in S
      /\ S = Members(s) \cup {k}
  <2>1. Result(b) \in Results
    BY <1>2 DEF Results
  <2>2. b \in Nat
    BY DEF Blame!ConstantsAssumption
  <2> QED  BY <1>3, <1>4, <2>1, <2>2
<1>8. PICK rest : /\ Fronted(k, rest) /\ k \notin Members(rest)
                  /\ \A v \in [Blame!World -> Nat] :
                       Weigh(v, s) = Weigh(v, rest) + IF k \in Members(s) THEN v[k] ELSE 0
  BY <1>2, FrontIs
<1>9. /\ rest \in Seq(Blame!World) /\ Unique(rest) /\ Members(rest) = Members(s) \ {k}
      /\ t = <<k>> \o rest
  BY <1>8 DEF Fronted
<1> HIDE DEF s, t, es, es2, k
<1>10. /\ t \in Seq(Blame!World) /\ Unique(t) /\ Members(t) = {k} \cup Members(rest)
       /\ \A v \in [Blame!World -> Nat] : Weigh(v, t) = v[k] + Weigh(v, rest)
  BY <1>2, <1>8, <1>9, HeadIs
<1>11. Members(t) = S
  BY <1>7, <1>9, <1>10
<1>12. /\ m \in 0 .. Len(t) /\ (m <= 1 \/ Blame!SumBytes(all, kept) <= Budget)
       /\ m = Len(t) - N(b)
  <2> HIDE DEF all
  <2>1. /\ Blame!Evicted(all, t) \in 0 .. Len(t)
        /\ \/ Len(t) - Blame!Evicted(all, t) <= 1
           \/ Blame!SumBytes(all, SubSeq(t, 1, Len(t) - Blame!Evicted(all, t))) <= Budget
    BY <1>10, EvictedRight
  <2> QED  BY <1>10, <2>1 DEF all
<1> HIDE DEF m, all, S, N, All
<1>13. /\ kept \in Seq(Blame!World) /\ Len(kept) = m /\ Unique(kept)
       /\ Members(kept) \subseteq S /\ Members(gone) \subseteq S
  BY <1>10, <1>11, <1>12, HeadPart
<1>14. gone \in Seq(Blame!World)
  BY <1>10, <1>12, WeighParts
<1>15. S \in SUBSET Blame!World /\ Members(s) \in SUBSET Blame!World
  BY <1>2, <1>3, <1>7 DEF Members
<1>16. /\ Bytes(all) \in [Blame!World -> Nat]
       /\ Blame!SumBytes(all, kept) = Weigh(Bytes(all), kept)
       /\ Blame!SumBytes(all, gone) = Weigh(Bytes(all), gone)
       /\ Weigh(Bytes(all), t) = Weigh(Bytes(all), kept) + Weigh(Bytes(all), gone)
       /\ Weigh(Bytes(all), t) = b + Weigh(Bytes(all), rest)
  <2> HIDE DEF kept, gone
  <2>0. all \in [S -> Results] /\ S \in SUBSET Blame!World
    BY <1>7, <1>15
  <2>1. Bytes(all) \in [Blame!World -> Nat] /\ Blame!SumBytes(all, kept) = Weigh(Bytes(all), kept)
    BY <1>13, <2>0, BytesWeigh
  <2>2. Blame!SumBytes(all, gone) = Weigh(Bytes(all), gone)
    BY <1>13, <1>14, <2>0, BytesWeigh
  <2> DEFINE A == Bytes(all)
  <2>3. A[k] = b
    BY <1>2, <1>7 DEF Bytes
  <2>4. A \in [Blame!World -> Nat]
    BY <2>1
  <2> HIDE DEF A
  <2>5. Weigh(A, t) = Weigh(A, kept) + Weigh(A, gone)
    BY <1>10, <1>12, <2>4, WeighParts DEF kept, gone
  <2>6. Weigh(A, t) = b + Weigh(A, rest)
    BY <1>10, <2>3, <2>4
  <2> QED  BY <2>1, <2>2, <2>5, <2>6 DEF A
<1>17. Blame!Before(k) = Weigh(Bytes(all), rest) /\ Weigh(Bytes(all), rest) \in Nat
  <2> DEFINE E == Bytes(es)
  <2>1. E \in [Blame!World -> Nat] /\ Blame!SumBytes(es, s) = Weigh(E, s)
    <3> DEFINE T == Members(s)
    <3>1. T \in SUBSET Blame!World /\ es \in [T -> Results] /\ Members(s) \subseteq T
      BY <1>3, <1>15
    <3> HIDE DEF T
    <3> QED  BY <1>3, <3>1, BytesWeigh
  <2>2. k \in Members(s) => E[k] = es[k].bytes
    BY <1>2, <1>3 DEF Bytes
  <2> DEFINE A == Bytes(all)
  <2>3. \A x \in Members(rest) : A[x] = E[x]
    BY <1>3, <1>7, <1>9, <1>15 DEF Bytes
  <2>4. A \in [Blame!World -> Nat]
    BY <1>16
  <2> HIDE DEF A, E
  <2>5. Weigh(A, rest) = Weigh(E, rest) /\ Weigh(A, rest) \in Nat
    <3>1. \A n \in 1 .. Len(rest) : A[rest[n]] = E[rest[n]]
      BY <2>3 DEF Members
    <3>2. Weigh(A, rest) = Weigh(E, rest)
      BY <1>9, <3>1, WeighSame
    <3>3. Weigh(A, rest) \in Nat
      BY <1>9, <2>4, WeightsNat
    <3> QED  BY <3>2, <3>3
  <2>6. Weigh(E, s) = Weigh(E, rest) + IF k \in Members(s) THEN E[k] ELSE 0
    BY <1>8, <2>1
  <2>7. blameUsed = Weigh(E, s)
    BY <2>1 DEF CacheInv, Accounted, es, s
  <2>8. Blame!Before(k) = IF k \in Members(s) THEN blameUsed - es[k].bytes ELSE blameUsed
    BY <1>4 DEF Blame!Before, es
  <2>9. k \in Members(s) => E[k] \in Nat
    BY <1>2, <2>1
  <2>10. Blame!Before(k) = Weigh(A, rest)
    BY <2>2, <2>5, <2>6, <2>7, <2>8, <2>9
  <2> QED  BY <2>5, <2>10 DEF A
<1> HIDE DEF kept, gone
<1>18. blameUsed' = Weigh(Bytes(all), kept)
  <2>1. Weigh(Bytes(all), kept) \in Nat /\ Weigh(Bytes(all), gone) \in Nat
    BY <1>13, <1>14, <1>16, WeightsNat
  <2> QED  BY <1>6, <1>7, <1>16, <1>17, <2>1
<1>19. es2 \in [Members(kept) -> Results] /\ \A x \in Members(kept) : es2[x] = all[x]
  <2>1. Blame!Range(kept) = Members(kept)
    BY <1>13, CachedIs
  <2> QED  BY <1>6, <1>7, <1>13, <2>1
<1>20. Blame!SumBytes(es2, kept) = Weigh(Bytes(all), kept)
  <2> DEFINE T == Members(kept)
             A == Bytes(all)
             E == Bytes(es2)
  <2>1. T \in SUBSET Blame!World /\ es2 \in [T -> Results] /\ Members(kept) \subseteq T
    BY <1>13, <1>15, <1>19
  <2>2. \A n \in 1 .. Len(kept) : E[kept[n]] = A[kept[n]]
    <3>1. ASSUME NEW x \in T PROVE E[x] = A[x]
      BY <1>7, <1>13, <1>15, <1>19 DEF Bytes
    <3> QED  BY <3>1 DEF Members
  <2>3. Blame!SumBytes(es2, kept) = Weigh(E, kept)
    <3> HIDE DEF T
    <3> QED  BY <1>13, <2>1, BytesWeigh
  <2> HIDE DEF A, E
  <2>4. Weigh(E, kept) = Weigh(A, kept)
    BY <1>13, <2>2, WeighSame
  <2> QED  BY <2>3, <2>4 DEF A
<1>21. Indexed(es2, kept) /\ Accounted(es2, kept, blameUsed')
  BY <1>12, <1>13, <1>16, <1>18, <1>19, <1>20 DEF Indexed, Accounted
<1>22. Undisturbed1(es2, kept)
  <2>1. ASSUME NEW x \in Members(kept), es2[x].clean PROVE es2[x].about = x
    <3>1. CASE x = k
      BY <1>2, <1>7, <1>19, <2>1, <3>1
    <3>2. CASE x # k
      <4>1. x \in Members(s) /\ es2[x] = es[x]
        BY <1>7, <1>13, <1>19, <3>2
      <4>2. Undisturbed1(es, s)
        BY DEF CacheInv, es, s
      <4> QED  BY <2>1, <4>1, <4>2 DEF Undisturbed1
    <3> QED  BY <3>1, <3>2
  <2> QED  BY <2>1 DEF Undisturbed1
<1>23. FillsRight'
  <2>0. blameWorker' = [blameWorker EXCEPT ![w] = Blame!Idle] /\ blameWorld' = blameWorld
    BY DEF Blame!Put
  <2>1. blameWorker' \in [Fillers -> Fills]
    BY <2>0, IdleFills DEF CacheInv, FillsRight
  <2>2. ASSUME NEW v \in Fillers PROVE Filling(blameWorker[v])'
    <3>1. Filling(blameWorker'[v])
      BY <2>0, IdleFills DEF CacheInv, FillsRight
    <3> QED  BY <2>0, <3>1 DEF Filling, Agrees
  <2> QED  BY <2>1, <2>2 DEF FillsRight
<1>24. blameWorld' = blameWorld /\ blameChanges' = blameChanges
  BY DEF Blame!Put
<1>25. Indexed(blameEntries, blameLru)'
  BY <1>6, <1>21 DEF Indexed, es2
<1>26. Accounted(blameEntries, blameLru, blameUsed)'
  BY <1>6, <1>21 DEF Accounted, es2
<1>27. Undisturbed1(blameEntries, blameLru)'
  BY <1>6, <1>22 DEF Undisturbed1, es2
<1> QED  BY <1>23, <1>24, <1>25, <1>26, <1>27 DEF CacheInv

-----------------------------------------------------------------------------
LEMMA CacheNext ==
  ASSUME Blame!ConstantsAssumption, CacheInv, [Blame!Next]_(Blame!vars)
  PROVE  CacheInv'
<1>1. CASE Blame!Change
  BY <1>1, CacheChange
<1>2. ASSUME NEW w \in Fillers, Blame!Step(w) PROVE CacheInv'
  <2>1. CASE Blame!Begin(w)
    BY <2>1, CacheBegin
  <2>2. CASE Blame!ReadForKey(w)
    BY <2>2, CacheReadForKey
  <2>3. CASE Blame!Lookup(w)
    BY <2>3, CacheLookup
  <2>4. CASE Blame!GitReads(w)
    BY <2>4, CacheGitReads
  <2>5. CASE Blame!Put(w)
    BY <2>5, CachePut
  <2>6. CASE Blame!GiveUp(w)
    BY <2>6, CacheGiveUp
  <2> QED  BY <1>2, <2>1, <2>2, <2>3, <2>4, <2>5, <2>6 DEF Blame!Step
<1>3. CASE UNCHANGED Blame!vars
  BY <1>3 DEF Blame!vars, CacheInv, FillsRight, Filling, Agrees
<1> QED  BY <1>1, <1>2, <1>3 DEF Blame!Next

LEMMA CacheIsExact ==
  ASSUME Blame!ConstantsAssumption, CacheInv
  PROVE  Blame!CacheExact /\ Blame!UndisturbedExact
<1> DEFINE s == blameLru
           es == blameEntries
<1>1. s \in Seq(Blame!World) /\ Unique(s) /\ es \in [Members(s) -> Results]
  BY DEF CacheInv, Indexed
<1>2. Blame!Cached = Members(s)
  BY <1>1, CachedIs DEF Blame!Cached
<1>3. Blame!IsInjective(s)
  <2>1. DOMAIN s = 1 .. Len(s)
    BY <1>1
  <2> QED  BY <1>1, <2>1 DEF Unique, Blame!IsInjective
<1>4. Members(s) \in SUBSET Blame!World
  BY <1>1 DEF Members
<1>5. blameUsed = Blame!SumBytes(es, s) /\ (Len(s) > 1 => blameUsed <= Budget)
  BY DEF CacheInv, Accounted
<1>6. blameUsed \in Nat
  <2> DEFINE S == Members(s)
             E == Bytes(es)
  <2>1. S \in SUBSET Blame!World /\ es \in [S -> Results] /\ Members(s) \subseteq S
    BY <1>1, <1>4
  <2>2. E \in [Blame!World -> Nat] /\ Blame!SumBytes(es, s) = Weigh(E, s)
    <3> HIDE DEF S
    <3> QED  BY <1>1, <2>1, BytesWeigh
  <2> HIDE DEF E
  <2> QED  BY <1>1, <1>5, <2>2, WeightsNat
<1>7. \A k \in Members(s) : /\ es[k].key \in Blame!World /\ es[k].about \in Blame!World
                            /\ es[k].bytes \in Sizes /\ es[k].clean \in BOOLEAN
  BY <1>1 DEF Results
<1>8. \A w \in Fillers : blameWorker[w].pc \in {"idle", "keying", "blaming"}
  BY DEF CacheInv, FillsRight, Fills
<1>9. Blame!TypeOK
  BY <1>1, <1>2, <1>3, <1>4, <1>6, <1>7, <1>8 DEF CacheInv, Blame!TypeOK
<1>10. Blame!UndisturbedExact
  BY <1>2 DEF CacheInv, Undisturbed1, Blame!UndisturbedExact
<1> QED  BY <1>5, <1>9, <1>10 DEF Blame!CacheExact, Blame!UsedExact, Blame!BudgetHeld

\* The blame cache's list and index hold the same keys with results of their kind, its
\* byte count is theirs and within the budget as soon as there are two, and a result that
\* nothing disturbed is what its key says, whatever threads fill it at once and however
\* the repository changes under them (BlameCache::get, put and evictLocked).
THEOREM CacheAgrees ==
  ASSUME Blame!ConstantsAssumption
  PROVE  /\ Blame!Spec => [](Blame!CacheExact /\ Blame!UndisturbedExact)
         /\ (subject = "blame" => Blame!Spec) /\ [][UNCHANGED subject]_subject => []BlameExact
<1>1. Blame!Init => CacheInv
  BY CacheInit
<1>2. CacheInv /\ [Blame!Next]_(Blame!vars) => CacheInv'
  BY CacheNext
<1>3. CacheInv => Blame!CacheExact /\ Blame!UndisturbedExact
  BY CacheIsExact
<1>4. Blame!Spec => [](Blame!CacheExact /\ Blame!UndisturbedExact)
  BY <1>1, <1>2, <1>3, PTL DEF Blame!Spec
<1>5. (subject = "blame" => Blame!Spec) /\ [][UNCHANGED subject]_subject => []BlameExact
  <2>1. /\ ~ (subject = "blame") /\ [UNCHANGED subject]_subject => ~ (subject = "blame")'
        /\ ~ (subject = "blame") => BlameExact
        /\ Blame!CacheExact /\ Blame!UndisturbedExact => BlameExact
    BY DEF BlameExact
  <2> QED  BY <1>4, <2>1, PTL
<1> QED  BY <1>4, <1>5
=============================================================================
