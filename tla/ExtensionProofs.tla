-------------------------- MODULE ExtensionProofs ---------------------------
(* What the extension keeps of repositories and documents: its registrations,   *)
(* the rebase panel's host, the mirror of the workspace and the cache of        *)
(* hosting answers.  Their variables are disjoint; each has its own inductive  *)
(* invariant.                                                                  *)
EXTENDS ExtensionParts, FiniteSetTheorems, SequenceTheorems, TLAPS

-----------------------------------------------------------------------------
(***************************************************************************)
(* Repositories.  The registry's two maps agree, and what the extension    *)
(* keeps of them is the running engine's, whatever the directories and the *)
(* bounds. The registry's invariant adds that ids are only ever counted    *)
(* up; the service's, what the answers on their way, the request of the    *)
(* rediscovery and the listeners' last list are worth.                     *)
(***************************************************************************)
IdsBelowNext ==
  /\ nextId \in Nat /\ \A e \in issued : e.id \in Nat /\ e.id < nextId
  /\ \A e, f \in issued : e.id = f.id => e = f

MapsAgree ==
  /\ byRoot = byId /\ byId \subseteq issued
  /\ \A e, f \in byId : e.root = f.root => e = f

(* What the registry holds is only ever records of an id and a root. *)
Entries == \A e \in issued : e = [id |-> e.id, root |-> e.root]

RegistryInv == IdsBelowNext /\ MapsAgree /\ Entries

LEMMA InitRegistry == Init => RegistryInv
  BY DEF Init, RegistryInv, IdsBelowNext, MapsAgree, Entries

(* Registry::add gives a root that has no id the next one. *)
LEMMA AddKeeps ==
  ASSUME RegistryInv, EngineAdd PROVE RegistryInv'
<1> DEFINE request == Head(discovers)
           root == RootFor(request.dir)
           known == {e \in byRoot : e.root = root}
           entry == [id |-> nextId, root |-> root]
<1>1. CASE UNCHANGED <<byRoot, byId, nextId, issued>>
  BY <1>1 DEF RegistryInv, IdsBelowNext, MapsAgree, Entries
<1>2. CASE /\ known = {} /\ nextId' = nextId + 1
           /\ byRoot' = byRoot \cup {entry} /\ byId' = byId \cup {entry}
           /\ issued' = issued \cup {entry}
  <2> DEFINE r == root
  <2>1. byRoot' = byRoot \cup {[id |-> nextId, root |-> r]} /\ byId' = byRoot'
        /\ issued' = issued \cup {[id |-> nextId, root |-> r]} /\ nextId' = nextId + 1
    BY <1>2 DEF RegistryInv, MapsAgree
  <2>2. \A e \in byId : e.root # r
    BY <1>2 DEF RegistryInv, MapsAgree
  <2>3. \A e \in issued : e.id \in Nat /\ e.id < nextId
    BY DEF RegistryInv, IdsBelowNext
  <2> HIDE DEF r
  <2>4. IdsBelowNext'
    BY <2>1, <2>3 DEF RegistryInv, IdsBelowNext
  <2>5. MapsAgree'
    BY <2>1, <2>2 DEF RegistryInv, MapsAgree
  <2>6. Entries'
    BY <2>1 DEF RegistryInv, Entries
  <2> QED BY <2>4, <2>5, <2>6 DEF RegistryInv
<1> QED BY <1>1, <1>2 DEF EngineAdd

(* Registry::remove takes an id out of both maps. *)
LEMMA RemoveKeeps ==
  ASSUME RegistryInv, NEW c \in closes, CloseEnd(c) PROVE RegistryInv'
<1>1. byId' = {e \in byId : e.id # c.id} /\ nextId' = nextId /\ issued' = issued
  BY DEF CloseEnd
<1>2. byRoot' = {e \in byId : ~(\E f \in byId : f.id = c.id /\ f.root = e.root)}
  BY DEF CloseEnd, Unrooted, RegistryInv, MapsAgree
<1>3. byRoot' = byId'
  <2>1. ASSUME NEW e \in byId
        PROVE  (e.id # c.id) <=> ~(\E f \in byId : f.id = c.id /\ f.root = e.root)
    BY DEF RegistryInv, MapsAgree
  <2> QED BY <1>1, <1>2, <2>1
<1>4. MapsAgree'
  BY <1>1, <1>3 DEF RegistryInv, MapsAgree
<1> QED BY <1>1, <1>4 DEF RegistryInv, IdsBelowNext, Entries

(* An exit starts the registry afresh. *)
LEMMA ExitKeeps == ASSUME Exit PROVE RegistryInv'
  BY DEF Exit, RegistryInv, IdsBelowNext, MapsAgree, Entries

(* No other step touches the registry. *)
LEMMA OthersKeep ==
  ASSUME RegistryInv, UNCHANGED <<byRoot, byId, nextId, issued>> PROVE RegistryInv'
  BY DEF RegistryInv, IdsBelowNext, MapsAgree, Entries

LEMMA StepKeeps == RegistryInv /\ [Next]_vars => RegistryInv'
<1> SUFFICES ASSUME RegistryInv, [Next]_vars PROVE RegistryInv'
  OBVIOUS
<1>1. ASSUME NEW d \in Dirs, GitChange(d) \/ Expire(d) \/ Forget(d) PROVE RegistryInv'
  BY <1>1, OthersKeep DEF GitChange, Expire, Forget, engineVars
<1>2. ASSUME NEW d \in Dirs, NEW watch \in BOOLEAN, Lookup(d, watch) PROVE RegistryInv'
  BY <1>2, OthersKeep DEF Lookup, engineVars
<1>3. ASSUME NEW e \in unseen, GitEntryChanged(e) PROVE RegistryInv'
  BY <1>3, OthersKeep DEF GitEntryChanged, engineVars
<1>4. CASE EngineAdd
  BY <1>4, AddKeeps
<1>5. CASE EngineWatch
  BY <1>5, OthersKeep DEF EngineWatch
<1>6. ASSUME NEW c \in closes, CloseBegin(c) PROVE RegistryInv'
  BY <1>6, OthersKeep DEF CloseBegin
<1>7. ASSUME NEW c \in closes, CloseEnd(c) PROVE RegistryInv'
  BY <1>7, RemoveKeeps
<1>8. CASE LookupAnswered \/ WatchAnswered \/ RediscoverAnswered
  BY <1>8, OthersKeep DEF LookupAnswered, WatchAnswered, RediscoverAnswered, Answered, engineVars
<1>9. CASE Exit
  BY <1>9, ExitKeeps
<1>10. CASE Respawn \/ Restarted \/ Announce
  BY <1>10, OthersKeep DEF Respawn, Restarted, Announce, engineVars
<1>11. CASE UNCHANGED vars
  BY <1>11, OthersKeep DEF vars, engineVars
<1> QED
  BY <1>1, <1>2, <1>3, <1>4, <1>5, <1>6, <1>7, <1>8, <1>9, <1>10, <1>11 DEF Next

(* RegistryExact: in every reachable state a root has one id, an id one root, and
   idByRoot_ and byId_ hold the same pairs (registry.cpp). *)
THEOREM RegistryAgrees == Spec => []RegistryExact
<1>1. RegistryInv => RegistryExact
  BY DEF RegistryInv, IdsBelowNext, MapsAgree, RegistryExact
<1> QED BY <1>1, InitRegistry, StepKeeps, PTL DEF Spec

-----------------------------------------------------------------------------
(* The client's list.  What its variables hold. *)
RepoType == [id : Nat, root : Dirs, watched : BOOLEAN, aliases : SUBSET Dirs]
RequestType ==
  {r \in [dir : Dirs, watch : BOOLEAN, for : {"lookup", "watch", "rediscover"}, id : Nat] :
     r.for = "watch" => r.watch}
AnswerType == [to : RequestType, id : Nat, root : Dirs]
LoopType == [left : Seq(RepoType), before : SUBSET Dirs]

ListType ==
  /\ gits \subseteq Dirs /\ lost \subseteq Dirs /\ engine \in {"up", "down", "starting"}
  /\ nextId > 0 /\ issued \subseteq [id : Nat \ {0}, root : Dirs]
  /\ watches \subseteq [id : Nat, live : BOOLEAN] /\ added \in Nat
  /\ closes \subseteq [id : Nat, begun : BOOLEAN]
  /\ registered \in Seq(RepoType) /\ discovers \in Seq(RequestType) /\ answers \in Seq(AnswerType)
  /\ directories \in [Dirs -> Nat \cup {Nothing}]
  /\ loop # << >> => loop[1] \in LoopType /\ loop[1].left # << >> /\ engine = "up"

(* What the engine has answered is an id it issued, for the root it was given to. *)
Issued(r) == [id |-> r.id, root |-> r.root] \in issued
AnswersIssued ==
  /\ added # 0 => discovers # << >> /\ \E e \in issued : e.id = added
  /\ \A a \in ToSet(answers) : a.id # 0 => Issued(a)

(* An answer to a request with a watch is of a watched repository, while it is held:
   the .git of what was issued is there unless it has gone, and a watch is live unless
   its .git has. *)
Watched(r) == Held(r) => [id |-> r.id, live |-> TRUE] \in watches
AnswersWatched ==
  /\ \A e \in issued : e.root \in gits \cup lost
  /\ \A w \in watches : w.live \/ \E e \in issued : e.id = w.id /\ e.root \in lost
  /\ \A a \in ToSet(answers) : a.to.watch /\ a.id # 0 => Watched(a)

(* So is what the client lists, and what it keeps of a directory is listed. *)
Listed ==
  engine = "up" =>
    /\ \A r \in ToSet(registered) : Issued(r) /\ (r.watched => Watched(r))
    /\ \A d \in Dirs : directories[d] \in Nat \ {NoAnswer} =>
                         \E r \in ToSet(registered) : r.id = directories[d]

(* rediscoverAll has one request under way, for the repository at the head of what it
   has left, and none when it is over. *)
Asks(i) == i \in 1 .. Len(discovers) /\ discovers[i].for = "rediscover"
IsAnswer(i) == i \in 1 .. Len(answers) /\ answers[i].to.for = "rediscover"
LoopExact ==
  /\ \A i \in Nat : Asks(i) => loop # << >> /\ discovers[i].watch = loop[1].left[1].watched
  /\ \A i \in Nat : IsAnswer(i) => loop # << >> /\ answers[i].to.watch = loop[1].left[1].watched
  /\ \A i, j \in Nat : Asks(i) /\ Asks(j) => i = j
  /\ \A i, j \in Nat : IsAnswer(i) /\ IsAnswer(j) => i = j
  /\ \A i, j \in Nat : ~(Asks(i) /\ IsAnswer(j))

(* The listeners were told of the list as it is, or as it was before the rediscovery. *)
Announced == told = IF loop = << >> THEN Roots(registered) ELSE loop[1].before

ListInv ==
  /\ RegistryInv /\ ListType /\ AnswersIssued /\ AnswersWatched /\ Listed /\ LoopExact /\ Announced

-----------------------------------------------------------------------------
(* Sequences: what is put behind one, and what is left of it. *)
LEMMA Appended ==
  ASSUME NEW S, NEW s \in Seq(S), NEW e \in S
  PROVE  /\ Append(s, e) \in Seq(S) /\ Append(s, e) # << >> /\ Len(Append(s, e)) = Len(s) + 1
         /\ \A i \in 1 .. Len(s) : Append(s, e)[i] = s[i]
         /\ Append(s, e)[Len(s) + 1] = e
         /\ ToSet(Append(s, e)) = ToSet(s) \cup {e}
<1>1. /\ Append(s, e) \in Seq(S) /\ DOMAIN Append(s, e) = 1 .. Len(s) + 1 /\ DOMAIN s = 1 .. Len(s)
      /\ Len(Append(s, e)) = Len(s) + 1 /\ Append(s, e) # << >> /\ Len(s) \in Nat
  OBVIOUS
<1>2. \A i \in 1 .. Len(s) : Append(s, e)[i] = s[i]
  OBVIOUS
<1>3. Append(s, e)[Len(s) + 1] = e
  OBVIOUS
<1>4. \A x : x \in ToSet(Append(s, e)) <=> x \in ToSet(s) \cup {e}
  BY <1>1, <1>2, <1>3 DEF ToSet
<1> QED BY <1>1, <1>2, <1>3, <1>4

LEMMA Followed ==
  ASSUME NEW S, NEW s \in Seq(S), s # << >>
  PROVE  /\ Tail(s) \in Seq(S) /\ Head(s) \in S /\ Head(s) = s[1] /\ Len(s) \in Nat \ {0}
         /\ Len(Tail(s)) = Len(s) - 1 /\ \A i \in 1 .. Len(s) - 1 : Tail(s)[i] = s[i + 1]
         /\ ToSet(s) = {Head(s)} \cup ToSet(Tail(s))
<1>1. /\ Tail(s) \in Seq(S) /\ Head(s) \in S /\ Head(s) = s[1] /\ Len(s) \in Nat \ {0}
      /\ DOMAIN s = 1 .. Len(s) /\ DOMAIN Tail(s) = 1 .. Len(s) - 1 /\ Len(Tail(s)) = Len(s) - 1
  OBVIOUS
<1>2. \A i \in 1 .. Len(s) - 1 : Tail(s)[i] = s[i + 1]
  OBVIOUS
<1>3. \A x \in ToSet(s) : x \in {Head(s)} \cup ToSet(Tail(s))
  <2> SUFFICES ASSUME NEW i \in 1 .. Len(s) PROVE s[i] \in {Head(s)} \cup ToSet(Tail(s))
    BY <1>1 DEF ToSet
  <2>1. CASE i = 1
    BY <1>1, <2>1
  <2>2. CASE i # 1
    <3>1. i - 1 \in 1 .. Len(s) - 1 /\ Tail(s)[i - 1] = s[i]
      BY <1>1, <1>2, <2>2
    <3> QED BY <1>1, <3>1 DEF ToSet
  <2> QED BY <2>1, <2>2
<1>4. \A x \in {Head(s)} \cup ToSet(Tail(s)) : x \in ToSet(s)
  BY <1>1, <1>2 DEF ToSet
<1> QED BY <1>1, <1>2, <1>3, <1>4

LEMMA Elements ==
  /\ ToSet(<< >>) = {}
  /\ \A S : \A s \in Seq(S) : /\ ToSet(s) \subseteq S /\ DOMAIN s = 1 .. Len(s) /\ Len(s) \in Nat
                              /\ ToSet(s) = {s[i] : i \in 1 .. Len(s)}
  BY DEF ToSet

LEMMA RootsAre == \A records : Roots(records) = {r.root : r \in ToSet(records)}
  BY DEF Roots, ToSet

-----------------------------------------------------------------------------
(* register(): an entry of another id stays as it is, and one of this id is of this
   root, and watched if one was or is to be. *)
LEMMA UpsertType ==
  ASSUME NEW records \in Seq(RepoType), NEW id \in Nat, NEW root \in Dirs, NEW watch \in BOOLEAN,
         NEW aliases \in SUBSET Dirs
  PROVE  LET u == Upsert(records, id, root, watch, aliases) IN
         /\ u \in Seq(RepoType)
         /\ \A r \in ToSet(u) :
              \/ r \in ToSet(records) /\ r.id # id
              \/ /\ r.id = id /\ r.root = root
                 /\ r.watched => watch \/ \E q \in ToSet(records) : q.id = id /\ q.watched
         /\ \A q \in ToSet(records) : \E r \in ToSet(u) : r.id = q.id
         /\ \E r \in ToSet(u) : r.id = id
<1> DEFINE u == Upsert(records, id, root, watch, aliases)
           at == {i \in DOMAIN records : records[i].id = id}
           new == [id |-> id, root |-> root, watched |-> watch, aliases |-> aliases \cap Respelled]
<1>0. new \in RepoType /\ new.id = id /\ new.root = root /\ new.watched = watch
  BY DEF RepoType
<1>1. CASE at = {}
  <2>1. u = Append(records, new)
    BY <1>1 DEF Upsert
  <2>2. u \in Seq(RepoType) /\ ToSet(u) = ToSet(records) \cup {new}
    <3> HIDE DEF new
    <3> QED BY <1>0, <2>1, Appended
  <2>3. \A q \in ToSet(records) : q.id # id
    BY <1>1 DEF ToSet
  <2> QED BY <1>0, <2>2, <2>3
<1>2. CASE at # {}
  <2>1. /\ DOMAIN u = DOMAIN records
        /\ \A i \in DOMAIN records :
             u[i] = IF i \in at
                      THEN [records[i] EXCEPT !.root = root, !.watched = @ \/ watch, !.aliases = @ \cup new.aliases]
                      ELSE records[i]
    BY <1>2 DEF Upsert
  <2>2. DOMAIN records = 1 .. Len(records) /\ Len(records) \in Nat
        /\ \A i \in DOMAIN records : records[i] \in RepoType
    OBVIOUS
  <2>3. ASSUME NEW i \in DOMAIN records
        PROVE  /\ u[i] \in RepoType /\ u[i].id = records[i].id
               /\ records[i].id = id => u[i].root = root /\ (u[i].watched => watch \/ records[i].watched)
               /\ records[i].id # id => u[i] = records[i]
    <3>1. CASE records[i].id = id
      <4>1. u[i] = [records[i] EXCEPT !.root = root, !.watched = @ \/ watch, !.aliases = @ \cup new.aliases]
        BY <2>1, <3>1
      <4>2. new.aliases \in SUBSET Dirs /\ records[i] \in RepoType
        BY <2>2
      <4> HIDE DEF u, new
      <4> QED BY <3>1, <4>1, <4>2 DEF RepoType
    <3>2. CASE records[i].id # id
      BY <2>1, <2>2, <3>2
    <3> QED BY <3>1, <3>2
  <2>4. u \in [1 .. Len(records) -> RepoType]
    <3>1. u = [i \in DOMAIN records |-> u[i]]
      BY <1>2 DEF Upsert
    <3> QED BY <2>2, <2>3, <3>1
  <2>5. u \in Seq(RepoType)
    BY <2>2, <2>4
  <2> HIDE DEF u
  <2>6. /\ ToSet(u) = {u[i] : i \in DOMAIN records}
        /\ ToSet(records) = {records[i] : i \in DOMAIN records}
    BY <2>1 DEF ToSet
  <2>7. \A r \in ToSet(u) :
          \/ r \in ToSet(records) /\ r.id # id
          \/ /\ r.id = id /\ r.root = root
             /\ r.watched => watch \/ \E q \in ToSet(records) : q.id = id /\ q.watched
    BY <2>3, <2>6
  <2>8. (\A q \in ToSet(records) : \E r \in ToSet(u) : r.id = q.id) /\ \E r \in ToSet(u) : r.id = id
    BY <1>2, <2>3, <2>6
  <2> QED BY <2>5, <2>7, <2>8 DEF u
<1> QED BY <1>1, <1>2

\* An entry that is there stays of its root.
LEMMA UpsertRoots ==
  ASSUME NEW records \in Seq(RepoType), NEW id, NEW root, NEW watch, NEW aliases,
         \E r \in ToSet(records) : r.id = id, \A r \in ToSet(records) : r.id = id => r.root = root
  PROVE  Roots(Upsert(records, id, root, watch, aliases)) = Roots(records)
<1> DEFINE u == Upsert(records, id, root, watch, aliases)
           at == {i \in DOMAIN records : records[i].id = id}
<1>1. at # {} /\ \A i \in at : records[i].root = root
  BY DEF ToSet
<1>2. \A i \in DOMAIN records : records[i] \in RepoType
  OBVIOUS
<1>3. DOMAIN u = DOMAIN records /\ \A i \in DOMAIN records : u[i].root = records[i].root
  BY <1>1, <1>2 DEF Upsert, RepoType
<1> QED BY <1>3 DEF Roots

-----------------------------------------------------------------------------
(* What the steps do to the requests under way: one is asked for ... *)
Asked == discovers' = discovers \/ \E r \in RequestType : r.for # "rediscover" /\ discovers' = Append(discovers, r)

(* ... or the one at the head of the strand is answered, or an answer is taken. *)
Replies(a) == discovers # << >> /\ a.to = Head(discovers) /\ answers' = Append(answers, a) /\ discovers' = Tail(discovers)

Taken == answers # << >> /\ answers' = Tail(answers)

LEMMA LocateType ==
  ASSUME NEW records \in Seq(RepoType), NEW answer, NEW d PROVE Locate(records, answer, d) \in Nat
<1>1. \A i \in DOMAIN records : records[i] \in RepoType
  OBVIOUS
<1> QED BY <1>1 DEF Locate, RepoType

LEMMA EnsureAsks ==
  ASSUME NEW records \in Seq(RepoType), NEW id \in Nat, EnsureWatched(records, id, discovers)
  PROVE  Asked
<1>1. CASE Unwatched(records, id) # {} /\ id \notin watching
  <2>1. PICK i \in DOMAIN records : i = CHOOSE j \in Unwatched(records, id) : TRUE
    BY <1>1 DEF Unwatched
  <2>2. records[i] \in RepoType
    OBVIOUS
  <2>3. WatchRequest(records, id) = [dir |-> records[i].root, watch |-> TRUE, for |-> "watch", id |-> id]
    BY <2>1 DEF WatchRequest
  <2>4. WatchRequest(records, id) \in RequestType /\ WatchRequest(records, id).for = "watch"
    BY <2>2, <2>3 DEF RequestType, RepoType
  <2> QED BY <1>1, <2>4 DEF EnsureWatched, Asked
<1> QED BY <1>1 DEF EnsureWatched, Asked

LEMMA LookupAsks == ASSUME ListType, NEW d \in Dirs, NEW watch \in BOOLEAN, Lookup(d, watch) PROVE Asked
<1>1. CASE directories[d] = NoAnswer
  <2>1. [dir |-> d, watch |-> watch, for |-> "lookup", id |-> 0] \in RequestType
    BY DEF RequestType
  <2> QED BY <1>1, <2>1 DEF Lookup, Asked
<1>2. CASE directories[d] # NoAnswer
  BY <1>2, LocateType, EnsureAsks DEF Lookup, ListType
<1> QED BY <1>1, <1>2

\* The answer at hand.
LEMMA AnswerHere ==
  ASSUME ListType, NEW for, Answered(for)
  PROVE  /\ Taken /\ Answer \in AnswerType /\ Answer \in ToSet(answers) /\ answers[1] = Answer
         /\ Answer.to.for = for /\ engine = "up"
         /\ answers' \in Seq(AnswerType) /\ ToSet(answers') \subseteq ToSet(answers)
  BY Followed DEF ListType, Answered, Answer, Taken

LEMMA LookupListed ==
  ASSUME ListType, LookupAnswered, Answer.id # 0
  PROVE  LET records == Upsert(registered, Answer.id, Answer.root, Answer.to.watch, {Answer.root})
         IN  registered' = records /\ records \in Seq(RepoType)
  BY AnswerHere, UpsertType DEF LookupAnswered, ListType, AnswerType, RequestType

LEMMA LookupAnsweredAsks == ASSUME ListType, LookupAnswered PROVE Asked
<1>1. Answer \in AnswerType
  BY AnswerHere DEF LookupAnswered
<1>2. CASE Answer.id = 0
  BY <1>2 DEF LookupAnswered, Asked
<1>3. CASE Answer.id # 0
  <2> DEFINE records == Upsert(registered, Answer.id, Answer.root, Answer.to.watch, {Answer.root})
             at == Locate(records, Answer.id, Answer.to.dir)
  <2>1. records \in Seq(RepoType) /\ at \in Nat
    BY <1>3, LookupListed, LocateType
  <2>2. EnsureWatched(records, at, discovers) \/ discovers' = discovers
    BY <1>3 DEF LookupAnswered
  <2> HIDE DEF records, at
  <2> QED BY <2>1, <2>2, EnsureAsks DEF Asked
<1> QED BY <1>2, <1>3

LEMMA AskedType == ASSUME ListType, Asked PROVE discovers' \in Seq(RequestType)
<1>1. CASE discovers' = discovers
  BY <1>1 DEF ListType
<1>2. ASSUME NEW r \in RequestType,
             discovers' = Append(discovers, r) PROVE discovers' \in Seq(RequestType)
  BY <1>2, Appended DEF ListType
<1> QED BY <1>1, <1>2 DEF Asked

LEMMA InnermostRoot ==
  ASSUME NEW d \in Dirs, Holding(d) # {} PROVE RootFor(d) \in gits /\ RootFor(d) \in Dirs
<1>1. Holding(d) \in SUBSET Inside(d) /\ Inside(d) \subseteq Dirs
  BY RepositoriesAssumption DEF Holding
<1>2. \E r \in Holding(d) : Holding(d) \subseteq Inside(r)
  <2>1. \A S \in SUBSET Inside(d) : S # {} => \E r \in S : S \subseteq Inside(r)
    BY RepositoriesAssumption
  <2> QED BY <1>1, <2>1
<1>3. RootFor(d) \in Holding(d)
  BY <1>2 DEF RootFor
<1> QED BY <1>1, <1>3 DEF Holding

(* The discover at the head of the strand: a directory of none is answered, and a root
   that has an id keeps it, another gets the next one ... *)
Fresh(root) == LET e == [id |-> nextId, root |-> root] IN
  /\ added' = nextId /\ nextId' = nextId + 1 /\ byId' = byId \cup {e} /\ issued' = issued \cup {e}

LEMMA AddOutcomes ==
  ASSUME RegistryInv, ListType, EngineAdd
  PROVE  \/ (\E a \in AnswerType : a.id = 0 /\ Replies(a)) /\ UNCHANGED <<added, byId, issued,
                                                                          nextId>>
         \/ /\ discovers # << >> /\ UNCHANGED <<discovers, answers>>
            /\ \/ added' \in Nat /\ (\E e \in issued : e.id = added') /\ UNCHANGED <<byId, issued,
                                                                                     nextId>>
               \/ \E root \in gits \cap Dirs : Fresh(root)
<1> DEFINE request == Head(discovers)
           root == RootFor(request.dir)
           known == {e \in byRoot : e.root = root}
<1>1. discovers # << >> /\ request \in RequestType /\ request.dir \in Dirs
  BY Followed DEF EngineAdd, ListType, RequestType
<1>2. CASE Holding(request.dir) = {}
  <2> DEFINE a == [to |-> request, id |-> 0, root |-> request.dir]
  <2>1. a \in AnswerType /\ a.id = 0 /\ a.to = request
    BY <1>1 DEF AnswerType
  <2>2. answers' = Append(answers, a) /\ discovers' = Tail(discovers) /\ UNCHANGED <<added, byId,
                                                                                     issued, nextId>>
    BY <1>2 DEF EngineAdd
  <2>3. Replies(a)
    BY <1>1, <2>1, <2>2 DEF Replies
  <2> QED BY <2>1, <2>2, <2>3
<1>3. CASE Holding(request.dir) # {} /\ known # {}
  <2>1. UNCHANGED <<discovers, answers, byId, issued,
                    nextId>> /\ added' = (CHOOSE e \in known : TRUE).id
    BY <1>3 DEF EngineAdd
  <2>2. PICK e \in known : added' = e.id
    BY <1>3, <2>1
  <2>3. e \in issued /\ added' \in Nat
    BY <2>2 DEF RegistryInv, MapsAgree, IdsBelowNext
  <2> QED BY <1>1, <2>1, <2>2, <2>3
<1>4. CASE Holding(request.dir) # {} /\ known = {}
  <2>1. UNCHANGED <<discovers, answers>> /\ Fresh(root)
    BY <1>4 DEF EngineAdd, Fresh
  <2>2. root \in gits \cap Dirs
    BY <1>1, <1>4, InnermostRoot
  <2> QED BY <1>1, <2>1, <2>2
<1> QED BY <1>2, <1>3, <1>4

(* ... and the id is then watched, unless it is or cannot be opened, and answered. *)
LEMMA WatchOutcomes ==
  ASSUME ListType, AnswersIssued, EngineWatch
  PROVE  \E a \in AnswerType :
           /\ Replies(a) /\ a.id # 0 /\ Issued(a) /\ added' = 0
           /\ watches' \in {watches, watches \cup {[id |-> a.id, live |-> TRUE]}}
           /\ a.to.watch /\ Opens(a.id) => \E w \in watches' : w.id = a.id
<1>1. added # 0 /\ added \in Nat /\ discovers # << >> /\ Head(discovers) \in RequestType
  BY Followed DEF EngineWatch, AnswersIssued, ListType
<1>2. PICK e \in issued : e = CHOOSE f \in issued : f.id = added
  BY <1>1 DEF AnswersIssued
<1>3. e.id = added /\ e \in [id : Nat \ {0}, root : Dirs]
  BY <1>1, <1>2 DEF AnswersIssued, ListType
<1> DEFINE a == [to |-> Head(discovers), id |-> added, root |-> e.root]
<1>4. a \in AnswerType /\ a.id = added /\ a.to = Head(discovers) /\ a.root = e.root
  BY <1>1, <1>3 DEF AnswerType
<1>5. answers' = Append(answers, a) /\ discovers' = Tail(discovers) /\ added' = 0
  BY <1>2 DEF EngineWatch
<1>6. Replies(a)
  BY <1>1, <1>4, <1>5 DEF Replies
<1>7. Issued(a)
  BY <1>3, <1>4 DEF Issued
<1>8. /\ watches' \in {watches, watches \cup {[id |-> added, live |-> TRUE]}}
      /\ Head(discovers).watch /\ Opens(added) => \E w \in watches' : w.id = added
  <2> DEFINE w == [id |-> added, live |-> TRUE]
  <2>1. w.id = added
    OBVIOUS
  <2>2. CASE Head(discovers).watch /\ Opens(added) /\ ~(\E v \in watches : v.id = added)
    <3>1. watches' = watches \cup {w}
      BY <2>2 DEF EngineWatch
    <3> QED BY <2>1, <3>1
  <2>3. CASE ~(Head(discovers).watch /\ Opens(added) /\ ~(\E v \in watches : v.id = added))
    <3>1. watches' = watches
      BY <2>3 DEF EngineWatch
    <3> QED BY <2>3, <3>1
  <2> QED BY <2>2, <2>3
<1> HIDE DEF a
<1> QED BY <1>1, <1>4, <1>5, <1>6, <1>7, <1>8

LEMMA RepliesType ==
  ASSUME ListType, NEW a \in AnswerType, Replies(a)
  PROVE  /\ discovers' \in Seq(RequestType) /\ answers' \in Seq(AnswerType)
         /\ ToSet(answers') = ToSet(answers) \cup {a}
  BY Followed, Appended DEF Replies, ListType

(* A rediscovery answered. *)
LEMMA RediscoverListed ==
  ASSUME ListType, LoopExact, RediscoverAnswered
  PROVE  LET repo == Head(loop[1].left)
             left == Tail(loop[1].left)
             records == IF Answer.id = 0 THEN registered
                        ELSE Upsert(registered, Answer.id, Answer.root, repo.watched, repo.aliases)
         IN  /\ repo \in RepoType /\ left \in Seq(RepoType) /\ loop # << >> /\ loop[1] \in LoopType
             /\ repo = loop[1].left[1] /\ repo.watched = Answer.to.watch
             /\ registered' = records /\ records \in Seq(RepoType) /\ Answer \in AnswerType
<1> DEFINE repo == Head(loop[1].left)
           left == Tail(loop[1].left)
           records == IF Answer.id = 0 THEN registered
                      ELSE Upsert(registered, Answer.id, Answer.root, repo.watched, repo.aliases)
<1>1. /\ Answer \in AnswerType /\ answers[1] = Answer /\ Answer.to.for = "rediscover"
      /\ answers # << >>
  BY AnswerHere DEF RediscoverAnswered, Taken
<1>2. IsAnswer(1) /\ 1 \in Nat
  BY <1>1, Followed DEF IsAnswer, ListType
<1>3. loop # << >> /\ answers[1].to.watch = loop[1].left[1].watched
  BY <1>2 DEF LoopExact
<1>4. loop[1] \in LoopType /\ loop[1].left \in Seq(RepoType) /\ loop[1].left # << >>
  BY <1>3 DEF ListType, LoopType
<1>5. repo \in RepoType /\ left \in Seq(RepoType) /\ repo = loop[1].left[1]
  BY <1>4, Followed
<1>6. records \in Seq(RepoType)
  <2>1. /\ registered \in Seq(RepoType) /\ Answer.id \in Nat /\ Answer.root \in Dirs
        /\ repo.watched \in BOOLEAN /\ repo.aliases \in SUBSET Dirs
    BY <1>1, <1>5 DEF ListType, AnswerType, RepoType
  <2> HIDE DEF repo
  <2> QED BY <2>1, UpsertType
<1>7. registered' = records
  BY DEF RediscoverAnswered
<1> QED BY <1>1, <1>3, <1>4, <1>5, <1>6, <1>7

LEMMA ForgetListed ==
  ASSUME ListType, NEW d \in Dirs, Forget(d)
  PROVE  registered' \in Seq(RepoType) /\ ToSet(registered') \subseteq ToSet(registered)
<1> DEFINE gone == {i \in DOMAIN registered : d \in {registered[i].root} \cup registered[i].aliases}
           kept == DOMAIN registered \ gone
<1>0. /\ registered \in Seq(RepoType) /\ DOMAIN registered = 1 .. Len(registered)
      /\ Len(registered) \in Nat
  BY DEF ListType
<1>1. CASE gone = {}
  BY <1>0, <1>1 DEF Forget
<1>2. CASE gone # {}
  <2>1. PICK at \in [1 .. Cardinality(kept) -> kept] : registered' = [n \in DOMAIN at |-> registered[at[n]]]
    BY <1>2 DEF Forget
  <2>2. Cardinality(kept) \in Nat
    <3>0. PICK n \in Nat : n = Len(registered)
      BY <1>0
    <3>1. IsFiniteSet(1 .. n) /\ kept \subseteq 1 .. n
      BY <1>0, <3>0, FS_Interval
    <3> HIDE DEF kept
    <3> QED BY <3>1, FS_Subset, FS_CardinalityType
  <2>3. PICK k \in Nat : k = Cardinality(kept)
    BY <2>2
  <2>4. DOMAIN at = 1 .. k /\ \A n \in 1 .. k : at[n] \in 1 .. Len(registered)
    BY <1>0, <2>1, <2>3
  <2>5. registered' = [n \in 1 .. k |-> registered[at[n]]] /\ \A n \in 1 .. k : registered[at[n]] \in RepoType
    BY <1>0, <2>1, <2>4
  <2>6. registered' \in [1 .. k -> RepoType]
    BY <2>5
  <2>7. registered' \in Seq(RepoType) /\ DOMAIN registered' = 1 .. k
    <3>1. k \in Nat
      OBVIOUS
    <3> HIDE DEF kept, gone
    <3>2. PICK s \in [1 .. k -> RepoType] : s = registered'
      BY <2>6
    <3>3. s \in Seq(RepoType) /\ DOMAIN s = 1 .. k
      BY <3>1
    <3> QED BY <3>2, <3>3
  <2>8. ToSet(registered') \subseteq ToSet(registered)
    BY <1>0, <2>4, <2>5, <2>7 DEF ToSet
  <2> QED BY <2>7, <2>8
<1> QED BY <1>1, <1>2

(* WatchAnswered marks the entries of an id. *)
LEMMA MarkListed ==
  ASSUME ListType, WatchAnswered
  PROVE  /\ registered' \in Seq(RepoType) /\ Roots(registered)' = Roots(registered)
         /\ \A r \in ToSet(registered') : \E q \in ToSet(registered) :
              r.id = q.id /\ r.root = q.root /\ (r.watched => q.watched \/ q.id = Answer.id)
         /\ \A q \in ToSet(registered) : \E r \in ToSet(registered') : r.id = q.id
<1>0. /\ registered \in Seq(RepoType) /\ DOMAIN registered = 1 .. Len(registered)
      /\ Len(registered) \in Nat
      /\ \A i \in 1 .. Len(registered) : registered[i] \in RepoType
  BY DEF ListType
<1> DEFINE marked(i) == IF registered[i].id = Answer.id THEN [registered[i] EXCEPT !.watched = TRUE]
                                                        ELSE registered[i]
<1>1. registered' = [i \in 1 .. Len(registered) |-> marked(i)]
  BY <1>0 DEF WatchAnswered
<1>2. ASSUME NEW i \in 1 .. Len(registered)
      PROVE  /\ marked(i) \in RepoType /\ marked(i).id = registered[i].id /\ marked(i).root = registered[i].root
             /\ marked(i).watched => registered[i].watched \/ registered[i].id = Answer.id
  BY <1>0 DEF RepoType
<1> HIDE DEF marked
<1>3. registered' \in [1 .. Len(registered) -> RepoType]
  BY <1>1, <1>2
<1>4. registered' \in Seq(RepoType)
  BY <1>0, <1>3
<1>5. DOMAIN registered' = 1 .. Len(registered) /\ \A i \in 1 .. Len(registered) : registered'[i] = marked(i)
  BY <1>1
<1>6. Roots(registered)' = Roots(registered)
  BY <1>0, <1>2, <1>5 DEF Roots
<1>7. ToSet(registered') = {marked(i) : i \in 1 .. Len(registered)}
      /\ ToSet(registered) = {registered[i] : i \in 1 .. Len(registered)}
  BY <1>0, <1>5 DEF ToSet
<1> QED BY <1>2, <1>4, <1>6, <1>7

-----------------------------------------------------------------------------
(* Types. *)
LEMMA StepListType ==
  ASSUME RegistryInv, ListType, AnswersIssued, LoopExact, [Next]_vars PROVE ListType'
<1>1. ASSUME NEW d \in Dirs, GitChange(d) PROVE ListType'
  <2>1. watches' \subseteq [id : Nat, live : BOOLEAN]
    BY <1>1 DEF GitChange, ListType
  <2> QED BY <1>1, <2>1 DEF GitChange, ListType, clientVars
<1>2. CASE EngineAdd
  <2>1. nextId \in Nat
    BY DEF RegistryInv, IdsBelowNext
  <2>2. nextId' > 0 /\ issued' \subseteq [id : Nat \ {0}, root : Dirs] /\ added' \in Nat
    BY <1>2, <2>1, AddOutcomes DEF ListType, Fresh
  <2>3. discovers' \in Seq(RequestType) /\ answers' \in Seq(AnswerType)
    BY <1>2, AddOutcomes, RepliesType DEF ListType
  <2> QED BY <1>2, <2>2, <2>3 DEF EngineAdd, ListType, fsVars, clientVars
<1>3. CASE EngineWatch
  <2>1. PICK a \in AnswerType : /\ Replies(a) /\ added' = 0
                                /\ watches' \in {watches, watches \cup {[id |-> a.id, live |-> TRUE]}}
    BY <1>3, WatchOutcomes
  <2>2. discovers' \in Seq(RequestType) /\ answers' \in Seq(AnswerType)
    BY <2>1, RepliesType
  <2>3. watches' \subseteq [id : Nat, live : BOOLEAN]
    <3>1. [id |-> a.id, live |-> TRUE] \in [id : Nat, live : BOOLEAN]
      BY DEF AnswerType
    <3> QED BY <2>1, <3>1 DEF ListType
  <2> QED BY <1>3, <2>1, <2>2, <2>3 DEF EngineWatch, ListType, fsVars, clientVars
<1>4. ASSUME NEW c \in closes, CloseBegin(c) \/ CloseEnd(c) PROVE ListType'
  <2>1. closes' \subseteq [id : Nat, begun : BOOLEAN]
    <3>1. [c EXCEPT !.begun = TRUE] \in [id : Nat, begun : BOOLEAN]
      BY DEF ListType
    <3>2. closes' \subseteq closes \cup {[c EXCEPT !.begun = TRUE]}
      BY <1>4 DEF CloseBegin, CloseEnd
    <3> QED BY <3>1, <3>2 DEF ListType
  <2> QED BY <1>4, <2>1 DEF CloseBegin, CloseEnd, ListType, fsVars, clientVars
<1>5. ASSUME NEW d \in Dirs, NEW watch \in BOOLEAN, Lookup(d, watch) PROVE ListType'
  BY <1>5, LookupAsks, AskedType DEF Lookup, ListType, fsVars, engineVars, clientVars
<1>6. ASSUME NEW d \in Dirs, Expire(d) PROVE ListType'
  BY <1>6 DEF Expire, ListType, fsVars, engineVars, NoAnswer
<1>7. CASE LookupAnswered
  <2>1. Answer \in AnswerType /\ answers' \in Seq(AnswerType)
    BY <1>7, AnswerHere DEF LookupAnswered
  <2>2. discovers' \in Seq(RequestType)
    BY <1>7, LookupAnsweredAsks, AskedType
  <2>3. registered' \in Seq(RepoType)
    BY <1>7, LookupListed DEF LookupAnswered, ListType
  <2>4. directories' \in [Dirs -> Nat \cup {Nothing}]
    BY <1>7, <2>1 DEF LookupAnswered, ListType, AnswerType
  <2> QED BY <1>7, <2>1, <2>2, <2>3, <2>4 DEF LookupAnswered, Answered, ListType, fsVars, engineVars
<1>8. CASE WatchAnswered
  <2>1. answers' \in Seq(AnswerType)
    BY <1>8, AnswerHere DEF WatchAnswered
  <2> QED BY <1>8, <2>1, MarkListed DEF WatchAnswered, Answered, ListType, fsVars, engineVars
<1>9. CASE RediscoverAnswered
  <2>1. answers' \in Seq(AnswerType) /\ engine = "up"
    BY <1>9, AnswerHere DEF RediscoverAnswered
  <2>2. PICK left \in Seq(RepoType) : left = Tail(loop[1].left)
    BY <1>9, RediscoverListed
  <2>3. loop[1] \in LoopType /\ registered' \in Seq(RepoType)
    BY <1>9, RediscoverListed
  <2>4. /\ discovers' \in Seq(RequestType)
        /\ loop' # << >> => loop'[1] \in LoopType /\ loop'[1].left # << >>
    <3>1. CASE left # << >>
      <4>1. /\ loop' = <<[loop[1] EXCEPT !.left = left]>>
            /\ discovers' = Append(discovers, Rediscover(left[1]))
        BY <1>9, <2>2, <3>1 DEF RediscoverAnswered
      <4>2. left[1] \in RepoType
        BY <2>2, <3>1, Followed
      <4>3. Rediscover(left[1]) \in RequestType
        BY <4>2 DEF Rediscover, RequestType, RepoType
      <4> QED BY <2>2, <2>3, <3>1, <4>1, <4>3, Appended DEF ListType, LoopType
    <3>2. CASE left = << >>
      BY <1>9, <2>2, <3>2 DEF RediscoverAnswered, ListType
    <3> QED BY <3>1, <3>2
  <2> QED BY <1>9, <2>1, <2>3, <2>4 DEF RediscoverAnswered, Answered, ListType, fsVars, engineVars
<1>10. CASE Exit
  <2>1. << >> \in Seq(RequestType) /\ << >> \in Seq(AnswerType)
    OBVIOUS
  <2> QED BY <1>10, <2>1 DEF Exit, ListType, fsVars
<1>11. CASE Respawn
  BY <1>11 DEF Respawn, ListType, fsVars, engineVars, clientVars
<1>12. CASE Restarted
  <2>1. /\ registered' = << >> /\ << >> \in Seq(RepoType)
        /\ directories' \in [Dirs -> Nat \cup {Nothing}] /\ engine' = "up"
    BY <1>12 DEF Restarted, Cleared, NoAnswer
  <2>2. loop = << >>
    BY <1>12 DEF Restarted, ListType
  <2>3. /\ discovers' \in Seq(RequestType)
        /\ loop' # << >> => loop'[1] \in LoopType /\ loop'[1].left # << >>
    <3>1. CASE registered # << >>
      <4>1. /\ loop' = <<[left |-> registered, before |-> Roots(registered)]>>
            /\ discovers' = Append(discovers, Rediscover(registered[1]))
        BY <1>12, <3>1 DEF Restarted
      <4>2. registered \in Seq(RepoType) /\ registered[1] \in RepoType
        BY <3>1, Followed DEF ListType
      <4>3. Rediscover(registered[1]) \in RequestType
        BY <4>2 DEF Rediscover, RequestType, RepoType
      <4>4. Roots(registered) \in SUBSET Dirs
        <5>1. \A i \in DOMAIN registered : registered[i] \in RepoType
          BY <4>2
        <5> QED BY <5>1 DEF Roots, RepoType
      <4> QED BY <3>1, <4>1, <4>2, <4>3, <4>4, Appended DEF ListType, LoopType
    <3>2. CASE registered = << >>
      BY <1>12, <2>2, <3>2 DEF Restarted, ListType
    <3> QED BY <3>1, <3>2
  <2> QED BY <1>12, <2>1, <2>3 DEF Restarted, ListType, fsVars, engineVars
<1>13. ASSUME NEW e \in unseen, GitEntryChanged(e) PROVE ListType'
  BY <1>13 DEF GitEntryChanged, ListType, engineVars, NoAnswer
<1>14. CASE Announce
  BY <1>14 DEF Announce, ListType, fsVars, engineVars, clientVars
<1>15. ASSUME NEW d \in Dirs, Forget(d) PROVE ListType'
  <2>1. directories' \in [Dirs -> Nat \cup {Nothing}]
    BY <1>15 DEF Forget, ListType, NoAnswer
  <2>2. closes' \subseteq [id : Nat, begun : BOOLEAN]
    <3>0. \A i \in DOMAIN registered : registered[i] \in RepoType
      BY DEF ListType
    <3>1. \A i \in DOMAIN registered : registered[i].id \in Nat
      BY <3>0 DEF RepoType
    <3>2. \A x \in closes' : x \in closes \/ \E i \in DOMAIN registered : x = [id |-> registered[i].id, begun |-> FALSE]
      <4> DEFINE gone == {i \in DOMAIN registered : d \in {registered[i].root} \cup registered[i].aliases}
      <4>1. closes' = closes \/ closes' = closes \cup {[id |-> registered[i].id, begun |-> FALSE] : i \in gone}
        BY <1>15 DEF Forget
      <4> QED BY <4>1
    <3>3. \A i \in DOMAIN registered : [id |-> registered[i].id, begun |-> FALSE] \in [id : Nat, begun : BOOLEAN]
      BY <3>1
    <3> QED BY <3>2, <3>3 DEF ListType
  <2> QED BY <1>15, <2>1, <2>2, ForgetListed DEF Forget, ListType, fsVars, engineVars
<1>16. CASE UNCHANGED vars
  BY <1>16 DEF vars, ListType, fsVars, engineVars, clientVars
<1> QED
  BY <1>1, <1>2, <1>3, <1>4, <1>5, <1>6, <1>7, <1>8, <1>9, <1>10, <1>11, <1>12, <1>13, <1>14,
     <1>15, <1>16
  DEF Next

-----------------------------------------------------------------------------
(* No step but the engine's exit takes back an id, or the watch of a repository that
   is held. *)
LEMMA StaysWatched ==
  ASSUME RegistryInv, ListType, AnswersIssued, [Next]_vars, ~Exit
  PROVE  issued \subseteq issued' /\ \A r : Issued(r) /\ Watched(r) => Watched(r)'
<1>0. \A e, f \in issued : e.id = f.id => e = f
  BY DEF RegistryInv, IdsBelowNext
<1>1. ASSUME UNCHANGED <<issued, byId, lost, watches>>, closes \subseteq closes'
      PROVE  issued \subseteq issued' /\ \A r : Issued(r) /\ Watched(r) => Watched(r)'
  BY <1>1 DEF Watched, Held
<1>2. ASSUME NEW d \in Dirs, GitChange(d)
      PROVE  issued \subseteq issued' /\ \A r : Issued(r) /\ Watched(r) => Watched(r)'
  <2> DEFINE after(w) == IF [id |-> w.id, root |-> d] \in issued /\ d \in gits THEN [w EXCEPT !.live = FALSE] ELSE w
  <2>1. /\ lost' = lost \cup ({d} \cap gits) /\ UNCHANGED <<issued, byId, closes>>
        /\ watches' = {after(w) : w \in watches}
    BY <1>2 DEF GitChange
  <2>2. ASSUME NEW r, Issued(r), Watched(r),
               Held(r)' PROVE [id |-> r.id, live |-> TRUE] \in watches'
    <3> DEFINE w == [id |-> r.id, live |-> TRUE]
    <3>1. Held(r) /\ r.root \notin {d} \cap gits
      BY <2>1, <2>2 DEF Held
    <3>2. w \in watches
      BY <2>2, <3>1 DEF Watched
    <3>3. [id |-> r.id, root |-> r.root] \in issued
      BY <2>2 DEF Issued
    <3>4. [id |-> w.id, root |-> d] \in issued => d = r.root
      BY <1>0, <3>3
    <3>5. after(w) = w
      BY <3>1, <3>4
    <3> QED BY <2>1, <3>2, <3>5
  <2> QED BY <2>1, <2>2 DEF Watched
<1>3. CASE EngineAdd
  <2>1. UNCHANGED <<lost, watches, closes>>
    BY <1>3 DEF EngineAdd, fsVars
  <2>2. issued \subseteq issued' /\ \A e \in byId' : e \in byId \/ e.id = nextId
    BY <1>3, AddOutcomes DEF Fresh
  <2>3. ASSUME NEW r, Issued(r), Watched(r),
               Held(r)' PROVE [id |-> r.id, live |-> TRUE] \in watches'
    <3>1. r.id # nextId
      <4>1. PICK e \in issued : e = [id |-> r.id, root |-> r.root]
        BY <2>3 DEF Issued
      <4> QED BY <4>1 DEF RegistryInv, IdsBelowNext
    <3>2. [id |-> r.id, root |-> r.root] \in byId'
      BY <2>3 DEF Held
    <3>3. Held(r)
      BY <2>1, <2>2, <2>3, <3>1, <3>2 DEF Held
    <3> QED BY <2>1, <2>3, <3>3 DEF Watched
  <2> QED BY <2>2, <2>3 DEF Watched
<1>4. CASE EngineWatch
  <2>1. UNCHANGED <<issued, byId, lost, closes>> /\ watches \subseteq watches'
    BY <1>4, WatchOutcomes DEF EngineWatch, fsVars
  <2> QED BY <2>1 DEF Watched, Held
<1>5. ASSUME NEW c \in closes, CloseBegin(c)
      PROVE  issued \subseteq issued' /\ \A r : Issued(r) /\ Watched(r) => Watched(r)'
  <2>1. UNCHANGED <<issued, byId, lost>>
    BY <1>5 DEF CloseBegin, fsVars
  <2>2. [c EXCEPT !.begun = TRUE].id = c.id
    BY DEF ListType
  <2>3. ASSUME NEW r, Issued(r), Watched(r),
               Held(r)' PROVE [id |-> r.id, live |-> TRUE] \in watches'
    <3>1. [id |-> r.id, root |-> r.root] \in byId /\ r.root \notin lost /\ \A x \in closes' : x.id # r.id
      BY <2>1, <2>3 DEF Held
    <3>2. CASE \E e \in byId : e.id = c.id
      <4>1. /\ watches' = {w \in watches : w.id # c.id}
            /\ closes' = (closes \ {c}) \cup {[c EXCEPT !.begun = TRUE]}
        BY <1>5, <3>2 DEF CloseBegin
      <4>2. c.id # r.id
        BY <2>2, <3>1, <4>1
      <4>3. \A x \in closes : x.id # r.id
        BY <3>1, <4>1, <4>2
      <4>4. [id |-> r.id, live |-> TRUE] \in watches
        BY <2>3, <3>1, <4>3 DEF Watched, Held
      <4> QED BY <4>1, <4>2, <4>4
    <3>3. CASE ~(\E e \in byId : e.id = c.id)
      <4>1. watches' = watches /\ closes' = closes \ {c}
        BY <1>5, <3>3 DEF CloseBegin
      <4>2. c.id # r.id
        BY <3>1, <3>3
      <4>3. \A x \in closes : x.id # r.id
        BY <3>1, <4>1, <4>2
      <4> QED BY <2>3, <3>1, <4>1, <4>3 DEF Watched, Held
    <3> QED BY <3>2, <3>3
  <2> QED BY <2>1, <2>3 DEF Watched
<1>6. ASSUME NEW c \in closes, CloseEnd(c)
      PROVE  issued \subseteq issued' /\ \A r : Issued(r) /\ Watched(r) => Watched(r)'
  <2>1. /\ UNCHANGED <<issued, watches, lost>> /\ closes' = closes \ {c}
        /\ byId' = {e \in byId : e.id # c.id}
    BY <1>6 DEF CloseEnd, fsVars
  <2>2. ASSUME NEW r, Held(r)' PROVE Held(r)
    BY <2>1, <2>2 DEF Held
  <2> QED BY <2>1, <2>2 DEF Watched
<1>7. ASSUME NEW d \in Dirs,
             Forget(d) PROVE UNCHANGED <<issued, byId, lost, watches>> /\ closes \subseteq closes'
  BY <1>7 DEF Forget, fsVars, engineVars
<1>8. ASSUME NEW d \in Dirs, NEW watch \in BOOLEAN, Lookup(d, watch) \/ Expire(d)
      PROVE  UNCHANGED <<issued, byId, lost, watches, closes>>
  BY <1>8 DEF Lookup, Expire, fsVars, engineVars
<1>9. ASSUME NEW e \in unseen,
             GitEntryChanged(e) PROVE UNCHANGED <<issued, byId, lost, watches, closes>>
  BY <1>9 DEF GitEntryChanged, engineVars
<1>10. CASE LookupAnswered \/ WatchAnswered \/ RediscoverAnswered \/ Respawn \/ Restarted \/ Announce \/ UNCHANGED vars
  <2>1. UNCHANGED <<issued, byId, lost, watches, closes>>
    BY <1>10
    DEF LookupAnswered, WatchAnswered, RediscoverAnswered, Answered, Respawn, Restarted,
        Announce,
                 vars, fsVars, engineVars
  <2> QED BY <1>1, <2>1
<1> QED
  BY <1>1, <1>2, <1>3, <1>4, <1>5, <1>6, <1>7, <1>8, <1>9, <1>10 DEF Next

-----------------------------------------------------------------------------
(* The answers. *)
LEMMA AnswersStay ==
  ASSUME AnswersIssued, issued \subseteq issued', ToSet(answers') \subseteq ToSet(answers),
         added' = added,
         discovers # << >> => discovers' # << >>
  PROVE  AnswersIssued'
  BY DEF AnswersIssued, Issued

LEMMA StepAnswersIssued ==
  ASSUME RegistryInv, ListType, AnswersIssued, LoopExact, [Next]_vars PROVE AnswersIssued'
<1>0. ~Exit => issued \subseteq issued'
  BY StaysWatched
<1>1. CASE Exit
  BY <1>1, Elements DEF Exit, AnswersIssued
<1>2. CASE EngineAdd
  <2>1. issued \subseteq issued' /\ added = 0
    BY <1>0, <1>2 DEF EngineAdd, Exit
  <2>2. ASSUME NEW a \in AnswerType, a.id = 0, Replies(a), UNCHANGED <<added, byId, issued, nextId>>
        PROVE  AnswersIssued'
    BY <2>1, <2>2, RepliesType DEF AnswersIssued, Issued
  <2>3. CASE /\ discovers # << >> /\ UNCHANGED <<discovers, answers>>
             /\ (\E e \in issued : e.id = added') /\ UNCHANGED <<byId, issued, nextId>>
    BY <2>3 DEF AnswersIssued, Issued
  <2>4. ASSUME discovers # << >>, UNCHANGED <<discovers, answers>>, NEW root \in gits \cap Dirs,
               Fresh(root)
        PROVE  AnswersIssued'
    <3>1. \E e \in issued' : e.id = added'
      <4>1. [id |-> nextId, root |-> root] \in issued' /\ added' = nextId
        BY <2>4 DEF Fresh
      <4>2. [id |-> nextId, root |-> root].id = nextId
        OBVIOUS
      <4> QED BY <4>1, <4>2
    <3> QED BY <2>1, <2>4, <3>1 DEF AnswersIssued, Issued
  <2> QED BY <1>2, <2>2, <2>3, <2>4, AddOutcomes
<1>3. CASE EngineWatch
  <2>1. issued' = issued
    BY <1>3 DEF EngineWatch
  <2>2. PICK a \in AnswerType : Replies(a) /\ Issued(a) /\ added' = 0
    BY <1>3, WatchOutcomes
  <2> QED BY <2>1, <2>2, RepliesType DEF AnswersIssued, Issued
<1>4. ASSUME issued' = issued, added' = added, ToSet(answers') \subseteq ToSet(answers), Asked
      PROVE  AnswersIssued'
  <2>1. discovers # << >> => discovers' # << >>
    BY <1>4, Appended DEF Asked, ListType
  <2> QED BY <1>4, <2>1, AnswersStay
<1>5. ASSUME NEW d \in Dirs, NEW watch \in BOOLEAN, Lookup(d, watch) PROVE AnswersIssued'
  BY <1>4, <1>5, LookupAsks DEF Lookup, engineVars
<1>6. CASE LookupAnswered
  <2>1. ToSet(answers') \subseteq ToSet(answers)
    BY <1>6, AnswerHere DEF LookupAnswered
  <2> QED BY <1>4, <1>6, <2>1, LookupAnsweredAsks DEF LookupAnswered, Answered, engineVars
<1>7. CASE WatchAnswered
  <2>1. ToSet(answers') \subseteq ToSet(answers)
    BY <1>7, AnswerHere DEF WatchAnswered
  <2> QED BY <1>4, <1>7, <2>1 DEF WatchAnswered, Answered, engineVars, Asked
<1>8. CASE RediscoverAnswered
  <2>1. ToSet(answers') \subseteq ToSet(answers) /\ UNCHANGED <<issued, added>>
    BY <1>8, AnswerHere DEF RediscoverAnswered, Answered, engineVars
  <2>2. discovers # << >> => discovers' # << >>
    BY <1>8 DEF RediscoverAnswered, ListType
  <2> QED BY <2>1, <2>2, AnswersStay
<1>9. CASE Restarted
  <2>1. UNCHANGED <<issued, added, answers>> /\ (discovers # << >> => discovers' # << >>)
    BY <1>9 DEF Restarted, engineVars, ListType
  <2> QED BY <2>1, AnswersStay
<1>10. CASE UNCHANGED <<issued, added, answers, discovers>>
  BY <1>10, AnswersStay
<1>11. ASSUME NEW d \in Dirs,
              GitChange(d) \/ Expire(d) \/ Forget(d) PROVE UNCHANGED <<issued, added, answers,
                                                                       discovers>>
  BY <1>11 DEF GitChange, Expire, Forget, engineVars
<1>12. ASSUME NEW e \in unseen,
              GitEntryChanged(e) PROVE UNCHANGED <<issued, added, answers, discovers>>
  BY <1>12 DEF GitEntryChanged, engineVars
<1>13. ASSUME NEW c \in closes,
              CloseBegin(c) \/ CloseEnd(c) PROVE UNCHANGED <<issued, added, answers, discovers>>
  BY <1>13 DEF CloseBegin, CloseEnd
<1>14. CASE Respawn \/ Announce \/ UNCHANGED vars
  BY <1>10, <1>14 DEF Respawn, Announce, vars, engineVars
<1> QED
  BY <1>1, <1>2, <1>3, <1>5, <1>6, <1>7, <1>8, <1>9, <1>10, <1>11, <1>12, <1>13, <1>14 DEF Next

LEMMA StepAnswersWatched ==
  ASSUME RegistryInv, ListType, ListType', AnswersIssued, AnswersWatched, LoopExact,
         [Next]_vars PROVE AnswersWatched'
<1>1. CASE Exit
  BY <1>1, Elements DEF Exit, AnswersWatched
<1>2. ASSUME ~Exit,
             \A e \in issued' : e.root \in gits' \cup lost',
             \A w \in watches' : w.live \/ \E e \in issued' : e.id = w.id /\ e.root \in lost',
             \A a \in ToSet(answers') : a \in ToSet(answers) \/ a.id = 0 \/ (a.to.watch => Watched(a)')
      PROVE  AnswersWatched'
  <2>1. ASSUME NEW a \in ToSet(answers'), a.to.watch, a.id # 0 PROVE Watched(a)'
    <3>1. CASE a \in ToSet(answers)
      <4>1. Issued(a) /\ Watched(a)
        BY <2>1, <3>1 DEF AnswersIssued, AnswersWatched
      <4> QED BY <1>2, <4>1, StaysWatched
    <3> QED BY <1>2, <2>1, <3>1
  <2> QED BY <1>2, <2>1 DEF AnswersWatched
<1>3. ASSUME NEW d \in Dirs, GitChange(d) PROVE AnswersWatched'
  <2> DEFINE after(w) == IF [id |-> w.id, root |-> d] \in issued /\ d \in gits THEN [w EXCEPT !.live = FALSE] ELSE w
  <2>1. /\ lost' = lost \cup ({d} \cap gits) /\ UNCHANGED <<issued, answers>>
        /\ gits' = IF d \in gits THEN gits \ {d} ELSE gits \cup {d}
        /\ watches' = {after(w) : w \in watches}
    BY <1>3 DEF GitChange
  <2>2. \A e \in issued' : e.root \in gits' \cup lost'
    BY <2>1 DEF AnswersWatched
  <2>3. ASSUME NEW w \in watches PROVE after(w).live \/ \E e \in issued : e.id = after(w).id /\ e.root \in lost'
    <3>1. w \in [id : Nat, live : BOOLEAN]
      BY DEF ListType
    <3>2. CASE [id |-> w.id, root |-> d] \in issued /\ d \in gits
      <4>1. after(w).id = w.id /\ d \in lost'
        BY <2>1, <3>1, <3>2
      <4> QED BY <3>2, <4>1
    <3>3. CASE ~([id |-> w.id, root |-> d] \in issued /\ d \in gits)
      <4>1. after(w) = w
        BY <3>3
      <4> QED BY <2>1, <4>1 DEF AnswersWatched
    <3> QED BY <3>2, <3>3
  <2>4. \A w \in watches' : w.live \/ \E e \in issued' : e.id = w.id /\ e.root \in lost'
    <3> HIDE DEF after
    <3> QED BY <2>1, <2>3
  <2>5. ~Exit
    BY <1>3 DEF GitChange, Exit, ListType
  <2> QED BY <1>2, <2>1, <2>2, <2>4, <2>5
<1>4. CASE EngineAdd
  <2>1. UNCHANGED <<gits, lost, watches>> /\ issued \subseteq issued' /\ ~Exit
    BY <1>4, StaysWatched DEF EngineAdd, fsVars, Exit
  <2>2. \A e \in issued' : e.root \in gits \cup lost
    BY <1>4, AddOutcomes DEF AnswersWatched, Fresh
  <2>3. \A w \in watches' : w.live \/ \E e \in issued' : e.id = w.id /\ e.root \in lost'
    BY <2>1 DEF AnswersWatched
  <2>4. \A a \in ToSet(answers') : a \in ToSet(answers) \/ a.id = 0
    BY <1>4, AddOutcomes, RepliesType
  <2> QED BY <1>2, <2>1, <2>2, <2>3, <2>4
<1>5. CASE EngineWatch
  <2>1. UNCHANGED <<gits, lost, issued, byId, closes>> /\ ~Exit
    BY <1>5 DEF EngineWatch, fsVars, Exit
  <2>2. PICK a \in AnswerType :
           /\ Replies(a) /\ a.id # 0 /\ Issued(a)
           /\ watches' \in {watches, watches \cup {[id |-> a.id, live |-> TRUE]}}
           /\ a.to.watch /\ Opens(a.id) => \E w \in watches' : w.id = a.id
    BY <1>5, WatchOutcomes
  <2>3. \A w \in watches' : w.live \/ \E e \in issued' : e.id = w.id /\ e.root \in lost'
    <3>1. [id |-> a.id, live |-> TRUE].live
      OBVIOUS
    <3> QED BY <2>1, <2>2, <3>1 DEF AnswersWatched
  <2>4. a.to.watch => Watched(a)'
    <3> SUFFICES ASSUME a.to.watch, Held(a)' PROVE [id |-> a.id, live |-> TRUE] \in watches'
      BY DEF Watched
    <3>1. PICK f \in issued : f = [id |-> a.id, root |-> a.root]
      BY <2>2 DEF Issued
    <3>2. f \in byId /\ f.root \notin lost
      BY <2>1, <3>1 DEF Held
    <3>3. f.id = a.id /\ f.root \in gits
      BY <3>1, <3>2 DEF AnswersWatched
    <3>4. Opens(a.id)
      BY <3>2, <3>3 DEF Opens
    <3>5. PICK w \in watches' : w.id = a.id
      BY <2>2, <3>4
    <3>6. \A e \in issued : e.id = a.id => e = f
      BY <3>3 DEF RegistryInv, IdsBelowNext
    <3>7. w.live /\ w \in [id : Nat, live : BOOLEAN]
      BY <2>1, <2>3, <3>2, <3>5, <3>6 DEF ListType
    <3>8. w = [id |-> a.id, live |-> TRUE]
      BY <3>5, <3>7
    <3> QED BY <3>5, <3>8
  <2> QED BY <1>2, <2>1, <2>2, <2>3, <2>4, RepliesType DEF AnswersWatched
<1>6. ASSUME NEW c \in closes, CloseBegin(c) PROVE AnswersWatched'
  <2>1. UNCHANGED <<gits, lost, issued, answers>> /\ watches' \subseteq watches /\ ~Exit
    BY <1>6 DEF CloseBegin, fsVars, Exit
  <2> QED BY <1>2, <2>1 DEF AnswersWatched
<1>7. ASSUME UNCHANGED <<gits, lost, issued, watches>>,
             ToSet(answers') \subseteq ToSet(answers) PROVE AnswersWatched'
  BY <1>1, <1>2, <1>7 DEF AnswersWatched
<1>8. ASSUME NEW d \in Dirs, NEW watch \in BOOLEAN, Lookup(d, watch) \/ Expire(d) \/ Forget(d)
      PROVE  UNCHANGED <<gits, lost, issued, watches, answers>>
  BY <1>8 DEF Lookup, Expire, Forget, engineVars, fsVars
<1>9. ASSUME NEW c \in closes, CloseEnd(c) PROVE UNCHANGED <<gits, lost, issued, watches, answers>>
  BY <1>9 DEF CloseEnd, fsVars
<1>10. ASSUME NEW e \in unseen,
              GitEntryChanged(e) PROVE UNCHANGED <<gits, lost, issued, watches, answers>>
  BY <1>10 DEF GitEntryChanged, engineVars
<1>11. CASE Respawn \/ Restarted \/ Announce \/ UNCHANGED vars
  BY <1>7, <1>11 DEF Respawn, Restarted, Announce, vars, engineVars, fsVars
<1>12. CASE LookupAnswered \/ WatchAnswered \/ RediscoverAnswered
  <2>1. ToSet(answers') \subseteq ToSet(answers) /\ UNCHANGED <<gits, lost, issued, watches>>
    BY <1>12, AnswerHere
    DEF LookupAnswered, WatchAnswered, RediscoverAnswered, Answered, engineVars, fsVars
  <2> QED BY <1>7, <2>1
<1> QED
  BY <1>1, <1>3, <1>4, <1>5, <1>6, <1>7, <1>8, <1>9, <1>10, <1>11, <1>12 DEF Next

-----------------------------------------------------------------------------
(* The list. *)
LEMMA OneRoot ==
  ASSUME RegistryInv, NEW q, NEW r, Issued(q), q.id = r.id
  PROVE  /\ Issued(r) => q.root = r.root
         /\ q.root = r.root => Issued(r) /\ (Watched(q) => Watched(r))
<1>1. ASSUME Issued(r) PROVE q.root = r.root
  <2>1. PICK e \in issued : e = [id |-> q.id, root |-> q.root]
    BY DEF Issued
  <2>2. PICK f \in issued : f = [id |-> r.id, root |-> r.root]
    BY <1>1 DEF Issued
  <2>3. e = f
    BY <2>1, <2>2 DEF RegistryInv, IdsBelowNext
  <2> QED BY <2>1, <2>2, <2>3
<1>2. ASSUME q.root = r.root PROVE Issued(r) /\ (Watched(q) => Watched(r))
  BY <1>2 DEF Issued, Watched, Held
<1> QED BY <1>1, <1>2

LEMMA UpsertListed ==
  ASSUME RegistryInv, ListType, AnswersIssued, AnswersWatched, Listed, engine = "up",
         NEW a \in AnswerType, a \in ToSet(answers), a.id # 0, NEW aliases \in SUBSET Dirs,
         NEW u, u = Upsert(registered, a.id, a.root, a.to.watch, aliases)
  PROVE  /\ \A r \in ToSet(u) : Issued(r) /\ (r.watched => Watched(r))
         /\ \A q \in ToSet(registered) : \E r \in ToSet(u) : r.id = q.id
         /\ \E r \in ToSet(u) : r.id = a.id
<1>1. a.id \in Nat /\ a.root \in Dirs /\ a.to.watch \in BOOLEAN /\ registered \in Seq(RepoType)
  BY DEF AnswerType, RequestType, ListType
<1>2. /\ \A r \in ToSet(u) :
           \/ r \in ToSet(registered) /\ r.id # a.id
           \/ /\ r.id = a.id /\ r.root = a.root
              /\ r.watched => a.to.watch \/ \E q \in ToSet(registered) : q.id = a.id /\ q.watched
      /\ \A q \in ToSet(registered) : \E r \in ToSet(u) : r.id = q.id
      /\ \E r \in ToSet(u) : r.id = a.id
  BY <1>1, UpsertType
<1>3. Issued(a) /\ (a.to.watch => Watched(a))
  BY DEF AnswersIssued, AnswersWatched
<1>4. \A q \in ToSet(registered) : Issued(q) /\ (q.watched => Watched(q))
  BY DEF Listed
<1>5. ASSUME NEW r \in ToSet(u) PROVE Issued(r) /\ (r.watched => Watched(r))
  <2>1. CASE r \in ToSet(registered)
    BY <1>4, <2>1
  <2>2. CASE /\ r.id = a.id /\ r.root = a.root
             /\ r.watched => a.to.watch \/ \E q \in ToSet(registered) : q.id = a.id /\ q.watched
    <3>1. Issued(r) /\ (a.to.watch => Watched(r))
      BY <1>3, <2>2, OneRoot
    <3>2. ASSUME NEW q \in ToSet(registered), q.id = a.id, q.watched PROVE Watched(r)
      <4>1. Issued(q) /\ Watched(q) /\ q.id = r.id
        BY <1>4, <2>2, <3>2
      <4> QED BY <3>1, <4>1, OneRoot
    <3> QED BY <2>2, <3>1, <3>2
  <2> QED BY <1>2, <2>1, <2>2
<1> QED BY <1>2, <1>5

LEMMA ListedOf ==
  ASSUME RegistryInv, ListType, AnswersIssued, [Next]_vars, ~Exit, engine' = engine,
         engine = "up" =>
           /\ \A r \in ToSet(registered') : Issued(r) /\ (r.watched => Watched(r))
           /\ \A d \in Dirs : directories'[d] \in Nat \ {NoAnswer} =>
                                \E r \in ToSet(registered') : r.id = directories'[d]
  PROVE  Listed'
<1>1. \A r : Issued(r) => Issued(r)'
  BY StaysWatched DEF Issued
<1> QED BY <1>1, StaysWatched DEF Listed

LEMMA StepListed ==
  ASSUME RegistryInv, ListType, AnswersIssued, AnswersWatched, Listed, LoopExact,
         [Next]_vars PROVE Listed'
<1>1. CASE Exit \/ Respawn
  BY <1>1 DEF Exit, Respawn, Listed
<1>2. CASE Restarted
  <2>1. registered' = << >> /\ \A d \in Dirs : directories'[d] = NoAnswer
    BY <1>2 DEF Restarted, Cleared
  <2> QED BY <2>1, Elements DEF Listed
<1>3. ASSUME ~Exit, engine' = engine, ToSet(registered') \subseteq ToSet(registered),
             \A d \in Dirs : \/ directories'[d] = NoAnswer \/ directories'[d] = Nothing
                             \/ directories'[d] = directories[d] /\ registered' = registered
      PROVE  Listed'
  <2>1. Nothing \notin Nat
    BY DEF Nothing
  <2> QED BY <1>3, <2>1, ListedOf DEF Listed
<1>4. CASE UNCHANGED <<engine, registered, directories>> /\ ~Exit
  BY <1>3, <1>4
<1>5. ASSUME NEW d \in Dirs, Expire(d) \/ Forget(d) PROVE Listed'
  <2>1. engine' = engine /\ ~Exit
    BY <1>5 DEF Expire, Forget, Exit, ListType
  <2>2. CASE Expire(d)
    BY <1>3, <2>1, <2>2 DEF Expire, ListType
  <2>3. CASE Forget(d)
    <3>1. ToSet(registered') \subseteq ToSet(registered)
      BY <2>3, ForgetListed
    <3>2. (\A x \in Dirs : directories'[x] = NoAnswer) \/ UNCHANGED <<registered, directories>>
      BY <2>3 DEF Forget
    <3> QED BY <1>3, <2>1, <3>1, <3>2
  <2> QED BY <1>5, <2>2, <2>3
<1>6. ASSUME NEW e \in unseen, GitEntryChanged(e) PROVE Listed'
  <2>1. engine' = engine /\ registered' = registered /\ ~Exit
    BY <1>6 DEF GitEntryChanged, Exit, ListType
  <2>2. \A d \in Dirs : directories'[d] = NoAnswer
    BY <1>6 DEF GitEntryChanged
  <2> QED BY <1>3, <2>1, <2>2
<1>7. CASE LookupAnswered
  <2>1. /\ Answer \in AnswerType /\ Answer \in ToSet(answers) /\ engine = "up"
        /\ engine' = engine /\ ~Exit
    BY <1>7, AnswerHere DEF LookupAnswered, Answered, Exit
  <2>2. directories' = [directories EXCEPT ![Answer.to.dir] = IF Answer.id = 0 THEN Nothing ELSE Answer.id]
    BY <1>7 DEF LookupAnswered
  <2>3. CASE Answer.id = 0
    <3>1. registered' = registered
      BY <1>7, <2>3 DEF LookupAnswered
    <3> QED BY <1>3, <2>1, <2>2, <2>3, <3>1 DEF ListType
  <2>4. CASE Answer.id # 0
    <3>1. PICK a \in AnswerType : a = Answer
      BY <2>1
    <3>2. {a.root} \in SUBSET Dirs
      BY DEF AnswerType
    <3>3. registered' = Upsert(registered, a.id, a.root, a.to.watch, {a.root})
      BY <1>7, <2>4, <3>1 DEF LookupAnswered
    <3>4. /\ \A r \in ToSet(registered') : Issued(r) /\ (r.watched => Watched(r))
          /\ \A q \in ToSet(registered) : \E r \in ToSet(registered') : r.id = q.id
          /\ \E r \in ToSet(registered') : r.id = a.id
      <4>1. a \in ToSet(answers) /\ a.id # 0 /\ engine = "up"
        BY <2>1, <2>4, <3>1
      <4>2. PICK u : u = Upsert(registered, a.id, a.root, a.to.watch, {a.root})
        OBVIOUS
      <4>3. /\ \A r \in ToSet(u) : Issued(r) /\ (r.watched => Watched(r))
            /\ \A q \in ToSet(registered) : \E r \in ToSet(u) : r.id = q.id
            /\ \E r \in ToSet(u) : r.id = a.id
        BY <3>2, <4>1, <4>2, UpsertListed, ZenonT(120)
      <4>4. registered' = u
        BY <3>3, <4>2
      <4> QED BY <4>3, <4>4
    <3>5. \A d \in Dirs : directories'[d] = a.id \/ directories'[d] = directories[d]
      BY <2>2, <2>4, <3>1 DEF ListType
    <3>6. \A d \in Dirs : directories'[d] \in Nat \ {NoAnswer} =>
                            \E r \in ToSet(registered') : r.id = directories'[d]
      BY <2>1, <3>4, <3>5 DEF Listed
    <3> QED BY <2>1, <3>4, <3>6, ListedOf
  <2> QED BY <2>3, <2>4
<1>8. CASE WatchAnswered
  <2>1. /\ Answer \in AnswerType /\ Answer \in ToSet(answers) /\ Answer.to.watch /\ engine = "up"
        /\ UNCHANGED <<engine, directories>> /\ ~Exit
    BY <1>8, AnswerHere DEF WatchAnswered, Answered, Exit, AnswerType, RequestType
  <2>2. PICK a \in AnswerType : a = Answer
    BY <2>1
  <2>3. ASSUME NEW r \in ToSet(registered') PROVE Issued(r) /\ (r.watched => Watched(r))
    <3>1. PICK q \in ToSet(registered) : r.id = q.id /\ r.root = q.root /\ (r.watched => q.watched \/ q.id = a.id)
      BY <1>8, <2>2, MarkListed
    <3>2. Issued(q) /\ (q.watched => Watched(q))
      BY <2>1 DEF Listed
    <3>3. Issued(r) /\ (q.watched => Watched(r))
      BY <3>1, <3>2, OneRoot
    <3>4. ASSUME q.id = a.id PROVE Watched(r)
      <4>1. a.id # 0
        <5>1. [id |-> q.id, root |-> q.root] \in [id : Nat \ {0}, root : Dirs]
          BY <3>2 DEF Issued, ListType
        <5> QED BY <3>4, <5>1
      <4>2. Issued(a) /\ Watched(a)
        BY <2>1, <2>2, <4>1 DEF AnswersIssued, AnswersWatched
      <4> QED BY <3>1, <3>3, <3>4, <4>2, OneRoot
    <3> QED BY <3>1, <3>3, <3>4
  <2>4. \A d \in Dirs : directories'[d] \in Nat \ {NoAnswer} =>
                          \E r \in ToSet(registered') : r.id = directories'[d]
    BY <1>8, <2>1, MarkListed DEF Listed
  <2> QED BY <2>1, <2>3, <2>4, ListedOf
<1>9. CASE RediscoverAnswered
  <2>1. /\ Answer \in AnswerType /\ Answer \in ToSet(answers) /\ engine = "up"
        /\ UNCHANGED <<engine, directories>> /\ ~Exit
    BY <1>9, AnswerHere DEF RediscoverAnswered, Answered, Exit
  <2>2. PICK a \in AnswerType : a = Answer
    BY <2>1
  <2>3. PICK repo \in RepoType : repo = Head(loop[1].left) /\ repo.watched = a.to.watch
    BY <1>9, <2>2, RediscoverListed
  <2>4. registered' = IF a.id = 0 THEN registered ELSE Upsert(registered, a.id, a.root, repo.watched, repo.aliases)
    BY <1>9, <2>2, <2>3 DEF RediscoverAnswered
  <2>5. CASE a.id = 0
    BY <1>4, <2>1, <2>4, <2>5
  <2>6. CASE a.id # 0
    <3>1. /\ registered' = Upsert(registered, a.id, a.root, a.to.watch, repo.aliases)
          /\ repo.aliases \in SUBSET Dirs
      BY <2>3, <2>4, <2>6 DEF RepoType
    <3>2. /\ \A r \in ToSet(registered') : Issued(r) /\ (r.watched => Watched(r))
          /\ \A q \in ToSet(registered) : \E r \in ToSet(registered') : r.id = q.id
      <4>1. a \in ToSet(answers) /\ a.id # 0 /\ engine = "up"
        BY <2>1, <2>2, <2>6
      <4>2. PICK u : u = Upsert(registered, a.id, a.root, a.to.watch, repo.aliases)
        OBVIOUS
      <4>3. /\ \A r \in ToSet(u) : Issued(r) /\ (r.watched => Watched(r))
            /\ \A q \in ToSet(registered) : \E r \in ToSet(u) : r.id = q.id
        BY <3>1, <4>1, <4>2, UpsertListed, ZenonT(120)
      <4>4. registered' = u
        BY <3>1, <4>2
      <4> QED BY <4>3, <4>4
    <3>3. \A d \in Dirs : directories'[d] \in Nat \ {NoAnswer} =>
                            \E r \in ToSet(registered') : r.id = directories'[d]
      BY <2>1, <3>2 DEF Listed
    <3> QED BY <2>1, <3>2, <3>3, ListedOf
  <2> QED BY <2>5, <2>6
<1>10. ASSUME NEW d \in Dirs, NEW watch \in BOOLEAN, GitChange(d) \/ Lookup(d, watch)
       PROVE  UNCHANGED <<engine, registered, directories>> /\ ~Exit
  BY <1>10 DEF GitChange, Lookup, Exit, clientVars, ListType
<1>11. ASSUME NEW c \in closes, CloseBegin(c) \/ CloseEnd(c)
       PROVE  UNCHANGED <<engine, registered, directories>> /\ ~Exit
  BY <1>11 DEF CloseBegin, CloseEnd, Exit, clientVars
<1>12. CASE EngineAdd \/ EngineWatch \/ Announce \/ UNCHANGED vars
  <2>1. UNCHANGED <<engine, registered, directories>>
    BY <1>12 DEF EngineAdd, EngineWatch, Announce, vars, clientVars
  <2>2. ~Exit
    BY <2>1 DEF Exit
  <2> QED BY <1>4, <2>1, <2>2
<1>13. ASSUME NEW d \in Dirs,
              GitChange(d) PROVE UNCHANGED <<engine, registered, directories>> /\ ~Exit
  BY <1>13 DEF GitChange, Exit, clientVars, ListType
<1> QED
  BY <1>1, <1>2, <1>4, <1>5, <1>6, <1>7, <1>8, <1>9, <1>10, <1>11, <1>12, <1>13 DEF Next

-----------------------------------------------------------------------------
(* The rediscovery. *)
LEMMA LoopAsked ==
  ASSUME ListType, LoopExact, Asked, answers' = answers \/ Taken, loop' = loop PROVE LoopExact'
<1>1. \A i \in Nat : Asks(i)' => Asks(i) /\ discovers'[i] = discovers[i]
  <2>1. CASE discovers' = discovers
    BY <2>1 DEF Asks
  <2>2. ASSUME NEW r \in RequestType, r.for # "rediscover", discovers' = Append(discovers, r)
        PROVE  \A i \in Nat : Asks(i)' => Asks(i) /\ discovers'[i] = discovers[i]
    <3>1. /\ Len(discovers') = Len(discovers) + 1 /\ discovers'[Len(discovers) + 1] = r
          /\ Len(discovers) \in Nat
          /\ \A i \in 1 .. Len(discovers) : discovers'[i] = discovers[i]
      BY <2>2, Appended DEF ListType
    <3> QED BY <2>2, <3>1 DEF Asks
  <2> QED BY <2>1, <2>2 DEF Asked
<1>2. \E k \in {0, 1} : \A i \in Nat : IsAnswer(i)' => IsAnswer(i + k) /\ answers'[i] = answers[i + k]
  <2>1. CASE answers' = answers
    <3>1. \A i \in Nat : IsAnswer(i)' => IsAnswer(i + 0) /\ answers'[i] = answers[i + 0]
      BY <2>1 DEF IsAnswer
    <3> QED BY <3>1
  <2>2. CASE Taken
    <3>1. /\ Len(answers') = Len(answers) - 1 /\ Len(answers) \in Nat
          /\ \A i \in 1 .. Len(answers) - 1 : answers'[i] = answers[i + 1]
      BY <2>2, Followed DEF ListType, Taken
    <3>2. \A i \in Nat : IsAnswer(i)' => IsAnswer(i + 1) /\ answers'[i] = answers[i + 1]
      BY <3>1 DEF IsAnswer
    <3> QED BY <3>2
  <2> QED BY <2>1, <2>2
<1>3. PICK k \in {0, 1} : \A i \in Nat : IsAnswer(i)' => IsAnswer(i + k) /\ answers'[i] = answers[i + k]
  BY <1>2
<1>4. \A i, j \in Nat : i + k \in Nat /\ (i + k = j + k => i = j)
  OBVIOUS
<1> QED BY <1>1, <1>3, <1>4 DEF LoopExact

LEMMA LoopReplies ==
  ASSUME ListType, LoopExact, NEW a \in AnswerType, Replies(a), loop' = loop PROVE LoopExact'
<1>1. /\ Len(discovers') = Len(discovers) - 1 /\ Len(discovers) \in Nat /\ a.to = discovers[1]
      /\ \A i \in 1 .. Len(discovers) - 1 : discovers'[i] = discovers[i + 1]
      /\ Len(discovers) > 0
  BY Followed DEF ListType, Replies
<1>2. /\ Len(answers') = Len(answers) + 1 /\ Len(answers) \in Nat /\ answers'[Len(answers) + 1] = a
      /\ \A i \in 1 .. Len(answers) : answers'[i] = answers[i]
  BY Appended DEF ListType, Replies
<1>3. \A i \in Nat : Asks(i)' => Asks(i + 1) /\ discovers'[i] = discovers[i + 1] /\ i # 0
  BY <1>1 DEF Asks
<1>4. \A i \in Nat : IsAnswer(i)' => \/ IsAnswer(i) /\ answers'[i] = answers[i]
                                     \/ i = Len(answers) + 1 /\ Asks(1) /\ answers'[i].to = discovers[1]
  BY <1>1, <1>2 DEF IsAnswer, Asks
<1>5. 1 \in Nat /\ \A i \in Nat : i + 1 \in Nat /\ (i # 0 => i + 1 # 1) /\ \A j \in Nat : i + 1 = j + 1 => i = j
  OBVIOUS
<1> QED BY <1>3, <1>4, <1>5 DEF LoopExact

\* Nothing is under way but what is now asked for.
LEMMA LoopFirst ==
  ASSUME ListType, NEW r \in RepoType, discovers' = Append(discovers, Rediscover(r)),
         \A i \in Nat : ~Asks(i) /\ ~IsAnswer(i)', loop' # << >>, loop'[1].left[1] = r
  PROVE  LoopExact'
<1>1. Rediscover(r) \in RequestType /\ Rediscover(r).watch = r.watched
  BY DEF Rediscover, RequestType, RepoType
<1>2. /\ Len(discovers') = Len(discovers) + 1 /\ discovers'[Len(discovers) + 1] = Rediscover(r)
      /\ \A i \in 1 .. Len(discovers) : discovers'[i] = discovers[i]
      /\ Len(discovers) \in Nat
  BY <1>1, Appended DEF ListType
<1>3. \A i \in Nat : Asks(i)' => i = Len(discovers) + 1
  BY <1>2 DEF Asks
<1> QED BY <1>1, <1>2, <1>3 DEF LoopExact

LEMMA StepLoop ==
  ASSUME RegistryInv, ListType, AnswersIssued, LoopExact, [Next]_vars PROVE LoopExact'
<1>1. CASE Exit
  BY <1>1 DEF Exit, LoopExact, Asks, IsAnswer
<1>2. CASE EngineAdd
  BY <1>2, AddOutcomes, LoopReplies DEF EngineAdd, LoopExact, Asks, IsAnswer
<1>3. CASE EngineWatch
  <2>1. loop' = loop
    BY <1>3 DEF EngineWatch
  <2> QED BY <1>3, <2>1, WatchOutcomes, LoopReplies
<1>4. ASSUME NEW d \in Dirs, NEW watch \in BOOLEAN, Lookup(d, watch) PROVE LoopExact'
  BY <1>4, LookupAsks, LoopAsked DEF Lookup
<1>5. CASE LookupAnswered
  BY <1>5, LookupAnsweredAsks, AnswerHere, LoopAsked DEF LookupAnswered
<1>6. CASE WatchAnswered
  <2>1. Taken /\ loop' = loop /\ Asked
    BY <1>6, AnswerHere DEF WatchAnswered, Asked
  <2> QED BY <2>1, LoopAsked
<1>7. CASE RediscoverAnswered
  <2>1. /\ Taken /\ answers[1].to.for = "rediscover"
    BY <1>7, AnswerHere DEF RediscoverAnswered
  <2>2. /\ Len(answers') = Len(answers) - 1 /\ Len(answers) \in Nat \ {0}
        /\ \A i \in 1 .. Len(answers) - 1 : answers'[i] = answers[i + 1]
    BY <2>1, Followed DEF ListType, Taken
  <2>3. IsAnswer(1)
    BY <2>1, <2>2 DEF IsAnswer
  <2>4. \A i \in Nat : ~Asks(i)
    BY <2>3 DEF LoopExact
  <2>5. ASSUME NEW i \in Nat, IsAnswer(i)' PROVE FALSE
    <3>1. IsAnswer(i + 1) /\ i # 0
      BY <2>2, <2>5 DEF IsAnswer
    <3> QED BY <2>3, <3>1 DEF LoopExact
  <2>6. PICK left \in Seq(RepoType) : left = Tail(loop[1].left)
    BY <1>7, RediscoverListed
  <2>7. CASE left # << >>
    <3>1. /\ loop' = <<[loop[1] EXCEPT !.left = left]>>
          /\ discovers' = Append(discovers, Rediscover(left[1]))
      BY <1>7, <2>6, <2>7 DEF RediscoverAnswered
    <3>2. left[1] \in RepoType
      BY <2>7, Followed
    <3>3. loop[1] \in LoopType
      BY <1>7, RediscoverListed
    <3>4. loop' # << >> /\ loop'[1].left[1] = left[1]
      BY <3>1, <3>3 DEF LoopType
    <3> QED BY <2>4, <2>5, <3>1, <3>2, <3>4, LoopFirst
  <2>8. CASE left = << >>
    <3>1. discovers' = discovers
      BY <1>7, <2>6, <2>8 DEF RediscoverAnswered
    <3>2. \A i \in Nat : ~Asks(i)'
      BY <2>4, <3>1 DEF Asks
    <3> QED BY <2>5, <3>2 DEF LoopExact
  <2> QED BY <2>7, <2>8
<1>8. CASE Restarted
  <2>1. loop = << >> /\ answers' = answers
    BY <1>8 DEF Restarted, ListType
  <2>2. \A i \in Nat : ~Asks(i) /\ ~IsAnswer(i) /\ ~IsAnswer(i)'
    BY <2>1 DEF LoopExact, IsAnswer
  <2>3. CASE registered # << >>
    <3>1. /\ loop' = <<[left |-> registered, before |-> Roots(registered)]>>
          /\ discovers' = Append(discovers, Rediscover(registered[1]))
      BY <1>8, <2>3 DEF Restarted
    <3>2. registered[1] \in RepoType
      BY <2>3, Followed DEF ListType
    <3>3. loop' # << >> /\ loop'[1].left[1] = registered[1]
      BY <3>1
    <3> QED BY <2>2, <3>1, <3>2, <3>3, LoopFirst
  <2>4. CASE registered = << >>
    <3>1. discovers' = discovers
      BY <1>8, <2>4 DEF Restarted
    <3>2. \A i \in Nat : ~Asks(i)'
      BY <2>2, <3>1 DEF Asks
    <3> QED BY <2>2, <3>2 DEF LoopExact
  <2> QED BY <2>3, <2>4
<1>9. CASE UNCHANGED <<discovers, answers, loop>>
  BY <1>9 DEF LoopExact, Asks, IsAnswer
<1>10. ASSUME NEW d \in Dirs,
              GitChange(d) \/ Expire(d) \/ Forget(d) PROVE UNCHANGED <<discovers, answers, loop>>
  BY <1>10 DEF GitChange, Expire, Forget
<1>11. ASSUME NEW e \in unseen, GitEntryChanged(e) PROVE UNCHANGED <<discovers, answers, loop>>
  BY <1>11 DEF GitEntryChanged
<1>12. ASSUME NEW c \in closes,
              CloseBegin(c) \/ CloseEnd(c) PROVE UNCHANGED <<discovers, answers, loop>>
  BY <1>12 DEF CloseBegin, CloseEnd
<1>13. CASE Respawn \/ Announce \/ UNCHANGED vars
  BY <1>9, <1>13 DEF Respawn, Announce, vars
<1> QED
  BY <1>1, <1>2, <1>3, <1>4, <1>5, <1>6, <1>7, <1>8, <1>9, <1>10, <1>11, <1>12, <1>13 DEF Next

-----------------------------------------------------------------------------
(* The listeners. *)
LEMMA StepAnnounced ==
  ASSUME RegistryInv, ListType, AnswersIssued, AnswersWatched, Listed, LoopExact, Announced,
         [Next]_vars
  PROVE  Announced'
<1>1. CASE UNCHANGED <<told, loop>> /\ Roots(registered)' = Roots(registered)
  BY <1>1 DEF Announced
<1>2. CASE Exit
  BY <1>2 DEF Exit, Announced
<1>3. CASE Restarted
  <2>1. loop = << >> /\ told' = told /\ registered' = << >>
    BY <1>3 DEF Restarted, ListType, Cleared
  <2>2. CASE registered # << >>
    BY <1>3, <2>1, <2>2 DEF Restarted, Announced
  <2>3. CASE registered = << >>
    BY <1>3, <2>1, <2>3 DEF Restarted, Announced
  <2> QED BY <2>2, <2>3
<1>4. ASSUME NEW d \in Dirs, Forget(d) PROVE Announced'
  <2>1. loop' = loop /\ (UNCHANGED <<registered, told>> \/ told' = Called(registered'))
    BY <1>4 DEF Forget
  <2> QED BY <2>1 DEF Announced, Called
<1>5. CASE LookupAnswered
  <2>1. Answer \in AnswerType /\ Answer \in ToSet(answers) /\ engine = "up"
    BY <1>5, AnswerHere DEF LookupAnswered
  <2>2. PICK a \in AnswerType : a = Answer
    BY <2>1
  <2>3. loop' = loop
    BY <1>5 DEF LookupAnswered
  <2>4. CASE a.id = 0
    BY <1>1, <1>5, <2>2, <2>4 DEF LookupAnswered
  <2>5. CASE a.id # 0 /\ ~Known(a.id)
    <3>1. told' = Called(registered')
      BY <1>5, <2>2, <2>5 DEF LookupAnswered
    <3> QED BY <2>3, <3>1 DEF Announced, Called
  <2>6. CASE a.id # 0 /\ Known(a.id)
    <3>1. told' = told /\ registered' = Upsert(registered, a.id, a.root, a.to.watch, {a.root})
      BY <1>5, <2>2, <2>6 DEF LookupAnswered
    <3>2. \E r \in ToSet(registered) : r.id = a.id
      BY <2>6 DEF Known, ToSet
    <3>3. Issued(a)
      BY <2>1, <2>2, <2>6 DEF AnswersIssued
    <3>4. \A r \in ToSet(registered) : r.id = a.id => r.root = a.root
      BY <2>1, <3>3, OneRoot DEF Listed
    <3>5. Roots(registered') = Roots(registered)
      BY <3>1, <3>2, <3>4, UpsertRoots DEF ListType
    <3> QED BY <1>1, <2>3, <3>1, <3>5
  <2> QED BY <2>4, <2>5, <2>6
<1>6. CASE WatchAnswered
  BY <1>1, <1>6, MarkListed DEF WatchAnswered
<1>7. CASE RediscoverAnswered
  <2>1. loop # << >> /\ loop[1] \in LoopType
    BY <1>7, RediscoverListed
  <2>2. CASE Tail(loop[1].left) # << >>
    <3>1. told' = told /\ loop' = <<[loop[1] EXCEPT !.left = Tail(loop[1].left)]>>
      BY <1>7, <2>2 DEF RediscoverAnswered
    <3>2. loop' # << >> /\ loop'[1].before = loop[1].before
      BY <2>1, <3>1 DEF LoopType
    <3> QED BY <2>1, <3>1, <3>2 DEF Announced
  <2>3. CASE Tail(loop[1].left) = << >>
    <3>1. /\ loop' = << >>
          /\ told' = IF Roots(registered') # loop[1].before THEN Roots(registered') ELSE told
      BY <1>7, <2>3 DEF RediscoverAnswered
    <3> QED BY <2>1, <3>1 DEF Announced
  <2> QED BY <2>2, <2>3
<1>8. CASE UNCHANGED <<told, loop, registered>>
  BY <1>1, <1>8
<1>9. ASSUME NEW d \in Dirs, NEW watch \in BOOLEAN, Expire(d) \/ Lookup(d, watch)
      PROVE  UNCHANGED <<told, loop, registered>>
  BY <1>9 DEF Expire, Lookup, clientVars
<1>10. ASSUME NEW d \in Dirs, GitChange(d) PROVE UNCHANGED <<told, loop, registered>>
  BY <1>10 DEF GitChange, clientVars
<1>11. ASSUME NEW e \in unseen, GitEntryChanged(e) PROVE UNCHANGED <<told, loop, registered>>
  BY <1>11 DEF GitEntryChanged
<1>12. ASSUME NEW c \in closes,
              CloseBegin(c) \/ CloseEnd(c) PROVE UNCHANGED <<told, loop, registered>>
  BY <1>12 DEF CloseBegin, CloseEnd, clientVars
<1>13. CASE EngineAdd \/ EngineWatch \/ Respawn \/ Announce \/ UNCHANGED vars
  BY <1>8, <1>13 DEF EngineAdd, EngineWatch, Respawn, Announce, vars, clientVars
<1> QED
  BY <1>2, <1>3, <1>4, <1>5, <1>6, <1>7, <1>8, <1>9, <1>10, <1>11, <1>12, <1>13 DEF Next

-----------------------------------------------------------------------------
LEMMA InitList == Init => ListInv
<1> SUFFICES ASSUME Init PROVE ListInv
  OBVIOUS
<1>1. /\ << >> \in Seq(RepoType) /\ << >> \in Seq(RequestType) /\ << >> \in Seq(AnswerType)
      /\ ToSet(<< >>) = {}
  BY Elements
<1>2. ListType
  BY <1>1 DEF Init, ListType, NoAnswer
<1>3. AnswersIssued /\ AnswersWatched /\ Listed
  BY <1>1 DEF Init, AnswersIssued, AnswersWatched, Listed
<1>4. LoopExact /\ Announced
  BY <1>1 DEF Init, LoopExact, Asks, IsAnswer, Announced, Roots
<1> QED BY <1>2, <1>3, <1>4, InitRegistry DEF ListInv

LEMMA StepList == ListInv /\ [Next]_vars => ListInv'
<1> SUFFICES ASSUME ListInv, [Next]_vars PROVE ListInv'
  OBVIOUS
<1>1. RegistryInv' /\ ListType'
  BY StepKeeps, StepListType DEF ListInv
<1>2. AnswersIssued' /\ AnswersWatched'
  BY <1>1, StepAnswersIssued, StepAnswersWatched DEF ListInv
<1>3. Listed' /\ LoopExact' /\ Announced'
  BY StepListed, StepLoop, StepAnnounced DEF ListInv
<1> QED BY <1>1, <1>2, <1>3 DEF ListInv

(* ListKept: once an engine is up and its predecessor's entries are cleared, the ids the
   service keeps are that engine's, each for its root; what it believes watched is
   watched while the engine holds it; and the listeners know the list (registry.cpp,
   repositoryService.ts). *)
THEOREM ListRight == Spec => []ListKept
<1>1. ASSUME ListInv PROVE ListKept
  <2>1. \A i \in DOMAIN registered : registered[i] \in ToSet(registered)
    BY DEF ToSet
  <2>2. IdsCurrent
    <3>1. \A d \in Dirs, r \in ToSet(registered) : r.id = directories[d] => Known(directories[d])
      BY DEF Known, ToSet
    <3> QED BY <1>1, <2>1, <3>1 DEF ListInv, Listed, Issued, IdsCurrent
  <2>3. WatchedIsWatched
    BY <1>1, <2>1 DEF ListInv, Listed, Watched, WatchedIsWatched
  <2>4. ChangesAnnounced
    BY <1>1 DEF ListInv, Announced, ChangesAnnounced
  <2> QED BY <2>2, <2>3, <2>4 DEF ListKept, ListingExact
<1>2. ListInv => ListKept
  BY <1>1
<1> QED BY <1>2, InitList, StepList, PTL DEF Spec

-----------------------------------------------------------------------------
(***************************************************************************)
(* RebaseHost.  What the host of the rebase panel puts off while a step    *)
(* runs is looked at afterwards, for any number of overlapping calls and   *)
(* any changes: whenever it is busy, or something is put off, a call is    *)
(* under way that takes that away.                                         *)
(***************************************************************************)
HostInside == {"start", "step", "abort"}
RunSteps == {"queued", "git", "completed", "stopped", "failed", "settle", "pause"}
Questions == {"resume", "confirm"}
Ons == {"free", "open", "preview", "show", "recheck", "compare", "reload"} \cup Questions \cup RunSteps
Fors == {"none", "open", "show", "mark", "recheck", "reload"} \cup HostInside

(* Which waits belong to a step of the rebase; only enterPaused's is shared with
   other calls, and a start reads no state before it is confirmed. *)
Calls == {x \in [on : Ons, for : Fors, answered : BOOLEAN, rebasing : BOOLEAN] :
  /\ x.for \in HostInside => x.on \in Questions \cup RunSteps
  /\ x.on \in Questions \cup (RunSteps \ {"pause"}) => x.for \in HostInside
  /\ x.for = "start" => x.on # "resume"}

CallsFit == hostFlow \in [Flows -> Calls] /\ hostRebasing \in BOOLEAN

InRun(f) == hostFlow[f].for \in HostInside /\ hostFlow[f].on \in RunSteps
Starter(f) == hostFlow[f].for = "start"

RunHeld == hostRunning => \E f \in Flows : InRun(f)
StartHeld == hostStarting => \E f \in Flows : Starter(f)
PutOffHeld == hostRecheckPending => \E f \in Flows : InRun(f) \/ Starter(f)

HostInv == CallsFit /\ RunHeld /\ StartHeld /\ PutOffHeld

-----------------------------------------------------------------------------
(* The calls.  None of these steps lets go of what another call holds. *)
Others(f) == \A g \in Flows \ {f} : hostFlow'[g] = hostFlow[g]

LEMMA FreeCall == Host!Free \in Calls
<1>1. Host!Free.on = "free" /\ Host!Free.for = "none"
      /\ Host!Free \in [on : Ons, for : Fors, answered : BOOLEAN, rebasing : BOOLEAN]
  BY DEF Host!Free, Host!Call, Ons, Fors
<1> QED
  BY <1>1 DEF Calls, HostInside, RunSteps, Questions

LEMMA CallGoes ==
  ASSUME CallsFit, NEW f \in Flows, NEW on \in Ons, Host!Goes(f, on),
         hostFlow[f].for \in HostInside => on \in RunSteps \cup {"confirm"} /\ (Starter(f) => on # "resume"),
         on \in Questions \cup (RunSteps \ {"pause"}) => hostFlow[f].for \in HostInside
  PROVE  /\ hostFlow' \in [Flows -> Calls] /\ Others(f)
         /\ hostFlow'[f].on = on /\ hostFlow'[f].for = hostFlow[f].for
<1> DEFINE x == Host!Call(on, hostFlow[f].for)
<1>1. hostFlow[f] \in Calls
  BY DEF CallsFit
<1>2. x \in Calls /\ x.on = on /\ x.for = hostFlow[f].for
  BY <1>1 DEF Host!Free, Host!Call, Calls, HostInside, RunSteps, Questions, Starter
<1> QED
  BY <1>2 DEF Host!Goes, CallsFit, Others

LEMMA CallEnds ==
  ASSUME CallsFit, NEW f \in Flows, Host!Ends(f)
  PROVE  hostFlow' \in [Flows -> Calls] /\ Others(f)
  BY FreeCall DEF Host!Ends, CallsFit, Others

LEMMA CallBegins ==
  ASSUME CallsFit, NEW f \in Flows, NEW on \in Ons, NEW for \in Fors, Host!Begins(f, on, for),
         for \in HostInside => on \in Questions,
         on \in Questions \cup (RunSteps \ {"pause"}) => for \in HostInside,
         for = "start" => on # "resume"
  PROVE  /\ hostFlow' \in [Flows -> Calls] /\ Others(f) /\ ~InRun(f) /\ ~Starter(f)
         /\ hostFlow'[f].for = for
<1> DEFINE x == Host!Call(on, for)
<1>1. x \in Calls /\ x.for = for
  BY DEF Host!Free, Host!Call, Calls, HostInside, RunSteps, Questions
<1>2. ~InRun(f) /\ ~Starter(f)
  BY DEF Host!Begins, Host!Free, Host!Call, InRun, HostInside, Starter
<1> QED
  BY <1>1, <1>2 DEF Host!Begins, CallsFit, Others

-----------------------------------------------------------------------------
(* The marks. *)
HostHolds(f) == (InRun(f) => InRun(f)') /\ (Starter(f) => Starter(f)')

(* A step that adds nothing to the marks, or puts something off while busy, and
   after which every call holds what it held. *)
LEMMA MarksKept ==
  ASSUME HostInv, CallsFit', NEW f \in Flows, Others(f), HostHolds(f),
         hostRunning' => hostRunning, hostStarting' => hostStarting,
         hostRecheckPending' => hostRecheckPending \/ Host!Busy
  PROVE  HostInv'
<1>1. \A g \in Flows : HostHolds(g)
  BY DEF Others, HostHolds, InRun, Starter
<1> QED
  BY <1>1 DEF HostInv, RunHeld, StartHeld, PutOffHeld, HostHolds, Host!Busy

(* The end of a call that may hold the marks: its finally takes them away, and
   what is put off with them unless a start that has yet to end holds it. *)
LEMMA MarksTaken ==
  ASSUME HostInv, CallsFit', NEW f \in Flows, Others(f),
         ~hostRunning', hostStarting' <=> hostStarting /\ ~Starter(f),
         hostRecheckPending' => hostStarting'
  PROVE  HostInv'
<1>1. SUFFICES ASSUME hostStarting' PROVE \E g \in Flows : Starter(g)'
  BY DEF HostInv, RunHeld, StartHeld, PutOffHeld
<1>2. PICK g \in Flows : Starter(g)
  BY <1>1 DEF HostInv, StartHeld
<1>3. g # f
  BY <1>1, <1>2
<1> QED
  BY <1>2, <1>3 DEF Others, Starter

LEMMA SettlesKeeps ==
  ASSUME HostInv, NEW f \in Flows, Host!Settles(f), hostRebasing' \in BOOLEAN
  PROVE  HostInv'
<1>1. CallsFit' /\ Others(f)
  BY CallEnds DEF Host!Settles, HostInv, CallsFit
<1>2. CASE hostFlow[f].for \in HostInside
  <2>1. ~hostRunning' /\ (hostStarting' <=> hostStarting /\ ~Starter(f))
    BY <1>2 DEF Host!Settles, Host!Finally, HostInside, Starter
  <2>2. hostRecheckPending' => hostStarting'
    BY <1>2 DEF Host!Settles, Host!Finally, Host!Flush, HostInside
  <2> QED
    BY <1>1, <2>1, <2>2, MarksTaken
<1>3. CASE hostFlow[f].for \notin HostInside
  <2>1. UNCHANGED Host!busyVars /\ HostHolds(f)
    BY <1>3 DEF Host!Settles, HostInside, HostHolds, InRun, Starter
  <2> QED
    BY <1>1, <2>1, MarksKept DEF Host!busyVars
<1> QED
  BY <1>2, <1>3

(* A call that goes on inside run, or outside it, and leaves the marks alone. *)
LEMMA GoesKeeps ==
  ASSUME HostInv, NEW f \in Flows, NEW on \in Ons, Host!Goes(f, on), hostRebasing' \in BOOLEAN,
         hostFlow[f].for \in HostInside => on \in RunSteps,
         on \in Questions \cup (RunSteps \ {"pause"}) => hostFlow[f].for \in HostInside,
         hostRunning' => hostRunning, hostStarting' => hostStarting, hostRecheckPending' => hostRecheckPending
  PROVE  HostInv'
<1>1. CallsFit' /\ Others(f) /\ hostFlow'[f].on = on /\ hostFlow'[f].for = hostFlow[f].for
  BY CallGoes DEF HostInv, CallsFit, Questions, RunSteps, Ons
<1>2. HostHolds(f)
  BY <1>1 DEF HostHolds, InRun, Starter
<1> QED
  BY <1>1, <1>2, MarksKept

(* A step of the rebase enters run. *)
LEMMA QueuesKeeps ==
  ASSUME HostInv, NEW f \in Flows, Host!Queues(f), hostFlow[f].for \in HostInside,
         hostRebasing' \in BOOLEAN
  PROVE  HostInv'
<1>1. CallsFit' /\ Others(f) /\ hostFlow'[f].on = "queued" /\ hostFlow'[f].for = hostFlow[f].for
  BY CallGoes DEF Host!Queues, HostInv, CallsFit, Questions, RunSteps, Ons
<1>2. InRun(f)' /\ HostHolds(f)
  BY <1>1 DEF HostHolds, InRun, Starter, RunSteps
<1>3. \A g \in Flows : HostHolds(g)
  BY <1>1, <1>2 DEF Others, HostHolds, InRun, Starter
<1> QED
  BY <1>1, <1>2, <1>3 DEF Host!Queues, HostInv, RunHeld, StartHeld, PutOffHeld, HostHolds

LEMMA BeginsKeeps ==
  ASSUME HostInv, NEW f \in Flows, NEW on \in Ons, NEW for \in Fors, Host!Begins(f, on, for),
         for \in HostInside => on \in Questions,
         on \in Questions \cup (RunSteps \ {"pause"}) => for \in HostInside,
         for = "start" => on # "resume",
         hostRebasing' \in BOOLEAN, hostRunning' => hostRunning, hostStarting' => hostStarting \/ for = "start",
         hostRecheckPending' => hostRecheckPending \/ Host!Busy
  PROVE  HostInv'
<1>1. CallsFit' /\ Others(f) /\ HostHolds(f) /\ hostFlow'[f].for = for
  BY CallBegins DEF HostInv, CallsFit, HostHolds
<1>2. CASE for # "start"
  BY <1>1, <1>2, MarksKept
<1>3. CASE for = "start"
  <2>1. Starter(f)'
    BY <1>1, <1>3 DEF Starter
  <2>2. \A g \in Flows : InRun(g) => InRun(g)'
    BY <1>1 DEF Others, HostHolds, InRun
  <2> QED
    BY <1>1, <2>1, <2>2 DEF HostInv, RunHeld, StartHeld, PutOffHeld
<1> QED
  BY <1>2, <1>3

(* No call is touched. *)
LEMMA NoCallKeeps ==
  ASSUME HostInv, UNCHANGED hostFlow, hostRebasing' \in BOOLEAN,
         hostRunning' => hostRunning, hostStarting' => hostStarting, hostRecheckPending' => hostRecheckPending \/ Host!Busy
  PROVE  HostInv'
<1>1. CallsFit' /\ \A g \in Flows : (InRun(g) <=> InRun(g)') /\ (Starter(g) <=> Starter(g)')
  BY DEF HostInv, CallsFit, InRun, Starter
<1> QED
  BY <1>1 DEF HostInv, RunHeld, StartHeld, PutOffHeld, Host!Busy

(* A call outside run ends, and leaves the marks alone. *)
LEMMA EndsKeeps ==
  ASSUME HostInv, NEW f \in Flows, Host!Ends(f), hostRebasing' \in BOOLEAN, ~InRun(f), ~Starter(f),
         hostRunning' => hostRunning, hostStarting' => hostStarting, hostRecheckPending' => hostRecheckPending
  PROVE  HostInv'
<1>1. CallsFit' /\ Others(f) /\ HostHolds(f)
  BY CallEnds DEF HostInv, CallsFit, HostHolds
<1> QED
  BY <1>1, MarksKept

LEMMA EntersPausedKeeps ==
  ASSUME HostInv, NEW f \in Flows, NEW has, Host!EntersPaused(f, has), hostRebasing' \in BOOLEAN
  PROVE  HostInv'
<1>1. CASE Host!Goes(f, "pause") /\ UNCHANGED Host!busyVars
  BY <1>1, GoesKeeps DEF Host!busyVars, RunSteps, Questions, Ons
<1>2. CASE Host!Settles(f)
  BY <1>2, SettlesKeeps
<1> QED
  BY <1>1, <1>2 DEF Host!EntersPaused

-----------------------------------------------------------------------------
(* Every step of a call, and every call's beginning. *)
LEMMA CallOf ==
  ASSUME HostInv, NEW f \in Flows
  PROVE  /\ hostFlow[f] \in Calls /\ hostFlow[f].on \in Ons /\ hostFlow[f].for \in Fors
         /\ hostFlow[f].for \in HostInside => hostFlow[f].on \in Questions \cup RunSteps
         /\ hostFlow[f].on \in Questions \cup (RunSteps \ {"pause"}) => hostFlow[f].for \in HostInside
         /\ hostFlow[f].for = "start" => hostFlow[f].on # "resume"
  BY DEF HostInv, CallsFit, Calls

LEMMA RunsKeeps ==
  ASSUME HostInv, NEW f \in Flows, Host!Runs(f)
  PROVE  HostInv'
<1> USE CallOf
<1>0. hostRebasing \in BOOLEAN
  BY DEF HostInv, CallsFit
<1>1. CASE Host!Answer(f)
  <2>1. /\ CallsFit' /\ Others(f) /\ hostFlow'[f].on = hostFlow[f].on
        /\ hostFlow'[f].for = hostFlow[f].for
    <3> DEFINE x == [on |-> hostFlow[f].on, for |-> hostFlow[f].for, answered |-> TRUE, rebasing |-> hostRebasing]
    <3>1. x \in Calls
      BY <1>0 DEF Calls
    <3> QED
      BY <1>0, <1>1, <3>1 DEF Host!Answer, HostInv, CallsFit, Others, Host!repoVars
  <2>2. HostHolds(f)
    BY <2>1 DEF HostHolds, InRun, Starter
  <2> QED
    BY <1>1, <2>1, <2>2, MarksKept DEF Host!Answer, Host!busyVars
<1>2. CASE Host!OpenGoes(f)
  <2>1. hostFlow[f].on = "open" /\ ~InRun(f) /\ ~Starter(f) /\ hostRebasing' \in BOOLEAN
    BY <1>0, <1>2
    DEF Host!OpenGoes, Host!Waits, InRun, Starter, HostInside, RunSteps, Questions,
        Host!repoVars
  <2>2. CASE Host!EntersPaused(f, TRUE)
    BY <2>1, <2>2, EntersPausedKeeps
  <2>3. CASE UNCHANGED Host!busyVars /\ Host!Goes(f, "preview")
    BY <2>1, <2>3, GoesKeeps DEF Host!busyVars, InRun, Starter, HostInside, RunSteps, Questions, Ons
  <2>4. CASE UNCHANGED Host!busyVars /\ Host!Ends(f)
    BY <2>1, <2>4, EndsKeeps DEF Host!busyVars
  <2> QED
    BY <1>2, <2>2, <2>3, <2>4 DEF Host!OpenGoes, Host!busyVars
<1>3. CASE Host!Opened(f)
  <2>1. ~InRun(f) /\ ~Starter(f) /\ hostRebasing' \in BOOLEAN
    BY <1>0, <1>3
    DEF Host!Opened, Host!Waits, InRun, Starter, HostInside, RunSteps, Questions,
        Host!repoVars
  <2> QED
    BY <1>3, <2>1, EndsKeeps DEF Host!Opened, Host!busyVars
<1>4. CASE Host!ShowGoes(f)
  <2>1. ~InRun(f) /\ ~Starter(f) /\ hostRebasing' \in BOOLEAN
    BY <1>0, <1>4
    DEF Host!ShowGoes, Host!Waits, InRun, Starter, HostInside, RunSteps, Questions,
        Host!repoVars
  <2>2. CASE Host!EntersPaused(f, TRUE)
    BY <2>1, <2>2, EntersPausedKeeps
  <2>3. CASE UNCHANGED Host!busyVars /\ Host!Ends(f)
    BY <2>1, <2>3, EndsKeeps DEF Host!busyVars
  <2> QED
    BY <1>4, <2>2, <2>3 DEF Host!ShowGoes, Host!busyVars
<1>5. CASE Host!Pauses(f)
  BY <1>0, <1>5, SettlesKeeps DEF Host!Pauses, Host!repoVars
<1>6. CASE Host!RecheckGoes(f)
  <2>1. hostFlow[f].on = "recheck" /\ ~InRun(f) /\ ~Starter(f) /\ hostRebasing' \in BOOLEAN
    BY <1>0, <1>6
    DEF Host!RecheckGoes, Host!Waits, InRun, Starter, HostInside, RunSteps, Questions,
        Host!repoVars
  <2>2. CASE Host!EntersPaused(f, hostRepo)
    BY <2>1, <2>2, EntersPausedKeeps
  <2>3. CASE UNCHANGED <<hostRunning, hostStarting, hostRecheckPending>> /\ Host!Goes(f, "compare")
    BY <2>1, <2>3, GoesKeeps DEF InRun, Starter, HostInside, RunSteps, Questions, Ons
  <2>4. CASE UNCHANGED <<hostRunning, hostStarting, hostRecheckPending>> /\ Host!Ends(f)
    BY <2>1, <2>4, EndsKeeps
  <2> QED
    BY <1>6, <2>2, <2>3, <2>4 DEF Host!RecheckGoes
<1>7. CASE Host!Compared(f) \/ Host!Reloaded(f)
  <2>1. ~InRun(f) /\ ~Starter(f) /\ hostRebasing' \in BOOLEAN
    BY <1>0, <1>7
    DEF Host!Compared, Host!Reloaded, Host!Waits, InRun, Starter, HostInside, RunSteps,
        Questions, Host!repoVars
  <2> QED
    BY <1>7, <2>1, EndsKeeps DEF Host!Compared, Host!Reloaded, Host!busyVars
<1>8. CASE Host!ResumeGoes(f)
  <2>1. /\ hostFlow[f].on = "resume" /\ hostFlow[f].for \in HostInside /\ ~InRun(f) /\ ~Starter(f)
        /\ hostRebasing' \in BOOLEAN
    BY <1>0, <1>8
    DEF Host!ResumeGoes, Host!Waits, InRun, Starter, HostInside, RunSteps, Questions,
        Host!repoVars
  <2>2. CASE Host!Queues(f)
    BY <2>1, <2>2, QueuesKeeps
  <2>3. CASE Host!Goes(f, "confirm") /\ UNCHANGED Host!busyVars
    <3>1. CallsFit' /\ Others(f) /\ HostHolds(f)
      BY <2>1, <2>3, CallGoes DEF HostInv, CallsFit, HostHolds, Questions, Ons
    <3> QED
      BY <2>3, <3>1, MarksKept DEF Host!busyVars
  <2>4. CASE Host!Ends(f) /\ UNCHANGED Host!busyVars
    BY <2>1, <2>4, EndsKeeps DEF Host!busyVars
  <2> QED
    BY <1>8, <2>2, <2>3, <2>4 DEF Host!ResumeGoes
<1>9. CASE Host!Confirm(f)
  <2>1. /\ hostFlow[f].on = "confirm" /\ hostFlow[f].for \in HostInside /\ ~InRun(f)
        /\ hostRebasing' \in BOOLEAN
    BY <1>0, <1>9 DEF Host!Confirm, InRun, RunSteps, Questions, Host!repoVars
  <2>2. CASE Host!Queues(f)
    BY <2>1, <2>2, QueuesKeeps
  <2>3. CASE hostFlow[f].for = "start" /\ Host!Ends(f) /\ hostStarting' = FALSE /\ Host!Flush(hostRunning, FALSE) /\ UNCHANGED hostRunning
    <3>1. CallsFit' /\ Others(f)
      BY <2>1, <2>3, CallEnds DEF HostInv, CallsFit
    <3>2. \A g \in Flows : InRun(g) => InRun(g)'
      BY <2>1, <3>1 DEF Others, InRun
    <3>3. hostRecheckPending' => hostRunning
      BY <2>3 DEF Host!Flush
    <3> QED
      BY <2>3, <3>1, <3>2, <3>3 DEF HostInv, RunHeld, StartHeld, PutOffHeld
  <2>4. CASE hostFlow[f].for = "abort" /\ Host!Ends(f) /\ UNCHANGED Host!busyVars
    BY <2>1, <2>4, EndsKeeps DEF Host!busyVars, Starter
  <2> QED
    BY <1>9, <2>2, <2>3, <2>4 DEF Host!Confirm
<1>10. CASE Host!Git(f) \/ Host!Refused(f) \/ Host!Stepped(f)
  <2>1. hostFlow[f].for \in HostInside /\ UNCHANGED Host!busyVars /\ hostRebasing' \in BOOLEAN
    BY <1>0, <1>10 DEF Host!Git, Host!Refused, Host!Stepped, Host!Changes, RunSteps, Host!repoVars
  <2>2. \E on \in {"failed", "git", "completed", "stopped"} : Host!Goes(f, on)
    BY <1>10 DEF Host!Git, Host!Refused, Host!Stepped
  <2> QED
    BY <2>1, <2>2, GoesKeeps DEF Host!busyVars, RunSteps, Ons
<1>11. CASE Host!Completed(f)
  <2>1. CallsFit' /\ Others(f)
    BY <1>0, <1>11, CallEnds DEF Host!Completed, HostInv, CallsFit, Host!repoVars
  <2>2. /\ ~hostRunning' /\ (hostStarting' <=> hostStarting /\ ~Starter(f))
        /\ (hostRecheckPending' => hostStarting')
    BY <1>11 DEF Host!Completed, Starter
  <2> QED
    BY <2>1, <2>2, MarksTaken
<1>12. CASE Host!Stopped(f)
  <2>1. hostRebasing' \in BOOLEAN
    BY <1>0, <1>12 DEF Host!Stopped, Host!repoVars
  <2>2. CASE Host!Goes(f, "pause") /\ hostRunning' = FALSE /\ UNCHANGED <<hostStarting,
                                                                          hostRecheckPending, hostTimer>>
    BY <2>1, <2>2, GoesKeeps DEF RunSteps, Questions, Ons
  <2> QED
    BY <1>12, <2>1, <2>2, SettlesKeeps DEF Host!Stopped
<1>13. CASE Host!Failed(f)
  <2>1. hostRebasing' \in BOOLEAN /\ hostFlow[f].for \in HostInside
    BY <1>0, <1>13 DEF Host!Failed, Host!repoVars, RunSteps
  <2>2. CASE Host!Goes(f, "settle") /\ hostRunning' = FALSE /\ UNCHANGED <<hostStarting,
                                                                           hostRecheckPending>>
    BY <2>1, <2>2, GoesKeeps DEF RunSteps, Ons
  <2> QED
    BY <1>13, <2>1, <2>2, SettlesKeeps DEF Host!Failed
<1>14. CASE Host!Settled(f)
  <2>1. hostRebasing' \in BOOLEAN
    BY <1>0, <1>14 DEF Host!Settled, Host!repoVars
  <2> QED
    BY <1>14, <2>1, SettlesKeeps, EntersPausedKeeps DEF Host!Settled
<1> QED
  BY <1>1, <1>2, <1>3, <1>4, <1>5, <1>6, <1>7, <1>8, <1>9, <1>10, <1>11, <1>12, <1>13, <1>14
  DEF Host!Runs

LEMMA BeginningKeeps ==
  ASSUME HostInv, NEW f \in Flows,
         Host!Recheck(f) \/ Host!Open(f) \/ Host!Show(f) \/ Host!MarkResolved(f) \/ Host!Reload(f) \/ Host!Start(f) \/ Host!Resume(f)
  PROVE  HostInv'
<1> USE DEF HostInside, Questions, RunSteps, Ons, Fors
<1>0. hostRebasing \in BOOLEAN
  BY DEF HostInv, CallsFit
<1>1. CASE Host!Recheck(f)
  BY <1>0, <1>1, BeginsKeeps, NoCallKeeps DEF Host!Recheck, Host!repoVars, Ons
<1>2. CASE Host!Open(f)
  BY <1>0, <1>2, BeginsKeeps DEF Host!Open, Host!repoVars, Host!busyVars, Ons
<1>3. CASE Host!Show(f)
  BY <1>0, <1>3, BeginsKeeps DEF Host!Show, Host!repoVars, Host!busyVars, Ons
<1>4. CASE Host!MarkResolved(f)
  BY <1>4, BeginsKeeps DEF Host!MarkResolved, Host!Changes, Host!busyVars, Ons
<1>5. CASE Host!Reload(f)
  BY <1>0, <1>5, BeginsKeeps DEF Host!Reload, Host!repoVars, Host!busyVars, Ons
<1>6. CASE Host!Start(f)
  BY <1>0, <1>6, BeginsKeeps DEF Host!Start, Host!repoVars, Ons
<1>7. CASE Host!Resume(f)
  BY <1>0, <1>7, BeginsKeeps DEF Host!Resume, Host!repoVars, Host!busyVars, Ons
<1> QED
  BY <1>1, <1>2, <1>3, <1>4, <1>5, <1>6, <1>7

LEMMA HostStep ==
  ASSUME HostInv, [Host!Next]_(Host!vars)
  PROVE  HostInv'
<1>0. hostRebasing \in BOOLEAN
  BY DEF HostInv, CallsFit
<1>1. CASE Host!Outside
  BY <1>1, NoCallKeeps DEF Host!Outside, Host!Changes, Host!busyVars
<1>2. CASE Host!Notice
  BY <1>0, <1>2, NoCallKeeps DEF Host!Notice
<1>3. CASE Host!Close
  BY <1>0, <1>3, NoCallKeeps DEF Host!Close, Host!repoVars
<1>4. CASE UNCHANGED Host!vars
  BY <1>0, <1>4, NoCallKeeps DEF Host!vars, Host!repoVars, Host!busyVars
<1> QED
  BY <1>1, <1>2, <1>3, <1>4, RunsKeeps, BeginningKeeps DEF Host!Next

LEMMA HostInit == Host!Init => HostInv
  BY FreeCall DEF Host!Init, HostInv, CallsFit, RunHeld, StartHeld, PutOffHeld

LEMMA HostKept == HostInv => Host!NothingPutOff
<1> SUFFICES ASSUME HostInv, Host!Quiet PROVE ~hostRecheckPending /\ ~hostRunning /\ ~hostStarting
  BY DEF Host!NothingPutOff
<1>1. Host!Free.for = "none"
  BY DEF Host!Free, Host!Call
<1>2. \A f \in Flows : ~InRun(f) /\ ~Starter(f)
  BY <1>1 DEF Host!Quiet, InRun, HostInside, Starter
<1> QED
  BY <1>2 DEF HostInv, RunHeld, StartHeld, PutOffHeld

(* Once every call has ended and no notice or timer is on its way, the host is not
   busy and nothing is put off, however the calls overlapped, were refused, failed
   or lost their panel (RebaseWebviewHost.run, startRebase, flushRecheck). *)
THEOREM PutOffIsLookedAt ==
  /\ Host!Spec => []Host!NothingPutOff
  /\ (subject = "host" => Host!Spec) /\ [][UNCHANGED subject]_subject => []NothingPutOff
<1>1. HostInv /\ [Host!Next]_(Host!vars) => HostInv'
  BY HostStep
<1>2. Host!Spec => []Host!NothingPutOff
  BY HostInit, <1>1, HostKept, PTL DEF Host!Spec
<1>3. (subject = "host" => Host!Spec) /\ [][UNCHANGED subject]_subject => []NothingPutOff
  <2>1. /\ ~ (subject = "host") /\ [UNCHANGED subject]_subject => ~ (subject = "host")'
        /\ ~ (subject = "host") => NothingPutOff
        /\ Host!NothingPutOff => NothingPutOff
    BY DEF NothingPutOff
  <2> QED  BY <1>2, <2>1, PTL
<1> QED  BY <1>2, <1>3

-----------------------------------------------------------------------------
(***************************************************************************)
(* WebMirror.  The engine of the web extension works on the workspace's    *)
(* files, however changes, flushes, starts, crashes and restarts           *)
(* interleave, whatever the paths, the modules and the flushes under way:  *)
(* proved from what is known of a file at each stage of its way to the     *)
(* engine.                                                                 *)
(***************************************************************************)
Contents == Sizes \cup {Gone}

StartType ==
  [at : {"none", "load", "list", "next", "read", "live", "failed"}, left : SUBSET Paths,
   path : Paths \cup {Gone}, got : Contents, bytes : Nat]

FlushType ==
  [at : {"none", "stat", "stated", "read", "got"}, module : Modules \cup {0},
   left : Seq(Paths), got : Contents]

MirrorType ==
  /\ mirrorWorkspace \in [Paths -> Contents]
  /\ mirrorPending \in Seq(Paths)
  /\ mirrorCurrent \in Modules \cup {0} /\ mirrorEngine \in Modules
  /\ mirrorStart \in [Modules -> StartType]
  /\ mirrorMemfs \in [Modules -> [Paths -> Contents]]
  /\ mirrorFlush \in [Flights -> FlushType]

(* Nothing is in a module before its mirroring, and modules are started in turn. *)
EmptyFirst ==
  \A m \in Modules :
    /\ m > mirrorEngine => mirrorStart[m].at = "none"
    /\ mirrorStart[m].at \in {"none", "load", "list"} => \A p \in Paths : mirrorMemfs[m][p] = Gone

(* Flushes go to a module whose start has ended; one that has ended holds nothing. *)
ToLive ==
  /\ mirrorCurrent # 0 => mirrorStart[mirrorCurrent].at = "live"
  /\ \A f \in Flights :
       IF mirrorFlush[f].at = "none" THEN mirrorFlush[f] = Mirror!NoFlush
       ELSE /\ mirrorFlush[f].module \in Modules /\ mirrorStart[mirrorFlush[f].module].at = "live"
            /\ mirrorFlush[f].left # <<>>

Settled(p) == p \notin mirrorEvents \cup Mirror!ToSet(mirrorPending) \cup mirrorCrossed

MirrorHolds(f, p) == mirrorFlush[f].module = mirrorEngine /\ p \in Mirror!ToSet(mirrorFlush[f].left)

(* What is known of a settled file while the engine's module is mirrored ... *)
Mirroring(p) ==
  LET s == mirrorStart[mirrorEngine]
  IN /\ s.at \in {"next", "read"} =>
          p \in s.left \/ mirrorMemfs[mirrorEngine][p] = mirrorWorkspace[p]
     /\ s.at = "read" /\ p = s.path => s.got = mirrorWorkspace[p]

(* ... and once the engine is ready: one flush at most holds it, and what that flush
   has read of it is what the workspace holds. *)
Following(p) ==
  mirrorStart[mirrorEngine].at = "live" =>
    /\ \A f, g \in Flights : MirrorHolds(f, p) /\ MirrorHolds(g, p) => f = g
    /\ Mirror!Held(p) \/ mirrorMemfs[mirrorEngine][p] = mirrorWorkspace[p]
    /\ \A f \in Flights :
         MirrorHolds(f, p) /\ mirrorFlush[f].at \in {"stated", "got"} /\ Head(mirrorFlush[f].left) = p
           => mirrorFlush[f].got = mirrorWorkspace[p]

MirrorInv ==
  /\ MirrorType /\ EmptyFirst /\ ToLive
  /\ \A p \in Paths : Settled(p) => Mirroring(p) /\ Following(p)

-----------------------------------------------------------------------------
(* Sequences of paths, and the paths in them. *)
LEMMA EmptyHasNone == Mirror!ToSet(<<>>) = {}
  BY DEF Mirror!ToSet

LEMMA AppendAdds ==
  ASSUME NEW S, NEW s \in Seq(S), NEW e \in S
  PROVE  Append(s, e) \in Seq(S) /\ Mirror!ToSet(Append(s, e)) = Mirror!ToSet(s) \cup {e}
<1>1. Append(s, e) \in Seq(S) /\ DOMAIN Append(s, e) = 1 .. Len(s) + 1 /\ DOMAIN s = 1 .. Len(s)
  OBVIOUS
<1>2. \A i \in 1 .. Len(s) : Append(s, e)[i] = s[i]
  OBVIOUS
<1>3. Append(s, e)[Len(s) + 1] = e /\ Len(s) \in Nat
  OBVIOUS
<1>4. \A x : x \in Mirror!ToSet(Append(s, e)) <=> x \in Mirror!ToSet(s) \cup {e}
  BY <1>1, <1>2, <1>3 DEF Mirror!ToSet
<1> QED BY <1>1, <1>4

LEMMA HeadAndTail ==
  ASSUME NEW S, NEW s \in Seq(S), s # <<>>
  PROVE  /\ Head(s) \in S /\ Tail(s) \in Seq(S)
         /\ Mirror!ToSet(s) = {Head(s)} \cup Mirror!ToSet(Tail(s))
         /\ Len(s) = 1 => Mirror!ToSet(s) = {Head(s)}
         /\ Len(s) # 1 => Tail(s) # <<>>
<1>1. /\ Len(s) \in Nat \ {0} /\ DOMAIN s = 1 .. Len(s) /\ Head(s) = s[1] /\ Tail(s) \in Seq(S)
      /\ Len(Tail(s)) = Len(s) - 1 /\ \A i \in 1 .. Len(s) - 1 : Tail(s)[i] = s[i + 1]
  OBVIOUS
<1>2. DOMAIN Tail(s) = 1 .. Len(s) - 1
  BY <1>1
<1>3. ASSUME NEW x, x \in Mirror!ToSet(s) PROVE x \in {Head(s)} \cup Mirror!ToSet(Tail(s))
  <2>1. PICK i \in 1 .. Len(s) : x = s[i]
    BY <1>1, <1>3 DEF Mirror!ToSet
  <2>2. CASE i = 1
    BY <1>1, <2>1, <2>2
  <2>3. CASE i # 1
    <3>1. i - 1 \in 1 .. Len(s) - 1 /\ Tail(s)[i - 1] = x
      BY <1>1, <2>1, <2>3
    <3> QED BY <1>2, <3>1 DEF Mirror!ToSet
  <2> QED BY <2>2, <2>3
<1>4. ASSUME NEW x, x \in {Head(s)} \cup Mirror!ToSet(Tail(s)) PROVE x \in Mirror!ToSet(s)
  <2>1. CASE x = Head(s)
    BY <1>1, <2>1 DEF Mirror!ToSet
  <2>2. CASE x \in Mirror!ToSet(Tail(s))
    <3>1. PICK i \in 1 .. Len(s) - 1 : x = Tail(s)[i]
      BY <1>2, <2>2 DEF Mirror!ToSet
    <3>2. i + 1 \in 1 .. Len(s) /\ x = s[i + 1]
      BY <1>1, <3>1
    <3> QED BY <1>1, <3>2 DEF Mirror!ToSet
  <2> QED BY <1>4, <2>1, <2>2
<1>5. Mirror!ToSet(s) = {Head(s)} \cup Mirror!ToSet(Tail(s))
  BY <1>3, <1>4
<1>6. Len(s) = 1 => Mirror!ToSet(s) = {Head(s)}
  BY <1>1 DEF Mirror!ToSet
<1>7. Head(s) \in S
  BY <1>1
<1>8. Len(s) # 1 => Tail(s) # <<>>
  BY <1>1
<1> QED BY <1>1, <1>5, <1>6, <1>7, <1>8

-----------------------------------------------------------------------------
LEMMA QueuedType ==
  ASSUME mirrorPending \in Seq(Paths), NEW p \in Paths
  PROVE  Mirror!Queued(p) \in Seq(Paths) /\ Mirror!ToSet(Mirror!Queued(p)) = Mirror!ToSet(mirrorPending) \cup {p}
  BY AppendAdds DEF Mirror!Queued

LEMMA OnwardsType ==
  ASSUME NEW f \in FlushType, f.left # <<>>
  PROVE  /\ Mirror!Onwards(f) \in FlushType
         /\ \/ Mirror!Onwards(f) = Mirror!NoFlush /\ Mirror!ToSet(f.left) = {Head(f.left)}
            \/ /\ Mirror!Onwards(f).at = "stat" /\ Mirror!Onwards(f).module = f.module
               /\ Mirror!Onwards(f).left = Tail(f.left) /\ Tail(f.left) # <<>>
<1>1. f.left \in Seq(Paths) /\ Tail(f.left) \in Seq(Paths)
      /\ (Len(f.left) = 1 => Mirror!ToSet(f.left) = {Head(f.left)})
      /\ (Len(f.left) # 1 => Tail(f.left) # <<>>)
  BY HeadAndTail DEF FlushType
<1>2. Mirror!NoFlush \in FlushType
  BY DEF Mirror!NoFlush, FlushType, Contents
<1>3. [f EXCEPT !.at = "stat", !.left = Tail(@), !.got = Gone] \in FlushType
  BY <1>1 DEF FlushType, Contents
<1> QED BY <1>1, <1>2, <1>3 DEF Mirror!Onwards, FlushType

LEMMA InitMirror == ASSUME Mirror!WebMirrorAssumption, Mirror!Init PROVE MirrorInv
<1>1. 1 \in Modules /\ Workspaces \subseteq [Paths -> Contents]
  BY DEF Mirror!WebMirrorAssumption, Contents
<1>2. Mirror!NotStarted \in StartType /\ Mirror!NoFlush \in FlushType
  BY DEF Mirror!NotStarted, Mirror!NoFlush, StartType, FlushType, Contents
<1>3. /\ mirrorStart \in [Modules -> StartType] /\ mirrorStart[1].at = "load"
      /\ \A m \in Modules : m # 1 => mirrorStart[m] = Mirror!NotStarted
  BY <1>1, <1>2 DEF Mirror!Init, Mirror!NotStarted, StartType
<1>4. MirrorType
  BY <1>1, <1>2, <1>3 DEF Mirror!Init, MirrorType, Contents
<1>5. EmptyFirst
  BY <1>1, <1>3 DEF Mirror!Init, EmptyFirst, Mirror!NotStarted
<1>6. ToLive
  BY DEF Mirror!Init, ToLive, Mirror!NoFlush
<1>7. \A p \in Paths : Mirroring(p) /\ Following(p)
  BY <1>3 DEF Mirror!Init, Mirroring, Following
<1> QED BY <1>4, <1>5, <1>6, <1>7 DEF MirrorInv

-----------------------------------------------------------------------------
(* Types. *)
LEMMA StartTypeKept ==
  ASSUME Mirror!WebMirrorAssumption, MirrorType, NEW m \in Modules,
         Mirror!Load(m) \/ Mirror!ServeStart(m) \/ Mirror!Copy(m) \/ Mirror!Ready(m)
  PROVE  MirrorType'
<1> USE DEF MirrorType
<1>1. mirrorStart[m] \in StartType
  OBVIOUS
<1>2. CASE Mirror!Load(m)
  <2>1. mirrorStart' \in [Modules -> StartType]
    BY <1>1, <1>2 DEF Mirror!Load, StartType
  <2> QED BY <1>2, <2>1 DEF Mirror!Load
<1>3. CASE Mirror!ServeStart(m)
  <2>1. ASSUME mirrorStart' = [mirrorStart EXCEPT ![m].at = "next",
                                      ![m].left = {p \in Paths : mirrorWorkspace[p] # Gone}]
        PROVE  mirrorStart' \in [Modules -> StartType]
    <3>1. {p \in Paths : mirrorWorkspace[p] # Gone} \in SUBSET Paths
      OBVIOUS
    <3> DEFINE listed == {p \in Paths : mirrorWorkspace[p] # Gone}
    <3> HIDE DEF listed
    <3>2. [mirrorStart[m] EXCEPT !.at = "next", !.left = listed] \in StartType
      BY <1>1, <3>1 DEF StartType, listed
    <3>3. mirrorStart' = [mirrorStart EXCEPT ![m] = [mirrorStart[m] EXCEPT !.at = "next", !.left = listed]]
      BY <2>1 DEF listed
    <3> QED BY <3>2, <3>3
  <2>2. ASSUME NEW p \in mirrorStart[m].left,
               mirrorStart' = [mirrorStart EXCEPT ![m].at = "read", ![m].path = p, ![m].got = mirrorWorkspace[p]]
        PROVE  mirrorStart' \in [Modules -> StartType]
    <3>1. p \in Paths /\ mirrorWorkspace[p] \in Contents
      BY <1>1 DEF StartType
    <3> QED BY <1>1, <2>2, <3>1 DEF StartType
  <2>3. mirrorStart' \in [Modules -> StartType]
    BY <1>3, <2>1, <2>2 DEF Mirror!ServeStart, StartType
  <2> QED BY <1>3, <2>3 DEF Mirror!ServeStart
<1>4. CASE Mirror!Copy(m)
  <2>1. /\ mirrorStart[m].got \in Contents /\ mirrorStart[m].bytes \in Nat
        /\ mirrorStart[m].left \in SUBSET Paths
    BY <1>1 DEF StartType
  <2>2. [Mirror!NotStarted EXCEPT !.at = "failed"] \in StartType
    BY DEF Mirror!NotStarted, StartType, Contents
  <2>3. ASSUME mirrorStart[m].got # Gone
        PROVE  [mirrorStart[m] EXCEPT !.at = "next", !.left = @ \ {mirrorStart[m].path},
                                !.bytes = mirrorStart[m].bytes + mirrorStart[m].got] \in StartType
    <3>1. mirrorStart[m].bytes + mirrorStart[m].got \in Nat
      <4>1. mirrorStart[m].got \in Nat
        BY <2>1, <2>3 DEF Mirror!WebMirrorAssumption, Contents
      <4> QED BY <2>1, <4>1
    <3> QED BY <1>1, <2>1, <3>1 DEF StartType
  <2>4. mirrorStart' \in [Modules -> StartType]
    BY <1>4, <2>2, <2>3 DEF Mirror!Copy
  <2>5. mirrorMemfs' \in [Modules -> [Paths -> Contents]]
    <3>1. mirrorMemfs' = mirrorMemfs \/ mirrorMemfs' = [mirrorMemfs EXCEPT ![m][mirrorStart[m].path] = mirrorStart[m].got]
      BY <1>4 DEF Mirror!Copy
    <3> QED BY <2>1, <3>1
  <2> QED BY <1>4, <2>4, <2>5 DEF Mirror!Copy
<1>5. CASE Mirror!Ready(m)
  <2>1. mirrorStart' \in [Modules -> StartType]
    BY <1>1, <1>5 DEF Mirror!Ready, StartType
  <2> QED BY <1>5, <2>1 DEF Mirror!Ready
<1> QED BY <1>2, <1>3, <1>4, <1>5

\* An answer is to the question of the same stage.
LEMMA ServeFlushMoves ==
  ASSUME NEW f \in Flights, Mirror!ServeFlush(f), mirrorFlush \in [Flights -> FlushType]
  PROVE  \E to \in {"stated", "got"} :
           mirrorFlush' = [mirrorFlush EXCEPT ![f] = [mirrorFlush[f] EXCEPT !.at = to,
                                                          !.got = mirrorWorkspace[Head(mirrorFlush[f].left)]]]
<1>1. mirrorFlush[f].at \in {"stat", "read"} /\ mirrorFlush[f] \in FlushType
  BY DEF Mirror!ServeFlush
<1> DEFINE answered == [stat |-> "stated", read |-> "got"]
           to == answered[mirrorFlush[f].at]
<1>2. mirrorFlush' = [mirrorFlush EXCEPT ![f].at = to, ![f].got = mirrorWorkspace[Head(mirrorFlush[f].left)]]
  BY DEF Mirror!ServeFlush
<1>3. to \in {"stated", "got"}
  BY <1>1
<1> HIDE DEF to
<1>4. mirrorFlush' = [mirrorFlush EXCEPT ![f] = [mirrorFlush[f] EXCEPT !.at = to,
                                                     !.got = mirrorWorkspace[Head(mirrorFlush[f].left)]]]
  BY <1>2
<1> QED BY <1>3, <1>4

LEMMA FlushTypeKept ==
  ASSUME MirrorType, ToLive,
         Mirror!FlushTimer \/ \E f \in Flights : Mirror!ServeFlush(f) \/ Mirror!ResumeFlush(f)
  PROVE  MirrorType'
<1> USE DEF MirrorType
<1>1. CASE Mirror!FlushTimer
  <2>1. mirrorFlush' \in [Flights -> FlushType] /\ mirrorPending' \in Seq(Paths)
    <3>1. CASE mirrorCurrent = 0 \/ mirrorPending = <<>>
      BY <1>1, <3>1 DEF Mirror!FlushTimer
    <3>2. CASE ~(mirrorCurrent = 0 \/ mirrorPending = <<>>)
      <4>1. PICK f \in Flights : mirrorFlush' = [mirrorFlush EXCEPT ![f] =
                   [at |-> "stat", module |-> mirrorCurrent, left |-> mirrorPending, got |-> Gone]]
        BY <1>1, <3>2 DEF Mirror!FlushTimer
      <4>2. [at |-> "stat", module |-> mirrorCurrent, left |-> mirrorPending, got |-> Gone] \in FlushType
        BY DEF FlushType, Contents
      <4>3. mirrorPending' = <<>>
        BY <1>1, <3>2 DEF Mirror!FlushTimer
      <4> QED BY <4>1, <4>2, <4>3
    <3> QED BY <3>1, <3>2
  <2> QED BY <1>1, <2>1 DEF Mirror!FlushTimer
<1>2. ASSUME NEW f \in Flights, Mirror!ServeFlush(f)
      PROVE  MirrorType'
  <2>1. mirrorFlush[f].at \in {"stat", "read"} /\ mirrorFlush[f] \in FlushType
    BY <1>2 DEF Mirror!ServeFlush
  <2>2. mirrorFlush[f].left # <<>> /\ mirrorFlush[f].left \in Seq(Paths)
    BY <2>1 DEF ToLive, FlushType
  <2>3. mirrorWorkspace[Head(mirrorFlush[f].left)] \in Contents
    BY <2>2, HeadAndTail
  <2>4. PICK to \in {"stated", "got"} :
          mirrorFlush' = [mirrorFlush EXCEPT ![f] = [mirrorFlush[f] EXCEPT !.at = to,
                                                         !.got = mirrorWorkspace[Head(mirrorFlush[f].left)]]]
    BY <1>2, <2>1, ServeFlushMoves
  <2>5. [mirrorFlush[f] EXCEPT !.at = to, !.got = mirrorWorkspace[Head(mirrorFlush[f].left)]] \in FlushType
    BY <2>1, <2>3, <2>4 DEF FlushType
  <2>6. mirrorFlush' \in [Flights -> FlushType]
    BY <2>4, <2>5
  <2> QED BY <1>2, <2>6 DEF Mirror!ServeFlush
<1>3. ASSUME NEW f \in Flights, Mirror!ResumeFlush(f)
      PROVE  MirrorType'
  <2>1. mirrorFlush[f].at \in {"stated", "got"} /\ mirrorFlush[f] \in FlushType
    BY <1>3 DEF Mirror!ResumeFlush
  <2>2. mirrorFlush[f].left # <<>> /\ mirrorFlush[f].got \in Contents
    BY <2>1 DEF ToLive, FlushType
  <2>3. Mirror!Onwards(mirrorFlush[f]) \in FlushType
    BY <2>1, <2>2, OnwardsType
  <2>4. [mirrorFlush[f] EXCEPT !.at = "read", !.got = Gone] \in FlushType
    BY <2>1 DEF FlushType, Contents
  <2>5. mirrorFlush' \in [Flights -> FlushType]
    BY <1>3, <2>3, <2>4 DEF Mirror!ResumeFlush
  <2>6. mirrorMemfs' = mirrorMemfs \/ mirrorMemfs' = [mirrorMemfs EXCEPT ![mirrorFlush[f].module][Head(mirrorFlush[f].left)] = mirrorFlush[f].got]
    BY <1>3 DEF Mirror!ResumeFlush
  <2>7. mirrorMemfs' \in [Modules -> [Paths -> Contents]]
    <3>1. /\ mirrorFlush[f].module \in Modules
          /\ mirrorMemfs[mirrorFlush[f].module] \in [Paths -> Contents]
      BY <2>1 DEF ToLive
    <3>2. [mirrorMemfs[mirrorFlush[f].module] EXCEPT ![Head(mirrorFlush[f].left)] = mirrorFlush[f].got] \in [Paths -> Contents]
      BY <2>2, <3>1
    <3>3. mirrorMemfs' = mirrorMemfs \/ mirrorMemfs' = [mirrorMemfs EXCEPT ![mirrorFlush[f].module] =
              [mirrorMemfs[mirrorFlush[f].module] EXCEPT ![Head(mirrorFlush[f].left)] = mirrorFlush[f].got]]
      BY <2>6, <3>1
    <3> QED BY <3>1, <3>2, <3>3
  <2> QED BY <1>3, <2>5, <2>7 DEF Mirror!ResumeFlush
<1> QED BY <1>1, <1>2, <1>3

LEMMA OtherTypeKept ==
  ASSUME MirrorType,
         \/ \E p \in Paths : Mirror!FsEvent(p) \/ \E c \in Sizes \cup {Gone} : Mirror!Change(p, c)
         \/ Mirror!Crash \/ Mirror!Respawn \/ Mirror!Restart
  PROVE  MirrorType'
<1> USE DEF MirrorType
<1>1. ASSUME NEW p \in Paths, Mirror!FsEvent(p) PROVE MirrorType'
  BY <1>1, QueuedType DEF Mirror!FsEvent
<1>2. ASSUME NEW p \in Paths, NEW c \in Sizes \cup {Gone}, Mirror!Change(p, c) PROVE MirrorType'
  BY <1>2 DEF Mirror!Change, Contents
<1>3. CASE Mirror!Crash
  BY <1>3 DEF Mirror!Crash
<1>4. ASSUME NEW m,
             Mirror!Spawn(m) PROVE m \in Modules /\ mirrorEngine' = m /\ mirrorStart' \in [Modules -> StartType]
  BY <1>4 DEF Mirror!Spawn, StartType
<1>5. CASE Mirror!Respawn \/ Mirror!Restart
  <2>1. mirrorEngine' \in Modules /\ mirrorStart' \in [Modules -> StartType]
    BY <1>4, <1>5 DEF Mirror!Respawn, Mirror!Restart
  <2> QED BY <1>5, <2>1 DEF Mirror!Respawn, Mirror!Restart
<1> QED BY <1>1, <1>2, <1>3, <1>5

LEMMA TypeKept ==
  ASSUME Mirror!WebMirrorAssumption, MirrorInv, [Mirror!Next]_(Mirror!vars)
  PROVE  MirrorType'
<1>1. CASE UNCHANGED Mirror!vars
  BY <1>1 DEF MirrorInv, MirrorType, Mirror!vars
<1> QED BY <1>1, StartTypeKept, FlushTypeKept, OtherTypeKept DEF MirrorInv, Mirror!Next

-----------------------------------------------------------------------------
(* Modules are filled in turn, and flushed to once they are ready. *)
LEMMA ModulesCounted == ASSUME Mirror!WebMirrorAssumption PROVE Modules \subseteq Int
  BY DEF Mirror!WebMirrorAssumption

LEMMA SpawnNext ==
  ASSUME Mirror!WebMirrorAssumption, MirrorType, EmptyFirst, Mirror!Spawn(mirrorEngine + 1)
  PROVE  /\ mirrorEngine + 1 \in Modules /\ mirrorStart[mirrorEngine + 1].at = "none" /\ mirrorEngine' = mirrorEngine + 1
         /\ mirrorStart'[mirrorEngine + 1].at = "load"
         /\ \A m \in Modules \ {mirrorEngine + 1} : mirrorStart'[m] = mirrorStart[m]
         /\ \A p \in Paths : mirrorMemfs[mirrorEngine + 1][p] = Gone
<1>1. mirrorEngine + 1 \in Modules /\ mirrorEngine \in Int
  BY ModulesCounted DEF MirrorType, Mirror!Spawn
<1>2. mirrorStart[mirrorEngine + 1].at = "none"
  BY <1>1 DEF EmptyFirst
<1>3. mirrorStart[mirrorEngine + 1] \in StartType
  BY <1>1 DEF MirrorType
<1> QED BY <1>1, <1>2, <1>3 DEF EmptyFirst, Mirror!Spawn, StartType, MirrorType

LEMMA SpawnFills ==
  ASSUME Mirror!WebMirrorAssumption, MirrorInv, Mirror!Respawn \/ Mirror!Restart
  PROVE  EmptyFirst' /\ ToLive'
<1>1. Mirror!Spawn(mirrorEngine + 1) /\ UNCHANGED <<mirrorMemfs, mirrorFlush, mirrorCurrent>>
  BY DEF Mirror!Respawn, Mirror!Restart
<1>2. Modules \subseteq Int /\ mirrorEngine \in Int
  BY ModulesCounted DEF MirrorInv, MirrorType
<1>3. EmptyFirst'
  BY <1>1, <1>2, SpawnNext DEF EmptyFirst, MirrorInv
<1>4. \A m \in Modules : mirrorStart[m].at = "live" => mirrorStart'[m].at = "live"
  BY <1>1, SpawnNext DEF MirrorInv
<1>5. ToLive'
  BY <1>1, <1>4 DEF ToLive, MirrorInv, MirrorType
<1> QED BY <1>3, <1>5

\* An answer to a start lists what is to be written, or is to be written.
LEMMA ServeStartMoves ==
  ASSUME MirrorType, NEW m \in Modules, Mirror!ServeStart(m)
  PROVE  /\ mirrorStart[m].at \in {"list", "next"} /\ mirrorStart'[m].at \in {"next", "read"}
         /\ \A k \in Modules \ {m} : mirrorStart'[k] = mirrorStart[k]
<1>1. mirrorStart \in [Modules -> StartType] /\ mirrorStart[m] \in StartType
  BY DEF MirrorType
<1>2. CASE mirrorStart[m].at = "list"
  <2>1. mirrorStart' = [mirrorStart EXCEPT ![m].at = "next",
                               ![m].left = {p \in Paths : mirrorWorkspace[p] # Gone}]
    BY <1>2 DEF Mirror!ServeStart
  <2> QED BY <1>1, <1>2, <2>1 DEF StartType
<1>3. CASE mirrorStart[m].at # "list"
  <2>1. PICK p \in mirrorStart[m].left :
          mirrorStart' = [mirrorStart EXCEPT ![m].at = "read", ![m].path = p, ![m].got = mirrorWorkspace[p]]
    BY <1>3 DEF Mirror!ServeStart
  <2>2. mirrorStart[m].at = "next"
    BY <1>3 DEF Mirror!ServeStart
  <2> QED BY <1>1, <2>1, <2>2 DEF StartType
<1> QED BY <1>2, <1>3

LEMMA StartFills ==
  ASSUME MirrorInv, NEW m \in Modules,
         Mirror!Load(m) \/ Mirror!ServeStart(m) \/ Mirror!Copy(m) \/ Mirror!Ready(m)
  PROVE  EmptyFirst' /\ ToLive'
<1>1. /\ mirrorStart[m].at \in {"load", "list", "next", "read"}
      /\ mirrorStart'[m].at \notin {"none", "load"}
      /\ (mirrorStart'[m].at = "list" => Mirror!Load(m))
      /\ \A k \in Modules \ {m} : mirrorStart'[k] = mirrorStart[k]
  <2>1. mirrorStart \in [Modules -> StartType] /\ mirrorStart[m] \in StartType
    BY DEF MirrorInv, MirrorType
  <2>2. CASE Mirror!Load(m)
    BY <2>1, <2>2 DEF Mirror!Load, StartType
  <2>3. CASE Mirror!ServeStart(m)
    BY <2>1, <2>3, ServeStartMoves DEF MirrorInv
  <2>4. CASE Mirror!Copy(m)
    BY <2>1, <2>4 DEF Mirror!Copy, StartType, Mirror!NotStarted
  <2>5. CASE Mirror!Ready(m)
    BY <2>1, <2>5 DEF Mirror!Ready, StartType
  <2> QED BY <2>2, <2>3, <2>4, <2>5
<1>2. UNCHANGED <<mirrorEngine, mirrorFlush>>
  BY DEF Mirror!Load, Mirror!ServeStart, Mirror!Copy, Mirror!Ready
<1>3. \A k \in Modules \ {m} : mirrorMemfs'[k] = mirrorMemfs[k]
  BY DEF Mirror!Load, Mirror!ServeStart, Mirror!Copy, Mirror!Ready, MirrorInv, MirrorType
<1>4. Mirror!Load(m) => mirrorMemfs' = mirrorMemfs
  BY DEF Mirror!Load
<1>5. EmptyFirst'
  <2>1. ~ m > mirrorEngine
    BY <1>1 DEF MirrorInv, EmptyFirst
  <2>2. ASSUME NEW k \in Modules, k > mirrorEngine
        PROVE  mirrorStart'[k].at = "none"
    BY <1>1, <2>1, <2>2 DEF MirrorInv, EmptyFirst
  <2>3. ASSUME NEW k \in Modules, mirrorStart'[k].at \in {"none", "load", "list"}, NEW p \in Paths
        PROVE  mirrorMemfs'[k][p] = Gone
    <3>1. CASE k # m
      BY <1>1, <1>3, <2>3, <3>1 DEF MirrorInv, EmptyFirst
    <3>2. CASE k = m
      <4>1. Mirror!Load(m) /\ mirrorStart[m].at = "load"
        BY <1>1, <2>3, <3>2 DEF Mirror!Load
      <4> QED BY <1>4, <3>2, <4>1 DEF MirrorInv, EmptyFirst
    <3> QED BY <3>1, <3>2
  <2> QED BY <1>2, <2>2, <2>3 DEF EmptyFirst
<1>6. mirrorCurrent' = mirrorCurrent \/ (mirrorCurrent' = m /\ mirrorStart'[m].at = "live")
  BY DEF Mirror!Load, Mirror!ServeStart, Mirror!Copy, Mirror!Ready, MirrorInv, MirrorType, StartType
<1>7. \A k \in Modules : mirrorStart[k].at = "live" => mirrorStart'[k].at = "live"
  BY <1>1
<1>8. ToLive'
  BY <1>2, <1>6, <1>7 DEF ToLive, MirrorInv, MirrorType
<1> QED BY <1>5, <1>8

LEMMA FlushFills ==
  ASSUME MirrorInv,
         Mirror!FlushTimer \/ \E f \in Flights : Mirror!ServeFlush(f) \/ Mirror!ResumeFlush(f)
  PROVE  EmptyFirst' /\ ToLive'
<1>1. UNCHANGED <<mirrorStart, mirrorEngine, mirrorCurrent>>
  BY DEF Mirror!FlushTimer, Mirror!ServeFlush, Mirror!ResumeFlush
<1>2. CASE Mirror!FlushTimer
  <2>1. mirrorMemfs' = mirrorMemfs
    BY <1>2 DEF Mirror!FlushTimer
  <2>2. EmptyFirst'
    BY <1>1, <2>1 DEF EmptyFirst, MirrorInv
  <2>3. CASE mirrorFlush' = mirrorFlush
    BY <1>1, <2>2, <2>3 DEF ToLive, MirrorInv
  <2>4. CASE mirrorFlush' # mirrorFlush
    <3>1. PICK f \in Flights : mirrorFlush' = [mirrorFlush EXCEPT ![f] =
                 [at |-> "stat", module |-> mirrorCurrent, left |-> mirrorPending, got |-> Gone]]
      BY <1>2, <2>4 DEF Mirror!FlushTimer
    <3>2. /\ mirrorCurrent \in Modules /\ mirrorPending # <<>>
          /\ mirrorStart[mirrorCurrent].at = "live"
      BY <1>2, <2>4 DEF Mirror!FlushTimer, MirrorInv, MirrorType, ToLive
    <3>3. \A g \in Flights \ {f} : mirrorFlush'[g] = mirrorFlush[g]
      BY <3>1 DEF MirrorInv, MirrorType
    <3>4. mirrorFlush'[f] = [at |-> "stat", module |-> mirrorCurrent, left |-> mirrorPending, got |-> Gone]
      BY <3>1 DEF MirrorInv, MirrorType
    <3>5. ToLive'
      BY <1>1, <3>2, <3>3, <3>4 DEF ToLive, MirrorInv
    <3> QED BY <2>2, <3>5
  <2> QED BY <2>3, <2>4
<1>3. ASSUME NEW f \in Flights, Mirror!ServeFlush(f)
      PROVE  EmptyFirst' /\ ToLive'
  <2>1. mirrorMemfs' = mirrorMemfs /\ mirrorFlush[f].at \in {"stat", "read"}
    BY <1>3 DEF Mirror!ServeFlush
  <2>2. EmptyFirst'
    BY <1>1, <2>1 DEF EmptyFirst, MirrorInv
  <2>3. \A g \in Flights \ {f} : mirrorFlush'[g] = mirrorFlush[g]
    BY <1>3 DEF Mirror!ServeFlush, MirrorInv, MirrorType
  <2>4. /\ mirrorFlush'[f].at # "none" /\ mirrorFlush'[f].module = mirrorFlush[f].module
        /\ mirrorFlush'[f].left = mirrorFlush[f].left
    <3>1. mirrorFlush \in [Flights -> FlushType] /\ mirrorFlush[f] \in FlushType
      BY DEF MirrorInv, MirrorType
    <3>2. PICK to \in {"stated", "got"} :
            mirrorFlush' = [mirrorFlush EXCEPT ![f] = [mirrorFlush[f] EXCEPT !.at = to,
                                           !.got = mirrorWorkspace[Head(mirrorFlush[f].left)]]]
      BY <1>3, <3>1, ServeFlushMoves
    <3>3. mirrorFlush'[f] = [mirrorFlush[f] EXCEPT !.at = to, !.got = mirrorWorkspace[Head(mirrorFlush[f].left)]]
      BY <3>1, <3>2
    <3> QED BY <3>1, <3>3 DEF FlushType
  <2>5. ToLive'
    BY <1>1, <2>1, <2>3, <2>4 DEF ToLive, MirrorInv
  <2> QED BY <2>2, <2>5
<1>4. ASSUME NEW f \in Flights, Mirror!ResumeFlush(f)
      PROVE  EmptyFirst' /\ ToLive'
  <2>1. /\ mirrorFlush[f].at \in {"stated", "got"} /\ mirrorFlush[f] \in FlushType
        /\ mirrorFlush[f].module \in Modules /\ mirrorStart[mirrorFlush[f].module].at = "live"
        /\ mirrorFlush[f].left # <<>>
    BY <1>4 DEF Mirror!ResumeFlush, MirrorInv, MirrorType, ToLive
  <2>2. \A m \in Modules : m # mirrorFlush[f].module => mirrorMemfs'[m] = mirrorMemfs[m]
    BY <1>4 DEF Mirror!ResumeFlush, MirrorInv, MirrorType
  <2>3. EmptyFirst'
    BY <1>1, <2>1, <2>2 DEF EmptyFirst, MirrorInv
  <2>4. \A g \in Flights \ {f} : mirrorFlush'[g] = mirrorFlush[g]
    BY <1>4 DEF Mirror!ResumeFlush, MirrorInv, MirrorType
  <2>5. mirrorFlush'[f] = [mirrorFlush[f] EXCEPT !.at = "read", !.got = Gone] \/ mirrorFlush'[f] = Mirror!Onwards(mirrorFlush[f])
    BY <1>4 DEF Mirror!ResumeFlush, MirrorInv, MirrorType
  <2>6. CASE mirrorFlush'[f] = Mirror!NoFlush
    BY <1>1, <2>3, <2>4, <2>6 DEF ToLive, MirrorInv, Mirror!NoFlush
  <2>7. CASE mirrorFlush'[f] # Mirror!NoFlush
    <3>1. /\ mirrorFlush'[f].at # "none" /\ mirrorFlush'[f].module = mirrorFlush[f].module
          /\ mirrorFlush'[f].left # <<>>
      BY <2>1, <2>5, <2>7, OnwardsType DEF FlushType
    <3>2. ToLive'
      BY <1>1, <2>1, <2>4, <3>1 DEF ToLive, MirrorInv
    <3> QED BY <2>3, <3>2
  <2> QED BY <2>6, <2>7
<1> QED BY <1>2, <1>3, <1>4

LEMMA ModulesFill ==
  ASSUME Mirror!WebMirrorAssumption, MirrorInv, [Mirror!Next]_(Mirror!vars)
  PROVE  EmptyFirst' /\ ToLive'
<1>1. CASE UNCHANGED <<mirrorStart, mirrorEngine, mirrorMemfs, mirrorCurrent, mirrorFlush>>
  BY <1>1 DEF MirrorInv, EmptyFirst, ToLive
<1> QED
  BY <1>1, SpawnFills, StartFills, FlushFills
  DEF Mirror!Next, Mirror!vars, Mirror!FsEvent, Mirror!Change, Mirror!Crash

-----------------------------------------------------------------------------
(* A settled file, step by step. *)
LEMMA FileStays ==
  ASSUME NEW p \in Paths, Mirroring(p), Following(p), UNCHANGED <<mirrorEngine, mirrorFlush>>,
         mirrorStart'[mirrorEngine] = mirrorStart[mirrorEngine], mirrorMemfs'[mirrorEngine] = mirrorMemfs[mirrorEngine],
         mirrorWorkspace'[p] = mirrorWorkspace[p]
  PROVE  Mirroring(p)' /\ Following(p)'
<1>1. Mirroring(p)'
  BY DEF Mirroring
<1>2. Following(p)'
  BY DEF Following, MirrorHolds, Mirror!Held
<1> QED BY <1>1, <1>2

LEMMA ChangeFile ==
  ASSUME MirrorInv, NEW p \in Paths, Settled(p)', NEW q \in Paths,
         Mirror!FsEvent(q) \/ \E c \in Sizes \cup {Gone} : Mirror!Change(q, c)
  PROVE  Mirroring(p)' /\ Following(p)'
<1>1. UNCHANGED <<mirrorEngine, mirrorFlush, mirrorStart, mirrorMemfs, mirrorCrossed>>
  BY DEF Mirror!FsEvent, Mirror!Change
<1>2. CASE Mirror!FsEvent(q)
  <2>1. /\ Mirror!ToSet(mirrorPending') = Mirror!ToSet(mirrorPending) \cup {q}
        /\ mirrorEvents' = mirrorEvents \ {q} /\ mirrorWorkspace' = mirrorWorkspace
    BY <1>2, QueuedType DEF Mirror!FsEvent, MirrorInv, MirrorType
  <2>2. Settled(p)
    BY <1>1, <2>1 DEF Settled
  <2> QED BY <1>1, <2>1, <2>2, FileStays DEF MirrorInv
<1>3. ASSUME NEW c \in Sizes \cup {Gone}, Mirror!Change(q, c)
      PROVE  Mirroring(p)' /\ Following(p)'
  <2>1. /\ mirrorPending' = mirrorPending /\ mirrorEvents' = mirrorEvents \cup {q}
        /\ mirrorWorkspace' = [mirrorWorkspace EXCEPT ![q] = c]
    BY <1>3 DEF Mirror!Change
  <2>2. Settled(p) /\ p # q
    BY <1>1, <2>1 DEF Settled
  <2>3. mirrorWorkspace'[p] = mirrorWorkspace[p]
    BY <2>1, <2>2 DEF MirrorInv, MirrorType
  <2> QED BY <1>1, <2>2, <2>3, FileStays DEF MirrorInv
<1> QED BY <1>2, <1>3

LEMMA SpawnFile ==
  ASSUME Mirror!WebMirrorAssumption, MirrorInv, NEW p \in Paths, Mirror!Respawn \/ Mirror!Restart
  PROVE  Mirroring(p)' /\ Following(p)'
<1>1. mirrorEngine' = mirrorEngine + 1 /\ mirrorStart'[mirrorEngine + 1].at = "load"
  BY SpawnNext DEF MirrorInv, Mirror!Respawn, Mirror!Restart
<1> QED BY <1>1 DEF Mirroring, Following

(* The engine's own module is mirrored ... *)
LEMMA MirrorFile ==
  ASSUME MirrorInv, NEW p \in Paths, Settled(p),
         Mirror!Load(mirrorEngine) \/ Mirror!ServeStart(mirrorEngine) \/ Mirror!Copy(mirrorEngine)
  PROVE  Mirroring(p)' /\ Following(p)'
<1> DEFINE s == mirrorStart[mirrorEngine]
<1>1. /\ mirrorEngine \in Modules /\ s \in StartType
      /\ UNCHANGED <<mirrorEngine, mirrorWorkspace, mirrorFlush>>
      /\ mirrorStart \in [Modules -> StartType] /\ Mirroring(p) /\ EmptyFirst
      /\ mirrorMemfs \in [Modules -> [Paths -> Contents]]
  BY DEF MirrorInv, MirrorType, Mirror!Load, Mirror!ServeStart, Mirror!Copy
<1>2. CASE Mirror!Load(mirrorEngine)
  <2>1. mirrorStart'[mirrorEngine].at = "list"
    BY <1>1, <1>2 DEF Mirror!Load, StartType
  <2> QED BY <1>1, <2>1 DEF Mirroring, Following
<1>3. CASE Mirror!ServeStart(mirrorEngine) /\ s.at = "list"
  <2>1. /\ mirrorStart'[mirrorEngine].at = "next"
        /\ mirrorStart'[mirrorEngine].left = {q \in Paths : mirrorWorkspace[q] # Gone}
    BY <1>1, <1>3 DEF Mirror!ServeStart, StartType
  <2>2. mirrorMemfs' = mirrorMemfs /\ mirrorMemfs[mirrorEngine][p] = Gone
    BY <1>1, <1>3 DEF Mirror!ServeStart, EmptyFirst
  <2> QED BY <1>1, <2>1, <2>2 DEF Mirroring, Following
<1>4. CASE Mirror!ServeStart(mirrorEngine) /\ s.at # "list"
  <2>1. PICK q \in s.left :
          mirrorStart' = [mirrorStart EXCEPT ![mirrorEngine].at = "read", ![mirrorEngine].path = q,
                                 ![mirrorEngine].got = mirrorWorkspace[q]]
    BY <1>4 DEF Mirror!ServeStart
  <2>2. /\ mirrorStart'[mirrorEngine].at = "read" /\ mirrorStart'[mirrorEngine].path = q
        /\ mirrorStart'[mirrorEngine].got = mirrorWorkspace[q]
        /\ mirrorStart'[mirrorEngine].left = s.left
    BY <1>1, <2>1 DEF StartType
  <2>3. mirrorMemfs' = mirrorMemfs /\ s.at = "next"
    BY <1>4 DEF Mirror!ServeStart
  <2> QED BY <1>1, <2>2, <2>3 DEF Mirroring, Following
<1>5. CASE Mirror!Copy(mirrorEngine)
  <2>1. s.at = "read"
    BY <1>5 DEF Mirror!Copy
  <2>2. CASE mirrorStart'[mirrorEngine] = [Mirror!NotStarted EXCEPT !.at = "failed"]
    BY <1>1, <2>2 DEF Mirroring, Following, Mirror!NotStarted
  <2>3. CASE mirrorStart'[mirrorEngine] # [Mirror!NotStarted EXCEPT !.at = "failed"]
    <3>1. /\ mirrorStart'[mirrorEngine].at = "next"
          /\ mirrorStart'[mirrorEngine].left = s.left \ {s.path}
          /\ mirrorMemfs' = [mirrorMemfs EXCEPT ![mirrorEngine][s.path] = s.got]
      BY <1>1, <1>5, <2>3 DEF Mirror!Copy, StartType
    <3>2. mirrorMemfs'[mirrorEngine][p] = IF p = s.path THEN s.got ELSE mirrorMemfs[mirrorEngine][p]
      BY <1>1, <3>1
    <3> QED BY <1>1, <2>1, <3>1, <3>2 DEF Mirroring, Following
  <2> QED BY <2>2, <2>3
<1> QED BY <1>2, <1>3, <1>4, <1>5

(* ... and ready, when no flush is on its way to it yet. *)
LEMMA ReadyFile ==
  ASSUME MirrorInv, NEW p \in Paths, Settled(p), Mirror!Ready(mirrorEngine)
  PROVE  Mirroring(p)' /\ Following(p)'
<1>1. /\ mirrorStart[mirrorEngine].at = "next" /\ mirrorStart[mirrorEngine].left = {}
      /\ mirrorEngine \in Modules
      /\ UNCHANGED <<mirrorEngine, mirrorWorkspace, mirrorFlush, mirrorMemfs>> /\ Mirroring(p)
  BY DEF Mirror!Ready, MirrorInv, MirrorType
<1>2. mirrorStart'[mirrorEngine].at = "live"
  BY <1>1 DEF Mirror!Ready, MirrorInv, MirrorType, StartType
<1>3. \A f \in Flights : ~MirrorHolds(f, p)
  <2> SUFFICES ASSUME NEW f \in Flights, mirrorFlush[f].module = mirrorEngine,
                      p \in Mirror!ToSet(mirrorFlush[f].left)
               PROVE  FALSE
    BY DEF MirrorHolds
  <2>1. mirrorFlush[f].at # "none"
    BY EmptyHasNone DEF MirrorInv, ToLive, Mirror!NoFlush
  <2> QED BY <1>1, <2>1 DEF MirrorInv, ToLive
<1>4. mirrorMemfs[mirrorEngine][p] = mirrorWorkspace[p]
  BY <1>1 DEF Mirroring
<1>5. Mirroring(p)'
  BY <1>1, <1>2 DEF Mirroring
<1>6. \A f \in Flights : ~MirrorHolds(f, p)'
  BY <1>1, <1>3 DEF MirrorHolds
<1>7. Following(p)'
  BY <1>1, <1>4, <1>6 DEF Following
<1> QED BY <1>5, <1>7

LEMMA StartFile ==
  ASSUME MirrorInv, NEW p \in Paths, Settled(p)', NEW m \in Modules,
         Mirror!Load(m) \/ Mirror!ServeStart(m) \/ Mirror!Copy(m) \/ Mirror!Ready(m)
  PROVE  Mirroring(p)' /\ Following(p)'
<1>1. UNCHANGED <<mirrorEvents, mirrorPending, mirrorCrossed, mirrorWorkspace, mirrorEngine,
                  mirrorFlush>>
  BY DEF Mirror!Load, Mirror!ServeStart, Mirror!Copy, Mirror!Ready
<1>2. Settled(p)
  BY <1>1 DEF Settled
<1>3. CASE m # mirrorEngine
  <2>1. /\ mirrorStart'[mirrorEngine] = mirrorStart[mirrorEngine]
        /\ mirrorMemfs'[mirrorEngine] = mirrorMemfs[mirrorEngine]
    BY <1>3 DEF Mirror!Load, Mirror!ServeStart, Mirror!Copy, Mirror!Ready, MirrorInv, MirrorType
  <2> QED BY <1>1, <1>2, <2>1, FileStays DEF MirrorInv
<1> QED BY <1>2, <1>3, MirrorFile, ReadyFile

(* A flush takes what is pending: it is the first to hold what it takes to the engine,
   or the file is among those crossed. *)
LEMMA TakenFile ==
  ASSUME MirrorInv, NEW p \in Paths, Settled(p)', Mirror!FlushTimer
  PROVE  Mirroring(p)' /\ Following(p)'
<1>1. UNCHANGED <<mirrorEvents, mirrorWorkspace, mirrorEngine, mirrorStart, mirrorMemfs>>
  BY DEF Mirror!FlushTimer
<1>2. CASE mirrorFlush' = mirrorFlush
  <2>1. UNCHANGED <<mirrorPending, mirrorCrossed>>
    <3>1. CASE mirrorCurrent = 0 \/ mirrorPending = <<>>
      BY <3>1 DEF Mirror!FlushTimer
    <3>2. CASE ~(mirrorCurrent = 0 \/ mirrorPending = <<>>)
      <4>1. PICK f \in Flights : mirrorFlush[f].at = "none" /\ mirrorFlush'[f].at = "stat"
        BY <3>2 DEF Mirror!FlushTimer, MirrorInv, MirrorType
      <4> QED BY <1>2, <4>1
    <3> QED BY <3>1, <3>2
  <2>2. Settled(p)
    BY <1>1, <2>1 DEF Settled
  <2> QED BY <1>1, <1>2, <2>2, FileStays DEF MirrorInv
<1>3. CASE mirrorFlush' # mirrorFlush
  <2>1. PICK f \in Flights :
          /\ mirrorFlush[f].at = "none"
          /\ mirrorFlush' = [mirrorFlush EXCEPT ![f] =
               [at |-> "stat", module |-> mirrorCurrent, left |-> mirrorPending, got |-> Gone]]
    BY <1>3 DEF Mirror!FlushTimer
  <2>2. /\ mirrorPending' = <<>>
        /\ mirrorCrossed' = mirrorCrossed \cup {q \in Mirror!ToSet(mirrorPending) : mirrorCurrent # mirrorEngine \/ Mirror!Held(q)}
    BY <1>3 DEF Mirror!FlushTimer
  <2>3. mirrorFlush[f] = Mirror!NoFlush /\ ~MirrorHolds(f, p)
    BY <2>1, EmptyHasNone DEF MirrorInv, ToLive, Mirror!NoFlush, MirrorHolds
  <2>4. /\ mirrorFlush'[f] = [at |-> "stat", module |-> mirrorCurrent, left |-> mirrorPending, got |-> Gone]
        /\ \A g \in Flights \ {f} : mirrorFlush'[g] = mirrorFlush[g]
    BY <2>1 DEF MirrorInv, MirrorType
  <2>5. p \notin mirrorCrossed /\ p \notin mirrorEvents
    BY <1>1, <2>2 DEF Settled
  <2>6. CASE p \in Mirror!ToSet(mirrorPending)
    <3>1. mirrorCurrent = mirrorEngine /\ ~Mirror!Held(p)
      BY <2>2, <2>6 DEF Settled
    <3>2. \A g \in Flights : ~MirrorHolds(g, p)
      BY <3>1 DEF Mirror!Held, MirrorHolds
    <3>3. MirrorHolds(f, p)' /\ Mirror!Held(p)' /\ \A g \in Flights \ {f} : ~MirrorHolds(g, p)'
      BY <1>1, <2>4, <2>6, <3>1, <3>2 DEF MirrorHolds, Mirror!Held
    <3>4. Following(p)'
      BY <2>4, <3>3 DEF Following
    <3>5. mirrorStart[mirrorEngine].at = "live"
      BY <2>2, <3>1, <1>3 DEF Mirror!FlushTimer, MirrorInv, ToLive
    <3>6. Mirroring(p)'
      BY <1>1, <3>5 DEF Mirroring
    <3> QED BY <3>4, <3>6
  <2>7. CASE p \notin Mirror!ToSet(mirrorPending)
    <3>1. Settled(p)
      BY <2>5, <2>7 DEF Settled
    <3>2. Mirroring(p)'
      BY <1>1, <3>1 DEF Mirroring, MirrorInv
    <3>3. \A g \in Flights : MirrorHolds(g, p)' <=> MirrorHolds(g, p)
      BY <1>1, <2>3, <2>4, <2>7 DEF MirrorHolds
    <3>4. Mirror!Held(p)' <=> Mirror!Held(p)
      BY <3>3 DEF Mirror!Held, MirrorHolds
    <3>5. Following(p)
      BY <3>1 DEF MirrorInv
    <3>6. Following(p)'
      BY <1>1, <2>3, <2>4, <3>3, <3>4, <3>5 DEF Following
    <3> QED BY <3>2, <3>6
  <2> QED BY <2>6, <2>7
<1> QED BY <1>2, <1>3

LEMMA ServedFile ==
  ASSUME MirrorInv, NEW p \in Paths, Settled(p), NEW f \in Flights, Mirror!ServeFlush(f)
  PROVE  Mirroring(p)' /\ Following(p)'
<1>1. UNCHANGED <<mirrorWorkspace, mirrorEngine, mirrorStart,
                  mirrorMemfs>> /\ mirrorFlush[f] \in FlushType
  BY DEF Mirror!ServeFlush, MirrorInv, MirrorType
<1>2. PICK to \in {"stated", "got"} :
        mirrorFlush' = [mirrorFlush EXCEPT ![f] = [mirrorFlush[f] EXCEPT !.at = to,
                                                       !.got = mirrorWorkspace[Head(mirrorFlush[f].left)]]]
  BY ServeFlushMoves DEF MirrorInv, MirrorType
<1>3. /\ mirrorFlush'[f].module = mirrorFlush[f].module
      /\ mirrorFlush'[f].left = mirrorFlush[f].left
      /\ mirrorFlush'[f].got = mirrorWorkspace[Head(mirrorFlush[f].left)]
      /\ \A g \in Flights \ {f} : mirrorFlush'[g] = mirrorFlush[g]
  BY <1>1, <1>2 DEF MirrorInv, MirrorType, FlushType
<1>4. \A g \in Flights : MirrorHolds(g, p)' <=> MirrorHolds(g, p)
  BY <1>1, <1>3 DEF MirrorHolds
<1>5. Mirror!Held(p)' <=> Mirror!Held(p)
  BY <1>4 DEF Mirror!Held, MirrorHolds
<1>6. Mirroring(p)'
  BY <1>1 DEF MirrorInv, Mirroring
<1>7. Following(p)
  BY DEF MirrorInv
<1>8. Following(p)'
  BY <1>1, <1>3, <1>4, <1>5, <1>7 DEF Following
<1> QED BY <1>6, <1>8

(* A flush reads the file on, or writes or removes it and lets go of it. *)
LEMMA ResumedFile ==
  ASSUME MirrorInv, NEW p \in Paths, Settled(p), NEW f \in Flights, Mirror!ResumeFlush(f)
  PROVE  Mirroring(p)' /\ Following(p)'
<1> DEFINE h == mirrorFlush[f]
           q == Head(h.left)
<1>1. /\ h.at \in {"stated", "got"} /\ h \in FlushType /\ h.left # <<>>
      /\ h.left \in Seq(Paths) /\ h.module \in Modules /\ mirrorStart[h.module].at = "live"
      /\ UNCHANGED <<mirrorWorkspace, mirrorEngine, mirrorStart>> /\ mirrorEngine \in Modules
  BY DEF Mirror!ResumeFlush, MirrorInv, MirrorType, FlushType, ToLive
<1>2. Mirror!ToSet(h.left) = {q} \cup Mirror!ToSet(Tail(h.left)) /\ q \in Paths
  BY <1>1, HeadAndTail
<1>3. \A g \in Flights \ {f} : mirrorFlush'[g] = mirrorFlush[g]
  BY DEF Mirror!ResumeFlush, MirrorInv, MirrorType
<1>4. Mirroring(p) /\ Following(p)
  BY DEF MirrorInv
<1>5. CASE h.module # mirrorEngine
  <2>1. mirrorMemfs'[mirrorEngine] = mirrorMemfs[mirrorEngine]
    BY <1>1, <1>5 DEF Mirror!ResumeFlush, MirrorInv, MirrorType
  <2>2. Mirroring(p)'
    BY <1>1, <1>4, <2>1 DEF Mirroring
  <2>3. mirrorFlush'[f] = [h EXCEPT !.at = "read", !.got = Gone] \/ mirrorFlush'[f] = Mirror!Onwards(h)
    BY DEF Mirror!ResumeFlush, MirrorInv, MirrorType
  <2>4. mirrorFlush'[f].module = h.module \/ mirrorFlush'[f] = Mirror!NoFlush
    BY <1>1, <2>3, OnwardsType DEF FlushType
  <2>5. ~MirrorHolds(f, p) /\ ~MirrorHolds(f, p)'
    BY <1>1, <1>5, <2>4, EmptyHasNone DEF MirrorHolds, Mirror!NoFlush
  <2>6. \A g \in Flights \ {f} : MirrorHolds(g, p)' <=> MirrorHolds(g, p)
    BY <1>1, <1>3 DEF MirrorHolds
  <2>7. Mirror!Held(p)' <=> Mirror!Held(p)
    BY <2>5, <2>6 DEF Mirror!Held, MirrorHolds
  <2>8. Following(p)'
    BY <1>1, <1>3, <1>4, <2>1, <2>5, <2>6, <2>7 DEF Following
  <2> QED BY <2>2, <2>8
<1>6. CASE h.module = mirrorEngine /\ h.at = "stated" /\ h.got # Gone
  <2>1. mirrorFlush'[f] = [h EXCEPT !.at = "read", !.got = Gone] /\ mirrorMemfs' = mirrorMemfs
    BY <1>6 DEF Mirror!ResumeFlush, MirrorInv, MirrorType
  <2>2. /\ mirrorFlush'[f].at = "read" /\ mirrorFlush'[f].module = h.module
        /\ mirrorFlush'[f].left = h.left
    BY <1>1, <2>1 DEF FlushType
  <2>3. \A g \in Flights : MirrorHolds(g, p)' <=> MirrorHolds(g, p)
    BY <1>1, <1>3, <2>2 DEF MirrorHolds
  <2>4. Mirror!Held(p)' <=> Mirror!Held(p)
    BY <2>3 DEF Mirror!Held, MirrorHolds
  <2>5. Mirroring(p)'
    BY <1>1, <1>4, <2>1 DEF Mirroring
  <2>6. Following(p)'
    <3>1. /\ \A e, g \in Flights : MirrorHolds(e, p)' /\ MirrorHolds(g, p)' => e = g
          /\ Mirror!Held(p)' \/ mirrorMemfs'[mirrorEngine'][p] = mirrorWorkspace'[p]
      BY <1>1, <1>4, <1>6, <2>1, <2>3, <2>4 DEF Following
    <3>2. ASSUME NEW g \in Flights, MirrorHolds(g, p)', mirrorFlush'[g].at \in {"stated", "got"},
                 Head(mirrorFlush'[g].left) = p
          PROVE  mirrorFlush'[g].got = mirrorWorkspace'[p]
      <4>1. g # f
        BY <2>2, <3>2
      <4>2. mirrorFlush'[g] = mirrorFlush[g]
        BY <1>3, <4>1
      <4> QED BY <1>1, <1>4, <1>6, <2>3, <3>2, <4>2 DEF Following
    <3> QED BY <3>1, <3>2 DEF Following
  <2> QED BY <2>5, <2>6
<1>7. CASE h.module = mirrorEngine /\ ~(h.at = "stated" /\ h.got # Gone)
  <2>1. /\ mirrorFlush'[f] = Mirror!Onwards(h)
        /\ mirrorMemfs' = [mirrorMemfs EXCEPT ![mirrorEngine][q] = h.got]
    BY <1>7 DEF Mirror!ResumeFlush, MirrorInv, MirrorType
  <2>2. mirrorMemfs'[mirrorEngine][p] = IF p = q THEN h.got ELSE mirrorMemfs[mirrorEngine][p]
    BY <1>1, <1>2, <2>1 DEF MirrorInv, MirrorType
  <2>3. mirrorStart[mirrorEngine].at = "live"
    BY <1>1, <1>7
  <2>4. Mirroring(p)'
    BY <1>1, <2>3 DEF Mirroring
  <2>5. /\ MirrorHolds(f, p)' => MirrorHolds(f, p)
        /\ MirrorHolds(f, p) => MirrorHolds(f, p)' \/ p = q
        /\ MirrorHolds(f, p)' => mirrorFlush'[f].at = "stat"
    <3>1. h.module = mirrorEngine /\ mirrorEngine' = mirrorEngine
      BY <1>1, <1>7
    <3>2. CASE Mirror!Onwards(h) = Mirror!NoFlush /\ Mirror!ToSet(h.left) = {q}
      <4>1. mirrorFlush'[f].left = <<>>
        BY <2>1, <3>2 DEF Mirror!NoFlush
      <4> QED BY <3>2, <4>1, EmptyHasNone DEF MirrorHolds
    <3>3. CASE /\ Mirror!Onwards(h).at = "stat" /\ Mirror!Onwards(h).module = h.module
               /\ Mirror!Onwards(h).left = Tail(h.left)
      BY <1>2, <2>1, <3>1, <3>3 DEF MirrorHolds
    <3> QED BY <1>1, <3>2, <3>3, OnwardsType
  <2>6. \A g \in Flights \ {f} : MirrorHolds(g, p)' <=> MirrorHolds(g, p)
    BY <1>1, <1>3 DEF MirrorHolds
  <2>7. p = q => MirrorHolds(f, p) /\ h.got = mirrorWorkspace[p]
    BY <1>1, <1>2, <1>4, <1>7, <2>3 DEF Following, MirrorHolds
  <2>8. Mirror!Held(p)' \/ mirrorMemfs'[mirrorEngine][p] = mirrorWorkspace'[p]
    <3>1. CASE p = q
      BY <1>1, <2>2, <2>7, <3>1
    <3>2. CASE p # q
      <4>1. Mirror!Held(p) => Mirror!Held(p)'
        BY <2>5, <2>6, <3>2 DEF Mirror!Held, MirrorHolds
      <4> QED BY <1>1, <1>4, <2>2, <2>3, <3>2, <4>1 DEF Following
    <3> QED BY <3>1, <3>2
  <2>9. Following(p)'
    BY <1>1, <1>3, <1>4, <2>3, <2>5, <2>6, <2>8 DEF Following
  <2> QED BY <2>4, <2>9
<1> QED BY <1>1, <1>5, <1>6, <1>7

-----------------------------------------------------------------------------
LEMMA FileKept ==
  ASSUME Mirror!WebMirrorAssumption, MirrorInv, [Mirror!Next]_(Mirror!vars), NEW p \in Paths,
         Settled(p)'
  PROVE  Mirroring(p)' /\ Following(p)'
<1>1. CASE UNCHANGED <<mirrorWorkspace, mirrorEvents, mirrorPending, mirrorEngine, mirrorStart,
                       mirrorMemfs, mirrorFlush, mirrorCrossed>>
  <2>1. Settled(p)
    BY <1>1 DEF Settled
  <2> QED BY <1>1, <2>1, FileStays DEF MirrorInv
<1>2. ASSUME NEW f \in Flights, Mirror!ServeFlush(f) \/ Mirror!ResumeFlush(f)
      PROVE  Mirroring(p)' /\ Following(p)'
  <2>1. Settled(p)
    BY <1>2 DEF Mirror!ServeFlush, Mirror!ResumeFlush, Settled
  <2> QED BY <1>2, <2>1, ServedFile, ResumedFile
<1> QED
  BY <1>1, <1>2, ChangeFile, SpawnFile, StartFile, TakenFile
  DEF Mirror!Next, Mirror!vars, Mirror!Crash

LEMMA StepMirror == ASSUME Mirror!WebMirrorAssumption, MirrorInv, [Mirror!Next]_(Mirror!vars) PROVE MirrorInv'
  BY TypeKept, ModulesFill, FileKept DEF MirrorInv

(* A live engine of the web extension works on every file as the workspace holds it,
   but for what is reported, put off or in a flush, and for files two flushes held or
   one took astray (memfsBridge.ts, extensionWeb.ts, wasmTransport.ts). *)
THEOREM MirrorFollows ==
  ASSUME Mirror!WebMirrorAssumption
  PROVE  /\ Mirror!Spec => []Mirror!MirrorExact
         /\ (subject = "mirror" => Mirror!Spec) /\ [][UNCHANGED subject]_subject => []MirrorExact
<1>1. Mirror!Init => MirrorInv
  BY InitMirror
<1>2. MirrorInv /\ [Mirror!Next]_(Mirror!vars) => MirrorInv'
  BY StepMirror
<1>3. MirrorInv => Mirror!MirrorExact
  BY DEF MirrorInv, Mirror!MirrorExact, Following, Settled
<1>4. Mirror!Spec => []Mirror!MirrorExact
  BY <1>1, <1>2, <1>3, PTL DEF Mirror!Spec
<1>5. (subject = "mirror" => Mirror!Spec) /\ [][UNCHANGED subject]_subject => []MirrorExact
  <2>1. /\ ~ (subject = "mirror") /\ [UNCHANGED subject]_subject => ~ (subject = "mirror")'
        /\ ~ (subject = "mirror") => MirrorExact
        /\ Mirror!MirrorExact => MirrorExact
    BY DEF MirrorExact
  <2> QED  BY <1>4, <2>1, PTL
<1> QED  BY <1>4, <1>5

-----------------------------------------------------------------------------
(***************************************************************************)
(* TtlCache.  Nothing fetched before a drop is kept after it.              *)
(***************************************************************************)
EntryType == [key : CacheKeys, began : Nat, age : Cache!Ages]
FetchType == [key : CacheKeys, began : Nat]
ReaderType == [key : CacheKeys \cup {NONE}, since : Nat, on : Fetches \cup {NONE}, got : Nat \cup {NONE}]

CacheType ==
  /\ cacheInflight \in [CacheKeys -> Fetches \cup {NONE}]
  /\ cacheFetching \in [Fetches -> FetchType \cup {NONE}]
  /\ cacheDrops \in [CacheKeys -> Nat]
  /\ cacheReader \in [Readers -> ReaderType]

(* Entries of which a key has at most one, each of a fetch that began after the
   last drop of its key. *)
AsDropped(s, dropped) ==
  /\ s \in Seq(EntryType)
  /\ \A i \in DOMAIN s : s[i].began = dropped[s[i].key]
  /\ \A i, j \in DOMAIN s : s[i].key = s[j].key => i = j

EntriesFresh == AsDropped(cacheEntries, cacheDrops)

(* So did the fetch that owns a key. *)
OwnersFresh ==
  \A k \in CacheKeys : cacheInflight[k] # NONE => cacheFetching[cacheInflight[k]] = [key |-> k, began |-> cacheDrops[k]]

(* A reader waits for a fetch under way, which began after the key was last dropped
   before the read, and was answered with such a one. *)
Served(fetched, read) ==
  /\ read.on # NONE => fetched[read.on] \in FetchType /\ fetched[read.on].began >= read.since
  /\ read.got # NONE => read.got >= read.since

ReadersFresh == \A r \in Readers : Served(cacheFetching, cacheReader[r])

CacheInv == CacheType /\ EntriesFresh /\ OwnersFresh /\ ReadersFresh

-----------------------------------------------------------------------------
(* Where a key's entry is. *)
LEMMA AtHeld ==
  ASSUME NEW k \in CacheKeys, Cache!Held(k)
  PROVE  Cache!At(k) \in DOMAIN cacheEntries /\ cacheEntries[Cache!At(k)].key = k
BY DEF Cache!Held, Cache!At

(* Without drops the one entry of its key and keeps the order of the others. *)
LEMMA WithoutKept ==
  ASSUME CacheType, EntriesFresh, NEW k \in CacheKeys
  PROVE  /\ AsDropped(Cache!Without(k), cacheDrops)
         /\ \A i \in DOMAIN Cache!Without(k) : Cache!Without(k)[i].key # k
<1>1. CASE ~ Cache!Held(k)
  BY <1>1 DEF Cache!Without, Cache!Held, EntriesFresh
<1>2. CASE Cache!Held(k)
  <2>1. PICK n \in DOMAIN cacheEntries : n = Cache!At(k) /\ cacheEntries[n].key = k  BY <1>2, AtHeld
  <2> DEFINE s == Cache!Without(k)
             from(i) == IF i < n THEN i ELSE i + 1
  <2>2. cacheEntries \in Seq(EntryType) /\ n \in 1 .. Len(cacheEntries)
    BY <2>1 DEF EntriesFresh, AsDropped
  <2>3. s = SubSeq(cacheEntries, 1, n - 1) \o SubSeq(cacheEntries, n + 1, Len(cacheEntries))
    BY <1>2, <2>1 DEF Cache!Without, Cache!RemoveAt
  <2>4. /\ s \in Seq(EntryType) /\ Len(s) = Len(cacheEntries) - 1 /\ DOMAIN s = 1 .. Len(s)
        /\ DOMAIN cacheEntries = 1 .. Len(cacheEntries) /\ Len(cacheEntries) \in Nat
        /\ \A i \in 1 .. Len(s) : s[i] = cacheEntries[from(i)]
    <3> DEFINE a == SubSeq(cacheEntries, 1, n - 1)
               b == SubSeq(cacheEntries, n + 1, Len(cacheEntries))
    <3>1. a \in Seq(EntryType) /\ Len(a) = n - 1 /\ \A i \in 1 .. n - 1 : a[i] = cacheEntries[i]
      BY <2>2
    <3>2. /\ b \in Seq(EntryType) /\ Len(b) = Len(cacheEntries) - n
          /\ \A i \in 1 .. Len(b) : b[i] = cacheEntries[n + i]
      BY <2>2
    <3> HIDE DEF a, b, s
    <3>3. s = a \o b
      BY <2>3 DEF a, b
    <3>4. s \in Seq(EntryType) /\ Len(s) = Len(a) + Len(b)
      BY <3>1, <3>2, <3>3, ConcatProperties
    <3>5. \A i \in 1 .. Len(s) : s[i] = IF i <= Len(a) THEN a[i] ELSE b[i - Len(a)]
      <4>1. /\ a \in Seq(EntryType) /\ b \in Seq(EntryType)
            /\ s = a \o b /\ Len(s) = Len(a) + Len(b)
        BY <3>1, <3>2, <3>3, <3>4
      <4> QED  BY <4>1, ConcatProperties
    <3>6. /\ Len(cacheEntries) \in Nat /\ n \in 1 .. Len(cacheEntries)
          /\ DOMAIN cacheEntries = 1 .. Len(cacheEntries)
      BY <2>2
    <3>7. ASSUME NEW i \in 1 .. Len(s) PROVE s[i] = cacheEntries[from(i)]
      <4>1. CASE i < n
        BY <3>1, <3>2, <3>4, <3>5, <3>6, <4>1
      <4>2. CASE i >= n
        <5>1. i - Len(a) \in 1 .. Len(b) /\ n + (i - Len(a)) = i + 1 /\ ~ i <= Len(a)
          BY <3>1, <3>2, <3>4, <3>6, <4>2
        <5>2. s[i] = b[i - Len(a)]
          BY <3>5, <3>7, <5>1
        <5>3. b[i - Len(a)] = cacheEntries[n + (i - Len(a))]
          BY <3>2, <5>1
        <5>4. from(i) = i + 1
          BY <3>4, <3>6, <4>2
        <5> QED  BY <5>1, <5>2, <5>3, <5>4
      <4> QED  BY <4>1, <4>2, <3>4, <3>6
    <3> QED  BY <3>1, <3>2, <3>4, <3>6, <3>7
  <2> HIDE DEF s
  <2>5. \A i \in DOMAIN s : from(i) \in DOMAIN cacheEntries /\ from(i) # n /\ s[i] = cacheEntries[from(i)]
    BY <2>2, <2>4
  <2>6. \A i, j \in DOMAIN s : from(i) = from(j) => i = j
    BY <2>4
  <2> HIDE DEF from
  <2>7. \A i \in DOMAIN s : s[i].key # k
    BY <2>1, <2>5 DEF EntriesFresh, AsDropped
  <2>8. AsDropped(s, cacheDrops)
    BY <2>4, <2>5, <2>6 DEF EntriesFresh, AsDropped
  <2> QED  BY <2>7, <2>8 DEF s
<1> QED  BY <1>1, <1>2

(* store writes the newest entry last, and lets the oldest go. *)
LEMMA StoredKept ==
  ASSUME Cache!TtlCacheAssumption, CacheType, EntriesFresh, NEW k \in CacheKeys
  PROVE  AsDropped(Cache!Stored(k, cacheDrops[k]), cacheDrops)
<1> DEFINE e == [key |-> k, began |-> cacheDrops[k], age |-> "fresh"]
           w == Cache!Without(k)
           written == Append(w, e)
<1>1. e \in EntryType /\ e.key = k /\ e.began = cacheDrops[k]
  BY DEF CacheType, EntryType, Cache!Ages
<1>2. AsDropped(w, cacheDrops) /\ \A i \in DOMAIN w : w[i].key # k
  BY WithoutKept
<1> HIDE DEF e, w
<1>3. /\ written \in Seq(EntryType) /\ Len(written) = Len(w) + 1
      /\ \A i \in 1 .. Len(w) : written[i] = w[i]
      /\ written[Len(w) + 1] = e
  BY <1>1, <1>2 DEF AsDropped
<1>4. AsDropped(written, cacheDrops)
  BY <1>1, <1>2, <1>3 DEF AsDropped
<1> HIDE DEF written
<1>5. ASSUME Len(written) > MaxEntries PROVE AsDropped(Tail(written), cacheDrops)
  <2>1. written \in Seq(EntryType) /\ written # << >>
    BY <1>3, <1>5 DEF Cache!TtlCacheAssumption
  <2>2. /\ Tail(written) \in Seq(EntryType) /\ Len(Tail(written)) = Len(written) - 1
        /\ \A i \in 1 .. Len(Tail(written)) : Tail(written)[i] = written[i + 1]
    BY <2>1
  <2> QED  BY <1>4, <2>1, <2>2 DEF AsDropped
<1> QED  BY <1>4, <1>5 DEF Cache!Stored, e, w, written

-----------------------------------------------------------------------------
LEMMA InitCache == ASSUME Cache!TtlCacheAssumption, Cache!Init PROVE CacheInv
<1>1. CacheType
  BY DEF Cache!Init, CacheType, ReaderType, Cache!Idle
<1>2. EntriesFresh
  BY DEF Cache!Init, EntriesFresh, AsDropped
<1>3. OwnersFresh
  BY DEF Cache!Init, OwnersFresh
<1>4. ReadersFresh
  BY DEF Cache!Init, ReadersFresh, Served, Cache!Idle
<1> QED  BY <1>1, <1>2, <1>3, <1>4 DEF CacheInv

(* Whoever joins a fetch waits for one that began after the last drop, and every
   fetch under way stays as it is. *)
LEMMA Joined ==
  ASSUME Cache!TtlCacheAssumption, CacheInv, NEW k \in CacheKeys, NEW f \in Fetches, Cache!Join(k, f),
         cacheDrops' = cacheDrops
  PROVE  /\ cacheInflight' \in [CacheKeys -> Fetches \cup {NONE}]
         /\ cacheFetching' \in [Fetches -> FetchType \cup {NONE}]
         /\ OwnersFresh'
         /\ cacheFetching'[f] = [key |-> k, began |-> cacheDrops[k]]
         /\ \A g \in Fetches : cacheFetching[g] # NONE => cacheFetching'[g] = cacheFetching[g]
<1> DEFINE new == [key |-> k, began |-> cacheDrops[k]]
<1>1. new \in FetchType
  BY DEF CacheInv, CacheType, FetchType
<1>2. CASE cacheInflight[k] # NONE
  BY <1>2 DEF Cache!Join, CacheInv, CacheType, OwnersFresh
<1>3. CASE cacheInflight[k] = NONE
  <2>1. /\ cacheFetching[f] = NONE
        /\ cacheFetching' = [cacheFetching EXCEPT ![f] = new]
        /\ cacheInflight' = [cacheInflight EXCEPT ![k] = f]
    BY <1>3 DEF Cache!Join
  <2>2. /\ cacheInflight' \in [CacheKeys -> Fetches \cup {NONE}]
        /\ cacheFetching' \in [Fetches -> FetchType \cup {NONE}]
        /\ cacheFetching'[f] = new
        /\ \A g \in Fetches : cacheFetching[g] # NONE => cacheFetching'[g] = cacheFetching[g]
    BY <1>1, <2>1 DEF CacheInv, CacheType
  <2>3. ASSUME NEW q \in CacheKeys, cacheInflight'[q] # NONE
        PROVE  cacheFetching'[cacheInflight'[q]] = [key |-> q, began |-> cacheDrops[q]]
    <3>1. CASE q = k
      BY <2>1, <2>2, <3>1 DEF CacheInv, CacheType
    <3>2. CASE q # k
      <4>1. cacheInflight'[q] = cacheInflight[q] /\ cacheInflight[q] \in Fetches
        BY <2>1, <2>3, <3>2 DEF CacheInv, CacheType
      <4>2. cacheFetching[cacheInflight[q]] = [key |-> q, began |-> cacheDrops[q]]
        BY <4>1, <2>3 DEF CacheInv, OwnersFresh
      <4>3. [key |-> q, began |-> cacheDrops[q]] \in [key : CacheKeys, began : Nat]
        BY DEF CacheInv, CacheType
      <4>4. cacheFetching[cacheInflight[q]] # NONE
        BY <4>2, <4>3 DEF Cache!TtlCacheAssumption
      <4> QED  BY <2>2, <4>1, <4>2, <4>4
    <3> QED  BY <3>1, <3>2
  <2>4. OwnersFresh'
    BY <2>3 DEF OwnersFresh
  <2> QED  BY <2>2, <2>4
<1> QED  BY <1>2, <1>3

(* A fetch under way is one, so what a reader waits for is not NONE. *)
LEMMA UnderWay ==
  ASSUME Cache!TtlCacheAssumption, CacheInv, NEW r \in Readers, cacheReader[r].on # NONE
  PROVE  cacheReader[r].on \in Fetches /\ cacheFetching[cacheReader[r].on] # NONE
BY DEF CacheInv, CacheType, ReaderType, ReadersFresh, Served, Cache!TtlCacheAssumption, FetchType

LEMMA ReadKeeps ==
  ASSUME Cache!TtlCacheAssumption, CacheInv, NEW r \in Readers, NEW k \in CacheKeys, Cache!Read(r, k)
  PROVE  CacheInv'
<1> DEFINE asked == [Cache!Idle EXCEPT !.key = k, !.since = cacheDrops[k]]
<1>0. cacheEntries' = cacheEntries /\ cacheDrops' = cacheDrops
  BY DEF Cache!Read
<1>1. /\ cacheDrops[k] \in Nat /\ asked \in ReaderType /\ asked.on = NONE /\ asked.got = NONE
      /\ asked.since = cacheDrops[k]
  BY DEF CacheInv, CacheType, ReaderType, Cache!Idle
<1>2. EntriesFresh'
  BY <1>0 DEF CacheInv, EntriesFresh, AsDropped
<1>3. Cache!Held(k) => Cache!EntryOf(k).began = cacheDrops[k]
  BY AtHeld DEF Cache!EntryOf, CacheInv, EntriesFresh, AsDropped
<1> DEFINE Replied == [asked EXCEPT !.got = cacheDrops[k]]
<1>4. /\ Replied \in ReaderType /\ Replied.on = NONE
      /\ Replied.got = cacheDrops[k] /\ Replied.since = cacheDrops[k]
  BY <1>1 DEF ReaderType, Cache!Idle
<1>5. CASE /\ cacheReader' = [cacheReader EXCEPT ![r] = Replied]
           /\ UNCHANGED <<cacheInflight, cacheFetching>>
  <2>1. CacheType'
    BY <1>0, <1>4, <1>5 DEF CacheInv, CacheType
  <2>2. OwnersFresh'
    BY <1>0, <1>5 DEF CacheInv, OwnersFresh
  <2>3. ReadersFresh'
    BY <1>1, <1>4, <1>5 DEF CacheInv, CacheType, ReadersFresh, Served
  <2> QED  BY <1>2, <2>1, <2>2, <2>3 DEF CacheInv
<1>6. ASSUME NEW f \in Fetches, Cache!Join(k, f), NEW given \in ReaderType,
             cacheReader' = [cacheReader EXCEPT ![r] = given], Served(cacheFetching', given)
      PROVE  CacheInv'
  <2>1. CacheType' /\ OwnersFresh'
    BY <1>0, <1>6, Joined DEF CacheInv, CacheType
  <2>2. ASSUME NEW q \in Readers PROVE Served(cacheFetching', cacheReader'[q])
    <3>1. CASE q = r
      BY <1>6, <3>1 DEF CacheInv, CacheType
    <3>2. CASE q # r
      <4>1. cacheReader'[q] = cacheReader[q]
        BY <1>6, <3>2 DEF CacheInv, CacheType
      <4>2. Served(cacheFetching, cacheReader[q])
        BY DEF CacheInv, ReadersFresh
      <4>3. cacheReader[q].on # NONE => cacheFetching'[cacheReader[q].on] = cacheFetching[cacheReader[q].on]
        BY <1>0, <1>6, Joined, UnderWay
      <4> QED  BY <4>1, <4>2, <4>3 DEF Served
    <3> QED  BY <3>1, <3>2
  <2>3. ReadersFresh'
    BY <2>2 DEF ReadersFresh
  <2> QED  BY <1>2, <2>1, <2>3 DEF CacheInv
<1>7. Served(cacheFetching', Replied)
  BY <1>1, <1>4 DEF Served
<1>8. ASSUME NEW f \in Fetches, Cache!Join(k, f)
      PROVE  [asked EXCEPT !.on = f] \in ReaderType /\ Served(cacheFetching', [asked EXCEPT !.on = f])
  <2>1. cacheFetching'[f] = [key |-> k, began |-> cacheDrops[k]]
    BY <1>0, <1>8, Joined
  <2>2. [key |-> k, began |-> cacheDrops[k]] \in FetchType
    BY <1>1 DEF FetchType
  <2> DEFINE waits == [asked EXCEPT !.on = f]
  <2> HIDE DEF asked
  <2>3. waits \in ReaderType /\ waits.on = f /\ waits.since = cacheDrops[k] /\ waits.got = NONE
    BY <1>1 DEF ReaderType
  <2> QED  BY <1>1, <2>1, <2>2, <2>3 DEF Served
<1>9. \/ Cache!Held(k) /\ cacheReader' = [cacheReader EXCEPT ![r] = Replied] /\ UNCHANGED <<cacheInflight, cacheFetching>>
      \/ Cache!Held(k) /\ cacheReader' = [cacheReader EXCEPT ![r] = Replied] /\ \E f \in Fetches : Cache!Join(k, f)
      \/ \E f \in Fetches : Cache!Join(k, f) /\ cacheReader' = [cacheReader EXCEPT ![r] = [asked EXCEPT !.on = f]]
  BY <1>3 DEF Cache!Read
<1> HIDE DEF asked, Replied
<1> QED  BY <1>4, <1>5, <1>6, <1>7, <1>8, <1>9

LEMMA DoneKeeps ==
  ASSUME Cache!TtlCacheAssumption, CacheInv, NEW r \in Readers, Cache!Done(r) PROVE CacheInv'
<1>1. Cache!Idle \in ReaderType /\ Cache!Idle.on = NONE /\ Cache!Idle.got = NONE
  BY DEF Cache!Idle, ReaderType
<1>2. /\ cacheReader' = [cacheReader EXCEPT ![r] = Cache!Idle]
      /\ UNCHANGED <<cacheEntries, cacheInflight, cacheFetching, cacheDrops>>
  BY DEF Cache!Done
<1>3. CacheType'
  BY <1>1, <1>2 DEF CacheInv, CacheType
<1>4. EntriesFresh' /\ OwnersFresh'
  BY <1>2 DEF CacheInv, EntriesFresh, AsDropped, OwnersFresh
<1>5. ReadersFresh'
  BY <1>1, <1>2 DEF CacheInv, CacheType, ReadersFresh, Served
<1> QED  BY <1>3, <1>4, <1>5 DEF CacheInv

LEMMA SettleKeeps ==
  ASSUME Cache!TtlCacheAssumption, CacheInv, NEW f \in Fetches, NEW ok \in BOOLEAN,
         Cache!Settle(f, ok)
  PROVE  CacheInv'
<1>1. PICK k \in CacheKeys, n \in Nat : cacheFetching[f] = [key |-> k, began |-> n]
  BY DEF Cache!Settle, CacheInv, CacheType, FetchType
<1>2. cacheFetching[f].key = k /\ cacheFetching[f].began = n
  BY <1>1
<1>3. /\ cacheEntries' = IF ok /\ Cache!Owns(f) THEN Cache!Stored(k, n) ELSE cacheEntries
      /\ cacheInflight' = IF Cache!Owns(f) THEN [cacheInflight EXCEPT ![k] = NONE] ELSE cacheInflight
      /\ cacheFetching' = [cacheFetching EXCEPT ![f] = NONE]
      /\ cacheReader' = [r \in Readers |->
           IF cacheReader[r].on # f THEN cacheReader[r]
           ELSE IF ok THEN [cacheReader[r] EXCEPT !.on = NONE, !.got = n] ELSE Cache!Idle]
      /\ cacheDrops' = cacheDrops
  BY <1>2 DEF Cache!Settle
<1>4. Cache!Owns(f) => n = cacheDrops[k]
  <2>1. SUFFICES ASSUME Cache!Owns(f) PROVE n = cacheDrops[k]  OBVIOUS
  <2>2. cacheInflight[k] = f /\ f # NONE
    BY <1>2, <2>1 DEF Cache!Owns, Cache!TtlCacheAssumption
  <2>3. cacheFetching[f] = [key |-> k, began |-> cacheDrops[k]]
    BY <2>2 DEF CacheInv, OwnersFresh
  <2>4. cacheFetching[f].began = cacheDrops[k]
    BY <2>3
  <2> QED  BY <1>2, <2>4
<1>5. EntriesFresh'
  <2>1. CASE ok /\ Cache!Owns(f)
    <3>1. cacheEntries' = Cache!Stored(k, cacheDrops[k])
      BY <1>3, <1>4, <2>1
    <3>2. AsDropped(Cache!Stored(k, cacheDrops[k]), cacheDrops)
      BY StoredKept DEF CacheInv
    <3> QED  BY <1>3, <3>1, <3>2 DEF EntriesFresh
  <2>2. CASE ~ (ok /\ Cache!Owns(f))
    BY <1>3, <2>2 DEF CacheInv, EntriesFresh
  <2> QED  BY <2>1, <2>2
<1>6. Cache!Idle \in ReaderType /\ Cache!Idle.on = NONE /\ Cache!Idle.got = NONE
  BY DEF Cache!Idle, ReaderType
<1>7. ASSUME NEW r \in Readers
      PROVE  cacheReader'[r] \in ReaderType /\ Served(cacheFetching', cacheReader'[r])
  <2>1. cacheReader[r] \in ReaderType /\ Served(cacheFetching, cacheReader[r])
    BY DEF CacheInv, CacheType, ReadersFresh
  <2>2. CASE cacheReader[r].on # f
    <3>1. cacheReader'[r] = cacheReader[r]
      BY <1>3, <2>2
    <3>2. cacheReader[r].on # NONE => cacheFetching'[cacheReader[r].on] = cacheFetching[cacheReader[r].on]
      BY <1>3, <2>2, UnderWay DEF CacheInv, CacheType
    <3> QED  BY <2>1, <3>1, <3>2 DEF Served
  <2>3. CASE cacheReader[r].on = f /\ ok
    <3>1. cacheReader'[r] = [cacheReader[r] EXCEPT !.on = NONE, !.got = n]
      BY <1>3, <2>3
    <3>2. n >= cacheReader[r].since
      BY <2>1, <2>3, <1>2 DEF Served, Cache!TtlCacheAssumption
    <3> QED  BY <2>1, <3>1, <3>2 DEF Served, ReaderType
  <2>4. CASE cacheReader[r].on = f /\ ~ ok
    BY <1>3, <1>6, <2>4 DEF Served
  <2> QED  BY <2>2, <2>3, <2>4
<1>8. CacheType'
  BY <1>3, <1>7 DEF CacheInv, CacheType
<1>9. ASSUME NEW q \in CacheKeys, cacheInflight'[q] # NONE
      PROVE  cacheFetching'[cacheInflight'[q]] = [key |-> q, began |-> cacheDrops'[q]]
  <2>1. cacheInflight'[q] = cacheInflight[q] /\ cacheInflight[q] \in Fetches
    BY <1>3, <1>9 DEF CacheInv, CacheType
  <2>2. cacheFetching[cacheInflight[q]] = [key |-> q, began |-> cacheDrops[q]]
    BY <1>9, <2>1 DEF CacheInv, OwnersFresh
  <2>3. cacheInflight[q] # f
    <3>1. SUFFICES ASSUME cacheInflight[q] = f PROVE FALSE  OBVIOUS
    <3>2. q = k
      BY <1>2, <2>2, <3>1
    <3>3. Cache!Owns(f)
      BY <1>2, <3>1, <3>2 DEF Cache!Owns
    <3> QED  BY <1>3, <1>9, <3>2, <3>3 DEF CacheInv, CacheType
  <2> QED  BY <1>3, <2>1, <2>2, <2>3 DEF CacheInv, CacheType
<1>10. OwnersFresh' /\ ReadersFresh'
  BY <1>7, <1>9 DEF OwnersFresh, ReadersFresh
<1> QED  BY <1>5, <1>8, <1>10 DEF CacheInv

LEMMA AgeKeeps ==
  ASSUME Cache!TtlCacheAssumption, CacheInv, NEW k \in CacheKeys, Cache!Age(k) PROVE CacheInv'
<1>1. /\ cacheEntries' = [i \in DOMAIN cacheEntries |->
           IF cacheEntries[i].key = k
             THEN [cacheEntries[i] EXCEPT !.age = IF @ = "fresh" THEN "stale" ELSE "expired"]
             ELSE cacheEntries[i]]
      /\ UNCHANGED <<cacheInflight, cacheFetching, cacheDrops, cacheReader>>
  BY DEF Cache!Age
<1>2. cacheEntries \in Seq(EntryType)
  BY DEF CacheInv, EntriesFresh, AsDropped
<1>3. ASSUME NEW i \in DOMAIN cacheEntries
      PROVE  /\ cacheEntries'[i] \in EntryType
             /\ cacheEntries'[i].key = cacheEntries[i].key
             /\ cacheEntries'[i].began = cacheEntries[i].began
  <2>1. PICK q \in CacheKeys, n \in Nat, a \in Cache!Ages : cacheEntries[i] = [key |-> q, began |-> n, age |-> a]
    <3>1. cacheEntries[i] \in EntryType  BY <1>2
    <3> QED  BY <3>1 DEF EntryType
  <2>2. PICK b \in Cache!Ages : cacheEntries'[i] = [key |-> q, began |-> n, age |-> b]
    BY <1>1, <2>1 DEF Cache!Ages
  <2> QED  BY <2>1, <2>2 DEF EntryType
<1>4. cacheEntries' \in Seq(EntryType) /\ DOMAIN cacheEntries' = DOMAIN cacheEntries
  <2>1. DOMAIN cacheEntries' = 1 .. Len(cacheEntries) /\ Len(cacheEntries) \in Nat
    BY <1>1, <1>2
  <2>2. cacheEntries' \in [1 .. Len(cacheEntries) -> EntryType]
    BY <1>1, <1>3, <2>1
  <2> QED  BY <1>2, <2>1, <2>2, SeqDef
<1>5. EntriesFresh'
  BY <1>1, <1>3, <1>4 DEF CacheInv, EntriesFresh, AsDropped
<1>6. CacheType' /\ OwnersFresh' /\ ReadersFresh'
  BY <1>1 DEF CacheInv, CacheType, OwnersFresh, ReadersFresh, Served
<1> QED  BY <1>5, <1>6 DEF CacheInv

(* A drop takes the ownership of the keys' fetches away with their entries. *)
LEMMA ForgottenKeeps ==
  ASSUME Cache!TtlCacheAssumption, CacheInv, NEW ks \in SUBSET CacheKeys, Cache!Forgotten(ks),
         AsDropped(cacheEntries', cacheDrops), \A i \in DOMAIN cacheEntries' : cacheEntries'[i].key \notin ks
  PROVE  CacheInv'
<1>1. /\ cacheInflight' = [k \in CacheKeys |-> IF k \in ks THEN NONE ELSE cacheInflight[k]]
      /\ cacheDrops' = [k \in CacheKeys |-> IF k \in ks THEN cacheDrops[k] + 1 ELSE cacheDrops[k]]
      /\ cacheFetching' = cacheFetching /\ cacheReader' = cacheReader
  BY DEF Cache!Forgotten
<1>2. CacheType'
  BY <1>1 DEF CacheInv, CacheType
<1>3. \A i \in DOMAIN cacheEntries' : cacheEntries'[i] \in EntryType /\ cacheEntries'[i].key \in CacheKeys
  <2>1. PICK s : s = cacheEntries'
    OBVIOUS
  <2>2. s \in Seq(EntryType)
    BY <2>1 DEF AsDropped
  <2>3. \A i \in DOMAIN s : s[i] \in EntryType
    BY <2>2
  <2> QED  BY <2>1, <2>3 DEF EntryType
<1>4. EntriesFresh'
  BY <1>1, <1>3 DEF EntriesFresh, AsDropped
<1>5. OwnersFresh'
  BY <1>1 DEF CacheInv, OwnersFresh
<1>6. ReadersFresh'
  BY <1>1 DEF CacheInv, ReadersFresh, Served
<1> QED  BY <1>2, <1>4, <1>5, <1>6 DEF CacheInv

LEMMA StepCache == ASSUME Cache!TtlCacheAssumption, CacheInv, [Cache!Next]_(Cache!vars) PROVE CacheInv'
<1>1. ASSUME NEW k \in CacheKeys, Cache!Delete(k) PROVE CacheInv'
  <2>1. cacheEntries' = Cache!Without(k) /\ Cache!Forgotten({k})
    BY <1>1 DEF Cache!Delete
  <2>2. AsDropped(Cache!Without(k), cacheDrops) /\ \A i \in DOMAIN Cache!Without(k) : Cache!Without(k)[i].key # k
    BY WithoutKept DEF CacheInv
  <2> QED  BY <2>1, <2>2, ForgottenKeeps
<1>2. CASE Cache!Clear
  <2>1. cacheEntries' = << >> /\ Cache!Forgotten(CacheKeys)
    BY <1>2 DEF Cache!Clear
  <2>2. AsDropped(cacheEntries', cacheDrops) /\ DOMAIN cacheEntries' = {}
    BY <2>1 DEF AsDropped
  <2> QED  BY <2>1, <2>2, ForgottenKeeps
<1>3. CASE UNCHANGED Cache!vars
  BY <1>3
  DEF Cache!vars, CacheInv, CacheType, EntriesFresh, AsDropped, OwnersFresh, ReadersFresh,
      Served
<1> QED
  BY <1>1, <1>2, <1>3, ReadKeeps, DoneKeeps, SettleKeeps, AgeKeeps DEF Cache!Next

(* What was fetched before a key was dropped is neither kept nor given to whoever asks
   after it, whatever the readers, the fetches under way, the bound of the entries and the
   drops (TtlCache.getOrFetch, refresh, store, delete and clear). *)
THEOREM NothingOlder ==
  ASSUME Cache!TtlCacheAssumption
  PROVE  /\ Cache!Spec => []Cache!FreshAfterDrop
         /\ (subject = "cache" => Cache!Spec) /\ [][UNCHANGED subject]_subject => []FreshAfterDrop
<1>1. ASSUME CacheInv PROVE Cache!FreshAfterDrop
  <2>1. ASSUME NEW e \in Cache!ToSet(cacheEntries) PROVE e.began = cacheDrops[e.key]
    BY <1>1, <2>1 DEF Cache!ToSet, CacheInv, EntriesFresh, AsDropped
  <2> QED  BY <1>1, <2>1 DEF Cache!FreshAfterDrop, CacheInv, ReadersFresh, Served
<1>2. Cache!Init => CacheInv
  BY InitCache
<1>3. CacheInv /\ [Cache!Next]_(Cache!vars) => CacheInv'
  BY StepCache
<1>4. CacheInv => Cache!FreshAfterDrop
  BY <1>1
<1>5. Cache!Spec => []Cache!FreshAfterDrop
  BY <1>2, <1>3, <1>4, PTL DEF Cache!Spec
<1>6. (subject = "cache" => Cache!Spec) /\ [][UNCHANGED subject]_subject => []FreshAfterDrop
  <2>1. /\ ~ (subject = "cache") /\ [UNCHANGED subject]_subject => ~ (subject = "cache")'
        /\ ~ (subject = "cache") => FreshAfterDrop
        /\ Cache!FreshAfterDrop => FreshAfterDrop
    BY DEF FreshAfterDrop
  <2> QED  BY <1>5, <2>1, PTL
<1> QED  BY <1>5, <1>6
=============================================================================
