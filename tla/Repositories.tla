----------------------------- MODULE Repositories -----------------------------
(***************************************************************************)
(* Which repository a directory belongs to: the engine's registry            *)
(* (src/engine/src/repo/registry.cpp) behind repo/discover and repo/close     *)
(* (src/engine/src/services/repo_methods.cpp), the extension's                *)
(* RepositoryService (src/extension/src/model/repositoryService.ts), and the   *)
(* part of ActiveRepoManager (src/extension/src/model/activeRepo.ts) that       *)
(* drops repositories whose .git is gone.                                      *)
(*                                                                          *)
(* Engine ids are numbers from 1, again from 1 in a respawned engine.  All     *)
(* discovers share one strand and each close has its own, so a close runs      *)
(* beside a discover.  Answers come back in the order they were written.       *)
(***************************************************************************)
EXTENDS Integers, Sequences, SequencesExt, FiniteSets

CONSTANTS
  Dirs,          \* directories, each of which may be a repository's root
  Inside(_),     \* the directories that contain a directory, itself included
  Respelled,     \* roots the editor opens under another name, say a symlink
  MaxEvents,     \* bound on creations and removals of a .git
  MaxLookups,    \* bound on the requests lookups send
  MaxCrashes     \* bound on crashes of the engine

(* The directories that contain one are nested in each other. *)
ASSUME RepositoriesAssumption ==
  /\ Respelled \subseteq Dirs
  /\ \A d \in Dirs : d \in Inside(d) /\ Inside(d) \subseteq Dirs
  /\ \A d \in Dirs : \A S \in SUBSET Inside(d) : S # {} => \E r \in S : S \subseteq Inside(r)
  /\ {MaxEvents, MaxLookups, MaxCrashes} \subseteq Nat

VARIABLES
  gits,        \* directories with a .git
  lost,        \* those whose .git has ever gone away
  unseen,      \* .git changes the file watcher has not reported yet
  engine,      \* "up", "down", or "starting": its handshake unanswered
  byRoot,      \* Registry::idByRoot_, a set of [id, root]
  byId,        \* Registry::byId_, a set of [id, root]
  nextId,      \* Registry::nextId_
  issued,      \* every [id, root] this engine ever handed out
  watches,     \* watched ids: "live", or "dead" when the .git went away since
  discovers,   \* the strand of repo/discover
  added,       \* what registry.add returned to the discover at its head
  closes,      \* repo/close requests: [id, begun]
  answers,     \* answers to discovers, on their way to the client
  registered,  \* RepositoryService.registered, in insertion order
  directories, \* .directories: NoAnswer, Nothing (expires) or an id
  discovering, \* .discovering: "none", "quietly" or "watched" as the callers ask
  watching,    \* .watching
  loop,        \* rediscoverAll: << >> or <<[left, before]>>, with quiet raised
  told,        \* the roots when the listeners were last called
  removed,     \* ActiveRepoManager.removedGitEntries
  settling,    \* its settle timer
  leaving,     \* directories announce() has yet to forget
  events, lookups, crashes   \* how often each has happened

fsVars == <<gits, lost, unseen, events>>
engineVars == <<byRoot, byId, nextId, issued, watches>>
clientVars == <<registered, directories, told>>
activeVars == <<removed, settling, leaving>>
vars == <<fsVars, engine, engineVars, discovers, added, closes, answers, clientVars,
          discovering, watching, loop, activeVars, lookups, crashes>>

NoAnswer == 0
Nothing == -1

Init ==
  /\ gits \in SUBSET Dirs /\ lost = {} /\ unseen = {} /\ engine = "up"
  /\ byRoot = {} /\ byId = {} /\ nextId = 1 /\ issued = {} /\ watches = {}
  /\ discovers = << >> /\ added = 0 /\ closes = {} /\ answers = << >>
  /\ registered = << >> /\ directories = [d \in Dirs |-> NoAnswer]
  /\ discovering = [d \in Dirs |-> "none"] /\ watching = {}
  /\ loop = << >> /\ told = {}
  /\ removed = {} /\ settling = FALSE /\ leaving = {}
  /\ events = 0 /\ lookups = 0 /\ crashes = 0

-----------------------------------------------------------------------------
(* The root of the innermost repository that holds a directory: the one all the
   others contain. *)
Holding(d) == gits \cap Inside(d)
RootFor(d) == CHOOSE r \in Holding(d) : Holding(d) \subseteq Inside(r)

Roots(records) == {records[i].root : i \in DOMAIN records}
Known(id) == \E i \in DOMAIN registered : registered[i].id = id

(* locate(): the registered repository of a directory, 0 for none. *)
Locate(records, answer, d) ==
  LET fits == {i \in DOMAIN records :
                 /\ records[i].root \in Inside(d)
                 /\ answer \in {NoAnswer, records[i].id}}
      best == {i \in fits : \A j \in fits : records[j].root \in Inside(records[i].root)}
  IN  IF answer = Nothing \/ best = {} THEN 0 ELSE records[CHOOSE i \in best : TRUE].id

-----------------------------------------------------------------------------
(* A .git appears or vanishes; a watch on it is then on nothing. *)
GitChange(d) ==
  /\ events < MaxEvents /\ events' = events + 1
  /\ gits' = IF d \in gits THEN gits \ {d} ELSE gits \cup {d}
  /\ lost' = lost \cup ({d} \cap gits)
  /\ unseen' = unseen \cup {[dir |-> d, gone |-> d \in gits]}
  /\ watches' = {IF [id |-> w.id, root |-> d] \in issued /\ d \in gits
                   THEN [w EXCEPT !.live = FALSE] ELSE w : w \in watches}
  /\ UNCHANGED <<engine, byRoot, byId, nextId, issued, discovers, added, closes, answers,
                 clientVars, discovering, watching, loop, activeVars, lookups, crashes>>

-----------------------------------------------------------------------------
(* Registry::add, for the discover at the head of the strand. *)
EngineAdd ==
  /\ engine # "down" /\ discovers # << >> /\ added = 0
  /\ LET request == Head(discovers)
         root == RootFor(request.dir)
         known == {e \in byRoot : e.root = root}
         entry == [id |-> nextId, root |-> root]
     IN  IF Holding(request.dir) = {}
           THEN /\ answers' = Append(answers, [to |-> request, id |-> 0, root |-> request.dir])
                /\ discovers' = Tail(discovers)
                /\ UNCHANGED <<added, byRoot, byId, nextId, issued>>
           ELSE /\ IF known # {}
                     THEN /\ added' = (CHOOSE e \in known : TRUE).id
                          /\ UNCHANGED <<byRoot, byId, nextId, issued>>
                     ELSE /\ added' = nextId /\ nextId' = nextId + 1
                          /\ byRoot' = byRoot \cup {entry} /\ byId' = byId \cup {entry}
                          /\ issued' = issued \cup {entry}
                /\ UNCHANGED <<answers, discovers>>
  /\ UNCHANGED <<fsVars, engine, watches, closes, clientVars, discovering, watching, loop,
                 activeVars, lookups, crashes>>

(* watchManager.watch, if the id is still one the registry can open, and the
   answer.  Watching an id again changes nothing. *)
Opens(id) == \E e \in byId : e.id = id /\ e.root \in gits

EngineWatch ==
  /\ engine # "down" /\ added # 0
  /\ watches' = IF Head(discovers).watch /\ Opens(added) /\ ~(\E w \in watches : w.id = added)
                  THEN watches \cup {[id |-> added, live |-> TRUE]} ELSE watches
  /\ answers' = Append(answers, [to |-> Head(discovers), id |-> added,
                                 root |-> (CHOOSE e \in issued : e.id = added).root])
  /\ discovers' = Tail(discovers) /\ added' = 0
  /\ UNCHANGED <<fsVars, engine, byRoot, byId, nextId, issued, closes, clientVars, discovering,
                 watching, loop, activeVars, lookups, crashes>>

(* repo/close: the check and unwatch, then Registry::remove. *)
CloseBegin(c) ==
  /\ engine # "down" /\ c \in closes /\ ~c.begun
  /\ IF \E e \in byId : e.id = c.id
       THEN /\ watches' = {w \in watches : w.id # c.id}
            /\ closes' = (closes \ {c}) \cup {[c EXCEPT !.begun = TRUE]}
       ELSE closes' = closes \ {c} /\ UNCHANGED watches
  /\ UNCHANGED <<fsVars, engine, byRoot, byId, nextId, issued, discovers, added, answers,
                 clientVars, discovering, watching, loop, activeVars, lookups, crashes>>

MutUnrooted(id) == byRoot

Unrooted(id) == {e \in byRoot : ~(\E f \in byId : f.id = id /\ f.root = e.root)}

CloseEnd(c) ==
  /\ engine # "down" /\ c \in closes /\ c.begun
  /\ byId' = {e \in byId : e.id # c.id}
  /\ byRoot' = Unrooted(c.id)
  /\ closes' = closes \ {c}
  /\ UNCHANGED <<fsVars, engine, nextId, issued, watches, discovers, added, answers, clientVars,
                 discovering, watching, loop, activeVars, lookups, crashes>>

-----------------------------------------------------------------------------
(* register(): adds or updates the entry of an id, and calls the listeners when
   it is new, unless rediscoverAll is at work. *)
Upsert(records, id, root, watch, aliases) ==
  LET at == {i \in DOMAIN records : records[i].id = id}
      new == [id |-> id, root |-> root, watched |-> watch, aliases |-> aliases \cap Respelled]
  IN  IF at = {} THEN Append(records, new)
      ELSE [i \in DOMAIN records |->
              IF i \in at THEN [records[i] EXCEPT !.root = root, !.watched = @ \/ watch,
                                                  !.aliases = @ \cup new.aliases]
              ELSE records[i]]

MutCalled(records) == told

Called(records) == IF loop = << >> THEN Roots(records) ELSE told

(* ensureWatched(id) in a state whose registered is records. *)
Unwatched(records, id) ==
  {i \in DOMAIN records : records[i].id = id /\ ~records[i].watched}
WatchRequest(records, id) ==
  [dir |-> records[CHOOSE i \in Unwatched(records, id) : TRUE].root, watch |-> TRUE,
   for |-> "watch", id |-> id]

EnsureWatched(records, id, queue) ==
  IF Unwatched(records, id) # {} /\ id \notin watching
    THEN /\ watching' = watching \cup {id}
         /\ discovers' = Append(queue, WatchRequest(records, id))
    ELSE UNCHANGED watching /\ discovers' = queue

-----------------------------------------------------------------------------
(* locateOrDiscover() for a file in a directory, with or without the watch.  A
   lookup in flight is joined; with the engine gone the request fails at once. *)
Lookup(d, watch) ==
  /\ IF directories[d] = NoAnswer
       THEN /\ lookups < MaxLookups /\ engine # "down"
            /\ discovering' = [discovering EXCEPT ![d] = IF watch THEN "watched" ELSE
                                                          IF @ = "none" THEN "quietly" ELSE @]
            /\ discovering' # discovering
            /\ IF discovering[d] = "none"
                 THEN /\ lookups' = lookups + 1
                      /\ discovers' = Append(discovers, [dir |-> d, watch |-> watch,
                                                         for |-> "lookup", id |-> 0])
                 ELSE UNCHANGED <<lookups, discovers>>
            /\ UNCHANGED watching
       ELSE /\ watch /\ lookups < MaxLookups /\ engine # "down"
            /\ EnsureWatched(registered, Locate(registered, directories[d], d), discovers)
            /\ watching' # watching /\ lookups' = lookups + 1
            /\ UNCHANGED discovering
  /\ UNCHANGED <<fsVars, engine, engineVars, added, closes, answers, clientVars, loop, activeVars,
                 crashes>>

(* NO_REPOSITORY_TTL_MS passes. *)
Expire(d) ==
  /\ directories[d] = Nothing
  /\ directories' = [directories EXCEPT ![d] = NoAnswer]
  /\ UNCHANGED <<fsVars, engine, engineVars, discovers, added, closes, answers, registered, told,
                 discovering, watching, loop, activeVars, lookups, crashes>>

Answer == Head(answers)
Answered(for) ==
  /\ engine = "up" /\ answers # << >> /\ Answer.to.for = for
  /\ answers' = Tail(answers)
  /\ UNCHANGED <<fsVars, engine, engineVars, added, closes, activeVars, lookups, crashes>>

(* The answer to discoverDirectory(), and what its callers go on to do. *)
LookupAnswered ==
  /\ Answered("lookup")
  /\ LET d == Answer.to.dir
         records == Upsert(registered, Answer.id, Answer.root, Answer.to.watch, {Answer.root})
     IN  /\ directories' = [directories EXCEPT ![d] = IF Answer.id = 0 THEN Nothing ELSE Answer.id]
         /\ discovering' = [discovering EXCEPT ![d] = "none"]
         /\ IF Answer.id = 0
              THEN UNCHANGED <<registered, told, watching, discovers>>
              ELSE /\ registered' = records
                   /\ told' = IF Known(Answer.id) THEN told ELSE Called(records)
                   /\ IF discovering[d] = "watched"
                        THEN EnsureWatched(records, Locate(records, Answer.id, d), discovers)
                        ELSE UNCHANGED <<watching, discovers>>
  /\ UNCHANGED loop

WatchAnswered ==
  /\ Answered("watch")
  /\ registered' = [i \in DOMAIN registered |->
       IF registered[i].id = Answer.id THEN [registered[i] EXCEPT !.watched = TRUE]
                                       ELSE registered[i]]
  /\ watching' = watching \ {Answer.to.id}
  /\ UNCHANGED <<directories, told, discovering, discovers, loop>>

-----------------------------------------------------------------------------
(* The engine exits: every request in flight is rejected, and a rediscoverAll
   under way drops the repositories it has left, whose requests fail at once. *)
Exit ==
  /\ engine # "down" /\ crashes < MaxCrashes
  /\ engine' = "down" /\ crashes' = crashes + 1
  /\ byRoot' = {} /\ byId' = {} /\ nextId' = 1 /\ issued' = {} /\ watches' = {}
  /\ discovers' = << >> /\ added' = 0 /\ closes' = {} /\ answers' = << >>
  /\ discovering' = [d \in Dirs |-> "none"] /\ watching' = {}
  /\ loop' = << >>
  /\ told' = IF loop # << >> /\ Roots(registered) # loop[1].before THEN Roots(registered) ELSE told
  /\ UNCHANGED <<fsVars, registered, directories, activeVars, lookups>>

Respawn ==
  /\ engine = "down" /\ engine' = "starting"
  /\ UNCHANGED <<fsVars, engineVars, discovers, added, closes, answers, clientVars, discovering,
                 watching, loop, activeVars, lookups, crashes>>

Rediscover(repo) == [dir |-> repo.root, watch |-> repo.watched, for |-> "rediscover", id |-> 0]

(* onRestarted: rediscoverAll() up to its first request. *)
Cleared(records) == << >>

Restarted ==
  /\ engine = "starting" /\ engine' = "up"
  /\ registered' = Cleared(registered) /\ directories' = [d \in Dirs |-> NoAnswer]
  /\ watching' = {}
  /\ IF registered # << >>
       THEN /\ loop' = <<[left |-> registered, before |-> Roots(registered)]>>
            /\ discovers' = Append(discovers, Rediscover(registered[1]))
       ELSE UNCHANGED <<loop, discovers>>
  /\ UNCHANGED <<fsVars, engineVars, added, closes, answers, told, discovering, activeVars,
                 lookups, crashes>>

(* One repository is registered again, with its aliases, or dropped, and the
   next is asked for; the last ends the loop. *)
RediscoverAnswered ==
  /\ Answered("rediscover")
  /\ LET repo == Head(loop[1].left)
         left == Tail(loop[1].left)
         records == IF Answer.id = 0 THEN registered
                    ELSE Upsert(registered, Answer.id, Answer.root, repo.watched, repo.aliases)
     IN  /\ registered' = records
         /\ IF left # << >>
              THEN /\ loop' = <<[loop[1] EXCEPT !.left = left]>>
                   /\ discovers' = Append(discovers, Rediscover(left[1]))
                   /\ UNCHANGED told
              ELSE /\ loop' = << >>
                   /\ told' = IF Roots(records) # loop[1].before THEN Roots(records) ELSE told
                   /\ UNCHANGED discovers
  /\ UNCHANGED <<directories, discovering, watching>>

-----------------------------------------------------------------------------
(* gitEntryChanged, for a .git the file watcher reports. *)
GitEntryChanged(e) ==
  /\ e \in unseen /\ unseen' = unseen \ {e}
  /\ removed' = IF e.gone THEN removed \cup {e.dir} ELSE removed
  /\ directories' = [d \in Dirs |-> NoAnswer]
  /\ settling' = TRUE
  /\ UNCHANGED <<gits, lost, events, engine, engineVars, discovers, added, closes, answers, registered,
                 told, discovering, watching, loop, leaving, lookups, crashes>>

(* SETTLE_MS after the last change: announce() takes the removals. *)
Announce ==
  /\ settling /\ settling' = FALSE
  /\ leaving' = leaving \cup removed /\ removed' = {}
  /\ UNCHANGED <<fsVars, engine, engineVars, discovers, added, closes, answers, clientVars,
                 discovering, watching, loop, lookups, crashes>>

InTurn(at) == \A m, n \in DOMAIN at : m < n => at[m] < at[n]

(* forgetRepositoriesAt: the entries of a root go, and the engine is asked to
   release them.  Calls of announce may overlap, so in any order. *)
Forget(d) ==
  /\ d \in leaving /\ leaving' = leaving \ {d}
  /\ LET gone == {i \in DOMAIN registered : d \in {registered[i].root} \cup registered[i].aliases}
         kept == DOMAIN registered \ gone
     IN  IF gone = {}
           THEN UNCHANGED <<registered, directories, told, closes>>
           ELSE /\ \E at \in [1 .. Cardinality(kept) -> kept] :
                     InTurn(at) /\ registered' = [n \in DOMAIN at |-> registered[at[n]]]
                /\ directories' = [x \in Dirs |-> NoAnswer]
                /\ told' = Called(registered')
                /\ closes' = IF engine = "down" THEN closes ELSE
                     closes \cup {[id |-> registered[i].id, begun |-> FALSE] : i \in gone}
  /\ UNCHANGED <<fsVars, engine, engineVars, discovers, added, answers, discovering, watching,
                 loop, removed, settling, lookups, crashes>>

-----------------------------------------------------------------------------
Next ==
  \/ \E d \in Dirs : GitChange(d) \/ Expire(d) \/ Forget(d)
  \/ \E d \in Dirs, watch \in BOOLEAN : Lookup(d, watch)
  \/ \E e \in unseen : GitEntryChanged(e)
  \/ EngineAdd \/ EngineWatch
  \/ \E c \in closes : CloseBegin(c) \/ CloseEnd(c)
  \/ LookupAnswered \/ WatchAnswered \/ RediscoverAnswered
  \/ Exit \/ Respawn \/ Restarted \/ Announce

Spec == Init /\ [][Next]_vars

-----------------------------------------------------------------------------
(* Once an engine is up and its predecessor's entries are cleared, every id the
   service keeps was issued by that engine, for the root it is filed under, and
   the answer kept for a directory is one of them: ids that restart at 1 are
   never mixed (repositoryService.ts, rediscoverAll and register). *)
IdsCurrent ==
  engine = "up" =>
    /\ \A i \in DOMAIN registered :
         [id |-> registered[i].id, root |-> registered[i].root] \in issued
    /\ \A d \in Dirs : directories[d] \in Nat \ {NoAnswer} => Known(directories[d])

(* A repository the service believes watched is watched by the engine, on the
   .git that is there, whoever asked for it and however often it was registered,
   provided its .git has never gone away and its id has not been released, which
   a repo/close sent before the ids were cleared may do to another repository
   (repositoryService.ts, ensureWatched, register and rediscoverAll). *)
Held(r) == /\ [id |-> r.id, root |-> r.root] \in byId /\ r.root \notin lost
           /\ ~(\E c \in closes : c.id = r.id)

WatchedIsWatched ==
  engine = "up" =>
    \A i \in DOMAIN registered :
      LET r == registered[i] IN
        r.watched /\ Held(r) => [id |-> r.id, live |-> TRUE] \in watches

(* Whoever listens for repositories knows the list: it was called with every
   registration and removal, and once for a whole rediscovery that changed it
   (repositoryService.ts, fireChanged and rediscoverAll). *)
ChangesAnnounced == engine = "up" /\ loop = << >> => told = Roots(registered)

(* The client's list is the engine's, as far as it says. *)
ListingExact == WatchedIsWatched /\ ChangesAnnounced

(* The registry's two maps agree: a root has one id, an id one root, and both
   maps hold the same pairs (registry.cpp). *)
RegistryExact ==
  /\ byRoot = byId /\ byId \subseteq issued
  /\ \A e, f \in issued : e.id = f.id => e = f
  /\ \A e, f \in byId : e.root = f.root => e = f

(* The client's ids are those of the engine that runs, and its list is the one
   the engine keeps and the listeners were told of. *)
ListKept == IdsCurrent /\ ListingExact
=============================================================================
