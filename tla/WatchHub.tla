------------------------------- MODULE WatchHub -------------------------------
(***************************************************************************)
(* The inotify hub (src/engine/src/watch/watch_manager.cpp, InotifyHub): one   *)
(* kernel queue and one thread for every watched repository, descriptors that  *)
(* repositories sharing a common dir share, and debounced batches handed to     *)
(* the callback outside the mutex.                                             *)
(*                                                                          *)
(* The directories are those of refs/ in a common dir that all the            *)
(* repositories watch, a main checkout and its linked worktrees; every change   *)
(* in them is of one category.  They come and go while the hub walks them:      *)
(* the mutex holds off the hub's other users, not the file system.  The kernel   *)
(* may refuse a watch, and drops what its queue has no room for.                 *)
(***************************************************************************)
EXTENDS Integers, Sequences, SequencesExt, FiniteSets

CONSTANTS
  Repos,        \* repository ids
  Dirs,         \* directories below and including Top
  Top,          \* refs/
  In(_),        \* the directory a directory is in; of Top, anything
  QueueLimit,   \* how many events the kernel queues (max_queued_events)
  MaxChanges    \* bound on changes of the file system, and on watches refused

WatchHubAssumption ==
  /\ Top \in Dirs /\ \A d \in Dirs \ {Top} : In(d) \in Dirs
  /\ {QueueLimit, MaxChanges} \subseteq Nat

VARIABLES
  inode,       \* of each directory there is, 0 for none
  changes,     \* changes so far; the latest inode number
  kernel,      \* inotify's watches: [wd, inode]
  lastWd,      \* descriptors are never handed out twice
  queue,       \* events the hub has not read
  repos,       \* repos_, once add() is done
  closed,      \* repositories removed: their ids are not used again
  watchDirs,   \* watchDirs_: [wd, repo, dir]
  walk,        \* what addDirTreeLocked has yet to do: [repo, dir, step], to watch or to list it
  adding,      \* the repositories add() is walking for
  draining,    \* the thread is in drainLocked
  pending,     \* repositories with a pending set and a deadline
  due,         \* batches collected, their callbacks not yet called
  unseen,      \* repositories whose listener has not been called since a change
  partial      \* repositories the hub has lost an event or a directory of, unawares

kernelVars == <<kernel, lastWd, queue>>
hubVars == <<repos, closed, watchDirs, walk, adding>>
vars == <<inode, changes, kernelVars, hubVars, draining, pending, due, unseen, partial>>

Init ==
  /\ inode = [d \in Dirs |-> IF d = Top THEN 1 ELSE 0] /\ changes = 1
  /\ kernel = {} /\ lastWd = 0 /\ queue = << >>
  /\ repos = {} /\ closed = {} /\ watchDirs = {} /\ walk = {} /\ adding = {}
  /\ draining = FALSE /\ pending = {} /\ due = {} /\ unseen = {} /\ partial = {}

-----------------------------------------------------------------------------
WdsOf(i) == {k.wd : k \in {w \in kernel : w.inode = i}}
Events(d, kind, name) ==
  IF WdsOf(inode[d]) = {} THEN << >>
  ELSE <<[wd |-> CHOOSE w \in WdsOf(inode[d]) : TRUE, kind |-> kind, name |-> name]>>

(* A queue that is full takes no more than the event that says so. *)
Overflow == [wd |-> -1, kind |-> "overflow", name |-> Top]
Room(events) == Len(queue) + Len(events) <= QueueLimit

Put(events) ==
  queue \o IF Room(events) THEN events
           ELSE SubSeq(events, 1, QueueLimit - Len(queue))
                  \o IF Overflow \in ToSet(queue) THEN << >> ELSE <<Overflow>>

Watches(r, d) == \E e \in watchDirs : e.repo = r /\ e.wd \in WdsOf(inode[d])

\* A change in directory `at`, and the events it makes.
Changed(at, events) ==
  /\ changes < MaxChanges /\ changes' = changes + 1
  /\ queue' = Put(events)
  /\ unseen' = IF Room(events) THEN unseen \cup {r \in repos : r \notin partial \/ Watches(r, at)}
               ELSE unseen
  /\ partial' = IF Room(events) THEN partial ELSE partial \cup repos \cup adding
  /\ UNCHANGED <<lastWd, hubVars, draining, pending, due>>

(* A ref is written; a directory is made, or removed with the watch on it. *)
WriteRef(d) ==
  /\ inode[d] # 0
  /\ Changed(d, Events(d, "ref", d))
  /\ UNCHANGED <<inode, kernel>>

MakeDir(d) ==
  /\ d # Top /\ inode[d] = 0 /\ inode[In(d)] # 0
  /\ Changed(In(d), Events(In(d), "create", d))
  /\ inode' = [inode EXCEPT ![d] = changes']
  /\ UNCHANGED kernel

RemoveDir(d) ==
  /\ d # Top /\ inode[d] # 0 /\ ~\E c \in Dirs \ {Top} : In(c) = d /\ inode[c] # 0
  /\ Changed(In(d), Events(In(d), "delete", d) \o Events(d, "ignored", d))
  /\ inode' = [inode EXCEPT ![d] = 0]
  /\ kernel' = {k \in kernel : k.inode # inode[d]}

-----------------------------------------------------------------------------
(* mutex_, which add, remove, drainLocked and the collection of batches take. *)
MutexFree == walk = {} /\ ~draining

(* addDirTreeLocked, a directory at a time: it is watched, under the descriptor it has
   if it has one, unless it is gone or the kernel refuses, which nobody is told. *)
Watched(v) ==
  LET known == WdsOf(inode[v.dir])
      wd == IF known = {} THEN lastWd + 1 ELSE CHOOSE w \in known : TRUE
  IN  /\ inode[v.dir] # 0
      /\ kernel' = kernel \cup {[wd |-> wd, inode |-> inode[v.dir]]}
      /\ lastWd' = IF known = {} THEN wd ELSE lastWd
      /\ watchDirs' = watchDirs \cup {[wd |-> wd, repo |-> v.repo, dir |-> v.dir]}
      /\ UNCHANGED <<changes, partial>>

Unwatched(v) ==
  /\ IF inode[v.dir] = 0 THEN UNCHANGED <<changes, partial>>
     ELSE /\ changes < MaxChanges /\ changes' = changes + 1
          /\ partial' = partial \cup {v.repo}
  /\ UNCHANGED <<kernel, lastWd, watchDirs>>

Visit(v) ==
  /\ v \in walk /\ \A u \in walk : u.step = "watch"
  /\ Watched(v) \/ Unwatched(v)
  /\ walk' = (walk \ {v}) \cup {[v EXCEPT !.step = "list"]}
  /\ UNCHANGED <<inode, queue, repos, closed, adding, draining, pending, due, unseen>>

(* Then it is listed.  If it is gone by now, the walk ends there, whatever was left. *)
Below(d) == {c \in Dirs \ {Top} : In(c) = d /\ inode[c] # 0}

Listed(v) == {[repo |-> v.repo, dir |-> c, step |-> "watch"] : c \in Below(v.dir)}

Rest(v) == {u \in walk : u.repo = v.repo} \ {v}

\* add() keeps a repository it has a watch for, here or elsewhere in its gitdir.
Added ==
  IF walk' # {} THEN UNCHANGED <<repos, closed, adding>>
  ELSE /\ adding' = {}
       /\ \/ repos' = repos \cup adding /\ closed' = closed
          \/ /\ adding # {} /\ \A e \in watchDirs : e.repo \notin adding
             /\ repos' = repos /\ closed' = closed \cup adding

List(v) ==
  /\ v \in walk /\ v.step = "list"
  /\ IF inode[v.dir] = 0
       THEN /\ walk' = walk \ (Rest(v) \cup {v})
            /\ partial' = IF Rest(v) = {} THEN partial ELSE partial \cup {v.repo}
       ELSE walk' = (walk \ {v}) \cup Listed(v) /\ UNCHANGED partial
  /\ Added
  /\ UNCHANGED <<inode, changes, kernelVars, watchDirs, draining, pending, due, unseen>>

(* add() *)
AddRepo(r) ==
  /\ MutexFree /\ r \notin repos \cup closed
  /\ walk' = {[repo |-> r, dir |-> Top, step |-> "watch"]} /\ adding' = {r}
  /\ UNCHANGED <<inode, changes, kernelVars, repos, closed, watchDirs, draining, pending, due,
                 unseen, partial>>

(* remove(): a descriptor goes with the last repository that watches under it. *)
Released(r) ==
  {e.wd : e \in {f \in watchDirs : f.repo = r}}
    \ {e.wd : e \in {f \in watchDirs : f.repo # r}}

Ignored(wds) ==
  LET order == SetToSeq(wds)
  IN  [i \in DOMAIN order |-> [wd |-> order[i], kind |-> "ignored", name |-> Top]]

RemoveRepo(r) ==
  /\ MutexFree /\ r \in repos
  /\ LET gone == Released(r) \cap {k.wd : k \in kernel} IN
       /\ kernel' = {k \in kernel : k.wd \notin gone}
       /\ queue' = Put(Ignored(gone))
  /\ watchDirs' = {e \in watchDirs : e.repo # r}
  /\ repos' = repos \ {r} /\ closed' = closed \cup {r}
  /\ pending' = pending \ {r} /\ unseen' = unseen \ {r}
  /\ partial' = partial \ {r}
  /\ UNCHANGED <<inode, changes, lastWd, walk, adding, draining, due>>

-----------------------------------------------------------------------------
(* The thread: drainLocked holds the mutex until the queue is empty. *)
DrainBegin ==
  /\ MutexFree /\ due = {} /\ queue # << >>
  /\ draining' = TRUE
  /\ UNCHANGED <<inode, changes, kernelVars, hubVars, pending, due, unseen, partial>>

Forgotten(wd) == {e \in watchDirs : e.wd # wd}

DrainEvent ==
  /\ draining /\ walk = {} /\ queue # << >>
  /\ LET event == Head(queue)
         watchers == {e \in watchDirs : e.wd = event.wd}
     IN  IF event.kind = "ignored"
           THEN watchDirs' = Forgotten(event.wd) /\ UNCHANGED <<walk, pending>>
           ELSE /\ pending' = pending \cup {e.repo : e \in watchers}
                /\ walk' = IF event.kind = "create"
                             THEN {[repo |-> e.repo, dir |-> event.name, step |-> "watch"] : e \in watchers}
                             ELSE {}
                /\ UNCHANGED watchDirs
  /\ queue' = Tail(queue)
  /\ UNCHANGED <<inode, changes, kernel, lastWd, repos, closed, adding, draining, due, unseen, partial>>

DrainEnd ==
  /\ draining /\ walk = {} /\ queue = << >>
  /\ draining' = FALSE
  /\ UNCHANGED <<inode, changes, kernelVars, hubVars, pending, due, unseen, partial>>

(* Batches whose deadline has passed are taken under the mutex, and their
   callbacks called one by one without it. *)
MutLeft(taken) == {}

Left(taken) == pending \ taken

Collect(taken) ==
  /\ MutexFree /\ due = {} /\ taken # {} /\ taken \subseteq pending
  /\ due' = taken /\ pending' = Left(taken)
  /\ UNCHANGED <<inode, changes, kernelVars, hubVars, draining, unseen, partial>>

Callback(r) ==
  /\ r \in due /\ due' = due \ {r}
  /\ unseen' = unseen \ {r}
  /\ UNCHANGED <<inode, changes, kernelVars, hubVars, draining, pending, partial>>

-----------------------------------------------------------------------------
Next ==
  \/ \E d \in Dirs : WriteRef(d) \/ MakeDir(d) \/ RemoveDir(d)
  \/ \E v \in walk : Visit(v) \/ List(v)
  \/ \E r \in Repos : AddRepo(r) \/ RemoveRepo(r) \/ Callback(r)
  \/ DrainBegin \/ DrainEvent \/ DrainEnd
  \/ \E taken \in SUBSET pending : Collect(taken)

Spec == Init /\ [][Next]_vars

-----------------------------------------------------------------------------
(* A change anywhere in the tree of a watched repository is on its way to the
   listener until the listener is called after it, also one in a directory that
   was made, written to and removed before the hub got to it.  Of a repository it
   has lost something of, the hub still tells what the kernel tells it
   (watch_manager.cpp, drainLocked, addDirTreeLocked and run). *)
ChangesOnTheirWay ==
  \A r \in unseen : queue # << >> \/ r \in pending \cup due

(* "Watches `rel` and every directory below it. New nested directories that
   appear later get their own watches from the IN_CREATE events."
   (watch_manager.cpp:251): with every event read, each directory there is is
   watched for each repository, unless the kernel refused one of its watches or
   dropped an event, or a walk came upon a directory that was gone. *)
EveryDirWatched ==
  MutexFree /\ queue = << >> =>
    \A r \in repos \ partial, d \in Dirs : inode[d] # 0 =>
      \E e \in watchDirs : e.repo = r /\ e.dir = d /\ e.wd \in WdsOf(inode[d])

(* Whenever the hub's mutex is free it knows every descriptor the kernel holds,
   each with a repository it watches for, and the kernel holds every descriptor
   it knows, unless it is about to read otherwise or the repository has lost
   something; a shared descriptor outlives the first repository to go, and no
   directory is missed (watch_manager.cpp, add, remove and drainLocked). *)
WatchesExact ==
  /\ EveryDirWatched
  /\ MutexFree =>
       /\ \A k \in kernel : \E e \in watchDirs : e.wd = k.wd
       /\ \A e \in watchDirs : e.repo \in repos
            /\ \/ e.repo \in partial
               \/ \E k \in kernel : k.wd = e.wd
               \/ \E i \in DOMAIN queue : queue[i].kind = "ignored" /\ queue[i].wd = e.wd
=============================================================================
