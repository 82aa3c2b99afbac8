------------------------------- MODULE TaskPool -------------------------------
(***************************************************************************)
(* The engine's worker pool (src/engine/src/util/task_pool.cpp): two lanes,  *)
(* threads sleeping on one condition variable, a supervisor that adds a      *)
(* thread when queued work is stuck behind busy ones and joins the threads   *)
(* that retire, and a shutdown that drains.                                  *)
(*                                                                          *)
(* One step is one critical section of mutex_.  A notify is a step of its    *)
(* own, taken after the lock is released.  Time is abstract: overdue says    *)
(* kStarvationDelay has passed since lastDequeue_, and kIdleRetire may pass  *)
(* at any moment of a wait.                                                  *)
(***************************************************************************)
EXTENDS Integers, Sequences, FiniteSets

CONSTANTS
  Tasks,       \* tasks the program may post, each once
  Background,  \* the tasks posted with Priority::Background
  Hanging,     \* the sets of tasks that may block, each on a child that never ends
  Threads,     \* thread slots, as many as maxThreads_
  Core         \* the threads started by the constructor

PoolAssumption ==
  /\ IsFiniteSet(Threads) /\ Core \subseteq Threads /\ Core # {}
  /\ Background \subseteq Tasks /\ Hanging \subseteq SUBSET Tasks

VARIABLES
  stuck,        \* the tasks that block, of Hanging
  posted,       \* tasks handed to post
  interactive,  \* interactive_
  background,   \* background_
  thread,       \* what each thread slot is doing
  running,      \* the task each busy thread runs
  signalled,    \* sleeping threads a notify has picked
  notifies,     \* notify_one calls still to be made by posters
  idle,         \* idle_
  live,         \* live_
  overdue,      \* now - lastDequeue_ >= kStarvationDelay
  supervisor,   \* "waiting", "joining" retired threads, or "done"
  stop,         \* how far TaskPool::shutdown has come
  done          \* tasks that ran to their end

laneVars == <<posted, interactive, background, done, stuck>>
threadVars == <<thread, running, signalled, idle, live>>
vars == <<laneVars, threadVars, notifies, overdue, supervisor, stop>>

NoTask == "none"
stopping == stop # "open"
Queued == interactive \o background
InQueue(t) == \E i \in 1..Len(Queued) : Queued[i] = t
Asleep == {w \in Threads : thread[w] = "asleep"}
Alive == {w \in Threads : thread[w] \in {"awake", "asleep", "busy"}}

Init ==
  /\ stuck \in Hanging
  /\ posted = {} /\ interactive = <<>> /\ background = <<>> /\ done = {}
  /\ thread = [w \in Threads |-> IF w \in Core THEN "awake" ELSE "free"]
  /\ running = [w \in Threads |-> NoTask]
  /\ signalled = {} /\ notifies = 0 /\ idle = 0 /\ live = Cardinality(Core)
  /\ overdue = FALSE /\ supervisor = "waiting" /\ stop = "open"

-----------------------------------------------------------------------------
(* post: a stopping pool drops the task. *)
Post(t) ==
  /\ t \notin posted /\ stop # "joined"
  /\ posted' = posted \cup {t}
  /\ IF stopping THEN UNCHANGED <<interactive, background, notifies>>
     ELSE /\ notifies' = notifies + 1
          /\ IF t \in Background
               THEN background' = Append(background, t) /\ UNCHANGED interactive
               ELSE interactive' = Append(interactive, t) /\ UNCHANGED background
  /\ UNCHANGED <<done, stuck, threadVars, overdue, supervisor, stop>>

(* The threads a notify_one may wake. *)
Wakeable == Asleep \ signalled

(* cv_.notify_one() of an earlier post. *)
NotifyOne ==
  /\ notifies > 0
  /\ notifies' = notifies - 1
  /\ IF Wakeable = {} THEN UNCHANGED signalled
     ELSE \E w \in Wakeable : signalled' = signalled \cup {w}
  /\ UNCHANGED <<laneVars, thread, running, idle, live, overdue, supervisor, stop>>

-----------------------------------------------------------------------------
(* workerLoop *)

Ready == stopping \/ Queued # <<>>

MutLeaves == stopping

(* A thread leaves only when nothing is queued any more. *)
Leaves == Queued = <<>>

(* Under the lock with something to do: run the next task, interactive ones
   first, or leave a stopping pool with nothing queued. *)
Proceed(w, idleLeft) ==
  /\ Ready
  /\ idle' = idleLeft
  /\ signalled' = signalled \ {w}
  /\ IF Leaves
       THEN /\ thread' = [thread EXCEPT ![w] = "returned"]
            /\ live' = live - 1
            /\ UNCHANGED <<laneVars, running, overdue>>
       ELSE /\ thread' = [thread EXCEPT ![w] = "busy"]
            /\ running' = [running EXCEPT ![w] = Head(Queued)]
            /\ IF interactive # <<>>
                 THEN interactive' = Tail(interactive) /\ UNCHANGED background
                 ELSE background' = Tail(background) /\ UNCHANGED interactive
            /\ overdue' = FALSE
            /\ UNCHANGED <<posted, done, stuck, live>>
  /\ UNCHANGED <<notifies, supervisor, stop>>

(* A thread at the top of its loop goes on or goes to sleep. *)
LoopTop(w) ==
  /\ thread[w] = "awake"
  /\ \/ Proceed(w, idle)
     \/ /\ ~Ready
        /\ thread' = [thread EXCEPT ![w] = "asleep"]
        /\ idle' = idle + 1
        /\ UNCHANGED <<laneVars, running, signalled, live, notifies, overdue, supervisor, stop>>

(* A signalled thread wakes; finding nothing, it sleeps on. *)
Wake(w) ==
  /\ thread[w] = "asleep" /\ w \in signalled
  /\ \/ Proceed(w, idle - 1)
     \/ /\ ~Ready
        /\ signalled' = signalled \ {w}
        /\ UNCHANGED <<laneVars, thread, running, idle, live, notifies, overdue, supervisor, stop>>

MutMayRetire == ~stopping

(* A wait that timed out evaluates its condition once more. *)
MayRetire == ~Ready

LiveLeft == live - 1

(* kIdleRetire passes for an added thread: it goes on if there is something to
   do after all, and retires if not. *)
TimeOut(w) ==
  /\ thread[w] = "asleep" /\ w \notin Core
  /\ \/ Proceed(w, idle - 1)
     \/ /\ MayRetire
        /\ thread' = [thread EXCEPT ![w] = "returned"]
        /\ live' = LiveLeft
        /\ signalled' = signalled \ {w}
        /\ idle' = idle - 1
        /\ UNCHANGED <<laneVars, running, notifies, overdue, supervisor, stop>>

Finish(w) ==
  /\ thread[w] = "busy" /\ running[w] \notin stuck
  /\ done' = done \cup {running[w]}
  /\ thread' = [thread EXCEPT ![w] = "awake"]
  /\ running' = [running EXCEPT ![w] = NoTask]
  /\ UNCHANGED <<posted, interactive, background, stuck, signalled, idle, live, notifies, overdue,
                 supervisor, stop>>

(* kStarvationDelay passes with no dequeue. *)
Overdue ==
  /\ ~overdue /\ overdue' = TRUE
  /\ UNCHANGED <<laneVars, threadVars, notifies, supervisor, stop>>

-----------------------------------------------------------------------------
(* supervisorLoop *)

(* Work is queued, no thread is idle, nothing was dequeued for a while, and
   there is room for a thread more. *)
Starved == Queued # <<>> /\ idle = 0 /\ live < Cardinality(Threads) /\ overdue

AddIfStarved ==
  /\ supervisor' = "waiting"
  /\ \/ /\ Starved
        /\ \E w \in Threads : thread[w] = "free" /\ thread' = [thread EXCEPT ![w] = "awake"]
        /\ live' = live + 1
        /\ overdue' = FALSE
     \/ ~Starved /\ UNCHANGED <<thread, live, overdue>>
  /\ UNCHANGED <<laneVars, running, signalled, idle, notifies, stop>>

(* Threads that set `finished`: retired ones, not those a stop let go. *)
Finished == {w \in Threads : thread[w] = "returned"}

SupervisorEnds == stopping /\ supervisor' = "done"
                  /\ UNCHANGED <<laneVars, threadVars, notifies, overdue, stop>>

(* The supervisor wakes: it takes the retired threads off the list, and joins
   them outside the lock, or looks for starvation at once. *)
SupervisorWakes ==
  /\ supervisor = "waiting"
  /\ \/ SupervisorEnds
     \/ ~stopping /\ Finished = {} /\ AddIfStarved
     \/ /\ ~stopping /\ Finished # {}
        /\ supervisor' = "joining"
        /\ thread' = [w \in Threads |-> IF w \in Finished THEN "joining" ELSE thread[w]]
        /\ UNCHANGED <<laneVars, running, signalled, idle, live, notifies, overdue, stop>>

(* The joined threads have returned, so their slots are free again. *)
SupervisorJoins ==
  /\ supervisor = "joining"
  /\ supervisor' = "joined"
  /\ thread' = [w \in Threads |-> IF thread[w] = "joining" THEN "free" ELSE thread[w]]
  /\ UNCHANGED <<laneVars, running, signalled, idle, live, notifies, overdue, stop>>

SupervisorResumes ==
  /\ supervisor = "joined"
  /\ SupervisorEnds \/ (~stopping /\ AddIfStarved)

-----------------------------------------------------------------------------
(* shutdown *)

BeginShutdown ==
  /\ stop = "open" /\ stop' = "flagged"
  /\ UNCHANGED <<laneVars, threadVars, notifies, overdue, supervisor>>

(* cv_.notify_all() *)
Woken == Asleep

NotifyAll ==
  /\ stop = "flagged" /\ stop' = "notified"
  /\ signalled' = IF Asleep = {} THEN {} ELSE Woken
  /\ UNCHANGED <<laneVars, thread, running, idle, live, notifies, overdue, supervisor>>

(* The supervisor is joined first, then every thread still listed. *)
MayJoin == supervisor = "done" /\ Alive = {}

JoinAll ==
  /\ stop = "notified" /\ MayJoin
  /\ stop' = "joined"
  /\ thread' = [w \in Threads |-> IF thread[w] = "returned" THEN "free" ELSE thread[w]]
  /\ UNCHANGED <<laneVars, running, signalled, idle, live, notifies, overdue, supervisor>>

(* A pool that is joined is gone; so is one whose threads are stuck for ever. *)
AtRest ==
  /\ stop = "joined" \/ \E w \in Threads : thread[w] = "busy" /\ running[w] \in stuck
  /\ UNCHANGED vars

ThreadStep(w) == LoopTop(w) \/ Wake(w) \/ Finish(w)
Supervise == SupervisorWakes \/ SupervisorJoins \/ SupervisorResumes
Shutdown == NotifyAll \/ JoinAll

Next ==
  \/ \E t \in Tasks : Post(t)
  \/ NotifyOne \/ Overdue \/ Supervise \/ BeginShutdown \/ Shutdown \/ AtRest
  \/ \E w \in Threads : ThreadStep(w) \/ TimeOut(w)

(* The scheduler runs every thread, and time passes. *)
Spec ==
  /\ Init /\ [][Next]_vars
  /\ \A w \in Threads : WF_vars(ThreadStep(w))
  /\ WF_vars(NotifyOne) /\ WF_vars(Overdue) /\ WF_vars(Supervise) /\ WF_vars(Shutdown)

-----------------------------------------------------------------------------
(* Properties *)

(* Every variable holds a value of its kind, and only threads that sleep are
   signalled. *)
TypeOK ==
  /\ stuck \in Hanging /\ posted \subseteq Tasks /\ done \subseteq posted
  /\ interactive \in Seq(Tasks \ Background) /\ background \in Seq(Background)
  /\ thread \in [Threads -> {"free", "awake", "asleep", "busy", "returned", "joining"}]
  /\ running \in [Threads -> Tasks \cup {NoTask}]
  /\ signalled \subseteq Asleep
  /\ notifies \in Nat /\ idle \in Int /\ live \in Int /\ overdue \in BOOLEAN
  /\ supervisor \in {"waiting", "joining", "joined", "done"}
  /\ stop \in {"open", "flagged", "notified", "joined"}

(* idle_ and live_, which decide whether a thread is added, count the threads. *)
CountsExact == idle = Cardinality(Asleep) /\ live = Cardinality(Alive)

(* A queued task never waits beside a thread that sleeps with no wakeup coming:
   a retiring thread cannot swallow a notify. *)
NoLostWakeup ==
  \/ Asleep \subseteq signalled
  \/ Len(Queued) <= notifies + Cardinality(signalled)

(* The counts the supervisor decides by are exact and no wakeup is lost, to a
   thread that retires or to one already woken (TaskPool::post, workerLoop). *)
WakeupsKept == TypeOK /\ CountsExact /\ NoLostWakeup

(* Tasks blocked for ever hold up the others only while they leave no room for
   another thread: with fewer of them than maxThreads_, every queued task runs
   while the pool is open. *)
EveryTaskRuns == \A t \in Tasks : InQueue(t) ~> (~InQueue(t) \/ stopping)

(* With no task blocked for ever shutdown returns, and by then what was queued
   has run and no thread is left. *)
ShutdownDrains ==
  (stop # "open" /\ stuck = {}) ~>
    (stop = "joined" /\ Queued = <<>> /\ \A w \in Threads : thread[w] = "free")

(* While it is open the pool runs what it is given, and a shutdown at any moment
   lets it finish. *)
PoolDrains == EveryTaskRuns /\ ShutdownDrains
===============================================================================
