------------------------------ MODULE Dispatcher ------------------------------
(***************************************************************************)
(* The request lifecycle of the engine (src/engine/src/rpc/dispatcher.cpp), *)
(* with the strands and the worker pool it runs on (util/strand.h,          *)
(* util/task_pool.cpp) and the stop sequence of runServer (server.cpp).     *)
(*                                                                         *)
(* The read loop takes payloads in arrival order.  A large payload is       *)
(* parsed on the notification strand; while such a payload waits, later     *)
(* ones are routed behind it, except $/cancelRequest, which runs at once.   *)
(* A payload is a member of Messages, sent at most once; the client sends   *)
(* payloads of one of Sessions, in any order and of any size.               *)
(***************************************************************************)
EXTENDS Integers, Sequences, FiniteSets

CONSTANTS
  Requests,           \* requests the client may send
  Notices,            \* Queued notifications (doc/didChange, doc/didClose)
  Cancels,            \* $/cancelRequest payloads
  Sessions,           \* sets of payloads a client may send together
  Ids,                \* JSON-RPC request ids
  IdOf,               \* the id a request carries, or a cancel names
  ModeOf,             \* where a request's handler runs
  LaneOf,             \* strand of a Serial or SerialNetwork request
  PriorityOf,         \* pool lane of a Concurrent or AfterNotifications request
  Lanes,              \* the (lane, repository) strands
  Notify,             \* notificationStrand_
  Blocking,           \* requests whose handler returns only once cancelled
  Workers,            \* threads of the pool
  MaxDeferred,        \* kMaxDeferredParseBytes, in payloads
  MaxEarlyCancelled,  \* kMaxEarlyCancelled
  None

Messages == Requests \cup Notices \cup Cancels
Strands == Lanes \cup {Notify}
Modes == {"concurrent", "serial", "after", "unknown"}
Priorities == {"interactive", "background"}

ASSUME ConstantsAssumption ==
  /\ IdOf \in [Requests \cup Cancels -> Ids]
  /\ ModeOf \in [Requests -> Modes]
  /\ LaneOf \in [Requests -> Lanes]
  /\ PriorityOf \in [Requests -> Priorities]
  /\ Blocking \subseteq Requests
  /\ Sessions \subseteq SUBSET Messages
  /\ Requests \cap Notices = {} /\ Requests \cap Cancels = {} /\ Notices \cap Cancels = {}
  /\ Notify \notin Lanes
  /\ None \notin Messages \cup Strands
  /\ MaxDeferred \in Nat /\ MaxEarlyCancelled \in Nat
  /\ IsFiniteSet(Messages)

VARIABLES
  arrivedAt,     \* when the read loop took each message, 0 before (history)
  reader,        \* where runServer is: reading, draining, closing, stopping
  held,          \* message the read loop decided to route behind the queue
  deferred,      \* deferredBytes_
  queuedRoutes,  \* payloads on the notification strand not yet routed
  lastQueued,    \* arrival number of the latest of them
  early,         \* earlyCancelled_: arrival number per id, 0 when absent
  inflight,      \* inflight_: the request registered under each id
  cancelled,     \* requests whose CancelSource has been cancelled
  strand,        \* queue_ of every strand
  draining,      \* strands whose draining_ is set
  interactive,   \* interactive_ lane of the pool
  background,    \* background_ lane of the pool
  worker,        \* what each pool thread is doing
  answers,       \* the responses written for each request (history)
  started,       \* requests in the order their handlers started (history)
  handled,       \* notifications in the order they were handled (history)
  clash,         \* requests sent while their id was unanswered (history)
  drained        \* waitIdle returned true (history)

requestVars == <<early, inflight, cancelled, answers>>
queueVars == <<strand, draining, interactive, background>>
routeVars == <<deferred, queuedRoutes, lastQueued>>
historyVars == <<started, handled, drained>>
vars == <<arrivedAt, reader, held, routeVars, requestVars, queueVars, worker, historyVars, clash>>

(* kRoutedOnArrival: after every arrival number. *)
RoutedOnArrival == Cardinality(Messages) + 1
Clock == Cardinality({m \in Messages : arrivedAt[m] > 0})

DrainTask(s) == [kind |-> "drain", strand |-> s]
RunTask(r) == [kind |-> "run", msg |-> r]
StartTask(r) == [kind |-> "start", msg |-> r]
NotifyTask(n) == [kind |-> "notify", msg |-> n]
RouteTask(m, arrival, big) == [kind |-> "route", msg |-> m, arrival |-> arrival, big |-> big]

IdleWorker == [at |-> "idle", strand |-> None, task |-> None]

Init ==
  /\ arrivedAt = [m \in Messages |-> 0]
  /\ reader = "reading" /\ held = None
  /\ deferred = 0 /\ queuedRoutes = 0 /\ lastQueued = 0
  /\ early = [i \in Ids |-> 0]
  /\ inflight = [i \in Ids |-> None]
  /\ cancelled = {}
  /\ strand = [s \in Strands |-> <<>>] /\ draining = {}
  /\ interactive = <<>> /\ background = <<>>
  /\ worker = [w \in Workers |-> IdleWorker]
  /\ answers = [r \in Requests |-> <<>>]
  /\ started = <<>> /\ handled = <<>> /\ clash = {} /\ drained = FALSE

-----------------------------------------------------------------------------
(* Pool and strands *)

(* TaskPool::post: a pool that is stopping drops the task. *)
PostPool(priority, task) ==
  IF reader = "stopping" THEN UNCHANGED <<interactive, background>>
  ELSE IF priority = "interactive"
    THEN interactive' = Append(interactive, task) /\ UNCHANGED background
    ELSE background' = Append(background, task) /\ UNCHANGED interactive

MutPostStrand(s, task) ==
  /\ strand' = [strand EXCEPT ![s] = Append(@, task)]
  /\ draining' = draining \cup {s}
  /\ PostPool("interactive", DrainTask(s))

(* Strand::post: the first task of an idle strand posts its drain. *)
PostStrand(s, task) ==
  /\ strand' = [strand EXCEPT ![s] = Append(@, task)]
  /\ draining' = draining \cup {s}
  /\ IF s \in draining THEN UNCHANGED <<interactive, background>>
     ELSE PostPool("interactive", DrainTask(s))

(* queueRoute, then the post that routes m once it reaches the front. *)
QueueRoute(m, big) ==
  /\ queuedRoutes' = queuedRoutes + 1
  /\ lastQueued' = lastQueued + 1
  /\ PostStrand(Notify, RouteTask(m, lastQueued + 1, big))

-----------------------------------------------------------------------------
(* Routing *)

Answer(r, outcome) == answers' = [answers EXCEPT ![r] = Append(@, outcome)]

(* The end of runRequest: where the task of a registered request goes. *)
PostRequest(r) ==
  CASE ModeOf[r] = "serial" -> PostStrand(LaneOf[r], RunTask(r))
    [] ModeOf[r] = "after" -> PostStrand(Notify, StartTask(r))
    [] OTHER -> PostPool(PriorityOf[r], RunTask(r)) /\ UNCHANGED <<strand, draining>>

MutInUse(id) == FALSE

InUse(id) == inflight[id] # None

(* A remembered cancel applies to a request queued by the time it came. *)
EarlyApplies(id, arrival) == early[id] > 0 /\ arrival <= early[id]

Refuse(r) == Answer(r, "refused") /\ UNCHANGED <<early, inflight, cancelled, queueVars>>

(* runRequest: registers r under its id and posts its task, or refuses it.
   Registering spends a cancel remembered for the id. *)
RunRequest(r, arrival) ==
  LET id == IdOf[r] IN
  \/ /\ ModeOf[r] = "unknown"
     /\ Answer(r, "error")
     /\ UNCHANGED <<early, inflight, cancelled, queueVars>>
  \/ /\ ModeOf[r] # "unknown" /\ InUse(id)
     /\ Refuse(r)
  \/ /\ ModeOf[r] # "unknown" /\ ~InUse(id)
     /\ inflight' = [inflight EXCEPT ![id] = r]
     /\ cancelled' = IF EarlyApplies(id, arrival) THEN cancelled \cup {r} ELSE cancelled
     /\ early' = [early EXCEPT ![id] = 0]
     /\ UNCHANGED answers
     /\ PostRequest(r)

MutRemembers(id, arrival) == FALSE

(* A cancel for an id not in flight is kept only for a request that may still
   be waiting to be routed, and only so many are. *)
Remembers(id, arrival) ==
  LET remembered == {i \in Ids : early[i] > 0} IN
  /\ arrival = RoutedOnArrival
  /\ queuedRoutes > 0
  /\ Cardinality(remembered) < MaxEarlyCancelled \/ id \in remembered

(* cancelRequest *)
CancelRequest(c, arrival) ==
  LET id == IdOf[c] IN
  /\ \/ inflight[id] # None /\ cancelled' = cancelled \cup {inflight[id]} /\ UNCHANGED early
     \/ /\ inflight[id] = None /\ UNCHANGED cancelled
        /\ early' = IF Remembers(id, arrival) THEN [early EXCEPT ![id] = lastQueued] ELSE early
  /\ UNCHANGED <<inflight, answers, queueVars>>

(* routeMessage *)
RouteMessage(m, arrival) ==
  \/ m \in Requests /\ RunRequest(m, arrival)
  \/ m \in Cancels /\ CancelRequest(m, arrival)
  \/ m \in Notices /\ PostStrand(Notify, NotifyTask(m)) /\ UNCHANGED requestVars

-----------------------------------------------------------------------------
(* The read loop *)

Take(m) ==
  /\ reader = "reading" /\ held = None
  /\ arrivedAt[m] = 0
  /\ \E s \in Sessions : m \in s /\ \A q \in Messages : arrivedAt[q] > 0 => q \in s
  /\ arrivedAt' = [arrivedAt EXCEPT ![m] = Clock + 1]
  /\ clash' = IF /\ m \in Requests
                 /\ \E r \in Requests :
                      r # m /\ IdOf[r] = IdOf[m] /\ arrivedAt[r] > 0 /\ answers[r] = <<>>
              THEN clash \cup {m} ELSE clash
  /\ UNCHANGED <<reader, worker, historyVars>>

MutRoutesQueued == FALSE

RoutesQueued == queuedRoutes > 0

(* dispatch of a payload over kInlineParseLimit within the deferred budget *)
DispatchDeferred(m) ==
  /\ Take(m)
  /\ deferred < MaxDeferred
  /\ deferred' = deferred + 1
  /\ QueueRoute(m, TRUE)
  /\ UNCHANGED <<held, requestVars>>

(* dispatch of any other payload while routes are queued: the check and what
   follows it take the lock apart, so workers may run in between. *)
DispatchBehind(m) ==
  /\ Take(m)
  /\ RoutesQueued
  /\ held' = m
  /\ UNCHANGED <<routeVars, requestVars, queueVars>>

(* dispatch of any other payload with nothing queued: routed at once. *)
DispatchNow(m) ==
  /\ Take(m)
  /\ ~RoutesQueued
  /\ RouteMessage(m, RoutedOnArrival)
  /\ UNCHANGED <<held, routeVars>>

(* The rest of DispatchBehind: an Inline notification runs at once, anything
   else is routed behind the queue. *)
RouteHeld ==
  /\ held # None
  /\ held' = None
  /\ \/ held \in Cancels /\ CancelRequest(held, RoutedOnArrival) /\ UNCHANGED routeVars
     \/ held \notin Cancels /\ QueueRoute(held, FALSE) /\ UNCHANGED <<deferred, requestVars>>
  /\ UNCHANGED <<arrivedAt, reader, worker, historyVars, clash>>

(* runServer leaves its loop: stdin closed, a malformed frame, or shutdown. *)
StopReading ==
  /\ reader = "reading" /\ held = None
  /\ reader' = "draining"
  /\ UNCHANGED <<arrivedAt, held, routeVars, requestVars, queueVars, worker, historyVars, clash>>

MutNothingOutstanding == \A i \in Ids : inflight[i] = None

NothingOutstanding == (\A i \in Ids : inflight[i] = None) /\ queuedRoutes = 0

(* waitIdle sees nothing outstanding; TaskPool::shutdown sets stopping_. *)
DrainIdle ==
  /\ reader = "draining" /\ NothingOutstanding
  /\ reader' = "stopping" /\ drained' = TRUE
  /\ UNCHANGED <<arrivedAt, held, routeVars, requestVars, queueVars, worker, started, handled, clash>>

MutCancelAll == {}

(* cancelAll: every request in flight. *)
CancelAll == {inflight[i] : i \in Ids} \ {None}

(* waitIdle times out (at once when the drain is 0): cancelAll. *)
DrainTimeout ==
  /\ reader = "draining" /\ ~NothingOutstanding
  /\ reader' = "closing"
  /\ cancelled' = cancelled \cup CancelAll
  /\ UNCHANGED <<arrivedAt, held, routeVars, early, inflight, answers, queueVars, worker, historyVars, clash>>

(* TaskPool::shutdown sets stopping_. *)
ShutdownPool ==
  /\ reader = "closing"
  /\ reader' = "stopping"
  /\ UNCHANGED <<arrivedAt, held, routeVars, requestVars, queueVars, worker, historyVars, clash>>

-----------------------------------------------------------------------------
(* Pool threads *)

readerVars == <<arrivedAt, reader, held, clash>>

Become(w, at, s, task) == worker' = [worker EXCEPT ![w] = [at |-> at, strand |-> s, task |-> task]]

(* A task returns to the drain it runs in, or to the pool. *)
Return(w) == IF worker[w].strand = None THEN Become(w, "idle", None, None)
             ELSE Become(w, "drain", worker[w].strand, None)

Executing(w, kind) == worker[w].at = "task" /\ worker[w].task.kind = kind
Msg(w) == worker[w].task.msg

(* workerLoop: interactive tasks always dequeue before background ones. *)
TakeTask(w) ==
  LET next == IF interactive # <<>> THEN Head(interactive) ELSE Head(background) IN
  /\ worker[w].at = "idle"
  /\ interactive # <<>> \/ background # <<>>
  /\ IF interactive # <<>> THEN interactive' = Tail(interactive) /\ UNCHANGED background
     ELSE background' = Tail(background) /\ UNCHANGED interactive
  /\ IF next.kind = "drain" THEN Become(w, "drain", next.strand, None)
     ELSE Become(w, "task", None, next)
  /\ UNCHANGED <<readerVars, routeVars, requestVars, strand, draining, historyVars>>

(* workerLoop: a stopping pool's thread exits once nothing is queued. *)
Exit(w) ==
  /\ worker[w].at = "idle" /\ reader = "stopping"
  /\ interactive = <<>> /\ background = <<>>
  /\ Become(w, "exited", None, None)
  /\ UNCHANGED <<readerVars, routeVars, requestVars, queueVars, historyVars>>

(* drain: the next task of the strand ... *)
DrainNext(w) ==
  LET s == worker[w].strand IN
  /\ worker[w].at = "drain" /\ strand[s] # <<>>
  /\ strand' = [strand EXCEPT ![s] = Tail(@)]
  /\ Become(w, "task", s, Head(strand[s]))
  /\ UNCHANGED <<readerVars, routeVars, requestVars, draining, interactive, background, historyVars>>

MutIdleStrand(s) == draining

IdleStrand(s) == draining \ {s}

(* ... or none, and the strand goes idle. *)
DrainEnd(w) ==
  LET s == worker[w].strand IN
  /\ worker[w].at = "drain" /\ strand[s] = <<>>
  /\ draining' = IdleStrand(s)
  /\ Become(w, "idle", None, None)
  /\ UNCHANGED <<readerVars, routeVars, requestVars, strand, interactive, background, historyVars>>

(* A queued payload is parsed and routed ... *)
RouteQueued(w) ==
  /\ Executing(w, "route")
  /\ RouteMessage(Msg(w), worker[w].task.arrival)
  /\ Become(w, "routed", worker[w].strand, worker[w].task)
  /\ UNCHANGED <<readerVars, routeVars, historyVars>>

(* The deferred budget a routed payload gives back. *)
Released(task) == IF task.big THEN deferred - 1 ELSE deferred

(* ... and then counted out: finishQueuedRoute forgets the early cancels when
   it was the last. *)
FinishQueuedRoute(w) ==
  /\ worker[w].at = "routed"
  /\ deferred' = Released(worker[w].task)
  /\ queuedRoutes' = queuedRoutes - 1
  /\ early' = IF queuedRoutes = 1 THEN [i \in Ids |-> 0] ELSE early
  /\ Return(w)
  /\ UNCHANGED <<readerVars, lastQueued, inflight, cancelled, answers, queueVars, historyVars>>

HandleNotice(w) ==
  /\ Executing(w, "notify")
  /\ handled' = Append(handled, Msg(w))
  /\ Return(w)
  /\ UNCHANGED <<readerVars, routeVars, requestVars, queueVars, started, drained>>

(* An AfterNotifications request reaches the front of the notification strand:
   its handler is posted to the pool. *)
StartAfterNotifications(w) ==
  /\ Executing(w, "start")
  /\ PostPool(PriorityOf[Msg(w)], RunTask(Msg(w)))
  /\ Return(w)
  /\ UNCHANGED <<readerVars, routeVars, requestVars, strand, draining, historyVars>>

(* The request task takes its token and calls the handler.  The code answers
   an error should the entry be gone; RunsRegistered says it never is. *)
StartHandler(w) ==
  /\ Executing(w, "run") /\ inflight[IdOf[Msg(w)]] # None
  /\ started' = Append(started, Msg(w))
  /\ Become(w, "running", worker[w].strand, worker[w].task)
  /\ UNCHANGED <<readerVars, routeVars, requestVars, queueVars, handled, drained>>

(* The handler returns or throws; a cancelled one has no result to give.  The
   outcome is fixed here, whatever is cancelled after. *)
HandlerReturns(w) ==
  /\ worker[w].at = "running"
  /\ Msg(w) \notin Blocking \/ Msg(w) \in cancelled
  /\ Become(w, IF Msg(w) \in cancelled THEN "cancelled" ELSE "result", worker[w].strand, worker[w].task)
  /\ UNCHANGED <<readerVars, routeVars, requestVars, queueVars, historyVars>>

Erased(r) == [inflight EXCEPT ![IdOf[r]] = None]

(* The in-flight entry goes before the client can see the answer ... *)
EraseEntry(w) ==
  /\ worker[w].at \in {"result", "cancelled"}
  /\ inflight' = Erased(Msg(w))
  /\ Become(w, IF worker[w].at = "result" THEN "send result" ELSE "send cancelled",
            worker[w].strand, worker[w].task)
  /\ UNCHANGED <<readerVars, routeVars, early, cancelled, answers, queueVars, historyVars>>

(* ... and then the answer is written. *)
SendAnswer(w) ==
  /\ worker[w].at \in {"send result", "send cancelled"}
  /\ Answer(Msg(w), IF worker[w].at = "send result" THEN "result" ELSE "cancelled")
  /\ Return(w)
  /\ UNCHANGED <<readerVars, routeVars, early, inflight, cancelled, queueVars, historyVars>>

Terminated == reader = "stopping" /\ \A w \in Workers : worker[w].at = "exited"

(* The process has gone; only then may the system stop. *)
Done == Terminated /\ UNCHANGED vars

WorkerStep(w) ==
  \/ TakeTask(w) \/ Exit(w) \/ DrainNext(w) \/ DrainEnd(w)
  \/ RouteQueued(w) \/ FinishQueuedRoute(w) \/ HandleNotice(w)
  \/ StartAfterNotifications(w) \/ StartHandler(w) \/ HandlerReturns(w)
  \/ EraseEntry(w) \/ SendAnswer(w)

Dispatch(m) == DispatchDeferred(m) \/ DispatchBehind(m) \/ DispatchNow(m)

Stop == DrainIdle \/ DrainTimeout \/ ShutdownPool

Next ==
  \/ \E m \in Messages : Dispatch(m)
  \/ RouteHeld \/ StopReading \/ Stop
  \/ \E w \in Workers : WorkerStep(w)
  \/ Done

(* Threads run; the read loop finishes what it holds; a stop goes through.
   The client owes nothing, and nothing forces a stop. *)
Fairness ==
  /\ \A w \in Workers : WF_vars(WorkerStep(w))
  /\ WF_vars(RouteHeld)
  /\ WF_vars(Stop)

Spec == Init /\ [][Next]_vars /\ Fairness
-----------------------------------------------------------------------------
(* Properties *)

InSeq(x, q) == \E i \in 1..Len(q) : q[i] = x
Sent(m) == arrivedAt[m] > 0
Before(m1, m2) == Sent(m1) /\ arrivedAt[m1] < arrivedAt[m2]

RunTasks == [kind : {"run"}, msg : Requests]
DrainTasks == [kind : {"drain"}, strand : Strands]
RouteTasks == [kind : {"route"}, msg : Messages, arrival : Nat, big : BOOLEAN]
StrandTasks == RunTasks \cup RouteTasks
  \cup [kind : {"start"}, msg : Requests] \cup [kind : {"notify"}, msg : Notices]

(* A thread is inside a strand only while it drains it, and has a task only
   while it executes one. *)
WorkerStates ==
  [at : {"idle", "exited"}, strand : {None}, task : {None}]
  \cup [at : {"drain"}, strand : Strands, task : {None}]
  \cup [at : {"task"}, strand : Strands, task : StrandTasks]
  \cup [at : {"routed"}, strand : Strands, task : RouteTasks]
  \cup [at : {"task", "running", "result", "cancelled", "send result", "send cancelled"},
         strand : Strands \cup {None}, task : RunTasks]

(* Every variable keeps its type, and every thread is in one of its states. *)
TypeOK ==
  /\ arrivedAt \in [Messages -> Nat]
  /\ reader \in {"reading", "draining", "closing", "stopping"}
  /\ held \in Messages \cup {None}
  /\ deferred \in Int /\ queuedRoutes \in Int /\ lastQueued \in Nat
  /\ early \in [Ids -> Nat]
  /\ inflight \in [Ids -> Requests \cup {None}]
  /\ cancelled \subseteq Requests
  /\ strand \in [Strands -> Seq(StrandTasks)] /\ draining \subseteq Strands
  /\ interactive \in Seq(RunTasks \cup DrainTasks) /\ background \in Seq(RunTasks)
  /\ worker \in [Workers -> WorkerStates]
  /\ answers \in [Requests -> Seq({"error", "refused", "result", "cancelled"})]
  /\ started \in Seq(Requests) /\ handled \in Seq(Notices)
  /\ clash \subseteq Requests /\ drained \in BOOLEAN

(* The two counters say exactly what waits on the notification strand, so a
   burst wedges neither deferral nor waitIdle. *)
CountersExact ==
  LET waiting == {i \in 1..Len(strand[Notify]) : strand[Notify][i].kind = "route"}
      routing == {w \in Workers : Executing(w, "route") \/ worker[w].at = "routed"}
      big == {i \in waiting : strand[Notify][i].big}
      bigNow == {w \in routing : worker[w].task.big}
  IN /\ queuedRoutes = Cardinality(waiting) + Cardinality(routing)
     /\ deferred = Cardinality(big) + Cardinality(bigNow)

AnsweredOnce == \A r \in Requests : Len(answers[r]) <= 1

(* Two threads are never inside the same strand, so two Serial requests of one
   (lane, repository) pair never overlap. *)
StrandExclusion ==
  \A w1, w2 \in Workers : w1 # w2 /\ worker[w1].strand # None => worker[w1].strand # worker[w2].strand

(* Why: a strand whose draining_ is set has one drain, queued or running; an
   idle one has none. *)
OneDrain ==
  LET queued == {i \in 1..Len(interactive) : interactive[i].kind = "drain"} IN
  /\ \A i, j \in queued : i # j => interactive[i].strand # interactive[j].strand
  /\ \A i \in queued : /\ interactive[i].strand \in draining
                       /\ \A w \in Workers : worker[w].strand # interactive[i].strand
  /\ \A w \in Workers : worker[w].strand # None => worker[w].strand \in draining
  /\ StrandExclusion

(* Serial requests of one lane start in the order they arrived, also when the
   first of them waited for a deferred parse and the second did not. *)
SerialOrder ==
  \A i, j \in 1..Len(started) :
    /\ i < j
    /\ ModeOf[started[i]] = "serial" /\ ModeOf[started[j]] = "serial"
    /\ LaneOf[started[i]] = LaneOf[started[j]]
    => Before(started[i], started[j])

(* Queued notifications are handled in arrival order, and an
   AfterNotifications request starts only once every one that arrived before
   it has been handled: a blame reads the edits sent ahead of it. *)
SeesEarlierNotices ==
  /\ \A i, j \in 1..Len(handled) : i < j => Before(handled[i], handled[j])
  /\ \A r \in Requests, n \in Notices :
       ModeOf[r] = "after" /\ InSeq(r, started) /\ Before(n, r) => InSeq(n, handled)

(* What the client sent first takes effect first, also when it is large enough
   to be parsed on a worker and what follows it is not. *)
OrderKept == SerialOrder /\ SeesEarlierNotices

(* Only an id reused while its request was still unanswered is refused. *)
RefusedOnlyIfReused ==
  \A r \in Requests : InSeq("refused", answers[r]) => r \in clash

(* A request runs only under its own registration. *)
RunsRegistered ==
  \A w \in Workers :
    worker[w].at \in {"running", "result", "cancelled"} \/ Executing(w, "run")
      => inflight[IdOf[Msg(w)]] = Msg(w)

(* "Every request gets exactly one response", never two, whatever ids the
   client reuses: an id is refused only while its request is unanswered, and
   whatever runs is the request its id names. *)
IdsExact == AnsweredOnce /\ RefusedOnlyIfReused /\ RunsRegistered

(* A cancel sent after a request reaches it, also when the request was still
   waiting to be routed: its handler never runs on unaware. *)
CancelReaches ==
  \A w \in Workers, c \in Cancels :
    /\ worker[w].at = "running"
    /\ IdOf[c] = IdOf[Msg(w)] /\ Before(Msg(w), c)
    /\ held # c
    /\ \A i \in 1..Len(strand[Notify]) : strand[Notify][i].msg # c
    /\ \A v \in Workers : worker[v].at = "task" => worker[v].task.msg # c
    /\ clash = {}
    => Msg(w) \in cancelled

(* As long as the server is not closing, only a cancel sent after a request,
   naming its id, cancels it. *)
CancelledOnlyIfAsked ==
  \A r \in cancelled :
    \/ reader \in {"closing", "stopping"}
    \/ \E c \in Cancels : IdOf[c] = IdOf[r] /\ Before(r, c)

(* The counters and the ids are exact, however payloads are deferred and ids
   reused. *)
AccountsExact == CountersExact /\ IdsExact

(* Cancels hit what they name: one sent after a request reaches it wherever it
   waits, and none hits a later request that reuses the id. *)
CancelsExact == CancelReaches /\ CancelledOnlyIfAsked

(* A stop that waited until idle leaves no request unanswered. *)
DrainAnswersAll ==
  Terminated /\ drained => \A r \in Requests : Sent(r) => answers[r] # <<>>

(* A stop gets through, whatever still runs when it begins, once nothing waits
   to be routed and every registered request has been cancelled.  A request
   routed after cancelAll is the exception: its handler is not cancelled, and
   the stop waits for it. *)
StopCompletes ==
  (drained \/ (reader = "closing" /\ queuedRoutes = 0 /\ CancelAll \subseteq cancelled))
    ~> Terminated

(* The contract of the class: the lifecycle implements RequestService. *)
Service == INSTANCE RequestService WITH
  ReqId <- [r \in Requests |-> IdOf[r]],
  Endless <- Blocking,
  pending <- {r \in Requests : Sent(r) /\ answers[r] = <<>>},
  asked <- {r \in Requests : \E c \in Cancels : IdOf[c] = IdOf[r] /\ Before(r, c)},
  reply <- answers,
  serving <- reader = "reading"

(* Every behaviour is one the contract allows, and while the engine serves,
   every request it took is answered. *)
ImplementsService == Service!Spec
===============================================================================
