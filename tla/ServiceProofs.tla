--------------------------- MODULE ServiceProofs ----------------------------
(***************************************************************************)
(* For any number of requests, notices, cancels, strands and threads: the   *)
(* type invariant of Dispatcher, mutual exclusion inside a strand, and the  *)
(* invariant DispatcherInv, from which follow that the counters and the ids *)
(* are exact, that effects keep the order of arrival, and that a stop which *)
(* waited until idle leaves no request unanswered.  With CancelsInv beside  *)
(* it, cancels hit what they name, and each step is one of RequestService.  *)
(*                                                                         *)
(* DispatcherInv says where each message is (Settled): not sent, held by    *)
(* the read loop, waiting on the notification strand, being routed, queued  *)
(* on its strand, in the pool, on a thread, or done with.  A step moves one *)
(* message at most, and the proof has a lemma per structure (strands, pool, *)
(* threads, arrivals, entries) and per step.                                *)
(***************************************************************************)
EXTENDS MCService, FiniteSetTheorems, SequenceTheorems, TLAPS

(* Taking the head off a queue leaves a queue of the same kind, and the head
   belongs to it. *)
LEMMA HeadTailType ==
  ASSUME NEW S, NEW q \in Seq(S), q # <<>>
  PROVE  Head(q) \in S /\ Tail(q) \in Seq(S)
OBVIOUS

LEMMA AppendType ==
  ASSUME NEW S, NEW q \in Seq(S), NEW t \in S
  PROVE  Append(q, t) \in Seq(S)
OBVIOUS

LEMMA ArrivalType == RoutedOnArrival \in Nat
BY ConstantsAssumption, FS_CardinalityType DEF RoutedOnArrival

LEMMA ClockType == Clock \in Nat
<1>1. IsFiniteSet({m \in Messages : arrivedAt[m] > 0})
  BY ConstantsAssumption, FS_Subset
<1>2. QED BY <1>1, FS_CardinalityType DEF Clock

QueueType ==
  /\ strand \in [Strands -> Seq(StrandTasks)] /\ draining \subseteq Strands
  /\ interactive \in Seq(RunTasks \cup DrainTasks) /\ background \in Seq(RunTasks)

RequestType ==
  /\ early \in [Ids -> Nat]
  /\ inflight \in [Ids -> Requests \cup {None}]
  /\ cancelled \subseteq Requests
  /\ answers \in [Requests -> Seq({"error", "refused", "result", "cancelled"})]

LEMMA PostPoolType ==
  ASSUME TypeOK, NEW p, NEW t \in RunTasks, PostPool(p, t)
  PROVE  /\ interactive' \in Seq(RunTasks \cup DrainTasks)
         /\ background' \in Seq(RunTasks)
<1>1. interactive \in Seq(RunTasks \cup DrainTasks) /\ background \in Seq(RunTasks)
  BY DEF TypeOK
<1>2. Append(interactive, t) \in Seq(RunTasks \cup DrainTasks) /\ Append(background, t) \in Seq(RunTasks)
  BY <1>1, AppendType, Zenon
<1>3. QED BY <1>1, <1>2 DEF PostPool

LEMMA PostStrandType ==
  ASSUME TypeOK, NEW s \in Strands, NEW t \in StrandTasks, PostStrand(s, t)
  PROVE  QueueType'
<1>1. DrainTask(s) \in DrainTasks
  BY DEF DrainTask, DrainTasks
<1>2. strand' \in [Strands -> Seq(StrandTasks)] /\ draining' \subseteq Strands
  BY DEF TypeOK, PostStrand
<1>3. interactive' \in Seq(RunTasks \cup DrainTasks) /\ background' \in Seq(RunTasks)
  <2>1. interactive \in Seq(RunTasks \cup DrainTasks) /\ background \in Seq(RunTasks)
    BY DEF TypeOK
  <2>2. Append(interactive, DrainTask(s)) \in Seq(RunTasks \cup DrainTasks)
    BY <1>1, <2>1, AppendType, Zenon
  <2>3. QED BY <2>1, <2>2 DEF PostStrand, PostPool
<1>4. QED BY <1>2, <1>3 DEF QueueType

LEMMA TaskTypes ==
  /\ \A r \in Requests : RunTask(r) \in RunTasks /\ RunTask(r) \in StrandTasks
                         /\ StartTask(r) \in StrandTasks
  /\ \A n \in Notices : NotifyTask(n) \in StrandTasks
  /\ \A m \in Messages, a \in Nat, b \in BOOLEAN : RouteTask(m, a, b) \in StrandTasks
BY DEF RunTask, StartTask, NotifyTask, RouteTask, RunTasks, RouteTasks, StrandTasks

LEMMA PostRequestType ==
  ASSUME TypeOK, NEW r \in Requests, PostRequest(r)
  PROVE  QueueType'
<1>1. LaneOf[r] \in Strands /\ Notify \in Strands
  BY ConstantsAssumption DEF Strands
<1>2. CASE ModeOf[r] = "serial"
  BY <1>1, <1>2, TaskTypes, PostStrandType DEF PostRequest
<1>3. CASE ModeOf[r] = "after"
  BY <1>1, <1>3, TaskTypes, PostStrandType DEF PostRequest
<1>4. CASE ModeOf[r] \notin {"serial", "after"}
  <2>1. PostPool(PriorityOf[r], RunTask(r)) /\ UNCHANGED <<strand, draining>>
    BY <1>4 DEF PostRequest
  <2>2. QED BY <2>1, TaskTypes, PostPoolType DEF QueueType, TypeOK
<1>5. QED BY <1>2, <1>3, <1>4

LEMMA AnswerType ==
  ASSUME TypeOK, NEW r \in Requests, NEW o \in {"error", "refused", "result", "cancelled"},
         Answer(r, o)
  PROVE  answers' \in [Requests -> Seq({"error", "refused", "result", "cancelled"})]
<1>1. answers \in [Requests -> Seq({"error", "refused", "result", "cancelled"})]
  BY DEF TypeOK
<1>2. Append(answers[r], o) \in Seq({"error", "refused", "result", "cancelled"})
  BY <1>1, AppendType, Zenon
<1>3. QED BY <1>1, <1>2 DEF Answer

(* Routing a message keeps the queues and the request tables typed. *)
LEMMA RouteMessageType ==
  ASSUME TypeOK, NEW m \in Messages, NEW a \in Nat, RouteMessage(m, a)
  PROVE  QueueType' /\ RequestType'
<1>1. CASE m \in Requests /\ RunRequest(m, a)
  <2>1. IdOf[m] \in Ids
    BY <1>1, ConstantsAssumption
  <2>2. CASE ModeOf[m] = "unknown" /\ Answer(m, "error")
             /\ UNCHANGED <<early, inflight, cancelled, queueVars>>
    BY <1>1, <2>2, AnswerType DEF TypeOK, QueueType, RequestType, queueVars
  <2>3. CASE Refuse(m)
    BY <1>1, <2>3, AnswerType DEF TypeOK, QueueType, RequestType, queueVars, Refuse
  <2>4. CASE /\ inflight' = [inflight EXCEPT ![IdOf[m]] = m]
             /\ cancelled' = IF EarlyApplies(IdOf[m], a) THEN cancelled \cup {m} ELSE cancelled
             /\ early' = [early EXCEPT ![IdOf[m]] = 0]
             /\ UNCHANGED answers
             /\ PostRequest(m)
    <3>1. QueueType'
      BY <1>1, <2>4, PostRequestType
    <3>2. RequestType'
      BY <1>1, <2>1, <2>4 DEF TypeOK, RequestType
    <3>3. QED BY <3>1, <3>2
  <2>5. QED BY <1>1, <2>2, <2>3, <2>4 DEF RunRequest
<1>2. CASE m \in Cancels /\ CancelRequest(m, a)
  <2>1. IdOf[m] \in Ids
    BY <1>2, ConstantsAssumption
  <2>2. QED BY <1>2, <2>1 DEF CancelRequest, TypeOK, QueueType, RequestType, queueVars
<1>3. CASE m \in Notices /\ PostStrand(Notify, NotifyTask(m)) /\ UNCHANGED requestVars
  <2>1. QueueType'
    BY <1>3, PostStrandType, TaskTypes DEF Strands
  <2>2. QED BY <1>3, <2>1 DEF RequestType, TypeOK, requestVars
<1>4. QED BY <1>1, <1>2, <1>3 DEF RouteMessage

LEMMA QueueRouteType ==
  ASSUME TypeOK, NEW m \in Messages, NEW big \in BOOLEAN, QueueRoute(m, big)
  PROVE  QueueType' /\ queuedRoutes' \in Int /\ lastQueued' \in Nat
<1>1. lastQueued + 1 \in Nat
  BY DEF TypeOK
<1>2. RouteTask(m, lastQueued + 1, big) \in StrandTasks
  BY <1>1, TaskTypes
<1>3. QueueType'
  BY <1>2, PostStrandType DEF QueueRoute, Strands
<1>4. QED BY <1>3 DEF QueueRoute, TypeOK

LEMMA BecomeType ==
  ASSUME TypeOK, NEW w \in Workers, NEW at, NEW s, NEW t,
         [at |-> at, strand |-> s, task |-> t] \in WorkerStates, Become(w, at, s, t)
  PROVE  worker' \in [Workers -> WorkerStates]
BY DEF TypeOK, Become

LEMMA ReturnType ==
  ASSUME TypeOK, NEW w \in Workers, Return(w)
  PROVE  worker' \in [Workers -> WorkerStates]
<1>1. worker[w] \in WorkerStates
  BY DEF TypeOK
<1>2. worker[w].strand \in Strands \cup {None}
  BY <1>1 DEF WorkerStates
<1>3. CASE worker[w].strand = None
  <2>1. [at |-> "idle", strand |-> None, task |-> None] \in WorkerStates
    BY DEF WorkerStates
  <2>2. QED BY <1>3, <2>1, BecomeType DEF Return
<1>4. CASE worker[w].strand # None
  <2>1. [at |-> "drain", strand |-> worker[w].strand, task |-> None] \in WorkerStates
    BY <1>2, <1>4 DEF WorkerStates
  <2>2. QED BY <1>4, <2>1, BecomeType DEF Return
<1>5. QED BY <1>3, <1>4

(* What a thread's state says about its strand and its task. *)
LEMMA WorkerShape ==
  ASSUME TypeOK, NEW w \in Workers
  PROVE  /\ worker[w].strand \in Strands \cup {None}
         /\ worker[w].at = "drain" => worker[w].strand \in Strands
         /\ worker[w].at = "idle" => worker[w].strand = None
         /\ worker[w].at \in {"running", "result", "cancelled", "send result", "send cancelled"}
              => worker[w].task \in RunTasks
         /\ worker[w].at = "routed" => worker[w].strand \in Strands /\ worker[w].task \in RouteTasks
         /\ Executing(w, "route") => worker[w].strand \in Strands /\ worker[w].task \in RouteTasks
         /\ Executing(w, "run") => worker[w].task \in RunTasks
         /\ Executing(w, "start") => worker[w].task.msg \in Requests
         /\ Executing(w, "notify") => worker[w].task.msg \in Notices
<1>1. worker[w] \in WorkerStates
  BY DEF TypeOK
<1>2. QED BY <1>1 DEF WorkerStates, StrandTasks, RunTasks, RouteTasks, Executing

LEMMA TypeInit == Init => TypeOK
<1>1. IdleWorker \in WorkerStates
  BY DEF IdleWorker, WorkerStates
<1>2. \A S : <<>> \in Seq(S)
  OBVIOUS
<1>3. Init => /\ strand \in [Strands -> Seq(StrandTasks)]
              /\ answers \in [Requests -> Seq({"error", "refused", "result", "cancelled"})]
  BY <1>2 DEF Init
<1>4. Init => worker \in [Workers -> WorkerStates]
  BY <1>1 DEF Init
<1>5. Init => /\ interactive \in Seq(RunTasks \cup DrainTasks) /\ background \in Seq(RunTasks)
              /\ started \in Seq(Requests) /\ handled \in Seq(Notices)
  BY <1>2 DEF Init
<1>6. Init => /\ arrivedAt \in [Messages -> Nat] /\ early \in [Ids -> Nat]
              /\ inflight \in [Ids -> Requests \cup {None}]
              /\ deferred \in Int /\ queuedRoutes \in Int /\ lastQueued \in Nat
  BY DEF Init
<1>7. Init => /\ reader \in {"reading", "draining", "closing", "stopping"}
              /\ held \in Messages \cup {None}
              /\ cancelled \subseteq Requests /\ draining \subseteq Strands
              /\ clash \subseteq Requests /\ drained \in BOOLEAN
  BY DEF Init
<1>8. QED BY <1>3, <1>4, <1>5, <1>6, <1>7 DEF TypeOK

LEMMA TakeType ==
  ASSUME TypeOK, NEW m \in Messages, Take(m)
  PROVE  /\ arrivedAt' \in [Messages -> Nat] /\ clash' \subseteq Requests
         /\ reader' = reader /\ worker' = worker /\ UNCHANGED historyVars
BY ClockType DEF Take, TypeOK

LEMMA DispatchType == ASSUME TypeOK, NEW m \in Messages, Dispatch(m) PROVE TypeOK'
<1>1. CASE DispatchDeferred(m)
  <2>1. QueueType' /\ queuedRoutes' \in Int /\ lastQueued' \in Nat
    BY <1>1, QueueRouteType DEF DispatchDeferred
  <2>2. /\ arrivedAt' \in [Messages -> Nat] /\ clash' \subseteq Requests
        /\ reader' = reader /\ worker' = worker /\ UNCHANGED historyVars
    BY <1>1, TakeType DEF DispatchDeferred
  <2>3. deferred' \in Int /\ UNCHANGED <<held, requestVars>>
    BY <1>1 DEF DispatchDeferred, TypeOK
  <2>4. QED BY <2>1, <2>2, <2>3 DEF TypeOK, QueueType, historyVars, requestVars
<1>2. CASE DispatchBehind(m)
  BY <1>2, TakeType DEF DispatchBehind, TypeOK, historyVars, requestVars, routeVars, queueVars
<1>3. CASE DispatchNow(m)
  <2>1. QueueType' /\ RequestType'
    BY <1>3, RouteMessageType, ArrivalType DEF DispatchNow
  <2>2. QED BY <1>3, <2>1, TakeType
            DEF DispatchNow, TypeOK, QueueType, RequestType, historyVars, routeVars
<1>4. QED BY <1>1, <1>2, <1>3 DEF Dispatch

LEMMA RouteHeldType == ASSUME TypeOK, RouteHeld PROVE TypeOK'
<1>1. held \in Messages /\ held' = None
  BY DEF TypeOK, RouteHeld
<1>2. CASE held \in Cancels /\ CancelRequest(held, RoutedOnArrival) /\ UNCHANGED routeVars
  <2>1. RouteMessage(held, RoutedOnArrival)
    BY <1>2 DEF RouteMessage
  <2>2. QueueType' /\ RequestType'
    BY <1>1, <2>1, RouteMessageType, ArrivalType
  <2>3. QED BY <1>1, <1>2, <2>2
            DEF RouteHeld, TypeOK, QueueType, RequestType, historyVars, routeVars
<1>3. CASE QueueRoute(held, FALSE) /\ UNCHANGED <<deferred, requestVars>>
  <2>1. QueueType' /\ queuedRoutes' \in Int /\ lastQueued' \in Nat
    BY <1>1, <1>3, QueueRouteType
  <2>2. QED BY <1>1, <1>3, <2>1
            DEF RouteHeld, TypeOK, QueueType, historyVars, requestVars
<1>4. QED BY <1>2, <1>3 DEF RouteHeld

LEMMA StopType == ASSUME TypeOK, StopReading \/ Stop PROVE TypeOK'
<1> USE DEF routeVars, requestVars, queueVars, historyVars
<1>1. CASE StopReading
  BY <1>1 DEF StopReading, TypeOK
<1>2. CASE DrainIdle
  BY <1>2 DEF DrainIdle, TypeOK
<1>3. CASE DrainTimeout
  <2>1. CancelAll \subseteq Requests
    BY DEF CancelAll, TypeOK
  <2>2. QED BY <1>3, <2>1 DEF DrainTimeout, TypeOK
<1>4. CASE ShutdownPool
  BY <1>4 DEF ShutdownPool, TypeOK
<1>5. QED BY <1>1, <1>2, <1>3, <1>4 DEF Stop

LEMMA WorkerStepType == ASSUME TypeOK, NEW w \in Workers, WorkerStep(w) PROVE TypeOK'
<1> USE DEF readerVars, historyVars, routeVars, requestVars, queueVars
<1>1. CASE TakeTask(w)
  <2>1. CASE interactive # <<>>
    <3>1. Head(interactive) \in RunTasks \cup DrainTasks /\ Tail(interactive) \in Seq(RunTasks \cup DrainTasks)
      BY <2>1, HeadTailType DEF TypeOK
    <3>2. worker' \in [Workers -> WorkerStates]
      <4>1. CASE Head(interactive).kind = "drain"
        <5>1. [at |-> "drain", strand |-> Head(interactive).strand, task |-> None] \in WorkerStates
          BY <3>1, <4>1 DEF WorkerStates, RunTasks, DrainTasks
        <5>2. QED BY <1>1, <2>1, <4>1, <5>1, BecomeType DEF TakeTask
      <4>2. CASE Head(interactive).kind # "drain"
        <5>1. [at |-> "task", strand |-> None, task |-> Head(interactive)] \in WorkerStates
          BY <3>1, <4>2 DEF WorkerStates, RunTasks, DrainTasks
        <5>2. QED BY <1>1, <2>1, <4>2, <5>1, BecomeType DEF TakeTask
      <4>3. QED BY <4>1, <4>2
    <3>3. QED BY <1>1, <2>1, <3>1, <3>2 DEF TakeTask, TypeOK
  <2>2. CASE interactive = <<>>
    <3>1. Head(background) \in RunTasks /\ Tail(background) \in Seq(RunTasks)
      BY <1>1, <2>2, HeadTailType DEF TypeOK, TakeTask
    <3>2. [at |-> "task", strand |-> None, task |-> Head(background)] \in WorkerStates
      BY <3>1 DEF WorkerStates
    <3>3. Become(w, "task", None, Head(background))
      BY <1>1, <2>2, <3>1 DEF TakeTask, RunTasks
    <3>4. worker' \in [Workers -> WorkerStates]
      BY <3>2, <3>3, BecomeType
    <3>5. QED BY <1>1, <2>2, <3>1, <3>4 DEF TakeTask, TypeOK
  <2>3. QED BY <2>1, <2>2
<1>2. CASE Exit(w)
  <2>1. [at |-> "exited", strand |-> None, task |-> None] \in WorkerStates
    BY DEF WorkerStates
  <2>2. QED BY <1>2, <2>1, BecomeType DEF Exit, TypeOK
<1>3. CASE DrainNext(w)
  <2>1. worker[w].strand \in Strands
    BY <1>3, WorkerShape DEF DrainNext
  <2>2. /\ Head(strand[worker[w].strand]) \in StrandTasks
        /\ Tail(strand[worker[w].strand]) \in Seq(StrandTasks)
    BY <1>3, <2>1, HeadTailType DEF DrainNext, TypeOK
  <2>3. [at |-> "task", strand |-> worker[w].strand, task |-> Head(strand[worker[w].strand])] \in WorkerStates
    BY <2>1, <2>2 DEF WorkerStates
  <2>4. QED BY <1>3, <2>1, <2>2, <2>3, BecomeType DEF DrainNext, TypeOK
<1>4. CASE DrainEnd(w)
  <2>1. [at |-> "idle", strand |-> None, task |-> None] \in WorkerStates
    BY DEF WorkerStates
  <2>2. QED BY <1>4, <2>1, BecomeType DEF DrainEnd, IdleStrand, TypeOK
<1>5. CASE RouteQueued(w)
  <2>1. worker[w].strand \in Strands /\ worker[w].task \in RouteTasks
    BY <1>5, WorkerShape DEF RouteQueued
  <2>2. Msg(w) \in Messages /\ worker[w].task.arrival \in Nat
    BY <2>1 DEF RouteTasks, Msg
  <2>3. QueueType' /\ RequestType'
    BY <1>5, <2>2, RouteMessageType DEF RouteQueued
  <2>4. [at |-> "routed", strand |-> worker[w].strand, task |-> worker[w].task] \in WorkerStates
    BY <2>1 DEF WorkerStates
  <2>5. QED BY <1>5, <2>3, <2>4, BecomeType DEF RouteQueued, TypeOK, QueueType, RequestType
<1>6. CASE FinishQueuedRoute(w)
  <2>1. deferred' \in Int /\ queuedRoutes' \in Int /\ early' \in [Ids -> Nat]
    BY <1>6 DEF FinishQueuedRoute, Released, TypeOK
  <2>2. QED BY <1>6, <2>1, ReturnType DEF FinishQueuedRoute, TypeOK
<1>7. CASE HandleNotice(w)
  <2>1. Msg(w) \in Notices /\ handled \in Seq(Notices)
    BY <1>7, WorkerShape DEF HandleNotice, Msg, TypeOK
  <2>2. handled' \in Seq(Notices)
    BY <1>7, <2>1, AppendType DEF HandleNotice
  <2>3. QED BY <1>7, <2>2, ReturnType DEF HandleNotice, TypeOK
<1>8. CASE StartAfterNotifications(w)
  <2>1. RunTask(Msg(w)) \in RunTasks
    BY <1>8, WorkerShape, TaskTypes DEF StartAfterNotifications, Msg
  <2>2. /\ interactive' \in Seq(RunTasks \cup DrainTasks)
        /\ background' \in Seq(RunTasks)
    BY <1>8, <2>1, PostPoolType DEF StartAfterNotifications
  <2>3. QED BY <1>8, <2>2, ReturnType DEF StartAfterNotifications, TypeOK
<1>9. CASE StartHandler(w)
  <2>1. worker[w].task \in RunTasks /\ worker[w].strand \in Strands \cup {None}
    BY <1>9, WorkerShape DEF StartHandler
  <2>2. Msg(w) \in Requests /\ started \in Seq(Requests)
    BY <2>1 DEF RunTasks, Msg, TypeOK
  <2>3. started' \in Seq(Requests)
    BY <1>9, <2>2, AppendType DEF StartHandler
  <2>4. [at |-> "running", strand |-> worker[w].strand, task |-> worker[w].task] \in WorkerStates
    BY <2>1 DEF WorkerStates
  <2>5. QED BY <1>9, <2>3, <2>4, BecomeType DEF StartHandler, TypeOK
<1>10. CASE HandlerReturns(w)
  <2>1. worker[w].task \in RunTasks /\ worker[w].strand \in Strands \cup {None}
    BY <1>10, WorkerShape DEF HandlerReturns
  <2>2. \A at \in {"result", "cancelled"} :
          [at |-> at, strand |-> worker[w].strand, task |-> worker[w].task] \in WorkerStates
    BY <2>1 DEF WorkerStates
  <2>3. QED BY <1>10, <2>2, BecomeType DEF HandlerReturns, TypeOK
<1>11. CASE EraseEntry(w)
  <2>1. worker[w].task \in RunTasks /\ worker[w].strand \in Strands \cup {None}
    BY <1>11, WorkerShape DEF EraseEntry
  <2>2. \A at \in {"send result", "send cancelled"} :
          [at |-> at, strand |-> worker[w].strand, task |-> worker[w].task] \in WorkerStates
    BY <2>1 DEF WorkerStates
  <2>3. worker' \in [Workers -> WorkerStates]
    BY <1>11, <2>2, BecomeType DEF EraseEntry
  <2>4. inflight' \in [Ids -> Requests \cup {None}]
    BY <1>11 DEF EraseEntry, Erased, TypeOK
  <2>5. QED BY <1>11, <2>3, <2>4 DEF EraseEntry, TypeOK
<1>12. CASE SendAnswer(w)
  <2>1. Msg(w) \in Requests
    BY <1>12, WorkerShape DEF SendAnswer, RunTasks, Msg
  <2>2. answers' \in [Requests -> Seq({"error", "refused", "result", "cancelled"})]
    BY <1>12, <2>1, AnswerType DEF SendAnswer
  <2>3. QED BY <1>12, <2>2, ReturnType DEF SendAnswer, TypeOK
<1>13. QED BY <1>1, <1>2, <1>3, <1>4, <1>5, <1>6, <1>7, <1>8, <1>9, <1>10, <1>11, <1>12
           DEF WorkerStep

LEMMA TypeStutter == ASSUME TypeOK, UNCHANGED vars PROVE TypeOK'
BY DEF vars, TypeOK, routeVars, requestVars, queueVars, historyVars

LEMMA TypeStep == TypeOK /\ [Next]_vars => TypeOK'
BY DispatchType, RouteHeldType, StopType, WorkerStepType, TypeStutter DEF Next, Done

(* Every variable of the request lifecycle keeps its type, and every thread is
   in one of its states, whatever the client sends. *)
THEOREM TypeCorrect == Spec => []TypeOK
BY TypeInit, TypeStep, PTL DEF Spec

-----------------------------------------------------------------------------
(* Mutual exclusion inside a strand.  OneDrain is inductive: a drain is posted
   only for a strand that has none, and a strand goes idle only with its own. *)

(* Nothing is posted, and every thread stays in its strand. *)
LEMMA FrameOneDrain ==
  ASSUME TypeOK, OneDrain, UNCHANGED <<interactive, draining>>,
         \A v \in Workers : worker'[v].strand = worker[v].strand
  PROVE  OneDrain'
BY DEF OneDrain, StrandExclusion

(* A request's task in a pool lane is no drain. *)
LEMMA PostPoolOneDrain ==
  ASSUME TypeOK, OneDrain, NEW p, NEW t \in RunTasks, PostPool(p, t), UNCHANGED draining,
         \A v \in Workers : worker'[v].strand = worker[v].strand
  PROVE  OneDrain'
<1>1. CASE interactive' = interactive
  BY <1>1, FrameOneDrain
<1>2. CASE interactive' = Append(interactive, t)
  <2>1. /\ Len(interactive') = Len(interactive) + 1
        /\ \A i \in 1..Len(interactive) : interactive'[i] = interactive[i]
        /\ interactive'[Len(interactive')].kind # "drain"
    BY <1>2 DEF TypeOK, RunTasks
  <2>2. Len(interactive) \in Nat
    BY DEF TypeOK
  <2>3. \A i \in 1..Len(interactive') : interactive'[i].kind = "drain" =>
          i \in 1..Len(interactive) /\ interactive'[i] = interactive[i]
    BY <2>1, <2>2
  <2>4. QED BY <2>3 DEF OneDrain, StrandExclusion
<1>3. QED BY <1>1, <1>2 DEF PostPool

LEMMA PostStrandOneDrain ==
  ASSUME TypeOK, OneDrain, NEW s \in Strands, NEW t, PostStrand(s, t),
         \A v \in Workers : worker'[v].strand = worker[v].strand
  PROVE  OneDrain'
<1>1. draining' = draining \cup {s}
  BY DEF PostStrand
<1>2. CASE interactive' = interactive
  BY <1>1, <1>2 DEF OneDrain, StrandExclusion
<1>3. CASE s \notin draining /\ interactive' = Append(interactive, DrainTask(s))
  <2>1. /\ Len(interactive') = Len(interactive) + 1
        /\ \A i \in 1..Len(interactive) : interactive'[i] = interactive[i]
        /\ interactive'[Len(interactive')].strand = s
    BY <1>3 DEF TypeOK, DrainTask
  <2>2. Len(interactive) \in Nat
    BY DEF TypeOK
  <2>3. \A i \in 1..Len(interactive') :
          \/ i \in 1..Len(interactive) /\ interactive'[i] = interactive[i]
          \/ i = Len(interactive) + 1 /\ interactive'[i].strand = s
    BY <2>1, <2>2
  <2>4. \A w \in Workers : worker[w].strand # s
    BY <1>3, ConstantsAssumption DEF OneDrain, Strands
  <2>5. QED BY <1>1, <1>3, <2>3, <2>4 DEF OneDrain, StrandExclusion
<1>4. QED BY <1>2, <1>3 DEF PostStrand, PostPool

LEMMA RouteMessageOneDrain ==
  ASSUME TypeOK, OneDrain, NEW m \in Messages, NEW a, RouteMessage(m, a),
         \A v \in Workers : worker'[v].strand = worker[v].strand
  PROVE  OneDrain'
<1>1. CASE UNCHANGED queueVars
  BY <1>1, FrameOneDrain DEF queueVars
<1>2. CASE m \in Requests /\ PostRequest(m)
  <2>1. LaneOf[m] \in Strands /\ Notify \in Strands /\ RunTask(m) \in RunTasks
    BY <1>2, ConstantsAssumption, TaskTypes DEF Strands
  <2>2. CASE ModeOf[m] = "serial"
    BY <1>2, <2>1, <2>2, PostStrandOneDrain DEF PostRequest
  <2>3. CASE ModeOf[m] = "after"
    BY <1>2, <2>1, <2>3, PostStrandOneDrain DEF PostRequest
  <2>4. CASE ModeOf[m] \notin {"serial", "after"}
    <3>1. PostPool(PriorityOf[m], RunTask(m)) /\ UNCHANGED draining
      BY <1>2, <2>4 DEF PostRequest
    <3>2. QED BY <2>1, <3>1, PostPoolOneDrain
  <2>5. QED BY <2>2, <2>3, <2>4
<1>3. CASE PostStrand(Notify, NotifyTask(m))
  BY <1>3, PostStrandOneDrain DEF Strands
<1>4. QED BY <1>1, <1>2, <1>3 DEF RouteMessage, RunRequest, Refuse, CancelRequest

LEMMA WorkerStepOneDrain ==
  ASSUME TypeOK, OneDrain, NEW w \in Workers, WorkerStep(w)
  PROVE  OneDrain'
<1> USE DEF readerVars, historyVars, routeVars, requestVars, queueVars
<1>a. \A at, t : Become(w, at, worker[w].strand, t) =>
        \A v \in Workers : worker'[v].strand = worker[v].strand
  <2>1. worker \in [Workers -> WorkerStates]
    BY DEF TypeOK
  <2>2. QED BY <2>1 DEF Become
<1>b. Return(w) => \A v \in Workers : worker'[v].strand = worker[v].strand
  BY <1>a DEF Return
<1>1. CASE TakeTask(w)
  <2>1. CASE interactive # <<>>
    <3>1. /\ interactive' = Tail(interactive) /\ Len(interactive) \in Nat \ {0}
          /\ UNCHANGED draining
      BY <1>1, <2>1 DEF TakeTask, TypeOK
    <3>2. /\ Len(interactive') = Len(interactive) - 1
          /\ \A i \in 1..Len(interactive') : interactive'[i] = interactive[i + 1]
      BY <3>1 DEF TypeOK
    <3>3. Head(interactive) = interactive[1]
      BY <2>1 DEF TypeOK
    <3>4. CASE interactive[1].kind = "drain"
      <4>1. Become(w, "drain", interactive[1].strand, None)
        BY <1>1, <2>1, <3>3, <3>4 DEF TakeTask
      <4>2. /\ worker'[w].strand = interactive[1].strand
            /\ \A v \in Workers \ {w} : worker'[v] = worker[v]
        BY <4>1 DEF Become, TypeOK
      <4>3. \A i \in 1..Len(interactive') : i + 1 \in 1..Len(interactive) /\ i + 1 # 1
        BY <3>1, <3>2
      <4>4. 1 \in 1..Len(interactive)
        BY <3>1
      <4>5. QED BY <3>1, <3>2, <3>4, <4>2, <4>3, <4>4 DEF OneDrain, StrandExclusion
    <3>5. CASE interactive[1].kind # "drain"
      <4>1. Become(w, "task", None, interactive[1])
        BY <1>1, <2>1, <3>3, <3>5 DEF TakeTask
      <4>2. \A v \in Workers : worker'[v].strand = worker[v].strand
        BY <1>1, <1>a, <4>1, WorkerShape DEF TakeTask
      <4>3. \A i \in 1..Len(interactive') : i + 1 \in 1..Len(interactive)
        BY <3>1, <3>2
      <4>4. QED BY <3>1, <3>2, <4>2, <4>3 DEF OneDrain, StrandExclusion
    <3>6. QED BY <3>4, <3>5
  <2>2. CASE interactive = <<>>
    <3>1. Head(background) \in RunTasks
      BY <1>1, <2>2, HeadTailType DEF TypeOK, TakeTask
    <3>2. Become(w, "task", None, Head(background)) /\ UNCHANGED <<interactive, draining>>
      BY <1>1, <2>2, <3>1 DEF TakeTask, RunTasks
    <3>3. \A v \in Workers : worker'[v].strand = worker[v].strand
      BY <1>1, <1>a, <3>2, WorkerShape DEF TakeTask
    <3>4. QED BY <3>2, <3>3, FrameOneDrain
  <2>3. QED BY <2>1, <2>2
<1>2. CASE Exit(w)
  <2>1. \A v \in Workers : worker'[v].strand = worker[v].strand
    BY <1>2, <1>a, WorkerShape DEF Exit
  <2>2. QED BY <1>2, <2>1, FrameOneDrain DEF Exit
<1>3. CASE DrainNext(w)
  BY <1>3, <1>a, FrameOneDrain DEF DrainNext
<1>4. CASE DrainEnd(w)
  <2>1. /\ worker'[w].strand = None /\ \A v \in Workers \ {w} : worker'[v] = worker[v]
        /\ draining' = draining \ {worker[w].strand} /\ UNCHANGED interactive
    BY <1>4 DEF DrainEnd, IdleStrand, Become, TypeOK
  <2>2. worker[w].strand # None
    BY <1>4, WorkerShape, ConstantsAssumption DEF DrainEnd
  <2>3. \A i \in 1..Len(interactive) : interactive[i].kind = "drain" => interactive[i].strand # None
    <3>1. \A i \in 1..Len(interactive) : interactive[i] \in RunTasks \cup DrainTasks
      BY DEF TypeOK
    <3>2. None \notin Strands
      BY ConstantsAssumption
    <3>3. QED BY <3>1, <3>2 DEF RunTasks, DrainTasks
  <2>4. QED BY <2>1, <2>2, <2>3 DEF OneDrain, StrandExclusion
<1>5. CASE RouteQueued(w)
  <2>1. Msg(w) \in Messages
    BY <1>5, WorkerShape DEF RouteQueued, RouteTasks, Msg
  <2>2. QED BY <1>5, <1>a, <2>1, RouteMessageOneDrain DEF RouteQueued
<1>6. CASE FinishQueuedRoute(w)
  BY <1>6, <1>b, FrameOneDrain DEF FinishQueuedRoute
<1>7. CASE HandleNotice(w)
  BY <1>7, <1>b, FrameOneDrain DEF HandleNotice
<1>8. CASE StartAfterNotifications(w)
  <2>1. RunTask(Msg(w)) \in RunTasks
    BY <1>8, WorkerShape, TaskTypes DEF StartAfterNotifications, Msg
  <2>2. QED BY <1>8, <1>b, <2>1, PostPoolOneDrain DEF StartAfterNotifications
<1>9. CASE StartHandler(w)
  BY <1>9, <1>a, FrameOneDrain DEF StartHandler
<1>10. CASE HandlerReturns(w)
  BY <1>10, <1>a, FrameOneDrain DEF HandlerReturns
<1>11. CASE EraseEntry(w)
  BY <1>11, <1>a, FrameOneDrain DEF EraseEntry
<1>12. CASE SendAnswer(w)
  BY <1>12, <1>b, FrameOneDrain DEF SendAnswer
<1>13. QED BY <1>1, <1>2, <1>3, <1>4, <1>5, <1>6, <1>7, <1>8, <1>9, <1>10, <1>11, <1>12
           DEF WorkerStep

LEMMA ReadLoopOneDrain ==
  ASSUME TypeOK, OneDrain, (\E m \in Messages : Dispatch(m)) \/ RouteHeld \/ StopReading \/ Stop
  PROVE  OneDrain'
<1> USE DEF readerVars, historyVars, routeVars, requestVars, queueVars
<1>1. UNCHANGED worker
  BY DEF Dispatch, DispatchDeferred, DispatchBehind, DispatchNow, Take, RouteHeld, StopReading,
         Stop, DrainIdle, DrainTimeout, ShutdownPool
<1>2. \A v \in Workers : worker'[v].strand = worker[v].strand
  BY <1>1
<1>3. CASE UNCHANGED queueVars
  BY <1>1, <1>3, FrameOneDrain
<1>4. CASE \E m \in Messages, big \in BOOLEAN : QueueRoute(m, big)
  BY <1>2, <1>4, PostStrandOneDrain DEF QueueRoute, Strands
<1>5. CASE \E m \in Messages : RouteMessage(m, RoutedOnArrival)
  BY <1>2, <1>5, RouteMessageOneDrain
<1>6. QED BY <1>3, <1>4, <1>5
          DEF Dispatch, DispatchDeferred, DispatchBehind, DispatchNow, RouteHeld, CancelRequest,
              StopReading, Stop, DrainIdle, DrainTimeout, ShutdownPool, TypeOK

LEMMA OneDrainInit == Init => OneDrain
BY DEF Init, OneDrain, StrandExclusion, IdleWorker

LEMMA OneDrainStep == TypeOK /\ OneDrain /\ [Next]_vars => OneDrain'
<1>1. ASSUME TypeOK, OneDrain, UNCHANGED vars PROVE OneDrain'
  BY <1>1, FrameOneDrain DEF vars, queueVars
<1>2. QED BY <1>1, ReadLoopOneDrain, WorkerStepOneDrain DEF Next, Done

(* A strand has at most one drain, queued or running, for any number of
   strands, threads and requests. *)
THEOREM OneDrainAlways == Spec => []OneDrain
BY TypeCorrect, OneDrainInit, OneDrainStep, PTL DEF Spec

(* Two Serial requests of one (lane, repository) pair never overlap. *)
THEOREM StrandMutualExclusion == Spec => []StrandExclusion
<1>1. OneDrain => StrandExclusion
  BY DEF OneDrain
<1>2. QED BY <1>1, OneDrainAlways, PTL

-----------------------------------------------------------------------------
(* Where a message is.  A step moves at most one message, from one place to the
   next, so what is said below of a place is disturbed only by the messages that
   enter and leave it. *)
Unrouted == {"held", "waiting", "routing"}
Routed == {"queued", "opened", "pooled", "called", "sending", "done", "lost"}
Places == {"unsent"} \cup Unrouted \cup Routed
Registered == {"queued", "opened", "pooled", "called", "lost"}

Placed == [Messages -> Places]

(* What becomes of each kind of message, and the strand and the task of one that has
   been routed. *)
Serial(m) == m \in Requests /\ ModeOf[m] = "serial"
Home(m) == IF Serial(m) THEN LaneOf[m] ELSE Notify
TaskOf(m) == IF m \in Notices THEN NotifyTask(m) ELSE IF Serial(m) THEN RunTask(m) ELSE StartTask(m)

Course(at) ==
  /\ \A c \in Cancels : at[c] \in {"unsent", "done"} \cup Unrouted
  /\ \A n \in Notices : at[n] \in {"unsent", "queued", "opened", "done"} \cup Unrouted
  /\ \A r \in Requests : /\ at[r] = "queued" => ModeOf[r] \in {"serial", "after"}
                         /\ at[r] = "opened" => ModeOf[r] = "after"

(* Arrivals are numbered; the read loop holds what it took last. *)
Stamped(at) ==
  /\ \A m \in Messages : arrivedAt[m] <= Clock /\ (at[m] = "unsent" <=> arrivedAt[m] = 0)
  /\ \A m, n \in Messages : m # n /\ arrivedAt[m] = arrivedAt[n] => at[m] = "unsent"
  /\ \A m \in Messages : at[m] = "held" <=> held = m
  /\ \A m, n \in Messages : at[m] = "held" /\ m # n => arrivedAt[n] < arrivedAt[m]

Route(t) == t.kind = "route"

(* On the strands: payloads that wait to be routed, and tasks, each in the order of
   arrival. *)
OnStrands(at) ==
  /\ \A s \in Strands : \A i \in 1 .. Len(strand[s]) :
       LET t == strand[s][i] IN
       IF Route(t) THEN s = Notify /\ at[t.msg] = "waiting"
       ELSE s = Home(t.msg) /\ t = TaskOf(t.msg) /\ at[t.msg] = "queued"
  /\ \A m \in Messages :
       /\ at[m] = "waiting" => \E i \in 1 .. Len(strand[Notify]) : strand[Notify][i].msg = m
       /\ at[m] = "queued" => \E i \in 1 .. Len(strand[Home(m)]) : strand[Home(m)][i].msg = m
  /\ \A s \in Strands : \A i, j \in 1 .. Len(strand[s]) :
       i < j /\ (Route(strand[s][i]) <=> Route(strand[s][j]))
         => arrivedAt[strand[s][i].msg] < arrivedAt[strand[s][j].msg]

(* In the pool: drains, and requests once each. *)
InLane(at, q, p) ==
  /\ \A i \in 1 .. Len(q) : q[i].kind = "run" =>
       at[q[i].msg] = "pooled" /\ ~Serial(q[i].msg) /\ PriorityOf[q[i].msg] = p
  /\ \A i, j \in 1 .. Len(q) : q[i].kind = "run" /\ q[i] = q[j] => i = j

InPool(at) == InLane(at, interactive, "interactive") /\ InLane(at, background, "background")

(* On the threads: each message on one. *)
Busy(w) == worker[w].at \notin {"idle", "exited", "drain", "routed"}
Sending(w) == worker[w].at \in {"send result", "send cancelled"}

PlaceOn(w) ==
  IF Sending(w) THEN "sending"
  ELSE IF Route(worker[w].task) THEN "routing"
  ELSE IF worker[w].task.kind = "run" THEN "called" ELSE "opened"

StrandOf(w) ==
  IF worker[w].task.kind = "run" /\ ~Serial(Msg(w)) THEN None
  ELSE IF Route(worker[w].task) THEN Notify ELSE Home(Msg(w))

OnThreads(at) ==
  /\ \A w \in Workers :
       /\ Busy(w) => at[Msg(w)] = PlaceOn(w) /\ worker[w].strand = StrandOf(w)
       /\ worker[w].at = "routed" => worker[w].strand = Notify
  /\ \A v, w \in Workers : Busy(v) /\ Busy(w) /\ Msg(v) = Msg(w) => v = w
  /\ \A m \in Messages : at[m] \in {"routing", "opened", "sending"} =>
       \E w \in Workers : Busy(w) /\ Msg(w) = m

(* Payloads are routed in the order of their arrival, but for cancels. *)
InTurn(at) ==
  \A m \in Messages \ Cancels, n \in Messages :
    at[m] \in Routed /\ at[n] \in Unrouted => arrivedAt[m] < arrivedAt[n]

(* What a thread has taken off a strand arrived before what is left there. *)
Ahead ==
  \A w \in Workers : worker[w].at = "task" /\ worker[w].strand # None =>
    \A i \in 1 .. Len(strand[worker[w].strand]) :
      (Route(worker[w].task) <=> Route(strand[worker[w].strand][i]))
        => arrivedAt[Msg(w)] < arrivedAt[strand[worker[w].strand][i].msg]

(* A request has its entry from the moment it is routed until it is answered. *)
Entered(at) ==
  /\ \A r \in Requests :
       /\ at[r] \in Registered <=> inflight[IdOf[r]] = r
       /\ at[r] = "done" <=> answers[r] # <<>>
       /\ Len(answers[r]) <= 1
  /\ \A i \in Ids : inflight[i] # None => IdOf[inflight[i]] = i

(* Whoever meets its id in use has been seen to reuse it. *)
Reused ==
  /\ \A q, r \in Requests :
       IdOf[q] = IdOf[r] /\ Before(q, r) /\ answers[q] = <<>> => r \in clash
  /\ RefusedOnlyIfReused

Located(at) ==
  /\ at \in Placed /\ Course(at) /\ Stamped(at) /\ OnStrands(at) /\ InPool(at) /\ OnThreads(at)
  /\ InTurn(at) /\ Ahead /\ Entered(at)

(* The notices handled so far are all that are done, and come before those still on their way. *)
HandledSoFar(at) ==
  /\ \A n \in Notices : at[n] = "done" <=> InSeq(n, handled)
  /\ \A i, j \in 1 .. Len(handled) : i < j => Before(handled[i], handled[j])
  /\ \A n, o \in Notices :
       InSeq(n, handled) /\ at[o] \in {"queued", "opened"} => arrivedAt[n] < arrivedAt[o]

(* The handlers started so far come before those their lanes have yet to start. *)
AboutToRun(r) == \E w \in Workers : Executing(w, "run") /\ Msg(w) = r

StartedSoFar(at) ==
  /\ \A r \in Requests : InSeq(r, started) => at[r] \in {"called", "sending", "done"}
  /\ SerialOrder
  /\ \A q, r \in Requests :
       /\ InSeq(q, started) /\ Serial(q) /\ Serial(r) /\ LaneOf[q] = LaneOf[r]
       /\ at[r] = "queued" \/ AboutToRun(r)
       => arrivedAt[q] < arrivedAt[r]

(* Past the notification strand, every earlier notice has been handled. *)
AfterEdits(at) ==
  \A r \in Requests, n \in Notices :
    /\ ModeOf[r] = "after" /\ (at[r] \in {"pooled", "called", "sending"} \/ InSeq(r, started))
    /\ Before(n, r)
    => InSeq(n, handled)

Orders(at) == HandledSoFar(at) /\ StartedSoFar(at) /\ AfterEdits(at)

(* What waitIdle saw stays so: nothing is left to route or to run. *)
HeldReads == held # None => reader = "reading"

DrainedOut(at) ==
  drained => /\ reader = "stopping"
             /\ \A m \in Messages : at[m] \notin Unrouted
             /\ \A r \in Requests : at[r] \in {"unsent", "sending", "done"}

Settled(at) == Located(at) /\ Orders(at) /\ DrainedOut(at)

-----------------------------------------------------------------------------
(* Moving a message from place to place. *)
Moved(at, m, p) == [at EXCEPT ![m] = p]
Steady(m) == \A n \in Messages \ {m} : arrivedAt'[n] = arrivedAt[n]

LEMMA MovedTo ==
  ASSUME NEW at \in Placed, NEW m \in Messages, NEW p \in Places
  PROVE  /\ Moved(at, m, p) \in Placed /\ Moved(at, m, p)[m] = p
         /\ \A n \in Messages \ {m} : Moved(at, m, p)[n] = at[n]
  BY DEF Moved, Placed

LEMMA AppendAt ==
  ASSUME NEW S, NEW q \in Seq(S), NEW t \in S
  PROVE  /\ Len(q) \in Nat /\ Len(Append(q, t)) = Len(q) + 1
         /\ \A i \in 1 .. Len(q) : Append(q, t)[i] = q[i] /\ i \in 1 .. Len(q) + 1 /\ i # Len(q) + 1
         /\ Append(q, t)[Len(q) + 1] = t
         /\ \A i \in 1 .. Len(q) + 1 : i \in 1 .. Len(q) \/ i = Len(q) + 1
         /\ Len(q) + 1 \in 1 .. Len(q) + 1
  OBVIOUS

LEMMA TailAt ==
  ASSUME NEW S, NEW q \in Seq(S), q # <<>>
  PROVE  /\ Len(q) \in Nat \ {0} /\ Len(Tail(q)) = Len(q) - 1 /\ Head(q) = q[1] /\ 1 \in 1 .. Len(q)
         /\ \A i \in 1 .. Len(q) - 1 : Tail(q)[i] = q[i + 1] /\ i + 1 \in 1 .. Len(q) /\ i + 1 # 1
         /\ \A i \in 1 .. Len(q) : i # 1 => i - 1 \in 1 .. Len(q) - 1 /\ Tail(q)[i - 1] = q[i]
  OBVIOUS

(* What the tasks of the strands are about. *)
LEMMA StrandShape ==
  ASSUME TypeOK
  PROVE  \A s \in Strands : /\ strand[s] \in Seq(StrandTasks)
                            /\ \A i \in 1 .. Len(strand[s]) :
                                 strand[s][i] \in StrandTasks /\ strand[s][i].msg \in Messages
<1>1. \A t \in StrandTasks : t.msg \in Messages
  BY DEF StrandTasks, RunTasks, RouteTasks, Messages
<1>2. \A s \in Strands : strand[s] \in Seq(StrandTasks)
  BY DEF TypeOK
<1> QED
  BY <1>1, <1>2

LEMMA HomeIsStrand == Notify \in Strands /\ \A m \in Messages : Home(m) \in Strands
  BY ConstantsAssumption DEF Home, Serial, Strands

(* On the strands. *)
LEMMA StrandsFrame ==
  ASSUME TypeOK, NEW at \in Placed, OnStrands(at), UNCHANGED strand,
         NEW m \in Messages, NEW p \in Places, Steady(m),
         at[m] \notin {"waiting", "queued"}, p \notin {"waiting", "queued"}
  PROVE  OnStrands(Moved(at, m, p))'
<1> DEFINE to == Moved(at, m, p)
<1>1. to[m] = p /\ \A n \in Messages \ {m} : to[n] = at[n]
  BY MovedTo
<1>2. \A s \in Strands : \A i \in 1 .. Len(strand[s]) :
        strand[s][i].msg \in Messages /\ strand[s][i].msg # m
  BY StrandShape DEF OnStrands
<1>3. \A s \in Strands : \A i \in 1 .. Len(strand[s]) :
        to[strand[s][i].msg] = at[strand[s][i].msg]
        /\ arrivedAt'[strand[s][i].msg] = arrivedAt[strand[s][i].msg]
  BY <1>1, <1>2 DEF Steady
<1> HIDE DEF to
<1>4. OnStrands(to)'
  BY <1>1, <1>3 DEF OnStrands
<1> QED
  BY <1>4 DEF to

LEMMA StrandsAppend ==
  ASSUME TypeOK, NEW at \in Placed, OnStrands(at), NEW s \in Strands, NEW t \in StrandTasks,
         strand' = [strand EXCEPT ![s] = Append(@, t)],
         NEW m \in Messages, NEW p \in Places, Steady(m), t.msg = m,
         at[m] \notin {"waiting", "queued"},
         \/ Route(t) /\ s = Notify /\ p = "waiting"
         \/ ~Route(t) /\ s = Home(m) /\ t = TaskOf(m) /\ p = "queued",
         \A i \in 1 .. Len(strand[s]) :
           (Route(t) <=> Route(strand[s][i])) => arrivedAt[strand[s][i].msg] < arrivedAt'[m]
  PROVE  OnStrands(Moved(at, m, p))'
<1> DEFINE to == Moved(at, m, p)
           k == Len(strand[s])
<1>1. to[m] = p /\ \A n \in Messages \ {m} : to[n] = at[n]
  BY MovedTo
<1>2. \A x \in Strands : \A i \in 1 .. Len(strand[x]) :
        strand[x][i].msg \in Messages /\ strand[x][i].msg # m
  BY StrandShape DEF OnStrands
<1>3. \A x \in Strands : \A i \in 1 .. Len(strand[x]) :
        to[strand[x][i].msg] = at[strand[x][i].msg]
        /\ arrivedAt'[strand[x][i].msg] = arrivedAt[strand[x][i].msg]
  BY <1>1, <1>2 DEF Steady
<1>4. \A x \in Strands \ {s} : strand'[x] = strand[x]
  BY DEF TypeOK
<1>5. strand'[s] = Append(strand[s], t) /\ strand[s] \in Seq(StrandTasks)
  BY DEF TypeOK
<1>6. /\ k \in Nat /\ Len(strand'[s]) = k + 1 /\ strand'[s][k + 1] = t /\ k + 1 \in 1 .. k + 1
      /\ \A i \in 1 .. k : strand'[s][i] = strand[s][i] /\ i \in 1 .. k + 1 /\ i # k + 1
      /\ \A i \in 1 .. k + 1 : i \in 1 .. k \/ i = k + 1
  BY <1>5, AppendAt
<1> HIDE DEF to
<1>7. \A x \in Strands : \A i \in 1 .. Len(strand'[x]) :
        LET u == strand'[x][i] IN
        IF Route(u) THEN x = Notify /\ to[u.msg] = "waiting"
        ELSE x = Home(u.msg) /\ u = TaskOf(u.msg) /\ to[u.msg] = "queued"
  <2>1. ASSUME NEW x \in Strands \ {s}, NEW i \in 1 .. Len(strand'[x])
        PROVE  LET u == strand'[x][i] IN
               IF Route(u) THEN x = Notify /\ to[u.msg] = "waiting"
               ELSE x = Home(u.msg) /\ u = TaskOf(u.msg) /\ to[u.msg] = "queued"
    BY <1>3, <1>4, <2>1 DEF OnStrands
  <2>2. ASSUME NEW i \in 1 .. k
        PROVE  LET u == strand'[s][i] IN
               IF Route(u) THEN s = Notify /\ to[u.msg] = "waiting"
               ELSE s = Home(u.msg) /\ u = TaskOf(u.msg) /\ to[u.msg] = "queued"
    BY <1>3, <1>6, <2>2 DEF OnStrands
  <2>3. LET u == strand'[s][k + 1] IN
        IF Route(u) THEN s = Notify /\ to[u.msg] = "waiting"
        ELSE s = Home(u.msg) /\ u = TaskOf(u.msg) /\ to[u.msg] = "queued"
    BY <1>1, <1>6
  <2> QED
    BY <1>6, <2>1, <2>2, <2>3
<1>8. ASSUME NEW n \in Messages
      PROVE  /\ to[n] = "waiting" => \E i \in 1 .. Len(strand'[Notify]) : strand'[Notify][i].msg = n
             /\ to[n] = "queued" => \E i \in 1 .. Len(strand'[Home(n)]) : strand'[Home(n)][i].msg = n
  <2>1. CASE n = m
    <3>1. k + 1 \in 1 .. Len(strand'[s]) /\ strand'[s][k + 1].msg = m
      BY <1>6
    <3> QED
      BY <1>1, <2>1, <3>1
  <2>2. CASE n # m
    <3>1. \A x \in Strands : (\E i \in 1 .. Len(strand[x]) : strand[x][i].msg = n)
                              => \E i \in 1 .. Len(strand'[x]) : strand'[x][i].msg = n
      <4>1. ASSUME NEW x \in Strands, NEW i \in 1 .. Len(strand[x])
            PROVE  i \in 1 .. Len(strand'[x]) /\ strand'[x][i] = strand[x][i]
        BY <1>4, <1>6
      <4> QED
        BY <4>1
    <3> QED
      BY <1>1, <2>2, <3>1, HomeIsStrand DEF OnStrands
  <2> QED
    BY <2>1, <2>2
<1>9. ASSUME NEW x \in Strands, NEW i \in 1 .. Len(strand'[x]), NEW j \in 1 .. Len(strand'[x]),
             i < j, Route(strand'[x][i]) <=> Route(strand'[x][j])
      PROVE  arrivedAt'[strand'[x][i].msg] < arrivedAt'[strand'[x][j].msg]
  <2>1. CASE x # s
    BY <1>3, <1>4, <1>9, <2>1 DEF OnStrands
  <2>2. CASE x = s /\ j \in 1 .. k
    <3>1. i \in 1 .. k
      BY <1>6, <1>9, <2>2
    <3> QED
      BY <1>3, <1>6, <1>9, <2>2, <3>1 DEF OnStrands
  <2>3. CASE x = s /\ j = k + 1
    <3>1. i \in 1 .. k
      BY <1>6, <1>9, <2>3
    <3> QED
      BY <1>3, <1>6, <1>9, <2>3, <3>1
  <2> QED
    BY <1>6, <2>1, <2>2, <2>3
<1>10. OnStrands(to)'
  BY <1>7, <1>8, <1>9 DEF OnStrands
<1> QED
  BY <1>10 DEF to

LEMMA StrandsTail ==
  ASSUME TypeOK, NEW at \in Placed, OnStrands(at), NEW s \in Strands, strand[s] # <<>>,
         strand' = [strand EXCEPT ![s] = Tail(@)], UNCHANGED arrivedAt,
         NEW m \in Messages, m = Head(strand[s]).msg,
         NEW p \in Places, p \notin {"waiting", "queued"}
  PROVE  OnStrands(Moved(at, m, p))'
<1> DEFINE to == Moved(at, m, p)
           k == Len(strand[s])
<1>1. to[m] = p /\ \A n \in Messages \ {m} : to[n] = at[n]
  BY MovedTo
<1>2. \A x \in Strands \ {s} : strand'[x] = strand[x]
  BY DEF TypeOK
<1>3. strand'[s] = Tail(strand[s]) /\ strand[s] \in Seq(StrandTasks)
  BY DEF TypeOK
<1>a. /\ k \in Nat \ {0} /\ Len(Tail(strand[s])) = k - 1 /\ Head(strand[s]) = strand[s][1] /\ 1 \in 1 .. k
      /\ \A i \in 1 .. k - 1 : Tail(strand[s])[i] = strand[s][i + 1] /\ i + 1 \in 1 .. k /\ i + 1 # 1
      /\ \A i \in 1 .. k : i # 1 => i - 1 \in 1 .. k - 1 /\ Tail(strand[s])[i - 1] = strand[s][i]
  BY <1>3, TailAt
<1>4. /\ k \in Nat \ {0} /\ Len(strand'[s]) = k - 1 /\ m = strand[s][1].msg /\ 1 \in 1 .. k
      /\ \A i \in 1 .. k - 1 : strand'[s][i] = strand[s][i + 1] /\ i + 1 \in 1 .. k /\ i + 1 # 1
      /\ \A i \in 1 .. k : i # 1 => i - 1 \in 1 .. k - 1 /\ strand'[s][i - 1] = strand[s][i]
  BY <1>3, <1>a
(* The head's message is nowhere else on the strands. *)
<1>5. \A x \in Strands : \A i \in 1 .. Len(strand[x]) :
        strand[x][i].msg \in Messages /\ (strand[x][i].msg = m => x = s /\ i = 1)
  <2>1. TAKE x \in Strands
  <2>2. TAKE i \in 1 .. Len(strand[x])
  <2>3. strand[x][i].msg \in Messages
    BY StrandShape
  <2>4. ASSUME strand[x][i].msg = m PROVE x = s /\ (Route(strand[x][i]) <=> Route(strand[s][1]))
    BY <1>4, <2>4 DEF OnStrands
  <2>5. ASSUME strand[x][i].msg = m, i # 1 PROVE FALSE
    <3>1. x = s /\ 1 < i /\ (Route(strand[s][1]) <=> Route(strand[s][i])) /\ i \in 1 .. Len(strand[s])
      BY <2>4, <2>5
    <3>2. arrivedAt[m] < arrivedAt[m]
      BY <1>4, <2>5, <3>1 DEF OnStrands
    <3>3. arrivedAt[m] \in Nat
      BY DEF TypeOK
    <3> QED
      BY <3>2, <3>3
  <2> QED
    BY <2>3, <2>4, <2>5
<1> DEFINE Old(x, i) == IF x = s THEN i + 1 ELSE i
<1>6. \A x \in Strands : \A i \in 1 .. Len(strand'[x]) :
        /\ Old(x, i) \in 1 .. Len(strand[x]) /\ strand'[x][i] = strand[x][Old(x, i)]
        /\ strand'[x][i].msg \in Messages \ {m}
  <2>1. TAKE x \in Strands
  <2>2. TAKE i \in 1 .. Len(strand'[x])
  <2>3. CASE x = s
    BY <1>4, <1>5, <2>3
  <2>4. CASE x # s
    BY <1>2, <1>5, <2>4
  <2> QED
    BY <2>3, <2>4
<1>b. \A x \in Strands : \A i, j \in 1 .. Len(strand'[x]) : i < j => Old(x, i) < Old(x, j)
  OBVIOUS
<1> HIDE DEF to, Old
<1>7. \A x \in Strands : \A i \in 1 .. Len(strand'[x]) : to[strand'[x][i].msg] = at[strand'[x][i].msg]
  BY <1>1, <1>6
<1>8. \A x \in Strands : \A i \in 1 .. Len(strand'[x]) :
        LET u == strand'[x][i] IN
        IF Route(u) THEN x = Notify /\ to[u.msg] = "waiting"
        ELSE x = Home(u.msg) /\ u = TaskOf(u.msg) /\ to[u.msg] = "queued"
  <2>1. TAKE x \in Strands
  <2>2. TAKE i \in 1 .. Len(strand'[x])
  <2>3. PICK o \in 1 .. Len(strand[x]) : strand'[x][i] = strand[x][o]
    BY <1>6
  <2>4. LET u == strand[x][o] IN
        IF Route(u) THEN x = Notify /\ at[u.msg] = "waiting"
        ELSE x = Home(u.msg) /\ u = TaskOf(u.msg) /\ at[u.msg] = "queued"
    BY DEF OnStrands
  <2> QED
    BY <1>7, <2>3, <2>4
<1>9. ASSUME NEW n \in Messages
      PROVE  /\ to[n] = "waiting" => \E i \in 1 .. Len(strand'[Notify]) : strand'[Notify][i].msg = n
             /\ to[n] = "queued" => \E i \in 1 .. Len(strand'[Home(n)]) : strand'[Home(n)][i].msg = n
  <2>1. \A x \in Strands : n # m /\ (\E i \in 1 .. Len(strand[x]) : strand[x][i].msg = n)
                            => \E i \in 1 .. Len(strand'[x]) : strand'[x][i].msg = n
    <3>1. ASSUME NEW x \in Strands, NEW i \in 1 .. Len(strand[x]), strand[x][i].msg = n, n # m
          PROVE  \E j \in 1 .. Len(strand'[x]) : strand'[x][j].msg = n
      <4>1. CASE x # s
        BY <1>2, <3>1, <4>1
      <4>2. CASE x = s
        <5>1. i # 1
          BY <1>4, <3>1, <4>2
        <5>2. i - 1 \in 1 .. Len(strand'[x]) /\ strand'[x][i - 1].msg = n
          BY <1>4, <3>1, <4>2, <5>1
        <5> QED
          BY <5>2
      <4> QED
        BY <4>1, <4>2
    <3> QED
      BY <3>1
  <2> QED
    BY <1>1, <2>1, HomeIsStrand DEF OnStrands
<1>10. ASSUME NEW x \in Strands, NEW i \in 1 .. Len(strand'[x]), NEW j \in 1 .. Len(strand'[x]),
              i < j, Route(strand'[x][i]) <=> Route(strand'[x][j])
       PROVE  arrivedAt'[strand'[x][i].msg] < arrivedAt'[strand'[x][j].msg]
  <2> DEFINE a == Old(x, i)
             b == Old(x, j)
  <2>1. /\ a \in 1 .. Len(strand[x]) /\ b \in 1 .. Len(strand[x]) /\ a < b
        /\ strand'[x][i] = strand[x][a] /\ strand'[x][j] = strand[x][b]
    BY <1>6, <1>b, <1>10
  <2> HIDE DEF a, b
  <2>2. arrivedAt[strand[x][a].msg] < arrivedAt[strand[x][b].msg]
    BY <1>10, <2>1 DEF OnStrands
  <2> QED
    BY <2>1, <2>2
<1>11. OnStrands(to)'
  <2>1. \A x \in Strands : \A i, j \in 1 .. Len(strand'[x]) :
          i < j /\ (Route(strand'[x][i]) <=> Route(strand'[x][j]))
            => arrivedAt'[strand'[x][i].msg] < arrivedAt'[strand'[x][j].msg]
    BY <1>10
  <2>2. \A n \in Messages :
             /\ to[n] = "waiting" => \E i \in 1 .. Len(strand'[Notify]) : strand'[Notify][i].msg = n
             /\ to[n] = "queued" => \E i \in 1 .. Len(strand'[Home(n)]) : strand'[Home(n)][i].msg = n
    BY <1>9
  <2> QED
    BY <1>8, <2>1, <2>2, Zenon DEF OnStrands
<1> QED
  BY <1>11 DEF to

(* In the pool. *)
Absent(m, q) == \A i \in 1 .. Len(q) : q[i].kind = "run" => q[i].msg # m

LEMMA LaneKept ==
  ASSUME NEW at \in Placed, NEW pr, NEW q \in Seq(RunTasks \cup DrainTasks), InLane(at, q, pr),
         NEW m \in Messages, NEW p \in Places, Absent(m, q)
  PROVE  InLane(Moved(at, m, p), q, pr)
<1> DEFINE to == Moved(at, m, p)
<1>1. to[m] = p /\ \A n \in Messages \ {m} : to[n] = at[n]
  BY MovedTo
<1>2. \A i \in 1 .. Len(q) : q[i] \in RunTasks \cup DrainTasks
  OBVIOUS
<1>3. \A i \in 1 .. Len(q) : q[i].kind = "run" => q[i].msg \in Messages \ {m}
  BY <1>2 DEF Absent, RunTasks, DrainTasks, Messages
<1> HIDE DEF to
<1>4. InLane(to, q, pr)
  BY <1>1, <1>3 DEF InLane
<1> QED
  BY <1>4 DEF to

LEMMA NotPooled ==
  ASSUME NEW at, NEW pr, NEW q, InLane(at, q, pr), NEW m \in Messages,
         at[m] # "pooled" \/ PriorityOf[m] # pr
  PROVE  Absent(m, q)
  BY DEF InLane, Absent

LEMMA LaneAppend ==
  ASSUME NEW at, NEW pr, NEW q \in Seq(RunTasks \cup DrainTasks), InLane(at, q, pr),
         NEW t \in RunTasks \cup DrainTasks,
         t.kind = "run" => /\ at[t.msg] = "pooled" /\ ~Serial(t.msg) /\ PriorityOf[t.msg] = pr
                           /\ Absent(t.msg, q)
  PROVE  InLane(at, Append(q, t), pr)
<1> DEFINE k == Len(q)
           a == Append(q, t)
<1>1. /\ k \in Nat /\ Len(a) = k + 1 /\ a[k + 1] = t
      /\ \A i \in 1 .. k : a[i] = q[i] /\ i \in 1 .. k + 1 /\ i # k + 1
      /\ \A i \in 1 .. k + 1 : i \in 1 .. k \/ i = k + 1
  BY AppendAt
<1> HIDE DEF a, k
<1>2. \A i \in 1 .. Len(a) : a[i].kind = "run" =>
        at[a[i].msg] = "pooled" /\ ~Serial(a[i].msg) /\ PriorityOf[a[i].msg] = pr
  BY <1>1 DEF InLane, k
<1>3. ASSUME NEW i \in 1 .. Len(a), NEW j \in 1 .. Len(a), a[i].kind = "run", a[i] = a[j]
      PROVE  i = j
  <2>1. CASE i \in 1 .. k /\ j \in 1 .. k
    BY <1>1, <1>3, <2>1 DEF InLane, k
  <2>2. CASE i = k + 1 /\ j \in 1 .. k
    BY <1>1, <1>3, <2>2 DEF Absent, k
  <2>3. CASE j = k + 1 /\ i \in 1 .. k
    BY <1>1, <1>3, <2>3 DEF Absent, k
  <2> QED
    BY <1>1, <2>1, <2>2, <2>3
<1>4. InLane(at, a, pr)
  BY <1>2, <1>3, Zenon DEF InLane
<1> QED
  BY <1>4 DEF a

LEMMA LaneTail ==
  ASSUME NEW at, NEW pr, NEW q \in Seq(RunTasks \cup DrainTasks), InLane(at, q, pr), q # <<>>
  PROVE  /\ InLane(at, Tail(q), pr) /\ Tail(q) \in Seq(RunTasks \cup DrainTasks)
         /\ Head(q) \in RunTasks \cup DrainTasks
         /\ Head(q).kind = "run" => /\ at[Head(q).msg] = "pooled" /\ ~Serial(Head(q).msg)
                                    /\ PriorityOf[Head(q).msg] = pr /\ Absent(Head(q).msg, Tail(q))
<1> DEFINE k == Len(q)
           a == Tail(q)
<1>1. /\ k \in Nat \ {0} /\ Len(a) = k - 1 /\ Head(q) = q[1] /\ 1 \in 1 .. k
      /\ \A i \in 1 .. k - 1 : a[i] = q[i + 1] /\ i + 1 \in 1 .. k /\ i + 1 # 1
  BY TailAt
<1>2. \A i \in 1 .. k : q[i] \in RunTasks \cup DrainTasks
  OBVIOUS
<1>3. a \in Seq(RunTasks \cup DrainTasks)
  OBVIOUS
<1> HIDE DEF a, k
<1>4. \A i, j \in 1 .. Len(a) : i + 1 = j + 1 => i = j
  BY <1>1
<1>5. InLane(at, a, pr)
  <2>1. \A i \in 1 .. Len(a) : a[i].kind = "run" =>
          at[a[i].msg] = "pooled" /\ ~Serial(a[i].msg) /\ PriorityOf[a[i].msg] = pr
    BY <1>1 DEF InLane, k
  <2>2. \A i, j \in 1 .. Len(a) : a[i].kind = "run" /\ a[i] = a[j] => i = j
    BY <1>1, <1>4 DEF InLane, k
  <2> QED
    BY <2>1, <2>2, Zenon DEF InLane
<1>6. ASSUME q[1].kind = "run" PROVE Absent(q[1].msg, a)
  <2>1. \A i \in 1 .. Len(a) : a[i].kind = "run" => a[i] # q[1]
    BY <1>1, <1>6 DEF InLane, k
  <2>2. \A i \in 1 .. Len(a) : a[i] \in RunTasks \cup DrainTasks
    BY <1>1, <1>2
  <2>3. \A t, u \in RunTasks \cup DrainTasks : t.kind = "run" /\ u.kind = "run" /\ t.msg = u.msg => t = u
    BY DEF RunTasks, DrainTasks
  <2> QED
    BY <1>1, <1>2, <1>6, <2>1, <2>2, <2>3 DEF Absent
<1>7. /\ Head(q) \in RunTasks \cup DrainTasks
      /\ Head(q).kind = "run" => at[Head(q).msg] = "pooled" /\ ~Serial(Head(q).msg) /\ PriorityOf[Head(q).msg] = pr
  BY <1>1, <1>2 DEF InLane, k
<1> QED
  BY <1>1, <1>3, <1>5, <1>6, <1>7 DEF a

(* On the threads. *)
OnThread == {"routing", "opened", "called", "sending"}

(* What a thread's task is about. *)
LEMMA ThreadShape ==
  ASSUME TypeOK, NEW w \in Workers, Busy(w)
  PROVE  Msg(w) \in Messages /\ PlaceOn(w) \in OnThread
<1>1. worker[w] \in WorkerStates
  BY DEF TypeOK
<1>2. worker[w].task.msg \in Messages
  BY <1>1 DEF WorkerStates, StrandTasks, RunTasks, RouteTasks, Busy, Messages
<1> QED
  BY <1>2 DEF Msg, PlaceOn, OnThread

LEMMA ThreadsFrame ==
  ASSUME TypeOK, NEW at \in Placed, OnThreads(at), UNCHANGED worker,
         NEW m \in Messages, NEW p \in Places, at[m] \notin OnThread, p \notin OnThread
  PROVE  OnThreads(Moved(at, m, p))'
<1> DEFINE to == Moved(at, m, p)
<1>1. to[m] = p /\ \A n \in Messages \ {m} : to[n] = at[n]
  BY MovedTo
<1>2. \A w \in Workers : Busy(w) => Msg(w) \in Messages \ {m}
  BY ThreadShape DEF OnThreads
<1>3. \A w \in Workers : /\ (Busy(w)' <=> Busy(w)) /\ Msg(w)' = Msg(w) /\ PlaceOn(w)' = PlaceOn(w)
                         /\ StrandOf(w)' = StrandOf(w)
  BY DEF Busy, Msg, PlaceOn, StrandOf, Sending, Route, Serial, Home
<1> HIDE DEF to
<1>4. OnThreads(to)'
  BY <1>1, <1>2, <1>3 DEF OnThreads, OnThread
<1> QED
  BY <1>4 DEF to

(* One thread goes on to a step about m. *)
LEMMA ThreadsStep ==
  ASSUME TypeOK, NEW at \in Placed, OnThreads(at), NEW w \in Workers,
         \A v \in Workers \ {w} : worker'[v] = worker[v],
         NEW m \in Messages, NEW p \in Places,
         IF Busy(w) THEN Msg(w) = m ELSE at[m] \notin OnThread,
         IF Busy(w)' THEN Msg(w)' = m /\ PlaceOn(w)' = p /\ worker'[w].strand = StrandOf(w)'
         ELSE p \notin OnThread,
         worker'[w].at = "routed" => worker'[w].strand = Notify
  PROVE  OnThreads(Moved(at, m, p))'
<1> DEFINE to == Moved(at, m, p)
<1>1. to[m] = p /\ \A n \in Messages \ {m} : to[n] = at[n]
  BY MovedTo
<1>2. \A v \in Workers \ {w} : Busy(v) => Msg(v) \in Messages \ {m}
  BY ThreadShape DEF OnThreads
<1>3. \A v \in Workers \ {w} : /\ (Busy(v)' <=> Busy(v)) /\ Msg(v)' = Msg(v) /\ PlaceOn(v)' = PlaceOn(v)
                               /\ StrandOf(v)' = StrandOf(v)
  BY DEF Busy, Msg, PlaceOn, StrandOf, Sending, Route, Serial, Home
<1> HIDE DEF to
<1>4. \A v \in Workers :
       /\ Busy(v)' => to[Msg(v)'] = PlaceOn(v)' /\ worker'[v].strand = StrandOf(v)'
       /\ worker'[v].at = "routed" => worker'[v].strand = Notify
  BY <1>1, <1>2, <1>3 DEF OnThreads
<1>5. \A u, v \in Workers : Busy(u)' /\ Busy(v)' /\ Msg(u)' = Msg(v)' => u = v
  BY <1>2, <1>3 DEF OnThreads
<1>6. \A n \in Messages : to[n] \in {"routing", "opened", "sending"} =>
        \E v \in Workers : Busy(v)' /\ Msg(v)' = n
  <2>1. TAKE n \in Messages
  <2>2. CASE n = m
    BY <1>1, <2>2 DEF OnThread
  <2>3. CASE n # m
    <3>1. (Busy(w) /\ Msg(w) = n) => FALSE
      BY <2>3
    <3> QED
      BY <1>1, <1>3, <2>3, <3>1 DEF OnThreads
  <2> QED
    BY <2>2, <2>3
<1>7. OnThreads(to)'
  BY <1>4, <1>5, <1>6, Zenon DEF OnThreads
<1> QED
  BY <1>7 DEF to

(* One thread goes on between steps about messages. *)
LEMMA ThreadsIdle ==
  ASSUME TypeOK, NEW at \in Placed, OnThreads(at), NEW w \in Workers,
         \A v \in Workers \ {w} : worker'[v] = worker[v],
         ~Busy(w), worker'[w].at \in {"idle", "exited", "drain"}
  PROVE  OnThreads(at)'
<1>1. \A v \in Workers \ {w} : /\ (Busy(v)' <=> Busy(v)) /\ Msg(v)' = Msg(v) /\ PlaceOn(v)' = PlaceOn(v)
                               /\ StrandOf(v)' = StrandOf(v)
  BY DEF Busy, Msg, PlaceOn, StrandOf, Sending, Route, Serial, Home
<1>2. ~Busy(w)' /\ worker'[w].at # "routed"
  BY DEF Busy
<1> QED
  BY <1>1, <1>2 DEF OnThreads

(* Arrivals. *)
LEMMA ClockTicks ==
  ASSUME TypeOK, NEW m \in Messages, arrivedAt[m] = 0, arrivedAt' = [arrivedAt EXCEPT ![m] = Clock + 1]
  PROVE  Clock' = Clock + 1
<1> DEFINE S == {n \in Messages : arrivedAt[n] > 0}
<1>1. IsFiniteSet(S) /\ m \notin S
  BY ConstantsAssumption, FS_Subset
<1>2. {n \in Messages : arrivedAt'[n] > 0} = S \cup {m}
  BY ClockType DEF TypeOK
<1> QED
  BY <1>1, <1>2, FS_AddElement DEF Clock

LEMMA StampedFrame ==
  ASSUME TypeOK, NEW at \in Placed, Stamped(at), UNCHANGED <<arrivedAt, held>>,
         NEW m \in Messages, NEW p \in Places, at[m] \notin {"unsent", "held"}, p \notin {"unsent", "held"}
  PROVE  Stamped(Moved(at, m, p))'
<1> DEFINE to == Moved(at, m, p)
<1>1. to[m] = p /\ \A n \in Messages \ {m} : to[n] = at[n]
  BY MovedTo
<1>2. UNCHANGED Clock
  BY DEF Clock
<1> HIDE DEF to
<1>3. Stamped(to)'
  BY <1>1, <1>2 DEF Stamped
<1> QED
  BY <1>3 DEF to

LEMMA StampedTake ==
  ASSUME TypeOK, NEW at \in Placed, Stamped(at),
         NEW m \in Messages, NEW p \in Places, arrivedAt[m] = 0, held = None,
         arrivedAt' = [arrivedAt EXCEPT ![m] = Clock + 1],
         p # "unsent", IF p = "held" THEN held' = m ELSE held' = None
  PROVE  Stamped(Moved(at, m, p))' /\ Steady(m) /\ (\A n \in Messages : arrivedAt[n] < arrivedAt'[m])
         /\ at[m] = "unsent" /\ (\A n \in Messages : at[n] # "held")
<1> DEFINE to == Moved(at, m, p)
<1>1. to[m] = p /\ \A n \in Messages \ {m} : to[n] = at[n]
  BY MovedTo
<1>2. Clock' = Clock + 1 /\ Clock \in Nat
  BY ClockTicks, ClockType
<1>3. arrivedAt'[m] = Clock + 1 /\ \A n \in Messages \ {m} : arrivedAt'[n] = arrivedAt[n]
  BY DEF TypeOK
<1>4. \A n \in Messages : arrivedAt[n] \in Nat /\ arrivedAt[n] <= Clock /\ n # None
  BY ConstantsAssumption DEF Stamped, TypeOK
<1> HIDE DEF to
<1>5. Stamped(to)'
  <2>1. \A n \in Messages : arrivedAt'[n] <= Clock' /\ (to[n] = "unsent" <=> arrivedAt'[n] = 0)
    BY <1>1, <1>2, <1>3, <1>4 DEF Stamped
  <2>2. \A n, o \in Messages : n # o /\ arrivedAt'[n] = arrivedAt'[o] => to[n] = "unsent"
    <3>1. \A n \in Messages \ {m} : arrivedAt'[n] # arrivedAt'[m]
      BY <1>2, <1>3, <1>4
    <3> QED
      BY <1>1, <1>3, <3>1 DEF Stamped
  <2>3. \A n \in Messages : to[n] = "held" <=> held' = n
    BY <1>1, <1>4 DEF Stamped
  <2>4. \A n, o \in Messages : to[n] = "held" /\ n # o => arrivedAt'[o] < arrivedAt'[n]
    BY <1>1, <1>2, <1>3, <1>4, <2>3 DEF Stamped
  <2> QED
    BY <2>1, <2>2, <2>3, <2>4 DEF Stamped
<1> QED
  BY <1>2, <1>3, <1>4, <1>5 DEF to, Steady, Stamped

LEMMA StampedRoute ==
  ASSUME TypeOK, NEW at \in Placed, Stamped(at), UNCHANGED arrivedAt, held' = None,
         NEW m \in Messages, held = m, NEW p \in Places, p \notin {"unsent", "held"}
  PROVE  /\ Stamped(Moved(at, m, p))' /\ at[m] = "held" /\ Steady(m)
         /\ \A n \in Messages \ {m} : arrivedAt[n] < arrivedAt'[m]
<1> DEFINE to == Moved(at, m, p)
<1>1. to[m] = p /\ \A n \in Messages \ {m} : to[n] = at[n]
  BY MovedTo
<1>2. UNCHANGED Clock
  BY DEF Clock
<1>3. at[m] = "held"
  BY DEF Stamped
<1>4. \A n \in Messages : n # None
  BY ConstantsAssumption
<1> HIDE DEF to
<1>5. Stamped(to)'
  BY <1>1, <1>2, <1>3, <1>4 DEF Stamped
<1> QED
  BY <1>3, <1>5 DEF to, Stamped, Steady

(* The kinds of places. *)
LEMMA CourseMoved ==
  ASSUME NEW at \in Placed, Course(at), NEW m \in Messages, NEW p \in Places,
         m \in Cancels => p \in {"unsent", "done"} \cup Unrouted,
         m \in Notices => p \in {"unsent", "queued", "opened", "done"} \cup Unrouted,
         m \in Requests /\ p = "queued" => ModeOf[m] \in {"serial", "after"},
         m \in Requests /\ p = "opened" => ModeOf[m] = "after"
  PROVE  Course(Moved(at, m, p))
<1> DEFINE to == Moved(at, m, p)
<1>1. to[m] = p /\ \A n \in Messages \ {m} : to[n] = at[n]
  BY MovedTo
<1> HIDE DEF to
<1>2. Course(to)
  BY <1>1 DEF Course, Messages
<1> QED
  BY <1>2 DEF to

(* Turns. *)
LEMMA TurnKept ==
  ASSUME TypeOK, NEW at \in Placed, InTurn(at), NEW m \in Messages, NEW p \in Places, Steady(m),
         \/ at[m] \in Unrouted /\ p \in Unrouted /\ UNCHANGED arrivedAt
         \/ at[m] \in Routed /\ p \in Routed /\ UNCHANGED arrivedAt
         \/ p \in Unrouted /\ \A n \in Messages \ {m} : arrivedAt[n] < arrivedAt'[m]
         \/ p \in Routed /\ \A n \in Messages \ {m} : at[n] \in Unrouted => arrivedAt'[m] < arrivedAt[n]
         \/ p \in Routed /\ m \in Cancels
  PROVE  InTurn(Moved(at, m, p))'
<1> DEFINE to == Moved(at, m, p)
<1>1. to[m] = p /\ \A n \in Messages \ {m} : to[n] = at[n]
  BY MovedTo
<1>2. \A n \in Messages \ {m} : arrivedAt'[n] = arrivedAt[n]
  BY DEF Steady
<1>3. Routed \cap Unrouted = {}
  BY DEF Routed, Unrouted
<1> HIDE DEF to
<1>4. ASSUME NEW n \in Messages \ Cancels, NEW o \in Messages, to[n] \in Routed, to[o] \in Unrouted
      PROVE  arrivedAt'[n] < arrivedAt'[o]
  BY <1>1, <1>2, <1>3, <1>4 DEF InTurn
<1>5. InTurn(to)'
  BY <1>4 DEF InTurn
<1> QED
  BY <1>5 DEF to

(* Entries. *)
LEMMA EnteredFrame ==
  ASSUME TypeOK, NEW at \in Placed, Entered(at), UNCHANGED <<inflight, answers>>,
         NEW m \in Messages, NEW p \in Places,
         m \in Requests => (at[m] \in Registered <=> p \in Registered) /\ (at[m] = "done" <=> p = "done")
  PROVE  Entered(Moved(at, m, p))'
<1> DEFINE to == Moved(at, m, p)
<1>1. to[m] = p /\ \A n \in Messages \ {m} : to[n] = at[n]
  BY MovedTo
<1> HIDE DEF to
<1>2. Entered(to)'
  BY <1>1 DEF Entered, Messages
<1> QED
  BY <1>2 DEF to

LEMMA EnteredAnswer ==
  ASSUME TypeOK, NEW at \in Placed, Entered(at), NEW m \in Requests, at[m] \notin Registered \cup {"done"},
         NEW o \in {"error", "refused", "result", "cancelled"}, Answer(m, o), UNCHANGED inflight
  PROVE  Entered(Moved(at, m, "done"))' /\ answers[m] = <<>> /\ answers'[m] = <<o>>
         /\ \A r \in Requests \ {m} : answers'[r] = answers[r]
<1> DEFINE to == Moved(at, m, "done")
<1>1. to[m] = "done" /\ \A n \in Messages \ {m} : to[n] = at[n]
  BY MovedTo DEF Messages, Places, Routed
<1>2. answers[m] = <<>>
  BY DEF Entered
<1>3. answers'[m] = Append(answers[m], o) /\ \A r \in Requests \ {m} : answers'[r] = answers[r]
  BY DEF Answer, TypeOK
<1>4. answers'[m] = <<o>>
  BY <1>2, <1>3
<1>5. answers'[m] # <<>> /\ Len(answers'[m]) = 1
  BY <1>4
<1>6. "done" \notin Registered
  BY DEF Registered
<1> HIDE DEF to
<1>7. Entered(to)'
  BY <1>1, <1>3, <1>5, <1>6 DEF Entered, Messages
<1> QED
  BY <1>2, <1>3, <1>4, <1>7 DEF to

LEMMA EnteredRegister ==
  ASSUME TypeOK, NEW at \in Placed, Entered(at), NEW m \in Requests, at[m] \notin Registered \cup {"done"},
         ~InUse(IdOf[m]), inflight' = [inflight EXCEPT ![IdOf[m]] = m], UNCHANGED answers,
         NEW p \in Registered
  PROVE  Entered(Moved(at, m, p))'
<1> DEFINE to == Moved(at, m, p)
<1>0. m \in Messages /\ p \in Places
  BY DEF Messages, Places, Routed, Registered
<1>1. to[m] = p /\ \A n \in Messages \ {m} : to[n] = at[n]
  BY <1>0, MovedTo
<1>2. inflight[IdOf[m]] = None /\ inflight'[IdOf[m]] = m
      /\ \A i \in Ids \ {IdOf[m]} : inflight'[i] = inflight[i]
  BY ConstantsAssumption DEF InUse, TypeOK
<1>3. \A r \in Requests : r # None /\ IdOf[r] \in Ids
  BY ConstantsAssumption DEF Messages
<1>4. "done" \notin Registered
  BY DEF Registered
<1> HIDE DEF to
<1>5. Entered(to)'
  BY <1>1, <1>2, <1>3, <1>4 DEF Entered, Messages
<1> QED
  BY <1>5 DEF to

LEMMA EnteredErase ==
  ASSUME TypeOK, NEW at \in Placed, Entered(at), NEW m \in Requests, at[m] \in Registered,
         inflight' = Erased(m), UNCHANGED answers,
         NEW p \in Places, p \notin Registered \cup {"done"}
  PROVE  Entered(Moved(at, m, p))'
<1> DEFINE to == Moved(at, m, p)
<1>1. to[m] = p /\ \A n \in Messages \ {m} : to[n] = at[n]
  BY MovedTo DEF Messages
<1>2. \A r \in Requests : r # None /\ IdOf[r] \in Ids
  BY ConstantsAssumption DEF Messages
<1>3. inflight'[IdOf[m]] = None /\ \A i \in Ids \ {IdOf[m]} : inflight'[i] = inflight[i]
  BY <1>2 DEF Erased, TypeOK
<1>4. inflight[IdOf[m]] = m /\ answers[m] = <<>>
  BY DEF Entered, Registered
<1> HIDE DEF to
<1>5. Entered(to)'
  BY <1>1, <1>2, <1>3, <1>4 DEF Entered, Messages
<1> QED
  BY <1>5 DEF to

(* What is taken off the strands stays ahead of what is left. *)
LEMMA AheadFrame ==
  ASSUME Ahead, UNCHANGED <<strand, arrivedAt>>,
         \A v \in Workers : worker'[v].at = "task" /\ worker'[v].strand # None => worker'[v] = worker[v]
  PROVE  Ahead'
  BY DEF Ahead, Msg

(* No thread takes a task off a strand, and none has one about m. *)
NoneTakes(m) ==
  \A v \in Workers : worker'[v].at = "task" /\ worker'[v].strand # None =>
    worker'[v] = worker[v] /\ Msg(v) # m

(* What a thread has taken off s arrived before m, the message of a task t put there. *)
TakenBefore(s, t, m) ==
  \A v \in Workers : worker'[v].at = "task" /\ worker'[v].strand = s /\ (Route(worker'[v].task) <=> Route(t))
    => arrivedAt[Msg(v)] < arrivedAt'[m]

LEMMA AheadStands ==
  ASSUME TypeOK, NEW at \in Placed, OnStrands(at), Ahead, UNCHANGED strand,
         NEW m \in Messages, Steady(m), at[m] \notin {"waiting", "queued"}, NoneTakes(m)
  PROVE  Ahead'
<1>1. \A x \in Strands : \A i \in 1 .. Len(strand[x]) :
        strand[x][i].msg \in Messages \ {m} /\ arrivedAt'[strand[x][i].msg] = arrivedAt[strand[x][i].msg]
  BY StrandShape DEF OnStrands, Steady
<1>2. SUFFICES ASSUME NEW v \in Workers, worker'[v].at = "task", worker'[v].strand # None,
                      NEW i \in 1 .. Len(strand[worker'[v].strand]),
                      Route(worker'[v].task) <=> Route(strand[worker'[v].strand][i])
               PROVE  arrivedAt'[worker'[v].task.msg] < arrivedAt'[strand[worker'[v].strand][i].msg]
  BY DEF Ahead, Msg
<1>3. worker'[v] = worker[v] /\ Msg(v) # m /\ worker[v].strand \in Strands
  BY <1>2, WorkerShape DEF NoneTakes
<1>4. Msg(v) \in Messages /\ arrivedAt'[Msg(v)] = arrivedAt[Msg(v)]
  BY <1>2, <1>3, ThreadShape DEF Busy, Steady
<1>5. arrivedAt[Msg(v)] < arrivedAt[strand[worker[v].strand][i].msg]
  BY <1>2, <1>3 DEF Ahead
<1> QED
  BY <1>1, <1>2, <1>3, <1>4, <1>5 DEF Msg

LEMMA AheadAppend ==
  ASSUME TypeOK, NEW at \in Placed, OnStrands(at), OnThreads(at), Ahead,
         NEW s \in Strands, NEW t \in StrandTasks, strand' = [strand EXCEPT ![s] = Append(@, t)],
         NEW m \in Messages, Steady(m), t.msg = m, at[m] \notin {"waiting", "queued"}, NoneTakes(m), TakenBefore(s, t, m)
  PROVE  Ahead'
<1> DEFINE k == Len(strand[s])
<1>1. \A x \in Strands : \A i \in 1 .. Len(strand[x]) :
        strand[x][i].msg \in Messages \ {m} /\ arrivedAt'[strand[x][i].msg] = arrivedAt[strand[x][i].msg]
  BY StrandShape DEF OnStrands, Steady
<1>2. \A x \in Strands \ {s} : strand'[x] = strand[x]
  BY DEF TypeOK
<1>3. strand'[s] = Append(strand[s], t) /\ strand[s] \in Seq(StrandTasks)
  BY DEF TypeOK
<1>4. /\ k \in Nat /\ Len(strand'[s]) = k + 1 /\ strand'[s][k + 1] = t
      /\ \A i \in 1 .. k : strand'[s][i] = strand[s][i]
      /\ \A i \in 1 .. k + 1 : i \in 1 .. k \/ i = k + 1
  BY <1>3, AppendAt
<1> HIDE DEF k
<1>5. SUFFICES ASSUME NEW v \in Workers, worker'[v].at = "task", worker'[v].strand # None,
                      NEW i \in 1 .. Len(strand'[worker'[v].strand]),
                      Route(worker'[v].task) <=> Route(strand'[worker'[v].strand][i])
               PROVE  arrivedAt'[worker'[v].task.msg] < arrivedAt'[strand'[worker'[v].strand][i].msg]
  BY DEF Ahead, Msg
<1>6. worker'[v] = worker[v] /\ Msg(v) # m /\ worker[v].strand \in Strands
  BY <1>5, WorkerShape DEF NoneTakes
<1>7. Msg(v) \in Messages /\ arrivedAt'[Msg(v)] = arrivedAt[Msg(v)]
  BY <1>5, <1>6, ThreadShape DEF Busy, Steady
<1>8. CASE worker[v].strand # s
  <2>1. strand'[worker[v].strand] = strand[worker[v].strand]
    BY <1>2, <1>6, <1>8
  <2>2. arrivedAt[Msg(v)] < arrivedAt[strand[worker[v].strand][i].msg]
    BY <1>5, <1>6, <2>1 DEF Ahead
  <2>3. /\ i \in 1 .. Len(strand[worker[v].strand])
        /\ strand'[worker'[v].strand][i] = strand[worker[v].strand][i]
    BY <1>5, <1>6, <2>1
  <2>4. arrivedAt'[strand[worker[v].strand][i].msg] = arrivedAt[strand[worker[v].strand][i].msg]
    BY <1>1, <1>6, <2>3
  <2> QED
    BY <1>6, <1>7, <2>2, <2>3, <2>4 DEF Msg
<1>9. CASE worker[v].strand = s /\ i \in 1 .. k
  BY <1>1, <1>4, <1>5, <1>6, <1>7, <1>9 DEF Ahead, Msg, k
<1>10. CASE worker[v].strand = s /\ i = k + 1
  BY <1>4, <1>5, <1>6, <1>7, <1>10 DEF Msg, TakenBefore
<1> QED
  BY <1>4, <1>5, <1>6, <1>8, <1>9, <1>10

LEMMA AheadNext ==
  ASSUME TypeOK, NEW at \in Placed, OnStrands(at), Ahead, StrandExclusion,
         NEW w \in Workers, NEW s \in Strands, worker[w].strand = s, strand[s] # <<>>,
         worker' = [worker EXCEPT ![w] = [at |-> "task", strand |-> s, task |-> Head(strand[s])]],
         strand' = [strand EXCEPT ![s] = Tail(@)], UNCHANGED arrivedAt
  PROVE  Ahead'
<1> DEFINE k == Len(strand[s])
<1>1. \A x \in Strands \ {s} : strand'[x] = strand[x]
  BY DEF TypeOK
<1>2. strand'[s] = Tail(strand[s]) /\ strand[s] \in Seq(StrandTasks)
  BY DEF TypeOK
<1>3. /\ k \in Nat \ {0} /\ Len(Tail(strand[s])) = k - 1 /\ Head(strand[s]) = strand[s][1] /\ 1 \in 1 .. k
      /\ \A i \in 1 .. k - 1 : Tail(strand[s])[i] = strand[s][i + 1] /\ i + 1 \in 1 .. k /\ i + 1 # 1
  BY <1>2, TailAt
<1>4. worker'[w].task = strand[s][1] /\ worker'[w].strand = s /\ \A v \in Workers \ {w} : worker'[v] = worker[v]
  BY <1>3 DEF TypeOK
<1>5. s # None
  BY ConstantsAssumption
<1> HIDE DEF k
<1>6. SUFFICES ASSUME NEW v \in Workers, worker'[v].at = "task", worker'[v].strand # None,
                      NEW i \in 1 .. Len(strand'[worker'[v].strand]),
                      Route(worker'[v].task) <=> Route(strand'[worker'[v].strand][i])
               PROVE  arrivedAt'[worker'[v].task.msg] < arrivedAt'[strand'[worker'[v].strand][i].msg]
  BY DEF Ahead, Msg
<1>7. CASE v = w
  <2>1. i + 1 \in 1 .. k /\ strand'[s][i] = strand[s][i + 1] /\ 1 < i + 1
    <3>1. Len(strand'[s]) = k - 1
      BY <1>2, <1>3
    <3>2. worker'[v].strand = s
      BY <1>4, <1>7
    <3>3. i \in 1 .. Len(strand'[s])
      BY <1>6, <3>2
    <3>4. i \in 1 .. k - 1
      BY <3>1, <3>3
    <3>5. strand'[s][i] = strand[s][i + 1] /\ i + 1 \in 1 .. k
      BY <1>2, <1>3, <3>4
    <3> QED
      BY <3>4, <3>5, <1>3
  <2>2. arrivedAt[strand[s][1].msg] < arrivedAt[strand[s][i + 1].msg]
    BY <1>3, <1>4, <1>6, <1>7, <2>1 DEF OnStrands, k
  <2> QED
    BY <1>4, <1>7, <2>1, <2>2
<1>8. CASE v # w
  <2>1. worker'[v] = worker[v] /\ worker[v].strand \in Strands \ {s}
    BY <1>4, <1>5, <1>6, <1>8, WorkerShape DEF StrandExclusion
  <2> QED
    BY <1>1, <1>6, <2>1 DEF Ahead, Msg
<1> QED
  BY <1>7, <1>8

(* Posting. *)
LEMMA DrainPosted ==
  ASSUME TypeOK, NEW at \in Placed, InPool(at), NEW m \in Messages, NEW p \in Places, at[m] # "pooled",
         \/ UNCHANGED <<interactive, background>>
         \/ \E s \in Strands : PostPool("interactive", DrainTask(s))
  PROVE  InPool(Moved(at, m, p))'
<1>1. /\ interactive \in Seq(RunTasks \cup DrainTasks) /\ background \in Seq(RunTasks \cup DrainTasks)
      /\ Absent(m, interactive) /\ Absent(m, background)
  BY NotPooled DEF TypeOK, InPool
<1>2. InLane(Moved(at, m, p), interactive, "interactive") /\ InLane(Moved(at, m, p), background, "background")
  BY <1>1, LaneKept DEF InPool
<1>3. \A s \in Strands : InLane(Moved(at, m, p), Append(interactive, DrainTask(s)), "interactive")
  <2>1. TAKE s \in Strands
  <2>2. DrainTask(s) \in RunTasks \cup DrainTasks /\ DrainTask(s).kind # "run"
    BY DEF DrainTask, DrainTasks
  <2> QED
    BY <1>1, <1>2, <2>2, LaneAppend
<1>4. CASE UNCHANGED <<interactive, background>>
  BY <1>2, <1>4 DEF InPool, InLane
<1>5. ASSUME NEW s \in Strands, UNCHANGED background, interactive' = Append(interactive, DrainTask(s))
      PROVE  InPool(Moved(at, m, p))'
  <2>1. InLane(Moved(at, m, p), interactive', "interactive") /\ InLane(Moved(at, m, p), background', "background")
    BY <1>2, <1>3, <1>5
  <2> QED
    BY <2>1 DEF InPool, InLane
<1> QED
  BY <1>4, <1>5 DEF PostPool

(* Where a request goes that is posted to the pool. *)
PoolPlace == IF reader = "stopping" THEN "lost" ELSE "pooled"

LEMMA RunPosted ==
  ASSUME TypeOK, NEW at \in Placed, InPool(at), NEW m \in Requests, ~Serial(m), at[m] # "pooled",
         PostPool(PriorityOf[m], RunTask(m)),
         NEW p \in Places, p = PoolPlace
  PROVE  InPool(Moved(at, m, p))'
<1> DEFINE to == Moved(at, m, p)
<1>0. m \in Messages
  BY DEF Messages
<1>1. /\ interactive \in Seq(RunTasks \cup DrainTasks) /\ background \in Seq(RunTasks \cup DrainTasks)
      /\ Absent(m, interactive) /\ Absent(m, background)
  BY <1>0, NotPooled DEF TypeOK, InPool
<1>2. InLane(to, interactive, "interactive") /\ InLane(to, background, "background")
  BY <1>0, <1>1, LaneKept DEF InPool
<1>3. to[m] = p
  BY <1>0, MovedTo
<1>4. RunTask(m) \in RunTasks \cup DrainTasks /\ RunTask(m).msg = m
  BY DEF RunTask, RunTasks
<1>5. PriorityOf[m] \in {"interactive", "background"}
  BY ConstantsAssumption DEF Priorities
<1> HIDE DEF to
<1>6. CASE reader = "stopping"
  <2>1. UNCHANGED <<interactive, background>>
    BY <1>6 DEF PostPool
  <2> QED
    BY <1>2, <2>1 DEF InPool, InLane, to
<1>7. CASE reader # "stopping" /\ PriorityOf[m] = "interactive"
  <2>1. InLane(to, Append(interactive, RunTask(m)), "interactive")
    BY <1>1, <1>2, <1>3, <1>4, <1>7, LaneAppend DEF PoolPlace
  <2>2. interactive' = Append(interactive, RunTask(m)) /\ background' = background
    BY <1>7 DEF PostPool
  <2>3. InLane(to, interactive', "interactive") /\ InLane(to, background', "background")
    BY <1>2, <2>1, <2>2
  <2> QED
    BY <2>3 DEF InPool, InLane, to
<1>8. CASE reader # "stopping" /\ PriorityOf[m] = "background"
  <2>1. InLane(to, Append(background, RunTask(m)), "background")
    BY <1>1, <1>2, <1>3, <1>4, <1>8, LaneAppend DEF PoolPlace
  <2>2. background' = Append(background, RunTask(m)) /\ interactive' = interactive
    BY <1>8 DEF PostPool
  <2>3. InLane(to, interactive', "interactive") /\ InLane(to, background', "background")
    BY <1>2, <2>1, <2>2
  <2> QED
    BY <2>3 DEF InPool, InLane, to
<1> QED
  BY <1>5, <1>6, <1>7, <1>8

(* Where the messages are that a task of a strand goes behind. *)
Behind(t) == IF Route(t) THEN {"waiting", "routing"} ELSE {"queued", "opened", "called"}

LEMMA StrandPosted ==
  ASSUME TypeOK, NEW at \in Placed, OnStrands(at), OnThreads(at), InPool(at), Ahead,
         NEW s \in Strands, NEW t \in StrandTasks, PostStrand(s, t),
         NEW m \in Messages, NEW p \in Places, Steady(m), t.msg = m,
         at[m] \in {"unsent"} \cup Unrouted, at[m] # "waiting",
         \/ Route(t) /\ s = Notify /\ p = "waiting"
         \/ ~Route(t) /\ s = Home(m) /\ t = TaskOf(m) /\ p = "queued",
         \A n \in Messages \ {m} : at[n] \in Behind(t) => arrivedAt[n] < arrivedAt'[m],
         NoneTakes(m)
  PROVE  OnStrands(Moved(at, m, p))' /\ InPool(Moved(at, m, p))' /\ Ahead'
<1>1. strand' = [strand EXCEPT ![s] = Append(@, t)]
  BY DEF PostStrand
<1>2. at[m] \notin {"waiting", "queued", "pooled"}
  BY DEF Unrouted
<1>3. InPool(Moved(at, m, p))'
  <2>1. \/ UNCHANGED <<interactive, background>>
        \/ \E x \in Strands : PostPool("interactive", DrainTask(x))
    BY DEF PostStrand
  <2> QED
    BY <1>2, <2>1, DrainPosted
<1>4. \A i \in 1 .. Len(strand[s]) :
        (Route(t) <=> Route(strand[s][i])) => arrivedAt[strand[s][i].msg] < arrivedAt'[m]
  <2>1. TAKE i \in 1 .. Len(strand[s])
  <2>2. strand[s][i].msg \in Messages /\ strand[s][i].msg # m
    BY <1>2, StrandShape DEF OnStrands
  <2>3. at[strand[s][i].msg] = IF Route(strand[s][i]) THEN "waiting" ELSE "queued"
    BY DEF OnStrands
  <2> QED
    BY <2>2, <2>3 DEF Behind
<1>5. OnStrands(Moved(at, m, p))'
  BY <1>1, <1>2, <1>4, StrandsAppend
<1>6. TakenBefore(s, t, m)
  <2>1. SUFFICES ASSUME NEW v \in Workers PROVE
          worker'[v].at = "task" /\ worker'[v].strand = s /\ (Route(worker'[v].task) <=> Route(t))
            => arrivedAt[Msg(v)] < arrivedAt'[m]
    BY DEF TakenBefore
  <2>2. HAVE worker'[v].at = "task" /\ worker'[v].strand = s /\ (Route(worker'[v].task) <=> Route(t))
  <2>3. s # None
    BY ConstantsAssumption
  <2>4. worker'[v] = worker[v] /\ Msg(v) # m
    BY <2>2, <2>3 DEF NoneTakes
  <2>5. Busy(v) /\ ~Sending(v)
    BY <2>2, <2>4 DEF Busy, Sending
  <2>6. Msg(v) \in Messages \ {m} /\ at[Msg(v)] = PlaceOn(v)
    BY <2>4, <2>5, ThreadShape DEF OnThreads
  <2>7. PlaceOn(v) \in Behind(t)
    BY <2>2, <2>4, <2>5 DEF PlaceOn, Behind
  <2> QED
    BY <2>6, <2>7
<1>7. Ahead'
  <2>1. at[m] \notin {"waiting", "queued"}
    BY <1>2
  <2> QED
    BY <1>1, <1>6, <2>1, AheadAppend
<1> QED
  BY <1>3, <1>5, <1>7

(* Routing a message, wherever it was until then. *)
Answered(at, m) ==
  \E o \in {"error", "refused"} :
    /\ Answer(m, o) /\ UNCHANGED <<early, inflight, cancelled, queueVars>>
    /\ o = "refused" => \E q \in Requests \ {m} : IdOf[q] = IdOf[m] /\ at[q] \in Registered

LEMMA RunRequestCases ==
  ASSUME TypeOK, NEW at \in Placed, Entered(at), NEW m \in Requests, at[m] \notin Registered,
         NEW a, RunRequest(m, a)
  PROVE  \/ Answered(at, m)
         \/ /\ ModeOf[m] # "unknown" /\ ~InUse(IdOf[m])
            /\ inflight' = [inflight EXCEPT ![IdOf[m]] = m] /\ UNCHANGED answers
            /\ PostRequest(m)
<1>1. CASE ModeOf[m] = "unknown" /\ Answer(m, "error") /\ UNCHANGED <<early, inflight, cancelled, queueVars>>
  BY <1>1 DEF Answered
<1>2. CASE InUse(IdOf[m]) /\ Refuse(m)
  <2>1. IdOf[m] \in Ids
    BY ConstantsAssumption
  <2>2. PICK q \in Requests : inflight[IdOf[m]] = q
    BY <1>2, <2>1 DEF InUse, TypeOK
  <2>3. IdOf[q] = IdOf[m] /\ at[q] \in Registered
    BY <2>1, <2>2, ConstantsAssumption DEF Entered, Messages
  <2>4. q # m
    BY <2>3
  <2> QED
    BY <1>2, <2>3, <2>4 DEF Answered, Refuse
<1> QED
  BY <1>1, <1>2 DEF RunRequest

(* What is left true of the places when m goes to p. *)
Rests(at, m, p) ==
  /\ Course(Moved(at, m, p)) /\ OnStrands(Moved(at, m, p))' /\ InPool(Moved(at, m, p))'
  /\ Entered(Moved(at, m, p))' /\ Ahead'

LEMMA AnswerRests ==
  ASSUME TypeOK, NEW at \in Placed, Course(at), OnStrands(at), InPool(at), Ahead, Entered(at),
         NEW m \in Requests, at[m] \in {"unsent", "held", "routing"}, Steady(m), NoneTakes(m),
         Answered(at, m)
  PROVE  Rests(at, m, "done")
<1>0. m \in Messages /\ "done" \in Places
  BY DEF Messages, Places, Routed
<1>1. UNCHANGED <<strand, interactive, background, inflight>>
  BY DEF Answered, queueVars
<1>2. OnStrands(Moved(at, m, "done"))'
  BY <1>0, <1>1, StrandsFrame
<1>3. InPool(Moved(at, m, "done"))'
  BY <1>0, <1>1, DrainPosted
<1>4. Entered(Moved(at, m, "done"))'
  <2>1. PICK o \in {"error", "refused"} : Answer(m, o)
    BY DEF Answered
  <2>2. at[m] \notin Registered \cup {"done"}
    BY DEF Registered
  <2> QED
    BY <1>1, <2>1, <2>2, EnteredAnswer
<1>5. Ahead'
  BY <1>0, <1>1, AheadStands
<1>6. Course(Moved(at, m, "done"))
  BY <1>0, ConstantsAssumption, CourseMoved
<1> QED
  BY <1>2, <1>3, <1>4, <1>5, <1>6 DEF Rests

LEMMA RegisterRests ==
  ASSUME TypeOK, NEW at \in Placed, Course(at), OnStrands(at), OnThreads(at), InPool(at), Ahead, Entered(at),
         NEW m \in Requests, at[m] \in {"unsent", "held", "routing"}, Steady(m), NoneTakes(m),
         \A n \in Messages \ {m} : at[n] \in {"queued", "opened", "called"} => arrivedAt[n] < arrivedAt'[m],
         ModeOf[m] # "unknown", ~InUse(IdOf[m]), inflight' = [inflight EXCEPT ![IdOf[m]] = m],
         UNCHANGED answers, PostRequest(m)
  PROVE  \E p \in {"queued", "pooled", "lost"} :
           Rests(at, m, p) /\ (p = "pooled" => ModeOf[m] \notin {"serial", "after"})
<1>0. m \in Messages /\ m \notin Cancels \cup Notices
  BY ConstantsAssumption DEF Messages
<1>1. at[m] \notin Registered \cup {"done"} /\ at[m] \in {"unsent"} \cup Unrouted /\ at[m] # "waiting"
  BY DEF Registered, Unrouted
<1>2. \A p \in {"queued", "pooled", "lost"} :
        /\ p \in Places /\ p \in Routed /\ p \in Registered
        /\ Entered(Moved(at, m, p))'
        /\ (p = "queued" => ModeOf[m] \in {"serial", "after"}) => Course(Moved(at, m, p))
  <2>1. TAKE p \in {"queued", "pooled", "lost"}
  <2>2. p \in Places /\ p \in Routed /\ p \in Registered /\ p # "opened"
    BY DEF Places, Routed, Registered
  <2>3. Entered(Moved(at, m, p))'
    BY <1>1, <2>2, EnteredRegister
  <2>4. (p = "queued" => ModeOf[m] \in {"serial", "after"}) => Course(Moved(at, m, p))
    BY <1>0, <2>2, CourseMoved
  <2> QED
    BY <2>2, <2>3, <2>4
<1>3. ASSUME NEW s \in Strands, NEW t \in StrandTasks, PostStrand(s, t), t.msg = m, ~Route(t),
             s = Home(m), t = TaskOf(m), ModeOf[m] \in {"serial", "after"}
      PROVE  Rests(at, m, "queued")
  <2>1. \A n \in Messages \ {m} : at[n] \in Behind(t) => arrivedAt[n] < arrivedAt'[m]
    BY <1>3 DEF Behind
  <2>2. OnStrands(Moved(at, m, "queued"))' /\ InPool(Moved(at, m, "queued"))' /\ Ahead'
    BY <1>0, <1>1, <1>2, <1>3, <2>1, StrandPosted
  <2> QED
    BY <1>2, <1>3, <2>2 DEF Rests
<1>4. CASE ModeOf[m] = "serial"
  <2>1. LaneOf[m] \in Strands /\ RunTask(m) \in StrandTasks /\ PostStrand(LaneOf[m], RunTask(m))
    BY <1>4, ConstantsAssumption, TaskTypes DEF PostRequest, Strands
  <2>2. ~Route(RunTask(m)) /\ RunTask(m).msg = m
    BY DEF RunTask, Route
  <2>3. LaneOf[m] = Home(m) /\ RunTask(m) = TaskOf(m)
    BY <1>0, <1>4 DEF Home, TaskOf, Serial
  <2> QED
    BY <1>3, <1>4, <2>1, <2>2, <2>3
<1>5. CASE ModeOf[m] = "after"
  <2>1. Notify \in Strands /\ StartTask(m) \in StrandTasks /\ PostStrand(Notify, StartTask(m))
    BY <1>5, TaskTypes DEF PostRequest, Strands
  <2>2. ~Route(StartTask(m)) /\ StartTask(m).msg = m
    BY DEF StartTask, Route
  <2>3. Notify = Home(m) /\ StartTask(m) = TaskOf(m)
    BY <1>0, <1>5 DEF Home, TaskOf, Serial
  <2> QED
    BY <1>3, <1>5, <2>1, <2>2, <2>3
<1>6. CASE ModeOf[m] \notin {"serial", "after"}
  <2>1. PostPool(PriorityOf[m], RunTask(m)) /\ UNCHANGED strand
    BY <1>6 DEF PostRequest
  <2>2. PICK p \in {"pooled", "lost"} : p = PoolPlace
    BY DEF PoolPlace
  <2>3. ~Serial(m) /\ at[m] # "pooled"
    BY <1>6 DEF Serial
  <2>4. InPool(Moved(at, m, p))'
    BY <1>2, <2>1, <2>2, <2>3, RunPosted
  <2>5. OnStrands(Moved(at, m, p))'
    BY <1>0, <1>2, <2>1, StrandsFrame
  <2>6. Ahead'
    BY <1>0, <2>1, AheadStands
  <2> QED
    BY <1>2, <1>6, <2>4, <2>5, <2>6 DEF Rests
<1> QED
  BY <1>4, <1>5, <1>6

LEMMA CancelRests ==
  ASSUME TypeOK, NEW at \in Placed, Course(at), OnStrands(at), InPool(at), Ahead, Entered(at),
         NEW m \in Cancels, at[m] \in {"unsent", "held", "routing"}, Steady(m), NoneTakes(m),
         NEW a, CancelRequest(m, a)
  PROVE  Rests(at, m, "done")
<1>0. m \in Messages /\ "done" \in Places /\ m \notin Requests \cup Notices
  BY ConstantsAssumption DEF Messages, Places, Routed
<1>1. UNCHANGED <<strand, interactive, background, inflight, answers>>
  BY DEF CancelRequest, queueVars
<1>2. OnStrands(Moved(at, m, "done"))'
  BY <1>0, <1>1, StrandsFrame
<1>3. InPool(Moved(at, m, "done"))'
  BY <1>0, <1>1, DrainPosted
<1>4. Entered(Moved(at, m, "done"))'
  BY <1>0, <1>1, EnteredFrame
<1>5. Ahead'
  BY <1>0, <1>1, AheadStands
<1>6. Course(Moved(at, m, "done"))
  BY <1>0, CourseMoved
<1> QED
  BY <1>2, <1>3, <1>4, <1>5, <1>6 DEF Rests

LEMMA NoticeRests ==
  ASSUME TypeOK, NEW at \in Placed, Course(at), OnStrands(at), OnThreads(at), InPool(at), Ahead, Entered(at),
         NEW m \in Notices, at[m] \in {"unsent", "held", "routing"}, Steady(m), NoneTakes(m),
         \A n \in Messages \ {m} : at[n] \in {"queued", "opened", "called"} => arrivedAt[n] < arrivedAt'[m],
         PostStrand(Notify, NotifyTask(m)), UNCHANGED requestVars
  PROVE  Rests(at, m, "queued")
<1>0. m \in Messages /\ "queued" \in Places /\ m \notin Requests \cup Cancels
  BY ConstantsAssumption DEF Messages, Places, Routed
<1>1. UNCHANGED <<inflight, answers>>
  BY DEF requestVars
<1>2. Notify \in Strands /\ NotifyTask(m) \in StrandTasks
  BY TaskTypes DEF Strands
<1>3. ~Route(NotifyTask(m)) /\ NotifyTask(m).msg = m /\ Notify = Home(m) /\ NotifyTask(m) = TaskOf(m)
  BY <1>0 DEF NotifyTask, Route, Home, TaskOf, Serial
<1>4. \A n \in Messages \ {m} : at[n] \in Behind(NotifyTask(m)) => arrivedAt[n] < arrivedAt'[m]
  BY <1>3 DEF Behind
<1>5. at[m] \in {"unsent"} \cup Unrouted /\ at[m] # "waiting"
  BY DEF Unrouted
<1>6. OnStrands(Moved(at, m, "queued"))' /\ InPool(Moved(at, m, "queued"))' /\ Ahead'
  BY <1>0, <1>2, <1>3, <1>4, <1>5, StrandPosted
<1>7. Entered(Moved(at, m, "queued"))'
  BY <1>0, <1>1, EnteredFrame
<1>8. Course(Moved(at, m, "queued"))
  BY <1>0, CourseMoved
<1> QED
  BY <1>6, <1>7, <1>8 DEF Rests

(* A routed message is answered, posted or done with. *)
Fitting(m, p) ==
  /\ m \in Cancels => p = "done"
  /\ m \in Notices => p = "queued"
  /\ m \in Requests /\ ModeOf[m] \in {"serial", "after"} => p # "pooled"

LEMMA RouteRests ==
  ASSUME TypeOK, NEW at \in Placed, Course(at), OnStrands(at), OnThreads(at), InPool(at), Ahead, Entered(at),
         NEW m \in Messages, at[m] \in {"unsent", "held", "routing"}, Steady(m), NoneTakes(m),
         \A n \in Messages \ {m} : at[n] \in {"queued", "opened", "called"} => arrivedAt[n] < arrivedAt'[m],
         NEW a, RouteMessage(m, a)
  PROVE  \E p \in {"queued", "pooled", "lost", "done"} : Rests(at, m, p) /\ Fitting(m, p)
<1>2. CASE m \in Requests /\ RunRequest(m, a)
  <2>1. at[m] \notin Registered /\ m \notin Cancels \cup Notices
    BY <1>2, ConstantsAssumption DEF Registered
  <2>2. CASE Answered(at, m)
    BY <1>2, <2>1, <2>2, AnswerRests DEF Fitting
  <2>3. CASE /\ ModeOf[m] # "unknown" /\ ~InUse(IdOf[m])
             /\ inflight' = [inflight EXCEPT ![IdOf[m]] = m] /\ UNCHANGED answers
             /\ PostRequest(m)
    <3>1. PICK p \in {"queued", "pooled", "lost"} :
            Rests(at, m, p) /\ (p = "pooled" => ModeOf[m] \notin {"serial", "after"})
      BY <1>2, <2>1, <2>3, RegisterRests
    <3> QED
      BY <2>1, <3>1 DEF Fitting
  <2> QED
    BY <1>2, <2>1, <2>2, <2>3, RunRequestCases
<1>3. CASE m \in Cancels /\ CancelRequest(m, a)
  <2>1. m \notin Requests \cup Notices
    BY <1>3, ConstantsAssumption
  <2> QED
    BY <1>3, <2>1, CancelRests DEF Fitting
<1>4. CASE m \in Notices /\ PostStrand(Notify, NotifyTask(m)) /\ UNCHANGED requestVars
  <2>1. m \notin Cancels \cup Requests
    BY <1>4, ConstantsAssumption
  <2> QED
    BY <1>4, <2>1, NoticeRests DEF Fitting
<1> QED
  BY <1>2, <1>3, <1>4 DEF RouteMessage

LEMMA QueueRests ==
  ASSUME TypeOK, NEW at \in Placed, Course(at), OnStrands(at), OnThreads(at), InPool(at), Ahead, Entered(at),
         NEW m \in Messages, at[m] \in {"unsent", "held"}, Steady(m), NoneTakes(m),
         \A n \in Messages \ {m} : arrivedAt[n] < arrivedAt'[m],
         NEW big \in BOOLEAN, QueueRoute(m, big), UNCHANGED requestVars
  PROVE  Rests(at, m, "waiting")
<1> DEFINE t == RouteTask(m, lastQueued + 1, big)
<1>1. Notify \in Strands /\ t \in StrandTasks /\ PostStrand(Notify, t)
  <2>1. lastQueued + 1 \in Nat
    BY DEF TypeOK
  <2> QED
    BY <2>1, HomeIsStrand, TaskTypes DEF QueueRoute
<1>2. Route(t) /\ t.msg = m
  BY DEF Route, RouteTask
<1> HIDE DEF t
<1>3. "waiting" \in Places /\ at[m] \in {"unsent"} \cup Unrouted /\ at[m] # "waiting"
      /\ "waiting" \notin Registered \cup {"done"} /\ at[m] \notin Registered \cup {"done"}
  BY DEF Places, Unrouted, Registered
<1>4. OnStrands(Moved(at, m, "waiting"))' /\ InPool(Moved(at, m, "waiting"))' /\ Ahead'
  BY <1>1, <1>2, <1>3, StrandPosted
<1>5. Entered(Moved(at, m, "waiting"))'
  BY <1>3, EnteredFrame DEF requestVars
<1>6. Course(Moved(at, m, "waiting"))
  BY <1>3, CourseMoved DEF Unrouted
<1> QED
  BY <1>4, <1>5, <1>6 DEF Rests

LEMMA NoneTakesNew ==
  ASSUME TypeOK, NEW at, OnThreads(at), NEW m, at[m] \notin OnThread, UNCHANGED worker
  PROVE  NoneTakes(m)
  BY ThreadShape DEF NoneTakes, OnThreads, Busy

LEMMA LocatedBy ==
  ASSUME NEW at \in Placed, NEW m \in Messages, NEW p \in Places, Rests(at, m, p),
         Stamped(Moved(at, m, p))', OnThreads(Moved(at, m, p))', InTurn(Moved(at, m, p))'
  PROVE  Located(Moved(at, m, p))'
  BY MovedTo DEF Rests, Located, Course

-----------------------------------------------------------------------------
(* The counters. *)
At(q, T) == {i \in 1 .. Len(q) : q[i] \in T}

LEMMA AtFinite ==
  ASSUME NEW S, NEW q \in Seq(S), NEW T
  PROVE  IsFiniteSet(At(q, T)) /\ Cardinality(At(q, T)) \in Nat
<1>1. IsFiniteSet(1 .. Len(q))
  BY FS_Interval
<1>2. At(q, T) \subseteq 1 .. Len(q)
  BY DEF At
<1> QED
  BY <1>1, <1>2, FS_Subset, FS_CardinalityType

LEMMA CountAppend ==
  ASSUME NEW S, NEW q \in Seq(S), NEW t \in S, NEW T
  PROVE  Cardinality(At(Append(q, t), T)) = Cardinality(At(q, T)) + (IF t \in T THEN 1 ELSE 0)
<1> DEFINE k == Len(q)
           a == Append(q, t)
<1>1. /\ k \in Nat /\ Len(a) = k + 1 /\ a[k + 1] = t
      /\ \A i \in 1 .. k : a[i] = q[i] /\ i \in 1 .. k + 1 /\ i # k + 1
      /\ \A i \in 1 .. k + 1 : i \in 1 .. k \/ i = k + 1
      /\ k + 1 \in 1 .. k + 1
  BY AppendAt
<1> HIDE DEF a, k
<1>2. At(a, T) = IF t \in T THEN At(q, T) \cup {k + 1} ELSE At(q, T)
  BY <1>1 DEF At, k
<1>3. k + 1 \notin At(q, T)
  BY <1>1 DEF At, k
<1>4. IsFiniteSet(At(q, T)) /\ Cardinality(At(q, T)) \in Nat
  BY AtFinite
<1>5. CASE t \in T
  <2>1. Cardinality(At(q, T) \cup {k + 1}) = Cardinality(At(q, T)) + 1
    BY <1>3, <1>4, FS_AddElement
  <2> QED
    BY <1>2, <1>5, <2>1 DEF a
<1>6. CASE t \notin T
  BY <1>2, <1>4, <1>6 DEF a
<1> QED
  BY <1>5, <1>6

LEMMA CountTail ==
  ASSUME NEW S, NEW q \in Seq(S), q # <<>>, NEW T
  PROVE  Cardinality(At(q, T)) = Cardinality(At(Tail(q), T)) + (IF Head(q) \in T THEN 1 ELSE 0)
<1> DEFINE k == Len(q)
           a == Tail(q)
           A == At(q, T) \ {1}
           B == At(a, T)
           f == [i \in A |-> i - 1]
<1>1. /\ k \in Nat \ {0} /\ Len(a) = k - 1 /\ Head(q) = q[1] /\ 1 \in 1 .. k
      /\ \A i \in 1 .. k - 1 : a[i] = q[i + 1] /\ i + 1 \in 1 .. k /\ i + 1 # 1
      /\ \A i \in 1 .. k : i # 1 => i - 1 \in 1 .. k - 1 /\ a[i - 1] = q[i]
  BY TailAt
<1> HIDE DEF a, k
<1>2. f \in [A -> B]
  BY <1>1 DEF At, k
<1>3. \A i, j \in A : f[i] = f[j] => i = j
  BY DEF At
<1>4. \A j \in B : j + 1 \in A /\ f[j + 1] = j
  BY <1>1 DEF At, k
<1>5. f \in Bijection(A, B)
  <2> HIDE DEF A, B, f
  <2>1. \A j \in B : \E i \in A : f[i] = j
    BY <1>4
  <2> QED
    BY <1>2, <1>3, <2>1 DEF Bijection, Injection, Surjection, IsInjective
<1>6. IsFiniteSet(At(q, T)) /\ Cardinality(At(q, T)) \in Nat
  BY AtFinite
<1>7. IsFiniteSet(A) /\ Cardinality(A) = IF 1 \in At(q, T) THEN Cardinality(At(q, T)) - 1 ELSE Cardinality(At(q, T))
  BY <1>6, FS_RemoveElement
<1>8. Cardinality(B) = Cardinality(A)
  BY <1>5, <1>7, FS_Bijection DEF ExistsBijection
<1>9. 1 \in At(q, T) <=> Head(q) \in T
  BY <1>1 DEF At, k
<1> QED
  BY <1>6, <1>7, <1>8, <1>9 DEF a

(* What waits, and which thread routes. *)
Routes == {t \in StrandTasks : Route(t)}
BigRoutes == {t \in StrandTasks : Route(t) /\ t.big}
Routing(w) == Executing(w, "route") \/ worker[w].at = "routed"
RoutingThreads == {w \in Workers : Routing(w)}
BigThreads == {w \in Workers : Routing(w) /\ worker[w].task.big}

Counted ==
  /\ queuedRoutes = Cardinality(At(strand[Notify], Routes)) + Cardinality(RoutingThreads)
  /\ deferred = Cardinality(At(strand[Notify], BigRoutes)) + Cardinality(BigThreads)

LEMMA CountedIs == ASSUME TypeOK PROVE CountersExact <=> Counted
<1>1. strand[Notify] \in Seq(StrandTasks)
  BY HomeIsStrand DEF TypeOK
<1>2. \A i \in 1 .. Len(strand[Notify]) : strand[Notify][i] \in StrandTasks
  BY <1>1
<1> DEFINE waiting == {i \in 1..Len(strand[Notify]) : strand[Notify][i].kind = "route"}
           big == {i \in waiting : strand[Notify][i].big}
           routing == {w \in Workers : Executing(w, "route") \/ worker[w].at = "routed"}
           bigNow == {w \in routing : worker[w].task.big}
<1>3. waiting = At(strand[Notify], Routes) /\ big = At(strand[Notify], BigRoutes)
  BY <1>2 DEF At, Routes, BigRoutes, Route
<1>4. routing = RoutingThreads /\ bigNow = BigThreads
  BY DEF RoutingThreads, BigThreads, Routing
<1>5. CountersExact <=>
        /\ queuedRoutes = Cardinality(waiting) + Cardinality(routing)
        /\ deferred = Cardinality(big) + Cardinality(bigNow)
  BY DEF CountersExact
<1> HIDE DEF waiting, big, routing, bigNow
<1> QED
  BY <1>3, <1>4, <1>5 DEF Counted

LEMMA CountedIsNext == TypeOK' => (CountersExact' <=> Counted')
<1>1. TypeOK => (CountersExact <=> Counted)
  BY CountedIs
<1> QED
  BY <1>1, PTL

(* At most one thread routes. *)
LEMMA OneRoutes ==
  ASSUME TypeOK, StrandExclusion, NEW at, OnThreads(at), NEW w \in Workers
  PROVE  /\ Routing(w) => RoutingThreads = {w} /\ BigThreads = IF worker[w].task.big THEN {w} ELSE {}
         /\ worker[w].strand = Notify /\ ~Routing(w) => RoutingThreads = {} /\ BigThreads = {}
<1>1. Notify # None
  BY ConstantsAssumption DEF Strands
<1>2. \A v \in Workers : Routing(v) => worker[v].strand = Notify
  BY DEF OnThreads, Routing, Executing, Busy, StrandOf, Route
<1>3. \A v \in Workers : Routing(v) /\ worker[w].strand = Notify => v = w
  BY <1>1, <1>2 DEF StrandExclusion
<1> QED
  BY <1>2, <1>3 DEF RoutingThreads, BigThreads

LEMMA ThreadsFinite ==
  ASSUME TypeOK, StrandExclusion, NEW at, OnThreads(at)
  PROVE  Cardinality(RoutingThreads) \in Nat /\ Cardinality(BigThreads) \in Nat
<1>1. CASE RoutingThreads = {}
  <2>1. BigThreads = {}
    BY <1>1 DEF RoutingThreads, BigThreads
  <2> QED
    BY <1>1, <2>1, FS_EmptySet
<1>2. ASSUME NEW w \in Workers, Routing(w)
      PROVE  Cardinality(RoutingThreads) \in Nat /\ Cardinality(BigThreads) \in Nat
  <2>1. RoutingThreads = {w} /\ BigThreads \in {{w}, {}}
    BY <1>2, OneRoutes
  <2>2. Cardinality({w}) = 1
    BY FS_Singleton, Zenon
  <2>3. Cardinality({}) = 0
    BY FS_EmptySet, Zenon
  <2> QED
    BY <2>1, <2>2, <2>3
<1> QED
  BY <1>1, <1>2 DEF RoutingThreads

(* The notification strand gains no payload to route, and the threads that route stay. *)
SameRoutes ==
  \/ strand'[Notify] = strand[Notify]
  \/ \E t \in StrandTasks : ~Route(t) /\ strand'[Notify] = Append(strand[Notify], t)

SameThreads ==
  \A v \in Workers : (Routing(v)' <=> Routing(v)) /\ (Routing(v) => worker'[v].task = worker[v].task)

LEMMA SameThreadsCount == ASSUME SameThreads PROVE UNCHANGED <<RoutingThreads, BigThreads>>
  BY DEF SameThreads, RoutingThreads, BigThreads

LEMMA SameRoutesCount ==
  ASSUME TypeOK, SameRoutes
  PROVE  /\ Cardinality(At(strand'[Notify], Routes)) = Cardinality(At(strand[Notify], Routes))
         /\ Cardinality(At(strand'[Notify], BigRoutes)) = Cardinality(At(strand[Notify], BigRoutes))
<1>1. strand[Notify] \in Seq(StrandTasks)
  BY HomeIsStrand DEF TypeOK
<1>2. Cardinality(At(strand[Notify], Routes)) \in Nat /\ Cardinality(At(strand[Notify], BigRoutes)) \in Nat
  BY <1>1, AtFinite
<1>3. ASSUME NEW t \in StrandTasks, ~Route(t), strand'[Notify] = Append(strand[Notify], t)
      PROVE  /\ Cardinality(At(strand'[Notify], Routes)) = Cardinality(At(strand[Notify], Routes))
             /\ Cardinality(At(strand'[Notify], BigRoutes)) = Cardinality(At(strand[Notify], BigRoutes))
  <2>1. t \notin Routes /\ t \notin BigRoutes
    BY <1>3 DEF Routes, BigRoutes
  <2> QED
    BY <1>1, <1>2, <1>3, <2>1, CountAppend
<1> QED
  BY <1>3 DEF SameRoutes

LEMMA CountersFrame ==
  ASSUME TypeOK, CountersExact, SameRoutes, SameThreads, UNCHANGED <<queuedRoutes, deferred>>, TypeOK'
  PROVE  CountersExact'
<1>1. Counted'
  BY CountedIs, SameThreadsCount, SameRoutesCount DEF Counted
<1> QED
  BY <1>1, CountedIsNext

(* A payload joins the queue of routes. *)
LEMMA CountersQueue ==
  ASSUME TypeOK, TypeOK', CountersExact, StrandExclusion, NEW at, OnThreads(at), SameThreads,
         NEW m \in Messages, NEW big \in BOOLEAN, QueueRoute(m, big),
         deferred' = deferred + (IF big THEN 1 ELSE 0)
  PROVE  CountersExact'
<1> DEFINE t == RouteTask(m, lastQueued + 1, big)
<1>1. t \in StrandTasks /\ (t \in Routes) /\ (t \in BigRoutes <=> big)
  <2>1. lastQueued + 1 \in Nat
    BY DEF TypeOK
  <2>2. t \in StrandTasks
    BY <2>1, TaskTypes
  <2> QED
    BY <2>2 DEF Routes, BigRoutes, Route, RouteTask
<1>2. strand[Notify] \in Seq(StrandTasks)
  BY HomeIsStrand DEF TypeOK
<1>3. strand'[Notify] = Append(strand[Notify], t) /\ queuedRoutes' = queuedRoutes + 1
  BY HomeIsStrand DEF QueueRoute, PostStrand, TypeOK
<1>4. Counted
  BY CountedIs
<1>5. /\ Cardinality(At(strand[Notify], Routes)) \in Nat /\ Cardinality(At(strand[Notify], BigRoutes)) \in Nat
      /\ Cardinality(RoutingThreads) \in Nat /\ Cardinality(BigThreads) \in Nat
  BY <1>2, AtFinite, ThreadsFinite
<1>6. UNCHANGED <<RoutingThreads, BigThreads>>
  BY SameThreadsCount
<1> HIDE DEF t
<1>7. /\ Cardinality(At(strand'[Notify], Routes)) = Cardinality(At(strand[Notify], Routes)) + 1
      /\ Cardinality(At(strand'[Notify], BigRoutes))
           = Cardinality(At(strand[Notify], BigRoutes)) + (IF big THEN 1 ELSE 0)
  BY <1>1, <1>2, <1>3, CountAppend
<1>8. Counted'
  BY <1>3, <1>4, <1>5, <1>6, <1>7 DEF Counted
<1> QED
  BY <1>8, CountedIsNext

(* A thread takes the next task off a strand. *)
LEMMA CountersNext ==
  ASSUME TypeOK, TypeOK', CountersExact, StrandExclusion, NEW at, OnThreads(at), OnStrands(at),
         NEW w \in Workers, DrainNext(w)
  PROVE  CountersExact'
<1>1. PICK s \in Strands : worker[w].strand = s
  BY WorkerShape DEF DrainNext
<1>2. /\ worker[w].at = "drain" /\ strand[s] # <<>> /\ strand[s] \in Seq(StrandTasks)
      /\ strand'[s] = Tail(strand[s]) /\ (\A x \in Strands \ {s} : strand'[x] = strand[x])
      /\ worker'[w] = [at |-> "task", strand |-> s, task |-> Head(strand[s])]
      /\ (\A v \in Workers \ {w} : worker'[v] = worker[v])
      /\ UNCHANGED <<queuedRoutes, deferred>>
  BY <1>1 DEF DrainNext, Become, TypeOK, routeVars
<1>3. ~Routing(w) /\ \A v \in Workers \ {w} : Routing(v)' <=> Routing(v)
  BY <1>2 DEF Routing, Executing
<1>4. Routing(w)' <=> Route(Head(strand[s]))
  BY <1>2 DEF Routing, Executing, Route
<1>5. Head(strand[s]) \in StrandTasks /\ 1 \in 1 .. Len(strand[s]) /\ Head(strand[s]) = strand[s][1]
  BY <1>2, TailAt, HeadTailType
<1>6. CASE ~Route(Head(strand[s]))
  <2>1. SameThreads
    BY <1>2, <1>3, <1>4, <1>6 DEF SameThreads
  <2>2. UNCHANGED <<RoutingThreads, BigThreads>>
    BY <2>1, SameThreadsCount
  <2>3. /\ Cardinality(At(strand'[Notify], Routes)) = Cardinality(At(strand[Notify], Routes))
        /\ Cardinality(At(strand'[Notify], BigRoutes)) = Cardinality(At(strand[Notify], BigRoutes))
    <3>1. CASE s = Notify
      <4>1. Head(strand[s]) \notin Routes /\ Head(strand[s]) \notin BigRoutes
        BY <1>6 DEF Routes, BigRoutes
      <4>2. Tail(strand[s]) \in Seq(StrandTasks)
        BY <1>2, HeadTailType
      <4>3. \A T : Cardinality(At(Tail(strand[s]), T)) \in Nat
        BY <4>2, AtFinite
      <4> QED
        BY <1>2, <3>1, <4>1, <4>3, CountTail
    <3>2. CASE s # Notify
      BY <1>2, <3>2, HomeIsStrand
    <3> QED
      BY <3>1, <3>2
  <2>4. Counted'
    BY <1>2, <2>2, <2>3, CountedIs DEF Counted
  <2> QED
    BY <2>4, CountedIsNext
<1>7. CASE Route(Head(strand[s]))
  <2>1. s = Notify
    BY <1>5, <1>7 DEF OnStrands
  <2>2. RoutingThreads = {} /\ BigThreads = {}
    BY <1>1, <1>3, <2>1, OneRoutes
  <2>3. RoutingThreads' = {w} /\ BigThreads' = IF Head(strand[s]).big THEN {w} ELSE {}
    BY <1>2, <1>3, <1>4, <1>7, <2>2 DEF RoutingThreads, BigThreads
  <2>4. Head(strand[s]) \in Routes /\ (Head(strand[s]) \in BigRoutes <=> Head(strand[s]).big)
    BY <1>5, <1>7 DEF Routes, BigRoutes
  <2>5. Cardinality({}) = 0
    BY FS_EmptySet, Zenon
  <2>6. Cardinality({w}) = 1
    BY FS_Singleton, Zenon
  <2>7. Tail(strand[s]) \in Seq(StrandTasks)
    BY <1>2, HeadTailType
  <2>8. \A T : Cardinality(At(Tail(strand[s]), T)) \in Nat
    BY <2>7, AtFinite
  <2>9. /\ Cardinality(At(strand[Notify], Routes)) = Cardinality(At(strand'[Notify], Routes)) + 1
        /\ Cardinality(At(strand[Notify], BigRoutes))
             = Cardinality(At(strand'[Notify], BigRoutes)) + (IF Head(strand[s]).big THEN 1 ELSE 0)
    BY <1>2, <2>1, <2>4, CountTail
  <2>10. Cardinality(At(strand'[Notify], Routes)) \in Nat /\ Cardinality(At(strand'[Notify], BigRoutes)) \in Nat
    BY <1>2, <2>1, <2>8
  <2>11. Counted'
    BY <1>2, <2>2, <2>3, <2>5, <2>6, <2>9, <2>10, CountedIs DEF Counted
  <2> QED
    BY <2>11, CountedIsNext
<1> QED
  BY <1>6, <1>7

(* A routed payload is counted out. *)
LEMMA CountersFinish ==
  ASSUME TypeOK, TypeOK', CountersExact, StrandExclusion, NEW at, OnThreads(at),
         NEW w \in Workers, FinishQueuedRoute(w)
  PROVE  CountersExact'
<1>1. /\ worker[w].at = "routed" /\ worker'[w].at \in {"idle", "drain"}
      /\ (\A v \in Workers \ {w} : worker'[v] = worker[v])
      /\ UNCHANGED strand /\ queuedRoutes' = queuedRoutes - 1
      /\ deferred' = IF worker[w].task.big THEN deferred - 1 ELSE deferred
  BY DEF FinishQueuedRoute, Return, Become, TypeOK, Released, queueVars
<1>2. Routing(w) /\ ~Routing(w)' /\ \A v \in Workers \ {w} : Routing(v)' <=> Routing(v)
  BY <1>1 DEF Routing, Executing
<1>3. RoutingThreads = {w} /\ BigThreads = IF worker[w].task.big THEN {w} ELSE {}
  BY <1>2, OneRoutes
<1>4. RoutingThreads' = {} /\ BigThreads' = {}
  BY <1>1, <1>2, <1>3 DEF RoutingThreads, BigThreads
<1>5. Cardinality({}) = 0
  BY FS_EmptySet, Zenon
<1>6. Cardinality({w}) = 1
  BY FS_Singleton, Zenon
<1>7. strand[Notify] \in Seq(StrandTasks)
  BY HomeIsStrand DEF TypeOK
<1>8. Cardinality(At(strand[Notify], Routes)) \in Nat /\ Cardinality(At(strand[Notify], BigRoutes)) \in Nat
  BY <1>7, AtFinite
<1>9. Counted'
  BY <1>1, <1>3, <1>4, <1>5, <1>6, <1>8, CountedIs DEF Counted
<1> QED
  BY <1>9, CountedIsNext

(* With nothing queued, nothing is to be routed. *)
LEMMA NothingQueued ==
  ASSUME TypeOK, CountersExact, StrandExclusion, NEW at \in Placed, OnThreads(at), OnStrands(at), ~(queuedRoutes > 0)
  PROVE  \A m \in Messages : at[m] \notin {"waiting", "routing"}
<1>1. strand[Notify] \in Seq(StrandTasks)
  BY HomeIsStrand DEF TypeOK
<1>2. /\ IsFiniteSet(At(strand[Notify], Routes)) /\ Cardinality(At(strand[Notify], Routes)) \in Nat
      /\ Cardinality(RoutingThreads) \in Nat
  BY <1>1, AtFinite, ThreadsFinite
<1>3. Cardinality(At(strand[Notify], Routes)) = 0 /\ Cardinality(RoutingThreads) = 0
  BY <1>2, CountedIs DEF Counted
<1>4. At(strand[Notify], Routes) = {}
  BY <1>2, <1>3, FS_EmptySet
<1>5. RoutingThreads = {}
  <2>1. ASSUME NEW w \in Workers, Routing(w) PROVE FALSE
    <3>1. RoutingThreads = {w}
      BY <2>1, OneRoutes
    <3>2. Cardinality({w}) = 1
      BY FS_Singleton, Zenon
    <3> QED
      BY <1>3, <3>1, <3>2
  <2> QED
    BY <2>1 DEF RoutingThreads
<1>6. ASSUME NEW m \in Messages, at[m] = "waiting" PROVE FALSE
  <2>1. PICK i \in 1 .. Len(strand[Notify]) : strand[Notify][i].msg = m
    BY <1>6 DEF OnStrands
  <2>2. Route(strand[Notify][i])
    BY <1>6, <2>1, HomeIsStrand DEF OnStrands
  <2>3. strand[Notify][i] \in Routes
    BY <1>1, <2>2 DEF Routes
  <2> QED
    BY <1>4, <2>3 DEF At
<1>7. ASSUME NEW m \in Messages, at[m] = "routing" PROVE FALSE
  <2>1. PICK w \in Workers : Busy(w) /\ Msg(w) = m
    BY <1>7 DEF OnThreads
  <2>2. PlaceOn(w) = "routing"
    BY <1>7, <2>1 DEF OnThreads
  <2>3. ~Sending(w) /\ Route(worker[w].task)
    BY <2>2 DEF PlaceOn
  <2>4. worker[w] \in WorkerStates
    BY DEF TypeOK
  <2>5. Routing(w)
    BY <2>1, <2>3, <2>4 DEF Busy, Sending, Route, WorkerStates, RunTasks, Routing, Executing
  <2> QED
    BY <1>5, <2>5 DEF RoutingThreads
<1> QED
  BY <1>6, <1>7

(* What routing a message does to the notification strand. *)
LEMMA RouteSameRoutes ==
  ASSUME TypeOK, NEW m \in Messages, NEW a, RouteMessage(m, a)
  PROVE  SameRoutes
<1>1. \A s \in Strands, t \in StrandTasks : ~Route(t) /\ PostStrand(s, t) => SameRoutes
  BY HomeIsStrand DEF PostStrand, SameRoutes, TypeOK
<1>2. CASE UNCHANGED strand
  BY <1>2 DEF SameRoutes
<1>3. CASE m \in Requests /\ PostRequest(m)
  <2>1. RunTask(m) \in StrandTasks /\ ~Route(RunTask(m)) /\ StartTask(m) \in StrandTasks /\ ~Route(StartTask(m))
    BY <1>3, TaskTypes DEF Route, RunTask, StartTask
  <2>2. LaneOf[m] \in Strands /\ Notify \in Strands
    BY <1>3, ConstantsAssumption DEF Strands
  <2> QED
    BY <1>1, <1>2, <1>3, <2>1, <2>2 DEF PostRequest
<1>4. CASE m \in Notices /\ PostStrand(Notify, NotifyTask(m))
  <2>1. NotifyTask(m) \in StrandTasks /\ ~Route(NotifyTask(m))
    BY <1>4, TaskTypes DEF Route, NotifyTask
  <2> QED
    BY <1>1, <1>4, <2>1, HomeIsStrand
<1> QED
  BY <1>2, <1>3, <1>4 DEF RouteMessage, RunRequest, Refuse, CancelRequest, queueVars

-----------------------------------------------------------------------------
(* The steps of the read loop. *)
LEMMA TakeMoves ==
  ASSUME TypeOK, NEW at \in Placed, Located(at), NEW m \in Messages, Take(m),
         NEW p \in Places, p # "unsent", IF p = "held" THEN held' = m ELSE held' = None
  PROVE  /\ Stamped(Moved(at, m, p))' /\ Steady(m) /\ NoneTakes(m)
         /\ \A n \in Messages : arrivedAt[n] < arrivedAt'[m] /\ at[n] # "held"
         /\ at[m] = "unsent" /\ UNCHANGED worker
<1>1. /\ arrivedAt[m] = 0 /\ held = None /\ arrivedAt' = [arrivedAt EXCEPT ![m] = Clock + 1]
      /\ UNCHANGED worker
  BY DEF Take
<1>2. /\ Stamped(Moved(at, m, p))' /\ Steady(m) /\ (\A n \in Messages : arrivedAt[n] < arrivedAt'[m])
      /\ at[m] = "unsent" /\ (\A n \in Messages : at[n] # "held")
  BY <1>1, StampedTake DEF Located
<1>3. NoneTakes(m)
  BY <1>1, <1>2, NoneTakesNew DEF Located, OnThread
<1> QED
  BY <1>1, <1>2, <1>3

LEMMA DeferredMoves ==
  ASSUME TypeOK, NEW at \in Placed, Located(at), NEW m \in Messages, DispatchDeferred(m)
  PROVE  Located(Moved(at, m, "waiting"))'
<1>1. Take(m) /\ QueueRoute(m, TRUE) /\ UNCHANGED <<held, requestVars>>
  BY DEF DispatchDeferred
<1>2. "waiting" \in Places /\ "waiting" \notin OnThread /\ "waiting" \in Unrouted
  BY DEF Places, OnThread, Unrouted
<1>3. held' = None
  BY <1>1 DEF Take
<1>4. /\ Stamped(Moved(at, m, "waiting"))' /\ Steady(m) /\ NoneTakes(m)
      /\ \A n \in Messages : arrivedAt[n] < arrivedAt'[m] /\ at[n] # "held"
      /\ at[m] = "unsent" /\ UNCHANGED worker
  BY <1>1, <1>2, <1>3, TakeMoves
<1>5. Rests(at, m, "waiting")
  BY <1>1, <1>4, QueueRests DEF Located
<1>6. OnThreads(Moved(at, m, "waiting"))'
  BY <1>2, <1>4, ThreadsFrame DEF Located, OnThread
<1>7. InTurn(Moved(at, m, "waiting"))'
  BY <1>2, <1>4, TurnKept DEF Located
<1> QED
  BY <1>2, <1>4, <1>5, <1>6, <1>7, LocatedBy

LEMMA BehindMoves ==
  ASSUME TypeOK, NEW at \in Placed, Located(at), NEW m \in Messages, DispatchBehind(m)
  PROVE  Located(Moved(at, m, "held"))'
<1>1. Take(m) /\ held' = m /\ UNCHANGED <<requestVars, queueVars>>
  BY DEF DispatchBehind
<1>2. "held" \in Places /\ "held" \notin OnThread /\ "held" \in Unrouted
      /\ "held" \notin Registered \cup {"done", "waiting", "queued"}
  BY DEF Places, OnThread, Unrouted, Registered
<1>3. /\ Stamped(Moved(at, m, "held"))' /\ Steady(m) /\ NoneTakes(m)
      /\ \A n \in Messages : arrivedAt[n] < arrivedAt'[m] /\ at[n] # "held"
      /\ at[m] = "unsent" /\ UNCHANGED worker
  BY <1>1, <1>2, TakeMoves
<1>4. at[m] \notin Registered \cup {"done"}
  BY <1>3 DEF Registered
<1>5. Rests(at, m, "held")
  <2>1. OnStrands(Moved(at, m, "held"))'
    BY <1>1, <1>2, <1>3, StrandsFrame DEF Located, queueVars
  <2>2. InPool(Moved(at, m, "held"))'
    BY <1>1, <1>2, <1>3, DrainPosted DEF Located, queueVars
  <2>3. Entered(Moved(at, m, "held"))'
    BY <1>1, <1>2, <1>4, EnteredFrame DEF Located, requestVars
  <2>4. Ahead'
    BY <1>1, <1>3, AheadStands DEF Located, queueVars
  <2>5. Course(Moved(at, m, "held"))
    BY <1>2, CourseMoved DEF Located
  <2> QED
    BY <2>1, <2>2, <2>3, <2>4, <2>5 DEF Rests
<1>6. OnThreads(Moved(at, m, "held"))'
  BY <1>2, <1>3, ThreadsFrame DEF Located, OnThread
<1>7. InTurn(Moved(at, m, "held"))'
  BY <1>2, <1>3, TurnKept DEF Located
<1> QED
  BY <1>2, <1>3, <1>5, <1>6, <1>7, LocatedBy

(* Routing at once: nothing is left to route, so m is last. *)
LEMMA NowMoves ==
  ASSUME TypeOK, CountersExact, StrandExclusion, NEW at \in Placed, Located(at), NEW m \in Messages, DispatchNow(m)
  PROVE  \E p \in {"queued", "pooled", "lost", "done"} : Located(Moved(at, m, p))' /\ Fitting(m, p)
<1>1. Take(m) /\ ~(queuedRoutes > 0) /\ RouteMessage(m, RoutedOnArrival) /\ UNCHANGED held
  BY DEF DispatchNow, RoutesQueued
<1>2. held' = None
  BY <1>1 DEF Take
<1>3. \A p \in {"queued", "pooled", "lost", "done"} :
        /\ Stamped(Moved(at, m, p))' /\ Steady(m) /\ NoneTakes(m)
        /\ \A n \in Messages : arrivedAt[n] < arrivedAt'[m] /\ at[n] # "held"
        /\ at[m] = "unsent" /\ UNCHANGED worker
  <2>1. TAKE p \in {"queued", "pooled", "lost", "done"}
  <2>2. p \in Places /\ p # "unsent" /\ p # "held"
    BY DEF Places, Routed
  <2> QED
    BY <1>1, <1>2, <2>2, TakeMoves
<1>4. PICK p \in {"queued", "pooled", "lost", "done"} : Rests(at, m, p) /\ Fitting(m, p)
  BY <1>1, <1>3, RouteRests DEF Located
<1>5. p \in Places /\ p \in Routed /\ p \notin OnThread
  BY DEF Places, Routed, OnThread
<1>6. \A n \in Messages : at[n] \notin Unrouted
  BY <1>1, <1>3, NothingQueued DEF Located, Unrouted
<1>7. OnThreads(Moved(at, m, p))'
  BY <1>3, <1>5, ThreadsFrame DEF Located, OnThread
<1>8. InTurn(Moved(at, m, p))'
  BY <1>3, <1>5, <1>6, TurnKept DEF Located
<1>9. Located(Moved(at, m, p))'
  BY <1>3, <1>4, <1>5, <1>7, <1>8, LocatedBy
<1> QED
  BY <1>4, <1>9

(* The rest of DispatchBehind: a cancel runs, anything else waits to be routed. *)
LEMMA HeldMoves ==
  ASSUME TypeOK, NEW at \in Placed, Located(at), NEW m \in Messages, held = m, RouteHeld
  PROVE  \E p \in {"waiting", "done"} :
           Located(Moved(at, m, p))' /\ (p = "done" <=> m \in Cancels) /\ at[m] = "held"
<1>1. held' = None /\ UNCHANGED <<arrivedAt, worker>>
  BY DEF RouteHeld
<1>2. \A p \in {"waiting", "done"} :
        /\ Stamped(Moved(at, m, p))' /\ at[m] = "held" /\ Steady(m)
        /\ \A n \in Messages \ {m} : arrivedAt[n] < arrivedAt'[m]
        /\ p \in Places /\ p \notin OnThread
  <2>1. TAKE p \in {"waiting", "done"}
  <2>2. p \in Places /\ p \notin {"unsent", "held"} /\ p \notin OnThread
    BY DEF Places, Unrouted, Routed, OnThread
  <2> QED
    BY <1>1, <2>2, StampedRoute DEF Located
<1>3. NoneTakes(m)
  BY <1>1, <1>2, NoneTakesNew DEF Located, OnThread
<1>4. \A p \in {"waiting", "done"} : OnThreads(Moved(at, m, p))'
  BY <1>1, <1>2, ThreadsFrame DEF Located, OnThread
<1>5. CASE m \in Cancels /\ CancelRequest(m, RoutedOnArrival)
  <2>1. Rests(at, m, "done")
    BY <1>2, <1>3, <1>5, CancelRests DEF Located
  <2>2. InTurn(Moved(at, m, "done"))'
    BY <1>2, <1>5, TurnKept DEF Located, Routed
  <2>3. Located(Moved(at, m, "done"))'
    BY <1>2, <1>4, <2>1, <2>2, LocatedBy
  <2> QED
    BY <1>2, <1>5, <2>3
<1>6. CASE m \notin Cancels /\ QueueRoute(m, FALSE) /\ UNCHANGED requestVars
  <2>1. Rests(at, m, "waiting")
    BY <1>2, <1>3, <1>6, QueueRests DEF Located
  <2>2. InTurn(Moved(at, m, "waiting"))'
    BY <1>1, <1>2, TurnKept DEF Located, Unrouted
  <2>3. Located(Moved(at, m, "waiting"))'
    BY <1>2, <1>4, <2>1, <2>2, LocatedBy
  <2> QED
    BY <1>2, <1>6, <2>3
<1> QED
  BY <1>5, <1>6 DEF RouteHeld

(* A step that moves no message. *)
LEMMA StaysLocated ==
  ASSUME TypeOK, NEW at \in Placed, Located(at),
         UNCHANGED <<arrivedAt, held, strand, interactive, background, inflight, answers>>,
         OnThreads(at)', Ahead'
  PROVE  Located(at)'
<1>1. Course(at)' /\ (at \in Placed)'
  BY DEF Located, Course
<1>2. Stamped(at)'
  BY DEF Located, Stamped, Clock
<1>3. OnStrands(at)'
  BY DEF Located, OnStrands
<1>4. InPool(at)'
  BY DEF Located, InPool, InLane
<1>5. InTurn(at)' /\ Entered(at)'
  BY DEF Located, InTurn, Entered
<1> QED
  BY <1>1, <1>2, <1>3, <1>4, <1>5 DEF Located

LEMMA StopMoves ==
  ASSUME TypeOK, NEW at \in Placed, Located(at), StopReading \/ Stop \/ UNCHANGED vars
  PROVE  Located(at)' /\ UNCHANGED <<arrivedAt, worker>>
<1>1. UNCHANGED <<arrivedAt, held, strand, interactive, background, inflight, answers, worker>>
  BY DEF StopReading, Stop, DrainIdle, DrainTimeout, ShutdownPool, vars, requestVars, queueVars
<1>2. OnThreads(at)' /\ Ahead'
  BY <1>1 DEF Located, OnThreads, Ahead, Busy, Msg, PlaceOn, StrandOf, Sending, Route, Serial, Home
<1> QED
  BY <1>1, <1>2, StaysLocated

-----------------------------------------------------------------------------
(* The steps of the threads. *)
LEMMA BecomeIs ==
  ASSUME TypeOK, NEW w \in Workers, NEW l, NEW s, NEW t, Become(w, l, s, t)
  PROVE  /\ worker'[w].at = l /\ worker'[w].strand = s /\ worker'[w].task = t
         /\ \A v \in Workers \ {w} : worker'[v] = worker[v]
  BY DEF Become, TypeOK

LEMMA ReturnIs ==
  ASSUME TypeOK, NEW w \in Workers, Return(w)
  PROVE  /\ worker'[w].at \in {"idle", "drain"}
         /\ \A v \in Workers \ {w} : worker'[v] = worker[v]
  BY BecomeIs DEF Return

(* A thread takes what is first in the pool. *)
LEMMA PoolTaken ==
  ASSUME TypeOK, NEW at \in Placed, InPool(at), NEW w \in Workers, TakeTask(w)
  PROVE  \E t \in RunTasks \cup DrainTasks :
           /\ IF t.kind = "drain" THEN Become(w, "drain", t.strand, None) ELSE Become(w, "task", None, t)
           /\ t.kind = "drain" => InPool(at)'
           /\ t.kind = "run" => at[t.msg] = "pooled" /\ ~Serial(t.msg) /\ InPool(Moved(at, t.msg, "called"))'
<1>1. interactive \in Seq(RunTasks \cup DrainTasks) /\ background \in Seq(RunTasks \cup DrainTasks)
  BY DEF TypeOK
<1>2. InLane(at, interactive, "interactive") /\ InLane(at, background, "background")
  BY DEF InPool
<1>3. "called" \in Places /\ \A t \in RunTasks : t.msg \in Messages
  BY DEF Places, Routed, RunTasks, Messages
<1>4. CASE interactive # <<>>
  <2>1. interactive' = Tail(interactive) /\ background' = background
    BY <1>4 DEF TakeTask
  <2>2. PICK t \in RunTasks \cup DrainTasks : t = Head(interactive)
    BY <1>1, <1>2, <1>4, LaneTail
  <2>3. IF t.kind = "drain" THEN Become(w, "drain", t.strand, None) ELSE Become(w, "task", None, t)
    BY <1>4, <2>2 DEF TakeTask
  <2>4. /\ InLane(at, interactive', "interactive") /\ interactive' \in Seq(RunTasks \cup DrainTasks)
        /\ t.kind = "run" => /\ at[t.msg] = "pooled" /\ ~Serial(t.msg)
                             /\ PriorityOf[t.msg] = "interactive" /\ Absent(t.msg, interactive')
    BY <1>1, <1>2, <1>4, <2>1, <2>2, LaneTail
  <2>5. InPool(at)'
    BY <1>2, <2>1, <2>4 DEF InPool, InLane
  <2>6. ASSUME t.kind = "run" PROVE InPool(Moved(at, t.msg, "called"))'
    <3>1. t.msg \in Messages
      BY <1>3, <2>6 DEF DrainTasks
    <3>2. Absent(t.msg, background)
      BY <1>2, <2>4, <2>6, <3>1, NotPooled
    <3>3. InLane(Moved(at, t.msg, "called"), interactive', "interactive")
      BY <1>3, <2>4, <2>6, <3>1, LaneKept
    <3>4. InLane(Moved(at, t.msg, "called"), background', "background")
      BY <1>1, <1>2, <1>3, <2>1, <3>1, <3>2, LaneKept
    <3> QED
      BY <3>3, <3>4 DEF InPool, InLane
  <2> QED
    BY <2>3, <2>4, <2>5, <2>6
<1>5. CASE interactive = <<>>
  <2>1. background' = Tail(background) /\ interactive' = interactive /\ background # <<>>
    BY <1>5 DEF TakeTask
  <2>2. PICK t \in RunTasks \cup DrainTasks : t = Head(background)
    BY <1>1, <1>2, <2>1, LaneTail
  <2>3. IF t.kind = "drain" THEN Become(w, "drain", t.strand, None) ELSE Become(w, "task", None, t)
    BY <1>5, <2>2 DEF TakeTask
  <2>4. /\ InLane(at, background', "background") /\ background' \in Seq(RunTasks \cup DrainTasks)
        /\ t.kind = "run" => /\ at[t.msg] = "pooled" /\ ~Serial(t.msg)
                             /\ PriorityOf[t.msg] = "background" /\ Absent(t.msg, background')
    BY <1>1, <1>2, <2>1, <2>2, LaneTail
  <2>5. InPool(at)'
    BY <1>2, <2>1, <2>4 DEF InPool, InLane
  <2>6. ASSUME t.kind = "run" PROVE InPool(Moved(at, t.msg, "called"))'
    <3>1. t.msg \in Messages
      BY <1>3, <2>6 DEF DrainTasks
    <3>2. Absent(t.msg, interactive)
      BY <1>2, <2>4, <2>6, <3>1, NotPooled
    <3>3. InLane(Moved(at, t.msg, "called"), background', "background")
      BY <1>3, <2>4, <2>6, <3>1, LaneKept
    <3>4. InLane(Moved(at, t.msg, "called"), interactive', "interactive")
      BY <1>1, <1>2, <1>3, <2>1, <3>1, <3>2, LaneKept
    <3> QED
      BY <3>3, <3>4 DEF InPool, InLane
  <2> QED
    BY <2>3, <2>4, <2>5, <2>6
<1> QED
  BY <1>4, <1>5

(* A message that goes from one step of a thread to the next, or off it. *)
LEMMA ThreadRests ==
  ASSUME TypeOK, NEW at \in Placed, Located(at), NEW m \in Messages, NEW p \in Places,
         UNCHANGED <<strand, arrivedAt>>, InPool(Moved(at, m, p))', Entered(Moved(at, m, p))',
         at[m] \notin {"waiting", "queued"}, p \notin {"waiting", "queued"},
         \A v \in Workers : worker'[v].at = "task" /\ worker'[v].strand # None => worker'[v] = worker[v],
         Course(Moved(at, m, p))
  PROVE  Rests(at, m, p)
<1>1. OnStrands(Moved(at, m, p))'
  BY StrandsFrame DEF Located, Steady
<1>2. Ahead'
  BY AheadFrame DEF Located
<1> QED
  BY <1>1, <1>2 DEF Rests

LEMMA ThreadLocated ==
  ASSUME TypeOK, NEW at \in Placed, Located(at), NEW m \in Messages, NEW p \in Places, Rests(at, m, p),
         UNCHANGED <<arrivedAt, held>>, OnThreads(Moved(at, m, p))',
         at[m] \in Routed, p \in Routed
  PROVE  Located(Moved(at, m, p))'
<1>1. {at[m], p} \cap {"unsent", "held"} = {}
  BY DEF Routed
<1>2. Stamped(Moved(at, m, p))'
  BY <1>1, StampedFrame DEF Located
<1>3. InTurn(Moved(at, m, p))'
  BY TurnKept DEF Located, Steady
<1> QED
  BY <1>2, <1>3, LocatedBy

LEMMA TakeTaskMoves ==
  ASSUME TypeOK, NEW at \in Placed, Located(at), NEW w \in Workers, TakeTask(w)
  PROVE  \/ Located(at)' /\ worker'[w].at = "drain"
         \/ \E m \in Requests : /\ Located(Moved(at, m, "called"))' /\ at[m] = "pooled" /\ ~Serial(m)
                                /\ worker'[w].task.msg = m
<1>1. PICK t \in RunTasks \cup DrainTasks :
           /\ IF t.kind = "drain" THEN Become(w, "drain", t.strand, None) ELSE Become(w, "task", None, t)
           /\ t.kind = "drain" => InPool(at)'
           /\ t.kind = "run" => at[t.msg] = "pooled" /\ ~Serial(t.msg) /\ InPool(Moved(at, t.msg, "called"))'
  BY PoolTaken DEF Located
<1>2. UNCHANGED <<arrivedAt, held, strand, inflight, answers>> /\ worker[w].at = "idle" /\ ~Busy(w)
  BY DEF TakeTask, readerVars, requestVars, Busy
<1>3. CASE t \in DrainTasks
  <2>1. t.kind = "drain"
    BY <1>3 DEF DrainTasks
  <2>2. worker'[w].at = "drain" /\ \A v \in Workers \ {w} : worker'[v] = worker[v]
    BY <1>1, <2>1, BecomeIs
  <2>3. OnThreads(at)'
    BY <1>2, <2>2, ThreadsIdle DEF Located
  <2>4. Ahead'
    BY <1>2, <2>2, AheadFrame DEF Located
  <2>5. Course(at)' /\ (at \in Placed)' /\ Stamped(at)' /\ OnStrands(at)' /\ InTurn(at)' /\ Entered(at)'
    <3>1. Course(at)' /\ (at \in Placed)'
      BY DEF Located, Course
    <3>2. Stamped(at)'
      BY <1>2 DEF Located, Stamped, Clock
    <3>3. OnStrands(at)'
      BY <1>2 DEF Located, OnStrands
    <3>4. InTurn(at)' /\ Entered(at)'
      BY <1>2 DEF Located, InTurn, Entered
    <3> QED
      BY <3>1, <3>2, <3>3, <3>4
  <2> QED
    BY <1>1, <2>1, <2>2, <2>3, <2>4, <2>5 DEF Located
<1>4. CASE t \in RunTasks
  <2>1. t.kind = "run" /\ t.msg \in Requests
    BY <1>4 DEF RunTasks
  <2>2. PICK m \in Requests : m = t.msg
    BY <2>1
  <2>3. /\ m \in Messages /\ "called" \in Places /\ "called" \in Routed /\ "pooled" \in Routed
        /\ "called" \in Registered /\ "pooled" \in Registered
    BY DEF Messages, Places, Routed, Registered
  <2>4. /\ worker'[w].at = "task" /\ worker'[w].strand = None /\ worker'[w].task = t
        /\ \A v \in Workers \ {w} : worker'[v] = worker[v]
    BY <1>1, <2>1, BecomeIs
  <2>5. at[m] = "pooled" /\ ~Serial(m) /\ InPool(Moved(at, m, "called"))'
    BY <1>1, <2>1, <2>2
  <2>6. Entered(Moved(at, m, "called"))'
    BY <1>2, <2>3, <2>5, EnteredFrame DEF Located
  <2>7. Course(Moved(at, m, "called"))
    BY <2>3, ConstantsAssumption, CourseMoved DEF Located
  <2>8. Rests(at, m, "called")
    BY <1>2, <2>3, <2>4, <2>5, <2>6, <2>7, ThreadRests
  <2>9. Busy(w)' /\ Msg(w)' = m /\ PlaceOn(w)' = "called" /\ worker'[w].strand = StrandOf(w)'
    BY <2>1, <2>2, <2>4, <2>5 DEF Busy, Msg, PlaceOn, StrandOf, Sending, Route, Serial
  <2>10. OnThreads(Moved(at, m, "called"))'
    BY <1>2, <2>3, <2>4, <2>5, <2>9, ThreadsStep DEF Located, OnThread
  <2>11. Located(Moved(at, m, "called"))'
    BY <1>2, <2>3, <2>5, <2>8, <2>10, ThreadLocated
  <2> QED
    BY <2>2, <2>4, <2>5, <2>11
<1> QED
  BY <1>3, <1>4

(* A thread exits, leaves a strand, or counts a payload out. *)
LEMMA IdleMoves ==
  ASSUME TypeOK, NEW at \in Placed, Located(at), NEW w \in Workers,
         Exit(w) \/ DrainEnd(w) \/ FinishQueuedRoute(w)
  PROVE  Located(at)' /\ worker'[w].at \in {"idle", "exited", "drain"} /\ ~Busy(w)
         /\ \A v \in Workers \ {w} : worker'[v] = worker[v]
<1>1. UNCHANGED <<arrivedAt, held, strand, interactive, background, inflight, answers>>
  BY DEF Exit, DrainEnd, FinishQueuedRoute, readerVars, requestVars, queueVars
<1>2. worker'[w].at \in {"idle", "exited", "drain"} /\ \A v \in Workers \ {w} : worker'[v] = worker[v]
  BY BecomeIs, ReturnIs DEF Exit, DrainEnd, FinishQueuedRoute
<1>3. ~Busy(w)
  BY DEF Exit, DrainEnd, FinishQueuedRoute, Busy
<1>4. OnThreads(at)'
  BY <1>2, <1>3, ThreadsIdle DEF Located
<1>5. Ahead'
  BY <1>1, <1>2, AheadFrame DEF Located
<1> QED
  BY <1>1, <1>2, <1>3, <1>4, <1>5, StaysLocated

(* Where a task taken off a strand brings its message. *)
PlaceOf(t) == IF Route(t) THEN "routing" ELSE IF t.kind = "run" THEN "called" ELSE "opened"

LEMMA NextMoves ==
  ASSUME TypeOK, StrandExclusion, NEW at \in Placed, Located(at), NEW w \in Workers, DrainNext(w)
  PROVE  \E s \in Strands, t \in StrandTasks, m \in Messages, p \in Places :
           /\ worker[w].strand = s /\ strand[s] # <<>> /\ t = Head(strand[s]) /\ m = t.msg /\ p = PlaceOf(t)
           /\ at[m] = IF Route(t) THEN "waiting" ELSE "queued"
           /\ ~Route(t) => s = Home(m) /\ t = TaskOf(m)
           /\ worker'[w].at = "task" /\ worker'[w].strand = s /\ worker'[w].task = t
           /\ \A v \in Workers \ {w} : worker'[v] = worker[v]
           /\ Located(Moved(at, m, p))'
<1>1. PICK s \in Strands : worker[w].strand = s
  BY WorkerShape DEF DrainNext
<1>2. strand[s] \in Seq(StrandTasks) /\ strand[s] # <<>>
  BY <1>1 DEF DrainNext, TypeOK
<1>3. PICK t \in StrandTasks : t = Head(strand[s])
  BY <1>2, HeadTailType
<1>4. /\ worker[w].at = "drain" /\ UNCHANGED <<arrivedAt, held, interactive, background, inflight, answers>>
      /\ strand' = [strand EXCEPT ![s] = Tail(@)]
      /\ Become(w, "task", s, t)
  BY <1>1, <1>3 DEF DrainNext, readerVars, requestVars
<1>5. /\ worker'[w].at = "task" /\ worker'[w].strand = s /\ worker'[w].task = t
      /\ \A v \in Workers \ {w} : worker'[v] = worker[v]
  BY <1>4, BecomeIs
<1>6. 1 \in 1 .. Len(strand[s]) /\ t = strand[s][1]
  BY <1>2, <1>3, TailAt
<1>7. PICK m \in Messages : m = t.msg
  BY <1>6, StrandShape
<1>8. IF Route(t) THEN s = Notify /\ at[m] = "waiting"
      ELSE s = Home(m) /\ t = TaskOf(m) /\ at[m] = "queued"
  BY <1>6, <1>7 DEF Located, OnStrands
<1>9. PICK p \in Places : p = PlaceOf(t)
  BY DEF PlaceOf, Places, Unrouted, Routed
<1>10. /\ p \notin {"waiting", "queued", "unsent", "held", "done"} /\ at[m] \notin OnThread
       /\ at[m] \notin {"unsent", "held", "pooled"}
  BY <1>8, <1>9 DEF PlaceOf, OnThread
<1>11. m \notin Cancels \/ Route(t)
  BY <1>8 DEF Located, Course, Unrouted
<1>12. m \in Requests /\ p = "opened" => ModeOf[m] = "after"
  <2>1. SUFFICES ASSUME m \in Requests, p = "opened" PROVE ModeOf[m] = "after"
    OBVIOUS
  <2>2. ~Route(t) /\ t.kind # "run"
    BY <1>9, <2>1 DEF PlaceOf
  <2>3. ~Serial(m)
    BY <1>8, <2>1, <2>2, ConstantsAssumption DEF TaskOf, RunTask
  <2> QED
    BY <1>8, <2>1, <2>2, <2>3 DEF Located, Course, Serial
<1>13. OnStrands(Moved(at, m, p))'
  BY <1>2, <1>3, <1>4, <1>7, <1>10, StrandsTail DEF Located
<1>14. InPool(Moved(at, m, p))'
  BY <1>4, <1>10, DrainPosted DEF Located
<1>15. m \in Requests => (at[m] \in Registered <=> p \in Registered) /\ (at[m] = "done" <=> p = "done")
  BY <1>8, <1>9 DEF PlaceOf, Registered
<1>16. Entered(Moved(at, m, p))'
  BY <1>4, <1>15, EnteredFrame DEF Located
<1>17. Ahead'
  <2>1. worker' = [worker EXCEPT ![w] = [at |-> "task", strand |-> s, task |-> Head(strand[s])]]
    BY <1>3, <1>4 DEF Become
  <2> QED
    BY <1>1, <1>2, <1>4, <2>1, AheadNext DEF Located
<1>18. Course(Moved(at, m, p))
  <2>1. m \in Cancels => p \in {"unsent", "done"} \cup Unrouted
    BY <1>9, <1>11 DEF PlaceOf, Unrouted
  <2>2. m \in Notices => p \in {"unsent", "queued", "opened", "done"} \cup Unrouted
    <3>1. SUFFICES ASSUME m \in Notices, ~Route(t) PROVE t.kind # "run"
      BY <1>9 DEF PlaceOf, Unrouted
    <3> QED
      BY <1>8, <3>1 DEF TaskOf, NotifyTask
  <2> QED
    BY <1>10, <1>12, <2>1, <2>2, CourseMoved DEF Located
<1>19. Rests(at, m, p)
  BY <1>13, <1>14, <1>16, <1>17, <1>18 DEF Rests
<1>20. Stamped(Moved(at, m, p))'
  BY <1>4, <1>10, StampedFrame DEF Located
<1>21. InTurn(Moved(at, m, p))'
  <2>1. \/ at[m] \in Unrouted /\ p \in Unrouted
        \/ at[m] \in Routed /\ p \in Routed
    BY <1>8, <1>9 DEF PlaceOf, Unrouted, Routed
  <2> QED
    BY <1>4, <2>1, TurnKept DEF Located, Steady
<1>22. OnThreads(Moved(at, m, p))'
  <2>1. ~Busy(w)
    BY <1>4 DEF Busy
  <2>2. Busy(w)' /\ Msg(w)' = m /\ PlaceOn(w)' = p
    BY <1>5, <1>7, <1>9 DEF Busy, Msg, PlaceOn, PlaceOf, Sending, Route
  <2>3. worker'[w].strand = StrandOf(w)'
    <3>1. CASE Route(t)
      BY <1>5, <1>8, <3>1 DEF StrandOf, Route
    <3>2. CASE ~Route(t)
      <4>1. s = Home(m) /\ t = TaskOf(m)
        BY <1>8, <3>2
      <4>2. t.kind = "run" => Serial(m)
        BY <4>1 DEF TaskOf, NotifyTask, StartTask
      <4> QED
        BY <1>5, <1>7, <3>2, <4>1, <4>2 DEF StrandOf, Route, Home, Serial, Msg
    <3> QED
      BY <3>1, <3>2
  <2> QED
    BY <1>5, <1>10, <2>1, <2>2, <2>3, ThreadsStep DEF Located
<1>23. Located(Moved(at, m, p))'
  BY <1>19, <1>20, <1>21, <1>22, LocatedBy
<1> QED
  BY <1>1, <1>2, <1>3, <1>5, <1>7, <1>8, <1>9, <1>23

(* What a thread is about. *)
LEMMA ThreadAt ==
  ASSUME TypeOK, NEW at \in Placed, Located(at), NEW w \in Workers
  PROVE  /\ Executing(w, "route") => at[Msg(w)] = "routing" /\ worker[w].strand = Notify /\ Msg(w) \in Messages
         /\ Executing(w, "notify") => at[Msg(w)] = "opened" /\ worker[w].strand = Notify /\ Msg(w) \in Notices
         /\ Executing(w, "start") => at[Msg(w)] = "opened" /\ worker[w].strand = Notify /\ Msg(w) \in Requests
                                     /\ ModeOf[Msg(w)] = "after"
         /\ Executing(w, "run") \/ worker[w].at \in {"running", "result", "cancelled"} =>
              at[Msg(w)] = "called" /\ Msg(w) \in Requests /\ worker[w].task.kind = "run"
         /\ Sending(w) => at[Msg(w)] = "sending" /\ Msg(w) \in Requests /\ worker[w].task.kind = "run"
         /\ Executing(w, "route") \/ Executing(w, "notify") \/ Executing(w, "start") \/ Executing(w, "run")
            \/ worker[w].at \in {"running", "result", "cancelled"} \/ Sending(w) => Busy(w)
<1>1. worker[w] \in WorkerStates
  BY DEF TypeOK
<1>2. /\ Executing(w, "notify") => Msg(w) \in Notices
      /\ Executing(w, "start") => Msg(w) \in Requests
      /\ Executing(w, "run") => Msg(w) \in Requests
      /\ worker[w].at \in {"running", "result", "cancelled"} \/ Sending(w) =>
           Msg(w) \in Requests /\ worker[w].task.kind = "run"
  BY <1>1 DEF WorkerStates, StrandTasks, RunTasks, RouteTasks, Executing, Msg, Sending
<1>3. Busy(w) => Msg(w) \in Messages /\ at[Msg(w)] = PlaceOn(w) /\ worker[w].strand = StrandOf(w)
  BY ThreadShape DEF Located, OnThreads
<1>4. Executing(w, "route") \/ Executing(w, "notify") \/ Executing(w, "start") \/ Executing(w, "run")
      \/ worker[w].at \in {"running", "result", "cancelled"} \/ Sending(w) => Busy(w)
  BY DEF Executing, Busy, Sending
<1>5. Executing(w, "route") => at[Msg(w)] = "routing" /\ worker[w].strand = Notify
  BY <1>3, <1>4 DEF Executing, PlaceOn, StrandOf, Sending, Route
<1>6. Executing(w, "notify") \/ Executing(w, "start") => at[Msg(w)] = "opened" /\ worker[w].strand = Home(Msg(w))
  BY <1>3, <1>4 DEF Executing, PlaceOn, StrandOf, Sending, Route
<1>7. Executing(w, "notify") => Home(Msg(w)) = Notify
  BY <1>2, ConstantsAssumption DEF Home, Serial
<1>8. Executing(w, "start") => ModeOf[Msg(w)] = "after" /\ Home(Msg(w)) = Notify
  BY <1>2, <1>6 DEF Located, Course, Home, Serial
<1>9. Executing(w, "run") \/ worker[w].at \in {"running", "result", "cancelled"} => at[Msg(w)] = "called"
  BY <1>2, <1>3, <1>4 DEF Executing, PlaceOn, Sending, Route
<1>10. Sending(w) => at[Msg(w)] = "sending"
  BY <1>3, <1>4 DEF PlaceOn
<1> QED
  BY <1>2, <1>3, <1>4, <1>5, <1>6, <1>7, <1>8, <1>9, <1>10 DEF Executing

(* Inside the notification strand there is one thread, and what it has comes before what
   is left there. *)
LEMMA FirstOfNotify ==
  ASSUME TypeOK, StrandExclusion, NEW at \in Placed, Located(at), NEW w \in Workers,
         worker[w].at = "task", worker[w].strand = Notify
  PROVE  /\ \A n \in Messages \ {Msg(w)} : at[n] # IF Route(worker[w].task) THEN "routing" ELSE "opened"
         /\ \A n \in Messages : Home(n) = Notify /\ at[n] = (IF Route(worker[w].task) THEN "waiting" ELSE "queued")
              => arrivedAt[Msg(w)] < arrivedAt[n]
<1>1. Notify # None /\ Notify \in Strands
  BY ConstantsAssumption DEF Strands
<1>2. ASSUME NEW n \in Messages \ {Msg(w)}, at[n] = IF Route(worker[w].task) THEN "routing" ELSE "opened" PROVE FALSE
  <2>1. PICK v \in Workers : Busy(v) /\ Msg(v) = n
    BY <1>2 DEF Located, OnThreads
  <2>2. PlaceOn(v) \in {"routing", "opened"} /\ worker[v].strand = StrandOf(v)
    BY <1>2, <2>1 DEF Located, OnThreads
  <2>3. ~Sending(v) /\ worker[v].task.kind # "run"
    BY <2>2 DEF PlaceOn, Route
  <2>4. worker[v] \in WorkerStates
    BY DEF TypeOK
  <2>5. Executing(v, "route") \/ Executing(v, "notify") \/ Executing(v, "start")
    BY <2>1, <2>3, <2>4 DEF WorkerStates, Busy, Sending, Executing, StrandTasks, RunTasks, RouteTasks
  <2>6. worker[v].strand = Notify
    BY <2>5, ThreadAt
  <2>7. v = w
    BY <1>1, <2>6 DEF StrandExclusion
  <2> QED
    BY <1>2, <2>1, <2>7
<1>3. ASSUME NEW n \in Messages, Home(n) = Notify, at[n] = (IF Route(worker[w].task) THEN "waiting" ELSE "queued")
      PROVE  arrivedAt[Msg(w)] < arrivedAt[n]
  <2>1. PICK i \in 1 .. Len(strand[Notify]) : strand[Notify][i].msg = n
    BY <1>3 DEF Located, OnStrands
  <2>2. Route(strand[Notify][i]) <=> Route(worker[w].task)
    BY <1>1, <1>3, <2>1 DEF Located, OnStrands
  <2> QED
    BY <1>1, <2>1, <2>2 DEF Located, Ahead
<1> QED
  BY <1>2, <1>3

(* A queued payload is routed: all others that wait arrived after it. *)
LEMMA QueuedMoves ==
  ASSUME TypeOK, StrandExclusion, NEW at \in Placed, Located(at), NEW w \in Workers, RouteQueued(w),
         NEW m \in Messages, Msg(w) = m
  PROVE  /\ \E p \in {"queued", "pooled", "lost", "done"} : Located(Moved(at, m, p))' /\ Fitting(m, p)
         /\ at[m] = "routing" /\ \A n \in Messages \ {m} : at[n] \in Unrouted => arrivedAt[m] < arrivedAt[n]
<1>1. /\ Executing(w, "route") /\ RouteMessage(m, worker[w].task.arrival)
      /\ Become(w, "routed", worker[w].strand, worker[w].task)
      /\ UNCHANGED <<arrivedAt, held>>
  BY DEF RouteQueued, readerVars
<1>2. at[m] = "routing" /\ worker[w].strand = Notify /\ Busy(w)
  BY <1>1, ThreadAt
<1>3. worker[w].at = "task" /\ Route(worker[w].task)
  BY <1>1 DEF Executing, Route
<1>4. \A n \in Messages \ {m} : at[n] \in Unrouted => arrivedAt[m] < arrivedAt[n]
  <2>1. TAKE n \in Messages \ {m}
  <2>2. at[n] # "routing"
    BY <1>2, <1>3, FirstOfNotify
  <2>3. at[n] = "held" => arrivedAt[m] < arrivedAt[n]
    BY DEF Located, Stamped
  <2>4. ASSUME at[n] = "waiting" PROVE arrivedAt[m] < arrivedAt[n]
    <3>1. PICK i \in 1 .. Len(strand[Notify]) : strand[Notify][i].msg = n
      BY <2>4 DEF Located, OnStrands
    <3>2. Route(strand[Notify][i])
      BY <2>4, <3>1, HomeIsStrand DEF Located, OnStrands
    <3>3. Notify # None
      BY ConstantsAssumption DEF Strands
    <3> QED
      BY <1>2, <1>3, <3>1, <3>2, <3>3 DEF Located, Ahead
  <2> QED
    BY <2>2, <2>3, <2>4 DEF Unrouted
<1>5. /\ worker'[w].at = "routed" /\ worker'[w].strand = Notify
      /\ \A v \in Workers \ {w} : worker'[v] = worker[v]
  BY <1>1, <1>2, BecomeIs
<1>6. NoneTakes(m)
  BY <1>2, <1>5 DEF NoneTakes, Located, OnThreads, Busy
<1>7. \A n \in Messages \ {m} : at[n] \in {"queued", "opened", "called"} => arrivedAt[n] < arrivedAt'[m]
  BY <1>1, <1>2 DEF Located, Course, InTurn, Routed, Unrouted
<1>8. Steady(m)
  BY <1>1 DEF Steady
<1>9. PICK p \in {"queued", "pooled", "lost", "done"} : Rests(at, m, p) /\ Fitting(m, p)
  BY <1>1, <1>2, <1>6, <1>7, <1>8, RouteRests DEF Located
<1>10. p \in Places /\ p \in Routed /\ p \notin OnThread /\ p \notin {"unsent", "held"}
  BY DEF Places, Routed, OnThread
<1>11. OnThreads(Moved(at, m, p))'
  <2>1. ~Busy(w)'
    BY <1>5 DEF Busy
  <2> QED
    BY <1>2, <1>5, <1>10, <2>1, ThreadsStep DEF Located
<1>12. Stamped(Moved(at, m, p))'
  BY <1>1, <1>2, <1>10, StampedFrame DEF Located
<1>13. InTurn(Moved(at, m, p))'
  BY <1>1, <1>4, <1>8, <1>10, TurnKept DEF Located
<1>14. Located(Moved(at, m, p))'
  BY <1>9, <1>10, <1>11, <1>12, <1>13, LocatedBy
<1> QED
  BY <1>2, <1>4, <1>9, <1>14

LEMMA HandleMoves ==
  ASSUME TypeOK, NEW at \in Placed, Located(at), NEW w \in Workers, HandleNotice(w),
         NEW m \in Messages, Msg(w) = m
  PROVE  Located(Moved(at, m, "done"))' /\ at[m] = "opened" /\ m \in Notices
<1>1. /\ Executing(w, "notify") /\ Return(w)
      /\ UNCHANGED <<arrivedAt, held, strand, interactive, background, inflight, answers>>
  BY DEF HandleNotice, readerVars, requestVars, queueVars
<1>2. at[m] = "opened" /\ m \in Notices /\ Busy(w) /\ m \notin Requests \cup Cancels
  BY <1>1, ThreadAt, ConstantsAssumption
<1>3. worker'[w].at \in {"idle", "drain"} /\ \A v \in Workers \ {w} : worker'[v] = worker[v]
  BY <1>1, ReturnIs
<1>4. "done" \in Places /\ "done" \in Routed /\ "opened" \in Routed /\ "done" \notin OnThread
  BY DEF Places, Routed, OnThread
<1>5. InPool(Moved(at, m, "done"))'
  BY <1>1, <1>2, <1>4, DrainPosted DEF Located
<1>6. Entered(Moved(at, m, "done"))'
  BY <1>1, <1>2, <1>4, EnteredFrame DEF Located
<1>7. Course(Moved(at, m, "done"))
  BY <1>2, <1>4, CourseMoved DEF Located
<1>8. Rests(at, m, "done")
  BY <1>1, <1>2, <1>3, <1>4, <1>5, <1>6, <1>7, ThreadRests
<1>9. OnThreads(Moved(at, m, "done"))'
  <2>1. ~Busy(w)' /\ worker'[w].at # "routed"
    BY <1>3 DEF Busy
  <2> QED
    BY <1>2, <1>3, <1>4, <2>1, ThreadsStep DEF Located
<1> QED
  BY <1>1, <1>2, <1>4, <1>8, <1>9, ThreadLocated

LEMMA StartMoves ==
  ASSUME TypeOK, NEW at \in Placed, Located(at), NEW w \in Workers, StartAfterNotifications(w),
         NEW m \in Messages, Msg(w) = m
  PROVE  /\ \E p \in {"pooled", "lost"} : Located(Moved(at, m, p))'
         /\ at[m] = "opened" /\ m \in Requests /\ ModeOf[m] = "after"
<1>1. /\ Executing(w, "start") /\ Return(w) /\ PostPool(PriorityOf[m], RunTask(m))
      /\ UNCHANGED <<arrivedAt, held, strand, inflight, answers>>
  BY DEF StartAfterNotifications, readerVars, requestVars
<1>2. /\ at[m] = "opened" /\ m \in Requests /\ ModeOf[m] = "after" /\ Busy(w)
      /\ m \notin Notices \cup Cancels /\ ~Serial(m)
  BY <1>1, ThreadAt, ConstantsAssumption DEF Serial
<1>3. worker'[w].at \in {"idle", "drain"} /\ \A v \in Workers \ {w} : worker'[v] = worker[v]
  BY <1>1, ReturnIs
<1>4. PICK p \in {"pooled", "lost"} : p = PoolPlace
  BY DEF PoolPlace
<1>5. /\ p \in Places /\ p \in Routed /\ "opened" \in Routed /\ p \notin OnThread
      /\ p \in Registered /\ "opened" \in Registered
  BY DEF Places, Routed, OnThread, Registered
<1>6. InPool(Moved(at, m, p))'
  BY <1>1, <1>2, <1>4, <1>5, RunPosted DEF Located
<1>7. Entered(Moved(at, m, p))'
  BY <1>1, <1>2, <1>5, EnteredFrame DEF Located
<1>8. Course(Moved(at, m, p))
  BY <1>2, <1>5, CourseMoved DEF Located
<1>9. Rests(at, m, p)
  BY <1>1, <1>2, <1>3, <1>5, <1>6, <1>7, <1>8, ThreadRests
<1>10. OnThreads(Moved(at, m, p))'
  <2>1. ~Busy(w)' /\ worker'[w].at # "routed"
    BY <1>3 DEF Busy
  <2> QED
    BY <1>2, <1>3, <1>5, <2>1, ThreadsStep DEF Located
<1>11. Located(Moved(at, m, p))'
  BY <1>1, <1>2, <1>5, <1>9, <1>10, ThreadLocated
<1> QED
  BY <1>2, <1>11

(* The handler starts and returns on the thread that runs it. *)
LEMMA RunMoves ==
  ASSUME TypeOK, NEW at \in Placed, Located(at), NEW w \in Workers, StartHandler(w) \/ HandlerReturns(w)
  PROVE  Located(at)' /\ worker'[w].at \in {"running", "result", "cancelled"} /\ worker'[w].task = worker[w].task
         /\ worker'[w].strand = worker[w].strand /\ \A v \in Workers \ {w} : worker'[v] = worker[v]
<1>1. UNCHANGED <<arrivedAt, held, strand, interactive, background, inflight, answers>>
  BY DEF StartHandler, HandlerReturns, readerVars, requestVars, queueVars
<1>2. /\ worker'[w].at \in {"running", "result", "cancelled"} /\ worker'[w].task = worker[w].task
      /\ worker'[w].strand = worker[w].strand /\ \A v \in Workers \ {w} : worker'[v] = worker[v]
  BY BecomeIs DEF StartHandler, HandlerReturns
<1>3. Executing(w, "run") \/ worker[w].at = "running"
  BY DEF StartHandler, HandlerReturns
<1>4. Busy(w) /\ at[Msg(w)] = "called" /\ Msg(w) \in Messages /\ worker[w].task.kind = "run"
  BY <1>3, ThreadAt, ThreadShape
<1>5. PICK m \in Messages : m = Msg(w)
  BY <1>4
<1>6. Moved(at, m, "called") = at /\ "called" \in Places
  BY <1>4, <1>5 DEF Moved, Placed, Places, Routed
<1>7. OnThreads(Moved(at, m, "called"))'
  <2>1. Busy(w)' /\ Msg(w)' = m /\ PlaceOn(w)' = "called" /\ StrandOf(w)' = StrandOf(w)
    BY <1>2, <1>4, <1>5 DEF Busy, Msg, PlaceOn, StrandOf, Sending, Route, Serial, Home
  <2>2. worker[w].strand = StrandOf(w)
    BY <1>4 DEF Located, OnThreads
  <2> QED
    BY <1>2, <1>4, <1>5, <1>6, <2>1, <2>2, ThreadsStep DEF Located
<1>8. OnThreads(at)'
  BY <1>6, <1>7
<1>9. Ahead'
  BY <1>1, <1>2, AheadFrame DEF Located
<1> QED
  BY <1>1, <1>2, <1>8, <1>9, StaysLocated

LEMMA EraseMoves ==
  ASSUME TypeOK, NEW at \in Placed, Located(at), NEW w \in Workers, EraseEntry(w),
         NEW m \in Messages, Msg(w) = m
  PROVE  Located(Moved(at, m, "sending"))' /\ at[m] = "called" /\ m \in Requests /\ worker'[w].at \notin {"task", "running"}
         /\ \A v \in Workers \ {w} : worker'[v] = worker[v]
<1>1. /\ worker[w].at \in {"result", "cancelled"} /\ inflight' = Erased(m)
      /\ UNCHANGED <<arrivedAt, held, strand, interactive, background, answers>>
  BY DEF EraseEntry, readerVars, queueVars
<1>2. at[m] = "called" /\ m \in Requests /\ Busy(w) /\ worker[w].task.kind = "run"
  BY <1>1, ThreadAt
<1>3. m \notin Notices \cup Cancels
  BY <1>2, ConstantsAssumption
<1>4. /\ worker'[w].at \in {"send result", "send cancelled"} /\ worker'[w].task = worker[w].task
      /\ worker'[w].strand = worker[w].strand /\ \A v \in Workers \ {w} : worker'[v] = worker[v]
  <2>1. PICK l \in {"send result", "send cancelled"} : Become(w, l, worker[w].strand, worker[w].task)
    BY DEF EraseEntry
  <2> QED
    BY <2>1, BecomeIs
<1>5. /\ "sending" \in Places /\ "sending" \in Routed /\ "called" \in Routed
      /\ "sending" \notin Registered \cup {"done"} /\ "called" \in Registered
  BY DEF Places, Routed, Registered
<1>6. InPool(Moved(at, m, "sending"))'
  BY <1>1, <1>2, <1>5, DrainPosted DEF Located
<1>7. Entered(Moved(at, m, "sending"))'
  BY <1>1, <1>2, <1>5, EnteredErase DEF Located
<1>8. Course(Moved(at, m, "sending"))
  BY <1>3, <1>5, CourseMoved DEF Located
<1>9. Rests(at, m, "sending")
  BY <1>1, <1>2, <1>4, <1>5, <1>6, <1>7, <1>8, ThreadRests
<1>10. OnThreads(Moved(at, m, "sending"))'
  <2>1. Busy(w)' /\ Msg(w)' = m /\ PlaceOn(w)' = "sending" /\ StrandOf(w)' = StrandOf(w)
    BY <1>2, <1>4 DEF Busy, Msg, PlaceOn, StrandOf, Sending, Route, Serial, Home
  <2>2. worker[w].strand = StrandOf(w)
    BY <1>2 DEF Located, OnThreads
  <2> QED
    BY <1>2, <1>4, <1>5, <2>1, <2>2, ThreadsStep DEF Located
<1>11. Located(Moved(at, m, "sending"))'
  BY <1>1, <1>2, <1>5, <1>9, <1>10, ThreadLocated
<1> QED
  BY <1>2, <1>4, <1>11

LEMMA SendMoves ==
  ASSUME TypeOK, NEW at \in Placed, Located(at), NEW w \in Workers, SendAnswer(w),
         NEW m \in Messages, Msg(w) = m
  PROVE  /\ Located(Moved(at, m, "done"))' /\ at[m] = "sending" /\ m \in Requests
         /\ \E o \in {"result", "cancelled"} : answers'[m] = <<o>>
         /\ \A r \in Requests \ {m} : answers'[r] = answers[r]
<1>1. PICK o \in {"result", "cancelled"} : Answer(m, o)
  BY DEF SendAnswer
<1>2. /\ Sending(w) /\ Return(w)
      /\ UNCHANGED <<arrivedAt, held, strand, interactive, background, inflight>>
  BY DEF SendAnswer, Sending, readerVars, queueVars
<1>3. at[m] = "sending" /\ m \in Requests /\ Busy(w)
  BY <1>2, ThreadAt
<1>4. m \notin Notices \cup Cancels
  BY <1>3, ConstantsAssumption
<1>5. worker'[w].at \in {"idle", "drain"} /\ \A v \in Workers \ {w} : worker'[v] = worker[v]
  BY <1>2, ReturnIs
<1>6. /\ "done" \in Places /\ "done" \in Routed /\ "sending" \in Routed
      /\ "done" \notin OnThread /\ "sending" \notin Registered \cup {"done"}
  BY DEF Places, Routed, Registered, OnThread
<1>7. InPool(Moved(at, m, "done"))'
  BY <1>2, <1>3, <1>6, DrainPosted DEF Located
<1>8. /\ Entered(Moved(at, m, "done"))' /\ answers'[m] = <<o>>
      /\ \A r \in Requests \ {m} : answers'[r] = answers[r]
  BY <1>1, <1>2, <1>3, <1>6, EnteredAnswer DEF Located
<1>9. Course(Moved(at, m, "done"))
  BY <1>4, <1>6, CourseMoved DEF Located
<1>10. Rests(at, m, "done")
  BY <1>2, <1>3, <1>5, <1>6, <1>7, <1>8, <1>9, ThreadRests
<1>11. OnThreads(Moved(at, m, "done"))'
  <2>1. ~Busy(w)' /\ worker'[w].at # "routed"
    BY <1>5 DEF Busy
  <2> QED
    BY <1>3, <1>5, <1>6, <2>1, ThreadsStep DEF Located
<1>12. Located(Moved(at, m, "done"))'
  BY <1>2, <1>3, <1>6, <1>10, <1>11, ThreadLocated
<1> QED
  BY <1>3, <1>8, <1>12

(* The counters stay exact. *)
LEMMA ThreadsSame ==
  ASSUME NEW w \in Workers, \A v \in Workers \ {w} : worker'[v] = worker[v], ~Routing(w), ~Routing(w)'
  PROVE  SameThreads
<1>1. \A v \in Workers \ {w} : Routing(v)' <=> Routing(v)
  BY DEF Routing, Executing
<1> QED
  BY <1>1 DEF SameThreads

LEMMA CountersThread ==
  ASSUME TypeOK, TypeOK', CountersExact, StrandExclusion, NEW at \in Placed, Located(at),
         NEW w \in Workers, WorkerStep(w)
  PROVE  CountersExact'
<1> USE DEF Located
<1>1. CASE TakeTask(w)
  <2>1. PICK t \in RunTasks \cup DrainTasks :
          IF t.kind = "drain" THEN Become(w, "drain", t.strand, None) ELSE Become(w, "task", None, t)
    BY <1>1, PoolTaken
  <2>2. t.kind \in {"run", "drain"}
    BY DEF RunTasks, DrainTasks
  <2>3. /\ worker'[w].at \in {"drain", "task"} /\ (worker'[w].at = "task" => worker'[w].task.kind = "run")
        /\ \A v \in Workers \ {w} : worker'[v] = worker[v]
    BY <2>1, <2>2, BecomeIs
  <2>4. SameThreads
    BY <1>1, <2>3, ThreadsSame DEF TakeTask, Routing, Executing
  <2> QED
    BY <1>1, <2>4, CountersFrame DEF TakeTask, routeVars, SameRoutes
<1>2. CASE Exit(w) \/ DrainEnd(w)
  <2>1. worker'[w].at \in {"idle", "exited"} /\ \A v \in Workers \ {w} : worker'[v] = worker[v]
    BY <1>2, BecomeIs DEF Exit, DrainEnd
  <2>2. SameThreads
    BY <1>2, <2>1, ThreadsSame DEF Exit, DrainEnd, Routing, Executing
  <2> QED
    BY <1>2, <2>2, CountersFrame DEF Exit, DrainEnd, routeVars, queueVars, SameRoutes
<1>3. CASE DrainNext(w)
  BY <1>3, CountersNext
<1>4. CASE RouteQueued(w)
  <2>1. /\ Executing(w, "route") /\ RouteMessage(Msg(w), worker[w].task.arrival)
        /\ Become(w, "routed", worker[w].strand, worker[w].task) /\ UNCHANGED <<queuedRoutes, deferred>>
    BY <1>4 DEF RouteQueued, routeVars
  <2>2. Msg(w) \in Messages
    BY <2>1, ThreadAt
  <2>3. SameRoutes
    BY <2>1, <2>2, RouteSameRoutes
  <2>4. /\ worker'[w].at = "routed" /\ worker'[w].task = worker[w].task
        /\ \A v \in Workers \ {w} : worker'[v] = worker[v]
    BY <2>1, BecomeIs
  <2>5. Routing(w) /\ Routing(w)' /\ \A v \in Workers \ {w} : Routing(v)' <=> Routing(v)
    BY <2>1, <2>4 DEF Routing, Executing
  <2>6. SameThreads
    BY <2>4, <2>5 DEF SameThreads
  <2> QED
    BY <2>1, <2>3, <2>6, CountersFrame
<1>5. CASE FinishQueuedRoute(w)
  BY <1>5, CountersFinish
<1>6. CASE HandleNotice(w) \/ StartAfterNotifications(w) \/ SendAnswer(w)
  <2>1. Return(w) /\ ~Routing(w) /\ UNCHANGED <<strand, queuedRoutes, deferred>>
    BY <1>6 DEF HandleNotice, StartAfterNotifications, SendAnswer, Routing, Executing, routeVars, queueVars
  <2>2. worker'[w].at \in {"idle", "drain"} /\ \A v \in Workers \ {w} : worker'[v] = worker[v]
    BY <2>1, ReturnIs
  <2>3. SameThreads
    BY <2>1, <2>2, ThreadsSame DEF Routing, Executing
  <2> QED
    BY <2>1, <2>3, CountersFrame DEF SameRoutes
<1>7. CASE StartHandler(w) \/ HandlerReturns(w) \/ EraseEntry(w)
  <2>1. ~Routing(w) /\ UNCHANGED <<strand, queuedRoutes, deferred>>
    BY <1>7 DEF StartHandler, HandlerReturns, EraseEntry, Routing, Executing, routeVars, queueVars
  <2>2. PICK l \in {"running", "result", "cancelled", "send result", "send cancelled"} :
          Become(w, l, worker[w].strand, worker[w].task)
    BY <1>7 DEF StartHandler, HandlerReturns, EraseEntry
  <2>3. worker'[w].at = l /\ \A v \in Workers \ {w} : worker'[v] = worker[v]
    BY <2>2, BecomeIs
  <2>4. SameThreads
    BY <2>1, <2>3, ThreadsSame DEF Routing, Executing
  <2> QED
    BY <2>1, <2>4, CountersFrame DEF SameRoutes
<1> QED
  BY <1>1, <1>2, <1>3, <1>4, <1>5, <1>6, <1>7 DEF WorkerStep

LEMMA CountersLoop ==
  ASSUME TypeOK, TypeOK', CountersExact, StrandExclusion, NEW at \in Placed, Located(at),
         \/ \E m \in Messages : Dispatch(m)
         \/ RouteHeld \/ StopReading \/ Stop \/ UNCHANGED vars
  PROVE  CountersExact'
<1> USE DEF Located
<1>1. UNCHANGED worker => SameThreads
  BY DEF SameThreads, Routing, Executing
<1>2. UNCHANGED strand => SameRoutes
  BY DEF SameRoutes
<1>3. ASSUME NEW m \in Messages, DispatchDeferred(m) PROVE CountersExact'
  <2>1. QueueRoute(m, TRUE) /\ deferred' = deferred + 1 /\ UNCHANGED worker
    BY <1>3 DEF DispatchDeferred, Take
  <2> QED
    BY <1>1, <2>1, CountersQueue
<1>4. ASSUME NEW m \in Messages, DispatchBehind(m) PROVE CountersExact'
  BY <1>1, <1>2, <1>4, CountersFrame DEF DispatchBehind, Take, routeVars, queueVars
<1>5. ASSUME NEW m \in Messages, DispatchNow(m) PROVE CountersExact'
  <2>1. SameRoutes
    BY <1>5, RouteSameRoutes DEF DispatchNow
  <2> QED
    BY <1>1, <1>5, <2>1, CountersFrame DEF DispatchNow, Take, routeVars
<1>6. CASE RouteHeld
  <2>1. PICK m \in Messages : held = m
    BY <1>6 DEF RouteHeld, TypeOK
  <2>2. CASE CancelRequest(held, RoutedOnArrival) /\ UNCHANGED routeVars
    BY <1>1, <1>2, <1>6, <2>2, CountersFrame DEF RouteHeld, CancelRequest, routeVars, queueVars
  <2>3. CASE QueueRoute(m, FALSE) /\ UNCHANGED deferred
    <3>1. deferred' = deferred + 0
      BY <2>3 DEF TypeOK
    <3> QED
      BY <1>1, <1>6, <2>3, <3>1, CountersQueue DEF RouteHeld
  <2> QED
    BY <1>6, <2>1, <2>2, <2>3 DEF RouteHeld
<1>7. CASE StopReading \/ Stop \/ UNCHANGED vars
  BY <1>1, <1>2, <1>7, CountersFrame
     DEF StopReading, Stop, DrainIdle, DrainTimeout, ShutdownPool, vars, routeVars, queueVars
<1> QED
  BY <1>3, <1>4, <1>5, <1>6, <1>7 DEF Dispatch

-----------------------------------------------------------------------------
(* Only reused ids are refused. *)

(* A step that answers m, if any. *)
Replies(m) ==
  \/ UNCHANGED answers
  \/ /\ \E o \in {"error", "refused", "result", "cancelled"} :
          answers'[m] = <<o>> /\ (o = "refused" => m \in clash')
     /\ \A r \in Requests \ {m} : answers'[r] = answers[r]

LEMMA RepliesKept ==
  ASSUME Reused, NEW m \in Requests, Replies(m), clash \subseteq clash'
  PROVE  /\ \A q \in Requests : answers'[q] = <<>> => answers[q] = <<>>
         /\ RefusedOnlyIfReused'
<1>1. CASE UNCHANGED answers
  BY <1>1 DEF Reused, RefusedOnlyIfReused, InSeq
<1>2. ASSUME NEW o \in {"error", "refused", "result", "cancelled"},
             answers'[m] = <<o>>, o = "refused" => m \in clash',
             \A r \in Requests \ {m} : answers'[r] = answers[r]
      PROVE  /\ \A q \in Requests : answers'[q] = <<>> => answers[q] = <<>>
             /\ RefusedOnlyIfReused'
  <2>1. answers'[m] # <<>> /\ Len(answers'[m]) = 1 /\ answers'[m][1] = o
    BY <1>2
  <2>2. \A i \in 1 .. Len(answers'[m]) : answers'[m][i] = o
    BY <2>1
  <2>3. InSeq("refused", answers[m])' => m \in clash'
    BY <1>2, <2>2 DEF InSeq
  <2>4. \A r \in Requests \ {m} : InSeq("refused", answers[r])' => r \in clash'
    BY <1>2 DEF Reused, RefusedOnlyIfReused, InSeq
  <2> QED
    BY <1>2, <2>1, <2>3, <2>4 DEF RefusedOnlyIfReused
<1> QED
  BY <1>1, <1>2 DEF Replies

LEMMA ReusedKept ==
  ASSUME Reused, UNCHANGED <<arrivedAt, clash>>,
         UNCHANGED answers \/ \E m \in Requests : Replies(m)
  PROVE  Reused'
<1>1. (\A q \in Requests : answers'[q] = <<>> => answers[q] = <<>>) /\ RefusedOnlyIfReused'
  <2>1. CASE UNCHANGED answers
    BY <2>1 DEF Reused, RefusedOnlyIfReused, InSeq
  <2>2. ASSUME NEW m \in Requests, Replies(m)
        PROVE  (\A q \in Requests : answers'[q] = <<>> => answers[q] = <<>>) /\ RefusedOnlyIfReused'
    BY <2>2, RepliesKept
  <2> QED
    BY <2>1, <2>2
<1> QED
  BY <1>1 DEF Reused, Before, Sent

LEMMA ReusedTake ==
  ASSUME TypeOK, NEW at \in Placed, Stamped(at), Reused, NEW m \in Messages, Take(m), held' \in {m, None},
         UNCHANGED answers \/ (m \in Requests /\ Replies(m))
  PROVE  Reused'
<1>1. /\ arrivedAt[m] = 0 /\ arrivedAt' = [arrivedAt EXCEPT ![m] = Clock + 1] /\ held = None
      /\ clash \subseteq clash'
      /\ m \in Requests /\ (\E r \in Requests : r # m /\ IdOf[r] = IdOf[m] /\ arrivedAt[r] > 0 /\ answers[r] = <<>>)
           => m \in clash'
  BY DEF Take
<1>2. Clock \in Nat /\ \A n \in Messages : arrivedAt[n] <= Clock /\ arrivedAt[n] \in Nat
  BY ClockType DEF Stamped, TypeOK
<1>3. arrivedAt'[m] = Clock + 1 /\ \A n \in Messages \ {m} : arrivedAt'[n] = arrivedAt[n]
  BY <1>1 DEF TypeOK
<1>4. (\A q \in Requests : answers'[q] = <<>> => answers[q] = <<>>) /\ RefusedOnlyIfReused'
  <2>1. CASE UNCHANGED answers
    BY <1>1, <2>1 DEF Reused, RefusedOnlyIfReused, InSeq
  <2>2. CASE m \in Requests /\ Replies(m)
    BY <1>1, <2>2, RepliesKept
  <2> QED
    BY <2>1, <2>2
<1>5. ASSUME NEW q \in Requests, NEW r \in Requests, IdOf[q] = IdOf[r], Before(q, r)', answers'[q] = <<>>
      PROVE  r \in clash'
  <2>1. answers[q] = <<>> /\ arrivedAt'[q] > 0 /\ arrivedAt'[q] < arrivedAt'[r] /\ q \in Messages /\ r \in Messages
    BY <1>4, <1>5 DEF Before, Sent, Messages
  <2>2. q # m /\ arrivedAt[q] > 0
    BY <1>2, <1>3, <2>1
  <2>3. CASE r = m
    BY <1>1, <1>5, <2>1, <2>2, <2>3
  <2>4. CASE r # m
    <3>1. Before(q, r)
      BY <1>3, <2>1, <2>2, <2>4 DEF Before, Sent
    <3> QED
      BY <1>1, <1>5, <2>1, <3>1 DEF Reused
  <2> QED
    BY <2>3, <2>4
<1> QED
  BY <1>4, <1>5 DEF Reused

(* Whoever has the id of m registered was sent before m and is unanswered. *)
LEMMA RegisteredIsOpen ==
  ASSUME TypeOK, NEW at \in Placed, Located(at), NEW q \in Requests, at[q] \in Registered
  PROVE  answers[q] = <<>> /\ arrivedAt[q] > 0 /\ at[q] \in Routed /\ q \in Messages \ Cancels
<1>1. at[q] \in Routed /\ at[q] # "done" /\ at[q] # "unsent" /\ q \in Messages \ Cancels
  BY ConstantsAssumption DEF Registered, Routed, Messages
<1>2. arrivedAt[q] # 0 /\ arrivedAt[q] \in Nat
  BY <1>1 DEF Located, Stamped, TypeOK
<1> QED
  BY <1>1, <1>2 DEF Located, Entered

LEMMA RouteReplies ==
  ASSUME TypeOK, NEW at \in Placed, Located(at), NEW m \in Messages, at[m] \in {"unsent", "held", "routing"},
         NEW a, RouteMessage(m, a),
         \A q \in Requests \ {m} : IdOf[q] = IdOf[m] /\ at[q] \in Registered /\ m \in Requests => m \in clash'
  PROVE  UNCHANGED answers \/ (m \in Requests /\ Replies(m))
<1>1. CASE m \in Requests /\ RunRequest(m, a)
  <2>1. at[m] \notin Registered \cup {"done"}
    BY DEF Registered
  <2>2. CASE Answered(at, m)
    <3>1. PICK o \in {"error", "refused"} :
            /\ Answer(m, o) /\ UNCHANGED inflight
            /\ o = "refused" => \E q \in Requests \ {m} : IdOf[q] = IdOf[m] /\ at[q] \in Registered
      BY <2>2 DEF Answered
    <3>2. answers'[m] = <<o>> /\ \A r \in Requests \ {m} : answers'[r] = answers[r]
      BY <1>1, <2>1, <3>1, EnteredAnswer DEF Located
    <3> QED
      BY <1>1, <3>1, <3>2 DEF Replies
  <2> QED
    BY <1>1, <2>1, <2>2, RunRequestCases DEF Located
<1>2. CASE CancelRequest(m, a) \/ UNCHANGED requestVars
  BY <1>2 DEF CancelRequest, requestVars
<1> QED
  BY <1>1, <1>2 DEF RouteMessage

LEMMA ReusedLoop ==
  ASSUME TypeOK, NEW at \in Placed, Located(at), Reused,
         \/ \E m \in Messages : Dispatch(m)
         \/ RouteHeld \/ StopReading \/ Stop \/ UNCHANGED vars
  PROVE  Reused'
<1>1. ASSUME NEW m \in Messages, DispatchDeferred(m) \/ DispatchBehind(m) PROVE Reused'
  <2>1. Take(m) /\ held' \in {m, None} /\ UNCHANGED answers
    BY <1>1 DEF DispatchDeferred, DispatchBehind, Take, requestVars
  <2> QED
    BY <2>1, ReusedTake DEF Located
<1>2. ASSUME NEW m \in Messages, DispatchNow(m) PROVE Reused'
  <2>1. Take(m) /\ RouteMessage(m, RoutedOnArrival) /\ held' = None /\ arrivedAt[m] = 0
    BY <1>2 DEF DispatchNow, Take
  <2>2. at[m] = "unsent"
    BY <2>1 DEF Located, Stamped
  <2>3. \A q \in Requests \ {m} : IdOf[q] = IdOf[m] /\ at[q] \in Registered /\ m \in Requests => m \in clash'
    BY <2>1, RegisteredIsOpen DEF Take
  <2>4. UNCHANGED answers \/ (m \in Requests /\ Replies(m))
    BY <2>1, <2>2, <2>3, RouteReplies
  <2> QED
    BY <2>1, <2>4, ReusedTake DEF Located
<1>3. CASE RouteHeld
  BY <1>3, ReusedKept DEF RouteHeld, CancelRequest, requestVars
<1>4. CASE StopReading \/ Stop \/ UNCHANGED vars
  BY <1>4, ReusedKept DEF StopReading, Stop, DrainIdle, DrainTimeout, ShutdownPool, vars, requestVars
<1> QED
  BY <1>1, <1>2, <1>3, <1>4 DEF Dispatch

LEMMA ReusedThread ==
  ASSUME TypeOK, StrandExclusion, NEW at \in Placed, Located(at), Reused, NEW w \in Workers, WorkerStep(w)
  PROVE  Reused'
<1>0. UNCHANGED <<arrivedAt, clash>>
  BY DEF WorkerStep, TakeTask, Exit, DrainNext, DrainEnd, RouteQueued, FinishQueuedRoute, HandleNotice,
         StartAfterNotifications, StartHandler, HandlerReturns, EraseEntry, SendAnswer, readerVars
<1>1. CASE RouteQueued(w)
  <2>1. Executing(w, "route")
    BY <1>1 DEF RouteQueued
  <2>2. PICK m \in Messages : Msg(w) = m
    BY <2>1, ThreadAt
  <2>3. at[m] = "routing" /\ RouteMessage(m, worker[w].task.arrival)
    BY <1>1, <2>1, <2>2, ThreadAt DEF RouteQueued
  <2>4. ASSUME NEW q \in Requests \ {m}, IdOf[q] = IdOf[m], at[q] \in Registered, m \in Requests
        PROVE  m \in clash'
    <3>1. answers[q] = <<>> /\ arrivedAt[q] > 0 /\ at[q] \in Routed /\ q \in Messages \ Cancels
      BY <2>4, RegisteredIsOpen
    <3>2. arrivedAt[q] < arrivedAt[m]
      BY <2>3, <3>1 DEF Located, InTurn, Unrouted
    <3> QED
      BY <1>0, <2>4, <3>1, <3>2 DEF Reused, Before, Sent
  <2>5. UNCHANGED answers \/ (m \in Requests /\ Replies(m))
    BY <2>3, <2>4, RouteReplies
  <2> QED
    BY <1>0, <2>5, ReusedKept
<1>2. CASE SendAnswer(w)
  <2>1. PICK m \in Messages : Msg(w) = m
    <3>1. Sending(w)
      BY <1>2 DEF SendAnswer, Sending
    <3> QED
      BY <3>1, ThreadAt DEF Messages
  <2>2. /\ m \in Requests /\ \E o \in {"result", "cancelled"} : answers'[m] = <<o>>
        /\ \A r \in Requests \ {m} : answers'[r] = answers[r]
    BY <1>2, <2>1, SendMoves
  <2> QED
    BY <1>0, <2>2, ReusedKept DEF Replies
<1>3. CASE UNCHANGED answers
  BY <1>0, <1>3, ReusedKept
<1> QED
  BY <1>1, <1>2, <1>3
     DEF WorkerStep, TakeTask, Exit, DrainNext, DrainEnd, FinishQueuedRoute, HandleNotice,
         StartAfterNotifications, StartHandler, HandlerReturns, EraseEntry, requestVars

-----------------------------------------------------------------------------
(* The orders of effects. *)
Begun == {"called", "sending", "done"}
PastEdits == {"pooled", "called", "sending"}

(* A move of m that brings no order out of step: no notice is finished by it, no request
   leaves those that have begun, none passes the notification strand before its edits,
   and only the head of a lane is about to run. *)
Onward(at, m, p) ==
  /\ Steady(m)
  /\ \/ at[m] # "unsent" /\ arrivedAt'[m] = arrivedAt[m]
     \/ at[m] = "unsent" /\ \A n \in Messages : arrivedAt[n] < arrivedAt'[m]
  /\ m \in Notices => /\ at[m] # "done" /\ p # "done"
                      /\ p \in {"queued", "opened"} => at[m] \in {"unsent", "queued"} \cup Unrouted
  /\ m \in Requests => /\ at[m] \in Begun => p \in Begun
                       /\ p = "queued" => at[m] \in {"unsent"} \cup Unrouted
                       /\ ModeOf[m] = "after" /\ p \in PastEdits =>
                            \/ at[m] \in PastEdits
                            \/ at[m] # "unsent" /\ \A n \in Notices : Before(n, m) => InSeq(n, handled)
  /\ \A r \in Requests : AboutToRun(r)' /\ Serial(r) => AboutToRun(r) \/ (r = m /\ at[m] = "queued")

LEMMA Histories ==
  ASSUME TypeOK
  PROVE  /\ \A i \in 1 .. Len(started) : started[i] \in Requests /\ InSeq(started[i], started)
         /\ \A i \in 1 .. Len(handled) : handled[i] \in Notices /\ InSeq(handled[i], handled)
  BY DEF TypeOK, InSeq

LEMMA OrdersKept ==
  ASSUME TypeOK, TypeOK', NEW at \in Placed, Located(at), Orders(at), UNCHANGED <<handled, started>>,
         NEW m \in Messages, NEW p \in Places, Onward(at, m, p)
  PROVE  Orders(Moved(at, m, p))'
<1> DEFINE to == Moved(at, m, p)
<1>1. to[m] = p /\ \A n \in Messages \ {m} : to[n] = at[n]
  BY MovedTo
<1> HIDE DEF to
<1>2. /\ \A n \in Messages \ {m} : arrivedAt'[n] = arrivedAt[n]
      /\ \A n \in Messages : at[n] # "unsent" => arrivedAt'[n] = arrivedAt[n]
  <2>1. \A n \in Messages : arrivedAt[n] \in Nat /\ (at[n] = "unsent" <=> arrivedAt[n] = 0)
    BY DEF TypeOK, Located, Stamped
  <2> QED
    BY <2>1 DEF Onward, Steady
<1>3. Requests \subseteq Messages \ Cancels /\ Notices \subseteq Messages \ Cancels /\ Requests \cap Notices = {}
  BY ConstantsAssumption DEF Messages
<1>4. {"done", "called", "sending"} \subseteq Routed \ ({"unsent"} \cup Unrouted)
  BY DEF Routed, Unrouted
<1>5. \A n \in Messages \ Cancels : at[n] \in {"done", "called", "sending"} /\ n # m
                                    /\ at[m] \in {"unsent"} \cup Unrouted => arrivedAt'[n] < arrivedAt'[m]
  <2>1. TAKE n \in Messages \ Cancels
  <2>2. SUFFICES ASSUME at[n] \in {"done", "called", "sending"}, n # m, at[m] \in {"unsent"} \cup Unrouted
                 PROVE  arrivedAt'[n] < arrivedAt'[m]
    OBVIOUS
  <2>3. arrivedAt'[n] = arrivedAt[n]
    BY <1>2, <2>2
  <2>4. CASE at[m] = "unsent"
    BY <2>3, <2>4 DEF Onward
  <2>5. CASE at[m] \in Unrouted
    <3>1. arrivedAt'[m] = arrivedAt[m]
      BY <1>2, <2>5 DEF Unrouted
    <3> QED
      BY <1>4, <2>2, <2>3, <2>5, <3>1 DEF Located, InTurn
  <2> QED
    BY <2>2, <2>4, <2>5
<1>6. HandledSoFar(to)'
  <2>1. \A n \in Notices : to[n] = "done" <=> InSeq(n, handled)'
    BY <1>1, <1>3 DEF Orders, HandledSoFar, Onward, InSeq
  <2>2. \A i, j \in 1 .. Len(handled) : i < j => Before(handled[i], handled[j])'
    <3>1. \A i \in 1 .. Len(handled) : arrivedAt'[handled[i]] = arrivedAt[handled[i]]
      <4>1. \A i \in 1 .. Len(handled) : handled[i] \in Messages /\ at[handled[i]] = "done"
        BY <1>3, Histories DEF Orders, HandledSoFar
      <4> QED
        BY <1>2, <4>1
    <3> QED
      BY <3>1 DEF Orders, HandledSoFar, Before, Sent
  <2>3. ASSUME NEW n \in Notices, NEW o \in Notices, InSeq(n, handled), to[o] \in {"queued", "opened"}
        PROVE  arrivedAt'[n] < arrivedAt'[o]
    <3>1. at[n] = "done" /\ arrivedAt'[n] = arrivedAt[n] /\ n # m
      BY <1>2, <1>3, <2>3 DEF Orders, HandledSoFar, Onward
    <3>2. CASE at[o] \in {"queued", "opened"}
      <4>1. arrivedAt'[o] = arrivedAt[o]
        BY <1>2, <1>3, <3>2
      <4> QED
        BY <2>3, <3>1, <3>2, <4>1 DEF Orders, HandledSoFar
    <3>3. CASE at[o] \notin {"queued", "opened"}
      <4>1. o = m /\ at[m] \in {"unsent"} \cup Unrouted
        BY <1>1, <1>3, <2>3, <3>3 DEF Onward
      <4> QED
        BY <1>3, <1>5, <3>1, <4>1
    <3> QED
      BY <3>2, <3>3
  <2>4. handled' = handled /\ \A n \in Notices : InSeq(n, handled)' <=> InSeq(n, handled)
    BY DEF InSeq
  <2> QED
    BY <2>1, <2>2, <2>3, <2>4 DEF HandledSoFar
<1>7. \A r \in Requests : InSeq(r, started) => at[r] \in Begun /\ arrivedAt'[r] = arrivedAt[r]
  BY <1>2, <1>3 DEF Orders, StartedSoFar, Begun
<1>8. StartedSoFar(to)'
  <2>1. \A r \in Requests : InSeq(r, started) => to[r] \in Begun
    BY <1>1, <1>3, <1>7 DEF Onward
  <2>2. SerialOrder'
    BY <1>7, Histories DEF Orders, StartedSoFar, SerialOrder, Before, Sent
  <2>3. ASSUME NEW q \in Requests, NEW r \in Requests, InSeq(q, started), Serial(q), Serial(r),
               LaneOf[q] = LaneOf[r], to[r] = "queued" \/ AboutToRun(r)'
        PROVE  arrivedAt'[q] < arrivedAt'[r]
    <3>1. at[q] \in Begun /\ arrivedAt'[q] = arrivedAt[q]
      BY <1>7, <2>3
    <3>2. CASE at[r] = "queued" \/ AboutToRun(r)
      <4>1. arrivedAt[q] < arrivedAt[r]
        BY <2>3, <3>2 DEF Orders, StartedSoFar
      <4>2. arrivedAt'[r] = arrivedAt[r]
        <5>1. CASE at[r] = "queued"
          BY <1>2, <1>3, <5>1
        <5>2. CASE AboutToRun(r)
          <6>1. at[r] = "called"
            BY <5>2, ThreadAt DEF AboutToRun
          <6> QED
            BY <1>2, <1>3, <6>1
        <5> QED
          BY <3>2, <5>1, <5>2
      <4> QED
        BY <3>1, <4>1, <4>2
    <3>3. CASE ~(at[r] = "queued" \/ AboutToRun(r))
      <4>1. r = m /\ at[m] \in {"unsent"} \cup Unrouted
        BY <1>1, <1>3, <2>3, <3>3 DEF Onward
      <4>2. q # m
        BY <1>4, <3>1, <4>1 DEF Begun
      <4> QED
        BY <1>3, <1>5, <3>1, <4>1, <4>2 DEF Begun
    <3> QED
      BY <3>2, <3>3
  <2>4. started' = started /\ \A r \in Requests : InSeq(r, started)' <=> InSeq(r, started)
    BY DEF InSeq
  <2>5. \A r \in Requests : Serial(r)' <=> Serial(r)
    BY DEF Serial
  <2> QED
    BY <2>1, <2>2, <2>3, <2>4, <2>5 DEF StartedSoFar, Begun
<1>9. AfterEdits(to)'
  <2>1. ASSUME NEW r \in Requests, NEW n \in Notices, ModeOf[r] = "after",
               to[r] \in PastEdits \/ InSeq(r, started), Before(n, r)'
        PROVE  InSeq(n, handled)
    <3>1. (at[r] \in PastEdits \/ InSeq(r, started))
          \/ (r = m /\ at[m] # "unsent" /\ \A o \in Notices : Before(o, m) => InSeq(o, handled))
      BY <1>1, <1>3, <2>1 DEF Onward
    <3>2. CASE at[r] # "unsent"
      <4>1. arrivedAt'[r] = arrivedAt[r] /\ n # r
        BY <1>2, <1>3, <3>2
      <4>2. Before(n, r)
        <5>1. CASE arrivedAt'[n] = arrivedAt[n]
          BY <2>1, <4>1, <5>1 DEF Before, Sent
        <5>2. CASE n = m /\ \A o \in Messages : arrivedAt[o] < arrivedAt'[m]
          <6>1. arrivedAt[r] < arrivedAt'[n] /\ arrivedAt'[n] < arrivedAt'[r]
            BY <1>3, <2>1, <5>2 DEF Before
          <6>2. arrivedAt'[n] \in Nat /\ arrivedAt[r] \in Nat
            BY <1>3 DEF TypeOK
          <6> QED
            BY <4>1, <6>1, <6>2
        <5> QED
          BY <1>2, <1>3, <5>1, <5>2 DEF Onward
      <4> QED
        BY <2>1, <3>1, <4>2 DEF Orders, AfterEdits, PastEdits
    <3>3. CASE at[r] = "unsent"
      BY <1>7, <3>1, <3>3 DEF PastEdits, Begun
    <3> QED
      BY <3>2, <3>3
  <2>2. \A n \in Notices : InSeq(n, handled)' <=> InSeq(n, handled)
    BY DEF InSeq
  <2>3. \A r \in Requests : InSeq(r, started)' <=> InSeq(r, started)
    BY DEF InSeq
  <2> QED
    BY <2>1, <2>2, <2>3 DEF AfterEdits, PastEdits
<1> QED
  BY <1>6, <1>8, <1>9 DEF Orders, to

LEMMA AppendSeq ==
  ASSUME NEW S, NEW q \in Seq(S), NEW m \in S
  PROVE  \A x : InSeq(x, Append(q, m)) <=> InSeq(x, q) \/ x = m
<1>1. /\ Len(q) \in Nat /\ Len(Append(q, m)) = Len(q) + 1
      /\ \A i \in 1 .. Len(q) : Append(q, m)[i] = q[i] /\ i \in 1 .. Len(q) + 1 /\ i # Len(q) + 1
      /\ Append(q, m)[Len(q) + 1] = m
      /\ \A i \in 1 .. Len(q) + 1 : i \in 1 .. Len(q) \/ i = Len(q) + 1
      /\ Len(q) + 1 \in 1 .. Len(q) + 1
  BY AppendAt
<1> QED
  BY <1>1 DEF InSeq

LEMMA OrdersStay ==
  ASSUME NEW at, Orders(at), UNCHANGED <<arrivedAt, started, handled>>,
         \A r \in Requests : AboutToRun(r)' /\ Serial(r) => AboutToRun(r)
  PROVE  Orders(at)'
<1>1. \A m, n : Before(m, n)' <=> Before(m, n)
  BY DEF Before, Sent
<1>2. \A x : (InSeq(x, started)' <=> InSeq(x, started)) /\ (InSeq(x, handled)' <=> InSeq(x, handled))
  BY DEF InSeq
<1>3. HandledSoFar(at)'
  BY <1>1, <1>2 DEF Orders, HandledSoFar
<1>4. SerialOrder'
  BY <1>1 DEF Orders, StartedSoFar, SerialOrder
<1>5. StartedSoFar(at)'
  BY <1>2, <1>4 DEF Orders, StartedSoFar, Serial
<1>6. AfterEdits(at)'
  BY <1>1, <1>2 DEF Orders, AfterEdits
<1> QED
  BY <1>3, <1>5, <1>6 DEF Orders

(* A notice is handled: what was handled came before it, what is left comes after it. *)
LEMMA HandleOrders ==
  ASSUME TypeOK, StrandExclusion, NEW at \in Placed, Located(at), Orders(at),
         NEW w \in Workers, HandleNotice(w), NEW m \in Messages, Msg(w) = m
  PROVE  Orders(Moved(at, m, "done"))'
<1> DEFINE to == Moved(at, m, "done")
<1>1. /\ Executing(w, "notify") /\ handled' = Append(handled, m) /\ Return(w)
      /\ UNCHANGED <<arrivedAt, started>>
  BY DEF HandleNotice, readerVars
<1>2. to[m] = "done" /\ \A n \in Messages \ {m} : to[n] = at[n]
  BY MovedTo DEF Places, Routed
<1> HIDE DEF to
<1>3. at[m] = "opened" /\ m \in Notices /\ worker[w].strand = Notify /\ worker[w].at = "task" /\ ~Route(worker[w].task)
  BY <1>1, ThreadAt DEF Executing, Route
<1>4. Requests \subseteq Messages /\ Notices \subseteq Messages /\ Requests \cap Notices = {}
  BY ConstantsAssumption DEF Messages
<1>5. \A x : InSeq(x, handled)' <=> InSeq(x, handled) \/ x = m
  <2>1. handled \in Seq(Notices)
    BY DEF TypeOK
  <2>2. \A x : InSeq(x, Append(handled, m)) <=> InSeq(x, handled) \/ x = m
    BY <1>3, <2>1, AppendSeq
  <2> QED
    BY <1>1, <2>2 DEF InSeq
<1>6. \A q, n : Before(q, n)' <=> Before(q, n)
  BY <1>1 DEF Before, Sent
<1>7. \A r : InSeq(r, started)' <=> InSeq(r, started)
  BY <1>1 DEF InSeq
<1>8. \A n \in Notices : InSeq(n, handled) => Before(n, m)
  <2>1. \A n \in Notices : InSeq(n, handled) => arrivedAt[n] < arrivedAt[m] /\ at[n] = "done"
    BY <1>3 DEF Orders, HandledSoFar
  <2>2. \A n \in Notices : at[n] = "done" => arrivedAt[n] # 0 /\ arrivedAt[n] \in Nat
    BY <1>4 DEF Located, Stamped, TypeOK
  <2> QED
    BY <2>1, <2>2 DEF Before, Sent
<1>9. \A o \in Notices \ {m} : at[o] # "opened" /\ (at[o] = "queued" => arrivedAt[m] < arrivedAt[o])
  <2>1. \A o \in Notices : Home(o) = Notify
    BY <1>4 DEF Home, Serial
  <2> QED
    BY <1>3, <1>4, <2>1, FirstOfNotify
<1>10. HandledSoFar(to)'
  <2>1. \A n \in Notices : to[n] = "done" <=> InSeq(n, handled)'
    BY <1>2, <1>4, <1>5 DEF Orders, HandledSoFar
  <2>2. ASSUME NEW i \in 1 .. Len(handled'), NEW j \in 1 .. Len(handled'), i < j
        PROVE  Before(handled'[i], handled'[j])
    <3>1. handled \in Seq(Notices)
      BY DEF TypeOK
    <3>2. /\ Len(handled) \in Nat /\ Len(handled') = Len(handled) + 1
          /\ \A k \in 1 .. Len(handled) : handled'[k] = handled[k] /\ k \in 1 .. Len(handled) + 1 /\ k # Len(handled) + 1
          /\ handled'[Len(handled) + 1] = m
          /\ \A k \in 1 .. Len(handled) + 1 : k \in 1 .. Len(handled) \/ k = Len(handled) + 1
      BY <1>1, <1>3, <3>1, AppendAt
    <3>3. i \in 1 .. Len(handled)
      BY <2>2, <3>2
    <3>4. CASE j \in 1 .. Len(handled)
      BY <2>2, <3>2, <3>3, <3>4 DEF Orders, HandledSoFar
    <3>5. CASE j = Len(handled) + 1
      <4>1. handled[i] \in Notices /\ InSeq(handled[i], handled)
        BY <3>3, Histories
      <4> QED
        BY <1>8, <3>2, <3>3, <3>5, <4>1
    <3> QED
      BY <2>2, <3>2, <3>4, <3>5
  <2>3. \A n, o \in Notices : InSeq(n, handled)' /\ to[o] \in {"queued", "opened"} => arrivedAt[n] < arrivedAt[o]
    BY <1>2, <1>4, <1>5, <1>9 DEF Orders, HandledSoFar
  <2>4. \A i, j \in 1 .. Len(handled') : i < j => Before(handled'[i], handled'[j])
    BY <2>2
  <2> QED
    BY <1>1, <1>6, <2>1, <2>3, <2>4 DEF HandledSoFar
<1>11. StartedSoFar(to)'
  <2>1. \A r \in Requests : AboutToRun(r)' => AboutToRun(r)
    <3>1. worker'[w].at \in {"idle", "drain"} /\ \A v \in Workers \ {w} : worker'[v] = worker[v]
      BY <1>1, ReturnIs
    <3>2. \A v \in Workers : Executing(v, "run")' => v # w
      BY <3>1 DEF Executing
    <3> QED
      BY <3>1, <3>2 DEF AboutToRun, Executing, Msg
  <2>2. SerialOrder'
    BY <1>1, <1>6 DEF Orders, StartedSoFar, SerialOrder
  <2>3. \A r \in Requests : to[r] = at[r]
    BY <1>2, <1>3, <1>4
  <2> QED
    BY <1>1, <1>7, <2>1, <2>2, <2>3 DEF Orders, StartedSoFar, Serial
<1>12. AfterEdits(to)'
  BY <1>2, <1>3, <1>4, <1>5, <1>6, <1>7 DEF Orders, AfterEdits
<1> QED
  BY <1>10, <1>11, <1>12 DEF Orders, to

(* A handler starts: those its lane started came before it, those it has yet to start
   come after it, and no other thread is inside the lane. *)
LEMMA StartOrders ==
  ASSUME TypeOK, StrandExclusion, NEW at \in Placed, Located(at), Orders(at), NEW w \in Workers, StartHandler(w)
  PROVE  Orders(at)'
<1>1. /\ Executing(w, "run") /\ started' = Append(started, Msg(w)) /\ UNCHANGED <<arrivedAt, handled>>
      /\ Become(w, "running", worker[w].strand, worker[w].task)
  BY DEF StartHandler, readerVars
<1>2. PICK m \in Requests : Msg(w) = m /\ at[m] = "called" /\ worker[w].task.kind = "run"
  BY <1>1, ThreadAt
<1>3. Requests \subseteq Messages /\ AboutToRun(m)
  BY <1>1, <1>2 DEF Messages, AboutToRun
<1>4. \A x : InSeq(x, started)' <=> InSeq(x, started) \/ x = m
  <2>1. started \in Seq(Requests)
    BY DEF TypeOK
  <2>2. \A x : InSeq(x, Append(started, m)) <=> InSeq(x, started) \/ x = m
    BY <2>1, AppendSeq
  <2> QED
    BY <1>1, <1>2, <2>2 DEF InSeq
<1>5. \A q, n : Before(q, n)' <=> Before(q, n)
  BY <1>1 DEF Before, Sent
<1>6. \A x : InSeq(x, handled)' <=> InSeq(x, handled)
  BY <1>1 DEF InSeq
<1>7. HandledSoFar(at)'
  BY <1>1, <1>5, <1>6 DEF Orders, HandledSoFar
<1>8. AfterEdits(at)'
  BY <1>2, <1>4, <1>5, <1>6 DEF Orders, AfterEdits
<1>9. \A q \in Requests : InSeq(q, started) /\ Serial(q) /\ Serial(m) /\ LaneOf[q] = LaneOf[m] => Before(q, m)
  <2>1. \A q \in Requests : InSeq(q, started) => arrivedAt[q] # 0 /\ arrivedAt[q] \in Nat
    BY <1>3 DEF Orders, StartedSoFar, Located, Stamped, TypeOK
  <2> QED
    BY <1>3, <2>1 DEF Orders, StartedSoFar, Before, Sent
<1>10. SerialOrder'
  <2>1. started \in Seq(Requests)
    BY DEF TypeOK
  <2>2. /\ Len(started) \in Nat /\ Len(started') = Len(started) + 1
        /\ \A k \in 1 .. Len(started) : started'[k] = started[k] /\ k \in 1 .. Len(started) + 1 /\ k # Len(started) + 1
        /\ started'[Len(started) + 1] = m
        /\ \A k \in 1 .. Len(started) + 1 : k \in 1 .. Len(started) \/ k = Len(started) + 1
    BY <1>1, <1>2, <2>1, AppendAt
  <2>3. ASSUME NEW i \in 1 .. Len(started'), NEW j \in 1 .. Len(started'), i < j,
               ModeOf[started'[i]] = "serial", ModeOf[started'[j]] = "serial",
               LaneOf[started'[i]] = LaneOf[started'[j]]
        PROVE  Before(started'[i], started'[j])
    <3>1. i \in 1 .. Len(started)
      BY <2>2, <2>3
    <3>2. CASE j \in 1 .. Len(started)
      BY <2>2, <2>3, <3>1, <3>2 DEF Orders, StartedSoFar, SerialOrder
    <3>3. CASE j = Len(started) + 1
      <4>1. started[i] \in Requests /\ InSeq(started[i], started)
        BY <3>1, Histories
      <4> QED
        BY <1>9, <2>2, <2>3, <3>1, <3>3, <4>1 DEF Serial
    <3> QED
      BY <2>2, <2>3, <3>2, <3>3
  <2> QED
    BY <1>5, <2>3 DEF SerialOrder
<1>11. /\ worker'[w].at = "running" /\ \A v \in Workers \ {w} : worker'[v] = worker[v]
  BY <1>1, BecomeIs
<1>12. \A r \in Requests : AboutToRun(r)' => \E v \in Workers \ {w} : Executing(v, "run") /\ Msg(v) = r
  <2>1. \A v \in Workers : Executing(v, "run")' => v # w
    BY <1>11 DEF Executing
  <2> QED
    BY <1>11, <2>1 DEF AboutToRun, Executing, Msg
<1>13. ASSUME NEW r \in Requests, Serial(m), Serial(r), LaneOf[m] = LaneOf[r], at[r] = "queued" \/ AboutToRun(r)'
       PROVE  arrivedAt[m] < arrivedAt[r]
  <2>1. LaneOf[m] \in Strands /\ LaneOf[m] # None /\ Home(m) = LaneOf[m] /\ Home(r) = LaneOf[m]
    BY <1>13, ConstantsAssumption DEF Home, Strands
  <2>2. worker[w].strand = LaneOf[m] /\ worker[w].at = "task" /\ ~Route(worker[w].task)
    <3>1. Busy(w)
      BY <1>1, ThreadAt
    <3>2. worker[w].strand = StrandOf(w)
      BY <3>1 DEF Located, OnThreads
    <3> QED
      BY <1>1, <1>2, <1>13, <2>1, <3>2 DEF StrandOf, Executing, Route
  <2>3. CASE at[r] = "queued"
    <3>1. PICK i \in 1 .. Len(strand[Home(r)]) : strand[Home(r)][i].msg = r
      BY <1>3, <2>3 DEF Located, OnStrands
    <3>2. PICK s \in Strands : s = Home(r)
      BY <2>1
    <3>3. ~Route(strand[s][i])
      BY <2>3, <3>1, <3>2 DEF Located, OnStrands
    <3> QED
      BY <1>2, <2>1, <2>2, <3>1, <3>2, <3>3 DEF Located, Ahead
  <2>4. CASE AboutToRun(r)'
    <3>1. PICK v \in Workers \ {w} : Executing(v, "run") /\ Msg(v) = r
      BY <1>12, <2>4
    <3>2. Busy(v)
      BY <3>1, ThreadAt
    <3>3. worker[v].strand = StrandOf(v)
      BY <3>2 DEF Located, OnThreads
    <3>4. worker[v].strand = LaneOf[m]
      BY <1>13, <2>1, <3>1, <3>3 DEF StrandOf, Executing, Route
    <3> QED
      BY <2>1, <2>2, <3>1, <3>4 DEF StrandExclusion
  <2> QED
    BY <1>13, <2>3, <2>4
<1>14. StartedSoFar(at)'
  <2>1. \A r \in Requests : InSeq(r, started)' => at[r] \in {"called", "sending", "done"}
    BY <1>2, <1>4 DEF Orders, StartedSoFar
  <2>2. ASSUME NEW q \in Requests, NEW r \in Requests, InSeq(q, started)', Serial(q), Serial(r),
               LaneOf[q] = LaneOf[r], at[r] = "queued" \/ AboutToRun(r)'
        PROVE  arrivedAt[q] < arrivedAt[r]
    <3>1. AboutToRun(r)' => AboutToRun(r)
      BY <1>12 DEF AboutToRun
    <3>2. CASE InSeq(q, started)
      BY <2>2, <3>1, <3>2 DEF Orders, StartedSoFar
    <3>3. CASE q = m
      BY <1>13, <2>2, <3>3
    <3> QED
      BY <1>4, <2>2, <3>2, <3>3
  <2>3. \A r \in Requests : Serial(r)' <=> Serial(r)
    BY DEF Serial
  <2> QED
    BY <1>1, <1>10, <2>1, <2>2, <2>3 DEF StartedSoFar
<1> QED
  BY <1>7, <1>8, <1>14 DEF Orders

-----------------------------------------------------------------------------
(* What waitIdle saw, and every step put together. *)
LEMMA DrainedKept ==
  ASSUME NEW at \in Placed, DrainedOut(at), UNCHANGED drained, drained => reader' = reader,
         NEW m \in Messages, NEW p \in Places, drained => at[m] # "unsent",
         p \in Unrouted => at[m] \in {"unsent"} \cup Unrouted,
         m \in Requests /\ at[m] \in {"sending", "done"} => p \in {"sending", "done"}
  PROVE  DrainedOut(Moved(at, m, p))'
<1> DEFINE to == Moved(at, m, p)
<1>1. to[m] = p /\ \A n \in Messages \ {m} : to[n] = at[n]
  BY MovedTo
<1> HIDE DEF to
<1>2. DrainedOut(to)'
  BY <1>1 DEF DrainedOut, Messages
<1> QED
  BY <1>2 DEF to

LEMMA RunnersStay ==
  ASSUME NEW w \in Workers, \A v \in Workers \ {w} : worker'[v] = worker[v], worker'[w].at # "task"
  PROVE  \A r : AboutToRun(r)' => AboutToRun(r)
<1>1. \A v \in Workers : Executing(v, "run")' => v # w
  BY DEF Executing
<1> QED
  BY <1>1 DEF AboutToRun, Executing, Msg

LEMMA SettledBy ==
  ASSUME TypeOK, TypeOK', NEW at \in Placed, Settled(at), NEW m \in Messages, NEW p \in Places,
         Located(Moved(at, m, p))', Onward(at, m, p), UNCHANGED <<handled, started, drained, reader>>,
         drained => at[m] # "unsent",
         p \in Unrouted => at[m] \in {"unsent"} \cup Unrouted,
         m \in Requests /\ at[m] \in {"sending", "done"} => p \in {"sending", "done"}
  PROVE  \E to \in Placed : Settled(to)'
<1>1. Moved(at, m, p) \in Placed
  BY MovedTo
<1>2. Orders(Moved(at, m, p))'
  BY OrdersKept DEF Settled
<1>3. DrainedOut(Moved(at, m, p))'
  BY DrainedKept DEF Settled
<1>4. Settled(Moved(at, m, p))'
  BY <1>2, <1>3 DEF Settled
<1> QED
  BY <1>1, <1>4

LEMMA SettledStays ==
  ASSUME NEW at \in Placed, Settled(at), Located(at)', UNCHANGED <<arrivedAt, handled, started, drained>>,
         drained => reader' = reader,
         \A r \in Requests : AboutToRun(r)' /\ Serial(r) => AboutToRun(r)
  PROVE  \E to \in Placed : Settled(to)'
<1>1. Orders(at)'
  BY OrdersStay DEF Settled
<1>2. DrainedOut(at)'
  BY DEF Settled, DrainedOut
<1>3. Settled(at)'
  BY <1>1, <1>2 DEF Settled
<1> QED
  BY <1>3

(* The kinds are apart. *)
LEMMA Apart ==
  /\ Requests \subseteq Messages /\ Notices \subseteq Messages /\ Cancels \subseteq Messages
  /\ \A m \in Messages : (m \in Requests => m \notin Notices \cup Cancels) /\ (m \in Notices => m \notin Cancels)
  BY ConstantsAssumption DEF Messages

(* The places, one by one. *)
LEMMA PlacesOf ==
  /\ Unrouted = {"held", "waiting", "routing"}
  /\ Registered = {"queued", "opened", "pooled", "called", "lost"}
  /\ Begun = {"called", "sending", "done"} /\ PastEdits = {"pooled", "called", "sending"}
  /\ Places = {"unsent", "held", "waiting", "routing", "queued", "opened", "pooled", "called", "sending",
               "done", "lost"}
  BY DEF Unrouted, Registered, Begun, PastEdits, Places, Routed

LEMMA DispatchSettles ==
  ASSUME TypeOK, TypeOK', CountersExact, StrandExclusion, NEW at \in Placed, Settled(at),
         NEW m \in Messages, Dispatch(m)
  PROVE  \E to \in Placed : Settled(to)'
<1>1. /\ Take(m) /\ arrivedAt[m] = 0 /\ arrivedAt' = [arrivedAt EXCEPT ![m] = Clock + 1] /\ reader = "reading"
      /\ UNCHANGED <<worker, handled, started, drained, reader>>
  BY DEF Dispatch, DispatchDeferred, DispatchBehind, DispatchNow, Take, historyVars
<1>2. ~drained
  BY <1>1 DEF Settled, DrainedOut
<1>3. at[m] = "unsent"
  BY <1>1 DEF Settled, Located, Stamped
<1>4. arrivedAt'[m] = Clock + 1 /\ Steady(m)
  BY <1>1 DEF TypeOK, Steady
<1>5. \A n \in Messages : arrivedAt[n] < arrivedAt'[m]
  <2>1. Clock \in Nat /\ \A n \in Messages : arrivedAt[n] \in Nat /\ arrivedAt[n] <= Clock
    BY ClockType DEF TypeOK, Settled, Located, Stamped
  <2> QED
    BY <1>4, <2>1
<1>6. \A r : AboutToRun(r)' <=> AboutToRun(r)
  BY <1>1 DEF AboutToRun, Executing, Msg
<1>7. ASSUME NEW p \in {"held", "waiting", "queued", "pooled", "lost", "done"}, Located(Moved(at, m, p))',
             m \in Notices => p # "done", m \in Requests /\ ModeOf[m] = "after" => p # "pooled"
      PROVE  \E to \in Placed : Settled(to)'
  <2>1. p \in Places
    BY PlacesOf
  <2>2. Onward(at, m, p)
    BY <1>3, <1>4, <1>5, <1>6, <1>7, PlacesOf DEF Onward
  <2> QED
    BY <1>1, <1>2, <1>3, <1>7, <2>1, <2>2, SettledBy
<1>8. CASE DispatchDeferred(m)
  BY <1>7, <1>8, DeferredMoves DEF Settled
<1>9. CASE DispatchBehind(m)
  BY <1>7, <1>9, BehindMoves DEF Settled
<1>10. CASE DispatchNow(m)
  <2>1. PICK p \in {"queued", "pooled", "lost", "done"} : Located(Moved(at, m, p))' /\ Fitting(m, p)
    BY <1>10, NowMoves DEF Settled
  <2> QED
    BY <1>7, <2>1 DEF Fitting
<1> QED
  BY <1>8, <1>9, <1>10 DEF Dispatch

LEMMA HeldSettles ==
  ASSUME TypeOK, TypeOK', NEW at \in Placed, Settled(at), RouteHeld
  PROVE  \E to \in Placed : Settled(to)'
<1>1. PICK m \in Messages : held = m
  BY DEF RouteHeld, TypeOK
<1>2. PICK p \in {"waiting", "done"} :
        Located(Moved(at, m, p))' /\ (p = "done" <=> m \in Cancels) /\ at[m] = "held"
  BY <1>1, HeldMoves DEF Settled
<1>3. UNCHANGED <<arrivedAt, worker, handled, started, drained, reader>>
  BY DEF RouteHeld, historyVars
<1>4. \A r : AboutToRun(r)' <=> AboutToRun(r)
  BY <1>3 DEF AboutToRun, Executing, Msg
<1>5. Onward(at, m, p)
  BY <1>2, <1>3, <1>4, Apart, PlacesOf DEF Onward, Steady
<1> QED
  BY <1>2, <1>3, <1>5, PlacesOf, SettledBy

(* The loop stops; waitIdle sees every account closed. *)
LEMMA StopSettles ==
  ASSUME TypeOK, CountersExact, StrandExclusion, HeldReads, NEW at \in Placed, Settled(at),
         StopReading \/ Stop \/ UNCHANGED vars
  PROVE  \E to \in Placed : Settled(to)'
<1>1. Located(at)' /\ UNCHANGED <<arrivedAt, worker>>
  BY StopMoves DEF Settled
<1>2. \A r : AboutToRun(r)' <=> AboutToRun(r)
  BY <1>1 DEF AboutToRun, Executing, Msg
<1>3. UNCHANGED <<handled, started>>
  BY DEF StopReading, Stop, DrainIdle, DrainTimeout, ShutdownPool, vars, historyVars
<1>4. CASE StopReading \/ DrainTimeout \/ ShutdownPool \/ UNCHANGED vars
  <2>1. UNCHANGED drained /\ (drained => reader' = reader)
    BY <1>4 DEF StopReading, DrainTimeout, ShutdownPool, vars, historyVars, Settled, DrainedOut
  <2> QED
    BY <1>1, <1>2, <1>3, <2>1, SettledStays
<1>5. CASE DrainIdle
  <2>1. /\ reader = "draining" /\ reader' = "stopping" /\ queuedRoutes = 0
        /\ \A i \in Ids : inflight[i] = None
    BY <1>5 DEF DrainIdle, NothingOutstanding
  <2>2. held = None
    BY <2>1 DEF HeldReads
  <2>3. \A m \in Messages : m # None
    BY ConstantsAssumption
  <2>4. \A m \in Messages : at[m] \notin Unrouted
    <3>1. \A m \in Messages : at[m] \notin {"waiting", "routing"}
      BY <2>1, NothingQueued DEF Settled, Located
    <3>2. \A m \in Messages : at[m] # "held"
      BY <2>2, <2>3 DEF Settled, Located, Stamped
    <3> QED
      BY <3>1, <3>2, PlacesOf
  <2>5. \A r \in Requests : at[r] \notin Registered
    <3>1. \A r \in Requests : IdOf[r] \in Ids /\ r # None
      BY <2>3, Apart, ConstantsAssumption
    <3> QED
      BY <2>1, <3>1 DEF Settled, Located, Entered
  <2>6. \A r \in Requests : at[r] \in {"unsent", "sending", "done"}
    <3>1. \A r \in Requests : at[r] \in Places
      BY Apart DEF Placed
    <3> QED
      BY <2>4, <2>5, <3>1, Apart, PlacesOf
  <2>7. DrainedOut(at)'
    BY <2>1, <2>4, <2>6 DEF DrainedOut
  <2>8. Orders(at)'
    BY <1>1, <1>2, <1>3, OrdersStay DEF Settled
  <2>9. Settled(at)'
    BY <1>1, <2>7, <2>8 DEF Settled
  <2> QED
    BY <2>9
<1> QED
  BY <1>4, <1>5 DEF Stop

LEMMA ThreadSettles ==
  ASSUME TypeOK, TypeOK', StrandExclusion, NEW at \in Placed, Settled(at), NEW w \in Workers, WorkerStep(w)
  PROVE  \E to \in Placed : Settled(to)'
<1>0. UNCHANGED <<arrivedAt, reader, drained>>
  BY DEF WorkerStep, TakeTask, Exit, DrainNext, DrainEnd, RouteQueued, FinishQueuedRoute, HandleNotice,
         StartAfterNotifications, StartHandler, HandlerReturns, EraseEntry, SendAnswer, readerVars, historyVars
<1>1. Located(at) /\ \A m \in Messages : Steady(m) /\ arrivedAt'[m] = arrivedAt[m]
  BY <1>0 DEF Settled, Steady
<1>2. CASE TakeTask(w)
  <2>1. UNCHANGED <<handled, started>>
    BY <1>2 DEF TakeTask, historyVars
  <2>2. \A v \in Workers \ {w} : worker'[v] = worker[v]
    <3>1. PICK t : IF t.kind = "drain" THEN Become(w, "drain", t.strand, None) ELSE Become(w, "task", None, t)
      BY <1>2 DEF TakeTask
    <3> QED
      BY <3>1, BecomeIs
  <2>3. CASE Located(at)' /\ worker'[w].at = "drain"
    <3>1. \A r : AboutToRun(r)' => AboutToRun(r)
      BY <2>2, <2>3, RunnersStay
    <3> QED
      BY <1>0, <2>1, <2>3, <3>1, SettledStays
  <2>4. ASSUME NEW m \in Requests, Located(Moved(at, m, "called"))', at[m] = "pooled", ~Serial(m),
               worker'[w].task.msg = m
        PROVE  \E to \in Placed : Settled(to)'
    <3>1. \A r \in Requests : AboutToRun(r)' /\ Serial(r) => AboutToRun(r)
      <4>1. SUFFICES ASSUME NEW r \in Requests, AboutToRun(r)', Serial(r) PROVE AboutToRun(r)
        OBVIOUS
      <4>2. PICK v \in Workers : Executing(v, "run")' /\ worker'[v].task.msg = r
        BY <4>1 DEF AboutToRun, Msg
      <4>3. v # w
        BY <2>4, <4>1, <4>2
      <4> QED
        BY <2>2, <4>2, <4>3 DEF AboutToRun, Executing, Msg
    <3>2. m \in Messages /\ Onward(at, m, "called")
      BY <1>1, <2>4, <3>1, Apart, PlacesOf DEF Onward
    <3> QED
      BY <1>0, <2>1, <2>4, <3>2, PlacesOf, SettledBy
  <2> QED
    BY <1>1, <1>2, <2>3, <2>4, TakeTaskMoves
<1>3. CASE Exit(w) \/ DrainEnd(w) \/ FinishQueuedRoute(w)
  <2>1. UNCHANGED <<handled, started>>
    BY <1>3 DEF Exit, DrainEnd, FinishQueuedRoute, historyVars
  <2>2. Located(at)' /\ worker'[w].at # "task" /\ \A v \in Workers \ {w} : worker'[v] = worker[v]
    BY <1>1, <1>3, IdleMoves
  <2>3. \A r : AboutToRun(r)' => AboutToRun(r)
    BY <2>2, RunnersStay
  <2> QED
    BY <1>0, <2>1, <2>2, <2>3, SettledStays
<1>4. CASE DrainNext(w)
  <2>1. UNCHANGED <<handled, started>>
    BY <1>4 DEF DrainNext, historyVars
  <2>2. PICK s \in Strands, t \in StrandTasks, m \in Messages, p \in Places :
           /\ m = t.msg /\ p = PlaceOf(t)
           /\ at[m] = IF Route(t) THEN "waiting" ELSE "queued"
           /\ ~Route(t) => t = TaskOf(m)
           /\ worker'[w].at = "task" /\ worker'[w].task = t
           /\ \A v \in Workers \ {w} : worker'[v] = worker[v]
           /\ Located(Moved(at, m, p))'
    BY <1>1, <1>4, NextMoves
  <2>3. \A r \in Requests : AboutToRun(r)' => AboutToRun(r) \/ (r = m /\ at[m] = "queued")
    <3>1. SUFFICES ASSUME NEW r \in Requests, AboutToRun(r)' PROVE AboutToRun(r) \/ (r = m /\ at[m] = "queued")
      OBVIOUS
    <3>2. PICK v \in Workers : Executing(v, "run")' /\ worker'[v].task.msg = r
      BY <3>1 DEF AboutToRun, Msg
    <3>3. CASE v = w
      BY <2>2, <3>2, <3>3 DEF Executing, Route
    <3>4. CASE v # w
      BY <2>2, <3>2, <3>4 DEF AboutToRun, Executing, Msg
    <3> QED
      BY <3>3, <3>4
  <2>4. ModeOf[m] = "after" /\ m \in Requests => p \notin PastEdits
    <3>1. SUFFICES ASSUME ModeOf[m] = "after", m \in Requests PROVE p \notin {"pooled", "called", "sending"}
      BY PlacesOf
    <3>2. CASE Route(t)
      BY <2>2, <3>2 DEF PlaceOf
    <3>3. CASE ~Route(t)
      <4>1. t.kind = "start"
        BY <2>2, <3>1, <3>3, Apart DEF TaskOf, Serial, StartTask
      <4> QED
        BY <2>2, <3>3, <4>1 DEF PlaceOf
    <3> QED
      BY <3>2, <3>3
  <2>5. /\ p \in {"routing", "called", "opened"} /\ at[m] \in {"waiting", "queued"}
        /\ p = "routing" => at[m] = "waiting"
        /\ p = "opened" => at[m] = "queued"
    BY <2>2 DEF PlaceOf
  <2>6. Onward(at, m, p)
    BY <1>1, <2>3, <2>4, <2>5, Apart, PlacesOf DEF Onward
  <2> QED
    BY <1>0, <2>1, <2>2, <2>5, <2>6, PlacesOf, SettledBy
<1>5. CASE RouteQueued(w)
  <2>1. UNCHANGED <<handled, started>> /\ Executing(w, "route")
    BY <1>5 DEF RouteQueued, historyVars
  <2>2. PICK m \in Messages : Msg(w) = m
    BY <1>1, <2>1, ThreadAt
  <2>3. PICK p \in {"queued", "pooled", "lost", "done"} :
          Located(Moved(at, m, p))' /\ Fitting(m, p) /\ at[m] = "routing"
    BY <1>1, <1>5, <2>2, QueuedMoves
  <2>4. worker'[w].at # "task" /\ \A v \in Workers \ {w} : worker'[v] = worker[v]
    BY <1>5, BecomeIs DEF RouteQueued
  <2>5. \A r : AboutToRun(r)' => AboutToRun(r)
    BY <2>4, RunnersStay
  <2>6. Onward(at, m, p)
    BY <1>1, <2>3, <2>5, Apart, PlacesOf DEF Onward, Fitting
  <2> QED
    BY <1>0, <2>1, <2>3, <2>6, PlacesOf, SettledBy
<1>6. CASE HandleNotice(w)
  <2>1. UNCHANGED started /\ Executing(w, "notify") /\ Return(w)
    BY <1>6 DEF HandleNotice
  <2>2. PICK m \in Messages : Msg(w) = m
    BY <1>1, <2>1, ThreadAt, Apart
  <2>3. Located(Moved(at, m, "done"))' /\ at[m] = "opened" /\ m \in Notices
    BY <1>1, <1>6, <2>2, HandleMoves
  <2>4. Orders(Moved(at, m, "done"))'
    BY <1>1, <1>6, <2>2, HandleOrders DEF Settled
  <2>5. DrainedOut(Moved(at, m, "done"))'
    BY <1>0, <2>3, Apart, PlacesOf, DrainedKept DEF Settled
  <2>6. Settled(Moved(at, m, "done"))' /\ Moved(at, m, "done") \in Placed
    BY <2>3, <2>4, <2>5, PlacesOf, MovedTo DEF Settled
  <2> QED
    BY <2>6
<1>7. CASE StartAfterNotifications(w)
  <2>1. UNCHANGED <<handled, started>> /\ Executing(w, "start") /\ Return(w)
    BY <1>7 DEF StartAfterNotifications, historyVars
  <2>2. PICK m \in Messages : Msg(w) = m
    BY <1>1, <2>1, ThreadAt, Apart
  <2>3. PICK p \in {"pooled", "lost"} : Located(Moved(at, m, p))'
    BY <1>1, <1>7, <2>2, StartMoves
  <2>4. at[m] = "opened" /\ m \in Requests /\ ModeOf[m] = "after"
    BY <1>1, <1>7, <2>2, StartMoves
  <2>5. worker'[w].at # "task" /\ \A v \in Workers \ {w} : worker'[v] = worker[v]
    BY <2>1, ReturnIs
  <2>6. \A r : AboutToRun(r)' => AboutToRun(r)
    BY <2>5, RunnersStay
  <2>7. ASSUME NEW n \in Notices, Before(n, m) PROVE InSeq(n, handled)
    <3>1. arrivedAt[n] > 0 /\ arrivedAt[n] < arrivedAt[m] /\ n \in Messages /\ n # m
          /\ arrivedAt[m] \in Nat /\ arrivedAt[n] \in Nat
      BY <2>4, <2>7, Apart DEF Before, Sent, TypeOK
    <3>2. at[n] # "unsent"
      BY <1>1, <3>1 DEF Located, Stamped
    <3>3. at[n] \notin Unrouted
      <4>1. at[m] \in Routed /\ m \notin Cancels
        BY <2>4, Apart DEF Routed
      <4>2. at[n] \in Unrouted => arrivedAt[m] < arrivedAt[n]
        BY <1>1, <3>1, <4>1 DEF Located, InTurn
      <4> QED
        BY <3>1, <4>2
    <3>4. worker[w].at = "task" /\ worker[w].strand = Notify /\ ~Route(worker[w].task)
      BY <1>1, <2>1, ThreadAt DEF Executing, Route
    <3>5. Home(n) = Notify
      BY <3>1, Apart DEF Home, Serial
    <3>6. at[n] # "opened" /\ (at[n] = "queued" => arrivedAt[m] < arrivedAt[n])
      BY <1>1, <2>2, <3>1, <3>4, <3>5, FirstOfNotify
    <3>7. at[n] # "queued"
      BY <3>1, <3>6
    <3>8. at[n] = "done"
      BY <1>1, <3>2, <3>3, <3>6, <3>7 DEF Located, Course
    <3> QED
      BY <3>8 DEF Settled, Orders, HandledSoFar
  <2>8. Onward(at, m, p)
    BY <1>1, <2>4, <2>6, <2>7, Apart, PlacesOf DEF Onward
  <2> QED
    BY <1>0, <2>1, <2>3, <2>4, <2>8, PlacesOf, SettledBy
<1>8. CASE StartHandler(w)
  <2>1. Orders(at)'
    BY <1>1, <1>8, StartOrders DEF Settled
  <2>2. Located(at)'
    BY <1>1, <1>8, RunMoves
  <2>3. Settled(at)'
    BY <1>0, <2>1, <2>2 DEF Settled, DrainedOut
  <2> QED
    BY <2>3
<1>9. CASE HandlerReturns(w)
  <2>1. UNCHANGED <<handled, started>>
    BY <1>9 DEF HandlerReturns, historyVars
  <2>2. Located(at)' /\ worker'[w].at # "task" /\ \A v \in Workers \ {w} : worker'[v] = worker[v]
    BY <1>1, <1>9, RunMoves
  <2>3. \A r : AboutToRun(r)' => AboutToRun(r)
    BY <2>2, RunnersStay
  <2> QED
    BY <1>0, <2>1, <2>2, <2>3, SettledStays
<1>10. CASE EraseEntry(w)
  <2>1. UNCHANGED <<handled, started>> /\ worker[w].at \in {"result", "cancelled"}
    BY <1>10 DEF EraseEntry, historyVars
  <2>2. PICK m \in Messages : Msg(w) = m
    BY <1>1, <2>1, ThreadAt, Apart
  <2>3. Located(Moved(at, m, "sending"))' /\ at[m] = "called" /\ m \in Requests /\ worker'[w].at # "task"
        /\ \A v \in Workers \ {w} : worker'[v] = worker[v]
    BY <1>1, <1>10, <2>2, EraseMoves
  <2>4. \A r : AboutToRun(r)' => AboutToRun(r)
    BY <2>3, RunnersStay
  <2>5. Onward(at, m, "sending")
    BY <1>1, <2>3, <2>4, Apart, PlacesOf DEF Onward
  <2> QED
    BY <1>0, <2>1, <2>3, <2>5, PlacesOf, SettledBy
<1>11. CASE SendAnswer(w)
  <2>1. UNCHANGED <<handled, started>> /\ Sending(w) /\ Return(w)
    BY <1>11 DEF SendAnswer, Sending, historyVars
  <2>2. PICK m \in Messages : Msg(w) = m
    BY <1>1, <2>1, ThreadAt, Apart
  <2>3. Located(Moved(at, m, "done"))' /\ at[m] = "sending" /\ m \in Requests
    BY <1>1, <1>11, <2>2, SendMoves
  <2>4. worker'[w].at # "task" /\ \A v \in Workers \ {w} : worker'[v] = worker[v]
    BY <2>1, ReturnIs
  <2>5. \A r : AboutToRun(r)' => AboutToRun(r)
    BY <2>4, RunnersStay
  <2>6. Onward(at, m, "done")
    BY <1>1, <2>3, <2>5, Apart, PlacesOf DEF Onward
  <2> QED
    BY <1>0, <2>1, <2>3, <2>6, PlacesOf, SettledBy
<1> QED
  BY <1>2, <1>3, <1>4, <1>5, <1>6, <1>7, <1>8, <1>9, <1>10, <1>11 DEF WorkerStep

(* The read loop holds a payload only while it reads. *)
LEMMA HeldReadsStep == ASSUME TypeOK, HeldReads, [Next]_vars PROVE HeldReads'
<1>1. CASE \E m \in Messages : Dispatch(m)
  BY <1>1 DEF Dispatch, DispatchDeferred, DispatchBehind, DispatchNow, Take, HeldReads
<1>2. CASE RouteHeld \/ StopReading \/ Stop \/ UNCHANGED vars
  BY <1>2 DEF RouteHeld, StopReading, Stop, DrainIdle, DrainTimeout, ShutdownPool, vars, HeldReads
<1>3. ASSUME NEW w \in Workers, WorkerStep(w) PROVE HeldReads'
  BY <1>3 DEF WorkerStep, TakeTask, Exit, DrainNext, DrainEnd, RouteQueued, FinishQueuedRoute, HandleNotice,
              StartAfterNotifications, StartHandler, HandlerReturns, EraseEntry, SendAnswer, readerVars, HeldReads
<1> QED
  BY <1>1, <1>2, <1>3 DEF Next, Done

(* The invariant: beside the types and the one drain of each strand, exact counters, the
   ids seen to be reused, and a place for every message at which all of the above is so. *)
DispatcherInv ==
  /\ TypeOK /\ OneDrain /\ CountersExact /\ Reused /\ HeldReads
  /\ \E at \in Placed : Settled(at)

LEMMA DispatcherInit == Init => DispatcherInv
<1> SUFFICES ASSUME Init PROVE DispatcherInv
  OBVIOUS
<1>2. TypeOK /\ OneDrain
  BY TypeInit, OneDrainInit
<1>3. CountersExact
  <2>1. At(strand[Notify], Routes) = {} /\ At(strand[Notify], BigRoutes) = {}
    BY HomeIsStrand DEF Init, At
  <2>2. RoutingThreads = {} /\ BigThreads = {}
    BY DEF Init, RoutingThreads, BigThreads, Routing, Executing, IdleWorker
  <2>3. Cardinality({}) = 0
    BY FS_EmptySet, Zenon
  <2>4. queuedRoutes = 0 /\ deferred = 0
    BY DEF Init
  <2>5. Counted
    BY <2>1, <2>2, <2>3, <2>4 DEF Counted
  <2> QED
    BY <1>2, <2>5, CountedIs
<1>4. Reused /\ HeldReads
  BY Apart DEF Init, Reused, HeldReads, Before, Sent, RefusedOnlyIfReused, InSeq
<1> DEFINE at == [m \in Messages |-> "unsent"]
<1>5. at \in Placed /\ \A m \in Messages : at[m] = "unsent"
  BY DEF Placed, Places
<1> HIDE DEF at
<1>6. Course(at)
  BY <1>5, Apart DEF Course
<1>7. Stamped(at)
  <2>1. Clock \in Nat /\ \A m \in Messages : arrivedAt[m] = 0
    BY ClockType DEF Init
  <2>2. held = None /\ \A m \in Messages : m # None
    BY ConstantsAssumption DEF Init
  <2> QED
    BY <1>5, <2>1, <2>2 DEF Stamped
<1>8. OnStrands(at)
  <2>1. \A s \in Strands : Len(strand[s]) = 0
    BY DEF Init
  <2> QED
    BY <1>5, <2>1 DEF OnStrands
<1>9. InPool(at)
  BY DEF InPool, InLane, Init
<1>10. OnThreads(at)
  <2>1. \A w \in Workers : worker[w].at = "idle"
    BY DEF Init, IdleWorker
  <2> QED
    BY <1>5, <2>1 DEF OnThreads, Busy
<1>11. InTurn(at)
  BY <1>5 DEF InTurn, Routed
<1>12. Ahead
  BY DEF Ahead, Init, IdleWorker
<1>13. Entered(at)
  <2>1. \A r \in Requests : IdOf[r] \in Ids /\ r # None
    BY ConstantsAssumption, Apart
  <2>2. \A r \in Requests : answers[r] = <<>> /\ Len(answers[r]) = 0 /\ inflight[IdOf[r]] = None
    BY <2>1 DEF Init
  <2>3. \A i \in Ids : inflight[i] = None
    BY DEF Init
  <2> QED
    BY <1>5, <2>1, <2>2, <2>3, Apart DEF Entered, Registered
<1>14. Located(at)
  BY <1>5, <1>6, <1>7, <1>8, <1>9, <1>10, <1>11, <1>12, <1>13 DEF Located
<1>15. Orders(at)
  BY <1>5, Apart DEF Orders, HandledSoFar, StartedSoFar, SerialOrder, AfterEdits, InSeq, Init
<1>16. DrainedOut(at)
  BY DEF DrainedOut, Init
<1> QED
  BY <1>2, <1>3, <1>4, <1>5, <1>14, <1>15, <1>16 DEF DispatcherInv, Settled

LEMMA DispatcherStep == DispatcherInv /\ [Next]_vars => DispatcherInv'
<1>1. SUFFICES ASSUME DispatcherInv, [Next]_vars PROVE DispatcherInv'
  OBVIOUS
<1>2. /\ TypeOK /\ OneDrain /\ CountersExact /\ Reused /\ HeldReads /\ StrandExclusion
  BY <1>1 DEF DispatcherInv, OneDrain
<1>3. PICK at \in Placed : Settled(at)
  BY <1>1 DEF DispatcherInv
<1>4. Located(at)
  BY <1>3 DEF Settled
<1>5. TypeOK' /\ OneDrain' /\ HeldReads'
  BY <1>1, <1>2, TypeStep, OneDrainStep, HeldReadsStep
<1>6. \/ \E m \in Messages : Dispatch(m)
      \/ RouteHeld \/ StopReading \/ Stop \/ UNCHANGED vars
      \/ \E w \in Workers : WorkerStep(w)
  BY <1>1 DEF Next, Done
<1>7. CountersExact'
  BY <1>2, <1>4, <1>5, <1>6, CountersLoop, CountersThread
<1>8. Reused'
  BY <1>2, <1>4, <1>6, ReusedLoop, ReusedThread
<1>9. \E to \in Placed : Settled(to)'
  BY <1>2, <1>3, <1>5, <1>6, DispatchSettles, HeldSettles, StopSettles, ThreadSettles
<1> QED
  BY <1>5, <1>7, <1>8, <1>9 DEF DispatcherInv

LEMMA DispatcherAlways == Spec => []DispatcherInv
  BY DispatcherInit, DispatcherStep, PTL DEF Spec

(* The counters that gate the early cancels, the deferred parses and waitIdle are exact, and
   so are the ids: each request is answered at most once, refused only if its id was in use,
   and runs only under its own entry, whatever payloads are deferred and whichever ids the
   client reuses. *)
THEOREM AccountsRight == Spec => []AccountsExact
<1>1. DispatcherInv => AccountsExact
  <2>1. SUFFICES ASSUME DispatcherInv PROVE AccountsExact
    OBVIOUS
  <2>2. TypeOK /\ CountersExact /\ RefusedOnlyIfReused
    BY <2>1 DEF DispatcherInv, Reused
  <2>3. PICK at \in Placed : Located(at)
    BY <2>1 DEF DispatcherInv, Settled
  <2>4. AnsweredOnce
    BY <2>3 DEF Located, Entered, AnsweredOnce
  <2>5. RunsRegistered
    <3>1. ASSUME NEW w \in Workers, worker[w].at \in {"running", "result", "cancelled"} \/ Executing(w, "run")
          PROVE  inflight[IdOf[Msg(w)]] = Msg(w)
      <4>1. at[Msg(w)] = "called" /\ Msg(w) \in Requests
        BY <2>2, <2>3, <3>1, ThreadAt
      <4> QED
        BY <2>3, <4>1 DEF Located, Entered, Registered
    <3> QED
      BY <3>1 DEF RunsRegistered
  <2> QED
    BY <2>2, <2>4, <2>5 DEF AccountsExact, IdsExact
<1> QED
  BY <1>1, DispatcherAlways, PTL

(* What the client sent first takes effect first: the handlers of a lane start in the order
   of arrival, notices are handled in it, and an AfterNotifications request starts only
   once the notices sent ahead of it have been handled. *)
THEOREM OrderAlways == Spec => []OrderKept
<1>1. DispatcherInv => OrderKept
  <2>1. SUFFICES ASSUME DispatcherInv PROVE OrderKept
    OBVIOUS
  <2>2. PICK at \in Placed : Orders(at)
    BY <2>1 DEF DispatcherInv, Settled
  <2> QED
    BY <2>2 DEF Orders, HandledSoFar, StartedSoFar, AfterEdits, OrderKept, SeesEarlierNotices
<1> QED
  BY <1>1, DispatcherAlways, PTL

(* Once waitIdle has returned true and the threads have exited, every request the loop took
   has been answered. *)
THEOREM DrainComplete == Spec => []DrainAnswersAll
<1>1. DispatcherInv => DrainAnswersAll
  <2>1. SUFFICES ASSUME DispatcherInv, Terminated, drained, NEW r \in Requests, Sent(r) PROVE answers[r] # <<>>
    BY DEF DrainAnswersAll
  <2>2. PICK at \in Placed : Settled(at)
    BY <2>1 DEF DispatcherInv
  <2>3. at[r] \in {"unsent", "sending", "done"}
    BY <2>1, <2>2 DEF Settled, DrainedOut
  <2>4. at[r] # "unsent"
    BY <2>1, <2>2, Apart DEF Settled, Located, Stamped, Sent
  <2>5. at[r] # "sending"
    <3>1. \A w \in Workers : ~Busy(w)
      BY <2>1 DEF Terminated, Busy
    <3> QED
      BY <2>2, <3>1, Apart DEF Settled, Located, OnThreads
  <2> QED
    BY <2>2, <2>3, <2>4, <2>5 DEF Settled, Located, Entered
<1> QED
  BY <1>1, DispatcherAlways, PTL

-----------------------------------------------------------------------------
(* Cancels. *)

(* The payloads that wait on the notification strand to be routed, or are being routed. *)
RoutesOf(q) == {q[i] : i \in At(q, Routes)}
RoutedNow == {worker[w].task : w \in {v \in Workers : Executing(v, "route")}}
LeftToRoute == RoutesOf(strand[Notify]) \cup RoutedNow

(* A cancel is remembered with the number of the last payload queued by then: it is for what
   arrived before it, and nothing is remembered while nothing is queued. *)
ForEarlier(c, i) == IdOf[c] = i /\ \A t \in LeftToRoute : t.arrival <= early[i] => Before(t.msg, c)

Remembered ==
  /\ \A t \in LeftToRoute : t.arrival \in 1 .. lastQueued
  /\ lastQueued + (IF held = None THEN 0 ELSE 1) <= Clock
  /\ queuedRoutes = 0 => \A i \in Ids : early[i] = 0
  /\ \A i \in Ids : early[i] <= lastQueued /\ (early[i] > 0 => \E c \in Cancels : ForEarlier(c, i))

(* A cancel that has been routed has reached every earlier request of its id that has not
   been answered, in its entry or by what is remembered for it. *)
Through(c) == Sent(c) /\ held # c /\ \A t \in LeftToRoute : t.msg # c

Reaches(r) ==
  /\ inflight[IdOf[r]] = r => r \in cancelled
  /\ \A t \in LeftToRoute : t.msg = r => t.arrival <= early[IdOf[r]]

Reached ==
  clash = {} => \A c \in Cancels, r \in Requests :
    Through(c) /\ IdOf[c] = IdOf[r] /\ Before(r, c) => Reaches(r)

(* The client cancels no more ids than the dispatcher remembers. *)
FewIdsCancelled == Cardinality({IdOf[c] : c \in Cancels}) <= MaxEarlyCancelled

CancelsInv == Remembered /\ CancelledOnlyIfAsked /\ (FewIdsCancelled => Reached)

(* What the places of the messages say of the payloads left to route. *)
LeftLast(m) == \A t \in LeftToRoute : t.msg # m => arrivedAt[m] < arrivedAt[t.msg]

Standing ==
  /\ queuedRoutes \in Nat /\ (queuedRoutes = 0 => LeftToRoute = {})
  /\ \A t \in LeftToRoute :
       /\ t \in RouteTasks /\ t.msg \in Messages /\ Sent(t.msg) /\ t.msg # held
       /\ t.msg \in Requests => answers[t.msg] = <<>>
       /\ \A r \in Requests : inflight[IdOf[r]] = r => Before(r, t.msg)
  /\ \A r \in Requests : inflight[IdOf[r]] = r => answers[r] = <<>> /\ Sent(r)
  /\ \A i \in Ids : inflight[i] # None => inflight[i] \in Requests /\ IdOf[inflight[i]] = i
  /\ held # None => Sent(held) /\ \A n \in Messages \ {held} : arrivedAt[n] < arrivedAt[held]
  /\ \A w \in Workers : Executing(w, "route") =>
       worker[w].task \in LeftToRoute /\ Msg(w) \in Messages /\ LeftLast(Msg(w))
  /\ Clock \in 0 .. Cardinality(Messages) /\ \A m \in Messages : arrivedAt[m] \in 0 .. Clock

LEMMA LeftAt ==
  ASSUME TypeOK, NEW at \in Placed, Located(at), NEW t \in LeftToRoute
  PROVE  t \in RouteTasks /\ t.msg \in Messages /\ at[t.msg] \in {"waiting", "routing"}
<1>1. CASE t \in RoutesOf(strand[Notify])
  <2>1. PICK i \in 1 .. Len(strand[Notify]) : t = strand[Notify][i] /\ t \in Routes
    BY <1>1 DEF RoutesOf, At
  <2>2. t \in RouteTasks
    BY <2>1 DEF Routes, Route, StrandTasks, RunTasks
  <2>3. at[t.msg] = "waiting"
    BY <2>1, HomeIsStrand DEF Located, OnStrands, Routes
  <2> QED
    BY <2>2, <2>3 DEF RouteTasks
<1>2. CASE t \in RoutedNow
  <2>1. PICK w \in Workers : Executing(w, "route") /\ t = worker[w].task
    BY <1>2 DEF RoutedNow
  <2>2. at[t.msg] = "routing" /\ t.msg \in Messages
    BY <2>1, ThreadAt DEF Msg
  <2>3. worker[w] \in WorkerStates
    BY DEF TypeOK
  <2>4. t \in RouteTasks
    BY <2>1, <2>3 DEF WorkerStates, StrandTasks, RunTasks, RouteTasks, Executing
  <2> QED
    BY <2>2, <2>4
<1> QED
  BY <1>1, <1>2 DEF LeftToRoute

LEMMA ClockBounded == Clock \in 0 .. Cardinality(Messages)
<1>1. {m \in Messages : arrivedAt[m] > 0} \subseteq Messages
  OBVIOUS
<1> QED
  BY <1>1, ConstantsAssumption, FS_Subset, FS_CardinalityType DEF Clock

LEMMA StandingIs == DispatcherInv => Standing
<1> SUFFICES ASSUME DispatcherInv PROVE Standing
  OBVIOUS
<1>1. TypeOK /\ CountersExact /\ StrandExclusion
  BY DEF DispatcherInv, OneDrain
<1>2. PICK at \in Placed : Located(at)
  BY DEF DispatcherInv, Settled
<1>3. \A t \in LeftToRoute : t \in RouteTasks /\ t.msg \in Messages /\ at[t.msg] \in {"waiting", "routing"}
  BY <1>1, <1>2, LeftAt
<1>4. \A r \in Requests : inflight[IdOf[r]] = r => at[r] \in Registered
  BY <1>2 DEF Located, Entered
<1>5. queuedRoutes \in Nat /\ (queuedRoutes = 0 => LeftToRoute = {})
  <2>1. queuedRoutes \in Nat
    <3>1. strand[Notify] \in Seq(StrandTasks)
      BY <1>1, HomeIsStrand DEF TypeOK
    <3>2. Cardinality(At(strand[Notify], Routes)) \in Nat /\ Cardinality(RoutingThreads) \in Nat
      BY <1>1, <1>2, <3>1, AtFinite, ThreadsFinite DEF Located
    <3> QED
      BY <1>1, <3>2, CountedIs DEF Counted
  <2>2. queuedRoutes = 0 => \A m \in Messages : at[m] \notin {"waiting", "routing"}
    BY <1>1, <1>2, <2>1, NothingQueued DEF Located
  <2> QED
    BY <1>3, <2>1, <2>2
<1>6. \A m \in Messages : Sent(m) <=> at[m] # "unsent"
  BY <1>1, <1>2 DEF Located, Stamped, Sent, TypeOK
<1>7. \A m \in Messages : held = m <=> at[m] = "held"
  BY <1>2 DEF Located, Stamped
<1>8. ASSUME NEW t \in LeftToRoute
      PROVE  /\ Sent(t.msg) /\ t.msg # held
             /\ t.msg \in Requests => answers[t.msg] = <<>>
             /\ \A r \in Requests : inflight[IdOf[r]] = r => Before(r, t.msg)
  <2>1. t.msg \in Messages /\ at[t.msg] \in {"waiting", "routing"}
    BY <1>3
  <2>2. t.msg \in Requests => answers[t.msg] = <<>>
    BY <1>2, <2>1 DEF Located, Entered
  <2>3. ASSUME NEW r \in Requests, inflight[IdOf[r]] = r PROVE Before(r, t.msg)
    <3>1. arrivedAt[r] > 0 /\ at[r] \in Routed /\ r \in Messages \ Cancels
      BY <1>1, <1>2, <1>4, <2>3, RegisteredIsOpen
    <3> QED
      BY <1>2, <2>1, <3>1 DEF Located, InTurn, Unrouted, Before, Sent
  <2> QED
    BY <1>6, <1>7, <2>1, <2>2, <2>3
<1>9. \A r \in Requests : inflight[IdOf[r]] = r => answers[r] = <<>> /\ Sent(r)
  BY <1>1, <1>2, <1>4, RegisteredIsOpen DEF Sent
<1>10. \A i \in Ids : inflight[i] # None => inflight[i] \in Requests /\ IdOf[inflight[i]] = i
  BY <1>1, <1>2 DEF Located, Entered, TypeOK
<1>11. held # None => Sent(held) /\ \A n \in Messages \ {held} : arrivedAt[n] < arrivedAt[held]
  <2>1. held # None => held \in Messages
    BY <1>1 DEF TypeOK
  <2> QED
    BY <1>2, <1>6, <1>7, <2>1 DEF Located, Stamped
<1>12. ASSUME NEW w \in Workers, Executing(w, "route")
       PROVE  worker[w].task \in LeftToRoute /\ Msg(w) \in Messages /\ LeftLast(Msg(w))
  <2>1. at[Msg(w)] = "routing" /\ worker[w].strand = Notify /\ Msg(w) \in Messages
    BY <1>1, <1>2, <1>12, ThreadAt
  <2>2. worker[w].at = "task" /\ Route(worker[w].task)
    BY <1>12 DEF Executing, Route
  <2>3. /\ \A n \in Messages \ {Msg(w)} : at[n] # "routing"
        /\ \A n \in Messages : Home(n) = Notify /\ at[n] = "waiting" => arrivedAt[Msg(w)] < arrivedAt[n]
    BY <1>1, <1>2, <2>1, <2>2, FirstOfNotify
  <2>4. worker[w].task \in LeftToRoute
    BY <1>12 DEF LeftToRoute, RoutedNow
  <2>5. ASSUME NEW t \in LeftToRoute, t.msg # Msg(w) PROVE arrivedAt[Msg(w)] < arrivedAt[t.msg]
    <3>1. t \in RoutesOf(strand[Notify])
      <4>1. ASSUME NEW v \in Workers, Executing(v, "route"), t = worker[v].task PROVE FALSE
        <5>1. at[t.msg] = "routing" /\ t.msg \in Messages
          BY <1>1, <1>2, <4>1, ThreadAt DEF Msg
        <5> QED
          BY <2>3, <2>5, <5>1
      <4> QED
        BY <4>1 DEF LeftToRoute, RoutedNow
    <3>2. PICK i \in 1 .. Len(strand[Notify]) : t = strand[Notify][i] /\ t \in Routes
      BY <3>1 DEF RoutesOf, At
    <3>3. Notify # None /\ Route(t)
      BY <3>2, ConstantsAssumption DEF Strands, Routes
    <3> QED
      BY <1>2, <2>1, <2>2, <3>2, <3>3 DEF Located, Ahead
  <2> QED
    BY <2>1, <2>4, <2>5 DEF LeftLast
<1>13. Clock \in 0 .. Cardinality(Messages) /\ \A m \in Messages : arrivedAt[m] \in 0 .. Clock
  <2>1. \A m \in Messages : arrivedAt[m] \in Nat /\ arrivedAt[m] <= Clock
    BY <1>1, <1>2 DEF Located, Stamped, TypeOK
  <2> QED
    BY <2>1, ClockBounded, ClockType
<1> QED
  BY <1>3, <1>5, <1>8, <1>9, <1>10, <1>11, <1>12, <1>13 DEF Standing

LEMMA StandingNext == DispatcherInv' => Standing'
  BY StandingIs, PTL

(* What is left to route when a queue grows or shrinks, and when a thread moves on. *)
LEMMA RoutesAppend ==
  ASSUME NEW S, NEW q \in Seq(S), NEW t \in S
  PROVE  RoutesOf(Append(q, t)) = RoutesOf(q) \cup (IF t \in Routes THEN {t} ELSE {})
<1> DEFINE k == Len(q)
           a == Append(q, t)
<1>1. /\ k \in Nat /\ Len(a) = k + 1 /\ a[k + 1] = t
      /\ \A i \in 1 .. k : a[i] = q[i] /\ i \in 1 .. k + 1
      /\ \A i \in 1 .. k + 1 : i \in 1 .. k \/ i = k + 1
      /\ k + 1 \in 1 .. k + 1
  BY AppendAt
<1> HIDE DEF a, k
<1>2. RoutesOf(a) = {a[i] : i \in {j \in 1 .. k + 1 : a[j] \in Routes}}
  BY <1>1 DEF RoutesOf, At
<1>3. RoutesOf(q) = {q[i] : i \in {j \in 1 .. k : q[j] \in Routes}}
  BY DEF RoutesOf, At, k
<1> QED
  BY <1>1, <1>2, <1>3 DEF a

LEMMA RoutesTail ==
  ASSUME NEW S, NEW q \in Seq(S), q # <<>>
  PROVE  RoutesOf(q) = RoutesOf(Tail(q)) \cup (IF Head(q) \in Routes THEN {Head(q)} ELSE {})
<1> DEFINE k == Len(q)
           a == Tail(q)
<1>1. /\ k \in Nat \ {0} /\ Len(a) = k - 1 /\ Head(q) = q[1] /\ 1 \in 1 .. k
      /\ \A i \in 1 .. k - 1 : a[i] = q[i + 1] /\ i + 1 \in 1 .. k
      /\ \A i \in 1 .. k : i # 1 => i - 1 \in 1 .. k - 1 /\ a[i - 1] = q[i]
  BY TailAt
<1> HIDE DEF a, k
<1>2. RoutesOf(a) = {a[i] : i \in {j \in 1 .. k - 1 : a[j] \in Routes}}
  BY <1>1 DEF RoutesOf, At
<1>3. RoutesOf(q) = {q[i] : i \in {j \in 1 .. k : q[j] \in Routes}}
  BY DEF RoutesOf, At, k
<1>4. ASSUME NEW t \in RoutesOf(q) PROVE t \in RoutesOf(a) \/ (t = Head(q) /\ t \in Routes)
  <2>1. PICK i \in 1 .. k : t = q[i] /\ q[i] \in Routes
    BY <1>3
  <2> QED
    BY <1>1, <1>2, <2>1
<1>5. ASSUME NEW t \in RoutesOf(a) PROVE t \in RoutesOf(q)
  <2>1. PICK i \in 1 .. k - 1 : t = a[i] /\ a[i] \in Routes
    BY <1>2
  <2> QED
    BY <1>1, <1>3, <2>1
<1>6. Head(q) \in Routes => Head(q) \in RoutesOf(q)
  BY <1>1, <1>3
<1> QED
  BY <1>4, <1>5, <1>6 DEF a

LEMMA LeftPrimed == LeftToRoute' = RoutesOf(strand'[Notify]) \cup RoutedNow'
  BY DEF LeftToRoute, RoutesOf, At

SameRouted ==
  \A v \in Workers : /\ (Executing(v, "route")' <=> Executing(v, "route"))
                     /\ Executing(v, "route") => worker'[v].task = worker[v].task

LEMMA RoutesStay == ASSUME TypeOK, SameRoutes PROVE RoutesOf(strand'[Notify]) = RoutesOf(strand[Notify])
<1>1. strand[Notify] \in Seq(StrandTasks)
  BY HomeIsStrand DEF TypeOK
<1>2. ASSUME NEW t \in StrandTasks, ~Route(t), strand'[Notify] = Append(strand[Notify], t)
      PROVE  RoutesOf(strand'[Notify]) = RoutesOf(strand[Notify])
  <2>1. t \notin Routes
    BY <1>2 DEF Routes
  <2>2. RoutesOf(Append(strand[Notify], t)) = RoutesOf(strand[Notify]) \cup {}
    BY <1>1, <2>1, RoutesAppend
  <2> QED
    BY <1>2, <2>2
<1> QED
  BY <1>2 DEF SameRoutes

LEMMA RoutedStays == ASSUME SameRouted PROVE RoutedNow' = RoutedNow
  BY DEF SameRouted, RoutedNow

LEMMA LeftStays == ASSUME TypeOK, SameRoutes, SameRouted PROVE LeftToRoute' = LeftToRoute
  BY RoutesStay, RoutedStays, LeftPrimed DEF LeftToRoute

LEMMA LeftQueue ==
  ASSUME TypeOK, NEW m \in Messages, NEW big \in BOOLEAN, QueueRoute(m, big), UNCHANGED worker
  PROVE  LeftToRoute' = LeftToRoute \cup {RouteTask(m, lastQueued + 1, big)}
<1> DEFINE t == RouteTask(m, lastQueued + 1, big)
<1>1. strand[Notify] \in Seq(StrandTasks)
  BY HomeIsStrand DEF TypeOK
<1>2. t \in StrandTasks /\ t \in Routes
  BY TaskTypes DEF TypeOK, Routes, Route, RouteTask
<1>3. strand'[Notify] = Append(strand[Notify], t)
  BY HomeIsStrand DEF QueueRoute, PostStrand, TypeOK
<1> HIDE DEF t
<1>4. RoutesOf(strand'[Notify]) = RoutesOf(strand[Notify]) \cup {t}
  BY <1>1, <1>2, <1>3, RoutesAppend
<1>5. RoutedNow' = RoutedNow
  BY DEF RoutedNow, Executing
<1> QED
  BY <1>4, <1>5, LeftPrimed DEF LeftToRoute, t

LEMMA LeftNext ==
  ASSUME TypeOK, NEW at, Located(at), NEW w \in Workers, DrainNext(w)
  PROVE  LeftToRoute' = LeftToRoute
<1> DEFINE s == worker[w].strand
           t == Head(strand[s])
<1>1. /\ worker[w].at = "drain" /\ strand[s] # <<>>
      /\ strand' = [strand EXCEPT ![s] = Tail(@)] /\ Become(w, "task", s, t)
  BY DEF DrainNext
<1>2. s \in Strands /\ Notify \in Strands
  BY <1>1, WorkerShape, HomeIsStrand
<1>3. strand[s] \in Seq(StrandTasks) /\ strand \in [Strands -> Seq(StrandTasks)]
  BY <1>2 DEF TypeOK
<1>4. worker'[w].at = "task" /\ worker'[w].task = t /\ \A v \in Workers \ {w} : worker'[v] = worker[v]
  BY <1>1, BecomeIs
<1>5. t \in StrandTasks /\ (Route(t) => s = Notify)
  <2>1. Len(strand[s]) \in Nat \ {0} /\ t = strand[s][1] /\ 1 \in 1 .. Len(strand[s])
    BY <1>1, <1>3, TailAt
  <2>2. t \in StrandTasks
    BY <1>1, <1>3, HeadTailType
  <2>3. Route(strand[s][1]) => s = Notify
    BY <1>2, <2>1 DEF Located, OnStrands
  <2> QED
    BY <2>1, <2>2, <2>3
<1> HIDE DEF s, t
<1>6. RoutedNow' = RoutedNow \cup (IF Route(t) THEN {t} ELSE {})
  <2>1. ~Executing(w, "route") /\ (Executing(w, "route")' <=> Route(t))
    BY <1>1, <1>4 DEF Executing, Route
  <2>2. \A v \in Workers \ {w} : Executing(v, "route")' <=> Executing(v, "route")
    BY <1>4 DEF Executing
  <2> QED
    BY <1>4, <2>1, <2>2 DEF RoutedNow
<1>7. RoutesOf(strand[Notify]) = RoutesOf(strand'[Notify]) \cup (IF Route(t) THEN {t} ELSE {})
  <2>1. CASE s = Notify
    <3>1. strand'[Notify] = Tail(strand[Notify]) /\ t = Head(strand[Notify]) /\ (t \in Routes <=> Route(t))
      BY <1>1, <1>2, <1>3, <1>5, <2>1 DEF t, Routes
    <3> QED
      BY <1>1, <1>3, <2>1, <3>1, RoutesTail
  <2>2. CASE s # Notify
    BY <1>1, <1>2, <1>3, <1>5, <2>2
  <2> QED
    BY <2>1, <2>2
<1> QED
  BY <1>6, <1>7, LeftPrimed DEF LeftToRoute

LEMMA LeftRouted ==
  ASSUME TypeOK, StrandExclusion, NEW at \in Placed, Located(at), NEW w \in Workers, RouteQueued(w)
  PROVE  /\ LeftToRoute' \subseteq LeftToRoute
         /\ \A t \in LeftToRoute : t \in LeftToRoute' \/ t = worker[w].task
<1>1. /\ Executing(w, "route") /\ RouteMessage(Msg(w), worker[w].task.arrival)
      /\ Become(w, "routed", worker[w].strand, worker[w].task)
  BY DEF RouteQueued
<1>2. Msg(w) \in Messages
  BY <1>1, ThreadAt
<1>3. RoutesOf(strand'[Notify]) = RoutesOf(strand[Notify])
  BY <1>1, <1>2, RouteSameRoutes, RoutesStay
<1>4. worker'[w].at = "routed" /\ \A v \in Workers \ {w} : worker'[v] = worker[v]
  BY <1>1, BecomeIs
<1>5. \A v \in Workers : Executing(v, "route") => v = w
  BY <1>1, OneRoutes DEF Located, RoutingThreads, Routing
<1>6. RoutedNow = {worker[w].task} /\ RoutedNow' = {}
  <2>1. ~Executing(w, "route")' /\ \A v \in Workers \ {w} : ~Executing(v, "route")'
    BY <1>4, <1>5 DEF Executing
  <2> QED
    BY <1>1, <1>5, <2>1 DEF RoutedNow
<1> QED
  BY <1>3, <1>6, LeftPrimed DEF LeftToRoute

(* What is taken comes after all that was sent. *)
LEMMA TakenLast ==
  ASSUME TypeOK, Standing, NEW m \in Messages, Take(m)
  PROVE  /\ arrivedAt[m] = 0 /\ Clock' = Clock + 1 /\ Clock \in Nat /\ clash \subseteq clash'
         /\ held = None /\ UNCHANGED <<reader, worker>>
         /\ \A p, q \in Messages : Before(p, q) => Before(p, q)' /\ p # m /\ q # m
         /\ \A p, q \in Messages : Before(p, q)' => p # m /\ (q # m => Before(p, q))
         /\ \A p \in Messages : Sent(p) => Before(p, m)'
         /\ \A p \in Messages : p # m => (Sent(p)' <=> Sent(p))
<1>1. /\ arrivedAt[m] = 0 /\ arrivedAt' = [arrivedAt EXCEPT ![m] = Clock + 1] /\ held = None
      /\ clash \subseteq clash' /\ UNCHANGED <<reader, worker>>
  BY DEF Take
<1>2. Clock \in Nat /\ \A n \in Messages : arrivedAt[n] \in Nat /\ arrivedAt[n] <= Clock
  BY ClockType DEF Standing, TypeOK
<1>3. Clock' = Clock + 1
  BY <1>1, ClockTicks
<1>4. arrivedAt'[m] = Clock + 1 /\ \A n \in Messages \ {m} : arrivedAt'[n] = arrivedAt[n]
  BY <1>1 DEF TypeOK
<1>5. \A p, q \in Messages : Before(p, q) => Before(p, q)' /\ p # m /\ q # m
  BY <1>1, <1>2, <1>4 DEF Before, Sent
<1>6. \A p, q \in Messages : Before(p, q)' => p # m /\ (q # m => Before(p, q))
  <2>1. SUFFICES ASSUME NEW p \in Messages, NEW q \in Messages, Before(p, q)'
                 PROVE  p # m /\ (q # m => Before(p, q))
    OBVIOUS
  <2>2. arrivedAt'[p] > 0 /\ arrivedAt'[p] < arrivedAt'[q]
    BY <2>1 DEF Before, Sent
  <2>3. p # m
    <3>1. arrivedAt'[q] <= Clock + 1
      BY <1>2, <1>4
    <3> QED
      BY <1>2, <1>4, <2>2, <3>1
  <2> QED
    BY <1>4, <2>2, <2>3 DEF Before, Sent
<1>7. \A p \in Messages : Sent(p) => Before(p, m)'
  BY <1>1, <1>2, <1>4 DEF Before, Sent
<1>8. \A p \in Messages : p # m => (Sent(p)' <=> Sent(p))
  BY <1>4 DEF Sent
<1> QED
  BY <1>1, <1>2, <1>3, <1>5, <1>6, <1>7, <1>8

(* What a step that routes nothing leaves: what is cancelled and registered may shrink, and
   a stop cancels what it likes. *)
Closing == reader \in {"closing", "stopping"}

LEMMA CancelsQuiet ==
  ASSUME TypeOK, Standing, CancelsInv,
         UNCHANGED <<arrivedAt, held, queuedRoutes, lastQueued, early, clash>>,
         LeftToRoute' = LeftToRoute, Closing => Closing',
         cancelled' = cancelled \/ Closing', cancelled \subseteq cancelled',
         \A i \in Ids : inflight'[i] \in {inflight[i], None}
  PROVE  CancelsInv'
<1>1. Clock' = Clock /\ \A p, q \in Messages : Before(p, q)' <=> Before(p, q)
  BY DEF Clock, Before, Sent
<1>2. Remembered'
  BY <1>1 DEF CancelsInv, Remembered, ForEarlier, Before, Sent
<1>3. CancelledOnlyIfAsked'
  BY DEF CancelsInv, CancelledOnlyIfAsked, Closing, Before, Sent
<1>4. ASSUME Reached PROVE Reached'
  <2>1. SUFFICES ASSUME clash = {}, NEW c \in Cancels, NEW r \in Requests, Through(c)', IdOf[c] = IdOf[r], Before(r, c)'
                 PROVE  Reaches(r)'
    BY DEF Reached
  <2>2. Through(c) /\ Before(r, c) /\ IdOf[r] \in Ids /\ r # None
    BY <2>1, ConstantsAssumption DEF Through, Before, Sent, Messages
  <2>3. Reaches(r)
    BY <1>4, <2>1, <2>2 DEF Reached
  <2> QED
    BY <2>2, <2>3 DEF Reaches
<1> QED
  BY <1>2, <1>3, <1>4 DEF CancelsInv

(* A payload joins the queue: no cancel remembered so far is for it. *)
LEMMA CancelsDeferred ==
  ASSUME TypeOK, Standing, CancelsInv, NEW m \in Messages, DispatchDeferred(m)
  PROVE  CancelsInv'
<1> DEFINE t == RouteTask(m, lastQueued + 1, TRUE)
<1>1. Take(m) /\ QueueRoute(m, TRUE) /\ UNCHANGED <<held, early, inflight, cancelled>>
  BY DEF DispatchDeferred, requestVars
<1>2. LeftToRoute' = LeftToRoute \cup {t} /\ t.msg = m /\ t.arrival = lastQueued + 1
  BY <1>1, LeftQueue DEF Take, RouteTask
<1>3. /\ arrivedAt[m] = 0 /\ Clock' = Clock + 1 /\ Clock \in Nat /\ clash \subseteq clash'
      /\ held = None /\ UNCHANGED <<reader, worker>>
      /\ \A p, q \in Messages : Before(p, q) => Before(p, q)' /\ p # m /\ q # m
      /\ \A p, q \in Messages : Before(p, q)' => p # m /\ (q # m => Before(p, q))
      /\ \A p \in Messages : p # m => (Sent(p)' <=> Sent(p))
  BY <1>1, TakenLast
<1>4. lastQueued' = lastQueued + 1 /\ queuedRoutes' = queuedRoutes + 1 /\ lastQueued \in Nat /\ queuedRoutes \in Nat
      /\ early \in [Ids -> Nat]
  BY <1>1 DEF QueueRoute, TypeOK, Standing
<1> HIDE DEF t
<1>5. Remembered'
  <2>1. \A u \in LeftToRoute : u.arrival \in 1 .. lastQueued /\ u.msg \in Messages
    BY DEF CancelsInv, Remembered, Standing
  <2>2. \A u \in LeftToRoute' : u.arrival \in 1 .. lastQueued'
    BY <1>2, <1>4, <2>1
  <2>3. lastQueued' + (IF held' = None THEN 0 ELSE 1) <= Clock'
    BY <1>1, <1>3, <1>4 DEF CancelsInv, Remembered
  <2>4. ASSUME NEW i \in Ids PROVE early[i] <= lastQueued' /\ (early[i] > 0 => \E c \in Cancels : ForEarlier(c, i)')
    <3>1. early[i] <= lastQueued /\ early[i] \in Nat /\ (early[i] > 0 => \E c \in Cancels : ForEarlier(c, i))
      BY <1>4 DEF CancelsInv, Remembered
    <3>2. ASSUME NEW c \in Cancels, ForEarlier(c, i) PROVE ForEarlier(c, i)'
      <4>1. c \in Messages
        BY Apart
      <4>2. \A u \in LeftToRoute' : u.arrival <= early[i] => u \in LeftToRoute
        BY <1>2, <1>4, <3>1
      <4> QED
        BY <1>1, <1>3, <2>1, <3>2, <4>1, <4>2 DEF ForEarlier
    <3> QED
      BY <1>4, <3>1, <3>2
  <2> QED
    BY <1>1, <1>4, <2>2, <2>3, <2>4 DEF Remembered
<1>6. CancelledOnlyIfAsked'
  BY <1>1, <1>3, Apart DEF CancelsInv, CancelledOnlyIfAsked, TypeOK
<1>7. ASSUME Reached PROVE Reached'
  <2>1. SUFFICES ASSUME clash' = {}, NEW c \in Cancels, NEW r \in Requests, Through(c)', IdOf[c] = IdOf[r], Before(r, c)'
                 PROVE  Reaches(r)'
    BY DEF Reached
  <2>2. clash = {} /\ c \in Messages /\ r \in Messages
    BY <1>3, <2>1, Apart
  <2>3. c # m
    BY <1>2, <2>1 DEF Through
  <2>4. Before(r, c) /\ r # m
    BY <1>3, <2>1, <2>2, <2>3
  <2>5. Through(c)
    BY <1>1, <1>2, <1>3, <2>1, <2>2, <2>3 DEF Through
  <2>6. Reaches(r)
    BY <1>7, <2>1, <2>2, <2>4, <2>5 DEF Reached
  <2> QED
    BY <1>1, <1>2, <2>4, <2>6 DEF Reaches
<1> QED
  BY <1>5, <1>6, <1>7 DEF CancelsInv

LEMMA CancelsBehind ==
  ASSUME TypeOK, Standing, CancelsInv, NEW m \in Messages, DispatchBehind(m)
  PROVE  CancelsInv'
<1>1. Take(m) /\ held' = m /\ UNCHANGED <<lastQueued, queuedRoutes, early, inflight, cancelled, strand>>
  BY DEF DispatchBehind, requestVars, queueVars, routeVars
<1>2. LeftToRoute' = LeftToRoute
  BY <1>1 DEF Take, LeftToRoute, RoutesOf, At, RoutedNow, Executing
<1>3. /\ arrivedAt[m] = 0 /\ Clock' = Clock + 1 /\ Clock \in Nat /\ clash \subseteq clash'
      /\ held = None /\ UNCHANGED <<reader, worker>>
      /\ \A p, q \in Messages : Before(p, q) => Before(p, q)' /\ p # m /\ q # m
      /\ \A p, q \in Messages : Before(p, q)' => p # m /\ (q # m => Before(p, q))
      /\ \A p \in Messages : p # m => (Sent(p)' <=> Sent(p))
  BY <1>1, TakenLast
<1>4. Remembered'
  <2>1. lastQueued' + (IF held' = None THEN 0 ELSE 1) <= Clock'
    BY <1>1, <1>3 DEF CancelsInv, Remembered, TypeOK
  <2>2. ASSUME NEW i \in Ids, NEW c \in Cancels, ForEarlier(c, i) PROVE ForEarlier(c, i)'
    BY <1>1, <1>2, <1>3, <2>2, Apart DEF ForEarlier, Standing
  <2> QED
    BY <1>1, <1>2, <2>1, <2>2 DEF CancelsInv, Remembered
<1>5. CancelledOnlyIfAsked'
  BY <1>1, <1>3, Apart DEF CancelsInv, CancelledOnlyIfAsked, TypeOK
<1>6. ASSUME Reached PROVE Reached'
  <2>1. SUFFICES ASSUME clash' = {}, NEW c \in Cancels, NEW r \in Requests, Through(c)', IdOf[c] = IdOf[r], Before(r, c)'
                 PROVE  Reaches(r)'
    BY DEF Reached
  <2>2. clash = {} /\ c \in Messages /\ r \in Messages /\ c # None
    BY <1>3, <2>1, Apart, ConstantsAssumption
  <2>3. c # m
    BY <1>1, <2>1 DEF Through
  <2>4. Before(r, c)
    BY <1>3, <2>1, <2>2, <2>3
  <2>5. Through(c)
    BY <1>2, <1>3, <2>1, <2>2, <2>3 DEF Through
  <2>6. Reaches(r)
    BY <1>6, <2>1, <2>2, <2>4, <2>5 DEF Reached
  <2> QED
    BY <1>1, <1>2, <2>6 DEF Reaches
<1> QED
  BY <1>4, <1>5, <1>6 DEF CancelsInv

(* What routing does to the entries: nothing, it registers, or it cancels. *)
Registers(m, a) ==
  /\ m \in Requests /\ inflight[IdOf[m]] = None
  /\ inflight' = [inflight EXCEPT ![IdOf[m]] = m]
  /\ cancelled' = IF EarlyApplies(IdOf[m], a) THEN cancelled \cup {m} ELSE cancelled
  /\ early' = [early EXCEPT ![IdOf[m]] = 0]

LEMMA RouteCases ==
  ASSUME NEW m \in Messages, NEW a, RouteMessage(m, a)
  PROVE  \/ m \notin Cancels /\ UNCHANGED <<early, inflight, cancelled>>
         \/ Registers(m, a)
         \/ m \in Cancels /\ CancelRequest(m, a)
  BY Apart DEF RouteMessage, RunRequest, Refuse, InUse, Registers, requestVars

(* A cancel of an id in use hits the request registered under it. *)
LEMMA CancelHits ==
  ASSUME TypeOK, NEW c \in Cancels, NEW a, CancelRequest(c, a)
  PROVE  /\ IdOf[c] \in Ids /\ UNCHANGED inflight
         /\ inflight[IdOf[c]] # None => UNCHANGED early /\ inflight[IdOf[c]] \in Requests
                                        /\ cancelled' = cancelled \cup {inflight[IdOf[c]]}
         /\ inflight[IdOf[c]] = None => UNCHANGED cancelled
              /\ early' = IF Remembers(IdOf[c], a) THEN [early EXCEPT ![IdOf[c]] = lastQueued] ELSE early
<1>1. IdOf[c] \in Ids
  BY ConstantsAssumption
<1> QED
  BY <1>1 DEF CancelRequest, TypeOK

(* With nothing queued nothing is remembered, and a cancel finds what it names registered. *)
LEMMA CancelsNow ==
  ASSUME TypeOK, Standing, CancelsInv, NEW m \in Messages, DispatchNow(m)
  PROVE  CancelsInv'
<1>1. /\ Take(m) /\ ~(queuedRoutes > 0) /\ RouteMessage(m, RoutedOnArrival)
      /\ UNCHANGED <<held, lastQueued, queuedRoutes>>
  BY DEF DispatchNow, RoutesQueued, routeVars
<1>2. queuedRoutes = 0 /\ LeftToRoute = {} /\ early \in [Ids -> Nat] /\ \A i \in Ids : early[i] = 0
  BY <1>1 DEF Standing, CancelsInv, Remembered, TypeOK
<1>3. /\ Clock' = Clock + 1 /\ Clock \in Nat /\ clash \subseteq clash' /\ held = None
      /\ UNCHANGED <<reader, worker>>
      /\ \A p, q \in Messages : Before(p, q) => Before(p, q)' /\ p # m /\ q # m
      /\ \A p, q \in Messages : Before(p, q)' => p # m /\ (q # m => Before(p, q))
      /\ \A p \in Messages : Sent(p) => Before(p, m)'
      /\ \A p \in Messages : p # m => (Sent(p)' <=> Sent(p))
  BY <1>1, TakenLast
<1>4. LeftToRoute' = {}
  <2>1. SameRouted /\ SameRoutes
    BY <1>1, <1>3, RouteSameRoutes DEF SameRouted, Executing
  <2> QED
    BY <1>2, <2>1, LeftStays
<1>5. \/ m \notin Cancels /\ UNCHANGED <<early, inflight, cancelled>>
      \/ Registers(m, RoutedOnArrival)
      \/ m \in Cancels /\ CancelRequest(m, RoutedOnArrival)
  BY <1>1, RouteCases
<1>6. early' = early
  <2>1. CASE Registers(m, RoutedOnArrival)
    <3>1. IdOf[m] \in Ids /\ early' = [early EXCEPT ![IdOf[m]] = 0] /\ early[IdOf[m]] = 0
      BY <1>2, <2>1, ConstantsAssumption DEF Registers
    <3> QED
      BY <1>2, <3>1
  <2>2. CASE m \in Cancels /\ CancelRequest(m, RoutedOnArrival)
    BY <1>1, <2>2, CancelHits DEF Remembers
  <2> QED
    BY <1>5, <2>1, <2>2
<1>7. Remembered'
  BY <1>1, <1>2, <1>3, <1>4, <1>6 DEF CancelsInv, Remembered, TypeOK
<1>8. CancelledOnlyIfAsked'
  <2>1. \A r \in cancelled : Closing' \/ \E c \in Cancels : IdOf[c] = IdOf[r] /\ Before(r, c)'
    BY <1>3, Apart DEF CancelsInv, CancelledOnlyIfAsked, TypeOK, Closing
  <2>2. CASE cancelled' = cancelled
    BY <2>1, <2>2 DEF CancelledOnlyIfAsked, Closing
  <2>3. CASE m \in Cancels /\ cancelled' = cancelled \cup {inflight[IdOf[m]]} /\ IdOf[m] \in Ids
             /\ inflight[IdOf[m]] # None
    <3>1. PICK q \in Requests : q = inflight[IdOf[m]] /\ IdOf[q] = IdOf[m] /\ Sent(q)
      BY <2>3 DEF Standing
    <3>2. Before(q, m)'
      BY <1>3, <3>1, Apart
    <3> QED
      BY <2>1, <2>3, <3>1, <3>2 DEF CancelledOnlyIfAsked, Closing
  <2>4. Registers(m, RoutedOnArrival) => cancelled' = cancelled
    BY <1>2, ConstantsAssumption DEF Registers, EarlyApplies
  <2> QED
    BY <1>5, <2>2, <2>3, <2>4, CancelHits
<1>9. ASSUME Reached PROVE Reached'
  <2>1. SUFFICES ASSUME clash' = {}, NEW c \in Cancels, NEW r \in Requests, Through(c)', IdOf[c] = IdOf[r], Before(r, c)',
                        inflight'[IdOf[r]] = r
                 PROVE  r \in cancelled'
    BY <1>4 DEF Reached, Reaches
  <2>2. clash = {} /\ c \in Messages /\ r \in Messages /\ r # m /\ IdOf[r] \in Ids
    BY <1>3, <2>1, Apart, ConstantsAssumption
  <2>3. inflight[IdOf[r]] = r
    <3>1. Registers(m, RoutedOnArrival) => inflight'[IdOf[r]] = IF IdOf[r] = IdOf[m] THEN m ELSE inflight[IdOf[r]]
      BY <2>2 DEF Registers, TypeOK
    <3> QED
      BY <1>5, <2>1, <2>2, <3>1, CancelHits
  <2>4. CASE c = m
    <3>1. r # None /\ CancelRequest(m, RoutedOnArrival)
      BY <1>5, <2>1, <2>2, <2>4, Apart, ConstantsAssumption DEF Registers
    <3> QED
      BY <2>1, <2>3, <2>4, <3>1, CancelHits
  <2>5. CASE c # m
    <3>1. Before(r, c) /\ Through(c)
      BY <1>1, <1>2, <1>3, <2>1, <2>2, <2>5 DEF Through
    <3>2. r \in cancelled
      BY <1>9, <2>1, <2>2, <2>3, <3>1 DEF Reached, Reaches
    <3>3. cancelled \subseteq cancelled'
      BY <1>5, CancelHits DEF Registers
    <3> QED
      BY <3>2, <3>3
  <2> QED
    BY <2>4, <2>5
<1> QED
  BY <1>7, <1>8, <1>9 DEF CancelsInv

(* A cancel is remembered as long as there is room, and there is for as few ids as are
   cancelled at all. *)
LEMMA RoomToRemember ==
  ASSUME TypeOK, Remembered, FewIdsCancelled, NEW c \in Cancels, queuedRoutes > 0
  PROVE  Remembers(IdOf[c], RoutedOnArrival)
<1> DEFINE remembered == {i \in Ids : early[i] > 0}
           named == {IdOf[d] : d \in Cancels}
<1>1. IsFiniteSet(named)
  <2>1. IsFiniteSet(Cancels)
    BY ConstantsAssumption, FS_Subset, Apart
  <2>2. [d \in Cancels |-> IdOf[d]] \in Surjection(Cancels, named)
    BY DEF Surjection
  <2> QED
    BY <2>1, <2>2, FS_Surjection
<1>2. remembered \subseteq named
  BY DEF Remembered, ForEarlier
<1>3. ASSUME IdOf[c] \notin remembered PROVE Cardinality(remembered) < MaxEarlyCancelled
  <2>1. IsFiniteSet(remembered) /\ Cardinality(remembered) \in Nat /\ Cardinality(named) \in Nat
    BY <1>1, <1>2, FS_Subset, FS_CardinalityType
  <2>2. remembered \cup {IdOf[c]} \subseteq named
    BY <1>2
  <2>3. Cardinality(remembered \cup {IdOf[c]}) = Cardinality(remembered) + 1
    BY <1>3, <2>1, FS_AddElement
  <2>4. Cardinality(remembered \cup {IdOf[c]}) <= Cardinality(named)
    BY <1>1, <2>2, FS_Subset
  <2>5. Cardinality(named) <= MaxEarlyCancelled /\ MaxEarlyCancelled \in Nat
    BY ConstantsAssumption DEF FewIdsCancelled
  <2> HIDE DEF remembered, named
  <2> QED
    BY <2>1, <2>3, <2>4, <2>5
<1> HIDE DEF named
<1> QED
  BY <1>3 DEF Remembers

(* The held payload arrived last: what it cancels came before it, and what it joins the
   queue behind is not for it. *)
LEMMA CancelsHeld ==
  ASSUME TypeOK, Standing, CancelsInv, Reused, RouteHeld
  PROVE  CancelsInv'
<1>0. PICK m \in Messages : m = held
  BY DEF RouteHeld, TypeOK
<1>1. m \in Messages /\ m # None /\ Sent(m) /\ \A p \in Messages \ {m} : arrivedAt[p] < arrivedAt[m]
  BY <1>0 DEF RouteHeld, TypeOK, Standing
<1>2. held' = None /\ UNCHANGED <<arrivedAt, reader, worker, clash>>
  BY DEF RouteHeld
<1>3. /\ Clock' = Clock /\ \A p, q \in Messages : Before(p, q)' <=> Before(p, q)
      /\ \A p \in Messages : (Sent(p)' <=> Sent(p)) /\ ~Before(m, p) /\ (Sent(p) /\ p # m => Before(p, m))
  <2>1. \A p \in Messages : arrivedAt[p] \in Nat
    BY DEF TypeOK
  <2> QED
    BY <1>1, <1>2, <2>1 DEF Clock, Before, Sent
<1>4. lastQueued \in Nat /\ queuedRoutes \in Nat /\ early \in [Ids -> Nat] /\ lastQueued + 1 <= Clock /\ Clock \in Nat
  BY <1>0, <1>1, ClockType DEF TypeOK, Standing, CancelsInv, Remembered
<1>5. /\ \A t \in LeftToRoute : t.msg \in Messages /\ t.msg # m /\ Sent(t.msg) /\ t.arrival \in 1 .. lastQueued
      /\ \A i \in Ids : early[i] \in Nat /\ early[i] <= lastQueued
  BY <1>0, <1>4 DEF Standing, CancelsInv, Remembered
<1>6. CASE m \in Cancels /\ CancelRequest(m, RoutedOnArrival) /\ UNCHANGED routeVars
  <2> DEFINE id == IdOf[m]
  <2>1. LeftToRoute' = LeftToRoute /\ UNCHANGED <<queuedRoutes, lastQueued>>
    BY <1>2, <1>6 DEF CancelRequest, queueVars, routeVars, LeftToRoute, RoutesOf, At, RoutedNow, Executing
  <2>2. /\ id \in Ids /\ UNCHANGED inflight
        /\ inflight[id] # None => UNCHANGED early /\ inflight[id] \in Requests
                                  /\ cancelled' = cancelled \cup {inflight[id]}
        /\ inflight[id] = None => UNCHANGED cancelled
             /\ early' = IF Remembers(id, RoutedOnArrival) THEN [early EXCEPT ![id] = lastQueued] ELSE early
    BY <1>6, CancelHits
  <2>3. Remembered'
    <3>1. \A i \in Ids, c \in Cancels : ForEarlier(c, i) /\ early'[i] = early[i] => ForEarlier(c, i)'
      BY <1>3, <1>5, <2>1, Apart DEF ForEarlier
    <3>2. ASSUME early' = [early EXCEPT ![id] = lastQueued], queuedRoutes > 0 PROVE Remembered'
      <4>1. early'[id] = lastQueued /\ \A i \in Ids \ {id} : early'[i] = early[i]
        BY <1>4, <2>2, <3>2
      <4>2. ForEarlier(m, id)'
        BY <1>3, <1>5, <1>6, <2>1, Apart DEF ForEarlier
      <4> QED
        BY <1>2, <1>3, <1>4, <1>6, <2>1, <3>1, <3>2, <4>1, <4>2 DEF CancelsInv, Remembered
    <3>3. ASSUME early' = early PROVE Remembered'
      BY <1>2, <1>3, <1>4, <2>1, <3>1, <3>3 DEF CancelsInv, Remembered
    <3> QED
      BY <2>2, <3>2, <3>3 DEF Remembers
  <2>4. CancelledOnlyIfAsked'
    <3>1. \A r \in cancelled : Closing' \/ \E c \in Cancels : IdOf[c] = IdOf[r] /\ Before(r, c)'
      BY <1>2, <1>3, Apart DEF CancelsInv, CancelledOnlyIfAsked, TypeOK, Closing
    <3>2. ASSUME inflight[id] # None PROVE CancelledOnlyIfAsked'
      <4>1. PICK q \in Requests : q = inflight[id] /\ IdOf[q] = id /\ Sent(q) /\ q # m
        BY <1>6, <2>2, <3>2, Apart DEF Standing
      <4>2. Before(q, m)'
        BY <1>1, <1>3, <4>1, Apart
      <4> QED
        BY <1>6, <2>2, <3>1, <3>2, <4>1, <4>2 DEF CancelledOnlyIfAsked, Closing
    <3> QED
      BY <2>2, <3>1, <3>2 DEF CancelledOnlyIfAsked, Closing
  <2>5. ASSUME FewIdsCancelled, Reached PROVE Reached'
    <3>1. SUFFICES ASSUME clash = {}, NEW c \in Cancels, NEW r \in Requests, Through(c)', IdOf[c] = IdOf[r], Before(r, c)'
                   PROVE  Reaches(r)'
      BY <1>2 DEF Reached
    <3>2. c \in Messages /\ r \in Messages /\ r # None /\ IdOf[r] \in Ids /\ Before(r, c)
      BY <1>3, <3>1, Apart, ConstantsAssumption
    <3>3. \A i \in Ids : early[i] <= early'[i]
      BY <1>4, <1>5, <2>2
    <3>4. CASE c # m
      <4>1. Through(c)
        BY <1>0, <1>3, <2>1, <3>1, <3>2, <3>4 DEF Through
      <4>2. Reaches(r)
        BY <2>5, <3>1, <3>2, <4>1 DEF Reached
      <4>3. cancelled \subseteq cancelled'
        BY <2>2
      <4>4. early'[IdOf[r]] \in Nat /\ early[IdOf[r]] \in Nat
        BY <1>4, <2>2, <3>2
      <4> QED
        BY <1>5, <2>1, <2>2, <3>2, <3>3, <4>2, <4>3, <4>4 DEF Reaches
    <3>5. CASE c = m
      <4>1. inflight'[IdOf[r]] = r => r \in cancelled'
        BY <2>2, <3>1, <3>2, <3>5
      <4>2. ASSUME NEW t \in LeftToRoute, t.msg = r PROVE t.arrival <= early'[IdOf[r]]
        <5>1. inflight[id] = None
          <6>1. SUFFICES ASSUME inflight[id] # None PROVE FALSE
            OBVIOUS
          <6>2. PICK q \in Requests : inflight[IdOf[q]] = q /\ IdOf[q] = id
            BY <2>2, <6>1 DEF Standing
          <6>3. Before(q, r) /\ answers[q] = <<>>
            BY <4>2, <6>2 DEF Standing
          <6> QED
            BY <3>1, <3>5, <6>2, <6>3 DEF Reused
        <5>2. queuedRoutes > 0
          BY <1>4, <4>2 DEF Standing
        <5>3. Remembers(id, RoutedOnArrival)
          BY <1>6, <2>5, <5>2, RoomToRemember DEF CancelsInv
        <5>4. early'[id] = lastQueued
          BY <1>4, <2>2, <5>1, <5>3
        <5> QED
          BY <1>5, <3>1, <3>5, <4>2, <5>4
      <4> QED
        BY <2>1, <4>1, <4>2 DEF Reaches
    <3> QED
      BY <3>4, <3>5
  <2> QED
    BY <2>3, <2>4, <2>5 DEF CancelsInv, FewIdsCancelled
<1>7. CASE m \notin Cancels /\ QueueRoute(m, FALSE) /\ UNCHANGED requestVars
  <2> DEFINE t == RouteTask(m, lastQueued + 1, FALSE)
  <2>1. LeftToRoute' = LeftToRoute \cup {t} /\ t.msg = m /\ t.arrival = lastQueued + 1
    BY <1>1, <1>2, <1>7, LeftQueue DEF RouteTask
  <2>2. /\ lastQueued' = lastQueued + 1 /\ queuedRoutes' = queuedRoutes + 1
        /\ UNCHANGED <<early, inflight, cancelled>>
    BY <1>7 DEF QueueRoute, requestVars
  <2> HIDE DEF t
  <2>3. Remembered'
    <3>1. \A u \in LeftToRoute' : u.arrival \in 1 .. lastQueued'
      BY <1>4, <1>5, <2>1, <2>2
    <3>2. ASSUME NEW i \in Ids, NEW c \in Cancels, ForEarlier(c, i) PROVE ForEarlier(c, i)'
      <4>1. \A u \in LeftToRoute' : u.arrival <= early[i] => u \in LeftToRoute
        BY <1>4, <1>5, <2>1
      <4> QED
        BY <1>3, <1>5, <2>2, <3>2, <4>1, Apart DEF ForEarlier
    <3>3. \A i \in Ids : early[i] <= lastQueued'
      BY <1>4, <1>5, <2>2
    <3> QED
      BY <1>2, <1>3, <1>4, <2>2, <3>1, <3>2, <3>3 DEF CancelsInv, Remembered
  <2>4. CancelledOnlyIfAsked'
    BY <1>2, <1>3, <2>2, Apart DEF CancelsInv, CancelledOnlyIfAsked, TypeOK
  <2>5. ASSUME Reached PROVE Reached'
    <3>1. SUFFICES ASSUME clash = {}, NEW c \in Cancels, NEW r \in Requests, Through(c)', IdOf[c] = IdOf[r], Before(r, c)'
                   PROVE  Reaches(r)'
      BY <1>2 DEF Reached
    <3>2. c \in Messages /\ r \in Messages /\ Before(r, c) /\ c # m
      BY <1>3, <1>7, <3>1, Apart
    <3>3. r # m
      BY <1>3, <3>2
    <3>4. Through(c)
      BY <1>0, <1>3, <2>1, <3>1, <3>2 DEF Through
    <3>5. Reaches(r)
      BY <2>5, <3>1, <3>2, <3>4 DEF Reached
    <3> QED
      BY <2>1, <2>2, <3>3, <3>5 DEF Reaches
  <2> QED
    BY <2>3, <2>4, <2>5 DEF CancelsInv, FewIdsCancelled
<1> QED
  BY <1>0, <1>6, <1>7 DEF RouteHeld

(* The payload at the front of the queue is routed: a cancel remembered for it applies, and
   what is left for its id, if anything, is a reuse. *)
LEMMA CancelsQueued ==
  ASSUME TypeOK, StrandExclusion, NEW at \in Placed, Located(at), Standing, Standing', CancelsInv, Reused',
         NEW w \in Workers, RouteQueued(w)
  PROVE  CancelsInv'
<1>0. PICK m, a : m = Msg(w) /\ a = worker[w].task.arrival
  OBVIOUS
<1>1. /\ Executing(w, "route") /\ RouteMessage(m, a)
      /\ UNCHANGED <<arrivedAt, reader, held, clash, queuedRoutes, lastQueued>>
  BY <1>0 DEF RouteQueued, readerVars, routeVars
<1>2. /\ m \in Messages /\ worker[w].task \in LeftToRoute /\ worker[w].task.msg = m
      /\ \A t \in LeftToRoute : t.msg # m => arrivedAt[m] < arrivedAt[t.msg]
  BY <1>0, <1>1 DEF Standing, LeftLast, Msg
<1>3. /\ Clock' = Clock /\ \A p, q \in Messages : Before(p, q)' <=> Before(p, q)
      /\ \A p \in Messages : Sent(p)' <=> Sent(p)
  BY <1>1 DEF Clock, Before, Sent
<1>4. /\ LeftToRoute' \subseteq LeftToRoute
      /\ \A t \in LeftToRoute : t \in LeftToRoute' \/ t = worker[w].task
  BY LeftRouted
<1>5. /\ early \in [Ids -> Nat] /\ inflight \in [Ids -> Requests \cup {None}]
      /\ \A i \in Ids : early[i] \in Nat /\ early[i] <= lastQueued
      /\ \A t \in LeftToRoute : t.msg \in Messages /\ t.arrival \in 1 .. lastQueued
  BY DEF Standing, CancelsInv, Remembered, TypeOK
<1>6. a \in 1 .. lastQueued /\ a # RoutedOnArrival
  <2>1. a \in 1 .. lastQueued
    BY <1>0, <1>2, <1>5
  <2>2. lastQueued <= Clock /\ lastQueued \in Nat
    BY DEF CancelsInv, Remembered, TypeOK, Standing
  <2>3. Clock \in Nat /\ Clock <= Cardinality(Messages) /\ Cardinality(Messages) \in Nat
    BY ConstantsAssumption, FS_CardinalityType, ClockType DEF Standing
  <2> QED
    BY <2>1, <2>2, <2>3 DEF RoutedOnArrival
<1>7. \/ m \notin Cancels /\ UNCHANGED <<early, inflight, cancelled>>
      \/ Registers(m, a)
      \/ m \in Cancels /\ CancelRequest(m, a)
  BY <1>1, <1>2, RouteCases
<1>8. m \in Cancels /\ CancelRequest(m, a) => UNCHANGED <<early, inflight>>
  <2>1. ~Remembers(IdOf[m], a)
    BY <1>6 DEF Remembers
  <2> QED
    BY <2>1, CancelHits
<1>9. Registers(m, a) =>
        /\ IdOf[m] \in Ids /\ inflight'[IdOf[m]] = m /\ early'[IdOf[m]] = 0
        /\ \A i \in Ids \ {IdOf[m]} : inflight'[i] = inflight[i] /\ early'[i] = early[i]
  BY <1>5, ConstantsAssumption DEF Registers
<1>10. Remembered'
  <2>1. \A i \in Ids : early'[i] \in {0, early[i]}
    BY <1>7, <1>8, <1>9
  <2>2. \A i \in Ids, c \in Cancels : early'[i] = early[i] /\ ForEarlier(c, i) => ForEarlier(c, i)'
    BY <1>3, <1>4, <1>5, Apart DEF ForEarlier
  <2>3. \A i \in Ids : early'[i] <= lastQueued' /\ (early'[i] > 0 => \E c \in Cancels : ForEarlier(c, i)')
    <3>1. TAKE i \in Ids
    <3>2. lastQueued' = lastQueued /\ lastQueued \in Nat
      BY <1>1 DEF TypeOK
    <3>3. early[i] > 0 => \E c \in Cancels : ForEarlier(c, i)
      BY DEF CancelsInv, Remembered
    <3> QED
      BY <1>5, <2>1, <2>2, <3>2, <3>3
  <2> QED
    BY <1>1, <1>3, <1>4, <2>1, <2>3 DEF CancelsInv, Remembered
<1>11. CancelledOnlyIfAsked'
  <2>1. \A r \in cancelled : Closing' \/ \E c \in Cancels : IdOf[c] = IdOf[r] /\ Before(r, c)'
    BY <1>1, <1>3, Apart DEF CancelsInv, CancelledOnlyIfAsked, TypeOK, Closing
  <2>2. CASE m \notin Cancels /\ UNCHANGED <<early, inflight, cancelled>>
    BY <2>1, <2>2 DEF CancelledOnlyIfAsked, Closing
  <2>3. CASE Registers(m, a)
    <3>1. ASSUME EarlyApplies(IdOf[m], a) PROVE \E c \in Cancels : IdOf[c] = IdOf[m] /\ Before(m, c)
      <4>1. PICK c \in Cancels : ForEarlier(c, IdOf[m])
        BY <1>9, <2>3, <3>1 DEF CancelsInv, Remembered, EarlyApplies
      <4> QED
        BY <1>0, <1>2, <3>1, <4>1 DEF ForEarlier, EarlyApplies
    <3>2. \A r \in cancelled' : r \in cancelled \/ (r = m /\ EarlyApplies(IdOf[m], a))
      BY <2>3 DEF Registers
    <3> QED
      BY <1>2, <1>3, <2>1, <3>1, <3>2, Apart DEF CancelledOnlyIfAsked, Closing
  <2>4. CASE m \in Cancels /\ CancelRequest(m, a)
    <3>1. ASSUME inflight[IdOf[m]] # None PROVE CancelledOnlyIfAsked'
      <4>1. PICK q \in Requests : q = inflight[IdOf[m]] /\ IdOf[q] = IdOf[m] /\ cancelled' = cancelled \cup {q}
        BY <2>4, <3>1, CancelHits DEF Standing
      <4>2. Before(q, m)
        BY <1>2, <4>1 DEF Standing
      <4> QED
        BY <1>2, <1>3, <2>1, <2>4, <4>1, <4>2, Apart DEF CancelledOnlyIfAsked, Closing
    <3> QED
      BY <2>1, <2>4, <3>1, CancelHits DEF CancelledOnlyIfAsked, Closing
  <2> QED
    BY <1>7, <2>2, <2>3, <2>4
<1>12. ASSUME Reached PROVE Reached'
  <2>1. SUFFICES ASSUME clash = {}, NEW c \in Cancels, NEW r \in Requests, Through(c)', IdOf[c] = IdOf[r], Before(r, c)'
                 PROVE  Reaches(r)'
    BY <1>1 DEF Reached
  <2>2. c \in Messages /\ r \in Messages /\ r # None /\ IdOf[r] \in Ids /\ Before(r, c)
    BY <1>3, <2>1, Apart, ConstantsAssumption
  <2>3. c # m => Reaches(r)
    <3>1. c # m => Through(c)
      BY <1>1, <1>2, <1>3, <1>4, <2>1, <2>2 DEF Through
    <3> QED
      BY <1>12, <2>1, <2>2, <3>1 DEF Reached
  <2>4. CASE m \notin Cancels /\ UNCHANGED <<early, inflight, cancelled>>
    BY <1>4, <2>1, <2>3, <2>4 DEF Reaches
  <2>5. CASE Registers(m, a)
    <3>1. Reaches(r) /\ cancelled \subseteq cancelled' /\ m \in Requests
      BY <2>1, <2>3, <2>5, Apart DEF Registers
    <3>2. CASE IdOf[r] # IdOf[m]
      BY <1>4, <1>9, <2>2, <2>5, <3>1, <3>2 DEF Reaches
    <3>3. CASE IdOf[r] = IdOf[m]
      <4>1. ASSUME r = m PROVE r \in cancelled'
        <5>1. a <= early[IdOf[m]]
          BY <1>0, <1>2, <3>1, <4>1 DEF Reaches
        <5>2. EarlyApplies(IdOf[m], a)
          BY <1>5, <1>6, <1>9, <2>5, <5>1 DEF EarlyApplies
        <5> QED
          BY <2>5, <4>1, <5>2 DEF Registers
      <4>2. ASSUME NEW t \in LeftToRoute', t.msg = r PROVE FALSE
        <5>1. inflight'[IdOf[m]] = m
          BY <1>9, <2>5
        <5>2. Before(m, r)' /\ answers'[m] = <<>>
          BY <3>1, <4>2, <5>1 DEF Standing
        <5>3. r \in clash'
          BY <3>1, <3>3, <5>2 DEF Reused
        <5> QED
          BY <1>1, <2>1, <5>3
      <4> QED
        BY <1>9, <2>5, <3>3, <4>1, <4>2 DEF Reaches
    <3> QED
      BY <3>2, <3>3
  <2>6. CASE m \in Cancels /\ CancelRequest(m, a)
    <3>1. CASE c # m
      <4>1. cancelled \subseteq cancelled'
        BY <2>6, CancelHits
      <4> QED
        BY <1>4, <1>8, <2>3, <2>6, <3>1, <4>1 DEF Reaches
    <3>2. CASE c = m
      <4>1. inflight'[IdOf[r]] = r => r \in cancelled'
        BY <1>8, <2>1, <2>2, <2>6, <3>2, CancelHits
      <4>2. ASSUME NEW t \in LeftToRoute, t.msg = r PROVE FALSE
        <5>1. r # m /\ arrivedAt[m] < arrivedAt[r]
          BY <1>2, <2>6, <4>2, Apart
        <5>2. arrivedAt[r] < arrivedAt[m] /\ arrivedAt[r] \in Nat /\ arrivedAt[m] \in Nat
          BY <1>2, <2>2, <3>2 DEF Before, TypeOK
        <5> QED
          BY <5>1, <5>2
      <4> QED
        BY <1>4, <4>1, <4>2 DEF Reaches
    <3> QED
      BY <3>1, <3>2
  <2> QED
    BY <1>7, <2>4, <2>5, <2>6
<1> QED
  BY <1>10, <1>11, <1>12 DEF CancelsInv, FewIdsCancelled

(* What is remembered is forgotten once nothing is left to route. *)
LEMMA CancelsCounted ==
  ASSUME TypeOK, TypeOK', Standing, Standing', CancelsInv, NEW w \in Workers, FinishQueuedRoute(w)
  PROVE  CancelsInv'
<1>1. /\ worker[w].at = "routed" /\ queuedRoutes' = queuedRoutes - 1
      /\ early' = IF queuedRoutes = 1 THEN [i \in Ids |-> 0] ELSE early
      /\ Return(w) /\ UNCHANGED <<arrivedAt, reader, held, clash, lastQueued, inflight, cancelled, strand>>
  BY DEF FinishQueuedRoute, readerVars, queueVars
<1>2. worker'[w].at \in {"idle", "drain"} /\ \A v \in Workers \ {w} : worker'[v] = worker[v]
  BY <1>1, ReturnIs
<1>3. LeftToRoute' = LeftToRoute
  <2>1. ~Executing(w, "route") /\ ~Executing(w, "route")'
    BY <1>1, <1>2 DEF Executing
  <2>2. \A v \in Workers \ {w} : (Executing(v, "route")' <=> Executing(v, "route")) /\ worker'[v].task = worker[v].task
    BY <1>2 DEF Executing
  <2>3. SameRouted /\ SameRoutes
    BY <1>1, <2>1, <2>2 DEF SameRouted, SameRoutes
  <2> QED
    BY <2>3, LeftStays
<1>4. queuedRoutes \in Nat /\ queuedRoutes' \in Nat /\ early \in [Ids -> Nat] /\ lastQueued \in Nat
  BY DEF Standing, TypeOK
<1>5. CASE queuedRoutes = 1
  <2>1. queuedRoutes' = 0 /\ LeftToRoute' = {} /\ \A i \in Ids : early'[i] = 0
    BY <1>1, <1>4, <1>5 DEF Standing
  <2>2. Clock' = Clock /\ \A p, q \in Messages : Before(p, q)' <=> Before(p, q)
    BY <1>1 DEF Clock, Before, Sent
  <2>3. Remembered'
    BY <1>1, <1>4, <2>1, <2>2 DEF CancelsInv, Remembered
  <2>4. CancelledOnlyIfAsked'
    BY <1>1, <2>2, Apart DEF CancelsInv, CancelledOnlyIfAsked, TypeOK
  <2>5. ASSUME Reached PROVE Reached'
    <3>1. SUFFICES ASSUME clash = {}, NEW c \in Cancels, NEW r \in Requests, Through(c)', IdOf[c] = IdOf[r], Before(r, c)'
                   PROVE  Reaches(r)'
      BY <1>1 DEF Reached
    <3>2. Through(c) /\ Before(r, c)
      BY <1>1, <1>3, <2>2, <3>1, Apart DEF Through, Sent
    <3>3. Reaches(r)
      BY <2>5, <3>1, <3>2 DEF Reached
    <3> QED
      BY <1>1, <2>1, <3>3 DEF Reaches
  <2> QED
    BY <2>3, <2>4, <2>5 DEF CancelsInv, FewIdsCancelled
<1>6. CASE queuedRoutes # 1
  <2>1. early' = early /\ queuedRoutes' = 0 => FALSE
    BY <1>1, <1>4, <1>6
  <2>2. Clock' = Clock /\ \A p, q \in Messages : Before(p, q)' <=> Before(p, q)
    BY <1>1 DEF Clock, Before, Sent
  <2>3. \A i \in Ids, c \in Cancels : ForEarlier(c, i) => ForEarlier(c, i)'
    BY <1>1, <1>3, <1>6, <2>2, Apart DEF ForEarlier, Standing
  <2>4. Remembered'
    BY <1>1, <1>3, <1>4, <1>6, <2>1, <2>2, <2>3 DEF CancelsInv, Remembered
  <2>5. CancelledOnlyIfAsked'
    BY <1>1, <2>2, Apart DEF CancelsInv, CancelledOnlyIfAsked, TypeOK
  <2>6. ASSUME Reached PROVE Reached'
    <3>1. SUFFICES ASSUME clash = {}, NEW c \in Cancels, NEW r \in Requests, Through(c)', IdOf[c] = IdOf[r], Before(r, c)'
                   PROVE  Reaches(r)'
      BY <1>1 DEF Reached
    <3>2. Through(c) /\ Before(r, c)
      BY <1>1, <1>3, <2>2, <3>1, Apart DEF Through, Sent
    <3>3. Reaches(r)
      BY <2>6, <3>1, <3>2 DEF Reached
    <3> QED
      BY <1>1, <1>3, <1>6, <3>3 DEF Reaches
  <2> QED
    BY <2>4, <2>5, <2>6 DEF CancelsInv, FewIdsCancelled
<1> QED
  BY <1>5, <1>6

LEMMA LeftThread ==
  ASSUME TypeOK, NEW w \in Workers, \A v \in Workers \ {w} : worker'[v] = worker[v],
         ~Executing(w, "route"), ~Executing(w, "route")', UNCHANGED strand
  PROVE  LeftToRoute' = LeftToRoute
<1>1. \A v \in Workers \ {w} : Executing(v, "route")' <=> Executing(v, "route")
  BY DEF Executing
<1>2. SameRouted /\ SameRoutes
  BY <1>1 DEF SameRouted, SameRoutes
<1> QED
  BY <1>2, LeftStays

LEMMA CancelsThread ==
  ASSUME TypeOK, TypeOK', StrandExclusion, NEW at \in Placed, Located(at), Standing, Standing', CancelsInv, Reused',
         NEW w \in Workers, WorkerStep(w)
  PROVE  CancelsInv'
<1> DEFINE Still == UNCHANGED <<arrivedAt, reader, held, clash, queuedRoutes, lastQueued, early, inflight, cancelled>>
<1>1. ASSUME Still, LeftToRoute' = LeftToRoute PROVE CancelsInv'
  BY <1>1, CancelsQuiet DEF Closing
<1>2. CASE TakeTask(w)
  <2>1. PICK t \in RunTasks \cup DrainTasks :
          IF t.kind = "drain" THEN Become(w, "drain", t.strand, None) ELSE Become(w, "task", None, t)
    BY <1>2, PoolTaken DEF Located
  <2>2. t.kind \in {"run", "drain"}
    BY DEF RunTasks, DrainTasks
  <2>3. /\ worker'[w].at \in {"drain", "task"} /\ (worker'[w].at = "task" => worker'[w].task.kind = "run")
        /\ \A v \in Workers \ {w} : worker'[v] = worker[v]
    BY <2>1, <2>2, BecomeIs
  <2>4. LeftToRoute' = LeftToRoute
    BY <1>2, <2>3, LeftThread DEF TakeTask, Executing
  <2> QED
    BY <1>1, <1>2, <2>4 DEF TakeTask, readerVars, routeVars, requestVars
<1>3. CASE Exit(w) \/ DrainEnd(w)
  <2>1. worker'[w].at \in {"idle", "exited"} /\ \A v \in Workers \ {w} : worker'[v] = worker[v]
    BY <1>3, BecomeIs DEF Exit, DrainEnd
  <2>2. worker[w].at \in {"idle", "drain"} /\ UNCHANGED strand
    BY <1>3 DEF Exit, DrainEnd, queueVars
  <2>3. LeftToRoute' = LeftToRoute
    BY <2>1, <2>2, LeftThread DEF Executing
  <2> QED
    BY <1>1, <1>3, <2>3 DEF Exit, DrainEnd, readerVars, routeVars, requestVars
<1>4. CASE DrainNext(w)
  <2>1. LeftToRoute' = LeftToRoute
    BY <1>4, LeftNext
  <2> QED
    BY <1>1, <1>4, <2>1 DEF DrainNext, readerVars, routeVars, requestVars
<1>5. CASE RouteQueued(w)
  BY <1>5, CancelsQueued
<1>6. CASE FinishQueuedRoute(w)
  BY <1>6, CancelsCounted
<1>7. CASE HandleNotice(w) \/ StartAfterNotifications(w) \/ SendAnswer(w)
  <2>1. Return(w) /\ ~Executing(w, "route") /\ UNCHANGED strand
    BY <1>7 DEF HandleNotice, StartAfterNotifications, SendAnswer, Executing, queueVars
  <2>2. worker'[w].at \in {"idle", "drain"} /\ \A v \in Workers \ {w} : worker'[v] = worker[v]
    BY <2>1, ReturnIs
  <2>3. LeftToRoute' = LeftToRoute
    BY <2>1, <2>2, LeftThread DEF Executing
  <2> QED
    BY <1>1, <1>7, <2>3
       DEF HandleNotice, StartAfterNotifications, SendAnswer, readerVars, routeVars, requestVars
<1>8. CASE StartHandler(w) \/ HandlerReturns(w) \/ EraseEntry(w)
  <2>1. ~Executing(w, "route") /\ UNCHANGED strand
    BY <1>8 DEF StartHandler, HandlerReturns, EraseEntry, Executing, queueVars
  <2>2. PICK l \in {"running", "result", "cancelled", "send result", "send cancelled"} :
          Become(w, l, worker[w].strand, worker[w].task)
    BY <1>8 DEF StartHandler, HandlerReturns, EraseEntry
  <2>3. worker'[w].at # "task" /\ \A v \in Workers \ {w} : worker'[v] = worker[v]
    BY <2>2, BecomeIs
  <2>4. LeftToRoute' = LeftToRoute
    BY <2>1, <2>3, LeftThread DEF Executing
  <2>5. UNCHANGED <<arrivedAt, reader, held, clash, queuedRoutes, lastQueued, early, cancelled>>
    BY <1>8 DEF StartHandler, HandlerReturns, EraseEntry, readerVars, routeVars, requestVars
  <2>6. \A i \in Ids : inflight'[i] \in {inflight[i], None}
    <3>1. CASE EraseEntry(w)
      BY <3>1 DEF EraseEntry, Erased, TypeOK
    <3>2. CASE StartHandler(w) \/ HandlerReturns(w)
      BY <3>2 DEF StartHandler, HandlerReturns, requestVars
    <3> QED
      BY <1>8, <3>1, <3>2
  <2> QED
    BY <2>4, <2>5, <2>6, CancelsQuiet DEF Closing
<1> QED
  BY <1>2, <1>3, <1>4, <1>5, <1>6, <1>7, <1>8 DEF WorkerStep

LEMMA CancelsLoop ==
  ASSUME TypeOK, Standing, CancelsInv, Reused,
         \/ \E m \in Messages : Dispatch(m)
         \/ RouteHeld \/ StopReading \/ Stop \/ UNCHANGED vars
  PROVE  CancelsInv'
<1>1. ASSUME NEW m \in Messages, Dispatch(m) PROVE CancelsInv'
  BY <1>1, CancelsDeferred, CancelsBehind, CancelsNow DEF Dispatch
<1>2. CASE StopReading \/ Stop \/ UNCHANGED vars
  <2>1. UNCHANGED <<arrivedAt, held, queuedRoutes, lastQueued, early, inflight, clash, strand, worker>>
    BY <1>2 DEF StopReading, Stop, DrainIdle, DrainTimeout, ShutdownPool, vars, routeVars, requestVars, queueVars
  <2>2. LeftToRoute' = LeftToRoute
    BY <2>1 DEF LeftToRoute, RoutesOf, At, RoutedNow, Executing
  <2>3. (Closing => Closing') /\ (cancelled' = cancelled \/ Closing') /\ cancelled \subseteq cancelled'
    BY <1>2 DEF StopReading, Stop, DrainIdle, DrainTimeout, ShutdownPool, vars, requestVars, Closing
  <2> QED
    BY <2>1, <2>2, <2>3, CancelsQuiet
<1> QED
  BY <1>1, <1>2, CancelsHeld

LEMMA CancelsInit == Init => CancelsInv
<1> SUFFICES ASSUME Init PROVE CancelsInv
  OBVIOUS
<1>1. LeftToRoute = {}
  <2>1. strand[Notify] = <<>> /\ \A w \in Workers : worker[w].at = "idle"
    BY HomeIsStrand DEF Init, IdleWorker
  <2> QED
    BY <2>1 DEF LeftToRoute, RoutesOf, At, RoutedNow, Executing
<1>2. Remembered
  <2>1. lastQueued = 0 /\ held = None /\ \A i \in Ids : early[i] = 0
    BY DEF Init
  <2> QED
    BY <1>1, <2>1, ClockType DEF Remembered
<1>3. CancelledOnlyIfAsked
  BY DEF Init, CancelledOnlyIfAsked
<1>4. Reached
  BY <1>1, Apart DEF Init, Reached, Through, Sent
<1> QED
  BY <1>2, <1>3, <1>4 DEF CancelsInv

LEMMA CancelsStep == DispatcherInv /\ CancelsInv /\ [Next]_vars => CancelsInv'
<1>1. SUFFICES ASSUME DispatcherInv, CancelsInv, [Next]_vars PROVE CancelsInv'
  OBVIOUS
<1>2. DispatcherInv'
  BY <1>1, DispatcherStep
<1>3. Standing /\ Standing'
  BY <1>1, <1>2, StandingIs, StandingNext
<1>4. TypeOK /\ TypeOK' /\ StrandExclusion /\ Reused /\ Reused'
  BY <1>1, <1>2 DEF DispatcherInv, OneDrain
<1>5. PICK at \in Placed : Located(at)
  BY <1>1 DEF DispatcherInv, Settled
<1>6. \/ \E m \in Messages : Dispatch(m)
      \/ RouteHeld \/ StopReading \/ Stop \/ UNCHANGED vars
      \/ \E w \in Workers : WorkerStep(w)
  BY <1>1 DEF Next, Done
<1> QED
  BY <1>1, <1>3, <1>4, <1>5, <1>6, CancelsLoop, CancelsThread

(* While the server is not closing, nothing is cancelled but what a later cancel of its id
   asked for, however ids are reused and whatever is remembered for them. *)
THEOREM CancelledAsAsked == Spec => []CancelledOnlyIfAsked
<1>1. Spec => []CancelsInv
  BY CancelsInit, CancelsStep, DispatcherAlways, PTL DEF Spec
<1>2. CancelsInv => CancelledOnlyIfAsked
  BY DEF CancelsInv
<1> QED
  BY <1>1, <1>2, PTL

(* As long as the client cancels no more ids than the dispatcher remembers, a cancel reaches
   the request it follows wherever that waits, queued, being routed or registered: no handler
   runs on unaware.  And nothing else is cancelled. *)
THEOREM CancelsHit == ASSUME FewIdsCancelled PROVE Spec => []CancelsExact
<1>1. DispatcherInv /\ CancelsInv => CancelsExact
  <2>1. SUFFICES ASSUME DispatcherInv, CancelsInv PROVE CancelsExact
    OBVIOUS
  <2>2. CancelledOnlyIfAsked /\ Reached
    BY <2>1 DEF CancelsInv
  <2>3. PICK at \in Placed : Located(at)
    BY <2>1 DEF DispatcherInv, Settled
  <2>4. ASSUME NEW w \in Workers, NEW c \in Cancels,
               worker[w].at = "running", IdOf[c] = IdOf[Msg(w)], Before(Msg(w), c), held # c, clash = {},
               \A i \in 1 .. Len(strand[Notify]) : strand[Notify][i].msg # c,
               \A v \in Workers : worker[v].at = "task" => worker[v].task.msg # c
        PROVE  Msg(w) \in cancelled
    <3>1. Msg(w) \in Requests /\ inflight[IdOf[Msg(w)]] = Msg(w)
      <4>1. at[Msg(w)] = "called" /\ Msg(w) \in Requests
        BY <2>1, <2>3, <2>4, ThreadAt DEF DispatcherInv
      <4> QED
        BY <2>3, <4>1 DEF Located, Entered, Registered
    <3>2. \A t \in LeftToRoute : t.msg # c
      BY <2>4 DEF LeftToRoute, RoutesOf, At, RoutedNow, Executing
    <3>3. Sent(c)
      <4>1. arrivedAt[Msg(w)] \in Nat /\ arrivedAt[c] \in Nat
        BY <2>1, <3>1, Apart DEF DispatcherInv, TypeOK
      <4> QED
        BY <2>4, <4>1 DEF Before, Sent
    <3>4. Through(c)
      BY <2>4, <3>2, <3>3 DEF Through
    <3> QED
      BY <2>2, <2>4, <3>1, <3>4 DEF Reached, Reaches
  <2> QED
    BY <2>2, <2>4 DEF CancelsExact, CancelReaches
<1>2. Spec => []CancelsInv
  BY CancelsInit, CancelsStep, DispatcherAlways, PTL DEF Spec
<1> QED
  BY <1>1, <1>2, DispatcherAlways, PTL
-----------------------------------------------------------------------------
(* The contract. *)

(* An answer that says cancelled is of a request that has been. *)
CancelledKnown == \A w \in Workers : worker[w].at \in {"cancelled", "send cancelled"} => Msg(w) \in cancelled

LEMMA CancelledKnownStep == TypeOK /\ CancelledKnown /\ [Next]_vars => CancelledKnown'
<1>1. SUFFICES ASSUME TypeOK, CancelledKnown, [Next]_vars PROVE CancelledKnown'
  OBVIOUS
<1>2. cancelled \subseteq cancelled'
  <2>1. ASSUME NEW m \in Messages, NEW a, RouteMessage(m, a) PROVE cancelled \subseteq cancelled'
    BY <1>1, <2>1, RouteCases, CancelHits DEF Registers
  <2>2. \A m \in Messages : Dispatch(m) => cancelled \subseteq cancelled'
    BY <2>1 DEF Dispatch, DispatchDeferred, DispatchBehind, DispatchNow, requestVars
  <2>3. RouteHeld => cancelled \subseteq cancelled'
    BY <1>1, CancelHits DEF RouteHeld, requestVars
  <2>4. StopReading \/ Stop \/ UNCHANGED vars => cancelled \subseteq cancelled'
    BY DEF StopReading, Stop, DrainIdle, DrainTimeout, ShutdownPool, vars, requestVars
  <2>5. ASSUME NEW w \in Workers, WorkerStep(w) PROVE cancelled \subseteq cancelled'
    <3>1. CASE RouteQueued(w)
      <4>1. Msg(w) \in Messages
        BY <1>1, <3>1, WorkerShape DEF RouteQueued, RouteTasks, Msg
      <4> QED
        BY <2>1, <3>1, <4>1 DEF RouteQueued
    <3> QED
      BY <2>5, <3>1
         DEF WorkerStep, TakeTask, Exit, DrainNext, DrainEnd, FinishQueuedRoute, HandleNotice,
             StartAfterNotifications, StartHandler, HandlerReturns, EraseEntry, SendAnswer, requestVars
  <2> QED
    BY <1>1, <2>2, <2>3, <2>4, <2>5 DEF Next, Done
<1>3. UNCHANGED worker => CancelledKnown'
  BY <1>1, <1>2 DEF CancelledKnown, Msg
<1>4. ASSUME NEW w \in Workers, WorkerStep(w) PROVE CancelledKnown'
  <2>1. \A v \in Workers \ {w} : worker'[v] = worker[v]
    BY <1>1, <1>4, BecomeIs, ReturnIs
       DEF WorkerStep, TakeTask, Exit, DrainNext, DrainEnd, RouteQueued, FinishQueuedRoute, HandleNotice,
           StartAfterNotifications, StartHandler, HandlerReturns, EraseEntry, SendAnswer
  <2>2. worker'[w].at \in {"cancelled", "send cancelled"} => worker'[w].task.msg \in cancelled
    <3>1. CASE HandlerReturns(w) \/ EraseEntry(w)
      <4>1. PICK l \in {"result", "cancelled", "send result", "send cancelled"} :
              /\ Become(w, l, worker[w].strand, worker[w].task)
              /\ l \in {"cancelled", "send cancelled"} => Msg(w) \in cancelled
        <5>1. CASE HandlerReturns(w)
          BY <5>1 DEF HandlerReturns
        <5>2. CASE EraseEntry(w)
          BY <1>1, <5>2 DEF EraseEntry, CancelledKnown
        <5> QED
          BY <3>1, <5>1, <5>2
      <4>2. worker'[w].at = l /\ worker'[w].task = worker[w].task
        BY <1>1, <4>1, BecomeIs
      <4> QED
        BY <4>1, <4>2 DEF Msg
    <3>2. CASE HandleNotice(w) \/ StartAfterNotifications(w) \/ SendAnswer(w) \/ FinishQueuedRoute(w)
      BY <1>1, <3>2, ReturnIs DEF HandleNotice, StartAfterNotifications, SendAnswer, FinishQueuedRoute
    <3>3. CASE TakeTask(w) \/ Exit(w) \/ DrainNext(w) \/ DrainEnd(w) \/ RouteQueued(w) \/ StartHandler(w)
      <4>1. PICK l \in {"idle", "exited", "drain", "task", "routed", "running"} : \E s, t : Become(w, l, s, t)
        BY <3>3 DEF TakeTask, Exit, DrainNext, DrainEnd, RouteQueued, StartHandler
      <4> QED
        BY <1>1, <4>1, BecomeIs
    <3> QED
      BY <1>4, <3>1, <3>2, <3>3 DEF WorkerStep
  <2> QED
    BY <1>1, <1>2, <2>1, <2>2 DEF CancelledKnown, Msg
<1>5. UNCHANGED worker \/ \E w \in Workers : WorkerStep(w)
  BY <1>1 DEF Next, Dispatch, DispatchDeferred, DispatchBehind, DispatchNow, Take, RouteHeld, StopReading, Stop,
              DrainIdle, DrainTimeout, ShutdownPool, Done, vars
<1> QED
  BY <1>3, <1>4, <1>5

(* The places say which requests the contract sees pending. *)
Pending == {r \in Requests : Sent(r) /\ answers[r] = <<>>}
Asked == {r \in Requests : \E c \in Cancels : IdOf[c] = IdOf[r] /\ Before(r, c)}

LEMMA ServiceInit == Init => Service!Init
<1> SUFFICES ASSUME Init PROVE Service!Init
  OBVIOUS
<1>1. \A m \in Messages : ~Sent(m)
  BY DEF Init, Sent
<1>2. Pending = {} /\ Asked = {}
  BY <1>1, Apart DEF Pending, Asked, Before
<1>3. reader = "reading" /\ answers = [r \in Requests |-> <<>>]
  BY DEF Init
<1> QED
  BY <1>2, <1>3 DEF Service!Init, Pending, Asked

(* A step that takes nothing, answers nothing and stops nothing is no step of the contract. *)
LEMMA ServiceStutters ==
  ASSUME UNCHANGED <<arrivedAt, answers>>, reader' = "reading" <=> reader = "reading"
  PROVE  UNCHANGED Service!vars
<1>1. Pending' = Pending /\ Asked' = Asked
  BY DEF Pending, Asked, Sent, Before
<1> QED
  BY <1>1 DEF Service!vars, Pending, Asked

(* An answer written to a request that waits for one. *)
LEMMA ServiceFinishes ==
  ASSUME TypeOK, UNCHANGED <<arrivedAt, reader>>, NEW m \in Requests, Sent(m), answers[m] = <<>>,
         NEW o \in {"error", "refused", "result", "cancelled"}, Answer(m, o),
         o = "refused" => \E q \in Requests \ {m} : Sent(q) /\ answers[q] = <<>> /\ IdOf[q] = IdOf[m],
         o = "cancelled" => m \in Asked \/ reader # "reading"
  PROVE  Service!Finish(m)
<1>1. answers' = [answers EXCEPT ![m] = <<o>>]
  <2>1. Append(answers[m], o) = <<o>>
    OBVIOUS
  <2> QED
    BY <2>1 DEF Answer, TypeOK
<1>2. answers'[m] # <<>> /\ \A r \in Requests \ {m} : answers'[r] = answers[r]
  <2>1. answers'[m] = <<o>>
    BY <1>1 DEF TypeOK
  <2> QED
    BY <1>1, <2>1 DEF TypeOK
<1>3. Pending' = Pending \ {m} /\ m \in Pending /\ Asked' = Asked
  <2>1. m \in Pending /\ Asked' = Asked
    BY DEF Pending, Asked, Sent, Before
  <2>2. \A r \in Requests : Sent(r)' <=> Sent(r)
    BY DEF Sent
  <2> QED
    BY <1>2, <2>1, <2>2 DEF Pending
<1>4. o = "refused" => \E q \in Pending \ {m} : IdOf[q] = IdOf[m]
  BY DEF Pending
<1>5. Service!Reply(m, o)
  BY <1>1 DEF Service!Reply
<1>6. o = "refused" => Service!InUse(m)
  BY <1>4 DEF Service!InUse, Pending
<1> QED
  BY <1>3, <1>5, <1>6 DEF Service!Finish, Pending, Asked

(* The read loop takes a request, a cancel or a notice. *)
LEMMA ServiceTakes ==
  ASSUME TypeOK, Standing, NEW at \in Placed, Located(at), NEW m \in Messages, Dispatch(m)
  PROVE  Service!Next \/ UNCHANGED Service!vars
<1>1. Take(m) /\ reader = "reading" /\ reader' = reader
  BY DEF Dispatch, DispatchDeferred, DispatchBehind, DispatchNow, Take
<1>2. /\ arrivedAt[m] = 0 /\ Clock \in Nat
      /\ \A p, q \in Messages : Before(p, q) => Before(p, q)' /\ p # m /\ q # m
      /\ \A p, q \in Messages : Before(p, q)' => p # m /\ (q # m => Before(p, q))
      /\ \A p \in Messages : Sent(p) => Before(p, m)'
      /\ \A p \in Messages : p # m => (Sent(p)' <=> Sent(p))
  BY <1>1, TakenLast
<1>3. Sent(m)' /\ ~Sent(m) /\ at[m] = "unsent"
  <2>1. arrivedAt'[m] = Clock + 1
    BY <1>1 DEF Take, TypeOK
  <2> QED
    BY <1>2, <2>1 DEF Sent, Located, Stamped
<1>4. \A r \in Requests : answers[r] # <<>> => Sent(r)
  <2>1. \A r \in Requests : answers[r] # <<>> => at[r] = "done" /\ arrivedAt[r] # 0 /\ arrivedAt[r] \in Nat
    BY Apart DEF Located, Entered, Stamped, TypeOK
  <2> QED
    BY <2>1 DEF Sent
<1>5. CASE m \in Requests
  <2>1. answers[m] = <<>> /\ m \notin Cancels
    BY <1>3, <1>4, <1>5, Apart
  <2>2. m \notin Pending /\ Asked' = Asked
    BY <1>2, <1>3, <2>1, Apart DEF Pending, Asked
  <2>3. CASE UNCHANGED answers
    <3>1. Pending' = Pending \cup {m}
      BY <1>2, <1>3, <1>5, <2>1, <2>3, Apart DEF Pending
    <3>2. Service!Submit(m)
      BY <1>1, <2>1, <2>2, <2>3, <3>1 DEF Service!Submit, Pending, Asked
    <3> QED
      BY <1>5, <3>2 DEF Service!Next
  <2>4. CASE DispatchNow(m) /\ Answered(at, m)
    <3>1. PICK o \in {"error", "refused"} :
            /\ Answer(m, o)
            /\ o = "refused" => \E q \in Requests \ {m} : IdOf[q] = IdOf[m] /\ at[q] \in Registered
      BY <2>4 DEF Answered
    <3>2. answers' = [answers EXCEPT ![m] = <<o>>] /\ answers'[m] # <<>>
          /\ \A r \in Requests \ {m} : answers'[r] = answers[r]
      <4>1. Append(answers[m], o) = <<o>> /\ <<o>> # <<>>
        BY <2>1
      <4> QED
        BY <1>5, <3>1, <4>1 DEF Answer, TypeOK
    <3>3. Pending' = Pending
      BY <1>2, <1>3, <2>1, <3>2, Apart DEF Pending
    <3>4. o = "refused" => \E q \in Pending \ {m} : IdOf[q] = IdOf[m]
      <4>1. \A q \in Requests : at[q] \in Registered => answers[q] = <<>> /\ arrivedAt[q] > 0
        BY RegisteredIsOpen
      <4> QED
        BY <3>1, <4>1 DEF Pending, Sent
    <3>5. Service!Reply(m, o)
      BY <3>2 DEF Service!Reply
    <3>6. o = "refused" => Service!InUse(m)
      BY <1>5, <3>4 DEF Service!InUse, Pending
    <3>7. Service!Bounce(m)
      BY <1>1, <2>1, <2>2, <3>3, <3>5, <3>6 DEF Service!Bounce, Pending, Asked
    <3> QED
      BY <1>5, <3>7 DEF Service!Next
  <2>5. DispatchNow(m) => UNCHANGED answers \/ Answered(at, m)
    <3>1. at[m] \notin Registered
      BY <1>3 DEF Registered
    <3> QED
      BY <1>5, <2>1, <3>1, Apart, RunRequestCases DEF DispatchNow, RouteMessage, Located
  <2> QED
    BY <2>3, <2>4, <2>5 DEF Dispatch, DispatchDeferred, DispatchBehind, requestVars
<1>6. CASE m \notin Requests
  <2>1. UNCHANGED answers
    BY <1>6, Apart DEF Dispatch, DispatchDeferred, DispatchBehind, DispatchNow, RouteMessage, CancelRequest, requestVars
  <2>2. Pending' = Pending
    BY <1>2, <1>6, <2>1, Apart DEF Pending
  <2>3. CASE m \in Cancels
    <3>1. IdOf[m] \in Ids
      BY <2>3, ConstantsAssumption
    <3>2. Asked' = Asked \cup {r \in Requests : IdOf[r] = IdOf[m] /\ Sent(r)}
      <4>1. ASSUME NEW r \in Requests, r \in Asked' PROVE r \in Asked \/ (IdOf[r] = IdOf[m] /\ Sent(r))
        <5>1. PICK c \in Cancels : IdOf[c] = IdOf[r] /\ Before(r, c)'
          BY <4>1 DEF Asked
        <5>2. r \in Messages /\ c \in Messages /\ r # m /\ (Sent(r)' => Sent(r))
          BY <1>2, <5>1, <2>3, Apart
        <5>3. CASE c = m
          BY <5>1, <5>2, <5>3 DEF Before
        <5>4. CASE c # m
          BY <1>2, <5>1, <5>2, <5>4 DEF Asked
        <5> QED
          BY <5>3, <5>4
      <4>2. Asked \subseteq Asked'
        BY <1>2, Apart DEF Asked
      <4>3. ASSUME NEW r \in Requests, IdOf[r] = IdOf[m], Sent(r) PROVE r \in Asked'
        BY <1>2, <2>3, <4>3, Apart DEF Asked
      <4>4. Asked' \subseteq Requests /\ Asked \subseteq Requests
        BY DEF Asked
      <4> QED
        BY <4>1, <4>2, <4>3, <4>4
    <3>3. \A r \in Requests : Sent(r) <=> r \in Pending \/ answers[r] # <<>>
      BY <1>4 DEF Pending
    <3>4. Asked' = Asked \cup {r \in Requests : IdOf[r] = IdOf[m] /\ (r \in Pending \/ answers[r] # <<>>)}
      BY <3>2, <3>3
    <3>5. Service!AskCancel
      BY <1>1, <2>1, <2>2, <3>1, <3>4 DEF Service!AskCancel, Pending, Asked
    <3> QED
      BY <3>5 DEF Service!Next
  <2>4. CASE m \notin Cancels
    <3>1. Asked' = Asked
      BY <1>2, <1>6, <2>4, Apart DEF Asked
    <3> QED
      BY <1>1, <2>1, <2>2, <3>1 DEF Service!vars, Pending, Asked
  <2> QED
    BY <2>3, <2>4
<1> QED
  BY <1>5, <1>6

(* A thread answers a request, or nothing the contract sees. *)
LEMMA ServiceThread ==
  ASSUME TypeOK, NEW at \in Placed, Located(at), CancelledOnlyIfAsked, CancelledKnown, NEW w \in Workers, WorkerStep(w)
  PROVE  Service!Next \/ UNCHANGED Service!vars
<1>1. UNCHANGED <<arrivedAt, reader>>
  BY DEF WorkerStep, TakeTask, Exit, DrainNext, DrainEnd, RouteQueued, FinishQueuedRoute, HandleNotice,
         StartAfterNotifications, StartHandler, HandlerReturns, EraseEntry, SendAnswer, readerVars
<1>2. \A m \in Messages : at[m] # "unsent" => Sent(m)
  BY DEF Located, Stamped, Sent, TypeOK
<1>3. CASE RouteQueued(w)
  <2>1. PICK m \in Messages : Msg(w) = m
    BY <1>3, ThreadAt DEF RouteQueued
  <2>2. at[m] = "routing" /\ RouteMessage(m, worker[w].task.arrival)
    BY <1>3, <2>1, ThreadAt DEF RouteQueued
  <2>3. CASE UNCHANGED answers
    BY <1>1, <2>3, ServiceStutters
  <2>4. CASE m \in Requests /\ Answered(at, m)
    <3>1. PICK o \in {"error", "refused"} :
            /\ Answer(m, o)
            /\ o = "refused" => \E q \in Requests \ {m} : IdOf[q] = IdOf[m] /\ at[q] \in Registered
      BY <2>4 DEF Answered
    <3>2. Sent(m) /\ answers[m] = <<>>
      BY <1>2, <2>2, <2>4 DEF Located, Entered
    <3>3. \A q \in Requests : at[q] \in Registered => answers[q] = <<>> /\ Sent(q)
      BY RegisteredIsOpen DEF Sent
    <3>4. Service!Finish(m)
      BY <1>1, <2>4, <3>1, <3>2, <3>3, ServiceFinishes
    <3> QED
      BY <2>4, <3>4 DEF Service!Next
  <2>5. UNCHANGED answers \/ (m \in Requests /\ Answered(at, m))
    <3>1. at[m] \notin Registered
      BY <2>2 DEF Registered
    <3> QED
      BY <2>2, <3>1, RunRequestCases DEF RouteMessage, CancelRequest, requestVars, Located
  <2> QED
    BY <2>3, <2>4, <2>5
<1>4. CASE SendAnswer(w)
  <2>1. Sending(w)
    BY <1>4 DEF SendAnswer, Sending
  <2>2. PICK m \in Requests : Msg(w) = m /\ at[m] = "sending"
    BY <2>1, ThreadAt
  <2>3. Sent(m) /\ answers[m] = <<>>
    BY <1>2, <2>2, Apart DEF Located, Entered
  <2>4. PICK o \in {"result", "cancelled"} : Answer(m, o) /\ (o = "cancelled" => worker[w].at = "send cancelled")
    BY <1>4, <2>2 DEF SendAnswer
  <2>5. o = "cancelled" => m \in Asked \/ reader # "reading"
    BY <2>2, <2>4 DEF CancelledKnown, CancelledOnlyIfAsked, Asked
  <2>6. Service!Finish(m)
    BY <1>1, <2>3, <2>4, <2>5, ServiceFinishes
  <2> QED
    BY <2>6 DEF Service!Next
<1>5. CASE UNCHANGED answers
  BY <1>1, <1>5, ServiceStutters
<1> QED
  BY <1>3, <1>4, <1>5
     DEF WorkerStep, TakeTask, Exit, DrainNext, DrainEnd, FinishQueuedRoute, HandleNotice,
         StartAfterNotifications, StartHandler, HandlerReturns, EraseEntry, requestVars

LEMMA ServiceStep == DispatcherInv /\ CancelsInv /\ CancelledKnown /\ [Next]_vars => [Service!Next]_(Service!vars)
<1>1. SUFFICES ASSUME DispatcherInv, CancelsInv, CancelledKnown, [Next]_vars
               PROVE  Service!Next \/ UNCHANGED Service!vars
  OBVIOUS
<1>2. TypeOK /\ Standing /\ CancelledOnlyIfAsked
  BY <1>1, StandingIs DEF DispatcherInv, CancelsInv
<1>3. PICK at \in Placed : Located(at)
  BY <1>1 DEF DispatcherInv, Settled
<1>4. CASE RouteHeld
  BY <1>4, ServiceStutters DEF RouteHeld, CancelRequest, requestVars
<1>5. CASE StopReading
  <2>1. UNCHANGED <<arrivedAt, answers>> /\ reader = "reading" /\ reader' = "draining"
    BY <1>5 DEF StopReading, requestVars
  <2>2. Pending' = Pending /\ Asked' = Asked
    BY <2>1 DEF Pending, Asked, Sent, Before
  <2>3. Service!StopServing
    BY <2>1, <2>2 DEF Service!StopServing, Pending, Asked
  <2> QED
    BY <2>3 DEF Service!Next
<1>6. CASE Stop \/ UNCHANGED vars
  BY <1>6, ServiceStutters DEF Stop, DrainIdle, DrainTimeout, ShutdownPool, vars, requestVars
<1> QED
  BY <1>1, <1>2, <1>3, <1>4, <1>5, <1>6, ServiceTakes, ServiceThread DEF Next, Done

(* The lifecycle keeps the contract of the class: a request is taken and answered once, turned
   away only if its id is in use, and ends cancelled only if a cancel asked for it or the
   engine stops.  Each step is one of the contract's or none. *)
THEOREM ServiceKept == Spec => Service!Init /\ [][Service!Next]_(Service!vars)
<1>1. Init => CancelledKnown
  <2>1. Init => \A w \in Workers : worker[w].at = "idle"
    BY DEF Init, IdleWorker
  <2> QED
    BY <2>1 DEF CancelledKnown
<1>2. Spec => []CancelledKnown
  BY <1>1, CancelledKnownStep, TypeCorrect, PTL DEF Spec
<1>3. Spec => []CancelsInv
  BY CancelsInit, CancelsStep, DispatcherAlways, PTL DEF Spec
<1> QED
  BY <1>2, <1>3, ServiceInit, ServiceStep, DispatcherAlways, PTL DEF Spec

-----------------------------------------------------------------------------
(***************************************************************************)
(* The threads of the engine: no task waits for a thread that nobody wakes.*)
(***************************************************************************)
(* The pool's instance has FiniteSets of its own, which count as FiniteSets do. *)
LEMMA SameFinite == ASSUME NEW S PROVE Pool!IsFiniteSet(S) = IsFiniteSet(S)
  BY DEF Pool!IsFiniteSet, IsFiniteSet

LEMMA SameCount == ASSUME NEW S PROVE Pool!Cardinality(S) = Cardinality(S)
  BY Zenon DEF Pool!Cardinality, Cardinality

LEMMA CardinalityType == ASSUME NEW S, Pool!IsFiniteSet(S) PROVE Pool!Cardinality(S) \in Nat
  BY SameFinite, SameCount, FS_CardinalityType

LEMMA EmptySet ==
  /\ Pool!IsFiniteSet({}) /\ Pool!Cardinality({}) = 0
  /\ \A S : Pool!IsFiniteSet(S) => (Pool!Cardinality(S) = 0 <=> S = {})
  BY SameFinite, SameCount, FS_EmptySet

LEMMA AddElement ==
  ASSUME NEW S, NEW x, Pool!IsFiniteSet(S)
  PROVE  /\ Pool!IsFiniteSet(S \cup {x})
         /\ Pool!Cardinality(S \cup {x}) =
              IF x \in S THEN Pool!Cardinality(S) ELSE Pool!Cardinality(S) + 1
  BY SameFinite, SameCount, FS_AddElement

LEMMA RemoveElement ==
  ASSUME NEW S, NEW x, Pool!IsFiniteSet(S)
  PROVE  /\ Pool!IsFiniteSet(S \ {x})
         /\ Pool!Cardinality(S \ {x}) =
              IF x \in S THEN Pool!Cardinality(S) - 1 ELSE Pool!Cardinality(S)
  BY SameFinite, SameCount, FS_RemoveElement

LEMMA Subset ==
  ASSUME NEW S, Pool!IsFiniteSet(S), NEW T \in SUBSET S
  PROVE  /\ Pool!IsFiniteSet(T) /\ Pool!Cardinality(T) <= Pool!Cardinality(S)
         /\ Pool!Cardinality(S) = Pool!Cardinality(T) => S = T
  BY SameFinite, SameCount, FS_Subset
(* What is queued or run was posted: done is what was posted only because of this. *)
OnlyPosted ==
  /\ poolInteractive \in Seq(poolPosted) /\ poolBackground \in Seq(poolPosted)
  /\ \A w \in Threads : poolThread[w] = "busy" => poolRunning[w] \in poolPosted

PoolInv == Pool!WakeupsKept /\ OnlyPosted

LEMMA InitPool == ASSUME Pool!PoolAssumption, Pool!Init PROVE PoolInv
<1>1. Pool!TypeOK
  <2>1. Pool!IsFiniteSet(Core)
    BY Subset DEF Pool!PoolAssumption
  <2>2. poolLive \in Int
    BY <2>1, CardinalityType DEF Pool!Init
  <2>3. poolInteractive \in Seq(Tasks \ Background) /\ poolBackground \in Seq(Background)
    BY DEF Pool!Init
  <2>4. poolThread \in [Threads -> {"free", "awake", "asleep", "busy", "returned", "joining"}]
    BY DEF Pool!Init
  <2>5. poolRunning \in [Threads -> Tasks \cup {Pool!NoTask}]
    BY DEF Pool!Init
  <2>6. /\ poolStuck \in Hanging /\ poolPosted \subseteq Tasks /\ poolDone \subseteq poolPosted
        /\ poolSignalled \subseteq Pool!Asleep
    BY DEF Pool!Init
  <2>7. poolNotifies \in Nat /\ poolIdle \in Int
    BY DEF Pool!Init
  <2>8. poolOverdue \in BOOLEAN
    BY Zenon DEF Pool!Init
  <2>9. /\ poolSupervisor \in {"waiting", "joining", "joined", "done"}
        /\ poolStop \in {"open", "flagged", "notified", "joined"}
    BY DEF Pool!Init
  <2> QED BY <2>2, <2>3, <2>4, <2>5, <2>6, <2>7, <2>8, <2>9 DEF Pool!TypeOK
<1>2. Pool!Asleep = {}
  BY DEF Pool!Init, Pool!Asleep
<1>3. Pool!Alive = Core
  BY DEF Pool!Init, Pool!Alive, Pool!PoolAssumption
<1>4. Pool!CountsExact
  BY <1>2, <1>3, EmptySet DEF Pool!Init, Pool!CountsExact
<1>5. Pool!NoLostWakeup
  BY <1>2 DEF Pool!NoLostWakeup, Pool!Init
<1>6. OnlyPosted
  BY DEF Pool!Init, OnlyPosted
<1> QED BY <1>1, <1>4, <1>5, <1>6 DEF PoolInv, Pool!WakeupsKept

(* The sleeping and the live threads are finitely many. *)
LEMMA FewThreads ==
  ASSUME Pool!PoolAssumption, Pool!TypeOK
  PROVE  /\ Pool!IsFiniteSet(Pool!Asleep) /\ Pool!IsFiniteSet(Pool!Alive) /\ Pool!IsFiniteSet(poolSignalled)
         /\ Pool!Cardinality(poolSignalled) \in Nat
<1>1. /\ Pool!Asleep \subseteq Threads /\ Pool!Alive \subseteq Threads
      /\ poolSignalled \subseteq Threads
  BY DEF Pool!Asleep, Pool!Alive, Pool!TypeOK
<1>2. Pool!IsFiniteSet(Threads)
  BY DEF Pool!PoolAssumption
<1> QED BY <1>1, <1>2, Subset, CardinalityType

(* What has changed for the counts when one thread goes from one state to another. *)
LEMMA OneMoves ==
  ASSUME Pool!PoolAssumption, Pool!TypeOK, Pool!CountsExact, NEW w \in Threads,
         NEW to \in {"free", "awake", "asleep", "busy", "returned", "joining"},
         poolThread' = [poolThread EXCEPT ![w] = to]
  PROVE  /\ Pool!Asleep' = IF to = "asleep" THEN Pool!Asleep \cup {w} ELSE Pool!Asleep \ {w}
         /\ Pool!Alive' = IF to \in {"awake", "asleep", "busy"} THEN Pool!Alive \cup {w} ELSE Pool!Alive \ {w}
         /\ poolThread' \in [Threads -> {"free", "awake", "asleep", "busy", "returned", "joining"}]
         /\ Pool!Cardinality(Pool!Asleep') = IF to = "asleep"
              THEN IF poolThread[w] = "asleep" THEN poolIdle ELSE poolIdle + 1
              ELSE IF poolThread[w] = "asleep" THEN poolIdle - 1 ELSE poolIdle
         /\ Pool!Cardinality(Pool!Alive') = IF to \in {"awake", "asleep", "busy"}
              THEN IF poolThread[w] \in {"awake", "asleep", "busy"} THEN poolLive ELSE poolLive + 1
              ELSE IF poolThread[w] \in {"awake", "asleep", "busy"} THEN poolLive - 1 ELSE poolLive
<1>1. poolThread \in [Threads -> {"free", "awake", "asleep", "busy", "returned", "joining"}]
  BY DEF Pool!TypeOK
<1>2. Pool!Asleep' = IF to = "asleep" THEN Pool!Asleep \cup {w} ELSE Pool!Asleep \ {w}
  BY <1>1 DEF Pool!Asleep
<1>3. Pool!Alive' = IF to \in {"awake", "asleep", "busy"} THEN Pool!Alive \cup {w} ELSE Pool!Alive \ {w}
  BY <1>1 DEF Pool!Alive
<1>4. /\ (w \in Pool!Asleep <=> poolThread[w] = "asleep")
      /\ (w \in Pool!Alive <=> poolThread[w] \in {"awake", "asleep", "busy"})
  BY DEF Pool!Asleep, Pool!Alive
<1>5. /\ poolIdle = Pool!Cardinality(Pool!Asleep) /\ poolLive = Pool!Cardinality(Pool!Alive)
      /\ Pool!IsFiniteSet(Pool!Asleep) /\ Pool!IsFiniteSet(Pool!Alive)
  BY FewThreads DEF Pool!CountsExact
<1>6. /\ Pool!Cardinality(Pool!Asleep \cup {w}) = IF w \in Pool!Asleep THEN poolIdle ELSE poolIdle + 1
      /\ Pool!Cardinality(Pool!Asleep \ {w}) = IF w \in Pool!Asleep THEN poolIdle - 1 ELSE poolIdle
  BY <1>5, AddElement, RemoveElement
<1>7. /\ Pool!Cardinality(Pool!Alive \cup {w}) = IF w \in Pool!Alive THEN poolLive ELSE poolLive + 1
      /\ Pool!Cardinality(Pool!Alive \ {w}) = IF w \in Pool!Alive THEN poolLive - 1 ELSE poolLive
  BY <1>5, AddElement, RemoveElement
<1>8. poolThread' \in [Threads -> {"free", "awake", "asleep", "busy", "returned", "joining"}]
  BY <1>1
<1> QED BY <1>2, <1>3, <1>4, <1>6, <1>7, <1>8

(* The queue, of the two lanes. *)
LEMMA LanesLength ==
  ASSUME NEW i \in Seq(Tasks), NEW b \in Seq(Tasks)
  PROVE  /\ i \o b \in Seq(Tasks) /\ Len(i \o b) = Len(i) + Len(b)
         /\ Len(i) \in Nat /\ Len(b) \in Nat
         /\ i \o b = <<>> <=> i = <<>> /\ b = <<>>
  BY ConcatProperties, ConcatEqualIffEmpty, LenProperties

LEMMA QueueLength ==
  ASSUME Pool!TypeOK
  PROVE  /\ Len(poolInteractive) \in Nat /\ Len(poolBackground) \in Nat
         /\ Len(Pool!Queued) = Len(poolInteractive) + Len(poolBackground)
         /\ Pool!Queued = <<>> <=> poolInteractive = <<>> /\ poolBackground = <<>>
<1>1. poolInteractive \in Seq(Tasks \ Background) /\ poolBackground \in Seq(Background)
  BY DEF Pool!TypeOK
<1>2. /\ poolInteractive \in Seq(Tasks \cup Background)
      /\ poolBackground \in Seq(Tasks \cup Background)
  BY <1>1, SeqMonotonic
<1>3. Len(Pool!Queued) = Len(poolInteractive) + Len(poolBackground)
  BY <1>2, ConcatProperties DEF Pool!Queued
<1>4. Pool!Queued = <<>> <=> poolInteractive = <<>> /\ poolBackground = <<>>
  BY <1>2, ConcatEqualIffEmpty DEF Pool!Queued
<1> QED BY <1>1, <1>3, <1>4, LenProperties

(* One conjunct at a time: the kinds of the variables a step of a lane changes. *)
LaneType ==
  /\ poolPosted \subseteq Tasks /\ poolDone \subseteq poolPosted /\ poolStuck \in Hanging
  /\ poolInteractive \in Seq(Tasks \ Background) /\ poolBackground \in Seq(Background)

OtherType ==
  /\ poolNotifies \in Nat /\ poolOverdue \in BOOLEAN
  /\ poolSupervisor \in {"waiting", "joining", "joined", "done"}
  /\ poolStop \in {"open", "flagged", "notified", "joined"}

ThreadType ==
  /\ poolThread \in [Threads -> {"free", "awake", "asleep", "busy", "returned", "joining"}]
  /\ poolRunning \in [Threads -> Tasks \cup {Pool!NoTask}]
  /\ poolSignalled \subseteq Pool!Asleep /\ poolIdle \in Int /\ poolLive \in Int

LEMMA TypeParts == Pool!TypeOK <=> LaneType /\ OtherType /\ ThreadType
  BY DEF Pool!TypeOK, LaneType, OtherType, ThreadType

(* A step that leaves the threads alone leaves what is known of them alone. *)
LEMMA PoolAsBefore ==
  ASSUME Pool!TypeOK, Pool!CountsExact,
         UNCHANGED <<poolThread, poolRunning, poolSignalled, poolIdle, poolLive>>
  PROVE  ThreadType' /\ Pool!CountsExact' /\ Pool!Asleep' = Pool!Asleep
  BY DEF ThreadType, Pool!TypeOK, Pool!CountsExact, Pool!Asleep, Pool!Alive

LEMMA PostKeeps ==
  ASSUME Pool!PoolAssumption, PoolInv, NEW t \in Tasks, Pool!Post(t) PROVE PoolInv'
<1>1. Pool!TypeOK /\ Pool!CountsExact /\ Pool!NoLostWakeup /\ OnlyPosted
  BY DEF PoolInv, Pool!WakeupsKept
<1>2. ThreadType' /\ Pool!CountsExact' /\ Pool!Asleep' = Pool!Asleep
  BY <1>1, PoolAsBefore DEF Pool!Post, Pool!threadVars
<1>3. LaneType /\ OtherType
  BY <1>1, TypeParts
<1>4. LaneType'
  <2>1. t \in Background => Append(poolBackground, t) \in Seq(Background)
    BY <1>3, AppendProperties DEF LaneType
  <2>2. t \notin Background => Append(poolInteractive, t) \in Seq(Tasks \ Background)
    BY <1>3, AppendProperties DEF LaneType
  <2> QED BY <1>3, <2>1, <2>2 DEF LaneType, Pool!Post
<1>5. OtherType'
  BY <1>3 DEF OtherType, Pool!Post
<1>6. OnlyPosted'
  <2>1. poolInteractive \in Seq(poolPosted') /\ poolBackground \in Seq(poolPosted')
    BY <1>1, SeqMonotonic DEF OnlyPosted, Pool!Post
  <2>2. /\ Append(poolInteractive, t) \in Seq(poolPosted')
        /\ Append(poolBackground, t) \in Seq(poolPosted')
    BY <2>1, AppendProperties DEF Pool!Post
  <2>3. \A w \in Threads : poolThread'[w] = "busy" => poolRunning'[w] \in poolPosted'
    BY <1>1 DEF OnlyPosted, Pool!Post, Pool!threadVars
  <2> QED BY <2>1, <2>2, <2>3 DEF OnlyPosted, Pool!Post
<1>7. Pool!NoLostWakeup'
  <2>1. CASE Pool!stopping
    BY <1>1, <1>2, <2>1 DEF Pool!NoLostWakeup, Pool!Post, Pool!threadVars, Pool!Queued
  <2>2. CASE ~Pool!stopping
    <3>1. Pool!TypeOK'
      BY <1>2, <1>4, <1>5 DEF Pool!TypeOK, LaneType, OtherType, ThreadType
    <3>2. Len(Pool!Queued') = Len(Pool!Queued) + 1
      <4>1. Len(Pool!Queued') = Len(poolInteractive') + Len(poolBackground')
        <5>1. /\ poolInteractive' \in Seq(poolPosted') /\ poolBackground' \in Seq(poolPosted')
              /\ poolPosted' \subseteq Tasks
          BY <1>4, <1>6 DEF LaneType, OnlyPosted
        <5> QED BY <5>1, ConcatProperties DEF Pool!Queued
      <4>2. /\ Len(Append(poolInteractive, t)) = Len(poolInteractive) + 1
            /\ Len(Append(poolBackground, t)) = Len(poolBackground) + 1
        BY <1>1, AppendProperties DEF Pool!TypeOK
      <4> QED BY <1>1, <2>2, <4>1, <4>2, QueueLength DEF Pool!Post
    <3>3. /\ Len(Pool!Queued) \in Nat /\ Pool!Cardinality(poolSignalled) \in Nat
          /\ poolNotifies \in Nat
      BY <1>1, QueueLength, FewThreads DEF Pool!TypeOK
    <3>4. poolNotifies' = poolNotifies + 1 /\ poolSignalled' = poolSignalled
      BY <2>2 DEF Pool!Post, Pool!threadVars
    <3> QED BY <1>1, <1>2, <3>2, <3>3, <3>4 DEF Pool!NoLostWakeup
  <2> QED BY <2>1, <2>2
<1>8. Pool!TypeOK'
  BY <1>2, <1>4, <1>5 DEF Pool!TypeOK, LaneType, OtherType, ThreadType
<1> QED BY <1>2, <1>6, <1>7, <1>8 DEF PoolInv, Pool!WakeupsKept

LEMMA NotifyKeeps ==
  ASSUME Pool!PoolAssumption, PoolInv, Pool!NotifyOne PROVE PoolInv'
<1>1. Pool!TypeOK /\ Pool!CountsExact /\ Pool!NoLostWakeup /\ OnlyPosted
  BY DEF PoolInv, Pool!WakeupsKept
<1>2. Pool!Asleep' = Pool!Asleep /\ Pool!Alive' = Pool!Alive
  BY DEF Pool!NotifyOne, Pool!Asleep, Pool!Alive
<1>3. Pool!TypeOK'
  <2>1. poolSignalled' \subseteq Pool!Asleep'
    BY <1>1, <1>2 DEF Pool!NotifyOne, Pool!Wakeable, Pool!TypeOK
  <2>2. poolNotifies' \in Nat
    BY <1>1 DEF Pool!NotifyOne, Pool!TypeOK
  <2> QED BY <1>1, <2>1, <2>2 DEF Pool!TypeOK, Pool!NotifyOne, Pool!laneVars
<1>4. Pool!CountsExact'
  BY <1>1, <1>2 DEF Pool!CountsExact, Pool!NotifyOne
<1>5. Pool!NoLostWakeup'
  <2>1. CASE Pool!Wakeable = {}
    <3>1. Pool!Asleep \subseteq poolSignalled /\ poolSignalled' = poolSignalled
      BY <2>1 DEF Pool!Wakeable, Pool!NotifyOne
    <3> QED BY <1>2, <3>1 DEF Pool!NoLostWakeup
  <2>2. CASE Pool!Wakeable # {}
    <3>1. PICK w \in Pool!Asleep \ poolSignalled : poolSignalled' = poolSignalled \cup {w}
      BY <2>2 DEF Pool!NotifyOne, Pool!Wakeable
    <3>2. Pool!IsFiniteSet(poolSignalled) /\ Pool!Cardinality(poolSignalled) \in Nat
      BY <1>1, FewThreads
    <3>3. Pool!Cardinality(poolSignalled') = Pool!Cardinality(poolSignalled) + 1
      BY <3>1, <3>2, AddElement
    <3>4. /\ Pool!Queued' = Pool!Queued /\ poolNotifies' = poolNotifies - 1 /\ poolNotifies \in Nat
          /\ Len(Pool!Queued) \in Nat
      BY <1>1, QueueLength DEF Pool!NotifyOne, Pool!laneVars, Pool!Queued, Pool!TypeOK
    <3>5. CASE Pool!Asleep \subseteq poolSignalled
      BY <3>1, <3>5
    <3>6. CASE Len(Pool!Queued) <= poolNotifies + Pool!Cardinality(poolSignalled)
      BY <3>2, <3>3, <3>4, <3>6 DEF Pool!NoLostWakeup
    <3> QED BY <1>1, <3>5, <3>6 DEF Pool!NoLostWakeup
  <2> QED BY <2>1, <2>2
<1>6. OnlyPosted'
  BY <1>1 DEF OnlyPosted, Pool!NotifyOne, Pool!laneVars
<1> QED BY <1>3, <1>4, <1>5, <1>6 DEF PoolInv, Pool!WakeupsKept

(* Under the lock, from the top of the loop or from a wait. *)
LEMMA ProceedKeeps ==
  ASSUME Pool!PoolAssumption, PoolInv, NEW w \in Threads, NEW left,
         poolThread[w] \in {"awake", "asleep"},
         left = IF poolThread[w] = "asleep" THEN poolIdle - 1 ELSE poolIdle,
         Pool!Proceed(w, left)
  PROVE  PoolInv'
<1>1. Pool!TypeOK /\ Pool!CountsExact /\ Pool!NoLostWakeup /\ OnlyPosted
  BY DEF PoolInv, Pool!WakeupsKept
<1>2. LaneType /\ OtherType /\ ThreadType
  BY <1>1, TypeParts
<1>3. PICK to \in {"returned", "busy"} :
        poolThread' = [poolThread EXCEPT ![w] = to] /\ (to = "returned" <=> Pool!Leaves)
  BY DEF Pool!Proceed
<1>4. /\ Pool!Asleep' = Pool!Asleep \ {w}
      /\ poolThread' \in [Threads -> {"free", "awake", "asleep", "busy", "returned", "joining"}]
      /\ Pool!Cardinality(Pool!Asleep') = left
      /\ Pool!Cardinality(Pool!Alive') = IF to = "busy" THEN poolLive ELSE poolLive - 1
  BY <1>1, <1>3, OneMoves
<1>5. poolLive' = (IF to = "busy" THEN poolLive ELSE poolLive - 1) /\ poolIdle' = left
  BY <1>3 DEF Pool!Proceed
<1>6. poolSignalled' = poolSignalled \ {w} /\ poolSignalled' \subseteq Pool!Asleep'
  BY <1>2, <1>4 DEF Pool!Proceed, ThreadType
<1>7. Pool!CountsExact'
  BY <1>4, <1>5 DEF Pool!CountsExact
<1>8. OtherType'
  BY <1>2 DEF OtherType, Pool!Proceed
<1>9. poolIdle' \in Int /\ poolLive' \in Int
  BY <1>2, <1>5 DEF ThreadType
<1>10. Pool!IsFiniteSet(poolSignalled) /\ Pool!Cardinality(poolSignalled) \in Nat
  BY <1>1, FewThreads
<1>11. /\ Pool!Cardinality(poolSignalled') \in Nat
       /\ Pool!Cardinality(poolSignalled') >= Pool!Cardinality(poolSignalled) - 1
  <2>1. /\ Pool!IsFiniteSet(poolSignalled \ {w})
        /\ Pool!Cardinality(poolSignalled \ {w}) = IF w \in poolSignalled THEN Pool!Cardinality(poolSignalled) - 1 ELSE Pool!Cardinality(poolSignalled)
    BY <1>10, RemoveElement
  <2>2. Pool!Cardinality(poolSignalled \ {w}) \in Nat
    BY <2>1, CardinalityType
  <2> QED BY <1>6, <1>10, <2>1, <2>2
<1>12. poolNotifies' = poolNotifies /\ poolNotifies \in Nat
  BY <1>2 DEF Pool!Proceed, OtherType
<1>13. CASE Pool!Leaves
  <2>1. UNCHANGED <<Pool!laneVars, poolRunning>>
    BY <1>13 DEF Pool!Proceed
  <2>2. Pool!TypeOK'
    BY <1>2, <1>4, <1>6, <1>8, <1>9, <2>1
    DEF Pool!TypeOK, LaneType, ThreadType, OtherType, Pool!laneVars
  <2>3. Len(Pool!Queued') = 0
    BY <1>13, <2>1 DEF Pool!Leaves, Pool!laneVars, Pool!Queued
  <2>4. Pool!NoLostWakeup'
    BY <1>11, <1>12, <2>3 DEF Pool!NoLostWakeup
  <2>5. \A v \in Threads : poolThread'[v] = "busy" => poolThread[v] = "busy"
    BY <1>2, <1>3, <1>13 DEF ThreadType
  <2>6. OnlyPosted'
    BY <1>1, <2>1, <2>5 DEF OnlyPosted, Pool!laneVars
  <2> QED BY <1>7, <2>2, <2>4, <2>6 DEF PoolInv, Pool!WakeupsKept
<1>14. CASE ~Pool!Leaves
  <2>1. /\ poolRunning' = [poolRunning EXCEPT ![w] = Head(Pool!Queued)]
        /\ IF poolInteractive # <<>>
             THEN poolInteractive' = Tail(poolInteractive) /\ UNCHANGED poolBackground
             ELSE poolBackground' = Tail(poolBackground) /\ UNCHANGED poolInteractive
        /\ UNCHANGED <<poolPosted, poolDone, poolStuck>>
    BY <1>14 DEF Pool!Proceed
  <2>2. poolInteractive # <<>> \/ poolBackground # <<>>
    BY <1>1, <1>14, QueueLength DEF Pool!Leaves
  <2>3. /\ poolInteractive \in Seq(poolPosted) /\ poolBackground \in Seq(poolPosted)
        /\ poolPosted \subseteq Tasks
    BY <1>1, <1>2 DEF OnlyPosted, LaneType
  <2>4. Head(Pool!Queued) \in poolPosted
    BY <1>14, <2>3, ConcatProperties, HeadTailProperties DEF Pool!Leaves, Pool!Queued
  <2>5. LaneType'
    <3>1. /\ poolInteractive # <<>> => Tail(poolInteractive) \in Seq(Tasks \ Background)
          /\ poolBackground # <<>> => Tail(poolBackground) \in Seq(Background)
      BY <1>2, HeadTailProperties DEF LaneType
    <3> QED BY <1>2, <2>1, <2>2, <3>1 DEF LaneType
  <2>6. ThreadType'
    BY <1>2, <1>4, <1>6, <1>9, <2>1, <2>3, <2>4 DEF ThreadType
  <2>7. Pool!TypeOK'
    BY <1>8, <2>5, <2>6 DEF Pool!TypeOK, LaneType, ThreadType, OtherType
  <2>8. Len(Pool!Queued') = Len(Pool!Queued) - 1 /\ Len(Pool!Queued) \in Nat
    <3>1. /\ Len(Pool!Queued) = Len(poolInteractive) + Len(poolBackground)
          /\ Len(poolInteractive) \in Nat /\ Len(poolBackground) \in Nat
      BY <1>1, QueueLength
    <3>3. Len(Pool!Queued') = Len(poolInteractive') + Len(poolBackground')
      <4>1. poolInteractive' \in Seq(poolPosted) /\ poolBackground' \in Seq(poolPosted)
        BY <2>1, <2>2, <2>3, HeadTailProperties
      <4> QED BY <4>1, ConcatProperties DEF Pool!Queued
    <3>2. /\ poolInteractive # <<>> => Len(Tail(poolInteractive)) = Len(poolInteractive) - 1
          /\ poolBackground # <<>> => Len(Tail(poolBackground)) = Len(poolBackground) - 1
      BY <2>3, HeadTailProperties
    <3>4. CASE poolInteractive # <<>>
      <4>1. /\ Len(poolInteractive') = Len(poolInteractive) - 1
            /\ Len(poolBackground') = Len(poolBackground)
        BY <2>1, <3>2, <3>4
      <4> QED BY <3>1, <3>3, <4>1
    <3>5. CASE poolInteractive = <<>>
      <4>1. /\ Len(poolBackground') = Len(poolBackground) - 1
            /\ Len(poolInteractive') = Len(poolInteractive)
        BY <2>1, <2>2, <3>2, <3>5
      <4> QED BY <3>1, <3>3, <4>1
    <3> QED BY <3>4, <3>5
  <2>9. Pool!NoLostWakeup'
    <3>1. CASE Pool!Asleep \subseteq poolSignalled
      BY <1>4, <1>6, <3>1 DEF Pool!NoLostWakeup
    <3>2. CASE Len(Pool!Queued) <= poolNotifies + Pool!Cardinality(poolSignalled)
      BY <1>10, <1>11, <1>12, <2>8, <3>2 DEF Pool!NoLostWakeup
    <3> QED BY <1>1, <3>1, <3>2 DEF Pool!NoLostWakeup
  <2>10. OnlyPosted'
    <3>1. poolInteractive' \in Seq(poolPosted) /\ poolBackground' \in Seq(poolPosted)
      BY <2>1, <2>2, <2>3, HeadTailProperties
    <3>2. \A v \in Threads : poolThread'[v] = "busy" => poolRunning'[v] \in poolPosted
      BY <1>1, <1>2, <1>3, <2>1, <2>4 DEF OnlyPosted, ThreadType
    <3> QED BY <2>1, <3>1, <3>2 DEF OnlyPosted
  <2> QED BY <1>7, <2>7, <2>9, <2>10 DEF PoolInv, Pool!WakeupsKept
<1> QED BY <1>13, <1>14
(* A thread that goes to sleep, or sleeps on, found nothing queued. *)
LEMMA NoneQueued ==
  ASSUME Pool!PoolAssumption, Pool!TypeOK, ~Pool!Ready, UNCHANGED <<Pool!laneVars, poolNotifies>>,
         Pool!IsFiniteSet(poolSignalled')
  PROVE  Pool!NoLostWakeup'
<1>1. Len(Pool!Queued') = 0
  BY DEF Pool!Ready, Pool!Queued, Pool!laneVars
<1>2. Pool!Cardinality(poolSignalled') \in Nat /\ poolNotifies' \in Nat
  BY CardinalityType DEF Pool!TypeOK
<1> QED BY <1>1, <1>2 DEF Pool!NoLostWakeup

LEMMA FewSignalled ==
  ASSUME Pool!PoolAssumption, Pool!TypeOK, NEW S, S \subseteq Pool!Asleep PROVE Pool!IsFiniteSet(S)
  BY FewThreads, Subset

LEMMA SleepKeeps ==
  ASSUME Pool!PoolAssumption, PoolInv, NEW w \in Threads, Pool!LoopTop(w) PROVE PoolInv'
<1>1. Pool!TypeOK /\ Pool!CountsExact /\ Pool!NoLostWakeup /\ OnlyPosted
  BY DEF PoolInv, Pool!WakeupsKept
<1>2. CASE Pool!Proceed(w, poolIdle)
  <2>1. poolThread[w] \in {"awake", "asleep"} /\ poolIdle = IF poolThread[w] = "asleep" THEN poolIdle - 1 ELSE poolIdle
    BY DEF Pool!LoopTop
  <2> QED BY <1>2, <2>1, ProceedKeeps
<1>3. CASE ~Pool!Proceed(w, poolIdle)
  <2>1. /\ ~Pool!Ready /\ poolThread' = [poolThread EXCEPT ![w] = "asleep"]
        /\ poolIdle' = poolIdle + 1
        /\ poolThread[w] = "awake"
        /\ UNCHANGED <<Pool!laneVars, poolRunning, poolSignalled, poolLive, poolNotifies,
                       poolOverdue, poolSupervisor, poolStop>>
    BY <1>3 DEF Pool!LoopTop
  <2>2. /\ Pool!Asleep' = Pool!Asleep \cup {w}
        /\ poolThread' \in [Threads -> {"free", "awake", "asleep", "busy", "returned", "joining"}]
        /\ Pool!Cardinality(Pool!Asleep') = poolIdle + 1 /\ Pool!Cardinality(Pool!Alive') = poolLive
    BY <1>1, <2>1, OneMoves
  <2>3. Pool!TypeOK'
    BY <1>1, <2>1, <2>2 DEF Pool!TypeOK, Pool!laneVars
  <2>4. Pool!CountsExact'
    BY <2>1, <2>2 DEF Pool!CountsExact
  <2>5. Pool!NoLostWakeup'
    BY <1>1, <2>1, FewThreads, NoneQueued
  <2>6. OnlyPosted'
    BY <1>1, <2>1 DEF OnlyPosted, Pool!laneVars, Pool!TypeOK
  <2> QED BY <2>3, <2>4, <2>5, <2>6 DEF PoolInv, Pool!WakeupsKept
<1> QED BY <1>2, <1>3

LEMMA WakeKeeps ==
  ASSUME Pool!PoolAssumption, PoolInv, NEW w \in Threads, Pool!Wake(w) PROVE PoolInv'
<1>1. Pool!TypeOK /\ Pool!CountsExact /\ Pool!NoLostWakeup /\ OnlyPosted
  BY DEF PoolInv, Pool!WakeupsKept
<1>2. CASE Pool!Proceed(w, poolIdle - 1)
  BY <1>2, ProceedKeeps DEF Pool!Wake
<1>3. CASE ~Pool!Proceed(w, poolIdle - 1)
  <2>1. /\ ~Pool!Ready /\ poolSignalled' = poolSignalled \ {w}
        /\ UNCHANGED <<Pool!laneVars, poolThread, poolRunning, poolIdle, poolLive, poolNotifies,
                       poolOverdue, poolSupervisor, poolStop>>
    BY <1>3 DEF Pool!Wake
  <2>2. Pool!Asleep' = Pool!Asleep /\ Pool!Alive' = Pool!Alive
    BY <2>1 DEF Pool!Asleep, Pool!Alive
  <2>3. Pool!TypeOK'
    BY <1>1, <2>1, <2>2 DEF Pool!TypeOK, Pool!laneVars
  <2>4. Pool!CountsExact'
    BY <1>1, <2>1, <2>2 DEF Pool!CountsExact
  <2>5. poolSignalled' \subseteq Pool!Asleep
    BY <1>1, <2>1 DEF Pool!TypeOK
  <2>6. Pool!IsFiniteSet(poolSignalled')
    BY <1>1, <2>5, FewSignalled
  <2>7. Pool!NoLostWakeup'
    BY <1>1, <2>1, <2>6, NoneQueued
  <2>8. OnlyPosted'
    BY <1>1, <2>1 DEF OnlyPosted, Pool!laneVars
  <2> QED BY <2>3, <2>4, <2>7, <2>8 DEF PoolInv, Pool!WakeupsKept
<1> QED BY <1>2, <1>3

(* A wait that times out: a thread that retires found nothing queued, so a notify it was
   picked by was of a task some other thread has run. *)
LEMMA TimeOutKeeps ==
  ASSUME Pool!PoolAssumption, PoolInv, NEW w \in Threads, Pool!TimeOut(w) PROVE PoolInv'
<1>1. Pool!TypeOK /\ Pool!CountsExact /\ Pool!NoLostWakeup /\ OnlyPosted
  BY DEF PoolInv, Pool!WakeupsKept
<1>2. CASE Pool!Proceed(w, poolIdle - 1)
  BY <1>2, ProceedKeeps DEF Pool!TimeOut
<1>3. CASE ~Pool!Proceed(w, poolIdle - 1)
  <2>1. /\ ~Pool!Ready /\ poolThread' = [poolThread EXCEPT ![w] = "returned"]
        /\ poolIdle' = poolIdle - 1
        /\ poolThread[w] = "asleep" /\ poolLive' = poolLive - 1
        /\ poolSignalled' = poolSignalled \ {w}
        /\ UNCHANGED <<Pool!laneVars, poolRunning, poolNotifies, poolOverdue, poolSupervisor,
                       poolStop>>
    BY <1>3 DEF Pool!TimeOut, Pool!MayRetire, Pool!LiveLeft
  <2>2. /\ Pool!Asleep' = Pool!Asleep \ {w}
        /\ poolThread' \in [Threads -> {"free", "awake", "asleep", "busy", "returned", "joining"}]
        /\ Pool!Cardinality(Pool!Asleep') = poolIdle - 1
        /\ Pool!Cardinality(Pool!Alive') = poolLive - 1
    BY <1>1, <2>1, OneMoves
  <2>3. poolSignalled' \subseteq Pool!Asleep' /\ poolSignalled' \subseteq Pool!Asleep
    BY <1>1, <2>1, <2>2 DEF Pool!TypeOK
  <2>4. Pool!TypeOK'
    <3>1. poolIdle' \in Int /\ poolLive' \in Int
      BY <1>1, <2>1 DEF Pool!TypeOK
    <3> QED BY <1>1, <2>1, <2>2, <2>3, <3>1 DEF Pool!TypeOK, Pool!laneVars
  <2>5. Pool!CountsExact'
    BY <2>1, <2>2 DEF Pool!CountsExact
  <2>6. Pool!IsFiniteSet(poolSignalled')
    BY <1>1, <2>3, FewSignalled
  <2>7. Pool!NoLostWakeup'
    BY <1>1, <2>1, <2>6, NoneQueued
  <2>8. OnlyPosted'
    BY <1>1, <2>1 DEF OnlyPosted, Pool!laneVars, Pool!TypeOK
  <2> QED BY <2>4, <2>5, <2>7, <2>8 DEF PoolInv, Pool!WakeupsKept
<1> QED BY <1>2, <1>3

(* A step that moves no thread into or out of sleep or life and leaves the lanes alone. *)
LEMMA NobodyMoves ==
  ASSUME PoolInv, Pool!Asleep' = Pool!Asleep, Pool!Alive' = Pool!Alive,
         poolThread' \in [Threads -> {"free", "awake", "asleep", "busy", "returned", "joining"}],
         \A w \in Threads : poolThread'[w] = "busy" => poolThread[w] = "busy",
         UNCHANGED <<Pool!laneVars, poolRunning, poolSignalled, poolIdle, poolLive, poolNotifies>>,
         OtherType'
  PROVE  PoolInv'
<1>1. Pool!TypeOK /\ Pool!CountsExact /\ Pool!NoLostWakeup /\ OnlyPosted
  BY DEF PoolInv, Pool!WakeupsKept
<1>2. Pool!TypeOK'
  BY <1>1 DEF Pool!TypeOK, OtherType, Pool!laneVars
<1>3. Pool!CountsExact'
  BY <1>1 DEF Pool!CountsExact
<1>4. Pool!NoLostWakeup'
  BY <1>1 DEF Pool!NoLostWakeup, Pool!Queued, Pool!laneVars
<1>5. OnlyPosted'
  BY <1>1 DEF OnlyPosted, Pool!laneVars
<1> QED BY <1>2, <1>3, <1>4, <1>5 DEF PoolInv, Pool!WakeupsKept

LEMMA FinishKeeps ==
  ASSUME Pool!PoolAssumption, PoolInv, NEW w \in Threads, Pool!Finish(w) PROVE PoolInv'
<1>1. Pool!TypeOK /\ Pool!CountsExact /\ Pool!NoLostWakeup /\ OnlyPosted
  BY DEF PoolInv, Pool!WakeupsKept
<1>2. /\ poolThread[w] = "busy" /\ poolThread' = [poolThread EXCEPT ![w] = "awake"]
      /\ poolRunning' = [poolRunning EXCEPT ![w] = Pool!NoTask]
      /\ poolDone' = poolDone \cup {poolRunning[w]}
      /\ UNCHANGED <<poolPosted, poolInteractive, poolBackground, poolStuck, poolSignalled, poolIdle, poolLive, poolNotifies, poolOverdue,
                     poolSupervisor, poolStop>>
  BY DEF Pool!Finish
<1>3. /\ Pool!Asleep' = Pool!Asleep \ {w} /\ w \notin Pool!Asleep
      /\ poolThread' \in [Threads -> {"free", "awake", "asleep", "busy", "returned", "joining"}]
      /\ Pool!Cardinality(Pool!Asleep') = poolIdle /\ Pool!Cardinality(Pool!Alive') = poolLive
  <2>1. w \notin Pool!Asleep
    BY <1>2 DEF Pool!Asleep
  <2> QED BY <1>1, <1>2, <2>1, OneMoves
<1>4. Pool!Asleep' = Pool!Asleep
  BY <1>3
<1>5. Pool!TypeOK'
  <2>1. poolDone' \subseteq poolPosted'
    BY <1>1, <1>2 DEF Pool!TypeOK, OnlyPosted
  <2>2. poolRunning' \in [Threads -> Tasks \cup {Pool!NoTask}]
    BY <1>1, <1>2 DEF Pool!TypeOK
  <2> QED BY <1>1, <1>2, <1>3, <1>4, <2>1, <2>2 DEF Pool!TypeOK
<1>6. Pool!CountsExact'
  BY <1>2, <1>3 DEF Pool!CountsExact
<1>7. Pool!NoLostWakeup'
  BY <1>1, <1>2, <1>4 DEF Pool!NoLostWakeup, Pool!Queued
<1>8. OnlyPosted'
  BY <1>1, <1>2 DEF OnlyPosted, Pool!TypeOK
<1> QED BY <1>5, <1>6, <1>7, <1>8 DEF PoolInv, Pool!WakeupsKept

(* The supervisor adds a thread, or not. *)
LEMMA AddKeeps ==
  ASSUME Pool!PoolAssumption, PoolInv, Pool!AddIfStarved PROVE PoolInv'
<1>1. Pool!TypeOK /\ Pool!CountsExact /\ Pool!NoLostWakeup /\ OnlyPosted
  BY DEF PoolInv, Pool!WakeupsKept
<1>2. OtherType'
  <2>1. poolOverdue' \in BOOLEAN
    BY <1>1, Zenon DEF Pool!AddIfStarved, Pool!TypeOK
  <2> QED BY <1>1, <2>1 DEF Pool!AddIfStarved, Pool!TypeOK, OtherType
<1>3. CASE UNCHANGED <<poolThread, poolLive>>
  <2>1. Pool!Asleep' = Pool!Asleep /\ Pool!Alive' = Pool!Alive
    BY <1>3 DEF Pool!Asleep, Pool!Alive
  <2>2. /\ poolThread' \in [Threads -> {"free", "awake", "asleep", "busy", "returned", "joining"}]
        /\ \A w \in Threads : poolThread'[w] = "busy" => poolThread[w] = "busy"
    BY <1>1, <1>3 DEF Pool!TypeOK
  <2>3. UNCHANGED <<Pool!laneVars, poolRunning, poolSignalled, poolIdle, poolLive, poolNotifies>>
    BY <1>3 DEF Pool!AddIfStarved
  <2> QED BY <1>2, <2>1, <2>2, <2>3, NobodyMoves
<1>4. ASSUME NEW w \in Threads, poolThread[w] = "free",
             poolThread' = [poolThread EXCEPT ![w] = "awake"], poolLive' = poolLive + 1
      PROVE  PoolInv'
  <2>1. UNCHANGED <<Pool!laneVars, poolRunning, poolSignalled, poolIdle, poolNotifies>>
    BY DEF Pool!AddIfStarved
  <2>2. w \notin Pool!Asleep
    BY <1>4 DEF Pool!Asleep
  <2>3. /\ Pool!Asleep' = Pool!Asleep
        /\ poolThread' \in [Threads -> {"free", "awake", "asleep", "busy", "returned", "joining"}]
        /\ Pool!Cardinality(Pool!Asleep') = poolIdle /\ Pool!Cardinality(Pool!Alive') = poolLive + 1
    <3>1. /\ Pool!Asleep' = Pool!Asleep \ {w}
          /\ poolThread' \in [Threads -> {"free", "awake", "asleep", "busy", "returned", "joining"}]
          /\ Pool!Cardinality(Pool!Asleep') = (IF poolThread[w] = "asleep" THEN poolIdle - 1 ELSE poolIdle)
          /\ Pool!Cardinality(Pool!Alive') = (IF poolThread[w] \in {"awake", "asleep", "busy"} THEN poolLive ELSE poolLive + 1)
      BY <1>1, <1>4, OneMoves
    <3> QED BY <1>4, <2>2, <3>1
  <2>4. Pool!TypeOK'
    <3>1. poolLive' \in Int
      BY <1>1, <1>4 DEF Pool!TypeOK
    <3> QED BY <1>1, <1>2, <2>1, <2>3, <3>1 DEF Pool!TypeOK, OtherType, Pool!laneVars
  <2>5. Pool!CountsExact'
    BY <1>4, <2>1, <2>3 DEF Pool!CountsExact
  <2>6. Pool!NoLostWakeup'
    BY <1>1, <2>1, <2>3 DEF Pool!NoLostWakeup, Pool!Queued, Pool!laneVars
  <2>7. OnlyPosted'
    BY <1>1, <1>4, <2>1 DEF OnlyPosted, Pool!laneVars, Pool!TypeOK
  <2> QED BY <2>4, <2>5, <2>6, <2>7 DEF PoolInv, Pool!WakeupsKept
<1> QED BY <1>3, <1>4 DEF Pool!AddIfStarved

LEMMA SuperviseKeeps ==
  ASSUME Pool!PoolAssumption, PoolInv, Pool!Supervise PROVE PoolInv'
<1>1. Pool!TypeOK
  BY DEF PoolInv, Pool!WakeupsKept
<1>2. CASE Pool!AddIfStarved
  BY <1>2, AddKeeps
<1>3. CASE Pool!SupervisorEnds
  <2>1. Pool!Asleep' = Pool!Asleep /\ Pool!Alive' = Pool!Alive
    BY <1>3 DEF Pool!SupervisorEnds, Pool!threadVars, Pool!Asleep, Pool!Alive
  <2>2. /\ poolThread' \in [Threads -> {"free", "awake", "asleep", "busy", "returned", "joining"}]
        /\ \A w \in Threads : poolThread'[w] = "busy" => poolThread[w] = "busy"
        /\ UNCHANGED <<Pool!laneVars, poolRunning, poolSignalled, poolIdle, poolLive, poolNotifies>>
        /\ OtherType'
    BY <1>1, <1>3 DEF Pool!SupervisorEnds, Pool!threadVars, Pool!TypeOK, OtherType
  <2> QED BY <2>1, <2>2, NobodyMoves
<1>4. ASSUME poolSupervisor' \in {"joining", "joined"},
             UNCHANGED <<Pool!laneVars, poolRunning, poolSignalled, poolIdle, poolLive,
                         poolNotifies, poolOverdue, poolStop>>,
             NEW from \in {"returned", "joining"}, NEW to \in {"joining", "free"},
             poolThread' = [w \in Threads |-> IF poolThread[w] = from THEN to ELSE poolThread[w]]
      PROVE  PoolInv'
  <2>1. poolThread \in [Threads -> {"free", "awake", "asleep", "busy", "returned", "joining"}]
    BY <1>1 DEF Pool!TypeOK
  <2>2. Pool!Asleep' = Pool!Asleep /\ Pool!Alive' = Pool!Alive
    BY <1>4, <2>1 DEF Pool!Asleep, Pool!Alive
  <2>3. /\ poolThread' \in [Threads -> {"free", "awake", "asleep", "busy", "returned", "joining"}]
        /\ \A w \in Threads : poolThread'[w] = "busy" => poolThread[w] = "busy"
    BY <1>4, <2>1
  <2>4. OtherType'
    BY <1>1, <1>4 DEF OtherType, Pool!TypeOK
  <2> QED BY <1>4, <2>2, <2>3, <2>4, NobodyMoves
<1>5. CASE Pool!SupervisorWakes /\ poolSupervisor' = "joining"
  <2>1. CASE Pool!SupervisorEnds \/ Pool!AddIfStarved
    BY <1>2, <1>3, <2>1
  <2>2. CASE ~(Pool!SupervisorEnds \/ Pool!AddIfStarved)
    <3>1. /\ poolThread' = [w \in Threads |-> IF w \in Pool!Finished THEN "joining" ELSE poolThread[w]]
          /\ UNCHANGED <<Pool!laneVars, poolRunning, poolSignalled, poolIdle, poolLive,
                         poolNotifies, poolOverdue, poolStop>>
      BY <1>5, <2>2 DEF Pool!SupervisorWakes
    <3>2. poolThread' = [w \in Threads |-> IF poolThread[w] = "returned" THEN "joining" ELSE poolThread[w]]
      BY <3>1 DEF Pool!Finished
    <3> QED BY <1>4, <1>5, <3>1, <3>2
  <2> QED BY <2>1, <2>2
<1>6. CASE Pool!SupervisorJoins
  BY <1>4, <1>6 DEF Pool!SupervisorJoins
<1> QED BY <1>2, <1>3, <1>5, <1>6 DEF Pool!Supervise, Pool!SupervisorWakes, Pool!SupervisorResumes

LEMMA ShutdownKeeps ==
  ASSUME Pool!PoolAssumption, PoolInv,
         Pool!BeginShutdown \/ Pool!NotifyAll \/ Pool!JoinAll PROVE PoolInv'
<1>1. Pool!TypeOK /\ Pool!CountsExact /\ Pool!NoLostWakeup /\ OnlyPosted
  BY DEF PoolInv, Pool!WakeupsKept
<1>2. CASE Pool!BeginShutdown
  <2>1. Pool!Asleep' = Pool!Asleep /\ Pool!Alive' = Pool!Alive
    BY <1>2 DEF Pool!BeginShutdown, Pool!threadVars, Pool!Asleep, Pool!Alive
  <2>2. /\ poolThread' \in [Threads -> {"free", "awake", "asleep", "busy", "returned", "joining"}]
        /\ \A w \in Threads : poolThread'[w] = "busy" => poolThread[w] = "busy"
        /\ UNCHANGED <<Pool!laneVars, poolRunning, poolSignalled, poolIdle, poolLive, poolNotifies>>
        /\ OtherType'
    BY <1>1, <1>2 DEF Pool!BeginShutdown, Pool!threadVars, Pool!TypeOK, OtherType
  <2> QED BY <2>1, <2>2, NobodyMoves
<1>3. CASE Pool!NotifyAll
  <2>1. /\ poolStop' = "notified" /\ poolSignalled' = Pool!Asleep
        /\ UNCHANGED <<Pool!laneVars, poolThread, poolRunning, poolIdle, poolLive, poolNotifies,
                       poolOverdue, poolSupervisor>>
    BY <1>3 DEF Pool!NotifyAll, Pool!Woken
  <2>2. Pool!Asleep' = Pool!Asleep /\ Pool!Alive' = Pool!Alive
    BY <2>1 DEF Pool!Asleep, Pool!Alive
  <2>3. Pool!TypeOK'
    BY <1>1, <2>1, <2>2 DEF Pool!TypeOK, Pool!laneVars
  <2>4. Pool!CountsExact'
    BY <1>1, <2>1, <2>2 DEF Pool!CountsExact
  <2>5. Pool!NoLostWakeup'
    BY <2>1, <2>2 DEF Pool!NoLostWakeup
  <2>6. OnlyPosted'
    BY <1>1, <2>1 DEF OnlyPosted, Pool!laneVars
  <2> QED BY <2>3, <2>4, <2>5, <2>6 DEF PoolInv, Pool!WakeupsKept
<1>4. CASE Pool!JoinAll
  <2>1. /\ poolStop' = "joined"
        /\ poolThread' = [w \in Threads |-> IF poolThread[w] = "returned" THEN "free" ELSE poolThread[w]]
        /\ UNCHANGED <<Pool!laneVars, poolRunning, poolSignalled, poolIdle, poolLive, poolNotifies,
                       poolOverdue, poolSupervisor>>
    BY <1>4 DEF Pool!JoinAll
  <2>2. poolThread \in [Threads -> {"free", "awake", "asleep", "busy", "returned", "joining"}]
    BY <1>1 DEF Pool!TypeOK
  <2>3. Pool!Asleep' = Pool!Asleep /\ Pool!Alive' = Pool!Alive
    BY <2>1, <2>2 DEF Pool!Asleep, Pool!Alive
  <2>4. /\ poolThread' \in [Threads -> {"free", "awake", "asleep", "busy", "returned", "joining"}]
        /\ \A w \in Threads : poolThread'[w] = "busy" => poolThread[w] = "busy"
    BY <2>1, <2>2
  <2>5. OtherType'
    BY <1>1, <2>1 DEF OtherType, Pool!TypeOK
  <2> QED BY <2>1, <2>3, <2>4, <2>5, NobodyMoves
<1> QED BY <1>2, <1>3, <1>4

LEMMA StepPool == ASSUME Pool!PoolAssumption, PoolInv, [Pool!Next]_(Pool!vars) PROVE PoolInv'
<1>1. Pool!TypeOK
  BY DEF PoolInv, Pool!WakeupsKept
<1>2. CASE Pool!Overdue
  <2>1. Pool!Asleep' = Pool!Asleep /\ Pool!Alive' = Pool!Alive
    BY <1>2 DEF Pool!Overdue, Pool!threadVars, Pool!Asleep, Pool!Alive
  <2>2. OtherType'
    <3>1. poolOverdue' \in BOOLEAN
      BY <1>2, Zenon DEF Pool!Overdue
    <3> QED BY <1>1, <1>2, <3>1 DEF Pool!Overdue, OtherType, Pool!TypeOK
  <2>3. /\ poolThread' \in [Threads -> {"free", "awake", "asleep", "busy", "returned", "joining"}]
        /\ \A w \in Threads : poolThread'[w] = "busy" => poolThread[w] = "busy"
        /\ UNCHANGED <<Pool!laneVars, poolRunning, poolSignalled, poolIdle, poolLive, poolNotifies>>
    BY <1>1, <1>2 DEF Pool!Overdue, Pool!threadVars, Pool!TypeOK
  <2> QED BY <2>1, <2>2, <2>3, NobodyMoves
<1>3. CASE UNCHANGED Pool!vars
  <2>1. Pool!Asleep' = Pool!Asleep /\ Pool!Alive' = Pool!Alive
    BY <1>3 DEF Pool!vars, Pool!threadVars, Pool!Asleep, Pool!Alive
  <2>2. /\ poolThread' \in [Threads -> {"free", "awake", "asleep", "busy", "returned", "joining"}]
        /\ \A w \in Threads : poolThread'[w] = "busy" => poolThread[w] = "busy"
        /\ UNCHANGED <<Pool!laneVars, poolRunning, poolSignalled, poolIdle, poolLive, poolNotifies>>
        /\ OtherType'
    BY <1>1, <1>3 DEF Pool!vars, Pool!threadVars, Pool!TypeOK, OtherType
  <2> QED BY <2>1, <2>2, NobodyMoves
<1>4. CASE Pool!AtRest
  BY <1>3, <1>4 DEF Pool!AtRest
<1> QED
  BY <1>2, <1>3, <1>4, PostKeeps, NotifyKeeps, SleepKeeps, WakeKeeps, FinishKeeps, TimeOutKeeps,
     SuperviseKeeps, ShutdownKeeps DEF Pool!Next, Pool!ThreadStep, Pool!Shutdown

(* WakeupsKept: idle_ and live_ count the threads, and a queued task never waits beside a
   thread that sleeps with no wakeup coming to it, however posts, notifies, timeouts,
   the supervisor and a shutdown interleave (task_pool.cpp, post, workerLoop,
   supervisorLoop, shutdown): by itself, and beside the requests as a run checks it. *)
THEOREM NoWakeupLost ==
  ASSUME Pool!PoolAssumption
  PROVE  (Pool!Spec => []WakeupsKept) /\ (AllSpec => []WakeupsKept)
<1>1. Pool!Init => PoolInv
  BY InitPool
<1>2. PoolInv /\ [Pool!Next]_(Pool!vars) => PoolInv'
  BY StepPool
<1>3. PoolInv => WakeupsKept
  BY DEF PoolInv, WakeupsKept
<1>4. Begins => PoolInv
  BY <1>1 DEF Begins, PoolAway
<1>5. [Step]_AllVars => [Pool!Next]_(Pool!vars)
  <2>1. CASE Step
    <3>1. CASE Others("requests")
      BY <3>1 DEF Others, PoolVars, Pool!vars, Pool!laneVars, Pool!threadVars
    <3> QED  BY <2>1, <3>1 DEF Step
  <2>2. CASE UNCHANGED AllVars
    BY <2>2 DEF AllVars, PoolVars, Pool!vars, Pool!laneVars, Pool!threadVars
  <2> QED  BY <2>1, <2>2
<1>6. Pool!Spec => []WakeupsKept
  BY <1>1, <1>2, <1>3, PTL DEF Pool!Spec
<1>7. AllSpec => []WakeupsKept
  BY <1>2, <1>3, <1>4, <1>5, PTL DEF AllSpec
<1> QED  BY <1>6, <1>7
=============================================================================
