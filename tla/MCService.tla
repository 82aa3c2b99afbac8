----------------------------- MODULE MCService ------------------------------
(* The request lifecycle, and the pool whose threads it runs on, side by side *)
(* for TLC: a run chooses one, and the other stays as it began.               *)
EXTENDS Dispatcher, TLC

CONSTANTS r1, r2, r3, r4, r5, r6, n1, n2, c1, w1, w2, lane

TwoWorkers == {w1, w2}

\* r1 and r2 are mutations of one repository, r3 is a blame, r4 a search, r5 has
\* no known method, and r6 is a mutation that ends only when it is cancelled.
Ids12 == [m \in Requests \cup Cancels |-> IF m = r2 THEN 2 ELSE 1]
Modes1 == [r \in Requests |->
  CASE r \in {r1, r2, r6} -> "serial" [] r = r3 -> "after" [] r = r4 -> "concurrent" [] OTHER -> "unknown"]
Lanes1 == [r \in Requests |-> lane]
Priorities1 == [r \in Requests |-> IF r = r4 THEN "background" ELSE "interactive"]

CONSTANTS Tasks, Background, Hanging, Threads, Core

\* A blame and a search of one id and a cancel for it; mutations of which one is
\* endless.
ReuseEndless == {{r3, r4, c1}, {r2, r6, c1}}

\* Every task ends, or one does not.
OneMayHang == {{}, {"a"}}

VARIABLES
  subject,      \* the component at work: the others are away
  poolStuck, poolPosted, poolInteractive, poolBackground, poolThread, poolRunning,
  poolSignalled, poolNotifies, poolIdle, poolLive, poolOverdue, poolSupervisor, poolStop,
  poolDone

Pool == INSTANCE TaskPool WITH
  stuck <- poolStuck, posted <- poolPosted, interactive <- poolInteractive,
  background <- poolBackground, thread <- poolThread, running <- poolRunning,
  signalled <- poolSignalled, notifies <- poolNotifies, idle <- poolIdle, live <- poolLive,
  overdue <- poolOverdue, supervisor <- poolSupervisor, stop <- poolStop, done <- poolDone

PoolVars == <<poolStuck, poolPosted, poolInteractive, poolBackground, poolThread, poolRunning,
  poolSignalled, poolNotifies, poolIdle, poolLive, poolOverdue, poolSupervisor, poolStop,
  poolDone>>

PoolAway == Pool!Init /\ poolStuck = {}
RequestsAway == Init

Begins ==
  \/ subject = "requests" /\ Init /\ PoolAway
  \/ subject = "pool" /\ Pool!Init /\ RequestsAway

Others(here) ==
  /\ UNCHANGED subject
  /\ IF here = "requests" THEN TRUE ELSE UNCHANGED vars
  /\ IF here = "pool" THEN TRUE ELSE UNCHANGED PoolVars

Step ==
  \/ subject = "requests" /\ Next /\ Others("requests")
  \/ subject = "pool" /\ Pool!Next /\ Others("pool")

\* Dispatcher!Fairness and the fairness of TaskPool!Spec, of the one at work.
AllFairness ==
  /\ \A w \in Workers : WF_vars(subject = "requests" /\ WorkerStep(w))
  /\ WF_vars(subject = "requests" /\ RouteHeld) /\ WF_vars(subject = "requests" /\ Stop)
  /\ \A w \in Threads : WF_PoolVars(subject = "pool" /\ Pool!ThreadStep(w))
  /\ WF_PoolVars(subject = "pool" /\ Pool!NotifyOne) /\ WF_PoolVars(subject = "pool" /\ Pool!Overdue)
  /\ WF_PoolVars(subject = "pool" /\ Pool!Supervise) /\ WF_PoolVars(subject = "pool" /\ Pool!Shutdown)

AllVars == <<subject, vars, PoolVars>>

AllSpec == Begins /\ [][Step]_AllVars /\ AllFairness

-----------------------------------------------------------------------------
ASSUME PoolAssumed == Pool!PoolAssumption

\* No wakeup of the pool is lost, and its counts are exact (task_pool.cpp).
WakeupsKept == Pool!WakeupsKept

\* Every task the pool takes gets run, and a shutdown returns (task_pool.cpp).
PoolDrains == Pool!PoolDrains
=============================================================================
