------------------------------- MODULE Askpass --------------------------------
(***************************************************************************)
(* Credential prompts: git processes with a deadline                         *)
(* (src/engine/src/exec/git_process_posix.cpp), the broker that serves the    *)
(* prompts they raise (exec/askpass.cpp), and the channel through which it    *)
(* asks the client (rpc/client_channel.h), with the server's way down         *)
(* (server.cpp).                                                             *)
(*                                                                          *)
(* A worker thread of the broker serves each prompt; one thread reads each    *)
(* git.  They share the git's AskpassPromptStats, atomics read and written    *)
(* one at a time, so every access is a step.  Time is a clock of coarse       *)
(* ticks; a thread polls far more often than it ticks.                        *)
(***************************************************************************)
EXTENDS Integers, FiniteSets

CONSTANTS
  Gits,          \* git invocations running when the model starts
  Prompts,       \* prompts they may raise
  GitOf,         \* the git that raises a prompt
  Settings       \* the engines it is checked for, see SettingType

(* SpawnOpts::timeout and kAskpassPromptTimeout; the prompts raised, whether
   requests are cancelled and the server stops, and a bound on the clock. *)
SettingType == [timeout : Nat, promptTimeout : Nat, prompts : SUBSET Prompts,
                mayStop : BOOLEAN, maxTime : Nat]

ASSUME AskpassAssumption ==
  /\ IsFiniteSet(Prompts) /\ GitOf \in [Prompts -> Gits] /\ Settings \subseteq SettingType

VARIABLES
  setting,     \* of Settings
  now,
  child,       \* whether a git still runs
  reader,      \* where the thread reading it is
  sampled,     \* the time expired() read
  timedOut,    \* timedOut_
  cancelled,   \* its request's token has fired
  closed,      \* AskpassSessionState::closed
  open,        \* AskpassPromptStats::open
  millis,      \* AskpassPromptStats::millis
  worker,      \* where the thread serving a prompt is; it ends with the shim
               \* "answered" or "refused"
  started,     \* when it started
  slot,        \* ClientChannel's answer to a call: "none", or what the client said
  client,      \* the client's side: "unasked", "asked", "replied"
  withdrawn,   \* prompts the client was sent ui/askpassCancelled for
  stop,        \* how far the server's stop has come
  idleTime     \* history: ticks with no prompt of a git open, up to Timeout

gitVars == <<child, reader, sampled, timedOut, closed>>
statVars == <<open, millis>>
workerVars == <<worker, started>>
clientVars == <<slot, client, withdrawn>>
vars == <<now, gitVars, cancelled, statVars, workerVars, clientVars, stop, idleTime, setting>>

Replies == {"value", "dismissed"}
channelClosed == stop # "open"
stopping == stop \in {"stopping", "cancelled", "down"}
InHandler(p) == worker[p] \in {"calling", "waiting", "gone", "adding"}
Asking(g) == {p \in Prompts : GitOf[p] = g /\ InHandler(p)}

Init ==
  /\ setting \in Settings
  /\ now = 0 /\ stop = "open"
  /\ child = [g \in Gits |-> TRUE] /\ reader = [g \in Gits |-> "polling"]
  /\ sampled = [g \in Gits |-> 0] /\ timedOut = [g \in Gits |-> FALSE]
  /\ cancelled = [g \in Gits |-> FALSE] /\ closed = [g \in Gits |-> FALSE]
  /\ open = [g \in Gits |-> 0] /\ millis = [g \in Gits |-> 0]
  /\ idleTime = [g \in Gits |-> 0]
  /\ worker = [p \in Prompts |-> "idle"] /\ started = [p \in Prompts |-> 0]
  /\ slot = [p \in Prompts |-> "none"]
  /\ client = [p \in Prompts |-> "unasked"] /\ withdrawn = {}

-----------------------------------------------------------------------------
(* GitProcess *)

Stopped(g) ==
  /\ child' = [child EXCEPT ![g] = FALSE]
  /\ reader' = [reader EXCEPT ![g] = "stopped"]

(* The deadline has not passed: only now is the child's exit looked at. *)
NotExpired(g) ==
  /\ reader' = [reader EXCEPT ![g] = IF child[g] THEN "polling" ELSE "stopped"]
  /\ sampled' = [sampled EXCEPT ![g] = 0]
  /\ UNCHANGED <<child, timedOut>>

(* fillBuffer and wait: the token first, then expired(), then the child. *)
ReaderPolls(g) ==
  /\ reader[g] = "polling"
  /\ \/ cancelled[g] /\ Stopped(g) /\ UNCHANGED <<sampled, timedOut>>
     \/ ~cancelled[g] /\ now < setting.timeout /\ ~child[g] /\ NotExpired(g)
     \/ /\ ~cancelled[g] /\ now >= setting.timeout
        /\ sampled' = [sampled EXCEPT ![g] = now]
        /\ reader' = [reader EXCEPT ![g] = "readOpen"]
        /\ UNCHANGED <<child, timedOut>>
  /\ UNCHANGED <<now, closed, cancelled, statVars, workerVars, clientVars, stop, idleTime, setting>>

MutStandsStill(g) == FALSE

(* The deadline never passes while a prompt is open. *)
StandsStill(g) == open[g] > 0

ReaderReadsOpen(g) ==
  /\ reader[g] = "readOpen"
  /\ \/ StandsStill(g) /\ NotExpired(g)
     \/ /\ ~StandsStill(g)
        /\ reader' = [reader EXCEPT ![g] = "readMillis"]
        /\ UNCHANGED <<child, sampled, timedOut>>
  /\ UNCHANGED <<now, closed, cancelled, statVars, workerVars, clientVars, stop, idleTime, setting>>

(* The deadline, moved by the time spent on prompts. *)
Moved(g) == setting.timeout + millis[g]

ReaderReadsMillis(g) ==
  /\ reader[g] = "readMillis"
  /\ \/ sampled[g] < Moved(g) /\ NotExpired(g)
     \/ /\ sampled[g] >= Moved(g) /\ Stopped(g)
        /\ timedOut' = [timedOut EXCEPT ![g] = TRUE]
        /\ UNCHANGED sampled
  /\ UNCHANGED <<now, closed, cancelled, statVars, workerVars, clientVars, stop, idleTime, setting>>

(* The GitProcess is destroyed, and with it its session. *)
SessionCloses(g) ==
  /\ reader[g] = "stopped" /\ ~closed[g]
  /\ closed' = [closed EXCEPT ![g] = TRUE]
  /\ UNCHANGED <<now, child, reader, sampled, timedOut, cancelled, statVars, workerVars,
                 clientVars, stop, idleTime, setting>>

(* git exits on its own; its request is cancelled. *)
ChildExits(g) ==
  /\ child[g] /\ child' = [child EXCEPT ![g] = FALSE]
  /\ UNCHANGED <<now, reader, sampled, timedOut, closed, cancelled, statVars, workerVars,
                 clientVars, stop, idleTime, setting>>

Cancel(g) ==
  /\ setting.mayStop /\ ~cancelled[g] /\ reader[g] # "stopped"
  /\ cancelled' = [cancelled EXCEPT ![g] = TRUE]
  /\ UNCHANGED <<now, gitVars, statVars, workerVars, clientVars, stop, idleTime, setting>>

-----------------------------------------------------------------------------
(* AskpassBroker::Impl::serve, one thread per prompt *)

Overdue(p) == now - started[p] > setting.promptTimeout

(* The shim goes with its git, which peerGone sees. *)
Abandoned(p) == stopping \/ closed[GitOf[p]] \/ ~child[GitOf[p]] \/ Overdue(p)

At(p, here, there) ==
  /\ worker[p] = here
  /\ worker' = [worker EXCEPT ![p] = there]

(* A shim connects; a broker that is stopping accepts nobody. *)
Connect(p) ==
  /\ p \in setting.prompts
  /\ At(p, "idle", "finding") /\ child[GitOf[p]] /\ ~stopping
  /\ now + setting.promptTimeout < setting.maxTime
  /\ UNCHANGED <<now, gitVars, cancelled, statVars, started, clientVars, stop, idleTime, setting>>

(* The session is looked up; the prompt's time starts, then it counts as open. *)
FindSession(p) ==
  /\ \/ /\ closed[GitOf[p]] \/ stopping
        /\ At(p, "finding", "refused") /\ UNCHANGED started
     \/ /\ ~closed[GitOf[p]] /\ ~stopping
        /\ At(p, "finding", "opening")
        /\ started' = [started EXCEPT ![p] = now]
  /\ UNCHANGED <<now, gitVars, cancelled, statVars, clientVars, stop, idleTime, setting>>

Opened(g) == open[g] + 1

OpenPrompt(p) ==
  /\ At(p, "opening", "calling")
  /\ open' = [open EXCEPT ![GitOf[p]] = Opened(GitOf[p])]
  /\ UNCHANGED <<now, gitVars, cancelled, millis, started, clientVars, stop, idleTime, setting>>

(* ClientChannel::call: refused once closed, else registered and sent; a
   client that answers no prompts is not asked. *)
Call(p) ==
  /\ \/ At(p, "calling", "adding") /\ UNCHANGED client
     \/ /\ ~channelClosed /\ At(p, "calling", "waiting")
        /\ client' = [client EXCEPT ![p] = "asked"]
  /\ UNCHANGED <<now, gitVars, cancelled, statVars, started, slot, withdrawn, stop, idleTime, setting>>

(* Under its lock, call() looks for an answer, then for a closed channel. *)
CallEnds(p) ==
  /\ slot[p] # "none" \/ channelClosed
  /\ At(p, "waiting", "adding")
  /\ UNCHANGED <<now, gitVars, cancelled, statVars, started, clientVars, stop, idleTime, setting>>

(* With the lock released, abandoned() is true. *)
CallFindsGone(p) ==
  /\ slot[p] = "none" /\ ~channelClosed /\ Abandoned(p)
  /\ At(p, "waiting", "gone")
  /\ UNCHANGED <<now, gitVars, cancelled, statVars, started, clientVars, stop, idleTime, setting>>

MutTellsClient(p) == {}

TellsClient(p) == {p}

(* Locked again: unless the answer came meanwhile, the client is told. *)
CallWithdraws(p) ==
  /\ IF slot[p] # "none"
       THEN At(p, "gone", "waiting") /\ UNCHANGED withdrawn
       ELSE At(p, "gone", "adding") /\ withdrawn' = withdrawn \cup TellsClient(p)
  /\ UNCHANGED <<now, gitVars, cancelled, statVars, started, slot, client, stop, idleTime, setting>>

(* The time is added before the prompt stops counting as open. *)
AddTime(p) ==
  /\ At(p, "adding", "closing")
  /\ millis' = [millis EXCEPT ![GitOf[p]] = @ + (now - started[p])]
  /\ UNCHANGED <<now, gitVars, cancelled, open, started, clientVars, stop, idleTime, setting>>

ClosePrompt(p) ==
  /\ At(p, "closing", "replying")
  /\ open' = [open EXCEPT ![GitOf[p]] = @ - 1]
  /\ UNCHANGED <<now, gitVars, cancelled, millis, started, clientVars, stop, idleTime, setting>>

(* An answer to a prompt git stopped waiting for is not delivered. *)
Reply(p) ==
  /\ At(p, "replying", IF slot[p] = "value" /\ ~Abandoned(p) THEN "answered" ELSE "refused")
  /\ started' = [started EXCEPT ![p] = 0]
  /\ UNCHANGED <<now, gitVars, cancelled, statVars, clientVars, stop, idleTime, setting>>

-----------------------------------------------------------------------------
(* The client answers, or never does. *)
ClientReplies(p) ==
  /\ client[p] = "asked"
  /\ client' = [client EXCEPT ![p] = "replied"]
  /\ \E a \in Replies : slot' = [slot EXCEPT ![p] = IF worker[p] \in {"waiting", "gone"} THEN a ELSE @]
  /\ UNCHANGED <<now, gitVars, cancelled, statVars, workerVars, withdrawn, stop, idleTime, setting>>

MutStillRunning(g) == FALSE

StillRunning(g) == reader[g] # "stopped"

(* runServer's stop: the channel closes, the broker withdraws its prompts, the
   requests still running are cancelled, and once the pool has no thread left
   the broker joins its own. *)
ServerStops ==
  /\ \/ setting.mayStop /\ stop = "open" /\ stop' = "closed" /\ UNCHANGED cancelled
     \/ stop = "closed" /\ stop' = "stopping" /\ UNCHANGED cancelled
     \/ /\ stop = "stopping" /\ stop' = "cancelled"
        /\ cancelled' = [g \in Gits |-> StillRunning(g) \/ cancelled[g]]
     \/ /\ stop = "cancelled" /\ stop' = "down"
        /\ \A g \in Gits : closed[g]
        /\ \A p \in Prompts : worker[p] \in {"idle", "answered", "refused"}
        /\ UNCHANGED cancelled
  /\ UNCHANGED <<now, gitVars, statVars, workerVars, clientVars, idleTime, setting>>

(* Threads poll within a tick: none ends while one has something to do that a
   thread would notice, except to wait for the client. *)
Busy(p) == worker[p] \notin {"idle", "waiting", "answered", "refused"} \/ (worker[p] = "waiting" /\ Abandoned(p))

Tick ==
  /\ now < setting.maxTime
  /\ \A p \in Prompts : ~Busy(p)
  /\ now' = now + 1
  /\ idleTime' = [g \in Gits |-> IF Asking(g) = {} /\ idleTime[g] < setting.timeout THEN idleTime[g] + 1 ELSE idleTime[g]]
  /\ UNCHANGED <<gitVars, cancelled, statVars, workerVars, clientVars, stop, setting>>

Read(g) == ReaderPolls(g) \/ ReaderReadsOpen(g) \/ ReaderReadsMillis(g) \/ SessionCloses(g)

Serve(p) == FindSession(p) \/ OpenPrompt(p) \/ Call(p) \/ CallEnds(p) \/ CallFindsGone(p)
            \/ CallWithdraws(p) \/ AddTime(p) \/ ClosePrompt(p) \/ Reply(p)

Next ==
  \/ \E g \in Gits : Read(g) \/ ChildExits(g) \/ Cancel(g)
  \/ \E p \in Prompts : Connect(p) \/ Serve(p) \/ ClientReplies(p)
  \/ ServerStops \/ Tick

(* Threads run and time passes; git may never exit, a client may never
   answer, and the server need not stop. *)
Fairness ==
  /\ \A g \in Gits : WF_vars(Read(g))
  /\ \A p \in Prompts : WF_vars(Serve(p))
  /\ WF_vars(stop # "open" /\ ServerStops) /\ WF_vars(Tick)

Spec == Init /\ [][Next]_vars /\ Fairness

-----------------------------------------------------------------------------
(* Every variable holds a value of its kind. *)
TypeOK ==
  /\ setting \in Settings /\ now \in 0..setting.maxTime
  /\ stop \in {"open", "closed", "stopping", "cancelled", "down"}
  /\ child \in [Gits -> BOOLEAN] /\ timedOut \in [Gits -> BOOLEAN]
  /\ cancelled \in [Gits -> BOOLEAN] /\ closed \in [Gits -> BOOLEAN]
  /\ reader \in [Gits -> {"polling", "readOpen", "readMillis", "stopped"}]
  /\ sampled \in [Gits -> 0..setting.maxTime]
  /\ open \in [Gits -> 0..Cardinality(Prompts)] /\ millis \in [Gits -> Nat]
  /\ worker \in [Prompts -> {"idle", "finding", "opening", "calling", "waiting", "gone",
                             "adding", "closing", "replying", "answered", "refused"}]
  /\ started \in [Prompts -> 0..setting.maxTime]
  /\ slot \in [Prompts -> Replies \cup {"none"}]
  /\ client \in [Prompts -> {"unasked", "asked", "replied"}] /\ withdrawn \subseteq Prompts
  /\ idleTime \in [Gits -> 0..setting.timeout]

(* Time spent on prompts never counts against git: one that is timed out had
   its whole ceiling of time with no prompt open (GitProcess::expired against
   the broker's bookkeeping). *)
NeverCutShort == TypeOK /\ \A g \in Gits : timedOut[g] => idleTime[g] >= setting.timeout

(* Every git ends, though it never exits and its prompts are never answered,
   where the clock runs to its ceiling moved by the time of all its prompts. *)
MostMoved == setting.timeout + Cardinality(setting.prompts) * (setting.promptTimeout + 1)
GitsEnd == \A g \in Gits : MostMoved <= setting.maxTime ~> reader[g] = "stopped"

(* No prompt is left standing in front of the user: the client answers it, is
   told it was withdrawn, or is gone itself. *)
ClientCleared ==
  \A p \in Prompts : client[p] = "asked" ~> (client[p] = "replied" \/ p \in withdrawn \/ channelClosed)

(* The engine comes down: no git and no prompt holds up the broker's
   destructor, whatever their own deadlines (runServer's stop). *)
BrokerStops == stop = "closed" ~> stop = "down"

(* Every git ends, by itself or with the engine. *)
GitsAndBrokerEnd == GitsEnd /\ BrokerStops
=============================================================================
