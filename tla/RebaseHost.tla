----------------------------- MODULE RebaseHost -----------------------------
(***************************************************************************)
(* The panel of an interactive rebase (RebaseWebviewHost, src/extension/   *)
(* src/webviews/rebaseHost.ts): what it shows while the user, other        *)
(* programs and its own requests move the repository.                      *)
(*                                                                         *)
(* There is one repository, of which only whether a rebase is under way    *)
(* counts.  A flow is one call of open, showPaused, startRebase, resume,   *)
(* recheck, reload or markResolved; it waits for answers of the engine,    *)
(* each of which tells whether a rebase was under way when the engine read *)
(* it, and for the user.  Requests fail only where the code tells it apart.*)
(***************************************************************************)
EXTENDS Integers

CONSTANTS
  Flows,        \* how many calls may overlap
  MaxChanges    \* bound on the changes of the repository

RebaseHostAssumption == MaxChanges \in Nat

VARIABLES
  rebasing, changes,   \* the repository, and how often it has changed
  notice,              \* a repo/didChange is on its way
  panel, repo,         \* whether there is a panel, and whether the host knows its repository
  session, overlay,    \* whether it has a plan, and what it tells: "none", "stale", "error", "paused"
  running, starting, recheckPending, timer,
  flow                 \* of each call: what it waits for, what it is for, and the answer

repoVars == <<rebasing, changes, notice>>
panelVars == <<panel, repo, session, overlay>>
busyVars == <<running, starting, recheckPending, timer>>
vars == <<repoVars, panelVars, busyVars, flow>>

Call(on, for) == [on |-> on, for |-> for, answered |-> FALSE, rebasing |-> FALSE]
Free == Call("free", "none")

Init ==
  /\ rebasing \in BOOLEAN /\ changes = 0 /\ notice = FALSE
  /\ panel = FALSE /\ repo = FALSE /\ session = FALSE /\ overlay = "none"
  /\ running = FALSE /\ starting = FALSE /\ recheckPending = FALSE /\ timer = FALSE
  /\ flow = [f \in Flows |-> Free]

Busy == running \/ starting
Waits(f, on) == flow[f].on = on /\ flow[f].answered
Goes(f, on) == flow' = [flow EXCEPT ![f] = Call(on, flow[f].for)]
Ends(f) == flow' = [flow EXCEPT ![f] = Free]

Begins(f, on, for) ==
  flow[f] = Free /\ flow' = [flow EXCEPT ![f] = Call(on, for)]

-----------------------------------------------------------------------------
(* The repository changes in a way the watcher notices. *)
Changes(now) == changes < MaxChanges /\ changes' = changes + 1 /\ notice' = TRUE /\ rebasing' = now

Outside == (\E now \in BOOLEAN : Changes(now)) /\ UNCHANGED <<panelVars, busyVars, flow>>

(* The engine reads the repository for a request that is waiting. *)
Reads == {"open", "show", "preview", "resume", "settle", "recheck", "compare", "reload", "pause"}

Answer(f) ==
  /\ flow[f].on \in Reads /\ ~flow[f].answered
  /\ flow' = [flow EXCEPT ![f] =
       [on |-> flow[f].on, for |-> flow[f].for, answered |-> TRUE, rebasing |-> rebasing]]
  /\ UNCHANGED <<repoVars, panelVars, busyVars>>

-----------------------------------------------------------------------------
(* scheduleRecheck, on a repo/didChange of the panel's repository. *)
Notice ==
  /\ notice /\ notice' = FALSE
  /\ recheckPending' = (recheckPending \/ (panel /\ repo /\ Busy))
  /\ timer' = (timer \/ (panel /\ repo /\ ~Busy))
  /\ UNCHANGED <<rebasing, changes, panelVars, running, starting, flow>>

(* flushRecheck, given the running and starting it finds. *)
MutFlush(run, start) == UNCHANGED <<recheckPending, timer>>

Flush(run, start) ==
  IF recheckPending /\ ~run /\ ~start
    THEN recheckPending' = FALSE /\ timer' = TRUE
    ELSE UNCHANGED <<recheckPending, timer>>

(* The finally of run or of an abort and, for a start, of startRebase. *)
Finally(f) ==
  /\ running' = FALSE
  /\ starting' = (starting /\ flow[f].for # "start")
  /\ Flush(FALSE, starting')

(* The end of a flow that may be inside run. *)
Settles(f) ==
  Ends(f) /\ IF flow[f].for \in {"start", "step", "abort"} THEN Finally(f) ELSE UNCHANGED busyVars

(* onPanelDisposed *)
Disposed == panel' = FALSE /\ repo' = FALSE /\ session' = FALSE /\ overlay' = "none"

Close ==
  /\ panel /\ Disposed /\ timer' = FALSE
  /\ UNCHANGED <<repoVars, running, starting, recheckPending, flow>>

-----------------------------------------------------------------------------
(* enterPaused reads the state, unless the host has lost its repository; what it
   has read is shown, whatever happened meanwhile. *)
EntersPaused(f, has) ==
  IF has THEN Goes(f, "pause") /\ UNCHANGED busyVars ELSE Settles(f)

Pauses(f) ==
  /\ Waits(f, "pause") /\ Settles(f)
  /\ overlay' = "paused"
  /\ UNCHANGED <<repoVars, panel, repo, session>>

(* open: into the paused state, or through the checks and questions to a plan. *)
Open(f) ==
  /\ ~Busy /\ Begins(f, "open", "open")
  /\ UNCHANGED <<repoVars, panelVars, busyVars>>

OpenGoes(f) ==
  /\ Waits(f, "open")
  /\ IF flow[f].rebasing
       THEN repo' = TRUE /\ panel' = TRUE /\ EntersPaused(f, TRUE)
       ELSE UNCHANGED <<panel, repo, busyVars>> /\ (Goes(f, "preview") \/ Ends(f))
  /\ UNCHANGED <<repoVars, session, overlay>>

Opened(f) ==
  /\ Waits(f, "preview") /\ Ends(f)
  /\ panel' = TRUE /\ repo' = TRUE /\ session' = TRUE /\ overlay' = "none"
  /\ UNCHANGED <<repoVars, busyVars>>

(* showPaused *)
Show(f) == Begins(f, "show", "show") /\ UNCHANGED <<repoVars, panelVars, busyVars>>

ShowGoes(f) ==
  /\ Waits(f, "show")
  /\ IF flow[f].rebasing
       THEN repo' = TRUE /\ panel' = TRUE /\ EntersPaused(f, TRUE)
       ELSE UNCHANGED <<panel, repo, busyVars>> /\ Ends(f)
  /\ UNCHANGED <<repoVars, session, overlay>>

(* markResolved stages a file and then reads the state. *)
MarkResolved(f) ==
  /\ panel /\ repo /\ overlay = "paused" /\ rebasing
  /\ Begins(f, "pause", "mark") /\ Changes(TRUE)
  /\ UNCHANGED <<panelVars, busyVars>>

-----------------------------------------------------------------------------
(* The timer's recheck. *)
Recheck(f) ==
  /\ timer /\ timer' = FALSE
  /\ recheckPending' = (recheckPending \/ Busy)
  /\ IF ~Busy /\ panel /\ repo THEN Begins(f, "recheck", "recheck") ELSE UNCHANGED flow
  /\ UNCHANGED <<repoVars, panelVars, running, starting>>

RecheckGoes(f) ==
  /\ Waits(f, "recheck")
  /\ IF flow[f].rebasing THEN EntersPaused(f, repo) /\ UNCHANGED panelVars
     ELSE /\ UNCHANGED <<running, starting, recheckPending>>
          /\ IF overlay = "paused"
               THEN Ends(f) /\ IF panel THEN Disposed /\ timer' = FALSE
                               ELSE UNCHANGED <<panelVars, timer>>
               ELSE /\ IF session THEN Goes(f, "compare") ELSE Ends(f)
                    /\ UNCHANGED <<panelVars, timer>>
  /\ UNCHANGED repoVars

(* staleReason: the branch or its upstream has moved, or not. *)
Compared(f) ==
  /\ Waits(f, "compare") /\ Ends(f)
  /\ overlay' \in {overlay, "stale"}
  /\ UNCHANGED <<repoVars, panel, repo, session, busyVars>>

(* reload, which keeps the plan; setOverlay tells of an error. *)
Reload(f) ==
  /\ panel /\ repo /\ session /\ Begins(f, "reload", "reload")
  /\ UNCHANGED <<repoVars, panelVars, busyVars>>

Reloaded(f) ==
  /\ Waits(f, "reload") /\ Ends(f)
  /\ overlay' \in {overlay, "none", "error"}
  /\ UNCHANGED <<repoVars, panel, repo, session, busyVars>>

-----------------------------------------------------------------------------
(* startRebase up to the confirmation. *)
Start(f) ==
  /\ panel /\ repo /\ session /\ ~Busy /\ starting' = TRUE
  /\ Begins(f, "confirm", "start")
  /\ UNCHANGED <<repoVars, panelVars, running, recheckPending, timer>>

(* resume reads the state; an abort is confirmed before it runs. *)
Resume(f) ==
  /\ ~Busy /\ \E for \in {"step", "abort"} : Begins(f, "resume", for)
  /\ UNCHANGED <<repoVars, panelVars, busyVars>>

Queues(f) == Goes(f, "queued") /\ running' = TRUE /\ UNCHANGED <<starting, recheckPending, timer>>

ResumeGoes(f) ==
  /\ Waits(f, "resume")
  /\ repo' = (repo \/ flow[f].rebasing)
  /\ IF flow[f].rebasing /\ flow[f].for = "step" THEN Queues(f)
     ELSE /\ IF flow[f].rebasing THEN Goes(f, "confirm") ELSE Ends(f)
          /\ UNCHANGED busyVars
  /\ UNCHANGED <<repoVars, panel, session, overlay>>

Confirm(f) ==
  /\ flow[f].on = "confirm"
  /\ \/ Queues(f)
     \/ flow[f].for = "start" /\ Ends(f) /\ starting' = FALSE /\ Flush(running, FALSE) /\ UNCHANGED running
     \/ flow[f].for = "abort" /\ Ends(f) /\ UNCHANGED busyVars
  /\ UNCHANGED <<repoVars, panelVars>>

(* rebase/start, continue, skip and abort, one at a time: git has its state there
   while it asks for the plan, and takes it back, unseen, when that is refused. *)
Git(f) ==
  /\ flow[f].on = "queued" /\ \A g \in Flows : flow[g].on # "git"
  /\ IF rebasing = (flow[f].for = "start")
       THEN Goes(f, "failed") /\ UNCHANGED rebasing
       ELSE Goes(f, "git") /\ rebasing' = TRUE
  /\ UNCHANGED <<changes, notice, panelVars, busyVars>>

Refused(f) ==
  /\ flow[f].on = "git" /\ flow[f].for = "start" /\ Goes(f, "failed") /\ rebasing' = FALSE
  /\ UNCHANGED <<changes, notice, panelVars, busyVars>>

Stepped(f) ==
  /\ flow[f].on = "git"
  /\ \/ Changes(FALSE) /\ Goes(f, "completed")
     \/ flow[f].for # "abort" /\ Changes(TRUE) /\ (Goes(f, "stopped") \/ Goes(f, "failed"))
     \/ flow[f].for = "abort" /\ UNCHANGED repoVars /\ Goes(f, "failed")
  /\ UNCHANGED <<panelVars, busyVars>>

-----------------------------------------------------------------------------
(* run and the abort, once git has answered: the panel is disposed, then the
   finally runs. *)
Completed(f) ==
  /\ flow[f].on = "completed" /\ Disposed /\ Ends(f)
  /\ running' = FALSE /\ starting' = (starting /\ flow[f].for # "start")
  /\ IF recheckPending /\ ~starting' THEN recheckPending' = FALSE /\ timer' = TRUE
     ELSE timer' = FALSE /\ UNCHANGED recheckPending
  /\ UNCHANGED repoVars

(* showPausedPanel of run; the finally comes with the end of the flow. *)
Stopped(f) ==
  /\ flow[f].on = "stopped" /\ panel' = TRUE
  /\ IF repo THEN Goes(f, "pause") /\ running' = FALSE /\ UNCHANGED <<starting, recheckPending, timer>>
     ELSE Settles(f)
  /\ UNCHANGED <<repoVars, repo, session, overlay>>

(* settleError; a failed abort only reports. *)
Failed(f) ==
  /\ flow[f].on = "failed"
  /\ IF flow[f].for # "abort" /\ repo
       THEN /\ Goes(f, "settle") /\ running' = FALSE
            /\ UNCHANGED <<overlay, starting, recheckPending, timer>>
       ELSE /\ Settles(f)
            /\ overlay' = IF flow[f].for # "abort" /\ panel /\ session THEN "error" ELSE overlay
  /\ UNCHANGED <<repoVars, panel, repo, session>>

Settled(f) ==
  /\ Waits(f, "settle")
  /\ IF flow[f].rebasing
       THEN panel' = TRUE /\ EntersPaused(f, repo) /\ UNCHANGED overlay
       ELSE /\ Settles(f) /\ UNCHANGED panel
            /\ overlay' = IF panel /\ session THEN "error" ELSE overlay
  /\ UNCHANGED <<repoVars, repo, session>>

Runs(f) ==
  \/ Answer(f) \/ OpenGoes(f) \/ Opened(f) \/ ShowGoes(f) \/ Pauses(f)
  \/ RecheckGoes(f) \/ Compared(f) \/ Reloaded(f) \/ ResumeGoes(f) \/ Confirm(f)
  \/ Git(f) \/ Refused(f) \/ Stepped(f)
  \/ Completed(f) \/ Stopped(f) \/ Failed(f) \/ Settled(f)

Next ==
  \/ Outside \/ Notice \/ Close
  \/ \E f \in Flows :
       \/ Runs(f) \/ Recheck(f)
       \/ Open(f) \/ Show(f) \/ MarkResolved(f) \/ Reload(f) \/ Start(f) \/ Resume(f)

Spec == Init /\ [][Next]_vars

-----------------------------------------------------------------------------
Quiet == ~notice /\ ~timer /\ \A f \in Flows : flow[f] = Free

(* Nothing that was put off while a rebase step ran is put off for ever, and the
   host is not left busy, which would refuse every later call (scheduleRecheck,
   flushRecheck and the finally of run and startRebase). *)
NothingPutOff == Quiet => ~recheckPending /\ ~running /\ ~starting
=============================================================================
