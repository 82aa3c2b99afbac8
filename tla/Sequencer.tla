----------------------------- MODULE Sequencer ------------------------------
(* Operations git may stop in the middle of: the engine's handlers that     *)
(* begin them and that continue, skip or abort them (services/mutate), what *)
(* the engine says is in progress (sequencerState), and the extension's     *)
(* commands and context key (sync/syncCommands.ts), while the user goes on  *)
(* with git elsewhere.                                                      *)
(*                                                                          *)
(* Of a repository only what git is stopped in is kept. One operation       *)
(* inside another (a merge at an edit step of a rebase) is left out.        *)
EXTENDS Integers, FiniteSets

CONSTANTS
  Repos, Busy,    \* the repositories, and those in which something happens
  Picks,          \* how many commits a cherry-pick, revert or rebase goes over
  MaxCommands,    \* bounds on what the user does in the editor, and on what happens
  MaxOutside,     \*   outside: git in a terminal, git killed, the engine restarted
  NONE

SequencerAssumption ==
  /\ Busy \subseteq Repos
  /\ {MaxCommands, MaxOutside} \subseteq Nat
  /\ Picks \in SUBSET (Nat \ {0}) /\ IsFiniteSet(Picks)

VARIABLES
  git,          \* what each repository is stopped in
  serving,      \* the handler on each repository's strand
  answer,       \* the last answer of each repository's handlers
  active,       \* the active repository
  timer,        \* OperationState: whether its timer is set,
  refreshes,    \*   its refreshes under way: the repository and what was read
  key,          \*   gitglasses.operationInProgress,
  unread,       \*   and whether the refresh that set it could read nothing
  crossed,      \* whether refreshes overlapped, or the active repository has changed
  outOfTurn,    \* whether a commit or a reset was made, or git was killed, with picks to go
  commands, outsides

keyVars == <<active, timer, refreshes, key, unread, crossed>>
vars == <<git, serving, answer, keyVars, outOfTurn, commands, outsides>>

-----------------------------------------------------------------------------
(* git *)

\* op: the operation git is in; marker: the HEAD file it left; left: the commits
\* still to go after the one it stopped at; clash: unmerged entries in the index.
Clean == [op |-> "none", marker |-> "none", left |-> 0, clash |-> FALSE]

MarkersOf(op) ==
  CASE op = "merge" -> {"MERGE_HEAD"}
    [] op = "revert" -> {"REVERT_HEAD"}
    [] op = "cherry-pick" -> {"CHERRY_PICK_HEAD"}
    [] op = "rebase" -> {"CHERRY_PICK_HEAD", "none"}

\* n commits to go: all of them go through, or git stops at one, on conflicts or for
\* another reason (a signature, an empty commit).
Goes(op, n) ==
  {[to |-> Clean, ok |-> TRUE]} \cup
  {[to |-> [op |-> op, marker |-> m, left |-> k, clash |-> c], ok |-> FALSE] :
     m \in MarkersOf(op), k \in 0 .. n - 1, c \in BOOLEAN}

Refused(g) == {[to |-> g, ok |-> FALSE]}

Starts(g, op, n) == Refused(g) \cup (IF g = Clean THEN Goes(op, n) ELSE {})

\* The commit git stopped at is made by hand, or dropped by a reset: what it left goes
\* away, and so does the operation when nothing is to go.
Concluded(g) ==
  IF g.op = "rebase" \/ g.left > 0 THEN [g EXCEPT !.marker = "none", !.clash = FALSE] ELSE Clean

Commits(g) ==
  Refused(g) \cup (IF g.clash THEN {} ELSE {[to |-> Concluded(g), ok |-> TRUE]})
Resets(g) == {[to |-> Concluded(g), ok |-> TRUE]}
StashApplies(g) ==
  Refused(g) \cup
  (IF g.clash THEN {} ELSE {[to |-> g, ok |-> TRUE], [to |-> [g EXCEPT !.clash = TRUE], ok |-> FALSE]})

\* git <op> --<action>; to continue a merge is to commit.
Resumes(g, op, action) ==
  IF op = "none" \/ g.op # op THEN Refused(g)
  ELSE CASE action = "abort" -> {[to |-> Clean, ok |-> TRUE]}
         [] action = "skip" -> Goes(op, g.left)
         [] action = "continue" ->
              Refused(g) \cup (IF g.clash THEN {}
                               ELSE IF op = "merge" THEN Commits(g) ELSE Goes(op, g.left))

\* git killed: it has done nothing, all or, between two commits of a sequence, some.
Cut(op, n) ==
  {[to |-> [op |-> op, marker |-> "none", left |-> k, clash |-> FALSE], ok |-> FALSE] : k \in 1 .. n}

\* A conflicted step of a rebase read as a cherry-pick.
MutReading(g) ==
  IF g.marker = "CHERRY_PICK_HEAD" THEN "cherry-pick"
  ELSE IF g.op = "rebase" THEN "rebase"
  ELSE IF g.marker = "none" THEN "none" ELSE g.op

\* sequencerState: the operation by the files in the gitdir, a rebase first.
Reading(g) ==
  CASE g.op = "rebase" -> "rebase"
    [] g.op # "rebase" /\ g.marker = "CHERRY_PICK_HEAD" -> "cherry-pick"
    [] g.op # "rebase" /\ g.marker = "REVERT_HEAD" -> "revert"
    [] g.op # "rebase" /\ g.marker = "MERGE_HEAD" -> "merge"
    [] OTHER -> "none"

\* ... and the conflicts, of the index as it is on disk now.
Reloaded(onDisk, loaded) == onDisk

-----------------------------------------------------------------------------
Starting ==
  {[name |-> op, n |-> n] : op \in {"cherry-pick", "revert", "rebase"}, n \in Picks} \cup
  {[name |-> "merge", n |-> 1]}
Plain == {[name |-> name, n |-> 0] : name \in {"commit", "reset", "stash"}}
Resuming == {[name |-> action, n |-> 0] : action \in {"continue", "skip", "abort"}}

Runs(g, c, op) ==
  IF c \in Starting THEN Starts(g, c.name, c.n)
  ELSE IF c \in Resuming THEN Resumes(g, op, c.name)
  ELSE CASE c.name = "commit" -> Commits(g) [] c.name = "reset" -> Resets(g)
         [] c.name = "stash" -> StashApplies(g)

Dies(g, c, op) ==
  Refused(g) \cup Runs(g, c, op) \cup
  (IF c \in Starting /\ c.n > 1 /\ g = Clean THEN Cut(c.name, c.n) ELSE {}) \cup
  (IF c \in Resuming /\ c.name # "abort" /\ g.op = op /\ op # "none" THEN Cut(op, g.left) ELSE {})

Init ==
  /\ git = [r \in Repos |-> Clean]
  /\ serving = [r \in Repos |-> NONE] /\ answer = [r \in Repos |-> NONE]
  /\ active \in Repos /\ timer = TRUE /\ refreshes = {} /\ key = FALSE /\ unread = FALSE
  /\ crossed = FALSE /\ outOfTurn = FALSE /\ commands = 0 /\ outsides = 0

\* repo/didChange: the timer is set, anew if it was.
Notice(r) ==
  timer' = (timer \/ <<git'[r].op, git'[r].marker>> # <<git[r].op, git[r].marker>>)

NoteTurn(r) ==
  outOfTurn' = (outOfTurn \/ (git'[r].left = git[r].left /\ git'[r].marker = "none"
                              /\ git[r].marker # "none" /\ git[r].op # "rebase"
                              /\ git'[r].op # "none"))

-----------------------------------------------------------------------------
(* The engine *)

\* A handler begins.  mutate/sequencer looks first at what is in progress, and does
\* nothing when nothing is, when a merge would be skipped, or when what would be
\* continued is still conflicted.
Serve(r, c) ==
  /\ commands < MaxCommands /\ commands' = commands + 1 /\ serving[r] = NONE
  /\ LET op == Reading(git[r]) IN
     IF c \in Resuming /\ (op = "none" \/ (c.name = "skip" /\ op = "merge"))
     THEN /\ answer' = [answer EXCEPT ![r] = [looked |-> TRUE, failed |-> TRUE, operation |-> "none",
                                              completed |-> FALSE, conflicts |-> FALSE]]
          /\ UNCHANGED serving
     ELSE IF c.name = "continue" /\ git[r].clash
     THEN /\ answer' = [answer EXCEPT ![r] = [looked |-> TRUE, failed |-> FALSE, operation |-> op,
                                              completed |-> FALSE, conflicts |-> TRUE]]
          /\ UNCHANGED serving
     ELSE /\ serving' = [serving EXCEPT ![r] = [command |-> c, op |-> op, ran |-> FALSE, ok |-> FALSE,
                                                loaded |-> IF c \in Resuming THEN git[r].clash ELSE FALSE]]
          /\ answer' = [answer EXCEPT ![r] = NONE]
  /\ UNCHANGED <<git, keyVars, outOfTurn, outsides>>

\* git runs.
GitRuns(r) ==
  /\ serving[r] # NONE /\ ~serving[r].ran
  /\ \E run \in Runs(git[r], serving[r].command, serving[r].op) :
       /\ git' = [git EXCEPT ![r] = run.to]
       /\ serving' = [serving EXCEPT ![r].ran = TRUE, ![r].ok = run.ok]
       /\ Notice(r) /\ NoteTurn(r)
  /\ UNCHANGED <<answer, active, refreshes, key, unread, crossed, commands, outsides>>

\* git is cancelled or times out, or cannot be run at all: the handler fails without a
\* look at what was left (collectLines).
GitDies(r) ==
  /\ serving[r] # NONE /\ ~serving[r].ran
  /\ outsides < MaxOutside /\ outsides' = outsides + 1
  /\ \E run \in Dies(git[r], serving[r].command, serving[r].op) : git' = [git EXCEPT ![r] = run.to]
  /\ serving' = [serving EXCEPT ![r] = NONE]
  /\ answer' = [answer EXCEPT ![r] = [looked |-> FALSE, failed |-> TRUE, operation |-> "none",
                                     completed |-> FALSE, conflicts |-> FALSE]]
  /\ Notice(r)
  /\ outOfTurn' = (outOfTurn \/ Reading(git'[r]) # git'[r].op)
  /\ UNCHANGED <<active, refreshes, key, unread, crossed, commands>>

\* runConflictAware, mutate/sequencer: conflicts are a result, and so is a clean run;
\* any other failure names what it left in progress.  mutate/commit and mutate/reset
\* (runGitOrThrow) look at nothing but git's exit.
Answers(r) ==
  /\ serving[r] # NONE /\ serving[r].ran
  /\ LET looks == serving[r].command.name \notin {"commit", "reset"}
         conflicts == looks /\ Reloaded(git[r].clash, serving[r].loaded)
         operation == IF looks THEN Reading(git[r]) ELSE "none"
     IN answer' = [answer EXCEPT ![r] =
          [looked |-> looks, failed |-> ~conflicts /\ ~serving[r].ok, operation |-> operation,
           conflicts |-> conflicts,
           completed |-> serving[r].command \in Resuming /\ ~conflicts /\ serving[r].ok
                         /\ operation = "none"]]
  /\ serving' = [serving EXCEPT ![r] = NONE]
  /\ UNCHANGED <<git, keyVars, outOfTurn, commands, outsides>>

\* The user, in a terminal or in Source Control: conflicts are resolved, what is staged
\* is committed, an operation is begun, continued or aborted.
Outside(r) ==
  /\ outsides < MaxOutside /\ outsides' = outsides + 1
  /\ \E to \in {[git[r] EXCEPT !.clash = FALSE]} \cup
               {run.to : run \in UNION {Runs(git[r], c, git[r].op) : c \in Starting \cup Plain \cup Resuming}} :
       /\ to # git[r] /\ git' = [git EXCEPT ![r] = to]
  /\ Notice(r) /\ NoteTurn(r)
  /\ answer' = [answer EXCEPT ![r] = NONE]
  /\ UNCHANGED <<serving, active, refreshes, key, unread, crossed, commands>>

-----------------------------------------------------------------------------
(* The extension: OperationState *)

SwitchActive(r) ==
  /\ r # active /\ active' = r /\ crossed' = TRUE
  /\ commands < MaxCommands /\ commands' = commands + 1
  /\ UNCHANGED <<git, serving, answer, timer, refreshes, key, unread, outOfTurn, outsides>>

\* onDidChangeCapabilities: an engine has started.
Restarted ==
  /\ timer' = TRUE /\ outsides < MaxOutside /\ outsides' = outsides + 1
  /\ UNCHANGED <<git, serving, answer, active, refreshes, key, unread, crossed, outOfTurn, commands>>

Refresh ==
  /\ timer /\ timer' = FALSE
  /\ refreshes' = refreshes \cup {[repo |-> active, shown |-> NONE]}
  /\ crossed' = (crossed \/ refreshes # {})
  /\ UNCHANGED <<git, serving, answer, active, key, unread, outOfTurn, commands, outsides>>

\* repo/state is read, or cannot be; its answer sets the key, and no answer clears it.
Read(f) ==
  /\ f \in refreshes /\ f.shown = NONE
  /\ \E shown \in {Reading(git[f.repo]), "unread"} :
       refreshes' = (refreshes \ {f}) \cup {[f EXCEPT !.shown = shown]}
  /\ UNCHANGED <<git, serving, answer, active, timer, key, unread, crossed, outOfTurn, commands,
                 outsides>>

SetKey(f) ==
  /\ f \in refreshes /\ f.shown # NONE
  /\ refreshes' = refreshes \ {f}
  /\ key' = (f.shown \notin {"none", "unread"}) /\ unread' = (f.shown = "unread")
  /\ UNCHANGED <<git, serving, answer, active, timer, crossed, outOfTurn, commands, outsides>>

Next ==
  \/ \E r \in Busy : \/ \E c \in Starting \cup Plain \cup Resuming : Serve(r, c)
                     \/ GitRuns(r) \/ GitDies(r) \/ Answers(r) \/ Outside(r)
  \/ \E r \in Repos : SwitchActive(r)
  \/ Restarted \/ Refresh \/ \E f \in refreshes : Read(f) \/ SetKey(f)

Spec == Init /\ [][Next]_vars

-----------------------------------------------------------------------------
\* The engine names what git is in the middle of, and misses it only once a commit or a
\* reset was made by hand, or git was killed, with picks to go (mutate_common.cpp,
\* sequencerState).
NamedRightly ==
  \A r \in Repos : \/ Reading(git[r]) = git[r].op
                   \/ outOfTurn /\ Reading(git[r]) = "none"

\* Until something else touches the repository, an answer is true of it: one that
\* looked and is no error says that there are conflicts exactly when there are, the
\* operation it names is the one that is going on, and what it says is completed has left
\* neither an operation nor conflicts behind (runConflictAware, mutate/sequencer).
AnswersTrue ==
  \A r \in Repos : answer[r] # NONE /\ serving[r] = NONE =>
    /\ answer[r].looked /\ ~answer[r].failed => (answer[r].conflicts <=> git[r].clash)
    /\ answer[r].operation # "none" => Reading(git[r]) = answer[r].operation
    /\ answer[r].completed /\ ~outOfTurn => git[r] = Clean

\* At rest the context key is in step with the active repository, unless the refresh that
\* set it could not read the state, which hides the commands; refreshes that overlap and
\* a change of the active repository excepted (syncCommands.ts, OperationState).
KeyInStep ==
  ~timer /\ refreshes = {} /\ ~crossed => (key <=> ~unread /\ Reading(git[active]) # "none")

OperationsKept == NamedRightly /\ AnswersTrue /\ KeyInStep

\* What git is stopped in the middle of is never reported as nothing (models.ts).
NeverForgotten == \A r \in Repos : git[r].op # "none" => Reading(git[r]) # "none"
=============================================================================
