----------------------------- MODULE LineBlame ------------------------------
(* The blame of the current line, after its end and in the status bar         *)
(* (annotations/lineBlame.ts): one timer and one pass at a time for all       *)
(* editors, here of one document.                                             *)
(*                                                                            *)
(* What is shown is named by the pass that found it: editor, line, version.   *)
EXTENDS Integers

CONSTANTS
  Editors,
  Lines,
  MaxVersion,      \* bounds on edits and on what else the user does
  MaxMoves,
  NONE             \* no editor

LineBlameAssumption == NONE \notin Editors /\ {MaxVersion, MaxMoves} \subseteq Nat

Surfaces == {"inline", "statusBar"}

VARIABLES
  version,
  line,            \* of the cursor in each editor
  active,          \* activeTextEditor, or NONE
  surfaces,        \* where blame is to show: settings and modes together
  timer,           \* the editor the timer is for, or NONE
  pass,            \* the pass that has not been cancelled, if any
  tip,             \* the pass whose tooltip is being rendered, if any
  inline,          \* what the text of each editor is of
  state,           \* what the status bar says is of
  tooltip,         \* and its tooltip
  barShown,
  unblamed,        \* whether the last pass found nothing
  taken,           \* whether another editor took the timer or the pass of the active one
  moves

NoPass == [editor |-> NONE, line |-> 0, version |-> 0]

shown == <<inline, state, tooltip, barShown>>
vars == <<version, line, active, surfaces, timer, pass, tip, shown, unblamed, taken, moves>>

Init ==
  /\ version = 1 /\ line \in [Editors -> Lines] /\ active = NONE
  /\ surfaces = Surfaces /\ timer = NONE /\ pass = NoPass /\ tip = NoPass
  /\ inline = [e \in Editors |-> NoPass] /\ state = NoPass /\ tooltip = NoPass /\ barShown = FALSE
  /\ unblamed = FALSE /\ taken = FALSE /\ moves = 0

Move == moves < MaxMoves /\ moves' = moves + 1

-----------------------------------------------------------------------------
\* The timer is set for the editor, whichever it was set for.
Schedule(e) ==
  IF surfaces' = {} \/ e = NONE THEN UNCHANGED <<timer, taken>>
  ELSE /\ timer' = e
       /\ taken' = IF e = active' THEN FALSE ELSE taken \/ timer = active'

\* clear and clearInline: of the editor that is active by now.
ClearedInline == [e \in Editors |-> IF e = active' THEN NoPass ELSE inline[e]]
Clear == inline' = ClearedInline /\ barShown' = FALSE /\ state' = NoPass /\ UNCHANGED tooltip

Select(e, to) ==
  /\ to # line[e] /\ Move
  /\ line' = [line EXCEPT ![e] = to]
  /\ UNCHANGED <<version, active, surfaces, pass, tip, shown, unblamed>>
  /\ Schedule(e)

Activate(e) ==
  /\ e # active /\ Move
  /\ active' = e
  /\ UNCHANGED <<version, line, surfaces, pass, tip, unblamed>>
  /\ Clear /\ Schedule(e)

Edit ==
  /\ active # NONE /\ version < MaxVersion /\ version' = version + 1
  /\ UNCHANGED <<line, active, surfaces, pass, tip, shown, unblamed, moves>>
  /\ Schedule(active)

\* surfacesChanged: a setting, a mode, or VS Code's own blame.
Choose(to) ==
  /\ to # surfaces /\ Move
  /\ surfaces' = to
  /\ UNCHANGED <<version, line, active, pass, tip, unblamed>>
  /\ IF to = {} THEN Clear ELSE
       /\ inline' = IF "inline" \in to THEN inline ELSE ClearedInline
       /\ barShown' = (barShown /\ "statusBar" \in to)
       /\ UNCHANGED <<state, tooltip>>
  /\ Schedule(active)

-----------------------------------------------------------------------------
\* annotate: the pass before is cancelled, and with it the tooltip it waits for.
TimerFires ==
  /\ timer # NONE /\ timer' = NONE
  /\ pass' = [editor |-> timer, line |-> line[timer], version |-> version]
  /\ tip' = NoPass
  /\ taken' = (taken \/ (timer # active /\ active # NONE /\ pass.editor = active))
  /\ UNCHANGED <<version, line, active, surfaces, shown, unblamed, moves>>

MutMatches(p) == line[p.editor] = p.line /\ version = p.version

\* Editor, line and version must still match.
Matches(p) == active = p.editor /\ line[p.editor] = p.line /\ version = p.version

\* blameDocument answers: blame, that the buffer is too large, or nothing.
Answer(kind) ==
  /\ pass # NoPass /\ pass' = NoPass
  /\ UNCHANGED <<version, line, active, surfaces, timer, taken, moves>>
  /\ IF surfaces = {} \/ ~Matches(pass) THEN UNCHANGED <<tip, shown, unblamed>>
     ELSE IF kind = "none" THEN Clear /\ unblamed' = TRUE /\ UNCHANGED tip
     ELSE /\ inline' = [inline EXCEPT ![pass.editor] = IF "inline" \in surfaces THEN pass ELSE NoPass]
          /\ state' = pass /\ barShown' = ("statusBar" \in surfaces)
          /\ tooltip' = IF kind = "tooLarge" THEN pass ELSE NoPass
          /\ tip' = IF kind = "blame" /\ barShown' THEN pass ELSE tip
          /\ unblamed' = FALSE

\* What the hover shows is rendered for the tooltip.
TipRendered ==
  /\ tip # NoPass /\ tooltip' = tip /\ tip' = NoPass
  /\ UNCHANGED <<version, line, active, surfaces, timer, pass, inline, state, barShown, unblamed,
                 taken, moves>>

Next ==
  \/ \E e \in Editors, to \in Lines : Select(e, to)
  \/ \E e \in Editors \cup {NONE} : Activate(e)
  \/ Edit \/ \E to \in SUBSET Surfaces : Choose(to)
  \/ TimerFires \/ TipRendered
  \/ \E kind \in {"blame", "tooLarge", "none"} : Answer(kind)

Spec == Init /\ [][Next]_vars
-----------------------------------------------------------------------------
Here == [editor |-> active, line |-> line[active], version |-> version]

(* Once the timer and the pass have ended, what shows is of the line, the editor
   and the version that are current, and it shows wherever it is wanted and known;
   a tooltip is of what the status bar says, which says nothing without an editor.  Not claimed: that it does after an
   event of another editor took the timer or the pass, of which there is one for all
   of them, or that an editor that loses the focus loses its text (lineBlame.ts). *)
LineKept ==
  /\ barShown => active # NONE /\ (tooltip # NoPass => tooltip = state)
  /\ timer = NONE /\ pass = NoPass /\ active # NONE /\ ~taken =>
       /\ inline[active] # NoPass => inline[active] = Here
       /\ barShown => state = Here
       /\ ~unblamed => /\ "inline" \in surfaces => inline[active] = Here
                       /\ "statusBar" \in surfaces => barShown
=============================================================================
