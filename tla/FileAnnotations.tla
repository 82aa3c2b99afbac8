-------------------------- MODULE FileAnnotations ---------------------------
(* Whole-file annotations (annotations/fileAnnotations.ts) under the modes    *)
(* zen and review (modes/modeController.ts): one document, shown in several   *)
(* editors, whose annotations are rendered from blame that takes its time.    *)
(*                                                                            *)
(* A state of the document is its version and how often its blame has been    *)
(* invalidated.  An editor that is shown again is another object, of which    *)
(* nothing is known and in which nothing is painted.                          *)
EXTENDS Integers, FiniteSets

CONSTANTS
  Editors,
  Modes,          \* "blame" and other kinds of annotation
  MaxEvents,      \* bounds on edits and invalidations, and on what the user does
  MaxCommands,
  NONE            \* no editor, or no mode known to be applied

FileAnnotationsAssumption ==
  /\ "blame" \in Modes /\ "off" \notin Modes /\ NONE \notin Editors \cup Modes
  /\ {MaxEvents, MaxCommands} \subseteq Nat

VARIABLES
  version, epoch,   \* of the document, and of its blame
  mode,             \* modes.get(key) ?? 'off'
  ui,               \* ModeController.state
  visible, active,  \* the editors that show the document, and which has the focus
  timer,            \* whether a debounce timer is set
  renders,          \* renders waiting for blame, and whether each is the latest
  applied,          \* appliedModes
  painted,          \* the decorations of each mode: for which state of the document
  unblamed,         \* whether the last render in effect found no blame
  missed,           \* editors that were not cleared as annotations were turned off, or
                    \* painted by a render that was under way then
  commands

doc == <<version, epoch>>
screen == <<applied, painted>>
vars == <<doc, mode, ui, visible, active, timer, renders, screen, unblamed, missed, commands>>

Bare == [m \in Modes |-> <<>>]

Init ==
  /\ version = 1 /\ epoch = 0 /\ mode = "off" /\ ui = "normal"
  /\ active \in Editors /\ visible = {active}
  /\ timer = FALSE /\ renders = {}
  /\ applied = [e \in Editors |-> NONE] /\ painted = [e \in Editors |-> Bare]
  /\ unblamed = FALSE /\ missed = {} /\ commands = 0

Enabled == ui # "zen"

-----------------------------------------------------------------------------
MutSuperseded == renders

\* A newer pass for this document supersedes those under way.
Superseded == {[r EXCEPT !.latest = FALSE] : r \in renders}

\* clearDecorations
Cleared(editors) ==
  /\ applied' = [e \in Editors |-> IF e \in editors THEN "off" ELSE applied[e]]
  /\ painted' = [e \in Editors |-> IF e \in editors THEN Bare ELSE painted[e]]
  /\ missed' = missed \ editors

Waiting(editors, to, last) ==
  {[editor |-> e, mode |-> to, version |-> version', epoch |-> epoch', latest |-> e = last] :
     e \in editors}

\* render, of several editors in a row, in a mode: each is cleared, or waits for blame;
\* the last one supersedes the others.
Render(editors, to, on) ==
  /\ UNCHANGED unblamed
  /\ IF to = "off" \/ ~on
       THEN Cleared(editors) /\ UNCHANGED renders
       ELSE /\ IF editors = {} THEN UNCHANGED renders
               ELSE \E last \in editors : renders' = Superseded \cup Waiting(editors, to, last)
            /\ UNCHANGED <<screen, missed>>

\* Editors are rendered as they were, and one of them then by setDocumentMode as blame.
Forced(editors, e) ==
  /\ mode' = "blame"
  /\ IF mode = "off" THEN Cleared(editors) ELSE UNCHANGED <<screen, missed>>
  /\ renders' = Superseded \cup Waiting(IF mode = "off" THEN {} ELSE editors, mode, NONE)
                \cup Waiting({e}, "blame", e)
  /\ UNCHANGED unblamed

-----------------------------------------------------------------------------
(* What the user does. *)
Command == commands < MaxCommands /\ commands' = commands + 1

\* toggle and clear, in the active editor.
Choose(to) ==
  /\ active # NONE /\ (to = "off" \/ to # mode) /\ Command
  /\ mode' = to
  /\ UNCHANGED <<doc, ui, visible, active, timer>>
  /\ IF to = "off"
       THEN /\ applied' = [applied EXCEPT ![active] = "off"]
            /\ painted' = [painted EXCEPT ![active] = Bare]
            /\ missed' = {e \in visible \ {active} : painted[e] # Bare}
            /\ UNCHANGED <<renders, unblamed>>
       ELSE Render({active}, to, Enabled)

\* ModeController.apply, which runs again when a mode was picked.
Switch(next) ==
  /\ (next # ui \/ ui = "review") /\ Command
  /\ ui' = next
  /\ UNCHANGED <<doc, visible, active, timer>>
  /\ LET refreshed == IF ui = "zen" THEN visible ELSE {}
     IN IF next = "zen" THEN Cleared(visible) /\ UNCHANGED <<mode, renders, unblamed>>
        ELSE IF next = "review" /\ active # NONE THEN Forced(refreshed, active)
        ELSE Render(refreshed, mode, TRUE) /\ UNCHANGED mode

\* Editors are shown and hidden; those shown are rendered.
Show(editors) ==
  /\ editors # visible /\ Command
  /\ visible' = editors /\ active' = IF active \in editors THEN active ELSE NONE
  /\ UNCHANGED <<doc, mode, ui, timer, unblamed>>
  /\ LET gone == Editors \ (editors \cap visible)
         cleared == IF mode = "off" \/ ~Enabled THEN editors ELSE {}
     IN /\ applied' = [e \in Editors |-> IF e \in cleared THEN "off"
                                         ELSE IF e \in gone THEN NONE ELSE applied[e]]
        /\ painted' = [e \in Editors |-> IF e \in gone \cup cleared THEN Bare ELSE painted[e]]
        /\ missed' = missed \ (gone \cup cleared)
        /\ LET left == {r \in renders : r.editor \notin gone}
           IN IF cleared # {} \/ editors = {} THEN renders' = left
              ELSE \E last \in editors :
                     renders' = {[r EXCEPT !.latest = FALSE] : r \in left} \cup
                                Waiting(editors, mode, last)

\* The focus moves: the editor is rendered, and in review then as blame.
Focus(e) ==
  /\ e \in visible /\ e # active /\ Command
  /\ active' = e
  /\ UNCHANGED <<doc, ui, visible, timer>>
  /\ IF ui = "review" THEN Forced({e}, e) ELSE Render({e}, mode, Enabled) /\ UNCHANGED mode

\* forget: no render of the document has an effect any more.
Close ==
  /\ visible = {} /\ Command
  /\ version' = 1 /\ mode' = "off" /\ timer' = FALSE /\ renders' = {}
  /\ missed' = {}
  /\ UNCHANGED <<epoch, ui, visible, active, screen, unblamed>>

-----------------------------------------------------------------------------
(* What happens to the document. *)
Edit ==
  /\ version + epoch <= MaxEvents /\ visible # {} /\ version' = version + 1
  /\ timer' = (timer \/ mode # "off")
  /\ UNCHANGED <<epoch, mode, ui, visible, active, renders, screen, unblamed, missed, commands>>

\* refreshDocument
TimerFires ==
  /\ timer /\ timer' = FALSE
  /\ UNCHANGED <<doc, mode, ui, visible, active, commands>>
  /\ Render(visible, mode, Enabled)

\* The blame is invalidated, and refresh.
Refresh ==
  /\ version + epoch <= MaxEvents /\ epoch' = epoch + 1
  /\ UNCHANGED <<version, mode, ui, visible, active, timer, commands>>
  /\ Render(visible, mode, Enabled)

-----------------------------------------------------------------------------
\* The renders that go on once they have their blame.
InEffect(r) == r.latest /\ r.version = version /\ r.editor \in visible

\* applyMode clears what the mode before had painted, or everything if that is unknown.
Applied(r) ==
  LET before == applied[r.editor]
      rest == IF before = NONE THEN Bare
              ELSE IF before = "off" THEN painted[r.editor]
              ELSE [painted[r.editor] EXCEPT ![before] = <<>>]
  IN [rest EXCEPT ![r.mode] = <<r.version, r.epoch>>]

\* blameDocument answers.
Answer(r, blamed) ==
  /\ r \in renders /\ renders' = renders \ {r}
  /\ IF InEffect(r)
       THEN /\ applied' = [applied EXCEPT ![r.editor] = IF blamed THEN r.mode ELSE "off"]
            /\ painted' = [painted EXCEPT ![r.editor] = IF blamed THEN Applied(r) ELSE Bare]
            /\ unblamed' = ~blamed
            /\ missed' = IF blamed /\ (mode = "off" \/ ~Enabled) THEN missed \cup {r.editor}
                         ELSE missed \ {r.editor}
       ELSE UNCHANGED <<screen, unblamed, missed>>
  /\ UNCHANGED <<doc, mode, ui, visible, active, timer, commands>>

Next ==
  \/ \E to \in Modes \cup {"off"} : Choose(to)
  \/ \E next \in {"normal", "zen", "review"} : Switch(next)
  \/ \E editors \in SUBSET Editors : Show(editors)
  \/ \E e \in Editors : Focus(e)
  \/ Close \/ Edit \/ TimerFires \/ Refresh
  \/ \E r \in renders, blamed \in BOOLEAN : Answer(r, blamed)

Spec == Init /\ [][Next]_vars
-----------------------------------------------------------------------------
Settled == ~timer /\ renders = {}

\* No editor shows two kinds of annotation over each other.
OneKind ==
  \A e \in visible : \A m \in Modes : painted[e][m] # <<>> => applied[e] = m

\* Once nothing is under way an editor that shows the document alone has the
\* annotations of its mode, for the document as it is.
UpToDate ==
  Settled /\ mode # "off" /\ Enabled =>
    \A e \in Editors : visible = {e} /\ ~unblamed =>
      painted[e] = [Bare EXCEPT ![mode] = doc]

\* Nothing is painted where annotations are off.
OffIsClear ==
  Settled /\ (mode = "off" \/ ~Enabled) =>
    \A e \in visible \ missed : painted[e] = Bare

(* Annotations are of one kind and, once every render has ended, those of the mode
   and of the document as it is, or none where they are off.  Not claimed: that of
   several editors of a document, whose renders supersede each other, any but the
   last is up to date; and that turning annotations off reaches the other editors,
   or a render under way (fileAnnotations.ts, modeController.ts). *)
AnnotationsKept == OneKind /\ UpToDate /\ OffIsClear
=============================================================================
