---------------------------- MODULE ViewsProofs -----------------------------
(* What the user looks at and acts on: annotations, the blame of the current   *)
(* line, the file history, the stashes and what git is stopped in.  Their       *)
(* variables are disjoint; each has its own inductive invariant.               *)
EXTENDS ViewParts, FiniteSetTheorems, SequenceTheorems, WellFoundedInduction, TLAPS

-----------------------------------------------------------------------------
(***************************************************************************)
(* FileAnnotations.  Whole-file annotations are of one kind, those of the  *)
(* mode and of the document as it is, or none: for any number of editors,  *)
(* modes, edits and commands.                                              *)
(***************************************************************************)
Kinds == Modes \cup {"off", NONE}

Stamps == {<<>>} \cup (Nat \X Nat)

RenderType ==
  [editor : Editors, mode : Modes, version : Nat, epoch : Nat, latest : BOOLEAN]

TypeOK ==
  /\ version \in Nat /\ epoch \in Nat /\ mode \in Modes \cup {"off"}
  /\ ui \in {"normal", "zen", "review"}
  /\ visible \subseteq Editors /\ active \in visible \cup {NONE}
  /\ timer \in BOOLEAN /\ unblamed \in BOOLEAN
  /\ renders \subseteq RenderType
  /\ applied \in [Editors -> Kinds]
  /\ painted \in [Editors -> [Modes -> Stamps]]

(* One kind at most is painted, in any editor: the one known to be applied. *)
AppliedOnly ==
  \A e \in Editors, m \in Modes : painted[e][m] # <<>> => applied[e] = m

On == mode # "off" /\ Enabled

(* Nothing is painted where annotations are off, whatever is under way. *)
Clear == ~On => \A e \in visible \ missed : painted[e] = Bare

(* Renders are of editors that are shown, and of a version there has been. *)
OfShown == \A r \in renders : r.editor \in visible /\ r.version <= version

Current(r) == r.latest /\ r.version = version

(* Where one editor shows the document, a render that is to have an effect is of the
   mode and the blame as they are ... *)
Fresh ==
  On => \A e \in Editors : visible = {e} =>
    \A r \in renders : Current(r) => r.mode = mode /\ r.epoch = epoch

(* ... and there is one, or the timer is set for one, until what is painted is. *)
Painted(e) == painted[e] = [Bare EXCEPT ![mode] = doc]

Reached ==
  On /\ ~unblamed => \A e \in Editors : visible = {e} =>
    Painted(e) \/ timer \/ \E r \in renders : Current(r)

AnnotationsInv ==
  TypeOK /\ AppliedOnly /\ Clear /\ OfShown /\ Fresh /\ Reached

-----------------------------------------------------------------------------
LEMMA BareType == Bare \in [Modes -> Stamps] /\ \A m \in Modes : Bare[m] = <<>>
  BY DEF Bare, Stamps

LEMMA InitAnnotations == ASSUME FileAnnotationsAssumption, Init PROVE AnnotationsInv
<1>1. TypeOK
  BY BareType DEF Init, TypeOK, Kinds
<1>2. AppliedOnly
  BY BareType DEF Init, AppliedOnly
<1>3. Clear /\ OfShown /\ Fresh /\ Reached
  BY DEF Init, Clear, OfShown, Fresh, Reached, On
<1> QED BY <1>1, <1>2, <1>3 DEF AnnotationsInv

-----------------------------------------------------------------------------
(* Renders that begin, and those they supersede. *)
LEMMA SupersededOnes ==
  ASSUME NEW old, old \subseteq RenderType,
         NEW r \in {[q EXCEPT !.latest = FALSE] : q \in old}
  PROVE  r \in RenderType /\ ~r.latest /\ \E q \in old : r.editor = q.editor /\ r.version = q.version
<1>1. PICK q \in old : r = [q EXCEPT !.latest = FALSE]
  OBVIOUS
<1>2. q \in RenderType
  BY <1>1
<1>3. /\ r.editor = q.editor /\ r.version = q.version /\ r.latest = FALSE /\ r \in RenderType
  BY <1>1, <1>2 DEF RenderType
<1> QED BY <1>1, <1>3

LEMMA WaitingOnes ==
  ASSUME NEW editors \in SUBSET Editors, NEW to \in Modes, NEW last,
         version' \in Nat, epoch' \in Nat, NEW r \in Waiting(editors, to, last)
  PROVE  /\ r \in RenderType /\ r.editor \in editors /\ r.mode = to
         /\ r.version = version' /\ r.epoch = epoch' /\ (r.latest => r.editor = last)
<1>1. PICK e \in editors :
        r = [editor |-> e, mode |-> to, version |-> version', epoch |-> epoch', latest |-> e = last]
  BY DEF Waiting
<1>2. (e = last) \in BOOLEAN
  OBVIOUS
<1> QED BY <1>1, <1>2 DEF RenderType

\* A render superseded by renders of the given editors, of which the last one counts.
Begun(old, editors, to, last) ==
  renders' = {[q EXCEPT !.latest = FALSE] : q \in old} \cup Waiting(editors, to, last)

\* What a step leaves of the renders, each of an editor that is shown.
Known(old, editors) ==
  \A r \in renders' :
    \/ r.editor \in editors /\ r.version = version'
    \/ \E q \in old : r.editor = q.editor /\ r.version = q.version

\* The only render that may have an effect is of the mode and of the document.
Renewed == /\ \A r \in renders' : r.latest => r.mode = mode' /\ r.epoch = epoch'
           /\ \E r \in renders' : r.latest /\ r.version = version'

LEMMA BegunRenews ==
  ASSUME NEW old, old \subseteq RenderType, NEW editors \in SUBSET Editors, NEW to \in Modes,
         NEW last \in editors, version' \in Nat, epoch' \in Nat, Begun(old, editors, to, last)
  PROVE  renders' \subseteq RenderType /\ Known(old, editors) /\ (mode' = to => Renewed)
<1>1. ASSUME NEW r \in renders'
      PROVE  /\ r \in RenderType
             /\ \/ r.editor \in editors /\ r.version = version'
                \/ \E q \in old : r.editor = q.editor /\ r.version = q.version
             /\ r.latest => r.mode = to /\ r.epoch = epoch'
  <2>1. CASE r \in {[q EXCEPT !.latest = FALSE] : q \in old}
    BY <2>1, SupersededOnes
  <2>2. CASE r \in Waiting(editors, to, last)
    BY <2>2, WaitingOnes
  <2> QED BY <1>1, <2>1, <2>2 DEF Begun
<1>2. PICK r \in renders' :
        r = [editor |-> last, mode |-> to, version |-> version', epoch |-> epoch', latest |-> last = last]
  BY DEF Begun, Waiting
<1>3. r.latest /\ r.version = version'
  BY <1>2
<1> QED BY <1>1, <1>2, <1>3 DEF Known, Renewed

-----------------------------------------------------------------------------
(* Decorations that are cleared. *)
LEMMA ClearedScreen ==
  ASSUME TypeOK, AppliedOnly, NEW editors, Cleared(editors)
  PROVE  /\ applied' \in [Editors -> Kinds] /\ painted' \in [Editors -> [Modes -> Stamps]]
         /\ AppliedOnly' /\ missed' = missed \ editors
         /\ \A e \in Editors : painted'[e] = IF e \in editors THEN Bare ELSE painted[e]
<1>1. /\ applied' = [e \in Editors |-> IF e \in editors THEN "off" ELSE applied[e]]
      /\ painted' = [e \in Editors |-> IF e \in editors THEN Bare ELSE painted[e]]
      /\ missed' = missed \ editors
  BY DEF Cleared
<1>2. applied' \in [Editors -> Kinds] /\ painted' \in [Editors -> [Modes -> Stamps]]
  BY <1>1, BareType DEF TypeOK, Kinds
<1>3. AppliedOnly'
  BY <1>1, BareType DEF AppliedOnly
<1> QED BY <1>1, <1>2, <1>3

\* What render does to what is painted, and to the renders under way.
LEMMA RenderDoes ==
  ASSUME TypeOK, AppliedOnly, version' \in Nat, epoch' \in Nat,
         NEW editors \in SUBSET Editors, NEW to \in Modes \cup {"off"}, NEW on,
         Render(editors, to, on)
  PROVE  /\ unblamed' = unblamed /\ renders' \subseteq RenderType /\ Known(renders, editors)
         /\ applied' \in [Editors -> Kinds] /\ painted' \in [Editors -> [Modes -> Stamps]]
         /\ AppliedOnly'
         /\ to = "off" \/ ~on =>
              /\ missed' = missed \ editors
              /\ \A e \in Editors : painted'[e] = IF e \in editors THEN Bare ELSE painted[e]
         /\ ~(to = "off" \/ ~on) => (mode' = to /\ editors # {} => Renewed)
<1>1. Known(renders, editors) \/ renders' # renders
  BY DEF Known
<1>2. CASE to = "off" \/ ~on
  <2>1. Cleared(editors) /\ renders' = renders /\ unblamed' = unblamed
    BY <1>2 DEF Render
  <2>2. renders' \subseteq RenderType /\ Known(renders, editors)
    BY <1>1, <2>1 DEF TypeOK
  <2> QED BY <1>2, <2>1, <2>2, ClearedScreen
<1>3. CASE ~(to = "off" \/ ~on)
  <2>1. UNCHANGED <<unblamed, applied, painted, missed>>
    BY <1>3 DEF Render, screen
  <2>2. /\ AppliedOnly' /\ applied' \in [Editors -> Kinds]
        /\ painted' \in [Editors -> [Modes -> Stamps]]
    BY <2>1 DEF AppliedOnly, TypeOK
  <2>3. CASE editors = {}
    <3>1. renders' = renders
      BY <1>3, <2>3 DEF Render
    <3> QED BY <1>1, <1>3, <2>1, <2>2, <2>3, <3>1 DEF TypeOK
  <2>4. CASE editors # {}
    <3>1. PICK last \in editors : Begun(renders, editors, to, last)
      BY <1>3, <2>4 DEF Render, Begun, Superseded
    <3>2. renders' \subseteq RenderType /\ Known(renders, editors) /\ (mode' = to => Renewed)
      BY <1>3, <3>1, BegunRenews DEF TypeOK
    <3> QED BY <1>3, <2>1, <2>2, <3>2
  <2> QED BY <2>3, <2>4
<1> QED BY <1>2, <1>3

\* Renders a forced one begins: it is the only one that may have an effect.
LEMMA ForcedDoes ==
  ASSUME FileAnnotationsAssumption, TypeOK, AppliedOnly, version' \in Nat, epoch' \in Nat,
         NEW editors \in SUBSET Editors, NEW e \in Editors, Forced(editors, e)
  PROVE  /\ unblamed' = unblamed /\ renders' \subseteq RenderType
         /\ Known(renders, editors \cup {e})
         /\ applied' \in [Editors -> Kinds] /\ painted' \in [Editors -> [Modes -> Stamps]]
         /\ AppliedOnly' /\ mode' = "blame" /\ Renewed
<1> DEFINE eds == IF mode = "off" THEN {} ELSE editors
<1>1. /\ renders' = Superseded \cup Waiting(eds, mode, NONE) \cup Waiting({e}, "blame", e)
      /\ mode' = "blame" /\ unblamed' = unblamed
  BY DEF Forced
<1>2. "blame" \in Modes /\ NONE \notin Editors /\ renders \subseteq RenderType
  BY DEF FileAnnotationsAssumption, TypeOK
<1>3. ASSUME NEW r \in renders'
      PROVE  /\ r \in RenderType
             /\ \/ r.editor \in editors \cup {e} /\ r.version = version'
                \/ \E q \in renders : r.editor = q.editor /\ r.version = q.version
             /\ r.latest => r.mode = "blame" /\ r.epoch = epoch'
  <2>1. CASE r \in Superseded
    BY <1>2, <2>1, SupersededOnes DEF Superseded
  <2>2. CASE r \in Waiting(eds, mode, NONE)
    <3>1. mode \in Modes /\ eds \in SUBSET Editors /\ eds \subseteq editors
      BY <2>2 DEF Waiting, TypeOK
    <3>2. /\ r.editor \in eds /\ r \in RenderType /\ r.version = version'
          /\ (r.latest => r.editor = NONE)
      BY <2>2, <3>1, WaitingOnes
    <3> QED BY <1>2, <3>1, <3>2
  <2>3. CASE r \in Waiting({e}, "blame", e)
    BY <1>2, <2>3, WaitingOnes
  <2> QED BY <1>1, <1>3, <2>1, <2>2, <2>3
<1>4. PICK r \in renders' :
        r = [editor |-> e, mode |-> "blame", version |-> version', epoch |-> epoch', latest |-> e = e]
  BY <1>1 DEF Waiting
<1>5. r.latest /\ r.version = version'
  BY <1>4
<1>6. Renewed
  BY <1>1, <1>3, <1>4, <1>5 DEF Renewed
<1>7. renders' \subseteq RenderType /\ Known(renders, editors \cup {e})
  BY <1>3 DEF Known
<1>8. CASE mode = "off"
  <2>1. Cleared(editors)
    BY <1>8 DEF Forced
  <2> QED BY <1>1, <1>6, <1>7, <2>1, ClearedScreen
<1>9. CASE mode # "off"
  <2>1. UNCHANGED <<applied, painted>>
    BY <1>9 DEF Forced, screen
  <2> QED BY <1>1, <1>6, <1>7, <2>1 DEF TypeOK, AppliedOnly
<1> QED BY <1>8, <1>9

-----------------------------------------------------------------------------
(* What a step has to leave. *)
LEMMA ShownKept ==
  ASSUME OfShown, NEW editors, Known(renders, editors), editors \subseteq visible',
         visible \subseteq visible', version \in Nat, version' \in Nat, version <= version',
         renders \subseteq RenderType
  PROVE  OfShown'
  BY DEF OfShown, Known, RenderType

LEMMA RenewedKeeps == ASSUME Renewed PROVE Fresh' /\ Reached'
  BY DEF Renewed, Fresh, Reached, Current

LEMMA OffKeeps == ASSUME ~On' PROVE Fresh' /\ Reached'
  BY DEF Fresh, Reached

LEMMA OnKeeps == ASSUME On' PROVE Clear'
  BY DEF Clear

\* Renders where annotations are off clear the editors; where on, they are those of
\* the mode.
LEMMA RenderKeeps ==
  ASSUME AnnotationsInv, NEW editors \in SUBSET Editors, NEW to \in Modes \cup {"off"},
         Render(editors, to, ui' # "zen"), mode' = to, version' = version, epoch' \in Nat,
         visible' = visible, timer' \in BOOLEAN, ui' \in {"normal", "zen", "review"},
         active' \in visible \cup {NONE}, editors \subseteq visible,
         ~On' => (editors = visible \/ ~On),
         On' => \A e \in Editors : visible = {e} => e \in editors
  PROVE  AnnotationsInv'
<1> DEFINE on == ui' # "zen"
<1>1. /\ unblamed' = unblamed /\ renders' \subseteq RenderType /\ Known(renders, editors)
      /\ applied' \in [Editors -> Kinds] /\ painted' \in [Editors -> [Modes -> Stamps]]
      /\ AppliedOnly'
      /\ (to = "off" \/ ~on =>
            /\ missed' = missed \ editors
            /\ \A e \in Editors : painted'[e] = IF e \in editors THEN Bare ELSE painted[e])
      /\ (~(to = "off" \/ ~on) => (mode' = to /\ editors # {} => Renewed))
  BY RenderDoes DEF AnnotationsInv, TypeOK
<1>2. On' <=> ~(to = "off" \/ ~on)
  BY DEF On, Enabled
<1>3. TypeOK'
  BY <1>1 DEF AnnotationsInv, TypeOK
<1>4. OfShown'
  BY <1>1, ShownKept DEF AnnotationsInv, TypeOK
<1>5. CASE On'
  <2>1. CASE editors # {}
    BY <1>1, <1>2, <1>3, <1>4, <1>5, <2>1, RenewedKeeps, OnKeeps DEF AnnotationsInv
  <2>2. CASE editors = {}
    <3>1. \A e \in Editors : visible' # {e}
      BY <1>5, <2>2
    <3>2. Fresh' /\ Reached'
      BY <3>1 DEF Fresh, Reached
    <3> QED BY <1>1, <1>3, <1>4, <1>5, <3>2, OnKeeps DEF AnnotationsInv
  <2> QED BY <2>1, <2>2
<1>6. CASE ~On'
  <2>1. /\ missed' = missed \ editors
        /\ \A e \in Editors : painted'[e] = IF e \in editors THEN Bare ELSE painted[e]
    BY <1>1, <1>2, <1>6
  <2>2. \A e \in visible' \ missed' : painted'[e] = Bare
    <3>1. CASE editors = visible
      BY <2>1, <3>1 DEF AnnotationsInv, TypeOK
    <3>2. CASE ~On
      BY <2>1, <3>2 DEF AnnotationsInv, TypeOK, Clear
    <3> QED BY <1>6, <3>1, <3>2
  <2>3. Clear'
    BY <2>2 DEF Clear
  <2> QED BY <1>1, <1>3, <1>4, <1>6, <2>3, OffKeeps DEF AnnotationsInv
<1> QED BY <1>5, <1>6

LEMMA ForcedKeeps ==
  ASSUME FileAnnotationsAssumption, AnnotationsInv, NEW editors \in SUBSET Editors,
         NEW e \in Editors, Forced(editors, e), ui' \in {"normal", "review"},
         UNCHANGED <<version, epoch, timer, visible>>, active' \in visible \cup {NONE},
         editors \cup {e} \subseteq visible
  PROVE  AnnotationsInv'
<1>1. /\ unblamed' = unblamed /\ renders' \subseteq RenderType
      /\ Known(renders, editors \cup {e})
      /\ applied' \in [Editors -> Kinds] /\ painted' \in [Editors -> [Modes -> Stamps]]
      /\ AppliedOnly' /\ mode' = "blame" /\ Renewed
  BY ForcedDoes DEF AnnotationsInv, TypeOK
<1>2. On' /\ mode' \in Modes
  BY <1>1 DEF On, Enabled, FileAnnotationsAssumption
<1>3. TypeOK'
  BY <1>1, <1>2 DEF AnnotationsInv, TypeOK
<1>4. OfShown'
  BY <1>1, ShownKept DEF AnnotationsInv, TypeOK
<1> QED BY <1>1, <1>2, <1>3, <1>4, RenewedKeeps, OnKeeps DEF AnnotationsInv

-----------------------------------------------------------------------------
(* One lemma per action. *)
LEMMA ChooseKeeps ==
  ASSUME AnnotationsInv, NEW to \in Modes \cup {"off"}, Choose(to)
  PROVE  AnnotationsInv'
<1>1. /\ active \in visible /\ active \in Editors /\ active # NONE
      /\ mode' = to /\ UNCHANGED <<version, epoch, ui, visible, active, timer>>
  BY DEF Choose, AnnotationsInv, TypeOK, doc
<1>2. CASE to = "off"
  <2>1. /\ applied' = [applied EXCEPT ![active] = "off"]
        /\ painted' = [painted EXCEPT ![active] = Bare]
        /\ missed' = {e \in visible \ {active} : painted[e] # Bare}
        /\ UNCHANGED <<renders, unblamed>>
    BY <1>2 DEF Choose
  <2>2. TypeOK'
    BY <1>1, <2>1, BareType DEF AnnotationsInv, TypeOK, Kinds
  <2>3. AppliedOnly'
    <3> SUFFICES ASSUME NEW e \in Editors, NEW m \in Modes, painted'[e][m] # <<>>
                 PROVE  applied'[e] = m
      BY DEF AppliedOnly
    <3>1. e # active
      BY <1>1, <2>1, BareType DEF AnnotationsInv, TypeOK
    <3> QED BY <2>1, <3>1 DEF AnnotationsInv, AppliedOnly, TypeOK
  <2>4. Clear'
    BY <1>1, <2>1 DEF Clear, AnnotationsInv, TypeOK
  <2>5. OfShown'
    BY <1>1, <2>1 DEF OfShown, AnnotationsInv
  <2>6. ~On'
    BY <1>1, <1>2 DEF On
  <2> QED BY <2>2, <2>3, <2>4, <2>5, <2>6, OffKeeps DEF AnnotationsInv
<1>3. CASE to # "off"
  <2>1. Render({active}, to, ui' # "zen")
    BY <1>1, <1>3 DEF Choose, Enabled
  <2>2. ~On' => ~On
    BY <1>1, <1>3 DEF On, Enabled
  <2>3. \A e \in Editors : visible = {e} => e \in {active}
    BY <1>1
  <2>4. /\ {active} \in SUBSET Editors /\ {active} \subseteq visible /\ epoch' \in Nat
        /\ timer' \in BOOLEAN /\ ui' \in {"normal", "zen", "review"}
        /\ active' \in visible \cup {NONE}
    BY <1>1 DEF AnnotationsInv, TypeOK
  <2> QED BY <1>1, <2>1, <2>2, <2>3, <2>4, RenderKeeps
<1> QED BY <1>2, <1>3

LEMMA SwitchKeeps ==
  ASSUME FileAnnotationsAssumption, AnnotationsInv, NEW next \in {"normal", "zen", "review"},
         Switch(next)
  PROVE  AnnotationsInv'
<1> DEFINE refreshed == IF ui = "zen" THEN visible ELSE {}
<1>1. ui' = next /\ UNCHANGED <<version, epoch, visible, active, timer>>
  BY DEF Switch, doc
<1>2. CASE next = "zen"
  <2>1. Cleared(visible) /\ UNCHANGED <<mode, renders, unblamed>>
    BY <1>2 DEF Switch
  <2>2. /\ applied' \in [Editors -> Kinds] /\ painted' \in [Editors -> [Modes -> Stamps]]
        /\ AppliedOnly' /\ missed' = missed \ visible
        /\ \A e \in Editors : painted'[e] = IF e \in visible THEN Bare ELSE painted[e]
    BY <2>1, ClearedScreen DEF AnnotationsInv
  <2>3. TypeOK'
    BY <1>1, <1>2, <2>1, <2>2 DEF AnnotationsInv, TypeOK
  <2>4. Clear'
    BY <1>1, <2>2, <2>3 DEF Clear, TypeOK
  <2>5. OfShown'
    BY <1>1, <2>1 DEF OfShown, AnnotationsInv
  <2>6. ~On'
    BY <1>1, <1>2 DEF On, Enabled
  <2> QED BY <2>2, <2>3, <2>4, <2>5, <2>6, OffKeeps DEF AnnotationsInv
<1>3. CASE next = "review" /\ active # NONE
  <2>1. Forced(refreshed, active) /\ active \in visible /\ active \in Editors
    BY <1>3 DEF Switch, AnnotationsInv, TypeOK
  <2>2. refreshed \in SUBSET Editors /\ refreshed \cup {active} \subseteq visible
    BY <2>1 DEF AnnotationsInv, TypeOK
  <2> QED BY <1>1, <1>3, <2>1, <2>2, ForcedKeeps DEF AnnotationsInv, TypeOK
<1>4. CASE next # "zen" /\ ~(next = "review" /\ active # NONE)
  <2>1. Render(refreshed, mode, TRUE) /\ mode' = mode
    BY <1>4 DEF Switch
  <2>2. CASE ui = "zen"
    <3>1. Render(visible, mode, ui' # "zen")
      BY <1>1, <1>4, <2>1, <2>2
    <3> QED BY <1>1, <1>4, <2>1, <3>1, RenderKeeps DEF AnnotationsInv, TypeOK
  <2>3. CASE ui # "zen" /\ mode = "off"
    <3>1. Render({}, mode, ui' # "zen") /\ ~On /\ ~On'
      BY <1>1, <1>4, <2>1, <2>3 DEF On
    <3> QED BY <1>1, <1>4, <2>1, <3>1, RenderKeeps DEF AnnotationsInv, TypeOK
  <2>4. CASE ui # "zen" /\ mode # "off"
    <3>1. UNCHANGED <<renders, applied, painted, missed, unblamed>>
      BY <2>1, <2>4 DEF Render, screen
    <3>2. On /\ On'
      BY <1>1, <1>4, <2>1, <2>4 DEF On, Enabled
    <3>3. TypeOK' /\ AppliedOnly' /\ OfShown'
      BY <1>1, <1>4, <2>1, <3>1 DEF AnnotationsInv, TypeOK, AppliedOnly, OfShown
    <3>4. Fresh' /\ Reached'
      BY <1>1, <2>1, <3>1, <3>2 DEF AnnotationsInv, Fresh, Reached, Painted, Current, doc
    <3> QED BY <3>2, <3>3, <3>4, OnKeeps DEF AnnotationsInv
  <2> QED BY <2>2, <2>3, <2>4
<1> QED BY <1>2, <1>3, <1>4

LEMMA FocusKeeps ==
  ASSUME FileAnnotationsAssumption, AnnotationsInv, NEW e \in Editors, Focus(e)
  PROVE  AnnotationsInv'
<1>1. e \in visible /\ active' = e /\ UNCHANGED <<version, epoch, ui, visible, timer>>
  BY DEF Focus, doc
<1>2. CASE ui = "review"
  <2>1. Forced({e}, e)
    BY <1>2 DEF Focus
  <2> QED BY <1>1, <1>2, <2>1, ForcedKeeps DEF AnnotationsInv, TypeOK
<1>3. CASE ui # "review"
  <2>1. Render({e}, mode, ui' # "zen") /\ mode' = mode
    BY <1>1, <1>3 DEF Focus, Enabled
  <2>2. (On' <=> On) /\ \A d \in Editors : visible = {d} => d \in {e}
    BY <1>1, <2>1 DEF On, Enabled
  <2>3. /\ {e} \in SUBSET Editors /\ {e} \subseteq visible /\ epoch' \in Nat
        /\ timer' \in BOOLEAN /\ ui' \in {"normal", "zen", "review"}
        /\ mode \in Modes \cup {"off"}
    BY <1>1 DEF AnnotationsInv, TypeOK
  <2> QED BY <1>1, <2>1, <2>2, <2>3, RenderKeeps
<1> QED BY <1>2, <1>3

LEMMA RefreshKeeps ==
  ASSUME AnnotationsInv, TimerFires \/ Refresh
  PROVE  AnnotationsInv'
<1>1. /\ UNCHANGED <<version, mode, ui, visible, active>> /\ Render(visible, mode, ui' # "zen")
      /\ epoch' \in Nat /\ timer' \in BOOLEAN
  <2>1. CASE TimerFires
    BY <2>1 DEF TimerFires, doc, Enabled, AnnotationsInv, TypeOK
  <2>2. CASE Refresh
    BY <2>2 DEF Refresh, Enabled, AnnotationsInv, TypeOK
  <2> QED BY <2>1, <2>2
<1>2. /\ visible \in SUBSET Editors /\ mode \in Modes \cup {"off"}
      /\ ui' \in {"normal", "zen", "review"}
      /\ active' \in visible \cup {NONE}
  BY <1>1 DEF AnnotationsInv, TypeOK
<1> QED BY <1>1, <1>2, RenderKeeps

LEMMA EditKeeps ==
  ASSUME AnnotationsInv, Edit
  PROVE  AnnotationsInv'
<1>1. /\ version' = version + 1 /\ timer' = (timer \/ mode # "off")
      /\ UNCHANGED <<epoch, mode, ui, visible, active, renders, applied, painted, unblamed, missed>>
  BY DEF Edit, screen
<1>2. TypeOK' /\ AppliedOnly'
  BY <1>1 DEF AnnotationsInv, TypeOK, AppliedOnly
<1>3. OfShown' /\ \A r \in renders' : ~Current(r)'
  BY <1>1 DEF AnnotationsInv, OfShown, Current, TypeOK, RenderType
<1>4. Clear'
  BY <1>1 DEF AnnotationsInv, Clear, On, Enabled
<1>5. Fresh' /\ Reached'
  BY <1>1, <1>3 DEF Fresh, Reached, On
<1> QED BY <1>2, <1>3, <1>4, <1>5 DEF AnnotationsInv

LEMMA CloseKeeps ==
  ASSUME AnnotationsInv, Close
  PROVE  AnnotationsInv'
<1>1. /\ visible = {} /\ version' = 1 /\ mode' = "off" /\ timer' = FALSE /\ renders' = {}
      /\ missed' = {} /\ UNCHANGED <<epoch, ui, visible, active, applied, painted, unblamed>>
  BY DEF Close, screen
<1>2. TypeOK' /\ AppliedOnly' /\ OfShown'
  BY <1>1 DEF AnnotationsInv, TypeOK, AppliedOnly, OfShown
<1>3. ~On' /\ Clear'
  BY <1>1 DEF On, Clear
<1> QED BY <1>2, <1>3, OffKeeps DEF AnnotationsInv

LEMMA ShowKeeps ==
  ASSUME AnnotationsInv, NEW editors \in SUBSET Editors, Show(editors)
  PROVE  AnnotationsInv'
<1> DEFINE gone == Editors \ (editors \cap visible)
           cleared == IF mode = "off" \/ ~Enabled THEN editors ELSE {}
           left == {r \in renders : r.editor \notin gone}
<1>1. /\ visible' = editors /\ active' = IF active \in editors THEN active ELSE NONE
      /\ UNCHANGED <<version, epoch, mode, ui, timer, unblamed>>
      /\ applied' = [e \in Editors |-> IF e \in cleared THEN "off"
                                       ELSE IF e \in gone THEN NONE ELSE applied[e]]
      /\ painted' = [e \in Editors |-> IF e \in gone \cup cleared THEN Bare ELSE painted[e]]
      /\ missed' = missed \ (gone \cup cleared)
  BY DEF Show, doc
<1>2. applied' \in [Editors -> Kinds] /\ painted' \in [Editors -> [Modes -> Stamps]]
  BY <1>1, BareType DEF AnnotationsInv, TypeOK, Kinds
<1>3. AppliedOnly'
  BY <1>1, BareType DEF AnnotationsInv, AppliedOnly
<1>4. left \subseteq RenderType /\ \A r \in left : r.editor \in editors /\ r.version <= version
  BY DEF AnnotationsInv, TypeOK, OfShown, RenderType
<1>5. On <=> On'
  BY <1>1 DEF On, Enabled
<1>6. CASE cleared # {} \/ editors = {}
  <2>1. renders' = left
    BY <1>6 DEF Show
  <2>2. TypeOK'
    BY <1>1, <1>2, <1>4, <2>1 DEF AnnotationsInv, TypeOK
  <2>3. OfShown'
    BY <1>1, <1>4, <2>1 DEF OfShown
  <2>4. CASE editors = {}
    <3>1. Clear' /\ Fresh' /\ Reached'
      BY <1>1, <2>4 DEF Clear, Fresh, Reached
    <3> QED BY <1>3, <2>2, <2>3, <3>1 DEF AnnotationsInv
  <2>5. CASE editors # {}
    <3>1. cleared = editors /\ ~On /\ ~On'
      BY <1>5, <1>6, <2>5 DEF On
    <3>2. \A e \in visible' : painted'[e] = Bare
      BY <1>1, <3>1
    <3>3. Clear'
      BY <3>2 DEF Clear
    <3> QED BY <1>3, <2>2, <2>3, <3>1, <3>3, OffKeeps DEF AnnotationsInv
  <2> QED BY <2>4, <2>5
<1>7. CASE ~(cleared # {} \/ editors = {})
  <2>1. mode # "off" /\ Enabled /\ On /\ mode \in Modes
    BY <1>7 DEF On, AnnotationsInv, TypeOK
  <2>2. PICK last \in editors : Begun(left, editors, mode, last)
    BY <1>7 DEF Show, Begun
  <2>3. renders' \subseteq RenderType /\ Known(left, editors) /\ Renewed
    BY <1>1, <1>4, <2>1, <2>2, BegunRenews DEF AnnotationsInv, TypeOK
  <2>4. TypeOK'
    BY <1>1, <1>2, <2>3 DEF AnnotationsInv, TypeOK
  <2>5. OfShown'
    BY <1>1, <1>4, <2>3 DEF OfShown, Known, AnnotationsInv, TypeOK
  <2> QED BY <1>3, <1>5, <2>1, <2>3, <2>4, <2>5, RenewedKeeps, OnKeeps DEF AnnotationsInv
<1> QED BY <1>6, <1>7

\* What applyMode paints is of the render's mode alone, and of its document.
LEMMA AppliedIs ==
  ASSUME FileAnnotationsAssumption, TypeOK, AppliedOnly, NEW r \in RenderType
  PROVE  /\ Applied(r) = [Bare EXCEPT ![r.mode] = <<r.version, r.epoch>>]
         /\ Applied(r) \in [Modes -> Stamps]
         /\ \A m \in Modes : Applied(r)[m] # <<>> => m = r.mode
<1> DEFINE e == r.editor
           before == applied[e]
           rest == IF before = NONE THEN Bare
                   ELSE IF before = "off" THEN painted[e]
                   ELSE [painted[e] EXCEPT ![before] = <<>>]
<1>1. /\ e \in Editors /\ r.mode \in Modes /\ r.version \in Nat /\ r.epoch \in Nat
      /\ painted[e] \in [Modes -> Stamps] /\ before \in Kinds
      /\ "off" \notin Modes /\ NONE \notin Modes
  BY DEF RenderType, TypeOK, FileAnnotationsAssumption
<1>2. rest \in [Modes -> Stamps]
  BY <1>1, BareType DEF Stamps
<1>3. \A m \in Modes : rest[m] = <<>>
  BY <1>1, BareType DEF AppliedOnly
<1>4. rest = Bare
  BY <1>2, <1>3, BareType
<1>5. Applied(r) = [rest EXCEPT ![r.mode] = <<r.version, r.epoch>>]
  BY DEF Applied
<1>6. Applied(r) = [Bare EXCEPT ![r.mode] = <<r.version, r.epoch>>]
  BY <1>4, <1>5
<1>7. <<r.version, r.epoch>> \in Stamps
  BY <1>1 DEF Stamps
<1> HIDE DEF rest
<1> QED BY <1>1, <1>6, <1>7, BareType

LEMMA AnswerKeeps ==
  ASSUME FileAnnotationsAssumption, AnnotationsInv, NEW r \in renders, NEW blamed \in BOOLEAN,
         Answer(r, blamed)
  PROVE  AnnotationsInv'
<1> DEFINE e == r.editor
<1>1. /\ renders' = renders \ {r}
      /\ UNCHANGED <<version, epoch, mode, ui, visible, active, timer>>
      /\ r \in RenderType /\ e \in Editors /\ r.mode \in Modes /\ e \in visible
  BY DEF Answer, doc, AnnotationsInv, TypeOK, RenderType, OfShown
<1>2. OfShown' /\ Fresh' /\ (On <=> On')
  BY <1>1 DEF AnnotationsInv, OfShown, Fresh, On, Enabled, Current
<1>3. CASE ~InEffect(r)
  <2>1. UNCHANGED <<applied, painted, unblamed, missed>> /\ ~Current(r)
    BY <1>1, <1>3 DEF Answer, screen, InEffect, Current
  <2>2. TypeOK' /\ AppliedOnly' /\ Clear'
    BY <1>1, <1>2, <2>1 DEF AnnotationsInv, TypeOK, AppliedOnly, Clear
  <2>3. Reached'
    BY <1>1, <1>2, <2>1 DEF AnnotationsInv, Reached, Current, Painted, doc
  <2> QED BY <1>2, <2>2, <2>3 DEF AnnotationsInv
<1>4. CASE InEffect(r)
  <2>1. /\ applied' = [applied EXCEPT ![e] = IF blamed THEN r.mode ELSE "off"]
        /\ painted' = [painted EXCEPT ![e] = IF blamed THEN Applied(r) ELSE Bare]
        /\ unblamed' = ~blamed
        /\ missed' = IF blamed /\ (mode = "off" \/ ~Enabled) THEN missed \cup {e}
                     ELSE missed \ {e}
    BY <1>4 DEF Answer
  <2>2. /\ Applied(r) = [Bare EXCEPT ![r.mode] = <<r.version, r.epoch>>]
        /\ Applied(r) \in [Modes -> Stamps]
        /\ \A m \in Modes : Applied(r)[m] # <<>> => m = r.mode
    BY <1>1, AppliedIs DEF AnnotationsInv
  <2>3. applied' \in [Editors -> Kinds] /\ painted' \in [Editors -> [Modes -> Stamps]]
    BY <1>1, <2>1, <2>2, BareType DEF AnnotationsInv, TypeOK, Kinds
  <2>4. unblamed' \in BOOLEAN
    BY <2>1
  <2>5. TypeOK'
    BY <1>1, <2>3, <2>4 DEF AnnotationsInv, TypeOK
  <2>6. AppliedOnly'
    <3> SUFFICES ASSUME NEW d \in Editors, NEW m \in Modes, painted'[d][m] # <<>>
                 PROVE  applied'[d] = m
      BY DEF AppliedOnly
    <3>1. CASE d # e
      BY <2>1, <3>1 DEF AnnotationsInv, TypeOK, AppliedOnly
    <3>2. CASE d = e
      <4>1. painted'[e] = (IF blamed THEN Applied(r) ELSE Bare)
            /\ applied'[e] = (IF blamed THEN r.mode ELSE "off")
        BY <1>1, <2>1 DEF AnnotationsInv, TypeOK
      <4> QED BY <2>2, <3>2, <4>1, BareType
    <3> QED BY <3>1, <3>2
  <2>7. Clear'
    <3> SUFFICES ASSUME ~On, NEW d \in visible \ missed'
                 PROVE  painted'[d] = Bare
      BY <1>1, <1>2 DEF Clear
    <3>1. CASE d # e
      BY <2>1, <3>1 DEF AnnotationsInv, TypeOK, Clear
    <3>2. CASE d = e
      <4>1. ~blamed
        BY <2>1, <3>2 DEF On
      <4> QED BY <1>1, <2>1, <3>2, <4>1 DEF AnnotationsInv, TypeOK
    <3> QED BY <3>1, <3>2
  <2>8. Reached'
    <3> SUFFICES ASSUME On, ~unblamed', NEW d \in Editors, visible = {d}
                 PROVE  Painted(d)'
      BY <1>1, <1>2 DEF Reached
    <3>1. d = e /\ blamed /\ Current(r)
      BY <1>1, <1>4, <2>1 DEF InEffect, Current
    <3>2. r.mode = mode /\ r.epoch = epoch /\ r.version = version
      BY <3>1 DEF AnnotationsInv, Fresh, Current
    <3>3. painted'[d] = Applied(r)
      BY <1>1, <2>1, <3>1 DEF AnnotationsInv, TypeOK
    <3> QED BY <1>1, <2>2, <3>2, <3>3 DEF Painted, doc, Bare
  <2> QED BY <1>2, <2>5, <2>6, <2>7, <2>8 DEF AnnotationsInv
<1> QED BY <1>3, <1>4

-----------------------------------------------------------------------------
LEMMA StepAnnotations ==
  ASSUME FileAnnotationsAssumption, AnnotationsInv, [Next]_vars PROVE AnnotationsInv'
<1>1. CASE UNCHANGED vars
  BY <1>1
  DEF vars, doc, screen, AnnotationsInv, TypeOK, AppliedOnly, Clear, OfShown, Fresh, Reached,
     On, Enabled, Current, Painted
<1> QED
  BY <1>1, ChooseKeeps, SwitchKeeps, ShowKeeps, FocusKeeps, CloseKeeps, EditKeeps, RefreshKeeps,
     AnswerKeeps DEF Next

(* Annotations are of one kind, those of the mode and of the document as it is once
   every render has ended, or none where they are off (annotations/fileAnnotations.ts,
   modes/modeController.ts). *)
THEOREM AnnotationsFollow == ASSUME FileAnnotationsAssumption PROVE Spec => []AnnotationsKept
<1>1. Init => AnnotationsInv
  BY InitAnnotations
<1>2. AnnotationsInv /\ [Next]_vars => AnnotationsInv'
  BY StepAnnotations
<1>3. AnnotationsInv => AnnotationsKept
  <2> SUFFICES ASSUME AnnotationsInv PROVE AnnotationsKept
    OBVIOUS
  <2>1. OneKind
    BY DEF AnnotationsInv, AppliedOnly, OneKind, TypeOK
  <2>2. UpToDate
    BY DEF AnnotationsInv, Reached, On, UpToDate, Settled, Painted
  <2>3. OffIsClear
    BY DEF AnnotationsInv, Clear, On, OffIsClear
  <2> QED BY <2>1, <2>2, <2>3 DEF AnnotationsKept
<1> QED BY <1>1, <1>2, <1>3, PTL DEF Spec

-----------------------------------------------------------------------------
(***************************************************************************)
(* LineBlame.  What the blame of the current line shows is of the line,    *)
(* once its timer and its pass have ended, for any number of editors and   *)
(* lines.                                                                  *)
(***************************************************************************)
PassType == [editor : Editors \cup {NONE}, line : Lines \cup {0}, version : Nat]

LineTypeOK ==
  /\ lineVersion \in Nat /\ lineLine \in [Editors -> Lines] /\ lineActive \in Editors \cup {NONE}
  /\ lineSurfaces \subseteq Line!Surfaces /\ lineTimer \in Editors \cup {NONE}
  /\ linePass \in PassType /\ lineTip \in PassType /\ lineInline \in [Editors -> PassType]
  /\ lineState \in PassType /\ lineTooltip \in PassType
  /\ {lineBarShown, lineUnblamed, lineTaken} \subseteq BOOLEAN

(* A pass is of an editor; a tooltip is rendered only while no pass is under way, for
   what the status bar says if it says something. *)
OnePass ==
  /\ linePass # Line!NoPass => linePass.editor # NONE /\ lineTip = Line!NoPass
  /\ lineBarShown => /\ lineActive # NONE
                     /\ lineTip # Line!NoPass => lineTip = lineState
                     /\ lineTooltip # Line!NoPass => lineTooltip = lineState

(* Where blame is not to show it does not. *)
OnlyWanted ==
  /\ "statusBar" \notin lineSurfaces => ~lineBarShown
  /\ lineActive # NONE /\ "inline" \notin lineSurfaces => lineInline[lineActive] = Line!NoPass

(* The active editor shows what is known of its line ... *)
Shows ==
  /\ lineInline[lineActive] # Line!NoPass => lineInline[lineActive] = Line!Here
  /\ lineBarShown => lineState = Line!Here
  /\ ~lineUnblamed => /\ "inline" \in lineSurfaces => lineInline[lineActive] = Line!Here
                      /\ "statusBar" \in lineSurfaces => lineBarShown

(* ... or the timer is set for it, or a pass under way is of its line as it is. *)
Awaited == lineActive # NONE /\ ~lineTaken => Shows \/ lineTimer = lineActive \/ (linePass # Line!NoPass /\ Line!Matches(linePass))

LineInv == LineTypeOK /\ OnePass /\ OnlyWanted /\ Awaited

-----------------------------------------------------------------------------
LEMMA InitLine == ASSUME Line!LineBlameAssumption, Line!Init PROVE LineInv
<1>1. Line!NoPass \in PassType
  BY DEF Line!NoPass, PassType
<1> QED
  BY <1>1
  DEF Line!LineBlameAssumption, Line!Init, LineInv, LineTypeOK, OnePass, OnlyWanted, Awaited,
      Line!Surfaces

LEMMA NoPassType == Line!NoPass \in PassType /\ Line!NoPass.editor = NONE
  BY DEF Line!NoPass, PassType

\* Clearing leaves nothing in the active editor nor in the status bar.
LEMMA Clears ==
  ASSUME LineTypeOK, lineActive' \in Editors \cup {NONE}, Line!Clear
  PROVE  /\ lineInline' \in [Editors -> PassType] /\ lineState' = Line!NoPass /\ lineTooltip' = lineTooltip
         /\ lineActive' # NONE => lineInline'[lineActive'] = Line!NoPass
         /\ lineBarShown' = FALSE
  BY NoPassType DEF LineTypeOK, Line!Clear, Line!ClearedInline

LEMMA Schedules ==
  ASSUME LineTypeOK, NEW e \in Editors \cup {NONE}, lineActive' \in Editors \cup {NONE},
         Line!Schedule(e)
  PROVE  /\ lineTimer' \in Editors \cup {NONE} /\ lineTaken' \in BOOLEAN
         /\ lineSurfaces' # {} /\ e # NONE /\ e = lineActive' => lineTimer' = lineActive'
         /\ lineSurfaces' = {} => UNCHANGED <<lineTimer, lineTaken>>
         /\ lineTaken /\ e # lineActive' => lineTaken'
         /\ e # lineActive' /\ ~lineTaken' /\ lineActive' # NONE /\ lineTimer = lineActive' => lineTimer' = lineActive'
  BY DEF LineTypeOK, Line!Schedule

\* Nothing is wanted, and nothing is shown.
LEMMA NothingShows ==
  ASSUME lineActive # NONE, lineSurfaces = {}, OnlyWanted PROVE Shows
  BY DEF OnlyWanted, Shows

LEMMA SelectKeeps ==
  ASSUME Line!LineBlameAssumption, LineInv, NEW e \in Editors, NEW to \in Lines, Line!Select(e, to)
  PROVE  LineInv'
<1> USE DEF LineInv
<1>1. /\ lineLine' = [lineLine EXCEPT ![e] = to] /\ Line!Schedule(e)
      /\ UNCHANGED <<lineVersion, lineActive, lineSurfaces, linePass, lineTip, Line!shown,
                     lineUnblamed>>
  BY DEF Line!Select
<1>2. LineTypeOK'
  BY <1>1, Schedules DEF LineTypeOK, Line!shown
<1>3. OnePass' /\ OnlyWanted'
  BY <1>1 DEF OnePass, OnlyWanted, Line!shown
<1>4. Awaited'
  <2> SUFFICES ASSUME lineActive # NONE, ~lineTaken'
               PROVE  Shows' \/ lineTimer' = lineActive \/ (linePass # Line!NoPass /\ Line!Matches(linePass))'
    BY <1>1 DEF Awaited
  <2>1. CASE lineSurfaces = {}
    <3>1. OnlyWanted' /\ lineSurfaces' = {} /\ lineActive' # NONE
      BY <1>1, <1>3, <2>1
    <3>2. Shows'
      BY <3>1 DEF OnlyWanted, Shows
    <3> QED BY <3>2
  <2>2. CASE lineSurfaces # {} /\ e = lineActive
    BY <1>1, <2>2, Schedules DEF LineTypeOK
  <2>3. CASE e # lineActive
    <3>1. lineLine'[lineActive] = lineLine[lineActive] /\ ~lineTaken
      BY <1>1, <2>3, Schedules DEF LineTypeOK
    <3>2. Shows => Shows'
      BY <1>1, <3>1 DEF Shows, Line!Here, Line!shown
    <3>3. linePass # Line!NoPass /\ Line!Matches(linePass) => (linePass # Line!NoPass /\ Line!Matches(linePass))'
      BY <1>1, <3>1 DEF Line!Matches
    <3>4. lineTimer = lineActive => lineTimer' = lineActive
      BY <1>1, <2>3, Schedules DEF LineTypeOK
    <3> QED BY <3>1, <3>2, <3>3, <3>4 DEF Awaited
  <2> QED BY <2>1, <2>2, <2>3
<1> QED BY <1>2, <1>3, <1>4

LEMMA ActivateKeeps ==
  ASSUME Line!LineBlameAssumption, LineInv, NEW e \in Editors \cup {NONE}, Line!Activate(e)
  PROVE  LineInv'
<1> USE DEF LineInv
<1>1. /\ lineActive' = e /\ Line!Clear /\ Line!Schedule(e)
      /\ UNCHANGED <<lineVersion, lineLine, lineSurfaces, linePass, lineTip, lineUnblamed>>
  BY DEF Line!Activate
<1>2. /\ lineInline' \in [Editors -> PassType] /\ lineState' = Line!NoPass
      /\ lineTooltip' = lineTooltip
      /\ (lineActive' # NONE => lineInline'[lineActive'] = Line!NoPass) /\ lineBarShown' = FALSE
  BY <1>1, Clears
<1>3. LineTypeOK'
  BY <1>1, <1>2, Schedules, NoPassType DEF LineTypeOK
<1>4. OnePass' /\ OnlyWanted'
  BY <1>1, <1>2 DEF OnePass, OnlyWanted
<1>5. Awaited'
  <2> SUFFICES ASSUME lineActive' # NONE PROVE Shows' \/ lineTimer' = lineActive'
    BY DEF Awaited
  <2>1. CASE lineSurfaces' = {}
    <3>1. Shows'
      BY <1>4, <2>1 DEF OnlyWanted, Shows
    <3> QED BY <3>1
  <2>2. CASE lineSurfaces' # {}
    BY <1>1, <2>2, Schedules
  <2> QED BY <2>1, <2>2
<1> QED BY <1>3, <1>4, <1>5

\* What the event is about awaits the timer, or nothing is wanted.
LEMMA ActiveScheduled ==
  ASSUME LineTypeOK, OnlyWanted', lineActive' = lineActive, lineActive # NONE,
         Line!Schedule(lineActive)
  PROVE  Shows' \/ lineTimer' = lineActive
<1>1. CASE lineSurfaces' = {}
  <2>1. Shows'
    BY <1>1 DEF OnlyWanted, Shows
  <2> QED BY <2>1
<1>2. CASE lineSurfaces' # {}
  BY <1>2, Schedules DEF LineTypeOK
<1> QED BY <1>1, <1>2

LEMMA LineEditKeeps == ASSUME Line!LineBlameAssumption, LineInv, Line!Edit PROVE LineInv'
<1> USE DEF LineInv
<1>1. /\ lineActive # NONE /\ lineVersion' = lineVersion + 1 /\ Line!Schedule(lineActive)
      /\ UNCHANGED <<lineLine, lineActive, lineSurfaces, linePass, lineTip, Line!shown,
                     lineUnblamed>>
  BY DEF Line!Edit
<1>2. LineTypeOK'
  BY <1>1, Schedules DEF LineTypeOK, Line!shown
<1>3. OnePass' /\ OnlyWanted'
  BY <1>1 DEF OnePass, OnlyWanted, Line!shown
<1>4. Awaited'
  BY <1>1, <1>3, ActiveScheduled DEF Awaited
<1> QED BY <1>2, <1>3, <1>4

LEMMA LineChooseKeeps ==
  ASSUME Line!LineBlameAssumption, LineInv, NEW to \in SUBSET Line!Surfaces, Line!Choose(to)
  PROVE  LineInv'
<1> USE DEF LineInv
<1>1. /\ lineSurfaces' = to /\ Line!Schedule(lineActive)
      /\ UNCHANGED <<lineVersion, lineLine, lineActive, linePass, lineTip, lineUnblamed>>
  BY DEF Line!Choose
<1>2. CASE to = {}
  <2>1. /\ lineInline' \in [Editors -> PassType] /\ lineState' = Line!NoPass
        /\ lineTooltip' = lineTooltip
        /\ (lineActive' # NONE => lineInline'[lineActive'] = Line!NoPass) /\ lineBarShown' = FALSE
    BY <1>1, <1>2, Clears DEF Line!Choose, LineTypeOK
  <2>2. LineTypeOK'
    BY <1>1, <2>1, Schedules, NoPassType DEF LineTypeOK
  <2>3. OnePass' /\ OnlyWanted'
    BY <1>1, <2>1 DEF OnePass, OnlyWanted
  <2>4. Awaited'
    BY <1>1, <2>3, ActiveScheduled DEF Awaited
  <2> QED BY <2>2, <2>3, <2>4
<1>3. CASE to # {}
  <2>1. /\ lineInline' = IF "inline" \in to THEN lineInline ELSE Line!ClearedInline
        /\ lineBarShown' = (lineBarShown /\ "statusBar" \in to)
        /\ UNCHANGED <<lineState, lineTooltip>>
    BY <1>3 DEF Line!Choose
  <2>2. /\ Line!ClearedInline \in [Editors -> PassType]
        /\ (lineActive # NONE => Line!ClearedInline[lineActive] = Line!NoPass)
    BY <1>1, NoPassType DEF Line!ClearedInline, LineTypeOK
  <2>3. lineInline' \in [Editors -> PassType] /\ lineBarShown' \in BOOLEAN
    BY <2>1, <2>2 DEF LineTypeOK
  <2>4. LineTypeOK'
    BY <1>1, <2>1, <2>3, Schedules DEF LineTypeOK
  <2>5. OnePass' /\ OnlyWanted'
    BY <1>1, <2>1, <2>2 DEF OnePass, OnlyWanted
  <2>6. Awaited'
    BY <1>1, <2>5, ActiveScheduled DEF Awaited
  <2> QED BY <2>4, <2>5, <2>6
<1> QED BY <1>2, <1>3

LEMMA TimerKeeps == ASSUME Line!LineBlameAssumption, LineInv, Line!TimerFires PROVE LineInv'
<1> USE DEF LineInv
<1>1. /\ lineTimer \in Editors /\ lineTimer' = NONE /\ lineTip' = Line!NoPass
      /\ linePass' = [editor |-> lineTimer, line |-> lineLine[lineTimer], version |-> lineVersion]
      /\ lineTaken' = (lineTaken \/ (lineTimer # lineActive /\ lineActive # NONE /\ linePass.editor = lineActive))
      /\ UNCHANGED <<lineVersion, lineLine, lineActive, lineSurfaces, Line!shown, lineUnblamed>>
  BY DEF Line!TimerFires, LineTypeOK
<1>2. linePass' \in PassType /\ lineTaken' \in BOOLEAN /\ linePass'.editor = lineTimer
  BY <1>1 DEF LineTypeOK, PassType
<1>3. LineTypeOK'
  BY <1>1, <1>2, NoPassType DEF LineTypeOK, Line!shown
<1>4. lineTimer # NONE /\ linePass' # Line!NoPass
  BY <1>1, <1>2, NoPassType DEF Line!LineBlameAssumption
<1>5. OnePass' /\ OnlyWanted'
  BY <1>1, <1>2, <1>4 DEF OnePass, OnlyWanted, Line!shown
<1>6. Awaited'
  <2> SUFFICES ASSUME lineActive # NONE, ~lineTaken'
               PROVE  Shows' \/ (linePass # Line!NoPass /\ Line!Matches(linePass))'
    BY <1>1 DEF Awaited
  <2>1. CASE lineTimer = lineActive
    BY <1>1, <1>4, <2>1 DEF Line!Matches
  <2>2. CASE lineTimer # lineActive
    <3>1. ~lineTaken /\ linePass.editor # lineActive
      BY <1>1, <2>2
    <3>2. Shows
      BY <2>2, <3>1 DEF Awaited, Line!Matches
    <3>3. Shows'
      BY <1>1, <3>2 DEF Shows, Line!Here, Line!shown
    <3> QED BY <3>3
  <2> QED BY <2>1, <2>2
<1> QED BY <1>3, <1>5, <1>6

LEMMA LineAnswerKeeps ==
  ASSUME Line!LineBlameAssumption, LineInv, NEW kind \in {"blame", "tooLarge", "none"},
         Line!Answer(kind)
  PROVE  LineInv'
<1> USE DEF LineInv
<1>1. /\ linePass # Line!NoPass /\ linePass' = Line!NoPass /\ lineTip = Line!NoPass
      /\ linePass.editor \in Editors
      /\ UNCHANGED <<lineVersion, lineLine, lineActive, lineSurfaces, lineTimer, lineTaken>>
  BY DEF Line!Answer, OnePass, LineTypeOK, PassType
<1>2. CASE lineSurfaces = {} \/ ~Line!Matches(linePass)
  <2>1. UNCHANGED <<lineTip, Line!shown, lineUnblamed>>
    BY <1>2 DEF Line!Answer
  <2>2. LineTypeOK' /\ OnePass' /\ OnlyWanted'
    BY <1>1, <2>1, NoPassType DEF LineTypeOK, OnePass, OnlyWanted, Line!shown
  <2>3. Shows => Shows'
    BY <1>1, <2>1 DEF Shows, Line!Here, Line!shown
  <2>4. lineActive # NONE /\ lineSurfaces = {} => Shows
    BY NothingShows
  <2>5. Awaited'
    BY <1>1, <1>2, <2>3, <2>4 DEF Awaited
  <2> QED BY <2>2, <2>5
<1>3. CASE ~(lineSurfaces = {} \/ ~Line!Matches(linePass)) /\ kind = "none"
  <2>1. Line!Clear /\ lineUnblamed' = TRUE /\ lineTip' = lineTip
    BY <1>3 DEF Line!Answer
  <2>2. /\ lineInline' \in [Editors -> PassType] /\ lineState' = Line!NoPass
        /\ lineTooltip' = lineTooltip
        /\ (lineActive' # NONE => lineInline'[lineActive'] = Line!NoPass) /\ lineBarShown' = FALSE
    BY <1>1, <2>1, Clears DEF LineTypeOK
  <2>3. LineTypeOK' /\ OnePass' /\ OnlyWanted'
    BY <1>1, <2>1, <2>2, NoPassType DEF LineTypeOK, OnePass, OnlyWanted
  <2>4. lineActive' # NONE => Shows'
    BY <2>1, <2>2 DEF Shows
  <2>5. Awaited'
    BY <2>4 DEF Awaited
  <2> QED BY <2>3, <2>5
<1>4. CASE ~(lineSurfaces = {} \/ ~Line!Matches(linePass)) /\ kind # "none"
  <2>1. /\ lineInline' = [lineInline EXCEPT ![linePass.editor] = IF "inline" \in lineSurfaces THEN linePass ELSE Line!NoPass]
        /\ lineState' = linePass /\ lineBarShown' = ("statusBar" \in lineSurfaces)
        /\ lineTooltip' = (IF kind = "tooLarge" THEN linePass ELSE Line!NoPass)
        /\ lineTip' = (IF kind = "blame" /\ lineBarShown' THEN linePass ELSE lineTip)
        /\ lineUnblamed' = FALSE
    BY <1>4 DEF Line!Answer
  <2>2. /\ lineActive = linePass.editor /\ linePass = Line!Here /\ Line!Here' = Line!Here
        /\ lineActive # NONE
    BY <1>1, <1>4 DEF Line!Matches, Line!Here, LineTypeOK, PassType, Line!LineBlameAssumption
  <2>3. lineInline' \in [Editors -> PassType] /\ lineInline'[lineActive] = IF "inline" \in lineSurfaces THEN linePass ELSE Line!NoPass
    BY <1>1, <2>1, <2>2, NoPassType DEF LineTypeOK
  <2>4. /\ lineTooltip' \in {linePass, Line!NoPass} /\ lineTip' \in {linePass, Line!NoPass}
        /\ lineBarShown' \in BOOLEAN
    BY <1>1, <2>1
  <2>5. LineTypeOK'
    BY <1>1, <2>1, <2>3, <2>4, NoPassType DEF LineTypeOK
  <2>6. OnePass' /\ OnlyWanted'
    BY <1>1, <2>1, <2>2, <2>3, <2>4 DEF OnePass, OnlyWanted
  <2>7. Shows'
    BY <1>1, <2>1, <2>2, <2>3 DEF Shows
  <2> QED BY <2>5, <2>6, <2>7 DEF Awaited
<1> QED BY <1>2, <1>3, <1>4

LEMMA RenderedKeeps == ASSUME LineInv, Line!TipRendered PROVE LineInv'
<1>1. /\ lineTooltip' = lineTip /\ lineTip' = Line!NoPass
      /\ UNCHANGED <<lineVersion, lineLine, lineActive, lineSurfaces, lineTimer, linePass, lineInline, lineState, lineBarShown, lineUnblamed,
                     lineTaken>>
  BY DEF Line!TipRendered
<1> QED
  BY <1>1, NoPassType
  DEF LineInv, LineTypeOK, OnePass, OnlyWanted, Awaited, Shows, Line!Here, Line!Matches

LEMMA StepLine == ASSUME Line!LineBlameAssumption, LineInv, [Line!Next]_(Line!vars) PROVE LineInv'
<1>1. CASE UNCHANGED Line!vars
  BY <1>1
  DEF Line!vars, Line!shown, LineInv, LineTypeOK, OnePass, OnlyWanted, Awaited, Shows,
      Line!Here, Line!Matches
<1> QED
  BY <1>1, SelectKeeps, ActivateKeeps, LineEditKeeps, LineChooseKeeps, TimerKeeps, LineAnswerKeeps,
     RenderedKeeps DEF Line!Next

(* What shows of the current line's blame is of the line, the editor and the version
   that are current, wherever it is wanted and known (annotations/lineBlame.ts). *)
THEOREM LineFollows ==
  ASSUME Line!LineBlameAssumption
  PROVE  /\ Line!Spec => []Line!LineKept
         /\ (subject = "line" => Line!Spec) /\ [][UNCHANGED subject]_subject => []LineKept
<1>1. Line!Init => LineInv
  BY InitLine
<1>2. LineInv /\ [Line!Next]_(Line!vars) => LineInv'
  BY StepLine
<1>3. LineInv => Line!LineKept
  <2> SUFFICES ASSUME LineInv PROVE Line!LineKept
    OBVIOUS
  <2>1. lineTimer = NONE /\ linePass = Line!NoPass /\ lineActive # NONE /\ ~lineTaken => Shows
    BY DEF LineInv, Awaited
  <2> QED BY <2>1 DEF LineInv, Line!LineKept, OnePass, Shows
<1>4. Line!Spec => []Line!LineKept
  BY <1>1, <1>2, <1>3, PTL DEF Line!Spec
<1>5. (subject = "line" => Line!Spec) /\ [][UNCHANGED subject]_subject => []LineKept
  <2>1. /\ ~ (subject = "line") /\ [UNCHANGED subject]_subject => ~ (subject = "line")'
        /\ ~ (subject = "line") => LineKept
        /\ Line!LineKept => LineKept
    BY DEF LineKept
  <2> QED  BY <1>4, <2>1, PTL
<1> QED  BY <1>4, <1>5

-----------------------------------------------------------------------------
(***************************************************************************)
(* Timeline.  The entries of the file history are those of its file, in    *)
(* order and once each, however it is retargeted, refetched and failing.   *)
(***************************************************************************)
EntryType == [file : Files, commit : Nat]
ResetType == [type : {"reset"}, file : Files]
CursorType == {c \in [file : Files \cup {NONE}, commit : Nat] : c.commit # 0 => c.file \in Files}
ListType == [type : {"entries"}, next : CursorType, entries : Seq(EntryType) \ {<<>>}]
HostType == [type : {"ready"}] \cup [type : {"loadMore"}, cursor : {c \in CursorType : c.commit # 0}]
PageType == [file : Files \cup {NONE}, entries : Seq(EntryType), cursor : CursorType, pending : BOOLEAN]
TargetType == [file : Files, call : 1 .. timelineShows]

IsReset(m) == m.type = "reset"

TimeType ==
  /\ timelineLength \in [Files -> Nat \ {0}] /\ timelinePanel \in {"closed", "loading", "live"}
  /\ {timelineBegins, timelineShows} \subseteq Nat /\ {timelineCrossed, timelineStrayed} \subseteq BOOLEAN
  /\ IF timelinePanel = "closed" THEN timelineTarget = History!Untargeted ELSE timelineTarget \in TargetType
  /\ timelineFetches \subseteq [target : TargetType, cursor : CursorType]
  /\ timelineToPage \in Seq(ResetType \cup ListType) /\ timelineToHost \in Seq(HostType)
  /\ timelinePage \in PageType

(* Only a page that has loaded shows or says anything. *)
Panels ==
  /\ timelinePanel = "closed" => timelineToPage = <<>> /\ ~ timelineRefetch
  /\ timelinePanel # "live" => timelineToHost = <<>> /\ timelinePage = History!Blank

(* The file a message is about. *)
About(m) == IF IsReset(m) THEN m.file ELSE m.entries[1].file

(* What is on its way to the page is about the file the page will be about then; what
   was posted last is about the target: as long as the host was not asked to go on with
   a file the panel has left. *)
FilesFollow ==
  /\ \A i \in DOMAIN timelinePage.entries : timelinePage.file # NONE => timelinePage.entries[i].file = timelinePage.file
  /\ \A i \in DOMAIN timelineToPage : ~ IsReset(timelineToPage[i]) =>
       /\ \A j \in DOMAIN timelineToPage[i].entries : timelineToPage[i].entries[j].file = About(timelineToPage[i])
       /\ i - 1 \in DOMAIN timelineToPage => About(timelineToPage[i]) = About(timelineToPage[i - 1])
       /\ i = 1 => timelinePage.file \in {NONE, About(timelineToPage[i])}
  /\ timelinePanel # "closed" =>
       IF timelineToPage = <<>> THEN timelinePage.file \in {NONE, timelineTarget.file} ELSE About(timelineToPage[Len(timelineToPage)]) = timelineTarget.file

(* Entries are known until a reset follows them. *)
EntriesKnown ==
  /\ \A i \in DOMAIN timelineToPage : ~ IsReset(timelineToPage[i]) =>
       \/ \E j \in DOMAIN timelineToPage : j > i /\ IsReset(timelineToPage[j])
       \/ \A k \in DOMAIN timelineToPage[i].entries : timelineToPage[i].entries[k] \in timelineKnown
  /\ \/ \E j \in DOMAIN timelineToPage : IsReset(timelineToPage[j])
     \/ \A k \in DOMAIN timelinePage.entries : timelinePage.entries[k] \in timelineKnown

(* Entries of successive commits, and where they go on. *)
Steady(es, next) ==
  /\ \A i \in DOMAIN es : i > 1 => es[i].commit = es[i - 1].commit - 1
  /\ es # <<>> => next = es[Len(es)].commit - 1

(* A first page finds the page empty once it gets there; a further one finds it as it
   was when it was asked for. *)
AtStart == IF timelineToPage = <<>> THEN timelinePage.entries = <<>> ELSE IsReset(timelineToPage[Len(timelineToPage)])
Further(cursor) ==
  /\ timelineToPage = <<>> /\ timelinePage.pending /\ timelinePage.cursor = cursor
  /\ timelinePage.entries # <<>>

HistoryFresh == {fetch \in timelineFetches : fetch.target = timelineTarget}
CursorsFollow ==
  \A fetch \in HistoryFresh : fetch.cursor.commit # 0 => fetch.cursor.file = timelineTarget.file
More == {i \in DOMAIN timelineToHost : timelineToHost[i].type = "loadMore"}

InTurn ==
  /\ Steady(timelinePage.entries, timelinePage.cursor.commit)
  /\ \A i \in DOMAIN timelineToPage : ~ IsReset(timelineToPage[i]) =>
       /\ Steady(timelineToPage[i].entries, timelineToPage[i].next.commit)
       /\ i + 1 \in DOMAIN timelineToPage => IsReset(timelineToPage[i + 1])
       /\ i = 1 => \/ timelinePage.entries = <<>>
                   \/ timelinePage.pending /\ timelineToPage[i].entries[1].commit = timelinePage.cursor.commit

(* One page is asked for at a time. *)
OneAtATime ==
  /\ timelineBegins > 0 => timelineBegins = 1 /\ HistoryFresh = {} /\ More = {} /\ AtStart
  /\ HistoryFresh # {} => More = {}
  /\ \A f, g \in HistoryFresh : f = g
  /\ \A i, j \in More : i = j
  /\ \A f \in HistoryFresh : IF f.cursor.commit = 0 THEN AtStart ELSE Further(f.cursor)
  /\ \A i \in More : Further(timelineToHost[i].cursor)

(* The newest entry comes first, on the page and in a page for an empty one, unless there
   is to be a reset. *)
NewestFirst(es) == es[1].commit = timelineLength[es[1].file]
Latest == timelineToPage[Len(timelineToPage)]
ShownNewest ==
  (\A i \in DOMAIN timelineToPage : ~ IsReset(timelineToPage[i])) /\ timelinePage.entries # <<>>
    => NewestFirst(timelinePage.entries)
PostedNewest ==
  /\ timelineToPage # <<>> /\ ~ IsReset(Latest)
  /\ Len(timelineToPage) = 1 => timelinePage.entries = <<>>
  => NewestFirst(Latest.entries)
Newest == timelineRefetch \/ (ShownNewest /\ PostedNewest)

Ordered == InTurn /\ OneAtATime /\ Newest

TimeInv ==
  /\ TimeType /\ Panels /\ EntriesKnown
  /\ timelineStrayed \/ (FilesFollow /\ CursorsFollow)
  /\ timelineCrossed \/ Ordered

-----------------------------------------------------------------------------
LEMMA Appended ==
  ASSUME NEW S, NEW s \in Seq(S), NEW m \in S, NEW t, t = Append(s, m)
  PROVE  /\ t \in Seq(S) /\ Len(t) = Len(s) + 1 /\ Len(s) \in Nat /\ DOMAIN s = 1 .. Len(s)
         /\ DOMAIN t = 1 .. Len(s) + 1 /\ t[Len(s) + 1] = m
         /\ \A i \in DOMAIN s : t[i] = s[i]
         /\ t # <<>>
OBVIOUS

LEMMA Tailed ==
  ASSUME NEW S, NEW s \in Seq(S), s # <<>>, NEW t, t = Tail(s)
  PROVE  /\ t \in Seq(S) /\ Len(t) = Len(s) - 1 /\ Len(s) \in Nat /\ DOMAIN s = 1 .. Len(s)
         /\ DOMAIN t = 1 .. Len(s) - 1 /\ Head(s) = s[1] /\ 1 \in DOMAIN s
         /\ \A i \in DOMAIN t : t[i] = s[i + 1] /\ i + 1 \in DOMAIN s
OBVIOUS

(* A message of a known type. *)
LEMMA Messages ==
  ASSUME TimeType, NEW i \in DOMAIN timelineToPage
  PROVE  /\ timelineToPage[i] \in ResetType \cup ListType
         /\ IsReset(timelineToPage[i]) => timelineToPage[i] \in ResetType
         /\ ~ IsReset(timelineToPage[i]) => timelineToPage[i] \in ListType /\ timelineToPage[i].entries # <<>>
<1>1. timelineToPage[i] \in ResetType \cup ListType
  BY DEF TimeType
<1> QED  BY <1>1 DEF IsReset, ResetType, ListType

LEMMA Reduced ==
  /\ History!Blank \in PageType /\ History!Blank.entries = <<>>
  /\ History!Blank.file = NONE /\ ~ History!Blank.pending
  /\ History!NoCursor \in CursorType /\ History!NoCursor.commit = 0
<1>1. History!NoCursor \in CursorType /\ History!NoCursor.commit = 0
  BY DEF History!NoCursor, CursorType
<1> QED  BY <1>1 DEF History!Blank, PageType

-----------------------------------------------------------------------------
LEMMA InitTimeline == ASSUME History!TimelineAssumption, History!Init PROVE TimeInv
<1>1. TimeType
  <2>1. timelineLength \in [Files -> Nat \ {0}]
    BY DEF History!TimelineAssumption, History!Init
  <2>2. timelineToPage \in Seq(ResetType \cup ListType) /\ timelineToHost \in Seq(HostType)
    BY DEF History!Init
  <2>3. /\ timelinePage \in PageType /\ timelinePanel = "closed"
        /\ timelineTarget = History!Untargeted /\ timelineFetches = {}
        /\ timelineBegins = 0 /\ timelineShows = 0
    BY Reduced DEF History!Init
  <2>4. /\ {timelineBegins, timelineShows} \subseteq Nat
        /\ timelinePanel \in {"closed", "loading", "live"} /\ {timelineCrossed, timelineStrayed} \subseteq BOOLEAN
    <3>1. timelineBegins \in Nat /\ timelineShows \in Nat
      BY <2>3
    <3>2. {timelineCrossed, timelineStrayed} \subseteq BOOLEAN
      BY DEF History!Init
    <3> QED  BY <2>3, <3>1, <3>2
  <2>5. timelineFetches \subseteq [target : TargetType, cursor : CursorType]
    BY <2>3
  <2> QED  BY <2>1, <2>2, <2>3, <2>4, <2>5, Zenon DEF TimeType
<1>2. Panels
  BY DEF History!Init, Panels
<1>3. FilesFollow /\ EntriesKnown /\ CursorsFollow
  BY Reduced DEF History!Init, FilesFollow, EntriesKnown, CursorsFollow, HistoryFresh
<1>4. InTurn
  BY Reduced DEF History!Init, InTurn, Steady
<1>5. OneAtATime
  BY DEF History!Init, OneAtATime, HistoryFresh, More
<1>6. Newest
  BY Reduced DEF History!Init, Newest, ShownNewest, PostedNewest
<1> QED  BY <1>1, <1>2, <1>3, <1>4, <1>5, <1>6 DEF TimeInv, Ordered

(* A reset is posted: what comes after it is about its file. *)
LEMMA ResetKeeps ==
  ASSUME TimeInv, NEW f \in Files, History!Reset(f), timelinePanel # "closed",
         timelinePanel' = timelinePanel, timelinePage' = timelinePage,
         timelineFetches' = timelineFetches, timelineLength' = timelineLength, timelineShows' \in Nat, timelineShows' >= timelineShows,
         timelineTarget' \in TargetType', timelineTarget'.file = f,
         timelineToHost' \in Seq(HostType), timelinePanel # "live" => timelineToHost' = <<>>,
         More' # {} => More # {},
         timelineStrayed' = timelineStrayed, timelineStrayed \/ CursorsFollow'
  PROVE  TimeInv'
<1> DEFINE m == [type |-> "reset", file |-> f]
<1>1. /\ timelineToPage' = Append(timelineToPage, m) /\ timelineBegins' = timelineBegins + 1
      /\ timelineCrossed' = (timelineCrossed \/ timelineFetches # {} \/ timelineBegins > 0 \/ History!Among(timelineToHost, "loadMore"))
  BY DEF History!Reset, History!Post
<1>2. m \in ResetType /\ IsReset(m) /\ m.file = f /\ About(m) = f
  BY DEF ResetType, IsReset, About
<1> HIDE DEF m
<1>0. TimeType /\ timelineToPage \in Seq(ResetType \cup ListType) /\ m \in ResetType \cup ListType
  BY <1>2 DEF TimeInv, TimeType
<1>3. /\ TimeType /\ timelineToPage \in Seq(ResetType \cup ListType)
      /\ timelineToPage' \in Seq(ResetType \cup ListType)
      /\ Len(timelineToPage') = Len(timelineToPage) + 1 /\ Len(timelineToPage) \in Nat
      /\ DOMAIN timelineToPage = 1 .. Len(timelineToPage)
      /\ DOMAIN timelineToPage' = 1 .. Len(timelineToPage) + 1
      /\ timelineToPage'[Len(timelineToPage) + 1] = m /\ \A i \in DOMAIN timelineToPage : timelineToPage'[i] = timelineToPage[i]
      /\ timelineToPage' # <<>>
  BY <1>0, <1>1, Appended
<1>4. \A i \in DOMAIN timelineToPage' : ~ IsReset(timelineToPage'[i]) => i \in DOMAIN timelineToPage
  BY <1>2, <1>3
<1>5. TimeType'
  <2>1. TargetType \subseteq TargetType'
    BY <1>3 DEF TargetType, TimeType
  <2> QED  BY <1>1, <1>3, <2>1 DEF TimeType
<1>6. Panels'
  BY DEF TimeInv, Panels
<1>7. ASSUME ~ timelineStrayed PROVE FilesFollow'
  <2>0. FilesFollow
    BY <1>7 DEF TimeInv
  <2>1. ASSUME NEW i \in DOMAIN timelineToPage', ~ IsReset(timelineToPage'[i])
        PROVE  /\ \A j \in DOMAIN timelineToPage'[i].entries : timelineToPage'[i].entries[j].file = About(timelineToPage'[i])
               /\ i - 1 \in DOMAIN timelineToPage' => About(timelineToPage'[i]) = About(timelineToPage'[i - 1])
               /\ i = 1 => timelinePage'.file \in {NONE, About(timelineToPage'[i])}
    <3>1. i \in DOMAIN timelineToPage /\ timelineToPage'[i] = timelineToPage[i]
      BY <1>3, <1>4, <2>1
    <3>2. i - 1 \in DOMAIN timelineToPage' => i - 1 \in DOMAIN timelineToPage /\ timelineToPage'[i - 1] = timelineToPage[i - 1]
      BY <1>3, <3>1
    <3> QED  BY <2>0, <2>1, <3>1, <3>2 DEF FilesFollow
  <2>2. About(timelineToPage'[Len(timelineToPage')]) = timelineTarget'.file
    BY <1>2, <1>3
  <2> QED  BY <1>3, <2>0, <2>1, <2>2 DEF FilesFollow
<1>8. EntriesKnown'
  <2>1. /\ Len(timelineToPage) + 1 \in DOMAIN timelineToPage'
        /\ IsReset(timelineToPage'[Len(timelineToPage) + 1])
    BY <1>2, <1>3
  <2>2. \A i \in DOMAIN timelineToPage : Len(timelineToPage) + 1 > i
    BY <1>3
  <2> QED  BY <1>4, <2>1, <2>2 DEF EntriesKnown
<1>9. ASSUME ~ timelineCrossed' PROVE Ordered'
  <2>1. ~ timelineCrossed /\ timelineFetches = {} /\ timelineBegins = 0 /\ More = {}
    <3>1. /\ ~ timelineCrossed /\ timelineFetches = {} /\ ~ timelineBegins > 0
          /\ ~ History!Among(timelineToHost, "loadMore")
      BY <1>1, <1>9
    <3>2. timelineBegins = 0
      BY <1>3, <3>1 DEF TimeType
    <3> QED  BY <3>1, <3>2 DEF More, History!Among
  <2>2. ASSUME NEW i \in DOMAIN timelineToPage', ~ IsReset(timelineToPage'[i])
        PROVE  /\ Steady(timelineToPage'[i].entries, timelineToPage'[i].next.commit)
               /\ i + 1 \in DOMAIN timelineToPage' => IsReset(timelineToPage'[i + 1])
               /\ i = 1 => \/ timelinePage'.entries = <<>>
                           \/ timelinePage'.pending /\ timelineToPage'[i].entries[1].commit = timelinePage'.cursor.commit
    <3>1. i \in DOMAIN timelineToPage /\ timelineToPage'[i] = timelineToPage[i]
      BY <1>3, <1>4, <2>2
    <3>2. i + 1 \in DOMAIN timelineToPage => timelineToPage'[i + 1] = timelineToPage[i + 1]
      BY <1>3
    <3>3. i + 1 \in DOMAIN timelineToPage' => i + 1 \in DOMAIN timelineToPage \/ i + 1 = Len(timelineToPage) + 1
      BY <1>3, <3>1
    <3> QED  BY <1>2, <1>3, <2>1, <2>2, <3>1, <3>2, <3>3 DEF TimeInv, InTurn, Ordered
  <2>3. InTurn'
    BY <2>1, <2>2 DEF TimeInv, InTurn, Ordered
  <2>4. HistoryFresh' = {} /\ More' = {} /\ timelineBegins' = 1
    BY <1>1, <2>1 DEF HistoryFresh
  <2>5. AtStart'
    BY <1>2, <1>3 DEF AtStart
  <2>6. Len(timelineToPage) + 1 \in DOMAIN timelineToPage' /\ Latest' = m
    BY <1>3 DEF Latest
  <2>7. Newest'
    BY <1>2, <1>3, <2>6 DEF Newest, ShownNewest, PostedNewest
  <2> QED  BY <2>3, <2>4, <2>5, <2>7 DEF OneAtATime, Ordered
<1> QED  BY <1>5, <1>6, <1>7, <1>8, <1>9 DEF TimeInv

LEMMA HistoryShowKeeps ==
  ASSUME History!TimelineAssumption, TimeInv, NEW f \in Files, History!ShowFile(f) PROVE TimeInv'
<1>1. /\ timelineShows' = timelineShows + 1
      /\ timelineTarget' = [file |-> f, call |-> timelineShows + 1]
      /\ UNCHANGED <<timelineLength, timelineRefetch, timelineFetches, timelineToHost,
                     timelineStrayed>>
      /\ timelineShows \in Nat
  BY DEF History!ShowFile, TimeInv, TimeType
<1>2. /\ timelineTarget' \in TargetType' /\ timelineTarget'.file = f
      /\ timelineTarget'.call = timelineShows + 1
  BY <1>1 DEF TargetType
<1>5. HistoryFresh' = {} /\ CursorsFollow'
  <2>1. \A fetch \in timelineFetches : fetch.target.call \in 1 .. timelineShows
    BY DEF TimeInv, TimeType, TargetType
  <2>2. HistoryFresh' = {}
    BY <1>1, <1>2, <2>1 DEF HistoryFresh
  <2> QED  BY <2>2 DEF CursorsFollow
<1>3. CASE timelinePanel # "closed"
  <2>1. History!Reset(f) /\ timelinePanel' = timelinePanel /\ timelinePage' = timelinePage
    BY <1>3 DEF History!ShowFile
  <2> QED  BY <1>1, <1>2, <1>3, <1>5, <2>1, ResetKeeps DEF TimeInv, TimeType, Panels, More
<1>4. CASE timelinePanel = "closed"
  <2>1. /\ timelinePanel' = "loading" /\ timelinePage' = History!Blank
        /\ UNCHANGED <<timelineToPage, timelineBegins, timelineCrossed>>
        /\ timelineToPage = <<>> /\ timelinePage = History!Blank /\ timelineToHost = <<>>
    BY <1>4 DEF History!ShowFile, TimeInv, Panels
  <2>4. TimeType'
    <3>1. TargetType \subseteq TargetType'
      BY <1>1 DEF TargetType
    <3> QED  BY <1>1, <1>2, <2>1, <3>1 DEF TimeInv, TimeType
  <2>5. Panels' /\ FilesFollow' /\ EntriesKnown'
    BY <1>1, <2>1, Reduced DEF Panels, FilesFollow, EntriesKnown
  <2>6. InTurn'
    BY <2>1, Reduced DEF InTurn, Steady
  <2>7. OneAtATime' \/ timelineCrossed'
    BY <1>1, <1>5, <2>1, Reduced DEF TimeInv, Ordered, OneAtATime, AtStart, More
  <2>8. Newest'
    BY <2>1, Reduced DEF Newest, ShownNewest, PostedNewest
  <2> QED  BY <1>5, <2>4, <2>5, <2>6, <2>7, <2>8 DEF TimeInv, Ordered
<1> QED  BY <1>3, <1>4

LEMMA HistoryCloseKeeps == ASSUME TimeInv, History!Close PROVE TimeInv'
<1>1. /\ timelinePanel' = "closed" /\ timelineTarget' = History!Untargeted /\ ~ timelineRefetch'
      /\ timelineToPage' = <<>> /\ timelineToHost' = <<>> /\ timelinePage' = History!Blank
      /\ UNCHANGED <<timelineLength, timelineBegins, timelineFetches, timelineShows,
                     timelineCrossed>>
      /\ timelineStrayed' = FALSE
  BY DEF History!Close, History!budgets
<1>2. TimeType'
  <2>1. {timelineCrossed', timelineStrayed'} \subseteq BOOLEAN /\ TargetType' = TargetType
    BY <1>1 DEF TimeInv, TimeType, TargetType
  <2> QED  BY <1>1, <2>1, Reduced DEF TimeInv, TimeType
<1>3. Panels' /\ FilesFollow' /\ EntriesKnown' /\ InTurn'
  BY <1>1, Reduced DEF Panels, FilesFollow, EntriesKnown, InTurn, Steady
<1>6. Newest'
  BY <1>1, Reduced DEF Newest, ShownNewest, PostedNewest
<1>4. HistoryFresh' = {}
  <2>1. \A fetch \in timelineFetches : fetch.target.call # 0
    BY DEF TimeInv, TimeType, TargetType
  <2> QED  BY <1>1, <2>1 DEF HistoryFresh, History!Untargeted
<1>5. OneAtATime' \/ timelineCrossed'
  <2>1. AtStart' /\ More' = {}
    BY <1>1, Reduced DEF AtStart, More
  <2> QED  BY <1>1, <1>4, <2>1 DEF TimeInv, Ordered, OneAtATime
<1>7. CursorsFollow'
  BY <1>4 DEF CursorsFollow
<1> QED  BY <1>2, <1>3, <1>5, <1>6, <1>7 DEF TimeInv, Ordered

(* What was posted before the page loads is kept, or lost. *)
LEMMA LoadKeeps == ASSUME TimeInv, History!Load PROVE TimeInv'
<1> DEFINE ready == [type |-> "ready"]
<1>1. /\ timelinePanel = "loading" /\ timelinePanel' = "live"
      /\ timelineToPage' \in {timelineToPage, <<>>}
      /\ timelineToHost' = Append(timelineToHost, ready) /\ timelineToHost = <<>>
      /\ timelinePage = History!Blank
      /\ UNCHANGED <<timelineLength, timelineTarget, timelineKnown, timelineBegins,
                     timelineFetches, timelinePage, timelineShows, timelineCrossed,
                     timelineLength, timelineRefetch, timelineStrayed>>
  BY DEF History!Load, TimeInv, Panels, History!budgets
<1>2. ready \in HostType /\ ready.type # "loadMore"
  BY DEF HostType
<1> HIDE DEF ready
<1>3. /\ timelineToHost' \in Seq(HostType) /\ DOMAIN timelineToHost' = {1}
      /\ timelineToHost'[1] = ready
  BY <1>1, <1>2
<1>4. TimeType' /\ Panels'
  <2>1. TargetType' = TargetType
    BY <1>1 DEF TargetType
  <2>2. timelineToPage' \in Seq(ResetType \cup ListType)
    <3>1. timelineToPage \in Seq(ResetType \cup ListType) /\ <<>> \in Seq(ResetType \cup ListType)
      BY DEF TimeInv, TimeType
    <3> QED  BY <1>1, <3>1
  <2> QED  BY <1>1, <1>3, <2>1, <2>2 DEF TimeInv, TimeType, Panels
<1>5. More' = {} /\ HistoryFresh' = HistoryFresh /\ (CursorsFollow => CursorsFollow')
  BY <1>1, <1>2, <1>3 DEF More, HistoryFresh, CursorsFollow
<1>6. CASE timelineToPage' = timelineToPage
  <2>1. (FilesFollow => FilesFollow') /\ EntriesKnown'
    BY <1>1, <1>6 DEF TimeInv, FilesFollow, EntriesKnown
  <2>2. InTurn' = InTurn /\ AtStart' = AtStart
    BY <1>1, <1>6 DEF InTurn, AtStart
  <2>3. \A c : Further(c) => Further(c)'
    BY <1>1, <1>6 DEF Further
  <2>4. ASSUME ~ timelineCrossed PROVE OneAtATime'
    BY <1>1, <1>5, <2>2, <2>3, <2>4 DEF TimeInv, Ordered, OneAtATime
  <2>5. Newest' = Newest
    BY <1>1, <1>6 DEF Newest, ShownNewest, PostedNewest, NewestFirst, Latest
  <2> QED  BY <1>1, <1>4, <1>5, <2>1, <2>2, <2>4, <2>5 DEF TimeInv, Ordered
<1>7. CASE timelineToPage' = <<>>
  <2>1. FilesFollow' /\ EntriesKnown' /\ InTurn' /\ AtStart'
    BY <1>1, <1>7, Reduced DEF FilesFollow, EntriesKnown, InTurn, Steady, AtStart
  <2>2. ASSUME ~ timelineCrossed PROVE OneAtATime'
    <3>1. \A fetch \in HistoryFresh : fetch.cursor.commit = 0
      BY <1>1, <2>2, Reduced DEF TimeInv, Ordered, OneAtATime, Further
    <3> QED  BY <1>1, <1>5, <2>1, <2>2, <3>1 DEF TimeInv, Ordered, OneAtATime
  <2>3. Newest'
    BY <1>1, <1>7, Reduced DEF Newest, ShownNewest, PostedNewest
  <2> QED  BY <1>1, <1>4, <1>5, <2>1, <2>2, <2>3 DEF TimeInv, Ordered
<1> QED  BY <1>1, <1>6, <1>7

(* Nothing of the panel, the page and the messages between them changes. *)
LEMMA CommitKeeps == ASSUME TimeInv, NEW f \in Files, History!Commit(f) PROVE TimeInv'
<1>1. /\ timelineLength' = [timelineLength EXCEPT ![f] = @ + 1]
      /\ timelineRefetch' = (timelineRefetch \/ timelinePanel # "closed")
      /\ UNCHANGED <<timelinePanel, timelineTarget, timelineKnown, timelineBegins, timelineFetches,
                     timelineToPage, timelineToHost, timelinePage, timelineShows, timelineCrossed,
                     timelineStrayed>>
  BY DEF History!Commit, History!panelVars
<1>2. timelineLength' \in [Files -> Nat \ {0}]
  BY <1>1 DEF TimeInv, TimeType
<1>3. TimeType'
  BY <1>1, <1>2 DEF TimeInv, TimeType, TargetType
<1>4. Panels' /\ EntriesKnown' /\ (timelineStrayed' \/ (FilesFollow' /\ CursorsFollow'))
  BY <1>1 DEF TimeInv, Panels, FilesFollow, EntriesKnown, CursorsFollow, HistoryFresh
<1>5. timelineCrossed' \/ (InTurn' /\ OneAtATime')
  BY <1>1 DEF TimeInv, Ordered, InTurn, OneAtATime, AtStart, Further, HistoryFresh, More
<1>6. Newest'
  <2>1. CASE timelinePanel # "closed"
    BY <1>1, <2>1 DEF Newest
  <2>2. CASE timelinePanel = "closed"
    <3>1. timelineToPage = <<>> /\ timelinePage.entries = <<>>
      BY <2>2, Reduced DEF TimeInv, Panels
    <3> QED  BY <1>1, <3>1 DEF Newest, ShownNewest, PostedNewest
  <2> QED  BY <2>1, <2>2
<1> QED  BY <1>3, <1>4, <1>5, <1>6 DEF TimeInv, Ordered

LEMMA RefetchKeeps == ASSUME TimeInv, History!RefetchFires PROVE TimeInv'
<1>1. /\ History!Reset(timelineTarget.file) /\ timelinePanel # "closed"
      /\ UNCHANGED <<timelineLength, timelinePanel, timelineTarget, timelineFetches,
                     timelineToHost, timelinePage, timelineShows, timelineStrayed>>
  BY DEF History!RefetchFires, History!budgets, TimeInv, Panels
<1>2. /\ timelineTarget \in TargetType /\ timelineTarget.file \in Files /\ TargetType' = TargetType
      /\ timelineShows \in Nat
  BY <1>1 DEF TimeInv, TimeType, TargetType
<1>3. timelineStrayed \/ CursorsFollow'
  BY <1>1 DEF TimeInv, CursorsFollow, HistoryFresh
<1> QED  BY <1>1, <1>2, <1>3, ResetKeeps DEF TimeInv, TimeType, Panels, More

LEMMA ReceiveKeeps == ASSUME TimeInv, History!Receive PROVE TimeInv'
<1> DEFINE m == Head(timelineToHost)
<1>1. /\ timelineToHost # <<>> /\ timelineToHost' = Tail(timelineToHost) /\ timelinePanel = "live"
      /\ UNCHANGED <<timelineLength, timelinePanel, timelineTarget, timelineKnown, timelineRefetch,
                     timelinePage, timelineShows>>
  BY DEF History!Receive, History!panelVars, History!budgets, TimeInv, Panels
<1>2. /\ timelineTarget \in TargetType /\ timelineTarget.file \in Files /\ TargetType' = TargetType
      /\ timelineShows \in Nat
  BY <1>1 DEF TimeInv, TimeType, TargetType
<1>3. /\ timelineToHost' \in Seq(HostType) /\ Len(timelineToHost) \in Nat
      /\ DOMAIN timelineToHost = 1 .. Len(timelineToHost)
      /\ DOMAIN timelineToHost' = 1 .. Len(timelineToHost) - 1 /\ m = timelineToHost[1]
      /\ 1 \in DOMAIN timelineToHost
      /\ \A i \in DOMAIN timelineToHost' : timelineToHost'[i] = timelineToHost[i + 1] /\ i + 1 \in DOMAIN timelineToHost
  BY <1>1, Tailed DEF TimeInv, TimeType
<1>4. \A i \in More' : i + 1 \in More /\ i \in Nat /\ i + 1 # 1 /\ timelineToHost'[i] = timelineToHost[i + 1]
  BY <1>3 DEF More
<1>5. m \in HostType
  <2>1. timelineToHost[1] \in HostType
    BY <1>3 DEF TimeInv, TimeType
  <2> QED  BY <1>3, <2>1
<1>6. CASE m.type = "ready"
  <2>1. /\ History!Reset(timelineTarget.file) /\ timelineFetches' = timelineFetches
        /\ timelineStrayed' = timelineStrayed
    BY <1>6 DEF History!Receive
  <2>2. timelineStrayed \/ CursorsFollow'
    BY <1>1, <2>1 DEF TimeInv, CursorsFollow, HistoryFresh
  <2> QED  BY <1>1, <1>2, <1>3, <1>4, <2>1, <2>2, ResetKeeps
<1>7. CASE m.type # "ready"
  <2> DEFINE fetch == [target |-> timelineTarget, cursor |-> m.cursor]
  <2>1. /\ m.type = "loadMore" /\ m.cursor \in CursorType /\ m.cursor.commit # 0 /\ 1 \in More
        /\ timelineToHost[1].cursor = m.cursor
    BY <1>3, <1>5, <1>7 DEF HostType, More
  <2>2. timelineFetches' = timelineFetches \cup {fetch} /\ UNCHANGED <<timelineToPage,
                                                                       timelineBegins, timelineCrossed>>
    BY <1>7 DEF History!Receive
  <2>7. timelineStrayed' = (timelineStrayed \/ m.cursor.file # timelineTarget.file)
    BY <1>7 DEF History!Receive
  <2>3. /\ fetch \in [target : TargetType, cursor : CursorType] /\ fetch.target = timelineTarget
        /\ fetch.cursor = m.cursor
    BY <1>2, <2>1
  <2> HIDE DEF fetch, m
  <2>4. TimeType'
    <3>1. timelineStrayed' \in BOOLEAN
      BY <2>7
    <3> QED  BY <1>1, <1>2, <1>3, <2>2, <2>3, <3>1 DEF TimeInv, TimeType
  <2>5. Panels' /\ (FilesFollow => FilesFollow') /\ EntriesKnown'
    BY <1>1, <2>2 DEF TimeInv, Panels, FilesFollow, EntriesKnown
  <2>8. timelineStrayed' \/ (FilesFollow' /\ CursorsFollow')
    <3>1. ASSUME ~ timelineStrayed' PROVE CursorsFollow'
      <4>1. CursorsFollow /\ fetch.cursor.file = timelineTarget.file
        BY <2>3, <2>7, <3>1 DEF TimeInv
      <4> QED  BY <1>1, <2>2, <4>1 DEF CursorsFollow, HistoryFresh
    <3> QED  BY <2>5, <2>7, <3>1 DEF TimeInv
  <2>6. ASSUME ~ timelineCrossed PROVE Ordered'
    <3>1. InTurn' /\ Newest'
      BY <1>1, <2>2, <2>6 DEF TimeInv, Ordered, InTurn, Newest, ShownNewest, PostedNewest, NewestFirst,
        Latest
    <3>2. OneAtATime
      BY <2>6 DEF TimeInv, Ordered
    <3>3. HistoryFresh = {} /\ Further(m.cursor) /\ ~ timelineBegins > 0
      BY <2>1, <3>2 DEF OneAtATime
    <3>4. More' = {}
      BY <1>4, <2>1, <3>2 DEF OneAtATime
    <3>0. PICK c : c = m.cursor
      OBVIOUS
    <3>5. HistoryFresh' = {fetch}
      BY <1>1, <2>2, <2>3, <3>3 DEF HistoryFresh
    <3>6. Further(c)'
      BY <1>1, <2>2, <3>3, <3>0 DEF Further
    <3>7. ~ timelineBegins' > 0 /\ \A f \in HistoryFresh' : f.cursor.commit # 0 /\ f.cursor = c
      BY <2>1, <2>2, <2>3, <3>3, <3>5, <3>0
    <3>8. OneAtATime'
      <4>1. \A f, g \in HistoryFresh' : f = g
        BY <3>5
      <4>2. \A f \in HistoryFresh' : f.cursor.commit # 0 /\ Further(f.cursor)'
        BY <3>6, <3>7 DEF Further
      <4> QED  BY <3>4, <3>7, <4>1, <4>2 DEF OneAtATime
    <3> QED  BY <3>1, <3>8 DEF Ordered
  <2> QED  BY <2>2, <2>4, <2>5, <2>6, <2>8 DEF TimeInv
<1> QED  BY <1>6, <1>7

LEMMA FetchKeeps == ASSUME TimeInv, History!Fetch PROVE TimeInv'
<1> DEFINE fetch == [target |-> timelineTarget, cursor |-> History!NoCursor]
<1>1. /\ timelineBegins > 0 /\ timelineBegins' = timelineBegins - 1
      /\ timelineFetches' = IF timelinePanel = "closed" THEN timelineFetches ELSE timelineFetches \cup {fetch}
      /\ UNCHANGED <<timelineLength, timelinePanel, timelineTarget, timelineKnown, timelineRefetch,
                     timelineToPage, timelineToHost, timelinePage, timelineShows, timelineCrossed,
                     timelineStrayed>>
  BY DEF History!Fetch, History!panelVars, History!budgets
<1>2. TargetType' = TargetType /\ timelineBegins \in Nat
  BY <1>1 DEF TargetType, TimeInv, TimeType
<1>3. timelinePanel # "closed" => fetch \in [target : TargetType, cursor : CursorType]
  BY Reduced DEF TimeInv, TimeType
<1>4. fetch.target = timelineTarget /\ fetch.cursor.commit = 0
  BY Reduced
<1> HIDE DEF fetch
<1>5. TimeType'
  BY <1>1, <1>2, <1>3 DEF TimeInv, TimeType
<1>6. Panels' /\ EntriesKnown' /\ (timelineStrayed' \/ (FilesFollow' /\ CursorsFollow'))
  <2>1. Panels' /\ EntriesKnown' /\ (FilesFollow => FilesFollow')
    BY <1>1 DEF TimeInv, Panels, FilesFollow, EntriesKnown
  <2>2. CursorsFollow => CursorsFollow'
    BY <1>1, <1>4 DEF CursorsFollow, HistoryFresh
  <2> QED  BY <1>1, <2>1, <2>2 DEF TimeInv
<1>7. ASSUME ~ timelineCrossed PROVE Ordered'
  <2>1. InTurn' /\ Newest'
    BY <1>1, <1>7 DEF TimeInv, Ordered, InTurn, Newest, ShownNewest, PostedNewest, NewestFirst, Latest
  <2>2. timelineBegins = 1 /\ HistoryFresh = {} /\ More = {} /\ AtStart
    BY <1>1, <1>7 DEF TimeInv, Ordered, OneAtATime
  <2>3. HistoryFresh' \subseteq {fetch} /\ More' = {} /\ timelineBegins' = 0 /\ AtStart'
    BY <1>1, <1>4, <2>2 DEF HistoryFresh, More, AtStart
  <2>4. OneAtATime'
    BY <1>4, <2>3 DEF OneAtATime
  <2> QED  BY <2>1, <2>4 DEF Ordered
<1> QED  BY <1>1, <1>5, <1>6, <1>7 DEF TimeInv

(* history/file gives the commits from the cursor on, one after the other. *)
LEMMA Listings ==
  ASSUME History!TimelineAssumption, TimeType, NEW file \in Files, NEW cursor \in CursorType
  PROVE  LET m == History!Listing(file, cursor) IN
         /\ m \in ListType /\ m.entries # <<>> /\ ~ IsReset(m)
         /\ \A j \in DOMAIN m.entries :
              m.entries[j].file = IF cursor.commit = 0 THEN file ELSE cursor.file
         /\ Steady(m.entries, m.next.commit)
         /\ IF cursor.commit = 0 THEN NewestFirst(m.entries) ELSE m.entries[1].commit = cursor.commit
<1> DEFINE from == IF cursor.commit = 0 THEN [file |-> file, commit |-> timelineLength[file]] ELSE cursor
           n == IF from.commit < Page THEN from.commit ELSE Page
           es == [i \in 1 .. n |-> [from EXCEPT !.commit = @ + 1 - i]]
           next == [from EXCEPT !.commit = @ - n]
<1>1. /\ from \in [file : Files, commit : Nat] /\ from.commit > 0 /\ Page \in Nat /\ Page > 0
  BY DEF TimeType, History!TimelineAssumption, CursorType
<1>2. History!Listing(file, cursor) = [type |-> "entries", next |-> next, entries |-> es]
  BY DEF History!Listing
<1>3. IF cursor.commit = 0 THEN from.file = file /\ from.commit = timelineLength[file]
      ELSE from.file = cursor.file /\ from.commit = cursor.commit
  OBVIOUS
<1> HIDE DEF from
<1>4. n \in Nat /\ n > 0 /\ n <= from.commit
  BY <1>1
<1> HIDE DEF n
<1>5. \A i \in 1 .. n : /\ [from EXCEPT !.commit = @ + 1 - i] \in EntryType
                        /\ [from EXCEPT !.commit = @ + 1 - i].file = from.file
                        /\ [from EXCEPT !.commit = @ + 1 - i].commit = from.commit + 1 - i
  BY <1>1, <1>4 DEF EntryType
<1>6. /\ es \in Seq(EntryType) /\ Len(es) = n /\ DOMAIN es = 1 .. n
      /\ \A i \in 1 .. n : es[i].file = from.file /\ es[i].commit = from.commit + 1 - i
  <2>1. es \in [1 .. n -> EntryType]
    BY <1>5
  <2>2. \A i \in 1 .. n : es[i].file = from.file /\ es[i].commit = from.commit + 1 - i
    BY <1>5
  <2> HIDE DEF es
  <2>3. es \in Seq(EntryType) /\ Len(es) = n /\ DOMAIN es = 1 .. n
    BY <1>4, <2>1
  <2> QED  BY <2>2, <2>3
<1> HIDE DEF es
<1>7. es # <<>> /\ es[1].commit = from.commit /\ es[1].file = from.file
  BY <1>1, <1>4, <1>6
<1>9. next \in CursorType /\ next.commit = from.commit - n
  BY <1>1, <1>4 DEF CursorType
<1> HIDE DEF next
<1>8. Steady(es, next.commit)
  <2>0. PICK first \in Nat : first = from.commit
    BY <1>1
  <2>1. ASSUME NEW i \in 1 .. n, i > 1 PROVE es[i].commit = es[i - 1].commit - 1
    <3>1. i - 1 \in 1 .. n
      BY <1>4, <2>1
    <3>2. es[i].commit = first + 1 - i /\ es[i - 1].commit = first + 1 - (i - 1)
      BY <1>6, <2>0, <3>1
    <3> QED  BY <1>1, <1>4, <3>2
  <2>2. first - n = es[n].commit - 1
    BY <1>1, <1>4, <1>6, <2>0
  <2> QED  BY <1>6, <1>9, <2>0, <2>1, <2>2 DEF Steady
<1>10. \A j \in DOMAIN es : es[j].file = IF cursor.commit = 0 THEN file ELSE cursor.file
  BY <1>3, <1>6
<1>11. IF cursor.commit = 0 THEN NewestFirst(es) ELSE es[1].commit = cursor.commit
  BY <1>3, <1>7 DEF NewestFirst
<1> QED  BY <1>2, <1>6, <1>7, <1>8, <1>9, <1>10, <1>11 DEF ListType, IsReset

LEMMA HistoryAnswerKeeps ==
  ASSUME History!TimelineAssumption, TimeInv, NEW fetch \in timelineFetches,
         History!Answer(fetch) PROVE TimeInv'
<1> DEFINE m == History!Listing(fetch.target.file, fetch.cursor)
<1>1. /\ timelineFetches' = timelineFetches \ {fetch}
      /\ UNCHANGED <<timelineLength, timelinePanel, timelineTarget, timelineRefetch,
                     timelineBegins, timelineToHost, timelinePage, timelineShows, timelineCrossed,
                     timelineStrayed>>
      /\ IF History!Stale(fetch) THEN UNCHANGED <<timelineKnown, timelineToPage>>
         ELSE timelineKnown' = timelineKnown \cup History!ToSet(m.entries) /\ History!Post(m)
  BY DEF History!Answer, History!budgets
<1>2. TargetType' = TargetType /\ fetch.target \in TargetType /\ fetch.cursor \in CursorType
  BY <1>1 DEF TargetType, TimeInv, TimeType
<1>3. HistoryFresh' = HistoryFresh \ {fetch} /\ More' = More /\ (CursorsFollow => CursorsFollow')
  BY <1>1 DEF HistoryFresh, More, CursorsFollow
<1>4. CASE History!Stale(fetch)
  <2>1. timelineKnown' = timelineKnown /\ timelineToPage' = timelineToPage
    BY <1>1, <1>4
  <2>2. TimeType'
    BY <1>1, <1>2, <2>1 DEF TimeInv, TimeType
  <2>3. Panels' /\ (FilesFollow => FilesFollow') /\ EntriesKnown'
    BY <1>1, <2>1 DEF TimeInv, Panels, FilesFollow, EntriesKnown
  <2>4. timelineCrossed' \/ (InTurn' /\ OneAtATime')
    BY <1>1, <1>3, <2>1 DEF TimeInv, Ordered, InTurn, OneAtATime, AtStart, Further
  <2>5. Newest' = Newest
    BY <1>1, <2>1 DEF Newest, ShownNewest, PostedNewest, NewestFirst, Latest
  <2> QED  BY <1>1, <1>3, <2>2, <2>3, <2>4, <2>5 DEF TimeInv, Ordered
<1>5. CASE ~ History!Stale(fetch)
  <2>1. fetch.target = timelineTarget /\ fetch \in HistoryFresh
    BY <1>5 DEF History!Stale, HistoryFresh
  <2>2. timelinePanel # "closed" /\ timelineTarget.file \in Files
    BY <1>2, <2>1 DEF TimeInv, TimeType, TargetType, History!Untargeted
  <2>3. /\ timelineToPage' = Append(timelineToPage, m)
        /\ timelineKnown' = timelineKnown \cup History!ToSet(m.entries)
    BY <1>1, <1>5, <2>2 DEF History!Post
  <2>4. /\ m \in ListType /\ m.entries # <<>> /\ ~ IsReset(m)
        /\ \A j \in DOMAIN m.entries :
             m.entries[j].file = IF fetch.cursor.commit = 0 THEN timelineTarget.file ELSE fetch.cursor.file
        /\ Steady(m.entries, m.next.commit)
        /\ IF fetch.cursor.commit = 0 THEN NewestFirst(m.entries)
           ELSE m.entries[1].commit = fetch.cursor.commit
    BY <1>2, <2>1, <2>2, Listings DEF TimeInv
  <2>5. \A k \in DOMAIN m.entries : m.entries[k] \in timelineKnown'
    BY <2>3 DEF History!ToSet
  <2>6. timelineKnown \subseteq timelineKnown'
    BY <2>3
  <2> HIDE DEF m
  <2>7. ASSUME ~ timelineStrayed
        PROVE  /\ \A j \in DOMAIN m.entries : m.entries[j].file = timelineTarget.file
               /\ About(m) = timelineTarget.file /\ FilesFollow
    <3>1. m.entries \in Seq(EntryType)
      BY <2>4 DEF ListType
    <3>2. 1 \in DOMAIN m.entries
      BY <2>4, <3>1
    <3>3. FilesFollow /\ (fetch.cursor.commit # 0 => fetch.cursor.file = timelineTarget.file)
      BY <2>1, <2>7 DEF TimeInv, CursorsFollow
    <3>4. \A j \in DOMAIN m.entries : m.entries[j].file = timelineTarget.file
      BY <2>4, <3>3
    <3> QED  BY <2>4, <3>2, <3>3, <3>4 DEF About
  <2>8. /\ timelineToPage' \in Seq(ResetType \cup ListType)
        /\ Len(timelineToPage') = Len(timelineToPage) + 1 /\ Len(timelineToPage) \in Nat
        /\ DOMAIN timelineToPage = 1 .. Len(timelineToPage)
        /\ DOMAIN timelineToPage' = 1 .. Len(timelineToPage) + 1
        /\ timelineToPage'[Len(timelineToPage) + 1] = m /\ \A i \in DOMAIN timelineToPage : timelineToPage'[i] = timelineToPage[i]
        /\ timelineToPage' # <<>> /\ (timelineToPage = <<>> <=> Len(timelineToPage) = 0)
    <3>1. timelineToPage \in Seq(ResetType \cup ListType) /\ m \in ResetType \cup ListType
      BY <2>4 DEF TimeInv, TimeType
    <3>2. timelineToPage = <<>> <=> Len(timelineToPage) = 0
      BY <3>1
    <3> QED  BY <2>3, <3>1, <3>2, Appended
  <2>9. \A i \in DOMAIN timelineToPage' : i \in DOMAIN timelineToPage \/ i = Len(timelineToPage) + 1
    BY <2>8
  <2>10. TimeType' /\ Panels'
    BY <1>1, <1>2, <2>2, <2>8 DEF TimeInv, TimeType, Panels
  <2>11. ASSUME ~ timelineStrayed PROVE FilesFollow'
    <3>1. ASSUME NEW i \in DOMAIN timelineToPage', ~ IsReset(timelineToPage'[i])
          PROVE  /\ \A j \in DOMAIN timelineToPage'[i].entries : timelineToPage'[i].entries[j].file = About(timelineToPage'[i])
                 /\ i - 1 \in DOMAIN timelineToPage' => About(timelineToPage'[i]) = About(timelineToPage'[i - 1])
                 /\ i = 1 => timelinePage.file \in {NONE, About(timelineToPage'[i])}
      <4>1. CASE i \in DOMAIN timelineToPage
        <5>1. timelineToPage'[i] = timelineToPage[i]
          BY <2>8, <4>1
        <5>2. i - 1 \in DOMAIN timelineToPage' => i - 1 \in DOMAIN timelineToPage /\ timelineToPage'[i - 1] = timelineToPage[i - 1]
          BY <2>8, <4>1
        <5> QED  BY <2>7, <2>11, <3>1, <4>1, <5>1, <5>2 DEF FilesFollow
      <4>2. CASE i = Len(timelineToPage) + 1
        <5>1. timelineToPage'[i] = m
          BY <2>8, <4>2
        <5>2. i - 1 \in DOMAIN timelineToPage' => i - 1 = Len(timelineToPage) /\ i - 1 \in DOMAIN timelineToPage /\ timelineToPage # <<>>
          BY <2>8, <4>2
        <5>3. i - 1 \in DOMAIN timelineToPage' => About(timelineToPage'[i - 1]) = timelineTarget.file
          BY <2>2, <2>7, <2>8, <2>11, <5>2 DEF FilesFollow
        <5>4. i = 1 => timelineToPage = <<>>
          BY <2>8, <4>2
        <5> QED  BY <2>2, <2>4, <2>7, <2>11, <5>1, <5>3, <5>4 DEF FilesFollow
      <4> QED  BY <2>9, <4>1, <4>2
    <3>2. About(timelineToPage'[Len(timelineToPage')]) = timelineTarget.file
      BY <2>7, <2>8, <2>11
    <3> QED  BY <1>1, <2>7, <2>8, <2>11, <3>1, <3>2 DEF FilesFollow
  <2>12. EntriesKnown'
    <3>1. ASSUME NEW i \in DOMAIN timelineToPage', ~ IsReset(timelineToPage'[i])
          PROVE  \/ \E j \in DOMAIN timelineToPage' : j > i /\ IsReset(timelineToPage'[j])
                 \/ \A k \in DOMAIN timelineToPage'[i].entries : timelineToPage'[i].entries[k] \in timelineKnown'
      <4>1. CASE i = Len(timelineToPage) + 1
        BY <2>5, <2>8, <4>1
      <4>2. CASE i \in DOMAIN timelineToPage
        <5>1. timelineToPage'[i] = timelineToPage[i]
          BY <2>8, <4>2
        <5>2. CASE \E j \in DOMAIN timelineToPage : j > i /\ IsReset(timelineToPage[j])
          BY <2>8, <5>2
        <5>3. CASE \A k \in DOMAIN timelineToPage[i].entries : timelineToPage[i].entries[k] \in timelineKnown
          BY <2>6, <5>1, <5>3
        <5> QED  BY <3>1, <4>2, <5>1, <5>2, <5>3 DEF TimeInv, EntriesKnown
      <4> QED  BY <2>9, <4>1, <4>2
    <3>2. \/ \E j \in DOMAIN timelineToPage' : IsReset(timelineToPage'[j])
          \/ \A k \in DOMAIN timelinePage.entries : timelinePage.entries[k] \in timelineKnown'
      <4>1. CASE \E j \in DOMAIN timelineToPage : IsReset(timelineToPage[j])
        BY <2>8, <4>1
      <4>2. CASE \A k \in DOMAIN timelinePage.entries : timelinePage.entries[k] \in timelineKnown
        BY <2>6, <4>2
      <4> QED  BY <4>1, <4>2 DEF TimeInv, EntriesKnown
    <3> QED  BY <1>1, <3>1, <3>2 DEF EntriesKnown
  <2>13. ASSUME ~ timelineCrossed PROVE Ordered'
    <3>1. InTurn /\ OneAtATime /\ Newest
      BY <2>13 DEF TimeInv, Ordered
    <3>2. /\ timelineBegins = 0 /\ More = {} /\ HistoryFresh = {fetch}
          /\ IF fetch.cursor.commit = 0 THEN AtStart ELSE Further(fetch.cursor)
      BY <2>1, <3>1 DEF OneAtATime, TimeInv, TimeType
    <3>3. OneAtATime'
      BY <1>1, <1>3, <3>2 DEF OneAtATime
    <3>4. timelineToPage # <<>> => IsReset(timelineToPage[Len(timelineToPage)])
      BY <3>2 DEF AtStart, Further
    <3>5. timelineToPage = <<>> => \/ timelinePage.entries = <<>>
                                   \/ timelinePage.pending /\ m.entries[1].commit = timelinePage.cursor.commit
      BY <2>4, <3>2 DEF AtStart, Further
    <3>6. ASSUME NEW i \in DOMAIN timelineToPage', ~ IsReset(timelineToPage'[i])
          PROVE  /\ Steady(timelineToPage'[i].entries, timelineToPage'[i].next.commit)
                 /\ i + 1 \in DOMAIN timelineToPage' => IsReset(timelineToPage'[i + 1])
                 /\ i = 1 => \/ timelinePage.entries = <<>>
                             \/ timelinePage.pending /\ timelineToPage'[i].entries[1].commit = timelinePage.cursor.commit
      <4>1. CASE i \in DOMAIN timelineToPage
        <5>1. timelineToPage'[i] = timelineToPage[i] /\ timelineToPage # <<>>
          BY <2>8, <4>1
        <5>2. i # Len(timelineToPage)
          BY <3>4, <3>6, <5>1
        <5>3. i + 1 \in DOMAIN timelineToPage /\ timelineToPage'[i + 1] = timelineToPage[i + 1]
          BY <2>8, <4>1, <5>2
        <5> QED  BY <3>1, <3>6, <4>1, <5>1, <5>3 DEF InTurn
      <4>2. CASE i = Len(timelineToPage) + 1
        <5>1. /\ timelineToPage'[i] = m /\ i + 1 \notin DOMAIN timelineToPage'
              /\ (i = 1 => timelineToPage = <<>>)
          BY <2>8, <4>2
        <5> QED  BY <2>4, <3>5, <5>1
      <4> QED  BY <2>9, <4>1, <4>2
    <3>7. InTurn'
      BY <1>1, <3>1, <3>6 DEF InTurn
    <3>8. Latest' = m /\ ~ IsReset(m)
      BY <2>4, <2>8 DEF Latest
    <3>9. ASSUME fetch.cursor.commit = 0 PROVE Newest'
      <4>1. NewestFirst(m.entries) /\ AtStart
        BY <2>4, <3>2, <3>9
      <4>2. PostedNewest'
        BY <1>1, <3>8, <4>1 DEF PostedNewest, NewestFirst
      <4>3. timelineToPage # <<>> => \E i \in DOMAIN timelineToPage' : IsReset(timelineToPage'[i])
        <5>1. timelineToPage # <<>> => Len(timelineToPage) \in DOMAIN timelineToPage
          BY <2>8
        <5>2. timelineToPage # <<>> => Len(timelineToPage) \in DOMAIN timelineToPage'
          BY <2>8, <5>1
        <5> QED  BY <2>8, <3>4, <5>1, <5>2
      <4>4. ShownNewest'
        BY <1>1, <4>1, <4>3 DEF ShownNewest, AtStart
      <4> QED  BY <4>2, <4>4 DEF Newest
    <3>10. ASSUME fetch.cursor.commit # 0 PROVE Newest'
      <4>1. timelineToPage = <<>> /\ timelinePage.entries # <<>>
        BY <3>2, <3>10 DEF Further
      <4>2. PostedNewest'
        BY <1>1, <2>8, <4>1 DEF PostedNewest
      <4>3. ShownNewest => ShownNewest'
        BY <1>1, <4>1 DEF ShownNewest, NewestFirst
      <4> QED  BY <1>1, <3>1, <4>2, <4>3 DEF Newest
    <3> QED  BY <3>3, <3>7, <3>9, <3>10 DEF Ordered
  <2> QED  BY <1>1, <1>3, <2>10, <2>11, <2>12, <2>13 DEF TimeInv
<1> QED  BY <1>4, <1>5

LEMMA FailKeeps == ASSUME TimeInv, NEW fetch \in timelineFetches, History!Fail(fetch) PROVE TimeInv'
<1>1. /\ timelineFetches' = timelineFetches \ {fetch}
      /\ UNCHANGED <<timelineLength, timelinePanel, timelineTarget, timelineKnown, timelineRefetch,
                     timelineBegins, timelineToPage, timelineToHost, timelinePage, timelineShows, timelineCrossed,
                     timelineStrayed>>
  BY DEF History!Fail, History!panelVars
<1>2. HistoryFresh' \subseteq HistoryFresh /\ More' = More /\ TargetType' = TargetType
  BY <1>1 DEF HistoryFresh, More, TargetType
<1>3. TimeType'
  BY <1>1, <1>2 DEF TimeInv, TimeType
<1>4. Panels' /\ EntriesKnown' /\ (timelineStrayed' \/ (FilesFollow' /\ CursorsFollow'))
  <2>1. Panels' /\ EntriesKnown' /\ (FilesFollow => FilesFollow')
    BY <1>1 DEF TimeInv, Panels, FilesFollow, EntriesKnown
  <2>2. CursorsFollow => CursorsFollow'
    BY <1>1, <1>2 DEF CursorsFollow
  <2> QED  BY <1>1, <2>1, <2>2 DEF TimeInv
<1>5. timelineCrossed' \/ (InTurn' /\ OneAtATime')
  BY <1>1, <1>2 DEF TimeInv, Ordered, InTurn, OneAtATime, AtStart, Further
<1>6. Newest' = Newest
  BY <1>1 DEF Newest, ShownNewest, PostedNewest, NewestFirst, Latest
<1> QED  BY <1>1, <1>3, <1>4, <1>5, <1>6 DEF TimeInv, Ordered

(* Entries are added to those shown. *)
LEMMA Joined ==
  ASSUME NEW S, NEW a \in Seq(S), NEW b \in Seq(S), NEW t, t = a \o b
  PROVE  /\ t \in Seq(S) /\ Len(t) = Len(a) + Len(b) /\ Len(a) \in Nat /\ Len(b) \in Nat
         /\ DOMAIN t = 1 .. Len(a) + Len(b) /\ DOMAIN a = 1 .. Len(a) /\ DOMAIN b = 1 .. Len(b)
         /\ \A i \in 1 .. Len(a) : t[i] = a[i]
         /\ \A i \in 1 .. Len(b) : t[Len(a) + i] = b[i]
<1>1. t \in Seq(S) /\ Len(t) = Len(a) + Len(b) /\ Len(a) \in Nat /\ Len(b) \in Nat
  BY ConcatProperties
<1>2. \A i \in 1 .. Len(a) + Len(b) : t[i] = IF i <= Len(a) THEN a[i] ELSE b[i - Len(a)]
  BY ConcatProperties
<1>3. ASSUME NEW i \in 1 .. Len(b) PROVE t[Len(a) + i] = b[i]
  <2>1. Len(a) + i \in 1 .. Len(a) + Len(b) /\ ~ Len(a) + i <= Len(a) /\ (Len(a) + i) - Len(a) = i
    BY <1>1
  <2> QED  BY <1>2, <2>1
<1>4. \A i \in 1 .. Len(a) : t[i] = a[i]
  BY <1>1, <1>2
<1> QED  BY <1>1, <1>3, <1>4

LEMMA JoinedSteady ==
  ASSUME NEW a \in Seq(EntryType), NEW b \in Seq(EntryType), NEW c \in Nat, NEW next \in Nat,
         Steady(a, c), Steady(b, next), b # <<>>, a = <<>> \/ b[1].commit = c
  PROVE  Steady(a \o b, next)
<1> DEFINE t == a \o b
<1>1. /\ t \in Seq(EntryType) /\ Len(t) = Len(a) + Len(b) /\ Len(a) \in Nat /\ Len(b) \in Nat
      /\ DOMAIN t = 1 .. Len(a) + Len(b) /\ DOMAIN a = 1 .. Len(a) /\ DOMAIN b = 1 .. Len(b)
      /\ \A i \in 1 .. Len(a) : t[i] = a[i]
      /\ \A i \in 1 .. Len(b) : t[Len(a) + i] = b[i]
  BY Joined
<1>2. Len(b) > 0 /\ (a = <<>> <=> Len(a) = 0)
  BY <1>1
<1> HIDE DEF t
<1>3. next = t[Len(t)].commit - 1
  BY <1>1, <1>2 DEF Steady
<1>4. ASSUME NEW i \in DOMAIN t, i > 1 PROVE t[i].commit = t[i - 1].commit - 1
  <2>1. CASE i <= Len(a)
    <3>1. i \in DOMAIN a /\ i \in 1 .. Len(a) /\ i - 1 \in 1 .. Len(a)
      BY <1>1, <1>4, <2>1
    <3>2. t[i] = a[i] /\ t[i - 1] = a[i - 1]
      BY <1>1, <3>1
    <3> QED  BY <1>4, <3>1, <3>2 DEF Steady
  <2>2. CASE i = Len(a) + 1
    <3>1. t[i] = b[1]
      BY <1>1, <1>2, <2>2
    <3>2. Len(a) \in 1 .. Len(a) /\ a # <<>> /\ i - 1 = Len(a)
      BY <1>1, <1>2, <1>4, <2>2
    <3>3. t[i - 1] = a[Len(a)]
      BY <1>1, <3>2
    <3> QED  BY <3>1, <3>2, <3>3 DEF Steady
  <2>3. CASE i > Len(a) + 1
    <3> DEFINE j == i - Len(a)
    <3>1. /\ j \in 1 .. Len(b) /\ j - 1 \in 1 .. Len(b) /\ j > 1 /\ i = Len(a) + j
          /\ i - 1 = Len(a) + (j - 1)
      <4>1. i \in 1 .. Len(a) + Len(b) /\ Len(a) \in Nat /\ Len(b) \in Nat
        BY <1>1, <1>4
      <4> QED  BY <2>3, <4>1
    <3> HIDE DEF j
    <3>2. t[i] = b[j] /\ t[i - 1] = b[j - 1]
      BY <1>1, <3>1
    <3> QED  BY <1>1, <3>1, <3>2 DEF Steady
  <2> QED  BY <1>1, <1>4, <2>1, <2>2, <2>3
<1> QED  BY <1>3, <1>4 DEF t, Steady

LEMMA TakeKeeps == ASSUME TimeInv, History!Take PROVE TimeInv'
<1> DEFINE m == timelineToPage[1]
<1>1. /\ timelinePanel = "live" /\ timelineToPage # <<>> /\ timelineToPage' = Tail(timelineToPage)
      /\ UNCHANGED <<timelineLength, timelinePanel, timelineTarget, timelineKnown, timelineRefetch,
                     timelineBegins, timelineFetches, timelineToHost, timelineShows, timelineCrossed,
                     timelineStrayed>>
  BY DEF History!Take, History!panelVars, History!budgets
<1>2. /\ timelineToPage' \in Seq(ResetType \cup ListType)
      /\ Len(timelineToPage') = Len(timelineToPage) - 1 /\ Len(timelineToPage) \in Nat
      /\ DOMAIN timelineToPage = 1 .. Len(timelineToPage)
      /\ DOMAIN timelineToPage' = 1 .. Len(timelineToPage) - 1
      /\ Head(timelineToPage) = m /\ 1 \in DOMAIN timelineToPage
      /\ \A i \in DOMAIN timelineToPage' : timelineToPage'[i] = timelineToPage[i + 1] /\ i + 1 \in DOMAIN timelineToPage
  BY <1>1, Tailed DEF TimeInv, TimeType
<1>3. /\ timelineToPage' = <<>> <=> Len(timelineToPage) = 1
      /\ timelineToPage' # <<>> => timelineToPage'[Len(timelineToPage')] = timelineToPage[Len(timelineToPage)]
  BY <1>2
<1>4. timelinePage' = IF IsReset(m) THEN [file |-> m.file, entries |-> <<>>, cursor |-> History!NoCursor, pending |-> TRUE]
              ELSE [timelinePage EXCEPT !.entries = @ \o m.entries, !.cursor = m.next, !.pending = FALSE]
  BY <1>2 DEF History!Take, IsReset
<1>5. /\ m \in ResetType \cup ListType /\ (IsReset(m) => m \in ResetType)
      /\ (~ IsReset(m) => m \in ListType /\ m.entries # <<>>)
  BY <1>2, Messages DEF TimeInv
<1>6. timelinePage \in PageType
  BY DEF TimeInv, TimeType
<1> DEFINE added == timelinePage.entries \o m.entries
<1>7. IF IsReset(m)
      THEN timelinePage'.file = m.file /\ timelinePage'.entries = <<>> /\ timelinePage'.cursor = History!NoCursor /\ timelinePage'.pending
      ELSE timelinePage'.file = timelinePage.file /\ timelinePage'.entries = added /\ timelinePage'.cursor = m.next /\ ~ timelinePage'.pending
  BY <1>4, <1>6 DEF PageType
<1>8. ~ IsReset(m) =>
        /\ added \in Seq(EntryType) /\ Len(added) = Len(timelinePage.entries) + Len(m.entries)
        /\ Len(timelinePage.entries) \in Nat /\ Len(m.entries) \in Nat
        /\ DOMAIN added = 1 .. Len(timelinePage.entries) + Len(m.entries)
        /\ DOMAIN timelinePage.entries = 1 .. Len(timelinePage.entries)
        /\ DOMAIN m.entries = 1 .. Len(m.entries)
        /\ \A i \in 1 .. Len(timelinePage.entries) : added[i] = timelinePage.entries[i]
        /\ \A i \in 1 .. Len(m.entries) : added[Len(timelinePage.entries) + i] = m.entries[i]
  <2>1. ASSUME ~ IsReset(m) PROVE timelinePage.entries \in Seq(EntryType) /\ m.entries \in Seq(EntryType)
    BY <1>5, <1>6, <2>1 DEF PageType, ListType
  <2>2. ASSUME ~ IsReset(m)
        PROVE  /\ added \in Seq(EntryType) /\ Len(added) = Len(timelinePage.entries) + Len(m.entries)
               /\ Len(timelinePage.entries) \in Nat /\ Len(m.entries) \in Nat
               /\ DOMAIN added = 1 .. Len(timelinePage.entries) + Len(m.entries)
               /\ DOMAIN timelinePage.entries = 1 .. Len(timelinePage.entries)
               /\ DOMAIN m.entries = 1 .. Len(m.entries)
               /\ \A i \in 1 .. Len(timelinePage.entries) : added[i] = timelinePage.entries[i]
               /\ \A i \in 1 .. Len(m.entries) : added[Len(timelinePage.entries) + i] = m.entries[i]
    <3> DEFINE a == timelinePage.entries
               b == m.entries
    <3>1. a \in Seq(EntryType) /\ b \in Seq(EntryType) /\ added = a \o b
      BY <2>1, <2>2
    <3> HIDE DEF a, b, added
    <3>2. /\ added \in Seq(EntryType) /\ Len(added) = Len(a) + Len(b) /\ Len(a) \in Nat
          /\ Len(b) \in Nat
          /\ DOMAIN added = 1 .. Len(a) + Len(b) /\ DOMAIN a = 1 .. Len(a) /\ DOMAIN b = 1 .. Len(b)
          /\ \A i \in 1 .. Len(a) : added[i] = a[i]
          /\ \A i \in 1 .. Len(b) : added[Len(a) + i] = b[i]
      BY <3>1, Joined
    <3> QED  BY <3>2 DEF a, b
  <2> QED  BY <2>2
<1> HIDE DEF m, added
<1>9. ASSUME ~ IsReset(m), NEW i \in DOMAIN added
      PROVE  \/ i \in DOMAIN timelinePage.entries /\ added[i] = timelinePage.entries[i]
             \/ \E j \in DOMAIN m.entries : added[i] = m.entries[j]
  <2>0. /\ i \in 1 .. Len(timelinePage.entries) + Len(m.entries)
        /\ Len(timelinePage.entries) \in Nat /\ Len(m.entries) \in Nat
        /\ DOMAIN timelinePage.entries = 1 .. Len(timelinePage.entries)
        /\ DOMAIN m.entries = 1 .. Len(m.entries)
    BY <1>8, <1>9
  <2>1. CASE i <= Len(timelinePage.entries)
    <3>1. i \in 1 .. Len(timelinePage.entries)
      BY <2>0, <2>1
    <3> QED  BY <1>8, <1>9, <2>0, <3>1
  <2>2. CASE i > Len(timelinePage.entries)
    <3> DEFINE j == i - Len(timelinePage.entries)
    <3> DEFINE la == Len(timelinePage.entries)
               lb == Len(m.entries)
    <3>0. i \in 1 .. la + lb /\ la \in Nat /\ lb \in Nat /\ i > la /\ j = i - la
      BY <2>0, <2>2
    <3> HIDE DEF la, lb, j
    <3>2. j \in 1 .. lb /\ i = la + j
      BY <3>0
    <3>1. j \in 1 .. Len(m.entries) /\ i = Len(timelinePage.entries) + j
      BY <3>2 DEF la, lb
    <3> HIDE DEF j
    <3> QED  BY <1>8, <1>9, <2>0, <3>1
  <2> QED  BY <2>0, <2>1, <2>2
<1>10. TimeType' /\ Panels'
  <2>1. timelinePage' \in PageType
    <3>1. CASE IsReset(m)
      <4>1. m.file \in Files
        BY <1>5, <3>1 DEF ResetType
      <4>2. timelinePage' = [file |-> m.file, entries |-> <<>>, cursor |-> History!NoCursor, pending |-> TRUE]
        BY <1>4, <3>1
      <4> QED  BY <4>1, <4>2, Reduced DEF PageType
    <3>2. CASE ~ IsReset(m)
      <4>1. m.next \in CursorType /\ added \in Seq(EntryType)
        BY <1>5, <1>8, <3>2 DEF ListType
      <4>2. timelinePage' = [timelinePage EXCEPT !.entries = added, !.cursor = m.next, !.pending = FALSE]
        BY <1>4, <1>6, <3>2 DEF added, PageType
      <4> QED  BY <1>6, <4>1, <4>2 DEF PageType
    <3> QED  BY <3>1, <3>2
  <2>2. TargetType' = TargetType
    BY <1>1 DEF TargetType
  <2> QED  BY <1>1, <1>2, <2>1, <2>2 DEF TimeInv, TimeType, Panels
<1>11. m = timelineToPage[1]
  BY DEF m
<1>12. ASSUME ~ timelineStrayed PROVE FilesFollow'
  <2>0. FilesFollow
    BY <1>12 DEF TimeInv
  <2>1. ~ IsReset(m) => /\ \A j \in DOMAIN m.entries : m.entries[j].file = About(m)
                        /\ timelinePage.file \in {NONE, About(m)}
    BY <1>2, <1>11, <2>0 DEF FilesFollow
  <2>2. timelinePage'.file \in {NONE, About(m)}
    BY <1>7, <2>1 DEF About
  <2>3. ASSUME NEW i \in DOMAIN timelinePage'.entries,
               timelinePage'.file # NONE PROVE timelinePage'.entries[i].file = timelinePage'.file
    <3>1. /\ ~ IsReset(m) /\ timelinePage'.entries = added /\ timelinePage'.file = timelinePage.file
          /\ timelinePage.file = About(m)
      BY <1>7, <2>1, <2>3
    <3> QED  BY <1>9, <2>0, <2>1, <2>3, <3>1 DEF FilesFollow
  <2>4. ASSUME NEW i \in DOMAIN timelineToPage', ~ IsReset(timelineToPage'[i])
        PROVE  /\ \A j \in DOMAIN timelineToPage'[i].entries : timelineToPage'[i].entries[j].file = About(timelineToPage'[i])
               /\ i - 1 \in DOMAIN timelineToPage' => About(timelineToPage'[i]) = About(timelineToPage'[i - 1])
               /\ i = 1 => timelinePage'.file \in {NONE, About(timelineToPage'[i])}
    <3>1. /\ timelineToPage'[i] = timelineToPage[i + 1] /\ i + 1 \in DOMAIN timelineToPage
          /\ (i + 1) - 1 = i /\ i \in DOMAIN timelineToPage
      BY <1>2, <2>4
    <3>2. About(timelineToPage[i + 1]) = About(timelineToPage[i])
      BY <2>0, <2>4, <3>1 DEF FilesFollow
    <3>3. i - 1 \in DOMAIN timelineToPage' => timelineToPage'[i - 1] = timelineToPage[i]
      BY <1>2, <2>4
    <3> QED  BY <1>11, <2>0, <2>2, <2>4, <3>1, <3>2, <3>3 DEF FilesFollow
  <2>5. About(timelineToPage[Len(timelineToPage)]) = timelineTarget.file
    BY <1>1, <2>0 DEF FilesFollow
  <2>6. IF timelineToPage' = <<>> THEN timelinePage'.file \in {NONE, timelineTarget.file} ELSE About(timelineToPage'[Len(timelineToPage')]) = timelineTarget.file
    BY <1>3, <1>11, <2>2, <2>5
  <2> QED  BY <1>1, <2>3, <2>4, <2>6 DEF FilesFollow
<1>13. EntriesKnown'
  <2>1. ASSUME NEW j \in DOMAIN timelineToPage, j # 1, IsReset(timelineToPage[j])
        PROVE  j - 1 \in DOMAIN timelineToPage' /\ IsReset(timelineToPage'[j - 1])
    <3>1. j - 1 \in DOMAIN timelineToPage' /\ (j - 1) + 1 = j
      BY <1>2, <2>1
    <3> QED  BY <1>2, <2>1, <3>1
  <2>2. ASSUME NEW i \in DOMAIN timelineToPage', ~ IsReset(timelineToPage'[i])
        PROVE  \/ \E j \in DOMAIN timelineToPage' : j > i /\ IsReset(timelineToPage'[j])
               \/ \A k \in DOMAIN timelineToPage'[i].entries : timelineToPage'[i].entries[k] \in timelineKnown
    <3>1. timelineToPage'[i] = timelineToPage[i + 1] /\ i + 1 \in DOMAIN timelineToPage
      BY <1>2, <2>2
    <3>2. CASE \E j \in DOMAIN timelineToPage : j > i + 1 /\ IsReset(timelineToPage[j])
      <4>1. PICK j \in DOMAIN timelineToPage : j > i + 1 /\ IsReset(timelineToPage[j])
        BY <3>2
      <4>2. j # 1 /\ j - 1 > i
        BY <1>2, <2>2, <4>1
      <4> QED  BY <2>1, <4>1, <4>2
    <3> QED  BY <2>2, <3>1, <3>2 DEF TimeInv, EntriesKnown
  <2>3. \/ \E j \in DOMAIN timelineToPage' : IsReset(timelineToPage'[j])
        \/ \A k \in DOMAIN timelinePage'.entries : timelinePage'.entries[k] \in timelineKnown
    <3>1. CASE \E j \in DOMAIN timelineToPage : j # 1 /\ IsReset(timelineToPage[j])
      BY <2>1, <3>1
    <3>2. CASE ~ \E j \in DOMAIN timelineToPage : j # 1 /\ IsReset(timelineToPage[j])
      <4>1. CASE IsReset(m)
        BY <1>7, <4>1
      <4>2. CASE ~ IsReset(m)
        <5>1. ~ \E j \in DOMAIN timelineToPage : IsReset(timelineToPage[j])
          BY <1>11, <3>2, <4>2
        <5>2. \A k \in DOMAIN m.entries : m.entries[k] \in timelineKnown
          BY <1>2, <1>11, <4>2, <5>1 DEF TimeInv, EntriesKnown
        <5>3. \A k \in DOMAIN timelinePage.entries : timelinePage.entries[k] \in timelineKnown
          BY <5>1 DEF TimeInv, EntriesKnown
        <5> QED  BY <1>7, <1>9, <4>2, <5>2, <5>3
      <4> QED  BY <4>1, <4>2
    <3> QED  BY <3>1, <3>2
  <2> QED  BY <1>1, <2>2, <2>3 DEF EntriesKnown
<1>14. ASSUME ~ timelineCrossed PROVE Ordered'
  <2>1. InTurn /\ OneAtATime /\ Newest
    BY <1>14 DEF TimeInv, Ordered
  <2>2. Steady(timelinePage'.entries, timelinePage'.cursor.commit)
    <3>1. CASE IsReset(m)
      BY <1>7, <3>1, Reduced DEF Steady
    <3>2. CASE ~ IsReset(m)
      <4>1. /\ Steady(timelinePage.entries, timelinePage.cursor.commit) /\ Steady(m.entries, m.next.commit)
            /\ m.entries # <<>>
            /\ timelinePage.entries = <<>> \/ m.entries[1].commit = timelinePage.cursor.commit
        BY <1>2, <1>5, <1>11, <2>1, <3>2 DEF InTurn
      <4>2. /\ timelinePage.entries \in Seq(EntryType) /\ m.entries \in Seq(EntryType)
            /\ timelinePage.cursor.commit \in Nat /\ m.next.commit \in Nat
        BY <1>5, <1>6, <3>2 DEF PageType, ListType, CursorType
      <4> QED  BY <1>7, <3>2, <4>1, <4>2, JoinedSteady DEF added
    <3> QED  BY <3>1, <3>2
  <2>3. ASSUME NEW i \in DOMAIN timelineToPage', ~ IsReset(timelineToPage'[i])
        PROVE  /\ Steady(timelineToPage'[i].entries, timelineToPage'[i].next.commit)
               /\ i + 1 \in DOMAIN timelineToPage' => IsReset(timelineToPage'[i + 1])
               /\ i = 1 => timelinePage'.entries = <<>>
    <3>1. timelineToPage'[i] = timelineToPage[i + 1] /\ i + 1 \in DOMAIN timelineToPage
      BY <1>2, <2>3
    <3>2. i + 1 \in DOMAIN timelineToPage' => timelineToPage'[i + 1] = timelineToPage[(i + 1) + 1] /\ (i + 1) + 1 \in DOMAIN timelineToPage
      BY <1>2
    <3>3. ASSUME i = 1 PROVE IsReset(m)
      <4>1. ~ IsReset(timelineToPage[1 + 1]) /\ 1 + 1 \in DOMAIN timelineToPage
        BY <2>3, <3>1, <3>3
      <4> QED  BY <1>2, <1>11, <2>1, <4>1 DEF InTurn
    <3> QED  BY <1>7, <2>1, <2>3, <3>1, <3>2, <3>3 DEF InTurn
  <2>4. InTurn'
    BY <2>2, <2>3 DEF InTurn
  <2>5. HistoryFresh' = HistoryFresh /\ More' = More
    BY <1>1 DEF HistoryFresh, More
  <2>6. \A c : ~ Further(c)
    BY <1>1 DEF Further
  <2>7. AtStart => AtStart'
    <3>1. ASSUME AtStart PROVE AtStart'
      <4>1. IsReset(timelineToPage[Len(timelineToPage)])
        BY <1>1, <3>1 DEF AtStart
      <4>2. timelineToPage' = <<>> => IsReset(m)
        BY <1>3, <1>11, <4>1
      <4> QED  BY <1>3, <1>7, <4>1, <4>2 DEF AtStart
    <3> QED  BY <3>1
  <2>8. OneAtATime'
    BY <1>1, <2>1, <2>5, <2>6, <2>7 DEF OneAtATime
  <2>9. timelineToPage' # <<>> => Latest' = Latest /\ Len(timelineToPage) # 1
    BY <1>3 DEF Latest
  <2>10. PostedNewest => PostedNewest'
    <3>1. SUFFICES ASSUME PostedNewest, timelineToPage' # <<>>, ~ IsReset(Latest')
                   PROVE  NewestFirst(Latest.entries)'
      BY DEF PostedNewest
    <3>2. Latest' = Latest /\ Len(timelineToPage) # 1 /\ ~ IsReset(Latest)
      BY <2>9, <3>1
    <3>3. NewestFirst(Latest.entries)
      BY <1>1, <3>1, <3>2 DEF PostedNewest
    <3> QED  BY <1>1, <3>2, <3>3 DEF NewestFirst
  <2>11. ShownNewest /\ PostedNewest => ShownNewest'
    <3>1. SUFFICES ASSUME ShownNewest, PostedNewest, timelinePage'.entries # <<>>,
                          \A i \in DOMAIN timelineToPage' : ~ IsReset(timelineToPage'[i])
                   PROVE  NewestFirst(timelinePage.entries)'
      BY DEF ShownNewest
    <3>2. ~ IsReset(m) /\ timelinePage'.entries = added
      BY <1>7, <3>1
    <3>3. Len(timelineToPage) = 1
      <4>1. SUFFICES ASSUME Len(timelineToPage) # 1 PROVE FALSE
        OBVIOUS
      <4>2. 1 \in DOMAIN timelineToPage' /\ 1 + 1 \in DOMAIN timelineToPage
        BY <1>2, <4>1
      <4>3. IsReset(timelineToPage[1 + 1])
        BY <1>2, <1>11, <2>1, <3>2, <4>2 DEF InTurn
      <4> QED  BY <1>2, <3>1, <4>2, <4>3
    <3>4. Latest = m /\ \A i \in DOMAIN timelineToPage : i = 1
      BY <1>2, <1>11, <3>3 DEF Latest
    <3>5. 1 \in 1 .. Len(m.entries) /\ m.entries \in Seq(EntryType)
      <4>1. m.entries \in Seq(EntryType) /\ m.entries # <<>>
        BY <1>5, <3>2 DEF ListType
      <4> QED  BY <4>1
    <3>6. CASE timelinePage.entries = <<>>
      <4>1. NewestFirst(m.entries)
        BY <1>1, <3>1, <3>2, <3>4, <3>6 DEF PostedNewest
      <4>2. added = m.entries
        BY <3>5, <3>6 DEF added
      <4> QED  BY <1>1, <3>2, <4>1, <4>2 DEF NewestFirst
    <3>7. CASE timelinePage.entries # <<>>
      <4>1. NewestFirst(timelinePage.entries)
        BY <1>11, <3>1, <3>2, <3>4, <3>7 DEF ShownNewest
      <4>2. 1 \in 1 .. Len(timelinePage.entries)
        <5>1. timelinePage.entries \in Seq(EntryType)
          BY <1>6 DEF PageType
        <5> QED  BY <3>7, <5>1
      <4>3. added[1] = timelinePage.entries[1]
        BY <1>8, <3>2, <4>2
      <4> QED  BY <1>1, <3>2, <4>1, <4>3 DEF NewestFirst
    <3> QED  BY <3>6, <3>7
  <2>12. Newest'
    BY <1>1, <2>1, <2>10, <2>11 DEF Newest
  <2> QED  BY <2>4, <2>8, <2>12 DEF Ordered
<1>15. CursorsFollow => CursorsFollow'
  BY <1>1 DEF CursorsFollow, HistoryFresh
<1> QED  BY <1>1, <1>10, <1>12, <1>13, <1>14, <1>15 DEF TimeInv

LEMMA LoadMoreKeeps == ASSUME TimeInv, History!LoadMore PROVE TimeInv'
<1> DEFINE m == [type |-> "loadMore", cursor |-> timelinePage.cursor]
<1>1. /\ timelinePage.cursor.commit # 0 /\ ~ timelinePage.pending /\ timelinePage.entries # <<>>
      /\ timelinePage' = [timelinePage EXCEPT !.pending = TRUE]
      /\ timelineToHost' = Append(timelineToHost, m)
      /\ timelineCrossed' = (timelineCrossed \/ History!Among(timelineToPage, "reset"))
      /\ UNCHANGED <<timelineLength, timelinePanel, timelineTarget, timelineKnown, timelineRefetch,
                     timelineBegins, timelineFetches, timelineToPage, timelineShows, timelineStrayed>>
  BY DEF History!LoadMore, History!panelVars, History!budgets
<1>2. timelinePage \in PageType
  BY DEF TimeInv, TimeType
<1>3. /\ timelinePage' \in PageType /\ timelinePage'.file = timelinePage.file
      /\ timelinePage'.entries = timelinePage.entries
      /\ timelinePage'.cursor = timelinePage.cursor /\ timelinePage'.pending
  BY <1>1, <1>2 DEF PageType
<1>4. m \in HostType /\ m.type = "loadMore" /\ m.cursor = timelinePage.cursor
  BY <1>1, <1>2 DEF PageType, HostType
<1> HIDE DEF m
<1>5. timelinePanel = "live"
  BY <1>1, Reduced DEF TimeInv, Panels
<1>6. /\ timelineToHost' \in Seq(HostType) /\ Len(timelineToHost) \in Nat
      /\ DOMAIN timelineToHost = 1 .. Len(timelineToHost)
      /\ DOMAIN timelineToHost' = 1 .. Len(timelineToHost) + 1
      /\ timelineToHost'[Len(timelineToHost) + 1] = m
      /\ \A i \in DOMAIN timelineToHost : timelineToHost'[i] = timelineToHost[i]
  BY <1>1, <1>4, Appended DEF TimeInv, TimeType
<1>7. TimeType' /\ Panels'
  <2>1. {timelineCrossed', timelineStrayed'} \subseteq BOOLEAN /\ TargetType' = TargetType
    BY <1>1 DEF TargetType, TimeInv, TimeType
  <2> QED  BY <1>1, <1>3, <1>5, <1>6, <2>1 DEF TimeInv, TimeType, Panels
<1>8. EntriesKnown' /\ (timelineStrayed' \/ (FilesFollow' /\ CursorsFollow'))
  BY <1>1, <1>3 DEF TimeInv, FilesFollow, EntriesKnown, CursorsFollow, HistoryFresh
<1>9. ASSUME ~ timelineCrossed' PROVE Ordered'
  <2>1. ~ timelineCrossed /\ \A i \in DOMAIN timelineToPage : ~ IsReset(timelineToPage[i])
    BY <1>1, <1>9 DEF History!Among, IsReset
  <2>2. InTurn /\ OneAtATime /\ Newest
    BY <2>1 DEF TimeInv, Ordered
  <2>3. InTurn' /\ Newest'
    BY <1>1, <1>3, <2>2 DEF InTurn, Newest, ShownNewest, PostedNewest, NewestFirst, Latest
  <2>4. /\ timelineToPage \in Seq(ResetType \cup ListType)
        /\ (timelineToPage # <<>> => 1 \in DOMAIN timelineToPage /\ Len(timelineToPage) \in DOMAIN timelineToPage)
    BY DEF TimeInv, TimeType
  <2>5. timelineToPage = <<>>
    BY <1>1, <2>1, <2>2, <2>4 DEF InTurn
  <2>6. ~ AtStart /\ \A c : ~ Further(c)
    BY <1>1, <2>5 DEF AtStart, Further
  <2>7. HistoryFresh = {} /\ More = {} /\ ~ timelineBegins > 0
    BY <2>2, <2>6 DEF OneAtATime
  <2>8. HistoryFresh' = {} /\ ~ timelineBegins' > 0
    BY <1>1, <2>7 DEF HistoryFresh
  <2>9. \A i \in More' : i = Len(timelineToHost) + 1 /\ timelineToHost'[i] = m
    BY <1>6, <2>7 DEF More
  <2>10. ASSUME NEW i \in More' PROVE Further(timelineToHost[i].cursor)'
    <3>1. /\ timelineToHost'[i].cursor = timelinePage'.cursor /\ timelineToPage' = <<>>
          /\ timelinePage'.pending /\ timelinePage'.entries # <<>>
      BY <1>1, <1>3, <1>4, <2>5, <2>9
    <3> QED  BY <3>1 DEF Further
  <2>11. OneAtATime'
    <3>1. \A i, j \in More' : i = j
      BY <2>9
    <3>2. \A f \in HistoryFresh' : FALSE
      BY <2>8
    <3> QED  BY <2>8, <2>10, <3>1, <3>2 DEF OneAtATime
  <2> QED  BY <2>3, <2>11 DEF Ordered
<1> QED  BY <1>7, <1>8, <1>9 DEF TimeInv

LEMMA SameTimeline == ASSUME TimeInv, UNCHANGED History!vars PROVE TimeInv'
<1>1. UNCHANGED <<timelineLength, timelinePanel, timelineTarget, timelineKnown, timelineRefetch,
                  timelineBegins, timelineFetches, timelineToPage, timelineToHost, timelinePage, timelineShows, timelineCrossed,
                  timelineStrayed>>
  BY DEF History!vars, History!panelVars
<1>2. TimeType'
  BY <1>1 DEF TimeInv, TimeType, TargetType
<1>3. Panels' /\ EntriesKnown' /\ (timelineStrayed' \/ (FilesFollow' /\ CursorsFollow'))
  BY <1>1 DEF TimeInv, Panels, FilesFollow, EntriesKnown, CursorsFollow, HistoryFresh
<1>4. timelineCrossed' \/ (InTurn' /\ OneAtATime')
  BY <1>1 DEF TimeInv, Ordered, InTurn, OneAtATime, AtStart, Further, HistoryFresh, More
<1>5. Newest' = Newest
  BY <1>1 DEF Newest, ShownNewest, PostedNewest, NewestFirst, Latest
<1> QED  BY <1>1, <1>2, <1>3, <1>4, <1>5 DEF TimeInv, Ordered

LEMMA StepTimeline == ASSUME History!TimelineAssumption, TimeInv, [History!Next]_(History!vars) PROVE TimeInv'
<1>1. CASE History!Next
  BY <1>1, HistoryShowKeeps, CommitKeeps, LoadKeeps, HistoryCloseKeeps, RefetchKeeps, ReceiveKeeps, FetchKeeps,
     TakeKeeps, LoadMoreKeeps, HistoryAnswerKeeps, FailKeeps DEF History!Next
<1> QED  BY <1>1, SameTimeline

(* The page of the visual file history shows entries of its own file, as long as the host
   is not asked to go on with a file the panel has left, and a click finds each of them
   while no reset is on its way; and as long as no reset has met a page asked for before
   it, what is shown is a run of successive commits, from the newest on unless a refetch
   is set or its reset on its way, and the cursor goes on after it: for any files, lengths of history and page sizes, and any uses of the panel
   (timelineHost.ts, main.ts). *)
THEOREM TimelineRight ==
  ASSUME History!TimelineAssumption
  PROVE  /\ History!Spec => []History!TimelineKept
         /\ (subject = "timeline" => History!Spec) /\ [][UNCHANGED subject]_subject => []TimelineKept
<1>1. ASSUME History!Init PROVE TimeInv
  BY <1>1, InitTimeline
<1>2. ASSUME TimeInv, [History!Next]_(History!vars) PROVE TimeInv'
  BY <1>2, StepTimeline
<1>3. ASSUME TimeInv PROVE History!TimelineKept
  <2>1. History!EntriesOfTheFile
    <3>1. ASSUME ~ History!Among(timelineToPage, "reset") PROVE History!ToSet(timelinePage.entries) \subseteq timelineKnown
      BY <1>3, <3>1 DEF TimeInv, EntriesKnown, History!Among, IsReset, History!ToSet
    <3> QED  BY <1>3, <3>1 DEF History!EntriesOfTheFile, TimeInv, FilesFollow
  <2>2. History!UncrossedExact
    <3>1. SUFFICES ASSUME ~ timelineCrossed PROVE InTurn /\ Newest => History!UncrossedExact
      BY <1>3 DEF History!UncrossedExact, TimeInv, Ordered
    <3>2. ASSUME ~ History!Among(timelineToPage, "reset")
          PROVE  \A i \in DOMAIN timelineToPage : ~ IsReset(timelineToPage[i])
      BY <3>2 DEF History!Among, IsReset
    <3> QED  BY <3>2 DEF History!UncrossedExact, InTurn, Steady, History!Last, Newest, ShownNewest,
          NewestFirst
  <2> QED  BY <2>1, <2>2 DEF History!TimelineKept
<1>4. History!Spec => []History!TimelineKept
  BY <1>1, <1>2, <1>3, PTL DEF History!Spec
<1>5. (subject = "timeline" => History!Spec) /\ [][UNCHANGED subject]_subject => []TimelineKept
  <2>1. /\ ~ (subject = "timeline") /\ [UNCHANGED subject]_subject => ~ (subject = "timeline")'
        /\ ~ (subject = "timeline") => TimelineKept
        /\ History!TimelineKept => TimelineKept
    BY DEF TimelineKept
  <2> QED  BY <1>4, <2>1, PTL
<1> QED  BY <1>4, <1>5

-----------------------------------------------------------------------------
(***************************************************************************)
(* Stashes.  What goes is the stash that was meant.                        *)
(***************************************************************************)
FlowType == [at : {"idle", "confirm", "asked"}, kind : Stash!Kinds \cup {NONE}, entry : Nat \cup {NONE},
             index : Nat, moved : BOOLEAN]
GoneType == [entry : Nat, meant : Nat, moved : BOOLEAN]

StashType ==
  /\ stashMade \in Nat /\ stashStashes \in Seq(1 .. stashMade)
  /\ stashFlow \in [StashSurfaces -> FlowType]
  /\ stashGone \subseteq GoneType

(* Every entry ever made is in the list, once, or gone. *)
InListOnce == \A i, j \in DOMAIN stashStashes : stashStashes[i] = stashStashes[j] => i = j
InListOrGone ==
  \A e \in 1 .. stashMade : (\E i \in DOMAIN stashStashes : stashStashes[i] = e) <=> ~ (\E g \in stashGone : g.entry = e)

(* Until the list changes an action's entry is where it was found. *)
FoundThere ==
  \A s \in StashSurfaces : stashFlow[s].at # "idle" =>
    /\ stashFlow[s].entry \in Nat
    /\ stashFlow[s].moved \/ (stashFlow[s].index \in DOMAIN stashStashes /\ stashStashes[stashFlow[s].index] = stashFlow[s].entry)

GoneMade == \A g \in stashGone : g.entry <= stashMade
MeantGone == \A g \in stashGone : g.moved \/ g.entry = g.meant

StashInv == StashType /\ InListOnce /\ InListOrGone /\ FoundThere /\ GoneMade /\ MeantGone

-----------------------------------------------------------------------------
LEMMA RemovedAt ==
  ASSUME NEW S, NEW s \in Seq(S), NEW n \in DOMAIN s
  PROVE  /\ Stash!RemoveAt(s, n) \in Seq(S) /\ DOMAIN Stash!RemoveAt(s, n) = 1 .. Len(s) - 1
         /\ \A i \in 1 .. Len(s) - 1 : Stash!RemoveAt(s, n)[i] = s[IF i < n THEN i ELSE i + 1]
<1> DEFINE a == SubSeq(s, 1, n - 1)
           b == SubSeq(s, n + 1, Len(s))
           t == Stash!RemoveAt(s, n)
<1>1. Len(s) \in Nat /\ n \in 1 .. Len(s) /\ DOMAIN s = 1 .. Len(s)
  OBVIOUS
<1>2. a \in Seq(S) /\ Len(a) = n - 1 /\ \A i \in 1 .. n - 1 : a[i] = s[i]
  BY <1>1
<1>3. b \in Seq(S) /\ Len(b) = Len(s) - n /\ \A i \in 1 .. Len(b) : b[i] = s[n + i]
  BY <1>1
<1>4. t = a \o b
  BY DEF Stash!RemoveAt
<1> HIDE DEF a, b, t
<1>5. t \in Seq(S) /\ Len(t) = Len(s) - 1
  <2>1. t \in Seq(S)
    BY <1>2, <1>3, <1>4, ConcatProperties
  <2>2. Len(t) = Len(a) + Len(b)
    BY <1>2, <1>3, <1>4, ConcatProperties
  <2> QED  BY <1>1, <1>2, <1>3, <2>1, <2>2
<1>6. \A i \in 1 .. Len(a) + Len(b) : t[i] = IF i <= Len(a) THEN a[i] ELSE b[i - Len(a)]
  BY <1>2, <1>3, <1>4, ConcatProperties
<1>7. ASSUME NEW i \in 1 .. Len(s) - 1 PROVE t[i] = s[IF i < n THEN i ELSE i + 1]
  <2>1. CASE i < n
    BY <1>1, <1>2, <1>3, <1>6, <2>1
  <2>2. CASE i >= n
    <3>1. i - Len(a) \in 1 .. Len(b) /\ n + (i - Len(a)) = i + 1 /\ ~ i <= Len(a)
      BY <1>1, <1>2, <1>3, <2>2
    <3>2. t[i] = b[i - Len(a)]
      <4>1. i \in 1 .. Len(a) + Len(b)
        BY <1>1, <1>2, <1>3, <1>7
      <4> QED  BY <1>6, <3>1, <4>1
    <3>3. b[i - Len(a)] = s[n + (i - Len(a))]
      BY <1>3, <3>1
    <3> QED  BY <1>1, <2>2, <3>1, <3>2, <3>3
  <2> QED  BY <1>1, <2>1, <2>2
<1> QED  BY <1>5, <1>7 DEF t

(* What is left when an entry goes: the others, each once. *)
LEMMA WithoutOne ==
  ASSUME StashType, InListOnce, NEW n \in DOMAIN stashStashes,
         stashStashes' = Stash!RemoveAt(stashStashes, n)
  PROVE  /\ stashStashes' \in Seq(1 .. stashMade)
         /\ \A i, j \in DOMAIN stashStashes' : stashStashes'[i] = stashStashes'[j] => i = j
         /\ \A e : (\E i \in DOMAIN stashStashes' : stashStashes'[i] = e) <=>
                     (\E i \in DOMAIN stashStashes : stashStashes[i] = e) /\ e # stashStashes[n]
<1> DEFINE at(i) == IF i < n THEN i ELSE i + 1
<1>1. /\ stashStashes \in Seq(1 .. stashMade) /\ Len(stashStashes) \in Nat
      /\ DOMAIN stashStashes = 1 .. Len(stashStashes)
      /\ n \in 1 .. Len(stashStashes)
  BY DEF StashType
<1>2. /\ stashStashes' \in Seq(1 .. stashMade) /\ DOMAIN stashStashes' = 1 .. Len(stashStashes) - 1
      /\ \A i \in 1 .. Len(stashStashes) - 1 : stashStashes'[i] = stashStashes[at(i)]
  BY <1>1, RemovedAt
<1>3. \A i \in DOMAIN stashStashes' : at(i) \in DOMAIN stashStashes /\ at(i) # n /\ stashStashes'[i] = stashStashes[at(i)]
  BY <1>1, <1>2
<1>4. \A i, j \in DOMAIN stashStashes' : at(i) = at(j) => i = j
  BY <1>1, <1>2
<1>5. \A i \in DOMAIN stashStashes \ {n} : \E j \in DOMAIN stashStashes' : at(j) = i
  <2>1. ASSUME NEW i \in DOMAIN stashStashes \ {n} PROVE \E j \in DOMAIN stashStashes' : at(j) = i
    <3>1. CASE i < n
      <4>1. i \in DOMAIN stashStashes' /\ at(i) = i
        BY <1>1, <1>2, <3>1
      <4> QED  BY <4>1
    <3>2. CASE i > n
      <4>1. i - 1 \in DOMAIN stashStashes' /\ at(i - 1) = i
        BY <1>1, <1>2, <3>2
      <4> QED  BY <4>1
    <3> QED  BY <1>1, <3>1, <3>2
  <2> QED  BY <2>1
<1> HIDE DEF at
<1>6. \A i, j \in DOMAIN stashStashes' : stashStashes'[i] = stashStashes'[j] => i = j
  BY <1>3, <1>4 DEF InListOnce
<1>7. ASSUME NEW e
      PROVE  (\E i \in DOMAIN stashStashes' : stashStashes'[i] = e) <=>
               (\E i \in DOMAIN stashStashes : stashStashes[i] = e) /\ e # stashStashes[n]
  <2>1. ASSUME NEW i \in DOMAIN stashStashes', stashStashes'[i] = e
        PROVE  (\E j \in DOMAIN stashStashes : stashStashes[j] = e) /\ e # stashStashes[n]
    BY <1>3, <2>1 DEF InListOnce
  <2>2. ASSUME NEW i \in DOMAIN stashStashes, stashStashes[i] = e, e # stashStashes[n]
        PROVE  \E j \in DOMAIN stashStashes' : stashStashes'[j] = e
    <3>1. PICK j \in DOMAIN stashStashes' : at(j) = i
      BY <1>5, <2>2
    <3> QED  BY <1>3, <2>2, <3>1
  <2> QED  BY <2>1, <2>2
<1> QED  BY <1>2, <1>6, <1>7

(* Where an entry is found it is. *)
LEMMA FoundIsThere ==
  ASSUME StashType, NEW s, NEW entry
  PROVE  /\ Stash!Found(s, stashStashes, entry) \in Nat
         /\ Stash!Found(s, stashStashes, entry) # 0 =>
              /\ Stash!Found(s, stashStashes, entry) \in DOMAIN stashStashes
              /\ stashStashes[Stash!Found(s, stashStashes, entry)] = entry
<1> DEFINE I == {i \in 1 .. Len(stashStashes) : stashStashes[i] = entry}
<1>1. Stash!Found(s, stashStashes, entry) = IF I # {} THEN Stash!Min(I) ELSE 0
  BY DEF Stash!Found, Stash!SelectInSeq
<1>2. I \subseteq Nat /\ I \subseteq DOMAIN stashStashes
  BY DEF StashType
<1>3. ASSUME I # {} PROVE Stash!Min(I) \in I
  <2>1. \E m \in I : \A n \in I : m <= n
    <3>1. PICK m \in I : \A n \in I : ~ (<<n, m>> \in OpToRel(<, Nat))
      BY <1>2, <1>3, NatLessThanWellFounded, WFMin
    <3>2. \A n \in I : ~ n < m
      BY <1>2, <3>1 DEF OpToRel
    <3> QED  BY <1>2, <3>2
  <2> HIDE DEF I
  <2> QED  BY <2>1 DEF Stash!Min
<1>4. \A i \in I : stashStashes[i] = entry /\ i # 0
  OBVIOUS
<1> HIDE DEF I
<1>5. CASE I = {}
  BY <1>1, <1>5
<1>6. CASE I # {}
  <2>1. Stash!Found(s, stashStashes, entry) \in I
    BY <1>1, <1>3, <1>6
  <2> QED  BY <1>2, <1>4, <2>1
<1> QED  BY <1>5, <1>6

(* An action that has not found its entry, or finds it where the list has it. *)
LEMMA MovedAre ==
  ASSUME StashType
  PROVE  /\ Stash!Moved \in [StashSurfaces -> FlowType]
         /\ \A s \in StashSurfaces :
              /\ Stash!Moved[s].at = stashFlow[s].at /\ Stash!Moved[s].entry = stashFlow[s].entry
              /\ Stash!Moved[s].at # "idle" => Stash!Moved[s].moved
<1>1. ASSUME NEW s \in StashSurfaces
      PROVE  LET m == [stashFlow[s] EXCEPT !.moved = @ \/ stashFlow[s].at \in {"confirm", "asked"}]
             IN  /\ m \in FlowType /\ m.at = stashFlow[s].at /\ m.entry = stashFlow[s].entry
                 /\ m.at # "idle" => m.moved
  <2>1. stashFlow[s] \in FlowType
    BY DEF StashType
  <2> QED  BY <2>1 DEF FlowType
<1> QED  BY <1>1 DEF Stash!Moved

LEMMA MovedFound ==
  ASSUME StashInv
  PROVE  \A s \in StashSurfaces :
           Stash!Moved[s].at # "idle" => Stash!Moved[s].entry \in Nat /\ Stash!Moved[s].moved
<1> SUFFICES ASSUME NEW s \in StashSurfaces, Stash!Moved[s].at # "idle"
             PROVE  Stash!Moved[s].entry \in Nat /\ Stash!Moved[s].moved
  OBVIOUS
<1>1. /\ Stash!Moved[s].at = stashFlow[s].at /\ Stash!Moved[s].entry = stashFlow[s].entry
      /\ Stash!Moved[s].moved
  BY MovedAre DEF StashInv
<1>2. stashFlow[s].entry \in Nat
  BY <1>1 DEF StashInv, FoundThere
<1> QED  BY <1>1, <1>2

-----------------------------------------------------------------------------
LEMMA InitStashes == ASSUME Stash!StashesAssumption, Stash!Init PROVE StashInv
<1>1. Stashed \in Seq(1 .. Len(Stashed)) /\ Stash!IsInjective(Stashed) /\ Len(Stashed) \in Nat
  BY DEF Stash!StashesAssumption
<1>2. Stash!Idle \in FlowType /\ Stash!Idle.at = "idle"
  BY DEF Stash!Idle, FlowType
<1>3. StashType
  BY <1>1, <1>2 DEF Stash!Init, StashType
<1>4. InListOnce
  BY <1>1 DEF Stash!Init, InListOnce, Stash!IsInjective
<1>5. \A e \in 1 .. stashMade : \E i \in DOMAIN stashStashes : stashStashes[i] = e
  <2> DEFINE n == Len(Stashed)
  <2>1. IsFiniteSet(1 .. n) /\ Cardinality(1 .. n) = n
    <3>1. n \in Nat
      BY <1>1
    <3> HIDE DEF n
    <3>2. 1 \in Int /\ n \in Int
      BY <3>1
    <3>3. IsFiniteSet(1 .. n) /\ Cardinality(1 .. n) = IF 1 > n THEN 0 ELSE n - 1 + 1
      BY <3>2, FS_Interval
    <3> QED  BY <3>1, <3>3
  <2>2. Stashed \in Injection(1 .. n, 1 .. n)
    BY <1>1 DEF Injection, IsInjective, Stash!IsInjective
  <2>3. Stashed \in Surjection(1 .. n, 1 .. n)
    BY <2>1, <2>2, FS_Injection
  <2> QED  BY <1>1, <2>3 DEF Surjection, Stash!Init
<1>6. InListOrGone
  BY <1>5 DEF Stash!Init, InListOrGone
<1>7. FoundThere /\ GoneMade /\ MeantGone
  BY <1>2 DEF Stash!Init, FoundThere, GoneMade, MeantGone
<1> QED  BY <1>3, <1>4, <1>6, <1>7 DEF StashInv

LEMMA StashChooseKeeps ==
  ASSUME Stash!StashesAssumption, StashInv, NEW s \in StashSurfaces, NEW kind \in Stash!Kinds,
         NEW entry \in 1 .. stashMade, Stash!Choose(s, kind, entry)
  PROVE  StashInv'
<1> DEFINE index == Stash!Found(s, stashStashes, entry)
           begun == [at |-> IF kind = "drop" \/ s \in Palette THEN "confirm" ELSE "asked", kind |-> kind,
                     entry |-> entry, index |-> index, moved |-> FALSE]
<1>1. /\ stashFlow' = [stashFlow EXCEPT ![s] = IF index = 0 THEN Stash!Idle ELSE begun]
      /\ stashStashes' = stashStashes /\ stashMade' = stashMade /\ stashGone' = stashGone
  BY DEF Stash!Choose
<1>2. index \in Nat /\ (index # 0 => index \in DOMAIN stashStashes /\ stashStashes[index] = entry)
  BY FoundIsThere DEF StashInv
<1> HIDE DEF index
<1>3. begun \in FlowType /\ begun.index = index /\ begun.entry = entry /\ entry \in Nat
  BY <1>2 DEF FlowType, Stash!Kinds, StashInv, StashType
<1>4. Stash!Idle \in FlowType /\ Stash!Idle.at = "idle"
  BY DEF Stash!Idle, FlowType
<1> HIDE DEF begun
<1>5. StashType' /\ InListOnce' /\ InListOrGone' /\ GoneMade' /\ MeantGone'
  BY <1>1, <1>3, <1>4 DEF StashInv, StashType, InListOnce, InListOrGone, GoneMade, MeantGone
<1>6. FoundThere'
  <2>1. \A q \in StashSurfaces : q # s => stashFlow'[q] = stashFlow[q]
    BY <1>1 DEF StashInv, StashType
  <2>2. stashFlow'[s] = IF index = 0 THEN Stash!Idle ELSE begun
    BY <1>1 DEF StashInv, StashType
  <2> QED  BY <1>1, <1>2, <1>3, <1>4, <2>1, <2>2 DEF StashInv, FoundThere
<1> QED  BY <1>5, <1>6 DEF StashInv

LEMMA ConfirmKeeps ==
  ASSUME StashInv, NEW s \in StashSurfaces, Stash!Confirm(s) PROVE StashInv'
<1> DEFINE asked == [stashFlow[s] EXCEPT !.at = "asked"]
<1>1. /\ stashFlow[s].at = "confirm"
      /\ stashFlow' = [stashFlow EXCEPT ![s] = asked] \/ stashFlow' = [stashFlow EXCEPT ![s] = Stash!Idle]
      /\ stashStashes' = stashStashes /\ stashMade' = stashMade /\ stashGone' = stashGone
  BY DEF Stash!Confirm
<1>2. /\ asked \in FlowType /\ asked.index = stashFlow[s].index /\ asked.entry = stashFlow[s].entry
      /\ asked.moved = stashFlow[s].moved
  BY DEF StashInv, StashType, FlowType
<1>3. Stash!Idle \in FlowType /\ Stash!Idle.at = "idle"
  BY DEF Stash!Idle, FlowType
<1> HIDE DEF asked
<1>4. StashType' /\ InListOnce' /\ InListOrGone' /\ GoneMade' /\ MeantGone'
  BY <1>1, <1>2, <1>3 DEF StashInv, StashType, InListOnce, InListOrGone, GoneMade, MeantGone
<1>5. FoundThere'
  <2>1. \A q \in StashSurfaces : q # s => stashFlow'[q] = stashFlow[q]
    BY <1>1 DEF StashInv, StashType
  <2>2. stashFlow'[s] = asked \/ stashFlow'[s] = Stash!Idle
    BY <1>1 DEF StashInv, StashType
  <2> QED  BY <1>1, <1>2, <1>3, <2>1, <2>2 DEF StashInv, FoundThere
<1> QED  BY <1>4, <1>5 DEF StashInv

(* An entry goes: the rest of the list stays, and whoever had found another has to be
   told that the list has moved. *)
LEMMA GoneKeeps ==
  ASSUME StashInv, NEW n \in DOMAIN stashStashes, stashStashes' = Stash!RemoveAt(stashStashes, n),
         stashMade' = stashMade,
         NEW g \in GoneType, g.entry = stashStashes[n], g.moved \/ g.entry = g.meant,
         stashGone' = stashGone \cup {g}, stashFlow' \in [StashSurfaces -> FlowType],
         \A s \in StashSurfaces : stashFlow'[s].at # "idle" => stashFlow'[s].entry \in Nat /\ stashFlow'[s].moved
  PROVE  StashInv'
<1>1. StashType /\ InListOnce /\ stashStashes[n] \in 1 .. stashMade
  BY DEF StashInv, StashType
<1>2. /\ stashStashes' \in Seq(1 .. stashMade)
      /\ \A i, j \in DOMAIN stashStashes' : stashStashes'[i] = stashStashes'[j] => i = j
      /\ \A e : (\E i \in DOMAIN stashStashes' : stashStashes'[i] = e) <=>
                  (\E i \in DOMAIN stashStashes : stashStashes[i] = e) /\ e # stashStashes[n]
  BY <1>1, WithoutOne
<1>3. StashType' /\ InListOnce'
  BY <1>1, <1>2 DEF StashType, InListOnce
<1>4. \A e : (\E h \in stashGone' : h.entry = e) <=> (\E h \in stashGone : h.entry = e) \/ e = stashStashes[n]
  OBVIOUS
<1>5. InListOrGone'
  BY <1>1, <1>2, <1>4 DEF StashInv, InListOrGone
<1>6. GoneMade'
  <2>1. g.entry <= stashMade
    BY <1>1 DEF StashType
  <2> QED  BY <2>1 DEF StashInv, GoneMade
<1>7. MeantGone' /\ FoundThere'
  BY DEF StashInv, MeantGone, FoundThere
<1> QED  BY <1>3, <1>5, <1>6, <1>7 DEF StashInv

LEMMA ActsKeeps ==
  ASSUME StashInv, NEW s \in StashSurfaces, Stash!Acts(s) PROVE StashInv'
<1> DEFINE f == stashFlow[s]
<1>0. f \in FlowType /\ f.entry \in Nat /\ f.at # "idle" /\ f.moved \in BOOLEAN /\ f.index \in Nat
  BY DEF Stash!Acts, StashInv, StashType, FlowType, FoundThere
<1>1. Stash!Idle \in FlowType /\ Stash!Idle.at = "idle"
  BY DEF Stash!Idle, FlowType
<1>2. CASE /\ stashFlow' = [stashFlow EXCEPT ![s] = Stash!Idle]
           /\ stashStashes' = stashStashes /\ stashMade' = stashMade /\ stashGone' = stashGone
  <2>1. StashType' /\ InListOnce' /\ InListOrGone' /\ GoneMade' /\ MeantGone'
    BY <1>1, <1>2 DEF StashInv, StashType, InListOnce, InListOrGone, GoneMade, MeantGone
  <2>2. FoundThere'
    <3>1. \A q \in StashSurfaces : stashFlow'[q] = IF q = s THEN Stash!Idle ELSE stashFlow[q]
      BY <1>2 DEF StashInv, StashType
    <3> QED  BY <1>1, <1>2, <3>1 DEF StashInv, FoundThere
  <2> QED  BY <2>1, <2>2 DEF StashInv
<1>3. CASE /\ f.index \in DOMAIN stashStashes
           /\ stashStashes' = Stash!RemoveAt(stashStashes, f.index) /\ stashMade' = stashMade
           /\ stashGone' = stashGone \cup {[entry |-> stashStashes[f.index], meant |-> f.entry, moved |-> f.moved]}
           /\ stashFlow' = [Stash!Moved EXCEPT ![s] = Stash!Idle]
  <2> DEFINE g == [entry |-> stashStashes[f.index], meant |-> f.entry, moved |-> f.moved]
  <2>1. stashStashes[f.index] \in Nat /\ (f.moved \/ stashStashes[f.index] = f.entry)
    BY <1>0, <1>3 DEF StashInv, StashType, FoundThere
  <2>2. g \in GoneType /\ g.entry = stashStashes[f.index] /\ (g.moved \/ g.entry = g.meant)
    BY <1>0, <2>1 DEF GoneType
  <2>3. stashFlow' \in [StashSurfaces -> FlowType]
    BY <1>1, <1>3, MovedAre DEF StashInv
  <2>4. \A q \in StashSurfaces : stashFlow'[q] = IF q = s THEN Stash!Idle ELSE Stash!Moved[q]
    BY <1>3, MovedAre DEF StashInv
  <2>5. \A q \in StashSurfaces : stashFlow'[q].at # "idle" => stashFlow'[q].entry \in Nat /\ stashFlow'[q].moved
    BY <1>1, <2>4, MovedFound
  <2> HIDE DEF g, f
  <2> QED  BY <1>3, <2>2, <2>3, <2>5, GoneKeeps DEF g
<1> QED  BY <1>2, <1>3 DEF Stash!Acts

LEMMA PushKeeps == ASSUME StashInv, Stash!Push PROVE StashInv'
<1>1. /\ stashMade' = stashMade + 1 /\ stashStashes' = <<stashMade + 1>> \o stashStashes
      /\ stashFlow' = Stash!Moved /\ stashGone' = stashGone
      /\ StashType /\ stashMade \in Nat /\ stashStashes \in Seq(1 .. stashMade)
  BY DEF Stash!Push, StashInv, StashType
<1>2. /\ stashStashes' \in Seq(1 .. stashMade + 1)
      /\ DOMAIN stashStashes' = 1 .. Len(stashStashes) + 1
      /\ stashStashes'[1] = stashMade + 1 /\ \A i \in DOMAIN stashStashes : stashStashes'[i + 1] = stashStashes[i]
      /\ Len(stashStashes) \in Nat /\ DOMAIN stashStashes = 1 .. Len(stashStashes)
  <2>1. stashStashes \in Seq(1 .. stashMade + 1) /\ <<stashMade + 1>> \in Seq(1 .. stashMade + 1)
    BY <1>1
  <2>2. /\ stashStashes' \in Seq(1 .. stashMade + 1) /\ Len(stashStashes') = Len(stashStashes) + 1
        /\ \A i \in 1 .. 1 + Len(stashStashes) :
             stashStashes'[i] = IF i <= 1 THEN <<stashMade + 1>>[i] ELSE stashStashes[i - 1]
    BY <1>1, <2>1, ConcatProperties
  <2>3. Len(stashStashes) \in Nat /\ DOMAIN stashStashes = 1 .. Len(stashStashes)
    BY <1>1
  <2>4. DOMAIN stashStashes' = 1 .. Len(stashStashes) + 1
    BY <2>2, <2>3
  <2>5. stashStashes'[1] = stashMade + 1
    BY <2>2, <2>3
  <2>6. \A i \in DOMAIN stashStashes : stashStashes'[i + 1] = stashStashes[i]
    BY <2>2, <2>3
  <2> QED  BY <2>2, <2>3, <2>4, <2>5, <2>6
<1>3. \A i \in DOMAIN stashStashes' : i = 1 \/ (i - 1 \in DOMAIN stashStashes /\ stashStashes'[i] = stashStashes[i - 1])
  <2>1. ASSUME NEW i \in DOMAIN stashStashes', i # 1
        PROVE  i - 1 \in DOMAIN stashStashes /\ (i - 1) + 1 = i
    BY <1>2, <2>1
  <2> QED  BY <1>2, <2>1
<1>4. \A i \in DOMAIN stashStashes : stashStashes[i] \in 1 .. stashMade
  BY <1>1
<1>5. StashType'
  BY <1>1, <1>2, MovedAre DEF StashType
<1>6. InListOnce'
  <2>1. ASSUME NEW i \in DOMAIN stashStashes', NEW j \in DOMAIN stashStashes',
               stashStashes'[i] = stashStashes'[j]
        PROVE  i = j
    <3>1. CASE i = 1 /\ j # 1
      <4>1. stashStashes'[j] \in 1 .. stashMade /\ stashStashes'[j] = stashMade + 1
        BY <1>2, <1>3, <1>4, <2>1, <3>1
      <4> QED  BY <1>1, <4>1
    <3>2. CASE i # 1 /\ j = 1
      <4>1. stashStashes'[i] \in 1 .. stashMade /\ stashStashes'[i] = stashMade + 1
        BY <1>2, <1>3, <1>4, <2>1, <3>2
      <4> QED  BY <1>1, <4>1
    <3>3. CASE i # 1 /\ j # 1
      <4>1. i - 1 = j - 1
        BY <1>3, <2>1, <3>3 DEF StashInv, InListOnce
      <4> QED  BY <1>2, <4>1
    <3> QED  BY <3>1, <3>2, <3>3
  <2> QED  BY <2>1 DEF InListOnce
<1>7. InListOrGone'
  <2>1. ASSUME NEW e \in 1 .. stashMade + 1
        PROVE  (\E i \in DOMAIN stashStashes' : stashStashes'[i] = e) <=> ~ (\E g \in stashGone : g.entry = e)
    <3>1. CASE e = stashMade + 1
      <4>1. 1 \in DOMAIN stashStashes'
        BY <1>2
      <4>2. ASSUME NEW g \in stashGone, g.entry = e PROVE FALSE
        <5>1. g.entry <= stashMade
          BY <4>2 DEF StashInv, GoneMade
        <5> QED  BY <1>1, <3>1, <4>2, <5>1
      <4> QED  BY <1>2, <3>1, <4>1, <4>2
    <3>2. CASE e # stashMade + 1
      <4>1. e \in 1 .. stashMade
        BY <1>1, <3>2
      <4>2. (\E i \in DOMAIN stashStashes' : stashStashes'[i] = e) <=> (\E i \in DOMAIN stashStashes : stashStashes[i] = e)
        <5>1. ASSUME NEW i \in DOMAIN stashStashes',
                     stashStashes'[i] = e PROVE \E j \in DOMAIN stashStashes : stashStashes[j] = e
          BY <1>2, <1>3, <3>2, <5>1
        <5>2. ASSUME NEW i \in DOMAIN stashStashes,
                     stashStashes[i] = e PROVE \E j \in DOMAIN stashStashes' : stashStashes'[j] = e
          <6>1. i + 1 \in DOMAIN stashStashes'
            BY <1>2
          <6> QED  BY <1>2, <5>2, <6>1
        <5> QED  BY <5>1, <5>2
      <4> QED  BY <4>1, <4>2 DEF StashInv, InListOrGone
    <3> QED  BY <3>1, <3>2
  <2> QED  BY <1>1, <2>1 DEF InListOrGone
<1>8. FoundThere' /\ GoneMade' /\ MeantGone'
  <2>1. \A s \in StashSurfaces : stashFlow'[s].at # "idle" => stashFlow'[s].entry \in Nat /\ stashFlow'[s].moved
    BY <1>1, MovedFound
  <2>2. \A g \in stashGone : g.entry \in Nat /\ g.entry <= stashMade
    BY DEF StashInv, StashType, GoneType, GoneMade
  <2>3. GoneMade'
    BY <1>1, <2>2 DEF GoneMade
  <2> QED  BY <1>1, <2>1, <2>3 DEF StashInv, FoundThere, MeantGone
<1> QED  BY <1>5, <1>6, <1>7, <1>8 DEF StashInv

LEMMA DroppedKeeps ==
  ASSUME StashInv, NEW i \in DOMAIN stashStashes, Stash!DroppedElsewhere(i) PROVE StashInv'
<1> DEFINE g == [entry |-> stashStashes[i], meant |-> stashStashes[i], moved |-> FALSE]
<1>1. /\ stashStashes' = Stash!RemoveAt(stashStashes, i) /\ stashFlow' = Stash!Moved
      /\ stashGone' = stashGone \cup {g} /\ stashMade' = stashMade
  BY DEF Stash!DroppedElsewhere
<1>2. stashStashes[i] \in Nat
  BY DEF StashInv, StashType
<1>3. g \in GoneType /\ g.entry = stashStashes[i] /\ (g.moved \/ g.entry = g.meant)
  BY <1>2 DEF GoneType
<1>4. stashFlow' \in [StashSurfaces -> FlowType]
  BY <1>1, MovedAre DEF StashInv
<1>5. \A s \in StashSurfaces : stashFlow'[s].at # "idle" => stashFlow'[s].entry \in Nat /\ stashFlow'[s].moved
  BY <1>1, MovedFound
<1> HIDE DEF g
<1> QED  BY <1>1, <1>3, <1>4, <1>5, GoneKeeps

LEMMA SameKeeps ==
  ASSUME StashInv, UNCHANGED <<stashStashes, stashMade, stashFlow, stashGone>> PROVE StashInv'
BY DEF StashInv, StashType, InListOnce, InListOrGone, FoundThere, GoneMade, MeantGone

LEMMA StepStashes == ASSUME Stash!StashesAssumption, StashInv, [Stash!Next]_(Stash!vars) PROVE StashInv'
<1>1. ASSUME NEW s \in StashSurfaces, Stash!Render(s) PROVE StashInv'
  BY <1>1, SameKeeps DEF Stash!Render
<1>2. ASSUME NEW s \in StashSurfaces, NEW kind \in Stash!Kinds, NEW entry \in 1 .. stashMade,
             Stash!Choose(s, kind, entry)
      PROVE  StashInv'
  BY <1>2, StashChooseKeeps
<1>3. ASSUME NEW s \in StashSurfaces, Stash!Confirm(s) PROVE StashInv'
  BY <1>3, ConfirmKeeps
<1>4. ASSUME NEW s \in StashSurfaces, Stash!Acts(s) PROVE StashInv'
  BY <1>4, ActsKeeps
<1>5. ASSUME NEW i \in DOMAIN stashStashes, Stash!DroppedElsewhere(i) PROVE StashInv'
  BY <1>5, DroppedKeeps
<1>6. ASSUME Stash!vars' = Stash!vars PROVE StashInv'
  BY <1>6, SameKeeps DEF Stash!vars
<1> QED  BY <1>1, <1>2, <1>3, <1>4, <1>5, <1>6, PushKeeps DEF Stash!Next

(* However stale what a surface shows, what an action drops is the entry that was meant,
   unless the list changed between its look for the entry and git's run; and an entry is
   in the list or gone, never both: for any surfaces, entries and numbers of actions
   (refCommands.ts, graphActions.ts, gitPalette.ts). *)
THEOREM WhatGoesWasMeant ==
  ASSUME Stash!StashesAssumption
  PROVE  /\ Stash!Spec => []Stash!GoneAsMeant
         /\ (subject = "stashes" => Stash!Spec) /\ [][UNCHANGED subject]_subject => []GoneAsMeant
<1>1. ASSUME Stash!Init PROVE StashInv
  BY <1>1, InitStashes
<1>2. ASSUME StashInv, [Stash!Next]_(Stash!vars) PROVE StashInv'
  BY <1>2, StepStashes
<1>3. ASSUME StashInv PROVE Stash!GoneAsMeant
  <2>1. \A e : e \in Stash!ToSet(stashStashes) <=> \E i \in DOMAIN stashStashes : stashStashes[i] = e
    BY DEF Stash!ToSet
  <2>2. \A e \in 1 .. stashMade : (e \in Stash!ToSet(stashStashes)) # (\E g \in stashGone : g.entry = e)
    BY <1>3, <2>1 DEF StashInv, InListOrGone
  <2> QED  BY <1>3, <2>2 DEF Stash!GoneAsMeant, StashInv, MeantGone
<1>4. Stash!Spec => []Stash!GoneAsMeant
  BY <1>1, <1>2, <1>3, PTL DEF Stash!Spec
<1>5. (subject = "stashes" => Stash!Spec) /\ [][UNCHANGED subject]_subject => []GoneAsMeant
  <2>1. /\ ~ (subject = "stashes") /\ [UNCHANGED subject]_subject => ~ (subject = "stashes")'
        /\ ~ (subject = "stashes") => GoneAsMeant
        /\ Stash!GoneAsMeant => GoneAsMeant
    BY DEF GoneAsMeant
  <2> QED  BY <1>4, <2>1, PTL
<1> QED  BY <1>4, <1>5

-----------------------------------------------------------------------------
(***************************************************************************)
(* Sequencer.  What git is stopped in is named, answered for and shown.    *)
(***************************************************************************)
Ops == {"merge", "cherry-pick", "revert", "rebase"}
Markers == {"MERGE_HEAD", "REVERT_HEAD", "CHERRY_PICK_HEAD", "none"}
GitType == [op : Ops \cup {"none"}, marker : Markers,
            left : Nat, clash : BOOLEAN]
Commands == Stopped!Starting \cup Stopped!Plain \cup Stopped!Resuming
ServingType == [command : Commands, op : Ops \cup {"none"}, ran : BOOLEAN, ok : BOOLEAN, loaded : BOOLEAN]

(* What git is stopped in: its marker is one of the operation's, or gone by hand; a
   merge has nothing to go. *)
StoppedIn(g) ==
  /\ g \in GitType
  /\ g.op = "none" => g.marker = "none" /\ g.left = 0
  /\ g.op # "none" => g.marker \in Stopped!MarkersOf(g.op) \cup {"none"}

Told(g) == g.op \notin {"none", "rebase"} => g.marker # "none"

GitKept == \A r \in Repos : StoppedIn(sequencerGit[r]) /\ (Told(sequencerGit[r]) \/ sequencerOutOfTurn)

SeqType ==
  /\ DOMAIN sequencerGit = Repos /\ sequencerGit = [r \in Repos |-> sequencerGit[r]]
  /\ sequencerServing \in [Repos -> ServingType \cup {NONE}]
  /\ sequencerAnswer = [r \in Repos |-> sequencerAnswer[r]]
  /\ sequencerActive \in Repos
  /\ {sequencerTimer, sequencerKey, sequencerUnread, sequencerCrossed, sequencerOutOfTurn} \subseteq BOOLEAN

(* What an answer a says of a repository in which git is stopped in g. *)
TrueOf(a, g) ==
  /\ a.looked /\ ~a.failed => (a.conflicts <=> g.clash)
  /\ a.operation # "none" => Stopped!Reading(g) = a.operation
  /\ a.completed /\ ~sequencerOutOfTurn => g = Stopped!Clean

(* A repository that is being served has no answer. *)
AnswerKept(r) ==
  sequencerAnswer[r] # NONE => sequencerServing[r] = NONE /\ TrueOf(sequencerAnswer[r], sequencerGit[r])
AnswersKept == \A r \in Repos : AnswerKept(r)

(* One refresh at a time, of the active repository; what it has read, if it could read
   anything, is still so unless the timer has been set since. *)
KeyKept ==
  ~sequencerCrossed =>
    /\ \A f, g \in sequencerRefreshes : f = g
    /\ \A f \in sequencerRefreshes : f.repo = sequencerActive
    /\ ~sequencerTimer =>
         /\ \A f \in sequencerRefreshes :
              f.shown \notin {NONE, "unread"} => f.shown = Stopped!Reading(sequencerGit[sequencerActive])
         /\ sequencerRefreshes = {} =>
              (sequencerKey <=> ~sequencerUnread /\ Stopped!Reading(sequencerGit[sequencerActive]) # "none")

SeqInv == SeqType /\ GitKept /\ AnswersKept /\ KeyKept

-----------------------------------------------------------------------------
LEMMA CleanStopped == StoppedIn(Stopped!Clean) /\ Told(Stopped!Clean) /\ Stopped!Reading(Stopped!Clean) = "none"
<1>1. /\ Stopped!Clean.op = "none" /\ Stopped!Clean.marker = "none" /\ Stopped!Clean.left = 0
      /\ Stopped!Clean \in GitType
  BY DEF Stopped!Clean, GitType, Markers, Ops
<1> QED  BY <1>1 DEF StoppedIn, Told, Stopped!Reading

(* Wherever git goes it stops with the operation's own marker. *)
LEMMA GoesStops ==
  ASSUME NEW op \in Ops, NEW n \in Nat, NEW run \in Stopped!Goes(op, n)
  PROVE  StoppedIn(run.to) /\ (Told(run.to) \/ op = "none") /\ run.ok \in BOOLEAN
<1>1. CASE run = [to |-> Stopped!Clean, ok |-> TRUE]
  BY <1>1, CleanStopped
<1>2. ASSUME NEW m \in Stopped!MarkersOf(op), NEW k \in 0 .. n - 1, NEW c \in BOOLEAN,
             run = [to |-> [op |-> op, marker |-> m, left |-> k, clash |-> c], ok |-> FALSE]
      PROVE  StoppedIn(run.to) /\ Told(run.to) /\ run.ok \in BOOLEAN
  <2>1. k \in Nat
    BY <1>2
  <2>2. op # "none" /\ (op # "rebase" => m # "none")
    BY DEF Ops, Stopped!MarkersOf
  <2>3. m \in Markers
    BY DEF Ops, Stopped!MarkersOf, Markers
  <2> QED  BY <1>2, <2>1, <2>2, <2>3 DEF StoppedIn, Told, GitType
<1> QED  BY <1>1, <1>2 DEF Stopped!Goes

(* A commit or a reset by hand takes the marker away, which is out of turn when there
   are picks to go. *)
LEMMA ConcludedStops ==
  ASSUME NEW g, StoppedIn(g)
  PROVE  /\ StoppedIn(Stopped!Concluded(g))
         /\ Told(Stopped!Concluded(g)) \/ (/\ Stopped!Concluded(g).left = g.left /\ Stopped!Concluded(g).marker = "none"
                                           /\ g.op # "rebase" /\ Stopped!Concluded(g).op # "none"
                                           /\ Stopped!Concluded(g).op = g.op)
<1>1. CASE g.op = "rebase" \/ g.left > 0
  <2>1. Stopped!Concluded(g) = [g EXCEPT !.marker = "none", !.clash = FALSE]
    BY <1>1 DEF Stopped!Concluded
  <2> DEFINE h == Stopped!Concluded(g)
  <2>2. h \in GitType /\ h.op = g.op /\ h.left = g.left /\ h.marker = "none"
    BY <2>1 DEF StoppedIn, GitType, Markers
  <2>3. g.op # "none"
    BY <1>1 DEF StoppedIn, GitType
  <2> HIDE DEF h
  <2>4. StoppedIn(h) /\ (Told(h) \/ g.op # "rebase")
    BY <2>2, <2>3 DEF StoppedIn, Told
  <2> QED  BY <2>2, <2>3, <2>4 DEF h
<1>2. CASE ~ (g.op = "rebase" \/ g.left > 0)
  <2>1. Stopped!Concluded(g) = Stopped!Clean
    BY <1>2 DEF Stopped!Concluded
  <2> QED  BY <2>1, CleanStopped
<1> QED  BY <1>1, <1>2

(* What a run of git on g may leave. *)
Leaves(g, run) ==
  /\ StoppedIn(run.to) /\ run.ok \in BOOLEAN
  /\ \/ Told(run.to) \/ run.to = g
     \/ run.to.op = g.op /\ run.to.marker = g.marker
     \/ /\ run.to.left = g.left /\ run.to.marker = "none" /\ g.op # "rebase" /\ run.to.op # "none"
        /\ run.to.op = g.op

LEMMA ConcludedLeaves ==
  ASSUME NEW g, StoppedIn(g), NEW u,
         u = [to |-> Stopped!Concluded(g), ok |-> TRUE] PROVE Leaves(g, u)
<1>1. u.to = Stopped!Concluded(g) /\ u.ok = TRUE
  OBVIOUS
<1> QED  BY <1>1, ConcludedStops DEF Leaves

LEMMA RunsLeave ==
  ASSUME Stopped!SequencerAssumption, NEW g, StoppedIn(g), NEW c \in Commands, NEW op,
         NEW run \in Stopped!Runs(g, c, op)
  PROVE  Leaves(g, run)
<1>1. ASSUME NEW u \in Stopped!Refused(g) PROVE Leaves(g, u)
  <2>1. u.to = g /\ u.ok = FALSE
    BY <1>1 DEF Stopped!Refused
  <2> QED  BY <2>1 DEF Leaves
<1>2. ASSUME NEW u \in Stopped!Commits(g) PROVE Leaves(g, u)
  <2>1. CASE u \in Stopped!Refused(g)
    BY <1>1, <2>1
  <2>2. CASE u = [to |-> Stopped!Concluded(g), ok |-> TRUE]
    BY <2>2, ConcludedLeaves
  <2> QED  BY <1>2, <2>1, <2>2 DEF Stopped!Commits
<1>3. ASSUME NEW u \in Stopped!Resets(g) PROVE Leaves(g, u)
  BY <1>3, ConcludedLeaves DEF Stopped!Resets
<1>4. ASSUME NEW u \in Stopped!StashApplies(g) PROVE Leaves(g, u)
  <2>1. /\ [g EXCEPT !.clash = TRUE] \in GitType
        /\ [g EXCEPT !.clash = TRUE].op = g.op /\ [g EXCEPT !.clash = TRUE].marker = g.marker
        /\ [g EXCEPT !.clash = TRUE].left = g.left
    BY DEF StoppedIn, GitType
  <2>2. StoppedIn([g EXCEPT !.clash = TRUE])
    BY <2>1 DEF StoppedIn
  <2>3. CASE u = [to |-> [g EXCEPT !.clash = TRUE], ok |-> FALSE]
    BY <2>1, <2>2, <2>3 DEF Leaves
  <2>4. CASE u = [to |-> g, ok |-> TRUE]
    BY <2>4 DEF Leaves
  <2> QED  BY <1>1, <1>4, <2>3, <2>4 DEF Stopped!StashApplies
<1>5. ASSUME NEW o \in Ops, NEW n \in Nat, NEW u \in Stopped!Goes(o, n) PROVE Leaves(g, u)
  <2>1. StoppedIn(u.to) /\ Told(u.to) /\ u.ok \in BOOLEAN
    BY <1>5, GoesStops DEF Ops
  <2> QED  BY <2>1 DEF Leaves
<1>6. CASE c \in Stopped!Starting
  <2>1. c.name \in Ops /\ c.n \in Nat
    BY <1>6 DEF Stopped!Starting, Ops, Stopped!SequencerAssumption
  <2>2. run \in Stopped!Refused(g) \/ run \in Stopped!Goes(c.name, c.n)
    BY <1>6 DEF Stopped!Runs, Stopped!Starts
  <2> QED  BY <1>1, <1>5, <2>1, <2>2
<1>7. CASE c \in Stopped!Resuming /\ c \notin Stopped!Starting
  <2>1. run \in Stopped!Resumes(g, op, c.name) /\ c.name \in {"continue", "skip", "abort"}
    BY <1>7 DEF Stopped!Runs, Stopped!Resuming
  <2>2. CASE op = "none" \/ g.op # op
    BY <1>1, <2>1, <2>2 DEF Stopped!Resumes
  <2>3. CASE ~ (op = "none" \/ g.op # op)
    <3>1. op \in Ops /\ g.left \in Nat
      BY <2>3 DEF StoppedIn, GitType
    <3>2. \/ run = [to |-> Stopped!Clean, ok |-> TRUE] \/ run \in Stopped!Goes(op, g.left)
          \/ run \in Stopped!Refused(g) \/ run \in Stopped!Commits(g)
      BY <2>1, <2>3 DEF Stopped!Resumes
    <3>3. Leaves(g, [to |-> Stopped!Clean, ok |-> TRUE])
      BY CleanStopped DEF Leaves
    <3> QED  BY <1>1, <1>2, <1>5, <3>1, <3>2, <3>3
  <2> QED  BY <2>2, <2>3
<1>8. CASE c \notin Stopped!Starting /\ c \notin Stopped!Resuming
  <2>1. c.name \in {"commit", "reset", "stash"}
    BY <1>8 DEF Commands, Stopped!Plain
  <2> QED  BY <1>2, <1>3, <1>4, <1>8, <2>1 DEF Stopped!Runs
<1> QED  BY <1>6, <1>7, <1>8

LEMMA ReadingOfMarks ==
  ASSUME NEW g, NEW h, g.op = h.op,
         g.marker = h.marker PROVE Stopped!Reading(g) = Stopped!Reading(h)
BY DEF Stopped!Reading

(* Where a run of git ends, its operation is told, or the turn is noted. *)
LEMMA TurnNoted ==
  ASSUME SeqInv, NEW r \in Repos, NEW run, Leaves(sequencerGit[r], run),
         sequencerGit' = [sequencerGit EXCEPT ![r] = run.to], Stopped!NoteTurn(r)
  PROVE  Told(run.to) \/ sequencerOutOfTurn'
<1>1. sequencerGit'[r] = run.to
  BY DEF SeqInv, SeqType
<1>2. StoppedIn(sequencerGit[r]) /\ (Told(sequencerGit[r]) \/ sequencerOutOfTurn)
  BY DEF SeqInv, GitKept
<1>3. ASSUME ~ Told(run.to), ~ sequencerOutOfTurn PROVE sequencerOutOfTurn'
  <2>1. Told(sequencerGit[r])
    BY <1>2, <1>3
  <2>2. /\ run.to # sequencerGit[r]
        /\ ~ (run.to.op = sequencerGit[r].op /\ run.to.marker = sequencerGit[r].marker)
    BY <1>3, <2>1 DEF Told
  <2>3. /\ run.to.left = sequencerGit[r].left /\ run.to.marker = "none"
        /\ sequencerGit[r].op # "rebase" /\ run.to.op # "none" /\ run.to.op = sequencerGit[r].op
    BY <1>3, <2>2 DEF Leaves
  <2>4. sequencerGit[r].marker # "none"
    BY <2>1, <2>3 DEF Told
  <2> QED  BY <1>1, <2>3, <2>4 DEF Stopped!NoteTurn
<1>4. sequencerOutOfTurn => sequencerOutOfTurn'
  BY DEF Stopped!NoteTurn
<1> QED  BY <1>3, <1>4

(* git moves in one repository, noticed; no answer is left there that it makes untrue. *)
LEMMA GitMoves ==
  ASSUME SeqInv, NEW r \in Repos, NEW to, StoppedIn(to),
         sequencerGit' = [sequencerGit EXCEPT ![r] = to],
         Told(to) \/ sequencerOutOfTurn', sequencerOutOfTurn' \in BOOLEAN, sequencerOutOfTurn => sequencerOutOfTurn',
         Stopped!Notice(r),
         sequencerServing' \in [Repos -> ServingType \cup {NONE}], sequencerAnswer' = [q \in Repos |-> sequencerAnswer'[q]],
         AnswerKept(r)',
         \A q \in Repos : q # r => sequencerAnswer'[q] = sequencerAnswer[q] /\ sequencerServing'[q] = sequencerServing[q],
         UNCHANGED <<sequencerActive, sequencerRefreshes, sequencerKey, sequencerUnread, sequencerCrossed>>
  PROVE  SeqInv'
<1>1. /\ sequencerGit' = [q \in Repos |-> sequencerGit'[q]] /\ DOMAIN sequencerGit' = Repos
      /\ sequencerGit'[r] = to
      /\ \A q \in Repos : q # r => sequencerGit'[q] = sequencerGit[q]
  BY DEF SeqInv, SeqType
<1>2. sequencerTimer' \in BOOLEAN /\ (sequencerTimer => sequencerTimer')
  BY DEF Stopped!Notice, SeqInv, SeqType
<1>3. SeqType'
  BY <1>1, <1>2 DEF SeqInv, SeqType
<1>4. GitKept'
  BY <1>1 DEF SeqInv, GitKept
<1>5. AnswersKept'
  <2>1. ASSUME NEW q \in Repos, q # r PROVE AnswerKept(q)'
    BY <1>1, <2>1 DEF SeqInv, AnswersKept, AnswerKept, TrueOf
  <2> QED  BY <2>1 DEF AnswersKept
<1>6. KeyKept'
  <2>1. ASSUME ~ sequencerTimer' PROVE Stopped!Reading(sequencerGit'[sequencerActive]) = Stopped!Reading(sequencerGit[sequencerActive])
    <3>1. CASE r # sequencerActive
      BY <1>1, <3>1 DEF SeqInv, SeqType
    <3>2. CASE r = sequencerActive
      <4>1. <<sequencerGit'[r].op, sequencerGit'[r].marker>> = <<sequencerGit[r].op, sequencerGit[r].marker>>
        BY <2>1 DEF Stopped!Notice
      <4>2. /\ sequencerGit'[r].op = sequencerGit[r].op
            /\ sequencerGit'[r].marker = sequencerGit[r].marker
        BY <4>1
      <4> QED  BY <3>2, <4>2, ReadingOfMarks
    <3> QED  BY <3>1, <3>2
  <2> QED  BY <1>2, <2>1 DEF SeqInv, KeyKept
<1> QED  BY <1>3, <1>4, <1>5, <1>6 DEF SeqInv

-----------------------------------------------------------------------------
LEMMA InitSeq == ASSUME Stopped!Init PROVE SeqInv
<1>1. SeqType
  BY DEF Stopped!Init, SeqType
<1>2. GitKept
  BY CleanStopped DEF Stopped!Init, GitKept
<1>3. AnswersKept
  BY DEF Stopped!Init, AnswersKept, AnswerKept
<1>4. KeyKept
  BY CleanStopped DEF Stopped!Init, KeyKept
<1> QED  BY <1>1, <1>2, <1>3, <1>4 DEF SeqInv

LEMMA ServeKeeps ==
  ASSUME SeqInv, NEW r \in Repos, NEW c \in Commands, Stopped!Serve(r, c) PROVE SeqInv'
<1>1. UNCHANGED <<sequencerGit, sequencerActive, sequencerTimer, sequencerRefreshes, sequencerKey,
                  sequencerUnread, sequencerCrossed, sequencerOutOfTurn>> /\ sequencerServing[r] = NONE
  BY DEF Stopped!Serve, Stopped!keyVars
<1> DEFINE no == [looked |-> TRUE, failed |-> TRUE, operation |-> "none", completed |-> FALSE, conflicts |-> FALSE]
           halt == [looked |-> TRUE, failed |-> FALSE, operation |-> Stopped!Reading(sequencerGit[r]), completed |-> FALSE, conflicts |-> TRUE]
           begun == [command |-> c, op |-> Stopped!Reading(sequencerGit[r]), ran |-> FALSE, ok |-> FALSE,
                     loaded |-> IF c \in Stopped!Resuming THEN sequencerGit[r].clash ELSE FALSE]
<1>2. \/ sequencerAnswer' = [sequencerAnswer EXCEPT ![r] = no] /\ sequencerServing' = sequencerServing
      \/ sequencerAnswer' = [sequencerAnswer EXCEPT ![r] = halt] /\ sequencerServing' = sequencerServing /\ sequencerGit[r].clash
      \/ sequencerAnswer' = [sequencerAnswer EXCEPT ![r] = NONE] /\ sequencerServing' = [sequencerServing EXCEPT ![r] = begun]
  BY DEF Stopped!Serve
<1>3. TrueOf(no, sequencerGit[r]) /\ (sequencerGit[r].clash => TrueOf(halt, sequencerGit[r]))
  BY DEF TrueOf
<1>4. begun \in ServingType
  <2>1. sequencerGit[r].clash \in BOOLEAN
    BY DEF SeqInv, GitKept, StoppedIn, GitType
  <2>2. Stopped!Reading(sequencerGit[r]) \in Ops \cup {"none"}
    BY DEF Stopped!Reading, Ops
  <2> QED  BY <2>1, <2>2 DEF ServingType
<1> HIDE DEF no, halt, begun
<1>5. SeqType'
  BY <1>1, <1>2, <1>4 DEF SeqInv, SeqType
<1>6. GitKept' /\ KeyKept'
  BY <1>1 DEF SeqInv, GitKept, KeyKept
<1>7. AnswersKept'
  <2>1. \A q \in Repos : q # r => sequencerAnswer'[q] = sequencerAnswer[q] /\ sequencerServing'[q] = sequencerServing[q]
    BY <1>2 DEF SeqInv, SeqType
  <2>2. ASSUME NEW q \in Repos, q # r PROVE AnswerKept(q)'
    BY <1>1, <2>1, <2>2 DEF SeqInv, AnswersKept, AnswerKept, TrueOf
  <2>3. \/ sequencerAnswer'[r] = no /\ sequencerServing'[r] = NONE
        \/ sequencerAnswer'[r] = halt /\ sequencerServing'[r] = NONE /\ sequencerGit[r].clash
        \/ sequencerAnswer'[r] = NONE
    BY <1>1, <1>2 DEF SeqInv, SeqType
  <2>4. AnswerKept(r)'
    BY <1>1, <1>3, <2>3 DEF AnswerKept, TrueOf
  <2> QED  BY <2>2, <2>4 DEF AnswersKept
<1> QED  BY <1>5, <1>6, <1>7 DEF SeqInv

LEMMA GitRunsKeeps ==
  ASSUME Stopped!SequencerAssumption, SeqInv, NEW r \in Repos, Stopped!GitRuns(r) PROVE SeqInv'
<1>1. /\ sequencerServing[r] \in ServingType /\ sequencerServing[r] # NONE
      /\ sequencerAnswer[r] = NONE /\ StoppedIn(sequencerGit[r])
  BY DEF Stopped!GitRuns, SeqInv, SeqType, AnswersKept, AnswerKept, GitKept
<1>2. PICK run \in Stopped!Runs(sequencerGit[r], sequencerServing[r].command, sequencerServing[r].op) :
         /\ sequencerGit' = [sequencerGit EXCEPT ![r] = run.to]
         /\ sequencerServing' = [sequencerServing EXCEPT ![r].ran = TRUE, ![r].ok = run.ok]
         /\ Stopped!Notice(r) /\ Stopped!NoteTurn(r)
  BY DEF Stopped!GitRuns
<1>3. sequencerServing[r].command \in Commands
  BY <1>1 DEF ServingType
<1>4. Leaves(sequencerGit[r], run)
  BY <1>1, <1>3, RunsLeave
<1>5. [sequencerServing[r] EXCEPT !.ran = TRUE, !.ok = run.ok] \in ServingType
  BY <1>1, <1>4 DEF ServingType, Leaves
<1>6. sequencerServing' = [sequencerServing EXCEPT ![r] = [sequencerServing[r] EXCEPT !.ran = TRUE, !.ok = run.ok]]
  BY <1>1, <1>2 DEF SeqInv, SeqType
<1>7. /\ sequencerServing' \in [Repos -> ServingType \cup {NONE}]
      /\ \A q \in Repos : q # r => sequencerServing'[q] = sequencerServing[q]
  BY <1>5, <1>6 DEF SeqInv, SeqType
<1>8. sequencerAnswer' = sequencerAnswer /\ UNCHANGED <<sequencerActive, sequencerRefreshes,
                                                        sequencerKey, sequencerUnread, sequencerCrossed>>
  BY DEF Stopped!GitRuns
<1>9. sequencerAnswer' = [q \in Repos |-> sequencerAnswer'[q]] /\ AnswerKept(r)'
  BY <1>1, <1>8 DEF SeqInv, SeqType, AnswerKept
<1>10. StoppedIn(run.to) /\ (Told(run.to) \/ sequencerOutOfTurn')
  BY <1>2, <1>4, TurnNoted DEF Leaves
<1>11. sequencerOutOfTurn' \in BOOLEAN /\ (sequencerOutOfTurn => sequencerOutOfTurn')
  BY <1>2 DEF Stopped!NoteTurn, SeqInv, SeqType
<1> QED  BY <1>2, <1>7, <1>8, <1>9, <1>10, <1>11, GitMoves

LEMMA OutsideKeeps ==
  ASSUME Stopped!SequencerAssumption, SeqInv, NEW r \in Repos, Stopped!Outside(r) PROVE SeqInv'
<1>1. PICK to \in {[sequencerGit[r] EXCEPT !.clash = FALSE]} \cup
               {run.to : run \in UNION {Stopped!Runs(sequencerGit[r], c, sequencerGit[r].op) : c \in Commands}} :
        sequencerGit' = [sequencerGit EXCEPT ![r] = to]
  BY DEF Stopped!Outside, Commands
<1>2. StoppedIn(sequencerGit[r])
  BY DEF SeqInv, GitKept
<1>3. \E run : Leaves(sequencerGit[r], run) /\ run.to = to
  <2>1. CASE to = [sequencerGit[r] EXCEPT !.clash = FALSE]
    <3> DEFINE run == [to |-> to, ok |-> TRUE]
    <3>1. /\ to \in GitType /\ to.op = sequencerGit[r].op /\ to.marker = sequencerGit[r].marker
          /\ to.left = sequencerGit[r].left
      BY <1>2, <2>1 DEF StoppedIn, GitType
    <3>2. Leaves(sequencerGit[r], run)
      BY <1>2, <3>1 DEF Leaves, StoppedIn
    <3>3. run.to = to
      OBVIOUS
    <3> HIDE DEF run
    <3> QED  BY <3>2, <3>3
  <2>2. CASE to \in {run.to : run \in UNION {Stopped!Runs(sequencerGit[r], c, sequencerGit[r].op) : c \in Commands}}
    <3>1. PICK c \in Commands : \E run \in Stopped!Runs(sequencerGit[r], c, sequencerGit[r].op) : to = run.to
      BY <2>2
    <3> QED  BY <1>2, <3>1, RunsLeave
  <2> QED  BY <1>1, <2>1, <2>2
<1>4. PICK run : Leaves(sequencerGit[r], run) /\ run.to = to
  BY <1>3
<1>5. /\ Stopped!Notice(r) /\ Stopped!NoteTurn(r)
      /\ sequencerAnswer' = [sequencerAnswer EXCEPT ![r] = NONE]
      /\ UNCHANGED <<sequencerServing, sequencerActive, sequencerRefreshes, sequencerKey,
                     sequencerUnread, sequencerCrossed>>
  BY DEF Stopped!Outside
<1>6. /\ sequencerAnswer' = [q \in Repos |-> sequencerAnswer'[q]] /\ AnswerKept(r)'
      /\ \A q \in Repos : q # r => sequencerAnswer'[q] = sequencerAnswer[q]
      /\ sequencerServing' \in [Repos -> ServingType \cup {NONE}]
  BY <1>5 DEF SeqInv, SeqType, AnswerKept
<1>7. StoppedIn(to) /\ (Told(to) \/ sequencerOutOfTurn')
  BY <1>1, <1>4, <1>5, TurnNoted DEF Leaves
<1>8. sequencerOutOfTurn' \in BOOLEAN /\ (sequencerOutOfTurn => sequencerOutOfTurn')
  BY <1>5 DEF Stopped!NoteTurn, SeqInv, SeqType
<1> QED  BY <1>1, <1>5, <1>6, <1>7, <1>8, GitMoves

(* An answer is of what the handler leaves. *)
LEMMA AnswersKeeps == ASSUME SeqInv, NEW r \in Repos, Stopped!Answers(r) PROVE SeqInv'
<1>1. /\ UNCHANGED <<sequencerGit, sequencerActive, sequencerTimer, sequencerRefreshes,
                     sequencerKey, sequencerUnread, sequencerCrossed, sequencerOutOfTurn>>
      /\ sequencerServing' = [sequencerServing EXCEPT ![r] = NONE] /\ sequencerServing[r] # NONE
  BY DEF Stopped!Answers, Stopped!keyVars
<1>2. PICK a : /\ sequencerAnswer' = [sequencerAnswer EXCEPT ![r] = a]
               /\ a.looked => (a.conflicts <=> sequencerGit[r].clash)
               /\ a.operation # "none" => Stopped!Reading(sequencerGit[r]) = a.operation
               /\ a.completed => /\ sequencerServing[r].command.name \notin {"commit", "reset"} => ~ sequencerGit[r].clash
                                 /\ sequencerServing[r].command \in Stopped!Resuming
                                 /\ sequencerServing[r].command.name \notin {"commit", "reset"} =>
                                      Stopped!Reading(sequencerGit[r]) = "none"
  <2> DEFINE looks == sequencerServing[r].command.name \notin {"commit", "reset"}
             conflicts == looks /\ Stopped!Reloaded(sequencerGit[r].clash, sequencerServing[r].loaded)
             operation == IF looks THEN Stopped!Reading(sequencerGit[r]) ELSE "none"
             a == [looked |-> looks, failed |-> ~conflicts /\ ~sequencerServing[r].ok, operation |-> operation,
                   conflicts |-> conflicts,
                   completed |-> sequencerServing[r].command \in Stopped!Resuming /\ ~conflicts /\ sequencerServing[r].ok
                                 /\ operation = "none"]
  <2>1. sequencerAnswer' = [sequencerAnswer EXCEPT ![r] = a]
    BY DEF Stopped!Answers
  <2>2. a.looked => (a.conflicts <=> sequencerGit[r].clash)
    BY DEF Stopped!Reloaded
  <2>3. a.operation # "none" => Stopped!Reading(sequencerGit[r]) = a.operation
    OBVIOUS
  <2>4. a.completed => /\ looks => ~ sequencerGit[r].clash
                       /\ sequencerServing[r].command \in Stopped!Resuming
                       /\ looks => Stopped!Reading(sequencerGit[r]) = "none"
    BY DEF Stopped!Reloaded
  <2> HIDE DEF a
  <2> QED  BY <2>1, <2>2, <2>3, <2>4
<1>3. ASSUME a.completed, ~ sequencerOutOfTurn PROVE sequencerGit[r] = Stopped!Clean
  <2>1. sequencerServing[r].command.name \notin {"commit", "reset"}
    BY <1>2, <1>3 DEF Stopped!Resuming
  <2>2. ~ sequencerGit[r].clash /\ Stopped!Reading(sequencerGit[r]) = "none"
    BY <1>2, <1>3, <2>1
  <2>3. StoppedIn(sequencerGit[r]) /\ Told(sequencerGit[r])
    BY <1>3 DEF SeqInv, GitKept
  <2>4. sequencerGit[r].op = "none"
    BY <2>2, <2>3 DEF StoppedIn, Told, Stopped!Reading, GitType, Ops, Stopped!MarkersOf, Markers
  <2>5. /\ sequencerGit[r] \in GitType /\ sequencerGit[r].marker = "none"
        /\ sequencerGit[r].left = 0 /\ sequencerGit[r].clash = FALSE
    BY <2>2, <2>3, <2>4 DEF StoppedIn, GitType
  <2> QED  BY <2>4, <2>5 DEF Stopped!Clean, GitType
<1>4. SeqType'
  BY <1>1, <1>2 DEF SeqInv, SeqType
<1>5. GitKept' /\ KeyKept'
  BY <1>1 DEF SeqInv, GitKept, KeyKept
<1>6. AnswersKept'
  <2>1. /\ sequencerAnswer'[r] = a /\ sequencerServing'[r] = NONE
        /\ \A q \in Repos : q # r => sequencerAnswer'[q] = sequencerAnswer[q] /\ sequencerServing'[q] = sequencerServing[q]
    BY <1>1, <1>2 DEF SeqInv, SeqType
  <2>2. ASSUME NEW q \in Repos, q # r PROVE AnswerKept(q)'
    BY <1>1, <2>1, <2>2 DEF SeqInv, AnswersKept, AnswerKept, TrueOf
  <2>3. TrueOf(a, sequencerGit[r])
    BY <1>2, <1>3 DEF TrueOf
  <2>4. AnswerKept(r)'
    BY <1>1, <2>1, <2>3 DEF AnswerKept, TrueOf
  <2> QED  BY <2>2, <2>4 DEF AnswersKept
<1> QED  BY <1>4, <1>5, <1>6 DEF SeqInv

(* Killed, git has done nothing, all, or some of its commits. *)
LEMMA CutStops ==
  ASSUME NEW op \in Ops, NEW n \in Nat, NEW run \in Stopped!Cut(op, n) PROVE StoppedIn(run.to)
<1>1. PICK k \in 1 .. n : run = [to |-> [op |-> op, marker |-> "none", left |-> k, clash |-> FALSE], ok |-> FALSE]
  BY DEF Stopped!Cut
<1> DEFINE to == [op |-> op, marker |-> "none", left |-> k, clash |-> FALSE]
<1>2. run.to = to
  BY <1>1
<1>3. to \in GitType /\ to.op = op /\ to.marker = "none" /\ op # "none"
  BY DEF GitType, Markers, Ops
<1> HIDE DEF to
<1> QED  BY <1>2, <1>3 DEF StoppedIn

LEMMA DiesStops ==
  ASSUME Stopped!SequencerAssumption, NEW g, StoppedIn(g), NEW c \in Commands, NEW op,
         NEW run \in Stopped!Dies(g, c, op)
  PROVE  StoppedIn(run.to)
<1>1. CASE run \in Stopped!Refused(g)
  BY <1>1 DEF Stopped!Refused
<1>2. CASE run \in Stopped!Runs(g, c, op)
  BY <1>2, RunsLeave DEF Leaves
<1>3. CASE c \in Stopped!Starting /\ run \in Stopped!Cut(c.name, c.n)
  <2>1. c.name \in Ops /\ c.n \in Nat
    BY <1>3 DEF Stopped!Starting, Ops, Stopped!SequencerAssumption
  <2> QED  BY <1>3, <2>1, CutStops
<1>4. CASE g.op = op /\ op # "none" /\ run \in Stopped!Cut(op, g.left)
  <2>1. op \in Ops /\ g.left \in Nat
    BY <1>4 DEF StoppedIn, GitType
  <2> QED  BY <1>4, <2>1, CutStops
<1> QED  BY <1>1, <1>2, <1>3, <1>4 DEF Stopped!Dies

LEMMA GitDiesKeeps ==
  ASSUME Stopped!SequencerAssumption, SeqInv, NEW r \in Repos, Stopped!GitDies(r) PROVE SeqInv'
<1>1. sequencerServing[r] \in ServingType /\ StoppedIn(sequencerGit[r])
  BY DEF Stopped!GitDies, SeqInv, SeqType, GitKept
<1>2. PICK run \in Stopped!Dies(sequencerGit[r], sequencerServing[r].command, sequencerServing[r].op) :
         sequencerGit' = [sequencerGit EXCEPT ![r] = run.to]
  BY DEF Stopped!GitDies
<1>3. sequencerServing[r].command \in Commands
  BY <1>1 DEF ServingType
<1>4. StoppedIn(run.to)
  BY <1>1, <1>2, <1>3, DiesStops
<1>5. sequencerGit'[r] = run.to
  BY <1>2 DEF SeqInv, SeqType
<1>6. sequencerOutOfTurn' = (sequencerOutOfTurn \/ Stopped!Reading(sequencerGit'[r]) # sequencerGit'[r].op)
  BY DEF Stopped!GitDies
<1>7. Told(run.to) \/ sequencerOutOfTurn'
  <2>1. ASSUME ~ Told(run.to) PROVE Stopped!Reading(run.to) # run.to.op
    <3>1. run.to.op \notin {"none", "rebase"} /\ run.to.marker = "none"
      BY <2>1 DEF Told
    <3>2. Stopped!Reading(run.to) = "none"
      BY <3>1 DEF Stopped!Reading
    <3> QED  BY <3>1, <3>2
  <2> QED  BY <1>5, <1>6, <2>1
<1>8. sequencerOutOfTurn' \in BOOLEAN /\ (sequencerOutOfTurn => sequencerOutOfTurn')
  BY <1>6 DEF SeqInv, SeqType
<1> DEFINE dead == [looked |-> FALSE, failed |-> TRUE, operation |-> "none", completed |-> FALSE, conflicts |-> FALSE]
<1>9. /\ sequencerAnswer' = [sequencerAnswer EXCEPT ![r] = dead]
      /\ sequencerServing' = [sequencerServing EXCEPT ![r] = NONE] /\ Stopped!Notice(r)
      /\ UNCHANGED <<sequencerActive, sequencerRefreshes, sequencerKey, sequencerUnread, sequencerCrossed>>
  BY DEF Stopped!GitDies
<1>10. ~ dead.looked /\ dead.operation = "none" /\ ~ dead.completed
  OBVIOUS
<1> HIDE DEF dead
<1>11. /\ sequencerServing' \in [Repos -> ServingType \cup {NONE}] /\ sequencerServing'[r] = NONE
       /\ sequencerAnswer' = [q \in Repos |-> sequencerAnswer'[q]] /\ sequencerAnswer'[r] = dead
       /\ \A q \in Repos : q # r => sequencerAnswer'[q] = sequencerAnswer[q] /\ sequencerServing'[q] = sequencerServing[q]
  BY <1>9 DEF SeqInv, SeqType
<1>12. AnswerKept(r)'
  BY <1>10, <1>11 DEF AnswerKept, TrueOf
<1> QED  BY <1>2, <1>4, <1>7, <1>8, <1>9, <1>11, <1>12, GitMoves

(* The context key: nothing of the engine changes. *)
LEMMA KeySteps ==
  ASSUME SeqInv, UNCHANGED <<sequencerGit, sequencerServing, sequencerAnswer, sequencerOutOfTurn>>,
         sequencerActive' \in Repos,
         {sequencerTimer', sequencerKey', sequencerUnread', sequencerCrossed'} \subseteq BOOLEAN, KeyKept'
  PROVE  SeqInv'
BY DEF SeqInv, SeqType, GitKept, AnswersKept, AnswerKept, TrueOf

LEMMA StepSeq == ASSUME Stopped!SequencerAssumption, SeqInv, [Stopped!Next]_(Stopped!vars) PROVE SeqInv'
<1> USE DEF Commands
<1>0. Busy \subseteq Repos
  BY DEF Stopped!SequencerAssumption
<1>1. ASSUME NEW r \in Busy, NEW c \in Stopped!Starting \cup Stopped!Plain \cup Stopped!Resuming,
             Stopped!Serve(r, c) PROVE SeqInv'
  BY <1>0, <1>1, ServeKeeps
<1>2. ASSUME NEW r \in Busy, Stopped!GitRuns(r) PROVE SeqInv'
  BY <1>0, <1>2, GitRunsKeeps
<1>3. ASSUME NEW r \in Busy, Stopped!Answers(r) PROVE SeqInv'
  BY <1>0, <1>3, AnswersKeeps
<1>4. ASSUME NEW r \in Busy, Stopped!Outside(r) PROVE SeqInv'
  BY <1>0, <1>4, OutsideKeeps
<1>5. ASSUME NEW r \in Repos, Stopped!SwitchActive(r) PROVE SeqInv'
  <2>1. KeyKept'
    BY <1>5 DEF Stopped!SwitchActive, KeyKept
  <2> QED  BY <1>5, <2>1, KeySteps DEF Stopped!SwitchActive, SeqInv, SeqType
<1>6. CASE Stopped!Refresh
  <2>1. KeyKept'
    <3> DEFINE f == [repo |-> sequencerActive, shown |-> NONE]
    <3>1. /\ sequencerRefreshes' = sequencerRefreshes \cup {f} /\ sequencerActive' = sequencerActive
          /\ sequencerCrossed' = (sequencerCrossed \/ sequencerRefreshes # {})
      BY <1>6 DEF Stopped!Refresh
    <3>2. f.repo = sequencerActive /\ f.shown = NONE
      OBVIOUS
    <3> HIDE DEF f
    <3>3. ~ sequencerCrossed' => sequencerRefreshes' = {f}
      BY <3>1
    <3> QED  BY <3>1, <3>2, <3>3 DEF KeyKept
  <2>2. /\ {sequencerTimer', sequencerKey', sequencerUnread', sequencerCrossed'} \subseteq BOOLEAN
        /\ sequencerActive' \in Repos
    BY <1>6 DEF Stopped!Refresh, SeqInv, SeqType
  <2> QED  BY <1>6, <2>1, <2>2, KeySteps DEF Stopped!Refresh
<1>7. ASSUME NEW f \in sequencerRefreshes, Stopped!Read(f) PROVE SeqInv'
  <2>0. PICK shown \in {Stopped!Reading(sequencerGit[f.repo]), "unread"} :
          sequencerRefreshes' = (sequencerRefreshes \ {f}) \cup {[f EXCEPT !.shown = shown]}
    BY <1>7 DEF Stopped!Read
  <2> DEFINE g == [f EXCEPT !.shown = shown]
  <2>1. /\ sequencerRefreshes' = (sequencerRefreshes \ {f}) \cup {g}
        /\ UNCHANGED <<sequencerGit, sequencerActive, sequencerTimer, sequencerKey, sequencerUnread, sequencerCrossed>>
    BY <1>7, <2>0 DEF Stopped!Read
  <2>2. ASSUME ~ sequencerCrossed
        PROVE  /\ sequencerRefreshes' = {g} /\ g.repo = sequencerActive
               /\ g.shown \notin {NONE, "unread"} => g.shown = Stopped!Reading(sequencerGit[sequencerActive])
    BY <2>0, <2>1, <2>2 DEF SeqInv, KeyKept
  <2> HIDE DEF g
  <2>3. KeyKept'
    BY <2>1, <2>2 DEF KeyKept
  <2>4. /\ {sequencerTimer', sequencerKey', sequencerUnread', sequencerCrossed'} \subseteq BOOLEAN
        /\ sequencerActive' \in Repos
    BY <2>1 DEF SeqInv, SeqType
  <2> QED  BY <1>7, <2>3, <2>4, KeySteps DEF Stopped!Read
<1>8. ASSUME NEW f \in sequencerRefreshes, Stopped!SetKey(f) PROVE SeqInv'
  <2>1. /\ sequencerRefreshes' = sequencerRefreshes \ {f} /\ f.shown # NONE
        /\ sequencerKey' = (f.shown \notin {"none", "unread"}) /\ sequencerUnread' = (f.shown = "unread")
        /\ UNCHANGED <<sequencerGit, sequencerActive, sequencerTimer, sequencerCrossed>>
    BY <1>8 DEF Stopped!SetKey
  <2>2. KeyKept'
    BY <2>1 DEF SeqInv, KeyKept
  <2>3. /\ {sequencerTimer', sequencerKey', sequencerUnread', sequencerCrossed'} \subseteq BOOLEAN
        /\ sequencerActive' \in Repos
    BY <2>1 DEF SeqInv, SeqType
  <2> QED  BY <1>8, <2>2, <2>3, KeySteps DEF Stopped!SetKey
<1>9. CASE Stopped!vars' = Stopped!vars
  <2>1. UNCHANGED <<sequencerGit, sequencerServing, sequencerAnswer, sequencerOutOfTurn,
                    sequencerActive, sequencerTimer, sequencerRefreshes, sequencerKey, sequencerUnread,
                    sequencerCrossed>>
    BY <1>9 DEF Stopped!vars, Stopped!keyVars
  <2> QED  BY <2>1 DEF SeqInv, SeqType, GitKept, AnswersKept, AnswerKept, TrueOf, KeyKept
<1>10. ASSUME NEW r \in Busy, Stopped!GitDies(r) PROVE SeqInv'
  BY <1>0, <1>10, GitDiesKeeps
<1>11. CASE Stopped!Restarted
  <2>1. KeyKept'
    BY <1>11 DEF Stopped!Restarted, SeqInv, KeyKept
  <2> QED  BY <1>11, <2>1, KeySteps DEF Stopped!Restarted, SeqInv, SeqType
<1> QED  BY <1>1, <1>2, <1>3, <1>4, <1>5, <1>6, <1>7, <1>8, <1>9, <1>10, <1>11 DEF Stopped!Next

(* What the engine says git is in the middle of is right, or missed only after a commit
   or reset by hand, or a killed git, with picks to go; an answer that looked and is no
   error tells conflicts exactly, and it stays true until something else touches the
   repository; and at rest, unless its refresh could read nothing, refreshes overlapped or
   the active repository changed, the context key is in step: for any repositories,
   numbers of picks and commands, whatever is done outside. *)
THEOREM OperationsNamed ==
  ASSUME Stopped!SequencerAssumption
  PROVE  /\ Stopped!Spec => []Stopped!OperationsKept
         /\ (subject = "sequencer" => Stopped!Spec) /\ [][UNCHANGED subject]_subject => []OperationsKept
<1>1. ASSUME Stopped!Init PROVE SeqInv
  BY <1>1, InitSeq
<1>2. ASSUME SeqInv, [Stopped!Next]_(Stopped!vars) PROVE SeqInv'
  BY <1>2, StepSeq
<1>3. ASSUME SeqInv PROVE Stopped!OperationsKept
  <2>1. Stopped!NamedRightly
    <3>1. ASSUME NEW g, StoppedIn(g)
          PROVE  Stopped!Reading(g) = g.op \/ (~ Told(g) /\ Stopped!Reading(g) = "none")
      BY <3>1 DEF StoppedIn, Told, Stopped!Reading, GitType, Ops, Stopped!MarkersOf, Markers
    <3> QED  BY <1>3, <3>1 DEF Stopped!NamedRightly, SeqInv, GitKept
  <2>2. Stopped!AnswersTrue
    BY <1>3 DEF Stopped!AnswersTrue, SeqInv, AnswersKept, AnswerKept, TrueOf
  <2>3. Stopped!KeyInStep
    BY <1>3 DEF Stopped!KeyInStep, SeqInv, KeyKept
  <2> QED  BY <2>1, <2>2, <2>3 DEF Stopped!OperationsKept
<1>4. Stopped!Spec => []Stopped!OperationsKept
  BY <1>1, <1>2, <1>3, PTL DEF Stopped!Spec
<1>5. (subject = "sequencer" => Stopped!Spec) /\ [][UNCHANGED subject]_subject => []OperationsKept
  <2>1. /\ ~ (subject = "sequencer") /\ [UNCHANGED subject]_subject => ~ (subject = "sequencer")'
        /\ ~ (subject = "sequencer") => OperationsKept
        /\ Stopped!OperationsKept => OperationsKept
    BY DEF OperationsKept
  <2> QED  BY <1>4, <2>1, PTL
<1> QED  BY <1>4, <1>5
=============================================================================
