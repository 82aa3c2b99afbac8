------------------------------- MODULE Rebase -------------------------------
(***************************************************************************)
(* An interactive rebase: the plan the user edits (webviews-src/rebase/          *)
(* rebaseLogic.ts), the engine's rebase/preview, start, continue, skip and abort   *)
(* (engine/src/services/mutate/rebase_methods.cpp), and git, which runs the        *)
(* engine again as the editor of its todo and of its commit messages               *)
(* (engine/src/exec/sequence_editor.cpp), while other programs commit to the        *)
(* branch, or resume the rebase with an editor of their own.                     *)
(*                                                                          *)
(* A commit stands for its sha and its change, and a ref for the commit it         *)
(* pointed at.  A history is the sequence of its commits above the upstream.        *)
(***************************************************************************)
EXTENDS Integers, SequencesExt

CONSTANTS
  History,      \* the branch when the plan is first made
  Later,        \* a commit that is made afterwards
  Marked,       \* the commits some other branch points at
  Orders,       \* the orders the user puts the history in
  MaxOutside,   \* bound on what happens outside before the rebase starts
  NONE

RebaseAssumption ==
  /\ History \in Seq(ToSet(History)) /\ IsInjective(History) /\ Len(History) > 0
  /\ Later \notin ToSet(History) /\ Marked \subseteq ToSet(History)
  /\ \A o \in Orders : IsInjective(o) /\ ToSet(o) = DOMAIN History
  /\ MaxOutside \in Nat

Actions == {"pick", "reword", "edit", "squash", "fixup", "drop"}
Folding == {"squash", "fixup"}

VARIABLES
  branch, upstream,     \* the branch's commits, and those whose change upstream has
  outside,
  plan, expected,       \* the plan, and what rebase/preview read it from
  phase,                \* "none", "planned", "checked", "refused", "rebasing", "done", "aborted"
  todo, current,        \* git's todo, and the last line of rebase-merge/done
  stopped,              \* "no", "conflict" or "edit"
  editor,               \* whose editor the running git asks: the "plan"'s or "git"'s
  made,                 \* the commits made so far
  recorded,             \* update-refs: where each ref is to point
  skipped, others       \* commits the user skipped, and whether others resumed it

outsideVars == <<branch, upstream, outside>>
planVars == <<plan, expected>>
gitVars == <<todo, current, stopped, editor, made, recorded, skipped, others>>
vars == <<outsideVars, planVars, phase, gitVars>>

Init ==
  /\ branch = History /\ upstream = {} /\ outside = 0
  /\ plan = <<>> /\ expected = NONE /\ phase = "none"
  /\ todo = <<>> /\ current = NONE /\ stopped = "no" /\ editor = "plan"
  /\ made = <<>> /\ recorded = [r \in Marked |-> NONE]
  /\ skipped = {} /\ others = FALSE

-----------------------------------------------------------------------------
(* What git puts in its todo, and rebase/preview lists. *)
Replayed == SelectSeq(branch, LAMBDA c : c \notin upstream)

(* validate(): the folds of one chain take one message, a reword takes one, and
   something is kept, which nothing may precede in its chain. *)
Kept(p) == SelectSeq(p, LAMBDA e : e.action # "drop")

Chained(p, i, j) == \A k \in (i + 1) .. j : p[k].action \in Folding

Valid(p) ==
  LET kept == Kept(p) IN
  /\ kept # <<>> /\ kept[1].action \notin Folding
  /\ \A i, j \in DOMAIN kept :
       i < j /\ Chained(kept, i, j) /\ kept[i].action = "squash" /\ kept[j].action = "squash"
         => ~(kept[i].worded /\ kept[j].worded)

(* toRebaseEntries: only a reword, which has to, and a squash bring a message. *)
Entries(c) ==
  {[sha |-> c, action |-> a, worded |-> a = "reword"] : a \in Actions}
    \cup {[sha |-> c, action |-> "squash", worded |-> TRUE]}

Pick(c) == [sha |-> c, action |-> "pick", worded |-> FALSE]

(* The plans a user can make: an order, and an action for each commit. *)
Plans(listed) ==
  {p \in UNION {{[i \in DOMAIN o |-> f[o[i]]] : o \in Orders} :
               f \in {h \in [DOMAIN listed -> UNION {Entries(c) : c \in ToSet(listed)}] :
                       \A i \in DOMAIN h : h[i].sha = listed[i]}} : Valid(p)}

(* mergePlan: commits still there keep their place, new ones are picked last. *)
Merged ==
  LET still == SelectSeq(plan, LAMBDA e : e.sha \in ToSet(Replayed))
      new == SelectSeq(Replayed, LAMBDA c : \A i \in DOMAIN still : still[i].sha # c)
  IN still \o [i \in DOMAIN new |-> Pick(new[i])]

Read == expected' = [head |-> branch, onto |-> upstream]

Preview ==
  /\ phase = "none" /\ phase' = "planned" /\ Read
  /\ plan' \in Plans(Replayed)
  /\ UNCHANGED <<outsideVars, gitVars>>

Reload ==
  /\ phase = "refused" /\ phase' = "planned" /\ Read
  /\ plan' = Merged /\ Valid(Merged)
  /\ UNCHANGED <<outsideVars, gitVars>>

-----------------------------------------------------------------------------
(* Others commit to the branch, take its last commit off, or put the change of one
   of its commits on the upstream. *)
Outside(b, u) ==
  /\ phase \in {"planned", "checked", "refused"}
  /\ outside < MaxOutside /\ outside' = outside + 1
  /\ branch' = b /\ upstream' = u
  /\ UNCHANGED <<planVars, phase, gitVars>>

Commit == Later \notin ToSet(branch) /\ Outside(Append(branch, Later), upstream)
Uncommit == Len(branch) > 1 /\ Outside(Front(branch), upstream)
Land == \E c \in ToSet(branch) \ upstream : Outside(branch, upstream \cup {c})

-----------------------------------------------------------------------------
(* rebase/start up to starting git: the branch and the upstream must be where the
   plan was made. *)
StartChecks ==
  /\ phase = "planned"
  /\ phase' = IF branch = expected.head /\ upstream = expected.onto
                THEN "checked" ELSE "refused"
  /\ UNCHANGED <<outsideVars, planVars, gitVars>>

(* runSequenceEditor: the todo must list what the plan lists. *)
AllPlanned(commits) == \A c \in ToSet(commits) : \E i \in DOMAIN plan : plan[i].sha = c

Matches(commits) ==
  /\ \A i \in DOMAIN plan : plan[i].sha \in ToSet(commits)
  /\ IsInjective([i \in DOMAIN plan |-> plan[i].sha])
  /\ AllPlanned(commits)

Line(do, on) == [do |-> do, on |-> on]
UpdateRefs(refs) == [i \in DOMAIN refs |-> Line("update-ref", refs[i])]
RefsOf(c) == IF c \in Marked THEN <<c>> ELSE <<>>

(* One entry of the plan: a ref waits out the chain its commit is folded into,
   and stays with the commit before one that is dropped. *)
Rewrite(acc, e) ==
  LET flushed == IF e.action \in Folding THEN <<>> ELSE UpdateRefs(acc.refs)
      waiting == IF e.action \in Folding THEN acc.refs ELSE <<>>
  IN IF e.action = "drop"
       THEN [acc EXCEPT !.drops = Append(@, Line("drop", e.sha)), !.refs = @ \o RefsOf(e.sha)]
       ELSE [acc EXCEPT !.lines = Append(@ \o flushed, Line(e.action, e.sha)),
                        !.refs = waiting \o RefsOf(e.sha)]

Rewritten ==
  LET end == FoldLeft(Rewrite, [lines |-> <<>>, drops |-> <<>>, refs |-> <<>>], plan)
  IN end.lines \o UpdateRefs(end.refs) \o end.drops

GitStarts ==
  /\ phase = "checked"
  /\ IF Matches(Replayed)
       THEN phase' = "rebasing" /\ todo' = Rewritten
       ELSE phase' = "refused" /\ UNCHANGED todo
  /\ UNCHANGED <<outsideVars, planVars, current, stopped, editor, made, recorded, skipped, others>>

-----------------------------------------------------------------------------
(* runMessageEditor, for the commit of the last line git has started: the plan's
   message for it, or the one git has prepared. *)
Own(c) == <<"own", c>>
Planned(c) == <<"plan", c>>
Combined == <<"combined">>

MutWalked(i) == {i}

Walked(i) == {j \in 1 .. i : \A k \in j .. i : plan[k].action \in Folding \cup {"drop"}}

Edited(c, prepared) ==
  LET i == CHOOSE k \in DOMAIN plan : plan[k].sha = c
      worded == {j \in Walked(i) : plan[j].action = "squash" /\ plan[j].worded}
  IN IF plan[i].action = "reword" /\ plan[i].worded THEN Planned(c)
     ELSE IF plan[i].action \in Folding /\ worded # {}
       THEN Planned(plan[CHOOSE j \in worded : \A k \in worded : k <= j].sha)
     ELSE prepared

Asked(c, prepared) == IF editor' = "plan" THEN Edited(c, prepared) ELSE prepared

(* What a fold is folded into when the commit it was for has been skipped. *)
UpstreamTip == [commits |-> <<>>, message |-> Combined, squash |-> FALSE]

(* git makes the commit of a line: it asks for a message at a reword, once at the
   end of a chain with a squash, and always when a conflict has been resolved. *)
Made(line, resolved, rest) ==
  LET c == line.on
      into == IF made = <<>> THEN UpstreamTip ELSE Last(made)
      squash == line.do = "squash" \/ (line.do \in Folding /\ into.squash)
      prepared == IF line.do \notin Folding THEN Own(c)
                  ELSE IF squash THEN Combined ELSE into.message
      ends == rest = <<>> \/ Head(rest).do \notin Folding
      asks == resolved \/ line.do = "reword" \/ (squash /\ ends)
      message == IF asks THEN Asked(c, prepared) ELSE prepared
  IN IF line.do \in Folding
       THEN Append(Front(made), [commits |-> Append(into.commits, c), message |-> message,
                                 squash |-> squash])
       ELSE Append(made, [commits |-> <<c>>, message |-> message, squash |-> FALSE])

Tip == IF made = <<>> THEN <<>> ELSE Last(made).commits

Running == phase = "rebasing" /\ stopped = "no"

(* The next line of the todo; a commit of it may conflict, and an edit stops. *)
Applies ==
  /\ Running /\ todo # <<>> /\ Head(todo).do \in Actions \ {"drop"}
  /\ todo' = Tail(todo) /\ current' = Head(todo) /\ UNCHANGED editor
  /\ \/ /\ made' = Made(Head(todo), FALSE, Tail(todo))
        /\ stopped' = IF Head(todo).do = "edit" THEN "edit" ELSE "no"
     \/ stopped' = "conflict" /\ UNCHANGED made
  /\ UNCHANGED <<outsideVars, planVars, phase, recorded, skipped, others>>

Notes ==
  /\ Running /\ todo # <<>> /\ Head(todo).do \in {"drop", "update-ref"}
  /\ todo' = Tail(todo) /\ current' = Head(todo)
  /\ recorded' = IF Head(todo).do = "drop" THEN recorded
                 ELSE [recorded EXCEPT ![Head(todo).on] = [at |-> Len(made), tip |-> Tip]]
  /\ UNCHANGED <<outsideVars, planVars, phase, stopped, editor, made, skipped, others>>

Finishes ==
  /\ Running /\ todo = <<>> /\ phase' = "done"
  /\ UNCHANGED <<outsideVars, planVars, gitVars>>

-----------------------------------------------------------------------------
(* resumeRebase keeps the plan's editor; mutate/sequencer and other programs bring
   another one. *)
ResumedBy(who) ==
  /\ phase = "rebasing" /\ stopped # "no" /\ stopped' = "no"
  /\ editor' = IF who = "rebase" THEN "plan" ELSE "git"
  /\ others' = (others \/ who # "rebase")
  /\ UNCHANGED <<outsideVars, planVars, phase, todo, current, recorded>>

Continue(who) ==
  /\ ResumedBy(who)
  /\ made' = IF stopped = "conflict" THEN Made(current, TRUE, todo) ELSE made
  /\ UNCHANGED skipped

Skip(who) ==
  /\ ResumedBy(who)
  /\ skipped' = IF stopped = "conflict" THEN skipped \cup {current.on} ELSE skipped
  /\ UNCHANGED made

Abort ==
  /\ phase = "rebasing" /\ stopped # "no" /\ phase' = "aborted"
  /\ UNCHANGED <<outsideVars, planVars, gitVars>>

Next ==
  \/ Preview \/ Reload \/ StartChecks \/ GitStarts
  \/ Commit \/ Uncommit \/ Land
  \/ Applies \/ Notes \/ Finishes \/ Abort
  \/ \E who \in {"rebase", "other"} : Continue(who) \/ Skip(who)

Spec == Init /\ [][Next]_vars

-----------------------------------------------------------------------------
Result == FlattenSeq([i \in DOMAIN made |-> made[i].commits])
Chosen(action) == {plan[i].sha : i \in {j \in DOMAIN plan : plan[j].action = action}}
Orderly == phase = "done" /\ skipped = {} /\ ~others

(* Every commit the branch had when git began is in the result, once, unless the
   user dropped or skipped it or the upstream has it: also one that was committed
   between the engine's check of the branch and git's start (rebase/start,
   runSequenceEditor). *)
NothingLost ==
  phase = "done" =>
    /\ ToSet(Result) = (ToSet(branch) \ upstream) \ (Chosen("drop") \cup skipped)
    /\ IsInjective(Result)

(* Where the plan folds an entry: the kept entries up to the next one that is not
   folded, whatever is dropped in between. *)
Groups ==
  LET kept == Kept(plan)
      base(i) == CHOOSE b \in 1 .. i : kept[b].action \notin Folding /\ Chained(kept, b, i)
      bases == SelectSeq([i \in DOMAIN kept |-> i], LAMBDA i : base(i) = i)
  IN [g \in DOMAIN bases |-> SelectSeq(kept, LAMBDA e : \E i \in DOMAIN kept : kept[i] = e /\ base(i) = bases[g])]

Says(group) ==
  LET worded == {i \in DOMAIN group : group[i].action = "squash" /\ group[i].worded}
  IN IF worded # {} THEN Planned(group[CHOOSE i \in worded : TRUE].sha)
     ELSE IF \E i \in DOMAIN group : group[i].action = "squash" THEN Combined
     ELSE IF group[1].action = "reword" THEN Planned(group[1].sha) ELSE Own(group[1].sha)

(* A rebase that ran to its end under this engine, whatever conflicts and edits
   stopped it, has made the commits of the plan, in its order, folded as it says,
   and each has the message the plan gives it (runSequenceEditor and
   runMessageEditor, across rebase/continue). *)
PlanCarriedOut ==
  Orderly => /\ Len(made) = Len(Groups)
             /\ \A g \in DOMAIN made :
                  /\ made[g].commits = [i \in DOMAIN Groups[g] |-> Groups[g][i].sha]
                  /\ made[g].message = Says(Groups[g])

(* Every ref ends on the finished commit its own was folded into, or, if its own
   was dropped, on that of the one kept before it (runSequenceEditor). *)
RefsFollow ==
  Orderly => \A r \in Marked \cap ToSet(Replayed) :
    LET i == CHOOSE k \in DOMAIN plan : plan[k].sha = r
        before == {k \in 1 .. i : plan[k].action # "drop"}
        home == plan[CHOOSE k \in before : \A l \in before : l <= k].sha
    IN recorded[r] =
         IF before = {} THEN [at |-> 0, tip |-> <<>>]
         ELSE CHOOSE x \in {[at |-> g, tip |-> made[g].commits] : g \in DOMAIN made} :
                \E k \in DOMAIN x.tip : x.tip[k] = home

(* The plan is carried out to the letter, refs included. *)
PlanKept == PlanCarriedOut /\ RefsFollow
=============================================================================
