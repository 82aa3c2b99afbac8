------------------------------ MODULE Stashes -------------------------------
(* Stashes, named by where they stand: the Stashes view, the graph and the  *)
(* Git Commands palette find the entry they mean and ask the engine to      *)
(* apply, pop or drop that position, while other surfaces and other         *)
(* programs stash and drop.                                                 *)
EXTENDS Integers, SequencesExt

CONSTANTS
  Surfaces,     \* the view and the graph, which show entries, and the palette
  Palette,      \* which of them list the entries before one is picked
  Stashed,      \* the entries there are to begin with, most recent first
  MaxEntries,   \* bounds on the entries ever made and on what the surfaces do
  MaxActions,
  NONE

StashesAssumption ==
  /\ Palette \subseteq Surfaces /\ Stashed \in Seq(1 .. Len(Stashed)) /\ IsInjective(Stashed)
  /\ {MaxEntries, MaxActions} \subseteq Nat /\ NONE \notin 1 .. MaxEntries

VARIABLES
  stashes,      \* refs/stash and its reflog, most recent first
  made,         \* how many entries there have been
  shown,        \* the entries each surface shows
  flow,         \* the action under way on each
  actions,
  gone          \* the entries dropped: which, for the sake of which, and whether the
                \* list had changed since that one was found

vars == <<stashes, made, shown, flow, actions, gone>>

Kinds == {"apply", "pop", "drop"}
Idle == [at |-> "idle", kind |-> NONE, entry |-> NONE, index |-> 0, moved |-> FALSE]

Init ==
  /\ stashes = Stashed /\ made = Len(Stashed)
  /\ shown = [s \in Surfaces |-> Stashed]
  /\ flow = [s \in Surfaces |-> Idle]
  /\ actions = 0 /\ gone = {}

\* The list is another one for every action that has found its entry.
Moved == [s \in Surfaces |-> [flow[s] EXCEPT !.moved = @ \/ flow[s].at \in {"confirm", "asked"}]]

-----------------------------------------------------------------------------
(* The extension *)

\* The view renders anew, on repo/didChange and after its own actions.
Render(s) ==
  /\ shown[s] # stashes /\ shown' = [shown EXCEPT ![s] = stashes]
  /\ UNCHANGED <<stashes, made, flow, actions, gone>>

\* The node's own position.
MutFound(s, list, entry) == SelectInSeq(shown[s], LAMBDA e : e = entry)
\* currentStashIndex, stashAction: where the entry is now (0: nowhere).
Found(s, list, entry) == SelectInSeq(list, LAMBDA e : e = entry)

\* An entry is chosen: in the view and the graph of those shown, then found again; in
\* the palette of those there are.  Drops are confirmed.
Choose(s, kind, entry) ==
  /\ flow[s] = Idle /\ actions < MaxActions
  /\ entry \in ToSet(IF s \in Palette THEN stashes ELSE shown[s])
  /\ LET index == Found(s, stashes, entry) IN
     /\ flow' = [flow EXCEPT ![s] =
          IF index = 0 THEN Idle
          ELSE [at |-> IF kind = "drop" \/ s \in Palette THEN "confirm" ELSE "asked", kind |-> kind,
                entry |-> entry, index |-> index, moved |-> FALSE]]
     /\ actions' = actions + 1
  /\ UNCHANGED <<stashes, made, shown, gone>>

\* The user proceeds, or not.
Confirm(s) ==
  /\ flow[s].at = "confirm"
  /\ flow' \in {[flow EXCEPT ![s].at = "asked"], [flow EXCEPT ![s] = Idle]}
  /\ UNCHANGED <<stashes, made, shown, actions, gone>>

-----------------------------------------------------------------------------
(* The engine's stash/apply and stash/drop: git acts on stash@{index}.  A pop that   *)
(* conflicts or fails keeps the entry.                                              *)
Acts(s) ==
  /\ flow[s].at = "asked"
  /\ LET f == flow[s]
         there == f.index \in DOMAIN stashes
     IN \E clean \in BOOLEAN :
        IF there /\ (f.kind = "drop" \/ (f.kind = "pop" /\ clean))
        THEN /\ stashes' = RemoveAt(stashes, f.index)
             /\ gone' = gone \cup {[entry |-> stashes[f.index], meant |-> f.entry, moved |-> f.moved]}
             /\ flow' = [Moved EXCEPT ![s] = Idle]
        ELSE flow' = [flow EXCEPT ![s] = Idle] /\ UNCHANGED <<stashes, gone>>
  /\ UNCHANGED <<made, shown, actions>>

\* A stash is pushed, by stash/push or by another program; another program drops one.
Push ==
  /\ made < MaxEntries /\ made' = made + 1
  /\ stashes' = <<made + 1>> \o stashes /\ flow' = Moved
  /\ UNCHANGED <<shown, actions, gone>>

DroppedElsewhere(i) ==
  /\ actions < MaxActions /\ actions' = actions + 1
  /\ stashes' = RemoveAt(stashes, i) /\ flow' = Moved
  /\ gone' = gone \cup {[entry |-> stashes[i], meant |-> stashes[i], moved |-> FALSE]}
  /\ UNCHANGED <<made, shown>>

Next ==
  \/ \E s \in Surfaces : \/ Render(s) \/ Confirm(s) \/ Acts(s)
                         \/ \E kind \in Kinds, entry \in 1 .. made : Choose(s, kind, entry)
  \/ Push \/ \E i \in DOMAIN stashes : DroppedElsewhere(i)

Spec == Init /\ [][Next]_vars

-----------------------------------------------------------------------------
\* However stale what a surface shows, unless the list changes between the look for an
\* entry and git's run, what goes is the entry that was meant; and an entry is either
\* in the list or gone, once (refCommands.ts, graphActions.ts, gitPalette.ts).
GoneAsMeant ==
  /\ \A g \in gone : g.moved \/ g.entry = g.meant
  /\ \A e \in 1 .. made :
       (e \in ToSet(stashes)) # (\E g \in gone : g.entry = e)
=============================================================================
