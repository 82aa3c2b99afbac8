---------------------------- MODULE HunkStaging ----------------------------
(* Staging and unstaging single hunks: the command (extension.ts,           *)
(* stageSelectedHunks, with scm/hunkStaging.ts), diff/fileHunks,            *)
(* stage/hunks and stage/files (engine/src/services/status), and the two    *)
(* ways a patch gets into the index, libgit2's git_apply and `git apply     *)
(* --cached`, while the file is edited and other tools stage and commit.    *)
(*                                                                          *)
(* A file is stretches of lines nobody changes with a slot after each but   *)
(* the last; a version of it says what each slot holds. A line is a number. *)
(* The stretches are long enough for each changed slot to be a hunk of its  *)
(* own.                                                                     *)
EXTENDS Integers, SequencesExt

CONSTANTS
  Slots,        \* how many
  Stretch,      \* lines between two slots
  Around,       \* lines of context on either side of a hunk
  Contents,     \* what a slot may hold
  Files,        \* [head, work, alike, filtered]: see Init
  MaxChanges    \* bound on what happens besides the command

HunkStagingAssumption ==
  /\ {Slots, Stretch, Around} \subseteq Nat \ {0} /\ Stretch > 2 * Around
  /\ Contents \subseteq Seq(-9 .. -1) /\ MaxChanges \in Nat

VARIABLES
  file,         \* alike: its unchanged lines are all equal; filtered: it has a filter driver
  head, index, work,
  changes,
  listed,       \* the hunks the command was shown
  request,      \* stage/hunks on its way: the action, the ranges, what was asked for
  patch,        \* the patch made for it from a fresh diff, still to be applied
  outcome       \* what became of the last one

vars == <<file, head, index, work, changes, listed, request, patch, outcome>>

Nothing == [action |-> "none"]

Init ==
  /\ file \in Files
  /\ head = file.head /\ index = head /\ work = file.work /\ changes = 0
  /\ listed = Nothing /\ request = Nothing /\ patch = Nothing /\ outcome = "none"

-----------------------------------------------------------------------------
(* The lines of a version.  Unchanged ones differ, or are all alike. *)
Line(i, j) == IF file.alike THEN 0 ELSE 10 * i + j
Stretched(i) == [j \in 1 .. Stretch |-> Line(i, j)]
FileLines(v) == FlattenSeq([i \in 1 .. 2 * Slots + 1 |->
                             IF i % 2 = 1 THEN Stretched(i \div 2) ELSE v[i \div 2]])

\* Lines are found at a place.
Fits(image, pre, p) == p > 0 /\ p - 1 + Len(pre) <= Len(image) /\ SubSeq(image, p, p - 1 + Len(pre)) = pre

\* The lines ahead of slot i.
Ahead(v, i) == i * Stretch + FoldFunctionOnSet(+, 0, [j \in 1 .. Slots |-> Len(v[j])], 1 .. (i - 1))

\* A side of the hunk of slot i: where it starts, and its lines.
Start(v, i) == Ahead(v, i) - Around + 1
Side(v, i) == SubSeq(FileLines(v), Start(v, i), Ahead(v, i) + Len(v[i]) + Around)

\* filePatch and splitPatch: one block per slot that differs.
Changed(old, new) == {i \in 1 .. Slots : old[i] # new[i]}
Ranges(old, new, i) ==
  [oldStart |-> Start(old, i), oldLines |-> Len(Side(old, i)),
   newStart |-> Start(new, i), newLines |-> Len(Side(new, i))]

\* singleFileDiff: HEAD and the index to unstage, the index and the file to stage.
Old(action) == IF action = "stage" THEN index ELSE head
New(action) == IF action = "stage" THEN work ELSE index

-----------------------------------------------------------------------------
(* The file is edited and saved; another tool stages a hunk, or commits. *)
Change(i, w) ==
  /\ changes < MaxChanges /\ changes' = changes + 1
  /\ index' = i /\ work' = w
  /\ UNCHANGED <<file, listed, request, patch, outcome>>

Edit == \E s \in 1 .. Slots : \E c \in Contents \ {work[s]} :
          Change(index, [work EXCEPT ![s] = c]) /\ UNCHANGED head
OtherStages == \E s \in Changed(index, work) :
                 Change([index EXCEPT ![s] = work[s]], work) /\ UNCHANGED head
Commits == index # head /\ Change(index, work) /\ head' = index

\* stageSelectedHunks, up to the answer of diff/fileHunks, once the file is saved.
List(action) ==
  /\ listed = Nothing /\ request = Nothing
  /\ Changed(Old(action), New(action)) # {}
  /\ listed' = [action |-> action, old |-> Old(action), new |-> New(action),
                hunks |-> Changed(Old(action), New(action))]
  /\ UNCHANGED <<file, head, index, work, changes, request, patch, outcome>>

\* hunksIntersectingSelection: the hunks whose footprint meets the selected lines.
Footprint(v, i) == Start(v, i) .. (Start(v, i) + Len(Side(v, i)) - 1)
Covered(v, lines) == {i \in listed.hunks : Footprint(v, i) \cap lines # {}}

\* hunkMatchesDocument, of every hunk listed, and nothing unstaged to unstage by.
SelectionMeansHunks ==
  /\ ~file.filtered
  /\ \A i \in listed.hunks : Fits(FileLines(work), Side(listed.new, i), Start(listed.new, i))
  /\ listed.action = "unstage" => Changed(index, work) = {}

Ask(picked, meant) ==
  /\ picked # {}
  /\ request' = [action |-> listed.action, meant |-> meant,
                 hunks |-> {Ranges(listed.old, listed.new, i) : i \in picked}]
  /\ listed' = Nothing
  /\ UNCHANGED <<file, head, index, work, changes, patch, outcome>>

PickBySelection ==
  /\ listed # Nothing /\ SelectionMeansHunks
  /\ \E i, j \in 1 .. Slots : LET lines == Start(work, i) .. Start(work, j) IN
       i <= j /\ Ask(Covered(listed.new, lines), Covered(work, lines))

PickFromList ==
  /\ listed # Nothing /\ ~SelectionMeansHunks
  /\ \E picked \in SUBSET listed.hunks : Ask(picked, picked)

\* The pick is given up, or the selection covers no hunk.
GiveUp ==
  /\ listed # Nothing /\ listed' = Nothing
  /\ UNCHANGED <<file, head, index, work, changes, request, patch, outcome>>

-----------------------------------------------------------------------------
\* A plausible bug: the hunks left out still count for where the next ones start.
MutRenumbered(old, new, chosen, i) == Start(new, i)

(* buildSubsetPatch: the chosen hunks in order; to stage, each starts where it would
   if the others were not there. *)
Renumbered(old, new, chosen, i) ==
  LET gained(S) == FoldFunctionOnSet(+, 0, [j \in 1 .. Slots |-> Len(new[j]) - Len(old[j])], S) IN
  Start(new, i) - gained({j \in Changed(old, new) : j < i}) + gained({j \in chosen : j < i})

Subset(action, chosen) ==
  LET old == Old(action)
      new == New(action)
      hunk(i) == IF action = "stage"
                 THEN [at |-> Renumbered(old, new, chosen, i), pre |-> Side(old, i), post |-> Side(new, i)]
                 ELSE [at |-> Start(old, i), pre |-> Side(new, i), post |-> Side(old, i)]
  IN [k \in 1 .. Cardinality(chosen) |-> hunk(SetToSortSeq(chosen, <)[k])]

\* Applying: an image, in which a line git has patched is out of bounds (Patched).
Patched(l) == 1000 + l
Unpatched(l) == IF l >= 900 THEN l - 1000 ELSE l
Spliced(image, p, n, post) == SubSeq(image, 1, p - 1) \o post \o SubSeq(image, p + n, Len(image))
Failed == <<>>

\* git_apply finds a hunk at its line or not at all.
ApplyExactly(image, h) ==
  IF Fits(image, h.pre, h.at) THEN Spliced(image, h.at, Len(h.pre), h.post) ELSE Failed

\* git apply takes the nearest place that fits, after before ahead of it.  Reversed,
\* it looks near the hunk's old side.
ApplyNearest(image, h) ==
  LET places == {p \in 1 .. Len(image) : Fits(image, h.pre, p)}
      far(p) == IF p > h.at THEN 2 * (p - h.at) - 1 ELSE 2 * (h.at - p)
  IN IF places = {} THEN Failed
     ELSE LET p == CHOOSE q \in places : \A r \in places : far(q) <= far(r)
          IN Spliced(image, p, Len(h.pre), [k \in DOMAIN h.post |-> Patched(h.post[k])])

Applied(hunks, image, nearest) ==
  LET result == FoldLeft(LAMBDA lines, h : IF lines = Failed THEN Failed
                                           ELSE IF nearest THEN ApplyNearest(lines, h)
                                           ELSE ApplyExactly(lines, h),
                         image, hunks)
  IN [k \in DOMAIN result |-> Unpatched(result[k])]

-----------------------------------------------------------------------------
(* stage/hunks: the ranges are looked up in a diff taken now, and what they name is
   made a patch. *)
Found == {i \in Changed(Old(request.action), New(request.action)) :
            Ranges(Old(request.action), New(request.action), i) \in request.hunks}

Answered(what) == outcome' = what /\ request' = Nothing /\ patch' = Nothing
                  /\ UNCHANGED <<file, head, work, changes, listed>>

Refuse ==
  /\ request # Nothing /\ patch = Nothing /\ Cardinality(Found) < Cardinality(request.hunks)
  /\ Answered("refused") /\ UNCHANGED index

TakeDiff ==
  /\ request # Nothing /\ patch = Nothing /\ Cardinality(Found) = Cardinality(request.hunks)
  /\ patch' = [found |-> Found, hunks |-> Subset(request.action, Found),
               to |-> IF request.action = "stage" THEN work ELSE head, diffed |-> index,
               nearest |-> request.action = "unstage" \/ file.filtered]
  /\ UNCHANGED <<file, head, index, work, changes, listed, request, outcome>>

\* The patch is applied, by git to the index on disk, by git_apply to the one the
\* repository has loaded, which may still be that of the diff.  What it comes to: the
\* index with the hunks found as they were on their other side.
StageHunks ==
  /\ patch # Nothing
  /\ \E from \in {index} \cup (IF patch.nearest THEN {} ELSE {patch.diffed}) :
     LET result == Applied(patch.hunks, FileLines(from), patch.nearest)
         wanted == [i \in 1 .. Slots |-> IF i \in patch.found THEN patch.to[i] ELSE from[i]]
         versions == {v \in [1 .. Slots -> Contents] : FileLines(v) = result}
         moved == index # patch.diffed
     IN \/ result = Failed /\ UNCHANGED index
             /\ Answered(IF moved THEN "overtaken" ELSE IF request.action = "stage" THEN "rejected" ELSE "unplaced")
        \/ result = FileLines(wanted) /\ index' = wanted
             /\ Answered(IF patch.found # request.meant THEN "mistaken" ELSE IF from # index THEN "undone" ELSE "done")
        \/ result \notin {Failed, FileLines(wanted)}
             /\ Answered(IF moved THEN "late" ELSE IF request.action = "stage" THEN "misplaced" ELSE "astray")
             /\ index' = IF versions = {} THEN index ELSE CHOOSE v \in versions : TRUE

\* stage/files: git add -A, or the entries of HEAD (resetToHead).
WholeFile(action) ==
  /\ request = Nothing /\ listed = Nothing /\ outcome \notin {"none", "whole"}
  /\ index' = IF action = "stage" THEN work ELSE head
  /\ outcome' = "whole"
  /\ UNCHANGED <<file, head, work, changes, listed, request, patch>>

Next ==
  \/ Edit \/ OtherStages \/ Commits
  \/ \E action \in {"stage", "unstage"} : List(action) \/ WholeFile(action)
  \/ PickBySelection \/ PickFromList \/ GiveUp
  \/ Refuse \/ TakeDiff \/ StageHunks

Spec == Init /\ [][Next]_vars

-----------------------------------------------------------------------------
\* A patch the engine makes of a subset of hunks applies, and gives the hunks that were
\* pointed at, and no other, the lines the diff had on their other side: whatever else
\* the file holds, unless it repeats itself and the hunks are unstaged.  If another tool
\* moves the index between the diff and the patch, the patch may be refused, or written over
\* what the tool staged, and lands elsewhere only in a file that repeats itself
\* (buildSubsetPatch, stage/hunks).
SubsetExact ==
  /\ outcome \notin {"rejected", "mistaken", "misplaced"}
  /\ outcome \in {"astray", "late", "unplaced"} => file.alike

\* "for reverse application (`selected` hunks are removed from the index) the
\* recorded numbers are already absolute on the source side, so they are kept
\* verbatim" (stage_methods.cpp, buildSubsetPatch).
NeverAstray == outcome # "astray"
=============================================================================
