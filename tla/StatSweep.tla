------------------------------ MODULE StatSweep ------------------------------
(***************************************************************************)
(* The polling fallback (src/engine/src/watch/watch_manager.cpp, RepoWatch):   *)
(* a thread that stats the files of a gitdir and the directories under refs/   *)
(* again and again, on a file system whose timestamps may be coarse, while git  *)
(* writes.                                                                    *)
(*                                                                          *)
(* The model follows one file, either one that is stamped in every sweep       *)
(* (HEAD) or a loose ref, which is stamped when its directory is listed.  It is  *)
(* of the size the code hashes, and its size never differs.  Times count in     *)
(* some unit; the sweep's own steps take none, or many.  No content is written  *)
(* twice and a deleted file stays so: a file that goes back to what a sweep saw, *)
(* with the listener reading it in between, is not told apart by the code.       *)
(***************************************************************************)
EXTENDS Integers, FiniteSets

CONSTANTS
  Tick,         \* the file system's timestamps are multiples of this
  RacyWindow,   \* PollTiming::racyWindow
  MaxWrites,    \* bound on writes, which are the contents as well
  MaxTime       \* bound on time

StatSweepAssumption ==
  /\ Tick \in Nat \ {0} /\ {RacyWindow, MaxWrites, MaxTime} \subseteq Nat
  /\ Tick <= RacyWindow

Unhashed == -1
Gone == [mtime |-> -1, content |-> Unhashed]     \* a file, or a stamp, that is not there
Deleted == [mtime |-> -2, content |-> Unhashed]  \* a file that was there once
Rest == [since |-> 0, full |-> FALSE, dir |-> 0, racy |-> FALSE, stamp |-> Gone, report |-> FALSE]

VARIABLES
  kind,      \* which file: "HEAD" or "ref"
  now, writes,
  file,      \* its mtime and content
  dirTime,   \* mtime of its directory
  seen,      \* Root::files or RefDir::files: the stamp the last sweep took
  seenDir,   \* RefDir's mtime and racy
  step,      \* of the sweep: "rest", or what it does next
  sweep,     \* racySince, full, the directory's mtime and racy, the stamp, pending
  heard,     \* the file's content when the listener was last called for it
  touched,   \* it has changed since the last sweep began
  inPlace    \* and, since the last full one began, has been rewritten in place

fileVars == <<writes, file, dirTime, touched, inPlace>>
vars == <<kind, now, fileVars, seen, seenDir, step, sweep, heard>>

(* The first sweep has recorded the starting state. *)
Init ==
  /\ kind \in {"HEAD", "ref"} /\ now = 0 /\ writes = 0
  /\ file \in {Gone, [mtime |-> 0, content |-> 0]}
  /\ seen = file /\ heard = file.content
  /\ dirTime = 0 /\ seenDir = [mtime |-> 0, racy |-> TRUE]
  /\ step = "rest" /\ sweep = Rest
  /\ touched = FALSE /\ inPlace = FALSE

-----------------------------------------------------------------------------
Passes ==
  /\ now < MaxTime /\ now' = now + 1
  /\ UNCHANGED <<kind, fileVars, seen, seenDir, step, sweep, heard>>

(* git renames a lock file over a file, or removes it: either way the mtime of
   the directory moves.  Other tools rewrite a file in place. *)
Stamped == now - (now % Tick)
There == file \notin {Gone, Deleted}

Change(entry) ==
  /\ file # Deleted /\ file' = entry /\ touched' = TRUE
  /\ UNCHANGED <<kind, now, seen, seenDir, step, sweep, heard>>

Written ==
  /\ writes < MaxWrites /\ writes' = writes + 1
  /\ Change([mtime |-> Stamped, content |-> writes'])

Write == Written /\ dirTime' = Stamped /\ UNCHANGED inPlace
Delete == There /\ Change(Deleted) /\ dirTime' = Stamped /\ UNCHANGED <<writes, inPlace>>
Rewrite == There /\ Written /\ inPlace' = TRUE /\ UNCHANGED dirTime

-----------------------------------------------------------------------------
Sweeping(from, to) ==
  /\ step = from /\ step' = to
  /\ UNCHANGED <<kind, now, writes, file, dirTime>>

SweepBegin(full) ==
  /\ Sweeping("rest", IF kind = "ref" THEN "dir" ELSE "stat")
  /\ sweep' = [sweep EXCEPT !.since = now - RacyWindow, !.full = full]
  /\ touched' = FALSE /\ inPlace' = (inPlace /\ ~full)
  /\ UNCHANGED <<seen, seenDir, heard>>

(* sweepRefs: a directory is listed again when its mtime has moved, when it was
   last listed too soon after it had, and in a full sweep. *)
MutRelist == dirTime # seenDir.mtime \/ sweep.full

Relist == dirTime # seenDir.mtime \/ seenDir.racy \/ sweep.full

StatDir ==
  /\ Sweeping("dir", IF Relist THEN "stat" ELSE "emit")
  /\ sweep' = [sweep EXCEPT !.dir = dirTime, !.racy = dirTime >= sweep.since]
  /\ UNCHANGED <<touched, inPlace, seen, seenDir, heard>>

(* stampOf() of the file, or of the entry of a listing, up to its content. *)
Stat ==
  /\ Sweeping("stat", "diff")
  /\ sweep' = [sweep EXCEPT !.stamp =
                 IF There THEN [mtime |-> file.mtime, content |-> Unhashed] ELSE Gone]
  /\ UNCHANGED <<touched, inPlace, seen, seenDir, heard>>

(* contentHash of a racy stamp, read some time after the stat. *)
Hashed(stamp) ==
  IF stamp # Gone /\ stamp.mtime >= sweep.since
    THEN [stamp EXCEPT !.content = file.content] ELSE stamp

(* changed(): equal times are told apart by the content of a racy stamp, which
   is read now if the new stamp is not racy itself, and then not kept. *)
Same(before, stamp) == Gone \notin {before, stamp} /\ before.mtime = stamp.mtime

Changed(before, stamp) ==
  IF Same(before, stamp)
    THEN before.content # Unhashed /\ before.content # file.content
    ELSE before # Gone \/ stamp # Gone

(* diffFiles, or the comparison of a listing with the last one. *)
Diff ==
  /\ Sweeping("diff", "emit")
  /\ seen' = Hashed(sweep.stamp)
  /\ sweep' = [sweep EXCEPT !.report = Changed(seen, seen')]
  /\ seenDir' = IF kind = "ref" THEN [mtime |-> sweep.dir, racy |-> sweep.racy] ELSE seenDir
  /\ UNCHANGED <<touched, inPlace, heard>>

(* emit(): the listener reads what it shows. *)
Emit ==
  /\ Sweeping("emit", "rest")
  /\ heard' = IF sweep.report THEN file.content ELSE heard
  /\ sweep' = Rest
  /\ UNCHANGED <<touched, inPlace, seen, seenDir>>

Next ==
  \/ Passes \/ Write \/ Delete \/ Rewrite
  \/ \E full \in BOOLEAN : SweepBegin(full)
  \/ StatDir \/ Stat \/ Diff \/ Emit

Spec == Init /\ [][Next]_vars

-----------------------------------------------------------------------------
(* Once a sweep is over, the listener has read the file as it is unless it has
   changed since the sweep began, also when two changes share a timestamp or one
   falls between a sweep's stat and its hash; a ref rewritten in place waits for
   the next full sweep (watch_manager.cpp, sweep, changed and sweepRefs). *)
SweptIsHeard ==
  step = "rest" => heard = file.content \/ touched \/ (kind = "ref" /\ inPlace)
=============================================================================
