----------------------------- MODULE BufferBlame -----------------------------
(* Blame of a document with unsaved changes, from the editor surface to the   *)
(* engine and back: DocumentSync (which buffer the engine holds), the         *)
(* repository lookup it waits for, the engine's DocOverlay, BlameModel's      *)
(* shared requests and cached answers, and DocumentBlameService's one retry.  *)
(* One document, several blame surfaces.                                      *)
(*                                                                            *)
(* Contents are numbers: two buffers with different text have different       *)
(* numbers, and a blame describes the number it was computed from.  The       *)
(* extension host is one JavaScript thread: a macro step (an editor event, a  *)
(* frame from the engine) runs only when no continuation is pending (Quiet).  *)
(* Frames to the engine are handled in order and a blame runs after the       *)
(* notifications sent before it (module Dispatcher).                          *)
EXTENDS Integers, Sequences, FiniteSets

CONSTANTS
  Callers,      \* blame surfaces: current line, hover, annotations, CodeLens
  MaxVersion,   \* bound on the editor's document version
  MaxContents,  \* bound on the distinct contents that ever exist
  Bounds        \* how much may happen to a document, see BoundType

(* The versions and contents it may have, whether an edit may exceed the
   buffer limit, and how often it is opened again, other buffers push this one
   out of the overlay, a repository appears so that per-directory answers go,
   the engine exits, and a tool outside the editor rewrites the file. *)
BoundType ==
  [version : 1 .. MaxVersion, contents : 0 .. MaxContents, large : BOOLEAN, open : Nat,
   evict : Nat, forget : Nat, restart : Nat, external : Nat]

BoundsAssumption == MaxVersion \in Nat \ {0} /\ MaxContents \in Nat /\ Bounds \subseteq BoundType

OnDisk == 0                        \* ON_DISK_VERSION
Versions == 1 .. MaxVersion
Keys == {OnDisk} \cup Versions
Contents == 0 .. MaxContents
NoDoc == [version |-> OnDisk, content |-> 0]   \* nothing in the overlay

VARIABLES
  doc,       \* the editor's document
  disk,      \* contents of the file on disk
  contents,  \* contents that exist so far
  known,     \* RepositoryService: the repository is not registered, its root is, or
             \* the engine has answered for the document's directory
  looking,   \* its repo/discover request is under way
  pushed,    \* DocumentSync.pushed: the version the engine holds; OnDisk = none
  tooLarge,  \* DocumentSync.tooLarge
  flights,   \* DocumentSync.inflight: versions whose push waits for the lookup
  wire,      \* frames on their way to the engine
  asked,     \* blame requests the engine took
  answers,   \* answers on their way back
  overlay,   \* the engine's DocOverlay, this document's slot
  cache,     \* BlameModel.cache
  caller,    \* each surface's blameDocument call
  alive,     \* the engine's transport is up
  reloading, \* rediscoverAll runs after a respawn
  spent,     \* how often each bounded event has happened
  bound      \* of Bounds

editor == <<doc, disk, contents>>
lookup == <<known, looking>>
sync   == <<pushed, tooLarge, flights>>
engine == <<asked, answers, overlay>>
life   == <<alive, reloading, spent, bound>>
vars == <<editor, lookup, sync, engine, wire, cache, caller, life>>

Idle == [pc |-> "idle", key |-> OnDisk, attempt |-> 0, want |-> {}, got |-> 0]
NoEntry == [state |-> "none", content |-> 0]
Events == {"open", "evict", "forget", "restart", "external"}

Init ==
  /\ doc = [open |-> TRUE, dirty |-> FALSE, version |-> 1, content |-> 0, large |-> FALSE]
  /\ disk = 0 /\ contents = 0
  /\ known = "root" /\ looking = FALSE
  /\ pushed = OnDisk /\ tooLarge = OnDisk /\ flights = {}
  /\ wire = <<>> /\ asked = {} /\ answers = {} /\ overlay = NoDoc
  /\ cache = [k \in Keys |-> NoEntry]
  /\ caller = [c \in Callers |-> Idle]
  /\ alive = TRUE /\ reloading = FALSE
  /\ spent = [e \in Events |-> 0] /\ bound \in Bounds

(* A continuation is pending: nothing else runs on the thread.               *)
Pending(c) == caller[c].pc \in {"located", "synced"}
Quiet == \A c \in Callers : ~Pending(c)

Spend(e) == spent[e] < bound[e] /\ spent' = [spent EXCEPT ![e] = @ + 1] /\ UNCHANGED bound

-----------------------------------------------------------------------------
(* Frames.  EngineClient.notify drops what it cannot send.                   *)
Send(w, m) == IF alive THEN Append(w, m) ELSE w
Change(v, x) == [op |-> "change", version |-> v, content |-> x]
Close == [op |-> "close", version |-> OnDisk, content |-> 0]
AskFor(k) == [op |-> "ask", version |-> k, content |-> 0]
\* A request whose cancel goes out behind it.
Cancelled == [op |-> "cancelled", version |-> OnDisk, content |-> 0]
Asks(w, K) == [i \in DOMAIN w |-> IF w[i].op = "ask" /\ w[i].version \in K THEN Cancelled ELSE w[i]]

(* DocumentSync.release: didClose only for a buffer recorded as pushed.      *)
Released(w) == IF pushed # OnDisk THEN Send(w, Close) ELSE w
Forgotten == pushed' = OnDisk /\ tooLarge' = OnDisk

(* BlameModel.remove(key, stop) for every key of K: entries go, requests     *)
(* still running are cancelled, which rejects whoever waits for them.        *)
Dropped(K) == [k \in Keys |-> IF k \in K THEN NoEntry ELSE cache[k]]
MutRejected(cs, K) == cs
Rejected(cs, K) ==
  [c \in Callers |-> IF cs[c].pc = "waiting" /\ cs[c].key \in K THEN Idle ELSE cs[c]]
Stop(K) ==
  /\ asked' = asked \ K
  /\ answers' = {a \in answers : a.key \notin K}

(* evictSuperseded: buffer versions that can never be asked for again.       *)
Superseded(k) == {v \in Versions : k = OnDisk \/ v < k}

(* Surfaces waiting for the file on disk accept what it held meanwhile.      *)
DiskNow(cs, x) ==
  [c \in Callers |-> IF cs[c].pc = "waiting" /\ cs[c].key = OnDisk
                     THEN [cs[c] EXCEPT !.want = @ \cup {x}] ELSE cs[c]]

-----------------------------------------------------------------------------
(* Editor events.                                                            *)
MayEdit == Quiet /\ doc.open /\ doc.version < bound.version

Edit == /\ MayEdit /\ contents < bound.contents
        /\ contents' = contents + 1
        /\ \E large \in {FALSE, bound.large} :
             doc' = [doc EXCEPT !.dirty = TRUE, !.version = @ + 1,
                                !.content = contents + 1, !.large = large]
        /\ UNCHANGED <<disk, lookup, sync, wire, engine, cache, caller, life>>

(* Undo back to the saved text, or Revert File: clean again (onChanged).     *)
Undo == /\ MayEdit /\ doc.dirty
        /\ doc' = [doc EXCEPT !.dirty = FALSE, !.version = @ + 1,
                              !.content = disk, !.large = FALSE]
        /\ wire' = Released(wire) /\ Forgotten
        /\ UNCHANGED <<disk, contents, lookup, flights, engine, cache, caller, life>>

(* A save: DocumentSync releases the buffer and core.ts drops the path's     *)
(* blame, unless the repository is not registered yet during a reload.       *)
Save == /\ Quiet /\ doc.open /\ doc.dirty
        /\ doc' = [doc EXCEPT !.dirty = FALSE, !.large = FALSE]
        /\ disk' = doc.content
        /\ Forgotten
        /\ LET K == IF known = "no" THEN {} ELSE Keys IN
             /\ wire' = Asks(Released(wire), K)
             /\ cache' = Dropped(K) /\ Stop(K)
             /\ caller' = DiskNow(Rejected(caller, K), doc.content)
        /\ UNCHANGED <<contents, lookup, flights, overlay, life>>

CloseDocument == /\ Quiet /\ doc.open
                 /\ doc' = [doc EXCEPT !.open = FALSE, !.dirty = FALSE]
                 /\ wire' = Released(wire) /\ Forgotten
                 /\ UNCHANGED <<disk, contents, lookup, flights, engine, cache, caller, life>>

(* The editor counts a document's versions from 1 each time it is opened.    *)
OpenAgain == /\ Quiet /\ ~doc.open /\ Spend("open")
             /\ doc' = [open |-> TRUE, dirty |-> FALSE, version |-> 1,
                        content |-> disk, large |-> FALSE]
             /\ UNCHANGED <<disk, contents, lookup, sync, wire, engine, cache, caller,
                            alive, reloading>>

(* A tool outside the editor rewrites the file; a clean document reloads.    *)
External == /\ Quiet /\ contents < bound.contents /\ Spend("external")
            /\ contents' = contents + 1 /\ disk' = contents + 1
            /\ \/ doc.open /\ ~doc.dirty /\ doc.version < bound.version
                  /\ doc' = [doc EXCEPT !.version = @ + 1, !.content = contents + 1]
               \/ (~doc.open \/ doc.dirty) /\ doc' = doc
            /\ caller' = DiskNow(caller, contents + 1)
            /\ UNCHANGED <<lookup, sync, wire, engine, cache, alive, reloading>>

-----------------------------------------------------------------------------
(* RepositoryService.locateOrDiscover.  One repo/discover per directory is   *)
(* under way at a time; its answer resumes everyone waiting for it.          *)
ForgetDirectories == /\ Quiet /\ known = "yes" /\ Spend("forget")
                     /\ known' = "root"
                     /\ UNCHANGED <<editor, looking, sync, wire, engine, cache, caller,
                                    alive, reloading>>

(* A lookup waits for the engine unless it answered before; one that fails   *)
(* because the engine is gone still matches a registered root.               *)
Waits == known # "yes" /\ alive
Finds == known = "yes" \/ (known = "root" /\ ~alive)

(* blameWorkingTree looks the repository up before anything else.            *)
Ask(c) == /\ Quiet /\ caller[c].pc \in {"idle", "shown"} /\ doc.open
          /\ looking' = (looking \/ Waits)
          /\ caller' = [caller EXCEPT ![c] =
                          [Idle EXCEPT !.pc = IF Waits THEN "locating"
                                              ELSE IF Finds THEN "located" ELSE "idle"]]
          /\ UNCHANGED <<editor, known, sync, wire, engine, cache, life>>

(* What DocumentSync.push does once the lookup is answered, and the state it *)
(* returns to the surfaces that wait for it.                                 *)
PushOutcome == IF ~doc.open THEN "unavailable"
               ELSE IF ~doc.dirty THEN "disk"
               ELSE IF doc.large THEN "tooLarge" ELSE "buffer"
PushWire(w, o) ==
  CASE o = "buffer" -> Send(w, Change(doc.version, doc.content))
    [] o \in {"disk", "tooLarge"} -> Released(w)
    [] OTHER -> w
MutPushRecord(o) ==
  CASE o = "buffer" -> pushed' = doc.version /\ tooLarge' = OnDisk
    [] o = "disk" -> Forgotten
    [] o = "tooLarge" -> UNCHANGED pushed /\ tooLarge' = doc.version
    [] OTHER -> UNCHANGED <<pushed, tooLarge>>
PushRecord(o) ==
  CASE o = "buffer" -> pushed' = doc.version /\ tooLarge' = OnDisk
    [] o = "disk" -> Forgotten
    [] o = "tooLarge" -> pushed' = OnDisk /\ tooLarge' = doc.version
    [] OTHER -> UNCHANGED <<pushed, tooLarge>>

(* A surface's next step after BufferSync.sync returned a state.             *)
AfterSync(r, o) ==
  CASE o = "buffer" -> [r EXCEPT !.pc = "synced", !.key = doc.version]
    [] o = "disk" -> [r EXCEPT !.pc = "synced", !.key = OnDisk]
    [] OTHER -> Idle

Resume(o) ==
  [c \in Callers |->
     CASE caller[c].pc = "locating" -> [caller[c] EXCEPT !.pc = "located"]
       [] caller[c].pc = "syncing" -> AfterSync(caller[c], o)
       [] OTHER -> caller[c]]

(* The lookup is answered: every waiting push is sent, every waiting surface *)
(* goes on.                                                                  *)
LookupAnswered ==
  /\ Quiet /\ looking /\ alive
  /\ looking' = FALSE /\ known' = "yes" /\ flights' = {}
  /\ LET o == IF flights = {} THEN "unavailable" ELSE PushOutcome
     IN wire' = PushWire(wire, o) /\ PushRecord(o) /\ caller' = Resume(o)
  /\ UNCHANGED <<editor, engine, cache, life>>

-----------------------------------------------------------------------------
(* DocumentSync.sync: pushes the buffer unless the engine already holds this *)
(* version; a push of the same version under way is shared.                  *)
SyncOutcome == IF doc.open /\ doc.dirty /\ pushed = doc.version THEN "held"
               ELSE IF doc.open /\ doc.dirty /\ tooLarge = doc.version THEN "known"
               ELSE PushOutcome

NeedsPush == SyncOutcome \in {"buffer", "tooLarge"}

Sync(c) ==
  /\ caller[c].pc = "located"
  /\ \/ /\ NeedsPush /\ Waits
        /\ caller' = [caller EXCEPT ![c].pc = "syncing"]
        /\ flights' = flights \cup {doc.version} /\ looking' = TRUE
        /\ UNCHANGED <<pushed, tooLarge, wire>>
     \/ /\ ~(NeedsPush /\ Waits)
        /\ LET o == IF NeedsPush /\ ~Finds THEN "unavailable" ELSE SyncOutcome
           IN /\ caller' = [caller EXCEPT ![c] =
                               AfterSync(@, IF o = "held" THEN "buffer" ELSE o)]
              /\ wire' = PushWire(wire, o) /\ PushRecord(o)
        /\ UNCHANGED <<looking, flights>>
  /\ UNCHANGED <<editor, known, engine, cache, life>>

(* BlameModel.getBlame: the cached answer, the request under way, or a new   *)
(* one, which drops the versions it supersedes.                              *)
GetBlame(c) ==
  /\ caller[c].pc = "synced"
  /\ LET k == caller[c].key
         K == Superseded(k)
         asking == [caller[c] EXCEPT !.pc = "waiting", !.want = {doc.content}]
     IN \/ /\ cache[k].state = "done"
           /\ caller' = [caller EXCEPT ![c] = [asking EXCEPT !.pc = "shown",
                                                             !.got = cache[k].content]]
           /\ UNCHANGED <<wire, engine, cache>>
        \/ /\ cache[k].state = "running"
           /\ caller' = [caller EXCEPT ![c] = asking]
           /\ UNCHANGED <<wire, engine, cache>>
        \/ /\ cache[k].state = "none"
           /\ Stop(K)
           /\ wire' = Send(Asks(wire, K), AskFor(k))
           /\ cache' = [Dropped(K) EXCEPT ![k].state = IF alive THEN "running" ELSE "none"]
           /\ caller' = [Rejected(caller, K) EXCEPT ![c] = IF alive THEN asking ELSE Idle]
           /\ UNCHANGED overlay
  /\ UNCHANGED <<editor, lookup, sync, life>>

-----------------------------------------------------------------------------
(* The engine.                                                               *)
EngineTakes ==
  /\ wire # <<>>
  /\ wire' = Tail(wire)
  /\ LET m == Head(wire)
     IN \/ m.op = "change" /\ overlay' = [version |-> m.version, content |-> m.content]
           /\ asked' = asked
        \/ m.op = "close" /\ overlay' = NoDoc /\ asked' = asked
        \/ m.op = "cancelled" /\ overlay' = overlay /\ asked' = asked
        \/ m.op = "ask" /\ asked' = asked \cup {m.version} /\ overlay' = overlay
  /\ UNCHANGED <<editor, lookup, sync, answers, cache, caller, life>>

(* blame/file: a request for the file on disk skips the overlay; any other   *)
(* blames whatever buffer is there and says which.                           *)
Blamed(k) == IF k = OnDisk \/ overlay = NoDoc
             THEN [key |-> k, version |-> OnDisk, content |-> disk]
             ELSE [key |-> k, version |-> overlay.version, content |-> overlay.content]

EngineReads(k) ==
  /\ k \in asked
  /\ asked' = asked \ {k} /\ answers' = answers \cup {Blamed(k)}
  /\ UNCHANGED <<editor, lookup, sync, wire, overlay, cache, caller, life>>

(* evictLocked: other documents' buffers fill the budget.                    *)
Evict == /\ overlay # NoDoc /\ Spend("evict")
         /\ overlay' = NoDoc
         /\ UNCHANGED <<editor, lookup, sync, wire, asked, answers, cache, caller,
                        alive, reloading>>

(* An answer for the buffer asked about is cached and shown.                 *)
Current(a) == a.version = a.key

AnswerShown(a) ==
  /\ Quiet /\ Current(a)
  /\ answers' = answers \ {a}
  /\ cache' = [cache EXCEPT ![a.key] = [state |-> "done", content |-> a.content]]
  /\ caller' = [c \in Callers |->
                  IF caller[c].pc = "waiting" /\ caller[c].key = a.key
                  THEN [caller[c] EXCEPT !.pc = "shown", !.got = a.content]
                  ELSE caller[c]]
  /\ UNCHANGED <<editor, lookup, sync, wire, asked, overlay, life>>

(* An answer for another buffer: nothing is cached, the pushed buffer is     *)
(* forgotten and each surface tries once more.                               *)
AnswerStale(a) ==
  /\ Quiet /\ ~Current(a)
  /\ answers' = answers \ {a}
  /\ cache' = [cache EXCEPT ![a.key] = NoEntry]
  /\ LET retry == {c \in Callers : /\ caller[c].pc = "waiting" /\ caller[c].key = a.key
                                   /\ caller[c].attempt = 0}
     IN /\ caller' = [c \in Callers |->
                        IF c \in retry
                        THEN [Idle EXCEPT !.pc = "located", !.attempt = 1]
                        ELSE Rejected(caller, {a.key})[c]]
        /\ pushed' = IF retry # {} THEN OnDisk ELSE pushed
  /\ UNCHANGED <<editor, lookup, tooLarge, flights, wire, asked, overlay, life>>

-----------------------------------------------------------------------------
(* The engine exits: everything in flight is rejected, and whoever waited    *)
(* for a lookup goes on with the registered root.                            *)
Restart ==
  /\ Quiet /\ alive /\ ~reloading /\ Spend("restart")
  /\ alive' = FALSE
  /\ wire' = <<>> /\ asked' = {} /\ answers' = {} /\ overlay' = NoDoc
  /\ cache' = [k \in Keys |-> IF cache[k].state = "running" THEN NoEntry ELSE cache[k]]
  /\ looking' = FALSE /\ flights' = {}
  /\ LET o == IF flights = {} THEN "" ELSE PushOutcome
     IN caller' = Rejected(Resume(o), Keys) /\ PushRecord(o)
  /\ UNCHANGED <<editor, known, reloading>>

(* core.ts reload: rediscoverAll forgets the lookups, then asks the engine   *)
(* about every repository again...                                           *)
Respawn ==
  /\ Quiet /\ ~alive
  /\ alive' = TRUE /\ reloading' = TRUE /\ known' = "no"
  /\ UNCHANGED <<editor, looking, sync, wire, engine, cache, caller, spent, bound>>

(* ...which registers this one...                                            *)
Rediscovered ==
  /\ Quiet /\ reloading /\ known = "no"
  /\ known' = "root"
  /\ UNCHANGED <<editor, looking, sync, wire, engine, cache, caller, life>>

(* ...and only then resync() forgets the pushed buffers and refreshAll()     *)
(* drops the cached blame and whatever a surface shows of it.                *)
ReloadDone ==
  /\ Quiet /\ reloading /\ known # "no"
  /\ reloading' = FALSE
  /\ pushed' = OnDisk
  /\ cache' = Dropped(Keys) /\ Stop(Keys) /\ wire' = Asks(wire, Keys)
  /\ caller' = [c \in Callers |-> IF caller[c].pc = "shown" THEN Idle
                                  ELSE Rejected(caller, Keys)[c]]
  /\ UNCHANGED <<editor, lookup, tooLarge, flights, overlay, alive, spent, bound>>

Continue == \E c \in Callers : Sync(c) \/ GetBlame(c)
Replies == \E a \in answers : AnswerShown(a) \/ AnswerStale(a)
Reads == \E k \in Keys : EngineReads(k)
Asking == \E c \in Callers : Ask(c)

Next ==
  \/ Edit \/ Undo \/ Save \/ CloseDocument \/ OpenAgain \/ External
  \/ ForgetDirectories \/ Asking \/ LookupAnswered \/ Continue
  \/ EngineTakes \/ Reads \/ Evict \/ Replies
  \/ Restart \/ Respawn \/ Rediscovered \/ ReloadDone

Spec == Init /\ [][Next]_vars

(* The thread runs its continuations and, the event loop being a queue, each *)
(* frame and timer that waits for it; the engine takes frames and answers;   *)
(* one that exited is replaced and the reload finishes.                      *)
FairSpec ==
  /\ Spec
  /\ WF_vars(Continue) /\ WF_vars(EngineTakes) /\ \A k \in Keys : WF_vars(EngineReads(k))
  /\ SF_vars(LookupAnswered) /\ SF_vars(Replies)
  /\ SF_vars(Respawn) /\ SF_vars(Rediscovered) /\ SF_vars(ReloadDone)

-----------------------------------------------------------------------------
Frames == [op : {"change", "close", "ask", "cancelled"}, version : Keys, content : Contents]

(* Every variable holds a value of its kind.                                 *)
TypeOK ==
  /\ doc \in [open : BOOLEAN, dirty : BOOLEAN, version : Versions,
              content : Contents, large : BOOLEAN]
  /\ disk \in Contents /\ contents \in Contents
  /\ known \in {"no", "root", "yes"} /\ looking \in BOOLEAN
  /\ pushed \in Keys /\ tooLarge \in Keys /\ flights \subseteq Versions
  /\ wire \in Seq(Frames)
  /\ asked \subseteq Keys
  /\ answers \subseteq [key : Keys, version : Keys, content : Contents]
  /\ overlay \in [version : Keys, content : Contents]
  /\ cache \in [Keys -> [state : {"none", "running", "done"}, content : Contents]]
  /\ caller \in [Callers -> [pc : {"idle", "locating", "located", "syncing", "synced",
                                   "waiting", "shown"},
                             key : Keys, attempt : 0 .. 1, want : SUBSET Contents,
                             got : Contents]]
  /\ alive \in BOOLEAN /\ reloading \in BOOLEAN
  /\ spent \in [Events -> Nat] /\ bound \in Bounds

(* "No surface can describe one buffer with the blame of another": what is
   shown was computed from the contents the surface synced
   (DocumentBlameService, BlameModel's version check, the engine's docVersion). *)
NeverAnothersBlame ==
  \A c \in Callers : caller[c].pc = "shown" => caller[c].got \in caller[c].want

(* It holds but for what the code cannot see: a document opened again counts
   its versions from 1, a tool rewrites the file behind the editor, and answers
   of the engine before a restart stay until the reload is over. *)
BlameDescribesBuffer ==
  /\ TypeOK
  /\ ~reloading /\ spent["open"] = 0 /\ spent["external"] = 0 => NeverAnothersBlame

(* The engine, with overlay o, will hold version v of the buffer with contents x
   once the frames w on their way are handled. *)
Notices(w) == {i \in DOMAIN w : w[i].op \in {"change", "close"}}
WillHold(w, o, v, x) ==
  \/ Notices(w) = {} /\ o = [version |-> v, content |-> x]
  \/ \E i \in Notices(w) : w[i] = Change(v, x) /\ \A j \in Notices(w) : j <= i

(* The engine's copy of a buffer is dropped as soon as the document matches
   the disk again or is closed (DocumentSync.release), but for a document that was
   opened again: a late answer about its former versions makes the retry forget
   what is held (DocumentSync.forget), and if the document is clean again before
   its repository is found, nothing drops it. *)
CleanBufferDropped ==
  spent["restart"] = 0 /\ spent["open"] = 0 /\ ~doc.dirty
    => \A v \in Versions, x \in Contents : ~WillHold(wire, overlay, v, x)

(* While no restart, reload or eviction intervened, a version recorded as
   pushed is the buffer the engine holds or is about to, so a surface that
   skips the push asks about a buffer that is there (DocumentSync.pushed). *)
PushedIsHeld ==
  pushed # OnDisk /\ spent["restart"] = 0 /\ spent["evict"] = 0
    => \E x \in Contents : /\ WillHold(wire, overlay, pushed, x)
                           /\ pushed = doc.version => x = doc.content

(* The engine holds the buffers it was sent and no others, whatever lookups,
   saves and frames overlap. *)
OverlayExact == CleanBufferDropped /\ PushedIsHeld

(* Every blame a surface asks for comes to an end: it is shown or given up.  *)
EveryAskEnds ==
  \A c \in Callers : caller[c].pc \in {"locating", "syncing", "waiting"}
                     ~> caller[c].pc \in {"idle", "shown"}
=============================================================================
