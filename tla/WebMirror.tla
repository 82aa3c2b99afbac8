----------------------------- MODULE WebMirror ------------------------------
(* The copy of the workspace the engine of the web extension works on: it is *)
(* made before an engine starts and follows the file watcher after that      *)
(* (web/memfsBridge.ts, web/extensionWeb.ts, engine/wasmTransport.ts).       *)
(*                                                                           *)
(* A module is an instance of the wasm engine with the file system in its    *)
(* memory.  The workspace is one directory; what a file holds is a number of *)
(* bytes.  The workspace answers a call as it is at one moment, and the      *)
(* continuation runs at a later one.                                         *)
EXTENDS Integers, FiniteSetsExt, SequencesExt

CONSTANTS
  Paths,
  Sizes,            \* what a file may hold
  Workspaces,       \* what there may be to begin with
  Limit,            \* maxTotalBytes
  Modules,          \* 1 .. n: the instances there may be
  Flights,          \* bounds on flushes under way at once, on what happens to the
  MaxChanges,       \* workspace, and on crashes and restarts
  MaxStops,
  Gone              \* no such file

WebMirrorAssumption ==
  /\ Workspaces \subseteq [Paths -> Sizes \cup {Gone}]
  /\ Sizes \subseteq Nat /\ Gone \notin Sizes
  /\ 1 \in Modules /\ Modules \subseteq Nat
  /\ {Limit, MaxChanges, MaxStops} \subseteq Nat

VARIABLES
  workspace,        \* the file of each path
  events,           \* paths the watcher has still to report
  pending,          \* MemfsBridge.pending, in order
  timer,            \* whether flushTimer is set
  current,          \* currentModule, or 0
  engine,           \* the module of the current transport, and whether it respawns
  respawn,
  start,            \* of each module, how far its start has come
  memfs,            \* and its files
  flush,            \* the flushes under way
  changes, stops,
  crossed           \* paths a flush took to a module that was not the engine's, or
                    \* while another flush held them

vars == <<workspace, events, pending, timer, current, engine, respawn, start, memfs, flush,
          changes, stops, crossed>>

NotStarted == [at |-> "none", left |-> {}, path |-> Gone, got |-> Gone, bytes |-> 0]
NoFlush == [at |-> "none", module |-> 0, left |-> <<>>, got |-> Gone]

\* Activation has started the first engine.
Init ==
  /\ workspace \in Workspaces
  /\ events = {} /\ pending = <<>> /\ timer = FALSE
  /\ current = 0 /\ engine = 1 /\ respawn = FALSE
  /\ start = [m \in Modules |-> [NotStarted EXCEPT !.at = IF m = 1 THEN "load" ELSE "none"]]
  /\ memfs = [m \in Modules |-> [p \in Paths |-> Gone]]
  /\ flush = [f \in Flights |-> NoFlush]
  /\ changes = 0 /\ stops = 0 /\ crossed = {}

-----------------------------------------------------------------------------
(* The workspace and its watcher. *)
Change(p, content) ==
  /\ changes < MaxChanges /\ changes' = changes + 1
  /\ workspace[p] # content /\ workspace' = [workspace EXCEPT ![p] = content]
  /\ events' = events \cup {p}
  /\ UNCHANGED <<pending, timer, current, engine, respawn, start, memfs, flush, stops, crossed>>

\* A flush is on its way to the engine's module with the path.
Held(p) == \E f \in Flights : flush[f].module = engine /\ p \in ToSet(flush[f].left)

MutQueued(p) == IF p \in ToSet(pending) \/ Held(p) THEN pending ELSE Append(pending, p)

\* queueChange
Queued(p) == IF p \in ToSet(pending) THEN pending ELSE Append(pending, p)

\* onFsEvent: queueChange and scheduleFlush.
FsEvent(p) ==
  /\ p \in events /\ events' = events \ {p}
  /\ pending' = Queued(p)
  /\ timer' = TRUE
  /\ UNCHANGED <<workspace, current, engine, respawn, start, memfs, flush, changes, stops, crossed>>

-----------------------------------------------------------------------------
(* WasmTransport.start: the module is loaded, and the workspace mirrored into it. *)
\* loadModule, and the start of mirrorInto.
Load(m) ==
  /\ start[m].at = "load" /\ start' = [start EXCEPT ![m].at = "list"]
  /\ UNCHANGED <<workspace, events, pending, timer, current, engine, respawn, memfs, flush,
                 changes, stops, crossed>>

\* The workspace is listed, or a file of it read.
ServeStart(m) ==
  /\ \/ /\ start[m].at = "list"
        /\ start' = [start EXCEPT ![m].at = "next",
                                  ![m].left = {p \in Paths : workspace[p] # Gone}]
     \/ \E p \in start[m].left :
          /\ start[m].at = "next"
          /\ start' = [start EXCEPT ![m].at = "read", ![m].path = p, ![m].got = workspace[p]]
  /\ UNCHANGED <<workspace, events, pending, timer, current, engine, respawn, memfs, flush,
                 changes, stops, crossed>>

\* mirrorDirectory writes the file, or throws: it is gone, or one too many.
Copy(m) ==
  LET s == start[m]
      bytes == s.bytes + s.got
      fails == s.got = Gone \/ bytes > Limit
  IN /\ s.at = "read"
     /\ start' = [start EXCEPT ![m] =
          IF fails THEN [NotStarted EXCEPT !.at = "failed"]
          ELSE [s EXCEPT !.at = "next", !.left = @ \ {s.path}, !.bytes = bytes]]
     /\ memfs' = IF fails THEN memfs ELSE [memfs EXCEPT ![m][s.path] = s.got]
     /\ UNCHANGED <<workspace, events, pending, timer, current, engine, respawn, flush, changes,
                    stops, crossed>>

\* The end of mirrorInto: the module is the one flushes go to from now on, whichever
\* the client's is by now, and the engine in it is ready.
Ready(m) ==
  /\ start[m].at = "next" /\ start[m].left = {}
  /\ start' = [start EXCEPT ![m].at = "live"]
  /\ current' = m
  /\ UNCHANGED <<workspace, events, pending, timer, engine, respawn, memfs, flush, changes, stops,
                 crossed>>

-----------------------------------------------------------------------------
(* EngineClient drives the transports. *)
Spawn(m) ==
  /\ m \in Modules /\ engine' = m /\ respawn' = FALSE
  /\ start' = [start EXCEPT ![m].at = "load"]
  /\ crossed' = {}

\* A throw out of the module: emitExit, and a respawn after a while.
Crash ==
  /\ stops < MaxStops /\ stops' = stops + 1
  /\ start[engine].at = "live" /\ ~respawn /\ respawn' = TRUE
  /\ UNCHANGED <<workspace, events, pending, timer, current, engine, start, memfs, flush, changes,
                 crossed>>

Respawn ==
  /\ respawn /\ Spawn(engine + 1)
  /\ UNCHANGED <<workspace, events, pending, timer, current, memfs, flush, changes, stops>>

\* restart kills the transport, whose start goes on if it had not ended.
Restart ==
  /\ stops < MaxStops /\ stops' = stops + 1
  /\ Spawn(engine + 1)
  /\ UNCHANGED <<workspace, events, pending, timer, current, memfs, flush, changes>>

-----------------------------------------------------------------------------
(* flushInto, of which several may be under way. *)
FlushTimer ==
  /\ timer /\ timer' = FALSE
  /\ IF current = 0 \/ pending = <<>>
       THEN UNCHANGED <<flush, pending, crossed>>
       ELSE \E f \in Flights :
              /\ flush[f].at = "none"
              /\ flush' = [flush EXCEPT ![f] =
                   [at |-> "stat", module |-> current, left |-> pending, got |-> Gone]]
              /\ pending' = <<>>
              /\ crossed' = crossed \cup
                   {p \in ToSet(pending) : current # engine \/ Held(p)}
  /\ UNCHANGED <<workspace, events, current, engine, respawn, start, memfs, changes, stops>>

\* The workspace answers: whether there is such a file, or what it holds.
ServeFlush(f) ==
  LET answered == [stat |-> "stated", read |-> "got"]
  IN /\ flush[f].at \in DOMAIN answered
     /\ flush' = [flush EXCEPT ![f].at = answered[@], ![f].got = workspace[Head(flush[f].left)]]
     /\ UNCHANGED <<workspace, events, pending, timer, current, engine, respawn, start, memfs,
                    changes, stops, crossed>>

Onwards(f) == IF Len(f.left) = 1 THEN NoFlush
              ELSE [f EXCEPT !.at = "stat", !.left = Tail(@), !.got = Gone]

\* It is read if it is there, written once it is read, and removed when either call
\* throws.  After the last one the surfaces ask the engine anew (onDidSyncChanges).
ResumeFlush(f) ==
  LET here == flush[f]
      p == Head(here.left)
      reads == here.at = "stated" /\ here.got # Gone
  IN /\ here.at \in {"stated", "got"}
     /\ flush' = [flush EXCEPT ![f] =
          IF reads THEN [here EXCEPT !.at = "read", !.got = Gone] ELSE Onwards(here)]
     /\ memfs' = IF reads THEN memfs ELSE [memfs EXCEPT ![here.module][p] = here.got]
     /\ UNCHANGED <<workspace, events, pending, timer, current, engine, respawn, start, changes,
                    stops, crossed>>

Next ==
  \/ \E p \in Paths : FsEvent(p) \/ \E c \in Sizes \cup {Gone} : Change(p, c)
  \/ \E m \in Modules : Load(m) \/ ServeStart(m) \/ Copy(m) \/ Ready(m)
  \/ Crash \/ Respawn \/ Restart
  \/ FlushTimer \/ \E f \in Flights : ServeFlush(f) \/ ResumeFlush(f)

Spec == Init /\ [][Next]_vars
-----------------------------------------------------------------------------
(* An engine works on the file as it is in the workspace, unless a change of it is
   on its way there: reported by the watcher, put off, or in a flush.  It may not
   when two flushes had the file at once, of which the earlier reading may be
   written last, or when one took it to another module than the engine's: that of
   an engine that exited, while its successor was mirrored, or that of one that was
   replaced before its start had ended (memfsBridge.ts, extensionWeb.ts). *)
MirrorExact ==
  start[engine].at = "live" =>
    \A p \in Paths \ (events \cup ToSet(pending) \cup crossed) :
      Held(p) \/ memfs[engine][p] = workspace[p]
=============================================================================
