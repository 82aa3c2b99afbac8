---------------------------- MODULE MCBufferBlame ----------------------------
(* Two blame surfaces; what may happen to the document they describe.        *)
EXTENDS BufferBlame

Bound(v, c, large, open, evict, forget, restart, external) ==
  [version |-> v, contents |-> c, large |-> large, open |-> open, evict |-> evict,
   forget |-> forget, restart |-> restart, external |-> external]

\* One edit, and everything else once.
Everything == {Bound(3, 1, FALSE, 1, 1, 0, 1, 1), Bound(3, 1, FALSE, 1, 0, 1, 0, 1)}

\* Closed and opened again.
Reopening == {Bound(3, 2, FALSE, 1, 0, 0, 0, 0)}
=============================================================================
