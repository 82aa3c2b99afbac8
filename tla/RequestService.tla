--------------------------- MODULE RequestService ---------------------------
(***************************************************************************)
(* What the engine promises its client about requests (the contract in the  *)
(* comment of class Dispatcher, src/engine/src/rpc/dispatcher.h), without   *)
(* strands, threads or queues: each request gets one response, an id in use *)
(* is refused, and only a request someone asked to cancel ends cancelled.   *)
(***************************************************************************)
EXTENDS Sequences

CONSTANTS
  Requests, Ids, ReqId,
  Endless   \* requests that may take for ever unless cancelled

VARIABLES
  pending,  \* requests taken and not answered
  asked,    \* pending or answered requests a later cancel has named
  reply,    \* the response of each request: <<>> until it is written
  serving   \* FALSE once the engine is stopping

vars == <<pending, asked, reply, serving>>

Init == /\ pending = {} /\ asked = {} /\ serving = TRUE
        /\ reply = [r \in Requests |-> <<>>]

InUse(r) == \E q \in pending \ {r} : ReqId[q] = ReqId[r]

Reply(r, outcome) == reply' = [reply EXCEPT ![r] = <<outcome>>]

(* The engine takes a request. *)
Submit(r) ==
  /\ serving /\ r \notin pending /\ reply[r] = <<>>
  /\ pending' = pending \cup {r}
  /\ UNCHANGED <<asked, reply, serving>>

(* The engine takes a request and turns it away at once. *)
Bounce(r) ==
  /\ serving /\ r \notin pending /\ reply[r] = <<>>
  /\ Reply(r, "error") \/ (InUse(r) /\ Reply(r, "refused"))
  /\ UNCHANGED <<pending, asked, serving>>

(* A cancel names an id: every request of that id taken so far is asked. *)
AskCancel ==
  /\ serving
  /\ \E i \in Ids :
       asked' = asked \cup {r \in Requests : ReqId[r] = i /\ (r \in pending \/ reply[r] # <<>>)}
  /\ UNCHANGED <<pending, reply, serving>>

(* A pending request is answered. *)
Finish(r) ==
  /\ r \in pending
  /\ \/ Reply(r, "result") \/ Reply(r, "error")
     \/ InUse(r) /\ Reply(r, "refused")
     \/ (r \in asked \/ ~serving) /\ Reply(r, "cancelled")
  /\ pending' = pending \ {r}
  /\ UNCHANGED <<asked, serving>>

StopServing == serving /\ serving' = FALSE /\ UNCHANGED <<pending, asked, reply>>

Next ==
  \/ \E r \in Requests : Submit(r) \/ Bounce(r) \/ Finish(r)
  \/ AskCancel \/ StopServing

(* While it serves, and has no endless request to see to, the engine answers
   every request. *)
Spec ==
  /\ Init /\ [][Next]_vars
  /\ \A r \in Requests : WF_vars(serving /\ pending \cap Endless = {} /\ Finish(r))
=============================================================================
