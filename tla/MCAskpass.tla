------------------------------ MODULE MCAskpass -------------------------------
(* One git and two prompts for TLC.                                          *)
EXTENDS Askpass, TLC

CONSTANTS g1, p1, p2

BothOfOne == p1 :> g1 @@ p2 :> g1

Setting(timeout, promptTimeout, prompts, mayStop, maxTime) ==
  [timeout |-> timeout, promptTimeout |-> promptTimeout, prompts |-> prompts,
   mayStop |-> mayStop, maxTime |-> maxTime]

\* Prompts that may overlap, on a clock that runs past git's ceiling and theirs;
\* one prompt and a server that stops at any moment; and the same with deadlines
\* that lie as far away as the clock runs.
EverySetting == {Setting(1, 1, {p1, p2}, FALSE, 4), Setting(1, 1, {p1}, TRUE, 4),
                 Setting(7, 5, {p1}, TRUE, 7)}
=============================================================================
