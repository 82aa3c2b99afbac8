----------------------------- MODULE TokenBucket -----------------------------
(***************************************************************************)
(* What RateLimiter promises a forge: requests leave as from a bucket that fills *)
(* by one part at every tick, whoever asks and whenever, each taking one token of *)
(* Parts parts.                                                              *)
(***************************************************************************)
EXTENDS Integers

CONSTANTS Capacity, Parts
VARIABLE level

Full == Capacity * Parts

Init == level = Full
Accrue == level' = IF level < Full THEN level + 1 ELSE Full
Take == level >= Parts /\ level' = level - Parts

Next == Accrue \/ Take
Spec == Init /\ [][Next]_level
=============================================================================
