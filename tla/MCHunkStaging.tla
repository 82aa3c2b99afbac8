--------------------------- MODULE MCHunkStaging ----------------------------
(* A file that repeats itself, with two lines put in far apart, for TLC.     *)
EXTENDS HunkStaging

TwoKinds == {<<>>, <<-1>>, <<-2, -2>>}

RepeatsItself ==
  {[head |-> <<<<>>, <<>>, <<>>>>, work |-> <<<<-1>>, <<-2, -2>>, <<-2, -2>>>>,
    alike |-> TRUE, filtered |-> FALSE]}
=============================================================================
