---------------------------- MODULE MCDynamicFile ----------------------------
(* Constants for the runs of DynamicFile.                                   *)
EXTENDS DynamicFile, TLC

CONSTANTS u1, u2, i1, i2, i3, small, large, big

(* With one group all ids are in it, with two i3 is in the other, with three *)
(* i2 is in the third.                                                      *)
Hashes == (i1 :> 0) @@ (i2 :> 2) @@ (i3 :> 3)
Sizes == (small :> 1) @@ (large :> 2) @@ (big :> 1)
Bigs == (small :> 0) @@ (large :> 0) @@ (big :> 2)
Writes == {<<u1,i1,large>>,<<u1,i2,small>>,<<u1,i3,big>>,<<u1,i2,large>>}
Deletes == {<<u2,i1>>}
=============================================================================
