------------------------------ MODULE MCAKTree ------------------------------
(* Bounds for the runs of AKTree.                                           *)
EXTENDS AKTree

(* An empty index; a root that is a terminal node; a root with as many      *)
(* terminal nodes as it can have; two internal nodes; two of which the one  *)
(* on the right is full.                                                    *)
ThreeLevels ==
  <<<<8, 3>>, <<1, 3>>, <<2, 3>>, <<3, 3>>, <<7, 2>>, <<4, 3>>, <<5, 3>>, <<6, 2>>>>
Seeds ==
  {<<>>, <<<<4, 2>>, <<6, 2>>>>} \cup {SubSeq(ThreeLevels, 1, n) : n \in {5, 6, 8}}

(* Past a fault there is nothing more to show: see the run ak_loses.        *)
UntilFault == sound
=============================================================================
