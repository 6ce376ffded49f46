----------------------------- MODULE MCGroupLocks -----------------------------
(* Constants for the runs of GroupLocks: a file of three groups and header.  *)
EXTENDS GroupLocks, TLC

CONSTANTS u1, u2, u3, h0, g1, g2, g3

(* Two pairs of groups that hash to one cell, the last and the first.       *)
Collide == [g \in Groups |-> IF g \in {h0, g2} THEN NumGLocks ELSE 1]

(* u1 writes, and may be killed; u2 does everything; u3 reads.              *)
ThreeSessions ==
  [u \in Users |->
     CASE u = u1 -> {WritePlan(g2, h0)}
       [] u = u2 -> {ReadPlan(g1), BigRecPlan(h0),
                     SplitPlan(g3, g1, h0), MergePlan(g1, g3, h0)}
       [] u = u3 -> {ReadPlan(g1), SelectPlan(g2)}]
=============================================================================
