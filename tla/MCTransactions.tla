--------------------------- MODULE MCTransactions ---------------------------
(* Constants for the runs of Transactions: one or two sessions, two records *)
(* in one file or in two.                                                   *)
EXTENDS Transactions, TLC

CONSTANTS s1, s2, f1, f2, r1, r2, va, vb

OneFile == [r \in Recs |-> f1]
R2InF2 == [r \in Recs |-> IF r = r2 THEN f2 ELSE f1]
One == [s \in Sessions |-> 1]
Two == [s \in Sessions |-> 2]
Three == [s \in Sessions |-> 3]
TwoOne == [s \in Sessions |-> IF s = s1 THEN 2 ELSE 1]
TwoNone == [s \in Sessions |-> IF s = s1 THEN 2 ELSE 0]
OneNone == [s \in Sessions |-> IF s = s1 THEN 1 ELSE 0]
SymmetricSessions == Permutations(Sessions)
SymmetricRecs == Permutations(Recs)
=============================================================================
