--------------------------- MODULE MCRecordLocks ---------------------------
(* Constants for the runs of RecordLocks: at most two files with two records *)
(* and two openings of the first file.  HashOf makes records collide.        *)
EXTENDS RecordLocks, TLC

CONSTANTS u1, u2, u3, f1, f2, r1, r2, r3, v1, v2, v3

OneFile == [r \in Recs |-> f1]
R3InF2 == [r \in Recs |-> IF r = r3 THEN f2 ELSE f1]
AllCollide == [r \in Recs |-> 1]
LastCell == [r \in Recs |-> NumLocks]
FvarsOfF1 == [v \in Fvars |-> f1]
V3OfF2 == [v \in Fvars |-> IF v = v3 THEN f2 ELSE f1]
SymmetricUsers == Permutations(Users)
=============================================================================
