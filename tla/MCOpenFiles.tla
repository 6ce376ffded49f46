----------------------------- MODULE MCOpenFiles -----------------------------
(* Bounds for the runs of OpenFiles: f1 is opened twice, updated and         *)
(* reserved, f2 shares the file table and the cache of s2 with it.           *)
EXTENDS OpenFiles, TLC
CONSTANTS s1, s2, f1, f2

WantedBy == [s \in Sessions |-> IF s = s2 THEN Files ELSE {f1}]
OpensOf == [f \in Files |-> IF f = f1 THEN 2 ELSE 1]
UpdatesOf == [f \in Files |-> IF f = f1 THEN 1 ELSE 0]
=============================================================================
