------------------------- MODULE LockService_proofs -------------------------
(* The lock service keeps its promise whatever the users, records and files *)
(* are.  LSExclusive is inductive together with LSTypeOK.                   *)
EXTENDS LockService, TLAPS

(* Every step of the service leaves well-typed locks (op_lock.c: who holds  *)
(* which record, and which file).                                           *)
THEOREM LSTypeCorrect == LSSpec => []LSTypeOK
<1>1. LSInit => LSTypeOK
  BY DEF LSInit, LSTypeOK
<1>2. LSTypeOK /\ [LSNext]_lsvars => LSTypeOK'
  <2> SUFFICES ASSUME LSTypeOK, [LSNext]_lsvars PROVE LSTypeOK'
    OBVIOUS
  <2>1. ASSUME NEW u \in Users, NEW r \in Recs, NEW m \in Modes, Grant(u, r, m)
        PROVE LSTypeOK'
    BY <2>1 DEF LSTypeOK, Grant
  <2>2. ASSUME NEW u \in Users, NEW f \in Files, GrantFile(u, f) PROVE LSTypeOK'
    BY <2>2 DEF LSTypeOK, GrantFile
  <2>3. CASE GiveBack
    BY <2>3 DEF LSTypeOK, GiveBack
  <2>4. CASE UNCHANGED lsvars
    BY <2>4 DEF LSTypeOK, lsvars
  <2> QED
    BY <2>1, <2>2, <2>3, <2>4 DEF LSNext
<1> QED
  BY <1>1, <1>2, PTL DEF LSSpec

(* Every step of the service keeps its locks exclusive.                     *)
LEMMA ExclusiveStep ==
  ASSUME FileOf \in [Recs -> Files], LSTypeOK, LSExclusive, [LSNext]_lsvars
  PROVE  LSExclusive'
<1>1. ASSUME NEW u \in Users, NEW r \in Recs, NEW m \in Modes, Grant(u, r, m)
      PROVE LSExclusive'
  <2> DEFINE new == [owner |-> u, rec |-> r, mode |-> m]
  <2>1. held' = {h \in held : h.owner # u \/ h.rec # r} \cup {new}
    BY <1>1 DEF Grant
  <2>2. ASSUME NEW h \in held', h # new, h.rec = r
        PROVE h.owner # u /\ h.mode = "shared" /\ m = "shared"
    BY <2>1, <2>2, <1>1 DEF Grant, Compatible
  <2>3. ASSUME NEW h \in held' PROVE fheld'[FileOf[h.rec]] \in {NoUser, h.owner}
    BY <2>1, <2>3, <1>1 DEF Grant, Compatible, LSExclusive
  <2>4. new.owner = u /\ new.rec = r /\ new.mode = m
    OBVIOUS
  <2>5. ASSUME NEW h \in held', NEW k \in held', h.rec = k.rec, h # k
        PROVE h.owner # k.owner /\ h.mode = "shared" /\ k.mode = "shared"
    <3>1. CASE h = new
      BY <3>1, <2>2, <2>4, <2>5
    <3>2. CASE k = new
      BY <3>2, <2>2, <2>4, <2>5
    <3>3. CASE h # new /\ k # new
      BY <3>3, <2>1, <2>5 DEF LSExclusive
    <3> QED
      BY <3>1, <3>2, <3>3
  <2> QED
    BY <2>3, <2>5 DEF LSExclusive
<1>2. ASSUME NEW u \in Users, NEW f \in Files, GrantFile(u, f) PROVE LSExclusive'
  <2>1. ASSUME NEW h \in held PROVE fheld'[FileOf[h.rec]] \in {NoUser, h.owner}
    BY <1>2 DEF GrantFile, LSExclusive, LSTypeOK
  <2> QED
    BY <1>2, <2>1 DEF GrantFile, LSExclusive
<1>3. CASE GiveBack
  <2>1. held' \subseteq held
    BY <1>3 DEF GiveBack
  <2>2. \A f \in Files : fheld'[f] \in {NoUser, fheld[f]}
    BY <1>3 DEF GiveBack
  <2>3. \A h \in held : FileOf[h.rec] \in Files
    BY DEF LSTypeOK
  <2> QED
    BY <2>1, <2>2, <2>3 DEF LSExclusive
<1>4. CASE UNCHANGED lsvars
  BY <1>4 DEF LSExclusive, lsvars
<1> QED
  BY <1>1, <1>2, <1>3, <1>4 DEF LSNext

(* No behaviour of the service lets two users past each other: the locks of *)
(* lock_record and op_filelock exclude as the programs expect.              *)
THEOREM LSExclusion ==
  ASSUME FileOf \in [Recs -> Files]
  PROVE  LSSpec => []LSExclusive
<1>1. LSInit => LSExclusive
  BY DEF LSInit, LSExclusive
<1>2. LSTypeOK /\ LSExclusive /\ [LSNext]_lsvars => LSExclusive'
  BY ExclusiveStep
<1> QED
  BY <1>1, <1>2, LSTypeCorrect, PTL DEF LSSpec
=============================================================================
