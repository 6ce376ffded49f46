------------------------- MODULE RecordLocks_proofs -------------------------
(* Invariants of RecordLocks for any sessions, files, records, hash function *)
(* and size of the lock table.                                              *)
EXTENDS RecordLocks, FiniteSetTheorems, SequenceTheorems, WellFoundedInduction, TLAPS

-----------------------------------------------------------------------------
(* The cyclic walk.                                                         *)

(* A set of natural numbers that is not empty has a least element.          *)
LEMMA LeastNat ==
  ASSUME NEW T \in SUBSET Nat, T # {}
  PROVE  \E x \in T : \A y \in T : x <= y
<1> DEFINE R == {p \in Nat \X Nat : p[1] < p[2]}
<1>1. IsWellFoundedOn(R, Nat)
  BY NatLessThanWellFounded DEF OpToRel
<1>2. \E x \in T : \A y \in T : ~(<<y, x>> \in R)
  <2> HIDE DEF R
  <2> QED
    BY <1>1, WFMin
<1>3. PICK x \in T : \A y \in T : ~(<<y, x>> \in R)
  BY <1>2
<1>4. ASSUME NEW y \in T, y < x PROVE FALSE
  <2>1. <<y, x>> \in R
    BY <1>4
  <2> QED
    BY <2>1, <1>3
<1>5. \A y \in T : y \in Nat /\ x \in Nat
  OBVIOUS
<1> QED
  BY <1>4, <1>5

(* Some cell of a set that is not empty is the first one the scan of        *)
(* lock_record meets.                                                       *)
LEMMA FirstIsThere ==
  ASSUME NEW h \in Cells, NEW S \in SUBSET Cells, S # {}
  PROVE  First(h, S) \in S
<1>0. \A c \in S : c \in Nat
  BY ConstantsAssumption DEF Cells
<1>h. h \in Nat
  BY ConstantsAssumption DEF Cells
<1>1. CASE \E c \in S : c >= h
  <2> DEFINE T == {c \in S : c >= h}
  <2>a. T \in SUBSET Nat
    BY <1>0
  <2>b. T # {}
    BY <1>1
  <2> HIDE DEF T
  <2>1. PICK x \in T : \A y \in T : x <= y
    BY <2>a, <2>b, LeastNat
  <2> USE DEF T
  <2>2. \A b \in S \ {x} : Before(h, x, b)
    BY <2>1, <1>0, <1>h DEF Before
  <2> QED
    BY <2>1, <2>2 DEF First
<1>2. CASE ~ \E c \in S : c >= h
  <2>1. PICK x \in S : \A y \in S : x <= y
    BY <1>0, LeastNat
  <2>2. \A b \in S \ {x} : Before(h, x, b)
    BY <2>1, <1>2, <1>0, <1>h DEF Before
  <2> QED
    BY <2>1, <2>2 DEF First
<1> QED
  BY <1>1, <1>2

(* The table has finitely many cells.                                       *)
LEMMA CellsFinite == IsFiniteSet(Cells)
  BY FS_Interval, ConstantsAssumption DEF Cells

(* So every set of locks of the table can be counted.                       *)
LEMMA UsedFinite == \A S \in SUBSET Used : IsFiniteSet(S) /\ Cardinality(S) \in Nat
  BY CellsFinite, FS_Subset, FS_CardinalityType DEF Used

(* A cell in use holds a lock.                                              *)
LEMMA UsedIsLock ==
  ASSUME TypeOK
  PROVE  /\ \A c \in Used : c \in Cells /\ cell[c] \in Lock
         /\ \A c \in Cells : c \notin Used => cell[c] = NoLock
  BY DEF TypeOK, Used

(* The scan sees every lock of its hash cell, as long as the count of the   *)
(* hash cell is exact.                                                      *)
LEMMA SeesAll ==
  ASSUME TypeOK, NEW h \in Cells, count[h] = Cardinality(HashCells(h))
  PROVE  Seen(h) = HashCells(h)
<1> SUFFICES ASSUME NEW c \in HashCells(h)
             PROVE  Cardinality({b \in HashCells(h) : Before(h, b, c)}) < count[h]
  BY DEF Seen
<1> DEFINE H == HashCells(h)
           P == {b \in H : Before(h, b, c)}
<1>1. IsFiniteSet(H) /\ Cardinality(H) \in Nat
  BY UsedFinite DEF HashCells
<1>2. P \in SUBSET H
  OBVIOUS
<1>3. IsFiniteSet(P) /\ Cardinality(P) \in Nat /\ Cardinality(P) <= Cardinality(H)
  BY <1>1, <1>2, FS_Subset, FS_CardinalityType
<1>4. c \notin P
  BY ConstantsAssumption DEF Before, HashCells, Used, Cells
<1>5. Cardinality(P) # Cardinality(H)
  BY <1>1, <1>2, <1>4, FS_Subset
<1> QED
  BY <1>1, <1>3, <1>5

-----------------------------------------------------------------------------
(* Type correctness.                                                        *)

(* What is released is in use: the sets of cells the statements give up.    *)
LEMMA ReleasedAreUsed ==
  ASSUME TypeOK
  PROVE  /\ \A u, r : Mine(u, r) \subseteq Used
         /\ \A u, fvs : FvarCells(u, fvs) \subseteq Used
         /\ \A u : TxnCells(u) \subseteq Used
  BY DEF Mine, Entries, Seen, HashCells, FvarCells, TxnCells

(* Giving locks up leaves every table typed.                                *)
LEMMA GiveUpType ==
  ASSUME TypeOK, NEW S \in SUBSET Used, NEW FS, NEW quit, GiveUp(S, FS, quit)
  PROVE  /\ cell' \in [Cells -> Lock \cup {NoLock}]
         /\ count' \in [Cells -> Int] /\ waiters' \in [Cells -> Int]
         /\ rlCount' \in Int /\ lockCount' \in [Files -> Int]
         /\ flock' \in [Files -> FileLock \cup {NoLock}]
         /\ wait' \in [Users -> WaitTargets]
<1>1. cell' \in [Cells -> Lock \cup {NoLock}]
  BY DEF GiveUp, FreeCells, TypeOK
<1>2. count' \in [Cells -> Int]
  <2> DEFINE n == [h \in Cells |-> Cardinality(S \cap HashCells(h))]
  <2>1. \A h \in Cells : n[h] \in Int
    BY UsedFinite
  <2>2. count' = [h \in Cells |-> count[h] - n[h]]
    BY DEF GiveUp, FreeCells
  <2>3. \A h \in Cells : count[h] \in Int
    BY DEF TypeOK
  <2> HIDE DEF n
  <2> QED
    BY <2>1, <2>2, <2>3
<1>3. waiters' \in [Cells -> Int]
  <2> DEFINE n == [c \in Cells |-> Cardinality(Waiting(c) \cap (Woken(S, FS) \cup quit))]
  <2>1. ASSUME NEW c \in Cells PROVE n[c] \in Int
    <3>1. IsFiniteSet(Waiting(c))
      BY ConstantsAssumption, FS_Subset DEF Waiting
    <3> QED
      BY <3>1, FS_Intersection, FS_CardinalityType
  <2>2. waiters' = [c \in Cells |-> waiters[c] - n[c]]
    BY DEF GiveUp, ClearWaits
  <2>3. \A c \in Cells : waiters[c] \in Int
    BY DEF TypeOK
  <2> HIDE DEF n
  <2> QED
    BY <2>1, <2>2, <2>3
<1>4. rlCount' \in Int
  BY UsedFinite DEF GiveUp, FreeCells, TypeOK
<1>5. lockCount' \in [Files -> Int]
  <2> DEFINE n == [f \in Files |-> Cardinality({c \in S : FileOf[cell[c].rec] = f})]
  <2>1. \A f \in Files : n[f] \in Int
    BY UsedFinite
  <2>2. lockCount' = [f \in Files |-> lockCount[f] - n[f]]
    BY DEF GiveUp, FreeCells
  <2>3. \A f \in Files : lockCount[f] \in Int
    BY DEF TypeOK
  <2> HIDE DEF n
  <2> QED
    BY <2>1, <2>2, <2>3
<1>6. flock' \in [Files -> FileLock \cup {NoLock}]
  BY DEF GiveUp, TypeOK
<1>7. wait' \in [Users -> WaitTargets]
  BY DEF GiveUp, ClearWaits, TypeOK, WaitTargets
<1> QED
  BY <1>1, <1>2, <1>3, <1>4, <1>5, <1>6, <1>7

(* Dropping the newest entries of a local lock table leaves it typed.       *)
LEMMA DropLltType ==
  ASSUME TypeOK, NEW u \in Users, NEW S, DropLlt(u, S)
  PROVE  llt' \in [Users -> [Recs -> Seq(Fvars)]]
<1> DEFINE after == [r \in Recs |-> IF (\E c \in S : cell[c].rec = r) /\ llt[u][r] # <<>>
                                      THEN Tail(llt[u][r]) ELSE llt[u][r]]
<1>1. \A r \in Recs : llt[u][r] \in Seq(Fvars)
  BY DEF TypeOK
<1>2. after \in [Recs -> Seq(Fvars)]
  BY <1>1, HeadTailProperties
<1>3. llt' = [llt EXCEPT ![u] = after]
  BY DEF DropLlt
<1> QED
  BY <1>2, <1>3 DEF TypeOK

(* A wait that is recorded is one of a cell or of a file.                   *)
LEMMA RefusedType ==
  ASSUME TypeOK, NEW u \in Users, NEW req \in Procs, NEW nw \in BOOLEAN,
         NEW target \in WaitTargets, Refused(u, req, nw, target)
  PROVE  TypeOK'
<1>1. proc' \in [Users -> Procs]
  BY DEF Refused, TypeOK, Procs, ReadyState
<1>2. wait' \in [Users -> WaitTargets] /\ waiters' \in [Cells -> Int]
  <2>1. CASE nw \/ wait[u] # NoWait
    BY <2>1 DEF Refused, TypeOK
  <2>2. CASE ~(nw \/ wait[u] # NoWait)
    <3>1. wait' = [wait EXCEPT ![u] = target]
      BY <2>2 DEF Refused
    <3>2. waiters' = [c \in Cells |->
                 IF target = <<"cell", c>> THEN waiters[c] + 1 ELSE waiters[c]]
      BY <2>2 DEF Refused
    <3> QED
      BY <3>1, <3>2 DEF TypeOK
  <2> QED
    BY <2>1, <2>2
<1> QED
  BY <1>1, <1>2 DEF Refused, TypeOK, session

(* Commit, rollback and abort leave every table typed.                      *)
LEMMA LeaveTxnType ==
  ASSUME TypeOK, NEW u \in Users, NEW quit, LeaveTxn(u, quit),
         proc' \in [Users -> Procs]
  PROVE  TypeOK'
<1> DEFINE S == FvarCells(u, closing[u])
           T == S \cup (IF txn[u] # 0 THEN TxnCells(u) ELSE {})
           FS == FvarFileLocks(u, closing[u])
                 \cup (IF txn[u] # 0 THEN TxnFileLocks(u) ELSE {})
<1>1. GiveUp(T, FS, quit) /\ DropLlt(u, S)
  BY DEF LeaveTxn
<1>2. T \in SUBSET Used
  BY ReleasedAreUsed
<1> HIDE DEF S, T, FS
<1>3. llt' \in [Users -> [Recs -> Seq(Fvars)]]
  BY <1>1, DropLltType
<1>4. /\ txn' = [txn EXCEPT ![u] = 0] /\ closing' = [closing EXCEPT ![u] = {}]
      /\ UNCHANGED <<nextTxn, open, rebuild>>
  BY DEF LeaveTxn
<1>5. 0 \in 0 .. MaxTxn
  BY ConstantsAssumption
<1> QED
  BY <1>1, <1>2, <1>3, <1>4, <1>5, GiveUpType DEF TypeOK

(* The cell lock_record blames for a refusal, and the one it takes for a    *)
(* new lock, are cells of the table.                                        *)
LEMMA BlockerIsUsed ==
  ASSUME TypeOK, NEW u, NEW r \in Recs, NEW m, Conflicts(u, r, m) # {}
  PROVE  Blocker(u, r, m) \in Conflicts(u, r, m) /\ Blocker(u, r, m) \in Used
<1>1. Conflicts(u, r, m) \in SUBSET Cells /\ Conflicts(u, r, m) \in SUBSET Used
  BY DEF Conflicts, Entries, Seen, HashCells, Used
<1>2. HashOf[r] \in Cells
  BY ConstantsAssumption
<1> QED
  BY <1>1, <1>2, FirstIsThere DEF Blocker

(* What lock_record leaves is typed.                                        *)
LEMMA LockRecordType ==
  ASSUME TypeOK, NEW u \in Users, LockRecord(u)
  PROVE  TypeOK'
<1> PICK fv \in Fvars, r \in Recs, m \in {"update", "shared"}, nw \in BOOLEAN :
      \/ RefusedByFileLock(u, fv, r, m, nw)
      \/ Relock(u, fv, r, m, nw)
      \/ RefusedByRecord(u, fv, r, m, nw)
      \/ DeadlockFound(u, fv, r, m, nw)
      \/ ScanCircles(u, fv, r, m, nw)
      \/ Upgrade(u, fv, r, m, nw)
      \/ TableFull(u, fv, r, m, nw)
      \/ NewLock(u, fv, r, m, nw)
  BY DEF LockRecord, Ask
<1>r. RecordReq(fv, r, m) \in Procs
  BY DEF RecordReq, Procs
<1>s. [at |-> "scan"] \in Procs /\ ReadyState \in Procs
  BY DEF Procs, ReadyState
<1>t. TxnFor(u, fv) \in 0 .. MaxTxn
  BY ConstantsAssumption DEF TxnFor, TypeOK
<1>m. Mine(u, r) \in SUBSET Used
  BY ReleasedAreUsed
<1>g. Granted(u) => wait' \in [Users -> WaitTargets] /\ proc' \in [Users -> Procs]
  BY <1>s DEF Granted, TypeOK, WaitTargets
<1>1. CASE RefusedByFileLock(u, fv, r, m, nw)
  <2>1. <<"file", FileOf[r]>> \in WaitTargets
    BY ConstantsAssumption DEF WaitTargets
  <2> QED
    BY <1>1, <1>r, <2>1, RefusedType DEF RefusedByFileLock
<1>2. CASE Relock(u, fv, r, m, nw)
  <2>1. PICK c \in Mine(u, r) :
          cell' = [cell EXCEPT ![c].mode = m, ![c].fvar = fv, ![c].txn = TxnFor(u, fv)]
    BY <1>2 DEF Relock
  <2>2. c \in Cells /\ cell[c] \in Lock
    BY <1>m, UsedIsLock
  <2>3. cell' \in [Cells -> Lock \cup {NoLock}]
    BY <2>1, <2>2, <1>t DEF TypeOK, Lock
  <2> QED
    BY <1>2, <1>g, <2>3 DEF Relock, TypeOK, session
<1>3. CASE RefusedByRecord(u, fv, r, m, nw)
  <2>1. Blocker(u, r, m) \in Cells
    BY <1>3, BlockerIsUsed DEF RefusedByRecord, Blocked, Used
  <2>2. <<"cell", Blocker(u, r, m)>> \in WaitTargets
    BY <2>1 DEF WaitTargets
  <2> QED
    BY <1>3, <1>r, <2>2, RefusedType DEF RefusedByRecord
<1>4. CASE DeadlockFound(u, fv, r, m, nw)
  <2>1. proc' \in [Users -> Procs]
    BY <1>4, <1>s DEF DeadlockFound, TypeOK
  <2> QED
    BY <1>4, <2>1, LeaveTxnType DEF DeadlockFound
<1>5. CASE ScanCircles(u, fv, r, m, nw)
  BY <1>5, <1>s DEF ScanCircles, TypeOK, shared, session
<1>6. CASE Upgrade(u, fv, r, m, nw)
  <2>1. PICK c \in Mine(u, r) : cell' = [cell EXCEPT ![c].mode = "update"]
    BY <1>6 DEF Upgrade
  <2>2. c \in Cells /\ cell[c] \in Lock
    BY <1>m, UsedIsLock
  <2>3. cell' \in [Cells -> Lock \cup {NoLock}]
    BY <2>1, <2>2 DEF TypeOK, Lock
  <2> QED
    BY <1>6, <1>g, <2>3 DEF Upgrade, TypeOK, session
<1>7. CASE TableFull(u, fv, r, m, nw)
  BY <1>7, <1>r, <1>s DEF TableFull, TypeOK, shared, session, WaitTargets
<1>8. CASE NewLock(u, fv, r, m, nw)
  <2> DEFINE c == First(HashOf[r], Cells \ Used)
             new == [owner |-> u, rec |-> r, mode |-> m, fvar |-> fv,
                     txn |-> TxnFor(u, fv)]
  <2>1. new \in Lock
    BY <1>t DEF Lock
  <2>2. cell' \in [Cells -> Lock \cup {NoLock}]
    <3>1. cell' = [cell EXCEPT ![c] = new]
      BY <1>8 DEF NewLock
    <3> HIDE DEF new, c
    <3> QED
      BY <2>1, <3>1 DEF TypeOK
  <2>3. count' \in [Cells -> Int]
    <3>1. count' = [count EXCEPT ![HashOf[r]] = count[HashOf[r]] + 1]
      BY <1>8 DEF NewLock
    <3>2. \A h \in Cells : count[h] \in Int /\ count[h] + 1 \in Int
      BY DEF TypeOK
    <3>3. count \in [Cells -> Int] /\ HashOf[r] \in Cells
      BY ConstantsAssumption DEF TypeOK
    <3> QED
      BY <3>1, <3>2, <3>3
  <2>4. waiters' \in [Cells -> Int]
    <3>1. waiters' = [waiters EXCEPT ![c] = 0]
      BY <1>8 DEF NewLock
    <3>2. waiters \in [Cells -> Int] /\ 0 \in Int
      BY DEF TypeOK
    <3> HIDE DEF c
    <3> QED
      BY <3>1, <3>2
  <2>5. lockCount' \in [Files -> Int] /\ rlCount' \in Int
    <3>1. lockCount' = [lockCount EXCEPT ![FileOf[r]] = lockCount[FileOf[r]] + 1]
      BY <1>8 DEF NewLock
    <3>2. FileOf[r] \in Files /\ lockCount[FileOf[r]] + 1 \in Int
      BY ConstantsAssumption DEF TypeOK
    <3>3. rlCount' = rlCount + 1
      BY <1>8 DEF NewLock
    <3> QED
      BY <3>1, <3>2, <3>3 DEF TypeOK
  <2>6. llt' \in [Users -> [Recs -> Seq(Fvars)]]
    <3>1. llt[u][r] \in Seq(Fvars)
      BY DEF TypeOK
    <3>2. <<fv>> \o llt[u][r] \in Seq(Fvars)
      BY <3>1, ConcatProperties
    <3>3. llt' = [llt EXCEPT ![u][r] = <<fv>> \o llt[u][r]]
      BY <1>8 DEF NewLock
    <3> QED
      BY <3>2, <3>3 DEF TypeOK
  <2>7. UNCHANGED <<flock, rebuild, txn, nextTxn, open, closing>> /\ Granted(u)
    BY <1>8 DEF NewLock, session
  <2> QED
    BY <1>g, <2>2, <2>3, <2>4, <2>5, <2>6, <2>7 DEF TypeOK
<1> QED
  BY <1>1, <1>2, <1>3, <1>4, <1>5, <1>6, <1>7, <1>8

(* What FILELOCK, FILEUNLOCK, RELEASE, CLOSE, a write and the statements of *)
(* a transaction leave is typed.                                            *)
LEMMA StatementType ==
  ASSUME TypeOK, NEW u \in Users, Statement(u)
  PROVE  TypeOK'
<1>f. \A v \in Fvars : FvarFile[v] \in Files
  BY ConstantsAssumption
<1>r. ReadyState \in Procs
  BY DEF ReadyState, Procs
<1>p. \A fv \in Fvars : /\ FileReq(fv) \in Procs
                        /\ [at |-> "flunlock", fvar |-> fv] \in Procs
                        /\ [at |-> "close", fvar |-> fv] \in Procs
                        /\ [at |-> "unlock", fvar |-> fv] \in Procs
  BY DEF FileReq, Procs
<1>1. CASE LockRecord(u)
  BY <1>1, LockRecordType
<1>2. ASSUME NEW fv \in Fvars, NEW nw \in BOOLEAN, LockFile(u, fv, nw)
      PROVE TypeOK'
  <2>1. flock' \in [Files -> FileLock \cup {NoLock}]
    <3> DEFINE f == FvarFile[fv]
    <3>1. CASE FlOwner(f) = u /\ flock' = [flock EXCEPT ![f].txn = txn[u]]
      <4>1. flock[f] # NoLock
        BY <3>1, ConstantsAssumption DEF FlOwner
      <4>2. flock[f] \in FileLock
        BY <4>1, <1>f DEF TypeOK
      <4>3. [flock[f] EXCEPT !.txn = txn[u]] \in FileLock
        BY <4>2 DEF FileLock, TypeOK
      <4> QED
        BY <3>1, <4>3, <1>f DEF TypeOK
    <3>2. CASE flock' = [flock EXCEPT ![f] = [owner |-> u, fvar |-> fv, txn |-> txn[u]]]
      <4>1. [owner |-> u, fvar |-> fv, txn |-> txn[u]] \in FileLock
        BY DEF FileLock, TypeOK
      <4> QED
        BY <3>2, <4>1, <1>f DEF TypeOK
    <3> QED
      BY <1>2, <3>1, <3>2 DEF LockFile
  <2> QED
    BY <1>2, <2>1, <1>r DEF LockFile, Granted, TypeOK, session, WaitTargets
<1>3. ASSUME NEW fv \in Fvars, NEW nw \in BOOLEAN, FileLockRefused(u, fv, nw)
      PROVE TypeOK'
  <2>1. <<"file", FvarFile[fv]>> \in WaitTargets /\ NoWait \in WaitTargets
    BY <1>f DEF WaitTargets
  <2> QED
    BY <1>3, <2>1, <1>r, <1>p DEF FileLockRefused, TypeOK, shared, session
<1>4. ASSUME NEW fv \in Fvars, NEW r \in Recs, ReleaseRecord(u, fv, r)
      PROVE TypeOK'
  <2>1. GiveUp(Mine(u, r), {}, {}) /\ DropLlt(u, Mine(u, r))
    BY <1>4 DEF ReleaseRecord
  <2>2. llt' \in [Users -> [Recs -> Seq(Fvars)]]
    BY <2>1, DropLltType
  <2> QED
    BY <1>4, <2>1, <2>2, ReleasedAreUsed, GiveUpType DEF ReleaseRecord, TypeOK, session
<1>5. ASSUME NEW fv \in Fvars, NEW r \in Recs, WriteStart(u, fv, r)
      PROVE TypeOK'
  <2>1. [at |-> "write", fvar |-> fv, rec |-> r] \in Procs
    BY DEF Procs
  <2> QED
    BY <1>5, <2>1 DEF WriteStart, TypeOK, shared, session
<1>6. ASSUME NEW fv \in Fvars, FlunlockTest(u, fv) \/ CloseTest(u, fv)
      PROVE TypeOK'
  BY <1>6, <1>p DEF FlunlockTest, CloseTest, TypeOK, shared, session
<1>7. ASSUME NEW fv \in Fvars, ReleaseFile(u, fv) PROVE TypeOK'
  <2>1. GiveUp(FvarCells(u, {fv}), FvarFileLocks(u, {fv}), {})
        /\ DropLlt(u, FvarCells(u, {fv}))
    BY <1>7 DEF ReleaseFile
  <2>2. llt' \in [Users -> [Recs -> Seq(Fvars)]]
    BY <2>1, DropLltType
  <2> QED
    BY <1>7, <2>1, <2>2, ReleasedAreUsed, GiveUpType DEF ReleaseFile, TypeOK, session
<1>8. ASSUME NEW fv \in Fvars, CloseLater(u, fv) \/ Reopen(u, fv) PROVE TypeOK'
  <2>1. PICK O \in SUBSET Fvars, C \in SUBSET Fvars :
          open' = [open EXCEPT ![u] = O] /\ closing' = [closing EXCEPT ![u] = C]
    <3>1. open[u] \in SUBSET Fvars /\ closing[u] \in SUBSET Fvars
      BY DEF TypeOK
    <3>2. /\ open[u] \ {fv} \in SUBSET Fvars /\ open[u] \cup {fv} \in SUBSET Fvars
          /\ closing[u] \ {fv} \in SUBSET Fvars /\ closing[u] \cup {fv} \in SUBSET Fvars
      BY <3>1
    <3> QED
      BY <1>8, <3>2 DEF CloseLater, Reopen
  <2>2. UNCHANGED <<shared, wait, rebuild, llt, txn, nextTxn, proc>>
    BY <1>8 DEF CloseLater, Reopen
  <2> QED
    BY <2>1, <2>2 DEF TypeOK, shared
<1>9. ASSUME NEW fv \in Fvars, Close(u, fv) PROVE TypeOK'
  <2>1. GiveUp(FvarCells(u, {fv}), FvarFileLocks(u, {fv}), {})
        /\ DropLlt(u, FvarCells(u, {fv}))
    BY <1>9 DEF Close
  <2>2. llt' \in [Users -> [Recs -> Seq(Fvars)]]
    BY <2>1, DropLltType
  <2>3. /\ open' = [open EXCEPT ![u] = @ \ {fv}]
        /\ proc' = [proc EXCEPT ![u] = ReadyState]
        /\ UNCHANGED <<rebuild, txn, nextTxn, closing>>
    BY <1>9 DEF Close
  <2> QED
    BY <2>1, <2>2, <2>3, <1>r, ReleasedAreUsed, GiveUpType DEF TypeOK
<1>10. CASE ReleaseAll(u)
  <2>1. GiveUp(FvarCells(u, Fvars), FvarFileLocks(u, Fvars), {})
        /\ DropLlt(u, FvarCells(u, Fvars))
    BY <1>10 DEF ReleaseAll
  <2>2. llt' \in [Users -> [Recs -> Seq(Fvars)]]
    BY <2>1, DropLltType
  <2> QED
    BY <1>10, <2>1, <2>2, ReleasedAreUsed, GiveUpType DEF ReleaseAll, TypeOK, session
<1>11. CASE Flunlock(u)
  <2>1. {} \in SUBSET Used /\ GiveUp({}, {FvarFile[proc[u].fvar]}, {})
    BY <1>11 DEF Flunlock
  <2> QED
    BY <1>11, <2>1, <1>r, GiveUpType DEF Flunlock, TypeOK, session
<1>12. CASE CloseFileLock(u)
  <2>1. {} \in SUBSET Used /\ GiveUp({}, {FvarFile[proc[u].fvar]}, {})
    BY <1>12 DEF CloseFileLock
  <2>2. proc[u] \in Procs /\ proc[u].at = "close"
    BY <1>12 DEF CloseFileLock, TypeOK
  <2>3. proc[u].fvar \in Fvars
    BY <2>2 DEF Procs
  <2>4. proc' \in [Users -> Procs]
    BY <1>12, <2>3, <1>p DEF CloseFileLock, TypeOK
  <2> QED
    BY <1>12, <2>1, <2>4, GiveUpType DEF CloseFileLock, TypeOK, session
<1>13. ASSUME NEW keep \in BOOLEAN, WriteEnd(u, keep) PROVE TypeOK'
  <2>1. PICK S \in SUBSET Used : GiveUp(S, {}, {}) /\ DropLlt(u, S)
    <3>1. Mine(u, proc[u].rec) \in SUBSET Used /\ {} \in SUBSET Used
      BY ReleasedAreUsed
    <3> QED
      BY <1>13, <3>1 DEF WriteEnd
  <2>2. llt' \in [Users -> [Recs -> Seq(Fvars)]]
    BY <2>1, DropLltType
  <2>3. proc' = [proc EXCEPT ![u] = ReadyState] /\ UNCHANGED <<rebuild, session>>
    BY <1>13 DEF WriteEnd
  <2> QED
    BY <2>1, <2>2, <2>3, <1>r, GiveUpType DEF TypeOK, session
<1>14. CASE BeginTxn(u)
  <2>1. nextTxn \in 0 .. MaxTxn /\ nextTxn + 1 \in 1 .. MaxTxn + 1
    BY <1>14, ConstantsAssumption DEF BeginTxn, TypeOK
  <2> QED
    BY <1>14, <2>1 DEF BeginTxn, TypeOK, shared
<1>15. CASE EndTxn(u)
  <2>1. proc' \in [Users -> Procs] /\ LeaveTxn(u, {})
    BY <1>15 DEF EndTxn, TypeOK
  <2> QED
    BY <2>1, LeaveTxnType
<1> QED
  BY <1>1, <1>2, <1>3, <1>4, <1>5, <1>6, <1>7, <1>8, <1>9, <1>10, <1>11,
     <1>12, <1>13, <1>14, <1>15 DEF Statement

(* What the ways out of a wait, log out and in, a crash and its reaping and *)
(* the rebuilding of the local lock table leave is typed.                   *)
LEMMA SessionEventType ==
  ASSUME TypeOK, NEW u \in Users, SessionEvent(u)
  PROVE  TypeOK'
<1>r. ReadyState \in Procs /\ [at |-> "gone"] \in Procs /\ [at |-> "dead"] \in Procs
  BY DEF ReadyState, Procs
<1>1. CASE AbortWait(u)
  <2>1. proc' \in [Users -> Procs]
    BY <1>1, <1>r DEF AbortWait, TypeOK
  <2> QED
    BY <1>1, <2>1, LeaveTxnType DEF AbortWait
<1>2. CASE BreakQuit(u) \/ Logout(u) \/ Crash(u)
  BY <1>2, <1>r DEF BreakQuit, Logout, Crash, TypeOK, shared, session
<1>3. CASE Login(u)
  <2>1. [r \in Recs |-> <<>>] \in [Recs -> Seq(Fvars)]
    <3>1. <<>> \in Seq(Fvars)
      OBVIOUS
    <3> QED
      BY <3>1
  <2>2. llt' \in [Users -> [Recs -> Seq(Fvars)]]
    <3>1. llt' = [llt EXCEPT ![u] = [r \in Recs |-> <<>>]]
      BY <1>3 DEF Login
    <3> QED
      BY <2>1, <3>1 DEF TypeOK
  <2>3. NoWait \in WaitTargets /\ 0 \in 0 .. MaxTxn
    BY ConstantsAssumption DEF WaitTargets
  <2>4. /\ proc' \in [Users -> Procs] /\ wait' \in [Users -> WaitTargets]
        /\ rebuild' \subseteq Users /\ txn' \in [Users -> 0 .. MaxTxn]
    BY <1>3, <1>r, <2>3 DEF Login, TypeOK
  <2>5. open' \in [Users -> SUBSET Fvars] /\ closing' \in [Users -> SUBSET Fvars]
    BY <1>3 DEF Login, TypeOK
  <2>6. UNCHANGED <<shared, nextTxn>>
    BY <1>3 DEF Login
  <2> QED
    BY <2>2, <2>4, <2>5, <2>6 DEF TypeOK, shared
<1>4. CASE Reap(u)
  <2>1. PICK S \in SUBSET Used, FS \in SUBSET Files : GiveUp(S, FS, {})
    BY <1>4 DEF Reap
  <2>2. proc' = [proc EXCEPT ![u] = [at |-> "gone"]] /\ UNCHANGED <<rebuild, llt, session>>
    BY <1>4 DEF Reap
  <2> QED
    BY <2>1, <2>2, <1>r, GiveUpType DEF TypeOK, session
<1>5. CASE RebuildLlt(u)
  <2> DEFINE newest(r) == IF OwnCells(u, r) = {} THEN <<>>
                          ELSE <<cell[CHOOSE c \in OwnCells(u, r) : TRUE].fvar>>
             list == [r \in Recs |-> newest(r)]
  <2>1. ASSUME NEW r \in Recs PROVE newest(r) \in Seq(Fvars)
    <3>1. CASE OwnCells(u, r) = {}
      BY <3>1
    <3>2. CASE OwnCells(u, r) # {}
      <4>1. PICK c \in OwnCells(u, r) : c = CHOOSE d \in OwnCells(u, r) : TRUE
        BY <3>2
      <4>2. cell[c] \in Lock
        BY <4>1, UsedIsLock DEF OwnCells
      <4>3. cell[c].fvar \in Fvars
        BY <4>2 DEF Lock
      <4> QED
        BY <3>2, <4>1, <4>3
    <3> QED
      BY <3>1, <3>2
  <2>2. llt' = [llt EXCEPT ![u] = list]
    BY <1>5 DEF RebuildLlt
  <2>3. list \in [Recs -> Seq(Fvars)]
    BY <2>1
  <2>4. llt' \in [Users -> [Recs -> Seq(Fvars)]]
    <3> HIDE DEF list
    <3> QED
      BY <2>2, <2>3 DEF TypeOK
  <2>5. rebuild' \subseteq Users /\ UNCHANGED <<shared, wait, session, proc>>
    BY <1>5 DEF RebuildLlt, TypeOK
  <2> QED
    BY <2>4, <2>5 DEF TypeOK, shared, session
<1> QED
  BY <1>1, <1>2, <1>3, <1>4, <1>5 DEF SessionEvent

(* What the UNLOCK command leaves is typed.                                 *)
LEMMA UnlockCommandType ==
  ASSUME TypeOK, NEW u \in Users, UnlockCommand(u)
  PROVE  TypeOK'
<1>1. ASSUME NEW vs, NEW rs, AdminUnlock(u, vs, rs) PROVE TypeOK'
  <2>1. PICK S \in SUBSET Used : GiveUp(S, {}, {})
    BY <1>1 DEF AdminUnlock
  <2>2. rebuild' \subseteq Users /\ UNCHANGED <<llt, session, proc>>
    BY <1>1 DEF AdminUnlock, TypeOK
  <2> QED
    BY <2>1, <2>2, GiveUpType DEF TypeOK, session
<1>2. ASSUME NEW vs, NEW fs, AdminUnlockFile(u, vs, fs) PROVE TypeOK'
  <2>1. PICK FS : GiveUp({}, FS, {})
    BY <1>2 DEF AdminUnlockFile
  <2>2. {} \in SUBSET Used /\ UNCHANGED <<rebuild, llt, session, proc>>
    BY <1>2 DEF AdminUnlockFile
  <2> QED
    BY <2>1, <2>2, GiveUpType DEF TypeOK, session
<1> QED
  BY <1>1, <1>2 DEF UnlockCommand

(* The tables are empty and typed when the kernel starts.                   *)
LEMMA InitType == Init => TypeOK
<1> SUFFICES ASSUME Init PROVE TypeOK
  OBVIOUS
<1>1. cell \in [Cells -> Lock \cup {NoLock}] /\ flock \in [Files -> FileLock \cup {NoLock}]
  BY DEF Init
<1>2. count \in [Cells -> Int] /\ waiters \in [Cells -> Int] /\ rlCount \in Int
      /\ lockCount \in [Files -> Int]
  BY DEF Init
<1>3. wait \in [Users -> WaitTargets] /\ proc \in [Users -> Procs] /\ rebuild \subseteq Users
  BY DEF Init, WaitTargets, ReadyState, Procs
<1>4. llt \in [Users -> [Recs -> Seq(Fvars)]]
  <2>1. <<>> \in Seq(Fvars)
    OBVIOUS
  <2> QED
    BY <2>1 DEF Init
<1>5. txn \in [Users -> 0 .. MaxTxn] /\ nextTxn \in 1 .. MaxTxn + 1
  BY ConstantsAssumption DEF Init
<1>6. open \in [Users -> SUBSET Fvars] /\ closing \in [Users -> SUBSET Fvars]
  BY DEF Init
<1> QED
  BY <1>1, <1>2, <1>3, <1>4, <1>5, <1>6 DEF TypeOK

(* Every step leaves the lock table, the file locks, the waits and the local *)
(* lock tables typed.                                                        *)
LEMMA TypeStep ==
  ASSUME TypeOK, [Next]_vars
  PROVE  TypeOK'
<1>1. ASSUME NEW u \in Users, Statement(u) \/ SessionEvent(u) \/ UnlockCommand(u)
      PROVE TypeOK'
  BY <1>1, StatementType, SessionEventType, UnlockCommandType
<1>2. CASE UNCHANGED vars
  BY <1>2 DEF TypeOK, vars, shared, session
<1> QED
  BY <1>1, <1>2 DEF Next

(* The state of the lock manager is always typed: every cell in use holds a *)
(* lock of a session, every wait is for a cell or a file (op_lock.c).       *)
THEOREM TypeCorrect == Spec => []TypeOK
  BY InitType, TypeStep, PTL DEF Spec
-----------------------------------------------------------------------------
(* The safety of the lock table.  CountersExact is what makes the other two *)
(* inductive: lock_record ends its scan by count, and op_filelock takes its *)
(* short cut by lock_count.                                                 *)
LockInv == CountersExact /\ RecordsExclusive /\ FileLockExclusive

(* Giving locks up keeps the counters exact and adds no lock to exclude.    *)
LEMMA ShrinkInv ==
  ASSUME TypeOK, LockInv, NEW S \in SUBSET Used, NEW FS, NEW quit, GiveUp(S, FS, quit)
  PROVE  LockInv'
<1>1. cell' = [c \in Cells |-> IF c \in S THEN NoLock ELSE cell[c]]
  BY DEF GiveUp, FreeCells
<1>2. Used' = Used \ S
  BY <1>1 DEF Used
<1>3. \A c \in Used' : c \in Used /\ cell'[c] = cell[c]
  BY <1>1, <1>2 DEF Used
<1>4. CountersExact'
  <2>1. ASSUME NEW h \in Cells PROVE count'[h] = Cardinality(HashCells(h)')
    <3> DEFINE H == HashCells(h)
    <3>1. HashCells(h)' = H \ S
      BY <1>2, <1>3 DEF HashCells
    <3>2. H \in SUBSET Used
      BY DEF HashCells
    <3>3. IsFiniteSet(H) /\ count[h] = Cardinality(H)
      BY <3>2, UsedFinite DEF LockInv, CountersExact
    <3>4. count'[h] = count[h] - Cardinality(S \cap H)
      BY DEF GiveUp, FreeCells
    <3>5. S \cap H = H \cap S
      OBVIOUS
    <3> HIDE DEF H
    <3> QED
      BY <3>1, <3>3, <3>4, <3>5, FS_Difference
  <2>2. ASSUME NEW f \in Files
        PROVE lockCount'[f] = Cardinality({c \in Used : FileOf[cell[c].rec] = f}')
    <3> DEFINE F == {c \in Used : FileOf[cell[c].rec] = f}
               G == {c \in S : FileOf[cell[c].rec] = f}
    <3>1. {c \in Used : FileOf[cell[c].rec] = f}' = F \ S
      BY <1>2, <1>3
    <3>2. F \in SUBSET Used /\ G = F \cap S
      OBVIOUS
    <3>3. IsFiniteSet(F) /\ lockCount[f] = Cardinality(F)
      BY <3>2, UsedFinite DEF LockInv, CountersExact
    <3>4. lockCount'[f] = lockCount[f] - Cardinality(G)
      BY DEF GiveUp, FreeCells
    <3> HIDE DEF F, G
    <3> QED
      BY <3>1, <3>2, <3>3, <3>4, FS_Difference
  <2>3. rlCount' = Cardinality(Used')
    <3>1. IsFiniteSet(Used) /\ rlCount = Cardinality(Used)
      BY UsedFinite DEF LockInv, CountersExact
    <3>2. rlCount' = rlCount - Cardinality(S) /\ Used \cap S = S
      BY DEF GiveUp, FreeCells
    <3> QED
      BY <1>2, <3>1, <3>2, FS_Difference
  <2> QED
    BY <2>1, <2>2, <2>3 DEF CountersExact
<1>5. RecordsExclusive'
  BY <1>3 DEF LockInv, RecordsExclusive
<1>6. FileLockExclusive'
  <2>1. ASSUME NEW c \in Used PROVE FileOf[cell[c].rec] \in Files
    BY UsedIsLock, ConstantsAssumption DEF Lock
  <2>2. \A f \in Files : FlOwner(f)' \in {NoUser, FlOwner(f)}
    BY DEF GiveUp, FlOwner
  <2> QED
    BY <1>3, <2>1, <2>2 DEF LockInv, FileLockExclusive
<1> QED
  BY <1>4, <1>5, <1>6 DEF LockInv

(* What the scan of a record sees is every lock there is on the record.     *)
LEMMA EntriesAll ==
  ASSUME TypeOK, CountersExact, NEW r \in Recs
  PROVE  \A c \in Used : cell[c].rec = r => c \in Entries(r)
<1>1. HashOf[r] \in Cells
  BY ConstantsAssumption
<1>2. Seen(HashOf[r]) = HashCells(HashOf[r])
  BY <1>1, SeesAll DEF CountersExact
<1> QED
  BY <1>2 DEF Entries, HashCells

(* A session may change its own lock to update only when it is alone on the *)
(* record: the table stays exclusive, and no counter is concerned.          *)
LEMMA ChangeInv ==
  ASSUME TypeOK, LockInv, NEW u \in Users, NEW r \in Recs, NEW c \in Mine(u, r),
         NEW new \in Lock, new.owner = u, new.rec = r,
         new.mode = "update" => \A d \in Used : cell[d].rec = r => d = c,
         cell' = [cell EXCEPT ![c] = new],
         UNCHANGED <<count, rlCount, flock, lockCount>>
  PROVE  LockInv'
<1>1. c \in Used /\ cell[c].owner = u /\ cell[c].rec = r
  BY ReleasedAreUsed DEF Mine, Entries
<1>2. new # NoLock
  BY NoLockAssumption
<1>3. Used' = Used
  BY <1>1, <1>2 DEF Used, TypeOK
<1>4. \A d \in Used : /\ cell'[d].rec = cell[d].rec /\ cell'[d].owner = cell[d].owner
                      /\ d # c => cell'[d] = cell[d]
  BY <1>1 DEF Used, TypeOK
<1>5. CountersExact'
  <2>1. \A h \in Cells : HashCells(h)' = HashCells(h)
    BY <1>3, <1>4 DEF HashCells
  <2>2. \A f \in Files : {d \in Used : FileOf[cell[d].rec] = f}'
                           = {d \in Used : FileOf[cell[d].rec] = f}
    BY <1>3, <1>4
  <2> QED
    BY <1>3, <2>1, <2>2 DEF LockInv, CountersExact
<1>6. RecordsExclusive'
  <2> SUFFICES ASSUME NEW d \in Used, NEW e \in Used, d # e, cell[d].rec = cell[e].rec
               PROVE  /\ cell'[d].owner # cell'[e].owner
                      /\ cell'[d].mode = "shared" /\ cell'[e].mode = "shared"
    BY <1>3, <1>4 DEF RecordsExclusive
  <2>1. /\ cell[d].owner # cell[e].owner
        /\ cell[d].mode = "shared" /\ cell[e].mode = "shared"
    BY DEF LockInv, RecordsExclusive
  <2>2. cell'[c] = new
    BY <1>1 DEF Used, TypeOK
  <2>3. new.mode \in {"update", "shared"}
    BY DEF Lock
  <2>4. (d = c \/ e = c) => new.mode = "shared"
    BY <1>1, <2>3
  <2> QED
    BY <1>4, <2>1, <2>2, <2>4
<1>7. FileLockExclusive'
  BY <1>3, <1>4 DEF LockInv, FileLockExclusive, FlOwner
<1> QED
  BY <1>5, <1>6, <1>7 DEF LockInv
(* Commit, rollback and abort only give locks up.                           *)
LEMMA LeaveTxnInv ==
  ASSUME TypeOK, LockInv, NEW u \in Users, NEW quit, LeaveTxn(u, quit)
  PROVE  LockInv'
<1>1. PICK S \in SUBSET Used, FS \in SUBSET Files : GiveUp(S, FS, quit)
  BY ReleasedAreUsed DEF LeaveTxn, FvarFileLocks, TxnFileLocks
<1> QED
  BY <1>1, ShrinkInv

(* A new lock goes into a free cell, past no lock that is in its way, and   *)
(* is counted once in each of the three counters.                           *)
LEMMA NewLockInv ==
  ASSUME TypeOK, LockInv, NEW u \in Users, NEW fv \in Fvars, NEW r \in Recs,
         NEW m \in {"update", "shared"}, NEW nw, NewLock(u, fv, r, m, nw)
  PROVE  LockInv'
<1> DEFINE c == First(HashOf[r], Cells \ Used)
           new == [owner |-> u, rec |-> r, mode |-> m, fvar |-> fv,
                   txn |-> TxnFor(u, fv)]
<1>1. c \in Cells \ Used
  <2>1. HashOf[r] \in Cells /\ Cells \ Used \in SUBSET Cells /\ Cells \ Used # {}
    BY ConstantsAssumption DEF NewLock, Used
  <2> QED
    BY <2>1, FirstIsThere
<1>2. new \in Lock /\ new.owner = u /\ new.rec = r /\ new.mode = m
  BY ConstantsAssumption DEF Lock, TxnFor, TypeOK
<1>3. cell' = [cell EXCEPT ![c] = new]
  BY DEF NewLock
<1>4. /\ count' = [count EXCEPT ![HashOf[r]] = count[HashOf[r]] + 1]
      /\ lockCount' = [lockCount EXCEPT ![FileOf[r]] = lockCount[FileOf[r]] + 1]
      /\ rlCount' = rlCount + 1
  BY DEF NewLock
<1>5. UNCHANGED flock
  BY DEF NewLock
<1>6. \A d \in Used : cell[d].rec = r =>
        cell[d].owner # u /\ m = "shared" /\ cell[d].mode = "shared"
  <2>1. Mine(u, r) = {} /\ Conflicts(u, r, m) = {}
    BY DEF NewLock, NoConflict
  <2>2. \A d \in Used : cell[d].rec = r => d \in Entries(r)
    BY EntriesAll DEF LockInv
  <2>3. \A d \in Used : cell[d].mode \in {"update", "shared"}
    BY UsedIsLock DEF Lock
  <2> QED
    BY <2>1, <2>2, <2>3 DEF Mine, Conflicts
<1>7. FlOwner(FileOf[r]) \in {NoUser, u}
  BY DEF NewLock, NoConflict, FileAllows
<1>8. HashOf[r] \in Cells /\ FileOf[r] \in Files
  BY ConstantsAssumption
<1> HIDE DEF c, new
<1>9. Used' = Used \cup {c} /\ cell'[c] = new /\ \A d \in Used : cell'[d] = cell[d]
  BY <1>1, <1>2, <1>3, NoLockAssumption DEF Used, TypeOK
<1>10. CountersExact'
  <2>1. ASSUME NEW h \in Cells PROVE count'[h] = Cardinality(HashCells(h)')
    <3> DEFINE H == HashCells(h)
    <3>1. H \in SUBSET Used /\ c \notin H
      BY <1>1 DEF HashCells
    <3>2. IsFiniteSet(H) /\ count[h] = Cardinality(H) /\ count[h] \in Int
      BY <3>1, UsedFinite DEF LockInv, CountersExact, TypeOK
    <3>3. CASE h = HashOf[r]
      <4>1. HashCells(h)' = H \cup {c}
        BY <1>9, <1>2, <3>3 DEF HashCells
      <4>2. count'[h] = count[h] + 1
        BY <1>4, <1>8, <3>3 DEF TypeOK
      <4> HIDE DEF H
      <4> QED
        BY <3>1, <3>2, <4>1, <4>2, FS_AddElement
    <3>4. CASE h # HashOf[r]
      <4>1. HashCells(h)' = H
        BY <1>9, <1>2, <3>4 DEF HashCells
      <4>2. count'[h] = count[h]
        BY <1>4, <3>4 DEF TypeOK
      <4> QED
        BY <3>2, <4>1, <4>2
    <3> QED
      BY <3>3, <3>4
  <2>2. ASSUME NEW f \in Files
        PROVE lockCount'[f] = Cardinality({d \in Used : FileOf[cell[d].rec] = f}')
    <3> DEFINE F == {d \in Used : FileOf[cell[d].rec] = f}
    <3>1. F \in SUBSET Used /\ c \notin F
      BY <1>1
    <3>2. IsFiniteSet(F) /\ lockCount[f] = Cardinality(F) /\ lockCount[f] \in Int
      BY <3>1, UsedFinite DEF LockInv, CountersExact, TypeOK
    <3>3. CASE f = FileOf[r]
      <4>1. {d \in Used : FileOf[cell[d].rec] = f}' = F \cup {c}
        BY <1>9, <1>2, <3>3
      <4>2. lockCount'[f] = lockCount[f] + 1
        BY <1>4, <1>8, <3>3 DEF TypeOK
      <4> HIDE DEF F
      <4> QED
        BY <3>1, <3>2, <4>1, <4>2, FS_AddElement
    <3>4. CASE f # FileOf[r]
      <4>1. {d \in Used : FileOf[cell[d].rec] = f}' = F
        BY <1>9, <1>2, <3>4
      <4>2. lockCount'[f] = lockCount[f]
        BY <1>4, <3>4 DEF TypeOK
      <4> QED
        BY <3>2, <4>1, <4>2
    <3> QED
      BY <3>3, <3>4
  <2>3. rlCount' = Cardinality(Used')
    <3>1. IsFiniteSet(Used) /\ rlCount = Cardinality(Used) /\ c \notin Used
      BY <1>1, UsedFinite DEF LockInv, CountersExact
    <3> QED
      BY <1>4, <1>9, <3>1, FS_AddElement
  <2> QED
    BY <2>1, <2>2, <2>3 DEF CountersExact
<1>11. RecordsExclusive'
  <2> SUFFICES ASSUME NEW d \in Used', NEW e \in Used', d # e,
                      cell'[d].rec = cell'[e].rec
               PROVE  /\ cell'[d].owner # cell'[e].owner
                      /\ cell'[d].mode = "shared" /\ cell'[e].mode = "shared"
    BY DEF RecordsExclusive
  <2>1. CASE d \in Used /\ e \in Used
    BY <2>1, <1>9 DEF LockInv, RecordsExclusive
  <2>2. CASE d = c /\ e \in Used
    BY <2>2, <1>2, <1>6, <1>9
  <2>3. CASE e = c /\ d \in Used
    BY <2>3, <1>2, <1>6, <1>9
  <2> QED
    BY <2>1, <2>2, <2>3, <1>9
<1>12. FileLockExclusive'
  BY <1>2, <1>5, <1>7, <1>9 DEF LockInv, FileLockExclusive, FlOwner
<1> QED
  BY <1>10, <1>11, <1>12 DEF LockInv

(* The steps that touch neither the cells, the counters nor the file locks. *)
LEMMA UnchangedInv ==
  ASSUME LockInv, UNCHANGED <<cell, count, rlCount, flock, lockCount>>
  PROVE  LockInv'
  BY DEF LockInv, CountersExact, RecordsExclusive, FileLockExclusive, HashCells,
         Used, FlOwner

(* Whatever its outcome, lock_record keeps the table exclusive.             *)
LEMMA LockRecordInv ==
  ASSUME TypeOK, LockInv, NEW u \in Users, LockRecord(u)
  PROVE  LockInv'
<1> PICK fv \in Fvars, r \in Recs, m \in {"update", "shared"}, nw \in BOOLEAN :
      \/ RefusedByFileLock(u, fv, r, m, nw)
      \/ Relock(u, fv, r, m, nw)
      \/ RefusedByRecord(u, fv, r, m, nw)
      \/ DeadlockFound(u, fv, r, m, nw)
      \/ ScanCircles(u, fv, r, m, nw)
      \/ Upgrade(u, fv, r, m, nw)
      \/ TableFull(u, fv, r, m, nw)
      \/ NewLock(u, fv, r, m, nw)
  BY DEF LockRecord, Ask
<1>a. \A d \in Used : cell[d].rec = r => d \in Entries(r)
  BY EntriesAll DEF LockInv
<1>b. \A c \in Mine(u, r) : c \in Used /\ cell[c] \in Lock
                            /\ cell[c].owner = u /\ cell[c].rec = r
  BY ReleasedAreUsed, UsedIsLock DEF Mine, Entries
<1>t. TxnFor(u, fv) \in 0 .. MaxTxn
  BY ConstantsAssumption DEF TxnFor, TypeOK
<1>1. CASE RefusedByFileLock(u, fv, r, m, nw) \/ RefusedByRecord(u, fv, r, m, nw)
  BY <1>1, UnchangedInv DEF RefusedByFileLock, RefusedByRecord, Refused
<1>2. CASE Relock(u, fv, r, m, nw)
  <2>1. PICK c \in Mine(u, r) :
          /\ cell[c].mode = "update" \/ m = "shared"
          /\ cell' = [cell EXCEPT ![c].mode = m, ![c].fvar = fv, ![c].txn = TxnFor(u, fv)]
    BY <1>2 DEF Relock
  <2> DEFINE new == [cell[c] EXCEPT !.mode = m, !.fvar = fv, !.txn = TxnFor(u, fv)]
  <2>2. new \in Lock /\ new.owner = u /\ new.rec = r /\ new.mode = m
    BY <1>b, <1>t DEF Lock
  <2>3. cell' = [cell EXCEPT ![c] = new]
    BY <2>1, <1>b DEF TypeOK, Used
  <2>4. m = "update" => \A d \in Used : cell[d].rec = r => d = c
    BY <2>1, <1>b DEF LockInv, RecordsExclusive
  <2>5. UNCHANGED <<count, rlCount, flock, lockCount>>
    BY <1>2 DEF Relock
  <2> HIDE DEF new
  <2> QED
    BY <2>2, <2>3, <2>4, <2>5, ChangeInv
<1>3. CASE DeadlockFound(u, fv, r, m, nw)
  <2>1. LeaveTxn(u, {u})
    BY <1>3 DEF DeadlockFound
  <2> QED
    BY <2>1, LeaveTxnInv
<1>4. CASE ScanCircles(u, fv, r, m, nw) \/ TableFull(u, fv, r, m, nw)
  BY <1>4, UnchangedInv DEF ScanCircles, TableFull, shared
<1>5. CASE Upgrade(u, fv, r, m, nw)
  <2>1. PICK c \in Mine(u, r) : cell' = [cell EXCEPT ![c].mode = "update"]
    BY <1>5 DEF Upgrade
  <2> DEFINE new == [cell[c] EXCEPT !.mode = "update"]
  <2>2. new \in Lock /\ new.owner = u /\ new.rec = r
    BY <1>b DEF Lock
  <2>3. cell' = [cell EXCEPT ![c] = new]
    BY <2>1, <1>b DEF TypeOK, Used
  <2>4. m = "update" /\ Conflicts(u, r, m) = {}
    BY <1>5, <2>1 DEF Upgrade, NoConflict, MustGetPast
  <2>5. ASSUME NEW d \in Used, cell[d].rec = r PROVE d = c
    <3>1. cell[d].owner = u
      BY <1>a, <2>4, <2>5 DEF Conflicts
    <3> QED
      BY <3>1, <1>b, <2>5 DEF LockInv, RecordsExclusive
  <2>6. UNCHANGED <<count, rlCount, flock, lockCount>>
    BY <1>5 DEF Upgrade
  <2> HIDE DEF new
  <2> QED
    BY <2>2, <2>3, <2>5, <2>6, ChangeInv
<1>6. CASE NewLock(u, fv, r, m, nw)
  BY <1>6, NewLockInv
<1> QED
  BY <1>1, <1>2, <1>3, <1>4, <1>5, <1>6

(* Whoever is granted FILELOCK owns the file.                               *)
LEMMA LockFileOwner ==
  ASSUME TypeOK, NEW u \in Users, NEW fv \in Fvars, NEW nw, LockFile(u, fv, nw)
  PROVE  FlOwner(FvarFile[fv])' = u
<1> DEFINE f == FvarFile[fv]
<1>f. f \in Files
  BY ConstantsAssumption
<1>1. CASE FlOwner(f) = u /\ flock' = [flock EXCEPT ![f].txn = txn[u]]
  <2>1. flock[f] # NoLock /\ flock[f] \in FileLock /\ flock[f].owner = u
    BY <1>1, <1>f, ConstantsAssumption DEF FlOwner, TypeOK
  <2>2. flock'[f] = [flock[f] EXCEPT !.txn = txn[u]]
    BY <1>1, <1>f DEF TypeOK
  <2>3. flock'[f] \in FileLock /\ flock'[f].owner = u
    BY <2>1, <2>2 DEF FileLock, TypeOK
  <2> QED
    BY <2>3, NoLockAssumption DEF FlOwner, FileLock
<1>2. CASE flock' = [flock EXCEPT ![f] = [owner |-> u, fvar |-> fv, txn |-> txn[u]]]
  <2> DEFINE new == [owner |-> u, fvar |-> fv, txn |-> txn[u]]
  <2>1. new \in FileLock /\ new.owner = u
    BY DEF FileLock, TypeOK
  <2>2. flock'[f] = new
    BY <1>2, <1>f DEF TypeOK
  <2> HIDE DEF new
  <2> QED
    BY <2>1, <2>2, NoLockAssumption DEF FlOwner, FileLock
<1> QED
  BY <1>1, <1>2 DEF LockFile

(* A file op_filelock takes for free has no record locks of others, also    *)
(* when lock_count let it leave out the scan of the table.                  *)
LEMMA FileFreeMeans ==
  ASSUME TypeOK, CountersExact, NEW u, NEW f \in Files, FileFree(u, f)
  PROVE  \A c \in Used : FileOf[cell[c].rec] = f => cell[c].owner = u
<1> SUFFICES ASSUME NEW c \in Used, FileOf[cell[c].rec] = f
             PROVE  cell[c].owner = u
  OBVIOUS
<1>1. CASE lockCount[f] = 0
  <2> DEFINE F == {d \in Used : FileOf[cell[d].rec] = f}
  <2>1. F \in SUBSET Used
    OBVIOUS
  <2>2. IsFiniteSet(F) /\ Cardinality(F) = 0
    BY <1>1, <2>1, UsedFinite DEF CountersExact
  <2>3. c \in F
    OBVIOUS
  <2> HIDE DEF F
  <2> QED
    BY <2>2, <2>3, FS_EmptySet
<1>2. CASE \A d \in Used : FileOf[cell[d].rec] = f => cell[d].owner = u
  BY <1>2
<1> QED
  BY <1>1, <1>2 DEF FileFree

(* FILELOCK is granted over no lock of another session: the counters tell   *)
(* op_filelock when it may leave out its scan of the table.                 *)
LEMMA LockFileInv ==
  ASSUME TypeOK, LockInv, NEW u \in Users, NEW fv \in Fvars, NEW nw, LockFile(u, fv, nw)
  PROVE  LockInv'
<1> DEFINE f == FvarFile[fv]
<1>f. f \in Files
  BY ConstantsAssumption
<1>1. UNCHANGED <<cell, count, rlCount, lockCount>>
  BY DEF LockFile
<1>2. CountersExact' /\ RecordsExclusive' /\ Used' = Used
  BY <1>1 DEF LockInv, CountersExact, RecordsExclusive, HashCells, Used
<1>3. \A g \in Files : g # f => FlOwner(g)' = FlOwner(g)
  BY DEF LockFile, FlOwner, TypeOK
<1>4. FlOwner(f)' = u
  BY LockFileOwner
<1>5. ASSUME NEW c \in Used, FileOf[cell[c].rec] = f PROVE cell[c].owner = u
  <2>1. CASE FlOwner(f) = u
    BY <2>1, <1>5, ConstantsAssumption DEF LockInv, FileLockExclusive
  <2>2. CASE FileFree(u, f)
    BY <2>2, <1>5, <1>f, FileFreeMeans DEF LockInv
  <2> QED
    BY <2>1, <2>2 DEF LockFile
<1>6. FileLockExclusive'
  <2> SUFFICES ASSUME NEW c \in Used
               PROVE  FlOwner(FileOf[cell[c].rec])' \in {NoUser, cell[c].owner}
    BY <1>1, <1>2 DEF FileLockExclusive
  <2>1. FileOf[cell[c].rec] \in Files /\ cell' = cell
    BY <1>1, UsedIsLock, ConstantsAssumption DEF Lock
  <2>2. FlOwner(FileOf[cell[c].rec]) \in {NoUser, cell[c].owner}
    BY DEF LockInv, FileLockExclusive
  <2>3. CASE FileOf[cell[c].rec] = f
    BY <2>1, <2>3, <1>4, <1>5
  <2>4. CASE FileOf[cell[c].rec] # f
    BY <2>1, <2>2, <2>4, <1>3
  <2> QED
    BY <2>3, <2>4
<1> QED
  BY <1>2, <1>6 DEF LockInv

(* Every statement, session event and UNLOCK command keeps the invariant.   *)
LEMMA LockInvStep ==
  ASSUME TypeOK, LockInv, [Next]_vars
  PROVE  LockInv'
<1>r. /\ \A u, r : Mine(u, r) \in SUBSET Used
      /\ \A u, fvs : FvarCells(u, fvs) \in SUBSET Used
      /\ {} \in SUBSET Used
  BY ReleasedAreUsed
<1>1. ASSUME NEW u \in Users, Statement(u) PROVE LockInv'
  <2>1. CASE LockRecord(u)
    BY <2>1, LockRecordInv
  <2>2. ASSUME NEW fv \in Fvars, NEW nw \in BOOLEAN, LockFile(u, fv, nw) PROVE LockInv'
    BY <2>2, LockFileInv
  <2>3. ASSUME NEW fv \in Fvars, NEW nw \in BOOLEAN, FileLockRefused(u, fv, nw)
        PROVE LockInv'
    BY <2>3, UnchangedInv DEF FileLockRefused, shared
  <2>4. ASSUME NEW fv \in Fvars, NEW r \in Recs, ReleaseRecord(u, fv, r) PROVE LockInv'
    <3>1. GiveUp(Mine(u, r), {}, {})
      BY <2>4 DEF ReleaseRecord
    <3> QED
      BY <3>1, <1>r, ShrinkInv
  <2>5. ASSUME NEW fv \in Fvars, NEW r \in Recs, WriteStart(u, fv, r) PROVE LockInv'
    BY <2>5, UnchangedInv DEF WriteStart, shared
  <2>6. ASSUME NEW fv \in Fvars, \/ FlunlockTest(u, fv) \/ CloseTest(u, fv)
                                 \/ CloseLater(u, fv) \/ Reopen(u, fv)
        PROVE LockInv'
    BY <2>6, UnchangedInv DEF FlunlockTest, CloseTest, CloseLater, Reopen, shared
  <2>7. ASSUME NEW fv \in Fvars, ReleaseFile(u, fv) \/ Close(u, fv) PROVE LockInv'
    <3>1. GiveUp(FvarCells(u, {fv}), FvarFileLocks(u, {fv}), {})
      BY <2>7 DEF ReleaseFile, Close
    <3> QED
      BY <3>1, <1>r, ShrinkInv
  <2>8. CASE ReleaseAll(u)
    <3>1. GiveUp(FvarCells(u, Fvars), FvarFileLocks(u, Fvars), {})
      BY <2>8 DEF ReleaseAll
    <3> QED
      BY <3>1, <1>r, ShrinkInv
  <2>9. CASE Flunlock(u) \/ CloseFileLock(u)
    <3>1. GiveUp({}, {FvarFile[proc[u].fvar]}, {})
      BY <2>9 DEF Flunlock, CloseFileLock
    <3> QED
      BY <3>1, <1>r, ShrinkInv
  <2>10. ASSUME NEW keep \in BOOLEAN, WriteEnd(u, keep) PROVE LockInv'
    <3>1. PICK S \in SUBSET Used : GiveUp(S, {}, {})
      BY <2>10, <1>r DEF WriteEnd
    <3> QED
      BY <3>1, ShrinkInv
  <2>11. CASE BeginTxn(u)
    BY <2>11, UnchangedInv DEF BeginTxn, shared
  <2>12. CASE EndTxn(u)
    BY <2>12, LeaveTxnInv DEF EndTxn
  <2> QED
    BY <1>1, <2>1, <2>2, <2>3, <2>4, <2>5, <2>6, <2>7, <2>8, <2>9, <2>10, <2>11, <2>12
    DEF Statement
<1>2. ASSUME NEW u \in Users, SessionEvent(u) PROVE LockInv'
  <2>1. CASE AbortWait(u)
    BY <2>1, LeaveTxnInv DEF AbortWait
  <2>2. CASE Reap(u)
    <3>1. PICK S \in SUBSET Used, FS \in SUBSET Files : GiveUp(S, FS, {})
      BY <2>2 DEF Reap
    <3> QED
      BY <3>1, ShrinkInv
  <2>3. CASE BreakQuit(u) \/ Logout(u) \/ Login(u) \/ Crash(u) \/ RebuildLlt(u)
    BY <2>3, UnchangedInv DEF BreakQuit, Logout, Login, Crash, RebuildLlt, shared
  <2> QED
    BY <1>2, <2>1, <2>2, <2>3 DEF SessionEvent
<1>3. ASSUME NEW u \in Users, UnlockCommand(u) PROVE LockInv'
  <2>1. ASSUME NEW vs, NEW rs, AdminUnlock(u, vs, rs) PROVE LockInv'
    <3>1. PICK S \in SUBSET Used : GiveUp(S, {}, {})
      BY <2>1 DEF AdminUnlock
    <3> QED
      BY <3>1, ShrinkInv
  <2>2. ASSUME NEW vs, NEW fs, AdminUnlockFile(u, vs, fs) PROVE LockInv'
    <3>1. PICK FS : GiveUp({}, FS, {})
      BY <2>2 DEF AdminUnlockFile
    <3> QED
      BY <3>1, <1>r, ShrinkInv
  <2> QED
    BY <1>3, <2>1, <2>2 DEF UnlockCommand
<1>4. CASE UNCHANGED vars
  BY <1>4, UnchangedInv DEF vars, shared
<1> QED
  BY <1>1, <1>2, <1>3, <1>4 DEF Next

(* The empty tables are counted right and hold no locks.                    *)
LEMMA LockInvInit == Init => LockInv
<1> SUFFICES ASSUME Init PROVE LockInv
  OBVIOUS
<1>1. Used = {}
  BY DEF Init, Used
<1>2. Cardinality({}) = 0
  BY FS_EmptySet
<1>3. \A h \in Cells : HashCells(h) = {}
  BY <1>1 DEF HashCells
<1>4. \A f \in Files : {c \in Used : FileOf[cell[c].rec] = f} = {}
  BY <1>1
<1>5. CountersExact
  BY <1>1, <1>2, <1>3, <1>4 DEF Init, CountersExact
<1> QED
  BY <1>1, <1>5 DEF LockInv, RecordsExclusive, FileLockExclusive

(* The conjunction is an invariant of the lock manager.                     *)
THEOREM LockInvariant == Spec => []LockInv
<1>1. TypeOK /\ LockInv /\ [Next]_vars => LockInv'
  BY LockInvStep
<1> QED
  BY <1>1, LockInvInit, TypeCorrect, PTL DEF Spec

(* No sequence of locks, releases, crashes and UNLOCKs makes a counter of   *)
(* the lock table drift from what it counts (count, lock_count, rl_count).  *)
THEOREM CountersAreExact == Spec => []CountersExact
  BY LockInvariant, PTL DEF LockInv

(* lock_record lets nobody past an update lock, nor an update lock past a   *)
(* shared one, wherever the locks of the record lie in the cyclic table.    *)
THEOREM RecordLocksExclude == Spec => []RecordsExclusive
  BY LockInvariant, PTL DEF LockInv

(* A file lock and a record lock of two sessions never meet in one file.    *)
THEOREM FileLocksExclude == Spec => []FileLockExclusive
  BY LockInvariant, PTL DEF LockInv

-----------------------------------------------------------------------------
(* The lock table of op_lock.c implements the lock service, whatever its    *)
(* size, the hash function, the sessions, files and records.                *)

Fheld == [f \in Files |-> FlOwner(f)]

(* A step that changes neither cells nor file locks is invisible.           *)
LEMMA Stutter ==
  ASSUME UNCHANGED <<cell, flock>>
  PROVE  UNCHANGED <<Held, Fheld>>
  BY DEF Held, Fheld, FlOwner, Used

(* A lock given up is a lock given back.                                    *)
LEMMA GiveUpGivesBack ==
  ASSUME TypeOK, NEW S \in SUBSET Used, NEW FS, NEW quit, GiveUp(S, FS, quit)
  PROVE  Service!GiveBack
<1>1. cell' = [c \in Cells |-> IF c \in S THEN NoLock ELSE cell[c]]
  BY DEF GiveUp, FreeCells
<1>2. \A c \in Used' : c \in Used /\ cell'[c] = cell[c]
  BY <1>1 DEF Used
<1>3. Held' \subseteq Held
  BY <1>2 DEF Held
<1>4. Held \ Held' \in SUBSET Held /\ Held' = Held \ (Held \ Held')
  BY <1>3
<1>5. FS \cap Files \in SUBSET Files
  OBVIOUS
<1>6. Fheld' = [f \in Files |-> IF f \in FS \cap Files THEN NoUser ELSE Fheld[f]]
  BY DEF GiveUp, Fheld, FlOwner
<1> QED
  BY <1>4, <1>5, <1>6 DEF Service!GiveBack, Fheld

(* So does the end of a transaction.                                        *)
LEMMA LeaveTxnGivesBack ==
  ASSUME TypeOK, NEW u \in Users, NEW quit, LeaveTxn(u, quit)
  PROVE  Service!GiveBack
<1>1. PICK S \in SUBSET Used, FS \in SUBSET Files : GiveUp(S, FS, quit)
  BY ReleasedAreUsed DEF LeaveTxn, FvarFileLocks, TxnFileLocks
<1> QED
  BY <1>1, GiveUpGivesBack

(* A cell set to a lock of a session, over its old lock or in a free cell,  *)
(* is a grant, provided that the locks of the others allow it.              *)
LEMMA SetIsGrant ==
  ASSUME TypeOK, LockInv, NEW u \in Users, NEW r \in Recs, NEW m \in {"update", "shared"},
         NEW c \in Cells, NEW new \in Lock,
         new.owner = u, new.rec = r, new.mode = m,
         cell[c] # NoLock => cell[c].owner = u /\ cell[c].rec = r,
         cell[c] = NoLock => \A d \in Used : cell[d].rec = r => cell[d].owner # u,
         FlOwner(FileOf[r]) \in {NoUser, u},
         \A d \in Used : (cell[d].rec = r /\ cell[d].owner # u)
                            => m = "shared" /\ cell[d].mode = "shared",
         cell' = [cell EXCEPT ![c] = new], UNCHANGED flock
  PROVE  Service!Grant(u, r, m)
<1> DEFINE view(d) == [owner |-> cell[d].owner, rec |-> cell[d].rec, mode |-> cell[d].mode]
           mine == [owner |-> u, rec |-> r, mode |-> m]
<1>1. new # NoLock
  BY NoLockAssumption
<1>2. Used' = Used \cup {c} /\ cell'[c] = new /\ \A d \in Used : d # c => cell'[d] = cell[d]
  BY <1>1 DEF Used, TypeOK
<1>3. \A d \in Used : d # c => cell[d].owner # u \/ cell[d].rec # r
  <2>1. CASE cell[c] = NoLock
    BY <2>1
  <2>2. CASE cell[c] # NoLock
    BY <2>2 DEF Used, LockInv, RecordsExclusive
  <2> QED
    BY <2>1, <2>2
<1>4. Held' = {h \in Held : h.owner # u \/ h.rec # r} \cup {mine}
  <2>1. ASSUME NEW h \in Held' PROVE h \in {x \in Held : x.owner # u \/ x.rec # r} \cup {mine}
    <3>1. PICK d \in Used' : h = [owner |-> cell'[d].owner, rec |-> cell'[d].rec,
                                  mode |-> cell'[d].mode]
      BY DEF Held
    <3>2. CASE d = c
      BY <3>1, <3>2, <1>2
    <3>3. CASE d # c
      <4>1. d \in Used /\ h = view(d)
        BY <3>1, <3>3, <1>2
      <4> QED
        BY <4>1, <3>3, <1>3 DEF Held
    <3> QED
      BY <3>2, <3>3
  <2>2. ASSUME NEW h \in Held, h.owner # u \/ h.rec # r PROVE h \in Held'
    <3>1. PICK d \in Used : h = view(d)
      BY DEF Held
    <3>2. d # c
      BY <2>2, <3>1 DEF Used
    <3>3. d \in Used' /\ cell'[d] = cell[d]
      BY <3>2, <1>2
    <3> QED
      BY <3>1, <3>3 DEF Held
  <2>3. mine \in Held'
    BY <1>2 DEF Held
  <2> QED
    BY <2>1, <2>2, <2>3
<1>5. UNCHANGED Fheld
  BY DEF Fheld, FlOwner
<1>6. FileOf[r] \in Files
  BY ConstantsAssumption
<1>7. Fheld[FileOf[r]] \in {NoUser, u}
  BY <1>6 DEF Fheld
<1>8. ASSUME NEW h \in Held, h.rec = r, h.owner # u
      PROVE  m = "shared" /\ h.mode = "shared"
  <2>1. PICK d \in Used : h = view(d)
    BY DEF Held
  <2> QED
    BY <1>8, <2>1
<1>9. Service!Compatible(u, r, m)
  BY <1>7, <1>8 DEF Service!Compatible, Fheld
<1> QED
  BY <1>4, <1>5, <1>9 DEF Service!Grant, Fheld

(* A step of lock_record grants one lock, gives some back or shows nothing. *)
LEMMA LockRecordRefines ==
  ASSUME TypeOK, LockInv, NEW u \in Users, LockRecord(u)
  PROVE  [Service!LSNext]_<<Held, Fheld>>
<1> PICK fv \in Fvars, r \in Recs, m \in {"update", "shared"}, nw \in BOOLEAN :
      \/ RefusedByFileLock(u, fv, r, m, nw)
      \/ Relock(u, fv, r, m, nw)
      \/ RefusedByRecord(u, fv, r, m, nw)
      \/ DeadlockFound(u, fv, r, m, nw)
      \/ ScanCircles(u, fv, r, m, nw)
      \/ Upgrade(u, fv, r, m, nw)
      \/ TableFull(u, fv, r, m, nw)
      \/ NewLock(u, fv, r, m, nw)
  BY DEF LockRecord, Ask
<1>a. \A d \in Used : cell[d].rec = r => d \in Entries(r)
  BY EntriesAll DEF LockInv
<1>b. \A c \in Mine(u, r) : /\ c \in Used /\ c \in Cells /\ cell[c] \in Lock
                            /\ cell[c] # NoLock
                            /\ cell[c].owner = u /\ cell[c].rec = r
  BY ReleasedAreUsed, UsedIsLock DEF Mine, Entries, Used
<1>t. TxnFor(u, fv) \in 0 .. MaxTxn
  BY ConstantsAssumption DEF TxnFor, TypeOK
<1>g. Service!Grant(u, r, m) => Service!LSNext
  BY DEF Service!LSNext, Service!Modes
<1>1. CASE \/ RefusedByFileLock(u, fv, r, m, nw) \/ RefusedByRecord(u, fv, r, m, nw)
           \/ ScanCircles(u, fv, r, m, nw) \/ TableFull(u, fv, r, m, nw)
  BY <1>1, Stutter DEF RefusedByFileLock, RefusedByRecord, Refused, ScanCircles,
                       TableFull, shared
<1>2. CASE Relock(u, fv, r, m, nw)
  <2>1. PICK c \in Mine(u, r) :
          /\ cell[c].mode = "update" \/ m = "shared"
          /\ cell' = [cell EXCEPT ![c].mode = m, ![c].fvar = fv, ![c].txn = TxnFor(u, fv)]
    BY <1>2 DEF Relock
  <2> DEFINE new == [cell[c] EXCEPT !.mode = m, !.fvar = fv, !.txn = TxnFor(u, fv)]
  <2>2. new \in Lock /\ new.owner = u /\ new.rec = r /\ new.mode = m
    BY <1>b, <1>t DEF Lock
  <2>3. cell' = [cell EXCEPT ![c] = new]
    BY <2>1, <1>b DEF TypeOK
  <2>4. \A d \in Used : (cell[d].rec = r /\ cell[d].owner # u)
                          => m = "shared" /\ cell[d].mode = "shared"
    BY <2>1, <1>b DEF LockInv, RecordsExclusive
  <2>5. UNCHANGED flock /\ FlOwner(FileOf[r]) \in {NoUser, u}
    BY <1>2 DEF Relock, FileAllows
  <2> HIDE DEF new
  <2>6. Service!Grant(u, r, m)
    BY <1>b, <2>2, <2>3, <2>4, <2>5, SetIsGrant
  <2> QED
    BY <2>6, <1>g
<1>3. CASE DeadlockFound(u, fv, r, m, nw)
  <2>1. LeaveTxn(u, {u})
    BY <1>3 DEF DeadlockFound
  <2>2. Service!GiveBack
    BY <2>1, LeaveTxnGivesBack
  <2> QED
    BY <2>2 DEF Service!LSNext
<1>4. CASE Upgrade(u, fv, r, m, nw)
  <2>1. PICK c \in Mine(u, r) : cell' = [cell EXCEPT ![c].mode = "update"]
    BY <1>4 DEF Upgrade
  <2> DEFINE new == [cell[c] EXCEPT !.mode = "update"]
  <2>2. m = "update" /\ Conflicts(u, r, m) = {}
    BY <1>4, <2>1 DEF Upgrade, NoConflict, MustGetPast
  <2>3. new \in Lock /\ new.owner = u /\ new.rec = r /\ new.mode = m
    BY <1>b, <2>2 DEF Lock
  <2>4. cell' = [cell EXCEPT ![c] = new]
    BY <2>1, <1>b DEF TypeOK
  <2>5. \A d \in Used : cell[d].rec = r => cell[d].owner = u
    BY <1>a, <2>2 DEF Conflicts
  <2>6. UNCHANGED flock /\ FlOwner(FileOf[r]) \in {NoUser, u}
    BY <1>4 DEF Upgrade, NoConflict, FileAllows
  <2> HIDE DEF new
  <2>7. Service!Grant(u, r, m)
    BY <1>b, <2>3, <2>4, <2>5, <2>6, SetIsGrant
  <2> QED
    BY <2>7, <1>g
<1>5. CASE NewLock(u, fv, r, m, nw)
  <2> DEFINE c == First(HashOf[r], Cells \ Used)
             new == [owner |-> u, rec |-> r, mode |-> m, fvar |-> fv,
                     txn |-> TxnFor(u, fv)]
  <2>1. c \in Cells /\ cell[c] = NoLock
    <3>1. HashOf[r] \in Cells /\ Cells \ Used \in SUBSET Cells /\ Cells \ Used # {}
      BY <1>5, ConstantsAssumption DEF NewLock, Used
    <3>2. c \in Cells \ Used
      BY <3>1, FirstIsThere
    <3> QED
      BY <3>2 DEF Used
  <2>2. new \in Lock /\ new.owner = u /\ new.rec = r /\ new.mode = m
    BY <1>t DEF Lock
  <2>3. cell' = [cell EXCEPT ![c] = new] /\ UNCHANGED flock
    BY <1>5 DEF NewLock
  <2>4. \A d \in Used : cell[d].rec = r =>
          cell[d].owner # u /\ m = "shared" /\ cell[d].mode = "shared"
    <3>1. Mine(u, r) = {} /\ Conflicts(u, r, m) = {}
      BY <1>5 DEF NewLock, NoConflict
    <3>2. \A d \in Used : cell[d].mode \in {"update", "shared"}
      BY UsedIsLock DEF Lock
    <3> QED
      BY <1>a, <3>1, <3>2 DEF Mine, Conflicts
  <2>5. FlOwner(FileOf[r]) \in {NoUser, u}
    BY <1>5 DEF NewLock, NoConflict, FileAllows
  <2> HIDE DEF new, c
  <2>6. Service!Grant(u, r, m)
    BY <2>1, <2>2, <2>3, <2>4, <2>5, SetIsGrant
  <2> QED
    BY <2>6, <1>g
<1> QED
  BY <1>1, <1>2, <1>3, <1>4, <1>5

(* FILELOCK grants a file lock nobody holds, over nobody else's records, or *)
(* is granted again to its owner.                                           *)
LEMMA LockFileRefines ==
  ASSUME TypeOK, LockInv, NEW u \in Users, NEW fv \in Fvars, NEW nw, LockFile(u, fv, nw)
  PROVE  [Service!LSNext]_<<Held, Fheld>>
<1> DEFINE f == FvarFile[fv]
<1>f. f \in Files
  BY ConstantsAssumption
<1>1. UNCHANGED Held
  BY DEF LockFile, Held, Used
<1>2. \A g \in Files : g # f => FlOwner(g)' = FlOwner(g)
  BY DEF LockFile, FlOwner, TypeOK
<1>3. FlOwner(f)' = u
  BY LockFileOwner
<1>4. CASE FlOwner(f) = u
  <2>1. UNCHANGED Fheld
    BY <1>2, <1>3, <1>4 DEF Fheld
  <2> QED
    BY <1>1, <2>1
<1>5. CASE FileFree(u, f)
  <2>1. Fheld[f] = NoUser
    BY <1>f, <1>5 DEF Fheld, FileFree, FlOwner
  <2>2. \A c \in Used : FileOf[cell[c].rec] = f => cell[c].owner = u
    <3>1. CountersExact
      BY DEF LockInv
    <3> HIDE DEF f
    <3> QED
      BY <1>f, <1>5, <3>1, FileFreeMeans
  <2>3. \A h \in Held : FileOf[h.rec] = f => h.owner = u
    BY <2>2 DEF Held
  <2>4. Fheld' = [Fheld EXCEPT ![f] = u]
    BY <1>2, <1>3, <1>f DEF Fheld
  <2>5. Service!GrantFile(u, f)
    BY <1>1, <2>1, <2>3, <2>4 DEF Service!GrantFile, Fheld
  <2> QED
    BY <2>5, <1>f DEF Service!LSNext
<1> QED
  BY <1>4, <1>5 DEF LockFile

(* Every step of the lock manager is a step of the service or no step.      *)
LEMMA StepRefines ==
  ASSUME TypeOK, LockInv, [Next]_vars
  PROVE  [Service!LSNext]_<<Held, Fheld>>
<1>r. /\ \A u, r : Mine(u, r) \in SUBSET Used
      /\ \A u, fvs : FvarCells(u, fvs) \in SUBSET Used
      /\ {} \in SUBSET Used
  BY ReleasedAreUsed
<1>b. Service!GiveBack => Service!LSNext
  BY DEF Service!LSNext
<1>1. ASSUME NEW u \in Users, Statement(u) PROVE [Service!LSNext]_<<Held, Fheld>>
  <2>1. CASE LockRecord(u)
    BY <2>1, LockRecordRefines
  <2>2. ASSUME NEW fv \in Fvars, NEW nw \in BOOLEAN, LockFile(u, fv, nw)
        PROVE [Service!LSNext]_<<Held, Fheld>>
    BY <2>2, LockFileRefines
  <2>3. ASSUME NEW fv \in Fvars, NEW nw \in BOOLEAN, FileLockRefused(u, fv, nw)
        PROVE UNCHANGED <<Held, Fheld>>
    BY <2>3, Stutter DEF FileLockRefused, shared
  <2>4. ASSUME NEW fv \in Fvars, NEW r \in Recs, ReleaseRecord(u, fv, r)
        PROVE Service!GiveBack
    <3>1. GiveUp(Mine(u, r), {}, {})
      BY <2>4 DEF ReleaseRecord
    <3> QED
      BY <3>1, <1>r, GiveUpGivesBack
  <2>5. ASSUME NEW fv \in Fvars, NEW r \in Recs, WriteStart(u, fv, r)
        PROVE UNCHANGED <<Held, Fheld>>
    BY <2>5, Stutter DEF WriteStart, shared
  <2>6. ASSUME NEW fv \in Fvars, \/ FlunlockTest(u, fv) \/ CloseTest(u, fv)
                                 \/ CloseLater(u, fv) \/ Reopen(u, fv)
        PROVE UNCHANGED <<Held, Fheld>>
    BY <2>6, Stutter DEF FlunlockTest, CloseTest, CloseLater, Reopen, shared
  <2>7. ASSUME NEW fv \in Fvars, ReleaseFile(u, fv) \/ Close(u, fv)
        PROVE Service!GiveBack
    <3>1. GiveUp(FvarCells(u, {fv}), FvarFileLocks(u, {fv}), {})
      BY <2>7 DEF ReleaseFile, Close
    <3> QED
      BY <3>1, <1>r, GiveUpGivesBack
  <2>8. ASSUME ReleaseAll(u) PROVE Service!GiveBack
    <3>1. GiveUp(FvarCells(u, Fvars), FvarFileLocks(u, Fvars), {})
      BY <2>8 DEF ReleaseAll
    <3> QED
      BY <3>1, <1>r, GiveUpGivesBack
  <2>9. ASSUME Flunlock(u) \/ CloseFileLock(u) PROVE Service!GiveBack
    <3>1. GiveUp({}, {FvarFile[proc[u].fvar]}, {})
      BY <2>9 DEF Flunlock, CloseFileLock
    <3> QED
      BY <3>1, <1>r, GiveUpGivesBack
  <2>10. ASSUME NEW keep \in BOOLEAN, WriteEnd(u, keep) PROVE Service!GiveBack
    <3>1. PICK S \in SUBSET Used : GiveUp(S, {}, {})
      BY <2>10, <1>r DEF WriteEnd
    <3> QED
      BY <3>1, GiveUpGivesBack
  <2>11. ASSUME BeginTxn(u) PROVE UNCHANGED <<Held, Fheld>>
    BY <2>11, Stutter DEF BeginTxn, shared
  <2>12. ASSUME EndTxn(u) PROVE Service!GiveBack
    BY <2>12, LeaveTxnGivesBack DEF EndTxn
  <2> QED
    BY <1>1, <1>b, <2>1, <2>2, <2>3, <2>4, <2>5, <2>6, <2>7, <2>8, <2>9, <2>10,
       <2>11, <2>12 DEF Statement
<1>2. ASSUME NEW u \in Users, SessionEvent(u) PROVE [Service!LSNext]_<<Held, Fheld>>
  <2>1. ASSUME AbortWait(u) PROVE Service!GiveBack
    BY <2>1, LeaveTxnGivesBack DEF AbortWait
  <2>2. ASSUME Reap(u) PROVE Service!GiveBack
    <3>1. PICK S \in SUBSET Used, FS \in SUBSET Files : GiveUp(S, FS, {})
      BY <2>2 DEF Reap
    <3> QED
      BY <3>1, GiveUpGivesBack
  <2>3. ASSUME BreakQuit(u) \/ Logout(u) \/ Login(u) \/ Crash(u) \/ RebuildLlt(u)
        PROVE UNCHANGED <<Held, Fheld>>
    BY <2>3, Stutter DEF BreakQuit, Logout, Login, Crash, RebuildLlt, shared
  <2> QED
    BY <1>2, <1>b, <2>1, <2>2, <2>3 DEF SessionEvent
<1>3. ASSUME NEW u \in Users, UnlockCommand(u) PROVE [Service!LSNext]_<<Held, Fheld>>
  <2>1. ASSUME NEW vs, NEW rs, AdminUnlock(u, vs, rs) PROVE Service!GiveBack
    <3>1. PICK S \in SUBSET Used : GiveUp(S, {}, {})
      BY <2>1 DEF AdminUnlock
    <3> QED
      BY <3>1, GiveUpGivesBack
  <2>2. ASSUME NEW vs, NEW fs, AdminUnlockFile(u, vs, fs) PROVE Service!GiveBack
    <3>1. PICK FS : GiveUp({}, FS, {})
      BY <2>2 DEF AdminUnlockFile
    <3> QED
      BY <3>1, <1>r, GiveUpGivesBack
  <2> QED
    BY <1>3, <1>b, <2>1, <2>2 DEF UnlockCommand
<1>4. CASE UNCHANGED vars
  BY <1>4, Stutter DEF vars, shared
<1> QED
  BY <1>1, <1>2, <1>3, <1>4 DEF Next

(* The empty tables are the service without locks.                          *)
LEMMA InitRefines == Init => Service!LSInit
<1> SUFFICES ASSUME Init PROVE Service!LSInit
  OBVIOUS
<1>1. Held = {}
  BY DEF Init, Held, Used
<1>2. [f \in Files |-> FlOwner(f)] = [f \in Files |-> NoUser]
  BY DEF Init, FlOwner
<1> QED
  BY <1>1, <1>2 DEF Service!LSInit

(* The lock table, with its cyclic chains, counters, local lock tables,     *)
(* deadlock aborts, crashes and UNLOCKs, is a lock service: whatever a      *)
(* session does to it, a lock is granted only past compatible ones.         *)
THEOREM RecordLocksImplementService == Spec => ImplementsService
<1>1. TypeOK /\ LockInv /\ [Next]_vars => [Service!LSNext]_(Service!lsvars)
  BY StepRefines DEF Fheld, Service!lsvars
<1> QED
  BY <1>1, InitRefines, TypeCorrect, LockInvariant, PTL
     DEF Spec, ImplementsService, Service!LSSpec
=============================================================================
