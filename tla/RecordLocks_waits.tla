-------------------------- MODULE RecordLocks_waits --------------------------
(* What rests on the exclusive lock table, for any sessions, records, hash  *)
(* function and size of the table: the waiters counts cover the waits that  *)
(* are recorded, no two sessions write one record, a transaction keeps its  *)
(* locks, and the local lock tables account for the locks of a session      *)
(* until it is over.                                                        *)
EXTENDS RecordLocks_proofs

(* The count of a cell is never below the sessions that wait for it, used   *)
(* cell or not: a free cell with a count left over has no waiter, since     *)
(* clear_waiters has woken all of them.                                     *)
WaitsCovered(c) ==
  /\ Cardinality(Waiting(c)) <= waiters[c]
  /\ Waiting(c) # {} => cell[c] # NoLock /\ cell[c].owner \notin Waiting(c)

WaitInv == \A c \in Cells : WaitsCovered(c)

-----------------------------------------------------------------------------

(* Every set of sessions can be counted.                                    *)
LEMMA UsersFinite == \A W \in SUBSET Users : IsFiniteSet(W) /\ Cardinality(W) \in Nat
  BY ConstantsAssumption, FS_Subset, FS_CardinalityType

(* Cells whose owner and count stay keep their waits covered as long as no  *)
(* session begins to wait.                                                  *)
LEMMA FewerWaits ==
  ASSUME TypeOK, WaitInv, UNCHANGED waiters,
         \A c \in Used : cell'[c] # NoLock /\ cell'[c].owner = cell[c].owner,
         \A v \in Users, c \in Cells :
           Present(v)' /\ wait'[v] = <<"cell", c>> => Present(v) /\ wait[v] = wait'[v]
  PROVE  WaitInv'
<1> SUFFICES ASSUME NEW c \in Cells PROVE WaitsCovered(c)'
  BY DEF WaitInv
<1>1. Waiting(c)' \subseteq Waiting(c)
  BY DEF Waiting
<1>2. Waiting(c) \in SUBSET Users
  BY DEF Waiting
<1>3. WaitsCovered(c)
  BY DEF WaitInv
<1>4. Cardinality(Waiting(c)') <= waiters[c]
  <2>1. /\ Cardinality(Waiting(c)') <= Cardinality(Waiting(c))
        /\ Cardinality(Waiting(c)') \in Nat /\ Cardinality(Waiting(c)) \in Nat
    BY <1>1, <1>2, UsersFinite, FS_Subset
  <2>2. waiters[c] \in Int /\ Cardinality(Waiting(c)) <= waiters[c]
    BY <1>3 DEF WaitsCovered, TypeOK
  <2> QED
    BY <2>1, <2>2
<1>5. Waiting(c) # {} => cell'[c] # NoLock /\ cell'[c].owner \notin Waiting(c)
  BY <1>3 DEF WaitsCovered, Used
<1> QED
  BY <1>1, <1>4, <1>5 DEF WaitsCovered

(* clear_waiters takes off the count what it wakes, and wakes every waiter  *)
(* of a cell it frees: the count of a cell that has a waiter is not zero.   *)
LEMMA GiveUpWaits ==
  ASSUME TypeOK, WaitInv, NEW S \in SUBSET Used, NEW FS, NEW quit, GiveUp(S, FS, quit),
         \A v \in Users : Present(v)' => Present(v)
  PROVE  WaitInv'
<1> SUFFICES ASSUME NEW c \in Cells PROVE WaitsCovered(c)'
  BY DEF WaitInv
<1> DEFINE cleared == Woken(S, FS) \cup quit
           W == Waiting(c)
<1>1. \A v \in Users : v \in Waiting(c)' => v \in W /\ v \notin cleared
  <2>1. wait' = [v \in Users |-> IF v \in cleared THEN NoWait ELSE wait[v]]
    BY DEF GiveUp, ClearWaits
  <2>2. NoWait # <<"cell", c>>
    BY DEF NoWait
  <2> HIDE DEF cleared
  <2> QED
    BY <2>1, <2>2 DEF Waiting
<1>2. Waiting(c)' \subseteq W \ cleared /\ W \in SUBSET Users
  BY <1>1 DEF Waiting
<1>3. waiters'[c] = waiters[c] - Cardinality(W \cap cleared)
  BY DEF GiveUp, ClearWaits
<1>4. waiters[c] \in Int /\ Cardinality(W) <= waiters[c]
      /\ (W # {} => cell[c] # NoLock /\ cell[c].owner \notin W)
  BY DEF WaitInv, WaitsCovered, TypeOK
<1>5. Cardinality(Waiting(c)') <= waiters'[c]
  <2> HIDE DEF cleared, W
  <2>1. IsFiniteSet(W) /\ Cardinality(W) \in Nat
    BY <1>2, UsersFinite
  <2>2. Cardinality(W \ cleared) = Cardinality(W) - Cardinality(W \cap cleared)
    BY <2>1, FS_Difference
  <2>3. IsFiniteSet(W \ cleared) /\ Cardinality(W \cap cleared) \in Nat
        /\ Cardinality(W \ cleared) \in Nat
    BY <1>2, UsersFinite
  <2>4. Cardinality(Waiting(c)') <= Cardinality(W \ cleared)
        /\ Cardinality(Waiting(c)') \in Nat
    BY <1>2, <2>3, UsersFinite, FS_Subset
  <2> QED
    BY <1>3, <1>4, <2>1, <2>2, <2>3, <2>4
<1>6. ASSUME NEW v \in Waiting(c)' PROVE cell'[c] = cell[c]
  <2>1. v \in W /\ v \notin Woken(S, FS) /\ v \in Users
    BY <1>2
  <2>2. waiters[c] # 0
    <3>1. IsFiniteSet(W) /\ Cardinality(W) \in Nat /\ Cardinality(W) # 0
      BY <2>1, <1>2, UsersFinite, FS_EmptySet
    <3> HIDE DEF W
    <3> QED
      BY <3>1, <1>4
  <2>3. c \notin S
    BY <2>1, <2>2 DEF Woken, Waiting
  <2> QED
    BY <2>3 DEF GiveUp, FreeCells
<1>7. Waiting(c)' # {} => cell'[c] # NoLock /\ cell'[c].owner \notin Waiting(c)'
  BY <1>2, <1>4, <1>6
<1> QED
  BY <1>5, <1>7 DEF WaitsCovered

(* A session that is refused by a record lock waits for a cell in use that  *)
(* another session owns, and is counted there.                              *)
LEMMA RefusedWaits ==
  ASSUME TypeOK, WaitInv, NEW u \in Users, Present(u), NEW req \in Procs, NEW nw,
         NEW target, Refused(u, req, nw, target),
         \A c \in Cells : target = <<"cell", c>> => c \in Used /\ cell[c].owner # u
  PROVE  WaitInv'
<1>1. UNCHANGED cell /\ \A v \in Users : v # u => proc'[v] = proc[v]
  BY DEF Refused, TypeOK
<1>2. CASE nw \/ wait[u] # NoWait
  <2>1. UNCHANGED <<wait, waiters>>
    BY <1>2 DEF Refused
  <2>2. \A v \in Users : Present(v)' => Present(v)
    BY <1>1 DEF Present
  <2>3. \A c \in Used : cell'[c] # NoLock /\ cell'[c].owner = cell[c].owner
    BY <1>1 DEF Used
  <2> QED
    BY <2>1, <2>2, <2>3, FewerWaits
<1>3. CASE ~(nw \/ wait[u] # NoWait)
  <2> SUFFICES ASSUME NEW c \in Cells PROVE WaitsCovered(c)'
    BY DEF WaitInv
  <2>1. /\ wait' = [wait EXCEPT ![u] = target]
        /\ waiters'[c] = IF target = <<"cell", c>> THEN waiters[c] + 1 ELSE waiters[c]
    BY <1>3 DEF Refused
  <2>2. WaitsCovered(c) /\ waiters[c] \in Int
    BY DEF WaitInv, TypeOK
  <2>3. u \notin Waiting(c)
    BY <1>3 DEF Waiting, NoWait
  <2>4. \A v \in Users : v # u => (v \in Waiting(c)' <=> v \in Waiting(c))
    BY <1>1, <2>1 DEF Waiting, Present, TypeOK
  <2>5. Waiting(c) \in SUBSET Users /\ Waiting(c)' \in SUBSET Users
    BY DEF Waiting
  <2>6. IsFiniteSet(Waiting(c)) /\ Cardinality(Waiting(c)) \in Nat
    BY <2>5, UsersFinite
  <2>7. CASE target = <<"cell", c>>
    <3>1. Waiting(c)' \subseteq Waiting(c) \cup {u}
      BY <2>4, <2>5
    <3>2. Cardinality(Waiting(c) \cup {u}) = Cardinality(Waiting(c)) + 1
      BY <2>3, <2>6, FS_AddElement
    <3>3. Cardinality(Waiting(c)') <= Cardinality(Waiting(c) \cup {u})
          /\ Cardinality(Waiting(c)') \in Nat
      BY <3>1, <2>5, UsersFinite, FS_Subset
    <3>4. Cardinality(Waiting(c)') <= waiters'[c]
      BY <2>1, <2>2, <2>6, <2>7, <3>2, <3>3 DEF WaitsCovered
    <3>5. cell'[c] # NoLock /\ cell'[c].owner \notin Waiting(c)'
      BY <1>1, <2>2, <2>7, <3>1 DEF WaitsCovered, Used
    <3> QED
      BY <3>4, <3>5 DEF WaitsCovered
  <2>8. CASE target # <<"cell", c>>
    <3>1. u \notin Waiting(c)'
      BY <2>1, <2>8 DEF Waiting, TypeOK
    <3>2. Waiting(c)' = Waiting(c)
      BY <3>1, <2>3, <2>4, <2>5
    <3> QED
      BY <1>1, <2>1, <2>2, <2>8, <3>2 DEF WaitsCovered
  <2> QED
    BY <2>7, <2>8
<1> QED
  BY <1>2, <1>3

(* The end of a transaction gives locks up like any other path.             *)
LEMMA LeaveTxnWaits ==
  ASSUME TypeOK, WaitInv, NEW u \in Users, NEW quit, LeaveTxn(u, quit), Present(u),
         proc' = [proc EXCEPT ![u] = ReadyState] \/ UNCHANGED proc
  PROVE  WaitInv'
<1>1. PICK S \in SUBSET Used, FS \in SUBSET Files : GiveUp(S, FS, quit)
  <2>1. FvarCells(u, closing[u]) \in SUBSET Used /\ TxnCells(u) \in SUBSET Used
    BY ReleasedAreUsed
  <2>2. FvarFileLocks(u, closing[u]) \in SUBSET Files /\ TxnFileLocks(u) \in SUBSET Files
    BY DEF FvarFileLocks, TxnFileLocks
  <2> QED
    BY <2>1, <2>2 DEF LeaveTxn
<1>2. \A v \in Users : Present(v)' => Present(v)
  BY DEF Present, TypeOK
<1> QED
  BY <1>1, <1>2, GiveUpWaits

(* A step of one session that leaves owners and counts as they are: it      *)
(* keeps its own wait, has none afterwards, or waits for a file.            *)
LEMMA StepOfOneWaits ==
  ASSUME TypeOK, WaitInv, NEW u \in Users, UNCHANGED waiters,
         \A c \in Used : cell'[c] # NoLock /\ cell'[c].owner = cell[c].owner,
         \/ wait' = wait /\ (Present(u)' => Present(u))
         \/ \E w \in {NoWait} \cup ({"file"} \X Files) : wait' = [wait EXCEPT ![u] = w],
         \A v \in Users : v # u => proc'[v] = proc[v]
  PROVE  WaitInv'
<1> SUFFICES ASSUME NEW v \in Users, NEW c \in Cells,
                    Present(v)', wait'[v] = <<"cell", c>>
             PROVE  Present(v) /\ wait[v] = wait'[v]
  BY FewerWaits
<1>1. CASE wait' = wait /\ (Present(u)' => Present(u))
  BY <1>1 DEF Present
<1>2. ASSUME NEW w \in {NoWait} \cup ({"file"} \X Files), wait' = [wait EXCEPT ![u] = w]
      PROVE  Present(v) /\ wait[v] = wait'[v]
  <2>1. w # <<"cell", c>>
    BY DEF NoWait
  <2>2. wait'[u] = w
    BY <1>2 DEF TypeOK
  <2>3. v # u
    BY <2>1, <2>2
  <2> QED
    BY <1>2, <2>3 DEF Present, TypeOK
<1> QED
  BY <1>1, <1>2

(* The cell of a new lock was free and so had no waiter: its count starts   *)
(* at zero again.                                                           *)
LEMMA NewLockWaits ==
  ASSUME TypeOK, WaitInv, NEW u \in Users, NEW fv, NEW r \in Recs, NEW m, NEW nw,
         NewLock(u, fv, r, m, nw)
  PROVE  WaitInv'
<1> DEFINE c == First(HashOf[r], Cells \ Used)
           new == [owner |-> u, rec |-> r, mode |-> m, fvar |-> fv, txn |-> TxnFor(u, fv)]
<1>1. c \in Cells /\ c \notin Used
  <2>1. Cells \ Used \in SUBSET Cells /\ Cells \ Used # {} /\ HashOf[r] \in Cells
    BY ConstantsAssumption DEF NewLock, Used
  <2> QED
    BY <2>1, FirstIsThere
<1>2. cell' = [cell EXCEPT ![c] = new] /\ waiters' = [waiters EXCEPT ![c] = 0]
      /\ wait' = [wait EXCEPT ![u] = NoWait] /\ proc' = [proc EXCEPT ![u] = ReadyState]
  BY DEF NewLock, Granted
<1> HIDE DEF c, new
<1> SUFFICES ASSUME NEW d \in Cells PROVE WaitsCovered(d)'
  BY DEF WaitInv
<1>3. Waiting(d)' \subseteq Waiting(d)
  BY <1>2 DEF Waiting, Present, TypeOK, NoWait
<1>4. WaitsCovered(d) /\ Waiting(d) \in SUBSET Users /\ waiters[d] \in Int
  BY DEF WaitInv, Waiting, TypeOK
<1>5. CASE d = c
  <2>1. Waiting(d) = {}
    BY <1>1, <1>4, <1>5 DEF WaitsCovered, Used
  <2>2. Waiting(d)' = {} /\ waiters'[d] = 0
    BY <1>1, <1>2, <1>3, <1>5, <2>1 DEF TypeOK
  <2> QED
    BY <2>2, FS_EmptySet DEF WaitsCovered
<1>6. CASE d # c
  <2>1. cell'[d] = cell[d] /\ waiters'[d] = waiters[d]
    BY <1>2, <1>6 DEF TypeOK
  <2>2. Cardinality(Waiting(d)') <= Cardinality(Waiting(d))
        /\ Cardinality(Waiting(d)') \in Nat /\ Cardinality(Waiting(d)) \in Nat
    BY <1>3, <1>4, UsersFinite, FS_Subset
  <2> QED
    BY <1>3, <1>4, <2>1, <2>2 DEF WaitsCovered
<1> QED
  BY <1>5, <1>6

(* Whatever its outcome, lock_record keeps the waits covered.               *)
LEMMA LockRecordWaits ==
  ASSUME TypeOK, WaitInv, NEW u \in Users, LockRecord(u)
  PROVE  WaitInv'
<1> PICK fv \in Fvars, r \in Recs, m \in {"update", "shared"}, nw \in BOOLEAN :
      \/ RefusedByFileLock(u, fv, r, m, nw)
      \/ Relock(u, fv, r, m, nw)
      \/ RefusedByRecord(u, fv, r, m, nw)
      \/ DeadlockFound(u, fv, r, m, nw)
      \/ ScanCircles(u, fv, r, m, nw)
      \/ Upgrade(u, fv, r, m, nw)
      \/ TableFull(u, fv, r, m, nw)
      \/ NewLock(u, fv, r, m, nw)
  BY DEF LockRecord, Ask
<1>p. CanTry(u, fv, r, m, nw) => Present(u)
  BY DEF CanTry, Present, Ready, ReadyState, RecordReq
<1>q. RecordReq(fv, r, m) \in Procs
  BY DEF Procs, RecordReq
<1>b. \A c \in Mine(u, r) : c \in Used /\ c \in Cells /\ cell[c] \in Lock
  BY ReleasedAreUsed, UsedIsLock
<1>s. \A c \in Used : c \in Cells /\ cell[c] \in Lock /\ cell[c] # NoLock
  BY UsedIsLock DEF Used
<1>1. CASE RefusedByFileLock(u, fv, r, m, nw)
  <2> DEFINE target == <<"file", FileOf[r]>>
  <2>1. Refused(u, RecordReq(fv, r, m), nw, target) /\ Present(u)
    BY <1>1, <1>p DEF RefusedByFileLock
  <2>2. \A c \in Cells : target # <<"cell", c>>
    OBVIOUS
  <2> HIDE DEF target
  <2> QED
    BY <1>q, <2>1, <2>2, RefusedWaits
<1>2. CASE RefusedByRecord(u, fv, r, m, nw)
  <2> DEFINE b == Blocker(u, r, m)
             target == <<"cell", b>>
  <2>1. Blocked(u, fv, r, m, nw) /\ Refused(u, RecordReq(fv, r, m), nw, target)
    BY <1>2 DEF RefusedByRecord
  <2>2. b \in Used /\ cell[b].owner # u
    BY <2>1, BlockerIsUsed DEF Blocked, Conflicts
  <2>3. \A c \in Cells : target = <<"cell", c>> => c \in Used /\ cell[c].owner # u
    BY <2>2
  <2>4. Present(u)
    BY <2>1, <1>p DEF Blocked
  <2> HIDE DEF target
  <2> QED
    BY <1>q, <2>1, <2>3, <2>4, RefusedWaits
<1>3. CASE Relock(u, fv, r, m, nw) \/ Upgrade(u, fv, r, m, nw)
  <2>1. PICK c \in Mine(u, r) :
          \/ cell' = [cell EXCEPT ![c].mode = m, ![c].fvar = fv, ![c].txn = TxnFor(u, fv)]
          \/ cell' = [cell EXCEPT ![c].mode = "update"]
    BY <1>3 DEF Relock, Upgrade
  <2>2. \E new \in Lock : cell' = [cell EXCEPT ![c] = new] /\ new.owner = cell[c].owner
    <3>1. TxnFor(u, fv) \in 0 .. MaxTxn
      BY ConstantsAssumption DEF TxnFor, TypeOK
    <3>2. CASE cell' = [cell EXCEPT ![c].mode = m, ![c].fvar = fv, ![c].txn = TxnFor(u, fv)]
      <4> DEFINE new == [cell[c] EXCEPT !.mode = m, !.fvar = fv, !.txn = TxnFor(u, fv)]
      <4>1. new \in Lock /\ new.owner = cell[c].owner
        BY <1>b, <3>1 DEF Lock
      <4>2. cell' = [cell EXCEPT ![c] = new]
        BY <3>2, <1>b DEF TypeOK, Used
      <4> QED
        BY <4>1, <4>2
    <3>3. CASE cell' = [cell EXCEPT ![c].mode = "update"]
      <4> DEFINE new == [cell[c] EXCEPT !.mode = "update"]
      <4>1. new \in Lock /\ new.owner = cell[c].owner
        BY <1>b DEF Lock
      <4>2. cell' = [cell EXCEPT ![c] = new]
        BY <3>3, <1>b DEF TypeOK, Used
      <4> QED
        BY <4>1, <4>2
    <3> QED
      BY <2>1, <3>2, <3>3
  <2>3. \A d \in Used : cell'[d] # NoLock /\ cell'[d].owner = cell[d].owner
    BY <2>2, <1>b, <1>s, NoLockAssumption DEF TypeOK
  <2>4. UNCHANGED waiters /\ Granted(u)
    BY <1>3 DEF Relock, Upgrade
  <2>5. wait' = [wait EXCEPT ![u] = NoWait] /\ \A v \in Users : v # u => proc'[v] = proc[v]
    BY <2>4 DEF Granted, TypeOK
  <2> QED
    BY <2>3, <2>4, <2>5, StepOfOneWaits
<1>4. CASE DeadlockFound(u, fv, r, m, nw)
  <2>1. LeaveTxn(u, {u}) /\ proc' = [proc EXCEPT ![u] = ReadyState] /\ Present(u)
    BY <1>4, <1>p DEF DeadlockFound, Blocked
  <2> QED
    BY <2>1, LeaveTxnWaits
<1>5. CASE ScanCircles(u, fv, r, m, nw)
  <2>1. Present(u) /\ UNCHANGED <<cell, waiters, wait>>
        /\ proc' = [proc EXCEPT ![u] = [at |-> "scan"]]
    BY <1>5, <1>p DEF ScanCircles, Blocked, shared
  <2>2. \A d \in Used : cell'[d] # NoLock /\ cell'[d].owner = cell[d].owner
    BY <2>1, <1>s
  <2>3. \A v \in Users : v # u => proc'[v] = proc[v]
    BY <2>1 DEF TypeOK
  <2> QED
    BY <2>1, <2>2, <2>3, StepOfOneWaits
<1>6. CASE TableFull(u, fv, r, m, nw)
  <2>1. UNCHANGED <<cell, waiters>> /\ wait' = [wait EXCEPT ![u] = NoWait]
        /\ \A v \in Users : v # u => proc'[v] = proc[v]
    BY <1>6 DEF TableFull, shared, TypeOK
  <2>2. \A d \in Used : cell'[d] # NoLock /\ cell'[d].owner = cell[d].owner
    BY <2>1, <1>s
  <2> QED
    BY <2>1, <2>2, StepOfOneWaits
<1>7. CASE NewLock(u, fv, r, m, nw)
  BY <1>7, NewLockWaits
<1> QED
  BY <1>1, <1>2, <1>3, <1>4, <1>5, <1>6, <1>7

(* Every statement, session event and UNLOCK command keeps waits covered.   *)
LEMMA WaitInvStep ==
  ASSUME TypeOK, WaitInv, [Next]_vars
  PROVE  WaitInv'
<1>r. /\ \A u, r : Mine(u, r) \in SUBSET Used
      /\ \A u, fvs : FvarCells(u, fvs) \in SUBSET Used
      /\ {} \in SUBSET Used
  BY ReleasedAreUsed
<1>s. UNCHANGED cell => \A d \in Used : cell'[d] # NoLock /\ cell'[d].owner = cell[d].owner
  BY DEF Used
<1>p. ASSUME NEW u \in Users, NEW S \in SUBSET Used, NEW FS, GiveUp(S, FS, {}),
             \/ UNCHANGED proc
             \/ proc' = [proc EXCEPT ![u] = [at |-> "gone"]]
             \/ Present(u) /\ \E p \in Procs : proc' = [proc EXCEPT ![u] = p]
      PROVE  WaitInv'
  <2>1. ASSUME NEW v \in Users, Present(v)' PROVE Present(v)
    <3>1. CASE v # u
      BY <1>p, <2>1, <3>1 DEF Present, TypeOK
    <3>2. CASE v = u
      BY <1>p, <2>1, <3>2 DEF Present, TypeOK
    <3> QED
      BY <3>1, <3>2
  <2> QED
    BY <1>p, <2>1, GiveUpWaits
<1>q. ASSUME NEW u \in Users, UNCHANGED <<cell, waiters, wait>>,
             \/ UNCHANGED proc
             \/ proc' = [proc EXCEPT ![u] = [at |-> "gone"]]
             \/ Present(u) /\ \E p \in Procs : proc' = [proc EXCEPT ![u] = p]
      PROVE  WaitInv'
  <2>1. \A v \in Users : v # u => proc'[v] = proc[v]
    BY <1>q DEF TypeOK
  <2>2. Present(u)' => Present(u)
    BY <1>q DEF Present, TypeOK
  <2> QED
    BY <1>q, <1>s, <2>1, <2>2, StepOfOneWaits
<1>c. /\ ReadyState \in Procs /\ [at |-> "dead"] \in Procs
      /\ \A fv \in Fvars : [at |-> "flunlock", fvar |-> fv] \in Procs
                           /\ [at |-> "close", fvar |-> fv] \in Procs
                           /\ [at |-> "unlock", fvar |-> fv] \in Procs
      /\ \A fv \in Fvars, r \in Recs : [at |-> "write", fvar |-> fv, rec |-> r] \in Procs
  BY DEF Procs, ReadyState
<1>d. \A u : Ready(u) => Present(u)
  BY DEF Ready, Present, ReadyState
<1>1. ASSUME NEW u \in Users, Statement(u) PROVE WaitInv'
  <2>1. CASE LockRecord(u)
    BY <2>1, LockRecordWaits
  <2>2. ASSUME NEW fv \in Fvars, NEW nw \in BOOLEAN,
               LockFile(u, fv, nw) \/ FileLockRefused(u, fv, nw)
        PROVE  WaitInv'
    <3>1. UNCHANGED <<cell, waiters>> /\ \A v \in Users : v # u => proc'[v] = proc[v]
      BY <2>2 DEF LockFile, FileLockRefused, Granted, shared, TypeOK
    <3>2. \E w \in {NoWait} \cup ({"file"} \X Files) : wait' = [wait EXCEPT ![u] = w]
      <4>1. FvarFile[fv] \in Files
        BY ConstantsAssumption
      <4>2. CASE LockFile(u, fv, nw)
        BY <4>2 DEF LockFile, Granted
      <4>3. CASE FileLockRefused(u, fv, nw)
        BY <4>1, <4>3 DEF FileLockRefused
      <4> QED
        BY <2>2, <4>2, <4>3
    <3> QED
      BY <1>s, <3>1, <3>2, StepOfOneWaits
  <2>3. ASSUME NEW fv \in Fvars, NEW r \in Recs, ReleaseRecord(u, fv, r) PROVE WaitInv'
    <3>1. GiveUp(Mine(u, r), {}, {}) /\ UNCHANGED proc
      BY <2>3 DEF ReleaseRecord
    <3> QED
      BY <1>p, <1>r, <3>1
  <2>4. ASSUME NEW fv \in Fvars, NEW r \in Recs, WriteStart(u, fv, r) PROVE WaitInv'
    BY <1>c, <1>d, <1>q, <2>4 DEF WriteStart, shared
  <2>5. ASSUME NEW fv \in Fvars, FlunlockTest(u, fv) \/ CloseTest(u, fv) PROVE WaitInv'
    BY <1>c, <1>d, <1>q, <2>5 DEF FlunlockTest, CloseTest, shared
  <2>6. ASSUME NEW fv \in Fvars, CloseLater(u, fv) \/ Reopen(u, fv) PROVE WaitInv'
    BY <1>q, <2>6 DEF CloseLater, Reopen, shared
  <2>7. ASSUME NEW fv \in Fvars, ReleaseFile(u, fv) PROVE WaitInv'
    <3>1. GiveUp(FvarCells(u, {fv}), FvarFileLocks(u, {fv}), {}) /\ UNCHANGED proc
      BY <2>7 DEF ReleaseFile
    <3> QED
      BY <1>p, <1>r, <3>1
  <2>8. ASSUME NEW fv \in Fvars, Close(u, fv) PROVE WaitInv'
    <3>1. /\ GiveUp(FvarCells(u, {fv}), FvarFileLocks(u, {fv}), {})
          /\ proc' = [proc EXCEPT ![u] = ReadyState]
          /\ Present(u)
      BY <1>d, <2>8 DEF Close, Present
    <3> QED
      BY <1>c, <1>p, <1>r, <3>1
  <2>9. CASE ReleaseAll(u)
    <3>1. GiveUp(FvarCells(u, Fvars), FvarFileLocks(u, Fvars), {}) /\ UNCHANGED proc
      BY <2>9 DEF ReleaseAll
    <3> QED
      BY <1>p, <1>r, <3>1
  <2>10. CASE Flunlock(u) \/ CloseFileLock(u)
    <3>1. GiveUp({}, {FvarFile[proc[u].fvar]}, {}) /\ Present(u)
      BY <2>10 DEF Flunlock, CloseFileLock, Present
    <3>2. proc[u].fvar \in Fvars
      BY <2>10 DEF Flunlock, CloseFileLock, TypeOK, Procs
    <3>3. \E p \in Procs : proc' = [proc EXCEPT ![u] = p]
      BY <1>c, <2>10, <3>2 DEF Flunlock, CloseFileLock
    <3> QED
      BY <1>p, <1>r, <3>1, <3>3
  <2>11. ASSUME NEW keep \in BOOLEAN, WriteEnd(u, keep) PROVE WaitInv'
    <3>1. PICK S \in SUBSET Used : GiveUp(S, {}, {})
      BY <2>11, <1>r DEF WriteEnd
    <3>2. Present(u) /\ proc' = [proc EXCEPT ![u] = ReadyState]
      BY <2>11 DEF WriteEnd, Present
    <3> QED
      BY <1>c, <1>p, <3>1, <3>2
  <2>12. CASE BeginTxn(u)
    BY <1>q, <2>12 DEF BeginTxn, shared
  <2>13. CASE EndTxn(u)
    BY <1>d, <2>13, LeaveTxnWaits DEF EndTxn
  <2> QED
    BY <1>1, <2>1, <2>2, <2>3, <2>4, <2>5, <2>6, <2>7, <2>8, <2>9, <2>10, <2>11, <2>12,
       <2>13
    DEF Statement
<1>2. ASSUME NEW u \in Users, SessionEvent(u) PROVE WaitInv'
  <2>1. CASE AbortWait(u)
    BY <2>1, LeaveTxnWaits DEF AbortWait, InLockWait, Present
  <2>2. CASE Reap(u)
    <3>1. PICK S \in SUBSET Used, FS \in SUBSET Files : GiveUp(S, FS, {})
      BY <2>2 DEF Reap
    <3>2. proc' = [proc EXCEPT ![u] = [at |-> "gone"]]
      BY <2>2 DEF Reap
    <3> QED
      BY <1>p, <3>1, <3>2
  <2>3. CASE Login(u)
    <3>1. UNCHANGED <<cell, waiters>> /\ wait' = [wait EXCEPT ![u] = NoWait]
          /\ \A v \in Users : v # u => proc'[v] = proc[v]
      BY <2>3 DEF Login, shared, TypeOK
    <3> QED
      BY <1>s, <3>1, StepOfOneWaits
  <2>4. CASE BreakQuit(u) \/ Logout(u) \/ Crash(u) \/ RebuildLlt(u)
    BY <1>c, <1>d, <1>q, <2>4
    DEF BreakQuit, Logout, Crash, RebuildLlt, InLockWait, Present, shared
  <2> QED
    BY <1>2, <2>1, <2>2, <2>3, <2>4 DEF SessionEvent
<1>3. ASSUME NEW u \in Users, UnlockCommand(u) PROVE WaitInv'
  <2>1. ASSUME NEW vs, NEW rs, AdminUnlock(u, vs, rs) PROVE WaitInv'
    <3>1. UNCHANGED proc /\ \E S \in SUBSET Used : GiveUp(S, {}, {})
      BY <2>1 DEF AdminUnlock
    <3> QED
      BY <1>p, <3>1
  <2>2. ASSUME NEW vs, NEW fs, AdminUnlockFile(u, vs, fs) PROVE WaitInv'
    <3>1. UNCHANGED proc /\ \E FS : GiveUp({}, FS, {})
      BY <2>2 DEF AdminUnlockFile
    <3> QED
      BY <1>p, <1>r, <3>1
  <2> QED
    BY <1>3, <2>1, <2>2 DEF UnlockCommand
<1>4. CASE UNCHANGED vars
  <2>1. WaitInv' <=> WaitInv
    BY <1>4 DEF vars, shared, WaitInv, WaitsCovered, Waiting, Present
  <2> QED
    BY <2>1
<1> QED
  BY <1>1, <1>2, <1>3, <1>4 DEF Next

(* At the start nobody waits.                                               *)
LEMMA WaitInvInit == Init => WaitInv
<1> SUFFICES ASSUME Init, NEW c \in Cells PROVE WaitsCovered(c)
  BY DEF WaitInv
<1>1. Waiting(c) = {} /\ waiters[c] = 0
  BY DEF Init, Waiting, NoWait
<1> QED
  BY <1>1, FS_EmptySet DEF WaitsCovered

(* A session never waits for a lock that is gone, for its own, or for one   *)
(* whose count of waiters would let clear_waiters pass over it: neither a   *)
(* break handler that quits nor a scan that never ends nor the reaping of a *)
(* dead session breaks the count downwards.                                 *)
THEOREM WaitsCounted == Spec => []WaitsAreCounted
<1>1. WaitInv => WaitsAreCounted
  BY DEF WaitInv, WaitsCovered, WaitsAreCounted
<1>2. TypeOK /\ WaitInv /\ [Next]_vars => WaitInv'
  BY WaitInvStep
<1> QED
  BY <1>1, <1>2, WaitInvInit, TypeCorrect, PTL DEF Spec
-----------------------------------------------------------------------------
(* What a step of one session leaves to the others.                         *)

Act(u) == Statement(u) \/ SessionEvent(u) \/ UnlockCommand(u)

LEMMA ActsOrNone == [Next]_vars => (\E u \in Users : Act(u)) \/ UNCHANGED vars
  BY DEF Next, Act

LEMMA TheirsPrivate ==
  ASSUME TypeOK, NEW u \in Users, Act(u), NEW v \in Users, v # u
  PROVE  /\ llt'[v] = llt[v] /\ txn'[v] = txn[v] /\ open'[v] = open[v]
         /\ closing'[v] = closing[v] /\ proc'[v] = proc[v]
<1> USE DEF TypeOK
<1>1. ASSUME NEW quit, LeaveTxn(u, quit), \E p : proc' = [proc EXCEPT ![u] = p] \/ proc' = proc
      PROVE  /\ llt'[v] = llt[v] /\ txn'[v] = txn[v] /\ open'[v] = open[v]
             /\ closing'[v] = closing[v] /\ proc'[v] = proc[v]
  BY <1>1 DEF LeaveTxn, DropLlt
<1>2. CASE LockRecord(u)
  <2> PICK fv \in Fvars, r \in Recs, m \in {"update", "shared"}, nw \in BOOLEAN :
        \/ RefusedByFileLock(u, fv, r, m, nw)
        \/ Relock(u, fv, r, m, nw)
        \/ RefusedByRecord(u, fv, r, m, nw)
        \/ DeadlockFound(u, fv, r, m, nw)
        \/ ScanCircles(u, fv, r, m, nw)
        \/ Upgrade(u, fv, r, m, nw)
        \/ TableFull(u, fv, r, m, nw)
        \/ NewLock(u, fv, r, m, nw)
    BY <1>2 DEF LockRecord, Ask
  <2>1. CASE DeadlockFound(u, fv, r, m, nw)
    BY <2>1, <1>1 DEF DeadlockFound
  <2>2. CASE RefusedByFileLock(u, fv, r, m, nw) \/ RefusedByRecord(u, fv, r, m, nw)
    BY <2>2 DEF RefusedByFileLock, RefusedByRecord, Refused, session
  <2>3. CASE NewLock(u, fv, r, m, nw)
    BY <2>3 DEF NewLock, Granted, session
  <2>4. QED
    BY <2>1, <2>2, <2>3 DEF Relock, ScanCircles, Upgrade, TableFull, Granted, session
<1>3. CASE Statement(u)
  <2>1. CASE EndTxn(u)
    BY <2>1, <1>1 DEF EndTxn
  <2>2. QED
    BY <1>2, <1>3, <2>1 DEF Statement, LockFile, FileLockRefused, ReleaseRecord, WriteStart, FlunlockTest,
       ReleaseFile, CloseLater, Reopen, CloseTest, Close, ReleaseAll, Flunlock, CloseFileLock,
       WriteEnd, BeginTxn, Granted, DropLlt, session
<1>4. CASE SessionEvent(u)
  <2>1. CASE AbortWait(u)
    BY <2>1, <1>1 DEF AbortWait
  <2>2. QED
    BY <1>4, <2>1 DEF SessionEvent, BreakQuit, Logout, Login, Crash, Reap, RebuildLlt, session
<1>5. CASE UnlockCommand(u)
  BY <1>5 DEF UnlockCommand, AdminUnlock, AdminUnlockFile, session
<1>6. QED
  BY <1>3, <1>4, <1>5 DEF Act

(* The statements and events that give record locks up.                     *)
Releases(u) ==
  \/ \E fv \in Fvars, r \in Recs : ReleaseRecord(u, fv, r)
  \/ \E fv \in Fvars : ReleaseFile(u, fv) \/ Close(u, fv)
  \/ \E keep \in BOOLEAN : WriteEnd(u, keep)
  \/ \E quit : LeaveTxn(u, quit)
  \/ ReleaseAll(u) \/ Reap(u) \/ UnlockCommand(u)

GrantsNew(u) ==
  \E fv \in Fvars, r \in Recs, m \in {"update", "shared"}, nw \in BOOLEAN : NewLock(u, fv, r, m, nw)

(* The cells a step changes are the session's own, or an UNLOCK frees them. *)
CellFreed(u, c) ==
  /\ cell'[c] = NoLock /\ Releases(u)
  /\ Admins = {} /\ cell[c] # NoLock => cell[c].owner = u

CellGranted(u, c) ==
  /\ cell'[c] \in Lock /\ cell'[c].owner = u
  /\ cell[c] # NoLock => cell[c].owner = u /\ cell[c].rec = cell'[c].rec
  /\ cell[c] = NoLock => GrantsNew(u)
  /\ \/ FvarFile[cell'[c].fvar] = FileOf[cell'[c].rec]
     \/ cell[c] # NoLock /\ cell'[c].fvar = cell[c].fvar

LEMMA Released ==
  ASSUME TypeOK, NEW u \in Users
  PROVE  /\ \A r : Mine(u, r) \in SUBSET {c \in Used : cell[c].owner = u /\ cell[c].rec = r}
         /\ \A fvs : FvarCells(u, fvs) \in SUBSET {c \in Used : cell[c].owner = u}
         /\ TxnCells(u) \in SUBSET {c \in Used : cell[c].owner = u}
  BY DEF Mine, Entries, Seen, HashCells, FvarCells, TxnCells

LEMMA CellSteps ==
  ASSUME TypeOK, LockInv, NEW u \in Users, Act(u), NEW c \in Cells
  PROVE  cell'[c] = cell[c] \/ CellFreed(u, c) \/ CellGranted(u, c)
<1> DEFINE Own == {d \in Used : cell[d].owner = u}
           Good == cell'[c] = cell[c] \/ CellFreed(u, c) \/ CellGranted(u, c)
<1>r. /\ \A r : Mine(u, r) \in SUBSET Own
      /\ \A fvs : FvarCells(u, fvs) \in SUBSET Own
      /\ TxnCells(u) \in SUBSET Own
  BY Released
<1>a. ASSUME NEW S, NEW FS, NEW quit, GiveUp(S, FS, quit), S \in SUBSET Own,
             S = {} \/ Releases(u)
      PROVE  Good
  BY <1>a DEF GiveUp, FreeCells, CellFreed, TypeOK
<1>b. ASSUME NEW quit, LeaveTxn(u, quit)
      PROVE  Good
  <2>1. Releases(u)
    BY <1>b DEF Releases
  <2>2. PICK S \in SUBSET Own : \E FS : GiveUp(S, FS, quit)
    BY <1>b, <1>r DEF LeaveTxn
  <2>3. QED
    BY <1>a, <2>1, <2>2
<1>c. ASSUME NEW d \in Cells, NEW l \in Lock, cell' = [cell EXCEPT ![d] = l], l.owner = u,
             cell[d] # NoLock => cell[d].owner = u /\ cell[d].rec = l.rec,
             cell[d] = NoLock => GrantsNew(u),
             \/ FvarFile[l.fvar] = FileOf[l.rec]
             \/ cell[d] # NoLock /\ l.fvar = cell[d].fvar
      PROVE  Good
  BY <1>c DEF CellGranted, TypeOK
<1> SUFFICES Good
  OBVIOUS
<1> HIDE DEF Good
<1>1. CASE LockRecord(u)
  <2> PICK fv \in Fvars, r \in Recs, m \in {"update", "shared"}, nw \in BOOLEAN :
        \/ RefusedByFileLock(u, fv, r, m, nw)
        \/ Relock(u, fv, r, m, nw)
        \/ RefusedByRecord(u, fv, r, m, nw)
        \/ DeadlockFound(u, fv, r, m, nw)
        \/ ScanCircles(u, fv, r, m, nw)
        \/ Upgrade(u, fv, r, m, nw)
        \/ TableFull(u, fv, r, m, nw)
        \/ NewLock(u, fv, r, m, nw)
    BY <1>1 DEF LockRecord, Ask
  <2>m. \A d \in Mine(u, r) : /\ d \in Cells /\ cell[d] \in Lock /\ cell[d] # NoLock
                              /\ cell[d].owner = u /\ cell[d].rec = r
    BY Released, UsedIsLock, NoLockAssumption
  <2>t. TxnFor(u, fv) \in 0 .. MaxTxn
    BY ConstantsAssumption DEF TxnFor, TypeOK
  <2>1. CASE Relock(u, fv, r, m, nw)
    <3>1. PICK d \in Mine(u, r) :
            cell' = [cell EXCEPT ![d].mode = m, ![d].fvar = fv, ![d].txn = TxnFor(u, fv)]
      BY <2>1 DEF Relock
    <3> DEFINE l == [cell[d] EXCEPT !.mode = m, !.fvar = fv, !.txn = TxnFor(u, fv)]
    <3>2. l \in Lock /\ l.owner = u /\ l.rec = r /\ l.fvar = fv
      BY <2>m, <2>t DEF Lock
    <3>2a. FvarFile[fv] = FileOf[r]
      BY <2>1 DEF Relock, CanTry
    <3>3. cell' = [cell EXCEPT ![d] = l]
      BY <3>1, <2>m DEF TypeOK
    <3> HIDE DEF l
    <3>4. QED
      BY <1>c, <2>m, <3>2, <3>2a, <3>3
  <2>2. CASE Upgrade(u, fv, r, m, nw)
    <3>1. PICK d \in Mine(u, r) : cell' = [cell EXCEPT ![d].mode = "update"]
      BY <2>2 DEF Upgrade
    <3> DEFINE l == [cell[d] EXCEPT !.mode = "update"]
    <3>2. l \in Lock /\ l.owner = u /\ l.rec = r /\ l.fvar = cell[d].fvar /\ cell[d] # NoLock
      BY <2>m, NoLockAssumption DEF Lock
    <3>3. cell' = [cell EXCEPT ![d] = l]
      BY <3>1, <2>m DEF TypeOK
    <3> HIDE DEF l
    <3>4. QED
      BY <1>c, <2>m, <3>2, <3>3
  <2>3. CASE NewLock(u, fv, r, m, nw)
    <3> DEFINE d == First(HashOf[r], Cells \ Used)
               l == [owner |-> u, rec |-> r, mode |-> m, fvar |-> fv, txn |-> TxnFor(u, fv)]
    <3>1. HashOf[r] \in Cells /\ Cells \ Used \in SUBSET Cells /\ Cells \ Used # {}
      BY <2>3, ConstantsAssumption DEF NewLock, Used
    <3>2. d \in Cells /\ cell[d] = NoLock
      BY <3>1, FirstIsThere DEF Used
    <3>3. l \in Lock /\ l.owner = u /\ l.fvar = fv /\ l.rec = r
      BY <2>t DEF Lock
    <3>3a. FvarFile[fv] = FileOf[r] /\ GrantsNew(u)
      BY <2>3 DEF NewLock, NoConflict, CanTry, GrantsNew
    <3>4. cell' = [cell EXCEPT ![d] = l]
      BY <2>3 DEF NewLock
    <3> HIDE DEF l, d
    <3>5. QED
      BY <1>c, <3>2, <3>3, <3>3a, <3>4
  <2>4. CASE DeadlockFound(u, fv, r, m, nw)
    BY <2>4, <1>b DEF DeadlockFound
  <2>5. CASE \/ RefusedByFileLock(u, fv, r, m, nw) \/ RefusedByRecord(u, fv, r, m, nw)
             \/ ScanCircles(u, fv, r, m, nw) \/ TableFull(u, fv, r, m, nw)
    BY <2>5 DEF RefusedByFileLock, RefusedByRecord, Refused, ScanCircles, TableFull, shared, Good
  <2>6. QED
    BY <2>1, <2>2, <2>3, <2>4, <2>5
<1>2. CASE Statement(u)
  <2>1. ASSUME NEW fv \in Fvars, NEW r \in Recs, ReleaseRecord(u, fv, r)
        PROVE  Good
    BY <2>1, <1>a, <1>r DEF ReleaseRecord, Releases
  <2>2. ASSUME NEW fv \in Fvars, ReleaseFile(u, fv) \/ Close(u, fv)
        PROVE  Good
    BY <2>2, <1>a, <1>r DEF ReleaseFile, Close, Releases
  <2>3. CASE ReleaseAll(u)
    BY <2>3, <1>a, <1>r DEF ReleaseAll, Releases
  <2>4. CASE Flunlock(u) \/ CloseFileLock(u)
    BY <2>4, <1>a DEF Flunlock, CloseFileLock
  <2>5. ASSUME NEW keep \in BOOLEAN, WriteEnd(u, keep)
        PROVE  Good
    <3>1. PICK S \in SUBSET Own : GiveUp(S, {}, {})
      BY <2>5, <1>r DEF WriteEnd
    <3>2. Releases(u)
      BY <2>5 DEF Releases
    <3>3. QED
      BY <3>1, <3>2, <1>a
  <2>6. CASE EndTxn(u)
    BY <2>6, <1>b DEF EndTxn
  <2>7. CASE cell' = cell
    BY <2>7 DEF Good
  <2>8. QED
    BY <1>1, <1>2, <2>1, <2>2, <2>3, <2>4, <2>5, <2>6, <2>7 DEF Statement, LockFile, FileLockRefused,
       WriteStart, FlunlockTest, CloseLater, Reopen, CloseTest, BeginTxn, shared
<1>3. CASE SessionEvent(u)
  <2>1. CASE AbortWait(u)
    BY <2>1, <1>b DEF AbortWait
  <2>2. CASE Reap(u)
    BY <2>2, <1>a DEF Reap, Releases
  <2>3. CASE cell' = cell
    BY <2>3 DEF Good
  <2>4. QED
    BY <1>3, <2>1, <2>2, <2>3 DEF SessionEvent, BreakQuit, Logout, Login, Crash, RebuildLlt, shared
<1>4. CASE UnlockCommand(u)
  <2>1. ASSUME NEW vs, NEW rs, AdminUnlock(u, vs, rs)
        PROVE  Good
    BY <1>4, <2>1 DEF AdminUnlock, GiveUp, FreeCells, CellFreed, Good, Releases
  <2>2. ASSUME NEW vs, NEW fs, AdminUnlockFile(u, vs, fs)
        PROVE  Good
    BY <2>2, <1>a DEF AdminUnlockFile
  <2>3. QED
    BY <1>4, <2>1, <2>2 DEF UnlockCommand
<1>5. QED
  BY <1>2, <1>3, <1>4 DEF Act, Good

(* The file locks a step changes are the session's own, or free, unless an  *)
(* UNLOCK or a test that UNLOCK has made stale releases another's.          *)
TestHolds(u) ==
  proc[u].at \in {"flunlock", "close"} => FlOwner(FvarFile[proc[u].fvar]) = u

FileFreed(u, f) ==
  /\ flock'[f] = NoLock
  /\ FileAdmins = {} /\ TestHolds(u) /\ flock[f] # NoLock => flock[f].owner = u

FileGranted(u, f) ==
  /\ flock'[f] # NoLock /\ flock'[f].owner = u
  /\ flock[f] # NoLock => flock[f].owner = u /\ flock'[f].fvar = flock[f].fvar
  /\ flock[f] = NoLock => /\ flock'[f].fvar \in open[u] /\ UNCHANGED open
                          /\ \A c \in Used : FileOf[cell[c].rec] = f => cell[c].owner = u

LEMMA OwnerIs ==
  ASSUME TypeOK, NEW f \in Files, NEW u \in Users
  PROVE  FlOwner(f) = u <=> flock[f] # NoLock /\ flock[f].owner = u
  BY ConstantsAssumption DEF FlOwner

LEMMA FileSteps ==
  ASSUME TypeOK, LockInv, NEW u \in Users, Act(u), NEW f \in Files
  PROVE  flock'[f] = flock[f] \/ FileFreed(u, f) \/ FileGranted(u, f)
<1> DEFINE Own == {g \in Files : FlOwner(g) = u}
           Good == flock'[f] = flock[f] \/ FileFreed(u, f) \/ FileGranted(u, f)
<1>r. /\ \A fvs : FvarFileLocks(u, fvs) \in SUBSET Own
      /\ TxnFileLocks(u) \in SUBSET Own
  BY DEF FvarFileLocks, TxnFileLocks
<1>a. ASSUME NEW S, NEW FS, NEW quit, GiveUp(S, FS, quit),
             f \in FS => (FileAdmins # {} \/ ~TestHolds(u) \/ f \in Own)
      PROVE  Good
  BY <1>a, OwnerIs DEF GiveUp, FileFreed
<1>b. ASSUME NEW quit, LeaveTxn(u, quit)
      PROVE  Good
  BY <1>a, <1>b, <1>r DEF LeaveTxn
<1> SUFFICES Good
  OBVIOUS
<1> HIDE DEF Good
<1>1. CASE LockRecord(u)
  <2> PICK fv \in Fvars, r \in Recs, m \in {"update", "shared"}, nw \in BOOLEAN :
        \/ RefusedByFileLock(u, fv, r, m, nw)
        \/ Relock(u, fv, r, m, nw)
        \/ RefusedByRecord(u, fv, r, m, nw)
        \/ DeadlockFound(u, fv, r, m, nw)
        \/ ScanCircles(u, fv, r, m, nw)
        \/ Upgrade(u, fv, r, m, nw)
        \/ TableFull(u, fv, r, m, nw)
        \/ NewLock(u, fv, r, m, nw)
    BY <1>1 DEF LockRecord, Ask
  <2>1. CASE DeadlockFound(u, fv, r, m, nw)
    BY <2>1, <1>b DEF DeadlockFound
  <2>2. QED
    BY <2>1 DEF RefusedByFileLock, RefusedByRecord, Refused, ScanCircles, TableFull, Relock, Upgrade,
       NewLock, shared, Good
<1>2. ASSUME NEW fv \in Fvars, NEW nw \in BOOLEAN, LockFile(u, fv, nw)
      PROVE  Good
  <2> DEFINE g == FvarFile[fv]
  <2>0. /\ g \in Files /\ fv \in open[u] /\ flock \in [Files -> FileLock \cup {NoLock}]
        /\ UNCHANGED open
    BY <1>2, ConstantsAssumption DEF LockFile, CanTryFile, TypeOK, session
  <2>1. CASE g # f
    BY <1>2, <2>0, <2>1 DEF LockFile, Good
  <2>2. CASE g = f /\ FlOwner(f) = u /\ flock' = [flock EXCEPT ![f].txn = txn[u]]
    <3>1. flock[f] # NoLock /\ flock[f].owner = u /\ flock[f] \in FileLock
      BY <2>0, <2>2, OwnerIs
    <3>2. flock'[f] = [flock[f] EXCEPT !.txn = txn[u]] /\ txn[u] \in 0 .. MaxTxn
      BY <2>0, <2>2 DEF TypeOK
    <3>3. flock'[f] \in FileLock /\ flock'[f].owner = u /\ flock'[f].fvar = flock[f].fvar
      BY <3>1, <3>2 DEF FileLock
    <3>4. QED
      BY <3>1, <3>3, NoLockAssumption DEF FileGranted, FileLock, Good
  <2>3. CASE /\ g = f /\ FileFree(u, f)
             /\ flock' = [flock EXCEPT ![f] = [owner |-> u, fvar |-> fv, txn |-> txn[u]]]
    <3>1. /\ flock'[f] = [owner |-> u, fvar |-> fv, txn |-> txn[u]] /\ flock[f] = NoLock
          /\ txn[u] \in 0 .. MaxTxn
      BY <2>0, <2>3 DEF TypeOK, FileFree
    <3>2. flock'[f] \in FileLock
      BY <3>1 DEF FileLock
    <3>3. \A c \in Used : FileOf[cell[c].rec] = f => cell[c].owner = u
      BY <2>3, FileFreeMeans DEF LockInv
    <3>4. QED
      BY <2>0, <3>1, <3>2, <3>3, NoLockAssumption DEF FileGranted, FileLock, Good
  <2>4. QED
    BY <1>2, <2>1, <2>2, <2>3 DEF LockFile
<1>3. CASE Statement(u)
  <2>1. ASSUME NEW fv \in Fvars, NEW r \in Recs, ReleaseRecord(u, fv, r)
        PROVE  Good
    BY <2>1, <1>a DEF ReleaseRecord
  <2>2. ASSUME NEW fv \in Fvars, ReleaseFile(u, fv) \/ Close(u, fv)
        PROVE  Good
    BY <2>2, <1>a, <1>r DEF ReleaseFile, Close
  <2>3. CASE ReleaseAll(u)
    BY <2>3, <1>a, <1>r DEF ReleaseAll
  <2>4. CASE Flunlock(u) \/ CloseFileLock(u)
    <3>1. GiveUp({}, {FvarFile[proc[u].fvar]}, {}) /\ proc[u].at \in {"flunlock", "close"}
      BY <2>4 DEF Flunlock, CloseFileLock
    <3>2. f \in {FvarFile[proc[u].fvar]} => ~TestHolds(u) \/ f \in Own
      BY <3>1 DEF TestHolds
    <3>3. QED
      BY <1>a, <3>1, <3>2
  <2>5. ASSUME NEW keep \in BOOLEAN, WriteEnd(u, keep)
        PROVE  Good
    <3>1. PICK S : GiveUp(S, {}, {})
      BY <2>5 DEF WriteEnd
    <3>2. QED
      BY <3>1, <1>a
  <2>6. CASE EndTxn(u)
    BY <2>6, <1>b DEF EndTxn
  <2>7. CASE flock' = flock
    BY <2>7 DEF Good
  <2>8. QED
    BY <1>1, <1>2, <1>3, <2>1, <2>2, <2>3, <2>4, <2>5, <2>6, <2>7 DEF Statement, FileLockRefused,
       WriteStart, FlunlockTest, CloseLater, Reopen, CloseTest, BeginTxn, shared
<1>4. CASE SessionEvent(u)
  <2>1. CASE AbortWait(u)
    BY <2>1, <1>b DEF AbortWait
  <2>2. CASE Reap(u)
    BY <2>2, <1>a DEF Reap
  <2>3. CASE flock' = flock
    BY <2>3 DEF Good
  <2>4. QED
    BY <1>4, <2>1, <2>2, <2>3 DEF SessionEvent, BreakQuit, Logout, Login, Crash, RebuildLlt, shared
<1>5. CASE UnlockCommand(u)
  <2>1. ASSUME NEW vs, NEW rs, AdminUnlock(u, vs, rs)
        PROVE  Good
    BY <2>1, <1>a DEF AdminUnlock
  <2>2. ASSUME NEW vs, NEW fs, AdminUnlockFile(u, vs, fs)
        PROVE  Good
    <3>1. u \in FileAdmins /\ \E FS : GiveUp({}, FS, {})
      BY <2>2 DEF AdminUnlockFile
    <3>2. QED
      BY <3>1, <1>a
  <2>3. QED
    BY <1>5, <2>1, <2>2 DEF UnlockCommand
<1>6. QED
  BY <1>3, <1>4, <1>5 DEF Act, Good

-----------------------------------------------------------------------------
(* Writes and transactions.                                                 *)

LEMMA ProcFields ==
  ASSUME TypeOK, NEW u \in Users
  PROVE  /\ proc[u].at \in {"flunlock", "close", "unlock"} => proc[u].fvar \in Fvars
         /\ proc[u].at = "write" => proc[u].rec \in Recs
<1>1. proc[u] \in Procs
  BY DEF TypeOK
<1>2. QED
  BY <1>1 DEF Procs

(* The places in an opcode where a session lets the semaphore go between a  *)
(* test and what it does about it.                                          *)
LEMMA MyProc ==
  ASSUME TypeOK, NEW u \in Users, Act(u)
  PROVE  \/ proc'[u].at \notin {"flunlock", "close", "unlock", "write", "gone"}
         \/ \E fv \in Fvars : FlunlockTest(u, fv) \/ CloseTest(u, fv)
         \/ \E fv \in Fvars, r \in Recs : WriteStart(u, fv, r)
         \/ CloseFileLock(u) \/ Logout(u) \/ Reap(u)
<1> USE DEF TypeOK, ReadyState, RecordReq, FileReq
<1>1. CASE LockRecord(u)
  <2> PICK fv \in Fvars, r \in Recs, m \in {"update", "shared"}, nw \in BOOLEAN :
        \/ RefusedByFileLock(u, fv, r, m, nw)
        \/ Relock(u, fv, r, m, nw)
        \/ RefusedByRecord(u, fv, r, m, nw)
        \/ DeadlockFound(u, fv, r, m, nw)
        \/ ScanCircles(u, fv, r, m, nw)
        \/ Upgrade(u, fv, r, m, nw)
        \/ TableFull(u, fv, r, m, nw)
        \/ NewLock(u, fv, r, m, nw)
    BY <1>1 DEF LockRecord, Ask
  <2>1. CASE RefusedByFileLock(u, fv, r, m, nw) \/ RefusedByRecord(u, fv, r, m, nw)
    BY <2>1 DEF RefusedByFileLock, RefusedByRecord, Refused
  <2>2. CASE Relock(u, fv, r, m, nw) \/ Upgrade(u, fv, r, m, nw) \/ NewLock(u, fv, r, m, nw)
    <3>1. Granted(u)
      BY <2>2 DEF Relock, Upgrade, NewLock
    <3>2. QED
      BY <3>1 DEF Granted
  <2>3. CASE DeadlockFound(u, fv, r, m, nw) \/ ScanCircles(u, fv, r, m, nw)
    BY <2>3 DEF DeadlockFound, ScanCircles
  <2>4. CASE TableFull(u, fv, r, m, nw)
    BY <2>4 DEF TableFull
  <2>5. QED
    BY <2>1, <2>2, <2>3, <2>4
<1>2. CASE Statement(u)
  <2>1. ASSUME NEW fv \in Fvars, NEW nw \in BOOLEAN, LockFile(u, fv, nw) \/ FileLockRefused(u, fv, nw)
        PROVE  proc'[u].at \in {"ready", "file"}
    BY <2>1 DEF LockFile, FileLockRefused, Granted
  <2>2. CASE \/ \E fv \in Fvars, r \in Recs : ReleaseRecord(u, fv, r)
             \/ \E fv \in Fvars : ReleaseFile(u, fv) \/ CloseLater(u, fv) \/ Reopen(u, fv)
             \/ ReleaseAll(u) \/ BeginTxn(u) \/ EndTxn(u)
    <3>1. Ready(u) /\ proc' = proc
      BY <2>2 DEF ReleaseRecord, ReleaseFile, CloseLater, Reopen, ReleaseAll, BeginTxn, EndTxn
    <3>2. QED
      BY <3>1 DEF Ready
  <2>3. CASE Flunlock(u) \/ \E fv \in Fvars : Close(u, fv)
    <3>1. proc' = [proc EXCEPT ![u] = ReadyState]
      BY <2>3 DEF Flunlock, Close
    <3>2. QED
      BY <3>1
  <2>4. CASE \E keep \in BOOLEAN : WriteEnd(u, keep)
    BY <2>4 DEF WriteEnd
  <2>5. QED
    BY <1>1, <1>2, <2>1, <2>2, <2>3, <2>4 DEF Statement
<1>3. CASE SessionEvent(u)
  BY <1>3 DEF SessionEvent, AbortWait, BreakQuit, Logout, Login, Crash, Reap, RebuildLlt, Ready,
     InLockWait
<1>4. CASE UnlockCommand(u)
  <2>1. Ready(u) /\ proc' = proc
    BY <1>4 DEF UnlockCommand, AdminUnlock, AdminUnlockFile
  <2>2. QED
    BY <2>1 DEF Ready
<1>5. QED
  BY <1>2, <1>3, <1>4 DEF Act

(* What lets a session write a record.                                      *)
MayWrite(u, r) ==
  \/ FlOwner(FileOf[r]) = u
  \/ \E c \in Used : cell[c].owner = u /\ cell[c].rec = r /\ cell[c].mode = "update"

WriteOK(u) == TestHolds(u) /\ (proc[u].at = "write" => MayWrite(u, proc[u].rec))

WriteInv == \A u \in Users : WriteOK(u)

LEMMA CheckedMayWrite ==
  ASSUME TypeOK, NEW u \in Users, NEW r \in Recs, CheckLock(u, r)
  PROVE  MayWrite(u, r)
<1>1. \A c \in Mine(u, r) : c \in Used /\ cell[c].owner = u /\ cell[c].rec = r
  BY Released
<1>2. QED
  BY <1>1 DEF CheckLock, MayWrite

LEMMA FileStays ==
  ASSUME TypeOK, LockInv, WriteInv, FileAdmins = {}, NEW u \in Users, Act(u),
         NEW v \in Users, v # u, NEW f \in Files, FlOwner(f) = v
  PROVE  FlOwner(f)' = v
<1>1. flock[f] # NoLock /\ flock[f].owner = v
  BY OwnerIs
<1>2. TestHolds(u)
  BY DEF WriteInv, WriteOK
<1>3. flock'[f] = flock[f]
  BY <1>1, <1>2, FileSteps DEF FileFreed, FileGranted
<1>4. QED
  BY <1>1, <1>3 DEF FlOwner

LEMMA CellStays ==
  ASSUME TypeOK, LockInv, Admins = {}, NEW u \in Users, Act(u),
         NEW c \in Used, cell[c].owner # u
  PROVE  cell'[c] = cell[c]
<1>1. c \in Cells /\ cell[c] # NoLock
  BY DEF Used
<1>2. QED
  BY <1>1, CellSteps DEF CellFreed, CellGranted

LEMMA WriteStep ==
  ASSUME TypeOK, LockInv, WriteInv, Admins = {}, FileAdmins = {}, [Next]_vars
  PROVE  WriteInv'
<1>1. ASSUME NEW u \in Users, Act(u), NEW v \in Users, v # u
      PROVE  WriteOK(v)'
  <2>1. proc'[v] = proc[v]
    BY <1>1, TheirsPrivate
  <2>2. ASSUME NEW f \in Files, FlOwner(f) = v
        PROVE  FlOwner(f)' = v
    BY <1>1, <2>2, FileStays
  <2>3. TestHolds(v)'
    <3>1. TestHolds(v)
      BY DEF WriteInv, WriteOK
    <3>2. proc[v].at \in {"flunlock", "close"} => FvarFile[proc[v].fvar] \in Files
      BY ProcFields, ConstantsAssumption
    <3>3. QED
      BY <2>1, <2>2, <3>1, <3>2 DEF TestHolds
  <2>4. ASSUME proc[v].at = "write"
        PROVE  MayWrite(v, proc[v].rec)'
    <3>1. proc[v].rec \in Recs /\ FileOf[proc[v].rec] \in Files /\ MayWrite(v, proc[v].rec)
      BY <2>4, ProcFields, ConstantsAssumption DEF WriteInv, WriteOK
    <3>2. CASE FlOwner(FileOf[proc[v].rec]) = v
      BY <2>1, <2>2, <3>1, <3>2 DEF MayWrite
    <3>3. ASSUME NEW c \in Used, cell[c].owner = v, cell[c].rec = proc[v].rec, cell[c].mode = "update"
          PROVE  MayWrite(v, proc[v].rec)'
      <4>1. cell'[c] = cell[c]
        BY <1>1, <3>3, CellStays
      <4>2. QED
        BY <2>1, <3>3, <4>1 DEF MayWrite, Used
    <3>4. QED
      BY <3>1, <3>2, <3>3 DEF MayWrite
  <2>5. QED
    BY <2>1, <2>3, <2>4 DEF WriteOK
<1>2. ASSUME NEW u \in Users, Act(u)
      PROVE  WriteOK(u)'
  <2>1. ASSUME NEW fv \in Fvars, FlunlockTest(u, fv) \/ CloseTest(u, fv)
        PROVE  TestHolds(u)' /\ proc'[u].at # "write"
    BY <2>1 DEF FlunlockTest, CloseTest, TestHolds, FvarFileLocks, FlOwner, shared, TypeOK
  <2>2. ASSUME NEW fv \in Fvars, NEW r \in Recs, WriteStart(u, fv, r)
        PROVE  WriteOK(u)'
    <3>1. MayWrite(u, r)
      BY <2>2, CheckedMayWrite DEF WriteStart
    <3>2. proc'[u].at = "write" /\ proc'[u].rec = r /\ UNCHANGED <<cell, flock>>
      BY <2>2 DEF WriteStart, shared, TypeOK
    <3>3. QED
      BY <3>1, <3>2 DEF WriteOK, TestHolds, MayWrite, FlOwner, Used
  <2>3. CASE CloseFileLock(u)
    BY <2>3 DEF CloseFileLock, TestHolds, WriteOK, TypeOK
  <2>4. CASE Logout(u) \/ Reap(u)
    BY <2>4 DEF Logout, Reap, TestHolds, WriteOK, TypeOK
  <2>5. QED
    BY <1>2, <2>1, <2>2, <2>3, <2>4, MyProc DEF TestHolds, WriteOK
<1>3. CASE UNCHANGED vars
  BY <1>3 DEF vars, shared, WriteInv, WriteOK, TestHolds, MayWrite, FlOwner, Used
<1>4. ASSUME NEW u \in Users, Act(u), NEW v \in Users
      PROVE  WriteOK(v)'
  BY <1>1, <1>2, <1>4
<1>5. QED
  BY <1>3, <1>4, ActsOrNone DEF WriteInv, WriteOK

(* WritesExclusive: as long as no administrator takes locks away, no two    *)
(* sessions are ever between check_lock and the end of a write of one       *)
(* record, whichever of them holds the record lock, and whichever the file  *)
(* lock.                                                                    *)
THEOREM WritesExclude ==
  Admins = {} /\ FileAdmins = {} => (Spec => []WritesExclusive)
<1> SUFFICES ASSUME Admins = {}, FileAdmins = {}
             PROVE  Spec => []WritesExclusive
  OBVIOUS
<1>1. Init => WriteInv
  BY DEF Init, WriteInv, WriteOK, TestHolds, ReadyState
<1>2. TypeOK /\ LockInv /\ WriteInv /\ [Next]_vars => WriteInv'
  BY WriteStep
<1>3. TypeOK /\ LockInv /\ WriteInv => WritesExclusive
  <2> SUFFICES ASSUME TypeOK, LockInv, WriteInv, NEW u \in Users, NEW v \in Users, u # v,
                      proc[u].at = "write", proc[v].at = "write", proc[u].rec = proc[v].rec
               PROVE  FALSE
    BY DEF WritesExclusive
  <2> DEFINE r == proc[u].rec
  <2>1. MayWrite(u, r) /\ MayWrite(v, r)
    BY DEF WriteInv, WriteOK
  <2>2. \A c \in Used : cell[c].rec = r => FlOwner(FileOf[r]) \in {NoUser, cell[c].owner}
    BY DEF LockInv, FileLockExclusive
  <2>3. \A c, d \in Used : c # d /\ cell[c].rec = r /\ cell[d].rec = r => cell[c].mode = "shared"
    BY DEF LockInv, RecordsExclusive
  <2> HIDE DEF r
  <2>4. QED
    BY <2>1, <2>2, <2>3, ConstantsAssumption DEF MayWrite
<1>4. QED
  BY <1>1, <1>2, <1>3, TypeCorrect, LockInvariant, PTL DEF Spec

(* A CLOSE that gives locks up is of a session outside a transaction.       *)
CloseInv == \A u \in Users : proc[u].at \in {"close", "unlock"} => txn[u] = 0

LEMMA CloseStep ==
  ASSUME TypeOK, CloseInv, NonTxn = {}, [Next]_vars
  PROVE  CloseInv'
<1>1. ASSUME NEW u \in Users, Act(u), proc'[u].at \in {"close", "unlock"}
      PROVE  txn'[u] = 0
  <2>1. ASSUME NEW fv \in Fvars, FlunlockTest(u, fv) \/ CloseTest(u, fv)
        PROVE  txn'[u] = 0
    BY <1>1, <2>1 DEF FlunlockTest, CloseTest, TxnFor, session, TypeOK
  <2>2. ASSUME NEW fv \in Fvars, NEW r \in Recs, WriteStart(u, fv, r)
        PROVE  FALSE
    BY <1>1, <2>2 DEF WriteStart, TypeOK
  <2>3. CASE CloseFileLock(u)
    BY <2>3 DEF CloseFileLock, CloseInv, session
  <2>4. ~Logout(u) /\ ~Reap(u)
    BY <1>1 DEF Logout, Reap, TypeOK
  <2>5. QED
    BY <1>1, <2>1, <2>2, <2>3, <2>4, MyProc
<1>2. ASSUME NEW u \in Users, Act(u), NEW v \in Users, v # u, proc'[v].at \in {"close", "unlock"}
      PROVE  txn'[v] = 0
  BY <1>2, TheirsPrivate DEF CloseInv
<1>3. CASE UNCHANGED vars
  BY <1>3 DEF vars, session, CloseInv
<1>4. QED
  BY <1>1, <1>2, <1>3, ActsOrNone DEF CloseInv

(* While its transaction goes on, a session gives no lock of it up.         *)
LEMMA TxnCellStays ==
  ASSUME TypeOK, LockInv, CloseInv, NonTxn = {}, Admins = {}, NEW u \in Users, Act(u),
         NEW c \in Used, cell[c].owner = u, txn[u] # 0, txn'[u] = txn[u], proc'[u].at # "gone"
  PROVE  cell'[c] # NoLock /\ cell'[c].owner = u /\ cell'[c].rec = cell[c].rec
<1>1. c \in Cells /\ cell[c] # NoLock
  BY DEF Used
<1>2. \A fv \in Fvars : TxnFor(u, fv) # 0
  BY DEF TxnFor
<1>3. ASSUME Releases(u)
      PROVE  cell' = cell
  <2>1. ~ \E fv \in Fvars, r \in Recs : ReleaseRecord(u, fv, r)
    BY <1>2 DEF ReleaseRecord
  <2>2. ~ \E fv \in Fvars : ReleaseFile(u, fv)
    BY <1>2 DEF ReleaseFile
  <2>3. ASSUME NEW fv \in Fvars, Close(u, fv)
        PROVE  FALSE
    BY <1>2, <2>3 DEF Close, CloseInv
  <2>4. ~(\E quit : LeaveTxn(u, quit)) /\ ~ReleaseAll(u)
    BY DEF LeaveTxn, ReleaseAll, TypeOK
  <2>5. ~Reap(u)
    BY DEF Reap, TypeOK
  <2>6. ASSUME NEW keep \in BOOLEAN, WriteEnd(u, keep)
        PROVE  cell' = cell
    <3>1. TxnFor(u, proc[u].fvar) # 0
      BY DEF TxnFor
    <3>2. GiveUp({}, {}, {})
      BY <2>6, <3>1 DEF WriteEnd
    <3>3. QED
      BY <3>2 DEF GiveUp, FreeCells, TypeOK
  <2>7. CASE UnlockCommand(u)
    <3>1. \E FS : GiveUp({}, FS, {})
      BY <2>7 DEF UnlockCommand, AdminUnlock, AdminUnlockFile
    <3>2. QED
      BY <3>1 DEF GiveUp, FreeCells, TypeOK
  <2>8. QED
    BY <1>3, <2>1, <2>2, <2>3, <2>4, <2>5, <2>6, <2>7 DEF Releases
<1>4. QED
  BY <1>1, <1>3, CellSteps, NoLockAssumption DEF CellFreed, CellGranted

(* TxnKeepsLocks: with files opened for transactions and no administrator   *)
(* in the way, a session keeps every lock it took in a transaction until    *)
(* the transaction ends, whatever it releases, closes, writes or relocks.   *)
THEOREM TransactionsKeepLocks ==
  NonTxn = {} /\ Admins = {} => (Spec => TxnKeepsLocks)
<1> SUFFICES ASSUME NonTxn = {}, Admins = {}
             PROVE  Spec => TxnKeepsLocks
  OBVIOUS
<1> DEFINE Kept ==
      \A c \in Used : LET u == cell[c].owner IN
        (/\ cell[c].txn # 0 /\ cell[c].txn = txn[u]
         /\ txn'[u] = txn[u] /\ proc'[u].at # "gone")
          => \E d \in Cells : /\ cell'[d] # NoLock
                              /\ cell'[d].owner = u /\ cell'[d].rec = cell[c].rec
<1>1. Init => CloseInv
  BY DEF Init, CloseInv
<1>2. TypeOK /\ CloseInv /\ [Next]_vars => CloseInv'
  BY CloseStep
<1>3. TypeOK /\ LockInv /\ CloseInv /\ [Next]_vars => [Kept]_vars
  <2> SUFFICES ASSUME TypeOK, LockInv, CloseInv, NEW w \in Users, Act(w), NEW c \in Used,
                      cell[c].txn # 0, cell[c].txn = txn[cell[c].owner],
                      txn'[cell[c].owner] = txn[cell[c].owner],
                      proc'[cell[c].owner].at # "gone"
               PROVE  \E d \in Cells : /\ cell'[d] # NoLock
                                       /\ cell'[d].owner = cell[c].owner
                                       /\ cell'[d].rec = cell[c].rec
    BY ActsOrNone
  <2>1. c \in Cells /\ cell[c] # NoLock
    BY DEF Used
  <2>2. CASE cell[c].owner = w
    BY <2>1, <2>2, TxnCellStays
  <2>3. CASE cell[c].owner # w
    BY <2>1, <2>3, CellStays
  <2>4. QED
    BY <2>2, <2>3
<1>4. QED
  BY <1>1, <1>2, <1>3, TypeCorrect, LockInvariant, PTL DEF Spec, TxnKeepsLocks

-----------------------------------------------------------------------------
(* The local lock tables and the end of a session.                          *)

Live(u) == proc[u].at \notin {"dead", "gone"}

(* The files a session has open, or has closed in its transaction.          *)
Keeps(u) == open[u] \cup closing[u]

OpenedOnce == \A v, w \in Fvars : FvarFile[v] = FvarFile[w] => v = w

(* A lock and its entries in the LLT are of openings of the record's file.  *)
OpeningsOK ==
  /\ \A c \in Used : FvarFile[cell[c].fvar] = FileOf[cell[c].rec]
  /\ \A u \in Users : \A r \in Recs : \A i \in DOMAIN llt[u][r] :
       FvarFile[llt[u][r][i]] = FileOf[r]
  /\ Admins = {} => rebuild = {}

(* The newest entry of a lock in the LLT is of a file that is still to be   *)
(* closed, and so is the opening of a file lock.                            *)
LocksListed(u) ==
  /\ \A c \in Used : cell[c].owner = u =>
       /\ llt[u][cell[c].rec] # <<>>
       /\ llt[u][cell[c].rec][1] \in Keeps(u)
  /\ \A f \in Files : FlOwner(f) = u => flock[f].fvar \in Keeps(u)
  /\ txn[u] = 0 => closing[u] = {}

SessionOK(u) ==
  /\ ~Present(u) => (\A c \in Used : cell[c].owner # u) /\ (\A f \in Files : FlOwner(f) # u)
  /\ Live(u) => LocksListed(u)

SessionInv == OpeningsOK /\ \A u \in Users : SessionOK(u)

LEMMA LltTyped ==
  ASSUME TypeOK, NEW u \in Users, NEW r \in Recs
  PROVE  /\ llt[u][r] \in Seq(Fvars) /\ DOMAIN llt[u][r] = 1 .. Len(llt[u][r])
         /\ llt[u][r] # <<>> => /\ 1 \in DOMAIN llt[u][r] /\ llt[u][r][1] \in Fvars
                                /\ Tail(llt[u][r]) \in Seq(Fvars)
                                /\ DOMAIN Tail(llt[u][r]) = 1 .. Len(llt[u][r]) - 1
                                /\ \A i \in 1 .. Len(llt[u][r]) - 1 :
                                     Tail(llt[u][r])[i] = llt[u][r][i + 1]
  BY EmptySeq, LenProperties, ElementOfSeq, HeadTailProperties DEF TypeOK

LEMMA PushedLlt ==
  ASSUME NEW l \in Seq(Fvars), NEW fv \in Fvars, NEW q, q = <<fv>> \o l
  PROVE  /\ q # <<>> /\ q[1] = fv
         /\ \A i \in DOMAIN q : i = 1 \/ (i - 1 \in DOMAIN l /\ q[i] = l[i - 1])
<1>1. q \in Seq(Fvars) /\ Len(q) = Len(l) + 1 /\ Len(l) \in Nat
  OBVIOUS
<1>2. DOMAIN q = 1 .. Len(l) + 1 /\ DOMAIN l = 1 .. Len(l)
  BY <1>1
<1>3. q[1] = fv /\ \A i \in 2 .. Len(l) + 1 : q[i] = l[i - 1]
  OBVIOUS
<1>4. QED
  BY <1>1, <1>2, <1>3

(* A lock is counted in its file, and the scan of its record meets it.      *)
LEMMA LockIsMine ==
  ASSUME TypeOK, LockInv, NEW c \in Used
  PROVE  /\ cell[c].rec \in Recs /\ cell[c].owner \in Users /\ cell[c].fvar \in Fvars
         /\ c \in Mine(cell[c].owner, cell[c].rec)
         /\ lockCount[FileOf[cell[c].rec]] # 0
<1>1. cell[c] \in Lock /\ cell[c].rec \in Recs /\ cell[c].owner \in Users /\ cell[c].fvar \in Fvars
  BY UsedIsLock DEF Lock
<1>2. c \in Mine(cell[c].owner, cell[c].rec)
  BY <1>1, EntriesAll DEF LockInv, Mine
<1> DEFINE f == FileOf[cell[c].rec]
           S == {d \in Used : FileOf[cell[d].rec] = f}
<1>3. f \in Files /\ lockCount[f] = Cardinality(S)
  BY <1>1, ConstantsAssumption DEF LockInv, CountersExact
<1>4. c \in S /\ IsFiniteSet(S)
  BY UsedFinite
<1>5. Cardinality(S) # 0
  BY <1>4, FS_EmptySet
<1>6. QED
  BY <1>1, <1>2, <1>3, <1>5

(* What an entry of the LLT lists, CLOSE and the end of a transaction find. *)
LEMMA ListedIsFound ==
  ASSUME TypeOK, LockInv, NEW c \in Used, NEW fvs, llt[cell[c].owner][cell[c].rec] # <<>>,
         llt[cell[c].owner][cell[c].rec][1] \in fvs
  PROVE  c \in FvarCells(cell[c].owner, fvs)
<1> DEFINE u == cell[c].owner
           r == cell[c].rec
<1>1. u \in Users /\ r \in Recs /\ c \in Mine(u, r) /\ lockCount[FileOf[r]] # 0
  BY LockIsMine
<1>2. Listed(u, r, fvs)
  BY <1>1, LltTyped DEF Listed
<1>3. QED
  BY <1>1, <1>2 DEF FvarCells

(* Locks are given up by record: a record that keeps a lock of the session  *)
(* keeps its entries.                                                       *)
ByRecord(u, S) == \E R \in SUBSET Recs : S = UNION {Mine(u, r) : r \in R}

LEMMA DropKeeps ==
  ASSUME TypeOK, LockInv, NEW u \in Users, NEW S, ByRecord(u, S), DropLlt(u, S),
         NEW c \in Used, cell[c].owner = u, c \notin S
  PROVE  llt'[u][cell[c].rec] = llt[u][cell[c].rec]
<1>1. PICK R \in SUBSET Recs : S = UNION {Mine(u, r) : r \in R}
  BY DEF ByRecord
<1>2. cell[c].rec \in Recs /\ c \in Mine(u, cell[c].rec)
  BY LockIsMine
<1>3. cell[c].rec \notin R
  BY <1>1, <1>2
<1>4. \A r : \A d \in Mine(u, r) : cell[d].rec = r
  BY Released
<1>5. ~ \E d \in S : cell[d].rec = cell[c].rec
  BY <1>1, <1>3, <1>4
<1>6. QED
  BY <1>2, <1>5 DEF DropLlt, TypeOK

LEMMA DropOpenings ==
  ASSUME TypeOK, OpeningsOK, NEW u \in Users, NEW S, DropLlt(u, S),
         NEW v \in Users, NEW r \in Recs, NEW i \in DOMAIN llt'[v][r]
  PROVE  FvarFile[llt'[v][r][i]] = FileOf[r]
<1>1. llt'[v][r] = llt[v][r] \/ (llt[v][r] # <<>> /\ llt'[v][r] = Tail(llt[v][r]))
  BY DEF DropLlt, TypeOK
<1>2. CASE llt'[v][r] = llt[v][r]
  BY <1>2 DEF OpeningsOK
<1>3. CASE llt[v][r] # <<>> /\ llt'[v][r] = Tail(llt[v][r])
  <2>1. /\ i \in 1 .. Len(llt[v][r]) - 1 /\ llt'[v][r][i] = llt[v][r][i + 1]
        /\ DOMAIN llt[v][r] = 1 .. Len(llt[v][r]) /\ Len(llt[v][r]) \in Nat
    BY <1>3, LltTyped, LenProperties
  <2>2. i + 1 \in DOMAIN llt[v][r]
    BY <2>1
  <2>3. QED
    BY <2>1, <2>2 DEF OpeningsOK
<1>4. QED
  BY <1>1, <1>2, <1>3

(* The sets of cells RELEASE, CLOSE and WRITE give up are by record.        *)
LEMMA GivenByRecord ==
  ASSUME NEW u \in Users
  PROVE  /\ \A r \in Recs : ByRecord(u, Mine(u, r))
         /\ \A fvs : ByRecord(u, FvarCells(u, fvs))
         /\ ByRecord(u, {})
<1>1. ASSUME NEW r \in Recs
      PROVE  ByRecord(u, Mine(u, r))
  <2>1. {r} \in SUBSET Recs /\ Mine(u, r) = UNION {Mine(u, x) : x \in {r}}
    OBVIOUS
  <2>2. QED
    BY <2>1 DEF ByRecord
<1>2. ASSUME NEW fvs
      PROVE  ByRecord(u, FvarCells(u, fvs))
  <2> DEFINE R == {x \in Recs : Listed(u, x, fvs) /\ lockCount[FileOf[x]] # 0}
  <2>1. R \in SUBSET Recs /\ FvarCells(u, fvs) = UNION {Mine(u, x) : x \in R}
    BY DEF FvarCells
  <2>2. QED
    BY <2>1 DEF ByRecord
<1>3. ByRecord(u, {})
  <2>1. {} \in SUBSET Recs /\ {} = UNION {Mine(u, x) : x \in {}}
    OBVIOUS
  <2>2. QED
    BY <2>1 DEF ByRecord
<1>4. QED
  BY <1>1, <1>2, <1>3


LEMMA TheirsOK ==
  ASSUME TypeOK, LockInv, NEW u \in Users, Act(u), NEW v \in Users, v # u, SessionOK(v)
  PROVE  SessionOK(v)'
<1>1. /\ llt'[v] = llt[v] /\ txn'[v] = txn[v] /\ Keeps(v)' = Keeps(v)
      /\ closing'[v] = closing[v] /\ proc'[v] = proc[v]
  BY TheirsPrivate DEF Keeps
<1>2. ASSUME NEW c \in Used', cell'[c].owner = v
      PROVE  c \in Used /\ cell'[c] = cell[c]
  BY <1>2, CellSteps DEF Used, CellFreed, CellGranted
<1>3. ASSUME NEW f \in Files, FlOwner(f)' = v
      PROVE  flock'[f] = flock[f] /\ FlOwner(f) = v
  <2>1. flock'[f] # NoLock /\ flock'[f].owner = v
    BY <1>3, ConstantsAssumption DEF FlOwner
  <2>2. flock'[f] = flock[f]
    BY <2>1, FileSteps DEF FileFreed, FileGranted
  <2>3. QED
    BY <2>1, <2>2 DEF FlOwner
<1>4. (Present(v)' <=> Present(v)) /\ (Live(v)' <=> Live(v))
  BY <1>1 DEF Present, Live
<1>5. ASSUME ~Present(v)
      PROVE  (\A c \in Used' : cell'[c].owner # v) /\ (\A f \in Files : FlOwner(f)' # v)
  BY <1>2, <1>3, <1>5 DEF SessionOK
<1>6. ASSUME LocksListed(v)
      PROVE  LocksListed(v)'
  BY <1>1, <1>2, <1>3, <1>6 DEF LocksListed
<1>7. QED
  BY <1>4, <1>5, <1>6 DEF SessionOK

(* A session that keeps its locks, their entries and its files is as it was.*)
LEMMA ListedStep ==
  ASSUME TypeOK, LockInv, NEW u \in Users, Act(u), ~GrantsNew(u), LocksListed(u),
         \A c \in Used : cell[c].owner = u /\ cell'[c] # NoLock =>
           /\ llt'[u][cell[c].rec] = llt[u][cell[c].rec]
           /\ llt[u][cell[c].rec][1] \in Keeps(u)',
         \A f \in Files : FlOwner(f) = u /\ flock'[f] # NoLock => flock[f].fvar \in Keeps(u)',
         txn'[u] = 0 => closing'[u] = {}
  PROVE  LocksListed(u)'
<1>1. ASSUME NEW c \in Used', cell'[c].owner = u
      PROVE  llt'[u][cell'[c].rec] # <<>> /\ llt'[u][cell'[c].rec][1] \in Keeps(u)'
  <2>1. c \in Cells /\ cell'[c] # NoLock
    BY <1>1 DEF Used
  <2>2. cell[c] # NoLock /\ cell[c].owner = u /\ cell'[c].rec = cell[c].rec
    BY <1>1, <2>1, CellSteps DEF CellFreed, CellGranted
  <2>3. c \in Used
    BY <2>1, <2>2 DEF Used
  <2>4. QED
    BY <2>1, <2>2, <2>3 DEF LocksListed
<1>2. ASSUME NEW f \in Files, FlOwner(f)' = u
      PROVE  flock'[f].fvar \in Keeps(u)'
  <2>1. flock'[f] # NoLock /\ flock'[f].owner = u
    BY <1>2, ConstantsAssumption DEF FlOwner
  <2>2. CASE flock[f] = NoLock
    <3>1. FileGranted(u, f)
      BY <2>1, <2>2, FileSteps DEF FileFreed
    <3>2. QED
      BY <2>2, <3>1 DEF FileGranted, Keeps
  <2>3. CASE flock[f] # NoLock
    <3>1. flock[f].owner = u /\ flock'[f].fvar = flock[f].fvar
      BY <2>1, <2>3, FileSteps DEF FileFreed, FileGranted
    <3>2. QED
      BY <2>1, <2>3, <3>1, OwnerIs
  <2>4. QED
    BY <2>2, <2>3
<1>3. QED
  BY <1>1, <1>2 DEF LocksListed

LEMMA QuietStep ==
  ASSUME TypeOK, LockInv, NEW u \in Users, Act(u), ~GrantsNew(u), LocksListed(u),
         llt'[u] = llt[u], Keeps(u)' = Keeps(u), txn'[u] = 0 => closing'[u] = {}
  PROVE  LocksListed(u)'
BY ListedStep DEF LocksListed

(* RELEASE and the end of a write.                                          *)
LEMMA DropStep ==
  ASSUME TypeOK, LockInv, NEW u \in Users, Act(u), ~GrantsNew(u), LocksListed(u),
         NEW S, NEW FS, GiveUp(S, FS, {}), DropLlt(u, S), ByRecord(u, S), UNCHANGED session
  PROVE  LocksListed(u)'
<1>1. Keeps(u)' = Keeps(u) /\ (txn'[u] = 0 => closing'[u] = {})
  BY DEF Keeps, session, LocksListed
<1>2. \A c \in Used : cell[c].owner = u /\ cell'[c] # NoLock =>
        llt'[u][cell[c].rec] = llt[u][cell[c].rec]
  BY DropKeeps DEF GiveUp, FreeCells, Used
<1>3. QED
  BY <1>1, <1>2, ListedStep DEF LocksListed

LEMMA NewLockStep ==
  ASSUME TypeOK, LockInv, NEW u \in Users, LocksListed(u),
         NEW fv \in Fvars, NEW r \in Recs, NEW m \in {"update", "shared"}, NEW nw \in BOOLEAN,
         NewLock(u, fv, r, m, nw)
  PROVE  LocksListed(u)'
<1> DEFINE d == First(HashOf[r], Cells \ Used)
           l == [owner |-> u, rec |-> r, mode |-> m, fvar |-> fv, txn |-> TxnFor(u, fv)]
           q == <<fv>> \o llt[u][r]
<1>1. /\ HashOf[r] \in Cells /\ Cells \ Used \in SUBSET Cells /\ Cells \ Used # {}
      /\ fv \in open[u]
  BY ConstantsAssumption DEF NewLock, NoConflict, CanTry, Used
<1>2. d \in Cells /\ cell[d] = NoLock
  BY <1>1, FirstIsThere DEF Used
<1>3. /\ cell' = [cell EXCEPT ![d] = l] /\ llt' = [llt EXCEPT ![u][r] = q]
      /\ UNCHANGED <<flock, session>>
  BY DEF NewLock
<1>4. llt[u][r] \in Seq(Fvars)
  BY LltTyped
<1>5. q # <<>> /\ q[1] = fv
  BY <1>4, PushedLlt
<1>6. l.owner = u /\ l.rec = r
  OBVIOUS
<1> HIDE DEF d, l, q
<1>7. Keeps(u)' = Keeps(u) /\ fv \in Keeps(u)
  BY <1>1, <1>3 DEF Keeps, session
<1>8. ASSUME NEW c \in Used', cell'[c].owner = u
      PROVE  llt'[u][cell'[c].rec] # <<>> /\ llt'[u][cell'[c].rec][1] \in Keeps(u)
  <2>1. llt'[u][r] = q /\ \A x \in Recs : x # r => llt'[u][x] = llt[u][x]
    BY <1>3 DEF TypeOK
  <2>2. CASE c = d
    BY <1>2, <1>3, <1>5, <1>6, <1>7, <2>1, <2>2 DEF TypeOK
  <2>3. CASE c # d
    <3>1. c \in Used /\ cell'[c] = cell[c]
      BY <1>2, <1>3, <1>8, <2>3 DEF Used, TypeOK
    <3>2. cell[c].rec \in Recs /\ llt[u][cell[c].rec] # <<>> /\ llt[u][cell[c].rec][1] \in Keeps(u)
      BY <1>8, <3>1, LockIsMine DEF LocksListed
    <3>3. QED
      BY <1>5, <1>7, <2>1, <3>1, <3>2
  <2>4. QED
    BY <2>2, <2>3
<1>9. QED
  BY <1>3, <1>7, <1>8 DEF LocksListed, FlOwner, session

LEMMA LeaveTxnStep ==
  ASSUME TypeOK, LockInv, NEW u \in Users, Act(u), ~GrantsNew(u), LocksListed(u),
         NEW quit, LeaveTxn(u, quit)
  PROVE  LocksListed(u)'
<1> DEFINE S == FvarCells(u, closing[u])
<1>1. DropLlt(u, S) /\ ByRecord(u, S) /\ txn'[u] = 0 /\ closing'[u] = {} /\ open' = open
  BY GivenByRecord DEF LeaveTxn, TypeOK
<1>2. PICK T, FS, q : /\ GiveUp(T, FS, q) /\ S \subseteq T /\ FvarFileLocks(u, closing[u]) \subseteq FS
  BY DEF LeaveTxn
<1>3. \A c \in S : cell'[c] = NoLock
  BY <1>2, Released DEF GiveUp, FreeCells, Used
<1>4. \A f \in FvarFileLocks(u, closing[u]) : flock'[f] = NoLock
  BY <1>2 DEF GiveUp, FvarFileLocks
<1>5. ASSUME NEW c \in Used, cell[c].owner = u, cell'[c] # NoLock
      PROVE  /\ llt'[u][cell[c].rec] = llt[u][cell[c].rec]
             /\ llt[u][cell[c].rec][1] \in Keeps(u)'
  <2>1. c \notin S
    BY <1>3, <1>5
  <2>2. llt[u][cell[c].rec][1] \in Keeps(u) \ closing[u]
    BY <1>5, <2>1, ListedIsFound DEF LocksListed
  <2>3. QED
    BY <1>1, <1>5, <2>1, <2>2, DropKeeps DEF Keeps
<1>6. ASSUME NEW f \in Files, FlOwner(f) = u, flock'[f] # NoLock
      PROVE  flock[f].fvar \in Keeps(u)'
  <2>1. f \notin FvarFileLocks(u, closing[u])
    BY <1>4, <1>6
  <2>2. flock[f].fvar \in Keeps(u) \ closing[u]
    BY <1>6, <2>1 DEF LocksListed, FvarFileLocks
  <2>3. QED
    BY <1>1, <2>2 DEF Keeps
<1>7. QED
  BY <1>1, <1>5, <1>6, ListedStep

LEMMA CloseFvStep ==
  ASSUME TypeOK, LockInv, NEW u \in Users, Act(u), ~GrantsNew(u), LocksListed(u),
         NEW fv \in Fvars, Close(u, fv)
  PROVE  LocksListed(u)'
<1> DEFINE S == FvarCells(u, {fv})
<1>1. /\ DropLlt(u, S) /\ ByRecord(u, S) /\ txn' = txn /\ closing' = closing
      /\ GiveUp(S, FvarFileLocks(u, {fv}), {}) /\ open'[u] = open[u] \ {fv}
  BY GivenByRecord DEF Close, TypeOK
<1>2. \A c \in S : cell'[c] = NoLock
  BY <1>1, Released DEF GiveUp, FreeCells, Used
<1>3. \A f \in FvarFileLocks(u, {fv}) : flock'[f] = NoLock
  BY <1>1 DEF GiveUp, FvarFileLocks
<1>4. ASSUME NEW c \in Used, cell[c].owner = u, cell'[c] # NoLock
      PROVE  /\ llt'[u][cell[c].rec] = llt[u][cell[c].rec]
             /\ llt[u][cell[c].rec][1] \in Keeps(u)'
  <2>1. c \notin S
    BY <1>2, <1>4
  <2>2. llt[u][cell[c].rec][1] \in Keeps(u) \ {fv}
    BY <1>4, <2>1, ListedIsFound DEF LocksListed
  <2>3. QED
    BY <1>1, <1>4, <2>1, <2>2, DropKeeps DEF Keeps
<1>5. ASSUME NEW f \in Files, FlOwner(f) = u, flock'[f] # NoLock
      PROVE  flock[f].fvar \in Keeps(u)'
  <2>1. f \notin FvarFileLocks(u, {fv})
    BY <1>3, <1>5
  <2>2. flock[f].fvar \in Keeps(u) \ {fv}
    BY <1>5, <2>1 DEF LocksListed, FvarFileLocks
  <2>3. QED
    BY <1>1, <2>2 DEF Keeps
<1>6. txn'[u] = 0 => closing'[u] = {}
  BY <1>1 DEF LocksListed
<1>7. QED
  BY <1>4, <1>5, <1>6, ListedStep

LEMMA RebuildStep ==
  ASSUME TypeOK, LockInv, OpeningsOK, Admins = {} \/ OpenedOnce, NEW u \in Users,
         LocksListed(u), RebuildLlt(u)
  PROVE  LocksListed(u)'
<1>1. OpenedOnce
  BY DEF RebuildLlt, OpeningsOK
<1>2. UNCHANGED <<cell, flock>> /\ Keeps(u)' = Keeps(u) /\ (txn'[u] = 0 => closing'[u] = {})
  BY DEF RebuildLlt, shared, session, Keeps, LocksListed
<1>3. ASSUME NEW c \in Used, cell[c].owner = u
      PROVE  llt'[u][cell[c].rec] # <<>> /\ llt'[u][cell[c].rec][1] \in Keeps(u)
  <2> DEFINE r == cell[c].rec
             d == CHOOSE e \in OwnCells(u, r) : TRUE
  <2>1. r \in Recs /\ OwnCells(u, r) # {}
    BY <1>3, LockIsMine DEF OwnCells
  <2>2. llt'[u][r] = <<cell[d].fvar>>
    BY <2>1 DEF RebuildLlt, TypeOK
  <2>3. d \in Used /\ cell[d].owner = u /\ cell[d].rec = r
    BY <2>1 DEF OwnCells
  <2> HIDE DEF d
  <2>4. llt[u][r] # <<>> /\ llt[u][r][1] \in Keeps(u)
    BY <2>3 DEF LocksListed
  <2>5. FvarFile[llt[u][r][1]] = FileOf[r] /\ llt[u][r][1] \in Fvars
    BY <2>1, <2>4, LltTyped DEF OpeningsOK
  <2>6. FvarFile[cell[d].fvar] = FileOf[r] /\ cell[d].fvar \in Fvars
    BY <2>3, LockIsMine DEF OpeningsOK
  <2>7. cell[d].fvar = llt[u][r][1]
    BY <1>1, <2>5, <2>6 DEF OpenedOnce
  <2>8. QED
    BY <2>2, <2>4, <2>7
<1>4. QED
  BY <1>2, <1>3 DEF LocksListed, Used, FlOwner
(* What a step of a session may do to its local lock table.                 *)
EntriesKept(u) ==
  /\ llt' = llt /\ Keeps(u)' = Keeps(u)
  /\ txn'[u] = 0 => txn[u] = 0 /\ closing'[u] = closing[u]

EntriesDropped(u) ==
  \E S, FS : /\ GiveUp(S, FS, {}) /\ DropLlt(u, S) /\ ByRecord(u, S)
             /\ UNCHANGED session

EntriesStep(u) ==
  \/ EntriesKept(u) \/ EntriesDropped(u) \/ GrantsNew(u)
  \/ \E quit : LeaveTxn(u, quit)
  \/ \E fv \in Fvars : Close(u, fv)
  \/ RebuildLlt(u) \/ Login(u)

LEMMA LltSteps ==
  ASSUME TypeOK, NEW u \in Users, Act(u)
  PROVE  EntriesStep(u)
<1>k. ASSUME llt' = llt, UNCHANGED session
      PROVE  EntriesKept(u)
  BY <1>k DEF EntriesKept, Keeps, session
<1>d. ASSUME NEW S, NEW FS, GiveUp(S, FS, {}), DropLlt(u, S), ByRecord(u, S), UNCHANGED session
      PROVE  EntriesDropped(u)
  BY <1>d DEF EntriesDropped
<1>1. CASE LockRecord(u)
  <2> PICK fv \in Fvars, r \in Recs, m \in {"update", "shared"}, nw \in BOOLEAN :
        \/ RefusedByFileLock(u, fv, r, m, nw)
        \/ Relock(u, fv, r, m, nw)
        \/ RefusedByRecord(u, fv, r, m, nw)
        \/ DeadlockFound(u, fv, r, m, nw)
        \/ ScanCircles(u, fv, r, m, nw)
        \/ Upgrade(u, fv, r, m, nw)
        \/ TableFull(u, fv, r, m, nw)
        \/ NewLock(u, fv, r, m, nw)
    BY <1>1 DEF LockRecord, Ask
  <2>1. CASE DeadlockFound(u, fv, r, m, nw)
    BY <2>1 DEF DeadlockFound, EntriesStep
  <2>2. CASE NewLock(u, fv, r, m, nw)
    BY <2>2 DEF GrantsNew, EntriesStep
  <2>3. CASE \/ RefusedByFileLock(u, fv, r, m, nw) \/ RefusedByRecord(u, fv, r, m, nw)
             \/ ScanCircles(u, fv, r, m, nw) \/ TableFull(u, fv, r, m, nw)
             \/ Relock(u, fv, r, m, nw) \/ Upgrade(u, fv, r, m, nw)
    <3>1. llt' = llt /\ UNCHANGED session
      BY <2>3 DEF RefusedByFileLock, RefusedByRecord, Refused, ScanCircles, TableFull, Relock, Upgrade
    <3>2. QED
      BY <3>1, <1>k DEF EntriesStep
  <2>4. QED
    BY <2>1, <2>2, <2>3
<1>2. CASE Statement(u)
  <2>1. ASSUME NEW fv \in Fvars, NEW r \in Recs, ReleaseRecord(u, fv, r)
        PROVE  EntriesDropped(u)
    BY <2>1, <1>d, GivenByRecord DEF ReleaseRecord
  <2>2. ASSUME NEW fv \in Fvars, ReleaseFile(u, fv)
        PROVE  EntriesDropped(u)
    BY <2>2, <1>d, GivenByRecord DEF ReleaseFile
  <2>3. ASSUME ReleaseAll(u)
        PROVE  EntriesDropped(u)
    BY <2>3, <1>d, GivenByRecord DEF ReleaseAll
  <2>4. ASSUME NEW keep \in BOOLEAN, WriteEnd(u, keep)
        PROVE  EntriesDropped(u)
    <3>1. proc[u].rec \in Recs
      BY <2>4, ProcFields DEF WriteEnd
    <3>2. PICK S \in {{}, Mine(u, proc[u].rec)} : GiveUp(S, {}, {}) /\ DropLlt(u, S)
      BY <2>4 DEF WriteEnd
    <3>3. ByRecord(u, S) /\ UNCHANGED session
      BY <2>4, <3>1, <3>2, GivenByRecord DEF WriteEnd
    <3>4. QED
      BY <3>2, <3>3, <1>d
  <2>5. ASSUME NEW fv \in Fvars, CloseLater(u, fv) \/ Reopen(u, fv)
        PROVE  EntriesKept(u)
    <3>1. txn[u] # 0 /\ txn' = txn /\ llt' = llt
      BY <2>5 DEF CloseLater, Reopen, TxnFor
    <3>2. Keeps(u)' = Keeps(u)
      BY <2>5 DEF CloseLater, Reopen, Keeps, TypeOK
    <3>3. QED
      BY <3>1, <3>2 DEF EntriesKept
  <2>6. ASSUME BeginTxn(u)
        PROVE  EntriesKept(u)
    <3>1. txn'[u] # 0
      BY <2>6 DEF BeginTxn, TypeOK
    <3>2. QED
      BY <2>6, <3>1 DEF BeginTxn, EntriesKept, Keeps
  <2>7. CASE EndTxn(u)
    BY <2>7 DEF EndTxn, EntriesStep
  <2>8. ASSUME \/ \E fv \in Fvars, nw \in BOOLEAN : LockFile(u, fv, nw) \/ FileLockRefused(u, fv, nw)
               \/ \E fv \in Fvars, r \in Recs : WriteStart(u, fv, r)
               \/ \E fv \in Fvars : FlunlockTest(u, fv) \/ CloseTest(u, fv)
               \/ Flunlock(u) \/ CloseFileLock(u)
        PROVE  EntriesKept(u)
    <3>1. llt' = llt /\ UNCHANGED session
      BY <2>8 DEF LockFile, FileLockRefused, WriteStart, FlunlockTest, CloseTest, Flunlock, CloseFileLock
    <3>2. QED
      BY <3>1, <1>k
  <2>9. QED
    BY <1>1, <1>2, <2>1, <2>2, <2>3, <2>4, <2>5, <2>6, <2>7, <2>8 DEF Statement, EntriesStep
<1>3. CASE SessionEvent(u)
  <2>1. CASE AbortWait(u)
    BY <2>1 DEF AbortWait, EntriesStep
  <2>2. CASE BreakQuit(u) \/ Logout(u) \/ Crash(u) \/ Reap(u)
    BY <2>2, <1>k DEF BreakQuit, Logout, Crash, Reap, EntriesStep
  <2>3. QED
    BY <1>3, <2>1, <2>2 DEF SessionEvent, EntriesStep
<1>4. CASE UnlockCommand(u)
  <2>1. llt' = llt /\ UNCHANGED session
    BY <1>4 DEF UnlockCommand, AdminUnlock, AdminUnlockFile
  <2>2. QED
    BY <2>1, <1>k DEF EntriesStep
<1>5. QED
  BY <1>2, <1>3, <1>4 DEF Act

(* Only the administrator's UNLOCK asks for a rebuild.                      *)
LEMMA RebuildAsked ==
  ASSUME NEW u \in Users, Act(u)
  PROVE  rebuild' \subseteq rebuild \/ u \in Admins
<1>1. CASE LockRecord(u)
  <2> PICK fv \in Fvars, r \in Recs, m \in {"update", "shared"}, nw \in BOOLEAN :
        \/ RefusedByFileLock(u, fv, r, m, nw)
        \/ Relock(u, fv, r, m, nw)
        \/ RefusedByRecord(u, fv, r, m, nw)
        \/ DeadlockFound(u, fv, r, m, nw)
        \/ ScanCircles(u, fv, r, m, nw)
        \/ Upgrade(u, fv, r, m, nw)
        \/ TableFull(u, fv, r, m, nw)
        \/ NewLock(u, fv, r, m, nw)
    BY <1>1 DEF LockRecord, Ask
  <2>1. rebuild' = rebuild
    BY DEF RefusedByFileLock, RefusedByRecord, Refused, Relock, DeadlockFound, ScanCircles,
       Upgrade, TableFull, NewLock, LeaveTxn
  <2>2. QED
    BY <2>1
<1>2. CASE Statement(u)
  BY <1>1, <1>2 DEF Statement, LockFile, FileLockRefused, ReleaseRecord, WriteStart, FlunlockTest,
     ReleaseFile, CloseLater, Reopen, CloseTest, Close, ReleaseAll, Flunlock, CloseFileLock,
     WriteEnd, BeginTxn, EndTxn, LeaveTxn
<1>3. CASE SessionEvent(u)
  BY <1>3 DEF SessionEvent, AbortWait, BreakQuit, Logout, Login, Crash, Reap, RebuildLlt, LeaveTxn
<1>4. CASE UnlockCommand(u)
  BY <1>4 DEF UnlockCommand, AdminUnlock, AdminUnlockFile
<1>5. QED
  BY <1>2, <1>3, <1>4 DEF Act

(* A session whose process is gone does nothing but come back.              *)
LEMMA LiveActs ==
  ASSUME NEW u \in Users, Act(u)
  PROVE  Live(u) \/ Login(u) \/ Reap(u)
<1>r. Ready(u) => Live(u)
  BY DEF Ready, ReadyState, Live
<1>w. InLockWait(u) => Live(u)
  BY DEF InLockWait, Live
<1>1. ASSUME NEW fv \in Fvars, NEW r \in Recs, NEW m \in {"update", "shared"}, NEW nw \in BOOLEAN,
             CanTry(u, fv, r, m, nw)
      PROVE  Live(u)
  BY <1>1, <1>r DEF CanTry, RecordReq, Live
<1>2. ASSUME NEW fv \in Fvars, NEW nw \in BOOLEAN, CanTryFile(u, fv, nw)
      PROVE  Live(u)
  BY <1>2, <1>r DEF CanTryFile, FileReq, Live
<1>3. CASE LockRecord(u)
  <2> PICK fv \in Fvars, r \in Recs, m \in {"update", "shared"}, nw \in BOOLEAN :
        \/ RefusedByFileLock(u, fv, r, m, nw)
        \/ Relock(u, fv, r, m, nw)
        \/ RefusedByRecord(u, fv, r, m, nw)
        \/ DeadlockFound(u, fv, r, m, nw)
        \/ ScanCircles(u, fv, r, m, nw)
        \/ Upgrade(u, fv, r, m, nw)
        \/ TableFull(u, fv, r, m, nw)
        \/ NewLock(u, fv, r, m, nw)
    BY <1>3 DEF LockRecord, Ask
  <2>1. CanTry(u, fv, r, m, nw)
    BY DEF RefusedByFileLock, RefusedByRecord, Relock, DeadlockFound, ScanCircles,
       Upgrade, TableFull, NewLock, NoConflict, Blocked
  <2>2. QED
    BY <2>1, <1>1
<1>4. CASE Statement(u)
  <2>1. ASSUME NEW fv \in Fvars, Close(u, fv)
        PROVE  Live(u)
    BY <2>1, <1>r DEF Close, Live
  <2>2. CASE Flunlock(u) \/ CloseFileLock(u) \/ \E keep \in BOOLEAN : WriteEnd(u, keep)
    BY <2>2 DEF Flunlock, CloseFileLock, WriteEnd, Live
  <2>3. CASE \E fv \in Fvars, nw \in BOOLEAN : LockFile(u, fv, nw) \/ FileLockRefused(u, fv, nw)
    BY <2>3, <1>2 DEF LockFile, FileLockRefused
  <2>4. QED
    BY <1>r, <1>3, <1>4, <2>1, <2>2, <2>3 DEF Statement, ReleaseRecord, WriteStart,
       FlunlockTest, ReleaseFile, CloseLater, Reopen, CloseTest, ReleaseAll, BeginTxn, EndTxn
<1>5. CASE SessionEvent(u)
  BY <1>5, <1>r, <1>w DEF SessionEvent, AbortWait, BreakQuit, Logout, Crash, RebuildLlt, Live,
     InLockWait
<1>6. CASE UnlockCommand(u)
  BY <1>6, <1>r DEF UnlockCommand, AdminUnlock, AdminUnlockFile
<1>7. QED
  BY <1>4, <1>5, <1>6 DEF Act
LEMMA OpeningsStep ==
  ASSUME TypeOK, LockInv, OpeningsOK, [Next]_vars
  PROVE  OpeningsOK'
<1>1. ASSUME NEW u \in Users, Act(u), NEW c \in Used'
      PROVE  FvarFile[cell'[c].fvar] = FileOf[cell'[c].rec]
  <2>1. c \in Cells /\ cell'[c] # NoLock
    BY DEF Used
  <2>2. cell[c] # NoLock => c \in Used
    BY <2>1 DEF Used
  <2>3. QED
    BY <1>1, <2>1, <2>2, CellSteps DEF CellFreed, CellGranted, OpeningsOK
<1>2. ASSUME NEW u \in Users, Act(u), NEW v \in Users, NEW r \in Recs, NEW i \in DOMAIN llt'[v][r]
      PROVE  FvarFile[llt'[v][r][i]] = FileOf[r]
  <2>1. CASE llt'[v][r] = llt[v][r]
    BY <2>1 DEF OpeningsOK
  <2>2. ASSUME NEW S, DropLlt(u, S)
        PROVE  FvarFile[llt'[v][r][i]] = FileOf[r]
    BY <2>2, DropOpenings
  <2>3. CASE GrantsNew(u)
    <3>1. PICK fv \in Fvars, x \in Recs, m \in {"update", "shared"}, nw \in BOOLEAN : NewLock(u, fv, x, m, nw)
      BY <2>3 DEF GrantsNew
    <3> DEFINE q == <<fv>> \o llt[u][x]
    <3>2. llt' = [llt EXCEPT ![u][x] = q] /\ FvarFile[fv] = FileOf[x]
      BY <3>1 DEF NewLock, NoConflict, CanTry
    <3>3. llt[u][x] \in Seq(Fvars)
      BY LltTyped
    <3>4. q[1] = fv /\ \A j \in DOMAIN q : j = 1 \/ (j - 1 \in DOMAIN llt[u][x] /\ q[j] = llt[u][x][j - 1])
      BY <3>3, PushedLlt
    <3> HIDE DEF q
    <3>5. llt'[v][r] = IF v = u /\ r = x THEN q ELSE llt[v][r]
      BY <3>2 DEF TypeOK
    <3>6. QED
      BY <2>1, <3>2, <3>4, <3>5 DEF OpeningsOK
  <2>4. CASE RebuildLlt(u)
    <3>1. v # u => llt'[v][r] = llt[v][r]
      BY <2>4 DEF RebuildLlt, TypeOK
    <3>2. ASSUME v = u, OwnCells(u, r) # {}
          PROVE  FvarFile[llt'[v][r][i]] = FileOf[r]
      <4> DEFINE d == CHOOSE c \in OwnCells(u, r) : TRUE
      <4>1. d \in OwnCells(u, r)
        BY <3>2
      <4>2. llt'[v][r] = <<cell[d].fvar>>
        BY <2>4, <3>2 DEF RebuildLlt, TypeOK
      <4>3. d \in Used /\ cell[d].rec = r
        BY <4>1 DEF OwnCells
      <4> HIDE DEF d
      <4>4. FvarFile[cell[d].fvar] = FileOf[r]
        BY <4>3 DEF OpeningsOK
      <4>5. i = 1
        BY <4>2
      <4>6. QED
        BY <4>2, <4>4, <4>5
    <3>3. ASSUME v = u, OwnCells(u, r) = {}
          PROVE  FALSE
      <4>1. llt'[v][r] = <<>>
        BY <2>4, <3>3 DEF RebuildLlt, TypeOK
      <4>2. QED
        BY <4>1
    <3>4. QED
      BY <2>1, <3>1, <3>2, <3>3
  <2>5. CASE Login(u)
    <3>1. v = u => llt'[v][r] = <<>>
      BY <2>5 DEF Login, TypeOK
    <3>2. v # u => llt'[v][r] = llt[v][r]
      BY <2>5 DEF Login, TypeOK
    <3>3. QED
      BY <2>1, <3>1, <3>2
  <2>6. QED
    BY <1>2, <2>1, <2>2, <2>3, <2>4, <2>5, LltSteps DEF EntriesStep, EntriesKept, EntriesDropped,
       LeaveTxn, Close
<1>3. ASSUME NEW u \in Users, Act(u), Admins = {}
      PROVE  rebuild' = {}
  BY <1>3, RebuildAsked DEF OpeningsOK
<1>4. CASE UNCHANGED vars
  BY <1>4 DEF vars, shared, OpeningsOK, Used
<1>5. QED
  BY <1>1, <1>2, <1>3, <1>4, ActsOrNone DEF OpeningsOK

LEMMA MineOK ==
  ASSUME TypeOK, LockInv, OpeningsOK, Admins = {} \/ OpenedOnce, NEW u \in Users, Act(u), SessionOK(u)
  PROVE  SessionOK(u)'
<1> DEFINE Gone == (\A c \in Used' : cell'[c].owner # u) /\ (\A f \in Files : FlOwner(f)' # u)
<1>1. ASSUME LocksListed(u), txn[u] = 0, open[u] = {}
      PROVE  (\A c \in Used : cell[c].owner # u) /\ (\A f \in Files : FlOwner(f) # u)
  BY <1>1 DEF LocksListed, Keeps
<1>2. ASSUME ~Present(u)'
      PROVE  Gone
  <2>1. CASE Logout(u)
    <3>1. Live(u)
      BY <2>1 DEF Logout, Ready, ReadyState, Live
    <3>2. (\A c \in Used : cell[c].owner # u) /\ (\A f \in Files : FlOwner(f) # u)
      BY <2>1, <3>1, <1>1 DEF Logout, SessionOK
    <3>3. QED
      BY <2>1, <3>2 DEF Logout, shared, Used, FlOwner
  <2>2. CASE Reap(u)
    <3>1. GiveUp({c \in Used : cell[c].owner = u}, {f \in Files : FlOwner(f) = u}, {})
      BY <2>2 DEF Reap
    <3>2. \A c \in Used' : cell'[c].owner # u
      BY <3>1 DEF GiveUp, FreeCells, Used
    <3>3. \A f \in Files : FlOwner(f)' # u
      BY <3>1, ConstantsAssumption DEF GiveUp, FlOwner
    <3>4. QED
      BY <3>2, <3>3
  <2>3. ASSUME NEW fv \in Fvars, FlunlockTest(u, fv) \/ CloseTest(u, fv)
        PROVE  FALSE
    <3>1. proc'[u].at \in {"flunlock", "close"}
      BY <2>3 DEF FlunlockTest, CloseTest, TypeOK
    <3>2. QED
      BY <1>2, <3>1 DEF Present
  <2>4. ~ \E fv \in Fvars, r \in Recs : WriteStart(u, fv, r)
    BY <1>2 DEF WriteStart, Present, TypeOK
  <2>5. ~CloseFileLock(u)
    BY <1>2 DEF CloseFileLock, Present, TypeOK
  <2>6. QED
    BY <1>2, <2>1, <2>2, <2>3, <2>4, <2>5, MyProc DEF Present
<1>3. ASSUME Live(u)'
      PROVE  LocksListed(u)'
  <2>1. CASE Login(u)
    <3>1. Gone
      BY <2>1 DEF Login, SessionOK, Present, shared, Used, FlOwner
    <3>2. closing'[u] = {}
      BY <2>1 DEF Login, TypeOK
    <3>3. QED
      BY <3>1, <3>2 DEF LocksListed
  <2>2. ~Reap(u)
    BY <1>3 DEF Reap, Live, TypeOK
  <2>3. CASE Live(u)
    <3>1. LocksListed(u)
      BY <2>3 DEF SessionOK
    <3>2. CASE GrantsNew(u)
      BY <3>1, <3>2, NewLockStep DEF GrantsNew
    <3>3. ASSUME ~GrantsNew(u), EntriesKept(u)
          PROVE  LocksListed(u)'
      <4>1. llt'[u] = llt[u] /\ Keeps(u)' = Keeps(u) /\ (txn'[u] = 0 => closing'[u] = {})
        BY <3>1, <3>3 DEF EntriesKept, LocksListed
      <4>2. QED
        BY <3>1, <3>3, <4>1, QuietStep
    <3>4. ASSUME ~GrantsNew(u), EntriesDropped(u)
          PROVE  LocksListed(u)'
      BY <3>1, <3>4, DropStep DEF EntriesDropped
    <3>5. ASSUME ~GrantsNew(u), NEW quit, LeaveTxn(u, quit)
          PROVE  LocksListed(u)'
      BY <3>1, <3>5, LeaveTxnStep
    <3>6. ASSUME ~GrantsNew(u), NEW fv \in Fvars, Close(u, fv)
          PROVE  LocksListed(u)'
      BY <3>1, <3>6, CloseFvStep
    <3>7. CASE RebuildLlt(u)
      BY <3>1, <3>7, RebuildStep
    <3>8. QED
      BY <2>1, <3>2, <3>3, <3>4, <3>5, <3>6, <3>7, LltSteps DEF EntriesStep
  <2>4. QED
    BY <2>1, <2>2, <2>3, LiveActs
<1>4. QED
  BY <1>2, <1>3 DEF SessionOK

LEMMA SessionStep ==
  ASSUME TypeOK, LockInv, SessionInv, Admins = {} \/ OpenedOnce, [Next]_vars
  PROVE  SessionInv'
<1>1. OpeningsOK /\ OpeningsOK'
  BY OpeningsStep DEF SessionInv
<1>2. ASSUME NEW u \in Users, Act(u), NEW v \in Users
      PROVE  SessionOK(v)'
  BY <1>1, <1>2, TheirsOK, MineOK DEF SessionInv
<1>3. ASSUME UNCHANGED vars, NEW v \in Users, SessionOK(v)
      PROVE  SessionOK(v)'
  BY <1>3 DEF vars, shared, session, SessionOK, LocksListed, Present, Live, Keeps, Used, FlOwner
<1>4. QED
  BY <1>1, <1>2, <1>3, ActsOrNone DEF SessionInv

LEMMA SessionInit == Init => SessionInv
<1> SUFFICES ASSUME Init
             PROVE  SessionInv
  OBVIOUS
<1>1. Used = {} /\ \A f \in Files : FlOwner(f) = NoUser
  BY DEF Init, Used, FlOwner
<1>2. \A u \in Users : \A r \in Recs : DOMAIN llt[u][r] = {}
  BY DEF Init
<1>3. rebuild = {} /\ \A u \in Users : closing[u] = {}
  BY DEF Init
<1>4. OpeningsOK
  BY <1>1, <1>2, <1>3 DEF OpeningsOK
<1>5. ASSUME NEW u \in Users
      PROVE  SessionOK(u)
  BY <1>1, <1>3, ConstantsAssumption DEF SessionOK, LocksListed
<1>6. QED
  BY <1>4, <1>5 DEF SessionInv

(* The local lock tables and the files a session keeps account for its      *)
(* locks, whatever is relocked, released, closed and rebuilt: either nobody *)
(* runs UNLOCK on record locks, so that no table is rebuilt, or no file is  *)
(* opened twice, so that a rebuilt entry is of the opening the lock is of.  *)
THEOREM SessionsAccounted ==
  Admins = {} \/ OpenedOnce => (Spec => []SessionInv)
<1> SUFFICES ASSUME Admins = {} \/ OpenedOnce
             PROVE  Spec => []SessionInv
  OBVIOUS
<1>1. TypeOK /\ LockInv /\ SessionInv /\ [Next]_vars => SessionInv'
  BY SessionStep
<1>2. QED
  BY <1>1, SessionInit, TypeCorrect, LockInvariant, PTL DEF Spec

(* LltCovers: CLOSE and RELEASE, which look for the locks of a session only *)
(* in its local lock table, never miss one (unlock_record, rebuild_llt).    *)
THEOREM LockTablesCover ==
  Admins = {} \/ OpenedOnce => (Spec => []LltCovers)
<1> SUFFICES ASSUME Admins = {} \/ OpenedOnce
             PROVE  Spec => []LltCovers
  OBVIOUS
<1>1. TypeOK /\ SessionInv => LltCovers
  <2> SUFFICES ASSUME TypeOK, SessionInv, NEW c \in Used, Present(cell[c].owner),
                      proc[cell[c].owner].at # "dead"
               PROVE  llt[cell[c].owner][cell[c].rec] # <<>>
    BY DEF LltCovers
  <2>1. cell[c].owner \in Users
    BY UsedIsLock DEF Lock
  <2>2. QED
    BY <2>1 DEF SessionInv, SessionOK, Live, Present, LocksListed
<1>2. QED
  BY <1>1, SessionsAccounted, TypeCorrect, PTL

(* NoLockOutlivesSession: kill_process, which gives the user table entry up *)
(* and releases no lock, leaves none behind, since every file is closed by  *)
(* then and its close has released the locks; a session that died without   *)
(* logging out is reaped with its locks (remove_user).                      *)
THEOREM LocksEndWithSessions ==
  Admins = {} \/ OpenedOnce => (Spec => []NoLockOutlivesSession)
<1> SUFFICES ASSUME Admins = {} \/ OpenedOnce
             PROVE  Spec => []NoLockOutlivesSession
  OBVIOUS
<1>1. SessionInv => NoLockOutlivesSession
  BY DEF SessionInv, SessionOK, NoLockOutlivesSession
<1>2. QED
  BY <1>1, SessionsAccounted, PTL
=============================================================================
