----------------------------- MODULE RecordLocks -----------------------------
(***************************************************************************)
(* The record and file locks of the SD kernel (gplsrc/op_lock.c, locks.h): *)
(* the shared cyclic hash table of record locks, the file locks of the     *)
(* file table, the waiting and deadlock detection of lock_record, the      *)
(* local lock table (LLT) each session keeps in private memory, the        *)
(* administrator's UNLOCK, and the session events that release locks:      *)
(* close, commit, rollback, abort, logout and the reaping of lost users.   *)
(*                                                                         *)
(* Every section of code between StartExclusive(REC_LOCK_SEM) and          *)
(* EndExclusive is one step.  What the code reads before it takes the      *)
(* semaphore and uses afterwards is a step of its own: FlunlockTest,       *)
(* CloseTest, WriteStart.                                                  *)
(***************************************************************************)
EXTENDS Integers, Sequences, FiniteSets

CONSTANTS
  Users,        \* sessions, by user number
  NoUser,       \* user number zero: nobody
  Files,        \* file table entries
  Recs,         \* record ids, each of one file
  FileOf,       \* FileOf[r]: the file of record r
  HashOf,       \* HashOf[r]: RLockHash of the record, a cell of the table
  Fvars,        \* FILE_VAR indexes: the files a session ever opens, by opening
  FvarFile,     \* FvarFile[v]: the file that opening is of
  NonTxn,       \* the file variables opened with FV_NON_TXN
  NumLocks,     \* NUMLOCKS: cells in the record lock table
  NoLock,       \* a free cell, a file that is not locked
  Deadlock,     \* DEADLOCK: detect deadlocks
  AskedModes,   \* lock modes the programs ask for
  Writers,      \* sessions whose programs write records
  FileLockers,  \* sessions whose programs use FILELOCK
  Admins,       \* sessions that run UNLOCK on record locks
  FileAdmins,   \* sessions that run UNLOCK on file locks
  Mortals,      \* sessions that may be killed without logging out
  Breakers,     \* sessions whose break handler answers Quit
  MaxTxn,       \* bound: transactions begun in a behaviour
  MaxLlt,       \* bound: LLT entries of one record in one session
  MaxWaiters    \* bound: the waiters count of a cell

Cells == 1 .. NumLocks

ASSUME ConstantsAssumption ==
  /\ NumLocks \in Nat \ {0}
  /\ IsFiniteSet(Users)
  /\ NoUser \notin Users
  /\ FileOf \in [Recs -> Files]
  /\ HashOf \in [Recs -> Cells]
  /\ FvarFile \in [Fvars -> Files]
  /\ NonTxn \subseteq Fvars
  /\ Deadlock \in BOOLEAN
  /\ AskedModes \subseteq {"update", "shared"}
  /\ MaxTxn \in Nat
  /\ MaxLlt \in Nat
  /\ MaxWaiters \in Nat

Lock == [owner : Users, rec : Recs, mode : {"update", "shared"},
         fvar : Fvars, txn : 0 .. MaxTxn]

ASSUME NoLockAssumption == NoLock \notin Lock /\ NoLock \notin
         [owner : Users, fvar : Fvars, txn : 0 .. MaxTxn]

VARIABLES
  cell,       \* RLOCK_ENTRY: NoLock (hash = 0) or the lock in the cell
  count,      \* RLOCK_ENTRY.count: locks that hash to this cell
  waiters,    \* RLOCK_ENTRY.waiters
  rlCount,    \* sysseg->rl_count
  flock,      \* FILE_ENTRY file_lock, fvar_index and txn_id
  lockCount,  \* FILE_ENTRY.lock_count: record locks in the file
  wait,       \* USER_ENTRY.lockwait_index: 0, a cell or minus a file
  rebuild,    \* sessions with EVT_REBUILD_LLT raised
  llt,        \* llt[u][r]: the fvars of u's LLT entries for r, newest first
  txn,        \* process.txn_id, 0 outside a transaction
  nextTxn,    \* sysseg->next_txn_id
  open,       \* file variables the session has open
  closing,    \* file variables closed in the transaction (TXN_CLOSE)
  proc        \* the opcode the session is in

shared == <<cell, count, waiters, rlCount, flock, lockCount>>
session == <<txn, nextTxn, open, closing>>
vars == <<shared, wait, rebuild, llt, session, proc>>

NoWait == <<"none", 0>>
WaitTargets == {NoWait} \cup ({"cell"} \X Cells) \cup ({"file"} \X Files)

FileLock == [owner : Users, fvar : Fvars, txn : 0 .. MaxTxn]

ReadyState == [at |-> "ready"]
RecordReq(fv, r, m) == [at |-> "record", fvar |-> fv, rec |-> r, mode |-> m]
FileReq(fv) == [at |-> "file", fvar |-> fv]

Procs == [at : {"ready", "scan", "dead", "gone"}]
         \cup [at : {"record"}, fvar : Fvars, rec : Recs, mode : {"update", "shared"}]
         \cup [at : {"file", "flunlock", "close", "unlock"}, fvar : Fvars]
         \cup [at : {"write"}, fvar : Fvars, rec : Recs]

TypeOK ==
  /\ cell \in [Cells -> Lock \cup {NoLock}]
  /\ count \in [Cells -> Int]
  /\ waiters \in [Cells -> Int]
  /\ rlCount \in Int
  /\ flock \in [Files -> FileLock \cup {NoLock}]
  /\ lockCount \in [Files -> Int]
  /\ wait \in [Users -> WaitTargets]
  /\ rebuild \subseteq Users
  /\ llt \in [Users -> [Recs -> Seq(Fvars)]]
  /\ txn \in [Users -> 0 .. MaxTxn]
  /\ nextTxn \in 1 .. MaxTxn + 1
  /\ open \in [Users -> SUBSET Fvars]
  /\ closing \in [Users -> SUBSET Fvars]
  /\ proc \in [Users -> Procs]

Init ==
  /\ cell = [c \in Cells |-> NoLock]
  /\ count = [c \in Cells |-> 0]
  /\ waiters = [c \in Cells |-> 0]
  /\ rlCount = 0
  /\ flock = [f \in Files |-> NoLock]
  /\ lockCount = [f \in Files |-> 0]
  /\ wait = [u \in Users |-> NoWait]
  /\ rebuild = {}
  /\ llt = [u \in Users |-> [r \in Recs |-> <<>>]]
  /\ txn = [u \in Users |-> 0]
  /\ nextTxn = 1
  /\ open = [u \in Users |-> Fvars]
  /\ closing = [u \in Users |-> {}]
  /\ proc = [u \in Users |-> ReadyState]

-----------------------------------------------------------------------------
(* The table and its scans.                                                *)

Used == {c \in Cells : cell[c] # NoLock}

HashCells(h) == {c \in Used : HashOf[cell[c].rec] = h}

(* a comes before b in the cyclic walk that starts at cell h *)
Before(h, a, b) ==
  \/ a >= h /\ (b > a \/ b < h)
  \/ a < h /\ b < h /\ a < b

First(h, S) == CHOOSE c \in S : \A b \in S \ {c} : Before(h, c, b)

(* The walk ends once it has met count[h] cells whose hash is h; the locks  *)
(* of a record that lie beyond that point are never seen.                   *)
Seen(h) == {c \in HashCells(h) :
              Cardinality({b \in HashCells(h) : Before(h, b, c)}) < count[h]}

Entries(r) == {c \in Seen(HashOf[r]) : cell[c].rec = r}

Mine(u, r) == {c \in Entries(r) : cell[c].owner = u}

(* Mutant: an update lock is let past shared ones.                          *)
ConflictsUpdateOnly(u, r, m) ==
  {c \in Entries(r) : cell[c].owner # u /\ cell[c].mode = "update"}

Conflicts(u, r, m) ==
  {c \in Entries(r) : /\ cell[c].owner # u
                      /\ m = "update" \/ cell[c].mode = "update"}

FlOwner(f) == IF flock[f] = NoLock THEN NoUser ELSE flock[f].owner

(* Mutant: the id of the next transaction, not of this one.                 *)
TxnForNext(u, fv) == IF fv \in NonTxn THEN 0 ELSE nextTxn

TxnFor(u, fv) == IF fv \in NonTxn THEN 0 ELSE txn[u]

(* A session that scans for a deadlock holds REC_LOCK_SEM until it is done. *)
SemFree == \A v \in Users : proc[v].at # "scan"

Ready(u) == proc[u] = ReadyState

Present(u) == proc[u].at # "gone"          \* uid # 0: UserPtr is not NULL

-----------------------------------------------------------------------------
(* Giving locks up.  Every path that frees cells adjusts the same counters  *)
(* and wakes the same waiters: unlock_id, unlock_txn, op_unlk, remove_user. *)

Waiting(c) == {v \in Users : Present(v) /\ wait[v] = <<"cell", c>>}

(* Mutant: a cell with one waiter is passed over.                           *)
WokenManyOnly(S, FS) ==
  {v \in Users : /\ Present(v)
                 /\ \/ \E c \in S : wait[v] = <<"cell", c>> /\ waiters[c] > 1
                    \/ \E f \in FS : wait[v] = <<"file", f>>}

(* clear_waiters: the sessions whose wait is cleared when the cells S and   *)
(* the file locks FS are given up.  A cell whose count of waiters is zero   *)
(* is passed over.                                                          *)
Woken(S, FS) ==
  {v \in Users : /\ Present(v)
                 /\ \/ \E c \in S : wait[v] = <<"cell", c>> /\ waiters[c] # 0
                    \/ \E f \in FS : wait[v] = <<"file", f>>}

(* clear_lockwait of the sessions in quit goes with it on the abort path.   *)
ClearWaits(S, FS, quit) ==
  LET cleared == Woken(S, FS) \cup quit
  IN /\ wait' = [v \in Users |-> IF v \in cleared THEN NoWait ELSE wait[v]]
     /\ waiters' = [c \in Cells |->
                      waiters[c] - Cardinality(Waiting(c) \cap cleared)]

(* Mutant: the count of the file is adjusted, the count of the hash is not. *)
FreeCellsKeepCount(S) ==
  /\ cell' = [c \in Cells |-> IF c \in S THEN NoLock ELSE cell[c]]
  /\ lockCount' = [f \in Files |->
       lockCount[f] - Cardinality({c \in S : FileOf[cell[c].rec] = f})]
  /\ rlCount' = rlCount - Cardinality(S)
  /\ UNCHANGED count

FreeCells(S) ==
  /\ cell' = [c \in Cells |-> IF c \in S THEN NoLock ELSE cell[c]]
  /\ count' = [h \in Cells |-> count[h] - Cardinality(S \cap HashCells(h))]
  /\ lockCount' = [f \in Files |->
       lockCount[f] - Cardinality({c \in S : FileOf[cell[c].rec] = f})]
  /\ rlCount' = rlCount - Cardinality(S)

GiveUp(S, FS, quit) ==
  /\ FreeCells(S)
  /\ flock' = [f \in Files |-> IF f \in FS THEN NoLock ELSE flock[f]]
  /\ ClearWaits(S, FS, quit)

(* unlock_id drops the newest LLT entry of each record it releases.         *)
DropLlt(u, S) ==
  llt' = [llt EXCEPT ![u] = [r \in Recs |->
            IF (\E c \in S : cell[c].rec = r) /\ llt[u][r] # <<>>
              THEN Tail(llt[u][r]) ELSE llt[u][r]]]

Listed(u, r, fvs) == \E i \in DOMAIN llt[u][r] : llt[u][r][i] \in fvs

(* what unlock_record without an id releases: the LLT entries of the fvars  *)
FvarCells(u, fvs) ==
  UNION {Mine(u, r) : r \in {x \in Recs : /\ Listed(u, x, fvs)
                                          /\ lockCount[FileOf[x]] # 0}}

FvarFileLocks(u, fvs) ==
  {f \in Files : FlOwner(f) = u /\ flock[f].fvar \in fvs}

TxnCells(u) == {c \in Used : cell[c].owner = u /\ cell[c].txn = txn[u]}

TxnFileLocks(u) == {f \in Files : FlOwner(f) = u /\ flock[f].txn = txn[u]}

(* The end of a transaction, by commit, rollback or abort: the deferred     *)
(* closes go first, then unlock_txn, which leaves the LLT alone.            *)
LeaveTxn(u, quit) ==
  LET S == FvarCells(u, closing[u])
      inTxn == txn[u] # 0
  IN /\ GiveUp(S \cup (IF inTxn THEN TxnCells(u) ELSE {}),
               FvarFileLocks(u, closing[u])
                 \cup (IF inTxn THEN TxnFileLocks(u) ELSE {}),
               quit)
     /\ DropLlt(u, S)
     /\ txn' = [txn EXCEPT ![u] = 0]
     /\ closing' = [closing EXCEPT ![u] = {}]
     /\ UNCHANGED <<nextTxn, open, rebuild>>

-----------------------------------------------------------------------------
(* lock_record, as READL, READU, RECORDLOCKL and RECORDLOCKU call it.  A    *)
(* refused session without a LOCKED clause (~nw) runs the opcode again.     *)

CanTry(u, fv, r, m, nw) ==
  /\ SemFree
  /\ fv \in open[u] /\ FvarFile[fv] = FileOf[r] /\ m \in AskedModes
  /\ Ready(u) \/ (~nw /\ proc[u] = RecordReq(fv, r, m))

(* Mutant: lock_record does not look at the file lock.                      *)
FileAllowsAll(u, f) == f \in Files

FileAllows(u, f) == FlOwner(f) \in {NoUser, u}

Granted(u) ==
  /\ wait' = [wait EXCEPT ![u] = NoWait]
  /\ proc' = [proc EXCEPT ![u] = ReadyState]

(* exit_lock_record with a blocking user: the wait is only recorded when    *)
(* none is recorded yet.                                                    *)
Refused(u, req, nw, target) ==
  /\ proc' = [proc EXCEPT ![u] = IF nw THEN ReadyState ELSE req]
  /\ IF nw \/ wait[u] # NoWait
       THEN UNCHANGED <<wait, waiters>>
       ELSE /\ \A c \in Cells : target = <<"cell", c>> => waiters[c] < MaxWaiters
            /\ wait' = [wait EXCEPT ![u] = target]
            /\ waiters' = [c \in Cells |->
                 IF target = <<"cell", c>> THEN waiters[c] + 1 ELSE waiters[c]]
  /\ UNCHANGED <<cell, count, rlCount, flock, lockCount, rebuild, llt, session>>

RefusedByFileLock(u, fv, r, m, nw) ==
  /\ CanTry(u, fv, r, m, nw)
  /\ ~FileAllows(u, FileOf[r])
  /\ Refused(u, RecordReq(fv, r, m), nw, <<"file", FileOf[r]>>)

(* The lock is ours already: it takes the mode asked for, the fvar and the  *)
(* transaction of this call; a shared lock is not made an update lock here. *)
Relock(u, fv, r, m, nw) ==
  /\ CanTry(u, fv, r, m, nw)
  /\ FileAllows(u, FileOf[r])
  /\ \E c \in Mine(u, r) :
       /\ cell[c].mode = "update" \/ m = "shared"
       /\ cell' = [cell EXCEPT ![c].mode = m, ![c].fvar = fv,
                               ![c].txn = TxnFor(u, fv)]
  /\ Granted(u)
  /\ UNCHANGED <<count, waiters, rlCount, flock, lockCount, rebuild, llt, session>>

MustGetPast(u, r, m) == \A c \in Mine(u, r) :
                          cell[c].mode = "shared" /\ m = "update"

(* The walk along the lockwait_index of session after session.              *)
BlockerOf(v) ==
  IF v = NoUser \/ ~Present(v) THEN NoUser
  ELSE CASE wait[v] = NoWait -> NoUser
         [] wait[v][1] = "cell" ->
              IF cell[wait[v][2]] = NoLock THEN NoUser ELSE cell[wait[v][2]].owner
         [] wait[v][1] = "file" -> FlOwner(wait[v][2])

Walk(v) ==
  LET at[n \in 0 .. Cardinality(Users)] ==
        IF n = 0 THEN v ELSE BlockerOf(at[n - 1])
  IN at

(* Mutant: the scan compares the first user it follows and no other.        *)
ScanMeetsFirst(u, v) == v = u

ScanMeets(u, v) == \E n \in 1 .. Cardinality(Users) : Walk(v)[n] = u
ScanEnds(v) == Walk(v)[Cardinality(Users)] = NoUser

Blocked(u, fv, r, m, nw) ==
  /\ CanTry(u, fv, r, m, nw)
  /\ FileAllows(u, FileOf[r])
  /\ MustGetPast(u, r, m)
  /\ Conflicts(u, r, m) # {}

Blocker(u, r, m) == First(HashOf[r], Conflicts(u, r, m))

RefusedByRecord(u, fv, r, m, nw) ==
  /\ Blocked(u, fv, r, m, nw)
  /\ LET c == Blocker(u, r, m)
     IN /\ Deadlock => /\ ~ScanMeets(u, cell[c].owner)
                       /\ ScanEnds(cell[c].owner)
        /\ Refused(u, RecordReq(fv, r, m), nw, <<"cell", c>>)

(* lock_record returns -2 and its caller raises k_deadlock, LOCKED or not.  *)
DeadlockFound(u, fv, r, m, nw) ==
  /\ Deadlock
  /\ Blocked(u, fv, r, m, nw)
  /\ ScanMeets(u, cell[Blocker(u, r, m)].owner)
  /\ LeaveTxn(u, {u})
  /\ proc' = [proc EXCEPT ![u] = ReadyState]

(* The sessions that follow the blocking one wait for each other in a       *)
(* circle the caller is not part of: the scan never ends.                   *)
ScanCircles(u, fv, r, m, nw) ==
  /\ Deadlock
  /\ Blocked(u, fv, r, m, nw)
  /\ LET v == cell[Blocker(u, r, m)].owner
     IN ~ScanMeets(u, v) /\ ~ScanEnds(v)
  /\ proc' = [proc EXCEPT ![u] = [at |-> "scan"]]
  /\ UNCHANGED <<shared, wait, rebuild, llt, session>>

NoConflict(u, fv, r, m, nw) ==
  /\ CanTry(u, fv, r, m, nw)
  /\ FileAllows(u, FileOf[r])
  /\ MustGetPast(u, r, m)
  /\ Conflicts(u, r, m) = {}

Upgrade(u, fv, r, m, nw) ==
  /\ NoConflict(u, fv, r, m, nw)
  /\ \E c \in Mine(u, r) : cell' = [cell EXCEPT ![c].mode = "update"]
  /\ Granted(u)
  /\ UNCHANGED <<count, waiters, rlCount, flock, lockCount, rebuild, llt, session>>

TableFull(u, fv, r, m, nw) ==
  /\ NoConflict(u, fv, r, m, nw)
  /\ Mine(u, r) = {} /\ Used = Cells
  /\ wait' = [wait EXCEPT ![u] = NoWait]
  /\ proc' = [proc EXCEPT ![u] = IF nw THEN ReadyState ELSE RecordReq(fv, r, m)]
  /\ UNCHANGED <<shared, rebuild, llt, session>>

NewLock(u, fv, r, m, nw) ==
  /\ NoConflict(u, fv, r, m, nw)
  /\ Mine(u, r) = {} /\ Used # Cells
  /\ Len(llt[u][r]) < MaxLlt
  /\ LET h == HashOf[r]
         c == First(h, Cells \ Used)
     IN /\ cell' = [cell EXCEPT ![c] =
             [owner |-> u, rec |-> r, mode |-> m, fvar |-> fv, txn |-> TxnFor(u, fv)]]
        /\ waiters' = [waiters EXCEPT ![c] = 0]
        /\ count' = [count EXCEPT ![h] = @ + 1]
  /\ lockCount' = [lockCount EXCEPT ![FileOf[r]] = @ + 1]
  /\ rlCount' = rlCount + 1
  /\ llt' = [llt EXCEPT ![u][r] = <<fv>> \o @]
  /\ Granted(u)
  /\ UNCHANGED <<flock, rebuild, session>>

Ask(u, fv, r, m, nw) ==
  \/ RefusedByFileLock(u, fv, r, m, nw)
  \/ Relock(u, fv, r, m, nw)
  \/ RefusedByRecord(u, fv, r, m, nw)
  \/ DeadlockFound(u, fv, r, m, nw)
  \/ ScanCircles(u, fv, r, m, nw)
  \/ Upgrade(u, fv, r, m, nw)
  \/ TableFull(u, fv, r, m, nw)
  \/ NewLock(u, fv, r, m, nw)

LockRecord(u) ==
  \E fv \in Fvars, r \in Recs, m \in {"update", "shared"}, nw \in BOOLEAN :
    Ask(u, fv, r, m, nw)

-----------------------------------------------------------------------------
(* FILELOCK and FILEUNLOCK.                                                 *)

CanTryFile(u, fv, nw) ==
  /\ SemFree /\ u \in FileLockers /\ fv \in open[u]
  /\ Ready(u) \/ (~nw /\ proc[u] = FileReq(fv))

(* Mutant: op_filelock does not look for record locks of others.            *)
FileFreeOfFileLock(u, f) == flock[f] = NoLock

FileFree(u, f) ==
  /\ flock[f] = NoLock
  /\ \/ lockCount[f] = 0
     \/ \A c \in Used : FileOf[cell[c].rec] = f => cell[c].owner = u

LockFile(u, fv, nw) ==
  LET f == FvarFile[fv]
  IN /\ CanTryFile(u, fv, nw)
     /\ \/ /\ FlOwner(f) = u
           /\ flock' = [flock EXCEPT ![f].txn = txn[u]]
        \/ /\ FileFree(u, f)
           /\ flock' = [flock EXCEPT ![f] =
                [owner |-> u, fvar |-> fv, txn |-> txn[u]]]
     /\ Granted(u)
     /\ UNCHANGED <<cell, count, waiters, rlCount, lockCount, rebuild, llt, session>>

(* The wait is recorded against the file whoever is in the way: nobody      *)
(* looks for a deadlock here.                                               *)
FileLockRefused(u, fv, nw) ==
  LET f == FvarFile[fv]
  IN /\ CanTryFile(u, fv, nw)
     /\ FlOwner(f) # u /\ ~FileFree(u, f)
     /\ wait' = [wait EXCEPT ![u] = IF nw THEN NoWait ELSE <<"file", f>>]
     /\ proc' = [proc EXCEPT ![u] = IF nw THEN ReadyState ELSE FileReq(fv)]
     /\ UNCHANGED <<shared, rebuild, llt, session>>

(* op_flunlock looks at file_lock first and takes the semaphore second.     *)
FlunlockTest(u, fv) ==
  /\ Ready(u) /\ fv \in open[u]
  /\ FlOwner(FvarFile[fv]) = u
  /\ proc' = [proc EXCEPT ![u] = [at |-> "flunlock", fvar |-> fv]]
  /\ UNCHANGED <<shared, wait, rebuild, llt, session>>

Flunlock(u) ==
  /\ SemFree /\ proc[u].at = "flunlock"
  /\ GiveUp({}, {FvarFile[proc[u].fvar]}, {})
  /\ proc' = [proc EXCEPT ![u] = ReadyState]
  /\ UNCHANGED <<rebuild, llt, session>>

-----------------------------------------------------------------------------
(* RELEASE in its three forms, and CLOSE.                                   *)

ReleaseRecord(u, fv, r) ==
  /\ SemFree /\ Ready(u) /\ fv \in open[u]
  /\ FvarFile[fv] = FileOf[r] /\ TxnFor(u, fv) = 0
  /\ lockCount[FileOf[r]] # 0 /\ Mine(u, r) # {}
  /\ GiveUp(Mine(u, r), {}, {})
  /\ DropLlt(u, Mine(u, r))
  /\ UNCHANGED <<rebuild, session, proc>>

ReleaseFile(u, fv) ==
  /\ SemFree /\ Ready(u) /\ fv \in open[u] /\ TxnFor(u, fv) = 0
  /\ GiveUp(FvarCells(u, {fv}), FvarFileLocks(u, {fv}), {})
  /\ DropLlt(u, FvarCells(u, {fv}))
  /\ UNCHANGED <<rebuild, session, proc>>

(* Mutant: RELEASE of everything inside a transaction.                      *)
ReleaseAllAlways(u) ==
  /\ SemFree /\ Ready(u)
  /\ GiveUp(FvarCells(u, Fvars), FvarFileLocks(u, Fvars), {})
  /\ DropLlt(u, FvarCells(u, Fvars))
  /\ UNCHANGED <<rebuild, session, proc>>

ReleaseAll(u) ==
  /\ SemFree /\ Ready(u) /\ txn[u] = 0
  /\ GiveUp(FvarCells(u, Fvars), FvarFileLocks(u, Fvars), {})
  /\ DropLlt(u, FvarCells(u, Fvars))
  /\ UNCHANGED <<rebuild, session, proc>>

(* dio_close in a transaction only notes the close; txn_open takes it back. *)
CloseLater(u, fv) ==
  /\ Ready(u) /\ fv \in open[u] /\ TxnFor(u, fv) # 0
  /\ open' = [open EXCEPT ![u] = @ \ {fv}]
  /\ closing' = [closing EXCEPT ![u] = @ \cup {fv}]
  /\ UNCHANGED <<shared, wait, rebuild, llt, txn, nextTxn, proc>>

Reopen(u, fv) ==
  /\ Ready(u) /\ txn[u] # 0 /\ fv \in closing[u]
  /\ open' = [open EXCEPT ![u] = @ \cup {fv}]
  /\ closing' = [closing EXCEPT ![u] = @ \ {fv}]
  /\ UNCHANGED <<shared, wait, rebuild, llt, txn, nextTxn, proc>>

(* dio_close outside a transaction: the file lock is tested before the      *)
(* semaphore is taken and given up, tested or not, under it; unlock_record  *)
(* then takes the semaphore a second time.                                  *)
CloseTest(u, fv) ==
  /\ Ready(u) /\ fv \in open[u] /\ TxnFor(u, fv) = 0
  /\ FvarFile[fv] \in FvarFileLocks(u, {fv})
  /\ proc' = [proc EXCEPT ![u] = [at |-> "close", fvar |-> fv]]
  /\ UNCHANGED <<shared, wait, rebuild, llt, session>>

CloseFileLock(u) ==
  /\ SemFree /\ proc[u].at = "close"
  /\ GiveUp({}, {FvarFile[proc[u].fvar]}, {})
  /\ proc' = [proc EXCEPT ![u] = [at |-> "unlock", fvar |-> proc[u].fvar]]
  /\ UNCHANGED <<rebuild, llt, session>>

Close(u, fv) ==
  /\ SemFree
  /\ \/ /\ Ready(u) /\ fv \in open[u] /\ TxnFor(u, fv) = 0
        /\ FvarFile[fv] \notin FvarFileLocks(u, {fv})
     \/ proc[u] = [at |-> "unlock", fvar |-> fv]
  /\ GiveUp(FvarCells(u, {fv}), FvarFileLocks(u, {fv}), {})
  /\ DropLlt(u, FvarCells(u, {fv}))
  /\ open' = [open EXCEPT ![u] = @ \ {fv}]
  /\ proc' = [proc EXCEPT ![u] = ReadyState]
  /\ UNCHANGED <<rebuild, txn, nextTxn, closing>>

-----------------------------------------------------------------------------
(* op_write under MUSTLOCK or in a transaction: check_lock, then the write, *)
(* then the release of the lock.                                            *)

(* Mutant: a shared lock is enough to write.                                *)
CheckLockAnyMode(u, r) ==
  IF FlOwner(FileOf[r]) # NoUser THEN FlOwner(FileOf[r]) = u
  ELSE lockCount[FileOf[r]] # 0 /\ Mine(u, r) # {}

CheckLock(u, r) ==
  IF FlOwner(FileOf[r]) # NoUser THEN FlOwner(FileOf[r]) = u
  ELSE /\ lockCount[FileOf[r]] # 0
       /\ \E c \in Mine(u, r) : cell[c].mode = "update"

WriteStart(u, fv, r) ==
  /\ SemFree /\ Ready(u) /\ u \in Writers
  /\ fv \in open[u] /\ FvarFile[fv] = FileOf[r]
  /\ CheckLock(u, r)
  /\ proc' = [proc EXCEPT ![u] = [at |-> "write", fvar |-> fv, rec |-> r]]
  /\ UNCHANGED <<shared, wait, rebuild, llt, session>>

WriteEnd(u, keep) ==
  /\ SemFree /\ proc[u].at = "write"
  /\ LET r == proc[u].rec
         S == IF keep \/ TxnFor(u, proc[u].fvar) # 0 \/ lockCount[FileOf[r]] = 0
                THEN {} ELSE Mine(u, r)
     IN GiveUp(S, {}, {}) /\ DropLlt(u, S)
  /\ proc' = [proc EXCEPT ![u] = ReadyState]
  /\ UNCHANGED <<rebuild, session>>

-----------------------------------------------------------------------------
(* Transactions, as far as locks go, and the ways a session is interrupted. *)

BeginTxn(u) ==
  /\ Ready(u) /\ txn[u] = 0 /\ nextTxn <= MaxTxn
  /\ txn' = [txn EXCEPT ![u] = nextTxn]
  /\ nextTxn' = nextTxn + 1
  /\ UNCHANGED <<shared, wait, rebuild, llt, open, closing, proc>>

EndTxn(u) ==
  /\ SemFree /\ Ready(u) /\ txn[u] # 0
  /\ LeaveTxn(u, {})
  /\ UNCHANGED proc

InLockWait(u) == proc[u].at \in {"record", "file"}

(* K_ABORT while the session waits: clear_lockwait, then txn_abort.         *)
AbortWait(u) ==
  /\ SemFree /\ InLockWait(u)
  /\ LeaveTxn(u, {u})
  /\ proc' = [proc EXCEPT ![u] = ReadyState]

(* A break handler that answers Quit: K_STOP goes through longjmp past the  *)
(* clear_lockwait of K_STOP, and kernel() has no case for it.               *)
BreakQuit(u) ==
  /\ u \in Breakers /\ InLockWait(u)
  /\ proc' = [proc EXCEPT ![u] = ReadyState]
  /\ UNCHANGED <<shared, wait, rebuild, llt, session>>

(* kill_process releases no record lock: by then every file is closed.      *)
Logout(u) ==
  /\ Ready(u) /\ open[u] = {} /\ txn[u] = 0
  /\ proc' = [proc EXCEPT ![u] = [at |-> "gone"]]
  /\ UNCHANGED <<shared, wait, rebuild, llt, session>>

Login(u) ==
  /\ proc[u].at = "gone"
  /\ proc' = [proc EXCEPT ![u] = ReadyState]
  /\ wait' = [wait EXCEPT ![u] = NoWait]
  /\ rebuild' = rebuild \ {u}
  /\ llt' = [llt EXCEPT ![u] = [r \in Recs |-> <<>>]]
  /\ txn' = [txn EXCEPT ![u] = 0]
  /\ open' = [open EXCEPT ![u] = Fvars]
  /\ closing' = [closing EXCEPT ![u] = {}]
  /\ UNCHANGED <<shared, nextTxn>>

Crash(u) ==
  /\ u \in Mortals /\ proc[u].at \notin {"dead", "gone", "scan"}
  /\ proc' = [proc EXCEPT ![u] = [at |-> "dead"]]
  /\ UNCHANGED <<shared, wait, rebuild, llt, session>>

(* Mutant: the file locks of the dead session stay.                         *)
ReapRecordsOnly(u) ==
  /\ SemFree /\ proc[u].at = "dead"
  /\ GiveUp({c \in Used : cell[c].owner = u}, {}, {})
  /\ proc' = [proc EXCEPT ![u] = [at |-> "gone"]]
  /\ UNCHANGED <<rebuild, llt, session>>

(* cleanup or reap_lost_user: remove_user of a session whose process died.  *)
Reap(u) ==
  /\ SemFree /\ proc[u].at = "dead"
  /\ GiveUp({c \in Used : cell[c].owner = u}, {f \in Files : FlOwner(f) = u}, {})
  /\ proc' = [proc EXCEPT ![u] = [at |-> "gone"]]
  /\ UNCHANGED <<rebuild, llt, session>>

-----------------------------------------------------------------------------
(* UNLOCK, the administrator's command, and the event it raises.            *)

AdminUnlock(a, vs, rs) ==
  LET S == {c \in Used : cell[c].owner \in vs /\ cell[c].rec \in rs}
  IN /\ SemFree /\ a \in Admins /\ Ready(a) /\ S # {}
     /\ GiveUp(S, {}, {})
     /\ rebuild' = rebuild \cup {v \in Users : Present(v) /\ \E c \in S : cell[c].owner = v}
     /\ UNCHANGED <<llt, session, proc>>

AdminUnlockFile(a, vs, fs) ==
  LET FS == {f \in fs : vs = Users \/ FlOwner(f) \in vs}
  IN /\ SemFree /\ a \in FileAdmins /\ Ready(a) /\ FS # {}
     /\ GiveUp({}, FS, {})
     /\ UNCHANGED <<rebuild, llt, session, proc>>

OwnCells(u, r) == {c \in Used : cell[c].owner = u /\ cell[c].rec = r}

(* Mutant: the rebuilt LLT is the empty one.                                *)
RebuildLltEmpty(u) ==
  /\ u \in rebuild /\ (Ready(u) \/ InLockWait(u))
  /\ rebuild' = rebuild \ {u}
  /\ llt' = [llt EXCEPT ![u] = [r \in Recs |-> <<>>]]
  /\ UNCHANGED <<shared, wait, session, proc>>

RebuildLlt(u) ==
  /\ u \in rebuild /\ (Ready(u) \/ InLockWait(u))
  /\ rebuild' = rebuild \ {u}
  /\ llt' = [llt EXCEPT ![u] = [r \in Recs |->
        IF OwnCells(u, r) = {} THEN <<>>
        ELSE <<cell[CHOOSE c \in OwnCells(u, r) : TRUE].fvar>>]]
  /\ UNCHANGED <<shared, wait, session, proc>>

-----------------------------------------------------------------------------

Statement(u) ==
  \/ LockRecord(u)
  \/ \E fv \in Fvars, nw \in BOOLEAN :
       LockFile(u, fv, nw) \/ FileLockRefused(u, fv, nw)
  \/ \E fv \in Fvars, r \in Recs : ReleaseRecord(u, fv, r) \/ WriteStart(u, fv, r)
  \/ \E fv \in Fvars : \/ FlunlockTest(u, fv) \/ ReleaseFile(u, fv)
                       \/ CloseLater(u, fv) \/ Reopen(u, fv)
                       \/ CloseTest(u, fv) \/ Close(u, fv)
  \/ ReleaseAll(u) \/ Flunlock(u) \/ CloseFileLock(u)
  \/ \E keep \in BOOLEAN : WriteEnd(u, keep)
  \/ BeginTxn(u) \/ EndTxn(u)

SessionEvent(u) ==
  \/ AbortWait(u) \/ BreakQuit(u) \/ Logout(u) \/ Login(u)
  \/ Crash(u) \/ Reap(u) \/ RebuildLlt(u)

UnlockCommand(u) ==
  \E vs \in {{v} : v \in Users} \cup {Users} :
    \/ \E rs \in {{r} : r \in Recs} \cup {Recs} : AdminUnlock(u, vs, rs)
    \/ \E fs \in {{f} : f \in Files} \cup {Files} : AdminUnlockFile(u, vs, fs)

Next == \E u \in Users : Statement(u) \/ SessionEvent(u) \/ UnlockCommand(u)

Spec == Init /\ [][Next]_vars

(* A waiting session runs its opcode again every 250 ms.                    *)
Retry(u) ==
  \/ /\ proc[u].at = "record"
     /\ Ask(u, proc[u].fvar, proc[u].rec, proc[u].mode, FALSE)
  \/ /\ proc[u].at = "file"
     /\ LockFile(u, proc[u].fvar, FALSE) \/ FileLockRefused(u, proc[u].fvar, FALSE)

FairSpec == Spec /\ \A u \in Users : WF_vars(Retry(u))

-----------------------------------------------------------------------------
(* Every counter the kernel keeps equals what it counts: RLOCK_ENTRY.count, *)
(* FILE_ENTRY.lock_count and rl_count.  lock_record stops its scan by the   *)
(* first and op_filelock takes its short cut by the second.                 *)
CountersExact ==
  /\ \A h \in Cells : count[h] = Cardinality(HashCells(h))
  /\ \A f \in Files :
       lockCount[f] = Cardinality({c \in Used : FileOf[cell[c].rec] = f})
  /\ rlCount = Cardinality(Used)

(* Two locks on one record are either of two owners who both share it, and  *)
(* no owner holds two: whatever the table's layout, nobody is let past an   *)
(* update lock, and no update lock is granted past a shared one.            *)
RecordsExclusive ==
  \A c, d \in Used :
    (c # d /\ cell[c].rec = cell[d].rec) =>
      /\ cell[c].owner # cell[d].owner
      /\ cell[c].mode = "shared" /\ cell[d].mode = "shared"

(* While a file is locked, nobody but the owner of the file lock holds a    *)
(* record of it (op_filelock against lock_record).                          *)
FileLockExclusive ==
  \A c \in Used : FlOwner(FileOf[cell[c].rec]) \in {NoUser, cell[c].owner}

(* A recorded wait is for a cell in use, of another session, whose waiters  *)
(* count covers it: clear_waiters, which passes over a cell that counts no  *)
(* waiters, never leaves a session waiting for a lock that is gone.         *)
WaitsAreCounted ==
  \A c \in Cells : Waiting(c) # {} =>
    /\ cell[c] # NoLock
    /\ cell[c].owner \notin Waiting(c)
    /\ Cardinality(Waiting(c)) <= waiters[c]

(* Every lock of a session is in its local lock table, so CLOSE and RELEASE *)
(* find it; an entry may be missing only of a session that is gone.         *)
LltCovers ==
  \A c \in Used : Present(cell[c].owner) =>
    proc[cell[c].owner].at = "dead" \/ llt[cell[c].owner][cell[c].rec] # <<>>

(* No lock outlives the session that took it: kill_process gives up the     *)
(* user table entry without releasing locks (verify-deadlock.ps1:306).      *)
NoLockOutlivesSession ==
  \A u \in Users : ~Present(u) =>
    /\ \A c \in Used : cell[c].owner # u
    /\ \A f \in Files : FlOwner(f) # u

(* What the locks are for: two sessions are never between the lock check    *)
(* and the end of a write of one record.                                    *)
WritesExclusive ==
  \A u, v \in Users :
    (u # v /\ proc[u].at = "write" /\ proc[v].at = "write")
      => proc[u].rec # proc[v].rec

(* A lock taken in a transaction is still held, in some mode, as long as    *)
(* the transaction runs: RELEASE, CLOSE and WRITE leave it alone.           *)
TxnKeepsLocks ==
  [][\A c \in Used : LET u == cell[c].owner IN
       (/\ cell[c].txn # 0 /\ cell[c].txn = txn[u]
        /\ txn'[u] = txn[u] /\ proc'[u].at # "gone")
         => \E d \in Cells : /\ cell'[d] # NoLock
                             /\ cell'[d].owner = u /\ cell'[d].rec = cell[c].rec]_vars

(* Who keeps a waiting session from going on, by the locks there are and   *)
(* not by what lock_record and op_filelock write down of it.               *)
KeptByFileLock(u, f) == IF FileAllows(u, f) THEN {} ELSE {FlOwner(f)}

KeptByRecord(u, r, m) ==
  {cell[c].owner : c \in {d \in Used : /\ cell[d].rec = r /\ cell[d].owner # u
                                       /\ m = "update" \/ cell[d].mode = "update"}}

KeptByRecordsOf(u, f) ==
  {cell[c].owner : c \in {d \in Used : FileOf[cell[d].rec] = f}} \ {u}

RecordKeepers ==
  [u \in Users |-> IF proc[u].at = "record"
                   THEN KeptByRecord(u, proc[u].rec, proc[u].mode) ELSE {}]

Keepers ==
  [u \in Users |->
     CASE proc[u].at = "record" -> RecordKeepers[u] \cup KeptByFileLock(u, FileOf[proc[u].rec])
       [] proc[u].at = "file" -> KeptByFileLock(u, FvarFile[proc[u].fvar])
                                   \cup KeptByRecordsOf(u, FvarFile[proc[u].fvar])
       [] OTHER -> {}]

(* u waits, through others who wait, for itself.                           *)
InCircle(keepers, u) ==
  LET within[n \in Nat] ==
        IF n = 0 THEN keepers[u]
        ELSE within[n - 1] \cup UNION {keepers[v] : v \in within[n - 1]}
  IN u \in within[Cardinality(Users)]

(* A session has REC_LOCK_SEM for ever: it scans along waits that close a  *)
(* circle without it, one of them for a file (op_lock.c:1203).             *)
FileWaitFollowed == ~SemFree /\ \E v \in Users : wait[v][1] = "file"

(* DEADLOCK=1 traps deadlocks over record locks: sessions that wait in a   *)
(* circle, each for a record the next one holds, do not do so for ever,    *)
(* although a wait is written down once and may be for another lock when   *)
(* the scan of another session follows it; unless a scan that does not end *)
(* has stopped everybody.                                                  *)
DeadlocksTrapped ==
  \A u \in Users : []<>(~InCircle(RecordKeepers, u) \/ FileWaitFollowed)

(* DEADLOCK=1 traps deadlocks (config.c:34), whatever locks they are over. *)
AllDeadlocksTrapped == \A u \in Users : []<>~InCircle(Keepers, u)

-----------------------------------------------------------------------------
(* The table as the lock service it implements.                             *)
Held == {[owner |-> cell[c].owner, rec |-> cell[c].rec, mode |-> cell[c].mode] :
           c \in Used}

Service == INSTANCE LockService
             WITH held <- Held, fheld <- [f \in Files |-> FlOwner(f)]

(* Whatever the scans of the table see or miss, a lock is granted only when *)
(* it is compatible with every lock there is (refinement of LockService).   *)
ImplementsService == Service!LSSpec
=============================================================================
