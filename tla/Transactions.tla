---------------------------- MODULE Transactions ----------------------------
(***************************************************************************)
(* Transactions of the SD kernel (gplsrc/txn.c): the cache of deferred     *)
(* writes, deletes and closes of each session, nesting, the commit that    *)
(* applies the cache action by action with a before image of each record,  *)
(* the abort that puts the images back, and rollback, with the record      *)
(* locks they hold and give up.  The files are a function from records to  *)
(* contents; a delete is a write of NoRec.                                 *)
(*                                                                         *)
(* Commit and abort take one step for each action they apply: every other  *)
(* session runs in between.                                                *)
(***************************************************************************)
EXTENDS Integers, Sequences, SequencesExt

CONSTANTS
  Sessions,
  Files,
  Recs,
  FileOf,         \* FileOf[r]: the file of record r
  Vals,           \* contents of a record
  NoRec,          \* the content of a record that does not exist
  NoLock,         \* the lock of a record nobody has locked
  Nothing,        \* no write is pending
  Quota,          \* bound: Quota[s] transactions begun by session s
  MaxLevel,       \* bound: command processor levels (EXECUTE)
  Closers,        \* sessions whose programs close files
  Executors,      \* sessions whose programs execute commands
  Nesters,        \* sessions whose commands begin transactions in a caller's
  Aborters,       \* sessions whose programs abort
  Mortals,        \* sessions that may be killed
  Fallible,       \* records whose write at commit may fail
  Unrestorable    \* records whose before image may fail to go back

Contents == Vals \cup {NoRec}
Levels == 1 .. MaxLevel

ASSUME TxnConstants ==
  /\ FileOf \in [Recs -> Files]
  /\ NoRec \notin Vals /\ Nothing \notin Contents
  /\ NoLock \notin [owner : Sessions, txn : Nat]
  /\ Quota \in [Sessions -> Nat]
  /\ MaxLevel \in Nat \ {0}

VARIABLES
  disk,       \* the content of each record in its file
  lock,       \* the update lock on each record and its txn_id
  nextTxn,    \* sysseg->next_txn_id
  txn,        \* process.txn_id, 0 outside a transaction
  cache,      \* txn_head: the deferred actions, oldest first
  stack,      \* txn_stack: the transactions this one is nested in
  txnLevel,   \* txn_cproc_level
  depth,      \* txn_depth
  commitId,   \* commit_txn_id: the transaction whose commit is in flight
  undo,       \* undo_head: the before images, newest first
  level,      \* cproc_level
  begun,      \* begun[s][l]: BEGIN TRANSACTIONs the program at level l is in
  open,       \* files the session has open
  quota,      \* transactions the session may still begin
  pos,        \* the action of the cache a commit applies next
  at          \* what the session is doing

cached == <<txn, cache, stack, txnLevel, depth>>
program == <<level, begun, open, quota>>
doing == <<at, pos>>
vars == <<disk, lock, nextTxn, cached, commitId, undo, program, doing>>

Write(r, v) == [mode |-> "write", rec |-> r, val |-> v, freed |-> FALSE]
CloseOf(f) == [mode |-> "close", file |-> f, freed |-> FALSE]
Image(r, v) == [rec |-> r, val |-> v]

Actions == [mode : {"write"}, rec : Recs, val : Contents, freed : BOOLEAN]
           \cup [mode : {"close"}, file : Files, freed : BOOLEAN]

Ids == 0 .. (nextTxn - 1)

Outers(ids) == [txn : ids, level : Levels, cache : Seq(Actions)]
Images == [rec : Recs, val : Contents]
Places == {"ready", "commit", "abort", "rollall", "dead"}

TypeOK ==
  /\ disk \in [Recs -> Contents]
  /\ lock \in [Recs -> [owner : Sessions, txn : Ids] \cup {NoLock}]
  /\ nextTxn \in Nat \ {0}
  /\ txn \in [Sessions -> Ids] /\ commitId \in [Sessions -> Ids]
  /\ cache \in [Sessions -> Seq(Actions)]
  /\ stack \in [Sessions -> Seq(Outers(Ids))]
  /\ txnLevel \in [Sessions -> Levels] /\ level \in [Sessions -> Levels]
  /\ depth \in [Sessions -> Int] /\ quota \in [Sessions -> Nat]
  /\ undo \in [Sessions -> Seq(Images)]
  /\ begun \in [Sessions -> [Levels -> Nat]]
  /\ open \in [Sessions -> SUBSET Files]
  /\ at \in [Sessions -> Places]
  /\ pos \in [Sessions -> Nat \ {0}]

NoneBegun == [l \in Levels |-> 0]

Init ==
  /\ disk = [r \in Recs |-> NoRec]
  /\ lock = [r \in Recs |-> NoLock]
  /\ nextTxn = 1
  /\ txn = [s \in Sessions |-> 0]
  /\ cache = [s \in Sessions |-> <<>>]
  /\ stack = [s \in Sessions |-> <<>>]
  /\ txnLevel = [s \in Sessions |-> 1]
  /\ depth = [s \in Sessions |-> 0]
  /\ commitId = [s \in Sessions |-> 0]
  /\ undo = [s \in Sessions |-> <<>>]
  /\ level = [s \in Sessions |-> 1]
  /\ begun = [s \in Sessions |-> NoneBegun]
  /\ open = [s \in Sessions |-> Files]
  /\ quota = Quota
  /\ pos = [s \in Sessions |-> 1]
  /\ at = [s \in Sessions |-> "ready"]

Goto(s, where) ==
  /\ at' = [at EXCEPT ![s] = where]
  /\ pos' = [pos EXCEPT ![s] = 1]

-----------------------------------------------------------------------------
(* Locks.  A record lock carries the transaction that asked for it last.    *)

Owns(s, r) == lock[r] # NoLock /\ lock[r].owner = s

Unlock(rs) == lock' = [r \in Recs |-> IF r \in rs THEN NoLock ELSE lock[r]]

TxnLocks(s, id) == {r \in Recs : Owns(s, r) /\ lock[r].txn = id}

FileLocks(s, fs) == {r \in Recs : Owns(s, r) /\ FileOf[r] \in fs}

LockRec(s, r) ==
  /\ at[s] = "ready" /\ FileOf[r] \in open[s]
  /\ lock[r] = NoLock \/ Owns(s, r)
  /\ lock' = [lock EXCEPT ![r] = [owner |-> s, txn |-> txn[s]]]
  /\ UNCHANGED <<disk, nextTxn, cached, commitId, undo, program, doing>>

(* Mutant: a lock taken in a transaction may be released before its end.    *)
ReleaseAlways(s, r) ==
  /\ at[s] = "ready" /\ FileOf[r] \in open[s] /\ Owns(s, r)
  /\ Unlock({r})
  /\ UNCHANGED <<disk, nextTxn, cached, commitId, undo, program, doing>>

Release(s, r) ==
  /\ at[s] = "ready" /\ FileOf[r] \in open[s]
  /\ txn[s] = 0 /\ Owns(s, r)
  /\ Unlock({r})
  /\ UNCHANGED <<disk, nextTxn, cached, commitId, undo, program, doing>>

-----------------------------------------------------------------------------
(* The cache.                                                               *)

IsWriteOf(a, r) == a.mode = "write" /\ a.rec = r

HasWrite(c, r) == \E i \in DOMAIN c : IsWriteOf(c[i], r)

WriteAt(c, r) == CHOOSE i \in DOMAIN c : IsWriteOf(c[i], r)

(* txn_write and txn_delete: one action for each record.                    *)
Deferred(c, r, v) ==
  IF HasWrite(c, r) THEN [c EXCEPT ![WriteAt(c, r)].val = v]
                    ELSE Append(c, Write(r, v))

Defer(s, r, v) == cache' = [cache EXCEPT ![s] = Deferred(@, r, v)]

(* WRITE and DELETE in a transaction: check_lock, then the cache.           *)
PutLater(s, r, v) ==
  /\ at[s] = "ready" /\ FileOf[r] \in open[s]
  /\ txn[s] # 0 /\ Owns(s, r)
  /\ Defer(s, r, v)
  /\ UNCHANGED <<disk, lock, nextTxn, txn, stack, txnLevel, depth, commitId,
                 undo, program, doing>>

(* WRITE, WRITEU and DELETE outside one, with MUSTLOCK.                     *)
PutNow(s, r, v, keep) ==
  /\ at[s] = "ready" /\ FileOf[r] \in open[s]
  /\ txn[s] = 0 /\ Owns(s, r)
  /\ disk' = [disk EXCEPT ![r] = v]
  /\ Unlock(IF keep THEN {} ELSE {r})
  /\ UNCHANGED <<nextTxn, cached, commitId, undo, program, doing>>

(* dio_close and txn_close.                                                 *)
Close(s, f) ==
  /\ at[s] = "ready" /\ s \in Closers /\ f \in open[s]
  /\ open' = [open EXCEPT ![s] = @ \ {f}]
  /\ IF txn[s] = 0
       THEN Unlock(FileLocks(s, {f})) /\ UNCHANGED cache
       ELSE cache' = [cache EXCEPT ![s] = Append(@, CloseOf(f))] /\ UNCHANGED lock
  /\ UNCHANGED <<disk, nextTxn, txn, stack, txnLevel, depth, commitId, undo,
                 level, begun, quota, doing>>

(* txn_open takes a deferred close of the file out of the cache.            *)
Reopen(s, f) ==
  /\ at[s] = "ready" /\ txn[s] # 0
  /\ \E i \in DOMAIN cache[s] :
       /\ cache[s][i].mode = "close" /\ cache[s][i].file = f
       /\ cache' = [cache EXCEPT ![s] = RemoveAt(@, i)]
  /\ open' = [open EXCEPT ![s] = @ \cup {f}]
  /\ UNCHANGED <<disk, lock, nextTxn, txn, stack, txnLevel, depth, commitId,
                 undo, level, begun, quota, doing>>

(* txn_read: the innermost transaction that deals with the record decides.  *)
CachedIn(c, r) == IF HasWrite(c, r) THEN c[WriteAt(c, r)].val ELSE Nothing

-----------------------------------------------------------------------------
(* BEGIN TRANSACTION, and the end of a level.                               *)

Begin(s) ==
  /\ at[s] = "ready" /\ quota[s] > 0
  /\ s \in Nesters \/ \A l \in 1 .. (level[s] - 1) : begun[s][l] = 0
  /\ IF txn[s] = 0
       THEN UNCHANGED <<stack, cache>>
       ELSE /\ stack' = [stack EXCEPT ![s] =
                 <<[txn |-> txn[s], level |-> level[s], cache |-> cache[s]]>> \o @]
            /\ cache' = [cache EXCEPT ![s] = <<>>]
  /\ depth' = [depth EXCEPT ![s] = @ + 1]
  /\ txnLevel' = [txnLevel EXCEPT ![s] = level[s]]
  /\ txn' = [txn EXCEPT ![s] = nextTxn]
  /\ nextTxn' = nextTxn + 1
  /\ begun' = [begun EXCEPT ![s][level[s]] = @ + 1]
  /\ quota' = [quota EXCEPT ![s] = @ - 1]
  /\ UNCHANGED <<disk, lock, commitId, undo, level, open, doing>>

(* end_txn_level, after the cache of the level has been run down.           *)
EndLevel(s) ==
  /\ depth' = [depth EXCEPT ![s] = @ - 1]
  /\ IF stack[s] = <<>>
       THEN /\ txn' = [txn EXCEPT ![s] = 0]
            /\ cache' = [cache EXCEPT ![s] = <<>>]
            /\ UNCHANGED <<stack, txnLevel>>
       ELSE LET outer == Head(stack[s])
            IN /\ txn' = [txn EXCEPT ![s] = outer.txn]
               /\ cache' = [cache EXCEPT ![s] = outer.cache]
               /\ txnLevel' = [txnLevel EXCEPT ![s] = outer.level]
               /\ stack' = [stack EXCEPT ![s] = Tail(@)]

ClosesIn(c) == {c[i].file : i \in {j \in DOMAIN c : c[j].mode = "close"}}

(* rollback: the deferred closes are done, the locks go, the level ends.    *)
Rollback(s) ==
  /\ Unlock(TxnLocks(s, txn[s]) \cup FileLocks(s, ClosesIn(cache[s])))
  /\ EndLevel(s)

(* END TRANSACTION or ROLLBACK; a transaction that is gone is an abort.     *)
End(s) ==
  /\ at[s] = "ready" /\ begun[s][level[s]] > 0
  /\ IF txn[s] = 0
       THEN Goto(s, "abort") /\ UNCHANGED <<lock, cached, begun>>
       ELSE /\ Rollback(s)
            /\ begun' = [begun EXCEPT ![s][level[s]] = @ - 1]
            /\ UNCHANGED doing
  /\ UNCHANGED <<disk, nextTxn, commitId, undo, level, open, quota>>

-----------------------------------------------------------------------------
(* COMMIT.                                                                  *)

Commit(s) ==
  /\ at[s] = "ready" /\ begun[s][level[s]] > 0
  /\ commitId' = [commitId EXCEPT ![s] = txn[s]]
  /\ txn' = [txn EXCEPT ![s] = 0]
  /\ Goto(s, "commit")
  /\ UNCHANGED <<disk, lock, nextTxn, cache, stack, txnLevel, depth, undo, program>>

Committing(s) == at[s] = "commit"

Applying(s) == Committing(s) /\ pos[s] <= Len(cache[s])

(* Mutant: the outer transactions keep their write of the record.           *)
KeepParent(st, r) == st

Forget(c, r) == IF HasWrite(c, r) THEN RemoveAt(c, WriteAt(c, r)) ELSE c

(* clear_parent: the outer transactions forget their write of the record    *)
(* (each cache has one at most).                                            *)
ClearParent(st, r) ==
  [i \in DOMAIN st |-> [st[i] EXCEPT !.cache = Forget(@, r)]]

(* Mutant: no image of a record that is not there yet.                      *)
TakeImageIfThere(s, r) ==
  IF disk[r] = NoRec THEN UNCHANGED undo
  ELSE undo' = [undo EXCEPT ![s] = <<Image(r, disk[r])>> \o @]

TakeImage(s, r) == undo' = [undo EXCEPT ![s] = <<Image(r, disk[r])>> \o @]

Apply(s) ==
  /\ Applying(s)
  /\ LET a == cache[s][pos[s]]
     IN \/ /\ a.mode = "write"
           /\ TakeImage(s, a.rec)
           /\ disk' = [disk EXCEPT ![a.rec] = a.val]
           /\ stack' = [stack EXCEPT ![s] = ClearParent(@, a.rec)]
           /\ UNCHANGED lock
        \/ /\ a.mode = "close"
           /\ Unlock(FileLocks(s, {a.file}))
           /\ UNCHANGED <<disk, undo, stack>>
  /\ cache' = [cache EXCEPT ![s][pos[s]].freed = TRUE]
  /\ pos' = [pos EXCEPT ![s] = @ + 1]
  /\ UNCHANGED <<nextTxn, txn, txnLevel, depth, commitId, program, at>>

(* The write fails, before or after it reached the file: k_error does not   *)
(* come back, kernel() aborts.                                              *)
ApplyFails(s) ==
  /\ Applying(s)
  /\ LET a == cache[s][pos[s]]
     IN /\ a.mode = "write" /\ a.rec \in Fallible
        /\ TakeImage(s, a.rec)
        /\ \E v \in {disk[a.rec], a.val} : disk' = [disk EXCEPT ![a.rec] = v]
  /\ Goto(s, "abort")
  /\ UNCHANGED <<lock, nextTxn, cached, commitId, program>>

(* Mutant: the images of a commit that succeeded stay.                      *)
CommitKeepsImages(s) ==
  /\ Committing(s) /\ ~Applying(s)
  /\ Unlock(TxnLocks(s, commitId[s]))
  /\ commitId' = [commitId EXCEPT ![s] = 0]
  /\ EndLevel(s)
  /\ begun' = [begun EXCEPT ![s][level[s]] = @ - 1]
  /\ Goto(s, "ready")
  /\ UNCHANGED <<disk, nextTxn, undo, level, open, quota>>

(* The cache has been applied: the locks and the images go, the level ends. *)
CommitDone(s) ==
  /\ Committing(s) /\ ~Applying(s)
  /\ Unlock(TxnLocks(s, commitId[s]))
  /\ commitId' = [commitId EXCEPT ![s] = 0]
  /\ undo' = [undo EXCEPT ![s] = <<>>]
  /\ EndLevel(s)
  /\ begun' = [begun EXCEPT ![s][level[s]] = @ - 1]
  /\ Goto(s, "ready")
  /\ UNCHANGED <<disk, nextTxn, level, open, quota>>

-----------------------------------------------------------------------------
(* An abort: txn_abort puts the images back, newest first, then gives the   *)
(* locks of the failed commit up, then rolls every transaction back.        *)

Abort(s) ==
  /\ s \in Aborters /\ at[s] = "ready"
  /\ Goto(s, "abort")
  /\ UNCHANGED <<disk, lock, nextTxn, cached, commitId, undo, program>>

Undo(s) ==
  /\ at[s] = "abort" /\ undo[s] # <<>>
  /\ LET u == Head(undo[s])
     IN \/ disk' = [disk EXCEPT ![u.rec] = u.val]
        \/ u.rec \in Unrestorable /\ UNCHANGED disk
  /\ undo' = [undo EXCEPT ![s] = Tail(@)]
  /\ UNCHANGED <<lock, nextTxn, cached, commitId, program, doing>>

(* Mutant: the locks go before the images are back.                         *)
AbortUnlockFirst(s) ==
  /\ at[s] = "abort" /\ commitId[s] # 0
  /\ Unlock(TxnLocks(s, commitId[s]))
  /\ commitId' = [commitId EXCEPT ![s] = 0]
  /\ UNCHANGED <<disk, nextTxn, cached, undo, program, doing>>

(* Mutant: the locks of the failed commit stay.                             *)
AbortKeepsLocks(s) ==
  /\ at[s] = "abort" /\ undo[s] = <<>> /\ commitId[s] # 0
  /\ commitId' = [commitId EXCEPT ![s] = 0]
  /\ UNCHANGED <<disk, lock, nextTxn, cached, undo, program, doing>>

AbortUnlock(s) ==
  /\ at[s] = "abort" /\ undo[s] = <<>> /\ commitId[s] # 0
  /\ Unlock(TxnLocks(s, commitId[s]))
  /\ commitId' = [commitId EXCEPT ![s] = 0]
  /\ UNCHANGED <<disk, nextTxn, cached, undo, program, doing>>

AbortRollback(s) ==
  /\ at[s] = "abort" /\ undo[s] = <<>> /\ commitId[s] = 0 /\ txn[s] # 0
  /\ Rollback(s)
  /\ UNCHANGED <<disk, nextTxn, commitId, undo, program, doing>>

(* A command processor goes on: the one at the bottom, or the program that  *)
(* executed the aborted command and traps aborts.                           *)
AbortDone(s) ==
  /\ at[s] = "abort" /\ undo[s] = <<>> /\ commitId[s] = 0 /\ txn[s] = 0
  /\ \/ /\ level' = [level EXCEPT ![s] = 1]
        /\ begun' = [begun EXCEPT ![s] = NoneBegun]
     \/ /\ level[s] > 1
        /\ level' = [level EXCEPT ![s] = @ - 1]
        /\ begun' = [begun EXCEPT ![s][level[s]] = 0]
  /\ Goto(s, "ready")
  /\ UNCHANGED <<disk, lock, nextTxn, cached, commitId, undo, open, quota>>

-----------------------------------------------------------------------------
(* EXECUTE, and the end of a command: the command processor rolls back the  *)
(* transactions begun at its level or a higher one ("rollback all").        *)

Execute(s) ==
  /\ at[s] = "ready" /\ s \in Executors /\ level[s] < MaxLevel
  /\ level' = [level EXCEPT ![s] = @ + 1]
  /\ UNCHANGED <<disk, lock, nextTxn, cached, commitId, undo, begun, open, quota, doing>>

EndCommand(s) ==
  /\ at[s] = "ready"
  /\ Goto(s, "rollall")
  /\ UNCHANGED <<disk, lock, nextTxn, cached, commitId, undo, program>>

(* Mutant: "rollback all" takes the transactions of the callers, too.       *)
RollbackEvery(s) ==
  /\ at[s] = "rollall" /\ txn[s] # 0
  /\ Rollback(s)
  /\ UNCHANGED <<disk, nextTxn, commitId, undo, program, doing>>

RollbackAll(s) ==
  /\ at[s] = "rollall" /\ txn[s] # 0 /\ txnLevel[s] >= level[s]
  /\ Rollback(s)
  /\ UNCHANGED <<disk, nextTxn, commitId, undo, program, doing>>

(* Mutant: the command processor at the bottom ends, too.                   *)
CommandDoneAtBottom(s) ==
  /\ at[s] = "rollall" /\ ~(txn[s] # 0 /\ txnLevel[s] >= level[s])
  /\ begun' = [begun EXCEPT ![s][level[s]] = 0]
  /\ level' = [level EXCEPT ![s] = @ - 1]
  /\ Goto(s, "ready")
  /\ UNCHANGED <<disk, lock, nextTxn, cached, commitId, undo, open, quota>>

CommandDone(s) ==
  /\ at[s] = "rollall" /\ ~(txn[s] # 0 /\ txnLevel[s] >= level[s])
  /\ begun' = [begun EXCEPT ![s][level[s]] = 0]
  /\ level' = [level EXCEPT ![s] = IF @ > 1 THEN @ - 1 ELSE 1]
  /\ Goto(s, "ready")
  /\ UNCHANGED <<disk, lock, nextTxn, cached, commitId, undo, open, quota>>

-----------------------------------------------------------------------------
(* A session killed in any of these places, and the user table entry reaped *)
(* (remove_user) and used by a new session.  The images die with it.        *)

Crash(s) ==
  /\ s \in Mortals /\ at[s] # "dead"
  /\ Goto(s, "dead")
  /\ UNCHANGED <<disk, lock, nextTxn, cached, commitId, undo, program>>

(* A transaction that reuses what a failed commit freed: the memory may be  *)
(* as it was, or the process may fault.                                     *)
Fault(s) ==
  /\ at[s] = "ready" /\ txn[s] # 0
  /\ \E i \in DOMAIN cache[s] : cache[s][i].freed
  /\ Goto(s, "dead")
  /\ UNCHANGED <<disk, lock, nextTxn, cached, commitId, undo, program>>

Reap(s) ==
  /\ at[s] = "dead"
  /\ Unlock({r \in Recs : Owns(s, r)})
  /\ txn' = [txn EXCEPT ![s] = 0]
  /\ cache' = [cache EXCEPT ![s] = <<>>]
  /\ stack' = [stack EXCEPT ![s] = <<>>]
  /\ txnLevel' = [txnLevel EXCEPT ![s] = 1]
  /\ depth' = [depth EXCEPT ![s] = 0]
  /\ commitId' = [commitId EXCEPT ![s] = 0]
  /\ undo' = [undo EXCEPT ![s] = <<>>]
  /\ level' = [level EXCEPT ![s] = 1]
  /\ begun' = [begun EXCEPT ![s] = NoneBegun]
  /\ open' = [open EXCEPT ![s] = Files]
  /\ Goto(s, "ready")
  /\ UNCHANGED <<disk, nextTxn, quota>>

-----------------------------------------------------------------------------

Statement(s) ==
  \/ \E r \in Recs : LockRec(s, r) \/ Release(s, r)
  \/ \E r \in Recs, v \in Contents :
       PutLater(s, r, v) \/ \E keep \in BOOLEAN : PutNow(s, r, v, keep)
  \/ \E f \in Files : Close(s, f) \/ Reopen(s, f)
  \/ Begin(s) \/ Commit(s) \/ End(s) \/ Execute(s) \/ EndCommand(s)

Internal(s) ==
  \/ Apply(s) \/ ApplyFails(s) \/ CommitDone(s)
  \/ Undo(s) \/ AbortUnlock(s) \/ AbortRollback(s) \/ AbortDone(s)
  \/ RollbackAll(s) \/ CommandDone(s)

Event(s) == Abort(s) \/ Crash(s) \/ Fault(s) \/ Reap(s)

Next == \E s \in Sessions : Statement(s) \/ Internal(s) \/ Event(s)

Spec == Init /\ [][Next]_vars

-----------------------------------------------------------------------------
InFlight(s) == at[s] # "dead" /\ (txn[s] # 0 \/ Committing(s))

CachesOf(s) == {cache[s]} \cup {stack[s][i].cache : i \in DOMAIN stack[s]}

(* What a running transaction, at any level, is still going to write is     *)
(* locked by its session: nobody else can write it before COMMIT does.      *)
PendingLocked ==
  \A s \in Sessions : InFlight(s) =>
    \A c \in CachesOf(s) : \A i \in DOMAIN c :
      (c[i].mode = "write" /\ ~c[i].freed) => Owns(s, c[i].rec)

(* No lock is left behind with the id of a transaction that has ended, not  *)
(* even by a commit that failed (txn_abort releases commit_txn_id).         *)
LocksAreLive ==
  \A r \in Recs : lock[r] # NoLock =>
    LET s == lock[r].owner
    IN lock[r].txn \in {0, txn[s], commitId[s]}
                        \cup {stack[s][i].txn : i \in DOMAIN stack[s]}

(* The records txn_abort rewrites are the ones the failed transaction still *)
(* holds locks on: the images go back before the locks go.                  *)
UndoIsMine ==
  \A s \in Sessions : at[s] = "abort" =>
    \A i \in DOMAIN undo[s] : Owns(s, undo[s][i].rec)

(* Outside a transaction nothing of an earlier one is left: no deferred     *)
(* action the next transaction would inherit, no outer level the next end   *)
(* would bring back, no image a later abort would write.                    *)
NothingLeftBehind ==
  \A s \in Sessions : (at[s] = "ready" /\ txn[s] = 0) =>
    /\ cache[s] = <<>> /\ stack[s] = <<>> /\ depth[s] = 0
    /\ commitId[s] = 0 /\ undo[s] = <<>>

(* The transactions the programs of a session are in: the nth at level l.   *)
Begun(s) == UNION {{l} \X (1 .. begun[s][l]) : l \in Levels}

(* Every transaction a running program has begun and not ended is there,    *)
(* and nothing else: the end of a command takes what its program has begun, *)
(* and leaves the transactions of the program that executed it ("rollback   *)
(* all" takes those begun at its own command level and higher ones).        *)
BegunAreLive ==
  \A s \in Sessions : at[s] = "ready" =>
    (IF txn[s] = 0 THEN 0 ELSE 1) + Len(stack[s]) = Cardinality(Begun(s))

(* What an inner transaction has committed is not overwritten by an older   *)
(* write of the record in a transaction around it (clear_parent).           *)
InnerWriteWins ==
  \A s \in Sessions : Committing(s) =>
    \A i \in DOMAIN cache[s], j \in DOMAIN stack[s] :
      (cache[s][i].mode = "write" /\ cache[s][i].freed)
        => CachedIn(stack[s][j].cache, cache[s][i].rec) = Nothing

-----------------------------------------------------------------------------
(* The transactions as the service they implement.  While a commit is in    *)
(* flight or is being undone, the committed content of a record is its      *)
(* oldest image.                                                            *)
Imaged(r) == {s \in Sessions : at[s] # "dead"
                                /\ \E i \in DOMAIN undo[s] : undo[s][i].rec = r}

Oldest(u, r) ==
  CHOOSE i \in DOMAIN u : u[i].rec = r /\ \A j \in DOMAIN u : u[j].rec = r => j <= i

Committed(r) ==
  IF Imaged(r) = {} THEN disk[r]
  ELSE LET u == undo[CHOOSE s \in Imaged(r) : TRUE] IN u[Oldest(u, r)].val

Pending(s, r) == IF InFlight(s) THEN CachedIn(cache[s], r) ELSE Nothing

Service == INSTANCE TxnService
             WITH store <- [r \in Recs |-> Committed(r)],
                  pend <- [s \in Sessions |-> [r \in Recs |-> Pending(s, r)]]

(* A commit is one step as far as the committed contents go: it applies all *)
(* of the transaction's writes or, failing anywhere, none (refinement of    *)
(* TxnService).                                                             *)
CommitsAtomically == Service!TSSpec
=============================================================================
