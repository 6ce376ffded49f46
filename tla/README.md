# Verification of the SD kernel

TLA+ models of the multi-user core of SD for Windows (`src/sdb_ai/sd64`): record and
file locks, transactions, group locks, hashed files, alternate key indices and the
file table of the C kernel in `gplsrc/`, checked with TLC and, for the locks, the
transactions, the file table and the linear hashing of files, proved with TLAPS.

    tlc -workers 2 -config RecordLocks_admin.cfg MCRecordLocks.tla
    tlapm RecordLocks_proofs.tla

## 1. The system

SD is a multi-value database. Each user session is a process that runs compiled
BASIC on a virtual machine (`kernel.c`); all sessions share one memory segment
(`sysseg.c`) with the file table, the record lock table, the group lock table, the
user table and a few counters, each protected by a named semaphore. There is no
server process between a session and the files: every session reads and writes
them itself, and what keeps sessions apart is locks.

| component | state | operations | interacts with | what makes it correct |
|---|---|---|---|---|
| record and file locks (`op_lock.c`, `locks.h`) | cyclic hash table of locks with `count` and `waiters`, `file_lock` and `lock_count` of each file, `lockwait_index` of each user, private local lock table (LLT) | READL/READU, FILELOCK, FILEUNLOCK, RELEASE, CLOSE, UNLOCK, rebuild, deadlock scan | transactions (ids on locks), user table, events | compatible locks only; counters exact; a waiter is woken; deadlocks trapped; the LLT finds every lock |
| transactions (`txn.c`) | cache of deferred writes, deletes, closes; stack of outer transactions; before images; `commit_txn_id` | begin, commit, end, rollback all, abort | locks, DH and directory files, command processor levels | all or nothing; locked until the end; nesting restored exactly once |
| group locks (`dh_file.c`, `locks.h`) | cyclic hash table of group locks with reader counts, `count` per hash cell, `inhibit_count` | get, free, reap | FILE_TABLE_LOCK, every `dh_*` function | a writer is alone in a group; counts exact; nobody waits for ever |
| hashed files (`dh_*.c`) | groups and overflow chains, modulus, free chain, counts | read, write, delete, split, merge, select, clear | group locks, record cache, file table | a map from ids to records, at any moment of a split or merge; every block in one chain |
| indices (`dh_ak.c`, `op_btree.c`) | a tree in a subfile, scan positions of file variables | write, delete, clear, SELECTINDEX, SETLEFT/RIGHT, SELECTLEFT/RIGHT | DH writes | every key found; nodes linked in key order; a scan moves by one key |
| file table (`dh_open.c`, `dh_close.c`, `op_dio1.c`) | `FILE_ENTRY` with `ref_ct` and parameters, user file maps, `DH_FILE`s, the cache of closed files | open, close, exclusive access, header flush, SET.TRIGGER, CREATE.INDEX | events, `remove_user`, DH | one entry per file, pinned while open; exclusive means alone; the header on disk is not lost |
| record cache (`reccache.c`) | private copies stamped with `upd_ct` | store, scan | DH reads and writes | never older than the last unlocked write |
| sessions (`clopts.c`, `sysseg.c`, `sd.c`) | user table, `user_file_map`, events, licences | login, logout, kill, `remove_user` | everything shared | nothing of a dead session stays |
| semaphores (`sdsem.c`, `win32sem.c`) | owner of each of the semaphores | StartExclusive, EndExclusive | everything shared | order, release after a crash |
| virtual machine, values, terminal I/O | stacks, program, descriptors | opcodes | locks and transactions at abort and break | sequential |
| command processor (`sdsys/gpl.bp/cproc`) | command level | EXECUTE, abort, ROLLBACK ALL | transactions | a command ends its own transactions and no other |
| client API, TLS, service, relay, identity, audit | connections | requests, relaying | one session each | request/response |
| compiler, verbs, tools, installer | - | - | run above the kernel | sequential |

Hard behaviour: sessions interleave between any two sections under a semaphore;
opcodes that cannot get a lock are *run again* from the start, so state recorded by
one attempt is used by a later one; values are tested before the semaphore is taken;
errors leave by `longjmp`, past the code that would have tidied up; a process can be
killed anywhere and another session or `sd -cleanup` reaps what it left.
`PROJECT.json` lists the hazards line by line, with the properties aimed at each.

## 2. Modules

| module | models |
|---|---|
| `LockService` | abstract: locks on records (shared, update) and files, granted only when compatible |
| `LockService_proofs` | the service never grants incompatible locks (TLAPS) |
| `RecordLocks` | `op_lock.c` and everything that calls into it |
| `RecordLocks_proofs` | invariants of `RecordLocks`, and that it implements `LockService`, for every number of sessions, files, records and cells (TLAPS) |
| `RecordLocks_waits` | waits and waiters counts, writes, transactions, and the ends of sessions, for every value of the constants (TLAPS) |
| `TxnService` | abstract: pending writes that reach the store together or not at all |
| `Transactions` | `txn.c`, its callers in `op_dio1.c`, `op_dio3.c`, `kernel.c` and `cproc` |
| `Transactions_proofs` | all properties of `Transactions`, and that it implements `TxnService`, for any sessions, files, records and bounds (TLAPS) |
| `GroupLocks` | `dh_get_group_lock`, `dh_free_group_lock`, and the order in which each `dh_*` function takes group locks and FILE_TABLE_LOCK |
| `GroupLocks_proofs` | invariants of `GroupLocks`, and that it implements `LockService`, for any sessions, groups, plans and table (TLAPS) |
| `FileMap` | abstract: a map from ids to records |
| `DynamicFile` | `dh_read`, `dh_write`, `dh_delete`, `dh_split`, `dh_merge`, `dh_select`, overflow blocks and big records |
| `DynamicFile_proofs` | group locks, linear hashing and reads of `DynamicFile` for any ids, hash values, records, sessions and numbers of groups (TLAPS) |
| `DynamicFile_blocks` | blocks, records and selects of `DynamicFile`, and that it implements `FileMap`, for the same and any overflow subfile (TLAPS) |
| `AKTree` | `ak_write`, `ak_delete`, `ak_read`, `ak_clear`, `update_internal_node`, `akscan`, `setakpos` |
| `OpenFiles` | `dh_open`, `get_file_entry`, `dh_close`, `dh_flush_header`, `open_file`, `dio_close`, exclusive access, SET.TRIGGER, `create_ak`, `remove_user` |
| `OpenFiles_proofs` | invariants of `OpenFiles` for any sessions, files, table and cache (TLAPS) |
| `MCRecordLocks`, `MCTransactions`, `MCGroupLocks`, `MCDynamicFile`, `MCAKTree`, `MCOpenFiles` | constants for TLC |

`GroupLocks` justifies what `DynamicFile` takes for granted: that a group lock is
granted to compatible sessions only (`ImplementsService`) and that the session that
hashes an id and the one that changes the modulus do not overlap, both being under
FILE_TABLE_LOCK. `AKTree` takes for granted the lock of the subfile in the same way.

### RecordLocks

State is the shared tables (`cell`, `count`, `waiters`, `rlCount`, `flock`,
`lockCount`), the waits (`wait`), what each session has privately (`llt`, `open`,
`closing`, `txn`) and the opcode it is in (`proc`). A cell with `hash = 0` is
`NoLock`. The code between `StartExclusive(REC_LOCK_SEM)` and `EndExclusive` is one
action; what is read before the semaphore is a step of its own (`FlunlockTest`,
`CloseTest`, `WriteStart`), and CLOSE, which takes the semaphore twice, is three.

`lock_record` is cut by outcome: `RefusedByFileLock`, `Relock`, `RefusedByRecord`,
`DeadlockFound`, `ScanCircles`, `Upgrade`, `TableFull`, `NewLock`. Its scan is kept as
the code does it: it walks the table cyclically from the hash cell and stops when it
has met `count` cells of that hash (`Seen`), so the result depends on the counter
being right, and the new lock goes into the first free cell of the walk. The deadlock
scan follows `lockwait_index` from user to user (`Walk`); it holds the semaphore
(`SemFree`) and, if it gets into a circle it is not part of, never returns.
A refused opcode without LOCKED remembers its request in `proc` and is tried again.

All paths that free cells (`unlock_id`, `unlock_txn`, `op_unlk`, `remove_user`) share
`GiveUp`, which adjusts the three counters and wakes waiters as `clear_waiters` does,
only for cells whose `waiters` is not zero. `LeaveTxn` is the end of a transaction as
locks see it: deferred closes, then `unlock_txn`. `AdminUnlock` is the UNLOCK verb and
raises the event that `RebuildLlt` handles. `Crash` and `Reap` are a killed process and
`remove_user`.

Abstractions: record ids and their hashes are constants (`HashOf`, chosen so that
records collide); the id comparison is equality; the 250 ms sleep of a refused opcode
is the freedom to be tried again; memory for an LLT entry is always there; statistics
are left out. Three steps are larger than the code's: `CheckLock` reads `file_lock` in the
step of the scan, where `check_lock` reads it before it takes the semaphore
(`op_lock.c:1031`, `op_lock.c:1037`); `LeaveTxn` is the sections under the semaphore of a
transaction's end, one for each file it closes and one for its locks, in one; and `RebuildLlt`
reads the lock table at one moment, where the code walks it without the semaphore. Cells that
others change meanwhile are not the session's own, except those an UNLOCK frees, and that
raises the event again.

### Transactions

Files are a function from records to contents (`disk`), a delete is a write of
`NoRec`. `cache`, `stack`, `txnLevel`, `depth`, `commitId` and `undo` are the static
variables of `txn.c`; `begun` and `level` are the program's side: how many
transactions the program at each command level has begun and not ended. COMMIT and
abort take one step for each action of the cache, so other sessions run in between;
`ApplyFails` is the `k_error` out of the commit loop, after which nothing of the rest
of `op_txncmt` runs and `kernel()` calls `txn_abort` (`Undo`, `AbortUnlock`,
`AbortRollback`, `AbortDone`). A failed commit leaves `txn_head` where it was: the
actions applied have been freed. A later transaction that meets them may find the
memory as it was or fault (`Fault`). `Executors` are sessions that execute commands, also
inside transactions; `Nesters` those whose commands begin transactions inside a caller's,
which is where the levels the code keeps go wrong (section 4).

Abstractions: a record's lock is one update lock with an owner and a transaction id,
and a session asks only for free locks (waiting, sharing and deadlock are
`RecordLocks`); the undo of a record may fail (`Unrestorable`); a Quit at a break
prompt is an `EndCommand`; directory files and hashed files are one.

### GroupLocks

`gcell` and `gcount` are the table, `slot` and `mode` what each session was given back
by `dh_get_group_lock`, `table` the owner of FILE_TABLE_LOCK, `inhibit` the
`inhibit_count` of the file. Each function of the DH subsystem is a *plan*: the sequence of
calls it makes that can wait or change shared state (`ReadPlan`, `WritePlan`,
`BigRecPlan`, `SplitPlan`, `MergePlan`, `SelectPlan`), taken from its source in order;
`plan[u]` is what is left of it. The scan of the table is kept (`Seen`, `First`), with
the test that makes a scan that comes back to its hash cell wait as for a full table
(`ComesRound`). A session frees only slots that are in use (`FreeLock`): `dh_free_group_lock`
does not look, and differs for a reader whose shared lock was freed with a reaped reader's
(section 4), where the model stops the session. `Killed` and `RemoveUser` are a process that dies with locks and
`remove_user`.

### DynamicFile

`block` is the file, block by block: records, forward link, and the part of a big record
an overflow block holds. `fileEnd`, `freeChain` and the header variables are those of
`FILE_ENTRY.params`. A session runs one call at a time (`proc`): it hashes the id and
locks the group in one step (FILE_TABLE_LOCK is held over both) and reads into its buffers
what it will rewrite (`job`: `WriteJob`, `DeleteJob`, `SplitJob`, `MergeJob`). From then on each
step is one block: a block whose records all fit is joined to the buffer before it and given
back (`Dechain`), or part of it moves and the buffer is written (`MoveOn`); records are added
(`Add`), to a new overflow block if there is no room (`Extend`); a split or merge
gives a source block away when it is copied (`GiveAway`) and reads the next (`NextSource`); in
the end the buffers are written (`WriteBlock`). Then the session gives its locks up
(`FreeLocks`), frees the old big record (`FreeBig`), adjusts the counts (`Account`), and
decides with no lock whether to split or merge (`Resize`). A big record is written before its
group is locked, block by block, with the header locked from the first to the last
(`WriteBig`, `MoreBig`, `HeaderFree`). `Found` is the search of `dh_read`: the first record of
that id counts. `HashGroup` is `dh_hash_group`'s use of modulus and mod_value;
hash values are constants, and mod_value starts as the least power of two that is not below
the modulus, as `dh_create_file` computes it. Sizes are in units of a block's room.

Abstractions: block writes do not fail and the overflow subfile does not reach its limit
(`GetOverflow` has it as a guard); `dh_free_big_rec` is one step, because nobody else reaches the
blocks of the old record and the free chain is under the header lock; alternate keys, journalling
and encryption are left out; `content` is the map the file stands for, computed from the
blocks, where a group that is being rewritten holds what it held when it was locked, until the
session gives the lock up. `steady` is history: the ids that have been in the file ever since
the SELECT of a session began.

### AKTree

`tree` is the subfile: nodes, its length, its free chain. Each call is one step, because
it holds the lock of the subfile from its first read to its last write; what is left to
interleave is the scan position (`scan`, with its stamp `fresh`). The update of the
internal nodes goes up the path as `update_internal_node` does (`Update`), with the
replacement of one child by up to three, splitting, the root case and the removal of an
internal node that has one child left. Lengths are abstract (`Cap`, sizes 2 and 3), all
keys have one length, so an internal node is full at `MaxChild` children. `sound` goes
false in a step that goes through one of three faults of the code (section 4); the run
`ak_loses` shows what such a step does.

### OpenFiles

`table` is the file table, `ufm` the user file maps, `dh` the private `DH_FILE`s,
`cache` the files kept open after CLOSE, `event` pending EVT_FLUSH_CACHE, `disk` the headers
on disk. Reading a header, taking FILE_TABLE_LOCK, and writing a header back are steps
of their own (`ReadHeader`, `ShareEntry`/`FillEntry`, `FlushHeader`, `WriteHeader`,
`SetTrigger`/`WriteTrigger`, `CreateIndex`/`WriteIndex`), so other sessions run between them. Exclusive access is
the loop of `op_fileinfo`: ask, raise the event, sleep, try again (`TryAgain`).
`real` and `stale` are history: what the header should say, and the files for which one
of four events named below has already lost it. An open of a file the session itself has
exclusively frees the `DH_FILE` in use (`OpenOwn`, section 4). What a program then finds through
its file variable is undefined: the model has that the `DH_FILE` is gone, that the memory still
reads as it was (nothing changes, and the program can go on and close the file), and that the
session faults, at any later moment (`Kill`); not that it is another `DH_FILE` by then.

### Abstract specifications

`RecordLocks!ImplementsService` maps the cells in use to the set of locks held.
`Transactions!CommitsAtomically` maps `disk` to the committed contents: while a commit
is in flight or being undone, a record's committed content is its oldest before image,
so the whole commit is one step of `TxnService`, at the moment the images are dropped.
`GroupLocks!ImplementsService` maps what sessions were given to locks of `LockService`,
a group for a record; `DynamicFile!ImplementsMap` maps the blocks to the map of
`FileMap`, so splits, merges and rewrites are stutters, and a READ, which has told the map its
id when it began (`asked`, from `proc`), is answered with what the map holds for that id.

## 3. Runs

| run | bounds | shows |
|---|---|---|
| `locks_circles` | 3 sessions, 2 files, one session locks files, another may UNLOCK a file lock; records hash to the last cell, so the scan wraps | `WaitsAreCounted`: nobody waits for a lock that is gone; `DeadlocksTrapped` under `FairSpec`; includes the scan that never ends, after which everything stops (deadlock check off for that reason) |
| `locks_untrapped` | 2 sessions, 2 records of one file, which one session may lock | violation of `AllDeadlocksTrapped` (finding) |
| `locks_files` | 2 sessions, 2 records, file locks, writes, 1 transaction | `TypeOK`, `FileLockExclusive`, `WritesExclusive`, `TxnKeepsLocks`, `ImplementsService` |
| `locks_admin` | 2 sessions, 2 records that collide, 2 cells, both modes, quits at a break, UNLOCK, crash and reap; each session opens the file once | `RecordsExclusive`, `CountersExact`, `LltCovers`, `NoLockOutlivesSession` |
| `txn_atomic` | 2 sessions (symmetric), 2 records, 1 transaction each, every write at commit may fail | `UndoIsMine`, `PendingLocked`, `CommitsAtomically` |
| `txn_locks` | 2 sessions, 2 records, nesting, EXECUTE, aborts, crashes, failing commits and undos, another transaction over what a failed one left | `TypeOK`, `LocksAreLive` |
| `txn_nested` | 1 session, 2 files, 2 transactions, nested or not, 2 command levels: commands executed in and outside transactions, closes | `NothingLeftBehind`, `BegunAreLive`, `InnerWriteWins` |
| `groups` | 3 sessions, 3 groups and the header, 6 cells, hash cells that collide and wrap; a writer may die with its groups; one reads, writes big records, splits and merges; one reads and selects | `TypeOK`, `GroupsExclude`, `GroupCountsExact`, `ImplementsService`, and `EveryoneFinishes` under `FairSpec` (a dead session's semaphore may stop all: deadlock check off) |
| `dynamic_file` | 2 sessions, 3 ids, 3 records (one takes half a block, one a whole one, one is big), 1 to 3 groups, 4 updates: one session writes, one deletes, reads and selects; 1.25 million states | `RecordsAtHome`, `LockedAtHome`, `BlocksAccounted`, `CountsExact`, `SelectDelivers`, `ImplementsMap` |
| `ak_tree` | 8 keys, 2 sizes, indices from empty to 2 internal levels, 3 updates from each, scans in between, up to a fault | `KeysFound`, `LeavesLinked`, `NodesAccounted`, `ScanMovesOne` |
| `ak_loses` | the same, past a fault | violation of `Found` (finding) |
| `open_files` | 2 sessions, 2 files, 2 entries, a cache of 1, 2 tries for exclusive access, 1 update, 1 trigger or index, opens of a file the session has exclusively, one session may be killed and reaped and log in again | `TypeOK`, `RefCountExact`, `EntriesPinned`, `ExclusiveAlone`, `TriggerKept`, `ParamsCurrent` (a session waits for an event or a reaper: deadlock check off) |

Bounds. Two records that hash to one cell and a table of two cells give every
layout a chain of two locks can have, with holes before and behind, and the full
table. A third session is what the deadlock scan and two waiters on one cell need
(`locks_circles`); for exclusion two are checked, and the theorems of section 5 cover
any number. `MaxTxn`,
`Quota` count transactions; `MaxLlt` bounds the entries that `unlock_txn` leaves
behind; `MaxWaiters` bounds a count the code leaves too high. One written value
and "no record" are enough to tell old contents from new, two records to tell
"all" from "part".

A group lock table of six cells for four groups never fills, as the code's table must not;
two pairs of groups share a hash cell and one pair wraps round the end. Three ids whose
hash values put them together with one group and apart with three make every split and
merge move a record; two large records in one group need an overflow block. The loads
60 and 110 per cent make one write enough to split and one delete enough to merge. `Seeds` of `ak_tree` puts the
tree where the next updates are interesting: a full root, two internal nodes, a full internal
node. Three updates reach a split of a terminal node, of its parent, of the root and their
reverses. In `open_files` only f1 is updated and reserved and opened twice; f2 is there to
compete for the cache and the table.

Fairness. `RecordLocks!FairSpec` assumes that a waiting session runs its opcode again (the
250 ms sleep of `lock_record`'s callers, `op_filelock`) and nothing else: programs need not
release anything. A circle must be broken by the session that notices it. `DeadlocksTrapped` and
`AllDeadlocksTrapped` define a circle by the locks there are (`RecordKeepers`, `Keepers`: whose
locks keep a waiting session from going on), not by the waits the code writes down, which
may be missing or out of date. `DeadlocksTrapped` excuses the scan that has stopped
everybody (`FileWaitFollowed`).
`GroupLocks!FairSpec` assumes that a process that can go on does (`WF`), that one that
polls (`Sleep` and again: for a group lock or for FILE_TABLE_LOCK) gets its turn if it is
possible again and again (`SF`, a poll happens at some moment at which it is), and that a dead session is
reaped if FILE_TABLE_LOCK is free again and again.

## 4. Findings and known divergences

Two runs are expected to fail. `locks_untrapped`: with `DEADLOCK=1` ("Trap deadlocks?",
`config.c:34`) only circles of waits for record locks are found. FILELOCK does not scan, and
notes only the file it waits for (`op_lock.c:150`); the scan of `lock_record` goes on
from there to the owner of a file lock (`op_lock.c:1205`), also when it is a record lock
that keeps the file. A session that has r1 and waits for r2, and one that has r2 and waits
in FILELOCK for the file of r1, wait for each other for ever. Two sessions that FILELOCK
two files in opposite order are another such circle. `ak_loses`: deleting the only record of the terminal node that
is the last child of an internal node below the root makes `update_internal_node` call
itself for the parent with no key, which the parent takes for a delete of the whole
internal node (`dh_ak.c:3714`); the keys under its other children are lost.

The code does the following as well, seen while modelling and with TLC, on which no run is
spent; the properties are stated so as not to depend on them.

Record locks and transactions:

- the deadlock scan of `lock_record` follows a circle that a wait for a file lock
  has closed for ever, holding `REC_LOCK_SEM` (`op_lock.c:1197`);
- a record locked through one opening of a file and again through another has the one
  in its local lock table and the other in its cell; when an UNLOCK has had the local
  table rebuilt from the cells (`op_lock.c:1684`) after the other was closed, CLOSE no
  longer finds the lock and it stays with the number of a session that has logged out;
- a commit that fails leaves its cache to the next transaction of the session, which
  commits the rest of it (`txn.c:201`, `txn.c:436`);
- `op_txnbgn` pushes the current command level with the outer transaction, although the
  field is the "Command process level of previous transaction" (`txn.c:120`): when a command
  executed in a transaction begins one of its own, ROLLBACK ALL at its end, which is for
  "transactions at this or higher command level" (`txn.c:536`), takes the caller's as well
  (`txn.c:193`). A command that begins none leaves the caller's alone. `BegunAreLive` is
  checked and proved with commands executed in transactions, and excludes those that begin
  one there by `Nesters = {}`;
- an abort in an executed command rolls back the transactions of all callers (`txn.c:605`),
  also of one that traps aborts and goes on;
- `unlock_txn` leaves the LLT entries of the locks it releases (`op_lock.c:1539`), and
  relocking through another file variable leaves the entry with the old one
  (`op_lock.c:1168`), so the LLT lists at least, not exactly, the session's locks;
- an upgrade inside a transaction does not give the lock the transaction's id
  (`op_lock.c:1268`); relocking in an inner transaction does, and its end releases a
  lock the outer one needs (`op_lock.c:1169`), which is why `PendingLocked` is checked
  without nested transactions;
- a Quit at a break prompt while waiting leaves `lockwait_index` (`op_tio.c:3116`);
- the scan follows the first owner of a shared lock only (`op_lock.c:1185`, with a
  wait for one owner in each session's `lockwait_index`): a circle through another reader
  is found when that one is the first left. `locks_circles` asks for update locks;
- FILEUNLOCK and CLOSE test the file lock before they take the semaphore
  (`op_lock.c:202`, `op_dio1.c:445`): with an administrator's UNLOCK in between they
  release another session's lock;
- a deferred CLOSE, once applied, frees the file's locks while a later failure of the
  same commit still undoes records of that file (`txn.c:431`); `UndoIsMine` is checked
  without closes;
- COMMIT after a trapped abort runs with transaction 0 (`txn.c:239`): SYSTEM(1008)
  becomes -1 and `unlock_txn(0)` releases every lock taken outside transactions.

Group locks:

- reaping the newest reader of a shared group lock frees the cell for all its readers
  (`clopts.c:466`); a dead session's part of `inhibit_count` is never given back;
- a session that waits for a group of a dead session holds FILE_TABLE_LOCK
  (`dh_read.c:72`), which `reap_lost_user` needs (`clopts.c:272`): nobody can reap. A
  session killed with FILE_TABLE_LOCK stops everything. `EveryoneFinishes` excuses both.

Hashed files:

- a rewrite with another size that finds no overflow block loses or duplicates a record
  (`dh_write.c:342`); a failed write followed by a split clears `dh_err`
  (`dh_write.c:475`); a split or merge that fails half way loses records
  (`dh_split.c:191`, `dh_split.c:404`);
- the tidy-up of `dh_write_big_rec` (`dh_write.c:581`) takes a lock the session has and waits
  for itself; `dh_get_overflow` returns with the header locked when the subfile cannot be
  opened (`dh_file.c:413`);
- a select sets the counts between the write of another session and its adjustment, and
  reads the records of a group twice if it began between the two locks of a split
  (`dh_selct.c:412`), although `dh_selct.c:68` says it corrects errors. `CountsExact` and
  `SelectDelivers` name both cases; `inhibit_count` goes down without the semaphore
  (`dh_selct.c:56`);
- compaction frees an overflow block before the block that links to it is rewritten
  (`dh_write.c:300`).

Indices:

- the split of the root raises the index of the path in the root twice (`dh_ak.c:3562`,
  `dh_ak.c:3611`), so the last key of the root stays as it was; an internal node below the root
  that has one terminal node left is replaced by a copy of it, and the neighbours of the
  terminal node still link to the old one (`dh_ak.c:3675`). These and `ak_loses` are the
  three faults `sound` stands for;
- `ak_clear` does not count `ak_upd` up, so a scan position from before a CLEARFILE counts as
  current (`dh_ak.c:1240`, `dh_ak.c:3732`): SELECTRIGHT delivers an empty key, SELECTLEFT
  does not come back; after other writes a scan that stood at an end may skip a key.
  `ScanMovesOne` is stated for positions that were delivered or are fresh;
- the group lock is freed before the index is updated (`dh_write.c:397`), so two writers
  can update an index in the other order; the lock of an index entry hashes the raw key, so
  with case-insensitive keys two writers of one entry do not exclude each other;
- `delete_ak` tests `ak_map && (1 << akno)` (`dh_ak.c:1868`), so an index that does not exist is
  not refused.

File table:

- the header is read before FILE_TABLE_LOCK is taken (`dh_open.c:113`, `get_file_entry`), so
  an entry can be filled with parameters older than those a last close has just written;
  two sessions in `dh_flush_header` can write their headers in the wrong order; parameters a
  killed session has not flushed are lost when its reaper frees the entry
  (`clopts.c:486`). These are three of the four events of `ParamsCurrent`;
- `dh_open` looks for the file among those the session has open, and when it is there under
  exclusive access leaves with an error (`dh_open.c:104`); the exit frees the `DH_FILE` it has
  found (`dh_open.c:483`), which is still in the chain of open files and in a file variable.
  `ref_ct` and the file map keep counting it: `file_id` has not been set. If the memory is used
  again nobody can end the exclusive access, and the file can be opened by nobody until the
  session is gone; its unflushed parameters are the fourth event. `EntriesPinned` says what is
  left: an entry that is counted, exclusive and nobody's;
- `create_ak` writes the header "outside of the file sharing mechanism" (`dh_ak.c:1638`):
  a flush by any session that has read it before puts the old `ak_map` back;
- `open_file` replaces the last cache slot as the oldest, which is the one opened last
  (`op_dio1.c:836`).

Not modelled, seen on the way: `cache_record` stamps a record with the update count after the
group lock is free (`dh_read.c:141`), so a write in between leaves a stale record that looks
current, and entries are keyed by a file table slot whose count starts again at 1 when it
is reused; events are set and put back without a semaphore (`clopts.c:220`,
`process_events`); UNLOCK of a task lock tests and clears its owner without the semaphore that
LOCK takes (`op_lock.c:986`); CLEARFILE restores `file_lock` without one (`op_dio3.c:263`);
CLEARFILE waits one second for other sessions to finish what they began before it turned the
lock (`op_dio3.c:191`). In the string functions, which are read but not modelled:
`op_psubstrb` copies in the wrong direction when the replacement has the same length as what
it replaces and more than one byte (`op_str1.c`); the fast path of `op_rep` does not test
`MAX_STRING_SIZE` (`op_str2.c:702`); LOCATE takes the hint of the chunk that `find_item`
returns, although only the first chunk has one (`op_locat.c:296`), and takes an item that
equals the first chunk of a longer search string for a match (`op_locat.c:435`).

## 5. Proofs

All proofs are for every value of the constants that satisfies the assumptions of the
module, `ConstantsAssumption` and `NoLockAssumption` of `RecordLocks`, `GroupConstants` and
`NoGLock` of `GroupLocks`, `OpenFilesConstants` of `OpenFiles`, `TxnConstants` of
`Transactions`, `FileConstants` of `DynamicFile`: any number of sessions
(finitely many, for the counting of waiters, readers and references), files, records, openings
and groups, any plans, any hash function, any size of the tables and of the cache.

**`RecordLocks_proofs`.** `TypeCorrect` is `Spec => []TypeOK`. `CountersAreExact`,
`RecordLocksExclude` and `FileLocksExclude` follow from one inductive invariant,

    LockInv == CountersExact /\ RecordsExclusive /\ FileLockExclusive

together with `TypeOK`. Neither exclusion is inductive without the counters:
`lock_record` stops scanning after `count` cells, so with a count too small it would
not see a conflicting lock behind the last cell counted, and `op_filelock` skips its
scan when `lock_count` is zero. The argument is

- `SeesAll`: when `count` is exact, the first `count` cells the walk meets are all the
  cells of that hash. A cell missed would have at least `count` cells of its hash
  before it, which with itself is one more than there are;
- `FirstIsThere`: a set of cells that is not empty has a first one in the walk (least
  number principle, from the well-foundedness of `<`), so `lock_record` blames a lock
  that exists and fills a cell that is free;
- `ShrinkInv`: whatever `GiveUp` releases, the counters go down by the number of cells
  freed and nothing new is there to exclude. This covers unlock, close, commit,
  abort, UNLOCK and the reaping of a dead session at once;
- `ChangeInv`, `NewLockInv`, `LockFileInv`: the three ways a lock is granted;
- `UnchangedInv`: all other steps.

The module also proves the refinement. `RecordLocksImplementService` is
`Spec => ImplementsService`. A grant in the table maps to `Grant` of the service
(`SetIsGrant` needs `RecordsExclusive`: the session's old lock on the record is the only
one that disappears), FILELOCK to `GrantFile` or, for the owner, a stutter, every
`GiveUp` to `GiveBack`, the rest to a stutter.

**`RecordLocks_waits`.** `WaitsCounted` is `Spec => []WaitsAreCounted`. `WaitsAreCounted`
speaks of cells in use only and is not inductive: `NewLock` fills a free cell and sets its
count to zero, which is right only if nobody waits for a free cell. `WaitInv` says that of all
cells, and that nobody waits for a lock of its own. A step keeps it because whoever frees a
cell or changes its owner wakes those who wait (`clear_waiters`), and no other step adds a
waiter without counting it (`FewerWaits`).

The module has four more theorems, which all need to know what a step of one session leaves
to the others. `CellSteps` and `FileSteps` say it once for all actions: a step changes only
cells and file locks that are free or its own, except UNLOCK and the reaper.

- `WritesExclude` is `[]WritesExclusive`, for `Admins = FileAdmins = {}`. A write has been
  checked under the semaphore and happens after it, so `WriteInv` carries the lock from one to
  the other: a session at `write` has the update lock or the file lock (`MayWrite`), and what
  FILEUNLOCK and CLOSE have tested before the semaphore is still so (`TestHolds`). An UNLOCK
  in between makes both false, as section 4 says of FILEUNLOCK.
- `TransactionsKeepLocks` is the action property `TxnKeepsLocks`, for files that take part in
  transactions (`NonTxn = {}`) and no UNLOCK: only CLOSE releases locks that have an id, and
  `CloseInv` says that one that does runs outside transactions.
- `LockTablesCover` and `LocksEndWithSessions` are `[]LltCovers` and
  `[]NoLockOutlivesSession`. Logout releases nothing itself; it closes the open files, and
  CLOSE looks in the LLT. `SessionInv` says that the newest LLT entry of a lock is of an opening
  that is still to be closed (`Keeps`), in this transaction's deferred closes if nowhere else.
  The hypothesis `Admins = {} \/ OpenedOnce` excludes the second divergence of section 4, an LLT
  rebuilt from cells that name another opening of the file.

**`Transactions_proofs`.** `TransactionsTyped` is `Spec => []TypeOK`, with `CommitBegun`
(the program COMMIT ends has one begun), without which `begun` could become negative.
`LocksStayLive` and `InnerWritesWin` need no hypothesis. The others exclude divergences of
section 4 by name, and each hypothesis is met by the run that checks the property:
`Disciplined` (no program nests transactions, begins one over the rest of a failed commit or
commits one that is gone) and `LiveCommits` (the last part of it) are conditions on steps of
programs; `Fallible`, `Closers`, `Aborters`, `Nesters`, `Mortals`, `Unrestorable` are constants.

- `LocksStayLive`: `IdsKept` says when `commit_txn_id` is zero and that `txn_id` is during a
  commit; the id of a lock is then always the session's, its commit's or an outer one's
  (`LiveIds`), and whatever ends an id has released its locks before.
- `InnerWritesWin`: `InnerInv` says of the innermost cache and every pair of caches on the
  stack that what one has committed the ones around it no longer write (`CommittedOnce`), with
  at most one write of a record in each, which the operators keep that add, drop and free
  actions (`Deferred`, `Without`).
- `NothingIsLeftBehind` (`Fallible = {}`, `LiveCommits`): `LeftInv` counts, `depth` is the length
  of the stack plus one if a transaction is running or being committed.
- `BegunStayLive` (`OneLevel`: `Fallible`, `Aborters` and `Nesters` are empty; commands may be
  executed inside transactions): `BegunInv` adds that all that is begun is of one command level,
  the session's or a caller's, as many as `depth`, and that the levels `op_txnbgn` has noted
  are this one. So "rollback all" takes everything when the program that ends has begun it, and
  nothing when a caller has.
- `PendingStaysLocked` (`Disciplined`) and `UndoStaysMine` (and `Closers = {}`): in `OwnInv`
  the actions applied are those before the position of the commit (`FreedBelow`), a deferred close comes
  after all writes of its file (`ClosedAfter`), so closing it releases no lock a later
  write needs; records in the cache and in the images are locked by the session.
- `TransactionsCommitAtomically` (`Disciplined`, no closes, no kills, all images can go back)
  is the refinement of `TxnService`. `AtomInv` adds to `OwnInv` and `InnerInv` that a commit has one image
  of each record it has written and of no other, and that what it wrote is on disk. So the
  committed contents, `disk` with the images put over it, stay as they are under `Apply`
  and `Undo`; at `CommitDone` they become those of the cache, in one step. Other sessions
  cannot write a record in between, since it is locked (`OwnInv`). The failures stay in: any write
  may fail at any position.

**`GroupLocks_proofs`.** `GroupTypeCorrect` is `Spec => []TypeOK`. `GroupLocksExclude` and
`GroupCountsAreExact` follow from `GroupInv`, whose conjuncts are

- `CountsExact`: `count` of a hash cell is the number of cells of that hash;
- `OneLockPerGroup`: no two cells hold a lock on one group;
- `SlotsAreLocks`: a slot number a session was given names a cell that holds that group in
  that mode;
- `LocksAreHeld`: `grp_count` of a cell is the number of sessions whose slot it is, or minus
  one for the one writer, who is its owner;
- `MortalsHoldWrites`: what sessions that may be killed hold is for writing; and so is what
  their plans still ask for.

No two cells hold one group only because the scan sees all cells of its hash, which is
`SeesAll` again and needs `CountsExact`; a count is exact only because each free finds the
cell its slot names, which needs `SlotsAreLocks`; and a freed cell is nobody else's only
because `grp_count` is exact (`LastHolder`). So the conjuncts are proved together:
`AddLockInv` and `ShareInv` for a grant, `ReaderLeavesInv` and `LockGoesInv` for a release,
`RemoveUserInv` for a reaped session.

The theorems assume `MortalsWrite`, that sessions that may be killed take group locks only
for writing, because without it they are false of the code: `remove_user` knows a shared
lock's newest owner only and frees the cell under its other readers (`clopts.c:466`, section
4). The plans of the run `groups` satisfy it.

`GroupLocksImplementService` is the refinement: under the same hypothesis a cell
filled or shared is `Grant` of the service (`FilledIsGrant`), a release or a reaped session
`GiveBack` (`EmptiedGivesBack`), every other step a stutter.

**`OpenFiles_proofs`.** `OpenFilesTyped` is `Spec => []TypeOK`; `FileTable` proves the
inductive invariant `FileInv`, whose conjuncts are

- `SessionsOK`: within a session, `open_count` of a `DH_FILE` is at least the file's place in
  the cache, a close that is still pending and an open that goes on;
- `TableOK`: `ref_ct` of an entry is the number of sessions that count it, one entry for each
  file, every open file has its entry, and what a live session counts is open or has been
  freed under exclusive access (`HasOrLost`);
- `ReservedOK`: under exclusive access the one reference is a file variable's, in no cache
  and not about to be closed;
- `HeadersOK`: a header held in memory has the trigger that is on disk, or is the one
  `SetTrigger` is about to write, under exclusive access;
- `ParamsOK`: unless one of the four events has happened, an entry has the right parameters,
  and when the disk has not, some session has the file marked FILE_UPDATED.

They lean on one another. A trigger survives because nobody else can hold a header while one
session has exclusive access; that needs the count of -1 to mean one session with one opening
(`ReservedOK`), hence exact counts (`TableOK`), hence every close to give its reference back
exactly once, whatever is in the cache (`SessionsOK`). From `FileInv` follow `RefCounts`,
`EntriesArePinned`, `ExclusiveIsAlone`, `TriggersKept` and `ParamsAreCurrent`; the last because
with no entry left nobody has the file open, so nobody is marked. There is a lemma for each
action; opening, closing and the eviction of a cached file share `OpenedStep`, `ClosingOK`
and `IntoCacheMove`.

**`DynamicFile_proofs`.** A session hashes an id with the modulus of one moment and looks in
the group it locked then; splits and merges may begin in between. `LocksFollowHome` is
`Spec => []LockedAtHome`: the group is still the right one. It rests on arithmetic and on locks.

- `GroupSplits`: with mod_value the power of two for the modulus (`HeaderOK`), one more group
  takes ids from its twin only, the group that `split` rewrites; `GroupMerges`: one group less is what
  there was before the split that made it. Both need that mod_value is a power of two
  (`HalfPower`, `DoublePower`), because `dh_hash_group` hashes an id again modulo half of it, and
  `PowerAbove`, that there is one between a number and its double, for the file as created.
- `HashInv` is the inductive invariant (`HashingHeld`): the header is so and `inhibit_count` is the
  number of sessions that split, merge or select (`HeaderInv`); a group locked for writing is
  locked once (`LocksInv`); one session at a time splits or merges (`OneResizes`); each session has
  exactly the group locks its code takes (`SessionOK`), and those it reads or rewrites are the
  homes of its ids (`HomeOK`). No conjunct stands without the others: two splits at once would
  take a group away from each other, which only an exact `inhibit_count` prevents.
- `StepInv` is the argument for all actions: a step moves an id only between groups its session
  has locked for writing (`MovesLocked`), and by `LocksInv` nobody else has those. For
  `SplitStart`, which locks the new group but not its twin, it is that the home of an id stays
  the twin until that is locked too (`Home`).

From the invariant follow `MovesAreLocked`, the action property behind it; `GroupsStayForSelects`:
the number of groups stays during a SELECT, also if a split was decided on before, since `dh_split`
looks at `inhibit_count` again; and two parts of `ImplementsMap`. `ReadsTheMap`: a READ answers
with what the map holds for its id at that moment. `LocksKeepMap`: no step but the writing of
blocks (`WriteBig`, `MoreBig`, the steps of a rewrite, `FreeBig`) and its end (`FreeLocks`) changes
the map; to begin a split or merge, to lock both of its groups and so move ids, to lock a group, to
count or to select do not.

**`DynamicFile_blocks`.** The blocks: chains, buffers, the free chain, big records. The
difficulty is that a rewrite leaves the file in states in which a record is in two blocks or in
none, a block is in a chain and on its way to the free chain, or a group ends where the next block
has not been written. The inductive invariant (`FileHeld`) is

    FileInv == HashInv /\ Typed /\ \E h : Heap(h)

where the ledger `h` is the file as it will be when the sessions that rewrite groups have
written their buffers: `h.view` the blocks, `h.ptr` the block that each pointer to one names (the
free chain, a forward link, a big record, a session that has taken a block out), `h.own` what
a block belongs to (a group, the free chain, a big record, a session, or what a
split or merge has still to copy), `h.kept` the record with each id and `h.at` the block it is in, or 0
while a session is moving it. `Heap` says that the ledger is in order and agrees with the file and
the sessions: each block up to `fileEnd` is pointed to once and belongs to what points to it, no chain comes
back to itself (`Chained`); a block that is in nobody's hands is as the ledger has it (`PlaceOK`); a
record is in a block of its home group, or still to be moved by the session that has it locked
(`IdOK`); and what a session that rewrites groups will leave is what it began with, with what it
promised put in (`HeldOK`, `JobOK`). A step changes the ledger in few places, so there is one
lemma for each way to do that (`Turned` moves a block from one chain to another, `StartsHeap`
begins a write, `MovesHeap` a split or merge, `BigStepHeap` is a block of a big record), and one lemma that
carries over the rest (`StepKeeps`). The recursive functions that walk along chains are shown to agree
with the ledger by induction on what is left of the chain, which `Ranked` bounds.

- `BlocksAreAccounted` is `[]BlocksAccounted` and `RecordsStayHome` `[]RecordsAtHome`: chains of one
  ledger have no block in common, and in a group that nobody has locked for writing the ledger's
  records are those of the blocks.
- `FileImplementsMap` is `Spec => ImplementsMap`. `MapInv` adds to `FileInv` that a session
  which rewrites has promised at most one change and one to an id it has locked (`PutsOne`) and
  a reader has only locks for reading (`ReadsOnly`). The step of the map is `FreeLocks`: until then the
  ids of the groups are looked up in what was there before, and by `FileInv` what is there after is
  that with the promise kept. Each other step is a stutter, or the `Want`, `Get` or `Ask` of the
  map: a READ tells the map its id when it begins, and `ReadsTheMap` is its answer.
- `SelectsDeliverAll` is `Spec => SelectDelivers`. `SelectInv` adds to `MapInv` what a
  SELECT has done so far (`Selecting`): each steady id is picked or is in a group still to come,
  and unless it began in a gap of a split, nothing picked is in one. While a select is open
  `inhibit_count` is not zero, so the number of groups stays; the one split or merge that began before
  moves no id over the position of the select, except that a split between its two locks
  moves ids to the last group, which is why such a select can deliver an id twice but never
  misses one.
- `CountsStayExact` is `Spec => []CountsExact`. What is due of an id (`Due`) is its record, or
  what the session that rewrites its group has promised; it changes only where a session locks a
  group to write or delete, and by `FileInv` a split, a merge or a pack of blocks leaves it alone. `CountInv` adds to
  `SelectInv` that, as long as the counts are not known to be skewed, load and record count together with
  what sessions have still to adjust them by are the bytes and the number of what is due
  (`Balanced`), that no session owes more than one record, either way (`Bounded`), and that a
  select during which nothing was updated has counted what is due in the groups behind it (`Tallied`).
  `CountsExact` alone says nothing between the write of a record and `Account`, when the counts are
  behind the blocks; `Balanced` says by how much.
  Sums over ids and sessions are cardinalities of sets of pairs (`Total`), about which the library's
  theorems on finite sets are enough, where a fold over a set would need an induction theorem that
  cannot be instantiated; the sum `Bytes` takes along a block is such a total if no id comes twice
  (`SeqTotal`). Amounts that may be negative are shifted by one `Unit` each. When all are idle nothing is owed and what is due is what is in the blocks
  (`QuietCounts`).

**`LockService_proofs`.** The service is typed (`LSTypeCorrect`) and exclusive
(`LSExclusion`, for `FileOf` a function from records to files).

Model-checked only. `DeadlocksTrapped` and `EveryoneFinishes` are liveness under fairness,
which the prover does not do. The properties of `AKTree` speak of trees of any depth, which
`RECURSIVE` operators walk, about which nothing can be proved here.

## 6. Plan

Done: `RecordLocks`, `LockService`, their proofs and the refinement; `Transactions`,
`TxnService`; `GroupLocks` with its proofs and refinement; `DynamicFile`, `FileMap`; `AKTree`;
`OpenFiles` with the proof of all its properties; the proof of all of `Transactions`; the proof of
all safety properties of `RecordLocks`; for `DynamicFile` group locks, linear hashing, the
ownership of every block, the refinement of `FileMap`, selects and the counts: all its safety
properties.

To come, in this order:

1. `AKTree` without `RECURSIVE` operators, so that `LeavesLinked` and `ScanMovesOne` can be proved.
2. `RecordCache` (when is a cached record as new as the last write?) and CLEARFILE with the
   negative file lock the others spin on.
3. The user table, events and task locks; recovery of semaphores.
4. The dynamic array functions (`rdi`, `find_item` with its field hint, LOCATE) against a
   reference definition.

Not modelled, with reasons, are the components with status `not_modelled` in
`PROJECT.json`: above all the BASIC programs, the client library and the terminal, which
are sequential or talk to one peer, and the Windows interfaces, which are calls of the operating
system.
