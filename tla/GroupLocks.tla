------------------------------ MODULE GroupLocks ------------------------------
(***************************************************************************)
(* The group locks of hashed files: the cyclic hash table of GLOCK_ENTRY   *)
(* (locks.h), dh_get_group_lock and dh_free_group_lock (dh_file.c), and    *)
(* the way the functions of the DH subsystem nest them with each other and *)
(* with the semaphore FILE_TABLE_LOCK, which a reader or a writer holds    *)
(* while it waits for its group and a split does not while it waits for    *)
(* the group it splits.  A killed session leaves its group locks to        *)
(* remove_user (clopts.c).                                                 *)
(*                                                                         *)
(* A session works through a plan, the semaphores and locks one function   *)
(* takes and gives back in their order.  What is between StartExclusive    *)
(* and EndExclusive of GROUP_LOCK_SEM is one step.                         *)
(***************************************************************************)
EXTENDS Integers, Sequences, FiniteSets

CONSTANTS
  Users,       \* sessions
  NoUser,      \* owner of a semaphore that is free
  Groups,      \* the groups of the files, with the header (group 0)
  GroupHash,   \* GroupHash[g]: GLockHash of the group, a cell of the table
  NumGLocks,   \* num_glocks: cells of the table
  NoLock,      \* a free cell: hash = 0
  Plans,       \* Plans[u]: the plans session u may begin, from those below
  Mortals      \* sessions that may be killed

Cells == 1 .. NumGLocks

Modes == {"read", "write"}

Step == [do : {"table", "untable", "hold", "inhibit", "letgo"}]
        \cup [do : {"get"}, group : Groups, mode : Modes]
        \cup [do : {"free"}, group : Groups]

ASSUME GroupConstants ==
  /\ NumGLocks \in Nat \ {0}
  /\ IsFiniteSet(Users)
  /\ NoUser \notin Users
  /\ GroupHash \in [Groups -> Cells]
  /\ Plans \in [Users -> SUBSET Seq(Step)]
  /\ Mortals \subseteq Users

GLock == [owner : Users, group : Groups, grp : Int]

Locked(u, g, n) == [owner |-> u, group |-> g, grp |-> n]

ASSUME NoGLock == NoLock \notin GLock

VARIABLES
  gcell,     \* GLOCK_ENTRY: NoLock or owner, group and grp_count
  gcount,    \* GLOCK_ENTRY.count: locks that hash to this cell
  slot,      \* slot[u][g]: lock_slot of the session for the group, 0 if none
  mode,      \* mode[u][g]: what the session was granted there
  table,     \* owner of FILE_TABLE_LOCK
  inhibit,   \* inhibit_count: selects, splits and merges under way
  plan,      \* what the session still has to do
  dead       \* killed and not yet removed

vars == <<gcell, gcount, slot, mode, table, inhibit, plan, dead>>

TypeOK ==
  /\ gcell \in [Cells -> GLock \cup {NoLock}]
  /\ gcount \in [Cells -> Int]
  /\ slot \in [Users -> [Groups -> 0 .. NumGLocks]]
  /\ mode \in [Users -> [Groups -> Modes]]
  /\ table \in Users \cup {NoUser}
  /\ inhibit \in Int
  /\ plan \in [Users -> Seq(Step)]
  /\ dead \in SUBSET Mortals

Init ==
  /\ gcell = [c \in Cells |-> NoLock]
  /\ gcount = [c \in Cells |-> 0]
  /\ slot = [u \in Users |-> [g \in Groups |-> 0]]
  /\ mode = [u \in Users |-> [g \in Groups |-> "read"]]
  /\ table = NoUser
  /\ inhibit = 0
  /\ plan = [u \in Users |-> <<>>]
  /\ dead = {}

-----------------------------------------------------------------------------
(* The plans of the functions of the DH subsystem.                         *)

Get(g, m) == [do |-> "get", group |-> g, mode |-> m]
Free(g) == [do |-> "free", group |-> g]
TakeTable == [do |-> "table"]
LeaveTable == [do |-> "untable"]

ReadPlan(g) == <<TakeTable, Get(g, "read"), LeaveTable, Free(g)>>

(* Mutant: the group is given back after the load has been adjusted.        *)
WritePlanFreesLast(g, header) ==
  <<TakeTable, Get(g, "write"), LeaveTable,
    Get(header, "write"), Free(header), TakeTable, LeaveTable, Free(g)>>

(* A write that may need an overflow block takes the lock on the header     *)
(* with its group locked, and adjusts the load once the group is free.      *)
WritePlan(g, header) ==
  <<TakeTable, Get(g, "write"), LeaveTable,
    Get(header, "write"), Free(header), Free(g), TakeTable, LeaveTable>>

(* A select holds off splits and merges until it has been through the       *)
(* groups.                                                                  *)
SelectPlan(g) ==
  <<TakeTable, [do |-> "inhibit"], LeaveTable,
    TakeTable, Get(g, "read"), LeaveTable, Free(g),
    TakeTable, [do |-> "letgo"], LeaveTable>>

BigRecPlan(header) == <<Get(header, "write"), Free(header)>>

SplitPlan(new, src, header) ==
  <<TakeTable, [do |-> "hold"], Get(new, "write"), [do |-> "inhibit"], LeaveTable,
    Get(src, "write"),
    Get(header, "write"), Free(header), Free(src), Free(new), TakeTable,
    [do |-> "letgo"], LeaveTable>>

MergePlan(tgt, src, header) ==
  <<TakeTable, [do |-> "hold"], Get(tgt, "write"), Get(src, "write"),
    [do |-> "inhibit"], LeaveTable,
    Get(header, "write"), Free(header), Free(src), Free(tgt), TakeTable,
    [do |-> "letgo"], LeaveTable>>

-----------------------------------------------------------------------------
(* The table.                                                              *)

Used == {c \in Cells : gcell[c] # NoLock}

HashCells(h) == {c \in Used : GroupHash[gcell[c].group] = h}

(* The scan starts at the hash cell and goes round the table.               *)
Before(h, a, b) ==
  \/ a >= h /\ (b > a \/ b < h)
  \/ a < h /\ b < h /\ a < b

First(h, S) == CHOOSE c \in S : \A b \in S \ {c} : Before(h, c, b)

(* It counts off the locks of its hash and stops after count of them.       *)
Seen(h) == {c \in HashCells(h) :
              Cardinality({b \in HashCells(h) : Before(h, b, c)}) < gcount[h]}

(* The cell before the hash cell is the last one; having counted a lock     *)
(* there, or not all of them, the scan is back at its hash cell and treats  *)
(* the table as full, free cells or not.                                    *)
Last(h) == IF h = 1 THEN NumGLocks ELSE h - 1

ComesRound(h) == Last(h) \in Seen(h) \/ Cardinality(HashCells(h)) < gcount[h]

Entry(g) == {c \in Seen(GroupHash[g]) : gcell[c].group = g}

-----------------------------------------------------------------------------
(* dh_get_group_lock.                                                      *)

Does(u, what) == plan[u] # <<>> /\ Head(plan[u]).do = what

Done(u) == plan' = [plan EXCEPT ![u] = Tail(plan[u])]

Given(u, g, m, c) ==
  /\ slot' = [slot EXCEPT ![u][g] = c]
  /\ mode' = [mode EXCEPT ![u][g] = m]
  /\ Done(u)
  /\ UNCHANGED <<table, inhibit, dead>>

(* Mutant: any lock on the group can be shared by a reader.                 *)
SharableAny(c) == TRUE

Sharable(c) == gcell[c].grp >= 0

(* A reader joins the readers of the group; the cell names the newest one.  *)
Share(u, g) ==
  \E c \in Entry(g) :
    /\ \A b \in Entry(g) \ {c} : Before(GroupHash[g], c, b)
    /\ Sharable(c)
    /\ gcell' = [gcell EXCEPT ![c] = Locked(u, g, gcell[c].grp + 1)]
    /\ gcount' = gcount
    /\ Given(u, g, "read", c)

(* Mutant: the scan index is returned after it has moved on.                *)
AddLockNextSlot(u, g, m) ==
  LET h == GroupHash[g]
      c == First(h, Cells \ Used)
      new == Locked(u, g, IF m = "write" THEN -1 ELSE 1)
  IN  /\ Entry(g) = {}
      /\ Cells # Used
      /\ ~ComesRound(h)
      /\ gcell' = [gcell EXCEPT ![c] = new]
      /\ gcount' = [gcount EXCEPT ![h] = @ + 1]
      /\ Given(u, g, m, c + 1)

(* Nobody has the group: a new lock in the first free cell of the scan.     *)
AddLock(u, g, m) ==
  LET h == GroupHash[g]
      c == First(h, Cells \ Used)
      new == Locked(u, g, IF m = "write" THEN -1 ELSE 1)
  IN  /\ Entry(g) = {}
      /\ Cells # Used
      /\ ~ComesRound(h)
      /\ gcell' = [gcell EXCEPT ![c] = new]
      /\ gcount' = [gcount EXCEPT ![h] = @ + 1]
      /\ Given(u, g, m, c)

(* A session that already has the group would wait for itself.              *)
GetLock(u) ==
  /\ Does(u, "get")
  /\ LET g == Head(plan[u]).group
         m == Head(plan[u]).mode
     IN  /\ slot[u][g] = 0
         /\ \/ m = "read" /\ Share(u, g)
            \/ AddLock(u, g, m)

LeavesFree(c) == gcell[c].grp < 0 \/ gcell[c].grp = 1

(* dh_free_group_lock: the lock in the session's slot, which is in use; the *)
(* code does not look.                                                      *)
FreeLock(u) ==
  /\ Does(u, "free")
  /\ LET g == Head(plan[u]).group
         c == slot[u][g]
     IN  /\ c # 0
         /\ gcell[c] # NoLock
         /\ IF LeavesFree(c)
              THEN /\ gcell' = [gcell EXCEPT ![c] = NoLock]
                   /\ gcount' = [gcount EXCEPT ![GroupHash[gcell[c].group]] = @ - 1]
              ELSE /\ gcell' = [gcell EXCEPT ![c] =
                                  Locked(gcell[c].owner, gcell[c].group, gcell[c].grp - 1)]
                   /\ gcount' = gcount
         /\ slot' = [slot EXCEPT ![u][g] = 0]
  /\ Done(u)
  /\ UNCHANGED <<mode, table, inhibit, dead>>

-----------------------------------------------------------------------------
(* FILE_TABLE_LOCK and inhibit_count.                                      *)

Begin(u) ==
  /\ plan[u] = <<>> /\ u \notin dead
  /\ \E p \in Plans[u] : plan' = [plan EXCEPT ![u] = p]
  /\ UNCHANGED <<gcell, gcount, slot, mode, table, inhibit, dead>>

TakeTableLock(u) ==
  /\ Does(u, "table")
  /\ table = NoUser
  /\ table' = u
  /\ Done(u)
  /\ UNCHANGED <<gcell, gcount, slot, mode, inhibit, dead>>

LeaveTableLock(u) ==
  /\ Does(u, "untable")
  /\ table' = NoUser
  /\ Done(u)
  /\ UNCHANGED <<gcell, gcount, slot, mode, inhibit, dead>>

(* A split or merge returns when a select or another of its kind is there.  *)
HoldOff(u) ==
  /\ Does(u, "hold")
  /\ IF inhibit > 0
       THEN plan' = [plan EXCEPT ![u] = <<LeaveTable>>]
       ELSE Done(u)
  /\ UNCHANGED <<gcell, gcount, slot, mode, table, inhibit, dead>>

Inhibit(u) ==
  /\ Does(u, "inhibit")
  /\ inhibit' = inhibit + 1
  /\ Done(u)
  /\ UNCHANGED <<gcell, gcount, slot, mode, table, dead>>

LetGo(u) ==
  /\ Does(u, "letgo")
  /\ inhibit' = inhibit - 1
  /\ Done(u)
  /\ UNCHANGED <<gcell, gcount, slot, mode, table, dead>>

-----------------------------------------------------------------------------
(* A killed session and remove_user.                                       *)

(* Its group locks and its part of inhibit_count stay behind.  (A semaphore *)
(* of a process that has died is never posted: one killed with              *)
(* FILE_TABLE_LOCK stops everybody, which this leaves out.)                 *)
Killed(u) ==
  /\ u \in Mortals \ dead
  /\ table # u
  /\ dead' = dead \cup {u}
  /\ plan' = [plan EXCEPT ![u] = <<>>]
  /\ UNCHANGED <<gcell, gcount, slot, mode, table, inhibit>>

Owned(u) == {c \in Used : gcell[c].owner = u}

(* Mutant: the cells are freed and not taken off their counts.              *)
RemoveUserKeepsCount(u) ==
  /\ u \in dead
  /\ table = NoUser
  /\ gcell' = [c \in Cells |-> IF c \in Owned(u) THEN NoLock ELSE gcell[c]]
  /\ gcount' = gcount
  /\ slot' = [slot EXCEPT ![u] = [g \in Groups |-> 0]]
  /\ dead' = dead \ {u}
  /\ UNCHANGED <<mode, table, inhibit, plan>>

(* reap_lost_user and cleanup take FILE_TABLE_LOCK first and hold it; a     *)
(* session of that number may log in afterwards.                            *)
RemoveUser(u) ==
  /\ u \in dead
  /\ table = NoUser
  /\ gcell' = [c \in Cells |-> IF c \in Owned(u) THEN NoLock ELSE gcell[c]]
  /\ gcount' = [h \in Cells |-> gcount[h] - Cardinality(HashCells(h) \cap Owned(u))]
  /\ slot' = [slot EXCEPT ![u] = [g \in Groups |-> 0]]
  /\ dead' = dead \ {u}
  /\ UNCHANGED <<mode, table, inhibit, plan>>

-----------------------------------------------------------------------------
Next ==
  \E u \in Users :
    \/ Begin(u) \/ GetLock(u) \/ FreeLock(u)
    \/ TakeTableLock(u) \/ LeaveTableLock(u)
    \/ HoldOff(u) \/ Inhibit(u) \/ LetGo(u)
    \/ Killed(u) \/ RemoveUser(u)

Spec == Init /\ [][Next]_vars

(* Sessions run.  A semaphore is tried again and again, and so is a group   *)
(* lock (RelinquishTimeslice, Sleep(1)): who keeps trying gets what is free *)
(* again and again.  A reader or writer waits for its group with            *)
(* FILE_TABLE_LOCK held, and for it no more is assumed than that it runs.   *)
Runs(u) ==
  GetLock(u) \/ FreeLock(u) \/ LeaveTableLock(u) \/ HoldOff(u) \/ Inhibit(u) \/ LetGo(u)

Retries(u) == TakeTableLock(u) \/ (GetLock(u) /\ table # u)

Fairness ==
  /\ \A u \in Users : WF_vars(Runs(u)) /\ SF_vars(Retries(u))
  /\ \A u \in Mortals : SF_vars(RemoveUser(u))

FairSpec == Spec /\ Fairness

-----------------------------------------------------------------------------
(* What has been granted, by session and group.                            *)
Holds(u, g, m) == slot[u][g] # 0 /\ mode[u][g] = m

(* Whoever is writing a group is alone in it: while dh_write, dh_split or   *)
(* dh_merge changes the blocks of a group no other session reads or writes  *)
(* them, wherever in the table the lock lies.                               *)
GroupsExclude ==
  \A u, v \in Users, g \in Groups :
    u # v /\ Holds(u, g, "write") => slot[v][g] = 0

(* The slot a session will free holds the lock it was granted, with one     *)
(* count for each reader that has still to free it.                         *)
SlotsHoldLocks ==
  \A c \in Cells :
    LET In(m) == {u \in Users : \E g \in Groups : slot[u][g] = c /\ mode[u][g] = m}
    IN  IF gcell[c] = NoLock THEN In("read") \cup In("write") = {}
        ELSE /\ \A u \in Users, g \in Groups : slot[u][g] = c => gcell[c].group = g
             /\ IF gcell[c].grp < 0
                  THEN In("read") = {} /\ Cardinality(In("write")) = 1
                  ELSE In("write") = {} /\ Cardinality(In("read")) = gcell[c].grp

(* The counts of the table are exact: count of a cell is the number of      *)
(* locks with that hash (the scan stops after that many, so that a lock     *)
(* beyond would not be seen), and a shared lock goes with its last reader.  *)
GroupCountsExact ==
  /\ \A h \in Cells : gcount[h] = Cardinality(HashCells(h))
  /\ SlotsHoldLocks

(* Every read, write, select, split and merge comes to its end, unless a    *)
(* session dies in one: the order of group locks, header lock and           *)
(* FILE_TABLE_LOCK never lets them wait in a circle, the table is large     *)
(* enough, and nobody waiting for a group with FILE_TABLE_LOCK is kept out  *)
(* by new readers.                                                          *)
EveryoneFinishes ==
  \A u \in Users : plan[u] # <<>> ~> (plan[u] = <<>> \/ dead # {})

(* The groups as the lock service sees them: one kind of object, no file    *)
(* locks.                                                                   *)
Granted == {p \in Users \X Groups : slot[p[1]][p[2]] # 0}

HeldGroups ==
  {[owner |-> p[1], rec |-> p[2],
    mode |-> IF mode[p[1]][p[2]] = "write" THEN "update" ELSE "shared"] : p \in Granted}

NoFileLocks == [f \in {"file"} |-> NoUser]

Service == INSTANCE LockService WITH
  Recs <- Groups, Files <- {"file"}, FileOf <- [g \in Groups |-> "file"],
  held <- HeldGroups, fheld <- NoFileLocks

(* Group locks with their table, counts and shared cells are locks: what    *)
(* one session is granted is compatible with what the others hold, and      *)
(* nobody loses a lock he has not given back.                               *)
ImplementsService == Service!LSSpec
=============================================================================
