-------------------------- MODULE GroupLocks_proofs --------------------------
(* Invariants of GroupLocks for any sessions, groups, plans, hash function   *)
(* and size of the lock table.                                              *)
EXTENDS GroupLocks, FiniteSetTheorems, SequenceTheorems, WellFoundedInduction, TLAPS

-----------------------------------------------------------------------------
(* The scan of dh_get_group_lock.                                           *)

(* A set of natural numbers that is not empty has a least element.          *)
LEMMA LeastNat ==
  ASSUME NEW T \in SUBSET Nat, T # {}
  PROVE  \E x \in T : \A y \in T : x <= y
<1> DEFINE Less == {p \in Nat \X Nat : p[1] < p[2]}
<1>1. IsWellFoundedOn(Less, Nat)
  BY NatLessThanWellFounded DEF OpToRel
<1>2. \E x \in T : \A y \in T : ~(<<y, x>> \in Less)
  <2> HIDE DEF Less
  <2> QED
    BY <1>1, WFMin
<1>3. PICK x \in T : \A y \in T : ~(<<y, x>> \in Less)
  BY <1>2
<1>4. ASSUME NEW y \in T PROVE x <= y
  <2>1. <<y, x>> \notin Less
    BY <1>3
  <2> QED
    BY <2>1
<1> QED
  BY <1>4

(* Some cell of a set that is not empty is the first one the scan meets.    *)
LEMMA FirstIsThere ==
  ASSUME NEW h \in Cells, NEW S \in SUBSET Cells, S # {}
  PROVE  First(h, S) \in S
<1>0. h \in Nat /\ \A c \in S : c \in Nat
  BY GroupConstants DEF Cells
<1>1. ASSUME NEW T \in SUBSET S, T # {}, \A c \in T, b \in S \ T : Before(h, c, b),
             \/ \A c \in T : c >= h
             \/ \A c \in T : c < h
      PROVE  First(h, S) \in S
  <2>1. PICK x \in T : \A y \in T : x <= y
    BY <1>0, <1>1, LeastNat
  <2>2. \A b \in S \ {x} : Before(h, x, b)
    BY <2>1, <1>0, <1>1 DEF Before
  <2> QED
    BY <2>1, <2>2 DEF First
<1>2. CASE \E c \in S : c >= h
  <2> DEFINE T == {c \in S : c >= h}
  <2>1. T # {} /\ T \in SUBSET S /\ \A c \in T : c >= h
    BY <1>2
  <2>2. \A c \in T, b \in S \ T : Before(h, c, b)
    BY <1>0 DEF Before
  <2> HIDE DEF T
  <2> QED
    BY <2>1, <2>2, <1>1
<1>3. CASE \A c \in S : ~(c >= h)
  <2>1. \A c \in S : c < h
    BY <1>0, <1>3
  <2> QED
    BY <2>1, <1>1
<1> QED
  BY <1>2, <1>3

(* Every set of locks of the table can be counted.                          *)
LEMMA UsedFinite == \A S \in SUBSET Used : IsFiniteSet(S) /\ Cardinality(S) \in Nat
<1>1. IsFiniteSet(Cells)
  BY FS_Interval, GroupConstants DEF Cells
<1> QED
  BY <1>1, FS_Subset, FS_CardinalityType DEF Used

(* So can the sessions.                                                     *)
LEMMA UsersFinite == \A S \in SUBSET Users : IsFiniteSet(S) /\ Cardinality(S) \in Nat
  BY GroupConstants, FS_Subset, FS_CardinalityType

(* The scan sees every lock of its hash cell, as long as the count of the   *)
(* hash cell is exact.                                                      *)
LEMMA SeesAll ==
  ASSUME NEW h \in Cells, gcount[h] = Cardinality(HashCells(h))
  PROVE  Seen(h) = HashCells(h)
<1> SUFFICES ASSUME NEW c \in HashCells(h)
             PROVE  Cardinality({b \in HashCells(h) : Before(h, b, c)}) < gcount[h]
  BY DEF Seen
<1> DEFINE H == HashCells(h)
           P == {b \in H : Before(h, b, c)}
<1>1. IsFiniteSet(H) /\ Cardinality(H) \in Nat
  BY UsedFinite DEF HashCells
<1>2. P \in SUBSET H /\ c \notin P
  BY GroupConstants DEF Before, HashCells, Used, Cells
<1>3. IsFiniteSet(P) /\ Cardinality(P) \in Nat /\ Cardinality(P) <= Cardinality(H)
  BY <1>1, <1>2, FS_Subset, FS_CardinalityType
<1>4. Cardinality(P) # Cardinality(H)
  BY <1>1, <1>2, FS_Subset
<1> QED
  BY <1>1, <1>3, <1>4

-----------------------------------------------------------------------------
(* Type correctness.                                                        *)

(* The next thing a session does is a step of a plan.                       *)
LEMMA NextStep ==
  ASSUME TypeOK, NEW u \in Users, plan[u] # <<>>
  PROVE  Head(plan[u]) \in Step /\ Tail(plan[u]) \in Seq(Step)
  BY HeadTailProperties DEF TypeOK

LEMMA DoneType ==
  ASSUME TypeOK, NEW u \in Users, plan[u] # <<>>, Done(u)
  PROVE  plan' \in [Users -> Seq(Step)]
  BY NextStep DEF Done, TypeOK

(* A step that gets or frees names a group, a step that gets names a mode.  *)
LEMMA StepGroup ==
  ASSUME NEW s \in Step
  PROVE  /\ s.do = "get" => s.group \in Groups /\ s.mode \in Modes
         /\ s.do = "free" => s.group \in Groups
  BY DEF Step

(* A new lock lies in a cell that was free.                                 *)
LEMMA FreeCell ==
  ASSUME NEW g \in Groups, Cells # Used
  PROVE  /\ GroupHash[g] \in Cells
         /\ First(GroupHash[g], Cells \ Used) \in Cells \ Used
<1>1. Cells \ Used # {} /\ Cells \ Used \in SUBSET Cells
  BY DEF Used
<1> QED
  BY <1>1, FirstIsThere, GroupConstants

LEMMA AddLockType ==
  ASSUME TypeOK, NEW u \in Users, NEW g \in Groups, NEW m \in Modes, plan[u] # <<>>,
         AddLock(u, g, m)
  PROVE  TypeOK'
<1> DEFINE h == GroupHash[g]
           c == First(h, Cells \ Used)
           new == Locked(u, g, IF m = "write" THEN -1 ELSE 1)
<1>1. h \in Cells /\ c \in Cells \ Used
  BY FreeCell DEF AddLock
<1>2. new \in GLock
  BY DEF GLock, Locked
<1>3. /\ gcell' = [gcell EXCEPT ![c] = new] /\ gcount' = [gcount EXCEPT ![h] = @ + 1]
      /\ Given(u, g, m, c)
  BY DEF AddLock
<1> HIDE DEF h, c, new
<1>4. c \in 0 .. NumGLocks
  BY <1>1, GroupConstants DEF Cells
<1>5. plan' \in [Users -> Seq(Step)]
  BY <1>3, DoneType DEF Given
<1>6. gcell' \in [Cells -> GLock \cup {NoLock}] /\ gcount' \in [Cells -> Int]
  BY <1>1, <1>2, <1>3 DEF TypeOK
<1>7. /\ slot' \in [Users -> [Groups -> 0 .. NumGLocks]]
      /\ mode' \in [Users -> [Groups -> Modes]]
  BY <1>3, <1>4 DEF TypeOK, Given
<1> QED
  BY <1>3, <1>5, <1>6, <1>7 DEF TypeOK, Given

LEMMA ShareType ==
  ASSUME TypeOK, NEW u \in Users, NEW g \in Groups, plan[u] # <<>>, Share(u, g)
  PROVE  TypeOK'
<1>1. PICK c \in Entry(g) :
        /\ gcell' = [gcell EXCEPT ![c] = Locked(u, g, gcell[c].grp + 1)]
        /\ gcount' = gcount /\ Given(u, g, "read", c)
  BY DEF Share
<1>2. c \in Cells /\ c \in Used
  BY DEF Entry, Seen, HashCells, Used
<1>3. gcell[c].grp \in Int /\ c \in 0 .. NumGLocks
  BY <1>2, GroupConstants DEF Used, TypeOK, Cells, GLock
<1>4. gcell' \in [Cells -> GLock \cup {NoLock}]
  BY <1>1, <1>2, <1>3 DEF TypeOK, GLock, Locked
<1>5. plan' \in [Users -> Seq(Step)]
  BY <1>1, DoneType DEF Given
<1> QED
  BY <1>1, <1>3, <1>4, <1>5 DEF TypeOK, Given, Modes

(* What dh_free_group_lock does with the lock in the session's slot.        *)
LEMMA FreeLockDoes ==
  ASSUME TypeOK, NEW u \in Users, FreeLock(u)
  PROVE  \E g \in Groups, c \in Cells :
           /\ c = slot[u][g] /\ c \in Used /\ gcell[c] \in GLock
           /\ \/ /\ LeavesFree(c)
                 /\ gcell' = [gcell EXCEPT ![c] = NoLock]
                 /\ gcount' = [gcount EXCEPT ![GroupHash[gcell[c].group]] = @ - 1]
              \/ /\ ~LeavesFree(c)
                 /\ gcell' = [gcell EXCEPT ![c] =
                                Locked(gcell[c].owner, gcell[c].group, gcell[c].grp - 1)]
                 /\ gcount' = gcount
           /\ slot' = [slot EXCEPT ![u][g] = 0]
           /\ plan[u] # <<>> /\ Done(u)
           /\ UNCHANGED <<mode, table, inhibit, dead>>
<1> DEFINE g == Head(plan[u]).group
           c == slot[u][g]
<1>1. plan[u] # <<>> /\ Head(plan[u]).do = "free"
  BY DEF FreeLock, Does
<1>2. g \in Groups
  BY <1>1, NextStep, StepGroup
<1>3. c # 0 /\ gcell[c] # NoLock
  BY DEF FreeLock
<1>4. c \in Cells
  BY <1>2, <1>3, GroupConstants DEF TypeOK, Cells
<1>5. c \in Used /\ gcell[c] \in GLock
  BY <1>3, <1>4 DEF Used, TypeOK
<1>6. /\ \/ /\ LeavesFree(c)
            /\ gcell' = [gcell EXCEPT ![c] = NoLock]
            /\ gcount' = [gcount EXCEPT ![GroupHash[gcell[c].group]] = @ - 1]
         \/ /\ ~LeavesFree(c)
            /\ gcell' = [gcell EXCEPT ![c] =
                           Locked(gcell[c].owner, gcell[c].group, gcell[c].grp - 1)]
            /\ gcount' = gcount
      /\ slot' = [slot EXCEPT ![u][g] = 0]
      /\ Done(u)
      /\ UNCHANGED <<mode, table, inhibit, dead>>
  BY Zenon DEF FreeLock
<1> HIDE DEF c
<1> QED
  BY <1>1, <1>2, <1>4, <1>5, <1>6, Zenon DEF c

LEMMA FreeLockType ==
  ASSUME TypeOK, NEW u \in Users, FreeLock(u)
  PROVE  TypeOK'
<1>1. PICK g \in Groups, c \in Cells :
           /\ c = slot[u][g] /\ c \in Used /\ gcell[c] \in GLock
           /\ \/ /\ LeavesFree(c)
                 /\ gcell' = [gcell EXCEPT ![c] = NoLock]
                 /\ gcount' = [gcount EXCEPT ![GroupHash[gcell[c].group]] = @ - 1]
              \/ /\ ~LeavesFree(c)
                 /\ gcell' = [gcell EXCEPT ![c] =
                                Locked(gcell[c].owner, gcell[c].group, gcell[c].grp - 1)]
                 /\ gcount' = gcount
           /\ slot' = [slot EXCEPT ![u][g] = 0]
           /\ plan[u] # <<>> /\ Done(u)
           /\ UNCHANGED <<mode, table, inhibit, dead>>
  BY FreeLockDoes, Zenon
<1>2. Locked(gcell[c].owner, gcell[c].group, gcell[c].grp - 1) \in GLock
  BY <1>1 DEF GLock, Locked
<1>3. GroupHash[gcell[c].group] \in Cells
  BY <1>1, GroupConstants DEF GLock
<1>4. gcell' \in [Cells -> GLock \cup {NoLock}] /\ gcount' \in [Cells -> Int]
  <2> DEFINE less == Locked(gcell[c].owner, gcell[c].group, gcell[c].grp - 1)
             h == GroupHash[gcell[c].group]
  <2>1. gcell' = [gcell EXCEPT ![c] = NoLock] \/ gcell' = [gcell EXCEPT ![c] = less]
    BY <1>1
  <2>2. gcount' = [gcount EXCEPT ![h] = @ - 1] \/ gcount' = gcount
    BY <1>1
  <2>3. less \in GLock /\ h \in Cells
    BY <1>2, <1>3
  <2> HIDE DEF less, h
  <2>4. gcell' \in [Cells -> GLock \cup {NoLock}]
    BY <2>1, <2>3 DEF TypeOK
  <2>5. gcount' \in [Cells -> Int]
    BY <2>2, <2>3 DEF TypeOK
  <2> QED
    BY <2>4, <2>5
<1>5. plan' \in [Users -> Seq(Step)]
  BY <1>1, DoneType
<1>6. slot' \in [Users -> [Groups -> 0 .. NumGLocks]]
  BY <1>1, GroupConstants DEF TypeOK
<1> QED
  BY <1>1, <1>4, <1>5, <1>6 DEF TypeOK

LEMMA RemoveUserType ==
  ASSUME TypeOK, NEW u \in Users, RemoveUser(u)
  PROVE  TypeOK'
<1>1. gcount' \in [Cells -> Int]
  <2> DEFINE n == [h \in Cells |-> Cardinality(HashCells(h) \cap Owned(u))]
  <2>1. \A h \in Cells : n[h] \in Int
    BY UsedFinite DEF HashCells
  <2>2. gcount' = [h \in Cells |-> gcount[h] - n[h]]
    BY DEF RemoveUser
  <2> HIDE DEF n
  <2> QED
    BY <2>1, <2>2 DEF TypeOK
<1>2. gcell' \in [Cells -> GLock \cup {NoLock}]
  BY DEF RemoveUser, TypeOK
<1>3. slot' \in [Users -> [Groups -> 0 .. NumGLocks]]
  BY GroupConstants DEF RemoveUser, TypeOK
<1> QED
  BY <1>1, <1>2, <1>3 DEF RemoveUser, TypeOK

(* The other steps change neither the table nor the slots.                  *)
TableUnchanged == UNCHANGED <<gcell, gcount, slot, mode>>

LEMMA PlanStepType ==
  ASSUME TypeOK, NEW u \in Users,
         \/ Begin(u) \/ TakeTableLock(u) \/ LeaveTableLock(u)
         \/ HoldOff(u) \/ Inhibit(u) \/ LetGo(u) \/ Killed(u)
  PROVE  TypeOK' /\ TableUnchanged
<1>1. CASE Begin(u)
  <2>1. plan' \in [Users -> Seq(Step)]
    BY <1>1, GroupConstants DEF Begin, TypeOK
  <2> QED
    BY <1>1, <2>1 DEF Begin, TypeOK, TableUnchanged
<1>2. CASE TakeTableLock(u)
  BY <1>2, DoneType DEF TakeTableLock, Does, TypeOK, TableUnchanged
<1>3. CASE LeaveTableLock(u)
  BY <1>3, DoneType DEF LeaveTableLock, Does, TypeOK, TableUnchanged
<1>4. CASE HoldOff(u)
  <2>1. <<LeaveTable>> \in Seq(Step)
    BY DEF LeaveTable, Step
  <2>2. plan' \in [Users -> Seq(Step)]
    BY <1>4, <2>1, DoneType DEF HoldOff, Does, TypeOK
  <2> QED
    BY <1>4, <2>2 DEF HoldOff, TypeOK, TableUnchanged
<1>5. CASE Inhibit(u)
  BY <1>5, DoneType DEF Inhibit, Does, TypeOK, TableUnchanged
<1>6. CASE LetGo(u)
  BY <1>6, DoneType DEF LetGo, Does, TypeOK, TableUnchanged
<1>7. CASE Killed(u)
  BY <1>7 DEF Killed, TypeOK, TableUnchanged
<1> QED
  BY <1>1, <1>2, <1>3, <1>4, <1>5, <1>6, <1>7

(* dh_get_group_lock grants a lock of the mode asked for: a new one, or a   *)
(* reader joins.                                                            *)
LEMMA GetLockDoes ==
  ASSUME TypeOK, NEW u \in Users, GetLock(u)
  PROVE  \E g \in Groups, m \in Modes :
           /\ plan[u] # <<>> /\ Head(plan[u]).do = "get" /\ Head(plan[u]).mode = m
           /\ slot[u][g] = 0
           /\ \/ m = "read" /\ Share(u, g)
              \/ AddLock(u, g, m)
<1>1. plan[u] # <<>> /\ Head(plan[u]).do = "get"
  BY DEF GetLock, Does
<1>2. Head(plan[u]).group \in Groups /\ Head(plan[u]).mode \in Modes
  BY <1>1, NextStep, StepGroup
<1> QED
  BY <1>1, <1>2, Zenon DEF GetLock

(* Every step leaves the table, the slots and the plans typed.              *)
LEMMA TypeStep == TypeOK /\ [Next]_vars => TypeOK'
<1> SUFFICES ASSUME TypeOK, [Next]_vars PROVE TypeOK'
  OBVIOUS
<1>1. ASSUME NEW u \in Users, GetLock(u) PROVE TypeOK'
  BY <1>1, GetLockDoes, AddLockType, ShareType
<1>2. ASSUME NEW u \in Users,
             \/ Begin(u) \/ TakeTableLock(u) \/ LeaveTableLock(u)
             \/ HoldOff(u) \/ Inhibit(u) \/ LetGo(u) \/ Killed(u)
      PROVE TypeOK'
  BY <1>2, PlanStepType
<1>3. CASE UNCHANGED vars
  BY <1>3 DEF vars, TypeOK
<1> QED
  BY <1>1, <1>2, <1>3, FreeLockType, RemoveUserType DEF Next

(* The state of the group locks is typed in every reachable state: a slot   *)
(* names a cell of the table, a cell a session and a group.                 *)
THEOREM GroupTypeCorrect == Spec => []TypeOK
<1>1. Init => TypeOK
  BY GroupConstants DEF Init, TypeOK, Modes
<1> QED
  BY <1>1, TypeStep, PTL DEF Spec

-----------------------------------------------------------------------------
(* The table and the slots agree.  Sessions that may be killed take group   *)
(* locks for writing only: remove_user cannot give back a share of a lock   *)
(* (clopts.c).                                                              *)

WritesOnly(p) == \A i \in 1 .. Len(p) : p[i].do = "get" => p[i].mode = "write"

MortalsWrite == \A u \in Mortals : \A p \in Plans[u] : WritesOnly(p)

CountsExact == \A h \in Cells : gcount[h] = Cardinality(HashCells(h))

OneLockPerGroup == \A c, d \in Used : gcell[c].group = gcell[d].group => c = d

(* A slot is the cell of a lock on its group, in its mode.                  *)
SlotsAreLocks ==
  \A u \in Users, g \in Groups :
    slot[u][g] # 0 =>
      /\ slot[u][g] \in Used
      /\ gcell[slot[u][g]].group = g
      /\ mode[u][g] = "write" <=> gcell[slot[u][g]].grp < 0

Holders(c) == {u \in Users : slot[u][gcell[c].group] = c}

(* A write lock is in the slot of its owner, a read lock in as many slots   *)
(* as it counts.                                                            *)
LocksAreHeld ==
  \A c \in Used :
    IF gcell[c].grp < 0 THEN Holders(c) = {gcell[c].owner}
    ELSE gcell[c].grp = Cardinality(Holders(c))

MortalsHoldWrites ==
  /\ \A c \in Used : gcell[c].grp >= 0 => gcell[c].owner \notin Mortals
  /\ \A u \in Mortals, g \in Groups : slot[u][g] # 0 => mode[u][g] = "write"

TableInv ==
  CountsExact /\ OneLockPerGroup /\ SlotsAreLocks /\ LocksAreHeld /\ MortalsHoldWrites

GroupInv == TableInv /\ \A u \in Mortals : WritesOnly(plan[u])

(* A cell in use holds a lock.                                              *)
LEMMA UsedIsLock ==
  ASSUME TypeOK
  PROVE  /\ \A c \in Used : /\ c \in Cells /\ c # 0 /\ gcell[c] # NoLock
                            /\ gcell[c] \in GLock /\ gcell[c].owner \in Users
                            /\ gcell[c].group \in Groups /\ gcell[c].grp \in Int
         /\ \A c \in Cells : c \notin Used => gcell[c] = NoLock
  BY GroupConstants DEF TypeOK, Used, GLock, Cells

(* The entry of a group is the lock on it.                                  *)
LEMMA EntryAll ==
  ASSUME TypeOK, CountsExact, NEW g \in Groups
  PROVE  Entry(g) = {c \in Used : gcell[c].group = g}
<1>1. GroupHash[g] \in Cells
  BY GroupConstants
<1>2. Seen(GroupHash[g]) = HashCells(GroupHash[g])
  BY <1>1, SeesAll DEF CountsExact
<1> QED
  BY <1>2 DEF Entry, HashCells

LEMMA AddLockInv ==
  ASSUME TypeOK, TypeOK', TableInv, NEW u \in Users, NEW g \in Groups, NEW m \in Modes,
         slot[u][g] = 0, u \in Mortals => m = "write", AddLock(u, g, m)
  PROVE  TableInv'
<1> DEFINE h == GroupHash[g]
           n == IF m = "write" THEN -1 ELSE 1
           new == Locked(u, g, n)
<1>1. h \in Cells
  BY GroupConstants
<1>2. PICK c \in Cells \ Used :
        /\ gcell' = [gcell EXCEPT ![c] = new] /\ gcount' = [gcount EXCEPT ![h] = @ + 1]
        /\ slot' = [slot EXCEPT ![u][g] = c] /\ mode' = [mode EXCEPT ![u][g] = m]
  BY FreeCell DEF AddLock, Given
<1>3. new \in GLock /\ new.owner = u /\ new.group = g /\ new.grp = n /\ new # NoLock
  BY NoGLock DEF GLock, Locked
<1>4. \A d \in Used : gcell[d].group # g
  BY EntryAll DEF AddLock, TableInv
<1>n. n \in {-1, 1} /\ (m = "write" <=> n < 0)
  OBVIOUS
<1> HIDE DEF h, n, new
<1>5. /\ Used' = Used \cup {c} /\ gcell'[c] = new
      /\ \A d \in Used : d # c /\ gcell'[d] = gcell[d]
  BY <1>1, <1>2, <1>3 DEF Used, TypeOK
<1>6. /\ slot'[u][g] = c /\ mode'[u][g] = m
      /\ \A v \in Users, k \in Groups :
           v # u \/ k # g => slot'[v][k] = slot[v][k] /\ mode'[v][k] = mode[v][k]
  BY <1>2 DEF TypeOK
<1>7. \A v \in Users, k \in Groups : slot[v][k] # c /\ (slot[v][k] # 0 => k # g)
  BY <1>1, <1>4, GroupConstants DEF TableInv, SlotsAreLocks, Cells
<1>8. CountsExact'
  <2> SUFFICES ASSUME NEW k \in Cells PROVE gcount'[k] = Cardinality(HashCells(k)')
    BY DEF CountsExact
  <2>1. gcount[k] = Cardinality(HashCells(k)) /\ gcount[k] \in Int
    BY DEF TableInv, CountsExact, TypeOK
  <2>2. IsFiniteSet(HashCells(k)) /\ c \notin HashCells(k)
    BY UsedFinite, <1>1 DEF HashCells
  <2>3. CASE k = h
    <3>1. HashCells(k)' = HashCells(k) \cup {c}
      BY <2>3, <1>3, <1>5 DEF HashCells, h
    <3>2. gcount'[k] = gcount[k] + 1
      BY <2>3, <1>2 DEF TypeOK
    <3>3. Cardinality(HashCells(k) \cup {c}) = Cardinality(HashCells(k)) + 1
      BY <2>2, FS_AddElement
    <3> QED
      BY <2>1, <3>1, <3>2, <3>3
  <2>4. CASE k # h
    <3>1. HashCells(k)' = HashCells(k)
      BY <2>4, <1>3, <1>5 DEF HashCells, h
    <3>2. gcount'[k] = gcount[k]
      BY <2>4, <1>2 DEF TypeOK
    <3> QED
      BY <2>1, <3>1, <3>2
  <2> QED
    BY <2>3, <2>4
<1>9. OneLockPerGroup'
  BY <1>3, <1>4, <1>5 DEF TableInv, OneLockPerGroup
<1>10. SlotsAreLocks'
  <2> SUFFICES ASSUME NEW v \in Users, NEW k \in Groups, slot'[v][k] # 0
               PROVE  /\ slot'[v][k] \in Used'
                      /\ gcell'[slot'[v][k]].group = k
                      /\ mode'[v][k] = "write" <=> gcell'[slot'[v][k]].grp < 0
    BY DEF SlotsAreLocks
  <2>1. CASE v = u /\ k = g
    BY <2>1, <1>3, <1>5, <1>6, <1>n
  <2>2. CASE v # u \/ k # g
    BY <2>2, <1>5, <1>6 DEF TableInv, SlotsAreLocks
  <2> QED
    BY <2>1, <2>2
<1>11. LocksAreHeld'
  <2>1. Holders(c)' = {u}
    BY <1>3, <1>5, <1>6, <1>7 DEF Holders
  <2>2. ASSUME NEW d \in Used PROVE Holders(d)' = Holders(d)
    BY <1>4, <1>5, <1>6, UsedIsLock DEF Holders
  <2>3. Cardinality({u}) = 1
    BY FS_Singleton
  <2>4. gcell'[c].owner = u /\ gcell'[c].grp \in {-1, 1}
    BY <1>3, <1>5, <1>n
  <2>5. IF gcell'[c].grp < 0 THEN Holders(c)' = {gcell'[c].owner}
        ELSE gcell'[c].grp = Cardinality(Holders(c)')
    BY <2>1, <2>3, <2>4
  <2>6. ASSUME NEW d \in Used
        PROVE  IF gcell'[d].grp < 0 THEN Holders(d)' = {gcell'[d].owner}
               ELSE gcell'[d].grp = Cardinality(Holders(d)')
    BY <2>2, <1>5 DEF TableInv, LocksAreHeld
  <2> QED
    BY <2>5, <2>6, <1>5 DEF LocksAreHeld
<1>12. MortalsHoldWrites'
  <2>1. ASSUME NEW d \in Used', gcell'[d].grp >= 0 PROVE gcell'[d].owner \notin Mortals
    BY <2>1, <1>3, <1>5, <1>n DEF TableInv, MortalsHoldWrites
  <2>2. ASSUME NEW v \in Mortals, NEW k \in Groups, slot'[v][k] # 0
        PROVE  mode'[v][k] = "write"
    BY <2>2, <1>6, GroupConstants DEF TableInv, MortalsHoldWrites
  <2> QED
    BY <2>1, <2>2 DEF MortalsHoldWrites
<1> QED
  BY <1>8, <1>9, <1>10, <1>11, <1>12 DEF TableInv

LEMMA ShareInv ==
  ASSUME TypeOK, TypeOK', TableInv, NEW u \in Users, NEW g \in Groups,
         slot[u][g] = 0, u \notin Mortals, Share(u, g)
  PROVE  TableInv'
<1>1. PICK c \in Entry(g) :
        /\ Sharable(c)
        /\ gcell' = [gcell EXCEPT ![c] = Locked(u, g, gcell[c].grp + 1)]
        /\ gcount' = gcount /\ Given(u, g, "read", c)
  BY DEF Share
<1> DEFINE new == Locked(u, g, gcell[c].grp + 1)
<1>2. c \in Used /\ gcell[c].group = g
  BY EntryAll DEF TableInv
<1>3. gcell[c].grp \in Int /\ gcell[c].grp >= 0 /\ c \in Cells /\ c # 0
  BY <1>1, <1>2, UsedIsLock DEF Sharable
<1>4. /\ new \in GLock /\ new.owner = u /\ new.group = g
      /\ new.grp = gcell[c].grp + 1 /\ new # NoLock
  BY <1>3, NoGLock DEF GLock, Locked
<1>s. gcell' = [gcell EXCEPT ![c] = new]
  BY <1>1
<1> HIDE DEF new
<1>5. /\ Used' = Used /\ gcell'[c] = new
      /\ \A d \in Used : d # c => gcell'[d] = gcell[d]
  BY <1>s, <1>2, <1>3, <1>4 DEF Used, TypeOK
<1>6. /\ slot'[u][g] = c /\ mode'[u][g] = "read"
      /\ \A v \in Users, k \in Groups :
           v # u \/ k # g => slot'[v][k] = slot[v][k] /\ mode'[v][k] = mode[v][k]
  BY <1>1 DEF TypeOK, Given
<1>7. CountsExact'
  <2>1. \A h \in Cells : HashCells(h)' = HashCells(h)
    BY <1>2, <1>4, <1>5 DEF HashCells
  <2> QED
    BY <2>1, <1>1 DEF TableInv, CountsExact
<1>8. OneLockPerGroup'
  BY <1>2, <1>4, <1>5 DEF TableInv, OneLockPerGroup
<1>9. SlotsAreLocks'
  <2> SUFFICES ASSUME NEW v \in Users, NEW k \in Groups, slot'[v][k] # 0
               PROVE  /\ slot'[v][k] \in Used'
                      /\ gcell'[slot'[v][k]].group = k
                      /\ mode'[v][k] = "write" <=> gcell'[slot'[v][k]].grp < 0
    BY DEF SlotsAreLocks
  <2>1. CASE v = u /\ k = g
    BY <2>1, <1>2, <1>3, <1>4, <1>5, <1>6
  <2>2. CASE (v # u \/ k # g) /\ slot[v][k] = c
    BY <2>2, <1>2, <1>3, <1>4, <1>5, <1>6 DEF TableInv, SlotsAreLocks
  <2>3. CASE (v # u \/ k # g) /\ slot[v][k] # c
    BY <2>3, <1>5, <1>6 DEF TableInv, SlotsAreLocks
  <2> QED
    BY <2>1, <2>2, <2>3
<1>10. LocksAreHeld'
  <2>1. Holders(c)' = Holders(c) \cup {u}
    BY <1>2, <1>4, <1>5, <1>6 DEF Holders
  <2>2. u \notin Holders(c) /\ IsFiniteSet(Holders(c))
    BY <1>2, <1>3, UsersFinite DEF Holders
  <2>c. Cardinality(Holders(c)) = gcell[c].grp
    BY <1>2, <1>3 DEF TableInv, LocksAreHeld
  <2>3. Cardinality(Holders(c)') = gcell[c].grp + 1
    BY <2>c, <2>1, <2>2, FS_AddElement
  <2>4. ASSUME NEW d \in Used, d # c PROVE Holders(d)' = Holders(d)
    <3>1. gcell[d].group # g /\ gcell[d].group \in Groups
      BY <2>4, <1>2, UsedIsLock DEF TableInv, OneLockPerGroup
    <3> QED
      BY <3>1, <2>4, <1>5, <1>6 DEF Holders
  <2>5. ASSUME NEW d \in Used', d # c
        PROVE  IF gcell'[d].grp < 0 THEN Holders(d)' = {gcell'[d].owner}
               ELSE gcell'[d].grp = Cardinality(Holders(d)')
    BY <2>4, <2>5, <1>5 DEF TableInv, LocksAreHeld
  <2>6. ~(gcell'[c].grp < 0) /\ gcell'[c].grp = Cardinality(Holders(c)')
    BY <2>3, <1>3, <1>4, <1>5
  <2> QED
    BY <2>5, <2>6 DEF LocksAreHeld
<1>11. MortalsHoldWrites'
  <2>1. ASSUME NEW d \in Used', gcell'[d].grp >= 0 PROVE gcell'[d].owner \notin Mortals
    BY <2>1, <1>4, <1>5 DEF TableInv, MortalsHoldWrites
  <2>2. ASSUME NEW v \in Mortals, NEW k \in Groups, slot'[v][k] # 0
        PROVE  mode'[v][k] = "write"
    BY <2>2, <1>6, GroupConstants DEF TableInv, MortalsHoldWrites
  <2> QED
    BY <2>1, <2>2 DEF MortalsHoldWrites
<1> QED
  BY <1>7, <1>8, <1>9, <1>10, <1>11 DEF TableInv

(* A lock that goes is in the slot of one session, its last holder.         *)
LEMMA LastHolder ==
  ASSUME TypeOK, TableInv, NEW u \in Users, NEW g \in Groups, slot[u][g] # 0,
         LeavesFree(slot[u][g])
  PROVE  \A v \in Users, k \in Groups : slot[v][k] = slot[u][g] => v = u /\ k = g
<1> DEFINE c == slot[u][g]
<1>1. c \in Used /\ gcell[c].group = g /\ c # 0
  BY DEF TableInv, SlotsAreLocks
<1>2. \E v : Holders(c) = {v}
  <2>1. CASE gcell[c].grp < 0
    BY <2>1, <1>1 DEF TableInv, LocksAreHeld
  <2>2. CASE ~(gcell[c].grp < 0)
    <3>1. Cardinality(Holders(c)) = 1
      BY <2>2, <1>1 DEF TableInv, LocksAreHeld, LeavesFree
    <3>2. IsFiniteSet(Holders(c))
      BY UsersFinite DEF Holders
    <3> QED
      BY <3>1, <3>2, FS_Singleton
  <2> QED
    BY <2>1, <2>2
<1> SUFFICES ASSUME NEW v \in Users, NEW k \in Groups, slot[v][k] = c PROVE v = u /\ k = g
  OBVIOUS
<1>3. k = g
  BY <1>1 DEF TableInv, SlotsAreLocks
<1>4. v \in Holders(c) /\ u \in Holders(c)
  BY <1>1, <1>3 DEF Holders
<1> QED
  BY <1>2, <1>3, <1>4

(* The lock of a group goes with its only holder.                           *)
LEMMA LockGoesInv ==
  ASSUME TypeOK, TypeOK', TableInv, NEW u \in Users, NEW g \in Groups, NEW c \in Used,
         c = slot[u][g], LeavesFree(c),
         gcell' = [gcell EXCEPT ![c] = NoLock],
         gcount' = [gcount EXCEPT ![GroupHash[gcell[c].group]] = @ - 1],
         slot' = [slot EXCEPT ![u][g] = 0], mode' = mode
  PROVE  TableInv'
<1>1. c # 0 /\ c \in Cells /\ gcell[c].group = g
  BY UsedIsLock DEF TableInv, SlotsAreLocks
<1>2. Used' = Used \ {c} /\ \A d \in Used : d # c => gcell'[d] = gcell[d]
  BY <1>1 DEF Used, TypeOK
<1>3. /\ slot'[u][g] = 0
      /\ \A v \in Users, k \in Groups : v # u \/ k # g => slot'[v][k] = slot[v][k]
  BY DEF TypeOK
<1>4. \A v \in Users, k \in Groups : slot'[v][k] # c
  BY <1>1, <1>3, LastHolder
<1>5. CountsExact'
  <2> SUFFICES ASSUME NEW k \in Cells PROVE gcount'[k] = Cardinality(HashCells(k)')
    BY DEF CountsExact
  <2>1. gcount[k] = Cardinality(HashCells(k)) /\ gcount[k] \in Int
    BY DEF TableInv, CountsExact, TypeOK
  <2>2. IsFiniteSet(HashCells(k))
    BY UsedFinite DEF HashCells
  <2>3. HashCells(k)' = HashCells(k) \ {c}
    BY <1>2 DEF HashCells
  <2>4. gcount'[k] = IF c \in HashCells(k) THEN gcount[k] - 1 ELSE gcount[k]
    BY DEF HashCells, TypeOK
  <2>5. Cardinality(HashCells(k) \ {c}) =
          IF c \in HashCells(k) THEN Cardinality(HashCells(k)) - 1
          ELSE Cardinality(HashCells(k))
    BY <2>2, FS_RemoveElement
  <2> QED
    BY <2>1, <2>3, <2>4, <2>5
<1>6. OneLockPerGroup'
  BY <1>2 DEF TableInv, OneLockPerGroup
<1>7. SlotsAreLocks'
  <2> SUFFICES ASSUME NEW v \in Users, NEW k \in Groups, slot'[v][k] # 0
               PROVE  /\ slot'[v][k] \in Used'
                      /\ gcell'[slot'[v][k]].group = k
                      /\ mode'[v][k] = "write" <=> gcell'[slot'[v][k]].grp < 0
    BY DEF SlotsAreLocks
  <2>1. slot'[v][k] = slot[v][k] /\ slot[v][k] # c
    BY <1>3, <1>4
  <2> QED
    BY <2>1, <1>2 DEF TableInv, SlotsAreLocks
<1>8. LocksAreHeld'
  <2>1. ASSUME NEW d \in Used, d # c PROVE Holders(d)' = Holders(d)
    <3>1. gcell[d].group # g /\ gcell[d].group \in Groups
      BY <2>1, <1>1, UsedIsLock DEF TableInv, OneLockPerGroup
    <3> QED
      BY <3>1, <2>1, <1>2, <1>3 DEF Holders
  <2> QED
    BY <2>1, <1>2 DEF TableInv, LocksAreHeld
<1>9. MortalsHoldWrites'
  <2>1. \A d \in Used' : gcell'[d].grp >= 0 => gcell'[d].owner \notin Mortals
    BY <1>2 DEF TableInv, MortalsHoldWrites
  <2>2. \A v \in Mortals, k \in Groups : slot'[v][k] # 0 => mode'[v][k] = "write"
    BY <1>3, GroupConstants DEF TableInv, MortalsHoldWrites
  <2> QED
    BY <2>1, <2>2 DEF MortalsHoldWrites
<1> QED
  BY <1>5, <1>6, <1>7, <1>8, <1>9 DEF TableInv

(* A reader leaves and others stay.                                         *)
LEMMA ReaderLeavesInv ==
  ASSUME TypeOK, TypeOK', TableInv, NEW u \in Users, NEW g \in Groups, NEW c \in Used,
         c = slot[u][g], ~LeavesFree(c),
         gcell' = [gcell EXCEPT ![c] =
                     Locked(gcell[c].owner, gcell[c].group, gcell[c].grp - 1)],
         gcount' = gcount, slot' = [slot EXCEPT ![u][g] = 0], mode' = mode
  PROVE  TableInv'
<1> DEFINE new == Locked(gcell[c].owner, gcell[c].group, gcell[c].grp - 1)
<1>1. c # 0 /\ c \in Cells /\ gcell[c].group = g /\ gcell[c].grp \in Int
  BY UsedIsLock DEF TableInv, SlotsAreLocks
<1>2. new \in GLock /\ new # NoLock
  BY <1>1, UsedIsLock, NoGLock DEF GLock, Locked
<1>3. new.owner = gcell[c].owner /\ new.group = g /\ new.grp = gcell[c].grp - 1
  BY <1>1 DEF Locked
<1>s. gcell' = [gcell EXCEPT ![c] = new]
  OBVIOUS
<1> HIDE DEF new
<1>4. /\ Used' = Used /\ gcell'[c] = new
      /\ \A d \in Used : d # c => gcell'[d] = gcell[d]
  BY <1>s, <1>1, <1>2 DEF Used, TypeOK
<1>5. /\ slot'[u][g] = 0
      /\ \A v \in Users, k \in Groups : v # u \/ k # g => slot'[v][k] = slot[v][k]
  BY DEF TypeOK
<1>6. /\ ~(gcell[c].grp < 0)
      /\ Cardinality(Holders(c)) = gcell[c].grp
  BY DEF LeavesFree, TableInv, LocksAreHeld
<1>7. u \in Holders(c) /\ IsFiniteSet(Holders(c))
  BY <1>1, UsersFinite DEF Holders
<1>8. gcell[c].grp > 1
  <2>1. gcell[c].grp # 0
    BY <1>6, <1>7, FS_EmptySet
  <2>2. gcell[c].grp # 1
    BY DEF LeavesFree
  <2> QED
    BY <2>1, <2>2, <1>1, <1>6
<1>9. CountsExact'
  <2>1. \A h \in Cells : HashCells(h)' = HashCells(h)
    BY <1>1, <1>3, <1>4 DEF HashCells
  <2> QED
    BY <2>1 DEF TableInv, CountsExact
<1>10. OneLockPerGroup'
  BY <1>1, <1>3, <1>4 DEF TableInv, OneLockPerGroup
<1>11. SlotsAreLocks'
  <2> SUFFICES ASSUME NEW v \in Users, NEW k \in Groups, slot'[v][k] # 0
               PROVE  /\ slot'[v][k] \in Used'
                      /\ gcell'[slot'[v][k]].group = k
                      /\ mode'[v][k] = "write" <=> gcell'[slot'[v][k]].grp < 0
    BY DEF SlotsAreLocks
  <2>1. slot'[v][k] = slot[v][k]
    BY <1>5
  <2>2. CASE slot[v][k] = c
    BY <2>1, <2>2, <1>1, <1>3, <1>4, <1>6, <1>8 DEF TableInv, SlotsAreLocks
  <2>3. CASE slot[v][k] # c
    BY <2>1, <2>3, <1>4 DEF TableInv, SlotsAreLocks
  <2> QED
    BY <2>2, <2>3
<1>12. LocksAreHeld'
  <2>1. Holders(c)' = Holders(c) \ {u}
    BY <1>1, <1>3, <1>4, <1>5 DEF Holders
  <2>2. Cardinality(Holders(c) \ {u}) = Cardinality(Holders(c)) - 1
    BY <1>7, FS_RemoveElement
  <2>3. ~(gcell'[c].grp < 0) /\ gcell'[c].grp = Cardinality(Holders(c)')
    BY <2>1, <2>2, <1>1, <1>3, <1>4, <1>6, <1>8
  <2>4. ASSUME NEW d \in Used, d # c PROVE Holders(d)' = Holders(d)
    <3>1. gcell[d].group # g /\ gcell[d].group \in Groups
      BY <2>4, <1>1, UsedIsLock DEF TableInv, OneLockPerGroup
    <3> QED
      BY <3>1, <2>4, <1>4, <1>5 DEF Holders
  <2>5. ASSUME NEW d \in Used', d # c
        PROVE  IF gcell'[d].grp < 0 THEN Holders(d)' = {gcell'[d].owner}
               ELSE gcell'[d].grp = Cardinality(Holders(d)')
    BY <2>4, <2>5, <1>4 DEF TableInv, LocksAreHeld
  <2> QED
    BY <2>3, <2>5 DEF LocksAreHeld
<1>13. MortalsHoldWrites'
  <2>1. ASSUME NEW d \in Used', gcell'[d].grp >= 0 PROVE gcell'[d].owner \notin Mortals
    <3>1. CASE d = c
      BY <3>1, <1>1, <1>3, <1>4, <1>8 DEF TableInv, MortalsHoldWrites
    <3>2. CASE d # c
      BY <2>1, <3>2, <1>4 DEF TableInv, MortalsHoldWrites
    <3> QED
      BY <3>1, <3>2
  <2>2. \A v \in Mortals, k \in Groups : slot'[v][k] # 0 => mode'[v][k] = "write"
    BY <1>5, GroupConstants DEF TableInv, MortalsHoldWrites
  <2> QED
    BY <2>1, <2>2 DEF MortalsHoldWrites
<1> QED
  BY <1>9, <1>10, <1>11, <1>12, <1>13 DEF TableInv

(* remove_user gives back what a killed session held: it is the owner of    *)
(* each of its locks and nobody else has them.                              *)
LEMMA RemoveUserInv ==
  ASSUME TypeOK, TypeOK', TableInv, NEW u \in Users, RemoveUser(u)
  PROVE  TableInv'
<1> DEFINE gone == Owned(u)
<1>1. u \in Mortals /\ gone \subseteq Used
  BY DEF RemoveUser, TypeOK, Owned
<1>2. \A c \in gone : /\ gcell[c].owner = u /\ gcell[c].grp < 0
                      /\ Holders(c) = {u}
  <2> SUFFICES ASSUME NEW c \in gone PROVE gcell[c].owner = u /\ gcell[c].grp < 0
                                           /\ Holders(c) = {u}
    OBVIOUS
  <2>1. c \in Used /\ gcell[c].owner = u
    BY DEF Owned
  <2>2. gcell[c].grp \in Int /\ ~(gcell[c].grp >= 0)
    BY <2>1, <1>1, UsedIsLock DEF TableInv, MortalsHoldWrites
  <2> QED
    BY <2>1, <2>2 DEF TableInv, LocksAreHeld
<1>3. ASSUME NEW g \in Groups, slot[u][g] # 0 PROVE slot[u][g] \in gone
  <2>1. mode[u][g] = "write"
    BY <1>1, <1>3 DEF TableInv, MortalsHoldWrites
  <2>2. /\ slot[u][g] \in Used /\ gcell[slot[u][g]].group = g
        /\ gcell[slot[u][g]].grp < 0
    BY <1>3, <2>1 DEF TableInv, SlotsAreLocks
  <2>3. u \in Holders(slot[u][g])
    BY <2>2 DEF Holders
  <2> QED
    BY <2>2, <2>3 DEF TableInv, LocksAreHeld, Owned
<1>4. /\ Used' = Used \ gone /\ \A c \in Used \ gone : gcell'[c] = gcell[c]
  BY DEF RemoveUser, Used
<1>5. /\ \A g \in Groups : slot'[u][g] = 0
      /\ \A v \in Users, g \in Groups : v # u => slot'[v][g] = slot[v][g]
      /\ mode' = mode
  BY DEF RemoveUser, TypeOK
<1>6. ASSUME NEW v \in Users, NEW g \in Groups, slot'[v][g] # 0
      PROVE  /\ v # u /\ slot'[v][g] = slot[v][g]
             /\ slot[v][g] \in Used \ gone
  <2>1. v # u /\ slot'[v][g] = slot[v][g]
    BY <1>5, <1>6
  <2>2. slot[v][g] \in Used /\ v \in Holders(slot[v][g])
    BY <2>1, <1>6 DEF TableInv, SlotsAreLocks, Holders
  <2> QED
    BY <2>1, <2>2, <1>2
<1>7. CountsExact'
  <2> SUFFICES ASSUME NEW h \in Cells PROVE gcount'[h] = Cardinality(HashCells(h)')
    BY DEF CountsExact
  <2> DEFINE H == HashCells(h)
  <2>1. H' = H \ gone
    BY <1>1, <1>4 DEF HashCells
  <2>2. IsFiniteSet(H)
    BY UsedFinite DEF HashCells
  <2>3. Cardinality(H \ gone) = Cardinality(H) - Cardinality(H \cap gone)
    BY <2>2, FS_Difference
  <2>4. gcount'[h] = gcount[h] - Cardinality(H \cap gone)
    BY DEF RemoveUser
  <2> QED
    BY <2>1, <2>3, <2>4 DEF TableInv, CountsExact
<1>8. OneLockPerGroup'
  BY <1>4 DEF TableInv, OneLockPerGroup
<1>9. SlotsAreLocks'
  BY <1>4, <1>5, <1>6 DEF TableInv, SlotsAreLocks
<1>10. LocksAreHeld'
  <2>1. ASSUME NEW d \in Used \ gone PROVE Holders(d)' = Holders(d)
    <3>1. gcell[d].group \in Groups /\ d # 0 /\ gcell'[d] = gcell[d]
      BY <1>4, UsedIsLock
    <3>2. slot[u][gcell[d].group] # d
      BY <3>1, <1>3
    <3> QED
      BY <3>1, <3>2, <1>5 DEF Holders
  <2> QED
    BY <2>1, <1>4 DEF TableInv, LocksAreHeld
<1>11. MortalsHoldWrites'
  <2>1. \A d \in Used' : gcell'[d].grp >= 0 => gcell'[d].owner \notin Mortals
    BY <1>4 DEF TableInv, MortalsHoldWrites
  <2>2. \A v \in Mortals, g \in Groups : slot'[v][g] # 0 => mode'[v][g] = "write"
    BY <1>5, GroupConstants DEF TableInv, MortalsHoldWrites
  <2> QED
    BY <2>1, <2>2 DEF MortalsHoldWrites
<1> QED
  BY <1>7, <1>8, <1>9, <1>10, <1>11 DEF TableInv

-----------------------------------------------------------------------------
(* What a session has still to do takes no read lock, if its plans do not.  *)

LEMMA TailWritesOnly ==
  ASSUME NEW p \in Seq(Step), p # <<>>, WritesOnly(p)
  PROVE  /\ WritesOnly(Tail(p))
         /\ Head(p).do = "get" => Head(p).mode = "write"
<1>1. /\ Tail(p) \in Seq(Step) /\ Len(Tail(p)) = Len(p) - 1
      /\ \A i \in 1 .. Len(Tail(p)) : Tail(p)[i] = p[i + 1]
  BY HeadTailProperties
<1>2. Len(p) \in Nat /\ Len(p) > 0 /\ Head(p) = p[1]
  OBVIOUS
<1>3. \A i \in 1 .. Len(Tail(p)) : i + 1 \in 1 .. Len(p)
  BY <1>1, <1>2
<1> QED
  BY <1>1, <1>2, <1>3 DEF WritesOnly

LEMMA DoneWritesOnly ==
  ASSUME TypeOK, NEW u \in Users, plan[u] # <<>>, Done(u),
         \A v \in Mortals : WritesOnly(plan[v])
  PROVE  \A v \in Mortals : WritesOnly(plan'[v])
<1>1. \A v \in Users : plan[v] \in Seq(Step)
  BY DEF TypeOK
<1>2. \A v \in Users : plan'[v] = IF v = u THEN Tail(plan[v]) ELSE plan[v]
  BY DEF TypeOK, Done
<1> QED
  BY <1>1, <1>2, TailWritesOnly, GroupConstants

(* Only a change of the table or the slots disturbs their agreement.        *)
LEMMA UnchangedTableInv ==
  ASSUME TableInv, TableUnchanged
  PROVE  TableInv'
<1>1. /\ Used' = Used /\ gcell' = gcell /\ gcount' = gcount
      /\ slot' = slot /\ mode' = mode
  BY DEF TableUnchanged, Used
<1>2. \A h \in Cells : HashCells(h)' = HashCells(h)
  BY <1>1 DEF HashCells
<1>3. \A c \in Used : Holders(c)' = Holders(c)
  BY <1>1 DEF Holders
<1> QED
  BY <1>1, <1>2, <1>3 DEF TableInv, CountsExact, OneLockPerGroup, SlotsAreLocks,
     LocksAreHeld, MortalsHoldWrites

LEMMA PlanStepInv ==
  ASSUME MortalsWrite, TypeOK, GroupInv, NEW u \in Users,
         \/ Begin(u) \/ TakeTableLock(u) \/ LeaveTableLock(u)
         \/ HoldOff(u) \/ Inhibit(u) \/ LetGo(u) \/ Killed(u)
  PROVE  GroupInv'
<1>1. TableInv'
  BY PlanStepType, UnchangedTableInv DEF GroupInv
<1>2. \A v \in Mortals : WritesOnly(plan'[v])
  <2>1. CASE Begin(u)
    BY <2>1, GroupConstants DEF Begin, MortalsWrite, GroupInv, TypeOK
  <2>2. CASE HoldOff(u) \/ Killed(u)
    <3>1. WritesOnly(<<LeaveTable>>) /\ WritesOnly(<<>>)
      BY DEF WritesOnly, LeaveTable
    <3>2. CASE plan' = [plan EXCEPT ![u] = <<LeaveTable>>] \/ plan' = [plan EXCEPT ![u] = <<>>]
      BY <3>1, <3>2, GroupConstants DEF GroupInv, TypeOK
    <3>3. CASE HoldOff(u) /\ Done(u)
      BY <3>3, DoneWritesOnly DEF HoldOff, Does, GroupInv
    <3> QED
      BY <2>2, <3>2, <3>3 DEF HoldOff, Killed
  <2>3. CASE TakeTableLock(u) \/ LeaveTableLock(u) \/ Inhibit(u) \/ LetGo(u)
    BY <2>3, DoneWritesOnly DEF TakeTableLock, LeaveTableLock, Inhibit, LetGo, Does, GroupInv
  <2> QED
    BY <2>1, <2>2, <2>3
<1> QED
  BY <1>1, <1>2 DEF GroupInv

LEMMA GroupInvStep ==
  ASSUME MortalsWrite, TypeOK, GroupInv, [Next]_vars
  PROVE  GroupInv'
<1>t. TypeOK'
  BY TypeStep
<1>1. ASSUME NEW u \in Users, GetLock(u) PROVE GroupInv'
  <2>1. PICK g \in Groups, m \in Modes :
           /\ plan[u] # <<>> /\ Head(plan[u]).do = "get" /\ Head(plan[u]).mode = m
           /\ slot[u][g] = 0
           /\ \/ m = "read" /\ Share(u, g)
              \/ AddLock(u, g, m)
    BY <1>1, GetLockDoes
  <2>2. u \in Mortals => m = "write"
    BY <2>1, TailWritesOnly DEF GroupInv, TypeOK
  <2>3. TableInv'
    BY <2>1, <2>2, <1>t, AddLockInv, ShareInv DEF GroupInv
  <2>4. Done(u)
    BY <2>1 DEF AddLock, Share, Given
  <2> QED
    BY <2>1, <2>3, <2>4, DoneWritesOnly DEF GroupInv
<1>2. ASSUME NEW u \in Users, FreeLock(u) PROVE GroupInv'
  <2>1. PICK g \in Groups, c \in Cells :
           /\ c = slot[u][g] /\ c \in Used /\ gcell[c] \in GLock
           /\ \/ /\ LeavesFree(c)
                 /\ gcell' = [gcell EXCEPT ![c] = NoLock]
                 /\ gcount' = [gcount EXCEPT ![GroupHash[gcell[c].group]] = @ - 1]
              \/ /\ ~LeavesFree(c)
                 /\ gcell' = [gcell EXCEPT ![c] =
                                Locked(gcell[c].owner, gcell[c].group, gcell[c].grp - 1)]
                 /\ gcount' = gcount
           /\ slot' = [slot EXCEPT ![u][g] = 0]
           /\ plan[u] # <<>> /\ Done(u)
           /\ UNCHANGED <<mode, table, inhibit, dead>>
    BY <1>2, FreeLockDoes, Zenon
  <2>2. TableInv'
    <3>1. CASE LeavesFree(c)
      BY <2>1, <3>1, <1>t, LockGoesInv DEF GroupInv
    <3>2. CASE ~LeavesFree(c)
      BY <2>1, <3>2, <1>t, ReaderLeavesInv DEF GroupInv
    <3> QED
      BY <3>1, <3>2
  <2> QED
    BY <2>1, <2>2, DoneWritesOnly DEF GroupInv
<1>3. ASSUME NEW u \in Users, RemoveUser(u) PROVE GroupInv'
  BY <1>3, <1>t, RemoveUserInv DEF GroupInv, RemoveUser
<1>4. CASE UNCHANGED vars
  BY <1>4, UnchangedTableInv DEF vars, TableUnchanged, GroupInv
<1> QED
  BY <1>1, <1>2, <1>3, <1>4, PlanStepInv DEF Next

(* An empty table has no locks, no counts and no slots.                     *)
LEMMA GroupInvInit == Init => GroupInv
<1> SUFFICES ASSUME Init PROVE GroupInv
  OBVIOUS
<1>1. Used = {}
  BY DEF Init, Used
<1>2. \A h \in Cells : HashCells(h) = {} /\ gcount[h] = 0
  BY <1>1 DEF HashCells, Init
<1>3. CountsExact
  BY <1>2, FS_EmptySet DEF CountsExact
<1>4. \A u \in Users : plan[u] = <<>> /\ WritesOnly(<<>>)
  BY DEF Init, WritesOnly
<1>5. \A u \in Users, g \in Groups : slot[u][g] = 0
  BY DEF Init
<1> QED
  BY <1>1, <1>3, <1>4, <1>5, GroupConstants DEF GroupInv, TableInv, OneLockPerGroup,
     SlotsAreLocks, LocksAreHeld, MortalsHoldWrites

(* The conjunction is an invariant of the group locks.                      *)
THEOREM GroupInvariant ==
  ASSUME MortalsWrite
  PROVE  Spec => [](TypeOK /\ GroupInv)
<1>1. Init => GroupInv
  BY GroupInvInit
<1>2. TypeOK /\ GroupInv /\ [Next]_vars => GroupInv'
  BY GroupInvStep
<1> QED
  BY <1>1, <1>2, GroupTypeCorrect, PTL DEF Spec

(* Two sessions with a slot for a group hold the same lock, so that one of  *)
(* them is not writing it.                                                  *)
LEMMA InvExcludes == TypeOK /\ GroupInv => GroupsExclude
<1> SUFFICES ASSUME TypeOK, GroupInv, NEW u \in Users, NEW v \in Users, NEW g \in Groups,
                    u # v, Holds(u, g, "write"), slot[v][g] # 0
             PROVE  FALSE
  BY DEF GroupsExclude
<1> DEFINE c == slot[u][g]
<1>1. c \in Used /\ gcell[c].group = g /\ gcell[c].grp < 0
  BY DEF Holds, GroupInv, TableInv, SlotsAreLocks
<1>2. slot[v][g] = c
  BY <1>1 DEF GroupInv, TableInv, SlotsAreLocks, OneLockPerGroup
<1>3. u \in Holders(c) /\ v \in Holders(c)
  BY <1>1, <1>2 DEF Holders
<1> QED
  BY <1>1, <1>3 DEF GroupInv, TableInv, LocksAreHeld

(* The sessions with a cell in a slot, for reading or for writing, are the  *)
(* ones that hold its lock.                                                 *)
LEMMA InvSlots == TypeOK /\ GroupInv => SlotsHoldLocks
<1> SUFFICES ASSUME TypeOK, GroupInv, NEW c \in Cells
             PROVE  LET In(m) == {u \in Users : \E g \in Groups :
                                       slot[u][g] = c /\ mode[u][g] = m}
                    IN  IF gcell[c] = NoLock THEN In("read") \cup In("write") = {}
                        ELSE /\ \A u \in Users, g \in Groups :
                                  slot[u][g] = c => gcell[c].group = g
                             /\ IF gcell[c].grp < 0
                                  THEN In("read") = {} /\ Cardinality(In("write")) = 1
                                  ELSE In("write") = {} /\ Cardinality(In("read")) = gcell[c].grp
  BY DEF SlotsHoldLocks
<1> DEFINE In(m) == {u \in Users : \E g \in Groups : slot[u][g] = c /\ mode[u][g] = m}
<1>0. c # 0
  BY GroupConstants DEF Cells
<1>1. ASSUME NEW u \in Users, NEW g \in Groups, slot[u][g] = c
      PROVE  /\ gcell[c] # NoLock /\ gcell[c].group = g /\ mode[u][g] \in Modes
             /\ mode[u][g] = "write" <=> gcell[c].grp < 0
  BY <1>0, <1>1 DEF GroupInv, TableInv, SlotsAreLocks, Used, TypeOK
<1>2. CASE gcell[c] = NoLock
  BY <1>1, <1>2
<1>3. CASE gcell[c] # NoLock
  <2>1. c \in Used /\ gcell[c].group \in Groups
    BY <1>3, UsedIsLock DEF Used
  <2>2. CASE gcell[c].grp < 0
    <3>1. In("read") = {} /\ In("write") = Holders(c)
      BY <2>1, <2>2, <1>1 DEF Holders, Modes
    <3>2. Cardinality(Holders(c)) = 1
      BY <2>1, <2>2, FS_Singleton DEF GroupInv, TableInv, LocksAreHeld
    <3> QED
      BY <1>1, <1>3, <2>2, <3>1, <3>2
  <2>3. CASE ~(gcell[c].grp < 0)
    <3>1. In("write") = {} /\ In("read") = Holders(c)
      BY <2>1, <2>3, <1>1 DEF Holders, Modes
    <3>2. Cardinality(Holders(c)) = gcell[c].grp
      BY <2>1, <2>3 DEF GroupInv, TableInv, LocksAreHeld
    <3> QED
      BY <1>1, <1>3, <2>3, <3>1, <3>2
  <2> QED
    BY <2>2, <2>3
<1> QED
  BY <1>2, <1>3

(* Whoever writes a group is alone in it, whatever else dh_read, dh_write,  *)
(* dh_split and dh_merge do and wherever in the table its lock lies.        *)
THEOREM GroupLocksExclude ==
  ASSUME MortalsWrite
  PROVE  Spec => []GroupsExclude
  BY GroupInvariant, InvExcludes, PTL

(* count of each hash cell and grp_count of each lock are what they count,  *)
(* after any sequence of locks, releases, kills and remove_user.            *)
THEOREM GroupCountsAreExact ==
  ASSUME MortalsWrite
  PROVE  Spec => []GroupCountsExact
<1>1. TypeOK /\ GroupInv => GroupCountsExact
  BY InvSlots DEF GroupCountsExact, GroupInv, TableInv, CountsExact
<1> QED
  BY <1>1, GroupInvariant, PTL

-----------------------------------------------------------------------------
(* The group lock table of dh_file.c implements the lock service, whatever  *)
(* its size, the hash function, the sessions, groups and plans.             *)

View(u, g) ==
  [owner |-> u, rec |-> g, mode |-> IF mode[u][g] = "write" THEN "update" ELSE "shared"]

(* The locks the service sees are the slots in use.                         *)
HeldIsViews ==
  /\ \A u \in Users, g \in Groups : slot[u][g] # 0 => View(u, g) \in HeldGroups
  /\ \A h \in HeldGroups : \E u \in Users, g \in Groups : slot[u][g] # 0 /\ h = View(u, g)

LEMMA HeldViews == HeldIsViews
<1>1. ASSUME NEW u \in Users, NEW g \in Groups, slot[u][g] # 0
      PROVE  View(u, g) \in HeldGroups
  <2>1. <<u, g>> \in Granted
    BY <1>1 DEF Granted
  <2>2. View(<<u, g>>[1], <<u, g>>[2]) \in HeldGroups
    BY <2>1, Zenon DEF HeldGroups, View
  <2> QED
    BY <2>2
<1>2. ASSUME NEW h \in HeldGroups
      PROVE  \E u \in Users, g \in Groups : slot[u][g] # 0 /\ h = View(u, g)
  <2>1. PICK p \in Granted : h = View(p[1], p[2])
    BY Zenon DEF HeldGroups, View
  <2>2. p[1] \in Users /\ p[2] \in Groups /\ slot[p[1]][p[2]] # 0
    BY DEF Granted
  <2> QED
    BY <2>1, <2>2
<1> QED
  BY <1>1, <1>2 DEF HeldIsViews

(* So they are after any step.                                              *)
LEMMA HeldViewsNext == HeldIsViews'
  BY HeldViews, PTL

(* A step that leaves the slots alone is invisible.                         *)
LEMMA Stutter ==
  ASSUME UNCHANGED <<slot, mode>>
  PROVE  UNCHANGED <<HeldGroups, NoFileLocks>>
  BY DEF HeldGroups, Granted, NoFileLocks

(* A slot emptied is a lock given back.                                     *)
LEMMA EmptiedGivesBack ==
  ASSUME \A u \in Users, g \in Groups : slot'[u][g] \in {0, slot[u][g]}, mode' = mode
  PROVE  Service!GiveBack
<1>1. HeldGroups' \subseteq HeldGroups
  <2> SUFFICES ASSUME NEW h \in HeldGroups' PROVE h \in HeldGroups
    OBVIOUS
  <2>1. PICK u \in Users, g \in Groups : slot'[u][g] # 0 /\ h = View(u, g)'
    BY HeldViewsNext DEF HeldIsViews
  <2>2. slot[u][g] # 0 /\ h = View(u, g)
    BY <2>1 DEF View
  <2> QED
    BY <2>2, HeldViews DEF HeldIsViews
<1>2. HeldGroups \ HeldGroups' \in SUBSET HeldGroups
      /\ HeldGroups' = HeldGroups \ (HeldGroups \ HeldGroups')
  BY <1>1
<1>3. NoFileLocks' = [f \in {"file"} |-> IF f \in {} THEN NoUser ELSE NoFileLocks[f]]
  BY DEF NoFileLocks
<1>4. {} \in SUBSET {"file"}
  OBVIOUS
<1> QED
  BY <1>2, <1>3, <1>4, Zenon DEF Service!GiveBack

(* A slot filled is a grant, if the others with the group only share it.    *)
LEMMA FilledIsGrant ==
  ASSUME TypeOK, NEW u \in Users, NEW g \in Groups, NEW m \in Modes, NEW c \in Cells,
         slot[u][g] = 0, Given(u, g, m, c),
         \A v \in Users \ {u} : slot[v][g] # 0 => m = "read" /\ mode[v][g] = "read"
  PROVE  Service!Grant(u, g, IF m = "write" THEN "update" ELSE "shared")
<1> DEFINE kind == IF m = "write" THEN "update" ELSE "shared"
           new == [owner |-> u, rec |-> g, mode |-> kind]
<1>1. /\ slot'[u][g] = c /\ c # 0 /\ mode'[u][g] = m
      /\ \A v \in Users, k \in Groups :
           v # u \/ k # g => slot'[v][k] = slot[v][k] /\ mode'[v][k] = mode[v][k]
  BY GroupConstants DEF Given, TypeOK, Cells
<1>2. View(u, g)' = new
  BY <1>1 DEF View
<1>3. \A v \in Users, k \in Groups : v # u \/ k # g => View(v, k)' = View(v, k)
  BY <1>1 DEF View
<1>4. \A v \in Users, k \in Groups : View(v, k).owner = v /\ View(v, k).rec = k
  BY DEF View
<1> HIDE DEF kind, new
<1>5. HeldGroups' = {h \in HeldGroups : h.owner # u \/ h.rec # g} \cup {new}
  <2>1. ASSUME NEW h \in HeldGroups'
        PROVE  h \in {x \in HeldGroups : x.owner # u \/ x.rec # g} \cup {new}
    <3>1. PICK v \in Users, k \in Groups : slot'[v][k] # 0 /\ h = View(v, k)'
      BY HeldViewsNext DEF HeldIsViews
    <3>2. CASE v = u /\ k = g
      BY <3>1, <3>2, <1>2
    <3>3. CASE v # u \/ k # g
      <4>1. slot[v][k] # 0 /\ h = View(v, k)
        BY <3>1, <3>3, <1>1, <1>3
      <4>2. h \in HeldGroups
        BY <4>1, HeldViews DEF HeldIsViews
      <4> QED
        BY <4>1, <4>2, <3>3, <1>4
    <3> QED
      BY <3>2, <3>3
  <2>2. ASSUME NEW h \in HeldGroups PROVE h \in HeldGroups'
    <3>1. PICK v \in Users, k \in Groups : slot[v][k] # 0 /\ h = View(v, k)
      BY HeldViews DEF HeldIsViews
    <3>2. v # u \/ k # g
      BY <3>1
    <3>3. slot'[v][k] # 0 /\ h = View(v, k)'
      BY <3>1, <3>2, <1>1, <1>3
    <3> QED
      BY <3>3, HeldViewsNext DEF HeldIsViews
  <2>3. new \in HeldGroups'
    BY <1>1, <1>2, HeldViewsNext DEF HeldIsViews
  <2> QED
    BY <2>1, <2>2, <2>3
<1>6. ASSUME NEW h \in HeldGroups, h.rec = g, h.owner # u
      PROVE  kind = "shared" /\ h.mode = "shared"
  <2>1. PICK v \in Users, k \in Groups : slot[v][k] # 0 /\ h = View(v, k)
    BY HeldViews DEF HeldIsViews
  <2>2. v # u /\ k = g
    BY <2>1, <1>4, <1>6
  <2>3. m = "read" /\ mode[v][g] = "read"
    BY <2>1, <2>2
  <2> QED
    BY <2>1, <2>2, <2>3 DEF View, kind
<1>7. /\ NoFileLocks[[k \in Groups |-> "file"][g]] \in {NoUser, u}
      /\ NoFileLocks' = NoFileLocks
  BY DEF NoFileLocks
<1>8. Service!Compatible(u, g, kind)
  BY <1>6, <1>7 DEF Service!Compatible
<1>9. Service!Grant(u, g, kind)
  BY <1>5, <1>7, <1>8 DEF Service!Grant, new
<1> QED
  BY <1>9 DEF kind

(* dh_get_group_lock grants.                                                *)
LEMMA GetLockRefines ==
  ASSUME TypeOK, GroupInv, NEW u \in Users, GetLock(u)
  PROVE  Service!LSNext
<1>1. PICK g \in Groups, m \in Modes :
         /\ slot[u][g] = 0
         /\ \/ m = "read" /\ Share(u, g)
            \/ AddLock(u, g, m)
  BY GetLockDoes
<1>2. Entry(g) = {c \in Used : gcell[c].group = g}
  BY EntryAll DEF GroupInv, TableInv
<1>3. \A v \in Users : slot[v][g] # 0 => slot[v][g] \in Entry(g)
  BY <1>2 DEF GroupInv, TableInv, SlotsAreLocks
<1>4. CASE AddLock(u, g, m)
  <2>1. First(GroupHash[g], Cells \ Used) \in Cells
    BY <1>4, FreeCell DEF AddLock
  <2>2. Given(u, g, m, First(GroupHash[g], Cells \ Used)) /\ Entry(g) = {}
    BY <1>4 DEF AddLock
  <2>3. Service!Grant(u, g, IF m = "write" THEN "update" ELSE "shared")
    BY <1>1, <1>3, <2>1, <2>2, FilledIsGrant
  <2> QED
    BY <2>3 DEF Service!LSNext, Service!Modes
<1>5. CASE m = "read" /\ Share(u, g)
  <2>1. PICK c \in Entry(g) : Sharable(c) /\ Given(u, g, m, c)
    BY <1>5 DEF Share
  <2>2. c \in Used /\ c \in Cells /\ ~(gcell[c].grp < 0)
    BY <1>2, <2>1, UsedIsLock DEF Sharable
  <2>3. ASSUME NEW v \in Users \ {u}, slot[v][g] # 0 PROVE mode[v][g] = "read"
    <3>1. slot[v][g] = c
      BY <1>2, <1>3, <2>1, <2>3 DEF GroupInv, TableInv, OneLockPerGroup
    <3>2. mode[v][g] # "write" /\ mode[v][g] \in Modes
      BY <2>2, <2>3, <3>1 DEF GroupInv, TableInv, SlotsAreLocks, TypeOK
    <3> QED
      BY <3>2 DEF Modes
  <2>4. Service!Grant(u, g, IF m = "write" THEN "update" ELSE "shared")
    BY <1>1, <1>5, <2>1, <2>2, <2>3, FilledIsGrant
  <2> QED
    BY <2>4 DEF Service!LSNext, Service!Modes
<1> QED
  BY <1>1, <1>4, <1>5

(* Every step grants one group lock, gives some back or shows nothing.      *)
LEMMA StepRefines ==
  ASSUME TypeOK, GroupInv, [Next]_vars
  PROVE  [Service!LSNext]_<<HeldGroups, NoFileLocks>>
<1>1. ASSUME NEW u \in Users, FreeLock(u) PROVE Service!GiveBack
  <2>1. PICK g \in Groups : slot' = [slot EXCEPT ![u][g] = 0] /\ mode' = mode
    BY <1>1, FreeLockDoes
  <2>2. \A v \in Users, k \in Groups : slot'[v][k] \in {0, slot[v][k]}
    BY <2>1 DEF TypeOK
  <2> QED
    BY <2>1, <2>2, EmptiedGivesBack
<1>2. ASSUME NEW u \in Users, RemoveUser(u) PROVE Service!GiveBack
  <2>1. \A v \in Users, k \in Groups : slot'[v][k] \in {0, slot[v][k]}
    BY <1>2 DEF RemoveUser, TypeOK
  <2> QED
    BY <1>2, <2>1, EmptiedGivesBack DEF RemoveUser
<1>3. ASSUME NEW u \in Users,
             \/ Begin(u) \/ TakeTableLock(u) \/ LeaveTableLock(u)
             \/ HoldOff(u) \/ Inhibit(u) \/ LetGo(u) \/ Killed(u)
      PROVE UNCHANGED <<HeldGroups, NoFileLocks>>
  BY <1>3, PlanStepType, Stutter DEF TableUnchanged
<1>4. CASE UNCHANGED vars
  BY <1>4, Stutter DEF vars
<1> QED
  BY <1>1, <1>2, <1>3, <1>4, GetLockRefines DEF Next, Service!LSNext

(* An empty table is the service without locks.                             *)
LEMMA InitRefines == Init => Service!LSInit
  BY DEF Init, HeldGroups, Granted, NoFileLocks, Service!LSInit

(* Group locks with their table, counts and shared cells are a lock         *)
(* service: what dh_get_group_lock grants one session is compatible with    *)
(* what the others hold.                                                    *)
THEOREM GroupLocksImplementService ==
  ASSUME MortalsWrite
  PROVE  Spec => ImplementsService
<1>1. TypeOK /\ GroupInv /\ [Next]_vars => [Service!LSNext]_(Service!lsvars)
  BY StepRefines DEF Service!lsvars
<1> QED
  BY <1>1, InitRefines, GroupInvariant, PTL
     DEF Spec, ImplementsService, Service!LSSpec
=============================================================================
