---------------------------- MODULE DynamicFile ----------------------------
(***************************************************************************)
(* A dynamic hashed file (dh_read.c, dh_write.c, dh_del.c, dh_split.c,     *)
(* dh_selct.c, dh_file.c): groups with chains of overflow blocks, the free *)
(* chain, records too big for a group, and the linear hashing that adds a  *)
(* group to the file, or takes one off, when its load is too high or too   *)
(* low.                                                                    *)
(*                                                                         *)
(* Each step is what a session does between two waits.  Hashing an id and  *)
(* locking its group is one: both are done under FILE_TABLE_LOCK, which is *)
(* held until the group lock is granted (GroupLocks).  So is each use of   *)
(* the free chain, under the lock of the header.  A group is rewritten     *)
(* block by block, from buffers in the session that does it.               *)
(***************************************************************************)
EXTENDS Integers, Sequences, FiniteSets, SequencesExt

CONSTANTS
  Users,       \* sessions
  Ids,         \* record ids
  HashOf,      \* HashOf[i]: the hash value of an id
  Vals,        \* records
  NoRec,       \* no such record
  Size,        \* Size[v]: what a record takes in its group, id included
  BigBlocks,   \* BigBlocks[v]: overflow blocks of a record that is too big, or 0
  BlockSize,   \* the room for records in a block
  MinModulus,  \* least number of groups
  MaxModulus,  \* bound: groups (the file grows no further)
  MaxOverflow, \* blocks the overflow subfile can have
  SplitLoad,   \* split_load, per cent
  MergeLoad,   \* merge_load, per cent
  MaxUpdates,  \* bound: writes and deletes
  Writable,    \* what sessions write: a session, an id and a record
  Deletable,   \* what sessions delete: a session and an id
  Readers,     \* the sessions that run READ
  Selectors    \* the sessions that run SELECT

None == 0
Groups == 1 .. MaxModulus
Over == 1 .. MaxOverflow

ASSUME FileConstants ==
  /\ IsFiniteSet(Users) /\ IsFiniteSet(Ids)
  /\ HashOf \in [Ids -> Nat]
  /\ NoRec \notin Vals
  /\ BlockSize \in Nat /\ Size \in [Vals -> 1 .. BlockSize]
  /\ BigBlocks \in [Vals -> Nat]
  /\ MaxModulus \in Nat /\ MinModulus \in Groups /\ MaxOverflow \in Nat
  /\ Writable \subseteq Users \X Ids \X Vals /\ Deletable \subseteq Users \X Ids
  /\ Readers \subseteq Users /\ Selectors \subseteq Users

Rec == [id : Ids, val : Vals, big : Over \cup {None}]
Part == [val : Vals \cup {NoRec}, nth : Nat]
Block == [recs : Seq(Rec), next : Over \cup {None}, part : Part]

VARIABLES
  block,      \* the file: block[p] of each place, see below
  fileEnd,    \* blocks in the overflow subfile
  freeChain,  \* head of the free chain
  modulus,    \* number of groups
  modValue,   \* mod_value
  load,       \* load_bytes
  recCount,   \* record_count
  updCt,      \* upd_ct
  inhibit,    \* inhibit_count
  glock,      \* group locks held: [owner, group, write]
  proc,       \* what each session is at
  reply,      \* what the last READ to end returned
  steady,     \* history: ids in the file since its SELECT began
  skewed      \* history: the counts may be wrong, see CountsExact

file == <<block, fileEnd, freeChain>>
header == <<modulus, modValue, load, recCount, updCt, inhibit>>
history == <<steady, skewed>>
vars == <<file, header, glock, proc, reply, history>>

-----------------------------------------------------------------------------
(* Blocks and chains.                                                      *)

NoPart == [val |-> NoRec, nth |-> 0]
Empty == [recs |-> <<>>, next |-> None, part |-> NoPart]

(* Places in the primary subfile, then places in the overflow subfile.      *)
Primary(g) == g
Overflow(o) == MaxModulus + o
Place == 1 .. MaxModulus + MaxOverflow
IsOverflow(p) == p > MaxModulus
OverflowNo(p) == p - MaxModulus

(* The overflow blocks from o on, in a file with the blocks b.              *)
ChainFrom(b, o) ==
  LET chain[n \in 0 .. MaxOverflow] ==
        [k \in Over \cup {None} |->
           IF k = None \/ n = 0 THEN <<>> ELSE <<k>> \o chain[n - 1][b[Overflow(k)].next]]
  IN  chain[MaxOverflow][o]

(* The places of a group, from its primary block on.                        *)
GroupChain(g) ==
  LET os == ChainFrom(block, block[Primary(g)].next)
  IN  <<Primary(g)>> \o [k \in 1 .. Len(os) |-> Overflow(os[k])]

(* The records of a group, in the order of its blocks.                      *)
GroupRecs(b, g) ==
  LET along[n \in 0 .. MaxOverflow] ==
        [p \in Place |->
           b[p].recs \o IF b[p].next = None \/ n = 0 THEN <<>>
                        ELSE along[n - 1][Overflow(b[p].next)]]
  IN  along[MaxOverflow][Primary(g)]

Bytes(recs) ==
  LET sum[n \in 0 .. Len(recs)] == IF n = 0 THEN 0 ELSE sum[n - 1] + Size[recs[n].val]
  IN  sum[Len(recs)]

Room(recs) == BlockSize - Bytes(recs)

(* dh_read_record: a big record is what is in its chain.                    *)
ValueOf(b, r) ==
  IF r.big = None THEN r.val
  ELSE LET os == ChainFrom(b, r.big)
           v == b[Overflow(r.big)].part.val
       IN  IF /\ v \in Vals /\ Len(os) = BigBlocks[v]
              /\ \A k \in 1 .. Len(os) : b[Overflow(os[k])].part = [val |-> v, nth |-> k]
             THEN v ELSE NoRec

(* dh_read: the group is searched block by block for the record of that id, *)
(* and the first one counts.                                                *)
Found(b, g, i) ==
  LET search[n \in 0 .. MaxOverflow] ==
        [p \in Place |->
           LET recs == b[p].recs
               S == {k \in 1 .. Len(recs) : recs[k].id = i}
           IN  IF S # {} THEN {recs[CHOOSE k \in S : \A j \in S : k <= j]}
               ELSE IF b[p].next = None \/ n = 0 THEN {}
                    ELSE search[n - 1][Overflow(b[p].next)]]
  IN  search[MaxOverflow][Primary(g)]

Lookup(b, g, i) ==
  LET found == Found(b, g, i)
  IN  IF found = {} THEN NoRec ELSE ValueOf(b, CHOOSE r \in found : TRUE)

-----------------------------------------------------------------------------
(* dh_hash_group.                                                          *)

(* Mutant: the group is not looked for among those there were before.       *)
HashGroupNoWrap(i) == Min({(HashOf[i] % modValue) + 1, modulus})

HashGroup(i) ==
  LET g == (HashOf[i] % modValue) + 1
  IN  IF g > modulus THEN (HashOf[i] % (modValue \div 2)) + 1 ELSE g

(* mod_value is the least power of two that is not below the modulus.       *)
IsPowerOf2(n) == \A d \in 2 .. n : n % d = 0 => d % 2 = 0

DHLoad(bytes, mod) == (bytes * 100) \div (BlockSize * mod)

-----------------------------------------------------------------------------
(* Group locks.                                                            *)

(* Mutant: a writer does not wait for readers.                              *)
CanLockUnread(g, write) == ~\E l \in glock : l.group = g /\ l.write

CanLock(g, write) == ~\E l \in glock : l.group = g /\ (write \/ l.write)

MyLock(u, g, write) == [owner |-> u, group |-> g, write |-> write]

LocksLeft(u) == {l \in glock : l.owner # u}

-----------------------------------------------------------------------------
(* Rewriting a group.  A session has the blocks it will write in buffers,   *)
(* to[1] first.  It adds the records of todo to the first, or to the second *)
(* if they hash to the group new that a split makes; todo are the records   *)
(* it has not copied yet of a source block.  src is the overflow block that *)
(* this is, to give away when it is done, and rest the next one.  pack says *)
(* that the buffer is to be filled up from the blocks after it.             *)

Buffer(p, b) == [at |-> p, blk |-> b]

NoJob == [to |-> <<>>, pack |-> FALSE, todo |-> <<>>, src |-> None, rest |-> None, new |-> None]

BlockOf(recs, next) == [recs |-> recs, next |-> next, part |-> NoPart]

Spot(places, i) ==
  UNION {{j} \X {k \in 1 .. Len(block[places[j]].recs) : block[places[j]].recs[k].id = i} :
           j \in 1 .. Len(places)}

FirstSpot(S) ==
  CHOOSE s \in S : \A t \in S : s[1] < t[1] \/ (s[1] = t[1] /\ s[2] <= t[2])

(* Record k of a block is taken out, and the block packed.                  *)
TakeOut(p, k) ==
  [NoJob EXCEPT !.to = <<Buffer(p, [block[p] EXCEPT !.recs = RemoveAt(@, k)])>>, !.pack = TRUE]

(* dh_write: a record of the same size is replaced where it is; any other   *)
(* is taken out and the new one added at the end.                           *)
WriteJob(g, r) ==
  LET places == GroupChain(g)
      S == Spot(places, r.id)
      last == places[Len(places)]
  IN  IF S = {} THEN [NoJob EXCEPT !.to = <<Buffer(last, block[last])>>, !.todo = <<r>>]
      ELSE LET p == places[FirstSpot(S)[1]]
               k == FirstSpot(S)[2]
           IN  IF Size[block[p].recs[k].val] = Size[r.val]
                 THEN [NoJob EXCEPT !.to = <<Buffer(p, [block[p] EXCEPT !.recs[k] = r])>>]
                 ELSE [TakeOut(p, k) EXCEPT !.todo = <<r>>]

(* dh_delete: an overflow block that gets empty is taken out of the chain.  *)
DeleteJob(g, i) ==
  LET places == GroupChain(g)
      S == Spot(places, i)
  IN  IF S = {} THEN NoJob
      ELSE LET j == FirstSpot(S)[1]
               p == places[j]
           IN  IF j > 1 /\ Len(block[p].recs) = 1
                 THEN [NoJob EXCEPT
                         !.to = <<Buffer(places[j - 1],
                                         [block[places[j - 1]] EXCEPT !.next = block[p].next])>>,
                         !.src = OverflowNo(p)]
                 ELSE TakeOut(p, FirstSpot(S)[2])

(* dh_split: the records of the group that hash to the new one go there.    *)
SplitJob(g, new) ==
  [NoJob EXCEPT !.to = <<Buffer(Primary(g), Empty), Buffer(Primary(new), Empty)>>,
                !.todo = block[Primary(g)].recs, !.rest = block[Primary(g)].next, !.new = new]

(* dh_merge: the records of the last group are added at the end of its twin, *)
(* and the primary block is cleared.                                        *)
MergeJob(g, old) ==
  LET end == GroupChain(g)[Len(GroupChain(g))]
  IN  [NoJob EXCEPT !.to = <<Buffer(end, block[end]), Buffer(Primary(old), Empty)>>,
                    !.todo = block[Primary(old)].recs, !.rest = block[Primary(old)].next]

-----------------------------------------------------------------------------
(* What the file holds, for the map it implements: a group being rewritten  *)
(* holds what it held when it was locked, and a record that is to move to a *)
(* new group is in the group it comes from until the split has that locked. *)

Rewriting(i) == {u \in Users : proc[u].at = "rewrite" /\ i \in DOMAIN proc[u].was}

Home(i) ==
  LET S == {u \in Users : proc[u].at = "source" /\ proc[u].new = HashGroup(i)}
  IN  IF S = {} THEN HashGroup(i) ELSE proc[CHOOSE u \in S : TRUE].group

content ==
  [i \in Ids |-> IF Rewriting(i) # {} THEN proc[CHOOSE u \in Rewriting(i) : TRUE].was[i]
                 ELSE Lookup(block, Home(i), i)]

Snapshot(S) == [i \in {j \in Ids : Home(j) \in S} |-> content[i]]

Init ==
  /\ block = [p \in Place |-> Empty]
  /\ fileEnd = 0 /\ freeChain = None
  /\ modulus = MinModulus
  /\ modValue = Min({n \in 1 .. 2 * MinModulus : IsPowerOf2(n) /\ n >= MinModulus})
  /\ load = 0 /\ recCount = 0 /\ updCt = 0 /\ inhibit = 0
  /\ glock = {}
  /\ proc = [u \in Users |-> [at |-> "idle"]]
  /\ reply = NoRec
  /\ steady = [u \in Users |-> {}]
  /\ skewed = FALSE

Goes(u, p) == proc' = [proc EXCEPT ![u] = p]

-----------------------------------------------------------------------------
(* dh_read.                                                                *)

Read(u) ==
  /\ proc[u].at = "idle" /\ u \in Readers
  /\ \E i \in Ids :
       /\ CanLock(HashGroup(i), FALSE)
       /\ glock' = glock \cup {MyLock(u, HashGroup(i), FALSE)}
       /\ Goes(u, [at |-> "read", id |-> i, group |-> HashGroup(i)])
  /\ UNCHANGED <<file, header, reply, history>>

ReadGroup(u) ==
  /\ proc[u].at = "read"
  /\ reply' = Lookup(block, proc[u].group, proc[u].id)
  /\ glock' = LocksLeft(u)
  /\ Goes(u, [at |-> "idle"])
  /\ UNCHANGED <<file, header, history>>

-----------------------------------------------------------------------------
(* The overflow subfile.                                                   *)

(* A session that writes a big record has the header locked until it is     *)
(* through.                                                                 *)
HeaderFree == \A v \in Users : proc[v].at # "big"

NewBlock == IF freeChain # None THEN freeChain ELSE fileEnd + 1

(* dh_get_overflow: the head of the free chain, or a new block.             *)
GetOverflow ==
  /\ NewBlock \in Over
  /\ freeChain' = IF freeChain # None THEN block[Overflow(freeChain)].next ELSE None
  /\ fileEnd' = IF freeChain # None THEN fileEnd ELSE fileEnd + 1

(* dh_free_overflow.                                                        *)
FreeOverflow(o) ==
  /\ HeaderFree
  /\ block' = [block EXCEPT ![Overflow(o)] = [Empty EXCEPT !.next = freeChain]]
  /\ freeChain' = o
  /\ UNCHANGED fileEnd

(* dh_write_big_rec: the chain of a big record, block by block, before the  *)
(* group is locked.                                                         *)
BigPart(v, n) == [recs |-> <<>>, next |-> None, part |-> [val |-> v, nth |-> n]]

BigDone(r, o, n) ==
  IF n = BigBlocks[r.val] THEN [at |-> "write", rec |-> r]
  ELSE [at |-> "big", rec |-> r, last |-> o, nth |-> n]

WriteBig(u) ==
  /\ proc[u].at = "idle" /\ updCt < MaxUpdates
  /\ HeaderFree /\ GetOverflow
  /\ \E i \in Ids, v \in Vals :
       /\ <<u, i, v>> \in Writable /\ BigBlocks[v] > 0
       /\ block' = [block EXCEPT ![Overflow(NewBlock)] = BigPart(v, 1)]
       /\ Goes(u, BigDone([id |-> i, val |-> v, big |-> NewBlock], NewBlock, 1))
  /\ UNCHANGED <<header, glock, reply, history>>

MoreBig(u) ==
  /\ proc[u].at = "big"
  /\ GetOverflow
  /\ LET n == proc[u].nth + 1
     IN  /\ block' = [block EXCEPT ![Overflow(proc[u].last)].next = NewBlock,
                                   ![Overflow(NewBlock)] = BigPart(proc[u].rec.val, n)]
         /\ Goes(u, BigDone(proc[u].rec, NewBlock, n))
  /\ UNCHANGED <<header, glock, reply, history>>

-----------------------------------------------------------------------------
(* dh_write and dh_delete: the group.                                      *)

(* The record of that id in its group, if any.                              *)
OldRec(i) == Found(block, HashGroup(i), i)

(* Mutant: the blocks of a big record that is replaced are forgotten.       *)
OldBigForgotten(old) == None

OldBig(old) == IF old = {} THEN None ELSE (CHOOSE r \in old : TRUE).big

(* Mutant: the load counts a record that is replaced again.                 *)
OldSizeKept(old) == 0

OldSize(old) == IF old = {} THEN 0 ELSE Size[(CHOOSE r \in old : TRUE).val]

Rewrite(u, groups, job, put, after) ==
  Goes(u, [at |-> "rewrite", was |-> Snapshot(groups), put |-> put, then |-> after, job |-> job])

LockToWrite(u, r) ==
  LET g == HashGroup(r.id)
      old == OldRec(r.id)
  IN  /\ CanLock(g, TRUE)
      /\ glock' = glock \cup {MyLock(u, g, TRUE)}
      /\ Rewrite(u, {g}, WriteJob(g, r), {[id |-> r.id, val |-> r.val]},
                 [at |-> "tidy", big |-> OldBig(old), bytes |-> Size[r.val] - OldSize(old),
                  recs |-> IF old = {} THEN 1 ELSE 0])
      /\ updCt' = updCt + 1
      /\ UNCHANGED <<file, modulus, modValue, load, recCount, inhibit, reply, history>>

(* A record that fits a group needs nothing before.                         *)
Write(u) ==
  /\ proc[u].at = "idle" /\ updCt < MaxUpdates
  /\ \E i \in Ids, v \in Vals :
       /\ <<u, i, v>> \in Writable /\ BigBlocks[v] = 0
       /\ LockToWrite(u, [id |-> i, val |-> v, big |-> None])

WriteAfterBig(u) == proc[u].at = "write" /\ LockToWrite(u, proc[u].rec)

Delete(u) ==
  /\ proc[u].at = "idle" /\ updCt < MaxUpdates
  /\ \E i \in Ids :
       LET g == HashGroup(i)
           old == OldRec(i)
       IN  /\ <<u, i>> \in Deletable
           /\ CanLock(g, TRUE)
           /\ glock' = glock \cup {MyLock(u, g, TRUE)}
           /\ Rewrite(u, {g}, DeleteJob(g, i), {[id |-> i, val |-> NoRec]},
                      [at |-> "tidy", big |-> OldBig(old), bytes |-> -OldSize(old),
                       recs |-> -Cardinality(old)])
  /\ updCt' = updCt + 1
  /\ UNCHANGED <<file, modulus, modValue, load, recCount, inhibit, reply, history>>

(* The buffers of a rewriting session.                                      *)
Job(u) == proc[u].job

Cur(u) == Job(u).to[1]

Works(u, job) == Goes(u, [proc[u] EXCEPT !.job = job])

Packing(u) == Job(u).pack /\ Job(u).to # <<>> /\ Cur(u).blk.next # None

(* As much as will fit of the next block is moved into the buffer.          *)
Fits(recs, space) ==
  CHOOSE n \in 0 .. Len(recs) :
    /\ \A k \in 1 .. n : Bytes(SubSeq(recs, 1, k)) <= space
    /\ n = Len(recs) \/ Bytes(SubSeq(recs, 1, n + 1)) > space

(* If this is all of it, the block goes to the free chain.                  *)
Dechain(u) ==
  /\ proc[u].at = "rewrite" /\ Packing(u)
  /\ LET cur == Cur(u).blk
         b == block[Overflow(cur.next)]
     IN  /\ Fits(b.recs, Room(cur.recs)) = Len(b.recs)
         /\ FreeOverflow(cur.next)
         /\ Works(u, [Job(u) EXCEPT !.to[1].blk = BlockOf(cur.recs \o b.recs, b.next)])
  /\ UNCHANGED <<header, glock, reply, history>>

(* If not, the buffer is written and the block becomes current.             *)
MoveOn(u) ==
  /\ proc[u].at = "rewrite" /\ Packing(u)
  /\ LET cur == Cur(u).blk
         p == Overflow(cur.next)
         recs == block[p].recs
         n == Fits(recs, Room(cur.recs))
     IN  /\ n < Len(recs)
         /\ block' = [block EXCEPT ![Cur(u).at] = BlockOf(cur.recs \o SubSeq(recs, 1, n), cur.next)]
         /\ Works(u, [Job(u) EXCEPT
                !.to[1] = Buffer(p, BlockOf(SubSeq(recs, n + 1, Len(recs)), block[p].next))])
  /\ UNCHANGED <<fileEnd, freeChain, header, glock, reply, history>>

(* The records of todo are added, to another block when the buffer is full. *)
Adding(u) == proc[u].at = "rewrite" /\ ~Packing(u) /\ Job(u).todo # <<>>

Target(u) ==
  IF Job(u).new # None /\ HashGroup(Head(Job(u).todo).id) = Job(u).new THEN 2 ELSE 1

NeedOverflow(u) == Size[Head(Job(u).todo).val] > Room(Job(u).to[Target(u)].blk.recs)

Extend(u) ==
  /\ Adding(u) /\ NeedOverflow(u)
  /\ HeaderFree /\ GetOverflow
  /\ LET to == Job(u).to[Target(u)]
     IN  block' = [block EXCEPT ![to.at] = [to.blk EXCEPT !.next = NewBlock]]
  /\ Works(u, [Job(u) EXCEPT !.to[Target(u)] = Buffer(Overflow(NewBlock), Empty)])
  /\ UNCHANGED <<header, glock, reply, history>>

Add(u) ==
  /\ Adding(u) /\ ~NeedOverflow(u)
  /\ Works(u, [Job(u) EXCEPT !.to[Target(u)].blk.recs = Append(@, Head(Job(u).todo)),
                             !.todo = Tail(@)])
  /\ UNCHANGED <<file, header, glock, reply, history>>

(* A source block that has been copied is given away if it is an overflow   *)
(* block, and the next one is read.                                         *)
Copied(u) == proc[u].at = "rewrite" /\ ~Packing(u) /\ Job(u).todo = <<>>

GiveAway(u) ==
  /\ Copied(u) /\ Job(u).src # None
  /\ FreeOverflow(Job(u).src)
  /\ Works(u, [Job(u) EXCEPT !.src = None])
  /\ UNCHANGED <<header, glock, reply, history>>

NextSource(u) ==
  /\ Copied(u) /\ Job(u).src = None /\ Job(u).rest # None
  /\ LET b == block[Overflow(Job(u).rest)]
     IN  Works(u, [Job(u) EXCEPT !.todo = b.recs, !.src = Job(u).rest, !.rest = b.next])
  /\ UNCHANGED <<file, header, glock, reply, history>>

(* In the end the buffers are written.                                      *)
WriteBlock(u) ==
  /\ Copied(u) /\ Job(u).src = None /\ Job(u).rest = None /\ Job(u).to # <<>>
  /\ block' = [block EXCEPT ![Cur(u).at] = Cur(u).blk]
  /\ Works(u, [Job(u) EXCEPT !.to = Tail(@)])
  /\ UNCHANGED <<fileEnd, freeChain, header, glock, reply, history>>

FreeLocks(u) ==
  /\ proc[u].at = "rewrite" /\ Job(u).to = <<>>
  /\ glock' = LocksLeft(u)
  /\ Goes(u, proc[u].then)
  /\ UNCHANGED <<file, header, reply, skewed>>
  /\ steady' = [v \in Users |-> {i \in steady[v] : content'[i] # NoRec}]

(* dh_free_big_rec: the blocks of the old record are cleared and the chain  *)
(* of them put before the free chain.                                       *)
FreeBig(u) ==
  /\ proc[u].at = "tidy"
  /\ IF proc[u].big = None THEN UNCHANGED <<block, freeChain>>
     ELSE LET os == ChainFrom(block, proc[u].big)
          IN  /\ HeaderFree
              /\ block' = [p \in Place |->
                             IF p \notin {Overflow(os[k]) : k \in 1 .. Len(os)} THEN block[p]
                             ELSE [Empty EXCEPT !.next = IF block[p].next = None THEN freeChain
                                                         ELSE block[p].next]]
              /\ freeChain' = proc[u].big
  /\ Goes(u, [proc[u] EXCEPT !.at = "account"])
  /\ UNCHANGED <<fileEnd, header, glock, reply, history>>

(* The load and the count are adjusted under FILE_TABLE_LOCK, and stop at 0. *)
Account(u) ==
  /\ proc[u].at = "account"
  /\ load' = Max({0, load + proc[u].bytes})
  /\ recCount' = Max({0, recCount + proc[u].recs})
  /\ skewed' = (skewed \/ load + proc[u].bytes < 0 \/ recCount + proc[u].recs < 0)
  /\ Goes(u, [at |-> "resize"])
  /\ UNCHANGED <<file, modulus, modValue, updCt, inhibit, glock, reply, steady>>

-----------------------------------------------------------------------------
(* Split and merge.                                                        *)

(* Mutant: selects are not waited for.                                      *)
HeldOffNever == FALSE

(* A select is open, or another split or merge is under way.                *)
HeldOff == inhibit # 0

MustGrow == DHLoad(load, modulus) > SplitLoad \/ modulus < MinModulus

MustShrink == DHLoad(load, modulus) < MergeLoad /\ modulus > MinModulus

ModValueUp(mod) == IF mod > modValue THEN 2 * modValue ELSE modValue

ModValueDown(mod) == IF mod = modValue \div 2 THEN modValue \div 2 ELSE modValue

(* What dh_write and dh_delete read of the header when they are through,    *)
(* with no lock, to choose between dh_split, dh_merge and nothing.          *)
Resize(u) ==
  /\ proc[u].at = "resize"
  /\ \/ /\ ~HeldOff /\ MustGrow /\ modulus < MaxModulus
        /\ Goes(u, [at |-> "split"])
     \/ /\ ~HeldOff /\ ~MustGrow /\ MustShrink
        /\ DHLoad(load, modulus - 1) < SplitLoad
        /\ Goes(u, [at |-> "merge"])
     \/ /\ \/ HeldOff
           \/ MustGrow /\ modulus = MaxModulus
           \/ ~MustGrow /\ ~(MustShrink /\ DHLoad(load, modulus - 1) < SplitLoad)
        /\ Goes(u, [at |-> "idle"])
  /\ UNCHANGED <<file, header, glock, reply, history>>

(* Somebody was faster, a select has begun, or the file is at its limit.    *)
ResizeOff(u) ==
  /\ \/ proc[u].at = "split" /\ (HeldOff \/ ~MustGrow \/ modulus = MaxModulus)
     \/ proc[u].at = "merge" /\ (HeldOff \/ ~MustShrink)
  /\ Goes(u, [at |-> "idle"])
  /\ UNCHANGED <<file, header, glock, reply, history>>

(* The new group is locked before anybody can hash to it; the group to      *)
(* split is not locked yet.                                                 *)
SplitStart(u) ==
  /\ proc[u].at = "split" /\ ~HeldOff /\ MustGrow /\ modulus < MaxModulus
  /\ LET new == modulus + 1
         value == ModValueUp(new)
     IN  /\ CanLock(new, TRUE)
         /\ glock' = glock \cup {MyLock(u, new, TRUE)}
         /\ modulus' = new /\ modValue' = value
         /\ Goes(u, [at |-> "source", new |-> new, group |-> new - value \div 2])
  /\ inhibit' = inhibit + 1
  /\ UNCHANGED <<file, load, recCount, updCt, reply, history>>

SplitSource(u) ==
  /\ proc[u].at = "source"
  /\ LET new == proc[u].new
         g == proc[u].group
     IN  /\ CanLock(g, TRUE)
         /\ glock' = glock \cup {MyLock(u, g, TRUE)}
         /\ Rewrite(u, {g, new}, SplitJob(g, new), {}, [at |-> "release"])
  /\ UNCHANGED <<file, header, reply, history>>

(* Both groups are locked, and the modulus is changed, under FILE_TABLE_LOCK. *)
MergeStart(u) ==
  /\ proc[u].at = "merge" /\ ~HeldOff /\ MustShrink
  /\ LET old == modulus
         g == old - modValue \div 2
     IN  /\ CanLock(g, TRUE) /\ CanLock(old, TRUE)
         /\ glock' = glock \cup {MyLock(u, g, TRUE), MyLock(u, old, TRUE)}
         /\ Rewrite(u, {g, old}, MergeJob(g, old), {}, [at |-> "release"])
         /\ modulus' = old - 1
         /\ modValue' = ModValueDown(old - 1)
  /\ inhibit' = inhibit + 1
  /\ UNCHANGED <<file, load, recCount, updCt, reply, history>>

Release(u) ==
  /\ proc[u].at = "release"
  /\ inhibit' = inhibit - 1
  /\ Goes(u, [at |-> "idle"])
  /\ UNCHANGED <<file, modulus, modValue, load, recCount, updCt, glock, reply, history>>

-----------------------------------------------------------------------------
(* dh_select, dh_select_group.                                             *)

Select(u) ==
  /\ proc[u].at = "idle" /\ u \in Selectors
  /\ inhibit' = inhibit + 1
  /\ steady' = [steady EXCEPT ![u] = {i \in Ids : content[i] # NoRec}]
  /\ Goes(u, [at |-> "select", group |-> 1, picked |-> <<>>, upd |-> updCt, bytes |-> 0,
              gap |-> \E v \in Users : proc[v].at = "source"])
  /\ UNCHANGED <<file, modulus, modValue, load, recCount, updCt, glock, reply, skewed>>

SelectGroup(u) ==
  /\ proc[u].at = "select" /\ proc[u].group <= modulus
  /\ CanLock(proc[u].group, FALSE)
  /\ LET recs == GroupRecs(block, proc[u].group)
     IN  Goes(u, [proc[u] EXCEPT !.picked = @ \o [k \in 1 .. Len(recs) |-> recs[k].id],
                                 !.group = @ + 1, !.bytes = @ + Bytes(recs)])
  /\ UNCHANGED <<file, header, glock, reply, history>>

(* Some session has still to adjust the counts for what it has written.     *)
Uncounted == \E v \in Users : proc[v].at \in {"rewrite", "tidy", "account"}

(* The last group done, the counts are set right if nothing was updated     *)
(* meanwhile.                                                               *)
SelectEnd(u) ==
  /\ proc[u].at = "select" /\ proc[u].group > modulus
  /\ IF proc[u].upd = updCt
       THEN /\ recCount' = Len(proc[u].picked) /\ load' = proc[u].bytes
            /\ skewed' = (skewed \/ proc[u].gap \/ Uncounted)
       ELSE UNCHANGED <<recCount, load, skewed>>
  /\ inhibit' = inhibit - 1
  /\ Goes(u, [at |-> "idle"])
  /\ steady' = [steady EXCEPT ![u] = {}]
  /\ UNCHANGED <<file, modulus, modValue, updCt, glock, reply>>

-----------------------------------------------------------------------------
Next ==
  \E u \in Users :
    \/ Read(u) \/ ReadGroup(u)
    \/ Write(u) \/ WriteBig(u) \/ MoreBig(u) \/ WriteAfterBig(u) \/ Delete(u)
    \/ Dechain(u) \/ MoveOn(u) \/ Extend(u) \/ Add(u) \/ GiveAway(u) \/ NextSource(u)
    \/ WriteBlock(u) \/ FreeLocks(u) \/ FreeBig(u) \/ Account(u)
    \/ Resize(u) \/ ResizeOff(u) \/ SplitStart(u) \/ SplitSource(u) \/ MergeStart(u)
    \/ Release(u) \/ Select(u) \/ SelectGroup(u) \/ SelectEnd(u)

Spec == Init /\ [][Next]_vars

-----------------------------------------------------------------------------
Locked(g) == \E l \in glock : l.group = g /\ l.write

TypeOK ==
  /\ block \in [Place -> Block]
  /\ fileEnd \in 0 .. MaxOverflow /\ freeChain \in Over \cup {None}
  /\ modulus \in MinModulus .. MaxModulus
  /\ modulus <= modValue /\ modValue < 2 * modulus
  /\ load \in Nat /\ recCount \in Nat /\ updCt \in Nat /\ inhibit \in Nat
  /\ glock \subseteq [owner : Users, group : Groups, write : BOOLEAN]
  /\ reply \in Vals \cup {NoRec}
  /\ steady \in [Users -> SUBSET Ids]
  /\ skewed \in BOOLEAN

(* A record is in the group its id hashes to, once: in a group that nobody  *)
(* is writing there is no record that a session hashing its id now would    *)
(* look for elsewhere, other than those a split has still to move, and no   *)
(* second copy of one.                                                      *)
RecordsAtHome ==
  \A g \in 1 .. modulus : ~Locked(g) =>
    LET recs == GroupRecs(block, g)
    IN  \A k \in 1 .. Len(recs) :
          /\ Home(recs[k].id) = g
          /\ \A j \in 1 .. Len(recs) : recs[j].id = recs[k].id => j = k

(* A session that reads a group has the one its id is in, however long ago  *)
(* it hashed the id and whatever splits and merges have begun since, and a  *)
(* session that rewrites groups has those of just the ids it began with:    *)
(* no id moves into or out of a group under a session that has it locked.   *)
LockedAtHome ==
  \A u \in Users :
    /\ proc[u].at = "read" => proc[u].group = Home(proc[u].id)
    /\ proc[u].at = "rewrite" =>
         \A i \in Ids : i \in DOMAIN proc[u].was <=> MyLock(u, Home(i), TRUE) \in glock

(* The chains of overflow blocks there are with those groups: the free      *)
(* chain, that of each group and that of each big record in it.             *)
Heads(groups) ==
  {<<None, 0, freeChain>>} \cup
  UNION {LET recs == GroupRecs(block, g)
         IN  {<<g, 0, block[Primary(g)].next>>} \cup
             {<<g, k, recs[k].big>> : k \in 1 .. Len(recs)} : g \in groups}

Chains(groups) == {<<h, ChainFrom(block, h[3])>> : h \in Heads(groups)}

(* The free chain, the chains of groups nobody is writing and those of their *)
(* big records have no block in common, and none runs out of the file.      *)
ChainsDisjoint ==
  \A c, d \in Chains({g \in 1 .. modulus : ~Locked(g)}) :
    /\ IsInjective(c[2]) /\ Range(c[2]) \subseteq 1 .. fileEnd
    /\ c[1] # d[1] => Range(c[2]) \cap Range(d[2]) = {}

(* No overflow block is ever lost: when no session is at anything, each one *)
(* is in the free chain, in the chain of a group or in a big record.        *)
Quiet == \A u \in Users : proc[u].at = "idle"

NoBlockLost ==
  Quiet => \A o \in 1 .. fileEnd : \E c \in Chains(1 .. modulus) : o \in Range(c[2])

(* Every overflow block is in use once: none is in two chains, whoever is   *)
(* writing, splitting or merging, and none is in no chain.                  *)
BlocksAccounted == TypeOK /\ ChainsDisjoint /\ NoBlockLost

AllRecs == FlattenSeq([g \in 1 .. modulus |-> GroupRecs(block, g)])

(* The record count and the load that decide on splits and merges are those *)
(* of the file whenever nobody is at anything.  Three ways the code has to  *)
(* get them wrong are left out by the history variable: a SELECT that sets  *)
(* them between the write of another session and its adjustment, or that    *)
(* began between the two locks of a split; and a delete that was counted    *)
(* before the write of what it deleted, so that a count stopped at 0.       *)
CountsExact == Quiet /\ ~skewed => recCount = Len(AllRecs) /\ load = Bytes(AllRecs)

Selected(u) == proc[u].at = "select" /\ proc'[u].at = "idle"

(* A SELECT delivers every record that is there all the while, also when it *)
(* begins in the middle of a split or merge and records are written, moved  *)
(* and deleted around it; and it delivers none twice unless it began between *)
(* the two locks of a split.                                                *)
SelectDelivers ==
  [][\A u \in Users : Selected(u) =>
       /\ steady[u] \subseteq Range(proc[u].picked)
       /\ proc[u].gap \/ IsInjective(proc[u].picked)]_vars

(* What each session has promised to write or delete.                       *)
pending == [u \in Users |-> IF proc[u].at = "rewrite" THEN proc[u].put ELSE {}]

(* The id each session READs.                                               *)
asked == [u \in Users |-> IF proc[u].at = "read" THEN {proc[u].id} ELSE {}]

Map == INSTANCE FileMap

(* The file is a map: READ of an id returns what was last written for that  *)
(* id, or that it is not there, whatever group the record is in by then, and *)
(* nothing but WRITE and DELETE changes the map.                            *)
ImplementsMap == Map!FMSpec
=============================================================================
