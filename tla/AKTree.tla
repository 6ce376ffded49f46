------------------------------- MODULE AKTree -------------------------------
(***************************************************************************)
(* An alternate key index (dh_ak.c): a tree in a subfile of a hashed file. *)
(* Terminal nodes hold the records of the index, one for each key, in key  *)
(* order, and are linked to their neighbours.  Internal nodes hold, for    *)
(* each child, the last key below it.  Node 1 is the root.  Nodes given    *)
(* up form a chain from which new ones are taken.                          *)
(*                                                                         *)
(* A write, a delete and each scan hold the lock of the subfile from the   *)
(* first read to the last write, so each is one step.  What a session      *)
(* keeps between two steps is its scan position: SELECTINDEX, SETLEFT and  *)
(* SETRIGHT set it, SELECTLEFT and SELECTRIGHT move it by one key.         *)
(*                                                                         *)
(* Lengths are abstract units: Cap stands for what a terminal node holds.  *)
(* Keys have one length, so an internal node is full at MaxChild children  *)
(* only.  Records too big for a node are left out.                         *)
(***************************************************************************)
EXTENDS Integers, Sequences, FiniteSets, SequencesExt

CONSTANTS
  Keys,      \* the keys, in the order of compare()
  Sizes,     \* the sizes of index records
  Cap,       \* room in a terminal node
  MaxChild,  \* MAX_CHILD
  MaxNodes,  \* nodes in the subfile, at most: there are enough
  Loads,     \* records written before the start: sequences of keys and sizes
  MaxUpdates \* bound: writes, deletes and clears after that

None == 0
NodeNums == 1 .. MaxNodes

(* A record is at most AK_BIG_REC_SIZE long and fits in any node.  The      *)
(* halves of a full internal node have two children or more.                *)
ASSUME AKConstants ==
  /\ Keys \subseteq Nat \ {0} /\ IsFiniteSet(Keys) /\ Keys # {}
  /\ Cap \in Nat /\ Sizes \subseteq 1 .. Cap /\ Sizes # {}
  /\ MaxChild \in Nat /\ MaxChild >= 5
  /\ MaxNodes \in Nat \ {0} /\ MaxUpdates \in Nat
  /\ Loads \subseteq Seq(Keys \X Sizes)

Flags == {"found", "left", "right"}   \* AKS_FOUND, AKS_LEFT, AKS_RIGHT

Item == [key : Keys, size : Sizes]
Entry == [key : Keys, kid : NodeNums]

NodeRec ==
  [type : {"term", "int", "free"}, items : Seq(Item \cup Entry),
   left : NodeNums \cup {None}, right : NodeNums \cup {None}, next : NodeNums \cup {None}]

Trees == [node : [NodeNums -> NodeRec], last : NodeNums, free : NodeNums \cup {None}]

VARIABLES
  tree,     \* the subfile: its nodes, its length, the head of its free chain
  scan,     \* the scan position of a session: ak_scan of its file variable
  fresh,    \* ak_scan.upd is the file's ak_upd
  updates,  \* number of updates so far
  want,     \* history: what was written under each key, or None
  cleared,  \* history: the index was cleared since ak_scan.upd was set
  sound     \* history: no step has gone through one of the faults below

vars == <<tree, scan, fresh, updates, want, cleared, sound>>

-----------------------------------------------------------------------------
(* Nodes.                                                                  *)

Term(items, left, right) ==
  [type |-> "term", items |-> items, left |-> left, right |-> right, next |-> None]

Inner(items) ==
  [type |-> "int", items |-> items, left |-> None, right |-> None, next |-> None]

FreeNode(n) ==
  [type |-> "free", items |-> <<>>, left |-> None, right |-> None, next |-> n]

Used(items) == FoldLeft(LAMBDA sum, i : sum + i.size, 0, items)

Put(t, n, node) == [t EXCEPT !.node[n] = node]

(* get_ak_node: the head of the free chain, or a node at the end.           *)
GetNode(t) ==
  IF t.free = None
    THEN [num |-> t.last + 1, tree |-> [t EXCEPT !.last = @ + 1]]
    ELSE [num |-> t.free, tree |-> [t EXCEPT !.free = t.node[t.free].next]]

(* free_ak_node                                                            *)
(* Mutant: the header is not rewritten.                                     *)
GiveNodeLost(t, n) == Put(t, n, FreeNode(t.free))

GiveNode(t, n) == [Put(t, n, FreeNode(t.free)) EXCEPT !.free = n]

EmptyTree ==
  [node |-> [n \in NodeNums |-> IF n = 1 THEN Term(<<>>, None, None) ELSE FreeNode(None)],
   last |-> 1, free |-> None]

(* The first child that may hold key k, or none.                            *)
ChildFor(items, k) ==
  LET at == {c \in 1 .. Len(items) : k <= items[c].key}
  IN IF at = {} THEN None ELSE CHOOSE c \in at : \A d \in at : c <= d

(* The way down to the terminal node for key k, as a write takes it: the    *)
(* internal nodes read, each with the child taken, and the terminal node.   *)
(* A key past the last one goes down the right edge.                        *)
Path(t, k) ==
  LET from[n \in NodeNums] ==
        LET node == t.node[n]
            c == ChildFor(node.items, k)
            ci == IF c = None THEN Len(node.items) ELSE c
            down == from[node.items[ci].kid]
        IN IF node.type = "term"
             THEN [path |-> <<>>, leaf |-> n, beyond |-> FALSE]
             ELSE [path |-> <<[num |-> n, ci |-> ci, items |-> node.items]>> \o down.path,
                   leaf |-> down.leaf, beyond |-> c = None \/ down.beyond]
  IN from[1]

-----------------------------------------------------------------------------
(* update_internal_node: in the last node of the path, put kids (a sequence *)
(* of at most three, empty when a child was deleted) for the child taken.   *)
(* w is the state of the work: the tree, the path with the buffers kept in  *)
(* it, the kids, and whether all went well.  The search of the path for a   *)
(* node that was moved up is left out: no node kept has a single child.     *)
PathNode == [num : NodeNums, ci : Nat, items : Seq(Entry)]

Work == [tree : Trees, path : Seq(PathNode), kids : Seq(Entry), sound : BOOLEAN]

(* First, a node with no room for the kids is split in two halves, and the  *)
(* path goes on in the half that has the child taken.                       *)
Full(w) == Len(Last(w.path).items) + Len(w.kids) - 1 > MaxChild

Keep(np) == Len(np.items) \div 2
Lower(np) == SubSeq(np.items, 1, Keep(np))
Upper(np) == SubSeq(np.items, Keep(np) + 1, Len(np.items))

Halves(np, low, high) ==
  <<[key |-> Last(Lower(np)).key, kid |-> low], [key |-> Last(Upper(np)).key, kid |-> high]>>

(* What the parent is told of it.                                           *)
ToldOfSplit(w, got) ==
  [w EXCEPT !.tree = got.tree, !.path = Front(@),
            !.kids = Halves(Last(w.path), Last(w.path).num, got.num)]

(* A root moves away, and a new root takes its place.  Fault: the position  *)
(* in the new root is raised here and once more in SplitInternal when the   *)
(* child taken is in the right half, so that what follows does not reach    *)
(* the last key of the root.                                                *)
NewRootAt(ci, moved) == IF ci > moved THEN 2 ELSE 1

RootOver(w, np, new, home) ==
  LET root == [num |-> 1, ci |-> NewRootAt(np.ci, Len(np.items) - Keep(np)),
               items |-> Halves(np, home.num, new)]
  IN [tree |-> Put(home.tree, 1, Inner(root.items)), path |-> <<root>>, kids |-> w.kids,
      sound |-> w.sound /\ (np.ci > Len(np.items) - Keep(np) => np.ci # Len(np.items))]

NewRoot(w, got) == RootOver(w, Last(w.path), got.num, GetNode(got.tree))

SplitNode(w, above, np, num, new) ==
  [w EXCEPT
     !.tree = Put(Put(above.tree, num, Inner(Lower(np))), new, Inner(Upper(np))),
     !.path = IF np.ci > Keep(np)
                THEN Front(above.path) \o
                     <<[Last(above.path) EXCEPT !.ci = @ + 1],
                       [num |-> new, ci |-> np.ci - Keep(np), items |-> Upper(np)]>>
                ELSE Append(above.path, [np EXCEPT !.num = num, !.items = Lower(np)]),
     !.sound = above.sound]

SplitInternal(w, above, got) ==
  SplitNode(w, above, Last(w.path),
            IF Len(w.path) = 1 THEN above.path[1].items[1].kid ELSE Last(w.path).num, got.num)

(* Then the kids take the place of the child taken.                         *)
Replaced(np, kids) ==
  SubSeq(SubSeq(np.items, 1, np.ci - 1) \o kids \o SubSeq(np.items, np.ci + 1, Len(np.items)),
         1, Len(np.items) + Len(kids) - 1)

(* A node left with one child takes over what is in the child.  Fault: when *)
(* that is a terminal node, its neighbours stay linked to its old place.    *)
Compressed(t, num, items) ==
  IF Len(items) = 1
    THEN GiveNode(Put(t, num, t.node[items[1].kid]), items[1].kid)
    ELSE Put(t, num, Inner(items))

(* What the parent is told when the last child was replaced: the new last   *)
(* key.  Fault: when the last child was deleted, there is no key to tell    *)
(* and the parent drops the whole node.                                     *)
ParentKids(kids, num) ==
  IF kids = <<>> THEN <<>> ELSE <<[key |-> Last(kids).key, kid |-> num]>>

Place(w, np, items) ==
  [w EXCEPT !.tree = Compressed(@, np.num, items),
            !.path = Append(Front(@), [np EXCEPT !.items = items]),
            !.kids = ParentKids(w.kids, np.num),
            !.sound = @ /\ (Len(w.path) > 1 => Len(items) > 1)]

PlaceKids(w) == Place(w, Last(w.path), Replaced(Last(w.path), w.kids))

(* Mutant: the last child is not taken for the last.                        *)
AtLastOff(np) == np.ci = Len(np.items) + 1

AtLast(np) == np.ci = Len(np.items)

Update[w \in Work] ==
  LET got == GetNode(w.tree)
      above == IF Len(w.path) = 1 THEN NewRoot(w, got) ELSE Update[ToldOfSplit(w, got)]
      x == PlaceKids(IF Full(w) THEN SplitInternal(w, above, got) ELSE w)
      told == Update[[x EXCEPT !.path = Front(@), !.sound = @ /\ w.kids # <<>>]]
  IN IF AtLast(Last(w.path)) /\ Len(x.path) > 1
       THEN [told EXCEPT !.path = Append(@, Last(x.path))] ELSE x

UpdateInternal(w, kids) == Update[[w EXCEPT !.kids = kids]]

-----------------------------------------------------------------------------
(* ak_write                                                                *)

Below(items, k) == SelectSeq(items, LAMBDA i : i.key < k)
Above(items, k) == SelectSeq(items, LAMBDA i : i.key > k)
At(items, k) == SelectSeq(items, LAMBDA i : i.key = k)

(* As much of items as fits in a node after first.                          *)
Fill(first, items) ==
  LET fits == {n \in 0 .. Len(items) : Used(first) + Used(SubSeq(items, 1, n)) <= Cap}
  IN CHOOSE n \in fits : \A m \in fits : m <= n

(* A terminal node with no room: what is before the new record, with it if  *)
(* it fits, what is after it as far as it fits, and what is left over.      *)
Parts(items, new) ==
  LET before == Below(items, new.key)
      after == Above(items, new.key)
      fits == Used(before) + new.size <= Cap
      first == IF fits THEN Append(before, new) ELSE before
      second == IF fits THEN <<>> ELSE <<new>>
      n == Fill(second, after)
      parts == <<first, second \o SubSeq(after, 1, n)>>
  IN IF n < Len(after) THEN Append(parts, SubSeq(after, n + 1, Len(after))) ELSE parts

(* Nodes for n parts, one after the other.                                  *)
Allocate(t, n) ==
  LET next(a) == LET got == GetNode(a.tree)
                 IN [tree |-> got.tree, nums |-> Append(a.nums, got.num)]
  IN FoldLeft(LAMBDA a, p : next(a), [tree |-> t, nums |-> <<>>], [p \in 1 .. n |-> p])

(* The new nodes take the place of the old one between its neighbours.      *)
LinkRight(t, n, to) == IF n = None THEN t ELSE [t EXCEPT !.node[n].right = to]
(* Mutant: the link back is forgotten.                                      *)
LinkLeftForgotten(t, n, to) == t

LinkLeft(t, n, to) == IF n = None THEN t ELSE [t EXCEPT !.node[n].left = to]

NewTerm(node, nums, parts, p) ==
  Term(parts[p], IF p = 1 THEN node.left ELSE nums[p - 1],
                 IF p = Len(nums) THEN node.right ELSE nums[p + 1])

Relink(t, node, nums, parts) ==
  LinkLeft(
    LinkRight(FoldLeft(LAMBDA u, p : Put(u, nums[p], NewTerm(node, nums, parts, p)),
                       t, [p \in 1 .. Len(nums) |-> p]),
              node.left, nums[1]),
    node.right, Last(nums))

LastKeys(parts, nums) == [p \in 1 .. Len(parts) |-> [key |-> Last(parts[p]).key, kid |-> nums[p]]]

(* A root that is split becomes an internal node; another node is freed.    *)
SplitTerm(w, leaf, parts, got) ==
  LET linked == Relink(got.tree, w.tree.node[leaf], got.nums, parts)
      kids == LastKeys(parts, got.nums)
  IN IF w.path = <<>>
       THEN [w EXCEPT !.tree = Put(linked, leaf, Inner(kids))]
       ELSE UpdateInternal([w EXCEPT !.tree = GiveNode(linked, leaf)], kids)

SplitInto(w, leaf, parts) == SplitTerm(w, leaf, parts, Allocate(w.tree, Len(parts)))

Begun(t, at) == [tree |-> t, path |-> at.path, kids |-> <<>>, sound |-> TRUE]

(* A new last record is told to the parents first.                          *)
WriteAt(w, leaf, items, new) ==
  LET isLast == At(items, new.key) = <<>> /\ Above(items, new.key) = <<>>
      told == IF isLast /\ w.path # <<>>
                THEN UpdateInternal(w, <<[key |-> new.key, kid |-> leaf]>>) ELSE w
      grows == new.size - Used(At(items, new.key))
  IN IF grows <= 0 \/ Used(items) + grows <= Cap
       THEN [told EXCEPT !.tree.node[leaf].items =
               Below(items, new.key) \o <<new>> \o Above(items, new.key)]
       ELSE SplitInto(w, leaf, Parts(items, new))

WriteFrom(t, at, new) == WriteAt(Begun(t, at), at.leaf, t.node[at.leaf].items, new)

WriteWork(t, k, s) == WriteFrom(t, Path(t, k), [key |-> k, size |-> s])

(* ak_delete: a terminal node left empty is taken out, unless it is the     *)
(* root.                                                                    *)
Unlink(t, node) ==
  LinkLeft(LinkRight(t, node.left, node.right), node.right, node.left)

DeleteAt(w, leaf, items, k) ==
  LET left == Below(items, k) \o Above(items, k)
      lastGone == Above(items, k) = <<>> /\ w.path # <<>>
      told == IF lastGone
                THEN UpdateInternal(w, <<[key |-> Last(left).key, kid |-> leaf]>>) ELSE w
  IN IF At(items, k) = <<>> THEN w
     ELSE IF lastGone /\ left = <<>>
       THEN UpdateInternal([w EXCEPT !.tree = GiveNode(Unlink(@, w.tree.node[leaf]), leaf)], <<>>)
       ELSE [told EXCEPT !.tree.node[leaf].items = left]

DeleteFrom(t, at, k) ==
  IF at.beyond THEN Begun(t, at)
  ELSE DeleteAt(Begun(t, at), at.leaf, t.node[at.leaf].items, k)

DeleteWork(t, k) == DeleteFrom(t, Path(t, k), k)

-----------------------------------------------------------------------------
(* ak_read: where key k is, or where the search for it ends.                *)
FindAt(node, at, k) ==
  LET off == Len(Below(node.items, k)) + 1
      hit == At(node.items, k) # <<>>
      flags == IF at.beyond THEN {"right"}
               ELSE IF node.items = <<>> THEN {"left", "right"}
               ELSE IF hit THEN {"found"}
               ELSE IF off > Len(node.items) THEN {"right"}
               ELSE IF off = 1 /\ node.left = None THEN {"left"}
               ELSE {}
  IN [node |-> at.leaf, flags |-> flags, got |-> None, off |-> off]

FindFrom(t, at, k) == FindAt(t.node[at.leaf], at, k)
Find(t, k) == FindFrom(t, Path(t, k), k)

SizeFound(t, at) == IF "found" \in at.flags THEN t.node[at.node].items[at.off].size ELSE None
SizeAt(t, k) == SizeFound(t, Find(t, k))

(* akscan: one key to the right or to the left of position p.  got is the   *)
(* key delivered, None when there is none.  A position kept from before     *)
(* the index was cleared can point past the last record of the root; there  *)
(* the node is zeros: the next record is one of length zero.                *)
Phantom == -1   \* delivers a record of the empty key
Hang == -2      \* steps from record to record of length zero for ever

Step(t, p, at, right, edge) ==
  LET node == t.node[at.node]
      to == IF right THEN node.right ELSE node.left
      beside == IF right THEN at.off + 1 ELSE at.off - 1
      none == [got |-> None, node |-> p.node, off |-> p.off, flags |-> edge]
  IN IF node.items = <<>> /\ at.off > 1
       THEN IF right THEN [none EXCEPT !.got = Phantom, !.flags = {"found"}]
                     ELSE [none EXCEPT !.got = Hang]
     ELSE IF beside \in 1 .. Len(node.items)
       THEN [got |-> node.items[beside].key, node |-> at.node, off |-> beside,
             flags |-> {"found"}]
     ELSE IF to = None THEN none
     ELSE LET off == IF right THEN 1 ELSE Len(t.node[to].items)
          IN [got |-> t.node[to].items[off].key, node |-> to, off |-> off,
              flags |-> {"found"}]

Stay(t, at) ==
  LET items == t.node[at.node].items
      off == IF at.off > Len(items) THEN Len(items) ELSE at.off
  IN IF items = <<>> THEN [at EXCEPT !.got = Phantom, !.flags = {"found"}]
     ELSE [got |-> items[off].key, node |-> at.node, off |-> off, flags |-> {"found"}]

Toward(right) == IF right THEN "right" ELSE "left"

(* The cached place is good when nothing was written since it was stamped.  *)
CachedAt(t, p, isFresh) ==
  IF isFresh /\ "found" \in p.flags
    THEN [node |-> p.node, off |-> p.off, flags |-> p.flags, got |-> None]
    ELSE Find(t, p.key)

ScanFrom(t, p, at, right) ==
  LET side == Toward(right)
      onIt == "found" \in at.flags /\ p.flags \cap {"left", "right"} = {}
      beyond == [got |-> None, node |-> p.node, off |-> p.off, flags |-> at.flags \ {"found"}]
  IN IF side \in at.flags THEN beyond
     ELSE IF at.node > t.last THEN [beyond EXCEPT !.flags = p.flags]
     ELSE IF onIt \/ (right /\ "right" \in p.flags) THEN Step(t, p, at, right, {side})
     ELSE IF ~right /\ "right" \notin p.flags THEN Step(t, p, at, right, at.flags \cup {side})
     ELSE Stay(t, at)

Akscan(t, p, isFresh, right) == ScanFrom(t, p, CachedAt(t, p, isFresh), right)

-----------------------------------------------------------------------------
NoScan == [key |-> None, node |-> None, off |-> None, flags |-> {}]

(* The index as it is when the records of a load were written to it.        *)
Loaded(load) ==
  FoldLeft(LAMBDA w, r : LET done == WriteWork(w.tree, r[1], r[2])
                         IN [tree |-> done.tree, sound |-> w.sound /\ done.sound,
                             want |-> [w.want EXCEPT ![r[1]] = r[2]]],
           [tree |-> EmptyTree, sound |-> TRUE, want |-> [k \in Keys |-> None]], load)

Init ==
  /\ \E load \in Loads :
       LET w == Loaded(load)
       IN tree = w.tree /\ sound = w.sound /\ want = w.want
  /\ scan = NoScan
  /\ fresh = FALSE
  /\ updates = 0
  /\ cleared = FALSE

(* A place that is no longer fresh is not looked at again.                  *)
Stale(p) == [p EXCEPT !.node = None, !.off = None]

(* Mutant: ak_upd is left as it is.                                         *)
ChangedUnstamped(w, k, s) ==
  /\ tree' = w.tree
  /\ sound' = (sound /\ w.sound)
  /\ want' = [want EXCEPT ![k] = s]
  /\ updates' = updates + 1
  /\ UNCHANGED <<fresh, cleared, scan>>

Changed(w, k, s) ==
  /\ tree' = w.tree
  /\ sound' = (sound /\ w.sound)
  /\ want' = [want EXCEPT ![k] = s]
  /\ updates' = updates + 1
  /\ fresh' = FALSE
  /\ cleared' = FALSE
  /\ scan' = Stale(scan)

(* AKWRITE                                                                 *)
Write(k, s) ==
  /\ updates < MaxUpdates
  /\ Changed(WriteWork(tree, k, s), k, s)

(* AKDELETE                                                                *)
Delete(k) ==
  /\ updates < MaxUpdates
  /\ Changed(DeleteWork(tree, k), k, None)

(* CLEARFILE, by any session: ak_clear leaves ak_upd as it is.              *)
Clear ==
  /\ updates < MaxUpdates
  /\ updates' = updates + 1
  /\ tree' = EmptyTree
  /\ want' = [k \in Keys |-> None]
  /\ cleared' = fresh
  /\ UNCHANGED <<scan, fresh, sound>>

(* SELECTINDEX with a value.                                                *)
SelectIndex(k) ==
  LET at == Find(tree, k)
  IN /\ scan' = [key |-> k, node |-> at.node, off |-> at.off, flags |-> at.flags]
     /\ fresh' = TRUE
     /\ cleared' = FALSE
     /\ UNCHANGED <<tree, updates, want, sound>>

(* SETLEFT, SETRIGHT: the first or the last key.                            *)
EdgeNode(t, right) ==
  LET from[n \in NodeNums] ==
        IF t.node[n].type = "term" THEN n
        ELSE from[(IF right THEN Last(t.node[n].items) ELSE t.node[n].items[1]).kid]
  IN from[1]

SetEdge(right) ==
  LET n == EdgeNode(tree, right)
      items == tree.node[n].items
      off == IF right THEN Len(items) ELSE 1
  IN /\ IF items = <<>>
          THEN /\ scan' = [scan EXCEPT !.key = None, !.flags = {"left", "right"}]
               /\ UNCHANGED <<fresh, cleared>>
          ELSE /\ scan' = [key |-> items[off].key, node |-> n, off |-> off,
                           flags |-> {Toward(right)}]
               /\ fresh' = TRUE
               /\ cleared' = FALSE
     /\ UNCHANGED <<tree, updates, want, sound>>

(* SELECTRIGHT, SELECTLEFT.  One that does not come back takes no step.     *)
Select(right) ==
  LET to == Akscan(tree, scan, fresh, right)
      next == [key |-> IF to.got \in Keys THEN to.got ELSE IF to.got = Phantom THEN None ELSE scan.key,
               node |-> to.node, off |-> to.off, flags |-> to.flags]
  IN /\ to.got # Hang
     /\ scan' = IF fresh THEN next ELSE Stale(next)
     /\ UNCHANGED <<tree, fresh, updates, want, cleared, sound>>

Next ==
  \/ \E k \in Keys, s \in Sizes : Write(k, s)
  \/ \E k \in Keys : Delete(k)
  \/ Clear
  \/ \E k \in Keys : SelectIndex(k)
  \/ \E right \in BOOLEAN : SetEdge(right)
  \/ \E right \in BOOLEAN : Select(right)

Spec == Init /\ [][Next]_vars

-----------------------------------------------------------------------------
(* Properties.                                                             *)

Kids(t, n) == [c \in 1 .. Len(t.node[n].items) |-> t.node[n].items[c].kid]

NodesUnder[n \in NodeNums] ==
  <<n>> \o IF tree.node[n].type = "int"
            THEN FlattenSeq([c \in DOMAIN tree.node[n].items |-> NodesUnder[Kids(tree, n)[c]]])
            ELSE <<>>

FreeFrom[n \in NodeNums \cup {None}] ==
  IF n = None THEN <<>> ELSE <<n>> \o FreeFrom[tree.node[n].next]

TypeOK ==
  /\ tree \in Trees
  /\ \A n \in NodeNums :
       LET node == tree.node[n]
       IN /\ node.type = "term" => node.items \in Seq(Item) /\ Used(node.items) <= Cap
          /\ node.type = "int" => node.items \in Seq(Entry) /\ Len(node.items) <= MaxChild
  /\ scan \in [key : Keys \cup {None}, node : NodeNums \cup {None}, off : Nat,
               flags : SUBSET Flags]
  /\ fresh \in BOOLEAN /\ cleared \in BOOLEAN /\ sound \in BOOLEAN
  /\ want \in [Keys -> Sizes \cup {None}]

(* A read finds, under each key, what was last written there, and nothing   *)
(* under a key that was deleted, whatever splits and merges went on.        *)
Found == \A k \in Keys : SizeAt(tree, k) = want[k]
KeysFound == sound => Found

(* The terminal nodes, in the order of the tree, are linked to and fro from *)
(* one to the next, so that a scan meets every key (dh_ak.c:1289).          *)
LeavesLinked ==
  sound =>
    LET leaves == SelectSeq(NodesUnder[1], LAMBDA n : tree.node[n].type = "term")
    IN \A l \in 1 .. Len(leaves) :
         /\ tree.node[leaves[l]].left = (IF l = 1 THEN None ELSE leaves[l - 1])
         /\ tree.node[leaves[l]].right = (IF l = Len(leaves) THEN None ELSE leaves[l + 1])

(* Every node of the subfile is either in the tree, once, or on the free    *)
(* chain, once: none is lost, none is in use twice, none is overfull.       *)
NodesAccounted ==
  /\ TypeOK
  /\ sound =>
       LET all == NodesUnder[1] \o FreeFrom[tree.free]
       IN IsInjective(all) /\ Len(all) = tree.last

(* SELECTRIGHT and SELECTLEFT from a key that was delivered deliver the     *)
(* next key that way, if there is one, whatever other sessions wrote and    *)
(* deleted since, that key and the node it was in included.  From a place   *)
(* between keys or past an end they do as long as nothing was written.      *)
InIndex == {k \in Keys : want[k] # None}
Beyond(p, right) ==
  {k \in InIndex :
     CASE "right" \in p.flags -> ~right
       [] "left" \in p.flags  -> right
       [] OTHER               -> IF right THEN k > p.key ELSE k < p.key}
Nearest(ks, right) ==
  IF ks = {} THEN None
  ELSE CHOOSE k \in ks : \A j \in ks : IF right THEN k <= j ELSE k >= j
ScanMovesOne ==
  sound /\ ~cleared /\ (scan.flags = {"found"} \/ fresh) =>
    \A right \in BOOLEAN :
      Akscan(tree, scan, fresh, right).got = Nearest(Beyond(scan, right), right)
=============================================================================
