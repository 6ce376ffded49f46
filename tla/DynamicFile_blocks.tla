------------------------ MODULE DynamicFile_blocks ------------------------
(* The blocks of DynamicFile: which records and which overflow blocks there *)
(* are, and where, while sessions rewrite, split and merge groups.          *)
EXTENDS DynamicFile_proofs

-----------------------------------------------------------------------------
(* The blocks of a big record are written.                                  *)

(* A step that leaves u with n, its m-th block of the record r, as the last. *)
BigStep(u, h, k, T, r, n, m) ==
  /\ Goes(u, BigDone(r, n, m)) /\ r \in Rec /\ r.big # None /\ m \in Nat /\ n \in Over
  /\ k.view \in [Place -> Block] /\ k.at = h.at /\ k.kept = h.kept
  /\ Chained(k.ptr, k.own, fileEnd') /\ k.ptr[FreePos] = freeChain' /\ k.ptr[BigPos(u)] = r.big
  /\ \A x \in Pos : x \notin {BigPos(u), FreePos} /\ (\A q \in T : x # NextPos(q)) => k.ptr[x] = h.ptr[x]
  /\ T \subseteq Place /\ Overflow(n) \in T
  /\ \A q \in Place : q \notin T => k.view[q] = h.view[q] /\ k.own[q] = h.own[q] /\ block'[q] = block[q]
  /\ k.view[Overflow(r.big)].part = [val |-> r.val, nth |-> 1]
  /\ k.own[Overflow(n)] = Overflow(r.big) /\ k.view[Overflow(n)] = BigPart(r.val, m)
  /\ \A q \in T :
       /\ h.own[q] = 0 \/ (h.ptr[BigPos(u)] # None /\ h.own[q] = Overflow(h.ptr[BigPos(u)]))
       /\ h.view[q].part \in {NoPart, k.view[q].part}
       /\ \A i \in Ids : h.kept[i] # {} => h.at[i] # q
       /\ k.ptr[NextPos(q)] = k.view[q].next /\ k.view[q].recs = <<>> /\ block'[q] = k.view[q]
       /\ q \notin Groups /\ OverflowNo(q) <= fileEnd' /\ k.own[q] = Overflow(r.big) /\ k.view[q].part.val \in Vals
       /\ q = Overflow(n)
          \/ /\ k.view[q].next # None
             /\ k.view[Overflow(k.view[q].next)].part = [val |-> k.view[q].part.val, nth |-> k.view[q].part.nth + 1]
  /\ proc[u].at = "big" => Overflow(proc[u].last) \in T

LEMMA BigStepHeap ==
  ASSUME HashInv, NEW u \in Users, NEW h, Heap(h), WriteBig(u) \/ MoreBig(u), fileEnd <= fileEnd',
         NEW k, NEW T, NEW r, NEW n, NEW m, BigStep(u, h, k, T, r, n, m)
  PROVE  Heap(k)'
<1>1. /\ Orderly(u) /\ proc[u].at \in {"idle", "big"} /\ UNCHANGED <<modulus, modValue, glock>>
  BY StepOrderly DEF Steps, WriteBig, MoreBig, header
<1>2. /\ proc'[u] = BigDone(r, n, m) /\ proc'[u].at \in {"big", "write"} /\ proc'[u].rec = r
      /\ (proc'[u].at = "big" => proc'[u].last = n /\ proc'[u].nth = m)
      /\ (m # BigBlocks[r.val] => proc'[u].at = "big")
      /\ \A v \in Users : v # u => proc'[v] = proc[v]
  <2>1. Goes(u, BigDone(r, n, m))
    BY DEF BigStep
  <2>2. proc'[u] = BigDone(r, n, m) /\ \A v \in Users : v # u => proc'[v] = proc[v]
    BY <2>1 DEF Goes, HashInv
  <2>3. QED
    BY <2>2 DEF BigDone
<1>3. (\A i \in Ids : Home(i)' = Home(i)) /\ \A g : AbsentGroup(g)' <=> AbsentGroup(g)
  <2>1. PICK e : e = BigDone(r, n, m)
    OBVIOUS
  <2>2. e.at # "source" /\ proc' = [proc EXCEPT ![u] = e]
    BY <1>2, <2>1 DEF BigStep, Goes
  <2>3. \A i \in Ids : Home(i)' = Home(i)
    BY <1>1, <2>2, HomesSame DEF HashInv
  <2>4. \A v \in Users : (proc'[v].at = "source" <=> proc[v].at = "source") /\ (v # u => proc'[v] = proc[v])
    BY <1>1, <1>2
  <2>5. QED
    BY <1>1, <2>3, <2>4 DEF AbsentGroup
<1>4. /\ SrcOf(proc[u]) = None /\ RestOf(proc[u]) = None /\ TodoOf(proc[u]) = <<>> /\ InHand(proc[u]) = {}
      /\ RecsIn(TodoOf(proc[u])) = {}
      /\ SrcOf(proc'[u]) = None /\ RestOf(proc'[u]) = None /\ TodoOf(proc'[u]) = <<>> /\ BigOf(proc'[u]) = r.big
  BY <1>1, <1>2, NoRecs DEF SrcOf, RestOf, TodoOf, BigOf, InHand, Given, Buffered
<1>5. \A x \in Pos : x \notin {BigPos(u), FreePos} /\ (\A q \in Place : x # NextPos(q)) => k.ptr[x] = h.ptr[x]
  BY DEF BigStep
<1>6. LeftPlaces(u, T, h, k)
  <2>1. ASSUME NEW q \in Place, q \notin T
        PROVE  k.view[q] = h.view[q] /\ k.own[q] = h.own[q] /\ k.ptr[NextPos(q)] = h.ptr[NextPos(q)] /\ block'[q] = block[q]
    <3>1. NextPos(q) \in Pos /\ NextPos(q) # BigPos(u) /\ NextPos(q) # FreePos /\ \A p \in T : NextPos(q) # NextPos(p)
      BY <2>1, PosDiffer, PosIn
    <3>2. QED
      BY <2>1, <3>1 DEF BigStep
  <2>2. \A q \in T : Touchable(u, q, h) /\ PartsLeft(u, q, T, h, k)
    BY DEF BigStep, Touchable, PartsLeft
  <2>3. proc[u].at = "big" => Overflow(proc[u].last) \in T
    BY DEF BigStep
  <2>4. T \subseteq Place
    BY DEF BigStep
  <2>5. QED
    BY <1>3, <1>4, <2>1, <2>2, <2>3, <2>4 DEF LeftPlaces
<1>7. LeftIds(u, T, {}, h, k)
  <2>1. \A i \in Ids : k.kept[i] = h.kept[i] /\ k.at[i] = h.at[i] /\ (h.kept[i] # {} => h.at[i] \notin T)
    BY DEF BigStep
  <2>2. \A i \in Ids : k.ptr[RecPos(i)] = h.ptr[RecPos(i)]
    BY <1>5, PosDiffer, PosIn
  <2>3. QED
    BY <1>3, <1>4, <2>1, <2>2 DEF LeftIds
<1>8. LeftOthers(u, h, k) /\ k.ptr[SrcPos(u)] = h.ptr[SrcPos(u)] /\ k.ptr[RestPos(u)] = h.ptr[RestPos(u)]
  <2>1. \A v \in Users : k.ptr[SrcPos(v)] = h.ptr[SrcPos(v)] /\ k.ptr[RestPos(v)] = h.ptr[RestPos(v)]
    BY <1>5, PosDiffer, PosIn
  <2>2. \A v \in Users : v # u => k.ptr[BigPos(v)] = h.ptr[BigPos(v)]
    BY <1>5, PosDiffer, PosIn
  <2>3. QED
    BY <2>1, <2>2 DEF LeftOthers
<1>9. ASSUME NEW q \in T
      PROVE  PlaceOK(q, k)'
  <2>1. /\ k.ptr[NextPos(q)] = k.view[q].next /\ k.view[q].recs = <<>> /\ block'[q] = k.view[q]
        /\ q \notin Groups /\ ~(OverflowNo(q) > fileEnd')
    <3>1. k.ptr[NextPos(q)] = k.view[q].next /\ k.view[q].recs = <<>> /\ block'[q] = k.view[q] /\ q \notin Groups
      BY DEF BigStep
    <3>2. OverflowNo(q) <= fileEnd' /\ q \in Place
      BY DEF BigStep
    <3>3. fileEnd' \in Int /\ OverflowNo(q) \in Int
      BY <3>1, <3>2, Places, PtrIs, FileConstants DEF BigStep, Over
    <3>4. QED
      BY <3>1, <3>2, <3>3
  <2>2. PartOK(q, k)'
    <3>0. r.big \in Over /\ k.own[q] = Overflow(r.big)
      BY DEF BigStep, Rec
    <3>1. k.own[q] \in {Overflow(o) : o \in Over} /\ k.view[q].part.val \in Vals
      <4>1. k.view[q].part.val \in Vals
        BY DEF BigStep
      <4>2. QED
        BY <3>0, <4>1
    <3>2. CASE q = Overflow(n)
      <4>1. k.view[q].part = [val |-> r.val, nth |-> m] /\ k.view[q].next = None
        BY <3>2 DEF BigStep, BigPart
      <4>2. m # BigBlocks[r.val] => Writing(q)'
        BY <1>2, <3>2 DEF Writing
      <4>3. QED
        BY <3>1, <4>1, <4>2 DEF PartOK
    <3>3. CASE q # Overflow(n)
      <4>1. /\ k.view[q].next # None
            /\ k.view[Overflow(k.view[q].next)].part = [val |-> k.view[q].part.val, nth |-> k.view[q].part.nth + 1]
        BY <3>3 DEF BigStep
      <4>2. QED
        BY <3>1, <4>1 DEF PartOK
    <3>4. QED
      BY <3>2, <3>3
  <2>3. QED
    BY <2>1, <2>2, NoRecs DEF PlaceOK
<1>10. HeldOK(u, k)'
  <2>1. h.ptr[SrcPos(u)] = None /\ h.ptr[RestPos(u)] = None
    BY <1>4 DEF Heap, HeldOK
  <2>2. k.ptr[SrcPos(u)] = None /\ k.ptr[RestPos(u)] = None
    BY <1>8, <2>1
  <2>3. r \in Rec /\ r.big # None /\ k.view[Overflow(r.big)].part = [val |-> r.val, nth |-> 1] /\ k.ptr[BigPos(u)] = r.big
    BY DEF BigStep
  <2>4. /\ n \in Over /\ m \in Nat /\ k.own[Overflow(n)] = Overflow(r.big) /\ k.view[Overflow(n)] = BigPart(r.val, m)
    BY DEF BigStep
  <2>5. proc'[u].at # "rewrite"
    BY <1>2
  <2>6. QED
    BY <1>2, <1>4, <2>2, <2>3, <2>4, <2>5, NoRecs DEF HeldOK
<1>11. QED
  <2>1. k.view \in [Place -> Block] /\ k.at \in [Ids -> Nat] /\ k.kept \in [Ids -> SUBSET Rec]
    BY DEF BigStep, Heap
  <2>2. Chained(k.ptr, k.own, fileEnd') /\ k.ptr[FreePos] = freeChain'
    BY DEF BigStep
  <2>3. QED
    BY <1>1, <1>6, <1>7, <1>8, <1>9, <1>10, <2>1, <2>2, HeapStep


LEMMA WriteBigHeap ==
  ASSUME HashInv, NEW u \in Users, NEW h, Heap(h), block \in [Place -> Block], WriteBig(u)
  PROVE  \E k : Heap(k)' /\ k.kept = h.kept
<1>1. PICK i \in Ids, v \in Vals :
        /\ BigBlocks[v] > 0 /\ block' = [block EXCEPT ![Overflow(NewBlock)] = BigPart(v, 1)]
        /\ Goes(u, BigDone([id |-> i, val |-> v, big |-> NewBlock], NewBlock, 1))
  BY DEF WriteBig
<1>2. GetOverflow /\ proc[u].at = "idle"
  BY DEF WriteBig
<1>3. PICK n, p, r : n = NewBlock /\ p = Overflow(n) /\ r = [id |-> i, val |-> v, big |-> n]
  OBVIOUS
<1>4. /\ n \in Over /\ p \in Place /\ p \notin Groups /\ OverflowNo(p) = n
      /\ n <= fileEnd' /\ fileEnd <= fileEnd'
      /\ h.own[p] = 0 /\ h.view[p].part = NoPart
      /\ \A j \in Ids : h.kept[j] # {} => h.at[j] # p
  BY <1>2, <1>3, NewBlockIs
<1>5. /\ h.view \in [Place -> Block] /\ h.own \in [Place -> Int] /\ h.ptr[BigPos(u)] = None
  BY <1>2, PtrIs DEF Heap, HeldOK, BigOf
<1>6. /\ r \in Rec /\ r.big = n /\ r.val = v /\ r.big # None /\ BigPart(v, 1) \in Block
      /\ BigPart(v, 1).recs = <<>> /\ BigPart(v, 1).next = None /\ BigPart(v, 1).part = [val |-> v, nth |-> 1]
  BY <1>3, <1>4, Places DEF Rec, BigPart, Block, Part
<1>7. PICK k : k = [view |-> [h.view EXCEPT ![p] = BigPart(v, 1)],
                    ptr |-> IF freeChain # None THEN Turned(h.ptr, FreePos, NextPos(p), BigPos(u))
                            ELSE [h.ptr EXCEPT ![BigPos(u)] = n],
                    own |-> [h.own EXCEPT ![p] = p], kept |-> h.kept, at |-> h.at]
  OBVIOUS
<1>8. /\ k.view = [h.view EXCEPT ![p] = BigPart(v, 1)]
      /\ k.ptr = (IF freeChain # None THEN Turned(h.ptr, FreePos, NextPos(p), BigPos(u))
                  ELSE [h.ptr EXCEPT ![BigPos(u)] = n])
      /\ k.own = [h.own EXCEPT ![p] = p] /\ k.kept = h.kept /\ k.at = h.at
  BY <1>7
<1>9. /\ k.view \in [Place -> Block] /\ k.view[p] = BigPart(v, 1) /\ k.own[p] = p
      /\ \A q \in Place : q # p => k.view[q] = h.view[q] /\ k.own[q] = h.own[q] /\ block'[q] = block[q]
      /\ block'[p] = BigPart(v, 1)
  BY <1>1, <1>3, <1>4, <1>5, <1>6, <1>8
<1>10. Taking(h, BigPos(u), n, p, p, k.ptr, k.own)
  <2>1. PICK w : w = k.own
    OBVIOUS
  <2>2. Law(BigPos(u), n, w) <=> w[Overflow(n)] = Overflow(n)
    BY Laws
  <2>3. Law(BigPos(u), n, k.own)
    BY <1>3, <1>9, <2>1, <2>2
  <2>4. BigPos(u) \in Pos /\ BigPos(u) # NextPos(p) /\ BigPos(u) # FreePos
    BY PosDiffer, PosIn
  <2>5. p \in Int
    BY <1>3, <1>4, Owners
  <2>6. QED
    BY <1>2, <1>3, <1>5, <1>8, <2>3, <2>4, <2>5 DEF Taking
<1>11. /\ Chained(k.ptr, k.own, fileEnd') /\ k.ptr[BigPos(u)] = n /\ k.ptr[NextPos(p)] = None
       /\ k.ptr[FreePos] = freeChain'
       /\ \A y \in Pos : y \notin {BigPos(u), NextPos(p), FreePos} => k.ptr[y] = h.ptr[y]
  <2>1. Chained(k.ptr, k.own, fileEnd') /\ k.ptr[BigPos(u)] = n /\ k.ptr[NextPos(p)] = None
    BY <1>10, TakeBlock
  <2>2. k.ptr[FreePos] = freeChain'
    BY <1>10, TakeBlock
  <2>3. \A y \in Pos : y \notin {BigPos(u), NextPos(p), FreePos} => k.ptr[y] = h.ptr[y]
    BY <1>10, TakeBlock
  <2>4. QED
    BY <2>1, <2>2, <2>3
<1>12. BigStep(u, h, k, {p}, r, n, 1)
  <2>1. /\ Goes(u, BigDone(r, n, 1)) /\ r \in Rec /\ r.big # None /\ 1 \in Nat /\ n \in Over
        /\ k.view \in [Place -> Block] /\ k.at = h.at /\ k.kept = h.kept
        /\ Chained(k.ptr, k.own, fileEnd') /\ k.ptr[FreePos] = freeChain' /\ k.ptr[BigPos(u)] = r.big
    BY <1>1, <1>3, <1>4, <1>6, <1>8, <1>9, <1>11
  <2>2. \A x \in Pos : x \notin {BigPos(u), FreePos} /\ (\A q \in {p} : x # NextPos(q)) => k.ptr[x] = h.ptr[x]
    BY <1>11
  <2>3. /\ k.view[Overflow(r.big)].part = [val |-> r.val, nth |-> 1]
        /\ k.own[Overflow(n)] = Overflow(r.big) /\ k.view[Overflow(n)] = BigPart(r.val, 1)
    BY <1>3, <1>6, <1>9
  <2>4. /\ h.own[p] = 0 /\ h.view[p].part = NoPart
        /\ (\A j \in Ids : h.kept[j] # {} => h.at[j] # p)
        /\ k.ptr[NextPos(p)] = k.view[p].next /\ k.view[p].recs = <<>> /\ block'[p] = k.view[p]
        /\ p \notin Groups /\ OverflowNo(p) <= fileEnd' /\ k.own[p] = Overflow(r.big) /\ k.view[p].part.val \in Vals
        /\ p = Overflow(n)
    BY <1>3, <1>4, <1>6, <1>9, <1>11
  <2>5. QED
    BY <1>2, <1>4, <1>9, <2>1, <2>2, <2>3, <2>4 DEF BigStep
<1>13. Heap(k)'
  BY <1>4, <1>12, BigStepHeap
<1>14. QED
  BY <1>8, <1>13

LEMMA MoreBigHeap ==
  ASSUME HashInv, NEW u \in Users, NEW h, Heap(h), block \in [Place -> Block], MoreBig(u)
  PROVE  \E k : Heap(k)' /\ k.kept = h.kept
<1>1. GetOverflow /\ proc[u].at = "big"
  BY DEF MoreBig
<1>2. PICK n, p, r, m, o, l : /\ n = NewBlock /\ p = Overflow(n) /\ r = proc[u].rec /\ m = proc[u].nth
                              /\ o = r.big /\ l = Overflow(proc[u].last)
  OBVIOUS
<1>3. /\ r \in Rec /\ r.big # None /\ o \in Over /\ m \in Nat /\ proc[u].last \in Over /\ l \in Place
      /\ h.own[l] = Overflow(o) /\ h.view[l] = BigPart(r.val, m) /\ h.ptr[BigPos(u)] = o
      /\ h.view[Overflow(o)].part = [val |-> r.val, nth |-> 1] /\ r.val \in Vals
  <2>1. HeldOK(u, h)
    BY DEF Heap
  <2>2. r \in Rec /\ r.big # None /\ m \in Nat /\ proc[u].last \in Over
    BY <1>1, <1>2, <2>1 DEF HeldOK
  <2>3. h.own[l] = Overflow(o) /\ h.view[l] = BigPart(r.val, m) /\ h.view[Overflow(o)].part = [val |-> r.val, nth |-> 1]
    BY <1>1, <1>2, <2>1 DEF HeldOK
  <2>4. h.ptr[BigPos(u)] = o
    BY <1>1, <1>2, <2>1 DEF HeldOK, BigOf
  <2>5. QED
    BY <1>2, <2>2, <2>3, <2>4, Places DEF Rec
<1>4. /\ n \in Over /\ p \in Place /\ p \notin Groups /\ OverflowNo(p) = n
      /\ n <= fileEnd' /\ fileEnd <= fileEnd' /\ fileEnd \in Int /\ fileEnd' \in Int
      /\ h.own[p] = 0 /\ h.view[p].part = NoPart
      /\ \A j \in Ids : h.kept[j] # {} => h.at[j] # p
  <2>1. n \in Over /\ p \in Place /\ p \notin Groups /\ OverflowNo(p) = n
    BY <1>1, <1>2, NewBlockIs
  <2>2. n <= fileEnd' /\ fileEnd <= fileEnd' /\ fileEnd \in Int /\ fileEnd' \in Int
    BY <1>1, <1>2, NewBlockIs
  <2>3. h.own[p] = 0 /\ h.view[p].part = NoPart /\ \A j \in Ids : h.kept[j] # {} => h.at[j] # p
    BY <1>1, <1>2, NewBlockIs
  <2>4. QED
    BY <2>1, <2>2, <2>3
<1>5. h.view \in [Place -> Block] /\ h.own \in [Place -> Int]
  BY PtrIs DEF Heap
<1>6. p # l /\ l \notin Groups /\ p # Overflow(o) /\ Overflow(o) \in Place /\ OverflowNo(l) = proc[u].last
  BY <1>2, <1>3, <1>4, <1>5, OwnIs, PosIn, Places, Owners DEF Heap
<1>7. /\ h.ptr[NextPos(l)] = None /\ h.view[l].recs = <<>> /\ h.view[l].next = None
      /\ h.view[l].part = [val |-> r.val, nth |-> m] /\ OverflowNo(l) <= fileEnd /\ block[l] = h.view[l]
  <2>1. h.view[l].recs = <<>> /\ h.view[l].next = None /\ h.view[l].part = [val |-> r.val, nth |-> m]
    BY <1>3 DEF BigPart
  <2>2. PlaceOK(l, h)
    BY <1>3 DEF Heap
  <2>3. h.ptr[NextPos(l)] = None
    BY <2>1, <2>2 DEF PlaceOK
  <2>4. OverflowNo(l) <= fileEnd
    <3>1. OverflowNo(l) \in Int
      BY <1>3, <1>6, FileConstants DEF Over
    <3>2. ~(OverflowNo(l) > fileEnd)
      BY <1>3, <1>6, <2>2, Owners DEF PlaceOK
    <3>3. QED
      BY <1>4, <3>1, <3>2
  <2>5. block[l] = h.view[l]
    <3>1. BigPos(u) \in Pos /\ \A v \in Users : BigPos(u) # SrcPos(v)
      BY PosDiffer, PosIn
    <3>2. QED
      BY <1>3, <3>1, OnDiskBig, Places
  <2>6. QED
    BY <2>1, <2>3, <2>4, <2>5
<1>8. \A j \in Ids : h.kept[j] # {} => h.at[j] # l
  <2>1. ASSUME NEW j \in Ids, h.kept[j] # {}, h.at[j] = l
        PROVE  FALSE
    <3>1. l # 0
      BY <1>3, FileConstants DEF Place
    <3>2. h.kept[j] \subseteq RecsIn(h.view[l].recs)
      BY <2>1, <3>1 DEF Heap, IdOK, InPlace
    <3>3. QED
      BY <1>7, <2>1, <3>2, NoRecs
  <2>2. QED
    BY <2>1
<1>9. PICK b, c : b = [h.view[l] EXCEPT !.next = n] /\ c = BigPart(r.val, m + 1)
  OBVIOUS
<1>10. /\ b \in Block /\ b.next = n /\ b.recs = <<>> /\ b.part = [val |-> r.val, nth |-> m]
       /\ c \in Block /\ c.next = None /\ c.recs = <<>> /\ c.part = [val |-> r.val, nth |-> m + 1]
  <2>1. /\ b = [recs |-> <<>>, next |-> n, part |-> [val |-> r.val, nth |-> m]]
        /\ c = [recs |-> <<>>, next |-> None, part |-> [val |-> r.val, nth |-> m + 1]]
    BY <1>3, <1>9 DEF BigPart
  <2>2. [val |-> r.val, nth |-> m] \in Part /\ [val |-> r.val, nth |-> m + 1] \in Part
    BY <1>3 DEF Part
  <2>3. QED
    BY <1>4, <2>1, <2>2, NoRecs DEF Block
<1>11. PICK k : k = [view |-> [h.view EXCEPT ![l] = b, ![p] = c],
                     ptr |-> IF freeChain # None THEN Turned(h.ptr, FreePos, NextPos(p), NextPos(l))
                             ELSE [h.ptr EXCEPT ![NextPos(l)] = n],
                     own |-> [h.own EXCEPT ![p] = Overflow(o)], kept |-> h.kept, at |-> h.at]
  OBVIOUS
<1>12. /\ k.view = [h.view EXCEPT ![l] = b, ![p] = c]
       /\ k.ptr = (IF freeChain # None THEN Turned(h.ptr, FreePos, NextPos(p), NextPos(l))
                   ELSE [h.ptr EXCEPT ![NextPos(l)] = n])
       /\ k.own = [h.own EXCEPT ![p] = Overflow(o)] /\ k.kept = h.kept /\ k.at = h.at
  BY <1>11
<1>13. /\ k.view \in [Place -> Block] /\ k.view[p] = c /\ k.view[l] = b /\ k.own[p] = Overflow(o) /\ k.own[l] = Overflow(o)
       /\ \A q \in Place : q \notin {l, p} => k.view[q] = h.view[q] /\ k.own[q] = h.own[q]
  BY <1>3, <1>4, <1>5, <1>6, <1>10, <1>12
<1>14. /\ block'[p] = c /\ block'[l] = b /\ \A q \in Place : q \notin {l, p} => block'[q] = block[q]
  <2>1. block' = [block EXCEPT ![l].next = n, ![p] = c]
    BY <1>2, <1>9 DEF MoreBig
  <2>2. QED
    BY <1>3, <1>4, <1>6, <1>7, <1>9, <2>1
<1>15. Taking(h, NextPos(l), n, Overflow(o), p, k.ptr, k.own)
  <2>1. PICK w : w = k.own
    OBVIOUS
  <2>2. Law(NextPos(l), n, w) <=> w[Overflow(n)] = w[l]
    BY <1>3, Laws
  <2>3. Law(NextPos(l), n, k.own)
    BY <1>2, <1>13, <2>1, <2>2
  <2>4. NextPos(l) \in Pos /\ NextPos(l) # NextPos(p) /\ NextPos(l) # FreePos
    BY <1>3, <1>6, PosDiffer, PosIn
  <2>5. Overflow(o) \in Int
    BY <1>3, Owners
  <2>6. QED
    BY <1>1, <1>2, <1>7, <1>12, <2>3, <2>4, <2>5 DEF Taking
<1>16. /\ Chained(k.ptr, k.own, fileEnd') /\ k.ptr[NextPos(l)] = n /\ k.ptr[NextPos(p)] = None
       /\ k.ptr[FreePos] = freeChain'
       /\ \A y \in Pos : y \notin {NextPos(l), NextPos(p), FreePos} => k.ptr[y] = h.ptr[y]
  <2>1. Chained(k.ptr, k.own, fileEnd') /\ k.ptr[NextPos(l)] = n /\ k.ptr[NextPos(p)] = None
    BY <1>15, TakeBlock
  <2>2. k.ptr[FreePos] = freeChain'
    BY <1>15, TakeBlock
  <2>3. \A y \in Pos : y \notin {NextPos(l), NextPos(p), FreePos} => k.ptr[y] = h.ptr[y]
    BY <1>15, TakeBlock
  <2>4. QED
    BY <2>1, <2>2, <2>3
<1>17. BigStep(u, h, k, {l, p}, r, n, m + 1)
  <2>0. k.ptr[BigPos(u)] = r.big
    <3>1. BigPos(u) \in Pos /\ BigPos(u) \notin {NextPos(l), NextPos(p), FreePos}
      BY PosDiffer, PosIn
    <3>2. QED
      BY <1>2, <1>3, <1>16, <3>1
  <2>1. /\ Goes(u, BigDone(r, n, m + 1)) /\ r \in Rec /\ r.big # None /\ m + 1 \in Nat /\ n \in Over
        /\ k.view \in [Place -> Block] /\ k.at = h.at /\ k.kept = h.kept
        /\ Chained(k.ptr, k.own, fileEnd') /\ k.ptr[FreePos] = freeChain' /\ k.ptr[BigPos(u)] = r.big
    BY <1>2, <1>3, <1>4, <1>12, <1>13, <1>16, <2>0 DEF MoreBig
  <2>2. \A x \in Pos : x \notin {BigPos(u), FreePos} /\ (\A q \in {l, p} : x # NextPos(q)) => k.ptr[x] = h.ptr[x]
    BY <1>16
  <2>3. /\ k.view[Overflow(r.big)].part = [val |-> r.val, nth |-> 1]
        /\ k.own[Overflow(n)] = Overflow(r.big) /\ k.view[Overflow(n)] = BigPart(r.val, m + 1)
    <3>1. k.view[Overflow(o)].part = [val |-> r.val, nth |-> 1]
      BY <1>3, <1>6, <1>7, <1>10, <1>13
    <3>2. QED
      BY <1>2, <1>9, <1>13, <3>1
  <2>4. /\ h.own[p] = 0 /\ h.view[p].part = NoPart
        /\ (\A j \in Ids : h.kept[j] # {} => h.at[j] # p)
        /\ k.ptr[NextPos(p)] = k.view[p].next /\ k.view[p].recs = <<>> /\ block'[p] = k.view[p]
        /\ p \notin Groups /\ OverflowNo(p) <= fileEnd' /\ k.own[p] = Overflow(r.big) /\ k.view[p].part.val \in Vals
        /\ p = Overflow(n)
    BY <1>2, <1>3, <1>4, <1>10, <1>13, <1>14, <1>16
  <2>5. /\ h.ptr[BigPos(u)] # None /\ h.own[l] = Overflow(h.ptr[BigPos(u)]) /\ h.view[l].part = k.view[l].part
        /\ (\A j \in Ids : h.kept[j] # {} => h.at[j] # l)
        /\ k.ptr[NextPos(l)] = k.view[l].next /\ k.view[l].recs = <<>> /\ block'[l] = k.view[l]
        /\ l \notin Groups /\ k.own[l] = Overflow(r.big) /\ k.view[l].part.val \in Vals
        /\ k.view[l].next # None
        /\ k.view[Overflow(k.view[l].next)].part = [val |-> k.view[l].part.val, nth |-> k.view[l].part.nth + 1]
    <3>1. /\ h.ptr[BigPos(u)] # None /\ h.own[l] = Overflow(h.ptr[BigPos(u)]) /\ h.view[l].part = k.view[l].part
      BY <1>2, <1>3, <1>7, <1>10, <1>13
    <3>2. k.view[l].next = n /\ n # None
      BY <1>4, <1>10, <1>13, Places
    <3>3. k.view[l].part.val = r.val /\ k.view[l].part.nth = m /\ k.view[Overflow(n)].part = [val |-> r.val, nth |-> m + 1]
      BY <1>2, <1>10, <1>13
    <3>4. QED
      BY <1>2, <1>3, <1>6, <1>8, <1>10, <1>13, <1>14, <1>16, <3>1, <3>2, <3>3
  <2>6. OverflowNo(l) <= fileEnd'
    <3>1. OverflowNo(l) \in Int
      BY <1>3, <1>6, FileConstants DEF Over
    <3>2. QED
      BY <1>4, <1>7, <3>1
  <2>7. \A q \in Place : q \notin {l, p} => k.view[q] = h.view[q] /\ k.own[q] = h.own[q] /\ block'[q] = block[q]
    BY <1>13, <1>14
  <2>8. {l, p} \subseteq Place /\ Overflow(n) \in {l, p} /\ (proc[u].at = "big" => Overflow(proc[u].last) \in {l, p})
    BY <1>2, <1>3, <1>4
  <2>9. \A q \in {l, p} :
          /\ h.own[q] = 0 \/ (h.ptr[BigPos(u)] # None /\ h.own[q] = Overflow(h.ptr[BigPos(u)]))
          /\ h.view[q].part \in {NoPart, k.view[q].part}
          /\ \A i \in Ids : h.kept[i] # {} => h.at[i] # q
          /\ k.ptr[NextPos(q)] = k.view[q].next /\ k.view[q].recs = <<>> /\ block'[q] = k.view[q]
          /\ q \notin Groups /\ OverflowNo(q) <= fileEnd' /\ k.own[q] = Overflow(r.big) /\ k.view[q].part.val \in Vals
          /\ q = Overflow(n)
             \/ /\ k.view[q].next # None
                /\ k.view[Overflow(k.view[q].next)].part = [val |-> k.view[q].part.val, nth |-> k.view[q].part.nth + 1]
    BY <2>4, <2>5, <2>6
  <2>10. QED
    BY <2>1, <2>2, <2>3, <2>7, <2>8, <2>9 DEF BigStep
<1>18. Heap(k)'
  BY <1>4, <1>17, BigStepHeap
<1>19. QED
  BY <1>12, <1>18

-----------------------------------------------------------------------------
(* The blocks of a big record are freed.                                    *)

LEMMA StepKeeps ==
  ASSUME HashInv, NEW u \in Users, NEW e, Goes(u, e), UNCHANGED <<modulus, modValue>>,
         proc[u].at # "source", e.at # "source"
  PROVE  /\ proc'[u] = e /\ \A v \in Users : v # u => proc'[v] = proc[v]
         /\ \A i \in Ids : Home(i)' = Home(i)
         /\ \A g : AbsentGroup(g)' <=> AbsentGroup(g)
<1>1. proc'[u] = e /\ \A v \in Users : v # u => proc'[v] = proc[v]
  BY DEF Goes, HashInv
<1>2. \A i \in Ids : Home(i)' = Home(i)
  BY HomesSame DEF HashInv, Goes
<1>3. \A v \in Users : (proc'[v].at = "source" <=> proc[v].at = "source") /\ (v # u => proc'[v] = proc[v])
  BY <1>1
<1>4. QED
  BY <1>1, <1>2, <1>3 DEF AbsentGroup

LEMMA FreeBigHeap ==
  ASSUME HashInv, NEW u \in Users, NEW h, Heap(h), block \in [Place -> Block], FreeBig(u)
  PROVE  \E k : Heap(k)' /\ k.kept = h.kept
<1>1. PICK e : e = [proc[u] EXCEPT !.at = "account"]
  OBVIOUS
<1>2. /\ Orderly(u) /\ proc[u].at = "tidy" /\ Goes(u, e) /\ UNCHANGED <<modulus, modValue, glock, fileEnd>>
  BY <1>1, StepOrderly DEF Steps, FreeBig, header
<1>3. e.at = "account"
  <2>1. Tidying(proc[u])
    BY <1>2 DEF HashInv, SessionOK, Shape
  <2>2. QED
    BY <1>1, <2>1 DEF Tidying
<1>4. /\ proc'[u] = e /\ (\A v \in Users : v # u => proc'[v] = proc[v])
      /\ (\A i \in Ids : Home(i)' = Home(i))
      /\ \A g : AbsentGroup(g)' <=> AbsentGroup(g)
  BY <1>2, <1>3, StepKeeps
<1>5. /\ SrcOf(proc[u]) = None /\ RestOf(proc[u]) = None /\ TodoOf(proc[u]) = <<>> /\ InHand(proc[u]) = {}
      /\ Buffered(proc[u]) = {} /\ RecsIn(TodoOf(proc[u])) = {}
      /\ SrcOf(proc'[u]) = None /\ RestOf(proc'[u]) = None /\ TodoOf(proc'[u]) = <<>> /\ BigOf(proc'[u]) = None
      /\ BigOf(proc[u]) = proc[u].big
  BY <1>2, <1>3, <1>4, NoRecs DEF SrcOf, RestOf, TodoOf, BigOf, InHand, Given, Buffered
<1>6. CASE proc[u].big = None
  <2>1. UNCHANGED file
    BY <1>2, <1>6 DEF FreeBig, file
  <2>2. Heap(h)'
    BY <1>2, <1>3, <1>4, <1>5, <1>6, <2>1, HeapSame
  <2>3. QED
    BY <2>2
<1>7. CASE proc[u].big # None
  <2>1. PICK o, b, os : o = proc[u].big /\ b = block /\ os = ChainFrom(b, o)
    OBVIOUS
  <2>2. PICK T : T = {Overflow(os[j]) : j \in 1 .. Len(os)}
    OBVIOUS
  <2>3. /\ (\A p \in Place : block'[p] = IF p \notin T THEN block[p]
                                         ELSE [Empty EXCEPT !.next = IF block[p].next = None THEN freeChain
                                                                     ELSE block[p].next])
        /\ freeChain' = o
    BY <1>7, <2>1, <2>2 DEF FreeBig
  <2>4. h.ptr[BigPos(u)] = o /\ o \in Over /\ h.own[Overflow(o)] = Overflow(o) /\ o <= fileEnd /\ BigPos(u) \in Pos
        /\ h.ptr[FreePos] = freeChain /\ Chained(h.ptr, h.own, fileEnd)
    <3>1. h.ptr[BigPos(u)] = o /\ Chained(h.ptr, h.own, fileEnd) /\ BigPos(u) \in Pos /\ h.ptr[FreePos] = freeChain
      BY <1>5, <2>1, PosIn DEF Heap, HeldOK
    <3>2. QED
      BY <1>7, <2>1, <3>1, PtrIs, OwnIs
  <2>5. \A p \in Place : h.own[p] = Overflow(o) => block[p] = h.view[p]
    <3>1. \A v \in Users : BigPos(u) # SrcPos(v)
      BY PosDiffer
    <3>2. h.ptr[BigPos(u)] # None
      BY <1>7, <2>1, <2>4
    <3>3. QED
      BY <2>4, <3>1, <3>2, OnDiskBig
  <2>6. /\ Followed(h.ptr, h.own, fileEnd, Overflow(o), os)
        /\ (\A n \in Over : n <= fileEnd /\ h.own[Overflow(n)] = Overflow(o) => n \in Elems(os))
        /\ os # <<>> /\ os[1] = o
    <3>1. OnlyHead(Overflow(o), BigPos(u), h)
      BY <1>7, <2>1, <2>4, OwnHead
    <3>2. \A p \in Place : h.own[p] = Overflow(o) => b[p].next = h.view[p].next
      BY <2>1, <2>5
    <3>3. PICK x : x = BigPos(u)
      OBVIOUS
    <3>4. x \in Pos /\ OnlyHead(Overflow(o), x, h) /\ h.ptr[x] = o
      BY <2>4, <3>1, <3>3
    <3>5. os = ChainFrom(b, h.ptr[x])
      BY <2>1, <3>4
    <3>6. /\ Followed(h.ptr, h.own, fileEnd, Overflow(o), ChainFrom(b, h.ptr[x]))
          /\ \A n \in Over : n <= fileEnd /\ h.own[Overflow(n)] = Overflow(o) => n \in Elems(ChainFrom(b, h.ptr[x]))
      BY <2>1, <2>4, <3>2, <3>4, WholeChain
    <3>7. ChainFrom(b, h.ptr[x]) # <<>> /\ ChainFrom(b, h.ptr[x])[1] = h.ptr[x]
      BY <1>7, <2>1, <2>4, <3>2, <3>4, WholeChain
    <3>8. QED
      BY <3>4, <3>5, <3>6, <3>7
  <2>7. /\ T \subseteq Place /\ (\A p \in Place : p \in T <=> h.own[p] = Overflow(o))
        /\ \A p \in T : p \notin Groups
    <3>1. \A j \in 1 .. Len(os) : os[j] \in Over /\ h.own[Overflow(os[j])] = Overflow(o)
      BY <2>6 DEF Followed
    <3>2. \A p \in T : p \in Place /\ p \notin Groups /\ h.own[p] = Overflow(o)
      BY <2>2, <3>1, Places
    <3>3. ASSUME NEW p \in Place, h.own[p] = Overflow(o)
          PROVE  p \in T
      <4>1. p \notin Groups
        BY <2>4, <3>3, PtrIs, Places, Owners
      <4>2. OverflowNo(p) \in Over /\ Overflow(OverflowNo(p)) = p
        BY <4>1, Places
      <4>3. ~(OverflowNo(p) > fileEnd)
        BY <2>4, <3>3, <4>1, Owners DEF Heap, PlaceOK
      <4>4. OverflowNo(p) <= fileEnd
        BY <2>4, <4>2, <4>3, PtrIs, FileConstants DEF Over
      <4>5. OverflowNo(p) \in Elems(os)
        BY <2>6, <3>3, <4>2, <4>4
      <4>6. QED
        BY <2>2, <4>2, <4>5 DEF Elems
    <3>4. QED
      BY <3>2, <3>3
  <2>8. PICK l : /\ l \in Over /\ h.own[Overflow(l)] = Overflow(o) /\ h.ptr[NextPos(Overflow(l))] = None
                 /\ \A p \in T : h.ptr[NextPos(p)] = None => p = Overflow(l)
    <3>1. PICK n \in Nat : n = Len(os)
      BY <2>6 DEF Followed
    <3>2. n \in 1 .. n
      BY <2>6, <3>1 DEF Followed
    <3>3. \A j \in 1 .. n : /\ os[j] \in Over /\ h.own[Overflow(os[j])] = Overflow(o)
                            /\ h.ptr[NextPos(Overflow(os[j]))] = IF j = n THEN None ELSE os[j + 1]
      BY <2>6, <3>1 DEF Followed
    <3>4. \A j \in 1 .. n : h.ptr[NextPos(Overflow(os[j]))] = None => j = n
      BY <3>1, <3>3, Places
    <3>5. WITNESS os[n]
    <3>6. QED
      BY <2>2, <3>1, <3>2, <3>3, <3>4
  <2>9. PICK q : q = Overflow(l)
    OBVIOUS
  <2>10. /\ q \in T /\ NextPos(q) \in Pos /\ FreePos \in Pos /\ NextPos(q) # FreePos /\ BigPos(u) # NextPos(q)
         /\ BigPos(u) # FreePos /\ h.ptr[NextPos(q)] = None
    BY <2>7, <2>8, <2>9, Places, PosIn, PosDiffer
  <2>11. PICK k : k = [view |-> [p \in Place |-> IF p \in T THEN block'[p] ELSE h.view[p]],
                       ptr |-> Turned(h.ptr, BigPos(u), NextPos(q), FreePos),
                       own |-> FreedOwn(h.own, o), kept |-> h.kept, at |-> h.at]
    OBVIOUS
  <2>12. /\ k.view = [p \in Place |-> IF p \in T THEN block'[p] ELSE h.view[p]]
         /\ k.ptr = Turned(h.ptr, BigPos(u), NextPos(q), FreePos)
         /\ k.own = FreedOwn(h.own, o) /\ k.kept = h.kept /\ k.at = h.at
    BY <2>11
  <2>13. Chained(k.ptr, k.own, fileEnd')
    BY <1>2, <2>4, <2>8, <2>9, <2>12, Splice
  <2>14. /\ k.ptr[BigPos(u)] = None /\ k.ptr[NextPos(q)] = freeChain /\ k.ptr[FreePos] = freeChain'
         /\ \A x \in Pos : x \notin {BigPos(u), NextPos(q), FreePos} => k.ptr[x] = h.ptr[x]
    <3>1. \A x \in Pos : k.ptr[x] = IF x = BigPos(u) THEN h.ptr[NextPos(q)] ELSE IF x = NextPos(q) THEN h.ptr[FreePos]
                                    ELSE IF x = FreePos THEN h.ptr[BigPos(u)] ELSE h.ptr[x]
      BY <2>4, <2>10, <2>12, PtrIs, TurnedIs
    <3>2. QED
      BY <2>3, <2>4, <2>10, <3>1
  <2>15. /\ \A p \in Place : p \notin T => k.view[p] = h.view[p] /\ k.own[p] = h.own[p] /\ block'[p] = block[p]
         /\ \A p \in T : k.own[p] = 0 /\ k.view[p] = block'[p]
    BY <2>3, <2>7, <2>12 DEF FreedOwn
  <2>16. \A p \in T : block'[p] = [Empty EXCEPT !.next = IF h.view[p].next = None THEN freeChain ELSE h.view[p].next]
    BY <2>3, <2>5, <2>7
  <2>17. freeChain \in Over \cup {None}
    BY <2>4, PosIn, PtrIs
  <2>18. \A p \in T : /\ k.view[p] \in Block /\ k.view[p].recs = <<>> /\ k.view[p].part = NoPart
                      /\ k.view[p].next = IF h.view[p].next = None THEN freeChain ELSE h.view[p].next
    <3>1. \A n \in Over \cup {None} : [Empty EXCEPT !.next = n] = [recs |-> <<>>, next |-> n, part |-> NoPart]
      BY DEF Empty
    <3>2. \A n \in Over \cup {None} : [recs |-> <<>>, next |-> n, part |-> NoPart] \in Block
      BY NoRecs DEF Block, NoPart, Part
    <3>3. \A p \in T : (IF h.view[p].next = None THEN freeChain ELSE h.view[p].next) \in Over \cup {None}
      BY <2>7, <2>17, BlockType DEF Heap
    <3>4. ASSUME NEW p \in T
          PROVE  /\ k.view[p] \in Block /\ k.view[p].recs = <<>> /\ k.view[p].part = NoPart
                 /\ k.view[p].next = IF h.view[p].next = None THEN freeChain ELSE h.view[p].next
      <4>1. PICK n \in Over \cup {None} : n = IF h.view[p].next = None THEN freeChain ELSE h.view[p].next
        BY <3>3
      <4>2. k.view[p] = [Empty EXCEPT !.next = n]
        BY <2>15, <2>16, <4>1
      <4>3. k.view[p] = [recs |-> <<>>, next |-> n, part |-> NoPart] /\ k.view[p] \in Block
        BY <3>1, <3>2, <4>2
      <4>4. QED
        BY <4>1, <4>3
    <3>5. QED
      BY <3>4
  <2>19. k.view \in [Place -> Block]
    BY ZenonT(40), <2>12, <2>15, <2>18 DEF Heap
  <2>20. \A i \in Ids : h.kept[i] # {} => h.at[i] \notin T
    <3>1. ASSUME NEW i \in Ids, h.kept[i] # {}, h.at[i] \in T
          PROVE  FALSE
      <4>0. \A p \in Place : p # 0
        BY FileConstants DEF Place
      <4>1. h.own[h.at[i]] = Overflow(o) /\ h.at[i] # 0
        <5>1. PICK p \in T : p = h.at[i]
          BY <3>1
        <5>2. p \in Place /\ h.own[p] = Overflow(o)
          BY <2>7
        <5>3. QED
          BY <4>0, <5>1, <5>2
      <4>2. h.own[h.at[i]] \in {Home(i), Moving}
        BY <3>1, <4>1 DEF Heap, IdOK, InPlace
      <4>3. QED
        BY <2>4, <4>1, <4>2, HomePresent, Owners
    <3>2. QED
      BY <3>1
  <2>21. LeftPlaces(u, T, h, k)
    <3>1. ASSUME NEW p \in Place, p \notin T
          PROVE  k.ptr[NextPos(p)] = h.ptr[NextPos(p)]
      <4>1. NextPos(p) \in Pos /\ NextPos(p) \notin {BigPos(u), NextPos(q), FreePos}
        BY <2>10, <3>1, PosDiffer, PosIn
      <4>2. QED
        BY <2>14, <4>1
    <3>2. \A p \in T : Touchable(u, p, h) /\ PartsLeft(u, p, T, h, k)
      <4>1. h.ptr[BigPos(u)] # None /\ h.ptr[BigPos(u)] = o
        BY <1>7, <2>1, <2>4
      <4>2. QED
        BY <2>7, <4>1 DEF Touchable, PartsLeft
    <3>3. proc[u].at # "big"
      BY <1>2
    <3>4. QED
      BY <1>4, <1>5, <2>7, <2>15, <3>1, <3>2, <3>3 DEF LeftPlaces
  <2>22. LeftIds(u, T, {}, h, k)
    <3>1. \A i \in Ids : k.ptr[RecPos(i)] = h.ptr[RecPos(i)]
      BY <2>14, PosDiffer, PosIn
    <3>2. QED
      BY <1>4, <1>5, <2>12, <2>20, <3>1 DEF LeftIds
  <2>23. LeftOthers(u, h, k) /\ k.ptr[SrcPos(u)] = h.ptr[SrcPos(u)] /\ k.ptr[RestPos(u)] = h.ptr[RestPos(u)]
    <3>1. \A v \in Users : k.ptr[SrcPos(v)] = h.ptr[SrcPos(v)] /\ k.ptr[RestPos(v)] = h.ptr[RestPos(v)]
      BY <2>14, PosDiffer, PosIn
    <3>2. \A v \in Users : v # u => k.ptr[BigPos(v)] = h.ptr[BigPos(v)]
      BY <2>14, PosDiffer, PosIn
    <3>3. QED
      BY <3>1, <3>2 DEF LeftOthers
  <2>24. ASSUME NEW p \in T
         PROVE  PlaceOK(p, k)'
    <3>1. PlaceOK(p, h) /\ p \in Place /\ h.ptr[NextPos(p)] = h.view[p].next
      BY <2>7 DEF Heap, PlaceOK
    <3>2. k.ptr[NextPos(p)] = k.view[p].next
      <4>1. CASE p = q
        BY <2>10, <2>14, <2>18, <3>1, <4>1
      <4>2. CASE p # q
        <5>1. NextPos(p) \in Pos /\ NextPos(p) \notin {BigPos(u), NextPos(q), FreePos}
          BY <3>1, <4>2, PosDiffer, PosIn
        <5>2. h.view[p].next # None
          BY <2>8, <2>9, <3>1, <4>2
        <5>3. QED
          BY <2>14, <2>18, <3>1, <5>1, <5>2
      <4>3. QED
        BY <4>1, <4>2
    <3>3. ~(OverflowNo(p) > fileEnd') /\ p \notin Groups
      <4>1. h.own[p] # 0
        BY <2>4, <2>7, Owners
      <4>2. QED
        BY <1>2, <2>7, <3>1, <4>1 DEF PlaceOK
    <3>4. PartOK(p, k)'
      BY <2>18 DEF PartOK
    <3>5. QED
      BY <2>15, <2>18, <3>2, <3>3, <3>4, NoRecs DEF PlaceOK
  <2>25. HeldOK(u, k)'
    <3>1. h.ptr[SrcPos(u)] = None /\ h.ptr[RestPos(u)] = None
      BY <1>5 DEF Heap, HeldOK
    <3>2. proc'[u].at = "account"
      BY <1>3, <1>4
    <3>3. QED
      BY <1>5, <2>14, <2>23, <3>1, <3>2, NoRecs DEF HeldOK
  <2>26. Heap(k)'
    <3>1. k.at \in [Ids -> Nat] /\ k.kept \in [Ids -> SUBSET Rec]
      BY <2>12 DEF Heap
    <3>2. fileEnd <= fileEnd'
      BY <1>2, <2>4, PtrIs
    <3>3. QED
      BY <1>2, <2>13, <2>14, <2>19, <2>21, <2>22, <2>23, <2>24, <2>25, <3>1, <3>2, HeapStep
  <2>27. QED
    BY <2>12, <2>26
<1>8. QED
  BY <1>6, <1>7

-----------------------------------------------------------------------------
(* What a group that nobody is writing holds.                               *)

LEMMA AtHome ==
  ASSUME HashInv, NEW h, Heap(h), NEW i \in Ids, NEW g \in Groups, Home(i) = g, ~WriteLocked(g), h.kept[i] # {}
  PROVE  /\ h.at[i] \in Place /\ h.own[h.at[i]] = g /\ h.kept[i] \subseteq RecsIn(h.view[h.at[i]].recs)
         /\ \E r \in Rec : r.id = i /\ h.kept[i] = {r}
<1>1. ASSUME NEW v \in Users, proc[v].at = "rewrite"
      PROVE  i \notin DOMAIN proc[v].was
  BY <1>1 DEF HashInv, HomeOK, WriteLocked
<1>2. PICK r \in Rec : r.id = i /\ h.kept[i] = {r}
  BY DEF Heap, IdOK
<1>3. h.at[i] # 0
  <2>1. ASSUME NEW v \in Users, r \in RecsIn(TodoOf(proc[v]))
        PROVE  FALSE
    <3>1. proc[v].at = "rewrite"
      BY <2>1, NoRecs DEF TodoOf
    <3>2. r.id \in DOMAIN proc[v].was
      BY <2>1 DEF Heap, HeldOK
    <3>3. QED
      BY <1>1, <1>2, <3>1, <3>2
  <2>2. QED
    BY <1>2, <2>1 DEF Heap, IdOK
<1>4. InPlace(i, h)
  BY <1>3 DEF Heap, IdOK
<1>5. \A v \in Users : RestOf(proc[v]) # None => i \notin DOMAIN proc[v].was
  BY <1>1 DEF RestOf
<1>6. QED
  BY <1>2, <1>4, <1>5 DEF InPlace

LEMMA GroupFollowed ==
  ASSUME NEW h, Heap(h), block \in [Place -> Block], NEW g \in Groups, ~WriteLocked(g),
         NEW os, os = ChainFrom(block, block[Primary(g)].next)
  PROVE  /\ Followed(h.ptr, h.own, fileEnd, g, os)
         /\ \A o \in Over : o <= fileEnd /\ h.own[Overflow(o)] = g => o \in Elems(os)
         /\ \A p \in Place : h.own[p] = g => block[p] = h.view[p]
         /\ h.own[g] = g /\ g \in Place /\ Primary(g) = g /\ h.ptr[NextPos(g)] = block[g].next
         /\ IF block[g].next = None THEN os = <<>> ELSE os # <<>> /\ os[1] = block[g].next
<1>1. /\ (\A p \in Place : h.own[p] = g => block[p] = h.view[p]) /\ h.own[Primary(g)] = g
      /\ Primary(g) \in Place /\ Primary(g) = g /\ NextPos(g) \in Pos /\ Chained(h.ptr, h.own, fileEnd)
      /\ h.ptr[NextPos(g)] = block[g].next
  <2>1. /\ (\A p \in Place : h.own[p] = g => block[p] = h.view[p]) /\ h.own[Primary(g)] = g
        /\ Primary(g) \in Place /\ Primary(g) = g /\ NextPos(g) \in Pos /\ Chained(h.ptr, h.own, fileEnd)
    BY OnDiskGroup, Places, PosIn, PtrIs DEF Heap
  <2>2. h.ptr[NextPos(g)] = h.view[g].next
    BY <2>1 DEF Heap, PlaceOK
  <2>3. QED
    BY <2>1, <2>2
<1>2. OnlyHead(g, NextPos(g), h) /\ (h.ptr[NextPos(g)] # None => h.own[Overflow(h.ptr[NextPos(g)])] = g)
  BY <1>1, GroupHead, OwnIs
<1>3. \A p \in Place : h.own[p] = g => block[p].next = h.view[p].next
  BY <1>1
<1>4. PICK x, b : x = NextPos(g) /\ b = block
  OBVIOUS
<1>5. os = ChainFrom(b, h.ptr[x])
  BY <1>1, <1>4
<1>6. x \in Pos /\ OnlyHead(g, x, h) /\ (h.ptr[x] # None => h.own[Overflow(h.ptr[x])] = g)
      /\ b \in [Place -> Block] /\ \A p \in Place : h.own[p] = g => b[p].next = h.view[p].next
  BY <1>1, <1>2, <1>3, <1>4
<1>7. /\ Followed(h.ptr, h.own, fileEnd, g, os)
      /\ \A o \in Over : o <= fileEnd /\ h.own[Overflow(o)] = g => o \in Elems(os)
  BY <1>5, <1>6, WholeChain
<1>8. IF h.ptr[x] = None THEN os = <<>> ELSE os # <<>> /\ os[1] = h.ptr[x]
  BY <1>5, <1>6, WholeChain
<1>9. QED
  BY <1>1, <1>4, <1>7, <1>8

LEMMA GroupHolds ==
  ASSUME NEW h, Heap(h), block \in [Place -> Block], NEW g \in Groups, ~WriteLocked(g)
  PROVE  \A p \in Place : p \in PlacesOf(block, g) <=> h.own[p] = g
<1>1. PICK os : os = ChainFrom(block, block[Primary(g)].next)
  OBVIOUS
<1>2. Primary(g) = g /\ h.own[g] = g /\ Chained(h.ptr, h.own, fileEnd)
  BY Places, PtrIs DEF Heap
<1>6. /\ Followed(h.ptr, h.own, fileEnd, g, os)
      /\ \A o \in Over : o <= fileEnd /\ h.own[Overflow(o)] = g => o \in Elems(os)
  BY <1>1, GroupFollowed
<1>7. PlacesOf(block, g) = {g} \cup {Overflow(o) : o \in Elems(os)}
  BY <1>1, <1>2 DEF PlacesOf
<1>8. ASSUME NEW p \in Place, p \in PlacesOf(block, g)
      PROVE  h.own[p] = g
  BY <1>2, <1>6, <1>7, <1>8 DEF Followed, Elems
<1>9. ASSUME NEW p \in Place, h.own[p] = g
      PROVE  p \in PlacesOf(block, g)
  <2>1. CASE p \in Groups
    BY <1>2, <1>7, <1>9, <2>1, PtrIs, Places
  <2>2. CASE p \notin Groups
    <3>1. OverflowNo(p) \in Over /\ Overflow(OverflowNo(p)) = p
      BY <2>2, Places
    <3>2. ~(OverflowNo(p) > fileEnd)
      BY <1>9, <2>2, Owners DEF Heap, PlaceOK
    <3>3. OverflowNo(p) <= fileEnd
      BY <1>2, <3>1, <3>2, PtrIs, FileConstants DEF Over
    <3>4. QED
      BY <1>6, <1>7, <1>9, <3>1, <3>3
  <2>3. QED
    BY <2>1, <2>2
<1>10. QED
  BY <1>8, <1>9

(* The same, as a sequence of places.                                       *)
Strung(h, g, c, n) ==
  /\ n \in Nat \ {0} /\ c[1] = g
  /\ \A j \in 1 .. n : c[j] \in Place /\ h.own[c[j]] = g /\ block[c[j]] = h.view[c[j]]
  /\ \A j \in 1 .. n : j # 1 => c[j] \notin Groups
  /\ \A j \in 1 .. n : block[c[j]].next = IF j = n THEN None ELSE OverflowNo(c[j + 1])
  /\ \A p \in Place : h.own[p] = g => \E j \in 1 .. n : c[j] = p
  /\ \A j \in 1 .. n, k \in 1 .. n : c[j] = c[k] => j = k

LEMMA ChainPlaces ==
  ASSUME NEW h, Heap(h), block \in [Place -> Block], NEW g \in Groups, ~WriteLocked(g),
         NEW c, c = GroupChain(g), NEW n, n = Len(c)
  PROVE  Strung(h, g, c, n)
<1>1. PICK os : os = ChainFrom(block, block[Primary(g)].next)
  OBVIOUS
<1>2. /\ Followed(h.ptr, h.own, fileEnd, g, os)
      /\ (\A o \in Over : o <= fileEnd /\ h.own[Overflow(o)] = g => o \in Elems(os))
      /\ (\A p \in Place : h.own[p] = g => block[p] = h.view[p])
      /\ h.own[g] = g /\ g \in Place /\ Primary(g) = g /\ h.ptr[NextPos(g)] = block[g].next
  BY <1>1, GroupFollowed
<1>3. IF block[g].next = None THEN os = <<>> ELSE os # <<>> /\ os[1] = block[g].next
  BY <1>1, GroupFollowed
<1>4. PICK m \in Nat : m = Len(os) /\ \A j \in 1 .. m : os[j] \in Over
  BY <1>2 DEF Followed
<1>5. c = <<g>> \o [j \in 1 .. m |-> Overflow(os[j])]
  BY <1>1, <1>2, <1>4 DEF GroupChain
<1>6. /\ n = m + 1 /\ c[1] = g
      /\ (\A j \in 1 .. m : c[j + 1] = Overflow(os[j]))
      /\ \A j \in 1 .. n : j = 1 \/ (j - 1 \in 1 .. m /\ c[j] = Overflow(os[j - 1]))
  <2>1. PICK w : w = [j \in 1 .. m |-> Overflow(os[j])]
    OBVIOUS
  <2>2. w \in Seq(Place) /\ Len(w) = m /\ \A j \in 1 .. m : w[j] = Overflow(os[j])
    BY <1>4, <2>1, Places
  <2>3. n = m + 1 /\ c[1] = g /\ \A j \in 1 .. m : c[j + 1] = w[j]
    BY <1>2, <1>4, <1>5, <2>1, <2>2
  <2>4. \A j \in 1 .. n : j = 1 \/ (j - 1 \in 1 .. m /\ c[j] = w[j - 1])
    BY <1>4, <2>3
  <2>5. QED
    BY <2>2, <2>3, <2>4
<1>7. n \in Nat \ {0} /\ c[1] = g
  BY <1>4, <1>6
<1>8. \A j \in 1 .. m : h.own[Overflow(os[j])] = g /\ Overflow(os[j]) \in Place /\ Overflow(os[j]) \notin Groups
  BY <1>2, <1>4, Places DEF Followed
<1>9. \A j \in 1 .. n : c[j] \in Place /\ h.own[c[j]] = g /\ block[c[j]] = h.view[c[j]]
  BY <1>2, <1>6, <1>8
<1>10. \A j \in 1 .. n : j # 1 => c[j] \notin Groups
  BY <1>6, <1>8
<1>11. ASSUME NEW j \in 1 .. n
       PROVE  block[c[j]].next = IF j = n THEN None ELSE OverflowNo(c[j + 1])
  <2>1. CASE j = 1
    <3>1. block[c[j]].next = block[g].next
      BY <1>6, <2>1
    <3>2. CASE n = 1
      <4>1. os = <<>>
        BY <1>2, <1>4, <1>6, <3>2 DEF Followed
      <4>2. QED
        BY <1>3, <2>1, <3>1, <3>2, <4>1
    <3>3. CASE n # 1
      <4>1. 1 \in 1 .. m /\ os # <<>>
        BY <1>4, <1>6, <3>3
      <4>2. c[j + 1] = Overflow(os[1]) /\ os[1] \in Over /\ block[g].next = os[1]
        BY <1>3, <1>4, <1>6, <2>1, <4>1
      <4>3. QED
        BY <2>1, <3>1, <3>3, <4>2, Places
    <3>4. QED
      BY <3>2, <3>3
  <2>2. CASE j # 1
    <3>1. PICK i \in 1 .. m : i = j - 1 /\ c[j] = Overflow(os[i])
      BY <1>6, <2>2
    <3>2. h.ptr[NextPos(c[j])] = (IF i = m THEN None ELSE os[i + 1]) /\ h.ptr[NextPos(c[j])] = h.view[c[j]].next
      BY <1>2, <1>4, <1>9, <3>1 DEF Followed, Heap, PlaceOK
    <3>3. block[c[j]].next = IF i = m THEN None ELSE os[i + 1]
      BY <1>9, <3>2
    <3>4. CASE i = m
      BY <1>4, <1>6, <3>1, <3>3, <3>4
    <3>5. CASE i # m
      <4>1. i + 1 \in 1 .. m /\ j # n /\ j + 1 = i + 2
        BY <1>4, <1>6, <3>1, <3>5
      <4>2. c[(i + 1) + 1] = Overflow(os[i + 1]) /\ os[i + 1] \in Over
        BY <1>4, <1>6, <4>1
      <4>3. (i + 1) + 1 = j + 1
        BY <3>1
      <4>4. QED
        BY <3>3, <3>5, <4>1, <4>2, <4>3, Places
    <3>6. QED
      BY <3>4, <3>5
  <2>3. QED
    BY <2>1, <2>2
<1>12. ASSUME NEW p \in Place, h.own[p] = g
       PROVE  \E j \in 1 .. n : c[j] = p
  <2>1. p \in PlacesOf(block, g)
    BY <1>12, GroupHolds
  <2>2. CASE p = g
    BY <1>7, <2>2
  <2>3. CASE p # g
    <3>1. PICK j \in 1 .. m : p = Overflow(os[j])
      BY <1>1, <1>2, <1>4, <2>1, <2>3 DEF PlacesOf, Elems
    <3>2. QED
      BY <1>4, <1>6, <3>1
  <2>4. QED
    BY <2>2, <2>3
<1>13. ASSUME NEW j \in 1 .. n, NEW k \in 1 .. n, c[j] = c[k]
       PROVE  j = k
  <2>1. CASE j = 1
    BY <1>6, <1>7, <1>10, <1>13, <2>1
  <2>2. CASE k = 1
    BY <1>6, <1>7, <1>10, <1>13, <2>2
  <2>3. CASE j # 1 /\ k # 1
    <3>1. j - 1 \in 1 .. m /\ k - 1 \in 1 .. m /\ Overflow(os[j - 1]) = Overflow(os[k - 1])
      BY <1>6, <1>13, <2>3
    <3>2. os[j - 1] = os[k - 1]
      BY <1>4, <3>1, Places
    <3>3. j - 1 = k - 1
      <4>1. IsInjective(os) /\ DOMAIN os = 1 .. m
        BY <1>2, <1>4 DEF Followed
      <4>2. QED
        BY <3>1, <3>2, <4>1 DEF IsInjective
    <3>4. QED
      BY <1>4, <1>6, <3>3
  <2>4. QED
    BY <2>1, <2>2, <2>3
<1>14. QED
  BY <1>7, <1>9, <1>10, <1>11, <1>12, <1>13 DEF Strung

LEMMA FoundKept ==
  ASSUME HashInv, NEW h, Heap(h), block \in [Place -> Block], NEW g \in Groups, ~WriteLocked(g),
         NEW i \in Ids, Home(i) = g
  PROVE  Found(block, g, i) = h.kept[i]
<1>1. PICK b, S : b = block /\ S = RecsIn(GroupRecs(b, g))
  OBVIOUS
<1>2. /\ Chained(h.ptr, h.own, fileEnd) /\ Sane(b, g, h.ptr, h.own, h.at, h.kept) /\ b \in [Place -> Block]
      /\ \A p \in Place : h.own[p] = g => b[p] = h.view[p]
  BY <1>1, OnDiskGroup DEF Heap
<1>3. S = UNION {RecsIn(b[p].recs) : p \in PlacesOf(b, g)}
  BY <1>1, <1>2, GroupIs
<1>4. \A r \in S : h.kept[r.id] = {r}
  <2>1. \A r \in RecsIn(GroupRecs(b, g)) : h.kept[r.id] = {r} /\ h.own[h.at[r.id]] = g /\ h.at[r.id] \in Place
    <3>1. PICK ptr, own, at, kept, end : ptr = h.ptr /\ own = h.own /\ at = h.at /\ kept = h.kept /\ end = fileEnd
      OBVIOUS
    <3>2. Chained(ptr, own, end) /\ Sane(b, g, ptr, own, at, kept)
      BY <1>2, <3>1
    <3>3. \A r \in RecsIn(GroupRecs(b, g)) : kept[r.id] = {r} /\ own[at[r.id]] = g /\ at[r.id] \in Place
      BY <1>2, <3>2, GroupIs
    <3>4. QED
      BY <3>1, <3>3
  <2>2. QED
    BY <1>1, <2>1
<1>5. Found(b, g, i) = {r \in S : r.id = i}
  BY <1>1, <1>2, GroupIs
<1>6. \A r \in S : r.id = i => h.kept[i] = {r}
  BY <1>4
<1>7. ASSUME h.kept[i] # {}
      PROVE  \E r \in S : r.id = i /\ h.kept[i] = {r}
  <2>1. PICK r \in Rec : r.id = i /\ h.kept[i] = {r}
    BY <1>7, AtHome
  <2>2. h.at[i] \in Place /\ h.own[h.at[i]] = g /\ r \in RecsIn(h.view[h.at[i]].recs)
    BY <1>7, <2>1, AtHome
  <2>3. h.at[i] \in PlacesOf(b, g) /\ b[h.at[i]] = h.view[h.at[i]]
    BY <1>1, <1>2, <2>2, GroupHolds
  <2>4. r \in S
    BY <1>3, <2>2, <2>3
  <2>5. QED
    BY <2>1, <2>4
<1>8. QED
  BY <1>1, <1>5, <1>6, <1>7

(* The chain of a big record has all of it, in order.                       *)
LEMMA BigValue ==
  ASSUME NEW h, Heap(h), block \in [Place -> Block], NEW i \in Ids, NEW r \in Rec, h.kept[i] = {r}, r.id = i
  PROVE  ValueOf(block, r) = r.val
<1>1. CASE r.big = None
  BY <1>1 DEF ValueOf
<1>2. CASE r.big # None
  <2>1. PICK o, b, os : o = r.big /\ b = block /\ os = ChainFrom(b, o)
    OBVIOUS
  <2>2. OldBig(h.kept[i]) = o
    <3>1. (CHOOSE q \in {r} : TRUE) = r
      OBVIOUS
    <3>2. QED
      BY <2>1, <3>1 DEF OldBig
  <2>3. /\ h.ptr[RecPos(i)] = o /\ o \in Over /\ o <= fileEnd /\ h.own[Overflow(o)] = Overflow(o) /\ RecPos(i) \in Pos
        /\ Chained(h.ptr, h.own, fileEnd)
    <3>1. h.ptr[RecPos(i)] = o /\ Chained(h.ptr, h.own, fileEnd) /\ RecPos(i) \in Pos
      BY <2>2, PosIn DEF Heap, IdOK
    <3>2. QED
      BY <1>2, <2>1, <3>1, PtrIs, OwnIs
  <2>4. h.view[Overflow(o)].part = [val |-> r.val, nth |-> 1] /\ r.val \in Vals /\ o # None
    BY <1>2, <2>1 DEF Heap, IdOK, Rec
  <2>5. PICK x : x = RecPos(i)
    OBVIOUS
  <2>6. x \in Pos /\ h.ptr[x] = o /\ (\A v \in Users : x # SrcPos(v)) /\ (\A v \in Users : x # BigPos(v))
    BY <2>3, <2>5, PosDiffer
  <2>7. \A p \in Place : h.own[p] = Overflow(o) => b[p] = h.view[p]
    BY <2>1, <2>4, <2>6, OnDiskBig
  <2>8. /\ Followed(h.ptr, h.own, fileEnd, Overflow(o), os) /\ os # <<>> /\ os[1] = o
    <3>1. OnlyHead(Overflow(o), x, h)
      BY <2>3, <2>4, <2>6, OwnHead
    <3>2. \A p \in Place : h.own[p] = Overflow(o) => b[p].next = h.view[p].next
      BY <2>7
    <3>3. b \in [Place -> Block] /\ os = ChainFrom(b, h.ptr[x])
      BY <2>1, <2>6
    <3>4. Followed(h.ptr, h.own, fileEnd, Overflow(o), ChainFrom(b, h.ptr[x]))
      BY <2>3, <2>6, <3>1, <3>2, <3>3, WholeChain
    <3>5. ChainFrom(b, h.ptr[x]) # <<>> /\ ChainFrom(b, h.ptr[x])[1] = h.ptr[x]
      BY <2>3, <2>4, <2>6, <3>1, <3>2, <3>3, WholeChain
    <3>6. QED
      BY <2>6, <3>3, <3>4, <3>5
  <2>9. PICK n \in Nat : n = Len(os)
    BY <2>8 DEF Followed
  <2>10. n \in 1 .. n /\ \A j \in 1 .. n : os[j] \in Over /\ h.own[Overflow(os[j])] = Overflow(o) /\ Overflow(os[j]) \in Place
                                           /\ h.ptr[NextPos(Overflow(os[j]))] = IF j = n THEN None ELSE os[j + 1]
    BY <2>8, <2>9, Places DEF Followed
  <2>11. \A j \in 1 .. n : /\ h.view[Overflow(os[j])].next = IF j = n THEN None ELSE os[j + 1]
                           /\ PartOK(Overflow(os[j]), h)
    BY <2>10 DEF Heap, PlaceOK
  <2>12. \A j \in 1 .. n : h.view[Overflow(os[j])].part = [val |-> r.val, nth |-> j]
    <3>1. PICK S : S = {j \in Nat : j \in 1 .. n => h.view[Overflow(os[j])].part = [val |-> r.val, nth |-> j]}
      OBVIOUS
    <3>2. 0 \in S
      BY <3>1
    <3>3. ASSUME NEW j \in S
          PROVE  j + 1 \in S
      <4>1. CASE j = 0
        BY <2>4, <2>8, <3>1, <4>1
      <4>2. CASE j # 0 /\ j + 1 <= n
        <5>1. j \in Nat /\ j \in 1 .. n /\ j # n /\ h.view[Overflow(os[j])].part = [val |-> r.val, nth |-> j]
          BY <3>1, <3>3, <4>2, <2>9
        <5>2. h.view[Overflow(os[j])].next = os[j + 1] /\ PartOK(Overflow(os[j]), h)
          BY <2>11, <5>1
        <5>3. os[j + 1] # None
          BY <2>10, <4>2, <5>1, Places
        <5>4. [val |-> r.val, nth |-> j] # NoPart
          BY <5>1, <4>2 DEF NoPart
        <5>5. h.view[Overflow(os[j + 1])].part = [val |-> r.val, nth |-> j + 1]
          BY <5>1, <5>2, <5>3, <5>4 DEF PartOK
        <5>6. QED
          BY <3>1, <5>1, <5>5
      <4>3. CASE ~(j + 1 <= n)
        BY <2>9, <3>1, <4>3
      <4>4. QED
        BY <4>1, <4>2, <4>3
    <3>4. S \in SUBSET Nat
      BY <3>1
    <3>5. \A j \in Nat : j \in S
      BY <3>2, <3>3, <3>4, NatSet
    <3>6. QED
      BY <3>1, <3>5
  <2>13. n = BigBlocks[r.val]
    <3>1. h.view[Overflow(os[n])].next = None /\ PartOK(Overflow(os[n]), h)
          /\ h.view[Overflow(os[n])].part = [val |-> r.val, nth |-> n]
      BY <2>10, <2>11, <2>12
    <3>2. [val |-> r.val, nth |-> n] # NoPart
      BY <2>10 DEF NoPart
    <3>3. n = BigBlocks[r.val] \/ Writing(Overflow(os[n]))
      BY <3>1, <3>2 DEF PartOK
    <3>4. ASSUME NEW v \in Users, proc[v].at = "big", Overflow(os[n]) = Overflow(proc[v].last)
          PROVE  FALSE
      <4>1. /\ h.own[Overflow(os[n])] = Overflow(proc[v].rec.big) /\ proc[v].rec \in Rec /\ proc[v].rec.big # None
            /\ h.ptr[BigPos(v)] = proc[v].rec.big
        BY <3>4 DEF Heap, HeldOK, BigOf
      <4>2. proc[v].rec.big \in Over
        BY <4>1 DEF Rec
      <4>3. proc[v].rec.big = o
        BY <2>3, <2>10, <4>1, <4>2, Places
      <4>4. BigPos(v) \in Pos /\ h.ptr[BigPos(v)] = h.ptr[x] /\ x # BigPos(v)
        BY <2>6, <4>1, <4>3, PosIn
      <4>5. QED
        BY <2>3, <2>4, <2>6, <4>4, PtrIs
    <3>5. QED
      BY <3>3, <3>4 DEF Writing
  <2>14. \A j \in 1 .. n : b[Overflow(os[j])].part = [val |-> r.val, nth |-> j]
    BY <2>7, <2>10, <2>12
  <2>15. b[Overflow(o)].part.val = r.val
    BY <2>3, <2>4, <2>7, Places
  <2>16. QED
    BY <1>2, <2>1, <2>4, <2>9, <2>13, <2>14, <2>15 DEF ValueOf
<1>3. QED
  BY <1>1, <1>2

LEMMA LookupIs ==
  ASSUME HashInv, NEW h, Heap(h), block \in [Place -> Block], NEW g \in Groups, ~WriteLocked(g),
         NEW i \in Ids, Home(i) = g
  PROVE  Lookup(block, g, i) = ValIn(h.kept[i])
<1>1. Found(block, g, i) = h.kept[i]
  BY FoundKept
<1>2. CASE h.kept[i] = {}
  BY <1>1, <1>2 DEF Lookup, ValIn
<1>3. CASE h.kept[i] # {}
  <2>1. PICK r \in Rec : r.id = i /\ h.kept[i] = {r}
    BY <1>3, AtHome
  <2>2. (CHOOSE q \in {r} : TRUE) = r /\ ValueOf(block, r) = r.val
    BY <2>1, BigValue
  <2>3. QED
    BY <1>1, <1>3, <2>1, <2>2 DEF Lookup, ValIn
<1>4. QED
  BY <1>2, <1>3

LEMMA ContentHome ==
  ASSUME HashInv, NEW h, Heap(h), block \in [Place -> Block], NEW i \in Ids, ~WriteLocked(Home(i))
  PROVE  content[i] = ValIn(h.kept[i])
<1>1. Rewriting(i) = {}
  BY DEF Rewriting, HashInv, HomeOK, WriteLocked
<1>2. Home(i) \in Groups
  BY HomePresent
<1>3. content[i] = Lookup(block, Home(i), i)
  BY <1>1 DEF content
<1>4. QED
  BY <1>2, <1>3, LookupIs

-----------------------------------------------------------------------------
(* A split or merge begins: the chain of the group s is to be moved.        *)

AtMoved(h, s) == [i \in Ids |-> IF h.kept[i] # {} /\ h.at[i] = s THEN 0 ELSE h.at[i]]

Moves(u, h, k, s, G, job) ==
  /\ s \in G /\ G \subseteq Groups /\ UNCHANGED file /\ ~WriteLocked(s)
  /\ proc[u].at \in {"source", "merge"} /\ proc'[u].at = "rewrite" /\ proc'[u].was = Snapshot(G)
  /\ proc'[u].put = {} /\ proc'[u].then.at = "release" /\ proc'[u].job = job
  /\ \A g \in G : MyLock(u, g, TRUE) \in glock'
  /\ \A i \in Ids : /\ Home(i) # s => Home(i)' = Home(i)
                    /\ Home(i) \in G => Home(i)' \in G /\ ~WriteLocked(Home(i))
  /\ \A g \in Groups : g # s /\ AbsentGroup(g)' => AbsentGroup(g)
  /\ k = [view |-> [h.view EXCEPT ![s] = Empty], ptr |-> Swapped(h.ptr, NextPos(s), RestPos(u)),
          own |-> MovedOwn(h.own, s), kept |-> h.kept, at |-> AtMoved(h, s)]
  /\ job.todo = block[s].recs /\ job.rest = block[s].next /\ job.src = None
  /\ s \in {job.to[t].at : t \in 1 .. Len(job.to)}

LEMMA MovesIs ==
  ASSUME NEW u \in Users, NEW h, Heap(h), block \in [Place -> Block], NEW k, NEW s, NEW G, NEW job, Moves(u, h, k, s, G, job)
  PROVE  /\ s \in Groups /\ s \in Place /\ Primary(s) = s /\ h.own[s] = s /\ block[s] = h.view[s]
         /\ (\A p \in Place : h.own[p] = s => block[p] = h.view[p])
         /\ h.ptr[NextPos(s)] = job.rest /\ job.todo = h.view[s].recs /\ h.ptr[RestPos(u)] = None
         /\ Chained(k.ptr, k.own, fileEnd) /\ fileEnd \in Nat
         /\ k.ptr[NextPos(s)] = None /\ k.ptr[RestPos(u)] = job.rest
         /\ (\A x \in Pos : x \notin {NextPos(s), RestPos(u)} => k.ptr[x] = h.ptr[x])
         /\ k.view[s] = Empty /\ (\A p \in Place : p # s => k.view[p] = h.view[p]) /\ k.view \in [Place -> Block]
         /\ (\A p \in Place : k.own[p] = IF h.own[p] = s /\ p # s THEN Moving ELSE h.own[p])
         /\ k.kept = h.kept /\ (\A i \in Ids : k.at[i] = IF h.kept[i] # {} /\ h.at[i] = s THEN 0 ELSE h.at[i]) /\ k.at \in [Ids -> Nat]
<1>1. /\ s \in Groups /\ ~WriteLocked(s) /\ proc[u].at \in {"source", "merge"}
      /\ job.todo = block[s].recs /\ job.rest = block[s].next
      /\ k = [view |-> [h.view EXCEPT ![s] = Empty], ptr |-> Swapped(h.ptr, NextPos(s), RestPos(u)),
              own |-> MovedOwn(h.own, s), kept |-> h.kept, at |-> AtMoved(h, s)]
  BY DEF Moves
<1>2. /\ h.own[s] = s /\ s \in Place /\ Primary(s) = s /\ h.ptr[NextPos(s)] = block[s].next
      /\ (\A p \in Place : h.own[p] = s => block[p] = h.view[p])
  <2>1. PICK os : os = ChainFrom(block, block[Primary(s)].next)
    OBVIOUS
  <2>2. QED
    BY <1>1, <2>1, GroupFollowed
<1>3. h.ptr[RestPos(u)] = None
  BY <1>1 DEF Heap, HeldOK, RestOf
<1>4. Chained(h.ptr, h.own, fileEnd) /\ h.ptr \in [Pos -> Over \cup {None}] /\ fileEnd \in Nat
      /\ h.own \in [Place -> Int]
  BY PtrIs DEF Heap
<1>5. NextPos(s) \in Pos /\ RestPos(u) \in Pos /\ NextPos(s) # RestPos(u)
  BY <1>2, PosIn, PosDiffer
<1>6. /\ k.view = [h.view EXCEPT ![s] = Empty] /\ k.ptr = Swapped(h.ptr, NextPos(s), RestPos(u))
      /\ k.own = MovedOwn(h.own, s) /\ k.kept = h.kept /\ k.at = AtMoved(h, s)
  BY <1>1
<1>7. Chained(k.ptr, k.own, fileEnd)
  BY <1>1, <1>2, <1>3, <1>4, <1>6, Move
<1>8. \A x \in Pos : k.ptr[x] = IF x = NextPos(s) THEN h.ptr[RestPos(u)]
                                ELSE IF x = RestPos(u) THEN h.ptr[NextPos(s)] ELSE h.ptr[x]
  BY <1>4, <1>5, <1>6, SwappedIs
<1>9. /\ k.ptr[NextPos(s)] = None /\ k.ptr[RestPos(u)] = job.rest
      /\ (\A x \in Pos : x \notin {NextPos(s), RestPos(u)} => k.ptr[x] = h.ptr[x])
  BY <1>1, <1>2, <1>3, <1>5, <1>8
<1>10. Empty \in Block
  BY NoRecs DEF Empty, Block, NoPart, Part
<1>11. k.view[s] = Empty /\ (\A p \in Place : p # s => k.view[p] = h.view[p]) /\ k.view \in [Place -> Block]
  BY <1>2, <1>6, <1>10 DEF Heap
<1>12. \A p \in Place : k.own[p] = IF h.own[p] = s /\ p # s THEN Moving ELSE h.own[p]
  BY <1>2, <1>6 DEF MovedOwn
<1>13. (\A i \in Ids : k.at[i] = IF h.kept[i] # {} /\ h.at[i] = s THEN 0 ELSE h.at[i]) /\ k.at \in [Ids -> Nat]
  BY <1>6 DEF Heap, AtMoved
<1>14. QED
  BY <1>1, <1>2, <1>3, <1>4, <1>6, <1>7, <1>9, <1>11, <1>12, <1>13

(* The ids of the group are in its blocks, and no others.                   *)
LEMMA GroupIds ==
  ASSUME HashInv, NEW h, Heap(h), NEW s \in Groups, ~WriteLocked(s), NEW i \in Ids, h.kept[i] # {}
  PROVE  /\ Home(i) = s => /\ h.at[i] \in Place /\ h.own[h.at[i]] = s /\ h.kept[i] \subseteq RecsIn(h.view[h.at[i]].recs)
         /\ h.at[i] \in Place /\ h.own[h.at[i]] = s => Home(i) = s
<1>1. Home(i) = s => h.at[i] \in Place /\ h.own[h.at[i]] = s /\ h.kept[i] \subseteq RecsIn(h.view[h.at[i]].recs)
  BY AtHome
<1>2. ASSUME h.at[i] \in Place, h.own[h.at[i]] = s
      PROVE  Home(i) = s
  <2>1. h.at[i] # 0
    BY <1>2, FileConstants DEF Place
  <2>2. QED
    BY <1>2, <2>1, Owners DEF Heap, IdOK, InPlace
<1>3. QED
  BY <1>1, <1>2

LEMMA MovesHeld ==
  ASSUME HashInv, NEW u \in Users, NEW h, Heap(h), block \in [Place -> Block],
         NEW k, NEW s, NEW G, NEW job, Moves(u, h, k, s, G, job), JobOK(u, k)'
  PROVE  HeldOK(u, k)'
<1>1. /\ s \in G /\ G \subseteq Groups /\ ~WriteLocked(s)
      /\ proc[u].at \in {"source", "merge"} /\ proc'[u].at = "rewrite" /\ proc'[u].was = Snapshot(G)
      /\ proc'[u].put = {} /\ proc'[u].then.at = "release" /\ proc'[u].job = job
      /\ job.todo = block[s].recs /\ job.rest = block[s].next /\ job.src = None
      /\ \A i \in Ids : Home(i) \in G => ~WriteLocked(Home(i))
  BY DEF Moves
<1>2. /\ s \in Groups /\ s \in Place /\ h.own[s] = s /\ job.todo = h.view[s].recs
      /\ k.ptr[RestPos(u)] = job.rest
      /\ (\A x \in Pos : x \notin {NextPos(s), RestPos(u)} => k.ptr[x] = h.ptr[x])
  BY MovesIs
<1>3. k.kept = h.kept /\ (\A i \in Ids : k.at[i] = IF h.kept[i] # {} /\ h.at[i] = s THEN 0 ELSE h.at[i])
  BY MovesIs
<1>4. DOMAIN proc'[u].was = {i \in Ids : Home(i) \in G} /\ \A i \in Ids : Home(i) \in G => proc'[u].was[i] = content[i]
  BY <1>1 DEF Snapshot
<1>5. /\ SrcOf(proc'[u]) = None /\ RestOf(proc'[u]) = job.rest /\ BigOf(proc'[u]) = None /\ TodoOf(proc'[u]) = job.todo
      /\ SrcOf(proc[u]) = None /\ BigOf(proc[u]) = None
  BY <1>1 DEF SrcOf, RestOf, BigOf, TodoOf
<1>6. k.ptr[SrcPos(u)] = None /\ k.ptr[BigPos(u)] = None
  <2>1. h.ptr[SrcPos(u)] = None /\ h.ptr[BigPos(u)] = None
    BY <1>5 DEF Heap, HeldOK
  <2>2. SrcPos(u) \in Pos /\ BigPos(u) \in Pos /\ SrcPos(u) \notin {NextPos(s), RestPos(u)}
        /\ BigPos(u) \notin {NextPos(s), RestPos(u)}
    BY PosIn, PosDiffer
  <2>3. QED
    BY <1>2, <2>1, <2>2
<1>7. DistinctIds(job.todo) /\ \A r \in RecsIn(job.todo) : h.kept[r.id] = {r} /\ h.at[r.id] = s
  <2>1. PlaceOK(s, h)
    BY <1>2 DEF Heap
  <2>2. QED
    BY <1>2, <2>1 DEF PlaceOK
<1>8. \A r \in RecsIn(job.todo) : k.kept[r.id] = {r} /\ k.at[r.id] = 0 /\ r.id \in DOMAIN proc'[u].was
  <2>1. ASSUME NEW r \in RecsIn(job.todo)
        PROVE  k.kept[r.id] = {r} /\ k.at[r.id] = 0 /\ r.id \in DOMAIN proc'[u].was
    <3>1. r.id \in Ids
      <4>1. job.todo \in Seq(Rec)
        BY <1>2, BlockType DEF Heap
      <4>2. r \in Rec
        BY <2>1, <4>1, SomeRecs
      <4>3. QED
        BY <4>2 DEF Rec
    <3>2. h.kept[r.id] = {r} /\ h.at[r.id] = s
      BY <1>7, <2>1
    <3>3. Home(r.id) = s
      BY <1>1, <1>2, <3>1, <3>2, GroupIds
    <3>4. QED
      BY <1>1, <1>3, <1>4, <3>1, <3>2, <3>3
  <2>2. QED
    BY <2>1
<1>9. \A i \in DOMAIN proc'[u].was : ValIn(k.kept[i]) = Promised(proc'[u], i)
  <2>1. ASSUME NEW i \in DOMAIN proc'[u].was
        PROVE  ValIn(k.kept[i]) = Promised(proc'[u], i)
    <3>1. i \in Ids /\ ~WriteLocked(Home(i)) /\ proc'[u].was[i] = content[i]
      BY <1>1, <1>4, <2>1
    <3>2. content[i] = ValIn(h.kept[i])
      BY <3>1, ContentHome
    <3>3. Promised(proc'[u], i) = proc'[u].was[i]
      BY <1>1 DEF Promised
    <3>4. QED
      BY <1>3, <3>1, <3>2, <3>3
  <2>2. QED
    BY <2>1
<1>10. QED
  BY <1>1, <1>2, <1>5, <1>6, <1>7, <1>8, <1>9 DEF HeldOK

LEMMA MovesPlace ==
  ASSUME HashInv, NEW u \in Users, NEW h, Heap(h), block \in [Place -> Block],
         NEW k, NEW s, NEW G, NEW job, Moves(u, h, k, s, G, job), NEW q \in Place, h.own[q] = s
  PROVE  PlaceOK(q, k)'
<1>1. UNCHANGED file /\ s \in {job.to[t].at : t \in 1 .. Len(job.to)} /\ proc'[u].at = "rewrite" /\ proc'[u].job = job
  BY DEF Moves
<1>2. /\ s \in Groups /\ s \in Place /\ (\A p \in Place : h.own[p] = s => block[p] = h.view[p])
      /\ k.ptr[NextPos(s)] = None
      /\ (\A x \in Pos : x \notin {NextPos(s), RestPos(u)} => k.ptr[x] = h.ptr[x])
  BY MovesIs
<1>3. /\ k.view[s] = Empty /\ (\A p \in Place : p # s => k.view[p] = h.view[p]) /\ fileEnd \in Nat
      /\ k.kept = h.kept /\ (\A i \in Ids : k.at[i] = IF h.kept[i] # {} /\ h.at[i] = s THEN 0 ELSE h.at[i])
  BY MovesIs
<1>4. CASE q = s
  <2>1. s \in InHand(proc'[u])
    BY <1>1 DEF InHand, Buffered
  <2>2. PartOK(s, k)'
    BY <1>3 DEF PartOK, Empty
  <2>3. k.view[s].recs = <<>> /\ k.view[s].next = None
    BY <1>3 DEF Empty
  <2>4. QED
    BY <1>2, <1>4, <2>1, <2>2, <2>3, NoRecs DEF PlaceOK
<1>5. CASE q # s
  <2>1. /\ h.view[q].part = NoPart /\ h.ptr[NextPos(q)] = h.view[q].next /\ DistinctIds(h.view[q].recs)
        /\ (\A r \in RecsIn(h.view[q].recs) : h.kept[r.id] = {r} /\ h.at[r.id] = q)
        /\ (q \notin Groups => OverflowNo(q) <= fileEnd) /\ (q \in Groups => h.own[q] = q)
        /\ h.view[q].recs \in Seq(Rec)
    BY <1>2, GroupPlace
  <2>2. q \notin Groups /\ ~(OverflowNo(q) > fileEnd)
    <3>1. q \notin Groups
      BY <1>5, <2>1
    <3>2. OverflowNo(q) \in Int
      BY <3>1, Places, FileConstants DEF Over
    <3>3. QED
      BY <1>3, <2>1, <3>1, <3>2
  <2>3. k.ptr[NextPos(q)] = h.ptr[NextPos(q)] /\ k.view[q] = h.view[q]
    BY <1>2, <1>3, <1>5, PosDiffer, PosIn
  <2>4. \A r \in RecsIn(k.view[q].recs) : k.kept[r.id] = {r} /\ k.at[r.id] = q
    <3>1. ASSUME NEW r \in RecsIn(h.view[q].recs)
          PROVE  k.kept[r.id] = {r} /\ k.at[r.id] = q
      <4>1. r \in Rec
        BY <2>1, <3>1, SomeRecs
      <4>2. r.id \in Ids
        BY <4>1 DEF Rec
      <4>3. QED
        BY <1>3, <1>5, <2>1, <3>1, <4>2
    <3>2. QED
      BY <2>3, <3>1
  <2>5. PartOK(q, k)'
    BY <2>1, <2>3 DEF PartOK
  <2>6. block'[q] = k.view[q] /\ fileEnd' = fileEnd
    BY <1>1, <1>2, <2>3 DEF file
  <2>7. QED
    BY <2>1, <2>2, <2>3, <2>4, <2>5, <2>6 DEF PlaceOK
<1>6. QED
  BY <1>4, <1>5

LEMMA MovesId ==
  ASSUME HashInv, NEW u \in Users, NEW h, Heap(h), block \in [Place -> Block],
         NEW k, NEW s, NEW G, NEW job, Moves(u, h, k, s, G, job), NEW i \in Ids, Home(i) = s
  PROVE  IdOK(i, k)'
<1>1. /\ s \in G /\ ~WriteLocked(s) /\ job.rest = block[s].next
      /\ proc'[u].at = "rewrite" /\ proc'[u].was = Snapshot(G) /\ proc'[u].job = job
  BY DEF Moves
<1>2. /\ s \in Groups /\ s \in Place /\ h.own[s] = s /\ job.todo = h.view[s].recs /\ h.ptr[NextPos(s)] = job.rest
      /\ (\A x \in Pos : x \notin {NextPos(s), RestPos(u)} => k.ptr[x] = h.ptr[x])
  BY MovesIs
<1>3. /\ (\A p \in Place : p # s => k.view[p] = h.view[p])
      /\ k.kept = h.kept /\ (\A j \in Ids : k.at[j] = IF h.kept[j] # {} /\ h.at[j] = s THEN 0 ELSE h.at[j])
      /\ (\A p \in Place : k.own[p] = IF h.own[p] = s /\ p # s THEN Moving ELSE h.own[p])
  BY MovesIs
<1>4. IdOK(i, h)
  BY DEF Heap
<1>5. k.ptr[RecPos(i)] = OldBig(k.kept[i])
  <2>1. RecPos(i) \in Pos /\ RecPos(i) \notin {NextPos(s), RestPos(u)}
    BY PosIn, PosDiffer
  <2>2. QED
    BY <1>2, <1>3, <1>4, <2>1 DEF IdOK
<1>6. CASE h.kept[i] = {}
  BY <1>3, <1>5, <1>6 DEF IdOK
<1>7. CASE h.kept[i] # {}
  <2>1. h.at[i] \in Place /\ h.own[h.at[i]] = s /\ h.kept[i] \subseteq RecsIn(h.view[h.at[i]].recs)
    BY <1>1, <1>2, <1>7, GroupIds
  <2>2. \E r \in Rec : r.id = i /\ k.kept[i] = {r}
    BY <1>3, <1>4, <1>7 DEF IdOK
  <2>3. \A r \in k.kept[i] : r.big # None => k.view[Overflow(r.big)].part = [val |-> r.val, nth |-> 1]
    <3>1. ASSUME NEW r \in k.kept[i], r.big # None
          PROVE  k.view[Overflow(r.big)].part = [val |-> r.val, nth |-> 1]
      <4>1. r \in Rec /\ h.view[Overflow(r.big)].part = [val |-> r.val, nth |-> 1]
        BY <1>3, <1>4, <1>7, <2>2, <3>1 DEF IdOK
      <4>2. r.big \in Over
        BY <3>1, <4>1 DEF Rec
      <4>3. Overflow(r.big) \in Place /\ Overflow(r.big) # s
        BY <1>2, <4>2, Places
      <4>4. QED
        BY <1>3, <4>1, <4>3
    <3>2. QED
      BY <3>1
  <2>4. IF k.at[i] = 0 THEN \E v \in Users : k.kept[i] \subseteq RecsIn(TodoOf(proc'[v])) ELSE InPlace(i, k)'
    <3>1. CASE h.at[i] = s
      <4>1. k.at[i] = 0 /\ TodoOf(proc'[u]) = job.todo
        BY <1>1, <1>3, <1>7, <3>1 DEF TodoOf
      <4>2. k.kept[i] \subseteq RecsIn(job.todo)
        BY <1>2, <1>3, <2>1, <3>1
      <4>3. QED
        BY <4>1, <4>2
    <3>2. CASE h.at[i] # s
      <4>1. k.at[i] = h.at[i] /\ k.at[i] # 0 /\ k.own[k.at[i]] = Moving /\ k.view[k.at[i]] = h.view[h.at[i]]
        <5>1. \A p \in Place : p # 0
          BY FileConstants DEF Place
        <5>2. PICK q \in Place : q = h.at[i]
          BY <2>1
        <5>3. k.at[i] = q /\ q # 0 /\ k.own[q] = Moving /\ k.view[q] = h.view[q]
          BY <1>3, <2>1, <3>2, <5>1, <5>2
        <5>4. QED
          BY <5>2, <5>3
      <4>2. i \in DOMAIN proc'[u].was
        BY <1>1 DEF Snapshot
      <4>3. job.rest # None
        <5>1. PICK os : os = ChainFrom(block, block[Primary(s)].next)
          OBVIOUS
        <5>2. IF block[s].next = None THEN os = <<>> ELSE os # <<>>
          BY <1>1, <1>2, <5>1, GroupFollowed
        <5>3. h.at[i] \in PlacesOf(block, s) /\ Primary(s) = s
          BY <1>1, <1>2, <2>1, GroupHolds, Places
        <5>4. os # <<>>
          BY <3>2, <5>1, <5>3, NoElems DEF PlacesOf
        <5>5. QED
          BY <1>1, <5>2, <5>4
      <4>4. RestOf(proc'[u]) # None
        BY <1>1, <4>3 DEF RestOf
      <4>5. InPlace(i, k)'
        BY <1>3, <2>1, <4>1, <4>2, <4>4 DEF InPlace
      <4>6. QED
        BY <4>1, <4>5
    <3>3. QED
      BY <3>1, <3>2
  <2>5. QED
    BY <1>5, <2>2, <2>3, <2>4 DEF IdOK
<1>8. QED
  BY <1>6, <1>7

LEMMA MovesHeap ==
  ASSUME HashInv, NEW u \in Users, NEW h, Heap(h), block \in [Place -> Block], Orderly(u),
         NEW k, NEW s, NEW G, NEW job, Moves(u, h, k, s, G, job), JobOK(u, k)'
  PROVE  Heap(k)'
<1>1. /\ s \in G /\ ~WriteLocked(s) /\ UNCHANGED file /\ proc[u].at \in {"source", "merge"}
      /\ (\A g \in G : MyLock(u, g, TRUE) \in glock')
      /\ (\A i \in Ids : /\ Home(i) # s => Home(i)' = Home(i)
                         /\ Home(i) \in G => Home(i)' \in G)
      /\ \A g \in Groups : g # s /\ AbsentGroup(g)' => AbsentGroup(g)
  BY DEF Moves
<1>2. /\ s \in Groups /\ s \in Place /\ h.own[s] = s
      /\ (\A x \in Pos : x \notin {NextPos(s), RestPos(u)} => k.ptr[x] = h.ptr[x])
  BY MovesIs
<1>3. /\ (\A p \in Place : p # s => k.view[p] = h.view[p]) /\ k.view \in [Place -> Block]
      /\ k.kept = h.kept /\ (\A j \in Ids : k.at[j] = IF h.kept[j] # {} /\ h.at[j] = s THEN 0 ELSE h.at[j]) /\ k.at \in [Ids -> Nat]
      /\ (\A p \in Place : k.own[p] = IF h.own[p] = s /\ p # s THEN Moving ELSE h.own[p])
  BY MovesIs
<1>4. Chained(k.ptr, k.own, fileEnd) /\ fileEnd \in Nat
  BY MovesIs
<1>5. PICK T, I : T = {p \in Place : h.own[p] = s} /\ I = {i \in Ids : Home(i) = s}
  OBVIOUS
<1>6. /\ SrcOf(proc[u]) = None /\ RestOf(proc[u]) = None /\ TodoOf(proc[u]) = <<>> /\ InHand(proc[u]) = {}
      /\ RecsIn(TodoOf(proc[u])) = {}
  BY <1>1, NoRecs DEF SrcOf, RestOf, TodoOf, InHand, Given, Buffered
<1>7. LeftPlaces(u, T, h, k)
  <2>1. ASSUME NEW q \in Place, q \notin T
        PROVE  k.view[q] = h.view[q] /\ k.own[q] = h.own[q] /\ k.ptr[NextPos(q)] = h.ptr[NextPos(q)] /\ block'[q] = block[q]
    <3>1. q # s /\ h.own[q] # s
      BY <1>2, <1>5, <2>1
    <3>2. k.ptr[NextPos(q)] = h.ptr[NextPos(q)]
      BY <1>2, <3>1, PosIn, PosDiffer
    <3>3. QED
      BY <1>1, <1>3, <3>1, <3>2 DEF file
  <2>2. \A q \in T : Touchable(u, q, h) /\ PartsLeft(u, q, T, h, k)
    <3>1. \A q \in T : h.own[q] = s /\ h.view[q].part = NoPart
      BY <1>2, <1>5, GroupPlace
    <3>2. QED
      BY <1>1, <3>1 DEF Touchable, PartsLeft
  <2>3. \A g \in Groups : g \notin T /\ AbsentGroup(g)' => AbsentGroup(g)
    BY <1>1, <1>2, <1>5
  <2>4. QED
    BY <1>1, <1>5, <1>6, <2>1, <2>2, <2>3 DEF LeftPlaces
<1>8. LeftIds(u, T, I, h, k)
  <2>1. ASSUME NEW i \in Ids, i \notin I
        PROVE  /\ k.kept[i] = h.kept[i] /\ k.at[i] = h.at[i] /\ k.ptr[RecPos(i)] = h.ptr[RecPos(i)]
               /\ h.kept[i] # {} => Home(i)' = Home(i)
               /\ h.kept[i] # {} => h.at[i] \notin T
    <3>1. k.ptr[RecPos(i)] = h.ptr[RecPos(i)]
      BY <1>2, PosIn, PosDiffer
    <3>2. h.kept[i] # {} => h.at[i] \notin T
      BY <1>1, <1>2, <1>5, <2>1, GroupIds
    <3>3. k.at[i] = h.at[i]
      <4>1. ~(h.kept[i] # {} /\ h.at[i] = s)
        BY <1>2, <1>5, <3>2
      <4>2. QED
        BY <1>3, <4>1
    <3>4. QED
      BY <1>1, <1>3, <1>5, <2>1, <3>1, <3>2, <3>3
  <2>2. \A i \in I : MyLock(u, Home(i)', TRUE) \in glock'
    BY <1>1, <1>5
  <2>3. ASSUME NEW q \in Place, q \notin T, NEW r \in RecsIn(h.view[q].recs)
        PROVE  r.id \notin I
    <3>1. PlaceOK(q, h) /\ h.view[q].recs \in Seq(Rec)
      BY BlockType DEF Heap
    <3>2. h.kept[r.id] = {r} /\ h.at[r.id] = q /\ r \in Rec
      BY <2>3, <3>1, SomeRecs DEF PlaceOK
    <3>3. SUFFICES ASSUME Home(r.id) = s, r.id \in Ids
                   PROVE  FALSE
      BY <1>5
    <3>4. h.own[q] = s
      BY <1>1, <1>2, <3>2, <3>3, GroupIds
    <3>5. QED
      BY <1>5, <2>3, <3>4
  <2>4. I \subseteq Ids
    BY <1>5
  <2>5. QED
    BY <1>6, <2>1, <2>2, <2>3, <2>4 DEF LeftIds
<1>9. LeftOthers(u, h, k)
  <2>1. ASSUME NEW v \in Users, v # u
        PROVE  k.ptr[SrcPos(v)] = h.ptr[SrcPos(v)] /\ k.ptr[RestPos(v)] = h.ptr[RestPos(v)] /\ k.ptr[BigPos(v)] = h.ptr[BigPos(v)]
    <3>1. /\ SrcPos(v) \in Pos /\ SrcPos(v) \notin {NextPos(s), RestPos(u)}
          /\ RestPos(v) \in Pos /\ RestPos(v) \notin {NextPos(s), RestPos(u)}
          /\ BigPos(v) \in Pos /\ BigPos(v) \notin {NextPos(s), RestPos(u)}
      BY <2>1, PosIn, PosDiffer
    <3>2. QED
      BY <1>2, <3>1
  <2>2. QED
    BY <2>1 DEF LeftOthers
<1>10. k.ptr[FreePos] = freeChain' /\ fileEnd' = fileEnd
  BY <1>1, <1>2, PosIn, PosDiffer DEF Heap, file
<1>11. HeldOK(u, k)'
  BY MovesHeld
<1>12. \A q \in T : PlaceOK(q, k)'
  BY <1>5, MovesPlace
<1>13. \A i \in I : IdOK(i, k)'
  BY <1>5, MovesId
<1>14. fileEnd <= fileEnd' /\ Chained(k.ptr, k.own, fileEnd') /\ k.kept \in [Ids -> SUBSET Rec]
  BY <1>3, <1>4, <1>10 DEF Heap
<1>15. QED
  BY <1>3, <1>7, <1>8, <1>9, <1>10, <1>11, <1>12, <1>13, <1>14, HeapStep

AreBuffers(to, p, q, b, c) ==
  p \in Place /\ q \in Place /\ b \in Block /\ c \in Block /\ to = <<Buffer(p, b), Buffer(q, c)>>

Buffers(to, p, q, b, c) ==
  /\ to \in Seq([at : Place, blk : Block]) /\ Len(to) = 2
  /\ to[1].at = p /\ to[1].blk = b /\ to[2].at = q /\ to[2].blk = c /\ to # <<>>
  /\ \A t \in 1 .. Len(to) : t = 1 \/ t = 2

LEMMA TwoBuffers ==
  ASSUME NEW to, NEW p, NEW q, NEW b, NEW c, AreBuffers(to, p, q, b, c)
  PROVE  Buffers(to, p, q, b, c)
BY DEF Buffer, AreBuffers, Buffers

LEMMA SplitSourceHeap ==
  ASSUME HashInv, NEW u \in Users, NEW h, Heap(h), block \in [Place -> Block], SplitSource(u)
  PROVE  \E k : Heap(k)' /\ k.kept = h.kept
<1>1. PICK g, new, job : g = proc[u].group /\ new = proc[u].new /\ job = SplitJob(g, new)
  OBVIOUS
<1>2. /\ Orderly(u) /\ proc[u].at = "source" /\ UNCHANGED file /\ CanLock(g, TRUE)
      /\ glock' = glock \cup {MyLock(u, g, TRUE)} /\ UNCHANGED <<modulus, modValue>>
      /\ Goes(u, [at |-> "rewrite", was |-> Snapshot({g, new}), put |-> {}, then |-> [at |-> "release"], job |-> job])
  <2>1. Orderly(u)
    BY StepOrderly DEF Steps
  <2>2. QED
    BY <1>1, <2>1 DEF SplitSource, Rewrite, header
<1>3. /\ g \in Groups /\ g # new /\ new = modulus /\ MyLock(u, new, TRUE) \in glock
      /\ (\A i \in Ids : Home(i)' = HashGroup(i) /\ Home(i) = IF HashGroup(i) = new THEN g ELSE HashGroup(i))
  <2>1. /\ g \in Groups /\ g # new
        /\ (\A i \in Ids : Home(i)' = HashGroup(i) /\ Home(i) = IF HashGroup(i) = new THEN g ELSE HashGroup(i))
    BY <1>1, SplitSourceStep
  <2>2. new = modulus /\ MyLock(u, new, TRUE) \in glock
    BY <1>1, <1>2 DEF HashInv, SessionOK
  <2>3. QED
    BY <2>1, <2>2
<1>4. new \in Groups /\ ~WriteLocked(g) /\ \A i \in Ids : HashGroup(i)' = HashGroup(i)
  <2>1. new \in Groups
    BY <1>3, FileConstants DEF HashInv, HeaderInv, HeaderOK, Groups
  <2>2. ~WriteLocked(g)
    BY <1>2 DEF CanLock, WriteLocked, MyLock
  <2>3. QED
    BY <1>2, <2>1, <2>2 DEF HashGroup
<1>5. /\ proc'[u].at = "rewrite" /\ proc'[u].was = Snapshot({g, new}) /\ proc'[u].put = {}
      /\ proc'[u].then.at = "release" /\ proc'[u].job = job /\ \A v \in Users : v # u => proc'[v] = proc[v]
  BY <1>2 DEF Goes, HashInv
<1>6. AbsentGroup(new) /\ \A m : AbsentGroup(m)' => AbsentGroup(m)
  <2>1. AbsentGroup(new)
    BY <1>1, <1>2 DEF AbsentGroup
  <2>2. \A m : AbsentGroup(m)' => AbsentGroup(m)
    BY <1>2, <1>5 DEF AbsentGroup
  <2>3. QED
    BY <2>1, <2>2
<1>7. Primary(g) = g /\ Primary(new) = new /\ g \in Place /\ new \in Place /\ None \notin Groups
  BY <1>3, <1>4, Places
<1>8. PICK to : to = <<Buffer(g, Empty), Buffer(new, Empty)>>
  OBVIOUS
<1>9. job = [to |-> to, pack |-> FALSE, todo |-> block[g].recs, src |-> None, rest |-> block[g].next, new |-> new]
  BY <1>1, <1>7, <1>8 DEF SplitJob, NoJob
<1>10. /\ job.to = to /\ job.pack = FALSE /\ job.todo = block[g].recs /\ job.src = None /\ job.rest = block[g].next
       /\ job.new = new
  BY <1>9
<1>11. /\ to \in Seq([at : Place, blk : Block]) /\ Len(to) = 2 /\ to # <<>>
       /\ to[1].at = g /\ to[1].blk = Empty /\ to[2].at = new /\ to[2].blk = Empty
       /\ (\A t \in 1 .. Len(to) : t = 1 \/ t = 2)
  <2>1. Empty \in Block
    BY NoRecs DEF Empty, Block, NoPart, Part
  <2>2. PICK e : e = Empty
    OBVIOUS
  <2>3. e \in Block /\ to = <<Buffer(g, e), Buffer(new, e)>>
    BY <1>8, <2>1, <2>2
  <2>4. AreBuffers(to, g, new, e, e)
    BY <1>7, <2>3 DEF AreBuffers
  <2>5. Buffers(to, g, new, e, e)
    BY <2>4, TwoBuffers
  <2>6. QED
    BY <2>2, <2>5 DEF Buffers
<1>12. PICK k : k = [view |-> [h.view EXCEPT ![g] = Empty], ptr |-> Swapped(h.ptr, NextPos(g), RestPos(u)),
                     own |-> MovedOwn(h.own, g), kept |-> h.kept, at |-> AtMoved(h, g)]
  OBVIOUS
<1>13. Moves(u, h, k, g, {g, new}, job)
  <2>1. \A m \in {g, new} : MyLock(u, m, TRUE) \in glock'
    BY <1>2, <1>3
  <2>2. \A i \in Ids : /\ Home(i) # g => Home(i)' = Home(i)
                       /\ Home(i) \in {g, new} => Home(i)' \in {g, new} /\ ~WriteLocked(Home(i))
    BY <1>3, <1>4
  <2>3. g \in {job.to[t].at : t \in 1 .. Len(job.to)}
    BY <1>10, <1>11
  <2>4. {g, new} \subseteq Groups
    BY <1>3, <1>4
  <2>5. QED
    BY <1>2, <1>4, <1>5, <1>6, <1>10, <1>12, <2>1, <2>2, <2>3, <2>4 DEF Moves
<1>14. /\ k.view[g] = Empty /\ (\A p \in Place : p # g => k.view[p] = h.view[p])
       /\ (\A p \in Place : k.own[p] = IF h.own[p] = g /\ p # g THEN Moving ELSE h.own[p])
       /\ h.own[g] = g
  BY <1>13, MovesIs
<1>15. k.view[new] = Empty /\ k.own[new] = new /\ k.own[g] = g
  <2>1. h.own[new] = new
    BY <1>4, <1>7, PtrIs DEF Heap
  <2>2. h.view[new] = BlockOf(h.view[new].recs, h.view[new].next) /\ h.view[new].recs = <<>> /\ h.view[new].next = None
    BY <1>4, <1>6, <1>7, <2>1, GroupPlace
  <2>3. h.view[new] = Empty
    BY <2>2 DEF BlockOf, Empty
  <2>4. QED
    BY <1>3, <1>7, <1>14, <2>1, <2>3
<1>16. JobOK(u, k)'
  <2>1. job \in JobType
    <3>1. block[g].recs \in Seq(Rec) /\ block[g].next \in Over \cup {None}
      BY <1>7, BlockType
    <3>2. QED
      BY <1>4, <1>9, <1>11, <3>1 DEF JobType
  <2>2. DOMAIN proc'[u].was = {i \in Ids : Home(i) \in {g, new}}
    BY <1>5 DEF Snapshot
  <2>3. \A t \in 1 .. Len(job.to) : BufferOK(u, job.to[t], k)'
    <3>1. MyLock(u, g, TRUE) \in glock' /\ MyLock(u, new, TRUE) \in glock'
      BY <1>2, <1>3
    <3>2. BufferOK(u, job.to[1], k)' /\ BufferOK(u, job.to[2], k)'
      BY <1>3, <1>4, <1>10, <1>11, <1>14, <1>15, <3>1 DEF BufferOK
    <3>3. QED
      BY <1>10, <1>11, <3>2
  <2>4. k.own[job.to[1].at] # k.own[job.to[2].at]
    BY <1>3, <1>10, <1>11, <1>15
  <2>5. \A t \in 1 .. Len(job.to) : job.to[t].blk.next = None
    <3>1. Empty.next = None
      BY DEF Empty
    <3>2. QED
      BY <1>10, <1>11, <3>1
  <2>6. \A i \in DOMAIN proc'[u].was : Home(i)' = k.own[job.to[TargetOf(job, i)'].at]
    <3>1. ASSUME NEW i \in Ids, Home(i) \in {g, new}
          PROVE  Home(i)' = k.own[job.to[TargetOf(job, i)'].at]
      <4>1. TargetOf(job, i)' = IF HashGroup(i) = new THEN 2 ELSE 1
        BY <1>4, <1>7, <1>10, <3>1 DEF TargetOf
      <4>2. CASE HashGroup(i) = new
        BY <1>3, <1>10, <1>11, <1>15, <4>1, <4>2
      <4>3. CASE HashGroup(i) # new
        BY <1>3, <1>10, <1>11, <1>15, <3>1, <4>1, <4>3
      <4>4. QED
        BY <4>2, <4>3
    <3>2. QED
      BY <2>2, <3>1
  <2>7. /\ job.to # <<>> /\ Len(job.to) = 2 /\ Len(job.to) <= 2
    BY <1>10, <1>11
  <2>8. PICK j : j = job
    OBVIOUS
  <2>9. proc'[u].job = j /\ proc'[u].then.at = "release"
    BY <1>5, <2>8
  <2>10. /\ j \in JobType /\ DOMAIN proc'[u].was \subseteq Ids /\ Len(j.to) <= 2
         /\ (\A t \in 1 .. Len(j.to) : BufferOK(u, j.to[t], k)')
         /\ k.own[j.to[1].at] # k.own[j.to[2].at]
         /\ j.src = None /\ j.pack = FALSE /\ j.to # <<>> /\ Len(j.to) = 2
         /\ (\A t \in 1 .. Len(j.to) : j.to[t].blk.next = None)
    BY <1>10, <2>1, <2>2, <2>3, <2>4, <2>5, <2>7, <2>8
  <2>11. \A i \in DOMAIN proc'[u].was : Home(i)' = k.own[j.to[TargetOf(j, i)'].at]
    BY <2>6, <2>8
  <2>12. QED
    BY <2>9, <2>10, <2>11 DEF JobOK
<1>17. Heap(k)'
  BY <1>2, <1>13, <1>16, MovesHeap
<1>18. k.kept = h.kept
  BY <1>13 DEF Moves
<1>19. QED
  BY <1>17, <1>18
-----------------------------------------------------------------------------
(* A merge begins.                                                          *)
LEMMA GroupEnd ==
  ASSUME NEW h, Heap(h), block \in [Place -> Block], NEW g \in Groups, ~WriteLocked(g),
         NEW c, c = GroupChain(g), NEW end, end = c[Len(c)]
  PROVE  end \in Place /\ h.own[end] = g /\ block[end] = h.view[end] /\ block[end].next = None
<1>1. PICK n : n = Len(c)
  OBVIOUS
<1>0. Strung(h, g, c, n)
  BY <1>1, ChainPlaces
<1>2. /\ n \in Nat \ {0}
      /\ (\A j \in 1 .. n : c[j] \in Place /\ h.own[c[j]] = g /\ block[c[j]] = h.view[c[j]])
      /\ \A j \in 1 .. n : block[c[j]].next = IF j = n THEN None ELSE OverflowNo(c[j + 1])
  BY <1>0 DEF Strung
<1>3. n \in 1 .. n
  BY <1>2
<1>4. end = c[n]
  BY <1>1
<1>5. QED
  BY <1>2, <1>3, <1>4

LEMMA MergeStartHeap ==
  ASSUME HashInv, NEW u \in Users, NEW h, Heap(h), block \in [Place -> Block], MergeStart(u)
  PROVE  \E k : Heap(k)' /\ k.kept = h.kept
<1>1. PICK old, g, job : old = modulus /\ g = old - modValue \div 2 /\ job = MergeJob(g, old)
  OBVIOUS
<1>2. /\ Orderly(u) /\ proc[u].at = "merge" /\ UNCHANGED file /\ CanLock(g, TRUE) /\ CanLock(old, TRUE)
      /\ glock' = glock \cup {MyLock(u, g, TRUE), MyLock(u, old, TRUE)} /\ modulus' = old - 1
      /\ Goes(u, [at |-> "rewrite", was |-> Snapshot({g, old}), put |-> {}, then |-> [at |-> "release"], job |-> job])
  <2>1. Orderly(u)
    BY StepOrderly DEF Steps
  <2>2. QED
    BY <1>1, <2>1 DEF MergeStart, Rewrite
<1>3. /\ g \in Groups /\ g # old /\ old \in Groups
      /\ (\A i \in Ids : Home(i)' = IF Home(i) = old THEN g ELSE Home(i))
  BY <1>1, MergeStartStep
<1>4. ~WriteLocked(g) /\ ~WriteLocked(old)
  BY <1>2 DEF CanLock, WriteLocked, MyLock
<1>5. /\ proc'[u].at = "rewrite" /\ proc'[u].was = Snapshot({g, old}) /\ proc'[u].put = {}
      /\ proc'[u].then.at = "release" /\ proc'[u].job = job /\ \A v \in Users : v # u => proc'[v] = proc[v]
  BY <1>2 DEF Goes, HashInv
<1>6. \A m \in Groups : m # old /\ AbsentGroup(m)' => AbsentGroup(m)
  <2>1. ASSUME NEW m \in Groups, m # old, m > modulus'
        PROVE  m > modulus
    BY <1>1, <1>2, <1>3, <2>1, FileConstants DEF Groups
  <2>2. QED
    BY <1>2, <1>5, <2>1 DEF AbsentGroup
<1>7. Primary(g) = g /\ Primary(old) = old /\ g \in Place /\ old \in Place /\ None \notin Groups
  BY <1>3, Places
<1>8. PICK end : end = GroupChain(g)[Len(GroupChain(g))]
  OBVIOUS
<1>9. end \in Place /\ h.own[end] = g /\ block[end] = h.view[end] /\ block[end].next = None
  BY <1>3, <1>4, <1>8, GroupEnd
<1>10. PICK to : to = <<Buffer(end, block[end]), Buffer(old, Empty)>>
  OBVIOUS
<1>11. job = [to |-> to, pack |-> FALSE, todo |-> block[old].recs, src |-> None, rest |-> block[old].next, new |-> None]
  BY <1>1, <1>7, <1>8, <1>10 DEF MergeJob, NoJob
<1>12. /\ job.to = to /\ job.pack = FALSE /\ job.todo = block[old].recs /\ job.src = None /\ job.rest = block[old].next
       /\ job.new = None
  BY <1>11
<1>13. /\ to \in Seq([at : Place, blk : Block]) /\ Len(to) = 2 /\ to # <<>>
       /\ to[1].at = end /\ to[1].blk = block[end] /\ to[2].at = old /\ to[2].blk = Empty
       /\ (\A t \in 1 .. Len(to) : t = 1 \/ t = 2)
  <2>1. Empty \in Block /\ block[end] \in Block
    BY <1>9, NoRecs DEF Empty, Block, NoPart, Part
  <2>2. PICK e, b : e = Empty /\ b = block[end]
    OBVIOUS
  <2>3. e \in Block /\ b \in Block /\ to = <<Buffer(end, b), Buffer(old, e)>>
    BY <1>10, <2>1, <2>2
  <2>4. AreBuffers(to, end, old, b, e)
    BY <1>7, <1>9, <2>3 DEF AreBuffers
  <2>5. Buffers(to, end, old, b, e)
    BY <2>4, TwoBuffers
  <2>6. QED
    BY <2>2, <2>5 DEF Buffers
<1>14. PICK k : k = [view |-> [h.view EXCEPT ![old] = Empty], ptr |-> Swapped(h.ptr, NextPos(old), RestPos(u)),
                     own |-> MovedOwn(h.own, old), kept |-> h.kept, at |-> AtMoved(h, old)]
  OBVIOUS
<1>15. Moves(u, h, k, old, {g, old}, job)
  <2>1. \A m \in {g, old} : MyLock(u, m, TRUE) \in glock'
    BY <1>2, <1>3
  <2>2. \A i \in Ids : /\ Home(i) # old => Home(i)' = Home(i)
                       /\ Home(i) \in {g, old} => Home(i)' \in {g, old} /\ ~WriteLocked(Home(i))
    BY <1>3, <1>4
  <2>3. old \in {job.to[t].at : t \in 1 .. Len(job.to)}
    BY <1>12, <1>13
  <2>4. {g, old} \subseteq Groups
    BY <1>3, <1>4
  <2>5. QED
    BY <1>2, <1>4, <1>5, <1>6, <1>12, <1>14, <2>1, <2>2, <2>3, <2>4 DEF Moves
<1>16. /\ k.view[old] = Empty /\ (\A p \in Place : p # old => k.view[p] = h.view[p])
       /\ (\A p \in Place : k.own[p] = IF h.own[p] = old /\ p # old THEN Moving ELSE h.own[p])
       /\ h.own[old] = old
  BY <1>15, MovesIs
<1>17. k.view[end] = block[end] /\ k.own[end] = g /\ k.own[old] = old
  <2>1. end # old
    BY <1>3, <1>9, <1>16
  <2>2. QED
    BY <1>3, <1>7, <1>9, <1>16, <2>1
<1>18. JobOK(u, k)'
  <2>1. job \in JobType
    <3>1. block[old].recs \in Seq(Rec) /\ block[old].next \in Over \cup {None}
      BY <1>7, BlockType
    <3>2. QED
      BY <1>11, <1>13, <3>1 DEF JobType
  <2>2. DOMAIN proc'[u].was = {i \in Ids : Home(i) \in {g, old}}
    BY <1>5 DEF Snapshot
  <2>3. \A t \in 1 .. Len(job.to) : BufferOK(u, job.to[t], k)'
    <3>1. MyLock(u, g, TRUE) \in glock' /\ MyLock(u, old, TRUE) \in glock'
      BY <1>2, <1>3
    <3>2. BufferOK(u, job.to[1], k)' /\ BufferOK(u, job.to[2], k)'
      BY <1>3, <1>4, <1>12, <1>13, <1>16, <1>17, <3>1 DEF BufferOK
    <3>3. QED
      BY <1>12, <1>13, <3>2
  <2>4. k.own[job.to[1].at] # k.own[job.to[2].at]
    BY <1>3, <1>12, <1>13, <1>17
  <2>5. \A t \in 1 .. Len(job.to) : job.to[t].blk.next = None
    <3>1. Empty.next = None
      BY DEF Empty
    <3>2. QED
      BY <1>9, <1>12, <1>13, <3>1
  <2>6. \A i \in DOMAIN proc'[u].was : Home(i)' = k.own[job.to[TargetOf(job, i)'].at]
    <3>1. ASSUME NEW i \in Ids, Home(i) \in {g, old}
          PROVE  Home(i)' = k.own[job.to[TargetOf(job, i)'].at]
      <4>1. TargetOf(job, i)' = 1
        BY <1>12 DEF TargetOf
      <4>2. Home(i)' = g
        BY <1>3, <3>1
      <4>3. QED
        BY <1>12, <1>13, <1>17, <4>1, <4>2
    <3>2. QED
      BY <2>2, <3>1
  <2>7. /\ job.to # <<>> /\ Len(job.to) = 2 /\ Len(job.to) <= 2
    BY <1>12, <1>13
  <2>8. PICK j : j = job
    OBVIOUS
  <2>9. proc'[u].job = j /\ proc'[u].then.at = "release"
    BY <1>5, <2>8
  <2>10. /\ j \in JobType /\ DOMAIN proc'[u].was \subseteq Ids /\ Len(j.to) <= 2
         /\ (\A t \in 1 .. Len(j.to) : BufferOK(u, j.to[t], k)')
         /\ k.own[j.to[1].at] # k.own[j.to[2].at]
         /\ j.src = None /\ j.pack = FALSE /\ j.to # <<>> /\ Len(j.to) = 2
         /\ (\A t \in 1 .. Len(j.to) : j.to[t].blk.next = None)
    BY <1>12, <2>1, <2>2, <2>3, <2>4, <2>5, <2>7, <2>8
  <2>11. \A i \in DOMAIN proc'[u].was : Home(i)' = k.own[j.to[TargetOf(j, i)'].at]
    BY <2>6, <2>8
  <2>12. QED
    BY <2>9, <2>10, <2>11 DEF JobOK
<1>19. Heap(k)'
  BY <1>2, <1>15, <1>18, MovesHeap
<1>20. k.kept = h.kept
  BY <1>15 DEF Moves
<1>21. QED
  BY <1>19, <1>20
-----------------------------------------------------------------------------
(* A write or a delete begins: new is what is to become of the record i of  *)
(* the group g.                                                             *)
BigOK(h, new, i) ==
  \/ new = {}
  \/ \E r \in Rec : /\ new = {r} /\ r.id = i
                    /\ r.big # None => h.view[Overflow(r.big)].part = [val |-> r.val, nth |-> 1]

Starts(u, h, g, i, new, job) ==
  /\ u \in Users /\ g \in Groups /\ i \in Ids /\ Orderly(u) /\ UNCHANGED file
  /\ Home(i) = g /\ ~WriteLocked(g) /\ ~AbsentGroup(g) /\ MyLock(u, g, TRUE) \in glock'
  /\ (\A j \in Ids : Home(j)' = Home(j)) /\ \A m : AbsentGroup(m)' <=> AbsentGroup(m)
  /\ proc[u].at \in {"idle", "write"} /\ OldBig(new) = BigOf(proc[u]) /\ BigOK(h, new, i)
  /\ proc'[u].at = "rewrite" /\ proc'[u].was = Snapshot({g}) /\ proc'[u].job = job
  /\ proc'[u].put = {[id |-> i, val |-> ValIn(new)]}
  /\ proc'[u].then.at = "tidy" /\ proc'[u].then.big = OldBig(h.kept[i])

(* The buffer and what is to be added to it.                                *)
StartJob(k, g, i, new, job) ==
  /\ job \in JobType /\ Len(job.to) <= 1 /\ job.rest = None /\ job.new = None
  /\ job.pack => job.src = None
  /\ job.todo = <<>> \/ \E r : new = {r} /\ job.todo = <<r>>
  /\ new # {} => (k.at[i] = 0 <=> job.todo # <<>>)
  /\ job.todo # <<>> \/ job.src # None => job.to # <<>>
  /\ job.src # None => k.view[Overflow(job.src)] = Empty
  /\ \A t \in 1 .. Len(job.to) :
       /\ job.to[t].at \in Place /\ k.view[job.to[t].at] = job.to[t].blk /\ k.own[job.to[t].at] = g
       /\ job.todo # <<>> /\ ~job.pack => job.to[t].blk.next = None

(* A place of the group.                                                    *)
StartPlace(h, k, g, i, new, job, p) ==
  /\ k.view[p].part = NoPart /\ DistinctIds(k.view[p].recs) /\ k.ptr[NextPos(p)] = k.view[p].next
  /\ \A x \in RecsIn(k.view[p].recs) :
       \/ x \in new /\ k.at[i] = p
       \/ x.id # i /\ x \in RecsIn(h.view[p].recs)
  /\ \A x \in RecsIn(h.view[p].recs) : x.id # i => x \in RecsIn(k.view[p].recs) /\ k.own[p] = g
  /\ k.view[p] = h.view[p] \/ p \in WorkHand(job)

StartPtr(u, h, k, g, i, new, job) ==
  /\ Chained(k.ptr, k.own, fileEnd)
  /\ k.ptr[RecPos(i)] = OldBig(new) /\ k.ptr[BigPos(u)] = OldBig(h.kept[i]) /\ k.ptr[SrcPos(u)] = job.src
  /\ \A x \in Pos : /\ x \notin {RecPos(i), BigPos(u), SrcPos(u)}
                    /\ \A p \in Place : h.own[p] = g => x # NextPos(p)
                    => k.ptr[x] = h.ptr[x]

Puts(u, h, k, g, i, new, job) ==
  /\ k.view \in [Place -> Block] /\ k.at \in [Ids -> Nat] /\ k.kept = [h.kept EXCEPT ![i] = new]
  /\ \A j \in Ids : j # i => k.at[j] = h.at[j]
  /\ StartPtr(u, h, k, g, i, new, job) /\ StartJob(k, g, i, new, job)
  /\ \A p \in Place : h.own[p] # g => k.view[p] = h.view[p] /\ k.own[p] = h.own[p]
  /\ \A p \in Place : h.own[p] = g => StartPlace(h, k, g, i, new, job, p)
  /\ new # {} /\ k.at[i] # 0 =>
       k.at[i] \in Place /\ k.own[k.at[i]] = g /\ new \subseteq RecsIn(k.view[k.at[i]].recs)

(* Nothing else is to become of any record.                                 *)
Rekept(h, i, new) == \E k : Heap(k)' /\ k.kept = [h.kept EXCEPT ![i] = new]

LEMMA OneRec ==
  ASSUME NEW r \in Rec
  PROVE  <<r>> \in Seq(Rec) /\ RecsIn(<<r>>) = {r} /\ DistinctIds(<<r>>) /\ <<r>> # <<>>
BY DEF RecsIn, DistinctIds

LEMMA PutsKept ==
  ASSUME HashInv, NEW h, Heap(h), NEW u, NEW g, NEW i, NEW new, NEW job, Starts(u, h, g, i, new, job),
         NEW k, Puts(u, h, k, g, i, new, job)
  PROVE  /\ k.kept[i] = new /\ (\A j \in Ids : j # i => k.kept[j] = h.kept[j]) /\ k.kept \in [Ids -> SUBSET Rec]
         /\ new \subseteq Rec /\ \A r \in new : r.id = i /\ new = {r}
         /\ RecsIn(job.todo) = IF job.todo = <<>> THEN {} ELSE new
         /\ DistinctIds(job.todo)
<1>1. i \in Ids /\ BigOK(h, new, i) /\ StartJob(k, g, i, new, job) /\ k.kept = [h.kept EXCEPT ![i] = new]
      /\ h.kept \in [Ids -> SUBSET Rec]
  BY DEF Starts, Puts, Heap
<1>2. new \subseteq Rec /\ \A r \in new : r.id = i /\ new = {r}
  BY <1>1 DEF BigOK
<1>3. k.kept[i] = new /\ (\A j \in Ids : j # i => k.kept[j] = h.kept[j]) /\ k.kept \in [Ids -> SUBSET Rec]
  BY <1>1, <1>2
<1>4. RecsIn(job.todo) = (IF job.todo = <<>> THEN {} ELSE new) /\ DistinctIds(job.todo)
  <2>1. CASE job.todo = <<>>
    BY <2>1, NoRecs
  <2>2. CASE job.todo # <<>>
    <3>1. PICK r : new = {r} /\ job.todo = <<r>>
      BY <1>1, <2>2 DEF StartJob
    <3>2. r \in Rec
      BY <1>2, <3>1
    <3>3. QED
      BY <2>2, <3>1, <3>2, OneRec
  <2>3. QED
    BY <2>1, <2>2
<1>5. QED
  BY <1>2, <1>3, <1>4

LEMMA StartsHeld ==
  ASSUME HashInv, NEW h, Heap(h), block \in [Place -> Block], NEW u, NEW g, NEW i, NEW new, NEW job,
         Starts(u, h, g, i, new, job), NEW k, Puts(u, h, k, g, i, new, job)
  PROVE  HeldOK(u, k)'
<1>1. /\ u \in Users /\ g \in Groups /\ i \in Ids /\ Home(i) = g /\ ~WriteLocked(g)
      /\ MyLock(u, g, TRUE) \in glock' /\ (\A j \in Ids : Home(j)' = Home(j))
      /\ proc[u].at \in {"idle", "write"}
      /\ proc'[u].at = "rewrite" /\ proc'[u].was = Snapshot({g}) /\ proc'[u].job = job
      /\ proc'[u].put = {[id |-> i, val |-> ValIn(new)]}
      /\ proc'[u].then.at = "tidy" /\ proc'[u].then.big = OldBig(h.kept[i])
  BY DEF Starts
<1>2. /\ k.kept[i] = new /\ (\A j \in Ids : j # i => k.kept[j] = h.kept[j])
      /\ new \subseteq Rec /\ (\A r \in new : r.id = i /\ new = {r})
      /\ RecsIn(job.todo) = (IF job.todo = <<>> THEN {} ELSE new) /\ DistinctIds(job.todo)
  BY PutsKept
<1>3. StartPtr(u, h, k, g, i, new, job) /\ StartJob(k, g, i, new, job)
  BY DEF Puts
<1>4. DOMAIN proc'[u].was = {j \in Ids : Home(j) = g} /\ \A j \in Ids : Home(j) = g => proc'[u].was[j] = content[j]
  BY <1>1 DEF Snapshot
<1>5. /\ SrcOf(proc'[u]) = job.src /\ RestOf(proc'[u]) = None /\ BigOf(proc'[u]) = OldBig(h.kept[i])
      /\ TodoOf(proc'[u]) = job.todo
  BY <1>1, <1>3 DEF SrcOf, RestOf, BigOf, TodoOf, StartJob
<1>6. k.ptr[SrcPos(u)] = job.src /\ k.ptr[BigPos(u)] = OldBig(h.kept[i]) /\ k.ptr[RestPos(u)] = None
  <2>1. h.ptr[RestPos(u)] = None
    <3>1. RestOf(proc[u]) = None
      BY <1>1 DEF RestOf
    <3>2. QED
      BY <1>1, <3>1 DEF Heap, HeldOK
  <2>2. /\ RestPos(u) \in Pos /\ RestPos(u) \notin {RecPos(i), BigPos(u), SrcPos(u)}
        /\ (\A p \in Place : RestPos(u) # NextPos(p))
    BY <1>1, PosIn, PosDiffer
  <2>3. k.ptr[RestPos(u)] = h.ptr[RestPos(u)]
    BY <1>3, <2>2 DEF StartPtr
  <2>4. QED
    BY <1>3, <2>1, <2>3 DEF StartPtr
<1>7. \A r \in RecsIn(job.todo) : k.kept[r.id] = {r} /\ k.at[r.id] = 0 /\ r.id \in DOMAIN proc'[u].was
  BY <1>1, <1>2, <1>3, <1>4 DEF StartJob
<1>8. \A j \in DOMAIN proc'[u].was : ValIn(k.kept[j]) = Promised(proc'[u], j)
  <2>1. ASSUME NEW j \in Ids, Home(j) = g, j # i
        PROVE  ValIn(k.kept[j]) = Promised(proc'[u], j)
    <3>1. content[j] = ValIn(h.kept[j])
      BY <1>1, <2>1, ContentHome
    <3>2. Promised(proc'[u], j) = proc'[u].was[j]
      BY <1>1, <2>1 DEF Promised
    <3>3. QED
      BY <1>2, <1>4, <2>1, <3>1, <3>2
  <2>2. ValIn(k.kept[i]) = Promised(proc'[u], i)
    <3>1. PICK w : w = [id |-> i, val |-> ValIn(new)]
      OBVIOUS
    <3>2. w.id = i /\ w.val = ValIn(new) /\ proc'[u].put = {w}
      BY <1>1, <3>1
    <3>3. (CHOOSE x \in {w} : x.id = i) = w
      BY <3>2
    <3>4. Promised(proc'[u], i) = w.val
      BY <3>2, <3>3 DEF Promised
    <3>5. QED
      BY <1>2, <3>2, <3>4
  <2>3. QED
    BY <1>4, <2>1, <2>2
<1>9. JobOK(u, k)'
  <2>1. /\ job \in JobType /\ Len(job.to) <= 1 /\ job.rest = None /\ job.new = None
        /\ (job.pack => job.src = None) /\ (job.todo # <<>> \/ job.src # None => job.to # <<>>)
        /\ (job.src # None => k.view[Overflow(job.src)] = Empty)
        /\ \A t \in 1 .. Len(job.to) :
             /\ job.to[t].at \in Place /\ k.view[job.to[t].at] = job.to[t].blk /\ k.own[job.to[t].at] = g
             /\ job.todo # <<>> /\ ~job.pack => job.to[t].blk.next = None
    BY <1>3 DEF StartJob
  <2>2. PICK to : to = job.to
    OBVIOUS
  <2>3. /\ to \in Seq([at : Place, blk : Block]) /\ Len(to) \in Nat
    BY <2>1, <2>2 DEF JobType
  <2>4. Len(to) <= 1 /\ Len(to) <= 2 /\ Len(to) # 2
    BY SMTT(20), <2>1, <2>2, <2>3
  <2>5. \A t \in 1 .. Len(to) : BufferOK(u, to[t], k)'
    BY <1>1, <2>1, <2>2 DEF BufferOK
  <2>6. job.todo # <<>> \/ job.rest # None => \A j \in DOMAIN proc'[u].was : Home(j)' = k.own[to[TargetOf(job, j)'].at]
    <3>1. ASSUME job.todo # <<>>, NEW j \in Ids, Home(j) = g
          PROVE  Home(j)' = k.own[to[TargetOf(job, j)'].at]
      <4>1. TargetOf(job, j)' = 1
        BY <2>1 DEF TargetOf
      <4>2. 1 \in 1 .. Len(to)
        <5>1. Len(to) # 0
          BY <2>1, <2>2, <2>3, <3>1, EmptySeq
        <5>2. QED
          BY <2>3, <5>1
      <4>3. QED
        BY <1>1, <2>1, <2>2, <3>1, <4>1, <4>2
    <3>2. QED
      BY <1>4, <2>1, <3>1
  <2>7. DOMAIN proc'[u].was \subseteq Ids
    BY <1>4
  <2>8. PICK j : j = job
    OBVIOUS
  <2>9. proc'[u].job = j /\ proc'[u].then.at = "tidy"
    BY <1>1, <2>8
  <2>10. /\ j \in JobType /\ DOMAIN proc'[u].was \subseteq Ids /\ Len(j.to) <= 2 /\ Len(j.to) <= 1 /\ Len(j.to) # 2
         /\ (\A t \in 1 .. Len(j.to) : BufferOK(u, j.to[t], k)')
         /\ j.rest = None /\ j.new = None /\ (j.pack => j.src = None)
         /\ (j.todo # <<>> \/ j.src # None => j.to # <<>>)
         /\ (j.src # None => k.view[Overflow(j.src)] = Empty)
         /\ (j.todo # <<>> /\ ~j.pack => \A t \in 1 .. Len(j.to) : j.to[t].blk.next = None)
    BY <2>1, <2>2, <2>4, <2>5, <2>7, <2>8
  <2>11. j.todo # <<>> \/ j.rest # None => \A m \in DOMAIN proc'[u].was : Home(m)' = k.own[j.to[TargetOf(j, m)'].at]
    BY <2>2, <2>6, <2>8
  <2>12. QED
    BY <2>9, <2>10, <2>11 DEF JobOK
<1>10. QED
  BY <1>1, <1>2, <1>5, <1>6, <1>7, <1>8, <1>9 DEF HeldOK

LEMMA StartsPlace ==
  ASSUME HashInv, NEW h, Heap(h), NEW u, NEW g, NEW i, NEW new, NEW job,
         Starts(u, h, g, i, new, job), NEW k, Puts(u, h, k, g, i, new, job), NEW p \in Place, h.own[p] = g
  PROVE  PlaceOK(p, k)'
<1>1. /\ u \in Users /\ g \in Groups /\ i \in Ids /\ UNCHANGED file /\ ~WriteLocked(g) /\ ~AbsentGroup(g)
      /\ (\A m : AbsentGroup(m)' <=> AbsentGroup(m)) /\ proc'[u].at = "rewrite" /\ proc'[u].job = job
  BY DEF Starts
<1>2. /\ k.kept[i] = new /\ (\A j \in Ids : j # i => k.kept[j] = h.kept[j])
      /\ new \subseteq Rec /\ (\A r \in new : r.id = i /\ new = {r})
  BY PutsKept
<1>3. StartPlace(h, k, g, i, new, job, p) /\ \A j \in Ids : j # i => k.at[j] = h.at[j]
  BY DEF Puts
<1>4. /\ (\A r \in RecsIn(h.view[p].recs) : h.kept[r.id] = {r} /\ h.at[r.id] = p)
      /\ (p \notin Groups => OverflowNo(p) <= fileEnd) /\ (p \in Groups => p = g)
      /\ h.view[p].recs \in Seq(Rec) /\ block[p] = h.view[p]
  <2>1. \A q \in Place : h.own[q] = g => block[q] = h.view[q]
    BY <1>1, OnDiskGroup
  <2>2. QED
    BY <1>1, <2>1, GroupPlace
<1>5. k.ptr[NextPos(p)] = k.view[p].next /\ DistinctIds(k.view[p].recs) /\ k.view[p].part = NoPart
  BY <1>3 DEF StartPlace
<1>6. ASSUME NEW r \in RecsIn(k.view[p].recs)
      PROVE  k.kept[r.id] = {r} /\ k.at[r.id] = p
  <2>1. CASE r \in new /\ k.at[i] = p
    BY <1>2, <2>1
  <2>2. CASE r.id # i /\ r \in RecsIn(h.view[p].recs)
    <3>1. r \in Rec
      BY <1>4, <2>2, SomeRecs
    <3>2. r.id \in Ids
      BY <3>1 DEF Rec
    <3>3. QED
      BY <1>2, <1>3, <1>4, <2>2, <3>2
  <2>3. QED
    BY <1>3, <1>6, <2>1, <2>2 DEF StartPlace
<1>7. (\A v \in Users : p \notin InHand(proc'[v])) => block'[p] = k.view[p]
  <2>1. InHand(proc'[u]) = WorkHand(job)
    BY <1>1 DEF InHand, Buffered, Given, SrcOf, WorkHand
  <2>2. block'[p] = h.view[p]
    BY <1>1, <1>4 DEF file
  <2>3. QED
    BY <1>1, <1>3, <2>1, <2>2 DEF StartPlace
<1>8. ~(p \in Groups /\ AbsentGroup(p)')
  BY <1>1, <1>4
<1>9. ~(p \notin Groups /\ OverflowNo(p) > fileEnd')
  <2>1. fileEnd \in Nat /\ fileEnd' = fileEnd
    BY <1>1, PtrIs DEF Heap, file
  <2>2. p \notin Groups => OverflowNo(p) \in Int
    BY Places, FileConstants DEF Over
  <2>3. QED
    BY <1>4, <2>1, <2>2
<1>10. PartOK(p, k)'
  BY <1>5 DEF PartOK
<1>11. QED
  BY <1>5, <1>6, <1>7, <1>8, <1>9, <1>10 DEF PlaceOK

LEMMA StartsId ==
  ASSUME HashInv, NEW h, Heap(h), NEW u, NEW g, NEW i, NEW new, NEW job,
         Starts(u, h, g, i, new, job), NEW k, Puts(u, h, k, g, i, new, job), NEW j \in Ids, Home(j) = g
  PROVE  IdOK(j, k)'
<1>1. /\ u \in Users /\ g \in Groups /\ i \in Ids /\ ~WriteLocked(g) /\ (\A m \in Ids : Home(m)' = Home(m))
      /\ BigOK(h, new, i) /\ proc'[u].at = "rewrite" /\ proc'[u].job = job /\ Home(i) = g
  BY DEF Starts
<1>2. /\ k.kept[i] = new /\ (\A m \in Ids : m # i => k.kept[m] = h.kept[m])
      /\ new \subseteq Rec /\ (\A r \in new : r.id = i /\ new = {r})
      /\ RecsIn(job.todo) = (IF job.todo = <<>> THEN {} ELSE new)
  BY PutsKept
<1>3. /\ StartPtr(u, h, k, g, i, new, job) /\ StartJob(k, g, i, new, job)
      /\ (\A m \in Ids : m # i => k.at[m] = h.at[m])
      /\ (\A p \in Place : h.own[p] # g => k.view[p] = h.view[p] /\ k.own[p] = h.own[p])
      /\ (\A p \in Place : h.own[p] = g => StartPlace(h, k, g, i, new, job, p))
      /\ (new # {} /\ k.at[i] # 0 =>
            k.at[i] \in Place /\ k.own[k.at[i]] = g /\ new \subseteq RecsIn(k.view[k.at[i]].recs))
  BY DEF Puts
<1>4. ASSUME NEW r \in Rec, r.big # None, h.view[Overflow(r.big)].part = [val |-> r.val, nth |-> 1]
      PROVE  k.view[Overflow(r.big)].part = [val |-> r.val, nth |-> 1]
  <2>1. r.big \in Over
    BY <1>4 DEF Rec
  <2>2. Overflow(r.big) \in Place
    BY <2>1, Places
  <2>3. NoPart # [val |-> r.val, nth |-> 1]
    BY DEF NoPart
  <2>4. h.own[Overflow(r.big)] # g
    BY <1>1, <1>4, <2>2, <2>3, GroupPlace
  <2>5. QED
    BY <1>3, <1>4, <2>2, <2>4
<1>5. CASE j = i
  <2>1. k.ptr[RecPos(i)] = OldBig(k.kept[i])
    BY <1>2, <1>3 DEF StartPtr
  <2>2. CASE new = {}
    BY <1>2, <1>5, <2>1, <2>2 DEF IdOK
  <2>3. CASE new # {}
    <3>1. \E r \in Rec : r.id = i /\ k.kept[i] = {r}
      BY <1>2, <2>3
    <3>2. \A r \in k.kept[i] : r.big # None => k.view[Overflow(r.big)].part = [val |-> r.val, nth |-> 1]
      BY <1>1, <1>2, <1>4 DEF BigOK
    <3>3. CASE k.at[i] = 0
      <4>1. k.kept[i] \subseteq RecsIn(TodoOf(proc'[u]))
        BY <1>1, <1>2, <1>3, <2>3, <3>3 DEF StartJob, TodoOf
      <4>2. QED
        BY <1>1, <1>5, <2>1, <3>1, <3>2, <3>3, <4>1 DEF IdOK
    <3>4. CASE k.at[i] # 0
      <4>1. InPlace(i, k)'
        BY <1>1, <1>2, <1>3, <2>3, <3>4 DEF InPlace
      <4>2. QED
        BY <1>5, <2>1, <3>1, <3>2, <3>4, <4>1 DEF IdOK
    <3>5. QED
      BY <3>3, <3>4
  <2>4. QED
    BY <2>2, <2>3
<1>6. CASE j # i
  <2>1. IdOK(j, h) /\ k.kept[j] = h.kept[j] /\ k.at[j] = h.at[j]
    BY <1>2, <1>3, <1>6 DEF Heap
  <2>2. k.ptr[RecPos(j)] = OldBig(k.kept[j])
    <3>1. /\ RecPos(j) \in Pos /\ RecPos(j) \notin {RecPos(i), BigPos(u), SrcPos(u)}
          /\ (\A p \in Place : RecPos(j) # NextPos(p))
      BY <1>1, <1>6, PosIn, PosDiffer
    <3>2. QED
      BY <1>3, <2>1, <3>1 DEF StartPtr, IdOK
  <2>3. CASE h.kept[j] = {}
    BY <2>1, <2>2, <2>3 DEF IdOK
  <2>4. CASE h.kept[j] # {}
    <3>1. PICK p : p = h.at[j]
      OBVIOUS
    <3>2. p \in Place /\ h.own[p] = g /\ h.kept[j] \subseteq RecsIn(h.view[p].recs)
      BY <1>1, <2>4, <3>1, GroupIds
    <3>3. PICK r \in Rec : r.id = j /\ h.kept[j] = {r}
      BY <2>1, <2>4 DEF IdOK
    <3>4. r \in RecsIn(k.view[p].recs) /\ k.own[p] = g
      BY <1>3, <1>6, <3>2, <3>3 DEF StartPlace
    <3>5. r.big # None => k.view[Overflow(r.big)].part = [val |-> r.val, nth |-> 1]
      <4>1. r.big # None => h.view[Overflow(r.big)].part = [val |-> r.val, nth |-> 1]
        BY <2>1, <2>4, <3>3 DEF IdOK
      <4>2. QED
        BY <1>4, <4>1
    <3>6. InPlace(j, k)' /\ k.at[j] # 0
      <4>1. p # 0
        BY <3>2, FileConstants DEF Place
      <4>2. QED
        BY <1>1, <2>1, <3>1, <3>2, <3>3, <3>4, <4>1 DEF InPlace
    <3>7. QED
      BY <2>1, <2>2, <3>3, <3>5, <3>6 DEF IdOK
  <2>5. QED
    BY <2>3, <2>4
<1>7. QED
  BY <1>5, <1>6

LEMMA StartsHeap ==
  ASSUME HashInv, NEW h, Heap(h), block \in [Place -> Block], NEW u, NEW g, NEW i, NEW new, NEW job,
         Starts(u, h, g, i, new, job), NEW k, Puts(u, h, k, g, i, new, job)
  PROVE  Heap(k)'
<1>1. /\ u \in Users /\ g \in Groups /\ i \in Ids /\ Orderly(u) /\ UNCHANGED file /\ ~WriteLocked(g)
      /\ MyLock(u, g, TRUE) \in glock' /\ (\A j \in Ids : Home(j)' = Home(j))
      /\ (\A m : AbsentGroup(m)' <=> AbsentGroup(m)) /\ proc[u].at \in {"idle", "write"}
  BY DEF Starts
<1>2. /\ k.view \in [Place -> Block] /\ k.at \in [Ids -> Nat] /\ k.kept \in [Ids -> SUBSET Rec]
      /\ (\A j \in Ids : j # i => k.kept[j] = h.kept[j] /\ k.at[j] = h.at[j])
      /\ StartPtr(u, h, k, g, i, new, job)
      /\ (\A p \in Place : h.own[p] # g => k.view[p] = h.view[p] /\ k.own[p] = h.own[p])
  <2>1. k.kept \in [Ids -> SUBSET Rec] /\ \A j \in Ids : j # i => k.kept[j] = h.kept[j]
    BY PutsKept
  <2>2. QED
    BY <2>1 DEF Puts
<1>3. /\ Chained(k.ptr, k.own, fileEnd)
      /\ \A x \in Pos : /\ x \notin {RecPos(i), BigPos(u), SrcPos(u)}
                        /\ \A p \in Place : h.own[p] = g => x # NextPos(p)
                        => k.ptr[x] = h.ptr[x]
  BY <1>2 DEF StartPtr
<1>4. PICK T, I : T = {p \in Place : h.own[p] = g} /\ I = {j \in Ids : Home(j) = g}
  OBVIOUS
<1>5. /\ SrcOf(proc[u]) = None /\ RestOf(proc[u]) = None /\ TodoOf(proc[u]) = <<>> /\ InHand(proc[u]) = {}
      /\ RecsIn(TodoOf(proc[u])) = {}
  BY <1>1, NoRecs DEF SrcOf, RestOf, TodoOf, InHand, Given, Buffered
<1>6. LeftPlaces(u, T, h, k)
  <2>1. ASSUME NEW q \in Place, q \notin T
        PROVE  k.view[q] = h.view[q] /\ k.own[q] = h.own[q] /\ k.ptr[NextPos(q)] = h.ptr[NextPos(q)] /\ block'[q] = block[q]
    <3>1. h.own[q] # g
      BY <1>4, <2>1
    <3>2. /\ NextPos(q) \in Pos /\ NextPos(q) \notin {RecPos(i), BigPos(u), SrcPos(u)}
          /\ (\A p \in Place : h.own[p] = g => NextPos(q) # NextPos(p))
      BY <1>1, <3>1, PosIn, PosDiffer
    <3>3. QED
      BY <1>1, <1>2, <1>3, <3>1, <3>2 DEF file
  <2>2. \A q \in T : Touchable(u, q, h) /\ PartsLeft(u, q, T, h, k)
    <3>1. \A q \in T : h.own[q] = g /\ h.view[q].part = NoPart
      BY <1>1, <1>4, GroupPlace
    <3>2. QED
      BY <1>1, <3>1 DEF Touchable, PartsLeft
  <2>3. \A m \in Groups : m \notin T /\ AbsentGroup(m)' => AbsentGroup(m)
    BY <1>1
  <2>4. QED
    BY <1>1, <1>4, <1>5, <2>1, <2>2, <2>3 DEF LeftPlaces
<1>7. LeftIds(u, T, I, h, k)
  <2>1. ASSUME NEW j \in Ids, j \notin I
        PROVE  /\ k.kept[j] = h.kept[j] /\ k.at[j] = h.at[j] /\ k.ptr[RecPos(j)] = h.ptr[RecPos(j)]
               /\ h.kept[j] # {} => Home(j)' = Home(j)
               /\ h.kept[j] # {} => h.at[j] \notin T
    <3>1. Home(i) = g
      BY DEF Starts
    <3>2. Home(j) # g /\ j # i
      BY <1>4, <2>1, <3>1
    <3>3. /\ RecPos(j) \in Pos /\ RecPos(j) \notin {RecPos(i), BigPos(u), SrcPos(u)}
          /\ (\A p \in Place : RecPos(j) # NextPos(p))
      BY <1>1, <3>2, PosIn, PosDiffer
    <3>4. k.ptr[RecPos(j)] = h.ptr[RecPos(j)]
      BY <1>3, <3>3
    <3>5. h.kept[j] # {} => h.at[j] \notin T
      BY <1>1, <1>4, <3>2, GroupIds
    <3>6. QED
      BY <1>1, <1>2, <3>2, <3>4, <3>5
  <2>2. \A j \in I : MyLock(u, Home(j)', TRUE) \in glock'
    BY <1>1, <1>4
  <2>3. ASSUME NEW q \in Place, q \notin T, NEW r \in RecsIn(h.view[q].recs)
        PROVE  r.id \notin I
    <3>1. PlaceOK(q, h) /\ h.view[q].recs \in Seq(Rec)
      BY BlockType DEF Heap
    <3>2. h.kept[r.id] = {r} /\ h.at[r.id] = q /\ r \in Rec
      BY <2>3, <3>1, SomeRecs DEF PlaceOK
    <3>3. SUFFICES ASSUME Home(r.id) = g, r.id \in Ids
                   PROVE  FALSE
      BY <1>4
    <3>4. h.own[q] = g
      BY <1>1, <3>2, <3>3, GroupIds
    <3>5. QED
      BY <1>4, <2>3, <3>4
  <2>4. I \subseteq Ids
    BY <1>4
  <2>5. QED
    BY <1>5, <2>1, <2>2, <2>3, <2>4 DEF LeftIds
<1>8. LeftOthers(u, h, k)
  <2>1. ASSUME NEW v \in Users, v # u, NEW x \in {SrcPos(v), RestPos(v), BigPos(v)}
        PROVE  k.ptr[x] = h.ptr[x]
    <3>1. x \in Pos /\ x \notin {RecPos(i), BigPos(u), SrcPos(u)} /\ (\A p \in Place : x # NextPos(p))
      BY <2>1, PosIn, PosDiffer
    <3>2. QED
      BY <1>3, <3>1
  <2>2. QED
    BY <2>1 DEF LeftOthers
<1>9. k.ptr[FreePos] = freeChain' /\ fileEnd' = fileEnd /\ fileEnd \in Nat
  <2>1. FreePos \in Pos /\ FreePos \notin {RecPos(i), BigPos(u), SrcPos(u)} /\ (\A p \in Place : FreePos # NextPos(p))
    BY <1>1, PosIn, PosDiffer
  <2>2. QED
    BY <1>1, <1>3, <2>1, PtrIs DEF Heap, file
<1>10. HeldOK(u, k)'
  BY StartsHeld
<1>11. \A q \in T : PlaceOK(q, k)'
  BY <1>4, StartsPlace
<1>12. \A j \in I : IdOK(j, k)'
  BY <1>4, StartsId
<1>13. fileEnd <= fileEnd' /\ Chained(k.ptr, k.own, fileEnd')
  BY <1>3, <1>9
<1>14. QED
  BY <1>1, <1>2, <1>6, <1>7, <1>8, <1>9, <1>10, <1>11, <1>12, <1>13, HeapStep

(* One place of the group is written, and the chain stays as it is.         *)
Here(h, g, i, new, a, p, recs, to, pk, td, job) ==
  /\ p \in Place /\ h.own[p] = g /\ recs \in Seq(Rec) /\ DistinctIds(recs)
  /\ h.kept[i] = {} \/ h.at[i] = p
  /\ \A x \in RecsIn(recs) : (x \in new /\ a = p) \/ (x.id # i /\ x \in RecsIn(h.view[p].recs))
  /\ \A x \in RecsIn(h.view[p].recs) : x.id # i => x \in RecsIn(recs)
  /\ a = 0 \/ (a = p /\ new \subseteq RecsIn(recs))
  /\ \/ to = <<>> /\ recs = h.view[p].recs
     \/ to = <<Buffer(p, BlockOf(recs, h.view[p].next))>>
  /\ pk \in BOOLEAN
  /\ job = [to |-> to, pack |-> pk, todo |-> td, src |-> None, rest |-> None, new |-> None]
  /\ td = <<>> \/ \E r : new = {r} /\ td = <<r>>
  /\ new # {} => (a = 0 <=> td # <<>>)
  /\ td # <<>> => to # <<>> /\ (pk \/ h.view[p].next = None)

LEMMA OneBuffer ==
  ASSUME NEW p \in Place, NEW b \in Block
  PROVE  /\ <<Buffer(p, b)>> \in Seq([at : Place, blk : Block]) /\ Len(<<Buffer(p, b)>>) = 1
         /\ <<Buffer(p, b)>>[1].at = p /\ <<Buffer(p, b)>>[1].blk = b /\ <<Buffer(p, b)>> # <<>>
BY DEF Buffer

(* Its buffer, if it gets one.                                              *)
BufferFor(h, p, recs, to, b) ==
  /\ p \in Place /\ h.own[p] \in Groups /\ recs \in Seq(Rec) /\ b = BlockOf(recs, h.view[p].next)
  /\ \/ to = <<>> /\ recs = h.view[p].recs
     \/ to = <<Buffer(p, BlockOf(recs, h.view[p].next))>>

Buffered1(h, p, recs, to, b) ==
  /\ b \in Block /\ b.recs = recs /\ b.next = h.view[p].next /\ b.part = NoPart
  /\ to \in Seq([at : Place, blk : Block]) /\ Len(to) <= 1
  /\ (\A t \in 1 .. Len(to) : to[t].at = p /\ to[t].blk = b)
  /\ (to = <<>> => b = h.view[p]) /\ (to # <<>> => p \in {to[t].at : t \in 1 .. Len(to)})

LEMMA HereBuffer ==
  ASSUME NEW h, Heap(h), NEW p, NEW recs, NEW to, NEW b, BufferFor(h, p, recs, to, b)
  PROVE  Buffered1(h, p, recs, to, b)
<1>1. /\ p \in Place /\ h.own[p] \in Groups /\ recs \in Seq(Rec) /\ b = BlockOf(recs, h.view[p].next)
      /\ \/ to = <<>> /\ recs = h.view[p].recs
         \/ to = <<Buffer(p, BlockOf(recs, h.view[p].next))>>
  BY DEF BufferFor
<1>2. h.view[p].next \in Over \cup {None} /\ h.view[p] = BlockOf(h.view[p].recs, h.view[p].next)
  BY <1>1, GroupPlace
<1>3. /\ b \in Block /\ b.recs = recs /\ b.next = h.view[p].next /\ b.part = NoPart
  BY <1>1, <1>2 DEF BlockOf, Block, NoPart, Part
<1>4. CASE to = <<>> /\ recs = h.view[p].recs
  <2>1. to \in Seq([at : Place, blk : Block]) /\ Len(to) = 0 /\ \A t \in 1 .. Len(to) : FALSE
    BY <1>4
  <2>2. b = h.view[p]
    BY <1>1, <1>2, <1>4
  <2>3. QED
    BY <1>3, <1>4, <2>1, <2>2 DEF Buffered1
<1>5. CASE to = <<Buffer(p, BlockOf(recs, h.view[p].next))>>
  <2>1. to = <<Buffer(p, b)>>
    BY <1>1, <1>5
  <2>2. /\ to \in Seq([at : Place, blk : Block]) /\ Len(to) = 1 /\ to[1].at = p /\ to[1].blk = b /\ to # <<>>
    BY <1>1, <1>3, <2>1, OneBuffer
  <2>3. 1 \in 1 .. Len(to) /\ \A t \in 1 .. Len(to) : t = 1
    BY <2>2
  <2>4. QED
    BY <1>3, <2>2, <2>3 DEF Buffered1
<1>6. QED
  BY <1>1, <1>4, <1>5

LEMMA HerePuts ==
  ASSUME HashInv, NEW h, Heap(h), block \in [Place -> Block], NEW u, NEW g, NEW i, NEW new, NEW job,
         Starts(u, h, g, i, new, job), NEW a, NEW p, NEW recs, NEW to, NEW pk, NEW td,
         Here(h, g, i, new, a, p, recs, to, pk, td, job)
  PROVE  Rekept(h, i, new)
<1>1. /\ u \in Users /\ g \in Groups /\ i \in Ids /\ proc[u].at \in {"idle", "write"}
      /\ OldBig(new) = BigOf(proc[u]) /\ BigOK(h, new, i)
  BY DEF Starts
<1>2. /\ p \in Place /\ h.own[p] = g /\ recs \in Seq(Rec) /\ DistinctIds(recs)
      /\ (h.kept[i] = {} \/ h.at[i] = p)
      /\ (\A x \in RecsIn(recs) : (x \in new /\ a = p) \/ (x.id # i /\ x \in RecsIn(h.view[p].recs)))
      /\ (\A x \in RecsIn(h.view[p].recs) : x.id # i => x \in RecsIn(recs))
      /\ (a = 0 \/ (a = p /\ new \subseteq RecsIn(recs))) /\ pk \in BOOLEAN
      /\ job = [to |-> to, pack |-> pk, todo |-> td, src |-> None, rest |-> None, new |-> None]
      /\ (td = <<>> \/ \E r : new = {r} /\ td = <<r>>)
      /\ (new # {} => (a = 0 <=> td # <<>>))
      /\ (td # <<>> => to # <<>> /\ (pk \/ h.view[p].next = None))
  BY DEF Here
<1>3. PICK b : b = BlockOf(recs, h.view[p].next)
  OBVIOUS
<1>4. /\ b \in Block /\ b.recs = recs /\ b.next = h.view[p].next /\ b.part = NoPart
      /\ to \in Seq([at : Place, blk : Block]) /\ Len(to) <= 1
      /\ (\A t \in 1 .. Len(to) : to[t].at = p /\ to[t].blk = b)
      /\ (to = <<>> => b = h.view[p]) /\ (to # <<>> => p \in {to[t].at : t \in 1 .. Len(to)})
  <2>1. BufferFor(h, p, recs, to, b)
    BY <1>1, <1>3 DEF Here, BufferFor
  <2>2. QED
    <3>1. Buffered1(h, p, recs, to, b)
      BY <2>1, HereBuffer
    <3>2. QED
      BY <3>1 DEF Buffered1
<1>5. PICK k : k = [view |-> [h.view EXCEPT ![p] = b], ptr |-> Swapped(h.ptr, RecPos(i), BigPos(u)),
                    own |-> h.own, kept |-> [h.kept EXCEPT ![i] = new], at |-> [h.at EXCEPT ![i] = a]]
  OBVIOUS
<1>6. /\ k.view = [h.view EXCEPT ![p] = b] /\ k.ptr = Swapped(h.ptr, RecPos(i), BigPos(u))
      /\ k.own = h.own /\ k.kept = [h.kept EXCEPT ![i] = new] /\ k.at = [h.at EXCEPT ![i] = a]
  BY <1>5
<1>7. k.view \in [Place -> Block] /\ k.view[p] = b /\ \A q \in Place : q # p => k.view[q] = h.view[q]
  BY <1>2, <1>4, <1>6 DEF Heap
<1>8. k.at \in [Ids -> Nat] /\ k.at[i] = a /\ \A j \in Ids : j # i => k.at[j] = h.at[j]
  <2>1. a \in Nat
    BY <1>2, FileConstants DEF Place
  <2>2. QED
    BY <1>1, <1>6, <2>1 DEF Heap
<1>9. /\ job \in JobType /\ job.to = to /\ job.pack = pk /\ job.todo = td /\ job.src = None /\ job.rest = None
      /\ job.new = None
  <2>1. td \in Seq(Rec)
    <3>1. CASE td = <<>>
      BY <3>1, NoRecs
    <3>2. CASE td # <<>>
      <4>1. PICK r : new = {r} /\ td = <<r>>
        BY <1>2, <3>2
      <4>2. r \in Rec
        BY <1>1, <4>1 DEF BigOK
      <4>3. QED
        BY <4>1, <4>2, OneRec
    <3>3. QED
      BY <3>1, <3>2
  <2>2. QED
    BY <1>2, <1>4, <2>1 DEF JobType
<1>10. StartJob(k, g, i, new, job)
  <2>1. \A t \in 1 .. Len(to) :
          /\ to[t].at \in Place /\ k.view[to[t].at] = to[t].blk /\ k.own[to[t].at] = g
          /\ td # <<>> /\ ~pk => to[t].blk.next = None
    BY <1>2, <1>4, <1>6, <1>7
  <2>2. QED
    BY <1>2, <1>4, <1>8, <1>9, <2>1 DEF StartJob
<1>11. StartPtr(u, h, k, g, i, new, job)
  <2>1. h.ptr \in [Pos -> Over \cup {None}] /\ Chained(h.ptr, h.own, fileEnd)
    BY PtrIs DEF Heap
  <2>2. Chained(k.ptr, k.own, fileEnd)
    BY <1>1, <1>6, <2>1, Swap
  <2>3. RecPos(i) \in Pos /\ BigPos(u) \in Pos /\ RecPos(i) # BigPos(u) /\ SrcPos(u) \in Pos
        /\ SrcPos(u) \notin {RecPos(i), BigPos(u)}
    BY <1>1, PosIn, PosDiffer
  <2>4. \A x \in Pos : k.ptr[x] = IF x = RecPos(i) THEN h.ptr[BigPos(u)]
                                  ELSE IF x = BigPos(u) THEN h.ptr[RecPos(i)] ELSE h.ptr[x]
    BY <1>6, <2>1, <2>3, SwappedIs
  <2>5. h.ptr[BigPos(u)] = BigOf(proc[u]) /\ h.ptr[SrcPos(u)] = SrcOf(proc[u]) /\ h.ptr[RecPos(i)] = OldBig(h.kept[i])
    BY <1>1 DEF Heap, HeldOK, IdOK
  <2>6. SrcOf(proc[u]) = None
    BY <1>1 DEF SrcOf
  <2>7. /\ k.ptr[RecPos(i)] = OldBig(new) /\ k.ptr[BigPos(u)] = OldBig(h.kept[i]) /\ k.ptr[SrcPos(u)] = job.src
        /\ \A x \in Pos : x \notin {RecPos(i), BigPos(u), SrcPos(u)} => k.ptr[x] = h.ptr[x]
    BY <1>1, <1>9, <2>3, <2>4, <2>5, <2>6
  <2>8. QED
    BY <2>2, <2>7 DEF StartPtr
<1>12. ASSUME NEW q \in Place, h.own[q] = g
       PROVE  StartPlace(h, k, g, i, new, job, q)
  <2>1. /\ h.view[q].part = NoPart /\ DistinctIds(h.view[q].recs) /\ h.ptr[NextPos(q)] = h.view[q].next
        /\ \A x \in RecsIn(h.view[q].recs) : h.kept[x.id] = {x} /\ h.at[x.id] = q
    BY <1>1, <1>12, GroupPlace
  <2>2. k.ptr[NextPos(q)] = h.ptr[NextPos(q)]
    <3>1. h.ptr \in [Pos -> Over \cup {None}] /\ RecPos(i) \in Pos /\ BigPos(u) \in Pos /\ RecPos(i) # BigPos(u)
          /\ NextPos(q) \in Pos /\ NextPos(q) \notin {RecPos(i), BigPos(u)}
      BY <1>1, PosIn, PosDiffer, PtrIs DEF Heap
    <3>2. QED
      BY <1>6, <3>1, SwappedIs
  <2>3. CASE q = p
    <3>1. k.view[q] = h.view[q] \/ q \in WorkHand(job)
      BY <1>4, <1>7, <1>9, <2>3 DEF WorkHand
    <3>2. QED
      BY <1>2, <1>4, <1>6, <1>7, <1>8, <2>1, <2>2, <2>3, <3>1 DEF StartPlace
  <2>4. CASE q # p
    <3>1. \A x \in RecsIn(h.view[q].recs) : x.id # i
      BY <1>2, <2>1, <2>4
    <3>2. QED
      BY <1>6, <1>7, <1>12, <2>1, <2>2, <2>4, <3>1 DEF StartPlace
  <2>5. QED
    BY <2>3, <2>4
<1>13. Puts(u, h, k, g, i, new, job)
  <2>1. new # {} /\ k.at[i] # 0 =>
          k.at[i] \in Place /\ k.own[k.at[i]] = g /\ new \subseteq RecsIn(k.view[k.at[i]].recs)
    BY <1>2, <1>4, <1>6, <1>7, <1>8
  <2>2. \A q \in Place : h.own[q] # g => k.view[q] = h.view[q] /\ k.own[q] = h.own[q]
    BY <1>2, <1>6, <1>7
  <2>3. QED
    BY <1>6, <1>7, <1>8, <1>10, <1>11, <1>12, <2>1, <2>2 DEF Puts
<1>14. Heap(k)'
  BY <1>13, StartsHeap
<1>15. QED
  BY <1>13, <1>14 DEF Puts, Rekept

(* A block that gets empty is taken out of the chain.                       *)
Unlinks(h, g, i, q, p, o, b, new, job) ==
  /\ q \in Place /\ p \in Place /\ h.own[q] = g /\ h.own[p] = g /\ o \in Over /\ p = Overflow(o)
  /\ h.view[q].next = o /\ h.at[i] = p /\ (\A x \in RecsIn(h.view[p].recs) : x.id = i) /\ new = {}
  /\ b = BlockOf(h.view[q].recs, h.view[p].next)
  /\ job = [to |-> <<Buffer(q, b)>>, pack |-> FALSE, todo |-> <<>>, src |-> o, rest |-> None, new |-> None]

UnlinkPtr(ptr, i, u, q, p) == Turned(Swapped(ptr, RecPos(i), BigPos(u)), NextPos(q), NextPos(p), SrcPos(u))

Unlinking(ptr, own, i, u, q, p, o) ==
  /\ Chained(ptr, own, fileEnd) /\ i \in Ids /\ u \in Users /\ q \in Place /\ p \in Place /\ o \in Over
  /\ p = Overflow(o) /\ ptr[NextPos(q)] = o /\ ptr[SrcPos(u)] = None

UnlinkedPtr(ptr, i, u, q, p, o) ==
  \A x \in Pos : UnlinkPtr(ptr, i, u, q, p)[x] =
    IF x = NextPos(q) THEN ptr[NextPos(p)] ELSE IF x = NextPos(p) THEN None
    ELSE IF x = SrcPos(u) THEN o ELSE IF x = RecPos(i) THEN ptr[BigPos(u)]
    ELSE IF x = BigPos(u) THEN ptr[RecPos(i)] ELSE ptr[x]

LEMMA UnlinkChained ==
  ASSUME NEW ptr, NEW own, NEW i, NEW u, NEW q, NEW p, NEW o, Unlinking(ptr, own, i, u, q, p, o)
  PROVE  /\ Chained(UnlinkPtr(ptr, i, u, q, p), [own EXCEPT ![p] = p], fileEnd) /\ q # p
         /\ UnlinkedPtr(ptr, i, u, q, p, o)
<1> DEFINE end == fileEnd
<1>0. /\ Chained(ptr, own, end) /\ i \in Ids /\ u \in Users /\ q \in Place /\ p \in Place /\ o \in Over
      /\ p = Overflow(o) /\ ptr[NextPos(q)] = o /\ ptr[SrcPos(u)] = None
  BY DEF Unlinking
<1>1. PICK mid : mid = Swapped(ptr, RecPos(i), BigPos(u))
  OBVIOUS
<1>2. Chained(mid, own, end)
  BY <1>0, <1>1, Swap
<1>3. /\ ptr \in [Pos -> Over \cup {None}] /\ mid \in [Pos -> Over \cup {None}]
  BY <1>0, <1>2, PtrIs
<1>4. /\ NextPos(q) \in Pos /\ NextPos(p) \in Pos /\ SrcPos(u) \in Pos /\ RecPos(i) \in Pos /\ BigPos(u) \in Pos
      /\ RecPos(i) # BigPos(u) /\ {NextPos(q), NextPos(p), SrcPos(u)} \cap {RecPos(i), BigPos(u)} = {}
      /\ SrcPos(u) \notin {NextPos(q), NextPos(p)} /\ \A m \in Place : SrcPos(u) # NextPos(m)
  BY <1>0, PosIn, PosDiffer
<1>5. \A x \in Pos : mid[x] = IF x = RecPos(i) THEN ptr[BigPos(u)] ELSE IF x = BigPos(u) THEN ptr[RecPos(i)] ELSE ptr[x]
  BY <1>1, <1>3, <1>4, SwappedIs
<1>6. mid[NextPos(q)] = o /\ mid[NextPos(p)] = ptr[NextPos(p)] /\ mid[SrcPos(u)] = None
  BY <1>0, <1>4, <1>5
<1>7. q # p /\ NextPos(q) # NextPos(p)
  <2>1. o # None
    BY <1>0, Places
  <2>2. q # p
    BY <1>0, <2>1, OwnIs
  <2>3. QED
    BY <2>2, PosDiffer
<1>8. PICK a, b, n, new : /\ a = NextPos(q) /\ b = SrcPos(u) /\ n = NextPos(p) /\ new = [own EXCEPT ![p] = p]
  OBVIOUS
<1>9. Law(b, o, new)
  <2>1. new[Overflow(o)] = Overflow(o)
    <3>1. own \in [Place -> Int]
      BY <1>0, PtrIs
    <3>2. QED
      BY <1>0, <1>8, <3>1
  <2>2. QED
    BY ZenonT(40), <1>0, <1>8, <2>1, Laws
<1>10. /\ a \in Pos /\ b \in Pos /\ n \in Pos /\ mid[a] = o /\ a # b /\ a # n /\ n # b /\ n = NextPos(Overflow(o))
       /\ mid[b] = None /\ (\A m \in Place : b # NextPos(m)) /\ (\E m \in Place : a = NextPos(m))
  BY <1>0, <1>4, <1>6, <1>7, <1>8
<1>11. p \in Int
  BY <1>0, Owners
<1>12. Chained(Turned(mid, a, n, b), new, end)
  BY <1>0, <1>2, <1>8, <1>9, <1>10, <1>11, Turn
<1>13. \A x \in Pos : Turned(mid, a, n, b)[x] =
         IF x = a THEN mid[n] ELSE IF x = n THEN mid[b] ELSE IF x = b THEN mid[a] ELSE mid[x]
  BY <1>3, <1>10, TurnedIs
<1>14. UnlinkPtr(ptr, i, u, q, p) = Turned(mid, a, n, b)
  BY <1>1, <1>8 DEF UnlinkPtr
<1>15. ASSUME NEW x \in Pos
       PROVE  Turned(mid, a, n, b)[x] =
              IF x = NextPos(q) THEN ptr[NextPos(p)] ELSE IF x = NextPos(p) THEN None
              ELSE IF x = SrcPos(u) THEN o ELSE IF x = RecPos(i) THEN ptr[BigPos(u)]
              ELSE IF x = BigPos(u) THEN ptr[RecPos(i)] ELSE ptr[x]
  BY <1>0, <1>4, <1>5, <1>6, <1>8, <1>10, <1>13
<1>16. QED
  BY <1>7, <1>8, <1>12, <1>14, <1>15 DEF UnlinkedPtr

LEMMA UnlinkPuts ==
  ASSUME HashInv, NEW h, Heap(h), block \in [Place -> Block], NEW u, NEW g, NEW i, NEW new, NEW job,
         Starts(u, h, g, i, new, job), NEW q, NEW p, NEW o, NEW b, Unlinks(h, g, i, q, p, o, b, new, job)
  PROVE  Rekept(h, i, new)
<1>1. /\ u \in Users /\ g \in Groups /\ i \in Ids /\ proc[u].at \in {"idle", "write"} /\ OldBig(new) = BigOf(proc[u])
  BY DEF Starts
<1>2. /\ q \in Place /\ p \in Place /\ h.own[q] = g /\ h.own[p] = g /\ o \in Over /\ p = Overflow(o)
      /\ h.view[q].next = o /\ h.at[i] = p /\ (\A x \in RecsIn(h.view[p].recs) : x.id = i) /\ new = {}
      /\ b = BlockOf(h.view[q].recs, h.view[p].next)
      /\ job = [to |-> <<Buffer(q, b)>>, pack |-> FALSE, todo |-> <<>>, src |-> o, rest |-> None, new |-> None]
  BY DEF Unlinks
<1>3. /\ h.ptr[BigPos(u)] = BigOf(proc[u]) /\ h.ptr[SrcPos(u)] = None /\ h.ptr[RecPos(i)] = OldBig(h.kept[i])
  <2>1. SrcOf(proc[u]) = None
    BY <1>1 DEF SrcOf
  <2>2. QED
    BY <1>1, <2>1 DEF Heap, HeldOK, IdOK
<1>4. ASSUME NEW m \in Place, h.own[m] = g
      PROVE  /\ h.view[m].part = NoPart /\ DistinctIds(h.view[m].recs) /\ h.ptr[NextPos(m)] = h.view[m].next
             /\ (\A x \in RecsIn(h.view[m].recs) : h.kept[x.id] = {x} /\ h.at[x.id] = m)
             /\ h.view[m].recs \in Seq(Rec) /\ h.view[m].next \in Over \cup {None}
  BY <1>1, <1>4, GroupPlace
<1>5. b \in Block /\ b.recs = h.view[q].recs /\ b.next = h.view[p].next /\ b.part = NoPart /\ Empty \in Block
  <2>1. h.view[q].recs \in Seq(Rec) /\ h.view[p].next \in Over \cup {None}
    BY <1>2, <1>4
  <2>2. QED
    BY <1>2, <2>1, NoRecs DEF BlockOf, Block, NoPart, Part, Empty
<1>6. PICK ptr : ptr = UnlinkPtr(h.ptr, i, u, q, p)
  OBVIOUS
<1>7. /\ Chained(ptr, [h.own EXCEPT ![p] = p], fileEnd) /\ q # p
      /\ \A x \in Pos : ptr[x] =
           IF x = NextPos(q) THEN h.ptr[NextPos(p)] ELSE IF x = NextPos(p) THEN None
           ELSE IF x = SrcPos(u) THEN o ELSE IF x = RecPos(i) THEN h.ptr[BigPos(u)]
           ELSE IF x = BigPos(u) THEN h.ptr[RecPos(i)] ELSE h.ptr[x]
  <2>1. Chained(h.ptr, h.own, fileEnd) /\ h.ptr[NextPos(q)] = o
    BY <1>2, <1>4 DEF Heap
  <2>2. PICK r, w : r = h.ptr /\ w = h.own
    OBVIOUS
  <2>3. Unlinking(r, w, i, u, q, p, o)
    BY <1>1, <1>2, <1>3, <2>1, <2>2 DEF Unlinking
  <2>4. Chained(UnlinkPtr(r, i, u, q, p), [w EXCEPT ![p] = p], fileEnd) /\ q # p
    BY <2>3, UnlinkChained
  <2>5. UnlinkedPtr(r, i, u, q, p, o)
    BY <2>3, UnlinkChained
  <2>6. QED
    BY <1>6, <2>2, <2>4, <2>5 DEF UnlinkedPtr
<1>8. PICK k : k = [view |-> [h.view EXCEPT ![q] = b, ![p] = Empty], ptr |-> ptr,
                    own |-> [h.own EXCEPT ![p] = p], kept |-> [h.kept EXCEPT ![i] = new], at |-> [h.at EXCEPT ![i] = 0]]
  OBVIOUS
<1>9. /\ k.view = [h.view EXCEPT ![q] = b, ![p] = Empty] /\ k.ptr = ptr
      /\ k.own = [h.own EXCEPT ![p] = p] /\ k.kept = [h.kept EXCEPT ![i] = new] /\ k.at = [h.at EXCEPT ![i] = 0]
  BY <1>8
<1>10. /\ k.view \in [Place -> Block] /\ k.view[q] = b /\ k.view[p] = Empty
       /\ \A m \in Place : m # q /\ m # p => k.view[m] = h.view[m]
  BY SMTT(20), <1>2, <1>5, <1>7, <1>9 DEF Heap
<1>11. k.at \in [Ids -> Nat] /\ k.at[i] = 0 /\ \A j \in Ids : j # i => k.at[j] = h.at[j]
  BY <1>1, <1>9 DEF Heap
<1>12. k.own[p] = p /\ \A m \in Place : m # p => k.own[m] = h.own[m]
  <2>1. h.own \in [Place -> Int]
    BY PtrIs DEF Heap
  <2>2. QED
    BY <1>2, <1>9, <2>1
<1>13. /\ job \in JobType /\ job.to = <<Buffer(q, b)>> /\ job.pack = FALSE /\ job.todo = <<>> /\ job.src = o
       /\ job.rest = None /\ job.new = None
  <2>1. <<Buffer(q, b)>> \in Seq([at : Place, blk : Block]) /\ <<>> \in Seq(Rec)
    BY <1>2, <1>5, OneBuffer, NoRecs
  <2>2. PICK to : to = <<Buffer(q, b)>>
    OBVIOUS
  <2>3. job = [to |-> to, pack |-> FALSE, todo |-> <<>>, src |-> o, rest |-> None, new |-> None]
        /\ to \in Seq([at : Place, blk : Block])
    BY <1>2, <2>1, <2>2
  <2>4. job \in JobType
    BY <1>2, <2>1, <2>3 DEF JobType
  <2>5. QED
    BY <2>2, <2>3, <2>4
<1>14. PICK to : to = <<Buffer(q, b)>>
  OBVIOUS
<1>15. Len(to) = 1 /\ to[1].at = q /\ to[1].blk = b /\ to # <<>>
  BY <1>2, <1>5, <1>14, OneBuffer
<1>16. StartJob(k, g, i, new, job)
  <2>1. \A t \in 1 .. Len(to) : to[t].at \in Place /\ k.view[to[t].at] = to[t].blk /\ k.own[to[t].at] = g
    BY <1>2, <1>7, <1>10, <1>12, <1>15
  <2>2. Len(to) <= 1
    BY <1>15
  <2>3. job.to = to
    BY <1>13, <1>14
  <2>4. QED
    BY ZenonT(40), <1>2, <1>10, <1>13, <1>15, <2>1, <2>2, <2>3 DEF StartJob
<1>17. StartPtr(u, h, k, g, i, new, job)
  <2>1. /\ RecPos(i) \in Pos /\ BigPos(u) \in Pos /\ SrcPos(u) \in Pos /\ RecPos(i) # BigPos(u)
        /\ SrcPos(u) \notin {RecPos(i), BigPos(u), NextPos(p), NextPos(q)}
        /\ NextPos(p) \notin {RecPos(i), BigPos(u)} /\ NextPos(q) \notin {RecPos(i), BigPos(u)}
    BY <1>1, <1>2, PosIn, PosDiffer
  <2>2. /\ k.ptr[RecPos(i)] = OldBig(new) /\ k.ptr[BigPos(u)] = OldBig(h.kept[i]) /\ k.ptr[SrcPos(u)] = job.src
    BY <1>1, <1>3, <1>7, <1>9, <1>13, <2>1
  <2>3. ASSUME NEW x \in Pos, x \notin {RecPos(i), BigPos(u), SrcPos(u)}, \A m \in Place : h.own[m] = g => x # NextPos(m)
        PROVE  k.ptr[x] = h.ptr[x]
    BY <1>2, <1>7, <1>9, <2>3
  <2>4. QED
    BY <1>7, <1>9, <2>2, <2>3 DEF StartPtr
<1>18. ASSUME NEW m \in Place, h.own[m] = g
       PROVE  StartPlace(h, k, g, i, new, job, m)
  <2>1. WorkHand(job) = {job.to[t].at : t \in 1 .. Len(job.to)} \cup {p} /\ q \in WorkHand(job)
    <3>1. o # None
      BY <1>2, Places
    <3>2. q \in {to[t].at : t \in 1 .. Len(to)}
      BY <1>15
    <3>3. QED
      BY <1>2, <1>13, <1>14, <3>1, <3>2 DEF WorkHand
  <2>2. /\ NextPos(m) \in Pos /\ NextPos(m) \notin {RecPos(i), BigPos(u), SrcPos(u)}
        /\ (m # p => NextPos(m) # NextPos(p)) /\ (m # q => NextPos(m) # NextPos(q))
    BY <1>1, PosIn, PosDiffer
  <2>3. CASE m = p
    <3>1. k.view[m].part = NoPart /\ k.view[m].recs = <<>> /\ k.view[m].next = None
      BY <1>10, <2>3 DEF Empty
    <3>2. k.ptr[NextPos(m)] = None
      BY <1>2, <1>7, <1>9, <2>2, <2>3, PosDiffer
    <3>3. \A x \in RecsIn(h.view[m].recs) : x.id = i
      BY <1>2, <2>3
    <3>4. QED
      BY <2>1, <2>3, <3>1, <3>2, <3>3, NoRecs DEF StartPlace
  <2>4. CASE m = q
    <3>1. k.view[m].part = NoPart /\ k.view[m].recs = h.view[m].recs /\ k.view[m].next = h.view[p].next
      BY <1>5, <1>10, <2>4
    <3>2. k.ptr[NextPos(m)] = h.view[p].next
      BY <1>2, <1>4, <1>7, <1>9, <2>2, <2>4
    <3>3. \A x \in RecsIn(h.view[m].recs) : x.id # i
      BY <1>2, <1>4, <1>7, <1>18, <2>4
    <3>4. DistinctIds(k.view[m].recs) /\ k.own[m] = g
      BY <1>4, <1>7, <1>12, <1>18, <2>4, <3>1
    <3>5. QED
      BY <2>1, <2>4, <3>1, <3>2, <3>3, <3>4 DEF StartPlace
  <2>5. CASE m # p /\ m # q
    <3>1. k.view[m] = h.view[m] /\ k.own[m] = g
      BY <1>10, <1>12, <1>18, <2>5
    <3>2. k.ptr[NextPos(m)] = h.ptr[NextPos(m)]
      BY <1>7, <1>9, <2>2, <2>5
    <3>3. \A x \in RecsIn(h.view[m].recs) : x.id # i
      BY <1>2, <1>4, <1>18, <2>5
    <3>4. h.view[m].part = NoPart /\ DistinctIds(h.view[m].recs) /\ h.ptr[NextPos(m)] = h.view[m].next
      BY <1>4, <1>18
    <3>5. QED
      BY <3>1, <3>2, <3>3, <3>4 DEF StartPlace
  <2>6. QED
    BY <2>3, <2>4, <2>5
<1>19. Puts(u, h, k, g, i, new, job)
  <2>1. \A m \in Place : h.own[m] # g => k.view[m] = h.view[m] /\ k.own[m] = h.own[m]
    BY <1>2, <1>10, <1>12
  <2>2. QED
    BY <1>2, <1>9, <1>10, <1>11, <1>16, <1>17, <1>18, <2>1 DEF Puts
<1>20. Heap(k)'
  BY <1>19, StartsHeap
<1>21. QED
  BY <1>19, <1>20 DEF Puts, Rekept

-----------------------------------------------------------------------------
(* Where the record of an id is found in its group.                         *)
LEMMA SpotElem ==
  ASSUME NEW c, NEW i, NEW s
  PROVE  s \in Spot(c, i) <=>
           \E j \in 1 .. Len(c) : \E k \in 1 .. Len(block[c[j]].recs) : block[c[j]].recs[k].id = i /\ s = <<j, k>>
<1>1. ASSUME s \in Spot(c, i)
      PROVE  \E j \in 1 .. Len(c) : \E k \in 1 .. Len(block[c[j]].recs) : block[c[j]].recs[k].id = i /\ s = <<j, k>>
  <2>1. PICK j \in 1 .. Len(c) : s \in {j} \X {k \in 1 .. Len(block[c[j]].recs) : block[c[j]].recs[k].id = i}
    BY <1>1 DEF Spot
  <2>2. PICK k \in {k \in 1 .. Len(block[c[j]].recs) : block[c[j]].recs[k].id = i} : s = <<j, k>>
    BY <2>1
  <2>3. QED
    BY <2>1, <2>2
<1>2. ASSUME NEW j \in 1 .. Len(c), NEW k \in 1 .. Len(block[c[j]].recs), block[c[j]].recs[k].id = i, s = <<j, k>>
      PROVE  s \in Spot(c, i)
  <2>1. s \in {j} \X {m \in 1 .. Len(block[c[j]].recs) : block[c[j]].recs[m].id = i}
    BY <1>2
  <2>2. QED
    BY <2>1 DEF Spot
<1>3. QED
  BY <1>1, <1>2

LEMMA FirstSpotIs ==
  ASSUME NEW j \in Nat, NEW k \in Nat
  PROVE  FirstSpot({<<j, k>>}) = <<j, k>> /\ FirstSpot({<<j, k>>})[1] = j /\ FirstSpot({<<j, k>>})[2] = k
<1>1. PICK s : s = <<j, k>>
  OBVIOUS
<1>2. s[1] = j /\ s[2] = k
  BY <1>1
<1>3. \A t \in {s} : s[1] < t[1] \/ (s[1] = t[1] /\ s[2] <= t[2])
  BY <1>2
<1>4. FirstSpot({s}) = s
  BY <1>3 DEF FirstSpot
<1>5. QED
  BY <1>1, <1>2, <1>4

(* Spotted(h, c, i, j, k): it is record k of the place c[j].                *)
Spotted(h, c, i, j, k) ==
  /\ j \in 1 .. Len(c) /\ k \in 1 .. Len(h.view[c[j]].recs) /\ h.at[i] = c[j]
  /\ h.kept[i] = {h.view[c[j]].recs[k]} /\ h.view[c[j]].recs[k].id = i
  /\ FirstSpot(Spot(c, i))[1] = j /\ FirstSpot(Spot(c, i))[2] = k

LEMMA SpotIs ==
  ASSUME HashInv, NEW h, Heap(h), block \in [Place -> Block], NEW g \in Groups, ~WriteLocked(g),
         NEW i \in Ids, Home(i) = g, NEW c, c = GroupChain(g)
  PROVE  /\ h.kept[i] = {} => Spot(c, i) = {}
         /\ h.kept[i] # {} => Spot(c, i) # {} /\ \E j, k : Spotted(h, c, i, j, k)
<1>1. PICK n : n = Len(c)
  OBVIOUS
<1>0. Strung(h, g, c, n)
  BY <1>1, ChainPlaces
<1>2. /\ n \in Nat \ {0}
      /\ (\A j \in 1 .. n : c[j] \in Place /\ h.own[c[j]] = g /\ block[c[j]] = h.view[c[j]])
      /\ (\A p \in Place : h.own[p] = g => \E j \in 1 .. n : c[j] = p)
      /\ \A j \in 1 .. n, k \in 1 .. n : c[j] = c[k] => j = k
  BY <1>0 DEF Strung
<1>3. ASSUME NEW j \in 1 .. n
      PROVE  /\ h.view[c[j]].recs \in Seq(Rec) /\ DistinctIds(h.view[c[j]].recs)
             /\ \A r \in RecsIn(h.view[c[j]].recs) : h.kept[r.id] = {r} /\ h.at[r.id] = c[j]
  BY <1>2, GroupPlace
<1>4. ASSUME NEW s \in Spot(c, i)
      PROVE  \E j \in 1 .. n : \E k \in 1 .. Len(h.view[c[j]].recs) :
               s = <<j, k>> /\ h.at[i] = c[j] /\ h.kept[i] = {h.view[c[j]].recs[k]} /\ h.view[c[j]].recs[k].id = i
  <2>1. PICK j \in 1 .. n : \E k \in 1 .. Len(block[c[j]].recs) : block[c[j]].recs[k].id = i /\ s = <<j, k>>
    BY <1>1, <1>4, SpotElem
  <2>2. PICK k \in 1 .. Len(h.view[c[j]].recs) : h.view[c[j]].recs[k].id = i /\ s = <<j, k>>
    BY <1>2, <2>1
  <2>3. h.view[c[j]].recs[k] \in RecsIn(h.view[c[j]].recs)
    BY DEF RecsIn
  <2>4. PICK r : r = h.view[c[j]].recs[k]
    OBVIOUS
  <2>5. h.kept[i] = {r} /\ h.at[i] = c[j] /\ r.id = i
    BY <1>3, <2>2, <2>3, <2>4
  <2>6. QED
    BY <2>2, <2>4, <2>5
<1>5. ASSUME h.kept[i] = {}
      PROVE  Spot(c, i) = {}
  BY <1>4, <1>5
<1>6. ASSUME h.kept[i] # {}
      PROVE  Spot(c, i) # {} /\ \E j, k : Spotted(h, c, i, j, k)
  <2>1. /\ h.at[i] \in Place /\ h.own[h.at[i]] = g /\ h.kept[i] \subseteq RecsIn(h.view[h.at[i]].recs)
        /\ \E r \in Rec : r.id = i /\ h.kept[i] = {r}
    BY <1>6, AtHome
  <2>2. PICK r \in Rec : r.id = i /\ h.kept[i] = {r}
    BY <2>1
  <2>3. PICK j \in 1 .. n : c[j] = h.at[i]
    BY <1>2, <2>1
  <2>4. r \in RecsIn(h.view[c[j]].recs)
    BY <2>1, <2>2, <2>3
  <2>5. PICK k \in 1 .. Len(h.view[c[j]].recs) : h.view[c[j]].recs[k] = r
    BY <2>4 DEF RecsIn
  <2>6. <<j, k>> \in Spot(c, i)
    <3>1. block[c[j]].recs[k].id = i /\ k \in 1 .. Len(block[c[j]].recs) /\ j \in 1 .. Len(c)
      BY <1>1, <1>2, <2>2, <2>5
    <3>2. QED
      BY <3>1, SpotElem
  <2>7. ASSUME NEW s \in Spot(c, i)
        PROVE  s = <<j, k>>
    <3>0. PICK m \in 1 .. n : \E x \in 1 .. Len(h.view[c[m]].recs) :
            s = <<m, x>> /\ h.at[i] = c[m] /\ h.kept[i] = {h.view[c[m]].recs[x]} /\ h.view[c[m]].recs[x].id = i
      BY <1>4, <2>7
    <3>1. PICK x \in 1 .. Len(h.view[c[m]].recs) :
            s = <<m, x>> /\ h.at[i] = c[m] /\ h.kept[i] = {h.view[c[m]].recs[x]} /\ h.view[c[m]].recs[x].id = i
      BY <3>0
    <3>2. m = j
      BY <1>2, <2>3, <3>1
    <3>3. h.view[c[j]].recs[x].id = h.view[c[j]].recs[k].id /\ x \in 1 .. Len(h.view[c[j]].recs)
      BY <2>2, <2>5, <3>1, <3>2
    <3>4. x = k
      BY <1>3, <3>3 DEF DistinctIds
    <3>5. QED
      BY <3>1, <3>2, <3>4
  <2>8. Spot(c, i) = {<<j, k>>}
    BY <2>6, <2>7
  <2>9. j \in Nat /\ k \in Nat
    <3>1. Len(h.view[c[j]].recs) \in Nat
      BY <1>3
    <3>2. QED
      BY <1>2, <3>1
  <2>10. FirstSpot(Spot(c, i))[1] = j /\ FirstSpot(Spot(c, i))[2] = k
    BY <2>8, <2>9, FirstSpotIs
  <2>11. Spotted(h, c, i, j, k)
    BY <1>1, <2>2, <2>3, <2>5, <2>10 DEF Spotted
  <2>12. QED
    BY <2>6, <2>11
<1>7. QED
  BY <1>5, <1>6

-----------------------------------------------------------------------------
(* A write or a delete begins.                                              *)
LEMMA BlockTakeRec ==
  ASSUME NEW b, NEW recs, NEW next, b = BlockOf(recs, next), NEW k
  PROVE  [b EXCEPT !.recs = RemoveAt(@, k)] = BlockOf(RemoveAt(recs, k), next)
BY DEF BlockOf

LEMMA BlockNext ==
  ASSUME NEW b, NEW recs, NEW next, b = BlockOf(recs, next), NEW n
  PROVE  [b EXCEPT !.next = n] = BlockOf(recs, n)
BY DEF BlockOf

(* What a session that has found record q of the id has at hand.            *)
AtHand(h, g, i, c, p, k, q) ==
  /\ p \in Place /\ h.own[p] = g /\ block[p] = h.view[p] /\ h.at[i] = p /\ h.kept[i] = {q} /\ q.id = i
  /\ k \in 1 .. Len(h.view[p].recs) /\ h.view[p].recs[k] = q
  /\ h.view[p].recs \in Seq(Rec) /\ DistinctIds(h.view[p].recs)
  /\ h.view[p] = BlockOf(h.view[p].recs, h.view[p].next) /\ q \in RecsIn(h.view[p].recs)

LEMMA AtHandIs ==
  ASSUME HashInv, NEW h, Heap(h), block \in [Place -> Block], NEW g \in Groups, ~WriteLocked(g),
         NEW i \in Ids, Home(i) = g, NEW c, c = GroupChain(g), NEW j, NEW k, Spotted(h, c, i, j, k)
  PROVE  \E p, q : p = c[j] /\ AtHand(h, g, i, c, p, k, q)
<1>1. PICK n, p : n = Len(c) /\ p = c[j]
  OBVIOUS
<1>2. PICK q : q = h.view[p].recs[k]
  OBVIOUS
<1>3. /\ j \in 1 .. n /\ k \in 1 .. Len(h.view[p].recs) /\ h.at[i] = p /\ h.kept[i] = {q} /\ q.id = i
  BY <1>1, <1>2 DEF Spotted
<1>0. Strung(h, g, c, n)
  BY <1>1, ChainPlaces
<1>4. p \in Place /\ h.own[p] = g /\ block[p] = h.view[p]
  BY <1>0, <1>1, <1>3 DEF Strung
<1>5. /\ h.view[p].recs \in Seq(Rec) /\ DistinctIds(h.view[p].recs)
      /\ h.view[p] = BlockOf(h.view[p].recs, h.view[p].next)
  BY <1>4, GroupPlace
<1>6. q \in RecsIn(h.view[p].recs)
  BY <1>2, <1>3 DEF RecsIn
<1>7. AtHand(h, g, i, c, p, k, q)
  BY <1>2, <1>3, <1>4, <1>5, <1>6 DEF AtHand
<1>8. QED
  BY <1>1, <1>7

(* The record is replaced where it is.                                      *)
Replaced(h, g, i, c, p, k, q, r, job) ==
  /\ AtHand(h, g, i, c, p, k, q) /\ r \in Rec /\ r.id = i
  /\ job = [NoJob EXCEPT !.to = <<Buffer(p, [block[p] EXCEPT !.recs[k] = r])>>]

LEMMA ReplaceHere ==
  ASSUME NEW h, NEW g, NEW i, NEW c, NEW p, NEW k, NEW q, NEW r, NEW job, Replaced(h, g, i, c, p, k, q, r, job)
  PROVE  \E recs, to : Here(h, g, i, {r}, p, p, recs, to, FALSE, <<>>, job)
<1>1. PICK recs, old : recs = [old EXCEPT ![k] = r] /\ old = h.view[p].recs
  OBVIOUS
<1>2. PICK to : to = <<Buffer(p, BlockOf(recs, h.view[p].next))>>
  OBVIOUS
<1>3. /\ p \in Place /\ h.own[p] = g /\ block[p] = h.view[p] /\ h.at[i] = p /\ h.kept[i] = {q} /\ q.id = i
      /\ k \in 1 .. Len(old) /\ old[k] = q /\ old \in Seq(Rec) /\ DistinctIds(old)
      /\ h.view[p] = BlockOf(old, h.view[p].next) /\ q \in RecsIn(old) /\ r \in Rec /\ r.id = i
      /\ job = [NoJob EXCEPT !.to = <<Buffer(p, [block[p] EXCEPT !.recs[k] = r])>>]
  BY <1>1 DEF AtHand, Replaced
<1>4. recs \in Seq(Rec) /\ DistinctIds(recs) /\ RecsIn(recs) = (RecsIn(old) \ {q}) \cup {r}
  <2>1. /\ old \in Seq(Rec) /\ DistinctIds(old) /\ k \in 1 .. Len(old) /\ r \in Rec /\ r.id = old[k].id
        /\ old[k] = q
    BY <1>3
  <2>2. recs = [old EXCEPT ![k] = r]
    BY <1>1
  <2>3. QED
    BY <2>1, <2>2, RecsReplace
<1>5. ASSUME NEW x \in RecsIn(old), x.id = i
      PROVE  x = q
  BY <1>3, <1>5, IdsDiffer
<1>6. [block[p] EXCEPT !.recs[k] = r] = BlockOf(recs, h.view[p].next)
  <2>1. PICK b, next : b = block[p] /\ next = h.view[p].next
    OBVIOUS
  <2>2. b = BlockOf(old, next)
    BY <1>3, <2>1
  <2>3. [b EXCEPT !.recs[k] = r] = BlockOf([old EXCEPT ![k] = r], next)
    BY <2>2 DEF BlockOf
  <2>4. QED
    BY <1>1, <2>1, <2>3
<1>7. job = [to |-> to, pack |-> FALSE, todo |-> <<>>, src |-> None, rest |-> None, new |-> None]
  BY <1>2, <1>3, <1>6 DEF NoJob
<1>8. p # 0
  BY <1>3, FileConstants DEF Place
<1>9. \A x \in RecsIn(recs) : x \in {r} \/ (x.id # i /\ x \in RecsIn(h.view[p].recs))
  BY <1>1, <1>4, <1>5
<1>10. \A x \in RecsIn(h.view[p].recs) : x.id # i => x \in RecsIn(recs)
  BY <1>1, <1>3, <1>4
<1>11. Here(h, g, i, {r}, p, p, recs, to, FALSE, <<>>, job)
  BY <1>2, <1>3, <1>4, <1>7, <1>8, <1>9, <1>10 DEF Here
<1>12. QED
  BY <1>11

(* It is taken out, and a new one is added later or none is.                *)
LEMMA TakeHere ==
  ASSUME NEW h, NEW g, NEW i, NEW c, NEW p, NEW k, NEW q, AtHand(h, g, i, c, p, k, q),
         NEW new, NEW td, (new = {} /\ td = <<>>) \/ (\E r \in Rec : new = {r} /\ td = <<r>>), NEW job,
         job = [TakeOut(p, k) EXCEPT !.todo = td]
  PROVE  \E recs, to : Here(h, g, i, new, 0, p, recs, to, TRUE, td, job)
<1>1. PICK recs, old : recs = RemoveAt(old, k) /\ old = h.view[p].recs
  OBVIOUS
<1>2. PICK to : to = <<Buffer(p, BlockOf(recs, h.view[p].next))>>
  OBVIOUS
<1>3. /\ p \in Place /\ h.own[p] = g /\ block[p] = h.view[p] /\ h.at[i] = p /\ h.kept[i] = {q} /\ q.id = i
      /\ k \in 1 .. Len(old) /\ old[k] = q /\ old \in Seq(Rec) /\ DistinctIds(old)
      /\ h.view[p] = BlockOf(old, h.view[p].next) /\ q \in RecsIn(old)
  BY <1>1 DEF AtHand
<1>4. recs \in Seq(Rec) /\ DistinctIds(recs) /\ RecsIn(recs) = RecsIn(old) \ {q}
  BY <1>1, <1>3, RecsRemove
<1>5. ASSUME NEW x \in RecsIn(old), x.id = i
      PROVE  x = q
  BY <1>3, <1>5, IdsDiffer
<1>6. [block[p] EXCEPT !.recs = RemoveAt(@, k)] = BlockOf(recs, h.view[p].next)
  <2>1. PICK b, next : b = block[p] /\ next = h.view[p].next
    OBVIOUS
  <2>2. b = BlockOf(old, next)
    BY <1>3, <2>1
  <2>3. [b EXCEPT !.recs = RemoveAt(@, k)] = BlockOf(RemoveAt(old, k), next)
    BY <2>2, BlockTakeRec
  <2>4. QED
    BY <1>1, <2>1, <2>3
<1>7. job = [to |-> to, pack |-> TRUE, todo |-> td, src |-> None, rest |-> None, new |-> None]
  BY <1>2, <1>6 DEF NoJob, TakeOut
<1>8. \A x \in RecsIn(recs) : x.id # i /\ x \in RecsIn(h.view[p].recs)
  BY <1>1, <1>4, <1>5
<1>9. \A x \in RecsIn(h.view[p].recs) : x.id # i => x \in RecsIn(recs)
  BY <1>1, <1>3, <1>4
<1>10. to # <<>> /\ (new # {} => td # <<>>) /\ (td = <<>> \/ \E r : new = {r} /\ td = <<r>>)
  <2>1. to # <<>>
    BY <1>2
  <2>2. \A r \in Rec : <<r>> # <<>>
    BY OneRec
  <2>3. QED
    BY <2>1, <2>2
<1>11. Here(h, g, i, new, 0, p, recs, to, TRUE, td, job)
  BY <1>2, <1>3, <1>4, <1>7, <1>8, <1>9, <1>10 DEF Here
<1>12. QED
  BY <1>11

(* It is not there, and a new one is added at the end.                      *)
LEMMA AppendHere ==
  ASSUME HashInv, NEW h, Heap(h), block \in [Place -> Block], NEW g \in Groups, ~WriteLocked(g),
         NEW i \in Ids, h.kept[i] = {}, NEW c, c = GroupChain(g), NEW last, last = c[Len(c)],
         NEW r \in Rec, NEW job,
         job = [NoJob EXCEPT !.to = <<Buffer(last, block[last])>>, !.todo = <<r>>]
  PROVE  \E recs, to : Here(h, g, i, {r}, 0, last, recs, to, FALSE, <<r>>, job)
<1>1. last \in Place /\ h.own[last] = g /\ block[last] = h.view[last] /\ block[last].next = None
  BY GroupEnd
<1>2. PICK recs : recs = h.view[last].recs
  OBVIOUS
<1>3. /\ recs \in Seq(Rec) /\ DistinctIds(recs) /\ h.view[last] = BlockOf(recs, h.view[last].next)
      /\ \A x \in RecsIn(recs) : h.kept[x.id] = {x}
  BY <1>1, <1>2, GroupPlace
<1>4. \A x \in RecsIn(recs) : x.id # i
  BY <1>3
<1>5. PICK to : to = <<Buffer(last, BlockOf(recs, h.view[last].next))>>
  OBVIOUS
<1>6. job = [to |-> to, pack |-> FALSE, todo |-> <<r>>, src |-> None, rest |-> None, new |-> None]
  BY <1>1, <1>3, <1>5 DEF NoJob
<1>7. to # <<>> /\ <<r>> # <<>> /\ h.view[last].next = None
  BY <1>1, <1>5, OneRec
<1>8. Here(h, g, i, {r}, 0, last, recs, to, FALSE, <<r>>, job)
  BY <1>1, <1>2, <1>3, <1>4, <1>5, <1>6, <1>7 DEF Here
<1>9. QED
  BY <1>8

LEMMA LockToWriteHeap ==
  ASSUME HashInv, NEW u \in Users, NEW h, Heap(h), block \in [Place -> Block], Orderly(u),
         NEW r \in Rec, LockToWrite(u, r), proc[u].at \in {"idle", "write"}, r.big = BigOf(proc[u]),
         r.big # None => h.view[Overflow(r.big)].part = [val |-> r.val, nth |-> 1]
  PROVE  Rekept(h, r.id, {r})
<1>1. PICK i, g, old, job : i = r.id /\ g = HashGroup(i) /\ old = OldRec(i) /\ job = WriteJob(g, r)
  OBVIOUS
<1>2. PICK e : e = [at |-> "rewrite", was |-> Snapshot({g}), put |-> {[id |-> i, val |-> r.val]},
                    then |-> [at |-> "tidy", big |-> OldBig(old), bytes |-> Size[r.val] - OldSize(old),
                              recs |-> IF old = {} THEN 1 ELSE 0], job |-> job]
  OBVIOUS
<1>3. /\ i \in Ids /\ CanLock(g, TRUE) /\ glock' = glock \cup {MyLock(u, g, TRUE)} /\ UNCHANGED file
      /\ Goes(u, e) /\ UNCHANGED <<modulus, modValue>>
  <2>1. i \in Ids
    BY <1>1 DEF Rec
  <2>2. QED
    BY <1>1, <1>2, <2>1 DEF LockToWrite, Rewrite
<1>4. Home(i) = g /\ g \in Groups /\ ~AbsentGroup(g) /\ ~WriteLocked(g)
  <2>1. Home(i) = g
    BY <1>1, <1>3, HomeUnlocked
  <2>2. ~WriteLocked(g)
    BY <1>3 DEF CanLock, WriteLocked, MyLock
  <2>3. QED
    BY <1>3, <2>1, <2>2, HomePresent
<1>5. old = h.kept[i]
  BY <1>1, <1>3, <1>4, FoundKept DEF OldRec
<1>6. /\ e.at = "rewrite" /\ e.was = Snapshot({g}) /\ e.put = {[id |-> i, val |-> r.val]} /\ e.job = job
      /\ e.then.at = "tidy" /\ e.then.big = OldBig(old)
  BY <1>2
<1>7. proc'[u] = e /\ (\A j \in Ids : Home(j)' = Home(j)) /\ \A m : AbsentGroup(m)' <=> AbsentGroup(m)
  <2>1. proc[u].at # "source" /\ e.at # "source"
    BY <1>6
  <2>2. QED
    BY <1>3, <2>1, StepKeeps
<1>8. OldBig({r}) = r.big /\ ValIn({r}) = r.val
  BY DEF OldBig, ValIn
<1>9. Starts(u, h, g, i, {r}, job)
  <2>1. BigOK(h, {r}, i)
    BY <1>1 DEF BigOK
  <2>2. MyLock(u, g, TRUE) \in glock'
    BY <1>3
  <2>3. QED
    BY <1>3, <1>4, <1>5, <1>6, <1>7, <1>8, <2>1, <2>2 DEF Starts
<1>10. PICK c : c = GroupChain(g)
  OBVIOUS
<1>11. CASE h.kept[i] = {}
  <2>1. Spot(c, i) = {}
    BY <1>3, <1>4, <1>10, <1>11, SpotIs
  <2>2. PICK last : last = c[Len(c)]
    OBVIOUS
  <2>3. job = [NoJob EXCEPT !.to = <<Buffer(last, block[last])>>, !.todo = <<r>>]
    BY <1>1, <1>10, <2>1, <2>2 DEF WriteJob
  <2>4. \E recs, to : Here(h, g, i, {r}, 0, last, recs, to, FALSE, <<r>>, job)
    BY <1>3, <1>4, <1>10, <1>11, <2>2, <2>3, AppendHere
  <2>5. QED
    BY <1>1, <1>9, <2>4, HerePuts
<1>12. CASE h.kept[i] # {}
  <2>1. Spot(c, i) # {}
    BY <1>3, <1>4, <1>10, <1>12, SpotIs
  <2>2. PICK j, k : Spotted(h, c, i, j, k)
    BY <1>3, <1>4, <1>10, <1>12, SpotIs
  <2>3. PICK p, q : p = c[j] /\ AtHand(h, g, i, c, p, k, q)
    BY <1>3, <1>4, <1>10, <2>2, AtHandIs
  <2>4. FirstSpot(Spot(c, i))[1] = j /\ FirstSpot(Spot(c, i))[2] = k
    BY <2>2 DEF Spotted
  <2>5. CASE Size[block[p].recs[k].val] = Size[r.val]
    <3>1. job = [NoJob EXCEPT !.to = <<Buffer(p, [block[p] EXCEPT !.recs[k] = r])>>]
      BY <1>1, <1>10, <2>1, <2>3, <2>4, <2>5 DEF WriteJob
    <3>2. \E recs, to : Here(h, g, i, {r}, p, p, recs, to, FALSE, <<>>, job)
      <4>1. Replaced(h, g, i, c, p, k, q, r, job)
        BY <1>1, <2>3, <3>1 DEF Replaced
      <4>2. QED
        BY <4>1, ReplaceHere
    <3>3. QED
      BY <1>1, <1>9, <3>2, HerePuts
  <2>6. CASE Size[block[p].recs[k].val] # Size[r.val]
    <3>1. job = [TakeOut(p, k) EXCEPT !.todo = <<r>>]
      BY <1>1, <1>10, <2>1, <2>3, <2>4, <2>6 DEF WriteJob
    <3>2. \E recs, to : Here(h, g, i, {r}, 0, p, recs, to, TRUE, <<r>>, job)
      BY <2>3, <3>1, TakeHere
    <3>3. QED
      BY <1>1, <1>9, <3>2, HerePuts
  <2>7. QED
    BY <2>5, <2>6
<1>13. QED
  BY <1>11, <1>12

LEMMA WriteHeap ==
  ASSUME HashInv, NEW u \in Users, NEW h, Heap(h), block \in [Place -> Block], Write(u)
  PROVE  \E k : Heap(k)'
<1>1. PICK i \in Ids, v \in Vals : LockToWrite(u, [id |-> i, val |-> v, big |-> None]) /\ proc[u].at = "idle"
  BY DEF Write
<1>2. PICK r : r = [id |-> i, val |-> v, big |-> None]
  OBVIOUS
<1>3. r \in Rec /\ r.big = None /\ LockToWrite(u, r) /\ BigOf(proc[u]) = None
  BY <1>1, <1>2 DEF Rec, BigOf
<1>4. Orderly(u)
  BY StepOrderly DEF Steps
<1>5. QED
  BY <1>1, <1>3, <1>4, LockToWriteHeap DEF Rekept

LEMMA WriteAfterBigHeap ==
  ASSUME HashInv, NEW u \in Users, NEW h, Heap(h), block \in [Place -> Block], WriteAfterBig(u)
  PROVE  \E k : Heap(k)'
<1>1. PICK r : r = proc[u].rec
  OBVIOUS
<1>2. LockToWrite(u, r) /\ proc[u].at = "write"
  BY <1>1 DEF WriteAfterBig
<1>3. /\ r \in Rec /\ r.big = BigOf(proc[u])
      /\ (r.big # None => h.view[Overflow(r.big)].part = [val |-> r.val, nth |-> 1])
  BY <1>1, <1>2 DEF Heap, HeldOK, BigOf
<1>4. Orderly(u)
  BY StepOrderly DEF Steps
<1>5. QED
  BY <1>2, <1>3, <1>4, LockToWriteHeap DEF Rekept

LEMMA DeleteIdHeap ==
  ASSUME HashInv, NEW u \in Users, NEW h, Heap(h), block \in [Place -> Block], Delete(u), NEW i \in Ids,
         CanLock(HashGroup(i), TRUE), glock' = glock \cup {MyLock(u, HashGroup(i), TRUE)},
         Rewrite(u, {HashGroup(i)}, DeleteJob(HashGroup(i), i), {[id |-> i, val |-> NoRec]},
                 [at |-> "tidy", big |-> OldBig(OldRec(i)), bytes |-> -OldSize(OldRec(i)),
                  recs |-> -Cardinality(OldRec(i))])
  PROVE  Rekept(h, i, {})
<1>1. /\ CanLock(HashGroup(i), TRUE) /\ glock' = glock \cup {MyLock(u, HashGroup(i), TRUE)}
      /\ Rewrite(u, {HashGroup(i)}, DeleteJob(HashGroup(i), i), {[id |-> i, val |-> NoRec]},
                 [at |-> "tidy", big |-> OldBig(OldRec(i)), bytes |-> -OldSize(OldRec(i)),
                  recs |-> -Cardinality(OldRec(i))])
      /\ UNCHANGED file /\ UNCHANGED <<modulus, modValue>> /\ proc[u].at = "idle"
  BY DEF Delete
<1>2. PICK g, old, job : g = HashGroup(i) /\ old = OldRec(i) /\ job = DeleteJob(g, i)
  OBVIOUS
<1>3. PICK e : e = [at |-> "rewrite", was |-> Snapshot({g}), put |-> {[id |-> i, val |-> NoRec]},
                    then |-> [at |-> "tidy", big |-> OldBig(old), bytes |-> -OldSize(old),
                              recs |-> -Cardinality(old)], job |-> job]
  OBVIOUS
<1>4. Goes(u, e) /\ CanLock(g, TRUE) /\ glock' = glock \cup {MyLock(u, g, TRUE)}
  BY <1>1, <1>2, <1>3 DEF Rewrite
<1>5. Home(i) = g /\ g \in Groups /\ ~AbsentGroup(g) /\ ~WriteLocked(g)
  <2>1. Home(i) = g
    BY <1>2, <1>4, HomeUnlocked
  <2>2. ~WriteLocked(g)
    BY <1>4 DEF CanLock, WriteLocked, MyLock
  <2>3. QED
    BY <2>1, <2>2, HomePresent
<1>6. old = h.kept[i]
  BY <1>2, <1>5, FoundKept DEF OldRec
<1>7. /\ e.at = "rewrite" /\ e.was = Snapshot({g}) /\ e.put = {[id |-> i, val |-> NoRec]} /\ e.job = job
      /\ e.then.at = "tidy" /\ e.then.big = OldBig(old)
  BY <1>3
<1>8. proc'[u] = e /\ (\A j \in Ids : Home(j)' = Home(j)) /\ \A m : AbsentGroup(m)' <=> AbsentGroup(m)
  <2>1. proc[u].at # "source" /\ e.at # "source"
    BY <1>1, <1>7
  <2>2. QED
    BY <1>1, <1>4, <2>1, StepKeeps
<1>9. OldBig({}) = None /\ ValIn({}) = NoRec /\ BigOf(proc[u]) = None
  BY <1>1 DEF OldBig, ValIn, BigOf
<1>10. Starts(u, h, g, i, {}, job)
  <2>1. BigOK(h, {}, i) /\ Orderly(u)
    BY StepOrderly DEF BigOK, Steps
  <2>2. MyLock(u, g, TRUE) \in glock'
    BY <1>4
  <2>3. QED
    BY <1>1, <1>5, <1>6, <1>7, <1>8, <1>9, <2>1, <2>2 DEF Starts
<1>11. PICK c : c = GroupChain(g)
  OBVIOUS
<1>12. CASE h.kept[i] = {}
  <2>1. Spot(c, i) = {}
    BY <1>5, <1>11, <1>12, SpotIs
  <2>2. job = NoJob
    BY <1>2, <1>11, <2>1 DEF DeleteJob
  <2>3. PICK recs : recs = h.view[g].recs
    OBVIOUS
  <2>4. g \in Place /\ h.own[g] = g /\ h.view[g].recs \in Seq(Rec) /\ DistinctIds(h.view[g].recs)
        /\ \A x \in RecsIn(h.view[g].recs) : h.kept[x.id] = {x}
    <3>1. g \in Place /\ h.own[g] = g
      BY <1>5, Places, PtrIs DEF Heap
    <3>2. QED
      BY <1>5, <3>1, GroupPlace
  <2>5. \A x \in RecsIn(recs) : x.id # i
    BY <1>12, <2>3, <2>4
  <2>6. job = [to |-> <<>>, pack |-> FALSE, todo |-> <<>>, src |-> None, rest |-> None, new |-> None]
    BY <2>2 DEF NoJob
  <2>7. Here(h, g, i, {}, 0, g, recs, <<>>, FALSE, <<>>, job)
    BY <1>12, <2>3, <2>4, <2>5, <2>6 DEF Here
  <2>8. QED
    BY <1>10, <2>7, HerePuts
<1>13. CASE h.kept[i] # {}
  <2>1. Spot(c, i) # {}
    BY <1>5, <1>11, <1>13, SpotIs
  <2>2. PICK j, k : Spotted(h, c, i, j, k)
    BY <1>5, <1>11, <1>13, SpotIs
  <2>3. PICK p, q : p = c[j] /\ AtHand(h, g, i, c, p, k, q)
    BY <1>5, <1>11, <2>2, AtHandIs
  <2>4. FirstSpot(Spot(c, i))[1] = j /\ FirstSpot(Spot(c, i))[2] = k
    BY <2>2 DEF Spotted
  <2>5. CASE ~(j > 1 /\ Len(block[p].recs) = 1)
    <3>1. job = TakeOut(p, k)
      BY <1>2, <1>11, <2>1, <2>3, <2>4, <2>5 DEF DeleteJob
    <3>2. job = [TakeOut(p, k) EXCEPT !.todo = <<>>]
      <4>1. PICK to : to = <<Buffer(p, [block[p] EXCEPT !.recs = RemoveAt(@, k)])>>
        OBVIOUS
      <4>2. job = [to |-> to, pack |-> TRUE, todo |-> <<>>, src |-> None, rest |-> None, new |-> None]
        BY <3>1, <4>1 DEF TakeOut, NoJob
      <4>3. [job EXCEPT !.todo = <<>>] = job
        <5>1. PICK none, t, n : none = <<>> /\ t = TRUE /\ n = None
          OBVIOUS
        <5>2. job = [to |-> to, pack |-> t, todo |-> none, src |-> n, rest |-> n, new |-> n]
          BY <4>2, <5>1
        <5>3. [job EXCEPT !.todo = none] = job
          BY <5>2
        <5>4. QED
          BY <5>1, <5>3
      <4>4. QED
        BY <3>1, <4>3
    <3>3. \E recs, to : Here(h, g, i, {}, 0, p, recs, to, TRUE, <<>>, job)
      BY <2>3, <3>2, TakeHere
    <3>4. QED
      BY <1>10, <3>3, HerePuts
  <2>6. CASE j > 1 /\ Len(block[p].recs) = 1
    <3>1. PICK m, o, b : m = c[j - 1] /\ o = OverflowNo(p) /\ b = BlockOf(h.view[m].recs, h.view[p].next)
      OBVIOUS
    <3>2. Unlinks(h, g, i, m, p, o, b, {}, job)
      <4>1. PICK n : n = Len(c)
        OBVIOUS
      <4>0. Strung(h, g, c, n)
        BY <1>5, <1>11, <4>1, ChainPlaces
      <4>2. /\ n \in Nat \ {0}
            /\ (\A x \in 1 .. n : c[x] \in Place /\ h.own[c[x]] = g /\ block[c[x]] = h.view[c[x]])
            /\ (\A x \in 1 .. n : x # 1 => c[x] \notin Groups)
            /\ \A x \in 1 .. n : block[c[x]].next = IF x = n THEN None ELSE OverflowNo(c[x + 1])
        BY <4>0 DEF Strung
      <4>3. j \in 1 .. n /\ j - 1 \in 1 .. n /\ j - 1 # n /\ (j - 1) + 1 = j
        BY <2>2, <2>6, <4>1, <4>2 DEF Spotted
      <4>4. /\ m \in Place /\ h.own[m] = g /\ block[m] = h.view[m] /\ block[m].next = o
            /\ p \in Place /\ h.own[p] = g /\ block[p] = h.view[p] /\ p \notin Groups
        BY <2>3, <2>6, <3>1, <4>2, <4>3
      <4>5. o \in Over /\ p = Overflow(o)
        BY <3>1, <4>4, Places
      <4>6. h.view[m] = BlockOf(h.view[m].recs, h.view[m].next)
        BY <1>5, <4>4, GroupPlace
      <4>7. [block[m] EXCEPT !.next = block[p].next] = b
        <5>1. PICK x, recs, next, y : x = block[m] /\ recs = h.view[m].recs /\ next = h.view[m].next /\ y = h.view[p].next
          OBVIOUS
        <5>2. x = BlockOf(recs, next) /\ b = BlockOf(recs, y) /\ block[p].next = y
          BY <3>1, <4>4, <4>6, <5>1
        <5>3. [x EXCEPT !.next = y] = BlockOf(recs, y)
          BY <5>2, BlockNext
        <5>4. QED
          BY <5>1, <5>2, <5>3
      <4>8. job = [NoJob EXCEPT !.to = <<Buffer(m, b)>>, !.src = o]
        BY <1>2, <1>11, <2>1, <2>3, <2>4, <2>6, <3>1, <4>7 DEF DeleteJob
      <4>9. job = [to |-> <<Buffer(m, b)>>, pack |-> FALSE, todo |-> <<>>, src |-> o, rest |-> None, new |-> None]
        BY <4>8 DEF NoJob
      <4>10. h.at[i] = p /\ \A x \in RecsIn(h.view[p].recs) : x.id = i
        <5>1. /\ h.at[i] = p /\ h.view[p].recs \in Seq(Rec) /\ k \in 1 .. Len(h.view[p].recs)
              /\ h.view[p].recs[k] = q /\ q.id = i
          BY <2>3 DEF AtHand
        <5>2. Len(h.view[p].recs) = 1
          BY <2>6, <4>4
        <5>3. \A x \in RecsIn(h.view[p].recs) : x = h.view[p].recs[1]
          BY <5>2 DEF RecsIn
        <5>4. k = 1
          BY <5>1, <5>2
        <5>5. QED
          BY <5>1, <5>3, <5>4
      <4>11. QED
        BY <3>1, <4>4, <4>5, <4>9, <4>10 DEF Unlinks
    <3>3. QED
      BY <1>10, <3>2, UnlinkPuts
  <2>7. QED
    BY <2>5, <2>6
<1>14. QED
  BY <1>12, <1>13

LEMMA DeleteHeap ==
  ASSUME HashInv, NEW u \in Users, NEW h, Heap(h), block \in [Place -> Block], Delete(u)
  PROVE  \E k : Heap(k)'
<1>1. PICK i \in Ids :
        /\ CanLock(HashGroup(i), TRUE) /\ glock' = glock \cup {MyLock(u, HashGroup(i), TRUE)}
        /\ Rewrite(u, {HashGroup(i)}, DeleteJob(HashGroup(i), i), {[id |-> i, val |-> NoRec]},
                   [at |-> "tidy", big |-> OldBig(OldRec(i)), bytes |-> -OldSize(OldRec(i)),
                    recs |-> -Cardinality(OldRec(i))])
  BY DEF Delete
<1>2. QED
  BY <1>1, DeleteIdHeap DEF Rekept

-----------------------------------------------------------------------------
(* Any step.                                                                *)
LEMMA WorkingHeap ==
  ASSUME HashInv, NEW u \in Users, NEW h, Heap(h), block \in [Place -> Block], Working(u)
  PROVE  \E k : Heap(k)' /\ k.kept = h.kept
<1>1. CASE Dechain(u)
  BY <1>1, DechainHeap
<1>2. CASE MoveOn(u)
  BY <1>2, MoveOnHeap
<1>3. CASE Extend(u)
  BY <1>3, ExtendHeap
<1>4. CASE Add(u)
  BY <1>4, AddHeap
<1>5. CASE GiveAway(u)
  BY <1>5, GiveAwayHeap
<1>6. CASE NextSource(u)
  BY <1>6, NextSourceHeap
<1>7. CASE WriteBlock(u)
  BY <1>7, WriteBlockHeap
<1>8. QED
  BY <1>1, <1>2, <1>3, <1>4, <1>5, <1>6, <1>7 DEF Working

LEMMA StepHeap ==
  ASSUME HashInv, NEW u \in Users, NEW h, Heap(h), block \in [Place -> Block], Steps(u)
  PROVE  \E k : Heap(k)'
<1>1. CASE \/ Read(u) \/ ReadGroup(u) \/ Account(u) \/ Resize(u) \/ ResizeOff(u) \/ Release(u)
           \/ Select(u) \/ SelectGroup(u) \/ SelectEnd(u)
  BY <1>1, FrameHeap
<1>2. CASE Write(u)
  BY <1>2, WriteHeap
<1>3. CASE WriteBig(u)
  BY <1>3, WriteBigHeap
<1>4. CASE MoreBig(u)
  BY <1>4, MoreBigHeap
<1>5. CASE WriteAfterBig(u)
  BY <1>5, WriteAfterBigHeap
<1>6. CASE Delete(u)
  BY <1>6, DeleteHeap
<1>7. CASE Working(u)
  BY <1>7, WorkingHeap
<1>8. CASE FreeLocks(u)
  BY <1>8, FreeLocksHeap
<1>9. CASE FreeBig(u)
  BY <1>9, FreeBigHeap
<1>10. CASE SplitStart(u)
  BY <1>10, SplitStartHeap
<1>11. CASE SplitSource(u)
  BY <1>11, SplitSourceHeap
<1>12. CASE MergeStart(u)
  BY <1>12, MergeStartHeap
<1>13. QED
  BY <1>1, <1>2, <1>3, <1>4, <1>5, <1>6, <1>7, <1>8, <1>9, <1>10, <1>11, <1>12 DEF Steps

LEMMA HeapUnchanged ==
  ASSUME NEW h, Heap(h), UNCHANGED vars
  PROVE  Heap(h)'
<1>1. UNCHANGED <<block, fileEnd, freeChain, modulus, modValue, glock, proc>>
  BY DEF vars, file, header
<1>2. \A i : HashGroup(i)' = HashGroup(i)
  BY <1>1 DEF HashGroup
<1>3. ASSUME NEW i
      PROVE  Home(i)' = Home(i)
  <2>1. Movers(i)' = Movers(i)
    BY <1>1, <1>2 DEF Movers
  <2>2. Home(i)' = IF Movers(i)' = {} THEN HashGroup(i)' ELSE proc'[CHOOSE v \in Movers(i)' : TRUE].group
    BY DEF Home, Movers
  <2>3. QED
    BY <1>1, <1>2, <2>1, <2>2, HomeIs
<1>4. ASSUME NEW p \in Place
      PROVE  PlaceOK(p, h)'
  <2>1. PlaceOK(p, h)
    BY DEF Heap
  <2>2. PartOK(p, h)'
    BY <1>1, <2>1 DEF PlaceOK, PartOK, Writing
  <2>3. AbsentGroup(p)' <=> AbsentGroup(p)
    BY <1>1 DEF AbsentGroup
  <2>4. QED
    BY <1>1, <2>1, <2>2, <2>3 DEF PlaceOK
<1>5. ASSUME NEW i \in Ids
      PROVE  IdOK(i, h)'
  BY <1>1, <1>3 DEF Heap, IdOK, InPlace
<1>6. ASSUME NEW u \in Users
      PROVE  HeldOK(u, h)'
  <2>1. HeldOK(u, h)
    BY DEF Heap
  <2>2. proc[u].at = "rewrite" => JobOK(u, h)'
    BY <1>1, <1>2, <1>3, <2>1 DEF HeldOK, JobOK, BufferOK, TargetOf
  <2>3. QED
    BY <1>1, <2>1, <2>2 DEF HeldOK
<1>7. QED
  BY <1>1, <1>4, <1>5, <1>6 DEF Heap

(* The file as it is created.                                               *)
NewHeap ==
  [view |-> [p \in Place |-> Empty], ptr |-> [x \in Pos |-> None],
   own |-> [p \in Place |-> IF p \in Groups THEN p ELSE 0],
   kept |-> [i \in Ids |-> {}], at |-> [i \in Ids |-> 0]]

LEMMA NewHeapIs ==
  ASSUME NEW h, h = NewHeap
  PROVE  /\ \A p \in Place : h.view[p] = Empty /\ h.own[p] = IF p \in Groups THEN p ELSE 0
         /\ \A x \in Pos : h.ptr[x] = None
         /\ \A i \in Ids : h.kept[i] = {} /\ h.at[i] = 0
         /\ h.view = [p \in Place |-> Empty] /\ h.ptr = [x \in Pos |-> None]
         /\ h.own = [p \in Place |-> IF p \in Groups THEN p ELSE 0]
         /\ h.kept = [i \in Ids |-> {}] /\ h.at = [i \in Ids |-> 0]
BY DEF NewHeap

LEMMA EmptyIs == Empty \in Block /\ NoPart \in Part /\ Empty.recs = <<>> /\ Empty.next = None /\ Empty.part = NoPart
<1>1. <<>> \in Seq(Rec)
  BY NoRecs
<1>2. QED
  BY <1>1 DEF Empty, NoPart, Block, Part

LEMMA NewChained ==
  ASSUME NEW ptr, ptr = [x \in Pos |-> None], NEW own, own = [p \in Place |-> IF p \in Groups THEN p ELSE 0]
  PROVE  Chained(ptr, own, 0)
<1>1. Linked(ptr, [o \in Over |-> FreePos], 0)
  <2>1. 0 \in 0 .. MaxOverflow /\ \A o \in Over : ~(o <= 0)
    BY FileConstants DEF Over
  <2>2. FreePos \in Pos
    BY PosIn
  <2>3. QED
    BY <2>1, <2>2 DEF Linked
<1>2. Owned(ptr, own)
  <2>1. \A p \in Place : p \in Int
    BY FileConstants DEF Place
  <2>2. \A g \in Groups : Primary(g) \in Place /\ Primary(g) = g
    BY Places
  <2>3. QED
    BY <2>1, <2>2 DEF Owned
<1>3. Ranked(ptr, [p \in Place |-> 0], 0, 0)
  <2>1. \A p \in Place : ptr[NextPos(p)] = None
    BY PosIn
  <2>2. QED
    BY <2>1 DEF Ranked
<1>4. QED
  BY <1>1, <1>2, <1>3 DEF Chained

LEMMA InitHeap ==
  ASSUME Init
  PROVE  \E h : Heap(h) /\ \A i \in Ids : h.kept[i] = {}
<1>1. PICK h : h = NewHeap
  OBVIOUS
<1>2. /\ \A p \in Place : h.view[p] = Empty /\ h.own[p] = IF p \in Groups THEN p ELSE 0
      /\ \A x \in Pos : h.ptr[x] = None
      /\ \A i \in Ids : h.kept[i] = {} /\ h.at[i] = 0
      /\ h.view = [p \in Place |-> Empty] /\ h.ptr = [x \in Pos |-> None]
      /\ h.own = [p \in Place |-> IF p \in Groups THEN p ELSE 0]
      /\ h.kept = [i \in Ids |-> {}] /\ h.at = [i \in Ids |-> 0]
  BY ZenonT(40), <1>1, NewHeapIs
<1>3. h.view \in [Place -> Block] /\ h.at \in [Ids -> Nat] /\ h.kept \in [Ids -> SUBSET Rec]
  BY <1>2, EmptyIs
<1>4. Chained(h.ptr, h.own, fileEnd) /\ h.ptr[FreePos] = freeChain
  <2>1. fileEnd = 0 /\ freeChain = None
    BY DEF Init
  <2>2. Chained(h.ptr, h.own, 0)
    BY <1>2, NewChained
  <2>3. QED
    BY <1>2, <2>1, <2>2, PosIn
<1>5. ASSUME NEW p \in Place
      PROVE  PlaceOK(p, h)
  <2>1. block[p] = Empty /\ h.view[p] = Empty /\ h.ptr[NextPos(p)] = None
    BY <1>2, PosIn DEF Init
  <2>2. RecsIn(h.view[p].recs) = {} /\ DistinctIds(h.view[p].recs)
    BY <2>1, EmptyIs, NoRecs
  <2>3. p \notin Groups => h.own[p] = 0
    BY <1>2
  <2>4. QED
    BY <2>1, <2>2, <2>3, EmptyIs DEF PlaceOK, PartOK
<1>6. ASSUME NEW i \in Ids
      PROVE  IdOK(i, h)
  BY <1>2, PosIn DEF IdOK, OldBig
<1>7. ASSUME NEW u \in Users
      PROVE  HeldOK(u, h)
  <2>1. proc[u].at = "idle"
    BY DEF Init
  <2>2. SrcOf(proc[u]) = None /\ RestOf(proc[u]) = None /\ BigOf(proc[u]) = None /\ TodoOf(proc[u]) = <<>>
    BY <2>1 DEF SrcOf, RestOf, BigOf, TodoOf
  <2>3. QED
    BY <1>2, <2>1, <2>2, PosIn, NoRecs DEF HeldOK
<1>8. QED
  BY <1>2, <1>3, <1>4, <1>5, <1>6, <1>7 DEF Heap

-----------------------------------------------------------------------------
(* The types of the file and of what sessions count.                        *)
Counts(p) == p.bytes \in Int /\ p.recs \in Int

Numbers(p) ==
  /\ p.at = "rewrite" /\ p.then.at = "tidy" => Counts(p.then)
  /\ p.at \in {"tidy", "account"} => Counts(p)
  /\ p.at = "select" => p.group \in Nat \ {0} /\ p.picked \in Seq(Ids) /\ p.bytes \in Nat

Typed ==
  /\ block \in [Place -> Block] /\ load \in Nat /\ recCount \in Nat /\ updCt \in Nat
  /\ reply \in Vals \cup {NoRec} /\ steady \in [Users -> SUBSET Ids] /\ skewed \in BOOLEAN
  /\ \A u \in Users : Numbers(proc[u])

LEMMA PutBlock ==
  ASSUME NEW b, b \in [Place -> Block], NEW q, NEW c \in Block
  PROVE  [b EXCEPT ![q] = c] \in [Place -> Block]
OBVIOUS

LEMMA BlockOfIs ==
  ASSUME NEW recs \in Seq(Rec), NEW next \in Over \cup {None}
  PROVE  BlockOf(recs, next) \in Block
BY EmptyIs DEF BlockOf, Block

LEMMA PartIs ==
  ASSUME NEW v \in Vals, NEW n \in Nat
  PROVE  BigPart(v, n) \in Block
BY NoRecs DEF BigPart, Block, Part

LEMMA NextIs ==
  ASSUME NEW b \in Block, NEW next \in Over \cup {None}
  PROVE  [b EXCEPT !.next = next] \in Block
BY DEF Block

(* The blocks that a session writes.                                        *)
LEMMA FreeOverflowTyped ==
  ASSUME NEW h, Heap(h), block \in [Place -> Block], NEW o, FreeOverflow(o)
  PROVE  block' \in [Place -> Block]
<1>1. freeChain \in Over \cup {None}
  BY PtrIs, PosIn DEF Heap
<1>2. PICK c : c = [Empty EXCEPT !.next = freeChain]
  OBVIOUS
<1>3. c \in Block
  BY <1>1, <1>2, EmptyIs, NextIs
<1>4. block' = [block EXCEPT ![Overflow(o)] = c]
  BY <1>2 DEF FreeOverflow
<1>5. QED
  BY <1>3, <1>4, PutBlock

LEMMA WorkingTyped ==
  ASSUME HashInv, NEW u \in Users, NEW h, Heap(h), block \in [Place -> Block], Working(u)
  PROVE  block' \in [Place -> Block]
<1>1. PICK job : job = proc[u].job
  OBVIOUS
<1>2. proc[u].at = "rewrite"
  BY DEF Working, Dechain, MoveOn, Extend, Adding, Add, GiveAway, NextSource, WriteBlock, Copied
<1>3. /\ \A t \in 1 .. Len(job.to) : job.to[t].blk \in Block
      /\ job.to \in Seq([at : Place, blk : Block])
  BY <1>1, <1>2, RewriteIs
<1>4. CASE Dechain(u)
  BY <1>4, FreeOverflowTyped DEF Dechain
<1>5. CASE MoveOn(u)
  <2>1. PICK q, o, p, recs, n, first :
          /\ q = job.to[1].at /\ o = job.to[1].blk.next /\ p = Overflow(o) /\ recs = block[p].recs
          /\ n = Fits(recs, Room(job.to[1].blk.recs)) /\ first = job.to[1].blk.recs \o SubSeq(recs, 1, n)
    OBVIOUS
  <2>2. block' = [block EXCEPT ![q] = BlockOf(first, o)]
    BY <1>1, <1>5, <2>1 DEF MoveOn, Cur, Job
  <2>3. 1 \in 1 .. Len(job.to) /\ o # None
    <3>1. job.to # <<>> /\ o # None
      BY <1>1, <1>5, <2>1 DEF MoveOn, Packing, Cur, Job
    <3>2. QED
      BY <1>3, <3>1
  <2>4. /\ job.to[1].blk.recs \in Seq(Rec) /\ o \in Over
    BY <1>3, <2>1, <2>3 DEF Block
  <2>5. p \in Place
    BY <2>1, <2>4, Places
  <2>6. recs \in Seq(Rec)
    BY <2>1, <2>5, BlockType
  <2>7. n \in 0 .. Len(recs)
    BY <2>1, <2>4, <2>6, RoomInt, FitsIn
  <2>8. SubSeq(recs, 1, n) \in Seq(Rec)
    BY <2>6, <2>7
  <2>9. first \in Seq(Rec)
    BY <2>1, <2>4, <2>8, RecsCat
  <2>10. QED
    BY <2>2, <2>4, <2>9, BlockOfIs, PutBlock
<1>6. CASE Extend(u)
  <2>1. PICK t, n : t = Target(u) /\ n = NewBlock
    OBVIOUS
  <2>2. n \in Over /\ Adding(u) /\ block' = [block EXCEPT ![job.to[t].at] = [job.to[t].blk EXCEPT !.next = n]]
    BY <1>1, <1>6, <2>1 DEF Extend, GetOverflow, Job
  <2>3. t \in 1 .. Len(job.to)
    BY <1>1, <2>1, <2>2, AddingIs
  <2>4. QED
    BY <1>3, <2>2, <2>3, NextIs, PutBlock
<1>7. CASE Add(u) \/ NextSource(u)
  BY <1>7 DEF Add, NextSource, file
<1>8. CASE GiveAway(u)
  BY <1>8, FreeOverflowTyped DEF GiveAway
<1>9. CASE WriteBlock(u)
  <2>1. block' = [block EXCEPT ![job.to[1].at] = job.to[1].blk] /\ job.to # <<>>
    BY <1>1, <1>9 DEF WriteBlock, Cur, Job
  <2>2. 1 \in 1 .. Len(job.to)
    BY <1>3, <2>1
  <2>3. QED
    BY <1>3, <2>1, <2>2, PutBlock
<1>10. QED
  BY <1>4, <1>5, <1>6, <1>7, <1>8, <1>9 DEF Working

LEMMA FreeBigTyped ==
  ASSUME HashInv, NEW u \in Users, NEW h, Heap(h), block \in [Place -> Block], FreeBig(u)
  PROVE  block' \in [Place -> Block]
<1>1. CASE proc[u].big = None
  BY <1>1 DEF FreeBig
<1>2. CASE proc[u].big # None
  <2>1. PICK os : os = ChainFrom(block, proc[u].big)
    OBVIOUS
  <2>2. block' = [p \in Place |->
                    IF p \notin {Overflow(os[k]) : k \in 1 .. Len(os)} THEN block[p]
                    ELSE [Empty EXCEPT !.next = IF block[p].next = None THEN freeChain ELSE block[p].next]]
    BY <1>2, <2>1 DEF FreeBig
  <2>3. freeChain \in Over \cup {None}
    BY PtrIs, PosIn DEF Heap
  <2>4. ASSUME NEW p \in Place
        PROVE  [Empty EXCEPT !.next = IF block[p].next = None THEN freeChain ELSE block[p].next] \in Block
    <3>1. PICK n : n = IF block[p].next = None THEN freeChain ELSE block[p].next
      OBVIOUS
    <3>2. n \in Over \cup {None}
      BY <2>3, <3>1, BlockType
    <3>3. QED
      BY <3>1, <3>2, EmptyIs, NextIs
  <2>5. QED
    BY <2>2, <2>4
<1>3. QED
  BY <1>1, <1>2

LEMMA BigTyped ==
  ASSUME HashInv, NEW u \in Users, NEW h, Heap(h), block \in [Place -> Block], WriteBig(u) \/ MoreBig(u)
  PROVE  block' \in [Place -> Block]
<1>1. CASE WriteBig(u)
  <2>1. PICK v \in Vals : block' = [block EXCEPT ![Overflow(NewBlock)] = BigPart(v, 1)]
    BY <1>1 DEF WriteBig
  <2>2. QED
    BY <2>1, PartIs, PutBlock
<1>2. CASE MoreBig(u)
  <2>1. PICK l, p, o, v, m : /\ l = Overflow(proc[u].last) /\ o = NewBlock /\ p = Overflow(o)
                             /\ v = proc[u].rec.val /\ m = proc[u].nth + 1
    OBVIOUS
  <2>2. o \in Over /\ proc[u].at = "big" /\ block' = [block EXCEPT ![l].next = o, ![p] = BigPart(v, m)]
    BY <1>2, <2>1 DEF MoreBig, GetOverflow
  <2>3. proc[u].last \in Over /\ proc[u].nth \in Nat /\ proc[u].rec \in Rec
    BY <2>2 DEF Heap, HeldOK
  <2>4. l \in Place /\ v \in Vals /\ m \in Nat
    BY <2>1, <2>3, Places DEF Rec
  <2>5. PICK c : c = [block EXCEPT ![l] = [block[l] EXCEPT !.next = o]]
    OBVIOUS
  <2>6. c \in [Place -> Block]
    <3>1. [block[l] EXCEPT !.next = o] \in Block
      BY <2>2, <2>4, NextIs
    <3>2. QED
      BY <2>5, <3>1, PutBlock
  <2>7. block' = [c EXCEPT ![p] = BigPart(v, m)]
    BY <2>2, <2>5
  <2>8. QED
    BY <2>4, <2>6, <2>7, PartIs, PutBlock
<1>3. QED
  BY <1>1, <1>2

LEMMA BlocksTyped ==
  ASSUME HashInv, NEW u \in Users, NEW h, Heap(h), block \in [Place -> Block], Steps(u)
  PROVE  block' \in [Place -> Block]
<1>1. CASE Working(u) \/ FreeBig(u) \/ WriteBig(u) \/ MoreBig(u)
  BY <1>1, WorkingTyped, FreeBigTyped, BigTyped
<1>2. CASE ~(Working(u) \/ FreeBig(u) \/ WriteBig(u) \/ MoreBig(u))
  <2>1. UNCHANGED block
    BY <1>2 DEF Steps, Read, ReadGroup, Write, LockToWrite, WriteAfterBig, Delete, FreeLocks, Account,
       Resize, ResizeOff, SplitStart, SplitSource, MergeStart, Release, Select, SelectGroup, SelectEnd, file
  <2>2. QED
    BY <2>1
<1>3. QED
  BY <1>1, <1>2

(* What was there of an id that a session has just locked the group of.     *)
LEMMA OldIs ==
  ASSUME HashInv, NEW h, Heap(h), block \in [Place -> Block], NEW i \in Ids, CanLock(HashGroup(i), TRUE)
  PROVE  /\ OldSize(OldRec(i)) \in Int /\ Cardinality(OldRec(i)) \in Int
<1>1. PICK g, old : g = HashGroup(i) /\ old = OldRec(i)
  OBVIOUS
<1>2. Home(i) = g /\ g \in Groups /\ ~WriteLocked(g)
  <2>1. Home(i) = g
    BY <1>1, HomeUnlocked
  <2>2. ~WriteLocked(g)
    BY <1>1 DEF CanLock, WriteLocked, MyLock
  <2>3. QED
    BY <2>1, <2>2, HomePresent
<1>3. old = h.kept[i]
  BY <1>1, <1>2, FoundKept DEF OldRec
<1>4. old = {} \/ \E r \in Rec : old = {r}
  BY <1>3 DEF Heap, IdOK
<1>5. OldSize(old) \in Int
  <2>1. CASE old = {}
    BY <2>1 DEF OldSize
  <2>2. CASE old # {}
    <3>1. PICK r \in Rec : old = {r}
      BY <1>4, <2>2
    <3>2. OldSize(old) = Size[r.val]
      BY <3>1 DEF OldSize
    <3>3. r.val \in Vals
      BY DEF Rec
    <3>4. QED
      BY <3>2, <3>3, FileConstants
  <2>3. QED
    BY <2>1, <2>2
<1>6. Cardinality(old) \in Int
  <2>1. CASE old = {}
    BY <2>1, FS_EmptySet
  <2>2. CASE old # {}
    <3>1. PICK r \in Rec : old = {r}
      BY <1>4, <2>2
    <3>2. Cardinality({r}) = 1
      BY FS_Singleton
    <3>3. QED
      BY <3>1, <3>2
  <2>3. QED
    BY <2>1, <2>2
<1>7. QED
  BY <1>1, <1>5, <1>6

LEMMA TidyCounts ==
  ASSUME NEW b \in Int, NEW n \in Int, NEW o, NEW p, NEW was, NEW put, NEW job, NEW e,
         e = [at |-> "tidy", big |-> o, bytes |-> b, recs |-> n],
         p = [at |-> "rewrite", was |-> was, put |-> put, then |-> e, job |-> job]
  PROVE  Numbers(p)
BY DEF Numbers, Counts

LEMMA LockNumbers ==
  ASSUME HashInv, NEW u \in Users, NEW h, Heap(h), block \in [Place -> Block], NEW r, r.id \in Ids, r.val \in Vals,
         LockToWrite(u, r)
  PROVE  Numbers(proc'[u])
<1>1. PICK i, g, old, b, n, e, was, put, job :
        /\ i = r.id /\ g = HashGroup(i) /\ old = OldRec(i) /\ b = Size[r.val] - OldSize(old)
        /\ n = (IF old = {} THEN 1 ELSE 0) /\ e = [at |-> "tidy", big |-> OldBig(old), bytes |-> b, recs |-> n]
        /\ was = Snapshot({g}) /\ put = {[id |-> r.id, val |-> r.val]} /\ job = WriteJob(g, r)
  OBVIOUS
<1>2. CanLock(g, TRUE) /\ Goes(u, [at |-> "rewrite", was |-> was, put |-> put, then |-> e, job |-> job])
  BY <1>1 DEF LockToWrite, Rewrite
<1>3. proc'[u] = [at |-> "rewrite", was |-> was, put |-> put, then |-> e, job |-> job]
  BY <1>2 DEF Goes, HashInv
<1>4. OldSize(old) \in Int
  BY <1>1, <1>2, OldIs
<1>5. Size[r.val] \in Int
  BY FileConstants
<1>6. b \in Int /\ n \in Int
  BY <1>1, <1>4, <1>5
<1>7. QED
  BY <1>1, <1>3, <1>6, TidyCounts

LEMMA DeleteNumbers ==
  ASSUME HashInv, NEW u \in Users, NEW h, Heap(h), block \in [Place -> Block], Delete(u)
  PROVE  Numbers(proc'[u])
<1>1. PICK i \in Ids :
        /\ CanLock(HashGroup(i), TRUE)
        /\ Rewrite(u, {HashGroup(i)}, DeleteJob(HashGroup(i), i), {[id |-> i, val |-> NoRec]},
                   [at |-> "tidy", big |-> OldBig(OldRec(i)), bytes |-> -OldSize(OldRec(i)),
                    recs |-> -Cardinality(OldRec(i))])
  BY DEF Delete
<1>2. PICK old, b, n, e, was, put, job :
        /\ old = OldRec(i) /\ b = -OldSize(old) /\ n = -Cardinality(old)
        /\ e = [at |-> "tidy", big |-> OldBig(old), bytes |-> b, recs |-> n]
        /\ was = Snapshot({HashGroup(i)}) /\ put = {[id |-> i, val |-> NoRec]} /\ job = DeleteJob(HashGroup(i), i)
  OBVIOUS
<1>3. Goes(u, [at |-> "rewrite", was |-> was, put |-> put, then |-> e, job |-> job])
  BY <1>1, <1>2 DEF Rewrite
<1>4. proc'[u] = [at |-> "rewrite", was |-> was, put |-> put, then |-> e, job |-> job]
  BY <1>3 DEF Goes, HashInv
<1>5. b \in Int /\ n \in Int
  BY <1>1, <1>2, OldIs
<1>6. QED
  BY <1>2, <1>4, <1>5, TidyCounts

(* A group that a SELECT reads.                                             *)
LEMMA GroupRead ==
  ASSUME HashInv, NEW h, Heap(h), block \in [Place -> Block], NEW g \in Groups, ~WriteLocked(g)
  PROVE  /\ GroupRecs(block, g) \in Seq(Rec) /\ DistinctIds(GroupRecs(block, g))
         /\ RecsIn(GroupRecs(block, g)) = UNION {RecsIn(block[p].recs) : p \in PlacesOf(block, g)}
         /\ \A r \in RecsIn(GroupRecs(block, g)) : /\ h.kept[r.id] = {r} /\ h.own[h.at[r.id]] = g
                                                   /\ h.at[r.id] \in Place
<1>1. PICK ptr, own, at, kept : ptr = h.ptr /\ own = h.own /\ at = h.at /\ kept = h.kept
  OBVIOUS
<1>2. Sane(block, g, ptr, own, at, kept)
  BY <1>1, OnDiskGroup
<1>3. Chained(ptr, own, fileEnd)
  BY <1>1 DEF Heap
<1>4. /\ GroupRecs(block, g) \in Seq(Rec) /\ DistinctIds(GroupRecs(block, g))
      /\ RecsIn(GroupRecs(block, g)) = UNION {RecsIn(block[p].recs) : p \in PlacesOf(block, g)}
      /\ \A r \in RecsIn(GroupRecs(block, g)) : kept[r.id] = {r} /\ own[at[r.id]] = g /\ at[r.id] \in Place
  BY <1>2, <1>3, GroupIs
<1>5. QED
  BY <1>1, <1>4

LEMMA IdsOf ==
  ASSUME NEW recs \in Seq(Rec), NEW picked \in Seq(Ids)
  PROVE  picked \o [k \in 1 .. Len(recs) |-> recs[k].id] \in Seq(Ids)
<1>1. PICK n \in Nat : n = Len(recs)
  BY SomeRecs
<1>2. \A k \in 1 .. n : recs[k].id \in Ids
  <2>1. \A k \in 1 .. n : recs[k] \in Rec
    BY <1>1, SomeRecs
  <2>2. QED
    BY <2>1 DEF Rec
<1>3. [k \in 1 .. n |-> recs[k].id] \in Seq(Ids)
  BY <1>2
<1>4. QED
  BY <1>1, <1>3

LEMMA SelectGroupNumbers ==
  ASSUME HashInv, NEW u \in Users, NEW h, Heap(h), Typed, SelectGroup(u)
  PROVE  Numbers(proc'[u])
<1>1. PICK g, recs, more, n, p, upd, gap :
        /\ g = proc[u].group /\ recs = GroupRecs(block, g) /\ n = proc[u].bytes + Bytes(recs)
        /\ more = proc[u].picked \o [k \in 1 .. Len(recs) |-> recs[k].id]
        /\ p = [at |-> "select", group |-> g + 1, picked |-> more, upd |-> upd, bytes |-> n, gap |-> gap]
        /\ upd = proc[u].upd /\ gap = proc[u].gap
  OBVIOUS
<1>2. /\ proc[u].at = "select" /\ g <= modulus /\ CanLock(g, FALSE)
      /\ Goes(u, [proc[u] EXCEPT !.picked = more, !.group = g + 1, !.bytes = n])
  BY <1>1 DEF SelectGroup
<1>3. g \in Nat \ {0} /\ proc[u].picked \in Seq(Ids) /\ proc[u].bytes \in Nat
  BY <1>1, <1>2 DEF Typed, Numbers
<1>4. g \in Groups
  BY <1>2, <1>3, FileConstants DEF HashInv, HeaderInv, HeaderOK, Groups
<1>5. ~WriteLocked(g)
  BY <1>2 DEF CanLock, WriteLocked, MyLock
<1>6. recs \in Seq(Rec)
  BY <1>1, <1>4, <1>5, GroupRead DEF Typed
<1>7. more \in Seq(Ids) /\ n \in Nat /\ g + 1 \in Nat \ {0}
  <2>1. more \in Seq(Ids)
    BY <1>1, <1>3, <1>6, IdsOf
  <2>2. Bytes(recs) \in Nat
    BY <1>6, BytesNat
  <2>3. QED
    BY <1>1, <1>3, <2>1, <2>2
<1>8. proc'[u] = p
  <2>1. AtSelect(proc[u], g, proc[u].picked, upd, proc[u].bytes, gap)
    BY <1>1, <1>2 DEF HashInv, SessionOK, Shape, AtSelect
  <2>2. AtSelect([proc[u] EXCEPT !.picked = more, !.group = g + 1, !.bytes = n], g + 1, more, upd, n, gap)
    BY <2>1, NextGroup
  <2>3. proc'[u] = [proc[u] EXCEPT !.picked = more, !.group = g + 1, !.bytes = n]
    BY <1>2 DEF Goes, HashInv
  <2>4. QED
    BY <1>1, <2>2, <2>3 DEF AtSelect
<1>9. QED
  BY <1>1, <1>7, <1>8 DEF Numbers

LEMMA NumbersNext ==
  ASSUME HashInv, NEW u \in Users, NEW h, Heap(h), Typed, Steps(u)
  PROVE  Numbers(proc'[u])
<1>1. PICK e : Goes(u, e)
  BY StepGoes
<1>2. proc'[u] = e
  BY <1>1 DEF Goes, HashInv
<1>0. \A x : Goes(u, x) => proc'[u] = x
  BY DEF Goes, HashInv
<1>3. Shape(proc[u]) /\ Numbers(proc[u])
  BY DEF HashInv, SessionOK, Typed
<1>4. CASE Write(u) \/ WriteAfterBig(u)
  <2>1. CASE Write(u)
    <3>1. PICK i \in Ids, v \in Vals : LockToWrite(u, [id |-> i, val |-> v, big |-> None])
      BY <2>1 DEF Write
    <3>2. PICK r : r = [id |-> i, val |-> v, big |-> None]
      OBVIOUS
    <3>3. r.id \in Ids /\ r.val \in Vals /\ LockToWrite(u, r)
      BY <3>1, <3>2
    <3>4. QED
      BY <3>3, LockNumbers DEF Typed
  <2>2. CASE WriteAfterBig(u)
    <3>1. PICK r : r = proc[u].rec
      OBVIOUS
    <3>2. LockToWrite(u, r) /\ proc[u].at = "write"
      BY <2>2, <3>1 DEF WriteAfterBig
    <3>3. r \in Rec
      BY <3>1, <3>2 DEF Heap, HeldOK
    <3>4. QED
      BY <3>2, <3>3, LockNumbers DEF Typed, Rec
  <2>3. QED
    BY <1>4, <2>1, <2>2
<1>5. CASE Delete(u)
  BY <1>5, DeleteNumbers DEF Typed
<1>6. CASE SelectGroup(u)
  BY <1>6, SelectGroupNumbers
<1>7. CASE Working(u)
  <2>1. PICK job : proc'[u].at = "rewrite" /\ proc'[u].then = proc[u].then /\ proc[u].at = "rewrite"
    <3>1. PICK job : Works(u, job)
      BY <1>7, WorkingIs
    <3>2. QED
      BY <1>7, <3>1, WorkIs
  <2>2. QED
    BY <1>3, <2>1 DEF Numbers
<1>8. CASE FreeLocks(u)
  <2>1. e = proc[u].then /\ proc[u].at = "rewrite"
    BY <1>2, <1>8 DEF FreeLocks, Goes, HashInv
  <2>2. (e.at = "tidy" /\ Counts(e)) \/ e.at = "release"
    BY <1>3, <2>1 DEF Shape, Numbers
  <2>3. QED
    BY <1>2, <2>2 DEF Numbers
<1>9. CASE FreeBig(u)
  <2>1. proc[u].at = "tidy" /\ e = [proc[u] EXCEPT !.at = "account"]
    BY <1>2, <1>9 DEF FreeBig, Goes, HashInv
  <2>2. PICK o, b, n : proc[u] = [at |-> "tidy", big |-> o, bytes |-> b, recs |-> n]
    BY <1>3, <2>1 DEF Shape, Tidying
  <2>3. b \in Int /\ n \in Int
    BY <1>3, <2>1, <2>2 DEF Numbers, Counts
  <2>4. e = [at |-> "account", big |-> o, bytes |-> b, recs |-> n]
    BY <2>1, <2>2
  <2>5. QED
    BY <1>2, <2>3, <2>4 DEF Numbers, Counts
<1>10. CASE Select(u)
  <2>1. e.at = "select" /\ e.group = 1 /\ e.picked = <<>> /\ e.bytes = 0
    BY <1>2, <1>10 DEF Select, Goes, HashInv
  <2>2. QED
    BY <1>2, <2>1 DEF Numbers
<1>11. CASE WriteBig(u) \/ MoreBig(u)
  <2>1. PICK r, o, n : Goes(u, BigDone(r, o, n))
    BY <1>11 DEF WriteBig, MoreBig
  <2>2. proc'[u] = BigDone(r, o, n)
    BY <2>1 DEF Goes, HashInv
  <2>3. proc'[u].at \in {"big", "write"}
    BY <2>2 DEF BigDone
  <2>4. QED
    BY <2>3 DEF Numbers
<1>12. CASE \/ Read(u) \/ ReadGroup(u) \/ Account(u) \/ Resize(u) \/ ResizeOff(u) \/ SplitStart(u)
            \/ Release(u) \/ SelectEnd(u)
  <2>1. \E x : Goes(u, x) /\ x.at \in {"read", "idle", "resize", "split", "merge", "source"}
    <3>1. CASE Read(u)
      <4>1. PICK i \in Ids : Goes(u, [at |-> "read", id |-> i, group |-> HashGroup(i)])
        BY <3>1 DEF Read
      <4>2. QED
        BY <4>1
    <3>2. CASE ReadGroup(u) \/ Release(u) \/ SelectEnd(u) \/ ResizeOff(u)
      <4>1. Goes(u, [at |-> "idle"])
        BY <3>2 DEF ReadGroup, Release, SelectEnd, ResizeOff
      <4>2. QED
        BY <4>1
    <3>3. CASE Account(u)
      <4>1. Goes(u, [at |-> "resize"])
        BY <3>3 DEF Account
      <4>2. QED
        BY <4>1
    <3>4. CASE Resize(u)
      <4>1. Goes(u, [at |-> "split"]) \/ Goes(u, [at |-> "merge"]) \/ Goes(u, [at |-> "idle"])
        BY <3>4 DEF Resize
      <4>2. QED
        BY <4>1
    <3>5. CASE SplitStart(u)
      <4>1. PICK n, g : Goes(u, [at |-> "source", new |-> n, group |-> g])
        BY <3>5 DEF SplitStart
      <4>2. QED
        BY <4>1
    <3>6. QED
      BY <1>12, <3>1, <3>2, <3>3, <3>4, <3>5
  <2>2. QED
    BY <1>0, <2>1 DEF Numbers
<1>13. CASE SplitSource(u) \/ MergeStart(u)
  <2>1. PICK w, j, x : /\ Goes(u, [at |-> "rewrite", was |-> w, put |-> {}, then |-> x, job |-> j])
                       /\ x = [at |-> "release"]
    BY <1>13 DEF SplitSource, MergeStart, Rewrite
  <2>2. proc'[u].at = "rewrite" /\ proc'[u].then = [at |-> "release"]
    BY <1>0, <2>1
  <2>3. QED
    BY <2>2 DEF Numbers
<1>14. QED
  BY <1>4, <1>5, <1>6, <1>7, <1>8, <1>9, <1>10, <1>11, <1>12, <1>13 DEF Steps

LEMMA MaxNat ==
  ASSUME NEW n \in Int
  PROVE  Max({0, n}) \in Nat
<1>1. CASE n >= 0
  <2>1. \E x \in {0, n} : \A y \in {0, n} : x >= y
    BY <1>1
  <2>2. QED
    BY <2>1 DEF Max
<1>2. CASE n < 0
  <2>1. \E x \in {0, n} : \A y \in {0, n} : x >= y
    BY <1>2
  <2>2. \A x \in {0, n} : (\A y \in {0, n} : x >= y) => x = 0
    BY <1>2
  <2>3. QED
    BY <2>1, <2>2 DEF Max
<1>3. QED
  BY <1>1, <1>2

(* The counts and what a READ returns.                                      *)
LEMMA CountsTyped ==
  ASSUME HashInv, NEW u \in Users, Typed, Steps(u)
  PROVE  load' \in Nat /\ recCount' \in Nat /\ updCt' \in Nat
<1>1. CASE Account(u)
  <2>1. proc[u].bytes \in Int /\ proc[u].recs \in Int /\ load \in Nat /\ recCount \in Nat /\ updCt \in Nat
    BY <1>1 DEF Account, Typed, Numbers, Counts
  <2>2. PICK a, b : a = load + proc[u].bytes /\ b = recCount + proc[u].recs
    OBVIOUS
  <2>3. load' = Max({0, a}) /\ recCount' = Max({0, b}) /\ updCt' = updCt
    BY <1>1, <2>2 DEF Account
  <2>4. a \in Int /\ b \in Int
    BY <2>1, <2>2
  <2>5. QED
    BY <2>1, <2>3, <2>4, MaxNat
<1>2. CASE SelectEnd(u)
  <2>1. proc[u].picked \in Seq(Ids) /\ proc[u].bytes \in Nat
    BY <1>2 DEF SelectEnd, Typed, Numbers
  <2>2. Len(proc[u].picked) \in Nat
    BY <2>1
  <2>3. QED
    BY <1>2, <2>1, <2>2 DEF SelectEnd, Typed
<1>3. CASE Write(u) \/ WriteAfterBig(u) \/ Delete(u)
  <2>1. UNCHANGED <<load, recCount>> /\ updCt' = updCt + 1
    BY <1>3 DEF Write, WriteAfterBig, Delete, LockToWrite
  <2>2. QED
    BY <2>1 DEF Typed
<1>4. CASE ~(Account(u) \/ SelectEnd(u) \/ Write(u) \/ WriteAfterBig(u) \/ Delete(u))
  <2>1. CASE Working(u)
    BY <2>1, WorkingIs DEF Typed, header
  <2>2. CASE ~Working(u)
    BY <1>4, <2>2 DEF Steps, Read, ReadGroup, WriteBig, MoreBig, FreeLocks, FreeBig, Resize, ResizeOff,
       SplitStart, SplitSource, MergeStart, Release, Select, SelectGroup, header, Typed
  <2>3. QED
    BY <2>1, <2>2
<1>5. QED
  BY <1>1, <1>2, <1>3, <1>4

LEMMA ReplyTyped ==
  ASSUME HashInv, NEW u \in Users, NEW h, Heap(h), Typed, Steps(u)
  PROVE  reply' \in Vals \cup {NoRec}
<1>1. CASE ReadGroup(u)
  <2>1. PICK g, i : g = proc[u].group /\ i = proc[u].id
    OBVIOUS
  <2>2. proc[u].at = "read" /\ reply' = Lookup(block, g, i)
    BY <1>1, <2>1 DEF ReadGroup
  <2>3. i \in Ids /\ g = Home(i) /\ MyLock(u, g, FALSE) \in glock
    BY <2>1, <2>2 DEF HashInv, SessionOK, HomeOK
  <2>4. ~WriteLocked(g)
    <3>1. ASSUME NEW v \in Users, MyLock(v, g, TRUE) \in glock
          PROVE  FALSE
      <4>1. MyLock(v, g, TRUE) = MyLock(u, g, FALSE)
        BY <2>3, <3>1 DEF HashInv, LocksInv, MyLock
      <4>2. QED
        BY <4>1 DEF MyLock
    <3>2. QED
      BY <3>1 DEF WriteLocked
  <2>5. Lookup(block, g, i) = ValIn(h.kept[i])
    BY <2>3, <2>4, HomePresent, LookupIs DEF Typed
  <2>6. h.kept[i] = {} \/ \E r \in Rec : h.kept[i] = {r}
    BY <2>3 DEF Heap, IdOK
  <2>7. ValIn(h.kept[i]) \in Vals \cup {NoRec}
    <3>1. CASE h.kept[i] = {}
      BY <3>1 DEF ValIn
    <3>2. CASE h.kept[i] # {}
      <4>1. PICK r \in Rec : h.kept[i] = {r}
        BY <2>6, <3>2
      <4>2. ValIn(h.kept[i]) = r.val
        BY <4>1 DEF ValIn
      <4>3. QED
        BY <4>2 DEF Rec
    <3>3. QED
      BY <3>1, <3>2
  <2>8. QED
    BY <2>2, <2>5, <2>7
<1>2. CASE ~ReadGroup(u)
  <2>1. CASE Working(u)
    BY <2>1, WorkingIs DEF Typed
  <2>2. CASE ~Working(u)
    <3>1. UNCHANGED reply
      BY <1>2, <2>2 DEF Steps, Read, Write, LockToWrite, WriteBig, MoreBig, WriteAfterBig, Delete, FreeLocks,
         FreeBig, Account, Resize, ResizeOff, SplitStart, SplitSource, MergeStart, Release, Select,
         SelectGroup, SelectEnd
    <3>2. QED
      BY <3>1 DEF Typed
  <2>3. QED
    BY <2>1, <2>2
<1>3. QED
  BY <1>1, <1>2

LEMMA HistoryTyped ==
  ASSUME HashInv, NEW u \in Users, Typed, Steps(u)
  PROVE  steady' \in [Users -> SUBSET Ids] /\ skewed' \in BOOLEAN
<1>1. CASE Account(u)
  BY <1>1 DEF Account, Typed
<1>2. CASE SelectEnd(u)
  <2>1. steady' \in [Users -> SUBSET Ids]
    BY <1>2 DEF SelectEnd, Typed
  <2>2. skewed' \in BOOLEAN
    BY <1>2 DEF SelectEnd, Typed
  <2>3. QED
    BY <2>1, <2>2
<1>3. CASE FreeLocks(u)
  BY <1>3 DEF FreeLocks, Typed
<1>4. CASE Select(u)
  BY <1>4 DEF Select, Typed
<1>5. CASE ~(Account(u) \/ SelectEnd(u) \/ FreeLocks(u) \/ Select(u))
  <2>1. CASE Working(u)
    BY <2>1, WorkingIs DEF Typed, history
  <2>2. CASE ~Working(u)
    <3>1. UNCHANGED <<steady, skewed>>
      BY <1>5, <2>2 DEF Steps, Read, ReadGroup, Write, LockToWrite, WriteBig, MoreBig, WriteAfterBig, Delete,
         FreeBig, Resize, ResizeOff, SplitStart, SplitSource, MergeStart, Release, SelectGroup, history
    <3>2. QED
      BY <3>1 DEF Typed
  <2>3. QED
    BY <2>1, <2>2
<1>6. QED
  BY <1>1, <1>2, <1>3, <1>4, <1>5

-----------------------------------------------------------------------------
(* The invariant of the file.                                               *)
FileInv == HashInv /\ Typed /\ \E h : Heap(h)

LEMMA FileInit == Init => FileInv
<1> SUFFICES ASSUME Init
             PROVE  FileInv
  OBVIOUS
<1>1. HashInv
  BY HashInit
<1>2. \E h : Heap(h)
  BY InitHeap
<1>3. Typed
  <2>1. block \in [Place -> Block]
    BY EmptyIs DEF Init
  <2>2. \A u \in Users : Numbers(proc[u])
    BY DEF Init, Numbers
  <2>3. QED
    BY <2>1, <2>2 DEF Init, Typed
<1>4. QED
  BY <1>1, <1>2, <1>3 DEF FileInv

LEMMA FileStep == FileInv /\ [Next]_vars => FileInv'
<1> SUFFICES ASSUME FileInv, [Next]_vars
             PROVE  FileInv'
  OBVIOUS
<1>1. PICK h : Heap(h)
  BY DEF FileInv
<1>2. HashInv /\ Typed /\ HashInv'
  BY HashStep DEF FileInv
<1>3. CASE UNCHANGED vars
  <2>1. Heap(h)'
    BY <1>1, <1>3, HeapUnchanged
  <2>2. Typed'
    BY <1>2, <1>3 DEF Typed, vars, file, header, history
  <2>3. QED
    BY <1>2, <2>1, <2>2 DEF FileInv
<1>4. CASE Next
  <2>1. PICK u \in Users : Steps(u)
    BY <1>4, NextSteps
  <2>2. block \in [Place -> Block]
    BY <1>2 DEF Typed
  <2>3. \E k : Heap(k)'
    BY <1>1, <1>2, <2>1, <2>2, StepHeap
  <2>4. \A v \in Users : Numbers(proc'[v])
    <3>1. ASSUME NEW v \in Users
          PROVE  Numbers(proc'[v])
      <4>1. CASE v = u
        BY <1>1, <1>2, <2>1, <4>1, NumbersNext
      <4>2. CASE v # u
        <5>1. proc'[v] = proc[v]
          BY <1>2, <2>1, <4>2, StepOrderly, OrderlyIs
        <5>2. QED
          BY <1>2, <5>1 DEF Typed
      <4>3. QED
        BY <4>1, <4>2
    <3>2. QED
      BY <3>1
  <2>5. Typed'
    <3>1. block' \in [Place -> Block]
      BY <1>1, <1>2, <2>1, <2>2, BlocksTyped
    <3>2. load' \in Nat /\ recCount' \in Nat /\ updCt' \in Nat
      BY <1>2, <2>1, CountsTyped
    <3>3. reply' \in Vals \cup {NoRec}
      BY <1>1, <1>2, <2>1, ReplyTyped
    <3>4. steady' \in [Users -> SUBSET Ids] /\ skewed' \in BOOLEAN
      BY <1>2, <2>1, HistoryTyped
    <3>5. QED
      BY <2>4, <3>1, <3>2, <3>3, <3>4 DEF Typed
  <2>6. QED
    BY <1>2, <2>3, <2>5 DEF FileInv
<1>5. QED
  BY <1>3, <1>4

(* There is always a file in the making in which each record has one place  *)
(* and each overflow block one owner, whatever dh_write, dh_delete,         *)
(* dh_split and dh_merge have still in their buffers.                       *)
THEOREM FileHeld == Spec => []FileInv
<1>1. Init => FileInv
  BY FileInit
<1>2. FileInv /\ [Next]_vars => FileInv'
  BY FileStep
<1>3. QED
  BY <1>1, <1>2, PTL DEF Spec

LEMMA TypesOK == FileInv => TypeOK
<1> SUFFICES ASSUME FileInv
             PROVE  TypeOK
  OBVIOUS
<1>1. PICK h : Heap(h)
  BY DEF FileInv
<1>2. HashInv /\ Typed
  BY DEF FileInv
<1>3. fileEnd \in 0 .. MaxOverflow /\ freeChain \in Over \cup {None}
  <2>1. PICK ptr, own : ptr = h.ptr /\ own = h.own
    OBVIOUS
  <2>2. Chained(ptr, own, fileEnd) /\ ptr[FreePos] = freeChain
    BY <1>1, <2>1 DEF Heap
  <2>3. fileEnd \in 0 .. MaxOverflow /\ ptr \in [Pos -> Over \cup {None}]
    BY <2>2, PtrIs
  <2>4. QED
    BY <2>2, <2>3, PosIn
<1>4. modulus \in MinModulus .. MaxModulus /\ modulus <= modValue /\ modValue < 2 * modulus
  BY <1>2, FileConstants DEF HashInv, HeaderInv, HeaderOK, Groups
<1>5. inhibit \in Nat
  BY <1>2, HoldingFinite
<1>6. glock \subseteq [owner : Users, group : Groups, write : BOOLEAN]
  BY <1>2 DEF HashInv, LocksInv
<1>7. QED
  BY <1>2, <1>3, <1>4, <1>5, <1>6 DEF Typed, TypeOK

-----------------------------------------------------------------------------
(* The chains there are in groups that nobody is writing.                   *)
(* HeadAt(hd, x): hd is what position x has at the head of a chain.         *)
Read1(g) == g \in Groups /\ g <= modulus /\ ~WriteLocked(g)

GroupHeadAt(hd, x) ==
  \E g \in Groups : Read1(g) /\ hd = <<g, 0, block[g].next>> /\ x = NextPos(g)

RecHeadAt(hd, x) ==
  \E g \in Groups : \E k \in 1 .. Len(GroupRecs(block, g)) :
    /\ Read1(g) /\ hd = <<g, k, GroupRecs(block, g)[k].big>> /\ x = RecPos(GroupRecs(block, g)[k].id)

HeadAt(hd, x) == (hd = <<None, 0, freeChain>> /\ x = FreePos) \/ GroupHeadAt(hd, x) \/ RecHeadAt(hd, x)

(* What the head of a chain says of its blocks.                             *)
HeadChain(h, hd, x, c, s) ==
  /\ x \in Pos /\ h.ptr[x] = hd[3] /\ s = ChainFrom(block, hd[3])
  /\ Followed(h.ptr, h.own, fileEnd, c, s)
  /\ s # <<>> => h.ptr[x] # None
  /\ h.ptr[x] # None =>
       /\ h.own[Overflow(h.ptr[x])] = c
       /\ \A o \in Over : o <= fileEnd /\ h.own[Overflow(o)] = c => o \in Elems(s)
       /\ x = FreePos => c = 0
       /\ \A g \in Groups : x = NextPos(g) => c = g
       /\ \A i \in Ids : x = RecPos(i) => c = Overflow(h.ptr[x])

LEMMA HeadIsChain ==
  ASSUME NEW h, Heap(h), block \in [Place -> Block], NEW x \in Pos, NEW c, NEW hd, hd[3] = h.ptr[x],
         OnlyHead(c, x, h), h.ptr[x] # None => h.own[Overflow(h.ptr[x])] = c,
         \A p \in Place : h.own[p] = c => block[p] = h.view[p],
         \/ x = FreePos /\ c = 0
         \/ \E g \in Groups : x = NextPos(g) /\ c = g
         \/ \E i \in Ids : x = RecPos(i) /\ c = Overflow(h.ptr[x])
  PROVE  HeadChain(h, hd, x, c, ChainFrom(block, h.ptr[x]))
<1>1. PICK s : s = ChainFrom(block, h.ptr[x])
  OBVIOUS
<1>2. /\ Followed(h.ptr, h.own, fileEnd, c, s)
      /\ \A o \in Over : o <= fileEnd /\ h.own[Overflow(o)] = c => o \in Elems(s)
      /\ (h.ptr[x] = None => s = <<>>)
  BY <1>1, WholeChain
<1>3. /\ x = FreePos => c = 0
      /\ \A g \in Groups : x = NextPos(g) => c = g
      /\ \A i \in Ids : x = RecPos(i) => c = Overflow(h.ptr[x])
  BY PosDiffer
<1>4. QED
  BY <1>1, <1>2, <1>3 DEF HeadChain

LEMMA FreeChainIs ==
  ASSUME NEW h, Heap(h), block \in [Place -> Block], NEW hd, hd = <<None, 0, freeChain>>
  PROVE  \E c : HeadChain(h, hd, FreePos, c, ChainFrom(block, hd[3]))
<1>1. FreePos \in Pos /\ h.ptr[FreePos] = freeChain /\ hd[3] = h.ptr[FreePos]
  BY PosIn DEF Heap
<1>2. h.ptr[FreePos] # None => h.own[Overflow(h.ptr[FreePos])] = 0
  <2>1. Chained(h.ptr, h.own, fileEnd)
    BY DEF Heap
  <2>2. QED
    BY <2>1, OwnIs
<1>3. \A p \in Place : h.own[p] = 0 => block[p] = h.view[p]
  BY OnDiskFree
<1>4. OnlyHead(0, FreePos, h)
  BY FreeHead
<1>5. HeadChain(h, hd, FreePos, 0, ChainFrom(block, h.ptr[FreePos]))
  BY <1>1, <1>2, <1>3, <1>4, HeadIsChain
<1>6. QED
  BY <1>1, <1>5

LEMMA GroupChainIs ==
  ASSUME NEW h, Heap(h), block \in [Place -> Block], NEW hd, NEW x, GroupHeadAt(hd, x)
  PROVE  \E c : HeadChain(h, hd, x, c, ChainFrom(block, hd[3]))
<1>1. PICK g \in Groups : ~WriteLocked(g) /\ hd = <<g, 0, block[g].next>> /\ x = NextPos(g)
  BY DEF GroupHeadAt, Read1
<1>2. g \in Place /\ Primary(g) = g /\ x \in Pos
  BY <1>1, Places, PosIn
<1>3. \A p \in Place : h.own[p] = g => block[p] = h.view[p]
  BY <1>1, OnDiskGroup
<1>4. Chained(h.ptr, h.own, fileEnd)
  BY DEF Heap
<1>5. h.own[g] = g
  BY <1>2, <1>4, PtrIs
<1>6. h.ptr[x] = block[g].next
  BY <1>1, <1>2, <1>3, <1>5 DEF Heap, PlaceOK
<1>7. h.ptr[x] # None => h.own[Overflow(h.ptr[x])] = g
  BY <1>1, <1>2, <1>4, <1>5, OwnIs
<1>8. OnlyHead(g, x, h)
  BY <1>1, <1>2, GroupHead
<1>9. hd[3] = h.ptr[x]
  BY <1>1, <1>6
<1>10. HeadChain(h, hd, x, g, ChainFrom(block, h.ptr[x]))
  BY <1>1, <1>2, <1>3, <1>7, <1>8, <1>9, HeadIsChain
<1>11. QED
  BY <1>9, <1>10

(* The record k of a group.                                                 *)
LEMMA RecOfGroup ==
  ASSUME HashInv, NEW h, Heap(h), block \in [Place -> Block], NEW g \in Groups, ~WriteLocked(g),
         NEW k \in 1 .. Len(GroupRecs(block, g)), NEW r, r = GroupRecs(block, g)[k]
  PROVE  /\ r \in Rec /\ h.kept[r.id] = {r} /\ r.id \in Ids /\ h.own[h.at[r.id]] = g /\ h.at[r.id] \in Place
         /\ h.ptr[RecPos(r.id)] = r.big
<1>1. PICK recs : recs = GroupRecs(block, g)
  OBVIOUS
<1>2. recs \in Seq(Rec) /\ \A q \in RecsIn(recs) : h.kept[q.id] = {q} /\ h.own[h.at[q.id]] = g /\ h.at[q.id] \in Place
  BY <1>1, GroupRead
<1>3. r \in RecsIn(recs) /\ r \in Rec
  BY <1>1, <1>2, SomeRecs
<1>4. r.id \in Ids
  BY <1>3 DEF Rec
<1>5. h.ptr[RecPos(r.id)] = OldBig(h.kept[r.id])
  BY <1>4 DEF Heap, IdOK
<1>6. OldBig({r}) = r.big
  BY DEF OldBig
<1>7. QED
  BY <1>2, <1>3, <1>4, <1>5, <1>6

LEMMA BigChainIs ==
  ASSUME HashInv, NEW h, Heap(h), block \in [Place -> Block], NEW hd, NEW x, RecHeadAt(hd, x)
  PROVE  \E c : HeadChain(h, hd, x, c, ChainFrom(block, hd[3]))
<1>1. PICK g \in Groups : \E k \in 1 .. Len(GroupRecs(block, g)) :
        /\ ~WriteLocked(g) /\ hd = <<g, k, GroupRecs(block, g)[k].big>> /\ x = RecPos(GroupRecs(block, g)[k].id)
  BY DEF RecHeadAt, Read1
<1>2. PICK k \in 1 .. Len(GroupRecs(block, g)) :
        /\ ~WriteLocked(g) /\ hd = <<g, k, GroupRecs(block, g)[k].big>> /\ x = RecPos(GroupRecs(block, g)[k].id)
  BY <1>1
<1>3. PICK r : r = GroupRecs(block, g)[k]
  OBVIOUS
<1>4. r \in Rec /\ r.id \in Ids /\ h.ptr[RecPos(r.id)] = r.big
  BY <1>2, <1>3, RecOfGroup
<1>5. x = RecPos(r.id) /\ x \in Pos /\ h.ptr[x] = r.big /\ hd[3] = h.ptr[x]
  BY <1>2, <1>3, <1>4, PosIn
<1>6. Chained(h.ptr, h.own, fileEnd)
  BY DEF Heap
<1>7. CASE h.ptr[x] # None
  <2>1. PICK c : c = Overflow(h.ptr[x])
    OBVIOUS
  <2>2. h.own[Overflow(h.ptr[x])] = c
    BY <1>4, <1>5, <1>6, <1>7, <2>1, OwnIs
  <2>3. \A v \in Users : x # SrcPos(v)
    BY <1>5, PosDiffer
  <2>4. \A p \in Place : h.own[p] = c => block[p] = h.view[p]
    BY <1>5, <1>7, <2>1, <2>3, OnDiskBig
  <2>5. OnlyHead(c, x, h)
    BY <1>5, <1>7, <2>1, <2>2, OwnHead
  <2>6. HeadChain(h, hd, x, c, ChainFrom(block, h.ptr[x]))
    BY <1>4, <1>5, <2>1, <2>2, <2>4, <2>5, HeadIsChain
  <2>7. QED
    BY <1>5, <2>6
<1>8. CASE h.ptr[x] = None
  <2>1. \A p \in Place : h.own[p] = 0 => block[p].next = h.ptr[NextPos(p)]
    <3>1. ASSUME NEW p \in Place, h.own[p] = 0
          PROVE  block[p].next = h.ptr[NextPos(p)]
      <4>1. block[p] = h.view[p]
        BY <3>1, OnDiskFree
      <4>2. h.ptr[NextPos(p)] = h.view[p].next
        BY DEF Heap, PlaceOK
      <4>3. QED
        BY <4>1, <4>2
    <3>2. QED
      BY <3>1
  <2>2. PICK n : n = None
    OBVIOUS
  <2>3. n \in Over \cup {None} /\ (n # None => n <= fileEnd /\ h.own[Overflow(n)] = 0)
    BY <2>2
  <2>4. Followed(h.ptr, h.own, fileEnd, 0, ChainFrom(block, n)) /\ ChainFrom(block, n) = <<>>
    BY <1>6, <2>1, <2>2, <2>3, ChainIs
  <2>5. HeadChain(h, hd, x, 0, ChainFrom(block, n))
    BY <1>5, <1>8, <2>2, <2>4 DEF HeadChain
  <2>6. QED
    BY <1>5, <1>8, <2>2, <2>5
<1>9. QED
  BY <1>7, <1>8

LEMMA HeadElem ==
  ASSUME NEW G, NEW hd
  PROVE  hd \in Heads(G) <=>
           \/ hd = <<None, 0, freeChain>>
           \/ \E g \in G : hd = <<g, 0, block[Primary(g)].next>>
           \/ \E g \in G : \E k \in 1 .. Len(GroupRecs(block, g)) : hd = <<g, k, GroupRecs(block, g)[k].big>>
<1> DEFINE H(g) == {<<g, 0, block[Primary(g)].next>>} \cup
                     {<<g, k, GroupRecs(block, g)[k].big>> : k \in 1 .. Len(GroupRecs(block, g))}
<1>1. Heads(G) = {<<None, 0, freeChain>>} \cup UNION {H(g) : g \in G}
  BY DEF Heads
<1>2. \A g : hd \in H(g) <=> \/ hd = <<g, 0, block[Primary(g)].next>>
                             \/ \E k \in 1 .. Len(GroupRecs(block, g)) : hd = <<g, k, GroupRecs(block, g)[k].big>>
  OBVIOUS
<1> HIDE DEF H
<1>3. hd \in UNION {H(g) : g \in G} <=> \E g \in G : hd \in H(g)
  OBVIOUS
<1>4. QED
  BY <1>1, <1>2, <1>3

LEMMA HeadsAt ==
  ASSUME NEW G, \A g \in G : Read1(g), NEW hd \in Heads(G)
  PROVE  \E x : HeadAt(hd, x)
<1>1. CASE hd = <<None, 0, freeChain>>
  BY <1>1 DEF HeadAt
<1>2. CASE \E g \in G : hd = <<g, 0, block[Primary(g)].next>>
  <2>1. PICK g \in G : hd = <<g, 0, block[Primary(g)].next>>
    BY <1>2
  <2>2. g \in Groups /\ Read1(g) /\ Primary(g) = g
    BY DEF Read1, Primary
  <2>3. PICK x : x = NextPos(g)
    OBVIOUS
  <2>4. GroupHeadAt(hd, x)
    BY <2>1, <2>2, <2>3 DEF GroupHeadAt
  <2>5. QED
    BY <2>4 DEF HeadAt
<1>3. CASE \E g \in G : \E k \in 1 .. Len(GroupRecs(block, g)) : hd = <<g, k, GroupRecs(block, g)[k].big>>
  <2>1. PICK g \in G : \E k \in 1 .. Len(GroupRecs(block, g)) : hd = <<g, k, GroupRecs(block, g)[k].big>>
    BY <1>3
  <2>2. PICK k \in 1 .. Len(GroupRecs(block, g)) : hd = <<g, k, GroupRecs(block, g)[k].big>>
    BY <2>1
  <2>3. PICK x : x = RecPos(GroupRecs(block, g)[k].id)
    OBVIOUS
  <2>4. g \in Groups /\ Read1(g)
    BY DEF Read1
  <2>5. RecHeadAt(hd, x)
    BY <2>2, <2>3, <2>4 DEF RecHeadAt
  <2>6. QED
    BY <2>5 DEF HeadAt
<1>4. QED
  BY <1>1, <1>2, <1>3, HeadElem

LEMMA HeadHasChain ==
  ASSUME HashInv, NEW h, Heap(h), block \in [Place -> Block], NEW hd, NEW x, HeadAt(hd, x)
  PROVE  \E c : HeadChain(h, hd, x, c, ChainFrom(block, hd[3]))
BY FreeChainIs, GroupChainIs, BigChainIs DEF HeadAt

(* A position has one head.                                                 *)
LEMMA HeadsOne ==
  ASSUME HashInv, NEW h, Heap(h), block \in [Place -> Block], NEW a, NEW b, NEW x, HeadAt(a, x), HeadAt(b, x)
  PROVE  a = b
<1>1. CASE x = FreePos
  <2>1. ~GroupHeadAt(a, x) /\ ~RecHeadAt(a, x) /\ ~GroupHeadAt(b, x) /\ ~RecHeadAt(b, x)
    BY <1>1, PosDiffer DEF GroupHeadAt, RecHeadAt
  <2>2. QED
    BY <2>1 DEF HeadAt
<1>2. CASE GroupHeadAt(a, x)
  <2>1. PICK g \in Groups : a = <<g, 0, block[g].next>> /\ x = NextPos(g)
    BY <1>2 DEF GroupHeadAt
  <2>2. x # FreePos /\ ~RecHeadAt(b, x)
    BY <2>1, PosDiffer DEF RecHeadAt
  <2>3. GroupHeadAt(b, x)
    BY <2>2 DEF HeadAt
  <2>4. PICK m \in Groups : b = <<m, 0, block[m].next>> /\ x = NextPos(m)
    BY <2>3 DEF GroupHeadAt
  <2>5. g = m
    BY <2>1, <2>4, PosDiffer
  <2>6. QED
    BY <2>1, <2>4, <2>5
<1>3. CASE RecHeadAt(a, x)
  <2>1. PICK g \in Groups : \E k \in 1 .. Len(GroupRecs(block, g)) :
          ~WriteLocked(g) /\ a = <<g, k, GroupRecs(block, g)[k].big>> /\ x = RecPos(GroupRecs(block, g)[k].id)
    BY <1>3 DEF RecHeadAt, Read1
  <2>2. PICK k \in 1 .. Len(GroupRecs(block, g)) :
          ~WriteLocked(g) /\ a = <<g, k, GroupRecs(block, g)[k].big>> /\ x = RecPos(GroupRecs(block, g)[k].id)
    BY <2>1
  <2>3. x # FreePos /\ ~GroupHeadAt(b, x)
    BY <2>2, PosDiffer DEF GroupHeadAt
  <2>4. RecHeadAt(b, x)
    BY <2>3 DEF HeadAt
  <2>5. PICK m \in Groups : \E j \in 1 .. Len(GroupRecs(block, m)) :
          ~WriteLocked(m) /\ b = <<m, j, GroupRecs(block, m)[j].big>> /\ x = RecPos(GroupRecs(block, m)[j].id)
    BY <2>4 DEF RecHeadAt, Read1
  <2>6. PICK j \in 1 .. Len(GroupRecs(block, m)) :
          ~WriteLocked(m) /\ b = <<m, j, GroupRecs(block, m)[j].big>> /\ x = RecPos(GroupRecs(block, m)[j].id)
    BY <2>5
  <2>7. PICK r, q : r = GroupRecs(block, g)[k] /\ q = GroupRecs(block, m)[j]
    OBVIOUS
  <2>8. h.own[h.at[r.id]] = g
    BY <2>2, <2>7, RecOfGroup
  <2>9. h.own[h.at[q.id]] = m
    BY <2>6, <2>7, RecOfGroup
  <2>10. r.id = q.id
    BY <2>2, <2>6, <2>7, PosDiffer
  <2>11. g = m
    BY <2>8, <2>9, <2>10
  <2>12. k = j
    <3>1. DistinctIds(GroupRecs(block, g))
      BY <2>2, GroupRead
    <3>2. QED
      BY <2>7, <2>10, <2>11, <3>1 DEF DistinctIds
  <2>13. QED
    BY <2>2, <2>6, <2>11, <2>12
<1>4. QED
  BY <1>1, <1>2, <1>3 DEF HeadAt

(* Two chains have no block in common.                                      *)
LEMMA ChainsApart ==
  ASSUME HashInv, NEW h, Heap(h), NEW a, NEW x, NEW c, NEW s, HeadAt(a, x), HeadChain(h, a, x, c, s),
         NEW b, NEW y, NEW d, NEW t, HeadAt(b, y), HeadChain(h, b, y, d, t), x # y,
         NEW o \in Elems(s), o \in Elems(t)
  PROVE  FALSE
<1>1. s # <<>> /\ t # <<>>
  BY NoElems
<1>2. h.ptr[x] # None /\ h.ptr[y] # None /\ x \in Pos /\ y \in Pos
  BY <1>1 DEF HeadChain
<1>3. h.own[Overflow(o)] = c /\ h.own[Overflow(o)] = d
  BY DEF HeadChain, Followed, Elems
<1>4. /\ (x = FreePos => c = 0) /\ (\A g \in Groups : x = NextPos(g) => c = g)
      /\ (\A i \in Ids : x = RecPos(i) => c = Overflow(h.ptr[x]))
      /\ (y = FreePos => d = 0) /\ (\A g \in Groups : y = NextPos(g) => d = g)
      /\ (\A i \in Ids : y = RecPos(i) => d = Overflow(h.ptr[y]))
  BY <1>2 DEF HeadChain
<1>5. h.ptr[x] \in Over /\ h.ptr[y] \in Over /\ h.ptr[x] # h.ptr[y]
  <2>1. Chained(h.ptr, h.own, fileEnd)
    BY DEF Heap
  <2>2. QED
    BY <1>2, <2>1, PtrIs
<1>6. Overflow(h.ptr[x]) # Overflow(h.ptr[y]) /\ Overflow(h.ptr[x]) # 0 /\ Overflow(h.ptr[y]) # 0
      /\ Overflow(h.ptr[x]) \notin Groups /\ Overflow(h.ptr[y]) \notin Groups /\ 0 \notin Groups
  BY <1>5, Places, Owners
<1>7. /\ x = FreePos \/ (\E g \in Groups : x = NextPos(g)) \/ \E i \in Ids : x = RecPos(i)
      /\ y = FreePos \/ (\E g \in Groups : y = NextPos(g)) \/ \E i \in Ids : y = RecPos(i)
  <2>1. \A hd, z : RecHeadAt(hd, z) /\ z \in Pos => \E i \in Ids : z = RecPos(i)
    <3>1. ASSUME NEW hd, NEW z, RecHeadAt(hd, z), z \in Pos
          PROVE  \E i \in Ids : z = RecPos(i)
      <4>1. PICK i : z = RecPos(i)
        BY <3>1 DEF RecHeadAt
      <4>2. \E j \in Ids : z = RecPos(j)
        BY <3>1, <4>1, PosIs, PosDiffer
      <4>3. QED
        BY <4>2
    <3>2. QED
      BY <3>1
  <2>2. \A hd, z : GroupHeadAt(hd, z) => \E g \in Groups : z = NextPos(g)
    BY DEF GroupHeadAt
  <2>3. QED
    BY <1>2, <2>1, <2>2 DEF HeadAt
<1>8. QED
  BY <1>3, <1>4, <1>6, <1>7

LEMMA ChainsAreDisjoint == FileInv => ChainsDisjoint
<1> SUFFICES ASSUME FileInv
             PROVE  ChainsDisjoint
  OBVIOUS
<1>1. PICK h : Heap(h)
  BY DEF FileInv
<1>2. HashInv /\ block \in [Place -> Block]
  BY DEF FileInv, Typed
<1>3. PICK G : G = {g \in 1 .. modulus : ~Locked(g)}
  OBVIOUS
<1>4. ASSUME NEW g \in G
      PROVE  Read1(g)
  <2>1. g \in 1 .. modulus /\ ~Locked(g)
    BY <1>3
  <2>2. g \in Groups /\ g <= modulus
    BY <1>2, <2>1, FileConstants DEF HashInv, HeaderInv, HeaderOK, Groups
  <2>3. ~WriteLocked(g)
    BY <2>1 DEF Locked, WriteLocked, MyLock
  <2>4. QED
    BY <2>2, <2>3 DEF Read1
<1>5. ASSUME NEW a \in Chains(G)
      PROVE  \E x, c : HeadAt(a[1], x) /\ HeadChain(h, a[1], x, c, a[2])
  <2>1. PICK hd \in Heads(G) : a = <<hd, ChainFrom(block, hd[3])>>
    BY DEF Chains
  <2>2. a[1] = hd /\ a[2] = ChainFrom(block, hd[3])
    BY <2>1
  <2>3. PICK x : HeadAt(hd, x)
    BY <1>4, HeadsAt
  <2>4. PICK c : HeadChain(h, hd, x, c, ChainFrom(block, hd[3]))
    BY <1>1, <1>2, <2>3, HeadHasChain
  <2>5. QED
    BY <2>2, <2>3, <2>4
<1>6. \A s \in Seq(Over) : Range(s) = Elems(s)
  BY DEF Range, Elems
<1>7. ASSUME NEW a \in Chains(G), NEW b \in Chains(G)
      PROVE  /\ IsInjective(a[2]) /\ Range(a[2]) \subseteq 1 .. fileEnd
             /\ a[1] # b[1] => Range(a[2]) \cap Range(b[2]) = {}
  <2>1. PICK x, c : HeadAt(a[1], x) /\ HeadChain(h, a[1], x, c, a[2])
    BY <1>5
  <2>2. PICK y, d : HeadAt(b[1], y) /\ HeadChain(h, b[1], y, d, b[2])
    BY <1>5
  <2>3. Followed(h.ptr, h.own, fileEnd, c, a[2]) /\ b[2] \in Seq(Over)
    BY <2>1, <2>2 DEF HeadChain, Followed
  <2>4. IsInjective(a[2]) /\ a[2] \in Seq(Over)
    BY <2>3 DEF Followed
  <2>5. Range(a[2]) \subseteq 1 .. fileEnd
    <3>1. \A j \in 1 .. Len(a[2]) : a[2][j] \in Over /\ a[2][j] <= fileEnd
      BY <2>3 DEF Followed
    <3>2. fileEnd \in Int
      BY <1>1, PtrIs DEF Heap
    <3>3. \A o \in Over : o <= fileEnd => o \in 1 .. fileEnd
      BY <3>2, FileConstants DEF Over
    <3>4. QED
      BY <1>6, <2>4, <3>1, <3>3 DEF Elems
  <2>6. ASSUME a[1] # b[1], NEW o, o \in Range(a[2]), o \in Range(b[2])
        PROVE  FALSE
    <3>1. o \in Elems(a[2]) /\ o \in Elems(b[2])
      BY <1>6, <2>3, <2>4, <2>6
    <3>2. x # y
      BY <1>1, <1>2, <2>1, <2>2, <2>6, HeadsOne
    <3>3. QED
      BY <1>1, <1>2, <2>1, <2>2, <3>1, <3>2, ChainsApart
  <2>7. QED
    BY <2>4, <2>5, <2>6
<1>8. QED
  BY <1>3, <1>7 DEF ChainsDisjoint

(* No block is lost.                                                        *)
LEMMA QuietHands ==
  ASSUME HashInv, Quiet
  PROVE  /\ \A u \in Users : /\ SrcOf(proc[u]) = None /\ RestOf(proc[u]) = None /\ BigOf(proc[u]) = None
                             /\ TodoOf(proc[u]) = <<>>
         /\ \A g : ~WriteLocked(g)
<1>1. \A u \in Users : proc[u].at = "idle"
  BY DEF Quiet
<1>2. \A u \in Users : /\ SrcOf(proc[u]) = None /\ RestOf(proc[u]) = None /\ BigOf(proc[u]) = None
                       /\ TodoOf(proc[u]) = <<>>
  BY <1>1 DEF SrcOf, RestOf, BigOf, TodoOf
<1>3. ASSUME NEW u \in Users, NEW l \in glock, l.owner = u
      PROVE  FALSE
  BY <1>1, <1>3 DEF HashInv, SessionOK
<1>4. \A u \in Users : \A g : MyLock(u, g, TRUE) \notin glock
  BY <1>3 DEF MyLock
<1>5. QED
  BY <1>2, <1>4 DEF WriteLocked

(* The position of a head, and what it is the head of.                      *)
LEMMA QuietHead ==
  ASSUME HashInv, NEW h, Heap(h), block \in [Place -> Block], Quiet, NEW x \in Pos, h.ptr[x] # None,
         \A p \in Place : p \notin Groups => x # NextPos(p)
  PROVE  \E hd \in Heads(1 .. modulus) : HeadAt(hd, x)
<1>1. /\ \A u \in Users : /\ SrcOf(proc[u]) = None /\ RestOf(proc[u]) = None /\ BigOf(proc[u]) = None
                          /\ TodoOf(proc[u]) = <<>>
      /\ \A g : ~WriteLocked(g)
  BY QuietHands
<1>2. modulus \in Nat /\ 1 .. modulus \subseteq Groups
  BY FileConstants DEF HashInv, HeaderInv, HeaderOK, Groups
<1>3. CASE x = FreePos
  <2>1. PICK hd : hd = <<None, 0, freeChain>>
    OBVIOUS
  <2>2. hd \in Heads(1 .. modulus) /\ HeadAt(hd, x)
    BY <1>3, <2>1, HeadElem DEF HeadAt
  <2>3. QED
    BY <2>2
<1>4. ASSUME NEW g \in Groups, x = NextPos(g)
      PROVE  \E hd \in Heads(1 .. modulus) : HeadAt(hd, x)
  <2>1. g \in Place /\ Primary(g) = g
    BY Places
  <2>2. h.view[g].next # None
    BY <1>4, <2>1 DEF Heap, PlaceOK
  <2>3. ~AbsentGroup(g)
    BY <2>1, <2>2 DEF Heap, PlaceOK
  <2>4. g <= modulus /\ g \in 1 .. modulus
    BY <1>2, <2>3 DEF AbsentGroup, Groups
  <2>5. Read1(g)
    BY <1>1, <2>4 DEF Read1
  <2>6. PICK hd : hd = <<g, 0, block[g].next>>
    OBVIOUS
  <2>7. hd \in Heads(1 .. modulus)
    BY <2>1, <2>4, <2>6, HeadElem
  <2>8. HeadAt(hd, x)
    BY <1>4, <2>5, <2>6 DEF HeadAt, GroupHeadAt
  <2>9. QED
    BY <2>7, <2>8
<1>5. ASSUME NEW i \in Ids, x = RecPos(i)
      PROVE  \E hd \in Heads(1 .. modulus) : HeadAt(hd, x)
  <2>1. h.kept[i] # {}
    BY <1>5 DEF Heap, IdOK, OldBig
  <2>2. ~(\E u \in Users : h.kept[i] \subseteq RecsIn(TodoOf(proc[u])))
    BY <1>1, <2>1, NoRecs
  <2>3. PICK g : g = Home(i)
    OBVIOUS
  <2>4. g \in 1 .. modulus /\ g \in Groups /\ Read1(g)
    BY <1>1, <1>2, <2>3, HomePresent DEF Read1
  <2>5. PICK r \in Rec : r.id = i /\ h.kept[i] = {r}
    BY <2>1 DEF Heap, IdOK
  <2>6. h.at[i] \in Place /\ h.own[h.at[i]] = g /\ r \in RecsIn(h.view[h.at[i]].recs)
    BY <1>1, <2>1, <2>3, <2>4, <2>5, AtHome
  <2>7. block[h.at[i]] = h.view[h.at[i]] /\ h.at[i] \in PlacesOf(block, g)
    BY <1>1, <2>4, <2>6, OnDiskGroup, GroupHolds
  <2>8. r \in RecsIn(GroupRecs(block, g))
    BY <1>1, <2>4, <2>6, <2>7, GroupRead
  <2>9. PICK k \in 1 .. Len(GroupRecs(block, g)) : GroupRecs(block, g)[k] = r
    BY <2>8 DEF RecsIn
  <2>10. PICK hd : hd = <<g, k, GroupRecs(block, g)[k].big>>
    OBVIOUS
  <2>11. hd \in Heads(1 .. modulus)
    BY <2>4, <2>10, HeadElem
  <2>12. x = RecPos(GroupRecs(block, g)[k].id)
    BY <1>5, <2>5, <2>9
  <2>13. RecHeadAt(hd, x)
    BY <2>4, <2>10, <2>12 DEF RecHeadAt
  <2>14. QED
    BY <2>11, <2>13 DEF HeadAt
<1>6. ASSUME NEW u \in Users, x = SrcPos(u) \/ x = RestPos(u) \/ x = BigPos(u)
      PROVE  FALSE
  BY <1>1, <1>6 DEF Heap, HeldOK
<1>7. ASSUME NEW p \in Place, x = NextPos(p)
      PROVE  p \in Groups
  BY <1>7
<1>8. QED
  BY <1>3, <1>4, <1>5, <1>6, <1>7, PosIs

LEMMA NoneIsLost == FileInv => NoBlockLost
<1> SUFFICES ASSUME FileInv, Quiet, NEW o \in 1 .. fileEnd
             PROVE  \E c \in Chains(1 .. modulus) : o \in Range(c[2])
  BY DEF NoBlockLost
<1>1. PICK h : Heap(h)
  BY DEF FileInv
<1>2. HashInv /\ block \in [Place -> Block]
  BY DEF FileInv, Typed
<1>3. PICK ptr, own : ptr = h.ptr /\ own = h.own
  OBVIOUS
<1>4. Chained(ptr, own, fileEnd)
  BY <1>1, <1>3 DEF Heap
<1>5. o \in Over /\ o <= fileEnd /\ fileEnd \in Nat
  <2>1. fileEnd \in 0 .. MaxOverflow
    BY <1>4, PtrIs
  <2>2. QED
    BY <2>1, FileConstants DEF Over
<1>6. PICK c, S : c = own[Overflow(o)] /\ S = {m \in Over : m <= fileEnd /\ own[Overflow(m)] = c}
  OBVIOUS
<1>7. S \in SUBSET Over /\ S # {} /\ \A m \in S : m <= fileEnd
  BY <1>5, <1>6
<1>8. PICK m \in S : \E x \in Pos : ptr[x] = m /\ \A n \in S : x # NextPos(Overflow(n))
  BY <1>4, <1>7, FirstOf
<1>9. PICK x \in Pos : ptr[x] = m /\ \A n \in S : x # NextPos(Overflow(n))
  BY <1>8
<1>10. m \in Over /\ m # None /\ own[Overflow(m)] = c
  BY <1>6, Places
<1>11. ASSUME NEW p \in Place, p \notin Groups, x = NextPos(p)
       PROVE  FALSE
  <2>1. PICK n : n = OverflowNo(p)
    OBVIOUS
  <2>2. n \in Over /\ p = Overflow(n)
    BY <1>11, <2>1, Places
  <2>3. own[p] = c
    BY <1>4, <1>9, <1>10, <1>11, OwnIs
  <2>4. n <= fileEnd
    <3>1. CASE n > fileEnd
      <4>1. h.view[p] = Empty /\ h.ptr[NextPos(p)] = h.view[p].next
        BY <1>1, <1>11, <2>1, <3>1 DEF Heap, PlaceOK
      <4>2. ptr[x] = None
        BY <1>3, <1>11, <4>1, EmptyIs
      <4>3. QED
        BY <1>9, <1>10, <4>2
    <3>2. n \in Int
      BY <2>2, FileConstants DEF Over
    <3>3. QED
      BY <1>5, <3>1, <3>2
  <2>5. n \in S
    BY <1>6, <2>2, <2>3, <2>4
  <2>6. QED
    BY <1>9, <1>11, <2>2, <2>5
<1>12. PICK hd \in Heads(1 .. modulus) : HeadAt(hd, x)
  BY <1>1, <1>2, <1>3, <1>9, <1>10, <1>11, QuietHead
<1>13. PICK d : HeadChain(h, hd, x, d, ChainFrom(block, hd[3]))
  BY <1>1, <1>2, <1>12, HeadHasChain
<1>14. PICK s : s = ChainFrom(block, hd[3])
  OBVIOUS
<1>15. h.ptr[x] # None /\ h.own[Overflow(h.ptr[x])] = c
  BY <1>3, <1>9, <1>10
<1>16. /\ h.own[Overflow(h.ptr[x])] = d
       /\ \A n \in Over : n <= fileEnd /\ h.own[Overflow(n)] = d => n \in Elems(s)
       /\ s \in Seq(Over)
  BY <1>13, <1>14, <1>15 DEF HeadChain, Followed
<1>17. o \in Elems(s)
  BY <1>3, <1>5, <1>6, <1>15, <1>16
<1>18. o \in Range(s)
  BY <1>16, <1>17 DEF Range, Elems
<1>19. PICK p : p = <<hd, s>>
  OBVIOUS
<1>20. p \in Chains(1 .. modulus) /\ p[2] = s
  BY <1>14, <1>19 DEF Chains
<1>21. QED
  BY <1>18, <1>20

-----------------------------------------------------------------------------
(* A file of which all overflow blocks are accounted for is one whose every *)
(* block dh_get_overflow, dh_free_overflow, dh_free_big_rec, dh_split and   *)
(* dh_merge have put in one chain: none is in two chains of groups that     *)
(* nobody has locked for writing, whoever is writing, splitting or merging, *)
(* and none is in no chain when no session is at anything.                  *)
THEOREM BlocksAreAccounted == Spec => []BlocksAccounted
<1>1. FileInv => BlocksAccounted
  BY TypesOK, ChainsAreDisjoint, NoneIsLost DEF BlocksAccounted
<1>2. QED
  BY <1>1, FileHeld, PTL

LEMMA UnlockedRead ==
  ASSUME HashInv, NEW g \in 1 .. modulus, ~Locked(g)
  PROVE  g \in Groups /\ g <= modulus /\ ~WriteLocked(g)
<1>1. g \in Groups /\ g <= modulus
  BY FileConstants DEF HashInv, HeaderInv, HeaderOK, Groups
<1>2. ~WriteLocked(g)
  BY DEF Locked, WriteLocked, MyLock
<1>3. QED
  BY <1>1, <1>2

LEMMA RecAtHome ==
  ASSUME HashInv, NEW h, Heap(h), block \in [Place -> Block], NEW g \in Groups, ~WriteLocked(g),
         NEW k \in 1 .. Len(GroupRecs(block, g)), NEW r, r = GroupRecs(block, g)[k]
  PROVE  r.id \in Ids /\ Home(r.id) = g /\ h.kept[r.id] = {r}
<1>1. r.id \in Ids /\ h.kept[r.id] = {r} /\ h.at[r.id] \in Place /\ h.own[h.at[r.id]] = g
  BY RecOfGroup
<1>2. PICK i \in Ids : i = r.id
  BY <1>1
<1>3. h.kept[i] # {} /\ h.at[i] \in Place /\ h.own[h.at[i]] = g
  BY <1>1, <1>2
<1>4. Home(i) = g
  BY <1>3, GroupIds
<1>5. QED
  BY <1>1, <1>2, <1>4

LEMMA GroupAtHome ==
  ASSUME HashInv, NEW h, Heap(h), block \in [Place -> Block], NEW g \in 1 .. modulus, ~Locked(g)
  PROVE  LET recs == GroupRecs(block, g)
         IN  \A k \in 1 .. Len(recs) :
               /\ Home(recs[k].id) = g
               /\ \A j \in 1 .. Len(recs) : recs[j].id = recs[k].id => j = k
<1>1. g \in Groups /\ ~WriteLocked(g)
  BY UnlockedRead
<1>2. DistinctIds(GroupRecs(block, g))
  BY <1>1, GroupRead
<1>3. ASSUME NEW k \in 1 .. Len(GroupRecs(block, g))
      PROVE  Home(GroupRecs(block, g)[k].id) = g
  <2>1. PICK r : r = GroupRecs(block, g)[k]
    OBVIOUS
  <2>2. Home(r.id) = g
    BY <1>1, <2>1, RecAtHome
  <2>3. QED
    BY <2>1, <2>2
<1>4. QED
  BY <1>2, <1>3 DEF DistinctIds

LEMMA AllAtHome == FileInv => RecordsAtHome
<1>1. ASSUME FileInv
      PROVE  RecordsAtHome
  <2>1. PICK h : Heap(h)
    BY <1>1 DEF FileInv
  <2>2. HashInv /\ block \in [Place -> Block]
    BY <1>1 DEF FileInv, Typed
  <2>3. QED
    BY <2>1, <2>2, GroupAtHome DEF RecordsAtHome
<1>2. QED
  BY <1>1

(* A record is in the group its id hashes to, and there once: in every      *)
(* group that nobody has locked for writing, whatever dh_write, dh_split    *)
(* and dh_merge have moved where, and however far each of them has got.     *)
THEOREM RecordsStayHome == Spec => []RecordsAtHome
BY AllAtHome, FileHeld, PTL

-----------------------------------------------------------------------------
(* The map: what a session begins to rewrite or read.                       *)
LEMMA Begins ==
  ASSUME HashInv, NEW u \in Users, NEW h, Heap(h), Steps(u)
  PROVE  /\ proc'[u].at = "read" => Read(u)
         /\ proc'[u].at = "rewrite" =>
              Write(u) \/ WriteAfterBig(u) \/ Delete(u) \/ Working(u) \/ SplitSource(u) \/ MergeStart(u)
         /\ proc'[u].at = "source" => SplitStart(u)
         /\ proc'[u].at = "select" => Select(u) \/ SelectGroup(u)
<1>1. \A x : Goes(u, x) => proc'[u] = x
  BY DEF Goes, HashInv
<1>2. Shape(proc[u])
  BY DEF HashInv, SessionOK
<1>3. CASE Write(u) \/ WriteAfterBig(u) \/ Delete(u) \/ SplitSource(u) \/ MergeStart(u)
  <2>1. \E groups, job, put, after : Rewrite(u, groups, job, put, after)
    BY <1>3 DEF Write, WriteAfterBig, LockToWrite, Delete, SplitSource, MergeStart
  <2>2. proc'[u].at = "rewrite"
    <3>1. PICK w, put, after, job : Goes(u, [at |-> "rewrite", was |-> w, put |-> put, then |-> after, job |-> job])
      BY <2>1 DEF Rewrite
    <3>2. QED
      BY <1>1, <3>1
  <2>3. QED
    BY <1>3, <2>2
<1>4. CASE Working(u)
  <2>1. PICK job : Works(u, job)
    BY <1>4, WorkingIs
  <2>2. proc'[u].at = "rewrite"
    BY <1>4, <2>1, WorkIs
  <2>3. QED
    BY <1>4, <2>2
<1>5. CASE SelectGroup(u)
  BY <1>5, SelectGroupStep
<1>6. CASE Read(u)
  <2>1. PICK i \in Ids : Goes(u, [at |-> "read", id |-> i, group |-> HashGroup(i)])
    BY <1>6 DEF Read
  <2>2. proc'[u].at = "read"
    BY <1>1, <2>1
  <2>3. QED
    BY <1>6, <2>2
<1>7. CASE FreeLocks(u)
  <2>1. proc'[u] = proc[u].then /\ proc[u].at = "rewrite"
    BY <1>1, <1>7 DEF FreeLocks
  <2>2. proc'[u].at \in {"tidy", "release"}
    BY <1>2, <2>1 DEF Shape
  <2>3. QED
    BY <2>2
<1>8. CASE FreeBig(u)
  <2>1. proc[u].at = "tidy" /\ proc'[u] = [proc[u] EXCEPT !.at = "account"]
    BY <1>1, <1>8 DEF FreeBig
  <2>2. PICK o, b, n : proc[u] = [at |-> "tidy", big |-> o, bytes |-> b, recs |-> n]
    BY <1>2, <2>1 DEF Shape, Tidying
  <2>3. proc'[u].at = "account"
    BY <2>1, <2>2
  <2>4. QED
    BY <2>3
<1>9. CASE Select(u)
  <2>1. PICK g, n, gap : Goes(u, [at |-> "select", group |-> g, picked |-> <<>>, upd |-> n, bytes |-> 0, gap |-> gap])
    BY <1>9 DEF Select
  <2>2. proc'[u].at = "select"
    BY <1>1, <2>1
  <2>3. QED
    BY <1>9, <2>2
<1>10. CASE WriteBig(u) \/ MoreBig(u)
  <2>1. PICK r, o, n : Goes(u, BigDone(r, o, n))
    BY <1>10 DEF WriteBig, MoreBig
  <2>2. proc'[u] = BigDone(r, o, n)
    BY <1>1, <2>1
  <2>3. proc'[u].at \in {"big", "write"}
    BY <2>2 DEF BigDone
  <2>4. QED
    BY <2>3
<1>11. CASE SplitStart(u)
  <2>1. PICK n, g : Goes(u, [at |-> "source", new |-> n, group |-> g])
    BY <1>11 DEF SplitStart
  <2>2. proc'[u].at = "source"
    BY <1>1, <2>1
  <2>3. QED
    BY <1>11, <2>2
<1>12. CASE ReadGroup(u) \/ Account(u) \/ Resize(u) \/ ResizeOff(u) \/ Release(u) \/ SelectEnd(u)
  <2>1. PICK to \in {"idle", "resize", "split", "merge"} : Goes(u, [at |-> to])
    BY <1>12 DEF ReadGroup, Account, Resize, ResizeOff, Release, SelectEnd
  <2>2. proc'[u].at = to
    BY <1>1, <2>1
  <2>3. QED
    BY <2>1, <2>2
<1>13. QED
  BY <1>3, <1>4, <1>5, <1>6, <1>7, <1>8, <1>9, <1>10, <1>11, <1>12 DEF Steps

(* A session that reads has no group locked for writing.                    *)
ReadsOnly(u) == proc[u].at = "read" => \A l \in glock : l.owner = u => ~l.write

LEMMA ReadsOnlyNext ==
  ASSUME HashInv, \A v \in Users : ReadsOnly(v), NEW u \in Users, NEW h, Heap(h), Steps(u), NEW v \in Users
  PROVE  ReadsOnly(v)'
<1>1. Orderly(u)
  BY StepOrderly
<1>2. CASE v # u
  <2>1. proc'[v] = proc[v]
    BY <1>1, <1>2, OrderlyIs
  <2>2. \A l : l.owner = v => (l \in glock' <=> l \in glock)
    BY <1>1, <1>2 DEF Orderly
  <2>3. QED
    BY <2>1, <2>2 DEF ReadsOnly
<1>3. CASE v = u /\ proc'[u].at = "read"
  <2>1. Read(u)
    BY <1>3, Begins
  <2>2. PICK i \in Ids : glock' = glock \cup {MyLock(u, HashGroup(i), FALSE)}
    BY <2>1 DEF Read
  <2>3. \A l \in glock : l.owner # u
    BY <2>1 DEF Read, HashInv, SessionOK
  <2>4. ~MyLock(u, HashGroup(i), FALSE).write
    BY DEF MyLock
  <2>5. QED
    BY <1>3, <2>2, <2>3, <2>4 DEF ReadsOnly
<1>4. QED
  BY <1>2, <1>3 DEF ReadsOnly

(* What a session promises is about one of the ids it has locked.           *)
PutsOne(p) ==
  p.at = "rewrite" =>
    \/ p.put = {}
    \/ \E w \in [id : Ids, val : Vals \cup {NoRec}] : p.put = {w} /\ w.id \in DOMAIN p.was

(* A session locks the group of an id to write or delete its record.        *)
LEMMA LockPuts ==
  ASSUME HashInv, NEW u \in Users, NEW i \in Ids, NEW x \in Vals \cup {NoRec},
         CanLock(HashGroup(i), TRUE), NEW job, NEW after,
         Rewrite(u, {HashGroup(i)}, job, {[id |-> i, val |-> x]}, after)
  PROVE  /\ proc'[u].at = "rewrite" /\ proc'[u].put = {[id |-> i, val |-> x]}
         /\ [id |-> i, val |-> x] \in [id : Ids, val : Vals \cup {NoRec}]
         /\ i \in DOMAIN proc'[u].was
<1>1. PICK w : w = [id |-> i, val |-> x]
  OBVIOUS
<1>2. PICK was : was = Snapshot({HashGroup(i)})
  OBVIOUS
<1>3. proc' = [proc EXCEPT ![u] = [at |-> "rewrite", was |-> was, put |-> {w}, then |-> after, job |-> job]]
  BY <1>1, <1>2 DEF Rewrite, Goes
<1>4. proc'[u] = [at |-> "rewrite", was |-> was, put |-> {w}, then |-> after, job |-> job]
  BY <1>3 DEF HashInv
<1>5. proc'[u].at = "rewrite" /\ proc'[u].was = was /\ proc'[u].put = {w}
  BY <1>4
<1>6. i \in DOMAIN was
  BY <1>2, HomeUnlocked DEF Snapshot
<1>7. w \in [id : Ids, val : Vals \cup {NoRec}]
  BY <1>1
<1>8. QED
  BY <1>1, <1>5, <1>6, <1>7

LEMMA WriteAsks ==
  ASSUME HashInv, NEW u \in Users, NEW h, Heap(h), Write(u) \/ WriteAfterBig(u) \/ Delete(u)
  PROVE  \E w \in [id : Ids, val : Vals \cup {NoRec}] :
           proc'[u].at = "rewrite" /\ proc'[u].put = {w} /\ w.id \in DOMAIN proc'[u].was
<1>1. \E i \in Ids, x \in Vals \cup {NoRec} :
        /\ CanLock(HashGroup(i), TRUE)
        /\ \E job, after : Rewrite(u, {HashGroup(i)}, job, {[id |-> i, val |-> x]}, after)
  <2>1. ASSUME NEW r, r.id \in Ids, r.val \in Vals, LockToWrite(u, r)
        PROVE  \E i \in Ids, x \in Vals \cup {NoRec} :
                 /\ CanLock(HashGroup(i), TRUE)
                 /\ \E job, after : Rewrite(u, {HashGroup(i)}, job, {[id |-> i, val |-> x]}, after)
    BY <2>1 DEF LockToWrite
  <2>2. CASE Write(u)
    <3>1. PICK i \in Ids, v \in Vals : LockToWrite(u, [id |-> i, val |-> v, big |-> None])
      BY <2>2 DEF Write
    <3>2. PICK r : r = [id |-> i, val |-> v, big |-> None]
      OBVIOUS
    <3>3. r.id \in Ids /\ r.val \in Vals /\ LockToWrite(u, r)
      BY <3>1, <3>2
    <3>4. QED
      BY <2>1, <3>3
  <2>3. CASE WriteAfterBig(u)
    <3>1. PICK r : r = proc[u].rec
      OBVIOUS
    <3>2. LockToWrite(u, r) /\ proc[u].at = "write"
      BY <2>3, <3>1 DEF WriteAfterBig
    <3>3. r \in Rec
      BY <3>1, <3>2 DEF Heap, HeldOK
    <3>4. r.id \in Ids /\ r.val \in Vals
      BY <3>3 DEF Rec
    <3>5. QED
      BY <2>1, <3>2, <3>4
  <2>4. CASE Delete(u)
    <3>1. PICK i \in Ids : /\ CanLock(HashGroup(i), TRUE)
                           /\ \E job, after : Rewrite(u, {HashGroup(i)}, job, {[id |-> i, val |-> NoRec]}, after)
      BY <2>4 DEF Delete
    <3>2. QED
      BY <3>1
  <2>5. QED
    BY <2>2, <2>3, <2>4
<1>2. PICK i \in Ids, x \in Vals \cup {NoRec} :
        /\ CanLock(HashGroup(i), TRUE)
        /\ \E job, after : Rewrite(u, {HashGroup(i)}, job, {[id |-> i, val |-> x]}, after)
  BY <1>1
<1>3. PICK job, after : Rewrite(u, {HashGroup(i)}, job, {[id |-> i, val |-> x]}, after)
  BY <1>2
<1>4. /\ proc'[u].at = "rewrite" /\ proc'[u].put = {[id |-> i, val |-> x]}
      /\ [id |-> i, val |-> x] \in [id : Ids, val : Vals \cup {NoRec}]
      /\ i \in DOMAIN proc'[u].was
  BY <1>2, <1>3, LockPuts
<1>5. [id |-> i, val |-> x].id = i
  OBVIOUS
<1>6. QED
  BY <1>4, <1>5

LEMMA MoveAsks ==
  ASSUME HashInv, NEW u \in Users, SplitSource(u) \/ MergeStart(u)
  PROVE  proc'[u].at = "rewrite" /\ proc'[u].put = {}
<1>1. PICK w, j, x : Goes(u, [at |-> "rewrite", was |-> w, put |-> {}, then |-> x, job |-> j])
  BY DEF SplitSource, MergeStart, Rewrite
<1>2. proc'[u] = [at |-> "rewrite", was |-> w, put |-> {}, then |-> x, job |-> j]
  BY <1>1 DEF Goes, HashInv
<1>3. QED
  BY <1>2

LEMMA PutsOneNext ==
  ASSUME HashInv, NEW h, Heap(h), \A v \in Users : PutsOne(proc[v]), NEW u \in Users, Steps(u), NEW v \in Users
  PROVE  PutsOne(proc'[v])
<1>1. CASE v # u
  BY <1>1, StepOrderly, OrderlyIs
<1>2. CASE v = u /\ proc'[u].at # "rewrite"
  BY <1>2 DEF PutsOne
<1>3. CASE v = u /\ proc'[u].at = "rewrite"
  <2>1. CASE Write(u) \/ WriteAfterBig(u) \/ Delete(u)
    BY <1>3, <2>1, WriteAsks DEF PutsOne
  <2>2. CASE SplitSource(u) \/ MergeStart(u)
    BY <1>3, <2>2, MoveAsks DEF PutsOne
  <2>3. CASE Working(u)
    <3>1. PICK job : Works(u, job)
      BY <2>3, WorkingIs
    <3>2. proc[u].at = "rewrite" /\ proc'[u].was = proc[u].was /\ proc'[u].put = proc[u].put
      BY <2>3, <3>1, WorkIs
    <3>3. QED
      BY <1>3, <3>2 DEF PutsOne
  <2>4. QED
    BY <1>3, <2>1, <2>2, <2>3, Begins
<1>4. QED
  BY <1>1, <1>2, <1>3

(* What the map holds: for an id whose group is being rewritten what it     *)
(* held when that began, for any other what the file keeps.                 *)
LEMMA HomeFree ==
  ASSUME HashInv, \A v \in Users : ReadsOnly(v), NEW i \in Ids, Rewriting(i) = {}
  PROVE  ~WriteLocked(Home(i))
<1>1. ASSUME NEW v \in Users, MyLock(v, Home(i), TRUE) \in glock
      PROVE  FALSE
  <2>1. proc[v].at # "rewrite"
    BY <1>1 DEF Rewriting, HashInv, HomeOK
  <2>2. MyLock(v, Home(i), TRUE).owner = v /\ MyLock(v, Home(i), TRUE).write
        /\ MyLock(v, Home(i), TRUE).group = Home(i)
    BY DEF MyLock
  <2>3. proc[v].at # "read"
    BY <1>1, <2>2 DEF ReadsOnly
  <2>4. CASE proc[v].at = "source"
    <3>1. Home(i) = modulus /\ proc[v].new = modulus
      BY <1>1, <2>2, <2>4 DEF HashInv, SessionOK
    <3>2. ~AbsentGroup(Home(i))
      BY HomePresent
    <3>3. QED
      BY <2>4, <3>1, <3>2 DEF AbsentGroup
  <2>5. CASE proc[v].at # "source"
    BY <1>1, <2>1, <2>2, <2>3, <2>5 DEF HashInv, SessionOK
  <2>6. QED
    BY <2>4, <2>5
<1>2. QED
  BY <1>1 DEF WriteLocked

LEMMA ContentFree ==
  ASSUME HashInv, NEW h, Heap(h), block \in [Place -> Block], \A v \in Users : ReadsOnly(v),
         NEW i \in Ids, Rewriting(i) = {}
  PROVE  content[i] = ValIn(h.kept[i])
BY HomeFree, ContentHome

LEMMA ContentHeld ==
  ASSUME HashInv, NEW i \in Ids, NEW u \in Rewriting(i)
  PROVE  content[i] = proc[u].was[i] /\ Rewriting(i) = {u}
<1>1. Rewriting(i) = {u}
  BY OneRewritesHeld DEF OneRewrites
<1>2. (CHOOSE w \in {u} : TRUE) = u
  OBVIOUS
<1>3. QED
  BY <1>1, <1>2, ContentOf

MapInv ==
  FileInv /\ (\A u \in Users : ReadsOnly(u)) /\ \A u \in Users : PutsOne(proc[u])

Shown(h) ==
  \A i \in Ids : content[i] = IF Rewriting(i) = {} THEN ValIn(h.kept[i])
                              ELSE proc[CHOOSE u \in Rewriting(i) : TRUE].was[i]

Shows == \A h : Heap(h) => Shown(h)

LEMMA MapShows == MapInv => Shows
<1> SUFFICES ASSUME MapInv, NEW h, Heap(h), NEW i \in Ids
             PROVE  content[i] = IF Rewriting(i) = {} THEN ValIn(h.kept[i])
                                 ELSE proc[CHOOSE u \in Rewriting(i) : TRUE].was[i]
  BY DEF Shows, Shown
<1>1. HashInv /\ block \in [Place -> Block] /\ \A v \in Users : ReadsOnly(v)
  BY DEF MapInv, FileInv, Typed
<1>2. Rewriting(i) = {} => content[i] = ValIn(h.kept[i])
  BY <1>1, ContentFree
<1>3. QED
  BY <1>2, ContentOf

LEMMA ShownNext ==
  ASSUME Shows', NEW h, Heap(h)', NEW i \in Ids
  PROVE  content'[i] = IF Rewriting(i)' = {} THEN ValIn(h.kept[i])
                       ELSE proc'[CHOOSE u \in Rewriting(i)' : TRUE].was[i]
BY DEF Shows, Shown

(* A step that keeps all records of the file, and what is being rewritten,  *)
(* keeps the map.                                                           *)
LEMMA KeptMap ==
  ASSUME MapInv, MapInv', NEW h, Heap(h), NEW k, Heap(k)', k.kept = h.kept,
         \A v \in Users : /\ proc'[v].at = "rewrite" <=> proc[v].at = "rewrite"
                          /\ proc[v].at = "rewrite" => proc'[v].was = proc[v].was
  PROVE  content' = content
<1>0. Shows /\ Shows'
  BY MapShows, PTL
<1>1. ASSUME NEW i \in Ids
      PROVE  content'[i] = content[i]
  <2>1. Rewriting(i)' = Rewriting(i)
    BY DEF Rewriting
  <2>2. content[i] = IF Rewriting(i) = {} THEN ValIn(h.kept[i])
                     ELSE proc[CHOOSE u \in Rewriting(i) : TRUE].was[i]
    BY <1>0 DEF Shows, Shown
  <2>3. content'[i] = IF Rewriting(i)' = {} THEN ValIn(k.kept[i])
                      ELSE proc'[CHOOSE u \in Rewriting(i)' : TRUE].was[i]
    BY <1>0, ShownNext
  <2>4. Rewriting(i) # {} => (CHOOSE u \in Rewriting(i) : TRUE) \in Rewriting(i)
    OBVIOUS
  <2>5. \A u \in Rewriting(i) : proc'[u].was = proc[u].was
    BY DEF Rewriting
  <2>6. CASE Rewriting(i) = {}
    BY <2>1, <2>2, <2>3, <2>6
  <2>7. CASE Rewriting(i) # {}
    <3>1. PICK u : u = CHOOSE w \in Rewriting(i) : TRUE
      OBVIOUS
    <3>2. content[i] = proc[u].was[i] /\ content'[i] = proc'[u].was[i] /\ u \in Rewriting(i)
      BY <2>1, <2>2, <2>3, <2>4, <2>7, <3>1
    <3>3. QED
      BY <2>5, <3>2
  <2>8. QED
    BY <2>6, <2>7
<1>2. QED
  <2>1. content = [i \in Ids |-> content[i]] /\ content' = [i \in Ids |-> content'[i]]
    BY DEF content
  <2>2. QED
    BY <1>1, <2>1

(* No step but READ's changes what is READ.                                 *)
LEMMA AskedSame ==
  ASSUME HashInv, NEW u \in Users, NEW h, Heap(h), Steps(u), ~Read(u), ~ReadGroup(u)
  PROVE  asked' = asked
<1>1. proc[u].at # "read"
  BY WorkingIs DEF Steps, Write, WriteBig, MoreBig, WriteAfterBig, Delete, FreeLocks, FreeBig, Account,
     Resize, ResizeOff, SplitStart, SplitSource, MergeStart, Release, Select, SelectGroup, SelectEnd
<1>2. proc'[u].at # "read"
  BY Begins
<1>3. \A v \in Users : v # u => proc'[v] = proc[v]
  BY StepOrderly, OrderlyIs
<1>4. \A v \in Users : (proc[v].at = "read" <=> proc'[v].at = "read")
                        /\ (proc[v].at = "read" => proc'[v] = proc[v])
  BY <1>1, <1>2, <1>3
<1>5. QED
  BY <1>4 DEF asked

LEMMA PendingSame ==
  ASSUME \A v \in Users : /\ proc'[v].at = "rewrite" <=> proc[v].at = "rewrite"
                          /\ proc[v].at = "rewrite" => proc'[v].put = proc[v].put
  PROVE  pending' = pending
BY DEF pending

(* No step of writing blocks shows.                                         *)
LEMMA BlockSteps ==
  ASSUME MapInv, MapInv', NEW u \in Users,
         Working(u) \/ WriteBig(u) \/ MoreBig(u) \/ FreeBig(u)
  PROVE  UNCHANGED <<content, pending, reply>>
<1>1. HashInv /\ block \in [Place -> Block] /\ \E h : Heap(h)
  BY DEF MapInv, FileInv, Typed
<1>2. PICK h : Heap(h)
  BY <1>1
<1>3. \E k : Heap(k)' /\ k.kept = h.kept
  BY <1>1, <1>2, WorkingHeap, WriteBigHeap, MoreBigHeap, FreeBigHeap
<1>4. PICK k : Heap(k)' /\ k.kept = h.kept
  BY <1>3
<1>5. Orderly(u)
  BY <1>1, StepOrderly DEF Steps
<1>6. \A v \in Users : v # u => proc'[v] = proc[v]
  BY <1>5, OrderlyIs
<1>7. /\ proc'[u].at = "rewrite" <=> proc[u].at = "rewrite"
      /\ proc[u].at = "rewrite" => proc'[u].was = proc[u].was /\ proc'[u].put = proc[u].put
  <2>1. CASE Working(u)
    <3>1. PICK job : Works(u, job)
      BY <2>1, WorkingIs
    <3>2. QED
      BY <1>1, <1>2, <2>1, <3>1, WorkIs
  <2>2. CASE WriteBig(u) \/ MoreBig(u)
    <3>1. PICK r, o, n : Goes(u, BigDone(r, o, n))
      BY <2>2 DEF WriteBig, MoreBig
    <3>2. proc'[u] = BigDone(r, o, n)
      BY <1>1, <3>1 DEF Goes, HashInv
    <3>3. proc'[u].at \in {"big", "write"}
      BY <3>2 DEF BigDone
    <3>4. proc[u].at \in {"idle", "big"}
      BY <2>2 DEF WriteBig, MoreBig
    <3>5. QED
      BY <3>3, <3>4
  <2>3. CASE FreeBig(u)
    <3>1. proc[u].at = "tidy" /\ proc'[u] = [proc[u] EXCEPT !.at = "account"]
      BY <1>1, <2>3 DEF FreeBig, Goes, HashInv
    <3>0. Shape(proc[u])
      BY <1>1 DEF HashInv, SessionOK
    <3>2. PICK o, b, n : proc[u] = [at |-> "tidy", big |-> o, bytes |-> b, recs |-> n]
      BY <3>0, <3>1 DEF Shape, Tidying
    <3>3. proc'[u].at = "account"
      BY <3>1, <3>2
    <3>4. QED
      BY <3>1, <3>3
  <2>4. QED
    BY <2>1, <2>2, <2>3
<1>8. content' = content
  BY <1>2, <1>4, <1>6, <1>7, KeptMap
<1>9. pending' = pending
  BY <1>6, <1>7, PendingSame
<1>10. reply' = reply
  BY WorkingIs DEF WriteBig, MoreBig, FreeBig
<1>11. QED
  BY <1>8, <1>9, <1>10

(* At the end of a rewrite the map is what it promised.                     *)
LEMMA EndContent ==
  ASSUME MapInv, MapInv', NEW u \in Users, FreeLocks(u)
  PROVE  /\ proc[u].at = "rewrite" /\ proc'[u].at # "rewrite"
         /\ (\A v \in Users : v # u => proc'[v] = proc[v])
         /\ \A i \in Ids : content'[i] = IF i \in DOMAIN proc[u].was THEN Promised(proc[u], i) ELSE content[i]
         /\ \A i \in Ids : i \in DOMAIN proc[u].was => content[i] = proc[u].was[i]
<1>0. Shows /\ Shows'
  BY MapShows, PTL
<1>1. HashInv /\ HashInv' /\ \E h : Heap(h)
  BY DEF MapInv, FileInv
<1>2. PICK h : Heap(h)
  BY <1>1
<1>3. Heap(h)'
  BY <1>1, <1>2, FreeLocksHeap
<1>4. Orderly(u)
  BY <1>1, StepOrderly DEF Steps
<1>5. \A v \in Users : v # u => proc'[v] = proc[v]
  BY <1>4, OrderlyIs
<1>6. proc[u].at = "rewrite" /\ proc'[u].at # "rewrite"
  <2>1. proc[u].at = "rewrite"
    BY DEF FreeLocks
  <2>3. proc'[u] = proc[u].then
    BY <1>1 DEF FreeLocks, Goes, HashInv
  <2>4. Shape(proc[u])
    BY <1>1 DEF HashInv, SessionOK
  <2>5. proc'[u].at \in {"tidy", "release"}
    BY <2>1, <2>3, <2>4 DEF Shape
  <2>6. QED
    BY <2>1, <2>5
<1>7. ASSUME NEW i \in Ids, i \in DOMAIN proc[u].was
      PROVE  content'[i] = Promised(proc[u], i) /\ content[i] = proc[u].was[i]
  <2>1. u \in Rewriting(i)
    BY <1>6, <1>7 DEF Rewriting
  <2>2. content[i] = proc[u].was[i] /\ Rewriting(i) = {u}
    BY <1>1, <2>1, ContentHeld
  <2>3. Rewriting(i)' = {}
    BY <1>5, <1>6, <2>2 DEF Rewriting
  <2>4. content'[i] = ValIn(h.kept[i])
    BY <1>0, <1>3, <2>3, ShownNext
  <2>5. ValIn(h.kept[i]) = Promised(proc[u], i)
    BY <1>2, <1>6, <1>7 DEF Heap, HeldOK
  <2>6. QED
    BY <2>2, <2>4, <2>5
<1>8. ASSUME NEW i \in Ids, i \notin DOMAIN proc[u].was
      PROVE  content'[i] = content[i]
  <2>1. Rewriting(i)' = Rewriting(i) /\ u \notin Rewriting(i)
    BY <1>5, <1>6, <1>8 DEF Rewriting
  <2>2. content[i] = IF Rewriting(i) = {} THEN ValIn(h.kept[i])
                     ELSE proc[CHOOSE v \in Rewriting(i) : TRUE].was[i]
    BY <1>0, <1>2 DEF Shows, Shown
  <2>3. content'[i] = IF Rewriting(i)' = {} THEN ValIn(h.kept[i])
                      ELSE proc'[CHOOSE v \in Rewriting(i)' : TRUE].was[i]
    BY <1>0, <1>3, ShownNext
  <2>4. CASE Rewriting(i) = {}
    BY <2>1, <2>2, <2>3, <2>4
  <2>5. CASE Rewriting(i) # {}
    <3>1. PICK v : v = CHOOSE w \in Rewriting(i) : TRUE
      OBVIOUS
    <3>2. v \in Rewriting(i)
      BY <2>5, <3>1
    <3>3. proc'[v] = proc[v]
      BY <1>5, <2>1, <3>2 DEF Rewriting
    <3>4. QED
      BY <2>1, <2>2, <2>3, <2>5, <3>1, <3>3
  <2>6. QED
    BY <2>4, <2>5
<1>9. QED
  BY <1>5, <1>6, <1>7, <1>8

LEMMA PromisedNone ==
  ASSUME NEW p, p.put = {}, NEW i
  PROVE  Promised(p, i) = p.was[i]
BY DEF Promised

LEMMA PromisedOne ==
  ASSUME NEW p, NEW w, p.put = {w}, NEW i
  PROVE  Promised(p, i) = IF i = w.id THEN w.val ELSE p.was[i]
<1>1. CASE i = w.id
  <2>1. (CHOOSE x \in {w} : x.id = i) = w
    BY <1>1
  <2>2. QED
    BY <1>1, <2>1 DEF Promised
<1>2. CASE i # w.id
  BY <1>2 DEF Promised
<1>3. QED
  BY <1>1, <1>2

LEMMA FreeLocksMaps ==
  ASSUME MapInv, MapInv', NEW u \in Users, FreeLocks(u), asked' = asked
  PROVE  Map!Put(u) \/ UNCHANGED <<content, pending, asked, reply>>
<1>1. /\ proc[u].at = "rewrite" /\ proc'[u].at # "rewrite"
      /\ (\A v \in Users : v # u => proc'[v] = proc[v])
      /\ \A i \in Ids : content'[i] = IF i \in DOMAIN proc[u].was THEN Promised(proc[u], i) ELSE content[i]
      /\ \A i \in Ids : i \in DOMAIN proc[u].was => content[i] = proc[u].was[i]
  BY EndContent
<1>2. content = [i \in Ids |-> content[i]] /\ content' = [i \in Ids |-> content'[i]]
  BY DEF content
<1>3. reply' = reply
  BY DEF FreeLocks
<1>4. pending' = [v \in Users |-> IF v = u THEN {} ELSE pending[v]] /\ pending[u] = proc[u].put
  BY <1>1 DEF pending
<1>5. pending = [v \in Users |-> pending[v]]
  BY DEF pending
<1>6. CASE proc[u].put = {}
  <2>1. \A i \in Ids : content'[i] = content[i]
    BY <1>1, <1>6, PromisedNone
  <2>2. content' = content
    BY <1>2, <2>1
  <2>3. pending' = pending
    BY <1>4, <1>5, <1>6
  <2>4. QED
    BY <1>3, <2>2, <2>3
<1>7. CASE proc[u].put # {}
  <2>1. PICK w \in [id : Ids, val : Vals \cup {NoRec}] : proc[u].put = {w} /\ w.id \in DOMAIN proc[u].was
    BY <1>1, <1>7 DEF MapInv, PutsOne
  <2>2. ASSUME NEW i \in Ids
        PROVE  content'[i] = IF i = w.id THEN w.val ELSE content[i]
    <3>1. Promised(proc[u], i) = IF i = w.id THEN w.val ELSE proc[u].was[i]
      BY ZenonT(40), <2>1, PromisedOne
    <3>2. CASE i \in DOMAIN proc[u].was
      BY <1>1, <3>1, <3>2
    <3>3. CASE i \notin DOMAIN proc[u].was
      BY <1>1, <2>1, <3>3
    <3>4. QED
      BY <3>2, <3>3
  <2>3. PICK c, d : c = content /\ d = content'
    OBVIOUS
  <2>4. d = [c EXCEPT ![w.id] = w.val]
    <3>1. c = [i \in Ids |-> c[i]] /\ d = [i \in Ids |-> d[i]] /\ \A i \in Ids : d[i] = IF i = w.id THEN w.val ELSE c[i]
      BY <1>2, <2>2, <2>3
    <3>2. QED
      BY <3>1
  <2>5. pending' = [pending EXCEPT ![u] = {}]
    <3>1. PICK p, q : p = pending /\ q = pending'
      OBVIOUS
    <3>2. p = [v \in Users |-> p[v]] /\ q = [v \in Users |-> IF v = u THEN {} ELSE p[v]]
      BY <1>4, <1>5, <3>1
    <3>3. q = [p EXCEPT ![u] = {}]
      BY <3>2
    <3>4. QED
      BY <3>1, <3>3
  <2>6. w \in pending[u]
    BY <1>4, <2>1
  <2>7. content' = [content EXCEPT ![w.id] = w.val]
    BY <2>3, <2>4
  <2>8. QED
    BY <1>3, <2>5, <2>6, <2>7 DEF Map!Put
<1>8. QED
  BY <1>6, <1>7

(* A session locks a group to write or delete a record.                     *)
LEMMA AskMaps ==
  ASSUME MapInv, MapInv', NEW u \in Users, Write(u) \/ WriteAfterBig(u) \/ Delete(u), asked' = asked
  PROVE  Map!Ask(u)
<1>1. HashInv /\ HashInv' /\ \E h : Heap(h)
  BY DEF MapInv, FileInv
<1>2. PICK h : Heap(h)
  BY <1>1
<1>3. content' = content
  BY <1>1, LockMap
<1>4. reply' = reply /\ proc[u].at # "rewrite"
  BY DEF Write, WriteAfterBig, Delete, LockToWrite
<1>5. \A v \in Users : v # u => proc'[v] = proc[v]
  BY <1>1, StepOrderly, OrderlyIs DEF Steps
<1>6. PICK w \in [id : Ids, val : Vals \cup {NoRec}] : proc'[u].at = "rewrite" /\ proc'[u].put = {w}
  BY <1>1, <1>2, WriteAsks
<1>7. /\ pending' = [v \in Users |-> IF v = u THEN {w} ELSE pending[v]]
      /\ pending = [v \in Users |-> pending[v]] /\ pending[u] = {}
  BY <1>4, <1>5, <1>6 DEF pending
<1>8. pending' = [pending EXCEPT ![u] = {w}]
  <2>1. PICK p, q : p = pending /\ q = pending'
    OBVIOUS
  <2>2. p = [v \in Users |-> p[v]] /\ q = [v \in Users |-> IF v = u THEN {w} ELSE p[v]]
    BY <1>7, <2>1
  <2>3. q = [p EXCEPT ![u] = {w}]
    BY <2>2
  <2>4. QED
    BY <2>1, <2>3
<1>9. QED
  BY <1>3, <1>4, <1>7, <1>8 DEF Map!Ask

(* A session hashes the id of a READ and locks its group.                   *)
LEMMA WantMaps ==
  ASSUME MapInv, MapInv', NEW u \in Users, Read(u), UNCHANGED <<content, pending, reply>>
  PROVE  Map!Want(u)
<1>1. HashInv /\ HashInv'
  BY DEF MapInv, FileInv
<1>2. PICK i \in Ids : Goes(u, [at |-> "read", id |-> i, group |-> HashGroup(i)])
  BY DEF Read
<1>3. proc'[u].at = "read" /\ proc'[u].id = i /\ proc[u].at # "read"
  <2>1. proc'[u] = [at |-> "read", id |-> i, group |-> HashGroup(i)] /\ proc[u].at = "idle"
    BY <1>1, <1>2 DEF Goes, HashInv, Read
  <2>2. QED
    BY <2>1
<1>4. \A v \in Users : v # u => proc'[v] = proc[v]
  BY <1>1, StepOrderly, OrderlyIs DEF Steps
<1>5. PICK a, b : a = asked /\ b = asked'
  OBVIOUS
<1>6. /\ b = [v \in Users |-> IF v = u THEN {i} ELSE a[v]]
      /\ a = [v \in Users |-> a[v]] /\ a[u] = {}
  BY <1>3, <1>4, <1>5 DEF asked
<1>7. b = [a EXCEPT ![u] = {i}]
  BY <1>6
<1>8. QED
  BY <1>5, <1>6, <1>7 DEF Map!Want

(* All that reading, counting, splitting, merging and selecting does to the *)
(* groups does not show.                                                    *)
LEMMA QuietMaps ==
  ASSUME MapInv, MapInv', NEW u \in Users,
         \/ Read(u) \/ Account(u) \/ Resize(u) \/ ResizeOff(u) \/ SplitStart(u) \/ SplitSource(u)
         \/ MergeStart(u) \/ Release(u) \/ Select(u) \/ SelectGroup(u) \/ SelectEnd(u)
  PROVE  UNCHANGED <<content, pending, reply>>
<1>1. HashInv /\ HashInv' /\ \E h : Heap(h)
  BY DEF MapInv, FileInv
<1>2. PICK h : Heap(h)
  BY <1>1
<1>3. content' = content
  BY <1>1, QuietMap, SelectGroupMap, ResizeMap
<1>4. reply' = reply
  BY DEF Read, Account, Resize, ResizeOff, SplitStart, SplitSource, MergeStart, Release, Select,
         SelectGroup, SelectEnd
<1>5. \A v \in Users : v # u => proc'[v] = proc[v]
  BY <1>1, StepOrderly, OrderlyIs DEF Steps
<1>6. proc[u].at # "rewrite"
  BY DEF Read, Account, Resize, ResizeOff, SplitStart, SplitSource, MergeStart, Release, Select,
         SelectGroup, SelectEnd
<1>7. CASE proc'[u].at # "rewrite"
  <2>1. \A v \in Users : /\ proc'[v].at = "rewrite" <=> proc[v].at = "rewrite"
                         /\ proc[v].at = "rewrite" => proc'[v].put = proc[v].put
    BY <1>5, <1>6, <1>7
  <2>2. QED
    BY <1>3, <1>4, <2>1, PendingSame
<1>8. CASE proc'[u].at = "rewrite"
  <2>1. SplitSource(u) \/ MergeStart(u)
    <3>1. ~Write(u) /\ ~WriteAfterBig(u) /\ ~Delete(u) => SplitSource(u) \/ MergeStart(u)
      BY <1>1, <1>2, <1>6, <1>8, Begins, WorkingIs DEF Steps
    <3>2. SplitSource(u) \/ MergeStart(u) \/ UNCHANGED updCt
      BY DEF Read, Account, Resize, ResizeOff, SplitStart, Release, Select, SelectGroup, SelectEnd, header
    <3>3. Write(u) \/ WriteAfterBig(u) \/ Delete(u) => updCt' = updCt + 1
      BY DEF Write, WriteAfterBig, Delete, LockToWrite
    <3>4. updCt \in Nat
      BY DEF MapInv, FileInv, Typed
    <3>5. QED
      BY <3>1, <3>2, <3>3, <3>4
  <2>2. proc'[u].put = {}
    BY <1>1, <2>1, MoveAsks
  <2>3. pending' = pending
    BY <1>5, <1>6, <1>8, <2>2 DEF pending
  <2>4. QED
    BY <1>3, <1>4, <2>3
<1>9. QED
  BY <1>7, <1>8

LEMMA MapStepInv == MapInv /\ [Next]_vars => MapInv'
<1> SUFFICES ASSUME MapInv, [Next]_vars
             PROVE  MapInv'
  OBVIOUS
<1>1. FileInv'
  BY FileStep DEF MapInv
<1>2. HashInv /\ \E h : Heap(h)
  BY DEF MapInv, FileInv
<1>3. CASE UNCHANGED vars
  BY <1>1, <1>3 DEF MapInv, ReadsOnly, vars
<1>4. CASE Next
  <2>1. PICK u \in Users : Steps(u)
    BY <1>4, NextSteps
  <2>2. PICK h : Heap(h)
    BY <1>2
  <2>3. \A v \in Users : ReadsOnly(v)'
    BY <1>2, <2>1, <2>2, ReadsOnlyNext DEF MapInv
  <2>4. \A v \in Users : PutsOne(proc'[v])
    BY <1>2, <2>1, <2>2, PutsOneNext DEF MapInv
  <2>5. QED
    BY <1>1, <2>3, <2>4 DEF MapInv
<1>5. QED
  BY <1>3, <1>4

LEMMA MapStarts == Init => MapInv /\ Map!FMInit
<1> SUFFICES ASSUME Init
             PROVE  MapInv /\ Map!FMInit
  OBVIOUS
<1>1. \A u \in Users : proc[u].at = "idle"
  BY DEF Init
<1>2. MapInv
  BY <1>1, FileInit DEF MapInv, ReadsOnly, PutsOne
<1>3. PICK h : Heap(h) /\ \A i \in Ids : h.kept[i] = {}
  BY InitHeap
<1>4. \A i \in Ids : content[i] = NoRec
  <2>1. ASSUME NEW i \in Ids
        PROVE  content[i] = NoRec
    <3>1. Rewriting(i) = {}
      BY <1>1 DEF Rewriting
    <3>2. content[i] = ValIn(h.kept[i])
      BY <1>2, <1>3, <3>1, ContentFree DEF MapInv, FileInv, Typed
    <3>3. QED
      BY <1>3, <3>2 DEF ValIn
  <2>2. QED
    BY <2>1
<1>5. content = [i \in Ids |-> NoRec]
  <2>1. content = [i \in Ids |-> content[i]]
    BY DEF content
  <2>2. QED
    BY <1>4, <2>1
<1>6. pending = [u \in Users |-> {}]
  BY <1>1 DEF pending
<1>7. reply = NoRec
  BY DEF Init
<1>8. asked = [u \in Users |-> {}]
  BY <1>1 DEF asked
<1>9. QED
  BY <1>2, <1>5, <1>6, <1>7, <1>8 DEF Map!FMInit

LEMMA MapRefines == MapInv /\ MapInv' /\ [Next]_vars => [Map!FMNext]_(Map!fmvars)
<1> SUFFICES ASSUME MapInv, MapInv', [Next]_vars
             PROVE  Map!FMNext \/ UNCHANGED <<content, pending, asked, reply>>
  BY DEF Map!fmvars
<1>1. CASE UNCHANGED vars
  <2>1. block' = block /\ proc' = proc /\ modulus' = modulus /\ modValue' = modValue /\ reply' = reply
    BY <1>1 DEF vars, file, header
  <2>2. \A i \in Ids : Rewriting(i)' = Rewriting(i)
    BY <2>1 DEF Rewriting
  <2>3. PICK h : Heap(h)
    BY DEF MapInv, FileInv
  <2>4. Heap(h)'
    BY <1>1, <2>3, HeapUnchanged
  <2>5. content' = content
    BY <2>1, <2>3, <2>4, KeptMap
  <2>6. pending' = pending
    BY <2>1 DEF pending
  <2>7. asked' = asked
    BY <2>1 DEF asked
  <2>8. QED
    BY <2>1, <2>5, <2>6, <2>7
<1>2. CASE Next
  <2>1. PICK u \in Users : Steps(u)
    BY <1>2, NextSteps
  <2>2. CASE Read(u)
    BY <2>2, QuietMaps, WantMaps DEF Map!FMNext
  <2>3. CASE ReadGroup(u)
    <3>1. HashInv /\ HashInv'
      BY DEF MapInv, FileInv
    <3>2. QED
      BY <2>3, <3>1, ReadAnswers DEF Map!FMNext
  <2>4. CASE ~Read(u) /\ ~ReadGroup(u)
    <3>1. asked' = asked
      BY <2>1, <2>4, AskedSame DEF MapInv, FileInv
    <3>2. CASE Write(u) \/ WriteAfterBig(u) \/ Delete(u)
      BY <3>1, <3>2, AskMaps DEF Map!FMNext
    <3>3. CASE FreeLocks(u)
      BY <3>1, <3>3, FreeLocksMaps DEF Map!FMNext
    <3>4. CASE Working(u) \/ WriteBig(u) \/ MoreBig(u) \/ FreeBig(u)
      BY <3>1, <3>4, BlockSteps
    <3>5. CASE \/ Account(u) \/ Resize(u) \/ ResizeOff(u) \/ SplitStart(u) \/ SplitSource(u)
               \/ MergeStart(u) \/ Release(u) \/ Select(u) \/ SelectGroup(u) \/ SelectEnd(u)
      BY <3>1, <3>5, QuietMaps
    <3>6. QED
      BY <2>1, <2>4, <3>2, <3>3, <3>4, <3>5 DEF Steps
  <2>5. QED
    BY <2>2, <2>3, <2>4
<1>3. QED
  BY <1>1, <1>2

(* A dynamic file is a map from ids to records.  Whatever dh_split and      *)
(* dh_merge move meanwhile, however a group is rewritten block by block,    *)
(* and however big a record is, dh_write and dh_delete of one record change *)
(* the map for its id and no other, in one step, and dh_read of an id       *)
(* returns what the map holds for that id.                                  *)
THEOREM FileImplementsMap == Spec => ImplementsMap
<1>1. Init => MapInv /\ Map!FMInit
  BY MapStarts
<1>2. MapInv /\ [Next]_vars => MapInv'
  BY MapStepInv
<1>3. MapInv /\ MapInv' /\ [Next]_vars => [Map!FMNext]_(Map!fmvars)
  BY MapRefines
<1>4. QED
  BY <1>1, <1>2, <1>3, PTL DEF Spec, ImplementsMap, Map!FMSpec
-----------------------------------------------------------------------------
(* Selects: a group that a SELECT has yet to read holds each record that is *)
(* there all the while and that it has not got.                             *)
Selecting(u) ==
  proc[u].at = "select" =>
    /\ \A i \in steady[u] :
         content[i] # NoRec /\ (i \in Range(proc[u].picked) \/ Home(i) >= proc[u].group)
    /\ proc[u].gap \/ ( /\ \A v \in Users : proc[v].at # "source"
                        /\ IsInjective(proc[u].picked)
                        /\ \A i \in Range(proc[u].picked) : Home(i) < proc[u].group )

(* The groups of a file stay while it is selected, but a split between its  *)
(* two locks may still move ids, to the last group.                         *)
LEMMA SelectHomes ==
  ASSUME HashInv, NEW u \in Users, NEW h, Heap(h), Steps(u), NEW s \in Users, proc[s].at = "select"
  PROVE  /\ UNCHANGED <<modulus, modValue>>
         /\ \A i \in Ids : Home(i)' \in Nat /\ Home(i) <= Home(i)'
         /\ (\A v \in Users : proc[v].at # "source") =>
              (\A v \in Users : proc'[v].at # "source") /\ \A i \in Ids : Home(i)' = Home(i)
<1>1. ~SplitStart(u) /\ ~MergeStart(u)
  BY HoldingFinite DEF SplitStart, MergeStart, HeldOff, Holding
<1>2. UNCHANGED <<modulus, modValue>>
  BY <1>1, StepGoes
<1>3. PICK p : proc' = [proc EXCEPT ![u] = p]
  BY StepGoes DEF Goes
<1>4. proc'[u] = p /\ \A v \in Users : v # u => proc'[v] = proc[v]
  BY <1>3 DEF HashInv
<1>5. p.at # "source"
  BY <1>1, <1>4, Begins
<1>6. \A i \in Ids : Home(i) \in Nat /\ Home(i) <= modulus
  <2>1. modulus \in Nat
    BY DEF HashInv, HeaderInv, HeaderOK
  <2>2. QED
    BY <2>1, HomePresent
<1>7. CASE SplitSource(u)
  <2>1. /\ proc[u].at = "source" /\ proc[u].new = modulus
        /\ \A i \in Ids : /\ Home(i)' = HashGroup(i)
                          /\ Home(i) = IF HashGroup(i) = proc[u].new THEN proc[u].group ELSE HashGroup(i)
    BY <1>7, SplitSourceStep DEF SplitSource, HashInv, SessionOK
  <2>2. \A i \in Ids : Home(i)' = modulus \/ Home(i)' = Home(i)
    BY <2>1
  <2>3. modulus \in Nat
    BY DEF HashInv, HeaderInv, HeaderOK
  <2>4. \A i \in Ids : Home(i)' \in Nat /\ Home(i) <= Home(i)'
    BY <1>6, <2>2, <2>3
  <2>5. QED
    BY <1>2, <2>1, <2>4
<1>8. CASE ~SplitSource(u)
  <2>1. proc[u].at # "source"
    BY <1>1, <1>8, WorkingIs DEF Steps, Read, ReadGroup, Write, WriteBig, MoreBig, WriteAfterBig, Delete, Working,
       Dechain, MoveOn, Extend, Adding, Add, GiveAway, NextSource, WriteBlock, Copied, FreeLocks, FreeBig,
       Account, Resize, ResizeOff, Release, Select, SelectGroup, SelectEnd
  <2>2. \A i \in Ids : Home(i)' = Home(i)
    BY <1>2, <1>3, <1>5, <2>1, HomesSame DEF HashInv
  <2>3. \A i \in Ids : Home(i)' \in Nat /\ Home(i) <= Home(i)'
    BY <1>6, <2>2
  <2>4. (\A v \in Users : proc[v].at # "source") => \A v \in Users : proc'[v].at # "source"
    BY <1>4, <1>5
  <2>5. QED
    BY <1>2, <2>2, <2>3, <2>4
<1>9. QED
  BY <1>7, <1>8

(* A record that is there is seen in its group.                             *)
LEMMA RecordSeen ==
  ASSUME HashInv, NEW h, Heap(h), block \in [Place -> Block], NEW g \in Groups, ~WriteLocked(g),
         NEW i \in Ids, Home(i) = g, h.kept[i] # {}
  PROVE  \E k \in 1 .. Len(GroupRecs(block, g)) : GroupRecs(block, g)[k].id = i
<1>1. PICK b : b = block
  OBVIOUS
<1>2. /\ Chained(h.ptr, h.own, fileEnd) /\ Sane(b, g, h.ptr, h.own, h.at, h.kept) /\ b \in [Place -> Block]
      /\ \A p \in Place : h.own[p] = g => b[p] = h.view[p]
  BY <1>1, OnDiskGroup DEF Heap
<1>3. Found(b, g, i) = {r \in RecsIn(GroupRecs(b, g)) : r.id = i}
  BY <1>2, GroupIs
<1>4. Found(b, g, i) = h.kept[i]
  BY <1>1, FoundKept
<1>5. PICK r : r \in RecsIn(GroupRecs(b, g)) /\ r.id = i
  BY <1>3, <1>4
<1>6. QED
  BY <1>1, <1>5 DEF RecsIn

LEMMA IdsLong ==
  ASSUME NEW s \in Seq(Ids), NEW t \in Seq(Ids)
  PROVE  Len(s \o t) = Len(s) + Len(t)
OBVIOUS

WithIds(picked, recs) == picked \o [k \in 1 .. Len(recs) |-> recs[k].id]

LEMMA MorePicked ==
  ASSUME NEW recs \in Seq(Rec), NEW picked \in Seq(Ids), NEW more, more = WithIds(picked, recs)
  PROVE  /\ Range(more) = Range(picked) \cup {recs[k].id : k \in 1 .. Len(recs)}
         /\ IsInjective(picked) /\ DistinctIds(recs) /\ (\A k \in 1 .. Len(recs) : recs[k].id \notin Range(picked))
              => IsInjective(more)
<1>1. PICK n \in Nat, m \in Nat : n = Len(picked) /\ m = Len(recs)
  BY SomeRecs
<1>2. PICK ids : ids = [k \in 1 .. m |-> recs[k].id]
  OBVIOUS
<1>3. ids \in Seq(Ids) /\ Len(ids) = m /\ \A k \in 1 .. m : ids[k] = recs[k].id
  <2>1. \A k \in 1 .. m : recs[k].id \in Ids
    <3>1. \A k \in 1 .. m : recs[k] \in Rec
      BY <1>1, SomeRecs
    <3>2. QED
      BY <3>1 DEF Rec
  <2>2. QED
    BY <1>2, <2>1
<1>4. more = picked \o ids
  BY <1>1, <1>2 DEF WithIds
<1>5. /\ more \in Seq(Ids) /\ DOMAIN more = 1 .. n + m /\ DOMAIN picked = 1 .. n
      /\ \A k \in 1 .. n : more[k] = picked[k]
      /\ \A k \in 1 .. m : more[n + k] = recs[k].id
  <2>1. more \in Seq(Ids) /\ Len(more) = n + m
    <3>1. picked \o ids \in Seq(Ids)
      BY <1>3
    <3>2. Len(picked \o ids) = Len(picked) + Len(ids)
      BY <1>3, IdsLong
    <3>3. QED
      BY <1>1, <1>3, <1>4, <3>1, <3>2
  <2>2. DOMAIN more = 1 .. n + m /\ DOMAIN picked = 1 .. n
    BY <1>1, <2>1
  <2>3. \A k \in 1 .. n : more[k] = picked[k]
    BY <1>1, <1>3, <1>4
  <2>4. \A k \in 1 .. m : more[n + k] = ids[k]
    BY <1>1, <1>3, <1>4
  <2>5. QED
    BY <1>3, <2>1, <2>2, <2>3, <2>4
<1>6. \A x \in 1 .. n + m : x \in 1 .. n \/ \E k \in 1 .. m : x = n + k
  <2>1. \A x \in 1 .. n + m : x \notin 1 .. n => x - n \in 1 .. m /\ x = n + (x - n)
    OBVIOUS
  <2>2. QED
    BY <2>1
<1>7. \A k \in 1 .. m : n + k \in 1 .. n + m
  OBVIOUS
<1>8. 1 .. n \subseteq 1 .. n + m
  OBVIOUS
<1>9. Range(more) = Range(picked) \cup {recs[k].id : k \in 1 .. m}
  <2>1. ASSUME NEW x \in 1 .. n + m
        PROVE  more[x] \in Range(picked) \cup {recs[k].id : k \in 1 .. m}
    BY ZenonT(40), <1>5, <1>6 DEF Range
  <2>2. ASSUME NEW x \in 1 .. n
        PROVE  picked[x] \in Range(more)
    BY <1>5, <1>8 DEF Range
  <2>3. ASSUME NEW k \in 1 .. m
        PROVE  recs[k].id \in Range(more)
    <3>1. more[n + k] \in Range(more)
      BY <1>5, <1>7 DEF Range
    <3>2. QED
      BY <1>5, <3>1
  <2>4. Range(more) = {more[x] : x \in 1 .. n + m} /\ Range(picked) = {picked[x] : x \in 1 .. n}
    BY <1>5 DEF Range
  <2>5. Range(more) \subseteq Range(picked) \cup {recs[k].id : k \in 1 .. m}
    BY <2>1, <2>4
  <2>6. Range(picked) \cup {recs[k].id : k \in 1 .. m} \subseteq Range(more)
    BY <2>2, <2>3, <2>4
  <2>7. QED
    BY <2>5, <2>6
<1>10. ASSUME IsInjective(picked), DistinctIds(recs), \A k \in 1 .. m : recs[k].id \notin Range(picked),
              NEW x \in 1 .. n + m, NEW y \in 1 .. n + m, more[x] = more[y]
       PROVE  x = y
  <2>0. ASSUME NEW a \in 1 .. n, NEW b \in 1 .. n + m, b \notin 1 .. n, more[a] = more[b]
        PROVE  FALSE
    <3>1. PICK k \in 1 .. m : b = n + k
      BY <1>6, <2>0
    <3>2. more[a] = picked[a] /\ picked[a] \in Range(picked)
      BY <1>5 DEF Range
    <3>3. more[b] = recs[k].id
      BY <1>5, <3>1
    <3>4. QED
      BY <1>10, <2>0, <3>2, <3>3
  <2>1. CASE x \in 1 .. n /\ y \in 1 .. n
    BY <1>5, <1>10, <2>1 DEF IsInjective
  <2>2. CASE x \in 1 .. n /\ y \notin 1 .. n
    BY <1>10, <2>0, <2>2
  <2>3. CASE x \notin 1 .. n /\ y \in 1 .. n
    BY <1>10, <2>0, <2>3
  <2>4. CASE x \notin 1 .. n /\ y \notin 1 .. n
    <3>1. PICK j \in 1 .. m, k \in 1 .. m : x = n + j /\ y = n + k
      BY <1>6, <2>4
    <3>2. recs[j].id = recs[k].id
      BY <1>5, <1>10, <3>1
    <3>3. j = k
      BY <1>1, <1>10, <3>2 DEF DistinctIds
    <3>4. QED
      BY <3>1, <3>3
  <2>5. QED
    BY <2>1, <2>2, <2>3, <2>4
<1>11. QED
  BY <1>1, <1>5, <1>9, <1>10 DEF IsInjective
(* The map changes at the end of a rewrite only.                            *)
LEMMA ContentKept ==
  ASSUME MapInv, MapInv', NEW u \in Users, Steps(u), ~FreeLocks(u)
  PROVE  content' = content
<1>1. HashInv /\ HashInv'
  BY DEF MapInv, FileInv
<1>2. CASE Working(u) \/ WriteBig(u) \/ MoreBig(u) \/ FreeBig(u)
  BY <1>2, BlockSteps
<1>3. CASE ~(Working(u) \/ WriteBig(u) \/ MoreBig(u) \/ FreeBig(u))
  BY <1>1, <1>3, LockMap, QuietMap, SelectGroupMap, ResizeMap DEF Steps
<1>4. QED
  BY <1>2, <1>3

(* What is no longer there is not waited for.                               *)
LEMMA SteadyStep ==
  ASSUME MapInv, MapInv', NEW u \in Users, Steps(u), NEW s \in Users, s # u \/ SelectGroup(u)
  PROVE  \A i \in steady'[s] : i \in steady[s] /\ (content[i] # NoRec => content'[i] # NoRec)
<1>1. steady \in [Users -> SUBSET Ids]
  BY DEF MapInv, FileInv, Typed
<1>2. CASE FreeLocks(u)
  BY <1>2 DEF FreeLocks
<1>3. CASE ~FreeLocks(u)
  <2>1. content' = content
    BY <1>3, ContentKept
  <2>2. CASE Select(u) \/ SelectEnd(u)
    <3>1. PICK S : steady' = [steady EXCEPT ![u] = S]
      BY <2>2 DEF Select, SelectEnd
    <3>2. s # u
      <4>1. SUFFICES ASSUME SelectGroup(u)
                     PROVE  FALSE
        OBVIOUS
      <4>2. proc[u].at = "select" /\ proc[u].group <= modulus
        BY <4>1 DEF SelectGroup
      <4>3. proc[u].group > modulus
        BY <2>2, <4>2 DEF Select, SelectEnd
      <4>4. proc[u].group \in Nat /\ modulus \in Nat
        BY <4>2 DEF MapInv, FileInv, Typed, Numbers, HashInv, HeaderInv, HeaderOK
      <4>5. QED
        BY <4>2, <4>3, <4>4
    <3>3. steady'[s] = steady[s]
      BY <1>1, <3>1, <3>2
    <3>4. QED
      BY <2>1, <3>3
  <2>3. CASE ~(Select(u) \/ SelectEnd(u))
    <3>1. CASE Working(u)
      BY <2>1, <3>1, WorkingIs DEF history
    <3>2. CASE ~Working(u)
      <4>1. UNCHANGED steady
        BY <1>3, <2>3, <3>2 DEF Steps, Read, ReadGroup, Write, LockToWrite, WriteBig, MoreBig, WriteAfterBig, Delete,
           FreeBig, Account, Resize, ResizeOff, SplitStart, SplitSource, MergeStart, Release, SelectGroup, history
      <4>2. QED
        BY <2>1, <4>1
    <3>3. QED
      BY <3>1, <3>2
  <2>4. QED
    BY <2>2, <2>3
<1>4. QED
  BY <1>2, <1>3

(* A SELECT reads its next group.                                           *)
LEMMA GroupPicked ==
  ASSUME MapInv, NEW u \in Users, SelectGroup(u), Selecting(u), NEW g, g = proc[u].group,
         NEW recs, recs = GroupRecs(block, g), NEW picked, picked = proc[u].picked, NEW more,
         more = WithIds(picked, recs)
  PROVE  /\ g \in Nat
         /\ \A i \in steady[u] : Home(i) = g /\ content[i] # NoRec => i \in Range(more)
         /\ Range(picked) \subseteq Range(more)
         /\ \A i \in Range(more) : i \in Ids /\ (i \in Range(picked) \/ Home(i) = g)
         /\ IsInjective(picked) /\ (\A i \in Range(picked) : Home(i) < g) => IsInjective(more)
<1>1. HashInv /\ Typed /\ block \in [Place -> Block] /\ \E h : Heap(h)
  BY DEF MapInv, FileInv, Typed
<1>2. PICK h : Heap(h)
  BY <1>1
<1>3. proc[u].at = "select" /\ g <= modulus /\ CanLock(g, FALSE)
  BY DEF SelectGroup
<1>4. g \in Nat \ {0} /\ picked \in Seq(Ids)
  BY <1>1, <1>3 DEF Typed, Numbers
<1>5. g \in Groups
  BY <1>1, <1>3, <1>4, FileConstants DEF HashInv, HeaderInv, HeaderOK, Groups
<1>6. ~WriteLocked(g)
  BY <1>3 DEF CanLock, WriteLocked, MyLock
<1>7. recs \in Seq(Rec) /\ DistinctIds(recs)
  BY <1>1, <1>2, <1>5, <1>6, GroupRead
<1>8. ASSUME NEW k \in 1 .. Len(recs)
      PROVE  recs[k].id \in Ids /\ Home(recs[k].id) = g
  <2>1. PICK r : r = recs[k]
    OBVIOUS
  <2>2. r.id \in Ids /\ Home(r.id) = g
    BY <1>1, <1>2, <1>5, <1>6, <2>1, RecAtHome
  <2>3. QED
    BY <2>1, <2>2
<1>9. /\ Range(more) = Range(picked) \cup {recs[k].id : k \in 1 .. Len(recs)}
      /\ IsInjective(picked) /\ (\A k \in 1 .. Len(recs) : recs[k].id \notin Range(picked)) => IsInjective(more)
  <2>1. /\ Range(more) = Range(picked) \cup {recs[k].id : k \in 1 .. Len(recs)}
        /\ IsInjective(picked) /\ DistinctIds(recs) /\ (\A k \in 1 .. Len(recs) : recs[k].id \notin Range(picked))
             => IsInjective(more)
    BY <1>4, <1>7, MorePicked, Zenon
  <2>2. QED
    BY <1>7, <2>1
<1>10. ASSUME NEW i \in steady[u], Home(i) = g, content[i] # NoRec
       PROVE  i \in Range(more)
  <2>1. i \in Ids
    BY <1>1 DEF Typed
  <2>2. Rewriting(i) = {}
    BY <1>1, <1>6, <1>10, <2>1, OneRewritesHeld DEF OneRewrites, WriteLocked, Rewriting
  <2>3. content[i] = ValIn(h.kept[i])
    BY <1>1, <1>2, <2>1, <2>2, ContentFree DEF MapInv
  <2>4. h.kept[i] # {}
    BY <1>10, <2>3 DEF ValIn
  <2>5. \E k \in 1 .. Len(recs) : recs[k].id = i
    BY <1>1, <1>2, <1>5, <1>6, <1>10, <2>1, <2>4, RecordSeen
  <2>6. QED
    BY <1>9, <2>5
<1>11. ASSUME NEW i \in Range(more)
       PROVE  i \in Ids /\ (i \in Range(picked) \/ Home(i) = g)
  <2>1. \A x \in Range(picked) : x \in Ids
    BY <1>4 DEF Range
  <2>2. QED
    BY <1>8, <1>9, <1>11, <2>1
<1>12. ASSUME IsInjective(picked), \A i \in Range(picked) : Home(i) < g
       PROVE  IsInjective(more)
  <2>1. ASSUME NEW k \in 1 .. Len(recs), recs[k].id \in Range(picked)
        PROVE  FALSE
    <3>1. Home(recs[k].id) < g /\ Home(recs[k].id) = g
      BY <1>8, <1>12, <2>1
    <3>2. QED
      BY <1>4, <3>1
  <2>2. QED
    BY <1>9, <1>12, <2>1
<1>13. QED
  BY <1>4, <1>9, <1>10, <1>11, <1>12
LEMMA SelectGroupIs ==
  ASSUME HashInv, NEW u \in Users, SelectGroup(u)
  PROVE  /\ proc[u].at = "select" /\ proc'[u].at = "select" /\ proc'[u].group = proc[u].group + 1
         /\ proc'[u].picked = WithIds(proc[u].picked, GroupRecs(block, proc[u].group))
         /\ proc'[u].gap = proc[u].gap /\ proc'[u].upd = proc[u].upd
         /\ proc'[u].bytes = proc[u].bytes + Bytes(GroupRecs(block, proc[u].group))
<1>1. PICK g, recs, more, n, upd, gap :
        /\ g = proc[u].group /\ recs = GroupRecs(block, g) /\ n = proc[u].bytes + Bytes(recs)
        /\ more = proc[u].picked \o [k \in 1 .. Len(recs) |-> recs[k].id]
        /\ upd = proc[u].upd /\ gap = proc[u].gap
  OBVIOUS
<1>2. proc[u].at = "select" /\ Goes(u, [proc[u] EXCEPT !.picked = more, !.group = g + 1, !.bytes = n])
  BY <1>1 DEF SelectGroup
<1>3. AtSelect(proc[u], g, proc[u].picked, upd, proc[u].bytes, gap)
  BY <1>1, <1>2 DEF HashInv, SessionOK, Shape, AtSelect
<1>4. AtSelect([proc[u] EXCEPT !.picked = more, !.group = g + 1, !.bytes = n], g + 1, more, upd, n, gap)
  BY <1>3, NextGroup
<1>5. proc'[u] = [proc[u] EXCEPT !.picked = more, !.group = g + 1, !.bytes = n]
  BY <1>2 DEF Goes, HashInv
<1>6. proc'[u] = [at |-> "select", group |-> g + 1, picked |-> more, upd |-> upd, bytes |-> n, gap |-> gap]
  BY <1>4, <1>5 DEF AtSelect
<1>7. more = WithIds(proc[u].picked, GroupRecs(block, proc[u].group))
  BY <1>1 DEF WithIds
<1>8. /\ proc'[u].at = "select" /\ proc'[u].group = g + 1 /\ proc'[u].picked = more /\ proc'[u].gap = gap
      /\ proc'[u].upd = upd /\ proc'[u].bytes = n
  BY <1>6
<1>9. QED
  BY <1>1, <1>2, <1>7, <1>8, Zenon

LEMMA SelectGroupKeeps ==
  ASSUME MapInv, MapInv', NEW u \in Users, SelectGroup(u), Selecting(u)
  PROVE  Selecting(u)'
<1>1. HashInv /\ Typed /\ \E h : Heap(h)
  BY DEF MapInv, FileInv
<1>2. PICK h : Heap(h)
  BY <1>1
<1>3. PICK g, recs, picked, more :
        /\ g = proc[u].group /\ recs = GroupRecs(block, g) /\ picked = proc[u].picked /\ more = WithIds(picked, recs)
  OBVIOUS
<1>4. /\ proc[u].at = "select" /\ proc'[u].at = "select" /\ proc'[u].group = g + 1 /\ proc'[u].picked = more
      /\ proc'[u].gap = proc[u].gap
  BY <1>1, <1>3, SelectGroupIs
<1>5. Steps(u)
  BY DEF Steps
<1>6. /\ \A i \in Ids : Home(i)' \in Nat /\ Home(i) <= Home(i)'
      /\ (\A v \in Users : proc[v].at # "source") =>
           (\A v \in Users : proc'[v].at # "source") /\ \A i \in Ids : Home(i)' = Home(i)
  BY <1>1, <1>2, <1>4, <1>5, SelectHomes
<1>7. \A i \in steady'[u] : i \in steady[u] /\ (content[i] # NoRec => content'[i] # NoRec)
  BY <1>5, SteadyStep
<1>8. /\ g \in Nat
      /\ \A i \in steady[u] : Home(i) = g /\ content[i] # NoRec => i \in Range(more)
      /\ Range(picked) \subseteq Range(more)
      /\ \A i \in Range(more) : i \in Ids /\ (i \in Range(picked) \/ Home(i) = g)
      /\ IsInjective(picked) /\ (\A i \in Range(picked) : Home(i) < g) => IsInjective(more)
  BY <1>3, GroupPicked
<1>9. /\ \A i \in steady[u] : content[i] # NoRec /\ (i \in Range(picked) \/ Home(i) >= g)
      /\ proc[u].gap \/ ( /\ \A v \in Users : proc[v].at # "source"
                          /\ IsInjective(picked) /\ \A i \in Range(picked) : Home(i) < g )
  BY <1>3, <1>4 DEF Selecting
<1>10. \A i \in Ids : Home(i) \in Nat
  BY <1>1, HomePresent
<1>11. ASSUME NEW i \in steady'[u]
       PROVE  content'[i] # NoRec /\ (i \in Range(more) \/ Home(i)' >= g + 1)
  <2>1. i \in steady[u] /\ content[i] # NoRec /\ content'[i] # NoRec /\ i \in Ids
    BY <1>1, <1>7, <1>9, <1>11 DEF Typed
  <2>2. CASE i \in Range(picked) \/ Home(i) = g
    BY <1>8, <2>1, <2>2
  <2>3. CASE ~(i \in Range(picked) \/ Home(i) = g)
    <3>1. Home(i) >= g /\ Home(i) # g /\ Home(i) \in Nat /\ Home(i)' \in Nat /\ Home(i) <= Home(i)'
      BY <1>6, <1>9, <1>10, <2>1, <2>3
    <3>2. QED
      BY <1>8, <2>1, <3>1
  <2>4. QED
    BY <2>2, <2>3
<1>12. ASSUME ~proc[u].gap
       PROVE  /\ \A v \in Users : proc'[v].at # "source"
              /\ IsInjective(more) /\ \A i \in Range(more) : Home(i)' < g + 1
  <2>1. (\A v \in Users : proc[v].at # "source") /\ IsInjective(picked) /\ \A i \in Range(picked) : Home(i) < g
    BY <1>9, <1>12
  <2>2. (\A v \in Users : proc'[v].at # "source") /\ \A i \in Ids : Home(i)' = Home(i)
    BY <1>6, <2>1
  <2>3. ASSUME NEW i \in Range(more)
        PROVE  Home(i)' < g + 1
    <3>1. i \in Ids /\ (i \in Range(picked) \/ Home(i) = g)
      BY <1>8
    <3>2. Home(i)' = Home(i) /\ Home(i) \in Nat
      BY <1>10, <2>2, <3>1
    <3>3. Home(i) < g \/ Home(i) = g
      BY <2>1, <3>1
    <3>4. QED
      BY <1>8, <3>2, <3>3
  <2>4. QED
    BY <1>8, <2>1, <2>2, <2>3
<1>13. QED
  BY <1>4, <1>11, <1>12 DEF Selecting

(* A SELECT begins.                                                         *)
LEMMA SelectStarts ==
  ASSUME MapInv, MapInv', NEW u \in Users, Select(u)
  PROVE  Selecting(u)'
<1>1. HashInv /\ HashInv' /\ Typed
  BY DEF MapInv, FileInv
<1>2. PICK gap, n, p : /\ gap = (\E v \in Users : proc[v].at = "source") /\ n = updCt
                       /\ p = [at |-> "select", group |-> 1, picked |-> <<>>, upd |-> n, bytes |-> 0, gap |-> gap]
  OBVIOUS
<1>3. proc' = [proc EXCEPT ![u] = p] /\ proc[u].at = "idle" /\ UNCHANGED <<modulus, modValue>>
  BY <1>2 DEF Select, Goes
<1>4. p.at = "select" /\ p.group = 1 /\ p.picked = <<>> /\ p.gap = gap
  BY <1>2
<1>5. proc'[u] = p /\ \A v \in Users : v # u => proc'[v] = proc[v]
  BY <1>1, <1>3 DEF HashInv
<1>6. \A i \in Ids : Home(i)' = Home(i)
  BY <1>1, <1>3, <1>4, HomesSame DEF HashInv
<1>7. content' = content
  BY <1>1, QuietMap
<1>8. steady'[u] = {i \in Ids : content[i] # NoRec}
  BY <1>1 DEF Select, Typed
<1>9. \A i \in steady'[u] : content'[i] # NoRec /\ Home(i)' >= 1
  <2>1. \A i \in Ids : Home(i) \in Groups
    BY <1>1, HomePresent
  <2>2. \A g \in Groups : g >= 1
    BY FileConstants DEF Groups
  <2>3. QED
    BY <1>6, <1>7, <1>8, <2>1, <2>2
<1>10. Range(<<>>) = {} /\ IsInjective(<<>>)
  BY DEF Range, IsInjective
<1>11. ~gap => \A v \in Users : proc'[v].at # "source"
  BY <1>2, <1>4, <1>5
<1>12. QED
  BY <1>4, <1>5, <1>9, <1>10, <1>11 DEF Selecting

(* Any step.                                                                *)
LEMMA SelectingStep ==
  ASSUME MapInv, MapInv', NEW u \in Users, Steps(u), NEW s \in Users, Selecting(s)
  PROVE  Selecting(s)'
<1>1. HashInv /\ Typed /\ \E h : Heap(h)
  BY DEF MapInv, FileInv
<1>2. PICK h : Heap(h)
  BY <1>1
<1>3. CASE s = u
  <2>1. CASE proc'[u].at # "select"
    BY <1>3, <2>1 DEF Selecting
  <2>2. CASE proc'[u].at = "select"
    <3>1. Select(u) \/ SelectGroup(u)
      BY <1>1, <1>2, <2>2, Begins
    <3>2. QED
      BY <1>3, <3>1, SelectStarts, SelectGroupKeeps
  <2>3. QED
    BY <2>1, <2>2
<1>4. CASE s # u
  <2>1. proc'[s] = proc[s]
    BY <1>1, <1>4, StepOrderly, OrderlyIs
  <2>2. CASE proc[s].at # "select"
    BY <2>1, <2>2 DEF Selecting
  <2>3. CASE proc[s].at = "select"
    <3>1. /\ \A i \in Ids : Home(i)' \in Nat /\ Home(i) <= Home(i)'
          /\ (\A v \in Users : proc[v].at # "source") =>
               (\A v \in Users : proc'[v].at # "source") /\ \A i \in Ids : Home(i)' = Home(i)
      BY <1>1, <1>2, <2>3, SelectHomes
    <3>2. \A i \in steady'[s] : i \in steady[s] /\ (content[i] # NoRec => content'[i] # NoRec)
      BY <1>4, SteadyStep
    <3>3. proc[s].group \in Nat /\ proc[s].picked \in Seq(Ids) /\ \A i \in Ids : Home(i) \in Nat
      BY <1>1, <2>3, HomePresent DEF Typed, Numbers
    <3>4. ASSUME NEW i \in steady'[s]
          PROVE  content'[i] # NoRec /\ (i \in Range(proc[s].picked) \/ Home(i)' >= proc[s].group)
      <4>1. /\ i \in Ids /\ content[i] # NoRec /\ content'[i] # NoRec
            /\ i \in Range(proc[s].picked) \/ Home(i) >= proc[s].group
        BY <1>1, <2>3, <3>2, <3>4 DEF Selecting, Typed
      <4>2. Home(i)' \in Nat /\ Home(i) <= Home(i)' /\ Home(i) \in Nat
        BY <3>1, <3>3, <4>1
      <4>3. QED
        BY <3>3, <4>1, <4>2
    <3>5. ASSUME ~proc[s].gap
          PROVE  /\ \A v \in Users : proc'[v].at # "source"
                 /\ IsInjective(proc[s].picked) /\ \A i \in Range(proc[s].picked) : Home(i)' < proc[s].group
      <4>1. /\ \A v \in Users : proc[v].at # "source"
            /\ IsInjective(proc[s].picked) /\ \A i \in Range(proc[s].picked) : Home(i) < proc[s].group
        BY <2>3, <3>5 DEF Selecting
      <4>2. \A i \in Range(proc[s].picked) : i \in Ids
        BY <3>3 DEF Range
      <4>3. (\A v \in Users : proc'[v].at # "source") /\ \A i \in Ids : Home(i)' = Home(i)
        BY <3>1, <4>1
      <4>4. \A i \in Range(proc[s].picked) : Home(i)' < proc[s].group
        BY <4>1, <4>2, <4>3
      <4>5. QED
        BY <4>1, <4>3, <4>4
    <3>6. QED
      BY <2>1, <3>4, <3>5 DEF Selecting
  <2>4. QED
    BY <2>2, <2>3
<1>5. QED
  BY <1>3, <1>4
SelectInv == MapInv /\ \A u \in Users : Selecting(u)

LEMMA SelectsDeliver ==
  ASSUME SelectInv, MapInv', Next, NEW u \in Users, Selected(u)
  PROVE  steady[u] \subseteq Range(proc[u].picked) /\ (proc[u].gap \/ IsInjective(proc[u].picked))
<1>1. HashInv /\ Typed /\ \E h : Heap(h)
  BY DEF SelectInv, MapInv, FileInv
<1>2. PICK v \in Users : Steps(v)
  BY NextSteps
<1>3. proc[u].at = "select" /\ proc'[u].at = "idle" /\ Selecting(u)
  BY DEF Selected, SelectInv
<1>4. v = u
  <2>1. v # u => proc'[u] = proc[u]
    BY <1>1, <1>2, StepOrderly, OrderlyIs
  <2>2. QED
    BY <1>3, <2>1
<1>5. ~SelectGroup(u)
  BY <1>1, <1>3, SelectGroupIs
<1>6. SelectEnd(u)
  BY <1>2, <1>3, <1>4, <1>5 DEF Steps, Read, ReadGroup, Write, WriteBig, MoreBig, WriteAfterBig, Delete, Working,
     Dechain, MoveOn, Extend, Adding, Add, GiveAway, NextSource, WriteBlock, Copied, FreeLocks, FreeBig,
     Account, Resize, ResizeOff, SplitStart, SplitSource, MergeStart, Release, Select
<1>7. proc[u].group > modulus
  BY <1>6 DEF SelectEnd
<1>8. proc[u].group \in Nat /\ modulus \in Nat
  BY <1>1, <1>3 DEF Typed, Numbers, HashInv, HeaderInv, HeaderOK
<1>9. ASSUME NEW i \in steady[u]
      PROVE  i \in Range(proc[u].picked)
  <2>1. i \in Ids
    BY <1>1 DEF Typed
  <2>2. Home(i) \in 1 .. modulus
    BY <1>1, <2>1, HomePresent
  <2>3. ~(Home(i) >= proc[u].group)
    BY <1>7, <1>8, <2>2
  <2>4. QED
    BY <1>3, <2>3 DEF Selecting
<1>10. QED
  BY <1>3, <1>9 DEF Selecting

LEMMA SelectInvStep == SelectInv /\ [Next]_vars => SelectInv'
<1> SUFFICES ASSUME SelectInv, [Next]_vars
             PROVE  SelectInv'
  OBVIOUS
<1>1. MapInv'
  BY MapStepInv DEF SelectInv
<1>2. CASE UNCHANGED vars
  <2>1. proc' = proc /\ modulus' = modulus /\ modValue' = modValue /\ steady' = steady
    BY <1>2 DEF vars, header, history
  <2>2. \A i \in Ids : content'[i] = content[i] /\ Home(i)' = Home(i)
    <3>1. PICK h : Heap(h)
      BY DEF SelectInv, MapInv, FileInv
    <3>2. Heap(h)'
      BY <1>2, <3>1, HeapUnchanged
    <3>3. content' = content
      BY <1>1, <2>1, <3>1, <3>2, KeptMap DEF SelectInv
    <3>4. \A i \in Ids : Home(i)' = Home(i)
      BY <2>1 DEF Home, HashGroup
    <3>5. QED
      BY <3>3, <3>4
  <2>3. steady \in [Users -> SUBSET Ids] /\ \A u \in Users : proc[u].at = "select" => proc[u].picked \in Seq(Ids)
    BY DEF SelectInv, MapInv, FileInv, Typed, Numbers
  <2>4. ASSUME NEW u \in Users
        PROVE  Selecting(u)'
    <3>1. Selecting(u)
      BY DEF SelectInv
    <3>2. \A i \in steady[u] : i \in Ids
      BY <2>3
    <3>3. proc[u].at = "select" => \A i \in Range(proc[u].picked) : i \in Ids
      BY <2>3 DEF Range
    <3>4. QED
      BY <2>1, <2>2, <3>1, <3>2, <3>3 DEF Selecting
  <2>5. QED
    BY <1>1, <2>4 DEF SelectInv
<1>3. CASE Next
  <2>1. PICK v \in Users : Steps(v)
    BY <1>3, NextSteps
  <2>2. \A u \in Users : Selecting(u)'
    BY <1>1, <2>1, SelectingStep DEF SelectInv
  <2>3. QED
    BY <1>1, <2>2 DEF SelectInv
<1>4. QED
  BY <1>2, <1>3

LEMMA SelectInit == Init => SelectInv
<1> SUFFICES ASSUME Init
             PROVE  SelectInv
  OBVIOUS
<1>1. \A u \in Users : proc[u].at = "idle"
  BY DEF Init
<1>2. QED
  BY <1>1, MapStarts DEF SelectInv, Selecting

(* A SELECT delivers each record that is in the file from when it begins to *)
(* when it ends, though dh_select reads one group after another while       *)
(* records are written and deleted, and a split that was under way moves    *)
(* them; and it delivers none twice, unless it began between the two locks  *)
(* of a split.                                                              *)
THEOREM SelectsDeliverAll == Spec => SelectDelivers
<1>1. ASSUME SelectInv, MapInv', Next
      PROVE  \A u \in Users : Selected(u) =>
               steady[u] \subseteq Range(proc[u].picked) /\ (proc[u].gap \/ IsInjective(proc[u].picked))
  BY <1>1, SelectsDeliver
<1>2. SelectInv /\ SelectInv' /\ [Next]_vars
        => [\A u \in Users : Selected(u) =>
              /\ steady[u] \subseteq Range(proc[u].picked)
              /\ proc[u].gap \/ IsInjective(proc[u].picked)]_vars
  BY <1>1 DEF SelectInv
<1>3. QED
  BY <1>2, SelectInit, SelectInvStep, PTL DEF Spec, SelectDelivers
-----------------------------------------------------------------------------
(* Sums over a finite set, as the number of elements of a set of pairs: each *)
(* element with the numbers up to its weight.                               *)
Unit == BlockSize + 1
Weight == 0 .. 2 * Unit

Under(S, w) == {x \in S \X (1 .. 2 * Unit) : x[2] <= w[x[1]]}
Total(S, w) == Cardinality(Under(S, w))

LEMMA UnitIs == Unit \in Nat \ {0} /\ 2 * Unit \in Nat /\ Weight \subseteq Nat
BY FileConstants DEF Unit, Weight

LEMMA TotalNat ==
  ASSUME NEW S, IsFiniteSet(S), NEW w
  PROVE  IsFiniteSet(Under(S, w)) /\ Total(S, w) \in Nat
<1>1. PICK N \in Nat : N = 2 * Unit
  BY UnitIs
<1>2. IsFiniteSet(1 .. N)
  BY FS_Interval
<1>3. IsFiniteSet(S \X (1 .. N))
  BY <1>2, FS_Product
<1>4. Under(S, w) \subseteq S \X (1 .. N)
  BY <1>1 DEF Under
<1>5. IsFiniteSet(Under(S, w))
  BY <1>3, <1>4, FS_Subset
<1>6. QED
  BY <1>5, FS_CardinalityType DEF Total

LEMMA TotalSame ==
  ASSUME NEW S, NEW v, NEW w, \A x \in S : v[x] = w[x]
  PROVE  Total(S, v) = Total(S, w)
<1>1. Under(S, v) = Under(S, w)
  BY DEF Under
<1>2. QED
  BY <1>1 DEF Total

LEMMA TotalSum ==
  ASSUME NEW S, IsFiniteSet(S), NEW a, NEW b, NEW c,
         \A x \in S : a[x] \in Weight /\ b[x] \in Weight /\ (a[x] = 0 \/ b[x] = 0) /\ c[x] = a[x] + b[x]
  PROVE  Total(S, c) = Total(S, a) + Total(S, b)
<1>1. PICK N \in Nat : N = 2 * Unit
  BY UnitIs
<1>2. ASSUME NEW x \in S, NEW n \in 1 .. N
      PROVE  (n <= c[x] <=> n <= a[x] \/ n <= b[x]) /\ ~(n <= a[x] /\ n <= b[x])
  <2>0. a[x] \in Nat /\ b[x] \in Nat /\ (a[x] = 0 \/ b[x] = 0) /\ c[x] = a[x] + b[x]
    BY UnitIs
  <2>1. PICK p, q : p = a[x] /\ q = b[x] /\ p \in Int /\ q \in Int /\ (p = 0 \/ q = 0) /\ c[x] = p + q
    BY <2>0
  <2>2. n \in Int /\ n > 0
    OBVIOUS
  <2>3. (n <= p + q <=> n <= p \/ n <= q) /\ ~(n <= p /\ n <= q)
    BY <2>1, <2>2
  <2>4. QED
    BY <2>1, <2>3
<1>3. Under(S, c) = Under(S, a) \cup Under(S, b)
  <2>1. ASSUME NEW x \in S \X (1 .. N)
        PROVE  x[2] <= c[x[1]] <=> x[2] <= a[x[1]] \/ x[2] <= b[x[1]]
    BY <1>2
  <2>2. QED
    BY <1>1, <2>1 DEF Under
<1>4. Under(S, a) \cap Under(S, b) = {}
  <2>1. ASSUME NEW x \in S \X (1 .. N)
        PROVE  ~(x[2] <= a[x[1]] /\ x[2] <= b[x[1]])
    BY <1>2
  <2>2. QED
    BY <1>1, <2>1 DEF Under
<1>5. PICK A, B : A = Under(S, a) /\ B = Under(S, b)
  OBVIOUS
<1>6. IsFiniteSet(A) /\ IsFiniteSet(B) /\ Cardinality(A) \in Nat /\ Cardinality(B) \in Nat
  BY <1>5, TotalNat, FS_CardinalityType
<1>7. Cardinality(A \cup B) = Cardinality(A) + Cardinality(B) - Cardinality(A \cap B)
  BY <1>6, FS_Union
<1>8. Cardinality(A \cap B) = 0
  BY <1>4, <1>5, FS_EmptySet
<1>9. Cardinality(A \cup B) = Cardinality(A) + Cardinality(B)
  BY <1>6, <1>7, <1>8
<1>10. QED
  BY <1>3, <1>5, <1>9 DEF Total

LEMMA TotalNone ==
  ASSUME NEW S, NEW w, \A x \in S : w[x] = 0
  PROVE  Total(S, w) = 0
<1>1. PICK N \in Nat : N = 2 * Unit
  BY UnitIs
<1>2. \A n \in 1 .. N : ~(n <= 0)
  OBVIOUS
<1>3. Under(S, w) = {}
  <2>1. ASSUME NEW x \in S \X (1 .. N)
        PROVE  ~(x[2] <= w[x[1]])
    <3>1. w[x[1]] = 0 /\ x[2] \in 1 .. N
      OBVIOUS
    <3>2. QED
      BY <1>2, <3>1
  <2>2. QED
    BY <1>1, <2>1 DEF Under
<1>4. QED
  BY <1>3, FS_EmptySet DEF Total

LEMMA TotalOne ==
  ASSUME NEW S, IsFiniteSet(S), NEW t \in S, NEW n \in Weight, NEW w, w[t] = n, \A x \in S : x # t => w[x] = 0
  PROVE  Total(S, w) = n
<1>1. PICK N \in Nat : N = 2 * Unit /\ n \in Int /\ n >= 0 /\ n <= N
  BY UnitIs DEF Weight
<1>2. Under(S, w) = {t} \X (1 .. n)
  <2>1. ASSUME NEW x \in S \X (1 .. N)
        PROVE  x[2] <= w[x[1]] <=> x \in {t} \X (1 .. n)
    <3>1. PICK y \in S, k \in 1 .. N : x = <<y, k>>
      OBVIOUS
    <3>2. CASE y = t
      BY <1>1, <3>1, <3>2
    <3>3. CASE y # t
      <4>1. w[y] = 0 /\ ~(k <= 0)
        BY <3>3
      <4>2. QED
        BY <3>1, <3>3, <4>1
    <3>4. QED
      BY <3>2, <3>3
  <2>2. {t} \X (1 .. n) \subseteq S \X (1 .. N)
    <3>1. 1 .. n \subseteq 1 .. N
      BY <1>1
    <3>2. QED
      BY <3>1
  <2>3. QED
    BY <1>1, <2>1, <2>2 DEF Under
<1>3. IsFiniteSet({t}) /\ Cardinality({t}) = 1
  BY FS_Singleton
<1>4. IsFiniteSet(1 .. n) /\ Cardinality(1 .. n) = n
  BY <1>1, FS_Interval
<1>5. Cardinality({t} \X (1 .. n)) = Cardinality({t}) * Cardinality(1 .. n)
  BY <1>3, <1>4, FS_Product
<1>6. QED
  BY <1>1, <1>2, <1>3, <1>4, <1>5 DEF Total

(* One weight is changed.                                                   *)
LEMMA TotalPut ==
  ASSUME NEW S, IsFiniteSet(S), NEW v, NEW w, \A x \in S : v[x] \in Weight /\ w[x] \in Weight,
         NEW t \in S, \A x \in S : x # t => v[x] = w[x]
  PROVE  Total(S, v) - v[t] = Total(S, w) - w[t]
<1>1. PICK r : r = [x \in S |-> IF x = t THEN 0 ELSE w[x]]
  OBVIOUS
<1>2. PICK a, b : a = [x \in S |-> IF x = t THEN v[t] ELSE 0] /\ b = [x \in S |-> IF x = t THEN w[t] ELSE 0]
  OBVIOUS
<1>3. /\ r[t] = 0 /\ a[t] = v[t] /\ b[t] = w[t]
      /\ \A x \in S : x # t => r[x] = w[x] /\ a[x] = 0 /\ b[x] = 0
  BY <1>1, <1>2
<1>4. 0 \in Weight /\ \A n \in Weight : n \in Nat /\ n + 0 = n /\ 0 + n = n
  BY UnitIs DEF Weight
<1>5. Total(S, a) = v[t] /\ Total(S, b) = w[t]
  BY <1>3, TotalOne
<1>6. Total(S, v) = Total(S, r) + Total(S, a)
  <2>1. \A x \in S : r[x] \in Weight /\ a[x] \in Weight /\ (r[x] = 0 \/ a[x] = 0) /\ v[x] = r[x] + a[x]
    BY <1>3, <1>4
  <2>2. QED
    BY <2>1, TotalSum
<1>7. Total(S, w) = Total(S, r) + Total(S, b)
  <2>1. \A x \in S : r[x] \in Weight /\ b[x] \in Weight /\ (r[x] = 0 \/ b[x] = 0) /\ w[x] = r[x] + b[x]
    BY <1>3, <1>4
  <2>2. QED
    BY <2>1, TotalSum
<1>8. Total(S, r) \in Nat /\ v[t] \in Nat /\ w[t] \in Nat
  BY <1>4, TotalNat
<1>9. QED
  BY <1>5, <1>6, <1>7, <1>8

(* What records of different ids weigh together.                            *)
LEMMA SeqTotal ==
  ASSUME NEW s \in Seq(Rec), DistinctIds(s), NEW w, \A i \in Ids : w[i] \in Weight,
         \A i \in Ids : (\A k \in 1 .. Len(s) : s[k].id # i) => w[i] = 0,
         NEW f, f[0] = 0, \A k \in 1 .. Len(s) : f[k] = f[k - 1] + w[s[k].id]
  PROVE  f[Len(s)] = Total(Ids, w)
<1>1. PICK l \in Nat : l = Len(s)
  OBVIOUS
<1>2. \A k \in 1 .. l : s[k].id \in Ids
  <2>1. \A k \in 1 .. l : s[k] \in Rec
    BY <1>1, SomeRecs
  <2>2. QED
    BY <2>1 DEF Rec
<1> DEFINE Upto(m) == [i \in Ids |-> IF \E k \in 1 .. m : s[k].id = i THEN w[i] ELSE 0]
           S == {m \in Nat : m <= l => f[m] = Total(Ids, Upto(m))}
<1>3. IsFiniteSet(Ids) /\ 0 \in Weight /\ \A n \in Weight : n \in Nat
  BY FileConstants, UnitIs DEF Weight
<1>4. 0 \in S
  <2>1. \A i \in Ids : Upto(0)[i] = 0
    OBVIOUS
  <2>2. Total(Ids, Upto(0)) = 0
    <3> HIDE DEF Upto
    <3>1. QED
      BY <2>1, TotalNone
  <2>3. QED
    BY <2>2
<1>5. ASSUME NEW m \in S
      PROVE  m + 1 \in S
  <2>1. SUFFICES ASSUME m + 1 <= l
                 PROVE  f[m + 1] = Total(Ids, Upto(m + 1))
    OBVIOUS
  <2>2. m \in Nat /\ m + 1 \in 1 .. l /\ (m + 1) - 1 = m /\ m <= l
    BY <1>1, <2>1
  <2>3. PICK t \in Ids : t = s[m + 1].id
    BY <1>2, <2>2
  <2>4. \A k \in 1 .. m + 1 : k \in 1 .. m \/ k = m + 1
    BY <2>2
  <2>5. \A k \in 1 .. m : k \in 1 .. m + 1 /\ k \in 1 .. l /\ k # m + 1
    BY <1>1, <2>2
  <2>6. \A k \in 1 .. m : s[k].id # t
    BY <1>1, <2>2, <2>3, <2>5 DEF DistinctIds
  <2>7. Upto(m)[t] = 0 /\ Upto(m + 1)[t] = w[t]
    <3>1. \E k \in 1 .. m + 1 : s[k].id = t
      BY <2>2, <2>3
    <3>2. QED
      BY <2>6, <3>1
  <2>8. \A i \in Ids : i # t => Upto(m + 1)[i] = Upto(m)[i]
    <3>1. \A i \in Ids : i # t => ((\E k \in 1 .. m + 1 : s[k].id = i) <=> \E k \in 1 .. m : s[k].id = i)
      BY <2>3, <2>4, <2>5
    <3>2. QED
      BY <3>1
  <2>9. \A i \in Ids : Upto(m + 1)[i] \in Weight /\ Upto(m)[i] \in Weight
    BY <1>3
  <2>10. PICK a, b : a = Upto(m) /\ b = Upto(m + 1)
    OBVIOUS
  <2>11. Total(Ids, b) - b[t] = Total(Ids, a) - a[t]
    <3>1. (\A i \in Ids : b[i] \in Weight /\ a[i] \in Weight) /\ \A i \in Ids : i # t => b[i] = a[i]
      BY <2>8, <2>9, <2>10
    <3>2. QED
      BY <1>3, <3>1, TotalPut
  <2>12. f[m] = Total(Ids, a) /\ f[m + 1] = f[m] + w[t] /\ a[t] = 0 /\ b[t] = w[t]
    BY <1>1, <2>2, <2>3, <2>7, <2>10
  <2>13. Total(Ids, a) \in Nat /\ Total(Ids, b) \in Nat /\ w[t] \in Nat
    BY <1>3, TotalNat
  <2>14. QED
    BY <2>10, <2>11, <2>12, <2>13
<1>6. \A m \in Nat : m \in S
  <2> HIDE DEF S
  <2>1. QED
    BY <1>4, <1>5, NatSet DEF S
<1>7. f[l] = Total(Ids, Upto(l))
  BY <1>6
<1>8. \A i \in Ids : Upto(l)[i] = w[i]
  BY <1>1
<1>9. Total(Ids, Upto(l)) = Total(Ids, w)
  <2> HIDE DEF Upto
  <2>1. QED
    BY <1>8, TotalSame
<1>10. QED
  BY <1>1, <1>7, <1>9

LEMMA BytesTotal ==
  ASSUME NEW s \in Seq(Rec), DistinctIds(s), NEW w, \A i \in Ids : w[i] \in Weight,
         \A i \in Ids : (\A k \in 1 .. Len(s) : s[k].id # i) => w[i] = 0,
         \A k \in 1 .. Len(s) : w[s[k].id] = Size[s[k].val]
  PROVE  Bytes(s) = Total(Ids, w)
<1>1. PICK f : f = SumOf(s, Len(s))
  OBVIOUS
<1>2. SumFn(s, Len(s), f)
  BY <1>1, SumExists DEF SumOf
<1>3. \A n \in 0 .. Len(s) : f[n] = IF n = 0 THEN 0 ELSE f[n - 1] + Size[s[n].val]
  BY <1>2 DEF SumFn
<1>4. f[0] = 0 /\ \A k \in 1 .. Len(s) : f[k] = f[k - 1] + w[s[k].id]
  <2>1. \A k \in 1 .. Len(s) : k \in 0 .. Len(s) /\ k # 0
    OBVIOUS
  <2>2. 0 \in 0 .. Len(s)
    OBVIOUS
  <2>3. QED
    BY <1>3, <2>1, <2>2
<1>5. f[Len(s)] = Total(Ids, w)
  BY <1>4, SeqTotal
<1>6. QED
  BY <1>1, <1>5, BytesIs

LEMMA LenTotal ==
  ASSUME NEW s \in Seq(Rec), DistinctIds(s), NEW w, \A i \in Ids : w[i] \in Weight,
         \A i \in Ids : (\A k \in 1 .. Len(s) : s[k].id # i) => w[i] = 0,
         \A k \in 1 .. Len(s) : w[s[k].id] = 1
  PROVE  Len(s) = Total(Ids, w)
<1>1. PICK f : f = [n \in 0 .. Len(s) |-> n]
  OBVIOUS
<1>2. PICK l \in Nat : l = Len(s)
  OBVIOUS
<1>3. f[0] = 0 /\ f[l] = l /\ \A k \in 1 .. l : f[k] = f[k - 1] + 1
  BY <1>1, <1>2
<1>4. f[Len(s)] = Total(Ids, w)
  BY <1>2, <1>3, SeqTotal
<1>5. QED
  BY <1>2, <1>3, <1>4

-----------------------------------------------------------------------------
(* The records of all groups, one group after the other.                    *)
FlatFn(ss, m, f) == f = [i \in 1 .. m |-> IF i = 1 THEN ss[i] ELSE f[i - 1] \o ss[i]]

FlatOf(ss, m) == CHOOSE f : FlatFn(ss, m, f)

LEMMA FlattenIs ==
  ASSUME NEW ss, Len(ss) # 0
  PROVE  FlattenSeq(ss) = FlatOf(ss, Len(ss))[Len(ss)]
BY DEF FlattenSeq, FlatOf, FlatFn

LEMMA FlatExists ==
  ASSUME NEW ss
  PROVE  \A m \in Nat : \E f : FlatFn(ss, m, f)
<1> DEFINE S == {m \in Nat : \E f : FlatFn(ss, m, f)}
<1>1. 0 \in S
  <2> DEFINE f == [n \in 1 .. 0 |-> <<>>]
  <2>1. \A n \in 1 .. 0 : FALSE
    OBVIOUS
  <2>2. f = [i \in 1 .. 0 |-> IF i = 1 THEN ss[i] ELSE f[i - 1] \o ss[i]]
    BY <2>1
  <2>3. QED
    BY <2>2 DEF FlatFn
<1>2. ASSUME NEW m \in S
      PROVE  m + 1 \in S
  <2>1. PICK f : FlatFn(ss, m, f)
    OBVIOUS
  <2> DEFINE h == [i \in 1 .. m + 1 |-> IF i = 1 THEN ss[i] ELSE f[i - 1] \o ss[i]]
  <2>2. \A n \in 1 .. m : h[n] = f[n]
    <3>1. \A n \in 1 .. m : f[n] = IF n = 1 THEN ss[n] ELSE f[n - 1] \o ss[n]
      BY <2>1 DEF FlatFn
    <3>2. \A n \in 1 .. m : n \in 1 .. m + 1
      OBVIOUS
    <3>3. QED
      BY <3>1, <3>2
  <2>3. \A n \in 1 .. m + 1 : n # 1 => n - 1 \in 1 .. m
    OBVIOUS
  <2>4. \A n \in 1 .. m + 1 : h[n] = IF n = 1 THEN ss[n] ELSE h[n - 1] \o ss[n]
    BY <2>2, <2>3
  <2>5. FlatFn(ss, m + 1, h)
    BY <2>4 DEF FlatFn
  <2>6. QED
    BY <2>5
<1> HIDE DEF S
<1>3. \A m \in Nat : m \in S
  BY <1>1, <1>2, NatSet DEF S
<1>4. QED
  BY <1>3 DEF S

LEMMA FlattenRecs ==
  ASSUME NEW n \in Nat \ {0}, NEW ss, ss = [g \in 1 .. n |-> ss[g]],
         \A g \in 1 .. n : ss[g] \in Seq(Rec) /\ DistinctIds(ss[g]),
         \A a, b \in 1 .. n : \A r \in RecsIn(ss[a]), q \in RecsIn(ss[b]) : r.id = q.id => a = b
  PROVE  /\ FlattenSeq(ss) \in Seq(Rec) /\ DistinctIds(FlattenSeq(ss))
         /\ RecsIn(FlattenSeq(ss)) = UNION {RecsIn(ss[g]) : g \in 1 .. n}
<1>1. Len(ss) = n
  OBVIOUS
<1>2. PICK f : f = FlatOf(ss, n)
  OBVIOUS
<1>3. FlatFn(ss, n, f)
  BY <1>2, FlatExists DEF FlatOf
<1>4. \A m \in 1 .. n : f[m] = IF m = 1 THEN ss[m] ELSE f[m - 1] \o ss[m]
  BY <1>3 DEF FlatFn
<1> DEFINE Good(m) == /\ f[m] \in Seq(Rec) /\ DistinctIds(f[m])
                      /\ RecsIn(f[m]) = UNION {RecsIn(ss[g]) : g \in 1 .. m}
           S == {m \in Nat : m + 1 <= n => Good(m + 1)}
<1>5. 0 \in S
  <2>1. f[1] = ss[1] /\ 1 .. 1 = {1} /\ 1 \in 1 .. n
    BY <1>4
  <2>2. QED
    BY <2>1
<1>6. ASSUME NEW m \in S
      PROVE  m + 1 \in S
  <2>1. SUFFICES ASSUME m + 2 <= n
                 PROVE  Good(m + 2)
    BY <1>6
  <2>2. m \in Nat /\ m + 1 \in 1 .. n /\ m + 2 \in 1 .. n /\ m + 2 # 1 /\ (m + 2) - 1 = m + 1
    BY <2>1
  <2>3. Good(m + 1)
    BY <2>2
  <2>4. PICK s, t : s = f[m + 1] /\ t = ss[m + 2]
    OBVIOUS
  <2>5. f[m + 2] = s \o t
    BY <1>4, <2>2, <2>4
  <2>6. s \in Seq(Rec) /\ t \in Seq(Rec) /\ DistinctIds(s) /\ DistinctIds(t)
    BY <2>2, <2>3, <2>4
  <2>7. ASSUME NEW r \in RecsIn(s), NEW q \in RecsIn(t)
        PROVE  r.id # q.id
    <3>1. PICK g \in 1 .. m + 1 : r \in RecsIn(ss[g])
      BY <2>3, <2>4
    <3>2. g \in 1 .. n /\ g # m + 2
      BY <2>2
    <3>3. QED
      BY <2>2, <2>4, <3>1, <3>2
  <2>8. s \o t \in Seq(Rec) /\ RecsIn(s \o t) = RecsIn(s) \cup RecsIn(t)
    BY <2>6, RecsCat
  <2>9. DistinctIds(s \o t)
    BY <2>6, <2>7, RecsCat
  <2>10. 1 .. m + 2 = (1 .. m + 1) \cup {m + 2}
    BY <2>2
  <2>11. RecsIn(s) = UNION {RecsIn(ss[g]) : g \in 1 .. m + 1}
    BY <2>3, <2>4
  <2>12. RecsIn(s \o t) = UNION {RecsIn(ss[g]) : g \in 1 .. m + 2}
    <3>1. PICK A, B : A = 1 .. m + 1 /\ B = 1 .. m + 2 /\ B = A \cup {m + 2}
      BY <2>10
    <3>2. UNION {RecsIn(ss[g]) : g \in B} = (UNION {RecsIn(ss[g]) : g \in A}) \cup RecsIn(ss[m + 2])
      <4>1. PICK X, Y, Z : /\ X = UNION {RecsIn(ss[g]) : g \in B} /\ Y = UNION {RecsIn(ss[g]) : g \in A}
                           /\ Z = RecsIn(ss[m + 2])
        OBVIOUS
      <4>2. \A r : r \in X <=> \E g \in B : r \in RecsIn(ss[g])
        BY <4>1
      <4>3. \A r : r \in Y <=> \E g \in A : r \in RecsIn(ss[g])
        BY <4>1
      <4>4. \A r : r \in X <=> r \in Y \/ r \in Z
        BY <3>1, <4>1, <4>2, <4>3
      <4>5. X = Y \cup Z
        BY <4>4
      <4>6. QED
        BY <4>1, <4>5, Zenon
    <3>3. QED
      BY <2>4, <2>8, <2>11, <3>1, <3>2
  <2>13. QED
    BY <2>5, <2>8, <2>9, <2>12
<1> HIDE DEF S
<1>7. \A m \in Nat : m \in S
  BY <1>5, <1>6, NatSet DEF S
<1>8. Good(n)
  <2>1. n - 1 \in Nat /\ (n - 1) + 1 = n /\ n <= n
    OBVIOUS
  <2>2. QED
    BY <1>7, <2>1 DEF S
<1>9. QED
  BY <1>1, <1>2, <1>8, FlattenIs

-----------------------------------------------------------------------------
(* The record with id i once those who are rewriting groups are through,    *)
(* and what it counts.                                                      *)
Due(i) ==
  IF Rewriting(i) = {} THEN content[i] ELSE Promised(proc[CHOOSE u \in Rewriting(i) : TRUE], i)

ByteWt(v) == IF v = NoRec THEN 0 ELSE Size[v]
RecWt(v) == IF v = NoRec THEN 0 ELSE 1

DueBytes(C) == Total(Ids, [i \in Ids |-> IF i \in C THEN ByteWt(Due(i)) ELSE 0])
DueRecs(C) == Total(Ids, [i \in Ids |-> IF i \in C THEN RecWt(Due(i)) ELSE 0])

LEMMA DueIs ==
  ASSUME MapInv, NEW h, Heap(h), NEW i \in Ids
  PROVE  Due(i) = ValIn(h.kept[i])
<1>1. HashInv /\ block \in [Place -> Block] /\ \A v \in Users : ReadsOnly(v)
  BY DEF MapInv, FileInv, Typed
<1>2. CASE Rewriting(i) = {}
  BY <1>1, <1>2, ContentFree DEF Due
<1>3. CASE Rewriting(i) # {}
  <2>1. PICK u : u = (CHOOSE v \in Rewriting(i) : TRUE)
    OBVIOUS
  <2>2. u \in Rewriting(i)
    BY <1>3, <2>1
  <2>3. u \in Users /\ proc[u].at = "rewrite" /\ i \in DOMAIN proc[u].was
    BY <2>2 DEF Rewriting
  <2>4. HeldOK(u, h)
    BY <2>3 DEF Heap
  <2>5. ValIn(h.kept[i]) = Promised(proc[u], i)
    BY <2>3, <2>4 DEF HeldOK
  <2>6. QED
    BY <1>3, <2>1, <2>5 DEF Due
<1>4. QED
  BY <1>2, <1>3

LEMMA WtIs ==
  /\ \A v \in Vals : ByteWt(v) = Size[v] /\ RecWt(v) = 1
  /\ ByteWt(NoRec) = 0 /\ RecWt(NoRec) = 0
  /\ \A v \in Vals \cup {NoRec} : ByteWt(v) \in 0 .. Unit /\ RecWt(v) \in 0 .. Unit
  /\ 0 .. Unit \subseteq Weight /\ 0 \in Weight
<1>1. \A v \in Vals : v # NoRec /\ Size[v] \in 1 .. BlockSize
  BY FileConstants
<1>2. BlockSize \in Nat /\ Unit = BlockSize + 1
  BY FileConstants DEF Unit
<1>3. (\A v \in Vals : ByteWt(v) = Size[v] /\ RecWt(v) = 1) /\ ByteWt(NoRec) = 0 /\ RecWt(NoRec) = 0
  BY <1>1 DEF ByteWt, RecWt
<1>4. \A v \in Vals : ByteWt(v) \in 0 .. Unit /\ RecWt(v) \in 0 .. Unit
  BY <1>1, <1>2, <1>3
<1>5. 0 \in 0 .. Unit /\ 0 .. Unit \subseteq Weight /\ 0 \in Weight
  BY <1>2 DEF Weight
<1>6. QED
  BY <1>3, <1>4, <1>5

LEMMA DueWt ==
  ASSUME MapInv, NEW h, Heap(h), NEW i \in Ids
  PROVE  /\ Due(i) \in Vals \cup {NoRec} /\ (h.kept[i] = {} => Due(i) = NoRec)
         /\ \A r : h.kept[i] = {r} => r \in Rec /\ Due(i) = r.val /\ r.val \in Vals
         /\ ByteWt(Due(i)) \in 0 .. Unit /\ RecWt(Due(i)) \in 0 .. Unit
<1>1. Due(i) = ValIn(h.kept[i])
  BY DueIs
<1>2. h.kept[i] # {} => \E r \in Rec : h.kept[i] = {r}
  BY DEF Heap, IdOK
<1>3. \A r : h.kept[i] = {r} => r \in Rec /\ Due(i) = r.val /\ r.val \in Vals
  <2>1. ASSUME NEW r, h.kept[i] = {r}
        PROVE  r \in Rec /\ Due(i) = r.val /\ r.val \in Vals
    <3>1. r \in Rec
      BY <1>2, <2>1
    <3>2. ValIn({r}) = r.val
      BY DEF ValIn
    <3>3. QED
      BY <1>1, <2>1, <3>1, <3>2 DEF Rec
  <2>2. QED
    BY <2>1
<1>4. h.kept[i] = {} => Due(i) = NoRec
  BY <1>1 DEF ValIn
<1>5. Due(i) \in Vals \cup {NoRec}
  BY <1>2, <1>3, <1>4
<1>6. QED
  BY <1>3, <1>4, <1>5, WtIs

(* The records of a group or more, all there are of some ids.               *)
LEMMA SeqCounts ==
  ASSUME MapInv, NEW h, Heap(h), NEW s \in Seq(Rec), DistinctIds(s), \A r \in RecsIn(s) : h.kept[r.id] = {r},
         NEW C, \A k \in 1 .. Len(s) : s[k].id \in C,
         \A i \in Ids : i \in C /\ h.kept[i] # {} => \E k \in 1 .. Len(s) : s[k].id = i
  PROVE  Bytes(s) = DueBytes(C) /\ Len(s) = DueRecs(C)
<1>1. PICK v, w : /\ v = [i \in Ids |-> IF i \in C THEN ByteWt(Due(i)) ELSE 0]
                  /\ w = [i \in Ids |-> IF i \in C THEN RecWt(Due(i)) ELSE 0]
  OBVIOUS
<1>2. \A i \in Ids : v[i] \in Weight /\ w[i] \in Weight
  <2>1. ASSUME NEW i \in Ids
        PROVE  ByteWt(Due(i)) \in Weight /\ RecWt(Due(i)) \in Weight
    BY DueWt, WtIs
  <2>2. QED
    BY <1>1, <2>1, WtIs
<1>3. ASSUME NEW i \in Ids, \A k \in 1 .. Len(s) : s[k].id # i
      PROVE  v[i] = 0 /\ w[i] = 0
  <2>1. CASE i \notin C
    BY <1>1, <2>1
  <2>2. CASE i \in C
    <3>1. h.kept[i] = {}
      BY <1>3, <2>2
    <3>2. Due(i) = NoRec
      BY <3>1, DueWt
    <3>3. QED
      BY <1>1, <2>2, <3>2, WtIs
  <2>3. QED
    BY <2>1, <2>2
<1>4. ASSUME NEW k \in 1 .. Len(s)
      PROVE  v[s[k].id] = Size[s[k].val] /\ w[s[k].id] = 1
  <2>1. PICK r : r = s[k] /\ r \in RecsIn(s) /\ r \in Rec
    BY SomeRecs
  <2>2. PICK i \in Ids : i = r.id
    BY <2>1 DEF Rec
  <2>3. i \in C /\ h.kept[i] = {r}
    BY <2>1, <2>2
  <2>4. Due(i) = r.val /\ r.val \in Vals
    BY <2>3, DueWt
  <2>5. v[i] = ByteWt(r.val) /\ w[i] = RecWt(r.val)
    BY <1>1, <2>3, <2>4
  <2>6. QED
    BY <2>1, <2>2, <2>4, <2>5, WtIs
<1>5. Bytes(s) = Total(Ids, v)
  BY <1>2, <1>3, <1>4, BytesTotal
<1>6. Len(s) = Total(Ids, w)
  BY <1>2, <1>3, <1>4, LenTotal
<1>7. QED
  BY <1>1, <1>5, <1>6 DEF DueBytes, DueRecs

LEMMA GroupCounts ==
  ASSUME MapInv, NEW g \in Groups, ~WriteLocked(g), NEW s, s = GroupRecs(block, g)
  PROVE  Bytes(s) = DueBytes({i \in Ids : Home(i) = g}) /\ Len(s) = DueRecs({i \in Ids : Home(i) = g})
<1>1. HashInv /\ block \in [Place -> Block] /\ \E h : Heap(h)
  BY DEF MapInv, FileInv, Typed
<1>2. PICK h : Heap(h)
  BY <1>1
<1>3. s \in Seq(Rec) /\ DistinctIds(s) /\ \A r \in RecsIn(s) : h.kept[r.id] = {r}
  BY <1>1, <1>2, GroupRead
<1>4. PICK C : C = {i \in Ids : Home(i) = g}
  OBVIOUS
<1>5. ASSUME NEW k \in 1 .. Len(s)
      PROVE  s[k].id \in C
  <2>1. PICK r : r = s[k]
    OBVIOUS
  <2>2. r.id \in Ids /\ Home(r.id) = g
    BY <1>1, <1>2, <2>1, RecAtHome
  <2>3. QED
    BY <1>4, <2>1, <2>2
<1>6. ASSUME NEW i \in Ids, i \in C, h.kept[i] # {}
      PROVE  \E k \in 1 .. Len(s) : s[k].id = i
  BY <1>1, <1>2, <1>4, <1>6, RecordSeen
<1>7. Bytes(s) = DueBytes(C) /\ Len(s) = DueRecs(C)
  BY <1>2, <1>3, <1>5, <1>6, SeqCounts
<1>8. QED
  BY <1>4, <1>7

LEMMA QuietCounts ==
  ASSUME MapInv, Quiet
  PROVE  Bytes(AllRecs) = DueBytes(Ids) /\ Len(AllRecs) = DueRecs(Ids)
<1>1. HashInv /\ block \in [Place -> Block] /\ \E h : Heap(h)
  BY DEF MapInv, FileInv, Typed
<1>2. PICK h : Heap(h)
  BY <1>1
<1>3. PICK n, ss : n = modulus /\ ss = [g \in 1 .. n |-> GroupRecs(block, g)]
  OBVIOUS
<1>4. n \in Nat \ {0} /\ \A g \in 1 .. n : g \in Groups
  BY <1>1, <1>3, FileConstants DEF HashInv, HeaderInv, HeaderOK, Groups
<1>5. \A g \in 1 .. n : ss[g] = GroupRecs(block, g) /\ ~WriteLocked(g)
  BY <1>1, <1>3, QuietHands
<1>6. ASSUME NEW g \in 1 .. n
      PROVE  /\ ss[g] \in Seq(Rec) /\ DistinctIds(ss[g])
             /\ \A r \in RecsIn(ss[g]) : r.id \in Ids /\ h.kept[r.id] = {r} /\ Home(r.id) = g
  <2>1. PICK s : s = GroupRecs(block, g)
    OBVIOUS
  <2>2. g \in Groups /\ ~WriteLocked(g)
    BY <1>4, <1>5
  <2>3. s \in Seq(Rec) /\ DistinctIds(s) /\ \A r \in RecsIn(s) : h.kept[r.id] = {r}
    BY <1>1, <1>2, <2>1, <2>2, GroupRead
  <2>4. ASSUME NEW k \in 1 .. Len(s)
        PROVE  s[k].id \in Ids /\ Home(s[k].id) = g
    <3>1. PICK r : r = s[k]
      OBVIOUS
    <3>2. r.id \in Ids /\ Home(r.id) = g
      BY <1>1, <1>2, <2>1, <2>2, <3>1, RecAtHome
    <3>3. QED
      BY <3>1, <3>2
  <2>5. \A r \in RecsIn(s) : r.id \in Ids /\ h.kept[r.id] = {r} /\ Home(r.id) = g
    BY <2>3, <2>4 DEF RecsIn
  <2>6. QED
    BY <1>5, <2>1, <2>3, <2>5
<1>7. PICK s : s = FlattenSeq(ss)
  OBVIOUS
<1>8. s \in Seq(Rec) /\ DistinctIds(s) /\ RecsIn(s) = UNION {RecsIn(ss[g]) : g \in 1 .. n}
  <2>1. ss = [g \in 1 .. n |-> ss[g]]
    BY <1>3
  <2>2. \A a, b \in 1 .. n : \A r \in RecsIn(ss[a]), q \in RecsIn(ss[b]) : r.id = q.id => a = b
    BY <1>6
  <2>3. \A g \in 1 .. n : ss[g] \in Seq(Rec) /\ DistinctIds(ss[g])
    BY <1>6
  <2>4. QED
    BY <1>4, <1>7, <2>1, <2>2, <2>3, FlattenRecs
<1>9. \A r \in RecsIn(s) : r.id \in Ids /\ h.kept[r.id] = {r}
  BY <1>6, <1>8
<1>10. \A k \in 1 .. Len(s) : s[k].id \in Ids
  BY <1>8, <1>9, SomeRecs
<1>11. ASSUME NEW i \in Ids, h.kept[i] # {}
       PROVE  \E k \in 1 .. Len(s) : s[k].id = i
  <2>1. PICK g \in 1 .. n : g = Home(i)
    BY <1>1, <1>3, HomePresent
  <2>2. PICK t : t = ss[g]
    OBVIOUS
  <2>3. \E k \in 1 .. Len(t) : t[k].id = i
    BY <1>1, <1>2, <1>4, <1>5, <1>11, <2>1, <2>2, RecordSeen
  <2>4. PICK r \in RecsIn(t) : r.id = i
    BY <2>3 DEF RecsIn
  <2>5. r \in RecsIn(s)
    BY <1>8, <2>2
  <2>6. QED
    BY <2>4, <2>5 DEF RecsIn
<1>12. Bytes(s) = DueBytes(Ids) /\ Len(s) = DueRecs(Ids)
  BY <1>2, <1>8, <1>9, <1>10, <1>11, SeqCounts
<1>13. s = AllRecs
  BY <1>3, <1>7 DEF AllRecs
<1>14. QED
  BY <1>12, <1>13

-----------------------------------------------------------------------------
(* What is due changes when a session locks a group to write or delete a    *)
(* record of it, and at no other step.                                      *)
Dues == \A h : Heap(h) => \A i \in Ids : Due(i) = ValIn(h.kept[i])

LEMMA MapDues == MapInv => Dues
BY DueIs DEF Dues

LEMMA DuesNext ==
  ASSUME Dues', NEW h, Heap(h)', NEW i \in Ids
  PROVE  Due(i)' = ValIn(h.kept[i])
BY DEF Dues

LEMMA DueKept ==
  ASSUME MapInv, MapInv', NEW u \in Users, Steps(u), ~Write(u), ~WriteAfterBig(u), ~Delete(u)
  PROVE  \A i \in Ids : Due(i)' = Due(i)
<1>0. Dues /\ Dues'
  BY MapDues, PTL
<1>1. HashInv /\ block \in [Place -> Block] /\ \E h : Heap(h)
  BY DEF MapInv, FileInv, Typed
<1>2. PICK h : Heap(h)
  BY <1>1
<1>3. \E k : Heap(k)' /\ k.kept = h.kept
  <2>1. CASE \/ Read(u) \/ ReadGroup(u) \/ Account(u) \/ Resize(u) \/ ResizeOff(u) \/ Release(u)
             \/ Select(u) \/ SelectGroup(u) \/ SelectEnd(u)
    BY <1>1, <1>2, <2>1, FrameHeap
  <2>2. CASE WriteBig(u) \/ MoreBig(u) \/ Working(u) \/ FreeBig(u)
    BY <1>1, <1>2, <2>2, WriteBigHeap, MoreBigHeap, WorkingHeap, FreeBigHeap
  <2>3. CASE FreeLocks(u) \/ SplitStart(u)
    BY <1>1, <1>2, <2>3, FreeLocksHeap, SplitStartHeap
  <2>4. CASE SplitSource(u) \/ MergeStart(u)
    BY <1>1, <1>2, <2>4, SplitSourceHeap, MergeStartHeap
  <2>5. QED
    BY <2>1, <2>2, <2>3, <2>4 DEF Steps
<1>4. PICK k : Heap(k)' /\ k.kept = h.kept
  BY <1>3
<1>5. ASSUME NEW i \in Ids
      PROVE  Due(i)' = Due(i)
  <2>1. Due(i) = ValIn(h.kept[i])
    BY <1>0, <1>2 DEF Dues
  <2>2. Due(i)' = ValIn(k.kept[i])
    BY <1>0, <1>4, DuesNext
  <2>3. QED
    BY <1>4, <2>1, <2>2
<1>6. QED
  BY <1>5

LEMMA DuePut ==
  ASSUME MapInv, MapInv', NEW h, Heap(h), NEW k, Heap(k)', NEW i \in Ids, NEW new,
         k.kept = [h.kept EXCEPT ![i] = new]
  PROVE  Due(i)' = ValIn(new) /\ \A j \in Ids : j # i => Due(j)' = Due(j)
<1>0. Dues /\ Dues'
  BY MapDues, PTL
<1>1. h.kept \in [Ids -> SUBSET Rec]
  BY DEF Heap
<1>2. k.kept[i] = new /\ \A j \in Ids : j # i => k.kept[j] = h.kept[j]
  BY <1>1
<1>3. ASSUME NEW j \in Ids
      PROVE  Due(j) = ValIn(h.kept[j]) /\ Due(j)' = ValIn(k.kept[j])
  <2>1. Due(j) = ValIn(h.kept[j])
    BY <1>0 DEF Dues
  <2>2. Due(j)' = ValIn(k.kept[j])
    BY <1>0, DuesNext
  <2>3. QED
    BY <2>1, <2>2
<1>4. Due(i)' = ValIn(new)
  BY <1>2, <1>3
<1>5. \A j \in Ids : j # i => Due(j)' = Due(j)
  BY <1>2, <1>3
<1>6. QED
  BY <1>4, <1>5

(* What a session that has the group of an id locked finds of it.           *)
LEMMA OldCounts ==
  ASSUME MapInv, NEW h, Heap(h), NEW i \in Ids, CanLock(HashGroup(i), TRUE), NEW old, old = OldRec(i)
  PROVE  /\ OldSize(old) = ByteWt(Due(i)) /\ Cardinality(old) = RecWt(Due(i))
         /\ (IF old = {} THEN 1 ELSE 0) = 1 - RecWt(Due(i))
<1>1. HashInv /\ block \in [Place -> Block]
  BY DEF MapInv, FileInv, Typed
<1>2. PICK g : g = HashGroup(i)
  OBVIOUS
<1>3. Home(i) = g /\ g \in Groups /\ ~WriteLocked(g)
  <2>1. Home(i) = g
    BY <1>1, <1>2, HomeUnlocked
  <2>2. ~WriteLocked(g)
    BY <1>2 DEF CanLock, WriteLocked, MyLock
  <2>3. QED
    BY <1>1, <2>1, <2>2, HomePresent
<1>4. old = h.kept[i]
  BY <1>1, <1>2, <1>3, FoundKept DEF OldRec
<1>5. CASE old = {}
  <2>1. Due(i) = NoRec
    BY <1>4, <1>5, DueWt
  <2>2. ByteWt(Due(i)) = 0 /\ RecWt(Due(i)) = 0
    BY <2>1, WtIs
  <2>3. OldSize(old) = 0 /\ Cardinality(old) = 0
    BY <1>5, FS_EmptySet DEF OldSize
  <2>4. QED
    BY <1>5, <2>2, <2>3
<1>6. CASE old # {}
  <2>1. PICK r \in Rec : old = {r}
    BY <1>4, <1>6 DEF Heap, IdOK
  <2>2. Due(i) = r.val /\ r.val \in Vals
    BY <1>4, <2>1, DueWt
  <2>3. ByteWt(Due(i)) = Size[r.val] /\ RecWt(Due(i)) = 1
    BY <2>2, WtIs
  <2>4. OldSize(old) = Size[r.val] /\ Cardinality(old) = 1
    BY <2>1, FS_Singleton DEF OldSize
  <2>5. QED
    BY <1>6, <2>3, <2>4
<1>7. QED
  BY <1>5, <1>6

-----------------------------------------------------------------------------
(* What a session has yet to adjust the counts by.                          *)
Bill(p) == IF p.at = "rewrite" THEN p.then ELSE p
Owes(p) == Bill(p).at \in {"tidy", "account"}
OwedBytes(p) == IF Owes(p) THEN Bill(p).bytes ELSE 0
OwedRecs(p) == IF Owes(p) THEN Bill(p).recs ELSE 0

LEMMA OwesNothing ==
  ASSUME NEW p, p.at \notin {"rewrite", "tidy", "account"} \/ (p.at = "rewrite" /\ p.then.at = "release")
  PROVE  OwedBytes(p) = 0 /\ OwedRecs(p) = 0
BY DEF OwedBytes, OwedRecs, Owes, Bill

LEMMA OwesBill ==
  ASSUME NEW p, NEW o, NEW b, NEW n,
         \/ p.at = "rewrite" /\ p.then = [at |-> "tidy", big |-> o, bytes |-> b, recs |-> n]
         \/ p = [at |-> "tidy", big |-> o, bytes |-> b, recs |-> n]
         \/ p = [at |-> "account", big |-> o, bytes |-> b, recs |-> n]
  PROVE  OwedBytes(p) = b /\ OwedRecs(p) = n
BY DEF OwedBytes, OwedRecs, Owes, Bill

LEMMA OwedKept ==
  ASSUME MapInv, NEW u \in Users, Steps(u), ~Write(u), ~WriteAfterBig(u), ~Delete(u), ~Account(u)
  PROVE  OwedBytes(proc'[u]) = OwedBytes(proc[u]) /\ OwedRecs(proc'[u]) = OwedRecs(proc[u])
<1>1. HashInv /\ \E h : Heap(h)
  BY DEF MapInv, FileInv
<1>2. PICK h : Heap(h)
  BY <1>1
<1>3. Shape(proc[u]) /\ \A x : Goes(u, x) => proc'[u] = x
  BY <1>1 DEF HashInv, SessionOK, Goes
<1>4. CASE Working(u)
  <2>1. PICK job : Works(u, job)
    BY <1>4, WorkingIs
  <2>2. proc[u].at = "rewrite" /\ proc'[u].at = "rewrite" /\ proc'[u].then = proc[u].then
    BY <1>1, <1>2, <1>4, <2>1, WorkIs
  <2>3. QED
    BY <2>2 DEF OwedBytes, OwedRecs, Owes, Bill
<1>5. CASE FreeLocks(u)
  <2>1. proc'[u] = proc[u].then /\ proc[u].at = "rewrite"
    BY <1>3, <1>5 DEF FreeLocks
  <2>2. proc[u].then.at # "rewrite"
    BY <1>3, <2>1 DEF Shape
  <2>3. QED
    BY <2>1, <2>2 DEF OwedBytes, OwedRecs, Owes, Bill
<1>6. CASE FreeBig(u)
  <2>1. proc[u].at = "tidy" /\ proc'[u] = [proc[u] EXCEPT !.at = "account"]
    BY <1>3, <1>6 DEF FreeBig
  <2>2. PICK o, b, n : proc[u] = [at |-> "tidy", big |-> o, bytes |-> b, recs |-> n]
    BY <1>3, <2>1 DEF Shape, Tidying
  <2>3. proc'[u] = [at |-> "account", big |-> o, bytes |-> b, recs |-> n]
    BY <2>1, <2>2
  <2>4. QED
    BY <2>2, <2>3, OwesBill
<1>7. CASE ~Working(u) /\ ~FreeLocks(u) /\ ~FreeBig(u)
  <2>1. proc[u].at \notin {"rewrite", "tidy", "account"}
    BY <1>7 DEF Steps, Read, ReadGroup, WriteBig, MoreBig, Resize, ResizeOff, SplitStart, SplitSource, MergeStart,
       Release, Select, SelectGroup, SelectEnd
  <2>2. proc'[u].at \notin {"rewrite", "tidy", "account"} \/ (proc'[u].at = "rewrite" /\ proc'[u].then.at = "release")
    <3>1. CASE SplitSource(u) \/ MergeStart(u)
      <4>1. PICK w, j, x : /\ Goes(u, [at |-> "rewrite", was |-> w, put |-> {}, then |-> x, job |-> j])
                           /\ x = [at |-> "release"]
        BY <3>1 DEF SplitSource, MergeStart, Rewrite
      <4>2. proc'[u] = [at |-> "rewrite", was |-> w, put |-> {}, then |-> x, job |-> j]
        BY <1>3, <4>1
      <4>3. QED
        BY <4>1, <4>2
    <3>2. CASE WriteBig(u) \/ MoreBig(u)
      <4>1. PICK r, o, n : Goes(u, BigDone(r, o, n))
        BY <3>2 DEF WriteBig, MoreBig
      <4>2. proc'[u] = BigDone(r, o, n)
        BY <1>3, <4>1
      <4>3. proc'[u].at \in {"big", "write"}
        BY <4>2 DEF BigDone
      <4>4. QED
        BY <4>3
    <3>3. CASE SelectGroup(u)
      BY <1>1, <3>3, SelectGroupIs
    <3>4. CASE Select(u)
      <4>1. PICK n, gap, none : Goes(u, [at |-> "select", group |-> 1, picked |-> none, upd |-> n, bytes |-> 0, gap |-> gap])
        BY <3>4 DEF Select
      <4>2. proc'[u] = [at |-> "select", group |-> 1, picked |-> none, upd |-> n, bytes |-> 0, gap |-> gap]
        BY <1>3, <4>1
      <4>3. QED
        BY <4>2
    <3>5. CASE Read(u)
      <4>1. PICK i \in Ids : Goes(u, [at |-> "read", id |-> i, group |-> HashGroup(i)])
        BY <3>5 DEF Read
      <4>2. proc'[u] = [at |-> "read", id |-> i, group |-> HashGroup(i)]
        BY <1>3, <4>1
      <4>3. QED
        BY <4>2
    <3>6. CASE SplitStart(u)
      <4>1. PICK n, g : Goes(u, [at |-> "source", new |-> n, group |-> g])
        BY <3>6 DEF SplitStart
      <4>2. proc'[u] = [at |-> "source", new |-> n, group |-> g]
        BY <1>3, <4>1
      <4>3. QED
        BY <4>2
    <3>7. CASE ReadGroup(u) \/ Resize(u) \/ ResizeOff(u) \/ Release(u) \/ SelectEnd(u)
      <4>1. PICK to \in {"idle", "split", "merge"} : Goes(u, [at |-> to])
        BY <3>7 DEF ReadGroup, Resize, ResizeOff, Release, SelectEnd
      <4>2. proc'[u] = [at |-> to]
        BY <1>3, <4>1
      <4>3. QED
        BY <4>2
    <3>8. QED
      BY <1>7, <3>1, <3>2, <3>3, <3>4, <3>5, <3>6, <3>7 DEF Steps
  <2>3. QED
    BY <2>1, <2>2, OwesNothing
<1>8. QED
  BY <1>4, <1>5, <1>6, <1>7

(* A session that locks the group of an id owes the counts what it is to    *)
(* change of the record.                                                    *)
LockedFor(u) ==
  \E i \in Ids, v \in Vals \cup {NoRec} :
    /\ Due(i)' = v /\ \A j \in Ids : j # i => Due(j)' = Due(j)
    /\ OwedBytes(proc'[u]) = ByteWt(v) - ByteWt(Due(i))
    /\ OwedRecs(proc'[u]) = RecWt(v) - RecWt(Due(i))
    /\ OwedBytes(proc[u]) = 0 /\ OwedRecs(proc[u]) = 0

LEMMA WriteOwes ==
  ASSUME MapInv, MapInv', NEW u \in Users, NEW h, Heap(h), Orderly(u), NEW r \in Rec, LockToWrite(u, r),
         proc[u].at \in {"idle", "write"}, r.big = BigOf(proc[u]),
         r.big # None => h.view[Overflow(r.big)].part = [val |-> r.val, nth |-> 1]
  PROVE  LockedFor(u)
<1>1. HashInv /\ block \in [Place -> Block]
  BY DEF MapInv, FileInv, Typed
<1>2. PICK k : Heap(k)' /\ k.kept = [h.kept EXCEPT ![r.id] = {r}]
  BY <1>1, LockToWriteHeap DEF Rekept
<1>3. PICK i \in Ids, v \in Vals : i = r.id /\ v = r.val
  BY DEF Rec
<1>4. ValIn({r}) = v
  BY <1>3 DEF ValIn
<1>5. Due(i)' = v /\ \A j \in Ids : j # i => Due(j)' = Due(j)
  BY <1>2, <1>3, <1>4, DuePut
<1>6. PICK g, old, b, n, o, e, was, put, job :
        /\ g = HashGroup(i) /\ old = OldRec(i) /\ b = Size[v] - OldSize(old) /\ o = OldBig(old)
        /\ n = (IF old = {} THEN 1 ELSE 0) /\ e = [at |-> "tidy", big |-> o, bytes |-> b, recs |-> n]
        /\ was = Snapshot({g}) /\ put = {[id |-> r.id, val |-> r.val]} /\ job = WriteJob(g, r)
  OBVIOUS
<1>7. CanLock(g, TRUE) /\ Goes(u, [at |-> "rewrite", was |-> was, put |-> put, then |-> e, job |-> job])
  BY <1>3, <1>6 DEF LockToWrite, Rewrite
<1>8. proc'[u] = [at |-> "rewrite", was |-> was, put |-> put, then |-> e, job |-> job]
  BY <1>1, <1>7 DEF Goes, HashInv
<1>9. OwedBytes(proc'[u]) = b /\ OwedRecs(proc'[u]) = n
  <2>1. proc'[u].at = "rewrite" /\ proc'[u].then = [at |-> "tidy", big |-> o, bytes |-> b, recs |-> n]
    BY <1>6, <1>8
  <2>2. QED
    BY <2>1, OwesBill
<1>10. OldSize(old) = ByteWt(Due(i)) /\ n = 1 - RecWt(Due(i))
  BY <1>6, <1>7, OldCounts
<1>11. ByteWt(v) = Size[v] /\ RecWt(v) = 1
  BY WtIs
<1>12. OwedBytes(proc[u]) = 0 /\ OwedRecs(proc[u]) = 0
  BY OwesNothing
<1>13. /\ OwedBytes(proc'[u]) = ByteWt(v) - ByteWt(Due(i))
       /\ OwedRecs(proc'[u]) = RecWt(v) - RecWt(Due(i))
  BY <1>6, <1>9, <1>10, <1>11
<1>14. QED
  BY <1>5, <1>12, <1>13 DEF LockedFor

LEMMA DeleteOwes ==
  ASSUME MapInv, MapInv', NEW u \in Users, NEW h, Heap(h), Delete(u)
  PROVE  LockedFor(u)
<1>1. HashInv /\ block \in [Place -> Block]
  BY DEF MapInv, FileInv, Typed
<1>2. PICK i \in Ids :
        /\ CanLock(HashGroup(i), TRUE) /\ glock' = glock \cup {MyLock(u, HashGroup(i), TRUE)}
        /\ Rewrite(u, {HashGroup(i)}, DeleteJob(HashGroup(i), i), {[id |-> i, val |-> NoRec]},
                   [at |-> "tidy", big |-> OldBig(OldRec(i)), bytes |-> -OldSize(OldRec(i)),
                    recs |-> -Cardinality(OldRec(i))])
  BY DEF Delete
<1>3. PICK k : Heap(k)' /\ k.kept = [h.kept EXCEPT ![i] = {}]
  BY <1>1, <1>2, DeleteIdHeap DEF Rekept
<1>4. ValIn({}) = NoRec
  BY DEF ValIn
<1>5. Due(i)' = NoRec /\ \A j \in Ids : j # i => Due(j)' = Due(j)
  BY <1>3, <1>4, DuePut
<1>6. PICK old, b, n, o, e, was, put, job :
        /\ old = OldRec(i) /\ b = -OldSize(old) /\ n = -Cardinality(old) /\ o = OldBig(old)
        /\ e = [at |-> "tidy", big |-> o, bytes |-> b, recs |-> n]
        /\ was = Snapshot({HashGroup(i)}) /\ put = {[id |-> i, val |-> NoRec]} /\ job = DeleteJob(HashGroup(i), i)
  OBVIOUS
<1>7. Goes(u, [at |-> "rewrite", was |-> was, put |-> put, then |-> e, job |-> job])
  BY <1>2, <1>6 DEF Rewrite
<1>8. proc'[u] = [at |-> "rewrite", was |-> was, put |-> put, then |-> e, job |-> job]
  BY <1>1, <1>7 DEF Goes, HashInv
<1>9. OwedBytes(proc'[u]) = b /\ OwedRecs(proc'[u]) = n
  <2>1. proc'[u].at = "rewrite" /\ proc'[u].then = [at |-> "tidy", big |-> o, bytes |-> b, recs |-> n]
    BY <1>6, <1>8
  <2>2. QED
    BY <2>1, OwesBill
<1>10. OldSize(old) = ByteWt(Due(i)) /\ Cardinality(old) = RecWt(Due(i))
  BY <1>2, <1>6, OldCounts
<1>11. PICK x, y : x = ByteWt(Due(i)) /\ y = RecWt(Due(i)) /\ x \in Int /\ y \in Int
  <2>1. ByteWt(Due(i)) \in 0 .. Unit /\ RecWt(Due(i)) \in 0 .. Unit
    BY DueWt
  <2>2. QED
    BY <2>1
<1>12. OwedBytes(proc'[u]) = -x /\ OwedRecs(proc'[u]) = -y
  BY <1>6, <1>9, <1>10, <1>11
<1>13. /\ OwedBytes(proc'[u]) = ByteWt(NoRec) - ByteWt(Due(i))
       /\ OwedRecs(proc'[u]) = RecWt(NoRec) - RecWt(Due(i))
  <2>1. -x = 0 - x /\ -y = 0 - y
    BY <1>11
  <2>2. QED
    BY <1>11, <1>12, <2>1, WtIs
<1>14. OwedBytes(proc[u]) = 0 /\ OwedRecs(proc[u]) = 0
  <2>1. proc[u].at = "idle"
    BY DEF Delete
  <2>2. QED
    BY <2>1, OwesNothing
<1>15. QED
  BY <1>5, <1>13, <1>14 DEF LockedFor

LEMMA LockOwes ==
  ASSUME MapInv, MapInv', NEW u \in Users, Write(u) \/ WriteAfterBig(u) \/ Delete(u)
  PROVE  LockedFor(u) /\ updCt' = updCt + 1 /\ UNCHANGED <<load, recCount, skewed>>
<1>1. HashInv /\ \E h : Heap(h)
  BY DEF MapInv, FileInv
<1>2. PICK h : Heap(h)
  BY <1>1
<1>3. Orderly(u)
  BY <1>1, StepOrderly DEF Steps
<1>4. CASE Write(u)
  <2>1. PICK i \in Ids, v \in Vals : LockToWrite(u, [id |-> i, val |-> v, big |-> None]) /\ proc[u].at = "idle"
    BY <1>4 DEF Write
  <2>2. PICK r : r = [id |-> i, val |-> v, big |-> None]
    OBVIOUS
  <2>3. r \in Rec /\ r.big = None /\ LockToWrite(u, r) /\ BigOf(proc[u]) = None
    BY <2>1, <2>2 DEF Rec, BigOf
  <2>4. LockedFor(u)
    BY <1>2, <1>3, <2>1, <2>3, WriteOwes
  <2>5. QED
    BY <2>3, <2>4 DEF LockToWrite, history
<1>5. CASE WriteAfterBig(u)
  <2>1. PICK r : r = proc[u].rec
    OBVIOUS
  <2>2. LockToWrite(u, r) /\ proc[u].at = "write"
    BY <1>5, <2>1 DEF WriteAfterBig
  <2>3. /\ r \in Rec /\ r.big = BigOf(proc[u])
        /\ (r.big # None => h.view[Overflow(r.big)].part = [val |-> r.val, nth |-> 1])
    BY <1>2, <2>1, <2>2 DEF Heap, HeldOK, BigOf
  <2>4. LockedFor(u)
    BY <1>2, <1>3, <2>2, <2>3, WriteOwes
  <2>5. QED
    BY <2>2, <2>4 DEF LockToWrite, history
<1>6. CASE Delete(u)
  <2>1. LockedFor(u)
    BY <1>2, <1>6, DeleteOwes
  <2>2. QED
    BY <1>6, <2>1 DEF Delete, history
<1>7. QED
  BY <1>4, <1>5, <1>6

-----------------------------------------------------------------------------
(* The counts, with what sessions have yet to adjust them by, are those of  *)
(* what is due.                                                             *)
Owing == (-Unit) .. Unit

Bounded(p) == OwedBytes(p) \in Owing /\ OwedRecs(p) \in Owing

BytesOwed == Total(Users, [u \in Users |-> Unit + OwedBytes(proc[u])])
RecsOwed == Total(Users, [u \in Users |-> Unit + OwedRecs(proc[u])])
Base == Total(Users, [u \in Users |-> Unit])

Balanced ==
  ~skewed => load + BytesOwed = DueBytes(Ids) + Base /\ recCount + RecsOwed = DueRecs(Ids) + Base

LEMMA OwedPut ==
  ASSUME NEW a, NEW b, NEW u \in Users, \A v \in Users : a[v] \in Owing /\ b[v] \in Owing,
         \A v \in Users : v # u => a[v] = b[v]
  PROVE  /\ Total(Users, [v \in Users |-> Unit + a[v]]) - a[u] = Total(Users, [v \in Users |-> Unit + b[v]]) - b[u]
         /\ Total(Users, [v \in Users |-> Unit + a[v]]) \in Nat
<1>1. PICK N \in Nat : N = Unit
  BY UnitIs
<1>2. PICK x, y : x = [v \in Users |-> Unit + a[v]] /\ y = [v \in Users |-> Unit + b[v]]
  OBVIOUS
<1>3. \A v \in Users : a[v] \in (-N) .. N /\ b[v] \in (-N) .. N /\ x[v] = N + a[v] /\ y[v] = N + b[v]
  BY <1>1, <1>2 DEF Owing
<1>4. \A n \in (-N) .. N : n \in Int /\ N + n \in 0 .. 2 * N
  OBVIOUS
<1>5. \A v \in Users : x[v] \in Weight /\ y[v] \in Weight
  BY <1>1, <1>3, <1>4 DEF Weight
<1>6. \A v \in Users : v # u => x[v] = y[v]
  BY <1>3
<1>7. IsFiniteSet(Users)
  BY FileConstants
<1>8. Total(Users, x) - x[u] = Total(Users, y) - y[u]
  BY <1>5, <1>6, <1>7, TotalPut
<1>9. PICK m \in Nat, n \in Nat : m = Total(Users, x) /\ n = Total(Users, y)
  BY <1>7, TotalNat
<1>10. PICK p \in Int, q \in Int : p = a[u] /\ q = b[u]
  BY <1>3, <1>4
<1>11. m - (N + p) = n - (N + q)
  BY <1>3, <1>8, <1>9, <1>10
<1>12. m - p = n - q
  BY <1>11
<1>13. QED
  BY <1>2, <1>9, <1>10, <1>12

LEMMA OwedStep ==
  ASSUME NEW u \in Users, \A v \in Users : Bounded(proc[v]) /\ Bounded(proc'[v]),
         \A v \in Users : v # u => proc'[v] = proc[v]
  PROVE  /\ BytesOwed' - OwedBytes(proc'[u]) = BytesOwed - OwedBytes(proc[u])
         /\ RecsOwed' - OwedRecs(proc'[u]) = RecsOwed - OwedRecs(proc[u])
         /\ BytesOwed' \in Nat /\ RecsOwed' \in Nat
<1>1. PICK a, b, c, d : /\ a = [v \in Users |-> OwedBytes(proc'[v])] /\ b = [v \in Users |-> OwedBytes(proc[v])]
                        /\ c = [v \in Users |-> OwedRecs(proc'[v])] /\ d = [v \in Users |-> OwedRecs(proc[v])]
  OBVIOUS
<1>2. /\ \A v \in Users : a[v] \in Owing /\ b[v] \in Owing /\ c[v] \in Owing /\ d[v] \in Owing
      /\ \A v \in Users : v # u => a[v] = b[v] /\ c[v] = d[v]
  BY <1>1 DEF Bounded
<1>3. /\ Total(Users, [v \in Users |-> Unit + a[v]]) - a[u] = Total(Users, [v \in Users |-> Unit + b[v]]) - b[u]
      /\ Total(Users, [v \in Users |-> Unit + a[v]]) \in Nat
  BY <1>2, OwedPut
<1>4. /\ Total(Users, [v \in Users |-> Unit + c[v]]) - c[u] = Total(Users, [v \in Users |-> Unit + d[v]]) - d[u]
      /\ Total(Users, [v \in Users |-> Unit + c[v]]) \in Nat
  BY <1>2, OwedPut
<1>5. /\ [v \in Users |-> Unit + b[v]] = [v \in Users |-> Unit + OwedBytes(proc[v])]
      /\ [v \in Users |-> Unit + a[v]] = [v \in Users |-> Unit + OwedBytes(proc'[v])]
      /\ [v \in Users |-> Unit + d[v]] = [v \in Users |-> Unit + OwedRecs(proc[v])]
      /\ [v \in Users |-> Unit + c[v]] = [v \in Users |-> Unit + OwedRecs(proc'[v])]
  BY <1>1
<1>6. BytesOwed = Total(Users, [v \in Users |-> Unit + b[v]]) /\ RecsOwed = Total(Users, [v \in Users |-> Unit + d[v]])
  BY <1>5 DEF BytesOwed, RecsOwed
<1>7. BytesOwed' = Total(Users, [v \in Users |-> Unit + a[v]]) /\ RecsOwed' = Total(Users, [v \in Users |-> Unit + c[v]])
  BY <1>5 DEF BytesOwed, RecsOwed
<1>8. a[u] = OwedBytes(proc'[u]) /\ b[u] = OwedBytes(proc[u]) /\ c[u] = OwedRecs(proc'[u]) /\ d[u] = OwedRecs(proc[u])
  BY <1>1
<1>9. QED
  BY <1>3, <1>4, <1>6, <1>7, <1>8

LEMMA DueSame ==
  ASSUME NEW C, \A i \in Ids : Due(i)' = Due(i)
  PROVE  DueBytes(C)' = DueBytes(C) /\ DueRecs(C)' = DueRecs(C)
<1>1. /\ [i \in Ids |-> IF i \in C THEN ByteWt(Due(i)') ELSE 0] = [i \in Ids |-> IF i \in C THEN ByteWt(Due(i)) ELSE 0]
      /\ [i \in Ids |-> IF i \in C THEN RecWt(Due(i)') ELSE 0] = [i \in Ids |-> IF i \in C THEN RecWt(Due(i)) ELSE 0]
  OBVIOUS
<1>2. /\ DueBytes(C)' = Total(Ids, [i \in Ids |-> IF i \in C THEN ByteWt(Due(i)') ELSE 0])
      /\ DueRecs(C)' = Total(Ids, [i \in Ids |-> IF i \in C THEN RecWt(Due(i)') ELSE 0])
  BY DEF DueBytes, DueRecs
<1>3. QED
  BY <1>1, <1>2 DEF DueBytes, DueRecs

(* The weights of what is due.                                              *)
DuesOK == \A i \in Ids : ByteWt(Due(i)) \in 0 .. Unit /\ RecWt(Due(i)) \in 0 .. Unit

LEMMA DuesHeld == MapInv => DuesOK
<1> SUFFICES ASSUME MapInv
             PROVE  DuesOK
  OBVIOUS
<1>1. PICK h : Heap(h)
  BY DEF MapInv, FileInv
<1>2. QED
  BY <1>1, DueWt DEF DuesOK

LEMMA DueNat ==
  ASSUME NEW C
  PROVE  DueBytes(C) \in Nat /\ DueRecs(C) \in Nat
<1>1. IsFiniteSet(Ids)
  BY FileConstants
<1>2. PICK v, w : /\ v = [i \in Ids |-> IF i \in C THEN ByteWt(Due(i)) ELSE 0]
                  /\ w = [i \in Ids |-> IF i \in C THEN RecWt(Due(i)) ELSE 0]
  OBVIOUS
<1>3. Total(Ids, v) \in Nat /\ Total(Ids, w) \in Nat
  BY <1>1, TotalNat
<1>4. QED
  BY <1>2, <1>3 DEF DueBytes, DueRecs

LEMMA DueStep ==
  ASSUME DuesOK, DuesOK', NEW i \in Ids, \A j \in Ids : j # i => Due(j)' = Due(j)
  PROVE  /\ DueBytes(Ids)' - ByteWt(Due(i)') = DueBytes(Ids) - ByteWt(Due(i))
         /\ DueRecs(Ids)' - RecWt(Due(i)') = DueRecs(Ids) - RecWt(Due(i))
         /\ DueBytes(Ids)' \in Nat /\ DueRecs(Ids)' \in Nat
<1>1. PICK a, b, c, d : /\ a = [j \in Ids |-> ByteWt(Due(j)')] /\ b = [j \in Ids |-> ByteWt(Due(j))]
                        /\ c = [j \in Ids |-> RecWt(Due(j)')] /\ d = [j \in Ids |-> RecWt(Due(j))]
  OBVIOUS
<1>2. \A j \in Ids : ByteWt(Due(j)') \in 0 .. Unit /\ RecWt(Due(j)') \in 0 .. Unit
  BY DEF DuesOK
<1>3. \A j \in Ids : ByteWt(Due(j)) \in 0 .. Unit /\ RecWt(Due(j)) \in 0 .. Unit
  BY DEF DuesOK
<1>4. /\ \A j \in Ids : a[j] \in Weight /\ b[j] \in Weight /\ c[j] \in Weight /\ d[j] \in Weight
      /\ \A j \in Ids : j # i => a[j] = b[j] /\ c[j] = d[j]
  BY <1>1, <1>2, <1>3, WtIs
<1>5. IsFiniteSet(Ids)
  BY FileConstants
<1>6. Total(Ids, a) - a[i] = Total(Ids, b) - b[i] /\ Total(Ids, a) \in Nat
  BY <1>4, <1>5, TotalPut, TotalNat
<1>7. Total(Ids, c) - c[i] = Total(Ids, d) - d[i] /\ Total(Ids, c) \in Nat
  BY <1>4, <1>5, TotalPut, TotalNat
<1>8. /\ [j \in Ids |-> IF j \in Ids THEN ByteWt(Due(j)) ELSE 0] = b
      /\ [j \in Ids |-> IF j \in Ids THEN RecWt(Due(j)) ELSE 0] = d
      /\ [j \in Ids |-> IF j \in Ids THEN ByteWt(Due(j)') ELSE 0] = a
      /\ [j \in Ids |-> IF j \in Ids THEN RecWt(Due(j)') ELSE 0] = c
  BY <1>1
<1>9. DueBytes(Ids) = Total(Ids, b) /\ DueRecs(Ids) = Total(Ids, d)
  BY <1>8 DEF DueBytes, DueRecs
<1>10. DueBytes(Ids)' = Total(Ids, a) /\ DueRecs(Ids)' = Total(Ids, c)
  BY <1>8 DEF DueBytes, DueRecs
<1>11. a[i] = ByteWt(Due(i)') /\ b[i] = ByteWt(Due(i)) /\ c[i] = RecWt(Due(i)') /\ d[i] = RecWt(Due(i))
  BY <1>1
<1>12. QED
  BY <1>6, <1>7, <1>9, <1>10, <1>11

LEMMA CountsKept ==
  ASSUME NEW u \in Users, Steps(u), ~Write(u), ~WriteAfterBig(u), ~Delete(u)
  PROVE  /\ updCt' = updCt
         /\ ~Account(u) /\ ~SelectEnd(u) => UNCHANGED <<load, recCount, skewed>>
<1>1. CASE Working(u)
  BY <1>1, WorkingIs DEF header, history
<1>2. CASE Account(u) \/ SelectEnd(u)
  BY <1>2 DEF Account, SelectEnd
<1>3. CASE ~Working(u) /\ ~Account(u) /\ ~SelectEnd(u)
  BY <1>3 DEF Steps, Read, ReadGroup, WriteBig, MoreBig, FreeLocks, FreeBig, Resize, ResizeOff,
     SplitStart, SplitSource, MergeStart, Release, Select, SelectGroup, header, history
<1>4. QED
  BY <1>1, <1>2, <1>3

LEMMA AccountIs ==
  ASSUME MapInv, NEW u \in Users, Account(u)
  PROVE  /\ OwedBytes(proc[u]) = proc[u].bytes /\ OwedRecs(proc[u]) = proc[u].recs
         /\ OwedBytes(proc'[u]) = 0 /\ OwedRecs(proc'[u]) = 0
<1>1. HashInv
  BY DEF MapInv, FileInv
<1>2. proc[u].at = "account" /\ proc'[u] = [at |-> "resize"]
  BY <1>1 DEF Account, Goes, HashInv
<1>3. OwedBytes(proc[u]) = proc[u].bytes /\ OwedRecs(proc[u]) = proc[u].recs
  BY <1>2 DEF OwedBytes, OwedRecs, Owes, Bill
<1>4. proc'[u].at = "resize"
  BY <1>2
<1>5. QED
  BY <1>3, <1>4, OwesNothing

LEMMA BoundedNext ==
  ASSUME MapInv, MapInv', NEW u \in Users, Steps(u), Bounded(proc[u])
  PROVE  Bounded(proc'[u])
<1>1. DuesOK /\ DuesOK'
  BY DuesHeld, PTL
<1>2. PICK N \in Nat : N = Unit
  BY UnitIs
<1>3. (\A m, n \in 0 .. N : m - n \in (-N) .. N) /\ 0 \in (-N) .. N
  OBVIOUS
<1>4. CASE Write(u) \/ WriteAfterBig(u) \/ Delete(u)
  <2>1. LockedFor(u)
    BY <1>4, LockOwes
  <2>2. PICK i \in Ids, v \in Vals \cup {NoRec} :
          /\ OwedBytes(proc'[u]) = ByteWt(v) - ByteWt(Due(i)) /\ OwedRecs(proc'[u]) = RecWt(v) - RecWt(Due(i))
    BY <2>1 DEF LockedFor
  <2>3. ByteWt(v) \in 0 .. N /\ RecWt(v) \in 0 .. N /\ ByteWt(Due(i)) \in 0 .. N /\ RecWt(Due(i)) \in 0 .. N
    BY <1>1, <1>2, WtIs DEF DuesOK
  <2>4. QED
    BY <1>2, <1>3, <2>2, <2>3 DEF Bounded, Owing
<1>5. CASE Account(u)
  BY <1>2, <1>3, <1>5, AccountIs DEF Bounded, Owing
<1>6. CASE ~(Write(u) \/ WriteAfterBig(u) \/ Delete(u) \/ Account(u))
  BY <1>6, OwedKept DEF Bounded
<1>7. QED
  BY <1>4, <1>5, <1>6

LEMMA MaxIs ==
  ASSUME NEW n \in Int, ~(n < 0)
  PROVE  Max({0, n}) = n
<1>1. \E x \in {0, n} : \A y \in {0, n} : x >= y
  OBVIOUS
<1>2. \A x \in {0, n} : (\A y \in {0, n} : x >= y) => x = n
  OBVIOUS
<1>3. QED
  BY <1>1, <1>2 DEF Max

LEMMA BaseNat == Base \in Nat
BY FileConstants, TotalNat DEF Base

(* Sums that a step changes alike.                                          *)
LEMMA SumsMove ==
  ASSUME NEW l \in Int, NEW m \in Int, NEW a \in Int, NEW b \in Int, NEW c \in Int, NEW d \in Int, NEW z \in Int,
         NEW p \in Int, NEW q \in Int, NEW x \in Int, NEW y \in Int,
         l + a = c + z, b - q = a - p, d - y = c - x, (m - l) + (q - p) = y - x
  PROVE  m + b = d + z
OBVIOUS

LEMMA BalancedNext ==
  ASSUME MapInv, MapInv', NEW u \in Users, Steps(u), \A v \in Users : Bounded(proc[v]), Balanced,
         SelectEnd(u) => UNCHANGED <<load, recCount, skewed>>
  PROVE  Balanced'
<1> SUFFICES ASSUME ~skewed'
             PROVE  load' + BytesOwed' = DueBytes(Ids)' + Base /\ recCount' + RecsOwed' = DueRecs(Ids)' + Base
  BY DEF Balanced, Base
<1>1. DuesOK /\ DuesOK'
  BY DuesHeld, PTL
<1>2. HashInv
  BY DEF MapInv, FileInv
<1>3. load \in Nat /\ recCount \in Nat
  BY DEF MapInv, FileInv, Typed
<1>4. \A v \in Users : v # u => proc'[v] = proc[v]
  BY <1>2, StepOrderly, OrderlyIs
<1>5. \A v \in Users : Bounded(proc'[v])
  BY <1>4, BoundedNext
<1>6. /\ BytesOwed' - OwedBytes(proc'[u]) = BytesOwed - OwedBytes(proc[u])
      /\ RecsOwed' - OwedRecs(proc'[u]) = RecsOwed - OwedRecs(proc[u])
      /\ BytesOwed' \in Nat /\ RecsOwed' \in Nat
  BY <1>4, <1>5, OwedStep
<1>7. BytesOwed \in Nat /\ RecsOwed \in Nat /\ DueBytes(Ids) \in Nat /\ DueRecs(Ids) \in Nat /\ Base \in Nat
  <2>1. BytesOwed \in Nat /\ RecsOwed \in Nat
    BY FileConstants, TotalNat DEF BytesOwed, RecsOwed
  <2>2. QED
    BY <2>1, DueNat, BaseNat
<1>8. /\ OwedBytes(proc[u]) \in Int /\ OwedRecs(proc[u]) \in Int
      /\ OwedBytes(proc'[u]) \in Int /\ OwedRecs(proc'[u]) \in Int
  <2>1. PICK N \in Nat : N = Unit
    BY UnitIs
  <2>2. \A n \in (-N) .. N : n \in Int
    OBVIOUS
  <2>3. QED
    BY <1>5, <2>1, <2>2 DEF Bounded, Owing
<1>9. PICK a, b, c, z, p, q, l, aa, bb, cc, pp, qq, n :
        /\ a = BytesOwed /\ b = BytesOwed' /\ c = DueBytes(Ids) /\ z = Base
        /\ p = OwedBytes(proc[u]) /\ q = OwedBytes(proc'[u]) /\ l = load
        /\ aa = RecsOwed /\ bb = RecsOwed' /\ cc = DueRecs(Ids)
        /\ pp = OwedRecs(proc[u]) /\ qq = OwedRecs(proc'[u]) /\ n = recCount
  OBVIOUS
<1>0. /\ a \in Int /\ b \in Int /\ c \in Int /\ z \in Int /\ p \in Int /\ q \in Int /\ l \in Int
      /\ aa \in Int /\ bb \in Int /\ cc \in Int /\ pp \in Int /\ qq \in Int /\ n \in Int
  BY <1>3, <1>6, <1>7, <1>8, <1>9
<1>10. b - q = a - p /\ bb - qq = aa - pp
  BY <1>6, <1>9
<1>11. CASE Write(u) \/ WriteAfterBig(u) \/ Delete(u)
  <2>1. LockedFor(u) /\ UNCHANGED <<load, recCount, skewed>>
    BY <1>11, LockOwes
  <2>2. PICK i \in Ids, v \in Vals \cup {NoRec} :
          /\ Due(i)' = v /\ \A j \in Ids : j # i => Due(j)' = Due(j)
          /\ OwedBytes(proc'[u]) = ByteWt(v) - ByteWt(Due(i)) /\ OwedRecs(proc'[u]) = RecWt(v) - RecWt(Due(i))
          /\ OwedBytes(proc[u]) = 0 /\ OwedRecs(proc[u]) = 0
    BY <2>1 DEF LockedFor
  <2>3. /\ DueBytes(Ids)' - ByteWt(Due(i)') = DueBytes(Ids) - ByteWt(Due(i))
        /\ DueRecs(Ids)' - RecWt(Due(i)') = DueRecs(Ids) - RecWt(Due(i))
        /\ DueBytes(Ids)' \in Nat /\ DueRecs(Ids)' \in Nat
    BY <1>1, <2>2, DueStep
  <2>4. PICK x \in Int, y \in Int, xx \in Int, yy \in Int, e \in Int, ee \in Int :
          /\ x = ByteWt(Due(i)) /\ y = ByteWt(v) /\ xx = RecWt(Due(i)) /\ yy = RecWt(v)
          /\ e = DueBytes(Ids)' /\ ee = DueRecs(Ids)'
    <3>1. ByteWt(v) \in 0 .. Unit /\ RecWt(v) \in 0 .. Unit /\ ByteWt(Due(i)) \in 0 .. Unit /\ RecWt(Due(i)) \in 0 .. Unit
      BY <1>1, WtIs DEF DuesOK
    <3>2. PICK N \in Nat : N = Unit
      BY UnitIs
    <3>3. \A k \in 0 .. N : k \in Int
      OBVIOUS
    <3>4. QED
      BY <2>3, <3>1, <3>2, <3>3
  <2>5. e - y = c - x /\ ee - yy = cc - xx /\ q - p = y - x /\ qq - pp = yy - xx
    BY <1>9, <2>2, <2>3, <2>4
  <2>6. l + a = c + z /\ n + aa = cc + z
    BY <1>9, <2>1 DEF Balanced
  <2>7. (l - l) + (q - p) = y - x /\ (n - n) + (qq - pp) = yy - xx
    BY <1>0, <2>5
  <2>8. l + b = e + z
    BY <1>0, <1>10, <2>5, <2>6, <2>7, SumsMove
  <2>9. n + bb = ee + z
    BY <1>0, <1>10, <2>5, <2>6, <2>7, SumsMove
  <2>10. QED
    BY <1>9, <2>1, <2>4, <2>8, <2>9
<1>12. CASE ~(Write(u) \/ WriteAfterBig(u) \/ Delete(u))
  <2>1. DueBytes(Ids)' = c /\ DueRecs(Ids)' = cc
    <3>1. \A i \in Ids : Due(i)' = Due(i)
      BY <1>12, DueKept
    <3>2. QED
      BY <1>9, <3>1, DueSame
  <2>2. CASE Account(u)
    <3>1. p = proc[u].bytes /\ pp = proc[u].recs /\ q = 0 /\ qq = 0
      BY <1>9, <2>2, AccountIs
    <3>2. ~skewed /\ ~(l + p < 0) /\ ~(n + pp < 0) /\ load' = Max({0, l + p}) /\ recCount' = Max({0, n + pp})
      BY <1>9, <2>2, <3>1 DEF Account
    <3>3. load' = l + p /\ recCount' = n + pp
      BY <1>0, <3>2, MaxIs
    <3>4. l + a = c + z /\ n + aa = cc + z
      BY <1>9, <3>2 DEF Balanced
    <3>5. (l + p) + b = c + z /\ (n + pp) + bb = cc + z
      BY <1>0, <1>10, <3>1, <3>4
    <3>6. QED
      BY <1>9, <2>1, <3>3, <3>5
  <2>3. CASE ~Account(u)
    <3>1. UNCHANGED <<load, recCount, skewed>>
      BY <1>12, <2>3, CountsKept
    <3>2. p = q /\ pp = qq
      BY <1>9, <1>12, <2>3, OwedKept
    <3>3. l + a = c + z /\ n + aa = cc + z
      BY <1>9, <3>1 DEF Balanced
    <3>4. l + b = c + z /\ n + bb = cc + z
      BY <1>0, <1>10, <3>2, <3>3
    <3>5. QED
      BY <1>9, <2>1, <3>1, <3>4
  <2>4. QED
    BY <2>2, <2>3
<1>13. QED
  BY <1>11, <1>12

-----------------------------------------------------------------------------
(* What a SELECT has counted, if nothing was updated since it began, is what *)
(* is due in the groups it has read.                                        *)
BytesBefore(g) == DueBytes({i \in Ids : Home(i) < g})
RecsBefore(g) == DueRecs({i \in Ids : Home(i) < g})

Tallied(u) ==
  proc[u].at = "select" =>
    /\ proc[u].upd \in Nat /\ proc[u].upd <= updCt
    /\ ~proc[u].gap /\ proc[u].upd = updCt =>
         \A g : g = proc[u].group => proc[u].bytes = BytesBefore(g) /\ Len(proc[u].picked) = RecsBefore(g)

LEMMA TallyKept ==
  ASSUME NEW g, \A i \in Ids : Due(i)' = Due(i) /\ Home(i)' = Home(i)
  PROVE  BytesBefore(g)' = BytesBefore(g) /\ RecsBefore(g)' = RecsBefore(g)
<1>1. PICK C : C = {i \in Ids : Home(i) < g}
  OBVIOUS
<1>2. {i \in Ids : Home(i)' < g} = C
  BY <1>1
<1>3. BytesBefore(g) = DueBytes(C) /\ RecsBefore(g) = DueRecs(C)
  BY <1>1 DEF BytesBefore, RecsBefore
<1>4. BytesBefore(g)' = DueBytes(C)' /\ RecsBefore(g)' = DueRecs(C)'
  BY <1>2 DEF BytesBefore, RecsBefore, DueBytes, DueRecs
<1>5. QED
  BY <1>3, <1>4, DueSame

LEMMA TallyNone ==
  ASSUME NEW g, \A i \in Ids : ~(Home(i) < g)
  PROVE  BytesBefore(g) = 0 /\ RecsBefore(g) = 0
<1>1. PICK v, w : /\ v = [i \in Ids |-> IF i \in {j \in Ids : Home(j) < g} THEN ByteWt(Due(i)) ELSE 0]
                  /\ w = [i \in Ids |-> IF i \in {j \in Ids : Home(j) < g} THEN RecWt(Due(i)) ELSE 0]
  OBVIOUS
<1>2. \A i \in Ids : v[i] = 0 /\ w[i] = 0
  BY <1>1
<1>3. Total(Ids, v) = 0 /\ Total(Ids, w) = 0
  BY <1>2, TotalNone
<1>4. QED
  BY <1>1, <1>3 DEF BytesBefore, RecsBefore, DueBytes, DueRecs

LEMMA TallyAll ==
  ASSUME NEW g, \A i \in Ids : Home(i) < g
  PROVE  BytesBefore(g) = DueBytes(Ids) /\ RecsBefore(g) = DueRecs(Ids)
<1>1. {i \in Ids : Home(i) < g} = Ids
  OBVIOUS
<1>2. QED
  BY <1>1 DEF BytesBefore, RecsBefore

LEMMA TallyMore ==
  ASSUME DuesOK, NEW g \in Nat, \A i \in Ids : Home(i) \in Nat
  PROVE  /\ BytesBefore(g + 1) = BytesBefore(g) + DueBytes({i \in Ids : Home(i) = g})
         /\ RecsBefore(g + 1) = RecsBefore(g) + DueRecs({i \in Ids : Home(i) = g})
<1>1. PICK A, B, C : /\ A = {i \in Ids : Home(i) < g} /\ B = {i \in Ids : Home(i) = g}
                     /\ C = {i \in Ids : Home(i) < g + 1}
  OBVIOUS
<1>2. \A i \in Ids : (i \in C <=> i \in A \/ i \in B) /\ ~(i \in A /\ i \in B)
  <2>1. \A n \in Nat : (n < g + 1 <=> n < g \/ n = g) /\ ~(n < g /\ n = g)
    OBVIOUS
  <2>2. QED
    BY <1>1, <2>1
<1>3. \A i \in Ids : ByteWt(Due(i)) \in Weight /\ RecWt(Due(i)) \in Weight
  BY WtIs DEF DuesOK
<1>4. IsFiniteSet(Ids) /\ 0 \in Weight /\ \A n \in Weight : n \in Nat /\ n + 0 = n /\ 0 + n = n
  BY FileConstants, UnitIs DEF Weight
<1>0. IsFiniteSet(Ids)
  BY FileConstants
<1>5. DueBytes(C) = DueBytes(A) + DueBytes(B)
  <2>1. PICK a, b, c : /\ a = [i \in Ids |-> IF i \in A THEN ByteWt(Due(i)) ELSE 0]
                       /\ b = [i \in Ids |-> IF i \in B THEN ByteWt(Due(i)) ELSE 0]
                       /\ c = [i \in Ids |-> IF i \in C THEN ByteWt(Due(i)) ELSE 0]
    OBVIOUS
  <2>2. \A i \in Ids : a[i] \in Weight /\ b[i] \in Weight /\ (a[i] = 0 \/ b[i] = 0) /\ c[i] = a[i] + b[i]
    BY <1>2, <1>3, <1>4, <2>1
  <2>3. Total(Ids, c) = Total(Ids, a) + Total(Ids, b)
    BY <1>0, <2>2, TotalSum
  <2>4. QED
    BY <2>1, <2>3 DEF DueBytes
<1>6. DueRecs(C) = DueRecs(A) + DueRecs(B)
  <2>1. PICK a, b, c : /\ a = [i \in Ids |-> IF i \in A THEN RecWt(Due(i)) ELSE 0]
                       /\ b = [i \in Ids |-> IF i \in B THEN RecWt(Due(i)) ELSE 0]
                       /\ c = [i \in Ids |-> IF i \in C THEN RecWt(Due(i)) ELSE 0]
    OBVIOUS
  <2>2. \A i \in Ids : a[i] \in Weight /\ b[i] \in Weight /\ (a[i] = 0 \/ b[i] = 0) /\ c[i] = a[i] + b[i]
    BY <1>2, <1>3, <1>4, <2>1
  <2>3. Total(Ids, c) = Total(Ids, a) + Total(Ids, b)
    BY <1>0, <2>2, TotalSum
  <2>4. QED
    BY <2>1, <2>3 DEF DueRecs
<1>7. QED
  BY <1>1, <1>5, <1>6 DEF BytesBefore, RecsBefore

(* The tally of a SELECT that takes no step.                                *)
LEMMA TallyStays ==
  ASSUME MapInv, MapInv', NEW u \in Users, Steps(u), NEW s \in Users, proc'[s] = proc[s], Selecting(s), Tallied(s)
  PROVE  Tallied(s)'
<1> SUFFICES ASSUME proc[s].at = "select"
             PROVE  /\ proc[s].upd \in Nat /\ proc[s].upd <= updCt'
                    /\ ~proc[s].gap /\ proc[s].upd = updCt' =>
                         \A g : g = proc[s].group =>
                           proc[s].bytes = BytesBefore(g)' /\ Len(proc[s].picked) = RecsBefore(g)'
  BY DEF Tallied
<1>1. HashInv /\ (\E h : Heap(h)) /\ updCt \in Nat
  BY DEF MapInv, FileInv, Typed
<1>2. PICK h : Heap(h)
  BY <1>1
<1>3. proc[s].upd \in Nat /\ proc[s].upd <= updCt
  BY DEF Tallied
<1>4. CASE Write(u) \/ WriteAfterBig(u) \/ Delete(u)
  <2>1. updCt' = updCt + 1
    BY <1>4, LockOwes
  <2>2. PICK m \in Nat, n \in Nat : m = proc[s].upd /\ n = updCt
    BY <1>1, <1>3
  <2>3. m <= n + 1 /\ m # n + 1
    BY <1>3, <2>2
  <2>4. QED
    BY <1>3, <2>1, <2>2, <2>3
<1>5. CASE ~(Write(u) \/ WriteAfterBig(u) \/ Delete(u))
  <2>1. updCt' = updCt
    BY <1>5, CountsKept
  <2>2. ASSUME ~proc[s].gap, proc[s].upd = updCt', NEW g, g = proc[s].group
        PROVE  proc[s].bytes = BytesBefore(g)' /\ Len(proc[s].picked) = RecsBefore(g)'
    <3>1. \A v \in Users : proc[v].at # "source"
      BY <2>2 DEF Selecting
    <3>2. \A i \in Ids : Home(i)' = Home(i)
      BY <1>1, <1>2, <3>1, SelectHomes
    <3>3. \A i \in Ids : Due(i)' = Due(i)
      BY <1>5, DueKept
    <3>4. BytesBefore(g)' = BytesBefore(g) /\ RecsBefore(g)' = RecsBefore(g)
      BY <3>2, <3>3, TallyKept
    <3>5. proc[s].bytes = BytesBefore(g) /\ Len(proc[s].picked) = RecsBefore(g)
      BY <2>1, <2>2 DEF Tallied
    <3>6. QED
      BY <3>4, <3>5
  <2>3. QED
    BY <1>3, <2>1, <2>2
<1>6. QED
  BY <1>4, <1>5

LEMMA SelectTallied ==
  ASSUME MapInv, MapInv', NEW u \in Users, Select(u)
  PROVE  Tallied(u)'
<1>1. HashInv /\ Typed
  BY DEF MapInv, FileInv
<1>2. PICK gap, n, p : /\ gap = (\E v \in Users : proc[v].at = "source") /\ n = updCt
                       /\ p = [at |-> "select", group |-> 1, picked |-> <<>>, upd |-> n, bytes |-> 0, gap |-> gap]
  OBVIOUS
<1>3. proc' = [proc EXCEPT ![u] = p] /\ proc[u].at = "idle" /\ UNCHANGED <<modulus, modValue, updCt>>
  BY <1>2 DEF Select, Goes
<1>4. p.at = "select" /\ p.group = 1 /\ p.picked = <<>> /\ p.upd = n /\ p.bytes = 0 /\ p.gap = gap
  BY <1>2
<1>5. proc'[u] = p
  BY <1>1, <1>3 DEF HashInv
<1>6. \A i \in Ids : Home(i)' = Home(i)
  BY <1>1, <1>3, <1>4, HomesSame DEF HashInv
<1>7. \A i \in Ids : Due(i)' = Due(i)
  <2>1. Steps(u) /\ ~Write(u) /\ ~WriteAfterBig(u) /\ ~Delete(u)
    <3>1. Steps(u)
      BY DEF Steps
    <3>2. CASE Write(u) \/ WriteAfterBig(u) \/ Delete(u)
      <4>1. updCt' = updCt + 1 /\ updCt \in Nat
        BY <1>1, <3>1, <3>2, LockOwes DEF Typed
      <4>2. QED
        BY <1>3, <4>1
    <3>3. QED
      BY <3>1, <3>2
  <2>2. QED
    BY <2>1, DueKept
<1>8. \A i \in Ids : ~(Home(i) < 1)
  <2>1. \A i \in Ids : Home(i) \in Groups
    BY <1>1, HomePresent
  <2>2. \A g \in Groups : ~(g < 1)
    BY FileConstants DEF Groups
  <2>3. QED
    BY <2>1, <2>2
<1>9. BytesBefore(1)' = 0 /\ RecsBefore(1)' = 0
  BY <1>6, <1>7, <1>8, TallyKept, TallyNone
<1>10. n \in Nat /\ n <= updCt' /\ Len(<<>>) = 0
  BY <1>1, <1>2, <1>3 DEF Typed
<1>11. QED
  BY <1>4, <1>5, <1>9, <1>10 DEF Tallied

LEMMA SelectGroupTallied ==
  ASSUME MapInv, MapInv', NEW u \in Users, SelectGroup(u), Selecting(u), Tallied(u)
  PROVE  Tallied(u)'
<1>1. HashInv /\ Typed /\ block \in [Place -> Block] /\ \E h : Heap(h)
  BY DEF MapInv, FileInv, Typed
<1>2. PICK h : Heap(h)
  BY <1>1
<1>3. proc[u].at = "select" /\ proc[u].group <= modulus /\ CanLock(proc[u].group, FALSE) /\ updCt' = updCt
  BY DEF SelectGroup, header
<1>4. PICK g, recs : g = proc[u].group /\ recs = GroupRecs(block, g)
  OBVIOUS
<1>5. /\ proc'[u].group = g + 1 /\ proc'[u].picked = WithIds(proc[u].picked, recs)
      /\ proc'[u].gap = proc[u].gap /\ proc'[u].upd = proc[u].upd /\ proc'[u].bytes = proc[u].bytes + Bytes(recs)
  BY <1>1, <1>4, SelectGroupIs
<1>6. g \in Nat \ {0} /\ proc[u].picked \in Seq(Ids)
  BY <1>1, <1>3, <1>4 DEF Typed, Numbers
<1>7. g \in Groups /\ ~WriteLocked(g)
  <2>1. g \in Groups
    BY <1>1, <1>3, <1>4, <1>6, FileConstants DEF HashInv, HeaderInv, HeaderOK, Groups
  <2>2. ~WriteLocked(g)
    BY <1>3, <1>4 DEF CanLock, WriteLocked, MyLock
  <2>3. QED
    BY <2>1, <2>2
<1>8. Len(WithIds(proc[u].picked, recs)) = Len(proc[u].picked) + Len(recs)
  <2>1. recs \in Seq(Rec)
    BY <1>1, <1>2, <1>4, <1>7, GroupRead
  <2>2. ASSUME NEW k \in 1 .. Len(recs)
        PROVE  recs[k].id \in Ids
    <3>1. PICK r : r = recs[k]
      OBVIOUS
    <3>2. r.id \in Ids
      BY <1>1, <1>2, <1>4, <1>7, <3>1, RecAtHome
    <3>3. QED
      BY <3>1, <3>2
  <2>3. PICK t : t = [k \in 1 .. Len(recs) |-> recs[k].id]
    OBVIOUS
  <2>4. t \in Seq(Ids) /\ Len(t) = Len(recs)
    BY <2>1, <2>2, <2>3
  <2>5. Len(proc[u].picked \o t) = Len(proc[u].picked) + Len(t)
    BY <1>6, <2>4, IdsLong
  <2>6. QED
    BY <2>3, <2>4, <2>5 DEF WithIds
<1>9. Steps(u) /\ ~Write(u) /\ ~WriteAfterBig(u) /\ ~Delete(u)
  BY <1>3 DEF Steps, Write, WriteAfterBig, Delete
<1>10. ASSUME ~proc[u].gap, proc[u].upd = updCt
       PROVE  /\ proc[u].bytes + Bytes(recs) = BytesBefore(g + 1)'
              /\ Len(proc[u].picked) + Len(recs) = RecsBefore(g + 1)'
  <2>1. \A v \in Users : proc[v].at # "source"
    BY <1>3, <1>10 DEF Selecting
  <2>2. \A i \in Ids : Home(i)' = Home(i)
    BY <1>1, <1>2, <1>3, <1>9, <2>1, SelectHomes
  <2>3. \A i \in Ids : Due(i)' = Due(i)
    BY <1>9, DueKept
  <2>4. BytesBefore(g + 1)' = BytesBefore(g + 1) /\ RecsBefore(g + 1)' = RecsBefore(g + 1)
    BY <2>2, <2>3, TallyKept
  <2>5. DuesOK /\ g \in Nat /\ \A i \in Ids : Home(i) \in Nat
    <3>1. \A i \in Ids : Home(i) \in Groups
      BY <1>1, HomePresent
    <3>2. \A n \in Groups : n \in Nat
      BY FileConstants DEF Groups
    <3>3. QED
      BY <1>6, <3>1, <3>2, DuesHeld
  <2>6. /\ BytesBefore(g + 1) = BytesBefore(g) + DueBytes({i \in Ids : Home(i) = g})
        /\ RecsBefore(g + 1) = RecsBefore(g) + DueRecs({i \in Ids : Home(i) = g})
    BY <2>5, TallyMore
  <2>7. /\ Bytes(recs) = DueBytes({i \in Ids : Home(i) = g})
        /\ Len(recs) = DueRecs({i \in Ids : Home(i) = g})
    BY <1>4, <1>7, GroupCounts
  <2>8. proc[u].bytes = BytesBefore(g) /\ Len(proc[u].picked) = RecsBefore(g)
    BY <1>3, <1>4, <1>10 DEF Tallied
  <2>9. QED
    BY <2>4, <2>6, <2>7, <2>8
<1>11. proc[u].upd \in Nat /\ proc[u].upd <= updCt
  BY <1>3 DEF Tallied
<1>12. QED
  BY <1>3, <1>5, <1>8, <1>10, <1>11 DEF Tallied

LEMMA TalliedStep ==
  ASSUME MapInv, MapInv', NEW u \in Users, Steps(u), NEW s \in Users, Selecting(s), Tallied(s)
  PROVE  Tallied(s)'
<1>1. HashInv /\ \E h : Heap(h)
  BY DEF MapInv, FileInv
<1>2. PICK h : Heap(h)
  BY <1>1
<1>3. CASE s = u
  <2>1. CASE proc'[u].at # "select"
    BY <1>3, <2>1 DEF Tallied
  <2>2. CASE proc'[u].at = "select"
    <3>1. Select(u) \/ SelectGroup(u)
      BY <1>1, <1>2, <2>2, Begins
    <3>2. QED
      BY <1>3, <3>1, SelectTallied, SelectGroupTallied
  <2>3. QED
    BY <2>1, <2>2
<1>4. CASE s # u
  <2>1. proc'[s] = proc[s]
    BY <1>1, <1>4, StepOrderly, OrderlyIs
  <2>2. QED
    BY <2>1, TallyStays
<1>5. QED
  BY <1>3, <1>4

(* Nobody has anything to adjust.                                           *)
NoneOwed == \A u \in Users : OwedBytes(proc[u]) = 0 /\ OwedRecs(proc[u]) = 0

LEMMA NoneOwedIs == NoneOwed => BytesOwed = Base /\ RecsOwed = Base
<1> SUFFICES ASSUME NoneOwed
             PROVE  BytesOwed = Base /\ RecsOwed = Base
  OBVIOUS
<1>1. Unit + 0 = Unit
  <2>1. PICK N \in Nat : N = Unit
    BY UnitIs
  <2>2. N + 0 = N
    OBVIOUS
  <2>3. QED
    BY <2>1, <2>2
<1>2. /\ [u \in Users |-> Unit + OwedBytes(proc[u])] = [u \in Users |-> Unit]
      /\ [u \in Users |-> Unit + OwedRecs(proc[u])] = [u \in Users |-> Unit]
  BY <1>1 DEF NoneOwed
<1>3. QED
  BY <1>2 DEF BytesOwed, RecsOwed, Base

LEMMA SelectEndBalanced ==
  ASSUME MapInv, MapInv', NEW u \in Users, SelectEnd(u), \A v \in Users : Bounded(proc[v]), Balanced,
         Selecting(u), Tallied(u)
  PROVE  Balanced'
<1>1. HashInv /\ Typed
  BY DEF MapInv, FileInv
<1>2. /\ proc[u].at = "select" /\ proc[u].group > modulus /\ proc' = [proc EXCEPT ![u] = [at |-> "idle"]]
      /\ updCt' = updCt
  BY DEF SelectEnd, Goes
<1>3. proc'[u].at = "idle" /\ \A v \in Users : v # u => proc'[v] = proc[v]
  BY <1>1, <1>2 DEF HashInv
<1>4. Steps(u)
  BY DEF Steps
<1>5. CASE proc[u].upd # updCt
  <2>1. UNCHANGED <<load, recCount, skewed>>
    BY <1>5 DEF SelectEnd
  <2>2. QED
    BY <1>4, <2>1, BalancedNext
<1>6. CASE proc[u].upd = updCt
  <2> SUFFICES ASSUME ~skewed'
               PROVE  load' + BytesOwed' = DueBytes(Ids)' + Base /\ recCount' + RecsOwed' = DueRecs(Ids)' + Base
    BY DEF Balanced, Base
  <2>1. load' = proc[u].bytes /\ recCount' = Len(proc[u].picked) /\ ~proc[u].gap /\ ~Uncounted
    BY <1>6 DEF SelectEnd
  <2>2. BytesOwed' = Base /\ RecsOwed' = Base
    <3>1. ASSUME NEW v \in Users
          PROVE  OwedBytes(proc'[v]) = 0 /\ OwedRecs(proc'[v]) = 0
      <4>1. proc'[v].at \notin {"rewrite", "tidy", "account"}
        BY <1>3, <2>1 DEF Uncounted
      <4>2. QED
        BY <4>1, OwesNothing
    <3>2. NoneOwed'
      BY <3>1 DEF NoneOwed
    <3>3. (BytesOwed = Base /\ RecsOwed = Base)'
      BY <3>2, NoneOwedIs, PTL
    <3>4. QED
      BY <3>3 DEF Base
  <2>3. PICK g : g = proc[u].group
    OBVIOUS
  <2>4. \A i \in Ids : Home(i) < g
    <3>1. modulus \in Nat /\ g \in Nat /\ g > modulus
      BY <1>1, <1>2, <2>3 DEF Typed, Numbers, HashInv, HeaderInv, HeaderOK
    <3>2. \A i \in Ids : Home(i) \in 1 .. modulus
      BY <1>1, HomePresent
    <3>3. QED
      BY <3>1, <3>2
  <2>5. proc[u].bytes = DueBytes(Ids) /\ Len(proc[u].picked) = DueRecs(Ids)
    <3>1. proc[u].bytes = BytesBefore(g) /\ Len(proc[u].picked) = RecsBefore(g)
      BY <1>2, <1>6, <2>1, <2>3 DEF Tallied
    <3>2. QED
      BY <2>4, <3>1, TallyAll
  <2>6. DueBytes(Ids)' = DueBytes(Ids) /\ DueRecs(Ids)' = DueRecs(Ids)
    <3>1. ~Write(u) /\ ~WriteAfterBig(u) /\ ~Delete(u)
      BY <1>2 DEF Write, WriteAfterBig, Delete
    <3>2. \A i \in Ids : Due(i)' = Due(i)
      BY <1>4, <3>1, DueKept
    <3>3. QED
      BY <3>2, DueSame
  <2>7. QED
    BY <2>1, <2>2, <2>5, <2>6
<1>7. QED
  BY <1>5, <1>6

CountInv ==
  SelectInv /\ Balanced /\ \A u \in Users : Bounded(proc[u]) /\ Tallied(u)

LEMMA CountInvStep == CountInv /\ [Next]_vars => CountInv'
<1> SUFFICES ASSUME CountInv, [Next]_vars
             PROVE  CountInv'
  OBVIOUS
<1>1. SelectInv /\ SelectInv' /\ MapInv /\ MapInv'
  BY SelectInvStep DEF CountInv, SelectInv
<1>2. CASE UNCHANGED vars
  <2>1. UNCHANGED <<proc, modulus, modValue, load, recCount, updCt, skewed>>
    BY <1>2 DEF vars, header, history
  <2>2. \A i \in Ids : Home(i)' = Home(i)
    BY <2>1 DEF Home, HashGroup
  <2>3. \A i \in Ids : Due(i)' = Due(i)
    <3>1. Dues /\ Dues'
      BY <1>1, MapDues, PTL
    <3>2. PICK h : Heap(h)
      BY <1>1 DEF MapInv, FileInv
    <3>3. Heap(h)'
      BY <1>2, <3>2, HeapUnchanged
    <3>4. QED
      BY <3>1, <3>2, <3>3, DuesNext DEF Dues
  <2>4. DueBytes(Ids)' = DueBytes(Ids) /\ DueRecs(Ids)' = DueRecs(Ids)
    BY <2>3, DueSame
  <2>5. BytesOwed' = BytesOwed /\ RecsOwed' = RecsOwed
    BY <2>1 DEF BytesOwed, RecsOwed
  <2>6. Balanced'
    BY <2>1, <2>4, <2>5 DEF CountInv, Balanced, Base
  <2>7. ASSUME NEW u \in Users
        PROVE  Bounded(proc[u])' /\ Tallied(u)'
    <3>1. Bounded(proc[u]) /\ Tallied(u)
      BY DEF CountInv
    <3>2. \A g : BytesBefore(g)' = BytesBefore(g) /\ RecsBefore(g)' = RecsBefore(g)
      BY <2>2, <2>3, TallyKept
    <3>3. Tallied(u)'
      BY <2>1, <3>1, <3>2 DEF Tallied
    <3>4. Bounded(proc[u])'
      BY <2>1, <3>1
    <3>5. QED
      BY <3>3, <3>4
  <2>8. QED
    BY <1>1, <2>6, <2>7 DEF CountInv
<1>3. CASE Next
  <2>1. PICK v \in Users : Steps(v)
    BY <1>3, NextSteps
  <2>2. \A u \in Users : Bounded(proc[u]) /\ Tallied(u) /\ Selecting(u)
    BY DEF CountInv, SelectInv
  <2>3. Balanced'
    BY <1>1, <2>1, <2>2, BalancedNext, SelectEndBalanced DEF CountInv
  <2>4. ASSUME NEW u \in Users
        PROVE  Bounded(proc[u])' /\ Tallied(u)'
    <3>1. Tallied(u)'
      BY <1>1, <2>1, <2>2, TalliedStep
    <3>2. u # v => proc'[u] = proc[u]
      BY <1>1, <2>1, StepOrderly, OrderlyIs DEF MapInv, FileInv
    <3>3. Bounded(proc'[u])
      BY <1>1, <2>1, <2>2, <3>2, BoundedNext
    <3>4. Bounded(proc[u])' = Bounded(proc'[u])
      BY DEF Bounded, OwedBytes, OwedRecs, Owes, Bill, Owing, Unit
    <3>5. QED
      BY <3>1, <3>3, <3>4
  <2>5. QED
    BY <1>1, <2>3, <2>4 DEF CountInv
<1>4. QED
  BY <1>2, <1>3

LEMMA CountInit == Init => CountInv
<1> SUFFICES ASSUME Init
             PROVE  CountInv
  OBVIOUS
<1>1. SelectInv
  BY SelectInit
<1>2. \A u \in Users : proc[u].at = "idle"
  BY DEF Init
<1>3. NoneOwed
  BY <1>2, OwesNothing DEF NoneOwed
<1>4. BytesOwed = Base /\ RecsOwed = Base
  BY <1>3, NoneOwedIs
<1>5. \A u \in Users : Tallied(u)
  BY <1>2 DEF Tallied
<1>6. \A u \in Users : Bounded(proc[u])
  <2>1. PICK N \in Nat : N = Unit
    BY UnitIs
  <2>2. 0 \in (-N) .. N
    OBVIOUS
  <2>3. QED
    BY <1>3, <2>1, <2>2 DEF Bounded, NoneOwed, Owing
<1>7. DueBytes(Ids) = 0 /\ DueRecs(Ids) = 0
  <2>1. PICK h : Heap(h) /\ \A i \in Ids : h.kept[i] = {}
    BY InitHeap
  <2>2. \A i \in Ids : Due(i) = NoRec
    <3>1. \A i \in Ids : Due(i) = ValIn(h.kept[i])
      BY <1>1, <2>1, DueIs DEF SelectInv
    <3>2. QED
      BY <2>1, <3>1 DEF ValIn
  <2>3. PICK v, w : /\ v = [i \in Ids |-> IF i \in Ids THEN ByteWt(Due(i)) ELSE 0]
                    /\ w = [i \in Ids |-> IF i \in Ids THEN RecWt(Due(i)) ELSE 0]
    OBVIOUS
  <2>4. \A i \in Ids : v[i] = 0 /\ w[i] = 0
    BY <2>2, <2>3 DEF ByteWt, RecWt
  <2>5. Total(Ids, v) = 0 /\ Total(Ids, w) = 0
    BY <2>4, TotalNone
  <2>6. QED
    BY <2>3, <2>5 DEF DueBytes, DueRecs
<1>8. load = 0 /\ recCount = 0
  BY DEF Init
<1>9. Balanced
  BY <1>4, <1>7, <1>8 DEF Balanced
<1>10. QED
  BY <1>1, <1>5, <1>6, <1>9 DEF CountInv

LEMMA CountsAre == CountInv => CountsExact
<1> SUFFICES ASSUME CountInv, Quiet, ~skewed
             PROVE  recCount = Len(AllRecs) /\ load = Bytes(AllRecs)
  BY DEF CountsExact
<1>1. MapInv
  BY DEF CountInv, SelectInv
<1>2. NoneOwed
  BY OwesNothing DEF Quiet, NoneOwed
<1>3. BytesOwed = Base /\ RecsOwed = Base
  BY <1>2, NoneOwedIs
<1>4. load + BytesOwed = DueBytes(Ids) + Base /\ recCount + RecsOwed = DueRecs(Ids) + Base
  BY DEF CountInv, Balanced
<1>5. PICK l \in Nat, n \in Nat, b \in Nat, r \in Nat, z \in Nat :
        l = load /\ n = recCount /\ b = DueBytes(Ids) /\ r = DueRecs(Ids) /\ z = Base
  <2>1. load \in Nat /\ recCount \in Nat
    BY <1>1 DEF MapInv, FileInv, Typed
  <2>2. QED
    BY <2>1, DueNat, BaseNat
<1>6. l + z = b + z /\ n + z = r + z
  BY <1>3, <1>4, <1>5
<1>7. l = b /\ n = r
  BY <1>6
<1>8. Bytes(AllRecs) = DueBytes(Ids) /\ Len(AllRecs) = DueRecs(Ids)
  BY <1>1, QuietCounts
<1>9. QED
  BY <1>5, <1>7, <1>8

(* Whenever nobody is at anything, the record count and the load that decide *)
(* on splits and merges are those of the blocks of the file, although        *)
(* dh_write and dh_delete adjust them only after the group lock is released, *)
(* each by what its own write changed, and a SELECT that saw no update sets  *)
(* both to what it counted group by group.                                   *)
THEOREM CountsStayExact == Spec => []CountsExact
<1>1. Init => CountInv
  BY CountInit
<1>2. CountInv /\ [Next]_vars => CountInv'
  BY CountInvStep
<1>3. CountInv => CountsExact
  BY CountsAre
<1>4. QED
  BY <1>1, <1>2, <1>3, PTL DEF Spec
=============================================================================
