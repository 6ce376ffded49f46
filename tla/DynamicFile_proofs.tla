------------------------ MODULE DynamicFile_proofs ------------------------
(* The header and the group locks of DynamicFile, for any ids, hash values, *)
(* records, sessions, and any numbers of groups: linear hashing moves ids   *)
(* between two groups at a time, both locked by the session that does it.   *)
(* Then what the proofs about its blocks rest on: sequences of records,     *)
(* chains, and the file as it will be when all buffers are written (Heap).  *)
EXTENDS DynamicFile, FiniteSetTheorems, SequenceTheorems, WellFoundedInduction, TLAPS

-----------------------------------------------------------------------------
(* Division.                                                                *)

LEMMA DivUnique ==
  ASSUME NEW b \in Nat \ {0}, NEW q \in Int, NEW r \in 0 .. (b - 1)
  PROVE  (b * q + r) % b = r
OBVIOUS

LEMMA ModRange ==
  ASSUME NEW a \in Nat, NEW b \in Nat \ {0}
  PROVE  a % b \in 0 .. (b - 1)
<1>1. a % b \in Int
  OBVIOUS
<1>2. a % b >= 0
  OBVIOUS
<1>3. a % b < b
  OBVIOUS
<1>4. QED
  BY <1>1, <1>2, <1>3

LEMMA DivSum ==
  ASSUME NEW a \in Int, NEW b \in Nat \ {0}
  PROVE  a \div b \in Int /\ a % b = a - b * (a \div b)
OBVIOUS

(* A hash value taken modulo 2 * n is the one modulo n or n more.           *)
LEMMA ModTwice ==
  ASSUME NEW a \in Nat, NEW n \in Nat \ {0}
  PROVE  a % n = IF a % (2 * n) < n THEN a % (2 * n) ELSE (a % (2 * n)) - n
<1> DEFINE x == a % (2 * n)
           q == a \div (2 * n)
<1>1. x \in 0 .. (2 * n - 1)
  BY ModRange
<1>2. q \in Int /\ x = a - (2 * n) * q
  <2> DEFINE m == 2 * n
  <2>1. m \in Nat \ {0}
    OBVIOUS
  <2> HIDE DEF m
  <2>2. a \div m \in Int /\ a % m = a - m * (a \div m)
    BY <2>1, DivSum
  <2>3. QED
    BY <2>2 DEF m
<1> HIDE DEF x, q
<1>4. a = n * (2 * q) + x
  BY <1>1, <1>2
<1>5. CASE x < n
  <2>1. x \in 0 .. (n - 1) /\ 2 * q \in Int
    BY <1>1, <1>2, <1>5
  <2>2. a % n = x
    BY <1>4, <2>1, DivUnique
  <2>3. QED
    BY <1>5, <2>2 DEF x
<1>6. CASE ~(x < n)
  <2>1. x - n \in 0 .. (n - 1) /\ 2 * q + 1 \in Int
    BY <1>1, <1>2, <1>6
  <2>2. a = n * (2 * q + 1) + (x - n)
    BY <1>1, <1>2, <1>4
  <2>3. a % n = x - n
    BY <2>1, <2>2, DivUnique
  <2>4. QED
    BY <1>6, <2>3 DEF x
<1>7. QED
  BY <1>5, <1>6

LEMMA HalfOfEven ==
  ASSUME NEW v \in Nat, v % 2 = 0
  PROVE  v \div 2 \in Nat /\ v = 2 * (v \div 2)
OBVIOUS

(* Powers of two.                                                           *)
LEMMA PowerIsEven ==
  ASSUME NEW v \in Nat, v > 1, IsPowerOf2(v)
  PROVE  v % 2 = 0
<1>1. v \in 2 .. v /\ v % v = 0
  BY DivUnique
<1>2. QED
  BY <1>1 DEF IsPowerOf2

LEMMA HalfPower ==
  ASSUME NEW v \in Nat, v > 1, IsPowerOf2(v)
  PROVE  IsPowerOf2(v \div 2) /\ v = 2 * (v \div 2) /\ v \div 2 \in Nat \ {0}
<1> DEFINE n == v \div 2
<1>1. n \in Nat \ {0} /\ v = 2 * n
  BY PowerIsEven, HalfOfEven
<1> HIDE DEF n
<1>2. ASSUME NEW d \in 2 .. n, n % d = 0
      PROVE  d % 2 = 0
  <2>1. n \div d \in Int /\ n = d * (n \div d) + 0
    BY <1>1, <1>2
  <2> DEFINE q == n \div d
  <2> HIDE DEF q
  <2>2. q \in Int /\ n = d * q
    BY <1>1, <2>1 DEF q
  <2>3. v = d * (2 * q) + 0 /\ 2 * q \in Int /\ d \in Nat \ {0} /\ 0 \in 0 .. (d - 1)
    BY <1>1, <2>2
  <2>4. v % d = 0
    BY <2>3, DivUnique
  <2>5. d \in 2 .. v
    BY <1>1
  <2>6. QED
    BY <2>4, <2>5 DEF IsPowerOf2
<1>3. QED
  BY <1>1, <1>2 DEF n, IsPowerOf2

LEMMA DoublePower ==
  ASSUME NEW n \in Nat \ {0}, IsPowerOf2(n)
  PROVE  IsPowerOf2(2 * n)
<1>1. SUFFICES ASSUME NEW d \in 2 .. (2 * n), (2 * n) % d = 0, d % 2 = 1
               PROVE  FALSE
  <2>1. \A d \in 2 .. (2 * n) : d % 2 \in {0, 1}
    OBVIOUS
  <2>2. QED
    BY <1>1, <2>1 DEF IsPowerOf2
<1> DEFINE q == (2 * n) \div d
           e == d \div 2
<1>2. q \in Int /\ 2 * n = d * q
  BY <1>1
<1>3. e \in Nat /\ d = 2 * e + 1
  BY <1>1
<1> HIDE DEF q, e
<1>4. q % 2 = 0
  <2>1. q % 2 \in {0, 1} /\ q \div 2 \in Int /\ q % 2 = q - 2 * (q \div 2)
    <3>1. q % 2 \in {0, 1}
      BY <1>2
    <3>2. q \div 2 \in Int /\ q % 2 = q - 2 * (q \div 2)
      BY <1>2
    <3>3. QED
      BY <3>1, <3>2
  <2> DEFINE p == q \div 2
  <2>2. CASE q % 2 = 1
    <3>1. p \in Int /\ q = 2 * p + 1
      BY <1>2, <2>1, <2>2
    <3> HIDE DEF p
    <3>2. 2 * n = 2 * (2 * (e * p) + p + e) + 1
      BY <1>2, <1>3, <3>1
    <3>3. e * p \in Int
      BY <1>3, <3>1
    <3>4. QED
      BY <3>1, <3>2, <3>3, <1>3
  <2>3. QED
    BY <2>1, <2>2
<1>5. PICK p \in Int : q = 2 * p
  BY <1>2, <1>4
<1>6. n = d * p + 0
  BY <1>2, <1>5
<1>7. n % d = 0
  BY <1>6, DivUnique
<1>8. d <= n
  <2>1. p > 0
    <3>1. CASE p <= 0
      <4>1. d * p <= 0
        BY <3>1
      <4>2. QED
        BY <1>6, <4>1
    <3>2. QED
      BY <3>1
  <2>2. d * p >= d
    BY <2>1
  <2>3. QED
    BY <1>6, <2>2
<1>9. d \in 2 .. n
  BY <1>8
<1>10. d % 2 = 0
  BY <1>7, <1>9 DEF IsPowerOf2
<1>11. QED
  BY <1>1, <1>10

-----------------------------------------------------------------------------
(* Linear hashing.                                                          *)

GroupOf(h, mod, value) ==
  IF (h % value) + 1 > mod THEN (h % (value \div 2)) + 1 ELSE (h % value) + 1

HeaderOK(mod, value) ==
  /\ mod \in Nat \ {0} /\ value \in Nat \ {0} /\ IsPowerOf2(value)
  /\ mod <= value /\ value < 2 * mod

LEMMA GroupInFile ==
  ASSUME NEW h \in Nat, NEW mod, NEW value, HeaderOK(mod, value)
  PROVE  GroupOf(h, mod, value) \in 1 .. mod
<1>1. h % value \in 0 .. (value - 1)
  BY ModRange DEF HeaderOK
<1>2. CASE (h % value) + 1 > mod
  <2>1. value > 1
    BY <1>1, <1>2 DEF HeaderOK
  <2> DEFINE n == value \div 2
  <2>2. n \in Nat \ {0} /\ value = 2 * n
    BY <2>1, HalfPower DEF HeaderOK
  <2> HIDE DEF n
  <2>3. h % n \in 0 .. (n - 1)
    BY <2>2, ModRange
  <2>4. (h % n) + 1 \in 1 .. mod
    BY <2>2, <2>3 DEF HeaderOK
  <2>5. QED
    BY <1>2, <2>4 DEF GroupOf, n
<1>3. CASE ~((h % value) + 1 > mod)
  BY <1>1, <1>3 DEF GroupOf, HeaderOK
<1>4. QED
  BY <1>2, <1>3

ValueUp(mod, value) == IF mod + 1 > value THEN 2 * value ELSE value

(* Of the groups of a larger file, the last one has the ids that are in g   *)
(* of the smaller one.                                                      *)
OneMore(mod, value, new, up, g) ==
  \A h \in Nat : IF GroupOf(h, new, up) = new THEN GroupOf(h, mod, value) = g
                 ELSE GroupOf(h, new, up) = GroupOf(h, mod, value)

(* One more group takes ids from its twin only.                             *)
LEMMA GroupSplits ==
  ASSUME NEW mod, NEW value, HeaderOK(mod, value), NEW up, up = ValueUp(mod, value)
  PROVE  /\ HeaderOK(mod + 1, up) /\ (mod + 1) - up \div 2 \in 1 .. mod
         /\ OneMore(mod, value, mod + 1, up, (mod + 1) - up \div 2)
<1>0. up = IF mod + 1 > value THEN 2 * value ELSE value
  BY DEF ValueUp
<1>1. HeaderOK(mod + 1, up)
  <2>1. IsPowerOf2(up)
    BY <1>0, DoublePower DEF HeaderOK
  <2>2. QED
    BY <1>0, <2>1 DEF HeaderOK
<1> DEFINE n == up \div 2
<1>2. n \in Nat \ {0} /\ up = 2 * n
  <2>1. up > 1
    BY <1>1 DEF HeaderOK
  <2>2. QED
    BY <1>1, <2>1, HalfPower DEF HeaderOK
<1> HIDE DEF n
<1>3. (mod + 1) - n \in 1 .. mod
  BY <1>1, <1>2 DEF HeaderOK
<1>4. ASSUME NEW h \in Nat
      PROVE  IF GroupOf(h, mod + 1, up) = mod + 1
               THEN GroupOf(h, mod, value) = (mod + 1) - n
               ELSE GroupOf(h, mod + 1, up) = GroupOf(h, mod, value)
  <2> DEFINE x == h % up
  <2>1. x \in 0 .. (2 * n - 1)
    <3>1. up \in Nat \ {0}
      BY <1>1 DEF HeaderOK
    <3>2. h % up \in 0 .. (up - 1)
      BY <3>1, ModRange
    <3>3. QED
      BY <1>2, <3>2
  <2>2. h % n = IF x < n THEN x ELSE x - n
    BY <1>2, ModTwice
  <2>3. GroupOf(h, mod + 1, up) = IF x + 1 > mod + 1 THEN (h % n) + 1 ELSE x + 1
    BY DEF GroupOf, n
  <2>4. CASE up = value
    <3>1. GroupOf(h, mod, value) = IF x + 1 > mod THEN (h % n) + 1 ELSE x + 1
      BY <2>4 DEF GroupOf, n
    <3>2. n <= mod /\ mod + 1 <= 2 * n
      BY <1>1, <1>2, <2>4 DEF HeaderOK
    <3> HIDE DEF x
    <3>3. mod \in Nat
      BY DEF HeaderOK
    <3>4. QED
      BY <1>2, <2>1, <2>2, <2>3, <3>1, <3>2, <3>3
  <2>5. CASE up # value
    <3>1. mod = value /\ n = value
      BY <1>0, <1>2, <2>5 DEF HeaderOK
    <3>2. h % value \in 0 .. (value - 1)
      BY ModRange DEF HeaderOK
    <3>3. GroupOf(h, mod, value) = (h % n) + 1
      BY <3>1, <3>2 DEF GroupOf, HeaderOK
    <3> HIDE DEF x
    <3>4. QED
      BY <1>2, <2>1, <2>2, <2>3, <3>1, <3>3
  <2>6. QED
    BY <2>4, <2>5
<1>5. QED
  BY <1>1, <1>3, <1>4 DEF n, OneMore

(* One group less is what there was before the split that made it.          *)
LEMMA GroupMerges ==
  ASSUME NEW mod, NEW value, HeaderOK(mod, value), mod > 1,
         NEW down, down = IF mod - 1 = value \div 2 THEN value \div 2 ELSE value
  PROVE  /\ HeaderOK(mod - 1, down)
         /\ value = ValueUp(mod - 1, down)
<1> DEFINE n == value \div 2
<1>1. IsPowerOf2(n) /\ n \in Nat \ {0} /\ value = 2 * n
  BY HalfPower DEF HeaderOK
<1> HIDE DEF n
<1>2. CASE mod - 1 = n
  <2>1. down = n
    BY <1>2 DEF n
  <2>2. QED
    BY <1>1, <1>2, <2>1 DEF HeaderOK, ValueUp
<1>3. CASE mod - 1 # n
  <2>1. down = value
    BY <1>3 DEF n
  <2>2. QED
    BY <1>1, <1>3, <2>1 DEF HeaderOK, ValueUp
<1>4. QED
  BY <1>2, <1>3

-----------------------------------------------------------------------------
(* Who has what locked.                                                     *)

Resizing(u) ==
  \/ proc[u].at \in {"source", "release"}
  \/ proc[u].at = "rewrite" /\ proc[u].then.at = "release"

(* The sessions that inhibit_count counts.                                  *)
Holding == {u \in Users : Resizing(u) \/ proc[u].at = "select"}

HeaderInv ==
  /\ HeaderOK(modulus, modValue)
  /\ MinModulus <= modulus /\ modulus <= MaxModulus
  /\ inhibit = Cardinality(Holding)

LocksInv ==
  /\ glock \subseteq [owner : Users, group : Groups, write : BOOLEAN]
  /\ \A l, m \in glock : l.group = m.group /\ l.write => l = m

Tidying(p) == p = [at |-> p.at, big |-> p.big, bytes |-> p.bytes, recs |-> p.recs]

(* What a session keeps of what it is at.                                   *)
Shape(p) ==
  /\ p.at = "rewrite" =>
       /\ p = [at |-> "rewrite", was |-> p.was, put |-> p.put, then |-> p.then, job |-> p.job]
       /\ \/ p.then.at = "tidy" /\ Tidying(p.then)
          \/ p.then = [at |-> "release"]
  /\ p.at = "tidy" => Tidying(p)
  /\ p.at = "select" => p = [at |-> "select", group |-> p.group, picked |-> p.picked, upd |-> p.upd,
                             bytes |-> p.bytes, gap |-> p.gap]

(* The locks of a session.                                                  *)
SessionOK(u) ==
  /\ Shape(proc[u])
  /\ proc[u].at = "read" => /\ proc[u].id \in Ids
                            /\ MyLock(u, proc[u].group, FALSE) \in glock
  /\ proc[u].at \in {"big", "write"} => proc[u].rec.id \in Ids
  /\ proc[u].at = "source" => /\ proc[u].new = modulus /\ modulus > 1
                              /\ proc[u].group = modulus - modValue \div 2
                              /\ MyLock(u, modulus, TRUE) \in glock
                              /\ \A l \in glock : l.owner = u => l.group = modulus
  /\ proc[u].at \notin {"read", "source", "rewrite"} => \A l \in glock : l.owner # u

HomeOK(u) ==
  /\ proc[u].at = "read" => proc[u].group = Home(proc[u].id)
  /\ proc[u].at = "rewrite" =>
       \A i \in Ids : i \in DOMAIN proc[u].was <=> MyLock(u, Home(i), TRUE) \in glock

OneResizes == \A u, v \in Users : Resizing(u) /\ Resizing(v) => u = v

HashInv ==
  /\ HeaderInv /\ LocksInv
  /\ proc = [u \in Users |-> proc[u]]
  /\ OneResizes
  /\ \A u \in Users : SessionOK(u) /\ HomeOK(u)

LEMMA HomesOK == LockedAtHome <=> \A u \in Users : HomeOK(u)
BY DEF LockedAtHome, HomeOK

LEMMA HashGroupOf == \A i \in Ids : HashGroup(i) = GroupOf(HashOf[i], modulus, modValue)
BY DEF HashGroup, GroupOf

LEMMA HashInFile ==
  ASSUME HeaderInv, NEW i \in Ids
  PROVE  HashGroup(i) \in 1 .. modulus /\ HashGroup(i) \in Groups
<1>1. HashOf[i] \in Nat /\ MaxModulus \in Nat
  BY FileConstants
<1>2. HashGroup(i) \in 1 .. modulus
  BY <1>1, HashGroupOf, GroupInFile DEF HeaderInv
<1>3. QED
  BY <1>1, <1>2 DEF HeaderInv, HeaderOK, Groups

(* The session that is about to move an id.                                 *)
Movers(i) == {u \in Users : proc[u].at = "source" /\ proc[u].new = HashGroup(i)}

LEMMA HomeIs ==
  ASSUME NEW i
  PROVE  Home(i) = IF Movers(i) = {} THEN HashGroup(i) ELSE proc[CHOOSE u \in Movers(i) : TRUE].group
BY DEF Home, Movers

(* A step of a session that is not between the locks of a split.            *)
LEMMA HomesSame ==
  ASSUME UNCHANGED <<modulus, modValue>>, proc = [v \in Users |-> proc[v]],
         NEW u \in Users, NEW p, proc' = [proc EXCEPT ![u] = p],
         proc[u].at # "source", p.at # "source"
  PROVE  \A i \in Ids : Home(i)' = Home(i)
<1> TAKE i \in Ids
<1>1. HashGroup(i)' = HashGroup(i)
  BY DEF HashGroup
<1>2. proc'[u] = p /\ \A v \in Users : v # u => proc'[v] = proc[v]
  OBVIOUS
<1>3. Movers(i)' = Movers(i) /\ u \notin Movers(i)
  BY <1>1, <1>2 DEF Movers
<1>4. Movers(i) # {} => LET m == CHOOSE v \in Movers(i) : TRUE IN proc'[m] = proc[m]
  BY <1>2, <1>3 DEF Movers
<1>5. Home(i)' = IF Movers(i)' = {} THEN HashGroup(i)'
                                    ELSE proc'[CHOOSE v \in Movers(i)' : TRUE].group
  BY DEF Home, Movers
<1>6. QED
  BY <1>1, <1>3, <1>4, <1>5, HomeIs

(* No id leaves or enters a group but one that u has locked for writing.    *)
MovesLocked(u) ==
  \A i \in Ids : Home(i)' # Home(i) =>
    MyLock(u, Home(i), TRUE) \in glock' /\ MyLock(u, Home(i)', TRUE) \in glock'

(* What a step of u has to do: the other sessions are then as they were.    *)
LEMMA StepInv ==
  ASSUME HashInv, NEW u \in Users, NEW p, proc' = [proc EXCEPT ![u] = p],
         \A l : l.owner # u => (l \in glock' <=> l \in glock),
         HeaderInv', LocksInv', SessionOK(u)', HomeOK(u)',
         Resizing(u)' => Resizing(u) \/ \A v \in Users : ~Resizing(v),
         UNCHANGED <<modulus, modValue>> \/ \A v \in Users : v # u => ~Resizing(v),
         MovesLocked(u)
  PROVE  HashInv'
<1>1. proc'[u] = p /\ \A v \in Users : v # u => proc'[v] = proc[v]
  BY DEF HashInv
<1>2. proc' = [v \in Users |-> proc'[v]]
  BY DEF HashInv
<1>3. \A v \in Users : v # u => (Resizing(v)' <=> Resizing(v))
  BY <1>1 DEF Resizing
<1>4. OneResizes'
  BY <1>3 DEF HashInv, OneResizes
<1>5. ASSUME NEW v \in Users, v # u
      PROVE  SessionOK(v)' /\ HomeOK(v)'
  <2>1. SessionOK(v) /\ HomeOK(v)
    BY DEF HashInv
  <2>2. \A g, w : MyLock(v, g, w) \in glock' <=> MyLock(v, g, w) \in glock
    BY <1>5 DEF MyLock
  <2>3. SessionOK(v)'
    <3>1. proc[v].at = "source" => UNCHANGED <<modulus, modValue>>
      BY <1>5 DEF Resizing
    <3>2. \A l \in glock' : l.owner = v => l \in glock
      BY <1>5
    <3>3. QED
      BY <1>1, <1>5, <2>1, <2>2, <3>1, <3>2 DEF SessionOK
  <2>4. HomeOK(v)'
    <3>1. ASSUME NEW i \in Ids, MyLock(v, Home(i), TRUE) \in glock' \/ MyLock(v, Home(i), FALSE) \in glock'
          PROVE  Home(i)' = Home(i)
      <4>1. SUFFICES ASSUME Home(i)' # Home(i)
                     PROVE  FALSE
        OBVIOUS
      <4>2. MyLock(u, Home(i), TRUE) \in glock'
        BY <4>1 DEF MovesLocked
      <4>3. MyLock(v, Home(i), TRUE) = MyLock(u, Home(i), TRUE)
            \/ MyLock(v, Home(i), FALSE) = MyLock(u, Home(i), TRUE)
        BY <3>1, <4>2 DEF LocksInv, MyLock
      <4>4. QED
        BY <1>5, <4>3 DEF MyLock
    <3>2. ASSUME NEW i \in Ids, MyLock(v, Home(i)', TRUE) \in glock'
          PROVE  Home(i)' = Home(i)
      <4>1. SUFFICES ASSUME Home(i)' # Home(i)
                     PROVE  FALSE
        OBVIOUS
      <4>2. MyLock(u, Home(i)', TRUE) \in glock'
        BY <4>1 DEF MovesLocked
      <4>3. MyLock(v, Home(i)', TRUE) = MyLock(u, Home(i)', TRUE)
        BY <3>2, <4>2 DEF LocksInv, MyLock
      <4>4. QED
        BY <1>5, <4>3 DEF MyLock
    <3>3. ASSUME proc'[v].at = "read"
          PROVE  (proc[v].group = Home(proc[v].id))'
      <4>1. PICK i \in Ids : i = proc[v].id
        BY <1>1, <1>5, <2>1, <3>3 DEF SessionOK
      <4>2. /\ proc'[v].id = i /\ proc'[v].group = Home(i)
            /\ MyLock(v, Home(i), FALSE) \in glock'
        BY <1>1, <1>5, <2>1, <2>2, <3>3, <4>1 DEF SessionOK, HomeOK
      <4>3. Home(i)' = Home(i)
        BY <3>1, <4>2
      <4>4. QED
        BY <4>2, <4>3
    <3>4. ASSUME proc'[v].at = "rewrite", NEW i \in Ids
          PROVE  i \in DOMAIN proc'[v].was <=> MyLock(v, Home(i)', TRUE) \in glock'
      <4>1. i \in DOMAIN proc[v].was <=> MyLock(v, Home(i), TRUE) \in glock'
        BY <1>1, <1>5, <2>1, <2>2, <3>4 DEF HomeOK
      <4>2. QED
        BY <1>1, <1>5, <3>1, <3>2, <4>1
    <3>5. QED
      BY <3>3, <3>4 DEF HomeOK
  <2>5. QED
    BY <2>3, <2>4
<1>6. QED
  BY <1>2, <1>4, <1>5 DEF HashInv

-----------------------------------------------------------------------------
(* inhibit_count.                                                           *)

LEMMA HoldingFinite ==
  ASSUME HashInv
  PROVE  /\ IsFiniteSet(Holding) /\ inhibit \in Nat
         /\ inhibit = 0 => Holding = {}
<1>1. IsFiniteSet(Holding)
  BY FileConstants, FS_Subset DEF Holding
<1>2. QED
  BY <1>1, FS_CardinalityType, FS_EmptySet DEF HashInv, HeaderInv

LEMMA HoldingMoves ==
  ASSUME HashInv, NEW u \in Users, NEW p, proc' = [proc EXCEPT ![u] = p]
  PROVE  /\ Cardinality(Holding') =
              IF u \in Holding THEN IF u \in Holding' THEN inhibit ELSE inhibit - 1
              ELSE IF u \in Holding' THEN inhibit + 1 ELSE inhibit
         /\ \A v \in Users : v # u => (Resizing(v)' <=> Resizing(v))
<1>1. proc'[u] = p /\ \A v \in Users : v # u => proc'[v] = proc[v]
  BY DEF HashInv
<1>2. \A v \in Users : v # u => (Resizing(v)' <=> Resizing(v))
  BY <1>1 DEF Resizing
<1>3. \A v \in Users : v # u => (v \in Holding' <=> v \in Holding)
  BY <1>1, <1>2 DEF Holding
<1>4. IsFiniteSet(Holding) /\ inhibit = Cardinality(Holding) /\ Holding \subseteq Users /\ Holding' \subseteq Users
  BY HoldingFinite DEF HashInv, HeaderInv, Holding
<1>5. CASE (u \in Holding) = (u \in Holding')
  <2>1. Holding' = Holding
    BY <1>3, <1>4, <1>5
  <2>2. QED
    BY <1>2, <1>4, <1>5, <2>1
<1>6. CASE u \in Holding /\ u \notin Holding'
  <2>1. Holding' = Holding \ {u}
    BY <1>3, <1>4, <1>6
  <2>2. QED
    BY <1>2, <1>4, <1>6, <2>1, FS_RemoveElement
<1>7. CASE u \notin Holding /\ u \in Holding'
  <2>1. Holding' = Holding \cup {u}
    BY <1>3, <1>4, <1>7
  <2>2. QED
    BY <1>2, <1>4, <1>7, <2>1, FS_AddElement
<1>8. QED
  BY <1>5, <1>6, <1>7

-----------------------------------------------------------------------------
(* Group locks.                                                             *)

LEMMA Granted ==
  ASSUME LocksInv, NEW u \in Users, NEW g \in Groups, NEW w \in BOOLEAN, CanLock(g, w),
         glock' = glock \cup {MyLock(u, g, w)}
  PROVE  LocksInv' /\ \A l : l.owner # u => (l \in glock' <=> l \in glock)
<1>1. MyLock(u, g, w) \in [owner : Users, group : Groups, write : BOOLEAN]
  BY DEF MyLock
<1>2. ASSUME NEW l \in glock', NEW m \in glock', l.group = m.group, l.write
      PROVE  l = m
  <2>1. CASE l \in glock /\ m \in glock
    BY <1>2, <2>1 DEF LocksInv
  <2>2. CASE l = MyLock(u, g, w) /\ m \in glock
    BY <1>2, <2>2 DEF CanLock, MyLock
  <2>3. CASE l \in glock /\ m = MyLock(u, g, w)
    BY <1>2, <2>3 DEF CanLock, MyLock
  <2>4. QED
    BY <1>2, <2>1, <2>2, <2>3
<1>3. \A l : l.owner # u => l # MyLock(u, g, w)
  BY DEF MyLock
<1>4. QED
  BY <1>1, <1>2, <1>3 DEF LocksInv

LEMMA GivenUp ==
  ASSUME LocksInv, NEW u \in Users, glock' = LocksLeft(u)
  PROVE  /\ LocksInv' /\ \A l : l.owner # u => (l \in glock' <=> l \in glock)
         /\ \A l \in glock' : l.owner # u
BY DEF LocksInv, LocksLeft

-----------------------------------------------------------------------------
(* A group that can be locked is one that no session is about to fill.      *)
LEMMA HomeUnlocked ==
  ASSUME HashInv, NEW i \in Ids, NEW w, CanLock(HashGroup(i), w)
  PROVE  Home(i) = HashGroup(i)
<1>1. ASSUME NEW v \in Movers(i)
      PROVE  FALSE
  <2>1. v \in Users /\ proc[v].at = "source" /\ proc[v].new = HashGroup(i) /\ SessionOK(v)
    BY <1>1 DEF Movers, HashInv
  <2>2. MyLock(v, HashGroup(i), TRUE) \in glock
    BY <2>1 DEF SessionOK
  <2>3. QED
    BY <2>2 DEF CanLock, MyLock
<1>2. QED
  BY <1>1, HomeIs

(* A step that leaves the header alone.                                     *)
LEMMA PlainStep ==
  ASSUME HashInv, NEW u \in Users, NEW p, proc' = [proc EXCEPT ![u] = p],
         UNCHANGED <<modulus, modValue, inhibit>>,
         proc[u].at # "source", p.at # "source",
         Resizing(u)' <=> Resizing(u), (p.at = "select") <=> (proc[u].at = "select"),
         \A l : l.owner # u => (l \in glock' <=> l \in glock),
         LocksInv', SessionOK(u)', HomeOK(u)'
  PROVE  HashInv' /\ MovesLocked(u)
<1>1. proc = [v \in Users |-> proc[v]] /\ proc'[u] = p
  BY DEF HashInv
<1>2. \A i \in Ids : Home(i)' = Home(i)
  BY <1>1, HomesSame
<1>3. (u \in Holding') <=> (u \in Holding)
  BY <1>1 DEF Holding
<1>4. inhibit' = Cardinality(Holding')
  BY <1>3, HoldingMoves
<1>5. HeaderInv'
  BY <1>4 DEF HashInv, HeaderInv
<1>6. MovesLocked(u)
  BY <1>2 DEF MovesLocked
<1>7. QED
  BY <1>5, <1>6, StepInv

-----------------------------------------------------------------------------
(* Each action.                                                             *)

(* A session without locks that gets to another step of the same kind.      *)
LEMMA QuietStep ==
  ASSUME HashInv, NEW u \in Users, NEW p, proc' = [proc EXCEPT ![u] = p],
         UNCHANGED <<modulus, modValue, inhibit, glock>>,
         proc[u].at \in {"idle", "big", "write", "tidy", "account", "resize", "split", "merge"},
         p.at \in {"idle", "big", "write", "account", "resize", "split", "merge"},
         p.at \in {"big", "write"} => p.rec.id \in Ids
  PROVE  HashInv' /\ MovesLocked(u)
<1>1. proc = [v \in Users |-> proc[v]] /\ proc'[u] = p /\ SessionOK(u)
  BY DEF HashInv
<1>2. LocksInv'
  BY DEF HashInv, LocksInv
<1>3. SessionOK(u)' /\ HomeOK(u)' /\ ~Resizing(u) /\ ~Resizing(u)'
  BY <1>1 DEF SessionOK, HomeOK, Shape, Resizing
<1>4. QED
  BY <1>2, <1>3, PlainStep

LEMMA ReadStep ==
  ASSUME HashInv, NEW u \in Users, Read(u)
  PROVE  HashInv' /\ MovesLocked(u)
<1>1. PICK i \in Ids :
        /\ CanLock(HashGroup(i), FALSE)
        /\ glock' = glock \cup {MyLock(u, HashGroup(i), FALSE)}
        /\ Goes(u, [at |-> "read", id |-> i, group |-> HashGroup(i)])
  BY DEF Read
<1> DEFINE p == [at |-> "read", id |-> i, group |-> HashGroup(i)]
<1>2. proc' = [proc EXCEPT ![u] = p] /\ proc = [v \in Users |-> proc[v]] /\ proc[u].at = "idle"
  BY <1>1 DEF Goes, Read, HashInv
<1>3. proc'[u] = p
  BY <1>2
<1>4. LocksInv' /\ \A l : l.owner # u => (l \in glock' <=> l \in glock)
  BY <1>1, HashInFile, Granted DEF HashInv
<1>5. UNCHANGED <<modulus, modValue, inhibit>>
  BY DEF Read, header
<1>6. Home(i)' = HashGroup(i)
  <2>1. p.at # "source"
    OBVIOUS
  <2> HIDE DEF p
  <2>2. Home(i)' = Home(i)
    BY <1>2, <1>5, <2>1, HomesSame
  <2>3. QED
    BY <1>1, <2>2, HomeUnlocked
<1>7. SessionOK(u)'
  BY <1>1, <1>3 DEF SessionOK, Shape
<1>8. HomeOK(u)'
  BY <1>3, <1>6 DEF HomeOK
<1>9. ~Resizing(u) /\ ~Resizing(u)'
  BY <1>2, <1>3 DEF Resizing
<1> HIDE DEF p
<1>10. p.at = "read"
  BY DEF p
<1>11. QED
  BY <1>2, <1>4, <1>5, <1>7, <1>8, <1>9, <1>10, PlainStep

LEMMA ReadGroupStep ==
  ASSUME HashInv, NEW u \in Users, ReadGroup(u)
  PROVE  HashInv' /\ MovesLocked(u)
<1> DEFINE p == [at |-> "idle"]
<1>1. proc' = [proc EXCEPT ![u] = p] /\ proc = [v \in Users |-> proc[v]] /\ proc[u].at = "read"
  BY DEF Goes, ReadGroup, HashInv
<1>2. proc'[u] = p
  BY <1>1
<1>3. /\ LocksInv' /\ \A l : l.owner # u => (l \in glock' <=> l \in glock)
      /\ \A l \in glock' : l.owner # u
  BY GivenUp DEF ReadGroup, HashInv
<1>4. UNCHANGED <<modulus, modValue, inhibit>>
  BY DEF ReadGroup, header
<1>5. SessionOK(u)' /\ HomeOK(u)' /\ ~Resizing(u) /\ ~Resizing(u)'
  BY <1>1, <1>2, <1>3 DEF SessionOK, Shape, HomeOK, Resizing
<1>6. QED
  BY <1>1, <1>3, <1>4, <1>5, PlainStep

(* The ids a session begins to rewrite are those of the groups it locks.    *)
LEMMA LockedStep ==
  ASSUME HashInv, NEW u \in Users, NEW g \in Groups, CanLock(g, TRUE),
         glock' = glock \cup {MyLock(u, g, TRUE)},
         NEW job, NEW put, NEW after, after.at = "tidy", Tidying(after),
         Rewrite(u, {g}, job, put, after), proc[u].at \in {"idle", "write"},
         UNCHANGED <<modulus, modValue, inhibit>>
  PROVE  HashInv' /\ MovesLocked(u)
<1> DEFINE was == Snapshot({g})
           p == [at |-> "rewrite", was |-> was, put |-> put, then |-> after, job |-> job]
<1>1. proc' = [proc EXCEPT ![u] = p] /\ proc = [v \in Users |-> proc[v]]
  BY DEF Rewrite, Goes, HashInv
<1>2. DOMAIN was = {j \in Ids : Home(j) = g}
  BY DEF Snapshot
<1> HIDE DEF was
<1>3. proc'[u] = p
  BY <1>1
<1>4. LocksInv' /\ \A l : l.owner # u => (l \in glock' <=> l \in glock)
  BY Granted DEF HashInv
<1>5. \A i \in Ids : Home(i)' = Home(i)
  BY <1>1, HomesSame
<1>6. SessionOK(u)'
  BY <1>3 DEF SessionOK, Shape
<1>7. \A h : MyLock(u, h, TRUE) \in glock' <=> h = g
  BY DEF HashInv, SessionOK, MyLock
<1>8. HomeOK(u)'
  <2>1. proc'[u].at = "rewrite" /\ proc'[u].was = was
    BY <1>3
  <2>2. ASSUME NEW i \in Ids
        PROVE  i \in DOMAIN proc'[u].was <=> MyLock(u, Home(i)', TRUE) \in glock'
    BY <1>2, <1>5, <1>7, <2>1
  <2>3. QED
    BY <2>1, <2>2 DEF HomeOK
<1>9. ~Resizing(u) /\ ~Resizing(u)'
  BY <1>3 DEF Resizing
<1>10. p.at = "rewrite"
  OBVIOUS
<1> HIDE DEF p
<1>11. QED
  BY <1>1, <1>4, <1>6, <1>8, <1>9, <1>10, PlainStep

LEMMA LockToWriteStep ==
  ASSUME HashInv, NEW u \in Users, NEW r, r.id \in Ids, LockToWrite(u, r),
         proc[u].at \in {"idle", "write"}
  PROVE  HashInv' /\ MovesLocked(u)
<1> DEFINE g == HashGroup(r.id)
           after == [at |-> "tidy", big |-> OldBig(OldRec(r.id)),
                     bytes |-> Size[r.val] - OldSize(OldRec(r.id)),
                     recs |-> IF OldRec(r.id) = {} THEN 1 ELSE 0]
<1>1. /\ CanLock(g, TRUE) /\ glock' = glock \cup {MyLock(u, g, TRUE)}
      /\ Rewrite(u, {g}, WriteJob(g, r), {[id |-> r.id, val |-> r.val]}, after)
      /\ UNCHANGED <<modulus, modValue, inhibit>>
  BY DEF LockToWrite
<1>2. after.at = "tidy" /\ Tidying(after)
  BY DEF Tidying
<1>3. g \in Groups
  BY HashInFile DEF HashInv
<1> HIDE DEF g, after
<1>4. QED
  BY <1>1, <1>2, <1>3, LockedStep

LEMMA WriteStep ==
  ASSUME HashInv, NEW u \in Users, Write(u)
  PROVE  HashInv' /\ MovesLocked(u)
<1>1. PICK i \in Ids, v \in Vals : LockToWrite(u, [id |-> i, val |-> v, big |-> None])
  BY DEF Write
<1>2. QED
  BY <1>1, LockToWriteStep DEF Write

LEMMA WriteAfterBigStep ==
  ASSUME HashInv, NEW u \in Users, WriteAfterBig(u)
  PROVE  HashInv' /\ MovesLocked(u)
<1>1. LockToWrite(u, proc[u].rec) /\ proc[u].rec.id \in Ids /\ proc[u].at = "write"
  BY DEF WriteAfterBig, HashInv, SessionOK
<1>2. QED
  BY <1>1, LockToWriteStep

LEMMA BigDoneStep ==
  ASSUME HashInv, NEW u \in Users, NEW r, r.id \in Ids, NEW o, NEW n, Goes(u, BigDone(r, o, n)),
         proc[u].at \in {"idle", "big"}, UNCHANGED <<modulus, modValue, inhibit, glock>>
  PROVE  HashInv' /\ MovesLocked(u)
<1> DEFINE p == BigDone(r, o, n)
<1>1. p.at \in {"big", "write"} /\ p.rec.id \in Ids
  BY DEF BigDone
<1>2. proc' = [proc EXCEPT ![u] = p]
  BY DEF Goes
<1> HIDE DEF p
<1>3. QED
  BY <1>1, <1>2, QuietStep

LEMMA WriteBigStep ==
  ASSUME HashInv, NEW u \in Users, WriteBig(u)
  PROVE  HashInv' /\ MovesLocked(u)
<1>1. PICK i \in Ids, v \in Vals :
        Goes(u, BigDone([id |-> i, val |-> v, big |-> NewBlock], NewBlock, 1))
  BY DEF WriteBig
<1> DEFINE r == [id |-> i, val |-> v, big |-> NewBlock]
<1>2. r.id \in Ids /\ Goes(u, BigDone(r, NewBlock, 1))
  BY <1>1
<1>3. proc[u].at = "idle" /\ UNCHANGED <<modulus, modValue, inhibit, glock>>
  BY DEF WriteBig, header
<1> HIDE DEF r
<1>4. QED
  BY <1>2, <1>3, BigDoneStep

LEMMA MoreBigStep ==
  ASSUME HashInv, NEW u \in Users, MoreBig(u)
  PROVE  HashInv' /\ MovesLocked(u)
<1>1. Goes(u, BigDone(proc[u].rec, NewBlock, proc[u].nth + 1)) /\ proc[u].at = "big"
  BY DEF MoreBig
<1>2. UNCHANGED <<modulus, modValue, inhibit, glock>>
  BY DEF MoreBig, header
<1>3. proc[u].rec.id \in Ids
  BY <1>1 DEF HashInv, SessionOK
<1>4. QED
  BY <1>1, <1>2, <1>3, BigDoneStep

LEMMA DeleteStep ==
  ASSUME HashInv, NEW u \in Users, Delete(u)
  PROVE  HashInv' /\ MovesLocked(u)
<1>1. PICK i \in Ids :
        /\ CanLock(HashGroup(i), TRUE)
        /\ glock' = glock \cup {MyLock(u, HashGroup(i), TRUE)}
        /\ Rewrite(u, {HashGroup(i)}, DeleteJob(HashGroup(i), i),
                   {[id |-> i, val |-> NoRec]},
                   [at |-> "tidy", big |-> OldBig(OldRec(i)), bytes |-> -OldSize(OldRec(i)),
                    recs |-> -Cardinality(OldRec(i))])
  BY DEF Delete
<1> DEFINE g == HashGroup(i)
           after == [at |-> "tidy", big |-> OldBig(OldRec(i)), bytes |-> -OldSize(OldRec(i)),
                     recs |-> -Cardinality(OldRec(i))]
<1>2. after.at = "tidy" /\ Tidying(after)
  BY DEF Tidying
<1>3. g \in Groups
  BY HashInFile DEF HashInv
<1>4. UNCHANGED <<modulus, modValue, inhibit>> /\ proc[u].at = "idle"
  BY DEF Delete
<1>5. CanLock(g, TRUE) /\ glock' = glock \cup {MyLock(u, g, TRUE)}
      /\ Rewrite(u, {g}, DeleteJob(g, i), {[id |-> i, val |-> NoRec]}, after)
  BY <1>1
<1> HIDE DEF g, after
<1>6. QED
  BY <1>2, <1>3, <1>4, <1>5, LockedStep

(* A session that rewrites a group goes on with what it has locked.         *)
Working(u) ==
  \/ Dechain(u) \/ MoveOn(u) \/ Extend(u) \/ Add(u) \/ GiveAway(u) \/ NextSource(u)
  \/ WriteBlock(u)

LEMMA WorkingIs ==
  ASSUME NEW u, Working(u)
  PROVE  /\ proc[u].at = "rewrite" /\ UNCHANGED <<header, glock, reply, history>>
         /\ \E job : Works(u, job)
BY DEF Working, Dechain, MoveOn, Extend, Add, GiveAway, NextSource, WriteBlock, Adding, Copied

LEMMA WorksStep ==
  ASSUME HashInv, NEW u \in Users, Working(u)
  PROVE  /\ HashInv' /\ MovesLocked(u) /\ (\A i \in Ids : Home(i)' = Home(i))
<1>1. PICK job : Works(u, job)
  BY WorkingIs
<1> DEFINE p == [proc[u] EXCEPT !.job = job]
<1>2. /\ SessionOK(u) /\ HomeOK(u) /\ LocksInv /\ proc[u].at = "rewrite"
      /\ proc' = [proc EXCEPT ![u] = p] /\ proc = [v \in Users |-> proc[v]]
  BY <1>1, WorkingIs DEF HashInv, Works, Goes
<1>3. UNCHANGED <<modulus, modValue, inhibit, glock>>
  BY WorkingIs DEF header
<1>4. p = [at |-> "rewrite", was |-> proc[u].was, put |-> proc[u].put, then |-> proc[u].then,
           job |-> job]
  BY <1>2 DEF SessionOK, Shape
<1> HIDE DEF p
<1>5. p.at = "rewrite" /\ p.was = proc[u].was /\ p.then = proc[u].then
  BY <1>4
<1>6. proc'[u] = p
  BY <1>2
<1>7. \A i \in Ids : Home(i)' = Home(i)
  BY <1>2, <1>3, <1>5, HomesSame
<1>8. SessionOK(u)'
  BY <1>2, <1>3, <1>4, <1>5, <1>6 DEF SessionOK, Shape
<1>9. HomeOK(u)'
  <2>1. ASSUME NEW i \in Ids
        PROVE  i \in DOMAIN proc'[u].was <=> MyLock(u, Home(i)', TRUE) \in glock'
    BY <1>2, <1>3, <1>5, <1>6, <1>7 DEF HomeOK
  <2>2. QED
    BY <1>5, <1>6, <2>1 DEF HomeOK
<1>10. Resizing(u)' <=> Resizing(u)
  BY <1>2, <1>5, <1>6 DEF Resizing
<1>11. LocksInv'
  BY <1>2, <1>3 DEF LocksInv
<1>12. QED
  BY <1>2, <1>3, <1>5, <1>7, <1>8, <1>9, <1>10, <1>11, PlainStep

LEMMA FreeLocksStep ==
  ASSUME HashInv, NEW u \in Users, FreeLocks(u)
  PROVE  HashInv' /\ MovesLocked(u)
<1> DEFINE p == proc[u].then
<1>1. /\ proc' = [proc EXCEPT ![u] = p] /\ proc = [v \in Users |-> proc[v]]
      /\ proc[u].at = "rewrite" /\ SessionOK(u)
  BY DEF Goes, FreeLocks, HashInv
<1>2. \/ p.at = "tidy" /\ Tidying(p)
      \/ p.at = "release"
  BY <1>1 DEF SessionOK, Shape
<1> HIDE DEF p
<1>3. proc'[u] = p
  BY <1>1
<1>4. /\ LocksInv' /\ \A l : l.owner # u => (l \in glock' <=> l \in glock)
      /\ \A l \in glock' : l.owner # u
  BY GivenUp DEF FreeLocks, HashInv
<1>5. UNCHANGED <<modulus, modValue, inhibit>>
  BY DEF FreeLocks, header
<1>6. SessionOK(u)' /\ HomeOK(u)'
  BY <1>2, <1>3, <1>4 DEF SessionOK, Shape, HomeOK
<1>7. Resizing(u)' <=> Resizing(u)
  BY <1>1, <1>2, <1>3 DEF Resizing, p
<1>8. QED
  BY <1>1, <1>2, <1>4, <1>5, <1>6, <1>7, PlainStep

LEMMA FreeBigStep ==
  ASSUME HashInv, NEW u \in Users, FreeBig(u)
  PROVE  HashInv' /\ MovesLocked(u)
<1> DEFINE p == [proc[u] EXCEPT !.at = "account"]
<1>1. proc' = [proc EXCEPT ![u] = p] /\ proc[u].at = "tidy" /\ SessionOK(u)
  BY DEF Goes, FreeBig, HashInv
<1>2. p.at = "account"
  BY <1>1 DEF SessionOK, Shape, Tidying
<1>3. UNCHANGED <<modulus, modValue, inhibit, glock>>
  BY DEF FreeBig, header
<1> HIDE DEF p
<1>4. QED
  BY <1>1, <1>2, <1>3, QuietStep

LEMMA AccountStep ==
  ASSUME HashInv, NEW u \in Users, Account(u)
  PROVE  HashInv' /\ MovesLocked(u)
<1>1. proc' = [proc EXCEPT ![u] = [at |-> "resize"]] /\ proc[u].at = "account"
  BY DEF Goes, Account
<1>2. UNCHANGED <<modulus, modValue, inhibit, glock>>
  BY DEF Account
<1>3. QED
  BY <1>1, <1>2, QuietStep

LEMMA ResizeStep ==
  ASSUME HashInv, NEW u \in Users, Resize(u)
  PROVE  HashInv' /\ MovesLocked(u)
<1>1. PICK to \in {"split", "merge", "idle"} : Goes(u, [at |-> to])
  BY DEF Resize
<1>2. proc' = [proc EXCEPT ![u] = [at |-> to]] /\ proc[u].at = "resize"
  BY <1>1 DEF Goes, Resize
<1>3. UNCHANGED <<modulus, modValue, inhibit, glock>>
  BY DEF Resize, header
<1>4. QED
  BY <1>2, <1>3, QuietStep

LEMMA ResizeOffStep ==
  ASSUME HashInv, NEW u \in Users, ResizeOff(u)
  PROVE  HashInv' /\ MovesLocked(u)
<1>1. proc' = [proc EXCEPT ![u] = [at |-> "idle"]] /\ proc[u].at \in {"split", "merge"}
  BY DEF Goes, ResizeOff
<1>2. UNCHANGED <<modulus, modValue, inhibit, glock>>
  BY DEF ResizeOff, header
<1>3. QED
  BY <1>1, <1>2, QuietStep

Counted(p, q) ==
  inhibit' = inhibit + (IF q.at = "select" THEN 1 ELSE 0) - (IF p.at = "idle" THEN 0 ELSE 1)

(* A SELECT begins or ends, or a split or merge ends: a session without     *)
(* locks is counted from now on, or not any more.                           *)
LEMMA CountStep ==
  ASSUME HashInv, NEW u \in Users, NEW p, proc' = [proc EXCEPT ![u] = p], Shape(p),
         UNCHANGED <<modulus, modValue, glock>>,
         proc[u].at \in {"idle", "select", "release"}, p.at \in {"idle", "select"},
         Counted(proc[u], p)
  PROVE  HashInv' /\ MovesLocked(u)
<1>1. proc = [v \in Users |-> proc[v]] /\ proc'[u] = p /\ SessionOK(u)
  BY DEF HashInv
<1>2. \A i \in Ids : Home(i)' = Home(i)
  BY <1>1, HomesSame
<1>3. (u \in Holding' <=> p.at = "select") /\ ~Resizing(u)'
  BY <1>1 DEF Holding, Resizing
<1>4. u \in Holding <=> proc[u].at # "idle"
  BY DEF Holding, Resizing
<1>5. inhibit \in Nat
  BY HoldingFinite
<1>6. inhibit' = Cardinality(Holding')
  <2>1. Cardinality(Holding') = IF u \in Holding THEN IF u \in Holding' THEN inhibit ELSE inhibit - 1
                                ELSE IF u \in Holding' THEN inhibit + 1 ELSE inhibit
    BY HoldingMoves
  <2>2. QED
    BY <1>3, <1>4, <1>5, <2>1 DEF Counted
<1>7. HeaderInv' /\ LocksInv'
  BY <1>6 DEF HashInv, HeaderInv, LocksInv
<1>8. SessionOK(u)' /\ HomeOK(u)'
  BY <1>1 DEF SessionOK, HomeOK
<1>9. MovesLocked(u)
  BY <1>2 DEF MovesLocked
<1>10. QED
  BY <1>3, <1>7, <1>8, <1>9, StepInv

LEMMA ReleaseStep ==
  ASSUME HashInv, NEW u \in Users, Release(u)
  PROVE  HashInv' /\ MovesLocked(u)
<1> DEFINE p == [at |-> "idle"]
<1>1. proc' = [proc EXCEPT ![u] = p] /\ proc[u].at = "release"
  BY DEF Goes, Release
<1>2. UNCHANGED <<modulus, modValue, glock>> /\ inhibit' = inhibit - 1
  BY DEF Release
<1>3. Shape(p) /\ p.at = "idle"
  BY DEF Shape
<1> HIDE DEF p
<1>4. Counted(proc[u], p)
  BY <1>1, <1>2, <1>3, HoldingFinite DEF Counted
<1>5. QED
  BY <1>1, <1>2, <1>3, <1>4, CountStep

LEMMA SelectStep ==
  ASSUME HashInv, NEW u \in Users, Select(u)
  PROVE  HashInv' /\ MovesLocked(u)
<1> DEFINE gap == \E v \in Users : proc[v].at = "source"
           p == [at |-> "select", group |-> 1, picked |-> <<>>, upd |-> updCt, bytes |-> 0,
                 gap |-> gap]
<1>1. proc' = [proc EXCEPT ![u] = p] /\ proc[u].at = "idle"
  BY DEF Goes, Select
<1>2. UNCHANGED <<modulus, modValue, glock>> /\ inhibit' = inhibit + 1
  BY DEF Select
<1> HIDE DEF gap
<1>3. Shape(p) /\ p.at = "select"
  BY DEF Shape
<1> HIDE DEF p
<1>4. Counted(proc[u], p)
  BY <1>1, <1>2, <1>3, HoldingFinite DEF Counted
<1>5. QED
  BY <1>1, <1>2, <1>3, <1>4, CountStep

LEMMA SelectEndStep ==
  ASSUME HashInv, NEW u \in Users, SelectEnd(u)
  PROVE  HashInv' /\ MovesLocked(u)
<1> DEFINE p == [at |-> "idle"]
<1>1. proc' = [proc EXCEPT ![u] = p] /\ proc[u].at = "select"
  BY DEF Goes, SelectEnd
<1>2. UNCHANGED <<modulus, modValue, glock>> /\ inhibit' = inhibit - 1
  BY DEF SelectEnd
<1>3. Shape(p) /\ p.at = "idle"
  BY DEF Shape
<1> HIDE DEF p
<1>4. Counted(proc[u], p)
  BY <1>1, <1>2, <1>3, HoldingFinite DEF Counted
<1>5. QED
  BY <1>1, <1>2, <1>3, <1>4, CountStep

AtSelect(p, group, picked, upd, bytes, gap) ==
  p = [at |-> "select", group |-> group, picked |-> picked, upd |-> upd, bytes |-> bytes, gap |-> gap]

LEMMA NextGroup ==
  ASSUME NEW p, NEW group, NEW picked, NEW upd, NEW bytes, NEW gap,
         AtSelect(p, group, picked, upd, bytes, gap), NEW more, NEW next, NEW total
  PROVE  AtSelect([p EXCEPT !.picked = more, !.group = next, !.bytes = total],
                  next, more, upd, total, gap)
<1> DEFINE q == [p EXCEPT !.picked = more]
           r == [q EXCEPT !.group = next]
<1>1. AtSelect(q, group, more, upd, bytes, gap)
  BY DEF AtSelect
<1> HIDE DEF q
<1>2. AtSelect(r, next, more, upd, bytes, gap)
  BY <1>1 DEF AtSelect
<1> HIDE DEF r
<1>3. AtSelect([r EXCEPT !.bytes = total], next, more, upd, total, gap)
  BY <1>2 DEF AtSelect
<1>4. QED
  BY <1>3 DEF q, r

LEMMA SelectGroupStep ==
  ASSUME HashInv, NEW u \in Users, SelectGroup(u)
  PROVE  HashInv' /\ MovesLocked(u) /\ proc'[u].at = "select"
<1> DEFINE recs == GroupRecs(block, proc[u].group)
           ids == [k \in 1 .. Len(recs) |-> recs[k].id]
           bytes == Bytes(recs)
           p == [proc[u] EXCEPT !.picked = @ \o ids, !.group = @ + 1, !.bytes = @ + bytes]
<1>1. /\ proc' = [proc EXCEPT ![u] = p] /\ proc[u].at = "select" /\ Shape(proc[u])
  BY DEF Goes, SelectGroup, HashInv, SessionOK
<1>2. UNCHANGED <<modulus, modValue, inhibit, glock>>
  BY DEF SelectGroup, header
<1> HIDE DEF recs, ids, bytes
<1>3. Shape(p) /\ p.at = "select"
  <2> DEFINE more == proc[u].picked \o ids
             next == proc[u].group + 1
             total == proc[u].bytes + bytes
  <2> HIDE DEF more, next, total
  <2>1. AtSelect(proc[u], proc[u].group, proc[u].picked, proc[u].upd, proc[u].bytes, proc[u].gap)
    BY <1>1 DEF AtSelect, Shape
  <2>2. AtSelect([proc[u] EXCEPT !.picked = more, !.group = next, !.bytes = total],
                 next, more, proc[u].upd, total, proc[u].gap)
    BY <2>1, NextGroup
  <2>3. p = [proc[u] EXCEPT !.picked = more, !.group = next, !.bytes = total]
    BY DEF more, next, total
  <2> HIDE DEF p
  <2>4. QED
    BY <2>2, <2>3 DEF AtSelect, Shape
<1> HIDE DEF p
<1>4. Counted(proc[u], p)
  BY <1>1, <1>2, <1>3, HoldingFinite DEF Counted
<1>5. proc'[u].at = "select"
  BY <1>1, <1>3 DEF HashInv
<1>6. QED
  BY <1>1, <1>2, <1>3, <1>4, <1>5, CountStep

-----------------------------------------------------------------------------
(* Splits and merges.                                                       *)

LEMMA NobodyHolds ==
  ASSUME HashInv, ~HeldOff
  PROVE  (\A v \in Users : ~Resizing(v)) /\ (\A i \in Ids : Home(i) = HashGroup(i))
<1>1. Holding = {}
  BY HoldingFinite DEF HeldOff
<1>2. \A v \in Users : ~Resizing(v)
  BY <1>1 DEF Holding
<1>3. \A i \in Ids : Movers(i) = {}
  BY <1>2 DEF Movers, Resizing
<1>4. QED
  BY <1>2, <1>3, HomeIs

(* The new group gets the ids from one other, and they are looked for there *)
(* until that one is locked too.                                            *)
LEMMA SplitStartStep ==
  ASSUME HashInv, NEW u \in Users, SplitStart(u)
  PROVE  HashInv' /\ MovesLocked(u) /\ \A i \in Ids : Home(i)' = Home(i)
<1> DEFINE new == modulus + 1
           g == new - ModValueUp(new) \div 2
           p == [at |-> "source", new |-> new, group |-> g]
<1>1. /\ proc' = [proc EXCEPT ![u] = p] /\ proc = [v \in Users |-> proc[v]]
      /\ proc[u].at = "split" /\ SessionOK(u)
  BY DEF Goes, SplitStart, HashInv
<1>2. /\ modulus' = new /\ modValue' = ModValueUp(new) /\ inhibit' = inhibit + 1
      /\ CanLock(new, TRUE) /\ glock' = glock \cup {MyLock(u, new, TRUE)}
      /\ modulus < MaxModulus
  BY DEF SplitStart
<1>3. /\ \A v \in Users : ~Resizing(v)
      /\ \A i \in Ids : Home(i) = HashGroup(i)
  BY NobodyHolds DEF SplitStart
<1>4. HeaderOK(modulus, modValue) /\ MinModulus <= modulus /\ MaxModulus \in Nat /\ MinModulus \in Nat
  BY FileConstants DEF HashInv, HeaderInv, Groups
<1>5. new \in Groups /\ new <= MaxModulus /\ MinModulus <= new
  BY <1>2, <1>4 DEF HeaderOK, Groups
<1>6. /\ HeaderOK(new, modValue')
      /\ OneMore(modulus, modValue, new, modValue', g)
  <2>1. modValue' = ValueUp(modulus, modValue)
    BY <1>2 DEF ModValueUp, ValueUp
  <2>2. g = (modulus + 1) - modValue' \div 2
    BY <1>2
  <2> HIDE DEF g
  <2>3. QED
    BY <1>4, <2>1, <2>2, GroupSplits
<1>7. proc'[u] = p /\ \A v \in Users : v # u => proc'[v] = proc[v]
  BY <1>1
<1> HIDE DEF g
<1>8. \A i \in Ids : /\ HashGroup(i) = GroupOf(HashOf[i], modulus, modValue)
                     /\ HashGroup(i)' = GroupOf(HashOf[i], new, modValue')
                     /\ HashOf[i] \in Nat
  BY <1>2, FileConstants DEF HashGroup, GroupOf
<1>9. ASSUME NEW i \in Ids
      PROVE  Home(i)' = Home(i)
  <2>1. Movers(i)' = IF HashGroup(i)' = new THEN {u} ELSE {}
    <3>1. \A v \in Users : v # u => proc'[v].at # "source"
      BY <1>3, <1>7 DEF Resizing
    <3>2. QED
      BY <1>7, <3>1 DEF Movers
  <2>2. Home(i)' = IF Movers(i)' = {} THEN HashGroup(i)'
                                      ELSE proc'[CHOOSE v \in Movers(i)' : TRUE].group
    BY DEF Home, Movers
  <2>3. Home(i)' = IF HashGroup(i)' = new THEN g ELSE HashGroup(i)'
    <3>1. CASE HashGroup(i)' = new
      <4>1. (CHOOSE v \in {u} : TRUE) = u
        OBVIOUS
      <4>2. QED
        BY <1>7, <2>1, <2>2, <3>1, <4>1
    <3>2. CASE HashGroup(i)' # new
      BY <2>1, <2>2, <3>2
    <3>3. QED
      BY <3>1, <3>2
  <2>4. QED
    BY <1>3, <1>6, <1>8, <2>3 DEF OneMore
<1>10. MovesLocked(u)
  BY <1>9 DEF MovesLocked
<1>11. u \notin Holding /\ u \in Holding'
  BY <1>1, <1>3, <1>7 DEF Holding, Resizing
<1>12. inhibit' = Cardinality(Holding')
  BY <1>1, <1>2, <1>11, HoldingMoves
<1>13. HeaderInv'
  BY <1>2, <1>5, <1>6, <1>12 DEF HeaderInv
<1>14. LocksInv' /\ \A l : l.owner # u => (l \in glock' <=> l \in glock)
  BY <1>2, <1>5, Granted DEF HashInv
<1>15. SessionOK(u)' /\ HomeOK(u)'
  <2>1. \A l \in glock : l.owner # u
    BY <1>1 DEF SessionOK
  <2>2. \A l \in glock' : l.owner = u => l.group = new
    BY <1>2, <2>1 DEF MyLock
  <2>3. /\ proc'[u].at = "source" /\ proc'[u].new = modulus' /\ modulus' > 1
        /\ proc'[u].group = modulus' - modValue' \div 2 /\ MyLock(u, modulus', TRUE) \in glock'
    BY <1>2, <1>4, <1>7 DEF g, HeaderOK
  <2>4. QED
    BY <1>2, <2>2, <2>3 DEF SessionOK, Shape, HomeOK
<1>16. QED
  BY <1>1, <1>3, <1>9, <1>10, <1>13, <1>14, <1>15, StepInv

(* Both groups are locked when the ids move.                                *)
LEMMA SplitSourceStep ==
  ASSUME HashInv, NEW u \in Users, SplitSource(u)
  PROVE  /\ HashInv' /\ MovesLocked(u) /\ proc[u].group \in Groups /\ proc[u].group # proc[u].new
         /\ \A i \in Ids :
              /\ Home(i)' = HashGroup(i)
              /\ Home(i) = IF HashGroup(i) = proc[u].new THEN proc[u].group ELSE HashGroup(i)
<1> DEFINE new == proc[u].new
           g == proc[u].group
           was == Snapshot({g, new})
           job == SplitJob(g, new)
           p == [at |-> "rewrite", was |-> was, put |-> {}, then |-> [at |-> "release"],
                 job |-> job]
<1>1. /\ proc' = [proc EXCEPT ![u] = p] /\ proc = [v \in Users |-> proc[v]]
      /\ proc[u].at = "source" /\ SessionOK(u) /\ OneResizes
  BY DEF Goes, Rewrite, SplitSource, HashInv
<1>2. /\ CanLock(g, TRUE) /\ glock' = glock \cup {MyLock(u, g, TRUE)}
      /\ UNCHANGED <<modulus, modValue, inhibit>>
  BY DEF SplitSource, header
<1>3. DOMAIN was = {j \in Ids : Home(j) \in {g, new}}
  BY DEF Snapshot
<1> HIDE DEF was, job
<1>4. proc'[u] = p /\ \A v \in Users : v # u => proc'[v] = proc[v]
  BY <1>1
<1>5. /\ new = modulus /\ g = modulus - modValue \div 2
      /\ MyLock(u, new, TRUE) \in glock /\ \A l \in glock : l.owner = u => l.group = new
  BY <1>1 DEF SessionOK
<1>6. g \in Groups
  <2>1. HeaderOK(modulus, modValue) /\ modulus <= MaxModulus /\ MaxModulus \in Nat
    BY FileConstants DEF HashInv, HeaderInv
  <2>2. modValue > 1
    <3>1. SUFFICES ASSUME modulus = 1, modValue = 1
                   PROVE  FALSE
      BY <2>1 DEF HeaderOK
    <3>2. g = new
      BY <1>5, <3>1
    <3>3. QED
      BY <1>2, <1>5, <3>2 DEF CanLock, MyLock
  <2>3. modValue = 2 * (modValue \div 2) /\ modValue \div 2 \in Nat \ {0}
    BY <2>1, <2>2, HalfPower DEF HeaderOK
  <2>4. QED
    BY <1>5, <2>1, <2>3 DEF HeaderOK, Groups
<1> HIDE DEF g, new
<1>7. \A v \in Users : v # u => proc[v].at # "source"
  BY <1>1 DEF OneResizes, Resizing
<1>8. ASSUME NEW i \in Ids
      PROVE  Home(i) = (IF HashGroup(i) = new THEN g ELSE HashGroup(i)) /\ Home(i)' = HashGroup(i)
  <2>1. Movers(i) = IF HashGroup(i) = new THEN {u} ELSE {}
    BY <1>1, <1>7 DEF Movers, new
  <2>2. Movers(i)' = {}
    BY <1>4, <1>7 DEF Movers
  <2>3. Home(i)' = HashGroup(i)'
    <3>1. Home(i)' = IF Movers(i)' = {} THEN HashGroup(i)'
                                        ELSE proc'[CHOOSE v \in Movers(i)' : TRUE].group
      BY DEF Home, Movers
    <3>2. QED
      BY <2>2, <3>1
  <2>4. HashGroup(i)' = HashGroup(i)
    BY <1>2 DEF HashGroup
  <2>5. Home(i) = IF HashGroup(i) = new THEN g ELSE HashGroup(i)
    <3>1. CASE HashGroup(i) = new
      <4>1. (CHOOSE v \in {u} : TRUE) = u
        OBVIOUS
      <4>2. QED
        BY <2>1, <3>1, <4>1, HomeIs DEF g
    <3>2. CASE HashGroup(i) # new
      BY <2>1, <3>2, HomeIs
    <3>3. QED
      BY <3>1, <3>2
  <2>6. QED
    BY <2>3, <2>4, <2>5
<1>9. \A h : MyLock(u, h, TRUE) \in glock' <=> h \in {g, new}
  BY <1>2, <1>5 DEF MyLock
<1>10. MovesLocked(u)
  BY <1>8, <1>9 DEF MovesLocked
<1>11. LocksInv' /\ \A l : l.owner # u => (l \in glock' <=> l \in glock)
  BY <1>2, <1>6, Granted DEF HashInv
<1>12. Resizing(u) /\ Resizing(u)'
  BY <1>1, <1>4 DEF Resizing
<1>13. inhibit' = Cardinality(Holding')
  BY <1>1, <1>2, <1>12, HoldingMoves DEF Holding
<1>14. HeaderInv'
  BY <1>2, <1>13 DEF HashInv, HeaderInv
<1>15. SessionOK(u)'
  BY <1>4 DEF SessionOK, Shape
<1>16. HomeOK(u)'
  <2>1. proc'[u].at = "rewrite" /\ proc'[u].was = was
    BY <1>4
  <2>2. ASSUME NEW i \in Ids
        PROVE  i \in DOMAIN proc'[u].was <=> MyLock(u, Home(i)', TRUE) \in glock'
    BY <1>3, <1>8, <1>9, <2>1
  <2>3. QED
    BY <2>1, <2>2 DEF HomeOK
<1>17. HashInv'
  BY <1>1, <1>2, <1>10, <1>11, <1>12, <1>14, <1>15, <1>16, StepInv
<1>18. g # new
  BY <1>2, <1>5 DEF CanLock, MyLock
<1>19. QED
  BY <1>6, <1>8, <1>10, <1>17, <1>18 DEF g, new

(* The ids of the last group go back to the group they came from.           *)
LEMMA MergeStartStep ==
  ASSUME HashInv, NEW u \in Users, MergeStart(u)
  PROVE  /\ HashInv' /\ MovesLocked(u)
         /\ modulus - modValue \div 2 \in Groups /\ modulus - modValue \div 2 # modulus /\ modulus \in Groups
         /\ \A i \in Ids : Home(i)' = IF Home(i) = modulus THEN modulus - modValue \div 2 ELSE Home(i)
<1> DEFINE old == modulus
           g == old - modValue \div 2
           was == Snapshot({g, old})
           job == MergeJob(g, old)
           p == [at |-> "rewrite", was |-> was, put |-> {}, then |-> [at |-> "release"],
                 job |-> job]
<1>1. /\ proc' = [proc EXCEPT ![u] = p] /\ proc = [v \in Users |-> proc[v]]
      /\ proc[u].at = "merge" /\ SessionOK(u)
  BY DEF Goes, Rewrite, MergeStart, HashInv
<1>2. /\ CanLock(g, TRUE) /\ CanLock(old, TRUE)
      /\ glock' = glock \cup {MyLock(u, g, TRUE), MyLock(u, old, TRUE)}
      /\ modulus' = old - 1 /\ modValue' = ModValueDown(old - 1) /\ inhibit' = inhibit + 1
      /\ modulus > MinModulus
  BY DEF MergeStart, MustShrink
<1>3. DOMAIN was = {j \in Ids : Home(j) \in {g, old}}
  BY DEF Snapshot
<1> HIDE DEF was, job
<1>4. proc'[u] = p /\ \A v \in Users : v # u => proc'[v] = proc[v]
  BY <1>1
<1>5. /\ \A v \in Users : ~Resizing(v)
      /\ \A i \in Ids : Home(i) = HashGroup(i)
  BY NobodyHolds DEF MergeStart
<1>6. /\ HeaderOK(modulus, modValue) /\ modulus > 1 /\ modulus <= MaxModulus
      /\ MaxModulus \in Nat /\ MinModulus \in Nat
  BY <1>2, FileConstants DEF HashInv, HeaderInv, HeaderOK, Groups
<1>7. HeaderOK(modulus', modValue') /\ modValue = ValueUp(modulus', modValue')
  <2>1. modValue' = IF modulus - 1 = modValue \div 2 THEN modValue \div 2 ELSE modValue
    BY <1>2 DEF ModValueDown
  <2>2. QED
    BY <1>2, <1>6, <2>1, GroupMerges
<1>8. OneMore(modulus', modValue', old, modValue, g) /\ g \in 1 .. modulus'
  <2>1. modulus' + 1 = old
    BY <1>2, <1>6 DEF HeaderOK
  <2> HIDE DEF old
  <2>2. QED
    BY <1>7, <2>1, GroupSplits
<1>9. \A i \in Ids : /\ HashGroup(i) = GroupOf(HashOf[i], old, modValue)
                     /\ HashGroup(i)' = GroupOf(HashOf[i], modulus', modValue')
                     /\ HashOf[i] \in Nat
  BY FileConstants DEF HashGroup, GroupOf
<1>10. g \in Groups /\ old \in Groups /\ g # old /\ MinModulus <= modulus' /\ modulus' <= MaxModulus
  BY <1>2, <1>6, <1>8 DEF HeaderOK, Groups
<1> HIDE DEF g, old
<1>11. ASSUME NEW i \in Ids
       PROVE  Home(i)' = IF Home(i) = old THEN g ELSE Home(i)
  <2>1. Movers(i)' = {}
    BY <1>4, <1>5 DEF Movers, Resizing
  <2>2. Home(i)' = IF Movers(i)' = {} THEN HashGroup(i)'
                                      ELSE proc'[CHOOSE v \in Movers(i)' : TRUE].group
    BY DEF Home, Movers
  <2>3. HashGroup(i)' = IF HashGroup(i) = old THEN g ELSE HashGroup(i)
    BY <1>8, <1>9 DEF OneMore
  <2>4. QED
    BY <1>5, <2>1, <2>2, <2>3
<1>12. \A l \in glock : l.owner # u
  BY <1>1 DEF SessionOK
<1>13. \A h : MyLock(u, h, TRUE) \in glock' <=> h \in {g, old}
  BY <1>2, <1>12 DEF MyLock
<1>14. MovesLocked(u)
  BY <1>11, <1>13 DEF MovesLocked
<1>15. LocksInv' /\ \A l : l.owner # u => (l \in glock' <=> l \in glock)
  <2> DEFINE lg == MyLock(u, g, TRUE)
             lo == MyLock(u, old, TRUE)
  <2>1. {lg, lo} \subseteq [owner : Users, group : Groups, write : BOOLEAN]
    BY <1>10 DEF MyLock
  <2>2. ASSUME NEW l \in glock', NEW m \in glock', l.group = m.group, l.write
        PROVE  l = m
    <3>1. CASE l \in glock /\ m \in glock
      BY <2>2, <3>1 DEF HashInv, LocksInv
    <3>2. CASE l \in {lg, lo} /\ m \in glock
      BY <1>2, <2>2, <3>2 DEF CanLock, MyLock
    <3>3. CASE l \in glock /\ m \in {lg, lo}
      BY <1>2, <2>2, <3>3 DEF CanLock, MyLock
    <3>4. CASE l \in {lg, lo} /\ m \in {lg, lo}
      <4>1. lg.group = g /\ lo.group = old
        BY DEF MyLock
      <4> HIDE DEF lg, lo
      <4>2. QED
        BY <1>10, <2>2, <3>4, <4>1
    <3>5. QED
      BY <1>2, <2>2, <3>1, <3>2, <3>3, <3>4
  <2>3. \A l : l.owner # u => l \notin {lg, lo}
    BY DEF MyLock
  <2>4. QED
    BY <1>2, <2>1, <2>2, <2>3 DEF HashInv, LocksInv
<1>16. u \notin Holding /\ u \in Holding' /\ Resizing(u)'
  BY <1>1, <1>4, <1>5 DEF Holding, Resizing
<1>17. inhibit' = Cardinality(Holding')
  BY <1>1, <1>2, <1>16, HoldingMoves
<1>18. HeaderInv'
  BY <1>7, <1>10, <1>17 DEF HeaderInv
<1>19. SessionOK(u)'
  BY <1>4 DEF SessionOK, Shape
<1>20. HomeOK(u)'
  <2>1. proc'[u].at = "rewrite" /\ proc'[u].was = was
    BY <1>4
  <2>2. ASSUME NEW i \in Ids
        PROVE  i \in DOMAIN proc'[u].was <=> MyLock(u, Home(i)', TRUE) \in glock'
    BY <1>3, <1>11, <1>13, <2>1
  <2>3. QED
    BY <2>1, <2>2 DEF HomeOK
<1>21. HashInv'
  BY <1>1, <1>5, <1>14, <1>15, <1>18, <1>19, <1>20, StepInv
<1>22. QED
  BY <1>10, <1>11, <1>14, <1>21 DEF g, old

-----------------------------------------------------------------------------
(* Any step.                                                                *)

HomesLocked ==
  \A i \in Ids : Home(i)' # Home(i) =>
    \E u \in Users : MyLock(u, Home(i), TRUE) \in glock' /\ MyLock(u, Home(i)', TRUE) \in glock'

LEMMA HashStep ==
  ASSUME HashInv, [Next]_vars
  PROVE  HashInv' /\ HomesLocked
<1>1. ASSUME NEW u \in Users,
             \/ Read(u) \/ ReadGroup(u)
             \/ Write(u) \/ WriteBig(u) \/ MoreBig(u) \/ WriteAfterBig(u) \/ Delete(u)
             \/ Working(u) \/ FreeLocks(u) \/ FreeBig(u) \/ Account(u)
             \/ Resize(u) \/ ResizeOff(u) \/ SplitStart(u) \/ SplitSource(u) \/ MergeStart(u)
             \/ Release(u) \/ Select(u) \/ SelectGroup(u) \/ SelectEnd(u)
      PROVE  HashInv' /\ MovesLocked(u)
  BY <1>1, ReadStep, ReadGroupStep, WriteStep, WriteBigStep, MoreBigStep, WriteAfterBigStep,
     DeleteStep, WorksStep, FreeLocksStep, FreeBigStep, AccountStep, ResizeStep, ResizeOffStep, SplitStartStep,
     SplitSourceStep, MergeStartStep, ReleaseStep, SelectStep, SelectGroupStep, SelectEndStep
<1>2. CASE UNCHANGED vars
  <2>1. UNCHANGED <<modulus, modValue, inhibit, glock, proc>>
    BY <1>2 DEF vars, header
  <2>2. \A i : HashGroup(i)' = HashGroup(i)
    BY <2>1 DEF HashGroup
  <2>3. ASSUME NEW i
        PROVE  Home(i)' = Home(i)
    <3>1. Movers(i)' = Movers(i)
      BY <2>1, <2>2 DEF Movers
    <3>2. Home(i)' = IF Movers(i)' = {} THEN HashGroup(i)'
                                        ELSE proc'[CHOOSE v \in Movers(i)' : TRUE].group
      BY DEF Home, Movers
    <3>3. QED
      BY <2>1, <2>2, <3>1, <3>2, HomeIs
  <2>4. HeaderInv' /\ LocksInv' /\ OneResizes'
    BY <2>1 DEF HashInv, HeaderInv, LocksInv, OneResizes, Holding, Resizing
  <2>5. \A u \in Users : SessionOK(u)' /\ HomeOK(u)'
    BY <2>1, <2>3 DEF HashInv, SessionOK, HomeOK
  <2>6. QED
    BY <2>1, <2>3, <2>4, <2>5 DEF HashInv, HomesLocked
<1>3. QED
  BY <1>1, <1>2 DEF Next, HomesLocked, MovesLocked, Working

-----------------------------------------------------------------------------
(* The file as it is created.                                               *)

LessThan == {p \in Nat \X Nat : p[1] < p[2]}

LEMMA LeastNat ==
  ASSUME NEW S \in SUBSET Nat, S # {}
  PROVE  \E m \in S : \A n \in S : m <= n
<1>1. IsWellFoundedOn(LessThan, Nat)
  BY NatLessThanWellFounded DEF OpToRel, LessThan
<1>2. PICK m \in S : \A n \in S : <<n, m>> \notin LessThan
  BY <1>1, WFMin
<1>3. ASSUME NEW n \in S
      PROVE  m <= n
  <2>1. m \in Nat /\ n \in Nat
    OBVIOUS
  <2>2. ~(n < m)
    BY <1>2, <2>1 DEF LessThan
  <2>3. QED
    BY <2>1, <2>2
<1>4. QED
  BY <1>3

LEMMA PowerAbove ==
  \A m \in Nat \ {0} : \E n \in Nat \ {0} : IsPowerOf2(n) /\ m <= n /\ n < 2 * m
<1> DEFINE S == {m \in Nat \ {0} : ~\E n \in Nat \ {0} : IsPowerOf2(n) /\ m <= n /\ n < 2 * m}
<1>1. SUFFICES ASSUME S # {}
               PROVE  FALSE
  OBVIOUS
<1>2. PICK m \in S : \A k \in S : m <= k
  BY <1>1, LeastNat
<1>3. m # 1
  <2>1. IsPowerOf2(1)
    BY DEF IsPowerOf2
  <2>2. QED
    BY <1>2, <2>1
<1>4. m - 1 \in Nat \ {0} /\ m - 1 \notin S
  BY <1>2, <1>3
<1>5. PICK n \in Nat \ {0} : IsPowerOf2(n) /\ m - 1 <= n /\ n < 2 * (m - 1)
  BY <1>4
<1>6. CASE m <= n
  BY <1>2, <1>5, <1>6
<1>7. CASE ~(m <= n)
  <2>1. n = m - 1 /\ 2 * n \in Nat \ {0} /\ m <= 2 * n /\ 2 * n < 2 * m
    BY <1>4, <1>5, <1>7
  <2>2. IsPowerOf2(2 * n)
    BY <1>5, DoublePower
  <2>3. QED
    BY <1>2, <2>1, <2>2
<1>8. QED
  BY <1>6, <1>7

LEMMA FirstModValue ==
  HeaderOK(MinModulus,
           Min({n \in 1 .. 2 * MinModulus : IsPowerOf2(n) /\ n >= MinModulus}))
<1> DEFINE S == {n \in 1 .. 2 * MinModulus : IsPowerOf2(n) /\ n >= MinModulus}
<1>1. MinModulus \in Nat \ {0}
  BY FileConstants DEF Groups
<1>2. PICK p \in Nat \ {0} : IsPowerOf2(p) /\ MinModulus <= p /\ p < 2 * MinModulus
  BY <1>1, PowerAbove
<1>3. p \in S /\ S \subseteq Nat
  BY <1>1, <1>2
<1> HIDE DEF S
<1>4. PICK m \in S : \A n \in S : m <= n
  BY <1>3, LeastNat
<1>5. Min(S) \in S /\ \A n \in S : Min(S) <= n
  BY <1>4 DEF Min
<1>6. Min(S) <= p
  BY <1>3, <1>5
<1>7. HeaderOK(MinModulus, Min(S))
  BY <1>1, <1>2, <1>5, <1>6 DEF S, HeaderOK
<1>8. QED
  BY <1>7 DEF S

LEMMA HashInit ==
  ASSUME Init
  PROVE  HashInv
<1>1. HeaderOK(modulus, modValue)
  BY FirstModValue DEF Init
<1>2. MinModulus <= modulus /\ modulus <= MaxModulus
  BY FileConstants DEF Init, Groups
<1>3. \A u \in Users : proc[u] = [at |-> "idle"] /\ ~Resizing(u)
  BY DEF Init, Resizing
<1>4. Holding = {}
  BY <1>3 DEF Holding
<1>5. inhibit = Cardinality(Holding)
  BY <1>4, FS_EmptySet DEF Init
<1>6. glock = {} /\ proc = [u \in Users |-> proc[u]]
  BY DEF Init
<1>7. \A u \in Users : SessionOK(u) /\ HomeOK(u)
  BY <1>3, <1>6 DEF SessionOK, HomeOK, Shape
<1>8. QED
  BY <1>1, <1>2, <1>3, <1>5, <1>6, <1>7 DEF HashInv, HeaderInv, LocksInv, OneResizes

(* No state of the file violates it: the header is one that linear hashing  *)
(* can work with (the groups are between the least and the greatest number, *)
(* mod_value is the power of two for that number), inhibit_count counts the *)
(* sessions that split, merge or select, one session at a time splits or    *)
(* merges, and each one has the group locks that dh_read.c, dh_write.c,     *)
(* dh_del.c and dh_split.c take before what it is at.                       *)
THEOREM HashingHeld == Spec => []HashInv
<1>1. Init => HashInv
  BY HashInit
<1>2. HashInv /\ [Next]_vars => HashInv'
  BY HashStep
<1>3. QED
  BY <1>1, <1>2, PTL DEF Spec

(* An id moves to another group only under a session that has both groups,  *)
(* the one it leaves and the one it enters, locked for writing (dh_split.c, *)
(* split and dh_merge).                                                     *)
HomesMoveLocked == [][HomesLocked]_vars

THEOREM MovesAreLocked == Spec => HomesMoveLocked
<1>1. HashInv /\ [Next]_vars => [HomesLocked]_vars
  BY HashStep
<1>2. QED
  BY <1>1, HashingHeld, PTL DEF Spec, HomesMoveLocked

(* A session that reads a group has the one its id is in, however long ago  *)
(* dh_hash_group told it and whatever splits and merges have begun since;   *)
(* and a session that rewrites groups has those of just the ids it began    *)
(* with.                                                                    *)
THEOREM LocksFollowHome == Spec => []LockedAtHome
<1>1. HashInv => LockedAtHome
  BY HomesOK DEF HashInv
<1>2. QED
  BY <1>1, HashingHeld, PTL

-----------------------------------------------------------------------------
(* Selects.                                                                 *)

(* The number of groups does not change while a session is in a SELECT: not *)
(* even by a split that was decided on, or begun, before (dh_split.c looks  *)
(* at inhibit_count again under FILE_TABLE_LOCK).                           *)
SelectsHoldOff ==
  [][modulus' # modulus => \A v \in Users : proc[v].at # "select"]_vars

THEOREM GroupsStayForSelects == Spec => SelectsHoldOff
<1>1. ASSUME HashInv, Next, modulus' # modulus
      PROVE  \A v \in Users : proc[v].at # "select"
  <2>1. PICK u \in Users : SplitStart(u) \/ MergeStart(u)
    <3>1. \A u \in Users :
            Read(u) \/ ReadGroup(u) \/ WriteBig(u) \/ MoreBig(u) \/ FreeLocks(u) \/ FreeBig(u)
            \/ Resize(u) \/ ResizeOff(u) \/ SplitSource(u) \/ SelectGroup(u)
              => UNCHANGED header
      BY DEF Read, ReadGroup, WriteBig, MoreBig, FreeLocks, FreeBig, Resize, ResizeOff, SplitSource,
         SelectGroup
    <3>2. \A u \in Users :
            Write(u) \/ WriteAfterBig(u) \/ Delete(u) \/ Account(u)
            \/ Release(u) \/ Select(u) \/ SelectEnd(u)
              => modulus' = modulus
      BY ZenonT(40) DEF Write, WriteAfterBig, Delete, LockToWrite, Account, Release, Select, SelectEnd
    <3>3. UNCHANGED header => modulus' = modulus
      BY DEF header
    <3>4. \A u \in Users : Working(u) => UNCHANGED header
      BY WorkingIs
    <3>5. QED
      BY <1>1, <3>1, <3>2, <3>3, <3>4 DEF Next, Working
  <2>2. Holding = {}
    BY <1>1, <2>1, HoldingFinite DEF SplitStart, MergeStart, HeldOff
  <2>3. QED
    BY <2>2 DEF Holding
<1>2. HashInv /\ [Next]_vars
        => [modulus' # modulus => \A v \in Users : proc[v].at # "select"]_vars
  BY <1>1
<1>3. QED
  BY <1>2, HashingHeld, PTL DEF Spec, SelectsHoldOff

-----------------------------------------------------------------------------
(* The map.                                                                 *)

(* No two sessions rewrite the group of an id.                              *)
OneRewrites ==
  \A i \in Ids : \A u \in Rewriting(i) :
    MyLock(u, Home(i), TRUE) \in glock /\ Rewriting(i) = {u}

LEMMA OneRewritesHeld == HashInv => OneRewrites
<1>1. SUFFICES ASSUME HashInv, NEW i \in Ids, NEW u \in Rewriting(i)
               PROVE  MyLock(u, Home(i), TRUE) \in glock /\ Rewriting(i) = {u}
  BY DEF OneRewrites
<1>2. \A v \in Rewriting(i) : v \in Users /\ MyLock(v, Home(i), TRUE) \in glock
  BY <1>1 DEF Rewriting, HashInv, HomeOK
<1>3. ASSUME NEW v \in Rewriting(i)
      PROVE  v = u
  <2>1. MyLock(v, Home(i), TRUE) = MyLock(u, Home(i), TRUE)
    BY <1>1, <1>2 DEF HashInv, LocksInv, MyLock
  <2>2. QED
    BY <2>1 DEF MyLock
<1>4. QED
  BY <1>1, <1>2, <1>3

LEMMA ContentOf ==
  ASSUME NEW i \in Ids
  PROVE  content[i] = IF Rewriting(i) # {} THEN proc[CHOOSE u \in Rewriting(i) : TRUE].was[i]
                      ELSE Lookup(block, Home(i), i)
BY DEF content

LEMMA ContentOfNext ==
  ASSUME NEW i \in Ids
  PROVE  content'[i] = IF Rewriting(i)' # {} THEN proc'[CHOOSE u \in Rewriting(i)' : TRUE].was[i]
                       ELSE Lookup(block', Home(i)', i)
BY DEF content

(* What a step of u keeps: it writes no block, and goes on rewriting what   *)
(* it has begun to, or begins with what there is in the map.                *)
LEMMA MapStep ==
  ASSUME HashInv, HashInv', NEW u \in Users, NEW p, proc' = [proc EXCEPT ![u] = p],
         UNCHANGED block,
         \/ \A i \in Ids : Home(i)' = Home(i)
         \/ p.at = "rewrite" /\ MovesLocked(u),
         proc[u].at # "rewrite",
         p.at = "rewrite" => \E S : p.was = Snapshot(S)
  PROVE  content' = content
<1>0. OneRewrites /\ OneRewrites'
  BY OneRewritesHeld, PTL
<1>1. proc'[u] = p /\ \A v \in Users : v # u => proc'[v] = proc[v]
  BY DEF HashInv
<1>2. ASSUME NEW i \in Ids
      PROVE  content'[i] = content[i]
  <2>1. u \notin Rewriting(i) /\ Rewriting(i) \subseteq Users /\ Rewriting(i)' \subseteq Users
    BY DEF Rewriting
  <2>2. \A v \in Users : v # u => (v \in Rewriting(i)' <=> v \in Rewriting(i))
    BY <1>1 DEF Rewriting
  <2>3. CASE Rewriting(i) # {}
    <3>1. PICK v : v \in Rewriting(i)
      BY <2>3
    <3>2. v \in Users /\ v # u /\ v \in Rewriting(i)'
      BY <2>1, <2>2, <3>1
    <3>3. Rewriting(i) = {v}
      BY <1>0, <3>1 DEF OneRewrites
    <3>4. Rewriting(i)' = {v}
      BY <1>0, <3>2 DEF OneRewrites
    <3>5. (CHOOSE w \in {v} : TRUE) = v
      OBVIOUS
    <3>6. QED
      BY <1>1, <3>2, <3>3, <3>4, <3>5, ContentOf, ContentOfNext
  <2>4. CASE Rewriting(i) = {} /\ u \in Rewriting(i)'
    <3>1. Rewriting(i)' = {u}
      BY <2>1, <2>2, <2>4
    <3>2. p.was[i] = content[i]
      <4>1. PICK S : p.was = Snapshot(S)
        BY <1>1, <2>4 DEF Rewriting
      <4>2. i \in DOMAIN p.was
        BY <1>1, <2>4 DEF Rewriting
      <4>3. QED
        BY <4>1, <4>2 DEF Snapshot
    <3>3. (CHOOSE w \in {u} : TRUE) = u
      OBVIOUS
    <3>4. QED
      BY <1>1, <3>1, <3>2, <3>3, ContentOfNext
  <2>5. CASE Rewriting(i) = {} /\ u \notin Rewriting(i)'
    <3>1. Rewriting(i)' = {}
      BY <2>1, <2>2, <2>5
    <3>2. Home(i)' = Home(i)
      <4>1. SUFFICES ASSUME Home(i)' # Home(i)
                     PROVE  FALSE
        OBVIOUS
      <4>2. MyLock(u, Home(i)', TRUE) \in glock' /\ proc'[u].at = "rewrite"
        BY <1>1, <4>1 DEF MovesLocked
      <4>3. HomeOK(u)'
        BY DEF HashInv
      <4>4. i \in DOMAIN proc'[u].was
        BY <4>2, <4>3 DEF HomeOK
      <4>5. QED
        BY <2>5, <4>2, <4>4 DEF Rewriting
    <3>3. QED
      BY <2>5, <3>1, <3>2, ContentOf, ContentOfNext
  <2>6. QED
    BY <2>3, <2>4, <2>5
<1>3. QED
  <2>1. content = [i \in Ids |-> content[i]] /\ content' = [i \in Ids |-> content'[i]]
    BY DEF content
  <2>2. QED
    BY <1>2, <2>1

LEMMA PlainMap ==
  ASSUME HashInv, HashInv', NEW u \in Users, NEW p, proc' = [proc EXCEPT ![u] = p],
         UNCHANGED <<block, modulus, modValue>>,
         proc[u].at \notin {"source", "rewrite"}, p.at # "source",
         p.at = "rewrite" => \E S : p.was = Snapshot(S)
  PROVE  content' = content
<1>1. proc = [v \in Users |-> proc[v]]
  BY DEF HashInv
<1>2. \A i \in Ids : Home(i)' = Home(i)
  BY <1>1, HomesSame
<1>3. QED
  BY <1>2, MapStep

LEMMA LocksMap ==
  ASSUME HashInv, HashInv', NEW u \in Users, NEW groups, NEW job, NEW put, NEW after,
         Rewrite(u, groups, job, put, after), UNCHANGED block,
         \/ UNCHANGED <<modulus, modValue>> /\ proc[u].at \notin {"source", "rewrite"}
         \/ MovesLocked(u) /\ proc[u].at # "rewrite"
  PROVE  content' = content
<1> DEFINE was == Snapshot(groups)
           p == [at |-> "rewrite", was |-> was, put |-> put, then |-> after, job |-> job]
<1>1. proc' = [proc EXCEPT ![u] = p]
  BY DEF Rewrite, Goes
<1>2. \E S : p.was = Snapshot(S)
  OBVIOUS
<1> HIDE DEF was
<1>3. p.at = "rewrite"
  OBVIOUS
<1> HIDE DEF p
<1>4. CASE UNCHANGED <<modulus, modValue>> /\ proc[u].at \notin {"source", "rewrite"}
  BY <1>1, <1>2, <1>3, <1>4, PlainMap
<1>5. CASE MovesLocked(u) /\ proc[u].at # "rewrite"
  BY <1>1, <1>2, <1>3, <1>5, MapStep
<1>6. QED
  BY <1>4, <1>5

(* A session that waits, decides, counts or selects.                        *)
LEMMA QuietMap ==
  ASSUME HashInv, HashInv', NEW u \in Users,
         \/ Read(u) \/ ReadGroup(u) \/ Account(u) \/ Resize(u) \/ ResizeOff(u)
         \/ Release(u) \/ Select(u) \/ SelectEnd(u)
  PROVE  content' = content
<1>1. UNCHANGED <<block, modulus, modValue>> /\ proc[u].at \notin {"source", "rewrite"}
  BY DEF Read, ReadGroup, Account, Resize, ResizeOff, Release, Select, SelectEnd, file, header
<1>2. \E p : proc' = [proc EXCEPT ![u] = p] /\ p.at \notin {"source", "rewrite"}
  <2>1. CASE Read(u)
    <3>1. PICK i \in Ids : Goes(u, [at |-> "read", id |-> i, group |-> HashGroup(i)])
      BY <2>1 DEF Read
    <3> DEFINE p == [at |-> "read", id |-> i, group |-> HashGroup(i)]
    <3>2. p.at = "read" /\ proc' = [proc EXCEPT ![u] = p]
      BY <3>1 DEF Goes
    <3> HIDE DEF p
    <3>3. QED
      BY <3>2
  <2>2. CASE Select(u)
    <3> DEFINE gap == \E v \in Users : proc[v].at = "source"
               p == [at |-> "select", group |-> 1, picked |-> <<>>, upd |-> updCt, bytes |-> 0,
                     gap |-> gap]
    <3>1. proc' = [proc EXCEPT ![u] = p]
      BY <2>2 DEF Select, Goes
    <3> HIDE DEF gap
    <3>2. p.at = "select"
      OBVIOUS
    <3> HIDE DEF p
    <3>3. QED
      BY <3>1, <3>2
  <2>3. CASE ReadGroup(u) \/ Account(u) \/ Resize(u) \/ ResizeOff(u) \/ Release(u) \/ SelectEnd(u)
    <3>1. PICK to \in {"idle", "resize", "split", "merge"} : Goes(u, [at |-> to])
      BY <2>3 DEF ReadGroup, Account, Resize, ResizeOff, Release, SelectEnd
    <3> DEFINE p == [at |-> to]
    <3>2. p.at = to /\ proc' = [proc EXCEPT ![u] = p]
      BY <3>1 DEF Goes
    <3> HIDE DEF p
    <3>3. QED
      BY <3>1, <3>2
  <2>4. QED
    BY <2>1, <2>2, <2>3
<1>3. QED
  BY <1>1, <1>2, PlainMap

LEMMA SelectGroupMap ==
  ASSUME HashInv, HashInv', NEW u \in Users, SelectGroup(u)
  PROVE  content' = content
<1>1. PICK p : proc' = [proc EXCEPT ![u] = p]
  BY DEF SelectGroup, Goes
<1>2. UNCHANGED <<block, modulus, modValue>> /\ proc[u].at = "select"
  BY DEF SelectGroup, file, header
<1>3. proc'[u] = p
  BY <1>1 DEF HashInv
<1>4. p.at = "select"
  BY <1>3, SelectGroupStep
<1>5. QED
  BY <1>1, <1>2, <1>4, PlainMap

LEMMA ResizeMap ==
  ASSUME HashInv, HashInv', NEW u \in Users, SplitStart(u) \/ SplitSource(u) \/ MergeStart(u)
  PROVE  content' = content
<1>1. UNCHANGED block
  BY DEF SplitStart, SplitSource, MergeStart, file
<1>2. CASE SplitStart(u)
  <2> DEFINE new == modulus + 1
             g == new - ModValueUp(new) \div 2
             p == [at |-> "source", new |-> new, group |-> g]
  <2>1. proc' = [proc EXCEPT ![u] = p] /\ proc[u].at # "rewrite"
    BY <1>2 DEF SplitStart, Goes
  <2>2. \A i \in Ids : Home(i)' = Home(i)
    BY <1>2, SplitStartStep
  <2> HIDE DEF g, new
  <2>3. p.at = "source"
    OBVIOUS
  <2> HIDE DEF p
  <2>4. QED
    BY <1>1, <2>1, <2>2, <2>3, MapStep
<1>3. CASE SplitSource(u)
  <2>1. MovesLocked(u) /\ proc[u].at # "rewrite"
    BY <1>3, SplitSourceStep DEF SplitSource
  <2>2. \E groups, job, put, after : Rewrite(u, groups, job, put, after)
    BY <1>3 DEF SplitSource
  <2>3. QED
    BY <1>1, <2>1, <2>2, LocksMap
<1>4. CASE MergeStart(u)
  <2>1. MovesLocked(u) /\ proc[u].at # "rewrite"
    BY <1>4, MergeStartStep DEF MergeStart
  <2>2. \E groups, job, put, after : Rewrite(u, groups, job, put, after)
    BY <1>4 DEF MergeStart
  <2>3. QED
    BY <1>1, <2>1, <2>2, LocksMap
<1>5. QED
  BY <1>2, <1>3, <1>4

LEMMA LockMap ==
  ASSUME HashInv, HashInv', NEW u \in Users, Write(u) \/ WriteAfterBig(u) \/ Delete(u)
  PROVE  content' = content
<1>1. UNCHANGED <<block, modulus, modValue>> /\ proc[u].at \notin {"source", "rewrite"}
  BY DEF Write, WriteAfterBig, Delete, LockToWrite, file
<1>2. \E groups, job, put, after : Rewrite(u, groups, job, put, after)
  BY DEF Write, WriteAfterBig, Delete, LockToWrite
<1>3. QED
  BY <1>1, <1>2, LocksMap

LEMMA ReadAnswers ==
  ASSUME HashInv, HashInv', NEW u \in Users, ReadGroup(u)
  PROVE  reply' = content[proc[u].id] /\ Map!Get(u)
<1>1. PICK i \in Ids : i = proc[u].id
  BY DEF ReadGroup, HashInv, SessionOK
<1>2. proc[u].group = Home(i) /\ MyLock(u, Home(i), FALSE) \in glock
  BY <1>1 DEF ReadGroup, HashInv, SessionOK, HomeOK
<1>3. Rewriting(i) = {}
  <2>1. ASSUME NEW v \in Rewriting(i)
        PROVE  FALSE
    <3>1. MyLock(v, Home(i), TRUE) \in glock
      BY OneRewritesHeld DEF OneRewrites
    <3>2. MyLock(v, Home(i), TRUE) = MyLock(u, Home(i), FALSE)
      BY <1>2, <3>1 DEF HashInv, LocksInv, MyLock
    <3>3. QED
      BY <3>2 DEF MyLock
  <2>2. QED
    BY <2>1
<1>4. reply' = content[i]
  BY <1>1, <1>2, <1>3, ContentOf DEF ReadGroup
<1>5. content' = content
  BY QuietMap
<1>6. pending' = pending
  <2>1. proc' = [proc EXCEPT ![u] = [at |-> "idle"]] /\ proc[u].at = "read"
    BY DEF ReadGroup, Goes
  <2>2. \A v \in Users : v # u => proc'[v] = proc[v]
    BY <2>1 DEF HashInv
  <2>3. proc'[u].at = "idle"
    BY <2>1 DEF HashInv
  <2>4. QED
    BY <2>1, <2>2, <2>3 DEF pending
<1>7. asked' = [asked EXCEPT ![u] = {}] /\ i \in asked[u]
  <2>1. proc' = [proc EXCEPT ![u] = [at |-> "idle"]] /\ proc[u].at = "read"
    BY DEF ReadGroup, Goes
  <2>2. \A v \in Users : v # u => proc'[v] = proc[v]
    BY <2>1 DEF HashInv
  <2>3. proc'[u].at = "idle"
    BY <2>1 DEF HashInv
  <2>4. PICK a, b : a = asked /\ b = asked'
    OBVIOUS
  <2>5. a = [v \in Users |-> a[v]] /\ b = [v \in Users |-> IF v = u THEN {} ELSE a[v]]
    BY <2>2, <2>3, <2>4 DEF asked
  <2>6. b = [a EXCEPT ![u] = {}]
    BY <2>5
  <2>7. i \in asked[u]
    BY <1>1, <2>1 DEF asked
  <2>8. QED
    BY <2>4, <2>6, <2>7
<1>8. QED
  BY <1>1, <1>4, <1>5, <1>6, <1>7 DEF Map!Get

(* A READ returns what the map holds for its id at that moment, although it *)
(* hashed the id before it got the group lock and the file may have begun   *)
(* to split or merge since (dh_read).                                       *)
ReadsAnswer ==
  [][\A u \in Users : ReadGroup(u) => reply' = content[proc[u].id] /\ Map!Get(u)]_vars

THEOREM ReadsTheMap == Spec => ReadsAnswer
<1>1. HashInv /\ HashInv' /\ [Next]_vars
        => [\A u \in Users : ReadGroup(u) => reply' = content[proc[u].id] /\ Map!Get(u)]_vars
  BY ReadAnswers
<1>2. QED
  BY <1>1, HashingHeld, PTL DEF Spec, ReadsAnswer

(* Nothing but the writing of blocks and the end of it changes what a       *)
(* session would find: not to lock groups, to add a group to the file or    *)
(* take one off, to move ids to another group, to count or to select.       *)
MapKept ==
  [][(\A u \in Users : ~(WriteBig(u) \/ MoreBig(u) \/ Working(u) \/ FreeLocks(u) \/ FreeBig(u)))
       => content' = content]_vars

THEOREM LocksKeepMap == Spec => MapKept
<1>1. ASSUME HashInv, HashInv', Next,
             \A u \in Users : ~(WriteBig(u) \/ MoreBig(u) \/ Working(u) \/ FreeLocks(u) \/ FreeBig(u))
      PROVE  content' = content
  BY <1>1, QuietMap, SelectGroupMap, ResizeMap, LockMap DEF Next, Working
<1>2. HashInv /\ HashInv' /\ [Next]_vars
        => [(\A u \in Users : ~(WriteBig(u) \/ MoreBig(u) \/ Working(u) \/ FreeLocks(u) \/ FreeBig(u)))
              => content' = content]_vars
  BY <1>1
<1>3. QED
  BY <1>2, HashingHeld, PTL DEF Spec, MapKept
-----------------------------------------------------------------------------
(* Sequences of records.                                                    *)

RecsIn(recs) == {recs[k] : k \in 1 .. Len(recs)}

DistinctIds(recs) == \A j, k \in 1 .. Len(recs) : recs[j].id = recs[k].id => j = k

LEMMA NoRecs == RecsIn(<<>>) = {} /\ DistinctIds(<<>>) /\ <<>> \in Seq(Rec)
BY DEF RecsIn, DistinctIds

LEMMA SomeRecs ==
  ASSUME NEW s \in Seq(Rec)
  PROVE  /\ RecsIn(s) \subseteq Rec /\ (\A k \in 1 .. Len(s) : s[k] \in RecsIn(s))
         /\ (RecsIn(s) = {} => s = <<>>) /\ Len(s) \in Nat
<1>1. \A k \in 1 .. Len(s) : s[k] \in RecsIn(s)
  BY DEF RecsIn
<1>2. ASSUME RecsIn(s) = {}
      PROVE  s = <<>>
  <2>1. Len(s) \in Nat
    OBVIOUS
  <2>2. Len(s) = 0
    BY <1>1, <1>2, <2>1
  <2>3. QED
    BY <2>2, EmptySeq
<1>3. RecsIn(s) \subseteq Rec /\ Len(s) \in Nat
  BY DEF RecsIn
<1>4. QED
  BY <1>1, <1>2, <1>3

LEMMA IdsDiffer ==
  ASSUME NEW s \in Seq(Rec), DistinctIds(s), NEW q \in RecsIn(s), NEW r \in RecsIn(s), q.id = r.id
  PROVE  q = r
BY DEF RecsIn, DistinctIds

LEMMA RecsCat ==
  ASSUME NEW s \in Seq(Rec), NEW t \in Seq(Rec)
  PROVE  /\ s \o t \in Seq(Rec) /\ RecsIn(s \o t) = RecsIn(s) \cup RecsIn(t)
         /\ DistinctIds(s) /\ DistinctIds(t) /\ (\A q \in RecsIn(s), r \in RecsIn(t) : q.id # r.id)
              => DistinctIds(s \o t)
<1> DEFINE c == s \o t
           m == Len(s)
           n == Len(t)
<1>1. /\ c \in Seq(Rec) /\ Len(c) = m + n /\ m \in Nat /\ n \in Nat
      /\ \A i \in 1 .. m + n : c[i] = IF i <= m THEN s[i] ELSE t[i - m]
  BY ConcatProperties
<1> HIDE DEF c
<1>2. \A i \in 1 .. m : c[i] = s[i]
  BY <1>1
<1>3. \A i \in 1 .. n : c[i + m] = t[i]
  BY <1>1
<1>4. \A i \in 1 .. Len(c) : i \in 1 .. m \/ (i - m \in 1 .. n /\ c[i] = t[i - m])
  BY <1>1
<1>5. RecsIn(c) \subseteq RecsIn(s) \cup RecsIn(t)
  BY <1>2, <1>4 DEF RecsIn
<1>6. RecsIn(s) \subseteq RecsIn(c)
  <2>1. 1 .. m \subseteq 1 .. Len(c)
    BY <1>1
  <2>2. QED
    BY <1>2, <2>1 DEF RecsIn
<1>7. RecsIn(t) \subseteq RecsIn(c)
  <2>1. \A i \in 1 .. n : i + m \in 1 .. Len(c)
    BY <1>1
  <2>2. QED
    BY <1>3, <2>1 DEF RecsIn
<1>8. ASSUME DistinctIds(s), DistinctIds(t), \A q \in RecsIn(s), r \in RecsIn(t) : q.id # r.id,
             NEW j \in 1 .. Len(c), NEW k \in 1 .. Len(c), c[j].id = c[k].id
      PROVE  j = k
  <2>1. CASE j <= m /\ k <= m
    <3>1. j \in 1 .. m /\ k \in 1 .. m
      BY <1>1, <2>1
    <3>2. QED
      BY <1>2, <1>8, <3>1 DEF DistinctIds
  <2>2. CASE j > m /\ k > m
    <3>1. j - m \in 1 .. n /\ k - m \in 1 .. n /\ c[j] = t[j - m] /\ c[k] = t[k - m]
      BY <1>1, <2>2
    <3>2. j - m = k - m
      BY <1>8, <3>1 DEF DistinctIds
    <3>3. QED
      BY <1>1, <3>2
  <2>3. CASE j <= m /\ k > m
    <3>1. j \in 1 .. m /\ k - m \in 1 .. n /\ c[j] = s[j] /\ c[k] = t[k - m]
      BY <1>1, <2>3
    <3>2. QED
      BY <1>8, <3>1 DEF RecsIn
  <2>4. CASE j > m /\ k <= m
    <3>1. k \in 1 .. m /\ j - m \in 1 .. n /\ c[k] = s[k] /\ c[j] = t[j - m]
      BY <1>1, <2>4
    <3>2. QED
      BY <1>8, <3>1 DEF RecsIn
  <2>5. QED
    BY <1>1, <2>1, <2>2, <2>3, <2>4
<1>9. QED
  BY <1>1, <1>5, <1>6, <1>7, <1>8 DEF c, DistinctIds

LEMMA RecsOne ==
  ASSUME NEW r \in Rec
  PROVE  <<r>> \in Seq(Rec) /\ RecsIn(<<r>>) = {r} /\ DistinctIds(<<r>>)
<1>1. <<r>> \in Seq(Rec) /\ Len(<<r>>) = 1 /\ <<r>>[1] = r
  OBVIOUS
<1>2. 1 .. 1 = {1}
  OBVIOUS
<1>3. QED
  BY <1>1, <1>2 DEF RecsIn, DistinctIds

LEMMA RecsAppend ==
  ASSUME NEW s \in Seq(Rec), NEW r \in Rec
  PROVE  /\ Append(s, r) \in Seq(Rec) /\ RecsIn(Append(s, r)) = RecsIn(s) \cup {r}
         /\ DistinctIds(s) /\ (\A q \in RecsIn(s) : q.id # r.id) => DistinctIds(Append(s, r))
<1> DEFINE t == <<r>>
<1>1. Append(s, r) = s \o t
  BY AppendIsConcat
<1>2. t \in Seq(Rec) /\ RecsIn(t) = {r} /\ DistinctIds(t)
  BY RecsOne
<1> HIDE DEF t
<1>3. s \o t \in Seq(Rec) /\ RecsIn(s \o t) = RecsIn(s) \cup {r}
  BY <1>2, RecsCat
<1>4. ASSUME DistinctIds(s), \A q \in RecsIn(s) : q.id # r.id
      PROVE  DistinctIds(s \o t)
  BY <1>2, <1>4, RecsCat
<1>5. QED
  BY <1>1, <1>3, <1>4

LEMMA RecsTail ==
  ASSUME NEW s \in Seq(Rec), s # <<>>, DistinctIds(s)
  PROVE  /\ Head(s) \in Rec /\ Tail(s) \in Seq(Rec) /\ DistinctIds(Tail(s))
         /\ RecsIn(s) = RecsIn(Tail(s)) \cup {Head(s)}
         /\ \A r \in RecsIn(Tail(s)) : r.id # Head(s).id
<1> DEFINE t == Tail(s)
           n == Len(t)
<1>1. /\ Head(s) \in Rec /\ t \in Seq(Rec) /\ n = Len(s) - 1 /\ Len(s) \in Nat /\ Len(s) > 0
      /\ \A i \in 1 .. n : t[i] = s[i + 1]
  <2>1. Len(s) > 0 /\ Len(s) \in Nat
    BY EmptySeq
  <2>2. QED
    BY <2>1, HeadTailProperties
<1>2. Head(s) = s[1]
  OBVIOUS
<1> HIDE DEF t
<1>3. \A i \in 1 .. n : i + 1 \in 1 .. Len(s) /\ i + 1 # 1
  BY <1>1
<1>4. \A i \in 1 .. Len(s) : i = 1 \/ (i - 1 \in 1 .. n /\ t[i - 1] = s[i])
  BY <1>1
<1>5. DistinctIds(t)
  <2>1. ASSUME NEW j \in 1 .. n, NEW k \in 1 .. n, t[j].id = t[k].id
        PROVE  j = k
    <3>1. j + 1 = k + 1
      BY <1>1, <1>3, <2>1 DEF DistinctIds
    <3>2. QED
      BY <1>1, <3>1
  <2>2. QED
    BY <2>1 DEF DistinctIds
<1>6. RecsIn(s) = RecsIn(t) \cup {Head(s)}
  <2>1. RecsIn(s) \subseteq RecsIn(t) \cup {Head(s)}
    BY <1>2, <1>4 DEF RecsIn
  <2>2. RecsIn(t) \subseteq RecsIn(s)
    BY <1>1, <1>3 DEF RecsIn
  <2>3. Head(s) \in RecsIn(s)
    <3>1. 1 \in 1 .. Len(s)
      BY <1>1
    <3>2. QED
      BY <1>2, <3>1 DEF RecsIn
  <2>4. QED
    BY <2>1, <2>2, <2>3
<1>7. ASSUME NEW r \in RecsIn(t)
      PROVE  r.id # Head(s).id
  <2>1. PICK i \in 1 .. n : r = s[i + 1]
    BY <1>1 DEF RecsIn
  <2>2. i + 1 \in 1 .. Len(s) /\ 1 \in 1 .. Len(s) /\ i + 1 # 1
    BY <1>1, <1>3
  <2>3. QED
    BY <1>2, <2>1, <2>2 DEF DistinctIds
<1>8. QED
  BY <1>1, <1>5, <1>6, <1>7 DEF t

(* What is before a place in a sequence, and what is after it.              *)
LEMMA RecsSplit ==
  ASSUME NEW s \in Seq(Rec), DistinctIds(s), NEW m \in 0 .. Len(s), NEW n \in m + 1 .. Len(s) + 1
  PROVE  /\ SubSeq(s, 1, m) \in Seq(Rec) /\ SubSeq(s, n, Len(s)) \in Seq(Rec)
         /\ DistinctIds(SubSeq(s, 1, m)) /\ DistinctIds(SubSeq(s, n, Len(s)))
         /\ RecsIn(SubSeq(s, 1, m)) = {s[k] : k \in 1 .. m}
         /\ RecsIn(SubSeq(s, n, Len(s))) = {s[k] : k \in n .. Len(s)}
         /\ Len(SubSeq(s, n, Len(s))) = Len(s) - n + 1
<1> DEFINE a == SubSeq(s, 1, m)
           b == SubSeq(s, n, Len(s))
           l == Len(s)
<1>0. l \in Nat /\ \A i \in 1 .. l : s[i] \in Rec
  OBVIOUS
<1>1. /\ a \in Seq(Rec) /\ Len(a) = m /\ \A i \in 1 .. m : a[i] = s[i]
  <2>1. \A i \in 1 .. m : s[i] \in Rec
    BY <1>0
  <2>2. /\ a \in Seq(Rec) /\ Len(a) = (IF 1 <= m THEN m - 1 + 1 ELSE 0)
        /\ \A i \in 1 .. m - 1 + 1 : a[i] = s[1 + i - 1]
    BY <2>1, SubSeqProperties
  <2> HIDE DEF a
  <2>3. QED
    BY <1>0, <2>2
<1>2. /\ b \in Seq(Rec) /\ Len(b) = l - n + 1 /\ \A i \in 1 .. l - n + 1 : b[i] = s[n + i - 1]
  <2>1. \A i \in n .. l : s[i] \in Rec
    BY <1>0
  <2>2. /\ b \in Seq(Rec) /\ Len(b) = (IF n <= l THEN l - n + 1 ELSE 0)
        /\ \A i \in 1 .. l - n + 1 : b[i] = s[n + i - 1]
    BY <1>0, <2>1, SubSeqProperties
  <2> HIDE DEF b
  <2>3. QED
    BY <1>0, <2>2
<1> HIDE DEF a, b
<1>3. DistinctIds(a) /\ RecsIn(a) = {s[k] : k \in 1 .. m}
  <2>1. 1 .. m \subseteq 1 .. l
    BY <1>0
  <2>2. QED
    BY <1>1, <2>1 DEF DistinctIds, RecsIn
<1>4. RecsIn(b) = {s[k] : k \in n .. l}
  <2>1. ASSUME NEW i \in 1 .. Len(b)
        PROVE  n + i - 1 \in n .. l /\ b[i] = s[n + i - 1]
    <3>1. i \in 1 .. l - n + 1
      BY <1>2
    <3>2. QED
      BY <1>0, <1>2, <3>1
  <2>2. \A k \in n .. l : k - n + 1 \in 1 .. Len(b) /\ b[k - n + 1] = s[k]
    BY <1>0, <1>2
  <2>3. RecsIn(b) \subseteq {s[k] : k \in n .. l}
    BY <2>1 DEF RecsIn
  <2>4. {s[k] : k \in n .. l} \subseteq RecsIn(b)
    BY <2>2 DEF RecsIn
  <2>5. QED
    BY <2>3, <2>4
<1>5. DistinctIds(b)
  <2>1. ASSUME NEW j \in 1 .. Len(b), NEW k \in 1 .. Len(b), b[j].id = b[k].id
        PROVE  j = k
    <3>1. n + j - 1 \in 1 .. l /\ n + k - 1 \in 1 .. l /\ b[j] = s[n + j - 1] /\ b[k] = s[n + k - 1]
      BY <1>0, <1>2
    <3>2. n + j - 1 = n + k - 1
      BY <2>1, <3>1 DEF DistinctIds
    <3>3. QED
      BY <1>0, <1>2, <3>2
  <2>2. QED
    BY <2>1 DEF DistinctIds
<1>6. QED
  BY <1>1, <1>2, <1>3, <1>4, <1>5 DEF a, b

LEMMA RecsRemove ==
  ASSUME NEW s \in Seq(Rec), DistinctIds(s), NEW k \in 1 .. Len(s)
  PROVE  /\ RemoveAt(s, k) \in Seq(Rec) /\ DistinctIds(RemoveAt(s, k))
         /\ RecsIn(RemoveAt(s, k)) = RecsIn(s) \ {s[k]}
<1> DEFINE a == SubSeq(s, 1, k - 1)
           b == SubSeq(s, k + 1, Len(s))
<1>0. Len(s) \in Nat /\ k - 1 \in 0 .. Len(s) /\ k + 1 \in (k - 1) + 1 .. Len(s) + 1
  OBVIOUS
<1>1. /\ a \in Seq(Rec) /\ b \in Seq(Rec) /\ DistinctIds(a) /\ DistinctIds(b)
      /\ RecsIn(a) = {s[j] : j \in 1 .. (k - 1)} /\ RecsIn(b) = {s[j] : j \in (k + 1) .. Len(s)}
  BY <1>0, RecsSplit
<1> HIDE DEF a, b
<1>2. \A q \in RecsIn(a), r \in RecsIn(b) : q.id # r.id
  <2>1. \A i \in 1 .. (k - 1), j \in (k + 1) .. Len(s) : i \in 1 .. Len(s) /\ j \in 1 .. Len(s) /\ i # j
    BY <1>0
  <2>2. QED
    BY <1>1, <2>1 DEF DistinctIds
<1>3. RecsIn(a) \cup RecsIn(b) = RecsIn(s) \ {s[k]}
  <2>1. \A j \in 1 .. Len(s) : j = k \/ j \in 1 .. (k - 1) \/ j \in (k + 1) .. Len(s)
    BY <1>0
  <2>2. \A j \in 1 .. Len(s) : j # k => s[j] # s[k]
    BY DEF DistinctIds
  <2>3. \A j \in 1 .. (k - 1) \cup (k + 1) .. Len(s) : j \in 1 .. Len(s) /\ j # k
    BY <1>0
  <2>4. QED
    BY <1>1, <2>1, <2>2, <2>3 DEF RecsIn
<1>4. RemoveAt(s, k) = a \o b
  BY DEF RemoveAt, a, b
<1>5. QED
  BY <1>1, <1>2, <1>3, <1>4, RecsCat

LEMMA RecsReplace ==
  ASSUME NEW s \in Seq(Rec), DistinctIds(s), NEW k \in 1 .. Len(s), NEW r \in Rec, r.id = s[k].id
  PROVE  /\ [s EXCEPT ![k] = r] \in Seq(Rec) /\ DistinctIds([s EXCEPT ![k] = r])
         /\ RecsIn([s EXCEPT ![k] = r]) = (RecsIn(s) \ {s[k]}) \cup {r}
<1> DEFINE t == [s EXCEPT ![k] = r]
<1>1. /\ t \in Seq(Rec) /\ Len(t) = Len(s)
      /\ \A j \in 1 .. Len(s) : t[j] = IF j = k THEN r ELSE s[j]
  BY ExceptSeq
<1> HIDE DEF t
<1>2. DistinctIds(t)
  BY <1>1 DEF DistinctIds
<1>3. RecsIn(t) = (RecsIn(s) \ {s[k]}) \cup {r}
  <2>1. \A j \in 1 .. Len(s) : j # k => s[j] # s[k]
    BY DEF DistinctIds
  <2>2. QED
    BY <1>1, <2>1 DEF RecsIn
<1>4. QED
  BY <1>1, <1>2, <1>3 DEF t

-----------------------------------------------------------------------------
(* Induction over the numbers, for recursive functions.                     *)

LEMMA NatSet ==
  ASSUME NEW S \in SUBSET Nat, 0 \in S, \A n \in S : n + 1 \in S
  PROVE  \A n \in Nat : n \in S
<1>1. SUFFICES ASSUME Nat \ S # {}
               PROVE  FALSE
  OBVIOUS
<1>2. PICK m \in Nat \ S : \A n \in Nat \ S : m <= n
  <2>1. Nat \ S \in SUBSET Nat
    OBVIOUS
  <2>2. QED
    BY <1>1, <2>1, LeastNat
<1>3. m # 0 /\ m - 1 \in Nat
  BY <1>2
<1>4. m - 1 \in S
  BY <1>2, <1>3
<1>5. (m - 1) + 1 \in S
  BY <1>4
<1>6. QED
  BY <1>2, <1>5

-----------------------------------------------------------------------------
(* What records take.                                                       *)

SumFn(recs, m, f) ==
  f = [n \in 0 .. m |-> IF n = 0 THEN 0 ELSE f[n - 1] + Size[recs[n].val]]

SumOf(recs, m) == CHOOSE f : SumFn(recs, m, f)

LEMMA BytesIs ==
  ASSUME NEW recs
  PROVE  Bytes(recs) = SumOf(recs, Len(recs))[Len(recs)]
BY DEF Bytes, SumOf, SumFn

LEMMA SumExists ==
  ASSUME NEW recs \in Seq(Rec)
  PROVE  \A m \in Nat : \E f : SumFn(recs, m, f)
<1> DEFINE S == {m \in Nat : \E f : SumFn(recs, m, f)}
<1>1. 0 \in S
  <2> DEFINE f == [n \in 0 .. 0 |-> 0]
  <2>1. \A n \in 0 .. 0 : n = 0
    OBVIOUS
  <2>2. f = [n \in 0 .. 0 |-> IF n = 0 THEN 0 ELSE f[n - 1] + Size[recs[n].val]]
    BY <2>1
  <2>3. QED
    BY <2>2 DEF SumFn
<1>2. ASSUME NEW m \in S
      PROVE  m + 1 \in S
  <2>1. PICK f : SumFn(recs, m, f)
    OBVIOUS
  <2> DEFINE h == [n \in 0 .. m + 1 |-> IF n = 0 THEN 0 ELSE f[n - 1] + Size[recs[n].val]]
  <2>2. \A n \in 0 .. m : h[n] = f[n]
    BY <2>1 DEF SumFn
  <2>3. \A n \in 0 .. m + 1 : n # 0 => n - 1 \in 0 .. m
    OBVIOUS
  <2>4. \A n \in 0 .. m + 1 : h[n] = IF n = 0 THEN 0 ELSE h[n - 1] + Size[recs[n].val]
    BY <2>2, <2>3
  <2>5. SumFn(recs, m + 1, h)
    BY <2>4 DEF SumFn
  <2>6. QED
    BY <2>5
<1> HIDE DEF S
<1>3. \A m \in Nat : m \in S
  BY <1>1, <1>2, NatSet DEF S
<1>4. QED
  BY <1>3 DEF S

LEMMA BytesNat ==
  ASSUME NEW recs \in Seq(Rec)
  PROVE  Bytes(recs) \in Nat
<1> DEFINE l == Len(recs)
           f == SumOf(recs, l)
           S == {m \in Nat : m <= l => f[m] \in Nat}
<1>1. l \in Nat /\ \A n \in 1 .. l : Size[recs[n].val] \in Nat
  <2>1. \A v \in Vals : Size[v] \in Nat
    BY FileConstants
  <2>2. \A r \in Rec : Size[r.val] \in Nat
    BY <2>1 DEF Rec
  <2>3. QED
    BY <2>2
<1>2. SumFn(recs, l, f)
  BY <1>1, SumExists DEF SumOf
<1> HIDE DEF f
<1>3. \A n \in 0 .. l : f[n] = IF n = 0 THEN 0 ELSE f[n - 1] + Size[recs[n].val]
  BY <1>2 DEF SumFn
<1>4. 0 \in S
  BY <1>1, <1>3
<1>5. ASSUME NEW m \in S
      PROVE  m + 1 \in S
  <2>1. SUFFICES ASSUME m + 1 <= l
                 PROVE  f[m + 1] \in Nat
    OBVIOUS
  <2>2. m + 1 \in 0 .. l /\ m + 1 # 0 /\ (m + 1) - 1 = m /\ m + 1 \in 1 .. l /\ m <= l
    BY <1>1, <2>1
  <2>3. f[m + 1] = f[m] + Size[recs[m + 1].val]
    BY <1>3, <2>2
  <2>4. QED
    BY <1>1, <2>2, <2>3
<1> HIDE DEF S
<1>6. \A m \in Nat : m \in S
  BY <1>4, <1>5, NatSet DEF S
<1>7. f[l] \in Nat
  BY <1>1, <1>6 DEF S
<1>8. Bytes(recs) = f[l]
  BY BytesIs DEF f
<1>9. QED
  BY <1>7, <1>8

(* How much of a block fits is part of it.                                  *)
LEMMA FitsIn ==
  ASSUME NEW recs \in Seq(Rec), NEW space \in Int
  PROVE  Fits(recs, space) \in 0 .. Len(recs)
<1> DEFINE l == Len(recs)
           Cut(n) == n = l \/ Bytes(SubSeq(recs, 1, n + 1)) > space
           S == {n \in 0 .. l : Cut(n)}
<1>1. l \in Nat
  OBVIOUS
<1>2. l \in S /\ S \in SUBSET Nat
  BY <1>1
<1>3. PICK m \in S : \A n \in S : m <= n
  <2> HIDE DEF S
  <2>1. QED
    BY <1>2, LeastNat
<1>4. ASSUME NEW k \in 1 .. m
      PROVE  Bytes(SubSeq(recs, 1, k)) <= space
  <2>1. k - 1 \in 0 .. l /\ ~(m <= k - 1) /\ k \in 1 .. l /\ (k - 1) + 1 = k
    BY <1>1, <1>3
  <2>2. ~Cut(k - 1)
    BY <1>3, <2>1
  <2>3. ~(Bytes(SubSeq(recs, 1, k)) > space)
    BY <2>1, <2>2
  <2>4. SubSeq(recs, 1, k) \in Seq(Rec)
    <3>1. \A i \in 1 .. k : recs[i] \in Rec
      BY <1>1, <2>1
    <3>2. QED
      BY <3>1, SubSeqProperties
  <2>5. Bytes(SubSeq(recs, 1, k)) \in Nat
    BY <2>4, BytesNat
  <2>6. QED
    BY <2>3, <2>5
<1>5. \E n \in 0 .. l : /\ \A k \in 1 .. n : Bytes(SubSeq(recs, 1, k)) <= space
                        /\ n = l \/ Bytes(SubSeq(recs, 1, n + 1)) > space
  BY <1>3, <1>4
<1>6. QED
  BY <1>5 DEF Fits
-----------------------------------------------------------------------------
(* Where a pointer to an overflow block can be: the head of the free chain, *)
(* a block, a big record, and a session that rewrites a group, writes a big *)
(* record or is about to free one.                                          *)
FreePos == <<"free", 0>>
NextPos(p) == <<"next", p>>
RecPos(i) == <<"rec", i>>
SrcPos(u) == <<"src", u>>
RestPos(u) == <<"rest", u>>
BigPos(u) == <<"big", u>>

Pos ==
  {FreePos} \cup {NextPos(p) : p \in Place} \cup {RecPos(i) : i \in Ids}
    \cup {SrcPos(u) : u \in Users} \cup {RestPos(u) : u \in Users} \cup {BigPos(u) : u \in Users}

(* Each block up to end is pointed to, from one position.                   *)
Linked(ptr, from, end) ==
  /\ end \in 0 .. MaxOverflow
  /\ ptr \in [Pos -> Over \cup {None}] /\ from \in [Over -> Pos]
  /\ \A x \in Pos : ptr[x] # None => ptr[x] <= end /\ from[ptr[x]] = x
  /\ \A o \in Over : o <= end => ptr[from[o]] = o

(* Each place belongs to a group, to the free chain (0), to a big record or *)
(* a session that holds it by itself (its own number, or that of the first  *)
(* block of the record) or to what a split or merge has still to move.      *)
Moving == MaxModulus + MaxOverflow + 1

(* What own must say for position x to point to block k.                    *)
Law(x, k, own) ==
  /\ x = FreePos => own[Overflow(k)] = 0
  /\ \A p \in Place : x = NextPos(p) => own[Overflow(k)] = own[p]
  /\ \A u \in Users : x = RestPos(u) => own[Overflow(k)] = Moving
  /\ \A u \in Users : x \in {SrcPos(u), BigPos(u)} => own[Overflow(k)] = Overflow(k)
  /\ \A i \in Ids : x = RecPos(i) => own[Overflow(k)] = Overflow(k)

Owned(ptr, own) ==
  /\ own \in [Place -> Int]
  /\ \A g \in Groups : own[Primary(g)] = g
  /\ \A x \in Pos : ptr[x] # None => Law(x, ptr[x], own)

(* No chain comes back to itself: the rank goes up along each.              *)
Ranked(ptr, rank, lo, hi) ==
  /\ lo \in Int /\ hi \in Int /\ rank \in [Place -> lo .. hi]
  /\ \A p \in Place : ptr[NextPos(p)] # None => rank[p] < rank[Overflow(ptr[NextPos(p)])]

Chained(ptr, own, end) ==
  /\ \E from : Linked(ptr, from, end)
  /\ Owned(ptr, own)
  /\ \E rank, lo, hi : Ranked(ptr, rank, lo, hi)

LEMMA PosDiffer ==
  /\ \A p : NextPos(p) # FreePos /\ \A q : NextPos(p) = NextPos(q) => p = q
  /\ \A i : RecPos(i) # FreePos /\ (\A p : RecPos(i) # NextPos(p)) /\ \A j : RecPos(i) = RecPos(j) => i = j
  /\ \A u : SrcPos(u) # FreePos /\ (\A p : SrcPos(u) # NextPos(p)) /\ (\A i : SrcPos(u) # RecPos(i))
            /\ \A v : SrcPos(u) = SrcPos(v) => u = v
  /\ \A u : RestPos(u) # FreePos /\ (\A p : RestPos(u) # NextPos(p)) /\ (\A i : RestPos(u) # RecPos(i))
            /\ (\A v : RestPos(u) # SrcPos(v)) /\ \A v : RestPos(u) = RestPos(v) => u = v
  /\ \A u : BigPos(u) # FreePos /\ (\A p : BigPos(u) # NextPos(p)) /\ (\A i : BigPos(u) # RecPos(i))
            /\ (\A v : BigPos(u) # SrcPos(v) /\ BigPos(u) # RestPos(v)) /\ \A v : BigPos(u) = BigPos(v) => u = v
BY DEF FreePos, NextPos, RecPos, SrcPos, RestPos, BigPos

LEMMA PosIn ==
  /\ FreePos \in Pos /\ (\A p \in Place : NextPos(p) \in Pos) /\ (\A i \in Ids : RecPos(i) \in Pos)
  /\ \A u \in Users : SrcPos(u) \in Pos /\ RestPos(u) \in Pos /\ BigPos(u) \in Pos
BY DEF Pos

LEMMA PosIs ==
  ASSUME NEW x \in Pos
  PROVE  \/ x = FreePos \/ (\E p \in Place : x = NextPos(p)) \/ (\E i \in Ids : x = RecPos(i))
         \/ \E u \in Users : x = SrcPos(u) \/ x = RestPos(u) \/ x = BigPos(u)
BY DEF Pos

LEMMA Places ==
  /\ \A g \in Groups : Primary(g) \in Place /\ Primary(g) = g
  /\ \A o \in Over : Overflow(o) \in Place /\ OverflowNo(Overflow(o)) = o /\ Overflow(o) \notin Groups
  /\ \A o \in Over, q \in Over : Overflow(o) = Overflow(q) => o = q
  /\ \A p \in Place : p \notin Groups => OverflowNo(p) \in Over /\ Overflow(OverflowNo(p)) = p
  /\ MaxModulus \in Nat /\ MaxOverflow \in Nat
  /\ None \notin Over /\ None \notin Groups
BY FileConstants DEF Primary, Place, Overflow, OverflowNo, Over, Groups, None

LEMMA Owners ==
  /\ 0 \notin Groups /\ Moving \notin Groups /\ Moving # 0 /\ Moving \in Int
  /\ \A o \in Over : Overflow(o) # 0 /\ Overflow(o) # Moving /\ Overflow(o) \notin Groups /\ Overflow(o) \in Int
  /\ Groups \subseteq Int
BY FileConstants DEF Overflow, Over, Groups, Moving

LEMMA Laws ==
  ASSUME NEW own, NEW k
  PROVE  /\ Law(FreePos, k, own) <=> own[Overflow(k)] = 0
         /\ \A p \in Place : Law(NextPos(p), k, own) <=> own[Overflow(k)] = own[p]
         /\ \A i \in Ids : Law(RecPos(i), k, own) <=> own[Overflow(k)] = Overflow(k)
         /\ \A u \in Users : /\ Law(SrcPos(u), k, own) <=> own[Overflow(k)] = Overflow(k)
                             /\ Law(BigPos(u), k, own) <=> own[Overflow(k)] = Overflow(k)
                             /\ Law(RestPos(u), k, own) <=> own[Overflow(k)] = Moving
BY PosDiffer, Zenon DEF Law

(* What the chains say of pointers and owners.                              *)
LEMMA PtrIs ==
  ASSUME NEW ptr, NEW own, NEW end, Chained(ptr, own, end)
  PROVE  /\ ptr \in [Pos -> Over \cup {None}] /\ own \in [Place -> Int] /\ end \in 0 .. MaxOverflow
         /\ \A g \in Groups : own[Primary(g)] = g
         /\ \A x \in Pos : ptr[x] # None => ptr[x] <= end /\ ptr[x] \in Over
         /\ \A x \in Pos, y \in Pos : ptr[x] = ptr[y] /\ ptr[x] # None => x = y
         /\ \A o \in Over : o <= end => \E x \in Pos : ptr[x] = o
<1>1. PICK from : Linked(ptr, from, end)
  BY DEF Chained
<1>2. ASSUME NEW x \in Pos, ptr[x] # None
      PROVE  ptr[x] <= end /\ ptr[x] \in Over /\ from[ptr[x]] = x
  BY <1>1, <1>2 DEF Linked
<1>3. \A o \in Over : o <= end => from[o] \in Pos /\ ptr[from[o]] = o
  BY <1>1 DEF Linked
<1>4. QED
  BY <1>1, <1>2, <1>3 DEF Chained, Owned, Linked

LEMMA OwnIs ==
  ASSUME NEW ptr, NEW own, NEW end, Chained(ptr, own, end)
  PROVE  /\ ptr[FreePos] # None => own[Overflow(ptr[FreePos])] = 0
         /\ \A p \in Place : ptr[NextPos(p)] # None =>
              own[Overflow(ptr[NextPos(p)])] = own[p] /\ Overflow(ptr[NextPos(p)]) # p
         /\ \A i \in Ids : ptr[RecPos(i)] # None =>
              own[Overflow(ptr[RecPos(i)])] = Overflow(ptr[RecPos(i)])
         /\ \A u \in Users :
              /\ ptr[SrcPos(u)] # None => own[Overflow(ptr[SrcPos(u)])] = Overflow(ptr[SrcPos(u)])
              /\ ptr[BigPos(u)] # None => own[Overflow(ptr[BigPos(u)])] = Overflow(ptr[BigPos(u)])
              /\ ptr[RestPos(u)] # None => own[Overflow(ptr[RestPos(u)])] = Moving
<1>1. Owned(ptr, own) /\ \E rank, lo, hi : Ranked(ptr, rank, lo, hi)
  BY DEF Chained
<1>2. \A x \in Pos : ptr[x] # None => Law(x, ptr[x], own)
  BY <1>1 DEF Owned
<1>3. ASSUME NEW p \in Place, ptr[NextPos(p)] # None
      PROVE  Overflow(ptr[NextPos(p)]) # p
  <2>1. PICK rank, lo, hi : Ranked(ptr, rank, lo, hi)
    BY <1>1
  <2>2. rank[p] < rank[Overflow(ptr[NextPos(p)])] /\ rank[p] \in Int
    BY <1>3, <2>1 DEF Ranked
  <2>3. QED
    BY <2>2
<1>4. QED
  BY <1>2, <1>3, Laws, PosIn

(* Of some blocks of the file one is pointed to from elsewhere.             *)
LEMMA FirstOf ==
  ASSUME NEW ptr, NEW own, NEW end, Chained(ptr, own, end),
         NEW S \in SUBSET Over, S # {}, \A o \in S : o <= end
  PROVE  \E m \in S, x \in Pos : ptr[x] = m /\ \A o \in S : x # NextPos(Overflow(o))
<1>1. PICK rank, lo, hi : Ranked(ptr, rank, lo, hi)
  BY DEF Chained
<1> DEFINE h(o) == rank[Overflow(o)] - lo
           T == {h(o) : o \in S}
<1>2. \A o \in Over : rank[Overflow(o)] \in Int /\ h(o) \in Nat
  BY <1>1, Places DEF Ranked
<1>3. T \in SUBSET Nat /\ T # {}
  BY <1>2
<1>4. PICK t \in T : \A n \in T : t <= n
  <2> HIDE DEF T
  <2>1. QED
    BY <1>3, LeastNat
<1>5. PICK m \in S : \A o \in S : h(m) <= h(o)
  BY <1>4
<1>6. PICK x \in Pos : ptr[x] = m
  BY PtrIs
<1>7. ASSUME NEW o \in S, x = NextPos(Overflow(o))
      PROVE  FALSE
  <2>1. Overflow(o) \in Place /\ m # None
    BY Places
  <2>2. rank[Overflow(o)] < rank[Overflow(m)]
    BY <1>1, <1>6, <1>7, <2>1 DEF Ranked
  <2>3. h(m) <= h(o) /\ lo \in Int
    BY <1>1, <1>5 DEF Ranked
  <2>4. QED
    BY <1>2, <2>2, <2>3
<1>8. QED
  BY <1>6, <1>7


-----------------------------------------------------------------------------
(* Three pointers are changed at once: the block that a points to is taken  *)
(* from there, what came after it is what a points to now, and it is put    *)
(* where b points, before what b pointed to.                                *)
Turned(ptr, a, n, b) == [ptr EXCEPT ![a] = ptr[n], ![n] = ptr[b], ![b] = ptr[a]]

LEMMA TurnedIs ==
  ASSUME NEW ptr, ptr \in [Pos -> Over \cup {None}], NEW a \in Pos, NEW n \in Pos, NEW b \in Pos,
         a # n, a # b, n # b
  PROVE  /\ Turned(ptr, a, n, b) \in [Pos -> Over \cup {None}]
         /\ \A x \in Pos : Turned(ptr, a, n, b)[x] =
              IF x = a THEN ptr[n] ELSE IF x = n THEN ptr[b] ELSE IF x = b THEN ptr[a] ELSE ptr[x]
BY DEF Turned

LEMMA TurnLinked ==
  ASSUME NEW ptr, NEW from, NEW end, Linked(ptr, from, end), NEW a \in Pos, NEW n \in Pos, NEW b \in Pos,
         a # n, a # b, n # b
  PROVE  \E from2 : Linked(Turned(ptr, a, n, b), from2, end)
<1> DEFINE t == Turned(ptr, a, n, b)
           From(x) == IF x = a THEN b ELSE IF x = n THEN a ELSE IF x = b THEN n ELSE x
           from2 == [o \in Over |-> From(from[o])]
<1>1. /\ t \in [Pos -> Over \cup {None}]
      /\ \A x \in Pos : t[x] = IF x = a THEN ptr[n] ELSE IF x = n THEN ptr[b]
                               ELSE IF x = b THEN ptr[a] ELSE ptr[x]
  BY SMTT(20), TurnedIs DEF Linked
<1>2. \A x \in Pos : From(x) \in Pos /\ t[From(x)] = ptr[x]
  BY <1>1
<1>3. \A x \in Pos : \E y \in Pos : x = From(y) /\ t[x] = ptr[y]
  <2>1. ASSUME NEW x \in Pos
        PROVE  \E y \in Pos : x = From(y)
    <3>1. CASE x = a
      BY <3>1
    <3>2. CASE x = n
      BY <3>2
    <3>3. CASE x = b
      BY <3>3
    <3>4. CASE x \notin {a, n, b}
      BY <3>4
    <3>5. QED
      BY <3>1, <3>2, <3>3, <3>4
  <2>2. QED
    BY <1>2, <2>1
<1> HIDE DEF t, From
<1>4. from2 \in [Over -> Pos] /\ \A o \in Over : from2[o] = From(from[o])
  BY <1>2 DEF Linked
<1> HIDE DEF from2
<1>5. ASSUME NEW x \in Pos, t[x] # None
      PROVE  t[x] <= end /\ from2[t[x]] = x
  <2>1. PICK y \in Pos : x = From(y) /\ t[x] = ptr[y]
    BY <1>3
  <2>2. ptr[y] \in Over /\ ptr[y] <= end /\ from[ptr[y]] = y
    BY <1>5, <2>1 DEF Linked
  <2>3. QED
    BY <1>4, <2>1, <2>2
<1>6. ASSUME NEW o \in Over, o <= end
      PROVE  t[from2[o]] = o
  <2>1. from[o] \in Pos /\ ptr[from[o]] = o
    BY <1>6 DEF Linked
  <2>2. QED
    BY <1>2, <1>4, <2>1
<1>7. Linked(t, from2, end)
  BY <1>1, <1>4, <1>5, <1>6 DEF Linked
<1>8. QED
  BY <1>7 DEF t

LEMMA Turn ==
  ASSUME NEW ptr, NEW own, NEW end, Chained(ptr, own, end),
         NEW a \in Pos, NEW b \in Pos, NEW k \in Over, ptr[a] = k, a # b,
         NextPos(Overflow(k)) # b,
         b = FreePos \/ (ptr[b] = None /\ ((\A p \in Place : a # NextPos(p)) \/ \A p \in Place : b # NextPos(p))),
         \/ ptr[NextPos(Overflow(k))] = None \/ a = FreePos
         \/ (\E p \in Place : a = NextPos(p)) \/ \E u \in Users : a = RestPos(u),
         NEW c \in Int, Law(b, k, [own EXCEPT ![Overflow(k)] = c])
  PROVE  Chained(Turned(ptr, a, NextPos(Overflow(k)), b), [own EXCEPT ![Overflow(k)] = c], end)
<1> DEFINE n == NextPos(Overflow(k))
           t == Turned(ptr, a, n, b)
           own2 == [own EXCEPT ![Overflow(k)] = c]
<1>0. /\ ptr \in [Pos -> Over \cup {None}] /\ own \in [Place -> Int]
      /\ \A x \in Pos : ptr[x] # None => ptr[x] <= end /\ ptr[x] \in Over
      /\ \A x \in Pos, y \in Pos : ptr[x] = ptr[y] /\ ptr[x] # None => x = y
  BY PtrIs
<1>1. k # None /\ Overflow(k) \in Place /\ Overflow(k) \notin Groups /\ n \in Pos
  BY Places, PosIn
<1>2. a # n
  <2>1. \A p \in Place : ptr[NextPos(p)] # None => Overflow(ptr[NextPos(p)]) # p
    BY OwnIs
  <2>2. QED
    BY <1>1, <2>1
<1>3. /\ t \in [Pos -> Over \cup {None}]
      /\ \A x \in Pos : t[x] = IF x = a THEN ptr[n] ELSE IF x = n THEN ptr[b]
                               ELSE IF x = b THEN ptr[a] ELSE ptr[x]
  BY <1>0, <1>1, <1>2, TurnedIs
<1>4. own2 \in [Place -> Int] /\ \A p \in Place : own2[p] = IF p = Overflow(k) THEN c ELSE own[p]
  BY <1>0, <1>1
<1>5. /\ Owned(ptr, own) /\ (\E from : Linked(ptr, from, end))
      /\ (\A x \in Pos : ptr[x] # None => Law(x, ptr[x], own)) /\ Law(b, k, own2)
  BY DEF Chained, Owned
<1> HIDE DEF t, own2
<1>6. \E from : Linked(t, from, end)
  BY <1>1, <1>2, <1>5, TurnLinked DEF t
<1>7. \A x \in Pos : ptr[x] # None /\ x # a =>
        Overflow(ptr[x]) # Overflow(k) /\ Overflow(ptr[x]) \in Place /\ ptr[x] \in Over
  BY <1>0, Places
<1>8. ASSUME NEW x \in Pos, t[x] # None
      PROVE  Law(x, t[x], own2)
  <2>1. CASE x = b
    <3>1. t[x] = k
      BY <1>2, <1>3, <2>1
    <3>2. QED
      BY <1>5, <2>1, <3>1
  <2>2. CASE x = a
    <3>1. t[x] = ptr[n] /\ ptr[n] # None
      BY <1>3, <1>8, <2>2
    <3>2. own2[Overflow(t[x])] = own[Overflow(k)]
      <4>1. own[Overflow(ptr[n])] = own[Overflow(k)]
        BY <1>1, <1>5, <3>1, Laws
      <4>2. Overflow(ptr[n]) # Overflow(k) /\ Overflow(ptr[n]) \in Place
        BY <1>1, <1>2, <1>7, <3>1
      <4>3. QED
        BY <1>4, <3>1, <4>1, <4>2
    <3>3. Law(a, k, own)
      BY <1>1, <1>5
    <3>4. CASE a = FreePos
      BY <2>2, <3>2, <3>3, <3>4, Laws
    <3>5. CASE \E u \in Users : a = RestPos(u)
      BY <2>2, <3>2, <3>3, <3>5, Laws
    <3>6. CASE \E p \in Place : a = NextPos(p)
      <4>1. PICK p \in Place : a = NextPos(p)
        BY <3>6
      <4>2. own[Overflow(k)] = own[p] /\ p # Overflow(k)
        BY <1>2, <3>3, <4>1, Laws
      <4>3. own2[Overflow(t[x])] = own2[p]
        BY <1>4, <3>2, <4>1, <4>2
      <4>4. QED
        BY <2>2, <4>1, <4>3, Laws
    <3>7. QED
      BY <3>1, <3>4, <3>5, <3>6
  <2>3. CASE x = n
    <3>1. t[x] = ptr[b] /\ ptr[b] # None /\ b = FreePos
      BY <1>2, <1>3, <1>8, <2>3
    <3>2. own2[Overflow(ptr[b])] = own[Overflow(ptr[b])]
      BY <1>4, <1>7, <3>1
    <3>3. own[Overflow(ptr[b])] = 0
      BY <1>5, <3>1, Laws
    <3>4. c = 0
      <4>1. own2[Overflow(k)] = 0
        BY <1>5, <3>1, Laws
      <4>2. QED
        BY <1>1, <1>4, <4>1
    <3>5. own2[Overflow(k)] = c
      BY <1>1, <1>4
    <3>6. QED
      BY <1>1, <2>3, <3>1, <3>2, <3>3, <3>4, <3>5, Laws
  <2>4. CASE x \notin {a, n, b}
    <3>1. t[x] = ptr[x] /\ ptr[x] # None
      BY <1>3, <1>8, <2>4
    <3>2. own2[Overflow(ptr[x])] = own[Overflow(ptr[x])]
      BY <1>4, <1>7, <2>4, <3>1
    <3>3. \A p \in Place : x = NextPos(p) => own2[p] = own[p]
      BY <1>4, <2>4
    <3>4. Law(x, ptr[x], own)
      BY <1>5, <3>1
    <3>5. QED
      BY <3>1, <3>2, <3>3, <3>4 DEF Law
  <2>5. QED
    BY <2>1, <2>2, <2>3, <2>4
<1>9. Owned(t, own2)
  <2>1. ASSUME NEW g \in Groups
        PROVE  own2[Primary(g)] = g
    <3>1. own[Primary(g)] = g /\ Primary(g) \in Place /\ Primary(g) # Overflow(k)
      BY <1>1, <1>5, Places DEF Owned
    <3>2. QED
      BY <1>4, <3>1
  <2>2. QED
    BY <1>4, <1>8, <2>1 DEF Owned
<1>10. \E rank, lo, hi : Ranked(t, rank, lo, hi)
  <2>1. PICK rank, lo, hi : Ranked(ptr, rank, lo, hi)
    BY DEF Chained
  <2> DEFINE m == IF b = FreePos THEN lo - 1 ELSE hi + 1
             rank2 == [rank EXCEPT ![Overflow(k)] = m]
  <2>2. /\ lo \in Int /\ hi \in Int /\ rank \in [Place -> lo .. hi]
        /\ \A p \in Place : ptr[NextPos(p)] # None => rank[p] < rank[Overflow(ptr[NextPos(p)])]
    BY <2>1 DEF Ranked
  <2>3. lo <= hi
    BY <1>1, <2>2
  <2>4. m \in (lo - 1) .. (hi + 1)
    BY <2>2, <2>3
  <2>5. \A p \in Place : rank[p] \in (lo - 1) .. (hi + 1) /\ rank[p] > lo - 1 /\ rank[p] < hi + 1
    BY <2>2
  <2>6. /\ rank2 \in [Place -> (lo - 1) .. (hi + 1)]
        /\ \A p \in Place : rank2[p] = IF p = Overflow(k) THEN m ELSE rank[p]
    BY <1>1, <2>2, <2>4, <2>5
  <2> HIDE DEF rank2
  <2>7. ASSUME NEW p \in Place, t[NextPos(p)] # None
        PROVE  rank2[p] < rank2[Overflow(t[NextPos(p)])]
    <3> DEFINE x == NextPos(p)
    <3>1. x \in Pos /\ \A q : NextPos(p) = NextPos(q) => p = q
      BY PosIn, PosDiffer
    <3>2. CASE x = b
      <4>1. b # FreePos /\ t[x] = k /\ p # Overflow(k)
        BY <1>2, <1>3, <3>1, <3>2, PosDiffer
      <4>2. rank2[p] = rank[p] /\ rank2[Overflow(k)] = hi + 1
        BY <1>1, <2>6, <4>1
      <4>3. QED
        BY <2>5, <4>1, <4>2
    <3>3. CASE x = a
      <4>1. t[x] = ptr[n] /\ ptr[n] # None /\ p # Overflow(k)
        BY <1>2, <1>3, <2>7, <3>1, <3>3
      <4>2. rank[p] < rank[Overflow(k)] /\ rank[Overflow(k)] < rank[Overflow(ptr[n])]
        BY <1>1, <2>2, <3>3, <4>1
      <4>3. rank2[p] = rank[p] /\ rank2[Overflow(ptr[n])] = rank[Overflow(ptr[n])]
        BY <1>1, <1>2, <1>7, <2>6, <4>1
      <4>4. Overflow(ptr[n]) \in Place
        BY <1>1, <1>2, <1>7, <4>1
      <4>5. QED
        BY <1>1, <2>5, <4>1, <4>2, <4>3, <4>4
    <3>4. CASE x = n /\ x # a /\ x # b
      <4>1. p = Overflow(k) /\ t[x] = ptr[b] /\ ptr[b] # None /\ b = FreePos
        BY <1>2, <1>3, <2>7, <3>1, <3>4
      <4>2. rank2[p] = lo - 1 /\ rank2[Overflow(ptr[b])] = rank[Overflow(ptr[b])]
        BY <1>1, <1>7, <2>6, <4>1
      <4>3. Overflow(ptr[b]) \in Place
        BY <1>7, <4>1
      <4>4. QED
        BY <2>5, <4>1, <4>2, <4>3
    <3>5. CASE x \notin {a, n, b}
      <4>1. t[x] = ptr[x] /\ ptr[x] # None /\ p # Overflow(k)
        BY <1>3, <2>7, <3>1, <3>5
      <4>2. rank2[p] = rank[p] /\ rank2[Overflow(ptr[x])] = rank[Overflow(ptr[x])]
        BY <1>7, <2>6, <3>1, <3>5, <4>1
      <4>3. QED
        BY <2>2, <4>1, <4>2
    <3>6. QED
      BY <3>2, <3>3, <3>4, <3>5
  <2>8. Ranked(t, rank2, lo - 1, hi + 1)
    BY <2>2, <2>6, <2>7 DEF Ranked
  <2>9. QED
    BY <2>8
<1>11. QED
  BY <1>6, <1>9, <1>10 DEF Chained, t, own2

(* Two pointers change places.                                              *)
Swapped(ptr, a, b) == [ptr EXCEPT ![a] = ptr[b], ![b] = ptr[a]]

LEMMA SwappedIs ==
  ASSUME NEW ptr, ptr \in [Pos -> Over \cup {None}], NEW a \in Pos, NEW b \in Pos, a # b
  PROVE  /\ Swapped(ptr, a, b) \in [Pos -> Over \cup {None}]
         /\ \A x \in Pos : Swapped(ptr, a, b)[x] =
              IF x = a THEN ptr[b] ELSE IF x = b THEN ptr[a] ELSE ptr[x]
BY DEF Swapped

LEMMA SwapLinked ==
  ASSUME NEW ptr, NEW from, NEW end, Linked(ptr, from, end), NEW a \in Pos, NEW b \in Pos, a # b
  PROVE  \E from2 : Linked(Swapped(ptr, a, b), from2, end)
<1> DEFINE t == Swapped(ptr, a, b)
           From(x) == IF x = a THEN b ELSE IF x = b THEN a ELSE x
           from2 == [o \in Over |-> From(from[o])]
<1>1. /\ t \in [Pos -> Over \cup {None}]
      /\ \A x \in Pos : t[x] = IF x = a THEN ptr[b] ELSE IF x = b THEN ptr[a] ELSE ptr[x]
  BY SwappedIs DEF Linked
<1>2. \A x \in Pos : From(x) \in Pos /\ t[From(x)] = ptr[x] /\ t[x] = ptr[From(x)] /\ From(From(x)) = x
  BY <1>1
<1> HIDE DEF t, From
<1>3. from2 \in [Over -> Pos] /\ \A o \in Over : from2[o] = From(from[o])
  BY <1>2 DEF Linked
<1> HIDE DEF from2
<1>4. ASSUME NEW x \in Pos, t[x] # None
      PROVE  t[x] <= end /\ from2[t[x]] = x
  <2>1. From(x) \in Pos /\ t[x] = ptr[From(x)] /\ From(From(x)) = x
    BY <1>2
  <2>2. t[x] \in Over /\ t[x] <= end /\ from[t[x]] = From(x)
    BY <1>4, <2>1 DEF Linked
  <2>3. QED
    BY <1>3, <2>1, <2>2
<1>5. ASSUME NEW o \in Over, o <= end
      PROVE  t[from2[o]] = o
  <2>1. from[o] \in Pos /\ ptr[from[o]] = o
    BY <1>5 DEF Linked
  <2>2. QED
    BY <1>2, <1>3, <2>1
<1>6. Linked(t, from2, end)
  BY <1>1, <1>3, <1>4, <1>5 DEF Linked
<1>7. QED
  BY <1>6 DEF t

LEMMA Swap ==
  ASSUME NEW ptr, NEW own, NEW end, Chained(ptr, own, end), NEW i \in Ids, NEW u \in Users
  PROVE  Chained(Swapped(ptr, RecPos(i), BigPos(u)), own, end)
<1> DEFINE a == RecPos(i)
           b == BigPos(u)
           t == Swapped(ptr, a, b)
<1>1. /\ ptr \in [Pos -> Over \cup {None}] /\ a \in Pos /\ b \in Pos /\ a # b
      /\ \A p : a # NextPos(p) /\ b # NextPos(p)
  BY PtrIs, PosIn, PosDiffer
<1>2. /\ t \in [Pos -> Over \cup {None}]
      /\ \A x \in Pos : t[x] = IF x = a THEN ptr[b] ELSE IF x = b THEN ptr[a] ELSE ptr[x]
  BY <1>1, SwappedIs
<1>3. \E from : Linked(t, from, end)
  BY <1>1, SwapLinked DEF Chained
<1> HIDE DEF t
<1>4. \A p \in Place : t[NextPos(p)] = ptr[NextPos(p)]
  BY <1>1, <1>2, PosIn
<1>5. \A x \in Pos : t[x] # None => Law(x, t[x], own)
  <2>1. \A k : Law(a, k, own) <=> Law(b, k, own)
    BY Laws
  <2>2. \A x \in Pos : ptr[x] # None => Law(x, ptr[x], own)
    BY DEF Chained, Owned
  <2>3. QED
    BY <1>1, <1>2, <2>1, <2>2
<1>6. Owned(t, own)
  BY <1>5 DEF Chained, Owned
<1>7. PICK rank, lo, hi : Ranked(ptr, rank, lo, hi)
  BY DEF Chained
<1>8. Ranked(t, rank, lo, hi)
  BY <1>4, <1>7 DEF Ranked
<1>9. QED
  BY <1>3, <1>6, <1>8 DEF Chained, t

(* The chain of a group is taken from it to be moved.                       *)
MovedOwn(own, g) == [p \in Place |-> IF own[p] = g /\ p # Primary(g) THEN Moving ELSE own[p]]

LEMMA Move ==
  ASSUME NEW ptr, NEW own, NEW end, Chained(ptr, own, end), NEW g \in Groups, NEW u \in Users
  PROVE  ptr[RestPos(u)] = None =>
           Chained(Swapped(ptr, NextPos(Primary(g)), RestPos(u)), MovedOwn(own, g), end)
<1> SUFFICES ASSUME ptr[RestPos(u)] = None
             PROVE  Chained(Swapped(ptr, NextPos(Primary(g)), RestPos(u)), MovedOwn(own, g), end)
  OBVIOUS
<1> DEFINE a == NextPos(Primary(g))
           b == RestPos(u)
           t == Swapped(ptr, a, b)
           own2 == MovedOwn(own, g)
<1>1. /\ ptr \in [Pos -> Over \cup {None}] /\ a \in Pos /\ b \in Pos /\ a # b
      /\ (\A p : b # NextPos(p) /\ (a = NextPos(p) => p = Primary(g))) /\ own \in [Place -> Int]
      /\ \A x \in Pos : ptr[x] # None => ptr[x] \in Over
  BY PtrIs, PosIn, PosDiffer, Places
<1>2. /\ t \in [Pos -> Over \cup {None}]
      /\ \A x \in Pos : t[x] = IF x = a THEN ptr[b] ELSE IF x = b THEN ptr[a] ELSE ptr[x]
  BY <1>1, SwappedIs
<1>3. \E from : Linked(t, from, end)
  BY <1>1, SwapLinked DEF Chained
<1> HIDE DEF t
<1>4. /\ own2 \in [Place -> Int]
      /\ \A p \in Place : own2[p] = IF own[p] = g /\ p # Primary(g) THEN Moving ELSE own[p]
  BY <1>1, Owners DEF MovedOwn
<1> HIDE DEF own2
<1>5. \A o \in Over : own2[Overflow(o)] = IF own[Overflow(o)] = g THEN Moving ELSE own[Overflow(o)]
  BY <1>4, Places
<1>6. ASSUME NEW x \in Pos, t[x] # None
      PROVE  Law(x, t[x], own2)
  <2>1. \A y \in Pos : ptr[y] # None => ptr[y] \in Over /\ Law(y, ptr[y], own)
    BY <1>1 DEF Chained, Owned
  <2>2. CASE x = b
    <3>1. t[x] = ptr[a] /\ ptr[a] # None
      BY <1>1, <1>2, <1>6, <2>2
    <3>2. own[Overflow(ptr[a])] = own[Primary(g)] /\ own[Primary(g)] = g
      BY <1>1, <2>1, <3>1, Laws, Places DEF Chained, Owned
    <3>3. own2[Overflow(ptr[a])] = Moving
      BY <1>1, <1>5, <2>1, <3>1, <3>2
    <3>4. QED
      BY <2>2, <3>1, <3>3, Laws
  <2>3. CASE x # b
    <3>1. x # a /\ t[x] = ptr[x] /\ ptr[x] # None
      BY <1>2, <1>6, <2>3
    <3>2. ptr[x] \in Over /\ Law(x, ptr[x], own)
      BY <2>1, <3>1
    <3>3. CASE x = FreePos
      BY <1>5, <3>1, <3>2, <3>3, Laws, Owners
    <3>4. CASE \E i \in Ids : x = RecPos(i)
      BY <1>5, <3>1, <3>2, <3>4, Laws, Owners
    <3>5. CASE \E v \in Users : x = SrcPos(v) \/ x = BigPos(v)
      BY <1>5, <3>1, <3>2, <3>5, Laws, Owners
    <3>6. CASE \E v \in Users : x = RestPos(v)
      BY <1>5, <3>1, <3>2, <3>6, Laws, Owners
    <3>7. CASE \E p \in Place : x = NextPos(p)
      <4>1. PICK p \in Place : x = NextPos(p)
        BY <3>7
      <4>2. own[Overflow(ptr[x])] = own[p] /\ p # Primary(g)
        BY <3>1, <3>2, <4>1, Laws
      <4>3. own2[Overflow(ptr[x])] = own2[p]
        BY <1>4, <1>5, <3>2, <4>2
      <4>4. QED
        BY <3>1, <4>1, <4>3, Laws
    <3>8. QED
      BY <3>3, <3>4, <3>5, <3>6, <3>7, PosIs
  <2>4. QED
    BY <2>2, <2>3
<1>7. Owned(t, own2)
  <2>1. \A h \in Groups : own[Primary(h)] = h /\ Primary(h) = h /\ Primary(h) \in Place
    BY Places DEF Chained, Owned
  <2>2. \A h \in Groups : own2[Primary(h)] = h
    BY <1>4, <2>1
  <2>3. QED
    BY <1>4, <1>6, <2>2 DEF Owned
<1>8. PICK rank, lo, hi : Ranked(ptr, rank, lo, hi)
  BY DEF Chained
<1>9. \A p \in Place : t[NextPos(p)] # None => t[NextPos(p)] = ptr[NextPos(p)]
  BY <1>1, <1>2, PosIn
<1>10. Ranked(t, rank, lo, hi)
  BY <1>8, <1>9 DEF Ranked
<1>11. QED
  BY <1>3, <1>7, <1>10 DEF Chained, t, own2

(* The blocks of a big record are put before the free chain.                *)
FreedOwn(own, k) == [p \in Place |-> IF own[p] = Overflow(k) THEN 0 ELSE own[p]]

LEMMA Splice ==
  ASSUME NEW ptr, NEW own, NEW end, Chained(ptr, own, end), NEW u \in Users, NEW k \in Over,
         ptr[BigPos(u)] = k, NEW l \in Over, own[Overflow(l)] = Overflow(k),
         ptr[NextPos(Overflow(l))] = None
  PROVE  Chained(Turned(ptr, BigPos(u), NextPos(Overflow(l)), FreePos), FreedOwn(own, k), end)
<1> DEFINE a == BigPos(u)
           n == NextPos(Overflow(l))
           b == FreePos
           t == Turned(ptr, a, n, b)
           own2 == FreedOwn(own, k)
<1>1. /\ ptr \in [Pos -> Over \cup {None}] /\ a \in Pos /\ b \in Pos /\ n \in Pos
      /\ a # b /\ n # b /\ a # n
      /\ (\A p : b # NextPos(p) /\ a # NextPos(p) /\ (n = NextPos(p) => p = Overflow(l)))
      /\ own \in [Place -> Int]
      /\ \A x \in Pos : ptr[x] # None => ptr[x] \in Over
      /\ \A x \in Pos, y \in Pos : ptr[x] = ptr[y] /\ ptr[x] # None => x = y
  BY PtrIs, PosIn, PosDiffer, Places
<1>2. /\ t \in [Pos -> Over \cup {None}]
      /\ \A x \in Pos : t[x] = IF x = a THEN ptr[n] ELSE IF x = n THEN ptr[b]
                               ELSE IF x = b THEN ptr[a] ELSE ptr[x]
  BY <1>1, TurnedIs
<1>3. \E from : Linked(t, from, end)
  BY <1>1, TurnLinked DEF Chained
<1> HIDE DEF t
<1>4. /\ own2 \in [Place -> Int]
      /\ \A p \in Place : own2[p] = IF own[p] = Overflow(k) THEN 0 ELSE own[p]
  BY <1>1 DEF FreedOwn
<1> HIDE DEF own2
<1>5. /\ \A o \in Over : own2[Overflow(o)] = IF own[Overflow(o)] = Overflow(k) THEN 0 ELSE own[Overflow(o)]
      /\ k # None /\ Overflow(l) \in Place
  BY <1>4, Places
<1>6. \A y \in Pos : ptr[y] # None => ptr[y] \in Over /\ Law(y, ptr[y], own)
  BY <1>1 DEF Chained, Owned
<1>7. ASSUME NEW x \in Pos, t[x] # None
      PROVE  Law(x, t[x], own2)
  <2>1. CASE x = b
    <3>1. t[x] = k /\ own[Overflow(k)] = Overflow(k)
      BY <1>1, <1>2, <1>5, <1>6, <2>1, Laws
    <3>2. QED
      BY <1>5, <2>1, <3>1, Laws
  <2>2. CASE x = n
    <3>1. t[x] = ptr[b] /\ ptr[b] # None
      BY <1>1, <1>2, <1>7, <2>2
    <3>2. ptr[b] \in Over /\ own[Overflow(ptr[b])] = 0
      BY <1>1, <1>6, <3>1, Laws
    <3>3. own2[Overflow(ptr[b])] = 0 /\ own2[Overflow(l)] = 0
      BY <1>5, <3>2, Owners
    <3>4. QED
      BY <1>5, <2>2, <3>1, <3>3, Laws
  <2>3. CASE x # b /\ x # n
    <3>1. x # a /\ t[x] = ptr[x] /\ ptr[x] # None
      BY <1>2, <1>7, <2>3
    <3>2. ptr[x] \in Over /\ Law(x, ptr[x], own) /\ ptr[x] # k
      BY <1>1, <1>5, <1>6, <3>1
    <3>4. CASE \E v \in Users : x = SrcPos(v) \/ x = BigPos(v)
      BY <1>5, <3>1, <3>2, <3>4, Laws, Owners, Places
    <3>5. CASE \E v \in Users : x = RestPos(v)
      BY <1>5, <3>1, <3>2, <3>5, Laws, Owners
    <3>6. CASE \E i \in Ids : x = RecPos(i)
      BY <1>5, <3>1, <3>2, <3>6, Laws, Owners, Places
    <3>7. CASE \E p \in Place : x = NextPos(p)
      BY <1>4, <1>5, <3>1, <3>2, <3>7, Laws
    <3>8. QED
      BY <2>3, <3>4, <3>5, <3>6, <3>7, PosIs
  <2>4. QED
    BY <2>1, <2>2, <2>3
<1>8. Owned(t, own2)
  <2>1. \A h \in Groups : own[Primary(h)] = h /\ Primary(h) \in Place /\ own[Primary(h)] # Overflow(k)
    BY Places, Owners DEF Chained, Owned
  <2>2. \A h \in Groups : own2[Primary(h)] = h
    BY <1>4, <2>1
  <2>3. QED
    BY <1>4, <1>7, <2>2 DEF Owned
<1>9. PICK rank, lo, hi : Ranked(ptr, rank, lo, hi)
  BY DEF Chained
<1> DEFINE w == (hi - lo) + 1
           low == lo - w
           rank2 == [p \in Place |-> IF own[p] = Overflow(k) THEN rank[p] - w ELSE rank[p]]
<1>10. /\ lo \in Int /\ hi \in Int /\ rank \in [Place -> lo .. hi]
       /\ \A p \in Place : ptr[NextPos(p)] # None => rank[p] < rank[Overflow(ptr[NextPos(p)])]
  BY <1>9 DEF Ranked
<1>11. w \in Nat /\ low \in Int /\ \A p \in Place : rank[p] \in Int /\ lo <= rank[p] /\ rank[p] <= hi
  BY <1>5, <1>10
<1>12. \A p \in Place : rank[p] \in low .. hi /\ rank[p] - w \in low .. hi /\ rank[p] - w < lo
  BY <1>10, <1>11
<1>13. /\ rank2 \in [Place -> low .. hi]
       /\ \A p \in Place : rank2[p] = IF own[p] = Overflow(k) THEN rank[p] - w ELSE rank[p]
  BY <1>12
<1> HIDE DEF rank2, low, w
<1>14. ASSUME NEW p \in Place, t[NextPos(p)] # None
       PROVE  rank2[p] < rank2[Overflow(t[NextPos(p)])]
  <2> DEFINE x == NextPos(p)
  <2>1. x \in Pos /\ x # a /\ x # b
    BY <1>1, PosIn
  <2>2. CASE x = n
    <3>1. t[x] = ptr[b] /\ ptr[b] # None /\ p = Overflow(l)
      BY <1>1, <1>2, <1>14, <2>1, <2>2
    <3>2. Overflow(ptr[b]) \in Place /\ own[Overflow(ptr[b])] = 0 /\ 0 # Overflow(k)
      BY <1>1, <1>6, <3>1, Laws, Places, Owners
    <3>3. rank2[p] = rank[p] - w /\ rank2[Overflow(ptr[b])] = rank[Overflow(ptr[b])]
      BY <1>5, <1>13, <3>1, <3>2
    <3>4. rank2[p] < lo /\ lo <= rank2[Overflow(ptr[b])] /\ rank2[p] \in Int /\ rank2[Overflow(ptr[b])] \in Int
      BY <1>11, <1>12, <3>2, <3>3
    <3>5. QED
      BY <1>10, <3>1, <3>4
  <2>3. CASE x # n
    <3>1. t[x] = ptr[x] /\ ptr[x] # None
      BY <1>2, <1>14, <2>1, <2>3
    <3>2. Overflow(ptr[x]) \in Place /\ own[Overflow(ptr[x])] = own[p] /\ rank[p] < rank[Overflow(ptr[x])]
      BY <1>6, <1>10, <2>1, <3>1, Laws, Places
    <3>3. QED
      BY <1>11, <1>13, <3>1, <3>2
  <2>4. QED
    BY <2>2, <2>3
<1>15. Ranked(t, rank2, low, hi)
  BY <1>10, <1>11, <1>13, <1>14 DEF Ranked
<1>16. QED
  BY <1>3, <1>8, <1>15 DEF Chained, t, own2

(* The file gets another block.                                             *)
LEMMA Grow ==
  ASSUME NEW ptr, NEW own, NEW end, Chained(ptr, own, end), end + 1 \in Over,
         NEW x \in Pos, ptr[x] = None, x # NextPos(Overflow(end + 1)),
         ptr[NextPos(Overflow(end + 1))] = None,
         NEW c \in Int, Law(x, end + 1, [own EXCEPT ![Overflow(end + 1)] = c])
  PROVE  Chained([ptr EXCEPT ![x] = end + 1], [own EXCEPT ![Overflow(end + 1)] = c], end + 1)
<1> DEFINE k == end + 1
           t == [ptr EXCEPT ![x] = k]
           own2 == [own EXCEPT ![Overflow(k)] = c]
<1>1. /\ ptr \in [Pos -> Over \cup {None}] /\ own \in [Place -> Int] /\ end \in 0 .. MaxOverflow
      /\ k \in Over /\ k \in Int /\ Overflow(k) \in Place /\ Overflow(k) \notin Groups /\ k # None
      /\ k > end
      /\ \A y \in Pos : ptr[y] # None => ptr[y] <= end /\ ptr[y] \in Over
  BY PtrIs, Places DEF Over
<1>2. t \in [Pos -> Over \cup {None}] /\ \A y \in Pos : t[y] = IF y = x THEN k ELSE ptr[y]
  BY <1>1
<1>3. own2 \in [Place -> Int] /\ \A p \in Place : own2[p] = IF p = Overflow(k) THEN c ELSE own[p]
  BY <1>1
<1>4. Owned(ptr, own) /\ Law(x, k, own2)
  BY DEF Chained
<1> HIDE DEF t, own2
<1>5. \E from : Linked(t, from, k)
  <2>1. PICK from : Linked(ptr, from, end)
    BY DEF Chained
  <2> DEFINE from2 == [from EXCEPT ![k] = x]
  <2>2. from2 \in [Over -> Pos] /\ \A o \in Over : from2[o] = IF o = k THEN x ELSE from[o]
    BY <1>1, <2>1 DEF Linked
  <2> HIDE DEF from2
  <2>3. ASSUME NEW y \in Pos, t[y] # None
        PROVE  t[y] <= k /\ from2[t[y]] = y
    <3>1. CASE y = x
      BY <1>1, <1>2, <2>2, <3>1
    <3>2. CASE y # x
      <4>1. t[y] = ptr[y] /\ ptr[y] <= end /\ ptr[y] \in Over /\ from[ptr[y]] = y
        BY <1>1, <1>2, <2>1, <2>3, <3>2 DEF Linked
      <4>2. ptr[y] # k /\ ptr[y] <= k
        BY <1>1, <4>1 DEF Over
      <4>3. QED
        BY <2>2, <4>1, <4>2
    <3>3. QED
      BY <3>1, <3>2
  <2>4. ASSUME NEW o \in Over, o <= k
        PROVE  t[from2[o]] = o
    <3>1. CASE o = k
      BY <1>2, <2>2, <3>1
    <3>2. CASE o # k
      <4>1. o <= end
        BY <1>1, <2>4, <3>2 DEF Over
      <4>2. from[o] \in Pos /\ ptr[from[o]] = o /\ o # None
        BY <2>1, <4>1, Places DEF Linked
      <4>3. QED
        BY <1>2, <2>2, <3>2, <4>2
    <3>3. QED
      BY <3>1, <3>2
  <2>5. k \in 0 .. MaxOverflow
    BY <1>1 DEF Over
  <2>6. Linked(t, from2, k)
    BY <1>2, <2>2, <2>3, <2>4, <2>5 DEF Linked
  <2>7. QED
    BY <2>6
<1>6. ASSUME NEW y \in Pos, t[y] # None
      PROVE  Law(y, t[y], own2)
  <2>1. CASE y = x
    BY <1>2, <1>4, <2>1
  <2>2. CASE y # x
    <3>1. t[y] = ptr[y] /\ ptr[y] # None /\ ptr[y] \in Over /\ ptr[y] <= end
      BY <1>1, <1>2, <1>6, <2>2
    <3>2. Overflow(ptr[y]) # Overflow(k) /\ Overflow(ptr[y]) \in Place
      <4>1. ptr[y] # k
        BY <1>1, <3>1 DEF Over
      <4>2. QED
        BY <1>1, <3>1, <4>1, Places
    <3>3. Law(y, ptr[y], own) /\ own2[Overflow(ptr[y])] = own[Overflow(ptr[y])]
      BY <1>3, <1>4, <3>1, <3>2 DEF Owned
    <3>4. \A p \in Place : y = NextPos(p) => own2[p] = own[p]
      BY <1>3, <3>1
    <3>5. QED
      BY <3>1, <3>3, <3>4 DEF Law
  <2>3. QED
    BY <2>1, <2>2
<1>7. Owned(t, own2)
  <2>1. \A g \in Groups : own[Primary(g)] = g /\ Primary(g) \in Place /\ Primary(g) # Overflow(k)
    BY <1>1, <1>4, Places DEF Owned
  <2>2. \A g \in Groups : own2[Primary(g)] = g
    BY <1>3, <2>1
  <2>3. QED
    BY <1>3, <1>6, <2>2 DEF Owned
<1>8. \E rank, lo, hi : Ranked(t, rank, lo, hi)
  <2>1. PICK rank, lo, hi : Ranked(ptr, rank, lo, hi)
    BY DEF Chained
  <2> DEFINE rank2 == [rank EXCEPT ![Overflow(k)] = hi + 1]
  <2>2. /\ lo \in Int /\ hi \in Int /\ rank \in [Place -> lo .. hi]
        /\ \A p \in Place : ptr[NextPos(p)] # None => rank[p] < rank[Overflow(ptr[NextPos(p)])]
    BY <2>1 DEF Ranked
  <2>3. lo <= hi /\ hi + 1 \in lo .. (hi + 1)
    BY <1>1, <2>2
  <2>4. \A p \in Place : rank[p] \in lo .. (hi + 1) /\ rank[p] < hi + 1
    BY <2>2
  <2>5. /\ rank2 \in [Place -> lo .. (hi + 1)]
        /\ \A p \in Place : rank2[p] = IF p = Overflow(k) THEN hi + 1 ELSE rank[p]
    BY <1>1, <2>2, <2>3, <2>4
  <2> HIDE DEF rank2
  <2>6. ASSUME NEW p \in Place, t[NextPos(p)] # None
        PROVE  rank2[p] < rank2[Overflow(t[NextPos(p)])]
    <3>1. NextPos(p) \in Pos /\ \A q : NextPos(p) = NextPos(q) => p = q
      BY PosIn, PosDiffer
    <3>2. CASE NextPos(p) = x
      <4>1. t[NextPos(p)] = k /\ p # Overflow(k)
        BY <1>2, <3>1, <3>2
      <4>2. rank2[p] = rank[p] /\ rank2[Overflow(k)] = hi + 1
        BY <1>1, <2>5, <4>1
      <4>3. QED
        BY <2>4, <4>1, <4>2
    <3>3. CASE NextPos(p) # x
      <4>1. t[NextPos(p)] = ptr[NextPos(p)] /\ ptr[NextPos(p)] # None
        BY <1>2, <2>6, <3>1, <3>3
      <4>2. p # Overflow(k)
        BY <4>1
      <4>3. ptr[NextPos(p)] \in Over /\ ptr[NextPos(p)] # k
        BY <1>1, <3>1, <4>1 DEF Over
      <4>4. Overflow(ptr[NextPos(p)]) # Overflow(k) /\ Overflow(ptr[NextPos(p)]) \in Place
        BY <1>1, <4>3, Places
      <4>5. QED
        BY <2>2, <2>5, <4>1, <4>2, <4>4
    <3>4. QED
      BY <3>2, <3>3
  <2>7. Ranked(t, rank2, lo, hi + 1)
    BY <2>2, <2>5, <2>6 DEF Ranked
  <2>8. QED
    BY <2>7
<1>9. QED
  BY <1>5, <1>7, <1>8 DEF Chained, t, own2

-----------------------------------------------------------------------------
(* Chains of overflow blocks, as they are followed.                         *)

LEMMA BlockType ==
  ASSUME NEW b \in [Place -> Block], NEW p \in Place
  PROVE  b[p].recs \in Seq(Rec) /\ b[p].next \in Over \cup {None} /\ b[p].part \in Part
BY DEF Block

ChainLine(b, n, f) ==
  [k \in Over \cup {None} |->
     IF k = None \/ n = 0 THEN <<>> ELSE <<k>> \o f[n - 1][b[Overflow(k)].next]]

ChainFn(b, m, f) == f = [n \in 0 .. m |-> ChainLine(b, n, f)]

Chain(b) == CHOOSE f : ChainFn(b, MaxOverflow, f)

LEMMA ChainFromIs ==
  ASSUME NEW b, NEW o
  PROVE  ChainFrom(b, o) = Chain(b)[MaxOverflow][o]
BY DEF ChainFrom, Chain, ChainFn, ChainLine

LEMMA ChainExists ==
  ASSUME NEW b
  PROVE  \A m \in Nat : \E f : ChainFn(b, m, f)
<1> DEFINE S == {m \in Nat : \E f : ChainFn(b, m, f)}
<1>1. 0 \in S
  <2> DEFINE f == [n \in 0 .. 0 |-> [k \in Over \cup {None} |-> <<>>]]
  <2>1. \A n \in 0 .. 0 : n = 0
    OBVIOUS
  <2>2. f = [n \in 0 .. 0 |-> ChainLine(b, n, f)]
    BY <2>1 DEF ChainLine
  <2>3. QED
    BY <2>2 DEF ChainFn
<1>2. ASSUME NEW m \in S
      PROVE  m + 1 \in S
  <2>1. PICK f : ChainFn(b, m, f)
    OBVIOUS
  <2> DEFINE h == [n \in 0 .. m + 1 |-> ChainLine(b, n, f)]
  <2>2. \A n \in 0 .. m : h[n] = f[n]
    BY <2>1 DEF ChainFn
  <2>3. \A n \in 0 .. m + 1 : n # 0 => n - 1 \in 0 .. m
    OBVIOUS
  <2> HIDE DEF h
  <2>4. \A n \in 0 .. m + 1 : ChainLine(b, n, f) = ChainLine(b, n, h)
    BY <2>2, <2>3 DEF ChainLine
  <2>5. h = [n \in 0 .. m + 1 |-> ChainLine(b, n, h)]
    BY <2>4, Zenon DEF h
  <2>6. ChainFn(b, m + 1, h)
    BY <2>5 DEF ChainFn
  <2>7. QED
    BY <2>6
<1> HIDE DEF S
<1>3. \A m \in Nat : m \in S
  BY <1>1, <1>2, NatSet DEF S
<1>4. QED
  BY <1>3 DEF S

LEMMA ChainStep ==
  ASSUME NEW b
  PROVE  \A k \in Over \cup {None}, n \in 0 .. MaxOverflow :
           Chain(b)[n][k] = IF k = None \/ n = 0 THEN <<>>
                            ELSE <<k>> \o Chain(b)[n - 1][b[Overflow(k)].next]
<1> DEFINE f == Chain(b)
<1>1. ChainFn(b, MaxOverflow, f)
  BY ChainExists, Places DEF Chain
<1> HIDE DEF f
<1>2. \A n \in 0 .. MaxOverflow : f[n] = ChainLine(b, n, f)
  BY <1>1 DEF ChainFn
<1>3. \A k \in Over \cup {None}, n \in 0 .. MaxOverflow :
        f[n][k] = IF k = None \/ n = 0 THEN <<>> ELSE <<k>> \o f[n - 1][b[Overflow(k)].next]
  BY <1>2 DEF ChainLine
<1>4. QED
  BY <1>3 DEF f

LEMMA ConsIs ==
  ASSUME NEW k \in Over, NEW s \in Seq(Over)
  PROVE  /\ <<k>> \o s \in Seq(Over) /\ Len(<<k>> \o s) = Len(s) + 1 /\ (<<k>> \o s)[1] = k
         /\ \A j \in 1 .. Len(s) : (<<k>> \o s)[j + 1] = s[j]
         /\ \A j \in 1 .. Len(s) + 1 : j = 1 \/ (j - 1 \in 1 .. Len(s) /\ (<<k>> \o s)[j] = s[j - 1])
<1> DEFINE a == <<k>>
<1>1. a \in Seq(Over) /\ Len(a) = 1 /\ a[1] = k
  OBVIOUS
<1> HIDE DEF a
<1> DEFINE t == a \o s
<1>2. /\ t \in Seq(Over) /\ Len(t) = Len(a) + Len(s)
      /\ \A i \in 1 .. Len(a) + Len(s) : t[i] = IF i <= Len(a) THEN a[i] ELSE s[i - Len(a)]
  BY <1>1, ConcatProperties, Zenon
<1>3. Len(s) \in Nat
  OBVIOUS
<1> HIDE DEF t
<1>4. t[1] = k /\ \A j \in 1 .. Len(s) : t[j + 1] = s[j]
  BY <1>1, <1>2, <1>3
<1>5. \A j \in 1 .. Len(s) + 1 : j = 1 \/ (j - 1 \in 1 .. Len(s) /\ t[j] = s[j - 1])
  BY <1>1, <1>2, <1>3
<1>6. QED
  BY <1>1, <1>2, <1>4, <1>5 DEF a, t

(* A chain is followed from one block to the next until there is none, and  *)
(* comes to no block twice.                                                 *)
Followed(ptr, own, end, c, s) ==
  /\ s \in Seq(Over) /\ IsInjective(s)
  /\ \A j \in 1 .. Len(s) : s[j] <= end /\ own[Overflow(s[j])] = c
  /\ \A j \in 1 .. Len(s) : ptr[NextPos(Overflow(s[j]))] = IF j = Len(s) THEN None ELSE s[j + 1]

LEMMA ChainIs ==
  ASSUME NEW ptr, NEW own, NEW end, Chained(ptr, own, end), NEW b \in [Place -> Block], NEW c,
         \A p \in Place : own[p] = c => b[p].next = ptr[NextPos(p)],
         NEW o \in Over \cup {None}, o # None => o <= end /\ own[Overflow(o)] = c
  PROVE  /\ Followed(ptr, own, end, c, ChainFrom(b, o))
         /\ IF o = None THEN ChainFrom(b, o) = <<>>
            ELSE ChainFrom(b, o) # <<>> /\ ChainFrom(b, o)[1] = o
<1> DEFINE K == {k \in Over \cup {None} : k # None => k <= end /\ own[Overflow(k)] = c}
           f == Chain(b)
           nx(k) == ptr[NextPos(Overflow(k))]
<1>1. /\ ptr \in [Pos -> Over \cup {None}] /\ own \in [Place -> Int] /\ end \in 0 .. MaxOverflow
      /\ \A x \in Pos : ptr[x] # None => ptr[x] <= end /\ ptr[x] \in Over
      /\ \A x \in Pos, y \in Pos : ptr[x] = ptr[y] /\ ptr[x] # None => x = y
  BY PtrIs
<1>2. PICK rank, lo, hi : Ranked(ptr, rank, lo, hi)
  BY DEF Chained
<1> DEFINE rk(k) == rank[Overflow(k)]
<1>3. ASSUME NEW k \in K, k # None
      PROVE  /\ b[Overflow(k)].next = nx(k) /\ nx(k) \in K /\ rk(k) \in Int
             /\ nx(k) # None => rk(k) < rk(nx(k))
  <2>1. Overflow(k) \in Place /\ NextPos(Overflow(k)) \in Pos /\ own[Overflow(k)] = c
    BY <1>3, Places, PosIn
  <2>2. nx(k) # None => own[Overflow(nx(k))] = own[Overflow(k)]
    BY <2>1, OwnIs
  <2>3. nx(k) # None => nx(k) <= end /\ nx(k) \in Over
    BY <1>1, <2>1
  <2>4. rk(k) \in Int /\ (nx(k) # None => rk(k) < rk(nx(k)))
    BY <1>2, <2>1 DEF Ranked
  <2>5. QED
    BY <2>1, <2>2, <2>3, <2>4
<1>4. \A k \in Over \cup {None}, n \in 0 .. MaxOverflow :
        f[n][k] = IF k = None \/ n = 0 THEN <<>> ELSE <<k>> \o f[n - 1][b[Overflow(k)].next]
  BY ChainStep
<1> HIDE DEF f
<1> DEFINE Good(k, n, s) ==
             /\ s \in Seq(Over) /\ Len(s) <= n /\ IsInjective(s)
             /\ \A j \in 1 .. Len(s) : s[j] \in K /\ rk(k) <= rk(s[j])
             /\ \A j \in 1 .. Len(s) : j # Len(s) => nx(s[j]) = s[j + 1]
             /\ Len(s) < n => \A j \in 1 .. Len(s) : j = Len(s) => nx(s[j]) = None
             /\ IF k = None \/ n = 0 THEN s = <<>> ELSE s # <<>> /\ s[1] = k
           S == {n \in Nat : n <= MaxOverflow => \A k \in K : Good(k, n, f[n][k])}
<1>5. 0 \in S
  <2>1. SUFFICES ASSUME NEW k \in K
                 PROVE  Good(k, 0, f[0][k])
    OBVIOUS
  <2>2. f[0][k] = <<>>
    <3>1. 0 \in 0 .. MaxOverflow /\ k \in Over \cup {None}
      BY Places
    <3>2. QED
      BY <1>4, <3>1
  <2>3. QED
    BY <2>2 DEF IsInjective
<1>6. ASSUME NEW n \in S
      PROVE  n + 1 \in S
  <2>1. SUFFICES ASSUME n + 1 <= MaxOverflow, NEW k \in K
                 PROVE  Good(k, n + 1, f[n + 1][k])
    OBVIOUS
  <2>2. n \in Nat /\ n + 1 \in 0 .. MaxOverflow /\ n + 1 # 0 /\ (n + 1) - 1 = n /\ n <= MaxOverflow
    BY <2>1, Places
  <2>3. CASE k = None
    <3>1. f[n + 1][k] = <<>>
      BY <1>4, <2>2, <2>3
    <3>2. QED
      BY <2>2, <2>3, <3>1 DEF IsInjective
  <2>4. CASE k # None
    <3> DEFINE s == f[n][nx(k)]
               t == <<k>> \o s
    <3>1. f[n + 1][k] = t
      <4>1. k \in Over \cup {None} /\ b[Overflow(k)].next = nx(k)
        BY <1>3, <2>4
      <4>2. f[n + 1][k] = <<k>> \o f[(n + 1) - 1][b[Overflow(k)].next]
        BY <1>4, <2>2, <2>4, <4>1
      <4>3. QED
        BY <2>2, <4>1, <4>2
    <3>2. /\ nx(k) \in K /\ rk(k) \in Int /\ (nx(k) # None => rk(k) < rk(nx(k)))
          /\ (nx(k) # None => rk(nx(k)) \in Int)
      BY <1>3, <2>4
    <3>3. Good(nx(k), n, s)
      BY <2>2, <3>2
    <3> HIDE DEF s
    <3>4. s \in Seq(Over) /\ Len(s) \in Nat /\ Len(s) <= n /\ k \in Over
      BY <2>4, <3>3
    <3>5. /\ t \in Seq(Over) /\ Len(t) = Len(s) + 1 /\ t[1] = k
          /\ \A j \in 1 .. Len(s) : t[j + 1] = s[j]
          /\ \A j \in 1 .. Len(s) + 1 : j = 1 \/ (j - 1 \in 1 .. Len(s) /\ t[j] = s[j - 1])
      BY <3>4, ConsIs
    <3> HIDE DEF t
    <3>6. \A j \in 1 .. Len(s) : nx(k) # None /\ s[j] \in K /\ s[j] # None /\ rk(k) < rk(s[j])
      <4>1. TAKE j \in 1 .. Len(s)
      <4>2. nx(k) # None
        BY <3>3, <3>4
      <4>3. s[j] \in K /\ rk(nx(k)) <= rk(s[j]) /\ s[j] \in Over
        BY <3>3, <3>4
      <4>4. rk(s[j]) \in Int /\ s[j] # None
        BY <1>3, <4>3, Places
      <4>5. QED
        BY <3>2, <4>2, <4>3, <4>4
    <3>7. \A j \in 1 .. Len(t) : t[j] \in K /\ rk(k) <= rk(t[j])
      <4>1. TAKE j \in 1 .. Len(t)
      <4>2. CASE j = 1
        BY <3>2, <3>5, <4>2
      <4>3. CASE j - 1 \in 1 .. Len(s) /\ t[j] = s[j - 1]
        <5>1. s[j - 1] \in K /\ s[j - 1] # None /\ rk(k) < rk(s[j - 1])
          BY <3>6, <4>3
        <5>2. rk(s[j - 1]) \in Int
          BY <1>3, <5>1
        <5>3. QED
          BY <3>2, <4>3, <5>1, <5>2
      <4>4. QED
        BY <3>5, <4>2, <4>3
    <3>8. IsInjective(t)
      <4>1. ASSUME NEW i \in 1 .. Len(t), NEW j \in 1 .. Len(t), t[i] = t[j], i # 1
            PROVE  i = j
        <5>1. i - 1 \in 1 .. Len(s) /\ t[i] = s[i - 1]
          BY <3>5, <4>1
        <5>2. j # 1
          <6>1. SUFFICES ASSUME j = 1
                         PROVE  FALSE
            OBVIOUS
          <6>2. s[i - 1] = k
            BY <3>5, <4>1, <5>1, <6>1
          <6>3. rk(k) < rk(k) /\ rk(k) \in Int
            BY <3>2, <3>6, <5>1, <6>2
          <6>4. QED
            BY <6>3
        <5>3. j - 1 \in 1 .. Len(s) /\ t[j] = s[j - 1]
          BY <3>5, <5>2
        <5>4. i - 1 = j - 1
          <6>1. s[i - 1] = s[j - 1] /\ IsInjective(s)
            BY <3>3, <4>1, <5>1, <5>3
          <6>2. DOMAIN s = 1 .. Len(s)
            BY <3>4
          <6>3. QED
            BY <5>1, <5>3, <6>1, <6>2 DEF IsInjective
        <5>5. QED
          BY <5>4
      <4>2. DOMAIN t = 1 .. Len(t)
        BY <3>5
      <4>3. QED
        BY <4>1, <4>2 DEF IsInjective
    <3>9. \A j \in 1 .. Len(t) : j # Len(t) => nx(t[j]) = t[j + 1]
      <4>1. TAKE j \in 1 .. Len(t)
      <4>2. HAVE j # Len(t)
      <4>3. j \in 1 .. Len(s) /\ t[j + 1] = s[j]
        BY <3>4, <3>5, <4>2
      <4>4. CASE j = 1
        <5>1. nx(k) # None /\ n # 0
          BY <3>3, <3>4, <4>3
        <5>2. s[1] = nx(k)
          BY <3>3, <5>1
        <5>3. QED
          BY <3>5, <4>3, <4>4, <5>2
      <4>5. CASE j # 1
        <5>1. j - 1 \in 1 .. Len(s) /\ t[j] = s[j - 1] /\ j - 1 # Len(s) /\ (j - 1) + 1 = j
          BY <3>4, <3>5, <4>3, <4>5
        <5>2. nx(s[j - 1]) = s[(j - 1) + 1]
          BY <3>3, <5>1
        <5>3. QED
          BY <4>3, <5>1, <5>2
      <4>6. QED
        BY <4>4, <4>5
    <3>10. Len(t) < n + 1 => \A j \in 1 .. Len(t) : j = Len(t) => nx(t[j]) = None
      <4>1. HAVE Len(t) < n + 1
      <4>2. TAKE j \in 1 .. Len(t)
      <4>3. HAVE j = Len(t)
      <4>4. Len(s) < n
        BY <3>4, <3>5, <4>1
      <4>5. CASE s = <<>>
        <5>1. j = 1 /\ nx(k) = None
          BY <3>3, <3>4, <3>5, <4>3, <4>4, <4>5
        <5>2. QED
          BY <3>5, <5>1
      <4>6. CASE s # <<>>
        <5>1. Len(s) > 0
          BY <3>4, <4>6, EmptySeq
        <5>2. j - 1 \in 1 .. Len(s) /\ t[j] = s[j - 1] /\ j - 1 = Len(s)
          BY <3>4, <3>5, <4>3, <5>1
        <5>3. QED
          BY <3>3, <4>4, <5>2
      <4>7. QED
        BY <4>5, <4>6
    <3>11. t # <<>>
      BY <3>4, <3>5
    <3>12. Good(k, n + 1, t)
      BY <2>4, <3>4, <3>5, <3>7, <3>8, <3>9, <3>10, <3>11
    <3>13. QED
      BY <3>1, <3>12
  <2>5. QED
    BY <2>3, <2>4
<1>7. \A n \in Nat : n \in S
  <2> HIDE DEF S
  <2>1. S \in SUBSET Nat
    BY DEF S
  <2>2. QED
    BY <1>5, <1>6, <2>1, NatSet
<1> DEFINE os == f[MaxOverflow][o]
<1>8. Good(o, MaxOverflow, os)
  BY <1>7, Places
<1> HIDE DEF os
<1>9. o # None => MaxOverflow # 0
  BY Places DEF Over
<1>10. \A j \in 1 .. Len(os) : os[j] \in Over /\ os[j] # None /\ os[j] <= end /\ own[Overflow(os[j])] = c
  BY <1>8, Places
<1>11. ASSUME NEW j \in 1 .. Len(os), j = Len(os), nx(os[j]) # None
       PROVE  FALSE
  <2> DEFINE N == nx(os[j])
  <2>1. Len(os) = MaxOverflow /\ Len(os) \in Nat
    <3>1. Len(os) \in Nat /\ Len(os) <= MaxOverflow
      BY <1>8
    <3>2. ~(Len(os) < MaxOverflow)
      BY <1>8, <1>11
    <3>3. QED
      BY <3>1, <3>2, Places
  <2>2. N \in K /\ N \in Over /\ rk(os[j]) < rk(N) /\ NextPos(Overflow(os[j])) \in Pos
    BY <1>3, <1>8, <1>10, <1>11, PosIn, Places
  <2>3. ASSUME NEW i \in 1 .. Len(os), os[i] = N
        PROVE  FALSE
    <3>1. CASE i = 1
      <4>1. os[1] = o /\ rk(o) <= rk(os[j])
        BY <1>8, <1>11
      <4>2. rk(N) \in Int /\ rk(os[j]) \in Int
        BY <1>3, <1>8, <1>10, <1>11, <2>2
      <4>3. QED
        BY <2>2, <2>3, <3>1, <4>1, <4>2
    <3>2. CASE i # 1
      <4>1. i - 1 \in 1 .. Len(os) /\ i - 1 # Len(os) /\ (i - 1) + 1 = i
        BY <2>1, <3>2
      <4>2. nx(os[i - 1]) = N /\ NextPos(Overflow(os[i - 1])) \in Pos
        BY <1>8, <1>10, <2>3, <4>1, PosIn, Places
      <4>3. Overflow(os[i - 1]) = Overflow(os[j])
        BY <1>1, <1>11, <2>2, <4>2, PosDiffer
      <4>4. os[i - 1] = os[j]
        BY <1>10, <4>1, <4>3, Places
      <4>5. i - 1 = j
        BY <1>8, <4>1, <4>4 DEF IsInjective
      <4>6. QED
        BY <1>11, <4>1, <4>5
    <3>3. QED
      BY <3>1, <3>2
  <2> HIDE DEF N
  <2> DEFINE T == Over \ {N}
  <2>4. IsFiniteSet(T) /\ Cardinality(T) = MaxOverflow - 1
    <3>1. IsFiniteSet(Over) /\ Cardinality(Over) = MaxOverflow
      BY FS_Interval, Places DEF Over
    <3>2. QED
      BY <2>2, <3>1, FS_RemoveElement
  <2>5. IsFiniteSet(1 .. MaxOverflow) /\ Cardinality(1 .. MaxOverflow) = MaxOverflow
    BY FS_Interval, Places
  <2>6. os \in [1 .. MaxOverflow -> T]
    <3>1. \A i \in 1 .. MaxOverflow : os[i] \in T
      BY <1>10, <2>1, <2>3
    <3>2. os \in [1 .. MaxOverflow -> Over]
      BY <1>8, <2>1, LenProperties
    <3> HIDE DEF T
    <3>3. QED
      BY <3>1, <3>2
  <2> HIDE DEF T
  <2>7. \E i, l \in 1 .. MaxOverflow : i # l /\ os[i] = os[l]
    BY <2>4, <2>5, <2>6, FS_PigeonHole, Places
  <2>8. QED
    BY <1>8, <2>1, <2>7 DEF IsInjective
<1>12. \A j \in 1 .. Len(os) : nx(os[j]) = IF j = Len(os) THEN None ELSE os[j + 1]
  BY <1>8, <1>11
<1>13. ChainFrom(b, o) = os
  BY ChainFromIs DEF os, f
<1>14. QED
  BY <1>8, <1>9, <1>10, <1>12, <1>13 DEF Followed

(* Such a chain has all blocks there are of their owner.                    *)
LEMMA ChainAll ==
  ASSUME NEW ptr, NEW own, NEW end, Chained(ptr, own, end), NEW c, NEW head \in Pos,
         NEW s, Followed(ptr, own, end, c, s),
         ptr[head] # None => s # <<>> /\ s[1] = ptr[head],
         \A x \in Pos : ptr[x] # None /\ own[Overflow(ptr[x])] = c /\ x # head =>
           \E o \in Over : o <= end /\ own[Overflow(o)] = c /\ x = NextPos(Overflow(o))
  PROVE  \A o \in Over : o <= end /\ own[Overflow(o)] = c => \E j \in 1 .. Len(s) : s[j] = o
<1> DEFINE In(o) == \E j \in 1 .. Len(s) : s[j] = o
           S == {o \in Over : o <= end /\ own[Overflow(o)] = c /\ ~In(o)}
<1>1. SUFFICES ASSUME S # {}
               PROVE  FALSE
  OBVIOUS
<1>2. PICK m \in S, x \in Pos : ptr[x] = m /\ \A o \in S : x # NextPos(Overflow(o))
  <2>1. S \in SUBSET Over /\ \A o \in S : o <= end
    OBVIOUS
  <2> HIDE DEF S
  <2>2. QED
    BY <1>1, <2>1, FirstOf
<1>3. m \in Over /\ m # None /\ own[Overflow(m)] = c /\ ~In(m)
  BY <1>2, Places
<1>4. CASE x = head
  <2>1. s # <<>> /\ s[1] = m
    BY <1>2, <1>3, <1>4
  <2>2. Len(s) \in Nat /\ Len(s) > 0
    BY <2>1, EmptySeq DEF Followed
  <2>3. QED
    BY <1>3, <2>1, <2>2
<1>5. CASE x # head
  <2>1. PICK o \in Over : o <= end /\ own[Overflow(o)] = c /\ x = NextPos(Overflow(o))
    BY <1>2, <1>3, <1>5
  <2>2. o \notin S
    BY <1>2, <2>1
  <2>3. PICK j \in 1 .. Len(s) : s[j] = o
    BY <2>1, <2>2
  <2>4. ptr[x] = IF j = Len(s) THEN None ELSE s[j + 1]
    BY <2>1, <2>3 DEF Followed
  <2>5. j # Len(s) /\ s[j + 1] = m
    BY <1>2, <1>3, <2>4
  <2>6. j + 1 \in 1 .. Len(s)
    <3>1. Len(s) \in Nat
      BY DEF Followed
    <3>2. QED
      BY <2>5, <3>1
  <2>7. QED
    BY <1>3, <2>5, <2>6
<1>6. QED
  BY <1>4, <1>5

-----------------------------------------------------------------------------
(* The records of a group.                                                  *)

AlongLine(b, n, f) ==
  [p \in Place |-> b[p].recs \o IF b[p].next = None \/ n = 0 THEN <<>> ELSE f[n - 1][Overflow(b[p].next)]]

AlongFn(b, m, f) == f = [n \in 0 .. m |-> AlongLine(b, n, f)]

Along(b) == CHOOSE f : AlongFn(b, MaxOverflow, f)

LEMMA GroupRecsIs ==
  ASSUME NEW b, NEW g
  PROVE  GroupRecs(b, g) = Along(b)[MaxOverflow][Primary(g)]
BY DEF GroupRecs, Along, AlongFn, AlongLine

LEMMA AlongExists ==
  ASSUME NEW b
  PROVE  \A m \in Nat : \E f : AlongFn(b, m, f)
<1> DEFINE S == {m \in Nat : \E f : AlongFn(b, m, f)}
<1>1. 0 \in S
  <2> DEFINE f == [n \in 0 .. 0 |-> [p \in Place |-> b[p].recs \o <<>>]]
  <2>1. \A n \in 0 .. 0 : n = 0
    OBVIOUS
  <2>2. f = [n \in 0 .. 0 |-> AlongLine(b, n, f)]
    BY <2>1 DEF AlongLine
  <2>3. QED
    BY <2>2 DEF AlongFn
<1>2. ASSUME NEW m \in S
      PROVE  m + 1 \in S
  <2>1. PICK f : AlongFn(b, m, f)
    OBVIOUS
  <2> DEFINE h == [n \in 0 .. m + 1 |-> AlongLine(b, n, f)]
  <2>2. \A n \in 0 .. m : h[n] = f[n]
    BY <2>1 DEF AlongFn
  <2>3. \A n \in 0 .. m + 1 : n # 0 => n - 1 \in 0 .. m
    OBVIOUS
  <2> HIDE DEF h
  <2>4. \A n \in 0 .. m + 1 : AlongLine(b, n, f) = AlongLine(b, n, h)
    BY <2>2, <2>3 DEF AlongLine
  <2>5. h = [n \in 0 .. m + 1 |-> AlongLine(b, n, h)]
    BY <2>4, Zenon DEF h
  <2>6. AlongFn(b, m + 1, h)
    BY <2>5 DEF AlongFn
  <2>7. QED
    BY <2>6
<1> HIDE DEF S
<1>3. \A m \in Nat : m \in S
  BY <1>1, <1>2, NatSet DEF S
<1>4. QED
  BY <1>3 DEF S

LEMMA AlongStep ==
  ASSUME NEW b
  PROVE  \A p \in Place, n \in 0 .. MaxOverflow :
           Along(b)[n][p] = b[p].recs \o IF b[p].next = None \/ n = 0 THEN <<>>
                                         ELSE Along(b)[n - 1][Overflow(b[p].next)]
<1> DEFINE f == Along(b)
<1>1. AlongFn(b, MaxOverflow, f)
  BY AlongExists, Places DEF Along
<1> HIDE DEF f
<1>2. \A n \in 0 .. MaxOverflow : f[n] = AlongLine(b, n, f)
  BY <1>1 DEF AlongFn
<1>3. \A p \in Place, n \in 0 .. MaxOverflow :
        f[n][p] = b[p].recs \o IF b[p].next = None \/ n = 0 THEN <<>> ELSE f[n - 1][Overflow(b[p].next)]
  BY <1>2 DEF AlongLine
<1>4. QED
  BY <1>3 DEF f

FirstIn(recs, i, rest) ==
  LET S == {k \in 1 .. Len(recs) : recs[k].id = i}
  IN  IF S # {} THEN {recs[CHOOSE k \in S : \A j \in S : k <= j]} ELSE rest

SearchLine(b, i, n, f) ==
  [p \in Place |-> FirstIn(b[p].recs, i, IF b[p].next = None \/ n = 0 THEN {}
                                         ELSE f[n - 1][Overflow(b[p].next)])]

SearchFn(b, i, m, f) == f = [n \in 0 .. m |-> SearchLine(b, i, n, f)]

Search(b, i) == CHOOSE f : SearchFn(b, i, MaxOverflow, f)

LEMMA FoundIs ==
  ASSUME NEW b, NEW g, NEW i
  PROVE  Found(b, g, i) = Search(b, i)[MaxOverflow][Primary(g)]
BY DEF Found, Search, SearchFn, SearchLine, FirstIn

LEMMA SearchExists ==
  ASSUME NEW b, NEW i
  PROVE  \A m \in Nat : \E f : SearchFn(b, i, m, f)
<1> DEFINE S == {m \in Nat : \E f : SearchFn(b, i, m, f)}
<1>1. 0 \in S
  <2> DEFINE f == [n \in 0 .. 0 |-> SearchLine(b, i, n, <<>>)]
  <2>1. \A n \in 0 .. 0 : n = 0
    OBVIOUS
  <2> HIDE DEF f
  <2>2. \A n \in 0 .. 0 : SearchLine(b, i, n, <<>>) = SearchLine(b, i, n, f)
    BY <2>1 DEF SearchLine
  <2>3. f = [n \in 0 .. 0 |-> SearchLine(b, i, n, f)]
    BY <2>2, Zenon DEF f
  <2>4. QED
    BY <2>3 DEF SearchFn
<1>2. ASSUME NEW m \in S
      PROVE  m + 1 \in S
  <2>1. PICK f : SearchFn(b, i, m, f)
    OBVIOUS
  <2> DEFINE h == [n \in 0 .. m + 1 |-> SearchLine(b, i, n, f)]
  <2>2. \A n \in 0 .. m : h[n] = f[n]
    BY <2>1 DEF SearchFn
  <2>3. \A n \in 0 .. m + 1 : n # 0 => n - 1 \in 0 .. m
    OBVIOUS
  <2> HIDE DEF h
  <2>4. \A n \in 0 .. m + 1 : SearchLine(b, i, n, f) = SearchLine(b, i, n, h)
    BY <2>2, <2>3 DEF SearchLine
  <2>5. h = [n \in 0 .. m + 1 |-> SearchLine(b, i, n, h)]
    BY <2>4, Zenon DEF h
  <2>6. SearchFn(b, i, m + 1, h)
    BY <2>5 DEF SearchFn
  <2>7. QED
    BY <2>6
<1> HIDE DEF S
<1>3. \A m \in Nat : m \in S
  BY <1>1, <1>2, NatSet DEF S
<1>4. QED
  BY <1>3 DEF S

(* The record there is of an id in a block.                                 *)
LEMMA SearchStep ==
  ASSUME NEW b \in [Place -> Block], NEW i
  PROVE  \A p \in Place, n \in 0 .. MaxOverflow :
           \/ \E r \in RecsIn(b[p].recs) : r.id = i /\ Search(b, i)[n][p] = {r}
           \/ /\ \A r \in RecsIn(b[p].recs) : r.id # i
              /\ Search(b, i)[n][p] = IF b[p].next = None \/ n = 0 THEN {}
                                      ELSE Search(b, i)[n - 1][Overflow(b[p].next)]
<1> DEFINE f == Search(b, i)
<1>1. SearchFn(b, i, MaxOverflow, f)
  BY SearchExists, Places DEF Search
<1> HIDE DEF f
<1>2. \A n \in 0 .. MaxOverflow : f[n] = SearchLine(b, i, n, f)
  BY <1>1 DEF SearchFn
<1>3. ASSUME NEW p \in Place, NEW n \in 0 .. MaxOverflow
      PROVE  \/ \E r \in RecsIn(b[p].recs) : r.id = i /\ f[n][p] = {r}
             \/ /\ \A r \in RecsIn(b[p].recs) : r.id # i
                /\ f[n][p] = IF b[p].next = None \/ n = 0 THEN {} ELSE f[n - 1][Overflow(b[p].next)]
  <2> DEFINE recs == b[p].recs
             S == {k \in 1 .. Len(recs) : recs[k].id = i}
             k0 == CHOOSE k \in S : \A j \in S : k <= j
             rest == IF b[p].next = None \/ n = 0 THEN {} ELSE f[n - 1][Overflow(b[p].next)]
  <2>0. f[n][p] = FirstIn(recs, i, rest)
    BY <1>2 DEF SearchLine
  <2>1. f[n][p] = IF S # {} THEN {recs[k0]} ELSE rest
    BY <2>0, Zenon DEF FirstIn
  <2>2. CASE S # {}
    <3>1. recs \in Seq(Rec) /\ S \in SUBSET Nat
      BY BlockType
    <3>2. \E k \in S : \A j \in S : k <= j
      <4> HIDE DEF S
      <4>1. QED
        BY <2>2, <3>1, LeastNat
    <3>3. k0 \in S
      <4> HIDE DEF S
      <4>1. QED
        BY <3>2
    <3> HIDE DEF k0
    <3>4. recs[k0] \in RecsIn(recs) /\ recs[k0].id = i
      BY <3>1, <3>3 DEF RecsIn
    <3>5. f[n][p] = {recs[k0]}
      BY <2>1, <2>2
    <3>6. QED
      BY <3>4, <3>5
  <2>3. CASE S = {}
    <3>1. \A r \in RecsIn(recs) : r.id # i
      BY <2>3 DEF RecsIn
    <3>2. f[n][p] = IF b[p].next = None \/ n = 0 THEN {} ELSE f[n - 1][Overflow(b[p].next)]
      BY <2>1, <2>3
    <3>3. QED
      BY <3>1, <3>2
  <2>4. QED
    BY <2>2, <2>3
<1>4. QED
  BY <1>3 DEF f

(* The places of an owner are as the pointers have them, and each record in *)
(* them is the only one of its id.                                          *)
Sane(b, c, ptr, own, at, kept) ==
  \A p \in Place : own[p] = c =>
    /\ b[p].next = ptr[NextPos(p)] /\ DistinctIds(b[p].recs)
    /\ \A r \in RecsIn(b[p].recs) : kept[r.id] = {r} /\ at[r.id] = p

Elems(s) == {s[j] : j \in 1 .. Len(s)}

(* The places of a group, as they are followed.                             *)
PlacesOf(b, g) == {Primary(g)} \cup {Overflow(o) : o \in Elems(ChainFrom(b, b[Primary(g)].next))}

LEMMA ConsElems ==
  ASSUME NEW k \in Over, NEW s \in Seq(Over)
  PROVE  Elems(<<k>> \o s) = {k} \cup Elems(s)
<1> DEFINE t == <<k>> \o s
<1>1. /\ Len(t) = Len(s) + 1 /\ t[1] = k /\ Len(s) \in Nat
      /\ \A j \in 1 .. Len(s) : t[j + 1] = s[j]
      /\ \A j \in 1 .. Len(s) + 1 : j = 1 \/ (j - 1 \in 1 .. Len(s) /\ t[j] = s[j - 1])
  BY ConsIs
<1> HIDE DEF t
<1>2. \A j \in 1 .. Len(s) : j + 1 \in 1 .. Len(t)
  BY <1>1
<1>3. 1 \in 1 .. Len(t)
  BY <1>1
<1>4. Elems(t) \subseteq {k} \cup Elems(s)
  BY <1>1 DEF Elems
<1>5. {k} \cup Elems(s) \subseteq Elems(t)
  BY <1>1, <1>2, <1>3 DEF Elems
<1>6. QED
  BY <1>4, <1>5 DEF t

LEMMA NoElems == Elems(<<>>) = {}
BY DEF Elems

LEMMA ChainSeq ==
  ASSUME NEW b \in [Place -> Block]
  PROVE  \A n \in Nat : n <= MaxOverflow => \A k \in Over \cup {None} : Chain(b)[n][k] \in Seq(Over)
<1> DEFINE f == Chain(b)
           S == {n \in Nat : n <= MaxOverflow => \A k \in Over \cup {None} : f[n][k] \in Seq(Over)}
<1>1. \A k \in Over \cup {None}, n \in 0 .. MaxOverflow :
        f[n][k] = IF k = None \/ n = 0 THEN <<>> ELSE <<k>> \o f[n - 1][b[Overflow(k)].next]
  BY ChainStep
<1> HIDE DEF f
<1>2. 0 \in S
  <2>1. ASSUME NEW k \in Over \cup {None}
        PROVE  f[0][k] \in Seq(Over)
    <3>1. 0 \in 0 .. MaxOverflow
      BY Places
    <3>2. f[0][k] = <<>>
      BY <1>1, <3>1
    <3>3. QED
      BY <3>2
  <2>2. QED
    BY <2>1
<1>3. ASSUME NEW n \in S
      PROVE  n + 1 \in S
  <2>1. SUFFICES ASSUME n + 1 <= MaxOverflow, NEW k \in Over \cup {None}
                 PROVE  f[n + 1][k] \in Seq(Over)
    OBVIOUS
  <2>2. n \in Nat /\ n + 1 \in 0 .. MaxOverflow /\ n + 1 # 0 /\ (n + 1) - 1 = n /\ n <= MaxOverflow
    BY <2>1, Places
  <2>3. CASE k = None
    <3>1. f[n + 1][k] = <<>>
      BY <1>1, <2>2, <2>3
    <3>2. QED
      BY <3>1
  <2>4. CASE k # None
    <3>1. b[Overflow(k)].next \in Over \cup {None} /\ k \in Over
      BY <2>4, BlockType, Places
    <3>2. f[n][b[Overflow(k)].next] \in Seq(Over)
      BY <2>2, <3>1
    <3>3. f[n + 1][k] = <<k>> \o f[n][b[Overflow(k)].next]
      BY <1>1, <2>2, <2>4
    <3>4. QED
      BY <3>1, <3>2, <3>3, ConsIs
  <2>5. QED
    BY <2>3, <2>4
<1> HIDE DEF S
<1>4. \A n \in Nat : n \in S
  BY <1>2, <1>3, NatSet DEF S
<1>5. QED
  BY <1>4 DEF S, f

(* The records of a group are those of its places.                          *)
LEMMA AlongIs ==
  ASSUME NEW b \in [Place -> Block]
  PROVE  \A n \in Nat : n <= MaxOverflow => \A p \in Place :
           /\ Along(b)[n][p] \in Seq(Rec)
           /\ RecsIn(Along(b)[n][p]) =
                RecsIn(b[p].recs) \cup UNION {RecsIn(b[Overflow(o)].recs) : o \in Elems(Chain(b)[n][b[p].next])}
<1> DEFINE f == Along(b)
           c == Chain(b)
           Tail2(n, p) == UNION {RecsIn(b[Overflow(o)].recs) : o \in Elems(c[n][b[p].next])}
           Good(n, p) == f[n][p] \in Seq(Rec) /\ RecsIn(f[n][p]) = RecsIn(b[p].recs) \cup Tail2(n, p)
           S == {n \in Nat : n <= MaxOverflow => \A p \in Place : Good(n, p)}
<1>1. \A p \in Place, n \in 0 .. MaxOverflow :
        f[n][p] = b[p].recs \o IF b[p].next = None \/ n = 0 THEN <<>> ELSE f[n - 1][Overflow(b[p].next)]
  BY AlongStep
<1>2. \A k \in Over \cup {None}, n \in 0 .. MaxOverflow :
        c[n][k] = IF k = None \/ n = 0 THEN <<>> ELSE <<k>> \o c[n - 1][b[Overflow(k)].next]
  BY ChainStep
<1>3. \A n \in Nat : n <= MaxOverflow => \A k \in Over \cup {None} : c[n][k] \in Seq(Over)
  BY ChainSeq
<1> HIDE DEF f, c
<1>4. \A n \in 0 .. MaxOverflow, p \in Place : b[p].next = None \/ n = 0 => Good(n, p)
  <2>1. TAKE n \in 0 .. MaxOverflow, p \in Place
  <2>2. HAVE b[p].next = None \/ n = 0
  <2>3. b[p].recs \in Seq(Rec) /\ b[p].next \in Over \cup {None}
    BY BlockType
  <2>4. f[n][p] = b[p].recs \o <<>> /\ c[n][b[p].next] = <<>>
    BY <1>1, <1>2, <2>2, <2>3
  <2>5. f[n][p] = b[p].recs
    BY <2>3, <2>4, ConcatEmptySeq
  <2>6. Tail2(n, p) = {}
    BY <2>4, NoElems
  <2>7. QED
    BY <2>3, <2>5, <2>6
<1>5. 0 \in S
  <2>1. 0 \in 0 .. MaxOverflow
    BY Places
  <2>2. QED
    BY <1>4, <2>1
<1>6. ASSUME NEW n \in S
      PROVE  n + 1 \in S
  <2>1. SUFFICES ASSUME n + 1 <= MaxOverflow, NEW p \in Place
                 PROVE  Good(n + 1, p)
    OBVIOUS
  <2>2. n \in Nat /\ n + 1 \in 0 .. MaxOverflow /\ n + 1 # 0 /\ (n + 1) - 1 = n /\ n <= MaxOverflow
    BY <2>1, Places
  <2>3. CASE b[p].next = None
    BY <1>4, <2>2, <2>3
  <2>4. CASE b[p].next # None
    <3> DEFINE k == b[p].next
               q == Overflow(k)
    <3>1. k \in Over /\ k # None /\ q \in Place /\ b[p].recs \in Seq(Rec) /\ b[q].next \in Over \cup {None}
      BY <2>4, BlockType, Places
    <3>2. f[n][q] \in Seq(Rec) /\ RecsIn(f[n][q]) = RecsIn(b[q].recs) \cup Tail2(n, q)
      BY <2>2, <3>1
    <3>3. f[n + 1][p] = b[p].recs \o f[n][q]
      BY <1>1, <2>2, <2>4
    <3>4. f[n + 1][p] \in Seq(Rec) /\ RecsIn(f[n + 1][p]) = RecsIn(b[p].recs) \cup RecsIn(f[n][q])
      <4>1. b[p].recs \o f[n][q] \in Seq(Rec)
            /\ RecsIn(b[p].recs \o f[n][q]) = RecsIn(b[p].recs) \cup RecsIn(f[n][q])
        BY <3>1, <3>2, RecsCat
      <4>2. QED
        BY <3>3, <4>1
    <3>5. Elems(c[n + 1][k]) = {k} \cup Elems(c[n][b[q].next])
      <4>1. c[n + 1][k] = <<k>> \o c[n][b[q].next]
        BY <1>2, <2>2, <3>1
      <4>2. c[n][b[q].next] \in Seq(Over)
        BY <1>3, <2>2, <3>1
      <4>3. QED
        BY <3>1, <4>1, <4>2, ConsElems
    <3>6. Tail2(n + 1, p) = RecsIn(b[q].recs) \cup Tail2(n, q)
      BY <3>5
    <3>7. QED
      BY <3>2, <3>4, <3>6
  <2>5. QED
    BY <2>3, <2>4
<1> HIDE DEF S
<1>7. \A n \in Nat : n \in S
  <2>1. S \in SUBSET Nat
    BY DEF S
  <2>2. QED
    BY <1>5, <1>6, <2>1, NatSet
<1>8. QED
  BY <1>7 DEF S, f, c

LEMMA GroupIs ==
  ASSUME NEW ptr, NEW own, NEW end, Chained(ptr, own, end), NEW b \in [Place -> Block], NEW g \in Groups,
         NEW at, NEW kept, Sane(b, g, ptr, own, at, kept)
  PROVE  /\ GroupRecs(b, g) \in Seq(Rec) /\ DistinctIds(GroupRecs(b, g))
         /\ RecsIn(GroupRecs(b, g)) = UNION {RecsIn(b[p].recs) : p \in PlacesOf(b, g)}
         /\ \A r \in RecsIn(GroupRecs(b, g)) : kept[r.id] = {r} /\ own[at[r.id]] = g /\ at[r.id] \in Place
         /\ \A i : Found(b, g, i) = {r \in RecsIn(GroupRecs(b, g)) : r.id = i}
<1>1. PICK rank, lo, hi : Ranked(ptr, rank, lo, hi)
  BY DEF Chained
<1> DEFINE f == Along(b)
           G == {p \in Place : own[p] = g}
<1>2. \A p \in Place, n \in 0 .. MaxOverflow :
        f[n][p] = b[p].recs \o IF b[p].next = None \/ n = 0 THEN <<>> ELSE f[n - 1][Overflow(b[p].next)]
  BY AlongStep
<1>3. \A n \in Nat : n <= MaxOverflow => \A p \in Place :
        /\ f[n][p] \in Seq(Rec)
        /\ RecsIn(f[n][p]) =
             RecsIn(b[p].recs) \cup UNION {RecsIn(b[Overflow(o)].recs) : o \in Elems(Chain(b)[n][b[p].next])}
  BY AlongIs
<1> HIDE DEF f
<1>4. ASSUME NEW p \in G
      PROVE  /\ p \in Place /\ own[p] = g /\ b[p].recs \in Seq(Rec) /\ DistinctIds(b[p].recs)
             /\ rank[p] \in Int
             /\ \A r \in RecsIn(b[p].recs) : kept[r.id] = {r} /\ at[r.id] = p
             /\ b[p].next # None => /\ Overflow(b[p].next) \in G
                                    /\ rank[p] < rank[Overflow(b[p].next)]
                                    /\ rank[Overflow(b[p].next)] \in Int
  <2>1. p \in Place /\ own[p] = g /\ b[p].recs \in Seq(Rec) /\ NextPos(p) \in Pos
    BY BlockType, PosIn
  <2>2. /\ b[p].next = ptr[NextPos(p)] /\ DistinctIds(b[p].recs)
        /\ \A r \in RecsIn(b[p].recs) : kept[r.id] = {r} /\ at[r.id] = p
    BY <2>1 DEF Sane
  <2>3. ASSUME b[p].next # None
        PROVE  Overflow(b[p].next) \in G /\ rank[p] < rank[Overflow(b[p].next)]
               /\ rank[Overflow(b[p].next)] \in Int
    <3>1. ptr[NextPos(p)] # None /\ ptr[NextPos(p)] \in Over
      BY <2>1, <2>2, <2>3, PtrIs
    <3>2. Overflow(ptr[NextPos(p)]) \in Place /\ own[Overflow(ptr[NextPos(p)])] = g
      BY <2>1, <3>1, OwnIs, Places
    <3>3. rank[p] < rank[Overflow(ptr[NextPos(p)])] /\ rank[Overflow(ptr[NextPos(p)])] \in Int
      BY <1>1, <2>1, <3>1, <3>2 DEF Ranked
    <3>4. QED
      BY <2>2, <3>2, <3>3
  <2>4. rank[p] \in Int
    BY <1>1, <2>1 DEF Ranked
  <2>5. QED
    BY <2>1, <2>2, <2>3, <2>4
<1> DEFINE Good(n, p) ==
             /\ DistinctIds(f[n][p])
             /\ \A r \in RecsIn(f[n][p]) :
                  kept[r.id] = {r} /\ at[r.id] \in G /\ rank[p] <= rank[at[r.id]] /\ rank[at[r.id]] \in Int
             /\ \A i : Search(b, i)[n][p] = {r \in RecsIn(f[n][p]) : r.id = i}
           S == {n \in Nat : n <= MaxOverflow => \A p \in G : Good(n, p)}
<1>5. ASSUME NEW n \in 0 .. MaxOverflow, NEW p \in G, b[p].next = None \/ n = 0
      PROVE  Good(n, p)
  <2>1. f[n][p] = b[p].recs
    <3>1. f[n][p] = b[p].recs \o <<>>
      BY <1>2, <1>4, <1>5
    <3>2. QED
      BY <1>4, <3>1, ConcatEmptySeq
  <2>2. ASSUME NEW i
        PROVE  Search(b, i)[n][p] = {r \in RecsIn(f[n][p]) : r.id = i}
    <3>1. CASE \E r \in RecsIn(b[p].recs) : r.id = i /\ Search(b, i)[n][p] = {r}
      <4>1. PICK r \in RecsIn(b[p].recs) : r.id = i /\ Search(b, i)[n][p] = {r}
        BY <3>1
      <4>2. \A q \in RecsIn(b[p].recs) : kept[q.id] = {q}
        BY <1>4
      <4>3. \A q \in RecsIn(b[p].recs) : q.id = i => q = r
        BY <4>1, <4>2
      <4>4. QED
        BY <2>1, <4>1, <4>3
    <3>2. CASE /\ \A r \in RecsIn(b[p].recs) : r.id # i
               /\ Search(b, i)[n][p] = IF b[p].next = None \/ n = 0 THEN {}
                                       ELSE Search(b, i)[n - 1][Overflow(b[p].next)]
      BY <1>5, <2>1, <3>2
    <3>3. QED
      BY <1>4, <3>1, <3>2, SearchStep
  <2>3. \A r \in RecsIn(f[n][p]) :
          kept[r.id] = {r} /\ at[r.id] \in G /\ rank[p] <= rank[at[r.id]] /\ rank[at[r.id]] \in Int
    <3>1. \A r \in RecsIn(b[p].recs) : kept[r.id] = {r} /\ at[r.id] = p
      BY <1>4
    <3>2. rank[p] \in Int
      BY <1>4
    <3>3. rank[p] <= rank[p]
      BY <3>2
    <3>4. QED
      BY <2>1, <3>1, <3>2, <3>3
  <2>4. QED
    BY <1>4, <2>1, <2>2, <2>3
<1>6. 0 \in S
  <2>1. 0 \in 0 .. MaxOverflow
    BY Places
  <2>2. QED
    BY <1>5, <2>1
<1>7. ASSUME NEW n \in S
      PROVE  n + 1 \in S
  <2>1. SUFFICES ASSUME n + 1 <= MaxOverflow, NEW p \in G
                 PROVE  Good(n + 1, p)
    OBVIOUS
  <2>2. n \in Nat /\ n + 1 \in 0 .. MaxOverflow /\ n + 1 # 0 /\ (n + 1) - 1 = n /\ n <= MaxOverflow
    BY <2>1, Places
  <2>3. CASE b[p].next = None
    BY <1>5, <2>2, <2>3
  <2>4. CASE b[p].next # None
    <3> DEFINE q == Overflow(b[p].next)
               s == b[p].recs
               t == f[n][q]
    <3>1. q \in G /\ q \in Place /\ rank[p] < rank[q] /\ rank[p] \in Int /\ rank[q] \in Int
      BY <1>4, <2>4
    <3>2. Good(n, q)
      BY <2>2, <3>1
    <3>3. f[n + 1][p] = s \o t
      <4>1. p \in Place
        BY <1>4
      <4>2. f[n + 1][p] = b[p].recs \o IF b[p].next = None \/ n + 1 = 0 THEN <<>>
                                       ELSE f[(n + 1) - 1][Overflow(b[p].next)]
        BY <1>2, <2>2, <4>1
      <4>3. QED
        BY <2>2, <2>4, <4>2
    <3>4. /\ s \in Seq(Rec) /\ DistinctIds(s)
          /\ \A r \in RecsIn(s) : kept[r.id] = {r} /\ at[r.id] = p
      BY <1>4
    <3>5. /\ t \in Seq(Rec) /\ DistinctIds(t)
          /\ \A r \in RecsIn(t) : /\ kept[r.id] = {r} /\ at[r.id] \in G
                                  /\ rank[q] <= rank[at[r.id]] /\ rank[at[r.id]] \in Int
          /\ \A i : Search(b, i)[n][q] = {r \in RecsIn(t) : r.id = i}
      BY <1>3, <2>2, <3>1, <3>2
    <3> HIDE DEF s, t
    <3>6. \A v \in RecsIn(s), w \in RecsIn(t) : v.id # w.id
      <4>1. \A w \in RecsIn(t) : rank[p] # rank[at[w.id]]
        BY <3>1, <3>5
      <4>2. QED
        BY <3>4, <4>1
    <3>7. s \o t \in Seq(Rec) /\ RecsIn(s \o t) = RecsIn(s) \cup RecsIn(t) /\ DistinctIds(s \o t)
      BY <3>4, <3>5, <3>6, RecsCat
    <3>8. \A r \in RecsIn(s \o t) :
            kept[r.id] = {r} /\ at[r.id] \in G /\ rank[p] <= rank[at[r.id]] /\ rank[at[r.id]] \in Int
      <4>1. \A r \in RecsIn(t) : rank[p] <= rank[at[r.id]]
        BY <3>1, <3>5
      <4>2. \A r \in RecsIn(s) : at[r.id] \in G /\ rank[p] <= rank[at[r.id]] /\ rank[at[r.id]] \in Int
        BY <3>1, <3>4
      <4>3. QED
        BY <3>4, <3>5, <3>7, <4>1, <4>2
    <3>9. ASSUME NEW i
          PROVE  Search(b, i)[n + 1][p] = {r \in RecsIn(s \o t) : r.id = i}
      <4>1. CASE \E r \in RecsIn(s) : r.id = i /\ Search(b, i)[n + 1][p] = {r}
        <5>1. PICK r \in RecsIn(s) : r.id = i /\ Search(b, i)[n + 1][p] = {r}
          BY <4>1
        <5>2. \A v \in RecsIn(s \o t) : v.id = i => v = r
          BY <3>4, <3>8, <5>1
        <5>3. r \in RecsIn(s \o t)
          BY <3>7, <5>1
        <5>4. QED
          BY <5>1, <5>2, <5>3
      <4>2. CASE /\ \A r \in RecsIn(s) : r.id # i
                 /\ Search(b, i)[n + 1][p] = Search(b, i)[n][q]
        BY <3>5, <3>7, <4>2
      <4>3. QED
        <5>1. \/ \E r \in RecsIn(b[p].recs) : r.id = i /\ Search(b, i)[n + 1][p] = {r}
              \/ /\ \A r \in RecsIn(b[p].recs) : r.id # i
                 /\ Search(b, i)[n + 1][p] = IF b[p].next = None \/ n + 1 = 0 THEN {}
                                             ELSE Search(b, i)[(n + 1) - 1][Overflow(b[p].next)]
          BY SMTT(20), <1>4, <2>2, SearchStep
        <5>2. QED
          BY <2>2, <2>4, <4>1, <4>2, <5>1 DEF s
    <3>10. QED
      BY <3>3, <3>7, <3>8, <3>9
  <2>5. QED
    BY <2>3, <2>4
<1> HIDE DEF S
<1>8. \A n \in Nat : n \in S
  <2>1. S \in SUBSET Nat
    BY DEF S
  <2>2. QED
    BY <1>6, <1>7, <2>1, NatSet
<1> DEFINE p == Primary(g)
           recs == f[MaxOverflow][p]
<1>9. p \in G /\ p \in Place
  BY Places, PtrIs
<1>10. Good(MaxOverflow, p)
  BY <1>8, <1>9, Places DEF S
<1>11. /\ recs \in Seq(Rec)
       /\ RecsIn(recs) =
            RecsIn(b[p].recs) \cup UNION {RecsIn(b[Overflow(o)].recs) : o \in Elems(Chain(b)[MaxOverflow][b[p].next])}
  <2> HIDE DEF p
  <2>1. MaxOverflow \in Nat /\ MaxOverflow <= MaxOverflow
    BY Places
  <2>2. QED
    BY <1>3, <1>9, <2>1
<1>12. GroupRecs(b, g) = recs
  BY GroupRecsIs DEF f
<1>13. UNION {RecsIn(b[q].recs) : q \in PlacesOf(b, g)}
         = RecsIn(b[p].recs) \cup UNION {RecsIn(b[Overflow(o)].recs) : o \in Elems(Chain(b)[MaxOverflow][b[p].next])}
  BY ChainFromIs DEF PlacesOf
<1>14. \A i : Found(b, g, i) = {r \in RecsIn(recs) : r.id = i}
  BY <1>10, FoundIs
<1> HIDE DEF recs, p
<1>15. QED
  BY <1>10, <1>11, <1>12, <1>13, <1>14 DEF recs, p

-----------------------------------------------------------------------------
(* The file as it will be when the sessions that rewrite groups have        *)
(* written their buffers, and the chains in it:                             *)
(*   h.view[p]  the block in place p then,                                  *)
(*   h.ptr[x]   the block that position x points to,                        *)
(*   h.own[p]   what place p belongs to,                                    *)
(*   h.kept[i]  the record with id i, if any,                               *)
(*   h.at[i]    the place it is in, or 0 if a session is moving it.         *)

SrcOf(p) == IF p.at = "rewrite" THEN p.job.src ELSE None
RestOf(p) == IF p.at = "rewrite" THEN p.job.rest ELSE None
BigOf(p) ==
  IF p.at = "rewrite" THEN IF p.then.at = "tidy" THEN p.then.big ELSE None
  ELSE IF p.at = "tidy" THEN p.big
  ELSE IF p.at \in {"big", "write"} THEN p.rec.big ELSE None
TodoOf(p) == IF p.at = "rewrite" THEN p.job.todo ELSE <<>>

(* The places whose blocks are in the hands of a session.                   *)
Buffered(p) == IF p.at = "rewrite" THEN {p.job.to[t].at : t \in 1 .. Len(p.job.to)} ELSE {}
Given(p) == IF SrcOf(p) = None THEN {} ELSE {Overflow(SrcOf(p))}
InHand(p) == Buffered(p) \cup Given(p)

(* The group is not in the file, or a split has yet to lock its twin.       *)
AbsentGroup(g) == g > modulus \/ \E u \in Users : proc[u].at = "source" /\ proc[u].new = g

Writing(p) == \E u \in Users : proc[u].at = "big" /\ p = Overflow(proc[u].last)

(* The blocks of a big record follow each other, up to the last one yet     *)
(* written.                                                                 *)
PartOK(p, h) ==
  h.view[p].part # NoPart =>
    /\ h.own[p] \in {Overflow(o) : o \in Over} /\ h.view[p].part.val \in Vals
    /\ IF h.view[p].next = None
         THEN h.view[p].part.nth = BigBlocks[h.view[p].part.val] \/ Writing(p)
         ELSE h.view[Overflow(h.view[p].next)].part
                = [val |-> h.view[p].part.val, nth |-> h.view[p].part.nth + 1]

PlaceOK(p, h) ==
  /\ h.ptr[NextPos(p)] = h.view[p].next
  /\ DistinctIds(h.view[p].recs)
  /\ \A r \in RecsIn(h.view[p].recs) : h.kept[r.id] = {r} /\ h.at[r.id] = p
  /\ (\A u \in Users : p \notin InHand(proc[u])) => block[p] = h.view[p]
  /\ p \in Groups /\ AbsentGroup(p) => h.view[p].recs = <<>> /\ h.view[p].next = None
  /\ p \notin Groups /\ OverflowNo(p) > fileEnd => h.view[p] = Empty /\ h.own[p] = 0
  /\ PartOK(p, h)

(* Where the record with id i is.                                           *)
InPlace(i, h) ==
  /\ h.at[i] \in Place /\ h.kept[i] \subseteq RecsIn(h.view[h.at[i]].recs)
  /\ \/ h.own[h.at[i]] = Home(i)
     \/ h.own[h.at[i]] = Moving /\ \E u \in Users : RestOf(proc[u]) # None /\ i \in DOMAIN proc[u].was

IdOK(i, h) ==
  /\ h.ptr[RecPos(i)] = OldBig(h.kept[i])
  /\ h.kept[i] # {} =>
       /\ \E r \in Rec : r.id = i /\ h.kept[i] = {r}
       /\ \A r \in h.kept[i] : r.big # None => h.view[Overflow(r.big)].part = [val |-> r.val, nth |-> 1]
       /\ IF h.at[i] = 0 THEN \E u \in Users : h.kept[i] \subseteq RecsIn(TodoOf(proc[u]))
          ELSE InPlace(i, h)

JobType ==
  [to : Seq([at : Place, blk : Block]), pack : BOOLEAN, todo : Seq(Rec),
   src : Over \cup {None}, rest : Over \cup {None}, new : Groups \cup {None}]

ValIn(S) == IF S = {} THEN NoRec ELSE (CHOOSE r \in S : TRUE).val

Promised(p, i) == IF \E w \in p.put : w.id = i THEN (CHOOSE w \in p.put : w.id = i).val ELSE p.was[i]

TargetOf(job, i) == IF job.new # None /\ HashGroup(i) = job.new THEN 2 ELSE 1

BufferOK(u, b, h) ==
  h.view[b.at] = b.blk /\ h.own[b.at] \in Groups /\ MyLock(u, h.own[b.at], TRUE) \in glock

JobOK(u, h) ==
  LET job == proc[u].job
  IN  /\ job \in JobType /\ DOMAIN proc[u].was \subseteq Ids
      /\ Len(job.to) <= 2
      /\ \A t \in 1 .. Len(job.to) : BufferOK(u, job.to[t], h)
      /\ Len(job.to) = 2 => h.own[job.to[1].at] # h.own[job.to[2].at]
      /\ job.src # None => h.view[Overflow(job.src)] = Empty
      /\ job.pack => Len(job.to) <= 1 /\ job.src = None /\ job.rest = None /\ job.new = None
      /\ job.rest # None \/ job.new # None => proc[u].then.at = "release"
      /\ job.todo # <<>> \/ job.rest # None \/ job.src # None => job.to # <<>>
      /\ job.todo # <<>> \/ job.rest # None =>
           /\ job.new # None => Len(job.to) = 2
           /\ ~job.pack => \A t \in 1 .. Len(job.to) : job.to[t].blk.next = None
           /\ \A i \in DOMAIN proc[u].was : Home(i) = h.own[job.to[TargetOf(job, i)].at]

HeldOK(u, h) ==
  /\ h.ptr[SrcPos(u)] = SrcOf(proc[u])
  /\ h.ptr[RestPos(u)] = RestOf(proc[u])
  /\ h.ptr[BigPos(u)] = BigOf(proc[u])
  /\ DistinctIds(TodoOf(proc[u]))
  /\ \A r \in RecsIn(TodoOf(proc[u])) :
       h.kept[r.id] = {r} /\ h.at[r.id] = 0 /\ r.id \in DOMAIN proc[u].was
  /\ proc[u].at = "rewrite" =>
       /\ JobOK(u, h)
       /\ \A i \in DOMAIN proc[u].was : ValIn(h.kept[i]) = Promised(proc[u], i)
  /\ proc[u].at \in {"big", "write"} =>
       /\ proc[u].rec \in Rec
       /\ proc[u].rec.big # None =>
            h.view[Overflow(proc[u].rec.big)].part = [val |-> proc[u].rec.val, nth |-> 1]
  /\ proc[u].at = "big" =>
       /\ proc[u].rec.big # None /\ proc[u].last \in Over /\ proc[u].nth \in Nat
       /\ h.own[Overflow(proc[u].last)] = Overflow(proc[u].rec.big)
       /\ h.view[Overflow(proc[u].last)] = BigPart(proc[u].rec.val, proc[u].nth)

Heap(h) ==
  /\ h.view \in [Place -> Block] /\ h.at \in [Ids -> Nat] /\ h.kept \in [Ids -> SUBSET Rec]
  /\ Chained(h.ptr, h.own, fileEnd) /\ h.ptr[FreePos] = freeChain
  /\ \A p \in Place : PlaceOK(p, h)
  /\ \A i \in Ids : IdOK(i, h)
  /\ \A u \in Users : HeldOK(u, h)

-----------------------------------------------------------------------------
(* What a step of a session leaves to show: the places and the ids it is    *)
(* about, and its own state.                                                *)

(* The places a session may touch.                                          *)
Touchable(u, q, h) ==
  \/ h.own[q] \in {0, Moving}
  \/ MyLock(u, h.own[q], TRUE) \in glock'
  \/ \E x \in {SrcPos(u), BigPos(u)} : h.ptr[x] # None /\ h.own[q] = Overflow(h.ptr[x])

(* The parts of big records that a step of u changes are its own, and it    *)
(* changes all of them.                                                     *)
PartsLeft(u, q, T, h, k) ==
  \/ h.view[q].part \in {NoPart, k.view[q].part}
  \/ /\ h.ptr[BigPos(u)] # None /\ h.own[q] = Overflow(h.ptr[BigPos(u)])
     /\ \A p \in Place : h.own[p] = h.own[q] => p \in T

LeftPlaces(u, T, h, k) ==
  /\ T \subseteq Place
  /\ \A q \in Place : q \notin T => /\ k.view[q] = h.view[q] /\ k.own[q] = h.own[q]
                                    /\ k.ptr[NextPos(q)] = h.ptr[NextPos(q)] /\ block'[q] = block[q]
  /\ \A q \in T : Touchable(u, q, h) /\ PartsLeft(u, q, T, h, k)
  /\ \A q \in InHand(proc[u]) : q \in T \/ q \in InHand(proc'[u])
  /\ proc[u].at = "big" => \/ Overflow(proc[u].last) \in T
                           \/ proc'[u].at = "big" /\ proc'[u].last = proc[u].last
  /\ \A g \in Groups : g \notin T /\ AbsentGroup(g)' => AbsentGroup(g)

LeftIds(u, T, I, h, k) ==
  /\ I \subseteq Ids
  /\ \A i \in Ids : i \notin I =>
       /\ k.kept[i] = h.kept[i] /\ k.at[i] = h.at[i] /\ k.ptr[RecPos(i)] = h.ptr[RecPos(i)]
       /\ h.kept[i] # {} => Home(i)' = Home(i)
       /\ h.kept[i] # {} /\ h.at[i] \in T =>
            k.own[h.at[i]] = h.own[h.at[i]] /\ h.kept[i] \subseteq RecsIn(k.view[h.at[i]].recs)
       /\ h.kept[i] # {} /\ h.at[i] \in Place /\ h.own[h.at[i]] = Moving
            /\ RestOf(proc[u]) # None /\ i \in DOMAIN proc[u].was =>
              RestOf(proc'[u]) # None /\ i \in DOMAIN proc'[u].was
  /\ \A i \in I : MyLock(u, Home(i)', TRUE) \in glock'
  /\ \A q \in Place : q \notin T => \A r \in RecsIn(h.view[q].recs) : r.id \notin I
  /\ \A r \in RecsIn(TodoOf(proc[u])) : r.id \in I \/ r \in RecsIn(TodoOf(proc'[u]))

LeftOthers(u, h, k) ==
  \A v \in Users : v # u =>
    /\ k.ptr[SrcPos(v)] = h.ptr[SrcPos(v)] /\ k.ptr[RestPos(v)] = h.ptr[RestPos(v)]
    /\ k.ptr[BigPos(v)] = h.ptr[BigPos(v)]

(* How a step of u stands with the group locks.                             *)
Orderly(u) ==
  /\ HashInv /\ HashInv' /\ MovesLocked(u)
  /\ \E p : proc' = [proc EXCEPT ![u] = p]
  /\ \A l : l.owner # u => (l \in glock' <=> l \in glock)
  /\ UNCHANGED <<modulus, modValue>> \/ \A v \in Users : v # u => ~Resizing(v)

LEMMA OrderlyIs ==
  ASSUME NEW u \in Users, Orderly(u)
  PROVE  /\ \A v \in Users : v # u => proc'[v] = proc[v]
         /\ \A v \in Users : v # u => \A g, w : MyLock(v, g, w) \in glock' <=> MyLock(v, g, w) \in glock
         /\ \A v \in Users : v # u => \A g, w : MyLock(u, g, TRUE) \in glock' => MyLock(v, g, w) \notin glock'
         /\ \A v \in Users, i \in Ids : v # u /\ proc[v].at = "rewrite" /\ i \in DOMAIN proc[v].was =>
              Home(i)' = Home(i) /\ MyLock(u, Home(i)', TRUE) \notin glock'
<1>1. \A v \in Users : v # u => proc'[v] = proc[v]
  BY DEF Orderly, HashInv
<1>2. \A v \in Users : v # u => \A g, w : MyLock(v, g, w) \in glock' <=> MyLock(v, g, w) \in glock
  BY DEF Orderly, MyLock
<1>3. \A v \in Users : v # u => \A g, w : MyLock(u, g, TRUE) \in glock' => MyLock(v, g, w) \notin glock'
  BY DEF Orderly, HashInv, LocksInv, MyLock
<1>4. ASSUME NEW v \in Users, NEW i \in Ids, v # u, proc[v].at = "rewrite", i \in DOMAIN proc[v].was
      PROVE  Home(i)' = Home(i) /\ MyLock(u, Home(i)', TRUE) \notin glock'
  <2>1. MyLock(v, Home(i)', TRUE) \in glock'
    BY <1>1, <1>4 DEF Orderly, HashInv, HomeOK
  <2>2. MyLock(u, Home(i)', TRUE) \notin glock'
    BY <1>3, <1>4, <2>1
  <2>3. QED
    BY <2>2 DEF Orderly, MovesLocked
<1>5. QED
  BY <1>1, <1>2, <1>3, <1>4

(* What is in the hands of a session is out of reach of the others.         *)
LEMMA HandsApart ==
  ASSUME NEW u \in Users, Orderly(u), NEW h, Heap(h), NEW q \in Place, Touchable(u, q, h),
         NEW v \in Users, v # u
  PROVE  q \notin InHand(proc[v])
<1>0. HeldOK(v, h) /\ Chained(h.ptr, h.own, fileEnd)
  BY DEF Heap
<1>1. ASSUME q \in Given(proc[v])
      PROVE  FALSE
  <2>1. q = Overflow(SrcOf(proc[v])) /\ SrcOf(proc[v]) # None
    BY <1>1 DEF Given
  <2>2. h.ptr[SrcPos(v)] = SrcOf(proc[v]) /\ SrcPos(v) \in Pos
    BY <1>0, PosIn DEF HeldOK
  <2>3. SrcOf(proc[v]) \in Over /\ h.own[q] = q
    BY <1>0, <2>1, <2>2, OwnIs, PtrIs
  <2>4. h.own[q] \notin {0, Moving}
    BY <2>1, <2>3, Owners
  <2>5. h.own[q] \notin Groups
    BY <2>1, <2>3, Owners
  <2>6. MyLock(u, h.own[q], TRUE) \notin glock'
    BY <2>5 DEF Orderly, HashInv, LocksInv, MyLock
  <2>7. PICK x \in {SrcPos(u), BigPos(u)} : h.ptr[x] # None /\ h.own[q] = Overflow(h.ptr[x])
    BY <2>4, <2>6 DEF Touchable
  <2>8. x \in Pos /\ x # SrcPos(v)
    BY PosIn, PosDiffer
  <2>9. h.ptr[x] \in Over
    BY <1>0, <2>7, <2>8, PtrIs
  <2>10. h.ptr[x] = SrcOf(proc[v])
    BY <2>1, <2>3, <2>7, <2>9, Places
  <2>11. QED
    BY <1>0, <2>2, <2>7, <2>8, <2>10, PtrIs
<1>2. ASSUME q \in Buffered(proc[v])
      PROVE  FALSE
  <2>1. proc[v].at = "rewrite" /\ \E t \in 1 .. Len(proc[v].job.to) : q = proc[v].job.to[t].at
    BY <1>2 DEF Buffered
  <2>2. h.own[q] \in Groups /\ MyLock(v, h.own[q], TRUE) \in glock
    BY <1>0, <2>1 DEF HeldOK, JobOK, BufferOK
  <2>3. MyLock(u, h.own[q], TRUE) \notin glock'
    <3>1. MyLock(v, h.own[q], TRUE) \in glock'
      BY <2>2, OrderlyIs
    <3>2. QED
      BY ZenonT(40), <3>1, OrderlyIs
  <2>4. h.own[q] \notin {0, Moving}
    BY <2>2, Owners
  <2>5. PICK x \in {SrcPos(u), BigPos(u)} : h.ptr[x] # None /\ h.own[q] = Overflow(h.ptr[x])
    BY <2>3, <2>4 DEF Touchable
  <2>6. h.ptr[x] \in Over
    BY <1>0, <2>5, PosIn, PtrIs
  <2>7. QED
    BY <2>2, <2>5, <2>6, Owners
<1>3. QED
  BY <1>1, <1>2 DEF InHand

LEMMA PartsStay ==
  ASSUME NEW u \in Users, NEW h, NEW k, Heap(h), Orderly(u), NEW T, LeftPlaces(u, T, h, k),
         NEW q \in Place, q \notin T
  PROVE  PartOK(q, k)'
<1>1. k.view[q] = h.view[q] /\ k.own[q] = h.own[q]
  BY DEF LeftPlaces
<1>2. SUFFICES ASSUME h.view[q].part # NoPart
               PROVE  PartOK(q, k)'
  BY <1>1 DEF PartOK
<1>3. PartOK(q, h) /\ h.ptr[NextPos(q)] = h.view[q].next /\ Chained(h.ptr, h.own, fileEnd)
  BY DEF Heap, PlaceOK
<1>4. Writing(q) => Writing(q)'
  <2>1. SUFFICES ASSUME NEW v \in Users, proc[v].at = "big", q = Overflow(proc[v].last)
                 PROVE  proc'[v].at = "big" /\ q = Overflow(proc'[v].last)
    BY DEF Writing
  <2>2. CASE v = u
    BY <2>1, <2>2 DEF LeftPlaces
  <2>3. CASE v # u
    BY <2>1, <2>3, OrderlyIs
  <2>4. QED
    BY <2>2, <2>3
<1>5. ASSUME h.view[q].next # None
      PROVE  k.view[Overflow(h.view[q].next)].part = h.view[Overflow(h.view[q].next)].part
  <2> DEFINE p == Overflow(h.view[q].next)
  <2>1. NextPos(q) \in Pos /\ h.view[q].next \in Over
    BY <1>3, <1>5, PosIn, PtrIs
  <2>2. p \in Place /\ h.own[p] = h.own[q]
    BY <1>3, <1>5, <2>1, OwnIs, Places
  <2>3. h.view[p].part # NoPart
    BY <1>2, <1>3, <1>5, FileConstants DEF PartOK, NoPart
  <2> HIDE DEF p
  <2>4. p \notin T => k.view[p].part = h.view[p].part
    BY <2>2 DEF LeftPlaces
  <2>5. ASSUME p \in T
        PROVE  k.view[p].part = h.view[p].part
    <3>1. PartsLeft(u, p, T, h, k)
      BY <2>5 DEF LeftPlaces
    <3>2. QED
      BY <2>2, <2>3, <3>1 DEF PartsLeft
  <2>6. QED
    BY <2>4, <2>5 DEF p
<1>6. QED
  BY <1>1, <1>2, <1>3, <1>4, <1>5 DEF PartOK

LEMMA PlacesStay ==
  ASSUME NEW u \in Users, NEW h, NEW k, Heap(h), Orderly(u), NEW T, NEW I,
         LeftPlaces(u, T, h, k), LeftIds(u, T, I, h, k),
         fileEnd \in Nat, fileEnd' \in Nat, fileEnd <= fileEnd',
         NEW q \in Place, q \notin T
  PROVE  PlaceOK(q, k)'
<1>1. /\ k.view[q] = h.view[q] /\ k.own[q] = h.own[q] /\ block'[q] = block[q]
      /\ k.ptr[NextPos(q)] = h.ptr[NextPos(q)]
  BY DEF LeftPlaces
<1>2. PlaceOK(q, h) /\ h.view \in [Place -> Block]
  BY DEF Heap
<1>3. ASSUME NEW r \in RecsIn(h.view[q].recs)
      PROVE  k.kept[r.id] = {r} /\ k.at[r.id] = q
  <2>1. h.view[q].recs \in Seq(Rec)
    BY <1>2, BlockType
  <2>2. r.id \in Ids
    BY <1>3, <2>1, SomeRecs DEF Rec
  <2>3. r.id \notin I
    BY <1>3 DEF LeftIds
  <2>4. k.kept[r.id] = h.kept[r.id] /\ k.at[r.id] = h.at[r.id]
    BY <2>2, <2>3 DEF LeftIds
  <2>5. QED
    BY <1>2, <1>3, <2>4 DEF PlaceOK
<1>4. ASSUME \A v \in Users : q \notin InHand(proc'[v])
      PROVE  block'[q] = k.view[q]
  <2>1. ASSUME NEW v \in Users
        PROVE  q \notin InHand(proc[v])
    <3>1. CASE v = u
      BY <1>4, <3>1 DEF LeftPlaces
    <3>2. CASE v # u
      BY <1>4, <3>2, OrderlyIs
    <3>3. QED
      BY <3>1, <3>2
  <2>2. QED
    BY <1>1, <1>2, <2>1 DEF PlaceOK
<1>5. ASSUME q \in Groups, AbsentGroup(q)'
      PROVE  k.view[q].recs = <<>> /\ k.view[q].next = None
  BY <1>1, <1>2, <1>5 DEF PlaceOK, LeftPlaces
<1>6. ASSUME q \notin Groups, OverflowNo(q) > fileEnd'
      PROVE  k.view[q] = Empty /\ k.own[q] = 0
  <2>1. OverflowNo(q) \in Nat
    BY <1>6, Places DEF Over
  <2>2. OverflowNo(q) > fileEnd
    BY <1>6, <2>1
  <2>3. QED
    BY <1>1, <1>2, <1>6, <2>2 DEF PlaceOK
<1>7. PartOK(q, k)'
  BY PartsStay
<1>8. QED
  BY <1>1, <1>2, <1>3, <1>4, <1>5, <1>6, <1>7 DEF PlaceOK

LEMMA IdsStay ==
  ASSUME NEW u \in Users, NEW h, NEW k, Heap(h), Orderly(u), NEW T, NEW I,
         LeftPlaces(u, T, h, k), LeftIds(u, T, I, h, k),
         NEW i \in Ids, i \notin I
  PROVE  IdOK(i, k)'
<1>1. /\ k.kept[i] = h.kept[i] /\ k.at[i] = h.at[i] /\ k.ptr[RecPos(i)] = h.ptr[RecPos(i)]
      /\ h.kept[i] # {} => Home(i)' = Home(i)
  BY DEF LeftIds
<1>2. IdOK(i, h) /\ Chained(h.ptr, h.own, fileEnd)
  BY DEF Heap
<1>3. SUFFICES ASSUME h.kept[i] # {}
               PROVE  IdOK(i, k)'
  BY <1>1, <1>2 DEF IdOK
<1>4. PICK r \in Rec : r.id = i /\ h.kept[i] = {r}
  BY <1>2, <1>3 DEF IdOK
<1>5. ASSUME r.big # None
      PROVE  k.view[Overflow(r.big)].part = [val |-> r.val, nth |-> 1]
  <2> DEFINE p == Overflow(r.big)
  <2>1. h.ptr[RecPos(i)] = r.big /\ RecPos(i) \in Pos
    BY <1>2, <1>4, PosIn DEF IdOK, OldBig
  <2>2. r.big \in Over /\ p \in Place /\ h.own[p] = p
    BY <1>2, <1>5, <2>1, PtrIs, OwnIs, Places
  <2>3. h.view[p].part = [val |-> r.val, nth |-> 1]
    BY <1>2, <1>4, <1>5 DEF IdOK
  <2>4. h.view[p].part # NoPart
    BY <2>3, FileConstants DEF NoPart, Rec
  <2> HIDE DEF p
  <2>5. ASSUME p \in T, k.view[p].part # h.view[p].part
        PROVE  FALSE
    <3>1. h.ptr[BigPos(u)] # None /\ h.own[p] = Overflow(h.ptr[BigPos(u)])
      BY <2>4, <2>5 DEF LeftPlaces, PartsLeft
    <3>2. BigPos(u) \in Pos /\ BigPos(u) # RecPos(i)
      BY PosIn, PosDiffer
    <3>3. h.ptr[BigPos(u)] \in Over
      BY <1>2, <3>1, <3>2, PtrIs
    <3>4. h.ptr[BigPos(u)] = r.big
      BY <2>2, <3>1, <3>3, Places DEF p
    <3>5. QED
      BY <1>2, <2>1, <3>1, <3>2, <3>4, PtrIs
  <2>6. k.view[p].part = h.view[p].part
    BY <2>2, <2>5 DEF LeftPlaces
  <2>7. QED
    BY <2>3, <2>6 DEF p
<1>6. CASE h.at[i] = 0
  <2>1. PICK v \in Users : h.kept[i] \subseteq RecsIn(TodoOf(proc[v]))
    BY <1>2, <1>3, <1>6 DEF IdOK
  <2>2. r \in RecsIn(TodoOf(proc[v]))
    BY <1>4, <2>1
  <2>3. r \in RecsIn(TodoOf(proc'[v]))
    <3>1. CASE v = u
      BY <1>4, <2>2, <3>1 DEF LeftIds
    <3>2. CASE v # u
      BY <2>2, <3>2, OrderlyIs
    <3>3. QED
      BY <3>1, <3>2
  <2>4. h.kept[i] \subseteq RecsIn(TodoOf(proc'[v]))
    BY <1>4, <2>3
  <2>5. QED
    BY <1>1, <1>2, <1>3, <1>4, <1>5, <1>6, <2>4 DEF IdOK
<1>7. CASE h.at[i] # 0
  <2>1. InPlace(i, h)
    BY <1>2, <1>3, <1>7 DEF IdOK
  <2> DEFINE p == h.at[i]
  <2>2. p \in Place /\ k.own[p] = h.own[p] /\ h.kept[i] \subseteq RecsIn(k.view[p].recs)
    BY <1>3, <2>1 DEF InPlace, LeftIds, LeftPlaces
  <2>3. ASSUME h.own[p] = Moving, NEW v \in Users, RestOf(proc[v]) # None, i \in DOMAIN proc[v].was
        PROVE  RestOf(proc'[v]) # None /\ i \in DOMAIN proc'[v].was
    <3>1. CASE v = u
      BY <1>3, <2>2, <2>3, <3>1 DEF LeftIds
    <3>2. CASE v # u
      BY <2>3, <3>2, OrderlyIs
    <3>3. QED
      BY <3>1, <3>2
  <2>4. \/ h.own[p] = Home(i)
        \/ h.own[p] = Moving /\ \E v \in Users : RestOf(proc[v]) # None /\ i \in DOMAIN proc[v].was
    BY <2>1 DEF InPlace
  <2>5. InPlace(i, k)'
    <3>1. CASE h.own[p] = Home(i)
      BY <1>1, <1>3, <2>2, <3>1 DEF InPlace
    <3>2. CASE h.own[p] = Moving /\ \E v \in Users : RestOf(proc[v]) # None /\ i \in DOMAIN proc[v].was
      <4>1. \E v \in Users : RestOf(proc'[v]) # None /\ i \in DOMAIN proc'[v].was
        BY <2>3, <3>2
      <4>2. QED
        BY <1>1, <2>2, <3>2, <4>1 DEF InPlace
    <3>3. QED
      BY <2>4, <3>1, <3>2
  <2>6. QED
    BY <1>1, <1>2, <1>3, <1>4, <1>5, <1>7, <2>5 DEF IdOK
<1>8. QED
  BY <1>6, <1>7

LEMMA HeldStay ==
  ASSUME NEW u \in Users, NEW h, NEW k, Heap(h), Orderly(u), NEW T, NEW I,
         LeftPlaces(u, T, h, k), LeftIds(u, T, I, h, k), LeftOthers(u, h, k),
         NEW v \in Users, v # u
  PROVE  HeldOK(v, k)'
<1>1. proc'[v] = proc[v] /\ \A g, w : MyLock(v, g, w) \in glock' <=> MyLock(v, g, w) \in glock
  BY OrderlyIs
<1>2. HeldOK(v, h) /\ Chained(h.ptr, h.own, fileEnd)
  BY DEF Heap
<1>3. /\ k.ptr[SrcPos(v)] = h.ptr[SrcPos(v)] /\ k.ptr[RestPos(v)] = h.ptr[RestPos(v)]
      /\ k.ptr[BigPos(v)] = h.ptr[BigPos(v)]
  BY DEF LeftOthers
<1>4. ASSUME NEW i \in Ids, proc[v].at = "rewrite", i \in DOMAIN proc[v].was
      PROVE  k.kept[i] = h.kept[i] /\ k.at[i] = h.at[i] /\ Home(i)' = Home(i)
  <2>1. Home(i)' = Home(i) /\ MyLock(u, Home(i)', TRUE) \notin glock'
    BY <1>4, OrderlyIs
  <2>2. i \notin I
    BY <2>1 DEF LeftIds
  <2>3. QED
    BY <2>1, <2>2 DEF LeftIds
<1>5. ASSUME NEW q \in Place, q \in InHand(proc[v])
      PROVE  k.view[q] = h.view[q] /\ k.own[q] = h.own[q]
  <2>1. q \notin T
    BY <1>5, HandsApart DEF LeftPlaces
  <2>2. QED
    BY <2>1 DEF LeftPlaces
<1>6. DistinctIds(TodoOf(proc'[v]))
  BY <1>1, <1>2 DEF HeldOK
<1>7. ASSUME NEW r \in RecsIn(TodoOf(proc'[v]))
      PROVE  k.kept[r.id] = {r} /\ k.at[r.id] = 0 /\ r.id \in DOMAIN proc'[v].was
  <2>1. r \in RecsIn(TodoOf(proc[v])) /\ h.kept[r.id] = {r} /\ h.at[r.id] = 0 /\ r.id \in DOMAIN proc[v].was
    BY <1>1, <1>2, <1>7 DEF HeldOK
  <2>2. proc[v].at = "rewrite"
    BY <2>1, NoRecs DEF TodoOf
  <2>3. r.id \in Ids
    BY <1>2, <2>1, <2>2 DEF HeldOK, JobOK
  <2>4. QED
    BY <1>1, <1>4, <2>1, <2>2, <2>3
<1>8. ASSUME proc[v].at = "rewrite"
      PROVE  JobOK(v, k)' /\ \A i \in DOMAIN proc'[v].was : ValIn(k.kept[i]) = Promised(proc'[v], i)
  <2>0. PICK job : job = proc[v].job
    OBVIOUS
  <2>1. JobOK(v, h) /\ \A i \in DOMAIN proc[v].was : ValIn(h.kept[i]) = Promised(proc[v], i)
    BY <1>2, <1>8 DEF HeldOK
  <2>2. job \in JobType /\ DOMAIN proc[v].was \subseteq Ids /\ Len(job.to) <= 2 /\ Len(job.to) \in Nat
    BY <2>0, <2>1 DEF JobOK, JobType
  <2>3. \A t \in 1 .. Len(job.to) : job.to[t].at \in Place /\ job.to[t].at \in InHand(proc[v])
    <3>1. \A t \in 1 .. Len(job.to) : job.to[t] \in [at : Place, blk : Block]
      <4>1. job.to \in Seq([at : Place, blk : Block])
        BY <2>2 DEF JobType
      <4>2. QED
        BY <4>1, ElementOfSeq
    <3>2. \A t \in 1 .. Len(job.to) : job.to[t].at \in InHand(proc[v])
      BY <1>8, <2>0 DEF InHand, Buffered
    <3>3. QED
      BY <3>1, <3>2
  <2>4. \A t \in 1 .. Len(job.to) : k.view[job.to[t].at] = h.view[job.to[t].at] /\ k.own[job.to[t].at] = h.own[job.to[t].at]
    BY <1>5, <2>3
  <2>5. ASSUME NEW t \in 1 .. Len(job.to)
        PROVE  BufferOK(v, job.to[t], k)'
    <3>1. BufferOK(v, job.to[t], h)
      BY <2>0, <2>1 DEF JobOK
    <3>2. QED
      BY <1>1, <2>4, <3>1 DEF BufferOK
  <2>6. ASSUME job.src # None
        PROVE  k.view[Overflow(job.src)] = Empty
    <3>1. job.src \in Over /\ Overflow(job.src) \in Place /\ Overflow(job.src) \in InHand(proc[v])
      BY <1>8, <2>0, <2>2, <2>6, Places DEF InHand, Given, SrcOf, JobType
    <3>2. QED
      BY <1>5, <2>0, <2>1, <2>6, <3>1 DEF JobOK
  <2>7. ASSUME NEW i \in DOMAIN proc[v].was, job.todo # <<>> \/ job.rest # None
        PROVE  Home(i)' = k.own[job.to[TargetOf(job, i)'].at]
    <3>1. Home(i) = h.own[job.to[TargetOf(job, i)].at] /\ i \in Ids /\ job.to # <<>>
          /\ (job.new # None => Len(job.to) = 2)
      BY <2>0, <2>1, <2>2, <2>7 DEF JobOK
    <3>2. TargetOf(job, i)' = TargetOf(job, i)
      <4>1. CASE job.new = None
        BY <4>1 DEF TargetOf
      <4>2. CASE job.new # None
        <5>1. Resizing(v)
          BY <1>8, <2>0, <2>1, <4>2 DEF JobOK, Resizing
        <5>2. HashGroup(i)' = HashGroup(i)
          BY <5>1 DEF Orderly, HashGroup
        <5>3. QED
          BY <5>2 DEF TargetOf
      <4>3. QED
        BY <4>1, <4>2
    <3>3. Len(job.to) # 0
      BY <2>2, <3>1, EmptySeq DEF JobType
    <3>4. TargetOf(job, i) \in 1 .. Len(job.to)
      BY <2>2, <3>1, <3>3 DEF TargetOf
    <3>5. Home(i)' = Home(i)
      BY <1>4, <1>8, <3>1
    <3>6. QED
      BY <2>4, <3>1, <3>2, <3>4, <3>5
  <2>8. Len(job.to) = 2 => k.own[job.to[1].at] # k.own[job.to[2].at]
    <3>1. Len(job.to) = 2 => 1 \in 1 .. Len(job.to) /\ 2 \in 1 .. Len(job.to)
      BY <2>2
    <3>2. QED
      BY <2>0, <2>1, <2>4, <3>1 DEF JobOK
  <2>9. JobOK(v, k)'
    BY <1>1, <2>0, <2>1, <2>5, <2>6, <2>7, <2>8 DEF JobOK
  <2>10. \A i \in DOMAIN proc'[v].was : ValIn(k.kept[i]) = Promised(proc'[v], i)
    BY <1>1, <1>4, <1>8, <2>1, <2>2
  <2>11. QED
    BY <2>9, <2>10
<1>9. ASSUME proc[v].at \in {"big", "write"}, proc[v].rec.big # None
      PROVE  k.view[Overflow(proc[v].rec.big)].part = [val |-> proc[v].rec.val, nth |-> 1]
  <2> DEFINE p == Overflow(proc[v].rec.big)
  <2>1. h.ptr[BigPos(v)] = proc[v].rec.big /\ BigPos(v) \in Pos
    BY <1>2, <1>9, PosIn DEF HeldOK, BigOf
  <2>2. proc[v].rec.big \in Over /\ p \in Place /\ h.own[p] = p
    BY <1>2, <1>9, <2>1, PtrIs, OwnIs, Places
  <2>3. h.view[p].part = [val |-> proc[v].rec.val, nth |-> 1]
    BY <1>2, <1>9 DEF HeldOK
  <2>4. h.view[p].part # NoPart
    BY <2>3 DEF NoPart
  <2> HIDE DEF p
  <2>5. ASSUME p \in T, k.view[p].part # h.view[p].part
        PROVE  FALSE
    <3>1. h.ptr[BigPos(u)] # None /\ h.own[p] = Overflow(h.ptr[BigPos(u)])
      BY <2>4, <2>5 DEF LeftPlaces, PartsLeft
    <3>2. BigPos(u) \in Pos /\ BigPos(u) # BigPos(v)
      BY PosIn, PosDiffer
    <3>3. h.ptr[BigPos(u)] \in Over
      BY <1>2, <3>1, <3>2, PtrIs
    <3>4. h.ptr[BigPos(u)] = proc[v].rec.big
      BY <2>2, <3>1, <3>3, Places DEF p
    <3>5. QED
      BY <1>2, <2>1, <3>1, <3>2, <3>4, PtrIs
  <2>6. k.view[p].part = h.view[p].part
    BY <2>2, <2>5 DEF LeftPlaces
  <2>7. QED
    BY <2>3, <2>6 DEF p
<1>10. ASSUME proc[v].at = "big"
       PROVE  /\ k.own[Overflow(proc[v].last)] = h.own[Overflow(proc[v].last)]
              /\ k.view[Overflow(proc[v].last)] = h.view[Overflow(proc[v].last)]
  <2> DEFINE q == Overflow(proc[v].last)
             m == proc[v].rec.big
  <2>1. m # None /\ proc[v].last \in Over /\ h.own[q] = Overflow(m) /\ h.ptr[BigPos(v)] = m
    BY <1>2, <1>10 DEF HeldOK, BigOf
  <2>2. m \in Over /\ q \in Place
    BY <1>2, <2>1, PtrIs, PosIn, Places
  <2> HIDE DEF q, m
  <2>3. ASSUME q \in T
        PROVE  FALSE
    <3>1. Touchable(u, q, h)
      BY <2>3 DEF LeftPlaces
    <3>2. h.own[q] \notin {0, Moving} /\ h.own[q] \notin Groups
      BY <2>1, <2>2, Owners
    <3>3. MyLock(u, h.own[q], TRUE) \notin glock'
      BY <3>2 DEF Orderly, HashInv, LocksInv, MyLock
    <3>4. PICK x \in {SrcPos(u), BigPos(u)} : h.ptr[x] # None /\ h.own[q] = Overflow(h.ptr[x])
      BY <3>1, <3>2, <3>3 DEF Touchable
    <3>5. x \in Pos /\ x # BigPos(v) /\ BigPos(v) \in Pos
      BY PosIn, PosDiffer
    <3>6. h.ptr[x] \in Over
      BY <1>2, <3>4, <3>5, PtrIs
    <3>7. h.ptr[x] = m
      BY <2>1, <2>2, <3>4, <3>6, Places
    <3>8. QED
      BY <1>2, <2>1, <3>4, <3>5, <3>7, PtrIs
  <2>4. QED
    BY <2>2, <2>3 DEF LeftPlaces, q
<1>11. QED
  BY <1>1, <1>2, <1>3, <1>6, <1>7, <1>8, <1>9, <1>10 DEF HeldOK

LEMMA HeapStep ==
  ASSUME NEW u \in Users, NEW h, NEW k, Heap(h), Orderly(u), NEW T, NEW I,
         LeftPlaces(u, T, h, k), LeftIds(u, T, I, h, k), LeftOthers(u, h, k),
         fileEnd <= fileEnd',
         k.view \in [Place -> Block], k.at \in [Ids -> Nat], k.kept \in [Ids -> SUBSET Rec],
         Chained(k.ptr, k.own, fileEnd'), k.ptr[FreePos] = freeChain',
         \A q \in T : PlaceOK(q, k)', \A i \in I : IdOK(i, k)', HeldOK(u, k)'
  PROVE  Heap(k)'
<1>1. fileEnd \in Nat /\ fileEnd' \in Nat
  BY PtrIs DEF Heap
<1>2. \A q \in Place : PlaceOK(q, k)'
  BY <1>1, PlacesStay
<1>3. \A i \in Ids : IdOK(i, k)'
  BY IdsStay
<1>4. \A v \in Users : HeldOK(v, k)'
  BY HeldStay
<1>5. QED
  BY <1>2, <1>3, <1>4 DEF Heap

-----------------------------------------------------------------------------
(* Every step keeps order.                                                  *)

LEMMA OthersLocks ==
  ASSUME NEW u \in Users,
         \/ UNCHANGED glock
         \/ glock' = LocksLeft(u)
         \/ \E g, w : glock' = glock \cup {MyLock(u, g, w)}
         \/ \E g, m : glock' = glock \cup {MyLock(u, g, TRUE), MyLock(u, m, TRUE)}
  PROVE  \A l : l.owner # u => (l \in glock' <=> l \in glock)
BY DEF LocksLeft, MyLock

Steps(u) ==
  \/ Read(u) \/ ReadGroup(u)
  \/ Write(u) \/ WriteBig(u) \/ MoreBig(u) \/ WriteAfterBig(u) \/ Delete(u)
  \/ Working(u) \/ FreeLocks(u) \/ FreeBig(u) \/ Account(u)
  \/ Resize(u) \/ ResizeOff(u) \/ SplitStart(u) \/ SplitSource(u) \/ MergeStart(u)
  \/ Release(u) \/ Select(u) \/ SelectGroup(u) \/ SelectEnd(u)

LEMMA NextSteps == Next <=> \E u \in Users : Steps(u)
BY DEF Next, Steps, Working

LEMMA StepGoes ==
  ASSUME NEW u \in Users, Steps(u)
  PROVE  /\ \E p : Goes(u, p)
         /\ \/ UNCHANGED glock
            \/ glock' = LocksLeft(u)
            \/ \E g, w : glock' = glock \cup {MyLock(u, g, w)}
            \/ \E g, m : glock' = glock \cup {MyLock(u, g, TRUE), MyLock(u, m, TRUE)}
         /\ UNCHANGED <<modulus, modValue>> \/ SplitStart(u) \/ MergeStart(u)
<1>1. CASE Read(u)
  BY <1>1, Zenon DEF Read, header
<1>2. CASE ReadGroup(u) \/ FreeLocks(u)
  BY <1>2, Zenon DEF ReadGroup, FreeLocks, header
<1>3. CASE Write(u) \/ WriteAfterBig(u)
  <2>1. PICK r : LockToWrite(u, r)
    BY <1>3, Zenon DEF Write, WriteAfterBig
  <2>2. QED
    BY <2>1, Zenon DEF LockToWrite, Rewrite
<1>4. CASE Delete(u)
  BY <1>4, Zenon DEF Delete, Rewrite
<1>5. CASE WriteBig(u) \/ MoreBig(u)
  BY <1>5, Zenon DEF WriteBig, MoreBig, header
<1>6. CASE Working(u)
  BY <1>6, WorkingIs, Zenon DEF Works, header
<1>7. CASE FreeBig(u) \/ Account(u) \/ Resize(u) \/ ResizeOff(u)
  BY <1>7, Zenon DEF FreeBig, Account, Resize, ResizeOff, header
<1>8. CASE SplitStart(u) \/ SplitSource(u) \/ MergeStart(u)
  BY <1>8, Zenon DEF SplitStart, SplitSource, MergeStart, Rewrite, header
<1>9. CASE Release(u) \/ Select(u) \/ SelectGroup(u) \/ SelectEnd(u)
  BY <1>9, Zenon DEF Release, Select, SelectGroup, SelectEnd, header
<1>10. QED
  BY <1>1, <1>2, <1>3, <1>4, <1>5, <1>6, <1>7, <1>8, <1>9 DEF Steps

LEMMA StepOrderly ==
  ASSUME HashInv, NEW u \in Users, Steps(u)
  PROVE  Orderly(u)
<1>1. HashInv' /\ MovesLocked(u)
  BY ReadStep, ReadGroupStep, WriteStep, WriteBigStep, MoreBigStep, WriteAfterBigStep,
     DeleteStep, WorksStep, FreeLocksStep, FreeBigStep, AccountStep, ResizeStep, ResizeOffStep, SplitStartStep,
     SplitSourceStep, MergeStartStep, ReleaseStep, SelectStep, SelectGroupStep, SelectEndStep DEF Steps
<1>2. \E p : proc' = [proc EXCEPT ![u] = p]
  BY StepGoes DEF Goes
<1>3. \A l : l.owner # u => (l \in glock' <=> l \in glock)
  BY StepGoes, OthersLocks
<1>4. UNCHANGED <<modulus, modValue>> \/ \A v \in Users : v # u => ~Resizing(v)
  BY StepGoes, NobodyHolds DEF SplitStart, MergeStart
<1>5. QED
  BY <1>1, <1>2, <1>3, <1>4 DEF Orderly

-----------------------------------------------------------------------------
(* Steps that leave the heap alone.                                         *)

LEMMA HeapSame ==
  ASSUME NEW u \in Users, NEW h, Heap(h), Orderly(u), UNCHANGED file,
         \A i \in Ids : Home(i)' = Home(i), \A g \in Groups : AbsentGroup(g)' => AbsentGroup(g),
         SrcOf(proc[u]) = None, RestOf(proc[u]) = None, TodoOf(proc[u]) = <<>>, Buffered(proc[u]) = {},
         proc[u].at # "big", proc'[u].at \notin {"rewrite", "big", "write"},
         BigOf(proc'[u]) = BigOf(proc[u])
  PROVE  Heap(h)'
<1>1. fileEnd \in Nat /\ UNCHANGED <<block, fileEnd, freeChain>>
  BY PtrIs DEF Heap, file
<1>2. InHand(proc[u]) = {} /\ RecsIn(TodoOf(proc[u])) = {}
  BY NoRecs DEF InHand, Given
<1>3. LeftPlaces(u, {}, h, h)
  BY <1>1, <1>2 DEF LeftPlaces
<1>4. LeftIds(u, {}, {}, h, h)
  BY <1>2 DEF LeftIds
<1>5. LeftOthers(u, h, h)
  BY DEF LeftOthers
<1>6. HeldOK(u, h)'
  <2>1. SrcOf(proc'[u]) = None /\ RestOf(proc'[u]) = None /\ TodoOf(proc'[u]) = <<>>
    BY DEF SrcOf, RestOf, TodoOf
  <2>2. HeldOK(u, h)
    BY DEF Heap
  <2>3. QED
    BY <2>1, <2>2, NoRecs DEF HeldOK
<1>7. fileEnd <= fileEnd' /\ Chained(h.ptr, h.own, fileEnd') /\ h.ptr[FreePos] = freeChain'
  BY <1>1 DEF Heap
<1>8. h.view \in [Place -> Block] /\ h.at \in [Ids -> Nat] /\ h.kept \in [Ids -> SUBSET Rec]
  BY DEF Heap
<1>9. QED
  BY <1>3, <1>4, <1>5, <1>6, <1>7, <1>8, HeapStep

LEMMA HeapFrame ==
  ASSUME NEW u \in Users, NEW h, Heap(h), Orderly(u), UNCHANGED <<file, modulus, modValue>>,
         proc[u].at \notin {"rewrite", "big", "write", "tidy", "source"},
         proc'[u].at \notin {"rewrite", "big", "write", "tidy", "source"}
  PROVE  Heap(h)'
<1>1. proc = [v \in Users |-> proc[v]] /\ \A v \in Users : v # u => proc'[v] = proc[v]
  BY OrderlyIs DEF Orderly, HashInv
<1>2. PICK p : proc' = [proc EXCEPT ![u] = p]
  BY DEF Orderly
<1>3. p.at # "source"
  BY <1>1, <1>2
<1>4. \A i \in Ids : Home(i)' = Home(i)
  BY <1>1, <1>2, <1>3, HomesSame
<1>5. \A g \in Groups : AbsentGroup(g)' => AbsentGroup(g)
  BY <1>1 DEF AbsentGroup
<1>6. /\ SrcOf(proc[u]) = None /\ RestOf(proc[u]) = None /\ TodoOf(proc[u]) = <<>>
      /\ Buffered(proc[u]) = {} /\ BigOf(proc'[u]) = None /\ BigOf(proc[u]) = None
  BY DEF SrcOf, RestOf, TodoOf, Buffered, BigOf
<1>7. QED
  BY <1>4, <1>5, <1>6, HeapSame

LEMMA FrameHeap ==
  ASSUME HashInv, NEW u \in Users, NEW h, Heap(h),
         \/ Read(u) \/ ReadGroup(u) \/ Account(u) \/ Resize(u) \/ ResizeOff(u) \/ Release(u)
         \/ Select(u) \/ SelectGroup(u) \/ SelectEnd(u)
  PROVE  Heap(h)'
<1>1. Orderly(u)
  BY StepOrderly DEF Steps
<1>2. UNCHANGED <<file, modulus, modValue>>
  BY DEF Read, ReadGroup, Account, Resize, ResizeOff, Release, Select, SelectGroup, SelectEnd, header
<1>3. proc[u].at \notin {"rewrite", "big", "write", "tidy", "source"}
  BY DEF Read, ReadGroup, Account, Resize, ResizeOff, Release, Select, SelectGroup, SelectEnd
<1>4. proc = [v \in Users |-> proc[v]] /\ SessionOK(u)
  BY DEF HashInv
<1>5. CASE SelectGroup(u)
  <2>1. proc[u].at = "select" /\ \E a, b, c : Goes(u, [proc[u] EXCEPT !.picked = a, !.group = b, !.bytes = c])
    BY <1>5, Zenon DEF SelectGroup
  <2>2. proc'[u].at = "select"
    BY <1>4, <2>1 DEF Goes, SessionOK, Shape
  <2>3. QED
    BY <1>1, <1>2, <1>3, <2>2, HeapFrame
<1>6. CASE Read(u)
  <2>1. proc'[u].at = "read"
    BY <1>4, <1>6 DEF Read, Goes
  <2>2. QED
    BY <1>1, <1>2, <1>3, <2>1, HeapFrame
<1>7. CASE Select(u)
  <2>1. proc'[u].at = "select"
    BY <1>4, <1>7 DEF Select, Goes
  <2>2. QED
    BY <1>1, <1>2, <1>3, <2>1, HeapFrame
<1>8. CASE ReadGroup(u) \/ Account(u) \/ Resize(u) \/ ResizeOff(u) \/ Release(u) \/ SelectEnd(u)
  <2>1. \E a \in {"idle", "resize", "split", "merge"} : Goes(u, [at |-> a])
    BY <1>8 DEF ReadGroup, Account, Resize, ResizeOff, Release, SelectEnd
  <2>2. proc'[u].at \in {"idle", "resize", "split", "merge"}
    BY <1>4, <2>1 DEF Goes
  <2>3. QED
    BY <1>1, <1>2, <1>3, <2>2, HeapFrame
<1>9. QED
  BY <1>5, <1>6, <1>7, <1>8

LEMMA FreeLocksHeap ==
  ASSUME HashInv, NEW u \in Users, NEW h, Heap(h), FreeLocks(u)
  PROVE  Heap(h)'
<1>1. Orderly(u)
  BY StepOrderly DEF Steps
<1>2. /\ proc[u].at = "rewrite" /\ proc[u].job.to = <<>> /\ UNCHANGED <<file, modulus, modValue>>
      /\ proc' = [proc EXCEPT ![u] = proc[u].then]
  BY DEF FreeLocks, Job, Goes, header
<1>3. JobOK(u, h)
  BY <1>2 DEF Heap, HeldOK
<1>4. proc[u].job.todo = <<>> /\ proc[u].job.rest = None /\ proc[u].job.src = None
  BY <1>2, <1>3 DEF JobOK
<1>5. proc = [v \in Users |-> proc[v]] /\ proc'[u] = proc[u].then /\ \A v \in Users : v # u => proc'[v] = proc[v]
  BY <1>2 DEF HashInv
<1>6. proc[u].then.at = "tidy" \/ proc[u].then = [at |-> "release"]
  BY <1>2 DEF HashInv, SessionOK, Shape
<1>7. \A i \in Ids : Home(i)' = Home(i)
  BY <1>2, <1>5, <1>6, HomesSame
<1>8. \A g \in Groups : AbsentGroup(g)' => AbsentGroup(g)
  BY <1>2, <1>5, <1>6 DEF AbsentGroup
<1>9. /\ SrcOf(proc[u]) = None /\ RestOf(proc[u]) = None /\ TodoOf(proc[u]) = <<>>
      /\ Buffered(proc[u]) = {} /\ BigOf(proc'[u]) = BigOf(proc[u])
  BY <1>2, <1>4, <1>5, <1>6 DEF SrcOf, RestOf, TodoOf, Buffered, BigOf
<1>10. proc[u].at # "big" /\ proc'[u].at \notin {"rewrite", "big", "write"}
  BY <1>2, <1>5, <1>6
<1>11. QED
  BY <1>1, <1>2, <1>7, <1>8, <1>9, <1>10, HeapSame

LEMMA SplitStartHeap ==
  ASSUME HashInv, NEW u \in Users, NEW h, Heap(h), SplitStart(u)
  PROVE  Heap(h)'
<1>1. Orderly(u) /\ \A i \in Ids : Home(i)' = Home(i)
  BY StepOrderly, SplitStartStep DEF Steps
<1>2. /\ proc[u].at = "split" /\ UNCHANGED file /\ modulus' = modulus + 1
      /\ \E g : Goes(u, [at |-> "source", new |-> modulus + 1, group |-> g])
  BY DEF SplitStart
<1>3. proc'[u].at = "source" /\ proc'[u].new = modulus + 1 /\ \A v \in Users : v # u => proc'[v] = proc[v]
  BY <1>2 DEF Goes, HashInv
<1>4. modulus \in Int
  BY DEF HashInv, HeaderInv, HeaderOK
<1>5. \A g \in Groups : AbsentGroup(g)' => AbsentGroup(g)
  BY <1>2, <1>3, <1>4, FileConstants DEF AbsentGroup, Groups
<1>6. /\ SrcOf(proc[u]) = None /\ RestOf(proc[u]) = None /\ TodoOf(proc[u]) = <<>>
      /\ Buffered(proc[u]) = {} /\ BigOf(proc'[u]) = BigOf(proc[u])
  BY <1>2, <1>3 DEF SrcOf, RestOf, TodoOf, Buffered, BigOf
<1>7. QED
  BY <1>1, <1>2, <1>3, <1>5, <1>6, HeapSame

-----------------------------------------------------------------------------
(* What there is on the disk.                                               *)

WriteLocked(g) == \E v \in Users : MyLock(v, g, TRUE) \in glock

(* A place that no session has in hand is on the disk as it is to be.       *)
LEMMA OnDisk ==
  ASSUME NEW h, Heap(h), NEW p \in Place,
         h.own[p] \in Groups => ~WriteLocked(h.own[p]),
         \A v \in Users : SrcOf(proc[v]) # None => p # Overflow(SrcOf(proc[v]))
  PROVE  block[p] = h.view[p]
<1>1. ASSUME NEW v \in Users
      PROVE  p \notin InHand(proc[v])
  <2>1. HeldOK(v, h)
    BY DEF Heap
  <2>2. ASSUME proc[v].at = "rewrite", NEW t \in 1 .. Len(proc[v].job.to), p = proc[v].job.to[t].at
        PROVE  FALSE
    <3>1. BufferOK(v, proc[v].job.to[t], h)
      BY <2>1, <2>2 DEF HeldOK, JobOK
    <3>2. QED
      BY <2>2, <3>1 DEF BufferOK, WriteLocked
  <2>3. p \notin Buffered(proc[v])
    BY <2>2 DEF Buffered
  <2>4. QED
    BY <2>3 DEF InHand, Given
<1>2. PlaceOK(p, h)
  BY DEF Heap
<1>3. QED
  BY <1>1, <1>2 DEF PlaceOK

(* The source block of a session is its own.                                *)
LEMMA SrcOwn ==
  ASSUME NEW h, Heap(h), NEW v \in Users, SrcOf(proc[v]) # None
  PROVE  /\ SrcOf(proc[v]) \in Over /\ SrcOf(proc[v]) <= fileEnd
         /\ h.own[Overflow(SrcOf(proc[v]))] = Overflow(SrcOf(proc[v]))
         /\ h.ptr[SrcPos(v)] = SrcOf(proc[v])
<1>1. h.ptr[SrcPos(v)] = SrcOf(proc[v]) /\ Chained(h.ptr, h.own, fileEnd) /\ SrcPos(v) \in Pos
  BY PosIn DEF Heap, HeldOK
<1>2. QED
  BY <1>1, PtrIs, OwnIs

(* A group nobody is writing is on the disk.                                *)
LEMMA OnDiskGroup ==
  ASSUME NEW h, Heap(h), NEW g \in Groups, ~WriteLocked(g)
  PROVE  /\ \A p \in Place : h.own[p] = g => block[p] = h.view[p]
         /\ Sane(h.view, g, h.ptr, h.own, h.at, h.kept)
         /\ Sane(block, g, h.ptr, h.own, h.at, h.kept)
<1>1. ASSUME NEW p \in Place, h.own[p] = g
      PROVE  block[p] = h.view[p]
  <2>1. \A v \in Users : SrcOf(proc[v]) # None => p # Overflow(SrcOf(proc[v]))
    BY <1>1, SrcOwn, Owners
  <2>2. QED
    BY <1>1, <2>1, OnDisk
<1>2. Sane(h.view, g, h.ptr, h.own, h.at, h.kept)
  BY DEF Heap, PlaceOK, Sane
<1>3. QED
  BY <1>1, <1>2 DEF Sane

(* So is the free chain, and a big record whose blocks nobody frees.        *)
LEMMA OnDiskFree ==
  ASSUME NEW h, Heap(h), NEW p \in Place, h.own[p] = 0
  PROVE  block[p] = h.view[p]
<1>1. \A v \in Users : SrcOf(proc[v]) # None => p # Overflow(SrcOf(proc[v]))
  BY SrcOwn, Owners
<1>2. QED
  BY <1>1, OnDisk, Owners

LEMMA OnDiskMoving ==
  ASSUME NEW h, Heap(h), NEW p \in Place, h.own[p] = Moving
  PROVE  block[p] = h.view[p]
<1>1. \A v \in Users : SrcOf(proc[v]) # None => p # Overflow(SrcOf(proc[v]))
  BY SrcOwn, Owners
<1>2. QED
  BY <1>1, OnDisk, Owners

LEMMA OnDiskBig ==
  ASSUME NEW h, Heap(h), NEW x \in Pos, h.ptr[x] # None, \A v \in Users : x # SrcPos(v),
         NEW p \in Place, h.own[p] = Overflow(h.ptr[x])
  PROVE  block[p] = h.view[p]
<1>0. Chained(h.ptr, h.own, fileEnd)
  BY DEF Heap
<1>1. h.ptr[x] \in Over
  BY <1>0, PtrIs
<1>2. ASSUME NEW v \in Users, SrcOf(proc[v]) # None, p = Overflow(SrcOf(proc[v]))
      PROVE  FALSE
  <2>1. /\ SrcOf(proc[v]) \in Over /\ h.own[p] = Overflow(SrcOf(proc[v])) /\ h.ptr[SrcPos(v)] = SrcOf(proc[v])
        /\ SrcPos(v) \in Pos
    BY <1>2, SrcOwn, PosIn
  <2>2. SrcOf(proc[v]) = h.ptr[x]
    BY <1>1, <2>1, Places
  <2>3. QED
    BY <1>0, <1>2, <2>1, <2>2, PtrIs
<1>3. h.own[p] \notin Groups
  BY <1>1, Owners
<1>4. QED
  BY <1>2, <1>3, OnDisk

-----------------------------------------------------------------------------
(* The chain of an owner is all the owner has.                              *)

OnlyHead(c, head, h) ==
  \A x \in Pos : h.ptr[x] # None /\ h.own[Overflow(h.ptr[x])] = c /\ x # head =>
    \E o \in Over : o <= fileEnd /\ h.own[Overflow(o)] = c /\ x = NextPos(Overflow(o))

LEMMA HeadOnly ==
  ASSUME NEW h, Heap(h), NEW c, NEW head,
         \A x \in Pos : h.ptr[x] # None /\ h.own[Overflow(h.ptr[x])] = c
                          /\ (\A p \in Place : p \notin Groups => x # NextPos(p)) => x = head
  PROVE  OnlyHead(c, head, h)
<1>1. SUFFICES ASSUME NEW x \in Pos, h.ptr[x] # None, h.own[Overflow(h.ptr[x])] = c, x # head
               PROVE  \E o \in Over : o <= fileEnd /\ h.own[Overflow(o)] = c /\ x = NextPos(Overflow(o))
  BY DEF OnlyHead
<1>2. PICK p \in Place : p \notin Groups /\ x = NextPos(p)
  BY <1>1
<1>3. Chained(h.ptr, h.own, fileEnd) /\ PlaceOK(p, h)
  BY DEF Heap
<1>4. OverflowNo(p) \in Over /\ Overflow(OverflowNo(p)) = p
  BY <1>2, Places
<1>5. h.own[p] = c
  BY <1>1, <1>2, <1>3, OwnIs
<1>6. OverflowNo(p) <= fileEnd
  <2>1. SUFFICES ASSUME ~(OverflowNo(p) <= fileEnd)
                 PROVE  FALSE
    OBVIOUS
  <2>2. fileEnd \in Int /\ OverflowNo(p) \in Int
    BY <1>3, <1>4, PtrIs DEF Over
  <2>3. h.view[p] = Empty
    BY <1>2, <1>3, <2>1, <2>2 DEF PlaceOK
  <2>4. QED
    BY <1>1, <1>2, <1>3, <2>3 DEF PlaceOK, Empty
<1>7. QED
  BY <1>2, <1>4, <1>5, <1>6

(* What a position that is not in a block says of the owner.                *)
LEMMA HeadOwner ==
  ASSUME NEW h, Heap(h), NEW x \in Pos, h.ptr[x] # None,
         \A p \in Place : p \notin Groups => x # NextPos(p)
  PROVE  \/ x = FreePos /\ h.own[Overflow(h.ptr[x])] = 0
         \/ \E g \in Groups : x = NextPos(Primary(g)) /\ h.own[Overflow(h.ptr[x])] = g
         \/ (\E v \in Users : x = RestPos(v)) /\ h.own[Overflow(h.ptr[x])] = Moving
         \/ h.own[Overflow(h.ptr[x])] = Overflow(h.ptr[x])
<1>1. Chained(h.ptr, h.own, fileEnd)
  BY DEF Heap
<1>2. CASE \E p \in Place : x = NextPos(p)
  <2>1. PICK p \in Place : x = NextPos(p)
    BY <1>2
  <2>2. p \in Groups /\ Primary(p) = p /\ h.own[p] = p
    BY <1>1, <2>1, Places, PtrIs
  <2>3. QED
    BY <1>1, <2>1, <2>2, OwnIs
<1>3. CASE ~\E p \in Place : x = NextPos(p)
  BY <1>1, <1>3, PosIs, OwnIs
<1>4. QED
  BY <1>2, <1>3

LEMMA GroupHead ==
  ASSUME NEW h, Heap(h), NEW g \in Groups
  PROVE  OnlyHead(g, NextPos(Primary(g)), h)
<1>1. ASSUME NEW x \in Pos, h.ptr[x] # None, h.own[Overflow(h.ptr[x])] = g,
             \A p \in Place : p \notin Groups => x # NextPos(p)
      PROVE  x = NextPos(Primary(g))
  <2>1. h.ptr[x] \in Over
    BY <1>1, PtrIs DEF Heap
  <2>2. QED
    BY <1>1, <2>1, HeadOwner, Owners
<1>2. QED
  BY <1>1, HeadOnly

LEMMA FreeHead ==
  ASSUME NEW h, Heap(h)
  PROVE  OnlyHead(0, FreePos, h)
<1>1. ASSUME NEW x \in Pos, h.ptr[x] # None, h.own[Overflow(h.ptr[x])] = 0,
             \A p \in Place : p \notin Groups => x # NextPos(p)
      PROVE  x = FreePos
  <2>1. h.ptr[x] \in Over
    BY <1>1, PtrIs DEF Heap
  <2>2. QED
    BY <1>1, <2>1, HeadOwner, Owners
<1>2. QED
  BY <1>1, HeadOnly

LEMMA OwnHead ==
  ASSUME NEW h, Heap(h), NEW y \in Pos, h.ptr[y] # None,
         h.own[Overflow(h.ptr[y])] = Overflow(h.ptr[y])
  PROVE  OnlyHead(Overflow(h.ptr[y]), y, h)
<1>0. Chained(h.ptr, h.own, fileEnd)
  BY DEF Heap
<1>1. ASSUME NEW x \in Pos, h.ptr[x] # None, h.own[Overflow(h.ptr[x])] = Overflow(h.ptr[y]),
             \A p \in Place : p \notin Groups => x # NextPos(p)
      PROVE  x = y
  <2>1. h.ptr[x] \in Over /\ h.ptr[y] \in Over
    BY <1>0, <1>1, PtrIs
  <2>2. h.own[Overflow(h.ptr[x])] = Overflow(h.ptr[x])
    BY <1>1, <2>1, HeadOwner, Owners
  <2>3. h.ptr[x] = h.ptr[y]
    BY <1>1, <2>1, <2>2, Places
  <2>4. QED
    BY <1>0, <1>1, <2>3, PtrIs
<1>2. QED
  BY <1>1, HeadOnly

LEMMA RestHead ==
  ASSUME HashInv, NEW h, Heap(h), NEW u \in Users, RestOf(proc[u]) # None
  PROVE  OnlyHead(Moving, RestPos(u), h)
<1>0. ASSUME NEW v \in Users, RestOf(proc[v]) # None
      PROVE  Resizing(v)
  <2>1. proc[v].at = "rewrite" /\ proc[v].job.rest # None
    BY <1>0 DEF RestOf
  <2>2. proc[v].then.at = "release"
    BY <2>1 DEF Heap, HeldOK, JobOK
  <2>3. QED
    BY <2>1, <2>2 DEF Resizing
<1>1. ASSUME NEW x \in Pos, h.ptr[x] # None, h.own[Overflow(h.ptr[x])] = Moving,
             \A p \in Place : p \notin Groups => x # NextPos(p)
      PROVE  x = RestPos(u)
  <2>1. h.ptr[x] \in Over
    BY <1>1, PtrIs DEF Heap
  <2>2. PICK v \in Users : x = RestPos(v)
    BY <1>1, <2>1, HeadOwner, Owners
  <2>3. RestOf(proc[v]) # None
    BY <1>1, <2>2 DEF Heap, HeldOK
  <2>4. v = u
    BY <1>0, <2>3 DEF HashInv, OneResizes
  <2>5. QED
    BY <2>2, <2>4
<1>2. QED
  BY <1>1, HeadOnly

(* The chain from a head, as it is followed in a file that has the blocks   *)
(* of its owner right, is all there is of that owner.                       *)
LEMMA WholeChain ==
  ASSUME NEW h, Heap(h), NEW c, NEW head \in Pos, OnlyHead(c, head, h),
         h.ptr[head] # None => h.own[Overflow(h.ptr[head])] = c,
         NEW b \in [Place -> Block], \A p \in Place : h.own[p] = c => b[p].next = h.view[p].next
  PROVE  /\ Followed(h.ptr, h.own, fileEnd, c, ChainFrom(b, h.ptr[head]))
         /\ \A o \in Over : o <= fileEnd /\ h.own[Overflow(o)] = c => o \in Elems(ChainFrom(b, h.ptr[head]))
         /\ IF h.ptr[head] = None THEN ChainFrom(b, h.ptr[head]) = <<>>
            ELSE ChainFrom(b, h.ptr[head]) # <<>> /\ ChainFrom(b, h.ptr[head])[1] = h.ptr[head]
<1> DEFINE s == ChainFrom(b, h.ptr[head])
<1>1. Chained(h.ptr, h.own, fileEnd) /\ \A p \in Place : h.view[p].next = h.ptr[NextPos(p)]
  BY DEF Heap, PlaceOK
<1>2. h.ptr[head] \in Over \cup {None} /\ (h.ptr[head] # None => h.ptr[head] <= fileEnd)
  BY <1>1, PtrIs
<1>3. \A p \in Place : h.own[p] = c => b[p].next = h.ptr[NextPos(p)]
  BY <1>1
<1>4. /\ Followed(h.ptr, h.own, fileEnd, c, s)
      /\ IF h.ptr[head] = None THEN s = <<>> ELSE s # <<>> /\ s[1] = h.ptr[head]
  <2>1. PICK o \in Over \cup {None} : o = h.ptr[head]
    BY <1>2
  <2>2. o # None => o <= fileEnd /\ h.own[Overflow(o)] = c
    BY <1>2, <2>1
  <2>3. /\ Followed(h.ptr, h.own, fileEnd, c, ChainFrom(b, o))
        /\ IF o = None THEN ChainFrom(b, o) = <<>>
           ELSE ChainFrom(b, o) # <<>> /\ ChainFrom(b, o)[1] = o
    BY <1>1, <1>3, <2>2, ChainIs
  <2>4. QED
    BY <2>1, <2>3
<1> HIDE DEF s
<1>5. \A o \in Over : o <= fileEnd /\ h.own[Overflow(o)] = c => \E j \in 1 .. Len(s) : s[j] = o
  BY <1>1, <1>4, ChainAll DEF OnlyHead
<1>6. QED
  BY <1>4, <1>5 DEF Elems, s

-----------------------------------------------------------------------------
(* A group a session looks for an id in is in the file.                     *)
LEMMA HomePresent ==
  ASSUME HashInv, NEW i \in Ids
  PROVE  Home(i) \in Groups /\ Home(i) \in 1 .. modulus /\ ~AbsentGroup(Home(i))
<1>1. HashGroup(i) \in 1 .. modulus /\ HashGroup(i) \in Groups
  BY HashInFile DEF HashInv
<1>2. CASE Movers(i) = {}
  <2>1. Home(i) = HashGroup(i)
    BY <1>2, HomeIs
  <2>2. modulus \in Int
    BY DEF HashInv, HeaderInv, HeaderOK
  <2>3. ~(Home(i) > modulus)
    BY <1>1, <2>1, <2>2
  <2>4. QED
    BY <1>1, <1>2, <2>1, <2>3 DEF AbsentGroup, Movers
<1>3. CASE Movers(i) # {}
  <2>1. PICK v \in Movers(i) : Home(i) = proc[v].group
    BY <1>3, HomeIs
  <2>2. /\ v \in Users /\ proc[v].at = "source" /\ proc[v].new = modulus
        /\ proc[v].group = modulus - modValue \div 2
    BY <2>1 DEF Movers, HashInv, SessionOK
  <2>3. modulus - modValue \div 2 \in 1 .. modulus - 1 /\ modulus \in Nat /\ modulus <= MaxModulus
    <3>1. HeaderOK(modulus, modValue) /\ modulus <= MaxModulus
      BY DEF HashInv, HeaderInv
    <3>2. modulus > 1
      BY <2>2 DEF HashInv, SessionOK
    <3>4. modValue > 1 /\ modValue \div 2 \in Nat \ {0} /\ modValue = 2 * (modValue \div 2)
      BY <3>1, <3>2, HalfPower DEF HeaderOK
    <3>3. QED
      BY <3>1, <3>2, <3>4 DEF HeaderOK
  <2>4. ASSUME NEW w \in Users, proc[w].at = "source"
        PROVE  proc[w].new = modulus
    BY <2>4 DEF HashInv, SessionOK
  <2>5. QED
    BY <2>1, <2>2, <2>3, <2>4, FileConstants DEF AbsentGroup, Groups
<1>4. QED
  BY <1>2, <1>3

(* What a session that rewrites a group keeps to.                           *)
WorkOK(u, job, h) ==
  /\ job \in JobType /\ Len(job.to) <= 2
  /\ \A t \in 1 .. Len(job.to) : BufferOK(u, job.to[t], h)
  /\ Len(job.to) = 2 => h.own[job.to[1].at] # h.own[job.to[2].at]
  /\ job.src # None => h.view[Overflow(job.src)] = Empty
  /\ job.pack => Len(job.to) <= 1 /\ job.src = None /\ job.rest = None /\ job.new = None
  /\ job.rest # None \/ job.new # None => proc[u].then.at = "release"
  /\ job.todo # <<>> \/ job.rest # None \/ job.src # None => job.to # <<>>
  /\ job.todo # <<>> \/ job.rest # None =>
       /\ job.new # None => Len(job.to) = 2
       /\ ~job.pack => \A t \in 1 .. Len(job.to) : job.to[t].blk.next = None
       /\ \A i \in DOMAIN proc[u].was : Home(i) = h.own[job.to[TargetOf(job, i)].at]

WorkHand(job) ==
  {job.to[t].at : t \in 1 .. Len(job.to)} \cup IF job.src = None THEN {} ELSE {Overflow(job.src)}

(* What a step of u that leaves it with job makes of place q, ...           *)
NewPlace(u, q, job, h, k) ==
  /\ Touchable(u, q, h) /\ h.view[q].part = NoPart /\ k.view[q].part = NoPart
  /\ k.ptr[NextPos(q)] = k.view[q].next /\ DistinctIds(k.view[q].recs)
  /\ \A r \in RecsIn(k.view[q].recs) : k.kept[r.id] = {r} /\ k.at[r.id] = q
  /\ block'[q] = k.view[q] \/ q \in WorkHand(job)
  /\ q \in Groups /\ AbsentGroup(q) => k.view[q].recs = <<>> /\ k.view[q].next = None
  /\ q \notin Groups => OverflowNo(q) <= fileEnd'

SamePlace(q, h, k) ==
  /\ k.view[q] = h.view[q] /\ k.own[q] = h.own[q]
  /\ k.ptr[NextPos(q)] = h.ptr[NextPos(q)] /\ block'[q] = block[q]

(* ... of the id i, ...                                                     *)
NewId(u, i, job, h, k) ==
  /\ i \in DOMAIN proc[u].was
  /\ h.kept[i] # {} =>
       \/ k.at[i] = 0 /\ h.kept[i] \subseteq RecsIn(job.todo)
       \/ /\ k.at[i] \in Place /\ k.own[k.at[i]] = Home(i)
          /\ h.kept[i] \subseteq RecsIn(k.view[k.at[i]].recs)

SameId(u, i, T, job, h, k) ==
  /\ k.at[i] = h.at[i]
  /\ h.kept[i] # {} /\ h.at[i] \in T =>
       k.own[h.at[i]] = h.own[h.at[i]] /\ h.kept[i] \subseteq RecsIn(k.view[h.at[i]].recs)
  /\ h.kept[i] # {} /\ h.at[i] \in Place /\ h.own[h.at[i]] = Moving
       /\ RestOf(proc[u]) # None /\ i \in DOMAIN proc[u].was => job.rest # None

(* ... and of the pointers.                                                 *)
SamePtr(u, h, k) ==
  \A x \in Pos : x \notin {FreePos, SrcPos(u), RestPos(u)} /\ (\A p \in Place : x # NextPos(p)) =>
    k.ptr[x] = h.ptr[x]

LEMMA WorkIs ==
  ASSUME HashInv, NEW u \in Users, NEW h, Heap(h), Working(u), NEW job, Works(u, job)
  PROVE  /\ Orderly(u) /\ proc[u].at = "rewrite" /\ UNCHANGED <<modulus, modValue, glock>>
         /\ proc'[u] = [at |-> "rewrite", was |-> proc[u].was, put |-> proc[u].put,
                        then |-> proc[u].then, job |-> job]
         /\ proc'[u].at = "rewrite" /\ proc'[u].job = job /\ proc'[u].was = proc[u].was
         /\ proc'[u].put = proc[u].put /\ proc'[u].then = proc[u].then
         /\ \A v \in Users : v # u => proc'[v] = proc[v]
         /\ \A i \in Ids : Home(i)' = Home(i) /\ HashGroup(i)' = HashGroup(i)
         /\ \A g : AbsentGroup(g)' <=> AbsentGroup(g)
         /\ DOMAIN proc[u].was \subseteq Ids /\ WorkOK(u, proc[u].job, h)
         /\ \A i \in Ids : i \in DOMAIN proc[u].was <=> MyLock(u, Home(i), TRUE) \in glock
<1>1. Orderly(u) /\ \A i \in Ids : Home(i)' = Home(i)
  BY StepOrderly, WorksStep DEF Steps
<1>2. proc[u].at = "rewrite" /\ UNCHANGED <<modulus, modValue, glock>>
  BY WorkingIs DEF header
<1>3. /\ proc = [v \in Users |-> proc[v]] /\ proc' = [proc EXCEPT ![u] = [proc[u] EXCEPT !.job = job]]
      /\ proc[u] = [at |-> "rewrite", was |-> proc[u].was, put |-> proc[u].put,
                    then |-> proc[u].then, job |-> proc[u].job]
  BY <1>2 DEF HashInv, SessionOK, Shape, Works, Goes
<1>4. /\ proc'[u] = [at |-> "rewrite", was |-> proc[u].was, put |-> proc[u].put,
                     then |-> proc[u].then, job |-> job]
      /\ \A v \in Users : v # u => proc'[v] = proc[v]
  <2> DEFINE p == [proc[u] EXCEPT !.job = job]
  <2>1. p = [at |-> "rewrite", was |-> proc[u].was, put |-> proc[u].put,
             then |-> proc[u].then, job |-> job]
    BY <1>3
  <2> HIDE DEF p
  <2>2. proc' = [proc EXCEPT ![u] = p]
    BY <1>3 DEF p
  <2>3. proc'[u] = p /\ \A v \in Users : v # u => proc'[v] = proc[v]
    BY <1>3, <2>2
  <2>4. QED
    BY <2>1, <2>3
<1>5. \A i \in Ids : HashGroup(i)' = HashGroup(i)
  BY <1>2 DEF HashGroup
<1>6. \A g : AbsentGroup(g)' <=> AbsentGroup(g)
  <2>1. proc'[u].at = "rewrite"
    BY <1>4
  <2>2. QED
    BY <1>2, <1>4, <2>1 DEF AbsentGroup
<1>7. DOMAIN proc[u].was \subseteq Ids /\ WorkOK(u, proc[u].job, h)
  <2>1. JobOK(u, h)
    BY <1>2 DEF Heap, HeldOK
  <2>2. QED
    BY <2>1 DEF JobOK, WorkOK
<1>8. \A i \in Ids : i \in DOMAIN proc[u].was <=> MyLock(u, Home(i), TRUE) \in glock
  BY <1>2 DEF HashInv, HomeOK
<1>9. /\ proc'[u].at = "rewrite" /\ proc'[u].job = job /\ proc'[u].was = proc[u].was
      /\ proc'[u].put = proc[u].put /\ proc'[u].then = proc[u].then
  BY <1>4
<1>10. QED
  BY <1>1, <1>2, <1>4, <1>5, <1>6, <1>7, <1>8, <1>9

LEMMA WorkHeld ==
  ASSUME HashInv, NEW u \in Users, NEW h, NEW k, Heap(h), Working(u), NEW job, Works(u, job),
         k.kept = h.kept, SamePtr(u, h, k),
         k.ptr[SrcPos(u)] = job.src, k.ptr[RestPos(u)] = job.rest, WorkOK(u, job, k),
         DistinctIds(job.todo),
         \A r \in RecsIn(job.todo) : k.kept[r.id] = {r} /\ k.at[r.id] = 0 /\ r.id \in DOMAIN proc[u].was
  PROVE  HeldOK(u, k)'
<1>1. /\ proc'[u] = [at |-> "rewrite", was |-> proc[u].was, put |-> proc[u].put,
                     then |-> proc[u].then, job |-> job]
      /\ UNCHANGED glock /\ \A i \in Ids : Home(i)' = Home(i) /\ HashGroup(i)' = HashGroup(i)
      /\ DOMAIN proc[u].was \subseteq Ids
      /\ proc[u].at = "rewrite"
  BY WorkIs
<1>2. /\ proc'[u].at = "rewrite" /\ proc'[u].was = proc[u].was /\ proc'[u].put = proc[u].put
      /\ proc'[u].then = proc[u].then /\ proc'[u].job = job
  BY <1>1
<1>3. JobOK(u, k)'
  <2>1. \A i \in DOMAIN proc[u].was : Home(i)' = Home(i) /\ TargetOf(job, i)' = TargetOf(job, i)
    BY <1>1 DEF TargetOf
  <2>2. \A b : BufferOK(u, b, k)' <=> BufferOK(u, b, k)
    BY <1>1 DEF BufferOK
  <2>3. QED
    BY <1>1, <1>2, <2>1, <2>2 DEF JobOK, WorkOK
<1>4. HeldOK(u, h)
  BY DEF Heap
<1>5. \A i \in DOMAIN proc[u].was : ValIn(k.kept[i]) = Promised(proc'[u], i)
  <2>1. \A i \in DOMAIN proc[u].was : ValIn(k.kept[i]) = Promised(proc[u], i)
    BY <1>1, <1>4 DEF HeldOK
  <2>2. \A i : Promised(proc'[u], i) = Promised(proc[u], i)
    <3>1. PICK p, q : p = proc[u] /\ q = proc'[u]
      OBVIOUS
    <3>2. q.put = p.put /\ q.was = p.was
      BY <1>2, <3>1
    <3>3. \A i : Promised(q, i) = Promised(p, i)
      BY <3>2 DEF Promised
    <3>4. QED
      BY <3>1, <3>3
  <2>3. QED
    BY <2>1, <2>2
<1>6. SrcOf(proc'[u]) = job.src /\ RestOf(proc'[u]) = job.rest /\ TodoOf(proc'[u]) = job.todo
  BY <1>2 DEF SrcOf, RestOf, TodoOf
<1>7. k.ptr[BigPos(u)] = BigOf(proc'[u])
  <2>1. BigPos(u) \in Pos /\ BigPos(u) \notin {FreePos, SrcPos(u), RestPos(u)} /\ \A p \in Place : BigPos(u) # NextPos(p)
    BY PosIn, PosDiffer
  <2>2. k.ptr[BigPos(u)] = h.ptr[BigPos(u)]
    BY <2>1 DEF SamePtr
  <2>3. QED
    BY <1>1, <1>2, <1>4, <2>2 DEF HeldOK, BigOf
<1>8. QED
  BY <1>2, <1>3, <1>5, <1>6, <1>7 DEF HeldOK

LEMMA WorkPlaces ==
  ASSUME HashInv, NEW u \in Users, NEW h, NEW k, Heap(h), Working(u), NEW job, Works(u, job),
         NEW q \in Place, NewPlace(u, q, job, h, k), fileEnd' \in Int
  PROVE  PlaceOK(q, k)'
<1>1. /\ proc'[u].at = "rewrite" /\ proc'[u].job = job /\ \A g : AbsentGroup(g)' <=> AbsentGroup(g)
  BY WorkIs
<1>2. q \in WorkHand(job) => q \in InHand(proc'[u])
  BY <1>1 DEF WorkHand, InHand, Buffered, Given, SrcOf
<1>3. (\A v \in Users : q \notin InHand(proc'[v])) => block'[q] = k.view[q]
  BY <1>2 DEF NewPlace
<1>4. q \notin Groups => ~(OverflowNo(q) > fileEnd')
  <2>2. q \notin Groups => OverflowNo(q) \in Int
    BY Places DEF Over
  <2>3. QED
    BY <2>2 DEF NewPlace
<1>5. PartOK(q, k)'
  BY DEF NewPlace, PartOK
<1>6. QED
  BY <1>1, <1>3, <1>4, <1>5 DEF NewPlace, PlaceOK

LEMMA WorkIds ==
  ASSUME HashInv, NEW u \in Users, NEW h, NEW k, Heap(h), Working(u), NEW job, Works(u, job),
         k.kept = h.kept, SamePtr(u, h, k), NEW T \in SUBSET Place,
         \A q \in T : NewPlace(u, q, job, h, k), \A q \in Place : q \notin T => SamePlace(q, h, k),
         NEW i \in Ids, NewId(u, i, job, h, k)
  PROVE  IdOK(i, k)'
<1>1. /\ proc'[u].at = "rewrite" /\ proc'[u].job = job /\ Home(i)' = Home(i)
  BY WorkIs
<1>2. IdOK(i, h) /\ Chained(h.ptr, h.own, fileEnd)
  BY DEF Heap
<1>3. k.ptr[RecPos(i)] = h.ptr[RecPos(i)]
  BY PosIn, PosDiffer DEF SamePtr
<1>4. ASSUME NEW r \in h.kept[i], r.big # None
      PROVE  k.view[Overflow(r.big)].part = [val |-> r.val, nth |-> 1]
  <2>1. h.kept[i] = {r} /\ r.big = h.ptr[RecPos(i)] /\ h.view[Overflow(r.big)].part = [val |-> r.val, nth |-> 1]
    <3>1. h.kept[i] = {r}
      BY <1>2, <1>4 DEF IdOK
    <3>2. OldBig({r}) = r.big
      BY DEF OldBig
    <3>3. QED
      BY <1>2, <1>4, <3>1, <3>2 DEF IdOK
  <2>2. Overflow(r.big) \in Place
    BY <1>2, <1>4, <2>1, PosIn, PtrIs, Places
  <2>3. h.view[Overflow(r.big)].part # NoPart
    <3>1. h.view[Overflow(r.big)].part.nth = 1 /\ NoPart.nth = 0
      BY <2>1 DEF NoPart
    <3>2. QED
      BY <3>1
  <2>4. SamePlace(Overflow(r.big), h, k)
    BY <2>2, <2>3 DEF NewPlace
  <2>5. QED
    BY <2>1, <2>4 DEF SamePlace
<1>5. ASSUME h.kept[i] # {}
      PROVE  IF k.at[i] = 0 THEN \E v \in Users : k.kept[i] \subseteq RecsIn(TodoOf(proc'[v]))
             ELSE InPlace(i, k)'
  <2>1. CASE k.at[i] = 0 /\ h.kept[i] \subseteq RecsIn(job.todo)
    <3>1. TodoOf(proc'[u]) = job.todo
      BY <1>1 DEF TodoOf
    <3>2. QED
      BY <2>1, <3>1
  <2>2. CASE k.at[i] \in Place /\ k.own[k.at[i]] = Home(i) /\ h.kept[i] \subseteq RecsIn(k.view[k.at[i]].recs)
    <3>1. k.at[i] # 0
      BY <2>2, FileConstants DEF Place
    <3>2. QED
      BY <1>1, <2>2, <3>1 DEF InPlace
  <2>3. QED
    BY <1>5, <2>1, <2>2 DEF NewId
<1>6. QED
  BY <1>2, <1>3, <1>4, <1>5 DEF IdOK

LEMMA WorkHeap ==
  ASSUME HashInv, NEW u \in Users, NEW h, NEW k, Heap(h), Working(u), NEW job, Works(u, job),
         NEW T \in SUBSET Place, NEW I \in SUBSET Ids,
         k.view \in [Place -> Block], k.at \in [Ids -> Nat], k.kept = h.kept,
         fileEnd <= fileEnd', Chained(k.ptr, k.own, fileEnd'), k.ptr[FreePos] = freeChain',
         SamePtr(u, h, k), k.ptr[SrcPos(u)] = job.src, k.ptr[RestPos(u)] = job.rest,
         \A q \in T : NewPlace(u, q, job, h, k), \A q \in Place : q \notin T => SamePlace(q, h, k),
         WorkHand(proc[u].job) \subseteq T \cup WorkHand(job),
         \A i \in I : NewId(u, i, job, h, k), \A i \in Ids : i \notin I => SameId(u, i, T, job, h, k),
         \A q \in Place : q \notin T => \A r \in RecsIn(h.view[q].recs) : r.id \notin I,
         \A r \in RecsIn(proc[u].job.todo) : r.id \in I \/ r \in RecsIn(job.todo),
         WorkOK(u, job, k), DistinctIds(job.todo),
         \A r \in RecsIn(job.todo) : k.kept[r.id] = {r} /\ k.at[r.id] = 0 /\ r.id \in DOMAIN proc[u].was
  PROVE  Heap(k)'
<1>1. /\ Orderly(u) /\ proc[u].at = "rewrite" /\ proc'[u].at = "rewrite" /\ proc'[u].job = job
      /\ proc'[u].was = proc[u].was /\ UNCHANGED glock
      /\ (\A i \in Ids : Home(i)' = Home(i)) /\ \A g : AbsentGroup(g)' <=> AbsentGroup(g)
  BY WorkIs
<1>2. HeldOK(u, k)' /\ (\A q \in T : PlaceOK(q, k)') /\ \A i \in I : IdOK(i, k)'
  <2>1. fileEnd' \in Int
    BY PtrIs
  <2>2. QED
    BY <2>1, WorkHeld, WorkPlaces, WorkIds
<1>3. LeftPlaces(u, T, h, k)
  <2>1. \A q \in T : Touchable(u, q, h) /\ PartsLeft(u, q, T, h, k)
    BY DEF NewPlace, PartsLeft
  <2>2. InHand(proc[u]) = WorkHand(proc[u].job) /\ InHand(proc'[u]) = WorkHand(job)
    BY <1>1 DEF InHand, Buffered, Given, SrcOf, WorkHand
  <2>3. QED
    BY <1>1, <2>1, <2>2 DEF LeftPlaces, SamePlace
<1>4. LeftIds(u, T, I, h, k)
  <2>1. RestOf(proc'[u]) = job.rest /\ TodoOf(proc[u]) = proc[u].job.todo /\ TodoOf(proc'[u]) = job.todo
    BY <1>1 DEF RestOf, TodoOf
  <2>2. \A i \in Ids : k.ptr[RecPos(i)] = h.ptr[RecPos(i)]
    BY PosIn, PosDiffer DEF SamePtr
  <2>3. ASSUME NEW i \in I
        PROVE  MyLock(u, Home(i)', TRUE) \in glock'
    <3>1. i \in Ids /\ i \in DOMAIN proc[u].was
      BY DEF NewId
    <3>2. MyLock(u, Home(i), TRUE) \in glock
      BY <3>1, WorkIs
    <3>3. QED
      BY <1>1, <3>1, <3>2
  <2>4. \A i \in Ids : i \notin I =>
       /\ k.kept[i] = h.kept[i] /\ k.at[i] = h.at[i] /\ k.ptr[RecPos(i)] = h.ptr[RecPos(i)]
       /\ h.kept[i] # {} => Home(i)' = Home(i)
       /\ h.kept[i] # {} /\ h.at[i] \in T =>
            k.own[h.at[i]] = h.own[h.at[i]] /\ h.kept[i] \subseteq RecsIn(k.view[h.at[i]].recs)
       /\ h.kept[i] # {} /\ h.at[i] \in Place /\ h.own[h.at[i]] = Moving
            /\ RestOf(proc[u]) # None /\ i \in DOMAIN proc[u].was =>
              RestOf(proc'[u]) # None /\ i \in DOMAIN proc'[u].was
    BY <1>1, <2>1, <2>2 DEF SameId
  <2>5. QED
    BY <2>1, <2>3, <2>4 DEF LeftIds
<1>5. LeftOthers(u, h, k)
  BY PosIn, PosDiffer DEF SamePtr, LeftOthers
<1>6. k.kept \in [Ids -> SUBSET Rec]
  BY DEF Heap
<1>7. QED
  BY <1>1, <1>2, <1>3, <1>4, <1>5, <1>6, HeapStep

-----------------------------------------------------------------------------
(* The steps of a session that rewrites a group.                            *)

(* A block of a group has no part of a big record.                          *)
LEMMA GroupPlace ==
  ASSUME NEW h, Heap(h), NEW p \in Place, h.own[p] \in Groups \cup {Moving}
  PROVE  /\ h.view[p].part = NoPart /\ h.ptr[NextPos(p)] = h.view[p].next /\ DistinctIds(h.view[p].recs)
         /\ \A r \in RecsIn(h.view[p].recs) : h.kept[r.id] = {r} /\ h.at[r.id] = p
         /\ p \notin Groups => OverflowNo(p) <= fileEnd
         /\ p \in Groups => h.own[p] = p
         /\ p \in Groups /\ AbsentGroup(p) => h.view[p].recs = <<>> /\ h.view[p].next = None
         /\ h.view[p].recs \in Seq(Rec) /\ h.view[p].next \in Over \cup {None}
         /\ h.view[p] = BlockOf(h.view[p].recs, h.view[p].next)
<1>1. PlaceOK(p, h) /\ Chained(h.ptr, h.own, fileEnd) /\ h.view \in [Place -> Block]
  BY DEF Heap
<1>2. h.own[p] # 0 /\ h.own[p] \notin {Overflow(o) : o \in Over}
  BY Owners
<1>3. h.view[p].part = NoPart
  BY <1>1, <1>2 DEF PlaceOK, PartOK
<1>4. p \notin Groups => OverflowNo(p) <= fileEnd
  <2>1. p \notin Groups => OverflowNo(p) \in Int /\ fileEnd \in Int
    BY <1>1, PtrIs, Places DEF Over
  <2>2. QED
    BY <1>1, <1>2, <2>1 DEF PlaceOK
<1>5. p \in Groups => h.own[p] = p
  BY <1>1, PtrIs, Places
<1>6. h.view[p].recs \in Seq(Rec) /\ h.view[p].next \in Over \cup {None}
  BY <1>1, BlockType
<1>7. h.view[p] = BlockOf(h.view[p].recs, h.view[p].next)
  <2>1. h.view[p] \in Block
    BY <1>1
  <2>2. QED
    BY <1>3, <2>1 DEF Block, BlockOf
<1>8. QED
  BY <1>1, <1>3, <1>4, <1>5, <1>6, <1>7 DEF PlaceOK

LEMMA BufferIs ==
  ASSUME NEW u \in Users, NEW h, Heap(h), NEW job, WorkOK(u, job, h), NEW t \in 1 .. Len(job.to),
         UNCHANGED glock
  PROVE  /\ job.to \in Seq([at : Place, blk : Block]) /\ job.to[t] \in [at : Place, blk : Block]
         /\ job.to[t].at \in Place /\ job.to[t].blk \in Block
         /\ h.view[job.to[t].at] = job.to[t].blk /\ h.own[job.to[t].at] \in Groups
         /\ Touchable(u, job.to[t].at, h) /\ MyLock(u, h.own[job.to[t].at], TRUE) \in glock
<1>1. job.to \in Seq([at : Place, blk : Block])
  BY DEF WorkOK, JobType
<1>2. job.to[t] \in [at : Place, blk : Block]
  BY <1>1, ElementOfSeq
<1>3. BufferOK(u, job.to[t], h)
  BY DEF WorkOK
<1>4. QED
  BY <1>1, <1>2, <1>3 DEF BufferOK, Touchable

(* A place that a step leaves as it is but for what is on the disk.         *)
LEMMA WritePlace ==
  ASSUME NEW u \in Users, NEW h, Heap(h), NEW q \in Place, h.own[q] \in Groups, Touchable(u, q, h),
         NEW job, block'[q] = h.view[q] \/ q \in WorkHand(job), UNCHANGED fileEnd
  PROVE  NewPlace(u, q, job, h, h)
BY ZenonT(40), GroupPlace DEF NewPlace

(* The first of some buffers, and the others.                               *)
LEMMA TailIs ==
  ASSUME NEW S, NEW s \in Seq(S), s # <<>>
  PROVE  /\ Tail(s) \in Seq(S) /\ Len(Tail(s)) = Len(s) - 1 /\ Len(s) \in Nat \ {0} /\ Len(Tail(s)) \in Nat
         /\ \A t \in 1 .. Len(Tail(s)) : t + 1 \in 1 .. Len(s) /\ Tail(s)[t] = s[t + 1]
         /\ \A t \in 1 .. Len(s) : t = 1 \/ (t - 1 \in 1 .. Len(Tail(s)) /\ Tail(s)[t - 1] = s[t])
OBVIOUS

LEMMA WriteBlockHeap ==
  ASSUME HashInv, NEW u \in Users, NEW h, Heap(h), block \in [Place -> Block], WriteBlock(u)
  PROVE  Heap(h)'
<1>0. PICK job : job = proc[u].job
  OBVIOUS
<1> DEFINE new == [job EXCEPT !.to = Tail(@)]
           q == job.to[1].at
<1>1. /\ job.todo = <<>> /\ job.src = None /\ job.rest = None /\ job.to # <<>>
      /\ block' = [block EXCEPT ![q] = job.to[1].blk] /\ UNCHANGED <<fileEnd, freeChain>>
      /\ Works(u, new)
  BY <1>0 DEF WriteBlock, Copied, Job, Cur
<1>2. Working(u) /\ WorkOK(u, job, h) /\ UNCHANGED glock
  BY <1>0, <1>1, WorkIs DEF Working
<1>3. job \in JobType
  BY <1>2 DEF WorkOK
<1>4. /\ new.to = Tail(job.to) /\ new.pack = job.pack /\ new.todo = <<>> /\ new.src = None /\ new.rest = None
      /\ new.new = job.new /\ new \in JobType
  <2>1. Tail(job.to) \in Seq([at : Place, blk : Block])
    BY <1>1, <1>3, TailIs DEF JobType
  <2>2. QED
    BY <1>1, <1>3, <2>1 DEF JobType
<1>5. 1 \in 1 .. Len(job.to) /\ job.to \in Seq([at : Place, blk : Block])
  BY <1>1, <1>3, TailIs DEF JobType
<1>6. q \in Place /\ h.view[q] = job.to[1].blk /\ h.own[q] \in Groups /\ Touchable(u, q, h)
  <2>1. ASSUME NEW t \in 1 .. Len(job.to)
        PROVE  /\ job.to[t].at \in Place /\ h.own[job.to[t].at] \in Groups
               /\ h.view[job.to[t].at] = job.to[t].blk /\ Touchable(u, job.to[t].at, h)
    <3>1. WorkOK(u, job, h) /\ UNCHANGED glock /\ Heap(h)
      BY <1>2
    <3>2. job.to[t].at \in Place
      BY <3>1, BufferIs
    <3>3. h.own[job.to[t].at] \in Groups
      BY <3>1, BufferIs
    <3>4. h.view[job.to[t].at] = job.to[t].blk
      BY <3>1 DEF WorkOK, BufferOK
    <3>5. MyLock(u, h.own[job.to[t].at], TRUE) \in glock
      BY <3>1, BufferIs
    <3>6. QED
      BY <3>1, <3>2, <3>3, <3>4, <3>5 DEF Touchable
  <2>2. QED
    BY <1>5, <2>1
<1>7. block'[q] = h.view[q] /\ \A p \in Place : p # q => block'[p] = block[p]
  <2>1. block \in [Place -> Block]
    OBVIOUS
  <2>2. QED
    BY <1>1, <1>6, <2>1
<1> HIDE DEF new, q
<1>8. NewPlace(u, q, new, h, h)
  BY <1>1, <1>6, <1>7, WritePlace
<1>9. \A p \in Place : p \notin {q} => SamePlace(p, h, h)
  BY <1>7 DEF SamePlace
<1>10. WorkHand(job) \subseteq {q} \cup WorkHand(new)
  <2>1. ASSUME NEW t \in 1 .. Len(job.to), t # 1
        PROVE  job.to[t].at \in WorkHand(new)
    <3>3. PICK s \in Seq([at : Place, blk : Block]) : s = job.to
      BY <1>5
    <3>4. s # <<>> /\ t \in 1 .. Len(s) /\ t # 1
      BY <1>1, <2>1, <3>3
    <3>5. t - 1 \in 1 .. Len(Tail(s)) /\ Tail(s)[t - 1] = s[t]
      BY <3>4, TailIs
    <3>1. t - 1 \in 1 .. Len(Tail(job.to)) /\ Tail(job.to)[t - 1] = job.to[t]
      BY <3>3, <3>5
    <3>2. QED
      BY <1>4, <3>1 DEF WorkHand
  <2>2. QED
    BY <1>1, <2>1 DEF WorkHand, q
<1>11. WorkOK(u, new, h)
  <2>1. \A t \in 1 .. Len(new.to) : \E j \in 1 .. Len(job.to) : new.to[t] = job.to[j]
    <3>1. PICK s \in Seq([at : Place, blk : Block]) : s = job.to
      BY <1>5
    <3>2. s # <<>> /\ new.to = Tail(s)
      BY <1>1, <1>4, <3>1
    <3>3. \A t \in 1 .. Len(Tail(s)) : t + 1 \in 1 .. Len(s) /\ Tail(s)[t] = s[t + 1]
      BY <3>2, TailIs
    <3>4. QED
      BY <3>1, <3>2, <3>3
  <2>6. Len(new.to) = Len(job.to) - 1 /\ Len(new.to) \in Nat
    <3>1. PICK s \in Seq([at : Place, blk : Block]) : s = job.to
      BY <1>5
    <3>2. s # <<>> /\ new.to = Tail(s)
      BY <1>1, <1>4, <3>1
    <3>3. Len(Tail(s)) = Len(s) - 1 /\ Len(Tail(s)) \in Nat
      BY <3>2, TailIs
    <3>4. QED
      BY <3>1, <3>2, <3>3
  <2>2. Len(job.to) \in Nat /\ Len(job.to) <= 2
    BY <1>2, <1>5, LenProperties DEF WorkOK
  <2>3. Len(new.to) <= 2 /\ Len(new.to) # 2
    <3>1. PICK n \in Int, m \in Int : n = Len(new.to) /\ m = Len(job.to)
      BY <2>2, <2>6
    <3>2. n = m - 1 /\ m <= 2
      BY <2>2, <2>6, <3>1
    <3>3. n <= 2 /\ n # 2
      BY <3>2
    <3>4. QED
      BY <3>1, <3>3
  <2>5. ASSUME NEW t \in 1 .. Len(new.to)
        PROVE  BufferOK(u, new.to[t], h)
    BY <1>2, <2>1 DEF WorkOK
  <2>4. QED
    BY <1>2, <1>4, <2>1, <2>2, <2>3, <2>5 DEF WorkOK
<1>12. \A i \in Ids : SameId(u, i, {q}, new, h, h)
  <2>1. RestOf(proc[u]) = None
    BY <1>0, <1>1, <1>2, WorkIs DEF RestOf
  <2>2. \A i \in Ids : h.kept[i] # {} /\ h.at[i] = q => h.kept[i] \subseteq RecsIn(h.view[q].recs)
    <3>1. q # 0
      BY <1>6, FileConstants DEF Place
    <3>2. QED
      BY <3>1 DEF Heap, IdOK, InPlace
  <2>3. QED
    BY <2>1, <2>2 DEF SameId
<1>13. h.ptr[SrcPos(u)] = new.src /\ h.ptr[RestPos(u)] = new.rest
  BY <1>0, <1>1, <1>2, <1>4, WorkIs DEF Heap, HeldOK, SrcOf, RestOf
<1>14. SamePtr(u, h, h) /\ fileEnd <= fileEnd' /\ Chained(h.ptr, h.own, fileEnd') /\ h.ptr[FreePos] = freeChain'
  BY <1>1, PtrIs DEF SamePtr, Heap
<1>15. RecsIn(job.todo) = {} /\ RecsIn(new.todo) = {} /\ DistinctIds(new.todo)
  BY <1>1, <1>4, NoRecs
<1>16. h.view \in [Place -> Block] /\ h.at \in [Ids -> Nat]
  BY DEF Heap
<1>17. QED
  <2>1. {q} \in SUBSET Place /\ {} \in SUBSET Ids
    BY <1>6
  <2>2. Works(u, new) /\ Working(u)
    BY <1>1, <1>2
  <2>3. (\A p \in {q} : NewPlace(u, p, new, h, h)) /\ \A i \in {} : NewId(u, i, new, h, h)
    BY <1>8
  <2>4. /\ \A i \in Ids : i \notin {} => SameId(u, i, {q}, new, h, h)
        /\ \A p \in Place : p \notin {q} => \A r \in RecsIn(h.view[p].recs) : r.id \notin {}
    BY <1>12
  <2>5. /\ \A r \in RecsIn(proc[u].job.todo) : r.id \in {} \/ r \in RecsIn(new.todo)
        /\ \A r \in RecsIn(new.todo) : h.kept[r.id] = {r} /\ h.at[r.id] = 0 /\ r.id \in DOMAIN proc[u].was
        /\ WorkHand(proc[u].job) \subseteq {q} \cup WorkHand(new)
    BY <1>0, <1>10, <1>15
  <2>6. QED
    BY <1>9, <1>11, <1>13, <1>14, <1>15, <1>16, <2>1, <2>2, <2>3, <2>4, <2>5, WorkHeap

LEMMA BufferPut ==
  ASSUME NEW S, NEW s \in Seq(S), NEW t \in 1 .. Len(s), NEW b \in S
  PROVE  /\ [s EXCEPT ![t] = b] \in Seq(S) /\ Len([s EXCEPT ![t] = b]) = Len(s)
         /\ \A j \in 1 .. Len(s) : [s EXCEPT ![t] = b][j] = IF j = t THEN b ELSE s[j]
OBVIOUS

(* Two buffers are of two groups.                                           *)
LEMMA BuffersApart ==
  ASSUME NEW u \in Users, NEW h, NEW job, WorkOK(u, job, h), NEW t \in 1 .. Len(job.to), NEW j \in 1 .. Len(job.to), j # t
  PROVE  h.own[job.to[j].at] # h.own[job.to[t].at] /\ job.to[j].at # job.to[t].at /\ Len(job.to) = 2
<1>1. job.to \in Seq([at : Place, blk : Block]) /\ Len(job.to) <= 2
  BY DEF WorkOK, JobType
<1>2. PICK n \in Nat : n = Len(job.to)
  BY <1>1, LenProperties
<1>3. n = 2 /\ ((t = 1 /\ j = 2) \/ (t = 2 /\ j = 1))
  <2>1. t \in 1 .. n /\ j \in 1 .. n /\ n <= 2
    BY <1>1, <1>2
  <2>2. QED
    BY <2>1
<1>4. h.own[job.to[1].at] # h.own[job.to[2].at]
  BY <1>2, <1>3 DEF WorkOK
<1>5. QED
  BY <1>2, <1>3, <1>4

(* One buffer is exchanged for another of the same group.                   *)
Exchanged(u, h, k, job, t, b, todo, new) ==
  /\ WorkOK(u, job, h) /\ t \in 1 .. Len(job.to) /\ b \in [at : Place, blk : Block] /\ todo \in Seq(Rec)
  /\ new = [job EXCEPT !.to = [job.to EXCEPT ![t] = b], !.todo = todo]
  /\ job.todo = <<>> => todo = <<>>
  /\ k.view[b.at] = b.blk /\ k.own[b.at] = h.own[job.to[t].at]
  /\ \A j \in 1 .. Len(job.to) : j # t => /\ k.view[job.to[j].at] = h.view[job.to[j].at]
                                          /\ k.own[job.to[j].at] = h.own[job.to[j].at]
  /\ job.src # None => k.view[Overflow(job.src)] = h.view[Overflow(job.src)]
  /\ job.pack \/ b.blk.next = None

LEMMA PutWork ==
  ASSUME NEW u \in Users, NEW h, NEW k, NEW job, NEW t, NEW b, NEW todo, NEW new,
         Exchanged(u, h, k, job, t, b, todo, new)
  PROVE  /\ WorkOK(u, new, k) /\ b.at \in WorkHand(new)
         /\ WorkHand(job) \subseteq {job.to[t].at} \cup WorkHand(new)
         /\ new.todo = todo /\ new.src = job.src /\ new.rest = job.rest
<1>0. /\ WorkOK(u, job, h) /\ t \in 1 .. Len(job.to) /\ b \in [at : Place, blk : Block] /\ todo \in Seq(Rec)
      /\ new = [job EXCEPT !.to = [job.to EXCEPT ![t] = b], !.todo = todo]
      /\ (job.todo = <<>> => todo = <<>>)
      /\ k.view[b.at] = b.blk /\ k.own[b.at] = h.own[job.to[t].at]
      /\ \A j \in 1 .. Len(job.to) : j # t => /\ k.view[job.to[j].at] = h.view[job.to[j].at]
                                              /\ k.own[job.to[j].at] = h.own[job.to[j].at]
      /\ (job.src # None => k.view[Overflow(job.src)] = h.view[Overflow(job.src)])
      /\ (job.pack \/ b.blk.next = None)
  BY DEF Exchanged
<1>1. /\ job \in JobType /\ job.to \in Seq([at : Place, blk : Block])
      /\ job.pack \in BOOLEAN /\ job.src \in Over \cup {None} /\ job.rest \in Over \cup {None}
      /\ job.new \in Groups \cup {None}
  BY <1>0 DEF WorkOK, JobType
<1>2. PICK to : to = [job.to EXCEPT ![t] = b]
  OBVIOUS
<1>3. /\ to \in Seq([at : Place, blk : Block]) /\ Len(to) = Len(job.to)
      /\ \A j \in 1 .. Len(job.to) : to[j] = IF j = t THEN b ELSE job.to[j]
  BY <1>0, <1>1, <1>2, BufferPut
<1>4. /\ new.to = to /\ new.pack = job.pack /\ new.todo = todo /\ new.src = job.src
      /\ new.rest = job.rest /\ new.new = job.new /\ new \in JobType
  BY <1>0, <1>1, <1>2, <1>3 DEF JobType
<1>5. ASSUME NEW j \in 1 .. Len(job.to)
      PROVE  /\ k.own[to[j].at] = h.own[job.to[j].at] /\ BufferOK(u, to[j], k)
  <2>1. BufferOK(u, job.to[j], h) /\ BufferOK(u, job.to[t], h)
    BY <1>0 DEF WorkOK
  <2>2. CASE j = t
    BY <1>0, <1>3, <2>1, <2>2 DEF BufferOK
  <2>3. CASE j # t
    BY <1>0, <1>3, <2>1, <2>3 DEF BufferOK
  <2>4. QED
    BY <2>2, <2>3
<1>6. \A j \in 1 .. Len(job.to) : job.pack \/ job.todo = <<>> \/ job.to[j].blk.next = None => job.pack \/ todo = <<>> \/ to[j].blk.next = None
  BY <1>0, <1>3
<1>7. \A i \in DOMAIN proc[u].was : TargetOf(new, i) = TargetOf(job, i)
  BY <1>4 DEF TargetOf
<1>8. job.to # <<>> /\ to # <<>>
  BY <1>0, <1>1, <1>3
<1>9. \A i \in DOMAIN proc[u].was : job.todo # <<>> \/ job.rest # None => TargetOf(job, i) \in 1 .. Len(job.to)
  <2>1. Len(job.to) \in Nat /\ 1 \in 1 .. Len(job.to)
    BY <1>1, <1>8
  <2>2. (job.todo # <<>> \/ job.rest # None) /\ job.new # None => Len(job.to) = 2
    BY <1>0 DEF WorkOK
  <2>3. QED
    BY <2>1, <2>2 DEF TargetOf
<1>10. WorkOK(u, new, k)
  <2>1. Len(new.to) <= 2 /\ \A j \in 1 .. Len(new.to) : BufferOK(u, new.to[j], k)
    BY <1>0, <1>3, <1>4, <1>5 DEF WorkOK
  <2>2. Len(new.to) = 2 => k.own[new.to[1].at] # k.own[new.to[2].at]
    <3>1. Len(job.to) = 2 => 1 \in 1 .. Len(job.to) /\ 2 \in 1 .. Len(job.to)
      OBVIOUS
    <3>2. QED
      BY <1>0, <1>3, <1>4, <1>5, <3>1 DEF WorkOK
  <2>3. new.src # None => k.view[Overflow(new.src)] = Empty
    BY <1>0, <1>4 DEF WorkOK
  <2>4. /\ new.pack => Len(new.to) <= 1 /\ new.src = None /\ new.rest = None /\ new.new = None
        /\ new.rest # None \/ new.new # None => proc[u].then.at = "release"
        /\ new.todo # <<>> \/ new.rest # None \/ new.src # None => new.to # <<>>
    BY <1>0, <1>3, <1>4, <1>8 DEF WorkOK
  <2>5. ASSUME new.todo # <<>> \/ new.rest # None
        PROVE  /\ new.new # None => Len(new.to) = 2
               /\ ~new.pack => \A j \in 1 .. Len(new.to) : new.to[j].blk.next = None
               /\ \A i \in DOMAIN proc[u].was : Home(i) = k.own[new.to[TargetOf(new, i)].at]
    <3>1. job.todo # <<>> \/ job.rest # None
      BY <1>0, <1>4, <2>5
    <3>2. job.new # None => Len(job.to) = 2
      BY <1>0, <3>1 DEF WorkOK
    <3>3. ~job.pack => \A j \in 1 .. Len(job.to) : job.to[j].blk.next = None
      BY <1>0, <3>1 DEF WorkOK
    <3>4. \A i \in DOMAIN proc[u].was : Home(i) = h.own[job.to[TargetOf(job, i)].at]
      BY <1>0, <3>1 DEF WorkOK
    <3>5. \A i \in DOMAIN proc[u].was : Home(i) = k.own[new.to[TargetOf(new, i)].at]
      <4>1. ASSUME NEW i \in DOMAIN proc[u].was
            PROVE  Home(i) = k.own[to[TargetOf(new, i)].at]
        <5>1. PICK j \in 1 .. Len(job.to) : j = TargetOf(job, i) /\ j = TargetOf(new, i)
          BY <1>7, <1>9, <3>1
        <5>2. Home(i) = h.own[job.to[j].at]
          BY <3>4, <5>1
        <5>3. QED
          BY <1>5, <5>1, <5>2
      <4>2. QED
        BY <1>4, <4>1
    <3>6. ~job.pack => \A j \in 1 .. Len(to) : to[j].blk.next = None
      BY <1>0, <1>3, <3>3
    <3>7. QED
      BY <1>3, <1>4, <3>2, <3>5, <3>6
  <2>6. QED
    BY <1>4, <2>1, <2>2, <2>3, <2>4, <2>5 DEF WorkOK
<1>11. b.at \in WorkHand(new) /\ WorkHand(job) \subseteq {job.to[t].at} \cup WorkHand(new)
  BY <1>0, <1>3, <1>4 DEF WorkHand
<1>12. QED
  BY <1>4, <1>10, <1>11

LEMMA RewriteIs ==
  ASSUME NEW u \in Users, NEW h, Heap(h), proc[u].at = "rewrite", NEW job, job = proc[u].job
  PROVE  /\ WorkOK(u, job, h) /\ job \in JobType /\ DOMAIN proc[u].was \subseteq Ids
         /\ job.to \in Seq([at : Place, blk : Block]) /\ job.todo \in Seq(Rec)
         /\ (\A t \in 1 .. Len(job.to) : BufferOK(u, job.to[t], h)
                                         /\ job.to[t] \in [at : Place, blk : Block])
         /\ DistinctIds(job.todo)
         /\ \A r \in RecsIn(job.todo) : h.kept[r.id] = {r} /\ h.at[r.id] = 0 /\ r.id \in DOMAIN proc[u].was
         /\ h.ptr[SrcPos(u)] = job.src /\ h.ptr[RestPos(u)] = job.rest
<1>1. HeldOK(u, h)
  BY DEF Heap
<1>2. WorkOK(u, job, h) /\ DOMAIN proc[u].was \subseteq Ids
  BY <1>1 DEF HeldOK, JobOK, WorkOK
<1>3. job \in JobType
  BY <1>2 DEF WorkOK
<1>4. job.to \in Seq([at : Place, blk : Block]) /\ job.todo \in Seq(Rec)
  BY <1>3 DEF JobType
<1>5. \A t \in 1 .. Len(job.to) : BufferOK(u, job.to[t], h) /\ job.to[t] \in [at : Place, blk : Block]
  BY <1>2, <1>4, ElementOfSeq DEF WorkOK
<1>6. TodoOf(proc[u]) = job.todo /\ SrcOf(proc[u]) = job.src /\ RestOf(proc[u]) = job.rest
  BY DEF TodoOf, SrcOf, RestOf
<1>7. QED
  BY <1>1, <1>2, <1>3, <1>4, <1>5, <1>6 DEF HeldOK

(* The buffer that the first of the records in hand goes to.                *)
LEMMA AddingIs ==
  ASSUME NEW u \in Users, NEW h, Heap(h), Adding(u), NEW job, job = proc[u].job,
         NEW r, r = Head(job.todo), NEW t, t = Target(u)
  PROVE  /\ t \in 1 .. Len(job.to) /\ job.to[t].blk.next = None /\ h.own[job.to[t].at] = Home(r.id)
         /\ r \in Rec /\ r.id \in Ids /\ r.id \in DOMAIN proc[u].was
         /\ h.kept[r.id] = {r} /\ h.at[r.id] = 0
         /\ Tail(job.todo) \in Seq(Rec) /\ DistinctIds(Tail(job.todo)) /\ job.todo # <<>>
         /\ RecsIn(job.todo) = RecsIn(Tail(job.todo)) \cup {r}
         /\ \A q \in RecsIn(Tail(job.todo)) : q.id # r.id
<1>1. proc[u].at = "rewrite" /\ ~Packing(u) /\ job.todo # <<>>
  BY DEF Adding, Job
<1>2. /\ WorkOK(u, job, h) /\ job.to \in Seq([at : Place, blk : Block]) /\ job.todo \in Seq(Rec)
      /\ DOMAIN proc[u].was \subseteq Ids /\ DistinctIds(job.todo)
      /\ \A q \in RecsIn(job.todo) : h.kept[q.id] = {q} /\ h.at[q.id] = 0 /\ q.id \in DOMAIN proc[u].was
  BY <1>1, RewriteIs
<1>3. /\ r \in Rec /\ Tail(job.todo) \in Seq(Rec) /\ DistinctIds(Tail(job.todo))
      /\ RecsIn(job.todo) = RecsIn(Tail(job.todo)) \cup {r}
      /\ \A q \in RecsIn(Tail(job.todo)) : q.id # r.id
  BY <1>1, <1>2, RecsTail
<1>4. r.id \in Ids /\ r.id \in DOMAIN proc[u].was /\ h.kept[r.id] = {r} /\ h.at[r.id] = 0
  BY <1>2, <1>3 DEF Rec
<1>5. t = TargetOf(job, r.id)
  BY DEF Target, TargetOf, Job
<1>6. /\ job.to # <<>> /\ (job.new # None => Len(job.to) = 2) /\ (job.pack => job.new = None /\ Len(job.to) <= 1)
      /\ (~job.pack => \A j \in 1 .. Len(job.to) : job.to[j].blk.next = None)
      /\ Home(r.id) = h.own[job.to[t].at]
  BY <1>1, <1>2, <1>4, <1>5 DEF WorkOK
<1>7. t \in 1 .. Len(job.to)
  <2>1. Len(job.to) \in Nat /\ Len(job.to) # 0
    BY <1>2, <1>6
  <2>2. t = 1 \/ (t = 2 /\ Len(job.to) = 2)
    BY <1>5, <1>6 DEF TargetOf
  <2>3. QED
    BY <2>1, <2>2
<1>8. job.to[t].blk.next = None
  <2>1. CASE job.pack
    <3>1. job.new = None
      BY <1>6, <2>1
    <3>2. t = 1
      BY <1>5, <3>1 DEF TargetOf
    <3>3. QED
      BY <1>1, <1>6, <2>1, <3>2 DEF Packing, Job, Cur
  <2>2. QED
    BY <1>6, <1>7, <2>1
<1>9. QED
  BY <1>1, <1>3, <1>4, <1>6, <1>7, <1>8

LEMMA BufferRecs ==
  ASSUME NEW x, NEW q, NEW c, x = [at |-> q, blk |-> c], NEW r
  PROVE  [x EXCEPT !.blk.recs = r] = [at |-> q, blk |-> [c EXCEPT !.recs = r]]
OBVIOUS

Added(to, t, r) == [to EXCEPT ![t].blk.recs = Append(@, r)]

LEMMA BufferAdd ==
  ASSUME NEW to, NEW t, NEW q, NEW c, to[t] = [at |-> q, blk |-> c], NEW r
  PROVE  Added(to, t, r) = [to EXCEPT ![t] = [at |-> q, blk |-> [c EXCEPT !.recs = Append(c.recs, r)]]]
<1>1. [to EXCEPT ![t].blk.recs = Append(@, r)]
        = [to EXCEPT ![t] = [to[t] EXCEPT !.blk.recs = Append(to[t].blk.recs, r)]]
  BY Zenon
<1>5. to[t].blk = c
  OBVIOUS
<1>2. PICK recs : recs = Append(to[t].blk.recs, r) /\ recs = Append(c.recs, r)
  BY <1>5
<1>3. [to[t] EXCEPT !.blk.recs = recs] = [at |-> q, blk |-> [c EXCEPT !.recs = recs]]
  BY BufferRecs
<1>4. QED
  BY <1>1, <1>2, <1>3 DEF Added

LEMMA AddHeap ==
  ASSUME HashInv, NEW u \in Users, NEW h, Heap(h), Add(u)
  PROVE  \E k : Heap(k)' /\ k.kept = h.kept
<1>0. PICK job, t, r : job = proc[u].job /\ t = Target(u) /\ r = Head(job.todo)
  OBVIOUS
<1> DEFINE q == job.to[t].at
           i == r.id
           blk == BlockOf(Append(h.view[q].recs, r), h.view[q].next)
<1>1. Adding(u) /\ UNCHANGED <<block, fileEnd, freeChain, glock>>
  BY DEF Add, file
<1>2. /\ t \in 1 .. Len(job.to) /\ job.to[t].blk.next = None /\ h.own[q] = Home(i)
      /\ r \in Rec /\ i \in Ids /\ i \in DOMAIN proc[u].was
      /\ h.kept[i] = {r} /\ h.at[i] = 0
      /\ Tail(job.todo) \in Seq(Rec) /\ DistinctIds(Tail(job.todo)) /\ job.todo # <<>>
      /\ RecsIn(job.todo) = RecsIn(Tail(job.todo)) \cup {r}
      /\ \A x \in RecsIn(Tail(job.todo)) : x.id # i
  <2>1. t \in 1 .. Len(job.to) /\ job.to[t].blk.next = None
    BY <1>0, <1>1, AddingIs
  <2>2. h.own[q] = Home(i)
    BY <1>0, <1>1, AddingIs
  <2>3. r \in Rec /\ i \in Ids /\ i \in DOMAIN proc[u].was
    BY <1>0, <1>1, AddingIs
  <2>4. h.kept[i] = {r} /\ h.at[i] = 0
    BY <1>0, <1>1, AddingIs
  <2>5. Tail(job.todo) \in Seq(Rec) /\ DistinctIds(Tail(job.todo)) /\ job.todo # <<>>
    BY <1>0, <1>1, AddingIs
  <2>6. RecsIn(job.todo) = RecsIn(Tail(job.todo)) \cup {r}
    BY <1>0, <1>1, AddingIs
  <2>7. \A x \in RecsIn(Tail(job.todo)) : x.id # i
    BY <1>0, <1>1, AddingIs
  <2>8. QED
    BY <2>1, <2>2, <2>3, <2>4, <2>5, <2>6, <2>7
<1>3. /\ proc[u].at = "rewrite" /\ WorkOK(u, job, h) /\ job \in JobType
      /\ job.to \in Seq([at : Place, blk : Block])
      /\ \A x \in RecsIn(job.todo) : h.kept[x.id] = {x} /\ h.at[x.id] = 0 /\ x.id \in DOMAIN proc[u].was
      /\ h.ptr[SrcPos(u)] = job.src /\ h.ptr[RestPos(u)] = job.rest
      /\ (\A j \in 1 .. Len(job.to) : BufferOK(u, job.to[j], h) /\ job.to[j] \in [at : Place, blk : Block])
  <2>1. proc[u].at = "rewrite"
    BY <1>1 DEF Adding
  <2>2. WorkOK(u, job, h) /\ job \in JobType
    BY <1>0, <2>1, RewriteIs
  <2>3. job.to \in Seq([at : Place, blk : Block])
    BY <1>0, <2>1, RewriteIs
  <2>4. \A x \in RecsIn(job.todo) : h.kept[x.id] = {x} /\ h.at[x.id] = 0 /\ x.id \in DOMAIN proc[u].was
    BY <1>0, <2>1, RewriteIs
  <2>5. h.ptr[SrcPos(u)] = job.src /\ h.ptr[RestPos(u)] = job.rest
    BY <1>0, <2>1, RewriteIs
  <2>6. \A j \in 1 .. Len(job.to) : BufferOK(u, job.to[j], h) /\ job.to[j] \in [at : Place, blk : Block]
    BY <1>0, <2>1, RewriteIs
  <2>7. QED
    BY <2>1, <2>2, <2>3, <2>4, <2>5, <2>6
<1>4. /\ q \in Place /\ h.view[q] = job.to[t].blk /\ h.own[q] \in Groups
      /\ MyLock(u, h.own[q], TRUE) \in glock
  BY <1>2, <1>3 DEF BufferOK
<1> HIDE DEF q, i, blk
<1>5. /\ h.view[q].part = NoPart /\ h.ptr[NextPos(q)] = h.view[q].next /\ DistinctIds(h.view[q].recs)
      /\ (\A x \in RecsIn(h.view[q].recs) : h.kept[x.id] = {x} /\ h.at[x.id] = q)
      /\ (q \notin Groups => OverflowNo(q) <= fileEnd)
      /\ (q \in Groups => h.own[q] = q)
      /\ h.view[q].recs \in Seq(Rec) /\ h.view[q].next \in Over \cup {None}
      /\ h.view[q] = BlockOf(h.view[q].recs, h.view[q].next)
  <2>1. q \in Place /\ h.own[q] \in Groups \cup {Moving}
    BY <1>4
  <2>2. h.view[q].part = NoPart /\ h.ptr[NextPos(q)] = h.view[q].next /\ DistinctIds(h.view[q].recs)
    BY <2>1, GroupPlace
  <2>3. \A x \in RecsIn(h.view[q].recs) : h.kept[x.id] = {x} /\ h.at[x.id] = q
    BY <2>1, GroupPlace
  <2>4. (q \notin Groups => OverflowNo(q) <= fileEnd) /\ (q \in Groups => h.own[q] = q)
    BY <2>1, GroupPlace
  <2>5. /\ h.view[q].recs \in Seq(Rec) /\ h.view[q].next \in Over \cup {None}
        /\ h.view[q] = BlockOf(h.view[q].recs, h.view[q].next)
    BY <2>1, GroupPlace
  <2>6. QED
    BY <2>2, <2>3, <2>4, <2>5
<1>6. q # 0
  BY <1>4, FileConstants DEF Place
<1>7. /\ blk \in Block /\ blk.next = h.view[q].next /\ blk.part = NoPart
      /\ blk.recs \in Seq(Rec) /\ DistinctIds(blk.recs) /\ RecsIn(blk.recs) = RecsIn(h.view[q].recs) \cup {r}
  <2>1. /\ Append(h.view[q].recs, r) \in Seq(Rec) /\ DistinctIds(Append(h.view[q].recs, r))
        /\ RecsIn(Append(h.view[q].recs, r)) = RecsIn(h.view[q].recs) \cup {r}
    BY <1>2, <1>5, <1>6, RecsAppend DEF i
  <2>2. NoPart \in Part
    BY DEF NoPart, Part
  <2>3. QED
    BY <1>5, <2>1, <2>2 DEF blk, BlockOf, Block
<1>8. /\ h.view \in [Place -> Block] /\ h.at \in [Ids -> Nat] /\ Chained(h.ptr, h.own, fileEnd)
      /\ h.ptr[FreePos] = freeChain
  BY DEF Heap
<1>30. PICK k : k = [view |-> [h.view EXCEPT ![q] = blk], ptr |-> h.ptr, own |-> h.own, kept |-> h.kept,
                     at |-> [h.at EXCEPT ![i] = q]]
  OBVIOUS
<1>9. /\ k.view = [h.view EXCEPT ![q] = blk] /\ k.ptr = h.ptr /\ k.own = h.own /\ k.kept = h.kept
      /\ k.at = [h.at EXCEPT ![i] = q]
  BY <1>30
<1>10. /\ k.view \in [Place -> Block] /\ k.view[q] = blk /\ \A p \in Place : p # q => k.view[p] = h.view[p]
  BY <1>4, <1>7, <1>8, <1>9
<1>11. k.at \in [Ids -> Nat] /\ k.at[i] = q /\ \A j \in Ids : j # i => k.at[j] = h.at[j]
  <2>1. q \in Nat
    BY <1>4, FileConstants DEF Place
  <2>2. QED
    BY <1>2, <1>8, <1>9, <2>1
<1>12. PICK b : b = Buffer(q, blk)
  OBVIOUS
<1>13. b \in [at : Place, blk : Block] /\ b.at = q /\ b.blk = blk
  BY <1>4, <1>7, <1>12 DEF Buffer
<1>14. PICK todo, new : todo = Tail(job.todo) /\ new = [job EXCEPT !.to = [job.to EXCEPT ![t] = b], !.todo = todo]
  OBVIOUS
<1>15. Works(u, new) /\ Working(u)
  <2>1. Works(u, [job EXCEPT !.to[t].blk.recs = Append(@, r), !.todo = Tail(@)])
    BY <1>0 DEF Add, Job
  <2>2. [job EXCEPT !.to[t].blk.recs = Append(@, r), !.todo = Tail(@)] = new
    <3>1. job.to[t] = [at |-> q, blk |-> h.view[q]]
      BY <1>2, <1>3, <1>4 DEF q
    <3>2. [h.view[q] EXCEPT !.recs = Append(@, r)] = blk
      BY SMTT(20), <1>5 DEF blk, BlockOf
    <3>3. PICK to : to = [job.to EXCEPT ![t].blk.recs = Append(@, r)]
      OBVIOUS
    <3>4. to = [job.to EXCEPT ![t] = b]
      <4>1. PICK c : c = h.view[q]
        OBVIOUS
      <4>2. to = [job.to EXCEPT ![t] = [at |-> q, blk |-> [c EXCEPT !.recs = Append(@, r)]]]
        <5>1. job.to[t] = [at |-> q, blk |-> c]
          BY <3>1, <4>1
        <5>2. PICK s : s = job.to
          OBVIOUS
        <5>3. [s EXCEPT ![t].blk.recs = Append(@, r)]
                = [s EXCEPT ![t] = [at |-> q, blk |-> [c EXCEPT !.recs = Append(@, r)]]]
          <6>1. s[t] = [at |-> q, blk |-> c]
            BY <5>1, <5>2
          <6>2. PICK p : p = q
            OBVIOUS
          <6>3. s[t] = [at |-> p, blk |-> c]
            BY <6>1, <6>2
          <6>4. Added(s, t, r) = [s EXCEPT ![t] = [at |-> p, blk |-> [c EXCEPT !.recs = Append(c.recs, r)]]]
            BY <6>3, BufferAdd
          <6>5. QED
            BY <6>2, <6>4 DEF Added
        <5>4. QED
          BY <3>3, <5>2, <5>3
      <4>3. b = [at |-> q, blk |-> [c EXCEPT !.recs = Append(@, r)]]
        BY <1>12, <3>2, <4>1 DEF Buffer
      <4>4. QED
        BY <4>2, <4>3
    <3>5. [job EXCEPT !.to[t].blk.recs = Append(@, r), !.todo = Tail(@)]
            = [job EXCEPT !.to = to, !.todo = Tail(job.todo)]
      BY <3>3
    <3>6. QED
      BY <1>14, <3>4, <3>5
  <2>3. QED
    BY <2>1, <2>2 DEF Working
<1>16. job.src # None => Overflow(job.src) # q /\ Overflow(job.src) \in Place
  <2>1. job.src \in Over \cup {None}
    BY <1>3 DEF JobType
  <2>2. ASSUME job.src # None
        PROVE  h.own[Overflow(job.src)] = Overflow(job.src) /\ Overflow(job.src) \in Place
    BY <1>3, <1>8, <2>1, <2>2, OwnIs, Places
  <2>3. QED
    BY <1>4, <2>1, <2>2, Owners
<1>17. \A j \in 1 .. Len(job.to) : j # t => job.to[j].at # q /\ job.to[j].at \in Place
  BY <1>2, <1>3, BuffersApart DEF q
<1>18. /\ WorkOK(u, new, k) /\ q \in WorkHand(new) /\ WorkHand(job) \subseteq {q} \cup WorkHand(new)
       /\ new.todo = Tail(job.todo) /\ new.src = job.src /\ new.rest = job.rest
  <2>1. job.to[t].at = q
    BY DEF q
  <2>2. \A j \in 1 .. Len(job.to) : j # t => /\ k.view[job.to[j].at] = h.view[job.to[j].at]
                                              /\ k.own[job.to[j].at] = h.own[job.to[j].at]
    BY <1>9, <1>10, <1>17
  <2>3. job.src # None => k.view[Overflow(job.src)] = h.view[Overflow(job.src)]
    BY <1>10, <1>16
  <2>4. k.view[b.at] = b.blk /\ k.own[b.at] = h.own[job.to[t].at] /\ b.blk.next = None
    BY <1>2, <1>4, <1>7, <1>9, <1>10, <1>13, <2>1
  <2>5. Tail(job.todo) \in Seq(Rec) /\ (job.todo = <<>> => Tail(job.todo) = <<>>) /\ (job.pack \/ b.blk.next = None)
    BY <1>2, <2>4
  <2>6. Exchanged(u, h, k, job, t, b, todo, new)
    BY <1>2, <1>3, <1>13, <1>14, <2>2, <2>3, <2>4, <2>5 DEF Exchanged
  <2>7. /\ WorkOK(u, new, k) /\ b.at \in WorkHand(new)
        /\ WorkHand(job) \subseteq {job.to[t].at} \cup WorkHand(new)
        /\ new.todo = todo /\ new.src = job.src /\ new.rest = job.rest
    BY <2>6, PutWork
  <2>9. QED
    BY <1>13, <1>14, <2>1, <2>7
<1>19. NewPlace(u, q, new, h, k)
  <2>1. Touchable(u, q, h)
    BY <1>1, <1>4 DEF Touchable
  <2>2. q \in Groups => ~AbsentGroup(q)
    BY <1>2, <1>5, HomePresent
  <2>3. \A x \in RecsIn(k.view[q].recs) : k.kept[x.id] = {x} /\ k.at[x.id] = q
    <3>1. ASSUME NEW x \in RecsIn(h.view[q].recs)
          PROVE  h.kept[x.id] = {x} /\ k.at[x.id] = q
      <4>1. x.id \in Ids
        BY <1>5, SomeRecs DEF Rec
      <4>2. QED
        BY <1>2, <1>5, <1>6, <1>11, <4>1
    <3>2. h.kept[r.id] = {r} /\ k.at[r.id] = q
      BY <1>2, <1>11 DEF i
    <3>3. QED
      BY <1>7, <1>9, <1>10, <3>1, <3>2
  <2>4. QED
    BY <1>1, <1>5, <1>7, <1>9, <1>10, <1>18, <2>1, <2>2, <2>3 DEF NewPlace
<1>20. \A p \in Place : p \notin {q} => SamePlace(p, h, k)
  BY <1>1, <1>9, <1>10 DEF SamePlace
<1>21. NewId(u, i, new, h, k)
  BY <1>2, <1>4, <1>7, <1>9, <1>10, <1>11 DEF NewId
<1>22. \A j \in Ids : j \notin {i} => SameId(u, j, {q}, new, h, k)
  <2>1. RestOf(proc[u]) = job.rest /\ new.rest = job.rest
    BY <1>0, <1>3, <1>18 DEF RestOf
  <2>2. ASSUME NEW j \in Ids, h.kept[j] # {}, h.at[j] = q
        PROVE  h.kept[j] \subseteq RecsIn(k.view[q].recs)
    <3>1. h.kept[j] \subseteq RecsIn(h.view[q].recs)
      BY <1>6, <2>2 DEF Heap, IdOK, InPlace
    <3>2. QED
      BY <1>7, <1>10, <3>1
  <2>3. QED
    BY <1>9, <1>11, <2>1, <2>2 DEF SameId
<1>23. SamePtr(u, h, k) /\ k.ptr[SrcPos(u)] = new.src /\ k.ptr[RestPos(u)] = new.rest
  BY <1>3, <1>9, <1>18 DEF SamePtr
<1>24. \A p \in Place : p \notin {q} => \A x \in RecsIn(h.view[p].recs) : x.id \notin {i}
  <2>1. ASSUME NEW p \in Place, NEW x \in RecsIn(h.view[p].recs), x.id = i
        PROVE  FALSE
    <3>1. h.at[i] = p
      BY <2>1 DEF Heap, PlaceOK
    <3>2. QED
      BY <1>2, <3>1, FileConstants DEF Place
  <2>2. QED
    BY <2>1
<1>25. /\ new.todo = Tail(job.todo) /\ DistinctIds(new.todo)
       /\ \A x \in RecsIn(job.todo) : x.id \in {i} \/ x \in RecsIn(new.todo)
       /\ \A x \in RecsIn(new.todo) : k.kept[x.id] = {x} /\ k.at[x.id] = 0 /\ x.id \in DOMAIN proc[u].was
  <2>1. new.todo = Tail(job.todo)
    BY <1>18
  <2>2. \A x \in RecsIn(new.todo) : x \in RecsIn(job.todo) /\ x.id # i /\ x.id \in Ids
    BY <1>2, <2>1, SomeRecs DEF Rec
  <2>3. \A x \in RecsIn(job.todo) : x.id \in {i} \/ x \in RecsIn(new.todo)
    BY <1>2, <2>1 DEF i
  <2>4. QED
    BY <1>2, <1>3, <1>9, <1>11, <2>1, <2>2, <2>3
<1>26. fileEnd <= fileEnd' /\ Chained(k.ptr, k.own, fileEnd') /\ k.ptr[FreePos] = freeChain'
  BY <1>1, <1>8, <1>9, PtrIs
<1>27. Heap(k)'
  <2>1. {q} \in SUBSET Place /\ {i} \in SUBSET Ids
    BY <1>2, <1>4
  <2>2. (\A p \in {q} : NewPlace(u, p, new, h, k)) /\ \A j \in {i} : NewId(u, j, new, h, k)
    BY <1>19, <1>21
  <2>3. WorkHand(proc[u].job) \subseteq {q} \cup WorkHand(new)
    BY <1>0, <1>18
  <2>4. \A x \in RecsIn(proc[u].job.todo) : x.id \in {i} \/ x \in RecsIn(new.todo)
    BY <1>0, <1>25
  <2>5. k.view \in [Place -> Block] /\ k.at \in [Ids -> Nat] /\ k.kept = h.kept
    BY <1>9, <1>10, <1>11
  <2>6. QED
    BY <1>15, <1>18, <1>20, <1>22, <1>23, <1>24, <1>25, <1>26, <2>1, <2>2, <2>3, <2>4, <2>5, WorkHeap
<1>28. QED
  BY <1>9, <1>27

(* A buffer in hand, and the others.                                        *)
LEMMA HeldBuffer ==
  ASSUME NEW u \in Users, NEW h, Heap(h), proc[u].at = "rewrite", NEW job, job = proc[u].job,
         NEW t \in 1 .. Len(job.to), NEW q, q = job.to[t].at
  PROVE  /\ q \in Place /\ q # 0 /\ h.view[q] = job.to[t].blk /\ h.own[q] \in Groups
         /\ MyLock(u, h.own[q], TRUE) \in glock /\ job.to[t] = [at |-> q, blk |-> h.view[q]]
         /\ (job.src # None => /\ Overflow(job.src) # q /\ Overflow(job.src) \in Place /\ job.src \in Over
                               /\ h.own[Overflow(job.src)] = Overflow(job.src))
         /\ \A j \in 1 .. Len(job.to) : j # t => /\ job.to[j].at # q /\ job.to[j].at \in Place
                                                 /\ h.own[job.to[j].at] # h.own[q]
<1>1. WorkOK(u, job, h) /\ job \in JobType
  BY RewriteIs
<1>2. \A j \in 1 .. Len(job.to) : BufferOK(u, job.to[j], h) /\ job.to[j] \in [at : Place, blk : Block]
  BY RewriteIs
<1>3. h.ptr[SrcPos(u)] = job.src
  BY RewriteIs
<1>4. job.to[t].at \in Place /\ job.to[t] = [at |-> job.to[t].at, blk |-> job.to[t].blk]
  BY <1>2
<1>5. /\ q \in Place /\ q # 0 /\ h.view[q] = job.to[t].blk /\ h.own[q] \in Groups
      /\ MyLock(u, h.own[q], TRUE) \in glock /\ job.to[t] = [at |-> q, blk |-> h.view[q]]
  <2>1. q \in Place /\ q # 0
    BY <1>4, FileConstants DEF Place
  <2>2. BufferOK(u, job.to[t], h)
    BY <1>2
  <2>3. h.view[q] = job.to[t].blk /\ h.own[q] \in Groups /\ MyLock(u, h.own[q], TRUE) \in glock
    BY <2>2 DEF BufferOK
  <2>4. job.to[t] = [at |-> q, blk |-> h.view[q]]
    BY <1>4, <2>3
  <2>5. QED
    BY <2>1, <2>3, <2>4
<1>6. ASSUME job.src # None
      PROVE  /\ Overflow(job.src) # q /\ Overflow(job.src) \in Place /\ job.src \in Over
             /\ h.own[Overflow(job.src)] = Overflow(job.src)
  <2>1. job.src \in Over /\ Chained(h.ptr, h.own, fileEnd)
    BY <1>1, <1>6 DEF JobType, Heap
  <2>2. h.own[Overflow(job.src)] = Overflow(job.src) /\ Overflow(job.src) \in Place
    BY <1>3, <1>6, <2>1, OwnIs, Places
  <2>3. QED
    BY <1>5, <2>1, <2>2, Owners
<1>7. \A j \in 1 .. Len(job.to) : j # t => /\ job.to[j].at # q /\ job.to[j].at \in Place
                                            /\ h.own[job.to[j].at] # h.own[q]
  BY SMTT(20), <1>1, <1>2, BuffersApart
<1>8. QED
  BY <1>5, <1>6, <1>7

LEMMA OnDiskOwn ==
  ASSUME NEW u \in Users, Orderly(u), NEW h, Heap(h), NEW p \in Place, Touchable(u, p, h),
         p \notin InHand(proc[u])
  PROVE  block[p] = h.view[p]
<1>1. \A v \in Users : p \notin InHand(proc[v])
  BY HandsApart
<1>2. QED
  BY <1>1 DEF Heap, PlaceOK

(* A block that is filled up from the next one.                             *)
Packs(u, job, q, o, p) ==
  /\ u \in Users /\ proc[u].at = "rewrite" /\ Packing(u) /\ Orderly(u) /\ UNCHANGED glock
  /\ job = proc[u].job /\ q = job.to[1].at /\ o = job.to[1].blk.next /\ p = Overflow(o)

LEMMA PackingIs ==
  ASSUME HashInv, NEW h, Heap(h), NEW u, NEW job, NEW q, NEW o, NEW p, Packs(u, job, q, o, p)
  PROVE  /\ 1 \in 1 .. Len(job.to) /\ Len(job.to) = 1 /\ job.pack /\ job.src = None /\ job.rest = None
         /\ q \in Place /\ h.view[q] = job.to[1].blk /\ h.own[q] \in Groups
         /\ p \in Place /\ p # q /\ o \in Over /\ p \notin Groups /\ h.own[p] = h.own[q]
         /\ h.ptr[NextPos(q)] = o /\ h.view[q].next = o /\ block[p] = h.view[p]
         /\ (q \in Groups => ~AbsentGroup(q))
         /\ Touchable(u, q, h) /\ Touchable(u, p, h)
<1>0. /\ u \in Users /\ proc[u].at = "rewrite" /\ Packing(u) /\ Orderly(u) /\ UNCHANGED glock
      /\ job = proc[u].job /\ q = job.to[1].at /\ o = job.to[1].blk.next /\ p = Overflow(o)
  BY DEF Packs
<1>1. /\ job.pack /\ job.to # <<>> /\ o # None
  BY <1>0 DEF Packing, Job, Cur
<1>2. WorkOK(u, job, h) /\ job \in JobType /\ job.to \in Seq([at : Place, blk : Block])
  BY <1>0, RewriteIs
<1>3. 1 \in 1 .. Len(job.to) /\ Len(job.to) = 1 /\ job.src = None /\ job.rest = None
  <2>1. Len(job.to) \in Nat /\ Len(job.to) # 0
    BY <1>0, <1>1, <1>2
  <2>2. Len(job.to) <= 1 /\ job.src = None /\ job.rest = None
    BY <1>0, <1>1, <1>2 DEF WorkOK
  <2>3. PICK n \in Nat : n = Len(job.to)
    BY <1>0, <2>1
  <2>4. n # 0 /\ n <= 1
    BY <1>0, <2>1, <2>2, <2>3
  <2>5. n = 1
    BY <1>0, <2>4
  <2>6. Len(job.to) = 1
    BY <1>0, <2>3, <2>5
  <2>7. 1 \in 1 .. Len(job.to)
    BY <1>0, <2>6
  <2>8. QED
    BY <1>0, <2>2, <2>6, <2>7
<1>4. /\ q \in Place /\ h.view[q] = job.to[1].blk /\ h.own[q] \in Groups /\ MyLock(u, h.own[q], TRUE) \in glock
  <2>5. BufferOK(u, job.to[1], h) /\ job.to[1] \in [at : Place, blk : Block]
    BY <1>0, <1>3, RewriteIs
  <2>6. job.to[1].at \in Place /\ h.view[job.to[1].at] = job.to[1].blk
    BY <1>0, <2>5 DEF BufferOK
  <2>1. q \in Place /\ h.view[q] = job.to[1].blk
    BY <1>0, <2>6
  <2>2. h.own[q] \in Groups
    BY <1>0, <1>3, HeldBuffer
  <2>3. MyLock(u, h.own[q], TRUE) \in glock
    BY <1>0, <1>3, HeldBuffer
  <2>4. QED
    BY <1>0, <2>1, <2>2, <2>3
<1>5. /\ h.ptr[NextPos(q)] = h.view[q].next /\ h.view[q].next \in Over \cup {None}
      /\ (q \in Groups /\ AbsentGroup(q) => h.view[q].next = None)
  <2>1. h.ptr[NextPos(q)] = h.view[q].next
    BY <1>4, GroupPlace
  <2>2. h.view[q].next \in Over \cup {None}
    BY <1>4, GroupPlace
  <2>3. q \in Groups /\ AbsentGroup(q) => h.view[q].next = None
    BY <1>4, GroupPlace
  <2>4. QED
    BY <2>1, <2>2, <2>3
<1>6. /\ h.view[q].next = o /\ h.ptr[NextPos(q)] = o /\ o \in Over /\ p \in Place /\ p \notin Groups
      /\ (q \in Groups => ~AbsentGroup(q))
  BY <1>0, <1>1, <1>4, <1>5, Places
<1>7. h.own[p] = h.own[q] /\ p # q
  <2>1. Chained(h.ptr, h.own, fileEnd) /\ h.ptr[NextPos(q)] # None
    BY <1>1, <1>6 DEF Heap
  <2>2. h.own[Overflow(h.ptr[NextPos(q)])] = h.own[q] /\ Overflow(h.ptr[NextPos(q)]) # q
    BY <1>4, <2>1, OwnIs
  <2>3. Overflow(h.ptr[NextPos(q)]) = p
    BY <1>0, <1>6
  <2>4. QED
    BY <2>2, <2>3
<1>8. Touchable(u, q, h) /\ Touchable(u, p, h)
  BY <1>0, <1>4, <1>7 DEF Touchable
<1>9. p \notin InHand(proc[u])
  <2>1. Given(proc[u]) = {}
    BY <1>0, <1>3 DEF Given, SrcOf
  <2>2. Buffered(proc[u]) = {q}
    BY <1>0, <1>3 DEF Buffered
  <2>3. QED
    BY <1>0, <1>7, <2>1, <2>2 DEF InHand
<1>10. block[p] = h.view[p]
  BY <1>0, <1>6, <1>8, <1>9, OnDiskOwn
<1>11. QED
  BY <1>0, <1>1, <1>3, <1>4, <1>6, <1>7, <1>8, <1>10

LEMMA JobPut ==
  ASSUME NEW job \in JobType, NEW t, NEW b
  PROVE  [job EXCEPT !.to[t] = b] = [job EXCEPT !.to = [job.to EXCEPT ![t] = b], !.todo = job.todo]
<1>1. PICK to : to = [job.to EXCEPT ![t] = b]
  OBVIOUS
<1>2. [job EXCEPT !.to[t] = b] = [job EXCEPT !.to = to]
  BY <1>1
<1>3. [job EXCEPT !.to = to] = [job EXCEPT !.to = to, !.todo = job.todo]
  BY DEF JobType
<1>4. QED
  BY <1>1, <1>2, <1>3

BlockPut(job, t, q, c, blk, new) ==
  /\ job \in JobType /\ job.to[t] = [at |-> q, blk |-> c]
  /\ new = [job EXCEPT !.to = [job.to EXCEPT ![t] = [at |-> q, blk |-> blk]], !.todo = job.todo]

LEMMA JobPutBlock ==
  ASSUME NEW job, NEW t, NEW q, NEW c, NEW blk, NEW new, BlockPut(job, t, q, c, blk, new)
  PROVE  [job EXCEPT !.to[t].blk = blk] = new
<1>1. PICK b : b = [at |-> q, blk |-> blk]
  OBVIOUS
<1>0. /\ job \in JobType /\ job.to[t] = [at |-> q, blk |-> c]
      /\ new = [job EXCEPT !.to = [job.to EXCEPT ![t] = [at |-> q, blk |-> blk]], !.todo = job.todo]
  BY DEF BlockPut
<1>2. [job.to[t] EXCEPT !.blk = blk] = b
  BY <1>0, <1>1
<1>3. [job EXCEPT !.to[t].blk = blk] = [job EXCEPT !.to[t] = b]
  BY <1>2
<1>4. QED
  BY <1>0, <1>1, <1>3, JobPut

(* The records of a group that a session rewrites are among those it began  *)
(* with.                                                                    *)
Mine(u, h, p, x) ==
  p \in Place /\ h.own[p] \in Groups /\ MyLock(u, h.own[p], TRUE) \in glock /\ x \in RecsIn(h.view[p].recs)

LEMMA MineIs ==
  ASSUME HashInv, NEW u \in Users, NEW h, Heap(h), NEW job, Working(u), Works(u, job),
         NEW p, NEW x, Mine(u, h, p, x)
  PROVE  /\ x.id \in Ids /\ x.id \in DOMAIN proc[u].was /\ Home(x.id) = h.own[p]
         /\ h.kept[x.id] = {x} /\ h.at[x.id] = p
<1>0. p \in Place /\ h.own[p] \in Groups /\ MyLock(u, h.own[p], TRUE) \in glock /\ x \in RecsIn(h.view[p].recs)
  BY DEF Mine
<1>1. h.kept[x.id] = {x} /\ h.at[x.id] = p /\ x \in Rec
  BY <1>0, GroupPlace, SomeRecs
<1>2. x.id \in Ids
  BY <1>1 DEF Rec
<1>3. p # 0 /\ h.own[p] # Moving
  BY <1>0, Owners, FileConstants DEF Place
<1>4. Home(x.id) = h.own[p]
  BY <1>1, <1>2, <1>3 DEF Heap, IdOK, InPlace
<1>5. x.id \in DOMAIN proc[u].was
  BY <1>0, <1>2, <1>4, WorkIs
<1>6. QED
  BY <1>1, <1>2, <1>4, <1>5

(* Some of the records of a block are put after those of another.           *)
PackedAs(h, q, p, n, recs, first, rest) ==
  /\ q \in Place /\ p \in Place /\ p # q /\ h.own[q] \in Groups /\ h.own[p] \in Groups
  /\ recs = h.view[p].recs /\ n \in 0 .. Len(recs)
  /\ first = SubSeq(recs, 1, n) /\ rest = SubSeq(recs, n + 1, Len(recs))

LEMMA PackedRecs ==
  ASSUME NEW h, Heap(h), NEW q, NEW p, NEW n, NEW recs, NEW first, NEW rest,
         PackedAs(h, q, p, n, recs, first, rest)
  PROVE  /\ h.view[q].recs \o first \in Seq(Rec) /\ DistinctIds(h.view[q].recs \o first)
         /\ RecsIn(h.view[q].recs \o first) = RecsIn(h.view[q].recs) \cup RecsIn(first)
         /\ rest \in Seq(Rec) /\ DistinctIds(rest) /\ first \in Seq(Rec)
         /\ RecsIn(recs) = RecsIn(first) \cup RecsIn(rest)
         /\ \A x \in RecsIn(first), y \in RecsIn(rest) : x.id # y.id
<1>0. /\ q \in Place /\ p \in Place /\ p # q /\ h.own[q] \in Groups /\ h.own[p] \in Groups
      /\ recs = h.view[p].recs /\ n \in 0 .. Len(recs)
      /\ first = SubSeq(recs, 1, n) /\ rest = SubSeq(recs, n + 1, Len(recs))
  BY DEF PackedAs
<1>1. recs \in Seq(Rec) /\ DistinctIds(recs) /\ h.view[q].recs \in Seq(Rec) /\ DistinctIds(h.view[q].recs)
  BY <1>0, GroupPlace
<1>2. PICK m \in Nat : m = Len(recs)
  BY <1>1
<1>3. n \in 0 .. m /\ n + 1 \in n + 1 .. m + 1
  BY <1>0, <1>2
<1>4. /\ first \in Seq(Rec) /\ DistinctIds(first) /\ rest \in Seq(Rec) /\ DistinctIds(rest)
      /\ RecsIn(first) = {recs[k] : k \in 1 .. n} /\ RecsIn(rest) = {recs[k] : k \in n + 1 .. m}
  BY <1>0, <1>1, <1>2, <1>3, RecsSplit
<1>5. \A x \in RecsIn(h.view[q].recs), y \in RecsIn(first) : x.id # y.id
  <2>1. ASSUME NEW x \in RecsIn(h.view[q].recs), NEW y \in RecsIn(first)
        PROVE  x.id # y.id
    <3>1. y \in RecsIn(recs)
      <4>1. PICK j \in 1 .. n : y = recs[j]
        BY <1>4
      <4>2. j \in 1 .. Len(recs)
        BY <1>2, <1>3
      <4>3. QED
        BY <4>1, <4>2 DEF RecsIn
    <3>2. h.at[x.id] = q /\ h.at[y.id] = p
      BY <1>0, <3>1, GroupPlace
    <3>3. QED
      BY <1>0, <3>2
  <2>2. QED
    BY <2>1
<1>6. /\ h.view[q].recs \o first \in Seq(Rec) /\ DistinctIds(h.view[q].recs \o first)
      /\ RecsIn(h.view[q].recs \o first) = RecsIn(h.view[q].recs) \cup RecsIn(first)
  BY <1>1, <1>4, <1>5, RecsCat
<1>7. RecsIn(recs) = RecsIn(first) \cup RecsIn(rest)
  <2>1. \A k \in 1 .. m : k \in 1 .. n \/ k \in n + 1 .. m
    BY <1>3
  <2>2. \A k : k \in 1 .. n \/ k \in n + 1 .. m => k \in 1 .. m
    BY <1>3
  <2>3. QED
    BY <1>2, <1>4, <2>1, <2>2 DEF RecsIn
<1>8. \A x \in RecsIn(first), y \in RecsIn(rest) : x.id # y.id
  <2>1. ASSUME NEW x \in RecsIn(first), NEW y \in RecsIn(rest), x.id = y.id
        PROVE  FALSE
    <3>1. PICK j \in 1 .. n : x = recs[j]
      BY <1>4
    <3>2. PICK k \in n + 1 .. m : y = recs[k]
      BY <1>4
    <3>3. j \in 1 .. m /\ k \in 1 .. m /\ j # k
      BY <1>3
    <3>4. QED
      BY <1>1, <1>2, <2>1, <3>1, <3>2, <3>3 DEF DistinctIds
  <2>2. QED
    BY <2>1
<1>9. QED
  BY <1>4, <1>6, <1>7, <1>8

LEMMA RoomInt ==
  ASSUME NEW recs \in Seq(Rec)
  PROVE  Room(recs) \in Int
BY BytesNat, FileConstants DEF Room

(* The block of a group that a session packs, and the one after it, as they *)
(* are to be: the first n records of the second go to the first.            *)
Packed(u, job, h, k, q, p, n, blk, I) ==
  /\ u \in Users /\ Working(u) /\ Works(u, job)
  /\ q \in Place /\ p \in Place /\ p # q /\ p # 0 /\ q # 0
  /\ h.own[q] \in Groups /\ h.own[p] = h.own[q] /\ MyLock(u, h.own[q], TRUE) \in glock /\ UNCHANGED glock
  /\ n \in 0 .. Len(h.view[p].recs)
  /\ I = {x.id : x \in RecsIn(SubSeq(h.view[p].recs, 1, n))}
  /\ blk.recs = h.view[q].recs \o SubSeq(h.view[p].recs, 1, n)
  /\ k.view[q] = blk /\ k.own[q] = h.own[q] /\ k.kept = h.kept
  /\ \A j \in Ids : k.at[j] = IF j \in I THEN q ELSE h.at[j]

(* What it does to the ids of the records that move, and to the others.     *)
LEMMA PackedIds ==
  ASSUME HashInv, NEW h, Heap(h), NEW u, NEW job, NEW k, NEW q, NEW p, NEW n, NEW blk, NEW I,
         Packed(u, job, h, k, q, p, n, blk, I)
  PROVE  /\ I \subseteq Ids /\ \A i \in I : NewId(u, i, job, h, k)
         /\ \A i \in I : h.at[i] = p
         /\ \A r \in RecsIn(k.view[q].recs) : k.kept[r.id] = {r} /\ k.at[r.id] = q
         /\ DistinctIds(k.view[q].recs) /\ k.view[q].recs \in Seq(Rec)
         /\ \A r \in RecsIn(SubSeq(h.view[p].recs, n + 1, Len(h.view[p].recs))) :
              r.id \notin I /\ k.kept[r.id] = {r} /\ k.at[r.id] = p
         /\ \A j \in Ids : j \notin I /\ h.kept[j] # {} /\ h.at[j] = q => h.kept[j] \subseteq RecsIn(k.view[q].recs)
         /\ \A j \in Ids : j \notin I /\ h.kept[j] # {} /\ h.at[j] = p =>
              h.kept[j] \subseteq RecsIn(SubSeq(h.view[p].recs, n + 1, Len(h.view[p].recs)))
<1>1. PICK recs, first, rest : /\ recs = h.view[p].recs /\ first = SubSeq(recs, 1, n)
                               /\ rest = SubSeq(recs, n + 1, Len(recs))
  OBVIOUS
<1>2. /\ q \in Place /\ p \in Place /\ p # q /\ h.own[q] \in Groups /\ h.own[p] \in Groups
      /\ n \in 0 .. Len(recs) /\ I = {x.id : x \in RecsIn(first)} /\ p # 0 /\ q # 0
      /\ MyLock(u, h.own[q], TRUE) \in glock /\ MyLock(u, h.own[p], TRUE) \in glock
      /\ PackedAs(h, q, p, n, recs, first, rest)
      /\ u \in Users /\ Working(u) /\ Works(u, job)
  BY <1>1 DEF Packed, PackedAs
<1>3. /\ h.view[q].recs \o first \in Seq(Rec) /\ DistinctIds(h.view[q].recs \o first)
      /\ RecsIn(h.view[q].recs \o first) = RecsIn(h.view[q].recs) \cup RecsIn(first)
      /\ rest \in Seq(Rec) /\ DistinctIds(rest) /\ first \in Seq(Rec)
      /\ RecsIn(recs) = RecsIn(first) \cup RecsIn(rest)
      /\ \A x \in RecsIn(first), y \in RecsIn(rest) : x.id # y.id
  <2>1. h.view[q].recs \o first \in Seq(Rec) /\ DistinctIds(h.view[q].recs \o first)
    BY <1>2, PackedRecs
  <2>2. RecsIn(h.view[q].recs \o first) = RecsIn(h.view[q].recs) \cup RecsIn(first)
    BY <1>2, PackedRecs
  <2>3. rest \in Seq(Rec) /\ DistinctIds(rest) /\ first \in Seq(Rec)
    BY <1>2, PackedRecs
  <2>4. RecsIn(recs) = RecsIn(first) \cup RecsIn(rest)
    BY <1>2, PackedRecs
  <2>5. \A x \in RecsIn(first), y \in RecsIn(rest) : x.id # y.id
    BY <1>2, PackedRecs
  <2>6. QED
    BY <2>1, <2>2, <2>3, <2>4, <2>5
<1>4. k.view[q].recs = h.view[q].recs \o first
  BY <1>1 DEF Packed
<1>5. /\ k.own[q] = h.own[q] /\ k.kept = h.kept
      /\ \A j \in Ids : k.at[j] = IF j \in I THEN q ELSE h.at[j]
  BY DEF Packed
<1>6. \A x \in RecsIn(recs) : /\ x.id \in Ids /\ x.id \in DOMAIN proc[u].was /\ Home(x.id) = h.own[p]
                              /\ h.kept[x.id] = {x} /\ h.at[x.id] = p
  <2>1. ASSUME NEW x \in RecsIn(recs)
        PROVE  /\ x.id \in Ids /\ x.id \in DOMAIN proc[u].was /\ Home(x.id) = h.own[p]
               /\ h.kept[x.id] = {x} /\ h.at[x.id] = p
    <3>1. Mine(u, h, p, x)
      BY <1>1, <1>2 DEF Mine
    <3>2. x.id \in Ids /\ x.id \in DOMAIN proc[u].was
      BY <1>2, <3>1, MineIs
    <3>3. Home(x.id) = h.own[p]
      BY <1>2, <3>1, MineIs
    <3>4. h.kept[x.id] = {x} /\ h.at[x.id] = p
      BY <1>2, <3>1, MineIs
    <3>5. QED
      BY <3>2, <3>3, <3>4
  <2>2. QED
    BY <2>1
<1>7. \A x \in RecsIn(h.view[q].recs) : x.id \in Ids /\ h.kept[x.id] = {x} /\ h.at[x.id] = q
  <2>1. ASSUME NEW x \in RecsIn(h.view[q].recs)
        PROVE  x.id \in Ids /\ h.kept[x.id] = {x} /\ h.at[x.id] = q
    <3>1. Mine(u, h, q, x)
      BY <1>2 DEF Mine
    <3>2. QED
      BY <1>2, <3>1, MineIs
  <2>2. QED
    BY <2>1
<1>8. I \subseteq Ids /\ (\A i \in I : h.at[i] = p) /\ \A x \in RecsIn(h.view[q].recs) : x.id \notin I
  <2>1. \A i \in I : i \in Ids /\ h.at[i] = p
    BY <1>2, <1>3, <1>6
  <2>2. QED
    BY <1>2, <1>7, <2>1
<1>9. \A r \in RecsIn(k.view[q].recs) : k.kept[r.id] = {r} /\ k.at[r.id] = q
  <2>1. ASSUME NEW r \in RecsIn(first)
        PROVE  k.kept[r.id] = {r} /\ k.at[r.id] = q
    BY <1>2, <1>3, <1>5, <1>6, <1>8
  <2>2. ASSUME NEW r \in RecsIn(h.view[q].recs)
        PROVE  k.kept[r.id] = {r} /\ k.at[r.id] = q
    BY <1>5, <1>7, <1>8
  <2>3. QED
    BY <1>3, <1>4, <2>1, <2>2
<1>10. \A r \in RecsIn(rest) : r.id \notin I /\ k.kept[r.id] = {r} /\ k.at[r.id] = p
  <2>1. ASSUME NEW r \in RecsIn(rest)
        PROVE  r.id \notin I /\ k.kept[r.id] = {r} /\ k.at[r.id] = p
    <3>1. r.id \in Ids /\ h.kept[r.id] = {r} /\ h.at[r.id] = p
      BY <1>3, <1>6
    <3>2. r.id \notin I
      BY <1>2, <1>3
    <3>3. QED
      BY <1>5, <3>1, <3>2
  <2>2. QED
    BY <2>1
<1>11. ASSUME NEW j \in Ids, j \notin I, h.kept[j] # {}, h.at[j] \in {q, p}
       PROVE  /\ h.at[j] = q => h.kept[j] \subseteq RecsIn(k.view[q].recs)
              /\ h.at[j] = p => h.kept[j] \subseteq RecsIn(rest)
  <2>1. PICK r \in Rec : r.id = j /\ h.kept[j] = {r}
    BY <1>11 DEF Heap, IdOK
  <2>2. r \in RecsIn(h.view[h.at[j]].recs)
    BY <1>2, <1>11, <2>1 DEF Heap, IdOK, InPlace
  <2>3. h.at[j] = p => r \in RecsIn(rest)
    BY <1>1, <1>2, <1>3, <1>11, <2>1, <2>2
  <2>4. h.at[j] = q => r \in RecsIn(k.view[q].recs)
    BY <1>3, <1>4, <2>2
  <2>5. QED
    BY <2>1, <2>3, <2>4
<1>12. \A i \in I : NewId(u, i, job, h, k)
  <2>1. ASSUME NEW i \in I
        PROVE  NewId(u, i, job, h, k)
    <3>1. PICK x \in RecsIn(first) : x.id = i
      BY <1>2
    <3>2. x \in RecsIn(k.view[q].recs) /\ i \in DOMAIN proc[u].was /\ Home(i) = h.own[p] /\ h.kept[i] = {x}
      BY <1>3, <1>4, <1>6, <3>1
    <3>3. k.at[i] = q /\ k.own[q] = Home(i)
      BY <1>5, <1>8, <2>1, <3>2 DEF Packed
    <3>4. QED
      BY <1>2, <3>2, <3>3 DEF NewId
  <2>2. QED
    BY <2>1
<1>13. DistinctIds(k.view[q].recs) /\ k.view[q].recs \in Seq(Rec)
  BY <1>3, <1>4
<1>14. \A r \in RecsIn(SubSeq(h.view[p].recs, n + 1, Len(h.view[p].recs))) :
         r.id \notin I /\ k.kept[r.id] = {r} /\ k.at[r.id] = p
  BY <1>1, <1>10
<1>15. \A j \in Ids : j \notin I /\ h.kept[j] # {} /\ h.at[j] = q => h.kept[j] \subseteq RecsIn(k.view[q].recs)
  BY <1>11
<1>16. \A j \in Ids : j \notin I /\ h.kept[j] # {} /\ h.at[j] = p =>
         h.kept[j] \subseteq RecsIn(SubSeq(h.view[p].recs, n + 1, Len(h.view[p].recs)))
  BY <1>1, <1>11
<1>17. QED
  BY <1>8, <1>9, <1>12, <1>13, <1>14, <1>15, <1>16

LEMMA PackingHand ==
  ASSUME HashInv, NEW h, Heap(h), NEW u, NEW job, NEW q, NEW o, NEW p, Packs(u, job, q, o, p)
  PROVE  /\ WorkHand(job) = {q} /\ RestOf(proc[u]) = None /\ job \in JobType /\ WorkOK(u, job, h)
         /\ job.to[1] \in [at : Place, blk : Block] /\ job.to \in Seq([at : Place, blk : Block])
         /\ job.todo \in Seq(Rec) /\ DistinctIds(job.todo)
         /\ \A r \in RecsIn(job.todo) : /\ r.id \in Ids /\ h.kept[r.id] = {r} /\ h.at[r.id] = 0
                                        /\ r.id \in DOMAIN proc[u].was
         /\ h.ptr[SrcPos(u)] = None /\ h.ptr[RestPos(u)] = None /\ MyLock(u, h.own[q], TRUE) \in glock
<1>0. u \in Users /\ proc[u].at = "rewrite" /\ job = proc[u].job /\ q = job.to[1].at
  BY DEF Packs
<1>1. 1 \in 1 .. Len(job.to) /\ Len(job.to) = 1 /\ job.src = None /\ job.rest = None
  BY PackingIs
<1>2. /\ WorkOK(u, job, h) /\ job \in JobType /\ job.to \in Seq([at : Place, blk : Block]) /\ job.todo \in Seq(Rec)
      /\ DistinctIds(job.todo)
      /\ \A r \in RecsIn(job.todo) : h.kept[r.id] = {r} /\ h.at[r.id] = 0 /\ r.id \in DOMAIN proc[u].was
      /\ h.ptr[SrcPos(u)] = job.src /\ h.ptr[RestPos(u)] = job.rest
  <2>1. WorkOK(u, job, h) /\ job \in JobType /\ job.to \in Seq([at : Place, blk : Block])
    BY <1>0, RewriteIs
  <2>2. job.todo \in Seq(Rec) /\ DistinctIds(job.todo)
    BY <1>0, RewriteIs
  <2>3. \A r \in RecsIn(job.todo) : h.kept[r.id] = {r} /\ h.at[r.id] = 0 /\ r.id \in DOMAIN proc[u].was
    BY <1>0, RewriteIs
  <2>4. h.ptr[SrcPos(u)] = job.src /\ h.ptr[RestPos(u)] = job.rest
    BY <1>0, RewriteIs
  <2>5. QED
    BY <2>1, <2>2, <2>3, <2>4
<1>3. job.to[1] \in [at : Place, blk : Block] /\ BufferOK(u, job.to[1], h)
  BY <1>0, <1>1, RewriteIs
<1>4. WorkHand(job) = {q}
  BY <1>0, <1>1 DEF WorkHand
<1>5. RestOf(proc[u]) = None
  BY <1>0, <1>1 DEF RestOf
<1>6. MyLock(u, h.own[q], TRUE) \in glock
  BY <1>0, <1>3 DEF BufferOK
<1>7. \A r \in RecsIn(job.todo) : r.id \in Ids
  BY <1>0, <1>2, SomeRecs DEF Rec
<1>8. QED
  BY <1>0, <1>1, <1>2, <1>3, <1>4, <1>5, <1>6, <1>7

LEMMA MoveOnHeap ==
  ASSUME HashInv, NEW u \in Users, NEW h, Heap(h), block \in [Place -> Block], MoveOn(u)
  PROVE  \E k : Heap(k)' /\ k.kept = h.kept
<1>1. PICK job, q, o, p, recs : /\ job = proc[u].job /\ q = job.to[1].at /\ o = job.to[1].blk.next
                                /\ p = Overflow(o) /\ recs = h.view[p].recs
  OBVIOUS
<1>2. /\ proc[u].at = "rewrite" /\ Packing(u) /\ UNCHANGED <<fileEnd, freeChain, glock>> /\ Working(u)
  BY DEF MoveOn, Working
<1>3. PICK n : n = Fits(block[p].recs, Room(job.to[1].blk.recs))
  OBVIOUS
<1>4. PICK b1, b2, new :
        /\ b1 = BlockOf(h.view[q].recs \o SubSeq(recs, 1, n), h.view[q].next)
        /\ b2 = BlockOf(SubSeq(recs, n + 1, Len(recs)), h.view[p].next)
        /\ new = [job EXCEPT !.to = [job.to EXCEPT ![1] = Buffer(p, b2)], !.todo = job.todo]
  OBVIOUS
<1>5. Packs(u, job, q, o, p)
  BY <1>1, <1>2, StepOrderly DEF Steps, Packs
<1>6. /\ 1 \in 1 .. Len(job.to) /\ Len(job.to) = 1 /\ job.pack /\ job.src = None /\ job.rest = None
      /\ q \in Place /\ h.view[q] = job.to[1].blk /\ h.own[q] \in Groups
      /\ p \in Place /\ p # q /\ o \in Over /\ p \notin Groups /\ h.own[p] = h.own[q]
      /\ h.ptr[NextPos(q)] = o /\ h.view[q].next = o /\ block[p] = h.view[p]
      /\ (q \in Groups => ~AbsentGroup(q))
      /\ Touchable(u, q, h) /\ Touchable(u, p, h)
  <2>1. 1 \in 1 .. Len(job.to) /\ Len(job.to) = 1 /\ job.pack /\ job.src = None /\ job.rest = None
    BY <1>5, PackingIs
  <2>2. q \in Place /\ h.view[q] = job.to[1].blk /\ h.own[q] \in Groups
    BY <1>5, PackingIs
  <2>3. p \in Place /\ p # q /\ o \in Over /\ p \notin Groups /\ h.own[p] = h.own[q]
    BY <1>5, PackingIs
  <2>4. h.ptr[NextPos(q)] = o /\ h.view[q].next = o /\ block[p] = h.view[p]
    BY <1>5, PackingIs
  <2>5. (q \in Groups => ~AbsentGroup(q)) /\ Touchable(u, q, h) /\ Touchable(u, p, h)
    BY <1>5, PackingIs
  <2>6. QED
    BY <2>1, <2>2, <2>3, <2>4, <2>5
<1>7. /\ WorkHand(job) = {q} /\ RestOf(proc[u]) = None /\ job \in JobType /\ WorkOK(u, job, h)
      /\ job.to[1] \in [at : Place, blk : Block] /\ job.to \in Seq([at : Place, blk : Block])
      /\ job.todo \in Seq(Rec) /\ DistinctIds(job.todo)
      /\ (\A r \in RecsIn(job.todo) : /\ r.id \in Ids /\ h.kept[r.id] = {r} /\ h.at[r.id] = 0
                                      /\ r.id \in DOMAIN proc[u].was)
      /\ h.ptr[SrcPos(u)] = None /\ h.ptr[RestPos(u)] = None /\ MyLock(u, h.own[q], TRUE) \in glock
  <2>1. WorkHand(job) = {q} /\ RestOf(proc[u]) = None /\ job \in JobType /\ WorkOK(u, job, h)
    BY <1>5, PackingHand
  <2>2. job.to[1] \in [at : Place, blk : Block] /\ job.to \in Seq([at : Place, blk : Block])
    BY <1>5, PackingHand
  <2>3. job.todo \in Seq(Rec) /\ DistinctIds(job.todo)
    BY <1>5, PackingHand
  <2>4. \A r \in RecsIn(job.todo) : /\ r.id \in Ids /\ h.kept[r.id] = {r} /\ h.at[r.id] = 0
                                    /\ r.id \in DOMAIN proc[u].was
    BY <1>5, PackingHand
  <2>5. h.ptr[SrcPos(u)] = None /\ h.ptr[RestPos(u)] = None /\ MyLock(u, h.own[q], TRUE) \in glock
    BY <1>5, PackingHand
  <2>6. QED
    BY <2>1, <2>2, <2>3, <2>4, <2>5
<1>8. /\ h.view \in [Place -> Block] /\ h.at \in [Ids -> Nat] /\ Chained(h.ptr, h.own, fileEnd)
      /\ h.ptr[FreePos] = freeChain
  BY DEF Heap
<1>9. p # 0 /\ q # 0 /\ q \in Nat
  BY <1>6, FileConstants DEF Place
<1>10. recs \in Seq(Rec) /\ h.view[q].recs \in Seq(Rec) /\ h.view[p].next \in Over \cup {None}
       /\ h.ptr[NextPos(p)] = h.view[p].next /\ h.view[p].part = NoPart /\ h.view[q].part = NoPart
       /\ OverflowNo(p) <= fileEnd /\ (q \notin Groups => OverflowNo(q) <= fileEnd)
  <2>1. recs \in Seq(Rec) /\ h.view[p].next \in Over \cup {None} /\ h.ptr[NextPos(p)] = h.view[p].next
    BY <1>1, <1>6, GroupPlace
  <2>2. h.view[p].part = NoPart /\ OverflowNo(p) <= fileEnd
    BY <1>6, GroupPlace
  <2>3. h.view[q].recs \in Seq(Rec) /\ h.view[q].part = NoPart /\ (q \notin Groups => OverflowNo(q) <= fileEnd)
    BY <1>6, GroupPlace
  <2>4. QED
    BY <2>1, <2>2, <2>3
<1>11. n \in 0 .. Len(recs)
  BY <1>1, <1>3, <1>6, <1>10, FitsIn, RoomInt
<1>12. PICK I : I = {x.id : x \in RecsIn(SubSeq(recs, 1, n))}
  OBVIOUS
<1>13. PICK k : k = [view |-> [h.view EXCEPT ![q] = b1, ![p] = b2], ptr |-> h.ptr, own |-> h.own, kept |-> h.kept,
                     at |-> [j \in Ids |-> IF j \in I THEN q ELSE h.at[j]]]
  OBVIOUS
<1>14. /\ k.view = [h.view EXCEPT ![q] = b1, ![p] = b2] /\ k.ptr = h.ptr /\ k.own = h.own /\ k.kept = h.kept
       /\ k.at = [j \in Ids |-> IF j \in I THEN q ELSE h.at[j]]
  BY <1>13
<1>15. /\ k.view[q] = b1 /\ k.view[p] = b2 /\ \A x \in Place : x # q /\ x # p => k.view[x] = h.view[x]
  BY <1>6, <1>8, <1>14
<1>16. Works(u, new)
  <2>1. Works(u, [job EXCEPT !.to[1] = Buffer(p, BlockOf(SubSeq(recs, n + 1, Len(recs)), h.view[p].next))])
    BY <1>1, <1>3, <1>6 DEF MoveOn, Job, Cur
  <2>2. PICK b : b = Buffer(p, b2)
    OBVIOUS
  <2>3. [job EXCEPT !.to[1] = b] = new
    BY <1>4, <1>7, <2>2, JobPut
  <2>4. QED
    BY <1>4, <2>1, <2>2, <2>3
<1>17. Packed(u, new, h, k, q, p, n, b1, I)
  <2>1. b1.recs = h.view[q].recs \o SubSeq(recs, 1, n)
    BY <1>4 DEF BlockOf
  <2>2. QED
    BY <1>1, <1>2, <1>16, <1>6, <1>7, <1>9, <1>11, <1>12, <1>14, <1>15, <2>1 DEF Packed
<1>18. /\ I \subseteq Ids /\ (\A i \in I : NewId(u, i, new, h, k))
       /\ (\A i \in I : h.at[i] = p)
       /\ (\A r \in RecsIn(b1.recs) : k.kept[r.id] = {r} /\ k.at[r.id] = q)
       /\ DistinctIds(b1.recs) /\ b1.recs \in Seq(Rec)
       /\ (\A r \in RecsIn(b2.recs) : r.id \notin I /\ k.kept[r.id] = {r} /\ k.at[r.id] = p)
       /\ (\A j \in Ids : j \notin I /\ h.kept[j] # {} /\ h.at[j] = q => h.kept[j] \subseteq RecsIn(b1.recs))
       /\ (\A j \in Ids : j \notin I /\ h.kept[j] # {} /\ h.at[j] = p => h.kept[j] \subseteq RecsIn(b2.recs))
  <2>0. b2.recs = SubSeq(h.view[p].recs, n + 1, Len(h.view[p].recs)) /\ k.view[q] = b1
    <3>1. b2.recs = SubSeq(recs, n + 1, Len(recs))
      BY <1>4 DEF BlockOf
    <3>2. QED
      BY <1>1, <1>15, <3>1
  <2>9. /\ I \subseteq Ids /\ (\A i \in I : NewId(u, i, new, h, k)) /\ (\A i \in I : h.at[i] = p)
        /\ DistinctIds(k.view[q].recs) /\ k.view[q].recs \in Seq(Rec)
    BY <1>17, PackedIds
  <2>1. I \subseteq Ids /\ (\A i \in I : NewId(u, i, new, h, k))
    BY <2>9
  <2>2. \A i \in I : h.at[i] = p
    BY <2>9
  <2>3. \A r \in RecsIn(b1.recs) : k.kept[r.id] = {r} /\ k.at[r.id] = q
    BY <1>17, <2>0, PackedIds
  <2>4. DistinctIds(b1.recs) /\ b1.recs \in Seq(Rec)
    BY <2>0, <2>9
  <2>5. \A r \in RecsIn(b2.recs) : r.id \notin I /\ k.kept[r.id] = {r} /\ k.at[r.id] = p
    BY <1>17, <2>0, PackedIds
  <2>6. \A j \in Ids : j \notin I /\ h.kept[j] # {} /\ h.at[j] = q => h.kept[j] \subseteq RecsIn(b1.recs)
    BY <1>17, <2>0, PackedIds
  <2>7. \A j \in Ids : j \notin I /\ h.kept[j] # {} /\ h.at[j] = p => h.kept[j] \subseteq RecsIn(b2.recs)
    BY <1>17, <2>0, PackedIds
  <2>8. QED
    BY <2>1, <2>2, <2>3, <2>4, <2>5, <2>6, <2>7, Zenon
<1>19. /\ b1 \in Block /\ b2 \in Block /\ DistinctIds(b2.recs) /\ b1.next = h.view[q].next /\ b2.next = h.view[p].next
       /\ b1.part = NoPart /\ b2.part = NoPart /\ RecsIn(recs) = RecsIn(SubSeq(recs, 1, n)) \cup RecsIn(b2.recs)
  <2>1. PICK first, rest : first = SubSeq(recs, 1, n) /\ rest = SubSeq(recs, n + 1, Len(recs))
    OBVIOUS
  <2>2. PackedAs(h, q, p, n, recs, first, rest)
    BY <1>1, <1>6, <1>11, <2>1 DEF PackedAs
  <2>3. h.view[q].recs \o first \in Seq(Rec) /\ rest \in Seq(Rec)
    BY <2>2, PackedRecs
  <2>4. DistinctIds(rest) /\ RecsIn(recs) = RecsIn(first) \cup RecsIn(rest)
    BY <2>2, PackedRecs
  <2>5. NoPart \in Part /\ h.view[q].next \in Over \cup {None}
    BY <1>6 DEF NoPart, Part
  <2>6. b1 = BlockOf(h.view[q].recs \o first, h.view[q].next) /\ b2 = BlockOf(rest, h.view[p].next)
    BY <1>4, <2>1
  <2>7. b1 \in Block /\ b2 \in Block
    BY <1>10, <2>3, <2>5, <2>6 DEF BlockOf, Block
  <2>8. QED
    BY <2>1, <2>4, <2>6, <2>7 DEF BlockOf
<1>20. k.view \in [Place -> Block] /\ k.at \in [Ids -> Nat]
  <2>1. k.view \in [Place -> Block]
    BY <1>6, <1>8, <1>14, <1>19
  <2>2. k.at \in [Ids -> Nat]
    BY <1>8, <1>9, <1>14
  <2>3. QED
    BY <2>1, <2>2
<1>21. /\ WorkOK(u, new, k) /\ p \in WorkHand(new) /\ WorkHand(job) \subseteq {q, p} \cup WorkHand(new)
       /\ new.todo = job.todo /\ new.src = None /\ new.rest = None
  <2>1. PICK b : b = Buffer(p, b2)
    OBVIOUS
  <2>2. b \in [at : Place, blk : Block] /\ b.at = p /\ b.blk = b2
    BY <1>6, <1>19, <2>1 DEF Buffer
  <2>3. \A j \in 1 .. Len(job.to) : j # 1 => /\ k.view[job.to[j].at] = h.view[job.to[j].at]
                                             /\ k.own[job.to[j].at] = h.own[job.to[j].at]
    BY <1>6
  <2>4. Exchanged(u, h, k, job, 1, b, job.todo, new)
    BY <1>1, <1>4, <1>6, <1>7, <1>14, <1>15, <2>1, <2>2, <2>3 DEF Exchanged
  <2>5. /\ WorkOK(u, new, k) /\ b.at \in WorkHand(new)
        /\ new.todo = job.todo /\ new.src = job.src /\ new.rest = job.rest
    BY <2>4, PutWork
  <2>6. QED
    BY <1>6, <1>7, <2>2, <2>5
<1>22. /\ block'[q] = b1 /\ \A x \in Place : x # q => block'[x] = block[x]
  <2>1. block' = [block EXCEPT ![q] = b1]
    BY <1>1, <1>3, <1>4, <1>6 DEF MoveOn, Job, Cur
  <2>2. QED
    BY <1>6, <2>1
<1>23. NewPlace(u, q, new, h, k)
  <2>1. k.ptr[NextPos(q)] = k.view[q].next /\ k.view[q].part = NoPart
    BY <1>6, <1>14, <1>15, <1>19
  <2>2. block'[q] = k.view[q] /\ (q \notin Groups => OverflowNo(q) <= fileEnd')
    BY <1>2, <1>10, <1>15, <1>22
  <2>3. DistinctIds(k.view[q].recs) /\ \A r \in RecsIn(k.view[q].recs) : k.kept[r.id] = {r} /\ k.at[r.id] = q
    BY <1>15, <1>18
  <2>4. QED
    BY <1>6, <1>10, <2>1, <2>2, <2>3 DEF NewPlace
<1>24. NewPlace(u, p, new, h, k)
  <2>1. k.ptr[NextPos(p)] = k.view[p].next /\ k.view[p].part = NoPart /\ OverflowNo(p) <= fileEnd'
    BY <1>2, <1>10, <1>14, <1>15, <1>19
  <2>2. DistinctIds(k.view[p].recs) /\ \A r \in RecsIn(k.view[p].recs) : k.kept[r.id] = {r} /\ k.at[r.id] = p
    BY <1>15, <1>18, <1>19
  <2>3. QED
    BY <1>6, <1>10, <1>21, <2>1, <2>2 DEF NewPlace
<1>25. \A x \in Place : x \notin {q, p} => SamePlace(x, h, k)
  BY <1>14, <1>15, <1>22 DEF SamePlace
<1>26. \A j \in Ids : j \notin I => SameId(u, j, {q, p}, new, h, k)
  <2>1. ASSUME NEW j \in Ids, j \notin I
        PROVE  SameId(u, j, {q, p}, new, h, k)
    <3>1. k.at[j] = h.at[j]
      BY <1>14, <2>1
    <3>2. ASSUME h.kept[j] # {}, h.at[j] \in {q, p}
          PROVE  k.own[h.at[j]] = h.own[h.at[j]] /\ h.kept[j] \subseteq RecsIn(k.view[h.at[j]].recs)
      <4>1. CASE h.at[j] = q
        BY <1>14, <1>15, <1>18, <2>1, <3>2, <4>1
      <4>2. CASE h.at[j] = p
        BY <1>14, <1>15, <1>18, <2>1, <3>2, <4>2
      <4>3. QED
        BY <3>2, <4>1, <4>2
    <3>3. QED
      BY <1>7, <3>1, <3>2 DEF SameId
  <2>2. QED
    BY <2>1
<1>27. SamePtr(u, h, k) /\ k.ptr[SrcPos(u)] = new.src /\ k.ptr[RestPos(u)] = new.rest
  BY <1>7, <1>14, <1>21 DEF SamePtr
<1>28. \A x \in Place : x \notin {q, p} => \A r \in RecsIn(h.view[x].recs) : r.id \notin I
  <2>1. ASSUME NEW x \in Place, x # p, NEW r \in RecsIn(h.view[x].recs)
        PROVE  r.id \notin I
    <3>1. h.at[r.id] = x
      BY <2>1 DEF Heap, PlaceOK
    <3>2. QED
      BY <1>18, <2>1, <3>1
  <2>2. QED
    BY <2>1
<1>29. /\ DistinctIds(new.todo) /\ (\A r \in RecsIn(proc[u].job.todo) : r.id \in I \/ r \in RecsIn(new.todo))
       /\ \A r \in RecsIn(new.todo) : k.kept[r.id] = {r} /\ k.at[r.id] = 0 /\ r.id \in DOMAIN proc[u].was
  <2>1. \A r \in RecsIn(job.todo) : r.id \notin I
    BY <1>7, <1>9, <1>18
  <2>2. QED
    BY <1>1, <1>7, <1>14, <1>21, <2>1
<1>30. fileEnd <= fileEnd' /\ Chained(k.ptr, k.own, fileEnd') /\ k.ptr[FreePos] = freeChain'
  BY <1>2, <1>8, <1>14, PtrIs
<1>31. Heap(k)'
  <2>1. {q, p} \in SUBSET Place /\ I \in SUBSET Ids
    BY <1>6, <1>18
  <2>2. \A x \in {q, p} : NewPlace(u, x, new, h, k)
    BY <1>23, <1>24
  <2>3. WorkHand(proc[u].job) \subseteq {q, p} \cup WorkHand(new)
    BY <1>1, <1>21
  <2>4. \A i \in I : NewId(u, i, new, h, k)
    BY <1>18
  <2>5. k.kept = h.kept
    BY <1>14
  <2>6. QED
    BY <1>2, <1>16, <1>20, <1>21, <1>25, <1>26, <1>27, <1>28, <1>29, <1>30, <2>1, <2>2, <2>3, <2>4, <2>5, WorkHeap
<1>32. QED
  BY <1>14, <1>31

(* Three pointers and a place that goes to the free chain.                  *)
Freeing(h, x, o, p, ptr, own) ==
  /\ x \in Pos /\ o \in Over /\ h.ptr[x] = o /\ p = Overflow(o)
  /\ \/ \E q \in Place : x = NextPos(q) /\ q # p
     \/ \E u \in Users : x = SrcPos(u) /\ h.ptr[NextPos(p)] = None
  /\ ptr = Turned(h.ptr, x, NextPos(p), FreePos) /\ own = [h.own EXCEPT ![p] = 0]

LEMMA FreedTurn ==
  ASSUME NEW h, Heap(h), NEW x, NEW o, NEW p, NEW ptr, NEW own, Freeing(h, x, o, p, ptr, own)
  PROVE  /\ Chained(ptr, own, fileEnd) /\ ptr[x] = h.ptr[NextPos(p)] /\ ptr[NextPos(p)] = h.ptr[FreePos]
         /\ ptr[FreePos] = o /\ \A y \in Pos : y \notin {x, NextPos(p), FreePos} => ptr[y] = h.ptr[y]
         /\ own[p] = 0 /\ \A q \in Place : q # p => own[q] = h.own[q]
<1>0. /\ x \in Pos /\ o \in Over /\ h.ptr[x] = o /\ p = Overflow(o)
      /\ \/ \E q \in Place : x = NextPos(q) /\ q # p
         \/ \E u \in Users : x = SrcPos(u) /\ h.ptr[NextPos(p)] = None
      /\ ptr = Turned(h.ptr, x, NextPos(p), FreePos) /\ own = [h.own EXCEPT ![p] = 0]
  BY DEF Freeing
<1>1. Chained(h.ptr, h.own, fileEnd) /\ p \in Place
  BY <1>0, Places DEF Heap
<1>2. h.own \in [Place -> Int] /\ h.ptr \in [Pos -> Over \cup {None}]
  BY <1>1, PtrIs
<1>3. own[p] = 0 /\ \A q \in Place : q # p => own[q] = h.own[q]
  BY <1>0, <1>1, <1>2
<1>4. x # FreePos /\ x # NextPos(p) /\ NextPos(p) # FreePos /\ NextPos(p) \in Pos /\ FreePos \in Pos
  BY <1>0, <1>1, PosDiffer, PosIn
<1>5. 0 \in Int /\ Law(FreePos, o, own)
  <2>1. own[Overflow(o)] = 0
    BY <1>0, <1>3
  <2>2. Law(FreePos, o, own) <=> own[Overflow(o)] = 0
    BY Laws
  <2>3. QED
    BY <2>1, <2>2
<1>6. \/ h.ptr[NextPos(Overflow(o))] = None \/ x = FreePos \/ (\E q \in Place : x = NextPos(q)) \/ \E u \in Users : x = RestPos(u)
  BY <1>0
<1>7. Chained(ptr, own, fileEnd)
  <2>1. Chained(Turned(h.ptr, x, NextPos(Overflow(o)), FreePos), [h.own EXCEPT ![Overflow(o)] = 0], fileEnd)
    BY <1>0, <1>1, <1>4, <1>5, <1>6, Turn
  <2>2. QED
    BY <1>0, <2>1
<1>8. /\ ptr[x] = h.ptr[NextPos(p)] /\ ptr[NextPos(p)] = h.ptr[FreePos] /\ ptr[FreePos] = o
      /\ \A y \in Pos : y \notin {x, NextPos(p), FreePos} => ptr[y] = h.ptr[y]
  <2>1. \A y \in Pos : ptr[y] = IF y = x THEN h.ptr[NextPos(p)] ELSE IF y = NextPos(p) THEN h.ptr[FreePos]
                                ELSE IF y = FreePos THEN h.ptr[x] ELSE h.ptr[y]
    BY <1>0, <1>2, <1>4, TurnedIs
  <2>2. QED
    BY <1>0, <1>4, <2>1
<1>9. QED
  BY <1>3, <1>7, <1>8

LEMMA WholeSeq ==
  ASSUME NEW s \in Seq(Rec)
  PROVE  SubSeq(s, 1, Len(s)) = s /\ SubSeq(s, Len(s) + 1, Len(s)) = <<>>
OBVIOUS

LEMMA DechainHeap ==
  ASSUME HashInv, NEW u \in Users, NEW h, Heap(h), block \in [Place -> Block], Dechain(u)
  PROVE  \E k : Heap(k)' /\ k.kept = h.kept
<1>1. PICK job, q, o, p, recs : /\ job = proc[u].job /\ q = job.to[1].at /\ o = job.to[1].blk.next
                                /\ p = Overflow(o) /\ recs = h.view[p].recs
  OBVIOUS
<1>2. /\ proc[u].at = "rewrite" /\ Packing(u) /\ UNCHANGED <<fileEnd, glock>> /\ Working(u)
  BY DEF Dechain, Working, FreeOverflow
<1>3. PICK n : n = Len(recs)
  OBVIOUS
<1>4. PICK b1, b2, new :
        /\ b1 = BlockOf(h.view[q].recs \o recs, h.view[p].next)
        /\ b2 = [Empty EXCEPT !.next = freeChain]
        /\ new = [job EXCEPT !.to = [job.to EXCEPT ![1] = [at |-> q, blk |-> b1]], !.todo = job.todo]
  OBVIOUS
<1>5. Packs(u, job, q, o, p)
  BY <1>1, <1>2, StepOrderly DEF Steps, Packs
<1>6. /\ 1 \in 1 .. Len(job.to) /\ Len(job.to) = 1 /\ job.pack /\ job.src = None /\ job.rest = None
      /\ q \in Place /\ h.view[q] = job.to[1].blk /\ h.own[q] \in Groups
      /\ p \in Place /\ p # q /\ o \in Over /\ p \notin Groups /\ h.own[p] = h.own[q]
      /\ h.ptr[NextPos(q)] = o /\ h.view[q].next = o /\ block[p] = h.view[p]
      /\ (q \in Groups => ~AbsentGroup(q))
      /\ Touchable(u, q, h) /\ Touchable(u, p, h)
  <2>1. 1 \in 1 .. Len(job.to) /\ Len(job.to) = 1 /\ job.pack /\ job.src = None /\ job.rest = None
    BY <1>5, PackingIs
  <2>2. q \in Place /\ h.view[q] = job.to[1].blk /\ h.own[q] \in Groups
    BY <1>5, PackingIs
  <2>3. p \in Place /\ p # q /\ o \in Over /\ p \notin Groups /\ h.own[p] = h.own[q]
    BY <1>5, PackingIs
  <2>4. h.ptr[NextPos(q)] = o /\ h.view[q].next = o /\ block[p] = h.view[p]
    BY <1>5, PackingIs
  <2>5. (q \in Groups => ~AbsentGroup(q)) /\ Touchable(u, q, h) /\ Touchable(u, p, h)
    BY <1>5, PackingIs
  <2>6. QED
    BY <2>1, <2>2, <2>3, <2>4, <2>5
<1>7. /\ WorkHand(job) = {q} /\ RestOf(proc[u]) = None /\ job \in JobType /\ WorkOK(u, job, h)
      /\ job.to[1] \in [at : Place, blk : Block] /\ job.to \in Seq([at : Place, blk : Block])
      /\ job.todo \in Seq(Rec) /\ DistinctIds(job.todo)
      /\ (\A r \in RecsIn(job.todo) : /\ r.id \in Ids /\ h.kept[r.id] = {r} /\ h.at[r.id] = 0
                                      /\ r.id \in DOMAIN proc[u].was)
      /\ h.ptr[SrcPos(u)] = None /\ h.ptr[RestPos(u)] = None /\ MyLock(u, h.own[q], TRUE) \in glock
  <2>1. WorkHand(job) = {q} /\ RestOf(proc[u]) = None /\ job \in JobType /\ WorkOK(u, job, h)
    BY <1>5, PackingHand
  <2>2. job.to[1] \in [at : Place, blk : Block] /\ job.to \in Seq([at : Place, blk : Block])
    BY <1>5, PackingHand
  <2>3. job.todo \in Seq(Rec) /\ DistinctIds(job.todo)
    BY <1>5, PackingHand
  <2>4. \A r \in RecsIn(job.todo) : /\ r.id \in Ids /\ h.kept[r.id] = {r} /\ h.at[r.id] = 0
                                    /\ r.id \in DOMAIN proc[u].was
    BY <1>5, PackingHand
  <2>5. h.ptr[SrcPos(u)] = None /\ h.ptr[RestPos(u)] = None /\ MyLock(u, h.own[q], TRUE) \in glock
    BY <1>5, PackingHand
  <2>6. QED
    BY <2>1, <2>2, <2>3, <2>4, <2>5
<1>8. /\ h.view \in [Place -> Block] /\ h.at \in [Ids -> Nat] /\ Chained(h.ptr, h.own, fileEnd)
      /\ h.ptr[FreePos] = freeChain
  BY DEF Heap
<1>9. p # 0 /\ q # 0 /\ q \in Nat
  BY <1>6, FileConstants DEF Place
<1>10. recs \in Seq(Rec) /\ h.view[q].recs \in Seq(Rec) /\ h.view[p].next \in Over \cup {None}
       /\ h.ptr[NextPos(p)] = h.view[p].next /\ h.view[p].part = NoPart /\ h.view[q].part = NoPart
       /\ OverflowNo(p) <= fileEnd /\ (q \notin Groups => OverflowNo(q) <= fileEnd)
  <2>1. recs \in Seq(Rec) /\ h.view[p].next \in Over \cup {None} /\ h.ptr[NextPos(p)] = h.view[p].next
    BY <1>1, <1>6, GroupPlace
  <2>2. h.view[p].part = NoPart /\ OverflowNo(p) <= fileEnd
    BY <1>6, GroupPlace
  <2>3. h.view[q].recs \in Seq(Rec) /\ h.view[q].part = NoPart /\ (q \notin Groups => OverflowNo(q) <= fileEnd)
    BY <1>6, GroupPlace
  <2>4. QED
    BY <2>1, <2>2, <2>3
<1>11. n \in 0 .. Len(recs) /\ SubSeq(recs, 1, n) = recs /\ SubSeq(recs, n + 1, Len(recs)) = <<>>
  <2>1. n \in Nat
    BY <1>3, <1>10
  <2>2. QED
    BY <1>3, <1>10, <2>1, WholeSeq
<1>12. PICK I : I = {x.id : x \in RecsIn(SubSeq(recs, 1, n))}
  OBVIOUS
<1>13. PICK k : k = [view |-> [h.view EXCEPT ![q] = b1, ![p] = b2],
                     ptr |-> Turned(h.ptr, NextPos(q), NextPos(p), FreePos),
                     own |-> [h.own EXCEPT ![p] = 0], kept |-> h.kept,
                     at |-> [j \in Ids |-> IF j \in I THEN q ELSE h.at[j]]]
  OBVIOUS
<1>14. /\ k.view = [h.view EXCEPT ![q] = b1, ![p] = b2] /\ k.kept = h.kept
       /\ k.ptr = Turned(h.ptr, NextPos(q), NextPos(p), FreePos) /\ k.own = [h.own EXCEPT ![p] = 0]
       /\ k.at = [j \in Ids |-> IF j \in I THEN q ELSE h.at[j]]
  BY <1>13
<1>15. /\ k.view[q] = b1 /\ k.view[p] = b2 /\ \A x \in Place : x # q /\ x # p => k.view[x] = h.view[x]
  BY <1>6, <1>8, <1>14
<1>33. /\ Chained(k.ptr, k.own, fileEnd) /\ k.ptr[NextPos(q)] = h.view[p].next /\ k.ptr[NextPos(p)] = freeChain
       /\ k.ptr[FreePos] = o /\ (\A y \in Pos : y \notin {NextPos(q), NextPos(p), FreePos} => k.ptr[y] = h.ptr[y])
       /\ k.own[p] = 0 /\ \A x \in Place : x # p => k.own[x] = h.own[x]
  <2>1. Freeing(h, NextPos(q), o, p, k.ptr, k.own)
    BY <1>1, <1>6, <1>14, PosIn DEF Freeing
  <2>2. Chained(k.ptr, k.own, fileEnd)
    BY <2>1, FreedTurn
  <2>3. k.ptr[NextPos(q)] = h.view[p].next /\ k.ptr[NextPos(p)] = freeChain
    BY <1>8, <1>10, <2>1, FreedTurn
  <2>4. k.ptr[FreePos] = o /\ (\A y \in Pos : y \notin {NextPos(q), NextPos(p), FreePos} => k.ptr[y] = h.ptr[y])
    BY <2>1, FreedTurn
  <2>5. k.own[p] = 0 /\ \A x \in Place : x # p => k.own[x] = h.own[x]
    BY <2>1, FreedTurn
  <2>6. QED
    BY <2>2, <2>3, <2>4, <2>5
<1>16. Works(u, new)
  <2>1. Works(u, [job EXCEPT !.to[1].blk = b1])
    BY <1>1, <1>4, <1>6 DEF Dechain, Job, Cur
  <2>2. job.to[1] = [at |-> q, blk |-> h.view[q]]
    BY <1>1, <1>6, <1>7
  <2>3. [job EXCEPT !.to[1].blk = b1] = new
    <3>1. PICK c : c = h.view[q]
      OBVIOUS
    <3>2. job.to[1] = [at |-> q, blk |-> c]
      BY <2>2, <3>1
    <3>3. BlockPut(job, 1, q, c, b1, new)
      BY <1>4, <1>7, <3>2 DEF BlockPut
    <3>4. QED
      BY <3>3, JobPutBlock
  <2>4. QED
    BY <2>1, <2>3
<1>17. Packed(u, new, h, k, q, p, n, b1, I)
  <2>1. b1.recs = h.view[q].recs \o SubSeq(recs, 1, n)
    BY <1>4, <1>11 DEF BlockOf
  <2>2. k.own[q] = h.own[q]
    BY <1>6, <1>33
  <2>3. QED
    BY <1>1, <1>2, <1>16, <1>6, <1>7, <1>9, <1>11, <1>12, <1>14, <1>15, <2>1, <2>2 DEF Packed
<1>18. /\ I \subseteq Ids /\ (\A i \in I : NewId(u, i, new, h, k))
       /\ (\A i \in I : h.at[i] = p)
       /\ (\A r \in RecsIn(b1.recs) : k.kept[r.id] = {r} /\ k.at[r.id] = q)
       /\ DistinctIds(b1.recs) /\ b1.recs \in Seq(Rec)
       /\ (\A j \in Ids : j \notin I /\ h.kept[j] # {} /\ h.at[j] = q => h.kept[j] \subseteq RecsIn(b1.recs))
       /\ (\A j \in Ids : j \notin I /\ h.kept[j] # {} => h.at[j] # p)
  <2>0. k.view[q] = b1
    BY <1>15
  <2>9. /\ I \subseteq Ids /\ (\A i \in I : NewId(u, i, new, h, k)) /\ (\A i \in I : h.at[i] = p)
        /\ DistinctIds(k.view[q].recs) /\ k.view[q].recs \in Seq(Rec)
    BY <1>17, PackedIds
  <2>1. I \subseteq Ids /\ (\A i \in I : NewId(u, i, new, h, k))
    BY <2>9
  <2>2. \A i \in I : h.at[i] = p
    BY <2>9
  <2>3. \A r \in RecsIn(b1.recs) : k.kept[r.id] = {r} /\ k.at[r.id] = q
    BY <1>17, <2>0, PackedIds
  <2>4. DistinctIds(b1.recs) /\ b1.recs \in Seq(Rec)
    BY <2>0, <2>9
  <2>6. \A j \in Ids : j \notin I /\ h.kept[j] # {} /\ h.at[j] = q => h.kept[j] \subseteq RecsIn(b1.recs)
    BY <1>17, <2>0, PackedIds
  <2>7. \A j \in Ids : j \notin I /\ h.kept[j] # {} => h.at[j] # p
    <3>1. \A j \in Ids : j \notin I /\ h.kept[j] # {} /\ h.at[j] = p =>
            h.kept[j] \subseteq RecsIn(SubSeq(h.view[p].recs, n + 1, Len(h.view[p].recs)))
      BY <1>17, PackedIds
    <3>2. RecsIn(SubSeq(h.view[p].recs, n + 1, Len(h.view[p].recs))) = {}
      BY <1>1, <1>11, NoRecs
    <3>3. QED
      BY <3>1, <3>2
  <2>8. QED
    BY <2>1, <2>2, <2>3, <2>4, <2>6, <2>7, Zenon
<1>19. /\ b1 \in Block /\ b2 \in Block /\ b1.next = h.view[p].next /\ b2.next = freeChain /\ b2.recs = <<>>
       /\ b1.part = NoPart /\ b2.part = NoPart
  <2>1. NoPart \in Part /\ <<>> \in Seq(Rec)
    BY DEF NoPart, Part
  <2>2. freeChain \in Over \cup {None}
    BY <1>8, PtrIs, PosIn
  <2>3. b1 \in Block /\ b1.next = h.view[p].next /\ b1.part = NoPart
    BY <1>4, <1>10, <1>18, <2>1 DEF BlockOf, Block
  <2>4. b2 = [recs |-> <<>>, next |-> freeChain, part |-> NoPart]
    BY <1>4 DEF Empty
  <2>5. QED
    BY <2>1, <2>2, <2>3, <2>4 DEF Block
<1>20. k.view \in [Place -> Block] /\ k.at \in [Ids -> Nat]
  <2>1. k.view \in [Place -> Block]
    BY <1>6, <1>8, <1>14, <1>19
  <2>2. k.at \in [Ids -> Nat]
    BY <1>8, <1>9, <1>14
  <2>3. QED
    BY <2>1, <2>2
<1>21. /\ WorkOK(u, new, k) /\ q \in WorkHand(new) /\ WorkHand(job) \subseteq {q, p} \cup WorkHand(new)
       /\ new.todo = job.todo /\ new.src = None /\ new.rest = None
  <2>1. PICK b : b = [at |-> q, blk |-> b1]
    OBVIOUS
  <2>2. b \in [at : Place, blk : Block] /\ b.at = q /\ b.blk = b1
    BY <1>6, <1>19, <2>1
  <2>3. \A j \in 1 .. Len(job.to) : j # 1 => /\ k.view[job.to[j].at] = h.view[job.to[j].at]
                                             /\ k.own[job.to[j].at] = h.own[job.to[j].at]
    BY <1>6
  <2>6. k.own[q] = h.own[q]
    BY <1>6, <1>33
  <2>4. Exchanged(u, h, k, job, 1, b, job.todo, new)
    BY <1>1, <1>4, <1>6, <1>7, <1>15, <2>1, <2>2, <2>3, <2>6 DEF Exchanged
  <2>5. /\ WorkOK(u, new, k) /\ b.at \in WorkHand(new)
        /\ new.todo = job.todo /\ new.src = job.src /\ new.rest = job.rest
    BY <2>4, PutWork
  <2>7. QED
    BY <1>6, <1>7, <2>2, <2>5
<1>22. /\ block'[p] = b2 /\ (\A x \in Place : x # p => block'[x] = block[x]) /\ freeChain' = o
  <2>1. block' = [block EXCEPT ![p] = b2] /\ freeChain' = o
    BY <1>1, <1>4 DEF Dechain, FreeOverflow, Job, Cur
  <2>2. QED
    BY <1>6, <2>1
<1>23. NewPlace(u, q, new, h, k)
  <2>1. k.ptr[NextPos(q)] = k.view[q].next /\ k.view[q].part = NoPart
    BY <1>15, <1>19, <1>33
  <2>2. q \in WorkHand(new) /\ (q \notin Groups => OverflowNo(q) <= fileEnd')
    BY <1>2, <1>10, <1>21
  <2>3. DistinctIds(k.view[q].recs) /\ \A r \in RecsIn(k.view[q].recs) : k.kept[r.id] = {r} /\ k.at[r.id] = q
    BY <1>15, <1>18
  <2>4. QED
    BY <1>6, <1>10, <2>1, <2>2, <2>3 DEF NewPlace
<1>24. NewPlace(u, p, new, h, k)
  <2>1. k.ptr[NextPos(p)] = k.view[p].next /\ k.view[p].part = NoPart /\ OverflowNo(p) <= fileEnd'
    BY <1>2, <1>10, <1>15, <1>19, <1>33
  <2>2. DistinctIds(k.view[p].recs) /\ \A r \in RecsIn(k.view[p].recs) : k.kept[r.id] = {r} /\ k.at[r.id] = p
    BY <1>15, <1>19, NoRecs
  <2>3. QED
    BY <1>6, <1>10, <1>15, <1>22, <2>1, <2>2 DEF NewPlace
<1>25. \A x \in Place : x \notin {q, p} => SamePlace(x, h, k)
  <2>1. ASSUME NEW x \in Place, x \notin {q, p}
        PROVE  SamePlace(x, h, k)
    <3>1. k.ptr[NextPos(x)] = h.ptr[NextPos(x)]
      BY <1>33, <2>1, PosDiffer, PosIn
    <3>2. QED
      BY <1>15, <1>22, <1>33, <2>1, <3>1 DEF SamePlace
  <2>2. QED
    BY <2>1
<1>26. \A j \in Ids : j \notin I => SameId(u, j, {q, p}, new, h, k)
  <2>1. ASSUME NEW j \in Ids, j \notin I
        PROVE  SameId(u, j, {q, p}, new, h, k)
    <3>1. k.at[j] = h.at[j]
      BY <1>14, <2>1
    <3>2. ASSUME h.kept[j] # {}, h.at[j] \in {q, p}
          PROVE  k.own[h.at[j]] = h.own[h.at[j]] /\ h.kept[j] \subseteq RecsIn(k.view[h.at[j]].recs)
      <4>1. h.at[j] = q
        BY <1>18, <2>1, <3>2
      <4>2. QED
        BY <1>6, <1>15, <1>18, <1>33, <2>1, <3>2, <4>1
    <3>3. QED
      BY <1>7, <3>1, <3>2 DEF SameId
  <2>2. QED
    BY <2>1
<1>27. SamePtr(u, h, k) /\ k.ptr[SrcPos(u)] = new.src /\ k.ptr[RestPos(u)] = new.rest
  <2>1. SamePtr(u, h, k)
    BY <1>6, <1>33 DEF SamePtr
  <2>2. SrcPos(u) \in Pos /\ RestPos(u) \in Pos /\ SrcPos(u) \notin {NextPos(q), NextPos(p), FreePos}
        /\ RestPos(u) \notin {NextPos(q), NextPos(p), FreePos}
    BY PosDiffer, PosIn
  <2>3. QED
    BY <1>7, <1>21, <1>33, <2>1, <2>2
<1>28. \A x \in Place : x \notin {q, p} => \A r \in RecsIn(h.view[x].recs) : r.id \notin I
  <2>1. ASSUME NEW x \in Place, x # p, NEW r \in RecsIn(h.view[x].recs)
        PROVE  r.id \notin I
    <3>1. h.at[r.id] = x
      BY <2>1 DEF Heap, PlaceOK
    <3>2. QED
      BY <1>18, <2>1, <3>1
  <2>2. QED
    BY <2>1
<1>29. /\ DistinctIds(new.todo) /\ (\A r \in RecsIn(proc[u].job.todo) : r.id \in I \/ r \in RecsIn(new.todo))
       /\ \A r \in RecsIn(new.todo) : k.kept[r.id] = {r} /\ k.at[r.id] = 0 /\ r.id \in DOMAIN proc[u].was
  <2>1. \A r \in RecsIn(job.todo) : r.id \notin I
    BY <1>7, <1>9, <1>18
  <2>2. QED
    BY <1>1, <1>7, <1>14, <1>21, <2>1
<1>30. fileEnd <= fileEnd' /\ Chained(k.ptr, k.own, fileEnd') /\ k.ptr[FreePos] = freeChain'
  BY <1>2, <1>8, <1>22, <1>33, PtrIs
<1>31. Heap(k)'
  <2>1. {q, p} \in SUBSET Place /\ I \in SUBSET Ids
    BY <1>6, <1>18
  <2>2. \A x \in {q, p} : NewPlace(u, x, new, h, k)
    BY <1>23, <1>24
  <2>3. WorkHand(proc[u].job) \subseteq {q, p} \cup WorkHand(new)
    BY <1>1, <1>21
  <2>4. \A i \in I : NewId(u, i, new, h, k)
    BY <1>18
  <2>5. k.kept = h.kept
    BY <1>14
  <2>6. QED
    BY <1>2, <1>16, <1>20, <1>21, <1>25, <1>26, <1>27, <1>28, <1>29, <1>30, <2>1, <2>2, <2>3, <2>4, <2>5, WorkHeap
<1>32. QED
  BY <1>14, <1>31

(* A session turns to another source block.                                 *)
SourceSet(u, h, k, job, todo, src, rest, new) ==
  /\ WorkOK(u, job, h) /\ todo \in Seq(Rec) /\ src \in Over \cup {None} /\ rest \in Over \cup {None}
  /\ new = [job EXCEPT !.todo = todo, !.src = src, !.rest = rest]
  /\ \A j \in 1 .. Len(job.to) : /\ k.view[job.to[j].at] = h.view[job.to[j].at]
                                 /\ k.own[job.to[j].at] = h.own[job.to[j].at]
  /\ src # None => k.view[Overflow(src)] = Empty
  /\ job.pack => src = None /\ rest = None
  /\ rest # None => job.rest # None
  /\ todo # <<>> => job.todo # <<>> \/ job.rest # None
  /\ src # None => job.rest # None \/ job.src # None

LEMMA SourceWork ==
  ASSUME NEW u \in Users, NEW h, NEW k, NEW job, NEW todo, NEW src, NEW rest, NEW new,
         SourceSet(u, h, k, job, todo, src, rest, new)
  PROVE  /\ WorkOK(u, new, k) /\ new.todo = todo /\ new.src = src /\ new.rest = rest
         /\ WorkHand(new) = {job.to[t].at : t \in 1 .. Len(job.to)} \cup IF src = None THEN {} ELSE {Overflow(src)}
<1>0. /\ WorkOK(u, job, h) /\ todo \in Seq(Rec) /\ src \in Over \cup {None} /\ rest \in Over \cup {None}
      /\ new = [job EXCEPT !.todo = todo, !.src = src, !.rest = rest]
      /\ (\A j \in 1 .. Len(job.to) : /\ k.view[job.to[j].at] = h.view[job.to[j].at]
                                      /\ k.own[job.to[j].at] = h.own[job.to[j].at])
      /\ (src # None => k.view[Overflow(src)] = Empty)
      /\ (job.pack => src = None /\ rest = None)
      /\ (rest # None => job.rest # None)
      /\ (todo # <<>> => job.todo # <<>> \/ job.rest # None)
      /\ (src # None => job.rest # None \/ job.src # None)
  BY DEF SourceSet
<1>1. /\ job \in JobType /\ job.to \in Seq([at : Place, blk : Block]) /\ job.pack \in BOOLEAN
      /\ job.new \in Groups \cup {None}
  BY <1>0 DEF WorkOK, JobType
<1>2. /\ new.to = job.to /\ new.pack = job.pack /\ new.todo = todo /\ new.src = src
      /\ new.rest = rest /\ new.new = job.new /\ new \in JobType
  BY <1>0, <1>1 DEF JobType
<1>3. \A j \in 1 .. Len(job.to) : BufferOK(u, job.to[j], k)
  BY <1>0 DEF WorkOK, BufferOK
<1>4. \A i : TargetOf(new, i) = TargetOf(job, i)
  BY <1>2 DEF TargetOf
<1>5. Len(job.to) <= 2 /\ \A j \in 1 .. Len(new.to) : BufferOK(u, new.to[j], k)
  BY <1>0, <1>2, <1>3 DEF WorkOK
<1>6. Len(new.to) = 2 => k.own[new.to[1].at] # k.own[new.to[2].at]
  <2>1. Len(job.to) = 2 => 1 \in 1 .. Len(job.to) /\ 2 \in 1 .. Len(job.to)
    OBVIOUS
  <2>2. QED
    BY <1>0, <1>2, <2>1 DEF WorkOK
<1>7. new.src # None => k.view[Overflow(new.src)] = Empty
  BY <1>0, <1>2
<1>8. /\ new.pack => Len(new.to) <= 1 /\ new.src = None /\ new.rest = None /\ new.new = None
      /\ new.rest # None \/ new.new # None => proc[u].then.at = "release"
      /\ new.todo # <<>> \/ new.rest # None \/ new.src # None => new.to # <<>>
  BY <1>0, <1>2 DEF WorkOK
<1>9. ASSUME new.todo # <<>> \/ new.rest # None
      PROVE  /\ new.new # None => Len(new.to) = 2
             /\ ~new.pack => \A j \in 1 .. Len(new.to) : new.to[j].blk.next = None
             /\ \A i \in DOMAIN proc[u].was : Home(i) = k.own[new.to[TargetOf(new, i)].at]
  <2>1. job.todo # <<>> \/ job.rest # None
    BY <1>0, <1>2, <1>9
  <2>2. job.new # None => Len(job.to) = 2
    BY <1>0, <2>1 DEF WorkOK
  <2>3. ~job.pack => \A j \in 1 .. Len(job.to) : job.to[j].blk.next = None
    BY <1>0, <2>1 DEF WorkOK
  <2>4. \A i \in DOMAIN proc[u].was : Home(i) = h.own[job.to[TargetOf(job, i)].at]
    BY <1>0, <2>1 DEF WorkOK
  <2>5. Len(job.to) \in Nat /\ 1 \in 1 .. Len(job.to)
    <3>1. job.to # <<>>
      BY <1>0, <2>1 DEF WorkOK
    <3>2. QED
      BY <1>1, <3>1
  <2>6. ASSUME NEW i \in DOMAIN proc[u].was
        PROVE  Home(i) = k.own[new.to[TargetOf(new, i)].at]
    <3>1. PICK j \in 1 .. Len(job.to) : j = TargetOf(job, i)
      BY <2>2, <2>5 DEF TargetOf
    <3>2. Home(i) = h.own[job.to[j].at]
      BY <2>4, <3>1
    <3>3. QED
      BY <1>0, <1>2, <1>4, <3>1, <3>2
  <2>7. QED
    BY <1>2, <2>2, <2>3, <2>6
<1>10. WorkOK(u, new, k)
  BY <1>2, <1>5, <1>6, <1>7, <1>8, <1>9 DEF WorkOK
<1>11. QED
  BY <1>2, <1>10 DEF WorkHand

(* A source block that has been copied.                                     *)
LEMMA SourceIs ==
  ASSUME HashInv, NEW u \in Users, NEW h, Heap(h), proc[u].at = "rewrite", NEW job, job = proc[u].job,
         job.src # None
  PROVE  /\ job.src \in Over /\ Overflow(job.src) \in Place /\ Overflow(job.src) \notin Groups
         /\ h.view[Overflow(job.src)] = Empty /\ h.ptr[NextPos(Overflow(job.src))] = None
         /\ h.own[Overflow(job.src)] = Overflow(job.src) /\ job.src <= fileEnd
         /\ \A j \in 1 .. Len(job.to) : job.to[j].at # Overflow(job.src) /\ job.to[j].at \in Place
<1>1. WorkOK(u, job, h) /\ job \in JobType /\ h.ptr[SrcPos(u)] = job.src
  BY RewriteIs
<1>2. \A j \in 1 .. Len(job.to) : BufferOK(u, job.to[j], h) /\ job.to[j] \in [at : Place, blk : Block]
  BY RewriteIs
<1>3. job.src \in Over /\ Overflow(job.src) \in Place /\ Overflow(job.src) \notin Groups
  BY <1>1, Places DEF JobType
<1>4. SrcOf(proc[u]) = job.src
  BY DEF SrcOf
<1>5. h.own[Overflow(job.src)] = Overflow(job.src) /\ job.src <= fileEnd
  BY <1>4, SrcOwn
<1>6. h.view[Overflow(job.src)] = Empty
  BY <1>1 DEF WorkOK
<1>7. h.ptr[NextPos(Overflow(job.src))] = None
  BY <1>3, <1>6 DEF Heap, PlaceOK, Empty
<1>8. \A j \in 1 .. Len(job.to) : job.to[j].at # Overflow(job.src) /\ job.to[j].at \in Place
  BY <1>2, <1>3, <1>5 DEF BufferOK
<1>9. QED
  BY <1>3, <1>5, <1>6, <1>7, <1>8

LEMMA GiveAwayHeap ==
  ASSUME HashInv, NEW u \in Users, NEW h, Heap(h), block \in [Place -> Block], GiveAway(u)
  PROVE  \E k : Heap(k)' /\ k.kept = h.kept
<1>1. PICK job, o, p, b, new : /\ job = proc[u].job /\ o = job.src /\ p = Overflow(o)
                               /\ b = [Empty EXCEPT !.next = freeChain]
                               /\ new = [job EXCEPT !.todo = job.todo, !.src = None, !.rest = job.rest]
  OBVIOUS
<1>2. /\ proc[u].at = "rewrite" /\ o # None /\ UNCHANGED <<fileEnd, glock>> /\ Working(u) /\ job.todo = <<>>
  BY <1>1 DEF GiveAway, Copied, Job, FreeOverflow, Working
<1>3. /\ WorkOK(u, job, h) /\ job \in JobType /\ job.to \in Seq([at : Place, blk : Block]) /\ job.todo \in Seq(Rec)
      /\ h.ptr[SrcPos(u)] = job.src /\ h.ptr[RestPos(u)] = job.rest
  <2>1. WorkOK(u, job, h) /\ job \in JobType /\ job.to \in Seq([at : Place, blk : Block])
    BY <1>1, <1>2, RewriteIs
  <2>2. job.todo \in Seq(Rec) /\ h.ptr[SrcPos(u)] = job.src /\ h.ptr[RestPos(u)] = job.rest
    BY <1>1, <1>2, RewriteIs
  <2>3. QED
    BY <2>1, <2>2
<1>4. /\ o \in Over /\ p \in Place /\ p \notin Groups /\ h.view[p] = Empty /\ h.ptr[NextPos(p)] = None
      /\ h.own[p] = p /\ o <= fileEnd /\ OverflowNo(p) = o
  <2>1. o \in Over /\ p \in Place /\ p \notin Groups
    BY <1>1, <1>2, SourceIs
  <2>2. h.view[p] = Empty /\ h.ptr[NextPos(p)] = None
    BY <1>1, <1>2, SourceIs
  <2>3. h.own[p] = p /\ o <= fileEnd
    BY <1>1, <1>2, SourceIs
  <2>4. QED
    BY <1>1, <2>1, <2>2, <2>3, Places
<1>5. \A j \in 1 .. Len(job.to) : job.to[j].at # p /\ job.to[j].at \in Place
  BY <1>1, <1>2, SourceIs
<1>6. /\ h.view \in [Place -> Block] /\ h.at \in [Ids -> Nat] /\ Chained(h.ptr, h.own, fileEnd)
      /\ h.ptr[FreePos] = freeChain
  BY DEF Heap
<1>7. freeChain \in Over \cup {None} /\ fileEnd \in Int
  BY <1>6, PtrIs, PosIn
<1>8. b \in Block /\ b.next = freeChain /\ b.recs = <<>> /\ b.part = NoPart
  <2>1. b = [recs |-> <<>>, next |-> freeChain, part |-> NoPart]
    BY <1>1 DEF Empty
  <2>2. NoPart \in Part /\ <<>> \in Seq(Rec)
    BY DEF NoPart, Part
  <2>3. QED
    BY <1>7, <2>1, <2>2 DEF Block
<1>9. Works(u, new)
  <2>1. [job EXCEPT !.src = None] = new
    BY <1>1, <1>3 DEF JobType
  <2>2. QED
    BY <1>1, <2>1 DEF GiveAway, Job
<1>10. PICK k : k = [view |-> [h.view EXCEPT ![p] = b], ptr |-> Turned(h.ptr, SrcPos(u), NextPos(p), FreePos),
                     own |-> [h.own EXCEPT ![p] = 0], kept |-> h.kept, at |-> h.at]
  OBVIOUS
<1>11. /\ k.view = [h.view EXCEPT ![p] = b] /\ k.ptr = Turned(h.ptr, SrcPos(u), NextPos(p), FreePos)
       /\ k.own = [h.own EXCEPT ![p] = 0] /\ k.kept = h.kept /\ k.at = h.at
  BY <1>10
<1>12. /\ k.view \in [Place -> Block] /\ k.view[p] = b /\ \A x \in Place : x # p => k.view[x] = h.view[x]
  BY <1>4, <1>6, <1>8, <1>11
<1>13. Freeing(h, SrcPos(u), o, p, k.ptr, k.own)
  BY <1>1, <1>3, <1>4, <1>11, PosIn DEF Freeing
<1>14. /\ Chained(k.ptr, k.own, fileEnd) /\ k.ptr[SrcPos(u)] = None /\ k.ptr[NextPos(p)] = freeChain
       /\ k.ptr[FreePos] = o /\ (\A y \in Pos : y \notin {SrcPos(u), NextPos(p), FreePos} => k.ptr[y] = h.ptr[y])
       /\ k.own[p] = 0 /\ \A x \in Place : x # p => k.own[x] = h.own[x]
  <2>1. Chained(k.ptr, k.own, fileEnd) /\ k.ptr[SrcPos(u)] = None
    BY <1>4, <1>13, FreedTurn
  <2>2. k.ptr[NextPos(p)] = freeChain /\ k.ptr[FreePos] = o
    BY <1>6, <1>13, FreedTurn
  <2>3. \A y \in Pos : y \notin {SrcPos(u), NextPos(p), FreePos} => k.ptr[y] = h.ptr[y]
    BY <1>13, FreedTurn
  <2>4. k.own[p] = 0 /\ \A x \in Place : x # p => k.own[x] = h.own[x]
    BY <1>13, FreedTurn
  <2>5. QED
    BY <2>1, <2>2, <2>3, <2>4
<1>15. /\ WorkOK(u, new, k) /\ new.todo = job.todo /\ new.src = None /\ new.rest = job.rest
       /\ WorkHand(job) \subseteq {p} \cup WorkHand(new)
  <2>1. SourceSet(u, h, k, job, job.todo, None, job.rest, new)
    <3>1. \A j \in 1 .. Len(job.to) : /\ k.view[job.to[j].at] = h.view[job.to[j].at]
                                      /\ k.own[job.to[j].at] = h.own[job.to[j].at]
      BY <1>5, <1>12, <1>14
    <3>2. job.rest \in Over \cup {None} /\ (job.pack => job.rest = None)
      BY <1>3 DEF JobType, WorkOK
    <3>3. QED
      BY <1>1, <1>3, <3>1, <3>2 DEF SourceSet
  <2>2. WorkOK(u, new, k) /\ new.todo = job.todo /\ new.src = None /\ new.rest = job.rest
    BY <2>1, SourceWork
  <2>3. WorkHand(new) = {job.to[t].at : t \in 1 .. Len(job.to)} \cup {}
    BY <2>1, SourceWork
  <2>4. QED
    BY <1>1, <1>2, <2>2, <2>3 DEF WorkHand
<1>16. block'[p] = b /\ (\A x \in Place : x # p => block'[x] = block[x]) /\ freeChain' = o
  <2>1. block' = [block EXCEPT ![p] = b] /\ freeChain' = o
    BY <1>1 DEF GiveAway, FreeOverflow, Job
  <2>2. QED
    BY <1>4, <2>1
<1>17. NewPlace(u, p, new, h, k)
  <2>1. Touchable(u, p, h)
    BY <1>1, <1>2, <1>3, <1>4 DEF Touchable
  <2>2. k.ptr[NextPos(p)] = k.view[p].next /\ k.view[p].part = NoPart /\ h.view[p].part = NoPart
    BY <1>4, <1>8, <1>12, <1>14 DEF Empty
  <2>3. DistinctIds(k.view[p].recs) /\ \A r \in RecsIn(k.view[p].recs) : k.kept[r.id] = {r} /\ k.at[r.id] = p
    BY <1>8, <1>12, NoRecs
  <2>4. OverflowNo(p) <= fileEnd'
    BY <1>2, <1>4
  <2>5. QED
    BY <1>4, <1>12, <1>16, <2>1, <2>2, <2>3, <2>4 DEF NewPlace
<1>18. \A x \in Place : x \notin {p} => SamePlace(x, h, k)
  <2>1. ASSUME NEW x \in Place, x \notin {p}
        PROVE  SamePlace(x, h, k)
    <3>1. k.ptr[NextPos(x)] = h.ptr[NextPos(x)]
      BY <1>14, <2>1, PosDiffer, PosIn
    <3>2. QED
      BY <1>12, <1>14, <1>16, <2>1, <3>1 DEF SamePlace
  <2>2. QED
    BY <2>1
<1>19. \A j \in Ids : j \notin {} => SameId(u, j, {p}, new, h, k)
  <2>1. ASSUME NEW j \in Ids
        PROVE  SameId(u, j, {p}, new, h, k)
    <3>1. h.kept[j] # {} => h.at[j] # p
      <4>1. ASSUME h.kept[j] # {}, h.at[j] = p
            PROVE  FALSE
        <5>1. p # 0
          BY <1>4, FileConstants DEF Place
        <5>2. h.kept[j] \subseteq RecsIn(h.view[p].recs)
          BY <4>1, <5>1 DEF Heap, IdOK, InPlace
        <5>3. RecsIn(h.view[p].recs) = {}
          BY <1>4, NoRecs DEF Empty
        <5>4. QED
          BY <4>1, <5>2, <5>3
      <4>2. QED
        BY <4>1
    <3>2. RestOf(proc[u]) = job.rest
      BY <1>1, <1>2 DEF RestOf
    <3>3. QED
      BY <1>11, <1>15, <3>1, <3>2 DEF SameId
  <2>2. QED
    BY <2>1
<1>20. SamePtr(u, h, k) /\ k.ptr[SrcPos(u)] = new.src /\ k.ptr[RestPos(u)] = new.rest
  <2>1. SamePtr(u, h, k)
    BY <1>4, <1>14 DEF SamePtr
  <2>2. RestPos(u) \in Pos /\ RestPos(u) \notin {SrcPos(u), NextPos(p), FreePos}
    BY PosDiffer, PosIn
  <2>3. QED
    BY <1>3, <1>14, <1>15, <2>1, <2>2
<1>21. /\ DistinctIds(new.todo) /\ (\A r \in RecsIn(proc[u].job.todo) : r.id \in {} \/ r \in RecsIn(new.todo))
       /\ \A r \in RecsIn(new.todo) : k.kept[r.id] = {r} /\ k.at[r.id] = 0 /\ r.id \in DOMAIN proc[u].was
  BY <1>1, <1>2, <1>15, NoRecs
<1>22. fileEnd <= fileEnd' /\ Chained(k.ptr, k.own, fileEnd') /\ k.ptr[FreePos] = freeChain'
  BY <1>2, <1>7, <1>14, <1>16
<1>23. Heap(k)'
  <2>0. PICK I : I = {}
    OBVIOUS
  <2>1. {p} \in SUBSET Place /\ I \in SUBSET Ids
    BY <1>4, <2>0
  <2>2. \A x \in {p} : NewPlace(u, x, new, h, k)
    BY <1>17
  <2>3. WorkHand(proc[u].job) \subseteq {p} \cup WorkHand(new)
    BY <1>1, <1>15
  <2>4. (\A i \in I : NewId(u, i, new, h, k))
        /\ \A x \in Place : x \notin {p} => \A r \in RecsIn(h.view[x].recs) : r.id \notin I
    BY <2>0
  <2>7. \A j \in Ids : j \notin I => SameId(u, j, {p}, new, h, k)
    BY <1>19, <2>0
  <2>8. \A r \in RecsIn(proc[u].job.todo) : r.id \in I \/ r \in RecsIn(new.todo)
    BY <1>21
  <2>5. k.kept = h.kept /\ k.at \in [Ids -> Nat]
    BY <1>6, <1>11
  <2>6. QED
    BY <1>2, <1>9, <1>12, <1>15, <1>18, <1>20, <1>21, <1>22, <2>1, <2>2, <2>3, <2>4, <2>5, <2>7, <2>8, WorkHeap
<1>24. QED
  BY <1>11, <1>23

(* The next source block, and what is still to be moved after it.           *)
Resting(u, job, o, p) ==
  u \in Users /\ proc[u].at = "rewrite" /\ job = proc[u].job /\ o = job.rest /\ o # None /\ p = Overflow(o)

LEMMA RestIs ==
  ASSUME HashInv, NEW h, Heap(h), NEW u, NEW job, NEW o, NEW p, Resting(u, job, o, p)
  PROVE  /\ o \in Over /\ p \in Place /\ p \notin Groups /\ OverflowNo(p) = o /\ o <= fileEnd
         /\ h.own[p] = Moving /\ block[p] = h.view[p] /\ h.ptr[RestPos(u)] = o
         /\ h.view[p].part = NoPart /\ h.ptr[NextPos(p)] = h.view[p].next /\ DistinctIds(h.view[p].recs)
         /\ h.view[p].recs \in Seq(Rec) /\ h.view[p].next \in Over \cup {None}
         /\ (\A r \in RecsIn(h.view[p].recs) : r.id \in Ids /\ h.kept[r.id] = {r} /\ h.at[r.id] = p
                                               /\ r.id \in DOMAIN proc[u].was)
         /\ h.view[p].next = None => \A q \in Place : h.own[q] = Moving => q = p
<1>0. u \in Users /\ proc[u].at = "rewrite" /\ job = proc[u].job /\ o = job.rest /\ o # None /\ p = Overflow(o)
  BY DEF Resting
<1>1. WorkOK(u, job, h) /\ job \in JobType /\ h.ptr[RestPos(u)] = job.rest
  BY <1>0, RewriteIs
<1>2. Chained(h.ptr, h.own, fileEnd)
  BY DEF Heap
<1>3. o \in Over /\ p \in Place /\ p \notin Groups /\ OverflowNo(p) = o
  BY <1>0, <1>1, Places DEF JobType
<1>4. o <= fileEnd /\ fileEnd \in Int
  BY <1>0, <1>1, <1>2, PosIn, PtrIs
<1>5. h.own[p] = Moving
  BY <1>0, <1>1, <1>2, OwnIs
<1>6. block[p] = h.view[p]
  BY <1>0, <1>3, <1>5, OnDiskMoving
<1>7. /\ h.view[p].part = NoPart /\ h.ptr[NextPos(p)] = h.view[p].next /\ DistinctIds(h.view[p].recs)
      /\ \A r \in RecsIn(h.view[p].recs) : h.kept[r.id] = {r} /\ h.at[r.id] = p
  <2>1. h.own[p] \in Groups \cup {Moving}
    BY <1>0, <1>5
  <2>2. h.view[p].part = NoPart /\ h.ptr[NextPos(p)] = h.view[p].next /\ DistinctIds(h.view[p].recs)
    BY <1>0, <1>3, <2>1, GroupPlace
  <2>3. \A r \in RecsIn(h.view[p].recs) : h.kept[r.id] = {r} /\ h.at[r.id] = p
    BY <1>0, <1>3, <2>1, GroupPlace
  <2>4. QED
    BY <1>0, <2>2, <2>3
<1>8. h.view[p].recs \in Seq(Rec) /\ h.view[p].next \in Over \cup {None}
  BY <1>0, <1>3, <1>5, GroupPlace
<1>9. RestOf(proc[u]) # None
  BY <1>0 DEF RestOf
<1>10. \A v \in Users : RestOf(proc[v]) # None => v = u
  <2>1. ASSUME NEW v \in Users, RestOf(proc[v]) # None
        PROVE  Resizing(v)
    <3>1. proc[v].at = "rewrite" /\ proc[v].job.rest # None
      BY <1>0, <2>1 DEF RestOf
    <3>2. proc[v].then.at = "release"
      BY <3>1 DEF Heap, HeldOK, JobOK
    <3>3. QED
      BY <3>1, <3>2 DEF Resizing
  <2>2. QED
    BY <1>0, <1>9, <2>1 DEF HashInv, OneResizes
<1>11. \A r \in RecsIn(h.view[p].recs) : r.id \in Ids /\ r.id \in DOMAIN proc[u].was
  <2>1. ASSUME NEW r \in RecsIn(h.view[p].recs)
        PROVE  r.id \in Ids /\ r.id \in DOMAIN proc[u].was
    <3>1. r.id \in Ids
      BY <1>0, <1>8, <2>1, SomeRecs DEF Rec
    <3>2. h.kept[r.id] = {r} /\ h.at[r.id] = p /\ p # 0
      BY <1>0, <1>3, <1>7, <2>1, FileConstants DEF Place
    <3>3. InPlace(r.id, h)
      BY <3>1, <3>2 DEF Heap, IdOK
    <3>4. Home(r.id) # Moving
      BY <3>1, HomePresent, Owners
    <3>5. \E v \in Users : RestOf(proc[v]) # None /\ r.id \in DOMAIN proc[v].was
      BY <1>0, <1>5, <3>2, <3>3, <3>4 DEF InPlace
    <3>6. QED
      BY <1>0, <1>10, <3>1, <3>5
  <2>2. QED
    BY <1>0, <2>1
<1>12. ASSUME h.view[p].next = None, NEW q \in Place, h.own[q] = Moving
       PROVE  q = p
  <2>1. SUFFICES ASSUME q # p
                 PROVE  FALSE
    OBVIOUS
  <2>2. q \notin Groups
    <3>1. \A g \in Groups : h.own[Primary(g)] = g /\ Primary(g) = g
      BY <1>0, <1>2, PtrIs, Places
    <3>2. QED
      BY <1>0, <1>12, <3>1, Owners
  <2>3. OverflowNo(q) \in Over /\ Overflow(OverflowNo(q)) = q
    BY <1>0, <2>2, Places
  <2>4. OverflowNo(q) <= fileEnd
    <3>1. PlaceOK(q, h)
      BY DEF Heap
    <3>2. OverflowNo(q) > fileEnd => h.own[q] = 0
      BY <1>0, <2>2, <3>1 DEF PlaceOK
    <3>3. OverflowNo(q) \in Int
      BY <1>0, <2>3, FileConstants DEF Over
    <3>4. QED
      BY <1>0, <1>4, <1>12, <3>2, <3>3, Owners
  <2>5. PICK S \in SUBSET Over : S = {k \in Over : k <= fileEnd /\ h.own[Overflow(k)] = Moving /\ k # o}
    OBVIOUS
  <2>6. OverflowNo(q) \in S
    BY <1>0, <1>12, <2>1, <2>3, <2>4, <2>5
  <2>7. PICK m \in S, x \in Pos : h.ptr[x] = m /\ \A k \in S : x # NextPos(Overflow(k))
    <3>1. S # {} /\ \A k \in S : k <= fileEnd
      BY <1>0, <2>5, <2>6
    <3>2. QED
      BY <1>0, <1>2, <3>1, FirstOf
  <2>8. m # None /\ h.own[Overflow(m)] = Moving /\ m # o
    BY <1>0, <2>5, <2>7, Places
  <2>9. x # RestPos(u)
    BY <1>0, <1>1, <2>7, <2>8
  <2>10. PICK k \in Over : k <= fileEnd /\ h.own[Overflow(k)] = Moving /\ x = NextPos(Overflow(k))
    BY <1>0, <1>9, <2>7, <2>8, <2>9, RestHead DEF OnlyHead
  <2>11. k = o
    BY <1>0, <2>5, <2>7, <2>10
  <2>12. h.ptr[x] = None
    BY <1>0, <1>7, <1>12, <2>10, <2>11
  <2>13. QED
    BY <1>0, <2>7, <2>8, <2>12
<1>13. QED
  BY <1>0, <1>1, <1>3, <1>4, <1>5, <1>6, <1>7, <1>8, <1>11, <1>12

LEMMA RestLast ==
  ASSUME HashInv, NEW h, Heap(h), NEW u, NEW job, NEW o, NEW p, Resting(u, job, o, p),
         h.view[p].next = None, NEW q \in Place, h.own[q] = Moving
  PROVE  q = p
BY RestIs

(* Three pointers and the block a session turns to.                         *)
Turning(u, h, o, p, ptr, own) ==
  /\ u \in Users /\ o \in Over /\ h.ptr[RestPos(u)] = o /\ h.ptr[SrcPos(u)] = None /\ p = Overflow(o)
  /\ ptr = Turned(h.ptr, RestPos(u), NextPos(p), SrcPos(u)) /\ own = [h.own EXCEPT ![p] = p]

LEMMA RestTurn ==
  ASSUME NEW h, Heap(h), NEW u, NEW o, NEW p, NEW ptr, NEW own, Turning(u, h, o, p, ptr, own)
  PROVE  /\ Chained(ptr, own, fileEnd) /\ ptr[RestPos(u)] = h.ptr[NextPos(p)] /\ ptr[NextPos(p)] = None
         /\ ptr[SrcPos(u)] = o
         /\ (\A y \in Pos : y \notin {RestPos(u), NextPos(p), SrcPos(u)} => ptr[y] = h.ptr[y])
         /\ own[p] = p /\ \A q \in Place : q # p => own[q] = h.own[q]
<1>0. /\ u \in Users /\ o \in Over /\ h.ptr[RestPos(u)] = o /\ h.ptr[SrcPos(u)] = None /\ p = Overflow(o)
      /\ ptr = Turned(h.ptr, RestPos(u), NextPos(p), SrcPos(u)) /\ own = [h.own EXCEPT ![p] = p]
  BY DEF Turning
<1>1. Chained(h.ptr, h.own, fileEnd) /\ p \in Place
  BY <1>0, Places DEF Heap
<1>2. h.own \in [Place -> Int] /\ h.ptr \in [Pos -> Over \cup {None}]
  BY <1>0, <1>1, PtrIs
<1>3. own[p] = p /\ \A q \in Place : q # p => own[q] = h.own[q]
  BY <1>0, <1>1, <1>2
<1>4. /\ RestPos(u) # SrcPos(u) /\ RestPos(u) # NextPos(p) /\ NextPos(p) # SrcPos(u)
      /\ NextPos(p) \in Pos /\ SrcPos(u) \in Pos /\ RestPos(u) \in Pos
      /\ \A q \in Place : RestPos(u) # NextPos(q)
  BY <1>0, <1>1, PosDiffer, PosIn
<1>5. p \in Int /\ Law(SrcPos(u), o, own)
  <2>1. own[Overflow(o)] = Overflow(o)
    BY <1>0, <1>3
  <2>2. Law(SrcPos(u), o, own) <=> own[Overflow(o)] = Overflow(o)
    <3>1. PICK w : w = own
      OBVIOUS
    <3>2. Law(SrcPos(u), o, w) <=> w[Overflow(o)] = Overflow(o)
      BY <1>0, Laws
    <3>3. QED
      BY <1>0, <3>1, <3>2
  <2>3. QED
    BY <1>0, <2>1, <2>2, Owners
<1>6. h.ptr[NextPos(Overflow(o))] = None \/ RestPos(u) = FreePos \/ (\E q \in Place : RestPos(u) = NextPos(q))
        \/ \E v \in Users : RestPos(u) = RestPos(v)
  BY <1>0
<1>7. Chained(ptr, own, fileEnd)
  <2>1. Chained(Turned(h.ptr, RestPos(u), NextPos(Overflow(o)), SrcPos(u)), [h.own EXCEPT ![Overflow(o)] = p], fileEnd)
    BY <1>0, <1>1, <1>4, <1>5, <1>6, Turn
  <2>2. QED
    BY <1>0, <2>1
<1>8. /\ ptr[RestPos(u)] = h.ptr[NextPos(p)] /\ ptr[NextPos(p)] = None /\ ptr[SrcPos(u)] = o
      /\ \A y \in Pos : y \notin {RestPos(u), NextPos(p), SrcPos(u)} => ptr[y] = h.ptr[y]
  <2>1. \A y \in Pos : ptr[y] = IF y = RestPos(u) THEN h.ptr[NextPos(p)] ELSE IF y = NextPos(p) THEN h.ptr[SrcPos(u)]
                                ELSE IF y = SrcPos(u) THEN h.ptr[RestPos(u)] ELSE h.ptr[y]
    BY <1>0, <1>2, <1>4, TurnedIs
  <2>2. QED
    BY <1>0, <1>4, <2>1
<1>9. QED
  BY <1>0, <1>3, <1>7, <1>8

LEMMA NextSourceHeap ==
  ASSUME HashInv, NEW u \in Users, NEW h, Heap(h), block \in [Place -> Block], NextSource(u)
  PROVE  \E k : Heap(k)' /\ k.kept = h.kept
<1>1. PICK job, o, p : job = proc[u].job /\ o = job.rest /\ p = Overflow(o)
  OBVIOUS
<1>2. PICK todo, rest, new : /\ todo = h.view[p].recs /\ rest = h.view[p].next
                             /\ new = [job EXCEPT !.todo = todo, !.src = o, !.rest = rest]
  OBVIOUS
<1>3. /\ proc[u].at = "rewrite" /\ o # None /\ job.src = None /\ job.todo = <<>> /\ Working(u)
      /\ UNCHANGED <<block, fileEnd, freeChain, glock>>
  BY <1>1 DEF NextSource, Copied, Job, Working, file
<1>4. /\ WorkOK(u, job, h) /\ job \in JobType /\ job.to \in Seq([at : Place, blk : Block]) /\ job.todo \in Seq(Rec)
      /\ h.ptr[SrcPos(u)] = None /\ h.ptr[RestPos(u)] = o
      /\ \A t \in 1 .. Len(job.to) : BufferOK(u, job.to[t], h) /\ job.to[t] \in [at : Place, blk : Block]
  <2>1. WorkOK(u, job, h) /\ job \in JobType /\ job.to \in Seq([at : Place, blk : Block])
    BY <1>1, <1>3, RewriteIs
  <2>2. job.todo \in Seq(Rec) /\ h.ptr[SrcPos(u)] = None /\ h.ptr[RestPos(u)] = o
    BY <1>1, <1>3, RewriteIs
  <2>3. \A t \in 1 .. Len(job.to) : BufferOK(u, job.to[t], h) /\ job.to[t] \in [at : Place, blk : Block]
    BY <1>1, <1>3, RewriteIs
  <2>4. QED
    BY <2>1, <2>2, <2>3
<1>5. /\ o \in Over /\ p \in Place /\ p \notin Groups /\ OverflowNo(p) = o /\ o <= fileEnd
      /\ h.own[p] = Moving /\ block[p] = h.view[p]
      /\ h.view[p].part = NoPart /\ h.ptr[NextPos(p)] = rest /\ DistinctIds(todo)
      /\ todo \in Seq(Rec) /\ rest \in Over \cup {None}
      /\ (\A r \in RecsIn(todo) : r.id \in Ids /\ h.kept[r.id] = {r} /\ h.at[r.id] = p /\ r.id \in DOMAIN proc[u].was)
      /\ (rest = None => \A q \in Place : h.own[q] = Moving => q = p)
  <2>0. Resting(u, job, o, p)
    BY <1>1, <1>3 DEF Resting
  <2>1. o \in Over /\ p \in Place /\ p \notin Groups /\ OverflowNo(p) = o /\ o <= fileEnd
    BY <2>0, RestIs
  <2>2. h.own[p] = Moving /\ block[p] = h.view[p]
    BY <2>0, RestIs
  <2>3. h.view[p].part = NoPart /\ h.ptr[NextPos(p)] = rest /\ DistinctIds(todo)
    BY <1>2, <2>0, RestIs
  <2>4. todo \in Seq(Rec) /\ rest \in Over \cup {None}
    BY <1>2, <2>0, RestIs
  <2>5. \A r \in RecsIn(todo) : r.id \in Ids /\ h.kept[r.id] = {r} /\ h.at[r.id] = p /\ r.id \in DOMAIN proc[u].was
    BY <1>2, <2>0, RestIs
  <2>6. rest = None => \A q \in Place : h.own[q] = Moving => q = p
    <3>1. ASSUME rest = None, NEW q \in Place, h.own[q] = Moving
          PROVE  q = p
      BY <1>2, <2>0, <3>1, RestLast
    <3>2. QED
      BY <3>1
  <2>7. QED
    BY <2>1, <2>2, <2>3, <2>4, <2>5, <2>6, Zenon
<1>6. \A j \in 1 .. Len(job.to) : job.to[j].at # p /\ job.to[j].at \in Place
  BY <1>4, <1>5, Owners DEF BufferOK
<1>7. /\ h.view \in [Place -> Block] /\ h.at \in [Ids -> Nat] /\ Chained(h.ptr, h.own, fileEnd)
      /\ h.ptr[FreePos] = freeChain /\ fileEnd \in Int
  BY PtrIs DEF Heap
<1>8. Empty \in Block /\ Empty.next = None /\ Empty.recs = <<>> /\ Empty.part = NoPart
  BY DEF Empty, Block, NoPart, Part
<1>9. Works(u, new)
  BY <1>1, <1>2, <1>3, <1>5 DEF NextSource, Job
<1>10. PICK I : I = {r.id : r \in RecsIn(todo)}
  OBVIOUS
<1>11. PICK k : k = [view |-> [h.view EXCEPT ![p] = Empty], ptr |-> Turned(h.ptr, RestPos(u), NextPos(p), SrcPos(u)),
                     own |-> [h.own EXCEPT ![p] = p], kept |-> h.kept,
                     at |-> [j \in Ids |-> IF j \in I THEN 0 ELSE h.at[j]]]
  OBVIOUS
<1>12. /\ k.view = [h.view EXCEPT ![p] = Empty] /\ k.ptr = Turned(h.ptr, RestPos(u), NextPos(p), SrcPos(u))
       /\ k.own = [h.own EXCEPT ![p] = p] /\ k.kept = h.kept
       /\ k.at = [j \in Ids |-> IF j \in I THEN 0 ELSE h.at[j]]
  BY <1>11
<1>13. /\ k.view \in [Place -> Block] /\ k.view[p] = Empty /\ \A x \in Place : x # p => k.view[x] = h.view[x]
  BY <1>5, <1>7, <1>8, <1>12
<1>14. /\ Chained(k.ptr, k.own, fileEnd) /\ k.ptr[RestPos(u)] = rest /\ k.ptr[NextPos(p)] = None
       /\ k.ptr[SrcPos(u)] = o
       /\ (\A y \in Pos : y \notin {RestPos(u), NextPos(p), SrcPos(u)} => k.ptr[y] = h.ptr[y])
       /\ k.own[p] = p /\ \A x \in Place : x # p => k.own[x] = h.own[x]
  <2>1. PICK ptr, own : ptr = k.ptr /\ own = k.own
    OBVIOUS
  <2>2. Turning(u, h, o, p, ptr, own)
    BY <1>1, <1>4, <1>5, <1>12, <2>1 DEF Turning
  <2>3. Chained(ptr, own, fileEnd) /\ ptr[SrcPos(u)] = o
    BY <2>2, RestTurn
  <2>4. ptr[RestPos(u)] = h.ptr[NextPos(p)] /\ ptr[NextPos(p)] = None
    BY <2>2, RestTurn
  <2>5. \A y \in Pos : y \notin {RestPos(u), NextPos(p), SrcPos(u)} => ptr[y] = h.ptr[y]
    BY <2>2, RestTurn
  <2>6. own[p] = p /\ \A x \in Place : x # p => own[x] = h.own[x]
    BY <2>2, RestTurn
  <2>7. QED
    BY <1>5, <2>1, <2>3, <2>4, <2>5, <2>6
<1>15. /\ WorkOK(u, new, k) /\ new.todo = todo /\ new.src = o /\ new.rest = rest
       /\ WorkHand(job) \subseteq WorkHand(new) /\ p \in WorkHand(new)
  <2>1. SourceSet(u, h, k, job, todo, o, rest, new)
    <3>1. \A j \in 1 .. Len(job.to) : /\ k.view[job.to[j].at] = h.view[job.to[j].at]
                                      /\ k.own[job.to[j].at] = h.own[job.to[j].at]
      BY <1>6, <1>13, <1>14
    <3>2. job.pack => job.rest = None
      BY <1>4 DEF WorkOK
    <3>3. QED
      BY <1>1, <1>2, <1>3, <1>4, <1>5, <1>13, <3>1, <3>2 DEF SourceSet
  <2>2. WorkOK(u, new, k) /\ new.todo = todo /\ new.src = o /\ new.rest = rest
    BY <2>1, SourceWork
  <2>3. WorkHand(new) = {job.to[t].at : t \in 1 .. Len(job.to)} \cup {p}
    BY <1>1, <1>3, <2>1, SourceWork
  <2>4. QED
    BY <1>3, <2>2, <2>3 DEF WorkHand
<1>16. NewPlace(u, p, new, h, k)
  <2>1. Touchable(u, p, h)
    BY <1>5 DEF Touchable
  <2>2. k.ptr[NextPos(p)] = k.view[p].next /\ k.view[p].part = NoPart /\ h.view[p].part = NoPart
    BY <1>5, <1>8, <1>13, <1>14
  <2>3. DistinctIds(k.view[p].recs) /\ \A r \in RecsIn(k.view[p].recs) : k.kept[r.id] = {r} /\ k.at[r.id] = p
    BY <1>8, <1>13, NoRecs
  <2>4. OverflowNo(p) <= fileEnd'
    BY <1>3, <1>5
  <2>5. QED
    BY <1>5, <1>13, <1>15, <2>1, <2>2, <2>3, <2>4 DEF NewPlace
<1>17. \A x \in Place : x \notin {p} => SamePlace(x, h, k)
  <2>1. ASSUME NEW x \in Place, x \notin {p}
        PROVE  SamePlace(x, h, k)
    <3>1. k.ptr[NextPos(x)] = h.ptr[NextPos(x)]
      BY <1>14, <2>1, PosDiffer, PosIn
    <3>2. QED
      BY <1>3, <1>13, <1>14, <2>1, <3>1 DEF SamePlace
  <2>2. QED
    BY <2>1
<1>18. I \subseteq Ids /\ (\A i \in I : h.at[i] = p) /\ k.at \in [Ids -> Nat]
  <2>1. I \subseteq Ids /\ \A i \in I : h.at[i] = p
    BY <1>5, <1>10
  <2>2. k.at \in [Ids -> Nat]
    BY <1>7, <1>12
  <2>3. QED
    BY <2>1, <2>2
<1>19. \A i \in I : NewId(u, i, new, h, k)
  <2>1. ASSUME NEW i \in I
        PROVE  NewId(u, i, new, h, k)
    <3>1. PICK r \in RecsIn(todo) : r.id = i
      BY <1>10
    <3>2. h.kept[i] = {r} /\ i \in DOMAIN proc[u].was /\ i \in Ids
      BY <1>5, <3>1
    <3>3. k.at[i] = 0
      BY <1>12, <2>1, <3>2
    <3>4. QED
      BY <1>15, <3>1, <3>2, <3>3 DEF NewId
  <2>2. QED
    BY <2>1
<1>20. \A j \in Ids : j \notin I => SameId(u, j, {p}, new, h, k)
  <2>1. ASSUME NEW j \in Ids, j \notin I
        PROVE  SameId(u, j, {p}, new, h, k)
    <3>1. h.kept[j] # {} => h.at[j] # p
      <4>1. ASSUME h.kept[j] # {}, h.at[j] = p
            PROVE  FALSE
        <5>1. p # 0
          BY <1>5, FileConstants DEF Place
        <5>2. PICK r \in Rec : r.id = j /\ h.kept[j] = {r}
          BY <4>1 DEF Heap, IdOK
        <5>3. h.kept[j] \subseteq RecsIn(h.view[p].recs)
          BY <4>1, <5>1 DEF Heap, IdOK, InPlace
        <5>4. r \in RecsIn(todo)
          BY <1>2, <5>2, <5>3
        <5>5. QED
          BY <1>10, <2>1, <5>2, <5>4
      <4>2. QED
        BY <4>1
    <3>2. h.kept[j] # {} /\ h.at[j] \in Place /\ h.own[h.at[j]] = Moving => rest # None
      BY <1>5, <3>1
    <3>3. k.at[j] = h.at[j]
      BY <1>12, <2>1
    <3>4. QED
      BY <1>15, <3>1, <3>2, <3>3 DEF SameId
  <2>2. QED
    BY <2>1
<1>21. SamePtr(u, h, k) /\ k.ptr[SrcPos(u)] = new.src /\ k.ptr[RestPos(u)] = new.rest
  BY <1>5, <1>14, <1>15 DEF SamePtr
<1>22. \A x \in Place : x \notin {p} => \A r \in RecsIn(h.view[x].recs) : r.id \notin I
  <2>1. ASSUME NEW x \in Place, x # p, NEW r \in RecsIn(h.view[x].recs)
        PROVE  r.id \notin I
    <3>1. h.at[r.id] = x
      BY <2>1 DEF Heap, PlaceOK
    <3>2. QED
      BY <1>18, <2>1, <3>1
  <2>2. QED
    BY <2>1
<1>23. /\ DistinctIds(new.todo) /\ (\A r \in RecsIn(proc[u].job.todo) : r.id \in I \/ r \in RecsIn(new.todo))
       /\ \A r \in RecsIn(new.todo) : k.kept[r.id] = {r} /\ k.at[r.id] = 0 /\ r.id \in DOMAIN proc[u].was
  <2>1. \A r \in RecsIn(new.todo) : k.kept[r.id] = {r} /\ k.at[r.id] = 0 /\ r.id \in DOMAIN proc[u].was
    <3>1. ASSUME NEW r \in RecsIn(todo)
          PROVE  k.kept[r.id] = {r} /\ k.at[r.id] = 0 /\ r.id \in DOMAIN proc[u].was
      <4>1. r.id \in Ids /\ r.id \in I
        BY <1>5, <1>10
      <4>2. QED
        BY <1>5, <1>12, <4>1
    <3>2. QED
      BY <1>15, <3>1
  <2>2. QED
    BY <1>1, <1>3, <1>5, <1>15, <2>1, NoRecs
<1>24. fileEnd <= fileEnd' /\ Chained(k.ptr, k.own, fileEnd') /\ k.ptr[FreePos] = freeChain'
  <2>1. FreePos \in Pos /\ FreePos \notin {RestPos(u), NextPos(p), SrcPos(u)}
    BY PosDiffer, PosIn
  <2>2. QED
    BY <1>3, <1>7, <1>14, <2>1
<1>25. Heap(k)'
  <2>1. {p} \in SUBSET Place /\ I \in SUBSET Ids
    BY <1>5, <1>18
  <2>2. \A x \in {p} : NewPlace(u, x, new, h, k)
    BY <1>16
  <2>3. WorkHand(proc[u].job) \subseteq {p} \cup WorkHand(new)
    BY <1>1, <1>15
  <2>4. k.kept = h.kept
    BY <1>12
  <2>5. QED
    BY <1>3, <1>9, <1>13, <1>15, <1>17, <1>18, <1>19, <1>20, <1>21, <1>22, <1>23, <1>24, <2>1, <2>2, <2>3, <2>4, WorkHeap
<1>26. QED
  BY <1>12, <1>25

(* A free block holds nothing.                                              *)
LEMMA FreePlace ==
  ASSUME HashInv, NEW h, Heap(h), NEW p \in Place, h.own[p] = 0
  PROVE  /\ h.view[p].recs = <<>> /\ h.view[p].part = NoPart /\ h.ptr[NextPos(p)] = h.view[p].next
         /\ block[p] = h.view[p] /\ p \notin Groups
         /\ \A j \in Ids : h.kept[j] # {} => h.at[j] # p
         /\ h.view[p].next \in Over \cup {None}
<1>1. Chained(h.ptr, h.own, fileEnd) /\ h.view \in [Place -> Block] /\ PlaceOK(p, h)
  BY DEF Heap
<1>2. h.view[p].recs \in Seq(Rec) /\ h.view[p].next \in Over \cup {None}
  BY <1>1, BlockType
<1>3. h.view[p].part = NoPart /\ h.ptr[NextPos(p)] = h.view[p].next
  <2>1. h.own[p] \notin {Overflow(o) : o \in Over}
    BY Owners
  <2>2. QED
    BY <1>1, <2>1 DEF PlaceOK, PartOK
<1>4. p # 0
  BY FileConstants DEF Place
<1>5. \A j \in Ids : h.kept[j] # {} => h.at[j] # p
  <2>1. ASSUME NEW j \in Ids, h.kept[j] # {}, h.at[j] = p
        PROVE  FALSE
    <3>1. h.own[p] = Home(j) \/ h.own[p] = Moving
      BY <1>4, <2>1 DEF Heap, IdOK, InPlace
    <3>2. QED
      BY <2>1, <3>1, HomePresent, Owners
  <2>2. QED
    BY <2>1
<1>6. h.view[p].recs = <<>>
  <2>1. ASSUME NEW r \in RecsIn(h.view[p].recs)
        PROVE  FALSE
    <3>1. r.id \in Ids
      BY <1>2, <2>1, SomeRecs DEF Rec
    <3>2. h.kept[r.id] = {r} /\ h.at[r.id] = p
      BY <1>1, <2>1 DEF PlaceOK
    <3>3. QED
      BY <1>5, <3>1, <3>2
  <2>2. QED
    BY <1>2, <2>1, SomeRecs
<1>7. p \notin Groups
  <2>1. \A g \in Groups : h.own[Primary(g)] = g /\ Primary(g) = g
    BY <1>1, PtrIs, Places
  <2>2. QED
    BY <2>1, Owners
<1>8. block[p] = h.view[p]
  BY OnDiskFree
<1>9. QED
  BY <1>2, <1>3, <1>5, <1>6, <1>7, <1>8

(* A block is taken from the free chain, or else from the end of the file.  *)
Taking(h, x, n, c, p, ptr, own) ==
  /\ x \in Pos /\ h.ptr[x] = None /\ x # NextPos(p) /\ x # FreePos
  /\ n = NewBlock /\ p = Overflow(n) /\ GetOverflow
  /\ ptr = IF freeChain # None THEN Turned(h.ptr, FreePos, NextPos(p), x) ELSE [h.ptr EXCEPT ![x] = n]
  /\ c \in Int /\ own = [h.own EXCEPT ![p] = c]
  /\ Law(x, n, own)

LEMMA NewBlockIs ==
  ASSUME HashInv, NEW h, Heap(h), GetOverflow, NEW n, n = NewBlock, NEW p, p = Overflow(n)
  PROVE  /\ n \in Over /\ p \in Place /\ p \notin Groups /\ OverflowNo(p) = n
         /\ n <= fileEnd' /\ fileEnd <= fileEnd' /\ fileEnd \in Int /\ fileEnd' \in Int
         /\ h.own[p] = 0 /\ h.view[p].recs = <<>> /\ h.view[p].part = NoPart
         /\ (\A j \in Ids : h.kept[j] # {} => h.at[j] # p)
         /\ freeChain' = (IF freeChain # None THEN h.ptr[NextPos(p)] ELSE None)
         /\ (freeChain = None => n = fileEnd + 1 /\ fileEnd' = fileEnd + 1 /\ h.ptr[NextPos(p)] = None)
         /\ (freeChain # None => n = freeChain /\ fileEnd' = fileEnd)
<1>1. Chained(h.ptr, h.own, fileEnd) /\ h.ptr[FreePos] = freeChain
  BY DEF Heap
<1>2. n \in Over /\ p \in Place /\ p \notin Groups /\ OverflowNo(p) = n
  BY Places DEF GetOverflow
<1>3. fileEnd \in Int /\ n \in Int
  BY <1>1, <1>2, PtrIs, FileConstants DEF Over
<1>4. /\ (freeChain = None => n = fileEnd + 1 /\ fileEnd' = fileEnd + 1)
      /\ (freeChain # None => n = freeChain /\ fileEnd' = fileEnd)
  BY DEF GetOverflow, NewBlock
<1>5. h.own[p] = 0
  <2>1. CASE freeChain # None
    BY <1>1, <1>4, <2>1, OwnIs
  <2>2. CASE freeChain = None
    <3>1. PlaceOK(p, h) /\ OverflowNo(p) > fileEnd
      BY <1>2, <1>3, <1>4, <2>2 DEF Heap
    <3>2. QED
      BY <1>2, <3>1 DEF PlaceOK
  <2>3. QED
    BY <2>1, <2>2
<1>6. /\ h.view[p].recs = <<>> /\ h.view[p].part = NoPart /\ h.ptr[NextPos(p)] = h.view[p].next
      /\ block[p] = h.view[p]
  <2>1. h.view[p].recs = <<>> /\ h.view[p].part = NoPart
    BY <1>2, <1>5, FreePlace
  <2>2. h.ptr[NextPos(p)] = h.view[p].next /\ block[p] = h.view[p]
    BY <1>2, <1>5, FreePlace
  <2>3. QED
    BY <2>1, <2>2
<1>7. \A j \in Ids : h.kept[j] # {} => h.at[j] # p
  BY <1>2, <1>5, FreePlace
<1>8. n <= fileEnd' /\ fileEnd <= fileEnd' /\ fileEnd' \in Int
  <2>1. CASE freeChain # None
    <3>1. freeChain <= fileEnd
      BY <1>1, <2>1, PtrIs, PosIn
    <3>2. QED
      BY <1>3, <1>4, <2>1, <3>1
  <2>2. CASE freeChain = None
    BY <1>3, <1>4, <2>2
  <2>3. QED
    BY <2>1, <2>2
<1>9. freeChain' = (IF freeChain # None THEN h.ptr[NextPos(p)] ELSE None)
  BY <1>4, <1>6 DEF GetOverflow
<1>10. freeChain = None => h.ptr[NextPos(p)] = None
  <2>1. ASSUME freeChain = None
        PROVE  h.ptr[NextPos(p)] = None
    <3>1. PlaceOK(p, h) /\ OverflowNo(p) > fileEnd
      BY <1>2, <1>3, <1>4, <2>1 DEF Heap
    <3>2. h.view[p] = Empty
      BY <1>2, <3>1 DEF PlaceOK
    <3>3. QED
      BY <1>6, <3>2 DEF Empty
  <2>2. QED
    BY <2>1
<1>11. QED
  BY <1>2, <1>3, <1>4, <1>5, <1>6, <1>7, <1>8, <1>9, <1>10

LEMMA TakeBlock ==
  ASSUME HashInv, NEW h, Heap(h), NEW x, NEW n, NEW c, NEW p, NEW ptr, NEW own, Taking(h, x, n, c, p, ptr, own)
  PROVE  /\ Chained(ptr, own, fileEnd') /\ ptr[x] = n /\ ptr[NextPos(p)] = None /\ ptr[FreePos] = freeChain'
         /\ (\A y \in Pos : y \notin {x, NextPos(p), FreePos} => ptr[y] = h.ptr[y])
         /\ own[p] = c /\ \A q \in Place : q # p => own[q] = h.own[q]
<1>0. /\ x \in Pos /\ h.ptr[x] = None /\ x # NextPos(p) /\ x # FreePos
      /\ n = NewBlock /\ p = Overflow(n) /\ GetOverflow
      /\ ptr = (IF freeChain # None THEN Turned(h.ptr, FreePos, NextPos(p), x) ELSE [h.ptr EXCEPT ![x] = n])
      /\ c \in Int /\ own = [h.own EXCEPT ![p] = c]
      /\ Law(x, n, own)
  BY DEF Taking
<1>1. Chained(h.ptr, h.own, fileEnd) /\ h.ptr[FreePos] = freeChain
  BY DEF Heap
<1>2. h.own \in [Place -> Int] /\ h.ptr \in [Pos -> Over \cup {None}]
  BY <1>1, PtrIs
<1>3. /\ n \in Over /\ p \in Place
      /\ freeChain' = (IF freeChain # None THEN h.ptr[NextPos(p)] ELSE None)
      /\ (freeChain = None => n = fileEnd + 1 /\ fileEnd' = fileEnd + 1 /\ h.ptr[NextPos(p)] = None)
      /\ (freeChain # None => n = freeChain /\ fileEnd' = fileEnd)
  <2>1. n \in Over /\ p \in Place
    BY <1>0, NewBlockIs
  <2>2. freeChain' = (IF freeChain # None THEN h.ptr[NextPos(p)] ELSE None)
    BY <1>0, NewBlockIs
  <2>3. freeChain = None => n = fileEnd + 1 /\ fileEnd' = fileEnd + 1 /\ h.ptr[NextPos(p)] = None
    BY <1>0, NewBlockIs
  <2>4. freeChain # None => n = freeChain /\ fileEnd' = fileEnd
    BY <1>0, NewBlockIs
  <2>5. QED
    BY <2>1, <2>2, <2>3, <2>4
<1>4. own[p] = c /\ \A q \in Place : q # p => own[q] = h.own[q]
  BY <1>0, <1>2, <1>3
<1>5. /\ NextPos(p) # FreePos /\ NextPos(p) \in Pos /\ FreePos \in Pos
      /\ \A q \in Place : FreePos # NextPos(q)
  BY <1>3, PosDiffer, PosIn
<1>6. CASE freeChain # None
  <2>1. Chained(Turned(h.ptr, FreePos, NextPos(Overflow(n)), x), [h.own EXCEPT ![Overflow(n)] = c], fileEnd)
    <3>1. x = FreePos \/ (h.ptr[x] = None /\ ((\A q \in Place : FreePos # NextPos(q)) \/ \A q \in Place : x # NextPos(q)))
      BY <1>0, <1>5
    <3>2. h.ptr[FreePos] = n /\ NextPos(Overflow(n)) # x /\ FreePos # x
      BY <1>0, <1>1, <1>3, <1>6
    <3>3. Law(x, n, [h.own EXCEPT ![Overflow(n)] = c])
      BY <1>0
    <3>4. \/ h.ptr[NextPos(Overflow(n))] = None \/ FreePos = FreePos \/ (\E q \in Place : FreePos = NextPos(q))
          \/ \E u \in Users : FreePos = RestPos(u)
      OBVIOUS
    <3>5. QED
      BY <1>0, <1>1, <1>3, <1>5, <3>1, <3>2, <3>3, <3>4, Turn
  <2>2. \A y \in Pos : ptr[y] = IF y = FreePos THEN h.ptr[NextPos(p)] ELSE IF y = NextPos(p) THEN h.ptr[x]
                                ELSE IF y = x THEN h.ptr[FreePos] ELSE h.ptr[y]
    BY <1>0, <1>2, <1>5, <1>6, TurnedIs
  <2>3. Chained(ptr, own, fileEnd')
    BY <1>0, <1>3, <1>6, <2>1
  <2>4. QED
    BY <1>0, <1>1, <1>3, <1>4, <1>5, <1>6, <2>2, <2>3
<1>7. CASE freeChain = None
  <2>1. n = fileEnd + 1 /\ fileEnd' = fileEnd + 1 /\ h.ptr[NextPos(p)] = None
    BY <1>3, <1>7
  <2>2. Chained([h.ptr EXCEPT ![x] = fileEnd + 1], [h.own EXCEPT ![Overflow(fileEnd + 1)] = c], fileEnd + 1)
    <3>1. fileEnd + 1 \in Over /\ x # NextPos(Overflow(fileEnd + 1)) /\ h.ptr[NextPos(Overflow(fileEnd + 1))] = None
      BY <1>0, <1>3, <2>1
    <3>2. Law(x, fileEnd + 1, [h.own EXCEPT ![Overflow(fileEnd + 1)] = c])
      BY <1>0, <2>1
    <3>3. QED
      BY <1>0, <1>1, <3>1, <3>2, Grow
  <2>3. Chained(ptr, own, fileEnd')
    BY <1>0, <1>7, <2>1, <2>2
  <2>4. ptr[x] = n /\ \A y \in Pos : y # x => ptr[y] = h.ptr[y]
    BY <1>0, <1>2, <1>3, <1>7
  <2>5. QED
    BY <1>0, <1>1, <1>3, <1>4, <1>5, <1>7, <2>1, <2>3, <2>4
<1>8. QED
  BY <1>6, <1>7

LEMMA ExtendHeap ==
  ASSUME HashInv, NEW u \in Users, NEW h, Heap(h), block \in [Place -> Block], Extend(u)
  PROVE  \E k : Heap(k)' /\ k.kept = h.kept
<1>0. PICK job, t, r, q, n, p : /\ job = proc[u].job /\ t = Target(u) /\ r = Head(job.todo) /\ q = job.to[t].at
                                /\ n = NewBlock /\ p = Overflow(n)
  OBVIOUS
<1>1. Adding(u) /\ GetOverflow /\ UNCHANGED glock /\ Working(u) /\ proc[u].at = "rewrite"
  BY DEF Extend, Working, Adding
<1>2. PICK b, e, new : /\ b = BlockOf(h.view[q].recs, n) /\ e = Buffer(p, Empty)
                       /\ new = [job EXCEPT !.to = [job.to EXCEPT ![t] = e], !.todo = job.todo]
  OBVIOUS
<1>3. /\ t \in 1 .. Len(job.to) /\ job.to[t].blk.next = None /\ h.own[q] = Home(r.id) /\ r.id \in Ids
  <2>1. t \in 1 .. Len(job.to) /\ job.to[t].blk.next = None
    BY <1>0, <1>1, AddingIs
  <2>2. h.own[q] = Home(r.id) /\ r.id \in Ids
    BY <1>0, <1>1, AddingIs
  <2>3. QED
    BY <2>1, <2>2
<1>4. /\ WorkOK(u, job, h) /\ job \in JobType /\ job.to \in Seq([at : Place, blk : Block]) /\ job.todo \in Seq(Rec)
      /\ DistinctIds(job.todo)
      /\ (\A x \in RecsIn(job.todo) : h.kept[x.id] = {x} /\ h.at[x.id] = 0 /\ x.id \in DOMAIN proc[u].was)
      /\ h.ptr[SrcPos(u)] = job.src /\ h.ptr[RestPos(u)] = job.rest
      /\ \A j \in 1 .. Len(job.to) : BufferOK(u, job.to[j], h) /\ job.to[j] \in [at : Place, blk : Block]
  <2>1. WorkOK(u, job, h) /\ job \in JobType /\ job.to \in Seq([at : Place, blk : Block])
    BY <1>0, <1>1, RewriteIs
  <2>2. job.todo \in Seq(Rec) /\ DistinctIds(job.todo)
    BY <1>0, <1>1, RewriteIs
  <2>3. \A x \in RecsIn(job.todo) : h.kept[x.id] = {x} /\ h.at[x.id] = 0 /\ x.id \in DOMAIN proc[u].was
    BY <1>0, <1>1, RewriteIs
  <2>4. h.ptr[SrcPos(u)] = job.src /\ h.ptr[RestPos(u)] = job.rest
    BY <1>0, <1>1, RewriteIs
  <2>5. \A j \in 1 .. Len(job.to) : BufferOK(u, job.to[j], h) /\ job.to[j] \in [at : Place, blk : Block]
    BY <1>0, <1>1, RewriteIs
  <2>6. QED
    BY <2>1, <2>2, <2>3, <2>4, <2>5, Zenon
<1>5. q \in Place /\ h.view[q] = job.to[t].blk /\ h.own[q] \in Groups /\ MyLock(u, h.own[q], TRUE) \in glock
  BY <1>0, <1>3, <1>4 DEF BufferOK
<1>6. /\ h.view[q].part = NoPart /\ h.ptr[NextPos(q)] = None /\ DistinctIds(h.view[q].recs)
      /\ (\A x \in RecsIn(h.view[q].recs) : h.kept[x.id] = {x} /\ h.at[x.id] = q)
      /\ (q \notin Groups => OverflowNo(q) <= fileEnd)
      /\ (q \in Groups => h.own[q] = q)
      /\ h.view[q].recs \in Seq(Rec) /\ h.view[q] = BlockOf(h.view[q].recs, h.view[q].next) /\ h.view[q].next = None
  <2>0. h.view[q].next = None
    BY <1>3, <1>5
  <2>1. h.view[q].part = NoPart /\ h.ptr[NextPos(q)] = None /\ DistinctIds(h.view[q].recs)
    BY <1>5, <2>0, GroupPlace
  <2>2. \A x \in RecsIn(h.view[q].recs) : h.kept[x.id] = {x} /\ h.at[x.id] = q
    BY <1>5, GroupPlace
  <2>3. (q \notin Groups => OverflowNo(q) <= fileEnd) /\ (q \in Groups => h.own[q] = q)
    BY <1>5, GroupPlace
  <2>4. h.view[q].recs \in Seq(Rec) /\ h.view[q] = BlockOf(h.view[q].recs, h.view[q].next)
    BY <1>5, GroupPlace
  <2>5. QED
    BY <2>0, <2>1, <2>2, <2>3, <2>4
<1>7. /\ n \in Over /\ p \in Place /\ p \notin Groups /\ OverflowNo(p) = n
      /\ n <= fileEnd' /\ fileEnd <= fileEnd' /\ fileEnd \in Int /\ fileEnd' \in Int
      /\ h.own[p] = 0 /\ h.view[p].recs = <<>> /\ h.view[p].part = NoPart
      /\ \A j \in Ids : h.kept[j] # {} => h.at[j] # p
  <2>1. n \in Over /\ p \in Place /\ p \notin Groups /\ OverflowNo(p) = n
    BY <1>0, <1>1, NewBlockIs
  <2>2. n <= fileEnd' /\ fileEnd <= fileEnd' /\ fileEnd \in Int /\ fileEnd' \in Int
    BY <1>0, <1>1, NewBlockIs
  <2>3. h.own[p] = 0 /\ h.view[p].recs = <<>> /\ h.view[p].part = NoPart
    BY <1>0, <1>1, NewBlockIs
  <2>4. \A j \in Ids : h.kept[j] # {} => h.at[j] # p
    BY <1>0, <1>1, NewBlockIs
  <2>5. QED
    BY <2>1, <2>2, <2>3, <2>4
<1>8. p # q /\ q # 0
  BY <1>5, <1>7, Owners, FileConstants DEF Place
<1>9. /\ h.view \in [Place -> Block] /\ h.at \in [Ids -> Nat] /\ Chained(h.ptr, h.own, fileEnd)
      /\ h.own \in [Place -> Int]
  BY PtrIs DEF Heap
<1>10. /\ b \in Block /\ b.recs = h.view[q].recs /\ b.next = n /\ b.part = NoPart
       /\ Empty \in Block /\ Empty.next = None /\ Empty.recs = <<>> /\ Empty.part = NoPart
  BY <1>2, <1>6, <1>7 DEF BlockOf, Empty, Block, NoPart, Part
<1>11. PICK k : k = [view |-> [h.view EXCEPT ![q] = b, ![p] = Empty],
                     ptr |-> IF freeChain # None THEN Turned(h.ptr, FreePos, NextPos(p), NextPos(q))
                             ELSE [h.ptr EXCEPT ![NextPos(q)] = n],
                     own |-> [h.own EXCEPT ![p] = h.own[q]], kept |-> h.kept, at |-> h.at]
  OBVIOUS
<1>12. /\ k.view = [h.view EXCEPT ![q] = b, ![p] = Empty]
       /\ k.ptr = (IF freeChain # None THEN Turned(h.ptr, FreePos, NextPos(p), NextPos(q))
                   ELSE [h.ptr EXCEPT ![NextPos(q)] = n])
       /\ k.own = [h.own EXCEPT ![p] = h.own[q]] /\ k.kept = h.kept /\ k.at = h.at
  BY <1>11
<1>13. /\ k.view \in [Place -> Block] /\ k.view[q] = b /\ k.view[p] = Empty
       /\ \A x \in Place : x # q /\ x # p => k.view[x] = h.view[x]
  BY ZenonT(40), <1>5, <1>7, <1>8, <1>9, <1>10, <1>12
<1>14. Taking(h, NextPos(q), n, h.own[q], p, k.ptr, k.own)
  <2>1. Law(NextPos(q), n, k.own)
    <3>1. k.own[p] = h.own[q] /\ k.own[q] = h.own[q]
      BY <1>7, <1>8, <1>9, <1>5, <1>12
    <3>2. PICK w : w = k.own
      OBVIOUS
    <3>3. Law(NextPos(q), n, w) <=> w[Overflow(n)] = w[q]
      BY <1>5, Laws
    <3>4. QED
      BY <1>0, <3>1, <3>2, <3>3
  <2>2. NextPos(q) \in Pos /\ NextPos(q) # NextPos(p) /\ NextPos(q) # FreePos
    BY <1>5, <1>8, PosDiffer, PosIn
  <2>3. h.own[q] \in Int
    BY <1>5, <1>9
  <2>4. QED
    BY <1>0, <1>1, <1>6, <1>12, <2>1, <2>2, <2>3 DEF Taking
<1>15. /\ Chained(k.ptr, k.own, fileEnd') /\ k.ptr[NextPos(q)] = n /\ k.ptr[NextPos(p)] = None
       /\ k.ptr[FreePos] = freeChain'
       /\ (\A y \in Pos : y \notin {NextPos(q), NextPos(p), FreePos} => k.ptr[y] = h.ptr[y])
       /\ k.own[p] = h.own[q] /\ \A x \in Place : x # p => k.own[x] = h.own[x]
  <2>1. Chained(k.ptr, k.own, fileEnd') /\ k.ptr[NextPos(q)] = n /\ k.ptr[NextPos(p)] = None
    BY <1>14, TakeBlock
  <2>2. k.ptr[FreePos] = freeChain'
    BY <1>14, TakeBlock
  <2>3. \A y \in Pos : y \notin {NextPos(q), NextPos(p), FreePos} => k.ptr[y] = h.ptr[y]
    BY <1>14, TakeBlock
  <2>4. k.own[p] = h.own[q] /\ \A x \in Place : x # p => k.own[x] = h.own[x]
    BY <1>14, TakeBlock
  <2>5. QED
    BY <2>1, <2>2, <2>3, <2>4
<1>16. Works(u, new)
  <2>1. Works(u, [job EXCEPT !.to[t] = e])
    BY <1>0, <1>2 DEF Extend, Job
  <2>2. [job EXCEPT !.to[t] = e] = new
    BY <1>2, <1>4, JobPut
  <2>3. QED
    BY <2>1, <2>2
<1>17. \A j \in 1 .. Len(job.to) : j # t => job.to[j].at \notin {q, p} /\ job.to[j].at \in Place
  <2>1. ASSUME NEW j \in 1 .. Len(job.to), j # t
        PROVE  job.to[j].at \notin {q, p} /\ job.to[j].at \in Place
    <3>1. job.to[j].at # q
      BY SMTT(20), <1>0, <1>3, <1>4, <2>1, BuffersApart
    <3>2. job.to[j].at \in Place /\ h.own[job.to[j].at] \in Groups
      BY <1>4 DEF BufferOK
    <3>3. QED
      BY <1>7, <3>1, <3>2, Owners
  <2>2. QED
    BY <2>1
<1>18. job.src # None => Overflow(job.src) \notin {q, p} /\ Overflow(job.src) \in Place
  <2>1. ASSUME job.src # None
        PROVE  Overflow(job.src) \notin {q, p} /\ Overflow(job.src) \in Place
    <3>1. job.src \in Over /\ Overflow(job.src) \in Place /\ h.own[Overflow(job.src)] = Overflow(job.src)
      BY <1>0, <1>1, <2>1, SourceIs
    <3>2. QED
      BY <1>5, <1>7, <3>1, Owners
  <2>2. QED
    BY <2>1
<1>19. /\ WorkOK(u, new, k) /\ p \in WorkHand(new) /\ WorkHand(job) \subseteq {q, p} \cup WorkHand(new)
       /\ new.todo = job.todo /\ new.src = job.src /\ new.rest = job.rest
  <2>1. \A j \in 1 .. Len(job.to) : j # t => /\ k.view[job.to[j].at] = h.view[job.to[j].at]
                                             /\ k.own[job.to[j].at] = h.own[job.to[j].at]
    BY <1>13, <1>15, <1>17
  <2>2. job.src # None => k.view[Overflow(job.src)] = h.view[Overflow(job.src)]
    BY <1>13, <1>18
  <2>3. e \in [at : Place, blk : Block] /\ e.at = p /\ e.blk = Empty
    BY <1>2, <1>7, <1>10 DEF Buffer
  <2>4. k.view[e.at] = e.blk /\ k.own[e.at] = h.own[job.to[t].at] /\ (job.pack \/ e.blk.next = None)
    BY <1>0, <1>10, <1>13, <1>15, <2>3
  <2>5. Exchanged(u, h, k, job, t, e, job.todo, new)
    BY <1>2, <1>3, <1>4, <2>1, <2>2, <2>3, <2>4 DEF Exchanged
  <2>6. /\ WorkOK(u, new, k) /\ e.at \in WorkHand(new)
        /\ WorkHand(job) \subseteq {job.to[t].at} \cup WorkHand(new)
        /\ new.todo = job.todo /\ new.src = job.src /\ new.rest = job.rest
    BY <2>5, PutWork
  <2>7. QED
    BY <1>0, <2>3, <2>6
<1>20. block'[q] = b /\ \A x \in Place : x # q => block'[x] = block[x]
  <2>1. [h.view[q] EXCEPT !.next = n] = b
    BY <1>2, <1>6 DEF BlockOf
  <2>2. block' = [block EXCEPT ![q] = [h.view[q] EXCEPT !.next = n]]
    BY <1>0, <1>5 DEF Extend, Job
  <2>3. QED
    BY <1>5, <2>1, <2>2
<1>21. NewPlace(u, q, new, h, k)
  <2>1. Touchable(u, q, h)
    BY <1>1, <1>5 DEF Touchable
  <2>2. q \in Groups => ~AbsentGroup(q)
    BY <1>3, <1>6, HomePresent
  <2>3. k.ptr[NextPos(q)] = k.view[q].next /\ k.view[q].part = NoPart /\ block'[q] = k.view[q]
    BY <1>10, <1>13, <1>15, <1>20
  <2>4. DistinctIds(k.view[q].recs) /\ \A x \in RecsIn(k.view[q].recs) : k.kept[x.id] = {x} /\ k.at[x.id] = q
    BY <1>6, <1>10, <1>12, <1>13
  <2>5. q \notin Groups => OverflowNo(q) <= fileEnd'
    <3>1. ASSUME q \notin Groups
          PROVE  OverflowNo(q) <= fileEnd'
      <4>1. OverflowNo(q) \in Int /\ OverflowNo(q) <= fileEnd
        BY <1>5, <1>6, <3>1, Places, FileConstants DEF Over
      <4>2. QED
        BY <1>7, <4>1
    <3>2. QED
      BY <3>1
  <2>6. QED
    BY <1>6, <2>1, <2>2, <2>3, <2>4, <2>5 DEF NewPlace
<1>22. NewPlace(u, p, new, h, k)
  <2>1. Touchable(u, p, h)
    BY <1>7 DEF Touchable
  <2>2. k.ptr[NextPos(p)] = k.view[p].next /\ k.view[p].part = NoPart
    BY <1>10, <1>13, <1>15
  <2>3. DistinctIds(k.view[p].recs) /\ \A x \in RecsIn(k.view[p].recs) : k.kept[x.id] = {x} /\ k.at[x.id] = p
    BY <1>10, <1>13, NoRecs
  <2>4. QED
    BY <1>7, <1>19, <2>1, <2>2, <2>3 DEF NewPlace
<1>23. \A x \in Place : x \notin {q, p} => SamePlace(x, h, k)
  <2>1. ASSUME NEW x \in Place, x \notin {q, p}
        PROVE  SamePlace(x, h, k)
    <3>1. k.ptr[NextPos(x)] = h.ptr[NextPos(x)]
      BY <1>15, <2>1, PosDiffer, PosIn
    <3>2. QED
      BY <1>13, <1>15, <1>20, <2>1, <3>1 DEF SamePlace
  <2>2. QED
    BY <2>1
<1>24. \A j \in Ids : SameId(u, j, {q, p}, new, h, k)
  <2>1. ASSUME NEW j \in Ids
        PROVE  SameId(u, j, {q, p}, new, h, k)
    <3>1. h.kept[j] # {} /\ h.at[j] \in {q, p} =>
            k.own[h.at[j]] = h.own[h.at[j]] /\ h.kept[j] \subseteq RecsIn(k.view[h.at[j]].recs)
      <4>1. ASSUME h.kept[j] # {}, h.at[j] \in {q, p}
            PROVE  k.own[h.at[j]] = h.own[h.at[j]] /\ h.kept[j] \subseteq RecsIn(k.view[h.at[j]].recs)
        <5>1. h.at[j] = q
          BY <1>7, <4>1
        <5>2. h.kept[j] \subseteq RecsIn(h.view[q].recs)
          BY <1>8, <4>1, <5>1 DEF Heap, IdOK, InPlace
        <5>3. QED
          BY <1>5, <1>8, <1>10, <1>13, <1>15, <5>1, <5>2
      <4>2. QED
        BY <4>1
    <3>2. RestOf(proc[u]) = job.rest
      BY <1>0, <1>1 DEF RestOf
    <3>3. QED
      BY <1>12, <1>19, <3>1, <3>2 DEF SameId
  <2>2. QED
    BY <2>1
<1>25. SamePtr(u, h, k) /\ k.ptr[SrcPos(u)] = new.src /\ k.ptr[RestPos(u)] = new.rest
  <2>1. SamePtr(u, h, k)
    BY <1>5, <1>7, <1>15 DEF SamePtr
  <2>2. SrcPos(u) \in Pos /\ RestPos(u) \in Pos /\ SrcPos(u) \notin {NextPos(q), NextPos(p), FreePos}
        /\ RestPos(u) \notin {NextPos(q), NextPos(p), FreePos}
    BY PosDiffer, PosIn
  <2>3. QED
    BY <1>4, <1>15, <1>19, <2>1, <2>2
<1>26. /\ DistinctIds(new.todo)
       /\ \A x \in RecsIn(new.todo) : k.kept[x.id] = {x} /\ k.at[x.id] = 0 /\ x.id \in DOMAIN proc[u].was
  BY <1>4, <1>12, <1>19
<1>27. Heap(k)'
  <2>0. PICK I : I = {}
    OBVIOUS
  <2>1. {q, p} \in SUBSET Place /\ I \in SUBSET Ids
    BY <1>5, <1>7, <2>0
  <2>2. \A x \in {q, p} : NewPlace(u, x, new, h, k)
    BY <1>21, <1>22
  <2>3. WorkHand(proc[u].job) \subseteq {q, p} \cup WorkHand(new)
    BY <1>0, <1>19
  <2>4. (\A i \in I : NewId(u, i, new, h, k))
        /\ \A x \in Place : x \notin {q, p} => \A y \in RecsIn(h.view[x].recs) : y.id \notin I
    BY <2>0
  <2>5. \A j \in Ids : j \notin I => SameId(u, j, {q, p}, new, h, k)
    BY <1>24
  <2>6. \A y \in RecsIn(proc[u].job.todo) : y.id \in I \/ y \in RecsIn(new.todo)
    BY <1>0, <1>19
  <2>7. k.kept = h.kept /\ k.at \in [Ids -> Nat]
    BY <1>9, <1>12
  <2>8. QED
    BY <1>1, <1>7, <1>13, <1>15, <1>16, <1>19, <1>23, <1>25, <1>26, <2>1, <2>2, <2>3, <2>4, <2>5, <2>6, <2>7, WorkHeap
<1>28. QED
  BY <1>12, <1>27
=============================================================================
